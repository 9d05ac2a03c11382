SPECIFICATION Spec
CONSTANTS
  Sessions = {a, b}
  NoFile = NoFile
  MaxFetches = 3
INVARIANT SavedExists
