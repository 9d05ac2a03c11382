SPECIFICATION Spec
CONSTANTS
  Sessions = {a, b}
  NoFile = NoFile
  MaxFetches = 3
INVARIANTS TypeOK InstalledIsWhole SavedAlone NoLeftovers
PROPERTIES InstalledStays
