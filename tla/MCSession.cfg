SPECIFICATION Spec
CONSTANTS
  Families <- MCFamilies
  MaxUtterances = 3
  MaxCalls = 3
INVARIANTS BatchAnswersAll EntryIsOwn SlotIsFresh AbortTold TruncationTold
