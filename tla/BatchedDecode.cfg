SPECIFICATION Spec
CONSTANTS
    MaxItems = 3
    MaxThreads = 2
    MaxNew = 3
    KvFloor = 2
    FirstWindow = 2
    Contexts = {4, 5, 8}
    PromptLens = {1, 3}
INVARIANTS BatchTypeOK PoolAnswersAll MaskIsPast BatchAsSingle
PROPERTY BatchReturns
CHECK_DEADLOCK FALSE
