SPECIFICATION Spec
CONSTANTS
  HasRunBatch = TRUE
  MaxUtterances = 2
  MessageLevels = {"warn", "info"}
  UserLevels = {"none", "warn"}
  MaxKept = 2
  MaxMessages = 3
INVARIANTS HooksRemoved InterruptTold NothingLost VerbosityKept
PROPERTIES CallShowsLog InterruptStopsRun
