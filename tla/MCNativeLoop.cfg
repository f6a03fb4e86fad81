CONSTANTS
  Platforms = {"linux", "macos", "windows"}
  Labels = {"main", "aux", "tools"}
  Initial <- TwoInitial
  App = "app"
  MaxSlots <- Slots
  MaxCalls <- Calls

SPECIFICATION LoopSpec
INVARIANTS LoopTypeOK SlotsKnownToSession WindowsAreCounted OwnAnswers RestartReplaces
PROPERTIES CloseTakesOne InitialWindowsAnswered WindowsComeUpOrGo
CHECK_DEADLOCK FALSE
