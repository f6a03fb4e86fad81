CONSTANTS
  Names = {"api", "db", "web"}
  Plans <- SomePlans
  MaxTracked = 2

SPECIFICATION ServiceSpec
INVARIANTS ServiceTypeOK NothingRunsUnseen NoServiceOutlivesTheRun
INVARIANTS SignalStrandsOneAtMost LoopHasItsServices
PROPERTY FailedRunsEnd
CHECK_DEADLOCK FALSE
