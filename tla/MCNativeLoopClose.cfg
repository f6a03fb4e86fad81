CONSTANTS
  Platforms = {"linux"}
  Labels = {"main", "aux", "tools"}
  Initial <- TwoInitial
  App = "app"
  MaxSlots <- LinuxSlots
  MaxCalls <- FewCalls

SPECIFICATION LoopSpec
PROPERTY CloseDestroysItsLabel
CHECK_DEADLOCK FALSE
