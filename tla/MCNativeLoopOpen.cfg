CONSTANTS
  Platforms = {"linux"}
  Labels = {"main", "aux", "tools"}
  Initial <- TwoInitial
  App = "app"
  MaxSlots <- LinuxSlots
  MaxCalls <- FewCalls

SPECIFICATION LoopSpec
PROPERTY OpenShowsItsLabel
CHECK_DEADLOCK FALSE
