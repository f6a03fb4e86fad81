CONSTANTS
  IdPrefix = "resource"
  Kinds = {"file", "socket"}
  EmptyKind = ""
  Owners = {"fs", "net"}
  Windows = {"main"}
  NoWindow = "none"
  MaxOpens = 4

SPECIFICATION ResourceSpec
INVARIANTS ResourceTypeOK OrderIsOpeningOrder
PROPERTY NeverReopened
