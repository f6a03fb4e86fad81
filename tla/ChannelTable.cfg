CONSTANTS
  IdPrefix = "channel"
  Kinds = {"channel"}
  EmptyKind = ""
  Owners = {"fs"}
  Windows = {"main", "tools"}
  NoWindow = "none"
  ChannelKind = "channel"
  DataKinds = {"data", "error"}
  MaxOpens = 2
  MaxMessages = 3

SPECIFICATION ChannelSpec
INVARIANTS ChannelTypeOK TablesAgree StreamIntact
PROPERTY ImplementsStreams
