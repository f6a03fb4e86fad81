CONSTANTS
  IdPrefix = "channel"
  PlainPrefix = "resource"
  Kinds = {"channel", "file"}
  PlainKinds = {"file"}
  EmptyKind = ""
  Owners = {"fs"}
  Windows = {main, tools}
  NoWindow = none
  ChannelKind = "channel"
  DataKinds = {"error"}
  MaxOpens = 2
  MaxMessages = 2
  MaxPlainOpens = 1
  MaxAnswers = 2

SYMMETRY WindowSymmetry
SPECIFICATION AppSpec
INVARIANTS AppTypeOK MessagesStayWithTheirWindow NoMessageTwice
PROPERTY CommandsStayInTheirWindow
