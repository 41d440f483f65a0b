CONSTANTS
  HeaderSize = 4
  AttrHeaderSize = 2
  Align = 2
  MaxMessageSize = 16
  MaxAttributeSize = 12
  MaxNumAttributes = 4
  Password <- PasswordMC
  NonceLifetime = 1
  Providers = {"long"}
  Messages <- MessagesMC
  HmacSize = 2
  MaxStringSize = 2
  PortSize = 1
  ChangeSize = 2
  ResponseLength = 4
  MaxTime = 1
  MaxExchanges = 2
SPECIFICATION Spec
INVARIANT FreshNonceAccepted
