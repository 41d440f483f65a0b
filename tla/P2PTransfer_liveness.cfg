CONSTANTS
  a = a  b = b  c = c
  f = f  g = g
  x = x  y = y
  Peer = {a, b}
  NoPeer = NoPeer
  File = {f}
  NoFile = NoFile
  Data = {x, y}
  Shared <- OneWayShared
  Target <- TwoTarget
  Transient = {"respond data sector", "respond apk sector"}
SPECIFICATION FairSpec
PROPERTY TransferEnds
CHECK_DEADLOCK FALSE
