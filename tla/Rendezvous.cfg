CONSTANTS
  a = a  b = b
  Peer = {a, b}
  NoPeer = NoPeer
  MaxTries = 2
  Stray = 1
SPECIFICATION Spec
PROPERTY RendezvousConnects
CHECK_DEADLOCK FALSE
