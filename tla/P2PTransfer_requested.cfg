CONSTANTS
  a = a  b = b  c = c
  f = f  g = g
  x = x  y = y
  Peer = {a, b, c}
  NoPeer = NoPeer
  File = {f, g}
  NoFile = NoFile
  Data = {x, y}
  Shared <- ThreeShared
  Target <- ThreeTarget
  Transient = {}
SPECIFICATION Spec
INVARIANT ComposedIsRequested
CHECK_DEADLOCK FALSE
