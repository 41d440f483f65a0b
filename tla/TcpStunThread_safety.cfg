CONSTANTS
  l1 = l1  l2 = l2
  f1 = f1  f2 = f2  f3 = f3  f4 = f4
  Listen = {l1, l2}
  Pipe = Pipe
  Fd = {f1, f2, f3, f4}
  MaxConnections = 2
  SweepTimeout = 1
  GrowRate = 3
SYMMETRY SocketsAndFds
SPECIFICATION ServingSpec
INVARIANTS TypeOK NoLostWakeup OverrunBounded PoolConserved
PROPERTY SweepsOnlyOld
