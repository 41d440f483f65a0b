CONSTANTS
  l1 = l1  l2 = l2
  f1 = f1  f2 = f2
  Listen <- TwoListen
  Pipe = Pipe
  Fd = {f1, f2}
  MaxConnections = 2
  Spare = 3
SPECIFICATION Spec
INVARIANTS PositionsExact EventsAccounted EventsCurrent
PROPERTY EveryEventReported
CHECK_DEADLOCK FALSE
