CONSTANTS
  Key = {1, 2, 3}
  Value = {7, 8}
  FSize = 3
  TSize = 2
  Hash <- HashMC
SPECIFICATION Spec
INVARIANTS NodesPartitioned IndexExact
PROPERTY ImplementsMultiMap
