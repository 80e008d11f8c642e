CONSTANTS
  Node = {n1, n2, n3}
  None = None
  Command = {}
  NoOp = NoOp
  MaxBatch = 1
  MaxTerm = 2
  MaxLog = 1
  MaxCalls = 3
  MaxFaults = 1
SYMMETRY Symmetry
SPECIFICATION Spec
INVARIANTS ElectionSafety ElectedByMajority LeaderHintTruthful

