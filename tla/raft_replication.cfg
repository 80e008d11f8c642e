CONSTANTS
  Node = {n1, n2, n3}
  None = None
  Command = {c}
  NoOp = NoOp
  MaxBatch = 2
  MaxTerm = 2
  MaxLog = 2
  MaxCalls = 2
  MaxFaults = 1
SYMMETRY Symmetry
SPECIFICATION Spec
INVARIANTS MatchIndexTruthful
PROPERTY CommittedImmutable
