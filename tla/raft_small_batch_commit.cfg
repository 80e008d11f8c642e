CONSTANTS
  Node = {A, B, C}
  None = None
  Command = {c}
  NoOp = NoOp
  MaxBatch = 1
  MaxTerm = 4
  MaxLog = 4
  MaxCalls = 2
  MaxFaults = 0
  A = A
  B = B
  C = C
  Disks = {"suffix"}
SPECIFICATION SpecFromDisks

PROPERTY CommittedImmutable
