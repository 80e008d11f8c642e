CONSTANTS
  Node = {A, B, C}
  None = None
  Command = {c}
  NoOp = NoOp
  MaxBatch = 2
  MaxTerm = 4
  MaxLog = 3
  MaxCalls = 2
  MaxFaults = 1
  A = A
  B = B
  C = C
  Disks = {"forked", "overruled", "suffix"}
SPECIFICATION FairSpecFromDisks
INVARIANTS TypeOK RaftInv IndexesInLog StateMachineSafety LeaderCompleteness LogMatching NothingLeftToCommit
PROPERTIES LeaderConverges RejectionBacksUp ImplementsReplicatedLog
