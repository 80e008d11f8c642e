SPECIFICATION Spec
CONSTANTS
  Writer = Writer
  Reader = Reader
  Remover = Remover
  k1 = k1
  v1 = v1
  v2 = v2
  Key = {k1}
  Value = {v1, v2}
  Missing = Missing
  Handler <- MCHandler
  Command <- MCCommand
  Foreign <- MCForeign
  MaxTerm = 3
  MaxLog = 3
  MaxRestarts = 1
INVARIANTS    SlotsInUse
CHECK_DEADLOCK FALSE
