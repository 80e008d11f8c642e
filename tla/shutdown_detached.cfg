SPECIFICATION Spec
CONSTANTS
  p1 = p1
  c1 = c1
  w1 = w1
  w2 = w2
  Peers = {p1}
  Clients = {c1}
  Traffic <- MCTraffic
  Workers = {w1, w2}
  Others = {0, 1}
  MaxElections = 1
INVARIANT DetachedDone
CHECK_DEADLOCK FALSE
