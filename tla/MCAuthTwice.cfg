SPECIFICATION MCSpec
CONSTANTS
  c1 = c1
  c2 = c2
  Clients = {c1, c2}
  Requests = {r1, r2}
  NoRequest = NoRequest
  MaxConns = 3
  MaxAnswers = 1
  Scenes <- MCTwice
  Instances = {i1}
  None = None
  Programs = {p1}
  SpawnResults = {"ok"}
  WriteResults = {"all"}
  MaxQueue = 0
INVARIANT RequestsOwned
CHECK_DEADLOCK FALSE
