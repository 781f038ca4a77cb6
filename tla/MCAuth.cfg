SPECIFICATION MCSpec
CONSTANTS
  c1 = c1
  c2 = c2
  Clients = {c1, c2}
  Requests = {r1, r2}
  NoRequest = NoRequest
  MaxConns = 3
  MaxAnswers = 1
  Scenes <- MCScenes
  Instances = {i1, i2, i3}
  None = None
  Programs = {p1, p2}
  SpawnResults = {"ok"}
  WriteResults = {"all", "blocked"}
  MaxQueue = 1
INVARIANTS RequestsSound VerdictsOwn 
PROPERTY RegistrationEnds
CHECK_DEADLOCK FALSE
