SPECIFICATION MCSpec
CONSTANTS
  Contexts = {conf1, auth4, auth6}
  Kind <- MCKind
  Ids = {0, 1}
  RES_TIMEOUT = 1
  Answers <- MCAnswers
  ResolverTime = 2
  MaxLookups = 1
  MaxSends = 2
  client1 = client1
  client2 = client2
  addr1 = addr1
  addr2 = addr2
  Clients = {client1, client2}
  Addrs = {addr1, addr2}
  NoAddr = NoAddr
  Invalid = {addr2}
  Exemptions <- ExemptionsChange
  UserExempt = {}
  LIMIT = 2
  PERIOD = 1
  DELAY = 1
  ExpireAge = 1
  TargetAge = 1
  STARTTARGETS = 1
  TARGET_DELAY = 2
  ConnMod = 16
  AttMod = 3
  TimeMod = 16
  Epoch = 0
  MaxTime = 2
  MaxLeaks = 1
  Letters <- MCLetters
  MaskLen = 4
  OtherLen = 2
  NameLen = 3
  RuleLen = 5
  Worlds <- MCWorlds
SYMMETRY ClientSymmetry
INVARIANTS LookupsTracked RegistrySound MasksMatched MasksOrdered 
PROPERTY ThrottleFair
CHECK_DEADLOCK FALSE
