SPECIFICATION MCSpec
CONSTANTS
  Contexts = {conf1}
  Kind <- MCKind
  Ids = {0, 1, 2}
  RES_TIMEOUT = 1
  Answers <- MCAnswers
  ResolverTime = 2
  MaxLookups = 1
  MaxSends = 2
  client1 = client1
  client2 = client2
  addr1 = addr1
  addr2 = addr2
  Clients = {client1}
  Addrs = {addr1, addr2}
  NoAddr = NoAddr
  Invalid = {addr2}
  Exemptions <- ExemptionsChange
  UserExempt = {}
  LIMIT = 2
  PERIOD = 1
  DELAY = 1
  ExpireAge = 2
  TargetAge = 1
  STARTTARGETS = 1
  TARGET_DELAY = 2
  ConnMod = 16
  AttMod = 4
  TimeMod = 16
  Epoch = 0
  MaxTime = 0
  MaxLeaks = 0
  Letters <- MCLetters
  MaskLen = 1
  OtherLen = 1
  NameLen = 1
  RuleLen = 1
  Worlds <- MCWorlds
INVARIANT TimeoutScheduled
CHECK_DEADLOCK FALSE
