SPECIFICATION Spec
CONSTANTS
  BanMasks <- MCMasks
  BanKind <- MCKind
  BanIncludes <- MCIncludes
  BanMatches <- MCMatches
  BanIdentities = {"a", "b"}
  MAXBANS = 2
  BanEdits <- MCEdits
  MAXMODEPARAMS = 2
  MaxBanClock = 2
  CmScenes <- MCScenes
  CmUsers = {"e1", "e2", "w1"}
  CmHome <- MCHome
  CmChans = {"c", "d"}
  MAXCHANS = 1
  MAX_BOUNCE = 1
  MAXOPLEVEL = 3
  MINUTE = 1
  DAYS = 2
  MaxWire = 2
 
INVARIANT ChannelsKept
PROPERTY EmptyGone
CHECK_DEADLOCK FALSE
