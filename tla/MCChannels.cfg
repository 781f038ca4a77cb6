SPECIFICATION FairSpec
CONSTANTS
  s1 = s1
  s2 = s2
  s3 = s3
  u1 = u1
  u2 = u2
  u3 = u3
  Servers = {s1, s2, s3}
  Via <- MCLine
  Home <- MCHome
  NoChan = NoChan
  MaxKey = 1
  Grace = 1
  MaxTime = 3
  MaxQueue = 8
  MaxActs = 5
  Scenes <- MCScenes
INVARIANT MembersKept
INVARIANT ModesAgree
PROPERTY ComesToRest
CHECK_DEADLOCK FALSE
