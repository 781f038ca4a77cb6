SPECIFICATION FairSpec
CONSTANTS
  s1 = s1
  s2 = s2
  s3 = s3
  m1 = m1
  m2 = m2
  m3 = m3
  m4 = m4
  r1 = r1
  r2 = r2
  Servers = {s1, s2, s3}
  Via <- MCLine
  Masks = {m1, m2, m3, m4}
  Text <- MCText
  MAXUSERCOUNT = 2
  Reasons = {r1, r2}
  NoBan = NoBan
  MAX_EXPIRE = 5
  MaxTime = 5
  MaxQueue = 6
  Scenes <- MCScenes
INVARIANT BansEnforced
PROPERTY BanHistory
PROPERTY ComesToRest
CHECK_DEADLOCK FALSE
