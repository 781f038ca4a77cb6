SPECIFICATION FairSpec
CONSTANTS
  s1 = s1
  s2 = s2
  s3 = s3
  n1 = n1
  n2 = n2
  h1 = h1
  h2 = h2
  Servers = {s1, s2, s3}
  NickNames = {n1, n2}
  Hosts = {h1, h2}
  NoUser = NoUser
  Via <- MCLine
  Capacity = 2
  Numbers = 2
  MaxTime = 1
  MaxQueue = 5
  Scenes <- MCScenes
 
PROPERTY ComesToRest
CHECK_DEADLOCK FALSE
