SPECIFICATION MCSpec
CONSTANTS
  t1 = t1
  t2 = t2
  s1 = s1
  s2 = s2
  Timers = {t1, t2}
  Sockets = {s1, s2}
  RefMod = 8
  MaxTime = 2
  Scenes <- MCScenes
  Socks = {s1, s2}
  NoSock = NoSock
  MaxFd = 2
  MaxRef = 2
  ERROR_THRESHOLD = 2
  EngineScenes <- MCEngineScenes
INVARIANT EnginesSound
PROPERTY NoEventAfterDelete
PROPERTY EngineImplemented
PROPERTY EventsHappen
