SPECIFICATION Spec
CONSTANTS
  Slots = {k1}
  Stream <- MCStream
  Segment = 5
  MAXLINE = 2
  RECVQ = 5
  MAXLAG = 2
  Fds = {1, 2}
  ServerFds = {2}
  TlsFds = {2}
  Audiences = {{1}, {2}, {1, 2}}
  Buffers = {b1, b2, b3, b4}
  NoBuf = NoBuf
  BUFSIZE = 2
  BUFFERPOOL = 3
  HAS_FERGUSON_FLUSHER = TRUE
  MAXSENDQ = 2
  BLOCK = 2
  IOV_MAX = 2
  MaxRoom = 2
  MaxMessages = 3
 
INVARIANT StreamsIntact
PROPERTY StreamsFlow
CHECK_DEADLOCK FALSE
