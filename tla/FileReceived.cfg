SPECIFICATION Spec
CONSTANTS
  Conns = {c1, c2}
  Fds = {fd7}
  NoConn = NoConn
  NoFd = NoFd
INVARIANT FileReceived
CHECK_DEADLOCK FALSE
