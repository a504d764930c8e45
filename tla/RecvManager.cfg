SPECIFICATION FairSpec
CONSTANTS
  Conns = {c1, c2, c3}
  Fds = {fd7, fd8}
  NoConn = NoConn
  NoFd = NoFd
INVARIANTS TypeOK OwnConnection StrandedOnlyByBurst CompleteUnlessReused
PROPERTY DataGetsJob
CHECK_DEADLOCK FALSE
