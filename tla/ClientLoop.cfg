SPECIFICATION FairSpec
CONSTANTS
  MaxFlows = 5
  MSG_LEN = 2
  MAX_RECV_BUFFER_SIZE = 3
  MAX_SEND_BUFFER_SIZE = 3
INVARIANTS TypeOK WatchedIsNoticed
PROPERTIES ReadUnlessDeaf KeptOnlyByCuts
CHECK_DEADLOCK FALSE
