SPECIFICATION FairSpec
CONSTANTS
  NumClients = 2
  NumFlows = 3
  Source <- MCSource
  Dest <- MCDest
  Coflow <- MCCoflow
  Big = {1, 2, 3}
  PoolSizes = {0, 3}
INVARIANTS TypeOK MasterIsMaster DeathNeedsReport
PROPERTY FlowEndsUnlessHeld
CHECK_DEADLOCK FALSE
