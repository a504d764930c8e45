SPECIFICATION FairSpec
CONSTANTS
  Trace <- MCTrace
  PhyMachineNum = 2
  MaxTime = 1
  MaxReports <- SomeTwice
INVARIANTS TypeOK SentOnceInOrder WholeCoflowSent ReportsConserved EarlyOnlyByRepeat
PROPERTIES AllReportedStops EveryFlowSent ServiceUntilRepeated
CHECK_DEADLOCK FALSE
