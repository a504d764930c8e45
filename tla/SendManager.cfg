SPECIFICATION FairSpec
CONSTANTS
  flow1 = flow1
  flow2 = flow2
  flow3 = flow3
  Tasks = {flow1, flow2, flow3}
  Speed <- TwoSpeeds
  Rates = {10, 20}
  Ports = {1001, 1002}
  max_task_number = 1
  SendCap = 2
  NoTask = NoTask
INVARIANTS TypeOK WaitQueueAccounted ReportedAfterSent NoReportForgotten FreedTaskUnused SenderShaped
PROPERTY AcceptedTaskSent
CHECK_DEADLOCK FALSE
