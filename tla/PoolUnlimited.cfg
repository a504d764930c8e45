SPECIFICATION FairSpec
CONSTANTS
  Threads = {t1, t2, t3, t4}
  Main = Main
  recv_manager = recv_manager
  send_manager = send_manager
  file1 = file1
  file2 = file2
  sender1 = sender1
  Resident = {recv_manager, send_manager}
  ReceFiles = {file1, file2}
  Senders = {}
  Submitter <- ClientSubmitter
  max_thread_num_ = 0
  max_task_num_ = 1
  NoTask = NoTask
INVARIANTS TypeOK TasksAccounted IdleThreadPerTask
PROPERTY QueuedTaskRuns
CHECK_DEADLOCK FALSE
