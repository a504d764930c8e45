SPECIFICATION Spec
CONSTANTS
  Threads = {t1, t2, t3, t4, t5, t6}
  Main = Main
  recv_manager = recv_manager
  send_manager = send_manager
  file1 = file1
  file2 = file2
  sender1 = sender1
  Resident = {recv_manager, send_manager}
  ReceFiles = {file1, file2}
  Senders = {sender1}
  Submitter <- ClientSubmitter
  max_thread_num_ = 3
  max_task_num_ = 2
  NoTask = NoTask
INVARIANTS OvershootBounded OneLiveRun
SYMMETRY ThreadSymmetry
CHECK_DEADLOCK FALSE
