---------------------------- MODULE SendManager -----------------------------
(***************************************************************************)
(* The sending half of a client: src/client/SendManager.{h,cpp}.           *)
(*                                                                         *)
(* Three kinds of threads meet here.  The client's main thread parses the  *)
(* master's instructions and calls appendTask.  The SendManager thread     *)
(* pops one task per round of its loop, connects to the destination,       *)
(* shapes the local port, hands a Sender to the thread pool, and then      *)
(* scans the running queue for finished tasks to report to the master and  *)
(* to free.  Each Sender thread sends its flow's data and marks the task.  *)
(* send_state is written by the SendManager and by the Sender with no      *)
(* lock.                                                                   *)
(*                                                                         *)
(* The pool is taken to run every Sender (ThreadPool shows when it does);  *)
(* the reply buffer is SocketManage's, counted in whole reports.           *)
(***************************************************************************)
EXTENDS Naturals, Sequences, FiniteSets, TrafficControl, Subsequences

CONSTANTS
  Tasks,            \* the SendTask structs that instructions create
  Speed,            \* Speed[t]: speed_Mbs of the instruction
  max_task_number,
  SendCap,          \* how many reports m_sendBuf holds
  NoTask

ASSUME SendAssumption ==
  /\ Speed \in [Tasks -> Rates]
  /\ Rates \subseteq Nat \ {0}
  /\ Ports \subseteq Nat \ {0}
  /\ max_task_number \in Nat
  /\ SendCap \in Nat \ {0}
  /\ NoTask \notin Tasks

VARIABLES
  main,                     \* the main thread: in appendTask, before the post?
  send_task_wait_queue,
  wait_queue_sem,
  send_task_running_queue,
  send_state,
  pc, send_task, scan,      \* SendManager::run: its place, task and scan index
  sender,                   \* where each task's Sender is in run()
  port, openSock,           \* local port of each task, sockets not closed yet
  m_sendBuf, reports,       \* reply buffer; complete copies given to the kernel
  exited                    \* the process called exit(1)

smVars == <<pc, send_task, scan>>
netVars == <<port, openSock, tcClass, tcFilter>>
replyVars == <<m_sendBuf, reports>>
queueVars == <<send_task_wait_queue, wait_queue_sem>>
vars == <<main, queueVars, send_task_running_queue, send_state, smVars, sender,
          netVars, replyVars, exited>>

\* "none": no struct yet; "dropped": rejected by appendTask; "freed": deleted.
TaskStates == {"none", "dropped", "SEND_WAIT", "SEND_RUNNING", "SEND_END",
               "TASK_END", "freed"}
SenderStates == {"none", "queued", "sending", "closing", "done"}

TypeOK ==
  /\ TcTypeOK
  /\ main \in {"parse", "post"}
  /\ send_task_wait_queue \in Seq(Tasks)
  /\ wait_queue_sem \in Nat
  /\ send_task_running_queue \in Seq(Tasks)
  /\ send_state \in [Tasks -> TaskStates]
  /\ pc \in {"wait", "pop", "connect", "limit", "launch", "mark", "scan"}
  /\ send_task \in Tasks \cup {NoTask}
  /\ scan \in Nat
  /\ sender \in [Tasks -> SenderStates]
  /\ port \in [Tasks -> Ports \cup {0}]
  /\ openSock \in SUBSET Tasks
  /\ m_sendBuf \in Seq(Tasks)
  /\ reports \in [Tasks -> Nat]
  /\ exited \in BOOLEAN

Init ==
  /\ InitTC
  /\ main = "parse"
  /\ send_task_wait_queue = <<>>
  /\ wait_queue_sem = 0
  /\ send_task_running_queue = <<>>
  /\ send_state = [t \in Tasks |-> "none"]
  /\ pc = "wait"
  /\ send_task = NoTask
  /\ scan = 1
  /\ sender = [t \in Tasks |-> "none"]
  /\ port = [t \in Tasks |-> 0]
  /\ openSock = {}
  /\ m_sendBuf = <<>>
  /\ reports = [t \in Tasks |-> 0]
  /\ exited = FALSE

-----------------------------------------------------------------------------
(* appendTask, in the main thread *)

\* Under wait_queue_locker.  The caller ignores the result of a rejection.
AppendTask(t) ==
  /\ ~exited
  /\ main = "parse"
  /\ send_state[t] = "none"
  /\ IF Len(send_task_wait_queue) > max_task_number
       THEN /\ send_state' = [send_state EXCEPT ![t] = "dropped"]
            /\ UNCHANGED <<main, send_task_wait_queue>>
       ELSE /\ send_state' = [send_state EXCEPT ![t] = "SEND_WAIT"]
            /\ send_task_wait_queue' = Append(send_task_wait_queue, t)
            /\ main' = "post"
  /\ UNCHANGED <<wait_queue_sem, send_task_running_queue, smVars, sender,
                 netVars, replyVars, exited>>

\* Mutant: a binary semaphore, which forgets a post made while one is pending.
PostOne == wait_queue_sem' = 1

PostSem == wait_queue_sem' = wait_queue_sem + 1

PostTask ==
  /\ ~exited
  /\ main = "post"
  /\ PostSem
  /\ main' = "parse"
  /\ UNCHANGED <<send_task_wait_queue, send_task_running_queue, send_state,
                 smVars, sender, netVars, replyVars, exited>>

-----------------------------------------------------------------------------
(* SendManager::run *)

\* Mutant: sem_wait returns without a post.
SemReady == TRUE

SemPosted == wait_queue_sem > 0

WaitSem ==
  /\ ~exited
  /\ pc = "wait"
  /\ SemPosted
  /\ wait_queue_sem' = wait_queue_sem - 1
  /\ pc' = "pop"
  /\ UNCHANGED <<main, send_task_wait_queue, send_task_running_queue, send_state,
                 send_task, scan, sender, netVars, replyVars, exited>>

\* Mutant: pop_front is forgotten.
PeekQueue == UNCHANGED send_task_wait_queue

PopQueue == send_task_wait_queue' = Tail(send_task_wait_queue)

\* Under wait_queue_locker.
PopTask ==
  /\ ~exited
  /\ pc = "pop"
  /\ IF send_task_wait_queue = <<>>
       THEN /\ pc' = "wait"
            /\ UNCHANGED <<send_task_wait_queue, send_task>>
       ELSE /\ send_task' = Head(send_task_wait_queue)
            /\ PopQueue
            /\ pc' = "connect"
  /\ UNCHANGED <<main, wait_queue_sem, send_task_running_queue, send_state, scan,
                 sender, netVars, replyVars, exited>>

\* socket, bind to random ports until one is free, connect.  A refused
\* connection is printed and ignored: the Sender meets it.
Connect(p) ==
  /\ ~exited
  /\ pc = "connect"
  /\ p \notin {port[t] : t \in openSock}
  /\ port' = [port EXCEPT ![send_task] = p]
  /\ openSock' = openSock \cup {send_task}
  /\ pc' = "limit"
  /\ UNCHANGED <<main, queueVars, send_task_running_queue, send_state, send_task,
                 scan, sender, tcClass, tcFilter, replyVars, exited>>

LimitPort ==
  /\ ~exited
  /\ pc = "limit"
  /\ SetIpPortBandwidth(port[send_task], Speed[send_task])
  /\ pc' = "launch"
  /\ UNCHANGED <<main, queueVars, send_task_running_queue, send_state, send_task,
                 scan, sender, port, openSock, replyVars, exited>>

\* new Sender; pool->append: from here on the Sender runs concurrently.
LaunchSender ==
  /\ ~exited
  /\ pc = "launch"
  /\ sender' = [sender EXCEPT ![send_task] = "queued"]
  /\ pc' = "mark"
  /\ UNCHANGED <<main, queueVars, send_task_running_queue, send_state, send_task,
                 scan, netVars, replyVars, exited>>

\* The write of send_state comes after the launch, with no lock.
MarkRunning ==
  /\ ~exited
  /\ pc = "mark"
  /\ send_state' = [send_state EXCEPT ![send_task] = "SEND_RUNNING"]
  /\ send_task_running_queue' = Append(send_task_running_queue, send_task)
  /\ scan' = 1
  /\ pc' = "scan"
  /\ UNCHANGED <<main, queueVars, send_task, sender, netVars, replyVars, exited>>

ScanSkip ==
  /\ ~exited
  /\ pc = "scan"
  /\ scan <= Len(send_task_running_queue)
  /\ send_state[send_task_running_queue[scan]] # "SEND_END"
  /\ scan' = scan + 1
  /\ UNCHANGED <<main, queueVars, send_task_running_queue, send_state, pc,
                 send_task, sender, netVars, replyVars, exited>>

\* Complete copies the master gets when the kernel takes the first k of buf.
CountReports(buf, k) ==
  [t \in Tasks |-> reports[t] + Cardinality({i \in 1..k : buf[i] = t})]

\* sendMessage: the kernel takes all of it and the buffer is cleared, or it
\* takes less (EAGAIN or a short count) and the whole buffer is kept.
SendBuffer(buf) ==
  \/ m_sendBuf' = <<>> /\ reports' = CountReports(buf, Len(buf))
  \/ \E k \in 0..Len(buf)-1 : m_sendBuf' = buf /\ reports' = CountReports(buf, k)

\* "while (!setSendMsg(...));" then sendMsg: a full buffer spins here for ever,
\* as no other thread empties it.
ScanReply ==
  /\ ~exited
  /\ pc = "scan"
  /\ scan <= Len(send_task_running_queue)
  /\ LET t == send_task_running_queue[scan] IN
       /\ send_state[t] = "SEND_END"
       /\ Len(m_sendBuf) < SendCap
       /\ SendBuffer(Append(m_sendBuf, t))
       /\ send_state' = [send_state EXCEPT ![t] = "TASK_END"]
  /\ scan' = scan + 1
  /\ UNCHANGED <<main, queueVars, send_task_running_queue, pc, send_task, sender,
                 netVars, exited>>

\* Mutant: what ended since the scan is erased with what was reported.
EndedOrReported(t) == send_state[t] \in {"SEND_END", "TASK_END"}

Reported(t) == send_state[t] = "TASK_END"

\* The second loop over the list: erase, delete the Sender and the task.
EraseReported ==
  /\ ~exited
  /\ pc = "scan"
  /\ scan > Len(send_task_running_queue)
  /\ send_task_running_queue' =
       Taken(send_task_running_queue, {i \in DOMAIN send_task_running_queue :
                                         ~Reported(send_task_running_queue[i])})
  /\ send_state' =
       [t \in Tasks |-> IF (\E i \in DOMAIN send_task_running_queue :
                              send_task_running_queue[i] = t) /\ Reported(t)
                          THEN "freed" ELSE send_state[t]]
  /\ send_task' = NoTask
  /\ pc' = "wait"
  /\ UNCHANGED <<main, queueVars, scan, sender, netVars, replyVars, exited>>

-----------------------------------------------------------------------------
(* Sender::run, in a pool thread *)

\* Mutant: the task is marked before its data is sent.
MarkEarly(t) == send_state' = [send_state EXCEPT ![t] = "SEND_END"]

StartUnmarked(t) == UNCHANGED send_state

SenderStart(t) ==
  /\ ~exited
  /\ sender[t] = "queued"
  /\ sender' = [sender EXCEPT ![t] = "sending"]
  /\ StartUnmarked(t)
  /\ UNCHANGED <<main, queueVars, send_task_running_queue, smVars, netVars,
                 replyVars, exited>>

\* The loop of send() is over; end_time and then send_state are written.
SenderEnd(t) ==
  /\ ~exited
  /\ sender[t] = "sending"
  /\ send_state' = [send_state EXCEPT ![t] = "SEND_END"]
  /\ sender' = [sender EXCEPT ![t] = "closing"]
  /\ UNCHANGED <<main, queueVars, send_task_running_queue, smVars, netVars,
                 replyVars, exited>>

\* send() fails (the connection was refused or reset, or its descriptor is
\* closed): exit(1) ends the whole client.
SenderFails(t) ==
  /\ ~exited
  /\ sender[t] = "sending"
  /\ exited' = TRUE
  /\ UNCHANGED <<main, queueVars, send_task_running_queue, send_state, smVars,
                 sender, netVars, replyVars>>

\* close(sockfd).  sockfd is a member of the Sender: once the SendManager has
\* freed it, the value read is undefined.  It can still be there, it can be no
\* descriptor, or the memory can hold the Sender of another task.
SenderClose(t) ==
  /\ ~exited
  /\ sender[t] = "closing"
  /\ \E closed \in (IF send_state[t] = "freed" THEN openSock \cup {NoTask} ELSE {t}) :
       openSock' = openSock \ {closed}
  /\ sender' = [sender EXCEPT ![t] = "done"]
  /\ UNCHANGED <<main, queueVars, send_task_running_queue, send_state, smVars,
                 port, tcClass, tcFilter, replyVars, exited>>

-----------------------------------------------------------------------------

MainStep == PostTask

SendManagerStep ==
  \/ WaitSem \/ PopTask \/ (\E p \in Ports : Connect(p)) \/ LimitPort
  \/ LaunchSender \/ MarkRunning \/ ScanSkip \/ ScanReply \/ EraseReported

SenderStep(t) == SenderStart(t) \/ SenderEnd(t) \/ SenderFails(t) \/ SenderClose(t)

Next ==
  \/ \E t \in Tasks : AppendTask(t) \/ SenderStep(t)
  \/ MainStep
  \/ SendManagerStep

Spec == Init /\ [][Next]_vars

\* Every thread is scheduled.  Nothing makes the master send another instruction,
\* nothing gives a queued Sender a thread, as the others may never return, and
\* nothing makes a blocking send() return: the destination may never read.
FairSpec ==
  /\ Spec
  /\ WF_vars(MainStep)
  /\ WF_vars(SendManagerStep)
  /\ \A t \in Tasks : WF_vars(SenderClose(t))

-----------------------------------------------------------------------------
(* Properties *)

InSeq(s, t) == \E i \in DOMAIN s : s[i] = t

\* Every waiting task has a post that will wake the SendManager for it.
WaitQueueAccounted ==
  Len(send_task_wait_queue) = wait_queue_sem + (IF pc = "pop" THEN 1 ELSE 0)
                              + (IF main = "post" THEN 1 ELSE 0)

\* The master is told that a flow ended only after all its data was sent.
ReportedAfterSent ==
  \A t \in Tasks : reports[t] > 0 \/ InSeq(m_sendBuf, t) => sender[t] \in {"closing", "done"}

\* A finished task is forgotten by the client only once its report was given to
\* the kernel or is in the reply buffer.
NoReportForgotten ==
  \A t \in Tasks : send_state[t] \in {"TASK_END", "freed"} =>
                     reports[t] > 0 \/ InSeq(m_sendBuf, t)

\* A SendTask is never used after it was freed: its Sender is past its last
\* access to it.  (The Sender object freed with it is used: see SenderClose.)
FreedTaskUnused ==
  \A t \in Tasks : send_state[t] = "freed" =>
    /\ sender[t] \in {"closing", "done"}
    /\ ~InSeq(send_task_running_queue, t) /\ ~InSeq(send_task_wait_queue, t)

\* A Sender's source port is shaped to its own flow's speed from before its
\* first byte to its last, although ports are reused and classes are not removed.
SenderShaped ==
  \A t \in openSock : sender[t] \in {"queued", "sending"} => RateOf(port[t]) = Speed[t]

\* The SendManager spins in "while (!setSendMsg(...));".
ReplyBufferFull == pc = "scan" /\ Len(m_sendBuf) = SendCap

\* The SendManager spins in the bind loop: no port is free.
NoPortFree == pc = "connect" /\ Ports = {port[t] : t \in openSock}

\* A task that appendTask accepted is eventually sent, unless the process
\* exited, the SendManager is held for ever in one of its two unbounded loops, or
\* the task has a Sender that waits for ever: for a thread of the pool, or in a
\* send() to a destination that does not read.
AcceptedTaskSent ==
  \A t \in Tasks : send_state[t] = "SEND_WAIT" ~>
    \/ sender[t] = "done" \/ exited
    \/ []ReplyBufferFull \/ []NoPortFree
    \/ [](sender[t] \in {"queued", "sending"})

-----------------------------------------------------------------------------
(* What comments of the source say *)

\* SendManager.cpp:88: the loop handles the tasks marked SEND_END and returns
\* their completion to the master.  So a mark must not be undone.
EndMarkKept ==
  [][\A t \in Tasks : send_state[t] = "SEND_END" => send_state'[t] # "SEND_RUNNING"]_vars

\* The same comment: a flow that ended is reported.
EndedFlowReported ==
  \A t \in Tasks : sender[t] = "done" ~>
    (reports[t] > 0 \/ exited \/ []ReplyBufferFull \/ []NoPortFree)

=============================================================================
