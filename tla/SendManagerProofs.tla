-------------------------- MODULE SendManagerProofs --------------------------
(***************************************************************************)
(* Safety of SendManager for all sets of tasks and ports, all speeds and   *)
(* all sizes of its queues.                                                *)
(***************************************************************************)
EXTENDS SendManager, Integers, SequenceTheorems, FiniteSetTheorems, WellFoundedInduction, TLAPS

-----------------------------------------------------------------------------
(* Lemmas *)

\* A set of numbers has a least one.
LEMMA LeastNumber ==
  ASSUME NEW T, T \subseteq Nat, T # {}
  PROVE  \E k \in T : \A i \in T : k <= i
<1>1. \E R : IsWellFoundedOn(R, Nat) /\ \A i, k \in Nat : <<i, k>> \in R <=> i < k
  <2> DEFINE R == OpToRel(<, Nat)
  <2>1. IsWellFoundedOn(R, Nat)
    BY NatLessThanWellFounded
  <2>2. \A i, k \in Nat : <<i, k>> \in R <=> i < k
    BY DEF OpToRel
  <2> HIDE DEF R
  <2>3. QED
    BY <2>1, <2>2
<1>2. PICK R : IsWellFoundedOn(R, Nat) /\ \A i, k \in Nat : <<i, k>> \in R <=> i < k
  BY <1>1
<1>3. PICK k \in T : \A i \in T : <<i, k>> \notin R
  <2>1. IsWellFoundedOn(R, Nat) /\ T \subseteq Nat /\ T # {}
    BY <1>2
  <2>2. QED
    BY <2>1, WFMin, Zenon
<1>4. \A i \in T : ~(i < k)
  BY <1>2, <1>3, Zenon
<1>5. k \in Nat /\ \A i \in T : i \in Nat
  OBVIOUS
<1>6. \A i \in T : k <= i
  BY <1>4, <1>5
<1>7. QED
  BY <1>6

\* Parts of 1..L are finite.
LEMMA PartFinite ==
  ASSUME NEW L \in Nat, NEW S, S \subseteq 1..L
  PROVE  IsFiniteSet(S) /\ Cardinality(S) \in Nat /\ (Cardinality(S) = 0 <=> S = {})
<1>1. IsFiniteSet(1..L)
  BY FS_Interval
<1>2. IsFiniteSet(S)
  BY <1>1, FS_Subset
<1>3. QED
  BY <1>2, FS_CardinalityType, FS_EmptySet

\* There is an n-th number.
LEMMA NthExists ==
  ASSUME NEW L \in Nat, NEW S, S \subseteq 1..L, NEW n \in 1..Cardinality(S)
  PROVE  Nth(S, n) \in S
<1> DEFINE UpTo(k) == {j \in S : j <= k}
           count(k) == Cardinality(UpTo(k))
           T == {k \in Nat : count(k) >= n}
<1>0. \A j \in S : j \in Nat /\ 1 <= j /\ j <= L
  OBVIOUS
<1>1. n \in Nat /\ n >= 1 /\ n <= Cardinality(S)
  BY PartFinite
<1>2. \A k \in Nat : IsFiniteSet(UpTo(k)) /\ count(k) \in Nat
  <2> SUFFICES ASSUME NEW k \in Nat PROVE IsFiniteSet(UpTo(k)) /\ count(k) \in Nat
    OBVIOUS
  <2>1. UpTo(k) \subseteq 1..L
    OBVIOUS
  <2> QED
    BY <2>1, PartFinite
<1>3. count(L) >= n
  <2>1. UpTo(L) = S
    BY <1>0
  <2>2. QED
    BY <1>1, <2>1, PartFinite
<1>4. count(0) = 0
  <2>0. \A j \in S : ~(j <= 0)
    BY <1>0
  <2>1. UpTo(0) = {}
    BY <2>0
  <2>2. QED
    BY <2>1, FS_EmptySet
<1>5. ASSUME NEW k \in Nat
      PROVE  /\ k + 1 \in S => count(k + 1) = count(k) + 1
             /\ k + 1 \notin S => count(k + 1) = count(k)
  <2>0. \A j \in S : j <= k + 1 <=> j <= k \/ j = k + 1
    BY <1>0
  <2>1. k + 1 \in S => UpTo(k + 1) = UpTo(k) \cup {k + 1}
    BY <1>0, <2>0
  <2>2. k + 1 \notin S => UpTo(k + 1) = UpTo(k)
    BY <2>0
  <2>3. k + 1 \notin UpTo(k) /\ IsFiniteSet(UpTo(k))
    BY <1>2
  <2>4. Cardinality(UpTo(k) \cup {k + 1}) = count(k) + 1
    BY <2>3, FS_AddElement
  <2>5. QED
    BY <2>1, <2>2, <2>4
<1> HIDE DEF count
<1>6. PICK k \in T : \A i \in T : k <= i
  <2>1. T \subseteq Nat /\ T # {}
    BY <1>3
  <2>2. QED
    BY <2>1, LeastNumber
<1>7. k \in Nat /\ count(k) >= n
  OBVIOUS
<1>8. k # 0
  BY <1>1, <1>4, <1>7
<1>9. PICK m \in Nat : k = m + 1
  <2>1. k - 1 \in Nat /\ k = (k - 1) + 1
    BY <1>7, <1>8
  <2>2. QED
    BY <2>1
<1>10. ~(count(m) >= n)
  <2>1. m \notin T
    BY <1>6, <1>9
  <2>2. QED
    BY <2>1
<1>11. k \in S /\ count(k) = n
  <2>1. count(m) \in Nat /\ count(k) \in Nat
    BY <1>2, <1>7
  <2>2. /\ k \in S => count(k) = count(m) + 1
        /\ k \notin S => count(k) = count(m)
    BY <1>5, <1>9
  <2>3. QED
    BY <1>1, <1>7, <1>10, <2>1, <2>2
<1>12. \E i \in S : Cardinality({j \in S : j <= i}) = n
  BY <1>11 DEF count
<1>13. QED
  BY <1>12 DEF Nth

\* What is taken of a sequence is a sequence of some of its elements.
LEMMA TakenOf ==
  ASSUME NEW Set, NEW s \in Seq(Set), NEW S, S \subseteq DOMAIN s
  PROVE  /\ Taken(s, S) \in Seq(Set)
         /\ \A n \in DOMAIN Taken(s, S) : \E i \in S : Taken(s, S)[n] = s[i]
<1>1. Len(s) \in Nat /\ S \subseteq 1..Len(s)
  OBVIOUS
<1>2. Cardinality(S) \in Nat
  BY <1>1, PartFinite
<1>3. \A n \in 1..Cardinality(S) : Nth(S, n) \in S
  BY <1>1, NthExists
<1>4. QED
  BY <1>2, <1>3 DEF Taken

\* How many copies of a report are given to the kernel.
LEMMA Copies ==
  ASSUME NEW buf \in Seq(Tasks), NEW k \in 0..Len(buf), NEW t \in Tasks, reports \in [Tasks -> Nat]
  PROVE  /\ CountReports(buf, k)[t] \in Nat
         /\ reports[t] > 0 => CountReports(buf, k)[t] > 0
         /\ (\E i \in 1..k : buf[i] = t) => CountReports(buf, k)[t] > 0
         /\ CountReports(buf, k)[t] > 0 => reports[t] > 0 \/ \E i \in 1..k : buf[i] = t
<1> DEFINE I == {i \in 1..k : buf[i] = t}
<1>1. k \in Nat /\ I \subseteq 1..k
  OBVIOUS
<1>2. Cardinality(I) \in Nat /\ (Cardinality(I) = 0 <=> I = {})
  BY <1>1, PartFinite
<1>3. CountReports(buf, k)[t] = reports[t] + Cardinality(I)
  BY DEF CountReports
<1>4. reports[t] \in Nat
  OBVIOUS
<1>5. I = {} <=> ~\E i \in 1..k : buf[i] = t
  OBVIOUS
<1> HIDE DEF I
<1>6. QED
  BY <1>2, <1>3, <1>4, <1>5

\* sendMessage after setSendMsg of t's report.
LEMMA ReplyTypes ==
  ASSUME m_sendBuf \in Seq(Tasks), reports \in [Tasks -> Nat], NEW t \in Tasks,
         SendBuffer(Append(m_sendBuf, t))
  PROVE  /\ m_sendBuf' \in Seq(Tasks) /\ reports' \in [Tasks -> Nat]
         /\ \A u \in Tasks : reports[u] > 0 \/ InSeq(m_sendBuf, u) \/ u = t
                               <=> reports'[u] > 0 \/ InSeq(m_sendBuf', u)
<1> DEFINE buf == Append(m_sendBuf, t)
<1>1. /\ buf \in Seq(Tasks) /\ Len(buf) \in Nat
      /\ \A u \in Tasks : InSeq(buf, u) <=> InSeq(m_sendBuf, u) \/ u = t
      /\ \A u \in Tasks : InSeq(buf, u) <=> \E i \in 1..Len(buf) : buf[i] = u
  <2>1. /\ buf \in Seq(Tasks) /\ Len(buf) = Len(m_sendBuf) + 1
        /\ \A i \in 1..Len(m_sendBuf) : buf[i] = m_sendBuf[i]
        /\ buf[Len(m_sendBuf) + 1] = t
    BY AppendProperties
  <2>2. Len(m_sendBuf) \in Nat /\ DOMAIN m_sendBuf = 1..Len(m_sendBuf) /\ DOMAIN buf = 1..Len(buf)
    BY <2>1, LenProperties
  <2> HIDE DEF buf
  <2>3. ASSUME NEW u \in Tasks
        PROVE  InSeq(buf, u) <=> InSeq(m_sendBuf, u) \/ u = t
    <3>1. InSeq(m_sendBuf, u) => InSeq(buf, u)
      BY <2>1, <2>2 DEF InSeq
    <3>2. InSeq(buf, t)
      BY <2>1, <2>2, SMTT(30) DEF InSeq
    <3>3. InSeq(buf, u) => InSeq(m_sendBuf, u) \/ u = t
      BY <2>1, <2>2 DEF InSeq
    <3>4. QED
      BY <3>1, <3>2, <3>3
  <2>4. QED
    BY <2>1, <2>2, <2>3 DEF InSeq
<1>2. /\ <<>> \in Seq(Tasks)
      /\ \A u \in Tasks : ~InSeq(<<>>, u)
  BY DEF InSeq
<1> HIDE DEF buf
<1>a. ASSUME NEW k \in 0..Len(buf), reports' = CountReports(buf, k), NEW u \in Tasks
      PROVE  /\ reports'[u] \in Nat
             /\ reports[u] > 0 => reports'[u] > 0
             /\ k = Len(buf) /\ InSeq(buf, u) => reports'[u] > 0
             /\ reports'[u] > 0 => reports[u] > 0 \/ InSeq(buf, u)
  <2>1. /\ (\E i \in 1..k : buf[i] = u) => InSeq(buf, u)
        /\ k = Len(buf) /\ InSeq(buf, u) => \E i \in 1..k : buf[i] = u
    BY <1>1
  <2>2. /\ CountReports(buf, k)[u] \in Nat
        /\ reports[u] > 0 => CountReports(buf, k)[u] > 0
        /\ (\E i \in 1..k : buf[i] = u) => CountReports(buf, k)[u] > 0
        /\ CountReports(buf, k)[u] > 0 => reports[u] > 0 \/ \E i \in 1..k : buf[i] = u
    BY <1>1, Copies
  <2>3. QED
    BY <1>a, <2>1, <2>2
<1>b. ASSUME NEW k \in 0..Len(buf), reports' = CountReports(buf, k)
      PROVE  reports' \in [Tasks -> Nat]
  BY <1>a, <1>b DEF CountReports
<1>3. CASE m_sendBuf' = <<>> /\ reports' = CountReports(buf, Len(buf))
  <2>1. PICK k \in 0..Len(buf) : k = Len(buf) /\ reports' = CountReports(buf, k)
    BY <1>1, <1>3
  <2>2. \A u \in Tasks : reports'[u] > 0 <=> reports[u] > 0 \/ InSeq(buf, u)
    BY <1>a, <2>1
  <2>3. QED
    BY <1>1, <1>2, <1>3, <1>b, <2>1, <2>2
<1>4. CASE \E k \in 0..Len(buf) - 1 : m_sendBuf' = buf /\ reports' = CountReports(buf, k)
  <2>1. PICK k \in 0..Len(buf) - 1 : m_sendBuf' = buf /\ reports' = CountReports(buf, k)
    BY <1>4
  <2>2. k \in 0..Len(buf)
    BY <1>1
  <2>3. \A u \in Tasks : /\ reports[u] > 0 => reports'[u] > 0
                         /\ reports'[u] > 0 => reports[u] > 0 \/ InSeq(buf, u)
    BY <1>a, <2>1, <2>2
  <2>4. QED
    BY <1>1, <1>b, <2>1, <2>2, <2>3
<1>5. QED
  BY <1>3, <1>4 DEF SendBuffer, buf

\* What the erasure leaves in the running queue was there and is not reported.
LEMMA ErasedOf ==
  ASSUME send_task_running_queue \in Seq(Tasks), EraseReported
  PROVE  /\ send_task_running_queue' \in Seq(Tasks)
         /\ \A n \in DOMAIN send_task_running_queue' :
              /\ InSeq(send_task_running_queue, send_task_running_queue'[n])
              /\ send_state[send_task_running_queue'[n]] # "TASK_END"
<1> DEFINE S == {i \in DOMAIN send_task_running_queue : ~Reported(send_task_running_queue[i])}
<1>1. send_task_running_queue' = Taken(send_task_running_queue, S)
  BY DEF EraseReported
<1>2. S \subseteq DOMAIN send_task_running_queue
  OBVIOUS
<1>3. \A i \in S : /\ InSeq(send_task_running_queue, send_task_running_queue[i])
                   /\ send_state[send_task_running_queue[i]] # "TASK_END"
  BY DEF InSeq, Reported
<1> HIDE DEF S
<1>4. QED
  BY <1>1, <1>2, <1>3, TakenOf

-----------------------------------------------------------------------------
(* Types *)

Busy == pc \in {"connect", "limit", "launch", "mark"}

TypeInv ==
  /\ TypeOK
  /\ scan >= 1
  /\ Busy => send_task \in Tasks

LEMMA TypeInit == Init => TypeInv
<1> SUFFICES ASSUME Init PROVE TypeInv
  OBVIOUS
<1>1. TcTypeOK
  BY DEF Init, InitTC, TcTypeOK, DefaultClass
<1>2. /\ send_task_wait_queue \in Seq(Tasks) /\ send_task_running_queue \in Seq(Tasks)
      /\ m_sendBuf \in Seq(Tasks)
  BY DEF Init
<1>3. /\ send_state \in [Tasks -> TaskStates] /\ sender \in [Tasks -> SenderStates]
      /\ port \in [Tasks -> Ports \cup {0}] /\ reports \in [Tasks -> Nat]
  BY DEF Init, TaskStates, SenderStates
<1>4. /\ main = "parse" /\ wait_queue_sem \in Nat /\ pc = "wait" /\ send_task = NoTask
      /\ scan \in Nat /\ scan >= 1 /\ openSock = {}
  BY DEF Init
<1>5. exited = FALSE
  BY DEF Init
<1>6. QED
  BY Zenon, <1>5, <1>1, <1>2, <1>3, <1>4 DEF TypeInv, TypeOK, Busy

LEMMA TypeNext == TypeInv /\ [Next]_vars => TypeInv'
<1> SUFFICES ASSUME TypeInv, [Next]_vars PROVE TypeInv'
  OBVIOUS
<1> USE DEF TypeInv, TypeOK, Busy, TaskStates, smVars, netVars, replyVars, queueVars
<1>1. ASSUME NEW t \in Tasks, AppendTask(t) PROVE TypeInv'
  <2>1. /\ send_state' \in [Tasks -> TaskStates] /\ main' \in {"parse", "post"}
        /\ send_task_wait_queue' \in Seq(Tasks)
    <3>1. CASE Len(send_task_wait_queue) > max_task_number
      BY <1>1, <3>1 DEF AppendTask
    <3>2. CASE ~(Len(send_task_wait_queue) > max_task_number)
      <4>1. Append(send_task_wait_queue, t) \in Seq(Tasks)
        BY AppendProperties
      <4>2. QED
        BY <1>1, <3>2, <4>1 DEF AppendTask
    <3>3. QED
      BY <3>1, <3>2
  <2>2. UNCHANGED <<wait_queue_sem, send_task_running_queue, smVars, sender, netVars,
                    replyVars, exited>>
    BY <1>1 DEF AppendTask
  <2>3. QED
    BY <2>1, <2>2 DEF TcTypeOK
<1>2. CASE PostTask
  BY <1>2 DEF PostTask, PostSem, TcTypeOK
<1>3. CASE WaitSem
  BY <1>3 DEF WaitSem, SemPosted, TcTypeOK
<1>4. CASE PopTask
  <2>1. /\ send_task_wait_queue' \in Seq(Tasks)
        /\ \/ pc' = "wait" /\ send_task' = send_task
           \/ pc' = "connect" /\ send_task' \in Tasks
    <3>1. CASE send_task_wait_queue = <<>>
      BY <1>4, <3>1 DEF PopTask
    <3>2. CASE send_task_wait_queue # <<>>
      BY <1>4, <3>2, HeadTailProperties, ZenonT(30) DEF PopTask, PopQueue
    <3>3. QED
      BY <3>1, <3>2
  <2>2. UNCHANGED <<main, wait_queue_sem, send_task_running_queue, send_state, scan, sender,
                    netVars, replyVars, exited>>
    BY <1>4 DEF PopTask
  <2>3. QED
    BY <2>1, <2>2 DEF TcTypeOK
<1>5. ASSUME NEW p \in Ports, Connect(p) PROVE TypeInv'
  BY <1>5 DEF Connect, TcTypeOK
<1>6. CASE LimitPort
  <2>1. port[send_task] \in Ports \cup {0} /\ Speed[send_task] \in Rates
    BY <1>6, SendAssumption DEF LimitPort
  <2>2. TcTypeOK'
    BY <1>6, <2>1, ZenonT(30) DEF LimitPort, SetIpPortBandwidth, AddTcClass, ReplaceFilter, TcTypeOK
  <2>3. /\ pc' = "launch"
        /\ UNCHANGED <<main, queueVars, send_task_running_queue, send_state, send_task, scan,
                       sender, port, openSock, replyVars, exited>>
    BY <1>6 DEF LimitPort
  <2>4. QED
    BY <1>6, <2>2, <2>3 DEF LimitPort
<1>7. CASE LaunchSender
  BY <1>7 DEF LaunchSender, SenderStates, TcTypeOK
<1>8. CASE MarkRunning
  BY <1>8 DEF MarkRunning, TcTypeOK
<1>9. CASE ScanSkip
  BY <1>9 DEF ScanSkip, TcTypeOK
<1>10. CASE ScanReply
  <2> DEFINE t == send_task_running_queue[scan]
  <2>1. /\ t \in Tasks
        /\ SendBuffer(Append(m_sendBuf, t))
        /\ send_state' = [send_state EXCEPT ![t] = "TASK_END"]
    BY <1>10 DEF ScanReply
  <2> HIDE DEF t
  <2>2. m_sendBuf' \in Seq(Tasks) /\ reports' \in [Tasks -> Nat]
    BY <2>1, ReplyTypes
  <2>3. /\ scan' \in Nat /\ scan' >= 1
        /\ UNCHANGED <<main, queueVars, send_task_running_queue, pc, send_task, sender, netVars,
                       exited>>
    BY <1>10 DEF ScanReply
  <2>4. QED
    BY <2>1, <2>2, <2>3 DEF TcTypeOK
<1>11. CASE EraseReported
  <2>1. send_task_running_queue' \in Seq(Tasks)
    BY <1>11, ErasedOf
  <2>2. send_state' \in [Tasks -> TaskStates]
    BY <1>11 DEF EraseReported
  <2>3. /\ send_task' = NoTask /\ pc' = "wait"
        /\ UNCHANGED <<main, queueVars, scan, sender, netVars, replyVars, exited>>
    BY <1>11 DEF EraseReported
  <2>4. QED
    BY <2>1, <2>2, <2>3 DEF TcTypeOK
<1>12. ASSUME NEW t \in Tasks, SenderStep(t) PROVE TypeInv'
  BY <1>12 DEF SenderStep, SenderStart, StartUnmarked, SenderEnd, SenderFails, SenderClose,
     SenderStates, TcTypeOK
<1>13. CASE UNCHANGED vars
  BY <1>13 DEF vars, TcTypeOK
<1>14. QED
  BY <1>1, <1>2, <1>3, <1>4, <1>5, <1>6, <1>7, <1>8, <1>9, <1>10, <1>11, <1>12, <1>13
  DEF Next, MainStep, SendManagerStep

\* The types hold for all tasks, ports, speeds and sizes of the queues.
THEOREM TypeCorrect == Spec => []TypeOK
<1>1. TypeInv => TypeOK
  BY DEF TypeInv
<1>2. QED
  BY <1>1, TypeInit, TypeNext, PTL DEF Spec

LEMMA TypeInvCorrect == Spec => []TypeInv
  BY TypeInit, TypeNext, PTL DEF Spec

-----------------------------------------------------------------------------
(* Posts of the semaphore *)

LEMMA WaitQueueNext == TypeInv /\ WaitQueueAccounted /\ [Next]_vars => WaitQueueAccounted'
<1> SUFFICES ASSUME TypeInv, WaitQueueAccounted, [Next]_vars PROVE WaitQueueAccounted'
  OBVIOUS
<1>0. /\ send_task_wait_queue \in Seq(Tasks) /\ Len(send_task_wait_queue) \in Nat
      /\ wait_queue_sem \in Nat
  BY LenProperties DEF TypeInv, TypeOK
<1> USE DEF WaitQueueAccounted, smVars, queueVars
<1>1. ASSUME NEW t \in Tasks, AppendTask(t) PROVE WaitQueueAccounted'
  <2>1. main = "parse" /\ UNCHANGED <<wait_queue_sem, pc>>
    BY <1>1 DEF AppendTask
  <2>2. CASE Len(send_task_wait_queue) > max_task_number
    BY <1>1, <2>1, <2>2 DEF AppendTask
  <2>3. CASE ~(Len(send_task_wait_queue) > max_task_number)
    <3>1. Len(send_task_wait_queue') = Len(send_task_wait_queue) + 1 /\ main' = "post"
      BY <1>0, <1>1, <2>3, AppendProperties DEF AppendTask
    <3>2. QED
      BY <1>0, <2>1, <3>1
  <2>4. QED
    BY <2>2, <2>3
<1>2. CASE PostTask
  BY <1>0, <1>2 DEF PostTask, PostSem
<1>3. CASE WaitSem
  BY <1>0, <1>3 DEF WaitSem, SemPosted
<1>4. CASE PopTask
  <2>1. pc = "pop" /\ UNCHANGED <<main, wait_queue_sem>>
    BY <1>4 DEF PopTask
  <2>2. send_task_wait_queue # <<>>
    BY <1>0, <2>1
  <2>3. pc' = "connect" /\ Len(send_task_wait_queue') = Len(send_task_wait_queue) - 1
    BY <1>0, <1>4, <2>2, HeadTailProperties DEF PopTask, PopQueue
  <2>4. QED
    BY <1>0, <2>1, <2>3
<1>5. ASSUME NEW p \in Ports, Connect(p) PROVE WaitQueueAccounted'
  BY <1>0, <1>5 DEF Connect
<1>6. CASE LimitPort \/ LaunchSender \/ MarkRunning \/ ScanSkip \/ ScanReply \/ EraseReported
  <2>1. /\ pc # "pop" /\ pc' # "pop"
        /\ UNCHANGED <<main, send_task_wait_queue, wait_queue_sem>>
    BY <1>6 DEF LimitPort, LaunchSender, MarkRunning, ScanSkip, ScanReply, EraseReported
  <2>2. QED
    BY <2>1
<1>7. ASSUME NEW t \in Tasks, SenderStep(t) PROVE WaitQueueAccounted'
  BY <1>7 DEF SenderStep, SenderStart, SenderEnd, SenderFails, SenderClose
<1>8. CASE UNCHANGED vars
  BY <1>8 DEF vars
<1>9. QED
  BY <1>1, <1>2, <1>3, <1>4, <1>5, <1>6, <1>7, <1>8 DEF Next, MainStep, SendManagerStep

\* Whatever the interleaving of appendTask and SendManager::run, no task waits
\* in the queue without a post for it: the SendManager never sleeps on work.
THEOREM WaitQueueCorrect == Spec => []WaitQueueAccounted
<1>1. Init => WaitQueueAccounted
  <2> SUFFICES ASSUME Init PROVE WaitQueueAccounted
    OBVIOUS
  <2>1. /\ Len(send_task_wait_queue) = 0 /\ wait_queue_sem = 0 /\ pc # "pop" /\ main # "post"
    BY DEF Init
  <2>2. QED
    BY <2>1 DEF WaitQueueAccounted
<1>2. QED
  BY <1>1, WaitQueueNext, TypeInvCorrect, PTL DEF Spec

-----------------------------------------------------------------------------
(* Invariants *)

Waits(t)   == send_state[t] = "SEND_WAIT" /\ sender[t] = "none"
Past(t)    == sender[t] \in {"closing", "done"}
Ended(t)   == send_state[t] \in {"SEND_END", "TASK_END", "freed"}

\* A task that waits is in the queue or in the SendManager's hands, once, and
\* nobody else has touched it.
WaitInv ==
  /\ \A i \in DOMAIN send_task_wait_queue : Waits(send_task_wait_queue[i])
  /\ \A i, j \in DOMAIN send_task_wait_queue :
       send_task_wait_queue[i] = send_task_wait_queue[j] => i = j
  /\ \A t \in Tasks : send_state[t] = "none" => sender[t] = "none"
  /\ Busy =>
       \A i \in DOMAIN send_task_wait_queue : send_task_wait_queue[i] # send_task
  /\ pc \in {"connect", "limit", "launch"} => Waits(send_task)
  /\ pc = "mark" =>
       /\ sender[send_task] # "none"
       /\ send_state[send_task] \in {"SEND_WAIT", "SEND_END"}

\* Only a Sender past its loop makes its task end.
EndInv == \A t \in Tasks : Ended(t) => Past(t)

\* A port belongs to one open socket, that of the task being launched included
\* whether a late close hits it or not; its packets are held to its own class.
PortInv ==
  /\ \A p \in Ports : tcFilter[p] \in {DefaultClass, p}
  /\ \A t \in openSock : port[t] \in Ports
  /\ \A t, u \in openSock : port[t] = port[u] => t = u
  /\ pc \in {"limit", "launch"} =>
       /\ port[send_task] \in Ports
       /\ \A t \in openSock \ {send_task} : port[t] # port[send_task]
  /\ pc = "launch" => RateOf(port[send_task]) = Speed[send_task]

LEMMA WaitInit == Init => WaitInv
  BY DEF Init, WaitInv, Busy, Waits

LEMMA WaitNext == TypeInv /\ WaitInv /\ [Next]_vars => WaitInv'
<1> SUFFICES ASSUME TypeInv, WaitInv, [Next]_vars PROVE WaitInv'
  OBVIOUS
<1>0. /\ send_task_wait_queue \in Seq(Tasks) /\ Len(send_task_wait_queue) \in Nat
      /\ DOMAIN send_task_wait_queue = 1..Len(send_task_wait_queue)
      /\ \A i \in DOMAIN send_task_wait_queue : send_task_wait_queue[i] \in Tasks
      /\ send_state \in [Tasks -> TaskStates] /\ sender \in [Tasks -> SenderStates]
      /\ Busy => send_task \in Tasks
  BY LenProperties, ElementOfSeq DEF TypeInv, TypeOK
<1> USE DEF WaitInv, Waits, Busy, smVars, queueVars
<1>1. ASSUME NEW t \in Tasks, AppendTask(t) PROVE WaitInv'
  <2>1. /\ send_state[t] = "none" /\ sender[t] = "none"
        /\ UNCHANGED <<pc, send_task, sender>>
    BY <1>1 DEF AppendTask
  <2>2. /\ Busy => send_task # t
        /\ \A i \in DOMAIN send_task_wait_queue : send_task_wait_queue[i] # t
    BY <1>0, <2>1
  <2>3. CASE Len(send_task_wait_queue) > max_task_number
    <3>1. /\ send_state' = [send_state EXCEPT ![t] = "dropped"]
          /\ UNCHANGED send_task_wait_queue
      BY <1>1, <2>3 DEF AppendTask
    <3>2. QED
      BY <1>0, <2>1, <2>2, <3>1
  <2>4. CASE ~(Len(send_task_wait_queue) > max_task_number)
    <3>1. /\ send_state' = [send_state EXCEPT ![t] = "SEND_WAIT"]
          /\ send_task_wait_queue' = Append(send_task_wait_queue, t)
      BY <1>1, <2>4 DEF AppendTask
    <3>2. \A i \in DOMAIN send_task_wait_queue' :
            \/ i \in DOMAIN send_task_wait_queue /\ send_task_wait_queue'[i] = send_task_wait_queue[i]
            \/ i = Len(send_task_wait_queue) + 1 /\ send_task_wait_queue'[i] = t
      BY <1>0, <3>1, AppendProperties, LenProperties
    <3>3. \A u \in Tasks : send_state'[u] = IF u = t THEN "SEND_WAIT" ELSE send_state[u]
      BY <1>0, <3>1
    <3>4. QED
      BY <1>0, <2>1, <2>2, <3>2, <3>3
  <2>5. QED
    BY <2>3, <2>4
<1>2. CASE PostTask \/ WaitSem
  BY <1>2 DEF PostTask, WaitSem
<1>3. CASE PopTask
  <2>1. pc = "pop" /\ UNCHANGED <<send_state, sender>>
    BY <1>3 DEF PopTask
  <2>2. CASE send_task_wait_queue = <<>>
    BY <1>3, <2>1, <2>2 DEF PopTask
  <2>3. CASE send_task_wait_queue # <<>>
    <3>1. /\ pc' = "connect" /\ send_task' = send_task_wait_queue[1]
          /\ send_task_wait_queue' = Tail(send_task_wait_queue)
          /\ 1 \in DOMAIN send_task_wait_queue
      BY <1>0, <1>3, <2>3 DEF PopTask, PopQueue
    <3>2. \A i \in DOMAIN send_task_wait_queue' :
            /\ i + 1 \in DOMAIN send_task_wait_queue /\ i + 1 # 1 /\ i \in Nat
            /\ send_task_wait_queue'[i] = send_task_wait_queue[i + 1]
      BY <1>0, <2>3, <3>1, HeadTailProperties, LenProperties
    <3>3. Waits(send_task_wait_queue[1])
      BY <3>1
    <3>4. \A i, j \in DOMAIN send_task_wait_queue' :
            send_task_wait_queue'[i] = send_task_wait_queue'[j] => i = j
      BY <3>2
    <3>5. \A i \in DOMAIN send_task_wait_queue' : Waits(send_task_wait_queue'[i])
      BY <3>2
    <3>6. \A i \in DOMAIN send_task_wait_queue' : send_task_wait_queue'[i] # send_task'
      BY <3>1, <3>2
    <3>7. QED
      BY <2>1, <3>1, <3>3, <3>4, <3>5, <3>6
  <2>4. QED
    BY <2>2, <2>3
<1>4. CASE (\E p \in Ports : Connect(p)) \/ LimitPort
  BY <1>4 DEF Connect, LimitPort
<1>5. CASE LaunchSender
  <2>1. /\ pc = "launch" /\ pc' = "mark" /\ sender' = [sender EXCEPT ![send_task] = "queued"]
        /\ UNCHANGED <<send_task_wait_queue, send_state, send_task>>
    BY <1>5 DEF LaunchSender
  <2>2. send_task \in Tasks /\ send_state[send_task] = "SEND_WAIT"
    BY <1>0, <2>1
  <2>3. \A u \in Tasks : sender'[u] = IF u = send_task THEN "queued" ELSE sender[u]
    BY <1>0, <2>1
  <2>4. QED
    BY <1>0, <2>1, <2>2, <2>3
<1>6. CASE MarkRunning
  <2>1. /\ pc = "mark" /\ pc' = "scan"
        /\ send_state' = [send_state EXCEPT ![send_task] = "SEND_RUNNING"]
        /\ UNCHANGED <<send_task_wait_queue, sender, send_task>>
    BY <1>6 DEF MarkRunning
  <2>2. \A u \in Tasks : send_state'[u] = IF u = send_task THEN "SEND_RUNNING" ELSE send_state[u]
    BY <1>0, <2>1
  <2>3. QED
    BY <1>0, <2>1, <2>2
<1>7. CASE ScanSkip
  BY <1>7 DEF ScanSkip
<1>8. CASE ScanReply
  <2> DEFINE t == send_task_running_queue[scan]
  <2>1. /\ pc = "scan" /\ pc' = pc /\ send_state[t] = "SEND_END"
        /\ send_state' = [send_state EXCEPT ![t] = "TASK_END"]
        /\ UNCHANGED <<send_task_wait_queue, sender, send_task>>
    BY <1>8 DEF ScanReply
  <2> HIDE DEF t
  <2>2. \A u \in Tasks : send_state'[u] = IF u = t THEN "TASK_END" ELSE send_state[u]
    BY <1>0, <2>1
  <2>3. QED
    BY <1>0, <2>1, <2>2
<1>9. CASE EraseReported
  <2>1. /\ pc = "scan" /\ pc' = "wait"
        /\ UNCHANGED <<send_task_wait_queue, sender>>
    BY <1>9 DEF EraseReported
  <2>2. \A u \in Tasks : \/ send_state'[u] = send_state[u]
                         \/ send_state[u] = "TASK_END" /\ send_state'[u] = "freed"
    BY <1>9 DEF EraseReported, Reported
  <2>3. QED
    BY <1>0, <2>1, <2>2
<1>10. ASSUME NEW t \in Tasks, SenderStep(t) PROVE WaitInv'
  <2>1. /\ UNCHANGED <<send_task_wait_queue, pc, send_task>>
        /\ sender[t] # "none" /\ sender'[t] # "none"
        /\ send_state'[t] \in {send_state[t], "SEND_END"}
        /\ \A u \in Tasks \ {t} : sender'[u] = sender[u] /\ send_state'[u] = send_state[u]
    BY <1>0, <1>10 DEF SenderStep, SenderStart, StartUnmarked, SenderEnd, SenderFails, SenderClose
  <2>2. QED
    BY <1>0, <2>1
<1>11. CASE UNCHANGED vars
  BY <1>11 DEF vars
<1>12. QED
  BY <1>1, <1>2, <1>3, <1>4, <1>5, <1>6, <1>7, <1>8, <1>9, <1>10, <1>11
  DEF Next, MainStep, SendManagerStep

LEMMA WaitInvCorrect == Spec => []WaitInv
  BY WaitInit, WaitNext, TypeInvCorrect, PTL DEF Spec

-----------------------------------------------------------------------------
(* What is reported and what is freed *)

\* What a step does to the state of a task and to its Sender.
LEMMA StateStep ==
  ASSUME TypeInv, WaitInv, [Next]_vars, NEW t \in Tasks
  PROVE  /\ Past(t) => Past(t)'
         /\ send_state'[t] = "SEND_END" => Past(t)' \/ send_state[t] = "SEND_END"
         /\ send_state'[t] = "TASK_END" => send_state[t] \in {"SEND_END", "TASK_END"}
         /\ send_state'[t] = "freed" => send_state[t] \in {"TASK_END", "freed"}
<1>0. /\ send_state \in [Tasks -> TaskStates] /\ sender \in [Tasks -> SenderStates]
      /\ Busy => send_task \in Tasks
  BY DEF TypeInv, TypeOK
<1> USE DEF Past, smVars, queueVars, netVars, replyVars
<1>1. CASE LaunchSender
  <2>1. sender[send_task] = "none" /\ send_task \in Tasks
    BY <1>0, <1>1 DEF LaunchSender, WaitInv, Waits, Busy
  <2>2. sender' = [sender EXCEPT ![send_task] = "queued"] /\ UNCHANGED send_state
    BY <1>1 DEF LaunchSender
  <2>3. QED
    BY <1>0, <2>1, <2>2
<1>2. ASSUME NEW u \in Tasks, AppendTask(u) PROVE UNCHANGED sender
                                                  /\ send_state'[t] \in {send_state[t], "dropped", "SEND_WAIT"}
  BY <1>0, <1>2 DEF AppendTask
<1>3. CASE MarkRunning
  <2>1. UNCHANGED sender /\ send_state'[t] \in {send_state[t], "SEND_RUNNING"}
    BY <1>0, <1>3 DEF MarkRunning
  <2>2. QED
    BY <2>1
<1>4. CASE ScanReply
  <2>1. UNCHANGED sender /\ \/ send_state'[t] = send_state[t]
                            \/ send_state[t] = "SEND_END" /\ send_state'[t] = "TASK_END"
    BY <1>0, <1>4 DEF ScanReply
  <2>2. QED
    BY <2>1
<1>5. CASE EraseReported
  <2>1. UNCHANGED sender /\ \/ send_state'[t] = send_state[t]
                            \/ send_state[t] = "TASK_END" /\ send_state'[t] = "freed"
    BY <1>0, <1>5 DEF EraseReported, Reported
  <2>2. QED
    BY <2>1
<1>6. ASSUME NEW u \in Tasks, SenderStep(u)
      PROVE  \/ sender'[t] = sender[t] /\ send_state'[t] = send_state[t]
             \/ sender[t] = "queued" /\ sender'[t] = "sending" /\ send_state'[t] = send_state[t]
             \/ sender'[t] = "closing" /\ send_state'[t] = "SEND_END"
             \/ sender'[t] = "done" /\ send_state'[t] = send_state[t]
  <2>1. CASE SenderStart(u)
    BY <1>0, <2>1 DEF SenderStart, StartUnmarked
  <2>2. CASE SenderEnd(u)
    BY <1>0, <2>2 DEF SenderEnd
  <2>3. CASE SenderFails(u)
    BY <2>3 DEF SenderFails
  <2>4. CASE SenderClose(u)
    BY <1>0, <2>4 DEF SenderClose
  <2>5. QED
    BY <1>6, <2>1, <2>2, <2>3, <2>4 DEF SenderStep
<1>7. CASE UNCHANGED <<sender, send_state>>
  BY <1>7
<1>8. PostTask \/ WaitSem \/ PopTask \/ (\E p \in Ports : Connect(p)) \/ LimitPort \/ ScanSkip
        => UNCHANGED <<sender, send_state>>
  BY DEF PostTask, WaitSem, PopTask, Connect, LimitPort, ScanSkip
<1>9. UNCHANGED vars => UNCHANGED <<sender, send_state>>
  BY DEF vars
<1>10. QED
  BY <1>1, <1>2, <1>3, <1>4, <1>5, <1>6, <1>7, <1>8, <1>9 DEF Next, MainStep, SendManagerStep

LEMMA EndNext == TypeInv /\ WaitInv /\ EndInv /\ [Next]_vars => EndInv'
<1> SUFFICES ASSUME TypeInv, WaitInv, EndInv, [Next]_vars, NEW t \in Tasks
             PROVE  Ended(t)' => Past(t)'
  BY DEF EndInv
<1>1. Ended(t) => Past(t)
  BY DEF EndInv
<1>2. QED
  BY <1>1, StateStep DEF Ended

\* What a step does to the reports.
LEMMA ReportStep ==
  ASSUME TypeInv, [Next]_vars, NEW t \in Tasks
  PROVE  /\ reports[t] > 0 \/ InSeq(m_sendBuf, t) => reports'[t] > 0 \/ InSeq(m_sendBuf', t)
         /\ reports'[t] > 0 \/ InSeq(m_sendBuf', t) =>
              reports[t] > 0 \/ InSeq(m_sendBuf, t) \/ send_state[t] = "SEND_END"
         /\ send_state'[t] = "TASK_END" =>
              send_state[t] = "TASK_END" \/ reports'[t] > 0 \/ InSeq(m_sendBuf', t)
<1>0. /\ send_state \in [Tasks -> TaskStates]
      /\ m_sendBuf \in Seq(Tasks) /\ reports \in [Tasks -> Nat]
  BY DEF TypeInv, TypeOK
<1> USE DEF smVars, queueVars, netVars, replyVars
<1>1. CASE ScanReply
  <2> DEFINE u == send_task_running_queue[scan]
  <2>1. /\ u \in Tasks /\ send_state[u] = "SEND_END"
        /\ SendBuffer(Append(m_sendBuf, u))
        /\ send_state' = [send_state EXCEPT ![u] = "TASK_END"]
    BY <1>1 DEF ScanReply, TypeInv, TypeOK
  <2> HIDE DEF u
  <2>2. reports[t] > 0 \/ InSeq(m_sendBuf, t) \/ t = u <=> reports'[t] > 0 \/ InSeq(m_sendBuf', t)
    BY <1>0, <2>1, ReplyTypes
  <2>3. send_state'[t] = "TASK_END" => t = u \/ send_state[t] = "TASK_END"
    BY <1>0, <2>1
  <2>4. QED
    BY <2>1, <2>2, <2>3
<1>2. ASSUME UNCHANGED <<m_sendBuf, reports>>,
             send_state'[t] = "TASK_END" => send_state[t] = "TASK_END"
      PROVE  /\ reports[t] > 0 \/ InSeq(m_sendBuf, t) => reports'[t] > 0 \/ InSeq(m_sendBuf', t)
             /\ reports'[t] > 0 \/ InSeq(m_sendBuf', t) =>
                  reports[t] > 0 \/ InSeq(m_sendBuf, t) \/ send_state[t] = "SEND_END"
             /\ send_state'[t] = "TASK_END" =>
                  send_state[t] = "TASK_END" \/ reports'[t] > 0 \/ InSeq(m_sendBuf', t)
  BY <1>2
<1>3. ASSUME NEW u \in Tasks, AppendTask(u)
      PROVE  /\ UNCHANGED <<m_sendBuf, reports>>
             /\ send_state'[t] = "TASK_END" => send_state[t] = "TASK_END"
  BY <1>0, <1>3 DEF AppendTask
<1>4. ASSUME NEW u \in Tasks, SenderStep(u)
      PROVE  /\ UNCHANGED <<m_sendBuf, reports>>
             /\ send_state'[t] = "TASK_END" => send_state[t] = "TASK_END"
  BY <1>0, <1>4 DEF SenderStep, SenderStart, StartUnmarked, SenderEnd, SenderFails, SenderClose
<1>5. CASE MarkRunning \/ EraseReported
  <2>1. /\ UNCHANGED <<m_sendBuf, reports>>
        /\ send_state'[t] = "TASK_END" => send_state[t] = "TASK_END"
    BY <1>0, <1>5 DEF MarkRunning, EraseReported
  <2>2. QED
    BY <1>2, <2>1
<1>6. PostTask \/ WaitSem \/ PopTask \/ (\E p \in Ports : Connect(p)) \/ LimitPort \/ LaunchSender
      \/ ScanSkip => UNCHANGED <<m_sendBuf, reports, send_state>>
  BY DEF PostTask, WaitSem, PopTask, Connect, LimitPort, LaunchSender, ScanSkip
<1>7. UNCHANGED vars => UNCHANGED <<m_sendBuf, reports, send_state>>
  BY DEF vars
<1>8. QED
  BY <1>1, <1>2, <1>3, <1>4, <1>5, <1>6, <1>7 DEF Next, MainStep, SendManagerStep

LEMMA EndInvCorrect == Spec => []EndInv
<1>1. Init => EndInv
  BY DEF Init, EndInv, Ended
<1>2. QED
  BY <1>1, EndNext, TypeInvCorrect, WaitInvCorrect, PTL DEF Spec

\* For all queues and interleavings, the master is told that a flow ended only
\* after all its data was sent.
THEOREM ReportedAfterSentCorrect == Spec => []ReportedAfterSent
<1>1. Init => ReportedAfterSent
  <2> SUFFICES ASSUME Init, NEW t \in Tasks, reports[t] > 0 \/ InSeq(m_sendBuf, t)
               PROVE  FALSE
    BY DEF ReportedAfterSent
  <2>1. reports[t] = 0 /\ m_sendBuf = <<>>
    BY DEF Init
  <2>2. QED
    BY <2>1 DEF InSeq
<1>2. TypeInv /\ WaitInv /\ EndInv /\ ReportedAfterSent /\ [Next]_vars => ReportedAfterSent'
  <2> SUFFICES ASSUME TypeInv, WaitInv, EndInv, ReportedAfterSent, [Next]_vars, NEW t \in Tasks,
                      reports'[t] > 0 \/ InSeq(m_sendBuf', t)
               PROVE  Past(t)'
    BY DEF ReportedAfterSent, Past
  <2>1. reports[t] > 0 \/ InSeq(m_sendBuf, t) \/ send_state[t] = "SEND_END"
    BY ReportStep
  <2>2. Past(t)
    BY <2>1 DEF ReportedAfterSent, EndInv, Ended, Past
  <2>3. QED
    BY <2>2, StateStep
<1>3. QED
  BY <1>1, <1>2, TypeInvCorrect, WaitInvCorrect, EndInvCorrect, PTL DEF Spec

\* For all queues and interleavings, a finished task is forgotten only once its
\* report was given to the kernel or is in the reply buffer.
THEOREM NoReportForgottenCorrect == Spec => []NoReportForgotten
<1>1. Init => NoReportForgotten
  BY DEF Init, NoReportForgotten
<1>2. TypeInv /\ WaitInv /\ NoReportForgotten /\ [Next]_vars => NoReportForgotten'
  <2> SUFFICES ASSUME TypeInv, WaitInv, NoReportForgotten, [Next]_vars, NEW t \in Tasks,
                      send_state'[t] \in {"TASK_END", "freed"}
               PROVE  reports'[t] > 0 \/ InSeq(m_sendBuf', t)
    BY DEF NoReportForgotten
  <2>1. CASE send_state[t] \in {"TASK_END", "freed"}
    BY <2>1, ReportStep DEF NoReportForgotten
  <2>2. CASE send_state[t] \notin {"TASK_END", "freed"}
    BY <2>2, StateStep, ReportStep
  <2>3. QED
    BY <2>1, <2>2
<1>3. QED
  BY <1>1, <1>2, TypeInvCorrect, WaitInvCorrect, PTL DEF Spec

\* A task that was freed is not in the running queue.
RunInv == \A t \in Tasks : send_state[t] = "freed" => ~InSeq(send_task_running_queue, t)

LEMMA RunNext == TypeInv /\ WaitInv /\ RunInv /\ [Next]_vars => RunInv'
<1> SUFFICES ASSUME TypeInv, WaitInv, RunInv, [Next]_vars, NEW t \in Tasks,
                    send_state'[t] = "freed"
             PROVE  ~InSeq(send_task_running_queue', t)
  BY DEF RunInv
<1>0. /\ send_state \in [Tasks -> TaskStates]
      /\ send_task_running_queue \in Seq(Tasks)
      /\ Busy => send_task \in Tasks
  BY DEF TypeInv, TypeOK
<1>1. send_state[t] \in {"TASK_END", "freed"}
  BY StateStep
<1>2. send_state[t] = "freed" => ~InSeq(send_task_running_queue, t)
  BY DEF RunInv
<1>3. CASE MarkRunning
  <2>1. /\ send_state' = [send_state EXCEPT ![send_task] = "SEND_RUNNING"]
        /\ send_task_running_queue' = Append(send_task_running_queue, send_task)
        /\ send_task \in Tasks
    BY <1>0, <1>3 DEF MarkRunning, Busy
  <2>2. t # send_task /\ send_state[t] = "freed"
    <3>1. t # send_task
      BY <1>0, <2>1
    <3>2. send_state'[t] = send_state[t]
      BY <1>0, <2>1, <3>1
    <3>3. QED
      BY <3>1, <3>2
  <2>3. \A i \in DOMAIN send_task_running_queue' :
          \/ i \in DOMAIN send_task_running_queue
               /\ send_task_running_queue'[i] = send_task_running_queue[i]
          \/ send_task_running_queue'[i] = send_task
    BY <1>0, <2>1, AppendProperties, LenProperties
  <2>4. QED
    BY <1>2, <2>2, <2>3 DEF InSeq
<1>4. CASE EraseReported
  <2>1. \A n \in DOMAIN send_task_running_queue' :
          /\ InSeq(send_task_running_queue, send_task_running_queue'[n])
          /\ send_state[send_task_running_queue'[n]] # "TASK_END"
    BY <1>0, <1>4, ErasedOf
  <2>2. QED
    BY <1>1, <1>2, <2>1 DEF InSeq
<1>5. ASSUME UNCHANGED send_task_running_queue, send_state[t] = "freed"
      PROVE  ~InSeq(send_task_running_queue', t)
  BY <1>2, <1>5
<1>6. CASE ~MarkRunning /\ ~EraseReported
  <2>1. UNCHANGED send_task_running_queue
    BY <1>6 DEF Next, MainStep, SendManagerStep, AppendTask, PostTask, WaitSem, PopTask, Connect,
       LimitPort, LaunchSender, ScanSkip, ScanReply, SenderStep, SenderStart, SenderEnd,
       SenderFails, SenderClose, vars
  <2>2. send_state[t] = "freed"
    <3>1. CASE ScanReply
      BY <1>0, <3>1 DEF ScanReply
    <3>2. ASSUME NEW u \in Tasks, AppendTask(u) \/ SenderStep(u) PROVE send_state[t] = "freed"
      BY <1>0, <3>2 DEF AppendTask, SenderStep, SenderStart, StartUnmarked, SenderEnd, SenderFails,
         SenderClose
    <3>3. CASE UNCHANGED send_state
      BY <3>3
    <3>4. PostTask \/ WaitSem \/ PopTask \/ (\E p \in Ports : Connect(p)) \/ LimitPort
          \/ LaunchSender \/ ScanSkip \/ UNCHANGED vars => UNCHANGED send_state
      BY DEF PostTask, WaitSem, PopTask, Connect, LimitPort, LaunchSender, ScanSkip, vars
    <3>5. QED
      BY <1>6, <3>1, <3>2, <3>3, <3>4 DEF Next, MainStep, SendManagerStep
  <2>3. QED
    BY <1>5, <2>1, <2>2
<1>7. QED
  BY <1>3, <1>4, <1>6

\* For all queues and interleavings, nobody uses a SendTask after it was freed.
THEOREM FreedTaskUnusedCorrect == Spec => []FreedTaskUnused
<1>1. Init => RunInv
  BY DEF Init, RunInv
<1>2. TypeInv /\ WaitInv /\ EndInv /\ RunInv => FreedTaskUnused
  <2> SUFFICES ASSUME TypeInv, WaitInv, EndInv, RunInv, NEW t \in Tasks, send_state[t] = "freed"
               PROVE  /\ Past(t) /\ ~InSeq(send_task_running_queue, t)
                      /\ ~InSeq(send_task_wait_queue, t)
    BY DEF FreedTaskUnused, Past
  <2>1. Past(t) /\ ~InSeq(send_task_running_queue, t)
    BY DEF EndInv, Ended, RunInv
  <2>2. ~InSeq(send_task_wait_queue, t)
    BY DEF WaitInv, Waits, InSeq
  <2>3. QED
    BY <2>1, <2>2
<1>3. QED
  BY <1>1, <1>2, RunNext, TypeInvCorrect, WaitInvCorrect, EndInvCorrect, PTL DEF Spec

-----------------------------------------------------------------------------
(* Ports and their classes *)

LEMMA PortNext == TypeInv /\ WaitInv /\ PortInv /\ [Next]_vars => PortInv'
<1> SUFFICES ASSUME TypeInv, WaitInv, PortInv, [Next]_vars PROVE PortInv'
  OBVIOUS
<1>0. /\ tcClass \in [Ports -> Rates \cup {0}] /\ tcFilter \in [Ports -> Ports \cup {DefaultClass}]
      /\ port \in [Tasks -> Ports \cup {0}] /\ openSock \in SUBSET Tasks
      /\ Busy => send_task \in Tasks
  BY DEF TypeInv, TypeOK, TcTypeOK
<1>a. Ports \subseteq Nat \ {0} /\ Rates \subseteq Nat \ {0} /\ Speed \in [Tasks -> Rates]
  BY SendAssumption
<1> USE DEF PortInv, smVars, queueVars, netVars, replyVars
<1>1. CASE \E p \in Ports : Connect(p)
  <2>1. PICK p \in Ports : Connect(p)
    BY <1>1
  <2>2. /\ pc = "connect" /\ pc' = "limit" /\ p \notin {port[t] : t \in openSock}
        /\ port' = [port EXCEPT ![send_task] = p] /\ openSock' = openSock \cup {send_task}
        /\ UNCHANGED <<send_task, tcClass, tcFilter>>
    BY <2>1 DEF Connect
  <2>3. send_task \in Tasks
    BY <1>0, <2>2 DEF Busy
  <2>4. \A t \in Tasks : port'[t] = IF t = send_task THEN p ELSE port[t]
    BY <1>0, <2>2
  <2>5. \A t \in openSock : port[t] # p
    BY <2>2
  <2>6. QED
    BY <1>0, <2>2, <2>3, <2>4, <2>5
<1>2. CASE LimitPort
  <2> DEFINE p == port[send_task]
  <2>1. /\ pc = "limit" /\ pc' = "launch"
        /\ SetIpPortBandwidth(p, Speed[send_task])
        /\ UNCHANGED <<send_task, port, openSock>>
    BY <1>2 DEF LimitPort
  <2>2. p \in Ports /\ send_task \in Tasks /\ Speed[send_task] \in Nat \ {0}
    BY <1>0, <1>a, <2>1 DEF Busy
  <2>3. /\ tcClass' = [tcClass EXCEPT ![p] = Speed[send_task]]
        /\ tcFilter' = [tcFilter EXCEPT ![p] = p]
    BY <2>1, <2>2 DEF SetIpPortBandwidth, AddTcClass, ReplaceFilter
  <2>4. RateOf(p)' = Speed[send_task]
    <3>1. tcFilter'[p] = p /\ tcClass'[p] = Speed[send_task] /\ p # DefaultClass /\ p' = p
      BY <1>0, <1>a, <2>1, <2>2, <2>3 DEF DefaultClass
    <3>2. QED
      BY <3>1 DEF RateOf
  <2>5. \A q \in Ports : tcFilter'[q] \in {DefaultClass, q}
    BY <1>0, <2>3
  <2>6. QED
    BY <2>1, <2>4, <2>5
<1>3. CASE LaunchSender
  <2>1. pc' = "mark" /\ UNCHANGED <<port, openSock, tcClass, tcFilter>>
    BY <1>3 DEF LaunchSender
  <2>2. QED
    BY <2>1
<1>4. CASE \E t \in Tasks : SenderClose(t)
  <2>1. /\ openSock' \subseteq openSock
        /\ UNCHANGED <<pc, send_task, port, tcClass, tcFilter>>
    BY <1>4 DEF SenderClose
  <2>2. QED
    BY <1>0, <2>1 DEF RateOf
<1>5. CASE UNCHANGED <<port, openSock, tcClass, tcFilter>> /\ pc' \notin {"limit", "launch"}
  BY <1>5
<1>6. CASE UNCHANGED <<port, openSock, tcClass, tcFilter, pc, send_task>>
  BY <1>6 DEF RateOf
<1>7. PopTask \/ WaitSem \/ MarkRunning \/ EraseReported
        => UNCHANGED <<port, openSock, tcClass, tcFilter>> /\ pc' \notin {"limit", "launch"}
  BY DEF PopTask, WaitSem, MarkRunning, EraseReported
<1>8. PostTask \/ ScanSkip \/ ScanReply \/ (\E t \in Tasks : AppendTask(t) \/ SenderStart(t)
        \/ SenderEnd(t) \/ SenderFails(t)) \/ UNCHANGED vars
        => UNCHANGED <<port, openSock, tcClass, tcFilter, pc, send_task>>
  BY DEF PostTask, ScanSkip, ScanReply, AppendTask, SenderStart, SenderEnd, SenderFails, vars
<1>9. QED
  BY <1>1, <1>2, <1>3, <1>4, <1>5, <1>6, <1>7, <1>8
  DEF Next, MainStep, SendManagerStep, SenderStep

LEMMA PortInvCorrect == Spec => []PortInv
<1>1. Init => PortInv
  BY DEF Init, InitTC, PortInv
<1>2. QED
  BY <1>1, PortNext, TypeInvCorrect, WaitInvCorrect, PTL DEF Spec

\* For all ports, speeds and interleavings, late closes of reused memory
\* included, a Sender's source port is shaped to its own flow's speed.
THEOREM SenderShapedCorrect == Spec => []SenderShaped
<1>1. Init => SenderShaped
  BY DEF Init, SenderShaped
<1>2. TypeInv /\ WaitInv /\ PortInv /\ SenderShaped /\ [Next]_vars => SenderShaped'
  <2> SUFFICES ASSUME TypeInv, WaitInv, PortInv, SenderShaped, [Next]_vars,
                      NEW t \in openSock', sender'[t] \in {"queued", "sending"}
               PROVE  RateOf(port[t])' = Speed[t]
    BY DEF SenderShaped
  <2>0. /\ tcClass \in [Ports -> Rates \cup {0}] /\ tcFilter \in [Ports -> Ports \cup {DefaultClass}]
        /\ port \in [Tasks -> Ports \cup {0}] /\ openSock \in SUBSET Tasks
        /\ sender \in [Tasks -> SenderStates]
        /\ Busy => send_task \in Tasks
    BY DEF TypeInv, TypeOK, TcTypeOK
  <2>a. t \in openSock /\ sender[t] \in {"queued", "sending"} => RateOf(port[t]) = Speed[t]
    BY DEF SenderShaped
  <2> USE DEF smVars, queueVars, netVars, replyVars
  <2>1. CASE \E p \in Ports : Connect(p)
    <3>1. /\ pc = "connect"
          /\ \E p \in Ports : port' = [port EXCEPT ![send_task] = p]
          /\ openSock' = openSock \cup {send_task}
          /\ UNCHANGED <<sender, tcClass, tcFilter>>
      BY <2>1 DEF Connect
    <3>2. send_task \in Tasks /\ sender[send_task] = "none"
      BY <2>0, <3>1 DEF Busy, WaitInv, Waits
    <3>3. t # send_task /\ t \in openSock
      BY <3>1, <3>2
    <3>4. port'[t] = port[t]
      BY <2>0, <3>1, <3>3
    <3>5. QED
      BY <2>a, <3>1, <3>3, <3>4 DEF RateOf
  <2>2. CASE LimitPort
    <3> DEFINE p == port[send_task]
    <3>1. /\ pc = "limit" /\ SetIpPortBandwidth(p, Speed[send_task])
          /\ UNCHANGED <<port, openSock, sender>>
      BY <2>2 DEF LimitPort
    <3>2. send_task \in Tasks /\ sender[send_task] = "none"
      BY <2>0, <3>1 DEF Busy, WaitInv, Waits
    <3>3. t \in openSock /\ t # send_task /\ port[t] \in Ports /\ port[t] # p
      BY <3>1, <3>2 DEF PortInv
    <3>4. tcFilter'[port[t]] = tcFilter[port[t]] /\ \A q \in Ports \ {p} : tcClass'[q] = tcClass[q]
      BY <2>0, <3>1, <3>3 DEF SetIpPortBandwidth, AddTcClass, ReplaceFilter
    <3>5. tcFilter[port[t]] \in {DefaultClass, port[t]}
      BY <3>3 DEF PortInv
    <3>6. QED
      BY <2>a, <3>1, <3>3, <3>4, <3>5 DEF RateOf
  <2>3. CASE LaunchSender
    <3>1. /\ pc = "launch" /\ sender' = [sender EXCEPT ![send_task] = "queued"]
          /\ UNCHANGED <<port, openSock, tcClass, tcFilter>>
      BY <2>3 DEF LaunchSender
    <3>2. CASE t = send_task
      BY <3>1, <3>2 DEF PortInv, RateOf
    <3>3. CASE t # send_task
      <4>1. sender'[t] = sender[t]
        BY <2>0, <3>1, <3>3
      <4>2. QED
        BY <2>a, <3>1, <4>1 DEF RateOf
    <3>4. QED
      BY <3>2, <3>3
  <2>4. CASE \E u \in Tasks : SenderStep(u)
    <3>1. /\ openSock' \subseteq openSock
          /\ UNCHANGED <<port, tcClass, tcFilter>>
      BY <2>4 DEF SenderStep, SenderStart, SenderEnd, SenderFails, SenderClose
    <3>2. t \in Tasks /\ t \in openSock
      BY <2>0, <3>1
    <3>3. sender[t] \in {"queued", "sending"}
      BY <2>0, <2>4, <3>2 DEF SenderStep, SenderStart, SenderEnd, SenderFails, SenderClose
    <3>4. QED
      BY <2>a, <3>1, <3>2, <3>3 DEF RateOf
  <2>5. CASE UNCHANGED <<port, openSock, tcClass, tcFilter, sender>>
    BY <2>a, <2>5 DEF RateOf
  <2>6. PostTask \/ WaitSem \/ PopTask \/ MarkRunning \/ ScanSkip \/ ScanReply \/ EraseReported
        \/ (\E u \in Tasks : AppendTask(u)) \/ UNCHANGED vars
          => UNCHANGED <<port, openSock, tcClass, tcFilter, sender>>
    BY DEF PostTask, WaitSem, PopTask, MarkRunning, ScanSkip, ScanReply, EraseReported, AppendTask, vars
  <2>7. QED
    BY <2>1, <2>2, <2>3, <2>4, <2>5, <2>6 DEF Next, MainStep, SendManagerStep
<1>3. QED
  BY <1>1, <1>2, TypeInvCorrect, WaitInvCorrect, PortInvCorrect, PTL DEF Spec
=============================================================================
