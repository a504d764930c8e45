-------------------------- MODULE ClientLoopProofs ---------------------------
(***************************************************************************)
(* Safety of ClientLoop for buffers of any sizes and any number of         *)
(* instructions.                                                           *)
(***************************************************************************)
EXTENDS ClientLoop, TLAPS

\* The smaller of two numbers.
LEMMA MinOfTwo ==
  ASSUME NEW a \in Nat, NEW b \in Nat
  PROVE  /\ Min({a, b}) \in {a, b}
         /\ Min({a, b}) <= a /\ Min({a, b}) <= b
<1>1. \E x \in {a, b} : \A y \in {a, b} : x <= y
  <2>1. CASE a <= b
    BY <2>1
  <2>2. CASE b <= a
    BY <2>2
  <2>3. QED
    BY <2>1, <2>2
<1>2. Min({a, b}) \in {a, b} /\ \A y \in {a, b} : Min({a, b}) <= y
  BY <1>1 DEF Min
<1>3. QED
  BY <1>2

\* receiveMessage never reads more than there is or than m_recvBuf can hold.
LEMMA ReadFits ==
  ASSUME stream \in Nat, m_recvIdx \in 0..MAX_RECV_BUFFER_SIZE
  PROVE  /\ Read \in Nat /\ Read <= stream /\ m_recvIdx + Read <= MAX_RECV_BUFFER_SIZE
         /\ m_recvIdx + Read < MAX_RECV_BUFFER_SIZE => Read = stream
<1>1. MAX_RECV_BUFFER_SIZE - m_recvIdx \in Nat
  BY LoopAssumption
<1>2. QED
  BY <1>1, MinOfTwo, LoopAssumption DEF Read

\* A recv leaves something only if it filled m_recvBuf.
LEMMA ReceiveLeaves ==
  ASSUME stream \in Nat, m_recvIdx \in 0..MAX_RECV_BUFFER_SIZE,
         \/ stream = 0 /\ stream' = 0
         \/ stream' = stream - Read /\ m_recvIdx' = m_recvIdx + Read
  PROVE  /\ m_recvIdx' = MAX_RECV_BUFFER_SIZE \/ ~(stream' > 0)
         /\ stream' > 0 => stream > 0
  BY ReadFits, LoopAssumption

-----------------------------------------------------------------------------
(* Types *)

\* The numbers, and what else there is; the provers take them one by one.
Counts ==
  /\ Flows \in 0..MaxFlows
  /\ stream \in Nat /\ waiting \in Nat
  /\ sending \in Nat /\ ended \in Nat /\ missed \in Nat
  /\ m_recvIdx \in 0..MAX_RECV_BUFFER_SIZE
  /\ m_sendBufSize \in 0..MAX_SEND_BUFFER_SIZE
  /\ cut \in Nat

Places ==
  /\ watch \in {"IN edge", "IN once", "OUT once", "off"}
  /\ ready \in BOOLEAN
  /\ main \in {"epoll_wait", "recv", "parse"}
  /\ sm \in {"sem wait", "scan", "send"}
  /\ filled \in BOOLEAN
  /\ last \in {"no reply", "reply", "short reply", "receive"}

LEMMA TypeParts == TypeOK <=> Counts /\ Places
  BY Zenon DEF TypeOK, Counts, Places

countVars == <<stream, m_recvIdx, waiting, sending, ended, missed, m_sendBufSize, cut>>

LEMMA InputIsFlag == (stream > 0) \in BOOLEAN
  OBVIOUS

LEMMA TypeInit == Init => TypeOK
<1>1. Init => Counts
  <2> SUFFICES ASSUME stream \in 0..1, m_recvIdx = 0, waiting = 0, sending = 0, ended = 0,
                      missed = 0, m_sendBufSize = 0, cut = 0
               PROVE  Counts
    BY Zenon DEF Init
  <2> QED
    BY LoopAssumption DEF Counts, Flows
<1>2. Init => Places
  BY InputIsFlag, Zenon DEF Init, Places
<1>3. QED
  BY <1>1, <1>2, TypeParts

LEMMA CountsNext == Counts /\ [Next]_vars => Counts'
<1> SUFFICES ASSUME Counts, [Next]_vars PROVE Counts'
  OBVIOUS
<1> USE LoopAssumption DEF Counts, Flows
<1>1. CASE InstructionArrives
  <2>1. /\ stream + m_recvIdx + waiting + sending + ended + missed < MaxFlows
        /\ stream' = stream + 1
        /\ UNCHANGED <<m_recvIdx, waiting, sending, ended, missed, m_sendBufSize, cut>>
    BY <1>1, Zenon DEF InstructionArrives, mainVars, replyVars
  <2>2. QED
    BY <2>1
<1>2. CASE RoomToSend \/ EventIn \/ EventOut \/ NoEvent \/ UNCHANGED vars
  <2>1. UNCHANGED countVars
    BY <1>2, Zenon DEF RoomToSend, EventIn, EventOut, NoEvent, vars, mainVars, replyVars, countVars
  <2>2. QED
    BY <2>1 DEF countVars
<1>3. CASE Recv
  <2>1. /\ \/ UNCHANGED <<stream, m_recvIdx>>
           \/ stream' = stream - Read /\ m_recvIdx' = m_recvIdx + Read
        /\ UNCHANGED <<waiting, sending, ended, missed, m_sendBufSize, cut>>
    BY <1>3, Zenon DEF Recv, replyVars
  <2>2. /\ Read \in Nat /\ Read <= stream
        /\ m_recvIdx + Read <= MAX_RECV_BUFFER_SIZE
    BY ReadFits
  <2>3. QED
    BY <2>1, <2>2
<1>4. CASE Parse
  <2>1. /\ waiting' = waiting + m_recvIdx /\ m_recvIdx' = 0
        /\ UNCHANGED <<stream, sending, ended, missed, m_sendBufSize, cut>>
    BY <1>4, Zenon DEF Parse, replyVars
  <2>2. QED
    BY <2>1
<1>5. CASE PopTask
  <2>1. /\ waiting > 0 /\ waiting' = waiting - 1 /\ sending' = sending + 1
        /\ UNCHANGED <<stream, m_recvIdx, ended, missed, m_sendBufSize, cut>>
    BY <1>5, Zenon DEF PopTask, mainVars, replyVars
  <2>2. QED
    BY <2>1
<1>6. CASE SenderEnds
  <2>1. /\ sending > 0 /\ sending' = sending - 1
        /\ \/ ended' = ended + 1 /\ UNCHANGED missed
           \/ missed' = missed + 1 /\ UNCHANGED ended
        /\ UNCHANGED <<stream, m_recvIdx, waiting, m_sendBufSize, cut>>
    BY <1>6, Zenon DEF SenderEnds, mainVars, replyVars
  <2>2. QED
    BY <2>1
<1>7. CASE SetReply
  <2>1. /\ ended > 0 /\ ended' = ended - 1
        /\ m_sendBufSize < MAX_SEND_BUFFER_SIZE /\ m_sendBufSize' = m_sendBufSize + 1
        /\ UNCHANGED <<stream, m_recvIdx, waiting, sending, missed, cut>>
    BY <1>7, Zenon DEF SetReply, mainVars
  <2>2. QED
    BY <2>1
<1>8. CASE SendReply
  <2>1. /\ \/ m_sendBufSize' = 0 /\ cut' = 0
           \/ cut' = cut + 1 /\ UNCHANGED m_sendBufSize
        /\ UNCHANGED <<stream, m_recvIdx, waiting, sending, ended, missed>>
    BY <1>8, Zenon DEF SendReply, InitSendBuf, mainVars
  <2>2. QED
    BY <2>1
<1>9. CASE EndScan
  <2>1. /\ ended = 0 /\ ended' = missed /\ missed' = 0
        /\ UNCHANGED <<stream, m_recvIdx, waiting, sending, m_sendBufSize, cut>>
    BY <1>9, Zenon DEF EndScan, mainVars, replyVars
  <2>2. QED
    BY <2>1
<1>10. QED
  BY <1>1, <1>2, <1>3, <1>4, <1>5, <1>6, <1>7, <1>8, <1>9, Zenon
  DEF Next, MainStep, SendManagerStep

LEMMA PlacesNext == Places /\ [Next]_vars => Places'
<1> SUFFICES ASSUME Places, [Next]_vars PROVE Places'
  OBVIOUS
<1> USE DEF Places, epollVars, mainVars
<1>1. CASE InstructionArrives \/ RoomToSend
  BY <1>1, Zenon DEF InstructionArrives, RoomToSend
<1>2. CASE EventIn \/ EventOut \/ NoEvent
  BY <1>2, Zenon DEF EventIn, EventOut, NoEvent, WatchAfter
<1>3. CASE Recv \/ Parse
  BY <1>3, Zenon DEF Recv, Parse
<1>4. CASE PopTask \/ SenderEnds \/ EndScan
  BY <1>4, Zenon DEF PopTask, SenderEnds, EndScan
<1>5. CASE SetReply
  BY <1>5, Zenon DEF SetReply, ModFd
<1>6. CASE SendReply
  <2>1. /\ watch' \in {watch, "IN once", "OUT once"} /\ UNCHANGED <<main, filled>>
        /\ sm' = "scan" /\ last' \in {"reply", "short reply"}
    BY <1>6, Zenon DEF SendReply, Rearm, ModFd
  <2>2. ready' \in {stream > 0} \/ ready' \in BOOLEAN \/ ready' = ready
    BY <1>6, Zenon DEF SendReply, Rearm, ModFd
  <2>3. QED
    BY <2>1, <2>2, InputIsFlag, Zenon
<1>7. CASE UNCHANGED vars
  BY <1>7, Zenon DEF vars
<1>8. QED
  BY <1>1, <1>2, <1>3, <1>4, <1>5, <1>6, <1>7, Zenon DEF Next, MainStep, SendManagerStep

LEMMA TypeNext == TypeOK /\ [Next]_vars => TypeOK'
<1>1. TypeOK' <=> Counts' /\ Places'
  BY Zenon DEF TypeOK, Counts, Places
<1>2. QED
  BY <1>1, TypeParts, CountsNext, PlacesNext, Zenon

\* The types hold in every state, for buffers of any sizes: no receive overflows
\* m_recvBuf, and no instruction is lost or made up between kernel and Sender.
THEOREM TypeCorrect == Spec => []TypeOK
  BY TypeInit, TypeNext, PTL DEF Spec

-----------------------------------------------------------------------------
(* Instructions that wait in the kernel *)

\* masterfd watched for one event is on the ready list as soon as there is an
\* instruction.  Watched for edges it is too, but while a receive goes on and
\* after one that filled m_recvBuf: any other leaves nothing behind.
NoticedInv ==
  /\ watch = "IN once" /\ stream > 0 => ready
  /\ watch = "IN edge" /\ stream > 0 /\ main # "recv" => ready \/ filled

LEMMA NoticedInit == Init => NoticedInv
  BY Zenon DEF Init, NoticedInv

LEMMA NoticedNext == TypeOK /\ NoticedInv /\ [Next]_vars => NoticedInv'
<1> SUFFICES ASSUME TypeOK, NoticedInv, [Next]_vars PROVE NoticedInv'
  OBVIOUS
<1>0. stream \in Nat /\ m_recvIdx \in 0..MAX_RECV_BUFFER_SIZE
  BY TypeParts DEF Counts
<1> USE DEF NoticedInv, epollVars, mainVars
<1>1. CASE InstructionArrives
  BY <1>1, Zenon DEF InstructionArrives, WatchesIn
<1>2. CASE RoomToSend
  BY <1>2, Zenon DEF RoomToSend
<1>3. CASE EventIn
  <2>1. main' = "recv" /\ watch' # "IN once"
    BY <1>3, Zenon DEF EventIn, WatchAfter, WatchesIn
  <2>2. QED
    BY <2>1, Zenon
<1>4. CASE EventOut
  BY <1>4, Zenon DEF EventOut, WatchAfter
<1>5. CASE NoEvent
  BY <1>5, Zenon DEF NoEvent, WatchesIn
<1>6. CASE Recv
  \* A receive that ends has found nothing more, has filled m_recvBuf or has
  \* taken all there was.
  <2>1. /\ \/ stream = 0 /\ stream' = 0
           \/ /\ stream' = stream - Read /\ m_recvIdx' = m_recvIdx + Read
        /\ filled' = (m_recvIdx' = MAX_RECV_BUFFER_SIZE)
        /\ UNCHANGED <<watch, ready>>
    BY <1>6, Zenon DEF Recv
  <2>2. /\ m_recvIdx' = MAX_RECV_BUFFER_SIZE \/ ~(stream' > 0)
        /\ stream' > 0 => stream > 0
    BY <1>0, <2>1, ReceiveLeaves, Zenon
  <2>3. QED
    BY <2>1, <2>2, Zenon
<1>7. CASE Parse
  BY <1>7, Zenon DEF Parse
<1>8. CASE PopTask \/ SenderEnds \/ EndScan
  BY <1>8, Zenon DEF PopTask, SenderEnds, EndScan
<1>9. CASE SetReply
  BY <1>9, Zenon DEF SetReply, ModFd
<1>10. CASE SendReply
  <2>1. UNCHANGED <<stream, main, filled>>
    BY <1>10, Zenon DEF SendReply
  <2>2. \/ watch' = "IN once" /\ ready' = (stream > 0)
        \/ watch' = "OUT once"
        \/ watch' = watch /\ ready' = ready
    BY <1>10, Zenon DEF SendReply, Rearm, ModFd
  <2>3. QED
    BY <2>1, <2>2, Zenon
<1>11. CASE UNCHANGED vars
  BY <1>11, Zenon DEF vars
<1>12. QED
  BY <1>1, <1>2, <1>3, <1>4, <1>5, <1>6, <1>7, <1>8, <1>9, <1>10, <1>11, Zenon
  DEF Next, MainStep, SendManagerStep

\* For buffers of any sizes, an instruction sits in the kernel unnoticed by a
\* client that watches for it only after a receive that filled m_recvBuf.
THEOREM WatchedIsNoticedCorrect == Spec => []WatchedIsNoticed
<1>1. NoticedInv => WatchedIsNoticed
  BY Zenon DEF NoticedInv, WatchedIsNoticed, WatchesIn
<1>2. QED
  BY <1>1, NoticedInit, NoticedNext, TypeInit, TypeNext, PTL DEF Spec
=============================================================================
