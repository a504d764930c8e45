----------------------------- MODULE ClientLoop ------------------------------
(***************************************************************************)
(* What epoll tells a client about masterfd: the main loop of              *)
(* src/client/main.cpp that reads instructions when it is told to, and the *)
(* SendManager's replies over the same descriptor, whose calls of modfd    *)
(* change what epoll tells.                                                *)
(*                                                                         *)
(* The unit is a message: an instruction on its way in, a report on its    *)
(* way out.  How bytes are cut is left to SocketManage.  addfd watches     *)
(* masterfd edge-triggered; modfd watches it for one event only, after     *)
(* which the descriptor is off until the next modfd.  epoll keeps it on    *)
(* its ready list from the moment something it watches for happens until   *)
(* epoll_wait looks at it.                                                 *)
(***************************************************************************)
EXTENDS Naturals, FiniteSetsExt

CONSTANTS
  MaxFlows,              \* bound on the instructions in progress
  MSG_LEN,               \* receiveMessage stops once it has this much
  MAX_RECV_BUFFER_SIZE,
  MAX_SEND_BUFFER_SIZE

ASSUME LoopAssumption ==
  /\ MaxFlows \in Nat \ {0}
  /\ MSG_LEN \in Nat \ {0}
  /\ MAX_RECV_BUFFER_SIZE \in Nat /\ MAX_RECV_BUFFER_SIZE >= MSG_LEN
  /\ MAX_SEND_BUFFER_SIZE \in Nat \ {0}

VARIABLES
  stream,        \* instructions the kernel holds
  watch, ready,  \* what epoll watches masterfd for; is it on the ready list?
  main,          \* the main thread's place
  m_recvIdx,
  waiting,       \* SendTasks in the wait queue
  sm,            \* the SendManager's place
  sending,       \* flows whose Sender is not done
  ended, missed, \* flows marked SEND_END, and of them those the scan has passed
  m_sendBufSize,
  cut,           \* history: sends in a row that the kernel cut short
  filled,        \* history: did the last receive fill m_recvBuf?
  last           \* history: the last thing of a reply or a receive on masterfd

epollVars == <<watch, ready>>
mainVars  == <<main, m_recvIdx>>
replyVars == <<m_sendBufSize, cut>>
vars == <<stream, epollVars, mainVars, waiting, sm, sending, ended, missed,
          replyVars, filled, last>>

Flows == stream + m_recvIdx + waiting + sending + ended + missed

TypeOK ==
  /\ Flows \in 0..MaxFlows
  /\ stream \in Nat /\ waiting \in Nat
  /\ sending \in Nat /\ ended \in Nat /\ missed \in Nat
  /\ watch \in {"IN edge", "IN once", "OUT once", "off"}
  /\ ready \in BOOLEAN
  /\ main \in {"epoll_wait", "recv", "parse"}
  /\ m_recvIdx \in 0..MAX_RECV_BUFFER_SIZE
  /\ sm \in {"sem wait", "scan", "send"}
  /\ m_sendBufSize \in 0..MAX_SEND_BUFFER_SIZE
  /\ cut \in Nat
  /\ filled \in BOOLEAN
  /\ last \in {"no reply", "reply", "short reply", "receive"}

\* initSocket adds masterfd to epoll; instructions may already be there.
Init ==
  /\ stream \in 0..1
  /\ watch = "IN edge" /\ ready = (stream > 0)
  /\ main = "epoll_wait" /\ m_recvIdx = 0
  /\ waiting = 0
  /\ sm = "sem wait"
  /\ sending = 0 /\ ended = 0 /\ missed = 0
  /\ m_sendBufSize = 0 /\ cut = 0
  /\ filled = FALSE
  /\ last = "no reply"

-----------------------------------------------------------------------------
(* epoll *)

WatchesIn == watch \in {"IN edge", "IN once"}

\* modfd: the ready list gets the descriptor if what is asked for is there.
ModFd(ev) ==
  /\ watch' = ev
  /\ ready' \in (IF ev = "IN once" THEN {stream > 0} ELSE BOOLEAN)

\* The master's instruction arrives: an edge.
InstructionArrives ==
  /\ Flows < MaxFlows
  /\ stream' = stream + 1
  /\ ready' = (ready \/ WatchesIn)
  /\ UNCHANGED <<watch, mainVars, waiting, sm, sending, ended, missed, replyVars,
                 filled, last>>

\* The kernel has room again for what the client sends.
RoomToSend ==
  /\ watch = "OUT once"
  /\ ~ready
  /\ ready' = TRUE
  /\ UNCHANGED <<stream, watch, mainVars, waiting, sm, sending, ended, missed,
                 replyVars, filled, last>>

\* A one-shot watch is off once an event was delivered.
WatchAfter == IF watch = "IN edge" THEN watch ELSE "off"

-----------------------------------------------------------------------------
(* The main loop *)

\* epoll_wait returns EPOLLIN: recvMsg is called.
EventIn ==
  /\ main = "epoll_wait" /\ ready
  /\ WatchesIn /\ stream > 0
  /\ watch' = WatchAfter
  /\ ready' = FALSE
  /\ main' = "recv"
  /\ last' = IF last = "no reply" THEN last ELSE "receive"
  /\ UNCHANGED <<stream, m_recvIdx, waiting, sm, sending, ended, missed,
                 replyVars, filled>>

\* epoll_wait returns EPOLLOUT, for which nothing is done.
EventOut ==
  /\ main = "epoll_wait" /\ ready
  /\ watch = "OUT once"
  /\ watch' = WatchAfter
  /\ ready' = FALSE
  /\ UNCHANGED <<stream, mainVars, waiting, sm, sending, ended, missed, replyVars,
                 filled, last>>

\* epoll_wait finds nothing to tell, the instructions having been read already.
NoEvent ==
  /\ main = "epoll_wait" /\ ready
  /\ watch # "OUT once"
  /\ ~(WatchesIn /\ stream > 0)
  /\ ready' = FALSE
  /\ UNCHANGED <<stream, watch, mainVars, waiting, sm, sending, ended, missed,
                 replyVars, filled, last>>

\* Mutants: all there is; only what is missing to MSG_LEN.
ReadAll    == stream
ReadMsgLen == Min({stream, MSG_LEN - m_recvIdx})

Read == Min({stream, MAX_RECV_BUFFER_SIZE - m_recvIdx})

\* One recv of receiveMessage: EAGAIN ends it, as do MSG_LEN bytes.
Recv ==
  /\ main = "recv"
  /\ IF stream = 0
       THEN /\ main' = "parse"
            /\ UNCHANGED <<stream, m_recvIdx>>
       ELSE /\ stream' = stream - Read
            /\ m_recvIdx' = m_recvIdx + Read
            /\ main' = IF m_recvIdx' >= MSG_LEN THEN "parse" ELSE "recv"
  /\ filled' = (m_recvIdx' = MAX_RECV_BUFFER_SIZE)
  /\ UNCHANGED <<epollVars, waiting, sm, sending, ended, missed, replyVars, last>>

\* getRecvBuf, and appendTask for each instruction found.
Parse ==
  /\ main = "parse"
  /\ waiting' = waiting + m_recvIdx
  /\ m_recvIdx' = 0
  /\ main' = "epoll_wait"
  /\ UNCHANGED <<stream, epollVars, sm, sending, ended, missed, replyVars,
                 filled, last>>

-----------------------------------------------------------------------------
(* SendManager::run and its Senders *)

\* A task is popped and its Sender launched; then the running queue is scanned.
PopTask ==
  /\ sm = "sem wait"
  /\ waiting > 0
  /\ waiting' = waiting - 1
  /\ sending' = sending + 1
  /\ sm' = "scan"
  /\ UNCHANGED <<stream, epollVars, mainVars, ended, missed, replyVars, filled, last>>

\* A Sender ends; while the queue is scanned, in front of the scan or behind it.
SenderEnds ==
  /\ sending > 0
  /\ sending' = sending - 1
  /\ \/ ended' = ended + 1 /\ UNCHANGED missed
     \/ sm # "sem wait" /\ missed' = missed + 1 /\ UNCHANGED ended
  /\ UNCHANGED <<stream, epollVars, mainVars, waiting, sm, replyVars, filled, last>>

\* setSendMsg: the report is buffered and masterfd watched for EPOLLOUT.
SetReply ==
  /\ sm = "scan"
  /\ ended > 0
  /\ m_sendBufSize < MAX_SEND_BUFFER_SIZE
  /\ m_sendBufSize' = m_sendBufSize + 1
  /\ ended' = ended - 1
  /\ ModFd("OUT once")
  /\ sm' = "send"
  /\ UNCHANGED <<stream, mainVars, waiting, sending, missed, cut, filled, last>>

\* Mutant: modfd is forgotten after a whole send.
NoRearm == UNCHANGED epollVars

Rearm == ModFd("IN once")

\* Mutant: initSendBuf is forgotten after a whole send.
KeepSendBuf == m_sendBufSize

InitSendBuf == 0

\* sendMessage: the kernel takes all of the buffer and masterfd is watched for
\* EPOLLIN once; or it takes nothing (EAGAIN) or a part.
SendReply ==
  /\ sm = "send"
  /\ \/ /\ Rearm
        /\ m_sendBufSize' = InitSendBuf
        /\ cut' = 0
        /\ last' = "reply"
     \/ /\ cut' = cut + 1
        /\ ModFd("OUT once") \/ UNCHANGED epollVars
        /\ last' = "short reply"
        /\ UNCHANGED m_sendBufSize
  /\ sm' = "scan"
  /\ UNCHANGED <<stream, mainVars, waiting, sending, ended, missed, filled>>

EndScan ==
  /\ sm = "scan"
  /\ ended = 0
  /\ ended' = missed
  /\ missed' = 0
  /\ sm' = "sem wait"
  /\ UNCHANGED <<stream, epollVars, mainVars, waiting, sending, replyVars, filled, last>>

-----------------------------------------------------------------------------

MainStep        == EventIn \/ EventOut \/ NoEvent \/ Recv \/ Parse
SendManagerStep == PopTask \/ SetReply \/ SendReply \/ EndScan

Next == InstructionArrives \/ RoomToSend \/ MainStep \/ SendManagerStep \/ SenderEnds

Spec == Init /\ [][Next]_vars

\* The two threads run.  Nothing makes the master send, a Sender end or the
\* kernel take a whole buffer.
FairSpec == Spec /\ WF_vars(MainStep) /\ WF_vars(SendManagerStep)

-----------------------------------------------------------------------------
(* Properties *)

\* While masterfd is watched for input, instructions do not sit in the kernel
\* unnoticed, unless the last receive of an edge-triggered event filled
\* m_recvBuf: what a receive that ends at MSG_LEN leaves raises an edge later.
WatchedIsNoticed ==
  main = "epoll_wait" /\ WatchesIn /\ stream > 0 =>
    ready \/ (watch = "IN edge" /\ filled)

\* setSendMsg refuses the report of an ended flow, and SendManager::run calls it
\* again and again: nobody else sends what the buffer holds.
ReplyBufferFull == sm = "scan" /\ ended > 0 /\ m_sendBufSize = MAX_SEND_BUFFER_SIZE

\* The client is deaf to the master: nothing is left for the SendManager to do,
\* and since its last reply, which the kernel took whole, an event was consumed
\* (one-shot), or the kernel cut that reply short, or there never was a reply
\* and the last receive filled m_recvBuf; or the SendManager is at a full buffer.
Deaf ==
  \/ /\ sm = "sem wait" /\ waiting = 0
     /\ last \in {"receive", "short reply"} \/ (last = "no reply" /\ filled)
  \/ ReplyBufferFull

\* An instruction that arrived is read, unless the client stays deaf for ever.
\* So one that replies to what it reads, wholly, keeps reading.
ReadUnlessDeaf == stream > 0 ~> (main = "recv" \/ []Deaf)

\* A report that a short send kept leaves with a later one.  If it never does, no
\* report is ever sent again (no other flow ends, or the buffer is full), and the
\* buffer holds what the kernel cut short since it last took a whole one, nothing
\* else; EPOLLOUT, which the short send asked for, never makes it leave.
KeptOnlyByCuts ==
  m_sendBufSize > 0 ~> (m_sendBufSize = 0 \/ [](sm # "send" /\ m_sendBufSize = cut))
=============================================================================
