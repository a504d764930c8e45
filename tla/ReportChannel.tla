--------------------------- MODULE ReportChannel ----------------------------
(***************************************************************************)
(* The reports "(coflow flow time)" of one client to the master: the       *)
(* SendManager's thread sends them (src/client/SendManager.cpp) and the    *)
(* Scheduler's thread receives and parses them                             *)
(* (Machine::parseFlowsFinishedInfo in src/master/datastructures), over    *)
(* the connection of SocketManage.                                         *)
(*                                                                         *)
(* The parser's indices flowStartIndex and flowEndIndex have no initial    *)
(* value.  A call that finds no '(' or no ')' uses one that is undefined:  *)
(* every value of it is a choice here.                                     *)
(***************************************************************************)
EXTENDS SocketManage, Integers, SequencesExt

CONSTANT NumReports   \* reports 1..NumReports, in the order they are sent

ASSUME ReportAssumption == NumReports \in Nat

VARIABLES
  accepted,            \* the reports that setSendMsg took
  tmprecv,             \* the master's bytes of a report not complete yet
  flowsFinishedInfo,   \* the texts the master parsed, in order
  exposed,             \* history: the reports in calls that used an undefined index
  crashed              \* such a use ended the master

vars == <<m_sendBuf, stream, accepted, tmprecv, flowsFinishedInfo, exposed, crashed>>

Open == <<0, 1>>   \* a '(' that the parser wrote

Bytes == (0..NumReports) \X (1..FrameLen)

TypeOK ==
  /\ m_sendBuf \in Seq(Bytes) /\ Len(m_sendBuf) <= MAX_SEND_BUFFER_SIZE
  /\ stream \in Seq(Bytes) /\ Len(stream) <= KernelCap
  /\ accepted \in Seq(1..NumReports)
  /\ tmprecv \in Seq(Bytes)
  /\ flowsFinishedInfo \in Seq(Seq(Bytes))
  /\ exposed \in SUBSET (0..NumReports)
  /\ exposed = {} => Len(tmprecv) < FrameLen
  /\ crashed \in BOOLEAN

Init ==
  /\ InitSocket
  /\ accepted = <<>>
  /\ tmprecv = <<>>
  /\ flowsFinishedInfo = <<>>
  /\ exposed = {}
  /\ crashed = FALSE

\* "while (!setSendMsg(...));" and sendMsg: a report is sent once it fits.
SendReport ==
  /\ Len(accepted) < NumReports
  /\ LET frame == Frame(Len(accepted) + 1) IN
       /\ Fits(frame)
       /\ SendMessage(SetSendMsg(frame))
  /\ accepted' = Append(accepted, Len(accepted) + 1)
  /\ UNCHANGED <<tmprecv, flowsFinishedInfo, exposed, crashed>>

-----------------------------------------------------------------------------
(* parseFlowsFinishedInfo.  Indices count from 0, as in the code. *)

Opens(buf) == {i \in DOMAIN buf : IsOpen(buf[i])}

\* Every index is set before it is used: the first ')' has a '(' before it, and
\* there is one of each.
Defined(buf) == Opens(buf) # {} /\ Closes(buf) # {} /\ Min(Opens(buf)) < Min(Closes(buf))

\* What flowStartIndex and flowEndIndex can hold after the loop.  Values outside
\* the buffer act as -1 or as its length does.
StartIndex(buf) == IF Opens(buf) = {} THEN 0..Len(buf) ELSE {Max(Opens(buf))}
EndIndex(buf)   == IF Closes(buf) = {} THEN -1..Len(buf) ELSE {Max(Closes(buf)) - 1}

\* A ')' with no '(' before it ends a text that starts anywhere in memory: <<>>.
Parsed(buf) ==
  [n \in 1..Cardinality(Closes(buf)) |->
     LET j == Nth(Closes(buf), n)
     IN  IF LastOpen(buf, j) = 0 THEN <<>> ELSE SubSeq(buf, LastOpen(buf, j) + 1, j - 1)]

\* Mutant: what follows the last report is thrown away.
KeepNothing(buf, start, end) == <<>>

\* What is kept: '(' and what follows start, moved to the front byte by byte.
Kept(buf, start, end) ==
  IF end >= start THEN <<>>
  ELSE IF start = 0 THEN [i \in 1..Len(buf) + 1 |-> Open]
  ELSE <<IF IsOpen(buf[start]) THEN buf[start] ELSE Open>> \o SubSeq(buf, start + 1, Len(buf))

\* recvMsg and parseFlowsFinishedInfo, when the Scheduler polls this machine.
ReceiveReports ==
  /\ ~crashed
  /\ \E k \in ReceivedNow :
       LET buf == tmprecv \o SubSeq(stream, 1, k) IN
         /\ stream' = SubSeq(stream, k + 1, Len(stream))
         /\ flowsFinishedInfo' = flowsFinishedInfo \o Parsed(buf)
         /\ \E start \in StartIndex(buf), end \in EndIndex(buf) :
              tmprecv' = Kept(buf, start, end)
         /\ IF Defined(buf)
              THEN UNCHANGED <<exposed, crashed>>
              ELSE /\ exposed' = exposed \cup {buf[i][1] : i \in DOMAIN buf}
                   /\ crashed' \in BOOLEAN
  /\ UNCHANGED <<m_sendBuf, accepted>>

Next == SendReport \/ ReceiveReports

Spec == Init /\ [][Next]_vars

-----------------------------------------------------------------------------
(* Properties *)

\* An accepted report is parsed, or whole on its way, unless bytes of it were in
\* a call that used an undefined index: whatever such a call keeps, the parser
\* is in step again with the next report's '('.
LostOnlyIfExposed ==
  \A n \in DOMAIN accepted :
    LET Whole(s) == \E i \in 1..Len(s) - FrameLen + 1 : SubSeq(s, i, i + FrameLen - 1) = Frame(n)
    IN  \/ Contains(flowsFinishedInfo, Body(n))
        \/ Whole(tmprecv \o stream) \/ Whole(m_sendBuf)
        \/ n \in exposed \/ crashed

PositionOf(body) == Max({n \in DOMAIN accepted : Body(n) = body} \cup {0})

Channel == INSTANCE GoBackFifo WITH
  got <- [i \in DOMAIN flowsFinishedInfo |-> PositionOf(flowsFinishedInfo[i])]

\* Until then the reports come in order, without gaps and perhaps repeated: each
\* step is one that GoBackFifo allows, or none of its.
FifoUntilExposed ==
  [][exposed' # {} \/ Channel!Next \/ UNCHANGED <<accepted, flowsFinishedInfo>>]_vars
=============================================================================
