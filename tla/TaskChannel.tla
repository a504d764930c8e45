---------------------------- MODULE TaskChannel -----------------------------
(***************************************************************************)
(* The instructions "(coflow flow ip port file size speed)" of the master  *)
(* to one client: MachineManager::sendTask on the master, the handler of   *)
(* masterfd in the client's main loop (src/client/main.cpp), and between   *)
(* them the connection of SocketManage.  The Scheduler's thread is the     *)
(* only sender and the client's main thread the only receiver.             *)
(*                                                                         *)
(* When the client's loop is told to receive is not modelled here: a       *)
(* receive may come at any time there are bytes, or never.                 *)
(***************************************************************************)
EXTENDS SocketManage, Integers, SequencesExt

CONSTANT NumTasks   \* instructions 1..NumTasks, in the order they are sent

ASSUME TaskAssumption == NumTasks \in Nat

VARIABLES
  sent,           \* how many times sendTask was called
  accepted,       \* the instructions that setSendMsg took
  recvbuf,        \* the client's bytes of an instruction not complete yet
  instructions    \* what the client gave to appendTask, in order

vars == <<m_sendBuf, stream, sent, accepted, recvbuf, instructions>>

Bytes == (1..NumTasks) \X (1..FrameLen)

TypeOK ==
  /\ m_sendBuf \in Seq(Bytes) /\ Len(m_sendBuf) <= MAX_SEND_BUFFER_SIZE
  /\ stream \in Seq(Bytes) /\ Len(stream) <= KernelCap
  /\ sent \in 0..NumTasks
  /\ accepted \in Seq(1..NumTasks)
  /\ recvbuf \in Seq(Bytes) /\ Len(recvbuf) < FrameLen
  /\ instructions \in Seq(Seq(Bytes))

Init ==
  /\ InitSocket
  /\ sent = 0
  /\ accepted = <<>>
  /\ recvbuf = <<>>
  /\ instructions = <<>>

\* setSendMsg, whose refusal is ignored, then sendMsg; true is returned.
SendTask ==
  /\ sent < NumTasks
  /\ sent' = sent + 1
  /\ SendMessage(SetSendMsg(Frame(sent + 1)))
  /\ accepted' = IF Fits(Frame(sent + 1)) THEN Append(accepted, sent + 1) ELSE accepted
  /\ UNCHANGED <<recvbuf, instructions>>

\* The instructions found: for each ')', what follows the last '(' before it.
\* insstart starts at 0, so with no '(' it is all that was collected.
Parsed(buf) ==
  [n \in 1..Cardinality(Closes(buf)) |->
     LET j == Nth(Closes(buf), n) IN SubSeq(buf, LastOpen(buf, j) + 1, j - 1)]

\* Mutant: what follows the last instruction is thrown away.
KeepNothing(buf) == <<>>

\* What is kept: from the last '(' on, if no ')' follows it ("insend < insstart").
Kept(buf) ==
  LET open == LastOpen(buf, Len(buf))
  IN  IF LastClose(buf) < open THEN SubSeq(buf, open, Len(buf)) ELSE <<>>

\* recvMsg, getRecvBuf and the parsing loop, for one event of masterfd.
ReceiveInstructions ==
  \E k \in ReceivedNow :
    LET buf == recvbuf \o SubSeq(stream, 1, k) IN
      /\ stream' = SubSeq(stream, k + 1, Len(stream))
      /\ instructions' = instructions \o Parsed(buf)
      /\ recvbuf' = Kept(buf)
      /\ UNCHANGED <<m_sendBuf, sent, accepted>>

Next == SendTask \/ ReceiveInstructions

Spec == Init /\ [][Next]_vars

-----------------------------------------------------------------------------
(* Properties *)

\* An accepted instruction is not lost on the way: it was given to appendTask,
\* or it is still whole in what the client kept and the kernel holds, or in the
\* master's buffer.
AcceptedNotLost ==
  \A n \in DOMAIN accepted :
    LET m == accepted[n]
        Whole(s) == \E i \in 1..Len(s) - FrameLen + 1 : SubSeq(s, i, i + FrameLen - 1) = Frame(m)
    IN  Contains(instructions, Body(m)) \/ Whole(recvbuf \o stream) \/ Whole(m_sendBuf)

\* The channel promises what GoBackFifo says, however the bytes are cut into
\* receives and resends: instructions arrive in order and without gaps, and may
\* be repeated from an earlier one.  What arrives is the body of one accepted
\* instruction, never a mixture of two or a part of one, which would be no
\* position at all.
PositionOf(body) ==
  Max({n \in DOMAIN accepted : Body(accepted[n]) = body} \cup {0})

Channel == INSTANCE GoBackFifo WITH
  got <- [i \in DOMAIN instructions |-> PositionOf(instructions[i])]

ImplementsFifo == Channel!Spec
=============================================================================
