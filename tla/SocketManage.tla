---------------------------- MODULE SocketManage ----------------------------
(***************************************************************************)
(* One direction of the TCP connection between the master and a client, as *)
(* src/common/socket/socketManage.{h,cpp} drives it: the sender's buffer   *)
(* m_sendBuf and the bytes the kernel took that the peer has not received. *)
(*                                                                         *)
(* A byte is <<m, p>>: the p-th byte of the frame of message m.  The first *)
(* byte of a frame is '(' and the last one ')'; neither occurs inside.     *)
(* The calls of modfd are left out: no event loop of this program acts on  *)
(* the events of a sender.                                                 *)
(***************************************************************************)
EXTENDS Naturals, Sequences, FiniteSetsExt, Subsequences

CONSTANTS
  FrameLen,              \* bytes of a frame (below MSG_LEN in the code)
  MAX_SEND_BUFFER_SIZE,
  MAX_RECV_BUFFER_SIZE,
  KernelCap              \* bytes the kernels hold between the two programs

ASSUME SocketAssumption ==
  /\ FrameLen \in Nat /\ FrameLen >= 3
  /\ MAX_SEND_BUFFER_SIZE \in Nat /\ MAX_SEND_BUFFER_SIZE >= FrameLen
  /\ MAX_RECV_BUFFER_SIZE \in Nat \ {0}
  /\ KernelCap \in Nat \ {0}

VARIABLES m_sendBuf, stream

InitSocket == m_sendBuf = <<>> /\ stream = <<>>

Frame(m) == [p \in 1..FrameLen |-> <<m, p>>]
Body(m)  == SubSeq(Frame(m), 2, FrameLen - 1)

IsOpen(byte)  == byte[2] = 1
IsClose(byte) == byte[2] = FrameLen

\* Mutant: the room left is not looked at.
AlwaysFits(msg) == TRUE

Fits(msg) == Len(m_sendBuf) + Len(msg) <= MAX_SEND_BUFFER_SIZE

\* Mutant: a message is appended whatever room is left.
AppendMsg(msg) == m_sendBuf \o msg

\* setSendMsg: the buffer after it; a message that does not fit is refused.
SetSendMsg(msg) == IF Fits(msg) THEN m_sendBuf \o msg ELSE m_sendBuf

\* Mutant: the buffer is cleared whatever send() returned.
ClearAfterSend(buf) ==
  \E k \in 0..Min({Len(buf), KernelCap - Len(stream)}) :
    /\ stream' = stream \o SubSeq(buf, 1, k)
    /\ m_sendBuf' = <<>>

\* sendMessage on a buffer: the kernel takes its first k bytes (none on EAGAIN).
\* Unless it took them all, the whole buffer is kept, what was sent included.
SendMessage(buf) ==
  \E k \in 0..Min({Len(buf), KernelCap - Len(stream)}) :
    /\ stream' = stream \o SubSeq(buf, 1, k)
    /\ m_sendBuf' = IF k = Len(buf) THEN <<>> ELSE buf

\* recvMsg: what one call can find: the first bytes of the stream.
ReceivedNow == 1..Min({Len(stream), MAX_RECV_BUFFER_SIZE})

-----------------------------------------------------------------------------
(* What both parsers do with the bytes collected so far *)

Closes(buf) == {j \in DOMAIN buf : IsClose(buf[j])}

LastOpen(buf, j)  == Max({i \in 1..j : IsOpen(buf[i])} \cup {0})
LastClose(buf)    == Max(Closes(buf) \cup {0})
=============================================================================
