--------------------------- MODULE CoflowService ----------------------------
(***************************************************************************)
(* What the simulator promises about coflows: every flow of a coflow is    *)
(* given to a machine once; a coflow is recorded as finished once, after   *)
(* all its flows ended; the simulation is over when every coflow finished. *)
(***************************************************************************)
EXTENDS Naturals, Sequences

CONSTANTS Coflows, Flows, CoflowOf

VARIABLES
  sent,       \* how many times each flow was given to a machine
  ended,      \* flows whose end the machines announced
  finished,   \* the coflows recorded as finished, in order
  over

Init ==
  /\ sent = [f \in Flows |-> 0]
  /\ ended = {}
  /\ finished = <<>>
  /\ over = FALSE

Send(f) ==
  /\ sent[f] = 0
  /\ sent' = [sent EXCEPT ![f] = 1]
  /\ UNCHANGED <<ended, finished, over>>

End(f) ==
  /\ sent[f] = 1
  /\ f \notin ended
  /\ ended' = ended \cup {f}
  /\ UNCHANGED <<sent, finished, over>>

Finish(c) ==
  /\ \A f \in Flows : CoflowOf[f] = c => f \in ended
  /\ \A i \in DOMAIN finished : finished[i] # c
  /\ finished' = Append(finished, c)
  /\ over' = (\A d \in Coflows : \E i \in DOMAIN finished' : finished'[i] = d)
  /\ UNCHANGED <<sent, ended>>

Next ==
  \/ \E f \in Flows : Send(f) \/ End(f)
  \/ \E c \in Coflows : Finish(c)

Spec == Init /\ [][Next]_<<sent, ended, finished, over>>
=============================================================================
