----------------------------- MODULE GoBackFifo -----------------------------
(***************************************************************************)
(* What a one-way message channel of this program promises.  Messages are  *)
(* accepted in order; the receiver gets them in that order and may at any  *)
(* moment get again a stretch of what it already got.  It never skips one: *)
(* after the i-th accepted message comes the (i+1)-th or an earlier one.   *)
(***************************************************************************)
EXTENDS Naturals, Sequences

VARIABLES
  accepted,   \* the messages accepted for sending
  got         \* the positions in accepted of what the receiver got

Init == accepted = <<>> /\ got = <<>>

Accept ==
  /\ Len(accepted') = Len(accepted) + 1
  /\ SubSeq(accepted', 1, Len(accepted)) = accepted
  /\ UNCHANGED got

NextAllowed(prev) == 1..prev + 1

Deliver ==
  /\ Len(got') > Len(got)
  /\ SubSeq(got', 1, Len(got)) = got
  /\ \A j \in Len(got)+1..Len(got') :
       /\ got'[j] \in NextAllowed(IF j = 1 THEN 0 ELSE got'[j-1])
       /\ got'[j] <= Len(accepted)
  /\ UNCHANGED accepted

Next == Accept \/ Deliver

Spec == Init /\ [][Next]_<<accepted, got>>
=============================================================================
