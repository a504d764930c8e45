--------------------------- MODULE MCSendManager ----------------------------
(* Small instances of SendManager. *)
EXTENDS SendManager

CONSTANTS flow1, flow2, flow3

TwoSpeeds == [t \in Tasks |-> IF t = flow1 THEN 10 ELSE 20]
=============================================================================
