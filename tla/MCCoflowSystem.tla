--------------------------- MODULE MCCoflowSystem ---------------------------
(* Two clients.  The first two flows cross each other, the third has its    *)
(* mapper and its reducer on one machine.                                   *)
EXTENDS CoflowSystem

MCSource == <<1, 2, 1>>
MCDest   == <<2, 1, 1>>
MCCoflow == <<1, 1, 2>>
=============================================================================
