---------------------------- MODULE MCThreadPool ----------------------------
(* Instances of ThreadPool: the pool of a client, whose resident tasks are    *)
(* the RecvManager and the SendManager (src/client/main.cpp:109-110).         *)
EXTENDS ThreadPool, TLC

CONSTANTS recv_manager, send_manager, file1, file2, sender1

ClientSubmitter ==
  [k \in Tasks |-> CASE k \in Resident -> Main
                     [] k \in ReceFiles -> recv_manager
                     [] OTHER -> send_manager]

ThreadSymmetry == Permutations(Threads)

=============================================================================
