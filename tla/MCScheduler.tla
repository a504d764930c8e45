---------------------------- MODULE MCScheduler -----------------------------
(* A small trace: coflows of 2 x 1, 1 x 1 and 1 x 2 flows, the second and   *)
(* the third of which arrive together.                                      *)
EXTENDS Scheduler

Line(startTime, mapperIDs, reducers) ==
  [startTime |-> startTime, mapperIDs |-> mapperIDs, reducers |-> reducers]

Reducer(id, sizeMB) == [id |-> id, sizeMB |-> sizeMB]

MCTrace ==
  << Line(0, <<1, 2>>, <<Reducer(2, 4)>>),
     Line(1, <<2>>, <<Reducer(0, 1)>>),
     Line(1, <<3>>, <<Reducer(1, 2), Reducer(0, 1)>>) >>

\* The flows of the first coflow may be reported twice.
SomeTwice == [f \in Flows |-> IF f[1] = 1 THEN 2 ELSE 1]
=============================================================================
