--------------------------- MODULE TraceProducer ----------------------------
(***************************************************************************)
(* How src/master/traceProducer/CoflowBenchmarkTraceProducer.cpp turns the *)
(* lines of a trace into coflows and their flows, and how the machines of  *)
(* the trace are laid over the physical ones                               *)
(* (src/master/scheduler/MachineManager.cpp).                              *)
(*                                                                         *)
(* A line is [startTime, mapperIDs, reducers]; a reducer is [id, sizeMB],  *)
(* the data all mappers together send it, in a unit small enough for every *)
(* mapper's share to be a whole number.                                    *)
(***************************************************************************)
EXTENDS Naturals, Sequences

CONSTANTS
  Trace,           \* the lines of the file, in their order
  PhyMachineNum    \* physical machines 0..PhyMachineNum-1

Coflows  == 1..Len(Trace)
Machines == 0..PhyMachineNum - 1

MapperNum(c)  == Len(Trace[c].mapperIDs)
ReducerNum(c) == Len(Trace[c].reducers)

ASSUME TraceAssumption ==
  /\ Len(Trace) \in Nat \ {0}
  /\ PhyMachineNum \in Nat \ {0}
  /\ \A c \in Coflows :
       /\ Trace[c].startTime \in Nat
       /\ Trace[c].mapperIDs \in Seq(Nat) /\ MapperNum(c) > 0
       /\ Trace[c].reducers \in Seq([id : Nat, sizeMB : Nat]) /\ ReducerNum(c) > 0
       /\ \A j \in 1..ReducerNum(c) : Trace[c].reducers[j].sizeMB % MapperNum(c) = 0

\* Mutant: the flow id starts again for each reducer, and addFlow overwrites.
IdsOfOneReducer(c) == 0..MapperNum(c) - 1

\* prepareOneCoflow counts the flow id on through both loops.
FlowIDs(c) == 0..MapperNum(c) * ReducerNum(c) - 1

\* The flow that addFlow gets with an id: mappers are the inner loop.
Flow(c, flowID) ==
  LET reducer == Trace[c].reducers[(flowID \div MapperNum(c)) + 1] IN
    [mapperID   |-> Trace[c].mapperIDs[(flowID % MapperNum(c)) + 1],
     reducerID  |-> reducer.id,
     flowSizeMB |-> reducer.sizeMB \div MapperNum(c)]

Flows == UNION {{c} \X FlowIDs(c) : c \in Coflows}

\* updateLogicMap: logical machine i is physical machine i % phyMachineNum.
LogicMap(i) == i % PhyMachineNum
=============================================================================
