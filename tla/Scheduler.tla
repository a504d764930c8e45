----------------------------- MODULE Scheduler ------------------------------
(***************************************************************************)
(* The master's Scheduler thread (src/master/scheduler/Scheduler.cpp) with *)
(* the coflows it reads (datastructures/coflow.cpp) and the queue of       *)
(* parsed reports of each machine (datastructures/machine.cpp).            *)
(*                                                                         *)
(* One action is a part of the loop body that reads the clock or a socket  *)
(* once.  The clients are an environment that announces the end of flows   *)
(* that were sent, in any order, late or never, and more than once: both   *)
(* channels resend whole messages (TaskChannel).  A report is one value    *)
(* here; how its bytes are cut is left to SocketManage.  An instruction    *)
(* that does not fit m_sendBuf is lost without notice: its flow is one     *)
(* that the environment never announces.                                   *)
(***************************************************************************)
EXTENDS Naturals, Sequences, FiniteSets, TraceProducer

CONSTANTS
  MaxTime,         \* bound on the clock
  MaxReports       \* MaxReports[f]: bound on the reports of flow f

ASSUME SchedulerAssumption ==
  /\ MaxTime \in Nat
  /\ \A c \in Coflows : Trace[c].startTime <= MaxTime
  /\ MaxReports \in [Flows -> Nat]

NumCoflows   == Len(Trace)
StartTime(c) == Trace[c].startTime
Mapper(f)    == Flow(f[1], f[2]).mapperID

\* getFlowsNum: the size of flowCollection.
FlowsNum(c) == Cardinality(FlowIDs(c))

VARIABLES
  now,                 \* clock() / TIME_CLOCK - startTime
  pc,
  registerIndex,       \* coflows registered so far
  coflowState,
  coflow, flow,        \* where the sending loops are
  machine,             \* where the polling loop is
  endflowNum, flowEnded,
  coflowFinishedNum,
  coflowLog,           \* coflow.log: the coflows written as finished
  flowsFinishedInfo,   \* parsed reports of each machine
  sent,                \* calls of sendTask for each flow
  inbox,               \* reports of each machine not received yet
  reported             \* reports each flow's client has made

loopVars == <<coflow, flow, machine>>
endVars  == <<endflowNum, flowEnded, coflowFinishedNum, coflowLog>>
envVars  == <<inbox, reported>>
vars == <<now, pc, registerIndex, coflowState, loopVars, endVars,
          flowsFinishedInfo, sent, envVars>>

TypeOK ==
  /\ now \in 0..MaxTime
  /\ pc \in {"register", "select", "dispatch", "poll", "report", "stopped"}
  /\ registerIndex \in 0..NumCoflows
  /\ coflowState \in [Coflows -> {"UNREGISTER", "REGISTED", "RUNNING", "RUNNINGED"}]
  /\ coflow \in 1..NumCoflows + 1
  /\ flow \in Nat
  /\ machine \in Machines
  /\ endflowNum \in [Coflows -> Nat]
  /\ flowEnded \in SUBSET Flows
  /\ coflowFinishedNum \in 0..NumCoflows
  /\ coflowLog \in Seq(Coflows)
  /\ flowsFinishedInfo \in [Machines -> Seq(Flows)]
  /\ sent \in [Flows -> Nat]
  /\ inbox \in [Machines -> Seq(Flows)]
  /\ reported \in [Flows -> Nat]

Init ==
  /\ now = 0
  /\ pc = "register"
  /\ registerIndex = 0
  /\ coflowState = [c \in Coflows |-> "UNREGISTER"]
  /\ coflow = 1 /\ flow = 0 /\ machine = 0
  /\ endflowNum = [c \in Coflows |-> 0]
  /\ flowEnded = {}
  /\ coflowFinishedNum = 0
  /\ coflowLog = <<>>
  /\ flowsFinishedInfo = [m \in Machines |-> <<>>]
  /\ sent = [f \in Flows |-> 0]
  /\ inbox = [m \in Machines |-> <<>>]
  /\ reported = [f \in Flows |-> 0]

-----------------------------------------------------------------------------
(* The environment *)

Tick ==
  /\ now < MaxTime
  /\ now' = now + 1
  /\ UNCHANGED <<pc, registerIndex, coflowState, loopVars, endVars,
                 flowsFinishedInfo, sent, envVars>>

\* A report of flow f reaches the master from the client that sent the flow.
\* The Scheduler's last act is to close the connections.
ReportArrives(f) ==
  /\ pc # "stopped"
  /\ sent[f] > 0
  /\ reported[f] < MaxReports[f]
  /\ reported' = [reported EXCEPT ![f] = @ + 1]
  /\ inbox' = [inbox EXCEPT ![LogicMap(Mapper(f))] = Append(@, f)]
  /\ UNCHANGED <<now, pc, registerIndex, coflowState, loopVars, endVars,
                 flowsFinishedInfo, sent>>

-----------------------------------------------------------------------------
(* Scheduler::run *)

\* Mutant: the arrival time is not compared with the clock.
AnyTime(c) == TRUE

Arrived(c) == StartTime(c) <= now

\* registerCoflow: in the order of the trace, up to the first not arrived yet.
RegisterCoflows ==
  /\ pc = "register"
  /\ \E r \in registerIndex..NumCoflows :
       /\ \A c \in registerIndex+1..r : Arrived(c)
       /\ r < NumCoflows => ~Arrived(r + 1)
       /\ registerIndex' = r
       /\ coflowState' = [c \in Coflows |-> IF c \in registerIndex+1..r
                                              THEN "REGISTED" ELSE coflowState[c]]
  /\ pc' = "select"
  /\ UNCHANGED <<now, loopVars, endVars, flowsFinishedInfo, sent, envVars>>

\* Mutant: the loop leaves out the last registered coflow.
SelectedButLast(c) == c < registerIndex /\ coflowState[c] = "REGISTED"

Selected(c) == c <= registerIndex /\ coflowState[c] = "REGISTED"

\* Every registered coflow is chosen.
SelectCoflows ==
  /\ pc = "select"
  /\ coflowState' = [c \in Coflows |-> IF Selected(c) THEN "RUNNING" ELSE coflowState[c]]
  /\ coflow' = 1 /\ flow' = 0
  /\ pc' = "dispatch"
  /\ UNCHANGED <<now, registerIndex, machine, endVars, flowsFinishedInfo, sent, envVars>>

\* sendTask always returns true: one call for each flow.
SendFlow ==
  /\ pc = "dispatch"
  /\ coflow <= registerIndex
  /\ coflowState[coflow] = "RUNNING"
  /\ flow < FlowsNum(coflow)
  /\ sent' = [sent EXCEPT ![<<coflow, flow>>] = @ + 1]
  /\ flow' = flow + 1
  /\ UNCHANGED <<now, pc, registerIndex, coflowState, coflow, machine, endVars,
                 flowsFinishedInfo, envVars>>

\* Mutant: the coflow stays RUNNING after its flows were sent.
KeepRunning(c) == "RUNNING"

AfterSending(c) == "RUNNINGED"

NextCoflow ==
  /\ pc = "dispatch"
  /\ coflow <= registerIndex
  /\ coflowState[coflow] = "RUNNING" => flow = FlowsNum(coflow)
  /\ coflowState' = IF coflowState[coflow] = "RUNNING"
                      THEN [coflowState EXCEPT ![coflow] = AfterSending(coflow)]
                      ELSE coflowState
  /\ coflow' = coflow + 1 /\ flow' = 0
  /\ UNCHANGED <<now, pc, registerIndex, machine, endVars, flowsFinishedInfo,
                 sent, envVars>>

StartPolling ==
  /\ pc = "dispatch"
  /\ coflow > registerIndex
  /\ machine' = 0
  /\ pc' = "poll"
  /\ UNCHANGED <<now, registerIndex, coflowState, coflow, flow, endVars,
                 flowsFinishedInfo, sent, envVars>>

\* Mutant: what one receive does not take is thrown away.
KeepNone(s, k) == <<>>

KeepRest(s, k) == SubSeq(s, k + 1, Len(s))

\* recvMsg and parseFlowsFinishedInfo: one receive takes some of what is there.
PollMachine ==
  /\ pc = "poll"
  /\ \E k \in 0..Len(inbox[machine]) :
       /\ k = 0 => inbox[machine] = <<>>
       /\ flowsFinishedInfo' =
            [flowsFinishedInfo EXCEPT ![machine] = @ \o SubSeq(inbox[machine], 1, k)]
       /\ inbox' = [inbox EXCEPT ![machine] = KeepRest(@, k)]
  /\ pc' = "report"
  /\ UNCHANGED <<now, registerIndex, coflowState, loopVars, endVars, sent, reported>>

\* Mutants: one flow too early; before the count is incremented.
AllButOne(c)     == endflowNum[c] + 2 >= FlowsNum(c)
CountBefore(c)   == endflowNum[c] >= FlowsNum(c)

\* flowEnd's result: endflowNum, incremented whatever the flow's state was,
\* has reached the number of flows.
CoflowEnds(c) == endflowNum[c] + 1 >= FlowsNum(c)

\* getOneFlowEndInfo and flowEnd.  The last coflow ends the Scheduler's run.
HandleReport ==
  /\ pc = "report"
  /\ flowsFinishedInfo[machine] # <<>>
  /\ LET f == Head(flowsFinishedInfo[machine])
         c == f[1]
     IN  /\ endflowNum' = [endflowNum EXCEPT ![c] = @ + 1]
         /\ flowEnded' = flowEnded \cup {f}
         /\ IF CoflowEnds(c)
              THEN /\ coflowLog' = Append(coflowLog, c)
                   /\ coflowFinishedNum' = coflowFinishedNum + 1
                   /\ pc' = IF coflowFinishedNum + 1 >= NumCoflows THEN "stopped" ELSE pc
              ELSE UNCHANGED <<coflowLog, coflowFinishedNum, pc>>
  /\ flowsFinishedInfo' = [flowsFinishedInfo EXCEPT ![machine] = Tail(@)]
  /\ UNCHANGED <<now, registerIndex, coflowState, loopVars, sent, envVars>>

\* Mutant: one machine too many.
OneMore == machine < PhyMachineNum

MoreMachines == machine + 1 < PhyMachineNum

NextMachine ==
  /\ pc = "report"
  /\ flowsFinishedInfo[machine] = <<>>
  /\ IF MoreMachines
       THEN machine' = machine + 1 /\ pc' = "poll"
       ELSE machine' = 0 /\ pc' = "register"
  /\ UNCHANGED <<now, registerIndex, coflowState, coflow, flow, endVars,
                 flowsFinishedInfo, sent, envVars>>

-----------------------------------------------------------------------------

SchedulerStep ==
  \/ RegisterCoflows \/ SelectCoflows
  \/ SendFlow \/ NextCoflow \/ StartPolling
  \/ PollMachine \/ HandleReport \/ NextMachine

Next == Tick \/ SchedulerStep \/ \E f \in Flows : ReportArrives(f)

Spec == Init /\ [][Next]_vars

\* The Scheduler's thread runs, and with it the clock, which counts its CPU
\* time.  Nothing makes a client report.
FairSpec == Spec /\ WF_vars(SchedulerStep) /\ WF_vars(Tick)

-----------------------------------------------------------------------------
(* Properties *)

\* A flow is sent at most once, never before its coflow arrived, and only after
\* every flow of the coflows before it in the trace.
SentOnceInOrder ==
  \A f \in Flows : sent[f] > 0 =>
    /\ sent[f] = 1
    /\ StartTime(f[1]) <= now
    /\ \A g \in Flows : g[1] < f[1] => sent[g] > 0

\* The flow by which mapper i of coflow c's line sends reducer j its share of the
\* reducer's data, and the pairs the line describes alike.
Share(c, i, j) ==
  LET reducer == Trace[c].reducers[j] IN
    [mapperID   |-> Trace[c].mapperIDs[i],
     reducerID  |-> reducer.id,
     flowSizeMB |-> reducer.sizeMB \div MapperNum(c)]

Alike(c, i, j) ==
  {p \in (1..MapperNum(c)) \X (1..ReducerNum(c)) :
     /\ Trace[c].mapperIDs[p[1]] = Trace[c].mapperIDs[i]
     /\ Trace[c].reducers[p[2]] = Trace[c].reducers[j]}

\* The flows of coflow c that were sent once, and those of them that are such a share.
SentIDs(c)     == {id \in FlowIDs(c) : sent[<<c, id>>] = 1}
Told(c, share) == {id \in SentIDs(c) : Flow(c, id) = share}

\* When a coflow is RUNNINGED, each of its mappers was told to send its share of
\* the data of each of its reducers, once for every such pair the line names, and
\* nothing else was sent for it: the loops of the producer and of the Scheduler
\* together lose no flow.  A flow counts as told with its call of sendTask, which
\* drops the instruction silently if the send buffer is full.
WholeCoflowSent ==
  \A c \in Coflows : coflowState[c] = "RUNNINGED" =>
    /\ \A i \in 1..MapperNum(c), j \in 1..ReducerNum(c) :
         Cardinality(Told(c, Share(c, i, j))) = Cardinality(Alike(c, i, j))
    /\ Cardinality(SentIDs(c)) = MapperNum(c) * ReducerNum(c)

FlowsOf(c) == {f \in Flows : f[1] = c}

\* The reports of machine m that are still to be handled, in order.
Queue(m) == flowsFinishedInfo[m] \o inbox[m]

\* The reports made of coflow c's flows, and the places of those still queued.
Made(c)    == UNION {{f} \X (1..reported[f]) : f \in FlowsOf(c)}
Pending(c) == UNION {{m} \X {i \in 1..Len(Queue(m)) : Queue(m)[i] \in FlowsOf(c)} : m \in Machines}

\* No report is lost or counted twice inside the master: for each coflow, the
\* reports that arrived are those counted and those still in a machine's queues.
ReportsConserved ==
  \A c \in Coflows : Cardinality(Made(c)) = endflowNum[c] + Cardinality(Pending(c))

\* A coflow written to coflow.log without all of its flows having ended had a
\* flow reported twice.  With one report for each flow the log is right.
EarlyOnlyByRepeat ==
  \A i \in DOMAIN coflowLog :
    FlowsOf(coflowLog[i]) \subseteq flowEnded \/ \E f \in FlowsOf(coflowLog[i]) : reported[f] > 1

\* If every flow is reported, the run of the Scheduler comes to its end.
AllReportedStops ==
  (\A f \in Flows : reported[f] > 0) ~> pc = "stopped"

\* Every flow of the trace is eventually sent, unless the run ended before.
EveryFlowSent == \A f \in Flows : <>(sent[f] > 0 \/ pc = "stopped")

\* What the service promises, by a refinement mapping.
Service == INSTANCE CoflowService WITH
  CoflowOf <- [f \in Flows |-> f[1]],
  ended    <- {f \in Flows : reported[f] > 0},
  finished <- coflowLog,
  over     <- pc = "stopped"

\* Until some flow is reported a second time, every step is one of the service
\* or none of its: nothing but a repeated report makes the Scheduler break it.
ServiceUntilRepeated ==
  /\ Service!Init
  /\ [][\/ \E f \in Flows : reported'[f] > 1
        \/ Service!Next
        \/ UNCHANGED <<sent, reported, coflowLog, pc = "stopped">>]_vars
=============================================================================
