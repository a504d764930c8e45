--------------------------- MODULE SchedulerProofs ---------------------------
(***************************************************************************)
(* Safety of Scheduler for every trace and every number of machines.       *)
(***************************************************************************)
EXTENDS Scheduler, SequenceTheorems, FiniteSetTheorems, TLAPS

-----------------------------------------------------------------------------
(* Lemmas *)

LEMMA Sizes ==
  /\ NumCoflows \in Nat \ {0} /\ Coflows = 1..NumCoflows
  /\ PhyMachineNum \in Nat \ {0}
  /\ \A c \in Coflows : StartTime(c) \in Nat
  BY TraceAssumption DEF NumCoflows, Coflows, StartTime

\* getFlowsNum of a coflow: its flows are numbered from 0 on without a gap.
LEMMA FlowCount ==
  ASSUME NEW c \in Coflows
  PROVE  FlowsNum(c) \in Nat /\ FlowIDs(c) = 0..FlowsNum(c) - 1
<1> DEFINE n == MapperNum(c) * ReducerNum(c)
<1>1. n \in Nat
  <2>1. MapperNum(c) \in Nat /\ ReducerNum(c) \in Nat
    BY TraceAssumption DEF MapperNum, ReducerNum
  <2>2. \A a, b \in Nat : a * b \in Nat
    OBVIOUS
  <2>3. QED
    BY <2>1, <2>2
<1>2. Cardinality(0..n-1) = n
  <2>1. Cardinality(0..n-1) = IF 0 > n - 1 THEN 0 ELSE (n - 1) - 0 + 1
    BY <1>1, FS_Interval, SMTT(30)
  <2> HIDE DEF n
  <2>2. QED
    BY <1>1, <2>1
<1>3. QED
  BY <1>1, <1>2 DEF FlowsNum, FlowIDs

LEMMA OneMoreAt ==
  ASSUME NEW S, NEW F \in [S -> Nat], NEW x
  PROVE  [F EXCEPT ![x] = @ + 1] \in [S -> Nat]
<1>1. CASE x \in S
  <2>1. F[x] + 1 \in Nat
    BY <1>1
  <2>2. QED
    BY <1>1, <2>1
<1>2. CASE x \notin S
  <2>1. [F EXCEPT ![x] = @ + 1] = F
    BY <1>2
  <2>2. QED
    BY <2>1
<1>3. QED
  BY <1>1, <1>2

LEMMA FlowOf ==
  /\ \A f \in Flows : f[1] \in Coflows /\ f[2] \in FlowIDs(f[1]) /\ f = <<f[1], f[2]>>
  /\ \A c \in Coflows : \A id \in FlowIDs(c) : <<c, id>> \in Flows
  BY DEF Flows

LEMMA Remainder == \A a \in Nat, b \in Nat \ {0} : a % b \in 0..b - 1
  OBVIOUS

\* Each flow's reports come from one of the machines that are polled.
LEMMA MapperMachine == \A f \in Flows : LogicMap(Mapper(f)) \in Machines
<1> SUFFICES ASSUME NEW f \in Flows PROVE LogicMap(Mapper(f)) \in Machines
  OBVIOUS
<1> DEFINE c == f[1]
           n == MapperNum(c)
<1>1. c \in Coflows /\ f[2] \in Nat
  BY FlowOf, FlowCount
<1>2. n \in Nat \ {0} /\ Trace[c].mapperIDs \in Seq(Nat) /\ n = Len(Trace[c].mapperIDs)
  BY <1>1, TraceAssumption DEF MapperNum
<1> HIDE DEF n
<1>3. f[2] % n \in 0..n - 1
  BY <1>1, <1>2, Remainder
<1>4. (f[2] % n) + 1 \in 1..n
  BY <1>2, <1>3
<1>5. Trace[c].mapperIDs[(f[2] % n) + 1] \in Nat
  BY <1>2, <1>4
<1>6. Mapper(f) \in Nat
  BY <1>5 DEF Mapper, Flow, n
<1>7. QED
  BY <1>6, Sizes, Remainder DEF LogicMap, Machines

-----------------------------------------------------------------------------
(* Types *)

\* A coflow that ends cannot be one too many, as the last one stops the run.
TypeInv == TypeOK /\ (pc # "stopped" => coflowFinishedNum < NumCoflows)

LEMMA TypeInit == Init => TypeInv
<1> SUFFICES ASSUME Init PROVE TypeInv
  OBVIOUS
<1>1. 0 \in 0..MaxTime /\ 0 \in Machines
  BY Sizes, SchedulerAssumption DEF Machines
<1>2. <<>> \in Seq(Coflows) /\ <<>> \in Seq(Flows)
  OBVIOUS
<1>3. QED
  BY <1>1, <1>2, Sizes DEF Init, TypeInv, TypeOK

LEMMA TypeNext == TypeInv /\ [Next]_vars => TypeInv'
<1> SUFFICES ASSUME TypeInv, [Next]_vars PROVE TypeInv'
  OBVIOUS
<1>0. /\ now \in 0..MaxTime /\ MaxTime \in Nat
      /\ registerIndex \in 0..NumCoflows /\ coflow \in 1..NumCoflows + 1 /\ flow \in Nat
      /\ machine \in Machines /\ Machines = 0..PhyMachineNum - 1
      /\ flowsFinishedInfo \in [Machines -> Seq(Flows)]
      /\ inbox \in [Machines -> Seq(Flows)]
  BY SchedulerAssumption DEF TypeInv, TypeOK, Machines
<1> USE DEF loopVars, endVars, envVars
<1>1. CASE Tick
  <2>1. now' \in 0..MaxTime
    BY <1>0, <1>1 DEF Tick
  <2>2. QED
    BY <1>1, <2>1 DEF Tick, TypeInv, TypeOK
<1>2. ASSUME NEW f \in Flows, ReportArrives(f) PROVE TypeInv'
  <2> DEFINE m == LogicMap(Mapper(f))
  <2>1. m \in Machines
    BY MapperMachine
  <2>2. Append(inbox[m], f) \in Seq(Flows)
    BY <1>0, <2>1
  <2> HIDE DEF m
  <2>3. inbox' \in [Machines -> Seq(Flows)]
    BY <1>0, <1>2, <2>1, <2>2 DEF ReportArrives, m
  <2>4. reported' \in [Flows -> Nat]
    BY <1>2 DEF ReportArrives, TypeInv, TypeOK
  <2>5. QED
    BY <1>2, <2>3, <2>4 DEF ReportArrives, TypeInv, TypeOK
<1>3. CASE RegisterCoflows
  <2>1. registerIndex' \in 0..NumCoflows
    BY <1>0, <1>3, Sizes DEF RegisterCoflows
  <2>2. coflowState' \in [Coflows -> {"UNREGISTER", "REGISTED", "RUNNING", "RUNNINGED"}]
    BY <1>3 DEF RegisterCoflows, TypeInv, TypeOK
  <2>3. QED
    BY <1>3, <2>1, <2>2 DEF RegisterCoflows, TypeInv, TypeOK
<1>4. CASE SelectCoflows
  <2>1. coflowState' \in [Coflows -> {"UNREGISTER", "REGISTED", "RUNNING", "RUNNINGED"}]
    BY <1>4 DEF SelectCoflows, TypeInv, TypeOK
  <2>2. coflow' \in 1..NumCoflows + 1 /\ flow' \in Nat
    BY <1>4, Sizes DEF SelectCoflows
  <2>3. QED
    BY <1>4, <2>1, <2>2 DEF SelectCoflows, TypeInv, TypeOK
<1>5. CASE SendFlow
  <2>1. flow' \in Nat
    BY <1>0, <1>5 DEF SendFlow
  <2>2. sent' \in [Flows -> Nat]
    BY <1>5, OneMoreAt DEF SendFlow, TypeInv, TypeOK
  <2>3. QED
    BY <1>5, <2>1, <2>2 DEF SendFlow, TypeInv, TypeOK
<1>6. CASE NextCoflow
  <2>1. coflow' \in 1..NumCoflows + 1 /\ flow' \in Nat
    BY <1>0, <1>6, Sizes DEF NextCoflow
  <2>2. coflowState' \in [Coflows -> {"UNREGISTER", "REGISTED", "RUNNING", "RUNNINGED"}]
    BY <1>6 DEF NextCoflow, AfterSending, TypeInv, TypeOK
  <2>3. QED
    BY <1>6, <2>1, <2>2 DEF NextCoflow, TypeInv, TypeOK
<1>7. CASE StartPolling
  <2>1. 0 \in Machines
    BY <1>0, Sizes
  <2>2. QED
    BY <1>7, <2>1 DEF StartPolling, TypeInv, TypeOK
<1>8. CASE PollMachine
  <2>1. PICK k \in 0..Len(inbox[machine]) :
          /\ flowsFinishedInfo' =
               [flowsFinishedInfo EXCEPT ![machine] = @ \o SubSeq(inbox[machine], 1, k)]
          /\ inbox' = [inbox EXCEPT ![machine] = KeepRest(@, k)]
    BY <1>8 DEF PollMachine
  <2>2. inbox[machine] \in Seq(Flows) /\ flowsFinishedInfo[machine] \in Seq(Flows)
    BY <1>0
  <2>3. /\ SubSeq(inbox[machine], 1, k) \in Seq(Flows)
        /\ KeepRest(inbox[machine], k) \in Seq(Flows)
    BY <2>2 DEF KeepRest
  <2>4. flowsFinishedInfo[machine] \o SubSeq(inbox[machine], 1, k) \in Seq(Flows)
    BY <2>2, <2>3
  <2>5. /\ flowsFinishedInfo' \in [Machines -> Seq(Flows)]
        /\ inbox' \in [Machines -> Seq(Flows)]
    BY <1>0, <2>1, <2>3, <2>4
  <2>6. QED
    BY <1>8, <2>5 DEF PollMachine, TypeInv, TypeOK
<1>9. CASE HandleReport
  <2> DEFINE f == Head(flowsFinishedInfo[machine])
  <2>1. flowsFinishedInfo[machine] \in Seq(Flows) /\ flowsFinishedInfo[machine] # <<>>
    BY <1>0, <1>9 DEF HandleReport
  <2>2. f \in Flows /\ Tail(flowsFinishedInfo[machine]) \in Seq(Flows)
    BY <2>1
  <2>3. f[1] \in Coflows
    BY <2>2, FlowOf
  <2> HIDE DEF f
  <2>4. /\ flowsFinishedInfo' \in [Machines -> Seq(Flows)]
        /\ endflowNum' \in [Coflows -> Nat] /\ flowEnded' \in SUBSET Flows
    <3>1. /\ flowsFinishedInfo' = [flowsFinishedInfo EXCEPT ![machine] = Tail(@)]
          /\ endflowNum' = [endflowNum EXCEPT ![f[1]] = @ + 1]
          /\ flowEnded' = flowEnded \cup {f}
      BY <1>9 DEF HandleReport, f
    <3>2. endflowNum \in [Coflows -> Nat] /\ flowEnded \in SUBSET Flows
      BY DEF TypeInv, TypeOK
    <3>3. endflowNum' \in [Coflows -> Nat] /\ flowEnded' \in SUBSET Flows
      BY <2>2, <2>3, <3>1, <3>2
    <3>4. flowsFinishedInfo' \in [Machines -> Seq(Flows)]
      BY <1>0, <2>2, <3>1
    <3>5. QED
      BY <3>3, <3>4
  <2>5. /\ coflowLog' \in Seq(Coflows)
        /\ pc' \in {"report", "stopped"}
        /\ coflowFinishedNum' \in 0..NumCoflows
        /\ pc' # "stopped" => coflowFinishedNum' < NumCoflows
    <3>1. pc = "report" /\ coflowFinishedNum \in 0..NumCoflows /\ coflowFinishedNum < NumCoflows
      BY <1>9 DEF HandleReport, TypeInv, TypeOK
    <3>2. coflowLog \in Seq(Coflows)
      BY DEF TypeInv, TypeOK
    <3>3. CASE CoflowEnds(f[1])
      <4>1. /\ coflowLog' = Append(coflowLog, f[1])
            /\ coflowFinishedNum' = coflowFinishedNum + 1
            /\ pc' = IF coflowFinishedNum + 1 >= NumCoflows THEN "stopped" ELSE pc
        BY <1>9, <3>3 DEF HandleReport, f
      <4>2. coflowLog' \in Seq(Coflows)
        BY <2>3, <3>2, <4>1
      <4>3. QED
        BY <3>1, <4>1, <4>2, Sizes
    <3>4. CASE ~CoflowEnds(f[1])
      BY <1>9, <3>1, <3>2, <3>4 DEF HandleReport, f
    <3>5. QED
      BY <3>3, <3>4
  <2>6. QED
    BY <1>9, <2>4, <2>5 DEF HandleReport, TypeInv, TypeOK
<1>10. CASE NextMachine
  <2>1. machine' \in Machines
    <3>1. machine' = 0 \/ (machine + 1 < PhyMachineNum /\ machine' = machine + 1)
      BY <1>10 DEF NextMachine, MoreMachines
    <3>2. QED
      BY <1>0, <3>1, Sizes
  <2>2. pc' \in {"poll", "register"} /\ pc = "report"
    BY <1>10 DEF NextMachine
  <2>3. QED
    BY <1>10, <2>1, <2>2 DEF NextMachine, TypeInv, TypeOK
<1>11. CASE UNCHANGED vars
  BY <1>11 DEF vars, TypeInv, TypeOK
<1>12. QED
  BY <1>1, <1>2, <1>3, <1>4, <1>5, <1>6, <1>7, <1>8, <1>9, <1>10, <1>11
  DEF Next, SchedulerStep

\* The types hold for every trace: the loops stay within coflows, flows and
\* machines, and no more coflows are counted as finished than there are.
THEOREM TypeCorrect == Spec => []TypeOK
<1>1. TypeInv => TypeOK
  BY DEF TypeInv
<1>2. QED
  BY <1>1, TypeInit, TypeNext, PTL DEF Spec

-----------------------------------------------------------------------------
(* Flows are sent once and in order *)

\* What the state of a coflow says about its place in the trace and in the loops.
StateInv ==
  /\ \A c \in Coflows : /\ coflowState[c] = "UNREGISTER" <=> c > registerIndex
                        /\ c <= registerIndex => StartTime(c) <= now
  /\ \A c, d \in Coflows : c < d /\ coflowState[d] = "RUNNINGED" => coflowState[c] = "RUNNINGED"
  /\ pc \notin {"select", "dispatch"} =>
       \A c \in Coflows : c <= registerIndex => coflowState[c] = "RUNNINGED"
  /\ pc = "select" => \A c \in Coflows : coflowState[c] # "RUNNING"
  /\ pc = "dispatch" =>
       /\ coflow <= registerIndex + 1
       /\ \A c \in Coflows : /\ coflowState[c] # "REGISTED"
                             /\ c < coflow => coflowState[c] = "RUNNINGED"

Sending(c) == pc = "dispatch" /\ coflow = c /\ coflowState[c] = "RUNNING"

\* Sent are all flows of a coflow that is RUNNINGED, and of the one whose flows
\* are being sent those in front of the loop.
SentInv ==
  \A c \in Coflows : \A id \in FlowIDs(c) :
    sent[<<c, id>>] = IF coflowState[c] = "RUNNINGED" \/ (Sending(c) /\ id < flow)
                        THEN 1 ELSE 0

OrderInv == TypeInv /\ StateInv /\ SentInv

LEMMA OrderInit == Init => OrderInv
<1> SUFFICES ASSUME Init PROVE OrderInv
  OBVIOUS
<1>1. StateInv
  BY Sizes DEF Init, StateInv
<1>2. SentInv
  BY FlowOf DEF Init, SentInv, Sending
<1>3. QED
  BY <1>1, <1>2, TypeInit DEF OrderInv

LEMMA StateNext == TypeInv /\ StateInv /\ [Next]_vars => StateInv'
<1> SUFFICES ASSUME TypeInv, StateInv, [Next]_vars PROVE StateInv'
  OBVIOUS
<1>0. /\ now \in 0..MaxTime /\ MaxTime \in Nat
      /\ registerIndex \in 0..NumCoflows /\ coflow \in 1..NumCoflows + 1
      /\ coflowState \in [Coflows -> {"UNREGISTER", "REGISTED", "RUNNING", "RUNNINGED"}]
  BY SchedulerAssumption DEF TypeInv, TypeOK
<1> USE Sizes DEF loopVars, endVars, envVars
<1>1. CASE Tick
  BY <1>0, <1>1 DEF Tick, StateInv
<1>2. ASSUME NEW f \in Flows, ReportArrives(f) PROVE StateInv'
  BY <1>2 DEF ReportArrives, StateInv
<1>3. CASE RegisterCoflows
  <2>1. PICK r \in registerIndex..NumCoflows :
          /\ \A c \in registerIndex+1..r : Arrived(c)
          /\ registerIndex' = r
          /\ coflowState' = [c \in Coflows |-> IF c \in registerIndex+1..r
                                                 THEN "REGISTED" ELSE coflowState[c]]
    BY <1>3 DEF RegisterCoflows
  <2>2. pc = "register" /\ pc' = "select" /\ now' = now
    BY <1>3 DEF RegisterCoflows
  <2>3. \A c \in Coflows : /\ coflowState'[c] = "UNREGISTER" <=> c > registerIndex'
                           /\ c <= registerIndex' => StartTime(c) <= now'
    BY <1>0, <2>1, <2>2 DEF StateInv, Arrived
  <2>4. \A c \in Coflows : /\ coflowState'[c] = "RUNNINGED" <=> c <= registerIndex
                           /\ coflowState'[c] # "RUNNING"
    BY <1>0, <2>1, <2>2 DEF StateInv
  <2>5. QED
    BY <1>0, <2>2, <2>3, <2>4 DEF StateInv
<1>4. CASE SelectCoflows
  <2>1. /\ pc = "select" /\ pc' = "dispatch" /\ coflow' = 1
        /\ UNCHANGED <<now, registerIndex>>
        /\ coflowState' = [c \in Coflows |-> IF Selected(c) THEN "RUNNING" ELSE coflowState[c]]
    BY <1>4 DEF SelectCoflows
  <2>2. \A c \in Coflows : Selected(c) <=> coflowState[c] = "REGISTED"
    BY <1>0 DEF Selected, StateInv
  <2>3. \A c \in Coflows : /\ coflowState'[c] = "UNREGISTER" <=> coflowState[c] = "UNREGISTER"
                           /\ coflowState'[c] = "RUNNINGED" <=> coflowState[c] = "RUNNINGED"
                           /\ coflowState'[c] # "REGISTED"
    BY <2>1, <2>2
  <2>4. QED
    BY <1>0, <2>1, <2>3 DEF StateInv
<1>5. CASE SendFlow
  BY <1>5 DEF SendFlow, StateInv
<1>6. CASE NextCoflow
  <2>1. /\ pc = "dispatch" /\ pc' = pc /\ coflow <= registerIndex /\ coflow' = coflow + 1
        /\ UNCHANGED <<now, registerIndex>>
    BY <1>6 DEF NextCoflow
  <2>2. coflow \in Coflows /\ coflowState[coflow] \in {"RUNNING", "RUNNINGED"}
    BY <1>0, <2>1 DEF StateInv
  <2>3. coflowState' = [coflowState EXCEPT ![coflow] = "RUNNINGED"]
    BY <1>0, <1>6, <2>2 DEF NextCoflow, AfterSending
  <2>4. QED
    BY <1>0, <2>1, <2>2, <2>3 DEF StateInv
<1>7. CASE StartPolling
  <2>1. /\ pc = "dispatch" /\ pc' = "poll" /\ coflow > registerIndex
        /\ UNCHANGED <<now, registerIndex, coflow, coflowState>>
    BY <1>7 DEF StartPolling
  <2>2. QED
    BY <1>0, <2>1 DEF StateInv
<1>8. CASE PollMachine
  BY <1>8 DEF PollMachine, StateInv
<1>9. CASE HandleReport
  <2>1. /\ pc = "report" /\ pc' \in {"report", "stopped"}
        /\ UNCHANGED <<now, registerIndex, coflow, coflowState>>
    BY <1>9 DEF HandleReport
  <2>2. QED
    BY <2>1 DEF StateInv
<1>10. CASE NextMachine
  <2>1. /\ pc = "report" /\ pc' \in {"poll", "register"}
        /\ UNCHANGED <<now, registerIndex, coflow, coflowState>>
    BY <1>10 DEF NextMachine
  <2>2. QED
    BY <2>1 DEF StateInv
<1>11. CASE UNCHANGED vars
  BY <1>11 DEF vars, StateInv
<1>12. QED
  BY <1>1, <1>2, <1>3, <1>4, <1>5, <1>6, <1>7, <1>8, <1>9, <1>10, <1>11
  DEF Next, SchedulerStep

LEMMA SentNext == OrderInv /\ [Next]_vars => SentInv'
<1> SUFFICES ASSUME TypeInv, StateInv, SentInv, [Next]_vars PROVE SentInv'
  BY DEF OrderInv
<1>0. /\ registerIndex \in 0..NumCoflows /\ coflow \in 1..NumCoflows + 1 /\ flow \in Nat
      /\ coflowState \in [Coflows -> {"UNREGISTER", "REGISTED", "RUNNING", "RUNNINGED"}]
      /\ sent \in [Flows -> Nat]
  BY DEF TypeInv, TypeOK
<1>a. \A c \in Coflows : \A id \in FlowIDs(c) : id \in 0..FlowsNum(c) - 1 /\ FlowsNum(c) \in Nat
  BY FlowCount
<1> USE Sizes DEF loopVars, endVars, envVars
<1>1. CASE Tick \/ (\E f \in Flows : ReportArrives(f)) \/ UNCHANGED vars
  BY <1>1, ZenonT(30) DEF Tick, ReportArrives, vars, SentInv, Sending
<1>2. CASE RegisterCoflows
  <2>1. /\ pc = "register" /\ pc' = "select" /\ UNCHANGED sent
        /\ \A c \in Coflows : coflowState'[c] = "RUNNINGED" <=> coflowState[c] = "RUNNINGED"
    BY <1>0, <1>2 DEF RegisterCoflows, StateInv
  <2>2. QED
    BY <2>1 DEF SentInv, Sending
<1>3. CASE SelectCoflows
  <2>1. /\ pc = "select" /\ flow' = 0 /\ UNCHANGED sent
        /\ \A c \in Coflows : coflowState'[c] = "RUNNINGED" <=> coflowState[c] = "RUNNINGED"
    BY <1>0, <1>3 DEF SelectCoflows, Selected
  <2>2. \A c \in Coflows : ~Sending(c)
    BY <2>1 DEF Sending
  <2>3. \A c \in Coflows : \A id \in FlowIDs(c) : ~(id < flow')
    BY <1>a, <2>1
  <2>4. SUFFICES ASSUME NEW c \in Coflows, NEW id \in FlowIDs(c)
                 PROVE  sent'[<<c, id>>] =
                          IF coflowState'[c] = "RUNNINGED" \/ (Sending(c)' /\ id < flow')
                            THEN 1 ELSE 0
    BY DEF SentInv
  <2>5. ~(id < flow') /\ ~Sending(c)
    BY <2>2, <2>3
  <2>6. sent[<<c, id>>] = IF coflowState[c] = "RUNNINGED" THEN 1 ELSE 0
    BY <2>5 DEF SentInv
  <2>7. QED
    BY <2>1, <2>5, <2>6
<1>4. CASE SendFlow
  <2>1. /\ Sending(coflow) /\ flow < FlowsNum(coflow) /\ coflow <= registerIndex
        /\ sent' = [sent EXCEPT ![<<coflow, flow>>] = @ + 1]
        /\ flow' = flow + 1 /\ UNCHANGED <<pc, coflow, coflowState>>
    BY <1>4 DEF SendFlow, Sending
  <2>2. coflow \in Coflows /\ flow \in FlowIDs(coflow) /\ <<coflow, flow>> \in Flows
    BY <1>0, <2>1, FlowCount, FlowOf
  <2>3. SUFFICES ASSUME NEW c \in Coflows, NEW id \in FlowIDs(c)
                 PROVE  sent'[<<c, id>>] =
                          IF coflowState[c] = "RUNNINGED" \/ (Sending(c) /\ id < flow + 1)
                            THEN 1 ELSE 0
    <3>1. \A c \in Coflows : Sending(c)' <=> Sending(c)
      BY <2>1 DEF Sending
    <3>2. SUFFICES ASSUME NEW c \in Coflows, NEW id \in FlowIDs(c)
                   PROVE  sent'[<<c, id>>] =
                            IF coflowState'[c] = "RUNNINGED" \/ (Sending(c)' /\ id < flow')
                              THEN 1 ELSE 0
      BY DEF SentInv
    <3>3. coflowState' = coflowState /\ flow' = flow + 1
      BY <2>1
    <3>4. QED
      BY <3>1, <3>3
  <2>4. <<c, id>> \in Flows /\ id \in Nat
    BY <1>a, FlowOf
  <2>5. sent[<<c, id>>] = IF coflowState[c] = "RUNNINGED" \/ (Sending(c) /\ id < flow)
                            THEN 1 ELSE 0
    BY DEF SentInv
  <2>6. CASE c = coflow /\ id = flow
    BY <1>0, <2>1, <2>4, <2>5, <2>6 DEF Sending
  <2>7. CASE ~(c = coflow /\ id = flow)
    <3>1. sent'[<<c, id>>] = sent[<<c, id>>]
      BY <1>0, <2>1, <2>4, <2>7
    <3>2. Sending(c) => c = coflow
      BY DEF Sending
    <3>3. QED
      BY <1>0, <2>4, <2>5, <2>7, <3>1, <3>2
  <2>8. QED
    BY <2>6, <2>7
<1>5. CASE NextCoflow
  <2>1. /\ pc = "dispatch" /\ pc' = pc /\ coflow <= registerIndex
        /\ coflow' = coflow + 1 /\ flow' = 0 /\ UNCHANGED sent
        /\ coflowState[coflow] = "RUNNING" => flow = FlowsNum(coflow)
    BY <1>5 DEF NextCoflow
  <2>2. coflow \in Coflows /\ coflowState[coflow] \in {"RUNNING", "RUNNINGED"}
    BY <1>0, <2>1 DEF StateInv
  <2>3. coflowState' = [coflowState EXCEPT ![coflow] = "RUNNINGED"]
    BY <1>0, <1>5, <2>2 DEF NextCoflow, AfterSending
  <2>4. SUFFICES ASSUME NEW c \in Coflows, NEW id \in FlowIDs(c)
                 PROVE  sent[<<c, id>>] = IF coflowState'[c] = "RUNNINGED" THEN 1 ELSE 0
    <3>1. SUFFICES ASSUME NEW c \in Coflows, NEW id \in FlowIDs(c)
                   PROVE  sent'[<<c, id>>] =
                            IF coflowState'[c] = "RUNNINGED" \/ (Sending(c)' /\ id < flow')
                              THEN 1 ELSE 0
      BY DEF SentInv
    <3>2. ~(id < flow')
      BY <1>a, <2>1
    <3>3. QED
      BY <2>1, <3>2
  <2>5. id \in 0..FlowsNum(c) - 1 /\ FlowsNum(c) \in Nat
    BY <1>a
  <2>6. sent[<<c, id>>] = IF coflowState[c] = "RUNNINGED" \/ (Sending(c) /\ id < flow)
                            THEN 1 ELSE 0
    BY DEF SentInv
  <2>7. QED
    BY <1>0, <2>1, <2>2, <2>3, <2>5, <2>6 DEF Sending
<1>6. CASE StartPolling
  <2>1. /\ pc = "dispatch" /\ pc' = "poll" /\ coflow > registerIndex
        /\ UNCHANGED <<sent, coflowState>>
    BY <1>6 DEF StartPolling
  <2>2. \A c \in Coflows : ~Sending(c) /\ ~Sending(c)'
    BY <1>0, <2>1 DEF Sending, StateInv
  <2>3. QED
    BY <2>1, <2>2 DEF SentInv
<1>7. CASE PollMachine
  BY <1>7 DEF PollMachine, SentInv, Sending
<1>8. CASE HandleReport
  <2>1. /\ pc = "report" /\ pc' \in {"report", "stopped"}
        /\ UNCHANGED <<sent, coflowState>>
    BY <1>8 DEF HandleReport
  <2>2. QED
    BY <2>1 DEF SentInv, Sending
<1>9. CASE NextMachine
  <2>1. /\ pc = "report" /\ pc' \in {"poll", "register"}
        /\ UNCHANGED <<sent, coflowState>>
    BY <1>9 DEF NextMachine
  <2>2. QED
    BY <2>1 DEF SentInv, Sending
<1>10. QED
  BY <1>1, <1>2, <1>3, <1>4, <1>5, <1>6, <1>7, <1>8, <1>9 DEF Next, SchedulerStep

LEMMA OrderCorrect == Spec => []OrderInv
<1>1. OrderInv /\ [Next]_vars => OrderInv'
  BY TypeNext, StateNext, SentNext DEF OrderInv
<1>2. QED
  BY <1>1, OrderInit, PTL DEF Spec

\* For every trace, a flow is sent at most once, never before its coflow
\* arrived, and only after every flow of the coflows before it.
THEOREM SentOnceInOrderCorrect == Spec => []SentOnceInOrder
<1>1. OrderInv => SentOnceInOrder
  <2> SUFFICES ASSUME OrderInv, NEW f \in Flows, sent[f] > 0
               PROVE  /\ sent[f] = 1
                      /\ StartTime(f[1]) <= now
                      /\ \A g \in Flows : g[1] < f[1] => sent[g] > 0
    BY DEF SentOnceInOrder
  <2>0. /\ registerIndex \in 0..NumCoflows /\ coflow \in 1..NumCoflows + 1
        /\ StateInv /\ SentInv
    BY DEF OrderInv, TypeInv, TypeOK
  <2>1. f[1] \in Coflows /\ f[2] \in FlowIDs(f[1]) /\ sent[f] = sent[<<f[1], f[2]>>]
    BY FlowOf
  <2>2. sent[f] = 1 /\ (coflowState[f[1]] = "RUNNINGED" \/ Sending(f[1]))
    BY <2>0, <2>1 DEF SentInv
  <2>3. StartTime(f[1]) <= now
    BY <2>0, <2>1, <2>2, Sizes DEF StateInv, Sending
  <2>4. ASSUME NEW g \in Flows, g[1] < f[1] PROVE sent[g] > 0
    <3>1. g[1] \in Coflows /\ g[2] \in FlowIDs(g[1]) /\ sent[g] = sent[<<g[1], g[2]>>]
      BY FlowOf
    <3>2. coflowState[g[1]] = "RUNNINGED"
      BY <2>0, <2>1, <2>2, <2>4, <3>1 DEF StateInv, Sending
    <3>3. QED
      BY <2>0, <3>1, <3>2 DEF SentInv
  <2>5. QED
    BY <2>2, <2>3, <2>4
<1>2. QED
  BY <1>1, OrderCorrect, PTL

-----------------------------------------------------------------------------
(* Whole coflows *)

\* Quotient and remainder, as the two loops of the producer count them.
LEMMA Division ==
  ASSUME NEW a \in Nat, NEW n \in Nat \ {0}
  PROVE  /\ a \div n \in Nat /\ a % n \in 0..n - 1
         /\ a = n * (a \div n) + (a % n)
  OBVIOUS

LEMMA Smaller ==
  ASSUME NEW n \in Nat \ {0}, NEW x \in Nat, NEW y \in Nat, x < y
  PROVE  n * x + n <= n * y
<1>1. n * (x + 1) = n * x + n
  OBVIOUS
<1>2. \A u, v, w \in Nat : u <= v => w * u <= w * v
  OBVIOUS
<1>3. n * (x + 1) <= n * y
  BY <1>2
<1>4. QED
  BY <1>1, <1>3

LEMMA DivisionIs ==
  ASSUME NEW n \in Nat \ {0}, NEW q \in Nat, NEW r \in 0..n - 1
  PROVE  /\ n * q + r \in Nat
         /\ (n * q + r) \div n = q /\ (n * q + r) % n = r
<1> DEFINE a == n * q + r
           d == a \div n
           e == a % n
<1>1. a \in Nat /\ n * q \in Nat
  OBVIOUS
<1>2. d \in Nat /\ e \in 0..n - 1 /\ a = n * d + e /\ n * d \in Nat
  <2> HIDE DEF a
  <2>1. d \in Nat /\ e \in 0..n - 1 /\ a = n * d + e
    BY <1>1, Division
  <2> HIDE DEF d
  <2>2. QED
    BY <2>1
<1>3. a = n * q + r
  OBVIOUS
<1> HIDE DEF a, d, e
<1>4. ~(d < q)
  BY <1>1, <1>2, <1>3, Smaller
<1>5. ~(q < d)
  BY <1>1, <1>2, <1>3, Smaller
<1>6. d = q
  BY <1>2, <1>4, <1>5
<1>7. QED
  BY <1>1, <1>2, <1>3, <1>6 DEF a, d, e

\* The pair of a mapper and a reducer that a flow id stands for.
MapperOf(c, id)  == (id % MapperNum(c)) + 1
ReducerOf(c, id) == (id \div MapperNum(c)) + 1

LEMMA TraceLine ==
  ASSUME NEW c \in Coflows
  PROVE  /\ MapperNum(c) \in Nat \ {0} /\ ReducerNum(c) \in Nat \ {0}
         /\ \A i \in 1..MapperNum(c) : Trace[c].mapperIDs[i] \in Nat
         /\ \A j \in 1..ReducerNum(c) :
              /\ Trace[c].reducers[j] \in [id : Nat, sizeMB : Nat]
              /\ Trace[c].reducers[j].sizeMB % MapperNum(c) = 0
<1>1. /\ Trace[c].mapperIDs \in Seq(Nat) /\ MapperNum(c) > 0
      /\ Trace[c].reducers \in Seq([id : Nat, sizeMB : Nat]) /\ ReducerNum(c) > 0
      /\ \A j \in 1..ReducerNum(c) : Trace[c].reducers[j].sizeMB % MapperNum(c) = 0
  BY TraceAssumption
<1>2. ASSUME NEW T, NEW s \in Seq(T) PROVE Len(s) \in Nat /\ \A i \in 1..Len(s) : s[i] \in T
  OBVIOUS
<1>3. MapperNum(c) \in Nat /\ \A i \in 1..MapperNum(c) : Trace[c].mapperIDs[i] \in Nat
  BY <1>1, <1>2 DEF MapperNum
<1>4. /\ ReducerNum(c) \in Nat
      /\ \A j \in 1..ReducerNum(c) : Trace[c].reducers[j] \in [id : Nat, sizeMB : Nat]
  BY <1>1, <1>2 DEF ReducerNum
<1>5. QED
  BY <1>1, <1>3, <1>4

\* Each id stands for one pair and each pair has one id.
LEMMA IdsArePairs ==
  ASSUME NEW c \in Coflows
  PROVE  /\ \A id \in FlowIDs(c) : /\ MapperOf(c, id) \in 1..MapperNum(c)
                                   /\ ReducerOf(c, id) \in 1..ReducerNum(c)
         /\ \A x, y \in FlowIDs(c) :
              MapperOf(c, x) = MapperOf(c, y) /\ ReducerOf(c, x) = ReducerOf(c, y) => x = y
         /\ \A i \in 1..MapperNum(c), j \in 1..ReducerNum(c) :
              \E id \in FlowIDs(c) : MapperOf(c, id) = i /\ ReducerOf(c, id) = j
<1> DEFINE n == MapperNum(c)
           k == ReducerNum(c)
<1>1. n \in Nat \ {0} /\ k \in Nat \ {0}
  BY TraceLine
<1>2. n * k \in Nat /\ FlowIDs(c) = 0..n * k - 1
  <2> HIDE DEF n, k
  <2>1. n * k \in Nat
    BY <1>1
  <2>2. QED
    BY <2>1 DEF FlowIDs, n, k
<1> HIDE DEF n, k
<1>3. ASSUME NEW id \in FlowIDs(c)
      PROVE  /\ id \in Nat /\ id % n \in 0..n - 1 /\ id \div n \in 0..k - 1
             /\ id = n * (id \div n) + (id % n)
  <2> DEFINE d == id \div n
             e == id % n
  <2>1. id \in Nat /\ id < n * k
    BY <1>1, <1>2
  <2>2. d \in Nat /\ e \in 0..n - 1 /\ id = n * d + e
    BY <1>1, <2>1, Division
  <2> HIDE DEF d, e
  <2>3. d < k
    <3> SUFFICES ASSUME ~(d < k) PROVE FALSE
      OBVIOUS
    <3>1. n * k \in Nat /\ n * d \in Nat /\ (k = d \/ k < d)
      BY <1>1, <1>2, <2>2
    <3>2. n * k <= n * d
      BY <1>1, <2>2, <3>1, Smaller
    <3>3. QED
      BY <1>1, <2>1, <2>2, <3>1, <3>2
  <2>4. d \in 0..k - 1
    BY <1>1, <2>2, <2>3
  <2>5. QED
    BY <2>1, <2>2, <2>4 DEF d, e
<1>4. \A id \in FlowIDs(c) : MapperOf(c, id) \in 1..n /\ ReducerOf(c, id) \in 1..k
  <2> SUFFICES ASSUME NEW id \in FlowIDs(c)
               PROVE  MapperOf(c, id) \in 1..n /\ ReducerOf(c, id) \in 1..k
    OBVIOUS
  <2> DEFINE d == id \div n
             e == id % n
  <2>1. d \in 0..k - 1 /\ e \in 0..n - 1
    BY <1>3
  <2>2. MapperOf(c, id) = e + 1 /\ ReducerOf(c, id) = d + 1
    BY DEF MapperOf, ReducerOf, n
  <2> HIDE DEF d, e
  <2>3. QED
    BY <1>1, <2>1, <2>2
<1>5. ASSUME NEW x \in FlowIDs(c), NEW y \in FlowIDs(c),
             MapperOf(c, x) = MapperOf(c, y), ReducerOf(c, x) = ReducerOf(c, y)
      PROVE  x = y
  <2> DEFINE d == x \div n
             e == x % n
             g == y \div n
             h == y % n
  <2>1. /\ d \in 0..k - 1 /\ e \in 0..n - 1 /\ x = n * d + e
        /\ g \in 0..k - 1 /\ h \in 0..n - 1 /\ y = n * g + h
    BY <1>3
  <2>2. e + 1 = h + 1 /\ d + 1 = g + 1
    BY <1>5 DEF MapperOf, ReducerOf, n
  <2> HIDE DEF d, e, g, h
  <2>3. e = h /\ d = g
    BY <1>1, <2>1, <2>2
  <2>4. QED
    BY <2>1, <2>3
<1>6. ASSUME NEW i \in 1..n, NEW j \in 1..k
      PROVE  \E id \in FlowIDs(c) : MapperOf(c, id) = i /\ ReducerOf(c, id) = j
  <2> DEFINE q == j - 1
             r == i - 1
             id == n * q + r
  <2>1. q \in Nat /\ q < k /\ r \in 0..n - 1 /\ q + 1 = j /\ r + 1 = i
    BY <1>1
  <2> HIDE DEF q, r
  <2>2. id \in Nat /\ id \div n = q /\ id % n = r
    BY <1>1, <2>1, DivisionIs
  <2>3. n * q + n <= n * k /\ n * q \in Nat
    BY <1>1, <2>1, Smaller
  <2>4. id < n * k
    BY <1>1, <1>2, <2>1, <2>3
  <2> HIDE DEF id
  <2>5. id \in FlowIDs(c)
    BY <1>2, <2>2, <2>4
  <2>6. MapperOf(c, id) = i /\ ReducerOf(c, id) = j
    BY <2>1, <2>2 DEF MapperOf, ReducerOf, n
  <2>7. QED
    BY <2>5, <2>6
<1>7. QED
  BY <1>4, <1>5, <1>6 DEF n, k

\* A flow is a share exactly if its pair is described like that of the share.
LEMMA FlowIsShare ==
  ASSUME NEW c \in Coflows, NEW id \in FlowIDs(c),
         NEW i \in 1..MapperNum(c), NEW j \in 1..ReducerNum(c)
  PROVE  Flow(c, id) = Share(c, i, j) <=>
           <<MapperOf(c, id), ReducerOf(c, id)>> \in Alike(c, i, j)
<1> DEFINE n == MapperNum(c)
           a == MapperOf(c, id)
           b == ReducerOf(c, id)
           A == Trace[c].reducers[b]
           B == Trace[c].reducers[j]
           x == Trace[c].mapperIDs[a]
           y == Trace[c].mapperIDs[i]
<1>1. a \in 1..MapperNum(c) /\ b \in 1..ReducerNum(c)
  BY IdsArePairs
<1>2. /\ n \in Nat \ {0}
      /\ A \in [id : Nat, sizeMB : Nat] /\ B \in [id : Nat, sizeMB : Nat]
      /\ A.sizeMB % n = 0 /\ B.sizeMB % n = 0
  <2> HIDE DEF a, b
  <2>1. QED
    BY <1>1, TraceLine
<1>3. /\ Flow(c, id) = [mapperID |-> x, reducerID |-> A.id, flowSizeMB |-> A.sizeMB \div n]
      /\ Share(c, i, j) = [mapperID |-> y, reducerID |-> B.id, flowSizeMB |-> B.sizeMB \div n]
  BY DEF Flow, Share, MapperOf, ReducerOf
<1>4. <<a, b>> \in Alike(c, i, j) <=> x = y /\ A = B
  <2> HIDE DEF a, b
  <2>1. QED
    BY <1>1 DEF Alike
<1> HIDE DEF a, b, A, B, x, y, n
<1>5. A.sizeMB \div n = B.sizeMB \div n <=> A.sizeMB = B.sizeMB
  <2> DEFINE u == A.sizeMB
             v == B.sizeMB
  <2>1. u \in Nat /\ v \in Nat /\ u % n = 0 /\ v % n = 0
    BY <1>2
  <2> HIDE DEF u, v
  <2>2. u = n * (u \div n) + (u % n) /\ v = n * (v \div n) + (v % n)
        /\ u \div n \in Nat /\ v \div n \in Nat
    BY <1>2, <2>1, Division
  <2>3. \A p \in Nat : n * p + 0 = n * p
    BY <1>2
  <2>4. u = n * (u \div n) /\ v = n * (v \div n)
    BY <2>1, <2>2, <2>3
  <2>5. u \div n = v \div n => u = v
    BY <2>4
  <2>6. QED
    BY <2>5 DEF u, v
<1>6. A = B <=> A.id = B.id /\ A.sizeMB = B.sizeMB
  BY <1>2
<1>7. QED
  BY <1>3, <1>4, <1>5, <1>6 DEF a, b

\* Every flow of a RUNNINGED coflow was sent once; the id of each flow that is
\* like a share is paired with one pair the line describes alike.
THEOREM WholeCoflowSentCorrect == Spec => []WholeCoflowSent
<1>1. OrderInv => WholeCoflowSent
  <2> SUFFICES ASSUME OrderInv, NEW c \in Coflows, coflowState[c] = "RUNNINGED"
               PROVE  /\ \A i \in 1..MapperNum(c), j \in 1..ReducerNum(c) :
                           Cardinality(Told(c, Share(c, i, j))) = Cardinality(Alike(c, i, j))
                      /\ Cardinality(SentIDs(c)) = MapperNum(c) * ReducerNum(c)
    BY DEF WholeCoflowSent
  <2>1. SentIDs(c) = FlowIDs(c)
    BY DEF OrderInv, SentInv, SentIDs
  <2>2. Cardinality(FlowIDs(c)) = MapperNum(c) * ReducerNum(c)
    <3> DEFINE m == MapperNum(c) * ReducerNum(c)
    <3>1. MapperNum(c) \in Nat \ {0} /\ ReducerNum(c) \in Nat \ {0}
      BY TraceLine
    <3>2. \A a, b \in Nat : a * b \in Nat
      OBVIOUS
    <3>3. m \in Nat
      BY <3>1, <3>2
    <3>4. FlowIDs(c) = 0..m - 1
      BY DEF FlowIDs
    <3> HIDE DEF m
    <3>5. Cardinality(0..m - 1) = IF 0 > m - 1 THEN 0 ELSE (m - 1) - 0 + 1
      BY <3>3, FS_Interval, SMTT(30)
    <3>6. Cardinality(0..m - 1) = m
      BY <3>3, <3>5
    <3>7. QED
      BY <3>4, <3>6 DEF m
  <2>3. ASSUME NEW i \in 1..MapperNum(c), NEW j \in 1..ReducerNum(c)
        PROVE  Cardinality(Told(c, Share(c, i, j))) = Cardinality(Alike(c, i, j))
    <3> DEFINE T == Told(c, Share(c, i, j))
               U == Alike(c, i, j)
               b == [id \in T |-> <<MapperOf(c, id), ReducerOf(c, id)>>]
    <3>1. T \subseteq FlowIDs(c) /\ IsFiniteSet(T)
      <4>1. T \subseteq FlowIDs(c)
        BY <2>1 DEF Told
      <4>2. IsFiniteSet(FlowIDs(c))
        <5>1. FlowsNum(c) \in Nat /\ FlowIDs(c) = 0..FlowsNum(c) - 1
          BY FlowCount
        <5>2. QED
          BY <5>1, FS_Interval
      <4>3. QED
        BY <4>1, <4>2, FS_Subset
    <3>2. \A id \in FlowIDs(c) :
            id \in T <=> <<MapperOf(c, id), ReducerOf(c, id)>> \in U
      BY <2>1, <2>3, FlowIsShare DEF Told
    <3>3. \A p \in U : /\ p = <<p[1], p[2]>>
                       /\ p[1] \in 1..MapperNum(c) /\ p[2] \in 1..ReducerNum(c)
      BY DEF Alike
    <3> HIDE DEF T, U
    <3>4. b \in [T -> U]
      BY <3>1, <3>2
    <3>5. \A x, y \in T : b[x] = b[y] => x = y
      BY <3>1, IdsArePairs
    <3>6. \A p \in U : \E id \in T : b[id] = p
      <4> SUFFICES ASSUME NEW p \in U PROVE \E id \in T : b[id] = p
        OBVIOUS
      <4>1. PICK id \in FlowIDs(c) : MapperOf(c, id) = p[1] /\ ReducerOf(c, id) = p[2]
        BY <3>3, IdsArePairs
      <4>2. id \in T
        BY <3>2, <3>3, <4>1
      <4>3. QED
        BY <3>3, <4>1, <4>2
    <3> HIDE DEF b
    <3>7. ExistsBijection(T, U)
      BY <3>4, <3>5, <3>6 DEF ExistsBijection, Bijection, Injection, Surjection, IsInjective
    <3>8. QED
      BY <3>1, <3>7, FS_Bijection DEF T, U
  <2>4. QED
    BY <2>1, <2>2, <2>3
<1>2. QED
  BY <1>1, OrderCorrect, PTL

-----------------------------------------------------------------------------
(* Reports and the end of coflows *)

LEMMA QueueNext ==
  \A m : Queue(m)' = flowsFinishedInfo'[m] \o inbox'[m]
  BY DEF Queue

\* A report that arrives is the last in its machine's queue.
LEMMA QueueGrows ==
  ASSUME TypeInv, NEW f \in Flows, ReportArrives(f), NEW m \in Machines
  PROVE  Queue(m)' = IF m = LogicMap(Mapper(f)) THEN Append(Queue(m), f) ELSE Queue(m)
<1>1. flowsFinishedInfo[m] \in Seq(Flows) /\ inbox[m] \in Seq(Flows)
  BY DEF TypeInv, TypeOK
<1>2. /\ flowsFinishedInfo' = flowsFinishedInfo
      /\ inbox' = [inbox EXCEPT ![LogicMap(Mapper(f))] = Append(@, f)]
  BY DEF ReportArrives
<1>3. CASE m = LogicMap(Mapper(f))
  <2>1. inbox'[m] = Append(inbox[m], f)
    BY <1>2, <1>3 DEF TypeInv, TypeOK
  <2>2. flowsFinishedInfo[m] \o Append(inbox[m], f) = Append(flowsFinishedInfo[m] \o inbox[m], f)
    <3>1. ASSUME NEW s \in Seq(Flows), NEW t \in Seq(Flows)
          PROVE  s \o Append(t, f) = Append(s \o t, f)
      <4>1. s \o t \in Seq(Flows) /\ <<f>> \in Seq(Flows)
        OBVIOUS
      <4>2. QED
        BY <4>1, AppendIsConcat, ConcatAssociative
    <3>2. QED
      BY <1>1, <3>1
  <2>3. Queue(m)' = flowsFinishedInfo[m] \o Append(inbox[m], f)
    BY <1>2, <2>1, QueueNext
  <2>4. QED
    BY <1>3, <2>2, <2>3 DEF Queue
<1>4. CASE m # LogicMap(Mapper(f))
  <2>1. inbox'[m] = inbox[m]
    BY <1>2, <1>4 DEF TypeInv, TypeOK
  <2>2. Queue(m)' = flowsFinishedInfo[m] \o inbox[m]
    BY <1>2, <2>1, QueueNext
  <2>3. QED
    BY <1>4, <2>2 DEF Queue
<1>5. QED
  BY <1>3, <1>4

\* A receive moves reports within the queue.
LEMMA QueueKept ==
  ASSUME TypeInv, PollMachine, NEW m \in Machines
  PROVE  Queue(m)' = Queue(m)
<1>1. PICK k \in 0..Len(inbox[machine]) :
        /\ flowsFinishedInfo' =
             [flowsFinishedInfo EXCEPT ![machine] = @ \o SubSeq(inbox[machine], 1, k)]
        /\ inbox' = [inbox EXCEPT ![machine] = SubSeq(@, k + 1, Len(@))]
  BY DEF PollMachine, KeepRest
<1>2. flowsFinishedInfo[m] \in Seq(Flows) /\ inbox[m] \in Seq(Flows)
  BY DEF TypeInv, TypeOK
<1>3. CASE m = machine
  <2>1. PICK s, t : s = flowsFinishedInfo[m] /\ t = inbox[m]
    OBVIOUS
  <2>2. s \in Seq(Flows) /\ t \in Seq(Flows) /\ k \in 0..Len(t)
    BY <1>1, <1>2, <1>3, <2>1
  <2>3. (s \o SubSeq(t, 1, k)) \o SubSeq(t, k + 1, Len(t)) = s \o t
    <3>1. SubSeq(t, 1, k) \in Seq(Flows) /\ SubSeq(t, k + 1, Len(t)) \in Seq(Flows)
      BY <2>2
    <3>2. SubSeq(t, 1, k) \o SubSeq(t, k + 1, Len(t)) = t
      <4>1. Len(t) \in Nat /\ k \in Int /\ 1 <= k + 1
        BY <2>2
      <4>2. 1 \in 1..Len(t) + 1 /\ k \in 1 - 1..Len(t) /\ Len(t) \in k..Len(t)
        BY <2>2, <4>1
      <4>3. SubSeq(t, 1, k) \o SubSeq(t, k + 1, Len(t)) = SubSeq(t, 1, Len(t))
        BY ONLY <2>2, <4>2, ConcatAdjacentSubSeq
      <4>4. SubSeq(t, 1, Len(t)) = t
        BY <2>2, SubSeqFull
      <4>5. QED
        BY <4>3, <4>4
    <3>3. (s \o SubSeq(t, 1, k)) \o SubSeq(t, k + 1, Len(t))
            = s \o (SubSeq(t, 1, k) \o SubSeq(t, k + 1, Len(t)))
      <4>1. PICK a, b : a = SubSeq(t, 1, k) /\ b = SubSeq(t, k + 1, Len(t))
        OBVIOUS
      <4>2. a \in Seq(Flows) /\ b \in Seq(Flows)
        BY <3>1, <4>1
      <4>3. (s \o a) \o b = s \o (a \o b)
        BY ONLY <2>2, <4>2, ConcatAssociative, SMTT(30)
      <4>4. QED
        BY <4>1, <4>3
    <3>4. QED
      BY <3>2, <3>3
  <2>4. /\ flowsFinishedInfo'[m] = s \o SubSeq(t, 1, k)
        /\ inbox'[m] = SubSeq(t, k + 1, Len(t))
    BY <1>1, <1>3, <2>1 DEF TypeInv, TypeOK
  <2>5. QED
    BY <2>1, <2>3, <2>4, QueueNext DEF Queue
<1>4. CASE m # machine
  BY <1>1, <1>4, QueueNext DEF Queue, TypeInv, TypeOK
<1>5. QED
  BY <1>3, <1>4

\* The report that is handled is the first of its machine's queue.
LEMMA QueueShrinks ==
  ASSUME TypeInv, HandleReport
  PROVE  /\ machine \in Machines /\ Len(Queue(machine)) \in Nat \ {0}
         /\ Head(flowsFinishedInfo[machine]) = Queue(machine)[1]
         /\ Queue(machine)[1] \in Flows
         /\ \A m \in Machines :
              Queue(m)' = IF m = machine THEN Tail(Queue(m)) ELSE Queue(m)
<1>1. /\ flowsFinishedInfo' = [flowsFinishedInfo EXCEPT ![machine] = Tail(@)]
      /\ inbox' = inbox
      /\ flowsFinishedInfo[machine] # <<>>
  BY DEF HandleReport, envVars
<1>2. /\ machine \in Machines
      /\ \A m \in Machines : flowsFinishedInfo[m] \in Seq(Flows) /\ inbox[m] \in Seq(Flows)
  BY DEF TypeInv, TypeOK
<1>3. \A s, t \in Seq(Flows) : s # <<>> =>
        /\ Len(s \o t) \in Nat \ {0}
        /\ Head(s) = (s \o t)[1] /\ Head(s) \in Flows
        /\ Tail(s) \o t = Tail(s \o t)
  OBVIOUS
<1>4. ASSUME NEW m \in Machines
      PROVE  Queue(m)' = IF m = machine THEN Tail(Queue(m)) ELSE Queue(m)
  <2>1. CASE m = machine
    <3>1. flowsFinishedInfo'[m] = Tail(flowsFinishedInfo[m])
      BY <1>1, <2>1 DEF TypeInv, TypeOK
    <3>2. Queue(m)' = Tail(flowsFinishedInfo[m]) \o inbox[m]
      BY <1>1, <3>1, QueueNext
    <3>3. Tail(flowsFinishedInfo[m]) \o inbox[m] = Tail(flowsFinishedInfo[m] \o inbox[m])
      BY <1>1, <1>2, <1>3, <2>1
    <3>4. QED
      BY <2>1, <3>2, <3>3 DEF Queue
  <2>2. CASE m # machine
    BY <1>1, <2>2, QueueNext DEF Queue, TypeInv, TypeOK
  <2>3. QED
    BY <2>1, <2>2
<1>5. QED
  BY <1>1, <1>2, <1>3, <1>4 DEF Queue

\* Every other step leaves the queues as they are.
OtherStep ==
  \/ Tick \/ RegisterCoflows \/ SelectCoflows \/ SendFlow \/ NextCoflow \/ StartPolling
  \/ NextMachine \/ UNCHANGED vars

LEMMA OtherKeeps ==
  ASSUME OtherStep
  PROVE  /\ UNCHANGED <<flowsFinishedInfo, inbox, reported, endflowNum, flowEnded,
                        coflowFinishedNum, coflowLog>>
         /\ \A m \in Machines : Queue(m)' = Queue(m)
<1>1. UNCHANGED <<flowsFinishedInfo, inbox, reported, endflowNum, flowEnded,
                  coflowFinishedNum, coflowLog>>
  BY DEF OtherStep, Tick, RegisterCoflows, SelectCoflows, SendFlow, NextCoflow,
         StartPolling, NextMachine, vars, loopVars, endVars, envVars
<1>2. QED
  BY <1>1 DEF Queue

LEMMA StepCases ==
  [Next]_vars <=> \/ \E f \in Flows : ReportArrives(f)
                  \/ PollMachine \/ HandleReport \/ OtherStep
  BY DEF Next, SchedulerStep, OtherStep

\* A report of flow f is at place i of machine m's queue.
Queued(f, m, i) == i \in 1..Len(Queue(m)) /\ Queue(m)[i] = f

Repeated(c) == \E f \in FlowsOf(c) : reported[f] > 1

Logged == {coflowLog[i] : i \in DOMAIN coflowLog}

\* Only what was reported is queued or has ended, and what was reported once is
\* queued in one place and not ended, or has ended.
OnceInv ==
  \A f \in Flows :
    /\ f \in flowEnded => reported[f] > 0
    /\ \A m \in Machines : \A i \in Nat : Queued(f, m, i) =>
         /\ reported[f] > 0
         /\ reported[f] = 1 =>
              /\ f \notin flowEnded
              /\ \A n \in Machines : \A j \in Nat : Queued(f, n, j) => n = m /\ j = i

\* Without a repeated report endflowNum counts the flows that ended.
EndedInv ==
  \A c \in Coflows : ~Repeated(c) => endflowNum[c] = Cardinality(flowEnded \cap FlowsOf(c))

\* Without one each coflow is logged once, after its flows.
LogInv ==
  /\ \A i \in DOMAIN coflowLog : ~Repeated(coflowLog[i]) => FlowsOf(coflowLog[i]) \subseteq flowEnded
  /\ (\A c \in Coflows : ~Repeated(c)) => coflowFinishedNum = Cardinality(Logged)

LEMMA QueueIsSeq == TypeInv => \A m \in Machines : Queue(m) \in Seq(Flows)
  BY DEF TypeInv, TypeOK, Queue

LEMMA QueuedGrows ==
  ASSUME TypeInv, NEW g \in Flows, ReportArrives(g),
         NEW f, NEW m \in Machines, NEW i \in Nat, Queued(f, m, i)'
  PROVE  \/ Queued(f, m, i)
         \/ f = g /\ m = LogicMap(Mapper(g)) /\ i = Len(Queue(m)) + 1
<1>1. PICK q \in Seq(Flows) : q = Queue(m)
  BY QueueIsSeq
<1>2. Queue(m)' = IF m = LogicMap(Mapper(g)) THEN Append(q, g) ELSE q
  BY <1>1, QueueGrows
<1>3. i \in 1..Len(Queue(m)') /\ Queue(m)'[i] = f
  BY DEF Queued
<1>4. CASE m = LogicMap(Mapper(g))
  <2>1. i \in 1..Len(q) + 1 /\ Append(q, g)[i] = f
    BY <1>2, <1>3, <1>4, AppendProperties
  <2>2. CASE i = Len(q) + 1
    <3>1. f = g
      BY <2>1, <2>2, AppendProperties
    <3>2. QED
      BY <1>1, <1>4, <2>2, <3>1
  <2>3. CASE i # Len(q) + 1
    <3>1. i \in 1..Len(q)
      BY <2>1, <2>3, LenProperties
    <3>2. q[i] = f
      BY <2>1, <3>1, AppendProperties
    <3>3. QED
      BY <1>1, <3>1, <3>2 DEF Queued
  <2>4. QED
    BY <2>2, <2>3
<1>5. CASE m # LogicMap(Mapper(g))
  BY <1>1, <1>2, <1>3, <1>5 DEF Queued
<1>6. QED
  BY <1>4, <1>5

LEMMA QueuedShrinks ==
  ASSUME TypeInv, HandleReport, NEW f, NEW m \in Machines, NEW i \in Nat, Queued(f, m, i)'
  PROVE  Queued(f, m, IF m = machine THEN i + 1 ELSE i) /\ i >= 1
<1>1. PICK q \in Seq(Flows) : q = Queue(m)
  BY QueueIsSeq
<1>2. Queue(m)' = IF m = machine THEN Tail(q) ELSE q
  BY <1>1, QueueShrinks
<1>3. i \in 1..Len(Queue(m)') /\ Queue(m)'[i] = f
  BY DEF Queued
<1>4. CASE m = machine
  <2>1. q # <<>>
    BY <1>1, <1>4, QueueShrinks, EmptySeq
  <2>2. i \in 1..Len(q) - 1 /\ Tail(q)[i] = f
    BY <1>2, <1>3, <1>4, <2>1, HeadTailProperties
  <2>3. i + 1 \in 1..Len(q) /\ i >= 1
    BY <2>2, LenProperties
  <2>4. q[i + 1] = f
    BY <2>1, <2>2, HeadTailProperties
  <2>5. QED
    BY <1>1, <1>4, <2>3, <2>4 DEF Queued
<1>5. CASE m # machine
  BY <1>1, <1>2, <1>3, <1>5 DEF Queued
<1>6. QED
  BY <1>4, <1>5

\* The flow of the report that is handled.
Handled == Queue(machine)[1]

LEMMA HandledQueued ==
  ASSUME TypeInv, HandleReport
  PROVE  /\ Handled \in Flows /\ Handled[1] \in Coflows
         /\ machine \in Machines /\ Queued(Handled, machine, 1)
         /\ endflowNum' = [endflowNum EXCEPT ![Handled[1]] = @ + 1]
         /\ flowEnded' = flowEnded \cup {Handled}
         /\ UNCHANGED <<reported, sent>>
         /\ CoflowEnds(Handled[1]) =>
              /\ coflowLog' = Append(coflowLog, Handled[1])
              /\ coflowFinishedNum' = coflowFinishedNum + 1
              /\ pc' = IF coflowFinishedNum + 1 >= NumCoflows THEN "stopped" ELSE pc
         /\ ~CoflowEnds(Handled[1]) => UNCHANGED <<coflowLog, coflowFinishedNum, pc>>
<1>1. /\ machine \in Machines /\ Handled \in Flows /\ Len(Queue(machine)) \in Nat \ {0}
      /\ Head(flowsFinishedInfo[machine]) = Handled
  BY QueueShrinks DEF Handled
<1>2. Queued(Handled, machine, 1)
  BY <1>1 DEF Queued, Handled
<1>3. Handled[1] \in Coflows
  BY <1>1, FlowOf
<1>4. QED
  BY <1>1, <1>2, <1>3 DEF HandleReport, envVars

LEMMA OnceNext == TypeInv /\ OnceInv /\ [Next]_vars => OnceInv'
<1> SUFFICES ASSUME TypeInv, OnceInv, [Next]_vars PROVE OnceInv'
  OBVIOUS
<1>0. reported \in [Flows -> Nat]
  BY DEF TypeInv, TypeOK
<1>1. ASSUME NEW g \in Flows, ReportArrives(g) PROVE OnceInv'
  <2>1. reported' = [reported EXCEPT ![g] = @ + 1] /\ UNCHANGED flowEnded
    BY <1>1 DEF ReportArrives, endVars
  <2> DEFINE new(f, m, i) == f = g /\ m = LogicMap(Mapper(g)) /\ i = Len(Queue(m)) + 1
  <2>2. \A f, m, i : m \in Machines /\ i \in Nat /\ Queued(f, m, i)' =>
          Queued(f, m, i) \/ new(f, m, i)
    BY <1>1, QueuedGrows
  <2>3. ASSUME NEW f \in Flows
        PROVE  /\ f # g => reported'[f] = reported[f]
               /\ reported'[g] = reported[g] + 1 /\ reported[g] \in Nat
    BY <1>0, <2>1
  <2>4. ASSUME NEW f \in Flows, f \in flowEnded' PROVE reported'[f] > 0
    BY <2>1, <2>3, <2>4 DEF OnceInv
  <2>5. ASSUME NEW f \in Flows, NEW m \in Machines, NEW i \in Nat, Queued(f, m, i)'
        PROVE  reported'[f] > 0
    <3>1. Queued(f, m, i) => reported[f] > 0
      BY DEF OnceInv
    <3>2. QED
      BY <2>2, <2>3, <2>5, <3>1
  <2>6. ASSUME NEW f \in Flows, NEW m \in Machines, NEW i \in Nat, Queued(f, m, i)',
               reported'[f] = 1
        PROVE  f \notin flowEnded'
    <3>1. /\ Queued(f, m, i) => (reported[f] = 1 => f \notin flowEnded)
          /\ f \in flowEnded => reported[f] > 0
      BY DEF OnceInv
    <3>2. QED
      BY <2>1, <2>2, <2>3, <2>6, <3>1
  <2>7. ASSUME NEW f \in Flows, NEW m \in Machines, NEW i \in Nat, Queued(f, m, i)',
               reported'[f] = 1, NEW n \in Machines, NEW j \in Nat, Queued(f, n, j)'
        PROVE  n = m /\ j = i
    <3>1. (Queued(f, m, i) \/ new(f, m, i)) /\ (Queued(f, n, j) \/ new(f, n, j))
      BY <2>2, <2>7
    <3>2. CASE f = g
      <4>1. ~Queued(f, m, i) /\ ~Queued(f, n, j)
        <5>1. ~(reported[f] > 0)
          BY <2>3, <2>7, <3>2
        <5>2. QED
          BY <5>1 DEF OnceInv
      <4>2. QED
        BY <3>1, <4>1
    <3>3. CASE f # g
      <4>1. Queued(f, m, i) /\ Queued(f, n, j) /\ reported[f] = 1
        BY <2>3, <2>7, <3>1, <3>3
      <4>2. QED
        BY <4>1 DEF OnceInv
    <3>4. QED
      BY <3>2, <3>3
  <2> HIDE DEF new
  <2>8. QED
    BY <2>4, <2>5, <2>6, <2>7 DEF OnceInv
<1>2. CASE HandleReport
  <2>1. /\ Handled \in Flows /\ machine \in Machines /\ Queued(Handled, machine, 1)
        /\ flowEnded' = flowEnded \cup {Handled} /\ reported' = reported
    BY <1>2, HandledQueued
  <2> DEFINE was(m, i) == IF m = machine THEN i + 1 ELSE i
  <2>2. \A f, m, i : m \in Machines /\ i \in Nat /\ Queued(f, m, i)' =>
          Queued(f, m, was(m, i)) /\ i >= 1
    BY <1>2, QueuedShrinks
  <2>3. \A m, i : i \in Nat => was(m, i) \in Nat
    OBVIOUS
  <2>4. \A m, i, j : i \in Nat /\ j \in Nat /\ was(m, i) = was(m, j) => i = j
    OBVIOUS
  <2>5. \A i : i \in Nat /\ was(machine, i) = 1 => i = 0
    OBVIOUS
  <2> HIDE DEF was
  <2>6. ASSUME NEW f \in Flows, f \in flowEnded' PROVE reported'[f] > 0
    BY <2>1, <2>6 DEF OnceInv
  <2>7. ASSUME NEW f \in Flows, NEW m \in Machines, NEW i \in Nat, Queued(f, m, i)'
        PROVE  /\ reported'[f] > 0
               /\ reported'[f] = 1 =>
                    /\ f \notin flowEnded'
                    /\ \A n \in Machines : \A j \in Nat : Queued(f, n, j)' => n = m /\ j = i
    <3>1. Queued(f, m, was(m, i)) /\ was(m, i) \in Nat /\ i >= 1
      BY <2>2, <2>3, <2>7
    <3>2. /\ reported[f] > 0
          /\ reported[f] = 1 =>
               /\ f \notin flowEnded
               /\ \A n \in Machines : \A j \in Nat : Queued(f, n, j) => n = m /\ j = was(m, i)
      BY <3>1 DEF OnceInv
    <3>3. reported[f] = 1 => f # Handled
      <4>1. SUFFICES ASSUME reported[f] = 1, f = Handled PROVE FALSE
        OBVIOUS
      <4>2. machine = m /\ 1 = was(m, i)
        BY <2>1, <3>2, <4>1
      <4>3. QED
        BY <2>5, <3>1, <4>2
    <3>4. ASSUME reported[f] = 1, NEW n \in Machines, NEW j \in Nat, Queued(f, n, j)'
          PROVE  n = m /\ j = i
      <4>1. Queued(f, n, was(n, j)) /\ was(n, j) \in Nat
        BY <2>2, <2>3, <3>4
      <4>2. n = m /\ was(n, j) = was(m, i)
        BY <3>2, <3>4, <4>1
      <4>3. QED
        BY <2>4, <4>2
    <3>5. QED
      BY <2>1, <3>2, <3>3, <3>4
  <2>8. QED
    BY <2>6, <2>7 DEF OnceInv
<1>3. CASE PollMachine \/ OtherStep
  <2>1. /\ \A m \in Machines : Queue(m)' = Queue(m)
        /\ UNCHANGED <<reported, flowEnded>>
    BY <1>3, QueueKept, OtherKeeps DEF PollMachine, endVars
  <2>2. \A m \in Machines : \A f, i : Queued(f, m, i)' <=> Queued(f, m, i)
    BY <2>1 DEF Queued
  <2>3. QED
    BY <2>1, <2>2 DEF OnceInv
<1>4. QED
  BY <1>1, <1>2, <1>3, StepCases

LEMMA FlowsOfSize ==
  ASSUME NEW c \in Coflows
  PROVE  IsFiniteSet(FlowsOf(c)) /\ Cardinality(FlowsOf(c)) = FlowsNum(c)
<1>1. IsFiniteSet(FlowIDs(c)) /\ Cardinality(FlowIDs(c)) = FlowsNum(c)
  <2>1. FlowsNum(c) \in Nat /\ FlowIDs(c) = 0..FlowsNum(c) - 1
    BY FlowCount
  <2>2. IsFiniteSet(FlowIDs(c))
    BY <2>1, FS_Interval
  <2>3. QED
    BY <2>2 DEF FlowsNum
<1> DEFINE b == [id \in FlowIDs(c) |-> <<c, id>>]
<1>2. \A f \in FlowsOf(c) : f[2] \in FlowIDs(c) /\ f = <<c, f[2]>>
  BY FlowOf DEF FlowsOf
<1>3. \A id \in FlowIDs(c) : <<c, id>> \in FlowsOf(c)
  BY FlowOf DEF FlowsOf
<1>4. b \in Bijection(FlowIDs(c), FlowsOf(c))
  <2>1. b \in [FlowIDs(c) -> FlowsOf(c)]
    BY <1>3
  <2>2. \A x, y \in FlowIDs(c) : b[x] = b[y] => x = y
    OBVIOUS
  <2>3. \A f \in FlowsOf(c) : \E id \in FlowIDs(c) : b[id] = f
    BY <1>2
  <2> HIDE DEF b
  <2>4. QED
    BY <2>1, <2>2, <2>3 DEF Bijection, Injection, Surjection, IsInjective
<1>5. ExistsBijection(FlowIDs(c), FlowsOf(c))
  BY <1>4 DEF ExistsBijection
<1>6. QED
  BY <1>1, <1>5, FS_Bijection

\* Reports only get more.
LEMMA RepeatedStays ==
  ASSUME TypeInv, [Next]_vars, NEW c \in Coflows, Repeated(c)
  PROVE  Repeated(c)'
<1>1. PICK f \in FlowsOf(c) : reported[f] > 1
  BY DEF Repeated
<1>2. f \in Flows /\ reported[f] \in Nat /\ reported \in [Flows -> Nat]
  BY DEF FlowsOf, TypeInv, TypeOK
<1>3. reported'[f] > 1
  <2>1. CASE \E g \in Flows : ReportArrives(g)
    BY <1>1, <1>2, <2>1 DEF ReportArrives
  <2>2. CASE PollMachine \/ HandleReport \/ OtherStep
    BY <1>1, <2>2, OtherKeeps DEF PollMachine, HandleReport, envVars
  <2>3. QED
    BY <2>1, <2>2, StepCases
<1>4. QED
  BY <1>1, <1>3 DEF Repeated, FlowsOf

LEMMA HandledOnce ==
  ASSUME TypeInv, OnceInv, HandleReport, ~Repeated(Handled[1])
  PROVE  Handled \notin flowEnded
<1>1. /\ Handled \in Flows /\ machine \in Machines /\ Queued(Handled, machine, 1)
      /\ reported[Handled] \in Nat
  BY HandledQueued DEF TypeInv, TypeOK
<1>2. ~(reported[Handled] > 1)
  BY <1>1 DEF Repeated, FlowsOf
<1>3. reported[Handled] > 0 /\ (reported[Handled] = 1 => Handled \notin flowEnded)
  BY <1>1 DEF OnceInv
<1>4. QED
  BY <1>1, <1>2, <1>3

LEMMA EndedNext == TypeInv /\ OnceInv /\ EndedInv /\ [Next]_vars => EndedInv'
<1> SUFFICES ASSUME TypeInv, OnceInv, EndedInv, [Next]_vars, NEW c \in Coflows, ~Repeated(c)'
             PROVE  endflowNum'[c] = Cardinality(flowEnded' \cap FlowsOf(c))
  BY DEF EndedInv, FlowsOf
<1>1. ~Repeated(c) /\ endflowNum[c] = Cardinality(flowEnded \cap FlowsOf(c))
  BY RepeatedStays DEF EndedInv
<1>2. CASE HandleReport
  <2>1. /\ endflowNum' = [endflowNum EXCEPT ![Handled[1]] = @ + 1]
        /\ flowEnded' = flowEnded \cup {Handled}
        /\ Handled \in Flows
    BY <1>2, HandledQueued
  <2>2. CASE c = Handled[1]
    <3>1. Handled \notin flowEnded
      BY <1>1, <1>2, <2>2, HandledOnce
    <3>2. flowEnded' \cap FlowsOf(c) = (flowEnded \cap FlowsOf(c)) \cup {Handled}
      BY <2>1, <2>2 DEF FlowsOf
    <3>3. IsFiniteSet(flowEnded \cap FlowsOf(c))
      BY FlowsOfSize, FS_Subset
    <3>4. Cardinality(flowEnded' \cap FlowsOf(c)) = Cardinality(flowEnded \cap FlowsOf(c)) + 1
      BY <3>1, <3>2, <3>3, FS_AddElement
    <3>5. endflowNum'[c] = endflowNum[c] + 1
      BY <2>1, <2>2 DEF TypeInv, TypeOK
    <3>6. QED
      BY <1>1, <3>4, <3>5
  <2>3. CASE c # Handled[1]
    <3>1. flowEnded' \cap FlowsOf(c) = flowEnded \cap FlowsOf(c)
      BY <2>1, <2>3 DEF FlowsOf
    <3>2. endflowNum'[c] = endflowNum[c]
      BY <2>1, <2>3 DEF TypeInv, TypeOK
    <3>3. QED
      BY <1>1, <3>1, <3>2
  <2>4. QED
    BY <2>2, <2>3
<1>3. CASE (\E g \in Flows : ReportArrives(g)) \/ PollMachine \/ OtherStep
  <2>1. UNCHANGED <<endflowNum, flowEnded>>
    BY <1>3, OtherKeeps DEF ReportArrives, PollMachine, endVars
  <2>2. QED
    BY <1>1, <2>1
<1>4. QED
  BY <1>2, <1>3, StepCases

\* A coflow that ends without a repeated report was not logged, and its flows
\* all have ended.
LEMMA EndsRightly ==
  ASSUME TypeInv, OnceInv, EndedInv, LogInv, HandleReport, ~Repeated(Handled[1])
  PROVE  /\ Handled[1] \notin Logged
         /\ CoflowEnds(Handled[1]) => FlowsOf(Handled[1]) \subseteq flowEnded'
<1>0. PICK c \in Coflows : c = Handled[1]
  BY HandledQueued
<1>1. /\ Handled \in Flows /\ c \in Coflows
      /\ endflowNum' = [endflowNum EXCEPT ![c] = @ + 1]
      /\ Handled \notin flowEnded
  BY <1>0, HandledQueued, HandledOnce
<1>2. c \notin Logged
  <2>1. SUFFICES ASSUME NEW i \in DOMAIN coflowLog, coflowLog[i] = c PROVE FALSE
    BY DEF Logged
  <2>2. FlowsOf(c) \subseteq flowEnded
    BY <1>0, <2>1 DEF LogInv
  <2>3. QED
    BY <1>0, <1>1, <2>2 DEF FlowsOf
<1>3. ASSUME CoflowEnds(c) PROVE FlowsOf(c) \subseteq flowEnded'
  <2>1. [Next]_vars
    BY StepCases
  <2>2. ~Repeated(c)'
    BY <1>0, HandledQueued DEF Repeated, FlowsOf
  <2>3. endflowNum'[c] = Cardinality(flowEnded' \cap FlowsOf(c))
    BY <1>1, <2>1, <2>2, EndedNext DEF EndedInv, FlowsOf
  <2>4. endflowNum'[c] = endflowNum[c] + 1 /\ endflowNum[c] \in Nat
    BY <1>1 DEF TypeInv, TypeOK
  <2>5. endflowNum'[c] >= FlowsNum(c)
    BY <1>3, <2>4 DEF CoflowEnds
  <2> DEFINE T == flowEnded' \cap FlowsOf(c)
  <2>6. /\ T \in SUBSET FlowsOf(c) /\ IsFiniteSet(FlowsOf(c))
        /\ Cardinality(FlowsOf(c)) = FlowsNum(c) /\ FlowsNum(c) \in Nat
    BY <1>1, FlowsOfSize, FlowCount
  <2> HIDE DEF T
  <2>7. /\ Cardinality(T) <= Cardinality(FlowsOf(c))
        /\ Cardinality(FlowsOf(c)) = Cardinality(T) => FlowsOf(c) = T
    BY <2>6, FS_Subset
  <2>8. Cardinality(T) = endflowNum'[c]
    BY <2>3 DEF T
  <2>9. FlowsOf(c) = T
    BY <2>4, <2>5, <2>6, <2>7, <2>8
  <2>10. QED
    BY <2>9 DEF T
<1>4. QED
  BY <1>0, <1>2, <1>3

LEMMA LogNext ==
  TypeInv /\ OnceInv /\ EndedInv /\ LogInv /\ [Next]_vars => LogInv'
<1> SUFFICES ASSUME TypeInv, OnceInv, EndedInv, LogInv, [Next]_vars PROVE LogInv'
  OBVIOUS
<1>0. /\ coflowLog \in Seq(Coflows) /\ coflowFinishedNum \in Nat
      /\ \A c \in Coflows : Repeated(c) => Repeated(c)'
  <2>1. coflowLog \in Seq(Coflows) /\ coflowFinishedNum \in Nat
    BY Sizes DEF TypeInv, TypeOK
  <2>2. \A c \in Coflows : Repeated(c) => Repeated(c)'
    BY RepeatedStays
  <2>3. QED
    BY <2>1, <2>2
<1>1. CASE HandleReport /\ CoflowEnds(Handled[1])
  <2>1. PICK c \in Coflows : c = Handled[1]
    BY <1>1, HandledQueued
  <2>2. /\ coflowLog' = Append(coflowLog, c) /\ coflowFinishedNum' = coflowFinishedNum + 1
        /\ flowEnded \subseteq flowEnded' /\ UNCHANGED reported
    BY <1>1, <2>1, HandledQueued
  <2>3. ~Repeated(c) => c \notin Logged /\ FlowsOf(c) \subseteq flowEnded'
    BY <1>1, <2>1, EndsRightly
  <2>4. ASSUME NEW i \in DOMAIN coflowLog', ~Repeated(coflowLog[i])'
        PROVE  FlowsOf(coflowLog'[i]) \subseteq flowEnded'
    <3>1. PICK d : d = coflowLog'[i]
      OBVIOUS
    <3>2. d \in Coflows /\ ((i \in DOMAIN coflowLog /\ d = coflowLog[i]) \/ d = c)
      BY <1>0, <2>2, <3>1
    <3>3. ~Repeated(d)
      BY <2>2, <2>4, <3>1 DEF Repeated, FlowsOf
    <3>4. CASE d = c
      BY <2>3, <3>1, <3>3, <3>4
    <3>5. CASE i \in DOMAIN coflowLog /\ d = coflowLog[i]
      BY <2>2, <3>1, <3>3, <3>5 DEF LogInv
    <3>6. QED
      BY <3>2, <3>4, <3>5
  <2>5. ASSUME \A d \in Coflows : ~Repeated(d)' PROVE coflowFinishedNum' = Cardinality(Logged')
    <3>1. coflowFinishedNum = Cardinality(Logged)
      BY <1>0, <2>5 DEF LogInv
    <3>2. Logged' = Logged \cup {c}
      BY <1>0, <2>2 DEF Logged
    <3>3. IsFiniteSet(Logged)
      <4>1. Logged \in SUBSET Coflows
        BY <1>0 DEF Logged
      <4>2. IsFiniteSet(Coflows)
        BY Sizes, FS_Interval
      <4>3. QED
        BY <4>1, <4>2, FS_Subset
    <3>4. c \notin Logged
      BY <1>0, <2>3, <2>5
    <3>5. Cardinality(Logged') = Cardinality(Logged) + 1
      BY <3>2, <3>3, <3>4, FS_AddElement
    <3>6. QED
      BY <2>2, <3>1, <3>5
  <2>6. QED
    BY <2>4, <2>5 DEF LogInv
<1>2. CASE ~(HandleReport /\ CoflowEnds(Handled[1]))
  <2>1. UNCHANGED <<coflowLog, coflowFinishedNum>> /\ flowEnded \subseteq flowEnded'
    <3>1. CASE HandleReport
      BY <1>2, <3>1, HandledQueued
    <3>2. CASE (\E f \in Flows : ReportArrives(f)) \/ PollMachine \/ OtherStep
      BY <3>2, OtherKeeps DEF ReportArrives, PollMachine, endVars
    <3>3. QED
      BY <3>1, <3>2, StepCases
  <2>2. ASSUME NEW i \in DOMAIN coflowLog', ~Repeated(coflowLog[i])'
        PROVE  FlowsOf(coflowLog'[i]) \subseteq flowEnded'
    <3>1. PICK d : d = coflowLog[i]
      OBVIOUS
    <3>2. d \in Coflows /\ i \in DOMAIN coflowLog
      BY <1>0, <2>1, <3>1
    <3>3. ~Repeated(d)
      <4>1. d = coflowLog'[i]
        BY <2>1, <3>1
      <4>2. QED
        BY <1>0, <2>2, <3>2, <4>1 DEF Repeated, FlowsOf
    <3>4. QED
      BY <2>1, <3>1, <3>2, <3>3 DEF LogInv
  <2>3. ASSUME \A d \in Coflows : ~Repeated(d)' PROVE coflowFinishedNum' = Cardinality(Logged')
    BY <1>0, <2>1, <2>3 DEF LogInv, Logged
  <2>4. QED
    BY <2>2, <2>3 DEF LogInv
<1>3. QED
  BY <1>1, <1>2

ReportInv == OrderInv /\ OnceInv /\ EndedInv /\ LogInv

LEMMA ReportInit == Init => ReportInv
<1> SUFFICES ASSUME Init PROVE ReportInv
  OBVIOUS
<1>1. \A m \in Machines : Len(Queue(m)) = 0
  BY DEF Init, Queue
<1>2. OnceInv
  BY <1>1 DEF Init, OnceInv, Queued
<1>3. EndedInv
  BY FS_EmptySet DEF Init, EndedInv
<1>4. LogInv
  <2>1. Logged = {} /\ DOMAIN coflowLog = {} /\ coflowFinishedNum = 0
    BY DEF Init, Logged
  <2>2. QED
    BY <2>1, FS_EmptySet DEF LogInv
<1>5. QED
  BY <1>2, <1>3, <1>4, OrderInit DEF ReportInv

LEMMA ReportCorrect == Spec => []ReportInv
<1>1. ReportInv /\ [Next]_vars => ReportInv'
  BY TypeNext, StateNext, SentNext, OnceNext, EndedNext, LogNext DEF ReportInv, OrderInv
<1>2. QED
  BY <1>1, ReportInit, PTL DEF Spec

\* For every trace and however the clients report, a coflow is logged before
\* all its flows ended only if one of its flows was reported twice: the
\* comparison of endflowNum with the number of flows is right otherwise.
THEOREM EarlyOnlyByRepeatCorrect == Spec => []EarlyOnlyByRepeat
<1>1. ReportInv => EarlyOnlyByRepeat
  BY DEF ReportInv, LogInv, EarlyOnlyByRepeat, Repeated
<1>2. QED
  BY <1>1, ReportCorrect, PTL

-----------------------------------------------------------------------------
(* The service *)

LEMMA SentOnce == ReportInv => \A f \in Flows : sent[f] \in {0, 1}
  BY FlowOf DEF ReportInv, OrderInv, SentInv

\* A flow is sent.
LEMMA SendServes == ASSUME ReportInv, SendFlow PROVE \E f \in Flows : Service!Send(f)
<1> DEFINE f == <<coflow, flow>>
<1>0. /\ registerIndex \in 0..NumCoflows /\ coflow \in 1..NumCoflows + 1 /\ flow \in Nat
      /\ sent \in [Flows -> Nat]
  BY DEF ReportInv, OrderInv, TypeInv, TypeOK
<1>1. /\ coflow <= registerIndex /\ coflowState[coflow] = "RUNNING" /\ flow < FlowsNum(coflow)
      /\ sent' = [sent EXCEPT ![f] = @ + 1]
      /\ UNCHANGED <<pc, coflowLog, reported>>
  BY DEF SendFlow, endVars, envVars
<1>2. coflow \in Coflows /\ flow \in FlowIDs(coflow) /\ f \in Flows
  BY <1>0, <1>1, FlowCount, FlowOf, Sizes
<1>3. sent[f] = 0
  <2>1. sent[f] = IF coflowState[coflow] = "RUNNINGED" \/ (Sending(coflow) /\ flow < flow)
                    THEN 1 ELSE 0
    BY <1>2 DEF ReportInv, OrderInv, SentInv
  <2>2. QED
    BY <1>0, <1>1, <2>1
<1> HIDE DEF f
<1>4. sent' = [sent EXCEPT ![f] = 1]
  BY <1>0, <1>1, <1>2, <1>3
<1>5. Service!Send(f)
  BY <1>1, <1>3, <1>4 DEF Service!Send
<1>6. QED
  BY <1>2, <1>5

\* The first report of a flow is its end.
LEMMA EndServes ==
  ASSUME ReportInv, NEW f \in Flows, ReportArrives(f), ~(reported'[f] > 1)
  PROVE  Service!End(f)
<1>1. /\ sent[f] > 0 /\ sent[f] \in {0, 1}
      /\ reported' = [reported EXCEPT ![f] = @ + 1]
      /\ UNCHANGED <<pc, coflowLog, sent>>
  BY SentOnce DEF ReportArrives, endVars
<1>2. reported \in [Flows -> Nat]
  BY DEF ReportInv, OrderInv, TypeInv, TypeOK
<1>3. reported[f] = 0 /\ reported'[f] = 1 /\ \A g \in Flows \ {f} : reported'[g] = reported[g]
  BY <1>1, <1>2
<1>4. /\ {g \in Flows : reported'[g] > 0} = {g \in Flows : reported[g] > 0} \cup {f}
      /\ f \notin {g \in Flows : reported[g] > 0}
  BY <1>3
<1>5. sent[f] = 1
  BY <1>1
<1>6. QED
  BY <1>1, <1>4, <1>5 DEF Service!End

\* A coflow is logged as finished; the last one ends the run.
LEMMA FinishServes ==
  ASSUME ReportInv, HandleReport, CoflowEnds(Handled[1]), \A f \in Flows : ~(reported'[f] > 1)
  PROVE  \E c \in Coflows : Service!Finish(c)
<1>1. PICK c \in Coflows : c = Handled[1]
  BY HandledQueued DEF ReportInv, OrderInv
<1>2. /\ coflowLog' = Append(coflowLog, c)
      /\ coflowFinishedNum' = coflowFinishedNum + 1
      /\ pc' = IF coflowFinishedNum + 1 >= NumCoflows THEN "stopped" ELSE pc
      /\ UNCHANGED <<reported, sent>>
  BY <1>1, HandledQueued DEF ReportInv, OrderInv
<1>3. \A d \in Coflows : ~Repeated(d) /\ ~Repeated(d)'
  BY <1>2 DEF Repeated, FlowsOf
<1>4. c \notin Logged /\ FlowsOf(c) \subseteq flowEnded'
  BY <1>1, <1>3, EndsRightly DEF ReportInv, OrderInv
<1>5. ReportInv'
  <2>1. [Next]_vars
    BY StepCases
  <2>2. QED
    BY <2>1, TypeNext, StateNext, SentNext, OnceNext, EndedNext, LogNext DEF ReportInv, OrderInv
<1>6. \A f \in Flows : f[1] = c => f \in {g \in Flows : reported[g] > 0}
  <2>1. \A f \in FlowsOf(c) : reported'[f] > 0
    BY <1>4, <1>5 DEF ReportInv, OnceInv, FlowsOf
  <2>2. QED
    BY <1>2, <2>1 DEF FlowsOf
<1>7. \A i \in DOMAIN coflowLog : coflowLog[i] # c
  BY <1>4 DEF Logged
<1>8. (pc' = "stopped") = (\A d \in Coflows : \E i \in DOMAIN coflowLog' : coflowLog'[i] = d)
  <2>1. coflowFinishedNum' = Cardinality(Logged')
    BY <1>3, <1>5 DEF ReportInv, LogInv
  <2>2. IsFiniteSet(Coflows) /\ Cardinality(Coflows) = NumCoflows
    BY Sizes, FS_Interval
  <2>3. Logged' \in SUBSET Coflows
    <3>1. coflowLog' \in Seq(Coflows)
      BY <1>5 DEF ReportInv, OrderInv, TypeInv, TypeOK
    <3>2. PICK log \in Seq(Coflows) : log = coflowLog'
      BY <3>1
    <3>3. \A i \in DOMAIN log : log[i] \in Coflows
      OBVIOUS
    <3>4. QED
      BY <3>2, <3>3 DEF Logged
  <2>4. /\ Cardinality(Logged') <= NumCoflows
        /\ NumCoflows = Cardinality(Logged') => Logged' = Coflows
    BY <2>2, <2>3, FS_Subset
  <2>5. coflowFinishedNum \in Nat /\ NumCoflows \in Nat /\ pc = "report"
    BY Sizes DEF ReportInv, OrderInv, TypeInv, TypeOK, HandleReport
  <2>6. pc' = "stopped" <=> Logged' = Coflows
    BY <1>2, <2>1, <2>2, <2>4, <2>5
  <2>7. Logged' = Coflows <=> \A d \in Coflows : \E i \in DOMAIN coflowLog' : coflowLog'[i] = d
    BY <2>3 DEF Logged
  <2>8. QED
    BY <2>6, <2>7
<1>9. Service!Finish(c)
  <2>1. \A f \in Flows : [g \in Flows |-> g[1]][f] = c => f \in {g \in Flows : reported[g] > 0}
    BY <1>6
  <2>2. UNCHANGED sent /\ {g \in Flows : reported'[g] > 0} = {g \in Flows : reported[g] > 0}
    BY <1>2
  <2>3. QED
    BY <1>2, <1>7, <1>8, <2>1, <2>2 DEF Service!Finish
<1>10. QED
  BY <1>9

\* For every trace, until a flow is reported a second time every step of the
\* Scheduler is one of the service or none of its, so the Scheduler finishes
\* each coflow once and after its flows, and stops after the last.
THEOREM ServiceUntilRepeatedCorrect == Spec => ServiceUntilRepeated
<1> DEFINE step == \/ \E f \in Flows : reported'[f] > 1
                   \/ Service!Next
                   \/ UNCHANGED <<sent, reported, coflowLog, pc = "stopped">>
<1>1. Init => Service!Init
  BY DEF Init, Service!Init
<1>2. ReportInv /\ [Next]_vars => [step]_vars
  <2> SUFFICES ASSUME ReportInv, [Next]_vars PROVE step
    OBVIOUS
  <2>1. CASE SendFlow
    BY <2>1, SendServes DEF Service!Next
  <2>2. ASSUME NEW f \in Flows, ReportArrives(f) PROVE step
    BY <2>2, EndServes DEF Service!Next
  <2>3. CASE HandleReport
    <3>1. CASE CoflowEnds(Handled[1])
      BY <2>3, <3>1, FinishServes DEF Service!Next
    <3>2. CASE ~CoflowEnds(Handled[1])
      BY <2>3, <3>2, HandledQueued DEF ReportInv, OrderInv
    <3>3. QED
      BY <3>1, <3>2
  <2>4. CASE PollMachine
    BY <2>4 DEF PollMachine, endVars
  <2>5. CASE OtherStep /\ ~SendFlow
    BY <2>5 DEF OtherStep, Tick, RegisterCoflows, SelectCoflows, NextCoflow, StartPolling,
                NextMachine, vars, endVars, envVars
  <2>6. QED
    BY <2>1, <2>2, <2>3, <2>4, <2>5, StepCases
<1>3. QED
  BY <1>1, <1>2, ReportCorrect, PTL DEF Spec, ServiceUntilRepeated

-----------------------------------------------------------------------------
(* Conservation of reports *)

LEMMA PendingIs ==
  ASSUME NEW c, NEW x
  PROVE  x \in Pending(c) <=> \E m \in Machines : \E i \in 1..Len(Queue(m)) :
                                x = <<m, i>> /\ Queue(m)[i] \in FlowsOf(c)
  BY DEF Pending

LEMMA PendingPlace ==
  ASSUME NEW c, NEW m, NEW i
  PROVE  <<m, i>> \in Pending(c) <=> /\ m \in Machines /\ i \in 1..Len(Queue(m))
                                    /\ Queue(m)[i] \in FlowsOf(c)
  BY PendingIs

LEMMA PendingPlaceNext ==
  ASSUME NEW c, NEW m, NEW i
  PROVE  <<m, i>> \in Pending(c)' <=> /\ m \in Machines /\ i \in 1..Len(Queue(m)')
                                     /\ Queue(m)'[i] \in FlowsOf(c)
  BY DEF Pending, FlowsOf

LEMMA PendingPairs ==
  ASSUME NEW c
  PROVE  /\ \A x \in Pending(c) : \E m \in Machines : \E i \in 1..Len(Queue(m)) : x = <<m, i>>
         /\ \A x \in Pending(c)' : \E m \in Machines : \E i \in 1..Len(Queue(m)') : x = <<m, i>>
  BY DEF Pending

LEMMA MadeIs ==
  ASSUME NEW c, NEW f, NEW n
  PROVE  /\ <<f, n>> \in Made(c) <=> f \in FlowsOf(c) /\ n \in 1..reported[f]
         /\ <<f, n>> \in Made(c)' <=> f \in FlowsOf(c) /\ n \in 1..reported'[f]
  BY DEF Made, FlowsOf

LEMMA MadePairs ==
  ASSUME NEW c
  PROVE  /\ \A x \in Made(c) : \E f \in FlowsOf(c) : \E n \in 1..reported[f] : x = <<f, n>>
         /\ \A x \in Made(c)' : \E f \in FlowsOf(c) : \E n \in 1..reported'[f] : x = <<f, n>>
  BY DEF Made, FlowsOf

\* A report that arrives is one more made of its coflow and one more pending.
LEMMA ArrivalAdds ==
  ASSUME TypeInv, NEW g \in Flows, ReportArrives(g), NEW c \in Coflows
  PROVE  LET m == LogicMap(Mapper(g)) IN
         /\ g[1] = c => /\ Made(c)' = Made(c) \cup {<<g, reported[g] + 1>>}
                        /\ <<g, reported[g] + 1>> \notin Made(c)
                        /\ Pending(c)' = Pending(c) \cup {<<m, Len(Queue(m)) + 1>>}
                        /\ <<m, Len(Queue(m)) + 1>> \notin Pending(c)
         /\ g[1] # c => Made(c)' = Made(c) /\ Pending(c)' = Pending(c)
<1> DEFINE m == LogicMap(Mapper(g))
<1>1. /\ reported \in [Flows -> Nat] /\ reported' = [reported EXCEPT ![g] = @ + 1]
      /\ \A f : f \in FlowsOf(c) <=> f \in Flows /\ f[1] = c
  BY DEF TypeInv, TypeOK, ReportArrives, FlowsOf
<1>2. /\ m \in Machines
      /\ \A n \in Machines : Queue(n) \in Seq(Flows)
      /\ \A n \in Machines : Queue(n)' = IF n = m THEN Append(Queue(n), g) ELSE Queue(n)
  BY MapperMachine, QueueIsSeq, QueueGrows
<1> HIDE DEF m
<1>3. \A f \in Flows : reported[f] \in Nat /\ reported'[f] = IF f = g THEN reported[f] + 1 ELSE reported[f]
  BY <1>1
<1>4. \A f, n : <<f, n>> \in Made(c)' <=>
          (<<f, n>> \in Made(c) \/ (g[1] = c /\ f = g /\ n = reported[g] + 1))
  <2> SUFFICES ASSUME NEW f, NEW n
               PROVE  <<f, n>> \in Made(c)' <=>
          (<<f, n>> \in Made(c) \/ (g[1] = c /\ f = g /\ n = reported[g] + 1))
    OBVIOUS
  <2>1. CASE f \in FlowsOf(c) /\ f = g
    <3>1. n \in 1..reported[g] + 1 <=> (n \in 1..reported[g] \/ n = reported[g] + 1)
      BY <1>3
    <3>2. QED
      BY <1>1, <1>3, <2>1, <3>1, MadeIs
  <2>2. CASE f \in FlowsOf(c) /\ f # g
    BY <1>1, <1>3, <2>2, MadeIs
  <2>3. CASE f \notin FlowsOf(c)
    BY <1>1, <2>3, MadeIs
  <2>4. QED
    BY <2>1, <2>2, <2>3
<1>5. \A n, i : <<n, i>> \in Pending(c)' <=>
          (<<n, i>> \in Pending(c) \/ (g[1] = c /\ n = m /\ i = Len(Queue(m)) + 1))
  <2> SUFFICES ASSUME NEW n, NEW i
               PROVE  <<n, i>> \in Pending(c)' <=>
          (<<n, i>> \in Pending(c) \/ (g[1] = c /\ n = m /\ i = Len(Queue(m)) + 1))
    OBVIOUS
  <2>1. CASE n = m
    <3>1. PICK q \in Seq(Flows) : q = Queue(m)
      BY <1>2
    <3>2. Queue(n)' = Append(q, g) /\ n \in Machines /\ Queue(n) = q
      BY <1>2, <2>1, <3>1
    <3>3. Len(q) \in Nat
      BY LenProperties
    <3>4. /\ Len(Append(q, g)) = Len(q) + 1 /\ Append(q, g)[Len(q) + 1] = g
          /\ \A j \in 1..Len(q) : Append(q, g)[j] = q[j]
      BY AppendProperties
    <3>5. i \in 1..Len(q) + 1 <=> (i \in 1..Len(q) \/ i = Len(q) + 1)
      BY <3>3
    <3>6. <<n, i>> \in Pending(c) <=> i \in 1..Len(q) /\ q[i] \in FlowsOf(c)
      BY <3>2, PendingPlace
    <3>7. <<n, i>> \in Pending(c)' <=> i \in 1..Len(q) + 1 /\ Append(q, g)[i] \in FlowsOf(c)
      BY <3>2, <3>4, PendingPlaceNext
    <3>8. g \in FlowsOf(c) <=> g[1] = c
      BY <1>1
    <3>9. ~(Len(q) + 1 \in 1..Len(q))
      BY <3>3
    <3>10. QED
      BY <2>1, <3>1, <3>4, <3>5, <3>6, <3>7, <3>8, <3>9
  <2>2. CASE n # m
    BY <1>2, <2>2, PendingPlace, PendingPlaceNext
  <2>3. QED
    BY <2>1, <2>2
<1>6. /\ <<g, reported[g] + 1>> \notin Made(c)
      /\ <<m, Len(Queue(m)) + 1>> \notin Pending(c)
  <2>1. ~(reported[g] + 1 \in 1..reported[g])
    BY <1>3
  <2>2. Len(Queue(m)) \in Nat
    BY <1>2, LenProperties
  <2>3. ~(Len(Queue(m)) + 1 \in 1..Len(Queue(m)))
    BY <2>2
  <2>4. QED
    BY <2>1, <2>3, MadeIs, PendingPlace
<1>7. /\ \A x \in Made(c) \cup Made(c)' : \E f, n : x = <<f, n>>
      /\ \A x \in Pending(c) \cup Pending(c)' : \E f, n : x = <<f, n>>
  BY MadePairs, PendingPairs
<1>8. Made(c)' = IF g[1] = c THEN Made(c) \cup {<<g, reported[g] + 1>>} ELSE Made(c)
  BY <1>4, <1>7
<1>9. Pending(c)' = IF g[1] = c THEN Pending(c) \cup {<<m, Len(Queue(m)) + 1>>} ELSE Pending(c)
  <2>1. PICK l, P, Q : l = Len(Queue(m)) + 1 /\ P = Pending(c) /\ Q = Pending(c)'
    OBVIOUS
  <2>2. /\ \A n, i : <<n, i>> \in Q <=> (<<n, i>> \in P \/ (g[1] = c /\ n = m /\ i = l))
        /\ \A x \in P \cup Q : \E f, n : x = <<f, n>>
    BY <1>5, <1>7, <2>1
  <2>3. Q = IF g[1] = c THEN P \cup {<<m, l>>} ELSE P
    BY ONLY <2>2
  <2>4. QED
    BY <2>1, <2>3
<1>10. QED
  BY <1>6, <1>8, <1>9 DEF m

\* The report that is handled is one less pending.
LEMMA HandlingTakes ==
  ASSUME TypeInv, HandleReport, NEW c \in Coflows, IsFiniteSet(Pending(c))
  PROVE  /\ IsFiniteSet(Pending(c)')
         /\ Cardinality(Pending(c)') =
              IF Handled[1] = c THEN Cardinality(Pending(c)) - 1 ELSE Cardinality(Pending(c))
<1>0. PICK mc \in Machines : mc = machine
  BY HandledQueued
<1> DEFINE x == <<mc, 1>>
           rest == Pending(c) \ {x}
           was(y) == IF y[1] = mc THEN <<y[1], y[2] + 1>> ELSE y
           b == [y \in Pending(c)' |-> was(y)]
<1>1. /\ Handled \in Flows /\ Handled = Queue(mc)[1]
      /\ \A n \in Machines : Queue(n) \in Seq(Flows)
      /\ Queue(mc) # <<>>
      /\ \A n \in Machines : Queue(n)' = IF n = mc THEN Tail(Queue(n)) ELSE Queue(n)
  BY <1>0, QueueIsSeq, QueueShrinks, HandledQueued, EmptySeq DEF Handled
<1>2. \A n \in Machines : Len(Queue(n)) \in Nat
  BY <1>1, LenProperties
<1>3. /\ Len(Queue(mc)') = Len(Queue(mc)) - 1
      /\ \A i \in 1..Len(Queue(mc)) - 1 : Queue(mc)'[i] = Queue(mc)[i + 1]
  BY <1>1, HeadTailProperties
<1>4. \A i \in Nat : i >= 1 =>
        (<<mc, i>> \in Pending(c)' <=> <<mc, i + 1>> \in Pending(c))
  <2> SUFFICES ASSUME NEW i \in Nat, i >= 1
               PROVE  <<mc, i>> \in Pending(c)' <=> <<mc, i + 1>> \in Pending(c)
    OBVIOUS
  <2>1. i \in 1..Len(Queue(mc)') <=> i + 1 \in 1..Len(Queue(mc))
    BY <1>1, <1>2, <1>3
  <2>2. i \in 1..Len(Queue(mc)') => Queue(mc)'[i] = Queue(mc)[i + 1]
    BY <1>1, <1>2, <1>3
  <2>3. QED
    BY <1>1, <2>1, <2>2, PendingPlace, PendingPlaceNext
<1>5. \A n, i : n # mc => (<<n, i>> \in Pending(c)' <=> <<n, i>> \in Pending(c))
  BY <1>1, PendingPlace, PendingPlaceNext
<1>6. /\ \A y \in Pending(c) : \E n \in Machines : \E i \in Nat : y = <<n, i>> /\ i >= 1
      /\ \A y \in Pending(c)' : \E n \in Machines : \E i \in Nat : y = <<n, i>> /\ i >= 1
  <2>1. \A n \in Machines : Len(Queue(n)') \in Int /\ Len(Queue(n)) \in Int
    BY <1>1, <1>2, <1>3
  <2>2. /\ \A n \in Machines : \A i \in 1..Len(Queue(n)) : i \in Nat /\ i >= 1
        /\ \A n \in Machines : \A i \in 1..Len(Queue(n)') : i \in Nat /\ i >= 1
    BY <2>1
  <2>3. QED
    BY <2>2, PendingPairs
<1>7. b \in Bijection(Pending(c)', rest)
  <2>1. \A y \in Pending(c)' : was(y) \in rest
    <3> SUFFICES ASSUME NEW y \in Pending(c)' PROVE was(y) \in rest
      OBVIOUS
    <3>1. PICK n \in Machines, i \in Nat : y = <<n, i>> /\ i >= 1
      BY <1>6
    <3>2. CASE n = mc
      <4>1. was(y) = <<mc, i + 1>> /\ i + 1 # 1
        BY <3>1, <3>2
      <4>2. QED
        BY <1>4, <3>1, <3>2, <4>1
    <3>3. CASE n # mc
      BY <1>5, <3>1, <3>3
    <3>4. QED
      BY <3>2, <3>3
  <2>2. \A y, z \in Pending(c)' : was(y) = was(z) => y = z
    <3> SUFFICES ASSUME NEW y \in Pending(c)', NEW z \in Pending(c)', was(y) = was(z)
                 PROVE  y = z
      OBVIOUS
    <3>1. PICK n \in Machines, i \in Nat : y = <<n, i>>
      BY <1>6
    <3>2. PICK l \in Machines, j \in Nat : z = <<l, j>>
      BY <1>6
    <3>3. /\ was(y) = <<n, IF n = mc THEN i + 1 ELSE i>>
          /\ was(z) = <<l, IF l = mc THEN j + 1 ELSE j>>
      BY <3>1, <3>2
    <3>4. n = l /\ i = j
      BY <3>3
    <3>5. QED
      BY <3>1, <3>2, <3>4
  <2>3. \A z \in rest : \E y \in Pending(c)' : was(y) = z
    <3> SUFFICES ASSUME NEW z \in rest PROVE \E y \in Pending(c)' : was(y) = z
      OBVIOUS
    <3>1. PICK n \in Machines, j \in Nat : z = <<n, j>> /\ j >= 1
      BY <1>6
    <3>2. CASE n = mc
      <4>1. PICK i \in Nat : j = i + 1 /\ i >= 1
        <5>1. j # 1
          BY <3>1, <3>2
        <5>2. j - 1 \in Nat /\ j = (j - 1) + 1 /\ j - 1 >= 1
          BY <3>1, <5>1
        <5>3. QED
          BY <5>2
      <4>2. <<mc, i>> \in Pending(c)'
        BY <1>4, <3>1, <3>2, <4>1
      <4>3. was(<<mc, i>>) = z
        BY <3>1, <3>2, <4>1
      <4>4. QED
        BY <4>2, <4>3
    <3>3. CASE n # mc
      <4>1. z \in Pending(c)' /\ was(z) = z
        BY <1>5, <3>1, <3>3
      <4>2. QED
        BY <4>1
    <3>4. QED
      BY <3>2, <3>3
  <2> HIDE DEF was, rest
  <2>4. QED
    BY <2>1, <2>2, <2>3 DEF Bijection, Injection, Surjection, IsInjective
<1>8. /\ IsFiniteSet(rest)
      /\ Cardinality(rest) = IF x \in Pending(c) THEN Cardinality(Pending(c)) - 1
                                                 ELSE Cardinality(Pending(c))
  BY FS_RemoveElement
<1>9. x \in Pending(c) <=> Handled[1] = c
  <2>1. 1 \in 1..Len(Queue(mc))
    BY <1>1, EmptySeq
  <2>2. QED
    BY <1>1, <2>1, PendingPlace DEF FlowsOf
<1> HIDE DEF rest, b
<1>10. IsFiniteSet(Pending(c)') /\ Cardinality(Pending(c)') = Cardinality(rest)
  <2>1. Cardinality(rest) \in Nat /\ IsFiniteSet(Pending(c)')
    BY <1>7, <1>8, FS_CardinalityType, FS_Injection DEF Bijection
  <2>2. ExistsBijection(Pending(c)', rest)
    BY <1>7 DEF ExistsBijection
  <2>3. QED
    BY <2>1, <2>2, FS_Bijection
<1>11. QED
  BY <1>8, <1>9, <1>10

ConservedInv ==
  \A c \in Coflows :
    /\ IsFiniteSet(Made(c)) /\ IsFiniteSet(Pending(c))
    /\ Cardinality(Made(c)) = endflowNum[c] + Cardinality(Pending(c))

LEMMA ConservedNext == TypeInv /\ ConservedInv /\ [Next]_vars => ConservedInv'
<1> SUFFICES ASSUME TypeInv, ConservedInv, [Next]_vars, NEW c \in Coflows
             PROVE  /\ IsFiniteSet(Made(c)') /\ IsFiniteSet(Pending(c)')
                    /\ Cardinality(Made(c)') = endflowNum'[c] + Cardinality(Pending(c)')
  BY DEF ConservedInv
<1>0. /\ IsFiniteSet(Made(c)) /\ IsFiniteSet(Pending(c))
      /\ Cardinality(Made(c)) = endflowNum[c] + Cardinality(Pending(c))
      /\ Cardinality(Made(c)) \in Nat /\ Cardinality(Pending(c)) \in Nat
      /\ endflowNum \in [Coflows -> Nat]
  BY FS_CardinalityType DEF ConservedInv, TypeInv, TypeOK
<1>1. ASSUME NEW g \in Flows, ReportArrives(g)
      PROVE  /\ IsFiniteSet(Made(c)') /\ IsFiniteSet(Pending(c)')
             /\ Cardinality(Made(c)') = endflowNum'[c] + Cardinality(Pending(c)')
  <2>1. endflowNum' = endflowNum
    BY <1>1 DEF ReportArrives, endVars
  <2>2. CASE g[1] = c
    <3>1. \E x, y : /\ Made(c)' = Made(c) \cup {x} /\ x \notin Made(c)
                    /\ Pending(c)' = Pending(c) \cup {y} /\ y \notin Pending(c)
      BY <1>1, <2>2, ArrivalAdds
    <3>2. PICK x, y : /\ Made(c)' = Made(c) \cup {x} /\ x \notin Made(c)
                      /\ Pending(c)' = Pending(c) \cup {y} /\ y \notin Pending(c)
      BY <3>1
    <3>3. /\ IsFiniteSet(Made(c)') /\ Cardinality(Made(c)') = Cardinality(Made(c)) + 1
          /\ IsFiniteSet(Pending(c)') /\ Cardinality(Pending(c)') = Cardinality(Pending(c)) + 1
      BY <1>0, <3>2, FS_AddElement
    <3>4. endflowNum'[c] = endflowNum[c] /\ endflowNum[c] \in Nat
      BY <1>0, <2>1
    <3>5. QED
      BY <1>0, <3>3, <3>4
  <2>3. CASE g[1] # c
    BY <1>0, <1>1, <2>1, <2>3, ArrivalAdds
  <2>4. QED
    BY <2>2, <2>3
<1>2. CASE HandleReport
  <2>1. Made(c)' = Made(c)
    BY <1>2, HandledQueued DEF Made, FlowsOf
  <2>2. endflowNum' = [endflowNum EXCEPT ![Handled[1]] = @ + 1]
    BY <1>2, HandledQueued
  <2>3. endflowNum'[c] = (IF Handled[1] = c THEN endflowNum[c] + 1 ELSE endflowNum[c])
          /\ endflowNum[c] \in Nat
    BY <1>0, <2>2
  <2>4. /\ IsFiniteSet(Pending(c)')
        /\ Cardinality(Pending(c)') =
             IF Handled[1] = c THEN Cardinality(Pending(c)) - 1 ELSE Cardinality(Pending(c))
    BY <1>0, <1>2, HandlingTakes
  <2>5. QED
    BY <1>0, <2>1, <2>3, <2>4
<1>3. CASE PollMachine \/ OtherStep
  <2>1. /\ \A m \in Machines : Queue(m)' = Queue(m)
        /\ UNCHANGED <<reported, endflowNum>>
    BY <1>3, QueueKept, OtherKeeps DEF PollMachine, endVars
  <2>2. Made(c)' = Made(c) /\ Pending(c)' = Pending(c)
    BY <2>1 DEF Made, Pending, FlowsOf
  <2>3. QED
    BY <1>0, <2>1, <2>2
<1>4. QED
  BY <1>1, <1>2, <1>3, StepCases

LEMMA ConservedInit == Init => ConservedInv
<1> SUFFICES ASSUME Init, NEW c \in Coflows
             PROVE  /\ IsFiniteSet(Made(c)) /\ IsFiniteSet(Pending(c))
                    /\ Cardinality(Made(c)) = endflowNum[c] + Cardinality(Pending(c))
  BY DEF ConservedInv
<1>1. Made(c) = {}
  BY DEF Init, Made, FlowsOf
<1>2. Pending(c) = {}
  <2>1. \A m \in Machines : Len(Queue(m)) = 0
    BY DEF Init, Queue
  <2>2. QED
    BY <2>1 DEF Pending
<1>3. endflowNum[c] = 0
  BY DEF Init
<1>4. QED
  BY <1>1, <1>2, <1>3, FS_EmptySet

\* For every trace and however the clients report, each report that reached the
\* master was counted for its coflow or is still queued, once.
THEOREM ReportsConservedCorrect == Spec => []ReportsConserved
<1>1. TypeInv /\ ConservedInv /\ [Next]_vars => TypeInv' /\ ConservedInv'
  BY TypeNext, ConservedNext
<1>2. Init => TypeInv /\ ConservedInv
  BY TypeInit, ConservedInit
<1>3. ConservedInv => ReportsConserved
  BY DEF ConservedInv, ReportsConserved
<1>4. QED
  BY <1>1, <1>2, <1>3, PTL DEF Spec
=============================================================================
