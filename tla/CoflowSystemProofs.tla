------------------------- MODULE CoflowSystemProofs --------------------------
(***************************************************************************)
(* Safety of CoflowSystem for every number of clients and flows, whoever   *)
(* sends to whom, and for pools of any sizes.                              *)
(***************************************************************************)
EXTENDS CoflowSystem, FiniteSetTheorems, TLAPS

-----------------------------------------------------------------------------
(* Lemmas *)

LEMMA AppendAt ==
  ASSUME NEW D, NEW S, NEW F \in [D -> Seq(S)], NEW d \in D, NEW x \in S
  PROVE  [F EXCEPT ![d] = Append(@, x)] \in [D -> Seq(S)]
<1>1. Append(F[d], x) \in Seq(S)
  OBVIOUS
<1>2. QED
  BY <1>1

LEMMA TailAt ==
  ASSUME NEW D, NEW S, NEW F \in [D -> Seq(S)], NEW d \in D, F[d] # <<>>
  PROVE  /\ Head(F[d]) \in S
         /\ [F EXCEPT ![d] = Tail(@)] \in [D -> Seq(S)]
<1>1. F[d] \in Seq(S)
  OBVIOUS
<1>2. Head(F[d]) \in S /\ Tail(F[d]) \in Seq(S)
  BY <1>1
<1>3. QED
  BY <1>2

\* What a sequence of arrivals begins with does not change with later ones.
LEMMA FirstStays ==
  ASSUME NEW S, NEW s \in Seq(S), NEW x \in S
  PROVE  /\ Append(s, x) # <<>>
         /\ s # <<>> => Append(s, x)[1] = s[1]
         /\ s = <<>> => Append(s, x)[1] = x
  OBVIOUS

LEMMA JobTypes ==
  /\ RecvManager \in Jobs /\ SendManager \in Jobs
  /\ \A f \in Flows : Sender(f) \in Jobs /\ ReceFile(f) \in Jobs
  BY DEF RecvManager, SendManager, Sender, ReceFile, Jobs

\* A client's pool: finitely many jobs, no more than its threads.
PoolOK(P, n) == IsFiniteSet(P) /\ (n > 0 => Cardinality(P) <= n)

\* A pool below its limit can take a job, and any pool can give one back.
LEMMA OneJob ==
  ASSUME NEW P, NEW x, NEW n \in Nat, PoolOK(P, n)
  PROVE  /\ ~(n > 0 /\ Cardinality(P) >= n) => PoolOK(P \cup {x}, n)
         /\ PoolOK(P \ {x}, n)
<1>1. Cardinality(P) \in Nat
  BY FS_CardinalityType DEF PoolOK
<1>2. /\ IsFiniteSet(P \cup {x})
      /\ Cardinality(P \cup {x}) = IF x \in P THEN Cardinality(P) ELSE Cardinality(P) + 1
  BY FS_AddElement DEF PoolOK
<1>3. /\ IsFiniteSet(P \ {x})
      /\ Cardinality(P \ {x}) = IF x \in P THEN Cardinality(P) - 1 ELSE Cardinality(P)
  BY FS_RemoveElement DEF PoolOK
<1>4. QED
  BY <1>1, <1>2, <1>3 DEF PoolOK

-----------------------------------------------------------------------------
(* Types *)

\* The number of a pool's jobs can be counted on only if they are finitely many.
PoolsOK == \A c \in Clients : PoolOK(running[c], threads[c])

TypeInv == TypeOK /\ PoolsOK

LEMMA TypeInit == Init => TypeInv
<1> SUFFICES ASSUME Init PROVE TypeInv
  OBVIOUS
<1>1. IsFiniteSet({}) /\ Cardinality({}) = 0
  BY FS_EmptySet
<1>2. \A c \in Clients : threads[c] \in Nat /\ running[c] = {}
  BY SystemAssumption DEF Init
<1>3. \A c \in Clients : threads[c] > 0 => Cardinality(running[c]) <= threads[c]
  BY <1>1, <1>2
<1>4. PoolsOK
  BY <1>1, <1>2, <1>3 DEF PoolsOK, PoolOK
<1>5. <<>> \in Seq({Master} \cup Flows) /\ <<>> \in Seq(Flows) /\ <<>> \in Seq(Jobs)
  OBVIOUS
<1>6. 1 \in 1..NumClients + 1 /\ 0 \in 0..NumFlows
  BY SystemAssumption
<1>7. QED
  BY <1>3, <1>4, <1>5, <1>6 DEF Init, TypeInv, TypeOK

ListenOK == /\ arrivals \in [Clients -> Seq({Master} \cup Flows)]
            /\ accepted \in [Clients -> Nat]
            /\ edge \in [Clients -> BOOLEAN]

LEMMA ArriveTypes ==
  ASSUME TypeOK, NEW c \in Clients, NEW x \in {Master} \cup Flows, Arrive(c, x)
  PROVE  ListenOK'
<1>1. arrivals' \in [Clients -> Seq({Master} \cup Flows)]
  <2>1. arrivals \in [Clients -> Seq({Master} \cup Flows)]
    BY DEF TypeOK
  <2>2. [arrivals EXCEPT ![c] = Append(@, x)] \in [Clients -> Seq({Master} \cup Flows)]
    BY <2>1, AppendAt
  <2>3. QED
    BY <2>2 DEF Arrive
<1>2. edge' \in [Clients -> BOOLEAN]
  <2>1. edge[c] \in BOOLEAN /\ (arrivals[c] # <<>>) \in BOOLEAN
    BY DEF TypeOK
  <2>2. (edge[c] \/ arrivals[c] # <<>>) \in BOOLEAN
    BY <2>1
  <2>3. edge' = [edge EXCEPT ![c] = edge[c] \/ arrivals[c] # <<>>]
    BY DEF Arrive
  <2>4. QED
    BY <2>2, <2>3 DEF TypeOK
<1>3. QED
  BY <1>1, <1>2 DEF ListenOK, Arrive, TypeOK

\* What a client leaves when it dies is well formed.
LEMMA DeathTypes ==
  ASSUME TypeOK, PoolsOK, NEW c \in Clients, Dies(c), UNCHANGED threads
  PROVE  /\ client' \in [Clients -> {"off", "accept", "run", "dead"}]
         /\ tasks' \in [Clients -> Seq(Flows)]
         /\ sm' \in [Clients -> {"sem wait", "scan", "stuck"}]
         /\ queue' \in [Clients -> Seq(Jobs)]
         /\ running' \in [Clients -> SUBSET Jobs]
         /\ PoolsOK'
<1>1. PoolOK({}, threads[c])
  <2>1. IsFiniteSet({}) /\ Cardinality({}) = 0
    BY FS_EmptySet
  <2>2. threads[c] \in Nat
    BY SystemAssumption DEF TypeOK
  <2>3. QED
    BY <2>1, <2>2 DEF PoolOK
<1>2. <<>> \in Seq(Flows) /\ <<>> \in Seq(Jobs)
  OBVIOUS
<1>3. QED
  BY <1>1, <1>2 DEF Dies, PoolsOK, TypeOK

LEMMA TypeNext == TypeInv /\ [Next]_vars => TypeInv'
<1> SUFFICES ASSUME TypeOK, PoolsOK, [Next]_vars PROVE TypeOK' /\ PoolsOK'
  BY DEF TypeInv
<1>0. /\ \A c \in Clients : threads[c] \in Nat
      /\ \A f \in Flows : Source[f] \in Clients /\ Dest[f] \in Clients
      /\ next \in 1..NumClients + 1 /\ NumClients \in Nat
      /\ told \in 0..NumFlows /\ NumFlows \in Nat
      /\ arrivals \in [Clients -> Seq({Master} \cup Flows)]
      /\ tasks \in [Clients -> Seq(Flows)]
      /\ queue \in [Clients -> Seq(Jobs)]
  BY SystemAssumption DEF TypeOK
<1>1. CASE ConnectMachine
  <2>1. next \in Clients /\ next + 1 \in 1..NumClients + 1
    BY <1>0, <1>1 DEF ConnectMachine, Clients
  <2>2. Arrive(next, Master) => ListenOK'
    BY <2>1, ArriveTypes
  <2>3. ListenOK'
    BY <1>1, <2>2 DEF ConnectMachine, listenVars, ListenOK, TypeOK
  <2>4. link' \in [Clients -> {"none", "open", "refused"}]
    BY <1>1 DEF ConnectMachine, TypeOK
  <2>5. QED
    BY <1>1, <2>1, <2>3, <2>4 DEF ConnectMachine, ListenOK, poolVars, listenVars, flowVars, replyVars, PoolsOK, TypeOK
<1>2. CASE StartScheduler
  BY <1>2 DEF StartScheduler, poolVars, listenVars, flowVars, replyVars, PoolsOK, TypeOK
<1>3. CASE SendInstruction
  <2>1. told + 1 \in Flows /\ told + 1 \in 0..NumFlows
    BY <1>0, <1>3 DEF SendInstruction, Flows
  <2>2. [tasks EXCEPT ![Source[told + 1]] = Append(@, told + 1)] \in [Clients -> Seq(Flows)]
    BY <1>0, <2>1, AppendAt
  <2>3. tasks' \in [Clients -> Seq(Flows)]
    BY <1>3, <2>2 DEF SendInstruction, TypeOK
  <2>4. QED
    BY <1>3, <2>1, <2>3 DEF SendInstruction, poolVars, listenVars, flowVars, replyVars, PoolsOK, TypeOK
<1>4. CASE SendToNobody
  <2>1. told + 1 \in 0..NumFlows
    BY <1>0, <1>4 DEF SendToNobody
  <2>2. master' \in {"connect", "send", "gone"} /\ told' = told + 1
    BY <1>4 DEF SendToNobody, TypeOK
  <2>3. QED
    BY <1>4, <2>1, <2>2 DEF SendToNobody, poolVars, listenVars, flowVars, replyVars, PoolsOK, TypeOK
<1>5. ASSUME NEW c \in Clients, StartClient(c) PROVE TypeOK' /\ PoolsOK'
  BY <1>5 DEF StartClient, masterVars, poolVars, listenVars, flowVars, replyVars, PoolsOK, TypeOK
<1>6. ASSUME NEW c \in Clients, AcceptMaster(c) PROVE TypeOK' /\ PoolsOK'
  <2>1. <<RecvManager, SendManager>> \in Seq(Jobs)
    BY JobTypes
  <2>2. queue' \in [Clients -> Seq(Jobs)] /\ client' \in [Clients -> {"off", "accept", "run", "dead"}]
    BY <1>6, <2>1 DEF AcceptMaster, TypeOK
  <2>3. QED
    BY <1>6, <2>2 DEF AcceptMaster, masterVars, listenVars, flowVars, replyVars, PoolsOK, TypeOK
<1>7. ASSUME NEW c \in Clients, StartJob(c) PROVE TypeOK' /\ PoolsOK'
  <2>1. Head(queue[c]) \in Jobs /\ queue' \in [Clients -> Seq(Jobs)]
    BY <1>7, <1>0, TailAt DEF StartJob
  <2>2. running' \in [Clients -> SUBSET Jobs]
    BY <1>7, <2>1 DEF StartJob, TypeOK
  <2>3. PoolOK(running[c] \cup {Head(queue[c])}, threads[c])
    BY <1>0, <1>7, OneJob DEF StartJob, ThreadLimit, PoolsOK, TypeOK
  <2>4. PoolsOK'
    BY <1>7, <2>3 DEF StartJob, PoolsOK, TypeOK
  <2>5. QED
    BY <1>7, <2>1, <2>2, <2>4 DEF StartJob, masterVars, listenVars, flowVars, replyVars, PoolsOK, PoolOK, TypeOK
<1>8. ASSUME NEW c \in Clients, PopTask(c) PROVE TypeOK' /\ PoolsOK'
  <2> DEFINE f == Head(tasks[c])
  <2>1. f \in Flows /\ tasks' \in [Clients -> Seq(Flows)]
    BY <1>8, <1>0, TailAt DEF PopTask
  <2>2. Dest[f] \in Clients /\ f \in {Master} \cup Flows
    BY <1>0, <2>1
  <2>3. Arrive(Dest[f], f) => ListenOK'
    BY <2>2, ArriveTypes
  <2>4. [queue EXCEPT ![c] = Append(@, Sender(f))] \in [Clients -> Seq(Jobs)]
    BY <1>0, <2>1, JobTypes, AppendAt
  <2>5. conn' \in [Flows -> {"none", "open", "refused", "closed", "stale"}]
    BY <1>8, <2>1 DEF PopTask, TypeOK
  <2>6. /\ queue' \in [Clients -> Seq(Jobs)]
        /\ sm' \in [Clients -> {"sem wait", "scan", "stuck"}]
    BY <1>8, <2>4 DEF PopTask, TypeOK
  <2>7. ListenOK'
    BY <1>8, <2>3 DEF PopTask, listenVars, ListenOK, TypeOK
  <2>8. QED
    BY <1>8, <2>1, <2>5, <2>6, <2>7 DEF PopTask, ListenOK, masterVars, replyVars, PoolsOK, TypeOK
<1>9. ASSUME NEW c \in Clients, Scan(c) PROVE TypeOK' /\ PoolsOK'
  <2>1. PICK sent \in SUBSET Unreported(c) :
          /\ reported' = reported \cup sent
          /\ \/ /\ sm' = [sm EXCEPT ![c] = "sem wait"]
                /\ freed' = freed \cup sent
                /\ UNCHANGED <<client, tasks, queue, running>>
             \/ /\ sm' = [sm EXCEPT ![c] = "stuck"]
                /\ UNCHANGED <<client, tasks, queue, running, freed>>
             \/ Dies(c) /\ UNCHANGED freed
    BY <1>9 DEF Scan
  <2>2. UNCHANGED <<masterVars, listenVars, threads, handed, conn, ended>>
    BY <1>9 DEF Scan
  <2>3. reported' \in SUBSET ended /\ freed' \in SUBSET reported'
    BY <2>1 DEF Unreported, TypeOK
  <2>4. /\ client' \in [Clients -> {"off", "accept", "run", "dead"}]
        /\ tasks' \in [Clients -> Seq(Flows)]
        /\ sm' \in [Clients -> {"sem wait", "scan", "stuck"}]
        /\ queue' \in [Clients -> Seq(Jobs)]
        /\ running' \in [Clients -> SUBSET Jobs]
        /\ PoolsOK'
    <3>1. CASE Dies(c)
      BY <2>2, <3>1, DeathTypes
    <3>2. CASE ~Dies(c)
      BY <2>1, <2>2, <3>2 DEF PoolsOK, TypeOK
    <3>3. QED
      BY <3>1, <3>2
  <2>5. QED
    BY <2>2, <2>3, <2>4 DEF masterVars, listenVars, PoolsOK, PoolOK, TypeOK
<1>10. ASSUME NEW c \in Clients, AcceptData(c) PROVE TypeOK' /\ PoolsOK'
  <2>1. PICK f \in Flows \ handed :
          /\ handed' = handed \cup {f}
          /\ queue' = [queue EXCEPT ![c] = Append(@, ReceFile(f))]
    BY <1>10 DEF AcceptData
  <2>2. queue' \in [Clients -> Seq(Jobs)]
    BY <1>0, <2>1, JobTypes, AppendAt
  <2>3. QED
    BY <1>10, <2>1, <2>2 DEF AcceptData, masterVars, listenVars, replyVars, PoolsOK, TypeOK
<1>11. ASSUME NEW f \in Flows, EndSender(f) PROVE TypeOK' /\ PoolsOK'
  BY <1>11 DEF EndSender, masterVars, listenVars, poolVars, replyVars, PoolsOK, TypeOK
<1>12. ASSUME NEW f \in Flows, SenderFails(f) PROVE TypeOK' /\ PoolsOK'
  <2>1. Dies(Source[f]) /\ UNCHANGED <<masterVars, listenVars, threads, flowVars>>
    BY <1>12 DEF SenderFails
  <2>2. QED
    BY <1>0, <2>1, DeathTypes DEF masterVars, listenVars, flowVars, replyVars, PoolsOK, PoolOK, TypeOK
<1>13. ASSUME NEW f \in Flows, EndReceFile(f) PROVE TypeOK' /\ PoolsOK'
  <2>1. PoolOK(running[Dest[f]] \ {ReceFile(f)}, threads[Dest[f]])
    BY <1>0, OneJob DEF PoolsOK, TypeOK
  <2>2. PoolsOK' /\ running' \in [Clients -> SUBSET Jobs]
    BY <1>0, <1>13, <2>1 DEF EndReceFile, PoolsOK, TypeOK
  <2>3. QED
    BY <1>13, <2>2 DEF EndReceFile, masterVars, listenVars, flowVars, replyVars, PoolsOK, PoolOK, TypeOK
<1>14. CASE SchedulerEnds
  BY <1>14 DEF SchedulerEnds, listenVars, poolVars, flowVars, replyVars, PoolsOK, TypeOK
<1>15. CASE ParserCrashes
  BY <1>15 DEF ParserCrashes, listenVars, poolVars, flowVars, replyVars, PoolsOK, TypeOK
<1>16. ASSUME NEW c \in Clients, AcceptConn(c) PROVE TypeOK' /\ PoolsOK'
  <2>1. accepted' \in [Clients -> Nat] /\ edge' \in [Clients -> BOOLEAN]
    <3>1. accepted \in [Clients -> Nat] /\ edge \in [Clients -> BOOLEAN]
      BY DEF TypeOK
    <3>2. /\ accepted' = [accepted EXCEPT ![c] = accepted[c] + 1]
          /\ edge' = [edge EXCEPT ![c] = FALSE]
      BY <1>16 DEF AcceptConn
    <3>3. accepted[c] + 1 \in Nat
      BY <3>1
    <3>4. QED
      BY <3>1, <3>2, <3>3
  <2>2. QED
    BY <1>16, <2>1 DEF AcceptConn, masterVars, poolVars, flowVars, replyVars, PoolsOK, TypeOK
<1>17. ASSUME NEW f \in Flows, CloseSocket(f) PROVE TypeOK' /\ PoolsOK'
  <2>1. PoolOK(running[Source[f]] \ {Sender(f)}, threads[Source[f]])
    BY <1>0, OneJob DEF PoolsOK, TypeOK
  <2>2. PoolsOK' /\ running' \in [Clients -> SUBSET Jobs]
    BY <1>0, <1>17, <2>1 DEF CloseSocket, PoolsOK, TypeOK
  <2>3. conn' \in [Flows -> {"none", "open", "refused", "closed", "stale"}]
    BY <1>17 DEF CloseSocket, TypeOK
  <2>4. QED
    BY <1>17, <2>2, <2>3 DEF CloseSocket, masterVars, listenVars, replyVars, PoolsOK, PoolOK, TypeOK
<1>18. CASE UNCHANGED vars
  BY <1>18 DEF vars, masterVars, poolVars, listenVars, flowVars, replyVars, PoolsOK, TypeOK
<1>19. QED
  BY <1>1, <1>2, <1>3, <1>4, <1>5, <1>6, <1>7, <1>8, <1>9, <1>10, <1>11, <1>12,
     <1>13, <1>14, <1>15, <1>16, <1>17, <1>18
     DEF Next, MasterStep, ManagerStep, FlowStep, SenderEnds, ReadAsMaster,
         ReceFileEnds, ReceFileFails, TypeOK

\* The types hold in every state; a pool never has more running jobs than
\* threads.
THEOREM TypeCorrect == Spec => []TypeOK
<1>1. TypeInv => TypeOK
  BY DEF TypeInv
<1>2. QED
  BY <1>1, TypeInit, TypeNext, PTL DEF Spec

-----------------------------------------------------------------------------
(* Who is taken for the master, and what a process dies of *)

\* The master connects in order, and until it has tried every client nothing
\* was told to anybody, so no client has connected to another.
ConnectInv ==
  /\ \A c \in Clients : link[c] = "none" <=> c >= next
  /\ master # "connect" => next = NumClients + 1
  /\ master = "connect" => \A c \in Clients : /\ tasks[c] = <<>>
                                              /\ link[c] = "none" => arrivals[c] = <<>>

\* A client that the master reached was started and has the master first.
ReachedInv ==
  \A c \in Clients :
    /\ link[c] = "open" => /\ client[c] # "off"
                           /\ arrivals[c] # <<>> /\ arrivals[c][1] = Master
    /\ client[c] = "run" => arrivals[c] # <<>>

\* Some flow was reported, or the master missed a client.
Begun == reported # {} \/ \E c \in Clients : link[c] = "refused"

\* Whatever leads to a death goes back to a report or to a missed client: also a
\* refused connection, and a socket that another flow's Sender closed.
MissedInv ==
  (\/ master = "gone"
   \/ \E c \in Clients : client[c] = "dead"
   \/ \E f \in Flows : conn[f] \in {"refused", "stale"}) => Begun

StartupInv == TypeInv /\ ConnectInv /\ ReachedInv /\ MissedInv

LEMMA StartupInit == Init => StartupInv
<1> SUFFICES ASSUME Init PROVE StartupInv
  OBVIOUS
<1>1. TypeInv
  BY TypeInit
<1>2. \A c \in Clients : c >= 1
  BY SystemAssumption DEF Clients
<1>3. QED
  BY <1>1, <1>2 DEF Init, StartupInv, ConnectInv, ReachedInv, MissedInv

\* The first arrival of a client that has one stays, whoever comes next.
LEMMA ArrivalsGrow ==
  ASSUME TypeOK, NEW d \in Clients, NEW x \in {Master} \cup Flows,
         Arrive(d, x)
  PROVE  /\ \A c \in Clients : arrivals[c] # <<>> =>
              arrivals'[c] # <<>> /\ arrivals'[c][1] = arrivals[c][1]
         /\ arrivals'[d] # <<>>
         /\ arrivals[d] = <<>> => arrivals'[d][1] = x
         /\ \A c \in Clients : c # d => arrivals'[c] = arrivals[c]
<1>1. arrivals \in [Clients -> Seq({Master} \cup Flows)]
  BY DEF TypeOK
<1>2. arrivals[d] \in Seq({Master} \cup Flows) /\ arrivals'[d] = Append(arrivals[d], x)
  BY <1>1 DEF Arrive
<1>3. \A c \in Clients : c # d => arrivals'[c] = arrivals[c]
  BY <1>1 DEF Arrive
<1>4. /\ arrivals'[d] # <<>>
      /\ arrivals[d] # <<>> => arrivals'[d][1] = arrivals[d][1]
      /\ arrivals[d] = <<>> => arrivals'[d][1] = x
  BY <1>2, FirstStays
<1>5. QED
  BY <1>3, <1>4

LEMMA StartupNext == StartupInv /\ [Next]_vars => StartupInv'
<1> SUFFICES ASSUME TypeInv, ConnectInv, ReachedInv, MissedInv, [Next]_vars
             PROVE  ConnectInv' /\ ReachedInv' /\ MissedInv'
  BY TypeNext DEF StartupInv
<1>0. /\ TypeOK
      /\ next \in 1..NumClients + 1 /\ NumClients \in Nat /\ Clients = 1..NumClients
      /\ link \in [Clients -> {"none", "open", "refused"}]
      /\ client \in [Clients -> {"off", "accept", "run", "dead"}]
      /\ tasks \in [Clients -> Seq(Flows)]
      /\ conn \in [Flows -> {"none", "open", "refused", "closed", "stale"}]
      /\ \A f \in Flows : Source[f] \in Clients /\ Dest[f] \in Clients
      /\ freed \subseteq reported
  BY SystemAssumption DEF TypeInv, TypeOK, Clients
<1>1. CASE ConnectMachine
  <2>1. /\ master = "connect" /\ next \in Clients /\ link[next] = "none"
        /\ arrivals[next] = <<>> /\ next' = next + 1
        /\ UNCHANGED <<master, tasks, client, conn, reported>>
    BY <1>0, <1>1 DEF ConnectMachine, ConnectInv, flowVars, replyVars
  <2>2. CASE Listens(next)
    <3>1. /\ link' = [link EXCEPT ![next] = "open"]
          /\ Arrive(next, Master)
      BY <1>1, <2>2 DEF ConnectMachine
    <3>2. /\ \A c \in Clients : c # next => arrivals'[c] = arrivals[c]
          /\ arrivals'[next] # <<>> /\ arrivals'[next][1] = Master
      BY <1>0, <2>1, <3>1, ArrivalsGrow
    <3>3. ConnectInv'
      BY <1>0, <2>1, <3>1, <3>2 DEF ConnectInv
    <3>4. ReachedInv'
      <4> SUFFICES ASSUME NEW c \in Clients
                   PROVE  /\ link'[c] = "open" => /\ client'[c] # "off"
                                                 /\ arrivals'[c] # <<>> /\ arrivals'[c][1] = Master
                          /\ client'[c] = "run" => arrivals'[c] # <<>>
        BY DEF ReachedInv
      <4>1. CASE c = next
        BY <2>1, <2>2, <3>2, <4>1 DEF Listens
      <4>2. CASE c # next
        <5>1. link'[c] = link[c] /\ arrivals'[c] = arrivals[c] /\ client' = client
          BY <1>0, <2>1, <3>1, <3>2, <4>2
        <5>2. QED
          BY <5>1 DEF ReachedInv
      <4>3. QED
        BY <4>1, <4>2
    <3>5. MissedInv'
      BY <1>0, <2>1, <3>1 DEF MissedInv, Begun
    <3>6. QED
      BY <3>3, <3>4, <3>5
  <2>3. CASE ~Listens(next)
    <3>1. link' = [link EXCEPT ![next] = "refused"] /\ UNCHANGED arrivals
      BY <1>1, <2>3 DEF ConnectMachine, listenVars
    <3>2. ConnectInv'
      BY <1>0, <2>1, <3>1 DEF ConnectInv
    <3>3. ReachedInv' /\ MissedInv'
      BY <1>0, <2>1, <3>1 DEF ReachedInv, MissedInv, Begun
    <3>4. QED
      BY <3>2, <3>3
  <2>4. QED
    BY <2>2, <2>3
<1>2. CASE StartScheduler
  <2>1. next = NumClients + 1 /\ master' = "send"
    BY <1>0, <1>2 DEF StartScheduler, AllConnected
  <2>2. QED
    BY <1>2, <2>1 DEF StartScheduler, listenVars, flowVars, replyVars, ConnectInv, ReachedInv, MissedInv, Begun
<1>3. CASE SendInstruction
  BY <1>3 DEF SendInstruction, listenVars, flowVars, replyVars, ConnectInv, ReachedInv, MissedInv, Begun
<1>4. CASE SendToNobody
  <2>1. /\ master = "send" /\ master' \in {"send", "gone"}
        /\ UNCHANGED <<next, link, client, arrivals, tasks, conn, reported>>
    BY <1>4 DEF SendToNobody, listenVars, flowVars, replyVars
  <2>2. told + 1 \in Flows
    <3>1. told \in 0..NumFlows /\ told < NumFlows
      BY <1>4 DEF SendToNobody, TypeInv, TypeOK
    <3>2. QED
      BY <3>1, SystemAssumption DEF Flows
  <2>3. \E c \in Clients : link[c] = "refused" \/ client[c] = "dead"
    BY <1>0, <1>4, <2>2 DEF SendToNobody
  <2>4. QED
    BY <2>1, <2>3 DEF ConnectInv, ReachedInv, MissedInv, Begun
<1>5. ASSUME NEW c \in Clients, StartClient(c) PROVE ConnectInv' /\ ReachedInv' /\ MissedInv'
  BY <1>0, <1>5 DEF StartClient, masterVars, listenVars, flowVars, replyVars, ConnectInv, ReachedInv, MissedInv, Begun
<1>6. ASSUME NEW c \in Clients, AcceptMaster(c) PROVE ConnectInv' /\ ReachedInv' /\ MissedInv'
  BY <1>0, <1>6 DEF AcceptMaster, masterVars, listenVars, flowVars, replyVars, ConnectInv, ReachedInv, MissedInv, Begun
<1>7. ASSUME NEW c \in Clients, StartJob(c) PROVE ConnectInv' /\ ReachedInv' /\ MissedInv'
  BY <1>7 DEF StartJob, masterVars, listenVars, flowVars, replyVars, ConnectInv, ReachedInv, MissedInv, Begun
<1>8. ASSUME NEW c \in Clients, PopTask(c) PROVE ConnectInv' /\ ReachedInv' /\ MissedInv'
  <2> DEFINE f == Head(tasks[c])
             d == Dest[f]
  <2>1. f \in Flows /\ d \in Clients
    <3>1. tasks[c] # <<>>
      BY <1>8 DEF PopTask
    <3>2. tasks \in [Clients -> Seq(Flows)]
      BY <1>0
    <3>3. f \in Flows
      BY <3>1, <3>2, TailAt, Zenon
    <3>4. Dest \in [Flows -> Clients]
      BY SystemAssumption
    <3>5. QED
      BY <3>3, <3>4
  <2>2. master # "connect" /\ UNCHANGED <<master, next, link, client, reported>>
    BY <1>8 DEF PopTask, masterVars, replyVars, ConnectInv
  <2>3. \A e \in Clients : link[e] # "none"
    BY <1>0, <2>2 DEF ConnectInv
  <2>4. ConnectInv'
    BY <2>2 DEF ConnectInv
  <2>5. CASE Listens(d)
    <3>1. /\ Arrive(d, f)
          /\ conn' = [conn EXCEPT ![f] = "open"]
      BY <1>8, <2>5 DEF PopTask
    <3>2. TypeOK /\ f \in {Master} \cup Flows
      BY <1>0, <2>1
    <3>3. \A e \in Clients : arrivals[e] # <<>> =>
            arrivals'[e] # <<>> /\ arrivals'[e][1] = arrivals[e][1]
      BY <2>1, <3>1, <3>2, ArrivalsGrow, Zenon
    <3>4. ReachedInv'
      BY <2>2, <3>3 DEF ReachedInv
    <3>5. MissedInv'
      <4>1. \A g \in Flows : conn'[g] = conn[g] \/ conn'[g] = "open"
        BY <1>0, <2>1, <3>1
      <4>2. Begun' <=> Begun
        BY <2>2 DEF Begun
      <4>3. QED
        BY <2>2, <4>1, <4>2 DEF MissedInv
    <3>6. QED
      BY <2>4, <3>4, <3>5
  <2>6. CASE ~Listens(d)
    <3>1. UNCHANGED arrivals
      BY <1>8, <2>6 DEF PopTask, listenVars
    <3>2. ReachedInv'
      BY <2>2, <3>1 DEF ReachedInv
    \* The destination is off, so the master missed it, or dead.
    <3>3. link[d] = "refused" \/ client[d] = "dead"
      BY <1>0, <2>1, <2>3, <2>6 DEF Listens, ReachedInv
    <3>4. MissedInv'
      BY <2>1, <2>2, <3>3 DEF MissedInv, Begun
    <3>5. QED
      BY <2>4, <3>2, <3>4
  <2>7. QED
    BY <2>5, <2>6
<1>9. ASSUME NEW c \in Clients, Scan(c) PROVE ConnectInv' /\ ReachedInv' /\ MissedInv'
  <2>1. /\ UNCHANGED <<master, next, link, arrivals, conn>>
        /\ \A e \in Clients : /\ client'[e] = client[e] \/ client'[e] = "dead"
                              /\ tasks'[e] = tasks[e] \/ tasks'[e] = <<>>
        /\ client' # client => master = "gone"
        /\ reported \subseteq reported'
    BY <1>0, <1>9 DEF Scan, Dies, masterVars, listenVars
  <2>2. ConnectInv' /\ ReachedInv'
    BY <2>1 DEF ConnectInv, ReachedInv
  <2>3. MissedInv'
    BY <2>1 DEF MissedInv, Begun
  <2>4. QED
    BY <2>2, <2>3
<1>10. ASSUME NEW c \in Clients, AcceptData(c) PROVE ConnectInv' /\ ReachedInv' /\ MissedInv'
  BY <1>10 DEF AcceptData, masterVars, listenVars, replyVars, ConnectInv, ReachedInv, MissedInv, Begun
<1>11. ASSUME NEW f \in Flows, EndSender(f) PROVE ConnectInv' /\ ReachedInv' /\ MissedInv'
  BY <1>11 DEF EndSender, masterVars, listenVars, replyVars, ConnectInv, ReachedInv, MissedInv, Begun
<1>12. ASSUME NEW f \in Flows, SenderFails(f) PROVE ConnectInv' /\ ReachedInv' /\ MissedInv'
  <2>1. Begun
    BY <1>0, <1>12 DEF SenderFails, SendErrs, MissedInv
  <2>2. /\ UNCHANGED <<master, next, link, arrivals, conn, reported>>
        /\ \A e \in Clients : /\ client'[e] = client[e] \/ client'[e] = "dead"
                              /\ tasks'[e] = tasks[e] \/ tasks'[e] = <<>>
    BY <1>0, <1>12 DEF SenderFails, Dies, masterVars, listenVars, flowVars, replyVars
  <2>3. ConnectInv' /\ ReachedInv'
    BY <2>2 DEF ConnectInv, ReachedInv
  <2>4. MissedInv'
    BY <2>1, <2>2 DEF MissedInv, Begun
  <2>5. QED
    BY <2>3, <2>4
<1>13. ASSUME NEW f \in Flows, EndReceFile(f) PROVE ConnectInv' /\ ReachedInv' /\ MissedInv'
  BY <1>13 DEF EndReceFile, masterVars, listenVars, flowVars, replyVars, ConnectInv, ReachedInv, MissedInv, Begun
<1>14. CASE SchedulerEnds
  <2>1. /\ master = "send" /\ reported # {}
        /\ UNCHANGED <<next, link, client, arrivals, tasks, conn, reported>>
    BY <1>14 DEF SchedulerEnds, listenVars, flowVars, replyVars
  <2>2. QED
    BY <1>14, <2>1 DEF SchedulerEnds, ConnectInv, ReachedInv, MissedInv, Begun
<1>15. CASE ParserCrashes
  <2>1. /\ master = "send" /\ reported # {}
        /\ UNCHANGED <<next, link, client, arrivals, tasks, conn, reported>>
    BY <1>15 DEF ParserCrashes, listenVars, flowVars, replyVars
  <2>2. QED
    BY <1>15, <2>1 DEF ParserCrashes, ConnectInv, ReachedInv, MissedInv, Begun
<1>16. ASSUME NEW c \in Clients, AcceptConn(c) PROVE ConnectInv' /\ ReachedInv' /\ MissedInv'
  BY <1>16 DEF AcceptConn, masterVars, flowVars, replyVars, ConnectInv, ReachedInv, MissedInv, Begun
<1>17. ASSUME NEW f \in Flows, CloseSocket(f) PROVE ConnectInv' /\ ReachedInv' /\ MissedInv'
  <2>1. /\ UNCHANGED <<masterVars, client, arrivals, tasks, reported>>
        /\ f \in Flows
    BY <1>17 DEF CloseSocket, listenVars, replyVars
  <2>2. ConnectInv' /\ ReachedInv'
    BY <2>1 DEF masterVars, ConnectInv, ReachedInv
  \* It closes another's socket only if it was freed, or its own was closed before.
  <2>3. ASSUME NEW g \in Flows, conn'[g] \in {"refused", "stale"} PROVE Begun
    <3>1. PICK closed \in MayClose(f) :
            conn' = [h \in Flows |-> IF h \notin closed THEN conn[h]
                                     ELSE IF h = f THEN "closed" ELSE "stale"]
      BY <1>17 DEF CloseSocket
    <3>2. CASE g \notin closed
      BY <2>3, <3>1, <3>2 DEF MissedInv
    <3>3. CASE g \in closed
      <4>1. g # f
        BY <2>3, <3>1, <3>3
      <4>2. f \in freed \/ conn[f] = "stale"
        BY <3>1, <3>3, <4>1 DEF MayClose
      <4>3. QED
        BY <1>0, <4>2 DEF MissedInv, Begun
    <3>4. QED
      BY <3>2, <3>3
  <2>4. MissedInv'
    BY <2>1, <2>3 DEF masterVars, MissedInv, Begun
  <2>5. QED
    BY <2>2, <2>4
<1>18. CASE UNCHANGED vars
  BY <1>18 DEF vars, masterVars, listenVars, flowVars, replyVars, ConnectInv, ReachedInv, MissedInv, Begun
<1>19. QED
  BY <1>1, <1>2, <1>3, <1>4, <1>5, <1>6, <1>7, <1>8, <1>9, <1>10, <1>11, <1>12,
     <1>13, <1>14, <1>15, <1>16, <1>17, <1>18
     DEF Next, MasterStep, ManagerStep, FlowStep, SenderEnds, ReadAsMaster,
         ReceFileEnds, ReceFileFails

LEMMA StartupCorrect == Spec => []StartupInv
  BY StartupInit, StartupNext, PTL DEF Spec

\* For any clients started in any order, what a client obeys is the master, or
\* the master had tried to connect to it before it was started.
THEOREM MasterIsMasterCorrect == Spec => []MasterIsMaster
<1>1. StartupInv => MasterIsMaster
  <2> SUFFICES ASSUME StartupInv, NEW c \in Clients,
                      client[c] = "run", arrivals[c][1] # Master
               PROVE  link[c] = "refused"
    BY DEF MasterIsMaster
  <2>1. /\ arrivals[c] # <<>> /\ link[c] # "open"
        /\ link[c] \in {"none", "open", "refused"}
    BY DEF StartupInv, TypeInv, TypeOK, ReachedInv
  <2>2. next \in 1..NumClients + 1
    BY DEF StartupInv, TypeInv, TypeOK
  <2>3. NumClients \in Nat /\ c \in 1..NumClients
    BY SystemAssumption DEF Clients
  <2>4. link[c] # "none"
    BY <2>1, <2>2, <2>3 DEF StartupInv, ConnectInv
  <2>5. QED
    BY <2>1, <2>4
<1>2. QED
  BY <1>1, StartupCorrect, PTL

\* However many clients and flows there are, before the first report no process
\* dies, and the Scheduler does not end, unless the master missed a client.
THEOREM DeathNeedsReportCorrect == Spec => []DeathNeedsReport
<1>1. StartupInv => DeathNeedsReport
  BY DEF StartupInv, MissedInv, Begun, DeathNeedsReport
<1>2. QED
  BY <1>1, StartupCorrect, PTL
=============================================================================
