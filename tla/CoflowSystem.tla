---------------------------- MODULE CoflowSystem -----------------------------
(***************************************************************************)
(* A master and its clients together: who connects to whom, and which      *)
(* threads wait for which.  The master connects to every client            *)
(* (MachineManager::startConn) and then sends one instruction for each     *)
(* flow (Scheduler::run).  A client takes the first connection it accepts  *)
(* for the master's (src/client/main.cpp), then starts a pool of threads   *)
(* whose first two jobs, the RecvManager and the SendManager, never end.   *)
(* The SendManager connects to the destination of each flow and gives the  *)
(* pool a Sender; the RecvManager gives it a ReceFile for each connection  *)
(* with data.  A Sender whose flow is larger than what the kernels buffer  *)
(* waits for its ReceFile to run, perhaps in the same client.              *)
(*                                                                         *)
(* Instructions and jobs are handled in order and not lost: when a channel *)
(* loses some is the subject of other modules.  Where a part can hold up   *)
(* or kill another process it is here too: the RecvManager that accepts    *)
(* once for each event, the full reply buffer, the Sender object that is   *)
(* freed too early and closes another's socket, the master's parser, and   *)
(* the Scheduler's end, which closes every client's connection.            *)
(***************************************************************************)
EXTENDS Naturals, Sequences, FiniteSets

CONSTANTS
  NumClients,     \* clients 1..NumClients, in the order of machine_define
  NumFlows,       \* flows 1..NumFlows, in the order the Scheduler sends them
  Source, Dest,   \* the client that sends a flow, the one that receives it
  Coflow,         \* the coflow that a flow belongs to
  Big,            \* the flows that do not fit the kernels' buffers
  PoolSizes       \* threads that a client's pool may have; 0 for no limit

Clients == 1..NumClients
Flows   == 1..NumFlows

ASSUME SystemAssumption ==
  /\ NumClients \in Nat \ {0}
  /\ NumFlows \in Nat
  /\ Source \in [Flows -> Clients] /\ Dest \in [Flows -> Clients]
  /\ Coflow \in [Flows -> Nat]
  /\ Big \subseteq Flows
  /\ PoolSizes \subseteq Nat /\ PoolSizes # {}

VARIABLES
  master, next,   \* the master's phase, "gone" once its connections are closed
                  \* by its end or its Scheduler's; the client it connects to next
  link,           \* its socket for each client
  told,           \* flows whose instruction it has sent: 1..told
  client,         \* the phase of each client
  arrivals,       \* connections that reached the client's listening socket
  accepted,       \* how many of them it has accepted
  edge,           \* epoll has an event of the listening socket to deliver
  tasks,          \* instructions at the client that the SendManager has not popped
  sm,             \* the SendManager's place
  threads,        \* max_thread_num of each pool, or the few more it may create
  queue, running, \* jobs of each pool that wait and that hold a thread
  handed,         \* connections that a RecvManager gave to its pool
  conn,           \* each flow's connection
  ended,          \* flows whose Sender has sent everything
  reported,       \* flows that a scan has found ended and reported
  freed           \* flows whose Sender object the SendManager has deleted

masterVars == <<master, next, link, told>>
listenVars == <<arrivals, accepted, edge>>
poolVars   == <<threads, queue, running>>
replyVars  == <<reported, freed>>
flowVars   == <<handed, conn, ended, replyVars>>
vars == <<masterVars, client, listenVars, tasks, sm, poolVars, flowVars>>

RecvManager == [job |-> "RecvManager", flow |-> 0]
SendManager == [job |-> "SendManager", flow |-> 0]
Sender(f)   == [job |-> "Sender", flow |-> f]
ReceFile(f) == [job |-> "ReceFile", flow |-> f]

Jobs == {RecvManager, SendManager} \cup [job : {"Sender", "ReceFile"}, flow : Flows]

Master == 0   \* as an element of arrivals; the others are flows

TypeOK ==
  /\ master \in {"connect", "send", "gone"}
  /\ next \in 1..NumClients + 1
  /\ link \in [Clients -> {"none", "open", "refused"}]
  /\ told \in 0..NumFlows
  /\ client \in [Clients -> {"off", "accept", "run", "dead"}]
  /\ arrivals \in [Clients -> Seq({Master} \cup Flows)]
  /\ accepted \in [Clients -> Nat]
  /\ edge \in [Clients -> BOOLEAN]
  /\ tasks \in [Clients -> Seq(Flows)]
  /\ sm \in [Clients -> {"sem wait", "scan", "stuck"}]
  /\ threads \in [Clients -> PoolSizes]
  /\ queue \in [Clients -> Seq(Jobs)]
  /\ running \in [Clients -> SUBSET Jobs]
  /\ \A c \in Clients : threads[c] > 0 => Cardinality(running[c]) <= threads[c]
  /\ handed \in SUBSET Flows
  /\ conn \in [Flows -> {"none", "open", "refused", "closed", "stale"}]
  /\ ended \in SUBSET Flows
  /\ reported \in SUBSET ended
  /\ freed \in SUBSET reported

Init ==
  /\ master = "connect" /\ next = 1
  /\ link = [c \in Clients |-> "none"]
  /\ told = 0
  /\ client = [c \in Clients |-> "off"]
  /\ arrivals = [c \in Clients |-> <<>>]
  /\ accepted = [c \in Clients |-> 0]
  /\ edge = [c \in Clients |-> FALSE]
  /\ tasks = [c \in Clients |-> <<>>]
  /\ sm = [c \in Clients |-> "sem wait"]
  /\ threads \in [Clients -> PoolSizes]
  /\ queue = [c \in Clients |-> <<>>]
  /\ running = [c \in Clients |-> {}]
  /\ handed = {}
  /\ conn = [f \in Flows |-> "none"]
  /\ ended = {} /\ reported = {} /\ freed = {}

Listens(c) == client[c] \in {"accept", "run"}

\* A client's threads and its memory go with it.
Dies(c) ==
  /\ client' = [client EXCEPT ![c] = "dead"]
  /\ tasks' = [tasks EXCEPT ![c] = <<>>]
  /\ sm' = [sm EXCEPT ![c] = "sem wait"]
  /\ queue' = [queue EXCEPT ![c] = <<>>]
  /\ running' = [running EXCEPT ![c] = {}]

\* A connection x reaches c.  Several may come for one event of epoll: none
\* comes for the first one, which main accepts before there is an epoll.
Arrive(c, x) ==
  /\ arrivals' = [arrivals EXCEPT ![c] = Append(@, x)]
  /\ edge' = [edge EXCEPT ![c] = @ \/ arrivals[c] # <<>>]
  /\ UNCHANGED accepted

-----------------------------------------------------------------------------
(* The master *)

\* createConnect of the next machine: a refused connection is printed, and the
\* socket is kept.
ConnectMachine ==
  /\ master = "connect"
  /\ next <= NumClients
  /\ IF Listens(next)
       THEN /\ link' = [link EXCEPT ![next] = "open"]
            /\ Arrive(next, Master)
       ELSE /\ link' = [link EXCEPT ![next] = "refused"]
            /\ UNCHANGED listenVars
  /\ next' = next + 1
  /\ UNCHANGED <<master, told, client, tasks, sm, poolVars, flowVars>>

\* Mutant: the Scheduler is started before the machines are connected to.
SomeConnected == next > 1

AllConnected == next > NumClients

StartScheduler ==
  /\ master = "connect"
  /\ AllConnected
  /\ master' = "send"
  /\ UNCHANGED <<next, link, told, client, listenVars, tasks, sm, poolVars, flowVars>>

\* sendTask to a client that lives.  Only the one that the client took for the
\* master is read as instructions.
SendInstruction ==
  /\ master = "send"
  /\ told < NumFlows
  /\ LET f == told + 1 IN
       /\ link[Source[f]] = "open" /\ Listens(Source[f])
       /\ tasks' = IF arrivals[Source[f]][1] = Master
                     THEN [tasks EXCEPT ![Source[f]] = Append(@, f)] ELSE tasks
  /\ told' = told + 1
  /\ UNCHANGED <<master, next, link, client, listenVars, sm, poolVars, flowVars>>

\* send() on a socket that is not connected raises SIGPIPE, which nothing
\* handles.  If the client died, one send may still be taken for good.
SendToNobody ==
  /\ master = "send"
  /\ told < NumFlows
  /\ LET c == Source[told + 1] IN
       \/ link[c] = "refused" /\ master' = "gone"
       \/ link[c] = "open" /\ client[c] = "dead" /\ master' \in {"send", "gone"}
  /\ told' = told + 1
  /\ UNCHANGED <<next, link, client, listenVars, tasks, sm, poolVars, flowVars>>

\* The last coflow is counted as ended, perhaps for reports that came twice, and
\* closeConn of every machine ends the Scheduler.
SchedulerEnds ==
  /\ master = "send"
  /\ told = NumFlows
  /\ reported # {} /\ \A f \in Flows : \E g \in reported : Coflow[g] = Coflow[f]
  /\ master' = "gone"
  /\ UNCHANGED <<next, link, told, client, listenVars, tasks, sm, poolVars, flowVars>>

\* Reports arrive, and the parser of them uses an index that was never set.
ParserCrashes ==
  /\ master = "send"
  /\ reported # {}
  /\ master' = "gone"
  /\ UNCHANGED <<next, link, told, client, listenVars, tasks, sm, poolVars, flowVars>>

-----------------------------------------------------------------------------
(* A client *)

\* The process starts and listens; then it waits in accept().
StartClient(c) ==
  /\ client[c] = "off"
  /\ client' = [client EXCEPT ![c] = "accept"]
  /\ UNCHANGED <<masterVars, listenVars, tasks, sm, poolVars, flowVars>>

\* The first connection is the master's, whoever made it.  The pool gets the
\* two managers.
AcceptMaster(c) ==
  /\ client[c] = "accept"
  /\ arrivals[c] # <<>>
  /\ client' = [client EXCEPT ![c] = "run"]
  /\ accepted' = [accepted EXCEPT ![c] = 1]
  /\ queue' = [queue EXCEPT ![c] = <<RecvManager, SendManager>>]
  /\ UNCHANGED <<masterVars, arrivals, edge, tasks, sm, threads, running, flowVars>>

TakenForMaster(f) == LET c == Dest[f] IN client[c] = "run" /\ arrivals[c][1] = f

\* Mutants: one thread more than the limit; 0 is a limit as any other.
PastLimit(c)   == threads[c] > 0 /\ Cardinality(running[c]) > threads[c]
ZeroIsLimit(c) == Cardinality(running[c]) >= threads[c]

ThreadLimit(c) == threads[c] > 0 /\ Cardinality(running[c]) >= threads[c]

\* A thread of the pool takes the first job.
StartJob(c) ==
  /\ client[c] = "run"
  /\ queue[c] # <<>>
  /\ ~ThreadLimit(c)
  /\ running' = [running EXCEPT ![c] = @ \cup {Head(queue[c])}]
  /\ queue' = [queue EXCEPT ![c] = Tail(@)]
  /\ UNCHANGED <<masterVars, client, listenVars, tasks, sm, threads, flowVars>>

\* SendManager::run pops a task, connects, and appends the Sender whether the
\* connection was made or refused.
PopTask(c) ==
  /\ client[c] = "run"
  /\ SendManager \in running[c] /\ sm[c] = "sem wait"
  /\ tasks[c] # <<>>
  /\ LET f == Head(tasks[c]) IN
       /\ IF Listens(Dest[f])
            THEN /\ conn' = [conn EXCEPT ![f] = "open"]
                 /\ Arrive(Dest[f], f)
            ELSE /\ conn' = [conn EXCEPT ![f] = "refused"]
                 /\ UNCHANGED listenVars
       /\ queue' = [queue EXCEPT ![c] = Append(@, Sender(f))]
  /\ tasks' = [tasks EXCEPT ![c] = Tail(@)]
  /\ sm' = [sm EXCEPT ![c] = "scan"]
  /\ UNCHANGED <<masterVars, client, threads, running, handed, ended, replyVars>>

\* A flow that ended and that no scan has found.
Unreported(c) == {f \in ended \ reported : Source[f] = c}

\* The scan reports what it finds ended, which leaves out any whose mark was
\* overwritten, and deletes their Senders.  A reply buffer that is full holds it
\* for ever at the first report that does not fit.  A report to a master that
\* closed the connection or died kills the client (SIGPIPE), or is one that the
\* kernel still takes.
Scan(c) ==
  /\ client[c] = "run"
  /\ sm[c] = "scan"
  /\ \E sent \in SUBSET Unreported(c) :
       /\ reported' = reported \cup sent
       /\ \/ /\ sm' = [sm EXCEPT ![c] = "sem wait"]
             /\ freed' = freed \cup sent
             /\ UNCHANGED <<client, tasks, queue, running>>
          \/ /\ sent # Unreported(c)
             /\ sm' = [sm EXCEPT ![c] = "stuck"]
             /\ UNCHANGED <<client, tasks, queue, running, freed>>
          \/ /\ sent # {} /\ master = "gone"
             /\ Dies(c)
             /\ UNCHANGED freed
  /\ UNCHANGED <<masterVars, listenVars, threads, handed, conn, ended>>

Sends(f) == client[Source[f]] = "run" /\ Sender(f) \in running[Source[f]]

Receives(f) == client[Dest[f]] = "run" /\ ReceFile(f) \in running[Dest[f]]

\* RecvManager::run accepts one connection for an event of the listening socket,
\* however many are there.
AcceptConn(c) ==
  /\ client[c] = "run"
  /\ RecvManager \in running[c]
  /\ edge[c]
  /\ edge' = [edge EXCEPT ![c] = FALSE]
  /\ accepted' = [accepted EXCEPT ![c] = @ + 1]
  /\ UNCHANGED <<masterVars, client, arrivals, tasks, sm, poolVars, flowVars>>

Accepted(f) == \E i \in 2..accepted[Dest[f]] : arrivals[Dest[f]][i] = f

\* A Sender that has gone without closing its socket leaves its data there.
HasData(f) == client[Source[f]] = "run"
              /\ (f \in ended \/ Sender(f) \in running[Source[f]])

\* RecvManager::run gives an accepted connection with data to the pool.  A flow
\* that is over before is taken for a closed connection.
AcceptData(c) ==
  /\ client[c] = "run"
  /\ RecvManager \in running[c]
  /\ \E f \in Flows \ handed :
       /\ Dest[f] = c /\ Accepted(f)
       /\ conn[f] = "open" /\ HasData(f)
       /\ handed' = handed \cup {f}
       /\ queue' = [queue EXCEPT ![c] = Append(@, ReceFile(f))]
  /\ UNCHANGED <<masterVars, client, listenVars, tasks, sm, threads, running,
                 conn, ended, replyVars>>

-----------------------------------------------------------------------------
(* Sender::run and ReceFile::run *)

\* The other connections that a client has a descriptor of.
OthersOpen(f) == {g \in Flows \ {f} : /\ conn[g] = "open"
                                      /\ \/ Source[g] = Source[f]
                                         \/ Dest[g] = Source[f] /\ Accepted(g)}

EndSender(f) ==
  /\ ended' = ended \cup {f}
  /\ UNCHANGED <<masterVars, client, listenVars, tasks, sm, poolVars, handed, conn,
                 replyVars>>

\* All the data is sent: a big flow's only while its ReceFile reads.  If another
\* closed its socket, what has its descriptor since may take the data.
SenderEnds(f) ==
  /\ Sends(f) /\ f \notin ended
  /\ \/ conn[f] = "open" /\ (f \in Big => Receives(f))
     \/ conn[f] = "stale" /\ OthersOpen(f) # {}
  /\ EndSender(f)

\* What the main thread of the destination reads of a Sender it takes for the
\* master is thrown away.
ReadAsMaster(f) ==
  /\ Sends(f) /\ f \notin ended /\ conn[f] = "open"
  /\ f \in Big /\ TakenForMaster(f)
  /\ EndSender(f)

\* The connections that close(sockfd) may close; none is the empty set.  A
\* Sender that was deleted reads any value left there, also another Sender's,
\* and a descriptor that another closed before may have been given away.
MayClose(f) ==
  IF f \in freed
    THEN {{}} \cup {{g} : g \in OthersOpen(f) \cup {f}}
    ELSE IF conn[f] = "stale" THEN {{}} \cup {{g} : g \in OthersOpen(f)} ELSE {{f}}

\* The close, and the job's end.
CloseSocket(f) ==
  /\ Sends(f) /\ f \in ended
  /\ \E closed \in MayClose(f) :
       conn' = [g \in Flows |-> IF g \notin closed THEN conn[g]
                                ELSE IF g = f THEN "closed" ELSE "stale"]
  /\ running' = [running EXCEPT ![Source[f]] = @ \ {Sender(f)}]
  /\ UNCHANGED <<masterVars, client, listenVars, tasks, sm, threads, queue, handed,
                 ended, replyVars>>

\* Mutant: the socket does not block, and a send that would is an error too.
SendErrsWhenFull(f) == conn[f] \in {"refused", "stale"} \/ client[Dest[f]] = "dead"
                       \/ (f \in Big /\ ~Receives(f))

SendErrs(f) == conn[f] \in {"refused", "stale"} \/ client[Dest[f]] = "dead"

\* exit(1), or SIGPIPE.
SenderFails(f) ==
  /\ Sends(f) /\ f \notin ended
  /\ SendErrs(f)
  /\ Dies(Source[f])
  /\ UNCHANGED <<masterVars, listenVars, threads, flowVars>>

StreamEnds(f) == conn[f] \in {"closed", "stale"} \/ client[Source[f]] = "dead"

EndReceFile(f) ==
  /\ Receives(f)
  /\ running' = [running EXCEPT ![Dest[f]] = @ \ {ReceFile(f)}]
  /\ UNCHANGED <<masterVars, client, listenVars, tasks, sm, threads, queue, flowVars>>

\* The ReceFile reads the end of the stream, or an error.
ReceFileEnds(f) ==
  /\ StreamEnds(f)
  /\ EndReceFile(f)

\* An object that was given a new connection while its last job was in closeConn
\* has no descriptor, and the job of the new connection ends at once.
ReceFileFails(f) ==
  /\ \E g \in handed \ {f} : Dest[g] = Dest[f] /\ StreamEnds(g)
  /\ EndReceFile(f)

-----------------------------------------------------------------------------

MasterStep  == ConnectMachine \/ StartScheduler \/ SendInstruction \/ SendToNobody
ManagerStep(c) == PopTask(c) \/ Scan(c)
FlowStep(f) == SenderEnds(f) \/ CloseSocket(f) \/ SenderFails(f) \/ ReceFileEnds(f)

Next ==
  \/ MasterStep \/ SchedulerEnds \/ ParserCrashes
  \/ \E c \in Clients : \/ StartClient(c) \/ AcceptMaster(c) \/ StartJob(c)
                        \/ ManagerStep(c) \/ AcceptConn(c) \/ AcceptData(c)
  \/ \E f \in Flows : FlowStep(f) \/ ReadAsMaster(f) \/ ReceFileFails(f)

Spec == Init /\ [][Next]_vars

\* Every process and thread that can go on does.  Nobody has to start a client,
\* and a Sender whose socket another closed may block on what has its descriptor.
FairSpec ==
  /\ Spec
  /\ WF_vars(MasterStep)
  /\ \A c \in Clients : /\ WF_vars(AcceptMaster(c) \/ StartJob(c))
                        /\ WF_vars(ManagerStep(c))
                        /\ WF_vars(AcceptConn(c) \/ AcceptData(c))
  /\ \A f \in Flows : WF_vars((conn[f] = "stale" => f \in ended) /\ FlowStep(f))

-----------------------------------------------------------------------------
(* Properties *)

\* A client obeys a Sender of another client only if it was started after the
\* master had tried to connect to it.
MasterIsMaster ==
  \A c \in Clients : client[c] = "run" /\ arrivals[c][1] # Master => link[c] = "refused"

\* Before the first report of a flow's end no process dies, unless a client was
\* started too late for the master, and the cascade begins with the connection
\* that createConnect lets be refused.  What else kills a process begins with a
\* report: it frees the Sender that then closes another's socket, it crashes the
\* master's parser, or it ends the Scheduler, which closes all the connections.
DeathNeedsReport ==
  (master = "gone" \/ \E c \in Clients : client[c] = "dead") =>
    reported # {} \/ \E c \in Clients : link[c] = "refused"

\* The instruction of f is with its client.
Waits(f) == \E i \in DOMAIN tasks[Source[f]] : tasks[Source[f]][i] = f

\* The connection of f was never closed: its Sender is gone, and no end of the
\* stream comes.
Leaked(f) == conn[f] = "open" /\ f \in ended /\ Sender(f) \notin running[Source[f]]

\* Each of the pool's threads is held by a job that waits for ever: a manager,
\* the Sender of a big flow with no ReceFile running, or the ReceFile of a
\* connection that is never closed.
Held(c) ==
  /\ threads[c] > 0 /\ Cardinality(running[c]) = threads[c]
  /\ \A f \in Flows :
       /\ ReceFile(f) \in running[c] => Leaked(f)
       /\ Sender(f) \in running[c] => f \in Big \ ended /\ ~Receives(f)

\* The RecvManager will not accept the connection of f: no event is left to
\* accept it for, as it came in a burst, or main took it for the master's.
Stranded(f) == conn[f] = "open" /\ ~Accepted(f) /\ ~edge[Dest[f]]

\* The ReceFile of f ended without its end.
Abandoned(f) ==
  LET c == Dest[f] IN
    /\ f \in handed /\ ReceFile(f) \notin running[c]
    /\ \A i \in DOMAIN queue[c] : queue[c][i] # ReceFile(f)

\* A socket of the client was closed by the Sender of another flow.
StaleClosed(c) == \E f \in Flows : conn[f] = "stale" /\ c \in {Source[f], Dest[f]}

\* What may hold up f.
HeldUp(f) == \/ sm[Source[f]] = "stuck"
             \/ Stranded(f) \/ Abandoned(f)
             \/ StaleClosed(Source[f]) \/ StaleClosed(Dest[f])
             \/ Held(Source[f]) \/ Held(Dest[f])

\* A flow whose instruction reached its client ends, unless the client dies, or
\* from some time on it is held up: its scan is at a full reply buffer, its
\* connection is stranded by a burst or taken for the master's, the ReceFile was
\* given a slot that was still in use, a stale close hit one of the two clients,
\* or no thread of one of them is free.  Other connections and jobs, whatever
\* becomes of them, hold up a flow in no other way.
FlowEndsUnlessHeld ==
  \A f \in Flows : Waits(f) ~> \/ f \in ended
                               \/ client[Source[f]] = "dead"
                               \/ []HeldUp(f)
=============================================================================
