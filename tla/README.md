# A TLA+ model of coflowSim_online

coflowSim_online replays a trace of *coflows* (groups of network flows that
belong together) on real machines.  A **master** reads the trace and tells
**clients**, over one TCP connection each, which flows to send to which other
client and at what speed; a client sends each flow over a connection of its own,
shaped with the Linux `tc` command, and reports its end to the master, which
records when each coflow finished.  The repository has no tests.  Line numbers
below are of the files under `src/`.

## 1. The system

### Components

| component | code | state it keeps | operations |
|---|---|---|---|
| thread pool | `common/lib/ThreadPool.*`, `locker.h` | list of tasks, two semaphores (free threads, posted tasks), number of threads | `append`, `increase_a_thread`, `run` |
| sending half of a client | `client/SendManager.*` | wait queue with semaphore, running queue, `send_state` of each task, a `Sender` for each | `appendTask`, `SendManager::run`, `Sender::run` |
| traffic control | `client/TrafficControlManager.*` | the kernel's classes and filters | `initTC`, `setIpPortBandwidth` |
| receiving half of a client | `client/RecvManager.*`, `receFile.*` | an epoll descriptor, an array of `ReceFile` indexed by descriptor | `RecvManager::run`, `ReceFile::run`, `closeConn` |
| socket layer | `common/socket/socketManage.*`, `common/lib/epollFunctions.*` | `m_sendBuf`, `m_recvBuf`, the epoll flags of a descriptor | `setSendMsg`, `sendMsg`, `recvMsg`, `getRecvBuf`, `addfd`, `modfd`, `removefd` |
| instruction channel | `master/scheduler/MachineManager.cpp` (`sendTask`), `client/main.cpp` | the client's `recvbuf` | send, receive and parse `(coflow flow ip port file size speed)` |
| report channel | `client/SendManager.cpp`, `master/datastructures/machine.cpp` | `tmprecv`, `flowsFinishedInfo` | send, receive and parse `(coflow flow time)` |
| Scheduler | `master/scheduler/Scheduler.cpp` | `registerIndex`, number of finished coflows, `coflow.log` | `run`, `registerCoflow` |
| coflows | `master/datastructures/coflow.*`, `flow.*` | state, flows, count of ended flows | `flowEnd`, getters and setters |
| machine manager | `master/scheduler/MachineManager.*` | physical machines, map from 150 logical machines to them | `addOnePhysicsMachine`, `updateLogicMap`, `sendTask` |
| trace producer | `master/traceProducer/*` | none | `prepareCoflows` |
| startup and main loops | `client/main.cpp`, `master/main.cpp` | configuration | `parseConfig`, epoll loops |

### Interactions

* On the master the Scheduler is the only task of the pool.  It calls `sendTask`
  and polls `recvMsg` of each machine itself; the main thread's epoll loop
  handles no event at all.
* On a client the main thread reads instructions and calls `appendTask`; the
  SendManager and the RecvManager are resident tasks of one pool, which also runs
  their jobs, `Sender` and `ReceFile`.  Only the SendManager sends to the master.
* What is shared without a lock: `created_thread_num_` (read), `send_state` of a
  task (SendManager and its Sender), the `ReceFile` array (RecvManager and the
  jobs), the descriptor of a `Sender` that the SendManager may have deleted.

### What is hard, and what makes each part correct

* *Pool*: two semaphores and a list are changed in separate steps by several
  callers, some tasks never return, and an object is appended again while its last
  job has a few instructions left.  No wake-up may be lost, no object be in use by
  two jobs, no task starve, the limit should be kept.
* *Sending half*: a Sender may end before, while or after the SendManager writes
  the state of its task, and is deleted while it may still run.  A flow must be
  sent at its own speed, reported after its last byte, reported at all, and not
  used after it was freed.
* *Receiving half*: edge-triggered and one-shot events, descriptors and objects
  that are reused at once, Senders that exit in the middle of a flow.  A connection
  must be received, whole, by one job.
* *Channels*: bytes are cut anywhere, and a short send repeats what was sent.  A
  receiver must get whole messages, in order, none missing.
* *Events*: `modfd` turns an edge-triggered descriptor into a one-shot one and asks
  for EPOLLOUT that nobody acts on.  A client should not go deaf to its master, nor
  keep a report it could send.
* *Whole system*: processes are started in any order, refused connections are
  ignored, a send to a peer that died or closed kills the sender, pools with few
  threads can wait for each other, and a receiver that does not accept a connection
  holds its Sender for ever.
* *Scheduler*: repeated, late and missing reports.  Each flow is sent once, each
  coflow is finished once, after its flows, and the end is reached.

`PROJECT.json` lists every hazard at its line, with the properties that cover it.

## 2. The modules

| module | models | checked by |
|---|---|---|
| `ThreadPool` | the pool; callers are `main` and the resident tasks | `MCThreadPool`: `PoolUnlimited`, `PoolBounded` |
| `ThreadPoolProofs` | theorems about `ThreadPool` | tlapm |
| `TrafficControl` | classes and filters by local port | with `SendManager` |
| `SendManager` | sending half of a client; EXTENDS `TrafficControl`, `Subsequences` | `MCSendManager`: `SendManager`, `EndMark`, `LastFlow` |
| `SendManagerProofs` | theorems about `SendManager` | tlapm |
| `Subsequences` | what a loop keeps of a list, as a function of the places it keeps | with `SendManager`, `TaskChannel` |
| `SocketManage` | one direction of a connection between master and client, byte by byte | with `TaskChannel` |
| `TaskChannel` | the instruction channel with the client's parser; EXTENDS `SocketManage` | `TaskChannel` |
| `TaskChannelProofs` | theorems about `TaskChannel` | tlapm |
| `ReportChannel` | the report channel with the master's parser; EXTENDS `SocketManage` | `ReportChannel` |
| `ReportChannelProofs` | theorems about `ReportChannel` | tlapm |
| `GoBackFifo` | abstract: what a message channel promises | properties `ImplementsFifo` (run `TaskChannel`), `FifoUntilExposed` (run `ReportChannel`) |
| `TraceProducer` | the coflows and flows of a trace; logical and physical machines | with `Scheduler` |
| `Scheduler` | the Scheduler, coflows, queues of reports; EXTENDS `TraceProducer` | `MCScheduler`: `Scheduler` |
| `SchedulerProofs` | theorems about `Scheduler` | tlapm |
| `CoflowService` | abstract: what the simulator promises | property `ServiceUntilRepeated` |
| `RecvManager` | receiving half of a client, with epoll and descriptors | `RecvManager`, `FileReceived` |
| `RecvManagerProofs` | theorems about `RecvManager` | tlapm |
| `ClientLoop` | the client's main loop and its SendManager over `masterfd`, with epoll | `ClientLoop` |
| `ClientLoopProofs` | theorems about `ClientLoop` | tlapm |
| `CoflowSystem` | master and clients together: startup, connections, pools | `MCCoflowSystem`: `CoflowSystem` |
| `CoflowSystemProofs` | theorems about `CoflowSystem` | tlapm |

Definitions keep the names of the source; `PROJECT.json` maps each to its lines.
A definition whose comment starts with "Mutant" is not part of a model: it is a
wrong form of the definition after it, which the property named in `PROJECT.json`
tells from the right one.

### How state and actions correspond to the code

**ThreadPool.**  `caller[c]` is the place of a thread of control in `append()`:
`trywait`, `check` and `count` are the loop of lines 47-53, and `post` is line
54.  `thread[t]` is the place of a pool thread in `run()`.  Each mutex section,
semaphore operation and unlocked read is an action.  A task is an object.  Those in
`appendable` are with nobody: new ones, and those that the last run let go (`LetGo`),
as a ReceFile does when it closes its descriptor and a Sender when it writes
`SEND_END`.  From then on the thread is `leaving`, and the object can be queued and
run again before that thread returns (`FinishTask`), as `RecvManager.cpp:60` appends
the slot of a descriptor for every connection that gets it.  A rejected task is gone,
as no caller looks at the result.  `Threads` bounds the
threads that can be created: a caller that would create one more only retries
(`RetryAtBound`), which a larger set would let it do.

**SendManager.**  `send_task_wait_queue`, `wait_queue_sem`, the running queue
and `send_state` are the code's.  `pc`, `send_task` and `scan` are the place of
`SendManager::run`; `sender[t]` is the place of each `Sender::run`.  `port` and
`openSock` stand for the socket of a task: `bind` takes any port that no open
socket has.  The launch (line 82) and the write of `SEND_RUNNING` (line 85) are
two actions, as are each test of a task's state in the scan and the final erasure.
The erasure is one action: the only concurrent writers set `SEND_END`, and a task
is erased only if it was `TASK_END` before, which no Sender writes.  `freed` marks
a deleted `SendTask` and `Sender`.  The close of a `Sender` that was deleted closes
nothing, its own socket or another task's.  The reply buffer is counted in reports;
`reports[t]` counts the complete copies given to the kernel.

**SocketManage, TaskChannel.**  A byte is a pair (message, position), so mixing
the parts of two messages shows.  `SendMessage` gives the kernel any prefix of the
buffer and clears the buffer only if that was all of it, which is what lines
152-172 of `socketManage.cpp` do, whatever `errno` says.  The parser is the loop
of `client/main.cpp:125-148`, written as what it computes: the text between each
`)` and the last `(` before it, and the kept rest.

**ReportChannel.**  The parser of `machine.cpp:78-116` is the client's but for its
two indices, which have no initial value.  A call whose bytes hold no `(` or no `)`,
or a `)` before the first `(`, uses an undefined one; `StartIndex` and `EndIndex` give
every value it can have (those outside the buffer act as its ends do), a text that
starts at an undefined place is `<<>>`, and the master may crash.  `exposed` is a
history of the reports with bytes in such a call.

**TraceProducer.**  `Trace` is the text of the file, split into numbers.  `FlowIDs` and
`Flow` are what the two loops of `prepareOneCoflow` leave in the map `flowCollection`:
flow `i` comes from the mapper `i % mapperNum` of the reducer `i / mapperNum`.  `LogicMap`
is `updateLogicMap`, for as many physical machines as there are in the end.

**Scheduler.**  One action is a part of the loop body that reads the clock or a
socket once.  `RegisterCoflows` reads the clock once, as `registerCoflow` does.
The clients are an environment that reports any flow that was sent, up to
`MaxReports` times: more than once because both channels repeat whole messages.

**RecvManager.**  `armed`, `listenReady` and `batch` are epoll's: an event of a
connection is delivered once (one-shot), and one of the listening socket once for
each arrival since the last (edge-triggered).  What `epoll_wait` says is fixed
when it returns, so `rdhup` can be out of date when it is handled.  The stream of a
peer ends after all of its flow (`done`) or, if its process exits before
(`SendManager.h:81`), in the middle of it (`cut`).  `receFiles` is
`m_Sockfd` by descriptor; `object[c]` is the slot of a connection's job.  `burst`
and `refused` are history variables that only properties read.

**ClientLoop.**  The unit is a message, as `SocketManage` cuts the bytes.  `watch` is what
`addfd` or the last `modfd` asked for (`"IN edge"` is EPOLLET alone, the others are
one-shot too), and `ready` says that the kernel has `masterfd` on its ready list; it may
still be there when the instructions were read already (`NoEvent`).  `modfd` puts it there
at once if what it asks for is so; for EPOLLOUT that is left open.  `Recv` is one turn of
the loop of `receiveMessage`.  The two threads interleave at every call that touches
`masterfd`.  The scan of `SendManager::run` is a count of flows in front of it (`ended`)
and behind it (`missed`).  A send may be cut short any number of times in a row.  `filled`, `last` and `cut`
are history variables for the properties.

**CoflowSystem.**  Who waits for whom, at the grain of jobs and connections.
`arrivals[c]` are the connections that completed at a client's listening socket, which
the kernel completes from `listen()` on; the first of them is what `accept` at
`client/main.cpp:90` returns, and the RecvManager takes one of the others for each
event (`edge`, `AcceptConn`).  A big flow is one whose Sender blocks in `send` until
somebody reads.  `threads[c]` is any of `PoolSizes`: no limit, or a limit with the few threads
by which `OvershootBounded` lets it be exceeded.  The scan may find any part of the flows
that ended, since a mark can be overwritten, and may stay at a full reply buffer
(`stuck`).  It deletes the Sender of a flow it reports; if that Sender is not past its
`close(sockfd)`, it may close nothing, its own socket, or that of another flow that the
process has open (`MayClose`; the `conn` of that flow is then `stale`).  The code itself
ends a process in four ways, and all are here: `exit(1)` after a failed send of a Sender
(its connection was refused, or a stale close hit its socket), SIGPIPE in a send to a
socket that never was connected or to a peer that died, SIGPIPE in a report to a master
that closed the connections, which the Scheduler does at its end (`SchedulerEnds`,
after a first report of each coflow at the earliest, as repeated reports can make up a
coflow's number), and the parser of reports with an undefined index (`ParserCrashes`).  A master whose Scheduler
returned goes on with an empty loop, which for its clients is the same as its death: both
are the phase `gone`.  What a channel loses, and when a client is deaf to its master,
is left to the modules of these parts.

## 3. The runs

| run | asks | result |
|---|---|---|
| `PoolUnlimited` | pool with `thread_num` 0 (the client's configuration), two resident tasks, two slots of `receFiles` that are appended again and again: `TasksAccounted`, `IdleThreadPerTask`, `QueuedTaskRuns` | hold |
| `PoolBounded` | limit 3, six threads, three callers at once, two slots of `receFiles` and an address of Senders, each appended again and again, symmetric threads: `OvershootBounded`, `OneLiveRun` | hold |
| `SendManager` | three flows of two speeds over two ports, a reply buffer of two reports | hold |
| `EndMark` | is a task marked `SEND_END` handled, as a comment says? The mark must stay | **violated**: `SEND_RUNNING` is written over it |
| `LastFlow` | the same comment: is an ended flow reported? | **violated**: not while no other task arrives |
| `TaskChannel` | five instructions of four bytes, buffers of 13 and 9 bytes, a kernel that holds 14 | hold |
| `ReportChannel` | four reports of four bytes, buffers of 13 and 9 bytes, a kernel that holds 11; every value of the uninitialised indices | hold |
| `Scheduler` | a trace of three coflows of 2 x 1, 1 x 1 and 1 x 2 flows on two machines, the flows of the first reported up to twice | hold |
| `RecvManager` | three connections over two descriptors, each whole or cut by the exit of its Sender's process | hold |
| `ClientLoop` | five instructions, buffers of three messages, `MSG_LEN` of two | hold |
| `CoflowSystem` | two clients with pools of no limit or three threads; big flows, two that cross each other and one from a client to itself: `MasterIsMaster`, `DeathNeedsReport`, `FlowEndsUnlessHeld` | hold |
| `FileReceived` | does a job receive its whole file, as a comment says? | **violated**: a late `m_Sockfd = -1` hits the next connection |

What the passing properties say together, and where they stop:

* A task accepted by the unlimited pool always runs.  With a limit it may not:
  resident tasks never give their threads back, so no such property is claimed.
* Two threads can be in `run()` of one ReceFile or Sender, but at most one of them has
  not let the object go (`OneLiveRun`).  This takes each job to close only its own
  descriptor; what a use after free can close is in `CoflowSystem`.  The instructions
  that the other threads have left are not harmless: `FileReceived` is about one.
* A flow that `appendTask` accepted is sent unless the process calls `exit(1)`, the
  SendManager is held for ever in one of two loops that have no exit,
  `while (!setSendMsg(...))` and the `bind` loop, or the Sender waits for ever, for a
  thread of the pool or in a `send()` that its destination does not read
  (`AcceptedTaskSent` names all four).
* Each Sender's port has the rate of its own flow while it sends, although a port
  is taken over from a finished flow and its class and filter are never removed.
* The instruction channel may repeat a stretch of instructions (a short send keeps
  the whole buffer) but neither skips, reorders nor mixes them.
* The report channel does the same until a call of its parser uses an undefined
  index (`FifoUntilExposed`), which takes no more than a report cut by a receive.
  Such a call can lose the reports with bytes in it, but no other: the parser is in
  step again with the next `(` (`LostOnlyIfExposed`).
* Repeated reports have an effect: by `EarlyOnlyByRepeat`, a coflow recorded before its
  flows ended had one of them reported twice.  Nothing else goes wrong: until a flow is
  reported a second time, every step is one of `CoflowService` (`ServiceUntilRepeated`).
* Of the data of each reducer, the Scheduler calls `sendTask` for each mapper's share,
  once (`WholeCoflowSent`).  Whether the mapper is told is another question: a full
  send buffer drops the instruction and `sendTask` returns true all the same
  (`MachineManager.cpp:100`), and no property says otherwise.
* A client reads every instruction unless it stays deaf for ever: since its last reply
  was taken whole, a one-shot event was used up, or the kernel cut that reply short, or
  before any reply a receive filled its buffer; or the SendManager is in the loop
  before a full reply buffer (`ReadUnlessDeaf`).  In the first three cases the
  SendManager has nothing to do, so only the end of a flow found with a new task could
  wake it, and that task cannot arrive.
* What a short send kept leaves with a later report.  If it never does, no report is
  ever sent again, and the buffer holds what the kernel cut since it last took a whole
  one, no more (`KeptOnlyByCuts`); the EPOLLOUT that the short send asked for does nothing.
* A client that takes another for its master was started after its master had tried to
  connect (`MasterIsMaster`).  Until a first flow is reported, such a client is also
  where every cascade of deaths begins.  After a report there are other beginnings: the
  close of a Sender that was freed too early, the parser of the report and the end of
  the Scheduler (`DeathNeedsReport`).
* A flow whose instruction is with its client ends, unless that client dies or the flow
  is held up for ever (`FlowEndsUnlessHeld`) in one of these ways: the SendManager is
  before a full reply buffer; the connection came in a burst and is stranded in the
  backlog, or was taken for the master's; its ReceFile got a slot that the last job then
  cleared; a stale close hit a socket of one of the two clients; or, with a limit on
  threads, all threads of one of them wait for ever.  So it does not always end, also
  with no limit: two flows that reach a client together are enough.  The run shows that
  there is no other way, and a run without any one of these finds a flow that stays.
* A connection is left unreceived, or not received to its end, only in the ways
  `StrandedOnlyByBurst`, `CompleteUnlessReused` and `DataGetsJob` name, one of them
  being the exit of the Sender's process in the middle of the flow.

### Bounds

Every bound is a constant given in a `.cfg`.  Two callers race in the pool if the
two resident tasks both append, and three if `main` has not finished; a limit of 3
leaves one thread beside the resident tasks, so the overshoot and the wait for a
free thread both happen.  Three flows over two ports make a port be reused while
another flow is sent, and the wait queue (maximum 1, so two elements) and the reply
buffer (2 reports) both fill up.  Frames of four bytes have an opening and a closing
byte and two inside, the least for which a cut can fall at every kind of place; 13, 9,
11 and 14 are no multiples of 4, so that frames are cut by every buffer, and the send
buffer refuses the fourth message.  Three coflows give one that arrives first and two
that arrive together.  Two descriptors for three connections make a descriptor be
reused while another job runs, and be exhausted.  In `ClientLoop` `MAX_RECV_BUFFER_SIZE`
is larger than `MSG_LEN` and no multiple of it, so a receive ends below, at and above it;
the reply buffer holds three reports and five flows end, so that cuts in a row fill it.
In the pool three callers append three objects without end.  In `CoflowSystem` three
flows over two clients give two that cross and one within a client, two that reach
client 1 (a burst), and two with one source (so that one can be reported and its Sender
freed while the other is sent); three threads are held by the managers and one Sender.
All three are big, so that any of them can block.  With a third of them small, which ends
whether or not its connection is accepted, there are two to three times the states and the
properties hold too, but that is more than a run should take.  Clocks, reports and instructions
are bounded in the guards.  Deadlock is not checked (`CHECK_DEADLOCK FALSE`): each
instance has finitely many inputs and rightly stops after the last.

### Fairness

Weak fairness of a thread's next step stands for an operating system that runs every
thread.  In `ThreadPool` it covers `append()` once it has pushed, the pool's loop and the
return of a job that let its object go; it does not make a caller append or a job reach the
end of its flow, as a Sender or a ReceFile may wait for its peer for ever.  In
`SendManager` it covers the main thread, the SendManager and the Sender's `close`; a
queued Sender need not get a thread, a `send()` need not return, and nothing makes
another instruction arrive.  In `Scheduler` it covers the thread and
the clock, which counts the CPU time of that busy loop; no fairness makes a client
report.  In `RecvManager` it covers the manager and the jobs, not the peers.  In `ClientLoop` it
covers the two threads; nothing makes the master send, a Sender end or the kernel make
room.  In `CoflowSystem` it covers every process and thread that can go on, among them a
Sender that does not block, since its connection, pool and receiver are in the model.
Nobody has to start a client, no stale socket has to take data, no job has to fail, and
neither the Scheduler's end nor a crash of the parser has to come.  No
semaphore or event needs strong fairness here.  Safety runs use `Spec` alone.

## 4. What is proved

Eight modules hold proofs, each about every value of the constants that the assumption
named with it allows:

| module | about all | assumptions |
|---|---|---|
| `ThreadPoolProofs` | finite sets of threads and tasks, submitter functions, limits | `PoolAssumption` |
| `SendManagerProofs` | sets of instructions, speeds, ports, limits of connected tasks, sizes of the reply buffer | `SendAssumption` |
| `RecvManagerProofs` | sets of senders and descriptors, lengths of files | `RecvAssumption` |
| `TaskChannelProofs` | sizes of frames, buffers and sockets, numbers of instructions | `SocketAssumption`, `TaskAssumption` |
| `ReportChannelProofs` | sizes of frames, buffers and sockets, numbers of reports | `SocketAssumption`, `ReportAssumption` |
| `SchedulerProofs` | traces of coflows that arrive by `MaxTime`, numbers of machines, numbers of reports of each flow | `TraceAssumption`, `SchedulerAssumption` |
| `ClientLoopProofs` | sizes of buffers, numbers of instructions | `LoopAssumption` |
| `CoflowSystemProofs` | numbers of clients and flows, whoever sends to whom, sizes of pools | `SystemAssumption` |

TLC evaluates these assumptions in the runs of the modules proved about.  Where a proof
needs induction over a sequence (the n-th element that a loop keeps, the last place with
some property) it takes the least number for which the claim would fail: the natural
numbers' well-foundedness is cited from `WellFoundedInduction`, as the induction theorems
themselves are out of the prover's reach.

| theorem of `ThreadPoolProofs` | statement | inductive invariant |
|---|---|---|
| `TypeCorrect` | `Spec => []TypeOK` | `TypeOK` itself |
| `AccountedCorrect` | `Spec => []TasksAccounted` | inductive with `TypeOK` |
| `IdleCorrect` | `Spec => []IdleThreadPerTask` | inductive with `TypeOK` |
| `OvershootCorrect` | `Spec => []OvershootBounded` | `OvershootInv` |
| `OneLiveRunCorrect` | `Spec => []OneLiveRun` | `LiveClaimInv` with `TypeOK` |

`TasksAccounted` and `IdleThreadPerTask` equate a number of tokens with a number of
threads and callers in certain places.  Lemmas `ThreadMoves` and `CallerMoves` say
what a step of one thread or caller does to each such number, and each action is then
arithmetic.  `OvershootBounded` is not inductive: a caller that read a count below the
limit may still add to it.  `OvershootInv` counts the callers about to add as well, and
the caller that reads a count below the limit is itself not among them, which gives the
"less one".  `OneLiveRun` does not say that a live object cannot be appended again;
`LiveClaimInv` adds that no object in the queue or in a live run is in `appendable`.
A thread that lets its object go ends its live run in the same step.

| theorem of `SendManagerProofs` | statement | inductive invariant |
|---|---|---|
| `TypeCorrect` | `Spec => []TypeOK` | `TypeInv`, which adds that a busy SendManager has a task |
| `WaitQueueCorrect` | `Spec => []WaitQueueAccounted` | inductive with `TypeInv` |
| `ReportedAfterSentCorrect` | `Spec => []ReportedAfterSent` | `WaitInv`, `EndInv` |
| `NoReportForgottenCorrect` | `Spec => []NoReportForgotten` | inductive with `WaitInv` |
| `FreedTaskUnusedCorrect` | `Spec => []FreedTaskUnused` | `WaitInv`, `EndInv`, `RunInv` |
| `SenderShapedCorrect` | `Spec => []SenderShaped` | `WaitInv`, `PortInv` |

The properties speak of states that the SendManager, the scan of its list and the Senders
write without a lock.  `WaitInv` says who may: a task in the wait queue, once, or in the
SendManager's hands was touched by nobody else, up to the call that starts its Sender.
`EndInv` says that only a Sender past its last access made its task end, so that the scan
reports and frees no task of a Sender that goes on; `RunInv` adds that a freed task has
left the list.  `PortInv` is about ports, which are used again: each open socket has one
of its own, the task being launched included, and a filter leads to the class of its own
port or to the default.

| theorem of `RecvManagerProofs` | statement | inductive invariant |
|---|---|---|
| `TypeCorrect` | `Spec => []TypeOK` | `Inv` |
| `OwnConnectionCorrect` | `Spec => []OwnConnection` | `Inv` |
| `StrandedOnlyByBurstCorrect` | `Spec => []StrandedOnlyByBurst` | `ListenInv` with `Inv` |
| `CompleteUnlessReusedCorrect` | `Spec => []CompleteUnlessReused` | `EndInv`, `ClearedInv` with `Inv` |

`Inv` is `TypeOK` with three parts: where a connection is, on its way, in the backlog or in
the object of its descriptor (`PlaceInv`); that it has one event, armed or to be handled,
and none once it has a job (`EventInv`); and that a job's descriptor stays its own until
the job closes it (`JobInv`).  A job that saw the end of the stream had all there is of it,
whole or cut (`EndInv`).  Types are not inductive without them, since a closed
descriptor's event would be handed to no connection.  `ListenInv` bounds the backlog by
the events of the listening socket.  `CompleteUnlessReused` fails only by an object whose
descriptor a job of an earlier connection cleared late; `ClearedInv` names that job.

| theorem of `TaskChannelProofs` | statement | inductive invariant |
|---|---|---|
| `TypeCorrect` | `Spec => []TypeOK` | `Inv` |
| `AcceptedNotLostCorrect` | `Spec => []AcceptedNotLost` | `Inv` |
| `ImplementsFifoCorrect` | `Spec => ImplementsFifo` | `Inv` |

The channel cuts frames at any byte: the kernel takes part of the buffer and the rest is
sent again from its start, the client reads part of the stream and keeps a part of a frame.
`Inv` is about one line of bytes (`Line`), from the end of the last instruction that was parsed
through the client's buffer, the stream and the master's buffer.  In it a frame that
begins goes on until it ends (`FrameInv`), a byte is followed by its instruction or an
earlier one, and after the end of a frame by at most the next that was accepted
(`OrderInv`, with `Ordered` and `NoSkip`), and the frame of every accepted instruction ends
in the client's buffer, the stream or the master's buffer unless it was parsed (`NotLostInv`).  `OrderedCut`, `OrderedAppend`
and `OrderedResend` say what the parser, an accepted instruction and a partial send do to
such a line.  The refinement is step by step: `SendRefines` maps `SendTask` to
an `Accept` of `GoBackFifo`, or to none if the buffer is full, and `ReceiveRefines` maps a
receive to a `Deliver` of the instructions it completes, or to none: each is the next one
accepted or an earlier one.

| theorem of `ReportChannelProofs` | statement | inductive invariant |
|---|---|---|
| `TypeCorrect` | `Spec => []TypeOK` | `Inv` |
| `LostOnlyIfExposedCorrect` | `Spec => []LostOnlyIfExposed` | `LostInv` with `Inv` |
| `FifoUntilExposedCorrect` | `Spec => FifoUntilExposed` | `Inv` |

The cuts are those of the instruction channel, but what this parser keeps is right only
while no undefined index is used.  Up to then (`exposed = {}`) `StepInv` holds of the line
of bytes from the last report parsed to the end of the stream: it is `Linked`, each byte
continues the frame of the byte before it or begins the next report or a stretch sent
again, and nothing is accepted between its end and what is in the send buffer.  A buffer
in such a line is made of whole frames and perhaps a part of one (`FramedOf`), so the
parser takes out bodies (`TextOf`) and keeps less than a frame (`KeptOf`), which `TypeOK`
claims.  `SendAccepts` and `ReceiveDelivers` map the two actions to `Accept` and `Deliver`
of `GoBackFifo`; that no report is skipped is `NextClose`.

`LostInv` assumes nothing of the line, as it also speaks of the time after: a report has
all its bytes side by side in the send buffer or on the way (`HasWhole`), was parsed, or
was exposed, or the master crashed.  A receive cuts such a frame in one place at most
(`WholeSplit`).  If all of it is in the buffer, the parser takes it out, whatever stands
before it (`ParsedWhole`); if a part is, it is kept from its `(` on when the indices are
set (`PartIsKept`), and exposed when they are not.  This is why a call that goes wrong can
lose no other report.

The lemmas about sequences and places in them are stated again here: the modules of the two
channels give the same names to different things, so one cannot extend the other.

| theorem of `CoflowSystemProofs` | statement | inductive invariant |
|---|---|---|
| `TypeCorrect` | `Spec => []TypeOK` | `TypeInv`, which adds that pools are finite |
| `MasterIsMasterCorrect` | `Spec => []MasterIsMaster` | `StartupInv` |
| `DeathNeedsReportCorrect` | `Spec => []DeathNeedsReport` | `StartupInv` |

Neither property is inductive: they do not say why no Sender connects before the master
does.  `StartupInv` does: until the master has tried every client in turn nobody was told
anything (`ConnectInv`), a client that the master reached has it first among its
arrivals and was started (`ReachedInv`), and a refused Sender, a stale close, a death or
the loss of the master needs a report or a client that was not reached (`MissedInv`).

| theorem of `SchedulerProofs` | statement | inductive invariant |
|---|---|---|
| `TypeCorrect` | `Spec => []TypeOK` | `TypeInv`, which adds that not all coflows have finished until the run stops |
| `SentOnceInOrderCorrect` | `Spec => []SentOnceInOrder` | `OrderInv` |
| `WholeCoflowSentCorrect` | `Spec => []WholeCoflowSent` | `OrderInv` |
| `EarlyOnlyByRepeatCorrect` | `Spec => []EarlyOnlyByRepeat` | `ReportInv` |
| `ServiceUntilRepeatedCorrect` | `Spec => ServiceUntilRepeated` | `ReportInv` |
| `ReportsConservedCorrect` | `Spec => []ReportsConserved` | `ConservedInv` with `TypeInv` |

`SentOnceInOrder` compares what was sent with other flows and with the clock, and says
nothing of the loops that send.  `OrderInv` does: the `RUNNINGED` coflows are those in
front of the sending loop, which arrived, and outside the loops all that are registered
(`StateInv`); and the flows sent, each once, are those of the `RUNNINGED` coflows and
those of the current coflow in front of the inner loop (`SentInv`).

`WholeCoflowSent` follows from `OrderInv` and from `IdsArePairs`: quotient and remainder of
a flow id by the number of mappers pair the ids with the pairs of a mapper and a reducer.
It assumes nothing about the ids in a line, which may repeat.

`ReportInv` follows the reports.  While no flow of a coflow was reported twice, a report is
in one place of one queue or was handled, never both (`OnceInv`), `endflowNum` is the number
of flows that ended (`EndedInv`), and a coflow in the log has all its flows behind it, which
makes the number of logged coflows the one that stops the run (`LogInv`).  `SendServes`,
`EndServes` and `FinishServes` then map each step to one of `CoflowService`.
`ReportsConserved` needs none of this.  A receive moves a machine's reports from `inbox` to
`flowsFinishedInfo` and leaves `Queue(m)` as it is; an arrival adds a place to it, and
handling takes the first away, which shifts the others: a bijection of the places that are
left (`HandlingTakes`).

| theorem of `ClientLoopProofs` | statement | inductive invariant |
|---|---|---|
| `TypeCorrect` | `Spec => []TypeOK` | `TypeOK` itself |
| `WatchedIsNoticedCorrect` | `Spec => []WatchedIsNoticed` | `NoticedInv` with `TypeOK` |

`WatchedIsNoticed` speaks of the moments in `epoll_wait` only.  `NoticedInv` covers the
handling of an event as well: a one-shot watch has `masterfd` on the ready list whenever an
instruction is there, an edge-triggered one outside a receive unless the receive filled
`m_recvBuf`; that any other receive leaves nothing is lemma `ReceiveLeaves`.

Every invariant and every action property of the passing runs is stated by a theorem.  Only
model-checked are:

* `QueuedTaskRuns`, `AcceptedTaskSent`, `AllReportedStops`, `EveryFlowSent`, `DataGetsJob`,
  `ReadUnlessDeaf`, `KeptOnlyByCuts`, `FlowEndsUnlessHeld`: all are temporal and need
  ENABLED and fairness, which the prover does not handle.
* The runs that expect a violation: the theorems do not speak of their properties.

## 5. What is not modelled

* The master's epoll loop: it handles nothing.  Parsing of configuration, logging,
  `rapidjson`, `spdlog`: data only.  `coflowCollection`, `coflowManager`, `library`:
  no code calls them.
* Failures of `popen`, `socket` and `pthread_create`, which the code prints, ignores
  or throws out of the process on; the crash of a machine or its restart (no code
  handles it: `removeOnePhysicsMachine` is a TODO).  Of the deaths that the code itself
  brings about `CoflowSystem` has those that section 2 lists; the crash of a process
  through freed memory (`SendManager.cpp:103`), beyond a `close` of a wrong socket, is
  not among them.
* What a stale close does to anything but the connection of a flow: the descriptor of
  the master, of epoll or of a listening socket.  `ThreadPool`, `SendManager` and
  `RecvManager` leave out stale closes altogether.
* A listening socket whose backlog in the kernel is full: a client asks for `BACKLOG`
  (65535) connections, which the kernel may lower to a limit of its own.
* Cases that no input of the program brings about: a flow of bandwidth 0, which would
  leave the filter of the last user of its port (`TrafficControlManager.cpp:41`; the
  Scheduler always asks for 10), a coflow without flows, which would never be asked
  whether it ended (`coflow.cpp:49`; every line of the traces has a mapper and a
  reducer), and a line of 4096 characters or more, on which `getline` would fail
  (`CoflowBenchmarkTraceProducer.cpp:36`; the longest line in `res/` has 2111).
* The exact limit of the pool: two comments say it is a maximum (`ThreadPool.h:28`,
  `ThreadPool.cpp:48`), while `OvershootBounded` states by how much it can be exceeded.
* Of the files in this repository most, by far, are vendored (`rapidjson`, `spdlog` with
  `fmt`).  They parse the configuration and write logs; none of the state modelled here
  is in them and no property is about them.  The maps therefore cover most of the code
  in `client/`, `common/` and `master/` but a small share of the repository's lines.

## 6. Plan

Order of the work, the most important behaviour first; what is done is marked.

1. (done) `ThreadPool` and its proofs; `SendManager` with `TrafficControl`;
   `SocketManage`, `TaskChannel` and `ReportChannel` against `GoBackFifo`;
   `Scheduler` against `CoflowService`; `RecvManager`.
2. (done) `ClientLoop`; `TraceProducer` under `Scheduler`; `CoflowSystem`, which composes
   master and clients over what their parts promise, and the proofs about its startup.
3. (done) Types and `SentOnceInOrder` of `Scheduler`; types and `WatchedIsNoticed` of
   `ClientLoop`.
4. (done) The invariants of `SendManager` and `RecvManager`; those of `TaskChannel` and its
   implementation of `GoBackFifo`; the remaining invariants of `Scheduler` and its
   implementation of `CoflowService` until a report is repeated.
5. (done) Types, `LostOnlyIfExposed` and `FifoUntilExposed` of `ReportChannel`.
6. (done) Objects that are appended again (`ThreadPool`), Senders that exit in the middle
   of a flow (`RecvManager`), sends cut short without a bound (`ClientLoop`), one accept
   for each event, stale closes, the Scheduler's end and the parser's crash
   (`CoflowSystem`), with the proofs about them.

What is left to TLC is what section 4 names: the temporal properties.
