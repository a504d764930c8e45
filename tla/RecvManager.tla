---------------------------- MODULE RecvManager -----------------------------
(***************************************************************************)
(* The receiving half of a client: src/client/RecvManager.{h,cpp} and      *)
(* src/client/receFile.{h,cpp}.                                            *)
(*                                                                         *)
(* The RecvManager thread waits on its epoll descriptor, accepts the       *)
(* connections of other clients' Senders and appends a ReceFile to the     *)
(* pool for each.  The ReceFile objects are an array indexed by file       *)
(* descriptor, so a new connection reuses the object of the closed one     *)
(* whose descriptor the kernel gives it, with no lock between the          *)
(* RecvManager's initSocket and the old job's last write.                  *)
(*                                                                         *)
(* Sockets and epoll are the kernel's: the listening socket is             *)
(* edge-triggered, a connection edge-triggered and one-shot.  The data of  *)
(* a flow is abstracted to whether some of it has arrived and whether all  *)
(* of it has, with the end of the stream.  The stream also ends when the   *)
(* Sender's process exits, perhaps in the middle of the flow.              *)
(***************************************************************************)
EXTENDS Naturals, Sequences, FiniteSets

CONSTANTS
  Conns,     \* the connections that Senders of other clients make
  Fds,       \* descriptors the process can have for accepted connections
  NoConn, NoFd

ASSUME RecvAssumption == NoConn \notin Conns /\ NoFd \notin Fds

VARIABLES
  peer,          \* the Sender of each connection
  backlog,       \* established connections that were not accepted
  listenReady,   \* an event of the listening socket is pending
  burst,         \* history: a connection arrived while such an event was pending
  refused,       \* history: accept failed for want of a descriptor
  conn,          \* conn[f]: the connection open at descriptor f
  armed,         \* descriptors whose one event was not delivered
  pc, batch,     \* RecvManager::run: the events of epoll_wait not handled yet
  m_Sockfd,      \* m_Sockfd of receFiles[f]
  job, object    \* ReceFile::run for each connection, and its index in receFiles

peerVars == <<peer, backlog, listenReady, burst, refused>>
vars == <<peerVars, conn, armed, pc, batch, m_Sockfd, job, object>>

\* "sending": data arrived; "done": all of it and the end of the stream; "cut":
\* the end of the stream, without the rest of the flow.
PeerStates == {"none", "connected", "sending", "done", "cut"}

\* "called": in recv(); "eof": recv() returned 0; "remove", "clear": in
\* closeConn; "complete" and "failed": run() returned after the end of the
\* stream, or after an error of recv().
JobStates == {"none", "loop", "called", "eof", "remove", "clear", "complete", "failed"}

Listen == [fd |-> NoFd, rdhup |-> FALSE]
Events == [fd : Fds, rdhup : BOOLEAN] \cup {Listen}

TypeOK ==
  /\ peer \in [Conns -> PeerStates]
  /\ backlog \in Seq(Conns)
  /\ listenReady \in BOOLEAN
  /\ burst \in BOOLEAN
  /\ refused \in BOOLEAN
  /\ conn \in [Fds -> Conns \cup {NoConn}]
  /\ armed \in SUBSET Fds
  /\ \A f \in armed : conn[f] # NoConn
  /\ pc \in {"wait", "handle"}
  /\ batch \in SUBSET Events
  /\ \A e \in batch \ {Listen} : conn[e.fd] # NoConn
  /\ m_Sockfd \in [Fds -> Fds \cup {NoFd}]
  /\ job \in [Conns -> JobStates]
  /\ object \in [Conns -> Fds \cup {NoFd}]

Init ==
  /\ peer = [c \in Conns |-> "none"]
  /\ backlog = <<>>
  /\ listenReady = FALSE
  /\ burst = FALSE
  /\ refused = FALSE
  /\ conn = [f \in Fds |-> NoConn]
  /\ armed = {}
  /\ pc = "wait"
  /\ batch = {}
  /\ m_Sockfd = [f \in Fds |-> NoFd]
  /\ job = [c \in Conns |-> "none"]
  /\ object = [c \in Conns |-> NoFd]

-----------------------------------------------------------------------------
(* The Senders of other clients *)

PeerConnects(c) ==
  /\ peer[c] = "none"
  /\ peer' = [peer EXCEPT ![c] = "connected"]
  /\ backlog' = Append(backlog, c)
  /\ burst' = (burst \/ listenReady)
  /\ listenReady' = TRUE
  /\ UNCHANGED <<refused, conn, armed, pc, batch, m_Sockfd, job, object>>

\* A flow that fits the kernels' buffers can be all sent before it is accepted.
PeerSends(c) ==
  /\ \/ peer[c] = "connected" /\ peer' = [peer EXCEPT ![c] = "sending"]
     \/ peer[c] = "sending"   /\ peer' = [peer EXCEPT ![c] = "done"]
  /\ UNCHANGED <<backlog, listenReady, burst, refused, conn, armed, pc, batch, m_Sockfd, job, object>>

\* A send() of the Sender's process fails, its own or that of another flow's
\* Sender, and exit(1) ends it: the kernel closes its connections.
PeerExits(c) ==
  /\ peer[c] \in {"connected", "sending"}
  /\ peer' = [peer EXCEPT ![c] = "cut"]
  /\ UNCHANGED <<backlog, listenReady, burst, refused, conn, armed, pc, batch, m_Sockfd, job, object>>

StreamEnded(c) == peer[c] \in {"done", "cut"}

-----------------------------------------------------------------------------
(* RecvManager::run *)

Ready(f) == f \in armed /\ (peer[conn[f]] = "sending" \/ StreamEnded(conn[f]))

\* Mutant: the connection is not one-shot.
StayArmed == armed

StillArmed == {f \in armed : ~Ready(f)}

\* epoll_wait takes all that is pending, and says what is so at that moment.
EpollWait ==
  /\ pc = "wait"
  /\ listenReady \/ \E f \in Fds : Ready(f)
  /\ batch' = {[fd |-> f, rdhup |-> StreamEnded(conn[f])] : f \in {g \in Fds : Ready(g)}}
              \cup (IF listenReady THEN {Listen} ELSE {})
  /\ listenReady' = FALSE
  /\ armed' = StillArmed
  /\ pc' = "handle"
  /\ UNCHANGED <<peer, backlog, burst, refused, conn, m_Sockfd, job, object>>

\* Mutant: the event is consumed and nothing is accepted.
TakeNone == UNCHANGED <<backlog, conn, armed, m_Sockfd, object>>

\* accept, initSocket and addfd, for one connection.
TakeOne ==
  \E f \in Fds :
    /\ conn[f] = NoConn
    /\ conn' = [conn EXCEPT ![f] = Head(backlog)]
    /\ object' = [object EXCEPT ![Head(backlog)] = f]
    /\ m_Sockfd' = [m_Sockfd EXCEPT ![f] = f]
    /\ armed' = armed \cup {f}
    /\ backlog' = Tail(backlog)

\* One accept for each event of the listening socket.
HandleListen ==
  /\ pc = "handle"
  /\ Listen \in batch
  /\ backlog # <<>>
  /\ TakeOne
  /\ batch' = batch \ {Listen}
  /\ UNCHANGED <<peer, listenReady, burst, refused, pc, job>>

\* accept fails for want of a descriptor: printed, and the event is gone.
HandleListenFails ==
  /\ pc = "handle"
  /\ Listen \in batch
  /\ \A f \in Fds : conn[f] # NoConn
  /\ refused' = TRUE
  /\ batch' = batch \ {Listen}
  /\ UNCHANGED <<peer, backlog, listenReady, burst, conn, armed, pc, m_Sockfd, job, object>>

\* Mutant: the two branches are swapped.
AppendIfClosed(e) ==
  job' = IF e.rdhup THEN [job EXCEPT ![conn[e.fd]] = "loop"] ELSE job

\* The branch of EPOLLRDHUP comes first and does nothing.
AppendUnlessClosed(e) ==
  job' = IF e.rdhup THEN job ELSE [job EXCEPT ![conn[e.fd]] = "loop"]

HandleConnection ==
  /\ pc = "handle"
  /\ \E e \in batch \ {Listen} :
       /\ AppendUnlessClosed(e)
       /\ batch' = batch \ {e}
  /\ UNCHANGED <<peerVars, conn, armed, pc, m_Sockfd, object>>

EndOfBatch ==
  /\ pc = "handle"
  /\ batch = {}
  /\ pc' = "wait"
  /\ UNCHANGED <<peerVars, conn, armed, batch, m_Sockfd, job, object>>

-----------------------------------------------------------------------------
(* ReceFile::run, in a pool thread *)

\* recv(m_Sockfd, ...): the descriptor is read from the object at each call.
JobCall(c) ==
  /\ job[c] = "loop"
  /\ job' = [job EXCEPT ![c] = IF m_Sockfd[object[c]] = NoFd THEN "failed" ELSE "called"]
  /\ UNCHANGED <<peerVars, conn, armed, pc, batch, m_Sockfd, object>>

\* Mutant: the loop ends with the first data.
StopAtData(c) == "complete"

ContinueAfterData(c) == "loop"

JobReturn(c) ==
  /\ job[c] = "called"
  /\ \/ peer[c] = "sending" /\ job' = [job EXCEPT ![c] = ContinueAfterData(c)]
     \/ StreamEnded(c)      /\ job' = [job EXCEPT ![c] = "eof"]
  /\ UNCHANGED <<peerVars, conn, armed, pc, batch, m_Sockfd, object>>

\* closeConn: "m_Sockfd != -1" ...
JobCheck(c) ==
  /\ job[c] = "eof"
  /\ job' = [job EXCEPT ![c] = IF m_Sockfd[object[c]] = NoFd THEN "complete" ELSE "remove"]
  /\ UNCHANGED <<peerVars, conn, armed, pc, batch, m_Sockfd, object>>

\* ... removefd(rf_epollfd, m_Sockfd), which closes the descriptor ...
JobRemove(c) ==
  /\ job[c] = "remove"
  /\ LET fd == m_Sockfd[object[c]] IN
       /\ conn' = [f \in Fds |-> IF f = fd THEN NoConn ELSE conn[f]]
       /\ armed' = armed \ {fd}
  /\ job' = [job EXCEPT ![c] = "clear"]
  /\ UNCHANGED <<peerVars, pc, batch, m_Sockfd, object>>

\* Mutant: the descriptor is closed once more.
CloseAgain(c) ==
  /\ conn' = [conn EXCEPT ![object[c]] = NoConn]
  /\ armed' = armed \ {object[c]}

NoClose(c) == UNCHANGED <<conn, armed>>

\* ... m_Sockfd = -1.
JobClear(c) ==
  /\ job[c] = "clear"
  /\ m_Sockfd' = [m_Sockfd EXCEPT ![object[c]] = NoFd]
  /\ NoClose(c)
  /\ job' = [job EXCEPT ![c] = "complete"]
  /\ UNCHANGED <<peerVars, pc, batch, object>>

-----------------------------------------------------------------------------

ManagerStep ==
  EpollWait \/ HandleListen \/ HandleListenFails \/ HandleConnection \/ EndOfBatch

JobStep(c) == JobCall(c) \/ JobReturn(c) \/ JobCheck(c) \/ JobRemove(c) \/ JobClear(c)

Next ==
  \/ \E c \in Conns : PeerConnects(c) \/ PeerSends(c) \/ PeerExits(c) \/ JobStep(c)
  \/ ManagerStep

Spec == Init /\ [][Next]_vars

\* The operating system runs the RecvManager and the pool's threads.
FairSpec == Spec /\ WF_vars(ManagerStep) /\ \A c \in Conns : WF_vars(JobStep(c))

-----------------------------------------------------------------------------
(* Properties *)

\* A job only ever reads from and closes its own connection, although objects
\* and descriptors are reused: the descriptor in its object is either its own
\* or gone.
OwnConnection ==
  \A c \in Conns : job[c] \in {"called", "eof", "remove"} => conn[object[c]] = c

\* A connection is left in the backlog with no event to come only if one arrived
\* while an earlier one's event was pending (one event, one accept), or if the
\* process was out of descriptors.
StrandedOnlyByBurst ==
  backlog # <<>> => listenReady \/ Listen \in batch \/ burst \/ refused

\* A job that ends has received the whole flow, or all that there is of a flow
\* whose Sender's process exited in the middle, unless the object had a job
\* before, whose late "m_Sockfd = -1" can hit the new connection.
CompleteUnlessReused ==
  \A c \in Conns : job[c] \in {"complete", "failed"} =>
    \/ StreamEnded(c) /\ job[c] = "complete"
    \/ \E d \in Conns \ {c} : object[d] = object[c] /\ job[d] \in {"clear", "complete"}

\* A connection whose data arrives before its end is given to a job, unless its
\* end arrives before the RecvManager looks.
DataGetsJob ==
  \A c \in Conns :
    (\E f \in armed : conn[f] = c /\ peer[c] = "sending") ~> (job[c] # "none" \/ StreamEnded(c))

\* receFile.cpp:46: the loop runs until the whole file has been received.
FileReceived == \A c \in Conns : job[c] # "failed"

=============================================================================
