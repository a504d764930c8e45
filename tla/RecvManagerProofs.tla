-------------------------- MODULE RecvManagerProofs --------------------------
(***************************************************************************)
(* Safety of RecvManager for all sets of connections and descriptors.      *)
(***************************************************************************)
EXTENDS RecvManager, SequenceTheorems, TLAPS

-----------------------------------------------------------------------------
(* The inductive invariant *)

Running == {"loop", "called", "eof", "remove"}
Open    == Running \cup {"none"}

\* A connection is on its way, then in the backlog, then in an object, which is
\* that of its descriptor for as long as the descriptor is open.
PlaceInv ==
  /\ \A c \in Conns : peer[c] = "none" => object[c] = NoFd
  /\ \A i \in DOMAIN backlog : peer[backlog[i]] # "none" /\ object[backlog[i]] = NoFd
  /\ \A i, j \in DOMAIN backlog : backlog[i] = backlog[j] => i = j
  /\ \A c \in Conns : object[c] = NoFd => job[c] = "none"
  /\ \A f \in Fds : conn[f] # NoConn => object[conn[f]] = f
  /\ \A f \in Fds : m_Sockfd[f] \in {f, NoFd}

\* A connection has an event armed or to be handled, never two, and none once
\* it has a job; an event with EPOLLRDHUP is of a stream that has ended.
EventInv ==
  /\ pc = "wait" => batch = {}
  /\ \A f \in armed : job[conn[f]] = "none"
  /\ \A e \in batch \ {Listen} : job[conn[e.fd]] = "none" /\ e.fd \notin armed
  /\ \A e, g \in batch \ {Listen} : e.fd = g.fd => e = g

\* A job's descriptor stays its own until it closes it.
JobInv == \A c \in Conns : job[c] \in Running => conn[object[c]] = c

\* Connections and events of the listening socket pair off.
ListenInv ==
  burst \/ refused
    \/ Len(backlog) <= (IF listenReady THEN 1 ELSE 0) + (IF Listen \in batch THEN 1 ELSE 0)

\* A job that saw the end of the stream had all that there is of it.
EndInv == \A c \in Conns : job[c] \in {"eof", "remove", "clear", "complete"} => StreamEnded(c)

\* An open connection whose object has no descriptor lost it to an earlier job;
\* so did a job that failed.
EarlierJob(c, f) == \E d \in Conns \ {c} : object[d] = f /\ job[d] = "complete"

ClearedInv ==
  /\ \A f \in Fds : conn[f] # NoConn /\ job[conn[f]] \in Open /\ m_Sockfd[f] = NoFd =>
       EarlierJob(conn[f], f)
  /\ \A c \in Conns : job[c] = "failed" => EarlierJob(c, object[c])

-----------------------------------------------------------------------------
(* Types *)

LEMMA InitInv ==
  Init => TypeOK /\ PlaceInv /\ EventInv /\ JobInv /\ ListenInv /\ EndInv /\ ClearedInv
<1> SUFFICES ASSUME Init
    PROVE TypeOK /\ PlaceInv /\ EventInv /\ JobInv /\ ListenInv /\ EndInv /\ ClearedInv
  OBVIOUS
<1>1. TypeOK
  <2>1. backlog \in Seq(Conns)
    BY DEF Init
  <2>2. QED
    BY <2>1 DEF Init, TypeOK, PeerStates, JobStates
<1>2. PlaceInv /\ EventInv /\ JobInv /\ EndInv /\ ClearedInv
  BY RecvAssumption DEF Init, PlaceInv, EventInv, JobInv, EndInv, ClearedInv, Running
<1>3. Len(backlog) = 0
  BY DEF Init
<1>4. ListenInv
  BY <1>3 DEF ListenInv
<1>5. QED
  BY <1>1, <1>2, <1>4

LEMMA TypeNext == TypeOK /\ PlaceInv /\ EventInv /\ JobInv /\ [Next]_vars => TypeOK'
<1> SUFFICES ASSUME TypeOK, PlaceInv, EventInv, JobInv, [Next]_vars PROVE TypeOK'
  OBVIOUS
<1> USE RecvAssumption DEF TypeOK, PeerStates, JobStates, peerVars
<1>1. ASSUME NEW c \in Conns, PeerConnects(c) PROVE TypeOK'
  BY <1>1, AppendProperties DEF PeerConnects
<1>2. ASSUME NEW c \in Conns, PeerSends(c) \/ PeerExits(c) PROVE TypeOK'
  BY <1>2 DEF PeerSends, PeerExits
<1>3. CASE EpollWait
  <2>1. /\ batch' = {[fd |-> f, rdhup |-> StreamEnded(conn[f])] : f \in {g \in Fds : Ready(g)}}
                     \cup (IF listenReady THEN {Listen} ELSE {})
        /\ UNCHANGED <<peer, backlog, burst, refused, conn, m_Sockfd, job, object>>
        /\ listenReady' = FALSE /\ armed' = StillArmed /\ pc' = "handle"
    BY <1>3 DEF EpollWait
  <2>2. batch' \in SUBSET Events
    <3>1. \A f \in Fds : [fd |-> f, rdhup |-> StreamEnded(conn[f])] \in Events
      BY DEF Events, StreamEnded
    <3>2. Listen \in Events
      BY DEF Events
    <3>3. QED
      BY ONLY <2>1, <3>1, <3>2
  <2>3. \A e \in batch' \ {Listen} : conn[e.fd] # NoConn
    BY <2>1 DEF Ready
  <2>4. armed' \in SUBSET Fds /\ \A f \in armed' : conn[f] # NoConn
    BY <2>1 DEF StillArmed
  <2>5. QED
    BY <2>1, <2>2, <2>3, <2>4
<1>4. CASE HandleListen
  BY <1>4, HeadTailProperties DEF HandleListen, TakeOne
<1>5. CASE HandleListenFails
  BY <1>5 DEF HandleListenFails
<1>6. CASE HandleConnection
  BY <1>6 DEF HandleConnection, AppendUnlessClosed, Events
<1>7. CASE EndOfBatch
  BY <1>7 DEF EndOfBatch
<1>8. ASSUME NEW c \in Conns, JobCall(c) PROVE TypeOK'
  BY <1>8 DEF JobCall
<1>9. ASSUME NEW c \in Conns, JobReturn(c) PROVE TypeOK'
  BY <1>9 DEF JobReturn, ContinueAfterData
<1>10. ASSUME NEW c \in Conns, JobCheck(c) PROVE TypeOK'
  BY <1>10 DEF JobCheck
<1>11. ASSUME NEW c \in Conns, JobRemove(c) PROVE TypeOK'
  <2> DEFINE fd == m_Sockfd[object[c]]
  <2>1. /\ job[c] = "remove" /\ object[c] \in Fds /\ conn[object[c]] = c
        /\ conn' = [f \in Fds |-> IF f = fd THEN NoConn ELSE conn[f]]
        /\ armed' = armed \ {fd}
        /\ job' = [job EXCEPT ![c] = "clear"]
        /\ UNCHANGED <<peer, backlog, listenReady, burst, refused, pc, batch, m_Sockfd, object>>
    BY <1>11 DEF JobRemove, JobInv, Running, PlaceInv
  <2>2. fd \in {object[c], NoFd}
    BY <2>1 DEF PlaceInv
  <2>3. \A e \in batch \ {Listen} : e.fd \in Fds /\ e.fd # fd
    BY <2>1, <2>2 DEF Events, EventInv
  <2>4. \A e \in batch' \ {Listen} : conn'[e.fd] # NoConn
    BY <2>1, <2>3
  <2>5. conn' \in [Fds -> Conns \cup {NoConn}] /\ armed' \subseteq Fds
    BY <2>1
  <2>6. \A f \in armed' : conn'[f] # NoConn
    BY <2>1
  <2> HIDE DEF fd
  <2>7. QED
    BY <2>1, <2>4, <2>5, <2>6
<1>12. ASSUME NEW c \in Conns, JobClear(c) PROVE TypeOK'
  BY <1>12 DEF JobClear, NoClose
<1>13. CASE UNCHANGED vars
  BY <1>13 DEF vars
<1>14. QED
  BY <1>1, <1>2, <1>3, <1>4, <1>5, <1>6, <1>7, <1>8, <1>9, <1>10, <1>11, <1>12, <1>13
  DEF Next, ManagerStep, JobStep

-----------------------------------------------------------------------------
(* Connections, their objects and their descriptors *)

LEMMA PlaceNext == TypeOK /\ PlaceInv /\ EventInv /\ JobInv /\ [Next]_vars => PlaceInv'
<1> SUFFICES ASSUME TypeOK, PlaceInv, EventInv, JobInv, [Next]_vars PROVE PlaceInv'
  OBVIOUS
<1>0. /\ peer \in [Conns -> PeerStates] /\ backlog \in Seq(Conns)
      /\ conn \in [Fds -> Conns \cup {NoConn}] /\ m_Sockfd \in [Fds -> Fds \cup {NoFd}]
      /\ job \in [Conns -> JobStates] /\ object \in [Conns -> Fds \cup {NoFd}]
      /\ \A e \in batch \ {Listen} : e.fd \in Fds /\ conn[e.fd] \in Conns
  BY DEF TypeOK, Events
<1> USE RecvAssumption DEF PlaceInv, peerVars
<1>1. ASSUME NEW c \in Conns, PeerConnects(c) PROVE PlaceInv'
  <2>1. /\ peer[c] = "none" /\ peer' = [peer EXCEPT ![c] = "connected"]
        /\ backlog' = Append(backlog, c) /\ UNCHANGED <<conn, m_Sockfd, job, object>>
    BY <1>1 DEF PeerConnects
  <2>2. /\ Len(backlog) \in Nat /\ Len(backlog') = Len(backlog) + 1
        /\ DOMAIN backlog = 1..Len(backlog) /\ DOMAIN backlog' = 1..(Len(backlog) + 1)
        /\ \A i \in 1..Len(backlog) : backlog'[i] = backlog[i]
        /\ backlog'[Len(backlog) + 1] = c
        /\ \A i \in 1..Len(backlog) : backlog[i] # c
    BY <1>0, <2>1, AppendProperties, LenProperties
  <2>3. \A i \in DOMAIN backlog' : peer'[backlog'[i]] # "none" /\ object[backlog'[i]] = NoFd
    BY <1>0, <2>1, <2>2
  <2>4. \A i, j \in DOMAIN backlog' : backlog'[i] = backlog'[j] => i = j
    BY <2>2
  <2>5. QED
    BY <1>0, <2>1, <2>3, <2>4
<1>2. ASSUME NEW c \in Conns, PeerSends(c) \/ PeerExits(c) PROVE PlaceInv'
  BY <1>0, <1>2 DEF PeerSends, PeerExits
<1>3. CASE EpollWait
  BY <1>3 DEF EpollWait
<1>4. CASE HandleListen
  <2>1. PICK f \in Fds :
          /\ conn[f] = NoConn
          /\ conn' = [conn EXCEPT ![f] = Head(backlog)]
          /\ object' = [object EXCEPT ![Head(backlog)] = f]
          /\ m_Sockfd' = [m_Sockfd EXCEPT ![f] = f]
          /\ backlog' = Tail(backlog) /\ backlog # <<>> /\ UNCHANGED <<peer, job>>
    BY <1>4 DEF HandleListen, TakeOne
  <2>2. /\ Head(backlog) \in Conns /\ Head(backlog) = backlog[1] /\ 1 \in DOMAIN backlog
        /\ Len(backlog) \in Nat /\ DOMAIN backlog = 1..Len(backlog)
        /\ Len(backlog') = Len(backlog) - 1 /\ DOMAIN backlog' = 1..Len(backlog')
        /\ \A i \in DOMAIN backlog' : i + 1 \in DOMAIN backlog /\ backlog'[i] = backlog[i + 1]
    BY <1>0, <2>1, HeadTailProperties, LenProperties
  <2>3. \A i \in DOMAIN backlog' : backlog'[i] \in Conns /\ backlog'[i] # Head(backlog)
    BY <1>0, <2>2
  <2>4. /\ \A i \in DOMAIN backlog' : peer'[backlog'[i]] # "none" /\ object'[backlog'[i]] = NoFd
        /\ \A i, j \in DOMAIN backlog' : backlog'[i] = backlog'[j] => i = j
    BY <1>0, <2>1, <2>2, <2>3
  <2>5. \A g \in Fds : conn'[g] # NoConn => object'[conn'[g]] = g
    BY <1>0, <2>1, <2>2
  <2>6. QED
    BY <1>0, <2>1, <2>2, <2>4, <2>5
<1>5. CASE HandleListenFails
  BY <1>5 DEF HandleListenFails
<1>6. CASE HandleConnection
  BY <1>0, <1>6 DEF HandleConnection, AppendUnlessClosed
<1>7. CASE EndOfBatch
  BY <1>7 DEF EndOfBatch
<1>8. ASSUME NEW c \in Conns, JobCall(c) PROVE PlaceInv'
  BY <1>0, <1>8 DEF JobCall
<1>9. ASSUME NEW c \in Conns, JobReturn(c) PROVE PlaceInv'
  BY <1>0, <1>9 DEF JobReturn
<1>10. ASSUME NEW c \in Conns, JobCheck(c) PROVE PlaceInv'
  BY <1>0, <1>10 DEF JobCheck
<1>11. ASSUME NEW c \in Conns, JobRemove(c) PROVE PlaceInv'
  BY <1>0, <1>11 DEF JobRemove
<1>12. ASSUME NEW c \in Conns, JobClear(c) PROVE PlaceInv'
  BY <1>0, <1>12 DEF JobClear, NoClose
<1>13. CASE UNCHANGED vars
  BY <1>13 DEF vars
<1>14. QED
  BY <1>1, <1>2, <1>3, <1>4, <1>5, <1>6, <1>7, <1>8, <1>9, <1>10, <1>11, <1>12, <1>13
  DEF Next, ManagerStep, JobStep

LEMMA EventNext == TypeOK /\ PlaceInv /\ EventInv /\ JobInv /\ [Next]_vars => EventInv'
<1> SUFFICES ASSUME TypeOK, PlaceInv, EventInv, JobInv, [Next]_vars PROVE EventInv'
  OBVIOUS
<1>0. /\ backlog \in Seq(Conns) /\ conn \in [Fds -> Conns \cup {NoConn}]
      /\ job \in [Conns -> JobStates] /\ object \in [Conns -> Fds \cup {NoFd}]
      /\ armed \subseteq Fds /\ \A f \in armed : conn[f] \in Conns
      /\ \A e \in batch \ {Listen} : e.fd \in Fds /\ conn[e.fd] \in Conns
      /\ \A f \in Fds : conn[f] # NoConn => object[conn[f]] = f
  BY DEF TypeOK, Events, PlaceInv
<1> USE RecvAssumption DEF EventInv, peerVars
<1>1. ASSUME NEW c \in Conns, PeerConnects(c) PROVE EventInv'
  BY <1>1 DEF PeerConnects
<1>2. ASSUME NEW c \in Conns, PeerSends(c) \/ PeerExits(c) PROVE EventInv'
  BY <1>2 DEF PeerSends, PeerExits
<1>3. CASE EpollWait
  <2>1. /\ batch' = {[fd |-> f, rdhup |-> StreamEnded(conn[f])] : f \in {g \in Fds : Ready(g)}}
                     \cup (IF listenReady THEN {Listen} ELSE {})
        /\ UNCHANGED <<conn, job>> /\ armed' = StillArmed /\ pc' = "handle"
    BY <1>3 DEF EpollWait
  <2>2. \A e \in batch' \ {Listen} : \E f \in Fds :
          Ready(f) /\ e = [fd |-> f, rdhup |-> StreamEnded(conn[f])]
    BY <2>1
  <2>3. \A e \in batch' \ {Listen} : e.fd \in armed /\ e.fd \notin armed'
    BY <2>1, <2>2 DEF Ready, StillArmed
  <2>4. \A e, g \in batch' \ {Listen} : e.fd = g.fd => e = g
    BY <2>2
  <2>5. QED
    BY <2>1, <2>3, <2>4 DEF StillArmed
<1>4. CASE HandleListen
  <2>1. PICK f \in Fds :
          /\ conn[f] = NoConn
          /\ conn' = [conn EXCEPT ![f] = Head(backlog)]
          /\ armed' = armed \cup {f}
          /\ batch' = batch \ {Listen} /\ backlog # <<>> /\ UNCHANGED <<pc, job>>
    BY <1>4 DEF HandleListen, TakeOne
  <2>2. Head(backlog) \in Conns /\ object[Head(backlog)] = NoFd /\ job[Head(backlog)] = "none"
    BY <1>0, <2>1, HeadTailProperties, LenProperties DEF PlaceInv
  <2>3. QED
    BY <1>0, <2>1, <2>2
<1>5. CASE HandleListenFails
  BY <1>5 DEF HandleListenFails
<1>6. CASE HandleConnection
  <2>1. PICK e \in batch \ {Listen} :
          /\ job' = job \/ job' = [job EXCEPT ![conn[e.fd]] = "loop"]
          /\ batch' = batch \ {e} /\ UNCHANGED <<pc, conn, armed>> /\ pc = "handle"
    BY <1>6 DEF HandleConnection, AppendUnlessClosed
  <2>2. /\ \A g \in batch' \ {Listen} : conn[g.fd] # conn[e.fd]
        /\ \A f \in armed : conn[f] # conn[e.fd]
    BY <1>0, <2>1
  <2>3. QED
    BY <1>0, <2>1, <2>2
<1>7. CASE EndOfBatch
  BY <1>7 DEF EndOfBatch
<1>8. ASSUME NEW c \in Conns, job[c] # "none", NEW s, job' = [job EXCEPT ![c] = s],
             UNCHANGED <<pc, batch, conn, armed>>
      PROVE  EventInv'
  BY <1>0, <1>8
<1>9. ASSUME NEW c \in Conns, JobCall(c) \/ JobReturn(c) \/ JobCheck(c) \/ JobClear(c)
      PROVE  EventInv'
  BY <1>8, <1>9 DEF JobCall, JobReturn, JobCheck, JobClear, NoClose
<1>11. ASSUME NEW c \in Conns, JobRemove(c) PROVE EventInv'
  <2> DEFINE fd == m_Sockfd[object[c]]
  <2>1. /\ job[c] = "remove" /\ job' = [job EXCEPT ![c] = "clear"]
        /\ conn' = [f \in Fds |-> IF f = fd THEN NoConn ELSE conn[f]]
        /\ armed' = armed \ {fd} /\ UNCHANGED <<pc, batch>>
    BY <1>11 DEF JobRemove
  <2>2. fd \in {object[c], NoFd} /\ conn[object[c]] = c /\ object[c] \in Fds
    BY <1>0, <2>1 DEF PlaceInv, JobInv, Running
  <2>3. \A e \in batch \ {Listen} : e.fd # fd
    BY <1>0, <2>1, <2>2
  <2> HIDE DEF fd
  <2>4. QED
    BY <1>0, <2>1, <2>3
<1>13. CASE UNCHANGED vars
  BY <1>13 DEF vars
<1>14. QED
  BY <1>1, <1>2, <1>3, <1>4, <1>5, <1>6, <1>7, <1>9, <1>11, <1>13
  DEF Next, ManagerStep, JobStep

-----------------------------------------------------------------------------
(* Jobs *)

LEMMA JobNext == TypeOK /\ PlaceInv /\ EventInv /\ JobInv /\ [Next]_vars => JobInv'
<1> SUFFICES ASSUME TypeOK, PlaceInv, EventInv, JobInv, [Next]_vars PROVE JobInv'
  OBVIOUS
<1>0. /\ backlog \in Seq(Conns) /\ conn \in [Fds -> Conns \cup {NoConn}]
      /\ job \in [Conns -> JobStates] /\ object \in [Conns -> Fds \cup {NoFd}]
      /\ m_Sockfd \in [Fds -> Fds \cup {NoFd}] /\ \A f \in Fds : m_Sockfd[f] \in {f, NoFd}
      /\ \A e \in batch \ {Listen} : e.fd \in Fds /\ conn[e.fd] \in Conns
      /\ \A c \in Conns : object[c] = NoFd => job[c] = "none"
      /\ \A f \in Fds : conn[f] # NoConn => object[conn[f]] = f
  BY DEF TypeOK, Events, PlaceInv
<1> USE RecvAssumption DEF JobInv, Running, peerVars
<1>1. CASE UNCHANGED <<conn, job, object>>
  BY <1>1
<1>2. CASE HandleListen
  <2>1. PICK f \in Fds :
          /\ conn[f] = NoConn
          /\ conn' = [conn EXCEPT ![f] = Head(backlog)]
          /\ object' = [object EXCEPT ![Head(backlog)] = f]
          /\ backlog # <<>> /\ job' = job
    BY <1>2 DEF HandleListen, TakeOne
  <2>2. Head(backlog) \in Conns /\ job[Head(backlog)] = "none"
    BY <1>0, <2>1, HeadTailProperties, LenProperties DEF PlaceInv
  <2>3. QED
    BY <1>0, <2>1, <2>2
<1>3. CASE HandleConnection
  <2>1. PICK e \in batch \ {Listen} :
          /\ job' = job \/ job' = [job EXCEPT ![conn[e.fd]] = "loop"]
          /\ UNCHANGED <<conn, object>>
    BY <1>3 DEF HandleConnection, AppendUnlessClosed
  <2>2. QED
    BY <1>0, <2>1
<1>4. ASSUME NEW c \in Conns, job[c] \in Running, NEW s, job' = [job EXCEPT ![c] = s],
             UNCHANGED <<conn, object>>
      PROVE  JobInv'
  BY <1>0, <1>4
<1>5. ASSUME NEW c \in Conns, JobCall(c) \/ JobReturn(c) \/ JobCheck(c) PROVE JobInv'
  BY <1>4, <1>5 DEF JobCall, JobReturn, JobCheck
<1>6. ASSUME NEW c \in Conns, JobRemove(c) PROVE JobInv'
  <2> DEFINE fd == m_Sockfd[object[c]]
  <2>1. /\ job[c] = "remove" /\ job' = [job EXCEPT ![c] = "clear"]
        /\ conn' = [f \in Fds |-> IF f = fd THEN NoConn ELSE conn[f]]
        /\ object' = object
    BY <1>6 DEF JobRemove
  <2>2. fd \in {object[c], NoFd} /\ conn[object[c]] = c /\ object[c] \in Fds
    BY <1>0, <2>1
  <2> HIDE DEF fd
  <2>3. QED
    BY <1>0, <2>1, <2>2
<1>7. ASSUME NEW c \in Conns, JobClear(c) PROVE JobInv'
  BY <1>0, <1>7 DEF JobClear, NoClose
<1>8. QED
  <2>1. ASSUME NEW c \in Conns, PeerConnects(c) \/ PeerSends(c) \/ PeerExits(c) PROVE JobInv'
    BY <1>1, <2>1 DEF PeerConnects, PeerSends, PeerExits
  <2>2. CASE EpollWait \/ HandleListenFails \/ EndOfBatch \/ UNCHANGED vars
    BY <1>1, <2>2 DEF EpollWait, HandleListenFails, EndOfBatch, vars
  <2>3. QED
    BY <1>2, <1>3, <1>5, <1>6, <1>7, <2>1, <2>2 DEF Next, ManagerStep, JobStep

Inv == TypeOK /\ PlaceInv /\ EventInv /\ JobInv

LEMMA InvCorrect == Spec => []Inv
<1>1. Init => Inv
  BY InitInv DEF Inv
<1>2. Inv /\ [Next]_vars => Inv'
  BY TypeNext, PlaceNext, EventNext, JobNext DEF Inv
<1>3. QED
  BY <1>1, <1>2, PTL DEF Spec

\* The types hold for all connections and descriptors.
THEOREM TypeCorrect == Spec => []TypeOK
<1>1. Inv => TypeOK
  BY DEF Inv
<1>2. QED
  BY <1>1, InvCorrect, PTL

\* No job reads from or closes the connection of another, however objects and
\* descriptors are reused.
THEOREM OwnConnectionCorrect == Spec => []OwnConnection
<1>1. Inv => OwnConnection
  BY DEF Inv, JobInv, Running, OwnConnection
<1>2. QED
  BY <1>1, InvCorrect, PTL

-----------------------------------------------------------------------------
(* The backlog *)

LEMMA ListenNext == Inv /\ ListenInv /\ [Next]_vars => ListenInv'
<1> SUFFICES ASSUME Inv, ListenInv, [Next]_vars PROVE ListenInv'
  OBVIOUS
<1>0. /\ backlog \in Seq(Conns) /\ Len(backlog) \in Nat
      /\ pc = "wait" => batch = {}
  BY LenProperties DEF Inv, TypeOK, EventInv
<1> USE DEF ListenInv, peerVars
<1>1. ASSUME NEW c \in Conns, PeerConnects(c) PROVE ListenInv'
  <2>1. /\ backlog' = Append(backlog, c) /\ (burst' <=> burst \/ listenReady) /\ listenReady' = TRUE
        /\ refused' = refused /\ batch' = batch
    BY <1>1 DEF PeerConnects
  <2>2. Len(backlog') = Len(backlog) + 1
    BY <1>0, <2>1, AppendProperties
  <2>3. CASE burst \/ refused \/ listenReady
    BY <2>1, <2>3
  <2>4. CASE ~burst /\ ~refused /\ ~listenReady
    <3>1. Len(backlog) <= (IF Listen \in batch THEN 1 ELSE 0)
      BY <1>0, <2>4
    <3>2. Len(backlog') <= 1 + (IF Listen \in batch' THEN 1 ELSE 0)
      BY <1>0, <2>1, <2>2, <3>1
    <3>3. QED
      BY <2>1, <3>2
  <2>5. QED
    BY <2>3, <2>4
<1>2. CASE EpollWait
  <2>1. /\ Listen \in batch' <=> listenReady
        /\ listenReady' = FALSE /\ UNCHANGED <<backlog, burst, refused>>
    <3>1. \A f \in Fds : [fd |-> f, rdhup |-> StreamEnded(conn[f])] # Listen
      BY RecvAssumption DEF Listen
    <3>2. batch' = {[fd |-> f, rdhup |-> StreamEnded(conn[f])] : f \in {g \in Fds : Ready(g)}}
                   \cup (IF listenReady THEN {Listen} ELSE {})
      BY <1>2 DEF EpollWait
    <3>3. Listen \in batch' <=> listenReady
      BY ONLY <3>1, <3>2
    <3>4. QED
      BY <1>2, <3>3 DEF EpollWait
  <2>2. Listen \notin batch
    BY <1>0, <1>2 DEF EpollWait
  <2>3. QED
    BY <1>0, <2>1, <2>2
<1>3. CASE HandleListen
  <2>1. /\ Len(backlog') = Len(backlog) - 1 /\ Listen \in batch
        /\ UNCHANGED <<listenReady, burst, refused>> /\ batch' = batch \ {Listen}
    BY <1>0, <1>3, HeadTailProperties DEF HandleListen, TakeOne
  <2>2. QED
    BY <1>0, <2>1
<1>4. CASE HandleListenFails
  BY <1>4 DEF HandleListenFails
<1>5. CASE HandleConnection
  <2>1. /\ Listen \in batch' <=> Listen \in batch
        /\ UNCHANGED <<backlog, listenReady, burst, refused>>
    BY <1>5 DEF HandleConnection
  <2>2. QED
    BY <2>1
<1>6. CASE UNCHANGED <<backlog, listenReady, burst, refused, batch>>
  BY <1>6
<1>7. QED
  <2>1. ASSUME NEW c \in Conns, PeerSends(c) \/ PeerExits(c) \/ JobStep(c)
        PROVE  UNCHANGED <<backlog, listenReady, burst, refused, batch>>
    BY <2>1 DEF PeerSends, PeerExits, JobStep, JobCall, JobReturn, JobCheck, JobRemove, JobClear
  <2>2. EndOfBatch \/ UNCHANGED vars => UNCHANGED <<backlog, listenReady, burst, refused, batch>>
    BY DEF EndOfBatch, vars
  <2>3. QED
    BY <1>1, <1>2, <1>3, <1>4, <1>5, <1>6, <2>1, <2>2 DEF Next, ManagerStep

\* Only a burst of connections, or the lack of descriptors, leaves one in the
\* backlog with no event to come.
THEOREM StrandedOnlyByBurstCorrect == Spec => []StrandedOnlyByBurst
<1>1. Init => ListenInv
  BY InitInv
<1>2. Inv /\ ListenInv => StrandedOnlyByBurst
  <2> SUFFICES ASSUME Inv, ListenInv, backlog # <<>>, ~listenReady, Listen \notin batch
      PROVE  burst \/ refused
    BY DEF StrandedOnlyByBurst
  <2>1. backlog \in Seq(Conns) /\ Len(backlog) \in Nat /\ Len(backlog) # 0
    BY LenProperties, EmptySeq DEF Inv, TypeOK
  <2>2. QED
    BY <2>1 DEF ListenInv
<1>3. QED
  BY <1>1, <1>2, ListenNext, InvCorrect, PTL DEF Spec

-----------------------------------------------------------------------------
(* Whole flows *)

LEMMA EndNext == Inv /\ EndInv /\ [Next]_vars => EndInv'
<1> SUFFICES ASSUME Inv, EndInv, [Next]_vars PROVE EndInv'
  OBVIOUS
<1>0. /\ peer \in [Conns -> PeerStates] /\ job \in [Conns -> JobStates]
      /\ \A e \in batch \ {Listen} : conn[e.fd] \in Conns
  BY DEF Inv, TypeOK, Events
<1> USE DEF EndInv, StreamEnded, peerVars
<1>1. CASE UNCHANGED <<peer, job>>
  BY <1>1
<1>2. ASSUME NEW c \in Conns, ~StreamEnded(c), NEW s, peer' = [peer EXCEPT ![c] = s], job' = job
      PROVE  EndInv'
  BY <1>0, <1>2
<1>3. ASSUME NEW c \in Conns, NEW s, job' = [job EXCEPT ![c] = s], peer' = peer,
             s \in {"eof", "remove", "clear", "complete"} => StreamEnded(c)
      PROVE  EndInv'
  BY <1>0, <1>3
<1>4. ASSUME NEW c \in Conns, PeerConnects(c) \/ PeerSends(c) \/ PeerExits(c) PROVE EndInv'
  BY <1>2, <1>4 DEF PeerConnects, PeerSends, PeerExits
<1>5. CASE HandleConnection
  BY <1>0, <1>1, <1>3, <1>5 DEF HandleConnection, AppendUnlessClosed
<1>6. ASSUME NEW c \in Conns, JobStep(c) PROVE EndInv'
  BY <1>0, <1>3, <1>6
  DEF JobStep, JobCall, JobReturn, JobCheck, JobRemove, JobClear, ContinueAfterData
<1>7. CASE EpollWait \/ HandleListen \/ HandleListenFails \/ EndOfBatch \/ UNCHANGED vars
  BY <1>1, <1>7 DEF EpollWait, HandleListen, HandleListenFails, EndOfBatch, vars
<1>8. QED
  BY <1>4, <1>5, <1>6, <1>7 DEF Next, ManagerStep

\* A job that is complete stays so, in the same object.
LEMMA EarlierStays ==
  ASSUME Inv, [Next]_vars, NEW c \in Conns, NEW f \in Fds, EarlierJob(c, f)
  PROVE  EarlierJob(c, f)'
<1> PICK d \in Conns \ {c} : object[d] = f /\ job[d] = "complete"
  BY DEF EarlierJob
<1>0. /\ backlog \in Seq(Conns)
      /\ job \in [Conns -> JobStates] /\ object \in [Conns -> Fds \cup {NoFd}]
      /\ \A e \in batch \ {Listen} : conn[e.fd] \in Conns /\ job[conn[e.fd]] = "none"
      /\ \A i \in DOMAIN backlog : object[backlog[i]] = NoFd
  BY DEF Inv, TypeOK, Events, EventInv, PlaceInv
<1>1. object'[d] = f
  <2>1. CASE HandleListen
    <3>0. PICK g \in Fds : object' = [object EXCEPT ![Head(backlog)] = g] /\ backlog # <<>>
      BY <2>1 DEF HandleListen, TakeOne
    <3>1. Head(backlog) \in Conns /\ object[Head(backlog)] = NoFd
      BY <1>0, <3>0, HeadTailProperties, LenProperties
    <3>2. QED
      BY <1>0, <3>0, <3>1, RecvAssumption
  <2>2. ASSUME ~HandleListen PROVE object' = object
    BY <2>2 DEF Next, PeerConnects, PeerSends, PeerExits, ManagerStep, EpollWait, HandleListenFails,
       HandleConnection, EndOfBatch, JobStep, JobCall, JobReturn, JobCheck, JobRemove,
       JobClear, vars
  <2>3. QED
    BY <2>1, <2>2
<1>2. job'[d] = "complete"
  <2>1. CASE HandleConnection
    BY <1>0, <2>1 DEF HandleConnection, AppendUnlessClosed
  <2>2. ASSUME NEW k \in Conns, JobStep(k) PROVE job'[d] = "complete"
    BY <1>0, <2>2 DEF JobStep, JobCall, JobReturn, JobCheck, JobRemove, JobClear
  <2>3. ASSUME ~HandleConnection, \A k \in Conns : ~JobStep(k) PROVE job' = job
    BY <2>3 DEF Next, PeerConnects, PeerSends, PeerExits, ManagerStep, EpollWait, HandleListen,
       HandleListenFails, EndOfBatch, vars
  <2>4. QED
    BY <2>1, <2>2, <2>3
<1>3. QED
  BY <1>1, <1>2 DEF EarlierJob

LEMMA ClearedNext == Inv /\ ClearedInv /\ [Next]_vars => ClearedInv'
<1> SUFFICES ASSUME Inv, ClearedInv, [Next]_vars PROVE ClearedInv'
  OBVIOUS
<1> DEFINE Later(c, f) == \E d \in Conns \ {c} : object'[d] = f /\ job'[d] = "complete"
<1>0. /\ backlog \in Seq(Conns) /\ conn \in [Fds -> Conns \cup {NoConn}]
      /\ job \in [Conns -> JobStates] /\ object \in [Conns -> Fds \cup {NoFd}]
      /\ m_Sockfd \in [Fds -> Fds \cup {NoFd}]
      /\ \A e \in batch \ {Listen} : e.fd \in Fds /\ conn[e.fd] \in Conns /\ job[conn[e.fd]] = "none"
      /\ \A c \in Conns : object[c] = NoFd => job[c] = "none"
      /\ \A i \in DOMAIN backlog : object[backlog[i]] = NoFd
      /\ \A f \in Fds : conn[f] # NoConn => conn[f] \in Conns /\ object[conn[f]] = f
  BY DEF Inv, TypeOK, Events, EventInv, PlaceInv
<1>a. \A c \in Conns, f \in Fds : EarlierJob(c, f) => Later(c, f)
  BY EarlierStays DEF EarlierJob
<1> USE RecvAssumption DEF Open, Running, peerVars
<1>1. CASE UNCHANGED <<conn, m_Sockfd, job, object>>
  BY <1>0, <1>1 DEF ClearedInv, EarlierJob
<1>2. CASE HandleListen
  <2>1. PICK f \in Fds :
          /\ conn[f] = NoConn
          /\ conn' = [conn EXCEPT ![f] = Head(backlog)]
          /\ object' = [object EXCEPT ![Head(backlog)] = f]
          /\ m_Sockfd' = [m_Sockfd EXCEPT ![f] = f]
          /\ backlog # <<>> /\ job' = job
    BY <1>2 DEF HandleListen, TakeOne
  <2>2. Head(backlog) \in Conns /\ object[Head(backlog)] = NoFd /\ job[Head(backlog)] = "none"
    BY <1>0, <2>1, HeadTailProperties, LenProperties
  <2>3. ASSUME NEW g \in Fds, conn'[g] # NoConn, job'[conn'[g]] \in Open, m_Sockfd'[g] = NoFd
        PROVE  Later(conn'[g], g)
    <3>1. g # f /\ conn'[g] = conn[g] /\ m_Sockfd[g] = NoFd
      BY <1>0, <2>1, <2>3
    <3>2. EarlierJob(conn[g], g) /\ conn[g] \in Conns
      BY <1>0, <2>1, <2>3, <3>1 DEF ClearedInv
    <3>3. QED
      BY <1>a, <3>1, <3>2
  <2>4. ASSUME NEW c \in Conns, job'[c] = "failed" PROVE Later(c, object'[c])
    <3>1. object'[c] = object[c] /\ object[c] \in Fds /\ EarlierJob(c, object[c])
      BY <1>0, <2>1, <2>2, <2>4 DEF ClearedInv
    <3>2. QED
      BY <1>a, <3>1
  <2>5. QED
    BY <2>3, <2>4 DEF ClearedInv, EarlierJob
\* A job's step, except that which clears its object.
<1>3. ASSUME NEW c \in Conns, NEW s, job' = [job EXCEPT ![c] = s],
             UNCHANGED <<m_Sockfd, object>>,
             \A f \in Fds : conn'[f] # NoConn => conn'[f] = conn[f],
             s \in Open => job[c] \in Open,
             s = "failed" => EarlierJob(c, object[c]) /\ object[c] \in Fds
      PROVE  ClearedInv'
  <2>1. ASSUME NEW g \in Fds, conn'[g] # NoConn, job'[conn'[g]] \in Open, m_Sockfd'[g] = NoFd
        PROVE  Later(conn'[g], g)
    <3>1. conn'[g] = conn[g] /\ conn[g] \in Conns /\ job[conn[g]] \in Open
      BY <1>0, <1>3, <2>1
    <3>2. EarlierJob(conn[g], g)
      BY <1>0, <1>3, <2>1, <3>1 DEF ClearedInv
    <3>3. QED
      BY <1>a, <3>1, <3>2
  <2>2. ASSUME NEW d \in Conns, job'[d] = "failed" PROVE Later(d, object'[d])
    <3>1. EarlierJob(d, object[d]) /\ object[d] \in Fds /\ object'[d] = object[d]
      BY <1>0, <1>3, <2>2 DEF ClearedInv
    <3>2. QED
      BY <1>a, <3>1
  <2>3. QED
    BY <2>1, <2>2 DEF ClearedInv, EarlierJob
<1>4. CASE HandleConnection
  <2>1. PICK e \in batch \ {Listen} :
          /\ job' = job \/ job' = [job EXCEPT ![conn[e.fd]] = "loop"]
          /\ UNCHANGED <<conn, m_Sockfd, object>>
    BY <1>4 DEF HandleConnection, AppendUnlessClosed
  <2>2. CASE job' = job
    BY <1>1, <2>1, <2>2
  <2>3. CASE job' = [job EXCEPT ![conn[e.fd]] = "loop"]
    BY <1>0, <1>3, <2>1, <2>3
  <2>4. QED
    BY <2>1, <2>2, <2>3
<1>5. ASSUME NEW c \in Conns, JobCall(c) PROVE ClearedInv'
  <2>1. m_Sockfd[object[c]] = NoFd => EarlierJob(c, object[c])
    BY <1>0, <1>5 DEF JobCall, Inv, JobInv, ClearedInv
  <2>2. QED
    BY <1>0, <1>3, <1>5, <2>1, ZenonT(30) DEF JobCall
<1>6. ASSUME NEW c \in Conns, JobReturn(c) \/ JobCheck(c) \/ JobRemove(c) PROVE ClearedInv'
  BY <1>0, <1>3, <1>6 DEF JobReturn, JobCheck, JobRemove, ContinueAfterData
<1>7. ASSUME NEW c \in Conns, JobClear(c) PROVE ClearedInv'
  <2>1. /\ job[c] = "clear" /\ job' = [job EXCEPT ![c] = "complete"]
        /\ m_Sockfd' = [m_Sockfd EXCEPT ![object[c]] = NoFd] /\ UNCHANGED <<conn, object>>
    BY <1>7 DEF JobClear, NoClose
  <2>2. ASSUME NEW g \in Fds, conn'[g] # NoConn, job'[conn'[g]] \in Open, m_Sockfd'[g] = NoFd
        PROVE  Later(conn'[g], g)
    <3>1. conn'[g] = conn[g] /\ conn[g] \in Conns /\ conn[g] # c /\ job[conn[g]] \in Open
      BY <1>0, <2>1, <2>2
    <3>2. CASE object[c] = g
      BY <1>0, <2>1, <3>1, <3>2
    <3>3. CASE object[c] # g
      <4>1. EarlierJob(conn[g], g)
        BY <1>0, <2>1, <2>2, <3>1, <3>3 DEF ClearedInv
      <4>2. QED
        BY <1>a, <3>1, <4>1
    <3>4. QED
      BY <3>2, <3>3
  <2>3. ASSUME NEW d \in Conns, job'[d] = "failed" PROVE Later(d, object'[d])
    <3>1. EarlierJob(d, object[d]) /\ object[d] \in Fds /\ object'[d] = object[d]
      BY <1>0, <2>1, <2>3 DEF ClearedInv
    <3>2. QED
      BY <1>a, <3>1
  <2>4. QED
    BY <2>2, <2>3 DEF ClearedInv, EarlierJob
<1>8. QED
  <2>1. ASSUME NEW c \in Conns, PeerConnects(c) \/ PeerSends(c) \/ PeerExits(c) PROVE ClearedInv'
    BY <1>1, <2>1 DEF PeerConnects, PeerSends, PeerExits
  <2>2. CASE EpollWait \/ HandleListenFails \/ EndOfBatch \/ UNCHANGED vars
    BY <1>1, <2>2 DEF EpollWait, HandleListenFails, EndOfBatch, vars
  <2>3. QED
    BY <1>2, <1>4, <1>5, <1>6, <1>7, <2>1, <2>2 DEF Next, ManagerStep, JobStep

\* A job that ends has received the whole flow, or what there is of one whose
\* Sender's process exited, unless an earlier job of its object took its
\* descriptor away.
THEOREM CompleteUnlessReusedCorrect == Spec => []CompleteUnlessReused
<1>1. Init => EndInv /\ ClearedInv
  BY InitInv
<1>2. EndInv /\ ClearedInv => CompleteUnlessReused
  BY DEF EndInv, ClearedInv, EarlierJob, CompleteUnlessReused
<1>3. QED
  BY <1>1, <1>2, EndNext, ClearedNext, InvCorrect, PTL DEF Spec
=============================================================================
