-------------------------- MODULE ThreadPoolProofs --------------------------
(***************************************************************************)
(* Safety of ThreadPool for every number of threads, tasks and callers.    *)
(***************************************************************************)
EXTENDS ThreadPool, FiniteSetTheorems, TLAPS

\* A set that gains or loses at most the element x.
LEMMA OneElement ==
  ASSUME NEW P, NEW Q, NEW x, IsFiniteSet(P), P \ {x} = Q \ {x}
  PROVE  /\ IsFiniteSet(Q)
         /\ Cardinality(P) \in Nat /\ Cardinality(Q) \in Nat
         /\ x \in P /\ x \notin Q => Cardinality(Q) = Cardinality(P) - 1
         /\ x \notin P /\ x \in Q => Cardinality(Q) = Cardinality(P) + 1
         /\ (x \in P <=> x \in Q) => Cardinality(Q) = Cardinality(P)
         /\ x \in P => Cardinality(P) >= 1
<1>1. CASE x \in P /\ x \notin Q
  <2>1. Q = P \ {x}
    BY <1>1
  <2>2. IsFiniteSet(Q) /\ Cardinality(Q) = Cardinality(P) - 1
    BY <1>1, <2>1, FS_RemoveElement
  <2>3. Cardinality(P) \in Nat /\ Cardinality(Q) \in Nat
    BY <2>2, FS_CardinalityType
  <2>4. QED
    BY <1>1, <2>2, <2>3
<1>2. CASE x \notin P /\ x \in Q
  <2>1. Q = P \cup {x}
    BY <1>2
  <2>2. IsFiniteSet(Q) /\ Cardinality(Q) = Cardinality(P) + 1
    BY <1>2, <2>1, FS_AddElement
  <2>3. Cardinality(P) \in Nat /\ Cardinality(Q) \in Nat
    BY <2>2, FS_CardinalityType
  <2>4. QED
    BY <1>2, <2>2, <2>3
<1>3. CASE x \in P <=> x \in Q
  <2>1. Q = P
    BY <1>3
  <2>2. Cardinality(P) \in Nat
    BY FS_CardinalityType
  <2>3. x \in P => Cardinality(P) # 0
    BY FS_EmptySet
  <2>4. QED
    BY <1>3, <2>1, <2>2, <2>3
<1>4. QED
  BY <1>1, <1>2, <1>3

\* The callers of append() are finitely many: main() and the resident tasks.
LEMMA CallersFinite == IsFiniteSet(Callers)
<1>1. Callers = Resident \cup {Main}
  BY DEF Callers
<1>2. QED
  BY <1>1, PoolAssumption, FS_AddElement

\* The sets of threads and callers that the invariants count are finite.
LEMMA CountsAreFinite ==
  /\ \A s : IsFiniteSet(InThread(s)) /\ Cardinality(InThread(s)) \in Nat
  /\ \A S : IsFiniteSet(InCall(S)) /\ Cardinality(InCall(S)) \in Nat
<1>1. \A s : IsFiniteSet(InThread(s))
  BY PoolAssumption, FS_Subset DEF InThread
<1>2. \A S : IsFiniteSet(InCall(S))
  BY CallersFinite, FS_Subset DEF InCall
<1>3. QED
  BY <1>1, <1>2, FS_CardinalityType

\* One thread goes to state v: only its old and its new count change.
LEMMA ThreadMoves ==
  ASSUME NEW t \in Threads, NEW v \in ThreadStates, TypeOK,
         thread' = [thread EXCEPT ![t] = v], NEW s
  PROVE  /\ Cardinality(InThread(s)) \in Nat
         /\ Cardinality(InThread(s)') \in Nat
         /\ thread[t] = s /\ v # s =>
              Cardinality(InThread(s)') = Cardinality(InThread(s)) - 1
         /\ thread[t] # s /\ v = s =>
              Cardinality(InThread(s)') = Cardinality(InThread(s)) + 1
         /\ (thread[t] = s <=> v = s) =>
              Cardinality(InThread(s)') = Cardinality(InThread(s))
         /\ thread[t] = s => Cardinality(InThread(s)) >= 1
<1>1. InThread(s) \ {t} = InThread(s)' \ {t}
  BY DEF InThread, TypeOK
<1>2. (t \in InThread(s) <=> thread[t] = s) /\ (t \in InThread(s)' <=> v = s)
  BY DEF InThread, TypeOK
<1>3. QED
  BY <1>1, <1>2, CountsAreFinite, OneElement

\* One caller goes to state v: likewise.
LEMMA CallerMoves ==
  ASSUME NEW c \in Callers, NEW v \in CallerStates, TypeOK,
         caller' = [caller EXCEPT ![c] = v], NEW S
  PROVE  /\ Cardinality(InCall(S)) \in Nat
         /\ Cardinality(InCall(S)') \in Nat
         /\ caller[c] \in S /\ v \notin S =>
              Cardinality(InCall(S)') = Cardinality(InCall(S)) - 1
         /\ caller[c] \notin S /\ v \in S =>
              Cardinality(InCall(S)') = Cardinality(InCall(S)) + 1
         /\ (caller[c] \in S <=> v \in S) =>
              Cardinality(InCall(S)') = Cardinality(InCall(S))
<1>1. InCall(S) \ {c} = InCall(S)' \ {c}
  BY DEF InCall, TypeOK
<1>2. (c \in InCall(S) <=> caller[c] \in S) /\ (c \in InCall(S)' <=> v \in S)
  BY DEF InCall, TypeOK
<1>3. QED
  BY <1>1, <1>2, CountsAreFinite, OneElement

-----------------------------------------------------------------------------

\* The types hold when the pool was constructed.
LEMMA TypeInit == Init => TypeOK
  BY PoolAssumption DEF Init, TypeOK, ThreadStates, CallerStates

\* Every step of append() and run() keeps the types.
LEMMA TypeNext == TypeOK /\ [Next]_vars => TypeOK'
<1> SUFFICES ASSUME TypeOK, [Next]_vars PROVE TypeOK'
  OBVIOUS
<1> USE DEF TypeOK, ThreadStates, CallerStates
<1>1. ASSUME NEW c \in Callers, NEW k \in Tasks, QueueTask(c, k) PROVE TypeOK'
  <2>1. Append(task_queue_, k) \in Seq(Tasks)
    BY <1>1
  <2>2. QED
    BY <1>1, <2>1 DEF QueueTask
<1>2. ASSUME NEW c \in Callers, TryWait(c) PROVE TypeOK'
  BY <1>2 DEF TryWait
<1>3. ASSUME NEW c \in Callers, GiveUpCreating(c) \/ RetryAtBound(c) PROVE TypeOK'
  BY <1>3 DEF GiveUpCreating, RetryAtBound
<1>4. ASSUME NEW c \in Callers, CreateThread(c) PROVE TypeOK'
  BY <1>4 DEF CreateThread
<1>5. ASSUME NEW c \in Callers, CountThread(c) PROVE TypeOK'
  BY <1>5 DEF CountThread
<1>6. ASSUME NEW c \in Callers, PostTask(c) PROVE TypeOK'
  BY <1>6 DEF PostTask
<1>7. ASSUME NEW t \in Threads, PostFree(t) PROVE TypeOK'
  BY <1>7 DEF PostFree
<1>8. ASSUME NEW t \in Threads, WaitTask(t) PROVE TypeOK'
  BY <1>8 DEF WaitTask
<1>9. ASSUME NEW t \in Threads, FetchTask(t) PROVE TypeOK'
  <2>1. CASE task_queue_ = <<>>
    BY <1>9, <2>1 DEF FetchTask
  <2>2. CASE task_queue_ # <<>>
    <3>1. Head(task_queue_) \in Tasks /\ Tail(task_queue_) \in Seq(Tasks)
      BY <2>2
    <3>2. QED
      BY <1>9, <2>2, <3>1 DEF FetchTask
  <2>3. QED
    BY <2>1, <2>2
<1>10. ASSUME NEW t \in Threads, TaskStep(t) PROVE TypeOK'
  BY <1>10 DEF TaskStep, LetGo, FinishTask, Tasks
<1>11. CASE UNCHANGED vars
  BY <1>11 DEF vars
<1>12. QED
  BY <1>1, <1>2, <1>3, <1>4, <1>5, <1>6, <1>7, <1>8, <1>9, <1>10, <1>11
     DEF Next, CallStep, AppendStep, WorkerStep

\* Every variable of the pool keeps its type; the semaphores never go below 0.
THEOREM TypeCorrect == Spec => []TypeOK
  BY TypeInit, TypeNext, PTL DEF Spec

-----------------------------------------------------------------------------
(* Every queued task has one claim on it *)

\* An empty queue, and nobody on the way to it.
LEMMA AccountedInit == Init => TasksAccounted
<1> SUFFICES ASSUME Init PROVE TasksAccounted
  OBVIOUS
<1> DEFINE calling == InCall({"trywait", "check", "count", "post"})
<1>1. InThread("fetching") = {} /\ calling = {}
  BY DEF Init, InThread, InCall
<1>2. Len(task_queue_) = 0 /\ task_queue_stat_ = 0
  BY DEF Init
<1>3. TasksAccounted <=>
        Len(task_queue_) = task_queue_stat_ + Cardinality(InThread("fetching"))
                           + Cardinality(calling)
  BY DEF TasksAccounted
<1> HIDE DEF calling
<1>4. QED
  BY <1>1, <1>2, <1>3, FS_EmptySet

\* A push, a post, a wait and a pop each change both sides alike.
LEMMA AccountedNext == TypeOK /\ TasksAccounted /\ [Next]_vars => TasksAccounted'
<1> SUFFICES ASSUME TypeOK, TasksAccounted, [Next]_vars PROVE TasksAccounted'
  OBVIOUS
<1> DEFINE fetch == Cardinality(InThread("fetching"))
           call  == Cardinality(InCall({"trywait", "check", "count", "post"}))
<1>0. /\ fetch \in Nat /\ call \in Nat
      /\ thread' = thread => fetch' = fetch
      /\ caller' = caller => call' = call
  BY CountsAreFinite DEF InThread, InCall
<1>a. TasksAccounted <=> Len(task_queue_) = task_queue_stat_ + fetch + call
  BY DEF TasksAccounted
<1>b. TasksAccounted' <=> Len(task_queue_') = task_queue_stat_' + fetch' + call'
  BY DEF TasksAccounted
<1> HIDE DEF fetch, call
<1>1. ASSUME NEW c \in Callers, NEW k \in Tasks, QueueTask(c, k) PROVE TasksAccounted'
  <2>1. CASE Len(task_queue_) > max_task_num_
    BY <1>0, <1>1, <1>a, <1>b, <2>1 DEF QueueTask
  <2>2. CASE ~(Len(task_queue_) > max_task_num_)
    <3>1. call' = call + 1
      BY <1>1, <2>2, CallerMoves DEF QueueTask, call, CallerStates
    <3>2. Len(task_queue_') = Len(task_queue_) + 1
      BY <1>1, <2>2 DEF QueueTask, TypeOK
    <3>3. QED
      <4>1. fetch' = fetch /\ task_queue_stat_' = task_queue_stat_
        BY <1>0, <1>1 DEF QueueTask
      <4>2. Len(task_queue_) \in Nat /\ task_queue_stat_ \in Nat
        BY DEF TypeOK
      <4>3. QED
        BY <1>0, <1>a, <1>b, <3>1, <3>2, <4>1, <4>2
  <2>3. QED
    BY <2>1, <2>2
<1>2. ASSUME NEW c \in Callers,
             TryWait(c) \/ GiveUpCreating(c) \/ CreateThread(c) \/ CountThread(c)
               \/ RetryAtBound(c)
      PROVE  TasksAccounted'
  <2>1. call' = call
    <3>1. PICK v \in {"post", "check", "count", "trywait"} :
            caller' = [caller EXCEPT ![c] = v]
      BY <1>2 DEF TryWait, GiveUpCreating, CreateThread, CountThread, RetryAtBound
    <3>2. caller[c] \in {"trywait", "check", "count"}
      BY <1>2 DEF TryWait, GiveUpCreating, CreateThread, CountThread, RetryAtBound
    <3>3. QED
      BY <3>1, <3>2, CallerMoves, ZenonT(30) DEF call, CallerStates
  <2>2. fetch' = fetch
    <3>1. CASE CreateThread(c)
      <4>1. PICK t \in Threads : thread[t] = "unborn"
                                 /\ thread' = [thread EXCEPT ![t] = "starting"]
        BY <3>1 DEF CreateThread
      <4>2. QED
        BY <4>1, ThreadMoves, ZenonT(30) DEF fetch, ThreadStates
    <3>2. CASE ~CreateThread(c)
      BY <1>0, <1>2, <3>2 DEF TryWait, GiveUpCreating, CountThread, RetryAtBound
    <3>3. QED
      BY <3>1, <3>2
  <2>3. UNCHANGED <<task_queue_, task_queue_stat_>>
    BY <1>2 DEF TryWait, GiveUpCreating, CreateThread, CountThread, RetryAtBound
  <2>4. QED
    BY <1>a, <1>b, <2>1, <2>2, <2>3
<1>3. ASSUME NEW c \in Callers, PostTask(c) PROVE TasksAccounted'
  <2>1. call' = call - 1
    BY <1>3, CallerMoves DEF PostTask, call, CallerStates
  <2>2. QED
    BY <1>0, <1>3, <1>a, <1>b, <2>1 DEF PostTask, TypeOK
<1>4. ASSUME NEW t \in Threads, PostFree(t) \/ TaskStep(t) PROVE TasksAccounted'
  <2>1. fetch' = fetch
    BY <1>4, ThreadMoves DEF PostFree, TaskStep, LetGo, FinishTask, fetch, ThreadStates
  <2>2. QED
    BY <1>0, <1>4, <1>a, <1>b, <2>1 DEF PostFree, TaskStep, LetGo, FinishTask
<1>5. ASSUME NEW t \in Threads, WaitTask(t) PROVE TasksAccounted'
  <2>1. fetch' = fetch + 1
    BY <1>5, ThreadMoves DEF WaitTask, fetch, ThreadStates
  <2>2. QED
    BY <1>0, <1>5, <1>a, <1>b, <2>1 DEF WaitTask, TypeOK
<1>6. ASSUME NEW t \in Threads, FetchTask(t) PROVE TasksAccounted'
  \* A thread that fetches has a claim, so the queue is not empty.
  <2>1. fetch >= 1
    <3>1. thread[t] = "fetching"
      BY <1>6 DEF FetchTask
    <3>2. PICK v \in ThreadStates : thread' = [thread EXCEPT ![t] = v]
      BY <1>6 DEF FetchTask, ThreadStates
    <3>3. Cardinality(InThread("fetching")) >= 1
      BY <3>1, <3>2, ThreadMoves
    <3>4. QED
      BY <3>3 DEF fetch
  <2>2. task_queue_ # <<>>
    BY <1>0, <1>a, <2>1 DEF TypeOK
  <2>3. fetch' = fetch - 1
    BY <1>6, <2>2, ThreadMoves DEF FetchTask, fetch, ThreadStates
  <2>4. Len(task_queue_') = Len(task_queue_) - 1
    BY <1>6, <2>2 DEF FetchTask, TypeOK
  <2>5. QED
    BY <1>0, <1>6, <1>a, <1>b, <2>2, <2>3, <2>4 DEF FetchTask, TypeOK
<1>7. CASE UNCHANGED vars
  BY <1>0, <1>7, <1>a, <1>b DEF vars
<1>8. QED
  BY <1>1, <1>2, <1>3, <1>4, <1>5, <1>6, <1>7
     DEF Next, CallStep, AppendStep, WorkerStep

\* For every queued task there is a post, or a thread or a caller on its way: no
\* task of append() can be left behind with nobody to wake for it.
THEOREM AccountedCorrect == Spec => []TasksAccounted
<1>1. Init => TypeOK /\ TasksAccounted
  BY TypeInit, AccountedInit
<1>2. (TypeOK /\ TasksAccounted) /\ [Next]_vars => (TypeOK /\ TasksAccounted)'
  BY TypeNext, AccountedNext
<1>3. QED
  BY <1>1, <1>2, PTL DEF Spec

-----------------------------------------------------------------------------
(* With no limit on threads, an idle thread for each task *)

\* No token, no post and no waiting thread.
LEMMA IdleInit == Init => IdleThreadPerTask
<1> SUFFICES ASSUME Init PROVE IdleThreadPerTask
  OBVIOUS
<1> DEFINE posting == InCall({"post"})
<1>1. InThread("waiting") = {} /\ posting = {}
  BY DEF Init, InThread, InCall
<1>2. task_queue_stat_ = 0 /\ free_thread_stat_ = 0
  BY DEF Init
<1>3. IdleThreadPerTask <=>
        (max_thread_num_ = 0 =>
           Cardinality(InThread("waiting")) = task_queue_stat_ + free_thread_stat_
                                              + Cardinality(posting))
  BY DEF IdleThreadPerTask
<1> HIDE DEF posting
<1>4. QED
  BY <1>1, <1>2, <1>3, FS_EmptySet

\* A token is a waiting thread, and goes to the task that took it.
LEMMA IdleNext == TypeOK /\ IdleThreadPerTask /\ [Next]_vars => IdleThreadPerTask'
<1> SUFFICES ASSUME TypeOK, IdleThreadPerTask, [Next]_vars, max_thread_num_ = 0
             PROVE  IdleThreadPerTask'
  BY DEF IdleThreadPerTask
<1> DEFINE idle == Cardinality(InThread("waiting"))
           post == Cardinality(InCall({"post"}))
<1>0. /\ idle \in Nat /\ post \in Nat
      /\ thread' = thread => idle' = idle
      /\ caller' = caller => post' = post
      /\ task_queue_stat_ \in Nat /\ free_thread_stat_ \in Nat
  BY CountsAreFinite DEF InThread, InCall, TypeOK
<1>a. idle = task_queue_stat_ + free_thread_stat_ + post
  BY DEF IdleThreadPerTask
<1>b. IdleThreadPerTask' <=> idle' = task_queue_stat_' + free_thread_stat_' + post'
  BY DEF IdleThreadPerTask
<1> HIDE DEF idle, post
<1>1. ASSUME NEW c \in Callers, NEW k \in Tasks, QueueTask(c, k) PROVE IdleThreadPerTask'
  <2>1. post' = post
    BY <1>0, <1>1, CallerMoves DEF QueueTask, post, CallerStates
  <2>2. QED
    BY <1>0, <1>1, <1>a, <1>b, <2>1 DEF QueueTask
<1>2. ASSUME NEW c \in Callers, TryWait(c) PROVE IdleThreadPerTask'
  <2>1. CASE free_thread_stat_ > 0
    <3>1. post' = post + 1
      BY <1>2, <2>1, CallerMoves DEF TryWait, post, CallerStates
    <3>2. QED
      BY <1>0, <1>2, <1>a, <1>b, <2>1, <3>1 DEF TryWait
  <2>2. CASE ~(free_thread_stat_ > 0)
    <3>1. post' = post
      BY <1>2, <2>2, CallerMoves DEF TryWait, post, CallerStates
    <3>2. QED
      BY <1>0, <1>2, <1>a, <1>b, <2>2, <3>1 DEF TryWait
  <2>3. QED
    BY <2>1, <2>2
<1>3. ASSUME NEW c \in Callers, GiveUpCreating(c) PROVE IdleThreadPerTask'
  BY <1>3 DEF GiveUpCreating, AtThreadLimit
<1>4. ASSUME NEW c \in Callers, CreateThread(c) PROVE IdleThreadPerTask'
  <2>1. post' = post
    BY <1>4, CallerMoves DEF CreateThread, post, CallerStates
  <2>2. PICK t \in Threads : thread[t] = "unborn"
                             /\ thread' = [thread EXCEPT ![t] = "starting"]
    BY <1>4 DEF CreateThread
  <2>3. idle' = idle
    BY <2>2, ThreadMoves DEF idle, ThreadStates
  <2>4. QED
    BY <1>4, <1>a, <1>b, <2>1, <2>3 DEF CreateThread
<1>5. ASSUME NEW c \in Callers, CountThread(c) \/ RetryAtBound(c) PROVE IdleThreadPerTask'
  <2>1. post' = post
    BY <1>5, CallerMoves DEF CountThread, RetryAtBound, post, CallerStates
  <2>2. QED
    BY <1>0, <1>5, <1>a, <1>b, <2>1 DEF CountThread, RetryAtBound
<1>6. ASSUME NEW c \in Callers, PostTask(c) PROVE IdleThreadPerTask'
  <2>1. post' = post - 1
    BY <1>6, CallerMoves DEF PostTask, post, CallerStates
  <2>2. QED
    BY <1>0, <1>6, <1>a, <1>b, <2>1 DEF PostTask
<1>7. ASSUME NEW t \in Threads, PostFree(t) PROVE IdleThreadPerTask'
  <2>1. idle' = idle + 1
    BY <1>7, ThreadMoves DEF PostFree, idle, ThreadStates
  <2>2. QED
    BY <1>0, <1>7, <1>a, <1>b, <2>1 DEF PostFree
<1>8. ASSUME NEW t \in Threads, WaitTask(t) PROVE IdleThreadPerTask'
  <2>1. idle' = idle - 1
    BY <1>8, ThreadMoves DEF WaitTask, idle, ThreadStates
  <2>2. QED
    BY <1>0, <1>8, <1>a, <1>b, <2>1 DEF WaitTask
<1>9. ASSUME NEW t \in Threads, FetchTask(t) \/ TaskStep(t) PROVE IdleThreadPerTask'
  <2>1. idle' = idle
    BY <1>9, ThreadMoves DEF FetchTask, TaskStep, LetGo, FinishTask, idle, ThreadStates
  <2>2. QED
    BY <1>0, <1>9, <1>a, <1>b, <2>1 DEF FetchTask, TaskStep, LetGo, FinishTask
<1>10. CASE UNCHANGED vars
  BY <1>0, <1>10, <1>a, <1>b DEF vars
<1>11. QED
  BY <1>1, <1>2, <1>3, <1>4, <1>5, <1>6, <1>7, <1>8, <1>9, <1>10
     DEF Next, CallStep, AppendStep, WorkerStep

\* With thread_num 0 no posted task waits for another task to return, so the
\* tasks that never return cannot starve the others.
THEOREM IdleCorrect == Spec => []IdleThreadPerTask
<1>1. Init => TypeOK /\ IdleThreadPerTask
  BY TypeInit, IdleInit
<1>2. (TypeOK /\ IdleThreadPerTask) /\ [Next]_vars => (TypeOK /\ IdleThreadPerTask)'
  BY TypeNext, IdleNext
<1>3. QED
  BY <1>1, <1>2, PTL DEF Spec

-----------------------------------------------------------------------------
(* How far the number of threads can exceed its limit *)

\* A caller between its look at the limit and its count is one thread to come.
OvershootInv ==
  max_thread_num_ > 0 =>
    created_thread_num_ + Cardinality(InCall({"count"}))
      <= max_thread_num_ + Cardinality(Callers) - 1

\* No thread was created and no caller is creating one.
LEMMA OvershootInit == Init => OvershootInv
<1> SUFFICES ASSUME Init, max_thread_num_ > 0 PROVE OvershootInv
  BY DEF OvershootInv
<1>1. InCall({"count"}) = {}
  BY DEF Init, InCall
<1>2. Cardinality(Callers) \in Nat /\ Cardinality(Callers) # 0
  BY CallersFinite, FS_CardinalityType, FS_EmptySet DEF Callers
<1>3. max_thread_num_ \in Nat /\ created_thread_num_ = 0
  BY PoolAssumption DEF Init
<1>4. Cardinality(InCall({"count"})) = 0
  BY <1>1, FS_EmptySet
<1>5. QED
  BY <1>2, <1>3, <1>4 DEF OvershootInv

\* Who creates a thread read a count below the limit, and the others that
\* read it too are callers about to count.
LEMMA OvershootNext == TypeOK /\ OvershootInv /\ [Next]_vars => OvershootInv'
<1> SUFFICES ASSUME TypeOK, OvershootInv, [Next]_vars, max_thread_num_ > 0
             PROVE  OvershootInv'
  BY DEF OvershootInv
<1> DEFINE count == Cardinality(InCall({"count"}))
           all   == Cardinality(Callers)
<1>0. /\ count \in Nat /\ all \in Nat /\ count' \in Nat
      /\ caller' = caller => count' = count
      /\ max_thread_num_ \in Nat /\ created_thread_num_ \in Nat
  <2>1. count \in Nat
    BY CountsAreFinite
  <2>2. caller' = caller => count' = count
    BY DEF InCall
  <2>3. IsFiniteSet(InCall({"count"})')
    BY CallersFinite, FS_Subset DEF InCall
  <2>4. count' \in Nat /\ all \in Nat
    BY <2>3, CallersFinite, FS_CardinalityType
  <2>5. QED
    BY <2>1, <2>2, <2>4, PoolAssumption DEF TypeOK
<1>a. created_thread_num_ + count <= max_thread_num_ + all - 1
  BY DEF OvershootInv
<1>b. OvershootInv' <=> created_thread_num_' + count' <= max_thread_num_ + all - 1
  BY DEF OvershootInv
<1>c. count' <= all
  BY CallersFinite, FS_Subset DEF InCall
<1> HIDE DEF count, all
<1>1. ASSUME NEW c \in Callers,
             (\E k \in Tasks : QueueTask(c, k)) \/ TryWait(c) \/ GiveUpCreating(c)
               \/ RetryAtBound(c) \/ PostTask(c)
      PROVE  OvershootInv'
  <2>1. count' = count
    <3>1. CASE caller' = caller
      BY <1>0, <3>1
    <3>2. CASE \E v \in {"out", "trywait", "check", "post"} :
                 caller[c] # "count" /\ caller' = [caller EXCEPT ![c] = v]
      BY <3>2, CallerMoves, ZenonT(30) DEF count, CallerStates
    <3>3. CASE \E k \in Tasks : QueueTask(c, k)
      BY <3>1, <3>2, <3>3 DEF QueueTask
    <3>4. QED
      BY <1>1, <3>2, <3>3 DEF TryWait, GiveUpCreating, RetryAtBound, PostTask
  <2>2. created_thread_num_' = created_thread_num_
    BY <1>1 DEF QueueTask, TryWait, GiveUpCreating, RetryAtBound, PostTask
  <2>3. QED
    BY <1>a, <1>b, <2>1, <2>2
\* The limit was not reached, and there are no more callers than there are.
<1>2. ASSUME NEW c \in Callers, CreateThread(c) PROVE OvershootInv'
  <2>1. created_thread_num_ < max_thread_num_ /\ created_thread_num_' = created_thread_num_
    BY <1>0, <1>2 DEF CreateThread, AtThreadLimit
  <2>2. created_thread_num_ <= max_thread_num_ - 1
    BY <1>0, <2>1
  <2>3. \A m, n \in Nat : \A i, j \in Nat :
          i <= m - 1 /\ j <= n => i + j <= m + n - 1
    OBVIOUS
  <2>4. created_thread_num_' + count' <= max_thread_num_ + all - 1
    BY <1>0, <1>c, <2>1, <2>2, <2>3
  <2>5. QED
    BY <1>b, <2>4
<1>3. ASSUME NEW c \in Callers, CountThread(c) PROVE OvershootInv'
  <2>1. count' = count - 1
    BY <1>3, CallerMoves DEF CountThread, count, CallerStates
  <2>2. QED
    BY <1>0, <1>3, <1>a, <1>b, <2>1 DEF CountThread
<1>4. ASSUME NEW t \in Threads, WorkerStep(t) \/ TaskStep(t) PROVE OvershootInv'
  <2>1. caller' = caller /\ created_thread_num_' = created_thread_num_
    BY <1>4 DEF WorkerStep, PostFree, WaitTask, FetchTask, TaskStep, LetGo, FinishTask
  <2>2. QED
    BY <1>0, <1>a, <1>b, <2>1
<1>5. CASE UNCHANGED vars
  BY <1>0, <1>5, <1>a, <1>b DEF vars
<1>6. QED
  BY <1>1, <1>2, <1>3, <1>4, <1>5 DEF Next, CallStep, AppendStep

\* The unlocked read of the count lets the pool exceed its limit by at most one
\* thread for each caller but one.
THEOREM OvershootCorrect == Spec => []OvershootBounded
<1>1. Init => TypeOK /\ OvershootInv
  BY TypeInit, OvershootInit
<1>2. (TypeOK /\ OvershootInv) /\ [Next]_vars => (TypeOK /\ OvershootInv)'
  BY TypeNext, OvershootNext
<1>3. TypeOK /\ OvershootInv => OvershootBounded
  <2> SUFFICES ASSUME TypeOK, OvershootInv, max_thread_num_ > 0
               PROVE  created_thread_num_ <= max_thread_num_ + Cardinality(Callers) - 1
    BY DEF OvershootBounded
  <2>1. /\ Cardinality(InCall({"count"})) \in Nat /\ Cardinality(Callers) \in Nat
        /\ max_thread_num_ \in Nat /\ created_thread_num_ \in Nat
    BY CountsAreFinite, CallersFinite, FS_CardinalityType, PoolAssumption DEF TypeOK
  <2>2. QED
    BY <2>1 DEF OvershootInv
<1>4. QED
  BY <1>1, <1>2, <1>3, PTL DEF Spec

-----------------------------------------------------------------------------
(* An object has one live claim *)

\* OneLiveRun, and the object of a live claim cannot be appended; a thread that
\* runs nothing has no object.
LiveClaimInv ==
  /\ OneLiveRun
  /\ \A i \in DOMAIN task_queue_ : task_queue_[i] \notin appendable
  /\ \A t \in InThread("running") : working[t] \notin appendable

\* Nothing is queued or running.
LEMMA LiveClaimInit == Init => LiveClaimInv
  BY DEF Init, LiveClaimInv, OneLiveRun, InThread

\* A push takes the object from appendable, a pop hands it to one thread, and
\* the thread that lets it go has the last live claim.
LEMMA LiveClaimNext == TypeOK /\ LiveClaimInv /\ [Next]_vars => LiveClaimInv'
<1> SUFFICES ASSUME TypeOK, LiveClaimInv, [Next]_vars PROVE LiveClaimInv'
  OBVIOUS
<1>1. ASSUME UNCHANGED <<task_queue_, working, appendable>>,
             InThread("running")' = InThread("running")
      PROVE  LiveClaimInv'
  BY <1>1 DEF LiveClaimInv, OneLiveRun
<1>2. ASSUME NEW c \in Callers, NEW k \in Tasks, QueueTask(c, k) PROVE LiveClaimInv'
  <2>1. /\ k \in appendable /\ appendable' = appendable \ {k}
        /\ UNCHANGED working /\ InThread("running")' = InThread("running")
    BY <1>2 DEF QueueTask, InThread
  <2>2. CASE UNCHANGED task_queue_
    BY <2>1, <2>2 DEF LiveClaimInv, OneLiveRun
  <2>3. CASE task_queue_' = Append(task_queue_, k)
    <3>1. /\ DOMAIN task_queue_' = DOMAIN task_queue_ \cup {Len(task_queue_) + 1}
          /\ \A i \in DOMAIN task_queue_ : task_queue_'[i] = task_queue_[i]
          /\ task_queue_'[Len(task_queue_) + 1] = k
      BY <2>3 DEF TypeOK
    <3>2. \A i \in DOMAIN task_queue_ : task_queue_[i] # k
      BY <2>1 DEF LiveClaimInv
    <3>3. \A t \in InThread("running") : working[t] # k
      BY <2>1 DEF LiveClaimInv
    <3>4. QED
      BY <2>1, <3>1, <3>2, <3>3 DEF LiveClaimInv, OneLiveRun
  <2>4. QED
    BY <1>2, <2>2, <2>3 DEF QueueTask
<1>3. ASSUME NEW t \in Threads, FetchTask(t), task_queue_ # <<>> PROVE LiveClaimInv'
  <2>1. /\ working' = [working EXCEPT ![t] = task_queue_[1]]
        /\ task_queue_' = Tail(task_queue_)
        /\ UNCHANGED appendable
    BY <1>3 DEF FetchTask
  <2>2. 1 \in DOMAIN task_queue_
    BY <1>3 DEF TypeOK
  <2>3. \A i \in DOMAIN task_queue_' :
          i + 1 \in DOMAIN task_queue_ /\ i + 1 # 1 /\ task_queue_'[i] = task_queue_[i + 1]
    BY <1>3, <2>1 DEF TypeOK
  <2>4. \A i, j \in DOMAIN task_queue_' : i + 1 = j + 1 => i = j
    BY <2>1 DEF TypeOK
  <2>5. /\ \A u \in Threads : working'[u] = IF u = t THEN task_queue_[1] ELSE working[u]
        /\ \A u \in InThread("running")' : u \in Threads /\ (u = t \/ u \in InThread("running"))
    BY <1>3, <2>1 DEF FetchTask, InThread, TypeOK
  <2>6. \A i, j \in DOMAIN task_queue_' : task_queue_'[i] = task_queue_'[j] => i = j
    BY <2>3, <2>4 DEF LiveClaimInv, OneLiveRun
  <2>7. \A u, v \in InThread("running")' : working'[u] = working'[v] => u = v
    BY <2>2, <2>5 DEF LiveClaimInv, OneLiveRun
  <2>8. \A i \in DOMAIN task_queue_' : /\ task_queue_'[i] \notin appendable'
                                       /\ \A u \in InThread("running")' :
                                            working'[u] # task_queue_'[i]
    BY <2>1, <2>2, <2>3, <2>5 DEF LiveClaimInv, OneLiveRun
  <2>9. \A u \in InThread("running")' : working'[u] \notin appendable'
    BY <2>1, <2>2, <2>5 DEF LiveClaimInv
  <2>10. QED
    BY <2>6, <2>7, <2>8, <2>9 DEF LiveClaimInv, OneLiveRun
\* The object that becomes appendable is neither queued nor run by another.
<1>4. ASSUME NEW t \in Threads, LetGo(t) PROVE LiveClaimInv'
  <2>1. /\ UNCHANGED <<task_queue_, working>>
        /\ appendable' = appendable \cup {working[t]}
        /\ t \in InThread("running")
        /\ InThread("running")' = InThread("running") \ {t}
    BY <1>4 DEF LetGo, InThread, TypeOK
  <2>2. QED
    BY <2>1 DEF LiveClaimInv, OneLiveRun
<1>5. ASSUME NEW t \in Threads, FinishTask(t) PROVE LiveClaimInv'
  <2>1. /\ UNCHANGED <<task_queue_, appendable>>
        /\ t \notin InThread("running")'
        /\ \A u \in InThread("running")' : u \in InThread("running") /\ working'[u] = working[u]
    BY <1>5 DEF FinishTask, InThread, TypeOK
  <2>2. QED
    BY <2>1 DEF LiveClaimInv, OneLiveRun
<1>6. ASSUME NEW c \in Callers, AppendStep(c) PROVE LiveClaimInv'
  <2>1. UNCHANGED <<task_queue_, working, appendable>>
    BY <1>6 DEF AppendStep, TryWait, GiveUpCreating, CreateThread, CountThread,
                RetryAtBound, PostTask
  <2>2. CASE CreateThread(c)
    BY <1>1, <2>1, <2>2 DEF CreateThread, InThread, TypeOK
  <2>3. CASE ~CreateThread(c)
    BY <1>1, <1>6, <2>1, <2>3 DEF AppendStep, TryWait, GiveUpCreating, CountThread,
                                  RetryAtBound, PostTask, InThread
  <2>4. QED
    BY <2>2, <2>3
<1>7. ASSUME NEW t \in Threads, PostFree(t) \/ WaitTask(t) \/ (FetchTask(t) /\ task_queue_ = <<>>)
      PROVE  LiveClaimInv'
  BY <1>1, <1>7 DEF PostFree, WaitTask, FetchTask, InThread, TypeOK
<1>8. CASE UNCHANGED vars
  BY <1>1, <1>8 DEF vars, InThread
<1>9. QED
  BY <1>2, <1>3, <1>4, <1>5, <1>6, <1>7, <1>8 DEF Next, CallStep, WorkerStep, TaskStep

\* No object is queued twice, or queued or run by a second thread before its last
\* run has let it go, however often the callers append it again.
THEOREM OneLiveRunCorrect == Spec => []OneLiveRun
<1>1. Init => TypeOK /\ LiveClaimInv
  BY TypeInit, LiveClaimInit
<1>2. (TypeOK /\ LiveClaimInv) /\ [Next]_vars => (TypeOK /\ LiveClaimInv)'
  BY TypeNext, LiveClaimNext
<1>3. LiveClaimInv => OneLiveRun
  BY DEF LiveClaimInv
<1>4. QED
  BY <1>1, <1>2, <1>3, PTL DEF Spec
=============================================================================
