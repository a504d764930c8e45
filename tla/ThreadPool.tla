----------------------------- MODULE ThreadPool -----------------------------
(***************************************************************************)
(* The thread pool of src/common/lib/ThreadPool.{h,cpp}.                   *)
(*                                                                         *)
(* append() is called by several threads of control at once: the main      *)
(* thread of a client submits the resident tasks RecvManager and           *)
(* SendManager, whose run() never returns, and each of them submits its    *)
(* jobs (ReceFile, Sender) from the pool thread it occupies.  The master's *)
(* pool is the simple case of one job, the Scheduler, and no resident task.*)
(*                                                                         *)
(* A task is an object, and the same object is appended again: a ReceFile  *)
(* is an element of the array receFiles, for every connection that gets    *)
(* its descriptor, and a new Sender can have the address of a deleted one. *)
(* Both can happen while the old run() has a few instructions left.        *)
(*                                                                         *)
(* One action is one region between two accesses to shared state: a mutex  *)
(* section, a semaphore operation, or a read of created_thread_num_ that   *)
(* the code makes without a lock.  stop_ is set by the destructor only,    *)
(* which neither program reaches, so "while (!stop_)" always continues.    *)
(***************************************************************************)
EXTENDS Naturals, Sequences, FiniteSets

CONSTANTS
  Threads,          \* pthreads that can be created: bounds increase_a_thread
  Main,             \* the caller that is not a pool task: main()
  Resident,         \* tasks whose run() never returns
  ReceFiles,        \* the elements of receFiles, which receive a flow each time
  Senders,          \* the addresses of Sender objects
  Submitter,        \* Submitter[k]: the caller that appends task k
  max_thread_num_,  \* 0 means unlimited
  max_task_num_,
  NoTask

Jobs    == ReceFiles \cup Senders
Tasks   == Resident \cup Jobs
Callers == {Main} \cup Resident

ASSUME PoolAssumption ==
  /\ IsFiniteSet(Threads)
  /\ IsFiniteSet(Resident)
  /\ Resident \cap Jobs = {}
  /\ Main \notin Tasks
  /\ NoTask \notin Tasks
  /\ Submitter \in [Tasks -> Callers]
  /\ max_thread_num_ \in Nat
  /\ max_task_num_ \in Nat \ {0}

VARIABLES
  task_queue_,          \* std::list of submitted tasks
  free_thread_stat_,    \* semaphore: threads that announced themselves free
  task_queue_stat_,     \* semaphore: posted tasks
  created_thread_num_,
  thread,               \* where each pthread is in run()
  working,              \* the task a thread runs
  caller,               \* where each caller is in append()
  appendable            \* tasks that can be appended: new, or let go by their last run

vars == <<task_queue_, free_thread_stat_, task_queue_stat_,
          created_thread_num_, thread, working, caller, appendable>>

ThreadStates == {"unborn", "starting", "waiting", "fetching", "running", "leaving"}
CallerStates == {"out", "trywait", "check", "count", "post"}

TypeOK ==
  /\ task_queue_ \in Seq(Tasks)
  /\ free_thread_stat_ \in Nat
  /\ task_queue_stat_ \in Nat
  /\ created_thread_num_ \in Nat
  /\ thread \in [Threads -> ThreadStates]
  /\ working \in [Threads -> Tasks \cup {NoTask}]
  /\ caller \in [Callers -> CallerStates]
  /\ appendable \in SUBSET Tasks

Init ==
  /\ task_queue_ = <<>>
  /\ free_thread_stat_ = 0
  /\ task_queue_stat_ = 0
  /\ created_thread_num_ = 0
  /\ thread = [t \in Threads |-> "unborn"]
  /\ working = [t \in Threads |-> NoTask]
  /\ caller = [c \in Callers |-> "out"]
  /\ appendable = Tasks

-----------------------------------------------------------------------------
(* append(), in the thread of caller c *)

\* A resident task can submit jobs only from the thread that runs it.
CanCall(c) == c = Main \/ \E t \in Threads : working[t] = c

\* The section under task_queue_locker_.  A full queue rejects the task:
\* append returns false, which every caller of this program ignores.
QueueTask(c, k) ==
  /\ CanCall(c)
  /\ caller[c] = "out"
  /\ k \in appendable
  /\ Submitter[k] = c
  /\ appendable' = appendable \ {k}
  /\ IF Len(task_queue_) > max_task_num_
       THEN UNCHANGED <<task_queue_, caller>>
       ELSE /\ task_queue_' = Append(task_queue_, k)
            /\ caller' = [caller EXCEPT ![c] = "trywait"]
  /\ UNCHANGED <<free_thread_stat_, task_queue_stat_, created_thread_num_,
                 thread, working>>

\* Mutant: the semaphore is decremented without looking at it.
TryWaitUnchecked(c) ==
  /\ caller[c] = "trywait"
  /\ free_thread_stat_' = free_thread_stat_ - 1
  /\ caller' = [caller EXCEPT ![c] = "post"]
  /\ UNCHANGED <<task_queue_, task_queue_stat_, created_thread_num_, thread,
                 working, appendable>>

\* Mutant: append returns as soon as a free thread is found, before the post.
TryWaitWithoutPost(c) ==
  /\ caller[c] = "trywait"
  /\ IF free_thread_stat_ > 0
       THEN /\ free_thread_stat_' = free_thread_stat_ - 1
            /\ caller' = [caller EXCEPT ![c] = "out"]
       ELSE /\ caller' = [caller EXCEPT ![c] = "check"]
            /\ UNCHANGED free_thread_stat_
  /\ UNCHANGED <<task_queue_, task_queue_stat_, created_thread_num_, thread,
                 working, appendable>>

\* Mutant: the count of free threads is looked at and not taken.
TryWaitKeepsToken(c) ==
  /\ caller[c] = "trywait"
  /\ caller' = [caller EXCEPT ![c] = IF free_thread_stat_ > 0 THEN "post" ELSE "check"]
  /\ UNCHANGED <<task_queue_, free_thread_stat_, task_queue_stat_,
                 created_thread_num_, thread, working, appendable>>

\* free_thread_stat_.tryWait(): a token leaves the loop, none looks at the limit.
TryWait(c) ==
  /\ caller[c] = "trywait"
  /\ IF free_thread_stat_ > 0
       THEN /\ free_thread_stat_' = free_thread_stat_ - 1
            /\ caller' = [caller EXCEPT ![c] = "post"]
       ELSE /\ caller' = [caller EXCEPT ![c] = "check"]
            /\ UNCHANGED free_thread_stat_
  /\ UNCHANGED <<task_queue_, task_queue_stat_, created_thread_num_, thread,
                 working, appendable>>

\* Mutants: zero no longer means unlimited; off by one.
ZeroIsLimit    == created_thread_num_ >= max_thread_num_
LimitOffByOne  == max_thread_num_ > 0 /\ created_thread_num_ > max_thread_num_

\* Read with no lock held.
AtThreadLimit == max_thread_num_ > 0 /\ created_thread_num_ >= max_thread_num_

\* The limit is reached: no new thread, the loop is left without a token.
GiveUpCreating(c) ==
  /\ caller[c] = "check"
  /\ AtThreadLimit
  /\ caller' = [caller EXCEPT ![c] = "post"]
  /\ UNCHANGED <<task_queue_, free_thread_stat_, task_queue_stat_,
                 created_thread_num_, thread, working, appendable>>

\* increase_a_thread(): pthread_create ...
CreateThread(c) ==
  /\ caller[c] = "check"
  /\ ~AtThreadLimit
  /\ \E t \in Threads :
       /\ thread[t] = "unborn"
       /\ thread' = [thread EXCEPT ![t] = "starting"]
  /\ caller' = [caller EXCEPT ![c] = "count"]
  /\ UNCHANGED <<task_queue_, free_thread_stat_, task_queue_stat_,
                 created_thread_num_, working, appendable>>

\* ... and the count, under threads_locker_; the loop tries again.
CountThread(c) ==
  /\ caller[c] = "count"
  /\ created_thread_num_' = created_thread_num_ + 1
  /\ caller' = [caller EXCEPT ![c] = "trywait"]
  /\ UNCHANGED <<task_queue_, free_thread_stat_, task_queue_stat_, thread,
                 working, appendable>>

\* The bound on Threads: the code would create one more thread here.
RetryAtBound(c) ==
  /\ caller[c] = "check"
  /\ ~AtThreadLimit
  /\ \A t \in Threads : thread[t] # "unborn"
  /\ caller' = [caller EXCEPT ![c] = "trywait"]
  /\ UNCHANGED <<task_queue_, free_thread_stat_, task_queue_stat_,
                 created_thread_num_, thread, working, appendable>>

PostTask(c) ==
  /\ caller[c] = "post"
  /\ task_queue_stat_' = task_queue_stat_ + 1
  /\ caller' = [caller EXCEPT ![c] = "out"]
  /\ UNCHANGED <<task_queue_, free_thread_stat_, created_thread_num_, thread,
                 working, appendable>>

-----------------------------------------------------------------------------
(* ThreadPool::run(), in pool thread t *)

PostFree(t) ==
  /\ thread[t] = "starting"
  /\ free_thread_stat_' = free_thread_stat_ + 1
  /\ thread' = [thread EXCEPT ![t] = "waiting"]
  /\ UNCHANGED <<task_queue_, task_queue_stat_, created_thread_num_, working,
                 caller, appendable>>

WaitTask(t) ==
  /\ thread[t] = "waiting"
  /\ task_queue_stat_ > 0
  /\ task_queue_stat_' = task_queue_stat_ - 1
  /\ thread' = [thread EXCEPT ![t] = "fetching"]
  /\ UNCHANGED <<task_queue_, free_thread_stat_, created_thread_num_, working,
                 caller, appendable>>

\* Mutant: the task stays in the list.
FetchTaskKeepsHead(t) ==
  /\ thread[t] = "fetching"
  /\ task_queue_ # <<>>
  /\ working' = [working EXCEPT ![t] = Head(task_queue_)]
  /\ thread' = [thread EXCEPT ![t] = "running"]
  /\ UNCHANGED <<task_queue_, free_thread_stat_, task_queue_stat_,
                 created_thread_num_, caller, appendable>>

\* The section under task_queue_locker_: an empty queue goes back to the loop.
FetchTask(t) ==
  /\ thread[t] = "fetching"
  /\ IF task_queue_ = <<>>
       THEN /\ thread' = [thread EXCEPT ![t] = "starting"]
            /\ UNCHANGED <<task_queue_, working>>
       ELSE /\ working' = [working EXCEPT ![t] = Head(task_queue_)]
            /\ task_queue_' = Tail(task_queue_)
            /\ thread' = [thread EXCEPT ![t] = "running"]
  /\ UNCHANGED <<free_thread_stat_, task_queue_stat_, created_thread_num_,
                 caller, appendable>>

\* In run() of a job: the ReceFile closes its descriptor, which a new connection
\* can get at once, or the Sender writes SEND_END, after which the SendManager
\* deletes it and a new Sender can take its address.
\* (A close by a deleted Sender, which can hit any descriptor, is left out.)
LetGo(t) ==
  /\ thread[t] = "running"
  /\ working[t] \in Jobs
  /\ thread' = [thread EXCEPT ![t] = "leaving"]
  /\ appendable' = appendable \cup {working[t]}
  /\ UNCHANGED <<task_queue_, free_thread_stat_, task_queue_stat_,
                 created_thread_num_, working, caller>>

\* task->run() returns; a resident task's never does.  A ReceFile whose recv()
\* fails, or whose m_Sockfd was cleared, returns without closing.
FinishTask(t) ==
  /\ \/ thread[t] = "leaving"
     \/ thread[t] = "running" /\ working[t] \in ReceFiles
  /\ working' = [working EXCEPT ![t] = NoTask]
  /\ thread' = [thread EXCEPT ![t] = "starting"]
  /\ UNCHANGED <<task_queue_, free_thread_stat_, task_queue_stat_,
                 created_thread_num_, caller, appendable>>

-----------------------------------------------------------------------------

\* append() from its push to its return.
AppendStep(c) ==
  \/ TryWait(c)
  \/ GiveUpCreating(c)
  \/ CreateThread(c)
  \/ CountThread(c)
  \/ RetryAtBound(c)
  \/ PostTask(c)

CallStep(c) == (\E k \in Tasks : QueueTask(c, k)) \/ AppendStep(c)

WorkerStep(t) == PostFree(t) \/ WaitTask(t) \/ FetchTask(t)

TaskStep(t) == LetGo(t) \/ FinishTask(t)

Next ==
  \/ \E c \in Callers : CallStep(c)
  \/ \E t \in Threads : WorkerStep(t) \/ TaskStep(t)

Spec == Init /\ [][Next]_vars

\* The operating system runs every thread.  Nothing says that a caller appends,
\* or that a job reaches the end of its flow; from there it returns at once.
FairSpec ==
  /\ Spec
  /\ \A c \in Callers : WF_vars(AppendStep(c))
  /\ \A t \in Threads : WF_vars(WorkerStep(t))
  /\ \A t \in Threads : WF_vars(thread[t] = "leaving" /\ FinishTask(t))

-----------------------------------------------------------------------------
(* Properties *)

InThread(s) == {t \in Threads : thread[t] = s}
InCall(S)   == {c \in Callers : caller[c] \in S}

\* Every queued task has exactly one claim on it: a post already made, a thread
\* that took a post and is about to pop, or a caller that has pushed and not
\* posted yet.  Hence the "task_queue_.empty()" branch of run() is never taken,
\* and no task can sit in the queue with nobody left to be woken for it.
TasksAccounted ==
  Len(task_queue_) = task_queue_stat_ + Cardinality(InThread("fetching"))
                     + Cardinality(InCall({"trywait", "check", "count", "post"}))

\* With no limit on threads, a posted task never has to wait for a running task
\* to return: for each posted task, each task about to be posted by a caller
\* that holds a token, and each remaining token, there is a waiting thread of
\* its own.  This is what keeps the never-returning tasks from starving the
\* others when thread_num is 0.
IdleThreadPerTask ==
  max_thread_num_ = 0 =>
    Cardinality(InThread("waiting")) = task_queue_stat_ + free_thread_stat_
                                       + Cardinality(InCall({"post"}))

\* The limit is read outside the lock that updates the count, so concurrent
\* callers can exceed it, but by no more than one thread for each other caller.
OvershootBounded ==
  max_thread_num_ > 0 =>
    created_thread_num_ <= max_thread_num_ + Cardinality(Callers) - 1

\* An object that the callers append again and again has one live claim at a
\* time: it is queued once, or one thread runs it.  Two threads can be in run()
\* of the same ReceFile or Sender, but all except one of them have let it go;
\* a resident task, which never lets go, is run by one thread.  This is as far as
\* each job closes its own descriptor only (see StaleClosed in CoflowSystem).
OneLiveRun ==
  /\ \A i, j \in DOMAIN task_queue_ : task_queue_[i] = task_queue_[j] => i = j
  /\ \A t, u \in InThread("running") : working[t] = working[u] => t = u
  /\ \A i \in DOMAIN task_queue_ :
       \A t \in InThread("running") : working[t] # task_queue_[i]

\* A task that was accepted into the queue is eventually run by some thread.
QueuedTaskRuns ==
  \A k \in Tasks :
    (\E i \in DOMAIN task_queue_ : task_queue_[i] = k)
      ~> (\E t \in InThread("running") : working[t] = k)
=============================================================================
