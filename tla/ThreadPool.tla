----------------------------- MODULE ThreadPool -----------------------------
(***************************************************************************)
(* AMCThreadPool.c: worker threads that sleep on a condition and run tasks *)
(* from a queue.  _LOCK_POOL is pthread_mutex_trylock with its result      *)
(* ignored, so a locked region keeps nobody out; _UNLOCK_POOL opens the    *)
(* mutex whoever holds it (a normal glibc mutex).                          *)
(*                                                                         *)
(* Paced TRUE is the program of history/160229_thread_pool: its sleeps     *)
(* leave every locked region to one thread at a time.  Paced FALSE is any  *)
(* other program.  A locked region is entered in one step and leaves its   *)
(* effect in the next; the accesses inside a region that overlap without   *)
(* Paced are not split further.                                            *)
(***************************************************************************)
EXTENDS Integers, Sequences, FiniteSets

CONSTANTS
    Workers,          \* the threads AMCThreadPool_Create asks for
    Program,          \* threads of the program that call the pool
    MaxTasks,         \* bound: calls of AddTask
    Paced

ASSUME PoolAssumption ==
    /\ MaxTasks \in Nat
    /\ Paced \in BOOLEAN
    /\ IsFiniteSet(Workers) /\ IsFiniteSet(Program)
    /\ Workers \cap Program = {}

VARIABLES
    msg,              \* pool->msg
    threadTotal, freeCount,
    mutex,            \* pool->mutex is locked
    sleeping,         \* workers in pthread_cond_wait
    taskQueue,        \* tasks by number, first first
    dynamicThreads,   \* entries of the list of dynamic threads
    pc,
    calls,            \* history: calls of AddTask, for the bound
    added, ran        \* history: tasks it accepted; tasks run, in order

locks == <<mutex, sleeping>>
counts == <<threadTotal, freeCount>>
history == <<calls, added, ran>>
vars == <<msg, counts, locks, taskQueue, dynamicThreads, pc, history>>

Region == {"check", "sleep", "take", "count", "add", "save", "destroy"}
Goto(x, label) == pc' = [pc EXCEPT ![x] = label]

_pool_is_to_destroy == msg = "Destroy"
_pool_is_empty == taskQueue = << >>

\* _LOCK_POOL: after it the mutex is locked, by this thread or by another one.
_LOCK_POOL(x) ==
    /\ Paced => \A y \in DOMAIN pc \ {x} : pc[y] \notin Region
    /\ mutex' = TRUE
_UNLOCK_POOL == mutex' = FALSE

(***************************************************************************)
(* AMCThreadPool_Create has returned.  A pthread_create that fails leaves  *)
(* the pool with fewer threads; Create reports success all the same.       *)
(***************************************************************************)
Init ==
    \E started \in SUBSET Workers :
    /\ msg = "NoMsg"
    /\ threadTotal = Cardinality(started) /\ freeCount = Cardinality(started)
    /\ mutex = FALSE /\ sleeping = {}
    /\ taskQueue = << >> /\ dynamicThreads = 0
    /\ pc = [x \in Workers \cup Program |->
                IF x \in Program THEN "idle" ELSE IF x \in started THEN "top" ELSE "exited"]
    /\ calls = 0 /\ added = 0 /\ ran = << >>

-----------------------------------------------------------------------------
(* _threadPoolTaskStatic                                                    *)

Lock(w) ==
    /\ pc[w] = "top"
    /\ _LOCK_POOL(w)
    /\ Goto(w, "check")
    /\ UNCHANGED <<msg, counts, sleeping, taskQueue, dynamicThreads, history>>

Check(w) ==
    /\ pc[w] = "check"
    /\ Goto(w, IF ~_pool_is_to_destroy /\ _pool_is_empty THEN "sleep" ELSE "take")
    /\ UNCHANGED <<msg, counts, locks, taskQueue, dynamicThreads, history>>

\* pthread_cond_wait opens the mutex and sleeps in one step.
Sleep(w) ==
    /\ pc[w] = "sleep"
    /\ _UNLOCK_POOL
    /\ sleeping' = sleeping \cup {w}
    /\ Goto(w, "asleep")
    /\ UNCHANGED <<msg, counts, taskQueue, dynamicThreads, history>>

\* It may also return without a signal.
SpuriousWakeup(w) ==
    /\ w \in sleeping
    /\ sleeping' = sleeping \ {w}
    /\ UNCHANGED <<msg, counts, mutex, taskQueue, dynamicThreads, pc, history>>

\* It locks the mutex again before it returns, and this lock is a real one.
Awake(w) ==
    /\ pc[w] = "asleep" /\ w \notin sleeping
    /\ ~mutex /\ mutex' = TRUE
    /\ Goto(w, "take")
    /\ UNCHANGED <<msg, counts, sleeping, taskQueue, dynamicThreads, history>>

Escape(w) ==
    /\ pc[w] = "take" /\ _pool_is_to_destroy
    /\ _UNLOCK_POOL
    /\ Goto(w, "exited")
    /\ UNCHANGED <<msg, counts, sleeping, taskQueue, dynamicThreads, history>>

NoRoutine(w) ==
    /\ pc[w] = "take" /\ ~_pool_is_to_destroy /\ _pool_is_empty
    /\ _UNLOCK_POOL
    /\ Goto(w, "top")
    /\ UNCHANGED <<msg, counts, sleeping, taskQueue, dynamicThreads, history>>

\* Faulty: the message is not looked at again after the wait.
TaskToTake_NoRecheck == ~_pool_is_empty

TaskToTake == ~_pool_is_to_destroy /\ ~_pool_is_empty

\* Only the worker that empties the queue counts itself as busy.
Take(w) ==
    /\ pc[w] = "take" /\ TaskToTake
    /\ taskQueue' = Tail(taskQueue)
    /\ ran' = Append(ran, Head(taskQueue))
    /\ IF Tail(taskQueue) = << >>
       THEN msg' = "NoMsg" /\ freeCount' = freeCount - 1
       ELSE UNCHANGED <<msg, freeCount>>
    /\ _UNLOCK_POOL
    /\ Goto(w, "run")
    /\ UNCHANGED <<threadTotal, sleeping, dynamicThreads, calls, added>>

\* The routine has returned; the message is read without the lock.
RoutineEnds(w) ==
    /\ pc[w] = "run"
    /\ IF _pool_is_to_destroy
       THEN Goto(w, "exited") /\ UNCHANGED mutex
       ELSE _LOCK_POOL(w) /\ Goto(w, "count")
    /\ UNCHANGED <<msg, counts, sleeping, taskQueue, dynamicThreads, history>>

\* Faulty: a worker that has finished does not count itself as free.
CountFree_Forgotten(w) ==
    /\ pc[w] = "count"
    /\ _UNLOCK_POOL
    /\ Goto(w, "top")
    /\ UNCHANGED <<msg, counts, sleeping, taskQueue, dynamicThreads, history>>

CountFree(w) ==
    /\ pc[w] = "count"
    /\ freeCount' = freeCount + 1
    /\ _UNLOCK_POOL
    /\ Goto(w, "top")
    /\ UNCHANGED <<msg, threadTotal, sleeping, taskQueue, dynamicThreads, history>>

-----------------------------------------------------------------------------
(* AMCThreadPool_AddTask                                                    *)

\* Faulty: the queue is saved but nobody is signalled.
_SIGNAL_POOL_Lost == UNCHANGED sleeping

_SIGNAL_POOL ==
    IF sleeping = {} THEN UNCHANGED sleeping
    ELSE \E w \in sleeping : sleeping' = sleeping \ {w}

\* Faulty: Destroy wakes one worker only.
_BROADCAST_POOL_One == _SIGNAL_POOL

_BROADCAST_POOL == sleeping' = {}

\* The paced program does not call a pool it has destroyed.
StillInUse == Paced => \A d \in Program : pc[d] # "gone"

AddTask(c) ==
    /\ pc[c] = "idle" /\ calls < MaxTasks /\ StillInUse
    /\ calls' = calls + 1
    /\ _LOCK_POOL(c)
    /\ Goto(c, "add")
    /\ UNCHANGED <<msg, counts, sleeping, taskQueue, dynamicThreads, added, ran>>

UseStaticThread(c) ==
    /\ pc[c] = "add" /\ freeCount # 0
    /\ Goto(c, "save")
    /\ UNCHANGED <<msg, counts, locks, taskQueue, dynamicThreads, history>>

\* The dynamic thread does nothing ("TODO") and its entry stays in the list.
UseDynamicThread(c) ==
    /\ pc[c] = "add" /\ freeCount = 0
    /\ dynamicThreads' = dynamicThreads + 1
    /\ msg' = "NewTask"
    /\ Goto(c, "save")
    /\ UNCHANGED <<counts, locks, taskQueue, history>>

\* malloc fails, or pthread_create does after the message was written.
NoDynamicThread(c) ==
    /\ pc[c] = "add" /\ freeCount = 0
    /\ msg' \in {msg, "NewTask"}
    /\ _UNLOCK_POOL
    /\ Goto(c, "idle")
    /\ UNCHANGED <<counts, sleeping, taskQueue, dynamicThreads, history>>

\* Faulty: the new task goes before the others.
_task_in_the_end_of_queue_Front(n) == <<n>> \o taskQueue

\* The queue with task n linked behind its last one.
_task_in_the_end_of_queue(n) == Append(taskQueue, n)

SaveTask(c) ==
    /\ pc[c] = "save"
    /\ taskQueue' = _task_in_the_end_of_queue(added + 1)
    /\ added' = added + 1
    /\ _SIGNAL_POOL
    /\ _UNLOCK_POOL
    /\ Goto(c, "idle")
    /\ UNCHANGED <<msg, counts, dynamicThreads, calls, ran>>

\* AMCMemPool_Alloc returns NULL; a dynamic thread that was created remains.
NoTaskUnit(c) ==
    /\ pc[c] = "save"
    /\ _UNLOCK_POOL
    /\ Goto(c, "idle")
    /\ UNCHANGED <<msg, counts, sleeping, taskQueue, dynamicThreads, history>>

-----------------------------------------------------------------------------
(* AMCThreadPool_Destroy                                                    *)

DestroyCall(c) ==
    /\ pc[c] = "idle"
    /\ StillInUse
    /\ _LOCK_POOL(c)
    /\ Goto(c, "destroy")
    /\ UNCHANGED <<msg, counts, sleeping, taskQueue, dynamicThreads, history>>

Destroy(c) ==
    /\ pc[c] = "destroy"
    /\ IF _pool_is_to_destroy THEN UNCHANGED <<msg, sleeping>>
       ELSE msg' = "Destroy" /\ _BROADCAST_POOL
    /\ _UNLOCK_POOL
    /\ Goto(c, "gone")
    /\ UNCHANGED <<counts, taskQueue, dynamicThreads, history>>

-----------------------------------------------------------------------------
Working(w) ==
    \/ Lock(w) \/ Check(w) \/ Sleep(w) \/ Awake(w) \/ Escape(w) \/ NoRoutine(w)
    \/ Take(w) \/ RoutineEnds(w) \/ CountFree(w)

Serving(c) == UseStaticThread(c) \/ UseDynamicThread(c) \/ NoDynamicThread(c) \/ SaveTask(c)
              \/ NoTaskUnit(c) \/ Destroy(c)

Next ==
    \/ \E w \in Workers : Working(w) \/ SpuriousWakeup(w)
    \/ \E c \in Program : Serving(c) \/ AddTask(c) \/ DestroyCall(c)

Spec == Init /\ [][Next]_vars

\* Threads that can go on do, one that finds the mutex open again and again
\* gets it, routines return, calls finish; the program need not call, and nobody
\* counts on spurious wakeups.
FairSpec ==
    /\ Spec
    /\ \A w \in Workers : SF_vars(Working(w))
    /\ \A c \in Program : WF_vars(Serving(c))

-----------------------------------------------------------------------------
(* Properties                                                               *)

TypeOK ==
    /\ msg \in {"NoMsg", "NewTask", "Destroy"}
    /\ threadTotal \in Nat /\ freeCount \in Nat
    /\ mutex \in BOOLEAN /\ sleeping \subseteq Workers
    /\ taskQueue \in Seq(1 .. MaxTasks) /\ dynamicThreads \in 0 .. MaxTasks
    /\ \A w \in Workers : pc[w] \in {"top", "check", "sleep", "asleep", "take", "run",
                                     "count", "exited"}
    /\ \A c \in Program : pc[c] \in {"idle", "add", "save", "destroy", "gone"}
    /\ calls \in 0 .. MaxTasks /\ added \in 0 .. calls /\ ran \in Seq(1 .. MaxTasks)

\* Tasks are started in the order they were added, none twice and none skipped.
EachOnceInOrder == ran \o taskQueue = [k \in 1 .. added |-> k]

\* AddTask resorts to a dynamic thread, which runs nothing, only when every
\* worker is busy: freeCount never falls below the workers that wait for work.
FreeCountCoversIdle ==
    Cardinality({w \in Workers : pc[w] \in {"top", "check", "sleep", "asleep", "take"}}) <= freeCount

\* Once Destroy has left its message no step overwrites it and no task starts.
DestroyIsFinal == [][_pool_is_to_destroy => msg' = msg /\ ran' = ran]_vars

\* A task that was accepted is started, unless the pool is destroyed first or
\* has no thread.
AddedTasksRun ==
    \A n \in 1 .. MaxTasks :
        added >= n ~> (Len(ran) >= n \/ _pool_is_to_destroy \/ threadTotal = 0)

\* Destroy ends every worker, asleep, busy or between two tasks.
DestroyEndsWorkers ==
    (\E c \in Program : pc[c] = "gone") ~> \A w \in Workers : pc[w] = "exited"
=============================================================================
