-------------------------- MODULE ThreadPool_proofs --------------------------
(***************************************************************************)
(* For any number of workers, callers and tasks: the pool starts each task *)
(* once and in order, and freeCount covers the workers that wait, whatever *)
(* the program; and Destroy is final in a paced program.                   *)
(***************************************************************************)
EXTENDS ThreadPool, FiniteSetTheorems, SequenceTheorems, TLAPS

Threads == Workers \cup Program

\* Where a worker may be before it takes a task.
Before == {"top", "check", "sleep", "asleep", "take"}

Waiting == {w \in Workers : pc[w] \in Before}

\* Calls of AddTask that may still add a task, and those that may still make a thread.
Adding == {c \in Program : pc[c] \in {"add", "save"}}
Undecided == {c \in Program : pc[c] = "add"}

PcIsFunction == pc = [x \in Threads |-> pc[x]]

\* Each call accounts for one task and one thread at most.
CallsCounted ==
    /\ added + Cardinality(Adding) <= calls
    /\ dynamicThreads + Cardinality(Undecided) <= calls

\* Locked regions of a paced program do not overlap, and the mutex is locked inside.
OneInside ==
    Paced => \A x \in Threads : pc[x] \in Region =>
                /\ mutex
                /\ \A y \in Threads \ {x} : pc[y] \notin Region

\* In a paced program nobody is in AddTask when the pool is destroyed, or comes there later.
DestroyedByOne ==
    Paced /\ msg = "Destroy" => Adding = {} /\ \E d \in Program : pc[d] = "gone"

IInv ==
    /\ TypeOK /\ PcIsFunction /\ CallsCounted /\ FreeCountCoversIdle /\ EachOnceInOrder
    /\ OneInside /\ DestroyedByOne

-----------------------------------------------------------------------------
(* Sets that gain or lose a thread                                          *)

\* They are finite, as Workers and Program are.
LEMMA SetsFinite ==
    /\ IsFiniteSet(Waiting) /\ Cardinality(Waiting) \in Nat
    /\ IsFiniteSet(Adding) /\ Cardinality(Adding) \in Nat
    /\ IsFiniteSet(Undecided) /\ Cardinality(Undecided) \in Nat
<1>1. Waiting \in SUBSET Workers /\ Adding \in SUBSET Program /\ Undecided \in SUBSET Program
    BY DEF Waiting, Adding, Undecided
<1>2. IsFiniteSet(Waiting) /\ IsFiniteSet(Adding) /\ IsFiniteSet(Undecided)
    BY <1>1, PoolAssumption, FS_Subset
<1> QED BY <1>2, FS_CardinalityType

\* A step of one thread moves that thread and no other.
Moved(x, label) ==
    /\ PcIsFunction'
    /\ pc'[x] = label
    /\ \A y \in Threads \ {x} : pc'[y] = pc[y]

LEMMA GotoMoves ==
    ASSUME PcIsFunction, NEW x \in Threads, NEW label, Goto(x, label)
    PROVE  Moved(x, label)
<1>1. pc' = [y \in Threads |-> IF y = x THEN label ELSE pc[y]]
    BY DEF PcIsFunction, Goto
<1> QED BY <1>1 DEF Moved, PcIsFunction

\* What a step of a worker does to the sets.
LEMMA WorkerMoves ==
    ASSUME NEW w \in Workers, NEW label, Moved(w, label)
    PROVE  /\ Adding' = Adding /\ Undecided' = Undecided
           /\ Cardinality(Waiting') \in Nat
           /\ \A c \in Program : pc'[c] = pc[c]
           /\ pc[w] \in Before /\ label \in Before => Waiting' = Waiting
           /\ pc[w] \in Before /\ label \notin Before =>
                 Waiting' = Waiting \ {w} /\ Cardinality(Waiting') = Cardinality(Waiting) - 1
           /\ pc[w] \notin Before /\ label \in Before =>
                 Waiting' = Waiting \cup {w} /\ Cardinality(Waiting') = Cardinality(Waiting) + 1
           /\ pc[w] \notin Before /\ label \notin Before => Waiting' = Waiting
<1>1. \A c \in Program : c # w /\ c \in Threads
    BY PoolAssumption DEF Threads
<1>2. \A c \in Program : pc'[c] = pc[c]
    BY <1>1 DEF Moved
<1>3. Adding' = Adding /\ Undecided' = Undecided
    BY <1>2 DEF Adding, Undecided
<1>4. pc'[w] = label /\ \A v \in Workers \ {w} : pc'[v] = pc[v]
    BY DEF Moved, Threads
<1>5. Waiting' \in SUBSET Workers
    BY DEF Waiting
<1>6. Cardinality(Waiting') \in Nat
    BY <1>5, PoolAssumption, FS_Subset, FS_CardinalityType
<1>7. pc[w] \in Before <=> w \in Waiting
    BY DEF Waiting
<1>8. CASE label \in Before
    <2>1. Waiting' = Waiting \cup {w}
        BY <1>4, <1>8 DEF Waiting
    <2>2. w \in Waiting => Waiting' = Waiting
        BY <2>1
    <2>3. w \notin Waiting => Cardinality(Waiting') = Cardinality(Waiting) + 1
        BY <2>1, SetsFinite, FS_AddElement
    <2> QED BY <1>2, <1>3, <1>6, <1>7, <1>8, <2>1, <2>2, <2>3
<1>9. CASE label \notin Before
    <2>1. Waiting' = Waiting \ {w}
        BY <1>4, <1>9 DEF Waiting
    <2>2. w \notin Waiting => Waiting' = Waiting
        BY <2>1
    <2>3. w \in Waiting => Cardinality(Waiting') = Cardinality(Waiting) - 1
        BY <2>1, SetsFinite, FS_RemoveElement
    <2> QED BY <1>2, <1>3, <1>6, <1>7, <1>9, <2>1, <2>2, <2>3
<1> QED BY <1>8, <1>9

\* What a step of the program does to them.
LEMMA ProgramMoves ==
    ASSUME NEW c \in Program, NEW label, Moved(c, label)
    PROVE  /\ Waiting' = Waiting
           /\ \A w \in Workers : pc'[w] = pc[w]
           /\ IF label \in {"add", "save"} THEN Adding' = Adding \cup {c} ELSE Adding' = Adding \ {c}
           /\ IF label = "add" THEN Undecided' = Undecided \cup {c} ELSE Undecided' = Undecided \ {c}
<1>1. \A w \in Workers : w # c /\ w \in Threads
    BY PoolAssumption DEF Threads
<1>2. \A w \in Workers : pc'[w] = pc[w]
    BY <1>1 DEF Moved
<1>3. Waiting' = Waiting
    BY <1>2 DEF Waiting
<1>4. pc'[c] = label /\ \A d \in Program \ {c} : pc'[d] = pc[d]
    BY DEF Moved, Threads
<1> QED BY <1>2, <1>3, <1>4 DEF Adding, Undecided

\* Regions: a thread enters one alone, or stays in it; it leaves it; or it is elsewhere.
LEMMA RegionStep ==
    ASSUME OneInside, NEW x \in Threads, NEW label, Moved(x, label),
           \/ label \in Region /\ pc[x] \in Region /\ mutex' = mutex
           \/ label \in Region /\ mutex' /\ (Paced => \A y \in Threads \ {x} : pc[y] \notin Region)
           \/ label \notin Region /\ pc[x] \in Region
           \/ label \notin Region /\ mutex' = mutex
    PROVE  OneInside'
<1> SUFFICES ASSUME Paced, NEW y \in Threads, pc'[y] \in Region
             PROVE  mutex' /\ \A z \in Threads \ {y} : pc'[z] \notin Region
    BY DEF OneInside
<1>1. pc'[x] = label /\ \A z \in Threads \ {x} : pc'[z] = pc[z]
    BY DEF Moved
<1>2. CASE y = x
    BY <1>1, <1>2 DEF OneInside
<1>3. CASE y # x
    BY <1>1, <1>3 DEF OneInside
<1> QED BY <1>2, <1>3

\* _LOCK_POOL and Awake find no one inside when the program is paced.
LEMMA LockAlone ==
    ASSUME NEW x \in Threads, DOMAIN pc = Threads, _LOCK_POOL(x)
    PROVE  mutex' /\ (Paced => \A y \in Threads \ {x} : pc[y] \notin Region)
BY DEF _LOCK_POOL

WorkerLabels == Before \cup {"run", "count", "exited"}
ProgramLabels == {"idle", "add", "save", "destroy", "gone"}

-----------------------------------------------------------------------------
(* Steps of the workers                                                     *)

\* The steps of a worker that leave the queue and the counters alone.
LEMMA PlainSteps ==
    ASSUME IInv, NEW w \in Workers,
           Lock(w) \/ Check(w) \/ Sleep(w) \/ Awake(w) \/ Escape(w) \/ NoRoutine(w) \/ RoutineEnds(w)
    PROVE  IInv'
<1>1. w \in Threads /\ DOMAIN pc = Threads /\ PcIsFunction
    BY DEF Threads, IInv, PcIsFunction
<1>2. PICK label \in WorkerLabels :
        /\ Goto(w, label)
        /\ label \in Before => pc[w] \in Before
        /\ \/ label \in Region /\ pc[w] \in Region /\ mutex' = mutex
           \/ label \in Region /\ _LOCK_POOL(w)
           \/ label = "take" /\ ~mutex /\ mutex' = TRUE
           \/ label \notin Region /\ pc[w] \in Region /\ mutex' = FALSE
           \/ label \notin Region /\ mutex' = mutex
    <2>1. CASE Lock(w)
        BY <2>1 DEF Lock, WorkerLabels, Before, Region
    <2>2. CASE Check(w)
        BY <2>2 DEF Check, WorkerLabels, Before, Region, locks
    <2>3. CASE Sleep(w)
        BY <2>3 DEF Sleep, _UNLOCK_POOL, WorkerLabels, Before, Region
    <2>4. CASE Awake(w)
        BY <2>4 DEF Awake, WorkerLabels, Before, Region
    <2>5. CASE Escape(w)
        BY <2>5 DEF Escape, _UNLOCK_POOL, WorkerLabels, Before, Region
    <2>6. CASE NoRoutine(w)
        BY <2>6 DEF NoRoutine, _UNLOCK_POOL, WorkerLabels, Before, Region
    <2>7. CASE RoutineEnds(w)
        BY <2>7 DEF RoutineEnds, WorkerLabels, Before, Region
    <2> QED BY <2>1, <2>2, <2>3, <2>4, <2>5, <2>6, <2>7
<1>3. /\ UNCHANGED <<msg, threadTotal, freeCount, taskQueue, dynamicThreads, calls, added, ran>>
      /\ mutex' \in BOOLEAN /\ sleeping' \subseteq Workers
    BY DEF Lock, Check, Sleep, Awake, Escape, NoRoutine, RoutineEnds, _LOCK_POOL, _UNLOCK_POOL,
       counts, locks, history, IInv, TypeOK
<1>4. Moved(w, label)
    BY <1>1, <1>2, GotoMoves
<1>5. TypeOK'
    BY <1>3, <1>4, WorkerMoves DEF IInv, TypeOK, Moved, Threads, WorkerLabels, Before
<1>6. CallsCounted' /\ DestroyedByOne' /\ EachOnceInOrder'
    BY <1>3, <1>4, WorkerMoves DEF IInv, CallsCounted, DestroyedByOne, EachOnceInOrder
<1>7. FreeCountCoversIdle'
    <2>1. Cardinality(Waiting') <= Cardinality(Waiting)
        BY <1>2, <1>4, WorkerMoves, SetsFinite
    <2>2. Cardinality(Waiting) <= freeCount /\ freeCount \in Nat
        BY DEF IInv, TypeOK, FreeCountCoversIdle, Waiting, Before
    <2>3. Cardinality(Waiting') \in Nat
        BY <1>4, WorkerMoves
    <2>4. Cardinality(Waiting') <= freeCount'
        BY <2>1, <2>2, <2>3, <1>3, SetsFinite
    <2> QED BY <2>4 DEF FreeCountCoversIdle, Waiting, Before
<1>8. OneInside'
    <2>1. ~mutex /\ Paced => \A y \in Threads : pc[y] \notin Region
        BY DEF IInv, OneInside
    <2>2. "take" \in Region
        BY DEF Region
    <2> QED BY <1>1, <1>2, <1>4, <2>1, <2>2, LockAlone, RegionStep DEF IInv
<1> QED BY <1>4, <1>5, <1>6, <1>7, <1>8 DEF IInv, Moved

\* A task goes from the head of the queue to the end of those that ran.
LEMMA HeadMoves ==
    ASSUME NEW S, NEW r \in Seq(S), NEW q \in Seq(S), q # <<>>
    PROVE  Append(r, Head(q)) \o Tail(q) = r \o q
<1>1. Head(q) \in S /\ Tail(q) \in Seq(S) /\ <<Head(q)>> \in Seq(S)
    BY HeadTailProperties
<1>2. Append(r, Head(q)) = r \o <<Head(q)>>
    BY <1>1, AppendIsConcat
<1>3. <<Head(q)>> \o Tail(q) = q
    BY <1>1
<1> QED BY <1>1, <1>2, <1>3, ConcatAssociative

\* A worker takes the first task; the one that empties the queue counts itself as busy.
LEMMA TakeStep ==
    ASSUME IInv, NEW w \in Workers, Take(w)
    PROVE  IInv'
<1>1. /\ w \in Threads /\ pc[w] = "take" /\ msg # "Destroy" /\ taskQueue # <<>>
      /\ Goto(w, "run") /\ mutex' = FALSE
      /\ taskQueue' = Tail(taskQueue) /\ ran' = Append(ran, Head(taskQueue))
      /\ msg' \in {msg, "NoMsg"} /\ freeCount' \in {freeCount, freeCount - 1}
      /\ UNCHANGED <<threadTotal, sleeping, dynamicThreads, calls, added>>
    BY DEF Take, TaskToTake, _pool_is_to_destroy, _pool_is_empty, _UNLOCK_POOL, Threads
<1>2. Moved(w, "run")
    BY <1>1, GotoMoves DEF IInv
<1>3. taskQueue \in Seq(1 .. MaxTasks) /\ ran \in Seq(1 .. MaxTasks)
    BY DEF IInv, TypeOK
<1>4. /\ Tail(taskQueue) \in Seq(1 .. MaxTasks) /\ Head(taskQueue) \in 1 .. MaxTasks
      /\ Append(ran, Head(taskQueue)) \in Seq(1 .. MaxTasks)
    BY <1>1, <1>3, HeadTailProperties, AppendProperties
<1>5. Cardinality(Waiting') = Cardinality(Waiting) - 1 /\ Cardinality(Waiting') \in Nat
    <2>1. Waiting' = Waiting \ {w} /\ Cardinality(Waiting') = Cardinality(Waiting) - 1
        BY <1>1, <1>2, WorkerMoves DEF Before
    <2> QED BY <2>1, SetsFinite, FS_RemoveElement, FS_CardinalityType
<1>6. freeCount \in Nat /\ Cardinality(Waiting) <= freeCount
    BY DEF IInv, TypeOK, FreeCountCoversIdle, Waiting, Before
<1>7. freeCount' \in Nat /\ Cardinality(Waiting') <= freeCount'
    BY <1>1, <1>5, <1>6, SetsFinite
<1>8. TypeOK'
    BY <1>1, <1>2, <1>4, <1>7, WorkerMoves DEF IInv, TypeOK, Moved, Threads
<1>9. CallsCounted'
    BY <1>1, <1>2, WorkerMoves DEF IInv, CallsCounted
<1>10. FreeCountCoversIdle'
    BY <1>7 DEF FreeCountCoversIdle, Waiting, Before
<1>11. EachOnceInOrder'
    <2>1. ran' \o taskQueue' = ran \o taskQueue
        BY <1>1, <1>3, HeadMoves
    <2> QED BY <1>1, <2>1 DEF IInv, EachOnceInOrder
<1>12. OneInside'
    BY <1>1, <1>2, RegionStep DEF IInv, Region
<1>13. DestroyedByOne'
    BY <1>1 DEF DestroyedByOne
<1> QED BY <1>2, <1>8, <1>9, <1>10, <1>11, <1>12, <1>13 DEF IInv, Moved

\* A worker that comes back from a routine counts itself as free.
LEMMA CountFreeStep ==
    ASSUME IInv, NEW w \in Workers, CountFree(w)
    PROVE  IInv'
<1>1. /\ w \in Threads /\ pc[w] = "count" /\ Goto(w, "top") /\ mutex' = FALSE
      /\ freeCount' = freeCount + 1
      /\ UNCHANGED <<msg, threadTotal, sleeping, taskQueue, dynamicThreads, calls, added, ran>>
    BY DEF CountFree, _UNLOCK_POOL, history, Threads
<1>2. Moved(w, "top")
    BY <1>1, GotoMoves DEF IInv
<1>3. Cardinality(Waiting') = Cardinality(Waiting) + 1
    BY <1>1, <1>2, WorkerMoves DEF Before
<1>4. freeCount \in Nat /\ Cardinality(Waiting) <= freeCount
    BY DEF IInv, TypeOK, FreeCountCoversIdle, Waiting, Before
<1>5. Cardinality(Waiting') <= freeCount' /\ freeCount' \in Nat
    BY <1>1, <1>3, <1>4, SetsFinite
<1>6. TypeOK'
    BY <1>1, <1>2, <1>5, WorkerMoves DEF IInv, TypeOK, Moved, Threads
<1>7. CallsCounted' /\ DestroyedByOne' /\ EachOnceInOrder'
    BY <1>1, <1>2, WorkerMoves DEF IInv, CallsCounted, DestroyedByOne, EachOnceInOrder
<1>8. FreeCountCoversIdle'
    BY <1>5 DEF FreeCountCoversIdle, Waiting, Before
<1>9. OneInside'
    BY <1>1, <1>2, RegionStep DEF IInv, Region
<1> QED BY <1>2, <1>6, <1>7, <1>8, <1>9 DEF IInv, Moved

-----------------------------------------------------------------------------
(* Steps of the program                                                     *)

\* They leave the workers and freeCount alone.
LEMMA WorkersStay ==
    ASSUME IInv, NEW c \in Program, NEW label \in ProgramLabels, Moved(c, label), freeCount' = freeCount
    PROVE  /\ FreeCountCoversIdle'
           /\ \A w \in Workers : pc'[w] = pc[w]
           /\ \A d \in Program : pc'[d] \in ProgramLabels
<1>1. Waiting' = Waiting /\ \A w \in Workers : pc'[w] = pc[w]
    BY ProgramMoves
<1>2. FreeCountCoversIdle'
    BY <1>1 DEF IInv, FreeCountCoversIdle
<1>3. \A d \in Program : pc'[d] \in ProgramLabels
    BY DEF Moved, Threads, IInv, TypeOK, ProgramLabels
<1> QED BY <1>1, <1>2, <1>3

\* How many calls are in the middle of AddTask after a step.
LEMMA AddingCounted ==
    ASSUME IInv, NEW c \in Program, NEW label \in ProgramLabels, Moved(c, label)
    PROVE  /\ Cardinality(Adding') \in Nat /\ Cardinality(Undecided') \in Nat
           /\ label \in {"add", "save"} /\ pc[c] \in {"add", "save"} =>
                 Cardinality(Adding') = Cardinality(Adding)
           /\ label \in {"add", "save"} /\ pc[c] \notin {"add", "save"} =>
                 Cardinality(Adding') = Cardinality(Adding) + 1
           /\ label \notin {"add", "save"} /\ pc[c] \in {"add", "save"} =>
                 Cardinality(Adding') = Cardinality(Adding) - 1
           /\ label \notin {"add", "save"} /\ pc[c] \notin {"add", "save"} => Adding' = Adding
           /\ label = "add" /\ pc[c] # "add" => Cardinality(Undecided') = Cardinality(Undecided) + 1
           /\ label # "add" /\ pc[c] = "add" => Cardinality(Undecided') = Cardinality(Undecided) - 1
           /\ label # "add" /\ pc[c] # "add" => Undecided' = Undecided
<1>1. /\ pc[c] \in {"add", "save"} <=> c \in Adding
      /\ pc[c] = "add" <=> c \in Undecided
    BY DEF Adding, Undecided
<1>2. Adding' \in SUBSET Program /\ Undecided' \in SUBSET Program
    BY DEF Adding, Undecided
<1>3. Cardinality(Adding') \in Nat /\ Cardinality(Undecided') \in Nat
    BY <1>2, PoolAssumption, FS_Subset, FS_CardinalityType
<1>4. ASSUME label \in {"add", "save"}
      PROVE  Cardinality(Adding') = IF c \in Adding THEN Cardinality(Adding) ELSE Cardinality(Adding) + 1
    <2>1. Adding' = Adding \cup {c}
        BY <1>4, ProgramMoves
    <2> QED BY <2>1, SetsFinite, FS_AddElement
<1>5. ASSUME label \notin {"add", "save"}
      PROVE  /\ Cardinality(Adding') = IF c \in Adding THEN Cardinality(Adding) - 1 ELSE Cardinality(Adding)
             /\ c \notin Adding => Adding' = Adding
    <2>1. Adding' = Adding \ {c}
        BY <1>5, ProgramMoves
    <2>2. c \notin Adding => Adding' = Adding
        BY <2>1
    <2> QED BY <2>1, <2>2, SetsFinite, FS_RemoveElement
<1>6. ASSUME label = "add"
      PROVE  c \notin Undecided => Cardinality(Undecided') = Cardinality(Undecided) + 1
    <2>1. Undecided' = Undecided \cup {c}
        BY <1>6, ProgramMoves
    <2> QED BY <2>1, SetsFinite, FS_AddElement
<1>7. ASSUME label # "add"
      PROVE  /\ c \in Undecided => Cardinality(Undecided') = Cardinality(Undecided) - 1
             /\ c \notin Undecided => Undecided' = Undecided
    <2>1. Undecided' = Undecided \ {c}
        BY <1>7, ProgramMoves
    <2>2. c \notin Undecided => Undecided' = Undecided
        BY <2>1
    <2> QED BY <2>1, <2>2, SetsFinite, FS_RemoveElement
<1> QED BY <1>1, <1>3, <1>4, <1>5, <1>6, <1>7

\* A paced program begins a call only before one has destroyed the pool.
LEMMA NotDestroyed ==
    ASSUME IInv, Paced, StillInUse
    PROVE  msg # "Destroy"
BY DEF IInv, DestroyedByOne, StillInUse

\* A call begins.
LEMMA AddTaskStep ==
    ASSUME IInv, NEW c \in Program, AddTask(c)
    PROVE  IInv'
<1>1. /\ c \in Threads /\ DOMAIN pc = Threads /\ pc[c] = "idle" /\ calls < MaxTasks /\ StillInUse
      /\ Goto(c, "add") /\ _LOCK_POOL(c) /\ mutex' = TRUE /\ calls' = calls + 1
      /\ UNCHANGED <<msg, threadTotal, freeCount, sleeping, taskQueue, dynamicThreads, added, ran>>
    BY DEF AddTask, _LOCK_POOL, counts, Threads, IInv, PcIsFunction
<1>2. Moved(c, "add")
    BY <1>1, GotoMoves DEF IInv
<1>3. calls \in 0 .. MaxTasks /\ added \in 0 .. calls /\ MaxTasks \in Nat /\ dynamicThreads \in Nat
    BY PoolAssumption DEF IInv, TypeOK
<1>4. TypeOK'
    BY <1>1, <1>2, <1>3, WorkersStay DEF IInv, TypeOK, ProgramLabels
<1>5. CallsCounted'
    <2>1. /\ Cardinality(Adding') = Cardinality(Adding) + 1
          /\ Cardinality(Undecided') = Cardinality(Undecided) + 1
        BY <1>1, <1>2, AddingCounted DEF ProgramLabels
    <2>2. /\ added + Cardinality(Adding) <= calls
          /\ dynamicThreads + Cardinality(Undecided) <= calls
        BY DEF IInv, CallsCounted
    <2>3. /\ added + (Cardinality(Adding) + 1) <= calls + 1
          /\ dynamicThreads + (Cardinality(Undecided) + 1) <= calls + 1
        BY <2>2, <1>3, SetsFinite
    <2> QED BY <1>1, <2>1, <2>3 DEF CallsCounted
<1>6. FreeCountCoversIdle'
    BY <1>1, <1>2, WorkersStay DEF ProgramLabels
<1>7. EachOnceInOrder'
    BY <1>1 DEF IInv, EachOnceInOrder
<1>8. OneInside'
    BY <1>1, <1>2, LockAlone, RegionStep DEF IInv, Region
<1>9. DestroyedByOne'
    BY <1>1, NotDestroyed DEF DestroyedByOne
<1> QED BY <1>2, <1>4, <1>5, <1>6, <1>7, <1>8, <1>9 DEF IInv, Moved

\* A thread is found, made, or not to be had.
LEMMA ThreadSteps ==
    ASSUME IInv, NEW c \in Program, UseStaticThread(c) \/ UseDynamicThread(c) \/ NoDynamicThread(c)
    PROVE  IInv'
<1>1. PICK label \in {"save", "idle"} :
        /\ pc[c] = "add" /\ Goto(c, label) /\ msg' \in {msg, "NewTask"}
        /\ dynamicThreads' \in {dynamicThreads, dynamicThreads + 1}
        /\ label = "save" => mutex' = mutex
        /\ mutex' \in BOOLEAN
        /\ UNCHANGED <<threadTotal, freeCount, sleeping, taskQueue, calls, added, ran>>
    <2>1. CASE UseStaticThread(c)
        BY <2>1 DEF UseStaticThread, counts, locks, history, IInv, TypeOK
    <2>2. CASE UseDynamicThread(c)
        BY <2>2 DEF UseDynamicThread, counts, locks, history, IInv, TypeOK
    <2>3. CASE NoDynamicThread(c)
        BY <2>3 DEF NoDynamicThread, _UNLOCK_POOL, counts, history
    <2> QED BY <2>1, <2>2, <2>3
<1>2. c \in Threads /\ Moved(c, label)
    BY <1>1, GotoMoves DEF IInv, Threads
<1>3. calls \in 0 .. MaxTasks /\ added \in 0 .. calls /\ MaxTasks \in Nat /\ dynamicThreads \in Nat
    BY PoolAssumption DEF IInv, TypeOK
<1>4. CallsCounted' /\ dynamicThreads' \in 0 .. MaxTasks
    <2>1. /\ Cardinality(Adding') \in {Cardinality(Adding), Cardinality(Adding) - 1}
          /\ Cardinality(Undecided') = Cardinality(Undecided) - 1
          /\ Cardinality(Undecided') \in Nat
        BY <1>1, <1>2, AddingCounted DEF ProgramLabels
    <2>2. /\ added + Cardinality(Adding) <= calls
          /\ dynamicThreads + Cardinality(Undecided) <= calls
        BY DEF IInv, CallsCounted
    <2>3. /\ added + Cardinality(Adding') <= calls
          /\ dynamicThreads' + Cardinality(Undecided') <= calls
          /\ dynamicThreads' \in 0 .. MaxTasks
        BY <1>1, <1>3, <2>1, <2>2, SetsFinite
    <2> QED BY <1>1, <2>3 DEF CallsCounted
<1>5. TypeOK'
    BY <1>1, <1>2, <1>4, WorkersStay DEF IInv, TypeOK, ProgramLabels
<1>6. FreeCountCoversIdle'
    BY <1>1, <1>2, WorkersStay DEF ProgramLabels
<1>7. EachOnceInOrder'
    BY <1>1 DEF IInv, EachOnceInOrder
<1>8. OneInside'
    BY <1>1, <1>2, RegionStep DEF IInv, Region
<1>9. DestroyedByOne'
    BY <1>1 DEF IInv, DestroyedByOne, Adding
<1> QED BY <1>2, <1>4, <1>5, <1>6, <1>7, <1>8, <1>9 DEF IInv, Moved

LEMMA AppendInside ==
    ASSUME NEW S, NEW r \in Seq(S), NEW q \in Seq(S), NEW m \in S
    PROVE  r \o Append(q, m) = Append(r \o q, m)
<1>1. <<m>> \in Seq(S) /\ r \o q \in Seq(S)
    BY ConcatProperties
<1>2. Append(q, m) = q \o <<m>>
    BY AppendIsConcat
<1>3. Append(r \o q, m) = (r \o q) \o <<m>>
    BY <1>1, AppendIsConcat
<1>4. (r \o q) \o <<m>> = r \o (q \o <<m>>)
    BY <1>1, ConcatAssociative
<1> QED BY <1>2, <1>3, <1>4

\* The numbers of the tasks so far.
UpTo(n) == [k \in 1 .. n |-> k]

\* The next number goes to their end.
LEMMA NumberAppended ==
    ASSUME NEW n \in Nat
    PROVE  Append(UpTo(n), n + 1) = UpTo(n + 1)
<1>1. UpTo(n) \in Seq(Nat) /\ Len(UpTo(n)) = n /\ \A k \in 1 .. n : UpTo(n)[k] = k
    BY DEF UpTo
<1>2. Append(UpTo(n), n + 1) = [k \in 1 .. (n + 1) |-> k]
    <2> DEFINE u == UpTo(n)
               s == Append(u, n + 1)
    <2>1. u \in Seq(Nat) /\ Len(u) = n /\ \A k \in 1 .. n : u[k] = k
        BY <1>1
    <2> HIDE DEF u
    <2>2. s \in Seq(Nat) /\ Len(s) = n + 1 /\ \A k \in 1 .. (n + 1) : s[k] = k
        BY <2>1
    <2> QED BY <2>2 DEF u
<1> QED BY <1>2 DEF UpTo

\* The task joins the queue.
LEMMA SaveTaskStep ==
    ASSUME IInv, NEW c \in Program, SaveTask(c)
    PROVE  IInv'
<1>1. /\ pc[c] = "save" /\ Goto(c, "idle") /\ mutex' = FALSE
      /\ taskQueue' = Append(taskQueue, added + 1) /\ added' = added + 1
      /\ UNCHANGED <<msg, threadTotal, freeCount, dynamicThreads, calls, ran>>
    BY DEF SaveTask, _task_in_the_end_of_queue, _UNLOCK_POOL, counts
<1>2. c \in Threads /\ Moved(c, "idle")
    BY <1>1, GotoMoves DEF IInv, Threads
<1>3. sleeping' \subseteq Workers
    BY DEF SaveTask, _SIGNAL_POOL, IInv, TypeOK
<1>4. /\ calls \in 0 .. MaxTasks /\ added \in 0 .. calls /\ MaxTasks \in Nat
      /\ taskQueue \in Seq(1 .. MaxTasks) /\ ran \in Seq(1 .. MaxTasks)
    BY PoolAssumption DEF IInv, TypeOK
<1>5. Cardinality(Adding') = Cardinality(Adding) - 1 /\ Cardinality(Adding') \in Nat /\ Undecided' = Undecided
    BY <1>1, <1>2, AddingCounted DEF ProgramLabels
<1>6. (added + 1) + Cardinality(Adding') <= calls /\ added + 1 \in 1 .. MaxTasks /\ added + 1 \in 0 .. calls
    <2>1. added + Cardinality(Adding) <= calls
        BY DEF IInv, CallsCounted
    <2> QED BY <1>4, <1>5, <2>1, SetsFinite
<1>7. TypeOK'
    <2>1. Append(taskQueue, added + 1) \in Seq(1 .. MaxTasks)
        BY <1>4, <1>6
    <2> QED BY <1>1, <1>2, <1>3, <1>6, <2>1, WorkersStay DEF IInv, TypeOK, ProgramLabels
<1>8. CallsCounted'
    BY <1>1, <1>5, <1>6 DEF IInv, CallsCounted
<1>9. FreeCountCoversIdle'
    BY <1>1, <1>2, WorkersStay DEF ProgramLabels
<1>10. EachOnceInOrder'
    <2>1. ran \o taskQueue = UpTo(added) /\ added \in Nat
        BY <1>4 DEF IInv, EachOnceInOrder, UpTo
    <2>2. ran \o Append(taskQueue, added + 1) = Append(UpTo(added), added + 1)
        <3>1. \A m \in 1 .. MaxTasks : ran \o Append(taskQueue, m) = Append(ran \o taskQueue, m)
            BY <1>4, AppendInside
        <3>2. added + 1 \in 1 .. MaxTasks
            BY <1>6
        <3>3. ran \o Append(taskQueue, added + 1) = Append(ran \o taskQueue, added + 1)
            BY <3>1, <3>2, Zenon
        <3> QED BY <2>1, <3>3
    <2>3. ran' \o taskQueue' = UpTo(added')
        BY <1>1, <2>1, <2>2, NumberAppended
    <2> QED BY <2>3 DEF EachOnceInOrder, UpTo
<1>11. OneInside'
    BY <1>1, <1>2, RegionStep DEF IInv, Region
<1>12. DestroyedByOne'
    BY <1>1 DEF IInv, DestroyedByOne, Adding
<1> QED BY <1>2, <1>7, <1>8, <1>9, <1>10, <1>11, <1>12 DEF IInv, Moved

\* AddTask gives up, or a call of Destroy begins.
LEMMA CallSteps ==
    ASSUME IInv, NEW c \in Program, NoTaskUnit(c) \/ DestroyCall(c)
    PROVE  IInv'
<1>1. PICK label \in {"idle", "destroy"} :
        /\ Goto(c, label) /\ pc[c] \in {"save", "idle"} /\ mutex' \in BOOLEAN
        /\ \/ label = "idle" /\ pc[c] = "save" /\ mutex' = FALSE
           \/ label = "destroy" /\ pc[c] = "idle" /\ _LOCK_POOL(c)
        /\ UNCHANGED <<msg, threadTotal, freeCount, sleeping, taskQueue, dynamicThreads, calls, added, ran>>
    BY DEF NoTaskUnit, DestroyCall, _UNLOCK_POOL, _LOCK_POOL, counts, history
<1>2. c \in Threads /\ Moved(c, label) /\ DOMAIN pc = Threads
    BY <1>1, GotoMoves DEF IInv, Threads, PcIsFunction
<1>3. TypeOK'
    BY <1>1, <1>2, WorkersStay DEF IInv, TypeOK, ProgramLabels
<1>4. CallsCounted'
    <2>1. /\ Adding' = Adding \/ Cardinality(Adding') = Cardinality(Adding) - 1
          /\ Cardinality(Adding') \in Nat /\ Undecided' = Undecided
        BY <1>1, <1>2, AddingCounted DEF ProgramLabels
    <2>2. added \in Nat /\ calls \in Nat /\ added + Cardinality(Adding) <= calls
        BY DEF IInv, CallsCounted, TypeOK
    <2>3. added + Cardinality(Adding') <= calls
        BY <2>1, <2>2, SetsFinite
    <2> QED BY <1>1, <2>1, <2>3 DEF IInv, CallsCounted
<1>5. FreeCountCoversIdle'
    BY <1>1, <1>2, WorkersStay DEF ProgramLabels
<1>6. EachOnceInOrder'
    BY <1>1 DEF IInv, EachOnceInOrder
<1>7. OneInside'
    BY <1>1, <1>2, LockAlone, RegionStep DEF IInv, Region
<1>8. DestroyedByOne'
    <2>1. \A d \in Program : pc[d] = "gone" => pc'[d] = "gone"
        BY <1>1, <1>2 DEF Moved, Threads
    <2>2. Adding' \subseteq Adding
        BY <1>1, <1>2, ProgramMoves
    <2> QED BY <1>1, <2>1, <2>2 DEF IInv, DestroyedByOne
<1> QED BY <1>2, <1>3, <1>4, <1>5, <1>6, <1>7, <1>8 DEF IInv, Moved

\* Destroy leaves its message, alone in the locked regions when the program is paced.
LEMMA DestroyStep ==
    ASSUME IInv, NEW c \in Program, Destroy(c)
    PROVE  IInv'
<1>1. /\ pc[c] = "destroy" /\ Goto(c, "gone") /\ mutex' = FALSE /\ msg' = "Destroy"
      /\ UNCHANGED <<threadTotal, freeCount, taskQueue, dynamicThreads, calls, added, ran>>
    BY DEF Destroy, _pool_is_to_destroy, _UNLOCK_POOL, counts, history
<1>2. c \in Threads /\ Moved(c, "gone")
    BY <1>1, GotoMoves DEF IInv, Threads
<1>3. sleeping' \subseteq Workers
    BY DEF Destroy, _BROADCAST_POOL, IInv, TypeOK
<1>4. Adding' = Adding /\ Undecided' = Undecided
    BY <1>1, <1>2, AddingCounted DEF ProgramLabels
<1>5. TypeOK'
    BY <1>1, <1>2, <1>3, WorkersStay DEF IInv, TypeOK, ProgramLabels
<1>6. CallsCounted'
    BY <1>1, <1>4 DEF IInv, CallsCounted
<1>7. FreeCountCoversIdle'
    BY <1>1, <1>2, WorkersStay DEF ProgramLabels
<1>8. EachOnceInOrder'
    BY <1>1 DEF IInv, EachOnceInOrder
<1>9. OneInside'
    BY <1>1, <1>2, RegionStep DEF IInv, Region
<1>10. DestroyedByOne'
    <2>1. Paced => Adding = {}
        BY <1>1, <1>2 DEF IInv, OneInside, Adding, Region, Threads
    <2>2. pc'[c] = "gone"
        BY <1>2 DEF Moved
    <2> QED BY <1>4, <2>1, <2>2 DEF DestroyedByOne
<1> QED BY <1>2, <1>5, <1>6, <1>7, <1>8, <1>9, <1>10 DEF IInv, Moved

-----------------------------------------------------------------------------
(* The invariant and what follows from it                                   *)

\* IInv holds in every state, for any program.
THEOREM Invariance == Spec => []IInv
<1>1. Init => IInv
    <2> SUFFICES ASSUME Init PROVE IInv
        OBVIOUS
    <2>1. PICK started \in SUBSET Workers :
            /\ freeCount = Cardinality(started) /\ threadTotal = Cardinality(started)
            /\ pc = [x \in Workers \cup Program |->
                        IF x \in Program THEN "idle" ELSE IF x \in started THEN "top" ELSE "exited"]
        BY DEF Init
    <2>2. msg = "NoMsg" /\ mutex = FALSE /\ sleeping = {} /\ taskQueue = <<>> /\ dynamicThreads = 0
          /\ calls = 0 /\ added = 0 /\ ran = <<>>
        BY DEF Init
    <2>3. /\ \A w \in Workers : pc[w] = IF w \in started THEN "top" ELSE "exited"
          /\ \A c \in Program : pc[c] = "idle"
        BY <2>1, PoolAssumption
    <2>4. Waiting = started /\ Adding = {} /\ Undecided = {}
        BY <2>3 DEF Waiting, Before, Adding, Undecided
    <2>5. TypeOK
        <3>1. freeCount \in Nat /\ threadTotal \in Nat
            BY <2>1, <2>4, SetsFinite
        <3>2. <<>> \in Seq(1 .. MaxTasks) /\ 0 \in 0 .. MaxTasks
            BY PoolAssumption
        <3>3. calls \in 0 .. MaxTasks /\ added \in 0 .. calls
            BY <2>2, <3>2
        <3>4. sleeping \subseteq Workers /\ mutex \in BOOLEAN /\ msg \in {"NoMsg", "NewTask", "Destroy"}
            BY <2>2
        <3>5. taskQueue \in Seq(1 .. MaxTasks) /\ ran \in Seq(1 .. MaxTasks) /\ dynamicThreads \in 0 .. MaxTasks
            BY <2>2, <3>2
        <3>6. \A w \in Workers : pc[w] \in {"top", "exited"}
            BY <2>3
        <3> QED BY <2>3, <3>1, <3>3, <3>4, <3>5, <3>6 DEF TypeOK
    <2>6. CallsCounted
        BY <2>2, <2>4, FS_EmptySet DEF CallsCounted
    <2>7. FreeCountCoversIdle
        BY <2>1, <2>4, SetsFinite DEF FreeCountCoversIdle, Waiting, Before
    <2>8. EachOnceInOrder
        BY <2>2 DEF EachOnceInOrder
    <2>9. OneInside
        BY <2>3 DEF OneInside, Threads, Region
    <2>10. DestroyedByOne
        BY <2>2 DEF DestroyedByOne
    <2>11. PcIsFunction
        BY <2>1 DEF PcIsFunction, Threads
    <2> QED BY <2>5, <2>6, <2>7, <2>8, <2>9, <2>10, <2>11 DEF IInv
<1>2. IInv /\ [Next]_vars => IInv'
    <2>1. ASSUME IInv, UNCHANGED vars PROVE IInv'
        BY <2>1 DEF vars, counts, locks, history, IInv, TypeOK, PcIsFunction, CallsCounted,
           FreeCountCoversIdle, EachOnceInOrder, OneInside, DestroyedByOne, Adding, Undecided
    <2>2. ASSUME IInv, NEW w \in Workers, Working(w) PROVE IInv'
        BY <2>2, PlainSteps, TakeStep, CountFreeStep DEF Working
    <2>3. ASSUME IInv, NEW w \in Workers, SpuriousWakeup(w) PROVE IInv'
        BY <2>3 DEF SpuriousWakeup, counts, history, IInv, TypeOK, PcIsFunction, CallsCounted,
           FreeCountCoversIdle, EachOnceInOrder, OneInside, DestroyedByOne, Adding, Undecided
    <2>4. ASSUME IInv, NEW c \in Program, Serving(c) \/ AddTask(c) \/ DestroyCall(c) PROVE IInv'
        BY <2>4, AddTaskStep, ThreadSteps, SaveTaskStep, CallSteps, DestroyStep DEF Serving
    <2> QED BY <2>1, <2>2, <2>3, <2>4 DEF Next
<1> QED BY <1>1, <1>2, PTL DEF Spec

\* Every variable keeps its type.
THEOREM TypeCorrect == Spec => []TypeOK
<1>1. IInv => TypeOK
    BY DEF IInv
<1> QED BY <1>1, Invariance, PTL

\* Tasks are started in the order they were added, none twice and none skipped, in any program.
THEOREM OnceInOrder == Spec => []EachOnceInOrder
<1>1. IInv => EachOnceInOrder
    BY DEF IInv
<1> QED BY <1>1, Invariance, PTL

\* freeCount never falls below the workers that wait for work, in any program.
THEOREM IdleCounted == Spec => []FreeCountCoversIdle
<1>1. IInv => FreeCountCoversIdle
    BY DEF IInv
<1> QED BY <1>1, Invariance, PTL

\* In a paced program no step overwrites the message of Destroy and no task starts after it.
THEOREM DestroyStands ==
    ASSUME Paced
    PROVE  Spec => DestroyIsFinal
<1> DEFINE Final == _pool_is_to_destroy => msg' = msg /\ ran' = ran
<1>1. IInv /\ [Next]_vars => [Final]_vars
    <2> SUFFICES ASSUME IInv, [Next]_vars, msg = "Destroy" PROVE msg' = msg /\ ran' = ran
        BY DEF _pool_is_to_destroy
    <2>1. CASE UNCHANGED vars
        BY <2>1 DEF vars, history
    <2>2. ASSUME NEW w \in Workers, Working(w) \/ SpuriousWakeup(w) PROVE msg' = msg /\ ran' = ran
        BY <2>2 DEF Working, Lock, Check, Sleep, Awake, Escape, NoRoutine, Take, TaskToTake, RoutineEnds,
           CountFree, SpuriousWakeup, _pool_is_to_destroy, history
    <2>3. ASSUME NEW c \in Program, pc[c] # "add",
                 Serving(c) \/ AddTask(c) \/ DestroyCall(c) PROVE msg' = msg /\ ran' = ran
        BY <2>3 DEF Serving, UseStaticThread, UseDynamicThread, NoDynamicThread, SaveTask, NoTaskUnit,
           Destroy, AddTask, DestroyCall, _pool_is_to_destroy, history
    <2>4. \A c \in Program : pc[c] # "add"
        BY DEF IInv, DestroyedByOne, Adding
    <2> QED BY <2>1, <2>2, <2>3, <2>4 DEF Next
<1> QED BY <1>1, Invariance, PTL DEF Spec, DestroyIsFinal
=============================================================================
