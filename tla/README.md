# A verification project for the AMC library

The repository is a C library for Linux programs. The current code is the
top-level `AMC*.c` and `AMC*.h` files; `history/` keeps dated copies and demo
programs, `exclude_files/` parked components that no build uses. This directory
models the components that keep state over several calls or threads, checks the
models with TLC, and proves their main properties with TLAPS for every size of
the instance.

## 1. Inventory

| component | state | operations | what is hard | what makes it correct |
|---|---|---|---|---|
| `AMCMemPool.c` | a list of blocks, a list of free indices inside each block, the counters of a block, the callback, an optional mutex | Create, Alloc, Free, SetEmptyCallback, Destory | two threads on one free list; blocks that come and go; the callback runs after the lock is released | no unit is handed out twice, lost, or taken away in use; the callback is not forgotten |
| `AMCThreadPool.c` | message, counters, task queue, mutex and condition, dynamic threads | Create, AddTask, Destroy, the worker loop | the lock does not exclude; wakeups; one message field with three writers | every task runs once, in order; Destroy ends every worker |
| `AMCTimingTool.c` | a list of timers in a memory pool, a mutex, the routine's thread and its cancellation state; twice, once for the one-second tool | New, Start, Stop, Destroy, AddObject, DelObject, ResetTimeout, TriggerObject, the routine | calls from callbacks inside a tick; cancellation, join and lock; a list that changes while it is walked | each timer fires in the tick it is due and in no other; the list holds exactly the live timers |
| `AMCCommonLib.c`, `AMCAppAlreadyRunning` | the pid file | one call per process | several processes, a crash between any two system calls | at most one process runs; leftovers keep nobody out, unless they are empty |
| `AMCDictionary.c` | a red-black tree of (key, value) with parent pointers, a count, a read-write lock per dictionary, two global memory pools made on first use | New, SetObject, AddObject, UpdateObject, GetObject, RemoveObject, DrainObject, Count, Free | rotations and recolouring; contents that move between nodes; who frees the object | it is a map; each object is freed once, when it leaves; the tree stays one ordered tree |
| `AMCMutableBuffer.c` | a list of clusters from a memory pool, with head, tail and count; a lock | New, Append, Insert, Delete, Read (and remove), DeleteAll, Defragment, CheckAllData, Dump, Destroy | offsets at cluster boundaries; head and tail pointers; memory that runs out in the middle of a call; DeleteAll, which looks before it locks | it is one sequence of bytes; the list holds exactly the clusters taken from the pool |
| `AMCSignalHandler.c` | one pending signal number, a non-recursive mutex, a polling thread | Register, the signal handler, the processing thread | a handler that locks, on any thread; one slot; a test without the lock | a signal is dealt with or replaced by a later one; a signal that is to end the process does; the handler returns |
| `AMCRandom.c` | function pointers and a seed set on first use | random numbers | two first callers | – |
| `AMCCommonLib.c` (rest), `AMCCpuUsage.c`, `AMCBase64.c`, `AMCHash.c`, `AMCString.c`, `AMCBmp.c`, `AMCConfigParser.c`, `AMCTimeMark.c` | none or a few fields of the caller | conversions, wrappers of system calls | buffer sizes | – |
| `main.c` | – | a demonstration of blocking a signal | – | – |

How they interact. `AMCTimingTool`, `AMCThreadPool` and `AMCDictionary` take
their units from `AMCMemPool`; they rely on a unit being theirs from Alloc to
Free, which is the abstract specification `UnitPool` that `MemPool` implements.
The timing tool calls the program back from its own thread, inside its lock, and
the program calls it again from there; the memory pool calls back outside its
lock. Workers of the thread pool share the queue with the program's threads. The
pid file is shared by processes and outlives them. A daemon calls
AMCAppAlreadyRunning and then AMCSignalRegister; a signal may end it inside the
first call, by its default action, or after the second, through the processing
thread, and neither removes the pid file.

PROJECT.json lists under "hazards" where each of these difficulties bites, line
by line, and the property that watches over it.

## 2. Modules

| module | models | its state and actions |
|---|---|---|
| `UnitPool` | what AMCMemPool promises | the units the program owns; Alloc, Free, Destory |
| `MemPool` | `AMCMemPool.c` | block and unit headers under the names of the C fields; a call is a sequence of steps named after the functions (`AllocLock`, `AllocScan`, `_memBlock_Attach`, `_memBlock_Alloc`, `FreeLink`, `FreePush`, `_memBlock_FreeFromPool`, `FreeUnlock`, `IsEmptyLock`, ...), each step one group of assignments; the calls of all threads interleave between any two steps |
| `MemPool_proofs` | – | the theorems about `MemPool` |
| `ThreadPool` | `AMCThreadPool.c` | the loop of `_threadPoolTaskStatic` cut at the lock, the test, the wait, the task and the recount; AddTask and Destroy cut at their lock |
| `TimerService` | what a timing tool promises | timers, ticks left, the tick under way; Fire, Settle, the calls |
| `TimingTool` | `AMCTimingTool.c` | the list in `objects`/`pNext`, the two passes of the routine timer by timer (`CountDown`, callback, `SweepKeep`, `SweepRepeat`, `SweepRemove`), the calls from outside and from a callback, Start/Stop/Destroy with cancel and join |
| `PidFile` | `AMCAppAlreadyRunning` | one action per system call, for every process |
| `KeyMap` | what the dictionary promises | the object of each key; Store, Remove, Free |
| `Dictionary` | `AMCDictionary.c` | the tree as one record of links and colours, the contents of the nodes; a call is begun by `_rb_insert`, `ReplaceObject`, `Remove` or `AMCDictionary_Free` and goes on with one step per case of the rebalancing (`InsertRedUncle`, `InsertRotate`, `DeleteReconnect`, `DeleteCase1` to `DeleteCase6`, ...) |
| `ByteSequence` | what the mutable buffer promises | a sequence of bytes, the call made, its results; a call takes effect when it returns |
| `MutableBuffer` | `AMCMutableBuffer.c` | `buf` is the struct with its clusters; a call (`Invoke`) is a sequence of steps, one per cluster (`AppendCopy`, `AppendGrow`, `DeleteCluster`, `ReadToEnd`, `ReadPart`, `InsertInPlace`, `InsertSplit`, `InsertBefore`, `DefragmentCluster`, `CheckCluster`, `DumpCluster`), with the internal functions as operators on `buf`; `DeleteAllLooks` and `DeleteAllFrees` are the two halves of DeleteAll |
| `SignalHandler` | `AMCSignalHandler.c` in each of several processes | `sigNum`, `sigNumCopy`, `signalMutex` and the position of the processing thread; for each thread the handlers that run on it (`frames`); the kernel sends (`Send`), delivers (`Deliver`) or applies the default action (`Default`) |
| `Daemon` | a program that uses the pid file and the signal handler | the variables of both; every action is one of `PidFile` or of `SignalHandler`, and the two in which a process ends are one of each |
| `ThreadPool_proofs`, `TimingTool_proofs`, `SignalHandler_proofs`, `Dictionary_proofs` | – | the theorems about these |
| `Daemon_proofs` | – | the theorems about `PidFile` and `Daemon` |
| `MutableBufferList_proofs` | – | lemmas about the clusters of `MutableBuffer` as a list, and what the internal functions of the buffer do to it |
| `MutableBuffer_proofs` | – | the invariant of `MutableBuffer`, one part per kind of call, and the theorems |
| `MCxxx` | – | the instances TLC checks |

Operators whose name ends in `_Xyz` and whose comment begins with "Faulty"
are plausible wrong versions of the definition below them; each is put in its
place to see that the property it belongs to is violated (PROJECT.json,
"mutants").

### What the models keep and leave out

* `MemPool`. Addresses are (block, index) pairs. A step that reads memory which
  has been given back to the heap (`_UNLOCK_POOL(unit->pOwnerPool)` after the
  block of the unit has gone) either reads the old contents or traps
  (`FreeReadsFreed`). malloc may fail (`AttachNoMemory`), as may a call through
  the callback after it was unregistered (`CallsNullCallback`). The program
  frees the units it owns, and may free a unit of the pool a second time.
  Callbacks do not call the pool.
* `ThreadPool`. `_LOCK_POOL` is `pthread_mutex_trylock` with its result thrown
  away. `Paced = TRUE` describes a program like the demo in
  `history/160229_thread_pool`, whose sleeps keep the critical sections apart;
  `Paced = FALSE` any other. Two critical sections that overlap are interleaved,
  but the accesses inside one are not split.
* `TimingTool`. Time advances by whole intervals, in which the code measures
  everything. A call of the program is one step, also when it overlaps the
  routine. `use` says what the program at hand does: which tool, which kinds of
  timers, which calls from where, and whether it calls only between ticks, as
  the demo in `history/150108_AMCTimeTool` does.
* `Dictionary`. Each call holds the write lock from its first step to its last,
  so calls do not interleave. An object is its key and a version, and belongs to
  the dictionary from the call that stores it to the call that frees it or hands
  it back. `NullSibling` is the step that reads a member of NULL and ends the
  process. Cases 5 and 6 of the removal always follow each other and are one
  step.
* `PidFile`. A pid is the name of a process and does not come again; all
  processes belong to one user.
* `MutableBuffer`. No call looks at the value of a byte, so a byte is its place
  in the sequence when a call is made, and is named anew when the results have
  been used (`Taken`). The lock makes a call atomic for other calls, so their
  steps do not interleave, with one exception: DeleteAll reads `pStart` before
  it locks. `Careful` is a program that makes only the calls of `Proper`, for
  which the code keeps the promise of the header file; without it the model has
  all calls and follows the code into overruns and reads through NULL (`fault`).
  What `Proper` leaves out is listed in section 6. The pool has one block, so
  memory that was given back can still be read; that it may be gone is not
  followed. Data has at least one byte.
* `SignalHandler`. AMCSignalRegister is called once and succeeds; signals come
  from outside (kill), not from a fault of the program's own instructions. A
  pending signal is not queued twice; a handler can be interrupted by another
  signal's handler on the same thread. `sigNum` is not volatile: the Makefile
  builds without optimisation, so each turn of the poll reads it.
* `Daemon`. Signals reach a process from its first system call on.

## 3. Runs

| run | instance | shows |
|---|---|---|
| `mempool_shared` | 2 threads, a first block of 2 units, up to 2 further blocks of 1 unit | no unit is handed out twice (`ImplementsUnitPool`), the free lists visit each free unit once (`FreeListIntegrity`), units in use stay (`HeldUnitsLive`), at rest nothing is lost (`NothingLost`), an emptied pool is reported (`EmptyIsReported`), the lock comes back (`LockIsReleased`) |
| `threadpool_paced` | 3 workers, 2 callers, 3 tasks, any number of threads that failed to start | order, count, Destroy, and liveness in a paced program |
| `threadpool_lostwakeup` | 1 worker, 1 caller, 1 task, not paced | violation: an accepted task is never run |
| `timing_paced` | 3 timers, timeouts up to 2 intervals; all repeated, all one-shot, or the one-second tool | the timing promise (`ImplementsTimers`), the list (`ListIntact`), and a DelObject that comes back while there are at most two timers (`DelEndsWithTwo`) |
| `timing_fair` | 2 timers, the same programs | every timer fires, Stop and Destroy return, after Destroy the routine is gone |
| `timing_mixed` | 2 timers of both kinds | violation: the sweep loses a repeated timer |
| `timing_deadlock` | 1 timer, Destroy at any moment | violation: Destroy and the routine wait for each other |
| `daemon_starts` | 3 processes, ended by a signal or otherwise at any label; 2 signals sent, SIGALRM and one that ends the process | at most one runs (`AtMostOneRunning`); no leftover keeps one out but a file that was never written (`NeverRefusedAlone`); the processing thread never takes an empty slot for an unknown signal (`NeverUnknown`), no signal leaves the slot unseen (`TakenOrReplaced`), one signal alone blocks nobody (`StuckNeedsTwo`), a signal that is to end the process does (`EndingSignalEnds`) |
| `pidfile_stale` | 3 processes, overlapping calls on a stale file | violation: two run |
| `dictionary_map` | keys 1 to 14, 1, 2, 3 and 14 in any order, then ascending; 6 removals anywhere | one tree through every rotation (`TreeShape`), balance until something is removed (`RedBlackUntilRemoved`), nothing leaked or dangling (`ObjectsOwned`), a first removal that never meets a missing sibling (`FirstRemovalSafe`), a map (`ImplementsMap`), calls return (`CallsReturn`) |
| `dictionary_freed` | 3 keys, RemoveObject frees | violation: another key's object is freed |
| `mutablebuffer_careful` | 3 clusters of 3 bytes, data of 1 to 4 bytes, every offset | one sequence of bytes (`ImplementsBytes`), a list that agrees with the pool between calls (`ListIntact`), a process that ends only where an insertion finds no memory (`EndsOnlyWithoutMemory`), calls that return (`CallsReturn`) |

Why the bounds are enough. `MemPool`: a block in the middle of the list can only
be trimmed with three blocks, and a free list needs two units to have an order;
two threads suffice because a third would only wait for the same lock.
`ThreadPool`: more tasks than callers and more workers than callers make the
queue both longer and shorter than one; three tasks let the counter go wrong
twice. `TimingTool`: three timers give a first, a middle and a last one, and a
timeout of two is the smallest that is not due in the next tick. `Daemon`: two
processes race and a third comes later, on the file one of them left; of two
signals the second can find the first in the handler, in the slot or with the
processing thread, which is all that the second can do to the first. (Four
processes satisfy the inductive invariant that `Daemon_proofs` has for `PidFile`, too.)
`MutableBuffer`: three clusters have a first, a middle and a last one; a call of
four bytes is longer than a cluster and crosses two boundaries; three clusters
are full after nine bytes, so memory runs out in every call that can need it.
`Dictionary`: fourteen keys and six removals are the smallest instance found in
which case 3 of the removal happens, the rarest step of all.

Fairness. A thread inside a call of the memory pool goes on (weak fairness of
its steps): the scheduler runs every thread. The workers of the thread pool get
strong fairness, because a worker is stopped again and again by the other
threads' critical sections and the kernel does not starve it for ever; a
routine is taken to return. A dictionary's call goes on. The routine of the timing tool has weak fairness;
callbacks return. A call of the mutable buffer goes on. In the daemon each
thread runs and the kernel delivers what is pending (weak fairness of each
thread of each process, and of the kernel). Nobody has to begin a call, nothing relies on spurious
wakeups.

`CHECK_DEADLOCK FALSE` appears where the system stops: after Destroy, when
every process has had its turn, and when the mutable buffer has had its calls.

## 4. Proofs

`MemPool_proofs` proves, for every number of threads, addresses, units per block
and units of more than 8 bytes:

* `Invariance`: `Spec => []IInv`;
* `TypeCorrect`, `FreeListsIntact`, `HeldUnitsStay`: the parts a reader wants;
* `Refinement`: `Spec => ImplementsUnitPool`.

Assumptions: the sizes are not zero (AMCMemPool_Create refuses zero), `None`
names no thread and no block, and a pool without lock is used by one thread.
`UnitSize > 8` is a hypothesis of each theorem: `_memUnit_Free` (141) divides the
distance from the start of the block, header included, by the size of a unit
with its header, and for units of at most 8 bytes the header of the block makes
that one too many, so that a freed unit puts its neighbour into the free list.

The argument. `FreeListIntegrity` alone is not inductive: a thread that is about
to pop a unit must know that its block still has one, and a thread that is about
to push one must know that its unit already points to the head. `StepRelies`
says, label by label, what the next step of a thread relies on; `LockHeld` says
that a thread at such a label has the lock, so by `OneInside` no other step
disturbs it. `FreeListOf` gives a free list as an explicit order of the units:
popping shortens its used part by one, pushing puts the freed unit at its end,
and `UnitIdxExact` says the index the code computes is the unit's own. Nothing
is said of the order itself, so no induction over the list is needed. There is
one lemma per operation and one (`PlainSteps`, `StillSteps`) for the steps that
leave the heap alone. `Refinement` follows as Alloc's return puts into `held` a
unit that `StepRelies` says nobody owned.

Last comes `NothingIsLost` (`Spec => []NothingLost`), under the same
assumptions. Its invariant names an owner for every allocated unit, the program or
a call between two labels (`Accounted`), and for every empty block behind the first
a call that is about to take a unit of it or to return it (`GrownInUse`).
`AccountedStep` and `GrownStep` say what a step of one thread must do to keep them,
and there is one lemma per operation. When no call is under way, what is allocated
is held and a block whose units are all free is the first one; `AllFree` reads from
the free list that a block without allocated units has all its units free.

Of `PidFile`, `Daemon_proofs` proves, for any number of processes that end at any label,

* `OneRuns`: `Spec => []AtMostOneRunning`;
* `RefusedForAnother`: `Spec => []NeverRefusedAlone`,

both under `Paced` (`StaleRace = FALSE`): after a process has ended, calls do not
overlap until the file names a living process again. `pidfile_stale` shows that
`OneRuns` needs it. The inductive invariant adds to the type: the
file belongs to the process that wrote it, and a process that runs is the one
the file names (`FileOwner`); while a call is past reading a leftover nobody else
is in the call (`OneCall`); the pid a call has read is the one in the file or of
a process that has ended (`ReadFromFile`); whoever runs or calls is noticed by
every call (`CompanyNoticed`). Without `OneCall` a call could remove the file that
another has just written; without `ReadFromFile` the answer of kill says nothing
about the file.

`SignalHandler_proofs` proves, for any number of processes, signals and times
they are sent,

* `SlotNeverEmpty`: `Spec => []NeverUnknown`, from `SlotFilled`: once the
  processing thread has seen the slot filled nobody else empties it;
* `LoneSignalPasses`: `Spec => []StuckNeedsTwo`, from `LoneSignal`: a signal that
  is the only one is in one place, pending, in one handler, or in the slot and
  with the processing thread, so that nobody holds the mutex its handler wants.
  `Quiet` (nothing happens before the first signal) and `ThreadFirst` (a handler
  comes only when there is a processing thread) are what the first step needs.

The rest of `Daemon_proofs` composes the two. `DaemonImplementsPidFile` and
`DaemonImplementsSignalHandler` show that every step of the daemon is a step of
the one or leaves it alone, and the same of the other; so `OneDaemonRuns`,
`DaemonRefusedForAnother`, `DaemonSlotNeverEmpty` and `DaemonLoneSignalPasses`
follow from the theorems above without a new invariant, and so do
`DaemonTypeCorrect` (`DaemonSpec => []DaemonTypeOK`), for which the types of the
pid file are proved without `Paced`, and `DaemonSlotHandedOn`
(`DaemonSpec => TakenOrReplaced`): of all steps only `ProcessorTakes`, which copies
the signal, and the end of the process leave a slot empty that was not.

`ThreadPool_proofs` proves, for any number of tasks, workers and callers (both
finite, `PoolAssumption`),

* `TypeCorrect`, `OnceInOrder` (`Spec => []EachOnceInOrder`) and `IdleCounted`
  (`Spec => []FreeCountCoversIdle`) of every program, paced or not: in the
  model a locked region leaves its effect in one step, so these rest on what the
  regions write;
* `DestroyStands`: `Spec => DestroyIsFinal` for a paced program; in any other an
  AddTask that overlaps Destroy can write its own message over it.

The invariant adds `CallsCounted` (what the calls under way will still add is
within the bound on calls, which keeps `added` in its type), `OneInside` (in a paced
program the locked regions do not overlap and the mutex is locked inside them) and
`DestroyedByOne` (once the message is "destroy", nobody is in AddTask and the one
that sent it is gone, so that nobody is left to overwrite the message).
Waiting workers are counted as a finite set that gains or loses one member a step.

`TimingTool_proofs` proves `QuietAfterDestroy` (`Spec => []DestroyedIsQuiet`) for any
timers and any use of the calls, also those that spoil the list. `RoutineJoined` is
what is needed: `tmTool->thread` is cleared only behind a join, so that a tool with
no thread has a dead routine, and Destroy neither begins nor joins again when it is
done.

Of a program that keeps to the rules it proves, for any finite number of timers and
any timeouts,

* `TypeCorrect`, `ListHolds` (`Spec => []ListIntact`) and `DelReturns`
  (`Spec => []DelEndsWithTwo`) under `CarefulUses`;
* `PromiseKept` (`Spec => ImplementsTimers`) under `CarefulUses` and `NoTriggers`.

`CarefulUses` says that calls from outside come between ticks (`paced`), that the
timers are all repeated or all one-shot, and that a callback deletes timers only
where Del marks them and they are one-shot anyhow; `timing_mixed` shows what happens
to the list without the second of these, section 6 what without the third.
`NoTriggers` is about callbacks only: one that triggers a timer the count-down has
passed makes the sweep settle it unfired. The programs of `timing_paced` keep to all
of it. The invariant (`Sound`) describes the list by `Chain`: no two timers
have the same next one, nothing comes before the head, there is a last one, and
every set that holds the head and with a timer its next one holds them all. The
last conjunct does what induction over the list would do: that a
timer cannot be reached from the one behind it, and that the last is reached from
all, follows by choosing the set. `From` is defined in the same way, as the least
closed set. `ChainLinked`, `ChainBehead` and `ChainUnlink` say what AddObject and the
two ways of unlinking do to a chain. `CursorOK` places the routine, with `prevObj`
one behind it when one-shot timers are swept, and `TimesOK` says which timers have
been counted: none ahead of the count-down is below zero, and none the sweep has
passed is due. There is a lemma per action for the invariant, and one per action
for the promise, in which `Remaining` gives the ticks a timer has left from the
tick, from whether it is still ahead of the count-down, and from its time.

`Dictionary_proofs` proves, for every finite set of keys, of which any may be stored
in any order, and any number of calls,

* `TypeCorrect` and `TreeHoldsTogether` (`Spec => []TreeShape`);
* `IsMap`: `Spec => ImplementsMap`;
* `Ownership`: `Spec => []ObjectsOwned`, when no removal frees (`RemoveFrees = FALSE`;
  `dictionary_freed` shows that the hypothesis is needed);
* `RedBlack` (`Spec => []RedBlackUntilRemoved`) and `FirstRemoval`
  (`Spec => []FirstRemovalSafe`).

The invariant of the first three is `Structure`. `Shape` describes a tree by a
function that gives each node the set of the nodes below it, so that "no cycle",
"everything hangs below the root" and "sorted" are statements about sets, and a
rotation or a removal exhibits the new function from the old one. Shape does not
mention keys and is its own mirror image (`Mirror`), so the left and the right
rotation need one proof. The tree is sorted in every state, also inside a removal:
there the node that is about to go has the key of the one that took its contents,
and `Doomed` names it. `LinksOf` lists what the actions use of it. `IsMap` follows
as the search for a key finds the one node that has it, and each step stores,
removes or leaves the contents. The searches are recursive functions; `TailRecursion`
shows, for any chain of calls, that such a definition has a solution, and what
it returns follows the sets below the nodes. `Owned` adds to this the object that is on its way
out between the steps of a removal (`Going`). `Coloured` gives the black height of
each node as a function (`Even`), lets one red node have a red parent while an
insertion is at it (`Calm`), and holds until the first removal has taken its node:
that one is over without rebalancing, so the cases that can read NULL belong to a
later one. `RedBlackUntilRemoved` counts black nodes upwards; `Black` counts them
from the height of the root.

`MutableBuffer_proofs` proves, for every finite set of clusters, every capacity of a
cluster and every bound on the length of a call, under `Careful = TRUE`,

* `TypeCorrect` (`Spec => []TypeOK`) and `ListHolds` (`Spec => []ListIntact`);
* `EndsOnly` (`Spec => []EndsOnlyWithoutMemory`);
* `KeepsPromise` (`Spec => ImplementsBytes`).

`Careful` confines the program to the calls of `Proper` and to files that take all
they are given. Section 6 lists what the code does with the others. `Proper` is a
condition on the call and on the state it is made in, not on how the call goes; the
largest part of the proof shows that it is enough. Appends, reads and dumps are free
but for an empty last cluster in CheckAllData; a deletion leaves something; an
insertion that moves bytes inside a cluster puts at least as many before them, with
room for the move; a removal begins the buffer, or goes past the end of a cluster and does not end
exactly with the data.

`MutableBufferList_proofs` says what a list is. `Linked` gives the clusters as a
sequence, from pStart to pLast, each once, and as many as were taken from the pool;
`Cat` is what they hold, one behind the other, and every operator of the model that
changes clusters (`_buffer_free_cluster`, `_buffer_alloc_new_cluster_and_insert_after`,
the copies into a cluster) is described by what it does to the two. `Standing` is
the place of a call: it divides the clusters into those before the current one and
those from it on, and the bytes into those before the place and those behind it.
`LocateIs` shows that the search the operations begin with finds such a place.
`Chain`, `Locate` and the test `DefragmentRight` recurse in their last step, over
positions; `TailRecursion` shows that such a definition has a solution, and what it
returns follows by choosing a set of numbers closed under successor (`CountUp`),
which stands in for induction.

The invariant `IInv` says that between calls the buffer is a list, and that in a call
the bytes of the beginning (`bytes`) are divided in three: what lies before the
place of the call, what the call is done with, and what it has still to do. There is
a part for each kind of call. `AppendPart` has the data that is in and the data that
is left; `DeletePart` what is gone; `ReadingPart` what has been handed out, which for a
removal is gone as well, and what `Proper` has left to be true of the cluster the
call stands in; `InsertPart` the data that is in, and that the rest will find room
behind the place (`InsertFits`); `CheckPart` the pieces handed out, each a segment of
the bytes, and the bytes in the program's buffer that wait for the next one;
`FilePart` what was written. `DefragmentPart` says that the bytes are the old ones,
and that there is a set of clusters with lengths, the current one in it, that a
regular step does not leave (`Smooth`): `DefragmentRight` was evaluated when the call
was made, and the set carries its answer along the list while clusters are merged.
The last conjuncts of `IInv` are for DeleteAll, which reads pStart before it waits for
the lock: `first` is still the start cluster, as the calls it waits beside keep it;
and for an insertion without memory, the only step after which the process has
ended.

There are lemmas for what each step does to the list and the contents, and one for
each action (`AppendCopyKeeps`, ... `DeleteAllFreesKeeps`) that concludes both `IInv'`
and that the step is one of `ByteSequence` or a stutter: a step that goes on leaves
what a caller sees as it was, and the step that returns has nothing left to do, so
that what it leaves is what the abstract operation leaves.

Only model-checked: all liveness (`CallsReturn`, `TimersFire`, `StopReturns`,
`DestroyReturns`, `EndingSignalEnds`, `EmptyIsReported`, `LockIsReleased`, and what a
paced thread pool must do in the end), which the prover does not reach. Every
invariant and every refinement a passing run checks is a theorem.

## 5. Plan

Extensions of the model that are left:

1. `ThreadPool`: split the critical sections into their accesses for programs
   that are not paced; an abstract `TaskQueue` that the paced pool implements.
2. `TimingTool`: split AddObject into its search and its link, so that a call
   that overlaps the sweep is followed.
3. `Dictionary`: the global pools made by concurrent first callers.
4. Pure algorithms as operators checked against a reference definition over
   small inputs: Base64, the string helpers, the line parser of the
   configuration file, and the conversions of `AMCCommonLib.c`.

## 6. What was found

Shown by a run: the lost wakeup (`threadpool_lostwakeup`); the repeated
timer lost by the sweep (`timing_mixed`); the deadlock of Destroy and the routine
(`timing_deadlock`); two running processes (`pidfile_stale`); the wrong object
freed by a removal (`dictionary_freed`).

Excluded by the hypothesis of a proof: the index of freed units of at most 8
bytes, one too high, by which a unit in use is handed out again.

Part of the models, without a run of its own: the search of
`_tmObj_RemoveAndDestroy` does not advance, so deleting the third timer of a list
never returns (`stuck`); a one-second timer that deletes itself in its callback
is read after it was given back; a timer triggered by a callback after the
count-down has passed it is swept unfired; `freeCount` grows above the number of
threads when workers take tasks from a longer queue; a process killed between
creating and writing the pid file locks later ones out; the dictionary removes
black leaves without rebalancing, and from case 3 on takes the parent's brother
for the sibling, so that after some removals a further one dereferences NULL
(`NullSibling`).

Of the mutable buffer, what `Proper` excludes and the model shows without it:
Delete reports `len` bytes deleted when there were fewer; Insert in place moves
only `remainLen` bytes of the cluster (715, 761); Defragment's partial move
moves as many bytes as it lacks instead of as many as are left (1060), and on an
empty buffer it reads through NULL; a Read that removes from the inside of the
last cluster does not reduce `dataLen` (641), and one that ends with the last
cluster's last byte goes on to `pNext` (632); a buffer emptied by Delete or Read
keeps `pLast` on the cluster it gave back (269); Insert does not look whether it
got a cluster. CheckAllData with a buffer of no bytes does not end, and an empty
last cluster is never announced as the last segment; Dump does not notice a
short write; DeleteAll and FramentSize read `pStart` before they lock (1439,
1315).

Of the signal handler: a handler on a thread that holds the mutex waits for
ever, for which it takes two signals; a SIGALRM takes the slot of a signal that
was to end the process; a signal that comes before its handler is installed ends
the process by default; either end leaves the pid file behind. A second
AMCSignalRegister starts a second processing thread, and of two the slower one
takes 0 out of the slot and ends the process (not modelled).

Seen in the source and not modelled: AMCDictionary_NewWithObjects passes NULL
for a pointer that `_rb_insert` writes through; `_pool_deallocate` is never called by the
threads to which Destroy leaves it, and Create frees the pool a second time when
it fails; `refCounter` of the timing tool is never read.

## 7. Not modelled

* `history/` (813 of 865 files, 289,000 of 309,000 lines) holds dated copies of
  the same components and demonstration programs. The copies are older versions
  of the code that is modelled here, and a model of each would be the same model
  again; so the map stays near one percent of the repository's lines, and names
  about a third of those of the current `AMC*.c`. `exclude_files/` is in no build.
* `AMCBase64.c`, `AMCHash.c`, `AMCString.c`, `AMCBmp.c`, `AMCConfigParser.c`,
  `AMCTimeMark.c`, `AMCCpuUsage.c` and the rest of `AMCCommonLib.c` are
  conversions of one argument, or wrappers of system calls, without state of
  their own: no order of calls can go wrong, and a test reaches what a bounded
  check would. `AMCRandom.c` keeps a seed that two first callers may both set,
  with the same effect. `main.c` blocks one signal and waits.
* `AMCTimingTool.c` is modelled in part: calls overlap the routine, but a call is
  one step, so the window between the search of AddObject and its link is not
  there (754). A callback that triggers another timer after the count-down has
  passed it (858) is in the model; no run uses it, because then the timing
  promise does not hold.
* `AMCDictionary.c` is modelled in part: the two global pools are taken to exist,
  so the race of two first callers (942) is left out, as are the dump and
  AMCDictionary_NewWithObjects, which passes NULL where `_rb_insert` writes.
* `AMCMemPool.c`: what a thread reads from memory that was given back (201), and a
  callback that is taken away between its test and its call (207), are steps of
  the model (`FreeReadsFreed`, `CallsNullCallback`) and not properties: the code
  allows them, and no text says otherwise.
* Crashes matter for the pid file only, which is the one thing that outlives a
  process. Nothing sends messages or retries.
