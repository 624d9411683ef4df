------------------------------ MODULE MemPool -------------------------------
(***************************************************************************)
(* AMCMemPool.c: a pool of equal-sized units kept in a list of malloc'ed   *)
(* blocks.  Each block threads its free units into a list of indices       *)
(* (validUnitIdx, nextUnitIdx).  Calls of several threads interleave       *)
(* between any two steps; a step is one group of assignments of the code.  *)
(***************************************************************************)
EXTENDS Integers, Sequences, FiniteSets

CONSTANTS
    Threads,          \* threads that use the pool
    Blocks,           \* addresses malloc can return for a block
    UnitSize,         \* bytes of data in a unit
    InitUnitCount,    \* units of the block made by AMCMemPool_Create
    GrowUnitCount,    \* units of every later block
    UseLock,          \* the useLock argument of AMCMemPool_Create
    None              \* NULL

\* AMCMemPool_Create refuses a zero in any of its three sizes.
ASSUME CountAssumption ==
    /\ UnitSize \in Nat \ {0}
    /\ InitUnitCount \in Nat \ {0}
    /\ GrowUnitCount \in Nat \ {0}

ASSUME NameAssumption == None \notin Threads /\ None \notin Blocks

\* useLock is FALSE only for a pool that one thread uses at a time.
ASSUME LockAssumption ==
    /\ UseLock \in BOOLEAN
    /\ UseLock \/ \A s, t \in Threads : s = t

VARIABLES
    pBlocks,          \* the block list, first block first; << >> once destroyed
    totalUnitCount, freeUnitCount, validUnitIdx,    \* block headers
    nextUnitIdx, isAllocated,                       \* unit headers
    emptyCallback,    \* a callback is registered (the argument goes with it)
    lock,             \* holder of pool->lock, or None
    pc, blk, idx,     \* per thread: its next step and the unit it works on
    held,             \* units the program owns
    outstanding,      \* history: answers of Alloc not freed yet
    owed,             \* history: the pool emptied and no callback ran since
    fault             \* "none", or the undefined behaviour that ended the process

blockHeaders == <<totalUnitCount, freeUnitCount, validUnitIdx>>
unitHeaders == <<nextUnitIdx, isAllocated>>
pool == <<pBlocks, blockHeaders, unitHeaders, emptyCallback>>
locals == <<blk, idx>>
program == <<held, outstanding>>
vars == <<pool, lock, pc, locals, program, owed, fault>>

Idx == 0 .. (InitUnitCount + GrowUnitCount)
UnitsOf(b) == 0 .. (totalUnitCount[b] - 1)
Linked == {pBlocks[k] : k \in 1 .. Len(pBlocks)}
Unit(t) == <<blk[t], idx[t]>>

_memBlock_IsValid(b) == freeUnitCount[b] # 0
_memBlock_IsEmpty(b) == freeUnitCount[b] = totalUnitCount[b]

\* Faulty: tests the last block for fullness instead of emptiness.
_memPool_IsEmpty_Full == Len(pBlocks) = 1 /\ ~_memBlock_IsValid(pBlocks[1])

\* Every unit of the pool is free: the answer of AMCMemPool_IsAllFree.
_memPool_IsEmpty == Len(pBlocks) = 1 /\ _memBlock_IsEmpty(pBlocks[1])

(***************************************************************************)
(* sizeof(AMCMemBlock_st) is 32 and sizeof(AMCMemUnit_st) 24 on LP64.  The *)
(* code divides the distance from the block's first byte, header included, *)
(* by the size of a unit: one too many when the header fills a whole unit, *)
(* that is when unitSize is at most 8.                                     *)
(***************************************************************************)
UnitStructSize == 24 + UnitSize
UnitIdxAt(i) == (32 + i * UnitStructSize) \div UnitStructSize

\* Faulty: pthread_mutex_trylock with its result ignored.
_memPool_Lock_Try(t) == IF lock = None THEN lock' = t ELSE UNCHANGED lock

_memPool_Lock(t) == IF UseLock THEN lock = None /\ lock' = t ELSE UNCHANGED lock
_memPool_Unlock(t) == IF UseLock THEN lock' = None ELSE UNCHANGED lock

Goto(t, label) == pc' = [pc EXCEPT ![t] = label]
Die(why) == fault' = why

-----------------------------------------------------------------------------
(* AMCMemPool_Create with non-zero sizes has attached the first block.      *)

Init ==
    \E b \in Blocks :
    /\ pBlocks = <<b>>
    /\ totalUnitCount = [x \in Blocks |-> InitUnitCount]
    /\ freeUnitCount = [x \in Blocks |-> InitUnitCount]
    /\ validUnitIdx = [x \in Blocks |-> 0]
    /\ nextUnitIdx = [x \in Blocks |-> [i \in Idx |-> i + 1]]
    /\ isAllocated = [x \in Blocks |-> [i \in Idx |-> FALSE]]
    /\ emptyCallback = FALSE
    /\ lock = None
    /\ pc = [t \in Threads |-> "idle"]
    /\ blk = [t \in Threads |-> b] /\ idx = [t \in Threads |-> 0]
    /\ held = {} /\ outstanding = 0 /\ owed = FALSE /\ fault = "none"

-----------------------------------------------------------------------------
(* AMCMemPool_Alloc                                                         *)

AllocLock(t) ==
    /\ pc[t] = "idle" /\ pBlocks # << >>
    /\ _memPool_Lock(t)
    /\ Goto(t, "a_scan")
    /\ UNCHANGED <<pool, locals, program, owed, fault>>

\* The loop stops at the first block that has a free unit.
AllocScan(t) ==
    /\ pc[t] = "a_scan"
    /\ \E k \in 1 .. Len(pBlocks) :
        /\ _memBlock_IsValid(pBlocks[k])
        /\ \A j \in 1 .. (k - 1) : ~_memBlock_IsValid(pBlocks[j])
        /\ blk' = [blk EXCEPT ![t] = pBlocks[k]]
    /\ Goto(t, "a_take")
    /\ UNCHANGED <<pool, lock, idx, program, owed, fault>>

\* No block has one: _memBlock_Attach appends a block of growUnitCount units.
_memBlock_Attach(t) ==
    /\ pc[t] = "a_scan"
    /\ \A b \in Linked : ~_memBlock_IsValid(b)
    /\ \E b \in Blocks \ Linked :
        /\ pBlocks' = Append(pBlocks, b)
        /\ totalUnitCount' = [totalUnitCount EXCEPT ![b] = GrowUnitCount]
        /\ freeUnitCount' = [freeUnitCount EXCEPT ![b] = GrowUnitCount]
        /\ validUnitIdx' = [validUnitIdx EXCEPT ![b] = 0]
        /\ nextUnitIdx' = [nextUnitIdx EXCEPT ![b] = [i \in Idx |-> i + 1]]
        /\ isAllocated' = [isAllocated EXCEPT ![b] = [i \in Idx |-> FALSE]]
        /\ blk' = [blk EXCEPT ![t] = b]
    /\ Goto(t, "a_take")
    /\ UNCHANGED <<emptyCallback, lock, idx, program, owed, fault>>

\* malloc gave NULL, and _memBlock_Alloc reads validUnitIdx through it.
AttachNoMemory(t) ==
    /\ pc[t] = "a_scan"
    /\ \A b \in Linked : ~_memBlock_IsValid(b)
    /\ Die("null block")
    /\ UNCHANGED <<pool, lock, pc, locals, program, owed>>

\* Faulty: forgets freeUnitCount.
_memBlock_Alloc_NoCount(t) ==
    LET b == blk[t]
        freeIdx == validUnitIdx[b]
    IN  /\ pc[t] = "a_take"
        /\ freeIdx \in UnitsOf(b)
        /\ idx' = [idx EXCEPT ![t] = freeIdx]
        /\ isAllocated' = [isAllocated EXCEPT ![b][freeIdx] = TRUE]
        /\ validUnitIdx' = [validUnitIdx EXCEPT ![b] = nextUnitIdx[b][freeIdx]]
        /\ owed' = FALSE
        /\ Goto(t, "a_unlock")
        /\ UNCHANGED <<pBlocks, totalUnitCount, freeUnitCount, nextUnitIdx, emptyCallback,
                       lock, blk, program, fault>>

_memBlock_Alloc(t) ==
    LET b == blk[t]
        freeIdx == validUnitIdx[b]
    IN  /\ pc[t] = "a_take"
        /\ freeIdx \in UnitsOf(b)
        /\ idx' = [idx EXCEPT ![t] = freeIdx]
        /\ isAllocated' = [isAllocated EXCEPT ![b][freeIdx] = TRUE]
        /\ validUnitIdx' = [validUnitIdx EXCEPT ![b] = nextUnitIdx[b][freeIdx]]
        /\ freeUnitCount' = [freeUnitCount EXCEPT ![b] = @ - 1]
        /\ owed' = FALSE
        /\ Goto(t, "a_unlock")
        /\ UNCHANGED <<pBlocks, totalUnitCount, nextUnitIdx, emptyCallback, lock, blk, program, fault>>

\* validUnitIdx names no unit: the "unit" lies behind the block.
AllocBehindBlock(t) ==
    /\ pc[t] = "a_take"
    /\ validUnitIdx[blk[t]] \notin UnitsOf(blk[t])
    /\ Die("wild unit")
    /\ UNCHANGED <<pool, lock, pc, locals, program, owed>>

AllocReturn(t) ==
    /\ pc[t] = "a_unlock"
    /\ _memPool_Unlock(t)
    /\ held' = held \cup {Unit(t)}
    /\ outstanding' = outstanding + 1
    /\ Goto(t, "idle")
    /\ UNCHANGED <<pool, locals, owed, fault>>

-----------------------------------------------------------------------------
(* AMCMemPool_Free                                                          *)

FreeCall(t, u) ==
    /\ pc[t] = "idle" /\ pBlocks # << >>
    /\ _memPool_Lock(t)
    /\ blk' = [blk EXCEPT ![t] = u[1]]
    /\ idx' = [idx EXCEPT ![t] = u[2]]
    /\ held' = held \ {u}
    /\ Goto(t, "f_check")
    /\ UNCHANGED <<pool, owed, fault>>

\* The owner gives the unit up.
FreeLock(t) ==
    /\ \E u \in held : FreeCall(t, u)
    /\ outstanding' = outstanding - 1

\* Misuse the code guards against: a unit is freed a second time.
FreeAgainLock(t) ==
    /\ \E b \in Linked : \E i \in UnitsOf(b) : ~isAllocated[b][i] /\ FreeCall(t, <<b, i>>)
    /\ UNCHANGED outstanding

\* The early returns: the unit is not allocated, or no block of the list has it.
FreeReject(t) ==
    /\ pc[t] = "f_check"
    /\ ~isAllocated[blk[t]][idx[t]] \/ blk[t] \notin Linked
    /\ Goto(t, "f_unlock")
    /\ UNCHANGED <<pool, lock, locals, program, owed, fault>>

\* Faulty: frees whatever it is given.
FreeLink_NoGuard(t) ==
    /\ pc[t] = "f_check"
    /\ nextUnitIdx' = [nextUnitIdx EXCEPT ![blk[t]][idx[t]] = validUnitIdx[blk[t]]]
    /\ isAllocated' = [isAllocated EXCEPT ![blk[t]][idx[t]] = FALSE]
    /\ Goto(t, "f_push")
    /\ UNCHANGED <<pBlocks, blockHeaders, emptyCallback, lock, locals, program, owed, fault>>

\* The unit points to the head of the block's free list ...
FreeLink(t) ==
    /\ pc[t] = "f_check"
    /\ isAllocated[blk[t]][idx[t]] /\ blk[t] \in Linked
    /\ nextUnitIdx' = [nextUnitIdx EXCEPT ![blk[t]][idx[t]] = validUnitIdx[blk[t]]]
    /\ isAllocated' = [isAllocated EXCEPT ![blk[t]][idx[t]] = FALSE]
    /\ Goto(t, "f_push")
    /\ UNCHANGED <<pBlocks, blockHeaders, emptyCallback, lock, locals, program, owed, fault>>

\* ... and becomes its new head, under the index the code computed for it.
FreePush(t) ==
    LET b == blk[t]
    IN  /\ pc[t] = "f_push"
        /\ freeUnitCount' = [freeUnitCount EXCEPT ![b] = @ + 1]
        /\ validUnitIdx' = [validUnitIdx EXCEPT ![b] = UnitIdxAt(idx[t])]
        /\ Goto(t, IF freeUnitCount[b] + 1 = totalUnitCount[b] THEN "f_trim" ELSE "f_unlock")
        /\ UNCHANGED <<pBlocks, totalUnitCount, unitHeaders, emptyCallback, lock, locals,
                       program, owed, fault>>

\* Faulty: keeps every block.
_memBlock_FreeFromPool_Keep(t) ==
    /\ pc[t] = "f_trim"
    /\ owed' = (emptyCallback /\ _memPool_IsEmpty)
    /\ Goto(t, "f_unlock")
    /\ UNCHANGED <<pool, lock, locals, program, fault>>

\* Faulty: forgets the blocks behind the one that goes.
_memBlock_FreeFromPool_Cut(t) ==
    /\ pc[t] = "f_trim"
    /\ \/ /\ pBlocks[1] = blk[t]
          /\ UNCHANGED pBlocks
       \/ \E k \in 2 .. Len(pBlocks) :
            /\ pBlocks[k] = blk[t]
            /\ pBlocks' = [j \in 1 .. (k - 1) |-> pBlocks[j]]
    /\ owed' = (emptyCallback /\ Len(pBlocks') = 1 /\ _memBlock_IsEmpty(pBlocks'[1]))
    /\ Goto(t, "f_unlock")
    /\ UNCHANGED <<blockHeaders, unitHeaders, emptyCallback, lock, locals, program, fault>>

\* The first block stays; any other block whose units are all free is
\* unlinked and returned to the heap.
_memBlock_FreeFromPool(t) ==
    /\ pc[t] = "f_trim"
    /\ \/ /\ pBlocks[1] = blk[t]
          /\ UNCHANGED pBlocks
       \/ \E k \in 2 .. Len(pBlocks) :
            /\ pBlocks[k] = blk[t]
            /\ pBlocks' = [j \in 1 .. (Len(pBlocks) - 1) |->
                              IF j < k THEN pBlocks[j] ELSE pBlocks[j + 1]]
    /\ owed' = (emptyCallback /\ Len(pBlocks') = 1 /\ _memBlock_IsEmpty(pBlocks'[1]))
    /\ Goto(t, "f_unlock")
    /\ UNCHANGED <<blockHeaders, unitHeaders, emptyCallback, lock, locals, program, fault>>

\* _UNLOCK_POOL(unit->pOwnerPool): the unit may lie in the block just freed.
FreeUnlock(t) ==
    /\ pc[t] = "f_unlock"
    /\ _memPool_Unlock(t)
    /\ Goto(t, "f_callback")
    /\ UNCHANGED <<pool, locals, program, owed, fault>>

\* The test of unit->pOwnerPool->emptyCallback, no lock held.
FreeTestCallback(t) ==
    /\ pc[t] = "f_callback"
    /\ Goto(t, IF emptyCallback THEN "c_lock" ELSE "idle")
    /\ UNCHANGED <<pool, lock, locals, program, owed, fault>>

\* Freed memory need not hold what it held: both reads above may trap.
FreeReadsFreed(t) ==
    /\ pc[t] \in {"f_unlock", "f_callback"}
    /\ blk[t] \notin Linked
    /\ Die("freed unit")
    /\ UNCHANGED <<pool, lock, pc, locals, program, owed>>

\* _memPool_IsEmpty_WithLock
IsEmptyLock(t) ==
    /\ pc[t] = "c_lock"
    /\ _memPool_Lock(t)
    /\ Goto(t, "c_test")
    /\ UNCHANGED <<pool, locals, program, owed, fault>>

\* Faulty: returns with the lock taken.
IsEmptyTest_NoUnlock(t) ==
    /\ pc[t] = "c_test"
    /\ Goto(t, IF _memPool_IsEmpty THEN "c_call" ELSE "idle")
    /\ UNCHANGED <<pool, lock, locals, program, owed, fault>>

IsEmptyTest(t) ==
    /\ pc[t] = "c_test"
    /\ _memPool_Unlock(t)
    /\ Goto(t, IF _memPool_IsEmpty THEN "c_call" ELSE "idle")
    /\ UNCHANGED <<pool, locals, program, owed, fault>>

EmptyCallback(t) ==
    /\ pc[t] = "c_call"
    /\ emptyCallback
    /\ owed' = FALSE
    /\ Goto(t, "idle")
    /\ UNCHANGED <<pool, lock, locals, program, fault>>

\* The callback was unregistered since it was tested: the call goes through NULL.
CallsNullCallback(t) ==
    /\ pc[t] = "c_call"
    /\ ~emptyCallback
    /\ Die("null callback")
    /\ UNCHANGED <<pool, lock, pc, locals, program, owed>>

\* AMCMemPool_SetEmptyCallback takes no lock; it registers the callback or,
\* given NULL, unregisters it.
SetEmptyCallback(t) ==
    /\ pc[t] = "idle" /\ pBlocks # << >>
    /\ emptyCallback' = ~emptyCallback
    /\ owed' = FALSE
    /\ UNCHANGED <<pBlocks, blockHeaders, unitHeaders, lock, pc, locals, program, fault>>

-----------------------------------------------------------------------------
\* AMCMemPool_Destory takes no lock: no other thread may be in a call.
Destory ==
    /\ pBlocks # << >> /\ \A t \in Threads : pc[t] = "idle"
    /\ pBlocks' = << >> /\ held' = {} /\ outstanding' = 0 /\ owed' = FALSE
    /\ UNCHANGED <<blockHeaders, unitHeaders, emptyCallback, lock, pc, locals, fault>>

\* Nothing runs after a fault or on a destroyed pool.
Ended == (fault # "none" \/ pBlocks = << >>) /\ UNCHANGED vars

\* What a call does once it has begun.
Running(t) ==
    \/ AllocScan(t) \/ _memBlock_Attach(t) \/ AttachNoMemory(t)
    \/ _memBlock_Alloc(t) \/ AllocBehindBlock(t) \/ AllocReturn(t)
    \/ FreeReject(t) \/ FreeLink(t) \/ FreePush(t) \/ _memBlock_FreeFromPool(t)
    \/ FreeUnlock(t) \/ FreeTestCallback(t) \/ FreeReadsFreed(t)
    \/ IsEmptyLock(t) \/ IsEmptyTest(t) \/ EmptyCallback(t)
    \/ CallsNullCallback(t)

Calling(t) == AllocLock(t) \/ FreeLock(t) \/ FreeAgainLock(t) \/ SetEmptyCallback(t)

Live(A) == fault = "none" /\ A

Next ==
    \/ \E t \in Threads : Live(Running(t)) \/ Live(Calling(t))
    \/ Live(Destory)
    \/ Ended

Spec == Init /\ [][Next]_vars

\* A thread inside a call goes on; nobody has to begin one.
FairSpec == Spec /\ \A t \in Threads : WF_vars(Live(Running(t)))

-----------------------------------------------------------------------------
(* Properties                                                               *)

Labels == {"idle", "a_scan", "a_take", "a_unlock", "f_check", "f_push", "f_trim",
           "f_unlock", "f_callback", "c_lock", "c_test", "c_call"}

Faults == {"none", "null block", "wild unit", "freed unit", "null callback"}

TypeOK ==
    /\ pBlocks \in Seq(Blocks)
    /\ totalUnitCount \in [Blocks -> {InitUnitCount, GrowUnitCount}]
    /\ freeUnitCount \in [Blocks -> Idx]
    /\ validUnitIdx \in [Blocks -> Idx]
    /\ nextUnitIdx \in [Blocks -> [Idx -> Nat]]
    /\ isAllocated \in [Blocks -> [Idx -> BOOLEAN]]
    /\ emptyCallback \in BOOLEAN
    /\ lock \in Threads \cup {None}
    /\ pc \in [Threads -> Labels]
    /\ blk \in [Threads -> Blocks] /\ idx \in [Threads -> Idx]
    /\ held \subseteq Blocks \X Idx /\ outstanding \in Int
    /\ owed \in BOOLEAN /\ fault \in Faults

\* order lists the units of block b: first, last to be taken first, those of its
\* free list, then those in use.  pending are the units of b being freed.
FreeListOf(b, order, pending) ==
    LET free == freeUnitCount[b]
        total == totalUnitCount[b]
    IN  /\ \A j, k \in 1 .. total : order[j] = order[k] => j = k
        /\ \A i \in UnitsOf(b) : \E k \in 1 .. total : order[k] = i
        /\ \A k \in 1 .. free :
            /\ ~isAllocated[b][order[k]] /\ order[k] \notin pending
            /\ nextUnitIdx[b][order[k]] = IF k = 1 THEN total ELSE order[k - 1]
        /\ \A k \in (free + 1) .. total : isAllocated[b][order[k]] \/ order[k] \in pending
        /\ free <= total
        /\ validUnitIdx[b] = IF free = 0 THEN total ELSE order[free]

\* Units that are out of use and not yet in the free list of b.
Pending(b) == {idx[t] : t \in {s \in Threads : pc[s] = "f_push" /\ blk[s] = b}}

\* The free list of a block visits exactly the units that are not in use, each
\* once, and ends behind the block, whatever mix of calls led there: so
\* _memBlock_Alloc can take freeUnitCount units and never one that is in use.
FreeListIntegrity ==
    \A b \in Linked :
        \E order \in [1 .. totalUnitCount[b] -> UnitsOf(b)] : FreeListOf(b, order, Pending(b))

\* A unit in the program's hands stays marked allocated, in a block that is
\* still in the list: trimming a block never takes memory that is in use.
HeldUnitsLive ==
    \A u \in held : u[1] \in Linked /\ u[2] \in UnitsOf(u[1]) /\ isAllocated[u[1]][u[2]]

\* Whenever no call is under way, what is marked allocated is what the program
\* owns, and every block but the first is in use: nothing leaks, and
\* AMCMemPool_IsAllFree answers TRUE exactly when the program owns no unit.
NothingLost ==
    (fault = "none" /\ pBlocks # << >> /\ \A t \in Threads : pc[t] = "idle") =>
        /\ \A b \in Linked : \A i \in UnitsOf(b) : isAllocated[b][i] => <<b, i>> \in held
        /\ _memPool_IsEmpty <=> held = {}

\* The inductive invariant behind these: who is inside pool->lock, and what
\* each step of a call relies on.
InCriticalSection(t) ==
    pc[t] \in {"a_scan", "a_take", "a_unlock", "f_check", "f_push", "f_trim",
               "f_unlock", "c_test"}

LockHeld == UseLock => \A t \in Threads : InCriticalSection(t) => lock = t

DistinctBlocks == \A j, k \in 1 .. Len(pBlocks) : pBlocks[j] = pBlocks[k] => j = k

Unowned(t) == idx[t] \in UnitsOf(blk[t]) /\ Unit(t) \notin held

StepRelies(t) ==
    /\ pc[t] \in {"a_take", "a_unlock", "f_check", "f_push", "f_trim"} => blk[t] \in Linked
    /\ pc[t] = "a_take" => freeUnitCount[blk[t]] > 0
    /\ pc[t] = "f_trim" => _memBlock_IsEmpty(blk[t])
    /\ pc[t] = "a_unlock" => isAllocated[blk[t]][idx[t]]
    /\ pc[t] \in {"a_unlock", "f_check"} => Unowned(t)
    /\ pc[t] = "f_push" =>
        /\ idx[t] \in UnitsOf(blk[t]) /\ ~isAllocated[blk[t]][idx[t]]
        /\ nextUnitIdx[blk[t]][idx[t]] = validUnitIdx[blk[t]]
    /\ pc[t] # "idle" => pBlocks # << >>

IInv ==
    /\ TypeOK /\ LockHeld /\ DistinctBlocks
    /\ FreeListIntegrity /\ HeldUnitsLive
    /\ \A t \in Threads : StepRelies(t)

\* Alloc hands out only units that nobody owns (see UnitPool).
Promise == INSTANCE UnitPool WITH Units <- Blocks \X Idx
ImplementsUnitPool == Promise!Spec

\* When a free empties the pool while a callback is registered, the callback
\* runs, unless a unit is allocated or the callback is replaced first.
EmptyIsReported == owed ~> (~owed \/ fault # "none")

\* The pool's lock never stays taken: every path of every call gives it back.
LockIsReleased == []<>(lock = None \/ fault # "none")
=============================================================================
