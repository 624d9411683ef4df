--------------------------- MODULE MemPool_proofs ---------------------------
(***************************************************************************)
(* For every number of threads, blocks and units, and units of more than 8 *)
(* bytes: MemPool keeps its free lists intact and implements UnitPool; and *)
(* it loses no unit and keeps no block that is not in use.                 *)
(***************************************************************************)
EXTENDS MemPool, TLAPS

USE DEF Live, Die, Goto

\* The index of a freed unit is right when a unit is larger than the header
\* of its block (_memUnit_Free).
LEMMA UnitIdxExact ==
    ASSUME UnitSize > 8, NEW i \in Nat
    PROVE  UnitIdxAt(i) = i
<1>1. UnitStructSize \in Nat /\ UnitStructSize > 32
    BY CountAssumption, SMT DEF UnitStructSize
<1>2. \A s \in Nat : s > 32 => (32 + i * s) \div s = i
    BY SMT
<1> QED BY <1>1, <1>2 DEF UnitIdxAt

\* At most one thread is inside the pool's lock.
LEMMA OneInside ==
    ASSUME LockHeld, NEW s \in Threads, NEW t \in Threads,
           InCriticalSection(s), InCriticalSection(t)
    PROVE  s = t
BY LockAssumption DEF LockHeld

\* Appending a block to the list adds it to the linked blocks.
LEMMA AppendLinked ==
    ASSUME pBlocks \in Seq(Blocks), DistinctBlocks, NEW b \in Blocks, b \notin Linked,
           pBlocks' = Append(pBlocks, b)
    PROVE  Linked' = Linked \cup {b} /\ DistinctBlocks' /\ pBlocks' \in Seq(Blocks)
<1>1. Len(pBlocks') = Len(pBlocks) + 1 /\ Len(pBlocks) \in Nat /\ pBlocks' \in Seq(Blocks)
    OBVIOUS
<1>2. \A k \in 1 .. Len(pBlocks) : pBlocks'[k] = pBlocks[k]
    OBVIOUS
<1>3. pBlocks'[Len(pBlocks) + 1] = b
    OBVIOUS
<1> QED BY <1>1, <1>2, <1>3 DEF Linked, DistinctBlocks

\* Unlinking a block removes it, and nothing else, from the linked blocks.
LEMMA UnlinkLinked ==
    ASSUME pBlocks \in Seq(Blocks), DistinctBlocks, NEW k \in 2 .. Len(pBlocks),
           pBlocks' = [j \in 1 .. (Len(pBlocks) - 1) |->
                          IF j < k THEN pBlocks[j] ELSE pBlocks[j + 1]]
    PROVE  /\ Linked' = Linked \ {pBlocks[k]} /\ DistinctBlocks'
           /\ pBlocks' \in Seq(Blocks) /\ pBlocks' # << >>
<1> DEFINE n == Len(pBlocks) - 1
<1>1. n + 1 = Len(pBlocks) /\ n \in Nat \ {0} /\ k \in Nat /\ k <= n + 1
      /\ \A j \in 1 .. Len(pBlocks) : pBlocks[j] \in Blocks
    OBVIOUS
<1>2. /\ pBlocks' \in Seq(Blocks) /\ Len(pBlocks') = Len(pBlocks) - 1
      /\ pBlocks' # << >>
    <2>1. pBlocks' \in [1 .. n -> Blocks]
        BY <1>1
    <2>2. pBlocks' \in Seq(Blocks) /\ Len(pBlocks') = n
        BY <2>1, <1>1
    <2> QED BY <2>2, <1>1
<1>3. DistinctBlocks'
    BY <1>1, <1>2 DEF DistinctBlocks
<1>4. Linked' \subseteq Linked \ {pBlocks[k]}
    BY <1>1, <1>2 DEF DistinctBlocks, Linked
<1>5. Linked \ {pBlocks[k]} \subseteq Linked'
    <2> SUFFICES ASSUME NEW j \in 1 .. Len(pBlocks), pBlocks[j] # pBlocks[k]
                 PROVE  \E i \in 1 .. Len(pBlocks') : pBlocks'[i] = pBlocks[j]
        BY DEF Linked
    <2>1. CASE j < k
        <3>1. j \in 1 .. (Len(pBlocks) - 1) /\ pBlocks'[j] = pBlocks[j]
            BY <2>1, <1>1
        <3> QED BY <3>1, <1>2
    <2>2. CASE j > k
        <3>1. j - 1 \in 1 .. (Len(pBlocks) - 1) /\ ~(j - 1 < k) /\ (j - 1) + 1 = j
            BY <2>2, <1>1
        <3> QED BY <3>1, <1>2
    <2> QED BY <2>1, <2>2, <1>1
<1> QED BY <1>2, <1>3, <1>4, <1>5

-----------------------------------------------------------------------------
(* Steps that leave every block and unit header alone.                      *)

\* A block keeps its free list when its headers stay as they are.
LEMMA SameBlock ==
    ASSUME FreeListIntegrity, NEW b \in Linked,
           totalUnitCount'[b] = totalUnitCount[b], freeUnitCount'[b] = freeUnitCount[b],
           validUnitIdx'[b] = validUnitIdx[b], nextUnitIdx'[b] = nextUnitIdx[b],
           isAllocated'[b] = isAllocated[b], Pending(b)' = Pending(b)
    PROVE  \E order \in [1 .. totalUnitCount[b] -> UnitsOf(b)] :
                FreeListOf(b, order, Pending(b))'
<1>1. PICK order \in [1 .. totalUnitCount[b] -> UnitsOf(b)] : FreeListOf(b, order, Pending(b))
    BY DEF FreeListIntegrity
<1>2. UnitsOf(b)' = UnitsOf(b)
    BY DEF UnitsOf
<1>3. FreeListOf(b, order, Pending(b))'
    BY <1>1, <1>2 DEF FreeListOf
<1> QED BY <1>1, <1>3

\* The free lists do not notice such a step, unless it begins or ends the
\* freeing of a unit.
LEMMA SameHeap ==
    ASSUME FreeListIntegrity, DistinctBlocks,
           UNCHANGED <<pBlocks, blockHeaders, unitHeaders>>,
           \A b \in Blocks : Pending(b)' = Pending(b), Linked \subseteq Blocks
    PROVE  /\ FreeListIntegrity' /\ DistinctBlocks' /\ Linked' = Linked
           /\ \A b \in Blocks : UnitsOf(b)' = UnitsOf(b)
<1>1. Linked' = Linked /\ DistinctBlocks'
    BY DEF Linked, DistinctBlocks
<1>2. \A b \in Blocks : UnitsOf(b)' = UnitsOf(b)
    BY DEF UnitsOf, blockHeaders
<1>3. FreeListIntegrity'
    <2> SUFFICES ASSUME NEW b \in Linked
                 PROVE  \E order \in [1 .. totalUnitCount[b] -> UnitsOf(b)] :
                            FreeListOf(b, order, Pending(b))'
        BY <1>1, <1>2 DEF FreeListIntegrity, blockHeaders
    <2>1. Pending(b)' = Pending(b)
        OBVIOUS
    <2> QED BY <2>1, SameBlock DEF blockHeaders, unitHeaders
<1> QED BY <1>1, <1>2, <1>3

\* The free list of a block is untouched by a step that goes from one label to
\* another, neither of them f_push, and moves no pending unit.
LEMMA SamePending ==
    ASSUME NEW t \in Threads, NEW l, pc \in [Threads -> Labels],
           pc[t] # "f_push", l # "f_push", pc' = [pc EXCEPT ![t] = l],
           \A s \in Threads : s # t => blk'[s] = blk[s] /\ idx'[s] = idx[s]
    PROVE  \A b \in Blocks : Pending(b)' = Pending(b)
BY DEF Pending

LEMMA LinkedBlocks == TypeOK => Linked \subseteq Blocks
BY DEF TypeOK, Linked

\* Labels inside the pool's lock.
LockedLabels == {l \in Labels : l \notin {"idle", "f_callback", "c_lock", "c_call"}}

\* A thread that stays where it is with the lock, takes a free lock, or leaves
\* and gives the lock back keeps the rest out.
LEMMA LockStep ==
    ASSUME TypeOK, LockHeld, NEW t \in Threads, NEW l \in Labels,
           pc' = [pc EXCEPT ![t] = l],
           \/ UNCHANGED lock /\ (l \in LockedLabels => pc[t] \in LockedLabels)
           \/ _memPool_Lock(t)
           \/ _memPool_Unlock(t) /\ pc[t] \in LockedLabels /\ l \notin LockedLabels
    PROVE  LockHeld' /\ lock' \in Threads \cup {None} /\ pc' \in [Threads -> Labels]
<1>1. \A s \in Threads : InCriticalSection(s) <=> pc[s] \in LockedLabels
    BY DEF InCriticalSection, LockedLabels, Labels, TypeOK
<1>2. pc' \in [Threads -> Labels]
    BY DEF TypeOK
<1>3. \A s \in Threads : InCriticalSection(s)' <=> pc'[s] \in LockedLabels
    BY <1>2 DEF InCriticalSection, LockedLabels, Labels
<1>4. lock' \in Threads \cup {None}
    BY DEF TypeOK, _memPool_Lock, _memPool_Unlock
<1>5. CASE ~UseLock
    BY <1>5, <1>2, <1>4 DEF LockHeld
<1>6. CASE UseLock
    <2> SUFFICES ASSUME NEW s \in Threads, pc'[s] \in LockedLabels
                 PROVE  lock' = s
        BY <1>2, <1>3, <1>4 DEF LockHeld
    <2> QED BY <1>6, <1>1, NameAssumption DEF LockHeld, _memPool_Lock, _memPool_Unlock, TypeOK
<1> QED BY <1>5, <1>6, LockAssumption

\* Steps that only move a thread on: the calls that begin, the reads without
\* effect, the unlocks, the callback.
LEMMA PlainSteps ==
    ASSUME IInv, NEW t \in Threads,
           \/ AllocLock(t) \/ FreeReject(t) \/ FreeUnlock(t) \/ FreeTestCallback(t)
           \/ IsEmptyLock(t) \/ IsEmptyTest(t) \/ EmptyCallback(t)
    PROVE  IInv'
<1> USE DEF IInv
<1>1. /\ UNCHANGED <<pBlocks, blockHeaders, unitHeaders, emptyCallback, locals, program>>
      /\ owed' \in BOOLEAN /\ fault' = fault
    BY DEF AllocLock, FreeReject, FreeUnlock, FreeTestCallback, IsEmptyLock, IsEmptyTest,
           EmptyCallback, pool, TypeOK
<1>2. PICK l \in Labels \ {"a_take", "a_unlock", "f_check", "f_push", "f_trim"} :
            /\ pc' = [pc EXCEPT ![t] = l] /\ pc[t] # "f_push" /\ pBlocks # << >>
            /\ \/ UNCHANGED lock /\ (l \in LockedLabels => pc[t] \in LockedLabels)
               \/ _memPool_Lock(t)
               \/ _memPool_Unlock(t) /\ pc[t] \in LockedLabels /\ l \notin LockedLabels
    <2> USE DEF Labels, LockedLabels, StepRelies, TypeOK
    <2>1. CASE AllocLock(t)
        BY <2>1 DEF AllocLock
    <2>2. CASE FreeReject(t)
        BY <2>2 DEF FreeReject
    <2>3. CASE FreeUnlock(t)
        BY <2>3 DEF FreeUnlock
    <2>4. CASE FreeTestCallback(t)
        BY <2>4 DEF FreeTestCallback
    <2>5. CASE IsEmptyLock(t)
        BY <2>5 DEF IsEmptyLock
    <2>6. CASE IsEmptyTest(t)
        BY <2>6 DEF IsEmptyTest
    <2>7. CASE EmptyCallback(t)
        BY <2>7 DEF EmptyCallback
    <2> QED BY <2>1, <2>2, <2>3, <2>4, <2>5, <2>6, <2>7
<1>3. LockHeld' /\ lock' \in Threads \cup {None} /\ pc' \in [Threads -> Labels]
    BY <1>2, LockStep
<1>4. \A b \in Blocks : Pending(b)' = Pending(b)
    BY <1>1, <1>2, SamePending DEF TypeOK, locals
<1>5. FreeListIntegrity' /\ DistinctBlocks' /\ Linked' = Linked
      /\ \A b \in Blocks : UnitsOf(b)' = UnitsOf(b)
    BY <1>1, <1>4, SameHeap, LinkedBlocks
<1>6. TypeOK'
    BY <1>1, <1>3 DEF TypeOK, blockHeaders, unitHeaders, locals, program
<1>7. HeldUnitsLive'
    BY <1>1, <1>5, LinkedBlocks DEF HeldUnitsLive, blockHeaders, unitHeaders, program
<1>8. ASSUME NEW s \in Threads PROVE StepRelies(s)'
    <2>1. blk' = blk /\ idx' = idx /\ blk[s] \in Blocks /\ pBlocks' = pBlocks
        BY <1>1 DEF locals, TypeOK
    <2>2. pc'[s] = pc[s] \/ (s = t /\ pc'[s] = l)
        BY <1>2 DEF TypeOK
    <2>3. StepRelies(s) /\ Unowned(s)' = Unowned(s)
        BY <1>1, <1>5, <2>1 DEF Unowned, Unit, unitHeaders, program
    <2> QED BY <1>1, <1>2, <1>5, <2>1, <2>2, <2>3
            DEF StepRelies, _memBlock_IsEmpty, blockHeaders, unitHeaders
<1> QED BY <1>3, <1>5, <1>6, <1>7, <1>8

\* Steps that touch only the callback, the history of it and the fault.
LEMMA StillStep ==
    ASSUME IInv,
           UNCHANGED <<pBlocks, blockHeaders, unitHeaders, locals, program, lock, pc>>,
           owed' \in BOOLEAN, fault' \in Faults, emptyCallback' \in BOOLEAN
    PROVE  IInv'
<1> USE DEF IInv
<1>1. UNCHANGED <<pBlocks, blockHeaders, unitHeaders, locals, program, lock, pc>>
    OBVIOUS
<1>2. TypeOK' /\ LockHeld'
    BY <1>1 DEF TypeOK, LockHeld, InCriticalSection, blockHeaders, unitHeaders, locals, program
<1>3. \A b \in Blocks : Pending(b)' = Pending(b)
    BY <1>1 DEF Pending, locals
<1>4. FreeListIntegrity' /\ DistinctBlocks' /\ Linked' = Linked
      /\ \A b \in Blocks : UnitsOf(b)' = UnitsOf(b)
    BY <1>1, <1>3, SameHeap, LinkedBlocks
<1>5. HeldUnitsLive'
    BY <1>1, <1>4, LinkedBlocks DEF HeldUnitsLive, blockHeaders, unitHeaders, program
<1>6. ASSUME NEW s \in Threads PROVE StepRelies(s)'
    <2>1. blk' = blk /\ idx' = idx /\ blk[s] \in Blocks
        BY <1>1 DEF locals, TypeOK
    <2>2. StepRelies(s) /\ Unowned(s)' = Unowned(s)
        BY <1>1, <1>4, <2>1 DEF Unowned, Unit, unitHeaders, program
    <2> QED BY <1>1, <1>4, <2>1, <2>2 DEF StepRelies, _memBlock_IsEmpty, blockHeaders, unitHeaders
<1> QED BY <1>2, <1>4, <1>5, <1>6

\* Faults end the process where it is; SetEmptyCallback writes the callback.
LEMMA StillSteps ==
    ASSUME IInv, NEW t \in Threads,
           \/ AttachNoMemory(t) \/ AllocBehindBlock(t) \/ FreeReadsFreed(t)
           \/ CallsNullCallback(t) \/ SetEmptyCallback(t)
    PROVE  IInv'
<1>1. /\ UNCHANGED <<pBlocks, blockHeaders, unitHeaders, locals, program, lock, pc>>
      /\ owed' \in BOOLEAN /\ fault' \in Faults /\ emptyCallback' \in BOOLEAN
    BY DEF AttachNoMemory, AllocBehindBlock, FreeReadsFreed, CallsNullCallback,
           SetEmptyCallback, pool, IInv, TypeOK, Faults
<1> QED BY <1>1, StillStep

LEMMA StutterStep ==
    ASSUME IInv, UNCHANGED vars
    PROVE  IInv'
<1>1. /\ UNCHANGED <<pBlocks, blockHeaders, unitHeaders, locals, program, lock, pc>>
      /\ owed' \in BOOLEAN /\ fault' \in Faults /\ emptyCallback' \in BOOLEAN
    BY DEF vars, pool, IInv, TypeOK
<1> QED BY <1>1, StillStep

-----------------------------------------------------------------------------
(* AMCMemPool_Alloc                                                         *)

\* The scan stops at a linked block that has a free unit.
LEMMA ScanStep ==
    ASSUME IInv, NEW t \in Threads, AllocScan(t)
    PROVE  IInv'
<1> USE DEF IInv
<1>1. /\ UNCHANGED <<pBlocks, blockHeaders, unitHeaders, emptyCallback, idx, program, lock>>
      /\ owed' = owed /\ fault' = fault
      /\ pc[t] = "a_scan" /\ pc' = [pc EXCEPT ![t] = "a_take"]
    BY DEF AllocScan, pool
<1>2. PICK b \in Linked : freeUnitCount[b] # 0 /\ blk' = [blk EXCEPT ![t] = b]
    BY DEF AllocScan, _memBlock_IsValid, Linked
<1>3. b \in Blocks /\ freeUnitCount[b] > 0
    <2>1. b \in Blocks
        BY <1>2, LinkedBlocks
    <2>2. freeUnitCount[b] \in Idx
        BY <2>1 DEF TypeOK
    <2> QED BY <1>2, <2>1, <2>2, CountAssumption DEF Idx
<1>4. LockHeld' /\ lock' \in Threads \cup {None} /\ pc' \in [Threads -> Labels]
    BY <1>1, LockStep DEF Labels, LockedLabels
<1>5. \A c \in Blocks : Pending(c)' = Pending(c)
    BY <1>1, <1>2, SamePending DEF TypeOK
<1>6. FreeListIntegrity' /\ DistinctBlocks' /\ Linked' = Linked
      /\ \A c \in Blocks : UnitsOf(c)' = UnitsOf(c)
    BY <1>1, <1>5, SameHeap, LinkedBlocks
<1>7. TypeOK'
    BY <1>1, <1>2, <1>3, <1>4 DEF TypeOK, blockHeaders, unitHeaders, program
<1>8. HeldUnitsLive'
    BY <1>1, <1>6, LinkedBlocks DEF HeldUnitsLive, blockHeaders, unitHeaders, program
<1>9. ASSUME NEW s \in Threads PROVE StepRelies(s)'
    <2>1. CASE s = t
        BY <2>1, <1>1, <1>2, <1>3, <1>6 DEF StepRelies, _memBlock_IsEmpty, TypeOK, blockHeaders
    <2>2. CASE s # t
        <3>1. /\ blk'[s] = blk[s] /\ idx'[s] = idx[s] /\ pc'[s] = pc[s]
              /\ blk[s] \in Blocks /\ StepRelies(s)
            BY <2>2, <1>1, <1>2 DEF TypeOK
        <3>2. Unowned(s)' = Unowned(s)
            BY <3>1, <1>1, <1>6 DEF Unowned, Unit, unitHeaders, program
        <3> QED BY <3>1, <3>2, <1>1, <1>6 DEF StepRelies, _memBlock_IsEmpty, blockHeaders, unitHeaders
    <2> QED BY <2>1, <2>2
<1> QED BY <1>4, <1>6, <1>7, <1>8, <1>9

\* The unit handed out was in use by nobody else.
LEMMA ReturnStep ==
    ASSUME IInv, NEW t \in Threads, AllocReturn(t)
    PROVE  IInv'
<1> USE DEF IInv
<1>1. /\ UNCHANGED <<pBlocks, blockHeaders, unitHeaders, emptyCallback, locals>>
      /\ owed' = owed /\ fault' = fault /\ _memPool_Unlock(t)
      /\ pc[t] = "a_unlock" /\ pc' = [pc EXCEPT ![t] = "idle"]
      /\ held' = held \cup {Unit(t)} /\ outstanding' = outstanding + 1
    BY DEF AllocReturn, pool
<1>2. LockHeld' /\ lock' \in Threads \cup {None} /\ pc' \in [Threads -> Labels]
    BY <1>1, LockStep DEF Labels, LockedLabels
<1>3. \A c \in Blocks : Pending(c)' = Pending(c)
    BY <1>1, SamePending DEF TypeOK, locals
<1>4. FreeListIntegrity' /\ DistinctBlocks' /\ Linked' = Linked
      /\ \A c \in Blocks : UnitsOf(c)' = UnitsOf(c)
    BY <1>1, <1>3, SameHeap, LinkedBlocks
<1>5. Unowned(t) /\ isAllocated[blk[t]][idx[t]] /\ blk[t] \in Linked /\ InCriticalSection(t)
    BY <1>1 DEF StepRelies, _memBlock_IsEmpty, InCriticalSection
<1>6. TypeOK'
    <2>1. Unit(t) \in Blocks \X Idx
        BY DEF TypeOK, Unit
    <2>2. held \subseteq Blocks \X Idx /\ outstanding \in Int
        BY DEF TypeOK
    <2>3. outstanding' \in Int
        BY <2>2, <1>1
    <2>4. held' \subseteq Blocks \X Idx
        BY <2>1, <2>2, <1>1, Zenon
    <2> QED BY <2>3, <2>4, <1>1, <1>2 DEF TypeOK, blockHeaders, unitHeaders, locals
<1>7. HeldUnitsLive'
    BY <1>1, <1>4, <1>5, LinkedBlocks DEF HeldUnitsLive, Unowned, Unit, unitHeaders
<1>8. ASSUME NEW s \in Threads PROVE StepRelies(s)'
    <2>1. CASE s = t
        BY <2>1, <1>1 DEF StepRelies, _memBlock_IsEmpty, TypeOK
    <2>2. CASE s # t
        <3>1. pc'[s] = pc[s] /\ ~InCriticalSection(s) /\ StepRelies(s)
            BY <2>2, <1>1, <1>5, OneInside DEF TypeOK
        <3> QED BY <3>1, <1>1 DEF StepRelies, _memBlock_IsEmpty, InCriticalSection
    <2> QED BY <2>1, <2>2
<1> QED BY <1>2, <1>4, <1>6, <1>7, <1>8

\* A new block starts with the free list 0, 1, ..., growUnitCount - 1.
LEMMA AttachStep ==
    ASSUME IInv, NEW t \in Threads, _memBlock_Attach(t)
    PROVE  IInv'
<1> USE DEF IInv
<1> DEFINE fresh == [i \in Idx |-> i + 1]
<1>1. PICK b \in Blocks \ Linked :
        /\ pBlocks' = Append(pBlocks, b)
        /\ totalUnitCount' = [totalUnitCount EXCEPT ![b] = GrowUnitCount]
        /\ freeUnitCount' = [freeUnitCount EXCEPT ![b] = GrowUnitCount]
        /\ validUnitIdx' = [validUnitIdx EXCEPT ![b] = 0]
        /\ nextUnitIdx' = [nextUnitIdx EXCEPT ![b] = fresh]
        /\ isAllocated' = [isAllocated EXCEPT ![b] = [i \in Idx |-> FALSE]]
        /\ blk' = [blk EXCEPT ![t] = b]
    BY DEF _memBlock_Attach
<1>2. /\ UNCHANGED <<emptyCallback, lock, idx, held, outstanding, owed, fault>>
      /\ pc[t] = "a_scan" /\ pc' = [pc EXCEPT ![t] = "a_take"]
    BY DEF _memBlock_Attach, program
<1>3. LockHeld' /\ lock' \in Threads \cup {None} /\ pc' \in [Threads -> Labels]
    BY <1>2, LockStep DEF Labels, LockedLabels
<1>4. \A c \in Blocks : Pending(c)' = Pending(c)
    BY <1>1, <1>2, SamePending DEF TypeOK
<1>5. Linked' = Linked \cup {b} /\ DistinctBlocks' /\ pBlocks' \in Seq(Blocks)
    BY <1>1, AppendLinked DEF TypeOK
<1>6. \A c \in Linked : c \in Blocks /\ c # b /\ UnitsOf(c)' = UnitsOf(c)
    BY <1>1, LinkedBlocks DEF UnitsOf, TypeOK
<1>7. TypeOK'
    <2>1. GrowUnitCount \in Idx /\ 0 \in Idx /\ fresh \in [Idx -> Nat]
        BY CountAssumption DEF Idx
    <2>2. /\ totalUnitCount' \in [Blocks -> {InitUnitCount, GrowUnitCount}]
          /\ freeUnitCount' \in [Blocks -> Idx] /\ validUnitIdx' \in [Blocks -> Idx]
          /\ nextUnitIdx' \in [Blocks -> [Idx -> Nat]]
          /\ isAllocated' \in [Blocks -> [Idx -> BOOLEAN]]
        BY <2>1, <1>1 DEF TypeOK
    <2> QED BY <2>2, <1>1, <1>2, <1>3, <1>5 DEF TypeOK
<1>8. FreeListIntegrity'
    <2> SUFFICES ASSUME NEW c \in Linked \cup {b}
                 PROVE  \E order \in [1 .. totalUnitCount'[c] -> UnitsOf(c)'] :
                            FreeListOf(c, order, Pending(c))'
        BY <1>5 DEF FreeListIntegrity
    <2>1. CASE c \in Linked
        <3>2. /\ c \in Blocks /\ c # b /\ UnitsOf(c)' = UnitsOf(c)
              /\ Pending(c)' = Pending(c)
            BY <2>1, <1>4, <1>6
        <3>3. /\ totalUnitCount'[c] = totalUnitCount[c] /\ freeUnitCount'[c] = freeUnitCount[c]
              /\ validUnitIdx'[c] = validUnitIdx[c] /\ nextUnitIdx'[c] = nextUnitIdx[c]
              /\ isAllocated'[c] = isAllocated[c]
            BY <3>2, <1>1 DEF TypeOK
        <3> QED BY <2>1, <3>2, <3>3, SameBlock
    <2>2. CASE c = b
        <3> DEFINE order == [k \in 1 .. GrowUnitCount |-> GrowUnitCount - k]
        <3>1. /\ totalUnitCount'[b] = GrowUnitCount /\ freeUnitCount'[b] = GrowUnitCount
              /\ validUnitIdx'[b] = 0 /\ nextUnitIdx'[b] = fresh
              /\ isAllocated'[b] = [i \in Idx |-> FALSE]
            BY <1>1 DEF TypeOK
        <3>2. Pending(b)' = {}
            <4>1. \A s \in Threads : pc[s] = "f_push" => blk[s] # b
                BY <1>1 DEF StepRelies, _memBlock_IsEmpty
            <4> QED BY <4>1, <1>2, <1>4 DEF Pending
        <3>3. GrowUnitCount \in Nat /\ GrowUnitCount > 0 /\ InitUnitCount \in Nat
            BY CountAssumption
        <3>4. UnitsOf(b)' = 0 .. (GrowUnitCount - 1) /\ order \in [1 .. GrowUnitCount -> UnitsOf(b)']
            BY <3>1, <3>3 DEF UnitsOf
        <3>5. \A k \in 1 .. GrowUnitCount :
                /\ order[k] \in Idx /\ order[k] = GrowUnitCount - k
                /\ fresh[order[k]] = IF k = 1 THEN GrowUnitCount ELSE order[k - 1]
            BY <3>3 DEF Idx
        <3>6. \A i \in UnitsOf(b)' : \E k \in 1 .. GrowUnitCount : order[k] = i
            <4> SUFFICES ASSUME NEW i \in 0 .. (GrowUnitCount - 1)
                         PROVE  \E k \in 1 .. GrowUnitCount : order[k] = i
                BY <3>4
            <4>1. GrowUnitCount - i \in 1 .. GrowUnitCount /\ order[GrowUnitCount - i] = i
                BY <3>3
            <4> QED BY <4>1
        <3>7. \A j, k \in 1 .. GrowUnitCount : order[j] = order[k] => j = k
            BY <3>3, <3>5
        <3>8. order[GrowUnitCount] = 0
            BY <3>3, <3>5
        <3> HIDE DEF order, fresh
        <3>9. FreeListOf(b, order, Pending(b))'
            BY <3>1, <3>2, <3>3, <3>5, <3>6, <3>7, <3>8 DEF FreeListOf
        <3> QED BY <2>2, <3>1, <3>4, <3>9
    <2> QED BY <2>1, <2>2
<1>9. HeldUnitsLive'
    BY <1>1, <1>2, <1>5, <1>6 DEF HeldUnitsLive, TypeOK
<1>10. ASSUME NEW s \in Threads PROVE StepRelies(s)'
    <2>0. pBlocks' # << >>
        BY <1>5 DEF Linked
    <2>1. CASE s = t
        BY <2>0, <2>1, <1>1, <1>2, <1>5, CountAssumption DEF StepRelies, _memBlock_IsEmpty, TypeOK
    <2>2. CASE s # t
        <3>1. pc'[s] = pc[s] /\ ~InCriticalSection(s)
            BY <2>2, <1>2, OneInside DEF TypeOK, InCriticalSection
        <3> QED BY <2>0, <3>1 DEF StepRelies, _memBlock_IsEmpty, InCriticalSection
    <2> QED BY <2>1, <2>2
<1> QED BY <1>3, <1>5, <1>7, <1>8, <1>9, <1>10

\* Taking the head of the free list: its place in the order moves from the free
\* units to the ones in use.
LEMMA TakeStep ==
    ASSUME IInv, NEW t \in Threads, _memBlock_Alloc(t)
    PROVE  IInv'
<1> USE DEF IInv
<1>0. PICK b, i, free : b = blk[t] /\ i = validUnitIdx[b] /\ free = freeUnitCount[b]
    OBVIOUS
<1>1. /\ i \in UnitsOf(b) /\ idx' = [idx EXCEPT ![t] = i]
      /\ isAllocated' = [isAllocated EXCEPT ![b][i] = TRUE]
      /\ validUnitIdx' = [validUnitIdx EXCEPT ![b] = nextUnitIdx[b][i]]
      /\ freeUnitCount' = [freeUnitCount EXCEPT ![b] = free - 1]
    BY <1>0 DEF _memBlock_Alloc
<1>2. /\ UNCHANGED <<pBlocks, totalUnitCount, nextUnitIdx, emptyCallback, lock, blk, held,
                     outstanding, fault>>
      /\ owed' = FALSE /\ pc[t] = "a_take" /\ pc' = [pc EXCEPT ![t] = "a_unlock"]
    BY DEF _memBlock_Alloc, program
<1>3. LockHeld' /\ lock' \in Threads \cup {None} /\ pc' \in [Threads -> Labels]
    BY <1>2, LockStep DEF Labels, LockedLabels
<1>4. \A c \in Blocks : Pending(c)' = Pending(c)
    BY <1>1, <1>2, SamePending DEF TypeOK
<1>5. Linked' = Linked /\ DistinctBlocks' /\ \A c \in Blocks : UnitsOf(c)' = UnitsOf(c)
    BY <1>2 DEF Linked, DistinctBlocks, UnitsOf
<1>6. /\ b \in Linked /\ b \in Blocks /\ free \in Nat \ {0} /\ totalUnitCount[b] \in Nat
      /\ totalUnitCount[b] \in Idx /\ UnitsOf(b) \subseteq Idx
    <2>1. b \in Linked /\ b \in Blocks /\ free > 0
        BY <1>0, <1>2, LinkedBlocks DEF StepRelies, _memBlock_IsEmpty
    <2>2. free \in Idx /\ totalUnitCount[b] \in {InitUnitCount, GrowUnitCount}
        BY <1>0, <2>1 DEF TypeOK
    <2> QED BY <2>1, <2>2, CountAssumption DEF Idx, UnitsOf
<1>7. PICK order \in [1 .. totalUnitCount[b] -> UnitsOf(b)] : FreeListOf(b, order, Pending(b))
    BY <1>6 DEF FreeListIntegrity
<1>8. free <= totalUnitCount[b] /\ i = order[free] /\ ~isAllocated[b][i]
    BY <1>0, <1>6, <1>7 DEF FreeListOf
<1>9. /\ nextUnitIdx[b][i] = IF free = 1 THEN totalUnitCount[b] ELSE order[free - 1]
      /\ nextUnitIdx[b][i] \in Idx
    BY <1>0, <1>6, <1>7, <1>8 DEF FreeListOf
<1>10. /\ isAllocated'[b][i] /\ freeUnitCount'[b] = free - 1
       /\ validUnitIdx'[b] = nextUnitIdx[b][i]
       /\ \A j \in Idx : j # i => isAllocated'[b][j] = isAllocated[b][j]
    BY <1>1, <1>6 DEF TypeOK
<1>11. \A c \in Blocks : c # b => /\ isAllocated'[c] = isAllocated[c]
                                   /\ freeUnitCount'[c] = freeUnitCount[c]
                                   /\ validUnitIdx'[c] = validUnitIdx[c]
    BY <1>1 DEF TypeOK
<1>12. TypeOK'
    <2>1. free - 1 \in Idx /\ i \in Idx
        BY <1>1, <1>6, <1>8, CountAssumption DEF Idx
    <2>2. /\ freeUnitCount' \in [Blocks -> Idx] /\ validUnitIdx' \in [Blocks -> Idx]
          /\ isAllocated' \in [Blocks -> [Idx -> BOOLEAN]] /\ idx' \in [Threads -> Idx]
        BY <2>1, <1>1, <1>9 DEF TypeOK
    <2> QED BY <2>2, <1>2, <1>3 DEF TypeOK
<1>13. FreeListIntegrity'
    <2> SUFFICES ASSUME NEW c \in Linked
                 PROVE  \E o \in [1 .. totalUnitCount[c] -> UnitsOf(c)] :
                            FreeListOf(c, o, Pending(c))'
        BY <1>2, <1>5, LinkedBlocks DEF FreeListIntegrity
    <2>1. CASE c # b
        <3>1. c \in Blocks /\ Pending(c)' = Pending(c)
            BY LinkedBlocks, <1>4
        <3> QED BY <2>1, <3>1, <1>2, <1>11, SameBlock
    <2>2. CASE c = b
        <3>1. UnitsOf(b)' = UnitsOf(b) /\ Pending(b)' = Pending(b)
            BY <1>4, <1>5, <1>6
        <3>2. \A k \in 1 .. totalUnitCount[b] : order[k] \in UnitsOf(b) /\ (order[k] = i => k = free)
            BY <1>6, <1>7, <1>8 DEF FreeListOf
        <3>3. \A k \in 1 .. (free - 1) :
                /\ ~isAllocated'[b][order[k]] /\ order[k] \notin Pending(b)
                /\ nextUnitIdx[b][order[k]] = IF k = 1 THEN totalUnitCount[b] ELSE order[k - 1]
            BY <1>0, <1>6, <1>7, <1>8, <1>10, <3>2 DEF FreeListOf
        <3>4. \A k \in free .. totalUnitCount[b] :
                isAllocated'[b][order[k]] \/ order[k] \in Pending(b)
            <4> SUFFICES ASSUME NEW k \in free .. totalUnitCount[b]
                         PROVE  isAllocated'[b][order[k]] \/ order[k] \in Pending(b)
                OBVIOUS
            <4>1. CASE k = free
                BY <4>1, <1>8, <1>10
            <4>2. CASE k # free
                <5>1. k \in (free + 1) .. totalUnitCount[b] /\ k \in 1 .. totalUnitCount[b]
                    BY <4>2, <1>6
                <5> QED BY <5>1, <1>0, <1>6, <1>7, <1>10, <3>2 DEF FreeListOf
            <4> QED BY <4>1, <4>2
        <3>5. validUnitIdx'[b] = IF free - 1 = 0 THEN totalUnitCount[b] ELSE order[free - 1]
            BY <1>6, <1>9, <1>10
        <3>6. /\ \A j, k \in 1 .. totalUnitCount[b] : order[j] = order[k] => j = k
              /\ \A j \in UnitsOf(b) : \E k \in 1 .. totalUnitCount[b] : order[k] = j
            BY <1>7 DEF FreeListOf
        <3>7. FreeListOf(b, order, Pending(b))'
            BY <1>2, <1>6, <1>8, <1>10, <3>1, <3>3, <3>4, <3>5, <3>6 DEF FreeListOf
        <3> QED BY <2>2, <3>7, <1>2
    <2> QED BY <2>1, <2>2
<1>14. HeldUnitsLive'
    BY <1>1, <1>2, <1>5, <1>6, <1>10, <1>11, LinkedBlocks DEF HeldUnitsLive, TypeOK
<1>15. ASSUME NEW s \in Threads PROVE StepRelies(s)'
    <2>1. CASE s = t
        <3>1. idx'[t] = i /\ blk'[t] = b /\ pc'[t] = "a_unlock"
            BY <1>0, <1>1, <1>2 DEF TypeOK
        <3>2. <<b, i>> \notin held
            BY <1>8 DEF HeldUnitsLive
        <3> QED BY <2>1, <3>1, <3>2, <1>1, <1>2, <1>5, <1>6, <1>10
                DEF StepRelies, _memBlock_IsEmpty, Unowned, Unit, UnitsOf
    <2>2. CASE s # t
        <3>1. pc'[s] = pc[s] /\ ~InCriticalSection(s) /\ StepRelies(s)
            BY <2>2, <1>2, OneInside DEF TypeOK, InCriticalSection
        <3> QED BY <3>1, <1>2 DEF StepRelies, _memBlock_IsEmpty, InCriticalSection
    <2> QED BY <2>1, <2>2
<1> QED BY <1>3, <1>5, <1>12, <1>13, <1>14, <1>15

-----------------------------------------------------------------------------
(* AMCMemPool_Free                                                          *)

\* The unit given back is, from now on, nobody's.
LEMMA GiveBackStep ==
    ASSUME IInv, NEW t \in Threads, FreeLock(t) \/ FreeAgainLock(t)
    PROVE  IInv'
<1> USE DEF IInv
<1>0. PICK b \in Linked : \E i \in UnitsOf(b) : FreeCall(t, <<b, i>>)
    <2>1. CASE FreeLock(t)
        <3>1. PICK u \in held : FreeCall(t, u)
            BY <2>1 DEF FreeLock
        <3>2. PICK b \in Blocks, i \in Idx : u = <<b, i>>
            BY DEF TypeOK
        <3> QED BY <3>1, <3>2 DEF HeldUnitsLive
    <2>2. CASE FreeAgainLock(t)
        BY <2>2 DEF FreeAgainLock
    <2> QED BY <2>1, <2>2
<1>9. PICK i \in UnitsOf(b) : FreeCall(t, <<b, i>>)
    BY <1>0
<1>1. /\ b \in Blocks /\ i \in Idx
      /\ blk' = [blk EXCEPT ![t] = b] /\ idx' = [idx EXCEPT ![t] = i]
      /\ held' = held \ {<<b, i>>}
    <2>1. b \in Blocks
        BY LinkedBlocks
    <2>2. totalUnitCount[b] \in {InitUnitCount, GrowUnitCount}
        BY <2>1 DEF TypeOK
    <2>3. i \in Idx
        BY <2>2, CountAssumption DEF UnitsOf, Idx
    <2> QED BY <1>9, <2>1, <2>3 DEF FreeCall
<1>2. /\ UNCHANGED <<pBlocks, blockHeaders, unitHeaders, emptyCallback>>
      /\ owed' = owed /\ fault' = fault /\ _memPool_Lock(t) /\ pBlocks # << >>
      /\ pc[t] = "idle" /\ pc' = [pc EXCEPT ![t] = "f_check"]
      /\ outstanding' \in {outstanding, outstanding - 1}
    BY <1>9 DEF FreeLock, FreeAgainLock, FreeCall, pool
<1>3. LockHeld' /\ lock' \in Threads \cup {None} /\ pc' \in [Threads -> Labels]
    BY <1>2, LockStep DEF Labels, LockedLabels
<1>4. \A c \in Blocks : Pending(c)' = Pending(c)
    BY <1>1, <1>2, SamePending DEF TypeOK
<1>5. FreeListIntegrity' /\ DistinctBlocks' /\ Linked' = Linked
      /\ \A c \in Blocks : UnitsOf(c)' = UnitsOf(c)
    BY <1>2, <1>4, SameHeap, LinkedBlocks
<1>6. TypeOK'
    <2>1. blk' \in [Threads -> Blocks] /\ idx' \in [Threads -> Idx]
        BY <1>1 DEF TypeOK
    <2>2. outstanding' \in Int
        BY <1>2 DEF TypeOK
    <2> QED BY <2>1, <2>2, <1>1, <1>2, <1>3 DEF TypeOK, blockHeaders, unitHeaders
<1>7. HeldUnitsLive'
    BY <1>1, <1>2, <1>5, LinkedBlocks DEF HeldUnitsLive, unitHeaders
<1>8. ASSUME NEW s \in Threads PROVE StepRelies(s)'
    <2>1. CASE s = t
        <3>1. blk'[t] = b /\ idx'[t] = i /\ pc'[t] = "f_check"
            BY <1>1, <1>2 DEF TypeOK
        <3> QED BY <2>1, <3>1, <1>1, <1>2, <1>5
                DEF StepRelies, _memBlock_IsEmpty, Unowned, Unit, unitHeaders
    <2>2. CASE s # t
        <3>1. /\ blk'[s] = blk[s] /\ idx'[s] = idx[s] /\ pc'[s] = pc[s]
              /\ blk[s] \in Blocks /\ StepRelies(s)
            BY <2>2, <1>1, <1>2 DEF TypeOK
        <3>2. Unowned(s) => Unowned(s)'
            BY <3>1, <1>1, <1>2, <1>5 DEF Unowned, Unit, unitHeaders
        <3> QED BY <3>1, <3>2, <1>2, <1>5 DEF StepRelies, _memBlock_IsEmpty, blockHeaders, unitHeaders
    <2> QED BY <2>1, <2>2
<1> QED BY <1>3, <1>5, <1>6, <1>7, <1>8

\* The freed unit leaves use; its index still has to enter the free list.
LEMMA LinkStep ==
    ASSUME IInv, NEW t \in Threads, FreeLink(t)
    PROVE  IInv'
<1> USE DEF IInv
<1>0. PICK b, i : b = blk[t] /\ i = idx[t]
    OBVIOUS
<1>1. /\ b \in Linked /\ isAllocated[b][i]
      /\ nextUnitIdx' = [nextUnitIdx EXCEPT ![b][i] = validUnitIdx[b]]
      /\ isAllocated' = [isAllocated EXCEPT ![b][i] = FALSE]
    BY <1>0 DEF FreeLink
<1>2. /\ UNCHANGED <<pBlocks, totalUnitCount, freeUnitCount, validUnitIdx, emptyCallback, lock,
                     blk, idx, held, outstanding, owed, fault>>
      /\ pc[t] = "f_check" /\ pc' = [pc EXCEPT ![t] = "f_push"]
    BY DEF FreeLink, blockHeaders, locals, program
<1>3. LockHeld' /\ lock' \in Threads \cup {None} /\ pc' \in [Threads -> Labels]
    BY <1>2, LockStep DEF Labels, LockedLabels
<1>4. Linked' = Linked /\ DistinctBlocks' /\ \A c \in Blocks : UnitsOf(c)' = UnitsOf(c)
    BY <1>2 DEF Linked, DistinctBlocks, UnitsOf
<1>5. /\ b \in Blocks /\ i \in UnitsOf(b) /\ i \in Idx /\ <<b, i>> \notin held
    BY <1>0, <1>1, <1>2, LinkedBlocks DEF StepRelies, _memBlock_IsEmpty, Unowned, Unit, TypeOK
<1>6. /\ nextUnitIdx'[b][i] = validUnitIdx[b] /\ ~isAllocated'[b][i]
      /\ \A j \in Idx : j # i => /\ isAllocated'[b][j] = isAllocated[b][j]
                                 /\ nextUnitIdx'[b][j] = nextUnitIdx[b][j]
    BY <1>1, <1>5 DEF TypeOK
<1>7. \A c \in Blocks : c # b => /\ isAllocated'[c] = isAllocated[c]
                                  /\ nextUnitIdx'[c] = nextUnitIdx[c]
    BY <1>1 DEF TypeOK
<1>8. \A s \in Threads : s # t => pc[s] # "f_push"
    BY <1>2, OneInside DEF InCriticalSection
<1>9. Pending(b) = {} /\ Pending(b)' = {i}
    <2>1. Pending(b) = {}
        BY <1>2, <1>8 DEF Pending
    <2>2. \A s \in Threads : pc'[s] = "f_push" <=> s = t
        BY <1>2, <1>8 DEF TypeOK
    <2> QED BY <1>0, <1>2, <2>1, <2>2 DEF Pending
<1>10. \A c \in Blocks : c # b => Pending(c)' = Pending(c)
    BY <1>0, <1>2, <1>8 DEF Pending, TypeOK
<1>11. TypeOK'
    <2>1. validUnitIdx[b] \in Nat
        BY <1>5 DEF TypeOK, Idx
    <2>2. /\ nextUnitIdx' \in [Blocks -> [Idx -> Nat]]
          /\ isAllocated' \in [Blocks -> [Idx -> BOOLEAN]]
        BY <2>1, <1>1, <1>5 DEF TypeOK
    <2> QED BY <2>2, <1>2, <1>3 DEF TypeOK
<1>12. FreeListIntegrity'
    <2> SUFFICES ASSUME NEW c \in Linked
                 PROVE  \E o \in [1 .. totalUnitCount[c] -> UnitsOf(c)] :
                            FreeListOf(c, o, Pending(c))'
        BY <1>2, <1>4, LinkedBlocks DEF FreeListIntegrity
    <2>1. CASE c # b
        BY <2>1, <1>2, <1>7, <1>10, LinkedBlocks, SameBlock
    <2>2. CASE c = b
        <3>1. PICK o \in [1 .. totalUnitCount[b] -> UnitsOf(b)] : FreeListOf(b, o, Pending(b))
            BY <1>1 DEF FreeListIntegrity
        <3>2. UnitsOf(b)' = UnitsOf(b) /\ UnitsOf(b) \subseteq Idx
              /\ freeUnitCount[b] \in Nat /\ totalUnitCount[b] \in Nat
            <4>1. totalUnitCount[b] \in {InitUnitCount, GrowUnitCount} /\ freeUnitCount[b] \in Idx
                BY <1>5 DEF TypeOK
            <4> QED BY <4>1, <1>4, <1>5, CountAssumption DEF Idx, UnitsOf
        <3>3. \A k \in 1 .. freeUnitCount[b] : o[k] # i /\ o[k] \in Idx
            BY <3>1, <3>2, <1>1 DEF FreeListOf
        <3>4. \A k \in 1 .. totalUnitCount[b] : o[k] \in Idx
            BY <3>2
        <3>5. \A k \in 1 .. freeUnitCount[b] :
                /\ ~isAllocated'[b][o[k]] /\ o[k] \notin {i}
                /\ nextUnitIdx'[b][o[k]] = IF k = 1 THEN totalUnitCount[b] ELSE o[k - 1]
            BY <3>1, <3>3, <1>6 DEF FreeListOf
        <3>6. \A k \in (freeUnitCount[b] + 1) .. totalUnitCount[b] :
                isAllocated'[b][o[k]] \/ o[k] \in {i}
            BY <3>1, <3>2, <3>4, <1>6, <1>9 DEF FreeListOf
        <3>7. FreeListOf(b, o, Pending(b))'
            BY <3>1, <3>2, <3>5, <3>6, <1>2, <1>9 DEF FreeListOf
        <3> QED BY <2>2, <3>7, <1>2
    <2> QED BY <2>1, <2>2
<1>13. HeldUnitsLive'
    <2> SUFFICES ASSUME NEW c \in Blocks, NEW j \in Idx, <<c, j>> \in held
                 PROVE  c \in Linked /\ j \in UnitsOf(c) /\ isAllocated'[c][j]
        <3>1. held' \subseteq Blocks \X Idx /\ held' = held
            BY <1>2 DEF TypeOK
        <3>2. \A u \in held' : u[1] \in Blocks /\ u[2] \in Idx /\ u = <<u[1], u[2]>>
            BY <3>1
        <3> QED BY <3>1, <3>2, <1>4 DEF HeldUnitsLive
    <2>1. c \in Linked /\ j \in UnitsOf(c) /\ isAllocated[c][j]
        BY DEF HeldUnitsLive
    <2>2. c # b \/ j # i
        BY <1>5
    <2> QED BY <2>1, <2>2, <1>6, <1>7
<1>14. ASSUME NEW s \in Threads PROVE StepRelies(s)'
    <2>1. CASE s = t
        BY <2>1, <1>0, <1>1, <1>2, <1>4, <1>5, <1>6 DEF StepRelies, _memBlock_IsEmpty, TypeOK
    <2>2. CASE s # t
        <3>1. pc'[s] = pc[s] /\ ~InCriticalSection(s) /\ StepRelies(s)
            BY <2>2, <1>2, OneInside DEF TypeOK, InCriticalSection
        <3> QED BY <3>1, <1>2 DEF StepRelies, _memBlock_IsEmpty, InCriticalSection
    <2> QED BY <2>1, <2>2
<1> QED BY <1>3, <1>4, <1>11, <1>12, <1>13, <1>14

\* The freed unit becomes the head: in the order it changes places with the
\* unit behind the free ones.
LEMMA PushStep ==
    ASSUME UnitSize > 8, IInv, NEW t \in Threads, FreePush(t)
    PROVE  IInv'
<1> USE DEF IInv
<1>0. PICK b, i, free : b = blk[t] /\ i = idx[t] /\ free = freeUnitCount[b]
    OBVIOUS
<1>1. PICK l \in {"f_trim", "f_unlock"} :
        /\ pc[t] = "f_push" /\ pc' = [pc EXCEPT ![t] = l]
        /\ l = "f_trim" <=> free + 1 = totalUnitCount[b]
    BY <1>0 DEF FreePush
<1>2. UNCHANGED <<pBlocks, totalUnitCount, nextUnitIdx, isAllocated, emptyCallback, lock,
                  blk, idx, held, outstanding, owed, fault>>
    BY DEF FreePush, unitHeaders, locals, program
<1>3. /\ b \in Linked /\ b \in Blocks /\ i \in UnitsOf(b) /\ i \in Idx
      /\ ~isAllocated[b][i] /\ nextUnitIdx[b][i] = validUnitIdx[b]
    BY <1>0, <1>1, LinkedBlocks DEF StepRelies, _memBlock_IsEmpty, TypeOK
<1>4. /\ freeUnitCount' = [freeUnitCount EXCEPT ![b] = free + 1]
      /\ validUnitIdx' = [validUnitIdx EXCEPT ![b] = i]
    <2>1. i \in Nat
        BY <1>3 DEF Idx
    <2> QED BY <2>1, <1>0, UnitIdxExact DEF FreePush
<1>5. LockHeld' /\ lock' \in Threads \cup {None} /\ pc' \in [Threads -> Labels]
    BY <1>1, <1>2, LockStep DEF Labels, LockedLabels
<1>6. Linked' = Linked /\ DistinctBlocks' /\ \A c \in Blocks : UnitsOf(c)' = UnitsOf(c)
    BY <1>2 DEF Linked, DistinctBlocks, UnitsOf
<1>7. freeUnitCount'[b] = free + 1 /\ validUnitIdx'[b] = i
    BY <1>3, <1>4 DEF TypeOK
<1>8. \A c \in Blocks : c # b => /\ freeUnitCount'[c] = freeUnitCount[c]
                                  /\ validUnitIdx'[c] = validUnitIdx[c]
    BY <1>4 DEF TypeOK
<1>9. \A s \in Threads : s # t => pc[s] # "f_push"
    BY <1>1, OneInside DEF InCriticalSection
<1>10. Pending(b) = {i} /\ Pending(b)' = {}
    <2>1. \A s \in Threads : /\ pc[s] = "f_push" <=> s = t
                             /\ pc'[s] # "f_push"
        BY <1>1, <1>9 DEF TypeOK
    <2> QED BY <2>1, <1>0 DEF Pending
<1>11. \A c \in Blocks : c # b => Pending(c)' = Pending(c)
    BY <1>0, <1>1, <1>2, <1>9 DEF Pending, TypeOK
<1>12. UnitsOf(b) \subseteq Idx /\ free \in Nat /\ totalUnitCount[b] \in Nat /\ totalUnitCount[b] \in Idx
    <2>1. totalUnitCount[b] \in {InitUnitCount, GrowUnitCount} /\ free \in Idx
        BY <1>0, <1>3 DEF TypeOK
    <2> QED BY <2>1, CountAssumption DEF Idx, UnitsOf
<1>13. PICK o \in [1 .. totalUnitCount[b] -> UnitsOf(b)] : FreeListOf(b, o, Pending(b))
    BY <1>3 DEF FreeListIntegrity
<1>14. PICK m \in 1 .. totalUnitCount[b] : o[m] = i
    BY <1>3, <1>13 DEF FreeListOf
<1>15. m \in (free + 1) .. totalUnitCount[b]
    <2>1. ~(m \in 1 .. free)
        BY <1>0, <1>10, <1>12, <1>13, <1>14 DEF FreeListOf
    <2> QED BY <2>1, <1>12, <1>14
<1>16. free + 1 <= totalUnitCount[b] /\ free + 1 \in Idx
    <2>1. free + 1 <= totalUnitCount[b]
        BY <1>12, <1>15
    <2> QED BY <2>1, <1>12, CountAssumption DEF Idx
<1>17. TypeOK'
    <2>1. freeUnitCount' \in [Blocks -> Idx] /\ validUnitIdx' \in [Blocks -> Idx]
        BY <1>3, <1>4, <1>16 DEF TypeOK
    <2> QED BY <2>1, <1>2, <1>5 DEF TypeOK
<1>18. FreeListIntegrity'
    <2> SUFFICES ASSUME NEW c \in Linked
                 PROVE  \E ord \in [1 .. totalUnitCount[c] -> UnitsOf(c)] :
                            FreeListOf(c, ord, Pending(c))'
        BY <1>2, <1>6, LinkedBlocks DEF FreeListIntegrity
    <2>1. CASE c # b
        BY <2>1, <1>2, <1>8, <1>11, LinkedBlocks, SameBlock
    <2>2. CASE c = b
        <3>0. PICK total, ord :
                /\ total = totalUnitCount[b]
                /\ ord = [k \in 1 .. total |-> IF k = free + 1 THEN i
                                                ELSE IF k = m THEN o[free + 1] ELSE o[k]]
            OBVIOUS
        <3>1. /\ ord \in [1 .. total -> UnitsOf(b)]
              /\ ord[free + 1] = i /\ free + 1 \in 1 .. total
              /\ m # free + 1 => ord[m] = o[free + 1]
              /\ \A k \in 1 .. total : k # free + 1 /\ k # m => ord[k] = o[k]
            BY <3>0, <1>3, <1>12, <1>14, <1>16
        <3>2. /\ \A j, k \in 1 .. total : o[j] = o[k] => j = k
              /\ \A j \in UnitsOf(b) : \E k \in 1 .. total : o[k] = j
            BY <3>0, <1>13 DEF FreeListOf
        <3>3. /\ \A k \in 1 .. free :
                    /\ ~isAllocated[b][o[k]]
                    /\ nextUnitIdx[b][o[k]] = IF k = 1 THEN total ELSE o[k - 1]
              /\ \A k \in (free + 1) .. total : isAllocated[b][o[k]] \/ o[k] = i
              /\ validUnitIdx[b] = IF free = 0 THEN total ELSE o[free]
            BY <3>0, <1>0, <1>10, <1>13 DEF FreeListOf
        <3>4. \A j, k \in 1 .. total : ord[j] = ord[k] => j = k
            <4>1. m \in 1 .. total /\ free + 1 \in 1 .. total
                BY <3>0, <3>1, <1>14
            <4> QED BY <4>1, <3>0, <3>1, <3>2, <1>14
        <3>5. \A j \in UnitsOf(b) : \E k \in 1 .. total : ord[k] = j
            <4> SUFFICES ASSUME NEW j \in UnitsOf(b) PROVE \E k \in 1 .. total : ord[k] = j
                OBVIOUS
            <4>1. PICK k \in 1 .. total : o[k] = j
                BY <3>2
            <4> QED BY <4>1, <3>0, <3>1, <1>14, <1>12, <1>16
        <3>6. \A k \in 1 .. free : ord[k] = o[k] /\ k \in 1 .. total
            BY <3>0, <3>1, <1>12, <1>15
        <3>7. \A k \in 1 .. (free + 1) :
                /\ ~isAllocated[b][ord[k]]
                /\ nextUnitIdx[b][ord[k]] = IF k = 1 THEN total ELSE ord[k - 1]
            <4> SUFFICES ASSUME NEW k \in 1 .. (free + 1)
                         PROVE  /\ ~isAllocated[b][ord[k]]
                                /\ nextUnitIdx[b][ord[k]] = IF k = 1 THEN total ELSE ord[k - 1]
                OBVIOUS
            <4>1. CASE k = free + 1
                BY <4>1, <3>1, <3>3, <3>6, <1>3, <1>12
            <4>2. CASE k # free + 1
                <5>1. k \in 1 .. free /\ (k # 1 => k - 1 \in 1 .. free)
                    BY <4>2, <1>12
                <5> QED BY <5>1, <3>3, <3>6
            <4> QED BY <4>1, <4>2
        <3>8. \A k \in (free + 2) .. total : isAllocated[b][ord[k]]
            <4> SUFFICES ASSUME NEW k \in (free + 2) .. total PROVE isAllocated[b][ord[k]]
                OBVIOUS
            <4>1. k \in (free + 1) .. total /\ k \in 1 .. total /\ k # free + 1
                  /\ free + 1 \in (free + 1) .. total
                BY <3>0, <1>12, <1>16
            <4>2. CASE k = m
                <5>1. ord[k] = o[free + 1] /\ o[free + 1] # o[m]
                    BY <4>1, <4>2, <3>0, <3>1, <3>2, <1>14
                <5> QED BY <5>1, <4>1, <3>3, <1>14
            <4>3. CASE k # m
                <5>1. ord[k] = o[k] /\ o[k] # o[m]
                    BY <4>1, <4>3, <3>0, <3>1, <3>2, <1>14
                <5> QED BY <5>1, <4>1, <3>3, <1>14
            <4> QED BY <4>2, <4>3
        <3>9. /\ totalUnitCount'[b] = total /\ totalUnitCount[b] = total /\ UnitsOf(b)' = UnitsOf(b)
              /\ free + 1 # 0 /\ (free + 1) + 1 = free + 2
              /\ isAllocated' = isAllocated /\ nextUnitIdx' = nextUnitIdx
            BY <3>0, <1>2, <1>3, <1>6, <1>12
        <3>10. FreeListOf(b, ord, Pending(b))'
            <4> SUFFICES
                    /\ \A j, k \in 1 .. total : ord[j] = ord[k] => j = k
                    /\ \A j \in UnitsOf(b) : \E k \in 1 .. total : ord[k] = j
                    /\ \A k \in 1 .. (free + 1) :
                        /\ ~isAllocated[b][ord[k]] /\ ord[k] \notin {}
                        /\ nextUnitIdx[b][ord[k]] = IF k = 1 THEN total ELSE ord[k - 1]
                    /\ \A k \in (free + 2) .. total : isAllocated[b][ord[k]] \/ ord[k] \in {}
                    /\ free + 1 <= total
                    /\ i = ord[free + 1]
                BY <3>9, <1>7, <1>10 DEF FreeListOf
            <4> QED BY <3>0, <3>1, <3>4, <3>5, <3>7, <3>8, <1>16
        <3> QED BY <2>2, <3>1, <3>9, <3>10
    <2> QED BY <2>1, <2>2
<1>19. HeldUnitsLive'
    BY <1>2, <1>6, LinkedBlocks DEF HeldUnitsLive
<1>20. ASSUME NEW s \in Threads PROVE StepRelies(s)'
    <2>1. CASE s = t
        BY <2>1, <1>0, <1>1, <1>2, <1>3, <1>6, <1>7 DEF StepRelies, _memBlock_IsEmpty, TypeOK
    <2>2. CASE s # t
        <3>1. pc'[s] = pc[s] /\ ~InCriticalSection(s) /\ StepRelies(s)
            BY <2>2, <1>1, OneInside DEF TypeOK, InCriticalSection
        <3> QED BY <3>1, <1>2 DEF StepRelies, _memBlock_IsEmpty, InCriticalSection
    <2> QED BY <2>1, <2>2
<1> QED BY <1>5, <1>6, <1>17, <1>18, <1>19, <1>20

\* A block that goes back to the heap holds no unit in use.
LEMMA TrimStep ==
    ASSUME IInv, NEW t \in Threads, _memBlock_FreeFromPool(t)
    PROVE  IInv'
<1> USE DEF IInv
<1>0. PICK b : b = blk[t]
    OBVIOUS
<1>1. /\ UNCHANGED <<totalUnitCount, freeUnitCount, validUnitIdx, nextUnitIdx, isAllocated,
                     emptyCallback, lock, blk, idx, held, outstanding, fault>>
      /\ owed' \in BOOLEAN /\ pc[t] = "f_trim" /\ pc' = [pc EXCEPT ![t] = "f_unlock"]
    BY DEF _memBlock_FreeFromPool, blockHeaders, unitHeaders, locals, program, TypeOK
<1>2. LockHeld' /\ lock' \in Threads \cup {None} /\ pc' \in [Threads -> Labels]
    BY <1>1, LockStep DEF Labels, LockedLabels
<1>3. \A c \in Blocks : Pending(c)' = Pending(c) /\ UnitsOf(c)' = UnitsOf(c)
    BY <1>1, SamePending DEF TypeOK, UnitsOf
<1>4. /\ b \in Linked /\ b \in Blocks /\ freeUnitCount[b] = totalUnitCount[b]
      /\ pBlocks # << >>
    BY <1>0, <1>1, LinkedBlocks DEF StepRelies, _memBlock_IsEmpty
<1>5. /\ Linked \ {b} \subseteq Linked' /\ Linked' \subseteq Linked
      /\ DistinctBlocks' /\ pBlocks' \in Seq(Blocks) /\ pBlocks' # << >>
    <2>1. CASE UNCHANGED pBlocks
        BY <2>1, <1>4 DEF Linked, DistinctBlocks, TypeOK
    <2>2. CASE ~UNCHANGED pBlocks
        <3>1. PICK k \in 2 .. Len(pBlocks) :
                /\ pBlocks[k] = b
                /\ pBlocks' = [j \in 1 .. (Len(pBlocks) - 1) |->
                                  IF j < k THEN pBlocks[j] ELSE pBlocks[j + 1]]
            BY <2>2, <1>0 DEF _memBlock_FreeFromPool
        <3> QED BY <3>1, UnlinkLinked DEF TypeOK
    <2> QED BY <2>1, <2>2
<1>6. TypeOK'
    BY <1>1, <1>2, <1>5 DEF TypeOK
<1>7. FreeListIntegrity'
    <2> SUFFICES ASSUME NEW c \in Linked
                 PROVE  \E o \in [1 .. totalUnitCount[c] -> UnitsOf(c)] :
                            FreeListOf(c, o, Pending(c))'
        BY <1>1, <1>3, <1>5, LinkedBlocks DEF FreeListIntegrity
    <2> QED BY <1>1, <1>3, LinkedBlocks, SameBlock
<1>8. \A i \in UnitsOf(b) : ~isAllocated[b][i]
    <2>1. PICK o \in [1 .. totalUnitCount[b] -> UnitsOf(b)] : FreeListOf(b, o, Pending(b))
        BY <1>4 DEF FreeListIntegrity
    <2> QED BY <2>1, <1>4 DEF FreeListOf
<1>9. HeldUnitsLive'
    BY <1>1, <1>3, <1>5, <1>8, LinkedBlocks DEF HeldUnitsLive
<1>10. ASSUME NEW s \in Threads PROVE StepRelies(s)'
    <2>1. CASE s = t
        BY <2>1, <1>1, <1>5 DEF StepRelies, TypeOK
    <2>2. CASE s # t
        <3>1. pc'[s] = pc[s] /\ ~InCriticalSection(s) /\ StepRelies(s)
            BY <2>2, <1>1, OneInside DEF TypeOK, InCriticalSection
        <3> QED BY <3>1, <1>5 DEF StepRelies, InCriticalSection
    <2> QED BY <2>1, <2>2
<1> QED BY <1>2, <1>5, <1>6, <1>7, <1>9, <1>10

-----------------------------------------------------------------------------
(* The theorems                                                             *)

LEMMA DestoryStep ==
    ASSUME IInv, Destory
    PROVE  IInv'
<1> USE DEF IInv
<1>1. /\ UNCHANGED <<totalUnitCount, freeUnitCount, validUnitIdx, nextUnitIdx, isAllocated,
                     emptyCallback, lock, pc, blk, idx, fault>>
      /\ pBlocks' = << >> /\ held' = {} /\ outstanding' = 0 /\ owed' = FALSE
      /\ \A t \in Threads : pc[t] = "idle"
    BY DEF Destory, blockHeaders, unitHeaders, locals
<1>2. Linked' = {} /\ pBlocks' \in Seq(Blocks)
    BY <1>1 DEF Linked
<1>3. TypeOK' /\ LockHeld' /\ DistinctBlocks'
    <2>1. TypeOK'
        <3>1. held' \subseteq Blocks \X Idx
            BY <1>1, Zenon
        <3>2. outstanding' \in Int
            BY <1>1
        <3>3. owed' \in BOOLEAN
            BY <1>1, Zenon
        <3> QED BY <3>1, <3>2, <3>3, <1>1, <1>2 DEF TypeOK
    <2>2. LockHeld'
        BY <1>1 DEF LockHeld, InCriticalSection
    <2>3. DistinctBlocks'
        BY <1>1 DEF DistinctBlocks
    <2> QED BY <2>1, <2>2, <2>3
<1>4. FreeListIntegrity' /\ HeldUnitsLive'
    BY <1>1, <1>2 DEF FreeListIntegrity, HeldUnitsLive
<1>5. \A t \in Threads : StepRelies(t)'
    BY <1>1 DEF StepRelies, InCriticalSection
<1> QED BY <1>3, <1>4, <1>5

LEMMA InitIInv ==
    ASSUME Init
    PROVE  IInv
<1>1. PICK b \in Blocks : pBlocks = <<b>> /\ blk = [t \in Threads |-> b]
    BY DEF Init
<1>2. /\ totalUnitCount = [x \in Blocks |-> InitUnitCount]
      /\ freeUnitCount = [x \in Blocks |-> InitUnitCount]
      /\ validUnitIdx = [x \in Blocks |-> 0]
      /\ nextUnitIdx = [x \in Blocks |-> [i \in Idx |-> i + 1]]
      /\ isAllocated = [x \in Blocks |-> [i \in Idx |-> FALSE]]
      /\ emptyCallback = FALSE /\ lock = None /\ pc = [t \in Threads |-> "idle"]
      /\ idx = [t \in Threads |-> 0]
      /\ held = {} /\ outstanding = 0 /\ owed = FALSE /\ fault = "none"
    BY DEF Init
<1>3. InitUnitCount \in Nat \ {0} /\ InitUnitCount \in Idx /\ 0 \in Idx
    BY CountAssumption DEF Idx
<1>4. Linked = {b} /\ DistinctBlocks /\ pBlocks \in Seq(Blocks)
    BY <1>1 DEF Linked, DistinctBlocks
<1>5. TypeOK
    <2>1. [i \in Idx |-> i + 1] \in [Idx -> Nat]
        BY CountAssumption DEF Idx
    <2>2. /\ nextUnitIdx \in [Blocks -> [Idx -> Nat]]
          /\ isAllocated \in [Blocks -> [Idx -> BOOLEAN]]
        BY <2>1, <1>2
    <2>3. /\ totalUnitCount \in [Blocks -> {InitUnitCount, GrowUnitCount}]
          /\ freeUnitCount \in [Blocks -> Idx] /\ validUnitIdx \in [Blocks -> Idx]
          /\ pc \in [Threads -> Labels] /\ blk \in [Threads -> Blocks]
          /\ idx \in [Threads -> Idx]
        BY <1>1, <1>2, <1>3 DEF Labels
    <2>4. lock \in Threads \cup {None} /\ outstanding \in Int /\ fault \in Faults
        BY <1>2 DEF Faults
    <2>5. held \subseteq Blocks \X Idx /\ emptyCallback \in BOOLEAN /\ owed \in BOOLEAN
        BY <1>2, Zenon
    <2> QED BY <2>2, <2>3, <2>4, <2>5, <1>4 DEF TypeOK
<1>6. FreeListIntegrity
    <2> DEFINE order == [k \in 1 .. InitUnitCount |-> InitUnitCount - k]
    <2>1. /\ totalUnitCount[b] = InitUnitCount /\ freeUnitCount[b] = InitUnitCount
          /\ validUnitIdx[b] = 0 /\ Pending(b) = {}
          /\ \A i \in Idx : nextUnitIdx[b][i] = i + 1 /\ ~isAllocated[b][i]
        BY <1>2 DEF Pending
    <2>2. UnitsOf(b) = 0 .. (InitUnitCount - 1) /\ order \in [1 .. InitUnitCount -> UnitsOf(b)]
        BY <2>1, <1>3 DEF UnitsOf
    <2>3. \A k \in 1 .. InitUnitCount :
            /\ order[k] \in Idx /\ order[k] = InitUnitCount - k
            /\ order[k] + 1 = IF k = 1 THEN InitUnitCount ELSE order[k - 1]
        BY <1>3, CountAssumption DEF Idx
    <2>8. \A k \in 1 .. InitUnitCount :
            /\ ~isAllocated[b][order[k]]
            /\ nextUnitIdx[b][order[k]] = IF k = 1 THEN InitUnitCount ELSE order[k - 1]
        BY <2>1, <2>3
    <2>4. \A i \in UnitsOf(b) : \E k \in 1 .. InitUnitCount : order[k] = i
        <3> SUFFICES ASSUME NEW i \in 0 .. (InitUnitCount - 1)
                     PROVE  \E k \in 1 .. InitUnitCount : order[k] = i
            BY <2>2
        <3>1. InitUnitCount - i \in 1 .. InitUnitCount /\ order[InitUnitCount - i] = i
            BY <1>3
        <3> QED BY <3>1
    <2>5. \A j, k \in 1 .. InitUnitCount : order[j] = order[k] => j = k
        BY <1>3, <2>3
    <2>6. order[InitUnitCount] = 0
        BY <1>3, <2>3
    <2> HIDE DEF order
    <2>7. FreeListOf(b, order, Pending(b))
        <3> SUFFICES
                /\ \A j, k \in 1 .. InitUnitCount : order[j] = order[k] => j = k
                /\ \A i \in UnitsOf(b) : \E k \in 1 .. InitUnitCount : order[k] = i
                /\ \A k \in 1 .. InitUnitCount :
                    /\ ~isAllocated[b][order[k]]
                    /\ nextUnitIdx[b][order[k]] = IF k = 1 THEN InitUnitCount ELSE order[k - 1]
                /\ order[InitUnitCount] = 0
            BY <1>3, <2>1 DEF FreeListOf
        <3> QED BY <2>4, <2>5, <2>6, <2>8
    <2> QED BY <1>4, <2>1, <2>2, <2>7 DEF FreeListIntegrity
<1>7. LockHeld /\ HeldUnitsLive /\ \A t \in Threads : StepRelies(t)
    BY <1>1, <1>2 DEF LockHeld, HeldUnitsLive, StepRelies, InCriticalSection
<1> QED BY <1>4, <1>5, <1>6, <1>7 DEF IInv

\* IInv is inductive, one lemma per operation of the pool.
LEMMA NextIInv ==
    ASSUME UnitSize > 8, IInv, [Next]_vars
    PROVE  IInv'
<1>1. ASSUME NEW t \in Threads, Running(t) \/ Calling(t)
      PROVE  IInv'
    BY <1>1, PlainSteps, StillSteps, ScanStep, ReturnStep, AttachStep, TakeStep,
       GiveBackStep, LinkStep, PushStep, TrimStep
       DEF Running, Calling
<1>2. CASE UNCHANGED vars \/ Ended
    BY <1>2, StutterStep DEF Ended
<1> QED BY <1>1, <1>2, DestoryStep DEF Next

\* For every number of threads, blocks and units: the state keeps its types,
\* the free lists stay intact, and no unit in the program's hands is ever taken
\* away (_memBlock_Alloc, _memUnit_Free, _memBlock_FreeFromPool).
THEOREM Invariance ==
    ASSUME UnitSize > 8
    PROVE  Spec => []IInv
<1>1. Init => IInv
    BY InitIInv
<1>2. IInv /\ [Next]_vars => IInv'
    BY NextIInv
<1> QED BY <1>1, <1>2, PTL DEF Spec

\* The state keeps its types.
THEOREM TypeCorrect ==
    ASSUME UnitSize > 8
    PROVE  Spec => []TypeOK
<1>1. IInv => TypeOK
    BY DEF IInv
<1> QED BY <1>1, Invariance, PTL

\* A later Alloc never takes a unit in use from a free list.
THEOREM FreeListsIntact ==
    ASSUME UnitSize > 8
    PROVE  Spec => []FreeListIntegrity
<1>1. IInv => FreeListIntegrity
    BY DEF IInv
<1> QED BY <1>1, Invariance, PTL

\* Units in the program's hands are allocated units of linked blocks.
THEOREM HeldUnitsStay ==
    ASSUME UnitSize > 8
    PROVE  Spec => []HeldUnitsLive
<1>1. IInv => HeldUnitsLive
    BY DEF IInv
<1> QED BY <1>1, Invariance, PTL

\* MemPool implements UnitPool: Alloc never hands out a unit that is owned.
THEOREM Refinement ==
    ASSUME UnitSize > 8
    PROVE  Spec => ImplementsUnitPool
<1>1. Init => Promise!Init
    BY DEF Init, Promise!Init
<1>2. IInv /\ [Next]_vars => [Promise!Next]_Promise!vars
    <2> SUFFICES ASSUME IInv, Next PROVE Promise!Next \/ UNCHANGED <<held, outstanding>>
        BY DEF vars, program, Promise!vars
    <2>1. CASE Destory
        BY <2>1 DEF Destory, Promise!Next, Promise!Destory
    <2>2. CASE Ended
        BY <2>2 DEF Ended, vars, program
    <2>3. ASSUME NEW t \in Threads, AllocReturn(t) PROVE Promise!Next
        <3>1. Unit(t) \in Blocks \X Idx /\ Unit(t) \notin held
            BY <2>3 DEF AllocReturn, IInv, StepRelies, Unowned, TypeOK, Unit
        <3>2. held' = held \cup {Unit(t)} /\ outstanding' = outstanding + 1
            BY <2>3 DEF AllocReturn
        <3> QED BY <3>1, <3>2 DEF Promise!Next, Promise!Alloc
    <2>4. ASSUME NEW t \in Threads, FreeLock(t) PROVE Promise!Next
        BY <2>4 DEF FreeLock, FreeCall, Promise!Next, Promise!Free
    <2>5. ASSUME NEW t \in Threads, FreeAgainLock(t) PROVE UNCHANGED <<held, outstanding>>
        BY <2>5 DEF FreeAgainLock, FreeCall, IInv, HeldUnitsLive
    <2>6. ASSUME NEW t \in Threads, Running(t) \/ Calling(t), ~AllocReturn(t), ~FreeLock(t),
                 ~FreeAgainLock(t)
          PROVE  UNCHANGED <<held, outstanding>>
        BY <2>6 DEF Running, Calling, AllocLock, AllocScan, _memBlock_Attach, AttachNoMemory,
            _memBlock_Alloc, AllocBehindBlock, FreeReject, FreeLink, FreePush,
            _memBlock_FreeFromPool, FreeUnlock, FreeTestCallback, FreeReadsFreed, IsEmptyLock,
            IsEmptyTest, EmptyCallback, CallsNullCallback, SetEmptyCallback, program
    <2> QED BY <2>1, <2>2, <2>3, <2>4, <2>5, <2>6 DEF Next
<1> QED BY <1>1, <1>2, Invariance, PTL DEF Spec, ImplementsUnitPool, Promise!Spec

-----------------------------------------------------------------------------
(* Units are not lost, and blocks not kept                                  *)

\* Labels at which a call has an allocated unit in its hands, and those at
\* which it is about to take a unit of an empty block or to return the block.
Passing == {"a_unlock", "f_check"}
Deciding == {"a_take", "f_trim"}

\* Every unit marked allocated is in the program's hands or in those of a call.
Accounted ==
    \A b \in Linked : \A i \in UnitsOf(b) : isAllocated[b][i] =>
        <<b, i>> \in held \/ \E t \in Threads : pc[t] \in Passing /\ Unit(t) = <<b, i>>

\* A block behind the first one is in use, unless a call is deciding about it.
GrownInUse ==
    \A k \in 2 .. Len(pBlocks) : _memBlock_IsEmpty(pBlocks[k]) =>
        \E t \in Threads : pc[t] \in Deciding /\ blk[t] = pBlocks[k]

LInv == IInv /\ Accounted /\ GrownInUse

\* A step of t leaves the other threads where they are.
Others(t) == \A s \in Threads \ {t} : pc'[s] = pc[s] /\ blk'[s] = blk[s] /\ idx'[s] = idx[s]

USE DEF Goto, Passing, Deciding

\* The counters of a block are natural numbers.
LEMMA CountsAreNat ==
    ASSUME TypeOK, NEW b \in Blocks
    PROVE  freeUnitCount[b] \in Nat /\ totalUnitCount[b] \in Nat
<1>1. freeUnitCount[b] \in Idx /\ totalUnitCount[b] \in {InitUnitCount, GrowUnitCount}
    BY DEF TypeOK
<1> QED BY <1>1, CountAssumption DEF Idx

-----------------------------------------------------------------------------
(* What a step of one thread must do                                        *)

\* It keeps a unit it takes, and what it lets go it has marked free.
LEMMA AccountedStep ==
    ASSUME Accounted, NEW t \in Threads, Others(t),
           \A b \in Linked' : \A i \in UnitsOf(b)' : isAllocated'[b][i] =>
                \/ b \in Linked /\ i \in UnitsOf(b) /\ isAllocated[b][i]
                \/ pc'[t] \in Passing /\ Unit(t)' = <<b, i>>,
           \A u \in held : u \in held' \/ (pc'[t] \in Passing /\ Unit(t)' = u),
           pc[t] \in Passing => \/ Unit(t) \in held'
                                \/ pc'[t] \in Passing /\ Unit(t)' = Unit(t)
                                \/ ~isAllocated'[blk[t]][idx[t]]
    PROVE  Accounted'
<1> SUFFICES ASSUME NEW b \in Linked', NEW i \in UnitsOf(b)', isAllocated'[b][i], <<b, i>> \notin held'
             PROVE  \E s \in Threads : pc'[s] \in Passing /\ Unit(s)' = <<b, i>>
    BY DEF Accounted
<1>1. CASE pc'[t] \in Passing /\ Unit(t)' = <<b, i>>
    BY <1>1
<1>2. CASE ~(pc'[t] \in Passing /\ Unit(t)' = <<b, i>>)
    <2>1. b \in Linked /\ i \in UnitsOf(b) /\ isAllocated[b][i] /\ <<b, i>> \notin held
        BY <1>2
    <2>2. PICK s \in Threads : pc[s] \in Passing /\ Unit(s) = <<b, i>>
        BY <2>1 DEF Accounted
    <2>3. s # t
        BY <2>2, <1>2 DEF Unit
    <2> QED BY <2>2, <2>3 DEF Others, Unit
<1> QED BY <1>1, <1>2

\* It decides about a block that it empties, and uses or returns one it was deciding about.
LEMMA GrownStep ==
    ASSUME GrownInUse, NEW t \in Threads, Others(t),
           \A k \in 2 .. Len(pBlocks') : _memBlock_IsEmpty(pBlocks[k])' =>
                \/ pc'[t] \in Deciding /\ blk'[t] = pBlocks'[k]
                \/ \E j \in 2 .. Len(pBlocks) :
                        /\ pBlocks[j] = pBlocks'[k] /\ _memBlock_IsEmpty(pBlocks[j])
                        /\ pc[t] \in Deciding => blk[t] # pBlocks[j]
    PROVE  GrownInUse'
<1> SUFFICES ASSUME NEW k \in 2 .. Len(pBlocks'), _memBlock_IsEmpty(pBlocks[k])'
             PROVE  \E s \in Threads : pc'[s] \in Deciding /\ blk'[s] = pBlocks'[k]
    BY DEF GrownInUse
<1>1. CASE pc'[t] \in Deciding /\ blk'[t] = pBlocks'[k]
    BY <1>1
<1>2. CASE \E j \in 2 .. Len(pBlocks) :
                /\ pBlocks[j] = pBlocks'[k] /\ _memBlock_IsEmpty(pBlocks[j])
                /\ pc[t] \in Deciding => blk[t] # pBlocks[j]
    <2>1. PICK j \in 2 .. Len(pBlocks) :
                /\ pBlocks[j] = pBlocks'[k] /\ _memBlock_IsEmpty(pBlocks[j])
                /\ pc[t] \in Deciding => blk[t] # pBlocks[j]
        BY <1>2
    <2>2. PICK s \in Threads : pc[s] \in Deciding /\ blk[s] = pBlocks[j]
        BY <2>1 DEF GrownInUse
    <2>3. s # t
        BY <2>1, <2>2
    <2> QED BY <2>1, <2>2, <2>3 DEF Others
<1> QED BY <1>1, <1>2

\* A step that leaves the blocks alone and decides nothing.
LEMMA PassOn ==
    ASSUME LInv, NEW t \in Threads, UNCHANGED <<pBlocks, blockHeaders, unitHeaders>>, Others(t),
           pc[t] \notin Deciding,
           \A u \in held : u \in held' \/ (pc'[t] \in Passing /\ Unit(t)' = u),
           pc[t] \in Passing => Unit(t) \in held' \/ ~isAllocated[blk[t]][idx[t]]
    PROVE  Accounted' /\ GrownInUse'
<1>1. Accounted'
    BY AccountedStep DEF LInv, Linked, UnitsOf, blockHeaders, unitHeaders
<1>2. GrownInUse'
    BY GrownStep DEF LInv, _memBlock_IsEmpty, blockHeaders
<1> QED BY <1>1, <1>2

-----------------------------------------------------------------------------
(* The steps                                                                *)

\* A unit that Alloc returns goes to the program.
LEMMA ReturnKeeps ==
    ASSUME LInv, NEW t \in Threads, AllocReturn(t)
    PROVE  Accounted' /\ GrownInUse'
<1>1. /\ UNCHANGED <<pBlocks, blockHeaders, unitHeaders>> /\ pc[t] = "a_unlock"
      /\ Unit(t) \in held' /\ held \subseteq held' /\ Others(t)
    BY DEF AllocReturn, pool, locals, LInv, IInv, TypeOK, Others
<1> QED BY <1>1, PassOn

\* A unit the program frees goes to the call.
LEMMA FreeKeeps ==
    ASSUME LInv, NEW t \in Threads, FreeLock(t) \/ FreeAgainLock(t)
    PROVE  Accounted' /\ GrownInUse'
<1>1. PICK u : FreeCall(t, u)
    BY DEF FreeLock, FreeAgainLock
<1>2. pc \in [Threads -> Labels] /\ blk \in [Threads -> Blocks] /\ idx \in [Threads -> Idx]
      /\ held \subseteq Blocks \X Idx
    BY DEF LInv, IInv, TypeOK
<1>3. /\ UNCHANGED <<pBlocks, blockHeaders, unitHeaders>> /\ Others(t) /\ pc[t] = "idle"
      /\ pc'[t] = "f_check" /\ blk'[t] = u[1] /\ idx'[t] = u[2] /\ held' = held \ {u}
    BY <1>1, <1>2 DEF FreeCall, pool, Others
<1>4. ASSUME NEW v \in held PROVE v \in held' \/ Unit(t)' = v
    <2>1. v = <<v[1], v[2]>>
        BY <1>2
    <2> QED BY <2>1, <1>3 DEF Unit
<1> QED BY <1>3, <1>4, PassOn

\* The steps that leave blocks and units as they are.
LEMMA PlainKeeps ==
    ASSUME LInv, NEW t \in Threads,
           \/ AllocLock(t) \/ AllocScan(t) \/ FreeReject(t) \/ FreeUnlock(t) \/ FreeTestCallback(t)
           \/ IsEmptyLock(t) \/ IsEmptyTest(t) \/ EmptyCallback(t)
    PROVE  Accounted' /\ GrownInUse'
<1>1. pc \in [Threads -> Labels] /\ blk \in [Threads -> Blocks] /\ StepRelies(t)
    BY DEF LInv, IInv, TypeOK
<1>2. /\ UNCHANGED <<pBlocks, blockHeaders, unitHeaders, idx, held>> /\ pc[t] \notin Deciding
      /\ \E l : pc' = [pc EXCEPT ![t] = l]
      /\ blk' = blk \/ \E b : blk' = [blk EXCEPT ![t] = b]
    BY DEF AllocLock, AllocScan, FreeReject, FreeUnlock, FreeTestCallback, IsEmptyLock,
           IsEmptyTest, EmptyCallback, pool, locals, program
<1>3. Others(t)
    BY <1>1, <1>2 DEF Others
<1>4. pc[t] \in Passing => ~isAllocated[blk[t]][idx[t]]
    BY <1>1 DEF AllocLock, AllocScan, FreeReject, FreeUnlock, FreeTestCallback, IsEmptyLock,
           IsEmptyTest, EmptyCallback, StepRelies
<1> QED BY <1>2, <1>3, <1>4, PassOn

\* The steps that write neither blocks nor threads, and those of a dead process.
LEMMA StillKeeps ==
    ASSUME LInv, UNCHANGED <<pBlocks, blockHeaders, unitHeaders, locals, held, pc>>
    PROVE  Accounted' /\ GrownInUse'
BY DEF LInv, Accounted, GrownInUse, Linked, UnitsOf, Unit, _memBlock_IsEmpty, blockHeaders, unitHeaders,
   locals

\* A new block has no allocated unit, and the call is about to take one.
LEMMA AttachKeeps ==
    ASSUME LInv, NEW t \in Threads, _memBlock_Attach(t)
    PROVE  Accounted' /\ GrownInUse'
<1>1. PICK b \in Blocks \ Linked :
        /\ pBlocks' = Append(pBlocks, b)
        /\ totalUnitCount' = [totalUnitCount EXCEPT ![b] = GrowUnitCount]
        /\ freeUnitCount' = [freeUnitCount EXCEPT ![b] = GrowUnitCount]
        /\ isAllocated' = [isAllocated EXCEPT ![b] = [i \in Idx |-> FALSE]]
        /\ blk' = [blk EXCEPT ![t] = b]
    BY DEF _memBlock_Attach
<1>2. /\ pc[t] = "a_scan" /\ pc' = [pc EXCEPT ![t] = "a_take"] /\ idx' = idx /\ held' = held
    BY DEF _memBlock_Attach, program
<1>3. /\ pc \in [Threads -> Labels] /\ blk \in [Threads -> Blocks] /\ pBlocks \in Seq(Blocks)
      /\ totalUnitCount \in [Blocks -> {InitUnitCount, GrowUnitCount}]
      /\ freeUnitCount \in [Blocks -> Idx] /\ isAllocated \in [Blocks -> [Idx -> BOOLEAN]]
      /\ Linked \subseteq Blocks /\ DistinctBlocks /\ Accounted /\ GrownInUse
    BY LinkedBlocks DEF LInv, IInv, TypeOK
<1>4. Linked' = Linked \cup {b}
    BY <1>1, <1>3, AppendLinked
<1>5. Others(t)
    BY <1>1, <1>2, <1>3 DEF Others
<1>6. Accounted'
    <2>1. ASSUME NEW c \in Linked', NEW i \in UnitsOf(c)', isAllocated'[c][i]
          PROVE  c \in Linked /\ i \in UnitsOf(c) /\ isAllocated[c][i]
        <3>1. c # b
            <4> SUFFICES ASSUME c = b PROVE FALSE
                OBVIOUS
            <4>1. i \in Idx
                BY <1>1, <1>3, CountAssumption DEF UnitsOf, Idx
            <4> QED BY <4>1, <2>1, <1>1, <1>3
        <3> QED BY <3>1, <2>1, <1>1, <1>3, <1>4 DEF UnitsOf
    <2> QED BY <2>1, <1>2, <1>3, <1>5, AccountedStep
<1>7. GrownInUse'
    <2>1. ASSUME NEW k \in 2 .. Len(pBlocks'), _memBlock_IsEmpty(pBlocks[k])', pBlocks'[k] # b
          PROVE  /\ k \in 2 .. Len(pBlocks) /\ pBlocks[k] = pBlocks'[k]
                 /\ _memBlock_IsEmpty(pBlocks[k])
        <3>1. k \in 2 .. Len(pBlocks) /\ pBlocks'[k] = pBlocks[k] /\ pBlocks[k] \in Blocks
            BY <2>1, <1>1, <1>3
        <3> QED BY <3>1, <2>1, <1>1, <1>3 DEF _memBlock_IsEmpty
    <2>2. pc'[t] = "a_take" /\ blk'[t] = b /\ pc[t] = "a_scan"
        BY <1>1, <1>2, <1>3
    <2>3. \A k \in 2 .. Len(pBlocks') : _memBlock_IsEmpty(pBlocks[k])' =>
                \/ pc'[t] \in Deciding /\ blk'[t] = pBlocks'[k]
                \/ \E j \in 2 .. Len(pBlocks) :
                        /\ pBlocks[j] = pBlocks'[k] /\ _memBlock_IsEmpty(pBlocks[j])
                        /\ pc[t] \in Deciding => blk[t] # pBlocks[j]
        BY <2>1, <2>2
    <2> QED BY <2>3, <1>3, <1>5, GrownStep
<1> QED BY <1>6, <1>7

\* The unit taken is in the hands of the call, and its block is in use now.
LEMMA TakeKeeps ==
    ASSUME LInv, NEW t \in Threads, _memBlock_Alloc(t)
    PROVE  Accounted' /\ GrownInUse'
<1>0. PICK b, i : b = blk[t] /\ i = validUnitIdx[b]
    OBVIOUS
<1>1. /\ pc[t] = "a_take" /\ pc' = [pc EXCEPT ![t] = "a_unlock"] /\ i \in UnitsOf(b)
      /\ idx' = [idx EXCEPT ![t] = i] /\ blk' = blk /\ held' = held /\ pBlocks' = pBlocks
      /\ isAllocated' = [isAllocated EXCEPT ![b][i] = TRUE]
      /\ totalUnitCount' = totalUnitCount
      /\ freeUnitCount' = [freeUnitCount EXCEPT ![b] = @ - 1]
    BY <1>0 DEF _memBlock_Alloc, program
<1>2. /\ pc \in [Threads -> Labels] /\ blk \in [Threads -> Blocks] /\ idx \in [Threads -> Idx]
      /\ pBlocks \in Seq(Blocks) /\ b \in Blocks /\ b \in Linked
      /\ freeUnitCount \in [Blocks -> Idx] /\ isAllocated \in [Blocks -> [Idx -> BOOLEAN]]
      /\ Linked \subseteq Blocks /\ DistinctBlocks /\ Accounted /\ GrownInUse
    BY <1>0, <1>1, LinkedBlocks DEF LInv, IInv, TypeOK, StepRelies
<1>3. Others(t)
    BY <1>1, <1>2 DEF Others
<1>4. Linked' = Linked /\ \A c : UnitsOf(c)' = UnitsOf(c)
    BY <1>1 DEF Linked, UnitsOf
<1>5. Unit(t)' = <<b, i>> /\ pc'[t] = "a_unlock"
    BY <1>0, <1>1, <1>2 DEF Unit
<1>6. Accounted'
    <2>1. ASSUME NEW c \in Linked', NEW k \in UnitsOf(c)', isAllocated'[c][k], <<c, k>> # <<b, i>>
          PROVE  c \in Linked /\ k \in UnitsOf(c) /\ isAllocated[c][k]
        <3>1. c \in Blocks /\ c \in Linked /\ k \in UnitsOf(c)
            BY <2>1, <1>2, <1>4
        <3>2. CASE c = b
            BY <3>1, <3>2, <2>1, <1>1, <1>2
        <3>3. CASE c # b
            BY <3>1, <3>3, <2>1, <1>1, <1>2
        <3> QED BY <3>1, <3>2, <3>3
    <2> QED BY <2>1, <1>1, <1>2, <1>3, <1>5, AccountedStep
<1>7. GrownInUse'
    <2>1. ASSUME NEW k \in 2 .. Len(pBlocks'), _memBlock_IsEmpty(pBlocks[k])'
          PROVE  pBlocks[k] # b /\ _memBlock_IsEmpty(pBlocks[k])
        <3>1. k \in 2 .. Len(pBlocks) /\ pBlocks[k] \in Blocks
            BY <1>1, <1>2
        <3>2. pBlocks[k] # b
            <4> SUFFICES ASSUME pBlocks[k] = b PROVE FALSE
                OBVIOUS
            <4>1. freeUnitCount[b] - 1 = totalUnitCount[b]
                BY <2>1, <1>1, <1>2 DEF _memBlock_IsEmpty
            <4>2. freeUnitCount[b] <= totalUnitCount[b]
                BY <1>2 DEF LInv, IInv, FreeListIntegrity, FreeListOf
            <4>3. freeUnitCount[b] \in Nat /\ totalUnitCount[b] \in Nat
                BY <1>2, CountsAreNat DEF LInv, IInv
            <4> QED BY <4>1, <4>2, <4>3
        <3> QED BY <3>1, <3>2, <2>1, <1>1, <1>2 DEF _memBlock_IsEmpty
    <2>2. blk[t] = b /\ pBlocks' = pBlocks
        BY <1>0, <1>1
    <2>3. \A k \in 2 .. Len(pBlocks') : _memBlock_IsEmpty(pBlocks[k])' =>
                \E j \in 2 .. Len(pBlocks) :
                        /\ pBlocks[j] = pBlocks'[k] /\ _memBlock_IsEmpty(pBlocks[j])
                        /\ pc[t] \in Deciding => blk[t] # pBlocks[j]
        BY <2>1, <2>2
    <2> QED BY <2>3, <1>2, <1>3, GrownStep
<1> QED BY <1>6, <1>7

\* The unit freed is no longer allocated.
LEMMA LinkKeeps ==
    ASSUME LInv, NEW t \in Threads, FreeLink(t)
    PROVE  Accounted' /\ GrownInUse'
<1>0. PICK b, i : b = blk[t] /\ i = idx[t]
    OBVIOUS
<1>1. /\ pc[t] = "f_check" /\ pc' = [pc EXCEPT ![t] = "f_push"]
      /\ UNCHANGED <<idx, blk, held, pBlocks, totalUnitCount, freeUnitCount>>
      /\ isAllocated' = [isAllocated EXCEPT ![b][i] = FALSE]
    BY <1>0 DEF FreeLink, program, locals, blockHeaders
<1>2. /\ pc \in [Threads -> Labels] /\ b \in Blocks /\ i \in Idx
      /\ isAllocated \in [Blocks -> [Idx -> BOOLEAN]]
      /\ Linked \subseteq Blocks /\ Accounted /\ GrownInUse
    BY <1>0, LinkedBlocks DEF LInv, IInv, TypeOK
<1>3. Others(t)
    BY <1>1, <1>2 DEF Others
<1>4. Linked' = Linked /\ \A c : UnitsOf(c)' = UnitsOf(c)
    BY <1>1 DEF Linked, UnitsOf
<1>5. ~isAllocated'[blk[t]][idx[t]]
    BY <1>0, <1>1, <1>2
<1>6. Accounted'
    <2>1. ASSUME NEW c \in Linked', NEW k \in UnitsOf(c)', isAllocated'[c][k]
          PROVE  c \in Linked /\ k \in UnitsOf(c) /\ isAllocated[c][k]
        <3>1. c \in Blocks /\ c \in Linked /\ k \in UnitsOf(c)
            BY <2>1, <1>2, <1>4
        <3>2. CASE c = b
            <4>1. k # i
                BY <3>2, <2>1, <1>0, <1>5
            <4> QED BY <4>1, <3>1, <3>2, <2>1, <1>1, <1>2
        <3>3. CASE c # b
            BY <3>1, <3>3, <2>1, <1>1, <1>2
        <3> QED BY <3>1, <3>2, <3>3
    <2> QED BY <2>1, <1>1, <1>2, <1>3, <1>5, AccountedStep
<1>7. GrownInUse'
    <2>1. \A k \in 2 .. Len(pBlocks') : _memBlock_IsEmpty(pBlocks[k])' =>
                \E j \in 2 .. Len(pBlocks) :
                        /\ pBlocks[j] = pBlocks'[k] /\ _memBlock_IsEmpty(pBlocks[j])
                        /\ pc[t] \in Deciding => blk[t] # pBlocks[j]
        BY <1>1 DEF _memBlock_IsEmpty
    <2> QED BY <2>1, <1>2, <1>3, GrownStep
<1> QED BY <1>6, <1>7

\* A block that gets its last free unit is decided about next.
LEMMA PushKeeps ==
    ASSUME LInv, NEW t \in Threads, FreePush(t)
    PROVE  Accounted' /\ GrownInUse'
<1>0. PICK b : b = blk[t]
    OBVIOUS
<1>1. /\ pc[t] = "f_push"
      /\ pc' = [pc EXCEPT ![t] = IF freeUnitCount[b] + 1 = totalUnitCount[b]
                                 THEN "f_trim" ELSE "f_unlock"]
      /\ UNCHANGED <<idx, blk, held, pBlocks, totalUnitCount, isAllocated>>
      /\ freeUnitCount' = [freeUnitCount EXCEPT ![b] = @ + 1]
    BY <1>0 DEF FreePush, program, locals, unitHeaders
<1>2. /\ pc \in [Threads -> Labels] /\ b \in Blocks /\ pBlocks \in Seq(Blocks)
      /\ freeUnitCount \in [Blocks -> Idx] /\ Accounted /\ GrownInUse
    BY <1>0 DEF LInv, IInv, TypeOK
<1>3. Others(t)
    BY <1>1, <1>2 DEF Others
<1>4. Accounted'
    <2>1. Linked' = Linked /\ \A c : UnitsOf(c)' = UnitsOf(c)
        BY <1>1 DEF Linked, UnitsOf
    <2> QED BY <2>1, <1>1, <1>2, <1>3, AccountedStep
<1>5. GrownInUse'
    <2>1. ASSUME NEW k \in 2 .. Len(pBlocks'), _memBlock_IsEmpty(pBlocks[k])'
          PROVE  \/ pc'[t] \in Deciding /\ blk'[t] = pBlocks'[k]
                 \/ k \in 2 .. Len(pBlocks) /\ pBlocks[k] = pBlocks'[k] /\ _memBlock_IsEmpty(pBlocks[k])
        <3>1. k \in 2 .. Len(pBlocks) /\ pBlocks'[k] = pBlocks[k] /\ pBlocks[k] \in Blocks
            BY <1>1, <1>2
        <3>2. CASE pBlocks[k] = b
            <4>1. freeUnitCount[b] + 1 = totalUnitCount[b]
                BY <3>1, <3>2, <2>1, <1>1, <1>2 DEF _memBlock_IsEmpty
            <4>2. pc'[t] = "f_trim"
                BY <4>1, <1>1, <1>2
            <4> QED BY <4>2, <3>1, <3>2, <1>0, <1>1
        <3>3. CASE pBlocks[k] # b
            BY <3>1, <3>3, <2>1, <1>1, <1>2 DEF _memBlock_IsEmpty
        <3> QED BY <3>2, <3>3
    <2>2. \A k \in 2 .. Len(pBlocks') : _memBlock_IsEmpty(pBlocks[k])' =>
                \/ pc'[t] \in Deciding /\ blk'[t] = pBlocks'[k]
                \/ \E j \in 2 .. Len(pBlocks) :
                        /\ pBlocks[j] = pBlocks'[k] /\ _memBlock_IsEmpty(pBlocks[j])
                        /\ pc[t] \in Deciding => blk[t] # pBlocks[j]
        BY <2>1, <1>1
    <2> QED BY <2>2, <1>2, <1>3, GrownStep
<1> QED BY <1>4, <1>5

\* The first block stays; any other that a call decides about goes.
LEMMA TrimKeeps ==
    ASSUME LInv, NEW t \in Threads, _memBlock_FreeFromPool(t)
    PROVE  Accounted' /\ GrownInUse'
<1>0. PICK b : b = blk[t]
    OBVIOUS
<1>1. /\ pc[t] = "f_trim" /\ pc' = [pc EXCEPT ![t] = "f_unlock"]
      /\ UNCHANGED <<idx, blk, held, totalUnitCount, freeUnitCount, isAllocated>>
    BY DEF _memBlock_FreeFromPool, program, locals, unitHeaders, blockHeaders
<1>2. /\ pc \in [Threads -> Labels] /\ pBlocks \in Seq(Blocks)
      /\ DistinctBlocks /\ Accounted /\ GrownInUse
    BY DEF LInv, IInv, TypeOK
<1>3. Others(t)
    BY <1>1, <1>2 DEF Others
<1>4. CASE pBlocks[1] = b /\ pBlocks' = pBlocks
    <2>1. Linked' = Linked /\ \A c : UnitsOf(c)' = UnitsOf(c)
        BY <1>1, <1>4 DEF Linked, UnitsOf
    <2>2. Accounted'
        BY <2>1, <1>1, <1>2, <1>3, AccountedStep
    <2>3. \A k \in 2 .. Len(pBlocks) : pBlocks[k] # b
        BY <1>2, <1>4 DEF DistinctBlocks
    <2>4. \A k \in 2 .. Len(pBlocks') : _memBlock_IsEmpty(pBlocks[k])' =>
                \E j \in 2 .. Len(pBlocks) :
                        /\ pBlocks[j] = pBlocks'[k] /\ _memBlock_IsEmpty(pBlocks[j])
                        /\ pc[t] \in Deciding => blk[t] # pBlocks[j]
        BY <2>3, <1>0, <1>1, <1>4 DEF _memBlock_IsEmpty
    <2>5. GrownInUse'
        BY <2>4, <1>2, <1>3, GrownStep
    <2> QED BY <2>2, <2>5
<1>5. ASSUME NEW k \in 2 .. Len(pBlocks), pBlocks[k] = b,
             pBlocks' = [j \in 1 .. (Len(pBlocks) - 1) |->
                            IF j < k THEN pBlocks[j] ELSE pBlocks[j + 1]]
      PROVE  Accounted' /\ GrownInUse'
    <2>1. Linked' = Linked \ {b} /\ \A c : UnitsOf(c)' = UnitsOf(c)
        BY <1>1, <1>2, <1>5, UnlinkLinked DEF UnitsOf
    <2>2. Accounted'
        BY <2>1, <1>1, <1>2, <1>3, AccountedStep
    <2>3. ASSUME NEW m \in 2 .. Len(pBlocks'), _memBlock_IsEmpty(pBlocks[m])'
          PROVE  \E j \in 2 .. Len(pBlocks) :
                        /\ pBlocks[j] = pBlocks'[m] /\ _memBlock_IsEmpty(pBlocks[j])
                        /\ pc[t] \in Deciding => blk[t] # pBlocks[j]
        <3> DEFINE j == IF m < k THEN m ELSE m + 1
        <3>1. Len(pBlocks) \in Nat /\ Len(pBlocks') = Len(pBlocks) - 1
            BY <1>2, <1>5
        <3>2. j \in 2 .. Len(pBlocks) /\ j # k /\ pBlocks'[m] = pBlocks[j]
            BY <3>1, <1>5
        <3>3. pBlocks[j] # b
            BY <3>2, <1>2, <1>5 DEF DistinctBlocks
        <3>4. _memBlock_IsEmpty(pBlocks[j])
            BY <3>2, <2>3, <1>1 DEF _memBlock_IsEmpty
        <3> QED BY <3>2, <3>3, <3>4, <1>0
    <2>4. GrownInUse'
        BY <2>3, <1>2, <1>3, GrownStep
    <2> QED BY <2>2, <2>4
<1> QED BY <1>0, <1>4, <1>5 DEF _memBlock_FreeFromPool

-----------------------------------------------------------------------------
(* The theorem                                                              *)

\* The first block is new, and no other is there.
LEMMA InitLInv ==
    ASSUME Init
    PROVE  LInv
<1>1. PICK b \in Blocks : pBlocks = <<b>>
    BY DEF Init
<1>2. Accounted
    <2>1. \A c \in Blocks : \A i \in Idx : ~isAllocated[c][i]
        BY DEF Init
    <2>2. Linked = {b} /\ \A c \in Blocks : UnitsOf(c) \subseteq Idx
        BY <1>1, CountAssumption DEF Init, Linked, UnitsOf, Idx
    <2> QED BY <2>1, <2>2 DEF Accounted
<1>3. GrownInUse
    BY <1>1 DEF GrownInUse
<1> QED BY <1>2, <1>3, InitIInv DEF LInv

\* Every step keeps the invariant.
LEMMA NextLInv ==
    ASSUME UnitSize > 8, LInv, [Next]_vars
    PROVE  LInv'
<1>1. IInv'
    BY NextIInv DEF LInv
<1>2. ASSUME NEW t \in Threads, Running(t) \/ Calling(t)
      PROVE  Accounted' /\ GrownInUse'
    <2>1. CASE \/ AttachNoMemory(t) \/ AllocBehindBlock(t) \/ FreeReadsFreed(t)
               \/ CallsNullCallback(t) \/ SetEmptyCallback(t)
        <3>1. UNCHANGED <<pBlocks, blockHeaders, unitHeaders, locals, held, pc>>
            BY <2>1 DEF AttachNoMemory, AllocBehindBlock, FreeReadsFreed, CallsNullCallback,
               SetEmptyCallback, pool, program
        <3> QED BY <3>1, StillKeeps
    <2> QED BY <1>2, <2>1, PlainKeeps, ReturnKeeps, FreeKeeps, AttachKeeps, TakeKeeps,
               LinkKeeps, PushKeeps, TrimKeeps DEF Running, Calling
<1>3. ASSUME Destory PROVE Accounted' /\ GrownInUse'
    BY <1>3 DEF Destory, Accounted, GrownInUse, Linked
<1>4. ASSUME UNCHANGED vars PROVE Accounted' /\ GrownInUse'
    <2>1. UNCHANGED <<pBlocks, blockHeaders, unitHeaders, locals, held, pc>>
        BY <1>4 DEF vars, pool, program
    <2> QED BY <2>1, StillKeeps
<1> QED BY <1>1, <1>2, <1>3, <1>4 DEF LInv, Next, Live, Ended

\* A block without allocated units, when nothing is under way, has all its units free.
LEMMA AllFree ==
    ASSUME IInv, NEW b \in Linked, \A t \in Threads : pc[t] = "idle"
    PROVE  _memBlock_IsEmpty(b) <=> \A i \in UnitsOf(b) : ~isAllocated[b][i]
<1>1. PICK order \in [1 .. totalUnitCount[b] -> UnitsOf(b)] : FreeListOf(b, order, Pending(b))
    BY DEF IInv, FreeListIntegrity
<1>2. Pending(b) = {}
    BY DEF Pending
<1>3. freeUnitCount[b] \in Nat /\ totalUnitCount[b] \in Nat
    BY LinkedBlocks, CountsAreNat DEF IInv
<1>4. ASSUME _memBlock_IsEmpty(b), NEW i \in UnitsOf(b) PROVE ~isAllocated[b][i]
    BY <1>1, <1>3, <1>4 DEF FreeListOf, _memBlock_IsEmpty
<1>5. ASSUME \A i \in UnitsOf(b) : ~isAllocated[b][i] PROVE _memBlock_IsEmpty(b)
    <2> SUFFICES ASSUME freeUnitCount[b] < totalUnitCount[b] PROVE FALSE
        BY <1>1, <1>3 DEF FreeListOf, _memBlock_IsEmpty
    <2>1. totalUnitCount[b] \in (freeUnitCount[b] + 1) .. totalUnitCount[b]
        BY <1>3
    <2>2. order[totalUnitCount[b]] \in UnitsOf(b)
        BY <2>1, <1>1, <1>3
    <2> QED BY <2>1, <2>2, <1>1, <1>2, <1>5 DEF FreeListOf
<1> QED BY <1>4, <1>5

\* Nothing leaks and no empty block is kept: between calls AMCMemPool_IsAllFree
\* answers TRUE exactly when the program owns no unit.
THEOREM NothingIsLost ==
    ASSUME UnitSize > 8
    PROVE  Spec => []NothingLost
<1>1. Init => LInv
    BY InitLInv
<1>2. LInv /\ [Next]_vars => LInv'
    BY NextLInv
<1>3. LInv => NothingLost
    <2> SUFFICES ASSUME LInv, pBlocks # << >>, \A t \in Threads : pc[t] = "idle"
                 PROVE  /\ \A b \in Linked : \A i \in UnitsOf(b) : isAllocated[b][i] => <<b, i>> \in held
                        /\ _memPool_IsEmpty <=> held = {}
        BY DEF NothingLost
    <2>1. \A b \in Linked : \A i \in UnitsOf(b) : isAllocated[b][i] => <<b, i>> \in held
        BY DEF LInv, Accounted
    <2>2. pBlocks \in Seq(Blocks) /\ Len(pBlocks) \in Nat \ {0} /\ pBlocks[1] \in Linked
        <3>1. pBlocks \in Seq(Blocks) /\ Len(pBlocks) \in Nat \ {0}
            BY DEF LInv, IInv, TypeOK
        <3> QED BY <3>1 DEF Linked
    <2>3. ASSUME _memPool_IsEmpty, held # {} PROVE FALSE
        <3>1. PICK u \in held : u[1] \in Linked /\ u[2] \in UnitsOf(u[1]) /\ isAllocated[u[1]][u[2]]
            BY <2>3 DEF LInv, IInv, HeldUnitsLive
        <3>2. u[1] = pBlocks[1]
            BY <3>1, <2>3 DEF _memPool_IsEmpty, Linked
        <3> QED BY <3>1, <3>2, <2>2, <2>3, AllFree DEF LInv, _memPool_IsEmpty
    <2>4. ASSUME held = {} PROVE _memPool_IsEmpty
        <3>1. \A b \in Linked : _memBlock_IsEmpty(b)
            BY <2>1, <2>4, AllFree DEF LInv
        <3>2. Len(pBlocks) = 1
            <4> SUFFICES ASSUME Len(pBlocks) # 1 PROVE FALSE
                OBVIOUS
            <4>0. \A n \in Nat \ {0} : n # 1 => 2 \in 1 .. n /\ 2 \in 2 .. n
                OBVIOUS
            <4>1. 2 \in 1 .. Len(pBlocks) /\ 2 \in 2 .. Len(pBlocks)
                BY <4>0, <2>2
            <4>2. pBlocks[2] \in Linked
                BY <4>1 DEF Linked
            <4> QED BY <4>1, <4>2, <3>1 DEF LInv, GrownInUse
        <3> QED BY <3>1, <3>2, <2>2 DEF _memPool_IsEmpty
    <2> QED BY <2>1, <2>3, <2>4
<1> QED BY <1>1, <1>2, <1>3, PTL DEF Spec
=============================================================================
