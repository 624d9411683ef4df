------------------------------ MODULE UnitPool ------------------------------
(***************************************************************************)
(* What AMCMemPool promises its callers, and nothing else: a unit that is  *)
(* handed out is in nobody's hands, and it comes back only by a free.      *)
(* MemPool implements this specification.                                  *)
(***************************************************************************)
EXTENDS Integers

CONSTANT Units      \* every unit address the heap can ever provide

VARIABLES
    held,           \* the units the program owns
    outstanding     \* answers of Alloc that have not been freed

vars == <<held, outstanding>>

Init == held = {} /\ outstanding = 0

\* AMCMemPool_Alloc: the unit returned is nobody's.
Alloc ==
    \E u \in Units \ held :
        held' = held \cup {u} /\ outstanding' = outstanding + 1

\* AMCMemPool_Free: the caller gives one of its units back.
Free ==
    \E u \in held :
        held' = held \ {u} /\ outstanding' = outstanding - 1

\* AMCMemPool_Destory: every unit goes at once.
Destory == held' = {} /\ outstanding' = 0

Next == Alloc \/ Free \/ Destory

Spec == Init /\ [][Next]_vars
=============================================================================
