---------------------------- MODULE TimerService ----------------------------
(***************************************************************************)
(* What a timing tool promises: a timer set to n ticks fires in the n-th   *)
(* tick from then and in no other, once or again every period; every timer *)
(* that is due fires before the tick ends.                                 *)
(***************************************************************************)
EXTENDS Integers

CONSTANT Timers

VARIABLES
    set,          \* the timers that exist
    left,         \* ticks until a timer fires
    period, repeating,
    ticking,      \* a tick is being served
    fired         \* timers that fired in this tick and are not settled yet

vars == <<set, left, period, repeating, ticking, fired>>

Init ==
    /\ set = {} /\ fired = {} /\ ticking = FALSE
    /\ left \in [Timers -> Int] /\ period \in [Timers -> Int]
    /\ repeating \in [Timers -> BOOLEAN]

SameBut(f, g, o) == \A x \in Timers \ {o} : x \in set => g[x] = f[x]
Kept(f, g) == \A x \in set : g[x] = f[x]

AddObject(o) ==
    /\ o \notin set /\ set' = set \cup {o}
    /\ left'[o] = period'[o] /\ period'[o] > 0
    /\ SameBut(left, left', o) /\ SameBut(period, period', o)
    /\ SameBut(repeating, repeating', o)
    /\ UNCHANGED <<ticking, fired>>

\* Between two ticks, or at any time where the tool allows it, at once.
DelObject(o) ==
    /\ o \in set /\ set' = set \ {o} /\ fired' = fired \ {o}
    /\ SameBut(left, left', o) /\ SameBut(period, period', o)
    /\ SameBut(repeating, repeating', o)
    /\ UNCHANGED ticking

\* Within a tick: the timer fires one last time first.
DelLater(o) ==
    /\ o \in set /\ ticking
    /\ ~repeating'[o] /\ SameBut(repeating, repeating', o)
    /\ Kept(left, left') /\ Kept(period, period')
    /\ UNCHANGED <<set, ticking, fired>>

ResetTimeout(o) ==
    /\ o \in set
    /\ period'[o] > 0 /\ SameBut(period, period', o)
    /\ Kept(left, left') /\ Kept(repeating, repeating')
    /\ UNCHANGED <<set, ticking, fired>>

\* The timer fires in this tick, or in the next one if none is under way.
TriggerObject(o) ==
    /\ o \in set
    /\ left'[o] = IF ticking THEN 0 ELSE 1
    /\ SameBut(left, left', o)
    /\ Kept(period, period') /\ Kept(repeating, repeating')
    /\ UNCHANGED <<set, ticking, fired>>

BeginTick ==
    /\ ~ticking /\ ticking' = TRUE
    /\ \A o \in set : left'[o] = left[o] - 1
    /\ Kept(period, period') /\ Kept(repeating, repeating')
    /\ UNCHANGED <<set, fired>>

Fire(o) ==
    /\ ticking /\ o \in set \ fired /\ left[o] = 0
    /\ fired' = fired \cup {o}
    /\ Kept(left, left') /\ Kept(period, period') /\ Kept(repeating, repeating')
    /\ UNCHANGED <<set, ticking>>

\* A timer that has fired starts its next period, or is gone.
Settle(o) ==
    /\ o \in fired /\ fired' = fired \ {o}
    /\ IF repeating[o] THEN left'[o] = period[o] /\ UNCHANGED set ELSE set' = set \ {o}
    /\ SameBut(left, left', o) /\ SameBut(period, period', o)
    /\ SameBut(repeating, repeating', o)
    /\ UNCHANGED ticking

EndTick ==
    /\ ticking /\ ticking' = FALSE /\ fired = {}
    /\ \A o \in set : left[o] > 0
    /\ Kept(left, left') /\ Kept(period, period') /\ Kept(repeating, repeating')
    /\ UNCHANGED <<set, fired>>

Destroy == ~ticking /\ set' = {} /\ UNCHANGED <<ticking, fired>>

Next ==
    \/ \E o \in Timers :
        \/ AddObject(o) \/ DelObject(o) \/ DelLater(o) \/ ResetTimeout(o)
        \/ TriggerObject(o) \/ Fire(o) \/ Settle(o)
    \/ BeginTick \/ EndTick \/ Destroy

Spec == Init /\ [][Next]_vars
=============================================================================
