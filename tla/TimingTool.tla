----------------------------- MODULE TimingTool -----------------------------
(***************************************************************************)
(* AMCTimingTool.c: one thread wakes at every interval, counts the timers  *)
(* of a list down, calls the callbacks of those that are due, and then     *)
(* sweeps the list.  The one-second tool differs in DelObject only.  Time  *)
(* is counted in intervals.                                                *)
(*                                                                         *)
(* The calls take the tool's lock with trylock; a failure is taken to mean *)
(* "called from a callback" and the call goes on without it.  A call that  *)
(* overlaps the routine is not split into its accesses.                    *)
(***************************************************************************)
EXTENDS Integers, FiniteSets

CONSTANTS
    Objects,          \* units of the tool's memory pool: the most timers at once
    NULL,
    MaxTimeout,       \* bound: the longest timeout
    Uses              \* the ways a program may use the tool

(***************************************************************************)
(* A use fixes: second, the tool is the one-second one; repeated, the      *)
(* flags timers are added with (TRUE is TmCfg_Repeated); main and routine, *)
(* the calls made by the program's thread and by callbacks; paced, the     *)
(* program calls only while the routine sleeps.                            *)
(***************************************************************************)
Calls == {"add", "del", "reset", "trigger", "stop", "destroy"}

ASSUME TimingAssumption ==
    /\ IsFiniteSet(Objects) /\ NULL \notin Objects /\ MaxTimeout \in Nat \ {0}
    /\ Uses \subseteq [second : BOOLEAN, repeated : SUBSET BOOLEAN, main : SUBSET Calls,
                       routine : SUBSET Calls, paced : BOOLEAN]

VARIABLES
    objects,                                   \* head of the list
    pNext, currTime, presetTime, repeated,     \* the units' contents
    live,             \* units that are handed out by the memory pool
    lock,             \* holder of tmTool->lock: "main", "routine" or "none"
    thread,           \* tmTool->thread is not 0
    tpc, pObj, prevObj,     \* the routine
    cancelled,        \* it has been asked to end
    mpc, shouldLock,  \* the program's thread; it took the lock in Stop
    destroyed,
    use,              \* how this program uses the tool; never changes
    stuck,            \* who loops for ever in _tmObj_RemoveAndDestroy
    known             \* history: handles the program may still use

contents == <<pNext, currTime, presetTime, repeated>>
list == <<objects, contents, live, known>>
routine == <<tpc, pObj, prevObj>>
control == <<thread, cancelled, mpc, shouldLock, destroyed, use>>
vars == <<list, lock, routine, control, stuck>>

Closed(S) == \A x \in S : pNext[x] \in S \cup {NULL}

\* What can be reached from o along pNext, o included: what is in every set that holds o and
\* with a timer the next one.
From(o) ==
    IF o = NULL THEN {}
    ELSE {x \in Objects : \A S \in SUBSET Objects : o \in S /\ Closed(S) => x \in S}

Tails == {o \in From(objects) : pNext[o] = NULL}
AtLeastOne(n) == IF n < 1 THEN 1 ELSE n

Init ==
    /\ objects = NULL /\ live = {} /\ known = {}
    /\ pNext = [o \in Objects |-> NULL]
    /\ currTime = [o \in Objects |-> 0] /\ presetTime = [o \in Objects |-> 0]
    /\ repeated = [o \in Objects |-> FALSE]
    /\ lock = "none" /\ thread = FALSE /\ cancelled = FALSE
    /\ tpc = "dead" /\ pObj = NULL /\ prevObj = NULL
    /\ mpc = "idle" /\ shouldLock = FALSE /\ destroyed = FALSE /\ stuck = {}
    /\ use \in Uses

-----------------------------------------------------------------------------
(* _threadTimingRoutine                                                     *)

Wake ==
    /\ tpc = "sleep" /\ ~cancelled
    /\ tpc' = "wake"
    /\ UNCHANGED <<list, lock, pObj, prevObj, control, stuck>>

\* The cancellation points are the sleep and the tests around it.
Cancelled ==
    /\ tpc = "sleep" /\ cancelled
    /\ tpc' = "dead"
    /\ UNCHANGED <<list, lock, pObj, prevObj, control, stuck>>

LockRoutine ==
    /\ tpc = "wake" /\ lock = "none"
    /\ lock' = "routine"
    /\ tpc' = "fire" /\ pObj' = objects
    /\ UNCHANGED <<list, prevObj, control, stuck>>

CountDown ==
    /\ tpc = "fire" /\ pObj # NULL
    /\ currTime' = [currTime EXCEPT ![pObj] = @ - 1]
    /\ IF currTime[pObj] <= 1 THEN tpc' = "callback" /\ UNCHANGED pObj
       ELSE pObj' = pNext[pObj] /\ UNCHANGED tpc
    /\ UNCHANGED <<objects, pNext, presetTime, repeated, live, known, lock, prevObj, control, stuck>>

CallbackReturns ==
    /\ tpc = "callback" /\ "routine" \notin stuck
    /\ tpc' = "fire" /\ pObj' = pNext[pObj]
    /\ UNCHANGED <<list, lock, prevObj, control, stuck>>

BeginSweep ==
    /\ tpc = "fire" /\ pObj = NULL
    /\ tpc' = "sweep" /\ pObj' = objects /\ prevObj' = NULL
    /\ UNCHANGED <<list, lock, control, stuck>>

SweepKeep ==
    /\ tpc = "sweep" /\ pObj # NULL /\ currTime[pObj] > 0
    /\ prevObj' = pObj /\ pObj' = pNext[pObj]
    /\ UNCHANGED <<list, lock, tpc, control, stuck>>

\* Faulty: the next period is not started.
SweepRepeat_NotRearmed ==
    /\ tpc = "sweep" /\ pObj # NULL /\ currTime[pObj] <= 0 /\ repeated[pObj]
    /\ pObj' = pNext[pObj]
    /\ UNCHANGED <<list, lock, tpc, prevObj, control, stuck>>

\* prevObj stays behind.
SweepRepeat ==
    /\ tpc = "sweep" /\ pObj # NULL /\ currTime[pObj] <= 0 /\ repeated[pObj]
    /\ currTime' = [currTime EXCEPT ![pObj] = presetTime[pObj]]
    /\ pObj' = pNext[pObj]
    /\ UNCHANGED <<objects, pNext, presetTime, repeated, live, known, lock, tpc, prevObj,
                   control, stuck>>

\* Faulty: a timer behind another one is released but not unlinked.
SweepRemove_NoUnlink ==
    /\ tpc = "sweep" /\ pObj # NULL /\ currTime[pObj] <= 0 /\ ~repeated[pObj]
    /\ objects' = IF prevObj = NULL THEN pNext[pObj] ELSE objects
    /\ pObj' = pNext[pObj]
    /\ live' = live \ {pObj} /\ known' = known \ {pObj}
    /\ UNCHANGED <<contents, lock, tpc, prevObj, control, stuck>>

SweepRemove ==
    /\ tpc = "sweep" /\ pObj # NULL /\ currTime[pObj] <= 0 /\ ~repeated[pObj]
    /\ IF prevObj = NULL
       THEN objects' = pNext[pObj] /\ UNCHANGED pNext
       ELSE pNext' = [pNext EXCEPT ![prevObj] = pNext[pObj]] /\ UNCHANGED objects
    /\ pObj' = pNext[pObj]
    /\ live' = live \ {pObj} /\ known' = known \ {pObj}
    /\ UNCHANGED <<currTime, presetTime, repeated, lock, tpc, prevObj, control, stuck>>

EndSweep ==
    /\ tpc = "sweep" /\ pObj = NULL
    /\ lock' = "none" /\ tpc' = "sleep"
    /\ UNCHANGED <<list, pObj, prevObj, control, stuck>>

-----------------------------------------------------------------------------
(* The calls on timers; locked says that trylock succeeded.                 *)

\* Faulty: a timer added in a tick counts that tick.
FirstTimeout_Same(n, locked) == AtLeastOne(n)

\* Within the routine the tick under way still counts a new timer down.
FirstTimeout(n, locked) == AtLeastOne(n) + (IF locked THEN 0 ELSE 1)

\* Faulty: takes every timer for the first one.
LinkLast_Only(o) == objects' = o /\ pNext' = [pNext EXCEPT ![o] = NULL]

\* The timer is linked behind the last one.
LinkLast(o) ==
    /\ objects' = IF objects = NULL THEN o ELSE objects
    /\ pNext' = [x \in Objects |->
                    IF x = o THEN NULL ELSE IF x \in Tails THEN o ELSE pNext[x]]

AddObject(locked) ==
    \E o \in Objects \ live, n \in 0 .. MaxTimeout, r \in use.repeated :
        /\ live' = live \cup {o} /\ known' = known \cup {o}
        /\ currTime' = [currTime EXCEPT ![o] = FirstTimeout(n, locked)]
        /\ presetTime' = [presetTime EXCEPT ![o] = AtLeastOne(n)]
        /\ repeated' = [repeated EXCEPT ![o] = r]
        /\ LinkLast(o)

\* Faulty: the head is not looked behind.
Found_HeadOnly(o) == objects = o

\* _tmObj_RemoveAndDestroy looks at the first two timers of the list only: its
\* search for a later one never moves on.
Found(o) == objects = o \/ (objects # NULL /\ pNext[objects] \in {o, NULL})

_tmObj_RemoveAndDestroy(o) ==
    /\ objects' = IF objects = o THEN pNext[o] ELSE objects
    /\ pNext' = [x \in Objects |->
                    IF x = objects /\ pNext[x] = o THEN pNext[o] ELSE pNext[x]]
    /\ live' = live \ {o}
    /\ UNCHANGED <<currTime, presetTime, repeated>>

DelObject(caller, locked) ==
    \E o \in known :
        /\ known' = known \ {o}
        /\ IF locked \/ use.second
           THEN IF Found(o)
                THEN _tmObj_RemoveAndDestroy(o) /\ UNCHANGED stuck
                ELSE stuck' = stuck \cup {caller} /\ UNCHANGED <<objects, contents, live>>
           ELSE /\ repeated' = [repeated EXCEPT ![o] = FALSE]
                /\ UNCHANGED <<objects, pNext, currTime, presetTime, live, stuck>>

ResetTimeout ==
    /\ \E o \in known, n \in 0 .. MaxTimeout :
        presetTime' = [presetTime EXCEPT ![o] = AtLeastOne(n)]
    /\ UNCHANGED <<objects, pNext, currTime, repeated, live, known>>

TriggerObject ==
    /\ \E o \in known : currTime' = [currTime EXCEPT ![o] = 0]
    /\ UNCHANGED <<objects, pNext, presetTime, repeated, live, known>>

TimerCall(caller, calls, locked) ==
    \/ "add" \in calls /\ AddObject(locked) /\ UNCHANGED stuck
    \/ "del" \in calls /\ DelObject(caller, locked)
    \/ "reset" \in calls /\ ResetTimeout /\ UNCHANGED stuck
    \/ "trigger" \in calls /\ TriggerObject /\ UNCHANGED stuck

-----------------------------------------------------------------------------
(* The program                                                              *)

MayCall ==
    /\ mpc = "idle" /\ ~destroyed /\ "main" \notin stuck
    /\ use.paced => tpc \in {"sleep", "dead"}

\* A search that does not end keeps the lock.
MainTimerCall ==
    /\ MayCall
    /\ TimerCall("main", use.main, lock = "none")
    /\ lock' = IF "main" \in stuck' /\ lock = "none" THEN "main" ELSE lock
    /\ UNCHANGED <<routine, control>>

CallbackTimerCall ==
    /\ tpc = "callback" /\ "routine" \notin stuck
    /\ TimerCall("routine", use.routine, FALSE)
    /\ UNCHANGED <<lock, routine, control>>

\* Faulty: the thread is joined but not asked to end.
PthreadCancel_Lost == UNCHANGED cancelled

PthreadCancel == cancelled' = (cancelled \/ thread)

\* The join with itself fails, the request to end stays.
CallbackStop ==
    /\ tpc = "callback" /\ "routine" \notin stuck /\ "stop" \in use.routine
    /\ PthreadCancel
    /\ UNCHANGED <<list, lock, routine, thread, mpc, shouldLock, destroyed, use, stuck>>

\* pthread_kill may or may not report a thread that has ended unjoined.
Start ==
    /\ MayCall /\ (~thread \/ tpc = "dead")
    /\ thread' = TRUE /\ tpc' = "sleep" /\ cancelled' = FALSE
    /\ UNCHANGED <<list, lock, pObj, prevObj, mpc, shouldLock, destroyed, use, stuck>>

\* Stop holds what lock it could get while it waits for the thread to end.
Stop ==
    /\ MayCall /\ thread /\ "stop" \in use.main
    /\ shouldLock' = (lock = "none")
    /\ lock' = IF lock = "none" THEN "main" ELSE lock
    /\ PthreadCancel /\ mpc' = "join"
    /\ UNCHANGED <<list, routine, thread, destroyed, use, stuck>>

StopJoined ==
    /\ mpc = "join" /\ tpc = "dead"
    /\ thread' = FALSE /\ mpc' = "idle"
    /\ lock' = IF shouldLock THEN "none" ELSE lock
    /\ UNCHANGED <<list, routine, cancelled, shouldLock, destroyed, use, stuck>>

\* Destroy does nothing when the lock is taken.
Destroy ==
    /\ MayCall /\ lock = "none" /\ "destroy" \in use.main
    /\ lock' = "main" /\ mpc' = "destroy"
    /\ PthreadCancel
    /\ UNCHANGED <<list, routine, thread, shouldLock, destroyed, use, stuck>>

\* Faulty: the pool goes before the thread has ended.
DestroyJoined_NoJoin ==
    /\ mpc = "destroy"
    /\ thread' = FALSE /\ mpc' = "idle" /\ lock' = "none" /\ destroyed' = TRUE
    /\ live' = {} /\ known' = {}
    /\ UNCHANGED <<objects, contents, routine, cancelled, shouldLock, use, stuck>>

DestroyJoined ==
    /\ mpc = "destroy" /\ (thread => tpc = "dead")
    /\ thread' = FALSE /\ mpc' = "idle" /\ lock' = "none" /\ destroyed' = TRUE
    /\ live' = {} /\ known' = {}
    /\ UNCHANGED <<objects, contents, routine, cancelled, shouldLock, use, stuck>>

-----------------------------------------------------------------------------
RoutineStep ==
    \/ Wake \/ Cancelled \/ LockRoutine \/ CountDown \/ CallbackReturns
    \/ BeginSweep \/ SweepKeep \/ SweepRepeat \/ SweepRemove \/ EndSweep

Next ==
    \/ RoutineStep \/ CallbackTimerCall \/ CallbackStop
    \/ MainTimerCall \/ Start \/ Stop \/ StopJoined \/ Destroy \/ DestroyJoined

Spec == Init /\ [][Next]_vars

\* The thread runs, callbacks return, a join ends when its thread has.
FairSpec ==
    /\ Spec
    /\ WF_vars(RoutineStep) /\ WF_vars(StopJoined) /\ WF_vars(DestroyJoined)

-----------------------------------------------------------------------------
(* Properties                                                               *)

TypeOK ==
    /\ objects \in Objects \cup {NULL} /\ pNext \in [Objects -> Objects \cup {NULL}]
    /\ currTime \in [Objects -> -1 .. (MaxTimeout + 1)]
    /\ presetTime \in [Objects -> 0 .. MaxTimeout] /\ repeated \in [Objects -> BOOLEAN]
    /\ live \subseteq Objects /\ known \subseteq live
    /\ lock \in {"main", "routine", "none"} /\ stuck \subseteq {"main", "routine"}
    /\ thread \in BOOLEAN /\ cancelled \in BOOLEAN /\ shouldLock \in BOOLEAN
    /\ destroyed \in BOOLEAN /\ use \in Uses /\ mpc \in {"idle", "join", "destroy"}
    /\ tpc \in {"sleep", "wake", "fire", "callback", "sweep", "dead"}
    /\ pObj \in Objects \cup {NULL} /\ prevObj \in Objects \cup {NULL}

\* The list holds the timers that exist, all of them and nothing else, whoever
\* adds and removes, and the routine stands on one of them.
ListIntact ==
    ~destroyed => /\ From(objects) = live
                  /\ Cardinality(Tails) <= 1
                  /\ From(pObj) \subseteq live \/ tpc \notin {"fire", "callback", "sweep"}

\* DelObject comes back while there are no more than two timers, whatever came and went before.
DelEndsWithTwo == stuck # {} => Cardinality(live) > 2

\* The timing promise (see TimerService).
InTick == tpc \in {"fire", "callback", "sweep"}

ToVisit ==
    IF tpc = "fire" THEN From(pObj) ELSE IF tpc = "callback" THEN From(pNext[pObj]) ELSE {}

TicksLeft(o) ==
    IF o \notin live THEN 0
    ELSE IF ~InTick THEN AtLeastOne(currTime[o])
    ELSE IF o \in ToVisit THEN AtLeastOne(currTime[o]) - 1
    ELSE IF currTime[o] > 0 THEN currTime[o] ELSE 0

Promise == INSTANCE TimerService WITH
    Timers <- Objects, set <- live,
    left <- [o \in Objects |-> TicksLeft(o)],
    period <- [o \in Objects |-> IF o \in live THEN presetTime[o] ELSE 0],
    repeating <- [o \in Objects |-> o \in live /\ repeated[o]],
    ticking <- InTick,
    fired <- IF InTick THEN {o \in live \ ToVisit : currTime[o] <= 0} ELSE {}

\* Every timer fires in the tick its time runs out, once, and in no other.
ImplementsTimers == Promise!Spec

\* Once Destroy has given the memory back the routine runs no more.
DestroyedIsQuiet == destroyed => tpc = "dead"

\* A timer fires again and again, or once, as long as the tool runs.
TimersFire ==
    \A o \in Objects :
        o \in live ~> ((tpc = "callback" /\ pObj = o) \/ o \notin live \/ tpc = "dead")

\* Destroy and Stop come back.
DestroyReturns == mpc = "destroy" ~> destroyed
StopReturns == mpc = "join" ~> mpc = "idle"
=============================================================================
