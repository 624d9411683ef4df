-------------------------- MODULE TimingTool_proofs --------------------------
(***************************************************************************)
(* Two invariants, and what follows from them.  IInv holds for every use   *)
(* of the tool, whatever has become of the list: when Destroy has given    *)
(* the memory back, the routine has ended for good.                        *)
(*                                                                         *)
(* Sound holds for the programs that keep to the rules (Careful): the list *)
(* is a chain of exactly the timers that exist, the routine stands on one  *)
(* of them, and no timer is counted down past zero unnoticed.  From it the *)
(* tool is shown to keep the promise of TimerService, a lemma for every    *)
(* action of the code that says which step of the promise it takes.        *)
(***************************************************************************)
EXTENDS TimingTool, FiniteSetTheorems, TLAPS

\* tmTool->thread is cleared only behind a join, and nobody starts a thread after Destroy.
RoutineJoined ==
    /\ ~thread => tpc = "dead"
    /\ mpc = "destroy" => ~destroyed
    /\ mpc = "join" => ~destroyed

\* The inductive invariant of every use.
IInv == RoutineJoined /\ DestroyedIsQuiet

\* The steps of the thread itself: a dead one takes none.
LEMMA RoutineSteps ==
    ASSUME RoutineStep
    PROVE  tpc # "dead" /\ UNCHANGED control
BY DEF RoutineStep, Wake, Cancelled, LockRoutine, CountDown, CallbackReturns, BeginSweep, SweepKeep,
   SweepRepeat, SweepRemove, EndSweep

\* The calls on timers and a Stop in a callback leave the thread where it is.
LEMMA CallSteps ==
    ASSUME CallbackTimerCall \/ CallbackStop \/ MainTimerCall
    PROVE  UNCHANGED <<tpc, thread, mpc, destroyed>>
BY DEF CallbackTimerCall, CallbackStop, MainTimerCall, routine, control

\* The invariant holds for every use of the tool.
THEOREM Invariance == Spec => []IInv
<1>1. Init => IInv
    BY DEF Init, IInv, RoutineJoined, DestroyedIsQuiet
<1>2. IInv /\ [Next]_vars => IInv'
    <2> SUFFICES ASSUME IInv, [Next]_vars PROVE IInv'
        OBVIOUS
    <2> USE DEF IInv, RoutineJoined, DestroyedIsQuiet
    <2>1. CASE UNCHANGED vars
        BY <2>1 DEF vars, routine, control
    <2>2. CASE RoutineStep
        BY <2>2, RoutineSteps DEF control
    <2>3. CASE CallbackTimerCall \/ CallbackStop \/ MainTimerCall
        BY <2>3, CallSteps
    <2>4. CASE Start
        BY <2>4 DEF Start, MayCall
    <2>5. CASE Stop
        BY <2>5 DEF Stop, MayCall, routine
    <2>6. CASE StopJoined
        BY <2>6 DEF StopJoined, routine
    <2>7. CASE Destroy
        BY <2>7 DEF Destroy, MayCall, routine
    <2>8. CASE DestroyJoined
        BY <2>8 DEF DestroyJoined, routine
    <2> QED BY <2>1, <2>2, <2>3, <2>4, <2>5, <2>6, <2>7, <2>8 DEF Next
<1> QED BY <1>1, <1>2, PTL DEF Spec

\* Once Destroy has given the memory back the routine runs no more.
THEOREM QuietAfterDestroy == Spec => []DestroyedIsQuiet
<1>1. IInv => DestroyedIsQuiet
    BY DEF IInv
<1> QED BY <1>1, Invariance, PTL
-----------------------------------------------------------------------------
(* Lists                                                                    *)

\* S holds the timer behind each of its own.
ClosedIn(nx, S) == \A x \in S : nx[x] \in S \cup {NULL}

\* From for any chaining.
Reach(nx, o) ==
    IF o = NULL THEN {}
    ELSE {x \in Objects : \A S \in SUBSET Objects : o \in S /\ ClosedIn(nx, S) => x \in S}

\* U is chained from head on, without a fork or a circle.
Chain(nx, head, U) ==
    /\ U \subseteq Objects /\ head \in U \cup {NULL}
    /\ \A x \in U : nx[x] \in U \cup {NULL} /\ nx[x] # head
    /\ \A x, y \in U : nx[x] = nx[y] => x = y
    /\ U # {} => \E t \in U : nx[t] = NULL
    /\ \A S \in SUBSET Objects : (head = NULL \/ head \in S) /\ ClosedIn(nx, S) => U \subseteq S

\* Reach in terms of the first step, and it is the least closed set.
LEMMA ReachIs ==
    ASSUME NEW nx, NEW U \in SUBSET Objects, ClosedIn(nx, U), NEW o \in U
    PROVE  /\ o \in Reach(nx, o) /\ Reach(nx, o) \subseteq U /\ ClosedIn(nx, Reach(nx, o))
           /\ Reach(nx, o) = {o} \cup Reach(nx, nx[o])
           /\ \A S \in SUBSET Objects : o \in S /\ ClosedIn(nx, S) => Reach(nx, o) \subseteq S
           /\ \A x \in Reach(nx, o) : Reach(nx, x) \subseteq Reach(nx, o)
<1>1. \A x \in U : /\ x \in Objects /\ x # NULL
                   /\ Reach(nx, x) = {y \in Objects : \A S \in SUBSET Objects :
                                                        x \in S /\ ClosedIn(nx, S) => y \in S}
    BY TimingAssumption DEF Reach
<1>2. \A x \in U : /\ x \in Reach(nx, x) /\ Reach(nx, x) \subseteq Objects
                   /\ \A S \in SUBSET Objects : x \in S /\ ClosedIn(nx, S) => Reach(nx, x) \subseteq S
    BY <1>1
<1>3. \A x \in U : Reach(nx, x) \subseteq U
    BY <1>2
<1>4. ASSUME NEW x \in U PROVE ClosedIn(nx, Reach(nx, x))
    <2> SUFFICES ASSUME NEW y \in Reach(nx, x), nx[y] # NULL PROVE nx[y] \in Reach(nx, x)
        BY DEF ClosedIn
    <2>1. nx[y] \in Objects
        BY <1>3 DEF ClosedIn
    <2>2. ASSUME NEW S \in SUBSET Objects, x \in S, ClosedIn(nx, S) PROVE nx[y] \in S
        <3>1. y \in S
            BY <1>2, <2>2
        <3> QED BY <2>2, <3>1 DEF ClosedIn
    <2> QED BY <1>1, <2>1, <2>2
<1>5. \A x \in Reach(nx, o) : Reach(nx, x) \subseteq Reach(nx, o)
    BY <1>2, <1>3, <1>4
<1>6. Reach(nx, o) = {o} \cup Reach(nx, nx[o])
    <2>1. CASE nx[o] = NULL
        <3>1. Reach(nx, nx[o]) = {} /\ ClosedIn(nx, {o}) /\ {o} \in SUBSET Objects
            BY <1>1, <2>1 DEF Reach, ClosedIn
        <3> QED BY <1>2, <3>1
    <2>2. CASE nx[o] # NULL
        <3>1. nx[o] \in U /\ nx[o] \in Reach(nx, o)
            BY <1>2, <1>4, <2>2 DEF ClosedIn
        <3>2. Reach(nx, nx[o]) \subseteq Reach(nx, o)
            BY <1>5, <3>1
        <3>3. ClosedIn(nx, {o} \cup Reach(nx, nx[o])) /\ {o} \cup Reach(nx, nx[o]) \in SUBSET Objects
            BY <1>1, <1>2, <1>4, <3>1 DEF ClosedIn
        <3> QED BY <1>2, <3>2, <3>3
    <2> QED BY <2>1, <2>2
<1> QED BY <1>2, <1>3, <1>4, <1>5, <1>6

\* All of a chain is reached from its head, and no timer from the one behind it; the last one
\* is reached from everywhere.
LEMMA ChainIs ==
    ASSUME NEW nx, NEW head, NEW U, Chain(nx, head, U)
    PROVE  /\ U \in SUBSET Objects /\ ClosedIn(nx, U) /\ NULL \notin U
           /\ Reach(nx, head) = U
           /\ \A t \in U : nx[t] = NULL => \A x \in U : t \in Reach(nx, x)
           /\ \A x \in U : x \notin Reach(nx, nx[x])
<1>1. U \in SUBSET Objects /\ ClosedIn(nx, U) /\ NULL \notin U
    BY TimingAssumption DEF Chain, ClosedIn
<1>2. Reach(nx, head) = U
    <2>1. CASE head = NULL
        <3>1. ClosedIn(nx, {}) /\ {} \in SUBSET Objects
            BY DEF ClosedIn
        <3> QED BY <2>1, <3>1 DEF Chain, Reach
    <2>2. CASE head # NULL
        <3>1. head \in U
            BY <2>2 DEF Chain
        <3>2. head \in Reach(nx, head) /\ Reach(nx, head) \subseteq U /\ ClosedIn(nx, Reach(nx, head))
            BY <1>1, <3>1, ReachIs
        <3> QED BY <1>1, <3>2 DEF Chain
    <2> QED BY <2>1, <2>2
<1>3. ASSUME NEW t \in U, nx[t] = NULL, NEW x \in U PROVE t \in Reach(nx, x)
    <2> DEFINE G == {y \in U : t \in Reach(nx, y)}
    <2>1. \A y \in U : Reach(nx, y) = {y} \cup Reach(nx, nx[y])
        BY <1>1, ReachIs
    <2>2. ASSUME NEW y \in G, nx[y] # NULL PROVE nx[y] \in G
        BY <1>1, <1>3, <2>1, <2>2 DEF ClosedIn
    <2>3. ClosedIn(nx, G) /\ G \in SUBSET Objects
        BY <1>1, <2>2 DEF ClosedIn
    <2>4. head \in G
        BY <1>2, <1>3 DEF Chain, Reach
    <2> HIDE DEF G
    <2>5. U \subseteq G
        BY <2>3, <2>4 DEF Chain
    <2> QED BY <2>5 DEF G
<1>4. ASSUME NEW x \in U, x \in Reach(nx, nx[x]) PROVE FALSE
    <2> DEFINE D == {y \in U : x \in Reach(nx, y)}
    <2>1. \A y \in U : /\ Reach(nx, y) = {y} \cup Reach(nx, nx[y])
                       /\ \A S \in SUBSET Objects : y \in S /\ ClosedIn(nx, S) => Reach(nx, y) \subseteq S
        BY <1>1, ReachIs
    <2>2. \A y \in D : nx[y] \in D
        <3>1. Reach(nx, NULL) = {}
            BY DEF Reach
        <3> QED BY <1>1, <1>4, <2>1, <3>1 DEF ClosedIn
    <2>3. ClosedIn(nx, D) /\ D \in SUBSET Objects /\ x \in D
        BY <1>1, <2>1, <2>2 DEF ClosedIn
    <2>4. PICK t \in U : nx[t] = NULL
        BY <1>4 DEF Chain
    <2>5. t \in Reach(nx, x)
        BY <1>3, <2>4
    <2>6. t \in D
        <3> HIDE DEF D
        <3> QED BY <2>1, <2>3, <2>5
    <2> QED BY <1>1, <2>2, <2>4, <2>6
<1> QED BY <1>1, <1>2, <1>3, <1>4

\* From is Reach along pNext.
LEMMA FromIs == \A o : From(o) = Reach(pNext, o)
BY DEF From, Closed, Reach, ClosedIn

\* The chaining after LinkLast.
Linked(nx, U, o) ==
    [x \in Objects |-> IF x = o THEN NULL ELSE IF x \in U /\ nx[x] = NULL THEN o ELSE nx[x]]

\* A timer linked behind the last one is the new last one, and reached from everywhere.
LEMMA ChainLinked ==
    ASSUME NEW nx, NEW head, NEW U, Chain(nx, head, U), NEW o \in Objects \ U,
           NEW head1, head1 = IF head = NULL THEN o ELSE head,
           NEW nx1, nx1 = Linked(nx, U, o)
    PROVE  /\ Chain(nx1, head1, U \cup {o})
           /\ \A x \in U : Reach(nx1, x) = Reach(nx, x) \cup {o}
           /\ Reach(nx1, o) = {o}
<1>1. /\ U \in SUBSET Objects /\ ClosedIn(nx, U) /\ NULL \notin U /\ o # NULL
      /\ \A t \in U : nx[t] = NULL => \A x \in U : t \in Reach(nx, x)
    BY ChainIs, TimingAssumption
<1>2. /\ nx1[o] = NULL
      /\ \A x \in U : nx1[x] = IF nx[x] = NULL THEN o ELSE nx[x]
    BY <1>1 DEF Linked
<1>3. U \cup {o} \in SUBSET Objects /\ ClosedIn(nx1, U \cup {o})
    BY <1>1, <1>2 DEF ClosedIn
<1>4. ASSUME NEW x \in U PROVE Reach(nx1, x) = Reach(nx, x) \cup {o}
    <2>1. /\ x \in Reach(nx, x) /\ Reach(nx, x) \subseteq U /\ ClosedIn(nx, Reach(nx, x))
          /\ \A S \in SUBSET Objects : x \in S /\ ClosedIn(nx, S) => Reach(nx, x) \subseteq S
        BY <1>1, ReachIs
    <2>2. /\ x \in Reach(nx1, x) /\ ClosedIn(nx1, Reach(nx1, x)) /\ Reach(nx1, x) \subseteq U \cup {o}
          /\ \A S \in SUBSET Objects : x \in S /\ ClosedIn(nx1, S) => Reach(nx1, x) \subseteq S
        BY <1>3, ReachIs
    <2>3. ClosedIn(nx1, Reach(nx, x) \cup {o})
        BY <1>2, <2>1 DEF ClosedIn
    <2>4. Reach(nx1, x) \subseteq Reach(nx, x) \cup {o}
        BY <1>1, <2>1, <2>2, <2>3
    <2>5. ClosedIn(nx, Reach(nx1, x) \ {o})
        BY <1>1, <1>2, <2>2 DEF ClosedIn
    <2>6. Reach(nx, x) \subseteq Reach(nx1, x)
        BY <1>1, <2>1, <2>2, <2>5
    <2>7. PICK t \in U : nx[t] = NULL
        BY DEF Chain
    <2>8. t \in Reach(nx1, x) /\ nx1[t] = o
        BY <1>1, <1>2, <2>6, <2>7
    <2>9. o \in Reach(nx1, x)
        BY <1>1, <2>2, <2>8 DEF ClosedIn
    <2> QED BY <2>4, <2>6, <2>9
<1>5. Reach(nx1, o) = {o}
    <2>1. Reach(nx1, o) = {o} \cup Reach(nx1, nx1[o])
        BY <1>3, ReachIs
    <2> QED BY <1>2, <2>1 DEF Reach
<1>6. Chain(nx1, head1, U \cup {o})
    <2>1. head1 \in U \cup {o} /\ (U # {} => head1 = head /\ head \in U) /\ (U = {} => head1 = o)
        BY <1>1 DEF Chain
    <2>2. \A x \in U \cup {o} : nx1[x] \in U \cup {o, NULL} /\ nx1[x] # head1
        BY <1>1, <1>2, <2>1 DEF Chain
    <2>3. \A x, y \in U \cup {o} : nx1[x] = nx1[y] => x = y
        BY <1>1, <1>2 DEF Chain
    <2>4. \E t \in U \cup {o} : nx1[t] = NULL
        BY <1>2
    <2>5. ASSUME NEW S \in SUBSET Objects, head1 = NULL \/ head1 \in S, ClosedIn(nx1, S)
          PROVE  U \cup {o} \subseteq S
        <3>1. head1 \in S
            BY <1>1, <2>1, <2>5
        <3>2. CASE U = {}
            BY <2>1, <3>1, <3>2
        <3>3. CASE U # {}
            <4>1. head \in U /\ head \in S /\ Reach(nx1, head) = U \cup {o}
                BY <1>4, <2>1, <3>1, <3>3, ChainIs
            <4>2. Reach(nx1, head) \subseteq S
                BY <1>3, <2>5, <4>1, ReachIs
            <4> QED BY <4>1, <4>2
        <3> QED BY <3>2, <3>3
    <2> QED BY <1>3, <2>1, <2>2, <2>3, <2>4, <2>5 DEF Chain
<1> QED BY <1>4, <1>5, <1>6

\* The head goes.
LEMMA ChainBehead ==
    ASSUME NEW nx, NEW head, NEW U, Chain(nx, head, U), head # NULL
    PROVE  Chain(nx, nx[head], U \ {head})
<1>1. /\ U \in SUBSET Objects /\ ClosedIn(nx, U) /\ NULL \notin U /\ head \in U
      /\ Reach(nx, head) = U
    BY ChainIs DEF Chain
<1>2. Reach(nx, head) = {head} \cup Reach(nx, nx[head])
    BY <1>1, ReachIs
<1>3. nx[head] = NULL => U \ {head} = {}
    BY <1>1, <1>2 DEF Reach
<1>4. \A x \in U \ {head} : nx[x] \in (U \ {head}) \cup {NULL} /\ nx[x] # nx[head]
    BY <1>1 DEF Chain
<1>5. nx[head] \in (U \ {head}) \cup {NULL}
    BY <1>1 DEF Chain
<1>6. U \ {head} # {} => \E t \in U \ {head} : nx[t] = NULL
    BY <1>3 DEF Chain
<1>7. ASSUME NEW S \in SUBSET Objects, nx[head] = NULL \/ nx[head] \in S, ClosedIn(nx, S)
      PROVE  U \ {head} \subseteq S
    <2>1. S \cup {head} \in SUBSET Objects /\ ClosedIn(nx, S \cup {head})
        BY <1>1, <1>7 DEF ClosedIn
    <2> QED BY <2>1 DEF Chain
<1> QED BY <1>1, <1>4, <1>5, <1>6, <1>7 DEF Chain

\* The chaining without the timer behind p.
Unlinked(nx, p) == [nx EXCEPT ![p] = nx[nx[p]]]

\* The timer behind p goes.
LEMMA ChainUnlink ==
    ASSUME NEW nx, NEW head, NEW U, Chain(nx, head, U), nx \in [Objects -> Objects \cup {NULL}],
           NEW p \in U, NEW o, o = nx[p], o # NULL,
           NEW nx1, nx1 = Unlinked(nx, p)
    PROVE  /\ Chain(nx1, head, U \ {o}) /\ o \in U /\ o # p
           /\ Reach(nx1, nx[o]) = Reach(nx, nx[o])
<1>1. /\ U \in SUBSET Objects /\ ClosedIn(nx, U) /\ NULL \notin U /\ o \in U
      /\ \A x \in U : x \notin Reach(nx, nx[x])
      /\ \A x \in U : x \in Reach(nx, x) /\ Reach(nx, x) = {x} \cup Reach(nx, nx[x])
    <2>1. /\ U \in SUBSET Objects /\ ClosedIn(nx, U) /\ NULL \notin U
          /\ \A x \in U : x \notin Reach(nx, nx[x])
        BY ChainIs
    <2>2. \A x \in U : x \in Reach(nx, x) /\ Reach(nx, x) = {x} \cup Reach(nx, nx[x])
        BY <2>1, ReachIs
    <2> QED BY <2>1, <2>2 DEF ClosedIn
<1>2. /\ o # p /\ o # head /\ nx[o] # o
      /\ nx[o] \in U \cup {NULL}
    <2>1. nx[o] \in U \cup {NULL} /\ o # head
        BY <1>1 DEF Chain
    <2> QED BY <1>1, <2>1
<1>3. /\ nx1[p] = nx[o] /\ \A x \in Objects \ {p} : nx1[x] = nx[x]
    BY <1>1 DEF Unlinked
<1>4. Chain(nx1, head, U \ {o})
    <2>1. U \ {o} \subseteq Objects /\ head \in (U \ {o}) \cup {NULL}
        BY <1>1, <1>2 DEF Chain
    <2>2. \A x \in U \ {o} : nx1[x] \in (U \ {o}) \cup {NULL} /\ nx1[x] # head
        BY <1>1, <1>2, <1>3 DEF Chain
    <2>3. \A x, y \in U \ {o} : nx1[x] = nx1[y] => x = y
        BY <1>1, <1>2, <1>3 DEF Chain
    <2>4. \E t \in U \ {o} : nx1[t] = NULL
        <3>1. PICK t \in U : nx[t] = NULL
            BY <1>1 DEF Chain
        <3> QED BY <1>1, <1>2, <1>3, <3>1
    <2>5. ASSUME NEW S \in SUBSET Objects, head = NULL \/ head \in S, ClosedIn(nx1, S)
          PROVE  U \ {o} \subseteq S
        <3>1. CASE p \in S
            <4>1. ClosedIn(nx, S \cup {o}) /\ S \cup {o} \in SUBSET Objects
                BY <1>1, <1>2, <1>3, <2>5, <3>1 DEF ClosedIn
            <4> QED BY <2>5, <4>1 DEF Chain
        <3>2. CASE p \notin S
            <4>1. ClosedIn(nx, S)
                BY <1>3, <2>5, <3>2 DEF ClosedIn
            <4> QED BY <2>5, <4>1 DEF Chain
        <3> QED BY <3>1, <3>2
    <2> QED BY <2>1, <2>2, <2>3, <2>4, <2>5 DEF Chain
<1>5. Reach(nx1, nx[o]) = Reach(nx, nx[o])
    <2>1. CASE nx[o] = NULL
        BY <2>1 DEF Reach
    <2>2. CASE nx[o] # NULL
        <3> DEFINE n == nx[o]
        <3>1. n \in U /\ n # o /\ p \notin Reach(nx, n)
            BY <1>1, <1>2, <2>2
        <3>2. /\ n \in Reach(nx, n) /\ ClosedIn(nx, Reach(nx, n)) /\ Reach(nx, n) \subseteq U
              /\ \A S \in SUBSET Objects : n \in S /\ ClosedIn(nx, S) => Reach(nx, n) \subseteq S
            BY <1>1, <3>1, ReachIs
        <3>3. ClosedIn(nx1, U \ {o}) /\ U \ {o} \in SUBSET Objects /\ n \in U \ {o}
            BY <1>4, <3>1, ChainIs
        <3>4. /\ n \in Reach(nx1, n) /\ ClosedIn(nx1, Reach(nx1, n)) /\ Reach(nx1, n) \subseteq U
              /\ \A S \in SUBSET Objects : n \in S /\ ClosedIn(nx1, S) => Reach(nx1, n) \subseteq S
            <4>1. PICK V : V = U \ {o}
                OBVIOUS
            <4>2. V \in SUBSET Objects /\ ClosedIn(nx1, V) /\ n \in V /\ V \subseteq U
                BY <3>3, <4>1
            <4>3. Reach(nx1, n) \subseteq V
                BY <4>2, ReachIs
            <4> HIDE DEF n
            <4> QED BY <4>2, <4>3, ReachIs
        <3>5. ClosedIn(nx1, Reach(nx, n))
            BY <1>1, <1>3, <3>1, <3>2 DEF ClosedIn
        <3>6. Reach(nx1, n) \subseteq Reach(nx, n)
            BY <1>1, <3>2, <3>4, <3>5
        <3>7. ClosedIn(nx, Reach(nx1, n))
            <4>1. \A x \in Reach(nx1, n) : nx1[x] = nx[x]
                BY <1>1, <1>3, <3>1, <3>2, <3>6
            <4> QED BY <3>4, <4>1 DEF ClosedIn
        <3> QED BY <1>1, <3>2, <3>4, <3>6, <3>7
    <2> QED BY <2>1, <2>2
<1> QED BY <1>1, <1>2, <1>4, <1>5

-----------------------------------------------------------------------------
(* Programs that keep to the rules                                          *)

\* The program calls between ticks only, its timers are all repeated or all one-shot, and a
\* callback deletes no timers but one-shot ones of the tool that marks them.
Careful(u) ==
    /\ u.paced
    /\ u.repeated \subseteq {TRUE} \/ u.repeated \subseteq {FALSE}
    /\ "del" \in u.routine => ~u.second /\ u.repeated \subseteq {FALSE}

\* All programs keep to the rules.
CarefulUses == \A u \in Uses : Careful(u)

\* The routine has the lock in a tick, the program while it waits for the thread or is stuck.
LockOK ==
    /\ lock = "routine" <=> InTick
    /\ lock = "main" <=> mpc # "idle" \/ stuck # {}
    /\ mpc = "idle" \/ stuck = {}
    /\ mpc = "join" => shouldLock
    /\ "routine" \notin stuck

\* The list is a chain of the timers that exist.
ListOK == ~destroyed => Chain(pNext, objects, live)

\* A timer's flag is one the program adds timers with, and its period is not 0.
Marked == \A o \in live : repeated[o] \in use.repeated /\ presetTime[o] > 0

\* The routine stands on a timer or behind the last one; prevObj is the one before when timers
\* are removed.
CursorOK ==
    /\ tpc \in {"fire", "sweep"} => pObj \in live \cup {NULL}
    /\ tpc = "callback" => pObj \in live
    /\ tpc = "sweep" /\ use.repeated \subseteq {FALSE} =>
          IF prevObj = NULL THEN pObj = objects ELSE prevObj \in live /\ pNext[prevObj] = pObj

\* No timer is counted below zero twice: what the sweep has passed has time left.
TimesOK ==
    /\ ~InTick => \A o \in live : currTime[o] >= 0
    /\ tpc = "fire" => \A o \in Reach(pNext, pObj) : currTime[o] >= 0
    /\ tpc = "callback" => \A o \in Reach(pNext, pNext[pObj]) : currTime[o] >= 0
    /\ tpc = "sweep" => \A o \in live \ Reach(pNext, pObj) : currTime[o] > 0

\* The inductive invariant of the list.
Sound ==
    TypeOK /\ IInv /\ LockOK /\ ListOK /\ Marked /\ CursorOK /\ TimesOK /\ DelEndsWithTwo

\* The list as the steps see it.
LEMMA ListNow ==
    ASSUME Sound, ~destroyed
    PROVE  /\ Chain(pNext, objects, live)
           /\ live \in SUBSET Objects /\ ClosedIn(pNext, live) /\ NULL \notin live
           /\ Reach(pNext, NULL) = {} /\ Reach(pNext, objects) = live
           /\ \A x \in live : /\ pNext[x] \in live \cup {NULL}
                              /\ x \notin Reach(pNext, pNext[x])
                              /\ x \in Reach(pNext, x) /\ Reach(pNext, x) \subseteq live
                              /\ Reach(pNext, x) = {x} \cup Reach(pNext, pNext[x])
<1>1. Chain(pNext, objects, live)
    BY DEF Sound, ListOK
<1>2. /\ live \in SUBSET Objects /\ ClosedIn(pNext, live) /\ NULL \notin live
      /\ Reach(pNext, objects) = live
      /\ \A x \in live : x \notin Reach(pNext, pNext[x])
    BY <1>1, ChainIs
<1>3. \A x \in live : /\ x \in Reach(pNext, x) /\ Reach(pNext, x) \subseteq live
                      /\ Reach(pNext, x) = {x} \cup Reach(pNext, pNext[x])
    BY <1>2, ReachIs
<1>4. \A x \in live : pNext[x] \in live \cup {NULL}
    BY <1>2 DEF ClosedIn
<1>5. Reach(pNext, NULL) = {}
    BY DEF Reach
<1> QED BY <1>1, <1>2, <1>3, <1>4, <1>5

\* In a tick the tool has not been destroyed and nobody is stuck.
LEMMA InTickIs ==
    ASSUME Sound, InTick
    PROVE  lock = "routine" /\ ~destroyed /\ stuck = {} /\ mpc = "idle"
BY DEF Sound, LockOK, IInv, DestroyedIsQuiet, InTick

\* When the program may call, no tick is under way and the lock is free.
LEMMA MayCallIs ==
    ASSUME CarefulUses, Sound, MayCall
    PROVE  /\ ~InTick /\ ~destroyed /\ stuck = {} /\ lock = "none" /\ mpc = "idle"
           /\ tpc \in {"sleep", "dead"}
<1>1. use.paced
    BY DEF CarefulUses, Careful, Sound, TypeOK
<1>2. tpc \in {"sleep", "dead"} /\ mpc = "idle" /\ ~destroyed /\ "main" \notin stuck
    BY <1>1 DEF MayCall
<1>3. stuck = {}
    BY <1>2 DEF Sound, LockOK, TypeOK
<1>4. ~InTick
    BY <1>2 DEF InTick
<1>5. lock = "none"
    BY <1>2, <1>3, <1>4 DEF Sound, LockOK, TypeOK
<1> QED BY <1>2, <1>3, <1>4, <1>5

\* A step that leaves the timers and the routine's place alone.
LEMMA ListStays ==
    ASSUME Sound, TypeOK', IInv', LockOK', UNCHANGED <<list, use, stuck, destroyed, pObj, prevObj>>,
           tpc' = tpc \/ (~InTick /\ ~InTick')
    PROVE  Sound'
<1>1. /\ UNCHANGED <<objects, pNext, currTime, presetTime, repeated, live, use, stuck, destroyed,
                     pObj, prevObj>>
    BY DEF list, contents
<1>2. ListOK'
    BY <1>1 DEF Sound, ListOK
<1>3. Marked'
    BY <1>1 DEF Sound, Marked
<1>4. CursorOK'
    BY <1>1 DEF Sound, CursorOK, InTick
<1>5. TimesOK'
    BY <1>1 DEF Sound, TimesOK, InTick
<1>6. DelEndsWithTwo'
    BY <1>1 DEF Sound, DelEndsWithTwo
<1> QED BY <1>2, <1>3, <1>4, <1>5, <1>6 DEF Sound

\* The steps of the thread between ticks, and the calls that start and stop it, keep the list.
LEMMA ThreadKeeps ==
    ASSUME CarefulUses, Sound, IInv',
           Wake \/ Cancelled \/ CallbackStop \/ Start \/ Stop \/ StopJoined \/ Destroy
    PROVE  Sound'
<1>1. CASE Wake
    <2>1. TypeOK' /\ LockOK'
        BY <1>1 DEF Wake, Sound, TypeOK, LockOK, InTick, list, contents, control
    <2> QED BY <1>1, <2>1, ListStays DEF Wake, InTick, control
<1>2. CASE Cancelled
    <2>1. TypeOK' /\ LockOK'
        BY <1>2 DEF Cancelled, Sound, TypeOK, LockOK, InTick, list, contents, control
    <2> QED BY <1>2, <2>1, ListStays DEF Cancelled, InTick, control
<1>3. CASE CallbackStop
    <2>1. TypeOK' /\ LockOK'
        BY <1>3 DEF CallbackStop, PthreadCancel, Sound, TypeOK, LockOK, InTick, list, contents, routine
    <2> QED BY <1>3, <2>1, ListStays DEF CallbackStop, routine
<1>4. CASE Start
    <2>1. TypeOK' /\ LockOK'
        BY <1>4, MayCallIs DEF Start, Sound, TypeOK, LockOK, InTick, list, contents
    <2> QED BY <1>4, <2>1, ListStays, MayCallIs DEF Start, InTick
<1>5. CASE Stop
    <2>1. TypeOK' /\ LockOK'
        BY <1>5, MayCallIs DEF Stop, PthreadCancel, Sound, TypeOK, LockOK, InTick, list, contents, routine
    <2> QED BY <1>5, <2>1, ListStays DEF Stop, routine
<1>6. CASE StopJoined
    <2>1. TypeOK' /\ LockOK'
        BY <1>6 DEF StopJoined, Sound, TypeOK, LockOK, InTick, list, contents, routine
    <2> QED BY <1>6, <2>1, ListStays DEF StopJoined, routine
<1>7. CASE Destroy
    <2>1. TypeOK' /\ LockOK'
        BY <1>7, MayCallIs DEF Destroy, PthreadCancel, Sound, TypeOK, LockOK, InTick, list, contents, routine
    <2> QED BY <1>7, <2>1, ListStays DEF Destroy, routine
<1> QED BY <1>1, <1>2, <1>3, <1>4, <1>5, <1>6, <1>7

\* LockRoutine begins at the head: all timers are still to be counted.
LEMMA LockRoutineKeeps == ASSUME Sound, IInv', LockRoutine PROVE Sound'
<1>1. /\ tpc = "wake" /\ lock = "none" /\ tpc' = "fire" /\ lock' = "routine" /\ pObj' = objects
      /\ UNCHANGED <<objects, pNext, currTime, presetTime, repeated, live, known, prevObj, thread,
                     cancelled, mpc, shouldLock, destroyed, use, stuck>>
    BY DEF LockRoutine, list, contents, control
<1>2. ~InTick /\ InTick' /\ ~destroyed
    BY <1>1 DEF InTick, Sound, IInv, DestroyedIsQuiet
<1>3. TypeOK'
    BY <1>1 DEF Sound, TypeOK
<1>4. LockOK'
    BY <1>1, <1>2 DEF Sound, LockOK, TypeOK
<1>5. ListOK' /\ Marked' /\ DelEndsWithTwo'
    BY <1>1 DEF Sound, ListOK, Marked, DelEndsWithTwo
<1>6. CursorOK'
    BY <1>1, <1>2, ListNow DEF CursorOK, Chain
<1>7. TimesOK'
    <2>1. Reach(pNext, objects) = live
        BY <1>2, ListNow
    <2> QED BY <1>1, <1>2, <2>1 DEF Sound, TimesOK
<1> QED BY <1>3, <1>4, <1>5, <1>6, <1>7 DEF Sound

\* CountDown takes one from a timer and leaves it behind, or calls it back.
LEMMA CountDownKeeps == ASSUME Sound, IInv', CountDown PROVE Sound'
<1>1. /\ tpc = "fire" /\ pObj # NULL /\ currTime' = [currTime EXCEPT ![pObj] = @ - 1]
      /\ \/ tpc' = "callback" /\ pObj' = pObj
         \/ tpc' = "fire" /\ pObj' = pNext[pObj]
      /\ UNCHANGED <<objects, pNext, presetTime, repeated, live, known, lock, prevObj, thread,
                     cancelled, mpc, shouldLock, destroyed, use, stuck>>
    BY DEF CountDown, list, contents, control
<1>2. InTick /\ InTick' /\ ~destroyed
    BY <1>1, InTickIs DEF InTick
<1>3. pObj \in live
    BY <1>1 DEF Sound, CursorOK
<1>4. /\ pNext[pObj] \in live \cup {NULL} /\ pObj \in Objects /\ live \subseteq Objects
      /\ Reach(pNext, pObj) = {pObj} \cup Reach(pNext, pNext[pObj])
      /\ pObj \notin Reach(pNext, pNext[pObj]) /\ Reach(pNext, pObj) \subseteq live
    BY <1>2, <1>3, ListNow
<1>5. TypeOK'
    <2>1. currTime[pObj] >= 0 /\ currTime[pObj] \in -1 .. (MaxTimeout + 1)
        BY <1>1, <1>4 DEF Sound, TimesOK, TypeOK
    <2>2. currTime[pObj] - 1 \in -1 .. (MaxTimeout + 1)
        BY <2>1, TimingAssumption
    <2>3. currTime' \in [Objects -> -1 .. (MaxTimeout + 1)]
        BY <1>1, <2>2 DEF Sound, TypeOK
    <2> QED BY <1>1, <1>4, <2>3 DEF Sound, TypeOK
<1>6. LockOK'
    BY <1>1, <1>2 DEF Sound, LockOK
<1>7. ListOK' /\ Marked' /\ DelEndsWithTwo'
    BY <1>1 DEF Sound, ListOK, Marked, DelEndsWithTwo
<1>8. CursorOK'
    BY <1>1, <1>3, <1>4 DEF CursorOK
<1>9. TimesOK'
    <2>1. \A o \in Reach(pNext, pNext[pObj]) : currTime'[o] = currTime[o] /\ currTime[o] >= 0
        BY <1>1, <1>4 DEF Sound, TypeOK, TimesOK
    <2> QED BY <1>1, <1>2, <2>1 DEF TimesOK
<1> QED BY <1>5, <1>6, <1>7, <1>8, <1>9 DEF Sound

\* CallbackReturns goes on behind the timer.
LEMMA CallbackReturnsKeeps == ASSUME Sound, IInv', CallbackReturns PROVE Sound'
<1>1. /\ tpc = "callback" /\ tpc' = "fire" /\ pObj' = pNext[pObj]
      /\ UNCHANGED <<objects, pNext, currTime, presetTime, repeated, live, known, lock, prevObj, thread,
                     cancelled, mpc, shouldLock, destroyed, use, stuck>>
    BY DEF CallbackReturns, list, contents, control
<1>2. InTick /\ InTick' /\ ~destroyed
    BY <1>1, InTickIs DEF InTick
<1>3. pNext[pObj] \in live \cup {NULL} /\ live \subseteq Objects
    BY <1>1, <1>2, ListNow DEF Sound, CursorOK
<1>4. TypeOK' /\ LockOK'
    BY <1>1, <1>2, <1>3 DEF Sound, TypeOK, LockOK
<1>5. ListOK' /\ Marked' /\ DelEndsWithTwo'
    BY <1>1 DEF Sound, ListOK, Marked, DelEndsWithTwo
<1>6. CursorOK' /\ TimesOK'
    BY <1>1, <1>2, <1>3 DEF Sound, CursorOK, TimesOK
<1> QED BY <1>4, <1>5, <1>6 DEF Sound

\* BeginSweep starts at the head again.
LEMMA BeginSweepKeeps == ASSUME Sound, IInv', BeginSweep PROVE Sound'
<1>1. /\ tpc = "fire" /\ tpc' = "sweep" /\ pObj' = objects /\ prevObj' = NULL
      /\ UNCHANGED <<objects, pNext, currTime, presetTime, repeated, live, known, lock, thread,
                     cancelled, mpc, shouldLock, destroyed, use, stuck>>
    BY DEF BeginSweep, list, contents, control
<1>2. InTick /\ InTick' /\ ~destroyed
    BY <1>1, InTickIs DEF InTick
<1>3. objects \in live \cup {NULL} /\ Reach(pNext, objects) = live
    BY <1>2, ListNow DEF Chain
<1>4. TypeOK' /\ LockOK'
    BY <1>1, <1>2 DEF Sound, TypeOK, LockOK
<1>5. ListOK' /\ Marked' /\ DelEndsWithTwo'
    BY <1>1 DEF Sound, ListOK, Marked, DelEndsWithTwo
<1>6. CursorOK' /\ TimesOK'
    BY <1>1, <1>2, <1>3 DEF CursorOK, TimesOK
<1> QED BY <1>4, <1>5, <1>6 DEF Sound

\* SweepKeep passes a timer that has time left.
LEMMA SweepKeepKeeps == ASSUME Sound, IInv', SweepKeep PROVE Sound'
<1>1. /\ tpc = "sweep" /\ tpc' = "sweep" /\ pObj # NULL /\ currTime[pObj] > 0
      /\ pObj' = pNext[pObj] /\ prevObj' = pObj
      /\ UNCHANGED <<objects, pNext, currTime, presetTime, repeated, live, known, lock, thread,
                     cancelled, mpc, shouldLock, destroyed, use, stuck>>
    BY DEF SweepKeep, list, contents, control
<1>2. InTick /\ InTick' /\ ~destroyed /\ pObj \in live
    BY <1>1, InTickIs DEF InTick, Sound, CursorOK
<1>3. /\ pNext[pObj] \in live \cup {NULL} /\ NULL \notin live /\ live \subseteq Objects
      /\ Reach(pNext, pObj) = {pObj} \cup Reach(pNext, pNext[pObj])
    BY <1>2, ListNow
<1>4. TypeOK' /\ LockOK'
    BY <1>1, <1>2, <1>3 DEF Sound, TypeOK, LockOK
<1>5. ListOK' /\ Marked' /\ DelEndsWithTwo'
    BY <1>1 DEF Sound, ListOK, Marked, DelEndsWithTwo
<1>6. CursorOK' /\ TimesOK'
    BY <1>1, <1>2, <1>3 DEF Sound, CursorOK, TimesOK
<1> QED BY <1>4, <1>5, <1>6 DEF Sound

\* SweepRepeat gives a repeated timer its period, and leaves prevObj behind: in this use
\* nothing is removed.
LEMMA SweepRepeatKeeps == ASSUME CarefulUses, Sound, IInv', SweepRepeat PROVE Sound'
<1>1. /\ tpc = "sweep" /\ tpc' = "sweep" /\ pObj # NULL /\ repeated[pObj]
      /\ pObj' = pNext[pObj] /\ currTime' = [currTime EXCEPT ![pObj] = presetTime[pObj]]
      /\ UNCHANGED <<objects, pNext, presetTime, repeated, live, known, lock, prevObj, thread,
                     cancelled, mpc, shouldLock, destroyed, use, stuck>>
    BY DEF SweepRepeat, control
<1>2. InTick /\ InTick' /\ ~destroyed /\ pObj \in live
    BY <1>1, InTickIs DEF InTick, Sound, CursorOK
<1>3. /\ pNext[pObj] \in live \cup {NULL} /\ live \subseteq Objects
      /\ Reach(pNext, pObj) = {pObj} \cup Reach(pNext, pNext[pObj])
    BY <1>2, ListNow
<1>4. ~(use.repeated \subseteq {FALSE})
    BY <1>1, <1>2 DEF Sound, Marked
<1>5. presetTime[pObj] \in 0 .. MaxTimeout /\ presetTime[pObj] > 0 /\ pObj \in Objects
    BY <1>2, <1>3 DEF Sound, Marked, TypeOK
<1>6. TypeOK'
    <2>1. presetTime[pObj] \in -1 .. (MaxTimeout + 1)
        BY <1>5, TimingAssumption
    <2>2. currTime' \in [Objects -> -1 .. (MaxTimeout + 1)]
        BY <1>1, <2>1 DEF Sound, TypeOK
    <2> QED BY <1>1, <1>3, <2>2 DEF Sound, TypeOK
<1>7. LockOK'
    BY <1>1, <1>2 DEF Sound, LockOK
<1>8. ListOK' /\ Marked' /\ DelEndsWithTwo'
    BY <1>1 DEF Sound, ListOK, Marked, DelEndsWithTwo
<1>9. CursorOK'
    BY <1>1, <1>3, <1>4 DEF CursorOK
<1>10. TimesOK'
    <2>1. \A o \in live : currTime'[o] = IF o = pObj THEN presetTime[o] ELSE currTime[o]
        BY <1>1, <1>3 DEF Sound, TypeOK
    <2>2. \A o \in live \ Reach(pNext, pNext[pObj]) : currTime'[o] > 0
        BY <1>1, <1>3, <1>5, <2>1 DEF Sound, TimesOK
    <2> QED BY <1>1, <1>2, <2>2 DEF TimesOK
<1> QED BY <1>6, <1>7, <1>8, <1>9, <1>10 DEF Sound

\* SweepRemove unlinks a one-shot timer from prevObj, which is the one before it.
LEMMA SweepRemoveKeeps == ASSUME CarefulUses, Sound, IInv', SweepRemove PROVE Sound'
<1>1. /\ tpc = "sweep" /\ tpc' = "sweep" /\ pObj # NULL /\ ~repeated[pObj]
      /\ pObj' = pNext[pObj] /\ live' = live \ {pObj} /\ known' = known \ {pObj}
      /\ IF prevObj = NULL THEN objects' = pNext[pObj] /\ pNext' = pNext
         ELSE pNext' = [pNext EXCEPT ![prevObj] = pNext[pObj]] /\ objects' = objects
      /\ UNCHANGED <<currTime, presetTime, repeated, lock, prevObj, thread,
                     cancelled, mpc, shouldLock, destroyed, use, stuck>>
    BY DEF SweepRemove, control
<1>2. InTick /\ InTick' /\ ~destroyed /\ pObj \in live /\ stuck = {}
    BY <1>1, InTickIs DEF InTick, Sound, CursorOK
<1>3. /\ pNext[pObj] \in live \cup {NULL} /\ live \subseteq Objects /\ NULL \notin live
      /\ Reach(pNext, pObj) = {pObj} \cup Reach(pNext, pNext[pObj])
      /\ pObj \notin Reach(pNext, pNext[pObj])
      /\ Chain(pNext, objects, live) /\ pObj \in Reach(pNext, pObj)
    BY <1>2, ListNow
<1>4. use.repeated \subseteq {FALSE}
    BY <1>1, <1>2 DEF Sound, Marked, CarefulUses, Careful, TypeOK
<1>5. pNext \in [Objects -> Objects \cup {NULL}]
    BY DEF Sound, TypeOK
<1>6. /\ Chain(pNext', objects', live') /\ Reach(pNext', pObj') = Reach(pNext, pNext[pObj])
      /\ IF prevObj = NULL THEN pObj' = objects'
         ELSE prevObj \in live' /\ pNext'[prevObj] = pObj'
    <2>1. CASE prevObj = NULL
        <3>1. pObj = objects
            BY <1>1, <1>4, <2>1 DEF Sound, CursorOK
        <3> QED BY <1>1, <1>3, <2>1, <3>1, ChainBehead
    <2>2. CASE prevObj # NULL
        <3>1. prevObj \in live /\ pNext[prevObj] = pObj
            BY <1>1, <1>4, <2>2 DEF Sound, CursorOK
        <3>2. /\ Chain(pNext', objects, live \ {pObj}) /\ pObj # prevObj
              /\ Reach(pNext', pNext[pObj]) = Reach(pNext, pNext[pObj])
            <4>1. PICK p, o, nx1 : p = prevObj /\ o = pObj /\ nx1 = pNext'
                OBVIOUS
            <4>2. p \in live /\ o = pNext[p] /\ o # NULL /\ nx1 = Unlinked(pNext, p)
                BY <1>1, <2>2, <3>1, <4>1 DEF Unlinked
            <4>3. /\ Chain(nx1, objects, live \ {o}) /\ o # p
                  /\ Reach(nx1, pNext[o]) = Reach(pNext, pNext[o])
                BY <1>3, <1>5, <4>2, ChainUnlink
            <4> QED BY <4>1, <4>3
        <3>3. pNext'[prevObj] = pNext[pObj]
            BY <1>1, <1>3, <1>5, <2>2, <3>1
        <3> QED BY <1>1, <2>2, <3>1, <3>2, <3>3
    <2> QED BY <2>1, <2>2
<1>7. TypeOK'
    <2>1. objects' \in Objects \cup {NULL} /\ pNext' \in [Objects -> Objects \cup {NULL}]
        BY <1>1, <1>3, <1>5 DEF Sound, TypeOK
    <2> QED BY <1>1, <1>3, <2>1 DEF Sound, TypeOK
<1>8. LockOK'
    BY <1>1, <1>2 DEF Sound, LockOK
<1>9. ListOK' /\ Marked' /\ DelEndsWithTwo'
    BY <1>1, <1>2, <1>6 DEF Sound, ListOK, Marked, DelEndsWithTwo
<1>10. CursorOK'
    <2>1. pObj' \in live' \cup {NULL}
        <3>1. pNext[pObj] # pObj
            BY <1>3, ReachIs, <1>2, ListNow
        <3> QED BY <1>1, <1>3, <3>1
    <2> QED BY <1>1, <1>6, <2>1 DEF CursorOK
<1>11. TimesOK'
    <2>1. \A o \in live' \ Reach(pNext', pObj') : currTime'[o] > 0
        BY <1>1, <1>3, <1>6 DEF Sound, TimesOK
    <2> QED BY <1>1, <1>2, <2>1 DEF TimesOK
<1> QED BY <1>7, <1>8, <1>9, <1>10, <1>11 DEF Sound

\* EndSweep ends the tick: every timer has time left.
LEMMA EndSweepKeeps == ASSUME Sound, IInv', EndSweep PROVE Sound'
<1>1. /\ tpc = "sweep" /\ pObj = NULL /\ tpc' = "sleep" /\ lock' = "none"
      /\ UNCHANGED <<objects, pNext, currTime, presetTime, repeated, live, known, pObj, prevObj, thread,
                     cancelled, mpc, shouldLock, destroyed, use, stuck>>
    BY DEF EndSweep, list, contents, control
<1>2. InTick /\ ~InTick' /\ ~destroyed /\ stuck = {} /\ mpc = "idle"
    BY <1>1, InTickIs DEF InTick
<1>3. TypeOK' /\ LockOK'
    BY <1>1, <1>2 DEF Sound, TypeOK, LockOK
<1>4. ListOK' /\ Marked' /\ DelEndsWithTwo'
    BY <1>1 DEF Sound, ListOK, Marked, DelEndsWithTwo
<1>5. CursorOK'
    BY <1>1 DEF CursorOK
<1>6. TimesOK'
    <2>1. \A o \in live : currTime[o] > 0 /\ currTime[o] \in Int
        <3>1. Reach(pNext, NULL) = {} /\ live \subseteq Objects
            BY <1>2, ListNow
        <3> QED BY <1>1, <3>1 DEF Sound, TimesOK, TypeOK
    <2> QED BY <1>1, <1>2, <2>1 DEF TimesOK
<1> QED BY <1>3, <1>4, <1>5, <1>6 DEF Sound

\* What AddObject does: a new timer at the end of the list, to be counted in the tick under way.
LEMMA AddIs ==
    ASSUME Sound, ~destroyed, NEW locked \in BOOLEAN, AddObject(locked)
    PROVE  \E o \in Objects \ live, n \in 1 .. MaxTimeout, r \in use.repeated :
              /\ live' = live \cup {o} /\ known' = known \cup {o}
              /\ currTime' = [currTime EXCEPT ![o] = n + (IF locked THEN 0 ELSE 1)]
              /\ presetTime' = [presetTime EXCEPT ![o] = n]
              /\ repeated' = [repeated EXCEPT ![o] = r]
              /\ Chain(pNext', objects', live')
              /\ pNext' \in [Objects -> Objects \cup {NULL}] /\ objects' \in Objects
              /\ \A x \in live : Reach(pNext', pNext'[x]) = Reach(pNext, pNext[x]) \cup {o}
<1>1. PICK o \in Objects \ live, m \in 0 .. MaxTimeout, r \in use.repeated :
        /\ live' = live \cup {o} /\ known' = known \cup {o}
        /\ currTime' = [currTime EXCEPT ![o] = FirstTimeout(m, locked)]
        /\ presetTime' = [presetTime EXCEPT ![o] = AtLeastOne(m)]
        /\ repeated' = [repeated EXCEPT ![o] = r]
        /\ LinkLast(o)
    BY DEF AddObject
<1>2. PICK n : n = AtLeastOne(m)
    OBVIOUS
<1>3. n \in 1 .. MaxTimeout
    BY <1>2, TimingAssumption DEF AtLeastOne
<1>4. FirstTimeout(m, locked) = n + (IF locked THEN 0 ELSE 1)
    BY <1>2 DEF FirstTimeout
<1>5. /\ Chain(pNext, objects, live) /\ live \in SUBSET Objects
      /\ \A x \in live : pNext[x] \in live \cup {NULL}
      /\ Reach(pNext, objects) = live /\ Reach(pNext, NULL) = {} /\ NULL \notin live
    BY ListNow
<1>6. Tails = {x \in live : pNext[x] = NULL}
    BY <1>5, FromIs DEF Tails
<1>7. /\ objects' = IF objects = NULL THEN o ELSE objects
      /\ pNext' = Linked(pNext, live, o)
    <2>1. pNext' = [x \in Objects |-> IF x = o THEN NULL ELSE IF x \in Tails THEN o ELSE pNext[x]]
        BY <1>1 DEF LinkLast
    <2>2. \A x \in Objects : x \in Tails <=> x \in live /\ pNext[x] = NULL
        BY <1>6
    <2> QED BY <1>1, <2>1, <2>2 DEF LinkLast, Linked
<1>8. /\ Chain(pNext', objects', live \cup {o})
      /\ \A x \in live : Reach(pNext', x) = Reach(pNext, x) \cup {o}
      /\ Reach(pNext', o) = {o}
    <2>1. PICK nx1, head1 : nx1 = pNext' /\ head1 = objects'
        OBVIOUS
    <2> QED BY <1>5, <1>7, <2>1, ChainLinked
<1>9. pNext' \in [Objects -> Objects \cup {NULL}] /\ objects' \in Objects
    <2>1. \A x \in Objects : pNext[x] \in Objects \cup {NULL}
        BY DEF Sound, TypeOK
    <2> QED BY <1>1, <1>7, <2>1 DEF Linked, Sound, TypeOK
<1>10. ASSUME NEW x \in live PROVE Reach(pNext', pNext'[x]) = Reach(pNext, pNext[x]) \cup {o}
    <2>1. pNext'[x] = IF pNext[x] = NULL THEN o ELSE pNext[x]
        BY <1>5, <1>7 DEF Linked
    <2> QED BY <1>5, <1>8, <2>1
<1> QED BY <1>1, <1>2, <1>3, <1>4, <1>8, <1>9, <1>10

\* AddObject keeps the list, called between ticks or by a callback.
LEMMA AddKeeps ==
    ASSUME Sound, IInv', ~destroyed, stuck = {}, NEW locked \in BOOLEAN, AddObject(locked),
           UNCHANGED <<lock, routine, control, stuck>>, ~InTick \/ tpc = "callback"
    PROVE  Sound'
<1>1. PICK o \in Objects \ live, n \in 1 .. MaxTimeout, r \in use.repeated :
              /\ live' = live \cup {o} /\ known' = known \cup {o}
              /\ currTime' = [currTime EXCEPT ![o] = n + (IF locked THEN 0 ELSE 1)]
              /\ presetTime' = [presetTime EXCEPT ![o] = n]
              /\ repeated' = [repeated EXCEPT ![o] = r]
              /\ Chain(pNext', objects', live')
              /\ pNext' \in [Objects -> Objects \cup {NULL}] /\ objects' \in Objects
              /\ \A x \in live : Reach(pNext', pNext'[x]) = Reach(pNext, pNext[x]) \cup {o}
    BY AddIs
<1>2. UNCHANGED <<lock, tpc, pObj, prevObj, thread, cancelled, mpc, shouldLock, destroyed, use, stuck>>
    BY DEF routine, control
<1>3. /\ n + (IF locked THEN 0 ELSE 1) \in -1 .. (MaxTimeout + 1) /\ n \in 0 .. MaxTimeout
      /\ n + (IF locked THEN 0 ELSE 1) >= 0 /\ n > 0 /\ r \in BOOLEAN
    <2>1. r \in BOOLEAN
        BY TimingAssumption DEF Sound, TypeOK
    <2> QED BY <2>1, TimingAssumption
<1>4. TypeOK'
    <2>1. /\ currTime' \in [Objects -> -1 .. (MaxTimeout + 1)]
          /\ presetTime' \in [Objects -> 0 .. MaxTimeout]
        BY <1>1, <1>3 DEF Sound, TypeOK
    <2>2. repeated' \in [Objects -> BOOLEAN]
        BY <1>1, <1>3 DEF Sound, TypeOK
    <2>3. /\ objects' \in Objects \cup {NULL} /\ pNext' \in [Objects -> Objects \cup {NULL}]
          /\ live' \subseteq Objects /\ known' \subseteq live'
        BY <1>1 DEF Sound, TypeOK
    <2> QED BY <1>2, <2>1, <2>2, <2>3 DEF Sound, TypeOK
<1>5. LockOK'
    BY <1>2 DEF Sound, LockOK, InTick
<1>6. ListOK' /\ DelEndsWithTwo'
    BY <1>1, <1>2 DEF ListOK, DelEndsWithTwo
<1>7. Marked'
    <2>1. \A x \in live' : /\ x # o => x \in live /\ repeated'[x] = repeated[x] /\ presetTime'[x] = presetTime[x]
                           /\ x = o => repeated'[x] = r /\ presetTime'[x] = n
        BY <1>1 DEF Sound, TypeOK
    <2> QED BY <1>1, <1>2, <1>3, <2>1 DEF Sound, Marked
<1>8. CursorOK'
    BY <1>1, <1>2 DEF Sound, CursorOK, InTick
<1>9. TimesOK'
    <2>1. /\ currTime'[o] >= 0
          /\ \A x \in live : currTime'[x] = currTime[x]
        BY <1>1, <1>3 DEF Sound, TypeOK
    <2>2. CASE ~InTick
        BY <1>1, <1>2, <2>1, <2>2 DEF Sound, TimesOK, InTick
    <2>3. CASE tpc = "callback"
        <3>1. /\ pObj \in live /\ Reach(pNext, pNext[pObj]) \subseteq live
            BY <2>3, ListNow DEF Sound, CursorOK
        <3>2. \A x \in Reach(pNext', pNext'[pObj]) : currTime'[x] >= 0
            BY <1>1, <2>1, <2>3, <3>1 DEF Sound, TimesOK
        <3> QED BY <1>2, <2>3, <3>2 DEF TimesOK, InTick
    <2> QED BY <2>2, <2>3
<1> QED BY <1>4, <1>5, <1>6, <1>7, <1>8, <1>9 DEF Sound

\* What _tmObj_RemoveAndDestroy does to a timer it finds: exactly that one leaves the list.
LEMMA RemoveIs ==
    ASSUME Sound, ~destroyed, NEW o \in live, Found(o), _tmObj_RemoveAndDestroy(o)
    PROVE  /\ Chain(pNext', objects', live \ {o}) /\ live' = live \ {o}
           /\ pNext' \in [Objects -> Objects \cup {NULL}] /\ objects' \in Objects \cup {NULL}
           /\ UNCHANGED <<currTime, presetTime, repeated>>
<1>1. /\ objects' = IF objects = o THEN pNext[o] ELSE objects
      /\ pNext' = [x \in Objects |-> IF x = objects /\ pNext[x] = o THEN pNext[o] ELSE pNext[x]]
      /\ live' = live \ {o} /\ UNCHANGED <<currTime, presetTime, repeated>>
    BY DEF _tmObj_RemoveAndDestroy
<1>2. /\ Chain(pNext, objects, live) /\ live \in SUBSET Objects /\ NULL \notin live
      /\ Reach(pNext, objects) = live /\ Reach(pNext, NULL) = {}
      /\ \A x \in live : pNext[x] \in live \cup {NULL} /\ x \notin Reach(pNext, pNext[x])
                         /\ x \in Reach(pNext, x)
                         /\ Reach(pNext, x) = {x} \cup Reach(pNext, pNext[x])
    BY ListNow
<1>3. pNext \in [Objects -> Objects \cup {NULL}] /\ objects \in live
    BY <1>2 DEF Sound, TypeOK, Chain
<1>4. pNext' \in [Objects -> Objects \cup {NULL}] /\ objects' \in Objects \cup {NULL}
    BY <1>1, <1>2, <1>3
<1>5. CASE objects = o
    <2>1. pNext[o] # o
        BY <1>2
    <2>2. pNext' = pNext
        BY <1>1, <1>3, <1>5, <2>1
    <2> QED BY <1>1, <1>2, <1>4, <1>5, <2>2, ChainBehead
<1>6. CASE objects # o
    <2>1. pNext[objects] = o
        <3>1. Reach(pNext, objects) = {objects} \cup Reach(pNext, pNext[objects])
            BY <1>2, <1>3
        <3>2. pNext[objects] # NULL
            BY <1>2, <1>6, <3>1
        <3> QED BY <1>6, <3>2 DEF Found
    <2>2. pNext' = Unlinked(pNext, objects)
        BY <1>1, <1>2, <1>3, <2>1 DEF Unlinked
    <2>3. Chain(pNext', objects, live \ {o})
        <3>1. PICK p, nx1 : p = objects /\ nx1 = pNext'
            OBVIOUS
        <3>2. p \in live /\ o = pNext[p] /\ o # NULL /\ nx1 = Unlinked(pNext, p)
            BY <1>2, <1>3, <2>1, <2>2, <3>1
        <3>3. Chain(nx1, objects, live \ {o})
            BY <1>2, <1>3, <3>2, ChainUnlink
        <3> QED BY <3>1, <3>3
    <2> QED BY <1>1, <1>4, <1>6, <2>3
<1> QED BY <1>5, <1>6

\* Three timers are more than two.
LEMMA MoreThanTwo ==
    ASSUME NEW S, IsFiniteSet(S), NEW a \in S, NEW b \in S, NEW c \in S, a # b, a # c, b # c
    PROVE  Cardinality(S) > 2
<1>1. IsFiniteSet({a}) /\ Cardinality({a}) = 1
    BY FS_Singleton
<1>2. IsFiniteSet({a} \cup {b}) /\ Cardinality({a} \cup {b}) = 2
    <2>1. b \notin {a}
        OBVIOUS
    <2> QED BY <1>1, <2>1, FS_AddElement
<1>3. IsFiniteSet(({a} \cup {b}) \cup {c}) /\ Cardinality(({a} \cup {b}) \cup {c}) = 3
    <2>1. c \notin {a} \cup {b}
        OBVIOUS
    <2> QED BY <1>2, <2>1, FS_AddElement
<1>4. Cardinality(({a} \cup {b}) \cup {c}) <= Cardinality(S)
    BY FS_Subset
<1>5. Cardinality(S) \in Nat
    BY FS_CardinalityType
<1> QED BY <1>3, <1>4, <1>5

\* DelObject between ticks unlinks the timer, or does not come back and keeps the lock.
LEMMA MainDelKeeps ==
    ASSUME CarefulUses, Sound, IInv', MayCall, DelObject("main", lock = "none"),
           lock' = IF "main" \in stuck' /\ lock = "none" THEN "main" ELSE lock,
           UNCHANGED <<routine, control>>
    PROVE  Sound'
<1>1. /\ ~InTick /\ ~destroyed /\ stuck = {} /\ lock = "none" /\ mpc = "idle"
      /\ tpc \in {"sleep", "dead"}
    BY MayCallIs
<1>2. PICK o \in known :
        /\ known' = known \ {o}
        /\ IF Found(o)
           THEN _tmObj_RemoveAndDestroy(o) /\ UNCHANGED stuck
           ELSE stuck' = stuck \cup {"main"} /\ UNCHANGED <<objects, contents, live>>
    BY <1>1 DEF DelObject
<1>3. UNCHANGED <<tpc, pObj, prevObj, thread, cancelled, mpc, shouldLock, destroyed, use>>
    BY DEF routine, control
<1>4. o \in live /\ known \subseteq live
    BY DEF Sound, TypeOK
<1>5. ~InTick'
    BY <1>1, <1>3 DEF InTick
<1>6. CASE Found(o)
    <2>1. /\ Chain(pNext', objects', live \ {o}) /\ live' = live \ {o}
          /\ pNext' \in [Objects -> Objects \cup {NULL}] /\ objects' \in Objects \cup {NULL}
          /\ UNCHANGED <<currTime, presetTime, repeated>> /\ stuck' = {} /\ lock' = "none"
        BY <1>1, <1>2, <1>4, <1>6, RemoveIs
    <2>2. TypeOK'
        BY <1>2, <1>3, <1>4, <2>1 DEF Sound, TypeOK
    <2>3. LockOK'
        BY <1>1, <1>3, <1>5, <2>1 DEF LockOK
    <2>4. ListOK' /\ DelEndsWithTwo'
        BY <2>1 DEF ListOK, DelEndsWithTwo
    <2>5. Marked'
        BY <1>3, <2>1 DEF Sound, Marked
    <2>6. CursorOK' /\ TimesOK'
        BY <1>1, <1>3, <1>5, <2>1 DEF Sound, CursorOK, TimesOK
    <2> QED BY <2>2, <2>3, <2>4, <2>5, <2>6 DEF Sound
<1>7. CASE ~Found(o)
    <2>1. /\ stuck' = {"main"} /\ lock' = "main"
          /\ UNCHANGED <<objects, pNext, currTime, presetTime, repeated, live>>
        BY <1>1, <1>2, <1>7 DEF contents
    <2>2. TypeOK'
        BY <1>2, <1>3, <1>4, <2>1 DEF Sound, TypeOK
    <2>3. LockOK'
        BY <1>1, <1>3, <1>5, <2>1 DEF LockOK
    <2>4. ListOK' /\ Marked'
        BY <1>3, <2>1 DEF Sound, ListOK, Marked
    <2>5. CursorOK' /\ TimesOK'
        BY <1>1, <1>3, <1>5, <2>1 DEF Sound, CursorOK, TimesOK
    <2>6. Cardinality(live) > 2
        <3>1. /\ objects \in live \cup {NULL} /\ Reach(pNext, objects) = live /\ Reach(pNext, NULL) = {}
              /\ \A x \in live : /\ pNext[x] \in live \cup {NULL} /\ x \notin Reach(pNext, pNext[x])
                                 /\ x \in Reach(pNext, x)
            BY <1>1, ListNow DEF Chain
        <3>2. objects \in live /\ objects # o
            BY <1>4, <1>7, <3>1 DEF Found
        <3>3. pNext[objects] \in live /\ pNext[objects] # o /\ pNext[objects] # objects
            BY <1>7, <3>1, <3>2 DEF Found
        <3>4. IsFiniteSet(live)
            BY TimingAssumption, FS_Subset DEF Sound, TypeOK
        <3> QED BY <1>4, <3>2, <3>3, <3>4, MoreThanTwo
    <2>7. DelEndsWithTwo'
        BY <2>1, <2>6 DEF DelEndsWithTwo
    <2> QED BY <2>2, <2>3, <2>4, <2>5, <2>7 DEF Sound
<1> QED BY <1>6, <1>7

\* A callback's DelObject marks the timer, which is one-shot anyhow.
LEMMA CallbackDelKeeps ==
    ASSUME CarefulUses, Sound, IInv', tpc = "callback", "del" \in use.routine,
           DelObject("routine", FALSE), UNCHANGED <<lock, routine, control>>
    PROVE  Sound'
<1>1. ~use.second /\ use.repeated \subseteq {FALSE}
    BY DEF CarefulUses, Careful, Sound, TypeOK
<1>2. PICK o \in known :
        /\ known' = known \ {o} /\ repeated' = [repeated EXCEPT ![o] = FALSE]
        /\ UNCHANGED <<objects, pNext, currTime, presetTime, live, stuck>>
    BY <1>1 DEF DelObject
<1>3. UNCHANGED <<tpc, pObj, prevObj, thread, cancelled, mpc, shouldLock, destroyed, use>>
    BY DEF routine, control
<1>4. repeated' = repeated
    <2>1. o \in live /\ repeated \in [Objects -> BOOLEAN] /\ repeated[o] \in use.repeated
        BY DEF Sound, TypeOK, Marked
    <2> QED BY <1>1, <1>2, <2>1
<1>5. TypeOK' /\ LockOK'
    BY <1>2, <1>3, <1>4 DEF Sound, TypeOK, LockOK, InTick
<1>6. ListOK' /\ Marked' /\ DelEndsWithTwo'
    BY <1>2, <1>3, <1>4 DEF Sound, ListOK, Marked, DelEndsWithTwo
<1>7. CursorOK' /\ TimesOK'
    BY <1>2, <1>3, <1>4 DEF Sound, CursorOK, TimesOK, InTick
<1> QED BY <1>5, <1>6, <1>7 DEF Sound

\* A new period, and a call to fire at once, leave the list as it is.
LEMMA SetTimeKeeps ==
    ASSUME Sound, IInv', ~destroyed, stuck = {}, ResetTimeout \/ TriggerObject,
           UNCHANGED <<lock, routine, control, stuck>>, ~InTick \/ tpc = "callback"
    PROVE  Sound'
<1>1. /\ UNCHANGED <<lock, tpc, pObj, prevObj, thread, cancelled, mpc, shouldLock, destroyed, use,
                     stuck, objects, pNext, repeated, live, known>>
    BY DEF routine, control, ResetTimeout, TriggerObject
<1>2. /\ presetTime' \in [Objects -> 0 .. MaxTimeout]
      /\ \A x \in live : presetTime'[x] > 0
    <2>1. CASE ResetTimeout
        <3>1. PICK o \in known, m \in 0 .. MaxTimeout :
                presetTime' = [presetTime EXCEPT ![o] = AtLeastOne(m)]
            BY <2>1 DEF ResetTimeout
        <3>2. PICK n : n = AtLeastOne(m)
            OBVIOUS
        <3>3. n \in 0 .. MaxTimeout /\ n > 0
            BY <3>2, TimingAssumption DEF AtLeastOne
        <3>4. presetTime' = [presetTime EXCEPT ![o] = n]
            BY <3>1, <3>2
        <3> QED BY <3>3, <3>4 DEF Sound, TypeOK, Marked
    <2>2. CASE TriggerObject
        BY <2>2 DEF TriggerObject, Sound, TypeOK, Marked
    <2> QED BY <2>1, <2>2
<1>3. /\ currTime' \in [Objects -> -1 .. (MaxTimeout + 1)]
      /\ \A x \in live : currTime'[x] = currTime[x] \/ currTime'[x] = 0
    <2>1. CASE ResetTimeout
        BY <2>1 DEF ResetTimeout, Sound, TypeOK
    <2>2. CASE TriggerObject
        <3>1. PICK o \in known : currTime' = [currTime EXCEPT ![o] = 0]
            BY <2>2 DEF TriggerObject
        <3>2. 0 \in -1 .. (MaxTimeout + 1)
            BY TimingAssumption
        <3> QED BY <3>1, <3>2 DEF Sound, TypeOK
    <2> QED BY <2>1, <2>2
<1>4. TypeOK'
    BY <1>1, <1>2, <1>3 DEF Sound, TypeOK
<1>5. LockOK' /\ ListOK' /\ DelEndsWithTwo'
    BY <1>1 DEF Sound, LockOK, ListOK, DelEndsWithTwo, InTick
<1>6. Marked'
    BY <1>1, <1>2 DEF Sound, Marked
<1>7. CursorOK'
    BY <1>1 DEF Sound, CursorOK, InTick
<1>8. TimesOK'
    <2>1. CASE ~InTick
        BY <1>1, <1>3, <2>1 DEF Sound, TimesOK, InTick
    <2>2. CASE tpc = "callback"
        <3>1. Reach(pNext, pNext[pObj]) \subseteq live
            BY <2>2, ListNow DEF Sound, CursorOK
        <3>2. \A x \in Reach(pNext', pNext'[pObj]) : currTime'[x] >= 0
            BY <1>1, <1>3, <2>2, <3>1 DEF Sound, TimesOK
        <3> QED BY <1>1, <2>2, <3>2 DEF TimesOK, InTick
    <2> QED BY <2>1, <2>2
<1> QED BY <1>4, <1>5, <1>6, <1>7, <1>8 DEF Sound

\* The calls of the program.
LEMMA MainTimerCallKeeps == ASSUME CarefulUses, Sound, IInv', MainTimerCall PROVE Sound'
<1>1. /\ ~InTick /\ ~destroyed /\ stuck = {} /\ lock = "none"
    BY MayCallIs DEF MainTimerCall
<1>2. /\ TimerCall("main", use.main, TRUE) /\ UNCHANGED <<routine, control>>
      /\ lock' = IF "main" \in stuck' /\ lock = "none" THEN "main" ELSE lock
    BY <1>1 DEF MainTimerCall
<1>3. CASE AddObject(TRUE) /\ UNCHANGED stuck
    <2>1. lock' = lock
        BY <1>1, <1>2, <1>3
    <2> QED BY <1>1, <1>2, <1>3, <2>1, AddKeeps
<1>4. CASE DelObject("main", TRUE)
    BY <1>1, <1>2, <1>4, MainDelKeeps DEF MainTimerCall
<1>5. CASE (ResetTimeout \/ TriggerObject) /\ UNCHANGED stuck
    <2>1. lock' = lock
        BY <1>1, <1>2, <1>5
    <2> QED BY <1>1, <1>2, <1>5, <2>1, SetTimeKeeps
<1> QED BY <1>2, <1>3, <1>4, <1>5 DEF TimerCall

\* The calls of a callback.
LEMMA CallbackTimerCallKeeps == ASSUME CarefulUses, Sound, IInv', CallbackTimerCall PROVE Sound'
<1>1. /\ tpc = "callback" /\ TimerCall("routine", use.routine, FALSE)
      /\ UNCHANGED <<lock, routine, control>>
    BY DEF CallbackTimerCall
<1>2. ~destroyed /\ stuck = {}
    BY <1>1, InTickIs DEF InTick
<1>3. CASE AddObject(FALSE) /\ UNCHANGED stuck
    BY <1>1, <1>2, <1>3, AddKeeps
<1>4. CASE "del" \in use.routine /\ DelObject("routine", FALSE)
    BY <1>1, <1>4, CallbackDelKeeps
<1>5. CASE (ResetTimeout \/ TriggerObject) /\ UNCHANGED stuck
    BY <1>1, <1>2, <1>5, SetTimeKeeps
<1> QED BY <1>1, <1>3, <1>4, <1>5 DEF TimerCall

\* Destroy gives the list back when the thread has ended.
LEMMA DestroyJoinedKeeps == ASSUME Sound, IInv', DestroyJoined PROVE Sound'
<1>1. /\ mpc = "destroy" /\ thread' = FALSE /\ mpc' = "idle" /\ lock' = "none" /\ destroyed'
      /\ live' = {} /\ known' = {}
      /\ UNCHANGED <<objects, pNext, currTime, presetTime, repeated, tpc, pObj, prevObj, cancelled,
                     shouldLock, use, stuck>>
    BY DEF DestroyJoined, contents, routine
<1>2. tpc' = "dead" /\ stuck' = {} /\ destroyed' \in BOOLEAN
    BY <1>1 DEF Sound, IInv, DestroyedIsQuiet, LockOK, DestroyJoined
<1>3. TypeOK'
    BY <1>1, <1>2 DEF Sound, TypeOK
<1>4. LockOK'
    BY <1>1, <1>2 DEF LockOK, InTick
<1>5. ListOK' /\ Marked' /\ DelEndsWithTwo' /\ CursorOK' /\ TimesOK'
    BY <1>1, <1>2 DEF ListOK, Marked, DelEndsWithTwo, CursorOK, TimesOK, InTick
<1> QED BY <1>3, <1>4, <1>5 DEF Sound

\* The invariant holds from the start.
LEMMA InitSound == Init => Sound
<1> SUFFICES ASSUME Init PROVE Sound
    OBVIOUS
<1>1. TypeOK
    <2>1. 0 \in -1 .. (MaxTimeout + 1) /\ 0 \in 0 .. MaxTimeout
        BY TimingAssumption
    <2> QED BY <2>1 DEF Init, TypeOK
<1>2. IInv /\ LockOK /\ Marked /\ CursorOK /\ TimesOK /\ DelEndsWithTwo
    BY DEF Init, IInv, RoutineJoined, DestroyedIsQuiet, LockOK, Marked, CursorOK, TimesOK, DelEndsWithTwo,
       InTick
<1>3. ListOK
    BY DEF Init, ListOK, Chain
<1> QED BY <1>1, <1>2, <1>3 DEF Sound

\* Every step keeps the invariant.
LEMMA NextSound == ASSUME CarefulUses PROVE Sound /\ IInv' /\ [Next]_vars => Sound'
<1> SUFFICES ASSUME Sound, IInv', [Next]_vars PROVE Sound'
    OBVIOUS
<1>1. CASE UNCHANGED vars
    <2>1. UNCHANGED <<list, objects, pNext, currTime, presetTime, repeated, live, known, lock, tpc, pObj, prevObj,
                      thread, cancelled, mpc, shouldLock, destroyed, use, stuck>>
        BY <1>1 DEF vars, list, contents, routine, control
    <2>2. TypeOK' /\ LockOK'
        BY <2>1 DEF Sound, TypeOK, LockOK, InTick
    <2> QED BY <2>1, <2>2, ListStays
<1>2. CASE RoutineStep
    BY <1>2, ThreadKeeps, LockRoutineKeeps, CountDownKeeps, CallbackReturnsKeeps, BeginSweepKeeps,
       SweepKeepKeeps, SweepRepeatKeeps, SweepRemoveKeeps, EndSweepKeeps DEF RoutineStep
<1>3. CASE CallbackTimerCall
    BY <1>3, CallbackTimerCallKeeps
<1>4. CASE CallbackStop \/ Start \/ Stop \/ StopJoined \/ Destroy
    BY <1>4, ThreadKeeps
<1>5. CASE MainTimerCall
    BY <1>5, MainTimerCallKeeps
<1>6. CASE DestroyJoined
    BY <1>6, DestroyJoinedKeeps
<1> QED BY <1>1, <1>2, <1>3, <1>4, <1>5, <1>6 DEF Next

\* The invariant holds for every program that keeps to the rules.
THEOREM SoundInv == ASSUME CarefulUses PROVE Spec => []Sound
<1>1. Sound /\ IInv' /\ [Next]_vars => Sound'
    BY NextSound
<1> QED BY <1>1, InitSound, Invariance, PTL DEF Spec

\* Every variable has its type; no timer is counted down further than one below zero.
THEOREM TypeCorrect == ASSUME CarefulUses PROVE Spec => []TypeOK
<1>1. Sound => TypeOK
    BY DEF Sound
<1> QED BY <1>1, SoundInv, PTL

\* DelObject comes back while there are no more than two timers.
THEOREM DelReturns == ASSUME CarefulUses PROVE Spec => []DelEndsWithTwo
<1>1. Sound => DelEndsWithTwo
    BY DEF Sound
<1> QED BY <1>1, SoundInv, PTL

\* The list holds the timers that exist, all of them and nothing else, and the routine stands
\* on one of them.
THEOREM ListHolds == ASSUME CarefulUses PROVE Spec => []ListIntact
<1>1. ASSUME Sound PROVE ListIntact
    <2> SUFFICES ASSUME ~destroyed
                 PROVE  /\ From(objects) = live /\ Cardinality(Tails) <= 1
                        /\ From(pObj) \subseteq live \/ tpc \notin {"fire", "callback", "sweep"}
        BY DEF ListIntact
    <2> USE <1>1
    <2>0. /\ Chain(pNext, objects, live) /\ Reach(pNext, objects) = live /\ Reach(pNext, NULL) = {}
          /\ \A x \in live : Reach(pNext, x) \subseteq live
        BY ListNow
    <2>1. From(objects) = live
        BY <2>0, FromIs
    <2>2. Cardinality(Tails) <= 1
        <3>1. \A x, y \in Tails : x = y
            BY <2>0, <2>1 DEF Tails, Chain
        <3>2. CASE Tails = {}
            BY <3>2, FS_EmptySet
        <3>3. CASE Tails # {}
            <4>1. PICK t \in Tails : TRUE
                BY <3>3
            <4>2. Tails = {t}
                BY <3>1, <4>1
            <4>3. Cardinality({t}) = 1
                BY FS_Singleton
            <4> QED BY <4>2, <4>3
        <3> QED BY <3>2, <3>3
    <2>3. From(pObj) \subseteq live \/ tpc \notin {"fire", "callback", "sweep"}
        <3>1. From(pObj) = Reach(pNext, pObj)
            BY FromIs
        <3> QED BY <2>0, <3>1 DEF Sound, CursorOK
    <2> QED BY <2>1, <2>2, <2>3
<1>2. Sound => ListIntact
    BY <1>1
<1> QED BY <1>2, SoundInv, PTL

-----------------------------------------------------------------------------
(* What a program sees of the timers                                        *)

\* The abstract state of TimerService.
ALeft == [o \in Objects |-> TicksLeft(o)]
APeriod == [o \in Objects |-> IF o \in live THEN presetTime[o] ELSE 0]
ARepeating == [o \in Objects |-> o \in live /\ repeated[o]]
AFired == IF InTick THEN {o \in live \ ToVisit : currTime[o] <= 0} ELSE {}

\* What is left of a timer's time, from whether a tick is served and still to count it.
Remaining(inTick, ahead, time) ==
    IF ~inTick THEN AtLeastOne(time)
    ELSE IF ahead THEN AtLeastOne(time) - 1 ELSE IF time > 0 THEN time ELSE 0

\* The flags of the abstract state are flags.
LEMMA RepeatingIs ==
    ASSUME NEW x \in Objects
    PROVE  ARepeating[x] \in BOOLEAN /\ ARepeating'[x] \in BOOLEAN
<1>1. ARepeating[x] = (x \in live /\ repeated[x]) /\ ARepeating'[x] = (x \in live' /\ repeated'[x])
    BY DEF ARepeating
<1>2. (x \in live /\ repeated[x]) \in BOOLEAN /\ (x \in live' /\ repeated'[x]) \in BOOLEAN
    OBVIOUS
<1> QED BY <1>1, <1>2

\* The abstract state of one timer.
LEMMA ViewIs ==
    ASSUME live \subseteq Objects
    PROVE  /\ \A x \in live : /\ ALeft[x] = Remaining(InTick, x \in ToVisit, currTime[x])
                              /\ APeriod[x] = presetTime[x] /\ (ARepeating[x] <=> repeated[x])
           /\ \A x : x \in AFired <=> InTick /\ x \in live /\ x \notin ToVisit /\ currTime[x] <= 0
<1>1. ASSUME NEW x \in live PROVE ALeft[x] = Remaining(InTick, x \in ToVisit, currTime[x])
    <2>1. ALeft[x] = TicksLeft(x)
        BY DEF ALeft
    <2> QED BY <2>1 DEF TicksLeft, Remaining
<1>2. ASSUME NEW x \in live PROVE APeriod[x] = presetTime[x] /\ (ARepeating[x] <=> repeated[x])
    BY DEF APeriod, ARepeating
<1>3. \A x : x \in AFired <=> InTick /\ x \in live /\ x \notin ToVisit /\ currTime[x] <= 0
    BY DEF AFired
<1> QED BY <1>1, <1>2, <1>3

\* The same in the next state.
LEMMA ViewNext ==
    ASSUME live' \subseteq Objects
    PROVE  /\ \A x \in live' : /\ ALeft'[x] = Remaining(InTick', x \in ToVisit', currTime'[x])
                               /\ APeriod'[x] = presetTime'[x] /\ (ARepeating'[x] <=> repeated'[x])
           /\ \A x : x \in AFired' <=> InTick' /\ x \in live' /\ x \notin ToVisit' /\ currTime'[x] <= 0
<1>1. ASSUME NEW x \in live' PROVE ALeft'[x] = Remaining(InTick', x \in ToVisit', currTime'[x])
    <2>1. ALeft'[x] = TicksLeft(x)'
        BY DEF ALeft
    <2> QED BY <2>1 DEF TicksLeft, Remaining
<1>2. ASSUME NEW x \in live' PROVE APeriod'[x] = presetTime'[x] /\ (ARepeating'[x] <=> repeated'[x])
    BY DEF APeriod, ARepeating
<1>3. \A x : x \in AFired' <=> InTick' /\ x \in live' /\ x \notin ToVisit' /\ currTime'[x] <= 0
    BY DEF AFired
<1> QED BY <1>1, <1>2, <1>3

\* The timers still to be counted in this tick, along the list.
LEMMA ToVisitIs ==
    /\ ToVisit = IF tpc = "fire" THEN Reach(pNext, pObj)
                 ELSE IF tpc = "callback" THEN Reach(pNext, pNext[pObj]) ELSE {}
    /\ ToVisit' = IF tpc' = "fire" THEN Reach(pNext', pObj')
                  ELSE IF tpc' = "callback" THEN Reach(pNext', pNext'[pObj']) ELSE {}
<1>1. \A o : From(o) = Reach(pNext, o)
    BY FromIs
<1>2. ToVisit' = IF tpc' = "fire" THEN Reach(pNext', pObj')
                 ELSE IF tpc' = "callback" THEN Reach(pNext', pNext'[pObj']) ELSE {}
    BY DEF ToVisit, From, Closed, Reach, ClosedIn
<1> QED BY <1>1, <1>2 DEF ToVisit

\* A timer a step does not touch looks the same.
LEMMA Untouched ==
    ASSUME live \subseteq Objects, live' \subseteq Objects, InTick' <=> InTick,
           NEW x \in live, x \in live', currTime'[x] = currTime[x], presetTime'[x] = presetTime[x],
           repeated'[x] = repeated[x], x \in ToVisit' <=> x \in ToVisit
    PROVE  /\ ALeft'[x] = ALeft[x] /\ APeriod'[x] = APeriod[x] /\ ARepeating'[x] = ARepeating[x]
           /\ x \in AFired' <=> x \in AFired
<1>1. Remaining(InTick', x \in ToVisit', currTime'[x]) = Remaining(InTick, x \in ToVisit, currTime[x])
    BY DEF Remaining
<1>2. ARepeating'[x] <=> ARepeating[x]
    BY ViewIs, ViewNext
<1>3. ARepeating'[x] = ARepeating[x]
    BY <1>2, RepeatingIs
<1> QED BY <1>1, <1>3, ViewIs, ViewNext

\* The abstract state is the one TimerService is instantiated with.
LEMMA VarsAre == Promise!vars = <<live, ALeft, APeriod, ARepeating, InTick, AFired>>
BY DEF Promise!vars, ALeft, APeriod, ARepeating, AFired

\* A step that changes nothing a program sees of any timer.
LEMMA Stutters ==
    ASSUME live \subseteq Objects, live' = live, InTick' <=> InTick,
           \A x \in live : /\ ALeft'[x] = ALeft[x] /\ APeriod'[x] = APeriod[x]
                           /\ (ARepeating'[x] <=> ARepeating[x])
                           /\ x \in AFired' <=> x \in AFired
    PROVE  UNCHANGED Promise!vars
<1>1. ALeft' = ALeft
    <2>1. \A x \in Objects \ live : ALeft[x] = 0 /\ ALeft'[x] = 0
        BY DEF ALeft, TicksLeft
    <2>2. \A x \in Objects : ALeft'[x] = ALeft[x]
        BY <2>1
    <2>3. ALeft = [x \in Objects |-> ALeft[x]] /\ ALeft' = [x \in Objects |-> ALeft'[x]]
        BY DEF ALeft
    <2> QED BY <2>2, <2>3
<1>2. APeriod' = APeriod
    <2>1. \A x \in Objects \ live : APeriod[x] = 0 /\ APeriod'[x] = 0
        BY DEF APeriod
    <2>2. \A x \in Objects : APeriod'[x] = APeriod[x]
        BY <2>1
    <2>3. APeriod = [x \in Objects |-> APeriod[x]] /\ APeriod' = [x \in Objects |-> APeriod'[x]]
        BY DEF APeriod
    <2> QED BY <2>2, <2>3
<1>3. ARepeating' = ARepeating
    <2>1. \A x \in Objects : /\ ARepeating[x] = (x \in live /\ repeated[x])
                             /\ ARepeating'[x] = (x \in live' /\ repeated'[x])
        BY DEF ARepeating
    <2>2. \A x \in live : repeated'[x] <=> repeated[x]
        BY <2>1
    <2>3. \A x \in Objects : (x \in live' /\ repeated'[x]) = (x \in live /\ repeated[x])
        BY <2>2
    <2> QED BY <2>3 DEF ARepeating
<1>4. AFired' = AFired
    BY ViewIs, ViewNext
<1>5. InTick' = InTick
    BY DEF InTick
<1>6. <<live, ALeft, APeriod, ARepeating, InTick, AFired>>'
        = <<live, ALeft, APeriod, ARepeating, InTick, AFired>>
    BY <1>1, <1>2, <1>3, <1>4, <1>5
<1>7. Promise!vars' = <<live, ALeft, APeriod, ARepeating, InTick, AFired>>'
    BY DEF Promise!vars, ALeft, APeriod, ARepeating, AFired
<1> QED BY <1>6, <1>7, VarsAre

\* Steps between ticks and waits for locks, and steps over timers that are not due.
LEMMA QuietSteps ==
    ASSUME Sound, UNCHANGED <<live, currTime, presetTime, repeated>>, InTick' <=> InTick,
           ToVisit' = ToVisit
    PROVE  UNCHANGED Promise!vars
<1>1. live \subseteq Objects /\ live' \subseteq Objects
    BY DEF Sound, TypeOK
<1>2. ASSUME NEW x \in live
      PROVE  /\ ALeft'[x] = ALeft[x] /\ APeriod'[x] = APeriod[x] /\ (ARepeating'[x] <=> ARepeating[x])
             /\ x \in AFired' <=> x \in AFired
    BY <1>1, <1>2, Untouched
<1> QED BY <1>1, <1>2, Stutters

\* LockRoutine begins a tick, with all timers still to count.
LEMMA LockRoutineTicks == ASSUME Sound, IInv', LockRoutine PROVE Promise!BeginTick
<1>1. /\ tpc = "wake" /\ tpc' = "fire" /\ pObj' = objects
      /\ UNCHANGED <<objects, pNext, currTime, presetTime, repeated, live, destroyed>>
    BY DEF LockRoutine, list, contents, control
<1>2. ~InTick /\ InTick' /\ ~destroyed /\ live \subseteq Objects /\ live' \subseteq Objects
    BY <1>1 DEF InTick, Sound, IInv, DestroyedIsQuiet, TypeOK
<1>3. ToVisit' = live
    BY <1>1, <1>2, ListNow, ToVisitIs
<1>4. \A x \in live : /\ ALeft[x] = AtLeastOne(currTime[x]) /\ ALeft'[x] = AtLeastOne(currTime[x]) - 1
                      /\ APeriod'[x] = APeriod[x] /\ (ARepeating'[x] <=> ARepeating[x])
    BY <1>1, <1>2, <1>3, ViewIs, ViewNext DEF Remaining
<1>5. AFired = {} /\ AFired' = {}
    BY <1>1, <1>2, <1>3, ViewIs, ViewNext
<1>6. \A x \in live : ALeft'[x] = ALeft[x] - 1
    BY <1>4
<1>7. \A x \in live : ARepeating'[x] = ARepeating[x]
    BY <1>2, <1>4, RepeatingIs
<1>8. InTick' = TRUE
    BY <1>2 DEF InTick
<1> QED BY <1>1, <1>2, <1>4, <1>5, <1>6, <1>7, <1>8
        DEF Promise!BeginTick, Promise!Kept, ALeft, APeriod, ARepeating, AFired

\* CountDown fires the timer when its time is over, and else nothing shows.
LEMMA CountDownTicks ==
    ASSUME Sound, IInv', CountDown
    PROVE  (\E o \in Objects : Promise!Fire(o)) \/ UNCHANGED Promise!vars
<1>1. /\ tpc = "fire" /\ pObj # NULL /\ currTime' = [currTime EXCEPT ![pObj] = @ - 1]
      /\ IF currTime[pObj] <= 1 THEN tpc' = "callback" /\ pObj' = pObj
         ELSE tpc' = "fire" /\ pObj' = pNext[pObj]
      /\ UNCHANGED <<objects, pNext, presetTime, repeated, live>>
    BY DEF CountDown
<1>2. /\ InTick /\ InTick' /\ ~destroyed /\ pObj \in live /\ live \subseteq Objects
      /\ live' \subseteq Objects
    BY <1>1, InTickIs DEF InTick, Sound, CursorOK, TypeOK
<1>3. /\ Reach(pNext, pObj) = {pObj} \cup Reach(pNext, pNext[pObj])
      /\ pObj \notin Reach(pNext, pNext[pObj])
    BY <1>2, ListNow
<1>4. ToVisit = {pObj} \cup Reach(pNext, pNext[pObj]) /\ ToVisit' = Reach(pNext, pNext[pObj])
    BY <1>1, <1>3, ToVisitIs
<1>5. ASSUME NEW x \in live, x # pObj
      PROVE  /\ ALeft'[x] = ALeft[x] /\ APeriod'[x] = APeriod[x] /\ ARepeating'[x] = ARepeating[x]
             /\ x \in AFired' <=> x \in AFired
    <2>1. currTime'[x] = currTime[x] /\ (x \in ToVisit' <=> x \in ToVisit)
        BY <1>1, <1>2, <1>4, <1>5 DEF Sound, TypeOK
    <2> QED BY <1>1, <1>2, <2>1, Untouched
<1>6. currTime'[pObj] = currTime[pObj] - 1 /\ currTime[pObj] \in Int
    BY <1>1, <1>2 DEF Sound, TypeOK
<1>7. /\ ALeft[pObj] = AtLeastOne(currTime[pObj]) - 1 /\ pObj \notin AFired
      /\ ALeft'[pObj] = IF currTime'[pObj] > 0 THEN currTime'[pObj] ELSE 0
      /\ pObj \in AFired' <=> currTime'[pObj] <= 0
      /\ APeriod'[pObj] = APeriod[pObj] /\ (ARepeating'[pObj] <=> ARepeating[pObj])
    BY <1>1, <1>2, <1>3, <1>4, ViewIs, ViewNext DEF Remaining
<1>8. ALeft'[pObj] = ALeft[pObj] /\ ARepeating'[pObj] = ARepeating[pObj]
    <2>1. ALeft'[pObj] = ALeft[pObj]
        BY <1>6, <1>7 DEF AtLeastOne
    <2> QED BY <1>2, <1>7, <2>1, RepeatingIs
<1>9. CASE currTime[pObj] <= 1
    <2>1. pObj \in AFired' /\ ALeft[pObj] = 0
        BY <1>6, <1>7, <1>9 DEF AtLeastOne
    <2>2. AFired \subseteq live /\ AFired' \subseteq live'
        BY DEF AFired
    <2>3. AFired' = AFired \cup {pObj}
        BY <1>1, <1>5, <2>1, <2>2
    <2>4. \A x \in live : /\ ALeft'[x] = ALeft[x] /\ APeriod'[x] = APeriod[x]
                          /\ ARepeating'[x] = ARepeating[x]
        BY <1>5, <1>7, <1>8
    <2>5. InTick' = InTick
        BY <1>2 DEF InTick
    <2>6. PICK o \in Objects : o = pObj
        BY <1>2
    <2>7. Promise!Fire(o)
        BY <1>1, <1>2, <1>7, <2>1, <2>3, <2>4, <2>5, <2>6
           DEF Promise!Fire, Promise!Kept, ALeft, APeriod, ARepeating, AFired
    <2> QED BY <2>7
<1>10. CASE currTime[pObj] > 1
    <2>1. pObj \notin AFired'
        BY <1>6, <1>7, <1>10
    <2>2. \A x \in live : /\ ALeft'[x] = ALeft[x] /\ APeriod'[x] = APeriod[x]
                          /\ (ARepeating'[x] <=> ARepeating[x]) /\ (x \in AFired' <=> x \in AFired)
        BY <1>5, <1>7, <1>8, <2>1
    <2> QED BY <1>1, <1>2, <2>2, Stutters
<1> QED BY <1>6, <1>9, <1>10

\* The sweep settles a timer that has fired: it starts again, or is gone.
LEMMA SweepTicks ==
    ASSUME CarefulUses, Sound, IInv', SweepRepeat \/ SweepRemove
    PROVE  \E o \in Objects : Promise!Settle(o)
<1>1. /\ tpc = "sweep" /\ tpc' = "sweep" /\ pObj # NULL /\ currTime[pObj] <= 0
      /\ UNCHANGED <<presetTime, repeated, destroyed>>
      /\ IF repeated[pObj]
         THEN live' = live /\ currTime' = [currTime EXCEPT ![pObj] = presetTime[pObj]]
         ELSE live' = live \ {pObj} /\ currTime' = currTime
    BY DEF SweepRepeat, SweepRemove, control
<1>2. /\ InTick /\ InTick' /\ ~destroyed /\ pObj \in live /\ live \subseteq Objects
      /\ live' \subseteq Objects
    BY <1>1, InTickIs DEF InTick, Sound, CursorOK, TypeOK
<1>3. ToVisit = {} /\ ToVisit' = {}
    BY <1>1, ToVisitIs
<1>4. ASSUME NEW x \in live, x # pObj
      PROVE  /\ ALeft'[x] = ALeft[x] /\ APeriod'[x] = APeriod[x] /\ ARepeating'[x] = ARepeating[x]
             /\ x \in AFired' <=> x \in AFired
    <2>1. currTime'[x] = currTime[x] /\ x \in live'
        BY <1>1, <1>2, <1>4 DEF Sound, TypeOK
    <2> QED BY <1>1, <1>2, <1>3, <2>1, Untouched
<1>5. pObj \in AFired /\ (ARepeating[pObj] <=> repeated[pObj]) /\ APeriod[pObj] = presetTime[pObj]
    BY <1>1, <1>2, <1>3, ViewIs
<1>6. /\ pObj \notin AFired'
      /\ repeated[pObj] => live' = live /\ ALeft'[pObj] = presetTime[pObj]
      /\ ~repeated[pObj] => live' = live \ {pObj}
    <2>1. CASE repeated[pObj]
        <3>1. currTime'[pObj] = presetTime[pObj] /\ presetTime[pObj] > 0
            BY <1>1, <1>2, <2>1 DEF Sound, TypeOK, Marked
        <3>2. presetTime[pObj] \in Int
            BY <1>2 DEF Sound, TypeOK
        <3>3. pObj \in live' /\ live' = live
            BY <1>1, <1>2, <2>1
        <3>4. ALeft'[pObj] = presetTime[pObj]
            BY <1>2, <1>3, <3>1, <3>2, <3>3, ViewNext DEF Remaining
        <3>5. pObj \notin AFired'
            <4>1. ~(currTime'[pObj] <= 0)
                BY <3>1, <3>2
            <4> QED BY <1>2, <4>1, ViewNext
        <3> QED BY <2>1, <3>3, <3>4, <3>5
    <2>2. CASE ~repeated[pObj]
        BY <1>1, <1>2, <2>2, ViewNext
    <2> QED BY <2>1, <2>2
<1>7. AFired' = AFired \ {pObj}
    <2>1. AFired \subseteq live /\ AFired' \subseteq live' /\ live' \subseteq live
        BY <1>1 DEF AFired
    <2> QED BY <1>4, <1>6, <2>1
<1>8. InTick' = InTick
    BY <1>2 DEF InTick
<1>9. IF ARepeating[pObj] THEN ALeft'[pObj] = APeriod[pObj] /\ live' = live
      ELSE live' = live \ {pObj}
    BY <1>5, <1>6
<1>10. PICK o \in Objects : o = pObj
    BY <1>2
<1>11. Promise!Settle(o)
    BY <1>4, <1>5, <1>7, <1>8, <1>9, <1>10
       DEF Promise!Settle, Promise!SameBut, ALeft, APeriod, ARepeating, AFired
<1> QED BY <1>11

\* EndSweep ends the tick: what was due has fired and been settled.
LEMMA EndSweepTicks == ASSUME Sound, IInv', EndSweep PROVE Promise!EndTick
<1>1. /\ tpc = "sweep" /\ tpc' = "sleep" /\ pObj = NULL
      /\ UNCHANGED <<objects, pNext, currTime, presetTime, repeated, live, destroyed>>
    BY DEF EndSweep, list, contents, control
<1>2. InTick /\ ~InTick' /\ ~destroyed /\ live \subseteq Objects /\ live' \subseteq Objects
    BY <1>1, InTickIs DEF InTick, Sound, TypeOK
<1>3. \A x \in live : currTime[x] > 0 /\ currTime[x] \in Int
    <2>1. Reach(pNext, NULL) = {}
        BY <1>2, ListNow
    <2> QED BY <1>1, <1>2, <2>1 DEF Sound, TimesOK, TypeOK
<1>4. ToVisit = {}
    BY <1>1, ToVisitIs
<1>5. \A x \in live : /\ ALeft[x] = currTime[x] /\ ALeft'[x] = currTime[x]
                      /\ APeriod'[x] = APeriod[x] /\ (ARepeating'[x] <=> ARepeating[x])
    BY <1>1, <1>2, <1>3, <1>4, ViewIs, ViewNext DEF Remaining, AtLeastOne
<1>6. \A x \in live : ARepeating'[x] = ARepeating[x]
    BY <1>2, <1>5, RepeatingIs
<1>7. AFired = {} /\ AFired' = {}
    <2>1. \A x : x \notin AFired
        <3> SUFFICES ASSUME NEW x \in AFired PROVE FALSE
            OBVIOUS
        <3>1. x \in live /\ currTime[x] <= 0
            BY <1>2, ViewIs
        <3> QED BY <1>3, <3>1
    <2> QED BY <1>2, <2>1, ViewNext
<1>8. InTick' = FALSE
    BY <1>2 DEF InTick
<1>9. \A x \in live : ALeft[x] > 0
    BY <1>3, <1>5
<1> QED BY <1>1, <1>2, <1>5, <1>6, <1>7, <1>8, <1>9
        DEF Promise!EndTick, Promise!Kept, ALeft, APeriod, ARepeating, AFired

\* AddObject sets a timer to its full timeout, in a callback as well as between ticks.
LEMMA AddTicks ==
    ASSUME Sound, ~destroyed, NEW locked \in BOOLEAN, AddObject(locked), UNCHANGED routine,
           IF locked THEN ~InTick ELSE tpc = "callback"
    PROVE  \E o \in Objects : Promise!AddObject(o)
<1>1. PICK o \in Objects \ live, n \in 1 .. MaxTimeout, r \in use.repeated :
              /\ live' = live \cup {o} /\ known' = known \cup {o}
              /\ currTime' = [currTime EXCEPT ![o] = n + (IF locked THEN 0 ELSE 1)]
              /\ presetTime' = [presetTime EXCEPT ![o] = n]
              /\ repeated' = [repeated EXCEPT ![o] = r]
              /\ Chain(pNext', objects', live')
              /\ pNext' \in [Objects -> Objects \cup {NULL}] /\ objects' \in Objects
              /\ \A x \in live : Reach(pNext', pNext'[x]) = Reach(pNext, pNext[x]) \cup {o}
    BY AddIs
<1>2. /\ tpc' = tpc /\ pObj' = pObj /\ (InTick' <=> InTick) /\ live \subseteq Objects
      /\ live' \subseteq Objects /\ InTick' = InTick
    BY <1>1 DEF routine, InTick, Sound, TypeOK
<1>3. /\ currTime'[o] = n + (IF locked THEN 0 ELSE 1) /\ presetTime'[o] = n
      /\ \A x \in live : /\ currTime'[x] = currTime[x] /\ presetTime'[x] = presetTime[x]
                         /\ repeated'[x] = repeated[x] /\ x # o
    BY <1>1 DEF Sound, TypeOK
<1>4. IF locked THEN ToVisit = {} /\ ToVisit' = {} ELSE ToVisit' = ToVisit \cup {o}
    <2>1. CASE locked
        BY <1>2, <2>1, ToVisitIs DEF InTick
    <2>2. CASE ~locked
        <3>1. tpc = "callback" /\ pObj \in live
            BY <2>2 DEF Sound, CursorOK
        <3>2. Reach(pNext', pNext'[pObj]) = Reach(pNext, pNext[pObj]) \cup {o}
            BY <1>1, <3>1
        <3> QED BY <1>2, <2>2, <3>1, <3>2, ToVisitIs
    <2> QED BY <2>1, <2>2
<1>5. ASSUME NEW x \in live
      PROVE  /\ ALeft'[x] = ALeft[x] /\ APeriod'[x] = APeriod[x] /\ ARepeating'[x] = ARepeating[x]
             /\ x \in AFired' <=> x \in AFired
    <2>1. x \in live' /\ (x \in ToVisit' <=> x \in ToVisit)
        BY <1>1, <1>3, <1>4
    <2> QED BY <1>2, <1>3, <2>1, Untouched
<1>6. o \in live' /\ APeriod'[o] = n /\ n > 0
    BY <1>1, <1>2, <1>3, ViewNext, TimingAssumption
<1>7. ALeft'[o] = n /\ o \notin AFired'
    <2>1. CASE locked
        <3>1. ~InTick' /\ currTime'[o] = n
            BY <1>2, <1>3, <2>1, TimingAssumption
        <3>2. o \notin AFired'
            BY <1>2, <3>1, ViewNext
        <3>3. ALeft'[o] = AtLeastOne(n)
            BY <1>2, <1>6, <3>1, ViewNext DEF Remaining
        <3> QED BY <3>2, <3>3, TimingAssumption DEF AtLeastOne
    <2>2. CASE ~locked
        <3>1. InTick' /\ currTime'[o] = n + 1 /\ o \in ToVisit'
            BY <1>2, <1>3, <1>4, <2>2 DEF InTick
        <3>2. o \notin AFired'
            BY <1>2, <3>1, ViewNext
        <3>3. ALeft'[o] = AtLeastOne(n + 1) - 1
            BY <1>2, <1>6, <3>1, ViewNext DEF Remaining
        <3> QED BY <3>2, <3>3, TimingAssumption DEF AtLeastOne
    <2> QED BY <2>1, <2>2
<1>8. AFired' = AFired
    <2>1. AFired \subseteq live /\ AFired' \subseteq live'
        BY DEF AFired
    <2> QED BY <1>1, <1>5, <1>7, <2>1
<1>9. Promise!AddObject(o)
    BY <1>1, <1>2, <1>5, <1>6, <1>7, <1>8
       DEF Promise!AddObject, Promise!SameBut, ALeft, APeriod, ARepeating, AFired
<1> QED BY <1>9

\* DelObject between ticks takes the timer away at once, or never comes back.
LEMMA MainDelTicks ==
    ASSUME Sound, ~InTick, ~destroyed, DelObject("main", TRUE), UNCHANGED <<routine, control>>
    PROVE  (\E o \in Objects : Promise!DelObject(o)) \/ UNCHANGED Promise!vars
<1>1. PICK o \in known :
        /\ known' = known \ {o}
        /\ IF Found(o)
           THEN _tmObj_RemoveAndDestroy(o) /\ UNCHANGED stuck
           ELSE stuck' = stuck \cup {"main"} /\ UNCHANGED <<objects, contents, live>>
    BY DEF DelObject
<1>2. UNCHANGED <<tpc, pObj>>
    BY DEF routine
<1>3. o \in live /\ live \subseteq Objects
    BY DEF Sound, TypeOK
<1>4. ~InTick' /\ ToVisit = {} /\ ToVisit' = {} /\ InTick' = InTick
    BY <1>2, ToVisitIs DEF InTick
<1>5. CASE Found(o)
    <2>1. live' = live \ {o} /\ UNCHANGED <<currTime, presetTime, repeated>>
        BY <1>1, <1>3, <1>5, RemoveIs
    <2>2. ASSUME NEW x \in live, x # o
          PROVE  /\ ALeft'[x] = ALeft[x] /\ APeriod'[x] = APeriod[x] /\ ARepeating'[x] = ARepeating[x]
        <3>1. x \in live' /\ live' \subseteq Objects
            BY <1>3, <2>1, <2>2
        <3> QED BY <1>3, <1>4, <2>1, <3>1, Untouched
    <2>3. AFired = {} /\ AFired' = {}
        BY <1>4 DEF AFired
    <2>4. Promise!DelObject(o)
        BY <1>3, <1>4, <2>1, <2>2, <2>3
           DEF Promise!DelObject, Promise!SameBut, ALeft, APeriod, ARepeating, AFired
    <2> QED BY <1>3, <2>4
<1>6. CASE ~Found(o)
    <2>1. UNCHANGED <<live, currTime, presetTime, repeated>>
        BY <1>1, <1>6 DEF contents
    <2> QED BY <1>4, <2>1, QuietSteps
<1> QED BY <1>5, <1>6

\* DelObject in a callback lets the timer fire one last time.
LEMMA CallbackDelTicks ==
    ASSUME CarefulUses, Sound, tpc = "callback", "del" \in use.routine, DelObject("routine", FALSE),
           UNCHANGED <<routine, control>>
    PROVE  \E o \in Objects : Promise!DelLater(o)
<1>1. ~use.second
    BY DEF CarefulUses, Careful, Sound, TypeOK
<1>2. PICK o \in known :
        /\ repeated' = [repeated EXCEPT ![o] = FALSE]
        /\ UNCHANGED <<objects, pNext, currTime, presetTime, live, stuck>>
    BY <1>1 DEF DelObject
<1>3. /\ o \in live /\ live \subseteq Objects /\ live' \subseteq Objects /\ InTick
      /\ UNCHANGED <<tpc, pObj>> /\ (InTick' <=> InTick) /\ InTick' = InTick
    BY <1>2 DEF routine, Sound, TypeOK, InTick
<1>4. ToVisit' = ToVisit
    BY <1>2, <1>3, ToVisitIs
<1>5. \A x \in live : /\ ALeft'[x] = ALeft[x] /\ APeriod'[x] = APeriod[x]
                      /\ x \in AFired' <=> x \in AFired
    BY <1>2, <1>3, <1>4, ViewIs, ViewNext DEF Remaining
<1>6. /\ ~ARepeating'[o]
      /\ \A x \in live \ {o} : ARepeating'[x] <=> ARepeating[x]
    <2>1. ~repeated'[o] /\ \A x \in live \ {o} : repeated'[x] = repeated[x]
        BY <1>2, <1>3 DEF Sound, TypeOK
    <2> QED BY <1>2, <1>3, <2>1, ViewIs, ViewNext
<1>7. \A x \in live \ {o} : ARepeating'[x] = ARepeating[x]
    BY <1>3, <1>6, RepeatingIs
<1>8. AFired' = AFired
    <2>1. AFired \subseteq live /\ AFired' \subseteq live
        BY <1>2 DEF AFired
    <2> QED BY <1>5, <2>1
<1>9. Promise!DelLater(o)
    BY <1>2, <1>3, <1>5, <1>6, <1>7, <1>8
       DEF Promise!DelLater, Promise!SameBut, Promise!Kept, ALeft, APeriod, ARepeating, AFired
<1> QED BY <1>3, <1>9

\* ResetTimeout sets the period and nothing else.
LEMMA ResetTicks ==
    ASSUME Sound, ResetTimeout, UNCHANGED <<routine, control>>
    PROVE  \E o \in Objects : Promise!ResetTimeout(o)
<1>1. PICK o \in known, m \in 0 .. MaxTimeout : presetTime' = [presetTime EXCEPT ![o] = AtLeastOne(m)]
    BY DEF ResetTimeout
<1>2. PICK n : n = AtLeastOne(m)
    OBVIOUS
<1>3. n > 0 /\ presetTime' = [presetTime EXCEPT ![o] = n]
    BY <1>1, <1>2 DEF AtLeastOne
<1>4. /\ UNCHANGED <<objects, pNext, currTime, repeated, live, tpc, pObj>>
      /\ o \in live /\ live \subseteq Objects /\ live' \subseteq Objects
      /\ (InTick' <=> InTick) /\ InTick' = InTick
    BY DEF ResetTimeout, routine, Sound, TypeOK, InTick
<1>5. ToVisit' = ToVisit
    BY <1>4, ToVisitIs
<1>6. \A x \in live : /\ ALeft'[x] = ALeft[x] /\ (ARepeating'[x] <=> ARepeating[x])
                      /\ x \in AFired' <=> x \in AFired
    BY <1>4, <1>5, ViewIs, ViewNext DEF Remaining
<1>7. \A x \in live : ARepeating'[x] = ARepeating[x]
    BY <1>4, <1>6, RepeatingIs
<1>8. APeriod'[o] = n /\ \A x \in live \ {o} : APeriod'[x] = APeriod[x]
    <2>1. presetTime'[o] = n /\ \A x \in live \ {o} : presetTime'[x] = presetTime[x]
        BY <1>3, <1>4 DEF Sound, TypeOK
    <2> QED BY <1>4, <2>1, ViewIs, ViewNext
<1>9. AFired' = AFired
    <2>1. AFired \subseteq live /\ AFired' \subseteq live
        BY <1>4 DEF AFired
    <2> QED BY <1>6, <2>1
<1>10. Promise!ResetTimeout(o)
    BY <1>3, <1>4, <1>6, <1>7, <1>8, <1>9
       DEF Promise!ResetTimeout, Promise!SameBut, Promise!Kept, ALeft, APeriod, ARepeating, AFired
<1> QED BY <1>4, <1>10

\* TriggerObject between ticks makes the timer fire in the next one.
LEMMA TriggerTicks ==
    ASSUME Sound, ~InTick, TriggerObject, UNCHANGED <<routine, control>>
    PROVE  \E o \in Objects : Promise!TriggerObject(o)
<1>1. PICK o \in known : currTime' = [currTime EXCEPT ![o] = 0]
    BY DEF TriggerObject
<1>2. /\ UNCHANGED <<objects, pNext, presetTime, repeated, live, tpc, pObj>>
      /\ o \in live /\ live \subseteq Objects /\ live' \subseteq Objects
      /\ (InTick' <=> InTick) /\ InTick' = InTick
    BY DEF TriggerObject, routine, Sound, TypeOK, InTick
<1>3. ToVisit = {} /\ ToVisit' = {}
    BY <1>2, ToVisitIs DEF InTick
<1>4. currTime'[o] = 0 /\ \A x \in live \ {o} : currTime'[x] = currTime[x]
    BY <1>1, <1>2 DEF Sound, TypeOK
<1>5. \A x \in live : APeriod'[x] = APeriod[x] /\ (ARepeating'[x] <=> ARepeating[x])
    BY <1>2, ViewIs, ViewNext
<1>6. \A x \in live : ARepeating'[x] = ARepeating[x]
    BY <1>2, <1>5, RepeatingIs
<1>7. ALeft'[o] = 1 /\ \A x \in live \ {o} : ALeft'[x] = ALeft[x]
    BY <1>2, <1>3, <1>4, ViewIs, ViewNext DEF Remaining, AtLeastOne
<1>8. AFired = {} /\ AFired' = {}
    BY <1>2 DEF AFired
<1>9. InTick = FALSE
    BY DEF InTick
<1>10. Promise!TriggerObject(o)
    BY <1>2, <1>5, <1>6, <1>7, <1>8, <1>9
       DEF Promise!TriggerObject, Promise!SameBut, Promise!Kept, ALeft, APeriod, ARepeating, AFired
<1> QED BY <1>2, <1>10

\* DestroyJoined takes all timers away, between ticks.
LEMMA DestroyTicks == ASSUME Sound, IInv', DestroyJoined PROVE Promise!Destroy
<1>1. ~InTick /\ ~InTick' /\ live' = {}
    BY DEF DestroyJoined, Sound, IInv, RoutineJoined, InTick, routine
<1>2. AFired = {} /\ AFired' = {} /\ InTick' = InTick
    BY <1>1 DEF AFired, InTick
<1> QED BY <1>1, <1>2 DEF Promise!Destroy, AFired

\* The steps of which a program sees nothing.
LEMMA StutterSteps ==
    ASSUME CarefulUses, Sound,
           \/ Wake \/ Cancelled \/ CallbackReturns \/ BeginSweep \/ SweepKeep
           \/ CallbackStop \/ Start \/ Stop \/ StopJoined \/ Destroy \/ UNCHANGED vars
    PROVE  UNCHANGED Promise!vars
<1>1. UNCHANGED <<live, pNext, currTime, presetTime, repeated>>
    BY DEF Wake, Cancelled, CallbackReturns, BeginSweep, SweepKeep, CallbackStop, Start, Stop, StopJoined,
           Destroy, vars, list, contents
<1>2. CASE Wake \/ Cancelled
    <2>1. /\ InTick' <=> InTick
          /\ ToVisit' = ToVisit
        BY <1>2, ToVisitIs DEF Wake, Cancelled, InTick
    <2> QED BY <1>1, <2>1, QuietSteps
<1>3. CASE Start
    <2>1. /\ InTick' <=> InTick
          /\ ToVisit' = ToVisit
        BY <1>3, MayCallIs, ToVisitIs DEF Start, InTick
    <2> QED BY <1>1, <2>1, QuietSteps
<1>4. CASE CallbackStop \/ Stop \/ StopJoined \/ Destroy \/ UNCHANGED vars
    <2>1. UNCHANGED <<tpc, pObj>>
        BY <1>4 DEF CallbackStop, Stop, StopJoined, Destroy, vars, routine
    <2>2. /\ InTick' <=> InTick
          /\ ToVisit' = ToVisit
        BY <1>1, <2>1, ToVisitIs DEF InTick
    <2> QED BY <1>1, <2>2, QuietSteps
<1>5. CASE CallbackReturns \/ BeginSweep \/ SweepKeep
    <2>1. InTick' <=> InTick
        BY <1>5 DEF CallbackReturns, BeginSweep, SweepKeep, InTick
    <2>2. ToVisit' = ToVisit
        <3>1. Reach(pNext, NULL) = {}
            BY DEF Reach
        <3> QED BY <1>1, <1>5, <3>1, ToVisitIs DEF CallbackReturns, BeginSweep, SweepKeep
    <2> QED BY <1>1, <2>1, <2>2, QuietSteps
<1> QED BY <1>2, <1>3, <1>4, <1>5

\* No callback triggers a timer: one the tick has passed would be due a second time, and settled
\* without having fired.
NoTriggers == \A u \in Uses : "trigger" \notin u.routine

\* Every step of the code is one of the promise, or shows nothing.
LEMMA NextTicks ==
    ASSUME CarefulUses, NoTriggers, Sound, IInv', [Next]_vars
    PROVE  [Promise!Next]_(Promise!vars)
<1>1. CASE \/ Wake \/ Cancelled \/ CallbackReturns \/ BeginSweep \/ SweepKeep
           \/ CallbackStop \/ Start \/ Stop \/ StopJoined \/ Destroy \/ UNCHANGED vars
    BY <1>1, StutterSteps
<1>2. CASE LockRoutine
    BY <1>2, LockRoutineTicks DEF Promise!Next
<1>3. CASE CountDown
    BY <1>3, CountDownTicks DEF Promise!Next
<1>4. CASE SweepRepeat \/ SweepRemove
    BY <1>4, SweepTicks DEF Promise!Next
<1>5. CASE EndSweep
    BY <1>5, EndSweepTicks DEF Promise!Next
<1>6. CASE CallbackTimerCall
    <2>1. /\ tpc = "callback" /\ TimerCall("routine", use.routine, FALSE) /\ UNCHANGED <<routine, control>>
        BY <1>6 DEF CallbackTimerCall
    <2>2. ~destroyed /\ "trigger" \notin use.routine
        BY <2>1, InTickIs DEF InTick, NoTriggers, Sound, TypeOK
    <2>3. CASE AddObject(FALSE)
        <3>1. \E o \in Objects : Promise!AddObject(o)
            BY <2>1, <2>2, <2>3, AddTicks
        <3> QED BY <3>1 DEF Promise!Next
    <2>4. CASE "del" \in use.routine /\ DelObject("routine", FALSE)
        <3>1. \E o \in Objects : Promise!DelLater(o)
            BY <2>1, <2>4, CallbackDelTicks
        <3> QED BY <3>1 DEF Promise!Next
    <2>5. CASE ResetTimeout
        <3>1. \E o \in Objects : Promise!ResetTimeout(o)
            BY <2>1, <2>5, ResetTicks
        <3> QED BY <3>1 DEF Promise!Next
    <2> QED BY <2>1, <2>2, <2>3, <2>4, <2>5 DEF TimerCall
<1>7. CASE MainTimerCall
    <2>1. ~InTick /\ ~destroyed /\ lock = "none"
        BY <1>7, MayCallIs DEF MainTimerCall
    <2>2. TimerCall("main", use.main, TRUE) /\ UNCHANGED <<routine, control>>
        BY <1>7, <2>1 DEF MainTimerCall
    <2>3. CASE AddObject(TRUE)
        <3>1. \E o \in Objects : Promise!AddObject(o)
            BY <2>1, <2>2, <2>3, AddTicks
        <3> QED BY <3>1 DEF Promise!Next
    <2>4. CASE DelObject("main", TRUE)
        <3>1. (\E o \in Objects : Promise!DelObject(o)) \/ UNCHANGED Promise!vars
            BY <2>1, <2>2, <2>4, MainDelTicks
        <3> QED BY <3>1 DEF Promise!Next
    <2>5. CASE ResetTimeout
        <3>1. \E o \in Objects : Promise!ResetTimeout(o)
            BY <2>2, <2>5, ResetTicks
        <3> QED BY <3>1 DEF Promise!Next
    <2>6. CASE TriggerObject
        <3>1. \E o \in Objects : Promise!TriggerObject(o)
            BY <2>1, <2>2, <2>6, TriggerTicks
        <3> QED BY <3>1 DEF Promise!Next
    <2> QED BY <2>2, <2>3, <2>4, <2>5, <2>6 DEF TimerCall
<1>8. CASE DestroyJoined
    BY <1>8, DestroyTicks DEF Promise!Next
<1> QED BY <1>1, <1>2, <1>3, <1>4, <1>5, <1>6, <1>7, <1>8 DEF Next, RoutineStep

\* No timers, no tick: the promise's beginning.
LEMMA InitTicks == Init => Promise!Init
<1> SUFFICES ASSUME Init PROVE Promise!Init
    OBVIOUS
<1>1. live = {} /\ InTick = FALSE
    BY DEF Init, InTick
<1>2. AFired = {}
    BY <1>1 DEF AFired
<1>3. ALeft \in [Objects -> Int] /\ APeriod \in [Objects -> Int]
    BY <1>1 DEF ALeft, APeriod, TicksLeft
<1>4. ARepeating \in [Objects -> BOOLEAN]
    BY DEF ARepeating
<1> QED BY <1>1, <1>2, <1>3, <1>4 DEF Promise!Init, ALeft, APeriod, ARepeating, AFired

\* Every timer of a program that keeps to the rules fires in the tick its time runs out, once, and
\* in no other: the tool keeps TimerService's promise.
THEOREM PromiseKept == ASSUME CarefulUses, NoTriggers PROVE Spec => ImplementsTimers
<1>1. Sound /\ IInv' /\ [Next]_vars => [Promise!Next]_(Promise!vars)
    BY NextTicks
<1> QED BY <1>1, InitTicks, SoundInv, Invariance, PTL DEF Spec, ImplementsTimers, Promise!Spec
=============================================================================
