---------------------------- MODULE SignalHandler ----------------------------
(***************************************************************************)
(* AMCSignalHandler.c, in every process of a set: the handler, which runs  *)
(* on any thread, puts the signal into the one slot sigNum, and a thread   *)
(* that polls the slot acts on it.  Both hold signalMutex, which is not    *)
(* recursive, and a handler may interrupt the very thread that holds it.   *)
(* A signal stays off a thread while its own handler runs there; the       *)
(* others do not (sa_mask is empty).                                       *)
(***************************************************************************)
EXTENDS Naturals, Sequences, Functions

CONSTANTS
    Procs,
    validSignal,      \* the signals, in the order they are registered in
    SIGALRM,          \* the one signal that does not end the process
    NoSignal          \* 0

VARIABLES
    processor,        \* where threadSignalProcessor is; "none" before it is created
    installed,        \* how many of validSignal have their handler
    sigNum, sigNumCopy,
    signalMutex,      \* it is held
    frames,           \* the handlers that run on each thread, the innermost last
    pending,          \* the signals a process has been sent and not yet seen
    sent              \* history: the signals each process was sent

sigVars == <<processor, installed, sigNum, sigNumCopy, signalMutex, frames, pending, sent>>

Signals == {validSignal[i] : i \in DOMAIN validSignal}
Threads == {"main", "processor"}

Runs(p) == processor[p] # "ended"

\* No handler is running on the thread: it goes on with its own code.
Free(p, t) == frames[p][t] = <<>>

Init ==
    /\ processor = [p \in Procs |-> "none"] /\ installed = [p \in Procs |-> 0]
    /\ sigNum = [p \in Procs |-> NoSignal] /\ sigNumCopy = [p \in Procs |-> NoSignal]
    /\ signalMutex = [p \in Procs |-> FALSE]
    /\ frames = [p \in Procs |-> [t \in Threads |-> <<>>]]
    /\ pending = [p \in Procs |-> {}]
    /\ sent = [p \in Procs |-> <<>>]

-----------------------------------------------------------------------------
(* AMCSignalRegister                                                        *)

\* The processing thread is there before the first handler.
Create(p) ==
    /\ processor[p] = "none"
    /\ processor' = [processor EXCEPT ![p] = "poll"]
    /\ signalMutex' = [signalMutex EXCEPT ![p] = FALSE]
    /\ UNCHANGED <<installed, sigNum, sigNumCopy, frames, pending, sent>>

Install(p) ==
    /\ processor[p] \notin {"none", "ended"} /\ installed[p] < Len(validSignal) /\ Free(p, "main")
    /\ installed' = [installed EXCEPT ![p] = @ + 1]
    /\ UNCHANGED <<processor, sigNum, sigNumCopy, signalMutex, frames, pending, sent>>

-----------------------------------------------------------------------------
(* The kernel                                                               *)

\* A signal that is already pending is not queued again.
Send(p, s) ==
    /\ Runs(p)
    /\ pending' = [pending EXCEPT ![p] = @ \cup {s}]
    /\ sent' = [sent EXCEPT ![p] = Append(@, s)]
    /\ UNCHANGED <<processor, installed, sigNum, sigNumCopy, signalMutex, frames>>

HasHandler(p, s) == \E i \in 1 .. installed[p] : validSignal[i] = s

\* Any thread that does not run the signal's handler may be interrupted, wherever it is.
Deliver(p, t, s) ==
    /\ s \in pending[p] /\ HasHandler(p, s)
    /\ \A i \in DOMAIN frames[p][t] : frames[p][t][i].sig # s
    /\ frames' = [frames EXCEPT ![p][t] = Append(@, [sig |-> s, at |-> "lock"])]
    /\ pending' = [pending EXCEPT ![p] = @ \ {s}]
    /\ UNCHANGED <<processor, installed, sigNum, sigNumCopy, signalMutex, sent>>

\* The end of a process; what it had in memory is gone.
ProcessEnds(p) ==
    /\ processor' = [processor EXCEPT ![p] = "ended"]
    /\ installed' = [installed EXCEPT ![p] = 0]
    /\ sigNum' = [sigNum EXCEPT ![p] = NoSignal] /\ sigNumCopy' = [sigNumCopy EXCEPT ![p] = NoSignal]
    /\ signalMutex' = [signalMutex EXCEPT ![p] = FALSE]
    /\ frames' = [frames EXCEPT ![p] = [t \in Threads |-> <<>>]]
    /\ pending' = [pending EXCEPT ![p] = {}]
    /\ UNCHANGED sent

\* A signal without a handler ends the process.
Default(p) == (\E s \in pending[p] : ~HasHandler(p, s)) /\ ProcessEnds(p)

-----------------------------------------------------------------------------
(* staticSignalCatcher                                                      *)

Handles(p, t, label) == ~Free(p, t) /\ frames[p][t][Len(frames[p][t])].at = label
Continue(p, t, label) == frames' = [frames EXCEPT ![p][t][Len(frames[p][t])].at = label]

CatcherLocks(p, t) ==
    /\ Handles(p, t, "lock") /\ ~signalMutex[p]
    /\ signalMutex' = [signalMutex EXCEPT ![p] = TRUE]
    /\ Continue(p, t, "store")
    /\ UNCHANGED <<processor, installed, sigNum, sigNumCopy, pending, sent>>

CatcherStores(p, t) ==
    /\ Handles(p, t, "store")
    /\ sigNum' = [sigNum EXCEPT ![p] = frames[p][t][Len(frames[p][t])].sig]
    /\ Continue(p, t, "unlock")
    /\ UNCHANGED <<processor, installed, sigNumCopy, signalMutex, pending, sent>>

\* Faulty: the handler returns with the mutex.
CatcherUnlocks_Keeps(p, t) ==
    /\ Handles(p, t, "unlock")
    /\ frames' = [frames EXCEPT ![p][t] = SubSeq(@, 1, Len(@) - 1)]
    /\ UNCHANGED <<processor, installed, sigNum, sigNumCopy, signalMutex, pending, sent>>

CatcherUnlocks(p, t) ==
    /\ Handles(p, t, "unlock")
    /\ signalMutex' = [signalMutex EXCEPT ![p] = FALSE]
    /\ frames' = [frames EXCEPT ![p][t] = SubSeq(@, 1, Len(@) - 1)]
    /\ UNCHANGED <<processor, installed, sigNum, sigNumCopy, pending, sent>>

staticSignalCatcher(p, t) == CatcherLocks(p, t) \/ CatcherStores(p, t) \/ CatcherUnlocks(p, t)

-----------------------------------------------------------------------------
(* threadSignalProcessor                                                    *)

ProcessorAt(p, label) == processor[p] = label /\ Free(p, "processor")
ProcessorTo(p, label) == processor' = [processor EXCEPT ![p] = label]

\* Faulty: the slot is looked at under the lock only.
Poll_Locked(p) ==
    /\ ProcessorAt(p, "poll") /\ ProcessorTo(p, "lock")
    /\ UNCHANGED <<installed, sigNum, sigNumCopy, signalMutex, frames, pending, sent>>

\* "if (0 != sigNum)", without the lock.
Poll(p) ==
    /\ ProcessorAt(p, "poll") /\ sigNum[p] # NoSignal /\ ProcessorTo(p, "lock")
    /\ UNCHANGED <<installed, sigNum, sigNumCopy, signalMutex, frames, pending, sent>>

ProcessorLocks(p) ==
    /\ ProcessorAt(p, "lock") /\ ~signalMutex[p] /\ ProcessorTo(p, "take")
    /\ signalMutex' = [signalMutex EXCEPT ![p] = TRUE]
    /\ UNCHANGED <<installed, sigNum, sigNumCopy, frames, pending, sent>>

ProcessorTakes(p) ==
    /\ ProcessorAt(p, "take") /\ ProcessorTo(p, "unlock")
    /\ sigNumCopy' = [sigNumCopy EXCEPT ![p] = sigNum[p]]
    /\ sigNum' = [sigNum EXCEPT ![p] = NoSignal]
    /\ UNCHANGED <<installed, signalMutex, frames, pending, sent>>

ProcessorUnlocks(p) ==
    /\ ProcessorAt(p, "unlock") /\ ProcessorTo(p, "switch")
    /\ signalMutex' = [signalMutex EXCEPT ![p] = FALSE]
    /\ UNCHANGED <<installed, sigNum, sigNumCopy, frames, pending, sent>>

\* Faulty: the slot is cleared when the signal has been dealt with.
Alarmed_Clears(p) ==
    /\ ProcessorAt(p, "switch") /\ sigNumCopy[p] = SIGALRM /\ ProcessorTo(p, "poll")
    /\ sigNum' = [sigNum EXCEPT ![p] = NoSignal]
    /\ UNCHANGED <<installed, sigNumCopy, signalMutex, frames, pending, sent>>

\* "case SIGALRM": it is printed.
Alarmed(p) ==
    /\ ProcessorAt(p, "switch") /\ sigNumCopy[p] = SIGALRM /\ ProcessorTo(p, "poll")
    /\ UNCHANGED <<installed, sigNum, sigNumCopy, signalMutex, frames, pending, sent>>

\* Every other case ends with exit(1).
Exit(p) == ProcessorAt(p, "switch") /\ sigNumCopy[p] # SIGALRM /\ ProcessEnds(p)

threadSignalProcessor(p) ==
    Poll(p) \/ ProcessorLocks(p) \/ ProcessorTakes(p) \/ ProcessorUnlocks(p) \/ Alarmed(p)

-----------------------------------------------------------------------------

Next ==
    \E p \in Procs :
        \/ Create(p) \/ Install(p)
        \/ \E s \in Signals : Send(p, s) \/ \E t \in Threads : Deliver(p, t, s)
        \/ Default(p) \/ Exit(p) \/ threadSignalProcessor(p)
        \/ \E t \in Threads : staticSignalCatcher(p, t)

Spec == Init /\ [][Next]_sigVars

-----------------------------------------------------------------------------
(* Properties                                                               *)

TypeOK ==
    /\ processor \in [Procs -> {"none", "poll", "lock", "take", "unlock", "switch", "ended"}]
    /\ installed \in [Procs -> 0 .. Len(validSignal)]
    /\ sigNum \in [Procs -> Signals \cup {NoSignal}] /\ sigNumCopy \in [Procs -> Signals \cup {NoSignal}]
    /\ signalMutex \in [Procs -> BOOLEAN]
    /\ frames \in [Procs -> [Threads -> Seq([sig : Signals, at : {"lock", "store", "unlock"}])]]
    /\ pending \in [Procs -> SUBSET Signals] /\ sent \in [Procs -> Seq(Signals)]

\* The handler waits for a mutex that the code it has interrupted holds: every thread that
\* wants it waits for ever.
Stuck(p) ==
    \E t \in Threads :
        /\ Handles(p, t, "lock")
        /\ \/ t = "processor" /\ processor[p] \in {"take", "unlock"}
           \/ \E i \in DOMAIN frames[p][t] : frames[p][t][i].at # "lock"

\* The processing thread never comes to "Catch unknown signal" with an empty slot, although
\* it looks at the slot without the lock.
NeverUnknown == \A p \in Procs : processor[p] = "switch" => sigNumCopy[p] # NoSignal

\* A signal leaves the slot only for the processing thread, or for a later signal.
TakenOrReplaced ==
    [][\A p \in Procs : sigNum'[p] = NoSignal /\ sigNum[p] # NoSignal
          => processor'[p] = "ended" \/ sigNumCopy'[p] = sigNum[p]]_sigVars

\* One signal alone never gets a process stuck.
StuckNeedsTwo == \A p \in Procs : Stuck(p) => Len(sent[p]) > 1

\* A signal that is to end the process does so, unless the process is stuck or a SIGALRM
\* was sent to it, too, which may have taken the slot.
EndingSignalEnds ==
    \A p \in Procs :
        sent[p] # <<>> ~> processor[p] = "ended" \/ Stuck(p) \/ SIGALRM \in Range(sent[p])
=============================================================================
