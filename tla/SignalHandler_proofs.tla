------------------------ MODULE SignalHandler_proofs ------------------------
(***************************************************************************)
(* For any number of processes, signals and times they are sent: the       *)
(* processing thread never acts on an empty slot, and one signal alone     *)
(* never gets a process stuck.                                             *)
(***************************************************************************)
EXTENDS SignalHandler, SequenceTheorems, TLAPS

SignalAssumption == validSignal \in Seq(Signals) /\ NoSignal \notin Signals

\* The slot has been seen filled, and nobody but the processing thread clears it.
SlotFilled ==
    \A p \in Procs :
        /\ processor[p] \in {"lock", "take"} => sigNum[p] # NoSignal
        /\ processor[p] \in {"unlock", "switch"} => sigNumCopy[p] # NoSignal

\* The processing thread has nothing to do.
Idle(p) == processor[p] \in {"none", "poll", "ended"} /\ sigNum[p] = NoSignal

\* Handlers come only when there is a processing thread.
ThreadFirst == \A p \in Procs : processor[p] \in {"none", "ended"} => installed[p] = 0

\* Nothing happens to a process before the first signal.
Quiet ==
    \A p \in Procs : sent[p] = <<>> =>
        pending[p] = {} /\ Idle(p) /\ \A t \in Threads : frames[p][t] = <<>>

\* One signal is in one place: pending, in a handler, or in the slot.
LoneSignal ==
    \A p \in Procs : Len(sent[p]) = 1 =>
        /\ pending[p] # {} => Idle(p) /\ \A t \in Threads : frames[p][t] = <<>>
        /\ \A s, r \in pending[p] : s = r
        /\ \A t \in Threads : frames[p][t] # <<>> =>
              /\ Len(frames[p][t]) = 1 /\ pending[p] = {}
              /\ \A u \in Threads \ {t} : frames[p][u] = <<>>
              /\ processor[p] \in {"poll", "lock"}
              /\ frames[p][t][1].at \in {"lock", "store"} => Idle(p)
              /\ frames[p][t][1].at \in {"store", "unlock"} => signalMutex[p]

IInv == TypeOK /\ SlotFilled /\ ThreadFirst /\ Quiet /\ LoneSignal

Frame == [sig : Signals, at : {"lock", "store", "unlock"}]

-----------------------------------------------------------------------------
(* The stack of handlers of a thread                                        *)

LEMMA StackTyped ==
    ASSUME TypeOK, NEW p \in Procs, NEW t \in Threads
    PROVE  frames[p][t] \in Seq(Frame)
<1>1. frames \in [Procs -> [Threads -> Seq(Frame)]]
    BY DEF TypeOK, Frame
<1> QED BY <1>1

LEMMA Pushed ==
    ASSUME NEW st \in Seq(Frame), NEW f \in Frame
    PROVE  /\ Append(st, f) \in Seq(Frame) /\ Append(st, f) # <<>>
           /\ st = <<>> => Len(Append(st, f)) = 1 /\ Append(st, f)[1] = f
OBVIOUS

LEMMA Top ==
    ASSUME NEW st \in Seq(Frame), st # <<>>
    PROVE  /\ Len(st) \in 1 .. Len(st) /\ st[Len(st)] \in Frame
OBVIOUS

LEMMA Popped ==
    ASSUME NEW st \in Seq(Frame), st # <<>>
    PROVE  /\ SubSeq(st, 1, Len(st) - 1) \in Seq(Frame)
           /\ Len(st) = 1 => SubSeq(st, 1, Len(st) - 1) = <<>>
<1>1. Len(st) \in Nat /\ \A i \in 1 .. Len(st) - 1 : st[i] \in Frame
    OBVIOUS
<1>2. SubSeq(st, 1, Len(st) - 1) \in Seq(Frame)
    BY <1>1, SubSeqProperties
<1>3. Len(st) = 1 => SubSeq(st, 1, Len(st) - 1) = <<>>
    BY SubSeqEmpty
<1> QED BY <1>2, <1>3

LEMMA TopReplaced ==
    ASSUME NEW st \in Seq(Frame), st # <<>>, NEW label \in {"lock", "store", "unlock"}
    PROVE  /\ [st EXCEPT ![Len(st)].at = label] \in Seq(Frame)
           /\ Len([st EXCEPT ![Len(st)].at = label]) = Len(st)
           /\ [st EXCEPT ![Len(st)].at = label][Len(st)].at = label
           /\ [st EXCEPT ![Len(st)].at = label] # <<>>
<1> DEFINE new == [st EXCEPT ![Len(st)].at = label]
<1>1. Len(st) \in Nat /\ Len(st) >= 1 /\ DOMAIN st = 1 .. Len(st) /\ \A i \in 1 .. Len(st) : st[i] \in Frame
    OBVIOUS
<1>2. new = [i \in 1 .. Len(st) |-> IF i = Len(st) THEN [st[i] EXCEPT !.at = label] ELSE st[i]]
    BY <1>1
<1>3. \A i \in 1 .. Len(st) : new[i] \in Frame
    BY <1>1, <1>2 DEF Frame
<1>4. new \in [1 .. Len(st) -> Frame]
    BY <1>2, <1>3
<1>5. new \in Seq(Frame) /\ Len(new) = Len(st)
    BY <1>1, <1>4
<1>6. new[Len(st)].at = label
    BY <1>1, <1>2 DEF Frame
<1> QED BY <1>1, <1>5, <1>6

-----------------------------------------------------------------------------
(* Steps                                                                    *)

\* The thread has nothing to do yet.
LEMMA CreateIInv ==
    ASSUME SignalAssumption, IInv, NEW p \in Procs, Create(p)
    PROVE  IInv'
<1>1. TypeOK'
    BY DEF Create, SignalAssumption, IInv, TypeOK, Runs
<1>2. SlotFilled'
    BY DEF Create, IInv, TypeOK, SlotFilled
<1>3. ThreadFirst'
    BY DEF Create, IInv, TypeOK, ThreadFirst
<1>4. Quiet'
    BY DEF Create, IInv, TypeOK, Quiet, Idle, Threads
<1>5. LoneSignal'
    BY DEF Create, IInv, TypeOK, LoneSignal, Idle, Threads, SlotFilled
<1> QED BY <1>1, <1>2, <1>3, <1>4, <1>5 DEF IInv

\* The thread is there.
LEMMA InstallIInv ==
    ASSUME SignalAssumption, IInv, NEW p \in Procs, Install(p)
    PROVE  IInv'
<1>1. TypeOK'
    <2>1. Len(validSignal) \in Nat /\ installed[p] \in 0 .. Len(validSignal) /\ installed[p] < Len(validSignal)
        BY DEF Install, Runs, SignalAssumption, IInv, TypeOK
    <2>2. installed' \in [Procs -> 0 .. Len(validSignal)]
        BY <2>1 DEF Install, IInv, TypeOK
    <2> QED BY <2>2 DEF Install, IInv, TypeOK
<1>2. SlotFilled'
    BY DEF Install, Free, IInv, TypeOK, SlotFilled
<1>3. ThreadFirst'
    BY DEF Install, Free, IInv, TypeOK, ThreadFirst
<1>4. Quiet'
    BY DEF Install, Free, IInv, TypeOK, Quiet, Idle, Threads
<1>5. LoneSignal'
    BY DEF Install, Free, IInv, TypeOK, LoneSignal, Idle, Threads, SlotFilled
<1> QED BY <1>1, <1>2, <1>3, <1>4, <1>5 DEF IInv

\* The slot was seen filled.
LEMMA PollIInv ==
    ASSUME SignalAssumption, IInv, NEW p \in Procs, Poll(p)
    PROVE  IInv'
<1>1. TypeOK'
    BY DEF Poll, ProcessorAt, ProcessorTo, Free, SignalAssumption, IInv, TypeOK, Runs
<1>2. SlotFilled'
    BY DEF Poll, ProcessorAt, ProcessorTo, Free, IInv, TypeOK, SlotFilled
<1>3. ThreadFirst'
    BY DEF Poll, ProcessorAt, ProcessorTo, Free, IInv, TypeOK, ThreadFirst
<1>4. Quiet'
    BY DEF Poll, ProcessorAt, ProcessorTo, Free, IInv, TypeOK, Quiet, Idle, Threads
<1>5. LoneSignal'
    BY DEF Poll, ProcessorAt, ProcessorTo, Free, IInv, TypeOK, LoneSignal, Idle, Threads, SlotFilled
<1> QED BY <1>1, <1>2, <1>3, <1>4, <1>5 DEF IInv

\* A handler that holds the mutex keeps the thread out.
LEMMA ProcessorLocksIInv ==
    ASSUME SignalAssumption, IInv, NEW p \in Procs, ProcessorLocks(p)
    PROVE  IInv'
<1>1. TypeOK'
    BY DEF ProcessorLocks, ProcessorAt, ProcessorTo, Free, SignalAssumption, IInv, TypeOK, Runs
<1>2. SlotFilled'
    BY DEF ProcessorLocks, ProcessorAt, ProcessorTo, Free, IInv, TypeOK, SlotFilled
<1>3. ThreadFirst'
    BY DEF ProcessorLocks, ProcessorAt, ProcessorTo, Free, IInv, TypeOK, ThreadFirst
<1>4. Quiet'
    BY DEF ProcessorLocks, ProcessorAt, ProcessorTo, Free, IInv, TypeOK, Quiet, Idle, Threads
<1>5. LoneSignal'
    <2>1. Len(sent[p]) = 1 => \A t \in Threads : frames[p][t] = <<>>
        <3> SUFFICES ASSUME Len(sent[p]) = 1, NEW t \in Threads, frames[p][t] # <<>>
                     PROVE  FALSE
            OBVIOUS
        <3>1. Len(frames[p][t]) = 1 /\ frames[p][t] \in Seq(Frame)
            BY StackTyped DEF IInv, LoneSignal
        <3>2. frames[p][t][1].at \in {"lock", "store", "unlock"}
            BY <3>1, Top DEF Frame
        <3>3. ~Idle(p) /\ ~signalMutex[p]
            BY DEF ProcessorLocks, ProcessorAt, Idle
        <3> QED BY <3>2, <3>3 DEF IInv, LoneSignal
    <2>2. Len(sent[p]) = 1 => pending[p] = {}
        BY DEF ProcessorLocks, ProcessorAt, IInv, LoneSignal, Idle
    <2> QED BY <2>1, <2>2 DEF ProcessorLocks, IInv, TypeOK, LoneSignal, Idle, ProcessorTo
<1> QED BY <1>1, <1>2, <1>3, <1>4, <1>5 DEF IInv

\* The slot moves into the copy.
LEMMA ProcessorTakesIInv ==
    ASSUME SignalAssumption, IInv, NEW p \in Procs, ProcessorTakes(p)
    PROVE  IInv'
<1>1. TypeOK'
    BY DEF ProcessorTakes, ProcessorAt, ProcessorTo, Free, SignalAssumption, IInv, TypeOK, Runs
<1>2. SlotFilled'
    BY DEF ProcessorTakes, ProcessorAt, ProcessorTo, Free, IInv, TypeOK, SlotFilled
<1>3. ThreadFirst'
    BY DEF ProcessorTakes, ProcessorAt, ProcessorTo, Free, IInv, TypeOK, ThreadFirst
<1>4. Quiet'
    BY DEF ProcessorTakes, ProcessorAt, ProcessorTo, Free, IInv, TypeOK, Quiet, Idle, Threads
<1>5. LoneSignal'
    BY DEF ProcessorTakes, ProcessorAt, ProcessorTo, Free, IInv, TypeOK, LoneSignal, Idle, Threads, SlotFilled
<1> QED BY <1>1, <1>2, <1>3, <1>4, <1>5 DEF IInv

\* No handler of a lone signal is running.
LEMMA ProcessorUnlocksIInv ==
    ASSUME SignalAssumption, IInv, NEW p \in Procs, ProcessorUnlocks(p)
    PROVE  IInv'
<1>1. TypeOK'
    BY DEF ProcessorUnlocks, ProcessorAt, ProcessorTo, Free, SignalAssumption, IInv, TypeOK, Runs
<1>2. SlotFilled'
    BY DEF ProcessorUnlocks, ProcessorAt, ProcessorTo, Free, IInv, TypeOK, SlotFilled
<1>3. ThreadFirst'
    BY DEF ProcessorUnlocks, ProcessorAt, ProcessorTo, Free, IInv, TypeOK, ThreadFirst
<1>4. Quiet'
    BY DEF ProcessorUnlocks, ProcessorAt, ProcessorTo, Free, IInv, TypeOK, Quiet, Idle, Threads
<1>5. LoneSignal'
    BY DEF ProcessorUnlocks, ProcessorAt, ProcessorTo, Free, IInv, TypeOK, LoneSignal, Idle, Threads, SlotFilled
<1> QED BY <1>1, <1>2, <1>3, <1>4, <1>5 DEF IInv

\* The thread is done with the signal.
LEMMA AlarmedIInv ==
    ASSUME SignalAssumption, IInv, NEW p \in Procs, Alarmed(p)
    PROVE  IInv'
<1>1. TypeOK'
    BY DEF Alarmed, ProcessorAt, ProcessorTo, Free, SignalAssumption, IInv, TypeOK, Runs
<1>2. SlotFilled'
    BY DEF Alarmed, ProcessorAt, ProcessorTo, Free, IInv, TypeOK, SlotFilled
<1>3. ThreadFirst'
    BY DEF Alarmed, ProcessorAt, ProcessorTo, Free, IInv, TypeOK, ThreadFirst
<1>4. Quiet'
    BY DEF Alarmed, ProcessorAt, ProcessorTo, Free, IInv, TypeOK, Quiet, Idle, Threads
<1>5. LoneSignal'
    BY DEF Alarmed, ProcessorAt, ProcessorTo, Free, IInv, TypeOK, LoneSignal, Idle, Threads, SlotFilled
<1> QED BY <1>1, <1>2, <1>3, <1>4, <1>5 DEF IInv


\* Nothing has happened to the process, when it is its first signal.
LEMMA SendIInv ==
    ASSUME SignalAssumption, IInv, NEW p \in Procs, NEW sig \in Signals, Send(p, sig)
    PROVE  IInv'
<1>1. Append(sent[p], sig) \in Seq(Signals) /\ Len(Append(sent[p], sig)) = Len(sent[p]) + 1
      /\ Append(sent[p], sig) # <<>> /\ Len(sent[p]) \in Nat
    <2>1. sent[p] \in Seq(Signals)
        BY DEF IInv, TypeOK
    <2> QED BY <2>1
<1>2. /\ sent' = [sent EXCEPT ![p] = Append(sent[p], sig)] /\ pending' = [pending EXCEPT ![p] = @ \cup {sig}]
      /\ UNCHANGED <<processor, installed, sigNum, sigNumCopy, signalMutex, frames>>
    BY DEF Send
<1>3. TypeOK'
    BY <1>1, <1>2 DEF IInv, TypeOK
<1>4. SlotFilled'
    BY <1>2 DEF IInv, SlotFilled
<1>5. ThreadFirst'
    BY <1>2 DEF IInv, ThreadFirst
<1>6. Quiet'
    BY <1>1, <1>2 DEF IInv, TypeOK, Quiet, Idle
<1>7. LoneSignal'
    <2>1. Len(sent'[p]) = 1 => sent[p] = <<>>
        BY <1>1, <1>2 DEF IInv, TypeOK
    <2>2. Len(sent'[p]) = 1 => /\ Idle(p)' /\ pending'[p] = {sig}
                               /\ \A t \in Threads : frames'[p][t] = <<>>
        BY <2>1, <1>2 DEF IInv, TypeOK, Quiet, Idle
    <2>3. \A q \in Procs \ {p} : sent'[q] = sent[q] /\ pending'[q] = pending[q] /\ (Idle(q)' <=> Idle(q))
        BY <1>2 DEF IInv, TypeOK, Idle
    <2> QED BY <2>2, <2>3, <1>2 DEF IInv, LoneSignal
<1> QED BY <1>3, <1>4, <1>5, <1>6, <1>7 DEF IInv

\* The signal that was pending is in one handler now.
LEMMA DeliverIInv ==
    ASSUME SignalAssumption, IInv, NEW p \in Procs, NEW t \in Threads, NEW sig \in Signals, Deliver(p, t, sig)
    PROVE  IInv'
<1>1. [sig |-> sig, at |-> "lock"] \in Frame /\ frames[p][t] \in Seq(Frame)
    BY StackTyped DEF Frame, IInv
<1> DEFINE stack == Append(frames[p][t], [sig |-> sig, at |-> "lock"])
<1>2. stack \in Seq(Frame) /\ stack # <<>>
      /\ (frames[p][t] = <<>> => Len(stack) = 1 /\ stack[1] = [sig |-> sig, at |-> "lock"])
    BY <1>1, Pushed
<1>3. frames' = [frames EXCEPT ![p][t] = stack] /\ pending' = [pending EXCEPT ![p] = @ \ {sig}]
      /\ sig \in pending[p]
      /\ UNCHANGED <<processor, installed, sigNum, sigNumCopy, signalMutex, sent>>
    BY DEF Deliver
<1>4. installed[p] # 0 /\ processor[p] \notin {"none", "ended"}
    BY DEF Deliver, HasHandler, IInv, TypeOK, ThreadFirst
<1> HIDE DEF stack
<1>7. TypeOK'
    <2>1. frames' \in [Procs -> [Threads -> Seq(Frame)]]
        BY <1>2, <1>3 DEF IInv, TypeOK, Frame
    <2> QED BY <2>1, <1>3 DEF IInv, TypeOK, Frame
<1>8. SlotFilled'
    BY <1>3 DEF IInv, SlotFilled
<1>9. ThreadFirst'
    BY <1>3 DEF IInv, ThreadFirst
<1>10. Quiet'
    <2>1. sent[p] # <<>>
        BY <1>3 DEF IInv, Quiet
    <2> QED BY <2>1, <1>3 DEF IInv, TypeOK, Quiet, Idle
<1>11. LoneSignal'
    <2>1. ASSUME Len(sent[p]) = 1
          PROVE  /\ Idle(p) /\ pending'[p] = {} /\ frames[p][t] = <<>>
                 /\ \A u \in Threads \ {t} : frames'[p][u] = <<>>
                 /\ frames'[p][t] = stack /\ processor[p] \in {"none", "poll", "ended"}
        BY <2>1, <1>3 DEF IInv, TypeOK, LoneSignal, Idle
    <2>2. Len(sent[p]) = 1 => processor[p] = "poll"
        BY <2>1, <1>4
    <2>3. \A q \in Procs \ {p} : frames'[q] = frames[q] /\ pending'[q] = pending[q] /\ (Idle(q)' <=> Idle(q))
        BY <1>3 DEF IInv, TypeOK, Idle
    <2>4. Idle(p)' <=> Idle(p)
        BY <1>3 DEF Idle
    <2> QED BY <2>1, <2>2, <2>3, <2>4, <1>2, <1>3 DEF IInv, LoneSignal
<1> QED BY <1>7, <1>8, <1>9, <1>10, <1>11 DEF IInv

\* Nothing is left of the process.
LEMMA EndsIInv ==
    ASSUME SignalAssumption, IInv, NEW p \in Procs, ProcessEnds(p)
    PROVE  IInv'
<1>1. TypeOK'
    <2>1. [t \in Threads |-> <<>>] \in [Threads -> Seq(Frame)]
        OBVIOUS
    <2>2. installed' \in [Procs -> 0 .. Len(validSignal)]
        BY DEF ProcessEnds, SignalAssumption, IInv, TypeOK
    <2> QED BY <2>1, <2>2 DEF ProcessEnds, IInv, TypeOK, Frame
<1>2. SlotFilled'
    BY DEF ProcessEnds, IInv, TypeOK, SlotFilled
<1>3. ThreadFirst'
    BY DEF ProcessEnds, IInv, TypeOK, ThreadFirst
<1>4. Quiet'
    BY DEF ProcessEnds, IInv, TypeOK, Quiet, Idle
<1>5. LoneSignal'
    BY DEF ProcessEnds, IInv, TypeOK, LoneSignal, Idle
<1> QED BY <1>1, <1>2, <1>3, <1>4, <1>5 DEF IInv

\* The handler of a lone signal holds the mutex from here on.
LEMMA CatcherLocksIInv ==
    ASSUME SignalAssumption, IInv, NEW p \in Procs, NEW t \in Threads, CatcherLocks(p, t)
    PROVE  IInv'
<1> DEFINE n == Len(frames[p][t])
           stack == [frames[p][t] EXCEPT ![n].at = "store"]
<1>1. frames[p][t] \in Seq(Frame) /\ frames[p][t] # <<>> /\ frames[p][t][n].at = "lock"
    BY StackTyped DEF CatcherLocks, Handles, Free, IInv
<1>2. stack \in Seq(Frame) /\ Len(stack) = n /\ stack[n].at = "store" /\ stack # <<>>
    BY <1>1, TopReplaced
<1>3. /\ frames' = [frames EXCEPT ![p][t] = stack] /\ signalMutex' = [signalMutex EXCEPT ![p] = TRUE]
      /\ UNCHANGED <<processor, installed, sigNum, sigNumCopy, pending, sent>>
    BY DEF CatcherLocks, Continue
<1>4. frames[p][t][n] \in Frame
    BY <1>1, Top
<1> HIDE DEF stack
<1>5. TypeOK'
    <2>1. frames' \in [Procs -> [Threads -> Seq(Frame)]]
        BY <1>2, <1>3 DEF IInv, TypeOK, Frame
    <2>2. frames[p][t][n].sig \in Signals
        BY <1>4 DEF Frame
    <2> QED BY <2>1, <2>2, <1>3 DEF IInv, TypeOK, Frame
<1>6. SlotFilled'
    BY <1>3, <1>4 DEF SignalAssumption, IInv, TypeOK, SlotFilled, Frame
<1>7. ThreadFirst'
    BY <1>3 DEF IInv, ThreadFirst
<1>8. Quiet'
    <2>1. sent[p] # <<>>
        BY <1>1 DEF IInv, Quiet
    <2> QED BY <2>1, <1>3 DEF IInv, TypeOK, Quiet, Idle
<1>9. LoneSignal'
    <2>1. ASSUME Len(sent[p]) = 1
          PROVE  /\ n = 1 /\ pending[p] = {} /\ Idle(p) /\ processor[p] \in {"poll", "lock"}
                 /\ \A u \in Threads \ {t} : frames'[p][u] = <<>>
                 /\ frames'[p][t] = stack /\ signalMutex'[p]
        BY <2>1, <1>1, <1>3 DEF IInv, TypeOK, LoneSignal
    <2>2. \A q \in Procs \ {p} : frames'[q] = frames[q] /\ signalMutex'[q] = signalMutex[q] /\ (Idle(q)' <=> Idle(q))
        BY <1>3 DEF IInv, TypeOK, Idle
    <2>3. Idle(p)' <=> Idle(p)
        BY <1>3 DEF Idle
    <2> QED BY <2>1, <2>2, <2>3, <1>2, <1>3 DEF IInv, LoneSignal
<1> QED BY <1>5, <1>6, <1>7, <1>8, <1>9 DEF IInv

\* The lone signal is in the slot.
LEMMA CatcherStoresIInv ==
    ASSUME SignalAssumption, IInv, NEW p \in Procs, NEW t \in Threads, CatcherStores(p, t)
    PROVE  IInv'
<1> DEFINE n == Len(frames[p][t])
           stack == [frames[p][t] EXCEPT ![n].at = "unlock"]
<1>1. frames[p][t] \in Seq(Frame) /\ frames[p][t] # <<>> /\ frames[p][t][n].at = "store"
    BY StackTyped DEF CatcherStores, Handles, Free, IInv
<1>2. stack \in Seq(Frame) /\ Len(stack) = n /\ stack[n].at = "unlock" /\ stack # <<>>
    BY <1>1, TopReplaced
<1>3. /\ frames' = [frames EXCEPT ![p][t] = stack] /\ sigNum' = [sigNum EXCEPT ![p] = frames[p][t][n].sig]
      /\ UNCHANGED <<processor, installed, signalMutex, sigNumCopy, pending, sent>>
    BY DEF CatcherStores, Continue
<1>4. frames[p][t][n] \in Frame
    BY <1>1, Top
<1> HIDE DEF stack
<1>5. TypeOK'
    <2>1. frames' \in [Procs -> [Threads -> Seq(Frame)]]
        BY <1>2, <1>3 DEF IInv, TypeOK, Frame
    <2>2. frames[p][t][n].sig \in Signals
        BY <1>4 DEF Frame
    <2> QED BY <2>1, <2>2, <1>3 DEF IInv, TypeOK, Frame
<1>6. SlotFilled'
    BY <1>3, <1>4 DEF SignalAssumption, IInv, TypeOK, SlotFilled, Frame
<1>7. ThreadFirst'
    BY <1>3 DEF IInv, ThreadFirst
<1>8. Quiet'
    <2>1. sent[p] # <<>>
        BY <1>1 DEF IInv, Quiet
    <2> QED BY <2>1, <1>3 DEF IInv, TypeOK, Quiet, Idle
<1>9. LoneSignal'
    <2>1. ASSUME Len(sent[p]) = 1
          PROVE  /\ n = 1 /\ pending[p] = {} /\ Idle(p) /\ processor[p] \in {"poll", "lock"}
                 /\ \A u \in Threads \ {t} : frames'[p][u] = <<>>
                 /\ frames'[p][t] = stack /\ signalMutex'[p]
        BY <2>1, <1>1, <1>3 DEF IInv, TypeOK, LoneSignal
    <2>2. \A q \in Procs \ {p} : frames'[q] = frames[q] /\ signalMutex'[q] = signalMutex[q] /\ (Idle(q)' <=> Idle(q))
        BY <1>3 DEF IInv, TypeOK, Idle
    <2>3. stack[n].at = "unlock"
        BY <1>2
    <2> QED BY <2>1, <2>2, <2>3, <1>2, <1>3 DEF IInv, LoneSignal
<1> QED BY <1>5, <1>6, <1>7, <1>8, <1>9 DEF IInv

\* The handler of a lone signal is gone, and with it what the mutex was held for.
LEMMA CatcherUnlocksIInv ==
    ASSUME SignalAssumption, IInv, NEW p \in Procs, NEW t \in Threads, CatcherUnlocks(p, t)
    PROVE  IInv'
<1> DEFINE n == Len(frames[p][t])
           stack == SubSeq(frames[p][t], 1, n - 1)
<1>1. frames[p][t] \in Seq(Frame) /\ frames[p][t] # <<>>
    BY StackTyped DEF CatcherUnlocks, Handles, Free, IInv
<1>2. stack \in Seq(Frame) /\ (n = 1 => stack = <<>>)
    BY <1>1, Popped
<1>3. /\ frames' = [frames EXCEPT ![p][t] = stack] /\ signalMutex' = [signalMutex EXCEPT ![p] = FALSE]
      /\ UNCHANGED <<processor, installed, sigNum, sigNumCopy, pending, sent>>
    BY DEF CatcherUnlocks
<1> HIDE DEF stack
<1>4. TypeOK'
    <2>1. frames' \in [Procs -> [Threads -> Seq(Frame)]]
        BY <1>2, <1>3 DEF IInv, TypeOK, Frame
    <2> QED BY <2>1, <1>3 DEF IInv, TypeOK, Frame
<1>5. SlotFilled'
    BY <1>3 DEF IInv, SlotFilled
<1>6. ThreadFirst'
    BY <1>3 DEF IInv, ThreadFirst
<1>7. Quiet'
    <2>1. sent[p] # <<>>
        BY <1>1 DEF IInv, Quiet
    <2> QED BY <2>1, <1>3 DEF IInv, TypeOK, Quiet, Idle
<1>8. LoneSignal'
    <2>1. ASSUME Len(sent[p]) = 1
          PROVE  pending[p] = {} /\ \A u \in Threads : frames'[p][u] = <<>>
        BY <2>1, <1>1, <1>2, <1>3 DEF IInv, TypeOK, LoneSignal
    <2>2. \A q \in Procs \ {p} : frames'[q] = frames[q] /\ signalMutex'[q] = signalMutex[q] /\ (Idle(q)' <=> Idle(q))
        BY <1>3 DEF IInv, TypeOK, Idle
    <2> QED BY <2>1, <2>2, <1>3 DEF IInv, LoneSignal
<1> QED BY <1>4, <1>5, <1>6, <1>7, <1>8 DEF IInv

-----------------------------------------------------------------------------

\* The invariant holds in every state the system comes to.
THEOREM Invariance ==
    ASSUME SignalAssumption
    PROVE  Spec => []IInv
<1>1. Init => IInv
    <2> SUFFICES ASSUME Init PROVE IInv
        OBVIOUS
    <2>1. TypeOK
        <3>1. [t \in Threads |-> <<>>] \in [Threads -> Seq(Frame)] /\ <<>> \in Seq(Signals)
            OBVIOUS
        <3>2. installed \in [Procs -> 0 .. Len(validSignal)]
            BY DEF Init, SignalAssumption
        <3> QED BY <3>1, <3>2 DEF Init, TypeOK, Frame
    <2>2. \A p \in Procs : sent[p] = <<>> /\ pending[p] = {} /\ Idle(p)
                            /\ \A t \in Threads : frames[p][t] = <<>>
        BY DEF Init, Idle
    <2> QED BY <2>1, <2>2 DEF Init, IInv, SlotFilled, ThreadFirst, Quiet, LoneSignal
<1>2. IInv /\ [Next]_sigVars => IInv'
    <2>1. ASSUME IInv, UNCHANGED sigVars PROVE IInv'
        <3>1. UNCHANGED <<processor, installed, sigNum, sigNumCopy, signalMutex, frames, pending, sent>>
            BY <2>1 DEF sigVars
        <3>2. TypeOK' /\ SlotFilled' /\ ThreadFirst'
            BY <2>1, <3>1 DEF IInv, TypeOK, SlotFilled, ThreadFirst
        <3>3. Quiet' /\ LoneSignal'
            BY <2>1, <3>1, Zenon DEF IInv, Quiet, LoneSignal, Idle
        <3> QED BY <3>2, <3>3 DEF IInv
    <2>2. ASSUME IInv, NEW p \in Procs,
                 Create(p) \/ Install(p) \/ Default(p) \/ Exit(p) \/ threadSignalProcessor(p)
          PROVE  IInv'
        BY <2>2, CreateIInv, InstallIInv, EndsIInv, PollIInv, ProcessorLocksIInv, ProcessorTakesIInv,
           ProcessorUnlocksIInv, AlarmedIInv DEF Default, Exit, threadSignalProcessor
    <2>3. ASSUME IInv, NEW p \in Procs, NEW s \in Signals, Send(p, s) PROVE IInv'
        BY <2>3, SendIInv
    <2>4. ASSUME IInv, NEW p \in Procs, NEW t \in Threads, NEW s \in Signals, Deliver(p, t, s) PROVE IInv'
        BY <2>4, DeliverIInv
    <2>5. ASSUME IInv, NEW p \in Procs, NEW t \in Threads, staticSignalCatcher(p, t) PROVE IInv'
        BY <2>5, CatcherLocksIInv, CatcherStoresIInv, CatcherUnlocksIInv DEF staticSignalCatcher
    <2> QED BY <2>1, <2>2, <2>3, <2>4, <2>5 DEF Next
<1> QED BY <1>1, <1>2, PTL DEF Spec

\* The processing thread never acts on an empty slot, although it looks without the lock.
THEOREM SlotNeverEmpty ==
    ASSUME SignalAssumption
    PROVE  Spec => []NeverUnknown
<1>1. IInv => NeverUnknown
    BY DEF IInv, SlotFilled, NeverUnknown
<1> QED BY <1>1, Invariance, PTL

\* A process that has been sent one signal, or none, is not stuck.
THEOREM LoneSignalPasses ==
    ASSUME SignalAssumption
    PROVE  Spec => []StuckNeedsTwo
<1>1. IInv => StuckNeedsTwo
    <2> SUFFICES ASSUME IInv, NEW p \in Procs, Stuck(p), ~(Len(sent[p]) > 1) PROVE FALSE
        BY DEF StuckNeedsTwo
    <2>1. PICK t \in Threads : /\ Handles(p, t, "lock")
                               /\ \/ t = "processor" /\ processor[p] \in {"take", "unlock"}
                                  \/ \E i \in DOMAIN frames[p][t] : frames[p][t][i].at # "lock"
        BY DEF Stuck
    <2>2. frames[p][t] # <<>> /\ frames[p][t] \in Seq(Frame)
        BY <2>1, StackTyped DEF Handles, Free, IInv
    <2>3. Len(sent[p]) = 1
        <3>1. sent[p] \in Seq(Signals) /\ sent[p] # <<>>
            BY <2>2 DEF IInv, TypeOK, Quiet
        <3>2. \A q \in Seq(Signals) : q # <<>> => Len(q) \in Nat /\ Len(q) >= 1
            OBVIOUS
        <3>3. Len(sent[p]) \in Nat /\ Len(sent[p]) >= 1
            BY <3>1, <3>2
        <3>4. \A n \in Nat : n >= 1 /\ ~(n > 1) => n = 1
            OBVIOUS
        <3> QED BY <3>3, <3>4, Zenon
    <2>4. Len(frames[p][t]) = 1 /\ processor[p] \in {"poll", "lock"}
        BY <2>2, <2>3 DEF IInv, LoneSignal
    <2>5. DOMAIN frames[p][t] = {1}
        BY <2>2, <2>4
    <2> QED BY <2>1, <2>4, <2>5 DEF Handles
<1> QED BY <1>1, Invariance, PTL

\* The types hold for any number of signals and handlers.
THEOREM TypeCorrect ==
    ASSUME SignalAssumption
    PROVE  Spec => []TypeOK
<1>1. IInv => TypeOK
    BY DEF IInv
<1> QED BY <1>1, Invariance, PTL

\* What a step does to the slot of a signal: only the processing thread empties it, into its
\* copy, and the end of the process.
LEMMA SlotStep ==
    ASSUME SignalAssumption, IInv, Next, NEW p \in Procs, sigNum'[p] = NoSignal, sigNum[p] # NoSignal
    PROVE  processor'[p] = "ended" \/ sigNumCopy'[p] = sigNum[p]
<1>1. /\ processor \in [Procs -> {"none", "poll", "lock", "take", "unlock", "switch", "ended"}]
      /\ DOMAIN sigNum = Procs /\ DOMAIN sigNumCopy = Procs
    BY DEF IInv, TypeOK
<1>2. ASSUME NEW q \in Procs, Create(q) \/ Install(q) \/ Poll(q) \/ ProcessorLocks(q)
                              \/ ProcessorUnlocks(q) \/ Alarmed(q)
      PROVE  FALSE
    BY <1>2 DEF Create, Install, Poll, ProcessorLocks, ProcessorUnlocks, Alarmed
<1>3. ASSUME NEW q \in Procs, NEW s \in Signals, NEW t \in Threads, Send(q, s) \/ Deliver(q, t, s)
      PROVE  FALSE
    BY <1>3 DEF Send, Deliver
<1>4. ASSUME NEW q \in Procs, ProcessEnds(q)
      PROVE  processor'[p] = "ended"
    BY <1>1, <1>4 DEF ProcessEnds
<1>5. ASSUME NEW q \in Procs, ProcessorTakes(q)
      PROVE  sigNumCopy'[p] = sigNum[p]
    BY <1>1, <1>5 DEF ProcessorTakes
<1>6. ASSUME NEW q \in Procs, NEW t \in Threads, CatcherLocks(q, t) \/ CatcherUnlocks(q, t)
      PROVE  FALSE
    BY <1>6 DEF CatcherLocks, CatcherUnlocks
<1>7. ASSUME NEW q \in Procs, NEW t \in Threads, CatcherStores(q, t)
      PROVE  FALSE
    <2>1. frames[q][t] \in Seq(Frame) /\ frames[q][t] # <<>>
        BY <1>7, StackTyped DEF CatcherStores, Handles, Free, IInv
    <2>2. frames[q][t][Len(frames[q][t])] \in Frame
        BY <2>1, Top
    <2>3. frames[q][t][Len(frames[q][t])].sig # NoSignal
        BY <2>2 DEF Frame, SignalAssumption
    <2> QED BY <1>1, <1>7, <2>3 DEF CatcherStores
<1>8. PICK q \in Procs :
        \/ Create(q) \/ Install(q)
        \/ \E s \in Signals : Send(q, s) \/ \E t \in Threads : Deliver(q, t, s)
        \/ Default(q) \/ Exit(q) \/ threadSignalProcessor(q)
        \/ \E t \in Threads : staticSignalCatcher(q, t)
    BY DEF Next
<1>9. Threads # {}
    BY DEF Threads
<1> QED BY <1>2, <1>3, <1>4, <1>5, <1>6, <1>7, <1>8, <1>9
    DEF Default, Exit, threadSignalProcessor, staticSignalCatcher

\* A signal leaves the slot only for the processing thread, or for a later signal.
THEOREM SlotHandedOn ==
    ASSUME SignalAssumption
    PROVE  Spec => TakenOrReplaced
<1>1. IInv /\ [Next]_sigVars =>
        [\A p \in Procs : sigNum'[p] = NoSignal /\ sigNum[p] # NoSignal
            => processor'[p] = "ended" \/ sigNumCopy'[p] = sigNum[p]]_sigVars
    BY SlotStep
<1> QED BY <1>1, Invariance, PTL DEF Spec, TakenOrReplaced
=============================================================================
