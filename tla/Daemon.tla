------------------------------- MODULE Daemon -------------------------------
(***************************************************************************)
(* A program that calls AMCAppAlreadyRunning and, when it may run,         *)
(* AMCSignalRegister, in several processes: PidFile and SignalHandler      *)
(* together.  A signal ends a process in the middle of the first call, by  *)
(* its default action, and from the processing thread after the second;    *)
(* nobody removes the pid file.                                            *)
(***************************************************************************)
EXTENDS PidFile, Sequences, FiniteSetsExt

CONSTANTS
    validSignal, SIGALRM, NoSignal,
    MaxSent           \* bound: signals sent, to all processes together

VARIABLES processor, installed, sigNum, sigNumCopy, signalMutex, frames, pending, sent

S == INSTANCE SignalHandler

ASSUME DaemonAssumption ==
    /\ SIGALRM \in S!Signals /\ NoSignal \notin S!Signals
    /\ validSignal \in Seq(S!Signals) /\ MaxSent \in Nat

sigVars == <<processor, installed, sigNum, sigNumCopy, signalMutex, frames, pending, sent>>
allVars == <<vars, sigVars>>

DaemonInit == Init /\ S!Init

\* A call of AMCAppAlreadyRunning.
Starts(p) == Call(p) /\ UNCHANGED sigVars
Answers(p) == (Stat(p) \/ Read(p) \/ Kill(p) \/ Unlink(p) \/ Open(p) \/ Write(p)) /\ UNCHANGED sigVars

\* AMCSignalRegister.
Registers(p) == pc[p] = "running" /\ (S!Create(p) \/ S!Install(p)) /\ UNCHANGED vars

AllSent == MapThenSumSet(LAMBDA p : Len(sent[p]), Procs)

Sends(p) ==
    /\ InCall(p) \/ pc[p] = "running"
    /\ AllSent < MaxSent
    /\ \E s \in S!Signals : S!Send(p, s)
    /\ UNCHANGED vars

Delivers(p) == (\E t \in S!Threads, s \in S!Signals : S!Deliver(p, t, s)) /\ UNCHANGED vars

Catches(p, t) == S!staticSignalCatcher(p, t) /\ UNCHANGED vars

Processes(p) == S!threadSignalProcessor(p) /\ UNCHANGED vars

Exits(p) == S!Exit(p) /\ End(p)

\* The default action of a signal ends the process.
Dies(p) == S!Default(p) /\ End(p)

DaemonNext ==
    \E p \in Procs :
        \/ Starts(p) \/ Answers(p) \/ Registers(p) \/ Sends(p) \/ Delivers(p) \/ Dies(p)
        \/ \E t \in S!Threads : Catches(p, t)
        \/ Processes(p) \/ Exits(p)

Main(p) == Answers(p) \/ Registers(p) \/ Catches(p, "main")
Processor(p) == Processes(p) \/ Exits(p) \/ Catches(p, "processor")
Kernel(p) == Delivers(p) \/ Dies(p)

\* Both threads run, and the kernel delivers what is pending.
DaemonSpec ==
    /\ DaemonInit /\ [][DaemonNext]_allVars
    /\ \A p \in Procs : WF_allVars(Main(p)) /\ WF_allVars(Processor(p)) /\ WF_allVars(Kernel(p))

-----------------------------------------------------------------------------
(* Properties                                                               *)

DaemonTypeOK == TypeOK /\ S!TypeOK

NeverUnknown == S!NeverUnknown
TakenOrReplaced == S!TakenOrReplaced
StuckNeedsTwo == S!StuckNeedsTwo
EndingSignalEnds == S!EndingSignalEnds
=============================================================================
