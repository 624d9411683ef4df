------------------------------ MODULE PidFile -------------------------------
(***************************************************************************)
(* AMCAppAlreadyRunning of AMCCommonLib.c: several processes of one user's *)
(* program decide by a pid file which of them may run.  The steps are the  *)
(* system calls; a process may end between any two of them and leaves the  *)
(* file behind.  A pid is the name of its process and does not come again. *)
(***************************************************************************)
EXTENDS Naturals

CONSTANTS
    Procs,
    NoFile,
    Ends,             \* the labels at which a process may end
    StaleRace         \* calls may overlap after a process has ended

CallLabels == {"stat", "read", "kill", "unlink", "open", "write"}

ASSUME PidFileAssumption ==
    NoFile \notin Procs /\ Ends \subseteq CallLabels \cup {"running", "refused"} /\ StaleRace \in BOOLEAN

VARIABLES
    file,             \* the process that created the pid file, or NoFile
    written,          \* it has written its pid to the file
    pc,
    prevProcPid,      \* the pid each process read
    company           \* history: others were in a call or running during the call

vars == <<file, written, pc, prevProcPid, company>>

InCall(p) == pc[p] \in CallLabels
Alive(p) == pc[p] \notin {"off", "ended"}
AllAlive == \A p \in Procs : pc[p] # "ended"
Others(p) == \E q \in Procs \ {p} : pc[q] = "running" \/ InCall(q)

Goto(p, label) ==
    /\ pc' = [pc EXCEPT ![p] = label]
    /\ company' = [q \in Procs |->
                    IF InCall(q)' THEN (company[q] /\ pc[q] # "off") \/ Others(q)'
                    ELSE company[q]]

Init ==
    /\ file = NoFile /\ written = FALSE
    /\ pc = [p \in Procs |-> "off"]
    /\ prevProcPid = [p \in Procs |-> NoFile]
    /\ company = [p \in Procs |-> FALSE]

-----------------------------------------------------------------------------
Call(p) ==
    /\ pc[p] = "off"
    /\ StaleRace \/ AllAlive \/ ~\E q \in Procs : InCall(q)
    /\ prevProcPid' = [prevProcPid EXCEPT ![p] = NoFile]
    /\ Goto(p, "stat")
    /\ UNCHANGED <<file, written>>

Stat(p) ==
    /\ pc[p] = "stat"
    /\ Goto(p, IF file = NoFile THEN "open" ELSE "read")
    /\ UNCHANGED <<file, written, prevProcPid>>

\* Faulty: an empty file is parsed like any other.
Read_Empty(p) ==
    /\ pc[p] = "read"
    /\ prevProcPid' = [prevProcPid EXCEPT ![p] = IF written THEN file ELSE NoFile]
    /\ Goto(p, IF file = NoFile THEN "open" ELSE "kill")
    /\ UNCHANGED <<file, written>>

\* An empty file stands for a running process, a file gone meanwhile for none.
Read(p) ==
    /\ pc[p] = "read"
    /\ prevProcPid' = [prevProcPid EXCEPT ![p] = IF written THEN file ELSE NoFile]
    /\ Goto(p, IF file = NoFile THEN "open" ELSE IF written THEN "kill" ELSE "refused")
    /\ UNCHANGED <<file, written>>

\* Faulty: takes the answer of kill the wrong way round.
Kill_Inverted(p) ==
    /\ pc[p] = "kill"
    /\ Goto(p, IF Alive(prevProcPid[p]) THEN "unlink" ELSE "refused")
    /\ UNCHANGED <<file, written, prevProcPid>>

Kill(p) ==
    /\ pc[p] = "kill"
    /\ Goto(p, IF Alive(prevProcPid[p]) THEN "refused" ELSE "unlink")
    /\ UNCHANGED <<file, written, prevProcPid>>

\* Removes whatever file is there now.
Unlink(p) ==
    /\ pc[p] = "unlink"
    /\ file' = NoFile /\ written' = FALSE
    /\ Goto(p, "open")
    /\ UNCHANGED prevProcPid

\* Faulty: opens without O_EXCL.
Open_Shared(p) ==
    /\ pc[p] = "open"
    /\ file' = p /\ written' = FALSE
    /\ Goto(p, "write")
    /\ UNCHANGED prevProcPid

\* O_EXCL: the open fails when there is a file.
Open(p) ==
    /\ pc[p] = "open"
    /\ IF file = NoFile
       THEN file' = p /\ written' = FALSE /\ Goto(p, "write")
       ELSE Goto(p, "refused") /\ UNCHANGED <<file, written>>
    /\ UNCHANGED prevProcPid

\* The file may have been unlinked since; then the pid goes nowhere.
Write(p) ==
    /\ pc[p] = "write"
    /\ written' = (written \/ file = p)
    /\ Goto(p, "running")
    /\ UNCHANGED <<file, prevProcPid>>

-----------------------------------------------------------------------------
\* The process ends or is killed.  Nothing removes the file.
End(p) ==
    /\ pc[p] \in Ends
    /\ StaleRace \/ \A q, r \in Procs : InCall(q) /\ InCall(r) => q = r
    /\ Goto(p, "ended")
    /\ UNCHANGED <<file, written, prevProcPid>>

Next == \E p \in Procs :
    \/ Call(p) \/ Stat(p) \/ Read(p) \/ Kill(p) \/ Unlink(p) \/ Open(p) \/ Write(p)
    \/ End(p)

Spec == Init /\ [][Next]_vars

-----------------------------------------------------------------------------
(* Properties                                                               *)

\* A pid that is probed with kill was read from the file.
TypeOK ==
    /\ file \in Procs \cup {NoFile} /\ written \in BOOLEAN
    /\ pc \in [Procs -> CallLabels \cup {"off", "running", "refused", "ended"}]
    /\ prevProcPid \in [Procs -> Procs \cup {NoFile}]
    /\ company \in [Procs -> BOOLEAN]
    /\ \A p \in Procs : pc[p] = "kill" => prevProcPid[p] \in Procs

\* AMCAppAlreadyRunning never lets two processes run side by side.
AtMostOneRunning ==
    \A p, q \in Procs : pc[p] = "running" /\ pc[q] = "running" => p = q

\* The process that created the file ended before it wrote to it.
Orphaned == file # NoFile /\ ~written /\ ~Alive(file)

\* It refuses a process only on account of another one: what ended processes leave behind
\* keeps nobody out, unless one ended before its write.
NeverRefusedAlone == \A p \in Procs : pc[p] = "refused" => company[p] \/ Orphaned
=============================================================================
