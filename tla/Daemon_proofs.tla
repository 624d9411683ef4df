---------------------------- MODULE Daemon_proofs ----------------------------
(***************************************************************************)
(* For any number of processes, of PidFile first: when the calls that      *)
(* follow the end of a process do not overlap, at most one process runs,   *)
(* and none is refused without another one or a file that was never        *)
(* written.  Then of the daemon: together the pid file and the signals     *)
(* keep what each promises alone, for every step of the daemon is a step   *)
(* of PidFile or leaves it alone, and the same of SignalHandler.           *)
(***************************************************************************)
EXTENDS Daemon, TLAPS

\* Who created the file is writing it, has written it and went on, or has ended.
FileOwner ==
    /\ file # NoFile => pc[file] \in {"write", "running", "ended"}
    /\ file # NoFile /\ ~written => pc[file] \in {"write", "ended"}
    /\ \A p \in Procs : pc[p] = "write" => file = p /\ ~written
    /\ \A p \in Procs : pc[p] = "running" => file = p /\ written

\* After the end of a process there is one call at a time.
OneCall == ~AllAlive => \A p, q \in Procs : InCall(p) /\ InCall(q) => p = q

\* The file is the one the pid was read from; it is unlinked only when its process has ended.
ReadFromFile ==
    /\ \A p \in Procs : pc[p] = "kill" => file = prevProcPid[p] /\ file # NoFile /\ written
    /\ \A p \in Procs : pc[p] = "unlink" => file # NoFile /\ written /\ pc[file] = "ended"

\* Whoever was beside a call has been noticed, and so has whoever created the file since
\* the call found none.
CompanyNoticed ==
    /\ \A p \in Procs : InCall(p) /\ Others(p) => company[p]
    /\ \A p \in Procs : pc[p] = "open" /\ file # NoFile => company[p]

\* The inductive invariant.
IInv == TypeOK /\ FileOwner /\ OneCall /\ ReadFromFile /\ CompanyNoticed /\ NeverRefusedAlone

\* Where a process may be.
Labels == CallLabels \cup {"off", "running", "refused", "ended"}

\* No calls overlap after the end of a process.
Paced == ~StaleRace

-----------------------------------------------------------------------------
(* The labels and the notes of company                                      *)

\* What every step does to the labels and to the notes of company.
Moved(p, label) ==
    /\ pc' \in [Procs -> Labels] /\ company' \in [Procs -> BOOLEAN]
    /\ pc'[p] = label /\ \A q \in Procs \ {p} : pc'[q] = pc[q]
    /\ \A q \in Procs : InCall(q)' /\ Others(q)' => company'[q]
    /\ \A q \in Procs : pc[q] # "off" /\ company[q] => company'[q]

\* Goto does just that.
LEMMA GotoEffect ==
    ASSUME TypeOK, NEW p \in Procs, NEW label \in Labels, Goto(p, label)
    PROVE  Moved(p, label)
<1>1. pc' = [pc EXCEPT ![p] = label] /\ pc \in [Procs -> Labels]
    BY DEF Goto, TypeOK, Labels
<1>2. \A q \in Procs :
        company'[q] = IF InCall(q)' THEN (company[q] /\ pc[q] # "off") \/ Others(q)'
                      ELSE company[q]
    BY DEF Goto
<1>3. \A q \in Procs : company[q] \in BOOLEAN
    BY DEF TypeOK
<1>4. \A q \in Procs : InCall(q)' \in BOOLEAN /\ Others(q)' \in BOOLEAN
    BY DEF InCall, Others
<1>5. company' \in [Procs -> BOOLEAN]
    <2>1. \A q \in Procs : company'[q] \in BOOLEAN
        BY <1>2, <1>3, <1>4, Zenon
    <2>2. company' = [q \in Procs |-> company'[q]]
        BY DEF Goto
    <2> QED BY <2>1, <2>2
<1>6. \A q \in Procs : InCall(q)' /\ Others(q)' => company'[q]
    BY <1>2, Zenon
<1>7. \A q \in Procs : pc[q] # "off" /\ company[q] => company'[q]
    BY <1>2, Zenon
<1> QED BY <1>1, <1>5, <1>6, <1>7 DEF Moved

-----------------------------------------------------------------------------
(* Steps                                                                    *)

USE DEF Moved

\* The call begins beside whoever runs or calls.
LEMMA CallIInv ==
    ASSUME Paced, IInv, NEW p \in Procs, Call(p)
    PROVE  IInv'
<1> DEFINE label == "stat"
<1>1. label \in Labels /\ Goto(p, label)
    BY DEF Call, Labels, CallLabels
<1>2. Moved(p, label)
    BY <1>1, GotoEffect DEF IInv
<1> HIDE DEF label
<1>3. TypeOK'
    BY <1>2, PidFileAssumption DEF Call, IInv, TypeOK, FileOwner, Labels, label
<1>4. FileOwner'
    BY <1>2, PidFileAssumption DEF Call, Paced, IInv, TypeOK, FileOwner, ReadFromFile, Labels, label
<1>5. OneCall'
    BY <1>2 DEF Call, Paced, IInv, OneCall, AllAlive, InCall, CallLabels, Labels, label
<1>6. ReadFromFile'
    BY <1>2 DEF Call, Paced, IInv, TypeOK, FileOwner, OneCall, ReadFromFile, AllAlive, InCall, CallLabels, Labels, label
<1>7. CompanyNoticed'
    BY <1>2 DEF Call, IInv, FileOwner, CompanyNoticed, InCall, Others, CallLabels, Labels, label
<1>8. Orphaned => Orphaned'
    BY <1>2, PidFileAssumption DEF Call, IInv, TypeOK, FileOwner, ReadFromFile, Orphaned, Alive, label
<1>9. NeverRefusedAlone'
    BY <1>2, <1>8 DEF Call, IInv, FileOwner, ReadFromFile, CompanyNoticed, NeverRefusedAlone, InCall, Others, CallLabels, Labels, label
<1> QED BY <1>3, <1>4, <1>5, <1>6, <1>7, <1>9 DEF IInv

\* A file that is not there is created next.
LEMMA StatIInv ==
    ASSUME Paced, IInv, NEW p \in Procs, Stat(p)
    PROVE  IInv'
<1> DEFINE label == IF file = NoFile THEN "open" ELSE "read"
<1>1. label \in Labels /\ Goto(p, label)
    BY DEF Stat, Labels, CallLabels
<1>2. Moved(p, label)
    BY <1>1, GotoEffect DEF IInv
<1> HIDE DEF label
<1>3. TypeOK'
    BY <1>2, PidFileAssumption DEF Stat, IInv, TypeOK, FileOwner, Labels, label
<1>4. FileOwner'
    BY <1>2, PidFileAssumption DEF Stat, Paced, IInv, TypeOK, FileOwner, ReadFromFile, Labels, label
<1>5. OneCall'
    BY <1>2 DEF Stat, Paced, IInv, OneCall, AllAlive, InCall, CallLabels, Labels, label
<1>6. ReadFromFile'
    BY <1>2 DEF Stat, Paced, IInv, TypeOK, FileOwner, OneCall, ReadFromFile, AllAlive, InCall, CallLabels, Labels, label
<1>7. CompanyNoticed'
    BY <1>2 DEF Stat, IInv, FileOwner, CompanyNoticed, InCall, Others, CallLabels, Labels, label
<1>8. Orphaned => Orphaned'
    BY <1>2, PidFileAssumption DEF Stat, IInv, TypeOK, FileOwner, ReadFromFile, Orphaned, Alive, label
<1>9. NeverRefusedAlone'
    BY <1>2, <1>8 DEF Stat, IInv, FileOwner, ReadFromFile, CompanyNoticed, NeverRefusedAlone, InCall, Others, CallLabels, Labels, label
<1> QED BY <1>3, <1>4, <1>5, <1>6, <1>7, <1>9 DEF IInv

\* An empty file has somebody who writes it, or one that ended before.
LEMMA ReadIInv ==
    ASSUME Paced, IInv, NEW p \in Procs, Read(p)
    PROVE  IInv'
<1> DEFINE label == IF file = NoFile THEN "open" ELSE IF written THEN "kill" ELSE "refused"
<1>1. label \in Labels /\ Goto(p, label)
    BY DEF Read, Labels, CallLabels
<1>2. Moved(p, label)
    BY <1>1, GotoEffect DEF IInv
<1> HIDE DEF label
<1>3. TypeOK'
    BY <1>2, PidFileAssumption DEF Read, IInv, TypeOK, FileOwner, Labels, label
<1>4. FileOwner'
    BY <1>2, PidFileAssumption DEF Read, Paced, IInv, TypeOK, FileOwner, ReadFromFile, Labels, label
<1>5. OneCall'
    BY <1>2 DEF Read, Paced, IInv, OneCall, AllAlive, InCall, CallLabels, Labels, label
<1>6. ReadFromFile'
    BY <1>2 DEF Read, Paced, IInv, TypeOK, FileOwner, OneCall, ReadFromFile, AllAlive, InCall, CallLabels, Labels, label
<1>7. CompanyNoticed'
    BY <1>2 DEF Read, IInv, FileOwner, CompanyNoticed, InCall, Others, CallLabels, Labels, label
<1>8. Orphaned => Orphaned'
    BY <1>2, PidFileAssumption DEF Read, IInv, TypeOK, FileOwner, ReadFromFile, Orphaned, Alive, label
<1>9. NeverRefusedAlone'
    <2>1. ASSUME pc'[p] = "refused", ~Orphaned PROVE company'[p]
        <3>1. pc[p] = "read" /\ file \in Procs \ {p} /\ pc[file] = "write"
            BY <2>1, <1>2, PidFileAssumption DEF Read, IInv, FileOwner, TypeOK, Orphaned, Alive, label
        <3>2. InCall(p) /\ Others(p)
            BY <3>1 DEF InCall, Others, CallLabels
        <3> QED BY <3>1, <3>2, <1>2 DEF IInv, CompanyNoticed
    <2>2. ASSUME NEW q \in Procs \ {p}, pc'[q] = "refused" PROVE company'[q] \/ Orphaned'
        BY <2>2, <1>2, <1>8 DEF IInv, NeverRefusedAlone
    <2> QED BY <1>8, <2>1, <2>2 DEF NeverRefusedAlone
<1> QED BY <1>3, <1>4, <1>5, <1>6, <1>7, <1>9 DEF IInv

\* The process whose pid was read created the file that is there.
LEMMA KillIInv ==
    ASSUME Paced, IInv, NEW p \in Procs, Kill(p)
    PROVE  IInv'
<1> DEFINE label == IF Alive(prevProcPid[p]) THEN "refused" ELSE "unlink"
<1>1. label \in Labels /\ Goto(p, label)
    BY DEF Kill, Labels, CallLabels
<1>2. Moved(p, label)
    BY <1>1, GotoEffect DEF IInv
<1> HIDE DEF label
<1>3. TypeOK'
    BY <1>2, PidFileAssumption DEF Kill, IInv, TypeOK, FileOwner, Labels, label
<1>4. FileOwner'
    BY <1>2, PidFileAssumption DEF Kill, Paced, IInv, TypeOK, FileOwner, ReadFromFile, Labels, label
<1>5. OneCall'
    BY <1>2 DEF Kill, Paced, IInv, OneCall, AllAlive, InCall, CallLabels, Labels, label
<1>6. ReadFromFile'
    <2>1. file = prevProcPid[p] /\ file \in Procs /\ file # p /\ written
        BY PidFileAssumption DEF Kill, IInv, TypeOK, FileOwner, ReadFromFile
    <2>2. ~Alive(file) => pc'[file] = "ended"
        BY <2>1, <1>2, PidFileAssumption DEF Alive, IInv, FileOwner
    <2>3. \A q \in Procs \ {p} : pc'[q] = pc[q]
        BY <1>2
    <2>4. pc'[p] = "unlink" => ~Alive(file)
        BY <2>1, <1>2 DEF label
    <2>5. pc'[p] # "kill" /\ file' = file /\ written' = written /\ prevProcPid' = prevProcPid
        BY <1>2 DEF Kill, label
    <2>6. \A q \in Procs : pc'[q] = "kill" => file' = prevProcPid'[q] /\ file' # NoFile /\ written'
        BY <2>3, <2>5 DEF IInv, ReadFromFile
    <2>7. \A q \in Procs : pc'[q] = "unlink" => file' # NoFile /\ written' /\ pc'[file'] = "ended"
        <3> SUFFICES ASSUME NEW q \in Procs, pc'[q] = "unlink" PROVE pc'[file] = "ended"
            BY <2>1, <2>5, PidFileAssumption
        <3>1. CASE q = p
            BY <3>1, <2>2, <2>4
        <3>2. CASE q # p
            BY <3>2, <2>1, <2>3 DEF IInv, ReadFromFile
        <3> QED BY <3>1, <3>2
    <2> QED BY <2>6, <2>7 DEF ReadFromFile
<1>7. CompanyNoticed'
    BY <1>2 DEF Kill, IInv, FileOwner, CompanyNoticed, InCall, Others, CallLabels, Labels, label
<1>8. Orphaned => Orphaned'
    BY <1>2, PidFileAssumption DEF Kill, IInv, TypeOK, FileOwner, ReadFromFile, Orphaned, Alive, label
<1>9. NeverRefusedAlone'
    <2>1. ASSUME pc'[p] = "refused" PROVE company'[p]
        <3>1. file = prevProcPid[p] /\ file \in Procs /\ pc[p] = "kill" /\ file # p
            BY PidFileAssumption DEF Kill, IInv, TypeOK, FileOwner, ReadFromFile
        <3>2. pc[file] \in {"write", "running"}
            BY <2>1, <3>1, <1>2, PidFileAssumption DEF Alive, IInv, FileOwner, TypeOK, label
        <3>3. InCall(p) /\ Others(p)
            BY <3>1, <3>2 DEF InCall, Others, CallLabels
        <3> QED BY <3>1, <3>3, <1>2 DEF IInv, CompanyNoticed
    <2>2. ASSUME NEW q \in Procs \ {p}, pc'[q] = "refused" PROVE company'[q] \/ Orphaned'
        BY <2>2, <1>2, <1>8 DEF IInv, NeverRefusedAlone
    <2> QED BY <1>8, <2>1, <2>2 DEF NeverRefusedAlone
<1> QED BY <1>3, <1>4, <1>5, <1>6, <1>7, <1>9 DEF IInv

\* Nobody else is in a call, so the file is still the one of the ended process.
LEMMA UnlinkIInv ==
    ASSUME Paced, IInv, NEW p \in Procs, Unlink(p)
    PROVE  IInv'
<1> DEFINE label == "open"
<1>1. label \in Labels /\ Goto(p, label)
    BY DEF Unlink, Labels, CallLabels
<1>2. Moved(p, label)
    BY <1>1, GotoEffect DEF IInv
<1> HIDE DEF label
<1>3. TypeOK'
    BY <1>2, PidFileAssumption DEF Unlink, IInv, TypeOK, FileOwner, Labels, label
<1>4. FileOwner'
    BY <1>2, PidFileAssumption DEF Unlink, Paced, IInv, TypeOK, FileOwner, ReadFromFile, Labels, label
<1>5. OneCall'
    BY <1>2 DEF Unlink, Paced, IInv, OneCall, AllAlive, InCall, CallLabels, Labels, label
<1>6. ReadFromFile'
    BY <1>2 DEF Unlink, Paced, IInv, TypeOK, FileOwner, OneCall, ReadFromFile, AllAlive, InCall, CallLabels, Labels, label
<1>7. CompanyNoticed'
    BY <1>2 DEF Unlink, IInv, FileOwner, CompanyNoticed, InCall, Others, CallLabels, Labels, label
<1>8. Orphaned => Orphaned'
    BY <1>2, PidFileAssumption DEF Unlink, IInv, TypeOK, FileOwner, ReadFromFile, Orphaned, Alive, label
<1>9. NeverRefusedAlone'
    BY <1>2, <1>8 DEF Unlink, IInv, FileOwner, ReadFromFile, CompanyNoticed, NeverRefusedAlone, InCall, Others, CallLabels, Labels, label
<1> QED BY <1>3, <1>4, <1>5, <1>6, <1>7, <1>9 DEF IInv

\* There is no file, so nobody runs or writes.
LEMMA OpenIInv ==
    ASSUME Paced, IInv, NEW p \in Procs, Open(p)
    PROVE  IInv'
<1> DEFINE label == IF file = NoFile THEN "write" ELSE "refused"
<1>1. label \in Labels /\ Goto(p, label)
    BY DEF Open, Labels, CallLabels
<1>2. Moved(p, label)
    BY <1>1, GotoEffect DEF IInv
<1> HIDE DEF label
<1>3. TypeOK'
    BY <1>2, PidFileAssumption DEF Open, IInv, TypeOK, FileOwner, Labels, label
<1>4. FileOwner'
    BY <1>2, PidFileAssumption DEF Open, Paced, IInv, TypeOK, FileOwner, ReadFromFile, Labels, label
<1>5. OneCall'
    BY <1>2 DEF Open, Paced, IInv, OneCall, AllAlive, InCall, CallLabels, Labels, label
<1>6. ReadFromFile'
    BY <1>2 DEF Open, Paced, IInv, TypeOK, FileOwner, OneCall, ReadFromFile, AllAlive, InCall, CallLabels, Labels, label
<1>7. CompanyNoticed'
    BY <1>2 DEF Open, IInv, FileOwner, CompanyNoticed, InCall, Others, CallLabels, Labels, label
<1>8. Orphaned => Orphaned'
    BY <1>2, PidFileAssumption DEF Open, IInv, TypeOK, FileOwner, ReadFromFile, Orphaned, Alive, label
<1>9. NeverRefusedAlone'
    BY <1>2, <1>8 DEF Open, IInv, FileOwner, ReadFromFile, CompanyNoticed, NeverRefusedAlone, InCall, Others, CallLabels, Labels, label
<1> QED BY <1>3, <1>4, <1>5, <1>6, <1>7, <1>9 DEF IInv

\* The writer created the file that is there.
LEMMA WriteIInv ==
    ASSUME Paced, IInv, NEW p \in Procs, Write(p)
    PROVE  IInv'
<1> DEFINE label == "running"
<1>1. label \in Labels /\ Goto(p, label)
    BY DEF Write, Labels, CallLabels
<1>2. Moved(p, label)
    BY <1>1, GotoEffect DEF IInv
<1> HIDE DEF label
<1>3. TypeOK'
    BY <1>2, PidFileAssumption DEF Write, IInv, TypeOK, FileOwner, Labels, label
<1>4. FileOwner'
    BY <1>2, PidFileAssumption DEF Write, Paced, IInv, TypeOK, FileOwner, ReadFromFile, Labels, label
<1>5. OneCall'
    BY <1>2 DEF Write, Paced, IInv, OneCall, AllAlive, InCall, CallLabels, Labels, label
<1>6. ReadFromFile'
    BY <1>2 DEF Write, Paced, IInv, TypeOK, FileOwner, OneCall, ReadFromFile, AllAlive, InCall, CallLabels, Labels, label
<1>7. CompanyNoticed'
    BY <1>2 DEF Write, IInv, FileOwner, CompanyNoticed, InCall, Others, CallLabels, Labels, label
<1>8. Orphaned => Orphaned'
    BY <1>2, PidFileAssumption DEF Write, IInv, TypeOK, FileOwner, ReadFromFile, Orphaned, Alive, label
<1>9. NeverRefusedAlone'
    BY <1>2, <1>8 DEF Write, IInv, FileOwner, ReadFromFile, CompanyNoticed, NeverRefusedAlone, InCall, Others, CallLabels, Labels, label
<1> QED BY <1>3, <1>4, <1>5, <1>6, <1>7, <1>9 DEF IInv

\* The file of one that ends stays as it is.
LEMMA EndIInv ==
    ASSUME Paced, IInv, NEW p \in Procs, End(p)
    PROVE  IInv'
<1> DEFINE label == "ended"
<1>1. label \in Labels /\ Goto(p, label)
    BY DEF End, Labels, CallLabels
<1>2. Moved(p, label)
    BY <1>1, GotoEffect DEF IInv
<1> HIDE DEF label
<1>3. TypeOK'
    BY <1>2, PidFileAssumption DEF End, IInv, TypeOK, FileOwner, Labels, label
<1>4. FileOwner'
    BY <1>2, PidFileAssumption DEF End, Paced, IInv, TypeOK, FileOwner, ReadFromFile, Labels, label
<1>5. OneCall'
    BY <1>2 DEF End, Paced, IInv, OneCall, AllAlive, InCall, CallLabels, Labels, label
<1>6. ReadFromFile'
    BY <1>2 DEF End, Paced, IInv, TypeOK, FileOwner, OneCall, ReadFromFile, AllAlive, InCall, CallLabels, Labels, label
<1>7. CompanyNoticed'
    BY <1>2 DEF End, IInv, FileOwner, CompanyNoticed, InCall, Others, CallLabels, Labels, label
<1>8. Orphaned => Orphaned'
    BY <1>2, PidFileAssumption DEF End, IInv, TypeOK, FileOwner, ReadFromFile, Orphaned, Alive, label
<1>9. NeverRefusedAlone'
    BY <1>2, <1>8 DEF End, IInv, FileOwner, ReadFromFile, CompanyNoticed, NeverRefusedAlone, InCall, Others, CallLabels, Labels, label
<1> QED BY <1>3, <1>4, <1>5, <1>6, <1>7, <1>9 DEF IInv

-----------------------------------------------------------------------------
(* Types, however the processes start and end                               *)

\* A move keeps the types of what it changes.
LEMMA GotoTypes ==
    ASSUME TypeOK, NEW p \in Procs, NEW label \in Labels, Goto(p, label)
    PROVE  /\ pc' = [pc EXCEPT ![p] = label] /\ pc' \in [Procs -> Labels]
           /\ company' \in [Procs -> BOOLEAN]
BY GotoEffect DEF TypeOK, Labels

\* A pid is probed only after it was read from a file with something in it, also when
\* processes end beside a call.
THEOREM TypeCorrect == Spec => []TypeOK
<1>1. Init => TypeOK
    BY PidFileAssumption DEF Init, TypeOK, CallLabels
<1>2. TypeOK /\ [Next]_vars => TypeOK'
    <2> SUFFICES ASSUME TypeOK, [Next]_vars PROVE TypeOK'
        OBVIOUS
    <2>1. CASE UNCHANGED vars
        BY <2>1 DEF vars, TypeOK
    <2>2. ASSUME NEW p \in Procs, Call(p) PROVE TypeOK'
        BY <2>2, GotoTypes DEF Call, TypeOK, Labels, CallLabels
    <2>3. ASSUME NEW p \in Procs, Stat(p) PROVE TypeOK'
        BY <2>3, GotoTypes DEF Stat, TypeOK, Labels, CallLabels
    <2>4. ASSUME NEW p \in Procs, Read(p) PROVE TypeOK'
        BY <2>4, GotoTypes DEF Read, TypeOK, Labels, CallLabels
    <2>5. ASSUME NEW p \in Procs, Kill(p) PROVE TypeOK'
        BY <2>5, GotoTypes DEF Kill, TypeOK, Labels, CallLabels
    <2>6. ASSUME NEW p \in Procs, Unlink(p) PROVE TypeOK'
        <3>1. Goto(p, "open") /\ UNCHANGED prevProcPid
            BY <2>6 DEF Unlink
        <3>2. file' \in Procs \cup {NoFile} /\ written' \in BOOLEAN
            BY <2>6 DEF Unlink
        <3> QED BY <3>1, <3>2, GotoTypes DEF TypeOK, Labels, CallLabels
    <2>7. ASSUME NEW p \in Procs, Open(p) PROVE TypeOK'
        <3>1. PICK label \in {"write", "refused"} : Goto(p, label)
            BY <2>7 DEF Open
        <3>2. file' \in Procs \cup {NoFile} /\ written' \in BOOLEAN /\ UNCHANGED prevProcPid
            BY <2>7 DEF Open, TypeOK
        <3> QED BY <3>1, <3>2, GotoTypes DEF TypeOK, Labels, CallLabels
    <2>8. ASSUME NEW p \in Procs, Write(p) PROVE TypeOK'
        <3>1. Goto(p, "running") /\ UNCHANGED <<file, prevProcPid>> /\ written' = (written \/ file = p)
            BY <2>8 DEF Write
        <3>2. written' \in BOOLEAN
            BY <3>1, Zenon
        <3> QED BY <3>1, <3>2, GotoTypes DEF TypeOK, Labels, CallLabels
    <2>9. ASSUME NEW p \in Procs, End(p) PROVE TypeOK'
        BY <2>9, GotoTypes DEF End, TypeOK, Labels, CallLabels
    <2> QED BY <2>1, <2>2, <2>3, <2>4, <2>5, <2>6, <2>7, <2>8, <2>9 DEF Next
<1> QED BY <1>1, <1>2, PTL DEF Spec

-----------------------------------------------------------------------------

\* The invariant holds in every state the system comes to.
THEOREM Invariance ==
    ASSUME Paced
    PROVE  Spec => []IInv
<1>1. Init => IInv
    BY PidFileAssumption DEF Init, IInv, TypeOK, FileOwner, OneCall, ReadFromFile, CompanyNoticed,
       NeverRefusedAlone, InCall, CallLabels, AllAlive
<1>2. IInv /\ [Next]_vars => IInv'
    <2>1. ASSUME IInv, UNCHANGED vars PROVE IInv'
        <3>1. UNCHANGED <<file, written, pc, prevProcPid, company>>
            BY <2>1 DEF vars
        <3>2. TypeOK' /\ FileOwner' /\ OneCall' /\ ReadFromFile'
            BY <2>1, <3>1 DEF IInv, TypeOK, FileOwner, OneCall, ReadFromFile, InCall, AllAlive
        <3>3. CompanyNoticed' /\ NeverRefusedAlone'
            BY <2>1, <3>1 DEF IInv, CompanyNoticed, NeverRefusedAlone, Orphaned, Alive, InCall, Others
        <3> QED BY <3>2, <3>3 DEF IInv
    <2>2. ASSUME IInv, NEW p \in Procs,
                 Call(p) \/ Stat(p) \/ Read(p) \/ Kill(p) \/ Unlink(p) \/ Open(p) \/ Write(p) \/ End(p)
          PROVE  IInv'
        BY <2>2, CallIInv, StatIInv, ReadIInv, KillIInv, UnlinkIInv, OpenIInv, WriteIInv, EndIInv
    <2> QED BY <2>1, <2>2 DEF Next
<1> QED BY <1>1, <1>2, PTL DEF Spec

\* AMCAppAlreadyRunning lets no two processes run, however many there are.
THEOREM OneRuns ==
    ASSUME Paced
    PROVE  Spec => []AtMostOneRunning
<1>1. IInv => AtMostOneRunning
    BY DEF IInv, FileOwner, AtMostOneRunning
<1> QED BY <1>1, Invariance, PTL

\* The file of an ended process keeps nobody out, if it was written.
THEOREM RefusedForAnother ==
    ASSUME Paced
    PROVE  Spec => []NeverRefusedAlone
<1>1. IInv => NeverRefusedAlone
    BY DEF IInv
<1> QED BY <1>1, Invariance, PTL

-----------------------------------------------------------------------------
(* The daemon                                                                *)

\* What is proved of SignalHandler, for the daemon's constants and variables.
P == INSTANCE SignalHandler_proofs

\* The daemon is a program that calls AMCAppAlreadyRunning as PidFile describes.
THEOREM DaemonImplementsPidFile == DaemonSpec => Spec
<1>1. DaemonInit => Init
    BY DEF DaemonInit
<1>2. [DaemonNext]_allVars => [Next]_vars
    <2>1. CASE UNCHANGED allVars
        BY <2>1 DEF allVars
    <2>2. ASSUME NEW p \in Procs, Starts(p) \/ Answers(p) \/ Exits(p) \/ Dies(p)
          PROVE  Next
        BY <2>2 DEF Starts, Answers, Exits, Dies, Next
    <2>3. ASSUME NEW p \in Procs, Registers(p) \/ Sends(p) \/ Delivers(p) \/ Processes(p)
          PROVE  UNCHANGED vars
        BY <2>3 DEF Registers, Sends, Delivers, Processes
    <2>4. ASSUME NEW p \in Procs, NEW t \in S!Threads, Catches(p, t)
          PROVE  UNCHANGED vars
        BY <2>4 DEF Catches
    <2> QED BY <2>1, <2>2, <2>3, <2>4 DEF DaemonNext
<1> QED BY <1>1, <1>2, PTL DEF DaemonSpec, Spec

\* And one that calls AMCSignalRegister and is sent signals as SignalHandler describes.
THEOREM DaemonImplementsSignalHandler == DaemonSpec => S!Spec
<1>1. DaemonInit => S!Init
    BY DEF DaemonInit
<1>2. [DaemonNext]_allVars => [S!Next]_S!sigVars
    <2>1. CASE UNCHANGED allVars
        BY <2>1 DEF allVars, sigVars, S!sigVars
    <2>2. ASSUME NEW p \in Procs, Starts(p) \/ Answers(p)
          PROVE  UNCHANGED S!sigVars
        BY <2>2 DEF Starts, Answers, sigVars, S!sigVars
    <2>3. ASSUME NEW p \in Procs,
                 Registers(p) \/ Sends(p) \/ Delivers(p) \/ Processes(p) \/ Exits(p) \/ Dies(p)
          PROVE  S!Next
        BY <2>3 DEF Registers, Sends, Delivers, Processes, Exits, Dies, S!Next
    <2>4. ASSUME NEW p \in Procs, NEW t \in S!Threads, Catches(p, t)
          PROVE  S!Next
        BY <2>4 DEF Catches, S!Next
    <2> QED BY <2>1, <2>2, <2>3, <2>4 DEF DaemonNext
<1> QED BY <1>1, <1>2, PTL DEF DaemonSpec, S!Spec

\* Signals that end processes inside and after the call do not let two of them run.
THEOREM OneDaemonRuns ==
    ASSUME Paced
    PROVE  DaemonSpec => []AtMostOneRunning
BY DaemonImplementsPidFile, OneRuns, PTL

\* Nor does the file of one that a signal ended keep the next out.
THEOREM DaemonRefusedForAnother ==
    ASSUME Paced
    PROVE  DaemonSpec => []NeverRefusedAlone
BY DaemonImplementsPidFile, RefusedForAnother, PTL

-----------------------------------------------------------------------------
(* S and P are two instances of SignalHandler with the same constants and   *)
(* variables.                                                               *)

LEMMA SameSpec == S!Spec => P!Spec
<1>1. S!Init => P!Init
    BY DEF S!Init, P!Init, S!Threads, P!Threads
<1>2. [S!Next]_S!sigVars => [P!Next]_P!sigVars
    <2>1. ASSUME NEW p \in Procs, S!Create(p) \/ S!Install(p) PROVE P!Create(p) \/ P!Install(p)
        BY <2>1 DEF S!Create, P!Create, S!Install, P!Install, S!Free, P!Free
    <2>2. ASSUME NEW p \in Procs, NEW s \in S!Signals, S!Send(p, s) PROVE P!Send(p, s)
        BY <2>2 DEF S!Send, P!Send, S!Runs, P!Runs
    <2>3. ASSUME NEW p \in Procs, NEW t \in S!Threads, NEW s \in S!Signals, S!Deliver(p, t, s)
          PROVE  P!Deliver(p, t, s)
        BY <2>3 DEF S!Deliver, P!Deliver, S!HasHandler, P!HasHandler
    <2>4. ASSUME NEW p \in Procs, S!Default(p) \/ S!Exit(p) PROVE P!Default(p) \/ P!Exit(p)
        BY <2>4 DEF S!Default, P!Default, S!Exit, P!Exit, S!ProcessEnds, P!ProcessEnds, S!HasHandler, P!HasHandler,
           S!ProcessorAt, P!ProcessorAt, S!Free, P!Free, S!Threads, P!Threads
    <2>5. ASSUME NEW p \in Procs, S!threadSignalProcessor(p) PROVE P!threadSignalProcessor(p)
        BY <2>5 DEF S!threadSignalProcessor, P!threadSignalProcessor, S!Poll, P!Poll,
           S!ProcessorLocks, P!ProcessorLocks, S!ProcessorTakes, P!ProcessorTakes,
           S!ProcessorUnlocks, P!ProcessorUnlocks, S!Alarmed, P!Alarmed,
           S!ProcessorAt, P!ProcessorAt, S!ProcessorTo, P!ProcessorTo, S!Free, P!Free
    <2>6. ASSUME NEW p \in Procs, NEW t \in S!Threads, S!staticSignalCatcher(p, t)
          PROVE  P!staticSignalCatcher(p, t)
        BY <2>6 DEF S!staticSignalCatcher, P!staticSignalCatcher, S!CatcherLocks, P!CatcherLocks,
           S!CatcherStores, P!CatcherStores, S!CatcherUnlocks, P!CatcherUnlocks,
           S!Handles, P!Handles, S!Continue, P!Continue, S!Free, P!Free
    <2>7. UNCHANGED S!sigVars => UNCHANGED P!sigVars
        BY DEF S!sigVars, P!sigVars
    <2>8. S!Signals = P!Signals /\ S!Threads = P!Threads
        BY DEF S!Signals, P!Signals, S!Threads, P!Threads
    <2> QED BY <2>1, <2>2, <2>3, <2>4, <2>5, <2>6, <2>7, <2>8 DEF S!Next, P!Next
<1> QED BY <1>1, <1>2, PTL DEF S!Spec, P!Spec

LEMMA SameAssumption == P!SignalAssumption
BY DaemonAssumption DEF P!SignalAssumption, S!Signals, P!Signals

\* The processing thread of a daemon never acts on an empty slot.
THEOREM DaemonSlotNeverEmpty == DaemonSpec => []NeverUnknown
<1>1. P!Spec => []P!NeverUnknown
    BY SameAssumption, P!SlotNeverEmpty
<1>2. P!NeverUnknown => NeverUnknown
    BY DEF NeverUnknown, S!NeverUnknown, P!NeverUnknown
<1> QED BY <1>1, <1>2, SameSpec, DaemonImplementsSignalHandler, PTL

\* One signal alone never gets a daemon stuck.
THEOREM DaemonLoneSignalPasses == DaemonSpec => []StuckNeedsTwo
<1>1. P!Spec => []P!StuckNeedsTwo
    BY SameAssumption, P!LoneSignalPasses
<1>2. P!StuckNeedsTwo => StuckNeedsTwo
    BY DEF StuckNeedsTwo, S!StuckNeedsTwo, P!StuckNeedsTwo, S!Stuck, P!Stuck,
       S!Handles, P!Handles, S!Free, P!Free, S!Threads, P!Threads
<1> QED BY <1>1, <1>2, SameSpec, DaemonImplementsSignalHandler, PTL

\* The types of both parts hold however the processes start, signals come and processes end.
THEOREM DaemonTypeCorrect == DaemonSpec => []DaemonTypeOK
<1>1. P!Spec => []P!TypeOK
    BY SameAssumption, P!TypeCorrect
<1>2. P!TypeOK => S!TypeOK
    BY DEF P!TypeOK, S!TypeOK, P!Signals, S!Signals, P!Threads, S!Threads
<1>3. TypeOK /\ S!TypeOK => DaemonTypeOK
    BY DEF DaemonTypeOK
<1> QED BY <1>1, <1>2, <1>3, TypeCorrect, SameSpec, DaemonImplementsPidFile,
           DaemonImplementsSignalHandler, PTL

\* A signal leaves a daemon's slot only for the processing thread, or for a later signal.
THEOREM DaemonSlotHandedOn == DaemonSpec => TakenOrReplaced
<1>1. P!Spec => P!TakenOrReplaced
    BY SameAssumption, P!SlotHandedOn
<1>2. P!TakenOrReplaced => TakenOrReplaced
    <2>1. [\A p \in Procs : sigNum'[p] = NoSignal /\ sigNum[p] # NoSignal
              => processor'[p] = "ended" \/ sigNumCopy'[p] = sigNum[p]]_P!sigVars
          => [\A p \in Procs : sigNum'[p] = NoSignal /\ sigNum[p] # NoSignal
                 => processor'[p] = "ended" \/ sigNumCopy'[p] = sigNum[p]]_S!sigVars
        BY DEF P!sigVars, S!sigVars
    <2> QED BY <2>1, PTL DEF TakenOrReplaced, P!TakenOrReplaced, S!TakenOrReplaced
<1> QED BY <1>1, <1>2, SameSpec, DaemonImplementsSignalHandler, PTL
=============================================================================
