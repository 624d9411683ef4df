----------------------------- MODULE MCPidFile ------------------------------
(* Small instances of PidFile for TLC. *)
EXTENDS PidFile, TLC

\* The processes are interchangeable.
ProcSymmetry == Permutations(Procs)
=============================================================================
