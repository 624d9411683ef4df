----------------------------- MODULE MCMemPool ------------------------------
(* Small instances of MemPool for TLC. *)
EXTENDS MemPool, TLC

\* The threads are interchangeable, and so are the addresses of the blocks.
ThreadAndBlockSymmetry == Permutations(Threads) \cup Permutations(Blocks)
=============================================================================
