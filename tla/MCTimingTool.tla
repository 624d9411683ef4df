---------------------------- MODULE MCTimingTool ----------------------------
(* Small instances of TimingTool for TLC. *)
EXTENDS TimingTool, TLC

\* The units of the memory pool are interchangeable.
ObjectSymmetry == Permutations(Objects)

PacedUse(isSecond, flag, fromMain, fromRoutine) ==
    [second |-> isSecond, repeated |-> {flag}, main |-> fromMain, routine |-> fromRoutine,
     paced |-> TRUE]

\* All timers repeated, all one-shot (a new timeout has no effect on these), or
\* the one-second tool.
PacedUses ==
    {PacedUse(FALSE, TRUE, Calls, {"add", "reset", "stop"}),
     PacedUse(FALSE, FALSE, Calls \ {"reset"}, {"add", "del", "stop"}),
     PacedUse(TRUE, TRUE, Calls \ {"reset"}, {"add"})}

\* Repeated and one-shot timers side by side.
MixedUse ==
    {[second |-> FALSE, repeated |-> BOOLEAN, main |-> {"add"}, routine |-> {}, paced |-> TRUE]}

\* Destroy called at any moment.
UnpacedUse ==
    {[second |-> FALSE, repeated |-> {TRUE}, main |-> {"destroy"}, routine |-> {},
      paced |-> FALSE]}
=============================================================================
