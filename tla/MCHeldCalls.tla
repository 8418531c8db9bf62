---------------------------- MODULE MCHeldCalls ----------------------------
(* Values of the constants of HeldCalls for TLC: no value, one the cheap     *)
(* gate allows, one it blocks.                                               *)
EXTENDS HeldCalls, TLC

MCValues == {0, 1, 3}
MCTimeouts == {1}

\* The calls differ in their names only, and the run checks invariants.
Symmetric == Permutations(Holds)
=============================================================================
