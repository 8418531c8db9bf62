---------------------------- MODULE MCTransfers ----------------------------
(* Values of the constants of Transfers for TLC.                             *)
EXTENDS Transfers, TLC

\* Nothing, a part of the opening balance, all of it; the last is too much
\* for an account that has paid before.
MCAmounts == {0, 2, 5}

Symmetric == Permutations(Threads) \cup Permutations(Accounts)
============================================================================
