---------------------------- MODULE MCHoldQueue ----------------------------
(* Values of the constants of HoldQueue for TLC.                             *)
EXTENDS HoldQueue

\* One timeout shorter than the reaper's period, one longer.
MCTimeouts == {1, 3}
=============================================================================
