------------------------- MODULE MCGuardedSessions -------------------------
(* The guarded sessions as TLC checks them; the .cfg files give the values.  *)
EXTENDS GuardedSessions
=============================================================================
