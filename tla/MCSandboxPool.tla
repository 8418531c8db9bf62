--------------------------- MODULE MCSandboxPool ---------------------------
(* Values of the constants of SandboxPool for TLC.                           *)
EXTENDS SandboxPool

\* As many as can be started: PoolSize per tier, and two for each job.
SixContainers == 1..6
============================================================================
