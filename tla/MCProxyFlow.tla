---------------------------- MODULE MCProxyFlow ----------------------------
(* Values of the constants of ProxyFlow for TLC.                             *)
EXTENDS ProxyFlow
============================================================================
