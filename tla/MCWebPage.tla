----------------------------- MODULE MCWebPage ------------------------------
(* WebPage with the constants of its configuration.                          *)
EXTENDS WebPage
============================================================================
