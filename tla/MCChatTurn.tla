---------------------------- MODULE MCChatTurn -----------------------------
(* ChatTurn with the constants of its configuration.                         *)
EXTENDS ChatTurn
============================================================================
