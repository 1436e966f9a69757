---------------------------- MODULE MCContextMemory ----------------------------
(* The memory, small enough for TLC: the last two messages are kept, every *)
(* second turn is saved.                                                   *)
EXTENDS ContextMemory
===============================================================================
