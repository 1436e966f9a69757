-------------------------- MODULE MCGovernedSession --------------------------
(* Two sessions that share a log, for TLC: one of two messages, one of one *)
EXTENDS GovernedSession

MC_Turns == [s |-> 2, t |-> 1]
===============================================================================
