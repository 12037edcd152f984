------------------------------ MODULE MCSched -------------------------------
(***************************************************************************)
(* Three processes: with two in one buffer and one in the other, a swap    *)
(* and a preemption meet in every order, and an array of two grows.        *)
(***************************************************************************)
EXTENDS Sched
=============================================================================
