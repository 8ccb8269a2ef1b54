----------------------------- MODULE MCScheduler -----------------------------
(* Three processes with one-bit registers.                                 *)
EXTENDS Scheduler
=============================================================================
