------------------------------ MODULE MCScheduler ------------------------------
(* Instances of Scheduler for TLC: two waiting threads.                       *)
EXTENDS Scheduler

CONSTANTS w1, w2

MCTwoWaiters == {w1, w2}
=============================================================================
