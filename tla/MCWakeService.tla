----------------------------- MODULE MCWakeService -----------------------------
(* An instance of WakeService for TLC: the owner and the threads that accept.  *)
EXTENDS WakeService

CONSTANTS i1, i2, c1, c2, owner_thread

MCIds == {i1, i2}
MCClients == {c1}
MCWaiters == {owner_thread}
=============================================================================
