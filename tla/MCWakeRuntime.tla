----------------------------- MODULE MCWakeRuntime -----------------------------
(* Instances of WakeRuntime for TLC: three ids and two idempotency keys.      *)
EXTENDS WakeRuntime

CONSTANTS a, b, c, k1, k2

MCActionIds == {a, b, c}
MCKeys == {k1, k2}

Req(id, key, critical) == [id |-> id, key |-> key, critical |-> critical]

\* a and b compete for k1, c has k2 to itself; c is critical.
MCRequests == {Req(a, k1, FALSE), Req(b, k1, FALSE), Req(c, k2, TRUE)}

\* Clients that reuse the id a for another key.
MCReusingRequests == {Req(a, k1, FALSE), Req(a, k2, FALSE), Req(b, k1, FALSE)}

\* Clients start actions with start() only.
MCTargets == Statuses \ {"running"}

\* Clients use all of transition().
MCAllTargets == Statuses
=============================================================================
