-------------------------------- MODULE Allowance --------------------------------
(***************************************************************************)
(* What a budget promises to whoever pays for the effects, without calls,  *)
(* callers, clocks that are set back or a resolution of the clock: permits *)
(* are given one at a time, each to a key that has none, each later than   *)
(* all before it and within the policy, and none is ever taken back or     *)
(* dated anew.                                                             *)
(***************************************************************************)
EXTENDS Integers, FiniteSets

CONSTANTS
    Keys,           \* idempotency keys
    Times,          \* the times at which a permit may be given
    MaxTotal, MaxInWindow, Window, MinInterval,     \* the policy
    Unused          \* "the key has no permit"

VARIABLE granted    \* Keys -> Unused, or the time of the permit

Granted == {key \in Keys : granted[key] # Unused}

Recent(at) == {key \in Granted : at - granted[key] < Window}
-----------------------------------------------------------------------------
Init == granted = [key \in Keys |-> Unused]

Grant(key, at) ==
    /\ key \notin Granted
    /\ Cardinality(Granted) < MaxTotal
    /\ \A other \in Granted : at - granted[other] >= MinInterval
    /\ Cardinality(Recent(at)) < MaxInWindow
    /\ granted' = [granted EXCEPT ![key] = at]

Next == \E key \in Keys, at \in Times : Grant(key, at)

Spec == Init /\ [][Next]_granted
=============================================================================
