------------------------------ MODULE EffectJournal ------------------------------
(***************************************************************************)
(* What an idempotency key promises to whoever pays for its effect,        *)
(* without rows, leases, clocks, workers or restarts: a key is accepted    *)
(* once, it may be tried again only while its effect has not been started, *)
(* a started effect leads to success or to a review and to nothing else,   *)
(* and what has ended stands.                                              *)
(***************************************************************************)
EXTENDS Integers

CONSTANT Keys       \* idempotency keys

VARIABLES
    stage,      \* how far each key has come
    effects     \* how often the effect of each key has been started

\* How the action of a key may end: after the effect, only in these two ways.
Endings ==
    [waiting |-> {"failed"},
     working |-> {"succeeded", "failed", "review"},
     crossed |-> {"succeeded", "review"}]

\* A lost lease is taken back: without an effect the key waits again.
Recovered ==
    [working |-> "waiting", crossed |-> "review"]

Leased == {key \in Keys : stage[key] \in DOMAIN Recovered}

Move(key, to) == stage' = [stage EXCEPT ![key] = to]
-----------------------------------------------------------------------------
Init ==
    /\ stage = [key \in Keys |-> "unknown"]
    /\ effects = [key \in Keys |-> 0]

Accept(key) ==
    /\ stage[key] = "unknown"
    /\ Move(key, "waiting")
    /\ UNCHANGED effects

Work(key) ==
    /\ stage[key] = "waiting"
    /\ Move(key, "working")
    /\ UNCHANGED effects

Retry(key) ==
    /\ stage[key] = "working"
    /\ Move(key, "waiting")
    /\ UNCHANGED effects

Cross(key) ==
    /\ stage[key] = "working"
    /\ Move(key, "crossed")
    /\ effects' = [effects EXCEPT ![key] = @ + 1]

End(key) ==
    /\ stage[key] \in DOMAIN Endings
    /\ \E to \in Endings[stage[key]] : Move(key, to)
    /\ UNCHANGED effects

\* Leases of any keys at once.
Recover ==
    /\ \E keys \in SUBSET Leased :
        stage' = [key \in Keys |->
                    IF key \in keys THEN Recovered[stage[key]] ELSE stage[key]]
    /\ UNCHANGED effects

Next ==
    \/ \E key \in Keys : \/ Accept(key) \/ Work(key) \/ Retry(key)
                         \/ Cross(key) \/ End(key)
    \/ Recover

Spec == Init /\ [][Next]_<<stage, effects>>
=============================================================================
