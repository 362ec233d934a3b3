------------------------------- MODULE TaskLedger -------------------------------
(***************************************************************************)
(* What a task promises to whoever submitted it, without clocks, leases,   *)
(* workers, restarts or a runtime that drains: a key is accepted once, an  *)
(* accepted task stays on record, one attempt at a time is begun and never *)
(* more than the task allows, none after a cancellation was asked for, and *)
(* the task ends once, with a result that stands.                          *)
(***************************************************************************)
EXTENDS Integers

CONSTANTS
    Ids,        \* task identifiers
    Keys,       \* idempotency keys
    Limits,     \* the numbers of attempts that may be asked for
    Results,    \* the results of a task that has ended
    Unused      \* "no task has this id"

VARIABLE ledger     \* Ids -> Unused, or the entry of the task

Terminal == {"succeeded", "failed", "cancelled", "manual_review"}

\* How a task that has not ended may end: cancelled only when that was asked for.
Outcomes ==
    [pending |-> {"cancelled"},
     running |-> Terminal \ {"cancelled"},
     cancel_requested |-> Terminal]

Accepted == {id \in Ids : ledger[id] # Unused}

Open == {id \in Accepted : ledger[id].status \in DOMAIN Outcomes}

Enter(id, entry) == ledger' = [ledger EXCEPT ![id] = entry]

Ended(entry, next) ==
    \E status \in Outcomes[entry.status], result \in Results :
        next = [entry EXCEPT !.status = status, !.result = result]

\* An attempt was lost, and the task allows another.
Requeued(entry, next) ==
    /\ entry.status = "running"
    /\ entry.attempts_started < entry.max_attempts
    /\ next = [entry EXCEPT !.status = "pending"]
-----------------------------------------------------------------------------
Init == ledger = [id \in Ids |-> Unused]

Accept(id, key, limit) ==
    /\ id \notin Accepted
    /\ \A other \in Accepted : ledger[other].key # key
    /\ Enter(id, [key |-> key, max_attempts |-> limit, attempts_started |-> 0,
                  status |-> "pending", result |-> "none"])

Attempt(id) ==
    /\ ledger[id].status = "pending"
    /\ ledger[id].attempts_started < ledger[id].max_attempts
    /\ Enter(id, [ledger[id] EXCEPT !.status = "running", !.attempts_started = @ + 1])

AskToCancel(id) ==
    /\ ledger[id].status = "running"
    /\ Enter(id, [ledger[id] EXCEPT !.status = "cancel_requested"])

End(id) ==
    /\ Ended(ledger[id], ledger'[id])
    /\ Enter(id, ledger'[id])

\* Attempts that were lost, of any tasks at once: each is put back or ended.
Lose ==
    /\ \E ids \in (SUBSET Open) \ {{}} :
        /\ \A id \in ids :
            /\ ledger[id].status # "pending"
            /\ Requeued(ledger[id], ledger'[id]) \/ Ended(ledger[id], ledger'[id])
        /\ \A id \in Ids \ ids : ledger'[id] = ledger[id]
    /\ ledger' = [id \in Ids |-> ledger'[id]]

Next ==
    \/ \E id \in Ids, key \in Keys, limit \in Limits : Accept(id, key, limit)
    \/ \E id \in Open : Attempt(id) \/ AskToCancel(id) \/ End(id)
    \/ Lose

Spec == Init /\ [][Next]_ledger
=============================================================================
