------------------------------ MODULE IntentLedger ------------------------------
(***************************************************************************)
(* What the durable wake intents of one capability scope promise, without  *)
(* clocks, samples or transactions: a source is accepted at most once, no  *)
(* more than MaxTotal intents are ever accepted, an accepted intent stays  *)
(* in the ledger for ever with its acceptance and its deadline, and it     *)
(* reaches one terminal status, once.                                      *)
(***************************************************************************)
EXTENDS Integers, FiniteSets

CONSTANTS
    Ids,        \* intent identifiers
    Sources,    \* source identities
    MaxTotal,   \* the lifetime total of the scope
    Times,      \* the times of acceptances, deadlines and ends
    NoTime,     \* "has not ended"
    Unused      \* "no intent has this id"

Terminal == {"fired", "revoked", "manual_review"}

VARIABLE ledger     \* Ids -> Unused, or the entry of the intent

Accepted == {id \in Ids : ledger[id] # Unused}

Scheduled == {id \in Accepted : ledger[id].status = "scheduled"}

Init == ledger = [id \in Ids |-> Unused]

Accept(id, source) ==
    /\ id \notin Accepted
    /\ \A other \in Accepted : ledger[other].source # source
    /\ Cardinality(Accepted) < MaxTotal
    /\ \E accepted_at, due_at \in Times :
        ledger' = [ledger EXCEPT ![id] =
            [source |-> source, accepted_at |-> accepted_at, due_at |-> due_at,
             status |-> "scheduled", terminal_at |-> NoTime]]

\* One transaction may end several intents, at one time, each in its own way.
End ==
    \E ids \in (SUBSET Scheduled) \ {{}}, now \in Times :
        \E outcome \in [ids -> Terminal] :
            ledger' = [id \in Ids |->
                IF id \in ids
                THEN [ledger[id] EXCEPT !.status = outcome[id], !.terminal_at = now]
                ELSE ledger[id]]

Next ==
    \/ \E id \in Ids, source \in Sources : Accept(id, source)
    \/ End

Spec == Init /\ [][Next]_ledger
=============================================================================
