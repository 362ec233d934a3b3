------------------------------ MODULE WakeIntents ------------------------------
(***************************************************************************)
(* gaudere::scheduling::wake::WakeIntentRuntime over the durable           *)
(* WakeIntentStore, for one capability scope.  A call samples the clock,   *)
(* and only then runs its SQLite transaction (BEGIN IMMEDIATE ... COMMIT,  *)
(* one step here): other calls, of other threads or processes, and the     *)
(* clock may go on in between, and the process may die there.              *)
(*                                                                         *)
(* Times are whole milliseconds, as sampled by now_milliseconds().         *)
(* Operators named Faulty... are variants with a plausible bug; no action  *)
(* uses them.                                                              *)
(***************************************************************************)
EXTENDS Integers, FiniteSets

CONSTANTS
    Ids,            \* intent identifiers
    Sources,        \* source identities
    Callers,        \* threads or processes, each with a store of its own
    Delays,         \* the delays clients ask for, in milliseconds
    MaxTotal,       \* WakeIntentPolicy::max_total
    Horizon,        \* the latest time the clock can represent
    MaxRollbacks,   \* bound on the backward steps of the system clock
    Absent,         \* "no row"
    NoTime          \* NULL of terminal_at_ms

Statuses == {"scheduled", "fired", "revoked", "manual_review"}

Times == 0 .. Horizon

Row == [source : Sources, accepted_at : Times, due_at : Times,
        status : Statuses, terminal_at : Times \cup {NoTime}]

\* A call between its sample of the clock and its transaction.
Idle == [op |-> "idle"]

Call ==
    {Idle}
    \cup [op : {"accept"}, now : Times, id : Ids, source : Sources, delay : Delays]
    \cup [op : {"reconcile"}, now : Times]
    \cup [op : {"revoke"}, now : Times, id : Ids]

ASSUME DelaysAssumption == Delays \subseteq Int
ASSUME BoundsAssumption == {MaxTotal, Horizon, MaxRollbacks} \subseteq Nat
ASSUME AbsentAssumption == Absent \notin Row
ASSUME NoTimeAssumption == NoTime \notin Int

VARIABLES
    intents,    \* the wake_intents rows of the scope: durable
    calls,      \* the calls in progress: lost when the process dies
    clock,      \* the system clock
    latest,     \* history: the latest time the clock has shown
    rollbacks   \* how often the clock has been set back

vars == <<intents, calls, clock, latest, rollbacks>>
-----------------------------------------------------------------------------
Stored == {id \in Ids : intents[id] # Absent}

Scheduled == {id \in Stored : intents[id].status = "scheduled"}

FaultyNextScheduledAt == NoTime

\* MIN(due_at_ms) over the scheduled rows.
NextScheduledAt ==
    IF Scheduled = {} THEN NoTime
    ELSE CHOOSE t \in {intents[id].due_at : id \in Scheduled} :
             \A id \in Scheduled : t <= intents[id].due_at

Ended(row, status, now) == [row EXCEPT !.status = status, !.terminal_at = now]

Sample(client, call) ==
    /\ calls[client] = Idle
    /\ calls' = [calls EXCEPT ![client] = call]
    /\ UNCHANGED <<intents, clock, latest, rollbacks>>

Return(client) ==
    /\ calls' = [calls EXCEPT ![client] = Idle]
    /\ UNCHANGED <<clock, latest, rollbacks>>
-----------------------------------------------------------------------------
Init ==
    /\ intents = [id \in Ids |-> Absent]
    /\ calls = [client \in Callers |-> Idle]
    /\ clock = 0
    /\ latest = 0
    /\ rollbacks = 0

FaultyValidDelay(delay) == delay > 0

\* A delay that is not positive, or past the range of the clock, is invalid.
ValidDelay(delay) == delay > 0 /\ clock <= Horizon - delay

BeginAccept(client, id, source, delay) ==
    /\ ValidDelay(delay)
    /\ Sample(client, [op |-> "accept", now |-> clock, id |-> id,
                       source |-> source, delay |-> delay])

BeginReconcile(client) ==
    Sample(client, [op |-> "reconcile", now |-> clock])

BeginRevoke(client, id) ==
    Sample(client, [op |-> "revoke", now |-> clock, id |-> id])

FaultyAdmitsRefunds(call) ==
    /\ \A id \in Stored : intents[id].source # call.source
    /\ intents[call.id] = Absent
    /\ Cardinality(Scheduled) < MaxTotal

\* Not duplicate, not conflict, not total_exhausted.
Admits(call) ==
    /\ \A id \in Stored : intents[id].source # call.source
    /\ intents[call.id] = Absent
    /\ Cardinality(Stored) < MaxTotal

CommitAccept(client) ==
    LET call == calls[client] IN
    /\ call.op = "accept"
    /\ IF Admits(call)
       THEN intents' = [intents EXCEPT ![call.id] =
                [source |-> call.source, accepted_at |-> call.now,
                 due_at |-> call.now + call.delay,
                 status |-> "scheduled", terminal_at |-> NoTime]]
       ELSE UNCHANGED intents
    /\ Return(client)

FaultyReconciledEarly(row, now) ==
    IF row.status # "scheduled" THEN row
    ELSE IF row.accepted_at > now THEN Ended(row, "manual_review", now)
    ELSE Ended(row, "fired", now)

\* A row accepted in the future of the sample is not due, since its deadline is
\* later still: the two UPDATEs are about different rows.
Reconciled(row, now) ==
    IF row.status # "scheduled" THEN row
    ELSE IF row.accepted_at > now THEN Ended(row, "manual_review", now)
    ELSE IF row.due_at <= now THEN Ended(row, "fired", now)
    ELSE row

CommitReconcile(client) ==
    /\ calls[client].op = "reconcile"
    /\ intents' = [id \in Ids |->
           IF id \in Stored THEN Reconciled(intents[id], calls[client].now)
           ELSE Absent]
    /\ Return(client)

FaultyRevoked(row, now) == Ended(row, "revoked", now)

\* At or after the deadline, firing wins over revocation.
Revoked(row, now) ==
    IF now < row.accepted_at THEN Ended(row, "manual_review", now)
    ELSE IF now >= row.due_at THEN Ended(row, "fired", now)
    ELSE Ended(row, "revoked", now)

CommitRevoke(client) ==
    LET call == calls[client] IN
    /\ call.op = "revoke"
    /\ IF call.id \in Scheduled
       THEN intents' = [intents EXCEPT ![call.id] = Revoked(@, call.now)]
       ELSE UNCHANGED intents
    /\ Return(client)

\* The write lock is not granted within busy_timeout, or a statement fails:
\* the transaction is rolled back, the call throws, the process goes on.
Fail(client) ==
    /\ calls[client] # Idle
    /\ Return(client)
    /\ UNCHANGED intents

\* Open transactions are rolled back; committed ones are on disk.
Crash ==
    /\ calls' = [client \in Callers |-> Idle]
    /\ UNCHANGED <<intents, clock, latest, rollbacks>>

Tick ==
    /\ clock < Horizon
    /\ clock' = clock + 1
    /\ latest' = IF clock' > latest THEN clock' ELSE latest
    /\ UNCHANGED <<intents, calls, rollbacks>>

Rollback ==
    /\ rollbacks < MaxRollbacks
    /\ clock' \in 0 .. clock - 1
    /\ rollbacks' = rollbacks + 1
    /\ UNCHANGED <<intents, calls, latest>>

Next ==
    \/ \E client \in Callers :
        \/ \E id \in Ids, source \in Sources, delay \in Delays :
                BeginAccept(client, id, source, delay)
        \/ BeginReconcile(client)
        \/ \E id \in Ids : BeginRevoke(client, id)
        \/ CommitAccept(client)
        \/ CommitReconcile(client)
        \/ CommitRevoke(client)
        \/ Fail(client)
    \/ Crash
    \/ Tick
    \/ Rollback

Spec == Init /\ [][Next]_vars
-----------------------------------------------------------------------------
\* Types, and every time stored is one the clock can represent.
TypeOK ==
    /\ intents \in [Ids -> Row \cup {Absent}]
    /\ calls \in [Callers -> Call]
    /\ clock \in Times /\ latest \in Times /\ rollbacks \in Nat

\* Every row passes the CHECK constraints of wake_intents, so that no commit
\* of the runtime is refused: deadlines lie after acceptance, fired intents
\* ended at or after their deadline and revoked ones before it.
SchemaHolds ==
    \A id \in Stored :
        LET row == intents[id] IN
        /\ row.due_at > row.accepted_at
        /\ row.status = "scheduled" <=> row.terminal_at = NoTime
        /\ row.status = "fired" => row.terminal_at >= row.due_at
        /\ row.status = "revoked" =>
               row.accepted_at <= row.terminal_at /\ row.terminal_at < row.due_at

\* No intent fires before its exact deadline: the clock has really shown it.
NeverEarly ==
    \A id \in Stored :
        intents[id].status = "fired" => intents[id].due_at <= latest

\* "A detected wall-clock rollback ... fails closed into manual review": only
\* an intent of a clock that was set back goes to review.
ReviewMeansRollback ==
    \A id \in Stored : intents[id].status = "manual_review" => rollbacks > 0

Ledger == INSTANCE IntentLedger WITH ledger <- intents, Unused <- Absent

\* The rows implement the ledger: unique sources, the lifetime total without
\* refunds, "Accepted rows are never deleted or recycled", and one terminal
\* transition of each intent, which leaves acceptance and deadline alone.
ImplementsLedger == Ledger!Spec
=============================================================================
