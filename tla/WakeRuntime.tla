------------------------------ MODULE WakeRuntime ------------------------------
(***************************************************************************)
(* gaudere::scheduling::wake::Runtime over the durable ActionStore: an     *)
(* action is leased to a worker and, before its external effect, marked so *)
(* that a crash can not lead to the effect being repeated.                 *)
(*                                                                         *)
(* Workers and clients call any operation for any action at any time, also *)
(* after their lease was recovered.  A refused call is a stuttering step.  *)
(* Operators named Faulty... are variants with a plausible bug; no action  *)
(* uses them.                                                              *)
(***************************************************************************)
EXTENDS Integers

CONSTANTS
    ActionIds,      \* action identifiers
    Keys,           \* idempotency keys
    Requests,       \* the actions clients submit: records [id, key, critical]
    Targets,        \* the statuses clients pass to transition()
    Durations,      \* what a lease adds to the clock as stored, in whole milliseconds
    Horizon,        \* bound on the clock, in milliseconds
    MaxRollbacks,   \* bound on the backward steps of the system clock
    MaxCrossings,   \* bound on the effects started under one key
    Absent,         \* "no row": std::nullopt of ActionStore::find
    NoLease         \* "no lease": std::nullopt of Action::lease

Statuses == {"pending", "running", "retry_wait",
             "succeeded", "failed_permanent", "manual_review"}

Effects == {"none", "confirmed", "unknown"}

States == {"recovering", "running", "draining", "safe"}

Request == [id : ActionIds, key : Keys, critical : BOOLEAN]

\* Only a running action holds a lease.
Row ==
    [key : Keys, critical : BOOLEAN, effect_result : Effects,
     status : {"running"}, lease : Int \cup {NoLease}]
    \cup
    [key : Keys, critical : BOOLEAN, effect_result : Effects,
     status : Statuses \ {"running"}, lease : {NoLease}]

ASSUME RequestsAssumption == Requests \subseteq Request
ASSUME TargetsAssumption == Targets \subseteq Statuses
ASSUME DurationsAssumption == Durations \subseteq Int
ASSUME BoundsAssumption ==
    Horizon \in Nat /\ MaxRollbacks \in Nat /\ MaxCrossings \in Nat
ASSUME AbsentAssumption == Absent \notin Row
ASSUME NoLeaseAssumption == NoLease \notin Int

\* Clients never submit one action id under two idempotency keys.  submit()
\* itself looks only at the key, and MCWakeRuntimeReuse.cfg shows what follows.
OneKeyPerId ==
    \A q, r \in Requests : q.id = r.id => q.key = r.key

VARIABLES
    actions,    \* the actions table: durable
    state,      \* Runtime::state_: lost when the process dies
    clock,      \* the system clock, in whole milliseconds as the queries see it
    rollbacks,  \* how often the clock has been set back
    crossings   \* history: effects started under each idempotency key

vars == <<actions, state, clock, rollbacks, crossings>>
-----------------------------------------------------------------------------
FaultyCanTransitionFromReview(from, to) ==
    \/ from \in {"pending", "retry_wait", "manual_review"}
         /\ to \in {"running", "failed_permanent"}
    \/ from = "running"
         /\ to \in {"retry_wait", "succeeded", "failed_permanent", "manual_review"}

CanTransition(from, to) ==
    \/ from \in {"pending", "retry_wait"} /\ to \in {"running", "failed_permanent"}
    \/ from = "running"
         /\ to \in {"retry_wait", "succeeded", "failed_permanent", "manual_review"}

Stored == {id \in ActionIds : actions[id] # Absent}

Running == {id \in Stored : actions[id].status = "running"}

FaultyHasRunningIgnoresUnknown ==
    \E id \in Running : actions[id].effect_result = "none"

HasRunning == Running # {}

FaultyExpiredIgnoresUnknown ==
    {id \in Running : /\ actions[id].effect_result = "none"
                      /\ actions[id].lease # NoLease
                      /\ actions[id].lease <= clock}

\* A NULL lease compares with nothing: such a row is never selected.
RunningWithExpiredLease ==
    {id \in Running : /\ actions[id].lease # NoLease
                      /\ actions[id].lease <= clock}

Save(id, row) == actions' = [actions EXCEPT ![id] = row]
-----------------------------------------------------------------------------
Init ==
    /\ actions = [id \in ActionIds |-> Absent]
    /\ state = "recovering"
    /\ clock = 0
    /\ rollbacks = 0
    /\ crossings = [key \in Keys |-> 0]

FaultyRecoveredStatus(effect) == "retry_wait"

RecoveredStatus(effect) ==
    CASE effect = "none" -> "retry_wait"
      [] effect = "confirmed" -> "succeeded"
      [] effect = "unknown" -> "manual_review"

RecoverRows(ids) ==
    actions' = [id \in ActionIds |->
        IF id \in ids
        THEN [actions[id] EXCEPT
                 !.lease = NoLease,
                 !.status = RecoveredStatus(actions[id].effect_result)]
        ELSE actions[id]]

Recover ==
    /\ RecoverRows(RunningWithExpiredLease)
    /\ state' = "running"
    /\ UNCHANGED <<clock, rollbacks, crossings>>

\* recover() saves row by row; an exception leaves some of them recovered
\* and the state as it was.
RecoverInterrupted ==
    /\ \E ids \in SUBSET RunningWithExpiredLease : RecoverRows(ids)
    /\ UNCHANGED <<state, clock, rollbacks, crossings>>

\* The owner calls recover() again once a lease has run out.
RecoverWhenDue == RunningWithExpiredLease # {} /\ Recover

FaultyDuplicateOnlyOpen(request) ==
    \E id \in Stored :
        /\ actions[id].key = request.key
        /\ actions[id].status \in {"pending", "running", "retry_wait"}

\* Only the idempotency key is looked up.
Duplicate(request) == \E id \in Stored : actions[id].key = request.key

\* An existing row with the same id is overwritten by the upsert.
Submit(request) ==
    /\ \/ state = "running"
       \/ state = "draining" /\ ~request.critical
    /\ ~Duplicate(request)
    /\ Save(request.id, [key |-> request.key, critical |-> request.critical,
                         effect_result |-> "none", status |-> "pending",
                         lease |-> NoLease])
    /\ UNCHANGED <<state, clock, rollbacks, crossings>>

Start(id, duration) ==
    /\ state = "running"
    /\ actions[id] # Absent
    /\ CanTransition(actions[id].status, "running")
    /\ clock + duration <= Horizon
    /\ Save(id, [actions[id] EXCEPT !.status = "running",
                                    !.lease = clock + duration])
    /\ UNCHANGED <<state, clock, rollbacks, crossings>>

FaultyLeaseAfter(lease, target) ==
    IF target \in {"running", "retry_wait"} THEN lease ELSE NoLease

LeaseAfter(lease, target) == IF target = "running" THEN lease ELSE NoLease

EffectAllows(effect, target) ==
    /\ effect = "unknown" => target = "manual_review"
    /\ effect = "confirmed" => target = "succeeded"

\* transition() does not look at the state of the runtime, and grants no lease.
Transition(id, target) ==
    /\ actions[id] # Absent
    /\ CanTransition(actions[id].status, target)
    /\ EffectAllows(actions[id].effect_result, target)
    /\ Save(id, [actions[id] EXCEPT
                    !.status = target,
                    !.lease = LeaseAfter(actions[id].lease, target)])
    /\ UNCHANGED <<state, clock, rollbacks, crossings>>

FaultyRecordEffectStarted(id) ==
    /\ id \in Running
    /\ crossings[actions[id].key] < MaxCrossings
    /\ Save(id, [actions[id] EXCEPT !.effect_result = "unknown"])
    /\ crossings' = [crossings EXCEPT ![actions[id].key] = @ + 1]
    /\ UNCHANGED <<state, clock, rollbacks>>

\* The marker is durable before the caller crosses the effect boundary.
RecordEffectStarted(id) ==
    /\ id \in Running
    /\ actions[id].effect_result = "none"
    /\ crossings[actions[id].key] < MaxCrossings
    /\ Save(id, [actions[id] EXCEPT !.effect_result = "unknown"])
    /\ crossings' = [crossings EXCEPT ![actions[id].key] = @ + 1]
    /\ UNCHANGED <<state, clock, rollbacks>>

RecordConfirmedResult(id) ==
    /\ id \in Running
    /\ actions[id].effect_result = "unknown"
    /\ Save(id, [actions[id] EXCEPT !.effect_result = "confirmed",
                                    !.status = "succeeded",
                                    !.lease = NoLease])
    /\ UNCHANGED <<state, clock, rollbacks, crossings>>

RecordUnknownResult(id) ==
    /\ id \in Running
    /\ actions[id].effect_result # "confirmed"
    /\ Save(id, [actions[id] EXCEPT !.effect_result = "unknown",
                                    !.status = "manual_review",
                                    !.lease = NoLease])
    /\ UNCHANGED <<state, clock, rollbacks, crossings>>

RequestShutdown ==
    /\ state = "running"
    /\ state' = "draining"
    /\ UNCHANGED <<actions, clock, rollbacks, crossings>>

TryMarkSafe ==
    /\ state = "draining"
    /\ ~HasRunning
    /\ state' = "safe"
    /\ UNCHANGED <<actions, clock, rollbacks, crossings>>

\* The process dies and a new Runtime is constructed over the same store.
Crash ==
    /\ state' = "recovering"
    /\ UNCHANGED <<actions, clock, rollbacks, crossings>>

Tick ==
    /\ clock < Horizon
    /\ clock' = clock + 1
    /\ UNCHANGED <<actions, state, rollbacks, crossings>>

Rollback ==
    /\ rollbacks < MaxRollbacks
    /\ clock' \in 0 .. clock - 1
    /\ rollbacks' = rollbacks + 1
    /\ UNCHANGED <<actions, state, crossings>>

Next ==
    \/ Recover
    \/ RecoverInterrupted
    \/ \E request \in Requests : Submit(request)
    \/ \E id \in ActionIds :
        \/ \E duration \in Durations : Start(id, duration)
        \/ \E target \in Targets : Transition(id, target)
        \/ RecordEffectStarted(id)
        \/ RecordConfirmedResult(id)
        \/ RecordUnknownResult(id)
    \/ RequestShutdown
    \/ TryMarkSafe
    \/ Crash
    \/ Tick
    \/ Rollback

Spec == Init /\ [][Next]_vars

\* The clock goes on, and recover() is called again after a lease has expired.
FairSpec == Spec /\ WF_vars(Tick) /\ WF_vars(RecoverWhenDue)
-----------------------------------------------------------------------------
\* Types, and a lease is held only while the action runs.
TypeOK ==
    /\ actions \in [ActionIds -> Row \cup {Absent}]
    /\ state \in States
    /\ clock \in Nat
    /\ rollbacks \in Nat
    /\ crossings \in [Keys -> Nat]

\* "never repeated blindly": whatever crashes, recoveries, retries and late
\* workers do, the effect of one idempotency key is started at most once.
EffectAtMostOnce == \A key \in Keys : crossings[key] <= 1

\* A started effect is on record: the row of its key is not lost, still says
\* that there was an effect, and neither waits nor is retried.
EffectOnRecord ==
    \A key \in Keys : crossings[key] > 0 =>
        \E id \in Stored :
            /\ actions[id].key = key
            /\ actions[id].effect_result # "none"

\* An effect of unknown outcome keeps its action running or under review; a
\* confirmed one has made its action succeed.
EffectFitsStatus ==
    \A id \in Stored :
        /\ actions[id].effect_result = "unknown" =>
               actions[id].status \in {"running", "manual_review"}
        /\ actions[id].effect_result = "confirmed" =>
               actions[id].status = "succeeded"

\* Two rows never share an idempotency key (the UNIQUE column).
KeysUnique ==
    \A a, b \in Stored : actions[a].key = actions[b].key => a = b

\* Once the runtime reports safe, no action is running.
SafeMeansQuiet == state = "safe" => Running = {}

\* An action that is over never changes again, whoever answers late.
FinalStaysFinal ==
    [][\A id \in Stored :
          actions[id].status \in {"succeeded", "failed_permanent", "manual_review"}
              => actions'[id] = actions[id]]_vars

\* How far the action of a key has come, as its payer sees it.
StageOf(row) ==
    CASE row.status \in {"pending", "retry_wait"} -> "waiting"
      [] row.status = "running" /\ row.effect_result = "none" -> "working"
      [] row.status = "running" /\ row.effect_result # "none" -> "crossed"
      [] row.status = "succeeded" -> "succeeded"
      [] row.status = "failed_permanent" -> "failed"
      [] row.status = "manual_review" -> "review"

Holders(key) == {id \in Stored : actions[id].key = key}

Stages ==
    [key \in Keys |->
        IF Holders(key) = {} THEN "unknown"
        ELSE StageOf(actions[CHOOSE id \in Holders(key) : TRUE])]

Journal == INSTANCE EffectJournal WITH stage <- Stages, effects <- crossings

\* The rows implement the journal: whatever crashes, recoveries that stop
\* halfway, retries and late workers do, a key whose effect was started is never
\* tried again, it ends in success or review only, and what has ended stands.
ImplementsJournal == Journal!Spec

\* "while the action remains leased and running": an action whose effect may
\* be out there holds a lease, so that lease recovery will find it.
EffectUnderLease ==
    \A id \in Running :
        actions[id].effect_result = "unknown" => actions[id].lease # NoLease

\* An action does not run for ever: its worker may die before or after the
\* effect, and the process may restart before its lease has run out.
RunningEnds == \A id \in ActionIds : (id \in Running) ~> (id \notin Running)
=============================================================================
