------------------------------ MODULE WorkRuntime ------------------------------
(***************************************************************************)
(* gaudere::work::Runtime over the durable TaskStore: one process owns the *)
(* database, each call of the runtime loads a row, decides and saves it,   *)
(* and any client or worker may call any operation at any time, a worker   *)
(* that was presumed dead included.  A call the code refuses changes       *)
(* nothing, so it is a stuttering step.                                    *)
(*                                                                         *)
(* Time is counted in ticks finer than the millisecond the database        *)
(* stores, because the stored lease is a truncation of the computed one.   *)
(*                                                                         *)
(* Operators named Faulty... are variants of the operator after them with  *)
(* a plausible bug; no action uses them.                                   *)
(***************************************************************************)
EXTENDS Integers

CONSTANTS
    TaskIds,        \* task identifiers
    Keys,           \* idempotency keys
    Definitions,    \* the task definitions clients may submit
    TicksPerMs,     \* clock ticks in one stored millisecond
    Horizon,        \* bound on the clock, in ticks
    MaxRollbacks,   \* bound on the backward steps of the system clock
    Absent,         \* "no row": std::nullopt of TaskStore::find
    NoLease         \* "no lease": std::nullopt of Task::lease

Definition ==
    [id : TaskIds, key : Keys, well_formed : BOOLEAN,
     max_attempts : Nat, max_runtime : Int]

Statuses == {"pending", "running", "cancel_requested",
             "succeeded", "failed", "cancelled", "manual_review"}

\* Task::result, by what distinguishes the results the runtime writes.
Results == {"none", "output", "cancelled", "reported",
            "attempt_limit_exhausted", "output_limit_exceeded"}

States == {"recovering", "running", "draining", "safe"}

Row == [key : Keys, max_attempts : Nat \ {0}, max_runtime : Nat \ {0},
        attempts_started : Nat, status : Statuses,
        lease : Int \cup {NoLease}, result : Results]

ASSUME DefinitionsAssumption == Definitions \subseteq Definition
ASSUME TicksAssumption == TicksPerMs \in Nat \ {0}
ASSUME BoundsAssumption == Horizon \in Nat /\ MaxRollbacks \in Nat
ASSUME AbsentAssumption == Absent \notin Row
ASSUME NoLeaseAssumption == NoLease \notin Int

\* What a row records of its task for ever: all but the time of its attempts.
Entry == [key : Keys, max_attempts : Nat, attempts_started : Nat,
          status : Statuses, result : Results]

ASSUME EntryAssumption == Absent \notin Entry

VARIABLES
    tasks,      \* the tasks table: durable
    state,      \* Runtime::state_: lost when the process dies
    clock,      \* the system clock, in ticks
    rollbacks,  \* how often the clock has been set back
    promised    \* history: the lease end the last start computed, in ticks

vars == <<tasks, state, clock, rollbacks, promised>>
-----------------------------------------------------------------------------
(* Task.hpp and the queries of the store. *)

Active(status) == status \in {"running", "cancel_requested"}

IsTerminal(status) ==
    status \in {"succeeded", "failed", "cancelled", "manual_review"}

FaultyValidWithoutRuntime(d) == d.well_formed /\ d.max_attempts # 0

\* Strings that must not be empty and byte counts within their limits are
\* well_formed; a submitted task is pending, unleased and without result.
ValidDefinition(d) ==
    /\ d.well_formed
    /\ d.max_runtime > 0
    /\ d.max_attempts # 0

\* A time point is stored as a whole number of milliseconds.
Ms(t) == t \div TicksPerMs

Stored == {id \in TaskIds : tasks[id] # Absent}

ActiveIds == {id \in Stored : Active(tasks[id].status)}

FaultyHasActiveCountsPending ==
    \E id \in Stored : ~IsTerminal(tasks[id].status)

FaultyHasActiveForgetsCancel ==
    \E id \in Stored : tasks[id].status = "running"

HasActive == ActiveIds # {}

FaultyExpiredForgetsCancel ==
    {id \in Stored : /\ tasks[id].status = "running"
                     /\ tasks[id].lease <= Ms(clock)}

FaultyExpiredRoundsUp ==
    {id \in ActiveIds : tasks[id].lease <= Ms(clock) + 1}

LeasedWithExpiredLease ==
    {id \in ActiveIds : tasks[id].lease <= Ms(clock)}

\* MIN(lease_expires_at_ms) over the active rows.
NextLeaseExpiry ==
    IF ActiveIds = {} THEN NoLease
    ELSE CHOOSE t \in {tasks[id].lease : id \in ActiveIds} :
             \A id \in ActiveIds : t <= tasks[id].lease

Holds(id, statuses) == tasks[id] # Absent /\ tasks[id].status \in statuses

Save(id, row) == tasks' = [tasks EXCEPT ![id] = row]
-----------------------------------------------------------------------------
Init ==
    /\ tasks = [id \in TaskIds |-> Absent]
    /\ state = "recovering"
    /\ clock = 0
    /\ rollbacks = 0
    /\ promised = [id \in TaskIds |-> 0]

FaultyRecoveredOffByOne(row) ==
    IF row.attempts_started <= row.max_attempts
    THEN [row EXCEPT !.lease = NoLease, !.status = "pending"]
    ELSE [row EXCEPT !.lease = NoLease, !.status = "failed",
                     !.result = "attempt_limit_exhausted"]

FaultyRecoveredKeepsLease(row) ==
    [row EXCEPT !.status = "failed", !.result = "attempt_limit_exhausted"]

FaultyRecoveredRefunds(row) ==
    [row EXCEPT !.attempts_started = @ - 1, !.lease = NoLease, !.status = "pending"]

\* What lease recovery makes of one row whose lease has run out.
Recovered(row) ==
    IF row.status = "cancel_requested"
    THEN [row EXCEPT !.lease = NoLease, !.status = "cancelled",
                     !.result = "cancelled"]
    ELSE IF row.attempts_started < row.max_attempts
    THEN [row EXCEPT !.lease = NoLease, !.status = "pending"]
    ELSE [row EXCEPT !.lease = NoLease, !.status = "failed",
                     !.result = "attempt_limit_exhausted"]

RecoverRows(ids) ==
    tasks' = [id \in TaskIds |->
                IF id \in ids THEN Recovered(tasks[id]) ELSE tasks[id]]

\* One save per expired row, in no particular order: an exception, or the
\* death of the process, may leave any part of the rows recovered.
RecoverExpired ==
    /\ \E ids \in SUBSET LeasedWithExpiredLease : RecoverRows(ids)
    /\ UNCHANGED <<state, clock, rollbacks, promised>>

\* recover() that runs to its end; one that does not is RecoverExpired.
Recover ==
    /\ RecoverRows(LeasedWithExpiredLease)
    /\ state' = "running"
    /\ UNCHANGED <<clock, rollbacks, promised>>

\* The owner of the runtime wakes at next_recovery_at() and recovers.
RecoverAtNextRecovery ==
    /\ NextLeaseExpiry # NoLease
    /\ NextLeaseExpiry <= Ms(clock)
    /\ RecoverRows(LeasedWithExpiredLease)
    /\ UNCHANGED <<state, clock, rollbacks, promised>>

FaultyDuplicateOnlyOpen(d) ==
    \E id \in Stored :
        ~IsTerminal(tasks[id].status) /\ (id = d.id \/ tasks[id].key = d.key)

Duplicate(d) ==
    \/ d.id \in Stored
    \/ \E id \in Stored : tasks[id].key = d.key

NewRow(d) ==
    [key |-> d.key, max_attempts |-> d.max_attempts,
     max_runtime |-> d.max_runtime, attempts_started |-> 0,
     status |-> "pending", lease |-> NoLease, result |-> "none"]

Submit(d) ==
    /\ state = "running"
    /\ ValidDefinition(d)
    /\ ~Duplicate(d)
    /\ Save(d.id, NewRow(d))
    /\ UNCHANGED <<state, clock, rollbacks, promised>>

\* The lease is computed in ticks and stored in milliseconds.
Start(id) ==
    /\ state = "running"
    /\ Holds(id, {"pending"})
    /\ tasks[id].attempts_started < tasks[id].max_attempts
    /\ LET expires == clock + tasks[id].max_runtime * TicksPerMs
       IN  /\ expires <= Horizon
           /\ Save(id, [tasks[id] EXCEPT !.attempts_started = @ + 1,
                                         !.status = "running",
                                         !.lease = Ms(expires)])
           /\ promised' = [promised EXCEPT ![id] = expires]
    /\ UNCHANGED <<state, clock, rollbacks>>

FaultyFinishIgnoresStatus(id, status, result) ==
    /\ tasks[id] # Absent
    /\ Save(id, [tasks[id] EXCEPT !.status = status, !.lease = NoLease,
                                  !.result = result])
    /\ UNCHANGED <<state, clock, rollbacks, promised>>

\* The tail shared by succeed, fail and require_manual_review.
Finish(id, status, result) ==
    /\ tasks[id] # Absent
    /\ Active(tasks[id].status)
    /\ Save(id, [tasks[id] EXCEPT !.status = status, !.lease = NoLease,
                                  !.result = result])
    /\ UNCHANGED <<state, clock, rollbacks, promised>>

\* The output either fits max_output_bytes or becomes a durable failure.
Succeed(id) ==
    \/ Finish(id, "succeeded", "output")
    \/ Finish(id, "failed", "output_limit_exceeded")

Fail(id) == Finish(id, "failed", "reported")

RequireManualReview(id) == Finish(id, "manual_review", "reported")

\* A second request on a cancel_requested task saves the row as it is.
RequestCancel(id) ==
    /\ Holds(id, {"pending", "running", "cancel_requested"})
    /\ Save(id, IF tasks[id].status = "pending"
                THEN [tasks[id] EXCEPT !.status = "cancelled",
                                       !.result = "cancelled"]
                ELSE [tasks[id] EXCEPT !.status = "cancel_requested"])
    /\ UNCHANGED <<state, clock, rollbacks, promised>>

MarkCancelled(id) ==
    /\ Holds(id, {"cancel_requested"})
    /\ Save(id, [tasks[id] EXCEPT !.status = "cancelled", !.lease = NoLease,
                                  !.result = "cancelled"])
    /\ UNCHANGED <<state, clock, rollbacks, promised>>

RequestShutdown ==
    /\ state = "running"
    /\ state' = "draining"
    /\ UNCHANGED <<tasks, clock, rollbacks, promised>>

TryMarkSafe ==
    /\ state = "draining"
    /\ ~HasActive
    /\ state' = "safe"
    /\ UNCHANGED <<tasks, clock, rollbacks, promised>>

\* The process dies and a new Runtime is constructed over the same store.
Crash ==
    /\ state' = "recovering"
    /\ UNCHANGED <<tasks, clock, rollbacks, promised>>

Tick ==
    /\ clock < Horizon
    /\ clock' = clock + 1
    /\ UNCHANGED <<tasks, state, rollbacks, promised>>

\* system_clock may be set back.
Rollback ==
    /\ rollbacks < MaxRollbacks
    /\ clock' \in 0 .. clock - 1
    /\ rollbacks' = rollbacks + 1
    /\ UNCHANGED <<tasks, state, promised>>

Next ==
    \/ Recover
    \/ RecoverExpired
    \/ \E d \in Definitions : Submit(d)
    \/ \E id \in TaskIds :
        \/ Start(id)
        \/ Succeed(id)
        \/ Fail(id)
        \/ RequireManualReview(id)
        \/ RequestCancel(id)
        \/ MarkCancelled(id)
    \/ RequestShutdown
    \/ TryMarkSafe
    \/ Crash
    \/ Tick
    \/ Rollback

Spec == Init /\ [][Next]_vars

\* The clock goes on, the owner recovers at next_recovery_at() and, while it
\* drains, keeps asking whether it is safe.  Nothing makes a client call, and
\* nothing makes a worker answer.
FairSpec ==
    /\ Spec
    /\ WF_vars(Tick)
    /\ WF_vars(RecoverAtNextRecovery)
    /\ WF_vars(TryMarkSafe)
-----------------------------------------------------------------------------
TypeOK ==
    /\ tasks \in [TaskIds -> Row \cup {Absent}]
    /\ state \in States
    /\ clock \in Nat
    /\ rollbacks \in Nat
    /\ promised \in [TaskIds -> Int]

\* Two rows never share an idempotency key (the UNIQUE column).
KeysUnique ==
    \A a, b \in Stored : tasks[a].key = tasks[b].key => a = b

\* Every row the runtime saves passes the UNIQUE and CHECK constraints of the
\* tasks table: no save is refused by the database, in particular none in the
\* middle of the recovery loop.
SchemaHolds ==
    /\ KeysUnique
    /\ \A id \in Stored :
        LET row == tasks[id] IN
        /\ row.attempts_started <= row.max_attempts
        /\ Active(row.status) <=> row.lease # NoLease
        /\ IsTerminal(row.status) <=> row.result # "none"

\* A pending task can still be started: recovery never returns to pending a
\* task whose attempts are used up, which start() would then refuse forever.
PendingIsStartable ==
    \A id \in Stored :
        tasks[id].status = "pending" =>
            tasks[id].attempts_started < tasks[id].max_attempts

\* Whoever sleeps until next_recovery_at() misses no lease that has run out, and
\* finds one when it wakes: next_recovery_at() (MIN over the active rows) and
\* recover_expired() agree in every state on which leases count.
NextRecoveryExact ==
    NextLeaseExpiry # NoLease /\ NextLeaseExpiry <= Ms(clock)
        <=> LeasedWithExpiredLease # {}

\* Once the runtime reports safe, no task is running or being cancelled,
\* whatever workers, clients and recovery did while it drained.
SafeMeansQuiet == state = "safe" => ActiveIds = {}

\* A terminal task never changes again, whoever answers late, cancels it or
\* recovers it.
TerminalIsFinal ==
    [][\A id \in Stored :
          IsTerminal(tasks[id].status) => tasks'[id] = tasks[id]]_vars

\* Once a cancellation has been recorded the task is never retried: it stays
\* cancel_requested until it is terminal, also when its lease runs out.
CancelSticks ==
    [][\A id \in Stored :
          tasks[id].status = "cancel_requested" =>
              /\ tasks'[id].status # "pending"
              /\ tasks'[id].status # "running"]_vars

\* A step of lease recovery takes a running task away from its worker.
TakenFromWorker(id) ==
    /\ tasks[id] # Absent
    /\ tasks[id].status = "running"
    /\ \/ tasks'[id].status = "pending"
       \/ tasks'[id].result = "attempt_limit_exhausted"

\* Recovery takes a task only when its worker has had max_runtime, less the
\* fraction of a millisecond that the stored lease has lost.
LeaseHonouredToTheMs ==
    [][\A id \in TaskIds :
          TakenFromWorker(id) => promised[id] < clock + TicksPerMs]_vars

EntryOf(row) ==
    [key |-> row.key, max_attempts |-> row.max_attempts,
     attempts_started |-> row.attempts_started,
     status |-> row.status, result |-> row.result]

Entries == [id \in TaskIds |-> IF tasks[id] = Absent THEN Absent ELSE EntryOf(tasks[id])]

Ledger == INSTANCE TaskLedger WITH
    Ids <- TaskIds, Limits <- {d.max_attempts : d \in Definitions} \ {0},
    Results <- Results \ {"none"}, Unused <- Absent, ledger <- Entries

\* The rows implement the ledger: whatever workers, clients, recovery that stops
\* halfway and restarts do, a key is accepted once, attempts are begun one at
\* a time within their limit and never after a cancellation, and an end stands.
ImplementsLedger == Ledger!Spec

\* A task does not stay active for ever: its worker may die, its cancellation
\* may never be acknowledged, the process may restart and its clock be set
\* back, and yet recovery at next_recovery_at() ends the lease.
ActiveEnds ==
    \A id \in TaskIds :
        (id \in ActiveIds) ~> (id \notin ActiveIds)

\* A drain does not hang on a task whose worker is gone.
DrainingSettles == (state = "draining") ~> (state # "draining")
=============================================================================
