# Formal models of Gaudere

TLA+ models, model-checking runs and machine-checked proofs for the C++ library
`gaudere`: durable work tasks, recoverable external effects, a wake-up
scheduler, durable wake intents and a durable budget.

- `*.tla` without prefix: the components, translated from the source.
- `MC*.tla`, `*.cfg`: instances for TLC.
- `*Proofs.tla`: theorems with proofs for TLAPS.
- `PROJECT.json`: for each definition the source lines it models, the runs, the
  hazards, the findings, and for each checked property a faulty variant of the
  code that breaks it.

Run `tlc -config <name>.cfg <module>.tla` and `tlapm <module>.tla`.

## 1. The system

| Component | State | Operations |
| --- | --- | --- |
| `work::Runtime` over `sqlite::TaskStore` | table `tasks` (durable), `state_` (volatile) | `recover`, `recover_expired`, `submit`, `start`, `succeed`, `fail`, `require_manual_review`, `request_cancel`, `mark_cancelled`, `request_shutdown`, `try_mark_safe`; queries `find*`, `next_recovery_at` |
| `wake::Runtime` over `sqlite::ActionStore` | table `actions`, `state_` | `recover`, `submit`, `start`, `transition`, `record_effect_started`, `record_confirmed_result`, `record_unknown_result`, `request_shutdown`, `try_mark_safe` |
| `wake::Scheduler` | `deadline_`, `interrupted_`, `stopped_`, a mutex and a condition variable | `request_at`, `request_after`, `wait`, `interrupt`, `stop`, `next` |
| `WakeIntentRuntime` over `sqlite::WakeIntentStore` | table `wake_intents` | `accept`, `reconcile`, `revoke`; queries `find`, `next_scheduled_at`, `inspect_scope` |
| `sqlite::BudgetStore` | table `budget_consumptions` | `consume`, `snapshot` |
| schema versions | `user_version` of the shared database file | the constructors of the stores |

**How they interact.** Each runtime owns a reference to its store and an injected
clock, and nothing else: the library has no thread, no callback and no loop. An
application composes it: it asks `next_recovery_at()` or `next_scheduled_at()`
when to wake, hands that to the scheduler, waits, and then calls
`recover_expired()` or `reconcile()`. Tasks, actions and wake intents may share
one SQLite file. `TaskStore.hpp` states that one process owns a state database;
the stores of wake intents and budgets are transactional and serve any number
of callers.

**What is hard here.**

- Workers outlive their leases: an answer arrives after recovery has given the
  task to somebody else, ended it, or after a cancellation.
- Recovery is a loop of separate saves and may stop halfway.
- The process dies around an external effect.
- Time: leases and permits are stored in milliseconds and computed in clock
  ticks; the system clock is set back; a sample of the clock is older than the
  transaction that uses it.
- A drain must end, and must not be called safe too early.
- The scheduler wakes one of several threads.
- Selection does not claim: what a worker selected has changed when it starts it.
- The armed deadline is in memory, the intents on disk: a restart, and an accept
  between `next_scheduled_at()` and `request_at()`, must not leave an intent
  without a wake-up.
- Stores of one file share `user_version` and may be constructed in any order,
  by two processes at once, and die on the way.

## 2. Modules

| Module | Models | State |
| --- | --- | --- |
| `WorkRuntime` | `work/Runtime.cpp`, `sqlite/TaskStore.cpp` | `tasks`, `state`, `clock`; history `promised` |
| `WorkRuntimeProofs` | theorems about it, and that it implements `TaskLedger` | |
| `WakeRuntime` | `scheduling/wake/Runtime.cpp`, `sqlite/ActionStore.cpp` | `actions`, `state`, `clock`; history `crossings` |
| `WakeRuntimeProofs` | theorems about it, and that it implements `EffectJournal` | |
| `Scheduler` | `scheduling/wake/Scheduler.cpp` | `deadline`, `interrupted`, `stopped`, `pc` and `awaited` of each waiting thread, `clock` |
| `SchedulerProofs` | theorems about it | |
| `WakeIntents` | `WakeIntentRuntime.cpp`, `sqlite/WakeIntentStore.cpp` | `intents`, `calls` in progress, `clock`; history `latest` |
| `WakeIntentsProofs` | theorems about it, and that it implements `IntentLedger` | |
| `WorkOwner` | `WorkRuntime` in the hands of its owner: `find_pending_for()`, the workers, restarts | as `WorkRuntime`; `order` (the rowids), `workers` |
| `WorkOwnerProofs` | theorems about it, on those about `WorkRuntime` | |
| `WakeService` | `Scheduler` and `WakeIntents` together: an owner that reconciles, arms and waits, clients that accept and announce | as both, one clock; `owner`, `announced` |
| `WakeServiceProofs` | theorems about it, on those about `Scheduler` and `WakeIntents` | |
| `SchemaVersions` | the constructors of the four stores over one file | `file`, the writer's `draft`, `writer`, `openers` |
| `SchemaVersionsProofs` | theorems about it | |
| `Budget` | `sqlite/BudgetStore.cpp` | `consumed`, `calls` in progress, `clock`; history `taken` |
| `BudgetProofs` | theorems about it, and that it implements `Allowance` | |
| `TaskLedger` | the abstract promise of the tasks, implemented by `WorkRuntime` | `ledger` |
| `EffectJournal` | the abstract promise of the effects, per idempotency key, implemented by `WakeRuntime` | `stage`, `effects` |
| `IntentLedger` | the abstract promise of the wake intents, implemented by `WakeIntents` | `ledger` |
| `Allowance` | the abstract promise of a budget, implemented by `Budget` | `granted` |

Conventions. A row of a table is a record, "no row" is `Absent`, a NULL time is
`NoLease` or `NoTime`. Payloads, reasons, owners and texts are left out; the
validity of a definition keeps only what later steps depend on. One operation of
the code is one action; a call the code refuses is a stuttering step. `Tick` and
`Rollback` are the system clock, which every component reads. `Crash` keeps the
tables and loses the rest. `Fail` is a call that throws because SQLite refuses
it, the write lock not granted within `busy_timeout` included.

**Atomicity.** In `WorkRuntime` and `WakeRuntime` an operation loads a row,
decides and saves it in one step, because one process owns the database and the
runtimes are not shared between threads (`state_` is a plain member); the loops
of `recover()` and `recover_expired()` are not one transaction, so their
actions may handle any part of the rows. In `WakeIntents` and `Budget`, which
several callers may use, each over a store of its own as the tests do it, a call
takes two steps: it samples the clock, and later runs its `BEGIN IMMEDIATE ...
COMMIT` transaction. In `Scheduler` a
stretch of code that holds the mutex and does not block is one step.

**Correspondence that is not one to one.**

- `WorkRuntime!RecoverExpired` is `recover_expired()` that may stop at any row,
  `Recover` is a `recover()` that runs to its end.
- `WakeRuntime` has a clock of whole milliseconds and no finer one, although leases
  are computed in clock ticks and truncated when they are stored: a lease of any
  length adds a whole number of milliseconds to the truncated clock, its own length
  rounded down or up, and every query compares truncated times. `Durations` are
  these numbers, 0 for a lease shorter than a millisecond; none of the module's
  properties says how long a lease lasts. `WorkRuntime` keeps the ticks, since
  `LeaseHonouredToTheMs` is about them.
- `WorkRuntime!Succeed` covers an output within `max_output_bytes` and one above it.
- `WakeRuntime!Submit` takes a new action: pending, without effect and lease.
  The constant `Requests` says which ids and keys clients use, `Targets` which
  statuses they pass to `transition()`.
- `Scheduler!Loop` is one turn of the `for (;;)` of `wait()`. `Enter` runs it on
  entry, `Resume` after a wake-up, `Timeout` is the return of `wait_until`.
- `Budget!NextNewConsumption` is the answer `snapshot()` computes on its own path.

- `WorkOwner`: each action of a worker or of the owner is the action of
  `WorkRuntime` it calls, and what the caller then knows. The library contains
  no such loop; the actions without a call are external in `PROJECT.json`.
  Time passes only while a lease runs: without one the next lease is counted
  from its own start, so the clock needs no more than the sum of the leases,
  and its bound keeps no task from being started (`OwnerTypeOK` says so, and
  `OwnerAlwaysTyped` proves it of every `Horizon` that has `RoomForAll`).
- `WakeService`: the owner's loop is `reconcile()`, `next_scheduled_at()`,
  `request_at()`, `wait()`, each a step of its own, so that an accept may come
  between any two. A client calls `request_at()` itself after an accepted
  intent; the process may die in between. `Request` and `SetInterrupted` are the
  operations of `Scheduler` without their counters. The clock is not set back
  in the composition, only in its parts.
- `SchemaVersions`: a statement of a constructor is one step on `draft`, `Commit`
  makes it the file. `journal_mode=WAL`, which every constructor sets before it
  looks at the version, is not represented. The table of a migrated version 2
  file lacks the CHECK that ties the two metadata columns to each other; both
  forms are the same part here.

Operators named `Faulty...` are variants of the definition after them with a
plausible bug. No action uses them; each shows that one property notices that bug.

## 3. Runs

| Run | Checks | Bounds |
| --- | --- | --- |
| `work` | `TypeOK`, `SchemaHolds`, `NextRecoveryExact`, `SafeMeansQuiet`; `ImplementsLedger`, `LeaseHonouredToTheMs`; `ActiveEnds`, `DrainingSettles` | 2 tasks, 2 keys, 6 definitions, 6 ticks of half a millisecond, 1 rollback |
| `work_owner` | `OwnerTypeOK`, `AttemptHeldOnce`, `LeasesDisjoint`; `OnlyLateAnswersIntrude`; `NoStarvation` | 2 workers, one for one kind and one for both, 2 tasks with 2 attempts and 1, 3 ms, 1 rollback |
| `wake` | `TypeOK`, `EffectAtMostOnce`, `EffectOnRecord`, `EffectFitsStatus`, `SafeMeansQuiet`; `ImplementsJournal`; `RunningEnds` | 3 actions, 2 keys, 4 ms, 1 rollback, leases of 0 and 2 ms |
| `scheduler` | `TypeOK`; `DeadlineKept`; `StopReleases`, `InterruptSeen` | 2 threads, 3 requests, 2 interruptions, 1 rollback |
| `intents` | `TypeOK`, `SchemaHolds`, `NeverEarly`; `ImplementsLedger` | 3 ids, 3 sources, total 2, 2 callers, 2 ms, 1 rollback |
| `wake_service` | `ServiceTypeOK`, `ArmedInTime`, `NoLostWakeup`; `IntentsEnd` | 1 owner in `wait()`, 1 client, 2 ids, delays of 1 and 2 ms, 2 ms, any number of interruptions, stops and crashes |
| `budget` | `TypeOK`, `PermitsSpaced`, `WindowBounded`, `SnapshotForetells`; `ImplementsAllowance` | 4 keys, 2 callers, total 3, 2 in a window of 3 ms, spacing 1 ms, 8 ticks of half a millisecond, 1 rollback |
| `schema` | `TypeOK`, `OpenIsUsable`; `MigrationsAreAdditive` | 2 openers of 4 stores, 7 files of versions 0 to 5, any number of failures |
| `wake_reuse`, `wake_transition`, `scheduler_two_waiters`, `intents_overlap` | see section 5 | |

**What the abstract specifications say.** Four of the properties are refinements.
`TaskLedger`, `EffectJournal`, `IntentLedger` and `Allowance` are what a client
is promised, without clocks that are set back, leases, workers, calls under way
or restarts; `ImplementsLedger`, `ImplementsJournal` and `ImplementsAllowance`
map the tables to them. They hold together what single invariants say apart: a
terminal task stands, a pending one has an attempt left and a key is accepted
once (`TaskLedger`); a started effect leads to success or to a review and to
nothing else (`EffectJournal`); no permit is taken back or dated anew and each
comes within the policy (`Allowance`).

**What the compositions show.** `work_owner`: the selection that claims nothing
is made safe by `start()`, which looks again: no attempt is handed out twice
and, while a lease runs on a clock that is not set back, its task is given to
nobody else. A late answer may still end it: the operations name no attempt, so
that the answer of a first worker, given after its lease, ends the attempt a
second one is working on, whose own answer is then refused. The model takes such
steps; no document promises otherwise, so this is not a finding.
`OnlyLateAnswersIntrude` says where it ends: on a clock that is not set back, a
worker that answers while its own lease runs never takes a task from one whose
lease runs. A cancellation, once recorded, is never followed by a retry; that is
part of `ImplementsLedger`. A task keeps its rowid when it is retried, so it is
selected again before all younger ones; that this starves nobody rests on the limit of
attempts, and an off-by-one in it would block the queue for good. `wake_service`:
the owner may arm a deadline that is out of date, because every accept is
announced by its own caller, `request_at()` takes the earlier one, and a
consumed deadline always leads to another `reconcile()`. Of the four steps of
the owner none may be left out: without `next_scheduled_at()` a restart would
forget the future intents. `schema`: the version is a floor and no inventory
(a wake-intent store makes an empty file version 4), so each constructor must
look for its tables and columns and not at the version.

**Why the bounds are enough.** Rows of tasks and actions do not interact except
through the uniqueness of ids and keys and through the drain, so two rows that
compete for a key, and a third that does not, meet every case. The attempts are
1 and 2, so that recovery both retries and gives up. The clocks run longer than
the longest lease or delay, so leases expire, deadlines pass and there is time
after them; one rollback puts the clock before an acceptance, a lease or a
permit. Half-millisecond ticks are the coarsest that make truncation visible.
One notify_one can go to the wrong thread only when there are two. Two intents
are enough for one deadline to be earlier than another, or equal to it; the
owner and one client are enough for every order of arming and announcing, since
the owner only ever sees the table. Two openers are enough, as one writes at a
time and a file is what earlier openers left. The total of
the ledger and of the budget is smaller than the number of ids, so that limits
bind, and the window of the budget is exhausted before its total. For the safety
properties the theorems of section 4 remove these bounds; liveness rests on them.

**Fairness.** Nothing makes a client call, a worker answer or the clock be set
back; no spurious wake-up is assumed, and outside of `WakeService` no thread has
to call `wait()` again. Assumed are:

- `WF(Tick)`: the clock goes on.
- `WorkRuntime`: `WF(RecoverAtNextRecovery)`, since `next_recovery_at()` exists
  to tell the owner when to recover, and `WF(TryMarkSafe)`, since an owner that
  drains asks until it is safe. `WakeRuntime`: `WF(RecoverWhenDue)`.
- `Scheduler`: weak fairness of each thread that can run (`Enter`, `Resume`,
  `Timeout`), as the operating system gives it.
- `WorkOwner`: the owner recovers at a start and when a lease is due, and a worker
  that has given its lease up does not work on for ever. Strong fairness of
  `Select` and `StartSelected`: crashes and other workers may interfere each
  time, but not for ever.
- `WakeService`: weak fairness of the owner's steps and of a client that has a
  deadline to announce, strong fairness of the owner's commit, since a crash or
  a refused lock may come each time, but not for ever. In particular the owner
  must not assume that one attempt is enough.

`Horizon` bounds only the clock: at the horizon it stays there and reads as a
time after every lease and deadline. No run stops TLC's deadlock check.

## 4. Proofs

Every safety property, every action property and every refinement of section 3
is also a theorem, checked by TLAPS for all values of the constants: any set of
tasks, keys, intents, callers, workers, clients, openers and requests, every
clock resolution, every policy and every bound. The assumptions are the named
`ASSUME`s of the modules; what a theorem needs beyond them is a hypothesis of it
and said here. Only liveness is left to TLC.

**`WorkRuntimeProofs`**: `TypeCorrect`, `SchemaAlwaysHolds`,
`PendingAlwaysStartable`, `SafeIsQuiet`, `TerminalStaysFinal`,
`CancelAlwaysSticks`, `LeaseAlwaysHonoured`. The argument: lemma `NextIsRowStep`
opens each action once and shows that every step does to every row one of a few
things (`RowStep`). Lemma `RowStepGood` shows that none of them breaks `GoodRow`,
which is stronger than the properties: attempts stay within their limit and a
pending row is strictly below it (else recovery could strand a task), a lease
and a result are there exactly in the statuses the table demands, and an active
row's lease is the truncation of the time `start()` computed. The inductive
invariant `IInv` adds unique keys and `SafeMeansQuiet`. That recovery is early
by less than a millisecond is arithmetic about `Ms` (`MsLosesLessThanOne`), for
any number of ticks per millisecond.

`RuntimeImplementsLedger` is the refinement of `TaskLedger`, under a mapping that
forgets leases, clocks and the runtime's state. Each action is one step of the
ledger or leaves it alone; the hard case is recovery, which may stop at any row
and so ends or returns any set of tasks at once (`Lose`). Being below the limit
of attempts, part of `GoodRow`, is what allows `start()` to be an `Attempt`.

`NextRecoveryIsExact` and `RecoveryNeverSpins` are about the owner's loop:
`next_recovery_at()` is due exactly when `recover_expired()` finds a row, and a
recovery that runs to its end leaves none that is due. They need one more
conjunct, `PromisesCount`: the time `start()` computed is a natural number, so
that the leases of the active rows have a least one, by the well-foundedness of
the natural numbers (`EarliestLease`).

**`WorkOwnerProofs`**: `OwnerImplementsRuntime`, `OwnerImplementsLedger`,
`OrderListsStored`, `AttemptAlwaysHeldOnce`, `LeasesAlwaysDisjoint`,
`TimelyAnswersAreOwn`, `OwnerAlwaysTyped`. First, each step of the owner is
a step of `WorkRuntime` or leaves its variables alone, so `IInv` and `RowStep`
above hold for it. The invariant `OwnerInv` then says of each working worker
(`Held`) that its attempt has been started, that the row carries its lease for as
long as that attempt is active, and that while the lease runs on a clock that is
not set back it is still the last attempt. `LeasesDisjoint` alone is not
inductive: it does not say why `recover_expired()` cannot take the task away,
which is that the lease in the row is the worker's. `AttemptHeldOnce` follows
since `start()` counts up, so a new attempt has a number no worker holds.
`TimelyAnswersAreOwn` is what the two give together: of one task, two leases never
run at once. Lemma
`SelectsOldest` shows that `find_pending_for()` returns a task exactly when one
is pending that the worker accepts, and then the one submitted first; that the
minimum exists is the well-foundedness of the natural numbers. `OwnerAlwaysTyped`
is about the model's clock: what is left of it always holds the attempts that are
left (`Room`), because the clock moves on only while a lease runs and that lease
has been paid for. Its hypothesis is `RoomForAll`, that `Horizon` is at least the
sum of the runtimes of all attempts, for any measure of that sum; TLC checks it
on the instance (`HorizonAssumption` of `MCWorkOwner`).

**`WakeRuntimeProofs`**: `TypeCorrect`, `KeysAlwaysUnique`, `EffectAlwaysFits`
without assumptions on clients; `EffectNeverRepeated`, `EffectStaysOnRecord`,
`FinalIsFinal` and `RuntimeImplementsJournal` under `OneKeyPerId` (no id is submitted under two keys);
`SafeIsQuiet` when clients start actions with `start()` only. The runs
`wake_reuse` and `wake_transition` show what happens to clients that do
otherwise. The heart of `EffectNeverRepeated` is that the number of effects
started under a key is bounded by what the one row of that key records.
`RuntimeImplementsJournal` is the refinement of `EffectJournal`, whose unit is the
idempotency key and not the row. What makes it go through is that a key has at
most one row and an id never changes its key (`OneRowOneKey`), so the stage of a
key is that of its row (`StageOfHolder`), a step that writes one row moves one key
at most (`RowWritten`, `StageUntouched`), and a recovery, which writes many rows,
is one step of many keys.

**`SchedulerProofs`**: `TypeCorrect`, `DeadlineAlwaysKept` and
`InterruptAndStopHeard` for any number of threads, `NoWakeupIsLost` for one. The
bounds on the number of calls are dropped (`Step`). `InterruptAndStopHeard` is
what does hold with many threads: `stop()` leaves nobody blocked, and while an
interruption is pending and threads are blocked, another one is awake to consume
it. `NoLostWakeup` is inductive only where a notification can go to nobody else:
`Waiters = {w}` is a hypothesis of the theorem, and `scheduler_two_waiters` shows
that it is needed.

**`WakeIntentsProofs`**: `TypeCorrect`, `SchemaAlwaysHolds`, `FiresNeverEarly`,
`LedgerImplemented`, `TotalAndSourcesKept`, `ReconcileNeverSpins`. Samples are old when a transaction
uses them and the clock may have been set back since, so the invariant speaks of
`latest`: every call under way was sampled no later (`GoodCall`), no row has
fired with a deadline after it (`GoodRow`), and `latest` only grows
(`GoodLater`). `LedgerImplemented` is the refinement: the empty table is the
empty ledger; `AcceptStep` shows that a commit of `accept()` adds an unused
intent within the total and with a new source, or changes nothing;
`ReconcileStep` and `RevokeStep` show that any set of scheduled intents ends at
once, each once; every other step leaves `intents` alone. `TotalAndSourcesKept`
is what the ledger is good for. `ReconcileNeverSpins`: after a reconcile that
commits, `next_scheduled_at()` names no time that its sample had reached, so an
owner that arms what it reads is not woken for the same deadline again.

**`WakeServiceProofs`**: `ServiceTypeCorrect`, `AlwaysArmedInTime`,
`OwnerLosesNoWakeup`, `ServiceImplementsIntents`, `ServiceImplementsLedger`,
`ServiceFiresNeverEarly`, for any number of clients and
intents and one owner (`OwnerAssumption`). The scheduler's steps are those of
`SchedulerProofs`, whose lemmas are used. `ArmedInTime` is not inductive alone. It
needs that the owner is inside of `wait()` only in its place of the loop (else a
returned deadline could be lost before the next `reconcile()`), that a client
announces what it accepted before it calls again (`AnnouncesFirst`), and that an
`accept()` under way has a deadline in range. Each step then either keeps what
made a deadline foreseen or hands it on: a commit to its client, the client's
announcement to the scheduler, a consumed deadline to the owner that returns, and
`next_scheduled_at()` to the owner that arms. `ServiceImplementsIntents` is the
refinement of `WakeIntents` by the composition. The last two theorems carry that
module's results over: `WakeIntentsProofs` is instantiated a second time with the
constants and variables of the service (`Proved`), its assumptions are shown for
them (`IntentsAssumptions`), and its theorems then speak of the composition.

**`BudgetProofs`**: `TypeCorrect`, `TotalNeverExceeded`, `PermitsAlwaysSpaced`,
`WindowNeverExceeded`, `SnapshotAlwaysForetells`, `BudgetImplementsAllowance`. The assumption that matters is
`OriginAssumption`: the clock is at least one window after the epoch. `IInv` is
the three bounds together with `LatestExists`, that some permit is the latest, as
the transaction looks at that one only; `AdmissionKnows` shows that an accepted
call therefore comes `min_interval` after all permits and not just after one.
With that no permit is younger than a new one, and the permits that a window
ending in the new one could hold are those that the query counts, up to
truncation (`MsGap`, `MsCutoff`). `BudgetImplementsAllowance` is the refinement: an
admission is a `Grant` at the time in the row (`AdmissionIsGrant`), where the
policy that the transaction evaluates in clock ticks holds of the stored
milliseconds too, and every other step, a replay of a key included, leaves the
permits as they are.

**`SchemaVersionsProofs`**: `TypeCorrect`, `OpenAlwaysUsable`, `AlwaysAdditive`,
for any number of openers and any file of `File`, not only the seven of the run.
`OpenIsUsable` needs `Progress`: a constructor between `BEGIN` and `COMMIT` works
on the content of the file, has added what its statements so far are for and
nothing else, and has passed the check of the version. Lemma `CompletedIsFile`
is the reason that versions may be a floor: what one store adds, another neither
needs nor misses.

**Only model-checked.**

- Liveness (`ActiveEnds`, `DrainingSettles`, `NoStarvation`, `RunningEnds`,
  `StopReleases`, `InterruptSeen`, `IntentsEnd`): this prover does not handle
  fairness or `ENABLED`.
- The four findings of section 5, which are violations.

## 5. Findings

Each is a run that TLC must find violated.

- `wake_reuse`: `submit()` of an existing id under a new key overwrites the row
  that records a possible effect; the effect of the old key can then be repeated.
- `wake_transition`: `transition(id, running)` grants no lease; the effect marker
  can then be set on an action that recovery never selects.
- `scheduler_two_waiters`: with two threads in `wait()`, the one that is notified of
  a deadline may leave with an interruption, and the other sleeps past the deadline.
- `intents_overlap`: an accept that samples after and commits before an
  overlapping reconcile or revoke is treated as a clock rollback.

Not a finding of its own: the stored lease is truncated to milliseconds, so
recovery may take a task less than a millisecond before the time `start()`
computed. `LeaseHonouredToTheMs` is the bound that holds.

## 6. Not modelled

- `inspect_scope()`: it changes no state, and its open cursor holds one snapshot
  for all it reads.
- Several threads over one store object: one connection, hence one transaction
  for all of them. Nothing documents such a use; the tests give each thread a
  store of its own.
- Loops around `wake::Runtime` and `BudgetStore`: nothing says how they are used
  together with the rest.
- Contents: inputs, outputs, metadata, reasons, texts and their encoding in SQL.
- I/O errors other than a crash or an exception between two saves; SQLite itself
  is taken to be atomic and durable at commit.
- Times before the epoch, and overflow of `now + max_runtime` (undefined in C++).
- Several policies for one budget scope, and several scopes: scopes share no row.

## 7. Plan

The modules are complete, and so are the proofs of the safety properties the
runs check. What would add to them:

1. Action properties of `WakeService` about restarts: what a crash may not
   change besides the scheduler.
2. Liveness, the one part that rests on TLC's bounds, once the prover handles
   fairness: `ActiveEnds` and `IntentsEnd` first, whose arguments are short given
   `NextRecoveryIsExact` and `AlwaysArmedInTime`.
3. `inspect_scope()` as a reader with a snapshot of its own, should it ever write.
