-------------------------------- MODULE WorkOwner --------------------------------
(***************************************************************************)
(* WorkRuntime in the hands of the process that owns it: its workers       *)
(* select a task with find_pending_for(), start it, work outside of the    *)
(* runtime and answer, late or never.  Selection does not claim, so        *)
(* workers may select the same task, and anything may happen to it before  *)
(* it is started.                                                          *)
(*                                                                         *)
(* The library contains no such loop: the workers are the use its headers  *)
(* describe, one process that owns the database and a selection that does  *)
(* not claim; find_pending_for() and all they call are its code.  state_   *)
(* is a plain member, so the process makes these calls one at a time.      *)
(***************************************************************************)
EXTENDS WorkRuntime, Sequences, FiniteSetsExt

CONSTANTS
    Workers,    \* the workers of the process
    KindOf,     \* the kind of each task
    Accepts     \* the kinds each worker accepts

Kinds == {KindOf[id] : id \in TaskIds}

ASSUME KindOfAssumption == DOMAIN KindOf = TaskIds
ASSUME AcceptsAssumption == Accepts \in [Workers -> SUBSET Kinds]

VARIABLES
    order,      \* the rows of tasks by rowid, the order of their insertion
    workers     \* what each worker does: lost when the process dies

owner_vars == <<tasks, state, clock, rollbacks, promised, order, workers>>

Idle == [op |-> "idle"]

Job ==
    {Idle}
    \cup [op : {"selected"}, id : TaskIds]
    \cup [op : {"working"}, id : TaskIds, attempt : Nat, lease : Int]

Working == {w \in Workers : workers[w].op = "working"}
-----------------------------------------------------------------------------
Selectable(kinds) ==
    {i \in DOMAIN order : /\ tasks[order[i]].status = "pending"
                          /\ KindOf[order[i]] \in kinds}

\* ORDER BY rowid ASC LIMIT 1.  The upsert of save() keeps the rowid, so that
\* a task that is retried keeps its place.
FindPendingFor(kinds) ==
    IF Selectable(kinds) = {} THEN Absent ELSE order[Min(Selectable(kinds))]

Assign(w, job) == workers' = [workers EXCEPT ![w] = job]
-----------------------------------------------------------------------------
OwnerInit ==
    /\ Init
    /\ order = <<>>
    /\ workers = [w \in Workers |-> Idle]

OwnerSubmit(d) ==
    /\ Submit(d)
    /\ order' = Append(order, d.id)
    /\ UNCHANGED workers

\* The owner has called recover() before it asks for work.
Select(w) ==
    /\ state = "running"
    /\ workers[w] = Idle
    /\ FindPendingFor(Accepts[w]) # Absent
    /\ Assign(w, [op |-> "selected", id |-> FindPendingFor(Accepts[w])])
    /\ UNCHANGED <<tasks, state, clock, rollbacks, promised, order>>

\* start() returns true, and the worker has the task for the length of its lease.
StartSelected(w) ==
    LET id == workers[w].id IN
    /\ workers[w].op = "selected"
    /\ Start(id)
    /\ Assign(w, [op |-> "working", id |-> id,
                  attempt |-> tasks'[id].attempts_started, lease |-> tasks'[id].lease])
    /\ UNCHANGED order

\* start() returns false: the task or the runtime has changed since.
StartRefused(w) ==
    LET id == workers[w].id IN
    /\ workers[w].op = "selected"
    /\ \/ state # "running"
       \/ ~Holds(id, {"pending"})
       \/ tasks[id].attempts_started >= tasks[id].max_attempts
    /\ Assign(w, Idle)
    /\ UNCHANGED <<tasks, state, clock, rollbacks, promised, order>>

\* The answer names the task, not the attempt: it counts for whatever attempt
\* is active, and is refused when none is.
Answer(w) ==
    LET id == workers[w].id IN
    /\ w \in Working
    /\ \/ Succeed(id)
       \/ Fail(id)
       \/ RequireManualReview(id)
       \/ MarkCancelled(id)
       \/ /\ ~Active(tasks[id].status)
          /\ UNCHANGED <<tasks, state, clock, rollbacks, promised>>
    /\ Assign(w, Idle)
    /\ UNCHANGED order

\* The worker is lost, or drops its task without an answer.
GiveUp(w) ==
    /\ workers[w] # Idle
    /\ Assign(w, Idle)
    /\ UNCHANGED <<tasks, state, clock, rollbacks, promised, order>>

\* A worker does not work on for ever after its lease has run out.
GiveUpExpired(w) ==
    /\ w \in Working
    /\ workers[w].lease <= Ms(clock)
    /\ GiveUp(w)

\* What the owner calls on its own account, and what its clients call.
OwnerCall ==
    /\ \/ Recover
       \/ RecoverExpired
       \/ \E id \in TaskIds : RequestCancel(id)
       \/ RequestShutdown
       \/ TryMarkSafe
    /\ UNCHANGED <<order, workers>>

RecoverAtStart ==
    /\ state = "recovering"
    /\ Recover
    /\ UNCHANGED <<order, workers>>

OwnerRecoversWhenDue == RecoverAtNextRecovery /\ UNCHANGED <<order, workers>>

OwnerCrash ==
    /\ Crash
    /\ workers' = [w \in Workers |-> Idle]
    /\ UNCHANGED order

\* Time goes on while a lease runs.  When none does, nothing can tell how
\* much time passes: every lease there is has run out, and the next is
\* counted from its start.  So the clock needs no more than the sum of the
\* leases of all attempts, and Horizon keeps no task from being started.
TickWhileLeased ==
    /\ \/ \E id \in ActiveIds : tasks[id].lease > Ms(clock)
       \/ \E w \in Working : workers[w].lease > Ms(clock)
    /\ Tick
    /\ UNCHANGED <<order, workers>>

OwnerRollback == Rollback /\ UNCHANGED <<order, workers>>

OwnerNext ==
    \/ \E d \in Definitions : OwnerSubmit(d)
    \/ \E w \in Workers :
        \/ Select(w)
        \/ StartSelected(w)
        \/ StartRefused(w)
        \/ Answer(w)
        \/ GiveUp(w)
    \/ OwnerCall
    \/ OwnerCrash
    \/ TickWhileLeased
    \/ OwnerRollback

OwnerSpec == OwnerInit /\ [][OwnerNext]_owner_vars

\* The process goes on after each restart, however often it dies, and is not
\* killed each time before a worker can select, or start what it selected.
OwnerFairSpec ==
    /\ OwnerSpec
    /\ WF_owner_vars(TickWhileLeased)
    /\ WF_owner_vars(RecoverAtStart)
    /\ WF_owner_vars(OwnerRecoversWhenDue)
    /\ \A w \in Workers :
        /\ SF_owner_vars(Select(w))
        /\ SF_owner_vars(StartSelected(w))
        /\ WF_owner_vars(StartRefused(w))
        /\ WF_owner_vars(GiveUpExpired(w))
-----------------------------------------------------------------------------
\* The order lists each stored task once, and workers have jobs.
OwnerTypes ==
    /\ order \in Seq(TaskIds)
    /\ {order[i] : i \in DOMAIN order} = Stored
    /\ Len(order) = Cardinality(Stored)
    /\ workers \in [Workers -> Job]

\* What a bound on the clock must hold: load measures the time that is left to
\* work by the attempts that are left of each task, of which it has at most
\* attempts, each of at most runtime.
RoomForAll(attempts, runtime, load) ==
    /\ \A d \in Definitions :
        d.max_attempts <= attempts[d.id] /\ d.max_runtime <= runtime[d.id]
    /\ runtime \in [TaskIds -> Nat]
    /\ attempts \in DOMAIN load
    /\ \A left \in DOMAIN load :
        /\ left \in [TaskIds -> Nat] /\ load[left] \in Nat
        /\ \A id \in TaskIds : \A n \in 0 .. left[id] :
            LET less == [left EXCEPT ![id] = @ - n] IN
            less \in DOMAIN load /\ load[less] + n * runtime[id] <= load[left]
    /\ load[attempts] * TicksPerMs <= Horizon

\* Types; and Horizon leaves room on the clock for every attempt that is left
\* (no task is kept waiting by the bound).
OwnerTypeOK ==
    /\ OwnerTypes
    /\ \A id \in Stored :
        tasks[id].status = "pending" =>
            clock + tasks[id].max_runtime * TicksPerMs <= Horizon

\* Selection claims nothing, and yet no attempt is handed out twice, whoever
\* selected the same task, and however its row changed in between.
AttemptHeldOnce ==
    \A v, w \in Working :
        (v # w /\ workers[v].id = workers[w].id) =>
            workers[v].attempt # workers[w].attempt

\* While the lease of a worker runs by a clock that is not set back, its task
\* is given to nobody else: it can only end.
LeasesDisjoint ==
    rollbacks = 0 =>
        \A w \in Working :
            Ms(clock) < workers[w].lease =>
                LET row == tasks[workers[w].id] IN
                /\ row.attempts_started = workers[w].attempt
                /\ row.status # "pending"

\* An answer names the task and not the attempt, so that one may end what
\* another worker has begun since.  Who answers while its own lease runs, by a
\* clock that is not set back, never does that to a worker whose lease runs:
\* such a worker loses its task to late answers only.
OnlyLateAnswersIntrude ==
    [][rollbacks = 0 =>
          \A v, w \in Working :
             (/\ v # w /\ workers[v].id = workers[w].id
              /\ Ms(clock) < workers[v].lease
              /\ Answer(w) /\ tasks' # tasks)
                 => workers[w].lease <= Ms(clock)]_owner_vars

\* Every pending task of an accepted kind is started, cancelled or stopped by
\* a drain: workers that always die on the oldest tasks, which keep their
\* place in the order, do not keep the younger ones waiting for ever.
NoStarvation ==
    \A id \in TaskIds :
        (Holds(id, {"pending"}) /\ \E w \in Workers : KindOf[id] \in Accepts[w])
            ~> (~Holds(id, {"pending"}) \/ state \in {"draining", "safe"})
=============================================================================
