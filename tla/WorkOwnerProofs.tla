---------------------------- MODULE WorkOwnerProofs ----------------------------
(* Theorems about WorkOwner for any number of workers and for every set of    *)
(* tasks, kinds and definitions.  The owner's steps are steps of the runtime, *)
(* so what WorkRuntimeProofs has proved of rows is used here.                 *)
EXTENDS WorkOwner, WorkRuntimeProofs, FiniteSetTheorems, SequenceTheorems

\* What a worker with a running lease can rely on: its attempt was started,
\* later ones have higher numbers, the row carries its lease as long as the
\* attempt is active, and while that lease runs the attempt is the last one.
Held(w) ==
    LET job == workers[w]
        row == tasks[job.id]
    IN
    /\ row # Absent
    /\ job.attempt <= row.attempts_started
    /\ job.attempt = row.attempts_started /\ Active(row.status) =>
           row.lease = job.lease
    /\ rollbacks = 0 /\ Ms(clock) < job.lease =>
           job.attempt = row.attempts_started /\ row.status # "pending"

\* The inductive invariant.  LeasesDisjoint alone does not say why a recovery
\* cannot take the task away: the row's lease is the worker's.
OwnerInv ==
    /\ IInv
    /\ OwnerTypes
    /\ \A w \in Working : Held(w)
    /\ AttemptHeldOnce
-----------------------------------------------------------------------------
(* Selection. *)

\* The least element of a set of natural numbers is found.
LEMMA MinIsLeast ==
    ASSUME NEW S \in SUBSET Nat, S # {}
    PROVE  Min(S) \in S /\ \A y \in S : Min(S) <= y
BY LeastExists DEF Min

\* find_pending_for() returns a task exactly when one is pending that the
\* worker accepts, and then the one of them that was submitted first.
LEMMA SelectsOldest ==
    ASSUME OwnerTypes, NEW kinds
    PROVE  /\ Selectable(kinds) = {} => FindPendingFor(kinds) = Absent
           /\ Selectable(kinds) # {} =>
                  \E i \in Selectable(kinds) :
                      /\ FindPendingFor(kinds) = order[i]
                      /\ order[i] \in Stored
                      /\ \A j \in Selectable(kinds) : i <= j
<1>1. Selectable(kinds) = {} => FindPendingFor(kinds) = Absent
  BY DEF FindPendingFor
<1>2. CASE Selectable(kinds) # {}
  <2> DEFINE i == Min(Selectable(kinds))
  <2>1. DOMAIN order \subseteq Nat
    BY DEF OwnerTypes
  <2>2. Selectable(kinds) \subseteq DOMAIN order
    BY DEF Selectable
  <2>3. i \in Selectable(kinds) /\ \A j \in Selectable(kinds) : i <= j
    BY <1>2, <2>1, <2>2, MinIsLeast
  <2>4. FindPendingFor(kinds) = order[i]
    BY <1>2 DEF FindPendingFor
  <2>5. order[i] \in Stored
    BY <2>2, <2>3 DEF OwnerTypes
  <2> QED
    BY <2>3, <2>4, <2>5
<1> QED
  BY <1>1, <1>2
-----------------------------------------------------------------------------
(* Steps of the owner. *)

\* The jobs of a worker.
LEMMA Jobs ==
    /\ Idle \in Job /\ Idle.op = "idle"
    /\ \A id \in TaskIds : [op |-> "selected", id |-> id] \in Job
    /\ \A id \in TaskIds, attempt \in Nat, lease \in Int :
           [op |-> "working", id |-> id, attempt |-> attempt, lease |-> lease] \in Job
    /\ \A job \in Job :
        /\ job.op \in {"selected", "working"} => job.id \in TaskIds
        /\ job.op = "working" => job.attempt \in Nat /\ job.lease \in Int
        /\ job.op = "idle" => job = Idle
<1>1. Idle \in Job /\ Idle.op = "idle"
  BY DEF Job, Idle
<1>2. \A id \in TaskIds : [op |-> "selected", id |-> id] \in Job
  BY DEF Job
<1>3. ASSUME NEW id \in TaskIds, NEW attempt \in Nat, NEW lease \in Int
      PROVE  [op |-> "working", id |-> id, attempt |-> attempt, lease |-> lease] \in Job
  BY DEF Job
<1>4. ASSUME NEW job \in Job
      PROVE  /\ job.op \in {"selected", "working"} => job.id \in TaskIds
             /\ job.op = "working" => job.attempt \in Nat /\ job.lease \in Int
             /\ job.op = "idle" => job = Idle
  <2>1. CASE job = Idle
    BY <1>1, <2>1
  <2>2. CASE job \in [op : {"selected"}, id : TaskIds]
    BY <2>2
  <2>3. CASE job \in [op : {"working"}, id : TaskIds, attempt : Nat, lease : Int]
    BY <2>3
  <2> QED
    BY <2>1, <2>2, <2>3 DEF Job
<1> QED
  BY <1>1, <1>2, <1>3, <1>4

\* The owner uses the runtime, and does nothing to it that is not an operation
\* of the runtime.
LEMMA OwnerStepIsStep ==
    ASSUME OwnerTypes, [OwnerNext]_owner_vars
    PROVE  [Next]_vars
<1>1. ASSUME NEW w \in Workers, workers[w].op \in {"selected", "working"}
      PROVE  workers[w].id \in TaskIds
  BY <1>1, Jobs DEF OwnerTypes
<1>2. CASE \E d \in Definitions : OwnerSubmit(d)
  BY <1>2 DEF OwnerSubmit, Next
<1>3. ASSUME NEW w \in Workers, StartSelected(w) PROVE Next
  BY <1>1, <1>3 DEF StartSelected, Next
<1>4. ASSUME NEW w \in Workers, Answer(w) PROVE [Next]_vars
  <2>1. workers[w].id \in TaskIds
    BY <1>1, <1>4 DEF Answer, Working
  <2> QED
    BY <1>4, <2>1 DEF Answer, Next, vars
<1>5. ASSUME NEW w \in Workers, Select(w) \/ StartRefused(w) \/ GiveUp(w)
      PROVE  UNCHANGED vars
  BY <1>5 DEF Select, StartRefused, GiveUp, vars
<1>6. CASE OwnerCall \/ OwnerCrash \/ TickWhileLeased \/ OwnerRollback
  BY <1>6 DEF OwnerCall, OwnerCrash, TickWhileLeased, OwnerRollback, Next
<1>7. CASE UNCHANGED owner_vars
  BY <1>7 DEF owner_vars, vars
<1> QED
  BY <1>2, <1>3, <1>4, <1>5, <1>6, <1>7 DEF OwnerNext

\* A worker keeps its job, stops working, or has just started a task.
LEMMA WorkersStep ==
    ASSUME OwnerTypes, [OwnerNext]_owner_vars
    PROVE  /\ workers' = [w \in Workers |-> workers'[w]]
           /\ \A w \in Workers :
                  \/ workers'[w] = workers[w]
                  \/ workers'[w] \in Job /\ workers'[w].op # "working"
                  \/ StartSelected(w)
<1> DEFINE Goal ==
        /\ workers' = [w \in Workers |-> workers'[w]]
        /\ \A w \in Workers :
               \/ workers'[w] = workers[w]
               \/ workers'[w] \in Job /\ workers'[w].op # "working"
               \/ StartSelected(w)
<1> SUFFICES Goal
  OBVIOUS
<1>1. ASSUME NEW v \in Workers, NEW job, Assign(v, job)
      PROVE  /\ workers' = [w \in Workers |-> workers'[w]]
             /\ \A w \in Workers : w # v => workers'[w] = workers[w]
             /\ workers'[v] = job
  BY <1>1 DEF Assign, OwnerTypes
<1>2. ASSUME NEW v \in Workers, NEW job \in Job, Assign(v, job), job.op # "working"
      PROVE  Goal
  BY <1>1, <1>2
<1>3. ASSUME NEW v \in Workers,
             Select(v) \/ StartRefused(v) \/ Answer(v) \/ GiveUp(v)
      PROVE  Goal
  <2>1. CASE Select(v)
    <3> DEFINE id == FindPendingFor(Accepts[v])
    <3>1. id \in TaskIds
      BY <2>1, SelectsOldest DEF Select, Stored
    <3>2. Assign(v, [op |-> "selected", id |-> id])
      BY <2>1 DEF Select
    <3>3. [op |-> "selected", id |-> id] \in Job
      BY <3>1, Jobs
    <3>4. [op |-> "selected", id |-> id].op # "working"
      OBVIOUS
    <3> HIDE DEF id, Goal
    <3> QED
      BY <3>2, <3>3, <3>4, <1>2
  <2>2. CASE StartRefused(v) \/ Answer(v) \/ GiveUp(v)
    <3>1. Assign(v, Idle)
      BY <2>2 DEF StartRefused, Answer, GiveUp
    <3>2. Idle \in Job /\ Idle.op # "working"
      BY Jobs
    <3> HIDE DEF Goal
    <3> QED
      BY <3>1, <3>2, <1>2
  <2> QED
    BY <1>3, <2>1, <2>2
<1>4. ASSUME NEW v \in Workers, StartSelected(v)
      PROVE  Goal
  <2>1. PICK job : Assign(v, job)
    BY <1>4 DEF StartSelected
  <2> QED
    BY <1>1, <1>4, <2>1
<1>5. CASE OwnerCrash
  BY <1>5, Jobs DEF OwnerCrash
<1>6. CASE UNCHANGED workers
  BY <1>6 DEF OwnerTypes
<1> HIDE DEF Goal
<1> QED
  BY <1>3, <1>4, <1>5, <1>6
     DEF OwnerNext, OwnerSubmit, OwnerCall, TickWhileLeased, OwnerRollback, owner_vars
-----------------------------------------------------------------------------
(* The order of the rows. *)

\* No step deletes a row, and only a submission inserts one.
LEMMA StoredStep ==
    ASSUME IInv, OwnerTypes, [OwnerNext]_owner_vars
    PROVE  \/ Stored' = Stored /\ order' = order
           \/ \E id \in TaskIds \ Stored :
                  Stored' = Stored \cup {id} /\ order' = Append(order, id)
<1>1. RowsGood /\ RowsGood' /\ ClockOK /\ \A id \in TaskIds : RowStep(id)
  BY OwnerStepIsStep, NextKeepsRowsGood, NextIsRowStep DEF IInv, RowsGood
<1>2. \A id \in Stored : id \in TaskIds /\ tasks'[id] # Absent
  BY <1>1, RowStays DEF Stored, RowsGood
<1>3. CASE \E d \in Definitions : OwnerSubmit(d)
  <2>1. PICK d \in Definitions : OwnerSubmit(d)
    BY <1>3
  <2>2. d.id \in TaskIds \ Stored
    BY <2>1, DefinitionFields DEF OwnerSubmit, Submit, Duplicate
  <2>3. tasks' = [tasks EXCEPT ![d.id] = NewRow(d)]
    BY <2>1 DEF OwnerSubmit, Submit, Save
  <2>4. tasks'[d.id] # Absent
    <3>1. GoodRow(NewRow(d), promised[d.id])
      BY <2>1, NewRowGood DEF OwnerSubmit, Submit
    <3>2. tasks'[d.id] = NewRow(d)
      BY <1>1, <2>2, <2>3 DEF RowsGood, Shape
    <3> QED
      BY <3>1, <3>2, AbsentAssumption DEF GoodRow
  <2>5. \A id \in TaskIds \ {d.id} : tasks'[id] = tasks[id]
    BY <1>1, <2>3 DEF RowsGood, Shape
  <2>6. Stored' = Stored \cup {d.id}
    BY <2>2, <2>4, <2>5 DEF Stored
  <2>7. order' = Append(order, d.id)
    BY <2>1 DEF OwnerSubmit
  <2> QED
    BY <2>2, <2>6, <2>7
<1>4. CASE ~ \E d \in Definitions : OwnerSubmit(d)
  <2>1. order' = order
    BY <1>4 DEF OwnerNext, Select, StartSelected, StartRefused, Answer, GiveUp,
                OwnerCall, OwnerCrash, TickWhileLeased, OwnerRollback, owner_vars
  <2>2. ASSUME NEW id \in TaskIds, tasks[id] = Absent
        PROVE  tasks'[id] = Absent
    <3>1. ASSUME NEW i, Start(i) \/ Succeed(i) \/ Fail(i) \/ RequireManualReview(i)
                        \/ RequestCancel(i) \/ MarkCancelled(i)
          PROVE  tasks'[id] = Absent
      BY <1>1, <2>2, <3>1
         DEF RowsGood, Shape, Start, Succeed, Fail, RequireManualReview, Finish,
             RequestCancel, MarkCancelled, Holds, Save
    <3>2. ASSUME NEW ids \in SUBSET LeasedWithExpiredLease, RecoverRows(ids)
          PROVE  tasks'[id] = Absent
      BY <2>2, <3>2 DEF RecoverRows, LeasedWithExpiredLease, ActiveIds, Stored
    <3>3. CASE UNCHANGED tasks
      BY <2>2, <3>3
    <3>4. CASE \E w \in Workers : StartSelected(w) \/ Answer(w)
      BY <3>1, <3>3, <3>4 DEF StartSelected, Answer
    <3>5. CASE OwnerCall
      BY <3>1, <3>2, <3>3, <3>5
         DEF OwnerCall, Recover, RecoverExpired, RequestShutdown, TryMarkSafe
    <3> QED
      BY <1>4, <3>3, <3>4, <3>5
         DEF OwnerNext, Select, StartRefused, GiveUp, OwnerCrash, Crash,
             TickWhileLeased, Tick, OwnerRollback, Rollback, owner_vars
  <2>3. Stored' = Stored
    BY <1>2, <2>2 DEF Stored
  <2> QED
    BY <2>1, <2>3
<1> QED
  BY <1>3, <1>4

\* The order stays the order of all stored tasks, each of them once.
LEMMA StepKeepsOrder ==
    ASSUME IInv, OwnerTypes, [OwnerNext]_owner_vars
    PROVE  /\ order' \in Seq(TaskIds)
           /\ {order'[i] : i \in DOMAIN order'} = Stored'
           /\ Len(order') = Cardinality(Stored')
<1>1. CASE Stored' = Stored /\ order' = order
  BY <1>1 DEF OwnerTypes
<1>2. ASSUME NEW id \in TaskIds \ Stored,
             Stored' = Stored \cup {id}, order' = Append(order, id)
      PROVE  /\ order' \in Seq(TaskIds)
             /\ {order'[i] : i \in DOMAIN order'} = Stored'
             /\ Len(order') = Cardinality(Stored')
  <2>1. /\ order \in Seq(TaskIds) /\ {order[i] : i \in DOMAIN order} = Stored
        /\ Len(order) = Cardinality(Stored) /\ Len(order) \in Nat
        /\ DOMAIN order = 1 .. Len(order)
    BY DEF OwnerTypes
  <2>2. /\ order' \in Seq(TaskIds) /\ Len(order') = Len(order) + 1
        /\ DOMAIN order' = 1 .. Len(order) + 1
        /\ \A i \in 1 .. Len(order) : order'[i] = order[i]
        /\ order'[Len(order) + 1] = id
    BY <1>2, <2>1
  <2>3. DOMAIN order' = DOMAIN order \cup {Len(order) + 1}
    BY <2>1, <2>2
  <2>4. {order'[i] : i \in DOMAIN order'} = {order[i] : i \in DOMAIN order} \cup {id}
    BY <2>1, <2>2, <2>3
  <2>5. IsFiniteSet(Stored)
    <3>1. order \in Seq(Stored)
      BY <2>1
    <3>2. \A s \in Stored : \E n \in 1 .. Len(order) : order[n] = s
      BY <2>1
    <3> QED
      BY <3>1, <3>2 DEF IsFiniteSet
  <2>6. Cardinality(Stored \cup {id}) = Cardinality(Stored) + 1
    BY <2>5, FS_AddElement
  <2> QED
    BY <1>2, <2>1, <2>2, <2>4, <2>6
<1> QED
  BY <1>1, <1>2, StoredStep
-----------------------------------------------------------------------------
(* What a worker holds. *)

\* Truncation to milliseconds keeps the order of two times.
LEMMA MsMonotone ==
    ASSUME NEW a \in Int, NEW b \in Int, a <= b
    PROVE  Ms(a) <= Ms(b)
<1> DEFINE T == TicksPerMs
           x == a \div T
           y == b \div T
<1>1. T \in Nat \ {0}
  BY TicksAssumption
<1>2. x \in Int /\ y \in Int /\ T * x <= a /\ b < T * y + T
  BY <1>1, DivBracket
<1>3. T * x \in Int /\ T * y \in Int /\ T * x < T * y + T
  <2>1. T * x \in Int /\ T * y \in Int
    BY <1>1, <1>2
  <2> DEFINE p == T * x
             q == T * y
  <2> HIDE DEF p, q, x, y, T
  <2>2. p \in Int /\ q \in Int /\ T \in Int /\ p <= a /\ b < q + T
    BY <1>1, <1>2, <2>1 DEF p, q
  <2>3. p < q + T
    BY <2>2
  <2> QED
    BY <2>1, <2>3 DEF p, q
<1>4. ASSUME y < x PROVE FALSE
  <2> HIDE DEF x, y, T
  <2>1. T * (y + 1) = T * y + T
    BY <1>1, <1>2
  <2>2. \A m, n \in Int, k \in Nat : m <= n => k * m <= k * n
    BY SMT
  <2>3. T * (y + 1) <= T * x
    BY <1>1, <1>2, <1>4, <2>2
  <2> DEFINE p == T * x
             q == T * y
  <2>4. p \in Int /\ q \in Int /\ T \in Int /\ q + T <= p /\ p < q + T
    BY <1>1, <1>3, <2>1, <2>3
  <2> HIDE DEF p, q
  <2> QED
    BY <2>4
<1> HIDE DEF x, y
<1>5. x <= y
  BY <1>2, <1>4
<1> QED
  BY <1>5 DEF Ms, x, y

\* While the clock has not been set back it goes forward.
LEMMA TimeStep ==
    ASSUME ClockOK, [Next]_vars, rollbacks' = 0
    PROVE  rollbacks = 0 /\ Ms(clock) <= Ms(clock')
<1>1. rollbacks = 0 /\ clock \in Int /\ clock' \in Int /\ clock <= clock'
  <2>1. CASE UNCHANGED <<clock, rollbacks>>
    BY <2>1 DEF ClockOK
  <2>2. CASE Tick
    BY <2>2 DEF Tick, ClockOK
  <2>3. CASE Rollback
    BY <2>3 DEF Rollback, ClockOK
  <2> QED
    BY <2>1, <2>2, <2>3
       DEF Next, vars, Recover, RecoverExpired, Submit, Start, Succeed, Fail,
           RequireManualReview, Finish, RequestCancel, MarkCancelled,
           RequestShutdown, TryMarkSafe, Crash
<1> QED
  BY <1>1, MsMonotone

\* What a step does to a stored row, as far as the worker that holds it can
\* tell: a new attempt of a pending row, or nothing but an end of the attempt,
\* and a return to pending only after the lease.
LEMMA HeldRowStep ==
    ASSUME RowsGood, ClockOK, NEW id \in Stored, RowStep(id), promised'[id] \in Int
    PROVE  LET row == tasks[id]
               new == tasks'[id]
           IN  /\ new # Absent
               /\ \/ /\ row.status = "pending"
                     /\ new.attempts_started = row.attempts_started + 1
                  \/ /\ new.attempts_started = row.attempts_started
                     /\ Active(new.status) => Active(row.status) /\ new.lease = row.lease
                     /\ new.status = "pending" /\ row.status # "pending" =>
                            Active(row.status) /\ row.lease <= Ms(clock)
<1> DEFINE row == tasks[id]
           new == tasks'[id]
           Kept == /\ new.attempts_started = row.attempts_started
                   /\ Active(new.status) => Active(row.status) /\ new.lease = row.lease
                   /\ new.status = "pending" /\ row.status # "pending" =>
                          Active(row.status) /\ row.lease <= Ms(clock)
<1>1. id \in TaskIds /\ row # Absent /\ row \in Row
  BY DEF RowsGood, GoodRow, Stored
<1>2. new # Absent
  BY <1>1, RowStays
<1>3. CASE RowUnchanged(id)
  BY <1>2, <1>3 DEF RowUnchanged
<1>4. CASE RowSubmitted(id)
  BY <1>1, <1>4 DEF RowSubmitted
<1>5. CASE RowStarted(id)
  <2>1. row.status = "pending" /\ new = Started(row, promised'[id])
    BY <1>5 DEF RowStarted, Holds
  <2> HIDE DEF row, new
  <2>2. new.attempts_started = row.attempts_started + 1
    BY <1>1, <2>1 DEF Started, Row
  <2> QED
    BY <1>2, <2>1, <2>2 DEF row, new
<1>6. CASE RowRecovered(id)
  <2>1. Active(row.status) /\ row.lease <= Ms(clock) /\ new = Recovered(row)
    BY <1>6 DEF RowRecovered, LeasedWithExpiredLease, ActiveIds
  <2> HIDE DEF row, new
  <2>2. new.attempts_started = row.attempts_started /\ ~Active(new.status)
    BY <1>1, <2>1 DEF Recovered, Row, Active
  <2>3. Kept
    BY <2>1, <2>2
  <2> QED
    BY <1>2, <2>3 DEF row, new
<1>7. CASE RowFinished(id)
  <2>1. PICK status, result :
            /\ status \in {"succeeded", "failed", "cancelled", "manual_review"}
            /\ new = Ended(row, status, result)
    BY <1>7 DEF RowFinished
  <2> HIDE DEF row, new
  <2>2. new.attempts_started = row.attempts_started /\ new.status = status
    BY <1>1, <2>1 DEF Ended, Row
  <2>3. Kept
    BY <2>1, <2>2 DEF Active
  <2> QED
    BY <1>2, <2>3 DEF row, new
<1>8. CASE RowCancelled(id)
  <2>1. new = [row EXCEPT !.status = "cancelled", !.result = "cancelled"]
    BY <1>8 DEF RowCancelled
  <2> HIDE DEF row, new
  <2>2. new.attempts_started = row.attempts_started /\ new.status = "cancelled"
    BY <1>1, <2>1 DEF Row
  <2>3. Kept
    BY <2>2 DEF Active
  <2> QED
    BY <1>2, <2>3 DEF row, new
<1>9. CASE RowCancelRequested(id)
  <2>1. Active(row.status) /\ new = [row EXCEPT !.status = "cancel_requested"]
    BY <1>9 DEF RowCancelRequested, ActiveIds
  <2> HIDE DEF row, new
  <2>2. /\ new.attempts_started = row.attempts_started
        /\ new.status = "cancel_requested" /\ new.lease = row.lease
    BY <1>1, <2>1 DEF Row
  <2>3. Kept
    BY <2>1, <2>2 DEF Active
  <2> QED
    BY <1>2, <2>3 DEF row, new
<1> QED
  BY <1>2, <1>3, <1>4, <1>5, <1>6, <1>7, <1>8, <1>9 DEF RowStep

\* A worker that keeps its job keeps what it can rely on.
LEMMA HeldKept ==
    ASSUME OwnerInv, [Next]_vars, NEW w \in Working, workers'[w] = workers[w]
    PROVE  Held(w)'
<1> DEFINE job == workers[w]
           row == tasks[job.id]
           new == tasks'[job.id]
<1>1. job \in Job /\ job.op = "working" /\ Held(w)
  BY DEF OwnerInv, OwnerTypes, Working
<1>2. job.id \in TaskIds /\ job.attempt \in Nat /\ job.lease \in Int
  BY <1>1, Jobs
<1>3. /\ row # Absent
      /\ job.attempt <= row.attempts_started
      /\ job.attempt = row.attempts_started /\ Active(row.status) => row.lease = job.lease
      /\ rollbacks = 0 /\ Ms(clock) < job.lease =>
             job.attempt = row.attempts_started /\ row.status # "pending"
  BY <1>1 DEF Held
<1>4. RowsGood /\ ClockOK /\ RowsGood' /\ RowStep(job.id) /\ promised'[job.id] \in Int
  <2>1. RowsGood /\ ClockOK
    BY DEF OwnerInv, IInv
  <2>2. RowsGood' /\ \A id \in TaskIds : RowStep(id)
    BY <2>1, NextKeepsRowsGood, NextIsRowStep DEF RowsGood
  <2> QED
    BY <1>2, <2>1, <2>2 DEF RowsGood
<1>5. row.attempts_started \in Nat
  <2>1. row \in Row
    BY <1>2, <1>3, <1>4 DEF RowsGood, GoodRow
  <2> QED
    BY <2>1 DEF Row
<1>6. /\ new # Absent
      /\ \/ /\ row.status = "pending"
            /\ new.attempts_started = row.attempts_started + 1
         \/ /\ new.attempts_started = row.attempts_started
            /\ Active(new.status) => Active(row.status) /\ new.lease = row.lease
            /\ new.status = "pending" /\ row.status # "pending" =>
                   Active(row.status) /\ row.lease <= Ms(clock)
  <2>1. job.id \in Stored
    BY <1>2, <1>3 DEF Stored
  <2> QED
    BY <1>4, <2>1, HeldRowStep
<1>7. rollbacks' = 0 /\ Ms(clock') < job.lease => rollbacks = 0 /\ Ms(clock) < job.lease
  <2> SUFFICES ASSUME rollbacks' = 0, Ms(clock') < job.lease
               PROVE  rollbacks = 0 /\ Ms(clock) < job.lease
    OBVIOUS
  <2>1. rollbacks = 0 /\ Ms(clock) <= Ms(clock')
    BY <1>4, TimeStep
  <2>2. Ms(clock) \in Int /\ Ms(clock') \in Int
    <3>1. ClockOK'
      BY <1>4, NextState
    <3>2. clock \in Int /\ clock' \in Int
      BY <1>4, <3>1 DEF ClockOK
    <3> QED
      BY <3>2, MsIsInt
  <2> QED
    BY <1>2, <2>1, <2>2
<1>8. Ms(clock) \in Int
  BY <1>4, MsIsInt DEF ClockOK
<1> HIDE DEF job, row, new
<1>9. /\ new # Absent
      /\ job.attempt <= new.attempts_started
      /\ job.attempt = new.attempts_started /\ Active(new.status) => new.lease = job.lease
  BY <1>2, <1>3, <1>5, <1>6
<1>10. rollbacks' = 0 /\ Ms(clock') < job.lease =>
           job.attempt = new.attempts_started /\ new.status # "pending"
  <2> SUFFICES ASSUME rollbacks' = 0, Ms(clock') < job.lease
               PROVE  job.attempt = new.attempts_started /\ new.status # "pending"
    OBVIOUS
  <2>1. Ms(clock) < job.lease /\ job.attempt = row.attempts_started /\ row.status # "pending"
    BY <1>3, <1>7
  <2>2. Active(row.status) => ~(row.lease <= Ms(clock))
    BY <1>2, <1>3, <1>8, <2>1
  <2> QED
    BY <1>6, <2>1, <2>2
<1> QED
  BY <1>9, <1>10 DEF Held, job, new

\* A worker that has started a task holds an attempt nobody had before.
LEMMA HeldFromStart ==
    ASSUME OwnerInv, [Next]_vars, NEW w \in Workers, StartSelected(w)
    PROVE  /\ workers'[w] \in Job
           /\ workers'[w].id \in Stored
           /\ workers'[w].attempt = tasks[workers'[w].id].attempts_started + 1
           /\ Held(w)'
<1> DEFINE id == workers[w].id
           row == tasks[id]
           new == tasks'[id]
           job == [op |-> "working", id |-> id,
                   attempt |-> new.attempts_started, lease |-> new.lease]
<1>1. id \in TaskIds /\ workers'[w] = job
  <2>1. workers[w] \in Job /\ workers[w].op = "selected"
    BY DEF StartSelected, OwnerInv, OwnerTypes
  <2>2. workers' = [workers EXCEPT ![w] = job]
    BY DEF StartSelected, Assign
  <2> QED
    BY <2>1, <2>2, Jobs DEF OwnerInv, OwnerTypes
<1>2. row # Absent /\ row.status = "pending"
  BY DEF StartSelected, Start, Holds
<1>3. RowsGood /\ RowsGood' /\ ClockOK
  BY NextKeepsRowsGood DEF OwnerInv, IInv
<1>4. row \in Row /\ row.attempts_started \in Nat
  <2>1. row \in Row
    BY <1>1, <1>2, <1>3 DEF RowsGood, GoodRow
  <2> QED
    BY <2>1 DEF Row
<1>5. new = Started(row, promised'[id])
  BY <1>1, <1>3 DEF StartSelected, Start, Save, RowsGood, Shape, Started
<1>6. new.attempts_started = row.attempts_started + 1 /\ new.status = "running"
  <2> HIDE DEF row, new
  <2> QED
    BY <1>4, <1>5 DEF Started, Row
<1>7. new # Absent /\ GoodRow(new, promised'[id]) /\ promised'[id] \in Int
  <2>1. id \in Stored
    BY <1>1, <1>2 DEF Stored
  <2>2. RowStep(id) /\ promised'[id] \in Int
    BY <1>1, <1>3, NextIsRowStep DEF RowsGood
  <2>3. new # Absent
    BY <1>3, <2>1, <2>2, RowStays
  <2> QED
    BY <1>1, <1>3, <2>2, <2>3 DEF RowsGood
<1>8. new.attempts_started \in Nat /\ new.lease \in Int
  <2>1. new.lease = Ms(promised'[id])
    BY <1>6, <1>7 DEF GoodRow, Active
  <2>2. new.lease \in Int
    BY <1>7, <2>1, MsIsInt
  <2> QED
    BY <1>4, <1>6, <2>2
<1> HIDE DEF row, new
<1>9. job \in Job
  BY <1>1, <1>8, Jobs
<1>10. job.id = id /\ job.attempt = new.attempts_started /\ job.lease = new.lease
  OBVIOUS
<1>11. Held(w)'
  <2>1. new.status # "pending" /\ new.attempts_started <= new.attempts_started
    BY <1>6, <1>8
  <2>2. workers'[w].id = id /\ workers'[w].attempt = new.attempts_started
        /\ workers'[w].lease = new.lease
    BY <1>1, <1>10
  <2> HIDE DEF job, id
  <2> QED
    BY <1>7, <2>1, <2>2 DEF Held, new
<1>12. id \in Stored
  BY <1>1, <1>2 DEF Stored, row
<1> QED
  BY <1>1, <1>6, <1>9, <1>10, <1>11, <1>12 DEF row

\* OwnerInv is an inductive invariant of the owner.
LEMMA OwnerStepKeepsInv ==
    ASSUME OwnerInv, [OwnerNext]_owner_vars
    PROVE  OwnerInv'
<1>1. IInv /\ OwnerTypes /\ [Next]_vars
  BY OwnerStepIsStep DEF OwnerInv
<1>2. IInv'
  BY <1>1, NextKeepsRowsGood, NextKeepsKeysUnique, NextKeepsSafeQuiet, NextState DEF IInv
<1>3. ASSUME NEW w \in Workers
      PROVE  \/ workers'[w] = workers[w]
             \/ workers'[w] \in Job /\ workers'[w].op # "working"
             \/ StartSelected(w)
  BY <1>1, <1>3, WorkersStep
<1>4. ASSUME NEW w \in Working'
      PROVE  /\ w \in Workers
             /\ Held(w)'
             /\ \/ workers'[w] = workers[w] /\ w \in Working
                \/ StartSelected(w)
  <2>1. w \in Workers /\ workers'[w].op = "working"
    BY <1>4 DEF Working
  <2>2. CASE workers'[w] = workers[w]
    <3>1. w \in Working
      BY <2>1, <2>2 DEF Working
    <3> QED
      BY <1>1, <2>1, <2>2, <3>1, HeldKept
  <2>3. CASE StartSelected(w)
    BY <1>1, <2>1, <2>3, HeldFromStart
  <2> QED
    BY <1>3, <2>1, <2>2, <2>3
<1>5. workers' \in [Workers -> Job]
  <2>1. ASSUME NEW w \in Workers PROVE workers'[w] \in Job
    <3>1. StartSelected(w) => workers'[w] \in Job
      BY <1>1, HeldFromStart
    <3>2. workers[w] \in Job
      BY <1>1 DEF OwnerTypes
    <3> QED
      BY <1>3, <3>1, <3>2
  <2>2. workers' = [w \in Workers |-> workers'[w]]
    BY <1>1, WorkersStep
  <2> QED
    BY <2>1, <2>2
<1>6. OwnerTypes'
  BY <1>1, <1>5, StepKeepsOrder DEF OwnerTypes
<1>7. AttemptHeldOnce'
  <2>1. ASSUME NEW v \in Working', NEW w \in Working', v # w,
               workers'[v].id = workers'[w].id, StartSelected(v)
        PROVE  workers'[v].attempt # workers'[w].attempt
    <3> DEFINE job == workers[w]
               row == tasks[job.id]
    <3>1. workers'[w] = workers[w] /\ w \in Working
      <4>1. ~StartSelected(w)
        BY <1>4, <2>1 DEF StartSelected, Assign, OwnerTypes, OwnerInv
      <4> QED
        BY <1>4, <4>1
    <3>2. workers'[v].id = job.id /\ workers'[v].attempt = row.attempts_started + 1
      BY <1>1, <1>4, <2>1, <3>1, HeldFromStart
    <3>3. Held(w) /\ job \in Job /\ job.op = "working"
      BY <3>1 DEF OwnerInv, OwnerTypes, Working
    <3>4. job.attempt \in Nat /\ job.attempt <= row.attempts_started
      BY <3>3, Jobs DEF Held
    <3>5. row.attempts_started \in Nat
      <4>1. row \in Row
        BY <3>3, Jobs DEF Held, OwnerInv, IInv, RowsGood, GoodRow
      <4> QED
        BY <4>1 DEF Row
    <3> HIDE DEF row
    <3> QED
      BY <3>1, <3>2, <3>4, <3>5
  <2>2. ASSUME NEW v \in Working', NEW w \in Working', v # w,
               workers'[v].id = workers'[w].id,
               ~StartSelected(v), ~StartSelected(w)
        PROVE  workers'[v].attempt # workers'[w].attempt
    BY <1>4, <2>2 DEF OwnerInv, AttemptHeldOnce
  <2> QED
    BY <2>1, <2>2 DEF AttemptHeldOnce
<1> QED
  BY <1>2, <1>4, <1>6, <1>7 DEF OwnerInv

\* The owner begins with no rows and idle workers.
LEMMA OwnerInvIsInvariant == OwnerSpec => []OwnerInv
<1>1. OwnerInit => OwnerInv
  <2> SUFFICES ASSUME OwnerInit PROVE OwnerInv
    OBVIOUS
  <2>1. IInv
    BY BoundsAssumption
       DEF OwnerInit, Init, IInv, RowsGood, Shape, ClockOK, States, KeysUnique,
           SafeMeansQuiet, Stored
  <2>2. Stored = {} /\ order = <<>>
    BY DEF OwnerInit, Init, Stored
  <2>3. order \in Seq(TaskIds) /\ Len(order) = 0 /\ {order[i] : i \in DOMAIN order} = {}
    BY <2>2
  <2>4. Cardinality(Stored) = 0
    BY <2>2, FS_EmptySet
  <2>5. workers \in [Workers -> Job] /\ Working = {}
    BY Jobs DEF OwnerInit, Working
  <2> QED
    BY <2>1, <2>2, <2>3, <2>4, <2>5 DEF OwnerInv, OwnerTypes, AttemptHeldOnce
<1>2. OwnerInv /\ [OwnerNext]_owner_vars => OwnerInv'
  BY OwnerStepKeepsInv
<1> QED
  BY <1>1, <1>2, PTL DEF OwnerSpec
-----------------------------------------------------------------------------
\* Whatever the owner and its workers do, the runtime runs as WorkRuntime
\* says: all that is proved of its rows holds for them.
THEOREM OwnerImplementsRuntime == OwnerSpec => Spec
<1>1. OwnerInit => Init
  BY DEF OwnerInit
<1>2. OwnerInv /\ [OwnerNext]_owner_vars => [Next]_vars
  BY OwnerStepIsStep DEF OwnerInv
<1> QED
  BY <1>1, <1>2, OwnerInvIsInvariant, PTL DEF OwnerSpec, Spec

\* The order of selection lists each stored task once, for any bounds.
THEOREM OrderListsStored == OwnerSpec => []OwnerTypes
BY OwnerInvIsInvariant, PTL DEF OwnerInv

\* Among any number of workers, no two ever hold the same attempt of a task.
THEOREM AttemptAlwaysHeldOnce == OwnerSpec => []AttemptHeldOnce
BY OwnerInvIsInvariant, PTL DEF OwnerInv

\* While the lease of a worker runs, its task is neither pending nor started
\* again, whatever the other workers, the clients and recovery do.
THEOREM LeasesAlwaysDisjoint == OwnerSpec => []LeasesDisjoint
<1>1. OwnerInv => LeasesDisjoint
  BY DEF OwnerInv, Held, LeasesDisjoint
<1> QED
  BY <1>1, OwnerInvIsInvariant, PTL

\* A worker whose lease runs loses its task to no answer but a late one: two
\* leases of a task never run at once, since both would be of its last attempt.
THEOREM TimelyAnswersAreOwn == OwnerSpec => OnlyLateAnswersIntrude
<1>1. ASSUME OwnerInv, rollbacks = 0, NEW v \in Working, NEW w \in Working,
             v # w, workers[v].id = workers[w].id, Ms(clock) < workers[v].lease
      PROVE  workers[w].lease <= Ms(clock)
  <2>1. ~(Ms(clock) < workers[w].lease)
    BY <1>1 DEF OwnerInv, Held, AttemptHeldOnce
  <2>2. workers[w].lease \in Int
    BY <1>1, Jobs DEF OwnerInv, OwnerTypes, Working
  <2>3. Ms(clock) \in Int
    BY <1>1, MsIsInt DEF OwnerInv, IInv, ClockOK
  <2> QED
    BY <2>1, <2>2, <2>3
<1>2. OwnerInv =>
        [rollbacks = 0 =>
            \A v, w \in Working :
               (/\ v # w /\ workers[v].id = workers[w].id
                /\ Ms(clock) < workers[v].lease
                /\ Answer(w) /\ tasks' # tasks)
                   => workers[w].lease <= Ms(clock)]_owner_vars
  BY <1>1
<1> QED
  BY <1>2, OwnerInvIsInvariant, PTL DEF OnlyLateAnswersIntrude

\* The rows the owner's process keeps implement the ledger of tasks.
THEOREM OwnerImplementsLedger == OwnerSpec => ImplementsLedger
BY OwnerImplementsRuntime, RuntimeImplementsLedger, PTL
-----------------------------------------------------------------------------
(* The clock has room for every attempt that is left. *)

\* The attempts that are left of each task.
Left(attempts) ==
    [id \in TaskIds |->
        IF tasks[id] = Absent THEN attempts[id]
        ELSE tasks[id].max_attempts - tasks[id].attempts_started]

\* A row that is there remains, with its limits and its attempts so far; one
\* that is not there is still not there.
SameAttempts(id) ==
    \/ tasks[id] = Absent /\ tasks'[id] = Absent
    \/ /\ tasks[id] # Absent /\ tasks'[id] # Absent
       /\ tasks'[id].max_attempts = tasks[id].max_attempts
       /\ tasks'[id].attempts_started = tasks[id].attempts_started
       /\ tasks'[id].max_runtime = tasks[id].max_runtime

\* The inductive invariant of the clock: neither now nor at the end of a lease
\* that somebody waits for is it too late for the attempts that are left.
Room(attempts, runtime, load) ==
    /\ Left(attempts) \in DOMAIN load
    /\ \A id \in Stored : tasks[id].max_runtime <= runtime[id]
    /\ clock + load[Left(attempts)] * TicksPerMs <= Horizon
    /\ \A id \in ActiveIds :
        (tasks[id].lease + load[Left(attempts)]) * TicksPerMs <= Horizon
    /\ \A w \in Working :
        (workers[w].lease + load[Left(attempts)]) * TicksPerMs <= Horizon

\* What may be written over a row by a step that does not start it.
Rewritten(row, new) ==
    \E status, result, lease :
        \/ new = row
        \/ new = Recovered(row)
        \/ new = [row EXCEPT !.status = status, !.lease = lease, !.result = result]
        \/ new = [row EXCEPT !.status = status]
        \/ new = [row EXCEPT !.status = status, !.result = result]

\* What is written over a row without starting it keeps its limits and its
\* attempts so far.
LEMMA AttemptsKept ==
    ASSUME NEW row \in Row, NEW new, Rewritten(row, new)
    PROVE  /\ new.max_attempts = row.max_attempts
           /\ new.attempts_started = row.attempts_started
           /\ new.max_runtime = row.max_runtime
<1> PICK status, result, lease :
        \/ new = row
        \/ new = Recovered(row)
        \/ new = [row EXCEPT !.status = status, !.lease = lease, !.result = result]
        \/ new = [row EXCEPT !.status = status]
        \/ new = [row EXCEPT !.status = status, !.result = result]
  BY DEF Rewritten
<1>1. CASE new = row
  BY <1>1
<1>2. CASE new = Recovered(row)
  BY <1>2 DEF Recovered, Row
<1>3. CASE new = [row EXCEPT !.status = status, !.lease = lease, !.result = result]
  BY <1>3 DEF Row
<1>4. CASE new = [row EXCEPT !.status = status]
  BY <1>4 DEF Row
<1>5. CASE new = [row EXCEPT !.status = status, !.result = result]
  BY <1>5 DEF Row
<1> QED
  BY <1>1, <1>2, <1>3, <1>4, <1>5

\* No step but a submission and a start changes what is left of a task.
LEMMA AttemptsStep ==
    ASSUME RowsGood, ClockOK, [Next]_vars, NEW id \in TaskIds,
           ~ \E d \in Definitions : Submit(d), ~ \E i \in TaskIds : Start(i)
    PROVE  SameAttempts(id)
<1> DEFINE row == tasks[id]
           new == tasks'[id]
<1>1. IF row = Absent THEN new = Absent ELSE Rewritten(row, new)
  <2>1. ASSUME UNCHANGED tasks
        PROVE  IF row = Absent THEN new = Absent ELSE Rewritten(row, new)
    <3>1. new = row
      BY <2>1
    <3> QED
      BY <3>1 DEF Rewritten
  <2>2. ASSUME NEW ids \in SUBSET LeasedWithExpiredLease, RecoverRows(ids)
        PROVE  IF row = Absent THEN new = Absent ELSE Rewritten(row, new)
    <3>1. id \in ids => row # Absent
      BY DEF LeasedWithExpiredLease, ActiveIds, Stored
    <3>2. new = IF id \in ids THEN Recovered(row) ELSE row
      BY <2>2 DEF RecoverRows
    <3> HIDE DEF row, new
    <3> QED
      BY <3>1, <3>2 DEF Rewritten
  <2>3. ASSUME NEW i \in TaskIds, NEW status, NEW result, Finish(i, status, result)
        PROVE  IF row = Absent THEN new = Absent ELSE Rewritten(row, new)
    <3>1. \/ new = row
          \/ /\ row # Absent
             /\ new = [row EXCEPT !.status = status, !.lease = NoLease, !.result = result]
      BY <2>3 DEF Finish, Save, RowsGood, Shape
    <3> QED
      BY <3>1 DEF Rewritten
  <2>4. ASSUME NEW i \in TaskIds, RequestCancel(i)
        PROVE  IF row = Absent THEN new = Absent ELSE Rewritten(row, new)
    <3>1. \/ new = row
          \/ /\ row # Absent
             /\ \/ new = [row EXCEPT !.status = "cancelled", !.result = "cancelled"]
                \/ new = [row EXCEPT !.status = "cancel_requested"]
      BY <2>4 DEF RequestCancel, Holds, Save, RowsGood, Shape
    <3> QED
      BY <3>1 DEF Rewritten
  <2>5. ASSUME NEW i \in TaskIds, MarkCancelled(i)
        PROVE  IF row = Absent THEN new = Absent ELSE Rewritten(row, new)
    <3>1. \/ new = row
          \/ /\ row # Absent
             /\ new = [row EXCEPT !.status = "cancelled", !.lease = NoLease,
                                  !.result = "cancelled"]
      BY <2>5 DEF MarkCancelled, Holds, Save, RowsGood, Shape
    <3> QED
      BY <3>1 DEF Rewritten
  <2> HIDE DEF row, new
  <2> QED
    BY <2>1, <2>2, <2>3, <2>4, <2>5
       DEF Next, vars, Recover, RecoverExpired, Succeed, Fail, RequireManualReview,
           RequestShutdown, TryMarkSafe, Crash, Tick, Rollback
<1>2. CASE row = Absent
  BY <1>1, <1>2 DEF SameAttempts
<1>3. CASE row # Absent
  <2>1. row \in Row
    BY <1>3 DEF RowsGood, GoodRow
  <2>2. new # Absent
    BY <1>3, NextIsRowStep, NextKeepsRowsGood, RowStays DEF RowsGood, Stored
  <2>3. /\ new.max_attempts = row.max_attempts
        /\ new.attempts_started = row.attempts_started
        /\ new.max_runtime = row.max_runtime
    <3> HIDE DEF row, new
    <3> QED
      BY <1>1, <1>3, <2>1, AttemptsKept
  <2> QED
    BY <1>3, <2>2, <2>3 DEF SameAttempts
<1> QED
  BY <1>2, <1>3

\* A start adds an attempt.
LEMMA StartedAdds ==
    ASSUME NEW row \in Row, NEW promise
    PROVE  /\ Started(row, promise).attempts_started = row.attempts_started + 1
           /\ Started(row, promise).attempts_started # row.attempts_started
BY DEF Started, Row

\* A step takes at most from what is left, and a start what the attempt may run.
LEMMA LeftStep ==
    ASSUME NEW attempts, NEW runtime, NEW load, RoomForAll(attempts, runtime, load),
           RowsGood, ClockOK, [Next]_vars, Left(attempts) \in DOMAIN load,
           \A id \in Stored : tasks[id].max_runtime <= runtime[id]
    PROVE  /\ Left(attempts)' \in DOMAIN load
           /\ load[Left(attempts)] \in Nat /\ load[Left(attempts)'] \in Nat
           /\ load[Left(attempts)'] <= load[Left(attempts)]
           /\ \A id \in Stored' : tasks'[id].max_runtime <= runtime[id]
           /\ \A id \in TaskIds : RowStarted(id) =>
                  load[Left(attempts)'] + tasks[id].max_runtime <= load[Left(attempts)]
<1> DEFINE left == Left(attempts)
           next == Left(attempts)'
<1>1. /\ left \in [TaskIds -> Nat] /\ load[left] \in Nat
      /\ \A r \in DOMAIN load : load[r] \in Nat
      /\ \A id \in TaskIds : \A n \in 0 .. left[id] :
            /\ [left EXCEPT ![id] = @ - n] \in DOMAIN load
            /\ load[[left EXCEPT ![id] = @ - n]] + n * runtime[id] <= load[left]
      /\ attempts \in [TaskIds -> Nat] /\ runtime \in [TaskIds -> Nat]
  BY DEF RoomForAll
<1>2. /\ \A id \in TaskIds :
            left[id] = IF tasks[id] = Absent THEN attempts[id]
                       ELSE tasks[id].max_attempts - tasks[id].attempts_started
      /\ \A id \in TaskIds :
            next[id] = IF tasks'[id] = Absent THEN attempts[id]
                       ELSE tasks'[id].max_attempts - tasks'[id].attempts_started
      /\ next = [id \in TaskIds |-> next[id]]
  BY DEF Left
<1>3. \A id \in Stored : id \in TaskIds /\ tasks[id] \in Row
  BY DEF RowsGood, GoodRow, Stored
<1> HIDE DEF left, next
<1>4. ASSUME NEW id \in TaskIds, NEW n \in 0 .. left[id], next[id] = left[id] - n,
             \A o \in TaskIds \ {id} : next[o] = left[o]
      PROVE  /\ next \in DOMAIN load /\ load[next] \in Nat
             /\ load[next] + n * runtime[id] <= load[left]
             /\ load[next] <= load[left]
  <2>1. next = [left EXCEPT ![id] = @ - n]
    BY <1>1, <1>2, <1>4
  <2>2. next \in DOMAIN load /\ load[next] \in Nat
        /\ load[next] + n * runtime[id] <= load[left]
    BY <1>1, <2>1
  <2>3. n * runtime[id] \in Nat
    BY <1>1
  <2> QED
    BY <1>1, <2>2, <2>3
<1> DEFINE Goal ==
        /\ next \in DOMAIN load
        /\ load[left] \in Nat /\ load[next] \in Nat
        /\ load[next] <= load[left]
        /\ \A id \in Stored' : tasks'[id].max_runtime <= runtime[id]
        /\ \A id \in TaskIds : RowStarted(id) =>
               load[next] + tasks[id].max_runtime <= load[left]
<1> SUFFICES Goal
  BY DEF left, next
<1>5. ASSUME NEW d \in Definitions, Submit(d)
      PROVE  Goal
  <2>1. /\ d.id \in TaskIds /\ tasks[d.id] = Absent /\ d.max_attempts \in Nat
        /\ tasks' = [tasks EXCEPT ![d.id] = NewRow(d)]
        /\ tasks'[d.id] = NewRow(d) /\ NewRow(d) # Absent
    BY <1>5, DefinitionFields, NewRowGood, AbsentAssumption
       DEF Submit, Save, Duplicate, Stored, RowsGood, Shape, GoodRow
  <2>2. /\ NewRow(d).max_attempts = d.max_attempts /\ NewRow(d).attempts_started = 0
        /\ NewRow(d).max_runtime = d.max_runtime
    BY DEF NewRow
  <2>3. d.max_attempts <= attempts[d.id] /\ d.max_runtime <= runtime[d.id]
    BY DEF RoomForAll
  <2> DEFINE n == attempts[d.id] - d.max_attempts
  <2>4. left[d.id] = attempts[d.id] /\ next[d.id] = d.max_attempts - 0
    BY <1>2, <2>1, <2>2
  <2>5. n \in 0 .. left[d.id] /\ next[d.id] = left[d.id] - n
    BY <1>1, <2>1, <2>3, <2>4
  <2>6. \A o \in TaskIds \ {d.id} : tasks'[o] = tasks[o]
    BY <2>1 DEF RowsGood, Shape
  <2>7. \A o \in TaskIds \ {d.id} : next[o] = left[o]
    BY <1>2, <2>6
  <2> HIDE DEF n
  <2>8. next \in DOMAIN load /\ load[next] \in Nat /\ load[next] <= load[left]
    BY <1>4, <2>1, <2>5, <2>7
  <2>9. \A id \in Stored' : tasks'[id].max_runtime <= runtime[id]
    BY <2>1, <2>2, <2>3, <2>6 DEF Stored
  <2>10. \A id \in TaskIds : ~RowStarted(id)
    <3>1. ASSUME NEW id \in TaskIds, RowStarted(id) PROVE FALSE
      <4>1. tasks'[id] = Started(tasks[id], promised'[id]) /\ tasks[id] # Absent
        BY <3>1 DEF RowStarted, Holds
      <4>2. tasks[id] \in Row /\ tasks'[id] = tasks[id]
        BY <1>3, <2>1, <2>6, <4>1 DEF Stored
      <4> QED
        BY <4>1, <4>2, StartedAdds
    <3> QED
      BY <3>1
  <2> QED
    BY <1>1, <2>8, <2>9, <2>10
<1>6. ASSUME NEW i \in TaskIds, Start(i)
      PROVE  Goal
  <2> DEFINE row == tasks[i]
             new == tasks'[i]
  <2>1. /\ i \in Stored /\ row \in Row /\ row.attempts_started < row.max_attempts
        /\ \A o \in TaskIds \ {i} : tasks'[o] = tasks[o]
        /\ new = Started(row, promised'[i])
    BY <1>3, <1>6 DEF Start, Holds, Save, Stored, RowsGood, Shape, Started
  <2>2. new # Absent
    BY <2>1, NextIsRowStep, NextKeepsRowsGood, RowStays DEF RowsGood, Stored
  <2>3. /\ new.max_attempts = row.max_attempts /\ new.max_runtime = row.max_runtime
        /\ new.attempts_started = row.attempts_started + 1
    <3> HIDE DEF row, new
    <3> QED
      BY <2>1 DEF Started, Row
  <2>4. row.attempts_started \in Nat /\ row.max_attempts \in Nat /\ row.max_runtime \in Nat
    <3> HIDE DEF row
    <3> QED
      BY <2>1 DEF Row
  <2>5. /\ left[i] = row.max_attempts - row.attempts_started
        /\ next[i] = new.max_attempts - new.attempts_started
        /\ \A o \in TaskIds \ {i} : next[o] = left[o]
    BY <1>2, <2>1, <2>2 DEF Stored
  <2>6. row.max_runtime <= runtime[i]
    BY <2>1
  <2>7. \A id \in Stored' : tasks'[id].max_runtime <= runtime[id]
    BY <2>1, <2>3, <2>6 DEF Stored
  <2>8. \A id \in TaskIds : RowStarted(id) => id = i
    <3>1. ASSUME NEW id \in TaskIds, RowStarted(id), id # i PROVE FALSE
      <4>1. /\ tasks'[id] = Started(tasks[id], promised'[id]) /\ tasks[id] # Absent
            /\ tasks'[id] = tasks[id]
        BY <2>1, <3>1 DEF RowStarted, Holds
      <4>2. tasks[id] \in Row
        BY <1>3, <4>1 DEF Stored
      <4> QED
        BY <4>1, <4>2, StartedAdds
    <3> QED
      BY <3>1
  <2> HIDE DEF row, new
  <2>9. 1 \in 0 .. left[i] /\ next[i] = left[i] - 1
    BY <2>1, <2>3, <2>4, <2>5
  <2>10. /\ next \in DOMAIN load /\ load[next] \in Nat
         /\ load[next] + 1 * runtime[i] <= load[left]
         /\ load[next] <= load[left]
    BY <1>4, <2>5, <2>9
  <2>11. load[next] + row.max_runtime <= load[left]
    BY <1>1, <2>4, <2>6, <2>10
  <2> QED
    BY <1>1, <2>7, <2>8, <2>10, <2>11 DEF row
<1>7. CASE /\ ~ \E d \in Definitions : Submit(d)
           /\ ~ \E i \in TaskIds : Start(i)
  <2>1. \A id \in TaskIds : SameAttempts(id)
    BY <1>7, AttemptsStep
  <2>2. \A id \in TaskIds : next[id] = left[id]
    BY <1>2, <2>1 DEF SameAttempts
  <2>3. next = left
    BY <1>1, <1>2, <2>2
  <2>4. \A id \in Stored' : tasks'[id].max_runtime <= runtime[id]
    BY <2>1 DEF SameAttempts, Stored
  <2>5. left \in DOMAIN load
    BY DEF left
  <2>6. next \in DOMAIN load /\ load[next] \in Nat /\ load[next] <= load[left]
    BY <1>1, <2>3, <2>5
  <2>7. \A id \in TaskIds : ~RowStarted(id)
    <3>1. ASSUME NEW id \in TaskIds, RowStarted(id) PROVE FALSE
      <4>1. /\ tasks'[id] = Started(tasks[id], promised'[id]) /\ tasks[id] # Absent
            /\ tasks'[id].attempts_started = tasks[id].attempts_started
        BY <2>1, <3>1 DEF RowStarted, Holds, SameAttempts
      <4>2. tasks[id] \in Row
        BY <1>3, <4>1 DEF Stored
      <4> QED
        BY <4>1, <4>2, StartedAdds
    <3> QED
      BY <3>1
  <2> QED
    BY <1>1, <2>4, <2>6, <2>7
<1> HIDE DEF Goal
<1> QED
  BY <1>5, <1>6, <1>7

\* A step leaves room on the clock: it goes on only while somebody waits for
\* the end of a lease, and a start takes its lease from what is left.
LEMMA RoomStep ==
    ASSUME NEW attempts, NEW runtime, NEW load, RoomForAll(attempts, runtime, load),
           OwnerInv, Room(attempts, runtime, load), [OwnerNext]_owner_vars
    PROVE  Room(attempts, runtime, load)'
<1> DEFINE T == TicksPerMs
           L == load[Left(attempts)]
           N == load[Left(attempts)']
<1>1. RowsGood /\ ClockOK /\ OwnerTypes /\ [Next]_vars
  BY OwnerStepIsStep DEF OwnerInv, IInv
<1>2. /\ RowsGood' /\ ClockOK'
      /\ \A id \in TaskIds : RowStep(id) /\ promised'[id] \in Int
  BY <1>1, NextKeepsRowsGood, NextIsRowStep, NextState DEF RowsGood
<1>3. /\ Left(attempts)' \in DOMAIN load /\ L \in Nat /\ N \in Nat /\ N <= L
      /\ \A id \in Stored' : tasks'[id].max_runtime <= runtime[id]
      /\ \A id \in TaskIds : RowStarted(id) => N + tasks[id].max_runtime <= L
  BY <1>1, LeftStep DEF Room
<1>4. /\ clock + L * T <= Horizon
      /\ \A id \in ActiveIds : (tasks[id].lease + L) * T <= Horizon
      /\ \A w \in Working : (workers[w].lease + L) * T <= Horizon
  BY DEF Room
<1>5. T \in Nat \ {0} /\ Horizon \in Nat /\ clock \in Nat /\ clock' \in Nat
  BY <1>1, <1>2, TicksAssumption, BoundsAssumption DEF ClockOK
<1> HIDE DEF T, L, N
<1>6. \A m, n \in Int, k \in Nat : m <= n => m * k <= n * k
  BY SMT
<1>7. ASSUME NEW lease \in Int, (lease + L) * T <= Horizon
      PROVE  (lease + N) * T <= Horizon
  <2>1. (lease + N) * T <= (lease + L) * T
    BY <1>3, <1>5, <1>6
  <2>2. (lease + N) * T \in Int /\ (lease + L) * T \in Int
    BY <1>3, <1>5
  <2> DEFINE x == (lease + N) * T
             y == (lease + L) * T
  <2>3. x \in Int /\ y \in Int /\ x <= y /\ y <= Horizon
    BY <1>7, <2>1, <2>2
  <2> HIDE DEF x, y
  <2>4. x <= Horizon
    BY <1>5, <2>3
  <2> QED
    BY <2>4 DEF x
<1>8. L * T \in Int /\ N * T \in Int /\ N * T <= L * T
  BY <1>3, <1>5, <1>6
<1>9. ASSUME NEW id \in ActiveIds'
      PROVE  tasks'[id].lease \in Int /\ (tasks'[id].lease + N) * T <= Horizon
  <2> DEFINE row == tasks[id]
             new == tasks'[id]
  <2>1. id \in TaskIds /\ new # Absent /\ Active(new.status) /\ new.lease = Ms(promised'[id])
    BY <1>2 DEF ActiveIds, Stored, RowsGood, GoodRow
  <2>2. new.lease \in Int
    BY <1>2, <2>1, MsIsInt
  <2>3. row # Absent
    <3>1. CASE RowSubmitted(id)
      <4>1. PICK d \in Definitions : new = NewRow(d)
        BY <3>1 DEF RowSubmitted
      <4> QED
        BY <2>1, <4>1 DEF NewRow, Active
    <3> QED
      BY <1>2, <2>1, <3>1
         DEF RowStep, RowUnchanged, RowStarted, RowRecovered, RowFinished,
             RowCancelled, RowCancelRequested, Holds, ActiveIds, Stored,
             LeasedWithExpiredLease
  <2>4. CASE RowStarted(id)
    <3> DEFINE expires == clock + row.max_runtime * T
    <3>1. row \in Row /\ row.max_runtime \in Nat
      BY <1>1, <2>1, <2>3 DEF RowsGood, GoodRow, Row
    <3>2. promised'[id] = expires /\ N + row.max_runtime <= L
      BY <1>3, <2>1, <2>4 DEF RowStarted, T
    <3> DEFINE r == row.max_runtime
    <3> HIDE DEF r
    <3>3. r \in Nat /\ N + r <= L
      BY <3>1, <3>2 DEF r
    <3>4. (r + N) * T <= L * T
      BY <1>3, <1>5, <1>6, <3>3
    <3>5. expires \in Int /\ expires = clock + r * T
      BY <1>5, <3>3 DEF r
    <3> HIDE DEF expires
    <3>6. new.lease * T <= expires
      <4>1. new.lease = expires \div T
        BY <2>1, <3>2 DEF Ms, T
      <4>2. T * (expires \div T) <= expires
        BY <1>5, <3>5, DivBracket
      <4> QED
        BY <1>5, <2>2, <4>1, <4>2
    <3> DEFINE x == new.lease * T
               y == N * T
               z == r * T
    <3>7. /\ (new.lease + N) * T = x + y /\ (r + N) * T = z + y
          /\ x \in Int /\ y \in Int /\ z \in Int
      BY <1>3, <1>5, <2>2, <3>3
    <3> DEFINE u == L * T
               v == (r + N) * T
               s == (new.lease + N) * T
    <3>8. u \in Int /\ clock + u <= Horizon /\ v <= u
      BY <1>4, <1>8, <3>4
    <3>9. x <= expires /\ expires = clock + z /\ s = x + y /\ v = z + y
      BY <3>5, <3>6, <3>7
    <3> HIDE DEF x, y, z, u, v, s
    <3>10. s <= Horizon
      BY <1>5, <3>5, <3>7, <3>8, <3>9
    <3> QED
      BY <2>2, <3>10 DEF s
  <2>5. CASE ~RowStarted(id)
    <3>1. id \in ActiveIds /\ new.lease = row.lease
      <4>1. \/ /\ row.status = "pending"
               /\ new.attempts_started = row.attempts_started + 1
            \/ Active(row.status) /\ new.lease = row.lease
        BY <1>1, <1>2, <2>1, <2>3, HeldRowStep DEF Stored
      <4>2. CASE Active(row.status) /\ new.lease = row.lease
        BY <2>1, <2>3, <4>2 DEF ActiveIds, Stored
      <4>3. CASE /\ row.status = "pending"
                 /\ new.attempts_started = row.attempts_started + 1
        <5>1. \/ new = row
              \/ new = [row EXCEPT !.status = "cancelled", !.result = "cancelled"]
          BY <1>2, <2>1, <2>3, <2>5, <4>3
             DEF RowStep, RowUnchanged, RowSubmitted, RowRecovered, RowFinished,
                 RowCancelled, RowCancelRequested, ActiveIds, Active,
                 LeasedWithExpiredLease
        <5>2. row \in Row
          BY <1>1, <2>1, <2>3 DEF RowsGood, GoodRow
        <5> HIDE DEF row, new
        <5>3. /\ row.attempts_started \in Nat
              /\ new.attempts_started = row.attempts_started
          BY <5>1, <5>2 DEF Row
        <5> QED
          BY <4>3, <5>3
      <4> QED
        BY <4>1, <4>2, <4>3
    <3> QED
      BY <1>4, <1>7, <2>2, <3>1
  <2> QED
    BY <2>4, <2>5
<1>10. ASSUME NEW w \in Working'
       PROVE  (workers'[w].lease + N) * T <= Horizon
  <2>1. w \in Workers /\ workers'[w].op = "working"
    BY DEF Working
  <2>2. CASE workers'[w] = workers[w]
    <3>1. w \in Working /\ workers[w] \in Job
      BY <1>1, <2>1, <2>2 DEF Working, OwnerTypes
    <3>2. workers[w].lease \in Int
      BY <3>1, Jobs DEF Working
    <3> QED
      BY <1>4, <1>7, <2>2, <3>1, <3>2
  <2>3. CASE StartSelected(w)
    <3> DEFINE id == workers[w].id
    <3>1. workers'[w].lease = tasks'[id].lease
      BY <1>1, <2>1, <2>3 DEF StartSelected, Assign, OwnerTypes
    <3>2. id \in ActiveIds'
      <4>1. id \in TaskIds /\ tasks[id] # Absent
        BY <1>1, <2>1, <2>3, Jobs DEF StartSelected, Start, Holds, OwnerTypes
      <4>2. tasks[id] \in Row /\ tasks'[id] = Started(tasks[id], promised'[id])
        BY <1>1, <2>3, <4>1
           DEF StartSelected, Start, Save, RowsGood, Shape, Started, GoodRow
      <4>3. tasks'[id] # Absent
        BY <1>1, <1>2, <4>1, RowStays DEF Stored
      <4>4. tasks'[id].status = "running"
        BY <4>2 DEF Started, Row
      <4> QED
        BY <4>1, <4>3, <4>4 DEF ActiveIds, Stored, Active
    <3> QED
      BY <1>9, <3>1, <3>2
  <2> QED
    BY <1>1, <2>1, <2>2, <2>3, WorkersStep
<1>11. clock' + N * T <= Horizon
  <2>1. CASE clock' <= clock
    BY <1>4, <1>5, <1>8, <2>1
  <2>2. CASE TickWhileLeased
    <3>1. PICK lease \in Int : (lease + L) * T <= Horizon /\ lease > Ms(clock)
      <4>1. CASE \E id \in ActiveIds : tasks[id].lease > Ms(clock)
        <5>1. PICK id \in ActiveIds : tasks[id].lease > Ms(clock)
          BY <4>1
        <5>2. tasks[id].lease = Ms(promised[id]) /\ promised[id] \in Int
          BY <1>1, <5>1 DEF ActiveIds, Stored, RowsGood, GoodRow
        <5> QED
          BY <1>4, <5>1, <5>2, MsIsInt
      <4>2. CASE \E w \in Working : workers[w].lease > Ms(clock)
        <5>1. PICK w \in Working : workers[w].lease > Ms(clock)
          BY <4>2
        <5>2. workers[w].lease \in Int
          BY <1>1, <5>1, Jobs DEF Working, OwnerTypes
        <5> QED
          BY <1>4, <5>1, <5>2
      <4> QED
        BY <2>2, <4>1, <4>2 DEF TickWhileLeased
    <3>2. clock' = clock + 1
      BY <2>2 DEF TickWhileLeased, Tick
    <3> DEFINE m == clock \div T
               q == T * m
    <3>3. m \in Int /\ clock < q + T /\ lease > m
      BY <1>5, <3>1, DivBracket DEF Ms, T
    <3> HIDE DEF m
    <3>4. (m + 1) * T <= lease * T
      BY <1>5, <1>6, <3>3
    <3> DEFINE x == lease * T
               u == L * T
               s == (lease + L) * T
    <3>5. x \in Int /\ u \in Int /\ s = x + u /\ q \in Int /\ (m + 1) * T = q + T
      BY <1>3, <1>5, <3>3
    <3>6. q + T <= x /\ s <= Horizon
      BY <3>1, <3>4, <3>5
    <3> DEFINE y == N * T
    <3>7. y \in Int /\ y <= u
      BY <1>8
    <3> HIDE DEF q, x, u, s, y
    <3>8. clock < q + T /\ q \in Int /\ s = x + u /\ x \in Int /\ u \in Int
      BY <3>3, <3>5
    <3>9. clock' + y <= Horizon
      BY <1>5, <3>2, <3>6, <3>7, <3>8
    <3> QED
      BY <3>9 DEF y
  <2>3. clock' <= clock \/ TickWhileLeased
    <3>1. UNCHANGED clock => clock' <= clock
      BY <1>5
    <3>2. ASSUME NEW d \in Definitions, OwnerSubmit(d) PROVE UNCHANGED clock
      BY <3>2 DEF OwnerSubmit, Submit
    <3>3. ASSUME NEW w \in Workers,
                 Select(w) \/ StartSelected(w) \/ StartRefused(w) \/ GiveUp(w)
          PROVE  UNCHANGED clock
      BY <3>3 DEF Select, StartSelected, Start, StartRefused, GiveUp
    <3>4. ASSUME NEW w \in Workers, Answer(w) PROVE UNCHANGED clock
      BY <3>4 DEF Answer, Succeed, Fail, RequireManualReview, Finish, MarkCancelled
    <3>5. ASSUME OwnerCall \/ OwnerCrash PROVE UNCHANGED clock
      BY <3>5 DEF OwnerCall, Recover, RecoverExpired, RequestCancel,
                  RequestShutdown, TryMarkSafe, OwnerCrash, Crash
    <3>6. OwnerRollback => clock' <= clock
      BY <1>5 DEF OwnerRollback, Rollback
    <3>7. UNCHANGED owner_vars => UNCHANGED clock
      BY DEF owner_vars
    <3> QED
      BY <3>1, <3>2, <3>3, <3>4, <3>5, <3>6, <3>7 DEF OwnerNext
  <2> QED
    BY <2>1, <2>2, <2>3
<1> QED
  BY <1>3, <1>9, <1>10, <1>11 DEF Room, N, T

\* When Horizon has room for all attempts, the clock never comes to its end
\* while a task is pending: the bound keeps nobody waiting.
THEOREM OwnerAlwaysTyped ==
    ASSUME NEW attempts, NEW runtime, NEW load, RoomForAll(attempts, runtime, load)
    PROVE  OwnerSpec => []OwnerTypeOK
<1>1. OwnerInit => Room(attempts, runtime, load)
  <2> SUFFICES ASSUME OwnerInit PROVE Room(attempts, runtime, load)
    OBVIOUS
  <2>1. /\ attempts \in [TaskIds -> Nat] /\ attempts \in DOMAIN load
        /\ load[attempts] * TicksPerMs <= Horizon /\ load[attempts] \in Nat
    BY DEF RoomForAll
  <2>2. Left(attempts) = attempts
    BY <2>1 DEF Left, OwnerInit, Init
  <2>3. Stored = {} /\ Working = {} /\ clock = 0
    BY Jobs DEF OwnerInit, Init, Stored, Working
  <2>4. 0 + load[attempts] * TicksPerMs <= Horizon
    BY <2>1, TicksAssumption
  <2> QED
    BY <2>1, <2>2, <2>3, <2>4 DEF Room, ActiveIds
<1>2. /\ OwnerInv /\ Room(attempts, runtime, load) /\ [OwnerNext]_owner_vars
      => Room(attempts, runtime, load)'
  BY RoomStep
<1>3. OwnerInv /\ Room(attempts, runtime, load) => OwnerTypeOK
  <2> SUFFICES ASSUME OwnerInv, Room(attempts, runtime, load),
                      NEW id \in Stored, tasks[id].status = "pending"
               PROVE  clock + tasks[id].max_runtime * TicksPerMs <= Horizon
    BY DEF OwnerInv, OwnerTypeOK
  <2> DEFINE row == tasks[id]
             left == Left(attempts)
             less == [left EXCEPT ![id] = @ - 1]
             T == TicksPerMs
  <2>1. /\ id \in TaskIds /\ row \in Row /\ row.attempts_started < row.max_attempts
        /\ row.max_runtime <= runtime[id] /\ clock \in Nat
    BY DEF OwnerInv, IInv, RowsGood, GoodRow, ClockOK, Stored, Room
  <2>2. row.attempts_started \in Nat /\ row.max_attempts \in Nat /\ row.max_runtime \in Nat
    BY <2>1 DEF Row
  <2>3. 1 \in 0 .. left[id]
    BY <2>1, <2>2 DEF Left, Stored
  <2>4. /\ left \in DOMAIN load /\ less \in DOMAIN load
        /\ load[left] \in Nat /\ load[less] \in Nat /\ runtime[id] \in Nat
        /\ load[less] + 1 * runtime[id] <= load[left]
    BY <2>1, <2>3 DEF Room, RoomForAll
  <2> HIDE DEF row, left, less
  <2>5. row.max_runtime <= load[left]
    BY <2>1, <2>2, <2>4
  <2>6. T \in Nat /\ row.max_runtime * T <= load[left] * T
    <3>1. \A m, n \in Int, k \in Nat : m <= n => m * k <= n * k
      BY SMT
    <3> QED
      BY <2>2, <2>4, <2>5, <3>1, TicksAssumption
  <2>7. clock + load[left] * T <= Horizon
    BY DEF Room, left
  <2> DEFINE x == row.max_runtime * T
             y == load[left] * T
  <2>8. x \in Int /\ y \in Int /\ x <= y /\ clock + y <= Horizon
    BY <2>2, <2>4, <2>6, <2>7
  <2> HIDE DEF x, y
  <2>9. clock + x <= Horizon
    BY <2>1, <2>8, BoundsAssumption
  <2> QED
    BY <2>9 DEF x, row
<1> QED
  BY <1>1, <1>2, <1>3, OwnerInvIsInvariant, PTL DEF OwnerSpec
=============================================================================
