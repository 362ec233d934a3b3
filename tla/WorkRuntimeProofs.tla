--------------------------- MODULE WorkRuntimeProofs ---------------------------
(* Theorems about WorkRuntime for every set of tasks, keys and definitions,   *)
(* every clock resolution and every bound.                                    *)
EXTENDS WorkRuntime, WellFoundedInduction, TLAPS

\* Division by a positive number brackets the dividend.
LEMMA DivBracket ==
    ASSUME NEW a \in Int, NEW b \in Nat \ {0}
    PROVE  /\ a \div b \in Int
           /\ b * (a \div b) <= a
           /\ a < b * (a \div b) + b
BY SMT

\* Truncation to milliseconds loses less than one millisecond.
LEMMA MsLosesLessThanOne ==
    ASSUME NEW a \in Int, NEW b \in Int, Ms(a) <= Ms(b)
    PROVE  a < b + TicksPerMs
<1> DEFINE T == TicksPerMs
<1>1. T \in Nat \ {0}
  BY TicksAssumption
<1>2. /\ a < T * (a \div T) + T
      /\ T * (b \div T) <= b
      /\ a \div T \in Int
      /\ b \div T \in Int
  BY <1>1, DivBracket
<1>3. T * (a \div T) <= T * (b \div T)
  <2>1. \A m, n \in Int, k \in Nat : m <= n => k * m <= k * n
    BY SMT
  <2> QED
    BY <1>1, <1>2, <2>1 DEF Ms
<1> QED
  <2> HIDE DEF T
  <2>1. a < b + T
    <3> DEFINE x == T * (a \div T)
               y == T * (b \div T)
    <3>1. x \in Int /\ y \in Int
      BY <1>1, <1>2
    <3>2. x <= y /\ a < x + T /\ y <= b
      BY <1>2, <1>3
    <3> HIDE DEF x, y
    <3> QED
      BY <1>1, <3>1, <3>2
  <2> QED
    BY <2>1 DEF T
-----------------------------------------------------------------------------
(* What one step may do to one row.  Every theorem about rows follows from    *)
(* this relation, so each action is opened once, in lemma NextIsRowStep.      *)

Ended(row, status, result) ==
    [row EXCEPT !.status = status, !.lease = NoLease, !.result = result]

Started(row, promise) ==
    [row EXCEPT !.attempts_started = @ + 1, !.status = "running",
                !.lease = Ms(promise)]

RowUnchanged(id) == tasks'[id] = tasks[id] /\ promised'[id] = promised[id]

RowSubmitted(id) ==
    /\ tasks[id] = Absent
    /\ state = "running"
    /\ promised'[id] = promised[id]
    /\ \A o \in TaskIds \ {id} : tasks'[o] = tasks[o]
    /\ \E d \in Definitions :
        /\ ValidDefinition(d)
        /\ \A o \in Stored : tasks[o].key # d.key
        /\ tasks'[id] = NewRow(d)

RowStarted(id) ==
    /\ Holds(id, {"pending"})
    /\ state = "running" /\ state' = "running"
    /\ tasks[id].attempts_started < tasks[id].max_attempts
    /\ promised'[id] = clock + tasks[id].max_runtime * TicksPerMs
    /\ tasks'[id] = Started(tasks[id], promised'[id])

RowRecovered(id) ==
    /\ id \in LeasedWithExpiredLease
    /\ tasks'[id] = Recovered(tasks[id])

RowFinished(id) ==
    /\ id \in ActiveIds
    /\ \E status \in {"succeeded", "failed", "cancelled", "manual_review"} :
       \E result \in {"output", "output_limit_exceeded", "reported", "cancelled"} :
           /\ status = "cancelled" => tasks[id].status = "cancel_requested"
           /\ tasks'[id] = Ended(tasks[id], status, result)

RowCancelled(id) ==
    /\ Holds(id, {"pending"})
    /\ tasks'[id] = [tasks[id] EXCEPT !.status = "cancelled",
                                      !.result = "cancelled"]

RowCancelRequested(id) ==
    /\ id \in ActiveIds
    /\ tasks'[id] = [tasks[id] EXCEPT !.status = "cancel_requested"]
    /\ promised'[id] = promised[id]

RowStep(id) ==
    \/ RowUnchanged(id)
    \/ RowSubmitted(id)
    \/ RowStarted(id)
    \/ /\ promised'[id] = promised[id]
       /\ \/ RowRecovered(id)
          \/ RowFinished(id)
          \/ RowCancelled(id)
    \/ RowCancelRequested(id)

\* The shape of the state, all that NextIsRowStep needs to know.
Shape ==
    /\ DOMAIN tasks = TaskIds /\ tasks = [id \in TaskIds |-> tasks[id]]
    /\ DOMAIN promised = TaskIds
    /\ promised = [id \in TaskIds |-> promised[id]]

\* Definitions are records of the declared shape.
LEMMA DefinitionFields ==
    ASSUME NEW d \in Definitions
    PROVE  /\ d.id \in TaskIds /\ d.key \in Keys
           /\ d.max_attempts \in Nat /\ d.max_runtime \in Int
BY DefinitionsAssumption DEF Definition

\* Every step of the runtime is a RowStep of every task, and keeps the shape.
LEMMA NextIsRowStep ==
    ASSUME Shape, [Next]_vars
    PROVE  Shape' /\ \A id \in TaskIds : RowStep(id)
<1> USE DEF Shape
<1>1. ASSUME NEW ids \in SUBSET LeasedWithExpiredLease, RecoverRows(ids),
             UNCHANGED promised
      PROVE  Shape' /\ \A id \in TaskIds : RowStep(id)
  BY <1>1 DEF RecoverRows, RowStep, RowUnchanged, RowRecovered
<1>2. CASE Recover
  BY <1>1, <1>2 DEF Recover
<1>3. CASE RecoverExpired
  BY <1>1, <1>3 DEF RecoverExpired
<1>4. ASSUME NEW d \in Definitions, Submit(d)
      PROVE  Shape' /\ \A id \in TaskIds : RowStep(id)
  BY <1>4, DefinitionFields
     DEF Submit, Save, Duplicate, Stored, RowStep, RowUnchanged, RowSubmitted
<1>5. ASSUME NEW i \in TaskIds, Start(i)
      PROVE  Shape' /\ \A id \in TaskIds : RowStep(id)
  BY <1>5 DEF Start, Save, RowStep, RowUnchanged, RowStarted, Started
<1>6. ASSUME NEW i \in TaskIds,
             NEW status \in {"succeeded", "failed", "manual_review"},
             NEW result \in {"output", "output_limit_exceeded", "reported"},
             Finish(i, status, result)
      PROVE  Shape' /\ \A id \in TaskIds : RowStep(id)
  BY <1>6 DEF Finish, Save, RowStep, RowUnchanged, RowFinished, Ended,
              ActiveIds, Stored
<1>7. ASSUME NEW i \in TaskIds, RequestCancel(i)
      PROVE  Shape' /\ \A id \in TaskIds : RowStep(id)
  BY <1>7 DEF RequestCancel, Save, RowStep, RowUnchanged, RowCancelled,
              RowCancelRequested, Holds, ActiveIds, Stored, Active
<1>8. ASSUME NEW i \in TaskIds, MarkCancelled(i)
      PROVE  Shape' /\ \A id \in TaskIds : RowStep(id)
  BY <1>8 DEF MarkCancelled, Save, RowStep, RowUnchanged, RowFinished, Ended,
              Holds, ActiveIds, Stored, Active
<1>9. ASSUME UNCHANGED <<tasks, promised>>
      PROVE  Shape' /\ \A id \in TaskIds : RowStep(id)
  BY <1>9 DEF RowStep, RowUnchanged
<1> QED
  BY <1>2, <1>3, <1>4, <1>5, <1>6, <1>7, <1>8, <1>9
     DEF Next, vars, Succeed, Fail, RequireManualReview, RequestShutdown,
         TryMarkSafe, Crash, Tick, Rollback
-----------------------------------------------------------------------------
(* The inductive invariant, row by row. *)

\* A row the runtime may have written, with the lease it promised.
GoodRow(row, promise) ==
    /\ row \in Row
    /\ row.attempts_started <= row.max_attempts
    /\ Active(row.status) <=> row.lease # NoLease
    /\ IsTerminal(row.status) <=> row.result # "none"
    /\ row.status = "pending" => row.attempts_started < row.max_attempts
    /\ Active(row.status) => row.lease = Ms(promise)

RowsGood ==
    /\ Shape
    /\ \A id \in TaskIds :
        /\ promised[id] \in Int
        /\ tasks[id] # Absent => GoodRow(tasks[id], promised[id])

ClockOK == clock \in Nat /\ rollbacks \in Nat /\ state \in States

IInv ==
    /\ RowsGood
    /\ ClockOK
    /\ KeysUnique
    /\ SafeMeansQuiet

\* The stored form of a time is an integer.
LEMMA MsIsInt ==
    ASSUME NEW t \in Int
    PROVE  Ms(t) \in Int
BY TicksAssumption, DivBracket DEF Ms

\* A submitted row is good.
LEMMA NewRowGood ==
    ASSUME NEW d \in Definitions, ValidDefinition(d), NEW promise
    PROVE  GoodRow(NewRow(d), promise)
<1>1. d.key \in Keys /\ d.max_attempts \in Nat \ {0} /\ d.max_runtime \in Nat \ {0}
  BY DefinitionFields DEF ValidDefinition
<1> QED
  BY <1>1 DEF GoodRow, NewRow, Row, Statuses, Results, Active, IsTerminal

\* Recovery turns a good active row into a good row.
LEMMA RecoveredGood ==
    ASSUME NEW row, NEW promise, GoodRow(row, promise), Active(row.status)
    PROVE  GoodRow(Recovered(row), promise)
BY NoLeaseAssumption DEF GoodRow, Recovered, Row, Statuses, Results, Active, IsTerminal

\* Ending an active row keeps it good.
LEMMA EndedGood ==
    ASSUME NEW row, NEW promise, GoodRow(row, promise),
           NEW status \in {"succeeded", "failed", "cancelled", "manual_review"},
           NEW result \in Results \ {"none"}
    PROVE  GoodRow(Ended(row, status, result), promise)
BY NoLeaseAssumption DEF GoodRow, Ended, Row, Statuses, Results, Active, IsTerminal

\* Starting a pending row with attempts left keeps it good.
LEMMA StartedGood ==
    ASSUME NEW row, NEW promise, NEW new_promise \in Int, GoodRow(row, promise),
           row.status = "pending", row.attempts_started < row.max_attempts
    PROVE  GoodRow(Started(row, new_promise), new_promise)
<1>1. Ms(new_promise) \in Int
  BY MsIsInt
<1> DEFINE lease == Ms(new_promise)
<1> HIDE DEF lease
<1>3. lease \in Int
  BY <1>1 DEF lease
<1> DEFINE attempts == row.attempts_started + 1
<1>4. /\ row \in Row
      /\ row.attempts_started \in Nat /\ row.max_attempts \in Nat
      /\ row.result = "none"
  BY DEF GoodRow, Row, Results, IsTerminal
<1>5. attempts \in Nat /\ attempts <= row.max_attempts
  BY <1>4
<1> HIDE DEF attempts
<1>6. [row EXCEPT !.attempts_started = attempts, !.status = "running",
                  !.lease = lease] \in Row
  BY <1>3, <1>4, <1>5 DEF Row, Statuses
<1>7. Started(row, new_promise)
        = [row EXCEPT !.attempts_started = attempts, !.status = "running",
                      !.lease = lease]
  BY DEF Started, attempts, lease
<1> QED
  BY <1>3, <1>4, <1>5, <1>6, <1>7, NoLeaseAssumption
     DEF GoodRow, Row, Active, IsTerminal, lease

\* A step of a row keeps it good.
LEMMA RowStepGood ==
    ASSUME RowsGood, ClockOK, NEW id \in TaskIds, RowStep(id),
           promised'[id] \in Int
    PROVE  \/ tasks[id] = Absent /\ tasks'[id] = Absent
           \/ GoodRow(tasks'[id], promised'[id])
<1> DEFINE row == tasks[id]
<1>0. promised[id] \in Int /\ (row # Absent => GoodRow(row, promised[id]))
  BY DEF RowsGood
<1>1. CASE RowUnchanged(id)
  BY <1>0, <1>1 DEF RowUnchanged
<1>2. CASE RowSubmitted(id)
  BY <1>2, NewRowGood DEF RowSubmitted
<1>3. CASE RowStarted(id)
  <2>1. GoodRow(row, promised[id]) /\ row.status = "pending"
        /\ row.attempts_started < row.max_attempts
    BY <1>0, <1>3 DEF RowStarted, Holds
  <2>2. tasks'[id] = Started(row, promised'[id])
    BY <1>3 DEF RowStarted
  <2> HIDE DEF row
  <2> QED
    BY <2>1, <2>2, StartedGood
<1>4. CASE promised'[id] = promised[id] /\ RowRecovered(id)
  BY <1>0, <1>4, RecoveredGood
     DEF RowRecovered, LeasedWithExpiredLease, ActiveIds, Stored
<1>5. CASE promised'[id] = promised[id] /\ RowFinished(id)
  BY <1>0, <1>5, EndedGood DEF RowFinished, ActiveIds, Stored, Results
<1>6. CASE promised'[id] = promised[id] /\ RowCancelled(id)
  <2>1. GoodRow(row, promised[id]) /\ row.status = "pending"
    BY <1>0, <1>6 DEF RowCancelled, Holds
  <2>2. tasks'[id] = [row EXCEPT !.status = "cancelled", !.result = "cancelled"]
    BY <1>6 DEF RowCancelled
  <2> HIDE DEF row
  <2> QED
    BY <2>1, <2>2, <1>6 DEF GoodRow, Row, Statuses, Results, Active, IsTerminal
<1>7. CASE RowCancelRequested(id)
  <2>1. GoodRow(row, promised[id]) /\ Active(row.status)
    BY <1>0, <1>7 DEF RowCancelRequested, ActiveIds, Stored
  <2>2. tasks'[id] = [row EXCEPT !.status = "cancel_requested"]
    BY <1>7 DEF RowCancelRequested
  <2> HIDE DEF row
  <2> QED
    BY <2>1, <2>2, <1>7
       DEF RowCancelRequested, GoodRow, Row, Statuses, Results, Active, IsTerminal
<1> QED
  BY <1>1, <1>2, <1>3, <1>4, <1>5, <1>6, <1>7 DEF RowStep

\* Any step keeps the rows good.
LEMMA NextKeepsRowsGood ==
    ASSUME RowsGood, ClockOK, [Next]_vars
    PROVE  RowsGood'
<1>1. Shape' /\ \A id \in TaskIds : RowStep(id)
  BY NextIsRowStep DEF RowsGood
<1>2. ASSUME NEW id \in TaskIds
      PROVE  promised'[id] \in Int
  <2>1. promised[id] \in Int
    BY DEF RowsGood
  <2>2. CASE promised'[id] = promised[id]
    BY <2>1, <2>2
  <2>3. CASE RowStarted(id)
    <3> DEFINE runtime == tasks[id].max_runtime
    <3>1. runtime \in Nat
      BY <2>3 DEF RowsGood, GoodRow, Row, RowStarted, Holds
    <3>2. promised'[id] = clock + runtime * TicksPerMs
      BY <2>3 DEF RowStarted
    <3> HIDE DEF runtime
    <3> QED
      BY <3>1, <3>2, TicksAssumption DEF ClockOK
  <2> QED
    BY <1>1, <2>2, <2>3 DEF RowStep, RowUnchanged, RowSubmitted, RowCancelRequested
<1>3. ASSUME NEW id \in TaskIds
      PROVE  tasks'[id] # Absent => GoodRow(tasks'[id], promised'[id])
  BY <1>1, <1>2, RowStepGood
<1> QED
  BY <1>1, <1>2, <1>3 DEF RowsGood

\* Whatever is written over a row keeps its key.
LEMMA KeyKept ==
    ASSUME NEW row \in Row, NEW status, NEW result, NEW promise
    PROVE  /\ Started(row, promise).key = row.key
           /\ Recovered(row).key = row.key
           /\ Ended(row, status, result).key = row.key
           /\ [row EXCEPT !.status = status].key = row.key
           /\ [row EXCEPT !.status = status, !.result = result].key = row.key
BY DEF Row, Started, Recovered, Ended

\* A stored row stays stored under its key.
LEMMA RowStays ==
    ASSUME RowsGood, ClockOK, NEW id \in Stored, RowStep(id),
           promised'[id] \in Int
    PROVE  tasks'[id] # Absent /\ tasks'[id].key = tasks[id].key
<1> DEFINE row == tasks[id]
<1>1. id \in TaskIds /\ row # Absent /\ row \in Row
  BY DEF RowsGood, GoodRow, Stored
<1>2. tasks'[id] # Absent
  BY <1>1, RowStepGood, AbsentAssumption DEF GoodRow
<1>3. \/ tasks'[id] = row
      \/ tasks'[id] = Started(row, promised'[id])
      \/ tasks'[id] = Recovered(row)
      \/ \E status, result : tasks'[id] = Ended(row, status, result)
      \/ tasks'[id] = [row EXCEPT !.status = "cancelled", !.result = "cancelled"]
      \/ tasks'[id] = [row EXCEPT !.status = "cancel_requested"]
  BY <1>1 DEF RowStep, RowUnchanged, RowSubmitted, RowStarted, RowRecovered,
              RowFinished, RowCancelled, RowCancelRequested
<1> HIDE DEF row
<1>4. tasks'[id].key = row.key
  <2>1. \A status, result, promise :
            /\ Started(row, promise).key = row.key
            /\ Recovered(row).key = row.key
            /\ Ended(row, status, result).key = row.key
            /\ [row EXCEPT !.status = status].key = row.key
            /\ [row EXCEPT !.status = status, !.result = result].key = row.key
    BY <1>1, KeyKept
  <2>2. CASE tasks'[id] = row
    BY <2>2
  <2>3. CASE tasks'[id] = Started(row, promised'[id])
    BY <2>1, <2>3
  <2>4. CASE tasks'[id] = Recovered(row)
    BY <2>1, <2>4
  <2>5. CASE \E status, result : tasks'[id] = Ended(row, status, result)
    BY <2>1, <2>5
  <2>6. CASE tasks'[id] = [row EXCEPT !.status = "cancelled", !.result = "cancelled"]
    BY <2>1, <2>6
  <2>7. CASE tasks'[id] = [row EXCEPT !.status = "cancel_requested"]
    BY <2>1, <2>7
  <2> QED
    BY <1>3, <2>2, <2>3, <2>4, <2>5, <2>6, <2>7
<1> QED
  BY <1>2, <1>4 DEF row

\* Any step keeps idempotency keys unique.
LEMMA NextKeepsKeysUnique ==
    ASSUME RowsGood, ClockOK, KeysUnique, [Next]_vars
    PROVE  KeysUnique'
<1>1. RowsGood' /\ \A id \in TaskIds : RowStep(id)
  BY NextKeepsRowsGood, NextIsRowStep DEF RowsGood
<1>2. \A id \in TaskIds : promised'[id] \in Int
  BY <1>1 DEF RowsGood
<1>3. \A id \in Stored : id \in TaskIds /\ tasks'[id].key = tasks[id].key
  BY <1>1, <1>2, RowStays DEF Stored
<1>4. CASE \E id \in TaskIds : RowSubmitted(id)
  <2>1. PICK id \in TaskIds : RowSubmitted(id)
    BY <1>4
  <2>2. PICK d \in Definitions :
            /\ \A o \in Stored : tasks[o].key # d.key
            /\ tasks'[id] = NewRow(d)
    BY <2>1 DEF RowSubmitted
  <2>3. tasks'[id].key = d.key
    BY <2>2 DEF NewRow
  <2>4. \A o \in TaskIds \ {id} : tasks'[o] = tasks[o]
    BY <2>1 DEF RowSubmitted
  <2> QED
    BY <2>2, <2>3, <2>4 DEF KeysUnique, Stored
<1>5. CASE ~ \E id \in TaskIds : RowSubmitted(id)
  <2>1. \A id \in TaskIds : id \in Stored' => id \in Stored
    BY <1>1, <1>5 DEF RowStep, RowUnchanged, RowStarted, RowRecovered,
        RowFinished, RowCancelled, RowCancelRequested, Stored, Holds,
        ActiveIds, LeasedWithExpiredLease
  <2>2. \A id \in Stored' : id \in Stored
    BY <2>1 DEF Stored
  <2> QED
    BY <1>3, <2>2 DEF KeysUnique
<1> QED
  BY <1>4, <1>5

\* What a step may do to the runtime's state, the clock and the safe mark.
LEMMA NextState ==
    ASSUME ClockOK, [Next]_vars
    PROVE  /\ ClockOK'
           /\ state' = "safe" => \/ state = "safe"
                                 \/ ~HasActive /\ UNCHANGED tasks
<1> DEFINE Goal == /\ ClockOK'
                   /\ state' = "safe" => \/ state = "safe"
                                         \/ ~HasActive /\ UNCHANGED tasks
<1> SUFFICES Goal
  OBVIOUS
<1>1. ASSUME UNCHANGED <<state, clock, rollbacks>> PROVE Goal
  BY <1>1 DEF ClockOK
<1>2. CASE Recover
  BY <1>2 DEF Recover, ClockOK, States
<1>3. CASE RequestShutdown
  BY <1>3 DEF RequestShutdown, ClockOK, States
<1>4. CASE TryMarkSafe
  BY <1>4 DEF TryMarkSafe, ClockOK, States
<1>5. CASE Crash
  BY <1>5 DEF Crash, ClockOK, States
<1>6. CASE Tick
  BY <1>6 DEF Tick, ClockOK
<1>7. CASE Rollback
  BY <1>7 DEF Rollback, ClockOK
<1> HIDE DEF Goal
<1>8. CASE RecoverExpired
  BY <1>1, <1>8 DEF RecoverExpired
<1>9. CASE \E d \in Definitions : Submit(d)
  BY <1>1, <1>9 DEF Submit
<1>10. ASSUME NEW id \in TaskIds,
              \/ Start(id) \/ Succeed(id) \/ Fail(id)
              \/ RequireManualReview(id) \/ RequestCancel(id)
              \/ MarkCancelled(id)
       PROVE  Goal
  BY <1>1, <1>10 DEF Start, Finish, Succeed, Fail, RequireManualReview,
                     RequestCancel, MarkCancelled
<1> QED
  BY <1>1, <1>2, <1>3, <1>4, <1>5, <1>6, <1>7, <1>8, <1>9, <1>10 DEF Next, vars

\* Any step keeps a safe runtime quiet.
LEMMA NextKeepsSafeQuiet ==
    ASSUME RowsGood, ClockOK, SafeMeansQuiet, [Next]_vars
    PROVE  SafeMeansQuiet'
<1> SUFFICES ASSUME state' = "safe" PROVE ~HasActive'
  BY DEF SafeMeansQuiet, HasActive
<1>1. CASE ~HasActive /\ UNCHANGED tasks
  BY <1>1 DEF HasActive, ActiveIds, Stored
<1>2. CASE state = "safe"
  <2>1. ~HasActive /\ \A id \in TaskIds : RowStep(id)
    BY <1>2, NextIsRowStep DEF SafeMeansQuiet, HasActive, RowsGood
  <2>2. ASSUME NEW id \in TaskIds PROVE id \notin ActiveIds'
    <3>1. RowStep(id) /\ id \notin ActiveIds
      BY <2>1 DEF HasActive
    <3>2. \/ RowUnchanged(id)
          \/ RowCancelled(id)
      BY <3>1, <1>2 DEF RowStep, RowSubmitted, RowStarted, RowRecovered,
          RowFinished, RowCancelRequested, LeasedWithExpiredLease
    <3>3. CASE RowUnchanged(id)
      BY <3>1, <3>3 DEF RowUnchanged, ActiveIds, Stored
    <3>4. CASE RowCancelled(id)
      <4>1. tasks[id] \in Row
        BY <3>4 DEF RowCancelled, Holds, RowsGood, GoodRow
      <4>2. tasks'[id].status = "cancelled"
        BY <3>4, <4>1 DEF RowCancelled, Row
      <4> QED
        BY <4>2 DEF ActiveIds, Active
    <3> QED
      BY <3>2, <3>3, <3>4
  <2> QED
    BY <2>2 DEF HasActive, ActiveIds, Stored
<1> QED
  BY <1>1, <1>2, NextState

\* IInv is an inductive invariant of the runtime.
LEMMA IInvIsInvariant == Spec => []IInv
<1>1. Init => IInv
  BY BoundsAssumption
     DEF Init, IInv, RowsGood, Shape, ClockOK, States, KeysUnique,
         SafeMeansQuiet, Stored
<1>2. IInv /\ [Next]_vars => IInv'
  BY NextKeepsRowsGood, NextKeepsKeysUnique, NextKeepsSafeQuiet, NextState
     DEF IInv
<1> QED
  BY <1>1, <1>2, PTL DEF Spec
-----------------------------------------------------------------------------
(* The properties of WorkRuntime. *)

\* The tables and the clock always have their types.
THEOREM TypeCorrect == Spec => []TypeOK
<1>1. IInv => TypeOK
  BY DEF IInv, RowsGood, Shape, ClockOK, GoodRow, TypeOK
<1> QED
  BY <1>1, IInvIsInvariant, PTL

\* No save of the runtime is refused by a UNIQUE or CHECK constraint of the
\* tasks table.
THEOREM SchemaAlwaysHolds == Spec => []SchemaHolds
<1>1. IInv => SchemaHolds
  BY DEF IInv, RowsGood, GoodRow, SchemaHolds, Stored
<1> QED
  BY <1>1, IInvIsInvariant, PTL

\* A task that waits can be started: no pending task is out of attempts.
THEOREM PendingAlwaysStartable == Spec => []PendingIsStartable
<1>1. IInv => PendingIsStartable
  BY DEF IInv, RowsGood, GoodRow, PendingIsStartable, Stored
<1> QED
  BY <1>1, IInvIsInvariant, PTL

\* A runtime that reports safe has no active task.
THEOREM SafeIsQuiet == Spec => []SafeMeansQuiet
BY IInvIsInvariant, PTL DEF IInv

\* A step writes over a terminal row only what it already holds.
THEOREM TerminalStaysFinal == Spec => TerminalIsFinal
<1>1. ASSUME IInv, [Next]_vars, NEW id \in Stored, IsTerminal(tasks[id].status)
      PROVE  tasks'[id] = tasks[id]
  <2>1. id \in TaskIds /\ RowStep(id)
    BY <1>1, NextIsRowStep DEF IInv, RowsGood, Stored
  <2> QED
    BY <1>1, <2>1
       DEF RowStep, RowUnchanged, RowSubmitted, RowStarted, RowRecovered,
           RowFinished, RowCancelled, RowCancelRequested, Holds, Stored,
           LeasedWithExpiredLease, ActiveIds, Active, IsTerminal
<1>2. IInv /\ [Next]_vars =>
        [\A id \in Stored :
            IsTerminal(tasks[id].status) => tasks'[id] = tasks[id]]_vars
  BY <1>1
<1> QED
  BY <1>2, IInvIsInvariant, PTL DEF Spec, TerminalIsFinal

\* A task whose cancellation is recorded is never retried.
THEOREM CancelAlwaysSticks == Spec => CancelSticks
<1>1. ASSUME IInv, [Next]_vars, NEW id \in Stored,
             tasks[id].status = "cancel_requested"
      PROVE  tasks'[id].status \notin {"pending", "running"}
  <2> DEFINE row == tasks[id]
  <2>1. id \in TaskIds /\ RowStep(id)
    BY <1>1, NextIsRowStep DEF IInv, RowsGood, Stored
  <2>2. row \in Row /\ row # Absent
    BY <1>1 DEF IInv, RowsGood, GoodRow, Stored
  <2>3. \/ tasks'[id] = row
        \/ tasks'[id] = Recovered(row)
        \/ \E status \in {"succeeded", "failed", "cancelled", "manual_review"} :
           \E result : tasks'[id] = Ended(row, status, result)
        \/ tasks'[id] = [row EXCEPT !.status = "cancel_requested"]
    BY <1>1, <2>1, <2>2
       DEF RowStep, RowUnchanged, RowSubmitted, RowStarted, RowRecovered,
           RowFinished, RowCancelled, RowCancelRequested, Holds
  <2>4. row.status = "cancel_requested"
    BY <1>1
  <2> HIDE DEF row
  <2> QED
    BY <2>2, <2>3, <2>4 DEF Recovered, Ended, Row
<1>2. IInv /\ [Next]_vars =>
        [\A id \in Stored :
            tasks[id].status = "cancel_requested" =>
                /\ tasks'[id].status # "pending"
                /\ tasks'[id].status # "running"]_vars
  BY <1>1
<1> QED
  BY <1>2, IInvIsInvariant, PTL DEF Spec, CancelSticks

\* A worker keeps its task for max_runtime, less a fraction of a millisecond.
THEOREM LeaseAlwaysHonoured == Spec => LeaseHonouredToTheMs
<1>1. ASSUME IInv, [Next]_vars, NEW id \in TaskIds, TakenFromWorker(id)
      PROVE  promised[id] < clock + TicksPerMs
  <2> DEFINE row == tasks[id]
  <2>1. RowStep(id)
    BY <1>1, NextIsRowStep DEF IInv, RowsGood
  <2>2. /\ row \in Row /\ row # Absent /\ row.status = "running"
        /\ row.lease = Ms(promised[id]) /\ row.result = "none"
    BY <1>1 DEF IInv, RowsGood, GoodRow, TakenFromWorker, Active, IsTerminal,
                Row, Results
  <2>3. \/ tasks'[id] = row
        \/ id \in LeasedWithExpiredLease
        \/ \E status \in {"succeeded", "failed", "cancelled", "manual_review"} :
           \E result \in {"output", "output_limit_exceeded", "reported", "cancelled"} :
              tasks'[id] = Ended(row, status, result)
        \/ tasks'[id] = [row EXCEPT !.status = "cancel_requested"]
    BY <2>1, <2>2
       DEF RowStep, RowUnchanged, RowSubmitted, RowStarted, RowRecovered,
           RowFinished, RowCancelled, RowCancelRequested, Holds
  <2>4. \/ tasks'[id].status = "pending"
        \/ tasks'[id].result = "attempt_limit_exhausted"
    BY <1>1 DEF TakenFromWorker
  <2>5. id \in LeasedWithExpiredLease
    <3> HIDE DEF row
    <3> QED
      BY <2>2, <2>3, <2>4 DEF Ended, Row
  <2>6. Ms(promised[id]) <= Ms(clock)
    BY <2>2, <2>5 DEF LeasedWithExpiredLease
  <2> QED
    BY <1>1, <2>6, MsLosesLessThanOne DEF IInv, RowsGood, ClockOK
<1>2. IInv /\ [Next]_vars =>
        [\A id \in TaskIds :
            TakenFromWorker(id) => promised[id] < clock + TicksPerMs]_vars
  BY <1>1
<1> QED
  BY <1>2, IInvIsInvariant, PTL DEF Spec, LeaseHonouredToTheMs
-----------------------------------------------------------------------------
(* The rows implement the ledger of tasks. *)

\* The ends the ledger allows, by the status of the task.
LEMMA LedgerOutcomes ==
    /\ DOMAIN Ledger!Outcomes = {"pending", "running", "cancel_requested"}
    /\ Ledger!Outcomes["pending"] = {"cancelled"}
    /\ Ledger!Outcomes["running"] = {"succeeded", "failed", "manual_review"}
    /\ Ledger!Outcomes["cancel_requested"]
         = {"succeeded", "failed", "cancelled", "manual_review"}
BY DEF Ledger!Outcomes, Ledger!Terminal

\* The fields of the entry of a row.
LEMMA EntryFields ==
    ASSUME NEW row
    PROVE  /\ EntryOf(row).key = row.key
           /\ EntryOf(row).max_attempts = row.max_attempts
           /\ EntryOf(row).attempts_started = row.attempts_started
           /\ EntryOf(row).status = row.status
           /\ EntryOf(row).result = row.result
BY DEF EntryOf

Closed(row, status, lease, result) ==
    [row EXCEPT !.status = status, !.lease = lease, !.result = result]

EntryEnded(entry, status, result) ==
    [entry EXCEPT !.status = status, !.result = result]

\* A row that changes its status, its result and its lease changes the status
\* and the result of its entry.
LEMMA EntryOfClosed ==
    ASSUME NEW row \in Row, NEW status \in Statuses,
           NEW lease \in Int \cup {NoLease}, NEW result \in Results
    PROVE  /\ Closed(row, status, lease, result) \in Row
           /\ EntryOf(Closed(row, status, lease, result))
                = EntryEnded(EntryOf(row), status, result)
<1> DEFINE closed == Closed(row, status, lease, result)
           entry == EntryOf(row)
           next == EntryOf(closed)
<1>1. /\ closed \in Row
      /\ closed.key = row.key /\ closed.max_attempts = row.max_attempts
      /\ closed.attempts_started = row.attempts_started
      /\ closed.status = status /\ closed.result = result
  BY DEF Row, Closed
<1>2. entry \in Entry
  BY DEF EntryOf, Entry, Row
<1> HIDE DEF closed
<1>3. next \in Entry
  BY <1>1 DEF EntryOf, Entry, Row
<1>4. /\ next.key = entry.key /\ next.max_attempts = entry.max_attempts
      /\ next.attempts_started = entry.attempts_started
      /\ next.status = status /\ next.result = result
  BY <1>1, EntryFields
<1> HIDE DEF entry, next
<1>5. next = EntryEnded(entry, status, result)
  BY <1>2, <1>3, <1>4 DEF Entry, EntryEnded
<1> QED
  BY <1>1, <1>5 DEF closed, entry, next

\* The entry of a recovered row.
LEMMA EntryOfRecovered ==
    ASSUME NEW row \in Row
    PROVE  /\ Recovered(row) \in Row
           /\ EntryOf(Recovered(row)) =
                IF row.status = "cancel_requested"
                THEN [EntryOf(row) EXCEPT !.status = "cancelled",
                                          !.result = "cancelled"]
                ELSE IF row.attempts_started < row.max_attempts
                THEN [EntryOf(row) EXCEPT !.status = "pending"]
                ELSE [EntryOf(row) EXCEPT !.status = "failed",
                                          !.result = "attempt_limit_exhausted"]
<1> DEFINE next == Recovered(row)
<1>1. /\ next.key = row.key /\ next.max_attempts = row.max_attempts
      /\ next.attempts_started = row.attempts_started
      /\ next.status = IF row.status = "cancel_requested" THEN "cancelled"
                       ELSE IF row.attempts_started < row.max_attempts
                       THEN "pending" ELSE "failed"
      /\ next.result = IF row.status = "cancel_requested" THEN "cancelled"
                       ELSE IF row.attempts_started < row.max_attempts
                       THEN row.result ELSE "attempt_limit_exhausted"
  BY DEF Row, Recovered
<1>2. next \in Row
  BY DEF Recovered, Row, Statuses, Results
<1> HIDE DEF next
<1>3. EntryOf(next) =
        IF row.status = "cancel_requested"
        THEN [EntryOf(row) EXCEPT !.status = "cancelled", !.result = "cancelled"]
        ELSE IF row.attempts_started < row.max_attempts
        THEN [EntryOf(row) EXCEPT !.status = "pending"]
        ELSE [EntryOf(row) EXCEPT !.status = "failed",
                                  !.result = "attempt_limit_exhausted"]
  BY <1>1 DEF EntryOf
<1> QED
  BY <1>2, <1>3 DEF next

\* The entries of the stored rows are entries, and so not Absent.
LEMMA EntriesOfRows ==
    ASSUME RowsGood
    PROVE  /\ \A row \in Row : EntryOf(row) \in Entry /\ EntryOf(row) # Absent
           /\ Ledger!Accepted = Stored
           /\ \A id \in Stored : tasks[id] \in Row /\ Entries[id] = EntryOf(tasks[id])
           /\ Ledger!Open = {id \in Stored : ~IsTerminal(tasks[id].status)}
<1>1. \A row \in Row : EntryOf(row) \in Entry /\ EntryOf(row) # Absent
  BY EntryAssumption DEF EntryOf, Entry, Row
<1>2. \A id \in Stored : /\ id \in TaskIds /\ tasks[id] \in Row
                         /\ Entries[id] = EntryOf(tasks[id])
  BY DEF RowsGood, GoodRow, Stored, Entries
<1>3. Ledger!Accepted = Stored
  <2>1. \A id \in TaskIds \ Stored : Entries[id] = Absent
    BY DEF Stored, Entries
  <2> QED
    BY <1>1, <1>2, <2>1 DEF Ledger!Accepted
<1>4. Ledger!Open = {id \in Stored : ~IsTerminal(tasks[id].status)}
  <2>1. ASSUME NEW id \in Stored
        PROVE  Entries[id].status \in DOMAIN Ledger!Outcomes
                   <=> ~IsTerminal(tasks[id].status)
    <3>1. Entries[id].status = tasks[id].status
      BY <1>2, EntryFields
    <3>2. tasks[id].status \in Statuses
      BY <1>2 DEF Row
    <3> QED
      BY <3>1, <3>2, LedgerOutcomes DEF Statuses, IsTerminal
  <2> QED
    BY <1>3, <2>1 DEF Ledger!Open
<1> QED
  BY <1>1, <1>2, <1>3, <1>4

\* A save of one row writes its entry and no other.
LEMMA SaveIsEntry ==
    ASSUME RowsGood, NEW id \in TaskIds, NEW row \in Row, Save(id, row)
    PROVE  Entries' = [Entries EXCEPT ![id] = EntryOf(row)]
BY AbsentAssumption DEF RowsGood, Shape, Save, Entries

\* Ending an open row is an end of its entry.
LEMMA EndIsLedgerStep ==
    ASSUME RowsGood, NEW id \in Stored, NEW lease \in Int \cup {NoLease},
           NEW status, NEW result \in Results \ {"none"},
           status \in Ledger!Outcomes[tasks[id].status],
           ~IsTerminal(tasks[id].status),
           Save(id, Closed(tasks[id], status, lease, result))
    PROVE  Ledger!Next
<1> DEFINE row == tasks[id]
           next == Closed(row, status, lease, result)
<1>1. /\ id \in TaskIds /\ row \in Row /\ Entries[id] = EntryOf(row)
      /\ id \in Ledger!Open
  BY EntriesOfRows DEF Stored
<1>2. status \in Statuses /\ status \in Ledger!Outcomes[row.status]
  <2>1. row.status \in {"pending", "running", "cancel_requested"}
    BY <1>1 DEF Row, Statuses, IsTerminal
  <2> QED
    BY <2>1, LedgerOutcomes DEF Statuses
<1>3. /\ next \in Row
      /\ EntryOf(next) = EntryEnded(Entries[id], status, result)
  BY <1>1, <1>2, EntryOfClosed
<1>4. Save(id, next)
  OBVIOUS
<1> HIDE DEF row, next
<1>5. Entries' = [Entries EXCEPT ![id] = EntryOf(next)]
  BY <1>1, <1>3, <1>4, SaveIsEntry
<1>6. Entries'[id] = EntryOf(next)
  BY <1>1, <1>5 DEF Entries
<1>7. Entries[id].status = row.status
  BY <1>1, EntryFields
<1>8. Ledger!Ended(Entries[id], Entries'[id])
  BY <1>2, <1>3, <1>6, <1>7 DEF Ledger!Ended, EntryEnded
<1> QED
  BY <1>1, <1>5, <1>6, <1>8 DEF Ledger!End, Ledger!Enter, Ledger!Next

\* Recovery of any expired rows loses their attempts.
LEMMA RecoverIsLedgerStep ==
    ASSUME RowsGood, NEW ids \in SUBSET LeasedWithExpiredLease, RecoverRows(ids)
    PROVE  [Ledger!Next]_Entries
<1>1. ids \subseteq Stored /\ ids \subseteq TaskIds
      /\ \A id \in ids : tasks[id].status \in {"running", "cancel_requested"}
  BY DEF LeasedWithExpiredLease, ActiveIds, Stored, Active
<1>2. \A id \in TaskIds \ ids : Entries'[id] = Entries[id]
  BY DEF RecoverRows, Entries
<1>3. Entries' = [id \in TaskIds |-> Entries'[id]] /\ Entries = [id \in TaskIds |-> Entries[id]]
  BY DEF Entries
<1>4. ASSUME NEW id \in ids
      PROVE  /\ Entries[id].status # "pending"
             /\ \/ Ledger!Requeued(Entries[id], Entries'[id])
                \/ Ledger!Ended(Entries[id], Entries'[id])
  <2> DEFINE row == tasks[id]
  <2>1. /\ row \in Row /\ Entries[id] = EntryOf(row)
        /\ row.status \in {"running", "cancel_requested"}
    BY <1>1, EntriesOfRows
  <2>2. Entries'[id] = EntryOf(Recovered(row))
    <3>1. tasks'[id] = Recovered(row) /\ Recovered(row) # Absent
      BY <1>1, <2>1, EntryOfRecovered, AbsentAssumption DEF RecoverRows
    <3> QED
      BY <1>1, <3>1 DEF Entries
  <2>3. /\ Entries[id].status = row.status
        /\ Entries[id].attempts_started = row.attempts_started
        /\ Entries[id].max_attempts = row.max_attempts
    BY <2>1, EntryFields
  <2> HIDE DEF row
  <2>4. CASE row.status = "running" /\ row.attempts_started < row.max_attempts
    <3>1. Entries'[id] = [Entries[id] EXCEPT !.status = "pending"]
      BY <2>1, <2>2, <2>4, EntryOfRecovered
    <3> QED
      BY <2>3, <2>4, <3>1 DEF Ledger!Requeued
  <2>5. CASE row.status = "running" /\ ~(row.attempts_started < row.max_attempts)
    <3>1. Entries'[id] = [Entries[id] EXCEPT !.status = "failed",
                                             !.result = "attempt_limit_exhausted"]
      BY <2>1, <2>2, <2>5, EntryOfRecovered
    <3> QED
      BY <2>3, <2>5, <3>1, LedgerOutcomes DEF Ledger!Ended, Results
  <2>6. CASE row.status = "cancel_requested"
    <3>1. Entries'[id] = [Entries[id] EXCEPT !.status = "cancelled",
                                             !.result = "cancelled"]
      BY <2>1, <2>2, <2>6, EntryOfRecovered
    <3> QED
      BY <2>3, <2>6, <3>1, LedgerOutcomes DEF Ledger!Ended, Results
  <2> QED
    BY <2>1, <2>3, <2>4, <2>5, <2>6
<1>5. CASE ids = {}
  BY <1>2, <1>3, <1>5
<1>6. CASE ids # {}
  <2>1. ids \in (SUBSET Ledger!Open) \ {{}}
    BY <1>1, <1>6, EntriesOfRows DEF IsTerminal
  <2>2. Ledger!Lose
    BY <1>2, <1>3, <1>4, <2>1 DEF Ledger!Lose
  <2> QED
    BY <2>2 DEF Ledger!Next
<1> QED
  BY <1>5, <1>6

\* A submission is an acceptance.
LEMMA SubmitIsLedgerStep ==
    ASSUME RowsGood, NEW d \in Definitions, Submit(d)
    PROVE  Ledger!Next
<1> DEFINE Limits == {e.max_attempts : e \in Definitions} \ {0}
<1>1. /\ d.id \in TaskIds /\ d.key \in Keys
      /\ d.max_attempts \in Limits
  BY DefinitionFields DEF Submit, ValidDefinition
<1>2. NewRow(d) \in Row
  BY NewRowGood DEF Submit, GoodRow
<1>3. Entries' = [Entries EXCEPT ![d.id] = EntryOf(NewRow(d))]
  BY <1>1, <1>2, SaveIsEntry DEF Submit
<1>4. EntryOf(NewRow(d))
        = [key |-> d.key, max_attempts |-> d.max_attempts, attempts_started |-> 0,
           status |-> "pending", result |-> "none"]
  BY DEF EntryOf, NewRow
<1>5. /\ d.id \notin Ledger!Accepted
      /\ \A other \in Ledger!Accepted : Entries[other].key # d.key
  <2>1. \A other \in Stored : Entries[other].key = tasks[other].key
    BY EntriesOfRows, EntryFields
  <2> QED
    BY <2>1, EntriesOfRows DEF Submit, Duplicate
<1>6. Ledger!Accept(d.id, d.key, d.max_attempts)
  BY <1>3, <1>4, <1>5 DEF Ledger!Accept, Ledger!Enter
<1> QED
  BY <1>1, <1>6 DEF Ledger!Next

\* A start is an attempt.
LEMMA StartIsLedgerStep ==
    ASSUME RowsGood, ClockOK, NEW id \in TaskIds, Start(id)
    PROVE  Ledger!Next
<1> DEFINE row == tasks[id]
           expires == clock + row.max_runtime * TicksPerMs
           next == Started(row, expires)
<1>1. /\ id \in Stored /\ row \in Row /\ Entries[id] = EntryOf(row)
      /\ row.status = "pending" /\ row.attempts_started < row.max_attempts
      /\ Save(id, next)
  BY EntriesOfRows DEF Start, Holds, Stored, Started
<1>2. expires \in Int
  <2>1. row.max_runtime * TicksPerMs \in Int
    BY <1>1, TicksAssumption DEF Row
  <2> QED
    BY <2>1 DEF ClockOK
<1> HIDE DEF expires
<1>3. /\ next \in Row
      /\ next.key = row.key /\ next.max_attempts = row.max_attempts
      /\ next.attempts_started = row.attempts_started + 1
      /\ next.status = "running" /\ next.result = row.result
  <2>1. next \in Row
    BY <1>1, <1>2, StartedGood DEF RowsGood, GoodRow, Stored
  <2> QED
    BY <1>1, <2>1 DEF Started, Row
<1> HIDE DEF next
<1>4. id \in Ledger!Open
  BY <1>1, EntriesOfRows DEF IsTerminal
<1>5. EntryOf(next) = [Entries[id] EXCEPT !.status = "running",
                                          !.attempts_started = @ + 1]
  <2> DEFINE entry == Entries[id]
             after == EntryOf(next)
  <2>1. entry \in Entry /\ after \in Entry
    BY <1>1, <1>3, EntriesOfRows
  <2>2. /\ after.key = entry.key /\ after.max_attempts = entry.max_attempts
        /\ after.attempts_started = entry.attempts_started + 1
        /\ after.status = "running" /\ after.result = entry.result
    BY <1>1, <1>3, EntryFields
  <2> HIDE DEF entry, after
  <2>3. after = [entry EXCEPT !.status = "running", !.attempts_started = @ + 1]
    BY <2>1, <2>2 DEF Entry
  <2> QED
    BY <2>3 DEF entry, after
<1>6. Entries' = [Entries EXCEPT ![id] = EntryOf(next)]
  BY <1>1, <1>3, SaveIsEntry
<1>7. /\ Entries[id].status = "pending"
      /\ Entries[id].attempts_started < Entries[id].max_attempts
  BY <1>1, EntryFields
<1>8. Ledger!Attempt(id)
  BY <1>5, <1>6, <1>7 DEF Ledger!Attempt, Ledger!Enter
<1> QED
  BY <1>4, <1>8 DEF Ledger!Next

\* A request for cancellation ends a pending task, is recorded for a running
\* one, and changes nothing when it was already recorded.
LEMMA RequestCancelIsLedgerStep ==
    ASSUME RowsGood, NEW id \in TaskIds, RequestCancel(id)
    PROVE  [Ledger!Next]_Entries
<1> DEFINE row == tasks[id]
<1>1. /\ id \in Stored /\ row \in Row /\ Entries[id] = EntryOf(row)
      /\ Entries[id].status = row.status
      /\ row.status \in {"pending", "running", "cancel_requested"}
  BY EntriesOfRows, EntryFields DEF RequestCancel, Holds, Stored
<1>2. id \in Ledger!Open
  BY <1>1, EntriesOfRows DEF IsTerminal
<1>3. CASE row.status = "pending"
  <2>1. Save(id, Closed(row, "cancelled", row.lease, "cancelled"))
    <3>1. Save(id, [row EXCEPT !.status = "cancelled", !.result = "cancelled"])
      BY <1>3 DEF RequestCancel
    <3>2. [row EXCEPT !.status = "cancelled", !.result = "cancelled"]
            = Closed(row, "cancelled", row.lease, "cancelled")
      BY <1>1 DEF Closed, Row
    <3> QED
      BY <3>1, <3>2
  <2>2. row.lease \in Int \cup {NoLease}
    BY <1>1 DEF Row
  <2> QED
    BY <1>1, <1>3, <2>1, <2>2, LedgerOutcomes, EndIsLedgerStep
       DEF Results, IsTerminal
<1>4. CASE row.status # "pending"
  <2> DEFINE next == [row EXCEPT !.status = "cancel_requested"]
  <2>1. Save(id, next)
    BY <1>4 DEF RequestCancel
  <2>2. /\ next \in Row
        /\ next.key = row.key /\ next.max_attempts = row.max_attempts
        /\ next.attempts_started = row.attempts_started
        /\ next.status = "cancel_requested" /\ next.result = row.result
    BY <1>1 DEF Row, Statuses
  <2> HIDE DEF next
  <2>3. Entries' = [Entries EXCEPT ![id] = EntryOf(next)]
    BY <1>1, <2>1, <2>2, SaveIsEntry
  <2>4. EntryOf(next) = [Entries[id] EXCEPT !.status = "cancel_requested"]
    <3> DEFINE entry == Entries[id]
               after == EntryOf(next)
    <3>1. entry \in Entry /\ after \in Entry
      BY <1>1, <2>2, EntriesOfRows
    <3>2. /\ after.key = entry.key /\ after.max_attempts = entry.max_attempts
          /\ after.attempts_started = entry.attempts_started
          /\ after.status = "cancel_requested" /\ after.result = entry.result
      BY <1>1, <2>2, EntryFields
    <3> HIDE DEF entry, after
    <3>3. after = [entry EXCEPT !.status = "cancel_requested"]
      BY <3>1, <3>2 DEF Entry
    <3> QED
      BY <3>3 DEF entry, after
  <2>5. CASE row.status = "running"
    <3>1. Ledger!AskToCancel(id)
      BY <1>1, <2>3, <2>4, <2>5 DEF Ledger!AskToCancel, Ledger!Enter
    <3> QED
      BY <1>2, <3>1 DEF Ledger!Next
  <2>6. CASE row.status = "cancel_requested"
    <3>1. EntryOf(next) = Entries[id]
      BY <1>1, <2>4, <2>6, EntriesOfRows DEF Entry
    <3>2. Entries' = Entries
      BY <1>1, <2>3, <3>1 DEF Entries
    <3> QED
      BY <3>2
  <2> QED
    BY <1>1, <1>4, <2>5, <2>6
<1> QED
  BY <1>3, <1>4

\* Every step of the runtime is a step of the ledger, or leaves it alone.
LEMMA NextIsLedgerStep ==
    ASSUME RowsGood, ClockOK, [Next]_vars
    PROVE  [Ledger!Next]_Entries
<1>1. ASSUME UNCHANGED tasks
      PROVE  [Ledger!Next]_Entries
  BY <1>1 DEF Entries
<1>2. CASE Recover
  BY <1>2, RecoverIsLedgerStep DEF Recover
<1>3. CASE RecoverExpired
  BY <1>3, RecoverIsLedgerStep DEF RecoverExpired
<1>4. CASE \E d \in Definitions : Submit(d)
  BY <1>4, SubmitIsLedgerStep
<1>5. ASSUME NEW id \in TaskIds, Start(id)
      PROVE  [Ledger!Next]_Entries
  BY <1>5, StartIsLedgerStep
<1>6. ASSUME NEW id \in TaskIds,
             NEW status \in {"succeeded", "failed", "manual_review"},
             NEW result \in {"output", "output_limit_exceeded", "reported"},
             Finish(id, status, result)
      PROVE  [Ledger!Next]_Entries
  <2>1. /\ id \in Stored
        /\ tasks[id].status \in {"running", "cancel_requested"}
        /\ Save(id, Closed(tasks[id], status, NoLease, result))
    BY <1>6 DEF Finish, Active, Stored, Closed
  <2>2. /\ status \in Ledger!Outcomes[tasks[id].status]
        /\ ~IsTerminal(tasks[id].status) /\ result \in Results \ {"none"}
    BY <2>1, LedgerOutcomes DEF IsTerminal, Results
  <2> QED
    BY <2>1, <2>2, EndIsLedgerStep
<1>7. ASSUME NEW id \in TaskIds, RequestCancel(id)
      PROVE  [Ledger!Next]_Entries
  BY <1>7, RequestCancelIsLedgerStep
<1>8. ASSUME NEW id \in TaskIds, MarkCancelled(id)
      PROVE  [Ledger!Next]_Entries
  <2>1. /\ id \in Stored /\ tasks[id].status = "cancel_requested"
        /\ Save(id, Closed(tasks[id], "cancelled", NoLease, "cancelled"))
    BY <1>8 DEF MarkCancelled, Holds, Stored, Closed
  <2>2. /\ "cancelled" \in Ledger!Outcomes[tasks[id].status]
        /\ ~IsTerminal(tasks[id].status) /\ "cancelled" \in Results \ {"none"}
    BY <2>1, LedgerOutcomes DEF IsTerminal, Results
  <2> QED
    BY <2>1, <2>2, EndIsLedgerStep
<1> QED
  BY <1>1, <1>2, <1>3, <1>4, <1>5, <1>6, <1>7, <1>8
     DEF Next, vars, Succeed, Fail, RequireManualReview, RequestShutdown,
         TryMarkSafe, Crash, Tick, Rollback

\* The rows of the runtime implement the ledger of tasks: through workers that
\* answer late, recovery that stops halfway, cancellations and restarts, a key
\* is accepted once, attempts stay within their limit and an end stands.
THEOREM RuntimeImplementsLedger == Spec => ImplementsLedger
<1>1. Init => Ledger!Init
  BY DEF Init, Ledger!Init, Entries
<1>2. IInv /\ [Next]_vars => [Ledger!Next]_Entries
  BY NextIsLedgerStep DEF IInv
<1> QED
  BY <1>1, <1>2, IInvIsInvariant, PTL DEF Spec, ImplementsLedger, Ledger!Spec
-----------------------------------------------------------------------------
(* The owner sleeps until next_recovery_at(): why it neither sleeps past a    *)
(* lease that has run out nor wakes again and again for nothing.              *)

\* A set of natural numbers that is not empty has a least element.
LEMMA LeastExists ==
    ASSUME NEW S \in SUBSET Nat, S # {}
    PROVE  \E x \in S : \A y \in S : x <= y
<1>1. PICK x \in S : \A y \in S : ~ (<<y, x>> \in OpToRel(<, Nat))
  BY NatLessThanWellFounded, WFMin
<1>2. ASSUME NEW y \in S PROVE x <= y
  <2>1. x \in Nat /\ y \in Nat
    OBVIOUS
  <2>2. ~ (y < x)
    BY <1>1, <2>1 DEF OpToRel
  <2> QED
    BY <2>1, <2>2
<1> QED
  BY <1>2

\* The stored form of a time after the epoch is one.
LEMMA MsIsNat ==
    ASSUME NEW t \in Nat
    PROVE  Ms(t) \in Nat
<1>1. \A a \in Nat, b \in Nat \ {0} : a \div b \in Nat
  BY SMT
<1> QED
  BY <1>1, TicksAssumption DEF Ms

\* The leases that are stored are times after the epoch.
PromisesCount == \A id \in TaskIds : promised[id] \in Nat

\* Any step computes such leases only.
LEMMA NextKeepsPromisesCount ==
    ASSUME IInv, PromisesCount, [Next]_vars
    PROVE  PromisesCount'
<1> SUFFICES ASSUME NEW id \in TaskIds PROVE promised'[id] \in Nat
  BY DEF PromisesCount
<1>1. RowStep(id) /\ promised[id] \in Nat
  BY NextIsRowStep DEF IInv, RowsGood, PromisesCount
<1>2. CASE RowStarted(id)
  <2> DEFINE runtime == tasks[id].max_runtime
  <2>1. runtime \in Nat /\ clock \in Nat /\ TicksPerMs \in Nat
    BY <1>2, TicksAssumption
       DEF RowStarted, Holds, IInv, RowsGood, GoodRow, Row, ClockOK
  <2>2. promised'[id] = clock + runtime * TicksPerMs
    BY <1>2 DEF RowStarted
  <2> HIDE DEF runtime
  <2>3. runtime * TicksPerMs \in Nat
    BY <2>1
  <2> QED
    BY <2>1, <2>2, <2>3
<1>3. CASE ~RowStarted(id)
  BY <1>1, <1>3 DEF RowStep, RowUnchanged, RowSubmitted, RowCancelRequested
<1> QED
  BY <1>2, <1>3

\* An active row holds a natural number, and the earliest of them is found.
LEMMA EarliestLease ==
    ASSUME IInv, PromisesCount
    PROVE  /\ \A id \in ActiveIds : tasks[id].lease \in Nat
           /\ ActiveIds = {} => NextLeaseExpiry = NoLease
           /\ ActiveIds # {} =>
                  /\ \E id \in ActiveIds : NextLeaseExpiry = tasks[id].lease
                  /\ \A id \in ActiveIds : NextLeaseExpiry <= tasks[id].lease
<1> DEFINE leases == {tasks[id].lease : id \in ActiveIds}
<1>1. ASSUME NEW id \in ActiveIds PROVE tasks[id].lease \in Nat
  <2>1. tasks[id].lease = Ms(promised[id]) /\ promised[id] \in Nat
    BY DEF IInv, RowsGood, GoodRow, PromisesCount, ActiveIds, Stored
  <2> QED
    BY <2>1, MsIsNat
<1>2. ActiveIds = {} => NextLeaseExpiry = NoLease
  BY DEF NextLeaseExpiry
<1>3. ASSUME ActiveIds # {}
      PROVE  /\ NextLeaseExpiry \in leases
             /\ \A id \in ActiveIds : NextLeaseExpiry <= tasks[id].lease
  <2>1. leases \in SUBSET Nat /\ leases # {}
    BY <1>1, <1>3
  <2>2. \E t \in leases : \A id \in ActiveIds : t <= tasks[id].lease
    <3>1. PICK t \in leases : \A u \in leases : t <= u
      BY <2>1, LeastExists
    <3> QED
      BY <3>1
  <2>3. NextLeaseExpiry =
          CHOOSE t \in leases : \A id \in ActiveIds : t <= tasks[id].lease
    BY <1>3 DEF NextLeaseExpiry
  <2> HIDE DEF leases
  <2> QED
    BY <2>2, <2>3
<1> QED
  BY <1>1, <1>2, <1>3

\* A recovery that runs to its end takes all that was due, so that the next
\* next_recovery_at() lies after the clock: the owner does not spin.
RecoveryLeavesNoneDue ==
    [][Recover \/ RecoverAtNextRecovery =>
          /\ \A id \in LeasedWithExpiredLease : ~Active(tasks'[id].status)
          /\ NextLeaseExpiry' = NoLease \/ NextLeaseExpiry' > Ms(clock')]_vars

\* The strengthened invariant of these two.
LEMMA PromisesAlwaysCount == Spec => [](IInv /\ PromisesCount)
<1>1. Init => PromisesCount
  <2>1. Init => promised = [id \in TaskIds |-> 0]
    BY DEF Init
  <2>2. \A id \in TaskIds : [i \in TaskIds |-> 0][id] \in Nat
    OBVIOUS
  <2> QED
    BY <2>1, <2>2 DEF PromisesCount
<1>2. IInv /\ PromisesCount /\ [Next]_vars => PromisesCount'
  BY NextKeepsPromisesCount
<1> QED
  BY <1>1, <1>2, IInvIsInvariant, PTL DEF Spec

\* next_recovery_at() is due exactly when there is something to recover.
THEOREM NextRecoveryIsExact == Spec => []NextRecoveryExact
<1>1. IInv /\ PromisesCount => NextRecoveryExact
  <2> SUFFICES ASSUME IInv, PromisesCount PROVE NextRecoveryExact
    OBVIOUS
  <2>1. Ms(clock) \in Int
    BY MsIsInt DEF IInv, ClockOK
  <2>2. CASE ActiveIds = {}
    BY <2>2, EarliestLease DEF NextRecoveryExact, LeasedWithExpiredLease
  <2>3. CASE ActiveIds # {}
    <3>1. PICK first \in ActiveIds : NextLeaseExpiry = tasks[first].lease
      BY <2>3, EarliestLease
    <3>2. /\ NextLeaseExpiry \in Nat /\ NextLeaseExpiry # NoLease
          /\ \A id \in ActiveIds : /\ tasks[id].lease \in Nat
                                   /\ NextLeaseExpiry <= tasks[id].lease
      BY <2>3, <3>1, EarliestLease, NoLeaseAssumption
    <3> QED
      BY <2>1, <3>1, <3>2 DEF NextRecoveryExact, LeasedWithExpiredLease
  <2> QED
    BY <2>2, <2>3
<1> QED
  BY <1>1, PromisesAlwaysCount, PTL

\* A recovery that runs to its end leaves nothing that is due.
THEOREM RecoveryNeverSpins == Spec => RecoveryLeavesNoneDue
<1>1. ASSUME IInv, PromisesCount, IInv', PromisesCount',
             Recover \/ RecoverAtNextRecovery
      PROVE  /\ \A id \in LeasedWithExpiredLease : ~Active(tasks'[id].status)
             /\ NextLeaseExpiry' = NoLease \/ NextLeaseExpiry' > Ms(clock')
  <2>1. RecoverRows(LeasedWithExpiredLease) /\ clock' = clock
    BY <1>1 DEF Recover, RecoverAtNextRecovery
  <2>2. ASSUME NEW id \in LeasedWithExpiredLease PROVE ~Active(tasks'[id].status)
    <3>1. id \in TaskIds /\ tasks[id] \in Row
      BY <1>1 DEF LeasedWithExpiredLease, ActiveIds, Stored, IInv, RowsGood, GoodRow
    <3>2. tasks'[id] = Recovered(tasks[id])
      BY <2>1, <3>1 DEF RecoverRows
    <3> QED
      BY <3>1, <3>2 DEF Recovered, Active, Row
  <2>3. ASSUME NEW id \in ActiveIds'
        PROVE  tasks'[id].lease > Ms(clock')
    <3>1. id \in TaskIds /\ id \notin LeasedWithExpiredLease
          /\ tasks'[id] # Absent /\ Active(tasks'[id].status)
      BY <2>2, <2>3 DEF ActiveIds, Stored
    <3>2. tasks'[id] = tasks[id]
      BY <2>1, <3>1 DEF RecoverRows
    <3>3. id \in ActiveIds
      BY <3>1, <3>2 DEF ActiveIds, Stored
    <3>4. tasks[id].lease \in Nat
      BY <1>1, <3>3, EarliestLease
    <3>5. Ms(clock) \in Int
      BY <1>1, MsIsInt DEF IInv, ClockOK
    <3>6. ~(tasks[id].lease <= Ms(clock))
      BY <3>1, <3>3 DEF LeasedWithExpiredLease
    <3>7. Ms(clock') = Ms(clock)
      BY <2>1
    <3> QED
      BY <3>2, <3>4, <3>5, <3>6, <3>7
  <2>4. (IInv /\ PromisesCount =>
            /\ ActiveIds = {} => NextLeaseExpiry = NoLease
            /\ ActiveIds # {} =>
                   \E id \in ActiveIds : NextLeaseExpiry = tasks[id].lease)'
    BY EarliestLease, PTL
  <2> QED
    BY <1>1, <2>2, <2>3, <2>4
<1>2. IInv /\ PromisesCount /\ IInv' /\ PromisesCount' =>
        [Recover \/ RecoverAtNextRecovery =>
            /\ \A id \in LeasedWithExpiredLease : ~Active(tasks'[id].status)
            /\ NextLeaseExpiry' = NoLease \/ NextLeaseExpiry' > Ms(clock')]_vars
  BY <1>1
<1> QED
  BY <1>2, PromisesAlwaysCount, PTL DEF RecoveryLeavesNoneDue
=============================================================================
