--------------------------- MODULE WakeRuntimeProofs ---------------------------
(* Theorems about WakeRuntime for every set of actions, keys and requests.    *)
EXTENDS WakeRuntime, TLAPS

(* What one step may do to one row; each action is opened once, in lemma      *)
(* NextIsRowStep.                                                             *)

NewRow(request) ==
    [key |-> request.key, critical |-> request.critical,
     effect_result |-> "none", status |-> "pending", lease |-> NoLease]

Written(row, status, lease, effect) ==
    [row EXCEPT !.status = status, !.lease = lease, !.effect_result = effect]

RowUnchanged(id) == actions'[id] = actions[id]

RowSubmitted(id) ==
    /\ \A o \in ActionIds \ {id} : actions'[o] = actions[o]
    /\ crossings' = crossings
    /\ \E request \in Requests :
        /\ request.id = id
        /\ \A o \in Stored : actions[o].key # request.key
        /\ actions'[id] = NewRow(request)

RowStarted(id) ==
    /\ actions[id] # Absent
    /\ state = "running"
    /\ actions[id].status \in {"pending", "retry_wait"}
    /\ \E lease \in Int :
        actions'[id] = [actions[id] EXCEPT !.status = "running", !.lease = lease]

\* transition() and lease recovery: the effect stays as it is.
RowMoved(id) ==
    /\ actions[id] # Absent
    /\ \E to \in Statuses :
        /\ to = "running" => "running" \in Targets
        /\ CanTransition(actions[id].status, to)
        /\ EffectAllows(actions[id].effect_result, to)
        /\ actions'[id] = [actions[id] EXCEPT
                             !.status = to,
                             !.lease = LeaseAfter(actions[id].lease, to)]

RowMarked(id) ==
    /\ id \in Running
    /\ actions[id].effect_result = "none"
    /\ actions'[id] = [actions[id] EXCEPT !.effect_result = "unknown"]

RowResolved(id) ==
    /\ id \in Running
    /\ \/ /\ actions[id].effect_result = "unknown"
          /\ actions'[id] = Written(actions[id], "succeeded", NoLease, "confirmed")
       \/ /\ actions[id].effect_result # "confirmed"
          /\ actions'[id] = Written(actions[id], "manual_review", NoLease, "unknown")

RowStep(id) ==
    \/ RowUnchanged(id)
    \/ RowSubmitted(id)
    \/ RowStarted(id)
    \/ RowMoved(id)
    \/ RowMarked(id)
    \/ RowResolved(id)

\* The history: it changes only with the marker of the one row of that key.
Crossed ==
    \/ crossings' = crossings
    \/ \E id \in ActionIds :
        /\ RowMarked(id)
        /\ \A o \in ActionIds \ {id} : actions'[o] = actions[o]
        /\ crossings' = [crossings EXCEPT ![actions[id].key] = @ + 1]

ClockOK == clock \in Nat /\ rollbacks \in Nat /\ state \in States

\* The table stays a table: one entry per action id.
Shape ==
    DOMAIN actions = ActionIds /\ actions = [id \in ActionIds |-> actions[id]]

\* Requests are records of the declared shape.
LEMMA RequestFields ==
    ASSUME NEW request \in Requests
    PROVE  /\ request.id \in ActionIds /\ request.key \in Keys
           /\ request.critical \in BOOLEAN
BY RequestsAssumption DEF Request

\* Lease recovery moves a running row where transition() could have moved it.
LEMMA RecoverIsRowStep ==
    ASSUME TypeOK, NEW ids \in SUBSET RunningWithExpiredLease, RecoverRows(ids)
    PROVE  \A id \in ActionIds : RowStep(id)
<1> SUFFICES ASSUME NEW id \in ids
             PROVE  RowMoved(id)
  BY DEF RecoverRows, RowStep, RowUnchanged
<1> DEFINE row == actions[id]
           to == RecoveredStatus(row.effect_result)
<1>1. id \in ActionIds /\ row # Absent /\ row.status = "running" /\ row \in Row
  BY DEF RunningWithExpiredLease, Running, Stored, TypeOK
<1>2. row.effect_result \in Effects
  BY <1>1 DEF Row
<1>3. /\ to \in Statuses /\ to # "running"
      /\ CanTransition(row.status, to)
      /\ EffectAllows(row.effect_result, to)
  BY <1>1, <1>2
     DEF RecoveredStatus, Effects, Statuses, CanTransition, EffectAllows
<1>4. actions'[id] = [row EXCEPT !.lease = NoLease, !.status = to]
  BY <1>1 DEF RecoverRows
<1> HIDE DEF to, row
<1>5. [row EXCEPT !.lease = NoLease, !.status = to]
        = [row EXCEPT !.status = to, !.lease = LeaseAfter(row.lease, to)]
  BY <1>1, <1>3 DEF LeaseAfter, Row
<1> QED
  BY <1>1, <1>3, <1>4, <1>5 DEF RowMoved, row

\* Every step is a RowStep of every action, and records effects as Crossed says.
LEMMA NextIsRowStep ==
    ASSUME TypeOK, [Next]_vars
    PROVE  Shape' /\ Crossed /\ \A id \in ActionIds : RowStep(id)
<1> DEFINE Goal == Shape' /\ Crossed /\ \A id \in ActionIds : RowStep(id)
<1> SUFFICES Goal
  OBVIOUS
<1>0. Shape
  BY DEF TypeOK, Shape
<1> USE DEF Shape
<1>1. CASE Recover
  <2>1. Shape'
    BY <1>1 DEF Recover, RecoverRows
  <2> QED
    BY <1>1, <2>1, RecoverIsRowStep DEF Recover, Crossed
<1>2. CASE RecoverInterrupted
  <2>1. Shape'
    BY <1>2 DEF RecoverInterrupted, RecoverRows
  <2> QED
    BY <1>2, <2>1, RecoverIsRowStep DEF RecoverInterrupted, Crossed
<1>3. ASSUME NEW request \in Requests, Submit(request) PROVE Goal
  BY <1>0, <1>3, RequestFields
     DEF Submit, Save, Duplicate, Stored, RowStep, RowUnchanged, RowSubmitted,
         NewRow, Crossed
<1>4. ASSUME NEW i \in ActionIds, NEW duration \in Durations, Start(i, duration)
      PROVE  Goal
  <2>1. clock + duration \in Int
    BY DurationsAssumption DEF TypeOK
  <2>2. RowStarted(i)
    BY <1>0, <1>4, <2>1 DEF Start, Save, CanTransition, RowStarted
  <2>3. \A o \in ActionIds \ {i} : RowUnchanged(o)
    BY <1>0, <1>4 DEF Start, Save, RowUnchanged
  <2> QED
    BY <1>0, <1>4, <2>2, <2>3 DEF Start, Save, RowStep, Crossed
<1>5. ASSUME NEW i \in ActionIds, NEW target \in Targets, Transition(i, target)
      PROVE  Goal
  BY <1>0, <1>5, TargetsAssumption
     DEF Transition, Save, RowStep, RowUnchanged, RowMoved, Crossed
<1>6. ASSUME NEW i \in ActionIds, RecordEffectStarted(i) PROVE Goal
  <2>1. RowMarked(i) /\ \A o \in ActionIds \ {i} : RowUnchanged(o)
    BY <1>0, <1>6 DEF RecordEffectStarted, Save, RowUnchanged, RowMarked
  <2> QED
    BY <1>0, <1>6, <2>1 DEF RecordEffectStarted, Save, RowStep, RowUnchanged, Crossed
<1>7. ASSUME NEW i \in ActionIds, RecordConfirmedResult(i) PROVE Goal
  <2>1. RowResolved(i) /\ \A o \in ActionIds \ {i} : RowUnchanged(o)
    BY <1>0, <1>7
       DEF RecordConfirmedResult, Save, RowUnchanged, RowResolved, Written,
           Running, Stored, TypeOK, Row
  <2> QED
    BY <1>0, <1>7, <2>1 DEF RecordConfirmedResult, Save, RowStep, Crossed
<1>8. ASSUME NEW i \in ActionIds, RecordUnknownResult(i) PROVE Goal
  <2>1. RowResolved(i) /\ \A o \in ActionIds \ {i} : RowUnchanged(o)
    BY <1>0, <1>8
       DEF RecordUnknownResult, Save, RowUnchanged, RowResolved, Written,
           Running, Stored, TypeOK, Row
  <2> QED
    BY <1>0, <1>8, <2>1 DEF RecordUnknownResult, Save, RowStep, Crossed
<1>9. ASSUME UNCHANGED <<actions, crossings>> PROVE Goal
  BY <1>0, <1>9 DEF RowStep, RowUnchanged, Crossed
<1> QED
  <2> HIDE DEF Goal
  <2> QED
    BY <1>1, <1>2, <1>3, <1>4, <1>5, <1>6, <1>7, <1>8, <1>9
       DEF Next, vars, RequestShutdown, TryMarkSafe, Crash, Tick, Rollback
-----------------------------------------------------------------------------
(* Types. *)

\* A submitted row has its type.
LEMMA NewRowTyped ==
    ASSUME NEW request \in Requests
    PROVE  NewRow(request) \in Row
BY RequestFields DEF NewRow, Row, Statuses, Effects

\* What is written over a row of its type has its type.
LEMMA WrittenTyped ==
    ASSUME NEW row \in Row
    PROVE  /\ \A lease \in Int :
                [row EXCEPT !.status = "running", !.lease = lease] \in Row
           /\ \A to \in Statuses :
                CanTransition(row.status, to) =>
                  [row EXCEPT !.status = to,
                              !.lease = LeaseAfter(row.lease, to)] \in Row
           /\ row.status = "running" =>
                [row EXCEPT !.effect_result = "unknown"] \in Row
           /\ Written(row, "succeeded", NoLease, "confirmed") \in Row
           /\ Written(row, "manual_review", NoLease, "unknown") \in Row
<1>1. row.lease \in Int \cup {NoLease} /\ row.status \in Statuses
  BY DEF Row, Statuses
<1>2. ASSUME NEW lease \in Int
      PROVE  [row EXCEPT !.status = "running", !.lease = lease] \in Row
  BY DEF Row
<1>3. ASSUME NEW to \in Statuses, CanTransition(row.status, to)
      PROVE  [row EXCEPT !.status = to,
                         !.lease = LeaseAfter(row.lease, to)] \in Row
  <2>1. CASE to = "running"
    BY <1>1, <2>1 DEF Row, LeaseAfter
  <2>2. CASE to # "running"
    BY <2>2 DEF Row, LeaseAfter, Statuses
  <2> QED
    BY <2>1, <2>2
<1>4. ASSUME row.status = "running"
      PROVE  [row EXCEPT !.effect_result = "unknown"] \in Row
  BY <1>4 DEF Row, Effects
<1>5. /\ Written(row, "succeeded", NoLease, "confirmed") \in Row
      /\ Written(row, "manual_review", NoLease, "unknown") \in Row
  BY DEF Row, Written, Effects, Statuses
<1> QED
  BY <1>2, <1>3, <1>4, <1>5

\* The next value of a stored row that is not overwritten by a submission: it
\* is a row of the same key whose effect, once started, stays on record.
LEMMA RowKept ==
    ASSUME TypeOK, NEW id \in ActionIds, actions[id] # Absent,
           RowStep(id), ~RowSubmitted(id)
    PROVE  /\ actions'[id] \in Row
           /\ actions'[id].key = actions[id].key
           /\ actions[id].effect_result # "none" => actions'[id].effect_result # "none"
<1> DEFINE row == actions[id]
<1>1. row \in Row
  BY DEF TypeOK
<1>2. CASE RowUnchanged(id)
  BY <1>1, <1>2 DEF RowUnchanged
<1>3. CASE RowStarted(id)
  <2>1. PICK lease \in Int :
          actions'[id] = [row EXCEPT !.status = "running", !.lease = lease]
    BY <1>3 DEF RowStarted
  <2> HIDE DEF row
  <2>2. actions'[id] \in Row
    BY <1>1, <2>1, WrittenTyped
  <2> QED
    BY <1>1, <2>1, <2>2 DEF Row, row
<1>4. CASE RowMoved(id)
  <2>1. PICK to \in Statuses :
          /\ CanTransition(row.status, to)
          /\ actions'[id] = [row EXCEPT !.status = to,
                                        !.lease = LeaseAfter(row.lease, to)]
    BY <1>4 DEF RowMoved
  <2> HIDE DEF row
  <2>2. actions'[id] \in Row
    BY <1>1, <2>1, WrittenTyped
  <2> QED
    BY <1>1, <2>1, <2>2 DEF Row, row
<1>5. CASE RowMarked(id)
  <2>1. /\ actions'[id] = [row EXCEPT !.effect_result = "unknown"]
        /\ row.status = "running"
    BY <1>5 DEF RowMarked, Running
  <2> HIDE DEF row
  <2>2. actions'[id] \in Row
    BY <1>1, <2>1, WrittenTyped
  <2> QED
    BY <1>1, <2>1, <2>2 DEF Row, row
<1>6. CASE RowResolved(id)
  <2>1. \/ actions'[id] = Written(row, "succeeded", NoLease, "confirmed")
        \/ actions'[id] = Written(row, "manual_review", NoLease, "unknown")
    BY <1>6 DEF RowResolved
  <2> HIDE DEF row
  <2>2. actions'[id] \in Row
    BY <1>1, <2>1, WrittenTyped
  <2> QED
    BY <1>1, <2>1, <2>2 DEF Row, Written, row
<1> QED
  BY <1>2, <1>3, <1>4, <1>5, <1>6 DEF RowStep

\* What a step may do to the runtime's state, the clock and the safe mark.
LEMMA NextState ==
    ASSUME ClockOK, [Next]_vars
    PROVE  /\ ClockOK'
           /\ state' = "safe" => \/ state = "safe"
                                 \/ ~HasRunning /\ UNCHANGED actions
<1> DEFINE Goal == /\ ClockOK'
                   /\ state' = "safe" => \/ state = "safe"
                                         \/ ~HasRunning /\ UNCHANGED actions
<1> SUFFICES Goal
  OBVIOUS
<1>1. ASSUME UNCHANGED <<state, clock, rollbacks>> PROVE Goal
  BY <1>1 DEF ClockOK
<1>2. CASE Recover
  BY <1>2 DEF Recover, ClockOK, States
<1>3. CASE RequestShutdown
  BY <1>3 DEF RequestShutdown, ClockOK, States
<1>4. CASE TryMarkSafe
  BY <1>4 DEF TryMarkSafe, ClockOK, States
<1>5. CASE Crash
  BY <1>5 DEF Crash, ClockOK, States
<1>6. CASE Tick
  BY <1>6 DEF Tick, ClockOK
<1>7. CASE Rollback
  BY <1>7 DEF Rollback, ClockOK
<1> HIDE DEF Goal
<1>8. CASE RecoverInterrupted
  BY <1>1, <1>8 DEF RecoverInterrupted
<1>9. CASE \E request \in Requests : Submit(request)
  BY <1>1, <1>9 DEF Submit
<1>10. ASSUME NEW id \in ActionIds,
              \/ \E duration \in Durations : Start(id, duration)
              \/ \E target \in Targets : Transition(id, target)
              \/ RecordEffectStarted(id)
              \/ RecordConfirmedResult(id)
              \/ RecordUnknownResult(id)
       PROVE  Goal
  BY <1>1, <1>10 DEF Start, Transition, RecordEffectStarted,
                     RecordConfirmedResult, RecordUnknownResult
<1> QED
  BY <1>1, <1>2, <1>3, <1>4, <1>5, <1>6, <1>7, <1>8, <1>9, <1>10 DEF Next, vars

\* Any step keeps the types.
LEMMA NextKeepsTypes ==
    ASSUME TypeOK, [Next]_vars
    PROVE  TypeOK'
<1>1. Crossed /\ \A id \in ActionIds : RowStep(id)
  BY NextIsRowStep
<1>2. ASSUME NEW id \in ActionIds PROVE actions'[id] \in Row \cup {Absent}
  <2>1. CASE RowSubmitted(id)
    BY <2>1, NewRowTyped DEF RowSubmitted
  <2>2. CASE ~RowSubmitted(id) /\ actions[id] # Absent
    BY <1>1, <2>2, RowKept
  <2>3. CASE ~RowSubmitted(id) /\ actions[id] = Absent
    BY <1>1, <2>3 DEF RowStep, RowUnchanged, RowStarted, RowMoved, RowMarked,
                      RowResolved, Running, Stored
  <2> QED
    BY <2>1, <2>2, <2>3
<1>3. Shape'
  BY NextIsRowStep
<1>4. crossings' \in [Keys -> Nat]
  BY <1>1 DEF Crossed, TypeOK
<1>5. ClockOK'
  BY NextState DEF TypeOK, ClockOK
<1> QED
  BY <1>2, <1>3, <1>4, <1>5 DEF TypeOK, ClockOK, Shape

\* The types hold in every reachable state, for every use of the interface.
THEOREM TypeCorrect == Spec => []TypeOK
<1>1. Init => TypeOK
  BY BoundsAssumption DEF Init, TypeOK, States
<1> QED
  BY <1>1, NextKeepsTypes, PTL DEF Spec
-----------------------------------------------------------------------------
(* Keys and effects. *)

\* A row that is stored after a step was stored before it, or is submitted.
LEMMA StoredBefore ==
    ASSUME TypeOK, [Next]_vars, NEW id \in Stored'
    PROVE  id \in ActionIds /\ (id \in Stored \/ RowSubmitted(id))
<1>1. id \in ActionIds /\ RowStep(id)
  BY NextIsRowStep DEF Stored
<1> QED
  BY <1>1 DEF RowStep, RowUnchanged, RowStarted, RowMoved, RowMarked,
              RowResolved, Running, Stored

\* Any step keeps idempotency keys unique.
LEMMA NextKeepsKeysUnique ==
    ASSUME TypeOK, KeysUnique, [Next]_vars
    PROVE  KeysUnique'
<1>1. \A id \in ActionIds : RowStep(id)
  BY NextIsRowStep
<1>2. CASE \E id \in ActionIds : RowSubmitted(id)
  <2>1. PICK id \in ActionIds : RowSubmitted(id)
    BY <1>2
  <2>2. PICK request \in Requests :
            /\ \A o \in Stored : actions[o].key # request.key
            /\ actions'[id] = NewRow(request)
    BY <2>1 DEF RowSubmitted
  <2>3. actions'[id].key = request.key
    BY <2>2 DEF NewRow
  <2>4. \A o \in ActionIds \ {id} : actions'[o] = actions[o]
    BY <2>1 DEF RowSubmitted
  <2> QED
    BY <2>2, <2>3, <2>4 DEF KeysUnique, Stored
<1>3. CASE ~ \E id \in ActionIds : RowSubmitted(id)
  <2>1. \A id \in Stored' : id \in Stored
    BY <1>3, StoredBefore
  <2>2. \A id \in Stored : actions'[id].key = actions[id].key
    BY <1>1, <1>3, RowKept DEF Stored
  <2> QED
    BY <2>1, <2>2 DEF KeysUnique
<1> QED
  BY <1>2, <1>3

\* Two stored actions never share an idempotency key.
THEOREM KeysAlwaysUnique == Spec => []KeysUnique
<1>1. Init => KeysUnique
  BY DEF Init, KeysUnique, Stored
<1> QED
  BY <1>1, TypeCorrect, NextKeepsKeysUnique, PTL DEF Spec

\* Every row is stored as it was requested.
RequestedRows ==
    \A id \in Stored : \E request \in Requests :
        request.id = id /\ request.key = actions[id].key

\* A key has no started effect, or exactly one, on record in its row.
Ledger ==
    \A key \in Keys :
        \/ crossings[key] = 0
        \/ /\ crossings[key] = 1
           /\ \E id \in Stored : /\ actions[id].key = key
                                 /\ actions[id].effect_result # "none"

EInv == TypeOK /\ KeysUnique /\ RequestedRows /\ Ledger

\* With one key per id, a submission never overwrites a row.
LEMMA SubmissionIsFresh ==
    ASSUME OneKeyPerId, RequestedRows, NEW id \in ActionIds, RowSubmitted(id)
    PROVE  id \notin Stored
BY DEF OneKeyPerId, RequestedRows, RowSubmitted

\* Any step keeps the effects on record.
LEMMA NextKeepsEInv ==
    ASSUME OneKeyPerId, EInv, [Next]_vars
    PROVE  EInv'
<1>1. TypeOK' /\ KeysUnique' /\ Crossed /\ \A id \in ActionIds : RowStep(id)
  BY NextKeepsTypes, NextKeepsKeysUnique, NextIsRowStep DEF EInv
<1>2. ASSUME NEW id \in Stored
      PROVE  /\ id \in ActionIds /\ id \in Stored'
             /\ actions'[id].key = actions[id].key
             /\ actions[id].effect_result # "none" =>
                    actions'[id].effect_result # "none"
  <2>1. id \in ActionIds /\ actions[id] # Absent
    BY DEF Stored
  <2>2. ~RowSubmitted(id)
    BY <2>1, SubmissionIsFresh DEF EInv
  <2>3. /\ actions'[id] \in Row
        /\ actions'[id].key = actions[id].key
        /\ actions[id].effect_result # "none" => actions'[id].effect_result # "none"
    BY <1>1, <2>1, <2>2, RowKept DEF EInv
  <2> QED
    BY <2>1, <2>3, AbsentAssumption DEF Stored
<1>3. RequestedRows'
  <2> SUFFICES ASSUME NEW id \in Stored'
               PROVE  \E request \in Requests :
                          request.id = id /\ request.key = actions'[id].key
    BY DEF RequestedRows
  <2>1. CASE id \in Stored
    BY <1>2, <2>1 DEF EInv, RequestedRows
  <2>2. CASE RowSubmitted(id)
    BY <2>2 DEF RowSubmitted, NewRow
  <2> QED
    BY <2>1, <2>2, StoredBefore DEF EInv
<1>4. Ledger'
  <2>1. CASE crossings' = crossings
    BY <1>2, <2>1 DEF EInv, Ledger
  <2>2. CASE crossings' # crossings
    <3>1. PICK id \in ActionIds :
            /\ RowMarked(id)
            /\ crossings' = [crossings EXCEPT ![actions[id].key] = @ + 1]
      BY <1>1, <2>2 DEF Crossed
    <3> DEFINE k == actions[id].key
    <3>2. /\ id \in Stored /\ actions[id] \in Row /\ k \in Keys
          /\ actions[id].effect_result = "none"
          /\ actions'[id].effect_result = "unknown"
          /\ actions'[id].key = k
      BY <3>1 DEF EInv, TypeOK, RowMarked, Running, Stored, Row
    <3>3. crossings[k] = 0
      BY <3>2 DEF EInv, Ledger, KeysUnique
    <3>4. crossings \in [Keys -> Nat]
      BY DEF EInv, TypeOK
    <3> HIDE DEF k
    <3>5. /\ crossings'[k] = 1
          /\ \A key \in Keys \ {k} : crossings'[key] = crossings[key]
      BY <3>1, <3>2, <3>3, <3>4 DEF k
    <3>6. id \in Stored'
      BY <1>2, <3>2
    <3> QED
      BY <1>2, <3>2, <3>5, <3>6 DEF EInv, Ledger
  <2> QED
    BY <2>1, <2>2
<1> QED
  BY <1>1, <1>3, <1>4 DEF EInv

\* While clients keep to one key per id, effects stay on record.
LEMMA EInvIsInvariant ==
    ASSUME OneKeyPerId
    PROVE  Spec => []EInv
<1>1. Init => EInv
  <2>1. Init => TypeOK
    BY BoundsAssumption DEF Init, TypeOK, States
  <2> QED
    BY <2>1 DEF Init, EInv, KeysUnique, RequestedRows, Ledger, Stored
<1>2. EInv /\ [Next]_vars => EInv'
  BY NextKeepsEInv
<1> QED
  BY <1>1, <1>2, PTL DEF Spec

\* The external effect of one idempotency key is started at most once.
THEOREM EffectNeverRepeated ==
    ASSUME OneKeyPerId
    PROVE  Spec => []EffectAtMostOnce
<1>1. EInv => EffectAtMostOnce
  BY DEF EInv, Ledger, EffectAtMostOnce, TypeOK
<1> QED
  BY <1>1, EInvIsInvariant, PTL

\* A started effect is never forgotten.
THEOREM EffectStaysOnRecord ==
    ASSUME OneKeyPerId
    PROVE  Spec => []EffectOnRecord
<1>1. EInv => EffectOnRecord
  BY DEF EInv, Ledger, EffectOnRecord, TypeOK
<1> QED
  BY <1>1, EInvIsInvariant, PTL

\* An action that is over is not written again.
THEOREM FinalIsFinal ==
    ASSUME OneKeyPerId
    PROVE  Spec => FinalStaysFinal
<1>1. ASSUME EInv, [Next]_vars, NEW id \in Stored,
             actions[id].status \in {"succeeded", "failed_permanent", "manual_review"}
      PROVE  actions'[id] = actions[id]
  <2>1. id \in ActionIds /\ RowStep(id) /\ ~RowSubmitted(id)
    BY <1>1, NextIsRowStep, SubmissionIsFresh DEF EInv, Stored
  <2> QED
    BY <1>1, <2>1 DEF RowStep, RowUnchanged, RowStarted, RowMoved, RowMarked,
                      RowResolved, Running, CanTransition
<1>2. EInv /\ [Next]_vars =>
        [\A id \in Stored :
            actions[id].status \in {"succeeded", "failed_permanent", "manual_review"}
                => actions'[id] = actions[id]]_vars
  BY <1>1
<1> QED
  BY <1>2, EInvIsInvariant, PTL DEF Spec, FinalStaysFinal

\* One step keeps the effect and the status of a row in agreement.
LEMMA NextKeepsEffectFit ==
    ASSUME TypeOK, EffectFitsStatus, [Next]_vars
    PROVE  EffectFitsStatus'
<1> SUFFICES ASSUME NEW id \in Stored'
             PROVE  /\ actions'[id].effect_result = "unknown" =>
                         actions'[id].status \in {"running", "manual_review"}
                    /\ actions'[id].effect_result = "confirmed" =>
                         actions'[id].status = "succeeded"
  BY DEF EffectFitsStatus
<1> DEFINE row == actions[id]
<1>1. id \in ActionIds /\ RowStep(id) /\ (id \in Stored \/ RowSubmitted(id))
  BY StoredBefore, NextIsRowStep
<1>2. CASE RowSubmitted(id)
  BY <1>2 DEF RowSubmitted, NewRow
<1>3. CASE id \in Stored /\ ~RowSubmitted(id)
  <2>1. /\ row \in Row
        /\ row.effect_result = "unknown" => row.status \in {"running", "manual_review"}
        /\ row.effect_result = "confirmed" => row.status = "succeeded"
    BY <1>3 DEF EffectFitsStatus, TypeOK, Stored
  <2>2. CASE RowUnchanged(id)
    BY <2>1, <2>2 DEF RowUnchanged
  <2>3. CASE RowStarted(id)
    <3>1. PICK lease \in Int :
            actions'[id] = [row EXCEPT !.status = "running", !.lease = lease]
      BY <2>3 DEF RowStarted
    <3>2. row.status \in {"pending", "retry_wait"}
      BY <2>3 DEF RowStarted
    <3> HIDE DEF row
    <3> QED
      BY <2>1, <3>1, <3>2 DEF Row
  <2>4. CASE RowMoved(id)
    <3>1. PICK to \in Statuses :
            /\ EffectAllows(row.effect_result, to)
            /\ actions'[id] = [row EXCEPT !.status = to,
                                          !.lease = LeaseAfter(row.lease, to)]
      BY <2>4 DEF RowMoved
    <3> HIDE DEF row
    <3> QED
      BY <2>1, <3>1 DEF Row, EffectAllows
  <2>5. CASE RowMarked(id)
    <3>1. /\ actions'[id] = [row EXCEPT !.effect_result = "unknown"]
          /\ row.status = "running"
      BY <2>5 DEF RowMarked, Running
    <3> HIDE DEF row
    <3> QED
      BY <2>1, <3>1 DEF Row
  <2>6. CASE RowResolved(id)
    <3>1. \/ actions'[id] = Written(row, "succeeded", NoLease, "confirmed")
          \/ actions'[id] = Written(row, "manual_review", NoLease, "unknown")
      BY <2>6 DEF RowResolved
    <3> HIDE DEF row
    <3> QED
      BY <2>1, <3>1 DEF Row, Written
  <2> QED
    BY <1>1, <1>3, <2>2, <2>3, <2>4, <2>5, <2>6 DEF RowStep
<1> QED
  BY <1>1, <1>2, <1>3

\* An unknown effect leads only to review or, confirmed, to success.
THEOREM EffectAlwaysFits == Spec => []EffectFitsStatus
<1>1. Init => EffectFitsStatus
  BY DEF Init, EffectFitsStatus, Stored
<1> QED
  BY <1>1, TypeCorrect, NextKeepsEffectFit, PTL DEF Spec

\* When clients start actions with start() only, safe means quiet.
THEOREM SafeIsQuiet ==
    ASSUME "running" \notin Targets
    PROVE  Spec => []SafeMeansQuiet
<1>1. Init => SafeMeansQuiet
  BY DEF Init, SafeMeansQuiet
<1>2. ASSUME TypeOK, SafeMeansQuiet, [Next]_vars
      PROVE  SafeMeansQuiet'
  <2> SUFFICES ASSUME state' = "safe" PROVE ~HasRunning'
    BY DEF SafeMeansQuiet, HasRunning
  <2>1. CASE ~HasRunning /\ UNCHANGED actions
    BY <2>1 DEF HasRunning, Running, Stored
  <2>2. CASE state = "safe"
    <3>1. ~HasRunning
      BY <1>2, <2>2 DEF SafeMeansQuiet, HasRunning
    <3>2. ASSUME NEW id \in Running' PROVE FALSE
      <4>1. id \in Stored' /\ actions'[id].status = "running"
        BY <3>2 DEF Running
      <4>2. /\ id \in ActionIds /\ RowStep(id)
            /\ id \in Stored \/ RowSubmitted(id)
        BY <1>2, <4>1, StoredBefore, NextIsRowStep
      <4>3. id \notin Running
        BY <3>1 DEF HasRunning
      <4>4. CASE RowUnchanged(id)
        BY <4>1, <4>2, <4>3, <4>4 DEF RowUnchanged, Running, Stored
      <4>5. CASE RowSubmitted(id)
        BY <4>1, <4>5 DEF RowSubmitted, NewRow
      <4>6. CASE RowMoved(id)
        <5>1. actions[id] \in Row
          BY <1>2, <4>2, <4>6 DEF RowMoved, TypeOK
        <5>2. PICK to \in Statuses :
                /\ to # "running"
                /\ actions'[id] = [actions[id] EXCEPT
                                     !.status = to,
                                     !.lease = LeaseAfter(actions[id].lease, to)]
          BY <4>6 DEF RowMoved
        <5> QED
          BY <4>1, <5>1, <5>2 DEF Row
      <4> QED
        BY <2>2, <4>2, <4>3, <4>4, <4>5, <4>6
           DEF RowStep, RowStarted, RowMarked, RowResolved
    <3> QED
      BY <3>2 DEF HasRunning
  <2>3. ClockOK
    BY <1>2 DEF TypeOK, ClockOK
  <2> QED
    BY <1>2, <2>1, <2>2, <2>3, NextState
<1> QED
  BY <1>1, <1>2, TypeCorrect, PTL DEF Spec
-----------------------------------------------------------------------------
(* The rows implement the journal of EffectJournal.                            *)

JInv == EInv /\ EffectFitsStatus

\* The stage of a row is told by its status, and by its effect while it runs.
LEMMA StageFacts ==
    ASSUME NEW row \in Row
    PROVE  /\ row.status \in {"pending", "retry_wait"} => StageOf(row) = "waiting"
           /\ row.status = "running" /\ row.effect_result = "none" =>
                StageOf(row) = "working"
           /\ row.status = "running" /\ row.effect_result # "none" =>
                StageOf(row) = "crossed"
           /\ row.status = "succeeded" => StageOf(row) = "succeeded"
           /\ row.status = "failed_permanent" => StageOf(row) = "failed"
           /\ row.status = "manual_review" => StageOf(row) = "review"
BY DEF StageOf

\* A key whose only row is known has the stage of that row.
LEMMA StageOfHolder ==
    ASSUME KeysUnique, NEW id \in Stored, actions[id].key \in Keys
    PROVE  Stages[actions[id].key] = StageOf(actions[id])
<1>1. Holders(actions[id].key) = {id}
  BY DEF Holders, KeysUnique
<1> QED
  BY <1>1 DEF Stages

\* The same after a step.
LEMMA StageOfHolderAfter ==
    ASSUME KeysUnique', NEW id \in Stored', actions'[id].key \in Keys
    PROVE  Stages'[actions'[id].key] = StageOf(actions'[id])
<1>1. Holders(actions[id].key)' = {id}
  BY DEF Holders, KeysUnique
<1> QED
  BY <1>1 DEF Stages

\* Keys whose rows a step leaves alone keep their stage.
LEMMA StageUntouched ==
    ASSUME NEW key \in Keys, Holders(key)' = Holders(key),
           \A id \in Holders(key) : actions'[id] = actions[id]
    PROVE  Stages'[key] = Stages[key]
<1>1. CASE Holders(key) = {}
  BY <1>1 DEF Stages
<1>2. CASE Holders(key) # {}
  <2> DEFINE c == CHOOSE id \in Holders(key) : TRUE
  <2>1. c \in Holders(key)
    BY <1>2
  <2>2. actions'[c] = actions[c]
    BY <2>1
  <2>3. StageOf(actions'[c]) = StageOf(actions[c])
    BY <2>2
  <2>4. Stages[key] = StageOf(actions[c])
    BY <1>2 DEF Stages
  <2>5. Stages'[key] = StageOf(actions'[c])
    BY <1>2 DEF Stages
  <2> QED
    BY <2>3, <2>4, <2>5
<1> QED
  BY <1>1, <1>2

\* A step that writes one row moves one key.
LEMMA OneRowOneKey ==
    ASSUME KeysUnique', NEW id \in Stored', NEW key \in Keys,
           actions'[id].key = key,
           id \in Stored => actions[id].key = key,
           \A other \in ActionIds \ {id} : actions'[other] = actions[other]
    PROVE  Stages' = [Stages EXCEPT ![key] = StageOf(actions'[id])]
<1>1. Stages'[key] = StageOf(actions'[id])
  BY StageOfHolderAfter
<1>2. ASSUME NEW k \in Keys \ {key} PROVE Stages'[k] = Stages[k]
  <2>1. id \notin Holders(k) /\ id \notin Holders(k)'
    BY <1>2 DEF Holders
  <2>2. Holders(k)' = Holders(k)
    BY <2>1 DEF Holders, Stored
  <2>3. \A other \in Holders(k) : actions'[other] = actions[other]
    BY <2>1 DEF Holders, Stored
  <2> QED
    BY <2>2, <2>3, StageUntouched
<1>3. /\ Stages = [k \in Keys |-> Stages[k]]
      /\ Stages' = [k \in Keys |-> Stages'[k]]
  BY DEF Stages
<1> HIDE DEF Stages
<1>4. Stages' = [k \in Keys |-> IF k = key THEN StageOf(actions'[id]) ELSE Stages[k]]
  BY <1>1, <1>2, <1>3
<1>5. [Stages EXCEPT ![key] = StageOf(actions'[id])]
        = [k \in Keys |-> IF k = key THEN StageOf(actions'[id]) ELSE Stages[k]]
  BY <1>3
<1> QED
  BY <1>4, <1>5

\* A step that writes one stored row moves its key from the stage of the old row
\* to that of the new one.
LEMMA RowWritten ==
    ASSUME OneKeyPerId, EInv, [Next]_vars, NEW id \in Stored,
           \A other \in ActionIds \ {id} : actions'[other] = actions[other]
    PROVE  /\ actions[id] \in Row /\ actions'[id] \in Row
           /\ actions[id].key \in Keys
           /\ Stages[actions[id].key] = StageOf(actions[id])
           /\ Stages' = [Stages EXCEPT ![actions[id].key] = StageOf(actions'[id])]
<1>1. EInv' /\ RowStep(id) /\ id \in ActionIds /\ actions[id] # Absent
  BY NextKeepsEInv, NextIsRowStep DEF EInv, Stored
<1>2. actions'[id] \in Row /\ actions'[id].key = actions[id].key
  BY <1>1, SubmissionIsFresh, RowKept DEF EInv
<1>3. actions[id] \in Row /\ actions[id].key \in Keys
  BY <1>1 DEF EInv, TypeOK, Row
<1>4. id \in Stored'
  BY <1>1, <1>2, AbsentAssumption DEF Stored
<1> QED
  BY <1>1, <1>2, <1>3, <1>4, StageOfHolder, OneRowOneKey DEF EInv

\* Each of these moves of one key is a step of the journal.
LEMMA MovesOfAKey ==
    ASSUME NEW key \in Keys, NEW to,
           Stages' = [Stages EXCEPT ![key] = to], UNCHANGED crossings,
           \/ Stages[key] = "waiting" /\ to \in {"working", "failed"}
           \/ Stages[key] = "working"
                /\ to \in {"waiting", "succeeded", "failed", "review"}
           \/ Stages[key] = "crossed" /\ to \in {"succeeded", "review"}
    PROVE  Journal!Next
<1> DEFINE from == Stages[key]
<1>1. CASE from = "waiting" /\ to = "working"
  <2>1. Journal!Work(key)
    BY <1>1 DEF Journal!Work, Journal!Move
  <2> QED
    BY <2>1 DEF Journal!Next
<1>2. CASE from = "working" /\ to = "waiting"
  <2>1. Journal!Retry(key)
    BY <1>2 DEF Journal!Retry, Journal!Move
  <2> QED
    BY <2>1 DEF Journal!Next
<1>3. CASE \/ from = "waiting" /\ to = "failed"
           \/ from = "working" /\ to \in {"succeeded", "failed", "review"}
           \/ from = "crossed" /\ to \in {"succeeded", "review"}
  <2>1. from \in DOMAIN Journal!Endings /\ to \in Journal!Endings[from]
    <3> HIDE DEF from
    <3> QED
      BY <1>3 DEF Journal!Endings
  <2>2. Journal!End(key)
    BY <2>1 DEF Journal!End, Journal!Move
  <2> QED
    BY <2>2 DEF Journal!Next
<1> QED
  BY <1>1, <1>2, <1>3

\* An accepted submission accepts its key.
LEMMA SubmitIsJournalStep ==
    ASSUME OneKeyPerId, EInv, [Next]_vars,
           NEW request \in Requests, Submit(request)
    PROVE  Journal!Next
<1> DEFINE key == request.key
           id == request.id
<1>1. key \in Keys /\ id \in ActionIds
  BY RequestFields
<1>2. /\ actions' = [actions EXCEPT ![id] = NewRow(request)]
      /\ UNCHANGED crossings
      /\ \A other \in Stored : actions[other].key # key
  BY DEF Submit, Save, NewRow, Duplicate
<1>3. /\ actions'[id] = NewRow(request)
      /\ \A other \in ActionIds \ {id} : actions'[other] = actions[other]
  BY <1>1, <1>2 DEF EInv, TypeOK
<1>4. id \notin Stored
  BY <1>1, <1>2, <1>3, SubmissionIsFresh DEF EInv, RowSubmitted
<1>5. id \in Stored' /\ actions'[id].key = key
  BY <1>1, <1>3, NewRowTyped, AbsentAssumption DEF Stored, NewRow
<1>6. Stages' = [Stages EXCEPT ![key] = StageOf(actions'[id])]
  BY <1>1, <1>3, <1>4, <1>5, NextKeepsEInv, OneRowOneKey DEF EInv
<1>7. StageOf(actions'[id]) = "waiting"
  BY <1>3, NewRowTyped, StageFacts DEF NewRow
<1>8. Stages[key] = "unknown"
  BY <1>1, <1>2 DEF Stages, Holders
<1> HIDE DEF key
<1> QED
  BY <1>1, <1>2, <1>6, <1>7, <1>8 DEF Journal!Next, Journal!Accept, Journal!Move

\* start() works on a key that waits.
LEMMA StartIsJournalStep ==
    ASSUME OneKeyPerId, EInv, EffectFitsStatus, [Next]_vars, NEW id \in ActionIds,
           NEW duration \in Durations, Start(id, duration)
    PROVE  Journal!Next
<1> DEFINE key == actions[id].key
<1>1. /\ id \in Stored
      /\ actions[id].status \in {"pending", "retry_wait"}
      /\ UNCHANGED crossings
      /\ \A other \in ActionIds \ {id} : actions'[other] = actions[other]
  BY DEF Start, Save, CanTransition, Stored, EInv, TypeOK
<1>2. actions'[id] = [actions[id] EXCEPT !.status = "running",
                                         !.lease = clock + duration]
  BY DEF Start, Save, EInv, TypeOK
<1>3. /\ actions[id] \in Row /\ actions'[id] \in Row /\ key \in Keys
      /\ Stages[key] = StageOf(actions[id])
      /\ Stages' = [Stages EXCEPT ![key] = StageOf(actions'[id])]
  BY <1>1, RowWritten
<1>4. actions[id].effect_result = "none"
  BY <1>1, <1>3 DEF EffectFitsStatus, Row, Effects
<1>5. actions'[id].status = "running" /\ actions'[id].effect_result = "none"
  BY <1>2, <1>3, <1>4 DEF Row
<1>6. StageOf(actions[id]) = "waiting" /\ StageOf(actions'[id]) = "working"
  BY <1>1, <1>3, <1>5, StageFacts
<1> HIDE DEF key
<1> QED
  BY <1>1, <1>3, <1>6, MovesOfAKey

\* transition() works on a waiting key, retries one without an effect, or ends
\* it in a way that its effect allows.
LEMMA TransitionIsJournalStep ==
    ASSUME OneKeyPerId, EInv, EffectFitsStatus, [Next]_vars, NEW id \in ActionIds,
           NEW target \in Targets, Transition(id, target)
    PROVE  Journal!Next
<1> DEFINE key == actions[id].key
           from == StageOf(actions[id])
           to == StageOf(actions'[id])
<1>1. /\ id \in Stored
      /\ CanTransition(actions[id].status, target)
      /\ EffectAllows(actions[id].effect_result, target)
      /\ UNCHANGED crossings
      /\ \A other \in ActionIds \ {id} : actions'[other] = actions[other]
  BY DEF Transition, Save, Stored, EInv, TypeOK
<1>2. actions'[id] = [actions[id] EXCEPT
                        !.status = target,
                        !.lease = LeaseAfter(actions[id].lease, target)]
  BY DEF Transition, Save, EInv, TypeOK
<1>3. /\ actions[id] \in Row /\ actions'[id] \in Row /\ key \in Keys
      /\ Stages[key] = from
      /\ Stages' = [Stages EXCEPT ![key] = to]
  BY <1>1, RowWritten
<1>4. /\ actions[id].effect_result \in Effects
      /\ actions'[id].status = target
      /\ actions'[id].effect_result = actions[id].effect_result
  BY <1>2, <1>3 DEF Row
<1>5. CASE actions[id].status \in {"pending", "retry_wait"}
  <2>1. actions[id].effect_result = "none"
    BY <1>1, <1>4, <1>5 DEF EffectFitsStatus, Effects
  <2>2. /\ from = "waiting"
        /\ \/ target = "running" /\ to = "working"
           \/ to = "failed"
    BY <1>1, <1>3, <1>4, <1>5, <2>1, StageFacts DEF CanTransition
  <2> HIDE DEF key, from, to
  <2> QED
    BY <1>1, <1>3, <2>2, MovesOfAKey
<1>6. CASE actions[id].status = "running"
  <2>1. actions[id].effect_result \in {"none", "unknown"}
    BY <1>1, <1>4, <1>6 DEF EffectFitsStatus, Effects
  <2>2. \/ from = "working" /\ to \in {"waiting", "succeeded", "failed", "review"}
        \/ from = "crossed" /\ to = "review"
    BY <1>1, <1>3, <1>4, <1>6, <2>1, StageFacts DEF CanTransition, EffectAllows
  <2> HIDE DEF key, from, to
  <2> QED
    BY <1>1, <1>3, <2>2, MovesOfAKey
<1> QED
  BY <1>1, <1>5, <1>6 DEF CanTransition

\* The marker is the one start of the effect.
LEMMA MarkIsJournalStep ==
    ASSUME OneKeyPerId, EInv, [Next]_vars,
           NEW id \in ActionIds, RecordEffectStarted(id)
    PROVE  Journal!Next
<1> DEFINE key == actions[id].key
<1>1. /\ id \in Stored
      /\ actions[id].status = "running"
      /\ actions[id].effect_result = "none"
      /\ crossings' = [crossings EXCEPT ![key] = @ + 1]
      /\ \A other \in ActionIds \ {id} : actions'[other] = actions[other]
      /\ actions'[id] = [actions[id] EXCEPT !.effect_result = "unknown"]
  BY DEF RecordEffectStarted, Save, Running, Stored, EInv, TypeOK
<1>2. /\ actions[id] \in Row /\ actions'[id] \in Row /\ key \in Keys
      /\ Stages[key] = StageOf(actions[id])
      /\ Stages' = [Stages EXCEPT ![key] = StageOf(actions'[id])]
  BY <1>1, RowWritten
<1>3. actions'[id].status = "running" /\ actions'[id].effect_result = "unknown"
  BY <1>1, <1>2 DEF Row
<1>4. StageOf(actions[id]) = "working" /\ StageOf(actions'[id]) = "crossed"
  BY <1>1, <1>2, <1>3, StageFacts
<1> HIDE DEF key
<1> QED
  BY <1>1, <1>2, <1>4 DEF Journal!Next, Journal!Cross, Journal!Move

\* A recorded result ends a key that was worked on.
LEMMA ResultIsJournalStep ==
    ASSUME OneKeyPerId, EInv, EffectFitsStatus, [Next]_vars, NEW id \in ActionIds,
           RecordConfirmedResult(id) \/ RecordUnknownResult(id)
    PROVE  Journal!Next
<1> DEFINE key == actions[id].key
           from == StageOf(actions[id])
           to == StageOf(actions'[id])
<1>1. /\ id \in Stored
      /\ actions[id].status = "running"
      /\ UNCHANGED crossings
      /\ \A other \in ActionIds \ {id} : actions'[other] = actions[other]
  BY DEF RecordConfirmedResult, RecordUnknownResult, Save, Running, Stored, EInv,
         TypeOK
<1>2. \/ /\ actions[id].effect_result = "unknown"
         /\ actions'[id] = [actions[id] EXCEPT !.effect_result = "confirmed",
                                               !.status = "succeeded",
                                               !.lease = NoLease]
      \/ actions'[id] = [actions[id] EXCEPT !.effect_result = "unknown",
                                            !.status = "manual_review",
                                            !.lease = NoLease]
  BY DEF RecordConfirmedResult, RecordUnknownResult, Save, EInv, TypeOK
<1>3. /\ actions[id] \in Row /\ actions'[id] \in Row /\ key \in Keys
      /\ Stages[key] = from
      /\ Stages' = [Stages EXCEPT ![key] = to]
  BY <1>1, RowWritten
<1>4. \/ actions[id].effect_result = "unknown" /\ actions'[id].status = "succeeded"
      \/ actions'[id].status = "manual_review"
  BY <1>2, <1>3 DEF Row
<1>5. /\ from \in {"working", "crossed"}
      /\ \/ from = "crossed" /\ to = "succeeded"
         \/ to = "review"
  BY <1>1, <1>3, <1>4, StageFacts
<1> HIDE DEF key, from, to
<1> QED
  BY <1>1, <1>3, <1>5, MovesOfAKey

\* Recovery of any expired leases, also of some of them only, is one recovery of
\* the journal: a row without an effect waits again, one with it is under review.
LEMMA RecoverIsJournalStep ==
    ASSUME EInv, EffectFitsStatus, NEW ids \in SUBSET RunningWithExpiredLease,
           RecoverRows(ids), UNCHANGED crossings
    PROVE  Journal!Next
<1> DEFINE keys == {actions[id].key : id \in ids}
<1>1. \A id \in ids : /\ id \in Stored /\ id \in ActionIds
                      /\ actions[id] \in Row /\ actions[id].key \in Keys
                      /\ actions[id].status = "running"
  BY DEF RunningWithExpiredLease, Running, Stored, EInv, TypeOK, Row
<1>2. \A id \in ActionIds \ ids : actions'[id] = actions[id]
  BY DEF RecoverRows
<1>3. ASSUME NEW id \in ids
      PROVE  /\ actions'[id] \in Row /\ actions'[id].key = actions[id].key
             /\ StageOf(actions[id]) \in DOMAIN Journal!Recovered
             /\ StageOf(actions'[id]) = Journal!Recovered[StageOf(actions[id])]
  <2> DEFINE row == actions[id]
  <2>1. /\ row \in Row /\ row.status = "running" /\ id \in ActionIds /\ id \in Stored
        /\ row.effect_result \in Effects
    BY <1>1 DEF Row
  <2>2. row.effect_result \in {"none", "unknown"}
    BY <2>1 DEF EffectFitsStatus, Effects
  <2>3. actions'[id] = [row EXCEPT !.lease = NoLease,
                                   !.status = RecoveredStatus(row.effect_result)]
    BY <2>1 DEF RecoverRows
  <2> HIDE DEF row
  <2>4. /\ actions'[id] \in Row /\ actions'[id].key = row.key
        /\ actions'[id].status = RecoveredStatus(row.effect_result)
    BY <2>1, <2>2, <2>3 DEF Row, RecoveredStatus, Statuses
  <2>5. CASE row.effect_result = "none"
    <3>1. StageOf(row) = "working" /\ StageOf(actions'[id]) = "waiting"
      BY <2>1, <2>4, <2>5, StageFacts DEF RecoveredStatus
    <3> QED
      BY <2>4, <3>1 DEF Journal!Recovered, row
  <2>6. CASE row.effect_result = "unknown"
    <3>1. StageOf(row) = "crossed" /\ StageOf(actions'[id]) = "review"
      BY <2>1, <2>4, <2>6, StageFacts DEF RecoveredStatus
    <3> QED
      BY <2>4, <3>1 DEF Journal!Recovered, row
  <2> QED
    BY <2>2, <2>5, <2>6
<1>4. /\ Stored' = Stored
      /\ \A id \in Stored : actions'[id].key = actions[id].key
  BY <1>1, <1>2, <1>3, AbsentAssumption DEF Stored
<1>5. KeysUnique /\ KeysUnique'
  BY <1>4 DEF EInv, KeysUnique
<1>6. keys \subseteq Journal!Leased
  BY <1>1, <1>3, <1>5, StageOfHolder DEF Journal!Leased
<1>7. ASSUME NEW key \in Keys
      PROVE  Stages'[key] = IF key \in keys THEN Journal!Recovered[Stages[key]]
                                            ELSE Stages[key]
  <2>1. CASE key \in keys
    <3>1. PICK id \in ids : key = actions[id].key
      BY <2>1
    <3> QED
      BY <1>1, <1>3, <1>4, <1>5, <2>1, <3>1, StageOfHolder, StageOfHolderAfter
  <2>2. CASE key \notin keys
    <3>1. Holders(key)' = Holders(key)
      BY <1>4 DEF Holders
    <3>2. \A id \in Holders(key) : actions'[id] = actions[id]
      BY <1>2, <2>2 DEF Holders, Stored
    <3> QED
      BY <2>2, <3>1, <3>2, StageUntouched
  <2> QED
    BY <2>1, <2>2
<1>8. Stages' = [key \in Keys |-> Stages'[key]]
  BY DEF Stages
<1> HIDE DEF keys
<1>9. Stages' = [key \in Keys |-> IF key \in keys THEN Journal!Recovered[Stages[key]]
                                                  ELSE Stages[key]]
  BY <1>7, <1>8
<1>10. Journal!Recover
  BY <1>6, <1>9 DEF Journal!Recover
<1> QED
  BY <1>10 DEF Journal!Next

\* Every step is one of the journal, or leaves it as it is.
LEMMA NextIsJournalStep ==
    ASSUME OneKeyPerId, JInv, [Next]_vars
    PROVE  [Journal!Next]_<<Stages, crossings>>
<1> DEFINE Goal == [Journal!Next]_<<Stages, crossings>>
<1> SUFFICES Goal
  OBVIOUS
<1> USE DEF JInv
<1>1. ASSUME Journal!Next PROVE Goal
  BY <1>1
<1>2. ASSUME UNCHANGED <<actions, crossings>> PROVE Goal
  BY <1>2 DEF Stages, Holders, Stored
<1> HIDE DEF Goal
<1>3. CASE Recover
  BY <1>1, <1>3, RecoverIsJournalStep DEF Recover
<1>4. CASE RecoverInterrupted
  BY <1>1, <1>4, RecoverIsJournalStep DEF RecoverInterrupted
<1>5. CASE \E request \in Requests : Submit(request)
  BY <1>1, <1>5, SubmitIsJournalStep
<1>6. ASSUME NEW id \in ActionIds,
             \/ \E duration \in Durations : Start(id, duration)
             \/ \E target \in Targets : Transition(id, target)
             \/ RecordEffectStarted(id)
             \/ RecordConfirmedResult(id)
             \/ RecordUnknownResult(id)
      PROVE  Goal
  BY <1>1, <1>6, StartIsJournalStep, TransitionIsJournalStep, MarkIsJournalStep,
     ResultIsJournalStep
<1> QED
  BY <1>2, <1>3, <1>4, <1>5, <1>6
     DEF Next, vars, RequestShutdown, TryMarkSafe, Crash, Tick, Rollback

\* While clients keep to one key per id, the rows implement the journal: a key is
\* accepted once, tried again only before its effect was started, and settled
\* for good, whatever crashes, late workers and interrupted recoveries do.
THEOREM RuntimeImplementsJournal ==
    ASSUME OneKeyPerId
    PROVE  Spec => ImplementsJournal
<1>1. Init => Journal!Init
  BY DEF Init, Journal!Init, Stages, Holders, Stored
<1>2. JInv /\ [Next]_vars => [Journal!Next]_<<Stages, crossings>>
  BY NextIsJournalStep
<1> QED
  BY <1>1, <1>2, EInvIsInvariant, EffectAlwaysFits, PTL
     DEF Spec, ImplementsJournal, Journal!Spec, JInv
=============================================================================
