------------------------------ MODULE BudgetProofs ------------------------------
(* Theorems about Budget for every set of keys and callers, every valid       *)
(* policy and every resolution of the clock.                                  *)
EXTENDS Budget, FiniteSetTheorems, TLAPS

\* The constants are numbers of their kinds.
LEMMA Numbers ==
    /\ TicksPerMs \in Nat \ {0} /\ Window \in Nat \ {0} /\ MinInterval \in Nat
    /\ MaxTotal \in Nat /\ MaxInWindow \in Nat
    /\ Origin \in Nat /\ Horizon \in Nat /\ Origin >= Window * TicksPerMs
    /\ Times \subseteq Nat
BY PolicyAssumption, TicksAssumption, OriginAssumption, BoundsAssumption DEF Times
-----------------------------------------------------------------------------
(* Milliseconds of ticks. *)

\* Multiplication by a natural number.
LEMMA Multiples ==
    ASSUME NEW k \in Nat, NEW m \in Int, NEW n \in Int
    PROVE  /\ k * (m + n) = k * m + k * n
           /\ (n - 1) * k = k * n - k
           /\ k * m \in Int
           /\ m <= n => k * m <= k * n
BY SMT

\* Truncation brackets a time between two milliseconds.
LEMMA MsBracket ==
    ASSUME NEW t \in Nat
    PROVE  /\ Ms(t) \in Nat
           /\ TicksPerMs * Ms(t) <= t
           /\ t < TicksPerMs * Ms(t) + TicksPerMs
<1>1. \A a \in Nat, b \in Nat \ {0} :
          a \div b \in Nat /\ b * (a \div b) <= a /\ a < b * (a \div b) + b
  BY SMT
<1>2. Ms(t) = t \div TicksPerMs
  BY DEF Ms
<1> QED
  BY <1>1, <1>2, Numbers

\* Times whose milliseconds are n apart are more than n - 1 milliseconds apart.
LEMMA MsGap ==
    ASSUME NEW a \in Nat, NEW b \in Nat, NEW n \in Int, Ms(a) + n <= Ms(b)
    PROVE  b - a > (n - 1) * TicksPerMs
<1> DEFINE T == TicksPerMs
           x == Ms(a)
           y == Ms(b)
<1>1. T \in Nat /\ x \in Int /\ y \in Int /\ T * y <= b /\ a < T * x + T
  BY MsBracket, Numbers
<1>2. x + n <= y
  OBVIOUS
<1>3. (n - 1) * T = T * n - T /\ T * n \in Int
  <2> HIDE DEF T
  <2> QED
    BY <1>1, Multiples
<1> SUFFICES b - a > T * n - T
  BY <1>3
<1> HIDE DEF T, x, y
<1>4. T * (x + n) <= T * y /\ T * (x + n) = T * x + T * n
      /\ T * x \in Int /\ T * y \in Int
  <2>1. x + n \in Int
    BY <1>1
  <2> QED
    BY <1>1, <1>2, <2>1, Multiples
<1> QED
  <2> DEFINE tx == T * x
             ty == T * y
             tn == T * n
  <2>1. /\ tx \in Int /\ ty \in Int /\ tn \in Int
        /\ ty <= b /\ a < tx + T /\ tx + tn <= ty
    BY <1>1, <1>3, <1>4
  <2>2. T \in Int
    BY <1>1
  <2> HIDE DEF tx, ty, tn
  <2>3. b - a > tn - T
    BY <2>1, <2>2
  <2> QED
    BY <2>3 DEF tn

\* The cutoff of a window lies as many milliseconds back as the window is long.
LEMMA MsCutoff ==
    ASSUME NEW a \in Nat, NEW now \in Times, Ms(a) <= Ms(now - Window * TicksPerMs)
    PROVE  now - a > (Window - 1) * TicksPerMs
<1> DEFINE span == Window * TicksPerMs
           cutoff == now - span
<1>1. /\ span \in Nat /\ now \in Nat /\ TicksPerMs \in Nat
      /\ (Window - 1) * TicksPerMs = span - TicksPerMs
  BY Numbers
<1>2. cutoff \in Nat
  BY <1>1, Numbers DEF Times
<1>3. cutoff - a > (0 - 1) * TicksPerMs
  <2>1. Ms(a) + 0 <= Ms(cutoff)
    BY <1>2, MsBracket
  <2> HIDE DEF cutoff
  <2> QED
    BY <1>2, <2>1, MsGap
<1>4. now - span - a > -TicksPerMs
  BY <1>1, <1>3
<1> HIDE DEF span, cutoff
<1>5. now - a > span - TicksPerMs
  BY <1>1, <1>4
<1> QED
  BY <1>1, <1>5
-----------------------------------------------------------------------------
(* The inductive invariant. *)

\* The row of a key, and the time its permit was asked for.
PermitsGood ==
    /\ consumed = [key \in Keys |-> consumed[key]]
    /\ taken = [key \in Keys |-> taken[key]]
    /\ \A key \in Keys :
        IF taken[key] = Absent THEN consumed[key] = Absent
        ELSE taken[key] \in Times /\ consumed[key] = Ms(taken[key])

CallsGood ==
    /\ calls \in [Callers -> Call]
    /\ clock \in Times
    /\ rollbacks \in Nat

\* The admission looks at the latest permit only, and there is one.
LatestExists == Consumed = {} \/ \E key \in Consumed : IsLatest(key)

IInv ==
    /\ PermitsGood
    /\ CallsGood
    /\ LatestExists
    /\ IsFiniteSet(Consumed) /\ TotalBounded
    /\ PermitsSpaced
    /\ WindowBounded

\* A permit has a time, and its row has the milliseconds of that time.
LEMMA PermitTimes ==
    ASSUME PermitsGood, NEW key \in Consumed
    PROVE  /\ key \in Keys /\ taken[key] \in Times /\ taken[key] \in Nat
           /\ consumed[key] = Ms(taken[key]) /\ consumed[key] \in Nat
<1>1. key \in Keys /\ consumed[key] # Absent
  BY DEF Consumed
<1>2. taken[key] \in Times /\ consumed[key] = Ms(taken[key])
  BY <1>1 DEF PermitsGood
<1> QED
  BY <1>1, <1>2, MsBracket, Numbers

\* consume() accepts only what none of its checks refuses.
LEMMA AcceptedPasses ==
    ASSUME NEW key, NEW now, Decision(key, now) = "accepted"
    PROVE  /\ key \notin Consumed /\ ~TotalExhausted
           /\ ~RolledBack(now) /\ ~InCooldown(now) /\ ~WindowExhausted(now)
<1>1. key \notin Consumed
  BY DEF Decision
<1>2. ~TotalExhausted
  BY <1>1 DEF Decision
<1> QED
  BY <1>1, <1>2 DEF Decision

\* What an admission knows about every earlier permit: none is later, all are
\* at least min_interval away, and fewer than max_in_window are in the window.
LEMMA AdmissionKnows ==
    ASSUME IInv, NEW key \in Keys, NEW now \in Times,
           Decision(key, now) = "accepted"
    PROVE  /\ \A other \in Consumed : consumed[other] + MinInterval <= Ms(now)
           /\ Cardinality(InWindow(now)) < MaxInWindow
           /\ Cardinality(Consumed) < MaxTotal
<1>1. /\ ~TotalExhausted /\ ~RolledBack(now)
      /\ ~InCooldown(now) /\ ~WindowExhausted(now)
  BY AcceptedPasses
<1>2. ASSUME NEW other \in Consumed
      PROVE  consumed[other] + MinInterval <= Ms(now)
  <2>1. PICK latest \in Consumed : IsLatest(latest)
    BY DEF IInv, LatestExists
  <2>2. consumed[other] \in Nat /\ consumed[latest] \in Nat /\ Ms(now) \in Nat
    BY PermitTimes, MsBracket, Numbers DEF IInv
  <2>3. consumed[other] <= consumed[latest]
    BY <2>1 DEF IsLatest
  <2>4. ~(Ms(now) - consumed[latest] < MinInterval)
    BY <1>1, <2>1 DEF InCooldown
  <2> QED
    BY <2>2, <2>3, <2>4, Numbers
<1>3. Cardinality(InWindow(now)) < MaxInWindow
  <2>1. InWindow(now) \in SUBSET Consumed
    BY DEF InWindow
  <2>2. Cardinality(InWindow(now)) \in Nat
    BY <2>1, FS_Subset, FS_CardinalityType DEF IInv
  <2> QED
    BY <1>1, <2>2, Numbers DEF WindowExhausted
<1>4. Cardinality(Consumed) < MaxTotal
  <2>1. Cardinality(Consumed) \in Nat
    BY FS_CardinalityType DEF IInv
  <2> QED
    BY <1>1, <2>1, Numbers DEF TotalExhausted
<1> QED
  BY <1>2, <1>3, <1>4
-----------------------------------------------------------------------------
(* An admission keeps the invariant. *)

Admission(key, now) ==
    /\ Decision(key, now) = "accepted"
    /\ consumed' = [consumed EXCEPT ![key] = Stamp(now)]
    /\ taken' = [taken EXCEPT ![key] = now]

\* An admission adds one permit, with the caller's sample, and no other.
LEMMA AdmissionAdds ==
    ASSUME IInv, NEW key \in Keys, NEW now \in Times, Admission(key, now)
    PROVE  /\ PermitsGood'
           /\ Consumed' = Consumed \cup {key} /\ key \notin Consumed
           /\ consumed'[key] = Ms(now) /\ taken'[key] = now
           /\ \A other \in Consumed :
                  consumed'[other] = consumed[other] /\ taken'[other] = taken[other]
<1>1. key \notin Consumed
  BY AcceptedPasses DEF Admission
<1>2. now \in Nat /\ Ms(now) \in Nat
  BY MsBracket, Numbers
<1>3. Ms(now) # Absent /\ now # Absent
  BY <1>2, AbsentAssumption
<1>4. \A other \in Keys :
          /\ consumed'[other] = IF other = key THEN Ms(now) ELSE consumed[other]
          /\ taken'[other] = IF other = key THEN now ELSE taken[other]
  BY DEF Admission, IInv, PermitsGood, Stamp
<1>5. PermitsGood'
  <2>1. /\ consumed' = [other \in Keys |-> consumed'[other]]
        /\ taken' = [other \in Keys |-> taken'[other]]
    BY DEF Admission, IInv, PermitsGood
  <2> QED
    BY <1>3, <1>4, <2>1 DEF IInv, PermitsGood
<1>6. Consumed' = Consumed \cup {key}
  BY <1>3, <1>4 DEF Consumed
<1> QED
  BY <1>1, <1>4, <1>5, <1>6 DEF Consumed

\* The new permit is the latest one.
LEMMA AdmissionKeepsLatest ==
    ASSUME IInv, NEW key \in Keys, NEW now \in Times, Admission(key, now)
    PROVE  LatestExists'
<1>1. /\ Consumed' = Consumed \cup {key}
      /\ consumed'[key] = Ms(now)
      /\ \A other \in Consumed : consumed'[other] = consumed[other]
  BY AdmissionAdds
<1>2. \A other \in Consumed : consumed[other] + MinInterval <= Ms(now)
  BY AdmissionKnows DEF Admission
<1>3. \A other \in Consumed : consumed[other] \in Nat
  BY PermitTimes DEF IInv
<1>4. Ms(now) \in Nat
  BY MsBracket, Numbers
<1>5. \A other \in Consumed' : consumed'[other] <= consumed'[key]
  BY <1>1, <1>2, <1>3, <1>4, Numbers
<1> QED
  BY <1>1, <1>5 DEF LatestExists, IsLatest

\* There was room in the total for the new permit.
LEMMA AdmissionKeepsTotal ==
    ASSUME IInv, NEW key \in Keys, NEW now \in Times, Admission(key, now)
    PROVE  IsFiniteSet(Consumed') /\ TotalBounded'
<1>1. Consumed' = Consumed \cup {key} /\ key \notin Consumed
  BY AdmissionAdds
<1>2. /\ IsFiniteSet(Consumed \cup {key})
      /\ Cardinality(Consumed \cup {key}) = Cardinality(Consumed) + 1
  BY <1>1, FS_AddElement DEF IInv
<1>3. Cardinality(Consumed) < MaxTotal
  BY AdmissionKnows DEF Admission
<1>4. Cardinality(Consumed) \in Nat
  BY FS_CardinalityType DEF IInv
<1> QED
  BY <1>1, <1>2, <1>3, <1>4, Numbers DEF TotalBounded

\* The new permit keeps its distance from every earlier one.
LEMMA AdmissionKeepsSpacing ==
    ASSUME IInv, NEW key \in Keys, NEW now \in Times, Admission(key, now)
    PROVE  PermitsSpaced'
<1>1. /\ Consumed' = Consumed \cup {key} /\ taken'[key] = now
      /\ \A other \in Consumed : taken'[other] = taken[other]
  BY AdmissionAdds
<1>2. ASSUME NEW a \in Consumed
      PROVE  /\ taken[a] \in Nat /\ now \in Nat
             /\ now - taken[a] > (MinInterval - 1) * TicksPerMs
  <2>1. consumed[a] + MinInterval <= Ms(now) /\ consumed[a] = Ms(taken[a])
    BY AdmissionKnows, PermitTimes DEF Admission, IInv
  <2>2. taken[a] \in Nat /\ now \in Nat /\ MinInterval \in Int
    BY PermitTimes, Numbers DEF IInv
  <2> QED
    BY <2>1, <2>2, MsGap
<1>3. ASSUME NEW a \in Consumed, now <= taken[a]
      PROVE  taken[a] - now > (MinInterval - 1) * TicksPerMs
  <2>1. now - taken[a] > (MinInterval - 1) * TicksPerMs
    BY <1>2
  <2>2. /\ taken[a] \in Nat /\ now \in Nat
        /\ (MinInterval - 1) * TicksPerMs \in Int
    BY <1>2, Numbers
  <2> QED
    BY <1>3, <2>1, <2>2
<1>4. ASSUME NEW a \in Consumed', NEW b \in Consumed', a # b, taken'[a] <= taken'[b]
      PROVE  taken'[b] - taken'[a] > (MinInterval - 1) * TicksPerMs
  <2>1. CASE a \in Consumed /\ b \in Consumed
    BY <1>1, <1>4, <2>1 DEF IInv, PermitsSpaced
  <2>2. CASE a \in Consumed /\ b = key
    BY <1>1, <1>2, <2>2
  <2>3. CASE a = key /\ b \in Consumed
    BY <1>1, <1>3, <1>4, <2>3
  <2> QED
    BY <1>1, <1>4, <2>1, <2>2, <2>3
<1> QED
  BY <1>4 DEF PermitsSpaced

\* Too many permits in one window would all lie within the window of the
\* newest of them, which was not exhausted when it was given.
LEMMA AdmissionKeepsWindow ==
    ASSUME IInv, NEW key \in Keys, NEW now \in Times, Admission(key, now)
    PROVE  WindowBounded'
<1>1. /\ Consumed' = Consumed \cup {key} /\ taken'[key] = now
      /\ \A other \in Consumed : taken'[other] = taken[other]
  BY AdmissionAdds
<1> SUFFICES ASSUME NEW keys \in SUBSET Consumed', Cardinality(keys) > MaxInWindow
             PROVE  \E a, b \in keys :
                        taken'[b] - taken'[a] > (Window - 1) * TicksPerMs
  BY DEF WindowBounded
<1>2. CASE key \notin keys
  <2>1. keys \in SUBSET Consumed
    BY <1>1, <1>2
  <2>2. PICK a \in keys, b \in keys :
            taken[b] - taken[a] > (Window - 1) * TicksPerMs
    BY <2>1 DEF IInv, WindowBounded
  <2> QED
    BY <1>1, <2>1, <2>2
<1>3. CASE key \in keys
  <2> DEFINE earlier == keys \ {key}
  <2>1. earlier \in SUBSET Consumed
    BY <1>1
  <2>2. /\ Cardinality(earlier) = Cardinality(keys) - 1
        /\ Cardinality(keys) \in Nat
    <3>1. IsFiniteSet(keys)
      BY AdmissionKeepsTotal, FS_Subset
    <3> QED
      BY <1>3, <3>1, FS_RemoveElement, FS_CardinalityType
  <2>3. Cardinality(InWindow(now)) < MaxInWindow
    BY AdmissionKnows DEF Admission
  <2>4. IsFiniteSet(InWindow(now)) /\ Cardinality(InWindow(now)) \in Nat
    <3>1. InWindow(now) \in SUBSET Consumed
      BY DEF InWindow
    <3> QED
      BY <3>1, FS_Subset, FS_CardinalityType DEF IInv
  <2>5. ~(earlier \subseteq InWindow(now))
    <3>1. earlier \subseteq InWindow(now) =>
              Cardinality(earlier) <= Cardinality(InWindow(now))
      BY <2>4, FS_Subset
    <3> HIDE DEF earlier
    <3> QED
      BY <2>2, <2>3, <2>4, <3>1, Numbers
  <2>6. PICK a \in earlier : a \notin InWindow(now)
    BY <2>5
  <2>7. a \in Consumed /\ ~(consumed[a] > Ms(now - Window * TicksPerMs))
    BY <2>1, <2>6 DEF InWindow
  <2>8. /\ consumed[a] = Ms(taken[a]) /\ consumed[a] \in Nat
        /\ taken[a] \in Nat
    BY <2>7, PermitTimes DEF IInv
  <2>9. Ms(now - Window * TicksPerMs) \in Nat
    <3>1. now - Window * TicksPerMs \in Nat
      BY Numbers DEF Times
    <3> QED
      BY <3>1, MsBracket
  <2>10. now - taken[a] > (Window - 1) * TicksPerMs
    BY <2>7, <2>8, <2>9, MsCutoff
  <2> QED
    BY <1>1, <1>3, <2>6, <2>7, <2>10
<1> QED
  BY <1>2, <1>3
-----------------------------------------------------------------------------
(* Every step keeps the invariant. *)

\* A call under way names a key and holds a time the clock has shown.
LEMMA CallFields ==
    ASSUME IInv, NEW caller \in Callers, calls[caller] # Idle
    PROVE  calls[caller].key \in Keys /\ calls[caller].now \in Times
BY DEF IInv, CallsGood, Call

\* Ending a call, for whatever reason, keeps calls and clock good.
LEMMA CallEnds ==
    ASSUME CallsGood, NEW caller \in Callers,
           calls' = [calls EXCEPT ![caller] = Idle], UNCHANGED <<clock, rollbacks>>
    PROVE  CallsGood'
BY DEF CallsGood, Call

\* All that concerns the permits depends on the two tables only.
LEMMA PermitsUnchanged ==
    ASSUME IInv, UNCHANGED <<consumed, taken>>, CallsGood'
    PROVE  IInv'
<1>1. Consumed' = Consumed
  BY DEF Consumed
<1> QED
  BY <1>1 DEF IInv, PermitsGood, LatestExists, IsLatest, TotalBounded,
              PermitsSpaced, WindowBounded

\* A transaction that commits admits the sampled call, or changes no permit.
LEMMA CommitKeepsIInv ==
    ASSUME IInv, NEW caller \in Callers, CommitConsume(caller)
    PROVE  IInv'
<1> DEFINE key == calls[caller].key
           now == calls[caller].now
<1>1. CallsGood'
  BY CallEnds DEF CommitConsume, IInv
<1>2. CASE Decision(key, now) = "accepted"
  <2>1. key \in Keys /\ now \in Times
    BY CallFields DEF CommitConsume
  <2>2. Admission(key, now)
    BY <1>2 DEF CommitConsume, Admission
  <2> HIDE DEF key, now
  <2> QED
    BY <1>1, <2>1, <2>2, AdmissionAdds, AdmissionKeepsLatest, AdmissionKeepsTotal,
       AdmissionKeepsSpacing, AdmissionKeepsWindow DEF IInv
<1>3. CASE Decision(key, now) # "accepted"
  BY <1>1, <1>3, PermitsUnchanged DEF CommitConsume
<1> QED
  BY <1>2, <1>3

\* IInv is preserved by every step.
LEMMA NextKeepsIInv ==
    ASSUME IInv, [Next]_vars
    PROVE  IInv'
<1>1. ASSUME NEW caller \in Callers, NEW key \in Keys, BeginConsume(caller, key)
      PROVE  IInv'
  <2>1. CallsGood'
    BY <1>1 DEF BeginConsume, IInv, CallsGood, Call
  <2> QED
    BY <1>1, <2>1, PermitsUnchanged DEF BeginConsume
<1>2. ASSUME NEW caller \in Callers, Crash(caller)
      PROVE  IInv'
  BY <1>2, CallEnds, PermitsUnchanged DEF Crash, IInv
<1>3. CASE Tick
  <2>1. CallsGood'
    BY <1>3, Numbers DEF Tick, IInv, CallsGood, Times
  <2> QED
    BY <1>3, <2>1, PermitsUnchanged DEF Tick
<1>4. CASE Rollback
  <2>1. CallsGood'
    BY <1>4, Numbers DEF Rollback, IInv, CallsGood, Times
  <2> QED
    BY <1>4, <2>1, PermitsUnchanged DEF Rollback
<1>5. CASE UNCHANGED vars
  BY <1>5, PermitsUnchanged DEF vars, IInv, CallsGood
<1> QED
  BY <1>1, <1>2, <1>3, <1>4, <1>5, CommitKeepsIInv DEF Next

\* IInv is an inductive invariant of the budget.
LEMMA IInvIsInvariant == Spec => []IInv
<1>1. ASSUME Init
      PROVE  IInv
  <2>1. Consumed = {}
    BY <1>1 DEF Init, Consumed
  <2>2. PermitsGood /\ CallsGood
    BY <1>1, Numbers, AbsentAssumption, BoundsAssumption
       DEF Init, PermitsGood, CallsGood, Call, Times
  <2>3. IsFiniteSet(Consumed) /\ TotalBounded
    BY <2>1, FS_EmptySet, Numbers DEF TotalBounded
  <2>4. PermitsSpaced /\ LatestExists
    BY <2>1 DEF PermitsSpaced, LatestExists
  <2>5. WindowBounded
    <3>1. \A keys \in SUBSET Consumed : Cardinality(keys) = 0
      BY <2>1, FS_EmptySet
    <3> QED
      BY <3>1, Numbers DEF WindowBounded
  <2> QED
    BY <2>2, <2>3, <2>4, <2>5 DEF IInv
<1>2. IInv /\ [Next]_vars => IInv'
  BY NextKeepsIInv
<1> QED
  BY <1>1, <1>2, PTL DEF Spec
-----------------------------------------------------------------------------
(* The properties of Budget. *)

\* Tables, calls and clock have their types, and each row holds the
\* milliseconds of its caller's sample.
THEOREM TypeCorrect == Spec => []TypeOK
<1>1. ASSUME IInv
      PROVE  TypeOK
  <2>1. ASSUME NEW key \in Keys
        PROVE  /\ consumed[key] \in Int \cup {Absent}
               /\ taken[key] \in Times \cup {Absent}
               /\ consumed[key] = IF taken[key] = Absent THEN Absent ELSE Ms(taken[key])
    <3>1. CASE taken[key] = Absent
      BY <1>1, <3>1 DEF IInv, PermitsGood
    <3>2. CASE taken[key] # Absent
      <4>1. taken[key] \in Times /\ consumed[key] = Ms(taken[key])
        BY <1>1, <3>2 DEF IInv, PermitsGood
      <4>2. Ms(taken[key]) \in Int
        <5>1. taken[key] \in Nat
          BY <4>1, Numbers
        <5>2. Ms(taken[key]) \in Nat
          BY <5>1, MsBracket
        <5> QED
          BY <5>2
      <4> QED
        BY <3>2, <4>1, <4>2
    <3> QED
      BY <3>1, <3>2
  <2> QED
    BY <1>1, <2>1 DEF IInv, PermitsGood, CallsGood, TypeOK
<1> QED
  BY <1>1, IInvIsInvariant, PTL

\* No more than max_total permits are ever given, by any number of callers.
THEOREM TotalNeverExceeded == Spec => []TotalBounded
BY IInvIsInvariant, PTL DEF IInv

\* Two permits are never closer than min_interval, less the fraction of a
\* millisecond the table drops, though samples are old and clocks set back.
THEOREM PermitsAlwaysSpaced == Spec => []PermitsSpaced
BY IInvIsInvariant, PTL DEF IInv

\* No window, wherever it begins, holds more than max_in_window permits.
THEOREM WindowNeverExceeded == Spec => []WindowBounded
BY IInvIsInvariant, PTL DEF IInv

\* snapshot() computes on its own path what consume() would answer to a key it
\* has not seen, in every state and for every time.
THEOREM SnapshotAlwaysForetells == Spec => []SnapshotForetells
<1>1. ASSUME NEW key \in Keys \ Consumed, NEW now \in Times
      PROVE  Decision(key, now) = NextNewConsumption(now)
  <2> DEFINE latest == {consumed[k] : k \in {k \in Consumed : IsLatest(k)}}
  <2>1. RolledBack(now) <=> \E t \in latest : t > Ms(now)
    BY DEF RolledBack
  <2>2. InCooldown(now) <=> \E t \in latest : Ms(now) - t < MinInterval
    BY DEF InCooldown
  <2>3. WindowExhausted(now) <=> Cardinality(InWindow(now)) >= MaxInWindow
    BY DEF WindowExhausted
  <2> HIDE DEF latest
  <2>4. NextNewConsumption(now) =
            CASE TotalExhausted -> "total_exhausted"
              [] ~TotalExhausted /\ (\E t \in latest : t > Ms(now)) -> "clock_rollback"
              [] OTHER ->
                    IF \E t \in latest : Ms(now) - t < MinInterval THEN "cooldown"
                    ELSE IF Cardinality(InWindow(now)) >= MaxInWindow THEN "window_exhausted"
                    ELSE "accepted"
    BY DEF NextNewConsumption, latest
  <2>5. CASE TotalExhausted
    BY <2>4, <2>5 DEF Decision
  <2>6. CASE ~TotalExhausted
    BY <2>1, <2>2, <2>3, <2>4, <2>6 DEF Decision
  <2> QED
    BY <2>5, <2>6
<1>2. SnapshotForetells
  BY <1>1 DEF SnapshotForetells
<1> QED
  BY <1>2, PTL
-----------------------------------------------------------------------------
(* The table implements the allowance. *)

\* A whole number of milliseconds can be taken out of a truncation.
LEMMA MsShift ==
    ASSUME NEW t \in Nat, NEW n \in Nat, t - n * TicksPerMs \in Nat
    PROVE  Ms(t - n * TicksPerMs) = Ms(t) - n
<1> DEFINE T == TicksPerMs
           u == t - n * T
           x == Ms(t)
           y == Ms(u)
<1>1. T \in Nat \ {0} /\ u \in Nat /\ u = t - n * T /\ n * T = T * n
  BY Numbers
<1>2. /\ x \in Nat /\ T * x <= t /\ t < T * x + T
      /\ y \in Nat /\ T * y <= u /\ u < T * y + T
  <2> HIDE DEF u
  <2> QED
    BY <1>1, MsBracket
<1> HIDE DEF T, u, x, y
<1>3. /\ T * (y + n) = T * y + T * n /\ T * (y + n) \in Int
      /\ T * (y + n + 1) = T * (y + n) + T /\ T * (x + 1) = T * x + T
      /\ T * x \in Int /\ T * y \in Int /\ T * n \in Int
  BY <1>1, <1>2
<1>4. T * (y + n) < T * (x + 1) /\ T * x < T * (y + n + 1)
  <2> DEFINE tx == T * x
             ty == T * y
             tn == T * n
  <2>1. /\ tx \in Int /\ ty \in Int /\ tn \in Int /\ t \in Int /\ T \in Int
        /\ T * (y + n) = ty + tn /\ T * (x + 1) = tx + T
        /\ T * (y + n + 1) = ty + tn + T
        /\ u = t - tn /\ tx <= t /\ t < tx + T /\ ty <= u /\ u < ty + T
    BY <1>1, <1>2, <1>3
  <2> DEFINE a == T * (y + n)
             b == T * (x + 1)
             c == T * (y + n + 1)
  <2>2. a < b /\ tx < c
    <3> HIDE DEF tx, ty, tn, a, b, c
    <3> QED
      BY <2>1 DEF a, b, c
  <2> QED
    BY <2>2
<1>5. y + n < x + 1 /\ x < y + n + 1
  <2>1. \A i, j \in Int, k \in Nat : j <= i => k * j <= k * i
    BY SMT
  <2>2. ~(x + 1 <= y + n)
    <3>1. x + 1 <= y + n => T * (x + 1) <= T * (y + n)
      BY <1>1, <1>2, <2>1
    <3> QED
      BY <1>1, <1>2, <1>3, <1>4, <3>1
  <2>3. ~(y + n + 1 <= x)
    <3>1. y + n + 1 <= x => T * (y + n + 1) <= T * x
      BY <1>1, <1>2, <2>1
    <3> QED
      BY <1>1, <1>2, <1>3, <1>4, <3>1
  <2> QED
    BY <1>1, <1>2, <2>2, <2>3
<1>6. y = x - n
  BY <1>2, <1>5
<1> QED
  BY <1>6 DEF x, y, u, T

\* An admission is a grant: the store's window, counted back from the sample,
\* is the window before the permit.
LEMMA AdmissionIsGrant ==
    ASSUME IInv, NEW key \in Keys, NEW now \in Times, Admission(key, now)
    PROVE  Promise!Next
<1>1. Promise!Granted = Consumed
  BY DEF Promise!Granted, Consumed
<1>2. /\ key \notin Consumed /\ Ms(now) \in Nat
      /\ \A other \in Consumed : consumed[other] \in Nat
  BY AdmissionAdds, PermitTimes, MsBracket, Numbers DEF IInv
<1>3. /\ \A other \in Consumed : consumed[other] + MinInterval <= Ms(now)
      /\ Cardinality(InWindow(now)) < MaxInWindow
      /\ Cardinality(Consumed) < MaxTotal
  BY AdmissionKnows DEF Admission
<1>4. Promise!Recent(Ms(now)) = InWindow(now)
  <2>1. Ms(now - Window * TicksPerMs) = Ms(now) - Window
    <3>1. now - Window * TicksPerMs \in Nat
      BY Numbers DEF Times
    <3> QED
      BY <3>1, MsShift, Numbers
  <2>2. ASSUME NEW other \in Consumed
        PROVE  consumed[other] > Ms(now) - Window <=> Ms(now) - consumed[other] < Window
    BY <1>2, Numbers
  <2> QED
    BY <1>1, <2>1, <2>2 DEF Promise!Recent, InWindow
<1>5. \A other \in Consumed : Ms(now) - consumed[other] >= MinInterval
  BY <1>2, <1>3, Numbers
<1>6. \A S : Promise!Cardinality(S) = Cardinality(S)
  BY DEF Promise!Cardinality, Cardinality
<1>7. Promise!Grant(key, Ms(now))
  BY <1>1, <1>2, <1>3, <1>4, <1>5, <1>6 DEF Promise!Grant, Admission, Stamp
<1> QED
  BY <1>7 DEF Promise!Next

\* The table of the budget implements the allowance, for every policy, every
\* resolution of the clock, and any number of callers.
THEOREM BudgetImplementsAllowance == Spec => ImplementsAllowance
<1>1. Init => Promise!Init
  BY DEF Init, Promise!Init
<1>2. ASSUME IInv, [Next]_vars
      PROVE  [Promise!Next]_consumed
  <2>1. ASSUME NEW caller \in Callers, CommitConsume(caller)
        PROVE  [Promise!Next]_consumed
    <3> DEFINE key == calls[caller].key
               now == calls[caller].now
    <3>1. CASE Decision(key, now) = "accepted"
      <4>1. key \in Keys /\ now \in Times
        BY <1>2, <2>1, CallFields DEF CommitConsume
      <4>2. Admission(key, now)
        BY <2>1, <3>1 DEF CommitConsume, Admission
      <4> HIDE DEF key, now
      <4> QED
        BY <1>2, <4>1, <4>2, AdmissionIsGrant
    <3>2. CASE Decision(key, now) # "accepted"
      BY <2>1, <3>2 DEF CommitConsume
    <3> QED
      BY <3>1, <3>2
  <2> QED
    BY <1>2, <2>1 DEF Next, vars, BeginConsume, Crash, Tick, Rollback
<1> QED
  BY <1>1, <1>2, IInvIsInvariant, PTL DEF Spec, ImplementsAllowance, Promise!Spec
=============================================================================
