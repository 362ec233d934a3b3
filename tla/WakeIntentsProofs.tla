--------------------------- MODULE WakeIntentsProofs ---------------------------
(* Theorems about WakeIntents for every set of identifiers, sources, callers  *)
(* and delays, every total and every bound on the clock.                      *)
EXTENDS WakeIntents, FiniteSetTheorems, WellFoundedInduction, TLAPS

\* A row the runtime may have committed while the clock never showed more
\* than seen: the CHECK constraints of the table, and nothing fired early.
GoodRow(row, seen) ==
    /\ row \in Row
    /\ row.due_at > row.accepted_at
    /\ row.status = "scheduled" <=> row.terminal_at = NoTime
    /\ row.status = "fired" =>
           row.terminal_at >= row.due_at /\ row.due_at <= seen
    /\ row.status = "revoked" =>
           row.accepted_at <= row.terminal_at /\ row.terminal_at < row.due_at

\* A call under way: its sample has been shown, its deadline is representable.
GoodCall(call, seen) ==
    /\ call \in Call
    /\ call # Idle => call.now <= seen
    /\ call.op = "accept" => call.delay > 0 /\ call.now + call.delay <= Horizon

RowsGood ==
    /\ intents = [id \in Ids |-> intents[id]]
    /\ \A id \in Ids : intents[id] # Absent => GoodRow(intents[id], latest)

CallsGood ==
    /\ calls = [client \in Callers |-> calls[client]]
    /\ \A client \in Callers : GoodCall(calls[client], latest)

ClockOK ==
    clock \in Times /\ latest \in Times /\ clock <= latest /\ rollbacks \in Nat

IInv == RowsGood /\ CallsGood /\ ClockOK

\* The bounds are natural numbers.
LEMMA Bounds == Horizon \in Nat /\ MaxTotal \in Nat /\ MaxRollbacks \in Nat
BY BoundsAssumption

\* Rows and calls stay good when the clock has shown more.
LEMMA GoodLater ==
    ASSUME NEW seen \in Int, NEW more \in Int, seen <= more
    PROVE  /\ \A row : GoodRow(row, seen) => GoodRow(row, more)
           /\ \A call : GoodCall(call, seen) => GoodCall(call, more)
<1>1. ASSUME NEW row, GoodRow(row, seen)
      PROVE  GoodRow(row, more)
  BY <1>1, Bounds DEF GoodRow, Row, Times
<1>2. ASSUME NEW call, GoodCall(call, seen)
      PROVE  GoodCall(call, more)
  <2>1. call # Idle => call.now \in Int
    BY <1>2, Bounds DEF GoodCall, Call, Times
  <2> QED
    BY <1>2, <2>1 DEF GoodCall
<1> QED
  BY <1>1, <1>2

\* What the three kinds of calls have sampled.
LEMMA CallFields ==
    ASSUME NEW seen \in Times, NEW call, GoodCall(call, seen), call # Idle
    PROVE  /\ call.now \in Times /\ call.now <= seen
           /\ call.op = "accept" =>
                  /\ call.id \in Ids /\ call.source \in Sources
                  /\ call.now + call.delay \in Times
                  /\ call.now + call.delay > call.now
           /\ call.op = "revoke" => call.id \in Ids
<1>1. Horizon \in Nat /\ call.now <= seen
  BY Bounds DEF GoodCall
<1>2. CASE call \in [op : {"accept"}, now : Times, id : Ids,
                     source : Sources, delay : Delays]
  <2>1. /\ call.op = "accept" /\ call.now \in 0 .. Horizon /\ call.delay \in Int
        /\ call.id \in Ids /\ call.source \in Sources
    BY <1>2, DelaysAssumption DEF Times
  <2>2. call.delay > 0 /\ call.now + call.delay <= Horizon
    BY <2>1 DEF GoodCall
  <2> QED
    BY <1>1, <2>1, <2>2 DEF Times
<1>3. CASE call \in [op : {"reconcile"}, now : Times]
  BY <1>1, <1>3
<1>4. CASE call \in [op : {"revoke"}, now : Times, id : Ids]
  BY <1>1, <1>4
<1> QED
  BY <1>2, <1>3, <1>4 DEF GoodCall, Call

\* An admitted intent is a good row.
LEMMA AcceptedGood ==
    ASSUME NEW seen \in Times, NEW source \in Sources, NEW now \in Times,
           NEW due \in Times, due > now
    PROVE  GoodRow([source |-> source, accepted_at |-> now, due_at |-> due,
                    status |-> "scheduled", terminal_at |-> NoTime], seen)
BY DEF GoodRow, Row, Statuses

\* Ending a row changes its status and its end, and nothing else.
LEMMA EndedRow ==
    ASSUME NEW row \in Row, NEW status \in Statuses, NEW now \in Times
    PROVE  /\ Ended(row, status, now) \in Row
           /\ Ended(row, status, now).status = status
           /\ Ended(row, status, now).terminal_at = now
           /\ Ended(row, status, now).source = row.source
           /\ Ended(row, status, now).due_at = row.due_at
           /\ Ended(row, status, now).accepted_at = row.accepted_at
BY DEF Ended, Row

\* A scheduled row may end fired at or after its deadline, revoked before it,
\* and in review at any time.
LEMMA EndedGood ==
    ASSUME NEW seen \in Times, NEW now \in Times, now <= seen,
           NEW row, GoodRow(row, seen),
           NEW status \in {"fired", "revoked", "manual_review"},
           status = "fired" => row.due_at <= now,
           status = "revoked" => row.accepted_at <= now /\ now < row.due_at
    PROVE  GoodRow(Ended(row, status, now), seen)
<1> DEFINE ended == Ended(row, status, now)
<1>1. row \in Row /\ status \in Statuses
  BY DEF GoodRow, Statuses
<1>2. /\ ended \in Row /\ ended.status = status /\ ended.terminal_at = now
      /\ ended.due_at = row.due_at /\ ended.accepted_at = row.accepted_at
  BY <1>1, EndedRow
<1>3. row.due_at \in Int /\ row.accepted_at \in Int /\ now \in Int /\ seen \in Int
  BY <1>1, Bounds DEF Row, Times
<1>4. now # NoTime
  BY <1>3, NoTimeAssumption
<1> HIDE DEF ended
<1>5. GoodRow(ended, seen)
  BY <1>2, <1>3, <1>4 DEF GoodRow
<1> QED
  BY <1>5 DEF ended

\* What reconcile() makes of a row: the row itself, or the end of a scheduled
\* one; in any case a good row.
LEMMA ReconciledGood ==
    ASSUME NEW seen \in Times, NEW now \in Times, now <= seen,
           NEW row, GoodRow(row, seen)
    PROVE  /\ GoodRow(Reconciled(row, now), seen)
           /\ \/ Reconciled(row, now) = row
              \/ /\ row.status = "scheduled"
                 /\ \E status \in {"fired", "manual_review"} :
                        Reconciled(row, now) = Ended(row, status, now)
BY EndedGood DEF Reconciled

\* What revoke() makes of a scheduled row: an end of one of three kinds.
LEMMA RevokedGood ==
    ASSUME NEW seen \in Times, NEW now \in Times, now <= seen,
           NEW row, GoodRow(row, seen)
    PROVE  /\ GoodRow(Revoked(row, now), seen)
           /\ \E status \in {"fired", "revoked", "manual_review"} :
                  Revoked(row, now) = Ended(row, status, now)
<1>1. row.due_at \in Int /\ row.accepted_at \in Int /\ now \in Int
  BY Bounds DEF GoodRow, Row, Times
<1>2. CASE now < row.accepted_at
  BY <1>2, EndedGood DEF Revoked
<1>3. CASE ~(now < row.accepted_at) /\ now >= row.due_at
  BY <1>1, <1>3, EndedGood DEF Revoked
<1>4. CASE ~(now < row.accepted_at) /\ ~(now >= row.due_at)
  BY <1>1, <1>4, EndedGood DEF Revoked
<1> QED
  BY <1>2, <1>3, <1>4
-----------------------------------------------------------------------------
(* The commits: each keeps the rows good and is a step of the ledger.         *)

LedgerStep == [Ledger!Next]_intents

\* The ledger counts as the runtime does.
LEMMA LedgerCardinality ==
    \A S : Ledger!Cardinality(S) = Cardinality(S)
BY DEF Ledger!Cardinality, Cardinality

\* Several scheduled rows that end at one time are one step of the ledger.
LEMMA EndsAreLedgerStep ==
    ASSUME intents = [id \in Ids |-> intents[id]],
           intents' = [id \in Ids |-> intents'[id]],
           NEW now \in Times,
           \A id \in Ids :
               \/ intents'[id] = intents[id]
               \/ /\ id \in Scheduled
                  /\ \E status \in {"fired", "revoked", "manual_review"} :
                         intents'[id] = Ended(intents[id], status, now)
    PROVE  LedgerStep
<1> DEFINE ids == {id \in Ids : intents'[id] # intents[id]}
           outcome == [id \in ids |->
               CHOOSE status \in {"fired", "revoked", "manual_review"} :
                   intents'[id] = Ended(intents[id], status, now)]
<1>1. CASE ids = {}
  <2>1. \A id \in Ids : intents'[id] = intents[id]
    BY <1>1
  <2>2. intents' = intents
    BY <2>1
  <2> QED
    BY <2>2 DEF LedgerStep
<1>2. CASE ids # {}
  <2>1. ids \in (SUBSET Ledger!Scheduled) \ {{}}
    BY <1>2 DEF Ledger!Scheduled, Ledger!Accepted, Scheduled, Stored
  <2>2. \A id \in ids :
            /\ outcome[id] \in Ledger!Terminal
            /\ intents'[id] = Ended(intents[id], outcome[id], now)
    BY DEF Ledger!Terminal
  <2>3. outcome \in [ids -> Ledger!Terminal]
    BY <2>2
  <2>4. intents' = [id \in Ids |->
            IF id \in ids
            THEN [intents[id] EXCEPT !.status = outcome[id], !.terminal_at = now]
            ELSE intents[id]]
    BY <2>2 DEF Ended
  <2> HIDE DEF ids, outcome
  <2>5. Ledger!End
    BY <2>1, <2>3, <2>4 DEF Ledger!End
  <2> QED
    BY <2>5 DEF LedgerStep, Ledger!Next
<1> QED
  BY <1>1, <1>2

\* A commit of accept() stores a good row under a free id and a new source.
LEMMA AcceptStep ==
    ASSUME IInv, NEW client \in Callers, CommitAccept(client)
    PROVE  RowsGood' /\ LedgerStep
<1> DEFINE call == calls[client]
           row == [source |-> call.source, accepted_at |-> call.now,
                   due_at |-> call.now + call.delay,
                   status |-> "scheduled", terminal_at |-> NoTime]
<1>1. latest' = latest /\ latest \in Times
  BY DEF CommitAccept, Return, IInv, ClockOK
<1>2. CASE ~Admits(call)
  BY <1>1, <1>2 DEF CommitAccept, IInv, RowsGood, LedgerStep
<1>3. CASE Admits(call)
  <2>1. /\ call.id \in Ids /\ call.source \in Sources /\ call.now \in Times
        /\ call.now + call.delay \in Times /\ call.now + call.delay > call.now
    <3>1. GoodCall(call, latest) /\ call # Idle /\ call.op = "accept"
      BY DEF IInv, CallsGood, CommitAccept, Idle
    <3> QED
      BY <1>1, <3>1, CallFields
  <2>2. intents' = [intents EXCEPT ![call.id] = row]
    BY <1>3 DEF CommitAccept
  <2>3. GoodRow(row, latest)
    BY <1>1, <2>1, AcceptedGood
  <2>4. RowsGood'
    <3> HIDE DEF row, call
    <3> QED
      BY <1>1, <2>1, <2>2, <2>3 DEF IInv, RowsGood
  <2>5. Ledger!Accept(call.id, call.source)
    <3>1. /\ call.id \notin Ledger!Accepted
          /\ \A other \in Ledger!Accepted : intents[other].source # call.source
          /\ Cardinality(Ledger!Accepted) < MaxTotal
      BY <1>3 DEF Admits, Stored, Ledger!Accepted
    <3> QED
      BY <2>1, <2>2, <3>1, LedgerCardinality DEF Ledger!Accept
  <2>6. LedgerStep
    BY <2>1, <2>5 DEF LedgerStep, Ledger!Next
  <2> QED
    BY <2>4, <2>6
<1> QED
  BY <1>2, <1>3

\* A commit of reconcile() ends rows that are due or from the future.
LEMMA ReconcileStep ==
    ASSUME IInv, NEW client \in Callers, CommitReconcile(client)
    PROVE  RowsGood' /\ LedgerStep
<1> DEFINE now == calls[client].now
<1>1. latest' = latest /\ latest \in Times /\ now \in Times /\ now <= latest
  <2>1. GoodCall(calls[client], latest) /\ calls[client] # Idle
    BY DEF IInv, CallsGood, CommitReconcile, Idle
  <2>2. latest' = latest /\ latest \in Times
    BY DEF CommitReconcile, Return, IInv, ClockOK
  <2> QED
    BY <2>1, <2>2, CallFields
<1>2. intents' = [id \in Ids |->
          IF id \in Stored THEN Reconciled(intents[id], now) ELSE Absent]
  BY DEF CommitReconcile
<1> HIDE DEF now
<1>3. ASSUME NEW id \in Ids
      PROVE  /\ intents'[id] # Absent => GoodRow(intents'[id], latest)
             /\ \/ intents'[id] = intents[id]
                \/ /\ id \in Scheduled
                   /\ \E status \in {"fired", "manual_review"} :
                          intents'[id] = Ended(intents[id], status, now)
  <2>1. CASE id \in Stored
    <3>1. intents'[id] = Reconciled(intents[id], now)
      BY <1>2, <2>1
    <3>2. GoodRow(intents[id], latest)
      BY <2>1 DEF IInv, RowsGood, Stored
    <3> QED
      BY <1>1, <2>1, <3>1, <3>2, ReconciledGood DEF Scheduled
  <2>2. CASE id \notin Stored
    BY <1>2, <2>2 DEF Stored
  <2> QED
    BY <2>1, <2>2
<1>4. intents' = [id \in Ids |-> intents'[id]]
  BY <1>2
<1>5. RowsGood'
  BY <1>1, <1>3, <1>4 DEF RowsGood
<1>6. LedgerStep
  BY <1>1, <1>3, <1>4, EndsAreLedgerStep DEF IInv, RowsGood
<1> QED
  BY <1>5, <1>6

\* A commit of revoke() ends one scheduled row, or changes nothing.
LEMMA RevokeStep ==
    ASSUME IInv, NEW client \in Callers, CommitRevoke(client)
    PROVE  RowsGood' /\ LedgerStep
<1> DEFINE i == calls[client].id
           now == calls[client].now
<1>1. latest' = latest /\ latest \in Times
  BY DEF CommitRevoke, Return, IInv, ClockOK
<1>2. now \in Times /\ now <= latest
  <2>1. GoodCall(calls[client], latest) /\ calls[client] # Idle
    BY DEF IInv, CallsGood, CommitRevoke, Idle
  <2> QED
    BY <1>1, <2>1, CallFields
<1>3. CASE i \notin Scheduled
  BY <1>1, <1>3 DEF CommitRevoke, IInv, RowsGood, LedgerStep
<1>4. CASE i \in Scheduled
  <2>1. i \in Ids /\ GoodRow(intents[i], latest)
    BY <1>4 DEF IInv, RowsGood, Scheduled, Stored
  <2>2. intents' = [intents EXCEPT ![i] = Revoked(intents[i], now)]
    BY <1>4 DEF CommitRevoke
  <2> HIDE DEF i, now
  <2>3. /\ GoodRow(Revoked(intents[i], now), latest)
        /\ \E status \in {"fired", "revoked", "manual_review"} :
               Revoked(intents[i], now) = Ended(intents[i], status, now)
    BY <1>1, <1>2, <2>1, RevokedGood
  <2>4. intents' = [id \in Ids |-> intents'[id]]
    BY <2>2 DEF IInv, RowsGood
  <2>5. \A id \in Ids :
            intents'[id] = IF id = i THEN Revoked(intents[i], now) ELSE intents[id]
    BY <2>2 DEF IInv, RowsGood
  <2>6. RowsGood'
    BY <1>1, <2>3, <2>4, <2>5 DEF IInv, RowsGood
  <2>7. LedgerStep
    BY <1>2, <1>4, <2>3, <2>4, <2>5, EndsAreLedgerStep DEF IInv, RowsGood
  <2> QED
    BY <2>6, <2>7
<1> QED
  BY <1>3, <1>4
-----------------------------------------------------------------------------
(* The other half of the invariant: the calls under way and the clock.        *)

\* A call that samples the clock now is a good call.
LEMMA SampleGood ==
    ASSUME IInv, NEW client \in Callers, NEW call, Sample(client, call),
           call \in Call, call.now = clock,
           call.op = "accept" => ValidDelay(call.delay)
    PROVE  IInv'
<1>1. GoodCall(call, latest)
  <2>1. call.op = "accept" => call.delay > 0 /\ call.now + call.delay <= Horizon
    <3>1. CASE call.op = "accept"
      <4>1. call.delay \in Delays
        <5>1. CASE call \in [op : {"accept"}, now : Times, id : Ids,
                             source : Sources, delay : Delays]
          BY <5>1
        <5>2. call # Idle
          BY <3>1 DEF Idle
        <5>3. call \notin [op : {"reconcile"}, now : Times]
          BY <3>1
        <5>4. call \notin [op : {"revoke"}, now : Times, id : Ids]
          BY <3>1
        <5> QED
          BY <5>1, <5>2, <5>3, <5>4 DEF Call
      <4>2. call.delay \in Int
        BY <4>1, DelaysAssumption
      <4>3. clock \in Int /\ Horizon \in Int
        BY Bounds DEF IInv, ClockOK, Times
      <4>4. call.delay > 0 /\ clock <= Horizon - call.delay
        BY <3>1 DEF ValidDelay
      <4> QED
        BY <4>2, <4>3, <4>4
    <3> QED
      BY <3>1
  <2> QED
    BY <2>1 DEF GoodCall, IInv, ClockOK
<1>2. calls' = [calls EXCEPT ![client] = call]
  BY DEF Sample
<1>3. CallsGood'
  BY <1>1, <1>2 DEF IInv, CallsGood, Sample
<1> QED
  BY <1>3 DEF IInv, RowsGood, ClockOK, Sample

\* A call that returns leaves nothing behind.
LEMMA ReturnGood ==
    ASSUME IInv, NEW client \in Callers, Return(client)
    PROVE  CallsGood' /\ ClockOK'
<1>1. GoodCall(Idle, latest)
  BY DEF GoodCall, Call, Idle
<1>2. CallsGood'
  BY <1>1 DEF IInv, CallsGood, Return
<1> QED
  BY <1>2 DEF IInv, ClockOK, Return

\* The clock may be set back; what it has shown only grows.
LEMMA ClockGood ==
    ASSUME IInv, Tick \/ Rollback
    PROVE  IInv'
<1>1. ClockOK' /\ latest \in Int /\ latest' \in Int /\ latest <= latest'
  BY Bounds DEF IInv, ClockOK, Times, Tick, Rollback
<1>2. /\ \A row : GoodRow(row, latest) => GoodRow(row, latest')
      /\ \A call : GoodCall(call, latest) => GoodCall(call, latest')
  BY <1>1, GoodLater
<1>3. UNCHANGED <<intents, calls>>
  BY DEF Tick, Rollback
<1>4. RowsGood'
  BY <1>2, <1>3 DEF IInv, RowsGood
<1>5. CallsGood'
  BY <1>2, <1>3 DEF IInv, CallsGood
<1> QED
  BY <1>1, <1>4, <1>5 DEF IInv

\* Every step keeps the invariant and is a step of the ledger or leaves it be.
LEMMA StepIsGood ==
    ASSUME IInv, [Next]_vars
    PROVE  IInv' /\ LedgerStep
<1>1. ASSUME NEW client \in Callers, NEW id \in Ids, NEW source \in Sources,
             NEW delay \in Delays, BeginAccept(client, id, source, delay)
      PROVE  IInv' /\ LedgerStep
  <2> DEFINE call == [op |-> "accept", now |-> clock, id |-> id,
                      source |-> source, delay |-> delay]
  <2>1. call \in Call /\ call.now = clock /\ call.delay = delay
    BY DEF Call, IInv, ClockOK
  <2>2. Sample(client, call) /\ ValidDelay(call.delay)
    BY <1>1, <2>1 DEF BeginAccept
  <2> HIDE DEF call
  <2> QED
    BY <2>1, <2>2, SampleGood DEF Sample, LedgerStep
<1>2. ASSUME NEW client \in Callers, BeginReconcile(client)
      PROVE  IInv' /\ LedgerStep
  <2> DEFINE call == [op |-> "reconcile", now |-> clock]
  <2>1. call \in Call /\ call.now = clock /\ call.op = "reconcile"
    BY DEF Call, IInv, ClockOK
  <2>2. Sample(client, call)
    BY <1>2 DEF BeginReconcile
  <2> HIDE DEF call
  <2> QED
    BY <2>1, <2>2, SampleGood DEF Sample, LedgerStep
<1>3. ASSUME NEW client \in Callers, NEW id \in Ids, BeginRevoke(client, id)
      PROVE  IInv' /\ LedgerStep
  <2> DEFINE call == [op |-> "revoke", now |-> clock, id |-> id]
  <2>1. call \in Call /\ call.now = clock /\ call.op = "revoke"
    BY DEF Call, IInv, ClockOK
  <2>2. Sample(client, call)
    BY <1>3 DEF BeginRevoke
  <2> HIDE DEF call
  <2> QED
    BY <2>1, <2>2, SampleGood DEF Sample, LedgerStep
<1>4. ASSUME NEW client \in Callers, CommitAccept(client)
      PROVE  IInv' /\ LedgerStep
  BY <1>4, AcceptStep, ReturnGood DEF CommitAccept, IInv
<1>5. ASSUME NEW client \in Callers, CommitReconcile(client)
      PROVE  IInv' /\ LedgerStep
  BY <1>5, ReconcileStep, ReturnGood DEF CommitReconcile, IInv
<1>6. ASSUME NEW client \in Callers, CommitRevoke(client)
      PROVE  IInv' /\ LedgerStep
  BY <1>6, RevokeStep, ReturnGood DEF CommitRevoke, IInv
<1>7. ASSUME NEW client \in Callers, Fail(client)
      PROVE  IInv' /\ LedgerStep
  <2>1. UNCHANGED intents /\ latest' = latest
    BY <1>7 DEF Fail, Return
  <2> QED
    BY <1>7, <2>1, ReturnGood DEF Fail, IInv, RowsGood, LedgerStep
<1>8. CASE Crash
  <2>1. GoodCall(Idle, latest)
    BY DEF GoodCall, Call, Idle
  <2> QED
    BY <1>8, <2>1 DEF Crash, IInv, RowsGood, CallsGood, ClockOK, LedgerStep
<1>9. CASE Tick \/ Rollback
  BY <1>9, ClockGood DEF Tick, Rollback, LedgerStep
<1>10. CASE UNCHANGED vars
  BY <1>10 DEF vars, IInv, RowsGood, CallsGood, ClockOK, LedgerStep
<1> QED
  BY <1>1, <1>2, <1>3, <1>4, <1>5, <1>6, <1>7, <1>8, <1>9, <1>10 DEF Next

\* IInv is an inductive invariant of the runtime.
LEMMA IInvIsInvariant == Spec => []IInv
<1>1. Init => IInv
  <2>1. GoodCall(Idle, 0)
    BY DEF GoodCall, Call, Idle
  <2> QED
    BY <2>1, Bounds
       DEF Init, IInv, RowsGood, CallsGood, ClockOK, Times
<1>2. IInv /\ [Next]_vars => IInv'
  BY StepIsGood
<1> QED
  BY <1>1, <1>2, PTL DEF Spec
-----------------------------------------------------------------------------
(* The properties of WakeIntents. *)

\* Rows, calls and clock have their types; no stored deadline lies past the
\* range of the clock, whatever delays clients ask for.
THEOREM TypeCorrect == Spec => []TypeOK
<1>1. IInv => TypeOK
  BY DEF IInv, RowsGood, CallsGood, ClockOK, GoodRow, GoodCall, TypeOK
<1> QED
  BY <1>1, IInvIsInvariant, PTL

\* No commit of the runtime is refused by a CHECK constraint of wake_intents.
THEOREM SchemaAlwaysHolds == Spec => []SchemaHolds
<1>1. IInv => SchemaHolds
  BY DEF IInv, RowsGood, GoodRow, SchemaHolds, Stored
<1> QED
  BY <1>1, IInvIsInvariant, PTL

\* No intent fires before the clock has shown its deadline, however old the
\* samples are that reconcile() and revoke() commit with.
THEOREM FiresNeverEarly == Spec => []NeverEarly
<1>1. IInv => NeverEarly
  BY DEF IInv, RowsGood, GoodRow, NeverEarly, Stored
<1> QED
  BY <1>1, IInvIsInvariant, PTL

\* The runtime implements the ledger: one acceptance per source, the lifetime
\* total without refunds, rows that stay, and one end of each.
THEOREM LedgerImplemented == Spec => ImplementsLedger
<1>1. Init => Ledger!Init
  BY DEF Init, Ledger!Init
<1>2. IInv /\ [Next]_vars => [Ledger!Next]_intents
  BY StepIsGood DEF LedgerStep
<1> QED
  BY <1>1, <1>2, IInvIsInvariant, PTL DEF Spec, ImplementsLedger, Ledger!Spec
-----------------------------------------------------------------------------
(* What the ledger promises, read off the rows. *)

\* Two rows never share a source, and the lifetime total is not exceeded.
SourcesUnique ==
    \A a, b \in Stored : intents[a].source = intents[b].source => a = b

TotalBounded == IsFiniteSet(Stored) /\ Cardinality(Stored) <= MaxTotal

\* An acceptance adds one row, an end none, and both keep the sources.
LEMMA LedgerStepKeeps ==
    ASSUME IInv, IInv', LedgerStep, SourcesUnique, TotalBounded
    PROVE  SourcesUnique' /\ TotalBounded'
<1>1. CASE UNCHANGED intents
  BY <1>1 DEF SourcesUnique, TotalBounded, Stored
<1>2. ASSUME NEW id \in Ids, NEW source \in Sources, Ledger!Accept(id, source)
      PROVE  SourcesUnique' /\ TotalBounded'
  <2>1. PICK accepted_at \in Times, due_at \in Times :
            intents' = [intents EXCEPT ![id] =
                [source |-> source, accepted_at |-> accepted_at, due_at |-> due_at,
                 status |-> "scheduled", terminal_at |-> NoTime]]
    BY <1>2 DEF Ledger!Accept
  <2>2. /\ id \notin Stored
        /\ \A other \in Stored : intents[other].source # source
        /\ Cardinality(Stored) < MaxTotal
    BY <1>2, LedgerCardinality DEF Ledger!Accept, Ledger!Accepted, Stored
  <2>3. intents'[id].source = source /\ \A o \in Ids \ {id} : intents'[o] = intents[o]
    BY <2>1 DEF IInv, RowsGood
  <2>4. intents'[id] # Absent
    <3>1. intents'[id] \in [source : {source}, accepted_at : Times, due_at : Times,
                            status : {"scheduled"}, terminal_at : {NoTime}]
      BY <2>1 DEF IInv, RowsGood
    <3>2. intents'[id] \in Row
      BY <3>1 DEF Row, Statuses
    <3> QED
      BY <3>2, AbsentAssumption
  <2>5. Stored' = Stored \cup {id}
    BY <2>3, <2>4 DEF Stored
  <2>6. SourcesUnique'
    BY <2>2, <2>3, <2>5 DEF SourcesUnique, Stored
  <2>7. TotalBounded'
    <3>1. IsFiniteSet(Stored \cup {id}) /\ Cardinality(Stored \cup {id}) = Cardinality(Stored) + 1
      BY <2>2, FS_AddElement DEF TotalBounded
    <3>2. Cardinality(Stored) \in Nat
      BY FS_CardinalityType DEF TotalBounded
    <3> QED
      BY <2>2, <2>5, <3>1, <3>2, Bounds DEF TotalBounded
  <2> QED
    BY <2>6, <2>7
<1>3. CASE Ledger!End
  <2>1. ASSUME NEW id \in Ids
        PROVE  /\ id \in Stored' <=> id \in Stored
               /\ id \in Stored => intents'[id].source = intents[id].source
    <3>1. \/ intents'[id] = intents[id]
          \/ /\ id \in Stored
             /\ \E status \in Ledger!Terminal, now \in Times :
                    intents'[id] = Ended(intents[id], status, now)
      <4>1. PICK ids \in (SUBSET Ledger!Scheduled) \ {{}}, now \in Times :
                 \E outcome \in [ids -> Ledger!Terminal] :
                     intents' = [i \in Ids |->
                         IF i \in ids THEN Ended(intents[i], outcome[i], now)
                         ELSE intents[i]]
        BY <1>3 DEF Ledger!End, Ended
      <4>2. CASE id \in ids
        BY <4>1, <4>2 DEF Ledger!Scheduled, Ledger!Accepted, Stored
      <4>3. CASE id \notin ids
        BY <4>1, <4>3
      <4> QED
        BY <4>2, <4>3
    <3>2. ASSUME NEW status \in Ledger!Terminal, NEW now \in Times, id \in Stored,
                 intents'[id] = Ended(intents[id], status, now)
          PROVE  id \in Stored' /\ intents'[id].source = intents[id].source
      <4>1. intents[id] \in Row /\ status \in Statuses
        BY <3>2 DEF IInv, RowsGood, GoodRow, Stored, Ledger!Terminal, Statuses
      <4>2. intents'[id] \in Row /\ intents'[id].source = intents[id].source
        BY <3>2, <4>1, EndedRow
      <4> QED
        BY <4>2, AbsentAssumption DEF Stored
    <3> QED
      BY <3>1, <3>2 DEF Stored
  <2>2. Stored' = Stored
    BY <2>1 DEF Stored
  <2> QED
    BY <2>1, <2>2 DEF SourcesUnique, TotalBounded, Stored
<1> QED
  BY <1>1, <1>2, <1>3 DEF LedgerStep, Ledger!Next

\* Whatever revocations and ends there were, no source is accepted twice and
\* no more than max_total intents are ever accepted: ends refund nothing.
THEOREM TotalAndSourcesKept == Spec => [](SourcesUnique /\ TotalBounded)
<1>1. Init => SourcesUnique /\ TotalBounded
  <2>1. Init => Stored = {}
    BY DEF Init, Stored
  <2> QED
    BY <2>1, FS_EmptySet, Bounds DEF SourcesUnique, TotalBounded
<1>2. IInv /\ IInv' /\ SourcesUnique /\ TotalBounded /\ [Next]_vars
          => (SourcesUnique /\ TotalBounded)'
  BY StepIsGood, LedgerStepKeeps
<1> QED
  BY <1>1, <1>2, IInvIsInvariant, PTL DEF Spec
-----------------------------------------------------------------------------
(* The scheduler is armed with next_scheduled_at(): why it is never armed     *)
(* again with a deadline that a reconcile() has just seen pass.               *)

\* A reconcile() that commits leaves no scheduled intent that was due at its
\* sample, and next_scheduled_at() then names a later time, and an intent's.
ReconcileLeavesNoneDue ==
    [][\A client \in Callers :
          CommitReconcile(client) =>
              /\ \A id \in Scheduled' : intents'[id].due_at > calls[client].now
              /\ IF Scheduled' = {} THEN NextScheduledAt' = NoTime
                 ELSE NextScheduledAt' > calls[client].now]_vars

\* The earliest deadline is that of a scheduled intent.
LEMMA NextIsScheduled ==
    ASSUME IInv
    PROVE  /\ Scheduled = {} => NextScheduledAt = NoTime
           /\ Scheduled # {} =>
                  \E id \in Scheduled : /\ NextScheduledAt = intents[id].due_at
                                        /\ intents[id].due_at \in Times
<1>1. CASE Scheduled = {}
  BY <1>1 DEF NextScheduledAt
<1>2. CASE Scheduled # {}
  <2> DEFINE S == {intents[id].due_at : id \in Scheduled}
  <2>1. \A id \in Scheduled : intents[id].due_at \in Times
    BY DEF IInv, RowsGood, GoodRow, Row, Scheduled, Stored
  <2>2. S \subseteq Nat /\ S # {}
    BY <1>2, <2>1, Bounds DEF Times
  <2>3. PICK x \in S : \A y \in S : ~ (<<y, x>> \in OpToRel(<, Nat))
    BY <2>2, NatLessThanWellFounded, WFMin
  <2>4. ASSUME NEW y \in S PROVE x <= y
    <3>1. x \in Nat /\ y \in Nat
      BY <2>2
    <3>2. ~ (y < x)
      BY <2>3, <3>1 DEF OpToRel
    <3> QED
      BY <3>1, <3>2
  <2>5. \A id \in Scheduled : x <= intents[id].due_at
    BY <2>4
  <2>6. NextScheduledAt =
            CHOOSE t \in S : \A id \in Scheduled : t <= intents[id].due_at
    BY <1>2 DEF NextScheduledAt
  <2>7. NextScheduledAt \in S
    <3> HIDE DEF S
    <3> QED
      BY <2>5, <2>6
  <2> QED
    BY <1>2, <2>1, <2>7
<1> QED
  BY <1>1, <1>2

\* After a reconcile() the owner has something to wait for, or nothing at all:
\* no deadline its sample had reached is left to be armed again.
THEOREM ReconcileNeverSpins == Spec => ReconcileLeavesNoneDue
<1>1. ASSUME IInv, IInv', NEW client \in Callers, CommitReconcile(client)
      PROVE  /\ \A id \in Scheduled' : intents'[id].due_at > calls[client].now
             /\ IF Scheduled' = {} THEN NextScheduledAt' = NoTime
                ELSE NextScheduledAt' > calls[client].now
  <2> DEFINE now == calls[client].now
  <2>1. now \in Times
    BY <1>1, CallFields DEF IInv, CallsGood, ClockOK, CommitReconcile, Idle
  <2>2. ASSUME NEW id \in Scheduled' PROVE intents'[id].due_at > now
    <3>1. id \in Stored /\ intents'[id] = Reconciled(intents[id], now)
      <4>1. intents' = [o \in Ids |->
                IF o \in Stored THEN Reconciled(intents[o], now) ELSE Absent]
        BY <1>1 DEF CommitReconcile
      <4>2. id \in Ids /\ intents'[id] # Absent
        BY DEF Scheduled, Stored
      <4> HIDE DEF now
      <4> QED
        BY <4>1, <4>2
    <3>2. intents[id] \in Row /\ intents'[id].status = "scheduled"
      BY <1>1, <3>1 DEF Scheduled, Stored, IInv, RowsGood, GoodRow
    <3> DEFINE row == intents[id]
    <3> HIDE DEF now, row
    <3>3. \A status \in {"fired", "manual_review"} :
              Ended(row, status, now).status = status
      BY <3>2 DEF Ended, Row, row
    <3>4. intents'[id] = row /\ ~(row.due_at <= now)
      BY <3>1, <3>2, <3>3 DEF Reconciled, row
    <3>5. row.due_at \in Int /\ now \in Int
      BY <2>1, <3>2, Bounds DEF Row, Times, row
    <3> QED
      BY <3>4, <3>5
  <2>3. (IInv => /\ Scheduled = {} => NextScheduledAt = NoTime
                 /\ Scheduled # {} =>
                        \E id \in Scheduled : /\ NextScheduledAt = intents[id].due_at
                                              /\ intents[id].due_at \in Times)'
    BY NextIsScheduled, PTL
  <2> QED
    BY <1>1, <2>2, <2>3
<1>2. IInv /\ IInv' =>
        [\A client \in Callers :
          CommitReconcile(client) =>
              /\ \A id \in Scheduled' : intents'[id].due_at > calls[client].now
              /\ IF Scheduled' = {} THEN NextScheduledAt' = NoTime
                 ELSE NextScheduledAt' > calls[client].now]_vars
  BY <1>1
<1> QED
  BY <1>2, IInvIsInvariant, PTL DEF ReconcileLeavesNoneDue
=============================================================================
