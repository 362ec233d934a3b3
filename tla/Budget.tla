--------------------------------- MODULE Budget ---------------------------------
(***************************************************************************)
(* persistence::sqlite::BudgetStore: the durable admission of scarce       *)
(* effects, for one scope and the one policy its callers use.              *)
(*                                                                         *)
(* consume() is handed a time its caller has sampled before, and is then   *)
(* one transaction (BEGIN IMMEDIATE ... COMMIT, one step here): other      *)
(* callers, and the clock, may go on in between.  The clock counts ticks,  *)
(* the table whole milliseconds.                                           *)
(*                                                                         *)
(* Operators named Faulty... are variants with a plausible bug; no action  *)
(* uses them.                                                              *)
(***************************************************************************)
EXTENDS Integers, FiniteSets

CONSTANTS
    Keys,           \* idempotency keys
    Callers,        \* threads or processes that call consume()
    MaxTotal,       \* Policy::max_total
    MaxInWindow,    \* Policy::max_in_window
    Window,         \* Policy::window, in milliseconds
    MinInterval,    \* Policy::min_interval, in milliseconds
    TicksPerMs,     \* resolution of the system clock
    Origin,         \* the earliest time the clock shows, in ticks
    Horizon,        \* bound on the clock, in ticks
    MaxRollbacks,   \* bound on the backward steps of the system clock
    Absent          \* "no row"

\* valid_policy().
ASSUME PolicyAssumption ==
    /\ MaxTotal \in Nat \ {0} /\ MaxInWindow \in 1 .. MaxTotal
    /\ Window \in Nat \ {0} /\ MinInterval \in 0 .. Window
ASSUME TicksAssumption == TicksPerMs \in Nat \ {0}
\* Between one window and the epoch, milliseconds() rounds the cutoff the
\* other way; the clock is taken to be past that.
ASSUME OriginAssumption == Origin \in Nat /\ Origin >= Window * TicksPerMs
ASSUME BoundsAssumption == Horizon \in Nat /\ Horizon >= Origin /\ MaxRollbacks \in Nat
ASSUME AbsentAssumption == Absent \notin Int

VARIABLES
    consumed,   \* budget_consumptions, key to consumed_at_ms: durable
    taken,      \* history: the time, in ticks, each permit was asked for at
    calls,      \* the calls in progress: the key and the sample of the clock
    clock,      \* the system clock, in ticks
    rollbacks   \* how often the clock has been set back

vars == <<consumed, taken, calls, clock, rollbacks>>

Times == Origin .. Horizon

Idle == [op |-> "idle"]

Call == {Idle} \cup [op : {"consume"}, key : Keys, now : Times]
-----------------------------------------------------------------------------
\* duration_cast to milliseconds, toward zero.
Ms(t) == IF t >= 0 THEN t \div TicksPerMs ELSE -((-t) \div TicksPerMs)

FaultyStamp(now) == now

Stamp(now) == Ms(now)

Consumed == {key \in Keys : consumed[key] # Absent}

FaultyTotalExhausted == Cardinality(Consumed) > MaxTotal

TotalExhausted == Cardinality(Consumed) >= MaxTotal

FaultyIsLatest(key) == \A other \in Consumed : consumed[key] <= consumed[other]

\* MAX(consumed_at_ms).
IsLatest(key) == \A other \in Consumed : consumed[other] <= consumed[key]

RolledBack(now) == \E key \in Consumed : IsLatest(key) /\ consumed[key] > Ms(now)

InCooldown(now) ==
    \E key \in Consumed : IsLatest(key) /\ Ms(now) - consumed[key] < MinInterval

FaultyInWindow(now) ==
    {key \in Consumed : consumed[key] > Ms(now - Window * TicksPerMs) + 1}

InWindow(now) ==
    {key \in Consumed : consumed[key] > Ms(now - Window * TicksPerMs)}

WindowExhausted(now) == Cardinality(InWindow(now)) >= MaxInWindow

\* What consume() answers, in the order in which it decides.
Decision(key, now) ==
    CASE key \in Consumed -> "duplicate"
      [] key \notin Consumed /\ TotalExhausted -> "total_exhausted"
      [] OTHER ->
            IF RolledBack(now) THEN "clock_rollback"
            ELSE IF InCooldown(now) THEN "cooldown"
            ELSE IF WindowExhausted(now) THEN "window_exhausted"
            ELSE "accepted"

FaultyNextNewConsumption(now) ==
    CASE TotalExhausted -> "total_exhausted"
      [] ~TotalExhausted /\ WindowExhausted(now) -> "window_exhausted"
      [] OTHER ->
            IF RolledBack(now) THEN "clock_rollback"
            ELSE IF InCooldown(now) THEN "cooldown"
            ELSE "accepted"

\* Snapshot::next_new_consumption, from the usage the snapshot has read.
NextNewConsumption(now) ==
    LET latest == {consumed[key] : key \in {k \in Consumed : IsLatest(k)}} IN
    CASE TotalExhausted -> "total_exhausted"
      [] ~TotalExhausted /\ (\E t \in latest : t > Ms(now)) -> "clock_rollback"
      [] OTHER ->
            IF \E t \in latest : Ms(now) - t < MinInterval THEN "cooldown"
            ELSE IF Cardinality(InWindow(now)) >= MaxInWindow THEN "window_exhausted"
            ELSE "accepted"
-----------------------------------------------------------------------------
Init ==
    /\ consumed = [key \in Keys |-> Absent]
    /\ taken = [key \in Keys |-> Absent]
    /\ calls = [caller \in Callers |-> Idle]
    /\ clock = Origin
    /\ rollbacks = 0

BeginConsume(caller, key) ==
    /\ calls[caller] = Idle
    /\ calls' = [calls EXCEPT ![caller] = [op |-> "consume", key |-> key, now |-> clock]]
    /\ UNCHANGED <<consumed, taken, clock, rollbacks>>

CommitConsume(caller) ==
    LET key == calls[caller].key
        now == calls[caller].now
    IN
    /\ calls[caller] # Idle
    /\ IF Decision(key, now) = "accepted"
       THEN /\ consumed' = [consumed EXCEPT ![key] = Stamp(now)]
            /\ taken' = [taken EXCEPT ![key] = now]
       ELSE UNCHANGED <<consumed, taken>>
    /\ calls' = [calls EXCEPT ![caller] = Idle]
    /\ UNCHANGED <<clock, rollbacks>>

\* A caller dies before its transaction has committed, or is not granted the
\* write lock in time, or a statement fails: nothing is consumed.
Crash(caller) ==
    /\ calls[caller] # Idle
    /\ calls' = [calls EXCEPT ![caller] = Idle]
    /\ UNCHANGED <<consumed, taken, clock, rollbacks>>

Tick ==
    /\ clock < Horizon
    /\ clock' = clock + 1
    /\ UNCHANGED <<consumed, taken, calls, rollbacks>>

Rollback ==
    /\ rollbacks < MaxRollbacks
    /\ clock' \in Origin .. clock - 1
    /\ rollbacks' = rollbacks + 1
    /\ UNCHANGED <<consumed, taken, calls>>

Next ==
    \/ \E caller \in Callers :
        \/ \E key \in Keys : BeginConsume(caller, key)
        \/ CommitConsume(caller)
        \/ Crash(caller)
    \/ Tick
    \/ Rollback

Spec == Init /\ [][Next]_vars
-----------------------------------------------------------------------------
\* Types, and each row holds its caller's sample in milliseconds.
TypeOK ==
    /\ consumed \in [Keys -> Int \cup {Absent}]
    /\ taken \in [Keys -> Times \cup {Absent}]
    /\ \A key \in Keys :
        consumed[key] = IF taken[key] = Absent THEN Absent ELSE Ms(taken[key])
    /\ calls \in [Callers -> Call]
    /\ clock \in Times
    /\ rollbacks \in Nat

\* No more permits than max_total are ever given, under any number of callers.
TotalBounded == Cardinality(Consumed) <= MaxTotal

\* Two permits are never closer than min_interval, up to the millisecond the
\* table drops, also when callers overtake each other or the clock is set back.
PermitsSpaced ==
    \A a, b \in Consumed :
        (a # b /\ taken[a] <= taken[b]) =>
            taken[b] - taken[a] > (MinInterval - 1) * TicksPerMs

\* More than max_in_window permits never fall into one window, up to the
\* millisecond the table drops: the window rolls, and does not restart.
WindowBounded ==
    \A keys \in SUBSET Consumed :
        Cardinality(keys) > MaxInWindow =>
            \E a, b \in keys : taken[b] - taken[a] > (Window - 1) * TicksPerMs

\* snapshot() "reports ... the result that a hypothetical brand-new idempotency
\* key would receive": its decision is consume()'s, at any time asked for.
SnapshotForetells ==
    \A key \in Keys \ Consumed, now \in Times :
        Decision(key, now) = NextNewConsumption(now)

Promise == INSTANCE Allowance WITH
    Times <- {Ms(t) : t \in Times}, Unused <- Absent, granted <- consumed

\* The table implements the allowance: with samples of the clock that are old
\* when they are used, callers that overtake each other or die, and a clock
\* that is set back, permits are given one at a time, in the order of their
\* times and within the policy, and stand as they were given.
ImplementsAllowance == Promise!Spec
=============================================================================
