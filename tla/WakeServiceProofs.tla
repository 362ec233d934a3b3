--------------------------- MODULE WakeServiceProofs ---------------------------
(* Theorems about WakeService for any number of clients and intents.  The     *)
(* steps of the scheduler are those of SchedulerProofs, which are used here.  *)
EXTENDS WakeService, SchedulerProofs, WellFoundedInduction

Callers == Clients \cup {Owner}

\* What an accept() under way was sampled with is a deadline in range.
CallsInRange ==
    \A c \in Callers :
        calls[c].op = "accept" =>
            calls[c].delay > 0 /\ calls[c].now + calls[c].delay <= Horizon

\* A client announces what it has accepted before it calls again.
AnnouncesFirst ==
    \A c \in Clients : calls[c] # Wakes!Idle => announced[c] = NoDeadline

\* The inductive invariant.
ServiceInv ==
    /\ ServiceTypeOK
    /\ awaited \in [Waiters -> Times \cup {NoDeadline}]
    /\ CallsInRange
    /\ AnnouncesFirst
    /\ pc[Owner] = "returned_stopped" => stopped
    /\ ArmedInTime
    /\ NoLostWakeup
-----------------------------------------------------------------------------
(* The calls of the wake runtime. *)

\* The three calls, and what is known of each.
LEMMA Calls ==
    /\ Wakes!Idle \in Wakes!Call /\ Wakes!Idle.op = "idle"
    /\ \A now \in Times, id \in Ids, delay \in Delays :
           [op |-> "accept", now |-> now, id |-> id, source |-> id, delay |-> delay]
               \in Wakes!Call
    /\ \A now \in Times : [op |-> "reconcile", now |-> now] \in Wakes!Call
    /\ \A now \in Times, id \in Ids :
           [op |-> "revoke", now |-> now, id |-> id] \in Wakes!Call
    /\ \A call \in Wakes!Call :
        /\ call.op = "accept" =>
               /\ call.now \in Times /\ call.id \in Ids
               /\ call.source \in Ids /\ call.delay \in Delays
        /\ call.op = "reconcile" => call.now \in Times
        /\ call.op = "revoke" => call.now \in Times /\ call.id \in Ids
<1>1. Wakes!Times = Times
  BY DEF Wakes!Times, Times
<1>2. Wakes!Idle \in Wakes!Call /\ Wakes!Idle.op = "idle"
  BY DEF Wakes!Call, Wakes!Idle
<1>3. ASSUME NEW now \in Times, NEW id \in Ids, NEW delay \in Delays
      PROVE  [op |-> "accept", now |-> now, id |-> id, source |-> id, delay |-> delay]
                 \in Wakes!Call
  BY <1>1 DEF Wakes!Call
<1>4. ASSUME NEW now \in Times
      PROVE  [op |-> "reconcile", now |-> now] \in Wakes!Call
  BY <1>1 DEF Wakes!Call
<1>5. ASSUME NEW now \in Times, NEW id \in Ids
      PROVE  [op |-> "revoke", now |-> now, id |-> id] \in Wakes!Call
  BY <1>1 DEF Wakes!Call
<1>6. ASSUME NEW call \in Wakes!Call
      PROVE  /\ call.op = "accept" =>
                    /\ call.now \in Times /\ call.id \in Ids
                    /\ call.source \in Ids /\ call.delay \in Delays
             /\ call.op = "reconcile" => call.now \in Times
             /\ call.op = "revoke" => call.now \in Times /\ call.id \in Ids
  <2>1. CASE call = Wakes!Idle
    BY <1>2, <2>1
  <2>2. CASE call \in [op : {"accept"}, now : Wakes!Times, id : Ids,
                       source : Ids, delay : Delays]
    BY <1>1, <2>2
  <2>3. CASE call \in [op : {"reconcile"}, now : Wakes!Times]
    BY <1>1, <2>3
  <2>4. CASE call \in [op : {"revoke"}, now : Wakes!Times, id : Ids]
    BY <1>1, <2>4
  <2> QED
    BY <2>1, <2>2, <2>3, <2>4 DEF Wakes!Call
<1> QED
  BY <1>2, <1>3, <1>4, <1>5, <1>6

\* The types of the wake runtime's part of the state.
WakesTypes ==
    /\ intents \in [Ids -> Wakes!Row \cup {Absent}]
    /\ calls \in [Callers -> Wakes!Call]
    /\ latest \in Times

\* With the clock and the count of its steps back they are its type invariant.
LEMMA WakesTypesSuffice ==
    /\ Wakes!TypeOK <=> WakesTypes /\ clock \in Times /\ rollbacks \in Nat
    /\ (Wakes!TypeOK)' <=> WakesTypes' /\ clock' \in Times /\ rollbacks' \in Nat
<1>1. Wakes!Times = Times
  BY DEF Wakes!Times, Times
<1> QED
  BY <1>1 DEF WakesTypes, Wakes!TypeOK, Callers

\* A row lies in the range of the clock.
LEMMA DueInRange ==
    ASSUME WakesTypes, NEW id \in Wakes!Scheduled
    PROVE  intents[id] \in Wakes!Row /\ intents[id].due_at \in Times
<1>1. intents[id] \in Wakes!Row
  BY DEF WakesTypes, Wakes!Scheduled, Wakes!Stored
<1> QED
  BY <1>1 DEF Wakes!Row, Wakes!Times, Times

\* Sampling the clock touches no row and no other call.
LEMMA SampleTyped ==
    ASSUME WakesTypes, CallsInRange, NEW c \in Callers, NEW call \in Wakes!Call,
           Wakes!Sample(c, call),
           call.op = "accept" => call.delay > 0 /\ call.now + call.delay <= Horizon
    PROVE  /\ WakesTypes' /\ CallsInRange' /\ UNCHANGED intents
           /\ calls[c] = Wakes!Idle
           /\ \A d \in Callers \ {c} : calls'[d] = calls[d]
<1>1. calls' = [calls EXCEPT ![c] = call] /\ UNCHANGED <<intents, latest>>
      /\ calls[c] = Wakes!Idle
  BY DEF Wakes!Sample
<1>2. /\ calls' \in [Callers -> Wakes!Call]
      /\ calls'[c] = call
      /\ \A d \in Callers \ {c} : calls'[d] = calls[d]
  BY <1>1 DEF WakesTypes
<1> QED
  BY <1>1, <1>2 DEF WakesTypes, CallsInRange

\* Nor does the return from a call.
LEMMA ReturnTyped ==
    ASSUME WakesTypes, CallsInRange, NEW c \in Callers, Wakes!Return(c),
           intents' \in [Ids -> Wakes!Row \cup {Absent}]
    PROVE  /\ WakesTypes' /\ CallsInRange'
           /\ calls'[c] = Wakes!Idle
           /\ \A d \in Callers \ {c} : calls'[d] = calls[d]
<1>1. calls' = [calls EXCEPT ![c] = Wakes!Idle] /\ UNCHANGED latest
  BY DEF Wakes!Return
<1>2. /\ calls' \in [Callers -> Wakes!Call]
      /\ calls'[c] = Wakes!Idle
      /\ \A d \in Callers \ {c} : calls'[d] = calls[d]
  BY <1>1, Calls DEF WakesTypes
<1>3. calls'[c].op # "accept"
  BY <1>2, Calls
<1> QED
  BY <1>1, <1>2, <1>3 DEF WakesTypes, CallsInRange

\* No scheduled intent is new, and none has another deadline.
NothingNew ==
    \A id \in Wakes!Scheduled' :
        id \in Wakes!Scheduled /\ intents'[id].due_at = intents[id].due_at

\* An acceptance brings at most the intent of its call, with the deadline its
\* caller computes as well.
LEMMA AcceptStep ==
    ASSUME WakesTypes, CallsInRange, NEW c \in Callers, Wakes!CommitAccept(c)
    PROVE  /\ intents' \in [Ids -> Wakes!Row \cup {Absent}]
           /\ calls[c].op = "accept" /\ calls[c].now + calls[c].delay \in Times
           /\ \A id \in Wakes!Scheduled' :
                  \/ id \in Wakes!Scheduled /\ intents'[id].due_at = intents[id].due_at
                  \/ /\ Wakes!Admits(calls[c])
                     /\ intents'[id].due_at = calls[c].now + calls[c].delay
<1> DEFINE call == calls[c]
           due == call.now + call.delay
           row == [source |-> call.source, accepted_at |-> call.now, due_at |-> due,
                   status |-> "scheduled", terminal_at |-> NoDeadline]
<1>1. call \in Wakes!Call /\ call.op = "accept"
  BY DEF WakesTypes, Wakes!CommitAccept
<1>2. /\ call.now \in Times /\ call.id \in Ids /\ call.source \in Ids
      /\ call.delay \in Delays
  BY <1>1, Calls
<1>3. due \in Times
  <2>1. call.delay > 0 /\ due <= Horizon
    BY <1>1 DEF CallsInRange
  <2>2. call.delay \in Int /\ call.now \in Nat /\ Horizon \in Nat
    BY <1>2, WakesAssumption, Numbers
  <2> HIDE DEF call
  <2> QED
    BY <2>1, <2>2 DEF Times
<1>4. row \in Wakes!Row
  <2>1. call.now \in Wakes!Times /\ due \in Wakes!Times
    BY <1>2, <1>3 DEF Wakes!Times, Times
  <2> HIDE DEF due
  <2> QED
    BY <1>2, <2>1 DEF Wakes!Row, Wakes!Statuses
<1>5. intents' = IF Wakes!Admits(call) THEN [intents EXCEPT ![call.id] = row] ELSE intents
  BY DEF Wakes!CommitAccept
<1>6. row.due_at = due
  OBVIOUS
<1> HIDE DEF row, due
<1>7. intents' \in [Ids -> Wakes!Row \cup {Absent}]
  BY <1>2, <1>4, <1>5 DEF WakesTypes
<1>8. ASSUME NEW id \in Wakes!Scheduled'
      PROVE  \/ id \in Wakes!Scheduled /\ intents'[id].due_at = intents[id].due_at
             \/ Wakes!Admits(call) /\ intents'[id].due_at = due
  <2>1. id \in Ids /\ intents'[id] # Absent /\ intents'[id].status = "scheduled"
    BY <1>8 DEF Wakes!Scheduled, Wakes!Stored
  <2>2. CASE intents'[id] = intents[id]
    BY <2>1, <2>2 DEF Wakes!Scheduled, Wakes!Stored
  <2>3. CASE intents'[id] # intents[id]
    <3>1. Wakes!Admits(call) /\ intents'[id] = row
      BY <1>2, <1>5, <2>1, <2>3 DEF WakesTypes
    <3> QED
      BY <1>6, <3>1
  <2> QED
    BY <2>2, <2>3
<1> QED
  BY <1>1, <1>3, <1>7, <1>8 DEF due

\* Reconciliation and revocation only end intents.
LEMMA EndStep ==
    ASSUME WakesTypes, NEW c \in Callers,
           Wakes!CommitReconcile(c) \/ Wakes!CommitRevoke(c)
    PROVE  intents' \in [Ids -> Wakes!Row \cup {Absent}] /\ NothingNew
<1> DEFINE now == calls[c].now
<1>1. now \in Wakes!Times /\ (calls[c].op = "revoke" => calls[c].id \in Ids)
  BY Calls DEF WakesTypes, Wakes!CommitReconcile, Wakes!CommitRevoke, Wakes!Times, Times
<1> HIDE DEF now
<1>2. ASSUME NEW row \in Wakes!Row, NEW status \in {"fired", "revoked", "manual_review"}
      PROVE  /\ Wakes!Ended(row, status, now) \in Wakes!Row
             /\ Wakes!Ended(row, status, now).status # "scheduled"
  BY <1>1 DEF Wakes!Ended, Wakes!Row, Wakes!Statuses
<1>3. ASSUME NEW row \in Wakes!Row
      PROVE  /\ Wakes!Reconciled(row, now) \in Wakes!Row
             /\ \/ Wakes!Reconciled(row, now) = row
                \/ Wakes!Reconciled(row, now).status # "scheduled"
             /\ Wakes!Revoked(row, now) \in Wakes!Row
             /\ Wakes!Revoked(row, now).status # "scheduled"
  BY <1>2 DEF Wakes!Reconciled, Wakes!Revoked
<1>4. ASSUME NEW id \in Ids
      PROVE  /\ intents'[id] \in Wakes!Row \cup {Absent}
             /\ \/ intents'[id] = intents[id]
                \/ intents'[id] = Absent \/ intents'[id].status # "scheduled"
  <2>1. intents[id] # Absent => intents[id] \in Wakes!Row
    BY DEF WakesTypes
  <2>2. CASE Wakes!CommitReconcile(c)
    <3>1. intents'[id] = IF id \in Wakes!Stored THEN Wakes!Reconciled(intents[id], now)
                         ELSE Absent
      BY <2>2 DEF Wakes!CommitReconcile, now
    <3> QED
      BY <1>3, <2>1, <3>1 DEF Wakes!Stored
  <2>3. CASE Wakes!CommitRevoke(c)
    <3>1. \/ intents'[id] = intents[id]
          \/ id \in Wakes!Scheduled /\ intents'[id] = Wakes!Revoked(intents[id], now)
      BY <2>3 DEF Wakes!CommitRevoke, WakesTypes, now
    <3> QED
      BY <1>3, <2>1, <3>1 DEF Wakes!Scheduled, Wakes!Stored, WakesTypes
  <2> QED
    BY <2>2, <2>3
<1>5. intents' = [id \in Ids |-> intents'[id]]
  BY DEF Wakes!CommitReconcile, Wakes!CommitRevoke, WakesTypes
<1>6. intents' \in [Ids -> Wakes!Row \cup {Absent}]
  BY <1>4, <1>5
<1>7. NothingNew
  BY <1>4 DEF NothingNew, Wakes!Scheduled, Wakes!Stored
<1> QED
  BY <1>6, <1>7
-----------------------------------------------------------------------------
(* The scheduler in the service. *)

\* The steps of the scheduler that the service takes.
SchedulerStep ==
    \/ \E at \in Times : Request(at)
    \/ SetInterrupted
    \/ Stop
    \/ pc[Owner] = "idle" /\ CallWait(Owner)
    \/ Enter(Owner) \/ Resume(Owner) \/ Timeout(Owner) \/ SpuriousWake(Owner)
    \/ Tick
    \/ UNCHANGED vars

\* The scheduler's part of the invariant.
SchedulerInv ==
    /\ IInv
    /\ NoLostWakeup
    /\ pc[Owner] = "returned_stopped" => stopped

\* The scheduler is not stopped, or it stays so; it looks at a deadline it
\* has, or at an earlier one, or has woken the owner for it; and the owner
\* stays where wait() has returned until it goes on by itself.
SchedulerForesees ==
    /\ stopped => stopped'
    /\ deadline # NoDeadline /\ ~stopped' =>
           \/ deadline' # NoDeadline /\ deadline' <= deadline
           \/ pc'[Owner] = "returned_due"
    /\ pc[Owner] \in {"returned_due", "returned_interrupted"} => pc'[Owner] = pc[Owner]

\* One turn of the loop in wait() returns with a due deadline, or keeps it.
LEMMA LoopForesees ==
    ASSUME IInv, Loop(Owner), stopped' = stopped, pc[Owner] \notin Outside
    PROVE  /\ pc'[Owner] = "returned_stopped" => stopped'
           /\ SchedulerForesees
<1>1. Owner \in Waiters
  BY OwnerAssumption
<1>2. deadline # NoDeadline => deadline \in Int
  BY BoundsAssumption DEF IInv, TypeOK, Times
<1>3. CASE stopped /\ pc' = [pc EXCEPT ![Owner] = "returned_stopped"]
  BY <1>1, <1>3 DEF IInv, TypeOK, SchedulerForesees, Outside
<1>4. CASE pc' = [pc EXCEPT ![Owner] = "returned_due"]
  BY <1>1, <1>4 DEF IInv, TypeOK, SchedulerForesees, Outside
<1>5. CASE /\ UNCHANGED deadline
           /\ \/ pc' = [pc EXCEPT ![Owner] = "returned_interrupted"]
              \/ pc' = [pc EXCEPT ![Owner] = BlockAs]
  <2>1. pc'[Owner] # "returned_stopped"
    BY <1>1, <1>5 DEF IInv, TypeOK, BlockAs
  <2> QED
    BY <1>2, <1>5, <2>1 DEF SchedulerForesees, Outside
<1> QED
  BY <1>3, <1>4, <1>5 DEF Loop

\* What a notification does to the owner: it stays outside of wait(), or it
\* stays inside.
LEMMA NotifyOwner ==
    ASSUME IInv, NotifyOne \/ NotifyAll
    PROVE  \/ pc'[Owner] = pc[Owner]
           \/ pc[Owner] \notin Outside /\ pc'[Owner] \notin Outside
<1>1. \/ pc'[Owner] = pc[Owner]
      \/ Owner \in Blocked /\ pc'[Owner] = Signalled(pc[Owner])
  BY NotifyMoves, OwnerAssumption DEF IInv, TypeOK
<1> QED
  BY <1>1 DEF Blocked, Signalled, Outside

\* The steps of the scheduler keep its part of the invariant.
LEMMA SchedulerPart ==
    ASSUME SchedulerInv, SchedulerStep
    PROVE  SchedulerInv' /\ SchedulerForesees /\ rollbacks' = rollbacks
<1>1. Owner \in Waiters
  BY OwnerAssumption
<1>2. Step \/ UNCHANGED vars
  BY <1>1 DEF SchedulerStep, Step, ThreadStep
<1>3. IInv /\ IInv' /\ NoLostWakeup'
  BY <1>2, StepKeepsIInv, StepKeepsNoLostWakeup, OwnerAssumption DEF SchedulerInv
<1>4. deadline # NoDeadline => deadline \in Int
  BY <1>3, BoundsAssumption DEF IInv, TypeOK, Times
<1>5. ASSUME UNCHANGED <<stopped, deadline>>,
             \/ pc'[Owner] = pc[Owner]
             \/ pc[Owner] \notin Outside /\ pc'[Owner] \notin Outside
      PROVE  /\ pc'[Owner] = "returned_stopped" => stopped'
             /\ SchedulerForesees
  BY <1>4, <1>5 DEF SchedulerInv, SchedulerForesees, Outside
<1>6. ASSUME NEW at \in Times, Request(at)
      PROVE  /\ pc'[Owner] = "returned_stopped" => stopped'
             /\ SchedulerForesees
  <2>1. /\ deadline' = at /\ at \in Int /\ NoDeadline \notin Int
        /\ deadline # NoDeadline => at < deadline
        /\ stopped' = stopped /\ NotifyOne
    BY <1>6, BoundsAssumption, NoDeadlineAssumption DEF Request, Takes, NotifyRequest, Times
  <2>2. \/ pc'[Owner] = pc[Owner]
        \/ pc[Owner] \notin Outside /\ pc'[Owner] \notin Outside
    BY <1>3, <2>1, NotifyOwner
  <2>3. deadline # NoDeadline => deadline' # NoDeadline /\ deadline' <= deadline
    BY <1>4, <2>1
  <2> QED
    BY <2>1, <2>2, <2>3 DEF SchedulerInv, SchedulerForesees, Outside
<1>7. CASE SetInterrupted
  BY <1>3, <1>5, <1>7, NotifyOwner DEF SetInterrupted, NotifyInterrupt, SchedulerInv
<1>8. CASE Stop
  <2>1. stopped' = TRUE /\ NotifyAll
    BY <1>8 DEF Stop, NotifyStop
  <2>2. \/ pc'[Owner] = pc[Owner]
        \/ pc[Owner] \notin Outside /\ pc'[Owner] \notin Outside
    BY <1>3, <2>1, NotifyOwner
  <2>3. SchedulerForesees /\ (pc'[Owner] = "returned_stopped" => stopped')
    BY <2>1, <2>2 DEF SchedulerForesees, Outside
  <2> QED
    BY <1>3, <1>8, <2>3 DEF Stop, counters, SchedulerInv
<1>9. CASE pc[Owner] = "idle" /\ CallWait(Owner)
  <2>1. pc'[Owner] = "entering" /\ UNCHANGED <<stopped, deadline>>
    BY <1>1, <1>3, <1>9 DEF CallWait, IInv, TypeOK
  <2> QED
    BY <1>3, <1>4, <1>9, <2>1 DEF CallWait, counters, SchedulerInv, SchedulerForesees
<1>10. CASE Timeout(Owner) \/ SpuriousWake(Owner)
  <2>1. /\ pc[Owner] \notin Outside /\ pc'[Owner] \notin Outside
        /\ UNCHANGED <<stopped, deadline>>
    BY <1>1, <1>3, <1>10
       DEF Timeout, SpuriousWake, Signalled, Blocked, Outside, IInv, TypeOK
  <2> QED
    BY <1>3, <1>5, <1>10, <2>1 DEF Timeout, SpuriousWake, counters, SchedulerInv
<1>11. CASE Enter(Owner)
  BY <1>3, <1>11, LoopForesees DEF Enter, Outside, counters, SchedulerInv
<1>12. CASE Resume(Owner)
  <2>1. pc[Owner] \notin Outside /\ UNCHANGED <<stopped, rollbacks>>
    BY <1>12 DEF Resume, Outside, counters
  <2>2. CASE Loop(Owner)
    BY <1>3, <2>1, <2>2, LoopForesees DEF SchedulerInv
  <2>3. CASE ~Loop(Owner)
    <3>1. pc'[Owner] \notin Outside /\ UNCHANGED deadline
      BY <1>1, <1>3, <1>12, <2>3 DEF Resume, Outside, IInv, TypeOK
    <3> QED
      BY <1>3, <1>5, <2>1, <3>1 DEF SchedulerInv
  <2> QED
    BY <2>2, <2>3
<1>13. CASE Tick \/ UNCHANGED vars
  BY <1>3, <1>5, <1>13 DEF Tick, vars, SchedulerInv
<1>14. CASE \E at \in Times : Request(at)
  BY <1>3, <1>6, <1>14 DEF Request, SchedulerInv
<1> QED
  BY <1>7, <1>8, <1>9, <1>10, <1>11, <1>12, <1>13, <1>14 DEF SchedulerStep
-----------------------------------------------------------------------------
(* The threads of the service. *)

OwnerOK ==
    /\ owner \in [at : OwnerPlaces, next : Times \cup {NoDeadline}]
    /\ pc[Owner] # "idle" => owner.at = "waiting"

\* The threads' part of the invariant, without ArmedInTime.
ThreadsInv ==
    /\ WakesTypes
    /\ rollbacks \in Nat
    /\ CallsInRange
    /\ OwnerOK
    /\ announced \in [Clients -> Times \cup {NoDeadline}]
    /\ AnnouncesFirst

\* The invariant consists of these parts.
LEMMA Parts ==
    /\ ServiceInv <=> SchedulerInv /\ ThreadsInv /\ ArmedInTime
    /\ ServiceInv' <=> SchedulerInv' /\ ThreadsInv' /\ ArmedInTime'
<1>1. ServiceTypeOK <=>
          /\ TypeOK /\ WakesTypes /\ rollbacks \in Nat
          /\ OwnerOK /\ announced \in [Clients -> Times \cup {NoDeadline}]
  BY WakesTypesSuffice DEF ServiceTypeOK, OwnerOK, TypeOK
<1>2. ServiceTypeOK' <=>
          /\ TypeOK' /\ WakesTypes' /\ rollbacks' \in Nat
          /\ OwnerOK' /\ announced' \in [Clients -> Times \cup {NoDeadline}]
  BY WakesTypesSuffice DEF ServiceTypeOK, OwnerOK, TypeOK
<1> QED
  BY <1>1, <1>2 DEF ServiceInv, SchedulerInv, ThreadsInv, IInv

\* Foreseen, in the state after a step.
ForeseenNext(due) ==
    \/ deadline' # NoDeadline /\ deadline' <= due
    \/ \E c \in Clients : announced'[c] # NoDeadline /\ announced'[c] <= due
    \/ owner'.at \in {"reconciling", "reading"}
    \/ owner'.at = "arming" /\ owner'.next # NoDeadline /\ owner'.next <= due
    \/ pc'[Owner] \in {"returned_due", "returned_interrupted"}

\* ArmedInTime is kept where no intent is new and what foresaw a deadline is
\* still there or has handed it on.
LEMMA ArmedKept ==
    ASSUME WakesTypes, ArmedInTime, stopped => stopped',
           \A id \in Wakes!Scheduled' :
               \/ id \in Wakes!Scheduled /\ intents'[id].due_at = intents[id].due_at
               \/ ForeseenNext(intents'[id].due_at),
           \A due \in Times : Foreseen(due) => stopped' \/ ForeseenNext(due)
    PROVE  ArmedInTime'
<1>1. ASSUME ~stopped', NEW id \in Wakes!Scheduled'
      PROVE  ForeseenNext(intents'[id].due_at)
  <2>1. CASE id \in Wakes!Scheduled /\ intents'[id].due_at = intents[id].due_at
    <3>1. intents[id].due_at \in Times
      BY <2>1, DueInRange
    <3>2. Foreseen(intents[id].due_at)
      BY <1>1, <2>1 DEF ArmedInTime
    <3> QED
      BY <1>1, <2>1, <3>1, <3>2
  <2> QED
    BY <2>1
<1> QED
  BY <1>1 DEF ArmedInTime, Foreseen, ForeseenNext

\* A step of the scheduler loses no deadline that is foreseen by the scheduler
\* or by wait(), whatever the threads do meanwhile.
LEMMA SchedulerKeepsForeseen ==
    ASSUME SchedulerInv, SchedulerStep, NEW due \in Times, ~stopped',
           \/ deadline # NoDeadline /\ deadline <= due
           \/ pc[Owner] \in {"returned_due", "returned_interrupted"}
    PROVE  ForeseenNext(due)
<1>1. SchedulerForesees /\ IInv /\ IInv'
  BY SchedulerPart DEF SchedulerInv
<1>2. CASE pc[Owner] \in {"returned_due", "returned_interrupted"}
  BY <1>1, <1>2 DEF SchedulerForesees, ForeseenNext
<1>3. CASE deadline # NoDeadline /\ deadline <= due
  <2>1. deadline \in Int /\ due \in Int
    BY <1>1, <1>3, BoundsAssumption DEF IInv, TypeOK, Times
  <2>2. deadline' # NoDeadline => deadline' \in Int
    BY <1>1, BoundsAssumption DEF IInv, TypeOK, Times
  <2> QED
    BY <1>1, <1>3, <2>1, <2>2 DEF SchedulerForesees, ForeseenNext
<1> QED
  BY <1>2, <1>3

\* A step of the scheduler alone keeps the invariant.
LEMMA SchedulerAlone ==
    ASSUME ServiceInv, SchedulerStep,
           pc[Owner] = "idle" => pc'[Owner] = "idle" \/ owner.at = "waiting",
           UNCHANGED <<intents, calls, owner, announced>>, latest' \in Times
    PROVE  ServiceInv'
<1>1. SchedulerInv /\ ThreadsInv /\ ArmedInTime
  BY Parts
<1>2. SchedulerInv' /\ SchedulerForesees /\ rollbacks' = rollbacks
  BY <1>1, SchedulerPart
<1>3. WakesTypes' /\ CallsInRange' /\ AnnouncesFirst'
  BY <1>1 DEF ThreadsInv, WakesTypes, CallsInRange, AnnouncesFirst
<1>4. OwnerOK'
  BY <1>1 DEF ThreadsInv, OwnerOK
<1>5. ThreadsInv'
  BY <1>1, <1>2, <1>3, <1>4 DEF ThreadsInv
<1>6. ArmedInTime'
  <2>1. \A due \in Times : Foreseen(due) => stopped' \/ ForeseenNext(due)
    <3> SUFFICES ASSUME NEW due \in Times, Foreseen(due), ~stopped' PROVE ForeseenNext(due)
      OBVIOUS
    <3>1. CASE \/ deadline # NoDeadline /\ deadline <= due
               \/ pc[Owner] \in {"returned_due", "returned_interrupted"}
      BY <1>1, <3>1, SchedulerKeepsForeseen
    <3> QED
      BY <3>1 DEF Foreseen, ForeseenNext
  <2>2. \A id \in Wakes!Scheduled' :
            id \in Wakes!Scheduled /\ intents'[id].due_at = intents[id].due_at
    BY DEF Wakes!Scheduled, Wakes!Stored
  <2> QED
    BY <1>1, <1>2, <2>1, <2>2, ArmedKept DEF ThreadsInv, SchedulerForesees
<1> QED
  BY <1>2, <1>5, <1>6, Parts

\* After request_at() a scheduler that is not stopped has that deadline or an
\* earlier one.
LEMMA AsksArms ==
    ASSUME IInv, NEW at \in Times, Asks(at)
    PROVE  /\ SchedulerStep /\ stopped' = stopped
           /\ ~stopped => deadline' # NoDeadline /\ deadline' <= at
           /\ pc'[Owner] # "idle" => pc[Owner] # "idle"
<1>1. at \in Int /\ NoDeadline \notin Int /\ (deadline # NoDeadline => deadline \in Int)
  BY BoundsAssumption, NoDeadlineAssumption DEF IInv, TypeOK, Times
<1>2. CASE Takes(at)
  <2>1. Request(at) /\ deadline' = at /\ stopped' = stopped /\ NotifyOne
    BY <1>2 DEF Asks, Request, NotifyRequest
  <2>2. pc'[Owner] # "idle" => pc[Owner] # "idle"
    BY <2>1, NotifyOwner DEF Outside
  <2> QED
    BY <1>1, <2>1, <2>2 DEF SchedulerStep
<1>3. CASE ~Takes(at)
  <2>1. UNCHANGED vars
    BY <1>3 DEF Asks, vars
  <2>2. ~stopped => deadline # NoDeadline /\ deadline <= at
    BY <1>1, <1>3 DEF Takes
  <2> QED
    BY <2>1, <2>2 DEF SchedulerStep, vars
<1> QED
  BY <1>2, <1>3

\* A client that announces hands what it foresaw to the scheduler.
LEMMA AnnounceKeepsInv ==
    ASSUME ServiceInv, NEW c \in Clients, ClientAnnounces(c)
    PROVE  ServiceInv'
<1> DEFINE at == announced[c]
<1>1. SchedulerInv /\ ThreadsInv /\ ArmedInTime
  BY Parts
<1>2. at \in Times /\ Asks(at)
  BY <1>1 DEF ClientAnnounces, ThreadsInv
<1>3. /\ SchedulerStep /\ stopped' = stopped
      /\ ~stopped => deadline' # NoDeadline /\ deadline' <= at
      /\ pc'[Owner] # "idle" => pc[Owner] # "idle"
  <2> HIDE DEF at
  <2> QED
    BY <1>1, <1>2, AsksArms DEF SchedulerInv
<1>4. SchedulerInv' /\ rollbacks' = rollbacks
  BY <1>1, <1>3, SchedulerPart
<1>5. announced' = [announced EXCEPT ![c] = NoDeadline] /\ UNCHANGED <<wakes_only, owner>>
  BY DEF ClientAnnounces
<1>6. /\ announced' \in [Clients -> Times \cup {NoDeadline}]
      /\ \A d \in Clients \ {c} : announced'[d] = announced[d]
      /\ announced'[c] = NoDeadline
  BY <1>1, <1>5 DEF ThreadsInv
<1>7. ThreadsInv'
  <2>1. WakesTypes' /\ CallsInRange' /\ AnnouncesFirst'
    BY <1>1, <1>5, <1>6 DEF ThreadsInv, WakesTypes, CallsInRange, AnnouncesFirst, wakes_only
  <2>2. OwnerOK'
    BY <1>1, <1>3, <1>5 DEF ThreadsInv, OwnerOK
  <2> QED
    BY <1>1, <1>4, <1>6, <2>1, <2>2 DEF ThreadsInv
<1>8. ArmedInTime'
  <2>1. ASSUME NEW due \in Times, Foreseen(due), ~stopped' PROVE ForeseenNext(due)
    <3>1. CASE \/ deadline # NoDeadline /\ deadline <= due
               \/ pc[Owner] \in {"returned_due", "returned_interrupted"}
      BY <1>1, <1>3, <2>1, <3>1, SchedulerKeepsForeseen
    <3>2. CASE at <= due
      <4>1. deadline' # NoDeadline /\ deadline' <= at
        BY <1>3, <2>1
      <4>2. deadline' \in Int /\ at \in Int /\ due \in Int
        BY <1>2, <1>4, <4>1, BoundsAssumption DEF SchedulerInv, IInv, TypeOK, Times
      <4>3. deadline' <= due
        BY <3>2, <4>1, <4>2
      <4> QED
        BY <4>1, <4>3 DEF ForeseenNext
    <3>3. CASE \E d \in Clients \ {c} : announced[d] # NoDeadline /\ announced[d] <= due
      BY <1>6, <3>3 DEF ForeseenNext
    <3>4. CASE \/ owner.at \in {"reconciling", "reading"}
               \/ owner.at = "arming" /\ owner.next # NoDeadline /\ owner.next <= due
      BY <1>5, <3>4 DEF ForeseenNext
    <3> QED
      BY <2>1, <3>1, <3>2, <3>3, <3>4 DEF Foreseen
  <2>2. \A id \in Wakes!Scheduled' :
            id \in Wakes!Scheduled /\ intents'[id].due_at = intents[id].due_at
    BY <1>5 DEF Wakes!Scheduled, Wakes!Stored, wakes_only
  <2> QED
    BY <1>1, <1>3, <2>1, <2>2, ArmedKept DEF ThreadsInv
<1> QED
  BY <1>4, <1>7, <1>8, Parts

\* The owner hands what it has read to the scheduler.
LEMMA ArmKeepsInv ==
    ASSUME ServiceInv, OwnerArms
    PROVE  ServiceInv'
<1> DEFINE at == owner.next
<1>1. SchedulerInv /\ ThreadsInv /\ ArmedInTime
  BY Parts
<1>2. /\ owner' = [at |-> "waiting", next |-> NoDeadline]
      /\ owner.at = "arming" /\ UNCHANGED <<intents, calls, latest, announced>>
  BY DEF OwnerArms, Goes, wakes_only
<1>3. at \in Times \cup {NoDeadline} /\ pc[Owner] = "idle"
  BY <1>1, <1>2 DEF ThreadsInv, OwnerOK
<1>4. /\ SchedulerStep /\ stopped' = stopped
      /\ ~stopped /\ at # NoDeadline => deadline' # NoDeadline /\ deadline' <= at
      /\ pc'[Owner] # "idle" => pc[Owner] # "idle"
  <2>1. CASE at = NoDeadline
    BY <2>1 DEF OwnerArms, SchedulerStep, vars
  <2>2. CASE at # NoDeadline
    <3>1. at \in Times /\ Asks(at)
      BY <1>3, <2>2 DEF OwnerArms
    <3> HIDE DEF at
    <3> QED
      BY <1>1, <3>1, AsksArms DEF SchedulerInv
  <2> QED
    BY <2>1, <2>2
<1>5. SchedulerInv' /\ rollbacks' = rollbacks
  BY <1>1, <1>4, SchedulerPart
<1>6. ThreadsInv'
  <2>1. WakesTypes' /\ CallsInRange' /\ AnnouncesFirst'
    BY <1>1, <1>2 DEF ThreadsInv, WakesTypes, CallsInRange, AnnouncesFirst
  <2>2. OwnerOK'
    BY <1>2 DEF OwnerOK, OwnerPlaces
  <2> QED
    BY <1>1, <1>2, <1>5, <2>1, <2>2 DEF ThreadsInv
<1>7. ArmedInTime'
  <2>1. ASSUME NEW due \in Times, Foreseen(due), ~stopped' PROVE ForeseenNext(due)
    <3>1. CASE deadline # NoDeadline /\ deadline <= due
      BY <1>1, <1>4, <2>1, <3>1, SchedulerKeepsForeseen
    <3>2. CASE at # NoDeadline /\ at <= due
      <4>1. deadline' # NoDeadline /\ deadline' <= at
        BY <1>4, <2>1, <3>2
      <4>2. deadline' \in Int /\ at \in Int /\ due \in Int
        BY <1>3, <1>5, <3>2, <4>1, BoundsAssumption DEF SchedulerInv, IInv, TypeOK, Times
      <4>3. deadline' <= due
        BY <3>2, <4>1, <4>2
      <4> QED
        BY <4>1, <4>3 DEF ForeseenNext
    <3>3. CASE \E d \in Clients : announced[d] # NoDeadline /\ announced[d] <= due
      BY <1>2, <3>3 DEF ForeseenNext
    <3> QED
      BY <1>2, <1>3, <2>1, <3>1, <3>2, <3>3 DEF Foreseen
  <2>2. \A id \in Wakes!Scheduled' :
            id \in Wakes!Scheduled /\ intents'[id].due_at = intents[id].due_at
    BY <1>2 DEF Wakes!Scheduled, Wakes!Stored
  <2> QED
    BY <1>1, <1>4, <2>1, <2>2, ArmedKept DEF ThreadsInv
<1> QED
  BY <1>5, <1>6, <1>7, Parts

\* A step that leaves the scheduler and the owner's place alone and brings no
\* intent that is not announced.
LEMMA CallsKeepInv ==
    ASSUME ServiceInv, UNCHANGED <<vars, owner>>,
           WakesTypes', CallsInRange', AnnouncesFirst',
           announced' \in [Clients -> Times \cup {NoDeadline}],
           \A c \in Clients :
               announced[c] # NoDeadline => announced'[c] = announced[c],
           \A id \in Wakes!Scheduled' :
               \/ id \in Wakes!Scheduled /\ intents'[id].due_at = intents[id].due_at
               \/ ForeseenNext(intents'[id].due_at)
    PROVE  ServiceInv'
<1>1. SchedulerInv /\ ThreadsInv /\ ArmedInTime
  BY Parts
<1>2. SchedulerInv' /\ rollbacks' = rollbacks
  BY <1>1, SchedulerPart DEF SchedulerStep
<1>3. ThreadsInv'
  BY <1>1, <1>2 DEF ThreadsInv, OwnerOK, vars
<1>4. \A due \in Times : Foreseen(due) => stopped' \/ ForeseenNext(due)
  BY DEF Foreseen, ForeseenNext, vars
<1>5. ArmedInTime'
  BY <1>1, <1>4, ArmedKept DEF ThreadsInv, vars
<1> QED
  BY <1>2, <1>3, <1>5, Parts

\* MIN(due_at_ms) is the deadline of a scheduled intent, and the earliest.
LEMMA NextScheduledIsEarliest ==
    ASSUME WakesTypes
    PROVE  /\ Wakes!NextScheduledAt \in Times \cup {NoDeadline}
           /\ \A id \in Wakes!Scheduled :
                  /\ Wakes!NextScheduledAt # NoDeadline
                  /\ Wakes!NextScheduledAt <= intents[id].due_at
<1>1. CASE Wakes!Scheduled = {}
  BY <1>1 DEF Wakes!NextScheduledAt
<1>2. CASE Wakes!Scheduled # {}
  <2> DEFINE S == {intents[id].due_at : id \in Wakes!Scheduled}
  <2>1. S \subseteq Times /\ S \subseteq Nat /\ S # {}
    BY <1>2, DueInRange, Numbers
  <2>2. PICK x \in S : \A y \in S : ~ (<<y, x>> \in OpToRel(<, Nat))
    BY <2>1, NatLessThanWellFounded, WFMin
  <2>3. \A y \in S : x <= y
    <3> SUFFICES ASSUME NEW y \in S PROVE x <= y
      OBVIOUS
    <3>1. x \in Nat /\ y \in Nat
      BY <2>1
    <3>2. ~ (y < x)
      BY <2>2, <3>1 DEF OpToRel
    <3> QED
      BY <3>1, <3>2
  <2>4. \A id \in Wakes!Scheduled : x <= intents[id].due_at
    BY <2>3
  <2>5. Wakes!NextScheduledAt =
            CHOOSE t \in S : \A id \in Wakes!Scheduled : t <= intents[id].due_at
    BY <1>2 DEF Wakes!NextScheduledAt
  <2>6. /\ Wakes!NextScheduledAt \in S
        /\ \A id \in Wakes!Scheduled : Wakes!NextScheduledAt <= intents[id].due_at
    <3> HIDE DEF S
    <3> QED
      BY <2>4, <2>5
  <2> QED
    BY <2>1, <2>6, Numbers
<1> QED
  BY <1>1, <1>2

\* The owner reconciles, reads or goes on after wait(): every intent it leaves
\* scheduled is one it will come to in time.
LEMMA TurnKeepsInv ==
    ASSUME ServiceInv, SchedulerInv', UNCHANGED <<rollbacks, announced>>,
           WakesTypes', CallsInRange', AnnouncesFirst', OwnerOK',
           \A id \in Wakes!Scheduled' : stopped' \/ ForeseenNext(intents'[id].due_at)
    PROVE  ServiceInv'
<1>1. ThreadsInv'
  BY Parts DEF ThreadsInv
<1>2. ArmedInTime'
  BY DEF ArmedInTime, Foreseen, ForeseenNext
<1> QED
  BY <1>1, <1>2, Parts

\* The owner's own steps keep the invariant.
LEMMA OwnerKeepsInv ==
    ASSUME ServiceInv, OwnerReconciles \/ OwnerReads \/ OwnerReturns
    PROVE  ServiceInv'
<1> USE Parts
<1>0. SchedulerInv /\ ThreadsInv /\ Owner \in Callers /\ Owner \notin Clients
  BY OwnerAssumption DEF Callers
<1>1. UNCHANGED vars => SchedulerInv' /\ rollbacks' = rollbacks
  BY <1>0, SchedulerPart DEF SchedulerStep
<1>2. CASE OwnerReconciles /\ Wakes!BeginReconcile(Owner) /\ UNCHANGED owner
  <2> DEFINE call == [op |-> "reconcile", now |-> clock]
  <2>1. call \in Wakes!Call /\ call.op = "reconcile"
    BY <1>0, Calls DEF SchedulerInv, IInv, TypeOK
  <2>2. Wakes!Sample(Owner, call)
    BY <1>2 DEF Wakes!BeginReconcile
  <2> HIDE DEF call
  <2>3. /\ WakesTypes' /\ CallsInRange' /\ UNCHANGED intents
        /\ \A d \in Callers \ {Owner} : calls'[d] = calls[d]
    BY <1>0, <2>1, <2>2, SampleTyped DEF ThreadsInv
  <2>4. UNCHANGED <<vars, announced>>
    BY <1>2 DEF OwnerReconciles
  <2>5. AnnouncesFirst'
    BY <1>0, <2>3, <2>4 DEF AnnouncesFirst, ThreadsInv, Callers
  <2>6. \A id \in Wakes!Scheduled' :
            id \in Wakes!Scheduled /\ intents'[id].due_at = intents[id].due_at
    BY <2>3 DEF Wakes!Scheduled, Wakes!Stored
  <2>7. announced' \in [Clients -> Times \cup {NoDeadline}]
    BY <1>0, <2>4 DEF ThreadsInv
  <2> QED
    BY <1>2, <2>3, <2>4, <2>5, <2>6, <2>7, CallsKeepInv
<1>3. CASE OwnerReconciles /\ Wakes!CommitReconcile(Owner) /\ Goes("reading", NoDeadline)
  <2>1. /\ owner' = [at |-> "reading", next |-> NoDeadline] /\ owner.at = "reconciling"
        /\ UNCHANGED <<vars, announced>> /\ Wakes!Return(Owner)
    BY <1>3 DEF OwnerReconciles, Goes, Wakes!CommitReconcile
  <2>2. intents' \in [Ids -> Wakes!Row \cup {Absent}]
    BY <1>0, <1>3, EndStep DEF ThreadsInv
  <2>3. /\ WakesTypes' /\ CallsInRange'
        /\ \A d \in Callers \ {Owner} : calls'[d] = calls[d]
    BY <1>0, <2>1, <2>2, ReturnTyped DEF ThreadsInv
  <2>4. AnnouncesFirst'
    BY <1>0, <2>1, <2>3 DEF AnnouncesFirst, ThreadsInv, Callers
  <2>5. OwnerOK'
    BY <1>0, <2>1 DEF OwnerOK, OwnerPlaces, ThreadsInv, vars
  <2>6. \A due : ForeseenNext(due)
    BY <2>1 DEF ForeseenNext
  <2> QED
    BY <1>1, <2>1, <2>3, <2>4, <2>5, <2>6, TurnKeepsInv
<1>4. CASE OwnerReads
  <2>1. /\ owner' = [at |-> "arming", next |-> Wakes!NextScheduledAt]
        /\ owner.at = "reading" /\ UNCHANGED <<vars, intents, calls, latest, announced>>
    BY <1>4 DEF OwnerReads, Goes, wakes_only
  <2>2. WakesTypes' /\ CallsInRange' /\ AnnouncesFirst'
    BY <1>0, <2>1 DEF ThreadsInv, WakesTypes, CallsInRange, AnnouncesFirst
  <2>3. /\ Wakes!NextScheduledAt \in Times \cup {NoDeadline}
        /\ \A id \in Wakes!Scheduled :
               /\ Wakes!NextScheduledAt # NoDeadline
               /\ Wakes!NextScheduledAt <= intents[id].due_at
    BY <1>0, NextScheduledIsEarliest DEF ThreadsInv
  <2>4. OwnerOK'
    BY <1>0, <2>1, <2>3 DEF OwnerOK, OwnerPlaces, ThreadsInv, vars
  <2>5. ASSUME NEW id \in Wakes!Scheduled' PROVE ForeseenNext(intents'[id].due_at)
    <3>1. id \in Wakes!Scheduled /\ intents'[id].due_at = intents[id].due_at
      BY <2>1 DEF Wakes!Scheduled, Wakes!Stored
    <3>2. owner'.at = "arming" /\ owner'.next = Wakes!NextScheduledAt
      BY <2>1
    <3> QED
      BY <2>3, <3>1, <3>2 DEF ForeseenNext
  <2> QED
    BY <1>1, <2>1, <2>2, <2>4, <2>5, TurnKeepsInv
<1>5. CASE OwnerReturns
  <2>1. /\ pc' = [pc EXCEPT ![Owner] = "idle"]
        /\ UNCHANGED <<deadline, interrupted, stopped, awaited, clock, rollbacks,
                       intents, calls, latest, announced>>
        /\ pc[Owner] = "returned_stopped" \/ owner' = [at |-> "reconciling", next |-> NoDeadline]
        /\ owner' \in [at : OwnerPlaces, next : {NoDeadline}]
    BY <1>5 DEF OwnerReturns, Goes, wakes_only, counters, OwnerPlaces
  <2>2. pc'[Owner] = "idle" /\ pc' \in [Waiters -> Locations]
    BY <1>0, <2>1, OwnerAssumption DEF SchedulerInv, IInv, TypeOK, Locations
  <2>3. IInv'
    BY <1>0, <2>1, <2>2, OwnerAssumption DEF SchedulerInv, IInv, TypeOK
  <2>4. NoLostWakeup'
    BY <2>2, OwnerAssumption DEF NoLostWakeup, Blocked
  <2>5. SchedulerInv'
    BY <2>2, <2>3, <2>4 DEF SchedulerInv
  <2>6. WakesTypes' /\ CallsInRange' /\ AnnouncesFirst'
    BY <1>0, <2>1 DEF ThreadsInv, WakesTypes, CallsInRange, AnnouncesFirst
  <2>7. OwnerOK'
    BY <2>1, <2>2 DEF OwnerOK
  <2>8. \A due : stopped' \/ ForeseenNext(due)
    BY <1>0, <2>1 DEF SchedulerInv, ForeseenNext
  <2> QED
    BY <2>1, <2>5, <2>6, <2>7, <2>8, TurnKeepsInv
<1> QED
  BY <1>2, <1>3, <1>4, <1>5 DEF OwnerReconciles

\* A call that fails has done nothing.
LEMMA FailKeepsInv ==
    ASSUME ServiceInv, NEW c \in Callers, Wakes!Fail(c), UNCHANGED <<vars, owner, announced>>
    PROVE  ServiceInv'
<1>1. ThreadsInv
  BY Parts
<1>2. Wakes!Return(c) /\ UNCHANGED intents
  BY DEF Wakes!Fail
<1>3. /\ WakesTypes' /\ CallsInRange'
      /\ \A d \in Callers : calls'[d] \in {calls[d], Wakes!Idle}
  <2>1. intents' \in [Ids -> Wakes!Row \cup {Absent}]
    BY <1>1, <1>2 DEF ThreadsInv, WakesTypes
  <2> QED
    BY <1>1, <1>2, <2>1, ReturnTyped DEF ThreadsInv
<1>4. AnnouncesFirst'
  BY <1>1, <1>3 DEF ThreadsInv, AnnouncesFirst, Callers
<1>5. \A id \in Wakes!Scheduled' :
          id \in Wakes!Scheduled /\ intents'[id].due_at = intents[id].due_at
  BY <1>2 DEF Wakes!Scheduled, Wakes!Stored
<1>6. announced' \in [Clients -> Times \cup {NoDeadline}]
  BY <1>1 DEF ThreadsInv
<1> QED
  BY <1>3, <1>4, <1>5, <1>6, CallsKeepInv

\* A client begins a call only when it has nothing left to announce.
LEMMA BeginKeepsInv ==
    ASSUME ServiceInv, NEW c \in Clients, ClientBegins(c)
    PROVE  ServiceInv'
<1>1. SchedulerInv /\ ThreadsInv /\ c \in Callers
  BY Parts DEF Callers
<1>2. announced[c] = NoDeadline /\ UNCHANGED <<vars, owner, announced>> /\ clock \in Times
  BY <1>1 DEF ClientBegins, SchedulerInv, IInv, TypeOK
<1>3. PICK call \in Wakes!Call :
          /\ Wakes!Sample(c, call)
          /\ call.op = "accept" => call.delay > 0 /\ call.now + call.delay <= Horizon
  <2>1. ASSUME NEW id \in Ids, NEW delay \in Delays, Wakes!BeginAccept(c, id, id, delay)
        PROVE  \E call \in Wakes!Call :
                   /\ Wakes!Sample(c, call)
                   /\ call.op = "accept" => call.delay > 0 /\ call.now + call.delay <= Horizon
    <3> DEFINE call == [op |-> "accept", now |-> clock, id |-> id,
                        source |-> id, delay |-> delay]
    <3>1. call \in Wakes!Call /\ Wakes!Sample(c, call)
      BY <1>2, <2>1, Calls DEF Wakes!BeginAccept
    <3>2. delay > 0 /\ clock + delay <= Horizon
      <4>1. delay \in Int /\ clock \in Int /\ Horizon \in Int
        BY <1>2, WakesAssumption, Numbers
      <4>2. delay > 0 /\ clock <= Horizon - delay
        BY <2>1 DEF Wakes!BeginAccept, Wakes!ValidDelay
      <4> QED
        BY <4>1, <4>2
    <3>3. call.delay = delay /\ call.now = clock
      OBVIOUS
    <3> HIDE DEF call
    <3> QED
      BY <3>1, <3>2, <3>3
  <2>2. ASSUME NEW id \in Wakes!Scheduled, Wakes!BeginRevoke(c, id)
        PROVE  \E call \in Wakes!Call :
                   /\ Wakes!Sample(c, call)
                   /\ call.op = "accept" => call.delay > 0 /\ call.now + call.delay <= Horizon
    <3> DEFINE call == [op |-> "revoke", now |-> clock, id |-> id]
    <3>1. id \in Ids
      BY DEF Wakes!Scheduled, Wakes!Stored
    <3>2. call \in Wakes!Call /\ Wakes!Sample(c, call) /\ call.op = "revoke"
      BY <1>2, <2>2, <3>1, Calls DEF Wakes!BeginRevoke
    <3> HIDE DEF call
    <3> QED
      BY <3>2
  <2> QED
    BY <2>1, <2>2 DEF ClientBegins
<1>4. /\ WakesTypes' /\ CallsInRange' /\ UNCHANGED intents
      /\ \A d \in Callers \ {c} : calls'[d] = calls[d]
  BY <1>1, <1>3, SampleTyped DEF ThreadsInv
<1>5. AnnouncesFirst'
  BY <1>1, <1>2, <1>4 DEF ThreadsInv, AnnouncesFirst, Callers
<1>6. \A id \in Wakes!Scheduled' :
          id \in Wakes!Scheduled /\ intents'[id].due_at = intents[id].due_at
  BY <1>4 DEF Wakes!Scheduled, Wakes!Stored
<1>7. announced' \in [Clients -> Times \cup {NoDeadline}]
  BY <1>1, <1>2 DEF ThreadsInv
<1> QED
  BY <1>2, <1>4, <1>5, <1>6, <1>7, CallsKeepInv

\* What a client has accepted it announces; it had nothing else to announce.
LEMMA CommitKeepsInv ==
    ASSUME ServiceInv, NEW c \in Clients, ClientCommits(c)
    PROVE  ServiceInv'
<1> DEFINE due == calls[c].now + calls[c].delay
           accepted == calls[c].op = "accept" /\ Wakes!Admits(calls[c])
<1>1. ThreadsInv /\ c \in Callers
  BY Parts DEF Callers
<1>2. /\ UNCHANGED <<vars, owner>>
      /\ announced' = [announced EXCEPT ![c] = IF accepted THEN due ELSE NoDeadline]
  BY DEF ClientCommits
<1>3. /\ calls[c].op \in {"accept", "revoke"} /\ Wakes!Return(c)
      /\ Wakes!CommitAccept(c) \/ (Wakes!CommitRevoke(c) /\ calls[c].op = "revoke")
  BY DEF ClientCommits, Wakes!CommitAccept, Wakes!CommitRevoke
<1>4. announced[c] = NoDeadline
  <2>1. calls[c] # Wakes!Idle
    BY <1>3, Calls
  <2> QED
    BY <1>1, <2>1 DEF ThreadsInv, AnnouncesFirst
<1>5. /\ intents' \in [Ids -> Wakes!Row \cup {Absent}]
      /\ accepted => due \in Times
      /\ \A id \in Wakes!Scheduled' :
             \/ id \in Wakes!Scheduled /\ intents'[id].due_at = intents[id].due_at
             \/ accepted /\ intents'[id].due_at = due
  <2>1. CASE Wakes!CommitAccept(c)
    BY <1>1, <2>1, AcceptStep DEF ThreadsInv
  <2>2. CASE Wakes!CommitRevoke(c) /\ calls[c].op = "revoke"
    BY <1>1, <2>2, EndStep DEF ThreadsInv, NothingNew
  <2> QED
    BY <1>3, <2>1, <2>2
<1>6. /\ WakesTypes' /\ CallsInRange' /\ calls'[c] = Wakes!Idle
      /\ \A d \in Callers \ {c} : calls'[d] = calls[d]
  BY <1>1, <1>3, <1>5, ReturnTyped DEF ThreadsInv
<1> HIDE DEF due, accepted
<1>7. /\ announced' \in [Clients -> Times \cup {NoDeadline}]
      /\ \A d \in Clients \ {c} : announced'[d] = announced[d]
      /\ accepted => announced'[c] = due
  BY <1>1, <1>2, <1>5 DEF ThreadsInv
<1>8. AnnouncesFirst'
  BY <1>1, <1>6, <1>7 DEF ThreadsInv, AnnouncesFirst, Callers
<1>9. accepted => ForeseenNext(due)
  <2> SUFFICES ASSUME accepted PROVE ForeseenNext(due)
    OBVIOUS
  <2>1. due \in Nat /\ announced'[c] = due /\ due # NoDeadline
    BY <1>5, <1>7, Numbers
  <2> QED
    BY <2>1 DEF ForeseenNext
<1> QED
  BY <1>2, <1>4, <1>5, <1>6, <1>7, <1>8, <1>9, CallsKeepInv

\* After a crash the owner reconciles before all else.
LEMMA CrashKeepsInv ==
    ASSUME ServiceInv, ServiceCrash
    PROVE  ServiceInv'
<1>1. SchedulerInv /\ ThreadsInv
  BY Parts
<1>2. /\ calls' = [c \in Callers |-> Wakes!Idle] /\ UNCHANGED <<intents, latest>>
      /\ deadline' = NoDeadline /\ interrupted' = FALSE /\ stopped' = FALSE
      /\ pc' = [w \in Waiters |-> "idle"]
      /\ awaited' = [w \in Waiters |-> NoDeadline]
      /\ owner' = [at |-> "reconciling", next |-> NoDeadline]
      /\ announced' = [c \in Clients |-> NoDeadline]
      /\ UNCHANGED <<clock, rollbacks>>
  BY DEF ServiceCrash, Wakes!Crash, Goes, counters, Callers
<1>3. IInv'
  BY <1>1, <1>2 DEF SchedulerInv, IInv, TypeOK, Locations
<1>4. pc'[Owner] = "idle" /\ NoLostWakeup'
  BY <1>2, OwnerAssumption DEF NoLostWakeup, Blocked
<1>5. SchedulerInv'
  BY <1>3, <1>4 DEF SchedulerInv
<1>6. WakesTypes'
  BY <1>1, <1>2, Calls DEF ThreadsInv, WakesTypes
<1>7. CallsInRange' /\ AnnouncesFirst'
  BY <1>2, Calls DEF CallsInRange, AnnouncesFirst
<1>8. OwnerOK' /\ announced' \in [Clients -> Times \cup {NoDeadline}]
  BY <1>2, <1>4 DEF OwnerOK, OwnerPlaces
<1>9. ThreadsInv'
  BY <1>1, <1>2, <1>6, <1>7, <1>8 DEF ThreadsInv
<1>10. ArmedInTime'
  BY <1>2 DEF ArmedInTime, Foreseen
<1> QED
  BY <1>5, <1>9, <1>10, Parts

\* ServiceInv is an inductive invariant of the service.
LEMMA ServiceStepKeepsInv ==
    ASSUME ServiceInv, [ServiceNext]_service_vars
    PROVE  ServiceInv'
<1>1. SchedulerInv /\ ThreadsInv /\ Owner \in Callers /\ Clients \subseteq Callers
  BY Parts DEF Callers
<1>2. latest \in Times
  BY <1>1 DEF ThreadsInv, WakesTypes
<1>3. CASE OwnerReconciles \/ OwnerReads \/ OwnerReturns
  BY <1>3, OwnerKeepsInv
<1>4. CASE OwnerArms
  BY <1>4, ArmKeepsInv
<1>5. CASE OwnerCalls \/ OwnerEnters \/ OwnerResumes \/ OwnerTimesOut
  <2>1. /\ SchedulerStep /\ owner.at = "waiting"
        /\ UNCHANGED <<intents, calls, latest, owner, announced>>
    BY <1>5 DEF OwnerCalls, OwnerEnters, OwnerResumes, OwnerTimesOut, InWaitOf,
                wakes_only, SchedulerStep
  <2> QED
    BY <1>2, <2>1, SchedulerAlone
<1>6. CASE OwnerFails \/ \E c \in Clients : ClientFails(c)
  BY <1>1, <1>6, FailKeepsInv DEF OwnerFails, ClientFails
<1>7. ASSUME NEW c \in Clients, ClientBegins(c) \/ ClientCommits(c) \/ ClientAnnounces(c)
      PROVE  ServiceInv'
  BY <1>7, BeginKeepsInv, CommitKeepsInv, AnnounceKeepsInv
<1>8. CASE ServiceInterrupt \/ ServiceStop \/ ServiceSpuriousWake \/ ServiceTick
            \/ UNCHANGED service_vars
  <2>1. SchedulerStep /\ UNCHANGED <<intents, calls, owner, announced>>
    BY <1>8 DEF ServiceInterrupt, ServiceStop, ServiceSpuriousWake, ServiceTick,
                Wakes!Tick, wakes_only, service_vars, SchedulerStep
  <2>2. latest' \in Times
    <3>1. clock' \in Times
      BY <1>1, <2>1, SchedulerPart DEF SchedulerInv, IInv, TypeOK
    <3> QED
      BY <1>2, <1>8, <3>1
         DEF ServiceInterrupt, ServiceStop, ServiceSpuriousWake, ServiceTick,
             Wakes!Tick, wakes_only, service_vars
  <2>3. pc[Owner] = "idle" => pc'[Owner] = "idle"
    <3>1. CASE ServiceInterrupt \/ ServiceStop
      <4>1. NotifyOne \/ NotifyAll
        BY <3>1 DEF ServiceInterrupt, SetInterrupted, NotifyInterrupt,
                    ServiceStop, Stop, NotifyStop
      <4> QED
        BY <1>1, <4>1, NotifyOwner DEF SchedulerInv, Outside
    <3>2. CASE ServiceSpuriousWake \/ ServiceTick \/ UNCHANGED service_vars
      BY <3>2 DEF ServiceSpuriousWake, SpuriousWake, Blocked, ServiceTick, Tick,
                  service_vars, vars
    <3> QED
      BY <1>8, <3>1, <3>2
  <2> QED
    BY <2>1, <2>2, <2>3, SchedulerAlone
<1>9. CASE ServiceCrash
  BY <1>9, CrashKeepsInv
<1> QED
  BY <1>3, <1>4, <1>5, <1>6, <1>7, <1>8, <1>9 DEF ServiceNext, OwnerGoesOn

\* The service begins idle, with the owner about to reconcile.
LEMMA ServiceInvIsInvariant == ServiceSpec => []ServiceInv
<1>1. ServiceInit => ServiceInv
  <2> SUFFICES ASSUME ServiceInit PROVE ServiceInv
    OBVIOUS
  <2>1. /\ intents = [id \in Ids |-> Absent] /\ calls = [c \in Callers |-> Wakes!Idle]
        /\ clock = 0 /\ latest = 0 /\ rollbacks = 0
        /\ owner = [at |-> "reconciling", next |-> NoDeadline]
        /\ announced = [c \in Clients |-> NoDeadline]
    BY DEF ServiceInit, Init, Wakes!Init, Callers
  <2>2. 0 \in Times
    BY Numbers DEF Times
  <2>3. IInv
    BY <2>2 DEF ServiceInit, Init, IInv, TypeOK, Locations
  <2>4. pc[Owner] = "idle" /\ NoLostWakeup
    BY OwnerAssumption DEF ServiceInit, Init, NoLostWakeup, Blocked
  <2>5. SchedulerInv
    BY <2>3, <2>4 DEF SchedulerInv
  <2>6. WakesTypes
    BY <2>1, <2>2, Calls DEF WakesTypes
  <2>7. CallsInRange /\ AnnouncesFirst
    BY <2>1, Calls DEF CallsInRange, AnnouncesFirst
  <2>8. OwnerOK
    BY <2>1, <2>4 DEF OwnerOK, OwnerPlaces
  <2>9. ThreadsInv
    BY <2>1, <2>6, <2>7, <2>8 DEF ThreadsInv
  <2>10. ArmedInTime
    BY <2>1 DEF ArmedInTime, Foreseen
  <2> QED
    BY <2>5, <2>9, <2>10, Parts
<1>2. ServiceInv /\ [ServiceNext]_service_vars => ServiceInv'
  BY ServiceStepKeepsInv
<1> QED
  BY <1>1, <1>2, PTL DEF ServiceSpec
-----------------------------------------------------------------------------
\* Types of the service, with any number of clients and intents.
THEOREM ServiceTypeCorrect == ServiceSpec => []ServiceTypeOK
BY ServiceInvIsInvariant, PTL DEF ServiceInv

\* As long as the scheduler is not stopped, each scheduled intent has a wake-up
\* in time or a thread that still sees to one, whatever any number of clients
\* accept while the owner arms what it read, and whenever the process dies.
THEOREM AlwaysArmedInTime == ServiceSpec => []ArmedInTime
BY ServiceInvIsInvariant, PTL DEF ServiceInv

\* The owner never sleeps past a stop, an interruption or an earlier deadline,
\* restarts of the process included.
THEOREM OwnerLosesNoWakeup == ServiceSpec => []NoLostWakeup
BY ServiceInvIsInvariant, PTL DEF ServiceInv

\* What the owner and the clients do to the intents is what WakeIntents lets
\* its callers do: the loop, the scheduler and the announcements add nothing to
\* it, so that all that holds of the intents on their own holds here as well.
THEOREM ServiceImplementsIntents == ServiceSpec => Wakes!Spec
<1>1. ServiceInit => Wakes!Init
  BY DEF ServiceInit
<1>2. [ServiceNext]_service_vars => [Wakes!Next]_(Wakes!vars)
  <2> SUFFICES ASSUME [ServiceNext]_service_vars
               PROVE  [Wakes!Next]_(Wakes!vars)
    OBVIOUS
  <2> DEFINE Kept == UNCHANGED <<intents, calls, clock, latest, rollbacks>>
  <2>1. Kept => [Wakes!Next]_(Wakes!vars)
    BY DEF Wakes!vars
  <2>2. CASE \/ OwnerReads \/ OwnerArms \/ OwnerReturns
             \/ \E c \in Clients : ClientAnnounces(c)
    <3>1. Kept
      BY <2>2 DEF OwnerReads, OwnerArms, OwnerReturns, ClientAnnounces, Asks, Request,
                  vars, counters, wakes_only
    <3> QED
      BY <2>1, <3>1
  <2>3. CASE OwnerCalls \/ OwnerEnters \/ OwnerResumes \/ OwnerTimesOut
    <3>1. Kept
      BY <2>3 DEF OwnerCalls, OwnerEnters, OwnerResumes, OwnerTimesOut, InWaitOf,
                  CallWait, Enter, Resume, Timeout, counters, wakes_only
    <3> QED
      BY <2>1, <3>1
  <2>4. CASE ServiceInterrupt \/ ServiceStop \/ ServiceSpuriousWake
            \/ UNCHANGED service_vars
    <3>1. Kept
      BY <2>4 DEF ServiceInterrupt, ServiceStop, ServiceSpuriousWake, SetInterrupted,
                  Stop, SpuriousWake, counters, wakes_only, vars, service_vars
    <3> QED
      BY <2>1, <3>1
  <2>5. CASE OwnerReconciles \/ OwnerFails
    <3>1. Wakes!BeginReconcile(Owner) \/ Wakes!CommitReconcile(Owner) \/ Wakes!Fail(Owner)
      BY <2>5 DEF OwnerReconciles, OwnerFails
    <3> QED
      BY <3>1 DEF Wakes!Next
  <2>6. ASSUME NEW c \in Clients, ClientBegins(c) \/ ClientCommits(c) \/ ClientFails(c)
        PROVE  [Wakes!Next]_(Wakes!vars)
    <3>1. \/ \E id \in Ids, delay \in Delays : Wakes!BeginAccept(c, id, id, delay)
          \/ \E id \in Ids : Wakes!BeginRevoke(c, id)
          \/ Wakes!CommitAccept(c) \/ Wakes!CommitRevoke(c) \/ Wakes!Fail(c)
      BY <2>6 DEF ClientBegins, ClientCommits, ClientFails, Wakes!Scheduled, Wakes!Stored
    <3> QED
      BY <3>1 DEF Wakes!Next
  <2>7. CASE ServiceTick \/ ServiceCrash
    <3>1. Wakes!Tick \/ Wakes!Crash
      BY <2>7 DEF ServiceTick, ServiceCrash
    <3> QED
      BY <3>1 DEF Wakes!Next
  <2> QED
    BY <2>2, <2>3, <2>4, <2>5, <2>6, <2>7 DEF ServiceNext, OwnerGoesOn
<1> QED
  BY <1>1, <1>2, PTL DEF ServiceSpec, Wakes!Spec
-----------------------------------------------------------------------------
(* What is proved of WakeIntents alone therefore holds of the service.  Its   *)
(* proofs are about a second instance, with the same constants and variables: *)
(* the definitions of the two are the same, word for word.                    *)

Proved == INSTANCE WakeIntentsProofs WITH
    Sources <- Ids, Callers <- Clients \cup {Owner}, NoTime <- NoDeadline

\* The constants of the service are as WakeIntents assumes.
LEMMA IntentsAssumptions ==
    /\ Proved!DelaysAssumption /\ Proved!BoundsAssumption
    /\ Proved!AbsentAssumption /\ Proved!NoTimeAssumption
<1>1. Proved!Row = Wakes!Row
  BY DEF Proved!Row, Wakes!Row, Proved!Times, Wakes!Times, Proved!Statuses,
         Wakes!Statuses
<1> QED
  BY <1>1, WakesAssumption, BoundsAssumption, NoDeadlineAssumption
     DEF Proved!DelaysAssumption, Proved!BoundsAssumption,
         Proved!AbsentAssumption, Proved!NoTimeAssumption

\* The same state, seen by either instance.
LEMMA SameState ==
    /\ Proved!Idle = Wakes!Idle
    /\ Proved!Stored = Wakes!Stored /\ Proved!Scheduled = Wakes!Scheduled
    /\ Proved!vars = Wakes!vars
    /\ Proved!Init <=> Wakes!Init
BY DEF Proved!Idle, Wakes!Idle, Proved!Stored, Wakes!Stored, Proved!Scheduled,
       Wakes!Scheduled, Proved!vars, Wakes!vars, Proved!Init, Wakes!Init

\* The calls, but for the commit of an acceptance.
LEMMA SameCalls ==
    ASSUME NEW c
    PROVE  /\ Wakes!Return(c) <=> Proved!Return(c)
           /\ Wakes!Fail(c) <=> Proved!Fail(c)
           /\ Wakes!CommitRevoke(c) <=> Proved!CommitRevoke(c)
           /\ Wakes!CommitReconcile(c) <=> Proved!CommitReconcile(c)
           /\ Wakes!BeginReconcile(c) <=> Proved!BeginReconcile(c)
           /\ \A id : Wakes!BeginRevoke(c, id) <=> Proved!BeginRevoke(c, id)
           /\ \A id, source, delay :
                Wakes!BeginAccept(c, id, source, delay)
                    <=> Proved!BeginAccept(c, id, source, delay)
BY DEF Wakes!Return, Proved!Return, Wakes!Fail, Proved!Fail,
       Wakes!Idle, Proved!Idle, Wakes!Stored, Proved!Stored,
       Wakes!Scheduled, Proved!Scheduled, Wakes!Ended, Proved!Ended,
       Wakes!CommitRevoke, Proved!CommitRevoke, Wakes!Revoked, Proved!Revoked,
       Wakes!CommitReconcile, Proved!CommitReconcile,
       Wakes!Reconciled, Proved!Reconciled, Wakes!Sample, Proved!Sample,
       Wakes!BeginReconcile, Proved!BeginReconcile,
       Wakes!BeginRevoke, Proved!BeginRevoke,
       Wakes!BeginAccept, Proved!BeginAccept, Wakes!ValidDelay, Proved!ValidDelay

\* The commit of an acceptance counts the stored rows.
LEMMA SameCommitAccept ==
    ASSUME NEW c
    PROVE  Wakes!CommitAccept(c) <=> Proved!CommitAccept(c)
<1>1. ASSUME NEW S PROVE Proved!Cardinality(S) = Wakes!Cardinality(S)
  BY DEF Proved!Cardinality, Wakes!Cardinality
<1>2. ASSUME NEW call PROVE Wakes!Admits(call) <=> Proved!Admits(call)
  BY <1>1, SameState DEF Wakes!Admits, Proved!Admits
<1> QED
  BY <1>2, SameCalls DEF Wakes!CommitAccept, Proved!CommitAccept

\* A behaviour of the service is one that WakeIntentsProofs is about.
LEMMA ServiceIsProved == ServiceSpec => Proved!Spec
<1>1. /\ Wakes!Crash <=> Proved!Crash
      /\ Wakes!Tick <=> Proved!Tick
      /\ Wakes!Rollback <=> Proved!Rollback
  BY SameState DEF Wakes!Crash, Proved!Crash, Wakes!Tick, Proved!Tick,
                   Wakes!Rollback, Proved!Rollback
<1>2. [Wakes!Next]_(Wakes!vars) => [Proved!Next]_(Proved!vars)
  BY <1>1, SameState, SameCalls, SameCommitAccept
     DEF Wakes!Next, Proved!Next, Wakes!vars, Proved!vars
<1> QED
  BY <1>2, SameState, ServiceImplementsIntents, PTL DEF Wakes!Spec, Proved!Spec

\* Both instances promise the same ledger.
LEMMA SameLedger == Proved!ImplementsLedger => Wakes!ImplementsLedger
<1>1. Proved!Ledger!Init => Wakes!Ledger!Init
  BY DEF Proved!Ledger!Init, Wakes!Ledger!Init
<1>2. ASSUME NEW S PROVE Proved!Ledger!Cardinality(S) = Wakes!Ledger!Cardinality(S)
  BY DEF Proved!Ledger!Cardinality, Wakes!Ledger!Cardinality
<1>3. ASSUME NEW id, NEW source, Proved!Ledger!Accept(id, source)
      PROVE  Wakes!Ledger!Accept(id, source)
  BY <1>2, <1>3 DEF Proved!Ledger!Accept, Wakes!Ledger!Accept,
         Proved!Ledger!Accepted, Wakes!Ledger!Accepted, Proved!Times, Wakes!Times
<1>4. Proved!Ledger!End => Wakes!Ledger!End
  BY DEF Proved!Ledger!End, Wakes!Ledger!End, Proved!Ledger!Scheduled,
         Wakes!Ledger!Scheduled, Proved!Ledger!Accepted, Wakes!Ledger!Accepted,
         Proved!Ledger!Terminal, Wakes!Ledger!Terminal, Proved!Times, Wakes!Times
<1>5. [Proved!Ledger!Next]_intents => [Wakes!Ledger!Next]_intents
  BY <1>3, <1>4 DEF Proved!Ledger!Next, Wakes!Ledger!Next
<1> QED
  BY <1>1, <1>5, PTL DEF Proved!ImplementsLedger, Wakes!ImplementsLedger,
                         Proved!Ledger!Spec, Wakes!Ledger!Spec

\* In the service, too, the rows keep the promise of the ledger: a source is
\* accepted once, the lifetime total is kept, and an intent ends once, while
\* clients, the owner's loop, the scheduler and restarts go their ways.
THEOREM ServiceImplementsLedger == ServiceSpec => Wakes!ImplementsLedger
BY ServiceIsProved, IntentsAssumptions, Proved!LedgerImplemented, SameLedger, PTL

\* No wake-up of the scheduler, due, interrupted or for nothing, fires an intent
\* before the clock has shown its deadline, and every row passes the CHECK
\* constraints of its table.
THEOREM ServiceFiresNeverEarly ==
    ServiceSpec => [](Wakes!NeverEarly /\ Wakes!SchemaHolds)
<1>1. Proved!NeverEarly => Wakes!NeverEarly
  BY SameState DEF Proved!NeverEarly, Wakes!NeverEarly
<1>2. Proved!SchemaHolds => Wakes!SchemaHolds
  BY SameState DEF Proved!SchemaHolds, Wakes!SchemaHolds
<1>3. Proved!Spec => []Proved!NeverEarly
  BY IntentsAssumptions, Proved!FiresNeverEarly
<1>4. Proved!Spec => []Proved!SchemaHolds
  BY IntentsAssumptions, Proved!SchemaAlwaysHolds
<1> QED
  BY <1>1, <1>2, <1>3, <1>4, ServiceIsProved, PTL
=============================================================================
