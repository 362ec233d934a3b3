------------------------------- MODULE WakeService -------------------------------
(***************************************************************************)
(* The wake scheduler and the durable wake intents together, as README.md  *)
(* describes their use: WakeIntentRuntime "exposes the earliest scheduled  *)
(* deadline for an event-driven scheduler".  The owner thread reconciles,  *)
(* reads next_scheduled_at(), hands it to request_at() and sleeps in       *)
(* wait(); the threads that accept an intent hand its deadline to          *)
(* request_at() themselves.  The scheduler dies with the process, the      *)
(* intents do not.                                                         *)
(*                                                                         *)
(* The library owns no thread and contains no such loop: the threads are   *)
(* the application's, every operation they call is the library's code.     *)
(* The clock is not set back here: each part's own module does that.       *)
(***************************************************************************)
EXTENDS Scheduler

CONSTANTS Ids, Clients, Owner, Delays, MaxTotal, Absent

ASSUME OwnerAssumption == Waiters = {Owner} /\ Owner \notin Clients

VARIABLES
    intents, calls, latest,     \* as in WakeIntents
    owner,      \* where the owner is in its loop, and the deadline it has read
    announced   \* the deadline each client has yet to hand to request_at()

\* One scope, in which every intent has a source of its own.  The scheduler
\* and the runtime read the same clock.
Wakes == INSTANCE WakeIntents WITH
    Sources <- Ids, Callers <- Clients \cup {Owner}, NoTime <- NoDeadline

\* What WakeIntents assumes of its constants, for those that are given here.
ASSUME WakesAssumption ==
    /\ Delays \subseteq Int
    /\ MaxTotal \in Nat
    /\ Absent \notin Wakes!Row

service_vars == <<vars, intents, calls, latest, owner, announced>>

wakes_only == <<intents, calls, latest>>

OwnerPlaces == {"reconciling", "reading", "arming", "waiting", "stopped"}

Goes(place, next) == owner' = [at |-> place, next |-> next]
-----------------------------------------------------------------------------
ServiceInit ==
    /\ Init
    /\ Wakes!Init
    /\ owner = [at |-> "reconciling", next |-> NoDeadline]
    /\ announced = [c \in Clients |-> NoDeadline]

\* A call of request_at(), taken or not.
Asks(at) ==
    /\ IF Takes(at) THEN Request(at) ELSE UNCHANGED <<vars>>
    /\ UNCHANGED requests

OwnerReconciles ==
    /\ owner.at = "reconciling"
    /\ \/ Wakes!BeginReconcile(Owner) /\ UNCHANGED owner
       \/ Wakes!CommitReconcile(Owner) /\ Goes("reading", NoDeadline)
    /\ UNCHANGED <<vars, announced>>

\* reconcile() throws; the owner tries again.
OwnerFails == Wakes!Fail(Owner) /\ UNCHANGED <<vars, owner, announced>>

OwnerReads ==
    /\ owner.at = "reading"
    /\ Goes("arming", Wakes!NextScheduledAt)
    /\ UNCHANGED <<vars, wakes_only, announced>>

\* What the owner has read may be out of date by now.
OwnerArms ==
    /\ owner.at = "arming"
    /\ IF owner.next = NoDeadline THEN UNCHANGED vars ELSE Asks(owner.next)
    /\ Goes("waiting", NoDeadline)
    /\ UNCHANGED <<wakes_only, announced>>

InWaitOf(step) ==
    /\ owner.at = "waiting"
    /\ step
    /\ UNCHANGED <<wakes_only, owner, announced>>

OwnerCalls == InWaitOf(pc[Owner] = "idle" /\ CallWait(Owner))

OwnerEnters == InWaitOf(Enter(Owner))

OwnerResumes == InWaitOf(Resume(Owner))

OwnerTimesOut == InWaitOf(Timeout(Owner))

\* Due and interrupted lead to another turn, stopped ends the loop.
OwnerReturns ==
    /\ owner.at = "waiting"
    /\ pc[Owner] \in {"returned_due", "returned_interrupted", "returned_stopped"}
    /\ Goes(IF pc[Owner] = "returned_stopped" THEN "stopped" ELSE "reconciling", NoDeadline)
    /\ pc' = [pc EXCEPT ![Owner] = "idle"]
    /\ UNCHANGED <<deadline, interrupted, stopped, awaited, counters,
                   wakes_only, announced>>

OwnerGoesOn ==
    \/ OwnerReconciles \/ OwnerReads \/ OwnerArms
    \/ OwnerCalls \/ OwnerEnters \/ OwnerReturns

\* A client revokes what it knows to be accepted.
ClientBegins(c) ==
    /\ announced[c] = NoDeadline
    /\ \/ \E id \in Ids, delay \in Delays : Wakes!BeginAccept(c, id, id, delay)
       \/ \E id \in Wakes!Scheduled : Wakes!BeginRevoke(c, id)
    /\ UNCHANGED <<vars, owner, announced>>

\* accept() has returned accepted: its caller knows a new deadline.
ClientCommits(c) ==
    /\ \/ Wakes!CommitAccept(c)
       \/ Wakes!CommitRevoke(c)
    /\ announced' = [announced EXCEPT ![c] =
           IF calls[c].op = "accept" /\ Wakes!Admits(calls[c])
           THEN calls[c].now + calls[c].delay ELSE NoDeadline]
    /\ UNCHANGED <<vars, owner>>

ClientFails(c) == Wakes!Fail(c) /\ UNCHANGED <<vars, owner, announced>>

ClientAnnounces(c) ==
    /\ announced[c] # NoDeadline
    /\ Asks(announced[c])
    /\ announced' = [announced EXCEPT ![c] = NoDeadline]
    /\ UNCHANGED <<wakes_only, owner>>

ServiceInterrupt ==
    SetInterrupted /\ UNCHANGED <<interrupts, wakes_only, owner, announced>>

ServiceStop == Stop /\ UNCHANGED <<wakes_only, owner, announced>>

ServiceSpuriousWake ==
    SpuriousWake(Owner) /\ UNCHANGED <<wakes_only, owner, announced>>

ServiceTick == Tick /\ Wakes!Tick /\ UNCHANGED <<owner, announced>>

\* The process dies: a new one has the committed intents and an empty scheduler.
ServiceCrash ==
    /\ Wakes!Crash
    /\ deadline' = NoDeadline
    /\ interrupted' = FALSE
    /\ stopped' = FALSE
    /\ pc' = [w \in Waiters |-> "idle"]
    /\ awaited' = [w \in Waiters |-> NoDeadline]
    /\ Goes("reconciling", NoDeadline)
    /\ announced' = [c \in Clients |-> NoDeadline]
    /\ UNCHANGED counters

ServiceNext ==
    \/ OwnerGoesOn
    \/ OwnerFails
    \/ OwnerResumes
    \/ OwnerTimesOut
    \/ \E c \in Clients :
        \/ ClientBegins(c)
        \/ ClientCommits(c)
        \/ ClientFails(c)
        \/ ClientAnnounces(c)
    \/ ServiceInterrupt
    \/ ServiceStop
    \/ ServiceSpuriousWake
    \/ ServiceTick
    \/ ServiceCrash

ServiceSpec == ServiceInit /\ [][ServiceNext]_service_vars

\* The clock goes on and the owner's thread is scheduled, also where it is
\* woken for nothing again and again past its time.  Calls may fail and the
\* process may die again and again, but not each time the owner reconciles.
ServiceFairSpec ==
    /\ ServiceSpec
    /\ WF_service_vars(ServiceTick)
    /\ WF_service_vars(OwnerGoesOn)
    /\ WF_service_vars(OwnerResumes)
    /\ WF_service_vars(OwnerTimesOut)
    /\ SF_service_vars(OwnerReconciles /\ Wakes!CommitReconcile(Owner))
    /\ \A c \in Clients : WF_service_vars(ClientAnnounces(c))
-----------------------------------------------------------------------------
\* Types; only the owner in its place of the loop is inside of wait().
ServiceTypeOK ==
    /\ TypeOK
    /\ Wakes!TypeOK
    /\ owner \in [at : OwnerPlaces, next : Times \cup {NoDeadline}]
    /\ announced \in [Clients -> Times \cup {NoDeadline}]
    /\ pc[Owner] # "idle" => owner.at = "waiting"

\* Whoever could still be relied on to have the scheduler look at a deadline
\* in time: a call of request_at() under way, or the owner before it reads.
Foreseen(due) ==
    \/ deadline # NoDeadline /\ deadline <= due
    \/ \E c \in Clients : announced[c] # NoDeadline /\ announced[c] <= due
    \/ owner.at \in {"reconciling", "reading"}
    \/ owner.at = "arming" /\ owner.next # NoDeadline /\ owner.next <= due
    \/ pc[Owner] \in {"returned_due", "returned_interrupted"}

\* No scheduled intent is without a wake-up in time, though the owner arms
\* what it read before other threads accepted, though a consumed deadline
\* stood for several intents, and though a restart forgets the scheduler.
ArmedInTime ==
    stopped \/ \A id \in Wakes!Scheduled : Foreseen(intents[id].due_at)

\* Every accepted intent ends, unless the application stops the scheduler:
\* "Restart can re-arm a future deadline or fire an overdue intent".
IntentsEnd ==
    \A id \in Ids :
        (id \in Wakes!Scheduled) ~> (id \notin Wakes!Scheduled \/ stopped)
=============================================================================
