------------------------------- MODULE Scheduler -------------------------------
(***************************************************************************)
(* gaudere::scheduling::wake::Scheduler: one deadline, one mutex and one   *)
(* condition variable shared by the threads that wait() and by the threads *)
(* that request, interrupt and stop.                                       *)
(*                                                                         *)
(* What runs under the mutex without blocking is one step.  The condition  *)
(* variable is the set of blocked threads: notify_one picks any of them,   *)
(* a signalled thread must take the mutex again before it goes on, and it  *)
(* may also wake for no reason.                                            *)
(*                                                                         *)
(* Operators named Faulty... are variants with a plausible bug; no action  *)
(* uses them.                                                              *)
(***************************************************************************)
EXTENDS Integers, FiniteSets

CONSTANTS
    Waiters,        \* the threads that call wait()
    Horizon,        \* bound on the clock and on deadlines
    MaxRequests,    \* bound on the calls of request_at()
    MaxInterrupts,  \* bound on the calls of interrupt()
    MaxRollbacks,   \* bound on the backward steps of the system clock
    NoDeadline      \* std::nullopt of deadline_

ASSUME WaitersAssumption == IsFiniteSet(Waiters)
ASSUME BoundsAssumption ==
    {Horizon, MaxRequests, MaxInterrupts, MaxRollbacks} \subseteq Nat
ASSUME NoDeadlineAssumption == NoDeadline \notin Int

VARIABLES
    deadline,       \* deadline_
    interrupted,    \* interrupted_
    stopped,        \* stopped_
    pc,             \* where each waiter is
    awaited,        \* the awaited_deadline a timed waiter sleeps for
    clock,          \* the system clock
    requests, interrupts, rollbacks     \* how often each has happened

vars == <<deadline, interrupted, stopped, pc, awaited, clock,
          requests, interrupts, rollbacks>>

\* idle: outside wait().  entering: in wait(), needs the mutex to run the loop.
\* untimed, timed: blocked on the condition variable.  signalled_...: woken,
\* needs the mutex to look at the predicate.  returned_...: left wait() with
\* that result.
Locations == {"idle", "entering", "untimed", "timed",
              "signalled_untimed", "signalled_timed",
              "returned_due", "returned_interrupted", "returned_stopped"}

Outside == {"idle", "returned_due", "returned_interrupted", "returned_stopped"}

InWait(w) == pc[w] \notin Outside

Blocked == {w \in Waiters : pc[w] \in {"untimed", "timed"}}

Signalled(location) ==
    IF location = "untimed" THEN "signalled_untimed" ELSE "signalled_timed"

counters == <<clock, requests, interrupts, rollbacks>>
-----------------------------------------------------------------------------
(* The condition variable. *)

NotifyOne ==
    IF Blocked = {} THEN pc' = pc
    ELSE \E w \in Blocked : pc' = [pc EXCEPT ![w] = Signalled(@)]

NotifyAll ==
    pc' = [w \in Waiters |-> IF w \in Blocked THEN Signalled(pc[w]) ELSE pc[w]]
-----------------------------------------------------------------------------
Init ==
    /\ deadline = NoDeadline
    /\ interrupted = FALSE
    /\ stopped = FALSE
    /\ pc = [w \in Waiters |-> "idle"]
    /\ awaited = [w \in Waiters |-> NoDeadline]
    /\ clock = 0
    /\ requests = 0 /\ interrupts = 0 /\ rollbacks = 0

FaultyTakesLater(at) == ~stopped /\ at # deadline

FaultyTakesOnlyFirst(at) == ~stopped /\ deadline = NoDeadline

\* A request is taken when there is no deadline yet or when it is earlier.
Takes(at) == ~stopped /\ (deadline # NoDeadline => at < deadline)

FaultyNotifyOnlyEarlier ==
    IF deadline # NoDeadline THEN NotifyOne ELSE pc' = pc

\* request_at() notifies for a first deadline and for an earlier one.
NotifyRequest == NotifyOne

\* request_at(); request_after() is request_at() of a later moment.  A call
\* that is not taken changes nothing.
Request(at) ==
    /\ Takes(at)
    /\ deadline' = at
    /\ NotifyRequest
    /\ UNCHANGED <<interrupted, stopped, awaited, clock, interrupts, rollbacks>>

RequestAt(at) ==
    /\ requests < MaxRequests
    /\ requests' = requests + 1
    /\ Request(at)

FaultyNotifyInterrupt == pc' = pc

NotifyInterrupt == NotifyOne

\* interrupt() sets the flag again when it is still set, and notifies again.
SetInterrupted ==
    /\ ~stopped
    /\ interrupted' = TRUE
    /\ NotifyInterrupt
    /\ UNCHANGED <<deadline, stopped, awaited, clock, requests, rollbacks>>

Interrupt ==
    /\ interrupts < MaxInterrupts
    /\ interrupts' = interrupts + 1
    /\ SetInterrupted

FaultyNotifyStop == NotifyOne

NotifyStop == NotifyAll

Stop ==
    /\ ~stopped
    /\ stopped' = TRUE
    /\ interrupted' = FALSE
    /\ deadline' = NoDeadline
    /\ NotifyStop
    /\ UNCHANGED <<awaited, counters>>

CallWait(w) ==
    /\ pc[w] \in Outside
    /\ pc' = [pc EXCEPT ![w] = "entering"]
    /\ UNCHANGED <<deadline, interrupted, stopped, awaited, counters>>

Due == deadline # NoDeadline /\ clock >= deadline

FaultyBlockAs == "timed"

BlockAs == IF deadline = NoDeadline THEN "untimed" ELSE "timed"

\* One turn of the loop in wait(), up to the next return or the next block.
\* Blocking evaluates the predicate first; it is false here.
Loop(w) ==
    \/ /\ stopped
       /\ pc' = [pc EXCEPT ![w] = "returned_stopped"]
       /\ UNCHANGED <<deadline, interrupted, awaited>>
    \/ /\ ~stopped /\ Due
       /\ deadline' = NoDeadline
       /\ interrupted' = FALSE
       /\ pc' = [pc EXCEPT ![w] = "returned_due"]
       /\ UNCHANGED awaited
    \/ /\ ~stopped /\ ~Due /\ interrupted
       /\ interrupted' = FALSE
       /\ pc' = [pc EXCEPT ![w] = "returned_interrupted"]
       /\ UNCHANGED <<deadline, awaited>>
    \/ /\ ~stopped /\ ~Due /\ ~interrupted
       /\ pc' = [pc EXCEPT ![w] = BlockAs]
       /\ awaited' = [awaited EXCEPT ![w] = deadline]
       /\ UNCHANGED <<deadline, interrupted>>

Enter(w) ==
    /\ pc[w] = "entering"
    /\ Loop(w)
    /\ UNCHANGED <<stopped, counters>>

\* The predicate of condition_.wait and of condition_.wait_until.
Predicate(w) ==
    \/ stopped
    \/ interrupted
    \/ IF pc[w] = "signalled_untimed" THEN deadline # NoDeadline
       ELSE deadline # NoDeadline => deadline < awaited[w]

\* A woken thread has the mutex again: it goes on, or it blocks once more.
Resume(w) ==
    /\ pc[w] \in {"signalled_untimed", "signalled_timed"}
    /\ IF Predicate(w) THEN Loop(w)
       ELSE /\ pc' = [pc EXCEPT ![w] = IF @ = "signalled_untimed" THEN "untimed"
                                       ELSE "timed"]
            /\ UNCHANGED <<deadline, interrupted, awaited>>
    /\ UNCHANGED <<stopped, counters>>

\* wait_until() has reached its time; the loop is run again in any case.
Timeout(w) ==
    /\ pc[w] \in {"timed", "signalled_timed"}
    /\ clock >= awaited[w]
    /\ pc' = [pc EXCEPT ![w] = "entering"]
    /\ UNCHANGED <<deadline, interrupted, stopped, awaited, counters>>

SpuriousWake(w) ==
    /\ w \in Blocked
    /\ pc' = [pc EXCEPT ![w] = Signalled(@)]
    /\ UNCHANGED <<deadline, interrupted, stopped, awaited, counters>>

Tick ==
    /\ clock < Horizon
    /\ clock' = clock + 1
    /\ UNCHANGED <<deadline, interrupted, stopped, pc, awaited,
                   requests, interrupts, rollbacks>>

Rollback ==
    /\ rollbacks < MaxRollbacks
    /\ clock' \in 0 .. clock - 1
    /\ rollbacks' = rollbacks + 1
    /\ UNCHANGED <<deadline, interrupted, stopped, pc, awaited,
                   requests, interrupts>>

Next ==
    \/ \E at \in 1 .. Horizon : RequestAt(at)
    \/ Interrupt
    \/ Stop
    \/ \E w \in Waiters :
        \/ CallWait(w)
        \/ Enter(w)
        \/ Resume(w)
        \/ Timeout(w)
        \/ SpuriousWake(w)
    \/ Tick
    \/ Rollback

Spec == Init /\ [][Next]_vars

\* The clock goes on and a thread that can run does run.  No thread has to
\* call wait() again, and no wake-up is assumed that nothing has signalled.
FairSpec ==
    /\ Spec
    /\ WF_vars(Tick)
    /\ \A w \in Waiters : WF_vars(Enter(w)) /\ WF_vars(Resume(w)) /\ WF_vars(Timeout(w))
-----------------------------------------------------------------------------
Times == 0 .. Horizon

\* Types.  "stop() is permanent and discards any pending deadline": nothing
\* called later brings a deadline or an interruption back.
TypeOK ==
    /\ deadline \in Times \cup {NoDeadline}
    /\ interrupted \in BOOLEAN
    /\ stopped \in BOOLEAN
    /\ pc \in [Waiters -> Locations]
    /\ \A w \in Waiters :
        pc[w] \in {"timed", "signalled_timed"} => awaited[w] \in Times
    /\ clock \in Times
    /\ stopped => deadline = NoDeadline /\ ~interrupted

\* A pending deadline moves only to an earlier time, and disappears only when
\* it is due or the scheduler is stopped: no interruption, spurious wake-up
\* or later request loses it.
DeadlineKept ==
    [][deadline # NoDeadline =>
          \/ deadline' = NoDeadline /\ (clock >= deadline \/ stopped')
          \/ deadline' # NoDeadline /\ deadline' <= deadline]_vars

\* stop() gets every thread out of wait(), however it is blocked.
StopReleases == \A w \in Waiters : (stopped /\ InWait(w)) ~> ~InWait(w)

\* An interruption reaches a thread that waits, and not only the flag.
InterruptSeen ==
    \A w \in Waiters : (interrupted /\ InWait(w)) ~> (~interrupted \/ ~InWait(w))

\* wait() "blocks the calling thread without polling until the deadline is due
\* or the scheduler is permanently stopped": a thread in wait() returns when
\* a deadline is pending, unless another thread consumes the deadline.
WaitReturnsWhenDue ==
    \A w \in Waiters :
        (InWait(w) /\ deadline # NoDeadline) ~> (~InWait(w) \/ deadline = NoDeadline)

\* No wake-up is lost: a thread that sleeps past a stop, an interruption or a
\* deadline earlier than the one it sleeps for has been signalled.
NoLostWakeup ==
    \A w \in Blocked :
        /\ ~stopped
        /\ ~interrupted
        /\ pc[w] = "untimed" => deadline = NoDeadline
        /\ pc[w] = "timed" => deadline # NoDeadline /\ deadline >= awaited[w]
=============================================================================
