---------------------------- MODULE SchedulerProofs ----------------------------
(* Theorems about Scheduler for every set of waiting threads and every bound. *)
EXTENDS Scheduler, TLAPS

IInv ==
    /\ TypeOK
    /\ awaited \in [Waiters -> Times \cup {NoDeadline}]

\* The bounds are natural numbers, and no time is NoDeadline.
LEMMA Numbers ==
    /\ Horizon \in Nat /\ Times \subseteq Nat /\ NoDeadline \notin Times
BY BoundsAssumption, NoDeadlineAssumption DEF Times

\* A step of the scheduler, without the bounds on how often it is called.
ThreadStep(w) ==
    CallWait(w) \/ Enter(w) \/ Resume(w) \/ Timeout(w) \/ SpuriousWake(w)

Step ==
    \/ \E at \in Times : Request(at)
    \/ SetInterrupted
    \/ Stop
    \/ \E w \in Waiters : ThreadStep(w)
    \/ Tick
    \/ Rollback

\* The bounds only take steps away.
LEMMA NextIsStep ==
    ASSUME [Next]_vars
    PROVE  Step \/ UNCHANGED vars
<1>1. 1 .. Horizon \subseteq Times
  BY Numbers DEF Times
<1> QED
  BY <1>1 DEF Next, Step, ThreadStep, RequestAt, Interrupt
-----------------------------------------------------------------------------
(* Types. *)

\* A notification moves threads within wait(); who is timed stays timed.
LEMMA NotifyMoves ==
    ASSUME pc \in [Waiters -> Locations], NotifyOne \/ NotifyAll
    PROVE  /\ pc' \in [Waiters -> Locations]
           /\ \A w \in Waiters :
                  \/ pc'[w] = pc[w]
                  \/ w \in Blocked /\ pc'[w] = Signalled(pc[w])
<1>1. ASSUME NEW w \in Waiters
      PROVE  Signalled(pc[w]) \in Locations
  BY DEF Signalled, Locations
<1>2. CASE NotifyOne
  <2>1. CASE Blocked = {}
    BY <1>2, <2>1 DEF NotifyOne
  <2>2. CASE Blocked # {}
    <3>1. PICK w \in Blocked : pc' = [pc EXCEPT ![w] = Signalled(@)]
      BY <1>2, <2>2 DEF NotifyOne
    <3>2. w \in Waiters
      BY DEF Blocked
    <3> QED
      BY <1>1, <3>1, <3>2
  <2> QED
    BY <2>1, <2>2
<1>3. CASE NotifyAll
  BY <1>1, <1>3 DEF NotifyAll
<1> QED
  BY <1>2, <1>3

\* A notification keeps what TypeOK says of timed threads.
LEMMA NotifyKeepsTimed ==
    ASSUME IInv, NotifyOne \/ NotifyAll, awaited' = awaited
    PROVE  /\ pc' \in [Waiters -> Locations]
           /\ \A w \in Waiters :
                  pc'[w] \in {"timed", "signalled_timed"} => awaited'[w] \in Times
<1>1. /\ pc' \in [Waiters -> Locations]
      /\ \A w \in Waiters :
             \/ pc'[w] = pc[w]
             \/ w \in Blocked /\ pc'[w] = Signalled(pc[w])
  BY NotifyMoves DEF IInv, TypeOK
<1>2. ASSUME NEW w \in Waiters, pc'[w] \in {"timed", "signalled_timed"}
      PROVE  pc[w] \in {"timed", "signalled_timed"}
  BY <1>1, <1>2 DEF Blocked, Signalled
<1> QED
  BY <1>1, <1>2 DEF IInv, TypeOK

\* One turn of the loop keeps the types.
LEMMA LoopKeepsIInv ==
    ASSUME IInv, NEW w \in Waiters, Loop(w), UNCHANGED <<stopped, counters>>
    PROVE  IInv'
<1>1. CASE ~stopped /\ ~Due /\ ~interrupted /\ UNCHANGED <<deadline, interrupted>>
           /\ pc' = [pc EXCEPT ![w] = BlockAs]
           /\ awaited' = [awaited EXCEPT ![w] = deadline]
  BY <1>1 DEF IInv, TypeOK, BlockAs, Locations, counters
<1>2. ASSUME NEW result \in Outside, pc' = [pc EXCEPT ![w] = result],
             awaited' = awaited,
             deadline' = deadline \/ deadline' = NoDeadline,
             UNCHANGED interrupted \/ interrupted' = FALSE
      PROVE  IInv'
  <2>1. /\ pc' \in [Waiters -> Locations]
        /\ \A v \in Waiters :
               pc'[v] \in {"timed", "signalled_timed"} => awaited'[v] \in Times
    BY <1>2 DEF IInv, TypeOK, Outside, Locations
  <2>2. /\ deadline' \in Times \cup {NoDeadline} /\ interrupted' \in BOOLEAN
        /\ stopped' => deadline' = NoDeadline /\ ~interrupted'
    <3>1. stopped' = stopped
      OBVIOUS
    <3>2. deadline' \in Times \cup {NoDeadline}
      BY <1>2 DEF IInv, TypeOK
    <3>3. interrupted' \in BOOLEAN
      BY <1>2 DEF IInv, TypeOK
    <3>4. stopped => deadline' = NoDeadline
      BY <1>2 DEF IInv, TypeOK
    <3>5. stopped => ~interrupted'
      BY <1>2 DEF IInv, TypeOK
    <3> QED
      BY <3>1, <3>2, <3>3, <3>4, <3>5
  <2> QED
    BY <1>2, <2>1, <2>2 DEF IInv, TypeOK, counters
<1> QED
  BY <1>1, <1>2 DEF Loop, Outside

\* Every step keeps the types.
LEMMA StepKeepsIInv ==
    ASSUME IInv, Step \/ UNCHANGED vars
    PROVE  IInv'
<1>1. ASSUME NEW at \in Times, Request(at)
      PROVE  IInv'
  <2>1. ~stopped
    BY <1>1 DEF Request, Takes
  <2>2. NotifyOne /\ awaited' = awaited
    BY <1>1 DEF Request, NotifyRequest
  <2> QED
    BY <1>1, <2>1, <2>2, NotifyKeepsTimed DEF Request, IInv, TypeOK
<1>2. CASE SetInterrupted
  <2>1. NotifyOne /\ awaited' = awaited
    BY <1>2 DEF SetInterrupted, NotifyInterrupt
  <2> QED
    BY <1>2, <2>1, NotifyKeepsTimed DEF SetInterrupted, IInv, TypeOK
<1>3. CASE Stop
  <2>1. NotifyAll /\ awaited' = awaited
    BY <1>3 DEF Stop, NotifyStop
  <2> QED
    BY <1>3, <2>1, NotifyKeepsTimed DEF Stop, IInv, TypeOK, counters
<1>4. ASSUME NEW w \in Waiters, CallWait(w) \/ Timeout(w)
      PROVE  IInv'
  BY <1>4 DEF CallWait, Timeout, IInv, TypeOK, Locations, counters
<1>5. ASSUME NEW w \in Waiters, Enter(w)
      PROVE  IInv'
  BY <1>5, LoopKeepsIInv DEF Enter
<1>6. ASSUME NEW w \in Waiters, Resume(w)
      PROVE  IInv'
  <2>1. CASE Predicate(w)
    BY <1>6, <2>1, LoopKeepsIInv DEF Resume
  <2>2. CASE ~Predicate(w)
    BY <1>6, <2>2 DEF Resume, IInv, TypeOK, Locations, counters
  <2> QED
    BY <2>1, <2>2
<1>7. ASSUME NEW w \in Waiters, SpuriousWake(w)
      PROVE  IInv'
  BY <1>7 DEF SpuriousWake, Blocked, Signalled, IInv, TypeOK, Locations, counters
<1>8. CASE Tick \/ Rollback
  BY <1>8, Numbers DEF Tick, Rollback, IInv, TypeOK, Times
<1>9. CASE UNCHANGED vars
  BY <1>9 DEF vars, IInv, TypeOK
<1> QED
  BY <1>1, <1>2, <1>3, <1>4, <1>5, <1>6, <1>7, <1>8, <1>9 DEF Step, ThreadStep

\* IInv is an inductive invariant of the scheduler.
LEMMA IInvIsInvariant == Spec => []IInv
<1>1. ASSUME Init
      PROVE  IInv
  <2>1. 0 \in Times
    BY Numbers DEF Times
  <2>2. pc \in [Waiters -> Locations] /\ \A w \in Waiters : pc[w] = "idle"
    BY <1>1 DEF Init, Locations
  <2>3. awaited \in [Waiters -> Times \cup {NoDeadline}]
    BY <1>1 DEF Init
  <2> QED
    BY <1>1, <2>1, <2>2, <2>3 DEF Init, IInv, TypeOK
<1>2. IInv /\ [Next]_vars => IInv'
  BY NextIsStep, StepKeepsIInv
<1> QED
  BY <1>1, <1>2, PTL DEF Spec

\* The state of the scheduler has its types, and a stopped scheduler has
\* neither a deadline nor an interruption, whatever is called later.
THEOREM TypeCorrect == Spec => []TypeOK
BY IInvIsInvariant, PTL DEF IInv

\* No interruption, spurious wake-up or later request loses a pending
\* deadline: it moves forward, is due, or falls to stop().
THEOREM DeadlineAlwaysKept == Spec => DeadlineKept
<1> DEFINE Kept ==
        deadline # NoDeadline =>
          \/ deadline' = NoDeadline /\ (clock >= deadline \/ stopped')
          \/ deadline' # NoDeadline /\ deadline' <= deadline
<1>1. ASSUME IInv, deadline' = deadline
      PROVE  Kept
  BY <1>1, Numbers DEF IInv, TypeOK
<1>2. ASSUME NEW w \in Waiters, Loop(w), deadline' # deadline
      PROVE  Kept
  BY <1>2 DEF Loop, Due
<1>3. ASSUME IInv, NEW at \in Times, Request(at)
      PROVE  Kept
  <2>1. deadline' = at /\ (deadline # NoDeadline => at < deadline)
    BY <1>3 DEF Request, Takes
  <2>2. at # NoDeadline
    BY Numbers
  <2>3. at \in Int /\ (deadline # NoDeadline => deadline \in Int)
    BY <1>3, Numbers DEF IInv, TypeOK
  <2> QED
    BY <2>1, <2>2, <2>3
<1>4. ASSUME Stop
      PROVE  Kept
  BY <1>4 DEF Stop
<1> HIDE DEF Kept
<1>5. ASSUME IInv, [Next]_vars
      PROVE  Kept
  <2>1. \/ deadline' = deadline
        \/ \E w \in Waiters : Loop(w)
        \/ \E at \in Times : Request(at)
        \/ Stop
    BY <1>5, NextIsStep DEF Step, ThreadStep, vars, SetInterrupted, CallWait, Enter, Resume,
                Timeout, SpuriousWake, Tick, Rollback
  <2> QED
    BY <1>1, <1>2, <1>3, <1>4, <1>5, <2>1
<1>6. IInv /\ [Next]_vars => [Kept]_vars
  BY <1>5
<1> QED
  BY <1>6, IInvIsInvariant, PTL DEF Spec, DeadlineKept, Kept
-----------------------------------------------------------------------------
(* Wake-ups, for any number of threads. *)

\* A thread in wait() that will look at the flags again by itself.
Awake(w) == pc[w] \in {"entering", "signalled_untimed", "signalled_timed"}

\* stop() leaves nobody blocked, and an interruption that is still pending is
\* known to a thread that will consume it, unless nobody is blocked at all.
Heard ==
    /\ stopped => Blocked = {}
    /\ interrupted /\ Blocked # {} => \E w \in Waiters : Awake(w)

\* Only a thread that saw neither flag set blocks; a notified one is awake.
LEMMA NotifyWakes ==
    ASSUME pc \in [Waiters -> Locations]
    PROVE  /\ NotifyOne /\ Blocked # {} => \E w \in Waiters : Awake(w)'
           /\ NotifyAll => Blocked' = {}
           /\ NotifyOne \/ NotifyAll =>
                  /\ \A w \in Waiters : Awake(w) => Awake(w)'
                  /\ Blocked' \subseteq Blocked
<1>1. ASSUME NEW w \in Waiters
      PROVE  /\ w \in Blocked <=> pc[w] \in {"untimed", "timed"}
             /\ w \in Blocked' <=> pc'[w] \in {"untimed", "timed"}
             /\ Signalled(pc[w]) \in {"signalled_untimed", "signalled_timed"}
  BY DEF Blocked, Signalled
<1>2. NotifyOne /\ Blocked # {} => \E w \in Waiters : Awake(w)'
  <2> SUFFICES ASSUME NotifyOne, Blocked # {}
               PROVE  \E w \in Waiters : Awake(w)'
    OBVIOUS
  <2>1. PICK w \in Blocked : pc' = [pc EXCEPT ![w] = Signalled(@)]
    BY DEF NotifyOne
  <2>2. w \in Waiters /\ pc'[w] = Signalled(pc[w])
    BY <2>1 DEF Blocked
  <2> QED
    BY <1>1, <2>2 DEF Awake
<1>3. NotifyAll => Blocked' = {}
  <2> SUFFICES ASSUME NotifyAll, NEW w \in Waiters
               PROVE  w \notin Blocked'
    BY DEF Blocked
  <2> QED
    BY <1>1 DEF NotifyAll
<1>4. ASSUME NotifyOne \/ NotifyAll, NEW w \in Waiters
      PROVE  /\ Awake(w) => Awake(w)'
             /\ w \in Blocked' => w \in Blocked
  <2>1. pc'[w] = pc[w] \/ (w \in Blocked /\ pc'[w] = Signalled(pc[w]))
    BY <1>4, NotifyMoves
  <2> QED
    BY <1>1, <2>1 DEF Awake
<1> QED
  BY <1>2, <1>3, <1>4 DEF Blocked

\* A turn of the loop that blocks has seen both flags clear, and one that
\* returns has consumed the interruption or found the scheduler stopped.
LEMMA LoopHears ==
    ASSUME IInv, Heard, NEW w \in Waiters, Awake(w), Loop(w), stopped' = stopped
    PROVE  Heard'
<1>1. /\ pc' = [pc EXCEPT ![w] = pc'[w]]
      /\ pc'[w] \in {"untimed", "timed"} => ~stopped /\ ~interrupted /\ UNCHANGED interrupted
      /\ \/ stopped /\ pc'[w] = "returned_stopped" /\ UNCHANGED interrupted
         \/ ~stopped /\ ~interrupted'
  BY DEF IInv, TypeOK, Loop, BlockAs
<1>2. \A v \in Waiters \ {w} : pc'[v] = pc[v]
  BY <1>1 DEF IInv, TypeOK
<1>3. CASE stopped
  <2>1. ~interrupted'
    BY <1>1, <1>3 DEF IInv, TypeOK
  <2>2. Blocked' = {}
    BY <1>1, <1>2, <1>3 DEF Heard, Blocked
  <2> QED
    BY <2>1, <2>2 DEF Heard
<1>4. CASE ~stopped
  BY <1>1, <1>4 DEF Heard
<1> QED
  BY <1>3, <1>4

\* Every step keeps Heard.
LEMMA StepKeepsHeard ==
    ASSUME IInv, Heard, Step \/ UNCHANGED vars
    PROVE  Heard'
<1>1. ASSUME NEW at \in Times, Request(at)
      PROVE  Heard'
  <2>1. /\ \A w \in Waiters : Awake(w) => Awake(w)'
        /\ Blocked' \subseteq Blocked
    BY <1>1, NotifyWakes DEF Request, NotifyRequest, IInv, TypeOK
  <2> QED
    BY <1>1, <2>1 DEF Request, Heard
<1>2. CASE SetInterrupted
  <2>1. /\ Blocked # {} => \E w \in Waiters : Awake(w)'
        /\ Blocked' \subseteq Blocked
    BY <1>2, NotifyWakes DEF SetInterrupted, NotifyInterrupt, IInv, TypeOK
  <2> QED
    BY <1>2, <2>1 DEF SetInterrupted, Heard
<1>3. CASE Stop
  BY <1>3, NotifyWakes DEF Stop, NotifyStop, IInv, TypeOK, Heard
<1>4. ASSUME NEW w \in Waiters,
             UNCHANGED <<interrupted, stopped>>,
             pc' = [pc EXCEPT ![w] = pc'[w]], Awake(w)'
      PROVE  Heard'
  <2>1. Blocked' \subseteq Blocked
    BY <1>4 DEF IInv, TypeOK, Blocked, Awake
  <2> QED
    BY <1>4, <2>1 DEF Heard
<1>5. ASSUME NEW w \in Waiters, CallWait(w) \/ Timeout(w) \/ SpuriousWake(w)
      PROVE  Heard'
  <2>1. UNCHANGED <<interrupted, stopped>> /\ pc' = [pc EXCEPT ![w] = pc'[w]]
    BY <1>5 DEF CallWait, Timeout, SpuriousWake, IInv, TypeOK
  <2>2. Awake(w)'
    BY <1>5 DEF CallWait, Timeout, SpuriousWake, Signalled, Awake, IInv, TypeOK
  <2> QED
    BY <1>4, <2>1, <2>2
<1>6. ASSUME NEW w \in Waiters, Enter(w)
      PROVE  Heard'
  BY <1>6, LoopHears DEF Enter, Awake
<1>7. ASSUME NEW w \in Waiters, Resume(w)
      PROVE  Heard'
  <2>1. CASE Predicate(w)
    BY <1>7, <2>1, LoopHears DEF Resume, Awake
  <2>2. CASE ~Predicate(w)
    <3>1. ~stopped /\ ~interrupted /\ UNCHANGED <<stopped, interrupted>>
      BY <1>7, <2>2 DEF Resume, Predicate
    <3> QED
      BY <3>1 DEF Heard
  <2> QED
    BY <2>1, <2>2
<1>8. CASE Tick \/ Rollback \/ UNCHANGED vars
  BY <1>8 DEF Tick, Rollback, vars, Heard, Blocked, Awake
<1> QED
  BY <1>1, <1>2, <1>3, <1>5, <1>6, <1>7, <1>8 DEF Step, ThreadStep

\* However many threads wait, stop() leaves none of them blocked, and a
\* pending interruption is never left to threads that sleep.
THEOREM InterruptAndStopHeard == Spec => []Heard
<1>1. Init => Heard
  BY DEF Init, Heard, Blocked
<1>2. IInv /\ Heard /\ [Next]_vars => Heard'
  BY NextIsStep, StepKeepsHeard
<1> QED
  BY <1>1, <1>2, IInvIsInvariant, PTL DEF Spec
-----------------------------------------------------------------------------
(* Wake-ups of a single thread. *)

\* A thread that blocks sleeps for the pending deadline, or for none.
LEMMA LoopLosesNoWakeup ==
    ASSUME IInv, NEW w, Waiters = {w}, Loop(w), stopped' = stopped
    PROVE  NoLostWakeup'
<1>1. w \in Waiters
  OBVIOUS
<1>2. CASE pc'[w] \notin {"untimed", "timed"}
  BY <1>2 DEF NoLostWakeup, Blocked
<1>3. CASE pc'[w] \in {"untimed", "timed"}
  <2>1. /\ ~stopped /\ ~interrupted /\ UNCHANGED <<deadline, interrupted>>
        /\ pc'[w] = BlockAs /\ awaited'[w] = deadline
    BY <1>1, <1>3 DEF Loop, IInv, TypeOK
  <2>2. deadline # NoDeadline => deadline \in Int
    BY Numbers DEF IInv, TypeOK
  <2> QED
    BY <2>1, <2>2 DEF BlockAs, NoLostWakeup, Blocked
<1> QED
  BY <1>2, <1>3

\* Every step keeps NoLostWakeup when one thread waits: a notification can go
\* to nobody else.
LEMMA StepKeepsNoLostWakeup ==
    ASSUME IInv, NoLostWakeup, Step \/ UNCHANGED vars, NEW w, Waiters = {w}
    PROVE  NoLostWakeup'
<1>1. w \in Waiters
  OBVIOUS
<1>2. ASSUME NotifyOne \/ NotifyAll
      PROVE  Blocked' = {}
  <2>1. CASE Blocked = {}
    BY <1>2, <2>1, NotifyWakes DEF IInv, TypeOK
  <2>2. CASE Blocked # {}
    <3>1. pc' = [pc EXCEPT ![w] = Signalled(@)] \/ NotifyAll
      BY <1>2, <2>2 DEF NotifyOne, Blocked
    <3>2. pc'[w] = Signalled(pc[w]) \/ NotifyAll
      BY <1>1, <3>1 DEF IInv, TypeOK
    <3> QED
      BY <3>2, NotifyWakes DEF Signalled, Blocked, IInv, TypeOK
  <2> QED
    BY <2>1, <2>2
<1>3. ASSUME NEW at \in Times, Request(at)
      PROVE  NoLostWakeup'
  BY <1>2, <1>3 DEF Request, NotifyRequest, NoLostWakeup
<1>4. CASE SetInterrupted
  BY <1>2, <1>4 DEF SetInterrupted, NotifyInterrupt, NoLostWakeup
<1>5. CASE Stop
  BY <1>2, <1>5 DEF Stop, NotifyStop, NoLostWakeup
<1>6. CASE CallWait(w) \/ Timeout(w) \/ SpuriousWake(w)
  <2>1. pc'[w] \notin {"untimed", "timed"}
    BY <1>1, <1>6 DEF CallWait, Timeout, SpuriousWake, Signalled, IInv, TypeOK
  <2> QED
    BY <2>1 DEF NoLostWakeup, Blocked
<1>7. CASE Enter(w)
  BY <1>7, LoopLosesNoWakeup DEF Enter
<1>8. CASE Resume(w)
  <2>1. CASE Predicate(w)
    BY <1>8, <2>1, LoopLosesNoWakeup DEF Resume
  <2>2. CASE ~Predicate(w)
    <3>1. /\ ~stopped /\ ~interrupted
          /\ UNCHANGED <<deadline, stopped, interrupted, awaited>>
          /\ \/ pc[w] = "signalled_untimed" /\ pc'[w] = "untimed" /\ deadline = NoDeadline
             \/ /\ pc[w] = "signalled_timed" /\ pc'[w] = "timed"
                /\ deadline # NoDeadline /\ ~(deadline < awaited[w])
      BY <1>1, <1>8, <2>2 DEF Resume, Predicate, IInv, TypeOK
    <3>2. deadline # NoDeadline => deadline \in Int
      BY Numbers DEF IInv, TypeOK
    <3>3. pc[w] = "signalled_timed" => awaited[w] \in Int
      <4>1. pc[w] = "signalled_timed" => awaited[w] \in Times
        BY <1>1 DEF IInv, TypeOK
      <4> QED
        BY <4>1, BoundsAssumption DEF Times
    <3> QED
      BY <3>1, <3>2, <3>3 DEF NoLostWakeup, Blocked
  <2> QED
    BY <2>1, <2>2
<1>9. CASE Tick \/ Rollback \/ UNCHANGED vars
  BY <1>9 DEF Tick, Rollback, vars, NoLostWakeup, Blocked
<1> QED
  BY <1>3, <1>4, <1>5, <1>6, <1>7, <1>8, <1>9 DEF Step, ThreadStep

\* The only thread in wait() never sleeps past a stop, an interruption or a
\* deadline earlier than the one it sleeps for.
THEOREM NoWakeupIsLost ==
    ASSUME NEW w, Waiters = {w}
    PROVE  Spec => []NoLostWakeup
<1>1. Init => NoLostWakeup
  BY DEF Init, NoLostWakeup, Blocked
<1>2. IInv /\ NoLostWakeup /\ [Next]_vars => NoLostWakeup'
  BY NextIsStep, StepKeepsNoLostWakeup
<1> QED
  BY <1>1, <1>2, IInvIsInvariant, PTL DEF Spec
=============================================================================
