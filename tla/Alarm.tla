------------------------------- MODULE Alarm -------------------------------
(***************************************************************************)
(* alarm.rs: the waits of a browser's engine threads.  One thread owns a   *)
(* heap of deadlines; a Sleep registers a slot with it when it is polled,  *)
(* and what the two share is the slot's state, its waker, the list of      *)
(* arrivals and the count of cancellations.  Every atomic operation, lock  *)
(* and wake is a step of its own, so polls and drops of any Sleep fall     *)
(* between any two steps of the alarm thread.                              *)
(*                                                                         *)
(* The alarm thread's clock is `skew' ahead of the engine threads'.        *)
(***************************************************************************)
EXTENDS Integers, FiniteSets

CONSTANTS
  Sleeps,     \* the futures, each made, awaited and dropped once
  Wakers,     \* the tasks a Sleep may be polled from, one after another
  Skews,      \* what the alarm thread's clock may be ahead by
  MaxNow,     \* bound on the clock: its last instant stands for all later
  None        \* no slot and no waker

ASSUME ClockAssumption == MaxNow \in Nat /\ Skews \subseteq Int
ASSUME FiniteAssumption == IsFiniteSet(Sleeps)
ASSUME NoneAssumption == None \notin Wakers \cup Int \cup Sleeps \X (Wakers \cup {1, 2})

(* A Sleep registers anew only when its slot has fired: two are enough.    *)
Slots == Sleeps \X {1, 2}

VARIABLES
  now, skew,
  at,          \* [Sleeps -> where its poll or its drop is]
  deadline,    \* [Sleeps -> Sleep.deadline]
  held,        \* [Sleeps -> Sleep.slot]
  by,          \* [Sleeps -> the task of its last poll]
  woken,       \* tasks to be polled for a Sleep they await
  state,       \* [Slots -> AlarmSlot.state]
  waker,       \* [Slots -> AlarmSlot.waker], a task of the Sleep's
  arrivals,    \* Arrivals.alarms
  published,   \* Arrivals.thread is there
  cancelled,   \* Registry.cancelled
  token,       \* the alarm thread's park would return at once
  pc,          \* where the alarm thread is
  pending,     \* its heap
  seen,        \* the clock as it read it in this pass
  firing,      \* the slot it has claimed and whose waker it is to take
  hand,        \* the waker it is to wake
  counted,     \* the cancellations it read before its sweep
  until        \* when its park times out, or None

clock == <<now, skew>>
futures == <<at, deadline, held, by>>
shared == <<state, waker>>
registry == <<arrivals, published, cancelled>>
thread == <<pc, pending, seen, firing, hand, counted, until>>
vars == <<clock, futures, woken, shared, registry, token, thread>>

Init ==
  /\ now = 0 /\ skew \in Skews
  /\ at = [s \in Sleeps |-> "unmade"]
  /\ deadline = [s \in Sleeps |-> 0]
  /\ held = [s \in Sleeps |-> None]
  /\ by \in {[s \in Sleeps |-> w] : w \in Wakers}
  /\ woken = {}
  /\ state = [x \in Slots |-> "free"]
  /\ waker = [x \in Slots |-> None]
  /\ arrivals = {} /\ published = FALSE /\ cancelled = 0
  /\ token = FALSE
  /\ pc = "unstarted" /\ pending = {} /\ seen = 0
  /\ firing = None /\ hand = None /\ counted = 0 /\ until = None

AlarmClock == now + skew

Armed(s) == held[s] # None /\ state[held[s]] = "armed"

(* The clock of the waiting thread, or the flag.                           *)
Elapsed(s) ==
  \/ now >= deadline[s]
  \/ held[s] # None /\ state[held[s]] = "fired"

-----------------------------------------------------------------------------
(* The engine threads: Sleep's poll and drop.                              *)

Tick ==
  /\ now < MaxNow
  /\ now' = now + 1
  /\ UNCHANGED <<skew, futures, woken, shared, registry, token, thread>>

Make(s) ==
  /\ at[s] = "unmade"
  /\ at' = [at EXCEPT ![s] = "made"]
  /\ \E d \in 0..(MaxNow - 1) : deadline' = [deadline EXCEPT ![s] = d]
  /\ UNCHANGED <<clock, held, by, woken, shared, registry, token, thread>>

(* A poll from a task, which awaits this Sleep from here on; a wake of an  *)
(* earlier one has nothing to poll.                                        *)
Poll(s, w) ==
  /\ at[s] \in {"made", "waiting"}
  /\ by' = [by EXCEPT ![s] = w]
  /\ woken' = woken \ ({s} \X Wakers)
  /\ at' = [at EXCEPT ![s] = IF Elapsed(s) THEN "ready" ELSE "match"]
  /\ UNCHANGED <<clock, deadline, held, shared, registry, token, thread>>

MatchArmed(s) ==
  /\ at[s] = "match" /\ Armed(s)
  /\ at' = [at EXCEPT ![s] = "replace"]
  /\ UNCHANGED <<clock, deadline, held, by, woken, shared, registry, token, thread>>

Replace(s) ==
  /\ at[s] = "replace"
  /\ waker' = [waker EXCEPT ![held[s]] = by[s]]
  /\ at' = [at EXCEPT ![s] = "recheck"]
  /\ UNCHANGED <<clock, deadline, held, by, woken, state, registry, token, thread>>

(* register, up to the release of the lock on the arrivals.                *)
Register(s) ==
  /\ at[s] = "match" /\ ~Armed(s)
  /\ LET x == IF held[s] = <<s, 1>> THEN <<s, 2>> ELSE <<s, 1>> IN
     /\ state' = [state EXCEPT ![x] = "armed"]
     /\ waker' = [waker EXCEPT ![x] = by[s]]
     /\ arrivals' = arrivals \cup {x}
     /\ held' = [held EXCEPT ![s] = x]
  /\ at' = [at EXCEPT ![s] = IF published THEN "unpark" ELSE "recheck"]
  /\ UNCHANGED <<clock, deadline, by, woken, published, cancelled, token, thread>>

Unpark(s) ==
  /\ at[s] = "unpark"
  /\ token' = TRUE
  /\ at' = [at EXCEPT ![s] = "recheck"]
  /\ UNCHANGED <<clock, deadline, held, by, woken, shared, registry, thread>>

(* Mutant of Recheck: what the match has seen is believed.                 *)
RecheckNot(s) ==
  /\ at[s] = "recheck"
  /\ at' = [at EXCEPT ![s] = "waiting"]
  /\ UNCHANGED <<clock, deadline, held, by, woken, shared, registry, token, thread>>

Recheck(s) ==
  /\ at[s] = "recheck"
  /\ at' = [at EXCEPT ![s] = IF Elapsed(s) THEN "ready" ELSE "waiting"]
  /\ UNCHANGED <<clock, deadline, held, by, woken, shared, registry, token, thread>>

(* The drop, whether or not the wait is over.                              *)
Drop(s) ==
  /\ at[s] \in {"made", "waiting", "ready"}
  /\ IF Armed(s)
       THEN /\ state' = [state EXCEPT ![held[s]] = "cancelled"]
            /\ at' = [at EXCEPT ![s] = "release"] /\ UNCHANGED held
       ELSE /\ at' = [at EXCEPT ![s] = "dropped"]
            /\ held' = [held EXCEPT ![s] = None] /\ UNCHANGED state
  /\ woken' = woken \ ({s} \X Wakers)
  /\ UNCHANGED <<clock, deadline, by, waker, registry, token, thread>>

Release(s) ==
  /\ at[s] = "release"
  /\ waker' = [waker EXCEPT ![held[s]] = None]
  /\ at' = [at EXCEPT ![s] = "count"]
  /\ UNCHANGED <<clock, deadline, held, by, woken, state, registry, token, thread>>

CountDrop(s) ==
  /\ at[s] = "count"
  /\ cancelled' = cancelled + 1
  /\ at' = [at EXCEPT ![s] = "dropped"]
  /\ held' = [held EXCEPT ![s] = None]
  /\ UNCHANGED <<clock, deadline, by, woken, shared, arrivals, published, token, thread>>

-----------------------------------------------------------------------------
(* The alarm thread.                                                       *)

Publish ==
  /\ pc = "unstarted"
  /\ published' = TRUE
  /\ pc' = "take"
  /\ UNCHANGED <<clock, futures, woken, shared, arrivals, cancelled, token, pending, seen,
                 firing, hand, counted, until>>

Take ==
  /\ pc = "take"
  /\ pending' = pending \cup arrivals /\ arrivals' = {}
  /\ pc' = "read"
  /\ UNCHANGED <<clock, futures, woken, shared, published, cancelled, token, seen, firing,
                 hand, counted, until>>

ReadClock ==
  /\ pc = "read"
  /\ seen' = AlarmClock
  /\ pc' = "fire"
  /\ UNCHANGED <<clock, futures, woken, shared, registry, token, pending, firing, hand,
                 counted, until>>

(* The heap's root; an alarm's deadline is its Sleep's.                    *)
Earliest(x) == \A y \in pending : deadline[x[1]] <= deadline[y[1]]

(* Mutant of Due: the root's deadline is what the park was for.            *)
DueAnyway(x) == Earliest(x)

Due(x) == Earliest(x) /\ deadline[x[1]] <= seen

(* The root is popped and its slot claimed: state first, waker after.      *)
Fire ==
  /\ pc = "fire"
  /\ \E x \in pending :
       /\ Due(x)
       /\ pending' = pending \ {x}
       /\ IF state[x] = "armed"
            THEN /\ state' = [state EXCEPT ![x] = "fired"]
                 /\ firing' = x /\ pc' = "claimed"
            ELSE UNCHANGED <<state, firing, pc>>
  /\ UNCHANGED <<clock, futures, woken, waker, registry, token, seen, hand, counted,
                 until>>

TakeWaker ==
  /\ pc = "claimed"
  /\ hand' = <<firing[1], waker[firing]>>
  /\ waker' = [waker EXCEPT ![firing] = None]
  /\ firing' = None
  /\ pc' = "wake"
  /\ UNCHANGED <<clock, futures, woken, state, registry, token, pending, seen, counted,
                 until>>

Wake ==
  /\ pc = "wake"
  /\ woken' = woken \cup {hand}
  /\ hand' = None
  /\ pc' = "fire"
  /\ UNCHANGED <<clock, futures, shared, registry, token, pending, seen, firing, counted,
                 until>>

(* sweep_cancelled's first read: too few to be worth it, or a sweep.       *)
Count ==
  /\ pc = "fire" /\ \A x \in pending : ~Due(x)
  /\ IF cancelled <= Cardinality(pending) \div 2
       THEN pc' = "park" /\ UNCHANGED counted
       ELSE pc' = "retain" /\ counted' = cancelled
  /\ UNCHANGED <<clock, futures, woken, shared, registry, token, pending, seen, firing, hand,
                 until>>

Live == {x \in pending : state[x] = "armed"}

Retain ==
  /\ pc = "retain"
  /\ pending' = Live
  /\ pc' = "subtract"
  /\ UNCHANGED <<clock, futures, woken, shared, registry, token, seen, firing, hand, counted,
                 until>>

Subtract ==
  /\ pc = "subtract"
  /\ cancelled' = cancelled - counted
  /\ counted' = 0
  /\ pc' = "park"
  /\ UNCHANGED <<clock, futures, woken, shared, arrivals, published, token, pending, seen,
                 firing, hand, until>>

(* The reading of the clock is one pass's, and so is the timeout.          *)
PassEnds == pc' = "take" /\ seen' = 0 /\ until' = None

(* Until the earliest deadline by the reading of this pass, or an unpark.  *)
Park ==
  /\ pc = "park"
  /\ pc' = "parked"
  /\ until' = IF pending = {} THEN None
              ELSE AlarmClock + deadline[(CHOOSE x \in pending : Earliest(x))[1]] - seen
  /\ UNCHANGED <<clock, futures, woken, shared, registry, token, pending, seen, firing, hand,
                 counted>>

Unparked ==
  /\ pc = "parked" /\ token
  /\ token' = FALSE
  /\ PassEnds
  /\ UNCHANGED <<clock, futures, woken, shared, registry, pending, firing, hand, counted>>

TimedOut ==
  /\ pc = "parked" /\ until # None
  /\ until <= AlarmClock \/ now = MaxNow
  /\ PassEnds
  /\ UNCHANGED <<clock, futures, woken, shared, registry, token, pending, firing, hand,
                 counted>>

-----------------------------------------------------------------------------
SleepStep(s) ==
  \/ MatchArmed(s) \/ Replace(s) \/ Register(s) \/ Unpark(s) \/ Recheck(s)
  \/ Release(s) \/ CountDrop(s)

AlarmStep ==
  \/ Publish \/ Take \/ ReadClock \/ Fire \/ TakeWaker \/ Wake
  \/ Count \/ Retain \/ Subtract \/ Park \/ Unparked \/ TimedOut

(* Every wait is over, and the alarm thread parks for good.                *)
Over ==
  /\ now = MaxNow /\ \A s \in Sleeps : at[s] = "dropped"
  /\ pc = "parked" /\ ~token
  /\ UNCHANGED vars

Next ==
  \/ Tick \/ AlarmStep \/ Over
  \/ \E s \in Sleeps : Make(s) \/ SleepStep(s) \/ Drop(s) \/ \E w \in Wakers : Poll(s, w)

Spec == Init /\ [][Next]_vars

(* An executor polls a task it was woken for.                              *)
PollWoken(s) == <<s, by[s]>> \in woken /\ Poll(s, by[s])

(* Both threads are scheduled and time passes; a future is polled when its *)
(* task is woken and at no other time that can be counted on, and is never *)
(* sure to be dropped.                                                     *)
Fairness ==
  /\ WF_vars(Tick) /\ WF_vars(AlarmStep)
  /\ \A s \in Sleeps : WF_vars(SleepStep(s)) /\ WF_vars(PollWoken(s))

FairSpec == Spec /\ Fairness

-----------------------------------------------------------------------------
(* The shape of the state; the count of cancellations is unsigned and is   *)
(* never below zero, whichever drop of alarm.rs:311-330 a sweep races.     *)
TypeOK ==
  /\ now \in 0..MaxNow /\ skew \in Skews
  /\ at \in [Sleeps -> {"unmade", "made", "match", "replace", "unpark", "recheck", "waiting",
                        "ready", "release", "count", "dropped"}]
  /\ deadline \in [Sleeps -> 0..MaxNow] /\ by \in [Sleeps -> Wakers]
  /\ held \in [Sleeps -> Slots \cup {None}]
  /\ woken \subseteq Sleeps \X Wakers
  /\ state \in [Slots -> {"free", "armed", "fired", "cancelled"}]
  /\ waker \in [Slots -> Wakers \cup {None}]
  /\ arrivals \subseteq Slots /\ pending \subseteq Slots /\ arrivals \cap pending = {}
  /\ published \in BOOLEAN /\ token \in BOOLEAN
  /\ cancelled \in 0..Cardinality(Sleeps) /\ counted \in 0..cancelled
  /\ pc \in {"unstarted", "take", "read", "fire", "claimed", "wake", "retain", "subtract",
             "park", "parked"}
  /\ firing \in Slots \cup {None} /\ hand \in (Sleeps \X Wakers) \cup {None}

(* A wait that has returned Pending is registered: the task of its last    *)
(* poll, and no earlier one, is the one its slot will wake, or the one the *)
(* alarm thread is about to wake, or it has been woken (alarm.rs:301-306). *)
Registered(s) ==
  LET x == held[s] IN
    \/ x \in arrivals \cup pending /\ Armed(s) /\ waker[x] = by[s]
    \/ x = firing /\ waker[x] = by[s]
    \/ hand = <<s, by[s]>> \/ <<s, by[s]>> \in woken

(* The alarm thread sleeps on nothing it does not know of: what arrived    *)
(* since it last looked has its unpark stored or still to come, and a park *)
(* without a timeout is one with an empty heap (alarm.rs:184-230).         *)
NothingUnseen ==
  /\ \A x \in arrivals : \/ pc \in {"unstarted", "take"} \/ token
                         \/ \E s \in Sleeps : held[s] = x /\ at[s] = "unpark"
  /\ pc = "parked" /\ until = None => pending = {}

(* No wake is lost, neither between a poll and the slot that is fired      *)
(* under it, nor between a registration and the thread that goes to sleep. *)
NoLostWake ==
  /\ TypeOK
  /\ \A s \in Sleeps : at[s] = "waiting" => Registered(s)
  /\ NothingUnseen

(* A wait ends no earlier than its deadline by one of the two clocks       *)
(* (alarm.rs:145-150: accuracy alone is lost).                             *)
NeverEarly ==
  \A s \in Sleeps : at[s] = "ready" => now >= deadline[s] \/ AlarmClock >= deadline[s]

(* Every wait ends, though its task is polled only when it is woken.       *)
SleepsEnd ==
  \A s \in Sleeps : at[s] = "waiting" ~> at[s] \in {"ready", "release", "count", "dropped"}

=============================================================================
