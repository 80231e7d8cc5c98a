---------------------------- MODULE TimerSchedule ----------------------------
(***************************************************************************)
(* The timers of one realm: the host's schedule, which knows when, and the *)
(* realm's table, which knows what to call.  The two are on either side of *)
(* the host boundary and speak of a timer by its id.                       *)
(*                                                                         *)
(*   src/crates/bobcat-core/src/timers.rs       TimerSchedule, TimerState  *)
(*   src/packages/bobcat-element/src/timers.ts  scheduled, __BobcatRunTimer *)
(*                                                                         *)
(* An id is the number of its arming: next_id does not come round within   *)
(* MaxArms.  A delay has been through requested_delay already.  The ghosts *)
(* `cleared' and `streak' are read by properties alone.                    *)
(***************************************************************************)
EXTENDS Naturals, Sequences

CONSTANTS
  MaxNow,          \* bound: the instants of the clock
  MaxArms,         \* bound: timers the realm arms
  MaxEntries,      \* bound: entries into the realm
  Delays,          \* the delays its script asks for
  ClampedNesting,  \* CLAMPED_NESTING
  ClampedDelay     \* CLAMPED_DELAY

(* requested_delay caps what a script asks for, so there is a longest.     *)
ScheduleAssumption ==
  /\ MaxNow \in Nat /\ MaxArms \in Nat /\ MaxEntries \in Nat
  /\ Delays \subseteq Nat
  /\ \E d \in Delays \cup {ClampedDelay} : \A e \in Delays \cup {ClampedDelay} : e <= d
  /\ ClampedNesting \in Nat \ {0} /\ ClampedDelay \in Nat \ {0}

Ids == 1..MaxArms
Latest(S) == CHOOSE d \in S : \A e \in S : e <= d
Instant == 0..(MaxNow + Latest(Delays \cup {ClampedDelay}))
NoDeadline == Latest(Instant) + 1
Levels == 0..(ClampedNesting + MaxEntries + MaxArms)
Timer == [deadline : Instant, requested : Delays, repeats : BOOLEAN, nesting : Levels]
Due == [id : Ids, nesting : Levels]

VARIABLES
  now,
  armed,      \* TimerSchedule.armed: id -> Timer
  order,      \* TimerSchedule.order: <<deadline, id>>
  next_id,
  nesting,    \* TimerState.nesting
  scheduled,  \* the realm's table: id -> whether it repeats
  at,         \* "idle"; in an "entry"; between two timers of a "batch"; in
              \* a "callback" of one
  batch,      \* the due timers not run yet
  deadline,   \* what next_deadline last answered the epilogue
  entries,
  cleared,    \* ids the script has cleared
  streak      \* id -> [at, length]: the instant its chain last ran at, and
              \* how many of the chain ran at that instant; 0 -> none

host == <<armed, order, next_id>>
ghosts == <<cleared, streak>>
vars == <<now, host, nesting, scheduled, at, batch, deadline, entries, ghosts>>

Without(f, id) == [x \in DOMAIN f \ {id} |-> f[x]]
With(f, id, v) == [x \in DOMAIN f \cup {id} |-> IF x = id THEN v ELSE f[x]]

Init ==
  /\ now = 0
  /\ armed = <<>> /\ order = {} /\ next_id = 1
  /\ nesting = 0 /\ scheduled = <<>>
  /\ at = "idle" /\ batch = <<>>
  /\ deadline = NoDeadline /\ entries = 0
  /\ cleared = {}
  /\ streak = [id \in {0} |-> [at |-> 0, length |-> 0]]

-----------------------------------------------------------------------------
(* The schedule.                                                           *)

EffectiveDelay(requested, level) ==
  IF level > ClampedNesting /\ requested < ClampedDelay THEN ClampedDelay ELSE requested

NewTimer(requested, repeats, level) ==
  [deadline |-> now + EffectiveDelay(requested, level), requested |-> requested,
   repeats |-> repeats, nesting |-> level + 1]

(* An entry of the heap that names a deadline still armed.                 *)
Live(e) == e[2] \in DOMAIN armed /\ armed[e[2]].deadline = e[1]

FiresBefore(d, e) == d[1] < e[1] \/ (d[1] = e[1] /\ d[2] < e[2])

DueNow == {e \in order : e[1] <= now}

(* The entries in S, in the order they fire.                               *)
Orderings(S) ==
  {s \in UNION {[1..n -> S] : n \in 0..MaxArms} :
     /\ \A e \in S : \E i \in DOMAIN s : s[i] = e
     /\ \A i, j \in DOMAIN s : i < j => FiresBefore(s[i], s[j])}

(* The repeats that are due, armed again from now.                         *)
Rearmed ==
  [id \in {e[2] : e \in {x \in DueNow : Live(x)}} \cap {i \in DOMAIN armed : armed[i].repeats} |->
     NewTimer(armed[id].requested, TRUE, armed[id].nesting)]

(* Mutant of NextLive: the heap's first entry is answered, live or not.     *)
NextLeftover ==
  IF order # {}
    THEN CHOOSE e \in order : \A x \in order : x = e \/ FiresBefore(e, x)
    ELSE <<NoDeadline, 0>>

(* The earliest live entry, once the leftovers above it are dropped.       *)
NextLive ==
  IF \E e \in order : Live(e)
    THEN CHOOSE e \in order : Live(e) /\ \A x \in order : Live(x) => x = e \/ FiresBefore(e, x)
    ELSE <<NoDeadline, 0>>

-----------------------------------------------------------------------------
(* The realm's script.                                                     *)

Tick ==
  /\ now < MaxNow
  /\ now' = now + 1
  /\ UNCHANGED <<host, nesting, scheduled, at, batch, deadline, entries, ghosts>>

Enter ==
  /\ at = "idle" /\ entries < MaxEntries
  /\ at' = "entry" /\ entries' = entries + 1
  /\ UNCHANGED <<now, host, nesting, scheduled, batch, deadline, ghosts>>

(* The timer whose callback runs, or 0.                                    *)
Parent == IF at = "callback" THEN Head(batch).id ELSE 0

(* start: setTimer, and the callback filed under the id it answers.        *)
SetTimer(requested, repeats) ==
  /\ at \in {"entry", "callback"}
  /\ next_id \in Ids
  /\ LET timer == NewTimer(requested, repeats, nesting) IN
       /\ armed' = With(armed, next_id, timer)
       /\ order' = order \cup {<<timer.deadline, next_id>>}
  /\ next_id' = next_id + 1
  /\ scheduled' = With(scheduled, next_id, repeats)
  /\ streak' = With(streak, next_id, streak[Parent])
  /\ UNCHANGED <<now, nesting, at, batch, deadline, entries, cleared>>

(* stop: the realm's table decides whether there is anything to disarm.    *)
ClearTimer(id) ==
  /\ at \in {"entry", "callback"}
  /\ id \in DOMAIN scheduled
  /\ scheduled' = Without(scheduled, id)
  /\ armed' = Without(armed, id)
  /\ cleared' = cleared \cup {id}
  /\ UNCHANGED <<now, order, next_id, nesting, at, batch, deadline, entries, streak>>

(* run_due_timers: take_due, with the clock read once for the batch.       *)
TakeDue ==
  /\ at = "entry"
  /\ at' = "batch"
  /\ IF DOMAIN armed = {}
       THEN UNCHANGED <<armed, order, batch>>
       ELSE LET due == {e \in DueNow : Live(e)}
                again == Rearmed
                taken == {e[2] : e \in due}
            IN /\ \E s \in Orderings(due) :
                    batch' = [i \in DOMAIN s |->
                               [id |-> s[i][2], nesting |-> armed[s[i][2]].nesting]]
               /\ order' = (order \ DueNow) \cup {<<again[i].deadline, i>> : i \in DOMAIN again}
               /\ armed' = [i \in (DOMAIN armed \ taken) \cup DOMAIN again |->
                             IF i \in DOMAIN again THEN again[i] ELSE armed[i]]
  /\ UNCHANGED <<now, next_id, nesting, scheduled, deadline, entries, ghosts>>

(* Mutant of RunTimer: the batch says what runs, not the realm's table.     *)
RunTimerTaken ==
  /\ at = "batch" /\ batch # <<>>
  /\ scheduled' = Without(scheduled, Head(batch).id)
  /\ nesting' = Head(batch).nesting
  /\ at' = "callback"
  /\ UNCHANGED <<now, host, batch, deadline, entries, ghosts>>

(* __BobcatRunTimer: a timer the realm has let go of since is not run.     *)
RunTimer ==
  /\ at = "batch" /\ batch # <<>>
  /\ LET id == Head(batch).id IN
       IF id \notin DOMAIN scheduled
         THEN /\ batch' = Tail(batch)
              /\ UNCHANGED <<scheduled, nesting, at, streak>>
         ELSE /\ scheduled' = IF scheduled[id] THEN scheduled ELSE Without(scheduled, id)
              /\ nesting' = Head(batch).nesting
              /\ at' = "callback"
              /\ streak' = [streak EXCEPT ![id] =
                             [at |-> now,
                              length |-> IF @.at = now THEN @.length + 1 ELSE 1]]
              /\ UNCHANGED batch
  /\ UNCHANGED <<now, host, deadline, entries, cleared>>

(* The callback returned, or threw: the next one is not inside it.         *)
Return ==
  /\ at = "callback"
  /\ at' = "batch" /\ batch' = Tail(batch) /\ nesting' = 0
  /\ UNCHANGED <<now, host, scheduled, deadline, entries, ghosts>>

(* The epilogue's next_deadline, which drops what it finds on the way.     *)
Publish ==
  /\ at = "batch" /\ batch = <<>>
  /\ at' = "idle"
  /\ deadline' = NextLive[1]
  /\ order' = {e \in order : ~FiresBefore(e, NextLive)}
  /\ UNCHANGED <<now, armed, next_id, nesting, scheduled, batch, entries, ghosts>>

Over ==
  /\ at = "idle" /\ entries = MaxEntries /\ now = MaxNow
  /\ UNCHANGED vars

Next ==
  \/ Tick \/ Enter \/ TakeDue \/ RunTimer \/ Return \/ Publish \/ Over
  \/ \E requested \in Delays, repeats \in BOOLEAN : SetTimer(requested, repeats)
  \/ \E id \in Ids : ClearTimer(id)

Spec == Init /\ [][Next]_vars

-----------------------------------------------------------------------------
(* Every variable keeps its range.                                         *)
TypeOK ==
  /\ now \in 0..MaxNow
  /\ DOMAIN armed \subseteq Ids
  /\ \A id \in DOMAIN armed : armed[id] \in Timer
  /\ order \subseteq Instant \X Ids
  /\ next_id \in 1..(MaxArms + 1)
  /\ nesting \in Levels
  /\ DOMAIN scheduled \subseteq Ids
  /\ \A id \in DOMAIN scheduled : scheduled[id] \in BOOLEAN
  /\ at \in {"idle", "entry", "batch", "callback"}
  /\ batch \in Seq(Due)
  /\ deadline \in Instant \cup {NoDeadline}
  /\ cleared \subseteq Ids

InBatch(id) == \E i \in DOMAIN batch : batch[i].id = id

(* A chain of timers that ask for no delay, each armed by the last or one  *)
(* repeat of its own, cannot hold the realm at one instant: HTML's nesting *)
(* clamp makes time pass after CLAMPED_NESTING + 1 of them.                *)
ChainIsClamped ==
  \A id \in DOMAIN streak : streak[id].length <= ClampedNesting + 1

(* Between entries the realm's clock waits for its earliest timer: neither *)
(* for a leftover of the heap, nor past one that is armed.                 *)
EarliestIsPublished ==
  at = "idle" =>
    IF DOMAIN armed = {}
      THEN deadline = NoDeadline
      ELSE /\ \E id \in DOMAIN armed : armed[id].deadline = deadline
           /\ \A id \in DOMAIN armed : deadline <= armed[id].deadline

(* The two halves agree: whatever is armed has a callback filed, and what  *)
(* is filed is armed or about to run.  A timer in one half only is a       *)
(* callback kept for ever, or a deadline that wakes the realm for nothing. *)
HalvesAgree ==
  /\ TypeOK
  /\ DOMAIN armed \subseteq DOMAIN scheduled
  /\ \A id \in DOMAIN scheduled : id \in DOMAIN armed \/ InBatch(id)
  /\ \A id \in DOMAIN armed : armed[id].repeats = scheduled[id]

(* The timers are one table in two halves, whose clock waits for the       *)
(* earliest and which no chain holds at one instant (timers.rs,            *)
(* timers.ts).                                                             *)
TimersHold == HalvesAgree /\ EarliestIsPublished /\ ChainIsClamped

(* A callback never runs once its timer was cleared, though the host took  *)
(* the whole batch before the callback that cleared it ran, and armed the  *)
(* repeats of the batch again.                                             *)
ClearedStaysCleared ==
  [][at = "batch" /\ at' = "callback" => Head(batch).id \notin cleared]_vars
=============================================================================
