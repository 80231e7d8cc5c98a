----------------------------- MODULE RealmClock -----------------------------
(***************************************************************************)
(* The clock task of each realm on one thread (serve_clock), the deadline  *)
(* its entries publish for it, and the checkpoints by which one realm's    *)
(* entry tells the others that the promise jobs it drained may have been   *)
(* theirs.                                                                 *)
(*                                                                         *)
(*   src/crates/bobcat-core/src/lifetime.rs       serve_clock, Lifetime    *)
(*   src/crates/bobcat-core/src/realm/owner.rs    epilogue, settle         *)
(*   src/crates/bobcat-core/src/main/quickjs.rs   ScriptRuntime.checkpoint *)
(*                                                                         *)
(* A timer is its deadline.  A generation is kept as what is read of it:   *)
(* whether the receiver has seen the last one, and whether that is the one *)
(* the realm's own last entry recorded.  The steps of a job are apart      *)
(* because its script may park in each, and the clock tasks run then.      *)
(***************************************************************************)
EXTENDS Naturals, Sequences, FiniteSets

CONSTANTS
  Realms,      \* the realms of one runtime
  NoJob,       \* no job is on the thread
  MaxNow,      \* bound: the instants of the clock
  MaxEntries,  \* bound: entries the world makes into the realms
  MaxArms      \* bound: timers the scripts arm

Instant == 0..MaxNow
NoDeadline == MaxNow + 1
Job == [realm : Realms, kind : {"enter", "timer", "settle"}]

ClockAssumption ==
  /\ NoJob \notin Job
  /\ MaxNow \in Nat /\ MaxEntries \in Nat /\ MaxArms \in Nat

VARIABLES
  now,
  timers,    \* the deadlines armed in each realm's schedule
  ended,     \* Lifetime.ended
  deadline,  \* Lifetime.deadline: the watch serve_clock reads
  moved,     \* it was modified since the clock task last read it
  unseen,    \* the checkpoint's receiver has a generation to read
  foreign,   \* the generation is not the own_checkpoint recorded
  clock,     \* serve_clock: "top", "select", "settling", "gone"
  armed,     \* its local: the deadline its sleep was set for
  queue,     \* the thread's jobs
  job, at,   \* the one on the stack, and the step it is before
  entries, arms

watches == <<deadline, moved, unseen, foreign>>
tasks == <<clock, armed>>
thread == <<queue, job, at>>
vars == <<now, timers, ended, watches, tasks, thread, entries, arms>>

Init ==
  /\ now = 0
  /\ timers = [r \in Realms |-> {}]
  /\ ended = [r \in Realms |-> FALSE]
  /\ deadline = [r \in Realms |-> NoDeadline]
  /\ moved = [r \in Realms |-> FALSE]
  /\ unseen = [r \in Realms |-> FALSE]
  /\ foreign = [r \in Realms |-> FALSE]
  /\ clock = [r \in Realms |-> "top"]
  /\ armed = [r \in Realms |-> NoDeadline]
  /\ queue = <<>> /\ job = NoJob /\ at = "operation"
  /\ entries = 0 /\ arms = 0

Earliest(S) == IF S = {} THEN NoDeadline ELSE CHOOSE d \in S : \A e \in S : d <= e

Push(r, kind) == queue' = Append(queue, [realm |-> r, kind |-> kind])

(* A settle of r's has not answered: it is queued, or it is running.       *)
Unanswered(r) ==
  \/ \E i \in DOMAIN queue : queue[i].realm = r /\ queue[i].kind # "enter"
  \/ job # NoJob /\ job.realm = r /\ job.kind # "enter"

-----------------------------------------------------------------------------
(* The world: time, entries, and ends.                                     *)

Tick ==
  /\ now < MaxNow
  /\ now' = now + 1
  /\ UNCHANGED <<timers, ended, watches, tasks, thread, entries, arms>>

QueueEntry(r) ==
  /\ ~ended[r] /\ entries < MaxEntries
  /\ entries' = entries + 1
  /\ Push(r, "enter")
  /\ UNCHANGED <<now, timers, ended, watches, tasks, job, at, arms>>

(* Lifetime::end withdraws the deadline, which wakes the clock task.       *)
End(r) ==
  /\ ~ended[r]
  /\ ended' = [ended EXCEPT ![r] = TRUE]
  /\ deadline' = [deadline EXCEPT ![r] = NoDeadline]
  /\ moved' = [moved EXCEPT ![r] = @ \/ deadline[r] # NoDeadline]
  /\ UNCHANGED <<now, timers, unseen, foreign, tasks, thread, entries, arms>>

-----------------------------------------------------------------------------
(* serve_clock.                                                            *)

Top(r) ==
  /\ clock[r] = "top"
  /\ IF ended[r]
       THEN /\ clock' = [clock EXCEPT ![r] = "gone"]
            /\ UNCHANGED <<moved, armed>>
       ELSE /\ clock' = [clock EXCEPT ![r] = "select"]
            /\ armed' = [armed EXCEPT ![r] = deadline[r]]
            /\ moved' = [moved EXCEPT ![r] = FALSE]
  /\ UNCHANGED <<now, timers, ended, deadline, unseen, foreign, thread, entries, arms>>

(* Mutant of Elapsed: the settle is queued and not waited for.             *)
ElapsedUnawaited(r) ==
  /\ clock[r] = "select" /\ armed[r] # NoDeadline /\ armed[r] <= now
  /\ armed' = [armed EXCEPT ![r] = NoDeadline]
  /\ clock' = [clock EXCEPT ![r] = "top"]
  /\ Push(r, "timer")
  /\ UNCHANGED <<now, timers, ended, watches, job, at, entries, arms>>

(* The sleep is over: it is consumed, and the settle is waited for.        *)
Elapsed(r) ==
  /\ clock[r] = "select" /\ armed[r] # NoDeadline /\ armed[r] <= now
  /\ armed' = [armed EXCEPT ![r] = NoDeadline]
  /\ clock' = [clock EXCEPT ![r] = "settling"]
  /\ Push(r, "timer")
  /\ UNCHANGED <<now, timers, ended, watches, job, at, entries, arms>>

DeadlineMoved(r) ==
  /\ clock[r] = "select" /\ moved[r]
  /\ moved' = [moved EXCEPT ![r] = FALSE]
  /\ clock' = [clock EXCEPT ![r] = "top"]
  /\ UNCHANGED <<now, timers, ended, deadline, unseen, foreign, armed, thread, entries, arms>>

(* Mutant of Checkpointed: every checkpoint is taken for the realm's own.  *)
CheckpointedIgnored(r) ==
  /\ clock[r] = "select" /\ unseen[r]
  /\ unseen' = [unseen EXCEPT ![r] = FALSE]
  /\ clock' = [clock EXCEPT ![r] = "top"]
  /\ UNCHANGED <<now, timers, ended, deadline, moved, foreign, armed, thread, entries, arms>>

(* A checkpoint was run: a sibling's is a settle, the realm's own nothing. *)
Checkpointed(r) ==
  /\ clock[r] = "select" /\ unseen[r]
  /\ unseen' = [unseen EXCEPT ![r] = FALSE]
  /\ IF foreign[r]
       THEN /\ clock' = [clock EXCEPT ![r] = "settling"]
            /\ Push(r, "settle")
       ELSE /\ clock' = [clock EXCEPT ![r] = "top"]
            /\ UNCHANGED queue
  /\ UNCHANGED <<now, timers, ended, deadline, moved, foreign, armed, job, at, entries, arms>>

(* The settle's job has run, or was dropped with an ended realm.           *)
Settled(r) ==
  /\ clock[r] = "settling" /\ ~Unanswered(r)
  /\ clock' = [clock EXCEPT ![r] = "top"]
  /\ UNCHANGED <<now, timers, ended, watches, armed, thread, entries, arms>>

(* The owner's reap aborts the task wherever it waits.                     *)
Reap(r) ==
  /\ ended[r] /\ clock[r] # "gone"
  /\ clock' = [clock EXCEPT ![r] = "gone"]
  /\ UNCHANGED <<now, timers, ended, watches, armed, thread, entries, arms>>

ClockStep(r) ==
  \/ Top(r) \/ Elapsed(r) \/ DeadlineMoved(r) \/ Checkpointed(r) \/ Settled(r)
  \/ Reap(r)

-----------------------------------------------------------------------------
(* The thread's jobs.                                                      *)

(* Script of r runs and its checkpoint drains the runtime's queue: timers  *)
(* are armed in r, or in a sibling one of whose promise jobs was there,    *)
(* and `fired' of r's are gone.  A callback may disarm what it likes.      *)
RunScript(r, fired) ==
  /\ \/ /\ arms < MaxArms
        /\ arms' = arms + 1
        /\ \E s \in Realms, d \in now..MaxNow :
             timers' = [q \in Realms |->
               (timers[q] \ (IF q = r THEN fired ELSE {})) \cup (IF q = s THEN {d} ELSE {})]
     \/ /\ UNCHANGED arms
        /\ timers' \in {[timers EXCEPT ![r] = @ \ fired], [timers EXCEPT ![r] = {}]}
  /\ unseen' = [q \in Realms |-> TRUE]
  /\ foreign' = [q \in Realms |-> TRUE]

NoScript == UNCHANGED <<timers, arms, unseen, foreign>>

Begin ==
  /\ job = NoJob /\ queue # <<>>
  /\ queue' = Tail(queue)
  /\ IF ended[Head(queue).realm]
       THEN UNCHANGED <<job, at>>
       ELSE job' = Head(queue) /\ at' = "operation"
  /\ UNCHANGED <<now, timers, ended, watches, tasks, entries, arms>>

(* An entry's own operation enters JavaScript; a settle's has nothing.     *)
Operation ==
  /\ job # NoJob /\ at = "operation"
  /\ IF job.kind = "enter" THEN RunScript(job.realm, {}) ELSE NoScript
  /\ at' = "timers"
  /\ UNCHANGED <<now, ended, deadline, moved, tasks, queue, job, entries>>

RunDueTimers ==
  /\ job # NoJob /\ at = "timers"
  /\ LET due == {d \in timers[job.realm] : d <= now} IN
       IF ended[job.realm] \/ due = {} THEN NoScript ELSE RunScript(job.realm, due)
  /\ at' = "publish"
  /\ UNCHANGED <<now, ended, deadline, moved, tasks, queue, job, entries>>

(* Mutant of Announced: reading the rejections announces a checkpoint.     *)
AnnouncedAlways(flags) == [q \in Realms |-> TRUE]

(* What reading the rejections left in a realm and its ShadowRealms adds   *)
(* to the flags: the queue has run dry, no job is executed, and an         *)
(* announcement nobody's script stands behind is not made.                 *)
Announced(flags) == flags

(* The end of the epilogue: the deadline, if it moved, and the generation  *)
(* this entry ran the shared queue up to.                                  *)
Publish ==
  /\ job # NoJob /\ at = "publish"
  /\ LET r == job.realm
         next == Earliest(timers[r])
     IN IF ended[r]
          THEN UNCHANGED <<deadline, moved, unseen, foreign>>
          ELSE /\ deadline' = [deadline EXCEPT ![r] = next]
               /\ moved' = [moved EXCEPT ![r] = @ \/ deadline[r] # next]
               /\ unseen' = Announced(unseen)
               /\ foreign' = [Announced(foreign) EXCEPT ![r] = FALSE]
  /\ job' = NoJob /\ at' = "operation"
  /\ UNCHANGED <<now, timers, ended, tasks, queue, entries, arms>>

JobStep == Operation \/ RunDueTimers \/ Publish

-----------------------------------------------------------------------------

(* Everything the scripts and the world were to do is done.                *)
Over ==
  /\ now = MaxNow /\ queue = <<>> /\ job = NoJob
  /\ UNCHANGED vars

Next ==
  \/ Tick \/ Begin \/ JobStep \/ Over
  \/ \E r \in Realms : QueueEntry(r) \/ End(r) \/ ClockStep(r)

Spec == Init /\ [][Next]_vars

(* Time passes, a job returns, and a task that is ready is polled: tokio's *)
(* scheduler and the thread's drain, whatever the embedder does.           *)
Fairness ==
  /\ WF_vars(Tick) /\ WF_vars(Begin) /\ WF_vars(JobStep)
  /\ \A r \in Realms : WF_vars(ClockStep(r))

FairSpec == Spec /\ Fairness

-----------------------------------------------------------------------------
(* Every variable keeps its range.                                         *)
TypeOK ==
  /\ now \in Instant
  /\ timers \in [Realms -> SUBSET Instant]
  /\ ended \in [Realms -> BOOLEAN]
  /\ deadline \in [Realms -> Instant \cup {NoDeadline}]
  /\ moved \in [Realms -> BOOLEAN]
  /\ unseen \in [Realms -> BOOLEAN]
  /\ foreign \in [Realms -> BOOLEAN]
  /\ clock \in [Realms -> {"top", "select", "settling", "gone"}]
  /\ armed \in [Realms -> Instant \cup {NoDeadline}]
  /\ queue \in Seq(Job)
  /\ job \in Job \cup {NoJob}
  /\ at \in {"operation", "timers", "publish"}
  /\ entries \in 0..MaxEntries /\ arms \in 0..MaxArms

(* r's clock task has nothing to do but wait.                              *)
Waiting(r) ==
  /\ clock[r] = "select" /\ ~moved[r] /\ ~unseen[r]
  /\ armed[r] = NoDeadline \/ armed[r] > now

(* A clock task that waits, waits for the earliest timer of its realm,     *)
(* whichever realm's entry armed it and whatever was published since: no   *)
(* deadline is lost between arm_deadline, the two watches and the sleep.   *)
NothingForgotten ==
  \A r \in Realms :
    Waiting(r) /\ ~ended[r] /\ ~(job # NoJob /\ job.realm = r)
      => armed[r] = Earliest(timers[r])

(* A realm's clock task has one settle out at a time, so a job that holds  *)
(* the thread in a wait does not find a queue of them behind it (the await *)
(* of each settle in serve_clock).                                         *)
SettlesDoNotPile ==
  \A r \in Realms :
    \A i, k \in DOMAIN queue :
      /\ queue[i].realm = r /\ queue[i].kind # "enter"
      /\ queue[k].realm = r /\ queue[k].kind # "enter"
      => i = k /\ ~(job # NoJob /\ job.realm = r /\ job.kind # "enter")

(* A timer that is armed is fired or disarmed, or its realm ends.          *)
TimersFire ==
  \A r \in Realms, d \in Instant :
    (d \in timers[r]) ~> (d \notin timers[r] \/ ended[r])

(* Two realms do not wake each other for ever: when the world makes no     *)
(* more entries and no timer is left, the thread comes to rest (the own    *)
(* generation serve_clock compares, and take_unhandled_rejection's         *)
(* announcing nothing when it ran nothing).                                *)
SettlesDieOut == <>[](queue = <<>> /\ job = NoJob)

(* The clock tasks do what they are for, and no more (serve_clock).        *)
ClocksServeAndRest == TimersFire /\ SettlesDieOut
=============================================================================
