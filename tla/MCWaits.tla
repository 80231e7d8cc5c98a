------------------------------- MODULE MCWaits -------------------------------
(***************************************************************************)
(* Three parts of the engine in which somebody waits for what another      *)
(* thread is to say: a browser sleep (Alarm), the creator of a worker      *)
(* (WorkerLife) and the page that disposes of its background thread        *)
(* (Background, whose variables are this module's).  They share nothing    *)
(* the models keep, so one of them `runs' and the rest stand still in      *)
(* their first states.                                                     *)
(***************************************************************************)
EXTENDS Background, Integers

CONSTANTS
  Sleeps, Wakers, MaxNow,              \* Alarm's
  Workers, NoWorker, Aborts, MaxPosts, \* WorkerLife's
  None

(* Behind, exact and ahead.                                                *)
Skews == {-1, 0, 1}

VARIABLES
  runs,  \* which of the three
  a_now, a_skew, a_at, a_deadline, a_held, a_by, a_woken, a_state, a_waker,
  a_arrivals, a_published, a_cancelled, a_token, a_pc, a_pending, a_seen,
  a_firing, a_hand, a_counted, a_until,
  l_released, l_constructing, l_created, l_live, l_sources, l_posted, l_ends,
  l_commands, l_messages, l_events, l_thread, l_reporters, l_told, l_task,
  l_root, l_held, l_flushed, l_jobs, l_delivered, l_terminal_reported,
  l_panic_reported

A == INSTANCE Alarm WITH
  now <- a_now, skew <- a_skew, at <- a_at, deadline <- a_deadline,
  held <- a_held, by <- a_by, woken <- a_woken, state <- a_state,
  waker <- a_waker, arrivals <- a_arrivals, published <- a_published,
  cancelled <- a_cancelled, token <- a_token, pc <- a_pc,
  pending <- a_pending, seen <- a_seen, firing <- a_firing, hand <- a_hand,
  counted <- a_counted, until <- a_until

L == INSTANCE WorkerLife WITH
  released <- l_released, constructing <- l_constructing,
  created <- l_created, live <- l_live, sources <- l_sources,
  posted <- l_posted, ends <- l_ends, commands <- l_commands,
  messages <- l_messages, events <- l_events, thread <- l_thread,
  reporters <- l_reporters, told <- l_told, task <- l_task, root <- l_root,
  held <- l_held, flushed <- l_flushed, jobs <- l_jobs,
  delivered <- l_delivered, terminal_reported <- l_terminal_reported,
  panic_reported <- l_panic_reported

ASSUME CreatorAssumption == L!WorkerAssumption

a_vars == <<a_now, a_skew, a_at, a_deadline, a_held, a_by, a_woken, a_state,
            a_waker, a_arrivals, a_published, a_cancelled, a_token, a_pc,
            a_pending, a_seen, a_firing, a_hand, a_counted, a_until>>
l_vars == <<l_released, l_constructing, l_created, l_live, l_sources,
            l_posted, l_ends, l_commands, l_messages, l_events, l_thread,
            l_reporters, l_told, l_task, l_root, l_held, l_flushed, l_jobs,
            l_delivered, l_terminal_reported, l_panic_reported>>
all == <<runs, vars, a_vars, l_vars>>

Parts == {"sleeps", "workers", "background"}
Alone(part) ==
  /\ runs = part /\ UNCHANGED runs
  /\ part # "sleeps" => UNCHANGED a_vars
  /\ part # "workers" => UNCHANGED l_vars
  /\ part # "background" => UNCHANGED vars

WaitsInit ==
  /\ runs \in Parts
  /\ A!Init /\ L!Init /\ Init
  /\ runs # "sleeps" => a_skew = 0 /\ a_by = [s \in Sleeps |-> CHOOSE w \in Wakers : TRUE]

WaitsNext ==
  \/ Alone("sleeps") /\ A!Next
  \/ Alone("workers") /\ L!Next
  \/ Alone("background") /\ Next

-----------------------------------------------------------------------------
(* Each module's own Fairness, while it is the one that runs.              *)
SleepsFairness ==
  LET Here == Alone("sleeps") IN
  /\ WF_all(Here /\ A!Tick) /\ WF_all(Here /\ A!AlarmStep)
  /\ \A s \in Sleeps :
       WF_all(Here /\ A!SleepStep(s)) /\ WF_all(Here /\ A!PollWoken(s))

WorkersFairness ==
  LET Here == Alone("workers") IN
  /\ WF_all(Here /\ L!SendStart) /\ WF_all(Here /\ L!Dispatch)
  /\ WF_all(Here /\ L!Serve) /\ WF_all(Here /\ L!TrapSteps)
  /\ \A k \in Workers :
       /\ WF_all(Here /\ L!Task(k)) /\ WF_all(Here /\ L!Jobs(k))
       /\ WF_all(Here /\ L!Answer(k))

BackgroundFairness ==
  LET Here == Alone("background") IN
  /\ WF_all(Here /\ Consume) /\ WF_all(Here /\ Deliver) /\ WF_all(Here /\ DropBurst)
  /\ WF_all(Here /\ BeginDispose) /\ WF_all(Here /\ DisposeHears)
  /\ WF_all(Here /\ Release) /\ WF_all(Here /\ Take)

WaitsSpec ==
  /\ WaitsInit /\ [][WaitsNext]_all
  /\ SleepsFairness /\ WorkersFairness /\ BackgroundFairness

-----------------------------------------------------------------------------
(* A sleep whose task is polled only when woken ends (alarm.rs).           *)
SleepsEnd == A!SleepsEnd

(* A worker's end reaches the realm that created it, and the realm's       *)
(* release ends the worker; what is posted to a worker arrives, and a boot *)
(* that waits for a native module's answer gets it past the posts held for *)
(* it (workers.rs, thread.rs).                                             *)
WorkersAreHeard ==
  /\ L!EndIsHeard /\ L!ReleaseEndsWorkers
  /\ L!PostsAreDelivered /\ L!AnswersUnblockBoot
=============================================================================
