------------------------------ MODULE MCThreads ------------------------------
(***************************************************************************)
(* RealmOwner on both engine threads of a group at once: its own variables *)
(* are bobcat-main's, with views for owners, and those below are           *)
(* bobcat-workers', with workers.  What the threads tell one another is    *)
(* left to WorkerLife and Background; here they have nothing in common, so *)
(* one of them `runs' and the other stands still.                          *)
(***************************************************************************)
EXTENDS RealmOwner

CONSTANTS
  Workers,      \* the owners on bobcat-workers
  WorkerTasks,  \* Tasks and MaxEntries, of those
  MaxPosts

VARIABLES
  runs,  \* "main" or "workers"
  w_queue, w_pushed, w_mode, w_job, w_at, w_parked, w_token, w_ended,
  w_terminal, w_panic, w_deadline, w_tasks, w_realm, w_inbox, w_booted,
  w_closing, w_tail, w_sent, w_entries

W == INSTANCE RealmOwner WITH
  Owners <- Workers, Role <- "worker", Tasks <- WorkerTasks, MaxEntries <- MaxPosts,
  queue <- w_queue, pushed <- w_pushed, mode <- w_mode, job <- w_job,
  at <- w_at, parked <- w_parked, token <- w_token, ended <- w_ended,
  terminal_reported <- w_terminal, panic_reported <- w_panic,
  deadline <- w_deadline, tasks <- w_tasks, realm <- w_realm,
  inbox <- w_inbox, booted <- w_booted, closing <- w_closing,
  tail <- w_tail, sent <- w_sent, entries <- w_entries

w_vars == <<w_queue, w_pushed, w_mode, w_job, w_at, w_parked, w_token, w_ended,
            w_terminal, w_panic, w_deadline, w_tasks, w_realm, w_inbox,
            w_booted, w_closing, w_tail, w_sent, w_entries>>
both == <<runs, vars, w_vars>>

ThreadsInit == runs \in {"main", "workers"} /\ Init /\ W!Init

ThreadsNext ==
  \/ runs = "main" /\ Next /\ UNCHANGED <<runs, w_vars>>
  \/ runs = "workers" /\ W!Next /\ UNCHANGED <<runs, vars>>

(* The module's Fairness, of each thread when it is the one that runs.     *)
MainFairness ==
  LET Here == runs = "main" /\ UNCHANGED <<runs, w_vars>> IN
  /\ WF_both(Here /\ ThreadStep)
  /\ \A o \in Owners :
       /\ WF_both(Here /\ Serve(o)) /\ WF_both(Here /\ ServeEnds(o))
       /\ WF_both(Here /\ ReapEnds(o)) /\ WF_both(Here /\ DisposeEnds(o))
       /\ WF_both(Here /\ TailEnds(o)) /\ WF_both(Here /\ WaitCancelled(o))
       /\ SF_both(Here /\ Returns(o))
       /\ \A t \in Tasks : WF_both(Here /\ Join(o, t))

WorkersFairness ==
  LET Here == runs = "workers" /\ UNCHANGED <<runs, vars>> IN
  /\ WF_both(Here /\ W!ThreadStep)
  /\ \A o \in Workers :
       /\ WF_both(Here /\ W!Serve(o)) /\ WF_both(Here /\ W!ServeEnds(o))
       /\ WF_both(Here /\ W!ReapEnds(o)) /\ WF_both(Here /\ W!DisposeEnds(o))
       /\ WF_both(Here /\ W!TailEnds(o)) /\ WF_both(Here /\ W!WaitCancelled(o))
       /\ SF_both(Here /\ W!Returns(o))
       /\ \A t \in WorkerTasks : WF_both(Here /\ W!Join(o, t))

ThreadsSpec ==
  ThreadsInit /\ [][ThreadsNext]_both /\ MainFairness /\ WorkersFairness

(* A worker's thread keeps the same promise, with no disposal behind an    *)
(* end (background/thread.rs); and a worker whose token is cancelled, by   *)
(* its end or its creator's drop, is reclaimed, though its opening job is  *)
(* parked with a consumer beside it.                                       *)
WorkersKeepThePromise == W!ImplementsOwnerLife /\ W!ShutdownCompletes
=============================================================================
