----------------------------- MODULE WorkerLife -----------------------------
(***************************************************************************)
(* The Workers of one page realm: what bobcat-main keeps of each, the four *)
(* channels between the threads, and each worker's life on bobcat-workers, *)
(* the trap of that whole thread included.                                 *)
(*                                                                         *)
(*   src/crates/bobcat-core/src/main/workers.rs       the creating side    *)
(*   src/crates/bobcat-core/src/main/runtime/lib.rs   dispatch_worker_event *)
(*   src/crates/bobcat-core/src/background/thread.rs  the worker's side    *)
(*                                                                         *)
(* How one owner's tasks, jobs and parked waits interleave is RealmOwner's *)
(* subject: here a job runs in one step, and an end reaps and releases     *)
(* without delay.  What is kept is what crosses the threads, and in which  *)
(* order.  A worker's messages to its creator share the event channel with *)
(* its end and change nothing here.                                        *)
(***************************************************************************)
EXTENDS Naturals, Sequences

CONSTANTS
  Workers,    \* the keys createWorker hands out
  NoWorker,   \* no construction is under way
  Aborts,     \* panic = "abort" (wasm): no panic is caught, nothing unwinds
  MaxPosts    \* bound: postMessage calls per worker

(* Assumed where the module is instantiated.                               *)
WorkerAssumption ==
  NoWorker \notin Workers /\ Aborts \in BOOLEAN /\ MaxPosts \in Nat

(* `n' numbers a worker's posts from one, in the order they were made.     *)
Message == [kind : {"post", "answer", "terminate"}, n : 0..MaxPosts]
Job == [kind : {"boot", "load", "post", "answer"}, n : 0..MaxPosts]
Bare(kind) == [kind |-> kind, n |-> 0]
PostNumbered(n) == [kind |-> "post", n |-> n]

VARIABLES
  \* bobcat-main: the page realm's WorkerOwner and its script
  released,      \* the realm is gone, and with it the owner
  constructing,  \* start() has read the trap flag and not yet sent
  created,       \* keys handed out
  live,          \* WorkerOwner.live: the message senders kept
  sources,       \* WorkerOwner.sources: keys the script holds
  posted,        \* how many values were posted to each
  ends,          \* EngineEvent::WorkerEnded reported
  \* the channels
  commands,      \* WorkerCommand::Start, to the thread
  messages,      \* WorkerMessage, to each worker
  events,        \* WorkerEvent, back to the page
  \* bobcat-workers
  thread,        \* "up"; "panicking"; "flagged"; "over"
  reporters,     \* serve_workers' table
  told,          \* whom report_thread_trap has been through
  task,          \* the worker: "none", "serving", "ended", "done"
  root,          \* its root module: "none", "loading", "awaiting" an answer
                 \* of the host's, "finished" (boot_finished)
  held,          \* posts consume_messages holds
  flushed,       \* `held' is None
  jobs,          \* its jobs in the thread's queue
  delivered,     \* the posts handed to its script, in order
  terminal_reported, panic_reported

creator == <<released, constructing, created, live, sources, posted, ends>>
script == <<root, held, flushed, jobs, delivered>>
trap == <<thread, told>>
reports == <<terminal_reported, panic_reported>>
vars == <<released, constructing, created, live, sources, posted, ends,
          commands, messages, events, thread, reporters, told, task, root,
          held, flushed, jobs, delivered, terminal_reported, panic_reported>>

End == [key : Workers, payload : {"closed", "failed"}]

(* Every variable keeps its range, and a worker that has a sender has a    *)
(* source and was created (workers.rs, WorkerOwner).                       *)
TypeOK ==
  /\ released \in BOOLEAN
  /\ constructing \in Workers \cup {NoWorker}
  /\ live \subseteq sources
  /\ sources \subseteq created
  /\ created \subseteq Workers
  /\ posted \in [Workers -> 0..MaxPosts]
  /\ ends \in [Workers -> Nat]
  /\ commands \in Seq(Workers)
  /\ messages \in [Workers -> Seq(Message)]
  /\ events \in Seq(End)
  /\ thread \in {"up", "panicking", "flagged", "over"}
  /\ reporters \subseteq created
  /\ told \subseteq reporters
  /\ task \in [Workers -> {"none", "serving", "ended", "done"}]
  /\ root \in [Workers -> {"none", "loading", "awaiting", "finished"}]
  /\ held \in [Workers -> Seq(Message)]
  /\ flushed \in [Workers -> BOOLEAN]
  /\ jobs \in [Workers -> Seq(Job)]
  /\ delivered \in [Workers -> Seq(1..MaxPosts)]
  /\ terminal_reported \in [Workers -> BOOLEAN]
  /\ panic_reported \in [Workers -> BOOLEAN]

Init ==
  /\ released = FALSE
  /\ constructing = NoWorker
  /\ created = {}
  /\ live = {}
  /\ sources = {}
  /\ posted = [k \in Workers |-> 0]
  /\ ends = [k \in Workers |-> 0]
  /\ commands = <<>>
  /\ messages = [k \in Workers |-> <<>>]
  /\ events = <<>>
  /\ thread = "up"
  /\ reporters = {}
  /\ told = {}
  /\ task = [k \in Workers |-> "none"]
  /\ root = [k \in Workers |-> "none"]
  /\ held = [k \in Workers |-> <<>>]
  /\ flushed = [k \in Workers |-> FALSE]
  /\ jobs = [k \in Workers |-> <<>>]
  /\ delivered = [k \in Workers |-> <<>>]
  /\ terminal_reported = [k \in Workers |-> FALSE]
  /\ panic_reported = [k \in Workers |-> FALSE]

Up == thread = "up"
Trapped == thread \in {"flagged", "over"}        \* WorkerFactory.trapped
Reads == Aborts \/ Up    \* the receiver of `commands' has not been dropped
Say(k, payload) == events' = Append(events, [key |-> k, payload |-> payload])

-----------------------------------------------------------------------------
(* The page realm's script and its WorkerOwner.                            *)

(* createWorker and start(), up to the read of the flag: a worker of a     *)
(* thread that has trapped fails at once.                                  *)
Construct(k) ==
  /\ ~released /\ constructing = NoWorker
  /\ k \notin created
  /\ created' = created \cup {k}
  /\ sources' = sources \cup {k}
  /\ IF Trapped THEN Say(k, "failed") /\ UNCHANGED constructing
                ELSE constructing' = k /\ UNCHANGED events
  /\ UNCHANGED <<released, live, posted, ends, commands, messages, trap,
                 reporters, task, script, reports>>

(* The rest of start(): the Start is sent and the sender kept, or refused. *)
SendStart ==
  /\ constructing # NoWorker
  /\ IF Reads
     THEN /\ commands' = Append(commands, constructing)
          /\ live' = live \cup {constructing}
          /\ UNCHANGED events
     ELSE Say(constructing, "failed") /\ UNCHANGED <<commands, live>>
  /\ constructing' = NoWorker
  /\ UNCHANGED <<released, created, sources, posted, ends, messages, trap,
                 reporters, task, script, reports>>

(* WorkerOwner::post.                                                      *)
Post(k) ==
  /\ constructing = NoWorker
  /\ k \in live
  /\ posted[k] < MaxPosts
  /\ posted' = [posted EXCEPT ![k] = @ + 1]
  /\ messages' = [messages EXCEPT ![k] = Append(@, PostNumbered(posted'[k]))]
  /\ UNCHANGED <<released, constructing, created, live, sources, ends,
                 commands, events, trap, reporters, task, script, reports>>

(* Worker.terminate(), or the finalizer of a Worker that was collected.    *)
Terminate(k) ==
  /\ constructing = NoWorker
  /\ k \in sources
  /\ sources' = sources \ {k}
  /\ live' = live \ {k}
  /\ messages' = IF k \in live
                 THEN [messages EXCEPT ![k] = Append(@, Bare("terminate"))]
                 ELSE messages
  /\ UNCHANGED <<released, constructing, created, posted, ends, commands,
                 events, trap, reporters, task, script, reports>>

(* dispatch_worker_event of an end: the source is read, then forgotten.    *)
Dispatch ==
  /\ ~released /\ constructing = NoWorker
  /\ events # <<>>
  /\ LET end == Head(events)
     IN  /\ ends' = IF end.payload = "failed" /\ end.key \in sources
                    THEN [ends EXCEPT ![end.key] = @ + 1] ELSE ends
         /\ live' = live \ {end.key}
         /\ sources' = sources \ {end.key}
  /\ events' = Tail(events)
  /\ UNCHANGED <<released, constructing, created, posted, commands, messages,
                 trap, reporters, task, script, reports>>

(* The realm is released: the senders close, and nothing is swept.         *)
Release ==
  /\ ~released /\ constructing = NoWorker
  /\ released' = TRUE
  /\ live' = {} /\ sources' = {}
  /\ events' = <<>>
  /\ UNCHANGED <<constructing, created, posted, ends, commands, messages, trap,
                 reporters, task, script, reports>>

(* The embedder answers the native module call the root module awaits.     *)
(* Bound: one answer is on its way at a time.                              *)
Answer(k) ==
  /\ k \in live
  /\ root[k] = "awaiting"
  /\ LET way == messages[k] \o held[k] \o jobs[k]
     IN  \A i \in DOMAIN way : way[i].kind # "answer"
  /\ messages' = [messages EXCEPT ![k] = Append(@, Bare("answer"))]
  /\ UNCHANGED <<creator, commands, events, trap, reporters, task, script,
                 reports>>

-----------------------------------------------------------------------------
(* bobcat-workers.                                                         *)

(* owner::end: the token is cancelled, and nothing of the worker runs.     *)
Ends(k) == task' = [task EXCEPT ![k] = "ended"]
Queue(k, more) == jobs' = [jobs EXCEPT ![k] = @ \o more]

(* serve_workers reads a Start; boot_worker queues the worker's first job  *)
(* and starts its consumer beside it.                                      *)
Serve ==
  /\ Up /\ commands # <<>>
  /\ LET k == Head(commands)
     IN  /\ task' = [task EXCEPT ![k] = "serving"]
         /\ reporters' = reporters \cup {k}
         /\ Queue(k, <<Bare("boot")>>)
  /\ commands' = Tail(commands)
  /\ UNCHANGED <<creator, messages, events, trap, root, held, flushed,
                 delivered, reports>>

(* Mutant of Held: the root module is looked at, not what is held for it.  *)
HeldByRoot(k, message) == root[k] # "finished" /\ message.kind = "post"

(* A post, for as long as `held' is there to push it on.                   *)
Held(k, message) == ~flushed[k] /\ message.kind = "post"

(* Terminate, or the channel closed and read to its end.                   *)
Stops(k) ==
  IF messages[k] = <<>> THEN k \notin live
                        ELSE Head(messages[k]).kind = "terminate"

(* ready.changed(), of which the messages go first.                        *)
Wakes(k) ==
  /\ messages[k] = <<>> /\ k \in live
  /\ root[k] = "finished" /\ ~flushed[k]

(* The top of the loop, once a turn has queued `more' and holds `kept':    *)
(* what is held is let through when the root module has finished.          *)
Turn(k, more, kept) ==
  LET opens == ~flushed[k] /\ root[k] = "finished"
  IN  /\ Queue(k, IF opens THEN more \o kept ELSE more)
      /\ held' = [held EXCEPT ![k] = IF opens THEN <<>> ELSE kept]
      /\ flushed' = [flushed EXCEPT ![k] = @ \/ opens]

(* consume_messages from one await to the next.                            *)
Consume(k) ==
  /\ Up /\ task[k] = "serving"
  /\ \/ /\ Stops(k)
        /\ Ends(k)
        /\ UNCHANGED <<held, flushed, jobs>>
     \/ /\ Wakes(k)
        /\ Turn(k, <<>>, held[k])
        /\ UNCHANGED task
     \/ /\ messages[k] # <<>> /\ ~Stops(k)
        /\ LET message == Head(messages[k])
           IN  IF Held(k, message)
               THEN Turn(k, <<>>, Append(held[k], message))
               ELSE Turn(k, <<message>>, held[k])
        /\ UNCHANGED task
  /\ messages' = [messages EXCEPT ![k] = IF @ = <<>> THEN @ ELSE Tail(@)]
  /\ UNCHANGED <<creator, commands, events, trap, reporters, root, delivered,
                 reports>>

(* The host answers the request for the script: a load_module task.        *)
Loaded(k) ==
  /\ Up /\ task[k] = "serving"
  /\ root[k] = "loading"
  /\ \A i \in DOMAIN jobs[k] : jobs[k][i].kind # "load"
  /\ Queue(k, <<Bare("load")>>)
  /\ UNCHANGED <<creator, commands, messages, events, trap, reporters, task,
                 root, held, flushed, delivered, reports>>

Popped(k) == jobs' = [jobs EXCEPT ![k] = Tail(@)]

(* A job of a worker that has ended does nothing.                          *)
DropJob(k) ==
  /\ Up /\ task[k] = "ended"
  /\ jobs[k] # <<>>
  /\ Popped(k)
  /\ UNCHANGED <<creator, commands, messages, events, trap, reporters, task,
                 root, held, flushed, delivered, reports>>

(* Worker::boot when no realm can be opened.                               *)
BootFails(k) ==
  /\ Up /\ task[k] = "serving"
  /\ jobs[k] # <<>> /\ Head(jobs[k]).kind = "boot"
  /\ Popped(k)
  /\ Say(k, "failed") /\ Ends(k)
  /\ terminal_reported' = [terminal_reported EXCEPT ![k] = TRUE]
  /\ UNCHANGED <<creator, commands, messages, trap, reporters, root, held,
                 flushed, delivered, panic_reported>>

(* Any other job: the root module starts to load, settles or waits, a post *)
(* is handed over; and where script ran it may have called close(), which  *)
(* the epilogue answers with the end.                                      *)
RunJob(k) ==
  /\ Up /\ task[k] = "serving"
  /\ jobs[k] # <<>>
  /\ Popped(k)
  /\ LET job == Head(jobs[k])
         settles == CASE job.kind = "boot" -> {"loading", "finished"}
                      [] job.kind = "load" /\ root[k] = "loading" ->
                           {"awaiting", "finished"}
                      [] job.kind = "answer" -> {"finished"}
                      [] OTHER -> {root[k]}
     IN  /\ \E r \in settles : root' = [root EXCEPT ![k] = r]
         /\ delivered' = IF job.kind = "post"
              THEN [delivered EXCEPT ![k] = Append(@, job.n)] ELSE delivered
         /\ \/ UNCHANGED <<events, task, terminal_reported>>
            \/ /\ root'[k] # "loading"
               /\ Say(k, "closed") /\ Ends(k)
               /\ terminal_reported' = [terminal_reported EXCEPT ![k] = TRUE]
  /\ UNCHANGED <<creator, commands, messages, trap, reporters, held, flushed,
                 panic_reported>>

(* A panic of one worker's own, in a job or in a task, where it is caught: *)
(* reported even of a worker that has ended.                               *)
Panics(k) ==
  /\ Up /\ ~Aborts
  /\ task[k] \in {"serving", "ended"}
  /\ ~panic_reported[k]
  /\ panic_reported' = [panic_reported EXCEPT ![k] = TRUE]
  /\ Say(k, "failed") /\ Ends(k)
  /\ UNCHANGED <<creator, commands, messages, trap, reporters, script,
                 terminal_reported>>

(* The task is joined, and its reporter with it (finish_worker_task).      *)
Finish(k) ==
  /\ Up /\ task[k] = "ended"
  /\ jobs[k] = <<>>
  /\ task' = [task EXCEPT ![k] = "done"]
  /\ reporters' = reporters \ {k}
  /\ UNCHANGED <<creator, commands, messages, events, trap, script, reports>>

(* The thread's own panic.  Where it unwinds the Starts that are queued go *)
(* with their receiver; where it aborts nobody reads them.                 *)
Trap ==
  /\ Up
  /\ thread' = "panicking"
  /\ commands' = IF Aborts THEN commands ELSE <<>>
  /\ UNCHANGED <<creator, messages, events, reporters, told, task, script,
                 reports>>

(* Mutant of ReportTrap: the reports do not wait for the flag.             *)
ReportsFirst(k) ==
  /\ thread \in {"panicking", "flagged"}
  /\ k \in reporters \ told
  /\ told' = told \cup {k}
  /\ IF task[k] = "serving" THEN Say(k, "failed") ELSE UNCHANGED events
  /\ UNCHANGED <<creator, commands, messages, thread, reporters, task, script,
                 reports>>

(* Mutant of ReportTrap: the wrong side of the token is skipped.           *)
ReportsTheEnded(k) ==
  /\ thread = "flagged"
  /\ k \in reporters \ told
  /\ told' = told \cup {k}
  /\ IF task[k] # "serving" THEN Say(k, "failed") ELSE UNCHANGED events
  /\ UNCHANGED <<creator, commands, messages, thread, reporters, task, script,
                 reports>>

(* report_thread_trap: the flag first, then each reporter whose token is   *)
(* not cancelled.                                                          *)
Flag ==
  /\ thread = "panicking"
  /\ thread' = "flagged"
  /\ UNCHANGED <<creator, commands, messages, events, reporters, told, task,
                 script, reports>>

ReportTrap(k) ==
  /\ thread = "flagged"
  /\ k \in reporters \ told
  /\ told' = told \cup {k}
  /\ IF task[k] = "serving" THEN Say(k, "failed") ELSE UNCHANGED events
  /\ UNCHANGED <<creator, commands, messages, thread, reporters, task, script,
                 reports>>

Over ==
  /\ thread = "flagged" /\ told = reporters
  /\ thread' = "over"
  /\ UNCHANGED <<creator, commands, messages, events, reporters, told, task,
                 script, reports>>

(* The group has nothing left to do.                                       *)
Quiet ==
  /\ released
  /\ thread = "over" \/ \A k \in created : task[k] = "done"
  /\ UNCHANGED vars

TrapSteps == Flag \/ Over \/ \E k \in Workers : ReportTrap(k)
Task(k) == Consume(k) \/ Finish(k)
Jobs(k) == DropJob(k) \/ BootFails(k) \/ RunJob(k)

Next ==
  \/ \E k \in Workers :
       \/ Construct(k) \/ Post(k) \/ Terminate(k) \/ Answer(k)
       \/ Task(k) \/ Jobs(k) \/ Loaded(k) \/ Panics(k)
  \/ SendStart \/ Dispatch \/ Release \/ Serve \/ Trap \/ TrapSteps \/ Quiet

Spec == Init /\ [][Next]_vars

(* Tasks that are woken are polled, jobs that are queued run, the page's   *)
(* consumer reads its events, and the embedder drops or calls every        *)
(* callback it was given.  A script that is asked for may never come, and  *)
(* nothing obliges a thread to trap; one that is trapping goes on.         *)
Fairness ==
  /\ WF_vars(SendStart) /\ WF_vars(Dispatch) /\ WF_vars(Serve)
  /\ WF_vars(TrapSteps)
  /\ \A k \in Workers : WF_vars(Task(k)) /\ WF_vars(Jobs(k)) /\ WF_vars(Answer(k))

FairSpec == Spec /\ Fairness

-----------------------------------------------------------------------------
(* Posts reach the script in the order they were made and without a gap,   *)
(* across the moment the root module finishes and what was held for it is  *)
(* let through (consume_messages): a post read as it finishes does not     *)
(* overtake the ones it waited with.                                       *)
DeliveredInOrder ==
  \A k \in Workers : \A i \in DOMAIN delivered[k] : delivered[k][i] = i

(* A worker that is over and whose sender the realm still keeps has said   *)
(* so: its end is on its way, whether it closed, failed to open, panicked  *)
(* or went with its thread (forget's "goes on naming only the workers      *)
(* still running").  The two tables are well formed with the rest: no      *)
(* sender is kept for a worker without a source.                           *)
EndIsAnnounced ==
  /\ TypeOK
  /\ \A k \in live :
       task[k] \in {"ended", "done"} \/ k \in told =>
         \E i \in DOMAIN events : events[i].key = k

(* The embedder hears of one end at most once, and never while the realm   *)
(* goes on keeping the worker: a panic's second Failed, behind a Closed or *)
(* a trap's, finds no source (RealmOwner::panic_row, source_of).           *)
EndReportedOnce ==
  \A k \in Workers : ends[k] <= 1 /\ (k \in sources => ends[k] = 0)

(* The end of a worker is announced while its creator keeps it, and        *)
(* reported once; what it is sent is delivered in order (thread.rs,        *)
(* workers.rs).                                                            *)
WorkersAreTold == EndIsAnnounced /\ EndReportedOnce /\ DeliveredInOrder

(* No Start is sent behind a report of the trap: a Worker constructed      *)
(* after any of them fails at once (report_thread_trap).                   *)
NoStartBehindReport ==
  [][constructing' \notin {constructing, NoWorker} => told = {}]_vars

(* A Start that was sent and not read when the thread trapped.             *)
Unread(k) == task[k] = "none" /\ ~Up

(* A creator that still names a worker that is over comes to know it, with *)
(* the one exception of a Start the trap left unread, which no table names *)
(* (docs/browser-wasm.md).                                                 *)
EndIsHeard ==
  \A k \in Workers :
    k \in live /\ (task[k] \in {"ended", "done"} \/ thread = "over") /\ ~Unread(k)
      ~> k \notin live

(* What was posted is handed over once the root module has finished, the   *)
(* posts that came before it included, unless the worker is over or let go *)
(* of first.                                                               *)
PostsAreDelivered ==
  \A k \in Workers, n \in 1..MaxPosts :
    root[k] = "finished" /\ posted[k] >= n
      ~> Len(delivered[k]) >= n \/ task[k] # "serving" \/ ~Up

(* A root module that awaits a native module's answer gets it: the answer  *)
(* does not wait for the boot that waits for it (consume_messages).        *)
AnswersUnblockBoot ==
  \A k \in Workers :
    root[k] = "awaiting"
      ~> root[k] = "finished" \/ task[k] # "serving" \/ ~Up

(* Releasing the realm ends its workers, whatever they were doing, though  *)
(* nothing sweeps them: their channels close.                              *)
ReleaseEndsWorkers ==
  \A k \in Workers :
    released /\ k \in created ~> task[k] = "done" \/ ~Up
=============================================================================
