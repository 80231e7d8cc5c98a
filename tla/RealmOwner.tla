----------------------------- MODULE RealmOwner -----------------------------
(***************************************************************************)
(* One engine thread of bobcat-core (bobcat-main or bobcat-workers) and    *)
(* the realm owners it hosts: a view's Page, or a Worker.                  *)
(*                                                                         *)
(*   src/crates/bobcat-core/src/jobs.rs         the thread: tasks and jobs *)
(*   src/crates/bobcat-core/src/lifetime.rs     Lifetime: tasks, end, latches *)
(*   src/crates/bobcat-core/src/realm/owner.rs  entries, epilogue, end, tail *)
(*   src/crates/bobcat-core/src/main/page.rs    what a Page adds            *)
(*   src/crates/bobcat-core/src/background/thread.rs  what a Worker adds    *)
(*                                                                         *)
(* Tasks wait and route, and run only while the scheduler is driven: when  *)
(* the top loop polls, or when the running job is parked in a synchronous  *)
(* wait.  Jobs are the only place JavaScript runs: they leave one FIFO one *)
(* at a time, and no other job starts while one is parked.  Both roles are *)
(* modelled; a thread hosts one of them, so Role is a constant.            *)
(*                                                                         *)
(* What an operation or a timer callback computes is left out; what is     *)
(* kept is whether it parks, closes, fails, panics or ends its owner.      *)
(***************************************************************************)
EXTENDS Naturals, Sequences, FiniteSets

CONSTANTS
  Owners,      \* the owners attached to this thread
  Role,        \* "page" on bobcat-main, "worker" on bobcat-workers
  Tasks,       \* names for the tasks one owner can hold at once
  NoTask,      \* the asker of a job whose answer nobody waits for
  NoJob,       \* no job is running
  MaxEntries   \* bound: entries queued for one owner by its tasks

ASSUME RoleAssumption == Role \in {"page", "worker"}
ASSUME TaskAssumption ==
  /\ IsFiniteSet(Tasks)
  /\ NoTask \notin Tasks
ASSUME BoundAssumption == MaxEntries \in Nat

(* "open" is JobKind::Start; "dispose" and "release" are the after_end jobs; *)
(* every other JobKind is an "enter".                                       *)
JobKind == {"open", "enter", "dispose", "release"}
Job == [owner : Owners, kind : JobKind, task : Tasks \cup {NoTask}]
ASSUME NoJobAssumption == NoJob \notin Job \cup Owners

VARIABLES
  queue,     \* JsThread.queue: the jobs pushed and not popped
  pushed,    \* JsThread.pushed: the Notify's stored permit
  mode,      \* "poll": inside block_on; "drain": popping jobs; "over"
  job,       \* the job that is running, or NoJob
  at,        \* where it is: "start", before any JavaScript; then in the
             \* JavaScript of its "operation", then of its due "timers",
             \* or, all timers discarded, past it with the "rest"
  parked,    \* the running job is inside JsThread::wait
  token,     \* Lifetime.token: cancelled, by any thread
  ended,     \* Lifetime.ended: the latch of this thread
  terminal_reported, panic_reported,   \* the two report latches
  deadline,  \* Lifetime.deadline: armed
  tasks,     \* tasks[o][t]: the state of task t of Lifetime.tasks
  realm,     \* RealmOwner::realm: "none", "open" or "released"
  inbox,     \* Page.worker_events: the opening job installed it
  booted,    \* Page.boot_reported, Worker.boot_finished
  closing,   \* WorkerRealm.closing: the script called close()
  tail,      \* the owner's own task: serve_view or serve_worker
  sent,      \* what was reported as this owner's, in order
  entries    \* how many entries its tasks have queued (bounded)

thread == <<queue, pushed, mode, job, at, parked>>
lifetime == <<token, ended, deadline>>
reports == <<terminal_reported, panic_reported, sent>>
flags == <<inbox, booted, closing>>
vars == <<queue, pushed, mode, job, at, parked, token, ended,
          terminal_reported, panic_reported, deadline, tasks, realm,
          inbox, booted, closing, tail, sent, entries>>

(* "booting" is boot_worker before its first poll and "opening" while it   *)
(* awaits the opening job; a task is "parked" at any wait of its own and   *)
(* "awaiting" the answer of an entry it queued; "returned" and "panicked"  *)
(* are finished and not joined.                                            *)
TaskState == {"absent", "booting", "opening", "parked", "awaiting",
              "returned", "panicked"}
TailState == {"unserved", "serve", "reap", "dispose", "release", "done"}
Report == {"failed", "closed", "panicked"}

(* Every variable keeps its range.                                         *)
TypeOK ==
  /\ queue \in Seq(Job)
  /\ pushed \in BOOLEAN
  /\ mode \in {"poll", "drain", "over"}
  /\ job \in Job \cup {NoJob}
  /\ at \in {"start", "operation", "timers", "rest"}
  /\ parked \in BOOLEAN
  /\ token \in [Owners -> BOOLEAN]
  /\ ended \in [Owners -> BOOLEAN]
  /\ terminal_reported \in [Owners -> BOOLEAN]
  /\ panic_reported \in [Owners -> BOOLEAN]
  /\ deadline \in [Owners -> BOOLEAN]
  /\ tasks \in [Owners -> [Tasks -> TaskState]]
  /\ realm \in [Owners -> {"none", "open", "released"}]
  /\ inbox \in [Owners -> BOOLEAN]
  /\ booted \in [Owners -> BOOLEAN]
  /\ closing \in [Owners -> BOOLEAN]
  /\ tail \in [Owners -> TailState]
  /\ sent \in [Owners -> Seq(Report)]
  /\ entries \in [Owners -> 0..MaxEntries]
  /\ job = NoJob => at = "start" /\ ~parked
  /\ job # NoJob => mode = "drain"

Init ==
  /\ queue = <<>>
  /\ pushed = FALSE
  /\ mode = "poll"
  /\ job = NoJob
  /\ at = "start"
  /\ parked = FALSE
  /\ token = [o \in Owners |-> FALSE]
  /\ ended = [o \in Owners |-> FALSE]
  /\ terminal_reported = [o \in Owners |-> FALSE]
  /\ panic_reported = [o \in Owners |-> FALSE]
  /\ deadline = [o \in Owners |-> FALSE]
  /\ tasks = [o \in Owners |-> [t \in Tasks |-> "absent"]]
  /\ realm = [o \in Owners |-> "none"]
  /\ inbox = [o \in Owners |-> FALSE]
  /\ booted = [o \in Owners |-> FALSE]
  /\ closing = [o \in Owners |-> FALSE]
  /\ tail = [o \in Owners |-> "unserved"]
  /\ sent = [o \in Owners |-> <<>>]
  /\ entries = [o \in Owners |-> 0]

-----------------------------------------------------------------------------
(* Tasks are polled by the top loop, and by a job's own synchronous wait.  *)
Scheduling == mode = "poll" \/ parked

Running(o) == job # NoJob /\ job.owner = o /\ ~parked

NewJob(o, k, t) == [owner |-> o, kind |-> k, task |-> t]

(* Mutant of Push: no permit is left for the top loop.                     *)
PushUnnotified(j) ==
  /\ queue' = Append(queue, j)
  /\ pushed' = pushed

(* JsThreadHandle::push: behind everything queued, and one stored permit.  *)
Push(j) ==
  /\ queue' = Append(queue, j)
  /\ pushed' = TRUE

(* Lifetime::end: the latch, the token, and the armed deadline withdrawn.  *)
End(o) ==
  /\ ended' = [ended EXCEPT ![o] = TRUE]
  /\ token' = [token EXCEPT ![o] = TRUE]
  /\ deadline' = [deadline EXCEPT ![o] = IF ended[o] THEN @ ELSE FALSE]

(* terminal: the first report that ends o is the one sent, then the end.   *)
Terminal(o, r) ==
  /\ terminal_reported' = [terminal_reported EXCEPT ![o] = TRUE]
  /\ sent' = IF terminal_reported[o] THEN sent
             ELSE [sent EXCEPT ![o] = Append(@, r)]
  /\ UNCHANGED panic_reported
  /\ End(o)

(* Mutants of Trapped: no latch, and the latch that terminal spends.       *)
TrappedUnlatched(o) ==
  /\ panic_reported' = [panic_reported EXCEPT ![o] = TRUE]
  /\ sent' = [sent EXCEPT ![o] = Append(@, "panicked")]
  /\ UNCHANGED terminal_reported
  /\ End(o)

TrappedOneLatch(o) ==
  /\ panic_reported' = [panic_reported EXCEPT ![o] = TRUE]
  /\ sent' = IF panic_reported[o] \/ terminal_reported[o] THEN sent
             ELSE [sent EXCEPT ![o] = Append(@, "panicked")]
  /\ UNCHANGED terminal_reported
  /\ End(o)

(* trapped: one report per owner, whatever terminal has reported.          *)
Trapped(o) ==
  /\ panic_reported' = [panic_reported EXCEPT ![o] = TRUE]
  /\ sent' = IF panic_reported[o] THEN sent
             ELSE [sent EXCEPT ![o] = Append(@, "panicked")]
  /\ UNCHANGED terminal_reported
  /\ End(o)

(* Lifetime::spawn of one more task, or of none; the slots bound how many. *)
MaySpawn(o) ==
  \/ UNCHANGED tasks
  \/ \E t \in Tasks : /\ tasks[o][t] = "absent"
                      /\ tasks' = [tasks EXCEPT ![o][t] = "parked"]

(* An entry is counted against the bound of its owner.                     *)
Count(o) ==
  /\ entries[o] < MaxEntries
  /\ entries' = [entries EXCEPT ![o] = @ + 1]

-----------------------------------------------------------------------------
(* The embedder releases the view, or its pump met a fatal event: the      *)
(* token is cancelled from another thread.  A worker's token is cancelled  *)
(* by its own end alone.                                                   *)
HostCancels(o) ==
  /\ Role = "page"
  /\ ~token[o]
  /\ token' = [token EXCEPT ![o] = TRUE]
  /\ UNCHANGED <<thread, ended, deadline, reports, tasks, realm, flags, tail,
                 entries>>

(* serve_view: the opening job is queued before any task of the view is    *)
(* spawned.  serve_worker: boot_worker is spawned, and queues it.          *)
Serve(o) ==
  /\ Scheduling
  /\ tail[o] = "unserved"
  /\ tail' = [tail EXCEPT ![o] = "serve"]
  /\ \/ /\ Role = "page"
        /\ Push(NewJob(o, "open", NoTask))
        /\ tasks' = [tasks EXCEPT ![o] = [t \in Tasks |-> "parked"]]
     \/ /\ Role = "worker"
        /\ \E t \in Tasks : tasks' = [tasks EXCEPT ![o][t] = "booting"]
        /\ UNCHANGED <<queue, pushed>>
  /\ UNCHANGED <<mode, job, at, parked, lifetime, reports, realm, flags,
                 entries>>

(* boot_worker's first poll: the worker's first job is queued, and its     *)
(* message consumer is spawned beside that job rather than behind it.      *)
QueueBoot(o, t) ==
  /\ Scheduling
  /\ tasks[o][t] = "booting"
  /\ Push(NewJob(o, "open", t))
  /\ \E c \in Tasks : /\ tasks[o][c] = "absent"
                      /\ tasks' = [tasks EXCEPT ![o][t] = "opening",
                                                ![o][c] = "parked"]
  /\ UNCHANGED <<mode, job, at, parked, lifetime, reports, realm, flags,
                 tail, entries>>

(* A task decided an entry is owed: one job, which it awaits, or which the *)
(* consumer that has to go on reading queues and forgets.                  *)
QueueEntry(o, t) ==
  /\ Scheduling
  /\ tasks[o][t] = "parked"
  /\ Count(o)
  /\ \/ /\ Push(NewJob(o, "enter", t))
        /\ tasks' = [tasks EXCEPT ![o][t] = "awaiting"]
     \/ /\ Push(NewJob(o, "enter", NoTask))
        /\ UNCHANGED tasks
  /\ UNCHANGED <<mode, job, at, parked, lifetime, reports, realm, flags,
                 tail>>

(* The jobs that are queued or running: theirs are the answers still owed. *)
(* An answer leaves with its job, sent or dropped.                         *)
Outstanding == {queue[i] : i \in DOMAIN queue} \cup ({job} \ {NoJob})

AnsweredTask(o, t) == ~\E j \in Outstanding : j.owner = o /\ j.task = t

(* A task goes on after the entry it awaited.                              *)
Resume(o, t) ==
  /\ Scheduling
  /\ tasks[o][t] = "awaiting"
  /\ AnsweredTask(o, t)
  /\ tasks' = [tasks EXCEPT ![o][t] = "parked"]
  /\ UNCHANGED <<thread, lifetime, reports, realm, flags, tail, entries>>

(* boot_worker returns; a worker that is up and has not ended has spawned  *)
(* its clock, which takes the slot here.                                   *)
ResumeBoot(o, t) ==
  /\ Scheduling
  /\ tasks[o][t] = "opening"
  /\ AnsweredTask(o, t)
  /\ tasks' = [tasks EXCEPT ![o][t] =
                 IF realm[o] = "open" /\ ~ended[o] THEN "parked"
                                                   ELSE "returned"]
  /\ UNCHANGED <<thread, lifetime, reports, realm, flags, tail, entries>>

(* A task returns, on its own account or having ended its owner: a         *)
(* Terminate read, a release mirrored, a channel closed.                   *)
TaskReturns(o, t) ==
  /\ Scheduling
  /\ tasks[o][t] = "parked"
  /\ tasks' = [tasks EXCEPT ![o][t] = "returned"]
  /\ End(o) \/ UNCHANGED lifetime
  /\ UNCHANGED <<thread, reports, realm, flags, tail, entries>>

(* A task panics: EndOnUnwind ends the owner during the unwind, and the    *)
(* payload waits in the set for whoever joins the task.                    *)
TaskPanics(o, t) ==
  /\ Scheduling
  /\ tasks[o][t] = "parked"
  /\ tasks' = [tasks EXCEPT ![o][t] = "panicked"]
  /\ End(o)
  /\ UNCHANGED <<thread, reports, realm, flags, tail, entries>>

-----------------------------------------------------------------------------
(* run_owner: Lifetime::serve, the end, Lifetime::reap, before_release and *)
(* the release job.                                                        *)

(* join_next and report: a payload is trapped's, a return is nothing.      *)
Join(o, t) ==
  /\ Scheduling
  /\ tail[o] \in {"serve", "reap"}
  /\ tasks' = [tasks EXCEPT ![o][t] = "absent"]
  /\ \/ /\ tasks[o][t] = "returned"
        /\ UNCHANGED <<reports, lifetime>>
     \/ /\ tasks[o][t] = "panicked"
        /\ Trapped(o)
  /\ UNCHANGED <<thread, realm, flags, tail, entries>>

NoTasks(o) == \A t \in Tasks : tasks[o][t] = "absent"

(* Mutant of ServeEnds: the owner waits for its tasks alone.               *)
ServeEndsUncancelled(o) ==
  /\ Scheduling
  /\ tail[o] = "serve"
  /\ NoTasks(o)
  /\ End(o)
  /\ tail' = [tail EXCEPT ![o] = "reap"]
  /\ UNCHANGED <<thread, reports, tasks, realm, flags, entries>>

(* The token is cancelled or the set is empty: the owner mirrors that onto *)
(* the latch and aborts every task, in one poll.  A task that had not      *)
(* finished returns at its wait; the job it queued stays queued.           *)
ServeEnds(o) ==
  /\ Scheduling
  /\ tail[o] = "serve"
  /\ token[o] \/ NoTasks(o)
  /\ End(o)
  /\ tail' = [tail EXCEPT ![o] = "reap"]
  /\ tasks' = [tasks EXCEPT ![o] =
                 [t \in Tasks |-> IF @[t] \in {"absent", "panicked"}
                                  THEN @[t] ELSE "returned"]]
  /\ UNCHANGED <<thread, reports, realm, flags, entries>>

(* One job of the tail's, awaited.                                         *)
QueueTail(o, k) ==
  /\ Push(NewJob(o, k, NoTask))
  /\ tail' = [tail EXCEPT ![o] = k]
  /\ UNCHANGED <<mode, job, at, parked, lifetime, reports, tasks, realm,
                 flags>>

(* Mutant of ReapEnds: the realm is dropped here, not in a job.            *)
ReapEndsReleases(o) ==
  /\ Scheduling
  /\ tail[o] = "reap"
  /\ NoTasks(o)
  /\ realm' = [realm EXCEPT ![o] = "released"]
  /\ tail' = [tail EXCEPT ![o] = "done"]
  /\ UNCHANGED <<thread, lifetime, reports, tasks, flags, entries>>

(* Every task is joined: before_release, which for a page that installed   *)
(* its worker inbox is the disposal, and then the release.                 *)
ReapEnds(o) ==
  /\ Scheduling
  /\ tail[o] = "reap"
  /\ NoTasks(o)
  /\ QueueTail(o, IF inbox[o] THEN "dispose" ELSE "release")
  /\ UNCHANGED entries

AnsweredTail(o, k) == ~\E j \in Outstanding : j.owner = o /\ j.kind = k

(* Page::dispose: a worker event has arrived and the disposal has not      *)
(* finished: one more after_end job delivers it.                           *)
DisposeAgain(o) ==
  /\ Scheduling
  /\ tail[o] = "dispose"
  /\ AnsweredTail(o, "dispose")
  /\ Count(o)
  /\ QueueTail(o, "dispose")

(* The disposal finished, or every sender of the inbox is gone.            *)
DisposeEnds(o) ==
  /\ Scheduling
  /\ tail[o] = "dispose"
  /\ AnsweredTail(o, "dispose")
  /\ QueueTail(o, "release")
  /\ UNCHANGED entries

TailEnds(o) ==
  /\ Scheduling
  /\ tail[o] = "release"
  /\ AnsweredTail(o, "release")
  /\ tail' = [tail EXCEPT ![o] = "done"]
  /\ UNCHANGED <<thread, lifetime, reports, tasks, realm, flags, entries>>

-----------------------------------------------------------------------------
(* JsThread::run: block_on until main finishes or a push is notified, then *)
(* drain until the queue is empty.                                         *)
owners == <<lifetime, reports, tasks, realm, flags, tail, entries>>

Notified ==
  /\ mode = "poll" /\ pushed
  /\ mode' = "drain"
  /\ pushed' = FALSE
  /\ UNCHANGED <<queue, job, at, parked, owners>>

Drained ==
  /\ mode = "drain" /\ job = NoJob /\ queue = <<>>
  /\ mode' = "poll"
  /\ UNCHANGED <<queue, pushed, job, at, parked, owners>>

(* main has joined every owner's task: what is queued is dropped unrun.    *)
MainFinished ==
  /\ mode = "poll"
  /\ \A o \in Owners : tail[o] = "done"
  /\ mode' = "over"
  /\ queue' = <<>>
  /\ UNCHANGED <<pushed, job, at, parked, owners>>

Pop(kinds) ==
  /\ mode = "drain" /\ job = NoJob
  /\ queue # <<>> /\ Head(queue).kind \in kinds
  /\ queue' = Tail(queue)
  /\ UNCHANGED <<pushed, mode, parked>>

(* The job's body runs from where its JavaScript, if any, begins.          *)
Begin ==
  /\ job' = Head(queue)
  /\ at' = IF Head(queue).kind = "open" THEN "start" ELSE "operation"

(* Mutant of PopLive: the latch is not read.                               *)
PopLiveUnlatched ==
  /\ Pop({"open", "enter"})
  /\ LET o == Head(queue).owner IN
       IF Head(queue).kind = "enter" => realm[o] = "open"
       THEN Begin ELSE UNCHANGED <<job, at>>
  /\ UNCHANGED owners

(* enter_now, Page::open_realm and Worker::boot: a live owner is entered,  *)
(* and one whose realm is open unless this is the job that opens it.       *)
PopLive ==
  /\ Pop({"open", "enter"})
  /\ LET o == Head(queue).owner IN
       IF ~ended[o] /\ (Head(queue).kind = "enter" => realm[o] = "open")
       THEN Begin ELSE UNCHANGED <<job, at>>
  /\ UNCHANGED owners

(* after_end, for the disposal: past the latch.                            *)
PopDispose ==
  /\ Pop({"dispose"})
  /\ IF realm[Head(queue).owner] = "open" THEN Begin ELSE UNCHANGED <<job, at>>
  /\ UNCHANGED owners

(* after_end, for the release: the realm goes inside the job.              *)
PopRelease ==
  /\ Pop({"release"})
  /\ realm' = [realm EXCEPT ![Head(queue).owner] = "released"]
  /\ UNCHANGED <<job, at, lifetime, reports, tasks, flags, tail, entries>>

-----------------------------------------------------------------------------
(* The running job, which is o's.                                          *)
Return ==
  /\ job' = NoJob
  /\ at' = "start"

Goes(place) ==
  /\ at' = place
  /\ UNCHANGED job

Quiet == UNCHANGED <<queue, pushed, mode>>

(* JsThread::wait: the job parks, and the scheduler runs under it.         *)
Park(o) ==
  /\ Running(o) /\ at \in {"operation", "timers"}
  /\ parked' = TRUE
  /\ Quiet
  /\ UNCHANGED <<job, at, owners>>

(* The first arm of every wait, biased, is the requesting realm's token.   *)
WaitCancelled(o) ==
  /\ parked /\ job.owner = o /\ token[o]
  /\ parked' = FALSE
  /\ Quiet
  /\ UNCHANGED <<job, at, owners>>

(* What it waited for arrived, or its own deadline passed.                 *)
WaitAnswered(o) ==
  /\ parked /\ job.owner = o /\ ~token[o]
  /\ parked' = FALSE
  /\ Quiet
  /\ UNCHANGED <<job, at, owners>>

(* The script calls close(): a flag the epilogue reads.                    *)
CloseWorker(o) ==
  /\ Running(o) /\ at \in {"operation", "timers"} /\ Role = "worker"
  /\ closing' = [closing EXCEPT ![o] = TRUE]
  /\ UNCHANGED <<thread, lifetime, reports, tasks, realm, inbox, booted, tail,
                 entries>>

(* run_job's catch_unwind: the panic is reported as the owner's and ends   *)
(* it; the job answers None.                                               *)
JobTraps(o) ==
  /\ Running(o)
  /\ Trapped(o)
  /\ Return
  /\ Quiet
  /\ UNCHANGED <<parked, tasks, realm, flags, tail, entries>>

(* No realm could be made: the Open row, which ends the owner.             *)
OpenFails(o) ==
  /\ Running(o) /\ at = "start"
  /\ Terminal(o, "failed")
  /\ Return
  /\ Quiet
  /\ UNCHANGED <<parked, tasks, realm, flags, tail, entries>>

(* The realm is furnished, and its root or boot module starts to load,     *)
(* unless the view was released meanwhile.                                 *)
Furnished(o) ==
  /\ Running(o) /\ at = "start"
  /\ Role = "page" => ~token[o]
  /\ Goes("operation")
  /\ Quiet
  /\ UNCHANGED <<parked, owners>>

(* A page finds its view released, where it furnishes the realm, where its *)
(* boot or its entry failed, or as it applies a burst: it ends, and there  *)
(* is nobody to report to.                                                 *)
Released(o) ==
  /\ Running(o) /\ at \in {"start", "operation"} /\ job.kind # "dispose"
  /\ Role = "page" /\ token[o]
  /\ End(o)
  /\ Return
  /\ Quiet
  /\ UNCHANGED <<parked, reports, tasks, realm, flags, tail, entries>>

(* A page's StartupFailed out of its JavaScript, its boot module's or the  *)
(* entry's.                                                                *)
StartupFails(o) ==
  /\ Running(o) /\ at = "operation" /\ job.kind # "dispose"
  /\ Role = "page" /\ ~token[o] /\ ~booted[o]
  /\ Terminal(o, "failed")
  /\ Return
  /\ Quiet
  /\ UNCHANGED <<parked, tasks, realm, flags, tail, entries>>

(* The epilogue starts with the due timers, which close() has discarded.   *)
ToTimers(o) == Goes(IF closing[o] THEN "rest" ELSE "timers")

(* The realm is stored.  An owner that ended while its opening job was     *)
(* parked gets neither tasks nor an epilogue, and a page no worker inbox.  *)
Opens(o) ==
  /\ Running(o) /\ at = "operation" /\ job.kind = "open"
  /\ realm' = [realm EXCEPT ![o] = "open"]
  /\ \/ /\ ended[o]
        /\ Return
        /\ UNCHANGED <<tasks, inbox>>
     \/ /\ ~ended[o]
        /\ ToTimers(o)
        /\ inbox' = [inbox EXCEPT ![o] = Role = "page"]
        /\ IF Role = "page" THEN MaySpawn(o) ELSE UNCHANGED tasks
  /\ Quiet
  /\ UNCHANGED <<parked, lifetime, reports, booted, closing, tail, entries>>

(* The operation returns.  The epilogue of an owner that has ended is      *)
(* nothing; otherwise the due timers run first.  A disposal job has none.  *)
OperationReturns(o) ==
  /\ Running(o) /\ at = "operation" /\ job.kind # "open"
  /\ IF job.kind = "enter" /\ ~ended[o] THEN ToTimers(o) ELSE Return
  /\ Quiet
  /\ UNCHANGED <<parked, owners>>

(* The rest of the epilogue, in its parts, for an owner that has not ended *)
(* under its due timers.                                                   *)

(* A worker that called close() reports Closed and ends.                   *)
Closes(o) ==
  /\ closing[o]
  /\ Terminal(o, "closed")
  /\ UNCHANGED <<queue, pushed, tasks, booted, entries>>

(* What a page's commit decided is queued as entries of their own.         *)
Posts(o) ==
  \/ UNCHANGED <<queue, pushed, entries>>
  \/ /\ Role = "page"
     /\ Count(o)
     /\ Push(NewJob(o, "enter", NoTask))

(* A page's boot module rejected: StartupFailed, which ends it.            *)
BootRejected(o) ==
  /\ Role = "page" /\ ~booted[o]
  /\ booted' = [booted EXCEPT ![o] = TRUE]
  /\ Posts(o)
  /\ Terminal(o, "failed")
  /\ UNCHANGED tasks

(* The boot report, the loads and settles spawned, the next deadline.      *)
Settles(o) ==
  /\ ~closing[o]
  /\ \E finished \in BOOLEAN :
       booted' = [booted EXCEPT ![o] = booted[o] \/ finished]
  /\ Posts(o)
  /\ MaySpawn(o)
  /\ \E armed \in BOOLEAN : deadline' = [deadline EXCEPT ![o] = armed]
  /\ UNCHANGED <<token, ended, reports>>

(* Mutant of Epilogue: the latch is not read again after the timers.       *)
EpilogueUnlatched(o) ==
  /\ Running(o) /\ at \in {"timers", "rest"}
  /\ Closes(o) \/ BootRejected(o) \/ Settles(o)
  /\ Return
  /\ UNCHANGED <<mode, parked, realm, inbox, closing, tail>>

Epilogue(o) ==
  /\ Running(o) /\ at \in {"timers", "rest"}
  /\ \/ /\ ended[o]
        /\ UNCHANGED <<queue, pushed, lifetime, reports, tasks, booted, entries>>
     \/ ~ended[o] /\ (Closes(o) \/ BootRejected(o) \/ Settles(o))
  /\ Return
  /\ UNCHANGED <<mode, parked, realm, inbox, closing, tail>>

-----------------------------------------------------------------------------
(* The thread has returned.                                                *)
Over == mode = "over" /\ UNCHANGED vars

TaskStep(o, t) ==
  \/ QueueBoot(o, t) \/ QueueEntry(o, t) \/ Resume(o, t) \/ ResumeBoot(o, t)
  \/ TaskReturns(o, t) \/ TaskPanics(o, t) \/ Join(o, t)

TailStep(o) ==
  \/ Serve(o) \/ ServeEnds(o) \/ ReapEnds(o)
  \/ DisposeAgain(o) \/ DisposeEnds(o) \/ TailEnds(o)

ThreadStep ==
  Notified \/ Drained \/ MainFinished \/ PopLive \/ PopDispose \/ PopRelease

(* The running job goes on towards its return.                             *)
Returns(o) ==
  \/ OpenFails(o) \/ Furnished(o) \/ Released(o) \/ StartupFails(o)
  \/ Opens(o) \/ OperationReturns(o) \/ Epilogue(o) \/ JobTraps(o)

JobStep(o) ==
  \/ Park(o) \/ WaitCancelled(o) \/ WaitAnswered(o) \/ CloseWorker(o)
  \/ Returns(o)

Next ==
  \/ ThreadStep
  \/ \E o \in Owners : HostCancels(o) \/ TailStep(o) \/ JobStep(o)
  \/ \E o \in Owners, t \in Tasks : TaskStep(o, t)
  \/ Over

Spec == Init /\ [][Next]_vars

(* The scheduler polls what is woken and the top loop pops what is queued. *)
(* A wait whose token is cancelled ends; a script, between its waits, does *)
(* not run forever; a view's disposal is answered (see WorkerLife).        *)
(* Nothing is assumed of what a wait waits for.                            *)
Fairness ==
  /\ WF_vars(ThreadStep)
  /\ \A o \in Owners :
       /\ WF_vars(Serve(o)) /\ WF_vars(ServeEnds(o)) /\ WF_vars(ReapEnds(o))
       /\ WF_vars(DisposeEnds(o)) /\ WF_vars(TailEnds(o))
       /\ WF_vars(WaitCancelled(o))
       /\ SF_vars(Returns(o))
       /\ \A t \in Tasks : WF_vars(Join(o, t))

FairSpec == Spec /\ Fairness

-----------------------------------------------------------------------------
(* A job left in the queue while the top loop is parked has its wake       *)
(* stored: a push during a drain or a job's own wait is never slept on     *)
(* (JsThread.pushed).                                                      *)
NoLostWake == mode = "poll" /\ queue # <<>> => pushed

(* A realm that has ended fires no timer: no epilogue re-arms the deadline *)
(* its end withdrew, not even one whose timers parked while a task ended   *)
(* the owner (Lifetime::end, epilogue steps 4 and 15).                     *)
DeadlineWithdrawn == \A o \in Owners : ended[o] => ~deadline[o]

(* Past the reap no task of the owner exists, so the owner's own task is   *)
(* its last holder: nothing is spawned behind the reap, by an entry that   *)
(* was parked across it or by the job that opens the realm.                *)
ReapIsComplete ==
  \A o \in Owners : tail[o] \in {"dispose", "release", "done"} => NoTasks(o)

(* The release is the last job of its owner: nothing of the owner's is     *)
(* queued behind it, and nothing once it has run, so no entry finds a      *)
(* realm that is gone and none is under the release (run_owner).           *)
ReleaseIsLast ==
  /\ \A i, k \in DOMAIN queue :
       queue[i].kind = "release" /\ i < k => queue[k].owner # queue[i].owner
  /\ \A o \in Owners : realm[o] = "released" => ~\E j \in Outstanding : j.owner = o

(* One end is one report: StartupFailed, Failed or Closed at most once and *)
(* a panic at most once, whichever tasks and jobs met it.                  *)
OneReport ==
  \A o \in Owners : \A i, k \in DOMAIN sent[o] :
    (sent[o][i] = "panicked" <=> sent[o][k] = "panicked") => i = k

(* An end that came first is final: an owner that has ended reports no     *)
(* failure and no close of its own afterwards, only a panic                *)
(* (epilogue steps 1, 4 and 6; Page::open_realm; load_entry).              *)
QuietAfterEnd ==
  [][\A o \in Owners : ended[o] =>
       terminal_reported'[o] = terminal_reported[o]]_vars

(* A panic of a task is never lost: an owner whose realm is released has   *)
(* reported every payload one of its tasks left in the set.                *)
PanicIsReported ==
  [][\A o \in Owners, t \in Tasks :
       tasks[o][t] = "panicked" /\ tasks'[o][t] # "panicked"
         => "panicked" \in {sent'[o][i] : i \in DOMAIN sent'[o]}]_vars

(* Shutting down needs nothing from the embedder: once every owner's token *)
(* is cancelled, every owner is reclaimed and released, though a job is    *)
(* parked on an answer that never comes.                                   *)
ShutdownCompletes ==
  (\A o \in Owners : token[o]) ~> (\A o \in Owners : tail[o] = "done")

(* What these rest on.  An end withdraws the deadline with the latch, and  *)
(* the owner's own task is past its wait only for an owner that has ended. *)
IEnded ==
  \A o \in Owners :
    /\ ended[o] => token[o] /\ ~deadline[o]
    /\ tail[o] \notin {"unserved", "serve"} => ended[o]

(* Nothing runs beside a job that has not begun its JavaScript.            *)
IStart == job # NoJob /\ at = "start" => ~ended[job.owner] /\ ~parked

(* The tail awaits each job it queues, so the ones queued name its place.  *)
ITail ==
  /\ \A j \in Outstanding :
       j.kind \in {"dispose", "release"} => tail[j.owner] = j.kind
  /\ \A o \in Owners :
       /\ realm[o] = "released" => tail[o] \in {"release", "done"}
       /\ inbox[o] \/ tail[o] = "dispose" => Role = "page"

(* Nothing of an owner exists before its own task first runs.              *)
IUnserved ==
  \A o \in Owners : tail[o] = "unserved" =>
    NoTasks(o) /\ ~\E j \in Outstanding : j.owner = o

(* A latch is spent exactly when what it guards was sent.                  *)
IReports ==
  \A o \in Owners :
    /\ panic_reported[o] <=> \E i \in DOMAIN sent[o] : sent[o][i] = "panicked"
    /\ terminal_reported[o] <=> \E i \in DOMAIN sent[o] : sent[o][i] # "panicked"

(* The inductive invariant: together they are kept by every step.          *)
IInv ==
  /\ IEnded /\ IStart /\ ITail /\ ReapIsComplete /\ ReleaseIsLast
  /\ IUnserved /\ IReports /\ OneReport

(* The promise of OwnerLife: the stack is the running job's owner.         *)
Life(o) ==
  IF realm[o] = "released" THEN "released"
  ELSE IF ended[o] THEN "ended" ELSE "live"

Promise == INSTANCE OwnerLife WITH
  Disposing <- IF Role = "page" THEN Owners ELSE {},
  Nobody <- NoJob,
  life <- [o \in Owners |-> Life(o)],
  stack <- IF job = NoJob THEN NoJob ELSE job.owner

ImplementsOwnerLife == Promise!Spec
=============================================================================
