# lynx-vello in TLA+

A verification project for the engine of `lynx-vello`: TLA+ modules translated
from the Rust and TypeScript of the repository, TLC configurations that check
them on small instances, and theorems about them that TLAPS checks for every
instance. Paths below are relative to `src/crates/bobcat-core/src/` unless they
begin with another directory of the repository.

## 1. The system

`lynx-vello` runs Lynx pages natively and in the browser. An embedder's thread
owns a `LynxGroup`, its `LynxView`s and their `Painter`s; `bobcat-main` runs the
main-thread JavaScript realm of every view of the group and the document they
change; `bobcat-workers` runs the workers' realms; `bobcat-alarm` (in the
browser only) is the timer thread. `terminus` is the document, its style, layout
and scrolling, `seldon` the layout algorithms, `bobcat-resources` the loader,
cache and image decoder, `quickjs-rust-bridge` the JavaScript engine.

### 1.1 Components, their state and their operations

| Component | State | Operations | What makes it correct |
| --- | --- | --- | --- |
| JavaScript thread (`jobs.rs`) | job FIFO, stored wake, scheduler of tasks | push, drain, wait (a job parks, tasks run), run | one job on the stack at a time; no job is slept on |
| Owner lifetime (`lifetime.rs`) | task set, token, ended latch, two report latches, deadline and checkpoint watches | spawn, end, serve, reap, run_job, serve_clock | an end is immediate and final; every panic is reported once; the clock waits for the right instant |
| Realm owner (`realm/owner.rs`, `realm/policy.rs`) | realm cell, booted flag | enter, epilogue, terminal, trapped, run_owner, after_end | nothing happens to an ended realm but its tail; the release is last |
| Page (`main/page.rs`) | command and event receivers, frame post due, acknowledgement due | open_realm, consume_commands, apply, dispose | a frame is acknowledged when it shows what was sent before it |
| Link and painter (`link.rs`, `paint/lib.rs`, `view/lib.rs`) | mailbox, counted sender, published frame, seat | attach, detach, pass, begin_frame, host calls | posts coalesce without loss; scroll precedes input |
| Workers, creator's side (`main/workers.rs`, `main/runtime/lib.rs`) | live senders, sources, trap flag | createWorker, start, post, terminate, dispatch_worker_event | a worker's end is reported once and is heard |
| Worker thread (`background/`) | serve table, held posts, root module | serve_workers, boot, consume_messages, end, report_thread_trap | posts in order; an answer reaches a boot that awaits it |
| Futures (`future.rs`, `future.ts`) | pending, settle requests; Future objects, conversions | register, wait, then, settle, deliver | each Future gets its own outcome, once |
| Timers (`timers.rs`, `timers.ts`) | armed table, heap, nesting; callbacks by id | setTimer, clearTimer, take_due, run_due_timers | cleared is cleared; the clamp holds; the earliest is published |
| Alarm (`alarm.rs`) | arrivals, heap, slots, count of cancellations | register, poll, drop, fire, sweep | no wake is lost between threads and clocks |
| Background thread of a page (`main-thread-runtime.ts`, `background-thread-runtime.ts`, `main/page.rs`) | where each message waits, who knows the thread has ended, the disposal | connect, sendToBackground, receiveMessage, disposeBackground, dispose | what the page says arrives once and in order, its clean-up last; an ended page is released |
| Frames and ShadowRealm children (`frame.ts`, `realm/child.rs`, `main/runtime/lib.rs`) | a frame's generation and its card, the cards' pending work, exposure records | load, boot, reset, dispose, retire, release_unneeded | a card lives while it is busy and goes with its frame; its last record is posted |
| Host table (`link.rs`, `view/lib.rs`, `animation-frame.ts`) | FrameDemand: addresses, demand bits; callbacks by id | notices, pump, is_pending, vsync, present | a frame that was asked for comes; an address is dropped only when nobody hears |
| Synchronous loads (`require.rs`, `fetch.rs`) | one wait each | require, fetchResource, style sheets | the token ends every wait |
| Performance (`performance/`) | pipelines, entry queues, monitors | open, mark, bind, complete, deliver | bounded queues, a wake that is owed is given |
| Resources (`bobcat-resources`) | image table, bitmap cache, decode permits, jobs; disk and HTTP caches | request, refine, decode, evict, retain | one job per source, everyone who asked is told, what is drawn stays |
| Scroll containers (`terminus/src/scroll`, `terminus/src/painter`) | document: offset, pending request, anchor adjustments; painter: live offset, fling, glide, wheel burst, last request handled | request, adjust, adopt, commit; rebase, drag, wheel, tick, publish | a script's scroll is not undone by a post it crossed; screen and document come to agree |
| terminus, seldon | tree, styles, layout and its cache, scroll trees | mutate, flush, layout, scroll, snap | the incremental result is the full one |
| Capture server, CLI, browser host | one page at a time, its timeouts | capture, serve, pump | a request is answered once |

`PROJECT.json` lists them all with their sources and their status.

### 1.2 How they interact

* *Embedder to main*: one FIFO of commands, counted by the sender
  (`CommandSender`) so that a frame post can name "all I sent before", and a
  mailbox beside it (`ScrollMailbox`) whose posts coalesce under one marker
  command. *Main to embedder*: published state read under a lock, and notices.
* *Main to workers*: `WorkerCommand::Start` on the thread's channel, a message
  channel per worker; *workers to main*: one event channel per page. The close of a
  channel is a message too: it is how a release ends the workers.
* *Within a thread*: tasks await and route; jobs are the only place JavaScript
  runs. A job may park in a synchronous wait, under which every task and no job
  of the thread runs. Between realms of one runtime the promise-job queue is
  shared: one realm's checkpoint runs another's continuations.
* *Owner to its clock*: two watches, a deadline and a checkpoint generation.
* *Page to its background thread*: one message channel each way, over which two
  JavaScript runtimes keep a protocol of their own: initialize, messages held back
  until the other's script has settled, `dispose` and its answer.
* *Engine threads to the embedder's table*: notices on the view's channel, read by
  `pump`; the painter reads the table they fill, and an address in it is weak.
* *Painter and document, of a scroll container*: each writes its own copy of the offset. The
  document's frames carry its offset, the sum of its adjustments and a request with a serial;
  the painter's posts carry its offset and the serial and the sum it has seen.
* *Views to the resource host*: requests under one lock, jobs on an executor, and
  completions applied in the embedder's turn.
* *Engine threads to the alarm thread*: a list under a lock, `unpark`, one atomic
  state and one waker per registration, one counter.

### 1.3 What is hard

The hazards are listed at their lines in `PROJECT.json`. They come down to:
a task acting while a job of the same or of another owner is parked; state read
before a wait and used after it; an end that races an opening, an epilogue, a
panic or a disposal; coalesced posts and counted fences when the counter's owner
changes; a thread that traps while its creator sends; a shared promise queue that
arms timers nobody's epilogue has published; batches taken whole whose members
clear each other; ids reused; a lock-free handshake between two threads whose
clocks disagree; a message with four places to wait in, each emptied by somebody
else; a child that is let go of while its own fetch, record or thread is still to
answer; a table of weak addresses that is swept while what it addresses comes up;
a cache whose frame must stay under a budget that shrinks; an offset with two writers whose
words cross.

## 2. The modules

| Module | Models | Checked by | Proved in |
| --- | --- | --- | --- |
| `OwnerLife` | what a thread promises of its realms: the abstract specification | through `RealmOwner` | |
| `RealmOwner` | jobs.rs, lifetime.rs, realm/owner.rs; the page's and the worker's parts of an owner's life | `owner_view`, `threads` | `RealmOwnerProofs` |
| `FrameLink` | link.rs, paint/lib.rs, page.rs: commands, mailbox, acknowledgement | `link`, `link_handover` | `FrameLinkProofs` |
| `WorkerLife` | workers.rs, background/: a worker from both threads | `shared`, `waits` | `ScrollSyncProofs` |
| `Background` | main-thread-runtime.ts, worker.ts, background-thread-runtime.ts, the page's inbox and disposal | `shared`, `waits`, `background_unheard` | `ScrollSyncProofs` |
| `Frames` | frame.ts, frame-boot.ts, realm/child.rs, exposure delivery and nested pages of runtime/lib.rs | `owner_view` | `FramesProofs`, `FrameCardsProofs`, composed in `RealmOwnerProofs` |
| `HostTable` | FrameDemand of link.rs, view/lib.rs's notices, animation-frame.ts, performance/registry.rs's owed entries | `host_table` | `HostTableProofs` |
| `RealmClock` | serve_clock with the watches and the checkpoints of a shared runtime | `clock` | `AlarmProofs` |
| `TimerSchedule` | timers.rs with timers.ts | `owner_view` | `RealmOwnerProofs` |
| `FutureTable` | future.rs with future.ts and settle_future | `answers` | `FutureTableProofs` |
| `ImagePipeline` | bobcat-resources: images.rs, cache/memory.rs, executor.rs | `answers` | `FutureTableProofs` |
| `Alarm` | alarm.rs, one atomic operation a step | `alarm`, `waits` | `AlarmProofs` |
| `ScrollSync` | terminus: scroll/request.rs, scroll/anchor.rs, scroll/mod.rs, painter/; the adoption of posts in runtime/lib.rs | `shared`, `screen` | `ScrollSyncProofs` |

The MC modules give the constants TLC needs, the symmetry sets, and the runs of
several modules at once: `MCOwner` (RealmOwner beside TimerSchedule and Frames: what an owner
has inside), `MCThreads` (RealmOwner twice, once for each thread of a group), `MCShared`
(ScrollSync beside WorkerLife and Background: what a page has in common with another thread), `MCAnswers`
(FutureTable beside ImagePipeline), `MCWaits` (Alarm, WorkerLife and Background under
fairness), `MCClock` (RealmClock under names that can stand beside Alarm's), `MCFrameLink` and
`MCAlarm`. In a run of several, the parts share nothing the models keep: a variable
`runs` says which of them takes the steps, and the others stand still in their first
state. Nothing is claimed about their interleaving; they share a run because they
answer one question. Where several modules share a run, the proof module of the first extends
the run's MC module and carries what is proved of each part over to the composition (`Composed`,
`Apart`, `CardsBeside`).

They compose by abstraction rather than by product: `RealmOwner` treats what a
script does as "parks, closes, fails, panics, spawns, arms"; the other modules each
take one of those and open it up, with the rest of the owner in one step.
`RealmClock` opens the deadline, `TimerSchedule` the timers behind it,
`FutureTable` the wait and the spawned settle, `WorkerLife` the messages between
two owners, `Background` what is said over them and the disposal the tail waits for,
`Frames` the realms inside a realm and the epilogue that frees them, `FrameLink` the
bursts a page enters for, `ScrollSync` the scroll entries among them, `HostTable` what the embedder's turn finds, and `Alarm` the
sleep `RealmClock` waits on.

### 2.1 RealmOwner

One thread with its owners. `queue`, `pushed`, `mode` are `JsThread`; `job`, `at`,
`parked` the job on the stack and how far its entry is: "start", the "operation",
the due "timers", the "rest". Per owner: `token` and `ended` (the signal any thread
may give and the latch this thread believes), the two report latches, `deadline`,
`tasks[o][t]` (each task's state, finished and not joined included), `realm`,
`inbox`, `booted`, `closing`, and `tail`, the owner's own task (`serve_view` or
`serve_worker`: serve, reap, dispose, release). `sent` is what was reported.
`Role` chooses the page's or the worker's hooks.

Actions: the host cancels; the tail serves, reaps (`ReapEnds` aborts and joins),
disposes and releases; a task queues an entry, resumes, returns, panics, is joined;
the top loop pops a job (live, disposing or releasing), and the job goes through
its operation, timers and epilogue, parks, or traps. `Epilogue` is the whole
guarded sequence with its re-reads of the latch.

`OwnerLife` says what the thread promises: a realm is entered only when nothing is
on the stack and only while it is live, or by its own disposal; a life goes from live
to ended to released, and a release has nothing of the owner on the stack.
`ImplementsOwnerLife` is the refinement, checked by TLC and proved.

### 2.2 FrameLink

The FIFO is the log of counted commands with the cursors `taken` and `ran`;
`ModuleCallback`s, which share the queue uncounted, are a number. `mailbox` is
`ScrollMailbox.posted`, `frame_due` and `pending_begin_frame` are the page's
cells, `frame` and `serviced` what is published. A painter's pass is a publish of its
scroll followed by sends one by one; `Attach` and `Detach` hand the seat over.
`AckMeansApplied` is the heart: an acknowledged post stands for every command its
sender had sent, run and shown.

### 2.3 WorkerLife

The four channels between the two threads, what the creator keeps (`live`,
`sources`), and per worker its task, root module, held posts and jobs. `Aborts` is
the build: natively a panic unwinds into `finish_worker_task`, in the browser it
takes the thread and `report_thread_trap` tells everyone. The document's own race
(`src/docs/browser-wasm.md`: a Start nobody read) is the exception `Unread` in
`EndIsHeard`.

### 2.4 Background

The page's life is `view`; `burst` holds what its consumer took off `events` and has
not delivered. The main thread's runtime keeps whether it is connected, its `Worker`
handle, `ended_known` and the disposal. A message is in one of four places: with the
sender (`pending`), in `inbox`, behind the entry script (`waiting`), or `handled`, and
`HandshakeHolds` says of the four together that they are what was sent, in order, and
that the clean-up of a disposal is after all of it. The actions are those of the two
runtimes (`Send`, `Connect`, `ConnectRefused`, `DestroyLifetime`, `Hear`; `Take`,
`EntrySettles`, `Say`, `Stop`), of the page (`Consume`, `Deliver`, `DropBurst`, `End`,
`BeginDispose`, `DisposeHears`, `Release`).

### 2.5 Frames

The realms of one page form a chain, as each model realm has one frame: realm 0 is the
page's, realm c the child made for the c-th card. Inside one JavaScript call the
handlers call one another synchronously, so `stack` is the call stack, one handler a
step; promise jobs wait in `jobs`, and an entry of the owner stays open until both are
empty and ends in the `Epilogue`, which releases every child that nothing needs
(`Releasable`). Application code (`App`) may write `src`, insert and remove between any
two handlers where a callback of its own could run. `changes` and `taken` are the
exposure records before and in a delivery.

### 2.6 HostTable

`notices` is the view's channel, `table` and `bits` the two halves of FrameDemand. Per
worker: whether its creator holds it, whether its inbox is open, its root script and
its consumer's hold. Per realm: the callbacks of animation-frame.ts, by id, with the ids
`__BobcatBeginFrame` read up front. `owed` is the length of a worker's queue of entries and
`wakes` who is owed a word. The three threads' actions are `Pump...`, `Present`,
`IsPending` and `Vsync` (embedder), `Worker(w)`, and `Script(r)`.

### 2.7 ImagePipeline

`entries` with `waiters` and `refining` is the table of images; `bitmaps`, `older`, `pinned`
and `budget` the cache, where `older` is the order the `last_used` stamps make and `Victims`
says what `trim` takes one after the other; `jobs` and `permits` the
executor, each job in the stages bytes, permit, decode, done; `completions` the channel
and `turn` what a service took from it. `asked` and `told` count, for each view and name,
what was requested and what was reported.

### 2.8 RealmClock, TimerSchedule, FutureTable, Alarm

`RealmClock` has the clock task of each realm (`clock`: at the top of its loop, in
the `select!`, awaiting a settle) and the thread's jobs in three steps, since a park
may fall between any two. A timer is its deadline; the checkpoint generation is
kept as two flags per realm: its receiver has something to read, and what it would
read is not the generation its own entry recorded.

`TimerSchedule` has both halves of the timers: the host's `armed` and `order` (the
heap with its leftovers) and the realm's `scheduled`. `batch` is what `take_due`
took. `cleared` and `streak` are history.

`FutureTable` names an outcome by its operation, so that "whose" can be asked. A
job waits, times out, converts, returns; `settle_future` tasks and their deliveries
overtake one another. `LastId` stands for `u32::MAX`.

`Alarm` has each Sleep's place in its poll or drop, the slots, and the alarm
thread's program counter, with the two clocks `skew` apart.

### 2.9 ScrollSync

The document's side is `doc` (offset, `shift`, the sum of the anchor adjustments, whether a
commit is due, whether the offset has moved of itself in this entry, whether the container
counts as scrolling), the `pending` request with its `serial`, and `frame`, what was
committed last. The painter's side is one record, `ScrollIntents`: the frame's slot it works
on and whether it has yet to rebase on it, the `live` offset where that differs, the last
request `handled`, the shift `applied`, who holds the container and what glides there. Its
helpers (`Rebased`, `Dragged`, `Wheeled`, `Ticked`, ...) take that record and answer it moved
on, as the methods of `ScrollIntents` do; a pass is a `PollLink` and one of `Drag`, `Wheel`,
`Release`, `Draw`, which publishes. The main thread's actions are `RequestScroll`, `Layout`,
`AdoptPosted` and the `Epilogue` that commits. `box` is the container's place in the
mailbox, one entry however many were posted; when its marker is reached is left open, so
`FrameLink`'s order of commands and scroll is allowed with every other. `told` and `standing`
are history: the last post made, and an instant request that nothing has moved the container
since.

## 3. The runs

| Run | Question | Bounds |
| --- | --- | --- |
| `owner_view` | is a wake lost, a task left past the reap, a timer armed past the end, an end or a panic reported twice or never? and beside it: do the halves of the timers agree, is cleared cleared, is the clamp kept; are cards kept while they are busy and their frame's waiters told? | 1 view, 3 tasks, 3 entries; 3 timers in 4 turns, delays 0 and 1, clamp after 1, 3 instants; 3 cards, 2 deep, 2 sources, 2 acts of the application |
| `threads` | is the release last, is the promise of `OwnerLife` kept on both threads, and does every owner end up released? | 2 views with a task each, opening jobs only; 1 worker with 2 tasks and 2 posts |
| `link` | are coalesced posts neither lost nor acknowledged early, and is every post serviced or its view gone? | 1 painter, 3 commands, 2 posts, 1 scroll |
| `link_handover` | *violation*: see section 6 | 2 painters, each perhaps attached elsewhere before (`Earlier`), 3 commands, 2 posts |
| `shared` | is the document where the painter last said, does a script's scroll stand, is a request always on its way; are workers' ends told once, their messages in order where a panic aborts; and does what the page says to its background thread arrive in order, the end of it last? | offsets 0 and 1, window 2, 2 requests, 2 steps of drags and wheels, 1 layout; 2 workers, 2 posts each; 3 messages sent and 2 said |
| `clock` | does a waiting clock task wait for the right instant, does a settle pile up, do timers fire, do two realms come to rest? | 2 realms, 1 entry, 2 timers, 3 instants |
| `alarm` | is a wake lost, a registration unseen, a wait ended early? | 2 futures, 2 tasks, skew -1, 0, 1, 3 instants |
| `answers` | is everyone who asked told, once and what he asked? | 3 futures with 3 ids; 2 views, 2 sources, 1 document, full size 2, budgets 2 and 3, 1 permit, 3 acts |
| `waits` | does what is waited for come: the sleep's end, a worker's end, a post's delivery, a page's release? | 1 sleep with 2 tasks; 1 worker, 2 posts, unwinding; 3 messages sent and 2 said |
| `host_table` | is a frame that was asked for owed by somebody, is nobody missed who is to be woken, does the frame come? | 1 worker, 2 requests, 3 acts, a queue of 1 |
| `background_unheard` | *violation*: see section 6 | 3 messages sent, 2 said |
| `screen` | *violation*: see section 6 | offsets 0 and 1, window 2, no request, 2 steps, 2 layouts |

The properties of each run, in `PROJECT.json`, are stated with a comment where they are
defined. The type invariants of `RealmOwner`, `RealmClock` and `ScrollSync` are proved rather than run;
that of every other module is the first conjunct of one of its properties
(`NothingStranded`, Alarm's `NoLostWake`, `HandshakeHolds`, `CardsAreKept`, `FrameIsOwed`,
`EveryoneIsTold`, `WorkersAreTold`, the halves of `TimersHold` and `OutcomesArrive`), so that no
mutant has to break a type. The `IInv` of each proof was checked by TLC on these
instances before it was proved.

Why these bounds. The interesting cases of an owner need a job on the stack, one
parked task and one to panic or spawn: three tasks, and a second owner for what
happens under a parked job. A frame post is merged, overtaken by a second and
fenced by commands on both sides of it with two posts and three commands. A
worker's hazards are between its own channels and its thread's trap; a second
worker is there because the trap treats each of its table in turn. Two realms are
enough for one to run the other's promise jobs. Three timers give a repeat, a
one-shot and a timer that clears one of them, with the clamp lowered from 4 levels
and 4 ms to one of each. Three cards are a frame's first, the one that replaces it and
one nested in either; two acts write and remove, or remove and insert again, around
what the first load started. Three messages are `initialize`, one that overtakes nothing
and one that must wait. Two callbacks, of which one cancels or files the other, and
three acts are what a frame needs to be asked for, withdrawn and asked for again. Two
sources and a document contend for one permit and for a cache that holds two of the
three; with a fourth act the run no longer ends in time. A scroll container needs two
offsets to be in two places, two steps to go and come back or to be flung, and two requests for
a post to answer the one before; a layout may bring in what moves the anchor by one more. With
a window of 2 a frame at 0 is left where it is by a move to 1 and one at 1 is centred again by a
move to 0, so both happen. Every bound is a constant in a
guard: of counters (`MaxEntries`, `MaxSent`, `MaxPosts`, `MaxArms`, `MaxActs`, `MaxRequests`, `MaxSteps`,
`MaxLayouts`), never of a
step the code must take. `MaxNow` stops the clock; its last instant stands for all later
ones, which is written out in `Alarm` where a park's timeout could fall behind it.

Deadlock is checked in `owner_view`, `threads`, `link`, `shared`, `clock` and `alarm`. Their
specifications have one stuttering action (`Over`, `Quiet`, `Gone`) that is enabled only when
everything the model is about is finished, so a thread that hangs short of that is a
deadlock TLC reports; a page of `Frames` may rest whenever it has nothing to do, which
`MCOwner` writes out. It is not checked in the other runs: an image pipeline with no
more requests, a page that is never ended and a table nobody asks anything of may
stop.

Mutants: each property of each passing run is broken by a plausible bug in one
mapped definition, written beside it (an unread latch, a missed notification, a
swapped order, a forgotten removal, an off-by-one).

## 4. Fairness

* A task that is woken is polled and a queued job is popped: tokio's scheduler and
  `JsThread::run` (weak fairness).
* Jobs leave one FIFO, so a particular job is not overtaken for ever: strong
  fairness of a burst's entry (`FrameLink`), and of a delivery (`FutureTable`), where the
  model lets other entries be chosen between.
* A script does not run for ever: a job returns if again and again it could
  (`Returns` in `RealmOwner`, `Return` in `FutureTable`). A job parked in a wait is not
  a script that runs: nothing is assumed of what a wait waits for, except that a
  cancelled token ends it.
* `RealmOwner` takes a view's disposal to be answered; `WorkerLife`, that an embedder
  drops or calls every callback it was given. Neither is the engine's to
  guarantee.
* `Background` lets each thread's queued entries and messages run; it assumes nothing of the
  application, which may post, end or fail or do none of it.
* `HostTable` takes the embedder to pump when it was woken and to give a vsync while the
  view says it animates, which is what `bobcat-cli` and the browser host do.
* `ImagePipeline` takes the executor to run its tasks and the embedder to take the turn a
  completion woke it for.
* `Alarm` assumes that a task is polled when it was woken and at no other time.
* Time passes (`Tick`) where a property waits for it.

## 5. What is proved

All theorems hold for every value of the constants that satisfies the named
assumptions of the modules (finiteness of `Tasks`, distinctness of the "no"
values, naturals for bounds).

**RealmOwnerProofs.** `TypeCorrect`, then `Invariance`: `IInv` is inductive together with
`TypeOK`. The properties are not inductive alone: that past the reap no task exists
needs that nothing of an owner runs at "start" once it has ended (`IStart`), that a tail's
job in the queue says where the tail is (`ITail`), and that nothing exists of an owner
that was never served (`IUnserved`); that one end is one report needs the latches to
mirror what was sent (`IReports`). One lemma per action, one step per conjunct. From it:
`DeadlineIsWithdrawn`, `ReapedForGood`, `ReleasedLast`, `ReportedOnce`; with an invariant of its
own `NeverSleepsOnWork`; the action properties `QuietForGood` and `PanicsAreReported`; and
`Implementation`, that every step of the thread is a step of `OwnerLife` or a stutter.

**The clock, in AlarmProofs.** About the instance `K` of `RealmClock` that `MCClock` makes and the
run `clock` checks, under its `ClockAssumption`. `ClocksTyped`, then `ClocksInvariance`: `KInv` says
that a published deadline is the earliest timer unless a checkpoint of another realm's has moved
it since (`KMatch`), that such a checkpoint is still to be read or has its settle out (`KTold`),
that what the clock task set its sleep to is what was published unless the watch says it moved
(`KArmed`), and that a settle that is out has its task waiting for it (`KOut`).
`NothingIsForgotten` and `OneSettleEach` follow.

**AlarmProofs.** `IInv` says that what a Sleep holds is its own and is in the state its poll takes it
for (`IHeld`), that the registry lists armed slots that are held and cancelled ones
(`ISlots`), that an armed slot is listed with a task to wake (`IArmed`), what the alarm thread
has claimed (`IFiring`), and that what is fired was due by its clock (`IDue`). `WakesAreKept` and
`WaitsAreServed` follow, for every number of futures and tasks and every skew; `Sleeps` is taken
to be finite.

**FutureTableProofs.** An id may be used again, so "its own outcome" is not obvious. `IInv` says that
an id is one Future's wherever it is written (`IIds`), that an operation on its way is in one
place (`IOnce`) and filed for its answer (`IWay`), and what a job that waits holds (`IWait`). It
rests on `ICounter`, that the counter is past every id in use, which holds under `EnoughIds`: no
more Futures than ids, 2^32 of them in the code. The comment in `future.rs` that claims more is
discussed below. `Arrivals` is `OutcomesArrive`.

**FrameLinkProofs.** Two inductive invariants. The first holds whoever paints: what is in the
mailbox has a marker on its way (`IMarker`), a command's scroll state is adopted or goes ahead of
it (`IMoved`, `IAhead`), a post that is held waits for commands that were sent (`IFence`), and
every post made is somewhere on its way or acknowledged (`IHeld`); `NothingIsLeft` and
`ScrollGoesFirst` rest on it. The second is for one painter: posts are made in the order of
their numbers (`IPosts`), a post that is held stands for all before it and what was taken of it
has happened (`ITaken`), and the published frame is one of the document's (`IFrame`).
`AcknowledgedIsApplied` follows, and `link_handover` shows why it says one painter.

**ScrollSyncProofs.** Each theorem has `ScrollAssumption`, naturals and distinct "no" values, as its
hypothesis; `MCShared` assumes it of its constants, where TLC evaluates it. `IInv` says whose word
is the last one. Nobody knows of a serial that was not given out (`ISerials`), the box holds what
was told last, rest included (`IBox`), a scroll of the document's own is unhandled until its
entry ends (`IMoved`), a frame already drawn is the one its adjustments are counted by
(`IFrames`), a request that stands agrees, adjustments aside, with everything made since it was
seen (`IStands`), and a request handled while still pending has its answer in the box
(`IPending`). `DocumentIsWherePosted`, `RequestsAreNotUndone`
and `RequestsAreNotLost` follow for every number of requests, steps and layouts, every range
and every window; `screen` shows what does not: that the painter ends there too.

**HostTableProofs.** What reaches the table does so in the order it was said, and that is what the
invariant is about: a realm's creation is ahead of all that is said of it (`CreatedFirst`), a
demand that is still wanted was asked for again behind each of its withdrawals (`Reasked`).
`IRoot` says what there can be of a realm from where its script is, `ITable` that a worker that can
be reached has its address in the table or on its way there, with no script running yet;
`IDemand` that the realm's own bit is what it said last, `IAsked` that a demand it takes for told
is somewhere on its way round. `FramesAreOwed` and `NobodyMissed` follow for every number of
workers, callbacks and records; `FramesComeAndGo` rests on fairness and stays with TLC.

**The workers, in ScrollSyncProofs.** About an instance `L` of `WorkerLife`. A worker's life is told in four channels, so the invariant says where each
word of it can be. What is posted to a worker is, in the order of its numbers and without a
gap, with the creator, in the inbox, held behind the boot or run (one sequence in several
places); its Start is sent once; nobody is told of a trap before the thread's flag is up; and
who was told to go is not among the live any more. `WorkersTold` and `NoStartBehind` follow for
any number of workers and posts, whichever way the build panics. `SharedWorkersTold` and
`SharedNoStart` are the same of the composition `shared` checks.

**The timers, in RealmOwnerProofs.** `TimersInvariance`: the heap names every armed deadline and
perhaps more, the realm's table and the host's agree on which ids there are, an id is fresh
when it is armed, and a timer's nesting level is the length of the chain that armed it while
that is below the clamp. `TimersAlwaysHold` and `ClearedForGood` follow for every set of delays
with a longest one, every clamp and however late a batch runs. It needs `ClampedNesting` to be
at least 1, the code's being 5: with 0 TLC refutes `TimersHold`.

**The background thread, in ScrollSyncProofs.** `BInvariance`: the inbox is what is left of the
opening, then the application's messages numbered on from what was handled, then `dispose` or
the end, if either; the clean-up runs at most once; what is on its way back tells the truth
of the thread that said it; and the handle is let go of only once the end is known. With the
order stated by numbers and positions no induction over the queue is needed. `Handshake` follows, and
`SharedHandshake` for the composition.

**The pictures, in FutureTableProofs.** What a view waits for is counted: `Owed` is how many loads,
refinements or reports of a name are to be answered, `Way` how many jobs, completions in the
channel and completions in the turn will answer one. The invariant (`PWays`) is that `Way` never
exceeds `Owed`, and equals it for every name whose task the platform did not refuse; the bound
is what makes it inductive, since an answer nobody is owed would take a later request's place.
With it go that a job is unique by kind, name and number (`PJobs`), that a refinement, also a finished
one, carries the size that was noted (`PSound`), that a permit is free or a decoding job's
(`PPermits`), and that the order of use is a strict total one of what is resident (`TypeCache`).
That a trim leaves nothing unpinned over the budget is argued from the least recently used
that stays: nothing open is older, so that it was spared says the rest fits (`Trimmed`).
`AnswersTold` and `AnswersKeepFrames` follow for any views, sources, sizes, budgets and permits.

**The frames, in FramesProofs and FrameCardsProofs.** The promises of `Frames` are about the state
between two JavaScript calls, and the handlers that keep them call one another: what holds between
calls is owed, within one, to what is still on the call stack. So the invariant, `CardsInv`,
says of every call, job, load, record and event what it may find. Its parts, and what each is for:

* *The core* (`Core`, in `FramesProofs`). `Shape`: which calls may lie on one another, so that
  what `owing` looks up stands above the `frames` it pays. `Resting`: between entries nothing
  runs. `Own`, `Life`, `Runs`, `Sourced`: calls, jobs and deferred calls name a live realm that has run, and a
  frame written to is not loaded or is about to be closed. `Tokens`: each load of a frame is a
  single token, which is a start on the stack, deferred behind a reset or queued, a
  fetch asked for or in flight, or the card it made; there is never more than one, and none for a load that was not
  begun. So a load is fetched once, starts once and makes one card at most. `Links`, `BootJobs`, `Flags`: what a frame takes for its
  card is that card of its present load, not let go of, and as alive as the frame; how far a disposal is.
* *Debts* (`Counts`, `OwedNat`, `BootOwes`, `Afters`, `Closes`). The code keeps counters: how many lists a
  frame owes before its reset (`owed`), how much a card waits for (`pending`, `frames`). Each is an
  equation: what a frame owes is the number of closes, disposals and lists on the stack that will
  pay it plus the cards let go of for it; what a card waits for is the number of its calls to arrive, plus
  its unflushed records, plus one if frames of its own are to report. A counter that is paid once too
  often or not at all breaks the equation in the step that does so.
* *Cards in their place* (`LetGoes`, `Keeps`, `Roots`): a card at work is the one its frame will let
  go of, or is being let go of already, and so is every node of one; at most one card's nodes lie under a frame,
  but for one that was loaded late. `FreshPage` and `NoOrphan` follow. That freeing stays
  clear of them is `Releasable`, the least set closed under what nothing refers to any more.
* *Last lists* (`Exposed`, `Flushes`, `Watches`, `Partings`): what the observers saw of a card and
  have not posted is in the changes, in the open delivery or in a flush that is queued ahead of
  whatever else that checkpoint runs, and a card let go of waits for it; a thread is asked to go only when its card
  waits for nothing. `LastListPosted` follows.
* *The view's end* (`Ends`): the page's frame is closed without an owed list, in one entry that
  finds its way down the whole chain; what has begun to end is closed under nesting.
* *Who will tell* (`Sound => AllTold`): a card that waits is alive, and what it waits for, a record, a frame's
  card or a thread's end, is somewhere that leads back to it. `WaitersAreTold` follows; `Sound` is its own exception
  (`Spoiled`), extended to the call that is about to bring it about.

`Does` first says of each action of `Next` which of twenty-nine updates it is (`StartStep`,
`CloseStep`, `DisposeStep`, ...), with the stack split at the call on top; each part is then kept by
each update, one lemma a part, which is why the two modules are as long as they are. Counting
is by finite sets of positions (`Count`, with its lemmas on joined stacks), as sums over a
stack by recursion would need induction. `CardsHold` is the invariant and `CardsPromise` the four promises,
for every number of cards, depth, set of sources and number of acts; the only hypothesis is `FramesAssumption`.
`CardsAlwaysKept` and `WaitersAlwaysTold`, in `RealmOwnerProofs`, are the same of the composition that
`owner_view` checks. The proof is what found that `NoOrphan` has to except all that nests in a late frame
(section 6). Before it was begun, TLC checked the parts, as they then stood, on four cards, three
deep.

Every safety invariant and every action property of a passing run is thereby a theorem, but for one: what
`WorkersKeepThePromise` says of the second thread's safety is `Implementation`, which holds for
either `Role`, and the rest of it is liveness. Only model-checked are the liveness properties
(`Everyone...`, `...Ends`, `...Released` and the other properties under fairness), since TLAPS does
not do fairness or `ENABLED` here. No theorem is about a recursively defined operator: `Depth` and
`Connected` of `Frames` are recursive functions, and the proofs hold whatever they answer.

## 6. What the runs found

* `link_handover`: a painter that attaches starts its post numbers from what has been
  serviced, not from what its predecessor sent. If the predecessor left a post
  unacknowledged, the newcomer's first post has that post's number and reads as
  serviced when the old one is, before the commands in front of it have run.
  `paint/lib.rs:391-394` describes the hazard and says the line prevents it.

* `background_unheard`: the page's consumer takes every event there is off its inbox and
  delivers them in one entry. Once the view has ended that entry delivers nothing, and one
  that was delivering stops at the next event: the rest of the burst is dropped. If the
  background thread's last word was in it, `Page::dispose` waits for a word nobody will say
  again, and the view is never released. `src/docs/destruction-runtime.md:27` says that a Worker
  already closed or failed completes the wait. `EndedIsReleased`, which `waits` checks, is the
  same with that burst excepted.

* `screen`: the painter drops its own offset when the frame it adopts has the same one
  (`ScrollIntents::rebase`), though the frame may have it by chance, from before the painter's
  last posts. A finger goes to 1 and back to 0; a frame from before either post makes the painter
  forget that it was moved; the frame of the first post then moves the screen to 1, and lifting
  the finger posts that. The document, which had gone on to commit 0 for the second post, adopts 1
  without a commit, since that is within half the way to the edge of what its frame covers, and
  the painter adopts the frame of 0. Screen and document differ until something else is
  committed. `src/docs/runtime-architecture.md:2202-2206` says the intents are what the screen
  shows and that one the frame equals "has served its purpose"; `painter/mod.rs:1398-1401` that the
  document holds the offset the screen shows.

Comments that say more than the code does; no run is spent on them, and the models
follow the code:

* `future.rs:133-136` says ids "never wrap onto a live future". `allocate_id` skips what
  `pending` and `settled` hold, and an operation that `settle_future` has taken is in
  neither until its delivery. A second registration under that id needs the u32 counter
  to go round; `LastId` is at least the number of Futures in `answers`, so the run stays
  below it.
* `alarm.rs:237-239` says a cancellation racing a sweep is counted for the next one. The
  cancellation of a registration made after this pass took the arrivals is in the count
  the sweep subtracts and not in the heap it walks. Only the accounting suffers: the
  count never goes below zero (`TypeOK` of `Alarm`), and the entry goes at its deadline.

* `main/runtime/lib.rs:4304-4309` says each card's background thread has its `dispose` queued
  ahead of the page's. A card that is exposed waits for its last exposure list before it asks,
  and the page asks meanwhile (`CardsFirst` of `Frames`, which fails).
* `main/runtime/lib.rs:3700-3703` says that a card let go of inside a listener sends its last list
  in the flush that follows its stop. If the listener is of the very delivery that has taken the
  card's disappearance, the card does not wait for it: `LastListPosted` excepts that card (`cut`).
* `main/tree/frame.rs:33-35` and `frame.ts` say a new load never meets the old card. A card already
  let go of whose script writes its own frame's `src` once more can make it (`late`;
  `CardsMeetNoOther`, which fails); `FreshPage` is the same with that frame excepted. What
  nests in the card it loads may run on with nobody to let go of it: when the background threads
  of both cards end, both are freed, and the card below them is disposed of by neither. `NoOrphan`
  excepts what nests under such a frame (`Belated`). The case takes four cards, three deep, and three acts,
  more than `owner_view` has; a run of `Frames` alone, of the part of those states in which a card loads
  late, showed that the exception has to reach that far down.
* `realm/child.rs:375-420`: a card whose background thread had ended when it was let go of is not
  busy, and is freed although its frame still waits for it; `WaitersAreTold` excepts it (`Spoiled`).
* `executor.rs:82-90` says itself that a task the platform refuses a thread is lost with its
  completion; `EveryoneIsTold` and `RequestsEnd` except it (`lost`).

Smaller: the documentation speaks of two synchronous waits; `require.rs`,
`main/runtime/lib.rs` and `main/style_sheets.rs` wait too, in the same form.

## 7. What is left out of the models

* `RealmOwner`: the release job's own panic; which of the non-ending reports a scene
  makes; ShadowRealm children, whose release `Frames` has. When an operation reads the token is anywhere in it,
  which allows more than the code does.
* `FrameLink`: one scroll container; `rest`, anchor shifts and scroll requests, which `ScrollSync`
  has; clock values; `FrameDemand`, which `HostTable` has; gestures. Callbacks and commands within one burst are not
  ordered against each other, which allows more than the code does.
* `WorkerLife`: a job is one step and an end reaps at once (that interleaving is
  `RealmOwner`'s); messages to the creator, which `Background` has for the page's own; Vsync and
  PerformanceReady, which `HostTable` has; memory samples; child realms' routes.
* `Background`: what the messages say; one connection of a page's life, as the code allows no
  second; ids of calls and their answers. A job of either thread is one step.
* `Frames`: one frame in each realm, so cards nest in a chain; a child's timers and unhandled
  rejections, which ride on its owner's; a fetch's bytes, of which only arrival and failure
  count; margins and areas of an exposure, which is an observation that comes or goes.
* `HostTable`: a realm's script between two calls of the engine; when an entry completes, and
  monitors; events to the embedder; a native call's arguments.
* `ImagePipeline`: source fetches, disk and HTTP caches, fonts; pixels, of which a size stands for
  both dimensions and bytes; more than one executor.
* `RealmClock`: equal deadlines collapse; the generation's wrap-around at 2^64.
* `TimerSchedule`: ids are not reused within the bound, which in the code takes 2^32
  arms; a due timer whose id was reused while its batch is still running would then
  run the wrong callback. The conversion of a delay (`requested_delay`) is done
  beforehand.
* `FutureTable`: `settled`, which within one call of the realm's is filled and emptied; a
  `wait` that asks for an id no longer pending, which throws and changes nothing.
* `Alarm`: starting the thread once and aligning its clock; spurious returns of `park`; the
  sweep's walk is one step, as each entry's state is read once and cancellations of
  different futures commute. Memory is sequentially consistent: each atomic is
  acquire/release and the waker is under its own lock, which orders the pair the race
  is about.
* `ScrollSync`: one container and one axis; the range and its clamps, so that an adjustment the
  painter clamps away is not lost here; snapping, bounce, wrap, chaining to an ancestor,
  auto-scroll, timelines; the painter's detaching and attaching; that a container is freed. That
  a request is answered in the end is stated as where it always is (`RequestIsOnItsWay`) and not
  under fairness: nothing in the engine makes an embedder draw.
* Not modelled at all: the components marked `not_modelled` in `PROJECT.json`, each
  with its reason: numeric algorithms (seldon, style, paint), format decoders and pure
  I/O (transports, source packages), bindings (QuickJS, browser), and those planned
  below.

The definitions stand for some three lines in a hundred of the repository's code. The
rest is for the most part sequential: layout, style and paint over floating-point trees, the
members of elements, parsers and decoders, bindings, tools and their tests. What the
project opens is the part where several actors meet.

## 8. The plan

Done, in this order: `RealmOwner` with `OwnerLife` and its proofs, since everything runs
under it; `FrameLink` and `WorkerLife`, the two protocols between threads; `RealmClock`
with its proofs, `TimerSchedule`, `FutureTable`, `Alarm`, the waits of a realm;
`Background`, the exchange a page's end waits for; `HostTable`, `Frames` and
`ImagePipeline`, what a realm has beside itself; the proofs of `Alarm`, `FutureTable`,
`FrameLink` and `HostTable`; `ScrollSync` with its proofs; the proofs of `WorkerLife`,
`TimerSchedule`, `Background` and `ImagePipeline`, and those of the compositions; the proof of
`Frames`.

Next, models:

1. The synchronous loads, and the fetches of `bobcat-resources` with its disk and HTTP
   caches.
2. seldon's layout cache and its invalidation.
3. The capture server's timeouts.
4. `ScrollSync` with a range, several containers in a chain and a painter that is replaced.

Next, proofs: those of the models above, as they come. Of what is modelled, liveness is left, which needs
a prover that does fairness.
