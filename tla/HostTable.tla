------------------------------ MODULE HostTable ------------------------------
(***************************************************************************)
(* The embedder's side of a view's realms: the table FrameDemand           *)
(* (link.rs:551-655) that the view's pump fills from the notices of the    *)
(* engine and the painter reads, and the three uses of the addresses in    *)
(* it: the display frame a realm asked for (animation-frame.ts), the       *)
(* performance entries a worker observes (performance/registry.rs) and the *)
(* answer to a native module's call.                                       *)
(*                                                                         *)
(* Three threads take part: the embedder's (Pump..., Vsync, Present,       *)
(* IsPending), bobcat-main and bobcat-workers.  An address is weak: it can *)
(* be used while the worker's creator keeps its sender (`held') and        *)
(* reaches somebody while the worker reads (`reading').                    *)
(***************************************************************************)
EXTENDS Naturals, Sequences, FiniteSets, SequencesExt

CONSTANTS
  Workers,     \* a view's workers
  Main,        \* the view's MTS realm
  MaxRequests, \* bound: callbacks filed in each realm
  MaxActs,     \* bound: what scripts ask for and entries made, in all
  MaxRecords   \* what an owed queue keeps (registry.rs, MAX_RECORDS)

ASSUME RealmAssumption == Main \notin Workers
ASSUME BoundAssumption ==
  MaxRequests \in Nat /\ MaxActs \in Nat /\ MaxRecords \in Nat \ {0}

Realms == Workers \cup {Main}
Ids == 1..MaxRequests

VARIABLES
  notices,    \* ViewNotice, from every engine thread to the view
  table,      \* the keys FrameDemand.workers has an address for
  bits,       \* the realms whose demand is set in it
  failed,     \* ViewState::Failed
  held,       \* workers whose sender their creator keeps
  reading,    \* workers whose inbox is open
  inbox,      \* [Realms -> what was sent and not read]
  background, \* which workers are background threads (rigid)
  root,       \* [Realms -> where its script is]
  let_in,     \* workers whose consumer holds nothing back any more
  put_off,    \* performance_held
  jobs,       \* [Realms -> the jobs its consumer queued]
  callbacks,  \* [Realms -> the ids that wait], of animation-frame.ts
  filed,      \* [Realms -> the last id given out]
  requested,  \* realms whose frameRequested is set
  in_frame,   \* realms inside __BobcatBeginFrame
  left,       \* [Realms -> the ids it read up front and has not come to]
  observing,  \* Inner.worker_types
  owed,       \* [Workers -> the length of its queue in Inner.owed_workers]
  wakes,      \* Inner.wakes
  stale,      \* the registry's generation is not the one pump last read
  acts,       \* how much of MaxActs is used
  dropped     \* workers a native call of which was dropped unanswered

view == <<notices, table, bits, failed>>
life == <<background, held, reading, root, let_in, put_off>>
frames == <<callbacks, filed, requested, in_frame, left>>
registry == <<observing, owed, wakes, stale>>
vars == <<notices, table, bits, failed, background, held, reading, inbox, root,
          let_in, put_off, jobs, callbacks, filed, requested, in_frame, left,
          observing, owed, wakes, stale, acts, dropped>>
ledger == <<acts, dropped>>

Notice ==
  [kind : {"created", "source", "wants", "wants none", "call"}, realm : Realms]
    \cup [kind : {"fatal"}, realm : {Main}]
Notify(kind, r) == notices' = Append(notices, [kind |-> kind, realm |-> r])
Act == acts < MaxActs /\ acts' = acts + 1
Tell(set, word) == [r \in Realms |-> IF r \in set THEN Append(inbox[r], word) ELSE inbox[r]]

(* A script runs in the realm.                                             *)
Runs(r) == root[r] \in {"running", "finished"}
(* Its address can be used, and somebody reads what is sent there.         *)
Reached(w) == w \in held \cap reading

TypeOK ==
  /\ notices \in Seq(Notice)
  /\ table \subseteq Workers /\ bits \subseteq table \cup {Main}
  /\ failed \in BOOLEAN
  /\ held \subseteq Workers /\ reading \subseteq Workers
  /\ inbox \in [Realms -> Seq({"vsync", "entries", "terminate"})]
  /\ background \subseteq Workers
  /\ root \in [Realms -> {"none", "opening", "booted", "asked", "fetching", "running",
                          "finished", "over", "forgotten"}]
  /\ let_in \subseteq Workers /\ put_off \subseteq Workers \ let_in
  /\ jobs \in [Realms -> Seq({"frame", "entries"})]
  /\ callbacks \in [Realms -> SUBSET Ids] /\ filed \in [Realms -> 0..MaxRequests]
  /\ requested \subseteq Realms /\ in_frame \subseteq Realms
  /\ left \in [Realms -> SUBSET Ids]
  /\ observing \subseteq Workers /\ owed \in [Workers -> 0..MaxRecords]
  /\ wakes \subseteq Workers /\ stale \in BOOLEAN /\ acts \in 0..MaxActs
  /\ dropped \subseteq Workers

Init ==
  /\ notices = <<>> /\ table = {} /\ bits = {} /\ failed = FALSE
  /\ background \in SUBSET Workers /\ held = {} /\ reading = {}
  /\ inbox = [r \in Realms |-> <<>>] /\ jobs = [r \in Realms |-> <<>>]
  /\ root = [r \in Realms |-> IF r = Main THEN "finished" ELSE "none"]
  /\ let_in = {} /\ put_off = {}
  /\ callbacks = [r \in Realms |-> {}] /\ filed = [r \in Realms |-> 0]
  /\ requested = {} /\ in_frame = {} /\ left = [r \in Realms |-> {}]
  /\ observing = {} /\ owed = [w \in Workers |-> 0] /\ wakes = {}
  /\ stale = FALSE /\ acts = 0 /\ dropped = {}

-----------------------------------------------------------------------------
(* The life of a worker, as far as its address goes.                       *)

(* WorkerOwner::start: the address is given to the view before the Start   *)
(* is sent; one that is refused drops the sender again.                    *)
Create(w) ==
  /\ root[w] = "none" /\ root[Main] # "over"
  /\ Notify("created", w)
  /\ \/ held' = held \cup {w} /\ reading' = reading \cup {w}
        /\ root' = [root EXCEPT ![w] = "opening"]
     \/ root' = [root EXCEPT ![w] = "forgotten"] /\ UNCHANGED <<held, reading>>
  /\ UNCHANGED <<table, bits, failed, background, inbox, let_in, put_off, jobs, frames, registry,
                 ledger>>

(* terminate(), or the collection of the handle: the sender goes behind    *)
(* the message.  A realm's release drops it without one.                   *)
LetGo(w) ==
  /\ w \in held
  /\ held' = held \ {w}
  /\ inbox' = IF root[Main] = "over" THEN inbox ELSE Tell({w} \cap reading, "terminate")
  /\ UNCHANGED <<view, background, reading, root, let_in, put_off, jobs, frames, registry, ledger>>

(* Its boot job: the root module of a background thread is built in, and   *)
(* any other worker's is asked of the host.                                *)
Open(w) ==
  /\ root[w] = "opening"
  /\ IF w \in background
       THEN root' = [root EXCEPT ![w] = "booted"] /\ UNCHANGED notices
       ELSE root' = [root EXCEPT ![w] = "asked"] /\ Notify("source", w)
  /\ UNCHANGED <<table, bits, failed, background, held, reading, inbox, let_in, put_off, jobs,
                 frames, registry, ledger>>

(* `initialize', one of the posts the boot held back: a background thread  *)
(* asks for its entry (__BobcatStartBTS).                                  *)
Initialize(w) ==
  /\ root[w] = "booted" /\ w \in let_in
  /\ root' = [root EXCEPT ![w] = "asked"]
  /\ Notify("source", w)
  /\ UNCHANGED <<table, bits, failed, background, held, reading, inbox, let_in, put_off, jobs,
                 frames, registry, ledger>>

Arrives(w) ==
  /\ root[w] = "fetching"
  /\ root' = [root EXCEPT ![w] = "running"]
  /\ UNCHANGED <<view, background, held, reading, inbox, let_in, put_off, jobs, frames, registry,
                 ledger>>

(* The root module settles (mark_booted).                                  *)
RootEnds(w) ==
  /\ root[w] = "running" /\ w \notin in_frame /\ w \notin background
  /\ root' = [root EXCEPT ![w] = "finished"]
  /\ UNCHANGED <<view, background, held, reading, inbox, let_in, put_off, jobs, frames, registry,
                 ledger>>

EntryEndsUnheard(w) ==
  /\ root[w] = "running" /\ w \notin in_frame /\ w \in background
  /\ root' = [root EXCEPT ![w] = "finished"]
  /\ wakes' = wakes \ {w}
  /\ UNCHANGED <<view, background, held, reading, inbox, let_in, put_off, jobs, frames, observing,
                 owed, stale, ledger>>

(* A background thread's entry settles (mark_worker_load): the load's own  *)
(* record may complete with it, and what is owed by now is taken at once   *)
(* if its wake was still there.                                            *)
EntryEnds(w) ==
  /\ root[w] = "running" /\ w \notin in_frame /\ w \in background
  /\ root' = [root EXCEPT ![w] = "finished"]
  /\ \E completes \in BOOLEAN :
       LET owing == IF completes /\ w \in observing THEN wakes \cup {w} ELSE wakes
       IN /\ stale' = (stale \/ owing # wakes)
          /\ wakes' = owing \ {w}
          /\ owed' = IF w \in owing THEN [owed EXCEPT ![w] = 0]
                      ELSE owed
  /\ UNCHANGED <<view, background, held, reading, inbox, let_in, put_off, jobs, frames, observing,
                 ledger>>

(* boot_finished, as consume_messages reads it.                            *)
Booted(w) ==
  IF w \in background THEN root[w] \notin {"none", "opening"} ELSE root[w] = "finished"

Quits(w) ==
  /\ reading' = reading \ {w}
  /\ inbox' = [inbox EXCEPT ![w] = <<>>] /\ jobs' = [jobs EXCEPT ![w] = <<>>]
  /\ root' = [root EXCEPT ![w] = "over"]
  /\ in_frame' = in_frame \ {w} /\ left' = [left EXCEPT ![w] = {}]
  /\ put_off' = put_off \ {w}

(* It closes itself or fails; its consumer is aborted.                     *)
Stop(w) ==
  /\ w \in reading /\ Quits(w)
  /\ UNCHANGED <<view, background, held, let_in, callbacks, filed, requested, registry, ledger>>

(* serve_worker's last step, forget_worker.                                *)
Forget(w) ==
  /\ root[w] = "over"
  /\ root' = [root EXCEPT ![w] = "forgotten"]
  /\ observing' = observing \ {w} /\ wakes' = wakes \ {w}
  /\ owed' = [owed EXCEPT ![w] = 0]
  /\ UNCHANGED <<view, background, held, reading, inbox, let_in, put_off, jobs, frames, stale,
                 ledger>>

(* The page fails (owner.rs, terminal): its script runs no more.           *)
Fail ==
  /\ root[Main] = "finished" /\ Main \notin in_frame
  /\ root' = [root EXCEPT ![Main] = "over"]
  /\ Notify("fatal", Main)
  /\ inbox' = [inbox EXCEPT ![Main] = <<>>] /\ jobs' = [jobs EXCEPT ![Main] = <<>>]
  /\ UNCHANGED <<table, bits, failed, background, held, reading, let_in, put_off, frames, registry,
                 ledger>>

-----------------------------------------------------------------------------
(* consume_messages: a frame is delivered at once, what tells of entries   *)
(* waits with the posts for the root module.                               *)
Consume(w) ==
  /\ w \in reading /\ inbox[w] # <<>>
  /\ LET word == Head(inbox[w])
     IN CASE word = "terminate" -> Quits(w)
          [] word = "vsync" ->
               /\ inbox' = [inbox EXCEPT ![w] = Tail(@)]
               /\ jobs' = [jobs EXCEPT ![w] = Append(@, "frame")]
               /\ UNCHANGED <<reading, root, in_frame, left, put_off>>
          [] word = "entries" ->
               /\ inbox' = [inbox EXCEPT ![w] = Tail(@)]
               /\ IF w \in let_in
                    THEN jobs' = [jobs EXCEPT ![w] = Append(@, "entries")] /\ UNCHANGED put_off
                    ELSE put_off' = put_off \cup {w} /\ UNCHANGED jobs
               /\ UNCHANGED <<reading, root, in_frame, left>>
  /\ UNCHANGED <<view, background, held, let_in, callbacks, filed, requested, registry, ledger>>

(* The channel is closed: its sender is gone and it is read to the end.    *)
ReadsTheEnd(w) ==
  /\ w \in reading \ held /\ inbox[w] = <<>> /\ Quits(w)
  /\ UNCHANGED <<view, background, held, let_in, callbacks, filed, requested, registry, ledger>>

LetsThrough(w) ==
  /\ w \in reading /\ w \notin let_in /\ Booted(w)
  /\ let_in' = let_in \cup {w} /\ put_off' = put_off \ {w}
  /\ jobs' = IF w \in put_off THEN [jobs EXCEPT ![w] = Append(@, "entries")] ELSE jobs
  /\ UNCHANGED <<view, background, held, reading, root, inbox, frames, registry, ledger>>

(* The page's consumer of commands, for the one of them that is a frame.   *)
ConsumeMain ==
  /\ inbox[Main] # <<>>
  /\ inbox' = [inbox EXCEPT ![Main] = Tail(@)]
  /\ jobs' = [jobs EXCEPT ![Main] = Append(@, "frame")]
  /\ UNCHANGED <<view, life, frames, registry, ledger>>

(* deliver_performance and __BobcatPerformanceReady: all that is owed is   *)
(* taken; a realm without an observer is called nothing.                   *)
TakeEntries(w) ==
  /\ Runs(w) /\ w \notin in_frame /\ jobs[w] # <<>> /\ Head(jobs[w]) = "entries"
  /\ jobs' = [jobs EXCEPT ![w] = Tail(@)]
  /\ owed' = IF w \in observing THEN [owed EXCEPT ![w] = 0] ELSE owed
  /\ UNCHANGED <<view, life, inbox, frames, observing, wakes, stale, ledger>>

-----------------------------------------------------------------------------
(* animation-frame.ts                                                      *)

(* updateFrameRequest: the host is told of a change and of nothing else.   *)
UpdateFrameRequest(r, waiting, known) ==
  IF (waiting # {}) = (r \in known)
    THEN requested' = known /\ UNCHANGED notices
    ELSE /\ requested' = IF waiting # {} THEN known \cup {r} ELSE known \ {r}
         /\ Notify(IF waiting # {} THEN "wants" ELSE "wants none", r)

RequestAnimationFrame(r) ==
  /\ Act /\ Runs(r) /\ filed[r] < MaxRequests
  /\ filed' = [filed EXCEPT ![r] = @ + 1]
  /\ LET waiting == callbacks[r] \cup {filed[r] + 1}
     IN /\ callbacks' = [callbacks EXCEPT ![r] = waiting]
        /\ UpdateFrameRequest(r, waiting, requested)
  /\ UNCHANGED <<table, bits, failed, life, inbox, jobs, in_frame, left, registry, dropped>>

(* cancelAnimationFrame of one, or clearAnimationFrames.                   *)
CancelAnimationFrame(r) ==
  /\ Act /\ Runs(r) /\ callbacks[r] # {}
  /\ \E gone \in {{id} : id \in callbacks[r]} \cup {callbacks[r]} :
       LET waiting == callbacks[r] \ gone
       IN /\ callbacks' = [callbacks EXCEPT ![r] = waiting]
          /\ UpdateFrameRequest(r, waiting, requested)
  /\ UNCHANGED <<table, bits, failed, life, inbox, jobs, filed, in_frame, left, registry, dropped>>

BeginFrameKeeps(r) ==
  /\ Runs(r) /\ r \notin in_frame /\ jobs[r] # <<>> /\ Head(jobs[r]) = "frame"
  /\ jobs' = [jobs EXCEPT ![r] = Tail(@)]
  /\ in_frame' = in_frame \cup {r} /\ left' = [left EXCEPT ![r] = callbacks[r]]
  /\ UNCHANGED <<view, life, inbox, callbacks, filed, requested, registry, ledger>>

(* __BobcatBeginFrame: the bit the vsync consumed is cleared and the ids   *)
(* are read up front ...                                                   *)
BeginFrame(r) ==
  /\ Runs(r) /\ r \notin in_frame /\ jobs[r] # <<>> /\ Head(jobs[r]) = "frame"
  /\ jobs' = [jobs EXCEPT ![r] = Tail(@)]
  /\ requested' = requested \ {r}
  /\ in_frame' = in_frame \cup {r} /\ left' = [left EXCEPT ![r] = callbacks[r]]
  /\ UNCHANGED <<view, life, inbox, callbacks, filed, registry, ledger>>

(* ... each is removed and called, and what it calls are the actions       *)
(* above ...                                                               *)
RunCallback(r) ==
  /\ r \in in_frame
  /\ \E id \in left[r] :
       /\ \A other \in left[r] : id <= other
       /\ left' = [left EXCEPT ![r] = @ \ {id}]
       /\ callbacks' = [callbacks EXCEPT ![r] = @ \ {id}]
  /\ UNCHANGED <<view, life, inbox, jobs, filed, requested, in_frame, registry, ledger>>

(* ... and what waits at the end raises the demand again.                  *)
EndFrame(r) ==
  /\ r \in in_frame /\ left[r] = {}
  /\ in_frame' = in_frame \ {r}
  /\ UpdateFrameRequest(r, callbacks[r], requested)
  /\ UNCHANGED <<table, bits, failed, life, inbox, jobs, callbacks, filed, left, registry, ledger>>

-----------------------------------------------------------------------------
(* performance/registry.rs, from any thread                                *)

(* observePerformance, from the worker's script: one that stops drops what *)
(* it was owed.                                                            *)
Observe(w) ==
  /\ Act /\ Runs(w)
  /\ IF w \in observing
       THEN observing' = observing \ {w} /\ owed' = [owed EXCEPT ![w] = 0]
       ELSE observing' = observing \cup {w} /\ UNCHANGED owed
  /\ UNCHANGED <<view, life, inbox, jobs, frames, wakes, stale, dropped>>

(* deliver, complete and complete_paint: an entry for every observer.      *)
Enqueue(w) == IF owed[w] < MaxRecords THEN owed[w] + 1 ELSE owed[w]
MakeEntry ==
  /\ Act /\ observing # {}
  /\ stale' = TRUE
  /\ owed' = [w \in Workers |-> IF w \in observing THEN Enqueue(w) ELSE owed[w]]
  /\ wakes' = wakes \cup observing
  /\ UNCHANGED <<view, life, inbox, jobs, frames, observing, dropped>>

-----------------------------------------------------------------------------
(* The embedder's thread                                                   *)

(* notify_performance: a worker this view no longer holds is told nothing. *)
NotifyPerformance(set) == inbox' = Tell(set \cap table \cap held \cap reading, "entries")

(* LynxView::pump drains the notices one by one; a native module may drive *)
(* the painter between two of them (Vsync, Present, IsPending).            *)
PumpNotice ==
  /\ notices # <<>>
  /\ notices' = Tail(notices)
  /\ LET r == Head(notices).realm
         kind == Head(notices).kind
     IN CASE kind = "created" ->
               /\ table' = table \cup {r} /\ bits' = bits \ {r}
               /\ UNCHANGED <<failed, root, dropped>>
          [] kind = "source" ->
               /\ root' = IF root[r] = "asked" /\ ~failed
                            THEN [root EXCEPT ![r] = "fetching"] ELSE root
               /\ UNCHANGED <<table, bits, failed, dropped>>
          [] kind \in {"wants", "wants none"} ->
               /\ bits' = IF failed THEN bits
                          ELSE IF kind = "wants" THEN bits \cup ({r} \cap (table \cup {Main}))
                          ELSE bits \ {r}
               /\ UNCHANGED <<table, failed, root, dropped>>
          [] kind = "call" ->
               /\ dropped' = IF failed \/ r \in table THEN dropped ELSE dropped \cup {r}
               /\ UNCHANGED <<table, bits, failed, root>>
          [] kind = "fatal" ->
               /\ failed' = TRUE /\ table' = {} /\ bits' = {}
               /\ UNCHANGED <<root, dropped>>
  /\ UNCHANGED <<background, held, reading, inbox, let_in, put_off, jobs, frames, registry, acts>>

(* The end of the turn, take_performance_entries.                          *)
PumpEntries ==
  /\ notices = <<>> /\ stale
  /\ stale' = FALSE /\ wakes' = {} /\ NotifyPerformance(wakes)
  /\ UNCHANGED <<view, life, jobs, frames, observing, owed, ledger>>

(* report_presentation: a present that completes something, or whose paint *)
(* marks are new, takes the wakes too.                                     *)
Present ==
  /\ wakes # {} /\ ~failed
  /\ wakes' = {} /\ NotifyPerformance(wakes)
  /\ UNCHANGED <<view, life, jobs, frames, observing, owed, stale, ledger>>

(* FrameDemand::is_pending, which sweeps.                                  *)
Swept == {w \in table : Reached(w)}
IsPending ==
  /\ table # Swept
  /\ table' = Swept /\ bits' = bits \ (table \ Swept)
  /\ UNCHANGED <<notices, failed, life, inbox, jobs, frames, registry, ledger>>

VsyncCopies ==
  /\ bits # {}
  /\ bits' = bits \cap {Main}
  /\ inbox' = Tell((bits \cap Swept) \cup (bits \cap {r \in {Main} : root[r] # "over"}), "vsync")
  /\ UNCHANGED <<notices, table, failed, life, jobs, frames, registry, ledger>>

(* deliver_vsync and FrameDemand::dispatch.                                *)
Vsync ==
  /\ bits # {}
  /\ bits' = {}
  /\ inbox' = Tell((bits \cap Swept) \cup (bits \cap {r \in {Main} : root[r] # "over"}), "vsync")
  /\ UNCHANGED <<notices, table, failed, life, jobs, frames, registry, ledger>>

(* A worker's script calls a native module.                                *)
Call(w) ==
  /\ Act /\ Runs(w) /\ [kind |-> "call", realm |-> w] \notin ToSet(notices)
  /\ Notify("call", w)
  /\ UNCHANGED <<table, bits, failed, life, inbox, jobs, frames, registry, dropped>>

-----------------------------------------------------------------------------
Script(r) == BeginFrame(r) \/ RunCallback(r) \/ EndFrame(r)
Worker(w) ==
  Open(w) \/ Initialize(w) \/ Arrives(w) \/ Consume(w) \/ ReadsTheEnd(w) \/ LetsThrough(w) \/ TakeEntries(w)
Pump == PumpNotice \/ PumpEntries

Next ==
  \/ \E w \in Workers :
       \/ Create(w) \/ LetGo(w) \/ RootEnds(w) \/ EntryEnds(w) \/ Stop(w) \/ Forget(w)
       \/ Worker(w) \/ Observe(w) \/ Call(w)
  \/ \E r \in Realms : RequestAnimationFrame(r) \/ CancelAnimationFrame(r) \/ Script(r)
  \/ ConsumeMain \/ Fail \/ MakeEntry
  \/ Pump \/ Present \/ IsPending \/ Vsync

Spec == Init /\ [][Next]_vars

(* Each thread goes on, and the host's frame loop runs while a frame is    *)
(* owed: it pumps when it is woken and takes its display's next frame when *)
(* is_animating says so.                                                   *)
Fairness ==
  /\ WF_vars(Pump) /\ WF_vars(Vsync) /\ WF_vars(ConsumeMain)
  /\ \A r \in Realms : WF_vars(Script(r))
  /\ \A w \in Workers : WF_vars(Worker(w))
FairSpec == Spec /\ Fairness

-----------------------------------------------------------------------------
OnTheWay(r, word, job) == word \in ToSet(inbox[r]) \/ job \in ToSet(jobs[r])

(* A realm with a callback that waits is owed a frame: its demand is set,  *)
(* or on its way to the view, or answered and on its way back, whatever    *)
(* was withdrawn and asked again meanwhile (animation-frame.ts,            *)
(* FrameDemand::dispatch).                                                 *)
FrameIsOwed ==
  /\ TypeOK
  /\ \A r \in Realms :
       Runs(r) /\ (r = Main \/ Reached(r)) /\ ~failed /\ callbacks[r] # {} =>
         \/ r \in bits \cup in_frame \/ OnTheWay(r, "vsync", "frame")
         \/ [kind |-> "wants", realm |-> r] \in ToSet(notices)

(* Nobody who can still be reached is missed: an observer that is owed     *)
(* entries has a wake outstanding, whoever took the last one and however   *)
(* full its queue is (registry.rs, deliver; consume_messages), and a       *)
(* native call goes unanswered only when its caller is gone                *)
(* (FrameDemand::reply).                                                   *)
NobodyIsMissed ==
  \A w \in Workers : Reached(w) =>
    /\ w \notin dropped
    /\ ~failed /\ w \in observing /\ owed[w] > 0 =>
         w \in wakes \cup put_off \/ OnTheWay(w, "entries", "entries")

(* A callback that waits is called, or cancelled, or its realm or the view *)
(* is over; and demand does not outlive what it was for: a host is not     *)
(* kept drawing for a frame nobody waits for.                              *)
FramesComeAndGo ==
  /\ \A r \in Realms, id \in Ids :
       id \in callbacks[r] ~> id \notin callbacks[r] \/ ~Runs(r) \/ failed
                                \/ (r # Main /\ ~Reached(r))
  /\ <>[](\A r \in Realms : Runs(r) => callbacks[r] = {})
       => <>[](bits \cap (Swept \cup {Main}) = {})
=============================================================================
