----------------------------- MODULE Background -----------------------------
(***************************************************************************)
(* A page's background thread (BTS) as the page's realm (MTS) drives it:   *)
(* the two JavaScript runtimes, the two channels between them, and the     *)
(* exchange that ends the BTS before the page's realm is released.         *)
(*                                                                         *)
(*   bobcat-element/src/main-thread-runtime.ts        the MTS's side       *)
(*   bobcat-element/src/worker.ts                     its Worker object    *)
(*   bobcat-element/src/background-thread-runtime.ts  the BTS's side       *)
(*   bobcat-core/src/main/page.rs                     inbox and disposal   *)
(*                                                                         *)
(* WorkerLife has the worker's own life; here its end is announced, as     *)
(* shown there.  RealmOwner has the owner's tail; here its jobs are a FIFO *)
(* of which only the entry that delivers the BTS's words is kept.          *)
(***************************************************************************)
EXTENDS Naturals, Sequences

CONSTANTS
  MaxSent,   \* bound: messages the MTS sends the BTS
  MaxSaid    \* bound: messages the BTS posts, its reply to `dispose' aside

ASSUME BoundAssumption == MaxSent \in Nat /\ MaxSaid \in Nat

VARIABLES
  \* the page, on bobcat-main
  view,        \* "live", "ended", "disposing", "done", "released"
  burst,       \* events off the inbox whose entry has not delivered them
  dropped,     \* what an entry of an ended view did not deliver
  \* main-thread-runtime.ts and worker.ts
  connected,   \* backgroundWorker is set
  handle,      \* the Worker: "none", "held" by `workers', "released"
  ended_known, \* backgroundEnded
  disposal,    \* backgroundDisposal: "none", "waiting", "over"
  pending,     \* pendingBackgroundMessages
  sent,        \* how many messages sendToBackground took
  \* the channels
  inbox,       \* to the BTS
  events,      \* to the page
  \* background-thread-runtime.ts
  bts,         \* "none", "running", "ended"
  entry,       \* "unread" (startBackground is armed), "loading", "settled"
  waiting,     \* messages behind entryReady
  handled,     \* messages receiveMessage was called with, in order
  said, cleanups

page == <<view, burst, dropped>>
mts == <<connected, handle, ended_known, disposal, pending, sent>>
runtime == <<entry, waiting, handled, said, cleanups>>
vars == <<view, burst, dropped, connected, handle, ended_known, disposal,
          pending, sent, inbox, events, bts, entry, waiting, handled, said,
          cleanups>>

(* `n' numbers what sendToBackground took, from one.                       *)
Message == [kind : {"initialize", "app", "dispose", "terminate"}, n : 0..MaxSent]
App(n) == [kind |-> "app", n |-> n]
Bare(kind) == [kind |-> kind, n |-> 0]
Word == {"said", "disposed", "closed", "failed"}
LastWords == {"disposed", "closed", "failed"}
Spoken(words) == {words[i] : i \in DOMAIN words}

(* Every variable keeps its range.                                         *)
TypeOK ==
  /\ view \in {"live", "ended", "disposing", "done", "released"}
  /\ burst \in Seq(Word) /\ events \in Seq(Word) /\ dropped \subseteq Word
  /\ connected \in BOOLEAN /\ ended_known \in BOOLEAN
  /\ handle \in {"none", "held", "released"}
  /\ disposal \in {"none", "waiting", "over"}
  /\ sent \in 0..MaxSent /\ said \in 0..MaxSaid /\ cleanups \in Nat
  /\ inbox \in Seq(Message) /\ pending \in Seq(Message) /\ waiting \in Seq(Message)
  /\ bts \in {"none", "running", "ended"}
  /\ entry \in {"unread", "loading", "settled"}
  /\ handled \in Seq(1..MaxSent)

Init ==
  /\ view = "live" /\ burst = <<>> /\ dropped = {}
  /\ connected = FALSE /\ handle = "none" /\ ended_known = FALSE
  /\ disposal = "none" /\ pending = <<>> /\ sent = 0
  /\ inbox = <<>> /\ events = <<>>
  /\ bts = "none" /\ entry = "unread" /\ waiting = <<>> /\ handled = <<>>
  /\ said = 0 /\ cleanups = 0

Numbers(messages) == [i \in 1..Len(messages) |-> messages[i].n]

(* What WorkerOwner::post makes of a post to a worker that may be over.    *)
Posted(message) ==
  IF handle = "held" /\ bts = "running" THEN Append(inbox, message) ELSE inbox

-----------------------------------------------------------------------------
(* The MTS's script.                                                       *)

(* sendToBackground: a message, a Context event, a reply.                  *)
Send ==
  /\ view = "live" /\ disposal = "none"
  /\ sent < MaxSent /\ sent' = sent + 1
  /\ IF connected
     THEN inbox' = Posted(App(sent')) /\ UNCHANGED pending
     ELSE pending' = Append(pending, App(sent')) /\ UNCHANGED inbox
  /\ UNCHANGED <<page, connected, handle, ended_known, disposal, events, bts,
                 runtime>>

(* Boot constructs the BTS and connects it: `initialize' goes before what  *)
(* the entry sent.  A page that was disposed of ends the worker again.     *)
Connect ==
  /\ view = "live" /\ handle = "none"
  /\ bts' = "running"
  /\ IF disposal = "none"
     THEN /\ connected' = TRUE /\ handle' = "held"
          /\ inbox' = <<Bare("initialize")>> \o pending
          /\ pending' = <<>>
     ELSE /\ handle' = "released" /\ inbox' = <<Bare("terminate")>>
          /\ UNCHANGED <<connected, pending>>
  /\ UNCHANGED <<page, ended_known, disposal, sent, events, runtime>>

(* The same, of a thread that has trapped: nothing is kept to post on.     *)
ConnectRefused ==
  /\ view = "live" /\ handle = "none" /\ disposal = "none"
  /\ connected' = TRUE /\ handle' = "held" /\ pending' = <<>>
  /\ bts' = "ended" /\ events' = Append(events, "failed")
  /\ UNCHANGED <<page, ended_known, disposal, sent, inbox, runtime>>

(* Mutant of DisposeBackground: the worker is told to end beside `dispose'. *)
DisposeAtOnce ==
  IF disposal # "none" THEN UNCHANGED <<mts, inbox>>
  ELSE /\ pending' = <<>> /\ disposal' = "over"
       /\ inbox' = IF connected /\ handle = "held" /\ bts = "running"
                   THEN inbox \o <<Bare("dispose"), Bare("terminate")>> ELSE inbox
       /\ handle' = IF connected THEN "released" ELSE handle
       /\ UNCHANGED <<connected, ended_known, sent>>

(* disposeBackground: one disposal, which waits unless nothing can answer. *)
DisposeBackground ==
  IF disposal # "none" THEN UNCHANGED <<mts, inbox>>
  ELSE LET nobody == ~connected \/ ended_known
       IN  /\ pending' = <<>>
           /\ disposal' = IF nobody THEN "over" ELSE "waiting"
           /\ inbox' = IF nobody THEN inbox ELSE Posted(Bare("dispose"))
           /\ UNCHANGED <<connected, handle, ended_known, sent>>

(* The script dispatches __DestroyLifetime itself.                         *)
DestroyLifetime ==
  /\ view = "live" /\ disposal = "none"
  /\ DisposeBackground
  /\ UNCHANGED <<page, events, bts, runtime>>

(* Mutant of Hear: a worker's end acknowledges nothing.                    *)
HearReplyOnly(word) ==
  /\ UNCHANGED <<connected, pending, sent>>
  /\ IF handle # "held" THEN UNCHANGED <<handle, ended_known, disposal, inbox>>
     ELSE \/ /\ word \in {"closed", "failed"}
             /\ handle' = "released" /\ ended_known' = TRUE
             /\ UNCHANGED <<disposal, inbox>>
          \/ /\ word = "disposed"
             /\ disposal' = "over"
             /\ handle' = "released" /\ ended_known' = TRUE
             /\ inbox' = Posted(Bare("terminate"))
          \/ /\ word = "said"
             /\ UNCHANGED <<handle, ended_known, disposal, inbox>>

(* dispatch_worker_event and __BobcatDispatchWorkerEvent: an end forgets   *)
(* the handle and settles a disposal that waits; the reply settles it, and *)
(* the handle is terminated, which is an end the runtime hears of too.     *)
Hear(word) ==
  /\ UNCHANGED <<connected, pending, sent>>
  /\ IF handle # "held" THEN UNCHANGED <<handle, ended_known, disposal, inbox>>
     ELSE \/ /\ word \in {"closed", "failed"}
             /\ handle' = "released" /\ ended_known' = TRUE
             /\ disposal' = IF disposal = "waiting" THEN "over" ELSE disposal
             /\ UNCHANGED inbox
          \/ /\ word = "disposed"
             /\ disposal' = "over"
             /\ handle' = "released" /\ ended_known' = TRUE
             /\ inbox' = Posted(Bare("terminate"))
          \/ /\ word = "said"
             /\ UNCHANGED <<handle, ended_known, disposal, inbox>>

-----------------------------------------------------------------------------
(* The page's tasks.                                                       *)

(* consume_worker_events reads the inbox to its end and queues one entry.  *)
Consume ==
  /\ view = "live" /\ burst = <<>> /\ events # <<>>
  /\ burst' = events /\ events' = <<>>
  /\ UNCHANGED <<view, dropped, mts, inbox, bts, runtime>>

(* That entry delivers the next of them; between two of them a handler may *)
(* have waited, and the view ended meanwhile.                              *)
Deliver ==
  /\ view = "live" /\ burst # <<>>
  /\ Hear(Head(burst))
  /\ burst' = Tail(burst)
  /\ UNCHANGED <<view, dropped, events, bts, runtime>>

(* ... and an entry of a view that has ended delivers nothing more.        *)
DropBurst ==
  /\ view # "live" /\ burst # <<>>
  /\ dropped' = dropped \cup Spoken(burst)
  /\ burst' = <<>>
  /\ UNCHANGED <<view, mts, inbox, events, bts, runtime>>

(* The embedder releases the view, or it fails.                            *)
End ==
  /\ view = "live"
  /\ view' = "ended"
  /\ UNCHANGED <<burst, dropped, mts, inbox, events, bts, runtime>>

(* Page::dispose's first job, behind the entry in the FIFO.                *)
BeginDispose ==
  /\ view = "ended" /\ burst = <<>>
  /\ DisposeBackground
  /\ view' = IF disposal' = "over" THEN "done" ELSE "disposing"
  /\ UNCHANGED <<burst, dropped, events, bts, runtime>>

(* Each later one hands over one event, and looks again.                   *)
DisposeHears ==
  /\ view = "disposing" /\ events # <<>>
  /\ Hear(Head(events))
  /\ events' = Tail(events)
  /\ view' = IF disposal' = "over" THEN "done" ELSE view
  /\ UNCHANGED <<burst, dropped, bts, runtime>>

(* The release job: the realm is dropped.                                  *)
Release ==
  /\ view = "done"
  /\ view' = "released"
  /\ UNCHANGED <<burst, dropped, mts, inbox, events, bts, runtime>>

-----------------------------------------------------------------------------
(* The BTS.                                                                *)

(* What the message listener does with a message that is not for it.       *)
TakeApp(message) ==
  IF entry = "loading"
  THEN waiting' = Append(waiting, message) /\ UNCHANGED handled
  ELSE handled' = Append(handled, message.n) /\ UNCHANGED waiting

(* The next message of its inbox; `dispose' overtakes what waits, runs the *)
(* app's cleanup and is answered.                                          *)
Take ==
  /\ bts = "running" /\ inbox # <<>>
  /\ LET message == Head(inbox)
     IN  \/ /\ message.kind = "initialize" /\ entry = "unread"
            /\ entry' = "loading"
            /\ UNCHANGED <<bts, events, waiting, handled, cleanups>>
         \/ /\ message.kind = "app"
            /\ TakeApp(message)
            /\ UNCHANGED <<bts, events, entry, cleanups>>
         \/ /\ message.kind = "dispose"
            /\ cleanups' = cleanups + 1
            /\ events' = Append(events, "disposed")
            /\ UNCHANGED <<bts, entry, waiting, handled>>
         \/ /\ message.kind = "terminate"
            /\ bts' = "ended"
            /\ UNCHANGED <<events, entry, waiting, handled, cleanups>>
  /\ inbox' = IF bts' = "ended" THEN <<>> ELSE Tail(inbox)
  /\ UNCHANGED <<page, mts, said>>

(* The entry's imports settle; what waited is received in one checkpoint.  *)
EntrySettles ==
  /\ bts = "running" /\ entry = "loading"
  /\ entry' = "settled"
  /\ handled' = handled \o Numbers(waiting) /\ waiting' = <<>>
  /\ UNCHANGED <<page, mts, inbox, events, bts, said, cleanups>>

(* It posts something.                                                     *)
Say ==
  /\ bts = "running" /\ said < MaxSaid
  /\ said' = said + 1
  /\ events' = Append(events, "said")
  /\ UNCHANGED <<page, mts, inbox, bts, entry, waiting, handled, cleanups>>

(* It closes itself, or its realm or its thread fails.                     *)
Stop ==
  /\ bts = "running"
  /\ bts' = "ended" /\ inbox' = <<>>
  /\ \E word \in {"closed", "failed"} : events' = Append(events, word)
  /\ UNCHANGED <<page, mts, runtime>>

-----------------------------------------------------------------------------
Next ==
  \/ Send \/ Connect \/ ConnectRefused \/ DestroyLifetime
  \/ Consume \/ Deliver \/ DropBurst \/ End
  \/ BeginDispose \/ DisposeHears \/ Release
  \/ Take \/ EntrySettles \/ Say \/ Stop

Spec == Init /\ [][Next]_vars

(* Tasks that are ready are polled and jobs that are queued run, on both   *)
(* threads (jobs.rs, JsThread::run).  Nothing is assumed of the app: its   *)
(* entry may load for ever and the view may live for ever.                 *)
Fairness ==
  /\ WF_vars(Consume) /\ WF_vars(Deliver) /\ WF_vars(DropBurst)
  /\ WF_vars(BeginDispose) /\ WF_vars(DisposeHears) /\ WF_vars(Release)
  /\ WF_vars(Take)
FairSpec == Spec /\ Fairness

-----------------------------------------------------------------------------
(* The messages after the a-th, n of them.                                 *)
Apps(a, n) == [i \in 1..n |-> App(a + i)]

(* What a BTS that has not read `startBackground' yet has before them.     *)
Opening ==
  IF bts = "running" /\ entry = "unread" THEN <<Bare("initialize")>> ELSE <<>>

(* While the BTS serves the page, every message the MTS sent is in exactly *)
(* one of the four places it can be, and they hold them in the order they  *)
(* were sent: connecting late and an entry that loads long lose, repeat    *)
(* and reorder none (sendToBackground, entryReady).                        *)
InOrder ==
  LET heard == Len(handled)
      came == heard + Len(waiting)
      kept == Len(pending)
  IN  /\ TypeOK
      /\ \A i \in 1..heard : handled[i] = i
      /\ disposal = "none" /\ bts # "ended" =>
           /\ waiting = Apps(heard, Len(waiting))
           /\ inbox = Opening \o Apps(came, sent - kept - came)
           /\ pending = Apps(sent - kept, kept)
      /\ entry = "loading" => handled = <<>>

(* The page lets go of its BTS after the app's cleanup ran there, once: it *)
(* is not told to end before, and the realm is not released before, unless *)
(* the BTS ended by itself (__BobcatDispose).                              *)
CleanupFirst ==
  /\ cleanups <= 1
  /\ connected /\ (\E i \in 1..Len(inbox) : inbox[i].kind = "terminate") => cleanups = 1
  /\ connected /\ view \in {"done", "released"} =>
       cleanups = 1 \/ bts = "ended"

(* What the page says to its background thread arrives in order, the end   *)
(* of it last (main-thread-runtime.ts).                                    *)
HandshakeHolds == InOrder /\ CleanupFirst

(* An ended view is released, its BTS alive, over or just starting, unless *)
(* the BTS's last word was in a burst the end let drop.                    *)
EndedIsReleased ==
  view = "ended" ~> (view = "released" \/ dropped \cap LastWords # {})

(* "An already closed or failed Worker also completes the MTS disposal     *)
(* wait" (docs/destruction-runtime.md:27): an ended view is released.      *)
DisposalCompletes == view = "ended" ~> view = "released"
=============================================================================
