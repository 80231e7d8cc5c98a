----------------------------- MODULE FrameLink -----------------------------
(***************************************************************************)
(* The link between the thread that paints and one view's Page on          *)
(* bobcat-main: the command FIFO with its count, the mailbox the painter   *)
(* posts its scroll state and its frame requests into, and what the Page   *)
(* publishes back.                                                         *)
(*                                                                         *)
(*   src/crates/bobcat-core/src/link.rs        CommandSender, ScrollMailbox, *)
(*                                             FramePost, Published         *)
(*   src/crates/bobcat-core/src/paint/lib.rs   the painter's passes         *)
(*   src/crates/bobcat-core/src/main/page.rs   bursts and acknowledgements  *)
(*   src/crates/bobcat-core/src/view/lib.rs    host calls, release          *)
(*                                                                         *)
(* The embedder's thread, the Page's thread and whoever drops a native     *)
(* module's callback run concurrently; each step here is one lock, one     *)
(* send or one stretch of one thread that touches nothing shared.          *)
(*                                                                         *)
(* The FIFO is the log of its counted commands with two cursors of main's: *)
(* what is behind `taken' is still queued and what is behind `ran' is in   *)
(* the burst at hand.  A ModuleCallback changes nothing here but counts,   *)
(* so only how many are queued is kept.  One scroll container stands for   *)
(* all, and its offset is the number of passes that have moved it.         *)
(***************************************************************************)
EXTENDS Naturals, Sequences

CONSTANTS
  Painters,     \* the painters that may observe the view, one at a time
  NoPainter,    \* the view has none
  NoFrame,      \* nothing is published yet
  MaxSent,      \* bound: counted commands
  MaxPosts,     \* bound: the sequence number of a painter's last frame post
  MaxMoved,     \* bound: passes that move the container
  Earlier       \* bound: posts a painter made on the views it had before

ASSUME PainterAssumption == NoPainter \notin Painters
ASSUME BoundAssumption == {MaxSent, MaxPosts, MaxMoved, Earlier} \subseteq Nat

(* "marker" is ToMain::Posted; every other counted command is an "update", *)
(* and `scroll' is the offset the screen showed as it was sent.            *)
Command == [kind : {"marker", "update"}, scroll : Nat]
FramePost == [seq : Nat, fence : Nat]
NoPost == [seq |-> 0, fence |-> 0]    \* None: sequences start at one

VARIABLES
  seat,      \* the view's Seat is alive, and with it the command sender
  token,     \* the view's CancellationToken
  attached,  \* the painter holding the seat weakly
  begin_frames_sent,  \* Painter.begin_frames_sent
  asked,     \* what each painter's posts stand for (frame_serviced reads seq)
  moved,     \* the offset the screen shows
  outgoing,  \* what the pass at hand has still to send
  log,       \* every command CommandSender.send was given
  callbacks, \* ModuleCallbacks queued
  mailbox,   \* ScrollMailbox.posted
  main,      \* where the Page is: see MainState
  taken,     \* how much of the log consume_commands has read
  ran,       \* how much of it apply_command has run
  drained,   \* ModuleCallbacks of the burst at hand
  count,     \* how many of it Page::apply counted
  applied,   \* Page.applied
  frame_due, pending_begin_frame,   \* Page's cells of those names
  scrolled,  \* the offset the document has adopted
  ticked,    \* the newest post the document's clock was moved to
  styled,    \* boot's first flush has mounted the listed sheets
  bound,     \* a painter has written its metrics
  frame,     \* Published.frame: what the committed frame shows
  serviced   \* Published.begin_frame_serviced

embedder == <<seat, token, attached, begin_frames_sent, asked, moved>>
fifo == <<log, callbacks>>
page == <<taken, ran, drained, count, applied, frame_due, pending_begin_frame,
          scrolled, ticked, styled>>
published == <<frame, serviced>>
vars == <<seat, token, attached, begin_frames_sent, asked, moved, outgoing,
          log, callbacks, mailbox, main, taken, ran, drained, count, applied,
          frame_due, pending_begin_frame, scrolled, ticked, styled, bound,
          frame, serviced>>

(* "recv": no burst at hand; "queued": its job is; "apply": in its entry;  *)
(* "other": in an entry that is not a burst's; "commit" and "ack": in an   *)
(* epilogue; "ended"; "closed": the receiver is dropped.                   *)
MainState == {"recv", "queued", "apply", "other", "commit", "ack", "ended",
              "closed"}
Frame == [commands : Nat, scroll : Nat, tick : Nat]

(* Every variable keeps its range: main has run no more of the log than it *)
(* has taken, and taken no more than was sent.                             *)
TypeOK ==
  /\ {seat, token, styled, bound} \subseteq BOOLEAN
  /\ attached \in Painters \cup {NoPainter}
  /\ begin_frames_sent \in [Painters -> Nat]
  /\ asked \in [Painters -> SUBSET [seq : Nat, fence : Nat, scroll : Nat]]
  /\ {moved, callbacks, drained, count, scrolled, ticked, serviced,
      pending_begin_frame} \subseteq Nat
  /\ outgoing \in Seq(Command)
  /\ log \in Seq(Command)
  /\ mailbox \in [scroll : Nat, frame : FramePost, armed : BOOLEAN]
  /\ main \in MainState
  /\ frame_due \in FramePost
  /\ frame \in Frame \cup {NoFrame}
  /\ taken \in 0..Len(log)
  /\ ran \in 0..taken
  /\ applied \in 0..ran

Init ==
  /\ seat = TRUE
  /\ token = FALSE
  /\ attached = NoPainter
  /\ begin_frames_sent \in [Painters -> 0..Earlier]
  /\ asked = [p \in Painters |-> {}]
  /\ moved = 0
  /\ outgoing = <<>>
  /\ log = <<>>
  /\ callbacks = 0
  /\ mailbox = [scroll |-> 0, frame |-> NoPost, armed |-> FALSE]
  /\ main = "recv"
  /\ taken = 0
  /\ ran = 0
  /\ drained = 0
  /\ count = 0
  /\ applied = 0
  /\ frame_due = NoPost
  /\ pending_begin_frame = 0
  /\ scrolled = 0
  /\ ticked = 0
  /\ styled = FALSE
  /\ bound = FALSE
  /\ frame = NoFrame
  /\ serviced = 0

Greater(m, n) == IF m >= n THEN m ELSE n

(* FramePost::merge, of posts or of none.                                  *)
Merge(held, later) ==
  [seq |-> Greater(held.seq, later.seq),
   fence |-> Greater(held.fence, later.fence)]

-----------------------------------------------------------------------------
(* The embedder's thread.  A pass posts into the mailbox and then sends    *)
(* what it owes; nothing else of that thread runs in between.              *)

Idle == outgoing = <<>>
Live(p) == attached = p /\ seat /\ Idle
Update(at) == [kind |-> "update", scroll |-> at]

(* Mutant of Publish: the event goes ahead of the marker of its pass.      *)
EventFirst(moves, post, rest) ==
  LET now == IF moves THEN moved + 1 ELSE moved
      posts == moves \/ post # NoPost
      owed == IF posts /\ ~mailbox.armed
              THEN <<[kind |-> "marker", scroll |-> now]>> ELSE <<>>
      sends == IF rest THEN <<Update(now)>> \o owed ELSE owed
  IN  /\ moved' = now
      /\ mailbox' = [scroll |-> IF moves THEN now ELSE mailbox.scroll,
                     frame |-> Merge(mailbox.frame, post),
                     armed |-> mailbox.armed \/ posts]
      /\ outgoing' = sends
      /\ now <= MaxMoved /\ Len(log) + Len(sends) <= MaxSent

(* publish_scroll: the container's entry, if the pass moved it, and the    *)
(* frame post, if the pass makes one; the first post since the last take   *)
(* owes the marker.  `rest' is what the pass sends after it.               *)
Publish(moves, post, rest) ==
  LET now == IF moves THEN moved + 1 ELSE moved
      posts == moves \/ post # NoPost
      marker == [kind |-> "marker", scroll |-> now]
      owed == IF posts /\ ~mailbox.armed THEN <<marker>> ELSE <<>>
      sends == IF rest THEN Append(owed, Update(now)) ELSE owed
  IN  /\ moved' = now
      /\ mailbox' = [scroll |-> IF moves THEN now ELSE mailbox.scroll,
                     frame |-> Merge(mailbox.frame, post),
                     armed |-> mailbox.armed \/ posts]
      /\ outgoing' = sends
      /\ now <= MaxMoved /\ Len(log) + Len(sends) <= MaxSent

(* A pass that dispatches an event, or only scrolls: Painter::send.        *)
Pass(p) ==
  /\ Live(p)
  /\ \E moves, event \in BOOLEAN : Publish(moves, NoPost, event)
  /\ UNCHANGED <<seat, token, attached, begin_frames_sent, asked, fifo, main,
                 page, bound, published>>

(* Mutant of BeginFrame: the fence counts a marker the post may not send.  *)
FencedLate(p) ==
  /\ Live(p)
  /\ main # "closed"
  /\ begin_frames_sent[p] < MaxPosts
  /\ \E moves \in BOOLEAN :
       LET post == [seq |-> begin_frames_sent[p] + 1, fence |-> Len(log) + 1]
       IN  /\ Publish(moves, post, FALSE)
           /\ begin_frames_sent' = [begin_frames_sent EXCEPT ![p] = post.seq]
           /\ asked' = [asked EXCEPT ![p] = @ \cup
                {[seq |-> post.seq, fence |-> post.fence, scroll |-> moved']}]
  /\ UNCHANGED <<seat, token, attached, fifo, main, page, bound, published>>

(* Painter::begin_frame when a frame is due: the fence is read before the  *)
(* post, so the post waits for what was sent ahead of it.                  *)
BeginFrame(p) ==
  /\ Live(p)
  /\ main # "closed"
  /\ begin_frames_sent[p] < MaxPosts
  /\ \E moves \in BOOLEAN :
       LET post == [seq |-> begin_frames_sent[p] + 1, fence |-> Len(log)]
       IN  /\ Publish(moves, post, FALSE)
           /\ begin_frames_sent' = [begin_frames_sent EXCEPT ![p] = post.seq]
           /\ asked' = [asked EXCEPT ![p] = @ \cup
                {[seq |-> post.seq, fence |-> post.fence, scroll |-> moved']}]
  /\ UNCHANGED <<seat, token, attached, fifo, main, page, bound, published>>

(* CommandSender::send, counted whether or not anybody reads.              *)
Send ==
  /\ ~Idle
  /\ log' = Append(log, Head(outgoing))
  /\ outgoing' = Tail(outgoing)
  /\ UNCHANGED <<embedder, callbacks, mailbox, main, page, bound, published>>

(* A host call of LynxView: a page update, an edit, image reports.         *)
HostCall ==
  /\ seat /\ Idle
  /\ Len(log) < MaxSent
  /\ log' = Append(log, Update(moved))
  /\ UNCHANGED <<embedder, outgoing, callbacks, mailbox, main, page, bound,
                 published>>

(* Painter::attach: past whatever this view has serviced.                  *)
Attach(p) ==
  /\ seat /\ Idle
  /\ attached = NoPainter
  /\ attached' = p
  /\ begin_frames_sent' =
       [begin_frames_sent EXCEPT ![p] = Greater(@, serviced)]
  /\ bound' = TRUE
  /\ UNCHANGED <<seat, token, asked, moved, outgoing, fifo, mailbox, main,
                 page, published>>

Detach ==
  /\ Idle
  /\ attached # NoPainter
  /\ attached' = NoPainter
  /\ UNCHANGED <<seat, token, begin_frames_sent, asked, moved, outgoing, fifo,
                 mailbox, main, page, bound, published>>

(* A fatal event met in LynxView::pump, or the first half of its release.  *)
Cancel ==
  /\ Idle
  /\ ~token
  /\ token' = TRUE
  /\ UNCHANGED <<seat, attached, begin_frames_sent, asked, moved, outgoing,
                 fifo, mailbox, main, page, bound, published>>

(* The second half: the seat goes, and the command sender with it.         *)
DropSeat ==
  /\ Idle
  /\ seat /\ token
  /\ seat' = FALSE
  /\ UNCHANGED <<token, attached, begin_frames_sent, asked, moved, outgoing,
                 fifo, mailbox, main, page, bound, published>>

(* A ModuleCallback, sent as it drops through the weak, uncounted sender.  *)
(* Bound: one is queued at a time.                                         *)
ModuleCallback ==
  /\ seat
  /\ callbacks = 0
  /\ callbacks' = 1
  /\ UNCHANGED <<embedder, outgoing, log, mailbox, main, page, bound,
                 published>>

-----------------------------------------------------------------------------
(* The Page's thread.                                                      *)

Queued == taken < Len(log) \/ callbacks > 0

(* consume_commands: the first command and all that is queued behind it.   *)
Receive ==
  /\ main = "recv"
  /\ Queued /\ ~token
  /\ taken' = Len(log)
  /\ drained' = callbacks
  /\ callbacks' = 0
  /\ count' = taken' - taken
  /\ main' = "queued"
  /\ UNCHANGED <<embedder, outgoing, log, mailbox, ran, applied, frame_due,
                 pending_begin_frame, scrolled, ticked, styled, bound,
                 published>>

(* The burst's job starts; a release in between drops it (Page::apply).    *)
Enter ==
  /\ main = "queued"
  /\ ~token
  /\ main' = "apply"
  /\ UNCHANGED <<embedder, outgoing, fifo, mailbox, page, bound, published>>

(* Another job of the view: a module completion, a settle, a worker event. *)
OtherEntry ==
  /\ main \in {"recv", "queued"}
  /\ main' = "other"
  /\ UNCHANGED <<embedder, outgoing, fifo, mailbox, page, bound, published>>

OtherEnds ==
  /\ main = "other"
  /\ main' = "commit"
  /\ UNCHANGED <<embedder, outgoing, fifo, mailbox, page, bound, published>>

(* apply_command of one that is not a marker.                              *)
Apply ==
  /\ main = "apply"
  /\ ran < taken
  /\ log[ran + 1].kind = "update"
  /\ ran' = ran + 1
  /\ UNCHANGED <<embedder, outgoing, fifo, mailbox, main, taken, drained,
                 count, applied, frame_due, pending_begin_frame, scrolled, ticked,
                 styled, bound, published>>

(* Mutant of AdoptPosted: the take leaves the mailbox armed.               *)
StaysArmed ==
  /\ main = "apply"
  /\ ran < taken
  /\ log[ran + 1].kind = "marker"
  /\ ran' = ran + 1
  /\ frame_due' = Merge(frame_due, mailbox.frame)
  /\ scrolled' = IF mailbox.scroll = 0 THEN scrolled ELSE mailbox.scroll
  /\ mailbox' = [mailbox EXCEPT !.scroll = 0, !.frame = NoPost]
  /\ UNCHANGED <<embedder, outgoing, fifo, main, taken, drained, count, applied,
                 pending_begin_frame, ticked, styled, bound, published>>

(* adopt_posted: one swap of the whole mailbox.                            *)
AdoptPosted ==
  /\ main = "apply"
  /\ ran < taken
  /\ log[ran + 1].kind = "marker"
  /\ ran' = ran + 1
  /\ frame_due' = Merge(frame_due, mailbox.frame)
  /\ scrolled' = IF mailbox.scroll = 0 THEN scrolled ELSE mailbox.scroll
  /\ mailbox' = [scroll |-> 0, frame |-> NoPost, armed |-> FALSE]
  /\ UNCHANGED <<embedder, outgoing, fifo, main, taken, drained, count, applied,
                 pending_begin_frame, ticked, styled, bound, published>>

DeliverCallback ==
  /\ main = "apply"
  /\ drained > 0
  /\ drained' = drained - 1
  /\ UNCHANGED <<embedder, outgoing, fifo, mailbox, main, taken, ran, count, applied,
                 frame_due, pending_begin_frame, scrolled, ticked, styled,
                 bound, published>>

(* Mutant of BurstEnds: the post is applied at the end of whichever burst  *)
(* took its marker.                                                        *)
Unfenced ==
  /\ main = "apply"
  /\ ran = taken /\ drained = 0
  /\ applied' = applied + count
  /\ count' = 0
  /\ main' = "commit"
  /\ IF frame_due.seq # 0
     THEN /\ frame_due' = NoPost
          /\ pending_begin_frame' = Greater(frame_due.seq, pending_begin_frame)
          /\ ticked' = Greater(frame_due.seq, ticked)
     ELSE UNCHANGED <<frame_due, pending_begin_frame, ticked>>
  /\ UNCHANGED <<embedder, outgoing, fifo, mailbox, taken, ran, drained,
                 scrolled, styled, bound, published>>

(* The end of the burst: it is counted, and a frame post whose fence it    *)
(* reached moves the document's clock.                                     *)
BurstEnds ==
  /\ main = "apply"
  /\ ran = taken /\ drained = 0
  /\ applied' = applied + count
  /\ count' = 0
  /\ main' = "commit"
  /\ IF frame_due.seq # 0 /\ frame_due.fence <= applied'
     THEN /\ frame_due' = NoPost
          /\ pending_begin_frame' = Greater(frame_due.seq, pending_begin_frame)
          /\ ticked' = Greater(frame_due.seq, ticked)
     ELSE UNCHANGED <<frame_due, pending_begin_frame, ticked>>
  /\ UNCHANGED <<embedder, outgoing, fifo, mailbox, taken, ran, drained,
                 scrolled, styled, bound, published>>

Shown == [commands |-> ran, scroll |-> scrolled, tick |-> ticked]

(* __FlushElementTree from a script: the first mounts the listed sheets    *)
(* and waits for the binding; each commits and publishes.                  *)
Flush ==
  /\ main \in {"apply", "other"}
  /\ bound
  /\ styled' = TRUE
  /\ frame' = Shown
  /\ UNCHANGED <<embedder, outgoing, fifo, mailbox, main, taken, ran, drained,
                 count, applied, frame_due, pending_begin_frame, scrolled, ticked,
                 bound, serviced>>

(* The epilogue's commit_if_dirty: nothing while a sheet is outstanding.   *)
Commit ==
  /\ main = "commit"
  /\ main' = "ack"
  /\ frame' = IF styled /\ bound THEN Shown ELSE frame
  /\ UNCHANGED <<embedder, outgoing, fifo, mailbox, page, bound, serviced>>

(* after_boot: the acknowledgement, behind the commit.  The entry is over; *)
(* one that ran ahead of a burst's leaves the burst queued.                *)
Acknowledge ==
  /\ main = "ack"
  /\ serviced' = Greater(serviced, pending_begin_frame)
  /\ pending_begin_frame' = 0
  /\ main' = IF ran < taken \/ drained > 0 THEN "queued" ELSE "recv"
  /\ UNCHANGED <<embedder, outgoing, fifo, mailbox, taken, ran, drained,
                 count, applied, frame_due, scrolled, ticked, styled, bound, frame>>

(* The owner ends, for a reason of its own or because the embedder said    *)
(* so, and acknowledges what it took (on_end).  Its task cancels its token.*)
End ==
  /\ main \notin {"ended", "closed"}
  /\ main' = "ended"
  /\ token' = TRUE
  /\ serviced' = Greater(serviced, Greater(pending_begin_frame, frame_due.seq))
  /\ pending_begin_frame' = 0
  /\ frame_due' = NoPost
  /\ UNCHANGED <<seat, attached, begin_frames_sent, asked, moved, outgoing,
                 fifo, mailbox, taken, ran, drained, count, applied, scrolled, ticked,
                 styled, bound, frame>>

(* The consumer is reaped and its receiver goes with it.                   *)
Close ==
  /\ main = "ended"
  /\ main' = "closed"
  /\ UNCHANGED <<embedder, outgoing, fifo, mailbox, page, bound, published>>

(* Nothing is left of the view.                                            *)
Gone ==
  /\ main = "closed"
  /\ ~seat /\ Idle
  /\ UNCHANGED vars

Entry == Receive \/ Enter
EntryStep ==
  \/ OtherEnds \/ Apply \/ AdoptPosted \/ DeliverCallback \/ BurstEnds
  \/ Commit \/ Acknowledge \/ Close

Next ==
  \/ \E p \in Painters : Pass(p) \/ BeginFrame(p) \/ Attach(p)
  \/ Send \/ HostCall \/ Detach \/ Cancel \/ DropSeat \/ ModuleCallback
  \/ Entry \/ EntryStep \/ OtherEntry \/ Flush \/ End \/ Gone

Spec == Init /\ [][Next]_vars

(* An entry that runs returns and a pass that began sends what it owes.    *)
(* The thread's jobs leave one FIFO, so a burst's is not overtaken for     *)
(* ever by others queued behind it; the owner's task hears its token.      *)
Fairness ==
  /\ WF_vars(Send)
  /\ WF_vars(EntryStep)
  /\ SF_vars(Entry)
  /\ WF_vars(token /\ End)

FairSpec == Spec /\ Fairness

-----------------------------------------------------------------------------
(* An acknowledged frame post stands for everything its seat's sender had  *)
(* sent ahead of it: those commands have run, and the frame an observer    *)
(* reads with the acknowledgement shows them, the pass's own scroll state  *)
(* and the post's clock.  Only the view's end acknowledges without         *)
(* (FramePost::fence, Page::apply, RealmOwner::after_boot).                *)
AckMeansApplied ==
  \A p \in Painters : \A q \in asked[p] :
    main \notin {"ended", "closed"} /\ serviced >= q.seq =>
      /\ ran >= q.fence
      /\ frame # NoFrame =>
           /\ frame.commands >= q.fence
           /\ frame.scroll >= q.scroll
           /\ frame.tick >= q.seq

(* Once nothing is queued and nothing is running, no frame post is left in *)
(* the mailbox, waiting for its fence, or unacknowledged, and the document *)
(* holds the offset on the screen: coalescing into one marker loses        *)
(* nothing (ScrollMailbox::post and take, CommandSender's count).          *)
NothingStranded ==
  /\ TypeOK
  /\ main = "recv" /\ ~Queued /\ Idle =>
       /\ ~mailbox.armed
       /\ frame_due = NoPost
       /\ scrolled = moved
       /\ \A p \in Painters : \A q \in asked[p] : serviced >= q.seq

(* A command never reaches the document ahead of the scroll state of the   *)
(* pass that sent it (Painter::publish_scroll before every send).          *)
ScrollFirst ==
  [][ran' # ran => scrolled' >= log[ran'].scroll]_vars

(* A host that waits for its post is not left waiting: the post is         *)
(* serviced, or its view's receiver is gone (Painter::frame_serviced).     *)
FramesAreServiced ==
  \A p \in Painters : \A n \in 1..MaxPosts :
    (\E q \in asked[p] : q.seq = n) ~> (serviced >= n \/ main = "closed")
=============================================================================
