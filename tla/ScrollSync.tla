----------------------------- MODULE ScrollSync -----------------------------
(***************************************************************************)
(* Where a scroll container is, told by two writers that share nothing but *)
(* committed frames one way and a mailbox the other.  The painter moves    *)
(* the container on its own clock and posts where it stands (ScrollIntents *)
(* of terminus/painter); the document moves it when a script asks or when  *)
(* scroll anchoring keeps what is shown in place, and its frames carry the *)
(* request, the sum of the adjustments and its own offset (terminus/       *)
(* scroll); the main thread adopts the posts (runtime/lib.rs).             *)
(*                                                                         *)
(* One container, one painter attached throughout.  Of an offset one axis  *)
(* is kept, in units; the range is wide enough for nothing to be clamped,  *)
(* the container does not snap, bounce or wrap, and nothing auto-scrolls.  *)
(***************************************************************************)
EXTENDS Integers, FiniteSets

CONSTANTS
  None,        \* no offset, no target, no entry, no request
  Top,         \* the offsets asked for and dragged to are 0..Top
  Window,      \* how far from its own offset a frame can be composed
  MaxRequests, \* bound: requests a script makes
  MaxSteps,    \* bound: steps of drags and wheels
  MaxLayouts   \* bound: times a script changes what is shown

VARIABLES
  doc,       \* the document's container
  pending,   \* its request in scroll_requests, or None
  serial,    \* the last serial given out
  entered,   \* an entry into the realm is on, its epilogue still to come
  frame,     \* the frame last published, and if the painter has yet to poll it
  box,       \* the container's entry in the mailbox, or None
  painter,   \* ScrollIntents, for the container
  polled,    \* a pass of the painter is on, its poll_link behind it
  steps, layouts,   \* how much of the bounds is used
  told,      \* ghost: the last entry the painter posted
  standing   \* ghost: the instant request nothing has moved the container since

docVars == <<doc, pending, serial, entered, layouts>>
painterVars == <<painter, polled, steps>>
vars == <<doc, pending, serial, entered, frame, box, painter, polled, steps,
          layouts, told, standing>>

Request == [serial: 1..MaxRequests, target: 0..Top, smooth: BOOLEAN,
            yields: BOOLEAN]
Slot == [offset: Int, shift: Nat, request: Request \cup {None}]
Painter == [slot: Slot, due: BOOLEAN, live: Int \cup {None},
            handled: 0..MaxRequests, applied: Nat,
            held: {"no", "drag", "fling"}, glide: Int \cup {None},
            wheel: BOOLEAN, changed: BOOLEAN]
Entry == [offset: Int, rest: BOOLEAN, request: 0..MaxRequests, shift: Nat]
Claim == [target: Int, shift: Nat, serial: 1..MaxRequests]

(* Assumed where the module is instantiated.                               *)
ScrollAssumption ==
  /\ {Top, Window, MaxRequests, MaxSteps, MaxLayouts} \subseteq Nat
  /\ None \notin Int \cup Request \cup Entry \cup Claim

TypeOK ==
  /\ doc \in [offset: Int, shift: Nat, stale: BOOLEAN, moved: BOOLEAN,
              scrolling: BOOLEAN]
  /\ pending \in Request \cup {None}
  /\ serial \in 0..MaxRequests
  /\ entered \in BOOLEAN /\ polled \in BOOLEAN
  /\ frame \in [slot: Slot, unread: BOOLEAN]
  /\ box \in Entry \cup {None}
  /\ painter \in Painter /\ ~painter.changed
  /\ steps \in 0..MaxSteps /\ layouts \in 0..MaxLayouts
  /\ told \in Entry
  /\ standing \in Claim \cup {None}

-----------------------------------------------------------------------------
(* The painter.  Each operator takes its record and answers it moved on.   *)

(* The live offset, where it differs from the committed one.               *)
Shown(p) == IF p.live = None THEN p.slot.offset ELSE p.live

Moving(p) == p.held # "no" \/ p.glide # None \/ p.wheel

Write(p, o) == [p EXCEPT !.live = o, !.changed = TRUE]

(* Mutant of Declined: nothing moved, so nothing is posted.                *)
DeclinedQuietly(p, r) == [p EXCEPT !.handled = r.serial]

(* A request that yields finds the pointer there: nothing moves, but the   *)
(* container is posted, so that the request reads as handled.              *)
Declined(p, r) == [p EXCEPT !.handled = r.serial, !.changed = TRUE]

(* Any other stops a fling, which lets go; a smooth one glides, or goes on *)
(* with the glide that goes there already; an instant one is there.        *)
CarriedOut(p, r) ==
  LET q == [p EXCEPT !.handled = r.serial, !.changed = TRUE,
              !.held = IF @ = "fling" THEN "no" ELSE @]
  IN IF r.smooth
     THEN [q EXCEPT !.glide =
             IF @ # r.target /\ Shown(p) = r.target THEN None ELSE r.target]
     ELSE [q EXCEPT !.glide = None,
             !.live = IF r.target = p.slot.offset THEN None ELSE r.target]

Applied(p, r) ==
  IF r.yields /\ p.held # "no" THEN Declined(p, r) ELSE CarriedOut(p, r)

(* The adopted frame, once per commit: the part of the shift not applied   *)
(* moves a live offset and what refers to it, an offset the frame's own    *)
(* equals is dropped, and a new request is carried out.                    *)
Rebased(p) ==
  LET shift == p.slot.shift - p.applied
      Shifted(o) == IF o = None \/ p.live = None THEN o ELSE o + shift
      live == Shifted(p.live)
      q == [p EXCEPT !.due = FALSE, !.applied = p.slot.shift,
              !.live = IF live = p.slot.offset THEN None ELSE live,
              !.glide = Shifted(@)]
      r == p.slot.request
  IN IF ~p.due THEN p
     ELSE IF r # None /\ r.serial > p.handled THEN Applied(q, r) ELSE q

(* A drag's step: what flings or glides there is caught, and held.         *)
Dragged(p, o) ==
  LET moves == o # Shown(p)
      caught == p.held # "no" \/ p.glide # None \/ moves
      q == [p EXCEPT !.held = IF caught THEN "drag" ELSE "no", !.glide = None]
  IN IF moves THEN [Write(q, o) EXCEPT !.wheel = FALSE] ELSE q

(* The finger lifts: the container is let go of, or flung.                 *)
LetGo(p) == [p EXCEPT !.held = "no", !.changed = TRUE]
Released(p) == {LetGo(p), [p EXCEPT !.held = "fling"]}

Wheeled(p, o) ==
  IF o = Shown(p) THEN p ELSE [Write(p, o) EXCEPT !.glide = None, !.wheel = TRUE]

(* A tick: the fling's step, spent or not; the glide's, landed or on its   *)
(* way; the wheel's quiet interval, over or not.                           *)
Flung(p) ==
  IF p.held # "fling" THEN {p}
  ELSE LET moved == {IF o = Shown(p) THEN p
                     ELSE [Write(p, o) EXCEPT !.wheel = FALSE] : o \in 0..Top}
       IN moved \cup {LetGo(q) : q \in moved}

SetOffset(p, o) == IF p.live = o THEN p ELSE Write(p, o)

Landed(p) == [SetOffset(p, p.glide) EXCEPT !.glide = None, !.changed = TRUE]

Offsets == 0..(Top + MaxLayouts)

Glided(p) ==
  IF p.glide = None THEN {p}
  ELSE {Landed(p)} \cup
       {SetOffset(p, o) : o \in {x \in Offsets :
          \/ Shown(p) <= x /\ x < p.glide
          \/ p.glide < x /\ x <= Shown(p)}}

Quieted(p) ==
  IF ~p.wheel THEN {p} ELSE {p, [p EXCEPT !.wheel = FALSE, !.changed = TRUE]}

Ticked(p) ==
  UNION {UNION {Quieted(g) : g \in Glided(f)} : f \in Flung(p)}

(* What drain_changed answers.                                             *)
Drained(p) == [offset |-> Shown(p), rest |-> ~Moving(p),
               request |-> p.handled, shift |-> p.applied]

(* The mailbox keeps one entry, and a rest nobody has taken.               *)
Merged(held, entry) ==
  IF held = None THEN entry ELSE [entry EXCEPT !.rest = @ \/ held.rest]

-----------------------------------------------------------------------------
Init ==
  LET slot == [offset |-> 0, shift |-> 0, request |-> None] IN
  /\ doc = [offset |-> 0, shift |-> 0, stale |-> FALSE, moved |-> FALSE,
            scrolling |-> FALSE]
  /\ pending = None /\ serial = 0 /\ entered = FALSE
  /\ frame = [slot |-> slot, unread |-> FALSE]
  /\ box = None
  /\ painter = [slot |-> slot, due |-> FALSE, live |-> None, handled |-> 0,
                applied |-> 0, held |-> "no", glide |-> None, wheel |-> FALSE,
                changed |-> FALSE]
  /\ polled = FALSE /\ steps = 0 /\ layouts = 0
  /\ told = [offset |-> 0, rest |-> TRUE, request |-> 0, shift |-> 0]
  /\ standing = None

-----------------------------------------------------------------------------
(* The main thread.                                                        *)

(* A script scrolls, now or smoothly, or a timer does, which yields to a   *)
(* pointer and gives way to a script's pending request.                    *)
RequestScroll(target, smooth, yields) ==
  LET now == ~smooth /\ ~yields IN
  /\ serial < MaxRequests
  /\ yields /\ pending # None => pending.yields
  /\ serial' = serial + 1
  /\ pending' = [serial |-> serial', target |-> target, smooth |-> smooth,
                 yields |-> yields]
  /\ doc' = [doc EXCEPT !.stale = TRUE,
               !.offset = IF now THEN target ELSE @,
               !.moved = @ \/ (now /\ target # doc.offset)]
  /\ standing' = IF now THEN [target |-> target, shift |-> doc.shift,
                              serial |-> serial']
                 ELSE None
  /\ entered' = TRUE
  /\ UNCHANGED <<frame, box, painterVars, layouts, told>>

(* What is shown changes.  What comes in above the container's anchor      *)
(* moves the offset along, but a container at the start has no anchor, and *)
(* one with a request pending is where the request puts it.                *)
Anchored == doc.offset # 0 /\ pending = None

Layout(above) ==
  /\ layouts < MaxLayouts
  /\ layouts' = layouts + 1
  /\ doc' = IF above /\ Anchored
            THEN [doc EXCEPT !.stale = TRUE, !.offset = @ + 1, !.shift = @ + 1]
            ELSE [doc EXCEPT !.stale = TRUE]
  /\ entered' = TRUE
  /\ UNCHANGED <<pending, serial, frame, box, painterVars, told, standing>>

(* The document's offset with `o' adopted: a commit follows only where the *)
(* committed frame cannot be composed there.                               *)
Low(slot) == IF slot.offset < Window THEN 0 ELSE slot.offset - Window
High(slot) == slot.offset + Window

Covers(slot, o) == o \in Low(slot)..High(slot)

ScrollTo(o, rest) ==
  LET moves == o # doc.offset IN
  [doc EXCEPT !.offset = o,
     !.stale = @ \/ (moves /\ ~Covers(frame.slot, o)),
     !.scrolling = (@ \/ moves) /\ ~rest]

(* Or where the post has used more than half of the way to the edge of     *)
(* what the frame covers.                                                  *)
RecenterDue(slot, o) ==
  \/ o < slot.offset /\ 2 * (o - Low(slot)) < slot.offset - Low(slot)
  \/ o > slot.offset /\ 2 * (High(slot) - o) < High(slot) - slot.offset

(* Mutant of Outdated: the request before the pending one will do.         *)
OutdatedByOne(entry) == pending # None /\ entry.request + 1 < pending.serial

(* An entry made before the painter saw the pending request.               *)
Outdated(entry) == pending # None /\ entry.request < pending.serial

(* Mutant of Unapplied: a post is where the container is.                  *)
NothingUnapplied(entry) == 0

(* What an entry made before the painter saw an adjustment is missing.     *)
Unapplied(entry) == doc.shift - entry.shift

(* The marker is reached: the mailbox is taken, and what is outdated is    *)
(* dropped.                                                                *)
AdoptPosted ==
  /\ box # None
  /\ box' = None
  /\ entered' = TRUE
  /\ IF Outdated(box)
     THEN UNCHANGED <<doc, pending>>
     ELSE /\ pending' = None
          /\ doc' = [ScrollTo(box.offset + Unapplied(box), box.rest) EXCEPT
                       !.stale = @ \/ RecenterDue(frame.slot, box.offset)]
  /\ UNCHANGED <<serial, layouts, frame, painterVars, told, standing>>

(* The epilogue: a commit if anything is stale, which carries the request  *)
(* as long as it is pending, then the scrolls the document made itself.    *)
Epilogue ==
  /\ entered
  /\ entered' = FALSE
  /\ frame' = IF doc.stale
              THEN [slot |-> [offset |-> doc.offset, shift |-> doc.shift,
                              request |-> pending], unread |-> TRUE]
              ELSE frame
  /\ doc' = [doc EXCEPT !.stale = FALSE, !.moved = FALSE,
               !.scrolling = @ \/ doc.moved]
  /\ UNCHANGED <<pending, serial, layouts, box, painterVars, told, standing>>

-----------------------------------------------------------------------------
(* The painter's passes.  Each polls the link and works on the frame that  *)
(* was there, however long it waits in between for its swap-chain image.   *)
PollLink ==
  /\ ~polled
  /\ polled' = TRUE
  /\ painter' = [painter EXCEPT !.slot = frame.slot, !.due = @ \/ frame.unread]
  /\ frame' = [frame EXCEPT !.unread = FALSE]
  /\ UNCHANGED <<docVars, box, steps, told, standing>>

(* The end of a pass that leaves the painter at `p': what changed goes     *)
(* out.  `moves' says whether it moved the container of its own accord,    *)
(* which a request it has handled stands no longer.                        *)
Publish(p, moves) ==
  /\ polled /\ polled' = FALSE
  /\ painter' = [p EXCEPT !.changed = FALSE]
  /\ IF p.changed
     THEN box' = Merged(box, Drained(p)) /\ told' = Drained(p)
     ELSE UNCHANGED <<box, told>>
  /\ standing' = IF moves /\ standing # None /\ standing.serial <= p.handled
                 THEN None ELSE standing
  /\ UNCHANGED <<docVars, frame>>

Input(p, moves) == steps < MaxSteps /\ steps' = steps + 1 /\ Publish(p, moves)

Drag(o) == Input(Dragged(Rebased(painter), o), o # Shown(Rebased(painter)))

Wheel(o) == Input(Wheeled(Rebased(painter), o), o # Shown(Rebased(painter)))

Release ==
  /\ painter.held = "drag"
  /\ \E p \in Released(Rebased(painter)) : Publish(p, FALSE)
  /\ UNCHANGED steps

(* A drawn frame.  What was moving before the rebase is ticked.            *)
Draw ==
  LET r == Rebased(painter) IN
  /\ \E p \in IF painter.held = "fling" \/ painter.glide # None \/ painter.wheel
              THEN Ticked(r) ELSE {r} : Publish(p, Shown(p) # Shown(r))
  /\ UNCHANGED steps

-----------------------------------------------------------------------------
Next ==
  \/ \E t \in 0..Top, smooth, yields \in BOOLEAN :
       RequestScroll(t, smooth, yields)
  \/ \E above \in BOOLEAN : Layout(above)
  \/ AdoptPosted \/ Epilogue \/ PollLink
  \/ \E o \in 0..Top : Drag(o) \/ Wheel(o)
  \/ Release \/ Draw

Spec == Init /\ [][Next]_vars

-----------------------------------------------------------------------------
(* Nothing is between the painter's last word and the document's taking it.*)
Heard == box = None /\ pending = None

(* What is heard is where the document is: the offset the painter posted   *)
(* last, whatever request, adjustment or older post crossed it on the way; *)
(* and a container that stands still is not held to be scrolling, so that  *)
(* each `scroll' has had its `scrollend' (adopt_scroll_offsets).           *)
DocumentFollows ==
  Heard =>
    /\ doc.offset = told.offset + (doc.shift - told.shift)
    /\ ~Moving(painter) /\ ~doc.moved => ~doc.scrolling

(* "A script-facing scroll is never undone by a post the painter made      *)
(* before it saw the request": until the painter, having seen it, moves    *)
(* the container, or the next request, the document stays where the        *)
(* instant request put it, with what it shows kept in place.               *)
RequestStands ==
  standing # None =>
    doc.offset = standing.target + (doc.shift - standing.shift)

(* A pending request is never left lying: it is about to be committed, or  *)
(* in a frame the painter has yet to read or to draw, or its answer is in  *)
(* the mailbox, also where a pointer held the container: "nothing moves.   *)
(* Posted all the same, so the request reads as handled" (apply_request).  *)
RequestIsOnItsWay ==
  pending # None =>
    \/ entered /\ doc.stale
    \/ frame.unread /\ frame.slot.request = pending
    \/ painter.due /\ painter.slot.request = pending
    \/ box # None /\ box.request >= pending.serial

(* The painter shows the container where the document has it once nothing  *)
(* is on its way between them: "the document holds the offset the screen   *)
(* shows".                                                                 *)
ScreenAgrees ==
  /\ Heard /\ ~Moving(painter) /\ ~entered
  /\ ~frame.unread /\ ~painter.due
  => Shown(painter) = doc.offset
=============================================================================
