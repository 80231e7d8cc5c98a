-------------------------- MODULE ScrollSyncProofs --------------------------
(***************************************************************************)
(* What ScrollSync promises for any range, window and number of requests,  *)
(* drags, wheels and layouts, what WorkerLife promises beside it for any   *)
(* number of workers and posts, and Background for any number of messages. *)
(***************************************************************************)
EXTENDS MCShared, Sequences, TLAPS

SerialOf(slot) == IF slot.request = None THEN 0 ELSE slot.request.serial

(* Nobody knows of a request that was not made, and one is pending only if *)
(* none was made since.                                                    *)
ISerials ==
  /\ painter.handled <= serial
  /\ SerialOf(frame.slot) <= serial /\ SerialOf(painter.slot) <= serial
  /\ pending # None => pending.serial = serial
  /\ standing # None => standing.serial = serial

(* The mailbox holds the painter's last word.                              *)
IBox ==
  /\ told.request = painter.handled
  /\ told.rest <=> ~Moving(painter)
  /\ box # None =>
       /\ box.offset = told.offset /\ box.request = told.request
       /\ box.shift = told.shift /\ (told.rest => box.rest)

(* A scroll of the document's own is pending until its entry has ended.    *)
IMoved ==
  doc.moved =>
    /\ pending # None
    /\ painter.handled < serial
    /\ SerialOf(frame.slot) < serial /\ SerialOf(painter.slot) < serial

(* A frame the painter has drawn is the one its adjustments are counted by.*)
IFrames ==
  /\ ~painter.due => painter.applied = painter.slot.shift
  /\ ~frame.unread => painter.slot = frame.slot

(* Where a request that stands is in force, in what a frame shows, in what *)
(* the painter holds and in what it posted: all agree, adjustments aside.  *)
Agrees(offset, shift) == offset - shift = standing.target - standing.shift

Base(p) == IF p.live = None THEN p.slot.offset - p.slot.shift
                            ELSE p.live - p.applied

Made(slot) ==
  slot.request # None /\ slot.request.serial = serial =>
    /\ slot.request.target = standing.target
    /\ ~slot.request.smooth /\ ~slot.request.yields
    /\ slot.shift = standing.shift

IStands ==
  standing # None =>
    /\ Agrees(doc.offset, doc.shift)
    /\ pending # None =>
         /\ pending.target = standing.target
         /\ ~pending.smooth /\ ~pending.yields
         /\ doc.shift = standing.shift
    /\ pending = None => painter.handled = serial
    /\ Made(frame.slot) /\ Made(painter.slot)
    /\ \/ SerialOf(frame.slot) = serial \/ SerialOf(painter.slot) = serial
       \/ painter.handled = serial
       => Agrees(frame.slot.offset, frame.slot.shift)
    /\ SerialOf(painter.slot) = serial \/ painter.handled = serial =>
         Agrees(painter.slot.offset, painter.slot.shift)
    /\ painter.handled = serial =>
         /\ Base(painter) = standing.target - standing.shift
         /\ Agrees(told.offset, told.shift)

(* Who has a pending request and has handled it has said so; who has its   *)
(* frame has no newer one without it to come.                              *)
IPending ==
  pending # None =>
    /\ painter.handled = serial => box # None
    /\ painter.slot.request = pending => frame.slot.request = pending
    /\ RequestIsOnItsWay

IInv == /\ TypeOK /\ ISerials /\ IBox /\ IMoved /\ IFrames /\ IStands /\ IPending
        /\ DocumentFollows

-----------------------------------------------------------------------------
(* A pass of the painter that works on from `p' leaves it at `q': nothing  *)
(* is forgotten that is to be posted, and whether it moves is posted.      *)
Continued(p, q) ==
  /\ q \in Painter
  /\ q.slot = p.slot /\ q.due = p.due
  /\ q.applied = p.applied /\ q.handled = p.handled
  /\ p.changed => q.changed
  /\ ~q.changed => (Moving(q) <=> Moving(p))

LEMMA ContinuedOn ==
  ASSUME NEW p, NEW q, NEW r, Continued(p, q), Continued(q, r)
  PROVE  Continued(p, r)
BY DEF Continued

LEMMA NoneIsNoInt ==
  ASSUME ScrollAssumption
  PROVE  /\ None \notin Int /\ None \notin Request /\ None \notin Entry
         /\ Top \in Nat /\ MaxRequests \in Nat /\ MaxSteps \in Nat /\ MaxLayouts \in Nat
BY DEF ScrollAssumption

LEMMA ShownType ==
  ASSUME NEW p \in Painter
  PROVE  Shown(p) \in Int
BY DEF Painter, Slot, Shown

LEMMA WriteFacts ==
  ASSUME NEW p \in Painter, NEW o \in Int
  PROVE  /\ Continued(p, Write(p, o)) /\ Write(p, o).changed
         /\ Continued(p, SetOffset(p, o))
         /\ SetOffset(p, o).held = p.held /\ SetOffset(p, o).glide = p.glide
BY ZenonT(60) DEF Painter, Write, SetOffset, Continued, Moving

LEMMA DraggedFacts ==
  ASSUME NEW p \in Painter, NEW o \in Int
  PROVE  /\ Continued(p, Dragged(p, o))
         /\ o = Shown(p) => Shown(Dragged(p, o)) = Shown(p)
BY ZenonT(60) DEF Painter, Dragged, Write, Continued, Moving, Shown

LEMMA WheeledFacts ==
  ASSUME NEW p \in Painter, NEW o \in Int
  PROVE  /\ Continued(p, Wheeled(p, o))
         /\ o = Shown(p) => Shown(Wheeled(p, o)) = Shown(p)
BY DEF Painter, Wheeled, Write, Continued, Moving, Shown

LEMMA ReleasedFacts ==
  ASSUME NEW p \in Painter, p.held # "no", NEW q \in Released(p)
  PROVE  Continued(p, q) /\ Shown(q) = Shown(p)
BY ZenonT(60) DEF Painter, Released, LetGo, Continued, Moving, Shown

LEMMA FlungFacts ==
  ASSUME ScrollAssumption, NEW p \in Painter, NEW q \in Flung(p)
  PROVE  Continued(p, q)
<1>1. CASE p.held # "fling"
  BY <1>1 DEF Flung, Continued
<1>2. CASE p.held = "fling"
  <2> DEFINE Moved(o) == IF o = Shown(p) THEN p ELSE [Write(p, o) EXCEPT !.wheel = FALSE]
  <2>1. PICK o \in 0..Top : q = Moved(o) \/ q = LetGo(Moved(o))
    BY <1>2 DEF Flung
  <2>0. PICK m : m = Moved(o)
    OBVIOUS
  <2>2. Continued(p, m)
    <3>1. CASE o = Shown(p)
      BY <2>0, <3>1 DEF Continued
    <3>2. CASE o # Shown(p)
      <4>1. m = [[p EXCEPT !.live = o, !.changed = TRUE] EXCEPT !.wheel = FALSE]
        BY <2>0, <3>2 DEF Write
      <4>2. o \in Int
        BY NoneIsNoInt
      <4> HIDE DEF Moved
      <4> QED BY <4>1, <4>2 DEF Painter, Continued
    <3> QED BY <3>1, <3>2
  <2>3. Continued(m, LetGo(m))
    BY <2>2 DEF Painter, LetGo, Continued
  <2>4. q = m \/ q = LetGo(m)
    BY <2>0, <2>1
  <2> HIDE DEF Moved
  <2> QED BY <2>2, <2>3, <2>4, ContinuedOn
<1> QED BY <1>1, <1>2

LEMMA GlidedFacts ==
  ASSUME ScrollAssumption, NEW p \in Painter, NEW q \in Glided(p)
  PROVE  Continued(p, q)
<1>1. CASE p.glide = None
  BY <1>1 DEF Glided, Continued
<1>2. CASE p.glide # None /\ q = Landed(p)
  <2>1. p.glide \in Int
    BY <1>2 DEF Painter
  <2>2. Continued(p, SetOffset(p, p.glide))
    BY <2>1, WriteFacts
  <2> QED BY <1>2, <2>2 DEF Painter, Landed, Continued
<1>3. CASE p.glide # None /\ q # Landed(p)
  <2>1. PICK o \in Offsets : q = SetOffset(p, o)
    BY <1>3 DEF Glided
  <2> QED BY <2>1, WriteFacts, NoneIsNoInt DEF Offsets
<1> QED BY <1>1, <1>2, <1>3

LEMMA QuietedFacts ==
  ASSUME NEW p \in Painter, NEW q \in Quieted(p)
  PROVE  Continued(p, q)
BY ZenonT(60) DEF Painter, Quieted, Continued

LEMMA TickedFacts ==
  ASSUME ScrollAssumption, NEW p \in Painter, NEW q \in Ticked(p)
  PROVE  Continued(p, q)
<1>1. PICK f \in Flung(p) : \E g \in Glided(f) : q \in Quieted(g)
  BY DEF Ticked
<1>2. PICK g \in Glided(f) : q \in Quieted(g)
  BY <1>1
<1>3. Continued(p, f) /\ f \in Painter
  BY FlungFacts DEF Continued
<1>4. Continued(f, g) /\ g \in Painter
  BY <1>3, GlidedFacts DEF Continued
<1>5. Continued(g, q)
  BY <1>2, <1>4, QuietedFacts
<1> QED BY <1>3, <1>4, <1>5, ContinuedOn

(* What the rebase onto a frame leaves: its adjustments are applied, its   *)
(* request is handled, and where the container is shown has moved by the   *)
(* adjustments alone, or is where the request put it.                      *)
LEMMA RebasedFacts ==
  ASSUME ScrollAssumption, NEW p \in Painter, ~p.changed,
         ~p.due => p.applied = p.slot.shift
  PROVE  LET r == Rebased(p)
             new == p.due /\ SerialOf(p.slot) > p.handled
         IN /\ r \in Painter /\ r.slot = p.slot
            /\ ~r.due /\ r.applied = r.slot.shift
            /\ r.handled = IF new THEN SerialOf(p.slot) ELSE p.handled
            /\ new => r.changed
            /\ ~r.changed => (Moving(r) <=> Moving(p))
            /\ ~new => Base(r) = Base(p)
            /\ new /\ ~p.slot.request.smooth /\ ~p.slot.request.yields =>
                 Base(r) = p.slot.request.target - p.slot.shift
<1> DEFINE shift == p.slot.shift - p.applied
           Shifted(o) == IF o = None \/ p.live = None THEN o ELSE o + shift
           live == Shifted(p.live)
           q == [p EXCEPT !.due = FALSE, !.applied = p.slot.shift,
                   !.live = IF live = p.slot.offset THEN None ELSE live,
                   !.glide = Shifted(@)]
           r == p.slot.request
<1>1. CASE ~p.due
  BY <1>1 DEF Rebased
<1>2. CASE p.due
  <2>1. /\ q \in Painter /\ q.slot = p.slot /\ ~q.due /\ q.applied = q.slot.shift
        /\ q.handled = p.handled /\ q.held = p.held /\ q.wheel = p.wheel /\ ~q.changed
        /\ (q.glide = None) <=> (p.glide = None)
    <3>1. p.slot.offset \in Int /\ p.slot.shift \in Nat /\ shift \in Int
      BY DEF Painter, Slot
    <3>2. /\ Shifted(p.live) \in Int \cup {None} /\ Shifted(p.glide) \in Int \cup {None}
          /\ (Shifted(p.glide) = None) <=> (p.glide = None)
      <4> HIDE DEF shift
      <4> QED BY <3>1, NoneIsNoInt DEF Painter
    <3> HIDE DEF shift, Shifted
    <3> QED BY <3>1, <3>2 DEF Painter
  <2>2. Base(q) = Base(p)
    BY NoneIsNoInt DEF Painter, Slot, Base
  <2>3. CASE ~(r # None /\ r.serial > p.handled)
    <3>1. Rebased(p) = q
      BY <1>2, <2>3 DEF Rebased
    <3>2. ~(SerialOf(p.slot) > p.handled)
      BY <2>3, NoneIsNoInt DEF SerialOf, Painter
    <3>3. Moving(q) <=> Moving(p)
      BY SMTT(30), <2>1 DEF Moving
    <3> QED BY <2>1, <2>2, <3>1, <3>2, <3>3
  <2>4. CASE r # None /\ r.serial > p.handled
    <3>1. Rebased(p) = Applied(q, r)
      BY <1>2, <2>4 DEF Rebased
    <3>2. SerialOf(p.slot) = r.serial /\ SerialOf(p.slot) > p.handled
      BY <2>4 DEF SerialOf
    <3>3. r \in Request /\ r.serial \in 0..MaxRequests /\ r.target \in Int
      BY <2>4, NoneIsNoInt DEF Painter, Slot, Request
    <3>4. /\ Applied(q, r) \in Painter /\ Applied(q, r).slot = q.slot
          /\ Applied(q, r).due = q.due /\ Applied(q, r).applied = q.applied
          /\ Applied(q, r).handled = r.serial /\ Applied(q, r).changed
      <4> HIDE DEF q, r
      <4> QED BY ZenonT(60), <2>1, <3>3 DEF Painter, Applied, Declined, CarriedOut
    <3>5. ~r.smooth /\ ~r.yields => Base(Applied(q, r)) = r.target - p.slot.shift
      <4> HIDE DEF q, r
      <4> SUFFICES ASSUME ~r.smooth, ~r.yields PROVE Base(Applied(q, r)) = r.target - p.slot.shift
        OBVIOUS
      <4>1. Applied(q, r).live = IF r.target = q.slot.offset THEN None ELSE r.target
        BY <2>1 DEF Painter, Applied, CarriedOut
      <4> QED BY <2>1, <3>3, <3>4, <4>1, NoneIsNoInt DEF Base
    <3> QED BY ZenonT(60), <1>2, <2>1, <3>1, <3>2, <3>4, <3>5
  <2> QED BY <2>3, <2>4
<1> QED BY <1>1, <1>2
-----------------------------------------------------------------------------
(* A pass of the painter ends: what it means to everyone else.             *)
Passed(p, moves) ==
  /\ Publish(p, moves)
  /\ Continued(Rebased(painter), p)
  /\ Shown(p) # Shown(Rebased(painter)) => moves

New == painter.due /\ SerialOf(painter.slot) > painter.handled

LEMMA PassFacts ==
  ASSUME ScrollAssumption, TypeOK, IFrames, NEW p, NEW moves \in BOOLEAN, Passed(p, moves)
  PROVE  /\ painter' \in Painter /\ ~painter'.changed
         /\ painter'.slot = painter.slot /\ ~painter'.due
         /\ painter'.applied = painter.slot.shift
         /\ painter'.handled = IF New THEN SerialOf(painter.slot) ELSE painter.handled
         /\ \/ /\ told' \in Entry
               /\ told'.offset - told'.shift = Base(painter')
               /\ told'.request = painter'.handled
               /\ told'.rest <=> ~Moving(painter')
               /\ box' \in Entry
               /\ box'.offset = told'.offset /\ box'.request = told'.request
               /\ box'.shift = told'.shift /\ (told'.rest => box'.rest)
            \/ /\ told' = told /\ box' = box /\ ~New
               /\ Moving(painter') <=> Moving(painter)
         /\ standing' = standing \/ standing' = None
         /\ standing' # None /\ standing.serial <= painter'.handled =>
              \/ ~New /\ Base(painter') = Base(painter)
              \/ /\ New
                 /\ ~painter.slot.request.smooth /\ ~painter.slot.request.yields =>
                      Base(painter') = painter.slot.request.target - painter.slot.shift
<1> DEFINE r == Rebased(painter)
<1>1. painter \in Painter /\ ~painter.changed /\ (~painter.due => painter.applied = painter.slot.shift)
  BY DEF TypeOK, IFrames
<1>2. /\ r \in Painter /\ r.slot = painter.slot
      /\ ~r.due /\ r.applied = r.slot.shift
      /\ r.handled = IF New THEN SerialOf(painter.slot) ELSE painter.handled
      /\ New => r.changed
      /\ ~r.changed => (Moving(r) <=> Moving(painter))
      /\ ~New => Base(r) = Base(painter)
      /\ New /\ ~painter.slot.request.smooth /\ ~painter.slot.request.yields =>
           Base(r) = painter.slot.request.target - painter.slot.shift
  BY <1>1, RebasedFacts DEF New
<1>3. /\ p \in Painter /\ p.slot = r.slot /\ p.due = r.due
      /\ p.applied = r.applied /\ p.handled = r.handled
      /\ r.changed => p.changed
      /\ ~p.changed => (Moving(p) <=> Moving(r))
  BY DEF Passed, Continued
<1>4. painter' = [p EXCEPT !.changed = FALSE]
  BY DEF Passed, Publish
<1> HIDE DEF r
<1>5. /\ painter' \in Painter /\ ~painter'.changed
      /\ painter'.slot = p.slot /\ painter'.due = p.due /\ painter'.live = p.live
      /\ painter'.applied = p.applied /\ painter'.handled = p.handled
      /\ painter'.held = p.held /\ painter'.glide = p.glide /\ painter'.wheel = p.wheel
  BY <1>3, <1>4 DEF Painter
<1>6. (Moving(painter') <=> Moving(p)) /\ Base(painter') = Base(p)
  BY <1>5 DEF Moving, Base
<1>7. Base(p) = Shown(p) - p.applied /\ Base(r) = Shown(r) - r.applied
  BY <1>2, <1>3 DEF Base, Shown, Painter, Slot
<1>8. /\ p.handled \in 0..MaxRequests /\ p.applied \in Nat /\ Shown(p) \in Int /\ Shown(r) \in Int
  BY <1>2, <1>3, ShownType DEF Painter
<1>11. standing' = standing \/ standing' = None
  BY DEF Passed, Publish
<1>12. ASSUME standing' # None, standing.serial <= painter'.handled PROVE Base(painter') = Base(r)
  <2>1. ~moves
    BY <1>5, <1>12 DEF Passed, Publish
  <2>2. Shown(p) = Shown(r)
    BY <2>1 DEF Passed, r
  <2> QED BY <1>3, <1>6, <1>7, <2>2
<1>13. /\ painter' \in Painter /\ ~painter'.changed
       /\ painter'.slot = painter.slot /\ ~painter'.due
       /\ painter'.applied = painter.slot.shift
       /\ painter'.handled = IF New THEN SerialOf(painter.slot) ELSE painter.handled
  BY <1>2, <1>3, <1>5
<1>14. standing' # None /\ standing.serial <= painter'.handled =>
         \/ ~New /\ Base(painter') = Base(painter)
         \/ /\ New
            /\ ~painter.slot.request.smooth /\ ~painter.slot.request.yields =>
                 Base(painter') = painter.slot.request.target - painter.slot.shift
  BY <1>2, <1>12
<1>15. \/ /\ told' \in Entry
          /\ told'.offset - told'.shift = Base(painter')
          /\ told'.request = painter'.handled
          /\ told'.rest <=> ~Moving(painter')
          /\ box' \in Entry
          /\ box'.offset = told'.offset /\ box'.request = told'.request
          /\ box'.shift = told'.shift /\ (told'.rest => box'.rest)
       \/ /\ told' = told /\ box' = box /\ ~New
          /\ Moving(painter') <=> Moving(painter)
  <2>1. CASE p.changed
    <3>1. told' = Drained(p) /\ box' = Merged(box, Drained(p))
      BY <2>1 DEF Passed, Publish
    <3>2. /\ told' \in Entry
          /\ told'.offset = Shown(p) /\ told'.shift = p.applied /\ told'.request = p.handled
          /\ told'.rest <=> ~Moving(p)
      <4>1. PICK b \in BOOLEAN : b = ~Moving(p)
        BY DEF Moving
      <4>2. told' = [offset |-> Shown(p), rest |-> b, request |-> p.handled, shift |-> p.applied]
        BY <3>1, <4>1 DEF Drained
      <4> QED BY <1>8, <4>1, <4>2 DEF Entry
    <3>3. /\ box' \in Entry
          /\ box'.offset = told'.offset /\ box'.request = told'.request
          /\ box'.shift = told'.shift /\ (told'.rest => box'.rest)
      <4>1. box' = IF box = None THEN told' ELSE [told' EXCEPT !.rest = @ \/ box.rest]
        BY <3>1 DEF Merged
      <4>2. CASE box = None
        BY <3>2, <4>1, <4>2 DEF Entry
      <4>3. CASE box # None
        <5>1. box.rest \in BOOLEAN
          BY <4>3 DEF TypeOK, Entry
        <5>2. PICK b \in BOOLEAN : b = (told'.rest \/ box.rest)
          OBVIOUS
        <5>3. box' = [told' EXCEPT !.rest = b]
          BY <4>1, <4>3, <5>2
        <5> QED BY <3>2, <5>2, <5>3 DEF Entry
      <4> QED BY <4>2, <4>3
    <3> QED BY <1>5, <1>6, <1>7, <3>2, <3>3
  <2>2. CASE ~p.changed
    <3>1. told' = told /\ box' = box
      BY <2>2 DEF Passed, Publish
    <3> QED BY <1>2, <1>3, <1>6, <2>2, <3>1
  <2> QED BY <2>1, <2>2
<1> QED BY <1>11, <1>13, <1>14, <1>15

LEMMA PassStep ==
  ASSUME ScrollAssumption, IInv, NEW p, NEW moves \in BOOLEAN, Passed(p, moves),
         steps' \in 0..MaxSteps
  PROVE  IInv'
<1>1. /\ painter' \in Painter /\ ~painter'.changed
      /\ painter'.slot = painter.slot /\ ~painter'.due
      /\ painter'.applied = painter.slot.shift
      /\ painter'.handled = IF New THEN SerialOf(painter.slot) ELSE painter.handled
      /\ standing' = standing \/ standing' = None
  BY PassFacts DEF IInv
<1>2. UNCHANGED <<doc, pending, serial, entered, layouts, frame>> /\ polled' = FALSE
  BY DEF Passed, Publish, docVars
<1>3. \/ /\ told' \in Entry
         /\ told'.offset - told'.shift = Base(painter')
         /\ told'.request = painter'.handled
         /\ told'.rest <=> ~Moving(painter')
         /\ box' \in Entry
         /\ box'.offset = told'.offset /\ box'.request = told'.request
         /\ box'.shift = told'.shift /\ (told'.rest => box'.rest)
      \/ /\ told' = told /\ box' = box /\ ~New
         /\ Moving(painter') <=> Moving(painter)
  BY PassFacts DEF IInv
<1>4. standing' # None /\ standing.serial <= painter'.handled =>
        \/ ~New /\ Base(painter') = Base(painter)
        \/ /\ New
           /\ ~painter.slot.request.smooth /\ ~painter.slot.request.yields =>
                Base(painter') = painter.slot.request.target - painter.slot.shift
  BY PassFacts DEF IInv
<1>5. TypeOK'
  BY ZenonT(60), <1>1, <1>2, <1>3 DEF IInv, TypeOK
<1>6. SerialOf(painter.slot) \in Nat /\ SerialOf(frame.slot) \in Nat /\ serial \in Nat /\ painter.handled \in Nat
  BY NoneIsNoInt DEF IInv, TypeOK, Painter, Slot, SerialOf, Request
<1>7. ISerials'
  BY <1>1, <1>2, <1>6 DEF IInv, ISerials, SerialOf
<1>8. IBox'
  BY <1>1, <1>3, NoneIsNoInt DEF IInv, IBox, TypeOK, Painter, Entry
<1>9. IMoved'
  BY <1>1, <1>2 DEF IInv, IMoved, SerialOf
<1>10. IFrames'
  BY <1>1, <1>2 DEF IInv, IFrames
<1>11. IStands'
  <2> SUFFICES ASSUME standing' # None PROVE IStands'
    BY DEF IStands
  <2> DEFINE K == standing.target - standing.shift
  <2>1. standing' = standing /\ standing.serial = serial /\ standing # None
    BY <1>1 DEF IInv, ISerials
  <2>2. /\ Agrees(doc.offset, doc.shift) /\ Made(frame.slot) /\ Made(painter.slot)
        /\ pending # None => /\ pending.target = standing.target
                             /\ ~pending.smooth /\ ~pending.yields
                             /\ doc.shift = standing.shift
        /\ pending = None => painter.handled = serial
        /\ SerialOf(frame.slot) = serial \/ SerialOf(painter.slot) = serial \/ painter.handled = serial
             => Agrees(frame.slot.offset, frame.slot.shift)
        /\ SerialOf(painter.slot) = serial \/ painter.handled = serial =>
             Agrees(painter.slot.offset, painter.slot.shift)
        /\ painter.handled = serial => Base(painter) = K /\ Agrees(told.offset, told.shift)
    BY <2>1 DEF IInv, IStands
  <2>3. painter'.handled = serial => SerialOf(painter.slot) = serial \/ painter.handled = serial
    BY <1>1
  <2>4. ASSUME painter'.handled = serial PROVE Base(painter') = K
    <3>1. CASE ~New
      <4>1. Base(painter') = Base(painter) /\ painter.handled = serial
        BY <1>1, <1>4, <1>6, <2>1, <2>4, <3>1
      <4> QED BY <2>2, <4>1
    <3>2. CASE New
      <4>1. SerialOf(painter.slot) = serial /\ painter.slot.request # None
        BY <1>1, <1>6, <2>4, <3>2 DEF New, SerialOf
      <4>2. /\ painter.slot.request.target = standing.target
            /\ ~painter.slot.request.smooth /\ ~painter.slot.request.yields
            /\ painter.slot.shift = standing.shift
        BY <2>2, <4>1 DEF Made, SerialOf
      <4> QED BY <1>4, <1>6, <2>1, <2>4, <3>2, <4>2
    <3> QED BY <3>1, <3>2
  <2>5. painter'.handled = serial => told'.offset - told'.shift = K
    BY <1>1, <1>3, <2>2, <2>4 DEF Agrees
  <2>6. Made(frame.slot)' /\ Made(painter.slot)'
    BY <1>1, <1>2, <2>1, <2>2 DEF Made
  <2>7. painter.handled = serial => painter'.handled = serial
    BY <1>1, <1>6 DEF New, IInv, ISerials
  <2> HIDE DEF K
  <2> QED BY <1>1, <1>2, <2>1, <2>2, <2>3, <2>4, <2>5, <2>6, <2>7 DEF IStands, Agrees, SerialOf, K
<1>12. IPending'
  <2> SUFFICES ASSUME pending # None PROVE IPending'
    BY <1>2 DEF IPending
  <2>1. /\ painter.handled = serial => box # None
        /\ painter.slot.request = pending => frame.slot.request = pending
        /\ RequestIsOnItsWay /\ pending.serial = serial
    BY DEF IInv, IPending, ISerials
  <2>2. painter'.handled = serial => box' # None
    BY <1>1, <1>3, <2>1, NoneIsNoInt DEF New
  <2>3. RequestIsOnItsWay'
    <3>1. CASE (entered /\ doc.stale) \/ (frame.unread /\ frame.slot.request = pending)
      BY <1>2, <3>1 DEF RequestIsOnItsWay
    <3>2. CASE painter'.handled = serial
      <4>1. box' # None /\ box'.request = serial
        BY <1>1, <1>3, <1>8, <2>2, <3>2 DEF IBox
      <4> QED BY <1>2, <1>6, <2>1, <4>1 DEF RequestIsOnItsWay
    <3>3. CASE painter.due /\ painter.slot.request = pending
      <4>1. SerialOf(painter.slot) = serial
        BY <2>1, <3>3 DEF SerialOf
      <4>2. painter'.handled = serial
        BY <1>1, <1>6, <3>3, <4>1 DEF New, IInv, ISerials
      <4> QED BY <3>2, <4>2
    <3>4. CASE box # None /\ box.request >= pending.serial
      <4>1. painter.handled = serial
        BY <1>6, <2>1, <3>4 DEF IInv, IBox, ISerials
      <4>2. painter'.handled = serial
        BY <1>1, <1>6, <4>1 DEF New, IInv, ISerials
      <4> QED BY <3>2, <4>2
    <3>5. \/ (entered /\ doc.stale) \/ (frame.unread /\ frame.slot.request = pending)
          \/ painter.due /\ painter.slot.request = pending
          \/ box # None /\ box.request >= pending.serial
      BY <2>1 DEF RequestIsOnItsWay
    <3> QED BY <3>1, <3>3, <3>4, <3>5
  <2> QED BY <1>1, <1>2, <2>1, <2>2, <2>3 DEF IPending
<1>13. DocumentFollows'
  <2>1. CASE box' = box /\ told' = told /\ (Moving(painter') <=> Moving(painter))
    BY <1>2, <2>1 DEF IInv, DocumentFollows, Heard
  <2>2. CASE box' # None
    BY <2>2 DEF DocumentFollows, Heard
  <2> QED BY <1>3, <2>1, <2>2, NoneIsNoInt
<1> QED BY <1>5, <1>7, <1>8, <1>9, <1>10, <1>11, <1>12, <1>13 DEF IInv

-----------------------------------------------------------------------------
LEMMA RequestScrollStep ==
  ASSUME ScrollAssumption, IInv, NEW t \in 0..Top, NEW smooth \in BOOLEAN,
         NEW yields \in BOOLEAN, RequestScroll(t, smooth, yields)
  PROVE  IInv'
<1> DEFINE now == ~smooth /\ ~yields
<1>1. /\ serial < MaxRequests /\ serial' = serial + 1
      /\ pending' = [serial |-> serial', target |-> t, smooth |-> smooth, yields |-> yields]
      /\ doc' = [doc EXCEPT !.stale = TRUE, !.offset = IF now THEN t ELSE @,
                   !.moved = @ \/ (now /\ t # doc.offset)]
      /\ standing' = IF now THEN [target |-> t, shift |-> doc.shift, serial |-> serial'] ELSE None
      /\ entered' = TRUE
      /\ UNCHANGED <<frame, box, painter, polled, steps, layouts, told>>
  BY DEF RequestScroll, painterVars
<1>2. /\ serial \in Nat /\ serial' \in 1..MaxRequests
      /\ t \in Int /\ doc.shift \in Nat
      /\ SerialOf(painter.slot) <= serial /\ SerialOf(frame.slot) <= serial
      /\ SerialOf(painter.slot) \in Nat /\ SerialOf(frame.slot) \in Nat
      /\ painter.handled <= serial /\ painter.handled \in Nat
  BY <1>1, NoneIsNoInt
  DEF IInv, ISerials, TypeOK, Painter, Slot, SerialOf, Request
<1>3. pending' \in Request /\ pending' # None /\ pending'.serial = serial'
  BY <1>1, <1>2, NoneIsNoInt DEF Request
<1>4. /\ doc' \in [offset: Int, shift: Nat, stale: BOOLEAN, moved: BOOLEAN, scrolling: BOOLEAN]
      /\ doc'.stale /\ doc'.shift = doc.shift /\ (now => doc'.offset = t)
  <2>1. PICK b \in BOOLEAN : b = (doc.moved \/ (now /\ t # doc.offset))
    OBVIOUS
  <2>2. PICK o \in Int : o = IF now THEN t ELSE doc.offset
    BY <1>2 DEF IInv, TypeOK
  <2>3. doc' = [doc EXCEPT !.stale = TRUE, !.offset = o, !.moved = b]
    BY <1>1, <2>1, <2>2
  <2> QED BY <2>2, <2>3 DEF IInv, TypeOK
<1>5. now => standing' \in Claim /\ standing'.serial = serial' /\ standing'.target = t
             /\ standing'.shift = doc.shift
  BY <1>1, <1>2 DEF Claim
<1>6. ~now => standing' = None
  BY <1>1
<1>7. /\ SerialOf(painter'.slot) < serial' /\ SerialOf(frame'.slot) < serial'
      /\ painter'.handled < serial'
  BY <1>1, <1>2
<1>8. TypeOK'
  BY <1>1, <1>2, <1>3, <1>4, <1>5, <1>6, <1>7 DEF IInv, TypeOK
<1>9. ISerials'
  BY <1>1, <1>2, <1>3, <1>5, <1>6, <1>7 DEF ISerials, SerialOf
<1>10. IBox' /\ IFrames'
  BY <1>1 DEF IInv, IBox, IFrames, Moving
<1>11. IMoved'
  BY <1>3, <1>7 DEF IMoved, SerialOf
<1>12. IStands'
  <2>1. CASE now
    <3>1. /\ pending'.target = t /\ ~pending'.smooth /\ ~pending'.yields
      BY <1>1, <2>1
    <3>2. Made(frame.slot)' /\ Made(painter.slot)'
      BY <1>2, <1>7 DEF Made, SerialOf
    <3>3. Agrees(doc.offset, doc.shift)'
      BY <1>2, <1>4, <1>5, <2>1 DEF Agrees
    <3> QED BY <1>2, <1>3, <1>4, <1>5, <1>7, <2>1, <3>1, <3>2, <3>3 DEF IStands, SerialOf
  <2> QED BY <1>6, <2>1 DEF IStands
<1>13. IPending'
  <2>1. painter'.slot.request # pending'
    BY <1>2, <1>3, <1>7 DEF SerialOf
  <2>2. RequestIsOnItsWay'
    BY <1>1, <1>4 DEF RequestIsOnItsWay
  <2>3. painter'.handled # serial'
    BY <1>1, <1>2, <1>7
  <2> QED BY <2>1, <2>2, <2>3 DEF IPending
<1>14. DocumentFollows'
  BY <1>3 DEF DocumentFollows, Heard
<1> QED BY <1>8, <1>9, <1>10, <1>11, <1>12, <1>13, <1>14 DEF IInv

LEMMA LayoutStep ==
  ASSUME ScrollAssumption, IInv, NEW above \in BOOLEAN, Layout(above)
  PROVE  IInv'
<1>1. UNCHANGED <<pending, serial, frame, box, painter, polled, steps, told, standing>>
      /\ entered' = TRUE /\ layouts' \in 0..MaxLayouts
  BY NoneIsNoInt DEF Layout, painterVars, IInv, TypeOK
<1>2. /\ doc' \in [offset: Int, shift: Nat, stale: BOOLEAN, moved: BOOLEAN, scrolling: BOOLEAN]
      /\ doc'.stale /\ (doc'.moved <=> doc.moved) /\ (doc'.scrolling <=> doc.scrolling)
      /\ doc'.offset - doc'.shift = doc.offset - doc.shift
      /\ pending # None => doc'.offset = doc.offset /\ doc'.shift = doc.shift
  <2>1. CASE above /\ Anchored
    <3>1. doc' = [doc EXCEPT !.stale = TRUE, !.offset = @ + 1, !.shift = @ + 1] /\ pending = None
      BY <2>1 DEF Layout, Anchored
    <3>2. PICK o \in Int, h \in Nat : o = doc.offset + 1 /\ h = doc.shift + 1
      BY DEF IInv, TypeOK
    <3>3. doc' = [doc EXCEPT !.stale = TRUE, !.offset = o, !.shift = h]
      BY <3>1, <3>2
    <3>4. /\ doc'.offset = o /\ doc'.shift = h /\ doc'.stale = TRUE
          /\ doc'.moved = doc.moved /\ doc'.scrolling = doc.scrolling
          /\ doc' \in [offset: Int, shift: Nat, stale: BOOLEAN, moved: BOOLEAN, scrolling: BOOLEAN]
      BY <3>3 DEF IInv, TypeOK
    <3>5. doc.offset \in Int /\ doc.shift \in Nat
      BY DEF IInv, TypeOK
    <3>6. doc'.offset - doc'.shift = doc.offset - doc.shift
      BY <3>2, <3>4, <3>5
    <3> QED BY <3>1, <3>4, <3>6
  <2>2. CASE ~(above /\ Anchored)
    <3>1. doc' = [doc EXCEPT !.stale = TRUE]
      BY <2>2 DEF Layout
    <3> QED BY <3>1 DEF IInv, TypeOK
  <2> QED BY <2>1, <2>2
<1>3. TypeOK'
  BY <1>1, <1>2 DEF IInv, TypeOK
<1>4. ISerials' /\ IBox' /\ IFrames'
  BY <1>1 DEF IInv, ISerials, IBox, IFrames, Moving, SerialOf
<1>5. IMoved'
  BY <1>1, <1>2 DEF IInv, IMoved, SerialOf
<1>6. IStands'
  BY <1>1, <1>2 DEF IInv, IStands, Agrees, Made, Base, SerialOf
<1>7. IPending'
  BY <1>1, <1>2 DEF IInv, IPending, RequestIsOnItsWay
<1>8. DocumentFollows'
  <2> SUFFICES ASSUME Heard' PROVE DocumentFollows'
    BY DEF DocumentFollows
  <2>1. Heard /\ (Moving(painter') <=> Moving(painter))
    BY <1>1 DEF Heard, Moving
  <2>2. /\ doc.offset = told.offset + (doc.shift - told.shift)
        /\ ~Moving(painter) /\ ~doc.moved => ~doc.scrolling
    BY <2>1 DEF IInv, DocumentFollows
  <2>3. doc'.offset = told'.offset + (doc'.shift - told'.shift)
    BY <1>1, <1>2, <2>2 DEF IInv, TypeOK, Entry
  <2> QED BY <1>2, <2>1, <2>2, <2>3 DEF DocumentFollows
<1> QED BY <1>3, <1>4, <1>5, <1>6, <1>7, <1>8 DEF IInv

LEMMA EpilogueStep ==
  ASSUME ScrollAssumption, IInv, Epilogue
  PROVE  IInv'
<1>1. /\ entered' = FALSE
      /\ frame' = IF doc.stale THEN [slot |-> [offset |-> doc.offset, shift |-> doc.shift,
                                              request |-> pending], unread |-> TRUE]
                  ELSE frame
      /\ doc' = [doc EXCEPT !.stale = FALSE, !.moved = FALSE, !.scrolling = @ \/ doc.moved]
      /\ UNCHANGED <<pending, serial, layouts, box, painter, polled, steps, told, standing>>
  BY DEF Epilogue, painterVars
<1>2. /\ doc' \in [offset: Int, shift: Nat, stale: BOOLEAN, moved: BOOLEAN, scrolling: BOOLEAN]
      /\ ~doc'.stale /\ ~doc'.moved /\ doc'.offset = doc.offset /\ doc'.shift = doc.shift
      /\ doc'.scrolling <=> doc.scrolling \/ doc.moved
  <2>1. PICK b \in BOOLEAN : b = (doc.scrolling \/ doc.moved)
    OBVIOUS
  <2>2. doc' = [doc EXCEPT !.stale = FALSE, !.moved = FALSE, !.scrolling = b]
    BY <1>1, <2>1
  <2> QED BY <2>1, <2>2 DEF IInv, TypeOK
<1>3. /\ frame' \in [slot: Slot, unread: BOOLEAN]
      /\ \/ /\ frame'.unread /\ frame'.slot \in Slot /\ frame'.slot.request = pending
            /\ frame'.slot.offset = doc.offset /\ frame'.slot.shift = doc.shift
         \/ frame' = frame /\ ~doc.stale
  BY <1>1 DEF IInv, TypeOK, Slot
<1>4. SerialOf(frame'.slot) = (IF pending = None THEN 0 ELSE pending.serial) \/ frame' = frame
  BY <1>3 DEF SerialOf
<1>5. TypeOK'
  BY <1>1, <1>2, <1>3 DEF IInv, TypeOK
<1>6. ISerials'
  BY <1>1, <1>4, NoneIsNoInt DEF IInv, ISerials, TypeOK, SerialOf
<1>7. IBox'
  BY <1>1 DEF IInv, IBox, Moving
<1>8. IMoved'
  BY <1>2 DEF IMoved
<1>9. IFrames'
  BY <1>1, <1>3 DEF IInv, IFrames
<1>10. IStands'
  <2> SUFFICES ASSUME standing # None PROVE IStands'
    BY <1>1 DEF IStands
  <2>1. Made(frame.slot)'
    <3>1. CASE frame' = frame
      BY <1>1, <3>1 DEF IInv, IStands, Made
    <3>2. CASE frame'.slot.request = pending /\ frame'.slot.shift = doc.shift
      BY <1>1, <3>2 DEF IInv, IStands, Made
    <3> QED BY <1>3, <3>1, <3>2
  <2>2. Agrees(doc.offset, doc.shift)
    BY DEF IInv, IStands
  <2>3. Agrees(frame'.slot.offset, frame'.slot.shift) \/ frame' = frame
    BY <1>3, <2>2
  <2> QED BY <1>1, <1>2, <1>3, <2>1, <2>2, <2>3 DEF IInv, IStands, Agrees, Made, Base, SerialOf
<1>11. IPending'
  BY <1>1, <1>2, <1>3 DEF IInv, IPending, RequestIsOnItsWay
<1>12. DocumentFollows'
  <2> SUFFICES ASSUME Heard' PROVE DocumentFollows'
    BY DEF DocumentFollows
  <2>1. Heard /\ (Moving(painter') <=> Moving(painter)) /\ ~doc.moved
    BY <1>1 DEF Heard, Moving, IInv, IMoved
  <2> QED BY <1>1, <1>2, <2>1 DEF IInv, DocumentFollows
<1> QED BY <1>5, <1>6, <1>7, <1>8, <1>9, <1>10, <1>11, <1>12 DEF IInv

LEMMA PollLinkStep ==
  ASSUME ScrollAssumption, IInv, PollLink
  PROVE  IInv'
<1>1. /\ polled' = TRUE
      /\ painter' = [painter EXCEPT !.slot = frame.slot, !.due = @ \/ frame.unread]
      /\ frame' = [frame EXCEPT !.unread = FALSE]
      /\ UNCHANGED <<doc, pending, serial, entered, layouts, box, steps, told, standing>>
  BY DEF PollLink, docVars
<1>2. /\ painter' \in Painter /\ ~painter'.changed /\ painter'.slot = frame.slot
      /\ painter'.due <=> painter.due \/ frame.unread
      /\ painter'.live = painter.live /\ painter'.handled = painter.handled
      /\ painter'.applied = painter.applied /\ painter'.held = painter.held
      /\ painter'.glide = painter.glide /\ painter'.wheel = painter.wheel
  <2>1. PICK b \in BOOLEAN : b = (painter.due \/ frame.unread)
    OBVIOUS
  <2>2. painter' = [painter EXCEPT !.slot = frame.slot, !.due = b]
    BY <1>1, <2>1
  <2> QED BY <2>1, <2>2 DEF IInv, TypeOK, Painter
<1>3. frame' \in [slot: Slot, unread: BOOLEAN] /\ frame'.slot = frame.slot /\ ~frame'.unread
  BY <1>1 DEF IInv, TypeOK
<1>4. Moving(painter') <=> Moving(painter)
  BY <1>2 DEF Moving
<1>5. TypeOK'
  BY <1>1, <1>2, <1>3 DEF IInv, TypeOK
<1>6. ISerials' /\ IBox' /\ IMoved'
  BY <1>1, <1>2, <1>3, <1>4 DEF IInv, ISerials, IBox, IMoved, SerialOf
<1>7. IFrames'
  BY <1>2, <1>3 DEF IInv, IFrames
<1>8. IStands'
  <2> SUFFICES ASSUME standing # None PROVE IStands'
    BY <1>1 DEF IStands
  <2>1. painter.handled = serial => Base(painter') = standing.target - standing.shift
    BY <1>2 DEF IInv, IStands, Base, Agrees
  <2> QED BY <1>1, <1>2, <1>3, <2>1 DEF IInv, IStands, Agrees, Made, SerialOf
<1>9. IPending'
  <2> SUFFICES ASSUME pending # None PROVE IPending'
    BY <1>1 DEF IPending
  <2>1. RequestIsOnItsWay'
    BY <1>1, <1>2, <1>3 DEF IInv, IPending, IFrames, RequestIsOnItsWay
  <2> QED BY <1>1, <1>2, <1>3, <2>1 DEF IInv, IPending
<1>10. DocumentFollows'
  BY <1>1, <1>4 DEF IInv, DocumentFollows, Heard
<1> QED BY <1>5, <1>6, <1>7, <1>8, <1>9, <1>10 DEF IInv

LEMMA AdoptPostedStep ==
  ASSUME ScrollAssumption, IInv, AdoptPosted
  PROVE  IInv'
<1>1. /\ box # None /\ box' = None /\ entered' = TRUE
      /\ UNCHANGED <<serial, layouts, frame, painter, polled, steps, told, standing>>
  BY DEF AdoptPosted, painterVars
<1>2. /\ box \in Entry /\ box.offset = told.offset /\ box.shift = told.shift
      /\ box.request = painter.handled /\ (~Moving(painter) => box.rest)
  BY <1>1 DEF IInv, TypeOK, IBox
<1>3. ISerials' /\ IBox' /\ IFrames' /\ (Moving(painter') <=> Moving(painter)) /\ (pending' = pending \/ pending' = None)
  BY <1>1 DEF IInv, ISerials, IBox, IFrames, Moving, SerialOf, AdoptPosted
<1>4. CASE Outdated(box)
  <2>1. UNCHANGED <<doc, pending>> /\ pending # None /\ box.request < pending.serial
    BY <1>1, <1>4 DEF AdoptPosted, Outdated
  <2>2. TypeOK' /\ IMoved' /\ DocumentFollows'
    BY <1>1, <2>1 DEF IInv, TypeOK, IMoved, SerialOf, DocumentFollows, Heard
  <2>3. IStands'
    BY <1>1, <2>1 DEF IInv, IStands, Agrees, Made, Base, SerialOf
  <2>4. IPending'
    <3>1. painter.handled # serial /\ ~(box.request >= pending.serial)
      BY <1>2, <2>1 DEF IInv, ISerials, TypeOK, Entry, Request
    <3>2. RequestIsOnItsWay'
      BY <1>1, <2>1, <3>1 DEF IInv, IPending, RequestIsOnItsWay
    <3> QED BY <1>1, <2>1, <3>1, <3>2 DEF IInv, IPending
  <2> QED BY <1>3, <2>2, <2>3, <2>4 DEF IInv
<1>5. CASE ~Outdated(box)
  <2>1. /\ pending' = None
        /\ doc' = [ScrollTo(box.offset + Unapplied(box), box.rest) EXCEPT
                     !.stale = @ \/ RecenterDue(frame.slot, box.offset)]
    BY <1>1, <1>5 DEF AdoptPosted
  <2>2. /\ doc' \in [offset: Int, shift: Nat, stale: BOOLEAN, moved: BOOLEAN, scrolling: BOOLEAN]
        /\ doc'.offset = told.offset + (doc.shift - told.shift) /\ doc'.shift = doc.shift
        /\ (doc'.moved <=> doc.moved) /\ (box.rest => ~doc'.scrolling)
    <3>1. PICK o \in Int : o = box.offset + Unapplied(box) /\ o = told.offset + (doc.shift - told.shift)
      BY <1>2 DEF Unapplied, IInv, TypeOK, Entry
    <3>2. PICK b \in BOOLEAN :
            b = (\/ doc.stale \/ (o # doc.offset /\ ~Covers(frame.slot, o))
                 \/ RecenterDue(frame.slot, box.offset))
      OBVIOUS
    <3>3. PICK c \in BOOLEAN : c = ((doc.scrolling \/ (o # doc.offset)) /\ ~box.rest)
      OBVIOUS
    <3>4. doc' = [doc EXCEPT !.offset = o, !.stale = b, !.scrolling = c]
      BY <2>1, <3>1, <3>2, <3>3 DEF ScrollTo
    <3> HIDE DEF Unapplied
    <3> QED BY <3>1, <3>3, <3>4 DEF IInv, TypeOK
  <2>3. pending # None => painter.handled = serial
    BY <1>2, <1>5, <2>1 DEF Outdated, IInv, ISerials, TypeOK, Painter, Entry, Request
  <2>4. TypeOK'
    BY <1>1, <2>1, <2>2 DEF IInv, TypeOK
  <2>5. ~doc.moved
    BY <2>3 DEF IInv, IMoved, TypeOK, Painter
  <2>6. IMoved' /\ IPending'
    BY <2>1, <2>2, <2>5 DEF IMoved, IPending
  <2>7. IStands'
    <3>2. standing # None => painter.handled = serial
      BY <2>3 DEF IInv, IStands
    <3> SUFFICES ASSUME standing # None PROVE IStands'
      BY <1>1 DEF IStands
    <3>1. Agrees(doc'.offset, doc'.shift)
      <4>1. CASE pending # None
        <5>1. Agrees(told.offset, told.shift)
          BY <2>3, <4>1 DEF IInv, IStands
        <5> QED BY <2>2, <5>1 DEF Agrees, IInv, TypeOK, Entry, Claim
      <4>2. CASE pending = None
        <5>1. Agrees(told.offset, told.shift)
          BY <4>2 DEF IInv, IStands
        <5> QED BY <2>2, <5>1 DEF Agrees, IInv, TypeOK, Entry, Claim
      <4> QED BY <4>1, <4>2
    <3> QED BY <1>1, <2>1, <2>2, <3>1, <3>2 DEF IInv, IStands, Agrees, Made, Base, SerialOf
  <2>8. DocumentFollows'
    BY <1>1, <1>2, <1>3, <2>2 DEF DocumentFollows
  <2> QED BY <1>3, <2>4, <2>6, <2>7, <2>8 DEF IInv
<1> QED BY <1>4, <1>5

-----------------------------------------------------------------------------
(* A request leaves a finger where it is.                                  *)
LEMMA DragOutlives ==
  ASSUME NEW p \in Painter, p.held = "drag"
  PROVE  Rebased(p).held = "drag"
BY DEF Rebased, Applied, Declined, CarriedOut, Painter

LEMMA InputStep ==
  ASSUME ScrollAssumption, IInv, NEW o \in 0..Top, Drag(o) \/ Wheel(o)
  PROVE  IInv'
<1> DEFINE r == Rebased(painter)
<1>1. r \in Painter /\ o \in Int
  BY RebasedFacts, NoneIsNoInt DEF IInv, TypeOK, IFrames
<1>2. steps' \in 0..MaxSteps
  BY NoneIsNoInt DEF Drag, Wheel, Input, IInv, TypeOK
<1>3. CASE Drag(o)
  <2>1. Publish(Dragged(r, o), o # Shown(r))
    BY <1>3 DEF Drag, Input
  <2>2. Continued(r, Dragged(r, o)) /\ (o = Shown(r) => Shown(Dragged(r, o)) = Shown(r))
    BY <1>1, DraggedFacts
  <2>3. Passed(Dragged(r, o), o # Shown(r))
    BY <2>1, <2>2 DEF Passed
  <2> QED BY <1>2, <2>3, PassStep
<1>4. CASE Wheel(o)
  <2>1. Publish(Wheeled(r, o), o # Shown(r))
    BY <1>4 DEF Wheel, Input
  <2>2. Continued(r, Wheeled(r, o)) /\ (o = Shown(r) => Shown(Wheeled(r, o)) = Shown(r))
    BY <1>1, WheeledFacts
  <2>3. Passed(Wheeled(r, o), o # Shown(r))
    BY <2>1, <2>2 DEF Passed
  <2> QED BY <1>2, <2>3, PassStep
<1> QED BY <1>3, <1>4

LEMMA DrawStep ==
  ASSUME ScrollAssumption, IInv, Release \/ Draw
  PROVE  IInv'
<1> DEFINE r == Rebased(painter)
<1>1. r \in Painter
  BY RebasedFacts DEF IInv, TypeOK, IFrames
<1>2. steps' \in 0..MaxSteps
  BY DEF Release, Draw, IInv, TypeOK
<1>3. CASE Release
  <2>0. r.held # "no"
    BY <1>3, DragOutlives DEF Release, IInv, TypeOK
  <2>1. PICK p \in Released(r) : Publish(p, FALSE)
    BY <1>3 DEF Release
  <2>2. Continued(r, p) /\ Shown(p) = Shown(r)
    BY <1>1, <2>1, <2>0, ReleasedFacts
  <2>3. Passed(p, FALSE)
    BY <2>1, <2>2 DEF Passed
  <2> QED BY <1>2, <2>3, PassStep
<1>4. CASE Draw
  <2>1. PICK p : (p = r \/ p \in Ticked(r)) /\ Publish(p, Shown(p) # Shown(r))
    BY <1>4 DEF Draw
  <2>2. Continued(r, p)
    BY <1>1, <2>1, TickedFacts DEF Continued
  <2>3. Passed(p, Shown(p) # Shown(r))
    BY <2>1, <2>2 DEF Passed
  <2> QED BY <1>2, <2>3, PassStep
<1> QED BY <1>3, <1>4

LEMMA InitInv ==
  ASSUME ScrollAssumption, Init
  PROVE  IInv
<1>1. TypeOK
  <2> DEFINE slot == [offset |-> 0, shift |-> 0, request |-> None]
  <2>1. slot \in Slot /\ 0 \in 0..MaxRequests /\ 0 \in 0..MaxSteps /\ 0 \in 0..MaxLayouts
    BY NoneIsNoInt DEF Slot
  <2>2. frame = [slot |-> slot, unread |-> FALSE] /\ told \in Entry
    BY <2>1 DEF Init, Entry
  <2>3. painter = [slot |-> slot, due |-> FALSE, live |-> None, handled |-> 0,
                   applied |-> 0, held |-> "no", glide |-> None, wheel |-> FALSE,
                   changed |-> FALSE]
    BY DEF Init
  <2> HIDE DEF slot
  <2>4. painter \in Painter /\ ~painter.changed
    BY <2>1, <2>3 DEF Painter
  <2>5. frame \in [slot: Slot, unread: BOOLEAN]
    BY <2>1, <2>2
  <2>6. /\ doc \in [offset: Int, shift: Nat, stale: BOOLEAN, moved: BOOLEAN, scrolling: BOOLEAN]
        /\ pending = None /\ serial = 0 /\ entered = FALSE /\ box = None /\ polled = FALSE
        /\ steps = 0 /\ layouts = 0 /\ standing = None
    BY DEF Init
  <2> QED BY <2>1, <2>2, <2>4, <2>5, <2>6 DEF TypeOK
<1>2. ISerials /\ IBox /\ IMoved /\ IFrames
  BY NoneIsNoInt DEF Init, ISerials, IBox, IMoved, IFrames, SerialOf, Moving
<1>3. IStands /\ IPending /\ DocumentFollows
  BY DEF Init, IStands, IPending, DocumentFollows
<1> QED BY <1>1, <1>2, <1>3 DEF IInv

LEMMA NextInv ==
  ASSUME ScrollAssumption, IInv, [Next]_vars
  PROVE  IInv'
<1>1. CASE UNCHANGED vars
  BY <1>1 DEF vars, IInv, TypeOK, ISerials, IBox, IMoved, IFrames, IStands, IPending,
     DocumentFollows, Heard, Moving, Agrees, Made, Base, SerialOf, RequestIsOnItsWay
<1>2. CASE \E t \in 0..Top, smooth, yields \in BOOLEAN : RequestScroll(t, smooth, yields)
  BY <1>2, RequestScrollStep
<1>3. CASE \E above \in BOOLEAN : Layout(above)
  BY <1>3, LayoutStep
<1>4. CASE AdoptPosted \/ Epilogue \/ PollLink
  BY <1>4, AdoptPostedStep, EpilogueStep, PollLinkStep
<1>5. CASE \E o \in 0..Top : Drag(o) \/ Wheel(o)
  BY <1>5, InputStep
<1>6. CASE Release \/ Draw
  BY <1>6, DrawStep
<1> QED BY <1>1, <1>2, <1>3, <1>4, <1>5, <1>6 DEF Next

(* The inductive invariant holds in every reachable state, types and the   *)
(* agreements between frames, mailbox and painter with it.                 *)
THEOREM Invariance == ASSUME ScrollAssumption PROVE Spec => []IInv
<1>1. Init => IInv
  BY InitInv
<1>2. IInv /\ [Next]_vars => IInv'
  BY NextInv
<1> QED BY <1>1, <1>2, PTL DEF Spec

(* Every reachable state is well typed (terminus/scroll, terminus/painter).*)
THEOREM TypeCorrect == ASSUME ScrollAssumption PROVE Spec => []TypeOK
<1>1. IInv => TypeOK
  BY DEF IInv
<1> QED BY <1>1, Invariance, PTL

(* Whatever request, adjustment or older post crosses the painter's word,  *)
(* the document ends where it put the container, and holds nothing to be   *)
(* scrolling that stands still (adopt_scroll_offsets).                     *)
THEOREM DocumentIsWherePosted ==
  ASSUME ScrollAssumption PROVE Spec => []DocumentFollows
<1>1. IInv => DocumentFollows
  BY DEF IInv
<1> QED BY <1>1, Invariance, PTL

(* A script-facing scroll is never undone by a post the painter made       *)
(* before it saw the request (scroll/request.rs).                          *)
THEOREM RequestsAreNotUndone ==
  ASSUME ScrollAssumption PROVE Spec => []RequestStands
<1>1. IInv => RequestStands
  BY DEF IInv, IStands, RequestStands, Agrees, TypeOK, Claim
<1> QED BY <1>1, Invariance, PTL

(* A pending request is on its way to the painter or answered              *)
(* (apply_request).                                                        *)
THEOREM RequestsAreNotLost ==
  ASSUME ScrollAssumption PROVE Spec => []RequestIsOnItsWay
<1>1. IInv => RequestIsOnItsWay
  BY DEF IInv, IPending, RequestIsOnItsWay
<1> QED BY <1>1, Invariance, PTL
-----------------------------------------------------------------------------
(* The workers beside it.                                                  *)
(* The numbers of the posts in a queue, and that they are in order.        *)
IsPost(s, i) == s[i].kind = "post"
Posts(s) == {s[i].n : i \in {j \in 1..Len(s) : IsPost(s, j)}}
Sorted(s) ==
  \A i, j \in 1..Len(s) : IsPost(s, i) /\ IsPost(s, j) /\ i < j => s[i].n < s[j].n
Precedes(s, t) == \A m \in Posts(s), n \in Posts(t) : m < n

(* A Start is sent once, of a worker that was created and is not being     *)
(* constructed any more.                                                   *)
LStarts ==
  /\ l_constructing # NoWorker => l_constructing \in l_sources
  /\ \A i \in 1..Len(l_commands) : l_commands[i] \in l_created \ {l_constructing}
  /\ \A i, j \in 1..Len(l_commands) : l_commands[i] = l_commands[j] => i = j

(* What has not been created or sent has no part in anything.              *)
LUnsent ==
  /\ \A k \in Workers \ l_created : l_task[k] = "none" /\ l_ends[k] = 0
  /\ \A k \in Workers : k \notin l_created \/ k = l_constructing =>
       k \notin l_live /\ l_posted[k] = 0 /\ l_messages[k] = <<>>

(* What is not served runs nothing and has no reporter.                    *)
LUnserved ==
  /\ l_constructing \in Workers => l_task[l_constructing] = "none"
  /\ \A i \in 1..Len(l_commands) : l_task[l_commands[i]] = "none"
  /\ \A k \in Workers : l_task[k] = "none" =>
       k \notin l_reporters /\ l_held[k] = <<>> /\ l_jobs[k] = <<>> /\ l_delivered[k] = <<>> /\ ~l_flushed[k]

(* The flag is raised before anybody is told.                              *)
LThread == l_thread \in {"up", "panicking"} => l_told = {}

(* Who has been told to go is kept no longer.                              *)
LLive == \A k \in l_live : \A i \in 1..Len(l_messages[k]) : l_messages[k][i].kind # "terminate"

(* Where the posts of a worker are: first those that are jobs, then those  *)
(* that are held, then those not read; until something opens there is no   *)
(* job of one and afterwards none is held.  `heard' were delivered of the  *)
(* `made' posts.                                                           *)
Places(queued, kept, unread, heard, made, open) ==
  /\ Sorted(queued) /\ Sorted(kept) /\ Sorted(unread)
  /\ Precedes(queued, kept) /\ Precedes(queued, unread) /\ Precedes(kept, unread)
  /\ \A n \in Posts(queued) \cup Posts(kept) \cup Posts(unread) : n > heard /\ n <= made
  /\ \A i \in 1..Len(kept) : IsPost(kept, i)
  /\ open => kept = <<>>
  /\ ~open => Posts(queued) = {}
  /\ heard <= made

LPlaces ==
  \A k \in Workers :
    Places(l_jobs[k], l_held[k], l_messages[k], Len(l_delivered[k]), l_posted[k], l_flushed[k])

(* None is lost while the worker lives.                                    *)
Whole(queued, kept, unread, heard, made) ==
  \A n \in 1..made :
    n > heard => n \in Posts(queued) \cup Posts(kept) \cup Posts(unread)

LWhole ==
  \A k \in Workers : l_task[k] \in {"none", "serving"} =>
    Whole(l_jobs[k], l_held[k], l_messages[k], Len(l_delivered[k]), l_posted[k])

LInv ==
  /\ LStarts /\ LUnsent /\ LUnserved /\ LThread /\ LLive /\ LPlaces /\ LWhole
  /\ L!EndIsAnnounced /\ L!EndReportedOnce /\ L!DeliveredInOrder

-----------------------------------------------------------------------------
(* Queues.                                                                 *)
LEMMA Appended ==
  ASSUME NEW S, NEW s \in Seq(S), NEW e \in S
  PROVE  /\ Append(s, e) \in Seq(S) /\ Len(Append(s, e)) = Len(s) + 1 /\ Len(s) \in Nat
         /\ \A i \in 1..Len(s) : Append(s, e)[i] = s[i]
         /\ Append(s, e)[Len(s) + 1] = e
         /\ Posts(Append(s, e)) = Posts(s) \cup IF e.kind = "post" THEN {e.n} ELSE {}
         /\ Sorted(s) /\ (e.kind = "post" => \A n \in Posts(s) : n < e.n) => Sorted(Append(s, e))
<1> DEFINE t == Append(s, e)
<1>1. /\ t \in Seq(S) /\ Len(t) = Len(s) + 1 /\ Len(s) \in Nat
      /\ \A i \in 1..Len(s) : t[i] = s[i]
      /\ t[Len(s) + 1] = e
  OBVIOUS
<1> HIDE DEF t
<1>2. \A i \in 1..Len(t) : i \in 1..Len(s) \/ i = Len(s) + 1
  BY <1>1
<1>3. Posts(t) = Posts(s) \cup IF e.kind = "post" THEN {e.n} ELSE {}
  <2>1. \A n \in Posts(t) : n \in Posts(s) \/ (e.kind = "post" /\ n = e.n)
    BY <1>1, <1>2 DEF Posts, IsPost
  <2>2. \A n \in Posts(s) : n \in Posts(t)
    BY <1>1 DEF Posts, IsPost
  <2>3. e.kind = "post" => e.n \in Posts(t)
    BY <1>1 DEF Posts, IsPost
  <2> QED BY <2>1, <2>2, <2>3
<1>4. ASSUME Sorted(s), e.kind = "post" => \A n \in Posts(s) : n < e.n
      PROVE  Sorted(t)
  <2> SUFFICES ASSUME NEW i \in 1..Len(t), NEW j \in 1..Len(t), IsPost(t, i), IsPost(t, j), i < j
               PROVE  t[i].n < t[j].n
    BY DEF Sorted
  <2>1. i \in 1..Len(s)
    BY <1>1, <1>2
  <2>2. CASE j \in 1..Len(s)
    BY <1>1, <1>4, <2>1, <2>2 DEF Sorted, IsPost
  <2>3. CASE j = Len(s) + 1
    <3>1. e.kind = "post" /\ t[i].n \in Posts(s)
      BY <1>1, <2>1, <2>3 DEF IsPost, Posts
    <3> QED BY <1>1, <1>4, <2>3, <3>1
  <2> QED BY <1>2, <2>2, <2>3
<1> QED BY <1>1, <1>3, <1>4 DEF t

LEMMA Beheaded ==
  ASSUME NEW S, NEW s \in Seq(S), s # <<>>
  PROVE  /\ Tail(s) \in Seq(S) /\ Head(s) \in S /\ Head(s) = s[1]
         /\ Len(s) \in Nat \ {0} /\ Len(Tail(s)) = Len(s) - 1
         /\ \A i \in 1..Len(Tail(s)) : i + 1 \in 1..Len(s) /\ Tail(s)[i] = s[i + 1]
         /\ \A i \in 1..Len(s) : i = 1 \/ (i - 1 \in 1..Len(Tail(s)) /\ s[i] = Tail(s)[i - 1])
         /\ Posts(s) = Posts(Tail(s)) \cup IF Head(s).kind = "post" THEN {Head(s).n} ELSE {}
         /\ Sorted(s) => Sorted(Tail(s))
         /\ Sorted(s) /\ Head(s).kind = "post" => \A n \in Posts(Tail(s)) : Head(s).n < n
<1> DEFINE t == Tail(s)
           h == Head(s)
<1>1. /\ t \in Seq(S) /\ h \in S /\ h = s[1]
      /\ Len(s) \in Nat \ {0} /\ Len(t) = Len(s) - 1
      /\ \A i \in 1..(Len(s) - 1) : t[i] = s[i + 1]
  OBVIOUS
<1> HIDE DEF t, h
<1>2. /\ \A i \in 1..Len(t) : i + 1 \in 1..Len(s) /\ t[i] = s[i + 1]
      /\ \A i \in 1..Len(s) : i = 1 \/ (i - 1 \in 1..Len(t) /\ s[i] = t[i - 1])
      /\ 1 \in 1..Len(s)
  BY <1>1
<1>3. Posts(s) = Posts(t) \cup IF h.kind = "post" THEN {h.n} ELSE {}
  <2>1. \A n \in Posts(s) : n \in Posts(t) \/ (h.kind = "post" /\ n = h.n)
    BY <1>1, <1>2 DEF Posts, IsPost
  <2>2. \A n \in Posts(t) : n \in Posts(s)
    BY <1>2 DEF Posts, IsPost
  <2>3. h.kind = "post" => h.n \in Posts(s)
    BY <1>1, <1>2 DEF Posts, IsPost
  <2> QED BY <2>1, <2>2, <2>3
<1>4. ASSUME Sorted(s)
      PROVE  Sorted(t) /\ (h.kind = "post" => \A n \in Posts(t) : h.n < n)
  <2>1. ASSUME NEW i \in 1..Len(t), NEW j \in 1..Len(t), IsPost(t, i), IsPost(t, j), i < j
        PROVE  t[i].n < t[j].n
    <3>1. i + 1 \in 1..Len(s) /\ j + 1 \in 1..Len(s) /\ t[i] = s[i + 1] /\ t[j] = s[j + 1]
      BY <1>2
    <3>2. i + 1 < j + 1 /\ IsPost(s, i + 1) /\ IsPost(s, j + 1)
      BY <2>1, <3>1 DEF IsPost
    <3> QED BY <1>4, <3>1, <3>2 DEF Sorted
  <2>2. ASSUME h.kind = "post", NEW i \in 1..Len(t), IsPost(t, i)
        PROVE  h.n < t[i].n
    <3>1. i + 1 \in 1..Len(s) /\ t[i] = s[i + 1] /\ 1 < i + 1 /\ IsPost(s, 1) /\ IsPost(s, i + 1)
      BY <1>1, <1>2, <2>2 DEF IsPost
    <3> QED BY <1>1, <1>2, <1>4, <3>1 DEF Sorted
  <2> QED BY <2>1, <2>2 DEF Sorted, Posts
<1> QED BY <1>1, <1>2, <1>3, <1>4 DEF t, h

LEMMA Joined ==
  ASSUME NEW S, NEW s \in Seq(S), NEW t \in Seq(S)
  PROVE  /\ s \o t \in Seq(S)
         /\ Posts(s \o t) = Posts(s) \cup Posts(t)
         /\ Sorted(s) /\ Sorted(t) /\ Precedes(s, t) => Sorted(s \o t)
<1> DEFINE u == s \o t
<1>1. /\ u \in Seq(S) /\ Len(u) = Len(s) + Len(t) /\ Len(s) \in Nat /\ Len(t) \in Nat
      /\ \A i \in 1..Len(s) : u[i] = s[i]
      /\ \A i \in 1..Len(t) : u[Len(s) + i] = t[i]
  OBVIOUS
<1> HIDE DEF u
<1>2. /\ \A i \in 1..Len(u) : i \in 1..Len(s) \/ (i - Len(s) \in 1..Len(t) /\ u[i] = t[i - Len(s)])
      /\ \A i \in 1..Len(s) : i \in 1..Len(u)
      /\ \A i \in 1..Len(t) : Len(s) + i \in 1..Len(u)
  <2>1. \A i \in 1..Len(u) : i \in 1..Len(s) \/ (i - Len(s) \in 1..Len(t) /\ i = Len(s) + (i - Len(s)))
    BY <1>1
  <2> QED BY SMTT(30), <1>1, <2>1
<1>3. Posts(u) = Posts(s) \cup Posts(t)
  <2>1. ASSUME NEW n \in Posts(u)
        PROVE  n \in Posts(s) \cup Posts(t)
    <3>1. PICK i \in 1..Len(u) : IsPost(u, i) /\ n = u[i].n
      BY DEF Posts
    <3>2. CASE i \in 1..Len(s)
      BY <1>1, <3>1, <3>2 DEF Posts, IsPost
    <3>3. CASE i - Len(s) \in 1..Len(t) /\ u[i] = t[i - Len(s)]
      BY <3>1, <3>3 DEF Posts, IsPost
    <3> QED BY <1>2, <3>2, <3>3
  <2>2. \A n \in Posts(s) : n \in Posts(u)
    BY <1>1, <1>2 DEF Posts, IsPost
  <2>3. ASSUME NEW n \in Posts(t)
        PROVE  n \in Posts(u)
    <3>1. PICK i \in 1..Len(t) : IsPost(t, i) /\ n = t[i].n
      BY DEF Posts
    <3>2. Len(s) + i \in 1..Len(u) /\ u[Len(s) + i] = t[i]
      BY <1>1, <1>2
    <3>3. IsPost(u, Len(s) + i)
      BY <3>1, <3>2 DEF IsPost
    <3> QED BY <3>1, <3>2, <3>3 DEF Posts
  <2> QED BY <2>1, <2>2, <2>3
<1>4. ASSUME Sorted(s), Sorted(t), Precedes(s, t)
      PROVE  Sorted(u)
  <2> SUFFICES ASSUME NEW i \in 1..Len(u), NEW j \in 1..Len(u), IsPost(u, i), IsPost(u, j), i < j
               PROVE  u[i].n < u[j].n
    BY DEF Sorted
  <2>1. CASE i \in 1..Len(s) /\ j \in 1..Len(s)
    BY <1>1, <1>4, <2>1 DEF Sorted, IsPost
  <2>2. CASE i \in 1..Len(s) /\ j \notin 1..Len(s)
    <3>1. u[i].n \in Posts(s) /\ u[j].n \in Posts(t)
      BY <1>1, <1>2, <2>2 DEF Posts, IsPost
    <3> QED BY <1>4, <3>1 DEF Precedes
  <2>3. CASE i \notin 1..Len(s)
    <3>1. /\ i - Len(s) \in 1..Len(t) /\ j - Len(s) \in 1..Len(t) /\ i - Len(s) < j - Len(s)
          /\ u[i] = t[i - Len(s)] /\ u[j] = t[j - Len(s)]
      <4>1. j \notin 1..Len(s)
        BY <1>1, <2>3
      <4> QED BY <1>1, <1>2, <2>3, <4>1
    <3> QED BY <1>4, <3>1 DEF Sorted, IsPost
  <2> QED BY <2>1, <2>2, <2>3
<1> QED BY <1>1, <1>3, <1>4 DEF u

LEMMA Empty == Posts(<<>>) = {} /\ Sorted(<<>>) /\ \A S : <<>> \in Seq(S)
BY DEF Posts, Sorted

LEMMA Single ==
  ASSUME NEW S, NEW e \in S
  PROVE  /\ <<e>> \in Seq(S) /\ Sorted(<<e>>)
         /\ Posts(<<e>>) = IF e.kind = "post" THEN {e.n} ELSE {}
<1>1. <<e>> \in Seq(S) /\ Len(<<e>>) = 1 /\ <<e>>[1] = e
  OBVIOUS
<1> QED BY <1>1 DEF Sorted, Posts, IsPost

-----------------------------------------------------------------------------
(* What an operation does to the places of one worker's posts.             *)
Item == [kind : {"boot", "load", "post", "answer", "terminate"}, n : 0..MaxPosts]

LEMMA PostsAreNumbers ==
  ASSUME MaxPosts \in Nat, NEW s \in Seq(Item)
  PROVE  \A n \in Posts(s) : n \in Nat
<1> SUFFICES ASSUME NEW i \in 1..Len(s)
             PROVE  s[i].n \in Nat
  BY DEF Posts
<1>1. s[i] \in Item
  OBVIOUS
<1> QED BY <1>1 DEF Item

(* postMessage.                                                            *)
LEMMA PostPlaces ==
  ASSUME MaxPosts \in Nat, NEW q \in Seq(Item), NEW h \in Seq(Item), NEW u \in Seq(Item),
         NEW d \in Nat, NEW m \in 0..MaxPosts, NEW o \in BOOLEAN,
         Places(q, h, u, d, m, o), m + 1 <= MaxPosts
  PROVE  /\ Places(q, h, Append(u, L!PostNumbered(m + 1)), d, m + 1, o)
         /\ Whole(q, h, u, d, m) => Whole(q, h, Append(u, L!PostNumbered(m + 1)), d, m + 1)
<1> DEFINE e == L!PostNumbered(m + 1)
           v == Append(u, e)
<1>1. e \in Item /\ e.kind = "post" /\ e.n = m + 1
  BY DEF L!PostNumbered, Item
<1> HIDE DEF e
<1>2. /\ Posts(v) = Posts(u) \cup {m + 1}
      /\ (\A n \in Posts(u) : n < m + 1) => Sorted(v)
  BY <1>1, Appended DEF Places
<1> HIDE DEF v
<1>3. \A n \in Posts(q) \cup Posts(h) \cup Posts(u) : n \in Nat
  BY PostsAreNumbers
<1>4. Sorted(v) /\ Precedes(q, v) /\ Precedes(h, v)
  BY <1>2, <1>3 DEF Places, Precedes
<1>5. \A n \in Posts(q) \cup Posts(h) \cup Posts(v) : n > d /\ n <= m + 1
  <2>1. d <= m
    BY DEF Places
  <2>2. \A n \in Posts(q) \cup Posts(h) \cup Posts(u) : n > d /\ n <= m
    BY DEF Places
  <2> QED BY <1>2, <1>3, <2>1, <2>2
<1>6. ASSUME Whole(q, h, u, d, m)
      PROVE  Whole(q, h, v, d, m + 1)
  BY <1>2, <1>6 DEF Whole
<1>7. Places(q, h, v, d, m + 1, o)
  <2>1. d <= m + 1
    BY DEF Places
  <2> QED BY <1>4, <1>5, <2>1 DEF Places
<1> QED BY <1>6, <1>7 DEF v, e

(* A message that is no post is sent.                                      *)
LEMMA SayPlaces ==
  ASSUME NEW q \in Seq(Item), NEW h \in Seq(Item), NEW u \in Seq(Item),
         NEW d, NEW m, NEW o, NEW e \in Item, e.kind # "post",
         Places(q, h, u, d, m, o)
  PROVE  /\ Places(q, h, Append(u, e), d, m, o)
         /\ Whole(q, h, u, d, m) => Whole(q, h, Append(u, e), d, m)
<1>1. Posts(Append(u, e)) = Posts(u) \cup (IF e.kind = "post" THEN {e.n} ELSE {})
  BY Appended
<1>2. Posts(Append(u, e)) = Posts(u)
  BY <1>1
<1>3. Sorted(Append(u, e))
  BY Appended DEF Places
<1> QED BY <1>2, <1>3 DEF Places, Whole, Precedes

(* A job that is no post is queued.                                        *)
LEMMA QueuePlaces ==
  ASSUME NEW q \in Seq(Item), NEW h \in Seq(Item), NEW u \in Seq(Item),
         NEW d, NEW m, NEW o, NEW e \in Item, e.kind # "post",
         Places(q, h, u, d, m, o)
  PROVE  /\ Places(q \o <<e>>, h, u, d, m, o)
         /\ Whole(q, h, u, d, m) => Whole(q \o <<e>>, h, u, d, m)
<1>1. PICK r \in Seq(Item) : r = <<e>> /\ Posts(r) = {} /\ Sorted(r)
  BY Single
<1>2. Precedes(q, r) /\ Sorted(q)
  BY <1>1 DEF Precedes, Places
<1>3. Posts(q \o r) = Posts(q) \cup Posts(r) /\ Sorted(q \o r)
  BY ZenonT(60), <1>1, <1>2, Joined
<1>4. Posts(q \o r) = Posts(q)
  BY <1>1, <1>3
<1>5. Places(q \o r, h, u, d, m, o) /\ (Whole(q, h, u, d, m) => Whole(q \o r, h, u, d, m))
  BY <1>3, <1>4 DEF Places, Whole, Precedes
<1> QED BY <1>1, <1>5

(* A post is held.                                                         *)
LEMMA KeepPlaces ==
  ASSUME NEW q \in Seq(Item), NEW h \in Seq(Item), NEW u \in Seq(Item),
         NEW d, NEW m, u # <<>>, Head(u).kind = "post",
         Places(q, h, u, d, m, FALSE)
  PROVE  /\ Places(q, Append(h, Head(u)), Tail(u), d, m, FALSE)
         /\ Whole(q, h, u, d, m) => Whole(q, Append(h, Head(u)), Tail(u), d, m)
<1>1. PICK e \in Item : e = Head(u)
  BY Beheaded
<1>2. /\ Posts(u) = Posts(Tail(u)) \cup {e.n} /\ Sorted(Tail(u))
      /\ \A n \in Posts(Tail(u)) : e.n < n
  BY <1>1, Beheaded DEF Places
<1>3. \A n \in Posts(h) : n < e.n
  BY <1>2 DEF Places, Precedes
<1> DEFINE g == Append(h, e)
<1>4. /\ Posts(g) = Posts(h) \cup {e.n} /\ Sorted(g)
      /\ Len(g) = Len(h) + 1 /\ Len(h) \in Nat
      /\ \A i \in 1..Len(h) : g[i] = h[i]
      /\ g[Len(h) + 1] = e
  BY <1>1, <1>3, Appended DEF Places
<1> HIDE DEF g
<1>5. \A i \in 1..Len(g) : IsPost(g, i)
  <2>1. \A i \in 1..Len(g) : i \in 1..Len(h) \/ i = Len(h) + 1
    BY <1>4
  <2> QED BY <1>1, <1>4, <2>1 DEF Places, IsPost
<1>6. Precedes(q, g) /\ Precedes(q, Tail(u)) /\ Precedes(g, Tail(u))
  BY <1>2, <1>4 DEF Places, Precedes
<1>7. Posts(g) \cup Posts(Tail(u)) = Posts(h) \cup Posts(u)
  BY <1>2, <1>4
<1>8. Places(q, g, Tail(u), d, m, FALSE)
  BY <1>2, <1>4, <1>5, <1>6, <1>7 DEF Places
<1>9. Whole(q, h, u, d, m) => Whole(q, g, Tail(u), d, m)
  BY <1>7 DEF Whole
<1> QED BY <1>1, <1>8, <1>9 DEF g

(* What is read becomes a job.                                             *)
LEMMA PassPlaces ==
  ASSUME NEW q \in Seq(Item), NEW h \in Seq(Item), NEW u \in Seq(Item),
         NEW d, NEW m, NEW o \in BOOLEAN, u # <<>>, o \/ Head(u).kind # "post",
         Places(q, h, u, d, m, o)
  PROVE  /\ Places(q \o <<Head(u)>>, h, Tail(u), d, m, o)
         /\ Whole(q, h, u, d, m) => Whole(q \o <<Head(u)>>, h, Tail(u), d, m)
<1>1. PICK e \in Item : e = Head(u)
  BY Beheaded
<1>2. /\ Posts(u) = Posts(Tail(u)) \cup (IF e.kind = "post" THEN {e.n} ELSE {})
      /\ Sorted(Tail(u))
      /\ e.kind = "post" => \A n \in Posts(Tail(u)) : e.n < n
  BY <1>1, Beheaded DEF Places
<1>3. PICK r \in Seq(Item) :
        r = <<e>> /\ Sorted(r) /\ Posts(r) = IF e.kind = "post" THEN {e.n} ELSE {}
  BY Single
<1>4. Precedes(q, r)
  BY <1>2, <1>3 DEF Places, Precedes
<1>5. Posts(q \o r) = Posts(q) \cup Posts(r) /\ Sorted(q \o r)
  <2>1. /\ Posts(q \o r) = Posts(q) \cup Posts(r)
        /\ Sorted(q) /\ Sorted(r) /\ Precedes(q, r) => Sorted(q \o r)
    <3> HIDE <1>1, <1>2, <1>3, <1>4
    <3> QED BY Joined
  <2> QED BY <1>3, <1>4, <2>1 DEF Places
<1>6. /\ Precedes(q \o r, h) /\ Precedes(q \o r, Tail(u)) /\ Precedes(h, Tail(u))
  <2>1. Precedes(h, Tail(u)) /\ Precedes(q \o r, Tail(u))
    BY <1>2, <1>3, <1>5 DEF Places, Precedes
  <2>2. CASE o
    BY <2>1, <2>2, Empty DEF Places, Precedes
  <2>3. CASE e.kind # "post"
    BY <1>3, <1>5, <2>1, <2>3 DEF Places, Precedes
  <2> QED BY <1>1, <2>1, <2>2, <2>3
<1>7. Posts(q \o r) \cup Posts(Tail(u)) = Posts(q) \cup Posts(u)
  BY <1>2, <1>3, <1>5
<1>8. Places(q \o r, h, Tail(u), d, m, o)
  <2>1. ~o => Posts(q \o r) = {}
    BY <1>1, <1>3, <1>5 DEF Places
  <2> QED BY <1>2, <1>5, <1>6, <1>7, <2>1 DEF Places
<1>9. Whole(q, h, u, d, m) => Whole(q \o r, h, Tail(u), d, m)
  BY <1>7 DEF Whole
<1> QED BY <1>1, <1>3, <1>8, <1>9

(* What is held is let through.                                            *)
LEMMA OpenPlaces ==
  ASSUME NEW q \in Seq(Item), NEW h \in Seq(Item), NEW u \in Seq(Item),
         NEW d, NEW m, Places(q, h, u, d, m, FALSE)
  PROVE  /\ Places(q \o h, <<>>, u, d, m, TRUE)
         /\ Whole(q, h, u, d, m) => Whole(q \o h, <<>>, u, d, m)
<1>1. Posts(q \o h) = Posts(q) \cup Posts(h) /\ Sorted(q \o h)
  BY Joined DEF Places
<1>2. Precedes(q \o h, <<>>) /\ Precedes(q \o h, u) /\ Precedes(<<>>, u)
  BY <1>1, Empty DEF Places, Precedes
<1>3. \A i \in 1..Len(<<>>) : IsPost(<<>>, i)
  OBVIOUS
<1>4. Places(q \o h, <<>>, u, d, m, TRUE)
  BY <1>1, <1>2, <1>3, Empty DEF Places
<1>5. Whole(q, h, u, d, m) => Whole(q \o h, <<>>, u, d, m)
  BY <1>1, Empty DEF Whole
<1> QED BY <1>4, <1>5

(* A message is read, and nothing done with it.                            *)
LEMMA ReadPlaces ==
  ASSUME NEW q \in Seq(Item), NEW h \in Seq(Item), NEW u \in Seq(Item),
         NEW d, NEW m, NEW o, u # <<>>, Places(q, h, u, d, m, o)
  PROVE  Places(q, h, Tail(u), d, m, o)
<1>1. Posts(Tail(u)) \subseteq Posts(u) /\ Sorted(Tail(u))
  BY Beheaded DEF Places
<1> QED BY <1>1 DEF Places, Precedes

(* A job is dropped, or has run and was no post.                           *)
LEMMA DropPlaces ==
  ASSUME NEW q \in Seq(Item), NEW h \in Seq(Item), NEW u \in Seq(Item),
         NEW d, NEW m, NEW o, q # <<>>, Places(q, h, u, d, m, o)
  PROVE  /\ Places(Tail(q), h, u, d, m, o)
         /\ Whole(q, h, u, d, m) /\ Head(q).kind # "post" => Whole(Tail(q), h, u, d, m)
<1>1. /\ Posts(q) = Posts(Tail(q)) \cup (IF Head(q).kind = "post" THEN {Head(q).n} ELSE {})
      /\ Sorted(q) => Sorted(Tail(q))
  BY Beheaded
<1>2. Places(Tail(q), h, u, d, m, o)
  BY <1>1 DEF Places, Precedes
<1> QED BY <1>1, <1>2 DEF Whole

(* A post is handed over: it is the next.                                  *)
LEMMA HandPlaces ==
  ASSUME MaxPosts \in Nat, NEW q \in Seq(Item), NEW h \in Seq(Item), NEW u \in Seq(Item),
         NEW d \in Nat, NEW m \in 0..MaxPosts, NEW o, q # <<>>, Head(q).kind = "post",
         Places(q, h, u, d, m, o), Whole(q, h, u, d, m)
  PROVE  /\ Head(q).n = d + 1 /\ d + 1 <= m
         /\ Places(Tail(q), h, u, d + 1, m, o) /\ Whole(Tail(q), h, u, d + 1, m)
<1>1. PICK e \in Item : e = Head(q)
  BY Beheaded
<1>2. /\ Posts(q) = Posts(Tail(q)) \cup {e.n} /\ Sorted(Tail(q))
      /\ \A n \in Posts(Tail(q)) : e.n < n
  BY <1>1, Beheaded DEF Places
<1>3. e.n \in Nat /\ e.n > d /\ e.n <= m
  BY <1>2 DEF Places, Item
<1>4. \A n \in Posts(Tail(q)) \cup Posts(h) \cup Posts(u) : n \in Nat /\ e.n < n
  <2>1. \A n \in Posts(h) \cup Posts(u) \cup Posts(q) : n \in Nat
    BY PostsAreNumbers
  <2> QED BY <1>2, <2>1 DEF Places, Precedes
<1>5. e.n = d + 1
  <2>1. SUFFICES ASSUME e.n # d + 1 PROVE FALSE
    OBVIOUS
  <2>2. d + 1 \in 1..m /\ d + 1 > d /\ d + 1 < e.n
    BY <1>3, <2>1
  <2>3. d + 1 \in Posts(q) \cup Posts(h) \cup Posts(u)
    BY <2>2 DEF Whole
  <2> QED BY <1>2, <1>3, <1>4, <2>2, <2>3
<1>6. Places(Tail(q), h, u, d + 1, m, o)
  <2>1. Precedes(Tail(q), h) /\ Precedes(Tail(q), u)
    BY <1>2 DEF Places, Precedes
  <2>2. \A n \in Posts(Tail(q)) \cup Posts(h) \cup Posts(u) : n > d + 1 /\ n <= m
    BY <1>2, <1>4, <1>5 DEF Places
  <2>3. d + 1 <= m
    BY <1>3, <1>5
  <2> QED BY <1>2, <2>1, <2>2, <2>3 DEF Places
<1>7. Whole(Tail(q), h, u, d + 1, m)
  <2> SUFFICES ASSUME NEW n \in 1..m, n > d + 1
               PROVE  n \in Posts(Tail(q)) \cup Posts(h) \cup Posts(u)
    BY DEF Whole
  <2>1. n \in Posts(q) \cup Posts(h) \cup Posts(u)
    BY DEF Whole
  <2> QED BY <1>2, <1>5, <2>1
<1> QED BY <1>1, <1>3, <1>5, <1>6, <1>7

-----------------------------------------------------------------------------
(* What every step's proof starts from and ends with.                      *)
LEMMA Parts ==
  ASSUME LInv
  PROVE  /\ L!TypeOK /\ LStarts /\ LUnsent /\ LUnserved /\ LThread /\ LLive /\ LPlaces /\ LWhole
         /\ L!EndIsAnnounced /\ L!EndReportedOnce /\ L!DeliveredInOrder
BY DEF LInv, L!EndIsAnnounced

LEMMA ItemSeqs ==
  /\ \A s \in Seq(L!Message) : s \in Seq(Item)
  /\ \A s \in Seq(L!Job) : s \in Seq(Item)
<1>1. L!Message \subseteq Item /\ L!Job \subseteq Item
  BY DEF L!Message, L!Job, Item
<1>2. \A s \in Seq(L!Message) : s \in Seq(Item)
  BY <1>1
<1>3. \A s \in Seq(L!Job) : s \in Seq(Item)
  BY <1>1
<1> QED BY <1>2, <1>3

LEMMA Items ==
  ASSUME L!TypeOK, NEW k \in Workers
  PROVE  /\ l_jobs[k] \in Seq(Item) /\ l_held[k] \in Seq(Item) /\ l_messages[k] \in Seq(Item)
         /\ l_jobs[k] \in Seq(L!Job) /\ l_held[k] \in Seq(L!Message) /\ l_messages[k] \in Seq(L!Message)
         /\ Len(l_delivered[k]) \in Nat /\ l_posted[k] \in 0..MaxPosts /\ l_flushed[k] \in BOOLEAN
<1>1. /\ l_jobs[k] \in Seq(L!Job) /\ l_held[k] \in Seq(L!Message) /\ l_messages[k] \in Seq(L!Message)
      /\ Len(l_delivered[k]) \in Nat /\ l_posted[k] \in 0..MaxPosts /\ l_flushed[k] \in BOOLEAN
  BY DEF L!TypeOK
<1> QED BY <1>1, ItemSeqs

(* A step that leaves every queue alone and brings no worker back to life. *)
LEMMA PlacesStand ==
  ASSUME LPlaces, LWhole, UNCHANGED <<l_jobs, l_held, l_messages, l_delivered, l_posted, l_flushed>>,
         \A o \in Workers : l_task'[o] \in {"none", "serving"} => l_task[o] \in {"none", "serving"}
  PROVE  LPlaces' /\ LWhole'
<1>1. /\ l_jobs' = l_jobs /\ l_held' = l_held /\ l_messages' = l_messages /\ l_delivered' = l_delivered
      /\ l_posted' = l_posted /\ l_flushed' = l_flushed
  OBVIOUS
<1>2. LPlaces'
  BY <1>1 DEF LPlaces
<1>3. LWhole'
  BY <1>1 DEF LWhole
<1> QED BY <1>2, <1>3

(* A step that touches the queues of one worker only.                      *)
LEMMA PlacesElsewhere ==
  ASSUME LPlaces, LWhole, NEW k \in Workers,
         \A o \in Workers \ {k} :
           /\ l_jobs'[o] = l_jobs[o] /\ l_held'[o] = l_held[o] /\ l_messages'[o] = l_messages[o]
           /\ l_delivered'[o] = l_delivered[o] /\ l_posted'[o] = l_posted[o] /\ l_flushed'[o] = l_flushed[o]
           /\ l_task'[o] = l_task[o],
         Places(l_jobs'[k], l_held'[k], l_messages'[k], Len(l_delivered'[k]), l_posted'[k], l_flushed'[k]),
         l_task'[k] \in {"none", "serving"} =>
           Whole(l_jobs'[k], l_held'[k], l_messages'[k], Len(l_delivered'[k]), l_posted'[k])
  PROVE  LPlaces' /\ LWhole'
<1>1. ASSUME NEW o \in Workers \ {k}
      PROVE  Places(l_jobs'[o], l_held'[o], l_messages'[o], Len(l_delivered'[o]), l_posted'[o], l_flushed'[o])
  BY <1>1 DEF LPlaces
<1>2. ASSUME NEW o \in Workers \ {k}, l_task'[o] \in {"none", "serving"}
      PROVE  Whole(l_jobs'[o], l_held'[o], l_messages'[o], Len(l_delivered'[o]), l_posted'[o])
  BY <1>2 DEF LWhole
<1>3. LPlaces'
  BY <1>1 DEF LPlaces
<1>4. LWhole'
  BY <1>2 DEF LWhole
<1> QED BY <1>3, <1>4

(* What has been said is not unsaid but by the page that reads it.         *)
LEMMA Saying ==
  ASSUME L!TypeOK, NEW k \in Workers, NEW p \in {"closed", "failed"}, L!Say(k, p)
  PROVE  /\ l_events' \in Seq(L!End)
         /\ \A o : (\E i \in DOMAIN l_events : l_events[i].key = o) =>
                      \E i \in DOMAIN l_events' : l_events'[i].key = o
         /\ \E i \in DOMAIN l_events' : l_events'[i].key = k
<1> DEFINE e == [key |-> k, payload |-> p]
<1>1. e \in L!End /\ e.key = k /\ l_events \in Seq(L!End) /\ l_events' = Append(l_events, e)
  BY DEF L!End, L!TypeOK, L!Say
<1> HIDE DEF e
<1>2. /\ l_events' \in Seq(L!End) /\ Len(l_events') = Len(l_events) + 1 /\ Len(l_events) \in Nat
      /\ \A i \in 1..Len(l_events) : l_events'[i] = l_events[i]
      /\ l_events'[Len(l_events) + 1] = e
  BY <1>1
<1>3. DOMAIN l_events = 1..Len(l_events) /\ DOMAIN l_events' = 1..Len(l_events')
  BY <1>1, <1>2
<1> QED BY <1>1, <1>2, <1>3

-----------------------------------------------------------------------------
LEMMA LInitInv == L!WorkerAssumption /\ L!Init => LInv
<1> SUFFICES ASSUME L!WorkerAssumption, L!Init PROVE LInv
  OBVIOUS
<1> USE DEF L!Init, L!WorkerAssumption
<1>1. L!TypeOK
  <2>1. /\ l_flushed \in [Workers -> BOOLEAN] /\ l_terminal_reported \in [Workers -> BOOLEAN]
        /\ l_panic_reported \in [Workers -> BOOLEAN] /\ l_released \in BOOLEAN
    OBVIOUS
  <2>2. /\ l_messages \in [Workers -> Seq(L!Message)] /\ l_held \in [Workers -> Seq(L!Message)]
        /\ l_jobs \in [Workers -> Seq(L!Job)] /\ l_delivered \in [Workers -> Seq(1..MaxPosts)]
        /\ l_commands \in Seq(Workers) /\ l_events \in Seq(L!End)
    OBVIOUS
  <2> QED BY <2>1, <2>2 DEF L!TypeOK
<1>2. LStarts /\ LUnsent /\ LUnserved /\ LThread /\ LLive
  BY DEF LStarts, LUnsent, LUnserved, LThread, LLive
<1>3. LPlaces
  <2> SUFFICES ASSUME NEW k \in Workers
               PROVE  Places(<<>>, <<>>, <<>>, 0, 0, FALSE)
    BY DEF LPlaces
  <2> QED BY Empty DEF Places, Precedes
<1>4. LWhole
  BY DEF LWhole, Whole
<1>5. L!EndIsAnnounced /\ L!EndReportedOnce /\ L!DeliveredInOrder
  BY <1>1 DEF L!EndIsAnnounced, L!EndReportedOnce, L!DeliveredInOrder
<1> QED BY <1>1, <1>2, <1>3, <1>4, <1>5 DEF LInv

LEMMA ConstructInv ==
  ASSUME L!WorkerAssumption, LInv, NEW k \in Workers, L!Construct(k)
  PROVE  LInv'
<1>1. /\ L!TypeOK /\ LStarts /\ LUnsent /\ LUnserved /\ LThread /\ LLive /\ LPlaces /\ LWhole
      /\ L!EndIsAnnounced /\ L!EndReportedOnce /\ L!DeliveredInOrder
  BY Parts
<1>2. /\ l_constructing = NoWorker /\ k \notin l_created
      /\ l_created' = l_created \cup {k} /\ l_sources' = l_sources \cup {k}
      /\ (L!Trapped /\ L!Say(k, "failed") /\ l_constructing' = NoWorker)
           \/ (~L!Trapped /\ l_events' = l_events /\ l_constructing' = k)
      /\ UNCHANGED <<l_released, l_live, l_posted, l_ends, l_commands, l_messages, l_thread, l_told, l_reporters,
                     l_task, l_root, l_held, l_flushed, l_jobs, l_delivered, l_terminal_reported, l_panic_reported>>
  BY DEF L!Construct, L!trap, L!script, L!reports
<1>3. /\ l_events' \in Seq(L!End)
      /\ \A o : (\E i \in DOMAIN l_events : l_events[i].key = o) =>
                   \E i \in DOMAIN l_events' : l_events'[i].key = o
  BY <1>1, <1>2, Saying DEF L!TypeOK
<1>4. L!TypeOK'
  BY <1>1, <1>2, <1>3 DEF L!TypeOK
<1>5. LStarts' /\ LUnsent' /\ LUnserved'
  <2>1. LStarts'
    <3>1. l_constructing' # NoWorker => l_constructing' \in l_sources'
      BY <1>2
    <3>2. \A i \in 1..Len(l_commands) : l_commands[i] \in l_created /\ l_commands[i] # l_constructing'
      BY ZenonT(60), <1>1, <1>2 DEF LStarts, L!TypeOK, L!WorkerAssumption
    <3> QED BY <1>1, <1>2, <3>1, <3>2 DEF LStarts
  <2>2. LUnsent'
    BY <1>1, <1>2 DEF LUnsent, L!TypeOK, L!WorkerAssumption
  <2>3. LUnserved'
    BY <1>1, <1>2 DEF LUnserved, LUnsent, L!TypeOK, L!WorkerAssumption
  <2> QED BY <2>1, <2>2, <2>3
<1>6. LThread' /\ LLive'
  BY <1>1, <1>2 DEF LThread, LLive
<1>7. LPlaces' /\ LWhole'
  BY <1>1, <1>2, PlacesStand
<1>8. L!EndIsAnnounced'
  BY <1>1, <1>2, <1>3, <1>4 DEF L!EndIsAnnounced
<1>9. L!EndReportedOnce' /\ L!DeliveredInOrder'
  BY <1>1, <1>2 DEF L!EndReportedOnce, L!DeliveredInOrder, LUnsent
<1> QED BY <1>4, <1>5, <1>6, <1>7, <1>8, <1>9 DEF LInv

LEMMA SendStartInv ==
  ASSUME L!WorkerAssumption, LInv, L!SendStart
  PROVE  LInv'
<1>1. /\ L!TypeOK /\ LStarts /\ LUnsent /\ LUnserved /\ LThread /\ LLive /\ LPlaces /\ LWhole
      /\ L!EndIsAnnounced /\ L!EndReportedOnce /\ L!DeliveredInOrder
  BY Parts
<1>2. PICK k \in Workers : k = l_constructing
  BY <1>1 DEF L!SendStart, L!TypeOK
<1>3. /\ l_constructing' = NoWorker
      /\ \/ /\ l_commands' = Append(l_commands, k) /\ l_live' = l_live \cup {k} /\ l_events' = l_events
         \/ /\ L!Say(k, "failed") /\ l_commands' = l_commands /\ l_live' = l_live
      /\ UNCHANGED <<l_released, l_created, l_sources, l_posted, l_ends, l_messages, l_thread, l_told, l_reporters,
                     l_task, l_root, l_held, l_flushed, l_jobs, l_delivered, l_terminal_reported, l_panic_reported>>
  BY <1>2 DEF L!SendStart, L!trap, L!script, L!reports
<1>4. k \in l_sources /\ k \in l_created /\ k # NoWorker
  BY <1>1, <1>2 DEF LStarts, L!TypeOK, L!WorkerAssumption
<1>5. l_task[k] = "none" /\ k \notin l_reporters /\ l_messages[k] = <<>> /\ k \notin l_told
  BY <1>1, <1>2 DEF LUnserved, LUnsent, L!TypeOK
<1>6. /\ l_events' \in Seq(L!End)
      /\ \A o : (\E i \in DOMAIN l_events : l_events[i].key = o) =>
                   \E i \in DOMAIN l_events' : l_events'[i].key = o
  BY <1>1, <1>3, Saying DEF L!TypeOK
<1>7. /\ l_commands' \in Seq(Workers) /\ Len(l_commands) \in Nat
      /\ \A i \in 1..Len(l_commands') : (i \in 1..Len(l_commands) /\ l_commands'[i] = l_commands[i])
           \/ (i = Len(l_commands) + 1 /\ l_commands'[i] = k)
  <2>1. l_commands \in Seq(Workers)
    BY <1>1 DEF L!TypeOK
  <2>2. CASE l_commands' = l_commands
    BY <2>1, <2>2
  <2>3. CASE l_commands' = Append(l_commands, k)
    <3>1. /\ l_commands' \in Seq(Workers) /\ Len(l_commands') = Len(l_commands) + 1 /\ Len(l_commands) \in Nat
          /\ \A i \in 1..Len(l_commands) : l_commands'[i] = l_commands[i]
          /\ l_commands'[Len(l_commands) + 1] = k
      BY <2>1, <2>3
    <3>2. \A i \in 1..Len(l_commands') : i \in 1..Len(l_commands) \/ i = Len(l_commands) + 1
      BY <3>1
    <3> QED BY <3>1, <3>2
  <2> QED BY <1>3, <2>2, <2>3
<1>8. L!TypeOK'
  BY <1>1, <1>3, <1>4, <1>6, <1>7 DEF L!TypeOK
<1>9. LStarts'
  <2>1. \A i \in 1..Len(l_commands) : l_commands[i] \in l_created /\ l_commands[i] # k
    BY <1>1, <1>2 DEF LStarts
  <2>2. \A i \in 1..Len(l_commands') : l_commands'[i] \in l_created' \ {l_constructing'}
    BY <1>3, <1>4, <1>7, <2>1, <1>1 DEF L!TypeOK, L!WorkerAssumption
  <2>3. \A i, j \in 1..Len(l_commands') : l_commands'[i] = l_commands'[j] => i = j
    BY <1>1, <1>7, <2>1 DEF LStarts
  <2> QED BY <1>3, <2>2, <2>3 DEF LStarts
<1>10. LUnsent'
  <2>1. \A o \in Workers \ l_created' : l_task'[o] = "none" /\ l_ends'[o] = 0
    BY <1>1, <1>3 DEF LUnsent
  <2>2. ASSUME NEW o \in Workers, o \notin l_created' \/ o = l_constructing'
        PROVE  o \notin l_live' /\ l_posted'[o] = 0 /\ l_messages'[o] = <<>>
    <3>1. o \notin l_created /\ o # k
      BY <1>3, <1>4, <2>2 DEF L!WorkerAssumption
    <3> QED BY <1>1, <1>3, <3>1 DEF LUnsent
  <2> QED BY <2>1, <2>2 DEF LUnsent
<1>11. LUnserved'
  BY <1>1, <1>3, <1>5, <1>7 DEF LUnserved, L!WorkerAssumption
<1>12. LThread' /\ LLive'
  <2>1. LThread'
    BY <1>1, <1>3 DEF LThread
  <2>2. \A o \in l_live' : o \in l_live \/ l_messages'[o] = <<>>
    BY <1>3, <1>5
  <2>3. LLive'
    BY <1>1, <1>3, <2>2 DEF LLive
  <2> QED BY <2>1, <2>3
<1>13. LPlaces' /\ LWhole'
  BY <1>1, <1>3, PlacesStand
<1>14. L!EndIsAnnounced'
  BY <1>1, <1>3, <1>5, <1>6, <1>8 DEF L!EndIsAnnounced
<1>15. L!EndReportedOnce' /\ L!DeliveredInOrder'
  BY <1>1, <1>3 DEF L!EndReportedOnce, L!DeliveredInOrder
<1> QED BY <1>8, <1>9, <1>10, <1>11, <1>12, <1>13, <1>14, <1>15 DEF LInv

LEMMA PostInv ==
  ASSUME L!WorkerAssumption, LInv, NEW k \in Workers, L!Post(k)
  PROVE  LInv'
<1>1. /\ L!TypeOK /\ LStarts /\ LUnsent /\ LUnserved /\ LThread /\ LLive /\ LPlaces /\ LWhole
      /\ L!EndIsAnnounced /\ L!EndReportedOnce /\ L!DeliveredInOrder
  BY Parts
<1>2. /\ k \in l_live /\ l_posted[k] < MaxPosts /\ l_posted' = [l_posted EXCEPT ![k] = @ + 1]
      /\ l_messages' = [l_messages EXCEPT ![k] = Append(@, L!PostNumbered(l_posted'[k]))]
      /\ UNCHANGED <<l_released, l_constructing, l_created, l_live, l_sources, l_ends, l_commands, l_events,
                     l_thread, l_told, l_reporters, l_task, l_root, l_held, l_flushed, l_jobs, l_delivered,
                     l_terminal_reported, l_panic_reported>>
  BY DEF L!Post, L!trap, L!script, L!reports
<1> DEFINE e == L!PostNumbered(l_posted[k] + 1)
<1>3. l_posted[k] \in 0..MaxPosts /\ l_posted[k] + 1 \in 0..MaxPosts /\ l_posted'[k] = l_posted[k] + 1
  BY <1>1, <1>2 DEF L!TypeOK, L!WorkerAssumption
<1>4. e \in L!Message /\ e \in Item /\ e.kind = "post"
  BY <1>3 DEF L!Message, Item, L!PostNumbered
<1>5. /\ l_messages'[k] = Append(l_messages[k], e) /\ l_messages[k] \in Seq(L!Message)
      /\ \A o \in Workers \ {k} : l_messages'[o] = l_messages[o] /\ l_posted'[o] = l_posted[o]
  BY <1>1, <1>2, <1>3 DEF L!TypeOK
<1>6. l_messages' = [l_messages EXCEPT ![k] = Append(l_messages[k], e)]
  BY <1>1, <1>2, <1>3
<1> HIDE DEF e
<1>7. L!TypeOK'
  <2>1. l_posted' \in [Workers -> 0..MaxPosts]
    BY <1>1, <1>2, <1>3 DEF L!TypeOK
  <2>2. l_messages' \in [Workers -> Seq(L!Message)]
    BY <1>1, <1>4, <1>5, <1>6 DEF L!TypeOK
  <2> QED BY <1>1, <1>2, <2>1, <2>2 DEF L!TypeOK
<1>8. LStarts' /\ LUnserved' /\ LThread'
  BY <1>1, <1>2 DEF LStarts, LUnserved, LThread
<1>9. LUnsent'
  BY <1>1, <1>2, <1>5 DEF LUnsent
<1>10. LLive'
  <2>1. \A i \in 1..Len(l_messages'[k]) : l_messages'[k][i] = e \/
          (i \in 1..Len(l_messages[k]) /\ l_messages'[k][i] = l_messages[k][i])
    BY <1>4, <1>5
  <2>2. \A i \in 1..Len(l_messages'[k]) : l_messages'[k][i].kind # "terminate"
    BY <1>1, <1>2, <1>4, <2>1 DEF LLive
  <2>3. \A o \in l_live \ {k} : l_messages'[o] = l_messages[o]
    BY <1>1, <1>5 DEF L!TypeOK
  <2> QED BY <1>1, <1>2, <2>2, <2>3 DEF LLive
<1>11. LPlaces' /\ LWhole'
  <2>1. /\ Places(l_jobs[k], l_held[k], l_messages'[k], Len(l_delivered[k]), l_posted[k] + 1, l_flushed[k])
        /\ Whole(l_jobs[k], l_held[k], l_messages[k], Len(l_delivered[k]), l_posted[k])
             => Whole(l_jobs[k], l_held[k], l_messages'[k], Len(l_delivered[k]), l_posted[k] + 1)
    <3>1. /\ l_jobs[k] \in Seq(Item) /\ l_held[k] \in Seq(Item) /\ l_messages[k] \in Seq(Item)
          /\ Len(l_delivered[k]) \in Nat /\ l_posted[k] \in 0..MaxPosts /\ l_flushed[k] \in BOOLEAN
      BY <1>1, Items
    <3>2. Places(l_jobs[k], l_held[k], l_messages[k], Len(l_delivered[k]), l_posted[k], l_flushed[k])
      BY <1>1 DEF LPlaces
    <3>3. l_messages'[k] = Append(l_messages[k], L!PostNumbered(l_posted[k] + 1)) /\ l_posted[k] + 1 <= MaxPosts
      BY <1>3, <1>5 DEF e
    <3> QED BY SMTT(30), <3>1, <3>2, <3>3, PostPlaces DEF L!WorkerAssumption
  <2>2. l_task'[k] \in {"none", "serving"} =>
          Whole(l_jobs'[k], l_held'[k], l_messages'[k], Len(l_delivered'[k]), l_posted'[k])
    BY <1>1, <1>2, <1>3, <2>1 DEF LWhole
  <2> QED BY <1>1, <1>2, <1>3, <1>5, <2>1, <2>2, PlacesElsewhere
<1>12. L!EndIsAnnounced'
  BY <1>1, <1>2, <1>7 DEF L!EndIsAnnounced
<1>13. L!EndReportedOnce' /\ L!DeliveredInOrder'
  BY <1>1, <1>2 DEF L!EndReportedOnce, L!DeliveredInOrder
<1> QED BY <1>7, <1>8, <1>9, <1>10, <1>11, <1>12, <1>13 DEF LInv

(* A worker is sent what is no post.                                       *)
LEMMA SendPlaces ==
  ASSUME L!WorkerAssumption, L!TypeOK, LPlaces, LWhole, NEW k \in Workers, NEW e \in L!Message,
         e.kind # "post", l_messages' = [l_messages EXCEPT ![k] = Append(@, e)],
         UNCHANGED <<l_jobs, l_held, l_delivered, l_posted, l_flushed, l_task>>
  PROVE  /\ LPlaces' /\ LWhole'
         /\ l_messages' \in [Workers -> Seq(L!Message)]
         /\ \A o \in Workers \ {k} : l_messages'[o] = l_messages[o]
         /\ \A i \in 1..Len(l_messages'[k]) : l_messages'[k][i] = e \/
              (i \in 1..Len(l_messages[k]) /\ l_messages'[k][i] = l_messages[k][i])
<1>1. /\ l_messages'[k] = Append(l_messages[k], e) /\ l_messages[k] \in Seq(L!Message)
      /\ \A o \in Workers \ {k} : l_messages'[o] = l_messages[o]
  BY DEF L!TypeOK
<1>2. l_messages' \in [Workers -> Seq(L!Message)]
  BY DEF L!TypeOK
<1>3. \A i \in 1..Len(l_messages'[k]) : l_messages'[k][i] = e \/
        (i \in 1..Len(l_messages[k]) /\ l_messages'[k][i] = l_messages[k][i])
  BY <1>1
<1>4. /\ l_jobs' = l_jobs /\ l_held' = l_held /\ l_delivered' = l_delivered /\ l_posted' = l_posted
      /\ l_flushed' = l_flushed /\ l_task' = l_task
  OBVIOUS
<1>5. /\ Places(l_jobs[k], l_held[k], l_messages'[k], Len(l_delivered[k]), l_posted[k], l_flushed[k])
      /\ Whole(l_jobs[k], l_held[k], l_messages[k], Len(l_delivered[k]), l_posted[k])
           => Whole(l_jobs[k], l_held[k], l_messages'[k], Len(l_delivered[k]), l_posted[k])
  <2>1. l_jobs[k] \in Seq(Item) /\ l_held[k] \in Seq(Item) /\ l_messages[k] \in Seq(Item)
    BY Items
  <2>2. e \in Item
    BY DEF L!Message, Item
  <2>3. Places(l_jobs[k], l_held[k], l_messages[k], Len(l_delivered[k]), l_posted[k], l_flushed[k])
    BY DEF LPlaces
  <2>4. /\ Places(l_jobs[k], l_held[k], Append(l_messages[k], e), Len(l_delivered[k]), l_posted[k], l_flushed[k])
        /\ Whole(l_jobs[k], l_held[k], l_messages[k], Len(l_delivered[k]), l_posted[k])
             => Whole(l_jobs[k], l_held[k], Append(l_messages[k], e), Len(l_delivered[k]), l_posted[k])
    <3> HIDE <1>1, <1>2, <1>3, <1>4
    <3> QED BY <2>1, <2>2, <2>3, SayPlaces
  <2> QED BY <1>1, <2>4
<1>6. l_task'[k] \in {"none", "serving"} =>
        Whole(l_jobs'[k], l_held'[k], l_messages'[k], Len(l_delivered'[k]), l_posted'[k])
  BY <1>4, <1>5 DEF LWhole
<1>7. LPlaces' /\ LWhole'
  BY <1>1, <1>4, <1>5, <1>6, PlacesElsewhere
<1> QED BY <1>1, <1>2, <1>3, <1>7

LEMMA TerminateInv ==
  ASSUME L!WorkerAssumption, LInv, NEW k \in Workers, L!Terminate(k)
  PROVE  LInv'
<1>1. /\ L!TypeOK /\ LStarts /\ LUnsent /\ LUnserved /\ LThread /\ LLive /\ LPlaces /\ LWhole
      /\ L!EndIsAnnounced /\ L!EndReportedOnce /\ L!DeliveredInOrder
  BY Parts
<1>2. /\ l_constructing = NoWorker /\ k \in l_sources /\ l_sources' = l_sources \ {k} /\ l_live' = l_live \ {k}
      /\ l_messages' = l_messages \/ l_messages' = [l_messages EXCEPT ![k] = Append(@, L!Bare("terminate"))]
      /\ UNCHANGED <<l_released, l_constructing, l_created, l_posted, l_ends, l_commands, l_events, l_thread, l_told,
                     l_reporters, l_task, l_root, l_held, l_flushed, l_jobs, l_delivered, l_terminal_reported,
                     l_panic_reported>>
  BY DEF L!Terminate, L!trap, L!script, L!reports
<1>3. /\ LPlaces' /\ LWhole' /\ l_messages' \in [Workers -> Seq(L!Message)]
      /\ \A o \in Workers \ {k} : l_messages'[o] = l_messages[o]
  <2>1. CASE l_messages' = l_messages
    <3>1. l_messages' \in [Workers -> Seq(L!Message)]
      BY <1>1, <2>1 DEF L!TypeOK
    <3> QED BY <1>1, <1>2, <2>1, <3>1, PlacesStand
  <2>2. CASE l_messages' = [l_messages EXCEPT ![k] = Append(@, L!Bare("terminate"))]
    <3>1. L!Bare("terminate") \in L!Message /\ L!Bare("terminate").kind # "post"
      BY DEF L!Message, L!Bare, L!WorkerAssumption
    <3> QED BY <1>1, <1>2, <2>2, <3>1, SendPlaces
  <2> QED BY <1>2, <2>1, <2>2
<1>4. L!TypeOK'
  BY <1>1, <1>2, <1>3 DEF L!TypeOK
<1>5. LStarts' /\ LUnserved' /\ LThread'
  BY <1>1, <1>2 DEF LStarts, LUnserved, LThread
<1>6. LUnsent'
  BY SMTT(30), <1>1, <1>2, <1>3 DEF LUnsent, L!TypeOK, L!WorkerAssumption
<1>7. LLive'
  BY SMTT(30), <1>1, <1>2, <1>3 DEF LLive, L!TypeOK
<1>8. L!EndIsAnnounced'
  BY <1>1, <1>2, <1>4 DEF L!EndIsAnnounced
<1>9. L!EndReportedOnce' /\ L!DeliveredInOrder'
  BY <1>1, <1>2 DEF L!EndReportedOnce, L!DeliveredInOrder
<1> QED BY <1>3, <1>4, <1>5, <1>6, <1>7, <1>8, <1>9 DEF LInv

LEMMA DispatchInv ==
  ASSUME L!WorkerAssumption, LInv, L!Dispatch
  PROVE  LInv'
<1>1. /\ L!TypeOK /\ LStarts /\ LUnsent /\ LUnserved /\ LThread /\ LLive /\ LPlaces /\ LWhole
      /\ L!EndIsAnnounced /\ L!EndReportedOnce /\ L!DeliveredInOrder
  BY Parts
<1>2. /\ l_events \in Seq(L!End) /\ l_events # <<>> /\ Head(l_events) \in L!End /\ Head(l_events) = l_events[1]
      /\ l_events' = Tail(l_events) /\ l_events' \in Seq(L!End)
      /\ Len(l_events) \in Nat /\ Len(l_events') = Len(l_events) - 1
      /\ \A i \in 1..Len(l_events') : l_events'[i] = l_events[i + 1]
  BY SMTT(30), <1>1 DEF L!Dispatch, L!TypeOK
<1>3. PICK k \in Workers : k = Head(l_events).key
  BY <1>2 DEF L!End
<1>4. /\ l_constructing = NoWorker /\ l_sources' = l_sources \ {k} /\ l_live' = l_live \ {k}
      /\ l_ends' = l_ends \/ (k \in l_sources /\ l_ends' = [l_ends EXCEPT ![k] = @ + 1])
      /\ UNCHANGED <<l_released, l_constructing, l_created, l_posted, l_commands, l_messages, l_thread, l_told,
                     l_reporters, l_task, l_root, l_held, l_flushed, l_jobs, l_delivered, l_terminal_reported,
                     l_panic_reported>>
  BY <1>3 DEF L!Dispatch, L!trap, L!script, L!reports
<1>5. /\ l_ends' \in [Workers -> Nat]
      /\ \A o \in Workers : l_ends'[o] = l_ends[o] \/ (o = k /\ k \in l_sources /\ l_ends'[o] = l_ends[o] + 1)
  <2>1. l_ends \in [Workers -> Nat]
    BY <1>1 DEF L!TypeOK
  <2>2. CASE l_ends' = l_ends
    BY <2>1, <2>2
  <2>3. CASE k \in l_sources /\ l_ends' = [l_ends EXCEPT ![k] = @ + 1]
    BY <2>1, <2>3
  <2> QED BY <1>4, <2>2, <2>3
<1>6. L!TypeOK'
  BY <1>1, <1>2, <1>4, <1>5 DEF L!TypeOK
<1>7. LStarts' /\ LUnserved' /\ LThread' /\ LLive'
  BY <1>1, <1>4 DEF LStarts, LUnserved, LThread, LLive
<1>8. LUnsent'
  BY SMTT(30), <1>1, <1>4, <1>5 DEF LUnsent, L!TypeOK
<1>9. LPlaces' /\ LWhole'
  BY <1>1, <1>4, PlacesStand
<1>10. L!EndIsAnnounced'
  <2> SUFFICES ASSUME NEW o \in l_live', l_task'[o] \in {"ended", "done"} \/ o \in l_told'
               PROVE  \E i \in DOMAIN l_events' : l_events'[i].key = o
    BY <1>6 DEF L!EndIsAnnounced
  <2>1. o \in l_live /\ o # k
    BY <1>4
  <2>2. PICK i \in DOMAIN l_events : l_events[i].key = o
    BY <1>1, <1>4, <2>1 DEF L!EndIsAnnounced
  <2>3. DOMAIN l_events = 1..Len(l_events) /\ DOMAIN l_events' = 1..Len(l_events')
    BY <1>2
  <2>4. i # 1
    BY <1>2, <1>3, <2>1, <2>2
  <2>5. i - 1 \in 1..Len(l_events') /\ i = (i - 1) + 1
    BY <1>2, <2>2, <2>3, <2>4
  <2>6. l_events'[i - 1] = l_events[i]
    BY <1>2, <2>5
  <2> QED BY <2>2, <2>3, <2>5, <2>6
<1>11. L!EndReportedOnce' /\ L!DeliveredInOrder'
  <2>1. L!EndReportedOnce'
    BY SMTT(30), <1>1, <1>4, <1>5 DEF L!EndReportedOnce, L!TypeOK
  <2>2. L!DeliveredInOrder'
    BY <1>1, <1>4 DEF L!DeliveredInOrder
  <2> QED BY <2>1, <2>2
<1> QED BY <1>6, <1>7, <1>8, <1>9, <1>10, <1>11 DEF LInv

LEMMA ReleaseInv ==
  ASSUME L!WorkerAssumption, LInv, L!Release
  PROVE  LInv'
<1>1. /\ L!TypeOK /\ LStarts /\ LUnsent /\ LUnserved /\ LThread /\ LLive /\ LPlaces /\ LWhole
      /\ L!EndIsAnnounced /\ L!EndReportedOnce /\ L!DeliveredInOrder
  BY Parts
<1>2. /\ l_constructing = NoWorker /\ l_released' = TRUE /\ l_live' = {} /\ l_sources' = {} /\ l_events' = <<>>
      /\ UNCHANGED <<l_constructing, l_created, l_posted, l_ends, l_commands, l_messages, l_thread, l_told,
                     l_reporters, l_task, l_root, l_held, l_flushed, l_jobs, l_delivered, l_terminal_reported,
                     l_panic_reported>>
  BY DEF L!Release, L!trap, L!script, L!reports
<1>3. L!TypeOK'
  <2>1. l_released' \in BOOLEAN
    BY <1>2
  <2> QED BY <1>1, <1>2, <2>1 DEF L!TypeOK
<1>4. LStarts' /\ LUnsent' /\ LUnserved' /\ LThread' /\ LLive'
  BY <1>1, <1>2 DEF LStarts, LUnsent, LUnserved, LThread, LLive
<1>5. LPlaces' /\ LWhole'
  BY <1>1, <1>2, PlacesStand
<1>6. L!EndIsAnnounced'
  BY <1>2, <1>3 DEF L!EndIsAnnounced
<1>7. L!EndReportedOnce' /\ L!DeliveredInOrder'
  BY <1>1, <1>2 DEF L!EndReportedOnce, L!DeliveredInOrder
<1> QED BY <1>3, <1>4, <1>5, <1>6, <1>7 DEF LInv

LEMMA AnswerInv ==
  ASSUME L!WorkerAssumption, LInv, NEW k \in Workers, L!Answer(k)
  PROVE  LInv'
<1>1. /\ L!TypeOK /\ LStarts /\ LUnsent /\ LUnserved /\ LThread /\ LLive /\ LPlaces /\ LWhole
      /\ L!EndIsAnnounced /\ L!EndReportedOnce /\ L!DeliveredInOrder
  BY Parts
<1>2. /\ k \in l_live /\ l_messages' = [l_messages EXCEPT ![k] = Append(@, L!Bare("answer"))]
      /\ UNCHANGED <<l_released, l_constructing, l_created, l_live, l_sources, l_posted, l_ends, l_commands, l_events,
                     l_thread, l_told, l_reporters, l_task, l_root, l_held, l_flushed, l_jobs, l_delivered,
                     l_terminal_reported, l_panic_reported>>
  BY DEF L!Answer, L!creator, L!trap, L!script, L!reports
<1>3. /\ L!Bare("answer") \in L!Message /\ L!Bare("answer").kind # "post"
      /\ L!Bare("answer").kind # "terminate"
  BY DEF L!Message, L!Bare, L!WorkerAssumption
<1>4. /\ LPlaces' /\ LWhole' /\ l_messages' \in [Workers -> Seq(L!Message)]
      /\ \A o \in Workers \ {k} : l_messages'[o] = l_messages[o]
      /\ \A i \in 1..Len(l_messages'[k]) : l_messages'[k][i] = L!Bare("answer") \/
           (i \in 1..Len(l_messages[k]) /\ l_messages'[k][i] = l_messages[k][i])
  BY ZenonT(60), <1>1, <1>2, <1>3, SendPlaces
<1>5. L!TypeOK'
  BY <1>1, <1>2, <1>4 DEF L!TypeOK
<1>6. LStarts' /\ LUnserved' /\ LThread'
  BY <1>1, <1>2 DEF LStarts, LUnserved, LThread
<1>7. LUnsent'
  BY <1>1, <1>2, <1>4 DEF LUnsent
<1>8. LLive'
  <2>1. \A i \in 1..Len(l_messages'[k]) : l_messages'[k][i].kind # "terminate"
    BY <1>1, <1>2, <1>3, <1>4 DEF LLive
  <2>2. \A o \in l_live \ {k} : l_messages'[o] = l_messages[o]
    BY <1>1, <1>4 DEF L!TypeOK
  <2> QED BY <1>1, <1>2, <2>1, <2>2 DEF LLive
<1>9. L!EndIsAnnounced'
  BY <1>1, <1>2, <1>5 DEF L!EndIsAnnounced
<1>10. L!EndReportedOnce' /\ L!DeliveredInOrder'
  BY <1>1, <1>2 DEF L!EndReportedOnce, L!DeliveredInOrder
<1> QED BY <1>4, <1>5, <1>6, <1>7, <1>8, <1>9, <1>10 DEF LInv

(* A job that is no post is queued for a worker that lives.                *)
LEMMA QueueJob ==
  ASSUME L!WorkerAssumption, L!TypeOK, LPlaces, LWhole, NEW k \in Workers, NEW e \in L!Job,
         e.kind # "post", L!Queue(k, <<e>>),
         UNCHANGED <<l_held, l_messages, l_delivered, l_posted, l_flushed>>,
         \A o \in Workers \ {k} : l_task'[o] = l_task[o], l_task[k] \in {"none", "serving"}
  PROVE  /\ LPlaces' /\ LWhole'
         /\ l_jobs' \in [Workers -> Seq(L!Job)]
         /\ \A o \in Workers \ {k} : l_jobs'[o] = l_jobs[o]
<1>1. PICK r \in Seq(L!Job) : r = <<e>>
  BY Single
<1>2. /\ l_jobs' = [l_jobs EXCEPT ![k] = @ \o r] /\ l_jobs'[k] = l_jobs[k] \o r
      /\ \A o \in Workers \ {k} : l_jobs'[o] = l_jobs[o]
  BY <1>1 DEF L!TypeOK, L!Queue
<1>3. l_jobs' \in [Workers -> Seq(L!Job)]
  <2>1. l_jobs[k] \o r \in Seq(L!Job)
    BY <1>1 DEF L!TypeOK
  <2> QED BY <1>2, <2>1 DEF L!TypeOK
<1>4. /\ l_held' = l_held /\ l_delivered' = l_delivered /\ l_posted' = l_posted
      /\ l_flushed' = l_flushed /\ l_messages' = l_messages
  OBVIOUS
<1>5. /\ Places(l_jobs[k] \o <<e>>, l_held[k], l_messages[k], Len(l_delivered[k]), l_posted[k], l_flushed[k])
      /\ Whole(l_jobs[k], l_held[k], l_messages[k], Len(l_delivered[k]), l_posted[k])
           => Whole(l_jobs[k] \o <<e>>, l_held[k], l_messages[k], Len(l_delivered[k]), l_posted[k])
  <2>1. l_jobs[k] \in Seq(Item) /\ l_held[k] \in Seq(Item) /\ l_messages[k] \in Seq(Item)
    BY Items
  <2>2. e \in Item
    BY DEF L!Job, Item
  <2>3. Places(l_jobs[k], l_held[k], l_messages[k], Len(l_delivered[k]), l_posted[k], l_flushed[k])
    BY DEF LPlaces
  <2> HIDE <1>1, <1>2, <1>3, <1>4
  <2> QED BY <2>1, <2>2, <2>3, QueuePlaces
<1>6. /\ Places(l_jobs'[k], l_held'[k], l_messages'[k], Len(l_delivered'[k]), l_posted'[k], l_flushed'[k])
      /\ Whole(l_jobs'[k], l_held'[k], l_messages'[k], Len(l_delivered'[k]), l_posted'[k])
  BY <1>1, <1>2, <1>4, <1>5 DEF LWhole
<1>7. LPlaces' /\ LWhole'
  BY <1>2, <1>4, <1>6, PlacesElsewhere
<1> QED BY <1>2, <1>3, <1>7

LEMMA ServeInv ==
  ASSUME L!WorkerAssumption, LInv, L!Serve
  PROVE  LInv'
<1>1. /\ L!TypeOK /\ LStarts /\ LUnsent /\ LUnserved /\ LThread /\ LLive /\ LPlaces /\ LWhole
      /\ L!EndIsAnnounced /\ L!EndReportedOnce /\ L!DeliveredInOrder
  BY Parts
<1>2. /\ l_commands \in Seq(Workers) /\ l_commands # <<>> /\ Head(l_commands) \in Workers
      /\ Head(l_commands) = l_commands[1] /\ l_commands' = Tail(l_commands) /\ l_commands' \in Seq(Workers)
      /\ Len(l_commands) \in Nat \ {0} /\ Len(l_commands') = Len(l_commands) - 1
      /\ \A i \in 1..Len(l_commands') : l_commands'[i] = l_commands[i + 1]
  <2>1. l_commands \in Seq(Workers) /\ l_commands # <<>> /\ l_commands' = Tail(l_commands)
    BY <1>1 DEF L!Serve, L!TypeOK
  <2>2. /\ Head(l_commands) \in Workers /\ Head(l_commands) = l_commands[1]
        /\ Tail(l_commands) \in Seq(Workers)
        /\ Len(l_commands) \in Nat \ {0} /\ Len(Tail(l_commands)) = Len(l_commands) - 1
        /\ \A i \in 1..Len(Tail(l_commands)) : Tail(l_commands)[i] = l_commands[i + 1]
    <3> HIDE <1>1
    <3> QED BY <2>1, Beheaded
  <2> QED BY <2>1, <2>2
<1>3. PICK k \in Workers : k = Head(l_commands)
  BY <1>2
<1>4. /\ L!Up /\ l_task' = [l_task EXCEPT ![k] = "serving"] /\ l_reporters' = l_reporters \cup {k}
      /\ L!Queue(k, <<L!Bare("boot")>>)
      /\ UNCHANGED <<l_released, l_constructing, l_created, l_live, l_sources, l_posted, l_ends, l_messages, l_events,
                     l_thread, l_told, l_root, l_held, l_flushed, l_delivered, l_terminal_reported, l_panic_reported>>
  BY <1>3 DEF L!Serve, L!creator, L!trap, L!reports
<1>5. k \in l_created /\ l_task[k] = "none" /\ k # l_constructing
  <2>1. 1 \in 1..Len(l_commands) /\ l_commands[1] = k
    BY <1>2, <1>3
  <2> QED BY <1>1, <2>1 DEF LStarts, LUnserved
<1>6. /\ l_task'[k] = "serving" /\ \A o \in Workers \ {k} : l_task'[o] = l_task[o]
      /\ l_task' \in [Workers -> {"none", "serving", "ended", "done"}]
  BY <1>1, <1>4 DEF L!TypeOK
<1>7. /\ LPlaces' /\ LWhole' /\ l_jobs' \in [Workers -> Seq(L!Job)]
      /\ \A o \in Workers \ {k} : l_jobs'[o] = l_jobs[o]
  <2>1. L!Bare("boot") \in L!Job /\ L!Bare("boot").kind # "post"
    BY DEF L!Job, L!Bare, L!WorkerAssumption
  <2> QED BY <1>1, <1>4, <1>5, <1>6, <2>1, QueueJob
<1>8. L!TypeOK'
  <2>1. /\ l_reporters' \subseteq l_created' /\ l_told' \subseteq l_reporters'
    BY <1>1, <1>4, <1>5 DEF L!TypeOK
  <2> QED BY <1>1, <1>2, <1>4, <1>6, <1>7, <2>1 DEF L!TypeOK
<1>9. \A i \in 1..Len(l_commands') : /\ i + 1 \in 1..Len(l_commands) /\ l_commands'[i] = l_commands[i + 1]
                                     /\ l_commands'[i] # k
  BY <1>1, <1>2, <1>3 DEF LStarts
<1>10. LStarts'
  <2>1. \A i \in 1..Len(l_commands') : l_commands'[i] \in l_created' \ {l_constructing'}
    BY <1>1, <1>4, <1>9 DEF LStarts
  <2>2. ASSUME NEW i \in 1..Len(l_commands'), NEW j \in 1..Len(l_commands'), l_commands'[i] = l_commands'[j]
        PROVE  i = j
    <3>1. i + 1 = j + 1
      BY <1>1, <1>9, <2>2 DEF LStarts
    <3> QED BY <1>2, <3>1
  <2> QED BY <1>1, <1>4, <2>1, <2>2 DEF LStarts
<1>11. LUnsent'
  BY <1>1, <1>4, <1>5, <1>6 DEF LUnsent
<1>12. LUnserved'
  <2>1. l_constructing' \in Workers => l_task'[l_constructing'] = "none"
    BY <1>1, <1>4, <1>5, <1>6 DEF LUnserved
  <2>2. \A i \in 1..Len(l_commands') : l_task'[l_commands'[i]] = "none"
    BY <1>1, <1>2, <1>6, <1>9 DEF LUnserved
  <2>3. ASSUME NEW o \in Workers, l_task'[o] = "none"
        PROVE  /\ o \notin l_reporters' /\ l_held'[o] = <<>> /\ l_jobs'[o] = <<>>
               /\ l_delivered'[o] = <<>> /\ ~l_flushed'[o]
    <3>1. o # k /\ l_task[o] = "none"
      BY <1>6, <2>3
    <3> QED BY <1>1, <1>4, <1>7, <3>1 DEF LUnserved
  <2> QED BY <2>1, <2>2, <2>3 DEF LUnserved
<1>13. LThread' /\ LLive'
  BY <1>1, <1>4 DEF LThread, LLive
<1>14. L!EndIsAnnounced'
  <2> SUFFICES ASSUME NEW o \in l_live', l_task'[o] \in {"ended", "done"} \/ o \in l_told'
               PROVE  \E i \in DOMAIN l_events' : l_events'[i].key = o
    BY <1>8 DEF L!EndIsAnnounced
  <2>1. l_told' = {} /\ o \in Workers
    BY <1>1, <1>4 DEF LThread, L!Up, L!TypeOK
  <2>2. o \in l_live /\ l_task[o] \in {"ended", "done"}
    BY <1>4, <1>6, <2>1
  <2> QED BY <1>1, <1>4, <2>2 DEF L!EndIsAnnounced
<1>15. L!EndReportedOnce' /\ L!DeliveredInOrder'
  BY <1>1, <1>4 DEF L!EndReportedOnce, L!DeliveredInOrder
<1> QED BY <1>7, <1>8, <1>10, <1>11, <1>12, <1>13, <1>14, <1>15 DEF LInv

LEMMA LoadedInv ==
  ASSUME L!WorkerAssumption, LInv, NEW k \in Workers, L!Loaded(k)
  PROVE  LInv'
<1>1. /\ L!TypeOK /\ LStarts /\ LUnsent /\ LUnserved /\ LThread /\ LLive /\ LPlaces /\ LWhole
      /\ L!EndIsAnnounced /\ L!EndReportedOnce /\ L!DeliveredInOrder
  BY Parts
<1>2. /\ l_task[k] = "serving" /\ L!Queue(k, <<L!Bare("load")>>)
      /\ UNCHANGED <<l_released, l_constructing, l_created, l_live, l_sources, l_posted, l_ends, l_commands, l_messages,
                     l_events, l_thread, l_told, l_reporters, l_task, l_root, l_held, l_flushed, l_delivered,
                     l_terminal_reported, l_panic_reported>>
  BY DEF L!Loaded, L!creator, L!trap, L!reports
<1>3. /\ LPlaces' /\ LWhole' /\ l_jobs' \in [Workers -> Seq(L!Job)]
      /\ \A o \in Workers \ {k} : l_jobs'[o] = l_jobs[o]
  <2>1. L!Bare("load") \in L!Job /\ L!Bare("load").kind # "post"
    BY DEF L!Job, L!Bare, L!WorkerAssumption
  <2> QED BY <1>1, <1>2, <2>1, QueueJob
<1>4. L!TypeOK'
  BY <1>1, <1>2, <1>3 DEF L!TypeOK
<1>5. LStarts' /\ LUnsent' /\ LThread' /\ LLive'
  BY <1>1, <1>2 DEF LStarts, LUnsent, LThread, LLive
<1>6. LUnserved'
  BY <1>1, <1>2, <1>3 DEF LUnserved
<1>7. L!EndIsAnnounced'
  BY <1>1, <1>2, <1>4 DEF L!EndIsAnnounced
<1>8. L!EndReportedOnce' /\ L!DeliveredInOrder'
  BY <1>1, <1>2 DEF L!EndReportedOnce, L!DeliveredInOrder
<1> QED BY <1>3, <1>4, <1>5, <1>6, <1>7, <1>8 DEF LInv

(* A step of a worker that is served leaves the rest as they were.         *)
LEMMA ServedOnly ==
  ASSUME L!TypeOK, LUnserved, NEW k \in Workers, l_task[k] # "none", l_task'[k] # "none",
         \A o \in Workers \ {k} :
           /\ l_task'[o] = l_task[o] /\ l_jobs'[o] = l_jobs[o] /\ l_held'[o] = l_held[o]
           /\ l_delivered'[o] = l_delivered[o] /\ l_flushed'[o] = l_flushed[o],
         UNCHANGED <<l_constructing, l_commands>>, l_reporters' \subseteq l_reporters
  PROVE  LUnserved'
<1>1. l_constructing' = l_constructing /\ l_commands' = l_commands
  OBVIOUS
<1>2. l_constructing' \in Workers => l_task'[l_constructing'] = "none"
  BY <1>1 DEF LUnserved
<1>3. ASSUME NEW i \in 1..Len(l_commands)
      PROVE  l_task'[l_commands[i]] = "none"
  <2>1. l_task[l_commands[i]] = "none"
    BY DEF LUnserved
  <2>2. l_commands \in Seq(Workers)
    BY DEF L!TypeOK
  <2>3. l_commands[i] \in Workers
    BY <2>2
  <2> QED BY <2>1, <2>3
<1>4. ASSUME NEW o \in Workers, l_task'[o] = "none"
      PROVE  /\ o \notin l_reporters' /\ l_held'[o] = <<>> /\ l_jobs'[o] = <<>>
             /\ l_delivered'[o] = <<>> /\ ~l_flushed'[o]
  BY <1>4 DEF LUnserved
<1> QED BY <1>1, <1>2, <1>3, <1>4 DEF LUnserved

(* A job is taken that is no post, or that a worker that is over drops.    *)
LEMMA PopJob ==
  ASSUME L!WorkerAssumption, L!TypeOK, LPlaces, LWhole, NEW k \in Workers, l_jobs[k] # <<>>, L!Popped(k),
         UNCHANGED <<l_held, l_messages, l_delivered, l_posted, l_flushed>>,
         \A o \in Workers \ {k} : l_task'[o] = l_task[o],
         l_task'[k] \in {"none", "serving"} =>
           l_task[k] \in {"none", "serving"} /\ Head(l_jobs[k]).kind # "post"
  PROVE  /\ LPlaces' /\ LWhole'
         /\ l_jobs' \in [Workers -> Seq(L!Job)]
         /\ \A o \in Workers \ {k} : l_jobs'[o] = l_jobs[o]
<1>1. l_jobs[k] \in Seq(L!Job) /\ Tail(l_jobs[k]) \in Seq(L!Job)
  BY DEF L!TypeOK
<1>2. /\ l_jobs'[k] = Tail(l_jobs[k]) /\ l_jobs' \in [Workers -> Seq(L!Job)]
      /\ \A o \in Workers \ {k} : l_jobs'[o] = l_jobs[o]
  BY <1>1 DEF L!TypeOK, L!Popped
<1>3. /\ l_held' = l_held /\ l_delivered' = l_delivered /\ l_posted' = l_posted
      /\ l_flushed' = l_flushed /\ l_messages' = l_messages
  OBVIOUS
<1>4. /\ Places(Tail(l_jobs[k]), l_held[k], l_messages[k], Len(l_delivered[k]), l_posted[k], l_flushed[k])
      /\ Whole(l_jobs[k], l_held[k], l_messages[k], Len(l_delivered[k]), l_posted[k])
           /\ Head(l_jobs[k]).kind # "post"
           => Whole(Tail(l_jobs[k]), l_held[k], l_messages[k], Len(l_delivered[k]), l_posted[k])
  <2>1. l_jobs[k] \in Seq(Item) /\ l_held[k] \in Seq(Item) /\ l_messages[k] \in Seq(Item)
    BY Items
  <2>2. Places(l_jobs[k], l_held[k], l_messages[k], Len(l_delivered[k]), l_posted[k], l_flushed[k])
    BY DEF LPlaces
  <2> HIDE <1>1, <1>2, <1>3
  <2> QED BY <2>1, <2>2, DropPlaces
<1>5. l_task'[k] \in {"none", "serving"} =>
        Whole(l_jobs'[k], l_held'[k], l_messages'[k], Len(l_delivered'[k]), l_posted'[k])
  BY <1>2, <1>3, <1>4 DEF LWhole
<1>6. LPlaces' /\ LWhole'
  BY <1>2, <1>3, <1>4, <1>5, PlacesElsewhere
<1> QED BY <1>2, <1>6

LEMMA DropJobInv ==
  ASSUME L!WorkerAssumption, LInv, NEW k \in Workers, L!DropJob(k)
  PROVE  LInv'
<1>1. /\ L!TypeOK /\ LStarts /\ LUnsent /\ LUnserved /\ LThread /\ LLive /\ LPlaces /\ LWhole
      /\ L!EndIsAnnounced /\ L!EndReportedOnce /\ L!DeliveredInOrder
  BY Parts
<1>2. /\ l_task[k] = "ended" /\ l_jobs[k] # <<>> /\ L!Popped(k)
      /\ UNCHANGED <<l_released, l_constructing, l_created, l_live, l_sources, l_posted, l_ends, l_commands, l_messages,
                     l_events, l_thread, l_told, l_reporters, l_task, l_root, l_held, l_flushed, l_delivered,
                     l_terminal_reported, l_panic_reported>>
  BY DEF L!DropJob, L!creator, L!trap, L!reports
<1>3. /\ LPlaces' /\ LWhole' /\ l_jobs' \in [Workers -> Seq(L!Job)]
      /\ \A o \in Workers \ {k} : l_jobs'[o] = l_jobs[o]
  BY <1>1, <1>2, PopJob
<1>4. L!TypeOK'
  BY <1>1, <1>2, <1>3 DEF L!TypeOK
<1>5. LStarts' /\ LUnsent' /\ LThread' /\ LLive'
  BY <1>1, <1>2 DEF LStarts, LUnsent, LThread, LLive
<1>6. LUnserved'
  BY <1>1, <1>2, <1>3 DEF LUnserved
<1>7. L!EndIsAnnounced'
  BY <1>1, <1>2, <1>4 DEF L!EndIsAnnounced
<1>8. L!EndReportedOnce' /\ L!DeliveredInOrder'
  BY <1>1, <1>2 DEF L!EndReportedOnce, L!DeliveredInOrder
<1> QED BY <1>3, <1>4, <1>5, <1>6, <1>7, <1>8 DEF LInv

(* The end of a worker, announced as it comes.                             *)
LEMMA EndingAnnounced ==
  ASSUME LInv, L!TypeOK', NEW k \in Workers, NEW p \in {"closed", "failed"}, L!Say(k, p), L!Ends(k),
         UNCHANGED <<l_live, l_told>>
  PROVE  L!EndIsAnnounced'
<1>1. L!TypeOK /\ L!EndIsAnnounced
  BY Parts
<1>2. /\ \A o : (\E i \in DOMAIN l_events : l_events[i].key = o) =>
                   \E i \in DOMAIN l_events' : l_events'[i].key = o
      /\ \E i \in DOMAIN l_events' : l_events'[i].key = k
  BY <1>1, Saying
<1>3. \A o \in Workers \ {k} : l_task'[o] = l_task[o]
  BY <1>1 DEF L!TypeOK, L!Ends
<1> SUFFICES ASSUME NEW o \in l_live', l_task'[o] \in {"ended", "done"} \/ o \in l_told'
             PROVE  \E i \in DOMAIN l_events' : l_events'[i].key = o
  BY DEF L!EndIsAnnounced
<1>4. o \in l_live /\ o \in Workers
  BY <1>1 DEF L!TypeOK
<1>5. CASE o = k
  BY <1>2, <1>5
<1>6. CASE o # k
  <2>1. l_task[o] \in {"ended", "done"} \/ o \in l_told
    BY <1>3, <1>4, <1>6
  <2> QED BY <1>1, <1>2, <1>4, <2>1 DEF L!EndIsAnnounced
<1> QED BY <1>5, <1>6

LEMMA BootFailsInv ==
  ASSUME L!WorkerAssumption, LInv, NEW k \in Workers, L!BootFails(k)
  PROVE  LInv'
<1>1. /\ L!TypeOK /\ LStarts /\ LUnsent /\ LUnserved /\ LThread /\ LLive /\ LPlaces /\ LWhole
      /\ L!EndIsAnnounced /\ L!EndReportedOnce /\ L!DeliveredInOrder
  BY Parts
<1>2. /\ l_task[k] = "serving" /\ l_jobs[k] # <<>> /\ L!Popped(k) /\ L!Say(k, "failed") /\ L!Ends(k)
      /\ l_terminal_reported' = [l_terminal_reported EXCEPT ![k] = TRUE]
      /\ UNCHANGED <<l_released, l_constructing, l_created, l_live, l_sources, l_posted, l_ends, l_commands, l_messages,
                     l_thread, l_told, l_reporters, l_root, l_held, l_flushed, l_delivered, l_panic_reported>>
  BY DEF L!BootFails, L!creator, L!trap
<1>3. /\ l_task'[k] = "ended" /\ \A o \in Workers \ {k} : l_task'[o] = l_task[o]
      /\ l_task' \in [Workers -> {"none", "serving", "ended", "done"}]
  BY <1>1, <1>2 DEF L!TypeOK, L!Ends
<1>4. /\ LPlaces' /\ LWhole' /\ l_jobs' \in [Workers -> Seq(L!Job)]
      /\ \A o \in Workers \ {k} : l_jobs'[o] = l_jobs[o]
  BY <1>1, <1>2, <1>3, PopJob
<1>5. L!TypeOK'
  <2>1. l_events' \in Seq(L!End)
    BY <1>1, <1>2, Saying
  <2>2. l_terminal_reported' \in [Workers -> BOOLEAN]
    BY <1>1, <1>2 DEF L!TypeOK
  <2> QED BY <1>1, <1>2, <1>3, <1>4, <2>1, <2>2 DEF L!TypeOK
<1>6. LStarts' /\ LThread' /\ LLive'
  BY <1>1, <1>2 DEF LStarts, LThread, LLive
<1>7. LUnsent'
  BY <1>1, <1>2, <1>3 DEF LUnsent
<1>8. LUnserved'
  BY <1>1, <1>2, <1>3, <1>4, ServedOnly
<1>9. L!EndIsAnnounced'
  BY <1>2, <1>5, EndingAnnounced
<1>10. L!EndReportedOnce' /\ L!DeliveredInOrder'
  BY <1>1, <1>2 DEF L!EndReportedOnce, L!DeliveredInOrder
<1> QED BY <1>4, <1>5, <1>6, <1>7, <1>8, <1>9, <1>10 DEF LInv

LEMMA PanicsInv ==
  ASSUME L!WorkerAssumption, LInv, NEW k \in Workers, L!Panics(k)
  PROVE  LInv'
<1>1. /\ L!TypeOK /\ LStarts /\ LUnsent /\ LUnserved /\ LThread /\ LLive /\ LPlaces /\ LWhole
      /\ L!EndIsAnnounced /\ L!EndReportedOnce /\ L!DeliveredInOrder
  BY Parts
<1>2. /\ l_task[k] \in {"serving", "ended"} /\ L!Say(k, "failed") /\ L!Ends(k)
      /\ l_panic_reported' = [l_panic_reported EXCEPT ![k] = TRUE]
      /\ UNCHANGED <<l_released, l_constructing, l_created, l_live, l_sources, l_posted, l_ends, l_commands, l_messages,
                     l_thread, l_told, l_reporters, l_root, l_held, l_flushed, l_jobs, l_delivered,
                     l_terminal_reported>>
  BY DEF L!Panics, L!creator, L!trap, L!script
<1>3. /\ l_task'[k] = "ended" /\ \A o \in Workers \ {k} : l_task'[o] = l_task[o]
      /\ l_task' \in [Workers -> {"none", "serving", "ended", "done"}]
  BY <1>1, <1>2 DEF L!TypeOK, L!Ends
<1>4. LPlaces' /\ LWhole'
  BY <1>1, <1>2, <1>3, PlacesStand
<1>5. L!TypeOK'
  <2>1. l_events' \in Seq(L!End)
    BY <1>1, <1>2, Saying
  <2>2. l_panic_reported' \in [Workers -> BOOLEAN]
    BY <1>1, <1>2 DEF L!TypeOK
  <2> QED BY <1>1, <1>2, <1>3, <2>1, <2>2 DEF L!TypeOK
<1>6. LStarts' /\ LThread' /\ LLive'
  BY <1>1, <1>2 DEF LStarts, LThread, LLive
<1>7. LUnsent'
  BY <1>1, <1>2, <1>3 DEF LUnsent
<1>8. LUnserved'
  BY <1>1, <1>2, <1>3, ServedOnly
<1>9. L!EndIsAnnounced'
  BY <1>2, <1>5, EndingAnnounced
<1>10. L!EndReportedOnce' /\ L!DeliveredInOrder'
  BY <1>1, <1>2 DEF L!EndReportedOnce, L!DeliveredInOrder
<1> QED BY <1>4, <1>5, <1>6, <1>7, <1>8, <1>9, <1>10 DEF LInv

LEMMA FinishInv ==
  ASSUME L!WorkerAssumption, LInv, NEW k \in Workers, L!Finish(k)
  PROVE  LInv'
<1>1. /\ L!TypeOK /\ LStarts /\ LUnsent /\ LUnserved /\ LThread /\ LLive /\ LPlaces /\ LWhole
      /\ L!EndIsAnnounced /\ L!EndReportedOnce /\ L!DeliveredInOrder
  BY Parts
<1>2. /\ L!Up /\ l_task[k] = "ended" /\ l_task' = [l_task EXCEPT ![k] = "done"]
      /\ l_reporters' = l_reporters \ {k}
      /\ UNCHANGED <<l_released, l_constructing, l_created, l_live, l_sources, l_posted, l_ends, l_commands, l_messages,
                     l_events, l_thread, l_told, l_root, l_held, l_flushed, l_jobs, l_delivered,
                     l_terminal_reported, l_panic_reported>>
  BY DEF L!Finish, L!creator, L!trap, L!script, L!reports
<1>3. /\ l_task'[k] = "done" /\ \A o \in Workers \ {k} : l_task'[o] = l_task[o]
      /\ l_task' \in [Workers -> {"none", "serving", "ended", "done"}]
  BY <1>1, <1>2 DEF L!TypeOK
<1>4. l_told = {}
  BY <1>1, <1>2 DEF LThread, L!Up
<1>5. L!TypeOK'
  BY <1>1, <1>2, <1>3, <1>4 DEF L!TypeOK
<1>6. LPlaces' /\ LWhole'
  BY <1>1, <1>2, <1>3, PlacesStand
<1>7. LStarts' /\ LThread' /\ LLive'
  BY <1>1, <1>2 DEF LStarts, LThread, LLive
<1>8. LUnsent'
  BY <1>1, <1>2, <1>3 DEF LUnsent
<1>9. LUnserved'
  BY <1>1, <1>2, <1>3, ServedOnly
<1>10. L!EndIsAnnounced'
  BY ZenonT(60), <1>1, <1>2, <1>3, <1>5 DEF L!EndIsAnnounced, L!TypeOK
<1>11. L!EndReportedOnce' /\ L!DeliveredInOrder'
  BY <1>1, <1>2 DEF L!EndReportedOnce, L!DeliveredInOrder
<1> QED BY <1>5, <1>6, <1>7, <1>8, <1>9, <1>10, <1>11 DEF LInv

LEMMA TrapInv ==
  ASSUME L!WorkerAssumption, LInv, L!Trap
  PROVE  LInv'
<1>1. /\ L!TypeOK /\ LStarts /\ LUnsent /\ LUnserved /\ LThread /\ LLive /\ LPlaces /\ LWhole
      /\ L!EndIsAnnounced /\ L!EndReportedOnce /\ L!DeliveredInOrder
  BY Parts
<1>2. /\ L!Up /\ l_thread' = "panicking" /\ (l_commands' = l_commands \/ l_commands' = <<>>)
      /\ UNCHANGED <<l_released, l_constructing, l_created, l_live, l_sources, l_posted, l_ends, l_messages, l_events,
                     l_told, l_reporters, l_task, l_root, l_held, l_flushed, l_jobs, l_delivered,
                     l_terminal_reported, l_panic_reported>>
  BY DEF L!Trap, L!creator, L!script, L!reports
<1>3. L!TypeOK'
  <2>1. l_commands \in Seq(Workers)
    BY <1>1 DEF L!TypeOK
  <2>2. <<>> \in Seq(Workers)
    OBVIOUS
  <2>3. l_commands' \in Seq(Workers)
    BY <1>2, <2>1, <2>2
  <2> QED BY <1>1, <1>2, <2>3 DEF L!TypeOK
<1>4. LStarts' /\ LUnserved'
  <2>1. CASE l_commands' = l_commands
    BY <1>1, <1>2, <2>1 DEF LStarts, LUnserved
  <2>2. CASE l_commands' = <<>>
    BY <1>1, <1>2, <2>2 DEF LStarts, LUnserved
  <2> QED BY <1>2, <2>1, <2>2
<1>5. LUnsent' /\ LLive'
  BY <1>1, <1>2 DEF LUnsent, LLive
<1>6. LThread'
  BY <1>1, <1>2 DEF LThread, L!Up
<1>7. LPlaces' /\ LWhole'
  BY <1>1, <1>2, PlacesStand
<1>8. L!EndIsAnnounced'
  BY <1>1, <1>2, <1>3 DEF L!EndIsAnnounced
<1>9. L!EndReportedOnce' /\ L!DeliveredInOrder'
  BY <1>1, <1>2 DEF L!EndReportedOnce, L!DeliveredInOrder
<1> QED BY <1>3, <1>4, <1>5, <1>6, <1>7, <1>8, <1>9 DEF LInv

(* The flag is raised and the thread is over: nobody is told by either.    *)
LEMMA ThreadInv ==
  ASSUME L!WorkerAssumption, LInv, L!Flag \/ L!Over \/ UNCHANGED L!vars
  PROVE  LInv'
<1>1. /\ L!TypeOK /\ LStarts /\ LUnsent /\ LUnserved /\ LThread /\ LLive /\ LPlaces /\ LWhole
      /\ L!EndIsAnnounced /\ L!EndReportedOnce /\ L!DeliveredInOrder
  BY Parts
<1>2. /\ l_thread' = l_thread \/ l_thread' \in {"flagged", "over"}
      /\ UNCHANGED <<l_released, l_constructing, l_created, l_live, l_sources, l_posted, l_ends, l_commands, l_messages,
                     l_events, l_told, l_reporters, l_task, l_root, l_held, l_flushed, l_jobs, l_delivered,
                     l_terminal_reported, l_panic_reported>>
  BY DEF L!Flag, L!Over, L!creator, L!script, L!reports, L!vars
<1>3. L!TypeOK'
  BY <1>1, <1>2 DEF L!TypeOK
<1>4. LStarts' /\ LUnsent' /\ LUnserved' /\ LThread' /\ LLive'
  BY <1>1, <1>2 DEF LStarts, LUnsent, LUnserved, LThread, LLive
<1>5. LPlaces' /\ LWhole'
  BY <1>1, <1>2, PlacesStand
<1>6. L!EndIsAnnounced'
  BY <1>1, <1>2, <1>3 DEF L!EndIsAnnounced
<1>7. L!EndReportedOnce' /\ L!DeliveredInOrder'
  BY <1>1, <1>2 DEF L!EndReportedOnce, L!DeliveredInOrder
<1> QED BY <1>3, <1>4, <1>5, <1>6, <1>7 DEF LInv

LEMMA ReportTrapInv ==
  ASSUME L!WorkerAssumption, LInv, NEW k \in Workers, L!ReportTrap(k)
  PROVE  LInv'
<1>1. /\ L!TypeOK /\ LStarts /\ LUnsent /\ LUnserved /\ LThread /\ LLive /\ LPlaces /\ LWhole
      /\ L!EndIsAnnounced /\ L!EndReportedOnce /\ L!DeliveredInOrder
  BY Parts
<1>2. /\ l_thread = "flagged" /\ k \in l_reporters /\ l_told' = l_told \cup {k}
      /\ (l_task[k] = "serving" /\ L!Say(k, "failed")) \/ (l_task[k] # "serving" /\ l_events' = l_events)
      /\ UNCHANGED <<l_released, l_constructing, l_created, l_live, l_sources, l_posted, l_ends, l_commands, l_messages,
                     l_thread, l_reporters, l_task, l_root, l_held, l_flushed, l_jobs, l_delivered,
                     l_terminal_reported, l_panic_reported>>
  BY DEF L!ReportTrap, L!creator, L!script, L!reports
<1>3. /\ l_events' \in Seq(L!End)
      /\ \A o : (\E i \in DOMAIN l_events : l_events[i].key = o) =>
                   \E i \in DOMAIN l_events' : l_events'[i].key = o
      /\ l_task[k] = "serving" => \E i \in DOMAIN l_events' : l_events'[i].key = k
  BY <1>1, <1>2, Saying DEF L!TypeOK
<1>4. L!TypeOK'
  BY <1>1, <1>2, <1>3 DEF L!TypeOK
<1>5. LStarts' /\ LUnsent' /\ LUnserved' /\ LThread' /\ LLive'
  BY <1>1, <1>2 DEF LStarts, LUnsent, LUnserved, LThread, LLive
<1>6. LPlaces' /\ LWhole'
  BY <1>1, <1>2, PlacesStand
<1>7. L!EndIsAnnounced'
  <2> SUFFICES ASSUME NEW o \in l_live', l_task'[o] \in {"ended", "done"} \/ o \in l_told'
               PROVE  \E i \in DOMAIN l_events' : l_events'[i].key = o
    BY <1>4 DEF L!EndIsAnnounced
  <2>1. l_task[k] \in {"serving", "ended", "done"}
    BY <1>1, <1>2 DEF LUnserved, L!TypeOK
  <2>2. CASE o = k /\ l_task[k] = "serving"
    BY <1>3, <2>2
  <2>3. CASE o \in l_live /\ (l_task[o] \in {"ended", "done"} \/ o \in l_told)
    BY <1>1, <1>3, <2>3 DEF L!EndIsAnnounced
  <2> QED BY <1>2, <2>1, <2>2, <2>3
<1>8. L!EndReportedOnce' /\ L!DeliveredInOrder'
  BY <1>1, <1>2 DEF L!EndReportedOnce, L!DeliveredInOrder
<1> QED BY <1>4, <1>5, <1>6, <1>7, <1>8 DEF LInv

LEMMA RunJobInv ==
  ASSUME L!WorkerAssumption, LInv, NEW k \in Workers, L!RunJob(k)
  PROVE  LInv'
<1>1. /\ L!TypeOK /\ LStarts /\ LUnsent /\ LUnserved /\ LThread /\ LLive /\ LPlaces /\ LWhole
      /\ L!EndIsAnnounced /\ L!EndReportedOnce /\ L!DeliveredInOrder
  BY Parts
<1>2. /\ l_task[k] = "serving" /\ l_jobs[k] # <<>> /\ L!Popped(k)
      /\ UNCHANGED <<l_released, l_constructing, l_created, l_live, l_sources, l_posted, l_ends, l_commands, l_messages,
                     l_thread, l_told, l_reporters, l_held, l_flushed, l_panic_reported>>
  BY DEF L!RunJob, L!creator, L!trap
<1>3. /\ l_delivered' = IF Head(l_jobs[k]).kind = "post"
                        THEN [l_delivered EXCEPT ![k] = Append(@, Head(l_jobs[k]).n)] ELSE l_delivered
      /\ \/ UNCHANGED <<l_events, l_task, l_terminal_reported>>
         \/ /\ L!Say(k, "closed") /\ L!Ends(k)
            /\ l_terminal_reported' = [l_terminal_reported EXCEPT ![k] = TRUE]
  BY DEF L!RunJob
<1>4. l_root' \in [Workers -> {"none", "loading", "awaiting", "finished"}]
  <2>1. PICK r \in {"loading", "awaiting", "finished", l_root[k]} : l_root' = [l_root EXCEPT ![k] = r]
    BY DEF L!RunJob
  <2> QED BY <1>1, <2>1 DEF L!TypeOK
<1>5. /\ l_task' \in [Workers -> {"none", "serving", "ended", "done"}]
      /\ l_task'[k] \in {"serving", "ended"} /\ \A o \in Workers \ {k} : l_task'[o] = l_task[o]
  BY <1>1, <1>2, <1>3 DEF L!TypeOK, L!Ends
<1>6. l_events' \in Seq(L!End) /\ l_terminal_reported' \in [Workers -> BOOLEAN]
  <2>1. CASE UNCHANGED <<l_events, l_task, l_terminal_reported>>
    BY <1>1, <2>1 DEF L!TypeOK
  <2>2. CASE /\ L!Say(k, "closed") /\ L!Ends(k)
             /\ l_terminal_reported' = [l_terminal_reported EXCEPT ![k] = TRUE]
    <3>1. l_events' \in Seq(L!End)
      BY <1>1, <2>2, Saying
    <3>2. l_terminal_reported' \in [Workers -> BOOLEAN]
      BY <1>1, <2>2 DEF L!TypeOK
    <3> QED BY <3>1, <3>2
  <2> QED BY <1>3, <2>1, <2>2
<1>7. /\ LPlaces' /\ LWhole' /\ l_jobs' \in [Workers -> Seq(L!Job)]
      /\ \A o \in Workers \ {k} : l_jobs'[o] = l_jobs[o] /\ l_delivered'[o] = l_delivered[o]
      /\ l_delivered' \in [Workers -> Seq(1..MaxPosts)] /\ L!DeliveredInOrder'
  <2>1. CASE Head(l_jobs[k]).kind # "post"
    <3>1. l_delivered' = l_delivered
      BY <1>3, <2>1
    <3>2. /\ LPlaces' /\ LWhole' /\ l_jobs' \in [Workers -> Seq(L!Job)]
          /\ \A o \in Workers \ {k} : l_jobs'[o] = l_jobs[o]
      BY <1>1, <1>2, <1>5, <2>1, <3>1, PopJob
    <3> QED BY <1>1, <3>1, <3>2 DEF L!DeliveredInOrder, L!TypeOK
  <2>2. CASE Head(l_jobs[k]).kind = "post"
    <3>1. /\ l_jobs[k] \in Seq(Item) /\ l_held[k] \in Seq(Item) /\ l_messages[k] \in Seq(Item)
          /\ Len(l_delivered[k]) \in Nat /\ l_posted[k] \in 0..MaxPosts
      BY <1>1, Items
    <3>2. /\ Places(l_jobs[k], l_held[k], l_messages[k], Len(l_delivered[k]), l_posted[k], l_flushed[k])
          /\ Whole(l_jobs[k], l_held[k], l_messages[k], Len(l_delivered[k]), l_posted[k])
      BY <1>1, <1>2 DEF LPlaces, LWhole
    <3>3. PICK n : n = Head(l_jobs[k]).n
      OBVIOUS
    <3>4. /\ n = Len(l_delivered[k]) + 1 /\ Len(l_delivered[k]) + 1 <= l_posted[k]
          /\ Places(Tail(l_jobs[k]), l_held[k], l_messages[k], Len(l_delivered[k]) + 1, l_posted[k], l_flushed[k])
          /\ Whole(Tail(l_jobs[k]), l_held[k], l_messages[k], Len(l_delivered[k]) + 1, l_posted[k])
      <4> HIDE <1>1, <1>2, <1>3, <1>4, <1>5, <1>6
      <4> QED BY <1>2, <2>2, <3>1, <3>2, <3>3, HandPlaces DEF L!WorkerAssumption
    <3>5. n \in 1..MaxPosts
      BY <3>1, <3>4 DEF L!WorkerAssumption
    <3>6. /\ l_delivered' = [l_delivered EXCEPT ![k] = Append(l_delivered[k], n)]
          /\ l_delivered[k] \in Seq(1..MaxPosts)
      BY <1>1, <1>3, <2>2, <3>3 DEF L!TypeOK
    <3>7. /\ l_delivered' \in [Workers -> Seq(1..MaxPosts)] /\ l_delivered'[k] = Append(l_delivered[k], n)
          /\ \A o \in Workers \ {k} : l_delivered'[o] = l_delivered[o]
      BY <1>1, <3>5, <3>6 DEF L!TypeOK
    <3>8. /\ Len(l_delivered'[k]) = Len(l_delivered[k]) + 1
          /\ \A i \in 1..Len(l_delivered[k]) : l_delivered'[k][i] = l_delivered[k][i]
          /\ l_delivered'[k][Len(l_delivered[k]) + 1] = n
          /\ DOMAIN l_delivered[k] = 1..Len(l_delivered[k])
          /\ DOMAIN l_delivered'[k] = 1..Len(l_delivered'[k])
      BY <3>5, <3>6, <3>7
    <3>9. /\ l_jobs'[k] = Tail(l_jobs[k]) /\ l_jobs' \in [Workers -> Seq(L!Job)]
          /\ \A o \in Workers \ {k} : l_jobs'[o] = l_jobs[o]
      <4>1. l_jobs[k] \in Seq(L!Job) /\ Tail(l_jobs[k]) \in Seq(L!Job)
        BY <1>1, <1>2 DEF L!TypeOK
      <4> QED BY <1>1, <1>2, <4>1 DEF L!TypeOK, L!Popped
    <3>10. LPlaces' /\ LWhole'
      <4>1. l_held' = l_held /\ l_messages' = l_messages /\ l_posted' = l_posted /\ l_flushed' = l_flushed
        BY <1>2
      <4>2. /\ Places(l_jobs'[k], l_held'[k], l_messages'[k], Len(l_delivered'[k]), l_posted'[k], l_flushed'[k])
            /\ Whole(l_jobs'[k], l_held'[k], l_messages'[k], Len(l_delivered'[k]), l_posted'[k])
        BY <3>4, <3>8, <3>9, <4>1
      <4> QED BY <1>1, <1>5, <3>7, <3>9, <4>1, <4>2, PlacesElsewhere
    <3>11. L!DeliveredInOrder'
      <4>1. \A i \in DOMAIN l_delivered'[k] : l_delivered'[k][i] = i
        <5>1. \A i \in 1..Len(l_delivered'[k]) : i \in 1..Len(l_delivered[k]) \/ i = Len(l_delivered[k]) + 1
          BY <3>1, <3>8
        <5> QED BY <1>1, <3>4, <3>8, <5>1 DEF L!DeliveredInOrder
      <4> QED BY <1>1, <3>7, <4>1 DEF L!DeliveredInOrder
    <3> QED BY <3>7, <3>9, <3>10, <3>11
  <2> QED BY <2>1, <2>2
<1>8. L!TypeOK'
  BY <1>1, <1>2, <1>4, <1>5, <1>6, <1>7 DEF L!TypeOK
<1>9. LStarts' /\ LThread' /\ LLive'
  BY <1>1, <1>2 DEF LStarts, LThread, LLive
<1>10. LUnsent'
  BY <1>1, <1>2, <1>5 DEF LUnsent
<1>11. LUnserved'
  BY <1>1, <1>2, <1>5, <1>7, ServedOnly
<1>12. L!EndIsAnnounced'
  <2>1. CASE UNCHANGED <<l_events, l_task, l_terminal_reported>>
    BY <1>1, <1>2, <1>8, <2>1 DEF L!EndIsAnnounced
  <2>2. CASE L!Say(k, "closed") /\ L!Ends(k)
    BY <1>2, <1>8, <2>2, EndingAnnounced
  <2> QED BY <1>3, <2>1, <2>2
<1>13. L!EndReportedOnce'
  BY <1>1, <1>2 DEF L!EndReportedOnce
<1> QED BY <1>7, <1>8, <1>9, <1>10, <1>11, <1>12, <1>13 DEF LInv

-----------------------------------------------------------------------------
(* What is held are posts, and may become jobs.                            *)
LEMMA HeldAreJobs ==
  ASSUME NEW h \in Seq(L!Message), \A i \in 1..Len(h) : IsPost(h, i)
  PROVE  h \in Seq(L!Job)
<1>1. ASSUME NEW i \in 1..Len(h)
      PROVE  h[i] \in L!Job
  <2>1. h[i] \in L!Message /\ h[i].kind = "post"
    BY DEF IsPost
  <2> QED BY <2>1 DEF L!Message, L!Job
<1> QED BY <1>1

(* One turn of the loop: `more' is queued, `kept' is held, and what is held *)
(* is let through where the root module has finished.                      *)
LEMMA TurnPlaces ==
  ASSUME L!TypeOK, NEW k \in Workers, NEW more \in Seq(L!Job), NEW kept \in Seq(L!Message),
         NEW u \in Seq(L!Message), L!Turn(k, more, kept),
         Places(l_jobs[k] \o more, kept, u, Len(l_delivered[k]), l_posted[k], l_flushed[k])
  PROVE  /\ Places(l_jobs'[k], l_held'[k], u, Len(l_delivered[k]), l_posted[k], l_flushed'[k])
         /\ Whole(l_jobs[k] \o more, kept, u, Len(l_delivered[k]), l_posted[k])
              => Whole(l_jobs'[k], l_held'[k], u, Len(l_delivered[k]), l_posted[k])
         /\ l_jobs' \in [Workers -> Seq(L!Job)] /\ l_held' \in [Workers -> Seq(L!Message)]
         /\ l_flushed' \in [Workers -> BOOLEAN]
         /\ \A o \in Workers \ {k} :
              l_jobs'[o] = l_jobs[o] /\ l_held'[o] = l_held[o] /\ l_flushed'[o] = l_flushed[o]
<1>1. /\ l_jobs \in [Workers -> Seq(L!Job)] /\ l_held \in [Workers -> Seq(L!Message)]
      /\ l_flushed \in [Workers -> BOOLEAN] /\ l_jobs[k] \in Seq(L!Job)
  BY DEF L!TypeOK
<1>2. CASE ~l_flushed[k] /\ l_root[k] = "finished"
  <2>1. kept \in Seq(L!Job)
    BY HeldAreJobs DEF Places
  <2>2. /\ l_jobs' = [l_jobs EXCEPT ![k] = @ \o (more \o kept)]
        /\ l_held' = [l_held EXCEPT ![k] = <<>>]
        /\ l_flushed' = [l_flushed EXCEPT ![k] = TRUE]
    <3>1. l_flushed' = [l_flushed EXCEPT ![k] = l_flushed[k] \/ (~l_flushed[k] /\ l_root[k] = "finished")]
      BY <1>1 DEF L!Turn
    <3>2. (l_flushed[k] \/ (~l_flushed[k] /\ l_root[k] = "finished")) = TRUE
      BY <1>2
    <3> QED BY <1>2, <3>1, <3>2 DEF L!Turn, L!Queue
  <2>3. PICK q \in Seq(L!Job) : q = l_jobs[k] \o more
    BY <1>1, Joined
  <2>4. l_jobs[k] \o (more \o kept) = q \o kept /\ q \o kept \in Seq(L!Job)
    BY <1>1, <2>1, <2>3
  <2>5. /\ l_jobs'[k] = q \o kept /\ l_held'[k] = <<>> /\ l_flushed'[k] = TRUE
        /\ \A o \in Workers \ {k} :
             l_jobs'[o] = l_jobs[o] /\ l_held'[o] = l_held[o] /\ l_flushed'[o] = l_flushed[o]
    BY <1>1, <2>2, <2>4
  <2>6. l_jobs' \in [Workers -> Seq(L!Job)]
    BY <1>1, <2>2, <2>4
  <2>7. l_held' \in [Workers -> Seq(L!Message)] /\ l_flushed' \in [Workers -> BOOLEAN]
    BY <1>1, <2>2
  <2>8. /\ Places(q \o kept, <<>>, u, Len(l_delivered[k]), l_posted[k], TRUE)
        /\ Whole(q, kept, u, Len(l_delivered[k]), l_posted[k])
             => Whole(q \o kept, <<>>, u, Len(l_delivered[k]), l_posted[k])
    <3>1. q \in Seq(Item) /\ kept \in Seq(Item) /\ u \in Seq(Item)
      BY <2>3, ItemSeqs
    <3>2. l_flushed[k] = FALSE
      BY <1>1, <1>2
    <3>3. Places(q, kept, u, Len(l_delivered[k]), l_posted[k], FALSE)
      BY <2>3, <3>2
    <3> HIDE <1>1, <1>2, <2>1, <2>2, <2>3, <2>4, <2>5, <2>6, <2>7
    <3> QED BY <3>1, <3>3, OpenPlaces
  <2> QED BY <2>3, <2>5, <2>6, <2>7, <2>8
<1>3. CASE ~(~l_flushed[k] /\ l_root[k] = "finished")
  <2>1. /\ l_jobs' = [l_jobs EXCEPT ![k] = @ \o more] /\ l_held' = [l_held EXCEPT ![k] = kept]
        /\ l_flushed' = l_flushed
    <3>1. l_flushed' = [l_flushed EXCEPT ![k] = l_flushed[k] \/ (~l_flushed[k] /\ l_root[k] = "finished")]
      BY <1>1 DEF L!Turn
    <3>2. (l_flushed[k] \/ (~l_flushed[k] /\ l_root[k] = "finished")) = l_flushed[k]
      BY <1>1, <1>3
    <3>3. l_flushed' = l_flushed
      BY <1>1, <3>1, <3>2
    <3> QED BY <1>3, <3>3 DEF L!Turn, L!Queue
  <2>2. l_jobs[k] \o more \in Seq(L!Job)
    BY <1>1
  <2>3. /\ l_jobs'[k] = l_jobs[k] \o more /\ l_held'[k] = kept
        /\ \A o \in Workers \ {k} : l_jobs'[o] = l_jobs[o] /\ l_held'[o] = l_held[o]
    BY <1>1, <2>1, <2>2
  <2>4. l_jobs' \in [Workers -> Seq(L!Job)] /\ l_held' \in [Workers -> Seq(L!Message)]
    BY <1>1, <2>1, <2>2
  <2> QED BY <1>1, <2>1, <2>3, <2>4
<1> QED BY <1>2, <1>3

(* What the consumer reads: where the posts of its worker are then.        *)
LEMMA ConsumePlaces ==
  ASSUME L!WorkerAssumption, LInv, NEW k \in Workers, L!Consume(k)
  PROVE  /\ LPlaces' /\ LWhole'
         /\ l_jobs' \in [Workers -> Seq(L!Job)] /\ l_held' \in [Workers -> Seq(L!Message)]
         /\ l_messages' \in [Workers -> Seq(L!Message)] /\ l_flushed' \in [Workers -> BOOLEAN]
         /\ \A o \in Workers \ {k} :
              /\ l_jobs'[o] = l_jobs[o] /\ l_held'[o] = l_held[o]
              /\ l_flushed'[o] = l_flushed[o] /\ l_messages'[o] = l_messages[o]
         /\ l_messages[k] = <<>> => l_messages'[k] = <<>>
         /\ \A i \in 1..Len(l_messages'[k]) :
              i + 1 \in 1..Len(l_messages[k]) /\ l_messages'[k][i] = l_messages[k][i + 1]
<1>1. L!TypeOK /\ LPlaces /\ LWhole
  BY Parts
<1>2. /\ l_task[k] = "serving" /\ l_messages' = [l_messages EXCEPT ![k] = IF @ = <<>> THEN @ ELSE Tail(@)]
      /\ l_posted' = l_posted /\ l_delivered' = l_delivered
  BY DEF L!Consume, L!creator
<1>3. PICK q, h, u, d, m :
        /\ q = l_jobs[k] /\ h = l_held[k] /\ u = l_messages[k] /\ d = Len(l_delivered[k]) /\ m = l_posted[k]
        /\ q \in Seq(Item) /\ h \in Seq(Item) /\ u \in Seq(Item)
        /\ q \in Seq(L!Job) /\ h \in Seq(L!Message) /\ u \in Seq(L!Message)
        /\ d \in Nat /\ m \in 0..MaxPosts /\ l_flushed[k] \in BOOLEAN
  BY <1>1, Items
<1>4. Places(q, h, u, d, m, l_flushed[k]) /\ Whole(q, h, u, d, m)
  BY <1>1, <1>2, <1>3 DEF LPlaces, LWhole
<1>5. PICK v \in Seq(L!Message) :
        /\ v = IF u = <<>> THEN u ELSE Tail(u)
        /\ u = <<>> => v = <<>>
        /\ \A i \in 1..Len(v) : i + 1 \in 1..Len(u) /\ v[i] = u[i + 1]
  <2>1. CASE u = <<>>
    <3>1. u \in Seq(L!Message) /\ 1..Len(u) = {}
      BY <1>3, <2>1
    <3> QED BY <2>1, <3>1
  <2>2. CASE u # <<>>
    <3>1. /\ Tail(u) \in Seq(L!Message)
          /\ \A i \in 1..Len(Tail(u)) : i + 1 \in 1..Len(u) /\ Tail(u)[i] = u[i + 1]
      BY <1>3, <2>2, Beheaded
    <3> QED BY <2>2, <3>1
  <2> QED BY <2>1, <2>2
<1>6. /\ l_messages'[k] = v /\ l_messages' \in [Workers -> Seq(L!Message)]
      /\ \A o \in Workers \ {k} : l_messages'[o] = l_messages[o]
  <2>1. l_messages' = [l_messages EXCEPT ![k] = v]
    BY <1>2, <1>3, <1>5
  <2> QED BY <1>1, <2>1 DEF L!TypeOK
<1>7. SUFFICES
        /\ Places(l_jobs'[k], l_held'[k], v, d, m, l_flushed'[k])
        /\ l_task'[k] \in {"none", "serving"} => Whole(l_jobs'[k], l_held'[k], v, d, m)
        /\ l_jobs' \in [Workers -> Seq(L!Job)] /\ l_held' \in [Workers -> Seq(L!Message)]
        /\ l_flushed' \in [Workers -> BOOLEAN]
        /\ \A o \in Workers \ {k} :
             /\ l_jobs'[o] = l_jobs[o] /\ l_held'[o] = l_held[o] /\ l_flushed'[o] = l_flushed[o]
             /\ l_task'[o] = l_task[o]
  <2>1. LPlaces' /\ LWhole'
    BY <1>1, <1>2, <1>3, <1>6, <1>7, PlacesElsewhere
  <2> QED BY <1>3, <1>5, <1>6, <1>7, <2>1
<1>8. CASE L!Stops(k) /\ L!Ends(k) /\ UNCHANGED <<l_held, l_flushed, l_jobs>>
  <2>1. /\ l_jobs' = l_jobs /\ l_held' = l_held /\ l_flushed' = l_flushed /\ l_task'[k] = "ended"
        /\ \A o \in Workers \ {k} : l_task'[o] = l_task[o]
    BY <1>1, <1>8 DEF L!Ends, L!TypeOK
  <2>2. Places(q, h, v, d, m, l_flushed[k])
    <3>1. CASE u = <<>>
      BY <1>4, <1>5, <3>1
    <3>2. CASE u # <<>>
      BY <1>3, <1>4, <1>5, <3>2, ReadPlaces
    <3> QED BY <3>1, <3>2
  <2> QED BY <1>1, <1>3, <2>1, <2>2 DEF L!TypeOK
<1>9. ASSUME NEW more \in Seq(L!Job), NEW kept \in Seq(L!Message), L!Turn(k, more, kept), UNCHANGED l_task,
             Places(q \o more, kept, v, d, m, l_flushed[k]), Whole(q \o more, kept, v, d, m)
      PROVE  /\ Places(l_jobs'[k], l_held'[k], v, d, m, l_flushed'[k]) /\ Whole(l_jobs'[k], l_held'[k], v, d, m)
             /\ l_jobs' \in [Workers -> Seq(L!Job)] /\ l_held' \in [Workers -> Seq(L!Message)]
             /\ l_flushed' \in [Workers -> BOOLEAN]
             /\ \A o \in Workers \ {k} :
                  /\ l_jobs'[o] = l_jobs[o] /\ l_held'[o] = l_held[o] /\ l_flushed'[o] = l_flushed[o]
                  /\ l_task'[o] = l_task[o]
  <2>1. Places(l_jobs[k] \o more, kept, v, Len(l_delivered[k]), l_posted[k], l_flushed[k])
    BY <1>3, <1>9
  <2>2. /\ Places(l_jobs'[k], l_held'[k], v, Len(l_delivered[k]), l_posted[k], l_flushed'[k])
        /\ Whole(l_jobs[k] \o more, kept, v, Len(l_delivered[k]), l_posted[k])
             => Whole(l_jobs'[k], l_held'[k], v, Len(l_delivered[k]), l_posted[k])
        /\ l_jobs' \in [Workers -> Seq(L!Job)] /\ l_held' \in [Workers -> Seq(L!Message)]
        /\ l_flushed' \in [Workers -> BOOLEAN]
        /\ \A o \in Workers \ {k} :
             l_jobs'[o] = l_jobs[o] /\ l_held'[o] = l_held[o] /\ l_flushed'[o] = l_flushed[o]
    BY <1>1, <1>9, <2>1, TurnPlaces
  <2> QED BY <1>3, <1>9, <2>2
<1>10. CASE L!Wakes(k) /\ L!Turn(k, <<>>, l_held[k]) /\ UNCHANGED l_task
  <2>1. PICK more \in Seq(L!Job) : more = <<>>
    BY Empty
  <2>2. v = u /\ q \o more = q
    BY <1>3, <1>5, <1>10, <2>1 DEF L!Wakes
  <2> QED BY <1>3, <1>4, <1>9, <1>10, <2>1, <2>2
<1>11. CASE /\ u # <<>> /\ L!Held(k, Head(u)) /\ L!Turn(k, <<>>, Append(h, Head(u))) /\ UNCHANGED l_task
  <2>1. PICK more \in Seq(L!Job) : more = <<>>
    BY Empty
  <2>2. v = Tail(u) /\ q \o more = q /\ Head(u) \in L!Message /\ Append(h, Head(u)) \in Seq(L!Message)
    BY <1>3, <1>5, <1>11, <2>1
  <2>3. Head(u).kind = "post" /\ l_flushed[k] = FALSE
    BY <1>3, <1>11 DEF L!Held
  <2>4. Places(q, Append(h, Head(u)), Tail(u), d, m, FALSE) /\ Whole(q, Append(h, Head(u)), Tail(u), d, m)
    <3>1. Places(q, h, u, d, m, FALSE)
      BY <1>4, <2>3
    <3> QED BY <1>3, <1>4, <1>11, <2>3, <3>1, KeepPlaces
  <2>5. /\ Places(q \o more, Append(h, Head(u)), v, d, m, l_flushed[k])
        /\ Whole(q \o more, Append(h, Head(u)), v, d, m)
    BY <2>2, <2>3, <2>4
  <2> QED BY <1>9, <1>11, <2>1, <2>2, <2>5
<1>12. CASE /\ u # <<>> /\ ~L!Stops(k) /\ ~L!Held(k, Head(u)) /\ L!Turn(k, <<Head(u)>>, h) /\ UNCHANGED l_task
  <2>1. PICK e \in L!Message : e = Head(u)
    BY <1>3, <1>12
  <2>2. e.kind # "terminate" /\ (l_flushed[k] \/ e.kind # "post")
    BY <1>3, <1>12, <2>1 DEF L!Stops, L!Held
  <2>3. PICK more \in Seq(L!Job) : more = <<e>>
    <3>1. e \in L!Job
      BY <2>1, <2>2 DEF L!Message, L!Job
    <3> QED BY <3>1, Single
  <2>4. Places(q \o <<Head(u)>>, h, Tail(u), d, m, l_flushed[k]) /\ Whole(q \o <<Head(u)>>, h, Tail(u), d, m)
    <3>1. l_flushed[k] \/ Head(u).kind # "post"
      BY <2>1, <2>2
    <3>2. /\ q \in Seq(Item) /\ h \in Seq(Item) /\ u \in Seq(Item) /\ l_flushed[k] \in BOOLEAN /\ u # <<>>
      BY <1>3, <1>12
    <3> HIDE <1>1, <1>2, <1>3, <1>5, <1>6
    <3> QED BY <1>4, <3>1, <3>2, PassPlaces
  <2>5. Places(q \o more, h, v, d, m, l_flushed[k]) /\ Whole(q \o more, h, v, d, m)
    BY <1>5, <1>12, <2>1, <2>3, <2>4
  <2> QED BY <1>3, <1>9, <1>12, <2>1, <2>3, <2>5
<1> QED BY <1>3, <1>8, <1>10, <1>11, <1>12 DEF L!Consume

LEMMA ConsumeInv ==
  ASSUME L!WorkerAssumption, LInv, NEW k \in Workers, L!Consume(k)
  PROVE  LInv'
<1>1. /\ L!TypeOK /\ LStarts /\ LUnsent /\ LUnserved /\ LThread /\ LLive /\ LPlaces /\ LWhole
      /\ L!EndIsAnnounced /\ L!EndReportedOnce /\ L!DeliveredInOrder
  BY Parts
<1>2. /\ L!Up /\ l_task[k] = "serving"
      /\ UNCHANGED <<l_released, l_constructing, l_created, l_live, l_sources, l_posted, l_ends, l_commands, l_events,
                     l_thread, l_told, l_reporters, l_root, l_delivered, l_terminal_reported, l_panic_reported>>
  BY DEF L!Consume, L!creator, L!trap, L!reports
<1>3. /\ LPlaces' /\ LWhole'
      /\ l_jobs' \in [Workers -> Seq(L!Job)] /\ l_held' \in [Workers -> Seq(L!Message)]
      /\ l_messages' \in [Workers -> Seq(L!Message)] /\ l_flushed' \in [Workers -> BOOLEAN]
      /\ \A o \in Workers \ {k} :
           /\ l_jobs'[o] = l_jobs[o] /\ l_held'[o] = l_held[o]
           /\ l_flushed'[o] = l_flushed[o] /\ l_messages'[o] = l_messages[o]
      /\ l_messages[k] = <<>> => l_messages'[k] = <<>>
      /\ \A i \in 1..Len(l_messages'[k]) :
           i + 1 \in 1..Len(l_messages[k]) /\ l_messages'[k][i] = l_messages[k][i + 1]
  BY ConsumePlaces
<1>4. (L!Stops(k) /\ L!Ends(k)) \/ UNCHANGED l_task
  BY DEF L!Consume
<1>5. /\ l_task' \in [Workers -> {"none", "serving", "ended", "done"}]
      /\ l_task'[k] \in {"serving", "ended"} /\ \A o \in Workers \ {k} : l_task'[o] = l_task[o]
  BY <1>1, <1>2, <1>4 DEF L!TypeOK, L!Ends
<1>6. L!Stops(k) => k \notin l_live
  <2>1. CASE l_messages[k] = <<>>
    BY <2>1 DEF L!Stops
  <2>2. CASE l_messages[k] # <<>>
    <3>1. l_messages[k] \in Seq(L!Message)
      BY <1>1 DEF L!TypeOK
    <3>2. 1 \in 1..Len(l_messages[k]) /\ Head(l_messages[k]) = l_messages[k][1]
      BY <2>2, <3>1
    <3> QED BY <1>1, <2>2, <3>2 DEF L!Stops, LLive
  <2> QED BY <2>1, <2>2
<1>7. L!TypeOK'
  BY <1>1, <1>2, <1>3, <1>5 DEF L!TypeOK
<1>8. LStarts' /\ LThread'
  BY <1>1, <1>2 DEF LStarts, LThread
<1>9. LUnsent'
  BY ZenonT(60), <1>1, <1>2, <1>3, <1>5 DEF LUnsent
<1>10. LUnserved'
  BY <1>1, <1>2, <1>3, <1>5, ServedOnly
<1>11. LLive'
  <2>1. k \in l_live => \A i \in 1..Len(l_messages'[k]) : l_messages'[k][i].kind # "terminate"
    BY <1>1, <1>3 DEF LLive
  <2>2. \A o \in l_live \ {k} : l_messages'[o] = l_messages[o]
    BY <1>1, <1>3 DEF L!TypeOK
  <2> QED BY <1>1, <1>2, <2>1, <2>2 DEF LLive
<1>12. L!EndIsAnnounced'
  <2> SUFFICES ASSUME NEW o \in l_live', l_task'[o] \in {"ended", "done"} \/ o \in l_told'
               PROVE  \E i \in DOMAIN l_events' : l_events'[i].key = o
    BY <1>7 DEF L!EndIsAnnounced
  <2>1. o \in l_live /\ o \in Workers /\ l_told' = l_told /\ l_events' = l_events
    BY <1>1, <1>2 DEF L!TypeOK
  <2>2. l_task'[o] = l_task[o]
    BY <1>4, <1>5, <1>6, <2>1
  <2> QED BY <1>1, <2>1, <2>2 DEF L!EndIsAnnounced
<1>13. L!EndReportedOnce' /\ L!DeliveredInOrder'
  BY <1>1, <1>2 DEF L!EndReportedOnce, L!DeliveredInOrder
<1> QED BY <1>3, <1>7, <1>8, <1>9, <1>10, <1>11, <1>12, <1>13 DEF LInv

-----------------------------------------------------------------------------
LEMMA LNextInv == L!WorkerAssumption /\ LInv /\ [L!Next]_(L!vars) => LInv'
<1> SUFFICES ASSUME L!WorkerAssumption, LInv, [L!Next]_(L!vars) PROVE LInv'
  OBVIOUS
<1>1. ASSUME NEW k \in Workers, L!Construct(k) \/ L!Post(k) \/ L!Terminate(k) \/ L!Answer(k)
      PROVE  LInv'
  BY <1>1, ConstructInv, PostInv, TerminateInv, AnswerInv
<1>2. ASSUME NEW k \in Workers, L!Task(k) \/ L!Jobs(k) \/ L!Loaded(k) \/ L!Panics(k)
      PROVE  LInv'
  BY <1>2, ConsumeInv, FinishInv, DropJobInv, BootFailsInv, RunJobInv, LoadedInv, PanicsInv
     DEF L!Task, L!Jobs
<1>3. CASE L!SendStart \/ L!Dispatch \/ L!Release \/ L!Serve \/ L!Trap
  BY <1>3, SendStartInv, DispatchInv, ReleaseInv, ServeInv, TrapInv
<1>4. CASE L!TrapSteps
  BY <1>4, ThreadInv, ReportTrapInv DEF L!TrapSteps
<1>5. CASE L!Quiet \/ UNCHANGED L!vars
  BY <1>5, ThreadInv DEF L!Quiet
<1> QED BY <1>1, <1>2, <1>3, <1>4, <1>5 DEF L!Next

(* The inductive invariant holds in every behaviour.                       *)
THEOREM LInvariance == ASSUME L!WorkerAssumption PROVE L!Spec => []LInv
<1>1. L!Init => LInv
  BY LInitInv
<1>2. LInv /\ [L!Next]_(L!vars) => LInv'
  BY LNextInv
<1> QED BY <1>1, <1>2, PTL DEF L!Spec

(* Every variable keeps its type; a worker that has a sender has a source, *)
(* and was created (workers.rs, WorkerOwner).                              *)
THEOREM LTypeCorrect == ASSUME L!WorkerAssumption PROVE L!Spec => []L!TypeOK
<1>1. LInv => L!TypeOK
  BY Parts
<1> QED BY <1>1, LInvariance, PTL

(* The end of a worker is announced while its creator keeps it and is      *)
(* reported at most once, and what is posted to it arrives in order and    *)
(* without a gap, for any number of workers and posts, whether or not      *)
(* panics abort and the thread traps (thread.rs, workers.rs).              *)
THEOREM WorkersTold == ASSUME L!WorkerAssumption PROVE L!Spec => []L!WorkersAreTold
<1>1. LInv => L!WorkersAreTold
  BY DEF LInv, L!WorkersAreTold
<1> QED BY <1>1, LInvariance, PTL

(* A worker is only ever constructed, with a Start to be sent, while       *)
(* nobody has been told of a trap (workers.rs, start; report_thread_trap). *)
THEOREM NoStartBehind == ASSUME L!WorkerAssumption PROVE L!Spec => L!NoStartBehindReport
<1>1. LInv /\ [L!Next]_(L!vars) => [l_constructing' \notin {l_constructing, NoWorker} => l_told = {}]_(L!vars)
  <2> SUFFICES ASSUME LInv, [L!Next]_(L!vars), l_constructing' \notin {l_constructing, NoWorker}
               PROVE  l_told = {}
    OBVIOUS
  <2>1. PICK k \in Workers : L!Construct(k)
    BY ZenonT(60)
       DEF L!Next, L!Post, L!Terminate, L!Answer, L!Task, L!Jobs, L!Loaded, L!Panics, L!Consume, L!Finish, L!DropJob,
           L!BootFails, L!RunJob, L!SendStart, L!Dispatch, L!Release, L!Serve, L!Trap, L!TrapSteps, L!Flag, L!Over,
           L!ReportTrap, L!Quiet, L!creator, L!vars
  <2>2. ~L!Trapped /\ L!TypeOK /\ LThread
    BY <2>1, Parts DEF L!Construct
  <2> QED BY <2>2 DEF L!Trapped, L!TypeOK, LThread
<1> QED BY <1>1, LInvariance, PTL DEF L!Spec, L!NoStartBehindReport

-----------------------------------------------------------------------------
(* The composition: what scrolls, the workers and the background thread.   *)
(* Each part takes its own steps or stands still.                          *)
LEMMA Composed == SharedSpec => Spec /\ L!Spec /\ B!Spec
<1>1. SharedInit => Init /\ L!Init /\ B!Init
  BY DEF SharedInit
<1>2. [SharedNext]_all => [Next]_vars /\ [L!Next]_(L!vars) /\ [B!Next]_(B!vars)
  <2>1. UNCHANGED l_vars <=> UNCHANGED L!vars
    BY DEF l_vars, L!vars, L!creator, L!script, L!trap, L!reports
  <2>2. UNCHANGED b_vars <=> UNCHANGED B!vars
    BY DEF b_vars, B!vars
  <2>3. UNCHANGED all => UNCHANGED vars /\ UNCHANGED l_vars /\ UNCHANGED b_vars
    BY DEF all
  <2> QED BY <2>1, <2>2, <2>3 DEF SharedNext
<1> QED BY <1>1, <1>2, PTL DEF SharedSpec, Spec, L!Spec, B!Spec

(* Whatever the page scrolls, the end of a worker is announced while its   *)
(* creator keeps it and reported once, and what is posted to it arrives in *)
(* order (workers.rs, thread.rs).                                          *)
THEOREM SharedWorkersTold == SharedSpec => []WorkersAreTold
<1>1. L!Spec => []L!WorkersAreTold
  BY CreatorAssumption, WorkersTold
<1>2. L!WorkersAreTold => WorkersAreTold
  BY DEF WorkersAreTold
<1> QED BY <1>1, <1>2, Composed, PTL

(* No Start is sent behind a report of the trap (report_thread_trap).      *)
THEOREM SharedNoStart == SharedSpec => NoStartBehindReport
<1>1. L!Spec => L!NoStartBehindReport
  BY CreatorAssumption, NoStartBehind
<1> QED BY <1>1, Composed, PTL DEF NoStartBehindReport

(* What scrolls keeps its promises beside the workers: the document ends   *)
(* where the painter's last word put it, and no request is undone or lost. *)
THEOREM SharedScroll ==
  SharedSpec => [](DocumentFollows /\ RequestStands /\ RequestIsOnItsWay)
<1>1. Spec => []DocumentFollows /\ []RequestStands /\ []RequestIsOnItsWay
  BY ContainerAssumption, DocumentIsWherePosted, RequestsAreNotUndone, RequestsAreNotLost
<1> QED BY <1>1, Composed, PTL

-----------------------------------------------------------------------------
(* The page's background thread.                                           *)
(* What stands in front of the messages in the BTS's inbox, and how many   *)
(* of them have arrived.                                                   *)
BFirst == IF b_entry = "unread" THEN 1 ELSE 0
BCame == Len(b_handled) + Len(b_waiting)

(* Nothing is on the channels before they are there.                       *)
BLinks ==
  /\ b_handle = "none" <=> b_bts = "none"
  /\ b_handle = "none" => ~b_connected /\ b_inbox = <<>>
  /\ b_handle = "held" => b_connected
  /\ b_connected => b_handle # "none" /\ (b_handle = "held" \/ b_ended_known)
  /\ b_handle # "none" /\ ~b_connected => b_disposal # "none"
  /\ b_bts = "ended" => b_inbox = <<>>
BEntry ==
  /\ b_entry = "unread" => b_handled = <<>> /\ b_waiting = <<>>
  /\ b_entry = "loading" => b_handled = <<>>
  /\ b_entry = "settled" => b_waiting = <<>>
  /\ ~b_connected => b_entry = "unread"
BHandled == \A i \in 1..Len(b_handled) : b_handled[i] = i
BWaiting == \A i \in 1..Len(b_waiting) : b_waiting[i] = B!App(Len(b_handled) + i)
BInbox ==
  b_connected /\ b_bts = "running" =>
    /\ BFirst <= Len(b_inbox)
    /\ \A i \in 1..Len(b_inbox) :
       /\ b_inbox[i].kind = "initialize" <=> i = 1 /\ b_entry = "unread"
       /\ b_inbox[i].kind = "initialize" => b_inbox[i] = B!Bare("initialize")
       /\ b_inbox[i].kind = "app" => b_inbox[i] = B!App(BCame + i - BFirst)
BServed ==
  b_disposal = "none" /\ b_connected /\ b_bts = "running" =>
    /\ \A i \in 1..Len(b_inbox) : b_inbox[i].kind \in {"initialize", "app"}
    /\ BCame + Len(b_inbox) - BFirst = b_sent
BPending ==
  /\ b_disposal = "none" /\ ~b_connected =>
       Len(b_pending) = b_sent /\ \A i \in 1..Len(b_pending) : b_pending[i] = B!App(i)
  /\ b_connected \/ b_disposal # "none" => b_pending = <<>>
BAlone == ~b_connected => \A i \in 1..Len(b_inbox) : b_inbox[i].kind = "terminate"
BDispose ==
  /\ b_cleanups <= 1
  /\ b_disposal = "none" => b_cleanups = 0 /\ \A i \in 1..Len(b_inbox) : b_inbox[i].kind # "dispose"
  /\ \A i \in 1..Len(b_inbox) : b_inbox[i].kind = "dispose" => b_cleanups = 0
  /\ \A i, j \in 1..Len(b_inbox) :
       b_inbox[i].kind = "dispose" /\ b_inbox[j].kind = "dispose" => i = j
  /\ \A i, j \in 1..Len(b_inbox) :
       i <= j /\ b_inbox[i].kind \in {"dispose", "terminate"} =>
         b_inbox[j].kind \in {"dispose", "terminate"}
BEnds == \A i \in 1..Len(b_inbox) : b_connected /\ b_inbox[i].kind = "terminate" => b_cleanups = 1
Truthful(words) ==
  \A i \in 1..Len(words) :
    /\ words[i] = "disposed" => b_cleanups = 1
    /\ words[i] \in {"closed", "failed"} => b_bts = "ended"
BQuiet == b_handle = "none" => b_events = <<>> /\ b_burst = <<>>
BTold == Truthful(b_events) /\ Truthful(b_burst)
BOver ==
  /\ b_ended_known => b_cleanups = 1 \/ b_bts = "ended"
  /\ b_disposal = "over" /\ b_connected => b_cleanups = 1 \/ b_bts = "ended"
  /\ ~b_connected => ~b_ended_known
BDone == b_view \in {"done", "released"} => b_disposal = "over"
BInv == /\ B!TypeOK /\ BLinks /\ BEntry /\ BHandled /\ BWaiting /\ BInbox /\ BServed
        /\ BPending /\ BAlone /\ BDispose /\ BEnds /\ BQuiet /\ BTold /\ BOver /\ BDone

LEMMA BAppend ==
  ASSUME NEW S, NEW q \in Seq(S), NEW m \in S
  PROVE  /\ Append(q, m) \in Seq(S)
         /\ Len(Append(q, m)) = Len(q) + 1
         /\ \A i \in 1..Len(q) : Append(q, m)[i] = q[i]
         /\ Append(q, m)[Len(q) + 1] = m
  OBVIOUS

LEMMA BTail ==
  ASSUME NEW S, NEW q \in Seq(S), q # <<>>
  PROVE  /\ Head(q) = q[1] /\ Head(q) \in S
         /\ Tail(q) \in Seq(S)
         /\ Len(q) >= 1 /\ Len(Tail(q)) = Len(q) - 1
         /\ \A i \in 1..Len(Tail(q)) : Tail(q)[i] = q[i + 1]
  OBVIOUS

LEMMA BConcat ==
  ASSUME NEW S, NEW m \in S, NEW q \in Seq(S)
  PROVE  /\ <<m>> \in Seq(S) /\ Len(<<m>>) = 1 /\ <<m>>[1] = m
         /\ <<m>> \o q \in Seq(S)
         /\ Len(<<m>> \o q) = Len(q) + 1
         /\ (<<m>> \o q)[1] = m
         /\ \A i \in 2..Len(q) + 1 : (<<m>> \o q)[i] = q[i - 1]
  OBVIOUS

LEMMA BInit == ASSUME B!BoundAssumption, B!Init PROVE BInv
<1>1. B!TypeOK
  <2>1. /\ <<>> \in Seq(B!Word) /\ <<>> \in Seq(B!Message) /\ <<>> \in Seq(1..MaxSent)
    OBVIOUS
  <2>2. b_sent \in 0..MaxSent /\ b_said \in 0..MaxSaid /\ b_cleanups \in Nat
    BY DEF B!BoundAssumption, B!Init
  <2> QED  BY <2>1, <2>2 DEF B!Init, B!TypeOK
<1>2. BLinks  BY DEF B!Init, BLinks
<1>3. BEntry  BY DEF B!Init, BEntry
<1>4. BHandled  BY DEF B!Init, BHandled
<1>5. BWaiting  BY DEF B!Init, BWaiting
<1>6. BInbox  BY DEF B!Init, BInbox, BFirst, BCame
<1>7. BServed  BY DEF B!Init, BServed, BFirst, BCame
<1>8. BPending  BY DEF B!Init, BPending
<1>9. BAlone  BY DEF B!Init, BAlone
<1>10. BDispose  BY DEF B!Init, BDispose
<1>11. BEnds  BY DEF B!Init, BEnds
<1>12. BTold  BY DEF B!Init, BTold, Truthful
<1>13. BOver  BY DEF B!Init, BOver
<1>14. BQuiet  BY DEF B!Init, BQuiet
<1>15. BDone  BY DEF B!Init, BDone
<1> QED  BY <1>14, <1>15, <1>1, <1>2, <1>3, <1>4, <1>5, <1>6, <1>7, <1>8, <1>9, <1>10, <1>11, <1>12, <1>13 DEF BInv

(* Every step keeps the variables' ranges.                                 *)
LEMMA BTyped == ASSUME B!BoundAssumption, BInv, B!Next PROVE B!TypeOK'
<1>t. B!TypeOK /\ BEntry /\ BWaiting /\ BInbox /\ BAlone /\ BLinks
  BY DEF BInv
<1> USE <1>t DEF B!BoundAssumption, B!TypeOK
<1>m. /\ \A n \in 0..MaxSent : B!App(n) \in B!Message
      /\ \A k \in {"initialize", "dispose", "terminate"} : B!Bare(k) \in B!Message
  BY DEF B!App, B!Bare, B!Message
<1>p. \A m \in B!Message : B!Posted(m) \in Seq(B!Message)
  BY DEF B!Posted
<1>e. /\ <<>> \in Seq(B!Word) /\ <<>> \in Seq(B!Message)
  OBVIOUS
<1>w. \A w \in {"said", "disposed", "closed", "failed"} : Append(b_events, w) \in Seq(B!Word)
  BY DEF B!Word
<1>d. ASSUME B!DisposeBackground
      PROVE  /\ b_pending' \in Seq(B!Message) /\ b_disposal' \in {"none", "waiting", "over"}
             /\ b_inbox' \in Seq(B!Message) /\ UNCHANGED <<b_connected, b_handle, b_ended_known, b_sent>>
  <2>1. CASE b_disposal # "none"
    BY <1>d, <2>1 DEF B!DisposeBackground, B!mts
  <2>2. CASE b_disposal = "none"
    <3>1. b_pending' = <<>> /\ UNCHANGED <<b_connected, b_handle, b_ended_known, b_sent>>
      BY <1>d, <2>2 DEF B!DisposeBackground
    <3>2. b_disposal' \in {"waiting", "over"}
      BY <1>d, <2>2 DEF B!DisposeBackground
    <3>3. b_inbox' \in {b_inbox, B!Posted(B!Bare("dispose"))}
      BY <1>d, <2>2 DEF B!DisposeBackground
    <3> QED  BY <3>1, <3>2, <3>3, <1>e, <1>m, <1>p
  <2> QED  BY <2>1, <2>2
<1>h. ASSUME NEW word, B!Hear(word)
      PROVE  /\ b_disposal' \in {"none", "waiting", "over"} /\ b_inbox' \in Seq(B!Message)
             /\ b_handle' \in {"none", "held", "released"} /\ b_ended_known' \in BOOLEAN
             /\ UNCHANGED <<b_connected, b_pending, b_sent>>
  BY <1>h, <1>m, <1>p DEF B!Hear
<1>1. CASE B!Send
  <2>1. b_sent' \in 0..MaxSent
    BY <1>1 DEF B!Send
  <2>2. B!App(b_sent') \in B!Message
    BY <2>1, <1>m
  <2>3. b_inbox' \in Seq(B!Message) /\ b_pending' \in Seq(B!Message)
    <3>1. /\ Append(b_pending, B!App(b_sent')) \in Seq(B!Message)
          /\ B!Posted(B!App(b_sent')) \in Seq(B!Message)
      BY <2>2, <1>p, BAppend
    <3>2. /\ b_inbox' \in {b_inbox, B!Posted(B!App(b_sent'))}
          /\ b_pending' \in {b_pending, Append(b_pending, B!App(b_sent'))}
      BY <1>1 DEF B!Send
    <3> QED  BY <3>1, <3>2
  <2> QED  BY <1>1, <2>1, <2>3 DEF B!Send, B!page, B!runtime
<1>2. CASE B!Connect
  <2>1. /\ <<B!Bare("initialize")>> \o b_pending \in Seq(B!Message)
        /\ <<B!Bare("terminate")>> \in Seq(B!Message)
    BY <1>m, BConcat
  <2>2. b_inbox' \in Seq(B!Message) /\ b_pending' \in Seq(B!Message)
    BY <1>2, <2>1, <1>e DEF B!Connect
  <2>3. b_connected' \in BOOLEAN /\ b_handle' \in {"held", "released"}
    BY <1>2 DEF B!Connect
  <2> QED  BY <1>2, <2>2, <2>3 DEF B!Connect, B!page, B!runtime
<1>3. CASE B!ConnectRefused
  BY <1>3, <1>w DEF B!ConnectRefused, B!page, B!runtime
<1>4. CASE B!DestroyLifetime
  BY <1>4, <1>d DEF B!DestroyLifetime, B!page, B!runtime
<1>5. CASE B!Consume
  BY <1>5 DEF B!Consume, B!mts, B!runtime
<1>6. CASE B!Deliver
  <2>1. Tail(b_burst) \in Seq(B!Word)
    BY <1>6, BTail DEF B!Deliver
  <2> QED  BY <1>6, <1>h, <2>1 DEF B!Deliver, B!runtime
<1>7. CASE B!DropBurst
  <2>1. B!Spoken(b_burst) \subseteq B!Word
    BY DEF B!Spoken
  <2> QED  BY <1>7, <2>1 DEF B!DropBurst, B!mts, B!runtime
<1>8. CASE B!End
  BY <1>8 DEF B!End, B!mts, B!runtime
<1>9. CASE B!BeginDispose
  BY <1>9, <1>d DEF B!BeginDispose, B!runtime
<1>10. CASE B!DisposeHears
  <2>1. Tail(b_events) \in Seq(B!Word)
    BY <1>10, BTail DEF B!DisposeHears
  <2> QED  BY <1>10, <1>h, <2>1 DEF B!DisposeHears, B!runtime
<1>11. CASE B!Release
  BY <1>11 DEF B!Release, B!mts, B!runtime
<1>12. CASE B!Take
  <2>1. /\ Tail(b_inbox) \in Seq(B!Message) /\ Head(b_inbox) \in B!Message
    BY <1>12, BTail DEF B!Take
  <2> DEFINE message == Head(b_inbox)
  <2>2. ASSUME message.kind = "app"
        PROVE  message.n \in 1..MaxSent
    <3>1. /\ message = b_inbox[1] /\ 1 \in 1..Len(b_inbox) /\ message \in B!Message
          /\ b_bts = "running"
      BY <1>12, BTail DEF B!Take
    <3>2. b_connected
      BY <2>2, <3>1 DEF BAlone
    <3>3. b_entry # "unread" /\ message = B!App(BCame + 1 - BFirst)
      BY <2>2, <3>1, <3>2 DEF BInbox
    <3>4. message.n = Len(b_handled) + Len(b_waiting) + 1
      BY <3>3 DEF B!App, BCame, BFirst
    <3> QED  BY <3>1, <3>4 DEF B!Message
  <2>3. b_inbox' \in Seq(B!Message)
    BY <1>12, <2>1, <1>e DEF B!Take
  <2>4. b_events' \in Seq(B!Word)
    BY <1>12, <1>w DEF B!Take
  <2>5. b_waiting' \in Seq(B!Message) /\ b_handled' \in Seq(1..MaxSent)
    <3>1. UNCHANGED <<b_waiting, b_handled>> \/ (message.kind = "app" /\ B!TakeApp(message))
      BY <1>12 DEF B!Take
    <3>2. CASE UNCHANGED <<b_waiting, b_handled>>
      BY <3>2
    <3>3. CASE message.kind = "app" /\ B!TakeApp(message)
      <4>1. /\ Append(b_waiting, message) \in Seq(B!Message)
            /\ Append(b_handled, message.n) \in Seq(1..MaxSent)
        BY <3>3, <2>1, <2>2, BAppend
      <4> HIDE DEF message
      <4>2. /\ b_waiting' \in {b_waiting, Append(b_waiting, message)}
            /\ b_handled' \in {b_handled, Append(b_handled, message.n)}
        BY <3>3 DEF B!TakeApp
      <4> QED  BY <4>1, <4>2
    <3> QED  BY <3>1, <3>2, <3>3
  <2>6. /\ b_entry' \in {"unread", "loading", "settled"}
        /\ b_bts' \in {"none", "running", "ended"} /\ b_cleanups' \in Nat
    BY <1>12 DEF B!Take
  <2> QED  BY <1>12, <2>3, <2>4, <2>5, <2>6 DEF B!Take, B!page, B!mts
<1>13. CASE B!EntrySettles
  <2>1. \A i \in 1..Len(b_waiting) : b_waiting[i].n \in 1..MaxSent
    <3> SUFFICES ASSUME NEW i \in 1..Len(b_waiting)
                 PROVE  b_waiting[i].n \in 1..MaxSent
      OBVIOUS
    <3>1. b_waiting[i] \in B!Message /\ b_waiting[i].n = Len(b_handled) + i
      <4>1. b_waiting[i] = B!App(Len(b_handled) + i)
        BY DEF BWaiting
      <4>2. B!App(Len(b_handled) + i).n = Len(b_handled) + i
        BY DEF B!App
      <4> QED  BY <4>1, <4>2
    <3>2. b_waiting[i].n \in 0..MaxSent
      BY <3>1 DEF B!Message
    <3> QED  BY <3>1, <3>2
  <2>2. B!Numbers(b_waiting) \in Seq(1..MaxSent)
    <3>1. b_waiting \in Seq(B!Message)
      OBVIOUS
    <3>2. Len(b_waiting) \in Nat
      BY <3>1
    <3> HIDE DEF B!TypeOK
    <3> QED  BY <2>1, <3>2 DEF B!Numbers
  <2>3. b_handled' \in Seq(1..MaxSent)
    BY <1>13, <2>2 DEF B!EntrySettles
  <2> QED  BY <1>13, <2>3, <1>e DEF B!EntrySettles, B!page, B!mts
<1>14. CASE B!Say
  BY <1>14, <1>w DEF B!Say, B!page, B!mts
<1>15. CASE B!Stop
  BY <1>15, <1>w DEF B!Stop, B!page, B!mts, B!runtime
<1> QED
  BY <1>1, <1>2, <1>3, <1>4, <1>5, <1>6, <1>7, <1>8, <1>9, <1>10, <1>11,
     <1>12, <1>13, <1>14, <1>15 DEF B!Next

-----------------------------------------------------------------------------
(* What is posted behind everything else: `dispose' once, `terminate'      *)
(* after the cleanup.                                                      *)
LEMMA BPosted ==
  ASSUME B!BoundAssumption, BInv, NEW m,
         b_inbox' = Append(b_inbox, m),
         \/ m = B!Bare("dispose") /\ b_disposal = "none"
         \/ m = B!Bare("terminate") /\ b_cleanups = 1,
         b_disposal' # "none", b_connected, b_bts = "running",
         UNCHANGED <<b_connected, b_bts, B!runtime>>
  PROVE  BInbox' /\ BServed' /\ BAlone' /\ BDispose' /\ BEnds'
<1> USE DEF BInv
<1>1. /\ b_inbox \in Seq(B!Message) /\ b_cleanups \in Nat
      /\ m \in B!Message /\ m.kind \in {"dispose", "terminate"}
      /\ UNCHANGED <<b_entry, b_handled, b_waiting, b_cleanups>>
  <2>1. b_inbox \in Seq(B!Message) /\ b_cleanups \in Nat /\ 0 \in 0..MaxSent
    BY DEF B!TypeOK, B!BoundAssumption
  <2>2. /\ B!Bare("dispose") \in B!Message /\ B!Bare("dispose").kind = "dispose"
        /\ B!Bare("terminate") \in B!Message /\ B!Bare("terminate").kind = "terminate"
    BY <2>1 DEF B!Bare, B!Message
  <2> QED  BY <2>1, <2>2 DEF B!runtime
<1>2. /\ Len(b_inbox') = Len(b_inbox) + 1 /\ Len(b_inbox) \in Nat
      /\ \A i \in 1..Len(b_inbox) : b_inbox'[i] = b_inbox[i]
      /\ b_inbox'[Len(b_inbox) + 1] = m
  BY <1>1, BAppend
<1>3. /\ BFirst <= Len(b_inbox) /\ UNCHANGED <<BFirst, BCame>>
      /\ b_entry = "unread" => Len(b_inbox) >= 1
  <2>1. BFirst <= Len(b_inbox)
    BY DEF BInbox
  <2>2. UNCHANGED <<BFirst, BCame>>
    BY <1>1 DEF BFirst, BCame
  <2>3. b_entry = "unread" => BFirst = 1
    BY DEF BFirst
  <2> QED  BY <2>1, <2>2, <2>3
<1>4. BInbox'
  <2> SUFFICES ASSUME NEW i \in 1..Len(b_inbox')
               PROVE  /\ b_inbox'[i].kind = "initialize" <=> i = 1 /\ b_entry' = "unread"
                      /\ b_inbox'[i].kind = "initialize" => b_inbox'[i] = B!Bare("initialize")
                      /\ b_inbox'[i].kind = "app" => b_inbox'[i] = B!App(BCame' + i - BFirst')
    BY <1>2, <1>3 DEF BInbox, BFirst
  <2>1. CASE i = Len(b_inbox) + 1
    BY <2>1, <1>1, <1>2, <1>3
  <2>2. CASE i \in 1..Len(b_inbox)
    BY <2>2, <1>1, <1>2, <1>3 DEF BInbox
  <2> QED  BY <2>1, <2>2, <1>2
<1>5. BServed'
  BY DEF BServed
<1>6. BAlone'
  BY DEF BAlone
<1>7. BDispose'
  <2>1. m.kind = "dispose" =>
          b_cleanups = 0 /\ \A i \in 1..Len(b_inbox) : b_inbox[i].kind # "dispose"
    BY DEF BDispose, B!Bare
  <2>2. \A i \in 1..Len(b_inbox') : i \in 1..Len(b_inbox) \/ i = Len(b_inbox) + 1
    BY <1>2
  <2>3. \A i \in 1..Len(b_inbox') : b_inbox'[i].kind = "dispose" => b_cleanups' = 0
    BY <2>1, <2>2, <1>1, <1>2 DEF BDispose
  <2>4. \A i, j \in 1..Len(b_inbox') :
          b_inbox'[i].kind = "dispose" /\ b_inbox'[j].kind = "dispose" => i = j
    BY <2>1, <2>2, <1>2 DEF BDispose
  <2>5. \A i, j \in 1..Len(b_inbox') :
          i <= j /\ b_inbox'[i].kind \in {"dispose", "terminate"} =>
            b_inbox'[j].kind \in {"dispose", "terminate"}
    BY <2>2, <1>1, <1>2 DEF BDispose
  <2> QED  BY <2>3, <2>4, <2>5, <1>1 DEF BDispose
<1>8. BEnds'
  <2>1. m.kind = "terminate" => b_cleanups = 1
    BY DEF B!Bare
  <2>2. \A i \in 1..Len(b_inbox') : i \in 1..Len(b_inbox) \/ i = Len(b_inbox) + 1
    BY <1>2
  <2> QED  BY <2>1, <2>2, <1>1, <1>2 DEF BEnds
<1> QED  BY <1>4, <1>5, <1>6, <1>7, <1>8

(* disposeBackground keeps what it has to do with.                         *)
LEMMA BDisposing ==
  ASSUME B!BoundAssumption, BInv, B!DisposeBackground, UNCHANGED <<b_bts, B!runtime>>
  PROVE  /\ BLinks' /\ BEntry' /\ BHandled' /\ BWaiting' /\ BInbox' /\ BServed'
         /\ BPending' /\ BAlone' /\ BDispose' /\ BEnds' /\ BOver'
         /\ UNCHANGED <<b_handle, b_connected>>
         /\ b_disposal = "over" => b_disposal' = "over"
<1> USE DEF BInv
<1>1. UNCHANGED <<b_entry, b_handled, b_waiting, b_cleanups>>
  BY DEF B!runtime
<1>2. CASE b_disposal # "none"
  <2>1. UNCHANGED <<b_connected, b_handle, b_ended_known, b_disposal, b_pending, b_sent, b_inbox>>
    BY <1>2 DEF B!DisposeBackground, B!mts
  <2>2. BLinks' /\ BEntry' /\ BHandled' /\ BWaiting'
    BY <2>1, <1>1 DEF BLinks, BEntry, BHandled, BWaiting
  <2>3. BInbox' /\ BServed'
    BY <2>1, <1>1 DEF BInbox, BServed, BFirst, BCame
  <2>4. BPending' /\ BAlone' /\ BDispose' /\ BEnds' /\ BOver'
    BY <2>1, <1>1 DEF BPending, BAlone, BDispose, BEnds, BOver
  <2> QED  BY <2>1, <2>2, <2>3, <2>4
<1>3. CASE b_disposal = "none"
  <2>1. /\ b_pending' = <<>> /\ b_disposal' # "none"
        /\ UNCHANGED <<b_connected, b_handle, b_ended_known, b_sent>>
        /\ b_disposal' = "over" <=> ~b_connected \/ b_ended_known
    BY <1>3 DEF B!DisposeBackground
  <2>2. b_inbox' = b_inbox \/ (b_inbox' = Append(b_inbox, B!Bare("dispose"))
                           /\ b_handle = "held" /\ b_bts = "running")
    BY <1>3 DEF B!DisposeBackground, B!Posted
  <2>3. b_inbox' # b_inbox => b_connected /\ b_bts = "running"
    BY <2>2 DEF BLinks
  <2>4. BLinks'
    BY <1>3, <2>1, <2>2, <2>3 DEF BLinks
  <2>5. BEntry' /\ BHandled' /\ BWaiting'
    BY <1>1, <2>1 DEF BEntry, BHandled, BWaiting
  <2>6. BPending'
    BY <2>1 DEF BPending
  <2>7. BOver'
    BY <2>1, <1>1, <1>3 DEF BOver
  <2>8. BInbox' /\ BServed' /\ BAlone' /\ BDispose' /\ BEnds'
    <3>1. CASE b_inbox' = b_inbox
      BY <3>1, <2>1, <1>1, <1>3 DEF BInbox, BServed, BAlone, BDispose, BEnds, BFirst, BCame
    <3>2. CASE b_inbox' # b_inbox
      BY <3>2, <2>1, <2>2, <2>3, <1>3, BPosted
    <3> QED  BY <3>1, <3>2
  <2> QED  BY <2>1, <2>4, <2>5, <2>6, <2>7, <2>8, <1>3
<1> QED  BY <1>2, <1>3

(* So does hearing a word that is true.                                    *)
LEMMA BHearing ==
  ASSUME B!BoundAssumption, BInv, NEW word, B!Hear(word), UNCHANGED <<b_bts, B!runtime>>,
         word = "disposed" => b_cleanups = 1,
         word \in {"closed", "failed"} => b_bts = "ended"
  PROVE  /\ BLinks' /\ BEntry' /\ BHandled' /\ BWaiting' /\ BInbox' /\ BServed'
         /\ BPending' /\ BAlone' /\ BDispose' /\ BEnds' /\ BOver'
         /\ b_handle' = "none" => b_handle = "none"
         /\ b_disposal = "over" => b_disposal' = "over"
<1> USE DEF BInv
<1>1. UNCHANGED <<b_entry, b_handled, b_waiting, b_cleanups, b_connected, b_pending, b_sent>>
  BY DEF B!runtime, B!Hear
<1>2. CASE UNCHANGED <<b_handle, b_ended_known, b_disposal, b_inbox>>
  <2>2. BLinks' /\ BEntry' /\ BHandled' /\ BWaiting'
    BY <1>2, <1>1 DEF BLinks, BEntry, BHandled, BWaiting
  <2>3. BInbox' /\ BServed'
    BY <1>2, <1>1 DEF BInbox, BServed, BFirst, BCame
  <2>4. BPending' /\ BAlone' /\ BDispose' /\ BEnds' /\ BOver'
    BY <1>2, <1>1 DEF BPending, BAlone, BDispose, BEnds, BOver
  <2> QED  BY <1>2, <2>2, <2>3, <2>4
<1>3. CASE /\ b_handle = "held" /\ b_handle' = "released" /\ b_ended_known'
           /\ word \in {"closed", "failed"} /\ UNCHANGED b_inbox
           /\ b_disposal' = IF b_disposal = "waiting" THEN "over" ELSE b_disposal
  <2>1. b_connected /\ b_bts = "ended" /\ b_inbox = <<>>
    BY <1>3 DEF BLinks
  <2>2. BLinks' /\ BEntry' /\ BHandled' /\ BWaiting'
    BY <1>3, <1>1, <2>1 DEF BLinks, BEntry, BHandled, BWaiting
  <2>3. BInbox' /\ BServed'
    BY <2>1 DEF BInbox, BServed
  <2>4. BPending' /\ BAlone' /\ BDispose' /\ BEnds' /\ BOver'
    BY <1>3, <1>1, <2>1 DEF BPending, BAlone, BDispose, BEnds, BOver
  <2> QED  BY <1>3, <2>2, <2>3, <2>4
<1>4. CASE /\ b_handle = "held" /\ b_handle' = "released" /\ b_ended_known'
           /\ word = "disposed" /\ b_disposal' = "over"
           /\ b_inbox' = B!Posted(B!Bare("terminate"))
  <2>1. b_connected /\ b_cleanups = 1
    BY <1>4 DEF BLinks
  <2>2. b_inbox' = b_inbox \/ (b_inbox' = Append(b_inbox, B!Bare("terminate")) /\ b_bts = "running")
    BY <1>4 DEF B!Posted
  <2>3. BLinks' /\ BEntry' /\ BHandled' /\ BWaiting'
    BY <1>4, <1>1, <2>1, <2>2 DEF BLinks, BEntry, BHandled, BWaiting
  <2>4. BPending' /\ BOver'
    BY <1>4, <1>1, <2>1 DEF BPending, BOver
  <2>5. BInbox' /\ BServed' /\ BAlone' /\ BDispose' /\ BEnds'
    <3>1. CASE b_inbox' = b_inbox
      BY <3>1, <2>1, <1>1, <1>4 DEF BInbox, BServed, BAlone, BDispose, BEnds, BFirst, BCame
    <3>2. CASE b_inbox' # b_inbox
      <4>1. b_disposal' # "none"
        BY <1>4
      <4> QED  BY <3>2, <4>1, <1>1, <2>1, <2>2, BPosted
    <3> QED  BY <3>1, <3>2
  <2> QED  BY <1>4, <2>3, <2>4, <2>5
<1> QED  BY <1>2, <1>3, <1>4 DEF B!Hear

-----------------------------------------------------------------------------
(* Every step keeps every part.  What follows is one lemma per thread.     *)
LEMMA BScript ==
  ASSUME B!BoundAssumption, BInv, B!Send \/ B!Connect \/ B!ConnectRefused \/ B!DestroyLifetime
  PROVE  BInv'
<1> USE DEF BInv
<1>t. B!TypeOK'
  BY BTyped DEF B!Next
<1>q. /\ b_sent \in Nat /\ b_cleanups \in Nat /\ b_pending \in Seq(B!Message) /\ b_inbox \in Seq(B!Message)
      /\ b_handled \in Seq(1..MaxSent) /\ b_waiting \in Seq(B!Message)
      /\ Len(b_handled) \in Nat /\ Len(b_waiting) \in Nat
  BY DEF B!TypeOK, B!BoundAssumption
<1>1. CASE B!Send
  <2>1. /\ b_disposal = "none" /\ b_sent' = b_sent + 1 /\ b_sent' \in 0..MaxSent
        /\ UNCHANGED <<b_view, b_burst, b_connected, b_handle, b_ended_known, b_disposal, b_events,
                       b_bts, b_entry, b_waiting, b_handled, b_cleanups>>
    BY <1>1, <1>t DEF B!Send, B!page, B!runtime, B!TypeOK
  <2>2. B!App(b_sent') \in B!Message /\ B!App(b_sent').kind = "app"
    BY <2>1 DEF B!App, B!Message
  <2>3. /\ BEntry' /\ BHandled' /\ BWaiting' /\ BQuiet' /\ BTold' /\ BOver' /\ BDone'
    BY <2>1 DEF BEntry, BHandled, BWaiting, BQuiet, BTold, Truthful, BOver, BDone
  <2>4. CASE ~b_connected
    <3>1. /\ b_pending' = Append(b_pending, B!App(b_sent')) /\ UNCHANGED b_inbox
      BY <1>1, <2>4 DEF B!Send
    <3>2. /\ Len(b_pending') = Len(b_pending) + 1
          /\ \A i \in 1..Len(b_pending) : b_pending'[i] = b_pending[i]
          /\ b_pending'[Len(b_pending) + 1] = B!App(b_sent')
      BY <3>1, <2>2, <1>q, BAppend
    <3>3. Len(b_pending) = b_sent /\ \A i \in 1..Len(b_pending) : b_pending[i] = B!App(i)
      BY <2>1, <2>4 DEF BPending
    <3>4. BPending'
      BY SMTT(30), <3>2, <3>3, <2>1, <2>4, <1>q DEF BPending
    <3>5. BLinks' /\ BInbox' /\ BServed' /\ BAlone' /\ BDispose' /\ BEnds'
      BY <2>1, <2>4, <3>1 DEF BLinks, BInbox, BServed, BAlone, BDispose, BEnds
    <3> QED  BY <1>t, <2>3, <3>4, <3>5
  <2>5. CASE b_connected /\ UNCHANGED <<b_pending, b_inbox>> /\ b_bts # "running"
    <3>1. BLinks' /\ BPending' /\ BInbox' /\ BServed' /\ BAlone' /\ BDispose' /\ BEnds'
      BY <2>1, <2>5 DEF BLinks, BPending, BInbox, BServed, BAlone, BDispose, BEnds
    <3> QED  BY <1>t, <2>3, <3>1
  <2>6. CASE b_connected /\ b_inbox' = Append(b_inbox, B!App(b_sent')) /\ b_bts = "running" /\ UNCHANGED b_pending
    <3>1. /\ Len(b_inbox') = Len(b_inbox) + 1 /\ Len(b_inbox) \in Nat
          /\ \A i \in 1..Len(b_inbox) : b_inbox'[i] = b_inbox[i]
          /\ b_inbox'[Len(b_inbox) + 1] = B!App(b_sent')
      BY <2>6, <2>2, <1>q, BAppend
    <3>2. \A i \in 1..Len(b_inbox') : i \in 1..Len(b_inbox) \/ i = Len(b_inbox) + 1
      BY <3>1
    <3>3. /\ \A i \in 1..Len(b_inbox) : b_inbox[i].kind \in {"initialize", "app"}
          /\ BCame + Len(b_inbox) - BFirst = b_sent /\ BFirst <= Len(b_inbox)
      BY <2>1, <2>6 DEF BServed, BInbox
    <3>4. /\ BFirst \in {0, 1} /\ BCame \in Nat /\ UNCHANGED <<BFirst, BCame>>
          /\ b_entry = "unread" => BFirst = 1
      BY <2>1, <1>q DEF BFirst, BCame
    <3>5. BServed'
      <4>1. \A i \in 1..Len(b_inbox') : b_inbox'[i].kind \in {"initialize", "app"}
        BY <3>1, <3>2, <3>3, <2>2
      <4>2. BFirst' = BFirst /\ BCame' = BCame
        BY <3>4
      <4>3. BCame' + Len(b_inbox') - BFirst' = b_sent'
        BY SMTT(30), <4>2, <3>1, <3>3, <3>4, <2>1, <1>q
      <4> QED  BY <4>1, <4>3 DEF BServed
    <3>6. BInbox'
      <4> SUFFICES ASSUME NEW i \in 1..Len(b_inbox')
                   PROVE  /\ b_inbox'[i].kind = "initialize" <=> i = 1 /\ b_entry' = "unread"
                          /\ b_inbox'[i].kind = "initialize" => b_inbox'[i] = B!Bare("initialize")
                          /\ b_inbox'[i].kind = "app" => b_inbox'[i] = B!App(BCame' + i - BFirst')
        <5>1. BFirst' <= Len(b_inbox')
          BY <3>1, <3>3, <3>4
        <5> QED  BY <5>1 DEF BInbox
      <4>1. CASE i = Len(b_inbox) + 1
        <5>1. i = 1 => b_entry # "unread"
          BY <4>1, <3>1, <3>3, <3>4
        <5>2. b_sent' = BCame + i - BFirst
          <6>1. /\ i = Len(b_inbox) + 1 /\ Len(b_inbox) \in Nat /\ BCame \in Nat /\ BFirst \in {0, 1}
                /\ BCame + Len(b_inbox) - BFirst = b_sent /\ b_sent' = b_sent + 1
            BY <4>1, <3>1, <3>3, <3>4, <2>1
          <6> QED  BY <6>1
        <5> QED  BY <4>1, <5>1, <5>2, <3>1, <3>4, <2>1, <2>2
      <4>2. CASE i \in 1..Len(b_inbox)
        BY <4>2, <3>1, <3>4, <2>1, <2>6 DEF BInbox
      <4> QED  BY <4>1, <4>2, <3>2
    <3>7. BLinks' /\ BPending' /\ BAlone'
      BY <2>1, <2>6 DEF BLinks, BPending, BAlone
    <3>8. BDispose' /\ BEnds'
      BY <3>1, <3>2, <3>3, <2>1, <2>2 DEF BDispose, BEnds
    <3> QED  BY <1>t, <2>3, <3>5, <3>6, <3>7, <3>8
  <2>7. b_connected => /\ UNCHANGED b_pending
                     /\ \/ UNCHANGED b_inbox /\ (b_handle # "held" \/ b_bts # "running")
                        \/ b_inbox' = Append(b_inbox, B!App(b_sent')) /\ b_bts = "running"
    BY <1>1 DEF B!Send, B!Posted
  <2>8. b_connected /\ b_handle # "held" => b_bts # "running"
    <3>1. b_cleanups = 0
      BY <2>1 DEF BDispose
    <3> QED  BY <3>1 DEF BLinks, BOver
  <2> QED  BY <2>4, <2>5, <2>6, <2>7, <2>8
<1>2. CASE B!Connect
  <2>1. /\ b_handle = "none" /\ b_bts = "none" /\ b_bts' = "running" /\ ~b_connected
        /\ b_inbox = <<>> /\ b_events = <<>> /\ b_burst = <<>> /\ ~b_ended_known
        /\ b_entry = "unread" /\ b_handled = <<>> /\ b_waiting = <<>>
        /\ UNCHANGED <<b_view, b_burst, b_ended_known, b_disposal, b_sent, b_events,
                       b_entry, b_waiting, b_handled, b_cleanups>>
    BY <1>2 DEF B!Connect, BLinks, BQuiet, BEntry, BOver, B!page, B!runtime
  <2>2. /\ BEntry' /\ BHandled' /\ BWaiting' /\ BQuiet' /\ BTold' /\ BOver' /\ BDone'
    <3>1. BEntry' /\ BHandled' /\ BWaiting'
      BY <2>1 DEF BEntry, BHandled, BWaiting
    <3>2. BQuiet' /\ BTold'
      BY <2>1 DEF BQuiet, BTold, Truthful
    <3>3. BOver' /\ BDone'
      BY <1>2, <2>1 DEF B!Connect, BOver, BDone
    <3> QED  BY <3>1, <3>2, <3>3
  <2>3. CASE b_disposal = "none"
    <3>1. /\ b_connected' /\ b_handle' = "held" /\ b_pending' = <<>>
          /\ b_inbox' = <<B!Bare("initialize")>> \o b_pending
      BY <1>2, <2>3 DEF B!Connect
    <3>2. B!Bare("initialize") \in B!Message /\ B!Bare("initialize").kind = "initialize"
      <4>1. 0 \in 0..MaxSent
        BY DEF B!BoundAssumption
      <4> QED  BY <4>1 DEF B!Bare, B!Message
    <3>3. /\ Len(b_inbox') = Len(b_pending) + 1 /\ Len(b_pending) \in Nat
          /\ b_inbox'[1] = B!Bare("initialize")
          /\ \A i \in 2..Len(b_pending) + 1 : b_inbox'[i] = b_pending[i - 1]
      BY <3>1, <3>2, <1>q, BConcat
    <3>4. Len(b_pending) = b_sent /\ \A i \in 1..Len(b_pending) : b_pending[i] = B!App(i)
      BY <2>1, <2>3 DEF BPending
    <3>5. BFirst' = 1 /\ BCame' = 0
      BY <2>1 DEF BFirst, BCame
    <3>6. \A i \in 1..Len(b_inbox') : i = 1 \/ b_inbox'[i] = B!App(i - 1)
      BY <3>3, <3>4
    <3>7. \A n : B!App(n).kind = "app"
      BY DEF B!App
    <3>8. \A i \in 1..Len(b_inbox') : b_inbox'[i].kind \in {"initialize", "app"}
      BY <3>2, <3>3, <3>6, <3>7
    <3>9. BInbox'
      <4> SUFFICES ASSUME NEW i \in 1..Len(b_inbox')
                   PROVE  /\ b_inbox'[i].kind = "initialize" <=> i = 1 /\ b_entry' = "unread"
                          /\ b_inbox'[i].kind = "initialize" => b_inbox'[i] = B!Bare("initialize")
                          /\ b_inbox'[i].kind = "app" => b_inbox'[i] = B!App(BCame' + i - BFirst')
        BY <3>3, <3>5 DEF BInbox
      <4>1. CASE i = 1
        BY <4>1, <3>2, <3>3, <2>1
      <4>2. CASE i # 1
        <5>1. b_inbox'[i] = B!App(i - 1) /\ BCame' + i - BFirst' = i - 1
          BY <4>2, <3>6, <3>5
        <5> QED  BY <4>2, <5>1, <3>7
      <4> QED  BY <4>1, <4>2
    <3>10. BServed'
      BY <3>3, <3>4, <3>5, <3>8, <2>1, <1>q DEF BServed
    <3>11. BPending' /\ BLinks' /\ BAlone'
      BY <3>1, <2>1 DEF BPending, BLinks, BAlone
    <3>12. BDispose' /\ BEnds'
      BY <3>8, <2>1, <2>3 DEF BDispose, BEnds
    <3> QED  BY <1>t, <2>2, <3>9, <3>10, <3>11, <3>12
  <2>4. CASE b_disposal # "none"
    <3>1. /\ ~b_connected' /\ b_handle' = "released" /\ UNCHANGED b_pending
          /\ b_inbox' = <<B!Bare("terminate")>>
      BY <1>2, <2>1, <2>4 DEF B!Connect
    <3>2. Len(b_inbox') = 1 /\ b_inbox'[1] = B!Bare("terminate")
      BY <3>1
    <3>3. \A i \in 1..Len(b_inbox') : b_inbox'[i].kind = "terminate"
      BY <3>2 DEF B!Bare
    <3>4. BLinks' /\ BInbox' /\ BServed' /\ BPending'
      BY <3>1, <2>1, <2>4 DEF BLinks, BInbox, BServed, BPending
    <3>5. BAlone' /\ BDispose' /\ BEnds'
      BY <3>1, <3>3, <2>1, <2>4 DEF BAlone, BDispose, BEnds
    <3> QED  BY <1>t, <2>2, <3>4, <3>5
  <2> QED  BY <2>3, <2>4
<1>3. CASE B!ConnectRefused
  <2>1. /\ b_handle = "none" /\ b_bts = "none" /\ ~b_connected
        /\ b_inbox = <<>> /\ b_events = <<>> /\ b_burst = <<>> /\ ~b_ended_known
        /\ b_disposal = "none" /\ b_connected' /\ b_handle' = "held" /\ b_pending' = <<>>
        /\ b_bts' = "ended" /\ b_events' = Append(b_events, "failed")
        /\ UNCHANGED <<b_view, b_burst, b_ended_known, b_disposal, b_sent, b_inbox,
                       b_entry, b_waiting, b_handled, b_cleanups>>
    BY <1>3 DEF B!ConnectRefused, BLinks, BQuiet, BOver, B!page, B!runtime
  <2>2. BLinks' /\ BEntry' /\ BHandled' /\ BWaiting' /\ BQuiet'
    BY <2>1 DEF BLinks, BEntry, BHandled, BWaiting, BQuiet
  <2>3. BInbox' /\ BServed' /\ BPending' /\ BAlone' /\ BDispose' /\ BEnds'
    BY <2>1 DEF BInbox, BServed, BPending, BAlone, BDispose, BEnds
  <2>4. b_events' = <<"failed">>
    BY <2>1
  <2>5. Truthful(b_events)' /\ Truthful(b_burst)'
    BY <2>1, <2>4 DEF Truthful
  <2>6. BTold' /\ BOver' /\ BDone'
    BY <2>1, <2>5 DEF BTold, BOver, BDone
  <2> QED  BY <1>t, <2>2, <2>3, <2>6
<1>4. CASE B!DestroyLifetime
  <2>1. /\ B!DisposeBackground /\ UNCHANGED <<b_bts, B!runtime, b_view, b_burst, b_events>>
        /\ b_view = "live"
    BY <1>4 DEF B!DestroyLifetime, B!page
  <2>2. /\ BLinks' /\ BEntry' /\ BHandled' /\ BWaiting' /\ BInbox' /\ BServed'
        /\ BPending' /\ BAlone' /\ BDispose' /\ BEnds' /\ BOver'
        /\ UNCHANGED <<b_handle, b_connected>>
    BY <2>1, BDisposing
  <2>3. BQuiet' /\ BTold' /\ BDone'
    BY <2>1, <2>2 DEF BQuiet, BTold, Truthful, BDone, B!runtime
  <2> QED  BY <1>t, <2>2, <2>3
<1> QED  BY <1>1, <1>2, <1>3, <1>4

(* What an action of the page's tasks leaves alone with the script's state. *)
LEMMA BUntouched ==
  ASSUME BInv, UNCHANGED <<B!mts, b_inbox, b_bts, B!runtime>>
  PROVE  /\ BLinks' /\ BEntry' /\ BHandled' /\ BWaiting' /\ BInbox' /\ BServed'
        /\ BPending' /\ BAlone' /\ BDispose' /\ BEnds' /\ BOver'
<1> USE DEF BInv
<1>1. UNCHANGED <<b_connected, b_handle, b_ended_known, b_disposal, b_pending, b_sent, b_inbox,
                  b_bts, b_entry, b_waiting, b_handled, b_cleanups>>
  BY DEF B!mts, B!runtime
<1>2. BLinks' /\ BEntry' /\ BHandled' /\ BWaiting'
  BY <1>1 DEF BLinks, BEntry, BHandled, BWaiting
<1>3. BInbox' /\ BServed'
  BY <1>1 DEF BInbox, BServed, BFirst, BCame
<1>4. BPending' /\ BAlone' /\ BDispose' /\ BEnds' /\ BOver'
  BY <1>1 DEF BPending, BAlone, BDispose, BEnds, BOver
<1> QED  BY <1>2, <1>3, <1>4

LEMMA BPage ==
  ASSUME B!BoundAssumption, BInv,
         B!Consume \/ B!Deliver \/ B!DropBurst \/ B!End \/ B!BeginDispose \/ B!DisposeHears \/ B!Release
  PROVE  BInv'
<1> USE DEF BInv
<1>t. B!TypeOK'
  BY BTyped DEF B!Next
<1>q. b_burst \in Seq(B!Word) /\ b_events \in Seq(B!Word)
  BY DEF B!TypeOK
<1>1. CASE B!Consume
  <2>1. /\ UNCHANGED <<b_view, B!mts, b_inbox, b_bts, B!runtime>>
        /\ b_burst' = b_events /\ b_events' = <<>> /\ b_events # <<>>
    BY <1>1 DEF B!Consume
  <2>2. /\ BLinks' /\ BEntry' /\ BHandled' /\ BWaiting' /\ BInbox' /\ BServed'
        /\ BPending' /\ BAlone' /\ BDispose' /\ BEnds' /\ BOver'
    BY <2>1, BUntouched
  <2>3. BQuiet' /\ BDone'
    BY <2>1 DEF BQuiet, BDone, B!mts
  <2>4. BTold'
    BY <2>1 DEF BTold, Truthful, B!runtime
  <2> QED  BY <1>t, <2>2, <2>3, <2>4
<1>2. CASE B!Deliver
  <2>1. /\ B!Hear(Head(b_burst)) /\ b_burst' = Tail(b_burst) /\ b_burst # <<>>
        /\ UNCHANGED <<b_view, b_events, b_bts, B!runtime>>
    BY <1>2 DEF B!Deliver
  <2>2. /\ Head(b_burst) = b_burst[1] /\ Len(b_burst) >= 1 /\ Len(b_burst') = Len(b_burst) - 1
        /\ Len(b_burst) \in Nat
        /\ \A i \in 1..Len(b_burst') : b_burst'[i] = b_burst[i + 1]
    BY <2>1, <1>q, BTail
  <2>3. /\ Head(b_burst) = "disposed" => b_cleanups = 1
        /\ Head(b_burst) \in {"closed", "failed"} => b_bts = "ended"
    BY <2>2 DEF BTold, Truthful
  <2>4. /\ BLinks' /\ BEntry' /\ BHandled' /\ BWaiting' /\ BInbox' /\ BServed'
        /\ BPending' /\ BAlone' /\ BDispose' /\ BEnds' /\ BOver'
        /\ b_handle' = "none" => b_handle = "none"
        /\ b_disposal = "over" => b_disposal' = "over"
    BY <2>1, <2>3, BHearing
  <2>5. BQuiet' /\ BDone'
    BY <2>1, <2>4 DEF BQuiet, BDone
  <2>6. UNCHANGED <<b_cleanups, b_bts>>
    BY <2>1 DEF B!runtime
  <2>7. Truthful(b_events)'
    BY <2>1, <2>6 DEF BTold, Truthful
  <2>8. Truthful(b_burst)'
    <3> SUFFICES ASSUME NEW i \in 1..Len(b_burst')
                 PROVE  /\ b_burst'[i] = "disposed" => b_cleanups = 1
                        /\ b_burst'[i] \in {"closed", "failed"} => b_bts = "ended"
      BY <2>6 DEF Truthful
    <3>1. i + 1 \in 1..Len(b_burst) /\ b_burst'[i] = b_burst[i + 1]
      BY <2>2
    <3> QED  BY <3>1 DEF BTold, Truthful
  <2> QED  BY <1>t, <2>4, <2>5, <2>7, <2>8 DEF BTold
<1>3. CASE B!DropBurst
  <2>1. /\ UNCHANGED <<b_view, B!mts, b_inbox, b_events, b_bts, B!runtime>> /\ b_burst' = <<>>
    BY <1>3 DEF B!DropBurst
  <2>2. /\ BLinks' /\ BEntry' /\ BHandled' /\ BWaiting' /\ BInbox' /\ BServed'
        /\ BPending' /\ BAlone' /\ BDispose' /\ BEnds' /\ BOver'
    BY <2>1, BUntouched
  <2>3. BQuiet' /\ BDone' /\ BTold'
    BY <2>1 DEF BQuiet, BDone, B!mts, BTold, Truthful, B!runtime
  <2> QED  BY <1>t, <2>2, <2>3
<1>4. CASE B!End
  <2>1. /\ UNCHANGED <<b_burst, B!mts, b_inbox, b_events, b_bts, B!runtime>> /\ b_view' = "ended"
    BY <1>4 DEF B!End
  <2>2. /\ BLinks' /\ BEntry' /\ BHandled' /\ BWaiting' /\ BInbox' /\ BServed'
        /\ BPending' /\ BAlone' /\ BDispose' /\ BEnds' /\ BOver'
    BY <2>1, BUntouched
  <2>3. BQuiet' /\ BDone' /\ BTold'
    BY <2>1 DEF BQuiet, BDone, B!mts, BTold, Truthful, B!runtime
  <2> QED  BY <1>t, <2>2, <2>3
<1>5. CASE B!BeginDispose
  <2>1. /\ B!DisposeBackground /\ UNCHANGED <<b_burst, b_events, b_bts, B!runtime>>
        /\ b_view' = IF b_disposal' = "over" THEN "done" ELSE "disposing"
    BY <1>5 DEF B!BeginDispose
  <2>2. /\ BLinks' /\ BEntry' /\ BHandled' /\ BWaiting' /\ BInbox' /\ BServed'
        /\ BPending' /\ BAlone' /\ BDispose' /\ BEnds' /\ BOver'
        /\ UNCHANGED <<b_handle, b_connected>>
    BY <2>1, BDisposing
  <2>3. BQuiet' /\ BDone' /\ BTold'
    BY <2>1, <2>2 DEF BQuiet, BDone, BTold, Truthful, B!runtime
  <2> QED  BY <1>t, <2>2, <2>3
<1>6. CASE B!DisposeHears
  <2>1. /\ B!Hear(Head(b_events)) /\ b_events' = Tail(b_events) /\ b_events # <<>>
        /\ b_view = "disposing" /\ b_view' = IF b_disposal' = "over" THEN "done" ELSE b_view
        /\ UNCHANGED <<b_burst, b_bts, B!runtime>>
    BY <1>6 DEF B!DisposeHears
  <2>2. /\ Head(b_events) = b_events[1] /\ Len(b_events) >= 1 /\ Len(b_events') = Len(b_events) - 1
        /\ Len(b_events) \in Nat
        /\ \A i \in 1..Len(b_events') : b_events'[i] = b_events[i + 1]
    BY <2>1, <1>q, BTail
  <2>3. /\ Head(b_events) = "disposed" => b_cleanups = 1
        /\ Head(b_events) \in {"closed", "failed"} => b_bts = "ended"
    BY <2>2 DEF BTold, Truthful
  <2>4. /\ BLinks' /\ BEntry' /\ BHandled' /\ BWaiting' /\ BInbox' /\ BServed'
        /\ BPending' /\ BAlone' /\ BDispose' /\ BEnds' /\ BOver'
        /\ b_handle' = "none" => b_handle = "none"
    BY <2>1, <2>3, BHearing
  <2>5. BQuiet' /\ BDone'
    BY <2>1, <2>4 DEF BQuiet, BDone
  <2>6. UNCHANGED <<b_cleanups, b_bts>>
    BY <2>1 DEF B!runtime
  <2>7. Truthful(b_burst)'
    BY <2>1, <2>6 DEF BTold, Truthful
  <2>8. Truthful(b_events)'
    <3> SUFFICES ASSUME NEW i \in 1..Len(b_events')
                 PROVE  /\ b_events'[i] = "disposed" => b_cleanups = 1
                        /\ b_events'[i] \in {"closed", "failed"} => b_bts = "ended"
      BY <2>6 DEF Truthful
    <3>1. i + 1 \in 1..Len(b_events) /\ b_events'[i] = b_events[i + 1]
      BY <2>2
    <3> QED  BY <3>1 DEF BTold, Truthful
  <2> QED  BY <1>t, <2>4, <2>5, <2>7, <2>8 DEF BTold
<1>7. CASE B!Release
  <2>1. /\ UNCHANGED <<b_burst, B!mts, b_inbox, b_events, b_bts, B!runtime>>
        /\ b_view = "done" /\ b_view' = "released"
    BY <1>7 DEF B!Release
  <2>2. /\ BLinks' /\ BEntry' /\ BHandled' /\ BWaiting' /\ BInbox' /\ BServed'
        /\ BPending' /\ BAlone' /\ BDispose' /\ BEnds' /\ BOver'
    BY <2>1, BUntouched
  <2>3. BQuiet' /\ BDone' /\ BTold'
    BY <2>1 DEF BQuiet, BDone, B!mts, BTold, Truthful, B!runtime
  <2> QED  BY <1>t, <2>2, <2>3
<1> QED  BY <1>1, <1>2, <1>3, <1>4, <1>5, <1>6, <1>7

(* A word that is true may be added to the page's events.                  *)
LEMMA BSpoken ==
  ASSUME BInv, NEW word, b_events' = b_events \/ b_events' = Append(b_events, word),
         word = "disposed" => b_cleanups' = 1,
         word \in {"closed", "failed"} => b_bts' = "ended",
         b_cleanups = 1 => b_cleanups' = 1, b_bts = "ended" => b_bts' = "ended",
         UNCHANGED b_burst
  PROVE  BTold'
<1> USE DEF BInv
<1>1. b_events \in Seq(B!Word)
  BY DEF B!TypeOK
<1>2. Truthful(b_burst)'
  BY DEF BTold, Truthful
<1>3. CASE b_events' = b_events
  BY <1>2, <1>3 DEF BTold, Truthful
<1>4. CASE b_events' = Append(b_events, word)
  <2>1. /\ Len(b_events') = Len(b_events) + 1 /\ Len(b_events) \in Nat
        /\ \A i \in 1..Len(b_events) : b_events'[i] = b_events[i]
        /\ b_events'[Len(b_events) + 1] = word
    BY <1>1, <1>4
  <2>2. \A i \in 1..Len(b_events') : i \in 1..Len(b_events) \/ i = Len(b_events) + 1
    BY <2>1
  <2>3. Truthful(b_events)'
    BY <2>1, <2>2 DEF BTold, Truthful
  <2> QED  BY <1>2, <2>3 DEF BTold
<1> QED  BY <1>3, <1>4

(* The BTS reads what is next in its inbox.                                *)
LEMMA BTakes ==
  ASSUME B!BoundAssumption, BInv, B!Take
  PROVE  BInv'
<1> USE DEF BInv
<1>t. B!TypeOK'
  BY BTyped DEF B!Next
<1> DEFINE message == Head(b_inbox)
<1>1. /\ message = b_inbox[1] /\ Len(b_inbox) >= 1 /\ 1 \in 1..Len(b_inbox) /\ Len(b_inbox) \in Nat
      /\ Len(Tail(b_inbox)) = Len(b_inbox) - 1
      /\ \A i \in 1..Len(Tail(b_inbox)) : Tail(b_inbox)[i] = b_inbox[i + 1]
      /\ b_bts = "running"
  <2>1. b_inbox \in Seq(B!Message) /\ b_inbox # <<>> /\ b_bts = "running"
    BY DEF B!Take, B!TypeOK
  <2> QED  BY <2>1, BTail
<1> HIDE DEF message
<1>2. /\ UNCHANGED <<b_view, b_burst, b_connected, b_handle, b_ended_known, b_disposal, b_pending, b_sent>>
      /\ b_inbox' = IF b_bts' = "ended" THEN <<>> ELSE Tail(b_inbox)
      /\ b_inbox' = <<>> \/ b_connected \/ message.kind = "terminate"
      /\ b_cleanups \in Nat /\ b_sent \in Nat
      /\ Len(b_handled) \in Nat /\ Len(b_waiting) \in Nat /\ Len(b_handled') \in Nat
      /\ b_handled \in Seq(1..MaxSent) /\ b_waiting \in Seq(B!Message)
      /\ b_inbox \in Seq(B!Message)
  <2>1. b_connected \/ message.kind = "terminate"
    BY <1>1 DEF BAlone
  <2>2. /\ UNCHANGED <<b_view, b_burst, b_connected, b_handle, b_ended_known, b_disposal, b_pending, b_sent>>
        /\ b_inbox' = IF b_bts' = "ended" THEN <<>> ELSE Tail(b_inbox)
    BY DEF B!Take, B!page, B!mts
  <2>3. /\ b_cleanups \in Nat /\ b_sent \in Nat /\ b_handled \in Seq(1..MaxSent)
        /\ b_waiting \in Seq(B!Message) /\ b_inbox \in Seq(B!Message)
    BY DEF B!TypeOK, B!BoundAssumption
  <2>4. b_handled' \in Seq(1..MaxSent)
    BY <1>t DEF B!TypeOK
  <2> QED  BY <2>1, <2>2, <2>3, <2>4
<1>3. BPending' /\ BDone'
  BY <1>2 DEF BPending, BDone
<1>4. b_handle # "none"
  BY <1>1 DEF BLinks
<1>5. BQuiet'
  BY <1>2, <1>4 DEF BQuiet
<1>6. ASSUME b_connected, message.kind # "initialize"
      PROVE  b_entry # "unread" /\ BFirst = 0
  BY <1>6, <1>1 DEF BInbox, BFirst
<1>7. ASSUME b_inbox' = Tail(b_inbox), b_bts' = "running", b_cleanups' = b_cleanups \/ b_cleanups' = 1
      PROVE  BLinks' /\ BAlone' /\ BEnds'
  <2>1. BLinks'
    BY <1>7, <1>1, <1>2, <1>4 DEF BLinks
  <2>2. \A i \in 1..Len(b_inbox') : i + 1 \in 1..Len(b_inbox) /\ b_inbox'[i] = b_inbox[i + 1]
    BY <1>7, <1>1
  <2> QED  BY <1>7, <1>2, <2>1, <2>2 DEF BAlone, BEnds
<1>8. ASSUME b_connected, b_inbox' = Tail(b_inbox), b_bts' = "running", b_entry' # "unread",
             BCame \in Nat, BFirst \in {0, 1}, BCame' = BCame + 1 - BFirst, BFirst' = 0
      PROVE  BInbox' /\ BServed'
  <2>1. /\ \A i \in 1..Len(b_inbox') : i + 1 \in 1..Len(b_inbox) /\ b_inbox'[i] = b_inbox[i + 1]
        /\ Len(b_inbox') = Len(b_inbox) - 1
    BY <1>8, <1>1
  <2>2. BInbox'
    <3> SUFFICES ASSUME NEW i \in 1..Len(b_inbox')
                 PROVE  /\ b_inbox'[i].kind # "initialize"
                        /\ b_inbox'[i].kind = "app" => b_inbox'[i] = B!App(BCame' + i - BFirst')
      <4>1. BFirst' <= Len(b_inbox')
        BY <1>8, <1>1, <2>1
      <4> QED  BY <1>8, <4>1 DEF BInbox
    <3>1. b_inbox'[i] = b_inbox[i + 1] /\ i + 1 \in 1..Len(b_inbox) /\ i + 1 # 1
      BY <2>1
    <3>2. b_inbox[i + 1].kind # "initialize"
      BY <3>1, <1>8, <1>1 DEF BInbox
    <3>3. b_inbox[i + 1].kind = "app" => b_inbox[i + 1] = B!App(BCame + (i + 1) - BFirst)
      BY <3>1, <1>8, <1>1 DEF BInbox
    <3>4. BCame' + i - BFirst' = BCame + (i + 1) - BFirst
      BY <1>8
    <3> QED  BY <3>1, <3>2, <3>3, <3>4
  <2>3. BServed'
    <3> SUFFICES ASSUME b_disposal = "none"
                 PROVE  /\ \A i \in 1..Len(b_inbox') : b_inbox'[i].kind \in {"initialize", "app"}
                        /\ BCame' + Len(b_inbox') - BFirst' = b_sent
      BY <1>2 DEF BServed
    <3>1. /\ \A i \in 1..Len(b_inbox) : b_inbox[i].kind \in {"initialize", "app"}
          /\ BCame + Len(b_inbox) - BFirst = b_sent
      BY <1>8, <1>1 DEF BServed
    <3>3. BCame' + Len(b_inbox') - BFirst' = b_sent
      <4>1. /\ BCame \in Nat /\ BFirst \in {0, 1} /\ BCame' = BCame + 1 - BFirst
            /\ BFirst' = 0 /\ Len(b_inbox) \in Nat /\ Len(b_inbox') = Len(b_inbox) - 1
            /\ BCame + Len(b_inbox) - BFirst = b_sent /\ b_sent \in Nat
        BY <3>1, <2>1, <1>8, <1>1, <1>2
      <4> QED  BY <4>1
    <3> QED  BY <3>1, <3>3, <2>1
  <2> QED  BY <2>2, <2>3
<1>10. CASE message.kind = "initialize"
  <2>1. /\ b_entry = "unread" /\ b_entry' = "loading" /\ b_bts' = "running"
        /\ UNCHANGED <<b_events, b_waiting, b_handled, b_cleanups>> /\ b_inbox' = Tail(b_inbox)
        /\ b_connected
    BY <1>10, <1>1, <1>2 DEF B!Take, message, BAlone
  <2>2. BFirst = 1 /\ BFirst' = 0 /\ BCame' = BCame /\ BCame \in Nat
    BY <2>1, <1>2 DEF BFirst, BCame
  <2>3. BEntry' /\ BHandled' /\ BWaiting'
    BY <2>1, <1>2 DEF BEntry, BHandled, BWaiting
  <2>4. BInbox' /\ BServed'
    <3>1. BCame' = BCame + 1 - BFirst /\ BFirst \in {0, 1} /\ b_entry' # "unread"
      BY <2>1, <2>2
    <3> QED  BY <2>1, <2>2, <3>1, <1>8
  <2>5. BDispose'
    <3>1. \A i \in 1..Len(b_inbox') : i + 1 \in 1..Len(b_inbox) /\ b_inbox'[i] = b_inbox[i + 1]
      BY <2>1, <1>1
    <3> QED  BY <3>1, <2>1, <1>1, <1>2 DEF BDispose
  <2>6. BTold' /\ BOver'
    BY <2>1, <1>1, <1>2 DEF BTold, Truthful, BOver
  <2> QED  BY <1>t, <1>3, <1>5, <1>7, <2>1, <2>3, <2>4, <2>5, <2>6
<1>11. CASE message.kind = "app"
  <2>1. /\ B!TakeApp(message) /\ UNCHANGED <<b_bts, b_events, b_entry, b_cleanups>>
        /\ b_inbox' = Tail(b_inbox) /\ b_connected /\ b_bts' = "running"
    BY <1>11, <1>1, <1>2 DEF B!Take, message, BAlone
  <2>2. b_entry # "unread" /\ BFirst = 0 /\ BFirst' = 0
    BY <1>6, <1>11, <2>1 DEF BFirst
  <2>3. message = B!App(BCame + 1) /\ message.n = BCame + 1 /\ message \in B!Message
    <3>1. message = B!App(BCame + 1 - BFirst) /\ BCame \in Nat /\ message \in B!Message
      BY <1>1, <1>2, <1>11, <2>1 DEF BInbox, BCame
    <3> QED  BY <3>1, <2>2 DEF B!App
  <2>4. /\ BEntry' /\ BHandled' /\ BWaiting' /\ BCame' = BCame + 1
    <3>1. CASE b_entry = "loading"
      <4>1. /\ b_waiting' = Append(b_waiting, message) /\ UNCHANGED b_handled /\ b_handled = <<>>
        BY <3>1, <2>1 DEF B!TakeApp, BEntry
      <4>2. /\ Len(b_waiting') = Len(b_waiting) + 1
            /\ \A i \in 1..Len(b_waiting) : b_waiting'[i] = b_waiting[i]
            /\ b_waiting'[Len(b_waiting) + 1] = message
        BY <4>1, <2>3, <1>2, BAppend
      <4>3. BCame = Len(b_handled) + Len(b_waiting)
        BY DEF BCame
      <4>4. BEntry' /\ BHandled'
        BY <3>1, <4>1, <2>1, <1>2 DEF BEntry, BHandled
      <4>5. BCame' = BCame + 1
        BY <4>1, <4>2, <1>2 DEF BCame
      <4>6. BWaiting'
        <5> SUFFICES ASSUME NEW i \in 1..Len(b_waiting')
                     PROVE  b_waiting'[i] = B!App(Len(b_handled) + i)
          BY <4>1 DEF BWaiting
        <5>1. CASE i = Len(b_waiting) + 1
          <6>1. BCame + 1 = Len(b_handled) + i
            BY <5>1, <4>3, <1>2
          <6> QED  BY <5>1, <6>1, <4>2, <2>3
        <5>2. CASE i \in 1..Len(b_waiting)
          BY <5>2, <4>2 DEF BWaiting
        <5>3. i \in 1..(Len(b_waiting) + 1)
          BY <4>2
        <5> QED  BY <5>1, <5>2, <5>3, <1>2
      <4> QED  BY <4>4, <4>5, <4>6
    <3>2. CASE b_entry # "loading"
      <4>1. /\ b_handled' = Append(b_handled, message.n) /\ UNCHANGED b_waiting /\ b_waiting = <<>>
            /\ b_entry = "settled"
        <5>1. b_entry = "settled"
          BY <3>2, <2>2 DEF B!TypeOK
        <5> QED  BY <3>2, <5>1, <2>1 DEF B!TakeApp, BEntry
      <4>2. BCame = Len(b_handled)
        BY <4>1, <1>2 DEF BCame
      <4>3. /\ Len(b_handled') = Len(b_handled) + 1
            /\ \A i \in 1..Len(b_handled) : b_handled'[i] = b_handled[i]
            /\ b_handled'[Len(b_handled) + 1] = Len(b_handled) + 1
        <5>1. message.n = Len(b_handled) + 1
          BY <2>3, <4>2
        <5> QED  BY <4>1, <5>1, <1>2
      <4>4. BHandled'
        <5>1. \A i \in 1..Len(b_handled') : i \in 1..Len(b_handled) \/ i = Len(b_handled) + 1
          BY <4>3, <1>2
        <5> QED  BY <5>1, <4>3 DEF BHandled
      <4>5. BEntry' /\ BWaiting'
        BY <4>1, <2>1, <1>2 DEF BEntry, BWaiting
      <4>6. BCame' = BCame + 1
        BY <4>1, <4>2, <4>3, <1>2 DEF BCame
      <4> QED  BY <4>4, <4>5, <4>6
    <3> QED  BY <3>1, <3>2
  <2>5. BInbox' /\ BServed'
    <3>1. BCame \in Nat /\ b_entry' # "unread"
      BY <1>2, <2>1, <2>2 DEF BCame
    <3>2. BCame' = BCame + 1 - BFirst /\ BFirst \in {0, 1}
      BY <3>1, <2>2, <2>4
    <3> QED  BY <2>1, <2>2, <3>1, <3>2, <1>8
  <2>6. BDispose'
    <3>1. \A i \in 1..Len(b_inbox') : i + 1 \in 1..Len(b_inbox) /\ b_inbox'[i] = b_inbox[i + 1]
      BY <2>1, <1>1
    <3> QED  BY <3>1, <2>1, <1>1, <1>2 DEF BDispose
  <2>7. BTold' /\ BOver'
    BY <2>1, <1>1, <1>2 DEF BTold, Truthful, BOver
  <2> QED  BY <1>t, <1>3, <1>5, <1>7, <2>1, <2>4, <2>5, <2>6, <2>7
<1>12. CASE message.kind = "dispose"
  <2>1. /\ b_cleanups' = b_cleanups + 1 /\ b_events' = Append(b_events, "disposed")
        /\ UNCHANGED <<b_bts, b_entry, b_waiting, b_handled>>
        /\ b_inbox' = Tail(b_inbox) /\ b_connected /\ b_bts' = "running"
    BY <1>12, <1>1, <1>2 DEF B!Take, message, BAlone
  <2>2. /\ b_cleanups = 0 /\ b_cleanups' = 1 /\ b_disposal # "none"
        /\ \A i \in 1..Len(b_inbox) : b_inbox[i].kind = "dispose" => i = 1
    BY <1>1, <1>12, <2>1 DEF BDispose
  <2>3. \A i \in 1..Len(b_inbox') : i + 1 \in 1..Len(b_inbox) /\ b_inbox'[i] = b_inbox[i + 1] /\ i + 1 # 1
    BY <2>1, <1>1
  <2>4. BDispose'
    BY <2>2, <2>3, <1>2 DEF BDispose
  <2>5. BEntry' /\ BHandled' /\ BWaiting'
    BY <2>1, <1>2 DEF BEntry, BHandled, BWaiting
  <2>6. BServed'
    BY <2>2, <1>2 DEF BServed
  <2>7. BInbox'
    <3>1. BFirst = 0 /\ BFirst' = 0 /\ b_entry # "unread"
      BY <1>6, <1>12, <2>1 DEF BFirst
    <3> SUFFICES ASSUME NEW i \in 1..Len(b_inbox')
                 PROVE  /\ b_inbox'[i].kind # "initialize"
                        /\ b_inbox'[i].kind # "app"
      <4>1. BFirst' <= Len(b_inbox')
        BY <2>1, <3>1, <1>1
      <4> QED  BY <2>1, <3>1, <4>1 DEF BInbox
    <3>2. b_inbox'[i] = b_inbox[i + 1] /\ i + 1 \in 1..Len(b_inbox) /\ 1 <= i + 1
      BY <2>3
    <3>3. b_inbox[i + 1].kind \in {"dispose", "terminate"}
      BY <3>2, <1>1, <1>12 DEF BDispose
    <3> QED  BY <3>2, <3>3
  <2>8. BTold'
    <3>1. /\ "disposed" \notin {"closed", "failed"} /\ UNCHANGED b_burst
          /\ (b_cleanups = 1 => b_cleanups' = 1) /\ (b_bts = "ended" => b_bts' = "ended")
      BY <2>1, <2>2, <1>2
    <3> QED  BY <2>1, <2>2, <3>1, BSpoken
  <2>9. BOver'
    BY <2>2, <1>2 DEF BOver
  <2> QED  BY <1>t, <1>3, <1>5, <1>7, <2>1, <2>2, <2>4, <2>5, <2>6, <2>7, <2>8, <2>9
<1>13. CASE message.kind = "terminate"
  <2>1. /\ b_bts' = "ended" /\ UNCHANGED <<b_events, b_entry, b_waiting, b_handled, b_cleanups>>
        /\ b_inbox' = <<>>
    BY <1>13, <1>2 DEF B!Take, message
  <2>2. BLinks' /\ BEntry' /\ BHandled' /\ BWaiting'
    BY <2>1, <1>2, <1>4 DEF BLinks, BEntry, BHandled, BWaiting
  <2>3. BInbox' /\ BServed' /\ BAlone' /\ BDispose' /\ BEnds'
    BY <2>1, <1>2 DEF BInbox, BServed, BAlone, BDispose, BEnds
  <2>4. BTold' /\ BOver'
    BY <2>1, <1>2 DEF BTold, Truthful, BOver
  <2> QED  BY <1>t, <1>3, <1>5, <2>2, <2>3, <2>4
<1> QED
  BY <1>10, <1>11, <1>12, <1>13 DEF B!Take, message

(* It does something of its own accord.                                    *)
LEMMA BActs ==
  ASSUME B!BoundAssumption, BInv, B!EntrySettles \/ B!Say \/ B!Stop
  PROVE  BInv'
<1> USE DEF BInv
<1>t. B!TypeOK'
  BY BTyped DEF B!Next
<1>0. UNCHANGED <<b_view, b_burst, b_connected, b_handle, b_ended_known, b_disposal, b_pending, b_sent>>
  BY DEF B!EntrySettles, B!Say, B!Stop, B!page, B!mts
<1>1. BPending' /\ BDone'
  BY <1>0 DEF BPending, BDone
<1>2. b_bts = "running" /\ b_handle # "none"
  BY DEF B!EntrySettles, B!Say, B!Stop, BLinks
<1>3. BQuiet'
  BY <1>0, <1>2 DEF BQuiet
<1>4. CASE B!EntrySettles
  <2>1. /\ b_entry = "loading" /\ b_entry' = "settled" /\ b_handled = <<>>
        /\ b_handled' = b_handled \o B!Numbers(b_waiting) /\ b_waiting' = <<>>
        /\ UNCHANGED <<b_inbox, b_events, b_bts, b_cleanups>>
    BY <1>4 DEF B!EntrySettles, BEntry
  <2>2. b_waiting \in Seq(B!Message) /\ Len(b_waiting) \in Nat
    BY DEF B!TypeOK
  <2>3. /\ Len(b_handled') = Len(b_waiting)
        /\ \A i \in 1..Len(b_handled') : b_handled'[i] = b_waiting[i].n
    <3>1. b_handled' = B!Numbers(b_waiting)
      <4>1. B!Numbers(b_waiting) \in Seq({b_waiting[i].n : i \in 1..Len(b_waiting)})
        BY <2>2 DEF B!Numbers
      <4> QED  BY <2>1, <4>1
    <3> QED  BY <3>1, <2>2 DEF B!Numbers
  <2>4. BHandled'
    <3> SUFFICES ASSUME NEW i \in 1..Len(b_handled') PROVE b_handled'[i] = i
      BY DEF BHandled
    <3>1. b_waiting[i] = B!App(Len(b_handled) + i) /\ Len(b_handled) = 0
      BY <2>1, <2>3 DEF BWaiting
    <3>2. B!App(Len(b_handled) + i).n = Len(b_handled) + i
      BY DEF B!App
    <3> QED  BY <3>1, <3>2, <2>3
  <2>5. BEntry' /\ BWaiting'
    <3>1. b_connected
      BY <2>1 DEF BEntry
    <3> QED  BY <3>1, <2>1, <1>0 DEF BEntry, BWaiting
  <2>6. BFirst' = BFirst /\ BCame' = BCame
    BY <2>1, <2>2, <2>3 DEF BFirst, BCame
  <2>7. BInbox' /\ BServed'
    BY <2>1, <2>6, <1>0 DEF BInbox, BServed
  <2>8. BLinks' /\ BAlone' /\ BDispose' /\ BEnds'
    BY <2>1, <1>0 DEF BLinks, BAlone, BDispose, BEnds
  <2>9. BTold' /\ BOver'
    BY <2>1, <1>0 DEF BTold, Truthful, BOver
  <2> QED  BY <1>t, <1>1, <1>3, <2>4, <2>5, <2>7, <2>8, <2>9
<1>5. CASE B!Say
  <2>1. /\ b_events' = Append(b_events, "said")
        /\ UNCHANGED <<b_inbox, b_bts, b_entry, b_waiting, b_handled, b_cleanups>>
    BY <1>5 DEF B!Say
  <2>2. BLinks' /\ BEntry' /\ BHandled' /\ BWaiting'
    BY <2>1, <1>0 DEF BLinks, BEntry, BHandled, BWaiting
  <2>3. BInbox' /\ BServed'
    BY <2>1, <1>0 DEF BInbox, BServed, BFirst, BCame
  <2>4. BAlone' /\ BDispose' /\ BEnds' /\ BOver'
    BY <2>1, <1>0 DEF BAlone, BDispose, BEnds, BOver
  <2>5. BTold'
    BY <2>1, <1>0, BSpoken
  <2> QED  BY <1>t, <1>1, <1>3, <2>2, <2>3, <2>4, <2>5
<1>6. CASE B!Stop
  <2>1. /\ b_bts' = "ended" /\ b_inbox' = <<>>
        /\ UNCHANGED <<b_entry, b_waiting, b_handled, b_cleanups>>
    BY <1>6 DEF B!Stop, B!runtime
  <2>2. PICK word \in {"closed", "failed"} : b_events' = Append(b_events, word)
    BY <1>6 DEF B!Stop
  <2>3. BLinks' /\ BEntry' /\ BHandled' /\ BWaiting'
    BY <2>1, <1>0, <1>2 DEF BLinks, BEntry, BHandled, BWaiting
  <2>4. BInbox' /\ BServed' /\ BAlone' /\ BDispose' /\ BEnds' /\ BOver'
    BY <2>1, <1>0 DEF BInbox, BServed, BAlone, BDispose, BEnds, BOver
  <2>5. BTold'
    BY <2>1, <2>2, <1>0, BSpoken
  <2> QED  BY <1>t, <1>1, <1>3, <2>3, <2>4, <2>5
<1> QED  BY <1>4, <1>5, <1>6

LEMMA BStep == ASSUME B!BoundAssumption, BInv, B!Next PROVE BInv'
BY BScript, BPage, BTakes, BActs DEF B!Next

LEMMA BStutter == ASSUME BInv, UNCHANGED B!vars PROVE BInv'
<1> USE DEF BInv
<1>1. UNCHANGED <<B!page, B!mts, B!runtime, b_inbox, b_events, b_bts>> /\ UNCHANGED <<b_view, b_burst, b_dropped>>
  BY DEF B!vars, B!page, B!mts, B!runtime
<1>2. /\ BLinks' /\ BEntry' /\ BHandled' /\ BWaiting' /\ BInbox' /\ BServed'
      /\ BPending' /\ BAlone' /\ BDispose' /\ BEnds' /\ BOver'
  BY <1>1, BUntouched
<1>3. B!TypeOK'
  BY DEF B!vars, B!TypeOK
<1>4. BQuiet' /\ BDone' /\ BTold'
  BY <1>1 DEF B!vars, BQuiet, BDone, BTold, Truthful
<1> QED  BY <1>2, <1>3, <1>4

THEOREM BInvariance == B!Spec => []BInv
<1>1. B!BoundAssumption
  BY ExchangeAssumption
<1>2. B!Init => BInv
  BY <1>1, BInit
<1>3. BInv /\ [B!Next]_(B!vars) => BInv'
  BY <1>1, BStep, BStutter
<1> QED  BY <1>2, <1>3, PTL DEF B!Spec

(* The invariant has what the property says.                               *)
LEMMA BHolds == ASSUME B!BoundAssumption, BInv PROVE B!HandshakeHolds
<1> USE DEF BInv
<1>q. /\ b_sent \in Nat /\ b_pending \in Seq(B!Message) /\ b_inbox \in Seq(B!Message)
      /\ b_handled \in Seq(1..MaxSent) /\ b_waiting \in Seq(B!Message)
      /\ Len(b_handled) \in Nat /\ Len(b_waiting) \in Nat /\ Len(b_pending) \in Nat
      /\ Len(b_inbox) \in Nat
  BY DEF B!TypeOK, B!BoundAssumption
<1>1. B!CleanupFirst
  <2>1. b_cleanups <= 1
    BY DEF BDispose
  <2>2. b_connected /\ (\E i \in 1..Len(b_inbox) : b_inbox[i].kind = "terminate") => b_cleanups = 1
    BY DEF BEnds
  <2>3. b_connected /\ b_view \in {"done", "released"} => b_cleanups = 1 \/ b_bts = "ended"
    BY DEF BDone, BOver
  <2> QED  BY <2>1, <2>2, <2>3 DEF B!CleanupFirst
<1>2. ASSUME b_disposal = "none", b_bts # "ended"
      PROVE  /\ b_waiting = B!Apps(Len(b_handled), Len(b_waiting))
             /\ b_inbox = B!Opening \o B!Apps(BCame, b_sent - Len(b_pending) - BCame)
             /\ b_pending = B!Apps(b_sent - Len(b_pending), Len(b_pending))
  <2>1. b_waiting = B!Apps(Len(b_handled), Len(b_waiting))
    BY <1>q DEF BWaiting, B!Apps
  <2>2. CASE b_connected
    <3>1. /\ b_pending = <<>> /\ b_bts = "running"
      BY <2>2, <1>2 DEF BPending, BLinks, B!TypeOK
    <3>2. b_pending = B!Apps(b_sent - Len(b_pending), Len(b_pending))
      BY <3>1, <1>q DEF B!Apps
    <3>3. /\ \A i \in 1..Len(b_inbox) : b_inbox[i].kind \in {"initialize", "app"}
          /\ BCame + Len(b_inbox) - BFirst = b_sent
          /\ BFirst <= Len(b_inbox)
          /\ BCame \in Nat
      BY <2>2, <3>1, <1>2, <1>q DEF BServed, BInbox, BCame
    <3> DEFINE n == b_sent - Len(b_pending) - BCame
    <3>4. n = Len(b_inbox) - BFirst /\ n \in Nat /\ BFirst \in {0, 1}
      <4>1. Len(b_pending) = 0
        BY <3>1
      <4>2. BFirst \in {0, 1}
        BY DEF BFirst
      <4> QED  BY <4>1, <4>2, <3>3, <1>q
    <3> HIDE DEF n
    <3>5. CASE b_entry = "unread"
      <4>1. BFirst = 1 /\ B!Opening = <<B!Bare("initialize")>>
        BY <3>5, <3>1 DEF BFirst, B!Opening
      <4>2. b_inbox[1] = B!Bare("initialize")
        BY <3>5, <3>1, <3>3, <4>1, <2>2, <1>q DEF BInbox
      <4>3. \A i \in 1..Len(b_inbox) : i # 1 => b_inbox[i] = B!App(BCame + i - 1)
        <5> SUFFICES ASSUME NEW i \in 1..Len(b_inbox), i # 1
                     PROVE  b_inbox[i] = B!App(BCame + i - 1)
          OBVIOUS
        <5>1. b_inbox[i].kind = "app"
          BY <3>3, <3>1, <2>2 DEF BInbox
        <5> QED  BY <5>1, <4>1, <3>1, <2>2 DEF BInbox
      <4>4. /\ Len(<<B!Bare("initialize")>> \o B!Apps(BCame, n)) = n + 1
            /\ (<<B!Bare("initialize")>> \o B!Apps(BCame, n))[1] = B!Bare("initialize")
            /\ \A i \in 2..n + 1 : (<<B!Bare("initialize")>> \o B!Apps(BCame, n))[i] = B!App(BCame + (i - 1))
        <5>1. B!Apps(BCame, n) \in Seq({B!App(BCame + i) : i \in 1..n})
          BY <3>4 DEF B!Apps
        <5>2. Len(B!Apps(BCame, n)) = n /\ \A i \in 1..n : B!Apps(BCame, n)[i] = B!App(BCame + i)
          BY <3>4 DEF B!Apps
        <5> QED  BY <5>1, <5>2, <3>4
      <4>5. \A i \in 1..Len(b_inbox) : (<<B!Bare("initialize")>> \o B!Apps(BCame, n))[i] = b_inbox[i]
        <5> SUFFICES ASSUME NEW i \in 1..Len(b_inbox)
                     PROVE  (<<B!Bare("initialize")>> \o B!Apps(BCame, n))[i] = b_inbox[i]
          OBVIOUS
        <5>1. CASE i = 1
          BY <5>1, <4>2, <4>4
        <5>2. CASE i # 1
          <6>1. i \in 2..n + 1 /\ BCame + (i - 1) = BCame + i - 1
            BY <5>2, <3>3, <3>4, <4>1
          <6> QED  BY <5>2, <6>1, <4>3, <4>4
        <5> QED  BY <5>1, <5>2
      <4>6. b_inbox = <<B!Bare("initialize")>> \o B!Apps(BCame, n)
        <5>1. Len(b_inbox) = n + 1
          BY <3>4, <4>1, <1>q
        <5>2. <<B!Bare("initialize")>> \o B!Apps(BCame, n) \in
                Seq({B!Bare("initialize")} \cup {B!App(BCame + i) : i \in 1..n})
          BY <3>4 DEF B!Apps
        <5>3. b_inbox \in Seq(B!Message) /\ Len(b_inbox) \in Nat
          BY <1>q
        <5>4. \A s, t : /\ s \in Seq(B!Message) /\ Len(s) = Len(t)
                        /\ (\E S : t \in Seq(S)) /\ (\A i \in 1..Len(s) : t[i] = s[i])
                        => s = t
          OBVIOUS
        <5>5. Len(b_inbox) = Len(<<B!Bare("initialize")>> \o B!Apps(BCame, n))
          BY <5>1, <4>4
        <5> HIDE DEF BInv
        <5> QED  BY <5>2, <5>3, <5>4, <5>5, <4>5
      <4> QED  BY <4>1, <4>6, <3>2, <2>1 DEF n
    <3>6. CASE b_entry # "unread"
      <4>1. BFirst = 0 /\ B!Opening = <<>>
        BY <3>6 DEF BFirst, B!Opening
      <4>2. \A i \in 1..Len(b_inbox) : b_inbox[i] = B!App(BCame + i)
        <5> SUFFICES ASSUME NEW i \in 1..Len(b_inbox)
                     PROVE  b_inbox[i] = B!App(BCame + i)
          OBVIOUS
        <5>1. b_inbox[i].kind = "app"
          BY <3>3, <3>1, <3>6, <2>2 DEF BInbox
        <5>2. b_inbox[i] = B!App(BCame + i - BFirst)
          BY <5>1, <3>1, <2>2 DEF BInbox
        <5>3. BCame + i - BFirst = BCame + i
          BY <4>1, <3>3
        <5> QED  BY <5>2, <5>3
      <4>3. b_inbox = B!Apps(BCame, n)
        <5>1. n = Len(b_inbox)
          BY <3>4, <4>1, <1>q
        <5> QED  BY <5>1, <4>2, <1>q DEF B!Apps
      <4>4. <<>> \o B!Apps(BCame, n) = B!Apps(BCame, n)
        <5>1. B!Apps(BCame, n) \in Seq({B!App(BCame + i) : i \in 1..n})
          BY <3>4 DEF B!Apps
        <5> QED  BY <5>1
      <4> QED  BY <4>1, <4>3, <4>4, <3>2, <2>1 DEF n
    <3> QED  BY <3>5, <3>6
  <2>3. CASE ~b_connected
    <3>1. /\ Len(b_pending) = b_sent /\ \A i \in 1..Len(b_pending) : b_pending[i] = B!App(i)
      BY <2>3, <1>2 DEF BPending
    <3>2. b_inbox = <<>> /\ b_bts = "none" /\ b_handled = <<>> /\ b_waiting = <<>>
      BY <2>3, <1>2 DEF BLinks, BEntry
    <3>3. B!Opening = <<>> /\ BCame = 0
      BY <3>2 DEF B!Opening, BCame
    <3>4. b_sent - Len(b_pending) = 0 /\ b_sent - Len(b_pending) - BCame = 0
      BY <3>1, <3>3, <1>q
    <3>5. B!Apps(0, 0) = <<>>
      BY DEF B!Apps
    <3>6. b_pending = B!Apps(0, Len(b_pending))
      BY <3>1, <1>q DEF B!Apps
    <3> QED  BY <2>1, <3>2, <3>3, <3>4, <3>5, <3>6
  <2> QED  BY <2>2, <2>3
<1>3. B!InOrder
  BY <1>2 DEF B!InOrder, BHandled, BEntry, BCame
<1> QED  BY <1>1, <1>3 DEF B!HandshakeHolds

THEOREM Handshake == B!Spec => []B!HandshakeHolds
<1>1. BInv => B!HandshakeHolds
  BY BHolds, ExchangeAssumption
<1> QED  BY <1>1, BInvariance, PTL

(* What the page says to its background thread arrives in order, none      *)
(* lost, repeated or overtaken however late it connects, and the page lets *)
(* go of the thread only after its cleanup, or its own end                 *)
(* (main-thread-runtime.ts, background-thread-runtime.ts).                 *)
THEOREM SharedHandshake == SharedSpec => []HandshakeHolds
BY Composed, Handshake, PTL DEF HandshakeHolds
=============================================================================
