--------------------------- MODULE FrameLinkProofs ---------------------------
(***************************************************************************)
(* What FrameLink promises for any number of commands, posts and scrolls:  *)
(* coalescing strands nothing whoever paints, the scroll state goes first, *)
(* and with one painter an acknowledgement means what it says.             *)
(***************************************************************************)
EXTENDS FrameLink, TLAPS

(* The view has not ended, so that its thread is somewhere in its loop.    *)
Serving == main \notin {"ended", "closed"}

(* The burst at hand is what was read and not counted yet.                 *)
ICount ==
  /\ applied + count = taken
  /\ main = "recv" => ran = taken /\ drained = 0
  /\ Serving /\ main # "apply" /\ ran = taken /\ drained = 0 => count = 0

(* What the screen shows is in the mailbox, or the document has it.        *)
IMoved ==
  /\ scrolled <= moved
  /\ moved = IF mailbox.scroll = 0 THEN scrolled ELSE mailbox.scroll
  /\ \A i \in DOMAIN log : log[i].scroll <= moved
  /\ \A k \in DOMAIN outgoing : outgoing[k].scroll <= moved

Owed == \E k \in DOMAIN outgoing : outgoing[k].kind = "marker"
Marked(n) == \E j \in ran + 1 .. n : log[j].kind = "marker"

(* The mailbox has something in it only while a marker is on its way.      *)
IMarker ==
  IF mailbox.armed THEN Marked(Len(log)) \/ Owed
                   ELSE mailbox.frame = NoPost /\ mailbox.scroll = 0

(* A command's scroll state goes ahead of it: it was adopted, or a marker  *)
(* that brings it is.                                                      *)
IAhead ==
  /\ \A i \in DOMAIN log : i > ran => log[i].scroll <= scrolled \/ Marked(i)
  /\ \A k \in DOMAIN outgoing :
       \/ outgoing[k].scroll <= scrolled \/ Marked(Len(log))
       \/ \E j \in 1..k : outgoing[j].kind = "marker"

(* A post that is held waits for commands of the log; one whose burst is   *)
(* over waits for commands that have not run.                              *)
IFence ==
  /\ mailbox.frame.fence <= Len(log) /\ frame_due.fence <= Len(log)
  /\ mailbox.frame.seq = 0 => mailbox.frame.fence = 0
  /\ frame_due.seq = 0 => frame_due.fence = 0
  /\ Serving /\ main # "apply" /\ frame_due.seq # 0 => frame_due.fence > applied
  /\ main \in {"recv", "queued", "apply", "other"} => pending_begin_frame = 0

(* Every post made is held somewhere on its way, or acknowledged.          *)
IHeld ==
  \A p \in Painters : \A q \in asked[p] :
    \/ q.seq <= serviced \/ q.seq <= pending_begin_frame
    \/ q.seq <= frame_due.seq \/ q.seq <= mailbox.frame.seq

(* What holds for any painters.                                            *)
IInv == TypeOK /\ ICount /\ IMoved /\ IMarker /\ IAhead /\ IFence /\ IHeld

-----------------------------------------------------------------------------
(* The published frame is one of the document's, perhaps an earlier one.   *)
IFrame ==
  frame # NoFrame =>
    /\ styled /\ bound
    /\ frame.commands <= ran /\ frame.scroll <= scrolled /\ frame.tick <= ticked
    /\ main = "ack" => frame = Shown

(* Posts are made in the order of their numbers.                           *)
IPosts ==
  \A p \in Painters :
    /\ serviced <= begin_frames_sent[p] /\ pending_begin_frame <= begin_frames_sent[p]
    /\ frame_due.seq <= begin_frames_sent[p]
    /\ mailbox.frame.seq <= begin_frames_sent[p]
    /\ \A q \in asked[p] :
         /\ 0 < q.seq /\ q.seq <= begin_frames_sent[p]
         /\ q.fence <= Len(log) /\ q.scroll <= moved

(* A post that is held stands for all before it, and what was taken of it  *)
(* has happened.                                                           *)
ITaken ==
  \A p \in Painters : \A q \in asked[p] :
    /\ q.seq <= mailbox.frame.seq => q.fence <= mailbox.frame.fence
    /\ q.seq <= frame_due.seq => q.scroll <= scrolled /\ q.fence <= frame_due.fence
    /\ Serving /\ (q.seq <= pending_begin_frame \/ q.seq <= serviced) =>
         q.fence <= ran /\ q.scroll <= scrolled /\ q.seq <= ticked

(* What one painter is told.                                               *)
IAck == IFrame /\ IPosts /\ ITaken /\ AckMeansApplied

-----------------------------------------------------------------------------
LEMMA AppendEntry ==
  ASSUME NEW s \in Seq(Command), NEW c \in Command
  PROVE  /\ Append(s, c) \in Seq(Command) /\ Len(Append(s, c)) = Len(s) + 1
         /\ DOMAIN s = 1..Len(s) /\ DOMAIN Append(s, c) = 1..Len(s) + 1 /\ Len(s) \in Nat
         /\ Append(s, c)[Len(s) + 1] = c
         /\ \A i \in 1..Len(s) : Append(s, c)[i] = s[i] /\ s[i] \in Command
OBVIOUS

LEMMA TailEntry ==
  ASSUME NEW s \in Seq(Command), s # <<>>
  PROVE  /\ Tail(s) \in Seq(Command) /\ Head(s) = s[1] /\ Head(s) \in Command /\ 1 \in DOMAIN s
         /\ \A i \in DOMAIN Tail(s) : i \in Nat /\ i > 0 /\ i + 1 \in DOMAIN s /\ Tail(s)[i] = s[i + 1]
         /\ \A i \in DOMAIN s : i # 1 => i - 1 \in DOMAIN Tail(s) /\ Tail(s)[i - 1] = s[i]
OBVIOUS

LEMMA Merging ==
  ASSUME NEW a \in FramePost, NEW b \in FramePost
  PROVE  /\ Merge(a, b) \in FramePost
         /\ Merge(a, b).seq = Greater(a.seq, b.seq) /\ Merge(a, b).fence = Greater(a.fence, b.fence)
         /\ Merge(a, NoPost) = a /\ Merge(NoPost, a) = a
BY DEF Merge, FramePost, Greater, NoPost

(* What a pass of the painter's does: a post it may make, a scroll it may  *)
(* have moved, and what it owes the queue.                                 *)
Posting(moves, post) ==
  /\ outgoing = <<>> /\ moved \in Nat
  /\ moved' = IF moves THEN moved + 1 ELSE moved
  /\ mailbox' = [scroll |-> IF moves THEN moved' ELSE mailbox.scroll,
                 frame |-> Merge(mailbox.frame, post),
                 armed |-> mailbox.armed \/ moves \/ post # NoPost]
  /\ outgoing' \in Seq(Command)
  /\ \A k \in DOMAIN outgoing' : outgoing'[k].scroll = moved'
  /\ (moves \/ post # NoPost) /\ ~mailbox.armed =>
       1 \in DOMAIN outgoing' /\ outgoing'[1].kind = "marker"
  /\ post.fence <= Len(log) /\ (post.seq = 0 => post = NoPost)
  /\ UNCHANGED <<seat, token, attached, log, callbacks, main, taken, ran, drained, count, applied>>
  /\ UNCHANGED <<frame_due, pending_begin_frame, scrolled, ticked, styled, bound, frame, serviced>>

LEMMA Publishing ==
  ASSUME TypeOK, NEW moves \in BOOLEAN, NEW rest \in BOOLEAN, NEW post \in FramePost,
         Idle, Publish(moves, post, rest)
  PROVE  /\ outgoing' \in Seq(Command)
         /\ \A k \in DOMAIN outgoing' : outgoing'[k].scroll = moved'
         /\ (moves \/ post # NoPost) /\ ~mailbox.armed =>
              1 \in DOMAIN outgoing' /\ outgoing'[1].kind = "marker"
         /\ moved \in Nat
         /\ moved' = IF moves THEN moved + 1 ELSE moved
         /\ mailbox' = [scroll |-> IF moves THEN moved' ELSE mailbox.scroll,
                        frame |-> Merge(mailbox.frame, post),
                        armed |-> mailbox.armed \/ moves \/ post # NoPost]
<1>1. moved \in Nat /\ moved' = (IF moves THEN moved + 1 ELSE moved) /\ moved' \in Nat
  BY SMTT(30) DEF TypeOK, Publish
<1>2. mailbox' = [scroll |-> IF moves THEN moved' ELSE mailbox.scroll,
                  frame |-> Merge(mailbox.frame, post),
                  armed |-> mailbox.armed \/ moves \/ post # NoPost]
  BY <1>1 DEF Publish, TypeOK
<1> DEFINE marker == [kind |-> "marker", scroll |-> moved']
           owed == IF (moves \/ post # NoPost) /\ ~mailbox.armed THEN <<marker>> ELSE <<>>
<1>3. outgoing' = IF rest THEN Append(owed, Update(moved')) ELSE owed
  BY <1>1 DEF Publish
<1>4. marker \in Command /\ Update(moved') \in Command /\ marker.scroll = moved'
      /\ Update(moved').scroll = moved' /\ marker.kind = "marker"
  BY <1>1 DEF Command, Update
<1>5. owed \in Seq(Command) /\ (owed = <<marker>> \/ owed = <<>>)
  BY <1>4
<1>6. outgoing' \in Seq(Command)
  BY <1>3, <1>4, <1>5
<1> HIDE DEF marker
<1>7. /\ \A k \in DOMAIN owed : owed[k] = marker
      /\ (moves \/ post # NoPost) /\ ~mailbox.armed => 1 \in DOMAIN owed /\ owed[1] = marker
  BY <1>4
<1> HIDE DEF owed
<1>8. /\ \A k \in DOMAIN outgoing' : outgoing'[k].scroll = moved'
      /\ 1 \in DOMAIN owed => 1 \in DOMAIN outgoing' /\ outgoing'[1] = owed[1]
  <2>1. CASE rest
    <3>1. outgoing' = Append(owed, Update(moved'))
      BY <1>3, <2>1
    <3>2. /\ DOMAIN owed = 1..Len(owed) /\ DOMAIN outgoing' = 1..Len(owed) + 1 /\ Len(owed) \in Nat
          /\ outgoing'[Len(owed) + 1] = Update(moved')
          /\ \A i \in 1..Len(owed) : outgoing'[i] = owed[i]
      BY <1>4, <1>5, <3>1, AppendEntry
    <3>3. \A k \in 1..Len(owed) + 1 : k \in 1..Len(owed) \/ k = Len(owed) + 1
      BY <3>2
    <3> QED BY <1>4, <1>7, <3>2, <3>3
  <2>2. CASE ~rest
    BY <1>3, <1>4, <1>7, <2>2
  <2> QED BY <2>1, <2>2
<1>9. (moves \/ post # NoPost) /\ ~mailbox.armed => 1 \in DOMAIN outgoing' /\ outgoing'[1] = marker
  BY <1>7, <1>8
<1> QED BY <1>1, <1>2, <1>4, <1>6, <1>8, <1>9

(* A pass, with or without a frame post.                                   *)
LEMMA Passing ==
  ASSUME TypeOK, NEW p \in Painters, Pass(p) \/ BeginFrame(p)
  PROVE  \E moves \in BOOLEAN, post \in FramePost :
           /\ Posting(moves, post)
           /\ \/ post = NoPost /\ UNCHANGED <<asked, begin_frames_sent>>
              \/ /\ post.seq = begin_frames_sent[p] + 1 /\ post.fence = Len(log)
                 /\ begin_frames_sent' = [begin_frames_sent EXCEPT ![p] = post.seq]
                 /\ asked' = [asked EXCEPT ![p] = @ \cup
                      {[seq |-> post.seq, fence |-> post.fence, scroll |-> moved']}]
<1>1. Len(log) \in Nat /\ NoPost \in FramePost /\ NoPost.fence <= Len(log)
  BY DEF TypeOK, NoPost, FramePost
<1>2. CASE Pass(p)
  <2>1. PICK moves \in BOOLEAN, event \in BOOLEAN : Publish(moves, NoPost, event)
    BY <1>2 DEF Pass
  <2>2. Idle
    BY <1>2 DEF Pass, Live
  <2>3. /\ UNCHANGED <<seat, token, attached, log, callbacks, main, taken, ran, drained, count, applied>>
        /\ UNCHANGED <<frame_due, pending_begin_frame, scrolled, ticked, styled, bound, frame, serviced>>
        /\ UNCHANGED <<asked, begin_frames_sent>>
    BY <1>2 DEF Pass, fifo, page, published
  <2>4. Posting(moves, NoPost)
    BY <1>1, <2>1, <2>2, <2>3, Publishing DEF Posting, Idle
  <2> QED BY <1>1, <2>3, <2>4
<1>3. CASE BeginFrame(p)
  <2> DEFINE post == [seq |-> begin_frames_sent[p] + 1, fence |-> Len(log)]
  <2>1. PICK moves \in BOOLEAN :
          /\ Publish(moves, post, FALSE)
          /\ begin_frames_sent' = [begin_frames_sent EXCEPT ![p] = post.seq]
          /\ asked' = [asked EXCEPT ![p] = @ \cup
               {[seq |-> post.seq, fence |-> post.fence, scroll |-> moved']}]
    BY <1>3 DEF BeginFrame
  <2>0. begin_frames_sent[p] \in Nat
    BY DEF TypeOK
  <2>2. post \in FramePost /\ post.seq # 0 /\ post.fence <= Len(log)
    BY <1>1, <2>0 DEF FramePost
  <2>3. Idle
    BY <1>3 DEF BeginFrame, Live
  <2>4. /\ UNCHANGED <<seat, token, attached, log, callbacks, main, taken, ran, drained, count, applied>>
        /\ UNCHANGED <<frame_due, pending_begin_frame, scrolled, ticked, styled, bound, frame, serviced>>
    BY <1>3 DEF BeginFrame, fifo, page, published
  <2> HIDE DEF post
  <2>5. Posting(moves, post)
    BY <2>1, <2>2, <2>3, <2>4, Publishing DEF Posting, Idle
  <2>6. post.seq = begin_frames_sent[p] + 1 /\ post.fence = Len(log)
    BY DEF post
  <2> QED BY <2>1, <2>2, <2>5, <2>6
<1> QED BY <1>2, <1>3

(* No step takes a variable out of its range.                              *)
LEMMA TypeStep == TypeOK /\ ICount /\ [Next]_vars => TypeOK'
<1> SUFFICES ASSUME TypeOK, ICount, [Next]_vars PROVE TypeOK'
  OBVIOUS
<1> USE DEF embedder, fifo, page, published
<1>0. /\ {moved, callbacks, drained, count, scrolled, ticked, serviced, pending_begin_frame} \subseteq Nat
      /\ taken \in Nat /\ ran \in Nat /\ applied \in Nat /\ Len(log) \in Nat
      /\ ran <= taken /\ applied <= ran /\ taken <= Len(log)
      /\ frame_due \in FramePost /\ mailbox.frame \in FramePost /\ mailbox.scroll \in Nat
  BY DEF TypeOK
<1>1. ASSUME NEW p \in Painters, Pass(p) \/ BeginFrame(p) PROVE TypeOK'
  <2>1. PICK moves \in BOOLEAN, post \in FramePost :
          /\ Posting(moves, post)
          /\ \/ post = NoPost /\ UNCHANGED <<asked, begin_frames_sent>>
             \/ /\ post.seq = begin_frames_sent[p] + 1 /\ post.fence = Len(log)
                /\ begin_frames_sent' = [begin_frames_sent EXCEPT ![p] = post.seq]
                /\ asked' = [asked EXCEPT ![p] = @ \cup
                     {[seq |-> post.seq, fence |-> post.fence, scroll |-> moved']}]
    BY <1>1, Passing
  <2>2. /\ moved' \in Nat /\ outgoing' \in Seq(Command)
        /\ mailbox' \in [scroll : Nat, frame : FramePost, armed : BOOLEAN]
    <3>1. Merge(mailbox.frame, post) \in FramePost
      BY <1>0, Merging
    <3> QED BY <1>0, <2>1, <3>1 DEF Posting, TypeOK
  <2>3. /\ begin_frames_sent' \in [Painters -> Nat]
        /\ asked' \in [Painters -> SUBSET [seq : Nat, fence : Nat, scroll : Nat]]
    <3>1. post.seq \in Nat /\ post.fence \in Nat
      BY DEF FramePost
    <3>2. [seq |-> post.seq, fence |-> post.fence, scroll |-> moved']
            \in [seq : Nat, fence : Nat, scroll : Nat]
      BY <2>2, <3>1
    <3>3. /\ asked \in [Painters -> SUBSET [seq : Nat, fence : Nat, scroll : Nat]]
          /\ begin_frames_sent \in [Painters -> Nat]
      BY DEF TypeOK
    <3>4. CASE UNCHANGED <<asked, begin_frames_sent>>
      BY <3>3, <3>4
    <3>5. CASE ~UNCHANGED <<asked, begin_frames_sent>>
      <4> DEFINE r == [seq |-> post.seq, fence |-> post.fence, scroll |-> moved']
      <4>1. asked' = [asked EXCEPT ![p] = @ \cup {r}] /\ r \in [seq : Nat, fence : Nat, scroll : Nat]
        BY <2>1, <3>2, <3>5
      <4> HIDE DEF r
      <4>2. asked' \in [Painters -> SUBSET [seq : Nat, fence : Nat, scroll : Nat]]
        BY <3>3, <4>1
      <4> QED BY <2>1, <3>1, <3>3, <3>5, <4>2
    <3> QED BY <3>4, <3>5
  <2> QED BY SMTT(30), <2>1, <2>2, <2>3 DEF Posting, TypeOK
<1>2. CASE Send
  <2>1. Head(outgoing) \in Command /\ Tail(outgoing) \in Seq(Command)
    BY <1>2, TailEntry DEF Send, Idle, TypeOK
  <2>2. log' \in Seq(Command) /\ Len(log') = Len(log) + 1
    BY <1>2, <2>1, AppendEntry DEF Send, TypeOK
  <2> QED BY SMTT(30), <1>2, <1>0, <2>1, <2>2 DEF Send, TypeOK
<1>3. CASE HostCall
  <2>1. Update(moved) \in Command
    BY <1>0 DEF Update, Command
  <2>2. log' \in Seq(Command) /\ Len(log') = Len(log) + 1
    BY <1>3, <2>1, AppendEntry DEF HostCall, TypeOK
  <2> QED BY SMTT(30), <1>3, <1>0, <2>2 DEF HostCall, TypeOK
<1>4. ASSUME NEW p \in Painters, Attach(p) PROVE TypeOK'
  <2>1. begin_frames_sent' \in [Painters -> Nat]
    BY <1>0, <1>4 DEF Attach, Greater, TypeOK
  <2> QED BY <1>4, <2>1 DEF Attach, TypeOK
<1>5. CASE Detach \/ Cancel \/ DropSeat
  BY <1>5 DEF Detach, Cancel, DropSeat, TypeOK
<1>6. CASE ModuleCallback
  BY SMTT(30), <1>6 DEF ModuleCallback, TypeOK
<1>7. CASE Receive
  <2>1. count' = Len(log) - taken /\ count' \in Nat
    BY SMTT(30), <1>0, <1>7 DEF Receive
  <2> QED BY SMTT(30), <1>0, <1>7, <2>1 DEF Receive, TypeOK, MainState
<1>8. CASE Enter \/ OtherEntry \/ OtherEnds \/ Close \/ Gone
  BY <1>8 DEF Enter, OtherEntry, OtherEnds, Close, Gone, vars, TypeOK, MainState
<1>9. CASE Apply
  BY SMTT(30), <1>0, <1>9 DEF Apply, TypeOK
<1>10. CASE AdoptPosted
  <2>1. frame_due' \in FramePost
    BY <1>0, <1>10, Merging DEF AdoptPosted
  <2>2. mailbox' \in [scroll : Nat, frame : FramePost, armed : BOOLEAN]
    BY <1>10 DEF AdoptPosted, NoPost, FramePost
  <2>3. scrolled' \in Nat /\ ran' \in 0..taken /\ applied \in 0..ran'
    BY <1>0, <1>10 DEF AdoptPosted
  <2> QED BY SMTT(30), <1>10, <2>1, <2>2, <2>3 DEF AdoptPosted, TypeOK
<1>11. CASE DeliverCallback
  BY SMTT(30), <1>0, <1>11 DEF DeliverCallback, TypeOK
<1>12. CASE BurstEnds
  <2>1. applied' \in 0..ran /\ count' \in Nat
    BY <1>0, <1>12 DEF BurstEnds, ICount
  <2>2. frame_due.seq \in Nat /\ NoPost \in FramePost
    BY <1>0 DEF FramePost, NoPost
  <2>3. frame_due' \in FramePost /\ pending_begin_frame' \in Nat /\ ticked' \in Nat
    BY <1>0, <1>12, <2>2 DEF BurstEnds, Greater
  <2> QED BY ZenonT(60), <1>12, <2>1, <2>3 DEF BurstEnds, TypeOK, MainState
<1>13. CASE Flush \/ Commit
  <2>1. Shown \in Frame
    BY <1>0 DEF Shown, Frame
  <2> QED BY <1>13, <2>1 DEF Flush, Commit, TypeOK, MainState
<1>14. CASE Acknowledge
  BY SMTT(30), <1>0, <1>14 DEF Acknowledge, TypeOK, MainState, Greater
<1>15. CASE End
  <2>1. frame_due.seq \in Nat /\ NoPost \in FramePost
    BY <1>0 DEF FramePost, NoPost
  <2>2. serviced' \in Nat
    BY <1>0, <1>15, <2>1 DEF End, Greater
  <2> QED BY SMTT(30), <1>15, <2>1, <2>2 DEF End, TypeOK, MainState
<1>16. CASE UNCHANGED vars
  BY <1>16 DEF vars, TypeOK
<1> QED
  BY <1>1, <1>2, <1>3, <1>4, <1>5, <1>6, <1>7, <1>8, <1>9, <1>10, <1>11, <1>12, <1>13, <1>14,
     <1>15, <1>16 DEF Next, Entry, EntryStep

(* The numbers of the state are numbers.                                   *)
LEMMA Numbers ==
  ASSUME TypeOK
  PROVE  /\ moved \in Nat /\ callbacks \in Nat /\ drained \in Nat /\ count \in Nat
         /\ scrolled \in Nat /\ ticked \in Nat /\ serviced \in Nat /\ pending_begin_frame \in Nat
         /\ taken \in Nat /\ ran \in Nat /\ applied \in Nat /\ Len(log) \in Nat
         /\ ran <= taken /\ applied <= ran /\ taken <= Len(log)
         /\ mailbox.scroll \in Nat /\ mailbox.armed \in BOOLEAN
         /\ mailbox.frame \in FramePost /\ frame_due \in FramePost
         /\ frame_due.seq \in Nat /\ frame_due.fence \in Nat
         /\ mailbox.frame.seq \in Nat /\ mailbox.frame.fence \in Nat
         /\ log \in Seq(Command) /\ outgoing \in Seq(Command)
         /\ DOMAIN log = 1..Len(log)
<1>1. frame_due \in FramePost /\ mailbox.frame \in FramePost
  BY DEF TypeOK
<1>2. /\ frame_due.seq \in Nat /\ frame_due.fence \in Nat
      /\ mailbox.frame.seq \in Nat /\ mailbox.frame.fence \in Nat
  BY <1>1 DEF FramePost
<1> QED BY <1>1, <1>2 DEF TypeOK

(* The steps of main's between its bursts and its commits.                 *)
LEMMA CountStep == TypeOK /\ ICount /\ [Next]_vars => ICount'
<1> SUFFICES ASSUME TypeOK, ICount, [Next]_vars PROVE ICount'
  OBVIOUS
<1> USE DEF embedder, fifo, page, published
<1>0. /\ drained \in Nat /\ count \in Nat /\ callbacks \in Nat
      /\ taken \in Nat /\ ran \in Nat /\ applied \in Nat /\ Len(log) \in Nat
      /\ ran <= taken /\ taken <= Len(log)
  BY Numbers
<1>1. ASSUME UNCHANGED <<taken, ran, drained, count, applied, main>> PROVE ICount'
  BY <1>1 DEF ICount, Serving
<1>2. ASSUME NEW p \in Painters, Pass(p) \/ BeginFrame(p) \/ Attach(p) PROVE ICount'
  BY <1>1, <1>2 DEF Pass, BeginFrame, Attach
<1>3. CASE Send \/ HostCall \/ Detach \/ Cancel \/ DropSeat \/ ModuleCallback
  BY <1>1, <1>3 DEF Send, HostCall, Detach, Cancel, DropSeat, ModuleCallback
<1>4. CASE Receive
  BY <1>0, <1>4 DEF Receive, ICount, Serving, Queued
<1>5. CASE Enter \/ OtherEntry
  BY <1>5 DEF Enter, OtherEntry, ICount, Serving
<1>6. CASE OtherEnds \/ Commit \/ Flush
  BY <1>6 DEF OtherEnds, Commit, Flush, ICount, Serving
<1>7. CASE Acknowledge
  BY <1>0, <1>7 DEF Acknowledge, ICount, Serving
<1>8. CASE Apply \/ AdoptPosted \/ DeliverCallback
  BY <1>8 DEF Apply, AdoptPosted, DeliverCallback, ICount, Serving
<1>9. CASE BurstEnds
  BY <1>0, <1>9 DEF BurstEnds, ICount, Serving
<1>10. CASE End \/ Close
  BY <1>10 DEF End, Close, ICount, Serving
<1>11. CASE Gone \/ UNCHANGED vars
  BY <1>1, <1>11 DEF Gone, vars
<1> QED
  BY <1>2, <1>3, <1>4, <1>5, <1>6, <1>7, <1>8, <1>9, <1>10, <1>11 DEF Next, Entry, EntryStep

(* The offset on the screen is never ahead of mailbox and document.        *)
LEMMA MovedStep == TypeOK /\ IMoved /\ [Next]_vars => IMoved'
<1> SUFFICES ASSUME TypeOK, IMoved, [Next]_vars PROVE IMoved'
  OBVIOUS
<1> USE DEF embedder, fifo, page, published
<1>0. /\ moved \in Nat /\ scrolled \in Nat /\ mailbox.scroll \in Nat
      /\ log \in Seq(Command) /\ outgoing \in Seq(Command) /\ DOMAIN log = 1..Len(log)
      /\ \A i \in 1..Len(log) : log[i] \in Command
  BY Numbers
<1>c. \A c \in Command : c.scroll \in Nat
  BY DEF Command
<1>1. ASSUME UNCHANGED <<moved, outgoing, log, mailbox, scrolled>> PROVE IMoved'
  BY <1>1 DEF IMoved
<1>2. ASSUME NEW p \in Painters, Pass(p) \/ BeginFrame(p) PROVE IMoved'
  <2>1. PICK moves \in BOOLEAN, post \in FramePost : Posting(moves, post)
    BY <1>2, Passing
  <2>2. /\ moved <= moved' /\ moved' \in Nat /\ scrolled' = scrolled /\ log' = log
        /\ moved' = IF mailbox'.scroll = 0 THEN scrolled' ELSE mailbox'.scroll
    BY <1>0, <2>1 DEF Posting, IMoved
  <2>3. \A k \in DOMAIN outgoing' : outgoing'[k].scroll <= moved'
    BY <2>1, <2>2 DEF Posting
  <2>4. \A i \in DOMAIN log : log[i].scroll <= moved'
    BY <1>0, <1>c, <2>2 DEF IMoved
  <2> QED BY <1>0, <2>2, <2>3, <2>4 DEF IMoved
<1>3. CASE Send
  <2>1. /\ outgoing # <<>> /\ log' = Append(log, Head(outgoing)) /\ outgoing' = Tail(outgoing)
        /\ UNCHANGED <<moved, mailbox, scrolled>>
    BY <1>3 DEF Send, Idle
  <2>2. Head(outgoing) \in Command /\ Head(outgoing).scroll <= moved
    BY <1>0, <2>1, TailEntry DEF IMoved
  <2>3. \A k \in DOMAIN outgoing' : outgoing'[k].scroll <= moved
    BY <1>0, <2>1, TailEntry DEF IMoved
  <2>4. \A i \in DOMAIN log' : i \in DOMAIN log \/ i = Len(log) + 1
    BY <1>0, <2>1, <2>2, AppendEntry
  <2>5. \A i \in DOMAIN log' : log'[i].scroll <= moved
    BY <1>0, <2>1, <2>2, <2>4, AppendEntry DEF IMoved
  <2> QED BY <2>1, <2>3, <2>5 DEF IMoved
<1>4. CASE HostCall
  <2>1. log' = Append(log, Update(moved)) /\ UNCHANGED <<moved, mailbox, scrolled, outgoing>>
    BY <1>4 DEF HostCall
  <2>2. Update(moved) \in Command /\ Update(moved).scroll = moved
    BY <1>0 DEF Update, Command
  <2>4. \A i \in DOMAIN log' : i \in DOMAIN log \/ i = Len(log) + 1
    BY <1>0, <2>1, <2>2, AppendEntry
  <2>5. \A i \in DOMAIN log' : log'[i].scroll <= moved
    BY <1>0, <2>1, <2>2, <2>4, AppendEntry DEF IMoved
  <2> QED BY <2>1, <2>5 DEF IMoved
<1>5. ASSUME NEW p \in Painters, Attach(p) PROVE IMoved'
  BY <1>1, <1>5 DEF Attach
<1>6. CASE Detach \/ Cancel \/ DropSeat \/ ModuleCallback
  BY <1>1, <1>6 DEF Detach, Cancel, DropSeat, ModuleCallback
<1>7. CASE Receive \/ Enter \/ OtherEntry \/ OtherEnds \/ Commit \/ Flush \/ Acknowledge
  BY <1>1, <1>7 DEF Receive, Enter, OtherEntry, OtherEnds, Commit, Flush, Acknowledge
<1>8. CASE Apply \/ DeliverCallback \/ BurstEnds \/ End \/ Close
  BY <1>1, <1>8 DEF Apply, DeliverCallback, BurstEnds, End, Close
<1>9. CASE AdoptPosted
  BY <1>0, <1>9 DEF AdoptPosted, IMoved
<1>10. CASE Gone \/ UNCHANGED vars
  BY <1>1, <1>10 DEF Gone, vars
<1> QED
  BY <1>2, <1>3, <1>4, <1>5, <1>6, <1>7, <1>8, <1>9, <1>10 DEF Next, Entry, EntryStep

(* A command joins the log, and everything before it stays.                *)
LEMMA Logging ==
  ASSUME TypeOK, NEW c \in Command, log' = Append(log, c), UNCHANGED ran
  PROVE  /\ Len(log') = Len(log) + 1 /\ Len(log) \in Nat /\ log'[Len(log) + 1] = c
         /\ DOMAIN log' = 1..Len(log) + 1
         /\ \A i \in 1..Len(log) : log'[i] = log[i]
         /\ \A n \in 1..Len(log) : Marked(n)' <=> Marked(n)
         /\ Marked(Len(log)) => Marked(Len(log))'
         /\ c.kind = "marker" => Marked(Len(log))'
<1>1. /\ Len(log') = Len(log) + 1 /\ Len(log) \in Nat /\ log'[Len(log) + 1] = c
      /\ DOMAIN log' = 1..Len(log) + 1
      /\ \A i \in 1..Len(log) : log'[i] = log[i]
  BY AppendEntry, Numbers
<1>2. ran \in Nat /\ ran <= Len(log)
  BY SMTT(30), Numbers
<1>3. \A n \in 1..Len(log) : \A j \in ran + 1 .. n : j \in 1..Len(log)
  BY <1>1, <1>2
<1>4. \A n \in 1..Len(log) : Marked(n)' <=> Marked(n)
  BY <1>1, <1>3 DEF Marked
<1>5. ASSUME Marked(Len(log)) PROVE Marked(Len(log))'
  <2>1. PICK j \in ran + 1 .. Len(log) : log[j].kind = "marker"
    BY <1>5 DEF Marked
  <2>2. j \in ran' + 1 .. Len(log') /\ log'[j].kind = "marker"
    BY <1>1, <1>2, <2>1
  <2> QED BY <2>2 DEF Marked
<1>6. ASSUME c.kind = "marker" PROVE Marked(Len(log))'
  <2>1. Len(log) + 1 \in ran' + 1 .. Len(log') /\ log'[Len(log) + 1].kind = "marker"
    BY <1>1, <1>2, <1>6
  <2> QED BY <2>1 DEF Marked
<1> QED BY <1>1, <1>4, <1>5, <1>6

(* What is armed has its marker on the way.                                *)
LEMMA MarkerStep == IInv /\ [Next]_vars => IMarker'
<1> SUFFICES ASSUME TypeOK, IMarker, [Next]_vars PROVE IMarker'
  BY DEF IInv
<1> USE DEF embedder, fifo, page, published
<1>0. /\ ran \in Nat /\ Len(log) \in Nat /\ DOMAIN log = 1..Len(log)
      /\ log \in Seq(Command) /\ outgoing \in Seq(Command)
      /\ mailbox.armed \in BOOLEAN /\ mailbox.scroll \in Nat /\ mailbox.frame \in FramePost
  BY Numbers
<1>1. ASSUME UNCHANGED <<outgoing, log, mailbox, ran>> PROVE IMarker'
  BY <1>1 DEF IMarker, Marked, Owed
<1>2. ASSUME NEW p \in Painters, Pass(p) \/ BeginFrame(p) PROVE IMarker'
  <2>1. PICK moves \in BOOLEAN, post \in FramePost : Posting(moves, post)
    BY <1>2, Passing
  <2>2. ~Owed /\ (Marked(Len(log))' <=> Marked(Len(log)))
    BY <2>1 DEF Posting, Owed, Marked
  <2>3. CASE mailbox.armed
    BY <2>1, <2>2, <2>3 DEF IMarker, Posting
  <2>4. CASE ~mailbox.armed /\ (moves \/ post # NoPost)
    BY <2>1, <2>4 DEF IMarker, Posting, Owed
  <2>5. CASE ~mailbox.armed /\ ~moves /\ post = NoPost
    <3>1. Merge(NoPost, NoPost) = NoPost
      BY DEF Merge, NoPost, Greater
    <3>2. mailbox.frame = NoPost /\ mailbox.scroll = 0
      BY <2>5 DEF IMarker
    <3>3. mailbox' = [scroll |-> 0, frame |-> NoPost, armed |-> FALSE]
      BY <2>1, <2>5, <3>1, <3>2 DEF Posting
    <3> QED BY <3>3 DEF IMarker
  <2> QED BY <1>0, <2>3, <2>4, <2>5
<1>3. CASE Send
  <2>1. /\ outgoing # <<>> /\ log' = Append(log, Head(outgoing)) /\ outgoing' = Tail(outgoing)
        /\ UNCHANGED <<mailbox, ran>>
    BY <1>3 DEF Send, Idle
  <2>2. /\ Head(outgoing) \in Command /\ Head(outgoing) = outgoing[1]
        /\ \A i \in DOMAIN outgoing : i # 1 => i - 1 \in DOMAIN outgoing' /\ outgoing'[i - 1] = outgoing[i]
    BY <1>0, <2>1, TailEntry
  <2>3. Marked(Len(log)) => Marked(Len(log))'
    BY <2>1, <2>2, Logging
  <2>4. Owed => Owed' \/ Marked(Len(log))'
    <3>1. ASSUME NEW k \in DOMAIN outgoing, outgoing[k].kind = "marker" PROVE Owed' \/ Marked(Len(log))'
      <4>1. CASE k = 1
        BY <2>1, <2>2, <3>1, <4>1, Logging
      <4>2. CASE k # 1
        BY <2>2, <3>1, <4>2 DEF Owed
      <4> QED BY <4>1, <4>2
    <3> QED BY <3>1 DEF Owed
  <2> QED BY <2>1, <2>3, <2>4 DEF IMarker
<1>4. CASE HostCall
  <2>1. log' = Append(log, Update(moved)) /\ UNCHANGED <<mailbox, ran, outgoing>>
    BY <1>4 DEF HostCall
  <2>2. Update(moved) \in Command
    BY Numbers DEF Update, Command
  <2>3. Marked(Len(log)) => Marked(Len(log))'
    BY <2>1, <2>2, Logging
  <2> QED BY <2>1, <2>3 DEF IMarker, Owed
<1>5. ASSUME NEW p \in Painters, Attach(p) PROVE IMarker'
  BY <1>1, <1>5 DEF Attach
<1>6. CASE Detach \/ Cancel \/ DropSeat \/ ModuleCallback
  BY <1>1, <1>6 DEF Detach, Cancel, DropSeat, ModuleCallback
<1>7. CASE Receive \/ Enter \/ OtherEntry \/ OtherEnds \/ Commit \/ Flush \/ Acknowledge
  BY <1>1, <1>7 DEF Receive, Enter, OtherEntry, OtherEnds, Commit, Flush, Acknowledge
<1>8. CASE DeliverCallback \/ BurstEnds \/ End \/ Close
  BY <1>1, <1>8 DEF DeliverCallback, BurstEnds, End, Close
<1>9. CASE Apply
  <2>1. /\ log[ran + 1].kind = "update" /\ ran' = ran + 1 /\ UNCHANGED <<log, mailbox, outgoing>>
    BY <1>9 DEF Apply
  <2>2. Marked(Len(log)) => Marked(Len(log))'
    <3>1. ASSUME NEW j \in ran + 1 .. Len(log), log[j].kind = "marker" PROVE j \in ran' + 1 .. Len(log)
      BY <1>0, <2>1, <3>1
    <3> QED BY <2>1, <3>1 DEF Marked
  <2> QED BY <2>1, <2>2 DEF IMarker, Owed
<1>10. CASE AdoptPosted
  BY <1>10 DEF AdoptPosted, IMarker
<1>11. CASE Gone \/ UNCHANGED vars
  BY <1>1, <1>11 DEF Gone, vars
<1> QED
  BY <1>2, <1>3, <1>4, <1>5, <1>6, <1>7, <1>8, <1>9, <1>10, <1>11 DEF Next, Entry, EntryStep

(* The scroll state of a command is with the document, or comes before it. *)
LEMMA AheadStep == IInv /\ [Next]_vars => IAhead'
<1> SUFFICES ASSUME TypeOK, IMoved, IMarker, IAhead, [Next]_vars PROVE IAhead'
  BY DEF IInv
<1> USE DEF embedder, fifo, page, published
<1>0. /\ ran \in Nat /\ Len(log) \in Nat /\ DOMAIN log = 1..Len(log)
      /\ log \in Seq(Command) /\ outgoing \in Seq(Command)
      /\ mailbox.armed \in BOOLEAN /\ mailbox.scroll \in Nat /\ moved \in Nat /\ scrolled \in Nat
      /\ ran <= taken /\ taken <= Len(log) /\ taken \in Nat
  BY Numbers
<1>1. ASSUME UNCHANGED <<outgoing, log, scrolled, ran>> PROVE IAhead'
  BY <1>1 DEF IAhead, Marked
<1>a. outgoing = <<>> => moved <= scrolled \/ Marked(Len(log))
  BY <1>0 DEF IMoved, IMarker, Owed
<1>2. ASSUME NEW p \in Painters, Pass(p) \/ BeginFrame(p) PROVE IAhead'
  <2>1. PICK moves \in BOOLEAN, post \in FramePost : Posting(moves, post)
    BY <1>2, Passing
  <2>2. \A n \in 1..Len(log) : Marked(n)' <=> Marked(n)
    BY <2>1 DEF Posting, Marked
  <2>3. Marked(Len(log))' <=> Marked(Len(log))
    BY <2>1 DEF Posting, Marked
  <2>4. UNCHANGED <<log, ran, scrolled>> /\ outgoing = <<>> /\ outgoing' \in Seq(Command)
    BY <2>1 DEF Posting
  <2>5. ASSUME NEW k \in DOMAIN outgoing'
        PROVE  \/ outgoing'[k].scroll <= scrolled \/ Marked(Len(log))
               \/ \E j \in 1..k : outgoing'[j].kind = "marker"
    <3>1. outgoing'[k].scroll = moved'
      BY <2>1 DEF Posting
    <3>2. CASE (moves \/ post # NoPost) /\ ~mailbox.armed
      <4>1. outgoing'[1].kind = "marker" /\ 1 \in 1..k
        BY <2>1, <2>4, <3>2 DEF Posting
      <4> QED BY <4>1
    <3>3. CASE mailbox.armed
      BY <2>4, <3>3 DEF IMarker, Owed
    <3>4. CASE ~moves /\ post = NoPost /\ ~mailbox.armed
      BY <1>a, <2>1, <2>4, <3>1, <3>4 DEF Posting
    <3> QED BY <1>0, <3>2, <3>3, <3>4
  <2> QED BY <1>0, <2>2, <2>3, <2>4, <2>5 DEF IAhead
<1>3. CASE Send
  <2>1. /\ outgoing # <<>> /\ log' = Append(log, Head(outgoing)) /\ outgoing' = Tail(outgoing)
        /\ UNCHANGED <<scrolled, ran>>
    BY <1>3 DEF Send, Idle
  <2>2. /\ Head(outgoing) \in Command /\ Head(outgoing) = outgoing[1] /\ 1 \in DOMAIN outgoing
        /\ \A i \in DOMAIN outgoing' : i \in Nat /\ i > 0 /\ i + 1 \in DOMAIN outgoing
                                        /\ outgoing'[i] = outgoing[i + 1]
    BY <1>0, <2>1, TailEntry
  <2>3. /\ Len(log') = Len(log) + 1 /\ log'[Len(log) + 1] = Head(outgoing)
        /\ DOMAIN log' = 1..Len(log) + 1
        /\ \A i \in 1..Len(log) : log'[i] = log[i]
        /\ \A n \in 1..Len(log) : Marked(n)' <=> Marked(n)
        /\ Marked(Len(log)) => Marked(Len(log))'
        /\ Head(outgoing).kind = "marker" => Marked(Len(log))'
    BY <2>1, <2>2, Logging
  <2>4. \A i \in Nat : i = Len(log) + 1 => (Marked(Len(log))' <=> Marked(i)')
    BY <2>3 DEF Marked
  <2>5. outgoing[1].scroll <= scrolled \/ Marked(Len(log))'
    <3>1. \/ outgoing[1].scroll <= scrolled \/ Marked(Len(log))
          \/ \E j \in 1..1 : outgoing[j].kind = "marker"
      BY <2>2 DEF IAhead
    <3>2. \A j \in 1..1 : j = 1
      OBVIOUS
    <3> QED BY <2>2, <2>3, <3>1, <3>2
  <2>6. ASSUME NEW i \in DOMAIN log', i > ran PROVE log'[i].scroll <= scrolled \/ Marked(i)'
    <3>1. CASE i = Len(log) + 1
      BY <2>2, <2>3, <2>4, <2>5, <3>1
    <3>2. CASE i \in 1..Len(log)
      BY <1>0, <2>3, <2>6, <3>2 DEF IAhead
    <3> QED BY <1>0, <2>3, <3>1, <3>2
  <2>7. ASSUME NEW k \in DOMAIN outgoing'
        PROVE  \/ outgoing'[k].scroll <= scrolled \/ Marked(Len(log))'
               \/ \E j \in 1..k : outgoing'[j].kind = "marker"
    <3>1. \/ outgoing[k + 1].scroll <= scrolled \/ Marked(Len(log))
          \/ \E j \in 1..k + 1 : outgoing[j].kind = "marker"
      BY <2>2 DEF IAhead
    <3>2. ASSUME NEW j \in 1..k + 1, outgoing[j].kind = "marker"
          PROVE  Marked(Len(log))' \/ \E i \in 1..k : outgoing'[i].kind = "marker"
      <4>1. CASE j = 1
        BY <2>2, <2>3, <3>2, <4>1
      <4>2. CASE j # 1
        <5>1. j \in DOMAIN outgoing /\ j - 1 \in 1..k
          BY <1>0, <2>2, <4>2
        <5>2. outgoing'[j - 1] = outgoing[j]
          BY <1>0, <2>1, <4>2, <5>1, TailEntry
        <5> QED BY <3>2, <5>1, <5>2
      <4> QED BY <4>1, <4>2
    <3> QED BY <2>2, <2>3, <3>1, <3>2
  <2> QED BY <2>1, <2>6, <2>7 DEF IAhead
<1>4. CASE HostCall
  <2>1. /\ log' = Append(log, Update(moved)) /\ UNCHANGED <<ran, outgoing, scrolled>>
        /\ outgoing = <<>>
    BY <1>4 DEF HostCall, Idle
  <2>2. Update(moved) \in Command /\ Update(moved).scroll = moved
    BY <1>0 DEF Update, Command
  <2>3. /\ Len(log') = Len(log) + 1 /\ log'[Len(log) + 1] = Update(moved)
        /\ DOMAIN log' = 1..Len(log) + 1
        /\ \A i \in 1..Len(log) : log'[i] = log[i]
        /\ \A n \in 1..Len(log) : Marked(n)' <=> Marked(n)
        /\ Marked(Len(log)) => Marked(Len(log))'
    BY <2>1, <2>2, Logging
  <2>4. \A i \in Nat : i = Len(log) + 1 => (Marked(Len(log))' <=> Marked(i)')
    BY <2>3 DEF Marked
  <2>6. ASSUME NEW i \in DOMAIN log', i > ran PROVE log'[i].scroll <= scrolled \/ Marked(i)'
    <3>1. CASE i = Len(log) + 1
      BY <1>a, <2>1, <2>2, <2>3, <2>4, <3>1
    <3>2. CASE i \in 1..Len(log)
      BY <1>0, <2>3, <2>6, <3>2 DEF IAhead
    <3> QED BY <1>0, <2>3, <3>1, <3>2
  <2>7. DOMAIN outgoing' = {}
    BY <2>1
  <2> QED BY <2>1, <2>6, <2>7 DEF IAhead
<1>5. ASSUME NEW p \in Painters, Attach(p) PROVE IAhead'
  BY <1>1, <1>5 DEF Attach
<1>6. CASE Detach \/ Cancel \/ DropSeat \/ ModuleCallback
  BY <1>1, <1>6 DEF Detach, Cancel, DropSeat, ModuleCallback
<1>7. CASE Receive \/ Enter \/ OtherEntry \/ OtherEnds \/ Commit \/ Flush \/ Acknowledge
  BY <1>1, <1>7 DEF Receive, Enter, OtherEntry, OtherEnds, Commit, Flush, Acknowledge
<1>8. CASE DeliverCallback \/ BurstEnds \/ End \/ Close
  BY <1>1, <1>8 DEF DeliverCallback, BurstEnds, End, Close
<1>9. CASE Apply
  <2>1. /\ log[ran + 1].kind = "update" /\ ran' = ran + 1 /\ UNCHANGED <<log, scrolled, outgoing>>
    BY <1>9 DEF Apply
  <2>2. ASSUME NEW n \in Nat, Marked(n) PROVE Marked(n)'
    <3>1. PICK j \in ran + 1 .. n : log[j].kind = "marker"
      BY <2>2 DEF Marked
    <3>2. j \in ran' + 1 .. n
      BY <1>0, <2>1, <3>1
    <3> QED BY <2>1, <3>1, <3>2 DEF Marked
  <2>3. Marked(Len(log)) => Marked(Len(log))'
    BY <1>0, <2>1, <2>2 DEF Marked
  <2>4. \A i \in DOMAIN log : i \in Nat /\ (i > ran' => i > ran)
    BY <1>0, <2>1
  <2> QED BY <2>1, <2>2, <2>3, <2>4 DEF IAhead
<1>10. CASE AdoptPosted
  <2>1. scrolled' = moved /\ UNCHANGED <<log, outgoing>>
    BY <1>10 DEF AdoptPosted, IMoved
  <2> QED BY <2>1 DEF IAhead, IMoved
<1>11. CASE Gone \/ UNCHANGED vars
  BY <1>1, <1>11 DEF Gone, vars
<1> QED
  BY <1>2, <1>3, <1>4, <1>5, <1>6, <1>7, <1>8, <1>9, <1>10, <1>11 DEF Next, Entry, EntryStep

(* What waits, waits for commands that were sent.                          *)
LEMMA FenceStep == IInv /\ [Next]_vars => IFence'
<1> SUFFICES ASSUME TypeOK, ICount, IFence, [Next]_vars PROVE IFence'
  BY DEF IInv
<1> USE DEF embedder, fifo, page, published
<1>0. /\ Len(log) \in Nat /\ frame_due.seq \in Nat /\ frame_due.fence \in Nat
      /\ mailbox.frame.seq \in Nat /\ mailbox.frame.fence \in Nat
      /\ frame_due \in FramePost /\ mailbox.frame \in FramePost
      /\ applied \in Nat /\ count \in Nat /\ pending_begin_frame \in Nat
      /\ log \in Seq(Command) /\ outgoing \in Seq(Command)
  BY Numbers
<1>n. NoPost.seq = 0 /\ NoPost.fence = 0
  BY DEF NoPost
<1>1. ASSUME UNCHANGED <<log, mailbox, frame_due, applied, pending_begin_frame, main>> PROVE IFence'
  BY <1>1 DEF IFence, Serving
<1>2. ASSUME NEW p \in Painters, Pass(p) \/ BeginFrame(p) PROVE IFence'
  <2>1. PICK moves \in BOOLEAN, post \in FramePost : Posting(moves, post)
    BY <1>2, Passing
  <2>2. /\ mailbox'.frame = Merge(mailbox.frame, post)
        /\ post.seq \in Nat /\ post.fence \in Nat
        /\ post.fence <= Len(log) /\ (post.seq = 0 => post.fence = 0)
        /\ UNCHANGED <<log, frame_due, applied, pending_begin_frame, main>>
    BY <1>n, <2>1 DEF Posting, FramePost
  <2>3. /\ mailbox'.frame.seq = Greater(mailbox.frame.seq, post.seq)
        /\ mailbox'.frame.fence = Greater(mailbox.frame.fence, post.fence)
    BY <1>0, <2>2, Merging
  <2> QED BY <1>0, <2>2, <2>3 DEF IFence, Serving, Greater
<1>3. CASE Send
  <2>1. Head(outgoing) \in Command
    BY <1>0, <1>3, TailEntry DEF Send, Idle
  <2>2. Len(log') = Len(log) + 1
    BY <1>0, <1>3, <2>1, AppendEntry DEF Send
  <2> QED BY <1>0, <1>3, <2>2 DEF Send, IFence, Serving
<1>4. CASE HostCall
  <2>1. Update(moved) \in Command
    BY Numbers DEF Update, Command
  <2>2. Len(log') = Len(log) + 1
    BY <1>0, <1>4, <2>1, AppendEntry DEF HostCall
  <2> QED BY <1>0, <1>4, <2>2 DEF HostCall, IFence, Serving
<1>5. ASSUME NEW p \in Painters, Attach(p) PROVE IFence'
  BY <1>1, <1>5 DEF Attach
<1>6. CASE Detach \/ Cancel \/ DropSeat \/ ModuleCallback
  BY <1>1, <1>6 DEF Detach, Cancel, DropSeat, ModuleCallback
<1>7. CASE Receive \/ Enter \/ OtherEntry \/ OtherEnds \/ Commit \/ Flush
  BY <1>7 DEF Receive, Enter, OtherEntry, OtherEnds, Commit, Flush, IFence, Serving
<1>8. CASE Acknowledge
  BY <1>8 DEF Acknowledge, IFence, Serving
<1>9. CASE Apply \/ DeliverCallback
  BY <1>1, <1>9 DEF Apply, DeliverCallback
<1>10. CASE AdoptPosted
  <2>1. /\ frame_due'.seq = Greater(frame_due.seq, mailbox.frame.seq)
        /\ frame_due'.fence = Greater(frame_due.fence, mailbox.frame.fence)
    BY <1>0, <1>10, Merging DEF AdoptPosted
  <2>2. mailbox'.frame.seq = 0 /\ mailbox'.frame.fence = 0
    BY <1>n, <1>10 DEF AdoptPosted
  <2> QED BY <1>0, <1>10, <2>1, <2>2 DEF AdoptPosted, IFence, Greater
<1>11. CASE BurstEnds
  <2>1. applied' \in Nat /\ main' = "commit" /\ UNCHANGED <<log, mailbox>>
    BY <1>0, <1>11 DEF BurstEnds
  <2>2. CASE frame_due.seq # 0 /\ frame_due.fence <= applied'
    BY <1>0, <1>n, <1>11, <2>1, <2>2 DEF BurstEnds, IFence
  <2>3. CASE ~(frame_due.seq # 0 /\ frame_due.fence <= applied')
    <3>1. UNCHANGED <<frame_due, pending_begin_frame, ticked>>
      BY <1>11, <2>3 DEF BurstEnds
    <3>2. frame_due.seq # 0 => frame_due.fence > applied'
      BY <1>0, <2>1, <2>3
    <3> QED BY <2>1, <3>1, <3>2 DEF IFence
  <2> QED BY <2>2, <2>3
<1>12. CASE End \/ Close
  BY <1>0, <1>n, <1>12 DEF End, Close, IFence, Serving
<1>13. CASE Gone \/ UNCHANGED vars
  BY <1>1, <1>13 DEF Gone, vars
<1> QED
  BY <1>2, <1>3, <1>4, <1>5, <1>6, <1>7, <1>8, <1>9, <1>10, <1>11, <1>12, <1>13
     DEF Next, Entry, EntryStep

(* A post passes from hand to hand until it is acknowledged.               *)
LEMMA HeldStep == IInv /\ [Next]_vars => IHeld'
<1> SUFFICES ASSUME TypeOK, ICount, IFence, IHeld, [Next]_vars PROVE IHeld'
  BY DEF IInv
<1> USE DEF embedder, fifo, page, published
<1>0. /\ frame_due.seq \in Nat /\ mailbox.frame.seq \in Nat
      /\ frame_due \in FramePost /\ mailbox.frame \in FramePost
      /\ serviced \in Nat /\ pending_begin_frame \in Nat
      /\ \A p \in Painters : \A q \in asked[p] : q.seq \in Nat
  BY Numbers DEF TypeOK
<1>1. ASSUME UNCHANGED <<asked, mailbox, frame_due, pending_begin_frame, serviced>> PROVE IHeld'
  BY <1>1 DEF IHeld
<1>2. ASSUME NEW p \in Painters, Pass(p) \/ BeginFrame(p) PROVE IHeld'
  <2>1. PICK moves \in BOOLEAN, post \in FramePost :
          /\ Posting(moves, post)
          /\ \/ post = NoPost /\ UNCHANGED <<asked, begin_frames_sent>>
             \/ asked' = [asked EXCEPT ![p] = @ \cup
                  {[seq |-> post.seq, fence |-> post.fence, scroll |-> moved']}]
    BY <1>2, Passing
  <2>2. /\ mailbox'.frame = Merge(mailbox.frame, post) /\ post.seq \in Nat
        /\ UNCHANGED <<frame_due, pending_begin_frame, serviced>>
    BY <2>1 DEF Posting, FramePost
  <2>3. mailbox'.frame.seq = Greater(mailbox.frame.seq, post.seq)
    BY <1>0, <2>2, Merging
  <2>4. mailbox'.frame.seq \in Nat /\ mailbox'.frame.seq >= mailbox.frame.seq
        /\ mailbox'.frame.seq >= post.seq
    BY <1>0, <2>2, <2>3 DEF Greater
  <2>5. asked \in [Painters -> SUBSET [seq : Nat, fence : Nat, scroll : Nat]]
    BY DEF TypeOK
  <2>6. ASSUME NEW r \in Painters, NEW q \in asked'[r] PROVE q \in asked[r] \/ q.seq = post.seq
    <3> DEFINE new == [seq |-> post.seq, fence |-> post.fence, scroll |-> moved']
    <3>1. new.seq = post.seq
      OBVIOUS
    <3>2. asked' = asked \/ asked' = [asked EXCEPT ![p] = @ \cup {new}]
      BY <2>1
    <3> HIDE DEF new
    <3>3. q \in asked[r] \/ q = new
      BY <2>5, <2>6, <3>2
    <3> QED BY <3>1, <3>3
  <2>7. ASSUME NEW r \in Painters, NEW q \in asked'[r]
        PROVE  \/ q.seq <= serviced \/ q.seq <= pending_begin_frame
               \/ q.seq <= frame_due.seq \/ q.seq <= mailbox'.frame.seq
    <3>1. CASE q \in asked[r]
      BY <1>0, <2>4, <3>1 DEF IHeld
    <3>2. CASE q.seq = post.seq
      BY <2>4, <3>2
    <3> QED BY <2>6, <2>7, <3>1, <3>2
  <2> QED BY <2>2, <2>7 DEF IHeld
<1>3. CASE Send \/ HostCall
  BY <1>1, <1>3 DEF Send, HostCall
<1>5. ASSUME NEW p \in Painters, Attach(p) PROVE IHeld'
  BY <1>1, <1>5 DEF Attach
<1>6. CASE Detach \/ Cancel \/ DropSeat \/ ModuleCallback
  BY <1>1, <1>6 DEF Detach, Cancel, DropSeat, ModuleCallback
<1>7. CASE Receive \/ Enter \/ OtherEntry \/ OtherEnds \/ Commit \/ Flush
  BY <1>1, <1>7 DEF Receive, Enter, OtherEntry, OtherEnds, Commit, Flush
<1>8. CASE Acknowledge
  BY <1>0, <1>8 DEF Acknowledge, IHeld, Greater
<1>9. CASE Apply \/ DeliverCallback \/ Close
  BY <1>1, <1>9 DEF Apply, DeliverCallback, Close
<1>10. CASE AdoptPosted
  <2>1. frame_due'.seq = Greater(frame_due.seq, mailbox.frame.seq)
    BY <1>0, <1>10, Merging DEF AdoptPosted
  <2> QED BY <1>0, <1>10, <2>1 DEF AdoptPosted, IHeld, Greater
<1>11. CASE BurstEnds
  BY <1>0, <1>11 DEF BurstEnds, IHeld, Greater, NoPost
<1>12. CASE End
  BY <1>0, <1>12 DEF End, IHeld, Greater, NoPost
<1>13. CASE Gone \/ UNCHANGED vars
  BY <1>1, <1>13 DEF Gone, vars
<1> QED
  BY <1>2, <1>3, <1>5, <1>6, <1>7, <1>8, <1>9, <1>10, <1>11, <1>12, <1>13
     DEF Next, Entry, EntryStep

LEMMA InitInv == Init => IInv
<1> SUFFICES ASSUME Init PROVE IInv
  OBVIOUS
<1>0. Earlier \in Nat /\ 0..Earlier \subseteq Nat
  BY BoundAssumption
<1>1. <<>> \in Seq(Command) /\ Len(<<>>) = 0 /\ NoPost \in FramePost
      /\ NoPost.seq = 0 /\ NoPost.fence = 0
  BY DEF NoPost, FramePost
<1>2. begin_frames_sent \in [Painters -> Nat]
  BY <1>0 DEF Init
<1>3. TypeOK
  <2>1. asked \in [Painters -> SUBSET [seq : Nat, fence : Nat, scroll : Nat]]
    BY DEF Init
  <2>2. [scroll |-> 0, frame |-> NoPost, armed |-> FALSE] \in
          [scroll : Nat, frame : FramePost, armed : BOOLEAN]
    BY <1>1
  <2>3. {moved, callbacks, drained, count, scrolled, ticked, serviced, pending_begin_frame}
          \subseteq Nat
    BY DEF Init
  <2>4. /\ taken \in 0..Len(log) /\ ran \in 0..taken /\ applied \in 0..ran
        /\ log \in Seq(Command) /\ outgoing \in Seq(Command)
    BY <1>1 DEF Init
  <2>5. /\ {seat, token, styled, bound} \subseteq BOOLEAN
        /\ attached \in Painters \cup {NoPainter} /\ main \in MainState
        /\ frame \in Frame \cup {NoFrame}
    BY DEF Init, MainState
  <2>6. mailbox \in [scroll : Nat, frame : FramePost, armed : BOOLEAN] /\ frame_due \in FramePost
    BY <1>1, <2>2 DEF Init
  <2> QED BY <1>2, <2>1, <2>3, <2>4, <2>5, <2>6 DEF TypeOK
<1>4. ICount /\ IFence
  BY <1>1 DEF Init, ICount, IFence, Serving
<1>5. IMoved /\ IAhead /\ IMarker
  BY DEF Init, IMoved, IAhead, IMarker
<1>6. IHeld
  BY DEF Init, IHeld
<1> QED BY <1>3, <1>4, <1>5, <1>6 DEF IInv

LEMMA StepInv == IInv /\ [Next]_vars => IInv'
<1> SUFFICES ASSUME IInv, [Next]_vars PROVE IInv'
  OBVIOUS
<1>1. TypeOK /\ ICount /\ IMoved
  BY DEF IInv
<1>2. TypeOK' /\ ICount' /\ IMoved'
  BY <1>1, TypeStep, CountStep, MovedStep
<1>3. IMarker' /\ IAhead' /\ IFence' /\ IHeld'
  BY MarkerStep, AheadStep, FenceStep, HeldStep
<1> QED BY <1>2, <1>3 DEF IInv

(* The inductive invariant holds in every reachable state, whoever paints: *)
(* what is in the mailbox has its marker on the way, what waits for a      *)
(* fence waits for commands that were sent (link.rs, page.rs).             *)
THEOREM Invariance == Spec => []IInv
<1> QED BY InitInv, StepInv, PTL DEF Spec

(* Once nothing is queued and nothing runs, nothing is left in a mailbox,  *)
(* waiting, or unacknowledged, however posts were merged                   *)
(* (ScrollMailbox::post and take, Page::apply).                            *)
THEOREM NothingIsLeft == Spec => []NothingStranded
<1>1. IInv => NothingStranded
  <2> SUFFICES ASSUME IInv PROVE NothingStranded
    OBVIOUS
  <2> USE DEF IInv
  <2>0. TypeOK
    OBVIOUS
  <2>1. /\ Len(log) \in Nat /\ taken \in Nat /\ ran \in Nat /\ taken <= Len(log)
        /\ applied \in Nat /\ count \in Nat /\ serviced \in Nat
        /\ frame_due \in FramePost /\ frame_due.seq \in Nat /\ frame_due.fence \in Nat
        /\ mailbox.armed \in BOOLEAN
        /\ \A p \in Painters : \A q \in asked[p] : q.seq \in Nat
    BY <2>0, Numbers DEF TypeOK
  <2>2. ASSUME main = "recv", ~Queued, Idle
        PROVE  /\ ~mailbox.armed /\ frame_due = NoPost /\ scrolled = moved
               /\ \A p \in Painters : \A q \in asked[p] : serviced >= q.seq
    <3>1. Serving /\ ran = taken /\ taken = Len(log) /\ count = 0 /\ applied = taken
      BY <2>1, <2>2 DEF Queued, ICount, Serving
    <3>2. ~Marked(Len(log)) /\ ~Owed
      BY <2>1, <2>2, <3>1 DEF Marked, Owed, Idle
    <3>3. ~mailbox.armed /\ mailbox.frame = NoPost /\ mailbox.scroll = 0
      BY <3>2 DEF IMarker
    <3>4. frame_due.seq = 0 /\ frame_due.fence = 0
      BY <2>1, <2>2, <3>1 DEF IFence, Serving
    <3>5. frame_due = NoPost
      BY <2>1, <3>4 DEF FramePost, NoPost
    <3>6. pending_begin_frame = 0 /\ mailbox.frame.seq = 0 /\ scrolled = moved
      BY <2>2, <3>3 DEF IFence, IMoved, NoPost
    <3> QED BY <2>1, <3>3, <3>4, <3>5, <3>6 DEF IHeld
  <2> QED BY <2>0, <2>2 DEF NothingStranded
<1> QED BY <1>1, Invariance, PTL

(* A command that runs finds its pass's scroll state adopted               *)
(* (Painter::publish_scroll before every send).                            *)
THEOREM ScrollGoesFirst == Spec => ScrollFirst
<1>1. IInv /\ [Next]_vars => (ran' # ran => scrolled' >= log[ran'].scroll)
  <2> SUFFICES ASSUME IInv, [Next]_vars, ran' # ran PROVE scrolled' >= log[ran'].scroll
    OBVIOUS
  <2> USE DEF IInv
  <2>0. TypeOK
    OBVIOUS
  <2>1. /\ ran \in Nat /\ taken \in Nat /\ Len(log) \in Nat /\ taken <= Len(log)
        /\ DOMAIN log = 1..Len(log) /\ moved \in Nat /\ scrolled \in Nat
        /\ log \in Seq(Command)
    BY <2>0, Numbers
  <2>2. Apply \/ AdoptPosted
    BY DEF Next, vars, embedder, fifo, page, published, Entry, EntryStep, Pass, BeginFrame, Send,
       HostCall, Attach, Detach, Cancel, DropSeat, ModuleCallback, Receive, Enter, OtherEntry,
       OtherEnds, DeliverCallback, BurstEnds, Flush, Commit, Acknowledge, End, Close, Gone
  <2>3. ran < taken /\ ran' = ran + 1
    BY <2>2 DEF Apply, AdoptPosted
  <2>4. ran' \in DOMAIN log /\ ran' > ran
    BY <2>1, <2>3
  <2> DEFINE next == ran'
  <2>a. next \in DOMAIN log /\ next > ran
    BY <2>4
  <2> HIDE DEF next
  <2>b. log[next] \in Command /\ log[next].scroll <= moved
    BY <2>1, <2>a DEF IMoved
  <2>5. log[ran'].scroll \in Nat /\ log[ran'].scroll <= moved
    BY <2>b DEF Command, next
  <2>6. CASE Apply
    <3>0. log[ran + 1].kind = "update" /\ scrolled' = scrolled
      BY <2>6 DEF Apply
    <3>1. log[ran'].kind = "update" /\ scrolled' = scrolled
      BY <2>3, <3>0
    <3>2. ~Marked(ran')
      <4>1. \A j \in ran + 1 .. ran' : j = ran'
        BY <2>1, <2>3
      <4> QED BY <3>1, <4>1 DEF Marked
    <3>3. log[ran'].scroll <= scrolled
      BY <2>4, <3>2 DEF IAhead
    <3> QED BY <2>1, <2>5, <3>1, <3>3
  <2>7. CASE AdoptPosted
    <3>1. scrolled' = moved
      BY <2>7 DEF AdoptPosted, IMoved
    <3> QED BY <2>1, <2>5, <3>1
  <2> QED BY <2>2, <2>6, <2>7
<1> QED BY <1>1, Invariance, PTL DEF Spec, ScrollFirst

-----------------------------------------------------------------------------
(* With one painter, what an acknowledgement stands for.                   *)

(* What main has done stays done.                                          *)
LEMMA Monotone ==
  ASSUME TypeOK, IMoved, [Next]_vars
  PROVE  /\ ran <= ran' /\ scrolled <= scrolled' /\ ticked <= ticked' /\ serviced <= serviced'
         /\ Len(log) <= Len(log') /\ moved <= moved' /\ (styled => styled') /\ (bound => bound')
         /\ ~Serving => ~Serving'
<1> USE DEF embedder, fifo, page, published
<1>0. /\ {moved, scrolled, ticked, serviced, ran, Len(log), pending_begin_frame} \subseteq Nat
      /\ frame_due.seq \in Nat /\ scrolled <= moved /\ log \in Seq(Command)
  BY Numbers DEF TypeOK, IMoved
<1>1. ASSUME NEW p \in Painters, Pass(p) \/ BeginFrame(p)
      PROVE  /\ moved <= moved'
             /\ UNCHANGED <<ran, scrolled, ticked, serviced, log, styled, bound, main>>
  BY <1>0, <1>1, Passing DEF Posting
<1>2. CASE Send
  <2>1. Head(outgoing) \in Command
    BY <1>2, TailEntry DEF Send, Idle, TypeOK
  <2> QED BY SMTT(30), <1>0, <1>2, <2>1, AppendEntry DEF Send, Serving
<1>3. CASE HostCall
  <2>1. Update(moved) \in Command
    BY <1>0 DEF Update, Command
  <2> QED BY <1>0, <1>3, <2>1, AppendEntry DEF HostCall, Serving
<1>4. ASSUME NEW p \in Painters, Attach(p)
      PROVE  bound' /\ UNCHANGED <<ran, scrolled, ticked, serviced, log, moved, styled, main>>
  BY <1>4 DEF Attach
<1>5. CASE Detach \/ Cancel \/ DropSeat \/ ModuleCallback
  BY <1>0, <1>5 DEF Detach, Cancel, DropSeat, ModuleCallback, Serving
<1>6. CASE Receive \/ Enter \/ OtherEntry \/ OtherEnds \/ Commit \/ Flush
  BY <1>0, <1>6 DEF Receive, Enter, OtherEntry, OtherEnds, Commit, Flush, Serving
<1>7. CASE Apply \/ DeliverCallback \/ Close
  BY <1>0, <1>7 DEF Apply, DeliverCallback, Close, Serving
<1>8. CASE AdoptPosted
  <2>1. scrolled' = moved
    BY <1>8 DEF AdoptPosted, IMoved
  <2> QED BY <1>0, <1>8, <2>1 DEF AdoptPosted, Serving
<1>9. CASE BurstEnds
  BY <1>0, <1>9 DEF BurstEnds, Greater, Serving
<1>10. CASE Acknowledge
  BY <1>0, <1>10 DEF Acknowledge, Greater, Serving
<1>11. CASE End
  BY <1>0, <1>11 DEF End, Greater, Serving
<1>12. CASE Gone \/ UNCHANGED vars
  BY <1>0, <1>12 DEF Gone, vars, Serving
<1> QED
  BY <1>0, <1>1, <1>2, <1>3, <1>4, <1>5, <1>6, <1>7, <1>8, <1>9, <1>10, <1>11, <1>12
     DEF Next, Entry, EntryStep, Serving

(* The frame is committed behind what it shows.                            *)
LEMMA FrameStep == TypeOK /\ ICount /\ IMoved /\ IFrame /\ [Next]_vars => IFrame'
<1> SUFFICES ASSUME TypeOK, ICount, IMoved, IFrame, [Next]_vars PROVE IFrame'
  OBVIOUS
<1> USE DEF embedder, fifo, page, published
<1>0. /\ ran \in Nat /\ scrolled \in Nat /\ ticked \in Nat
      /\ ran' \in Nat /\ scrolled' \in Nat /\ ticked' \in Nat
      /\ ran <= ran' /\ scrolled <= scrolled' /\ ticked <= ticked'
      /\ (styled => styled') /\ (bound => bound')
  <2>1. ran \in Nat /\ scrolled \in Nat /\ ticked \in Nat
    BY Numbers DEF TypeOK
  <2>2. TypeOK'
    BY TypeStep
  <2>3. Len(log') \in Nat /\ taken' \in 0..Len(log') /\ ran' \in 0..taken'
        /\ scrolled' \in Nat /\ ticked' \in Nat
    BY <2>2 DEF TypeOK
  <2> QED BY <2>1, <2>3, Monotone
<1>1. frame # NoFrame => {frame.commands, frame.scroll, frame.tick} \subseteq Nat
  BY DEF TypeOK, Frame
<1>2. ASSUME frame' = frame, main' = "ack" => main = "ack",
             main' = "ack" => UNCHANGED <<ran, scrolled, ticked>> PROVE IFrame'
  BY <1>0, <1>1, <1>2 DEF IFrame, Shown
<1>3. CASE Flush
  BY <1>0, <1>3 DEF Flush, IFrame, Shown
<1>4. CASE Commit
  BY <1>0, <1>4 DEF Commit, IFrame, Shown
<1>5. ASSUME NEW p \in Painters, Pass(p) \/ BeginFrame(p) PROVE IFrame'
  BY <1>2, <1>5, Passing DEF Posting
<1>6. ASSUME NEW p \in Painters, Attach(p) PROVE IFrame'
  BY <1>2, <1>6 DEF Attach
<1>7. CASE Send \/ HostCall \/ Detach \/ Cancel \/ DropSeat \/ ModuleCallback
  BY <1>2, <1>7 DEF Send, HostCall, Detach, Cancel, DropSeat, ModuleCallback
<1>8. CASE Entry \/ OtherEntry \/ OtherEnds \/ Apply \/ AdoptPosted \/ DeliverCallback
  BY <1>2, <1>8 DEF Entry, Receive, Enter, OtherEntry, OtherEnds, Apply, AdoptPosted,
                    DeliverCallback
<1>9. CASE BurstEnds \/ Acknowledge \/ Close \/ End
  BY <1>2, <1>9 DEF BurstEnds, Acknowledge, Close, End
<1>10. CASE Gone \/ UNCHANGED vars
  BY <1>2, <1>10 DEF Gone, vars
<1> QED BY <1>3, <1>4, <1>5, <1>6, <1>7, <1>8, <1>9, <1>10 DEF Next, EntryStep

(* What a pass of the painter's adds to what was asked: nothing, or one    *)
(* request with a number of its own.                                       *)
LEMMA Asking ==
  ASSUME TypeOK, NEW p \in Painters, Painters = {p}, Pass(p) \/ BeginFrame(p)
  PROVE  \E moves \in BOOLEAN, post \in FramePost :
           /\ Posting(moves, post)
           /\ mailbox'.frame.seq = Greater(mailbox.frame.seq, post.seq)
           /\ mailbox'.frame.fence = Greater(mailbox.frame.fence, post.fence)
           /\ moved' \in Nat /\ moved <= moved'
           /\ \/ /\ post.seq = 0 /\ begin_frames_sent'[p] = begin_frames_sent[p]
                 /\ asked'[p] = asked[p]
              \/ /\ post.seq = begin_frames_sent[p] + 1 /\ post.fence = Len(log)
                 /\ begin_frames_sent'[p] = begin_frames_sent[p] + 1
                 /\ \A q \in asked'[p] :
                      \/ q \in asked[p]
                      \/ q.seq = post.seq /\ q.fence = post.fence /\ q.scroll = moved'
<1>1. PICK moves \in BOOLEAN, post \in FramePost :
        /\ Posting(moves, post)
        /\ \/ post = NoPost /\ UNCHANGED <<asked, begin_frames_sent>>
           \/ /\ post.seq = begin_frames_sent[p] + 1 /\ post.fence = Len(log)
              /\ begin_frames_sent' = [begin_frames_sent EXCEPT ![p] = post.seq]
              /\ asked' = [asked EXCEPT ![p] = @ \cup
                   {[seq |-> post.seq, fence |-> post.fence, scroll |-> moved']}]
  BY Passing
<1>2. /\ mailbox'.frame.seq = Greater(mailbox.frame.seq, post.seq)
      /\ mailbox'.frame.fence = Greater(mailbox.frame.fence, post.fence)
      /\ moved' \in Nat /\ moved <= moved'
  <2>1. mailbox'.frame = Merge(mailbox.frame, post)
    BY <1>1 DEF Posting
  <2>2. mailbox.frame \in FramePost
    BY Numbers
  <2>3. moved' \in Nat /\ moved <= moved'
    BY <1>1 DEF Posting
  <2> QED BY <2>1, <2>2, <2>3, Merging
<1>3. CASE post = NoPost /\ UNCHANGED <<asked, begin_frames_sent>>
  BY <1>1, <1>2, <1>3 DEF NoPost
<1>4. CASE ~(post = NoPost /\ UNCHANGED <<asked, begin_frames_sent>>)
  <2> DEFINE new == [seq |-> post.seq, fence |-> post.fence, scroll |-> moved']
  <2>1. new.seq = post.seq /\ new.fence = post.fence /\ new.scroll = moved'
    OBVIOUS
  <2>2. asked' = [asked EXCEPT ![p] = @ \cup {new}]
    BY <1>1, <1>4
  <2> HIDE DEF new
  <2>3. /\ asked \in [Painters -> SUBSET [seq : Nat, fence : Nat, scroll : Nat]]
        /\ begin_frames_sent \in [Painters -> Nat]
    BY DEF TypeOK
  <2>4. \A q \in asked'[p] : q \in asked[p] \/ q = new
    BY <2>2, <2>3
  <2>5. begin_frames_sent'[p] = begin_frames_sent[p] + 1
    BY <1>1, <1>4, <2>3
  <2> QED BY <1>1, <1>2, <1>4, <2>1, <2>4, <2>5
<1> QED BY <1>3, <1>4

(* The numbers of one painter, its requests and what is told of them.      *)
LEMMA Requests ==
  ASSUME TypeOK, NEW p \in Painters
  PROVE  /\ begin_frames_sent[p] \in Nat
         /\ \A q \in asked[p] : q.seq \in Nat /\ q.fence \in Nat /\ q.scroll \in Nat
BY SMTT(30) DEF TypeOK

(* A post is given a number above all that were given before.              *)
LEMMA PostsStep ==
  ASSUME NEW p, Painters = {p}, TypeOK, IMoved, IPosts, [Next]_vars
  PROVE  IPosts'
<1> USE DEF embedder, fifo, page, published
<1>0. p \in Painters
  OBVIOUS
<1>n. /\ moved \in Nat /\ Len(log) \in Nat /\ serviced \in Nat /\ pending_begin_frame \in Nat
      /\ frame_due.seq \in Nat /\ mailbox.frame.seq \in Nat /\ begin_frames_sent[p] \in Nat
      /\ frame_due \in FramePost /\ mailbox.frame \in FramePost
      /\ \A q \in asked[p] : q.seq \in Nat /\ q.fence \in Nat /\ q.scroll \in Nat
  BY <1>0, Numbers, Requests
<1>o. /\ serviced <= begin_frames_sent[p] /\ pending_begin_frame <= begin_frames_sent[p]
      /\ frame_due.seq <= begin_frames_sent[p] /\ mailbox.frame.seq <= begin_frames_sent[p]
      /\ \A q \in asked[p] : /\ 0 < q.seq /\ q.seq <= begin_frames_sent[p]
                             /\ q.fence <= Len(log) /\ q.scroll <= moved
  BY <1>0 DEF IPosts
<1>m. Len(log) <= Len(log') /\ moved <= moved'
  BY Monotone
<1>1. ASSUME UNCHANGED <<serviced, pending_begin_frame, frame_due, mailbox, begin_frames_sent>>,
             UNCHANGED <<asked, log, moved>> PROVE IPosts'
  BY <1>1, <1>o DEF IPosts
<1>2. ASSUME Pass(p) \/ BeginFrame(p) PROVE IPosts'
  <2>1. PICK moves \in BOOLEAN, post \in FramePost :
           /\ Posting(moves, post)
           /\ mailbox'.frame.seq = Greater(mailbox.frame.seq, post.seq)
           /\ mailbox'.frame.fence = Greater(mailbox.frame.fence, post.fence)
           /\ moved' \in Nat /\ moved <= moved'
           /\ \/ /\ post.seq = 0 /\ begin_frames_sent'[p] = begin_frames_sent[p]
                 /\ asked'[p] = asked[p]
              \/ /\ post.seq = begin_frames_sent[p] + 1 /\ post.fence = Len(log)
                 /\ begin_frames_sent'[p] = begin_frames_sent[p] + 1
                 /\ \A q \in asked'[p] :
                      \/ q \in asked[p]
                      \/ q.seq = post.seq /\ q.fence = post.fence /\ q.scroll = moved'
    BY <1>0, <1>2, Asking
  <2>2. UNCHANGED <<serviced, pending_begin_frame, frame_due, log>>
    BY <2>1 DEF Posting
  <2>3. /\ serviced <= begin_frames_sent'[p] /\ pending_begin_frame <= begin_frames_sent'[p]
        /\ frame_due.seq <= begin_frames_sent'[p] /\ mailbox'.frame.seq <= begin_frames_sent'[p]
    BY SMTT(30), <1>n, <1>o, <2>1 DEF Greater
  <2>4. ASSUME NEW q \in asked'[p]
        PROVE  /\ 0 < q.seq /\ q.seq <= begin_frames_sent'[p]
               /\ q.fence <= Len(log) /\ q.scroll <= moved'
    <3>1. CASE q \in asked[p]
      BY SMTT(30), <1>n, <1>o, <2>1, <3>1
    <3>2. CASE q \notin asked[p]
      BY <1>n, <2>1, <3>2
    <3> QED BY <3>1, <3>2
  <2> QED BY <2>2, <2>3, <2>4 DEF IPosts
<1>3. CASE Send
  <2>1. Len(log') \in Nat
    <3>1. Head(outgoing) \in Command
      BY <1>3, TailEntry DEF Send, Idle, TypeOK
    <3> QED BY <1>3, <1>n, <3>1, Numbers, AppendEntry DEF Send
  <2> QED BY <1>3, <1>m, <1>n, <1>o, <2>1 DEF Send, IPosts
<1>4. CASE HostCall
  <2>1. Update(moved) \in Command
    BY <1>n DEF Update, Command
  <2>2. Len(log') \in Nat
    BY <1>4, <1>n, <2>1, Numbers, AppendEntry DEF HostCall
  <2> QED BY <1>4, <1>m, <1>n, <1>o, <2>2 DEF HostCall, IPosts
<1>5. ASSUME Attach(p) PROVE IPosts'
  <2>1. /\ begin_frames_sent'[p] = Greater(begin_frames_sent[p], serviced)
        /\ UNCHANGED <<serviced, pending_begin_frame, frame_due, mailbox, asked, log, moved>>
    BY <1>0, <1>5 DEF Attach, TypeOK
  <2> QED BY <1>n, <1>o, <2>1 DEF IPosts, Greater
<1>6. CASE Detach \/ Cancel \/ DropSeat \/ ModuleCallback
  BY <1>1, <1>6 DEF Detach, Cancel, DropSeat, ModuleCallback
<1>7. CASE Entry \/ OtherEntry \/ OtherEnds \/ Commit \/ Flush
  BY <1>1, <1>7 DEF Entry, Receive, Enter, OtherEntry, OtherEnds, Commit, Flush
<1>8. CASE Apply \/ DeliverCallback \/ Close
  BY <1>1, <1>8 DEF Apply, DeliverCallback, Close
<1>9. CASE AdoptPosted
  <2>1. /\ frame_due'.seq = Greater(frame_due.seq, mailbox.frame.seq) /\ mailbox'.frame.seq = 0
        /\ UNCHANGED <<serviced, pending_begin_frame, begin_frames_sent, asked, log, moved>>
    BY <1>n, <1>9, Merging DEF AdoptPosted, NoPost
  <2> QED BY <1>n, <1>o, <2>1 DEF IPosts, Greater
<1>10. CASE BurstEnds
  <2>1. /\ frame_due'.seq <= begin_frames_sent[p] /\ pending_begin_frame' <= begin_frames_sent[p]
        /\ UNCHANGED <<serviced, mailbox, begin_frames_sent, asked, log, moved>>
    BY <1>n, <1>o, <1>10 DEF BurstEnds, Greater, NoPost
  <2> QED BY <1>o, <2>1 DEF IPosts
<1>11. CASE Acknowledge
  <2>1. /\ serviced' <= begin_frames_sent[p] /\ pending_begin_frame' <= begin_frames_sent[p]
        /\ UNCHANGED <<frame_due, mailbox, begin_frames_sent, asked, log, moved>>
    BY <1>n, <1>o, <1>11 DEF Acknowledge, Greater
  <2> QED BY <1>o, <2>1 DEF IPosts
<1>12. CASE End
  <2>1. /\ serviced' <= begin_frames_sent[p] /\ pending_begin_frame' <= begin_frames_sent[p]
        /\ frame_due'.seq <= begin_frames_sent[p]
        /\ UNCHANGED <<mailbox, begin_frames_sent, asked, log, moved>>
    BY <1>n, <1>o, <1>12 DEF End, Greater, NoPost
  <2> QED BY <1>o, <2>1 DEF IPosts
<1>13. CASE Gone \/ UNCHANGED vars
  BY <1>1, <1>13 DEF Gone, vars
<1> QED
  BY <1>2, <1>3, <1>4, <1>5, <1>6, <1>7, <1>8, <1>9, <1>10, <1>11, <1>12, <1>13
     DEF Next, EntryStep

(* What was taken of a post has happened, and a later post carries the     *)
(* fence of an earlier one that was merged into it.                        *)
LEMMA TakenStep ==
  ASSUME NEW p, Painters = {p}, TypeOK, ICount, IMoved, IPosts, ITaken, [Next]_vars
  PROVE  ITaken'
<1> USE DEF embedder, fifo, page, published
<1>0. p \in Painters
  OBVIOUS
<1>n. /\ moved \in Nat /\ Len(log) \in Nat /\ serviced \in Nat /\ pending_begin_frame \in Nat
      /\ frame_due.seq \in Nat /\ frame_due.fence \in Nat /\ mailbox.frame.seq \in Nat
      /\ mailbox.frame.fence \in Nat /\ begin_frames_sent[p] \in Nat
      /\ frame_due \in FramePost /\ mailbox.frame \in FramePost
      /\ ran \in Nat /\ scrolled \in Nat /\ ticked \in Nat /\ applied \in Nat
      /\ \A q \in asked[p] : q.seq \in Nat /\ q.fence \in Nat /\ q.scroll \in Nat
  BY <1>0, Numbers, Requests
<1>o. /\ serviced <= begin_frames_sent[p] /\ pending_begin_frame <= begin_frames_sent[p]
      /\ frame_due.seq <= begin_frames_sent[p] /\ mailbox.frame.seq <= begin_frames_sent[p]
      /\ \A q \in asked[p] : /\ 0 < q.seq /\ q.seq <= begin_frames_sent[p]
                             /\ q.fence <= Len(log) /\ q.scroll <= moved
  BY <1>0 DEF IPosts
<1>t. \A q \in asked[p] :
        /\ q.seq <= mailbox.frame.seq => q.fence <= mailbox.frame.fence
        /\ q.seq <= frame_due.seq => q.scroll <= scrolled /\ q.fence <= frame_due.fence
        /\ Serving /\ (q.seq <= pending_begin_frame \/ q.seq <= serviced) =>
             q.fence <= ran /\ q.scroll <= scrolled /\ q.seq <= ticked
  BY <1>0 DEF ITaken
<1>m. /\ ran <= ran' /\ scrolled <= scrolled' /\ ticked <= ticked' /\ (~Serving => ~Serving')
      /\ ran' \in Nat /\ scrolled' \in Nat /\ ticked' \in Nat
  <2>1. TypeOK'
    BY TypeStep
  <2>2. Len(log') \in Nat /\ taken' \in 0..Len(log') /\ ran' \in 0..taken'
        /\ scrolled' \in Nat /\ ticked' \in Nat
    BY <2>1 DEF TypeOK
  <2> QED BY <2>2, Monotone
<1>1. ASSUME UNCHANGED <<serviced, pending_begin_frame, frame_due, mailbox, asked>> PROVE ITaken'
  BY SMTT(60), <1>1, <1>n, <1>t, <1>m DEF ITaken
<1>2. ASSUME Pass(p) \/ BeginFrame(p) PROVE ITaken'
  <2>1. PICK moves \in BOOLEAN, post \in FramePost :
           /\ Posting(moves, post)
           /\ mailbox'.frame.seq = Greater(mailbox.frame.seq, post.seq)
           /\ mailbox'.frame.fence = Greater(mailbox.frame.fence, post.fence)
           /\ moved' \in Nat /\ moved <= moved'
           /\ \/ /\ post.seq = 0 /\ begin_frames_sent'[p] = begin_frames_sent[p]
                 /\ asked'[p] = asked[p]
              \/ /\ post.seq = begin_frames_sent[p] + 1 /\ post.fence = Len(log)
                 /\ begin_frames_sent'[p] = begin_frames_sent[p] + 1
                 /\ \A q \in asked'[p] :
                      \/ q \in asked[p]
                      \/ q.seq = post.seq /\ q.fence = post.fence /\ q.scroll = moved'
    BY <1>0, <1>2, Asking
  <2>2. /\ UNCHANGED <<serviced, pending_begin_frame, frame_due, log, main>>
        /\ UNCHANGED <<ran, scrolled, ticked>>
    BY <2>1 DEF Posting
  <2>f. post.fence \in Nat
    BY DEF FramePost
  <2>3. CASE post.seq = 0 /\ asked'[p] = asked[p]
    <3>1. post.fence = 0
      BY <2>1, <2>3 DEF Posting, NoPost
    <3>2. mailbox'.frame.seq = mailbox.frame.seq /\ mailbox'.frame.fence = mailbox.frame.fence
      BY <1>n, <2>1, <2>3, <3>1 DEF Greater
    <3> QED BY <1>t, <2>2, <2>3, <3>2 DEF ITaken, Serving
  <2>4. CASE ~(post.seq = 0 /\ asked'[p] = asked[p])
    <3>1. /\ post.seq = begin_frames_sent[p] + 1 /\ post.fence = Len(log)
          /\ \A q \in asked'[p] : q \in asked[p] \/ (q.seq = post.seq /\ q.fence = post.fence)
      BY <2>1, <2>4
    <3>2. mailbox'.frame.fence >= Len(log) /\ mailbox'.frame.fence \in Nat
      BY <1>n, <2>1, <3>1 DEF Greater
    <3>3. ASSUME NEW q \in asked'[p]
          PROVE  /\ q.seq <= mailbox'.frame.seq => q.fence <= mailbox'.frame.fence
                 /\ q.seq <= frame_due.seq => q.scroll <= scrolled /\ q.fence <= frame_due.fence
                 /\ Serving /\ (q.seq <= pending_begin_frame \/ q.seq <= serviced) =>
                      q.fence <= ran /\ q.scroll <= scrolled /\ q.seq <= ticked
      <4>1. CASE q \in asked[p]
        BY SMTT(30), <1>n, <1>o, <1>t, <3>2, <4>1
      <4>2. CASE q \notin asked[p]
        BY SMTT(60), <1>n, <1>o, <3>1, <3>2, <4>2
      <4> QED BY <4>1, <4>2
    <3> QED BY <2>2, <3>3 DEF ITaken, Serving
  <2> QED BY <2>3, <2>4
<1>3. CASE Send \/ HostCall
  BY <1>1, <1>3 DEF Send, HostCall
<1>5. CASE Attach(p)
  BY <1>1, <1>5 DEF Attach
<1>6. CASE Detach \/ Cancel \/ DropSeat \/ ModuleCallback
  BY <1>1, <1>6 DEF Detach, Cancel, DropSeat, ModuleCallback
<1>7. CASE Entry \/ OtherEntry \/ OtherEnds \/ Commit \/ Flush
  BY <1>1, <1>7 DEF Entry, Receive, Enter, OtherEntry, OtherEnds, Commit, Flush
<1>8. CASE Apply \/ DeliverCallback \/ Close
  BY <1>1, <1>8 DEF Apply, DeliverCallback, Close
<1>9. CASE AdoptPosted
  <2>1. /\ frame_due'.seq = Greater(frame_due.seq, mailbox.frame.seq)
        /\ frame_due'.fence = Greater(frame_due.fence, mailbox.frame.fence)
        /\ mailbox'.frame.seq = 0
        /\ UNCHANGED <<serviced, pending_begin_frame, asked, main>>
    BY <1>n, <1>9, Merging DEF AdoptPosted, NoPost
  <2>2. scrolled' = moved
    BY <1>9 DEF AdoptPosted, IMoved
  <2>3. ASSUME NEW q \in asked[p]
        PROVE  /\ q.seq <= 0 => FALSE
               /\ q.seq <= frame_due'.seq => q.scroll <= scrolled' /\ q.fence <= frame_due'.fence
               /\ Serving /\ (q.seq <= pending_begin_frame \/ q.seq <= serviced) =>
                    q.fence <= ran' /\ q.scroll <= scrolled' /\ q.seq <= ticked'
    <3>1. q.seq > 0 /\ q.scroll <= moved /\ q.seq \in Nat /\ q.fence \in Nat /\ q.scroll \in Nat
      BY <1>n, <1>o
    <3>2. CASE q.seq <= frame_due.seq
      <4>1. q.fence <= frame_due.fence
        BY <1>t, <3>2
      <4> QED BY SMTT(60), <1>n, <1>t, <1>m, <2>1, <2>2, <3>1, <4>1 DEF Greater
    <3>3. CASE ~(q.seq <= frame_due.seq)
      <4>1. q.seq <= frame_due'.seq => q.fence <= mailbox.frame.fence
        BY <1>n, <1>t, <2>1, <3>1, <3>3 DEF Greater
      <4>2. mailbox.frame.fence <= frame_due'.fence /\ frame_due'.fence \in Nat
        BY <1>n, <2>1 DEF Greater
      <4>3. q.seq <= frame_due'.seq => q.fence <= frame_due'.fence
        BY <1>n, <3>1, <4>1, <4>2
      <4>4. Serving /\ (q.seq <= pending_begin_frame \/ q.seq <= serviced) =>
              q.fence <= ran' /\ q.scroll <= scrolled' /\ q.seq <= ticked'
        BY SMTT(30), <1>n, <1>t, <1>m, <3>1
      <4> QED BY <2>2, <3>1, <4>3, <4>4
    <3> QED BY <3>2, <3>3
  <2>4. \A q \in asked'[p] :
          /\ q.seq <= mailbox'.frame.seq => q.fence <= mailbox'.frame.fence
          /\ q.seq <= frame_due'.seq => q.scroll <= scrolled' /\ q.fence <= frame_due'.fence
          /\ Serving' /\ (q.seq <= pending_begin_frame' \/ q.seq <= serviced') =>
               q.fence <= ran' /\ q.scroll <= scrolled' /\ q.seq <= ticked'
    BY <1>m, <2>1, <2>3
  <2> QED BY <2>4 DEF ITaken
<1>10. CASE BurstEnds
  <2>1. UNCHANGED <<serviced, mailbox, asked, ran, scrolled>> /\ applied' = ran /\ Serving
    BY <1>n, <1>10 DEF BurstEnds, ICount, Serving
  <2>2. ASSUME NEW q \in asked[p]
        PROVE  /\ q.seq <= frame_due'.seq => q.scroll <= scrolled /\ q.fence <= frame_due'.fence
               /\ (q.seq <= pending_begin_frame' \/ q.seq <= serviced) =>
                    q.fence <= ran /\ q.scroll <= scrolled /\ q.seq <= ticked'
    <3>1. CASE frame_due.seq # 0 /\ frame_due.fence <= applied'
      <4>1. /\ frame_due' = NoPost /\ ticked' = Greater(frame_due.seq, ticked)
            /\ pending_begin_frame' = Greater(frame_due.seq, pending_begin_frame)
        BY <1>10, <3>1 DEF BurstEnds
      <4>2. ~(q.seq <= frame_due'.seq)
        BY <1>n, <1>o, <4>1 DEF NoPost
      <4> QED BY SMTT(30), <1>n, <1>t, <2>1, <3>1, <4>1, <4>2 DEF Greater
    <3>2. CASE ~(frame_due.seq # 0 /\ frame_due.fence <= applied')
      <4>1. UNCHANGED <<frame_due, pending_begin_frame, ticked>>
        BY <1>10, <3>2 DEF BurstEnds
      <4> QED BY <1>t, <2>1, <4>1
    <3> QED BY <3>1, <3>2
  <2> QED BY <1>t, <2>1, <2>2 DEF ITaken
<1>11. CASE Acknowledge
  <2>1. /\ serviced' = Greater(serviced, pending_begin_frame) /\ pending_begin_frame' = 0
        /\ UNCHANGED <<frame_due, mailbox, asked, ran, scrolled, ticked>> /\ Serving
    BY <1>11 DEF Acknowledge, Serving
  <2>2. ASSUME NEW q \in asked[p], q.seq <= pending_begin_frame' \/ q.seq <= serviced'
        PROVE  q.fence <= ran /\ q.scroll <= scrolled /\ q.seq <= ticked
    BY <1>n, <1>o, <1>t, <2>1, <2>2 DEF Greater
  <2> QED BY <1>t, <2>1, <2>2 DEF ITaken
<1>12. CASE End
  <2>1. UNCHANGED <<mailbox, asked>> /\ ~Serving' /\ frame_due'.seq = 0
    BY <1>12 DEF End, Serving, NoPost
  <2>2. \A q \in asked[p] : ~(q.seq <= 0)
    BY <1>n, <1>o
  <2> QED BY <1>t, <2>1, <2>2 DEF ITaken
<1>13. CASE Gone \/ UNCHANGED vars
  BY <1>1, <1>13 DEF Gone, vars
<1> QED
  BY <1>2, <1>3, <1>5, <1>6, <1>7, <1>8, <1>9, <1>10, <1>11, <1>12, <1>13
     DEF Next, EntryStep

(* An acknowledgement follows the commit that shows what it stands for.    *)
LEMMA AckStep ==
  ASSUME NEW p, Painters = {p}, TypeOK, ICount, IMoved, IFrame, IPosts, ITaken,
         AckMeansApplied, [Next]_vars
  PROVE  AckMeansApplied'
<1> USE DEF embedder, fifo, page, published
<1>0. p \in Painters
  OBVIOUS
<1>n. /\ serviced \in Nat /\ pending_begin_frame \in Nat /\ ran \in Nat /\ scrolled \in Nat
      /\ ticked \in Nat /\ begin_frames_sent[p] \in Nat
      /\ \A q \in asked[p] : q.seq \in Nat /\ q.fence \in Nat /\ q.scroll \in Nat
  BY <1>0, Numbers, Requests
<1>t. \A q \in asked[p] :
        Serving /\ (q.seq <= pending_begin_frame \/ q.seq <= serviced) =>
          q.fence <= ran /\ q.scroll <= scrolled /\ q.seq <= ticked
  BY <1>0 DEF ITaken
<1>a. \A q \in asked[p] : Serving /\ serviced >= q.seq =>
        /\ ran >= q.fence
        /\ frame # NoFrame => /\ frame.commands >= q.fence /\ frame.scroll >= q.scroll
                              /\ frame.tick >= q.seq
  BY <1>0 DEF AckMeansApplied, Serving
<1>m. ran <= ran' /\ ran' \in Nat /\ (~Serving => ~Serving')
  <2>1. TypeOK'
    BY TypeStep
  <2>2. Len(log') \in Nat /\ taken' \in 0..Len(log') /\ ran' \in 0..taken'
    BY <2>1 DEF TypeOK
  <2> QED BY <2>2, Monotone
<1>1. ASSUME UNCHANGED <<serviced, frame, asked>> PROVE AckMeansApplied'
  BY <1>1, <1>n, <1>a, <1>m DEF AckMeansApplied, Serving
<1>2. ASSUME Pass(p) \/ BeginFrame(p) PROVE AckMeansApplied'
  <2>1. PICK moves \in BOOLEAN, post \in FramePost :
           /\ Posting(moves, post)
           /\ mailbox'.frame.seq = Greater(mailbox.frame.seq, post.seq)
           /\ mailbox'.frame.fence = Greater(mailbox.frame.fence, post.fence)
           /\ moved' \in Nat /\ moved <= moved'
           /\ \/ /\ post.seq = 0 /\ begin_frames_sent'[p] = begin_frames_sent[p]
                 /\ asked'[p] = asked[p]
              \/ /\ post.seq = begin_frames_sent[p] + 1 /\ post.fence = Len(log)
                 /\ begin_frames_sent'[p] = begin_frames_sent[p] + 1
                 /\ \A q \in asked'[p] :
                      \/ q \in asked[p]
                      \/ q.seq = post.seq /\ q.fence = post.fence /\ q.scroll = moved'
    BY <1>0, <1>2, Asking
  <2>2. UNCHANGED <<serviced, frame, main, ran>>
    BY <2>1 DEF Posting
  <2>3. serviced <= begin_frames_sent[p]
    BY <1>0 DEF IPosts
  <2>4. \A q \in asked'[p] : serviced >= q.seq => q \in asked[p]
    BY <1>n, <2>1, <2>3
  <2> QED BY <1>a, <2>2, <2>4 DEF AckMeansApplied, Serving
<1>3. CASE Flush \/ Commit
  <2>1. UNCHANGED <<serviced, asked, ran>> /\ Serving /\ (frame' = Shown \/ frame' = frame)
    BY <1>3 DEF Flush, Commit, Serving
  <2>2. Shown.commands = ran /\ Shown.scroll = scrolled /\ Shown.tick = ticked
    BY DEF Shown
  <2> QED BY <1>n, <1>a, <1>t, <2>1, <2>2 DEF AckMeansApplied, Serving
<1>4. CASE Acknowledge
  <2>1. /\ serviced' = Greater(serviced, pending_begin_frame) /\ UNCHANGED <<asked, frame, ran>>
        /\ Serving /\ (frame # NoFrame => frame = Shown)
    BY <1>4 DEF Acknowledge, IFrame, Serving
  <2>2. Shown.commands = ran /\ Shown.scroll = scrolled /\ Shown.tick = ticked
    BY DEF Shown
  <2>3. \A q \in asked[p] : serviced' >= q.seq => q.seq <= pending_begin_frame \/ q.seq <= serviced
    BY <1>n, <2>1 DEF Greater
  <2> QED BY <1>n, <1>t, <2>1, <2>2, <2>3 DEF AckMeansApplied
<1>5. CASE End
  BY <1>5 DEF End, AckMeansApplied
<1>6. CASE Send \/ HostCall \/ Attach(p) \/ Detach \/ Cancel \/ DropSeat \/ ModuleCallback
  BY <1>1, <1>6 DEF Send, HostCall, Attach, Detach, Cancel, DropSeat, ModuleCallback
<1>7. CASE Entry \/ OtherEntry \/ OtherEnds \/ Apply \/ AdoptPosted \/ DeliverCallback
  BY <1>1, <1>7 DEF Entry, Receive, Enter, OtherEntry, OtherEnds, Apply, AdoptPosted,
                    DeliverCallback
<1>8. CASE BurstEnds \/ Close
  BY <1>1, <1>8 DEF BurstEnds, Close
<1>9. CASE Gone \/ UNCHANGED vars
  BY <1>1, <1>9 DEF Gone, vars
<1> QED BY <1>2, <1>3, <1>4, <1>5, <1>6, <1>7, <1>8, <1>9 DEF Next, EntryStep

LEMMA AckInit == Init => IAck
<1> SUFFICES ASSUME Init PROVE IAck
  OBVIOUS
<1>1. IFrame /\ ITaken /\ AckMeansApplied
  BY DEF Init, IFrame, ITaken, AckMeansApplied
<1>2. \A p \in Painters : begin_frames_sent[p] \in Nat
  <2>1. Earlier \in Nat /\ begin_frames_sent \in [Painters -> 0..Earlier]
    BY BoundAssumption DEF Init
  <2> QED BY <2>1
<1>3. IPosts
  <2>1. mailbox.frame.seq = 0 /\ frame_due.seq = 0
    BY DEF Init, NoPost
  <2>2. serviced = 0 /\ pending_begin_frame = 0
    BY DEF Init
  <2>3. \A p \in Painters : asked[p] = {}
    BY DEF Init
  <2>4. ASSUME NEW p \in Painters
        PROVE  /\ 0 <= begin_frames_sent[p]
               /\ \A q \in asked[p] : FALSE
    BY <1>2, <2>3
  <2> QED BY <2>1, <2>2, <2>4 DEF IPosts
<1> QED BY <1>1, <1>3 DEF IAck

(* When one painter observes the view, what it sees acknowledged has run,  *)
(* and the frame it reads with it shows the commands it had sent, its own  *)
(* scroll state and its post's clock (FramePost::fence, Page::apply,       *)
(* RealmOwner::after_boot).                                                *)
THEOREM AcknowledgedIsApplied ==
  ASSUME NEW p, Painters = {p}
  PROVE  Spec => []AckMeansApplied
<1>1. IInv /\ IAck /\ [Next]_vars => IAck'
  <2> SUFFICES ASSUME IInv, IAck, [Next]_vars PROVE IAck'
    OBVIOUS
  <2>1. TypeOK /\ ICount /\ IMoved /\ IFrame /\ IPosts /\ ITaken /\ AckMeansApplied
    BY DEF IInv, IAck
  <2>2. IFrame'
    BY <2>1, FrameStep
  <2>3. IPosts'
    BY <2>1, PostsStep
  <2>4. ITaken'
    BY <2>1, TakenStep
  <2>5. AckMeansApplied'
    BY <2>1, AckStep
  <2> QED BY <2>2, <2>3, <2>4, <2>5 DEF IAck
<1>2. IInv /\ IAck => AckMeansApplied
  BY DEF IAck
<1> QED BY <1>1, <1>2, InitInv, AckInit, StepInv, PTL DEF Spec

==============================================================================
