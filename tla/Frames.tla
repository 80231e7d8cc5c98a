------------------------------- MODULE Frames -------------------------------
(***************************************************************************)
(* The `frame` element: nested cards, each rendered by a ShadowRealm child *)
(* of the view's MTS realm (frame.ts, frame-boot.ts, realm/child.rs, the   *)
(* nested page members and the exposure delivery of runtime/lib.rs).       *)
(*                                                                         *)
(* Realm 0 is the page's; realm c > 0 is the child made for the c-th card. *)
(* Every realm has one frame, so cards nest in a chain.  What runs inside  *)
(* one JavaScript call is the call stack `stack`, one handler per step;    *)
(* promise jobs wait in `jobs`; an entry of the owner is open until both   *)
(* are empty, and ends in the epilogue that frees what nothing needs.      *)
(***************************************************************************)
EXTENDS Naturals, Sequences, FiniteSets

CONSTANTS Srcs,      \* the `src` values application code writes
          NoSrc,
          MaxCards,  \* children the run may create
          MaxDepth,  \* MAX_FRAME_DEPTH
          MaxActs    \* writes, insertions and removals by application code

FramesAssumption ==
    /\ NoSrc \notin Srcs /\ Srcs # {}
    /\ MaxCards \in Nat /\ MaxDepth \in Nat /\ MaxActs \in Nat

Page   == 0
Cards  == 1..MaxCards
Realms == {Page} \cup Cards

VARIABLES
    frame,    \* FrameState of each realm's frame, and whether it is attached
    card,     \* each child: its realm, its nested page, its BTS, its disposal
    asked,    \* fetches whose settle request the epilogue has not taken yet
    flying,   \* fetches counted in flight for their realm
    jobs,     \* promise jobs of the open entry
    stack,    \* calls in progress, the innermost first
    entry,    \* what the owner is running
    events,   \* ComponentEvent::Frame, queued by the document
    batch,    \* the events the open entry delivers
    changes,  \* exposure changes no delivery has taken
    taken,    \* the ones the open delivery has
    pageBts,  \* the page's own background thread
    acts      \* how often application code has acted

vars == <<frame, card, asked, flying, jobs, stack, entry, events, batch,
          changes, taken, pageBts, acts>>

NewFrame == [gen |-> 0, src |-> NoSrc, loaded |-> FALSE, realm |-> 0,
             dispose |-> 0, owed |-> 0, after |-> <<>>, attached |-> FALSE,
             late |-> FALSE]

NewCard == [host |-> Page, gen |-> 0, st |-> "unmade", root |-> FALSE,
            disposed |-> FALSE, pending |-> 0, frames |-> 0, done |-> "none",
            bts |-> "none", retired |-> FALSE, shown |-> FALSE, seen |-> "no",
            wait |-> "no", cut |-> FALSE]

\* The page's entry has written its frame's `src`, which the host holds
\* already, and inserted the frame.
Init ==
    /\ frame = [r \in Realms |-> IF r # Page THEN NewFrame
                  ELSE [NewFrame EXCEPT !.gen = 1, !.src = CHOOSE s \in Srcs : TRUE,
                                        !.loaded = TRUE, !.attached = TRUE]]
    /\ card = [c \in Cards |-> NewCard]
    /\ asked = {} /\ flying = {} /\ jobs = {<<"start", Page, 1>>}
    /\ stack = <<>> /\ entry = "turn"
    /\ events = <<<<Page, TRUE>>>> /\ batch = <<>>
    /\ changes = {} /\ taken = {}
    /\ pageBts = "live" /\ acts = 0

-----------------------------------------------------------------------------
(* The tree of realms. *)

Alive(r) == r # Page => card[r].st \notin {"unmade", "freed"}

\* A realm's frame is a live node: a card's goes with its nested page.
FrameLives(r) == r # Page => card[r].root

\* How many frames deep a card of r's frame would sit (frame_depth).
Depth == LET up[r \in Realms] ==
               IF r = Page THEN 1
               ELSE IF card[r].host < r THEN 1 + up[card[r].host] ELSE 1
         IN up

Connected == LET up[r \in Realms] ==
                   /\ frame[r].attached
                   /\ FrameLives(r)
                   /\ r # Page => card[r].host < r /\ up[card[r].host]
             IN up

\* The cards whose nodes lie under r's frame: the least set that holds the
\* frame's own and, with a card, those of its frame.
Nests(r, S) == \A k \in Cards :
                 card[k].root /\ (card[k].host = r \/ card[k].host \in S) => k \in S
Under(r) == {c \in Cards : \A S \in SUBSET Cards : Nests(r, S) => c \in S}

Top == Head(stack)
Pop == Tail(stack)
Quiet == stack = <<>> /\ jobs = {}

\* The flushes of a delivery are queued before anything else its checkpoint
\* runs, and a checkpoint runs its jobs in order.
Flushed == stack = <<>> /\ \A c \in Cards : <<"flush", c, 0>> \notin jobs

-----------------------------------------------------------------------------
(* Application code: in a turn of its own, in a listener the host calls,   *)
(* or in a `load` listener inside a card's boot.                           *)

AppMayRun(r) ==
    /\ acts < MaxActs
    /\ Alive(r) /\ FrameLives(r)
    /\ r # Page => card[r].st \in {"booting", "booted"}
    /\ \/ Flushed /\ entry \in {"turn", "listen"}
       \/ stack # <<>> /\ Top[1] = "loading"

\* frameSourceChanged: only a new value does anything.
SetSrc(r, s) ==
    /\ AppMayRun(r)
    /\ s # frame[r].src
    /\ acts' = acts + 1
    /\ IF frame[r].src = NoSrc
       THEN /\ stack' = <<<<"source", r, s>>>> \o stack
            /\ UNCHANGED frame
       ELSE /\ stack' = <<<<"close", r, "reset">>, <<"source", r, s>>>> \o stack
            /\ frame' = [frame EXCEPT ![r].owed = @ + 1]
    /\ UNCHANGED <<card, asked, flying, jobs, entry, events, batch, changes,
                   taken, pageBts>>

\* The frame is inserted or removed: the component queues one event for it
\* and one for every frame under it, if its parent is connected.
Move(r) ==
    /\ AppMayRun(r)
    /\ acts' = acts + 1
    /\ LET to == ~frame[r].attached
           inner == {c \in Under(r) : frame[c].attached}
       IN /\ frame' = [frame EXCEPT ![r].attached = to]
          /\ IF r = Page \/ Connected[card[r].host]
             THEN \E along \in [1..Cardinality(inner) -> inner] :
                    /\ \A i, j \in DOMAIN along : i < j => along[i] < along[j]
                    /\ events' = events \o <<<<r, to>>>>
                                   \o [i \in DOMAIN along |-> <<along[i], to>>]
             ELSE UNCHANGED events
    /\ UNCHANGED <<card, asked, flying, jobs, stack, entry, batch, changes,
                   taken, pageBts>>

-----------------------------------------------------------------------------
(* bobcat:frame, one action per function. *)

\* History: the realm's card had been let go of when its frame was loaded.
LetGo(r) == r # Page /\ card[r].disposed

\* load: a new generation, started by a job when the source is held already,
\* its fetch asked for otherwise.  One that cannot be asked for never lands.
LoadFrom(r, s) ==
    LET g == frame[r].gen + 1 IN
    /\ frame' = [frame EXCEPT ![r].gen = g, ![r].loaded = TRUE, ![r].src = s,
                              ![r].late = @ \/ LetGo(r)]
    /\ \/ jobs' = jobs \cup {<<"start", r, g>>} /\ UNCHANGED asked
       \/ asked' = asked \cup {<<r, g>>} /\ UNCHANGED jobs
    /\ stack' = Pop
    /\ UNCHANGED <<card, flying, entry, events, batch, changes, taken, pageBts, acts>>

Source == stack # <<>> /\ Top[1] = "source" /\ LoadFrom(Top[2], Top[3])

\* A card let go of still owes its last list.
Owes(r) == frame[r].owed > 0

\* start: stale loads stop here; a frame that still owes its reset keeps the
\* start until then; startFrame makes the child and imports its boot.
Start ==
    /\ stack # <<>> /\ Top[1] = "start"
    /\ LET r == Top[2]
           g == Top[3]
           fresh == {c \in Cards : card[c].st = "unmade"} IN
       IF g # frame[r].gen
       THEN stack' = Pop /\ UNCHANGED <<frame, card, jobs>>
       ELSE IF Owes(r)
       THEN /\ stack' = Pop
            /\ frame' = [frame EXCEPT ![r].after = Append(@, <<"start", r, g>>)]
            /\ UNCHANGED <<card, jobs>>
       ELSE IF fresh = {}               \* the bound MaxCards
       THEN stack' = Pop /\ UNCHANGED <<frame, card, jobs>>
       ELSE LET c == CHOOSE x \in fresh : \A y \in fresh : x <= y IN
            /\ stack' = Pop
            /\ card' = [card EXCEPT ![c].st = "made", ![c].host = r, ![c].gen = g]
            /\ frame' = [frame EXCEPT ![r].realm = c]
            /\ jobs' = jobs \cup {<<"boot", c, 0>>}
    /\ UNCHANGED <<asked, flying, entry, events, batch, changes, taken, pageBts, acts>>

\* The frame still wants the load this card was made for.
AlwaysCurrent(c) == TRUE
Current(c) == card[c].gen = frame[card[c].host].gen

\* The imports settled: boot, which framePage refuses for a frame too deep
\* or freed.  Otherwise the card's root builds its tree, its own frame in it,
\* and its `load` is dispatched.
Boot(c) ==
    /\ Flushed /\ <<"boot", c, 0>> \in jobs
    /\ jobs' = jobs \ {<<"boot", c, 0>>}
    /\ LET r == card[c].host
           current == Current(c)
           boots == current /\ FrameLives(r) /\ Depth[r] <= MaxDepth IN
       /\ frame' = [q \in Realms |->
            IF q = r /\ current THEN [frame[r] EXCEPT !.dispose = c]
            ELSE IF q = c /\ boots THEN [frame[c] EXCEPT !.attached = TRUE]
            ELSE frame[q]]
       /\ events' = IF boots /\ Connected[r] THEN Append(events, <<c, TRUE>>) ELSE events
       /\ stack' = IF boots THEN <<<<"loading", c, 0>>>> ELSE stack
       /\ card' = IF boots
                  THEN [card EXCEPT ![c].st = "booting", ![c].root = TRUE]
                  ELSE IF current THEN [card EXCEPT ![c].st = "refused"] ELSE card
    /\ UNCHANGED <<asked, flying, entry, batch, changes, taken, pageBts, acts>>

\* The load listeners returned: a card let go of meanwhile stops there,
\* any other connects its BTS and renders.
Loaded ==
    /\ stack # <<>> /\ Top[1] = "loading"
    /\ stack' = Pop
    /\ card' = [card EXCEPT ![Top[2]] =
                  IF @.disposed THEN [@ EXCEPT !.st = "refused"]
                  ELSE [@ EXCEPT !.st = "booted", !.bts = "live"]]
    /\ UNCHANGED <<frame, asked, flying, jobs, entry, events, batch, changes,
                   taken, pageBts, acts>>

\* close: every load of the frame is stale, and its card is disposed of,
\* with the continuation the caller named.
Close ==
    /\ stack # <<>> /\ Top[1] = "close"
    /\ LET r == Top[2]
           c == frame[r].dispose IN
       /\ frame' = [frame EXCEPT ![r].gen = @ + 1, ![r].loaded = FALSE,
                                 ![r].dispose = 0, ![r].realm = 0]
       /\ IF c = 0
          THEN stack' = <<<<Top[3], r, 0>>>> \o Pop /\ UNCHANGED card
          ELSE /\ stack' = <<<<"dispose", c, 0>>>> \o Pop
               /\ card' = [card EXCEPT ![c].done = Top[3]]
    /\ UNCHANGED <<asked, flying, jobs, entry, events, batch, changes, taken, pageBts, acts>>

\* teardown's continuation: the last one owed resets the nested page, and
\* whatever waited for the reset runs.
Reset ==
    /\ stack # <<>> /\ Top[1] = "reset"
    /\ LET r == Top[2]
           last == frame[r].owed = 1
           gone == IF last /\ FrameLives(r) THEN Under(r) ELSE {} IN
       /\ frame' = [q \in Realms |->
            IF q = r THEN [frame[r] EXCEPT !.owed = @ - 1,
                                           !.after = IF last THEN <<>> ELSE @]
            ELSE IF q \in gone THEN [frame[q] EXCEPT !.attached = FALSE]
            ELSE frame[q]]
       /\ card' = [c \in Cards |->
            IF c \in gone THEN [card[c] EXCEPT !.root = FALSE, !.shown = FALSE]
            ELSE card[c]]
       /\ stack' = (IF last THEN frame[r].after ELSE <<>>) \o Pop
    /\ UNCHANGED <<asked, flying, jobs, entry, events, batch, changes, taken, pageBts, acts>>

\* __BobcatCloseFrames without a continuation, as the page closes.
Nothing ==
    /\ stack # <<>> /\ Top[1] = "nothing"
    /\ stack' = Pop
    /\ UNCHANGED <<frame, card, asked, flying, jobs, entry, events, batch,
                   changes, taken, pageBts, acts>>

-----------------------------------------------------------------------------
(* bobcat:frame-boot's dispose, in the card's realm. *)

\* The stop queued a record, its element being recorded as exposed, so the
\* card waits for the delivery.
WaitsForNone(c) == FALSE
Waits(c) == card[c].shown

\* switchExposure queues the last records, __BobcatCloseFrames lets go of
\* the card's own frame, and the card waits for both.  `cut` is history: the
\* delivery that let go of the card held a disappearance of it already.
Dispose ==
    /\ stack # <<>> /\ Top[1] = "dispose"
    /\ LET c == Top[2]
           mine == IF frame[c].loaded THEN 1 ELSE 0 IN
       /\ changes' = IF card[c].shown THEN changes \cup {<<c, FALSE>>} ELSE changes
       /\ card' = [card EXCEPT ![c].disposed = TRUE, ![c].shown = FALSE,
                               ![c].pending = 2, ![c].frames = 1 + mine,
                               ![c].cut = <<c, FALSE>> \in taken]
       /\ stack' = (IF mine = 1 THEN <<<<"close", c, "frames">>>> ELSE <<>>)
                     \o <<<<"owing", c, 0>>, <<"frames", c, 0>>>>
                     \o <<<<IF Waits(c) THEN "records" ELSE "arrive", c, 0>>>>
                     \o Pop
    /\ UNCHANGED <<frame, asked, flying, jobs, entry, events, batch, taken, pageBts, acts>>

\* A card let go of earlier whose last list is owed is waited for as well.
Owing ==
    /\ stack # <<>> /\ Top[1] = "owing"
    /\ LET c == Top[2] IN
       IF frame[c].owed > 0
       THEN /\ frame' = [frame EXCEPT ![c].after = Append(@, <<"frames", c, 0>>)]
            /\ card' = [card EXCEPT ![c].frames = @ + 1]
       ELSE UNCHANGED <<frame, card>>
    /\ stack' = Pop
    /\ UNCHANGED <<asked, flying, jobs, entry, events, batch, changes, taken, pageBts, acts>>

\* One of the cards waited for has posted its last list.
FramesArrive ==
    /\ stack # <<>> /\ Top[1] = "frames"
    /\ LET c == Top[2] IN
       /\ card' = [card EXCEPT ![c].frames = @ - 1]
       /\ stack' = (IF card[c].frames = 1 THEN <<<<"arrive", c, 0>>>> ELSE <<>>) \o Pop
    /\ UNCHANGED <<frame, asked, flying, jobs, entry, events, batch, changes,
                   taken, pageBts, acts>>

\* __BobcatAfterExposureRecords: wait for the first flush scheduled later.
AwaitRecords ==
    /\ stack # <<>> /\ Top[1] = "records"
    /\ card' = [card EXCEPT ![Top[2]].wait = "next"]
    /\ stack' = Pop
    /\ UNCHANGED <<frame, asked, flying, jobs, entry, events, batch, changes,
                   taken, pageBts, acts>>

\* Both arrived: the BTS is asked to dispose of itself, or the realm closes
\* at once when there is none to ask, and the parent's continuation runs.
Arrive ==
    /\ stack # <<>> /\ Top[1] = "arrive"
    /\ LET c == Top[2]
           r == card[c].host
           last == card[c].pending = 1 IN
       /\ card' = [card EXCEPT ![c].pending = @ - 1,
                     ![c].bts = IF last /\ @ = "live" THEN "asked" ELSE @]
       /\ jobs' = IF last /\ card[c].bts # "live"
                  THEN jobs \cup {<<"closeRealm", c, 0>>} ELSE jobs
       /\ stack' = (IF last /\ Alive(r) THEN <<<<card[c].done, r, 0>>>> ELSE <<>>) \o Pop
    /\ UNCHANGED <<frame, asked, flying, entry, events, batch, changes, taken, pageBts, acts>>

-----------------------------------------------------------------------------
(* Promise jobs. *)

RunStart(r, g) ==
    /\ Flushed /\ <<"start", r, g>> \in jobs
    /\ jobs' = jobs \ {<<"start", r, g>>}
    /\ stack' = <<<<"start", r, g>>>>
    /\ UNCHANGED <<frame, card, asked, flying, entry, events, batch, changes,
                   taken, pageBts, acts>>

\* flushExposureRecords: the lists are posted to the card's BTS, then the
\* callback waiting for this flush runs.
Flush(c) ==
    /\ stack = <<>> /\ <<"flush", c, 0>> \in jobs
    /\ jobs' = jobs \ {<<"flush", c, 0>>}
    /\ card' = [card EXCEPT ![c].wait = IF @ = "due" THEN "no" ELSE @]
    /\ stack' = IF card[c].wait = "due" THEN <<<<"arrive", c, 0>>>> ELSE <<>>
    /\ UNCHANGED <<frame, asked, flying, entry, events, batch, changes, taken, pageBts, acts>>

CloseRealm(c) ==
    /\ Flushed /\ <<"closeRealm", c, 0>> \in jobs
    /\ jobs' = jobs \ {<<"closeRealm", c, 0>>}
    /\ card' = [card EXCEPT ![c].retired = TRUE]
    /\ UNCHANGED <<frame, asked, flying, stack, entry, events, batch, changes,
                   taken, pageBts, acts>>

-----------------------------------------------------------------------------
(* ChildRealms::release_unneeded. *)

\* Something of another realm holds c, when the realms `gone` are freed: the
\* frame state of its host, or the continuation a card of its own was given.
Referenced(c, gone) ==
    \/ card[c].host \notin gone /\ frame[card[c].host].realm = c
    \/ \E k \in Cards : /\ k \notin gone /\ card[k].host = c
                        /\ Alive(k) /\ card[k].pending > 0

\* A worker of the child's is still running (ChildHostState::is_busy).
NeverBusy(c) == FALSE
IsBusy(c) == card[c].bts \in {"live", "asked"}

Unneeded(c, gone, loads) ==
    /\ \A f \in loads : f[1] # c
    /\ ~Referenced(c, gone)
    /\ ~IsBusy(c)

\* One child's release can leave another unreferenced, so the passes end at
\* the least set of realms that leaves none.
Gone(S, loads) == \A c \in Cards :
    ~Alive(c) \/ card[c].retired \/ Unneeded(c, S, loads) => c \in S
Releasable(loads) ==
    {c \in Cards : Alive(c) /\ \A S \in SUBSET Cards : Gone(S, loads) => c \in S}

\* `loads` are the ones counted in flight.
Release(loads) ==
    card' = [c \in Cards |-> IF c \in Releasable(loads)
                             THEN [card[c] EXCEPT !.st = "freed"] ELSE card[c]]

-----------------------------------------------------------------------------
(* The owner's entries. *)

Enter(kind) == entry = "idle" /\ entry' = kind

OpenTurn ==
    /\ Enter("turn") /\ acts < MaxActs
    /\ UNCHANGED <<frame, card, asked, flying, jobs, stack, events, batch,
                   changes, taken, pageBts, acts>>

\* dispatch_component_events, one event after the other.
OpenEvents ==
    /\ Enter("events") /\ events # <<>>
    /\ batch' = events /\ events' = <<>>
    /\ UNCHANGED <<frame, card, asked, flying, jobs, stack, changes, taken, pageBts, acts>>

\* frameConnectionChanged: the realm holding the frame's handle hears it.
Hear ==
    /\ entry = "events" /\ batch # <<>>
    /\ entry' = "heard"
    /\ LET r == Head(batch)[1]
           hears == /\ FrameLives(r) /\ Alive(r)
                    /\ r # Page => ~card[r].retired IN
       IF hears /\ Head(batch)[2] /\ frame[r].src # NoSrc /\ ~frame[r].loaded
       THEN stack' = <<<<"source", r, frame[r].src>>>> /\ UNCHANGED frame
       ELSE IF hears /\ ~Head(batch)[2] /\ frame[r].loaded
       THEN /\ stack' = <<<<"close", r, "reset">>>>
            /\ frame' = [frame EXCEPT ![r].owed = @ + 1]
       ELSE UNCHANGED <<stack, frame>>
    /\ UNCHANGED <<card, asked, flying, jobs, events, batch, changes, taken, pageBts, acts>>

\* The dispatch has returned and its jobs have run; a disconnection frees
\* what it retired before the next event.
Heard ==
    /\ entry = "heard" /\ Quiet
    /\ entry' = "events" /\ batch' = Tail(batch)
    /\ IF Head(batch)[2] THEN UNCHANGED card ELSE Release(flying)
    /\ UNCHANGED <<frame, asked, flying, jobs, stack, events, changes, taken, pageBts, acts>>

\* notify_intersection_observers: what the observers saw is judged against
\* each registration, a stopped one's ignored; the listeners run first, ...
Judged(c) == /\ card[c].seen # "no" /\ card[c].root /\ ~card[c].disposed
             /\ card[c].shown # (card[c].seen = "in")

OpenRecords ==
    /\ Enter("listen")
    /\ changes # {} \/ \E c \in Cards : card[c].seen # "no"
    /\ taken' = changes \cup {<<c, ~card[c].shown>> : c \in {k \in Cards : Judged(k)}}
    /\ changes' = {}
    /\ card' = [c \in Cards |-> [card[c] EXCEPT !.seen = "no",
                                  !.shown = IF Judged(c) THEN ~@ ELSE @]]
    /\ UNCHANGED <<frame, asked, flying, jobs, stack, events, batch, pageBts, acts>>

\* ... then every record, those the listeners queued included: each realm
\* reached schedules one flush.
Record ==
    /\ entry = "listen" /\ Quiet
    /\ LET reached == {c \in Cards : /\ \E b \in BOOLEAN : <<c, b>> \in taken \cup changes
                                     /\ card[c].root /\ Alive(c) /\ ~card[c].retired} IN
       /\ jobs' = {<<"flush", c, 0>> : c \in reached}
       /\ card' = [c \in Cards |->
            IF c \in reached /\ card[c].wait = "next"
            THEN [card[c] EXCEPT !.wait = "due"] ELSE card[c]]
    /\ changes' = {} /\ taken' = {}
    /\ entry' = "turn"
    /\ UNCHANGED <<frame, asked, flying, stack, events, batch, pageBts, acts>>

\* A fetch lands: its realm hears it if it is still there.
FetchLands(r, g) ==
    /\ Enter("turn") /\ <<r, g>> \in flying
    /\ flying' = flying \ {<<r, g>>}
    /\ \/ Alive(r) /\ stack' = <<<<"start", r, g>>>>
       \/ UNCHANGED stack                    \* it failed, or its realm is freed
    /\ UNCHANGED <<frame, card, asked, jobs, events, batch, changes, taken, pageBts, acts>>

\* The BTS acknowledged its disposal, or ended instead of answering: either
\* settles __BobcatDispose, and the realm closes.
Acknowledged(c) ==
    /\ entry \in {"idle", "ended"} /\ Quiet
    /\ card[c].bts = "asked" /\ Alive(c)
    /\ entry' = IF entry = "idle" THEN "turn" ELSE entry
    /\ card' = [card EXCEPT ![c].bts = "ended"]
    /\ jobs' = {<<"closeRealm", c, 0>>}
    /\ UNCHANGED <<frame, asked, flying, stack, events, batch, changes, taken, pageBts, acts>>

\* A card's BTS ends of itself: it failed, or it closed.
BtsEnds(c) ==
    /\ Enter("turn")
    /\ card[c].bts = "live" /\ Alive(c)
    /\ card' = [card EXCEPT ![c].bts = "ended"]
    /\ UNCHANGED <<frame, asked, flying, jobs, stack, events, batch, changes,
                   taken, pageBts, acts>>

\* The epilogue: requests are taken, then what nothing needs is freed.
Epilogue ==
    /\ entry \in {"turn", "events"} /\ batch = <<>> /\ Quiet
    /\ entry' = "idle"
    /\ flying' = flying \cup asked /\ asked' = {}
    /\ Release(flying \cup asked)
    /\ UNCHANGED <<frame, jobs, stack, events, batch, changes, taken, pageBts, acts>>

\* The observation update of an epilogue finds a card's element in view, or
\* no longer in the document, and queues the observer's entry.
Observe(c) ==
    /\ entry = "idle"
    /\ card[c].st = "booted" /\ card[c].root
    /\ LET now == IF Connected[card[c].host] THEN "in" ELSE "out" IN
       /\ now # (IF card[c].seen # "no" THEN card[c].seen
                 ELSE IF card[c].shown THEN "in" ELSE "out")
       /\ card' = [card EXCEPT ![c].seen = now]
    /\ UNCHANGED <<frame, asked, flying, jobs, stack, entry, events, batch,
                   changes, taken, pageBts, acts>>

\* begin_dispose, once the view has ended: the page's cards are let go of,
\* then its own BTS is asked.  No entry opens again; only what the workers
\* say is delivered.
BeginDispose ==
    /\ entry = "idle"
    /\ entry' = "ended"
    /\ stack' = (IF frame[Page].loaded THEN <<<<"close", Page, "nothing">>>> ELSE <<>>)
                  \o <<<<"askPage", Page, 0>>>>
    /\ UNCHANGED <<frame, card, asked, flying, jobs, events, batch, changes,
                   taken, pageBts, acts>>

AskPage ==
    /\ stack # <<>> /\ Top[1] = "askPage"
    /\ pageBts' = "asked" /\ stack' = Pop
    /\ UNCHANGED <<frame, card, asked, flying, jobs, entry, events, batch,
                   changes, taken, acts>>

-----------------------------------------------------------------------------
Calls == \/ Source \/ Start \/ Loaded \/ Close \/ Reset \/ Nothing
         \/ Dispose \/ Owing \/ FramesArrive \/ AwaitRecords \/ Arrive \/ AskPage

Jobs == \/ \E c \in Cards : Boot(c) \/ Flush(c) \/ CloseRealm(c)
        \/ \E r \in Realms : \E g \in 0..frame[r].gen : RunStart(r, g)

Entries == \/ OpenEvents \/ Hear \/ Heard \/ OpenRecords \/ Record \/ Epilogue
           \/ \E c \in Cards : Acknowledged(c)
           \/ \E r \in Realms : \E g \in 0..frame[r].gen : FetchLands(r, g)

App == \E r \in Realms : Move(r) \/ \E s \in Srcs : SetSrc(r, s)

Next == \/ Calls \/ Jobs \/ Entries \/ App \/ OpenTurn \/ BeginDispose
        \/ \E c \in Cards : BtsEnds(c) \/ Observe(c)

Spec == Init /\ [][Next]_vars

-----------------------------------------------------------------------------
TypeOK ==
    /\ \A r \in Realms :
         /\ frame[r].gen \in Nat /\ frame[r].src \in Srcs \cup {NoSrc}
         /\ frame[r].realm \in Realms /\ frame[r].dispose \in {0, frame[r].realm}
         /\ frame[r].owed \in Nat
    /\ \A c \in Cards :
         /\ card[c].st \in {"unmade", "made", "booting", "booted", "refused", "freed"}
         /\ card[c].pending \in 0..2 /\ card[c].frames \in 0..3
         /\ card[c].done \in {"none", "reset", "frames", "nothing"}
         /\ card[c].bts \in {"none", "live", "asked", "ended"}
         /\ card[c].wait \in {"no", "next", "due"}
    /\ asked \cup flying \subseteq Realms \X Nat
    /\ changes \cup taken \subseteq Cards \X BOOLEAN

\* A card boots into a page of its own: no nodes of an earlier card of the
\* frame are left beside it, and they are nodes of a frame still there.
Fresh(c) == /\ FrameLives(card[c].host)
            /\ \A d \in Cards \ {c} : card[d].root => card[d].host # card[c].host
CardsMeetNoOther == \A c \in Cards : card[c].root => Fresh(c)

\* The same, but for a frame loaded again by a card already let go of.
FreshPage == TypeOK /\ \A c \in Cards : card[c].root => Fresh(c) \/ frame[card[c].host].late

\* A card's last `disexposure` list is posted to its BTS before the BTS is
\* asked to dispose of itself.
Done(c) == card[c].disposed /\ card[c].pending = 0 /\ card[c].st # "freed"
Posted(c) == /\ <<c, FALSE>> \notin changes \cup taken
             /\ <<"flush", c, 0>> \notin jobs

LastListFirst == \A c \in Cards : Done(c) => Posted(c)

\* The same, but for a card let go of by a listener of the very delivery
\* that holds its disappearance.
LastListPosted == \A c \in Cards : Done(c) /\ ~card[c].cut => Posted(c)

\* A running card is one its frame holds and will let go of, with the same
\* exception, which is one for all that nests in such a frame: once the card
\* let go of and the one it loaded are freed, nothing disposes of the rest.
Orphan(c) == /\ stack = <<>>
             /\ card[c].st = "booted" /\ ~card[c].disposed
             /\ Alive(card[c].host) => frame[card[c].host].dispose # c
Lags(S) == \A r \in Realms :
             frame[r].late \/ (r # Page /\ card[r].host \in S) => r \in S
Belated == {r \in Realms : \A S \in SUBSET Realms : Lags(S) => r \in S}
NoOrphan == \A c \in Cards : Orphan(c) => card[c].host \in Belated

\* Each card's BTS has its `dispose` queued ahead of the page's own.
CardsFirst == pageBts = "asked" => \A c \in Cards : Alive(c) => card[c].bts # "live"

\* Whoever waits will be told: a card waiting for its last list has records
\* queued at nodes still there, or their flush scheduled; one waiting for its
\* frame's card, and a frame that owes its reset, have such a card waiting in
\* turn; and what waits for a reset has one owed.  Not once a card whose BTS
\* had ended was freed before it could answer, as nothing else kept it, nor
\* once a card already let go of loaded its frame again.
Spoiled == \/ \E c \in Cards : /\ card[c].st = "freed" /\ card[c].pending > 0
                               /\ card[c].bts = "ended"
           \/ \E r \in Realms : frame[r].late
Below(r) == {c \in Cards : card[c].host = r /\ Alive(c) /\ card[c].pending > 0}

WaitersAreTold == stack = <<>> /\ ~Spoiled =>
    /\ \A c \in Cards : card[c].pending > 0 =>
         /\ Alive(c)
         /\ card[c].wait = "next" => card[c].root /\ <<c, FALSE>> \in changes \cup taken
         /\ card[c].wait = "due" => <<"flush", c, 0>> \in jobs
         /\ card[c].wait = "no" => card[c].frames > 0
         /\ card[c].frames > 0 => Below(c) # {}
    /\ \A r \in Realms : Alive(r) =>
         /\ frame[r].owed > 0 => \E c \in Below(r) : card[c].done = "reset"
         /\ frame[r].after # <<>> => frame[r].owed > 0
=============================================================================
