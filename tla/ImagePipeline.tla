---------------------------- MODULE ImagePipeline ----------------------------
(***************************************************************************)
(* The pictures of bobcat-resources (images.rs, cache/memory.rs,           *)
(* executor.rs): views name sources and hand over documents, one job each  *)
(* fetches, decodes or parses on the executor, the completions are applied *)
(* in the embedder's turn, and what is decoded lives in a cache under a    *)
(* budget whose pinned part is the frame being drawn.                      *)
(*                                                                         *)
(* A bitmap's size stands for its pixels and its bytes alike.              *)
(***************************************************************************)
EXTENDS Naturals, Sequences, FiniteSets

CONSTANTS
  Views,
  Sources,    \* what pages name by URL
  Documents,  \* what pages write themselves, under a synthetic name
  Full,       \* an image's intrinsic size
  First,      \* initial_decode_bound
  Budgets,    \* what the cache is made with and set_budget is called with
  Permits,    \* the executor's decode permits
  MaxActs     \* bound: requests, draws, frames and budgets, in all

(* Assumed where the module is instantiated: a name a page does not write  *)
(* is no document's.                                                       *)
ImagesAssumption ==
  /\ Sources \cap Documents = {} /\ Sources # {} /\ IsFiniteSet(Sources)
  /\ Full \in Nat /\ First \in 1..Full
  /\ Budgets \subseteq Nat /\ Permits \in Nat /\ MaxActs \in Nat

VARIABLES
  entries,     \* [Sources -> ImageState.entries], "none" where there is none
  waiters,     \* [Sources -> who waits in Entry::Loading]
  refining,    \* [Sources -> Loaded.refining], 0 for None
  bitmaps,     \* [Sources -> the size of the resident bitmap, 0 for none]
  older,       \* which resident source was used before which (last_used)
  pinned, budget,
  fresh,       \* the source inserted last
  requested,   \* ImageState.requested: documents with the views that asked
  jobs,        \* the tasks on the driver
  permits,     \* of the executor's decode semaphore
  completions, \* the tasks' channel
  turn,        \* what service has drained and not applied
  lost,        \* names whose task the platform refused a thread
  asked, told, \* [Views -> [Names -> how often]]
  acts

Names == Sources \cup Documents
cache == <<bitmaps, older, pinned, budget, fresh>>
table == <<entries, waiters, refining, requested>>
driver == <<jobs, permits, lost>>
channel == <<completions, turn>>
reports == <<asked, told>>
vars == <<entries, waiters, refining, bitmaps, older, pinned, budget, fresh, requested, jobs,
          permits, completions, turn, lost, asked, told, acts>>

Sizes == 1..Full
Job ==
  [kind : {"load", "refine", "document"}, name : Names, size : 0..Full, n : 0..MaxActs,
   stage : {"bytes", "permit", "decode", "done"},
   payload : {"raster", "vector", "failed"}]
Completion ==
  [kind : {"loaded", "parsed", "requested", "refined", "failed", "refine failed"},
   name : Names, size : 0..Full]

Resident == {s \in Sources : bitmaps[s] # 0}

TypeOK ==
  /\ entries \in [Sources -> {"none", "loading", "loaded", "parsed", "failed"}]
  /\ waiters \in [Sources -> Seq(Views)]
  /\ refining \in [Sources -> 0..Full] /\ bitmaps \in [Sources -> 0..Full]
  /\ older \subseteq Resident \X Resident
  /\ \A a, b \in Resident :
       <<a, b>> \in older <=> a # b /\ <<b, a>> \notin older
  /\ \A a, b, c \in Resident :
       <<a, b>> \in older /\ <<b, c>> \in older => <<a, c>> \in older
  /\ pinned \subseteq Sources /\ budget \in Budgets /\ fresh \in Sources
  /\ requested \in Seq(Documents \X Views)
  /\ jobs \subseteq Job /\ permits \in 0..Permits /\ lost \subseteq Names
  /\ completions \in Seq(Completion) /\ turn \in Seq(Completion)
  /\ asked \in [Views -> [Names -> Nat]] /\ told \in [Views -> [Names -> Nat]]
  /\ acts \in 0..MaxActs

Init ==
  /\ entries = [s \in Sources |-> "none"] /\ waiters = [s \in Sources |-> <<>>]
  /\ refining = [s \in Sources |-> 0] /\ bitmaps = [s \in Sources |-> 0]
  /\ older = {} /\ pinned = {} /\ budget \in Budgets
  /\ fresh = CHOOSE s \in Sources : TRUE
  /\ requested = <<>> /\ jobs = {} /\ permits = Permits
  /\ completions = <<>> /\ turn = <<>> /\ lost = {}
  /\ asked = [v \in Views |-> [x \in Names |-> 0]] /\ told = asked
  /\ acts = 0

(* One of the embedder's calls, none of which is made inside another.      *)
Call == turn = <<>> /\ acts < MaxActs /\ acts' = acts + 1
Asks(v, x) == asked' = [asked EXCEPT ![v][x] = @ + 1]

(* How many of a sequence are one of these.                                *)
Tally(seq, these) == Cardinality({i \in DOMAIN seq : seq[i] \in these})

(* Mutant of SwapRemove: it is the last that goes.                         *)
RemoveLast(seq, i) == SubSeq(seq, 1, Len(seq) - 1)

(* swap_remove: the last takes its place.                                  *)
SwapRemove(seq, i) ==
  [k \in 1..Len(seq) - 1 |-> IF k = i THEN seq[Len(seq)] ELSE seq[k]]
TellAll(seq, x) == told' = [v \in Views |-> [told[v] EXCEPT ![x] = @ + Tally(seq, {v})]]

-----------------------------------------------------------------------------
(* cache/memory.rs                                                         *)

(* Every byte counts once, whatever was replaced.                          *)
Bytes(sizes, those) == Cardinality({b \in those \X Sizes : b[2] <= sizes[b[1]]})

(* Mutant of Kept: what is pinned goes with the rest.                      *)
KeptOnlyNew(pins, spared) == spared

Kept(pins, spared) == pins \cup spared

(* trim_sparing: unpinned entries go, least recently used first, until the *)
(* budget holds or none is left; one goes if what is older does not do.    *)
Victims(sizes, recency, pins, limit, spared) ==
  LET open == {s \in Sources : sizes[s] # 0} \ Kept(pins, spared)
      before(s) == {o \in open : <<o, s>> \in recency}
  IN {s \in open : Bytes(sizes, Sources) > limit + Bytes(sizes, before(s))}

TrimmedTo(sizes, recency, pins, limit, spared) ==
  LET gone == Victims(sizes, recency, pins, limit, spared)
  IN /\ bitmaps' = [s \in Sources |-> IF s \in gone THEN 0 ELSE sizes[s]]
     /\ older' = {p \in recency : p[1] \notin gone /\ p[2] \notin gone}
     /\ pinned' = pins /\ budget' = limit

LatestUsed(s) ==
  {p \in older : p[1] # s /\ p[2] # s} \cup (Resident \ {s}) \X {s}

Insert(s, size) ==
  /\ TrimmedTo([bitmaps EXCEPT ![s] = size], LatestUsed(s), pinned, budget, {s})
  /\ fresh' = s

-----------------------------------------------------------------------------
(* images.rs, on the embedder's thread                                     *)

Task(kind, x, size, n, stage, payload) ==
  [kind |-> kind, name |-> x, size |-> size, n |-> n, stage |-> stage, payload |-> payload]

(* request: answered at once, or joined to the load in flight, or one is   *)
(* started; a source whose document was parsed before starts again.        *)
Request(v, s) ==
  /\ Call /\ Asks(v, s)
  /\ \/ /\ entries[s] \in {"loaded", "failed"}
        /\ told' = [told EXCEPT ![v][s] = @ + 1]
        /\ UNCHANGED <<entries, waiters, jobs>>
     \/ /\ entries[s] = "loading"
        /\ waiters' = [waiters EXCEPT ![s] = Append(@, v)]
        /\ UNCHANGED <<entries, jobs, told>>
     \/ /\ entries[s] \in {"none", "parsed"}
        /\ entries' = [entries EXCEPT ![s] = "loading"]
        /\ waiters' = [waiters EXCEPT ![s] = <<v>>]
        /\ jobs' = jobs \cup {Task("load", s, First, 0, "bytes", "raster")}
        /\ UNCHANGED told
     \/ /\ entries[s] \in {"none", "parsed"}  \* it does not resolve
        /\ entries' = [entries EXCEPT ![s] = "failed"]
        /\ told' = [told EXCEPT ![v][s] = @ + 1]
        /\ UNCHANGED <<waiters, jobs>>
  /\ UNCHANGED <<refining, cache, requested, channel, permits, lost>>

(* request_document: a parse and a report of its own.                      *)
RequestDocument(v, d) ==
  /\ Call /\ Asks(v, d)
  /\ requested' = Append(requested, <<d, v>>)
  /\ jobs' = jobs \cup {Task("document", d, 0, acts, "permit", "vector")}
  /\ UNCHANGED <<entries, waiters, refining, cache, channel, permits, lost, told>>

(* service takes what is there, and applies it one by one.                 *)
Service ==
  /\ turn = <<>> /\ completions # <<>>
  /\ turn' = completions /\ completions' = <<>>
  /\ UNCHANGED <<cache, table, driver, reports, acts>>

Apply ==
  /\ turn # <<>> /\ turn' = Tail(turn)
  /\ LET kind == Head(turn).kind
         x == Head(turn).name
         size == Head(turn).size
         now == IF kind = "failed" THEN "failed" ELSE kind
     IN CASE kind \in {"loaded", "parsed", "failed"} /\ x \in Sources ->
               IF entries[x] # "loading"
                 THEN /\ entries' = [entries EXCEPT ![x] = "none"]  \* `remove', and no more
                      /\ UNCHANGED <<waiters, refining, requested, cache, told>>
                 ELSE /\ entries' = [entries EXCEPT ![x] = now]
                      /\ waiters' = [waiters EXCEPT ![x] = <<>>]
                      /\ TellAll(waiters[x], x)
                      /\ IF kind = "loaded" THEN Insert(x, size) ELSE UNCHANGED cache
                      /\ UNCHANGED <<refining, requested>>
          [] kind = "requested" ->
               LET those == {i \in DOMAIN requested : requested[i][1] = x}
               IN /\ IF those = {} THEN UNCHANGED <<requested, told>>
                     ELSE \E i \in those :
                            /\ \A k \in those : i <= k
                            /\ told' = [told EXCEPT ![requested[i][2]][x] = @ + 1]
                            /\ requested' = SwapRemove(requested, i)
                  /\ UNCHANGED <<entries, waiters, refining, cache>>
          [] kind = "refined" ->
               /\ IF entries[x] = "loaded" /\ refining[x] = size
                    THEN refining' = [refining EXCEPT ![x] = 0] /\ Insert(x, size)
                    ELSE UNCHANGED <<refining, cache>>
               /\ UNCHANGED <<entries, waiters, requested, told>>
          [] kind = "refine failed" ->
               /\ refining' = IF entries[x] = "loaded" THEN [refining EXCEPT ![x] = 0] ELSE refining
               /\ UNCHANGED <<entries, waiters, requested, cache, told>>
  /\ UNCHANGED <<completions, driver, asked, acts>>

(* retain: the frame's working set.                                        *)
Retain(frame) ==
  /\ Call /\ frame # pinned
  /\ TrimmedTo(bitmaps, older, frame, budget, {})
  /\ UNCHANGED <<fresh, table, driver, channel, reports>>

SetBudget(bytes) ==
  /\ Call /\ bytes # budget
  /\ TrimmedTo(bitmaps, older, pinned, bytes, {})
  /\ UNCHANGED <<fresh, table, driver, channel, reports>>

(* wants_refinement, with a downsample_ratio of two.                       *)
WantsRefinement(resident, target) ==
  resident >= 2 * target \/ (resident < target /\ resident < Full)

(* read: the resident bitmap, and a refinement when the draw's size calls  *)
(* for one and none is on its way; an evicted one is decoded again here,   *)
(* and may not be.                                                         *)
Read(s, target) ==
  /\ Call /\ entries[s] = "loaded"
  /\ \/ /\ bitmaps[s] # 0
        /\ older' = LatestUsed(s) /\ UNCHANGED <<bitmaps, pinned, budget, fresh>>
        /\ IF refining[s] = 0 /\ WantsRefinement(bitmaps[s], target)
             THEN /\ refining' = [refining EXCEPT ![s] = target]
                  /\ \E stage \in {"bytes", "permit"} :
                       jobs' = jobs \cup {Task("refine", s, target, 0, stage, "raster")}
             ELSE UNCHANGED <<refining, jobs>>
     \/ bitmaps[s] = 0 /\ Insert(s, target) /\ UNCHANGED <<refining, jobs>>
     \/ bitmaps[s] = 0 /\ UNCHANGED <<cache, refining, jobs>>
  /\ UNCHANGED <<entries, waiters, requested, permits, lost, channel, reports>>

-----------------------------------------------------------------------------
(* The jobs, on the driver and its blocking pool                           *)

Goes(j, stage, payload) ==
  jobs' = (jobs \ {j}) \cup {[j EXCEPT !.stage = stage, !.payload = payload]}

(* prepare, or a refinement's restore: transport and preprocessing, or a   *)
(* failure of either, a panic included.                                    *)
GetBytes(j) ==
  /\ j.stage = "bytes"
  /\ \/ \E payload \in IF j.kind = "load" THEN {"raster", "vector"} ELSE {j.payload} :
          Goes(j, "permit", payload)
     \/ Goes(j, "done", "failed")
  /\ UNCHANGED <<cache, table, permits, lost, channel, reports, acts>>

(* acquire_decode, before anything is submitted to the pool.               *)
AcquireDecode(j) ==
  /\ j.stage = "permit" /\ permits > 0
  /\ permits' = permits - 1 /\ Goes(j, "decode", j.payload)
  /\ UNCHANGED <<cache, table, lost, channel, reports, acts>>

(* Mutant of Decode: a decode that fails keeps its permit.                 *)
DecodeKeepsPermit(j) ==
  /\ j.stage = "decode"
  /\ \E payload \in {j.payload, "failed"} :
       /\ Goes(j, "done", payload)
       /\ permits' = IF payload = "failed" THEN permits ELSE permits + 1
  /\ UNCHANGED <<cache, table, lost, channel, reports, acts>>

(* The decode or the parse returns, or fails, or panics: the permit goes   *)
(* with its closure, before the task hears of it.                          *)
Decode(j) ==
  /\ j.stage = "decode"
  /\ \E payload \in {j.payload, "failed"} : Goes(j, "done", payload)
  /\ permits' = permits + 1
  /\ UNCHANGED <<cache, table, lost, channel, reports, acts>>

CompletionOf(j) ==
  [name |-> j.name, size |-> j.size,
   kind |-> CASE j.kind = "document" -> "requested"
              [] j.kind = "load" ->
                   [raster |-> "loaded", vector |-> "parsed", failed |-> "failed"][j.payload]
              [] j.kind = "refine" ->
                   IF j.payload = "failed" THEN "refine failed" ELSE "refined"]

(* complete: the completion is queued and the embedder woken for it.       *)
Complete(j) ==
  /\ j.stage = "done" /\ jobs' = jobs \ {j}
  /\ completions' = Append(completions, CompletionOf(j))
  /\ UNCHANGED <<cache, table, permits, lost, turn, reports, acts>>

(* spawn_blocking panics, refused a thread: the task goes unreported, and  *)
(* its permit with the closure (executor.rs, Panics).                      *)
Refused(j) ==
  /\ j.stage \in {"bytes", "decode"}
  /\ jobs' = jobs \ {j} /\ lost' = lost \cup {j.name}
  /\ permits' = IF j.stage = "decode" THEN permits + 1 ELSE permits
  /\ UNCHANGED <<cache, table, channel, reports, acts>>

Step(j) == GetBytes(j) \/ AcquireDecode(j) \/ Decode(j) \/ Complete(j)

Next ==
  \/ \E v \in Views : \/ \E s \in Sources : Request(v, s)
                      \/ \E d \in Documents : RequestDocument(v, d)
  \/ \E s \in Sources, target \in Sizes : Read(s, target)
  \/ \E frame \in SUBSET Sources : Retain(frame)
  \/ \E bytes \in Budgets : SetBudget(bytes)
  \/ Service \/ Apply
  \/ \E j \in jobs : Step(j) \/ Refused(j)

Spec == Init /\ [][Next]_vars
(* The driver runs its tasks and the pool its closures; the embedder takes *)
(* the turn it was woken for and finishes what it drained.                 *)
FairSpec ==
  /\ Spec
  /\ WF_vars(\E j \in jobs : Step(j))
  /\ WF_vars(Service) /\ WF_vars(Apply)

-----------------------------------------------------------------------------
Answers(kinds, x) == [kind : kinds, name : {x}, size : 0..Full]
InFlight(kinds, x) == Tally(completions, Answers(kinds, x)) + Tally(turn, Answers(kinds, x))
Tasks(kind, x) == Cardinality({j \in jobs : j.kind = kind /\ j.name = x})
LoadAnswers == {"loaded", "parsed", "failed"}
RefineAnswers == {"refined", "refine failed"}

(* Every request is answered once, to the view that made it: what was      *)
(* asked is what was told and what still waits; and something still on its *)
(* way will answer each that waits: a source that loads has one load, a    *)
(* refinement that is noted one job of its size, a document as many parses *)
(* as requests (images.rs, apply).  A task the platform refused a thread   *)
(* is the exception executor.rs names.                                     *)
EveryoneIsTold ==
  /\ TypeOK
  /\ \A v \in Views :
       /\ \A s \in Sources : asked[v][s] = told[v][s] + Tally(waiters[s], {v})
       /\ \A d \in Documents : asked[v][d] = told[v][d] + Tally(requested, {<<d, v>>})
  /\ \A s \in Sources \ lost :
       LET loads == Tasks("load", s) + InFlight(LoadAnswers, s)
           refines == Tasks("refine", s) + InFlight(RefineAnswers, s)
       IN /\ loads = IF entries[s] = "loading" THEN 1 ELSE 0
          /\ refines = IF refining[s] # 0 THEN 1 ELSE 0
          /\ \A j \in jobs : j.kind = "refine" /\ j.name = s => j.size = refining[s]
  /\ \A d \in Documents \ lost :
       Tasks("document", d) + InFlight({"requested"}, d)
         = Tally(requested, {d} \X Views)

(* The frame being drawn keeps its pictures: nothing pinned is taken by an *)
(* insert, a smaller budget or a refinement, and all the room that can be  *)
(* made is: over the budget only the pinned and the one inserted last stay *)
(* (cache/memory.rs, trim_sparing).                                        *)
OverOnlyIfPinned ==
  Bytes(bitmaps, Sources) > budget => Resident \subseteq pinned \cup {fresh}
FrameStays ==
  [][/\ \A s \in pinned' : bitmaps[s] # 0 => bitmaps'[s] # 0
     /\ OverOnlyIfPinned']_vars
(* What is asked is answered in the end, however many jobs wait for one    *)
(* permit and whichever fail or panic with it, unless the platform refused *)
(* the job a thread (images.rs, load; lib.rs, Shared::complete).           *)
RequestsEnd ==
  []<>\A v \in Views, x \in Names \ lost : asked[v][x] = told[v][x]
=============================================================================
