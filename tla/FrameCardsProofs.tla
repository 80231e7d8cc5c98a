------------------------- MODULE FrameCardsProofs ---------------------------
(***************************************************************************)
(* What frame.ts and frame-boot.ts promise of the cards in their frames,   *)
(* for every number of cards and loads: who holds a card, who waits for    *)
(* its last list, and that it is told.                                     *)
(***************************************************************************)
EXTENDS FramesProofs

-----------------------------------------------------------------------------
(* The cards queued to boot, and the core as a whole.                      *)

(* A card queued to boot is made, and its frame's unless it is stale.      *)
Bootable(c) == /\ card[c].st = "made" /\ Alive(card[c].host)
               /\ Current(c) => frame[card[c].host].realm = c /\ frame[card[c].host].dispose = 0
NoBoot == \A k \in Cards : <<"boot", k, 0>> \in jobs' => <<"boot", k, 0>> \in jobs

(* BootJobs, a card at a time.                                             *)
LEMMA BootMeans ==
  /\ BootJobs <=> \A c \in Cards : <<"boot", c, 0>> \in jobs => Bootable(c)
  /\ BootJobs' <=> \A c \in Cards : <<"boot", c, 0>> \in jobs' => Bootable(c)'
<1>1. BootJobs <=> \A c \in Cards : <<"boot", c, 0>> \in jobs => Bootable(c)
  BY DEF BootJobs, Bootable
<1>2. BootJobs' <=> \A c \in Cards : <<"boot", c, 0>> \in jobs' => Bootable(c)'
  BY DEF BootJobs, Bootable
<1> QED  BY <1>1, <1>2

(* A card's host and load.                                                 *)
LEMMA HostFacts ==
  ASSUME Typed, NEW c \in Cards
  PROVE  /\ card[c].host \in Realms /\ (card[c].host # Page => card[c].host \in Cards)
         /\ card[c].gen \in Nat /\ frame[card[c].host].gen \in Nat
<1>1. card[c].host \in Realms /\ card[c].gen \in Nat
  BY DEF Typed, Kinds, CardRec
<1>2. frame[card[c].host].gen \in Nat
  BY <1>1 DEF Typed, Kinds, FrameRec
<1> QED  BY <1>1, <1>2, AnItem DEF Page

(* A step that queues no boot and changes no frame.                        *)
LEMMA BootSame ==
  ASSUME Typed, BootJobs, NoBoot, SameFrames,
         \A k \in Cards : UNCHANGED <<card[k].host, card[k].gen, card[k].st>>
  PROVE  BootJobs'
<1>1. ASSUME NEW c \in Cards, <<"boot", c, 0>> \in jobs' PROVE Bootable(c)'
  <2>1. Bootable(c)
    BY <1>1, BootMeans DEF NoBoot
  <2>2. card[c].host \in Realms /\ (card[c].host # Page => card[c].host \in Cards)
    BY HostFacts
  <2>3. Alive(card[c].host)'
    BY <2>1, <2>2 DEF Alive, Bootable
  <2>4. Current(c)' <=> Current(c)
    BY <2>2 DEF Current, SameFrames
  <2> QED  BY <2>1, <2>2, <2>3, <2>4 DEF Bootable, SameFrames
<1> QED  BY <1>1, BootMeans

(* A card is of a load its frame has made.                                 *)
LEMMA MadeGen ==
  ASSUME Typed, Tokens, NEW c \in Cards, card[c].st # "unmade"
  PROVE  /\ card[c].gen <= frame[card[c].host].gen
         /\ card[c].gen = frame[card[c].host].gen => frame[card[c].host].loaded
<1> DEFINE r == card[c].host
           g == card[c].gen
<1>1. r \in Realms /\ g \in Nat /\ frame[r].gen \in Nat
  BY HostFacts
<1>2. Held(r, g) = 1
  BY DEF Held
<1>3. Token(r, g) <= Lim(r, g)
  BY <1>1 DEF Tokens
<1> HIDE DEF r, g
<1>4. /\ Count(stack, Starts(r, g)) \in Nat /\ Count(frame[r].after, Starts(r, g)) \in Nat
      /\ If(<<"start", r, g>>, jobs) \in {0, 1} /\ If(<<r, g>>, asked) \in {0, 1}
      /\ If(<<r, g>>, flying) \in {0, 1} /\ Held(r, g) \in {0, 1} /\ Lim(r, g) \in {0, 1}
  BY <1>1, TokenTerms
<1>5. Lim(r, g) = 1
  BY <1>2, <1>3, <1>4 DEF Token
<1>6. g <= frame[r].gen /\ (g = frame[r].gen => frame[r].loaded)
  BY <1>1, <1>5 DEF Lim
<1> QED  BY <1>6 DEF r, g

(* A frame's new load makes every card of it stale.                        *)
LEMMA BootStale ==
  ASSUME Typed, Tokens, BootJobs, NoBoot, NEW r \in Realms, Others(r),
         frame'[r].gen = frame[r].gen + 1,
         \A k \in Cards : UNCHANGED <<card[k].host, card[k].gen, card[k].st>>
  PROVE  BootJobs'
<1>1. ASSUME NEW c \in Cards, <<"boot", c, 0>> \in jobs' PROVE Bootable(c)'
  <2>1. Bootable(c)
    BY <1>1, BootMeans DEF NoBoot
  <2>2. /\ card[c].host \in Realms /\ (card[c].host # Page => card[c].host \in Cards)
        /\ card[c].gen \in Nat /\ frame[card[c].host].gen \in Nat
    BY HostFacts
  <2>3. Alive(card[c].host)'
    BY <2>1, <2>2 DEF Alive, Bootable
  <2>4. CASE card[c].host = r
    <3>1. card[c].gen <= frame[r].gen
      BY <2>1, <2>4, MadeGen DEF Bootable
    <3>2. ~Current(c)'
      BY <2>2, <2>4, <3>1 DEF Current
    <3> QED  BY <2>1, <2>3, <3>2 DEF Bootable
  <2>5. CASE card[c].host # r
    <3>1. frame'[card[c].host] = frame[card[c].host]
      BY <2>2, <2>5 DEF Others
    <3> QED  BY <2>1, <2>3, <3>1 DEF Bootable, Current
  <2> QED  BY <2>4, <2>5
<1> QED  BY <1>1, BootMeans

(* Whatever comes between a card and its boot leaves it bootable or stale. *)
LEMMA BootJobsKept ==
  ASSUME Typed, Shape, Resting, Tokens, Links, BootJobs, Flags, Life, Kinds', Does
  PROVE  BootJobs'
<1>1. ASSUME NEW r \in Realms, NEW s \in Srcs, SourceStep(r, s) PROVE BootJobs'
  <2>1. Others(r) /\ frame'[r].gen = frame[r].gen + 1
    BY <1>1 DEF SourceStep
  <2>2. \A k \in Cards : UNCHANGED <<card[k].host, card[k].gen, card[k].st>>
    BY <1>1 DEF SourceStep, OtherCards
  <2>3. NoBoot
    BY <1>1 DEF SourceStep, NoBoot
  <2> QED  BY <2>1, <2>2, <2>3, BootStale
<1>2. ASSUME NEW r \in Realms, NEW s \in Srcs, SetSrcStep(r, s) PROVE BootJobs'
  <2>1. SameFrames
    BY <1>2 DEF SetSrcStep, SameFrames, Others
  <2>2. \A k \in Cards : UNCHANGED <<card[k].host, card[k].gen, card[k].st>>
    BY <1>2 DEF SetSrcStep, OtherCards
  <2>3. NoBoot
    BY <1>2 DEF SetSrcStep, NoBoot
  <2> QED  BY <2>1, <2>2, <2>3, BootSame
<1>3. ASSUME NEW r \in Realms, NEW g \in Nat, StartStep(r, g) PROVE BootJobs'
  <2>1. CASE UNCHANGED <<card, jobs>> /\ SameFrames
    BY SMTT(30), <2>1, BootSame DEF NoBoot
  <2>2. CASE UNCHANGED <<card, jobs>> /\ ~SameFrames
    BY SMTT(30), <1>3, <2>2 DEF StartStep, SameFrames, Others
  <2>3. ASSUME NEW c \in Cards, g = frame[r].gen, card[c].st = "unmade", OtherCards(c),
               jobs' = jobs \cup {<<"boot", c, 0>>},
               card'[c].st = "made", card'[c].host = r, card'[c].gen = g,
               Others(r), frame'[r].realm = c,
               UNCHANGED <<frame[r].gen, frame[r].dispose>>
        PROVE  BootJobs'
    <3>1. <<"start", r, g>> \in Within(stack)
      BY <1>3, AtFacts DEF StartStep
    <3>2. /\ frame[r].dispose = 0
          /\ \A k \in Cards : card[k].st # "unmade" /\ card[k].host = r => card[k].gen # g
      BY <2>3, <3>1, StartFree
    <3>3. Alive(r)
      <4>1. <<"start", r, g>>[2] = r
        OBVIOUS
      <4> QED  BY <3>1, <4>1 DEF Life
    <3>4. \A q \in Realms : Alive(q) => Alive(q)'
      <4>1. \A q \in Realms : q # Page => q \in Cards
        BY AnItem DEF Page
      <4> QED  BY <2>3, <4>1 DEF Alive, OtherCards
    <3>5. ASSUME NEW k \in Cards, <<"boot", k, 0>> \in jobs' PROVE Bootable(k)'
      <4>1. CASE k = c
        BY <2>3, <3>2, <3>3, <3>4, <4>1 DEF Bootable
      <4>2. CASE k # c
        <5>1. <<"boot", k, 0>> # <<"boot", c, 0>>
          BY <4>2
        <5>2. Bootable(k)
          BY <2>3, <3>5, <5>1, BootMeans
        <5>3. card'[k] = card[k]
          BY <2>3, <4>2 DEF OtherCards
        <5>4. card[k].host \in Realms /\ Alive(card[k].host)'
          BY <3>4, <5>2, <5>3, HostFacts DEF Bootable
        <5>5. CASE card[k].host = r
          <6>1. ~Current(k)'
            BY <2>3, <3>2, <5>2, <5>3, <5>5 DEF Current, Bootable
          <6> QED  BY <5>2, <5>3, <5>4, <6>1 DEF Bootable
        <5>6. CASE card[k].host # r
          <6>1. frame'[card[k].host] = frame[card[k].host]
            BY <2>3, <5>4, <5>6 DEF Others
          <6> QED  BY <5>2, <5>3, <5>4, <6>1 DEF Bootable, Current
        <5> QED  BY <5>5, <5>6
      <4> QED  BY <4>1, <4>2
    <3> QED  BY <3>5, BootMeans
  <2> QED  BY <1>3, <2>1, <2>2, <2>3 DEF StartStep
<1>4. ASSUME NEW r \in Realms, NEW g \in Nat, RunStartStep(r, g) PROVE BootJobs'
  <2>1. SameFrames
    BY <1>4 DEF RunStartStep, SameFrames, Others
  <2>2. \A k \in Cards : UNCHANGED <<card[k].host, card[k].gen, card[k].st>>
    BY <1>4 DEF RunStartStep, OtherCards
  <2>3. NoBoot
    BY <1>4 DEF RunStartStep, NoBoot
  <2> QED  BY <2>1, <2>2, <2>3, BootSame
<1>5. ASSUME NEW r \in Realms, NEW g \in Nat, FetchStep(r, g) PROVE BootJobs'
  <2>1. SameFrames
    BY <1>5 DEF FetchStep, SameFrames, Others
  <2>2. \A k \in Cards : UNCHANGED <<card[k].host, card[k].gen, card[k].st>>
    BY <1>5 DEF FetchStep, OtherCards
  <2>3. NoBoot
    BY <1>5 DEF FetchStep, NoBoot
  <2> QED  BY <2>1, <2>2, <2>3, BootSame
<1>6. ASSUME NEW r \in Realms, NEW d \in Conts, d = "frames" => r \in Cards, CloseStep(r, d) PROVE BootJobs'
  <2>1. Others(r) /\ frame'[r].gen = frame[r].gen + 1
    BY <1>6 DEF CloseStep
  <2>2. \A k \in Cards : UNCHANGED <<card[k].host, card[k].gen, card[k].st>>
    BY <1>6 DEF CloseStep, OtherCards
  <2>3. NoBoot
    BY <1>6 DEF CloseStep, NoBoot
  <2> QED  BY <2>1, <2>2, <2>3, BootStale
<1>7. ASSUME NEW r \in Realms, ResetStep(r) PROVE BootJobs'
  <2>1. SameFrames
    BY <1>7 DEF ResetStep, SameFrames, Others
  <2>2. \A k \in Cards : UNCHANGED <<card[k].host, card[k].gen, card[k].st>>
    BY <1>7 DEF ResetStep, OtherCards
  <2>3. NoBoot
    BY <1>7 DEF ResetStep, NoBoot
  <2> QED  BY <2>1, <2>2, <2>3, BootSame
<1>8. ASSUME NEW r \in Realms, IdleStep(r) PROVE BootJobs'
  <2>1. SameFrames
    BY <1>8 DEF IdleStep, SameFrames, Others
  <2>2. \A k \in Cards : UNCHANGED <<card[k].host, card[k].gen, card[k].st>>
    BY <1>8 DEF IdleStep, OtherCards
  <2>3. NoBoot
    BY <1>8 DEF IdleStep, NoBoot
  <2> QED  BY <2>1, <2>2, <2>3, BootSame
<1>9. ASSUME NEW r \in Realms, HearStep(r) PROVE BootJobs'
  <2>1. SameFrames
    BY <1>9 DEF HearStep, SameFrames, Others
  <2>2. \A k \in Cards : UNCHANGED <<card[k].host, card[k].gen, card[k].st>>
    BY <1>9 DEF HearStep, OtherCards
  <2>3. NoBoot
    BY <1>9 DEF HearStep, NoBoot
  <2> QED  BY <2>1, <2>2, <2>3, BootSame
<1>10. ASSUME NEW r \in Realms, MoveStep(r) PROVE BootJobs'
  <2>1. SameFrames
    BY <1>10 DEF MoveStep, SameFrames, Others
  <2>2. \A k \in Cards : UNCHANGED <<card[k].host, card[k].gen, card[k].st>>
    BY <1>10 DEF MoveStep, OtherCards
  <2>3. NoBoot
    BY <1>10 DEF MoveStep, NoBoot
  <2> QED  BY <2>1, <2>2, <2>3, BootSame
<1>11. ASSUME NEW c \in Cards, BootStep(c) PROVE BootJobs'
  <2>1. Bootable(c)
    BY <1>11, BootMeans DEF BootStep
  <2>2. \A q \in Realms : /\ UNCHANGED <<frame[q].gen, frame[q].realm>>
                          /\ frame'[q].dispose = IF q = card[c].host /\ Current(c) THEN c
                                                 ELSE frame[q].dispose
    BY <1>11 DEF BootStep, SameLoads
  <2>3. /\ OtherCards(c) /\ (UNCHANGED card \/ card'[c].st \in {"refused", "booting"})
        /\ jobs' = jobs \ {<<"boot", c, 0>>}
    BY <1>11 DEF BootStep
  <2>4. \A q \in Realms : Alive(q) => Alive(q)'
    <3>1. \A q \in Realms : q # Page => q \in Cards
      BY AnItem DEF Page
    <3> QED  BY <2>3, <3>1 DEF Alive, OtherCards
  <2>5. ASSUME NEW k \in Cards, <<"boot", k, 0>> \in jobs' PROVE Bootable(k)'
    <3>1. k # c /\ <<"boot", k, 0>> \in jobs
      BY <2>3, <2>5
    <3>2. Bootable(k) /\ card'[k] = card[k]
      BY <2>3, <3>1, BootMeans DEF OtherCards
    <3>3. card[k].host \in Realms /\ Alive(card[k].host)'
      BY <2>4, <3>2, HostFacts DEF Bootable
    <3>4. Current(k)' <=> Current(k)
      BY <2>2, <3>2, <3>3 DEF Current
    <3>5. Current(k) => ~(card[k].host = card[c].host /\ Current(c))
      BY <2>1, <3>1, <3>2 DEF Bootable
    <3> QED  BY <2>2, <3>2, <3>3, <3>4, <3>5 DEF Bootable
  <2> QED  BY <2>5, BootMeans
<1>12. ASSUME NEW c \in Cards, LoadedStep(c) PROVE BootJobs'
  <2>1. UNCHANGED <<frame, jobs>> /\ OtherCards(c) /\ card'[c].st \in {"refused", "booted"}
    BY <1>12 DEF LoadedStep
  <2>2. card[c].st = "booting"
    <3>1. <<"loading", c, 0>> \in Within(stack)
      BY <1>12, AtFacts DEF LoadedStep
    <3> QED  BY <3>1 DEF Flags, On
  <2>3. \A q \in Realms : Alive(q) => Alive(q)'
    <3>1. \A q \in Realms : q # Page => q \in Cards
      BY AnItem DEF Page
    <3> QED  BY <2>1, <3>1 DEF Alive, OtherCards
  <2>4. ASSUME NEW k \in Cards, <<"boot", k, 0>> \in jobs' PROVE Bootable(k)'
    <3>1. Bootable(k)
      BY <2>1, <2>4, BootMeans
    <3>2. card'[k] = card[k]
      BY <2>1, <2>2, <3>1 DEF OtherCards, Bootable
    <3>3. Alive(card[k].host)'
      BY <2>3, <3>1, <3>2, HostFacts DEF Bootable
    <3> QED  BY <2>1, <3>1, <3>2, <3>3 DEF Bootable, Current
  <2> QED  BY <2>4, BootMeans
<1>13. ASSUME NEW c \in Cards, DisposeStep(c) PROVE BootJobs'
  <2>1. SameFrames
    BY <1>13 DEF DisposeStep, SameFrames, Others
  <2>2. \A k \in Cards : UNCHANGED <<card[k].host, card[k].gen, card[k].st>>
    BY <1>13 DEF DisposeStep, OtherCards
  <2>3. NoBoot
    BY <1>13 DEF DisposeStep, NoBoot
  <2> QED  BY <2>1, <2>2, <2>3, BootSame
<1>14. ASSUME NEW c \in Cards, OwingStep(c) PROVE BootJobs'
  <2>1. SameFrames
    BY <1>14 DEF OwingStep, SameFrames, Others
  <2>2. \A k \in Cards : UNCHANGED <<card[k].host, card[k].gen, card[k].st>>
    BY <1>14 DEF OwingStep, OtherCards
  <2>3. NoBoot
    BY <1>14 DEF OwingStep, NoBoot
  <2> QED  BY <2>1, <2>2, <2>3, BootSame
<1>15. ASSUME NEW c \in Cards, FramesStep(c) PROVE BootJobs'
  <2>1. SameFrames
    BY <1>15 DEF FramesStep, SameFrames, Others
  <2>2. \A k \in Cards : UNCHANGED <<card[k].host, card[k].gen, card[k].st>>
    BY <1>15 DEF FramesStep, OtherCards
  <2>3. NoBoot
    BY <1>15 DEF FramesStep, NoBoot
  <2> QED  BY <2>1, <2>2, <2>3, BootSame
<1>16. ASSUME NEW c \in Cards, RecordsStep(c) PROVE BootJobs'
  <2>1. SameFrames
    BY <1>16 DEF RecordsStep, SameFrames, Others
  <2>2. \A k \in Cards : UNCHANGED <<card[k].host, card[k].gen, card[k].st>>
    BY <1>16 DEF RecordsStep, OtherCards
  <2>3. NoBoot
    BY <1>16 DEF RecordsStep, NoBoot
  <2> QED  BY <2>1, <2>2, <2>3, BootSame
<1>17. ASSUME NEW c \in Cards, ArriveStep(c) PROVE BootJobs'
  <2>1. SameFrames
    BY <1>17 DEF ArriveStep, SameFrames, Others
  <2>2. \A k \in Cards : UNCHANGED <<card[k].host, card[k].gen, card[k].st>>
    BY <1>17 DEF ArriveStep, OtherCards
  <2>3. NoBoot
    BY <1>17 DEF ArriveStep, NoBoot
  <2> QED  BY <2>1, <2>2, <2>3, BootSame
<1>18. ASSUME NEW c \in Cards, FlushStep(c) PROVE BootJobs'
  <2>1. SameFrames
    BY <1>18 DEF FlushStep, SameFrames, Others
  <2>2. \A k \in Cards : UNCHANGED <<card[k].host, card[k].gen, card[k].st>>
    BY <1>18 DEF FlushStep, OtherCards
  <2>3. NoBoot
    BY <1>18 DEF FlushStep, NoBoot
  <2> QED  BY <2>1, <2>2, <2>3, BootSame
<1>19. ASSUME NEW c \in Cards, CloseRealmStep(c) PROVE BootJobs'
  <2>1. SameFrames
    BY <1>19 DEF CloseRealmStep, SameFrames, Others
  <2>2. \A k \in Cards : UNCHANGED <<card[k].host, card[k].gen, card[k].st>>
    BY <1>19 DEF CloseRealmStep, OtherCards
  <2>3. NoBoot
    BY <1>19 DEF CloseRealmStep, NoBoot
  <2> QED  BY <2>1, <2>2, <2>3, BootSame
<1>20. ASSUME NEW c \in Cards, AckStep(c) PROVE BootJobs'
  <2>1. SameFrames
    BY <1>20 DEF AckStep, SameFrames, Others
  <2>2. \A k \in Cards : UNCHANGED <<card[k].host, card[k].gen, card[k].st>>
    BY <1>20 DEF AckStep, OtherCards
  <2>3. NoBoot
    BY <1>20 DEF AckStep, NoBoot
  <2> QED  BY <2>1, <2>2, <2>3, BootSame
<1>21. ASSUME NEW c \in Cards, BtsStep(c) PROVE BootJobs'
  <2>1. SameFrames
    BY <1>21 DEF BtsStep, SameFrames, Others
  <2>2. \A k \in Cards : UNCHANGED <<card[k].host, card[k].gen, card[k].st>>
    BY <1>21 DEF BtsStep, OtherCards
  <2>3. NoBoot
    BY <1>21 DEF BtsStep, NoBoot
  <2> QED  BY <2>1, <2>2, <2>3, BootSame
<1>22. ASSUME NEW c \in Cards, ObserveStep(c) PROVE BootJobs'
  <2>1. SameFrames
    BY <1>22 DEF ObserveStep, SameFrames, Others
  <2>2. \A k \in Cards : UNCHANGED <<card[k].host, card[k].gen, card[k].st>>
    BY <1>22 DEF ObserveStep, OtherCards
  <2>3. NoBoot
    BY <1>22 DEF ObserveStep, NoBoot
  <2> QED  BY <2>1, <2>2, <2>3, BootSame
<1>23. CASE HeardStep
  <2>1. jobs' = {}
    BY <1>23 DEF HeardStep
  <2> QED  BY <2>1, BootMeans
<1>24. CASE EpilogueStep
  <2>1. jobs' = {}
    BY <1>24 DEF EpilogueStep
  <2> QED  BY <2>1, BootMeans
<1>25. CASE OpenStep
  <2>1. SameFrames
    BY <1>25 DEF OpenStep, SameFrames, Others
  <2>2. \A k \in Cards : UNCHANGED <<card[k].host, card[k].gen, card[k].st>>
    BY <1>25 DEF OpenStep, OtherCards
  <2>3. NoBoot
    BY <1>25 DEF OpenStep, NoBoot
  <2> QED  BY <2>1, <2>2, <2>3, BootSame
<1>26. CASE OpenEventsStep
  <2>1. SameFrames
    BY <1>26 DEF OpenEventsStep, SameFrames, Others
  <2>2. \A k \in Cards : UNCHANGED <<card[k].host, card[k].gen, card[k].st>>
    BY <1>26 DEF OpenEventsStep, OtherCards
  <2>3. NoBoot
    BY <1>26 DEF OpenEventsStep, NoBoot
  <2> QED  BY <2>1, <2>2, <2>3, BootSame
<1>27. CASE OpenRecordsStep
  <2>1. SameFrames
    BY <1>27 DEF OpenRecordsStep, SameFrames, Others
  <2>2. \A k \in Cards : UNCHANGED <<card[k].host, card[k].gen, card[k].st>>
    BY <1>27 DEF OpenRecordsStep, OtherCards
  <2>3. NoBoot
    BY <1>27 DEF OpenRecordsStep, NoBoot
  <2> QED  BY <2>1, <2>2, <2>3, BootSame
<1>28. CASE RecordStep
  <2>1. SameFrames
    BY <1>28 DEF RecordStep, SameFrames, Others
  <2>2. \A k \in Cards : UNCHANGED <<card[k].host, card[k].gen, card[k].st>>
    BY <1>28 DEF RecordStep, OtherCards
  <2>3. NoBoot
    BY <1>28 DEF RecordStep, NoBoot
  <2> QED  BY <2>1, <2>2, <2>3, BootSame
<1>29. CASE BeginStep
  <2>1. SameFrames
    BY <1>29 DEF BeginStep, SameFrames, Others
  <2>2. \A k \in Cards : UNCHANGED <<card[k].host, card[k].gen, card[k].st>>
    BY <1>29 DEF BeginStep, OtherCards
  <2>3. NoBoot
    BY <1>29 DEF BeginStep, NoBoot
  <2> QED  BY <2>1, <2>2, <2>3, BootSame
<1> QED  BY <1>1, <1>2, <1>3, <1>4, <1>5, <1>6, <1>7, <1>8, <1>9, <1>10, <1>11, <1>12, <1>13,
            <1>14, <1>15, <1>16, <1>17, <1>18, <1>19, <1>20, <1>21, <1>22, <1>23, <1>24, <1>25,
            <1>26, <1>27, <1>28, <1>29 DEF Does

(* The core of the invariant, with what the step did.                      *)
LEMMA CoreKept ==
  ASSUME Core, Next
  PROVE  Core' /\ Does /\ Kinds'
<1>1. Typed /\ Shape /\ Resting /\ Own /\ Tokens /\ Sourced /\ Runs /\ Links /\ BootJobs /\ Flags /\ Life
  BY DEF Core
<1>2. Kinds' /\ Does
  BY <1>1, Steps
<1>3. Made' /\ Shape' /\ Resting' /\ Own'
  BY <1>1, <1>2, MadeKept, ShapeKept, RestingKept, OwnKept
<1>4. Tokens' /\ Sourced' /\ Runs'
  BY <1>1, <1>2, TokensKept, SourcedKept, RunsKept
<1>5. Links' /\ BootJobs' /\ Flags' /\ Life'
  BY <1>1, <1>2, LinksKept, BootJobsKept, FlagsKept, LifeKept
<1>6. Typed'
  BY <1>1, <1>2, <1>3 DEF Typed, FramesAssumption
<1> QED  BY <1>2, <1>3, <1>4, <1>5, <1>6 DEF Core

-----------------------------------------------------------------------------
(* Cards at work, and NoOrphan.                                            *)

(* A card let go of has let go of its own frame's, or loaded it since.     *)
LetGoes == \A r \in Cards :
   card[r].disposed /\ ~frame[r].late => ~frame[r].loaded \/ At("close", r, "frames")

(* A step that closes no frame, loads none and lets go of no card.         *)
Still == /\ stack = <<>> \/ Top[1] # "close"
         /\ \A q \in Realms : (frame'[q].loaded => frame[q].loaded) /\ (frame[q].late => frame'[q].late)
         /\ \A k \in Cards : card'[k].disposed => card[k].disposed

(* The steps that do.                                                      *)
LEMMA StillOrNot ==
  ASSUME Typed, Resting, Kinds', Does
  PROVE  Still \/ (\E r \in Realms, s \in Srcs : SourceStep(r, s))
        \/ (\E r \in Realms, d \in Conts : CloseStep(r, d)) \/ \E c \in Cards : DisposeStep(c)
<1> DEFINE Goal ==
  Still \/ (\E r \in Realms, s \in Srcs : SourceStep(r, s))
    \/ (\E r \in Realms, d \in Conts : CloseStep(r, d)) \/ \E c \in Cards : DisposeStep(c)
<1>1. ASSUME NEW r \in Realms, NEW s \in Srcs, SourceStep(r, s) PROVE Goal
  BY <1>1
<1>2. ASSUME NEW r \in Realms, NEW s \in Srcs, SetSrcStep(r, s) PROVE Goal
  <2>1. stack = <<>> \/ Top[1] # "close"
    BY <1>2 DEF SetSrcStep, At, Resting, AppRuns
  <2>2. \A q \in Realms : (frame'[q].loaded => frame[q].loaded) /\ (frame[q].late => frame'[q].late)
    BY <1>2 DEF SetSrcStep, Others, SameLoads
  <2>3. \A k \in Cards : card'[k].disposed => card[k].disposed
    BY <1>2 DEF SetSrcStep, OtherCards, Freeing
  <2> QED  BY <2>1, <2>2, <2>3 DEF Still
<1>3. ASSUME NEW r \in Realms, NEW g \in Nat, StartStep(r, g) PROVE Goal
  <2>1. stack = <<>> \/ Top[1] # "close"
    BY SMTT(30), <1>3 DEF StartStep, At, Resting, AppRuns
  <2>2. \A q \in Realms : (frame'[q].loaded => frame[q].loaded) /\ (frame[q].late => frame'[q].late)
    BY SMTT(30), <1>3 DEF StartStep, Others, SameLoads
  <2>3. \A k \in Cards : card'[k].disposed => card[k].disposed
    BY <1>3 DEF StartStep, OtherCards, Freeing
  <2> QED  BY SMTT(30), <2>1, <2>2, <2>3 DEF Still
<1>4. ASSUME NEW r \in Realms, NEW g \in Nat, RunStartStep(r, g) PROVE Goal
  <2>1. stack = <<>> \/ Top[1] # "close"
    BY <1>4 DEF RunStartStep, At, Resting, AppRuns
  <2>2. \A q \in Realms : (frame'[q].loaded => frame[q].loaded) /\ (frame[q].late => frame'[q].late)
    BY <1>4 DEF RunStartStep, Others, SameLoads
  <2>3. \A k \in Cards : card'[k].disposed => card[k].disposed
    BY <1>4 DEF RunStartStep, OtherCards, Freeing
  <2> QED  BY <2>1, <2>2, <2>3 DEF Still
<1>5. ASSUME NEW r \in Realms, NEW g \in Nat, FetchStep(r, g) PROVE Goal
  <2>1. stack = <<>> \/ Top[1] # "close"
    BY <1>5 DEF FetchStep, At, Resting, AppRuns
  <2>2. \A q \in Realms : (frame'[q].loaded => frame[q].loaded) /\ (frame[q].late => frame'[q].late)
    BY <1>5 DEF FetchStep, Others, SameLoads
  <2>3. \A k \in Cards : card'[k].disposed => card[k].disposed
    BY <1>5 DEF FetchStep, OtherCards, Freeing
  <2> QED  BY <2>1, <2>2, <2>3 DEF Still
<1>6. ASSUME NEW r \in Realms, NEW d \in Conts, d = "frames" => r \in Cards, CloseStep(r, d) PROVE Goal
  BY <1>6
<1>7. ASSUME NEW r \in Realms, ResetStep(r) PROVE Goal
  <2>1. stack = <<>> \/ Top[1] # "close"
    BY <1>7 DEF ResetStep, At, Resting, AppRuns
  <2>2. \A q \in Realms : (frame'[q].loaded => frame[q].loaded) /\ (frame[q].late => frame'[q].late)
    BY <1>7 DEF ResetStep, Others, SameLoads
  <2>3. \A k \in Cards : card'[k].disposed => card[k].disposed
    BY <1>7 DEF ResetStep, OtherCards, Freeing
  <2> QED  BY <2>1, <2>2, <2>3 DEF Still
<1>8. ASSUME NEW r \in Realms, IdleStep(r) PROVE Goal
  <2>1. stack = <<>> \/ Top[1] # "close"
    BY <1>8 DEF IdleStep, At, Resting, AppRuns
  <2>2. \A q \in Realms : (frame'[q].loaded => frame[q].loaded) /\ (frame[q].late => frame'[q].late)
    BY <1>8 DEF IdleStep, Others, SameLoads
  <2>3. \A k \in Cards : card'[k].disposed => card[k].disposed
    BY <1>8 DEF IdleStep, OtherCards, Freeing
  <2> QED  BY <2>1, <2>2, <2>3 DEF Still
<1>9. ASSUME NEW r \in Realms, HearStep(r) PROVE Goal
  <2>1. stack = <<>> \/ Top[1] # "close"
    BY <1>9 DEF HearStep, At, Resting, AppRuns
  <2>2. \A q \in Realms : (frame'[q].loaded => frame[q].loaded) /\ (frame[q].late => frame'[q].late)
    BY <1>9 DEF HearStep, Others, SameLoads
  <2>3. \A k \in Cards : card'[k].disposed => card[k].disposed
    BY <1>9 DEF HearStep, OtherCards, Freeing
  <2> QED  BY <2>1, <2>2, <2>3 DEF Still
<1>10. ASSUME NEW r \in Realms, MoveStep(r) PROVE Goal
  <2>1. stack = <<>> \/ Top[1] # "close"
    BY <1>10 DEF MoveStep, At, Resting, AppRuns
  <2>2. \A q \in Realms : (frame'[q].loaded => frame[q].loaded) /\ (frame[q].late => frame'[q].late)
    BY <1>10 DEF MoveStep, Others, SameLoads
  <2>3. \A k \in Cards : card'[k].disposed => card[k].disposed
    BY <1>10 DEF MoveStep, OtherCards, Freeing
  <2> QED  BY <2>1, <2>2, <2>3 DEF Still
<1>11. ASSUME NEW c \in Cards, BootStep(c) PROVE Goal
  <2>1. stack = <<>> \/ Top[1] # "close"
    BY <1>11 DEF BootStep, At, Resting, AppRuns
  <2>2. \A q \in Realms : (frame'[q].loaded => frame[q].loaded) /\ (frame[q].late => frame'[q].late)
    BY <1>11 DEF BootStep, Others, SameLoads
  <2>3. \A k \in Cards : card'[k].disposed => card[k].disposed
    BY <1>11 DEF BootStep, OtherCards, Freeing
  <2> QED  BY <2>1, <2>2, <2>3 DEF Still
<1>12. ASSUME NEW c \in Cards, LoadedStep(c) PROVE Goal
  <2>1. stack = <<>> \/ Top[1] # "close"
    BY <1>12 DEF LoadedStep, At, Resting, AppRuns
  <2>2. \A q \in Realms : (frame'[q].loaded => frame[q].loaded) /\ (frame[q].late => frame'[q].late)
    BY <1>12 DEF LoadedStep, Others, SameLoads
  <2>3. \A k \in Cards : card'[k].disposed => card[k].disposed
    BY <1>12 DEF LoadedStep, OtherCards, Freeing
  <2> QED  BY <2>1, <2>2, <2>3 DEF Still
<1>13. ASSUME NEW c \in Cards, DisposeStep(c) PROVE Goal
  BY <1>13
<1>14. ASSUME NEW c \in Cards, OwingStep(c) PROVE Goal
  <2>1. stack = <<>> \/ Top[1] # "close"
    BY <1>14 DEF OwingStep, At, Resting, AppRuns
  <2>2. \A q \in Realms : (frame'[q].loaded => frame[q].loaded) /\ (frame[q].late => frame'[q].late)
    BY <1>14 DEF OwingStep, Others, SameLoads
  <2>3. \A k \in Cards : card'[k].disposed => card[k].disposed
    BY <1>14 DEF OwingStep, OtherCards, Freeing
  <2> QED  BY <2>1, <2>2, <2>3 DEF Still
<1>15. ASSUME NEW c \in Cards, FramesStep(c) PROVE Goal
  <2>1. stack = <<>> \/ Top[1] # "close"
    BY <1>15 DEF FramesStep, At, Resting, AppRuns
  <2>2. \A q \in Realms : (frame'[q].loaded => frame[q].loaded) /\ (frame[q].late => frame'[q].late)
    BY <1>15 DEF FramesStep, Others, SameLoads
  <2>3. \A k \in Cards : card'[k].disposed => card[k].disposed
    BY <1>15 DEF FramesStep, OtherCards, Freeing
  <2> QED  BY <2>1, <2>2, <2>3 DEF Still
<1>16. ASSUME NEW c \in Cards, RecordsStep(c) PROVE Goal
  <2>1. stack = <<>> \/ Top[1] # "close"
    BY <1>16 DEF RecordsStep, At, Resting, AppRuns
  <2>2. \A q \in Realms : (frame'[q].loaded => frame[q].loaded) /\ (frame[q].late => frame'[q].late)
    BY <1>16 DEF RecordsStep, Others, SameLoads
  <2>3. \A k \in Cards : card'[k].disposed => card[k].disposed
    BY <1>16 DEF RecordsStep, OtherCards, Freeing
  <2> QED  BY <2>1, <2>2, <2>3 DEF Still
<1>17. ASSUME NEW c \in Cards, ArriveStep(c) PROVE Goal
  <2>1. stack = <<>> \/ Top[1] # "close"
    BY <1>17 DEF ArriveStep, At, Resting, AppRuns
  <2>2. \A q \in Realms : (frame'[q].loaded => frame[q].loaded) /\ (frame[q].late => frame'[q].late)
    BY <1>17 DEF ArriveStep, Others, SameLoads
  <2>3. \A k \in Cards : card'[k].disposed => card[k].disposed
    BY <1>17 DEF ArriveStep, OtherCards, Freeing
  <2> QED  BY <2>1, <2>2, <2>3 DEF Still
<1>18. ASSUME NEW c \in Cards, FlushStep(c) PROVE Goal
  <2>1. stack = <<>> \/ Top[1] # "close"
    BY <1>18 DEF FlushStep, At, Resting, AppRuns
  <2>2. \A q \in Realms : (frame'[q].loaded => frame[q].loaded) /\ (frame[q].late => frame'[q].late)
    BY <1>18 DEF FlushStep, Others, SameLoads
  <2>3. \A k \in Cards : card'[k].disposed => card[k].disposed
    BY <1>18 DEF FlushStep, OtherCards, Freeing
  <2> QED  BY <2>1, <2>2, <2>3 DEF Still
<1>19. ASSUME NEW c \in Cards, CloseRealmStep(c) PROVE Goal
  <2>1. stack = <<>> \/ Top[1] # "close"
    BY <1>19 DEF CloseRealmStep, At, Resting, AppRuns
  <2>2. \A q \in Realms : (frame'[q].loaded => frame[q].loaded) /\ (frame[q].late => frame'[q].late)
    BY <1>19 DEF CloseRealmStep, Others, SameLoads
  <2>3. \A k \in Cards : card'[k].disposed => card[k].disposed
    BY <1>19 DEF CloseRealmStep, OtherCards, Freeing
  <2> QED  BY <2>1, <2>2, <2>3 DEF Still
<1>20. ASSUME NEW c \in Cards, AckStep(c) PROVE Goal
  <2>1. stack = <<>> \/ Top[1] # "close"
    BY <1>20 DEF AckStep, At, Resting, AppRuns
  <2>2. \A q \in Realms : (frame'[q].loaded => frame[q].loaded) /\ (frame[q].late => frame'[q].late)
    BY <1>20 DEF AckStep, Others, SameLoads
  <2>3. \A k \in Cards : card'[k].disposed => card[k].disposed
    BY <1>20 DEF AckStep, OtherCards, Freeing
  <2> QED  BY <2>1, <2>2, <2>3 DEF Still
<1>21. ASSUME NEW c \in Cards, BtsStep(c) PROVE Goal
  <2>1. stack = <<>> \/ Top[1] # "close"
    BY <1>21 DEF BtsStep, At, Resting, AppRuns
  <2>2. \A q \in Realms : (frame'[q].loaded => frame[q].loaded) /\ (frame[q].late => frame'[q].late)
    BY <1>21 DEF BtsStep, Others, SameLoads
  <2>3. \A k \in Cards : card'[k].disposed => card[k].disposed
    BY <1>21 DEF BtsStep, OtherCards, Freeing
  <2> QED  BY <2>1, <2>2, <2>3 DEF Still
<1>22. ASSUME NEW c \in Cards, ObserveStep(c) PROVE Goal
  <2>1. stack = <<>> \/ Top[1] # "close"
    BY <1>22 DEF ObserveStep, At, Resting, AppRuns
  <2>2. \A q \in Realms : (frame'[q].loaded => frame[q].loaded) /\ (frame[q].late => frame'[q].late)
    BY <1>22 DEF ObserveStep, Others, SameLoads
  <2>3. \A k \in Cards : card'[k].disposed => card[k].disposed
    BY <1>22 DEF ObserveStep, OtherCards, Freeing
  <2> QED  BY <2>1, <2>2, <2>3 DEF Still
<1>23. CASE HeardStep
  <2>1. stack = <<>> \/ Top[1] # "close"
    BY <1>23 DEF HeardStep, At, Resting, AppRuns
  <2>2. \A q \in Realms : (frame'[q].loaded => frame[q].loaded) /\ (frame[q].late => frame'[q].late)
    BY <1>23 DEF HeardStep, Others, SameLoads
  <2>3. \A k \in Cards : card'[k].disposed => card[k].disposed
    BY <1>23 DEF HeardStep, OtherCards, Freeing
  <2> QED  BY <2>1, <2>2, <2>3 DEF Still
<1>24. CASE EpilogueStep
  <2>1. stack = <<>> \/ Top[1] # "close"
    BY <1>24 DEF EpilogueStep, At, Resting, AppRuns
  <2>2. \A q \in Realms : (frame'[q].loaded => frame[q].loaded) /\ (frame[q].late => frame'[q].late)
    BY <1>24 DEF EpilogueStep, Others, SameLoads
  <2>3. \A k \in Cards : card'[k].disposed => card[k].disposed
    BY <1>24 DEF EpilogueStep, OtherCards, Freeing
  <2> QED  BY <2>1, <2>2, <2>3 DEF Still
<1>25. CASE OpenStep
  <2>1. stack = <<>> \/ Top[1] # "close"
    BY <1>25 DEF OpenStep, At, Resting, AppRuns
  <2>2. \A q \in Realms : (frame'[q].loaded => frame[q].loaded) /\ (frame[q].late => frame'[q].late)
    BY <1>25 DEF OpenStep, Others, SameLoads
  <2>3. \A k \in Cards : card'[k].disposed => card[k].disposed
    BY <1>25 DEF OpenStep, OtherCards, Freeing
  <2> QED  BY <2>1, <2>2, <2>3 DEF Still
<1>26. CASE OpenEventsStep
  <2>1. stack = <<>> \/ Top[1] # "close"
    BY <1>26 DEF OpenEventsStep, At, Resting, AppRuns
  <2>2. \A q \in Realms : (frame'[q].loaded => frame[q].loaded) /\ (frame[q].late => frame'[q].late)
    BY <1>26 DEF OpenEventsStep, Others, SameLoads
  <2>3. \A k \in Cards : card'[k].disposed => card[k].disposed
    BY <1>26 DEF OpenEventsStep, OtherCards, Freeing
  <2> QED  BY <2>1, <2>2, <2>3 DEF Still
<1>27. CASE OpenRecordsStep
  <2>1. stack = <<>> \/ Top[1] # "close"
    BY <1>27 DEF OpenRecordsStep, At, Resting, AppRuns
  <2>2. \A q \in Realms : (frame'[q].loaded => frame[q].loaded) /\ (frame[q].late => frame'[q].late)
    BY <1>27 DEF OpenRecordsStep, Others, SameLoads
  <2>3. \A k \in Cards : card'[k].disposed => card[k].disposed
    BY <1>27 DEF OpenRecordsStep, OtherCards, Freeing
  <2> QED  BY <2>1, <2>2, <2>3 DEF Still
<1>28. CASE RecordStep
  <2>1. stack = <<>> \/ Top[1] # "close"
    BY <1>28 DEF RecordStep, At, Resting, AppRuns
  <2>2. \A q \in Realms : (frame'[q].loaded => frame[q].loaded) /\ (frame[q].late => frame'[q].late)
    BY <1>28 DEF RecordStep, Others, SameLoads
  <2>3. \A k \in Cards : card'[k].disposed => card[k].disposed
    BY <1>28 DEF RecordStep, OtherCards, Freeing
  <2> QED  BY <2>1, <2>2, <2>3 DEF Still
<1>29. CASE BeginStep
  <2>1. stack = <<>> \/ Top[1] # "close"
    BY <1>29 DEF BeginStep, At, Resting, AppRuns
  <2>2. \A q \in Realms : (frame'[q].loaded => frame[q].loaded) /\ (frame[q].late => frame'[q].late)
    BY <1>29 DEF BeginStep, Others, SameLoads
  <2>3. \A k \in Cards : card'[k].disposed => card[k].disposed
    BY <1>29 DEF BeginStep, OtherCards, Freeing
  <2> QED  BY <2>1, <2>2, <2>3 DEF Still
<1> QED  BY <1>1, <1>2, <1>3, <1>4, <1>5, <1>6, <1>7, <1>8, <1>9, <1>10, <1>11, <1>12, <1>13,
            <1>14, <1>15, <1>16, <1>17, <1>18, <1>19, <1>20, <1>21, <1>22, <1>23, <1>24, <1>25,
            <1>26, <1>27, <1>28, <1>29 DEF Does

(* A card's frame is closed with it, and loads again only as one that      *)
(* lags.                                                                   *)
LEMMA LetGoesKept ==
  ASSUME Typed, Shape, Resting, LetGoes, Kinds', Does
  PROVE  LetGoes'
<1> USE AnItem
<1>1. CASE Still
  <2>1. ASSUME NEW r \in Cards, card'[r].disposed, ~frame'[r].late PROVE ~frame'[r].loaded
    BY <1>1, <2>1 DEF Still, LetGoes, At
  <2> QED  BY <2>1 DEF LetGoes
<1>2. ASSUME NEW q \in Realms, NEW s \in Srcs, SourceStep(q, s) PROVE LetGoes'
  <2>1. Top[1] = "source"
    BY <1>2 DEF SourceStep, At
  <2>2. ASSUME NEW r \in Cards, card'[r].disposed, ~frame'[r].late PROVE ~frame'[r].loaded
    <3>1. card' = card /\ Others(q) /\ frame'[q].late = (frame[q].late \/ LetGo(q))
      BY <1>2 DEF SourceStep
    <3>2. r # q
      BY <2>2, <3>1 DEF LetGo, Page
    <3>3. frame'[r] = frame[r]
      BY <3>1, <3>2 DEF Others
    <3> QED  BY <2>1, <2>2, <3>1, <3>3 DEF LetGoes, At
  <2> QED  BY <2>2 DEF LetGoes
<1>3. ASSUME NEW q \in Realms, NEW d \in Conts, CloseStep(q, d) PROVE LetGoes'
  <2>1. Top[2] = q
    BY <1>3 DEF CloseStep, At
  <2>2. ASSUME NEW r \in Cards, card'[r].disposed, ~frame'[r].late PROVE ~frame'[r].loaded
    <3>1. CASE r = q
      BY <1>3, <3>1 DEF CloseStep
    <3>2. CASE r # q
      <4>1. frame'[r] = frame[r] /\ card'[r].disposed = card[r].disposed
        BY <1>3, <3>2 DEF CloseStep, Others, OtherCards
      <4>2. ~At("close", r, "frames")
        BY <2>1, <3>2 DEF At
      <4> QED  BY <2>2, <4>1, <4>2 DEF LetGoes
    <3> QED  BY <3>1, <3>2
  <2> QED  BY <2>2 DEF LetGoes
<1>4. ASSUME NEW c \in Cards, DisposeStep(c) PROVE LetGoes'
  <2>1. Top[1] = "dispose" /\ UNCHANGED frame /\ OtherCards(c)
    BY <1>4 DEF DisposeStep, At
  <2>2. stack' # <<>> /\ Top' = (IF frame[c].loaded THEN <<"close", c, "frames">> ELSE <<"owing", c, 0>>)
    BY <1>4, DisposeStack
  <2>3. ASSUME NEW r \in Cards, card'[r].disposed, ~frame'[r].late
        PROVE  ~frame'[r].loaded \/ At("close", r, "frames")'
    <3>1. CASE r = c
      BY <2>1, <2>2, <3>1 DEF At
    <3>2. CASE r # c
      <4>1. card[r].disposed
        BY <2>1, <2>3, <3>2 DEF OtherCards
      <4> QED  BY <2>1, <2>3, <4>1 DEF LetGoes, At
    <3> QED  BY <3>1, <3>2
  <2> QED  BY <2>3 DEF LetGoes
<1> QED  BY <1>1, <1>2, <1>3, <1>4, StillOrNot

(* A card at work is one its frame holds, or whose disposal has begun.     *)
AtWork(c) == card[c].st \in {"booting", "booted"} /\ ~card[c].disposed /\ card[c].host \notin Belated
HeldFast(c) == /\ Alive(card[c].host)
               /\ frame[card[c].host].dispose = c \/ card[c].done # "none"
Keeps == \A c \in Cards : AtWork(c) => HeldFast(c)

(* Keeps, a card at a time.                                                *)
LEMMA KeepsMeans ==
  /\ Keeps <=> \A c \in Cards : AtWork(c) => HeldFast(c)
  /\ Keeps' <=> \A c \in Cards : AtWork(c)' => HeldFast(c)'
BY DEF Keeps

(* What lags stays behind.                                                 *)
LEMMA BelatedGrows ==
  ASSUME \A r \in Realms : frame[r].late => frame'[r].late,
         \A k \in Cards : UNCHANGED card[k].host
  PROVE  Belated \subseteq Belated'
<1>1. ASSUME NEW S \in SUBSET Realms, Lags(S)' PROVE Lags(S)
  <2>1. ASSUME NEW r \in Realms, frame[r].late \/ (r # Page /\ card[r].host \in S) PROVE r \in S
    <3>1. r # Page => r \in Cards
      BY AnItem DEF Page
    <3>2. frame'[r].late \/ (r # Page /\ card'[r].host \in S)
      BY <2>1, <3>1
    <3> QED  BY <1>1, <3>2 DEF Lags
  <2> QED  BY <2>1 DEF Lags
<1>2. ASSUME NEW r \in Belated PROVE r \in Belated'
  <2>1. r \in Realms /\ \A S \in SUBSET Realms : Lags(S) => r \in S
    BY DEF Belated
  <2>2. \A S \in SUBSET Realms : Lags(S)' => r \in S
    BY <1>1, <2>1
  <2> QED  BY <2>1, <2>2 DEF Belated
<1> QED  BY <1>2

(* A frame that lags is behind, and so is whatever is under it.            *)
LEMMA BelatedUp ==
  /\ \A r \in Realms : frame[r].late => r \in Belated
  /\ \A c \in Cards : card[c].host \in Belated => c \in Belated
<1>1. ASSUME NEW r \in Realms, frame[r].late PROVE r \in Belated
  BY <1>1 DEF Belated, Lags
<1>2. ASSUME NEW c \in Cards, card[c].host \in Belated PROVE c \in Belated
  <2>1. c \in Realms /\ c # Page
    BY AnItem DEF Page
  <2>2. ASSUME NEW S \in SUBSET Realms, Lags(S) PROVE c \in S
    <3>1. card[c].host \in S
      BY <1>2, <2>2 DEF Belated
    <3> QED  BY <2>1, <2>2, <3>1 DEF Lags
  <2> QED  BY <2>1, <2>2 DEF Belated
<1> QED  BY <1>1, <1>2

(* A step that hands no card to work and takes none from its frame.        *)
Firm == /\ \A k \in Cards : /\ UNCHANGED <<card[k].host, card[k].done>>
                            /\ card'[k].st \in {"booting", "booted"} => card[k].st \in {"booting", "booted"}
                            /\ card[k].disposed => card'[k].disposed
        /\ \A q \in Realms : UNCHANGED frame[q].dispose /\ (frame[q].late => frame'[q].late)
Unfirm == \/ \E r \in Realms, g \in Nat : StartStep(r, g)
          \/ \E r \in Realms, d \in Conts : CloseStep(r, d)
          \/ \E c \in Cards : BootStep(c)

(* The steps that may.                                                     *)
LEMMA FirmOrNot ==
  ASSUME Typed, Shape, Flags, Kinds', Does
  PROVE  Firm \/ Unfirm
<1>1. ASSUME NEW r \in Realms, NEW s \in Srcs, SourceStep(r, s) PROVE Firm \/ Unfirm
  BY <1>1 DEF SourceStep, Others, OtherCards, SameLoads, Freeing, Firm
<1>2. ASSUME NEW r \in Realms, NEW s \in Srcs, SetSrcStep(r, s) PROVE Firm \/ Unfirm
  BY <1>2 DEF SetSrcStep, Others, OtherCards, SameLoads, Freeing, Firm
<1>3. ASSUME NEW r \in Realms, NEW g \in Nat, StartStep(r, g) PROVE Firm \/ Unfirm
  BY <1>3 DEF Unfirm
<1>4. ASSUME NEW r \in Realms, NEW g \in Nat, RunStartStep(r, g) PROVE Firm \/ Unfirm
  BY <1>4 DEF RunStartStep, Others, OtherCards, SameLoads, Freeing, Firm
<1>5. ASSUME NEW r \in Realms, NEW g \in Nat, FetchStep(r, g) PROVE Firm \/ Unfirm
  BY <1>5 DEF FetchStep, Others, OtherCards, SameLoads, Freeing, Firm
<1>6. ASSUME NEW r \in Realms, NEW d \in Conts, d = "frames" => r \in Cards, CloseStep(r, d) PROVE Firm \/ Unfirm
  BY <1>6 DEF Unfirm
<1>7. ASSUME NEW r \in Realms, ResetStep(r) PROVE Firm \/ Unfirm
  BY <1>7 DEF ResetStep, Others, OtherCards, SameLoads, Freeing, Firm
<1>8. ASSUME NEW r \in Realms, IdleStep(r) PROVE Firm \/ Unfirm
  BY <1>8 DEF IdleStep, Others, OtherCards, SameLoads, Freeing, Firm
<1>9. ASSUME NEW r \in Realms, HearStep(r) PROVE Firm \/ Unfirm
  BY <1>9 DEF HearStep, Others, OtherCards, SameLoads, Freeing, Firm
<1>10. ASSUME NEW r \in Realms, MoveStep(r) PROVE Firm \/ Unfirm
  BY <1>10 DEF MoveStep, Others, OtherCards, SameLoads, Freeing, Firm
<1>11. ASSUME NEW c \in Cards, BootStep(c) PROVE Firm \/ Unfirm
  BY <1>11 DEF Unfirm
<1>12. ASSUME NEW c \in Cards, LoadedStep(c) PROVE Firm \/ Unfirm
  <2>1. card[c].st = "booting"
    <3>1. At("loading", c, 0)
      BY <1>12 DEF LoadedStep
    <3>2. On("loading", c, 0)
      BY <3>1, AtFacts DEF On
    <3> QED  BY <3>2 DEF Flags
  <2> QED  BY <1>12, <2>1 DEF LoadedStep, OtherCards, Firm
<1>13. ASSUME NEW c \in Cards, DisposeStep(c) PROVE Firm \/ Unfirm
  BY <1>13 DEF DisposeStep, Others, OtherCards, SameLoads, Freeing, Firm
<1>14. ASSUME NEW c \in Cards, OwingStep(c) PROVE Firm \/ Unfirm
  BY <1>14 DEF OwingStep, Others, OtherCards, SameLoads, Freeing, Firm
<1>15. ASSUME NEW c \in Cards, FramesStep(c) PROVE Firm \/ Unfirm
  BY <1>15 DEF FramesStep, Others, OtherCards, SameLoads, Freeing, Firm
<1>16. ASSUME NEW c \in Cards, RecordsStep(c) PROVE Firm \/ Unfirm
  BY <1>16 DEF RecordsStep, Others, OtherCards, SameLoads, Freeing, Firm
<1>17. ASSUME NEW c \in Cards, ArriveStep(c) PROVE Firm \/ Unfirm
  BY <1>17 DEF ArriveStep, Others, OtherCards, SameLoads, Freeing, Firm
<1>18. ASSUME NEW c \in Cards, FlushStep(c) PROVE Firm \/ Unfirm
  BY <1>18 DEF FlushStep, Others, OtherCards, SameLoads, Freeing, Firm
<1>19. ASSUME NEW c \in Cards, CloseRealmStep(c) PROVE Firm \/ Unfirm
  BY <1>19 DEF CloseRealmStep, Others, OtherCards, SameLoads, Freeing, Firm
<1>20. ASSUME NEW c \in Cards, AckStep(c) PROVE Firm \/ Unfirm
  BY <1>20 DEF AckStep, Others, OtherCards, SameLoads, Freeing, Firm
<1>21. ASSUME NEW c \in Cards, BtsStep(c) PROVE Firm \/ Unfirm
  BY <1>21 DEF BtsStep, Others, OtherCards, SameLoads, Freeing, Firm
<1>22. ASSUME NEW c \in Cards, ObserveStep(c) PROVE Firm \/ Unfirm
  BY <1>22 DEF ObserveStep, Others, OtherCards, SameLoads, Freeing, Firm
<1>23. CASE HeardStep
  BY <1>23 DEF HeardStep, Others, OtherCards, SameLoads, Freeing, Firm
<1>24. CASE EpilogueStep
  BY <1>24 DEF EpilogueStep, Others, OtherCards, SameLoads, Freeing, Firm
<1>25. CASE OpenStep
  BY <1>25 DEF OpenStep, Others, OtherCards, SameLoads, Freeing, Firm
<1>26. CASE OpenEventsStep
  BY <1>26 DEF OpenEventsStep, Others, OtherCards, SameLoads, Freeing, Firm
<1>27. CASE OpenRecordsStep
  BY <1>27 DEF OpenRecordsStep, Others, OtherCards, SameLoads, Freeing, Firm
<1>28. CASE RecordStep
  BY <1>28 DEF RecordStep, Others, OtherCards, SameLoads, Freeing, Firm
<1>29. CASE BeginStep
  BY <1>29 DEF BeginStep, Others, OtherCards, SameLoads, Freeing, Firm
<1> QED  BY <1>1, <1>2, <1>3, <1>4, <1>5, <1>6, <1>7, <1>8, <1>9, <1>10, <1>11, <1>12, <1>13,
            <1>14, <1>15, <1>16, <1>17, <1>18, <1>19, <1>20, <1>21, <1>22, <1>23, <1>24, <1>25,
            <1>26, <1>27, <1>28, <1>29 DEF Does

(* Such a step.                                                            *)
LEMMA FirmKeeps ==
  ASSUME Typed, Keeps, Kinds', Lives, Firm
  PROVE  Keeps'
<1>1. Belated \subseteq Belated'
  BY BelatedGrows DEF Firm
<1>2. ASSUME NEW k \in Cards, AtWork(k)' PROVE HeldFast(k)'
  <2>1. UNCHANGED <<card[k].host, card[k].done>> /\ card[k].host \in Realms
    BY HostFacts DEF Firm
  <2>2. AtWork(k)
    BY <1>1, <1>2, <2>1 DEF AtWork, Firm
  <2>3. HeldFast(k)
    BY <2>2 DEF Keeps
  <2>4. Alive(card[k].host)'
    <3>1. card[k].host = Page \/ card[k].host \in Cards
      BY <2>1, AnItem DEF Page
    <3> QED  BY <2>1, <2>3, <3>1 DEF HeldFast, Lives, Alive
  <2>5. UNCHANGED frame[card[k].host].dispose
    BY <2>1 DEF Firm
  <2> QED  BY <2>1, <2>3, <2>4, <2>5 DEF HeldFast
<1> QED  BY <1>2, KeepsMeans

(* A card at work, between calls, is its frame's.                          *)
LEMMA HeldAtRest ==
  ASSUME Typed, Links, Flags, Keeps, stack = <<>>, NEW k \in Cards, AtWork(k)
  PROVE  /\ card[k].host \in Realms /\ Alive(card[k].host)
         /\ frame[card[k].host].dispose = k /\ frame[card[k].host].realm = k
         /\ frame[card[k].host].loaded
<1>1. HeldFast(k) /\ card[k].host \in Realms
  BY HostFacts DEF Keeps
<1>2. card[k].done = "none"
  BY DEF Flags, AtWork, At
<1>3. frame[card[k].host].dispose = k
  BY <1>1, <1>2 DEF HeldFast
<1>4. frame[card[k].host].realm = k
  <2>1. Ready(card[k].host)
    BY <1>1, LinksMeans
  <2>2. k # 0
    BY AnItem
  <2> QED  BY <1>3, <2>1, <2>2 DEF Ready
<1>5. Kept(k, card[k].host)
  BY <1>1, <1>4, LinksMeans
<1> QED  BY <1>1, <1>3, <1>4, <1>5 DEF Kept, HeldFast

(* The host of a card at work is at work itself, or the page's realm.      *)
LEMMA WorksUp ==
  ASSUME Typed, Runs, Links, Flags, LetGoes, Keeps, stack = <<>>, NEW k \in Cards, AtWork(k),
         NEW h \in Cards, card[k].host = h
  PROVE  AtWork(h) /\ ~card[h].retired
<1>1. Alive(h) /\ frame[h].loaded /\ h \notin Belated
  BY HeldAtRest DEF AtWork
<1>2. ~frame[h].late /\ card[h].host \notin Belated
  BY <1>1, BelatedUp, AnItem
<1>3. ~card[h].disposed
  BY <1>1, <1>2 DEF LetGoes, At
<1>4. ~card[h].retired
  BY <1>3 DEF Flags
<1>5. Ran(h)
  BY <1>1, AnItem DEF Runs
<1>6. card[h].st \in {"booting", "booted"}
  BY <1>1, <1>3, <1>5, AnItem DEF Ran, Alive, Page
<1> QED  BY <1>2, <1>3, <1>4, <1>6 DEF AtWork

(* A release frees no host of a card at work.                              *)
LEMMA FreeingKeeps ==
  ASSUME Typed, Runs, Links, Flags, LetGoes, Keeps, NEW loads, Freeing(loads),
         stack = <<>>, UNCHANGED frame
  PROVE  Keeps'
<1> DEFINE H == {h \in Cards : \E k \in Cards : AtWork(k) /\ card[k].host = h}
           S == Cards \ H
<1>1. ASSUME NEW h \in Cards, h \in H, ~Alive(h) \/ card[h].retired \/ Unneeded(h, S, loads)
      PROVE  FALSE
  <2>1. PICK k \in Cards : AtWork(k) /\ card[k].host = h
    BY <1>1
  <2>2. Alive(h)
    BY <2>1, HeldAtRest
  <2>3. AtWork(h) /\ ~card[h].retired
    BY <2>1, WorksUp
  <2>4. frame[card[h].host].realm = h /\ card[h].host \in Realms
    BY <2>3, HeldAtRest
  <2>5. card[h].host \notin S
    BY <2>3
  <2>6. Referenced(h, S)
    BY <2>4, <2>5 DEF Referenced
  <2> QED  BY <1>1, <2>2, <2>3, <2>6 DEF Unneeded
<1>2. Gone(S, loads)
  BY <1>1 DEF Gone
<1>3. \A h \in H : h \notin Releasable(loads)
  BY <1>2 DEF Releasable
<1> HIDE DEF H, S
<1>4. Belated \subseteq Belated'
  BY BelatedGrows DEF Freeing
<1>5. ASSUME NEW k \in Cards, AtWork(k)' PROVE HeldFast(k)'
  <2>1. UNCHANGED <<card[k].host, card[k].done, card[k].disposed>>
    BY DEF Freeing
  <2>2. AtWork(k)
    BY <1>4, <1>5, <2>1 DEF AtWork, Freeing
  <2>3. card[k].host \in Realms /\ HeldFast(k)
    BY <2>2, HostFacts DEF Keeps
  <2>4. Alive(card[k].host)'
    <3>1. CASE card[k].host = Page
      BY <2>1, <3>1 DEF Alive
    <3>2. CASE card[k].host # Page
      <4>1. card[k].host \in Cards
        BY <2>3, <3>2, AnItem DEF Page
      <4>2. card[k].host \in H
        BY <2>2, <4>1 DEF H
      <4>3. card'[card[k].host].st = card[card[k].host].st
        BY SMTT(30), <1>3, <4>1, <4>2 DEF Freeing
      <4> QED  BY <2>1, <2>3, <4>3 DEF HeldFast, Alive
    <3> QED  BY <3>1, <3>2
  <2> QED  BY <2>1, <2>3, <2>4 DEF HeldFast
<1> QED  BY <1>5, KeepsMeans

(* A card made is not at work yet.                                         *)
LEMMA StartKeeps ==
  ASSUME Typed, Life, BootJobs, Keeps, Kinds', Lives, NEW r \in Realms, NEW g \in Nat, StartStep(r, g)
  PROVE  Keeps'
<1>1. CASE UNCHANGED <<frame, card>>
  <2>1. Firm
    BY <1>1 DEF Firm
  <2> QED  BY <2>1, FirmKeeps
<1>2. CASE UNCHANGED card /\ Others(r) /\ UNCHANGED <<frame[r].dispose, frame[r].late>>
  <2>1. Firm
    BY <1>2 DEF Firm, Others
  <2> QED  BY <2>1, FirmKeeps
<1>3. ASSUME NEW c \in Cards, card[c].st = "unmade", OtherCards(c), card'[c].st = "made",
             card'[c].host = r, UNCHANGED card[c].disposed, Others(r),
             UNCHANGED <<frame[r].dispose, frame[r].late>>
      PROVE  Keeps'
  <2>1. ASSUME NEW k \in Cards, k # c, card[k].host = c PROVE card[k].st = "unmade"
    BY <1>3, <2>1, AnItem DEF Life, Page
  <2>2. \A q \in Realms : UNCHANGED <<frame[q].dispose, frame[q].late>>
    BY <1>3 DEF Others
  <2>3. ASSUME NEW b \in Belated, b # c, b = Page \/ card[b].st # "unmade" PROVE b \in Belated'
    <3>1. ASSUME NEW S \in SUBSET Realms, Lags(S)' PROVE b \in S
      <4> DEFINE W == S \cup {c} \cup {k \in Cards : card[k].st = "unmade"}
      <4>1. W \in SUBSET Realms
        BY AnItem
      <4>2. ASSUME NEW q \in Realms, frame[q].late \/ (q # Page /\ card[q].host \in W) PROVE q \in W
        <5>1. CASE frame[q].late
          BY <2>2, <3>1, <5>1 DEF Lags
        <5>2. CASE q # Page /\ card[q].host \in W
          <6>1. q \in Cards
            BY <5>2, AnItem DEF Page
          <6>2. CASE q = c \/ card[q].st = "unmade"
            BY <6>1, <6>2
          <6>3. CASE q # c /\ card[q].st # "unmade"
            <7>1. card[q].host = Page \/ card[card[q].host].st # "unmade"
              BY <6>1, <6>3 DEF Life
            <7>2. card[q].host # c
              BY <2>1, <6>1, <6>3
            <7>3. card[q].host \in S
              BY <5>2, <7>1, <7>2, AnItem
            <7>4. card'[q].host \in S
              BY <1>3, <6>1, <6>3, <7>3 DEF OtherCards
            <7> QED  BY <3>1, <5>2, <7>4 DEF Lags
          <6> QED  BY <6>2, <6>3
        <5> QED  BY <4>2, <5>1, <5>2
      <4>3. Lags(W)
        BY <4>2 DEF Lags
      <4>4. b \in W
        BY <4>1, <4>3 DEF Belated
      <4> QED  BY <2>3, <4>4, AnItem
    <3>2. b \in Realms
      BY DEF Belated
    <3> QED  BY <3>1, <3>2 DEF Belated
  <2>4. ASSUME NEW k \in Cards, AtWork(k)' PROVE HeldFast(k)'
    <3>1. k # c
      BY <1>3, <2>4 DEF AtWork
    <3>2. card'[k] = card[k]
      BY <1>3, <3>1 DEF OtherCards
    <3>3. card[k].st # "unmade" /\ card[k].host \in Realms
      BY <2>4, <3>2, HostFacts DEF AtWork
    <3>4. card[k].host # c /\ (card[k].host = Page \/ card[card[k].host].st # "unmade")
      BY <2>1, <3>1, <3>3 DEF Life
    <3>5. card[k].host \notin Belated
      BY <2>3, <2>4, <3>2, <3>4 DEF AtWork
    <3>6. HeldFast(k)
      BY <2>4, <3>2, <3>5 DEF AtWork, Keeps
    <3>7. Alive(card[k].host)'
      <4>1. card[k].host = Page \/ card[k].host \in Cards
        BY <3>3, AnItem DEF Page
      <4> QED  BY <3>2, <3>6, <4>1 DEF HeldFast, Lives, Alive
    <3> QED  BY <2>2, <3>2, <3>3, <3>6, <3>7 DEF HeldFast
  <2> QED  BY <2>4, KeepsMeans
<1> QED  BY <1>1, <1>2, <1>3 DEF StartStep

(* A card that begins its work is its frame's.                             *)
LEMMA BootKeeps ==
  ASSUME Typed, BootJobs, Links, Flags, Keeps, Kinds', Lives, NEW c \in Cards, BootStep(c)
  PROVE  Keeps'
<1>1. /\ \A k \in Cards : UNCHANGED <<card[k].host, card[k].done, card[k].disposed>>
      /\ \A k \in Cards : k # c => UNCHANGED card[k].st
      /\ \A q \in Realms : UNCHANGED frame[q].late
  BY DEF BootStep, OtherCards, SameLoads
<1>2. Belated \subseteq Belated'
  BY <1>1, BelatedGrows
<1>3. Bootable(c) /\ stack = <<>>
  BY BootMeans DEF BootStep
<1>4. ASSUME NEW k \in Cards, AtWork(k)' PROVE HeldFast(k)'
  <2>1. card[k].host \in Realms /\ (card[k].host = Page \/ card[k].host \in Cards)
    BY HostFacts
  <2>2. CASE k = c
    <3>1. Current(c)
      BY <1>3, <1>4, <2>2 DEF BootStep, AtWork, Bootable
    <3>2. frame'[card[c].host].dispose = c
      BY <2>1, <2>2, <3>1 DEF BootStep
    <3>3. Alive(card[c].host)'
      BY <1>1, <1>3, <2>1, <2>2 DEF Bootable, Lives, Alive
    <3> QED  BY <1>1, <2>2, <3>2, <3>3 DEF HeldFast
  <2>3. CASE k # c
    <3>1. AtWork(k)
      BY <1>1, <1>2, <1>4, <2>3 DEF AtWork
    <3>2. Alive(card[k].host) /\ frame[card[k].host].dispose = k
      BY <1>3, <3>1, HeldAtRest
    <3>3. ~(card[k].host = card[c].host /\ Current(c))
      <4>1. Current(c) => frame[card[c].host].dispose = 0
        BY <1>3 DEF Bootable
      <4>2. k # 0
        BY AnItem
      <4> QED  BY <3>2, <4>1, <4>2
    <3>4. frame'[card[k].host].dispose = k
      BY <2>1, <3>2, <3>3 DEF BootStep
    <3>5. Alive(card[k].host)'
      BY <1>1, <2>1, <3>2 DEF Lives, Alive
    <3> QED  BY <1>1, <3>4, <3>5 DEF HeldFast
  <2> QED  BY <2>2, <2>3
<1> QED  BY <1>4, KeepsMeans

(* A card no longer its frame's has its disposal begun.                    *)
LEMMA CloseKeeps ==
  ASSUME Typed, Links, Keeps, Kinds', Lives, NEW r \in Realms, NEW d \in Conts, CloseStep(r, d)
  PROVE  Keeps'
<1>1. /\ \A k \in Cards : /\ UNCHANGED <<card[k].host, card[k].st, card[k].disposed>>
                          /\ UNCHANGED card[k].done \/ card'[k].done # "none"
                          /\ frame[r].dispose = k => card'[k].done # "none"
      /\ \A q \in Realms : UNCHANGED frame[q].late /\ (q # r => UNCHANGED frame[q].dispose)
  <2>1. d # "none"
    BY DEF Conts
  <2>2. \A k \in Cards : k # 0
    BY AnItem
  <2> QED  BY ZenonT(60), <2>1, <2>2 DEF CloseStep, Others, OtherCards
<1>2. Belated \subseteq Belated'
  BY <1>1, BelatedGrows
<1>3. ASSUME NEW k \in Cards, AtWork(k)' PROVE HeldFast(k)'
  <2>1. card[k].host \in Realms /\ (card[k].host = Page \/ card[k].host \in Cards)
    BY HostFacts
  <2>2. AtWork(k)
    BY <1>1, <1>2, <1>3 DEF AtWork
  <2>3. HeldFast(k)
    BY <2>2 DEF Keeps
  <2>4. Alive(card[k].host)'
    BY <1>1, <2>1, <2>3 DEF HeldFast, Lives, Alive
  <2>5. frame'[card[k].host].dispose = k \/ card'[k].done # "none"
    <3>1. CASE card[k].done # "none"
      BY <1>1, <3>1
    <3>2. CASE frame[card[k].host].dispose = k
      BY <1>1, <2>1, <3>2
    <3> QED  BY <2>3, <3>1, <3>2 DEF HeldFast
  <2> QED  BY <1>1, <2>4, <2>5 DEF HeldFast
<1> QED  BY <1>3, KeepsMeans

(* A card at work stays with its frame.                                    *)
LEMMA KeepsKept ==
  ASSUME Core, LetGoes, Keeps, Kinds', Does
  PROVE  Keeps'
<1>1. Typed /\ Shape /\ Runs /\ Links /\ BootJobs /\ Flags /\ Life
  BY DEF Core
<1>2. CASE Frees
  BY <1>1, <1>2, FreeingKeeps DEF Frees
<1>3. CASE Lives
  <2>1. CASE Firm
    BY <1>1, <1>3, <2>1, FirmKeeps
  <2>2. CASE Unfirm
    BY <1>1, <1>3, <2>2, StartKeeps, BootKeeps, CloseKeeps DEF Unfirm
  <2> QED  BY <1>1, <2>1, <2>2, FirmOrNot
<1> QED  BY <1>1, <1>2, <1>3, AliveKept

(* NoOrphan: a running card is one its frame will let go of.               *)
LEMMA Orphans ==
  ASSUME Core, LetGoes, Keeps
  PROVE  NoOrphan
<1>1. Typed /\ Links /\ Flags
  BY DEF Core
<1>2. ASSUME NEW c \in Cards, Orphan(c), card[c].host \notin Belated PROVE FALSE
  <2>1. AtWork(c) /\ stack = <<>>
    BY <1>2 DEF Orphan, AtWork
  <2>2. Alive(card[c].host) /\ frame[card[c].host].dispose = c
    BY <1>1, <2>1, HeldAtRest
  <2> QED  BY <1>2, <2>2 DEF Orphan
<1> QED  BY <1>2 DEF NoOrphan


-----------------------------------------------------------------------------
(* What a frame owes its reset, and what a card let go of waits for: as    *)
(* many as there are to pay.                                               *)

(* How many cards and calls a frame, or a card let go of, waits for.       *)
Resets(r)  == {<<"close", r, "reset">>, <<"reset", r, 0>>}
Lists(c)   == {<<"close", c, "frames">>, <<"frames", c, 0>>}
Later(c)   == {<<"frames", c, 0>>}
Arrives(c) == {<<"arrive", c, 0>>}
Records(c) == {<<"records", c, 0>>}
Owings(c)  == {<<"owing", c, 0>>}
Out(k) == card[k].disposed => card[k].pending > 0
Hosted(r, d) == {k \in Cards : card[k].host = r /\ card[k].done = d /\ Out(k)}
Stays(r) == r # Page => card[r].st # "freed"
Waiter(c) == IF card[c].wait # "no" THEN 1 ELSE 0
Framed(c) == IF card[c].frames > 0 THEN 1 ELSE 0

OwedAt(r) == frame[r].owed = Count(stack, Resets(r)) + Cardinality(Hosted(r, "reset"))
ListedAt(c) == card[c].frames = Count(stack, Lists(c)) + Count(frame[c].after, Later(c))
                                  + Cardinality(Hosted(c, "frames"))
PendingAt(c) ==
  /\ card[c].pending = Count(stack, Arrives(c)) + Count(stack, Records(c)) + Waiter(c) + Framed(c)
  /\ Count(stack, Records(c)) + Waiter(c) <= 1
  /\ card[c].frames + Count(stack, Owings(c)) <= 3
  /\ card[c].pending <= 2 /\ card[c].frames >= 0
Counts == /\ \A r \in Realms : Stays(r) => OwedAt(r)
          /\ \A c \in Cards : (Stays(c) => ListedAt(c)) /\ PendingAt(c)

(* What an item weighs in each count.                                      *)
LEMMA Weights ==
  ASSUME NEW k, NEW r, NEW a, NEW q
  PROVE  /\ If(<<k, r, a>>, Resets(q)) =
              IF r = q /\ ((k = "close" /\ a = "reset") \/ (k = "reset" /\ a = 0)) THEN 1 ELSE 0
         /\ If(<<k, r, a>>, Lists(q)) =
              IF r = q /\ ((k = "close" /\ a = "frames") \/ (k = "frames" /\ a = 0)) THEN 1 ELSE 0
         /\ If(<<k, r, a>>, Later(q)) = IF r = q /\ k = "frames" /\ a = 0 THEN 1 ELSE 0
         /\ If(<<k, r, a>>, Arrives(q)) = IF r = q /\ k = "arrive" /\ a = 0 THEN 1 ELSE 0
         /\ If(<<k, r, a>>, Records(q)) = IF r = q /\ k = "records" /\ a = 0 THEN 1 ELSE 0
         /\ If(<<k, r, a>>, Owings(q)) = IF r = q /\ k = "owing" /\ a = 0 THEN 1 ELSE 0
BY DEF If, Resets, Lists, Later, Arrives, Records, Owings

(* Counts are numbers.                                                     *)
LEMMA CountsNat ==
  ASSUME Typed
  PROVE  \A these : /\ Count(stack, these) \in Nat
                    /\ \A r \in Realms : Count(frame[r].after, these) \in Nat
<1>1. ASSUME NEW these PROVE Count(stack, these) \in Nat
  <2> PICK s \in Seq(Items) : s = stack
    BY DEF Typed, Kinds
  <2> QED  BY WithinCount
<1> QED  BY <1>1, AfterCount

(* So are the cards that will pay.                                         *)
LEMMA HostedNat ==
  ASSUME Typed
  PROVE  \A r, d : IsFiniteSet(Hosted(r, d)) /\ Cardinality(Hosted(r, d)) \in Nat
<1>1. IsFiniteSet(Cards)
  BY FS_Interval DEF Typed, FramesAssumption, Cards
<1>2. \A r, d : Hosted(r, d) \in SUBSET Cards
  BY DEF Hosted
<1> QED  BY <1>1, <1>2, FS_Subset, FS_CardinalityType

(* And after the step.                                                     *)
LEMMA HostedNatThen ==
  ASSUME Typed
  PROVE  \A r, d : IsFiniteSet(Hosted(r, d)') /\ Cardinality(Hosted(r, d)') \in Nat
<1>1. IsFiniteSet(Cards)
  BY FS_Interval DEF Typed, FramesAssumption, Cards
<1>2. \A r, d : Hosted(r, d)' \in SUBSET Cards
  BY DEF Hosted
<1> QED  BY <1>1, <1>2, FS_Subset, FS_CardinalityType

(* Counts, a realm at a time.                                              *)
LEMMA CountsMeans ==
  /\ Counts <=> /\ \A r \in Realms : Stays(r) => OwedAt(r)
                /\ \A c \in Cards : (Stays(c) => ListedAt(c)) /\ PendingAt(c)
  /\ Counts' <=> /\ \A r \in Realms : Stays(r)' => OwedAt(r)'
                 /\ \A c \in Cards : (Stays(c)' => ListedAt(c)') /\ PendingAt(c)'
BY DEF Counts

(* A card freed is not made again.                                         *)
LEMMA FreedStays ==
  ASSUME Typed, Shape, BootJobs, Flags, Kinds', Does
  PROVE  \A k \in Cards : card[k].st = "freed" => card'[k].st = "freed"
<1> DEFINE Goal == \A k \in Cards : card[k].st = "freed" => card'[k].st = "freed"
<1>1. ASSUME NEW r \in Realms, NEW s \in Srcs, SourceStep(r, s) PROVE Goal
  BY <1>1 DEF SourceStep, OtherCards, Freeing
<1>2. ASSUME NEW r \in Realms, NEW s \in Srcs, SetSrcStep(r, s) PROVE Goal
  BY SMTT(30), <1>2 DEF SetSrcStep, OtherCards, Freeing
<1>3. ASSUME NEW r \in Realms, NEW g \in Nat, StartStep(r, g) PROVE Goal
  BY <1>3 DEF StartStep, OtherCards
<1>4. ASSUME NEW r \in Realms, NEW g \in Nat, RunStartStep(r, g) PROVE Goal
  BY <1>4 DEF RunStartStep, OtherCards, Freeing
<1>5. ASSUME NEW r \in Realms, NEW g \in Nat, FetchStep(r, g) PROVE Goal
  BY <1>5 DEF FetchStep, OtherCards, Freeing
<1>6. ASSUME NEW r \in Realms, NEW d \in Conts, d = "frames" => r \in Cards, CloseStep(r, d) PROVE Goal
  BY <1>6 DEF CloseStep, OtherCards, Freeing
<1>7. ASSUME NEW r \in Realms, ResetStep(r) PROVE Goal
  BY <1>7 DEF ResetStep, OtherCards, Freeing
<1>8. ASSUME NEW r \in Realms, IdleStep(r) PROVE Goal
  BY <1>8 DEF IdleStep, OtherCards, Freeing
<1>9. ASSUME NEW r \in Realms, HearStep(r) PROVE Goal
  BY <1>9 DEF HearStep, OtherCards, Freeing
<1>10. ASSUME NEW r \in Realms, MoveStep(r) PROVE Goal
  BY <1>10 DEF MoveStep, OtherCards, Freeing
<1>11. ASSUME NEW c \in Cards, BootStep(c) PROVE Goal
  BY <1>11, BootMeans DEF BootStep, Bootable, OtherCards
<1>12. ASSUME NEW c \in Cards, LoadedStep(c) PROVE Goal
  <2>1. card[c].st = "booting"
    <3>1. At("loading", c, 0)
      BY <1>12 DEF LoadedStep
    <3>2. On("loading", c, 0)
      BY <3>1, AtFacts DEF On
    <3> QED  BY <3>2 DEF Flags
  <2> QED  BY <1>12, <2>1 DEF LoadedStep, OtherCards
<1>13. ASSUME NEW c \in Cards, DisposeStep(c) PROVE Goal
  BY <1>13 DEF DisposeStep, OtherCards, Freeing
<1>14. ASSUME NEW c \in Cards, OwingStep(c) PROVE Goal
  BY <1>14 DEF OwingStep, OtherCards, Freeing
<1>15. ASSUME NEW c \in Cards, FramesStep(c) PROVE Goal
  BY <1>15 DEF FramesStep, OtherCards, Freeing
<1>16. ASSUME NEW c \in Cards, RecordsStep(c) PROVE Goal
  BY <1>16 DEF RecordsStep, OtherCards, Freeing
<1>17. ASSUME NEW c \in Cards, ArriveStep(c) PROVE Goal
  BY <1>17 DEF ArriveStep, OtherCards, Freeing
<1>18. ASSUME NEW c \in Cards, FlushStep(c) PROVE Goal
  BY <1>18 DEF FlushStep, OtherCards, Freeing
<1>19. ASSUME NEW c \in Cards, CloseRealmStep(c) PROVE Goal
  BY <1>19 DEF CloseRealmStep, OtherCards, Freeing
<1>20. ASSUME NEW c \in Cards, AckStep(c) PROVE Goal
  BY <1>20 DEF AckStep, OtherCards, Freeing
<1>21. ASSUME NEW c \in Cards, BtsStep(c) PROVE Goal
  BY <1>21 DEF BtsStep, OtherCards, Freeing
<1>22. ASSUME NEW c \in Cards, ObserveStep(c) PROVE Goal
  BY <1>22 DEF ObserveStep, OtherCards, Freeing
<1>23. CASE HeardStep
  BY <1>23 DEF HeardStep, OtherCards, Freeing
<1>24. CASE EpilogueStep
  BY <1>24 DEF EpilogueStep, OtherCards, Freeing
<1>25. CASE OpenStep
  BY <1>25 DEF OpenStep, OtherCards, Freeing
<1>26. CASE OpenEventsStep
  BY <1>26 DEF OpenEventsStep, OtherCards, Freeing
<1>27. CASE OpenRecordsStep
  BY <1>27 DEF OpenRecordsStep, OtherCards, Freeing
<1>28. CASE RecordStep
  BY <1>28 DEF RecordStep, OtherCards, Freeing
<1>29. CASE BeginStep
  BY <1>29 DEF BeginStep, OtherCards, Freeing
<1> QED  BY <1>1, <1>2, <1>3, <1>4, <1>5, <1>6, <1>7, <1>8, <1>9, <1>10, <1>11, <1>12, <1>13,
            <1>14, <1>15, <1>16, <1>17, <1>18, <1>19, <1>20, <1>21, <1>22, <1>23, <1>24, <1>25,
            <1>26, <1>27, <1>28, <1>29 DEF Does

(* Calls that no count is about.                                           *)
Plain(x) == /\ x[1] \notin {"reset", "frames", "arrive", "records", "owing"}
            /\ x[1] = "close" => x[3] = "nothing"
Bare(these) == \A x \in these : ~Plain(x)
SameCalls == \A q \in Realms :
   /\ Count(stack', Resets(q)) = Count(stack, Resets(q)) /\ Count(stack', Lists(q)) = Count(stack, Lists(q))
   /\ Count(stack', Arrives(q)) = Count(stack, Arrives(q)) /\ Count(stack', Records(q)) = Count(stack, Records(q))
   /\ Count(stack', Owings(q)) = Count(stack, Owings(q))

(* A stack with as many of the calls counted.                              *)
LEMMA BareCalls ==
  ASSUME \A these : Bare(these) => Count(stack', these) = Count(stack, these)
  PROVE  SameCalls
<1>1. \A q : Bare(Resets(q)) /\ Bare(Lists(q)) /\ Bare(Arrives(q)) /\ Bare(Records(q)) /\ Bare(Owings(q))
  BY DEF Bare, Plain, Resets, Lists, Arrives, Records, Owings
<1> QED  BY <1>1 DEF SameCalls

(* A call that is not counted returns.                                     *)
LEMMA SamePop ==
  ASSUME Typed, Shape, NEW k, NEW r, NEW a, At(k, r, a), Plain(<<k, r, a>>), stack' = Pop
  PROVE  SameCalls
<1>1. ASSUME NEW these, Bare(these) PROVE Count(stack', these) = Count(stack, these)
  <2>1. Count(stack, these) = If(<<k, r, a>>, these) + Count(Pop, these) /\ Count(Pop, these) \in Nat
    BY AtFacts, TopFacts, WithinCount
  <2>2. <<k, r, a>> \notin these
    BY <1>1 DEF Bare
  <2> QED  BY <2>1, <2>2 DEF If
<1> QED  BY <1>1, BareCalls

(* A first call that is not counted.                                       *)
LEMMA SameOne ==
  ASSUME NEW x, Plain(x), stack = <<>>, Pushed(x, <<>>)
  PROVE  SameCalls
<1>1. ASSUME NEW these, Bare(these) PROVE Count(stack', these) = Count(stack, these)
  <2>1. Count(stack', these) = If(x, these) + Count(<<>>, these) /\ Count(<<>>, these) = 0
    BY NoCall DEF Pushed
  <2>2. x \notin these
    BY <1>1 DEF Bare
  <2> QED  BY <2>1, <2>2 DEF If
<1> QED  BY <1>1, BareCalls

(* A step that leaves every count alone.                                   *)
SameCards == \A k \in Cards :
   /\ UNCHANGED <<card[k].done, card[k].disposed, card[k].pending, card[k].frames>>
   /\ card[k].done # "none" => UNCHANGED card[k].host
   /\ card'[k].wait # "no" <=> card[k].wait # "no"
SameOwed == \A q \in Realms : /\ UNCHANGED frame[q].owed
                              /\ Count(frame'[q].after, Later(q)) = Count(frame[q].after, Later(q))
Calm == SameCalls /\ SameCards /\ SameOwed
Stirs == \/ \E r \in Realms, s \in Srcs : SetSrcStep(r, s)
         \/ \E r \in Realms, d \in Conts : (d = "frames" => r \in Cards) /\ CloseStep(r, d)
         \/ \E r \in Realms : ResetStep(r) \/ HearStep(r)
         \/ \E c \in Cards : \/ DisposeStep(c) \/ OwingStep(c) \/ FramesStep(c) \/ RecordsStep(c)
                             \/ ArriveStep(c) \/ FlushStep(c)

(* The steps that stir a count.                                            *)
LEMMA CalmOrNot ==
  ASSUME Typed, Shape, Resting, Flags, Kinds', Does
  PROVE  Calm \/ Stirs
<1>1. ASSUME NEW r \in Realms, NEW s \in Srcs, SourceStep(r, s) PROVE Calm \/ Stirs
  <2>1. SameCalls
    <3>1. At("source", r, s) /\ stack' = Pop
      BY <1>1 DEF SourceStep
    <3>2. Plain(<<"source", r, s>>)
      BY DEF Plain
    <3> QED  BY <3>1, <3>2, SamePop
  <2>2. SameCards
    BY <1>1 DEF SourceStep, SameCards, OtherCards, Freeing
  <2>3. SameOwed
    BY <1>1 DEF SourceStep, SameOwed, Others, SameLoads
  <2> QED  BY <2>1, <2>2, <2>3 DEF Calm
<1>2. ASSUME NEW r \in Realms, NEW s \in Srcs, SetSrcStep(r, s) PROVE Calm \/ Stirs
  BY <1>2 DEF Stirs
<1>3. ASSUME NEW r \in Realms, NEW g \in Nat, StartStep(r, g) PROVE Calm \/ Stirs
  <2>1. SameCalls
    <3>1. At("start", r, g) /\ stack' = Pop
      BY <1>3 DEF StartStep
    <3>2. Plain(<<"start", r, g>>)
      BY SMTT(30) DEF Plain
    <3> QED  BY <3>1, <3>2, SamePop
  <2>2. SameCards
    <3>1. \A k \in Cards : card[k].st = "unmade" => card[k].done = "none"
      BY DEF Flags
    <3> QED  BY <1>3, <3>1 DEF StartStep, SameCards, OtherCards
  <2>3. SameOwed
    <3>1. CASE \A q \in Realms : UNCHANGED <<frame[q].owed, frame[q].after>>
      BY <3>1 DEF SameOwed
    <3>2. CASE Others(r) /\ frame'[r].after = Append(frame[r].after, <<"start", r, g>>) /\ UNCHANGED frame[r].owed
      <4>1. <<"start", r, g>> \in AfterItems
        BY DEF AfterItems
      <4>2. Count(frame'[r].after, Later(r)) = Count(frame[r].after, Later(r)) + If(<<"start", r, g>>, Later(r))
        BY ZenonT(60), <3>2, <4>1, AfterPut
      <4>3. If(<<"start", r, g>>, Later(r)) = 0
        BY Weights
      <4>4. Count(frame[r].after, Later(r)) \in Nat
        BY CountsNat
      <4>5. Count(frame'[r].after, Later(r)) = Count(frame[r].after, Later(r))
        BY <4>2, <4>3, <4>4
      <4>6. ASSUME NEW q \in Realms
            PROVE  UNCHANGED frame[q].owed /\ Count(frame'[q].after, Later(q)) = Count(frame[q].after, Later(q))
        <5>1. CASE q = r
          BY <3>2, <4>5, <5>1
        <5>2. CASE q # r
          <6>1. frame'[q] = frame[q]
            BY <3>2, <5>2 DEF Others
          <6> QED  BY <6>1
        <5> QED  BY <5>1, <5>2
      <4> QED  BY <4>6 DEF SameOwed
    <3> QED  BY <1>3, <3>1, <3>2 DEF StartStep, Others
  <2> QED  BY <2>1, <2>2, <2>3 DEF Calm
<1>4. ASSUME NEW r \in Realms, NEW g \in Nat, RunStartStep(r, g) PROVE Calm \/ Stirs
  <2>1. SameCalls
    <3>1. stack = <<>> /\ Pushed(<<"start", r, g>>, <<>>)
      BY <1>4 DEF RunStartStep, Resting
    <3>2. Plain(<<"start", r, g>>)
      BY DEF Plain
    <3> QED  BY <3>1, <3>2, SameOne
  <2>2. SameCards
    BY <1>4 DEF RunStartStep, SameCards, OtherCards, Freeing
  <2>3. SameOwed
    BY <1>4 DEF RunStartStep, SameOwed, Others, SameLoads
  <2> QED  BY <2>1, <2>2, <2>3 DEF Calm
<1>5. ASSUME NEW r \in Realms, NEW g \in Nat, FetchStep(r, g) PROVE Calm \/ Stirs
  <2>1. SameCalls
    <3>1. CASE UNCHANGED stack
      BY <3>1 DEF SameCalls
    <3>2. CASE Pushed(<<"start", r, g>>, <<>>)
      <4>1. stack = <<>>
        BY <1>5 DEF FetchStep, Resting
      <4>2. Plain(<<"start", r, g>>)
        BY DEF Plain
      <4> QED  BY <3>2, <4>1, <4>2, SameOne
    <3> QED  BY <1>5, <3>1, <3>2 DEF FetchStep
  <2>2. SameCards
    BY <1>5 DEF FetchStep, SameCards, OtherCards, Freeing
  <2>3. SameOwed
    BY <1>5 DEF FetchStep, SameOwed, Others, SameLoads
  <2> QED  BY <2>1, <2>2, <2>3 DEF Calm
<1>6. ASSUME NEW r \in Realms, NEW d \in Conts, d = "frames" => r \in Cards, CloseStep(r, d) PROVE Calm \/ Stirs
  BY <1>6 DEF Stirs
<1>7. ASSUME NEW r \in Realms, ResetStep(r) PROVE Calm \/ Stirs
  BY <1>7 DEF Stirs
<1>8. ASSUME NEW r \in Realms, IdleStep(r) PROVE Calm \/ Stirs
  <2>1. SameCalls
    <3>1. Plain(<<"nothing", r, 0>>) /\ Plain(<<"askPage", r, 0>>)
      BY DEF Plain
    <3>2. CASE At("nothing", r, 0)
      BY <1>8, <3>1, <3>2, SamePop DEF IdleStep
    <3>3. CASE At("askPage", r, 0)
      BY <1>8, <3>1, <3>3, SamePop DEF IdleStep
    <3> QED  BY <1>8, <3>2, <3>3 DEF IdleStep
  <2>2. SameCards
    BY <1>8 DEF IdleStep, SameCards, OtherCards, Freeing
  <2>3. SameOwed
    BY <1>8 DEF IdleStep, SameOwed, Others, SameLoads
  <2> QED  BY <2>1, <2>2, <2>3 DEF Calm
<1>9. ASSUME NEW r \in Realms, HearStep(r) PROVE Calm \/ Stirs
  BY <1>9 DEF Stirs
<1>10. ASSUME NEW r \in Realms, MoveStep(r) PROVE Calm \/ Stirs
  <2>1. SameCalls
    BY <1>10 DEF MoveStep, SameCalls
  <2>2. SameCards
    BY <1>10 DEF MoveStep, SameCards, OtherCards, Freeing
  <2>3. SameOwed
    BY <1>10 DEF MoveStep, SameOwed, Others, SameLoads
  <2> QED  BY <2>1, <2>2, <2>3 DEF Calm
<1>11. ASSUME NEW c \in Cards, BootStep(c) PROVE Calm \/ Stirs
  <2>1. SameCalls
    <3>1. CASE stack' = stack
      BY <3>1 DEF SameCalls
    <3>2. CASE Pushed(<<"loading", c, 0>>, <<>>)
      <4>1. stack = <<>>
        BY <1>11 DEF BootStep
      <4>2. Plain(<<"loading", c, 0>>)
        BY DEF Plain
      <4> QED  BY <3>2, <4>1, <4>2, SameOne
    <3> QED  BY <1>11, <3>1, <3>2 DEF BootStep
  <2>2. SameCards
    BY <1>11 DEF BootStep, SameCards, OtherCards, Freeing
  <2>3. SameOwed
    BY <1>11 DEF BootStep, SameOwed, Others, SameLoads
  <2> QED  BY <2>1, <2>2, <2>3 DEF Calm
<1>12. ASSUME NEW c \in Cards, LoadedStep(c) PROVE Calm \/ Stirs
  <2>1. SameCalls
    <3>1. At("loading", c, 0) /\ stack' = Pop
      BY <1>12 DEF LoadedStep
    <3>2. Plain(<<"loading", c, 0>>)
      BY DEF Plain
    <3> QED  BY <3>1, <3>2, SamePop
  <2>2. SameCards
    BY <1>12 DEF LoadedStep, SameCards, OtherCards, Freeing
  <2>3. SameOwed
    BY <1>12 DEF LoadedStep, SameOwed, Others, SameLoads
  <2> QED  BY <2>1, <2>2, <2>3 DEF Calm
<1>13. ASSUME NEW c \in Cards, DisposeStep(c) PROVE Calm \/ Stirs
  BY <1>13 DEF Stirs
<1>14. ASSUME NEW c \in Cards, OwingStep(c) PROVE Calm \/ Stirs
  BY <1>14 DEF Stirs
<1>15. ASSUME NEW c \in Cards, FramesStep(c) PROVE Calm \/ Stirs
  BY <1>15 DEF Stirs
<1>16. ASSUME NEW c \in Cards, RecordsStep(c) PROVE Calm \/ Stirs
  BY <1>16 DEF Stirs
<1>17. ASSUME NEW c \in Cards, ArriveStep(c) PROVE Calm \/ Stirs
  BY <1>17 DEF Stirs
<1>18. ASSUME NEW c \in Cards, FlushStep(c) PROVE Calm \/ Stirs
  BY <1>18 DEF Stirs
<1>19. ASSUME NEW c \in Cards, CloseRealmStep(c) PROVE Calm \/ Stirs
  <2>1. SameCalls
    BY <1>19 DEF CloseRealmStep, SameCalls
  <2>2. SameCards
    BY <1>19 DEF CloseRealmStep, SameCards, OtherCards, Freeing
  <2>3. SameOwed
    BY <1>19 DEF CloseRealmStep, SameOwed, Others, SameLoads
  <2> QED  BY <2>1, <2>2, <2>3 DEF Calm
<1>20. ASSUME NEW c \in Cards, AckStep(c) PROVE Calm \/ Stirs
  <2>1. SameCalls
    BY <1>20 DEF AckStep, SameCalls
  <2>2. SameCards
    BY <1>20 DEF AckStep, SameCards, OtherCards, Freeing
  <2>3. SameOwed
    BY <1>20 DEF AckStep, SameOwed, Others, SameLoads
  <2> QED  BY <2>1, <2>2, <2>3 DEF Calm
<1>21. ASSUME NEW c \in Cards, BtsStep(c) PROVE Calm \/ Stirs
  <2>1. SameCalls
    BY <1>21 DEF BtsStep, SameCalls
  <2>2. SameCards
    BY <1>21 DEF BtsStep, SameCards, OtherCards, Freeing
  <2>3. SameOwed
    BY <1>21 DEF BtsStep, SameOwed, Others, SameLoads
  <2> QED  BY <2>1, <2>2, <2>3 DEF Calm
<1>22. ASSUME NEW c \in Cards, ObserveStep(c) PROVE Calm \/ Stirs
  <2>1. SameCalls
    BY <1>22 DEF ObserveStep, SameCalls
  <2>2. SameCards
    BY <1>22 DEF ObserveStep, SameCards, OtherCards, Freeing
  <2>3. SameOwed
    BY <1>22 DEF ObserveStep, SameOwed, Others, SameLoads
  <2> QED  BY <2>1, <2>2, <2>3 DEF Calm
<1>23. CASE HeardStep
  <2>1. SameCalls
    BY <1>23 DEF HeardStep, SameCalls
  <2>2. SameCards
    BY <1>23 DEF HeardStep, SameCards, OtherCards, Freeing
  <2>3. SameOwed
    BY <1>23 DEF HeardStep, SameOwed, Others, SameLoads
  <2> QED  BY <2>1, <2>2, <2>3 DEF Calm
<1>24. CASE EpilogueStep
  <2>1. SameCalls
    BY <1>24 DEF EpilogueStep, SameCalls
  <2>2. SameCards
    BY <1>24 DEF EpilogueStep, SameCards, OtherCards, Freeing
  <2>3. SameOwed
    BY <1>24 DEF EpilogueStep, SameOwed, Others, SameLoads
  <2> QED  BY <2>1, <2>2, <2>3 DEF Calm
<1>25. CASE OpenStep
  <2>1. SameCalls
    BY <1>25 DEF OpenStep, SameCalls
  <2>2. SameCards
    BY <1>25 DEF OpenStep, SameCards, OtherCards, Freeing
  <2>3. SameOwed
    BY <1>25 DEF OpenStep, SameOwed, Others, SameLoads
  <2> QED  BY <2>1, <2>2, <2>3 DEF Calm
<1>26. CASE OpenEventsStep
  <2>1. SameCalls
    BY <1>26 DEF OpenEventsStep, SameCalls
  <2>2. SameCards
    BY <1>26 DEF OpenEventsStep, SameCards, OtherCards, Freeing
  <2>3. SameOwed
    BY <1>26 DEF OpenEventsStep, SameOwed, Others, SameLoads
  <2> QED  BY <2>1, <2>2, <2>3 DEF Calm
<1>27. CASE OpenRecordsStep
  <2>1. SameCalls
    BY <1>27 DEF OpenRecordsStep, SameCalls
  <2>2. SameCards
    BY <1>27 DEF OpenRecordsStep, SameCards, OtherCards, Freeing
  <2>3. SameOwed
    BY <1>27 DEF OpenRecordsStep, SameOwed, Others, SameLoads
  <2> QED  BY <2>1, <2>2, <2>3 DEF Calm
<1>28. CASE RecordStep
  <2>1. SameCalls
    BY <1>28 DEF RecordStep, SameCalls
  <2>2. SameCards
    BY <1>28 DEF RecordStep, SameCards, OtherCards, Freeing
  <2>3. SameOwed
    BY <1>28 DEF RecordStep, SameOwed, Others, SameLoads
  <2> QED  BY <2>1, <2>2, <2>3 DEF Calm
<1>29. CASE BeginStep
  <2>1. SameCalls
    <3>1. stack = <<>>
      BY <1>29 DEF BeginStep, Resting
    <3>2. ASSUME NEW these, Bare(these) PROVE Count(stack', these) = 0
      <4>1. <<"close", Page, "nothing">> \notin these /\ <<"askPage", Page, 0>> \notin these
        <5>1. Plain(<<"close", Page, "nothing">>) /\ Plain(<<"askPage", Page, 0>>)
          BY DEF Plain
        <5> QED  BY <3>2, <5>1 DEF Bare
      <4>2. Count(stack', these) = (IF frame[Page].loaded THEN If(<<"close", Page, "nothing">>, these) ELSE 0)
              + If(<<"askPage", Page, 0>>, these)
        BY <1>29, BeginStack
      <4> QED  BY <4>1, <4>2 DEF If
    <3> QED  BY <3>1, <3>2, NoCall, BareCalls
  <2>2. SameCards
    BY <1>29 DEF BeginStep, SameCards, OtherCards, Freeing
  <2>3. SameOwed
    BY <1>29 DEF BeginStep, SameOwed, Others, SameLoads
  <2> QED  BY <2>1, <2>2, <2>3 DEF Calm
<1> QED  BY <1>1, <1>2, <1>3, <1>4, <1>5, <1>6, <1>7, <1>8, <1>9, <1>10, <1>11, <1>12, <1>13,
            <1>14, <1>15, <1>16, <1>17, <1>18, <1>19, <1>20, <1>21, <1>22, <1>23, <1>24, <1>25,
            <1>26, <1>27, <1>28, <1>29 DEF Does

(* The others leave them.                                                  *)
LEMMA CalmCounts ==
  ASSUME Typed, Counts, Kinds', Calm,
         \A k \in Cards : card[k].st = "freed" => card'[k].st = "freed"
  PROVE  Counts'
<1>1. ASSUME NEW r \in Realms, Stays(r)' PROVE Stays(r)
  BY <1>1, AnItem DEF Stays, Page
<1>3. \A r, d : d # "none" => Hosted(r, d)' = Hosted(r, d)
  BY DEF Calm, SameCards, Hosted, Out
<1>4. ASSUME NEW r \in Realms, OwedAt(r) PROVE OwedAt(r)'
  <2>1. Count(stack', Resets(r)) = Count(stack, Resets(r))
    BY AnItem DEF Calm, SameCalls
  <2>2. Hosted(r, "reset")' = Hosted(r, "reset")
    BY <1>3
  <2>3. frame'[r].owed = frame[r].owed
    BY DEF Calm, SameOwed
  <2> QED  BY <1>4, <2>1, <2>2, <2>3 DEF OwedAt, Resets
<1>5. ASSUME NEW c \in Cards, ListedAt(c) PROVE ListedAt(c)'
  <2>1. Count(stack', Lists(c)) = Count(stack, Lists(c))
    BY AnItem DEF Calm, SameCalls
  <2>2. Hosted(c, "frames")' = Hosted(c, "frames")
    BY <1>3
  <2>3. Count(frame'[c].after, Later(c)) = Count(frame[c].after, Later(c)) /\ UNCHANGED card[c].frames
    BY AnItem DEF Calm, SameOwed, SameCards
  <2> QED  BY <1>5, <2>1, <2>2, <2>3 DEF ListedAt, Lists, Later
<1>6. ASSUME NEW c \in Cards, PendingAt(c) PROVE PendingAt(c)'
  <2>1. /\ Count(stack', Arrives(c)) = Count(stack, Arrives(c))
        /\ Count(stack', Records(c)) = Count(stack, Records(c))
        /\ Count(stack', Owings(c)) = Count(stack, Owings(c))
    BY AnItem DEF Calm, SameCalls
  <2>2. Waiter(c)' = Waiter(c) /\ Framed(c)' = Framed(c) /\ UNCHANGED <<card[c].pending, card[c].frames>>
    BY DEF Calm, SameCards, Waiter, Framed
  <2> QED  BY <1>6, <2>1, <2>2 DEF PendingAt, Arrives, Records, Owings
<1> QED  BY <1>1, <1>4, <1>5, <1>6, CountsMeans, AnItem

(* A count by the call on top and those below.                             *)
LEMMA TopCounts ==
  ASSUME Typed, Shape, NEW k, NEW r, NEW a, At(k, r, a)
  PROVE  \A these : /\ Count(stack, these) = If(<<k, r, a>>, these) + Count(Pop, these)
                    /\ Count(Pop, these) \in Nat
<1>1. Pop \in Seq(Items) /\ stack # <<>> /\ Top = <<k, r, a>>
  BY AtFacts
<1>2. ASSUME NEW these PROVE Count(Pop, these) \in Nat
  BY <1>1, WithinCount
<1> QED  BY <1>1, <1>2, TopFacts

(* The counts of a realm no step disturbs.                                 *)
LEMMA OwedSame ==
  ASSUME NEW r \in Realms, OwedAt(r), UNCHANGED frame[r].owed,
         Count(stack', Resets(r)) = Count(stack, Resets(r)),
         Hosted(r, "reset")' = Hosted(r, "reset")
  PROVE  OwedAt(r)'
BY DEF OwedAt, Resets

(* Nor of a card's lists.                                                  *)
LEMMA ListedSame ==
  ASSUME NEW c \in Cards, ListedAt(c), UNCHANGED card[c].frames,
         Count(frame'[c].after, Later(c)) = Count(frame[c].after, Later(c)),
         Count(stack', Lists(c)) = Count(stack, Lists(c)),
         Hosted(c, "frames")' = Hosted(c, "frames")
  PROVE  ListedAt(c)'
BY DEF ListedAt, Lists, Later

(* Nor of what it waits for.                                               *)
LEMMA PendingSame ==
  ASSUME NEW c \in Cards, PendingAt(c), UNCHANGED <<card[c].frames, card[c].pending, card[c].wait>>,
         Count(stack', Arrives(c)) = Count(stack, Arrives(c)),
         Count(stack', Records(c)) = Count(stack, Records(c)),
         Count(stack', Owings(c)) = Count(stack, Owings(c))
  PROVE  PendingAt(c)'
BY DEF PendingAt, Waiter, Framed, Arrives, Records, Owings

(* Who is not freed was not before.                                        *)
LEMMA StayedBefore ==
  ASSUME \A k \in Cards : card[k].st = "freed" => card'[k].st = "freed"
  PROVE  \A r \in Realms : Stays(r)' => Stays(r)
BY AnItem DEF Stays, Page

(* The sources of a frame's debts: a close queued for its reset.           *)
LEMMA DebtCounts ==
  ASSUME Typed, Counts, Kinds', NEW r \in Realms, UNCHANGED card, Others(r),
         frame'[r].owed = frame[r].owed + 1, UNCHANGED frame[r].after,
         \A q \in Realms :
            /\ Count(stack', Resets(q)) = Count(stack, Resets(q)) + (IF q = r THEN 1 ELSE 0)
            /\ Count(stack', Lists(q)) = Count(stack, Lists(q))
            /\ Count(stack', Arrives(q)) = Count(stack, Arrives(q))
            /\ Count(stack', Records(q)) = Count(stack, Records(q))
            /\ Count(stack', Owings(q)) = Count(stack, Owings(q))
  PROVE  Counts'
<1>1. \A q \in Realms : Stays(q)' => Stays(q)
  BY StayedBefore
<1>2. \A q, d : Hosted(q, d)' = Hosted(q, d)
  BY DEF Hosted, Out
<1>3. ASSUME NEW q \in Realms, OwedAt(q) PROVE OwedAt(q)'
  <2>1. CASE q = r
    <3>1. Count(stack, Resets(r)) \in Nat /\ Cardinality(Hosted(r, "reset")) \in Nat
      BY CountsNat, HostedNat
    <3>2. Count(stack', Resets(r)) = Count(stack, Resets(r)) + 1
      OBVIOUS
    <3>3. Cardinality(Hosted(r, "reset")') = Cardinality(Hosted(r, "reset"))
      BY <1>2
    <3>4. frame'[r].owed = Count(stack', Resets(r)) + Cardinality(Hosted(r, "reset")')
      BY <1>3, <2>1, <3>1, <3>2, <3>3 DEF OwedAt
    <3> QED  BY <2>1, <3>4 DEF OwedAt, Resets
  <2>2. CASE q # r
    <3>1. UNCHANGED frame[q].owed /\ Count(stack', Resets(q)) = Count(stack, Resets(q))
      <4>1. Count(stack, Resets(q)) \in Nat
        BY CountsNat
      <4> QED  BY <2>2, <4>1 DEF Others
    <3> QED  BY <1>2, <1>3, <3>1, OwedSame
  <2> QED  BY <2>1, <2>2
<1>4. ASSUME NEW c \in Cards, ListedAt(c) PROVE ListedAt(c)'
  <2>1. c \in Realms /\ UNCHANGED frame[c].after
    BY AnItem DEF Others
  <2> QED  BY <1>2, <1>4, <2>1, ListedSame
<1>5. ASSUME NEW c \in Cards, PendingAt(c) PROVE PendingAt(c)'
  BY <1>5, AnItem, PendingSame
<1> QED  BY <1>1, <1>3, <1>4, <1>5, CountsMeans, AnItem

(* A write owes the reset its close queues.                                *)
LEMMA SetSrcCounts ==
  ASSUME Typed, Shape, Counts, Kinds', NEW r \in Realms, NEW s \in Srcs, SetSrcStep(r, s)
  PROVE  Counts'
<1>1. \A these : Count(stack', these) = If(<<"source", r, s>>, these)
              + (IF frame[r].src = NoSrc THEN 0 ELSE If(<<"close", r, "reset">>, these))
              + Count(stack, these)
  BY SetSrcStack
<1>2. \A q : /\ If(<<"source", r, s>>, Resets(q)) = 0 /\ If(<<"source", r, s>>, Lists(q)) = 0
             /\ If(<<"source", r, s>>, Arrives(q)) = 0 /\ If(<<"source", r, s>>, Records(q)) = 0
             /\ If(<<"source", r, s>>, Owings(q)) = 0
  BY Weights
<1>3. \A q : /\ If(<<"close", r, "reset">>, Resets(q)) = (IF q = r THEN 1 ELSE 0)
             /\ If(<<"close", r, "reset">>, Lists(q)) = 0 /\ If(<<"close", r, "reset">>, Arrives(q)) = 0
             /\ If(<<"close", r, "reset">>, Records(q)) = 0 /\ If(<<"close", r, "reset">>, Owings(q)) = 0
  BY Weights
<1>4. UNCHANGED card
  BY DEF SetSrcStep
<1>5. CASE frame[r].src = NoSrc
  <2>1. SameCalls
    <3>1. ASSUME NEW these, Bare(these) PROVE Count(stack', these) = Count(stack, these)
      <4>1. <<"source", r, s>> \notin these
        BY <3>1 DEF Bare, Plain
      <4>2. Count(stack, these) \in Nat
        BY CountsNat
      <4> QED  BY <1>1, <1>5, <4>1, <4>2 DEF If
    <3> QED  BY <3>1, BareCalls
  <2>2. UNCHANGED frame
    BY <1>5 DEF SetSrcStep
  <2>3. Calm
    BY <1>4, <2>1, <2>2 DEF Calm, SameCards, SameOwed
  <2> QED  BY <1>4, <2>3, CalmCounts
<1>6. CASE frame[r].src # NoSrc
  <2>1. Others(r) /\ frame'[r].owed = frame[r].owed + 1 /\ UNCHANGED frame[r].after
    BY <1>6 DEF SetSrcStep
  <2>2. \A q \in Realms :
            /\ Count(stack', Resets(q)) = Count(stack, Resets(q)) + (IF q = r THEN 1 ELSE 0)
            /\ Count(stack', Lists(q)) = Count(stack, Lists(q))
            /\ Count(stack', Arrives(q)) = Count(stack, Arrives(q))
            /\ Count(stack', Records(q)) = Count(stack, Records(q))
            /\ Count(stack', Owings(q)) = Count(stack, Owings(q))
    <3>1. \A these : Count(stack, these) \in Nat
      BY CountsNat
    <3> QED  BY <1>1, <1>2, <1>3, <1>6, <3>1
  <2> QED  BY <1>4, <2>1, <2>2, DebtCounts
<1> QED  BY <1>5, <1>6

(* So does an event that takes a frame away.                               *)
LEMMA HearCounts ==
  ASSUME Typed, Shape, Resting, Counts, Kinds', NEW r \in Realms, HearStep(r)
  PROVE  Counts'
<1>1. UNCHANGED card /\ stack = <<>>
  BY DEF HearStep, Resting
<1>2. CASE UNCHANGED <<frame, stack>>
  <2>1. Calm
    BY <1>1, <1>2 DEF Calm, SameCards, SameOwed, SameCalls
  <2> QED  BY <1>1, <2>1, CalmCounts
<1>3. CASE UNCHANGED frame /\ Pushed(<<"source", r, frame[r].src>>, <<>>)
  <2>1. Plain(<<"source", r, frame[r].src>>)
    BY DEF Plain
  <2>2. SameCalls
    BY <1>1, <1>3, <2>1, SameOne
  <2>3. Calm
    BY <1>1, <1>3, <2>2 DEF Calm, SameCards, SameOwed
  <2> QED  BY <1>1, <2>3, CalmCounts
<1>4. CASE /\ Pushed(<<"close", r, "reset">>, <<>>) /\ Others(r) /\ frame'[r].owed = frame[r].owed + 1
           /\ UNCHANGED frame[r].after
  <2>1. \A these : Count(stack', these) = If(<<"close", r, "reset">>, these) /\ Count(stack, these) = 0
    <3>1. \A these : Count(stack', these) = If(<<"close", r, "reset">>, these) + Count(<<>>, these)
      BY <1>4 DEF Pushed
    <3> QED  BY <1>1, <3>1, NoCall DEF If
  <2>2. \A q : /\ If(<<"close", r, "reset">>, Resets(q)) = (IF q = r THEN 1 ELSE 0)
               /\ If(<<"close", r, "reset">>, Lists(q)) = 0 /\ If(<<"close", r, "reset">>, Arrives(q)) = 0
               /\ If(<<"close", r, "reset">>, Records(q)) = 0 /\ If(<<"close", r, "reset">>, Owings(q)) = 0
    BY Weights
  <2> QED  BY <1>1, <1>4, <2>1, <2>2, DebtCounts
<1> QED  BY <1>2, <1>3, <1>4 DEF HearStep

(* A card joins the ones a frame waits for, or leaves them.                *)
LEMMA HostedGains ==
  ASSUME Typed, NEW r, NEW d, NEW c, c \notin Hosted(r, d), Hosted(r, d)' = Hosted(r, d) \cup {c}
  PROVE  Cardinality(Hosted(r, d)') = Cardinality(Hosted(r, d)) + 1
<1> PICK S : S = Hosted(r, d)
  OBVIOUS
<1>1. IsFiniteSet(S)
  BY HostedNat
<1>2. Cardinality(S \cup {c}) = Cardinality(S) + 1
  BY <1>1, FS_AddElement
<1> QED  BY <1>2

(* And one leaves them.                                                    *)
LEMMA HostedLoses ==
  ASSUME Typed, NEW r, NEW d, NEW c, c \in Hosted(r, d), Hosted(r, d)' = Hosted(r, d) \ {c}
  PROVE  Cardinality(Hosted(r, d)') = Cardinality(Hosted(r, d)) - 1
<1> PICK S : S = Hosted(r, d)
  OBVIOUS
<1>1. IsFiniteSet(S)
  BY HostedNat
<1>2. Cardinality(S \ {c}) = Cardinality(S) - 1
  BY <1>1, FS_RemoveElement
<1> QED  BY <1>2

(* A card's disposal is waited for by the frame that lets go of it.        *)
LEMMA CloseCounts ==
  ASSUME Typed, Shape, Links, Counts, Kinds', NEW r \in Realms, NEW d \in Conts,
         d = "frames" => r \in Cards, CloseStep(r, d),
         \A k \in Cards : card[k].st = "freed" => card'[k].st = "freed"
  PROVE  Counts'
<1>1. At("close", r, d) /\ \A q \in Realms : UNCHANGED <<frame[q].owed, frame[q].after>>
  BY DEF CloseStep, Others
<1>2. \A these : /\ Count(stack, these) = If(<<"close", r, d>>, these) + Count(Pop, these)
                 /\ Count(Pop, these) \in Nat
  BY <1>1, TopCounts
<1>3. \A q : /\ If(<<"close", r, d>>, Resets(q)) = (IF r = q /\ d = "reset" THEN 1 ELSE 0)
             /\ If(<<"close", r, d>>, Lists(q)) = (IF r = q /\ d = "frames" THEN 1 ELSE 0)
             /\ If(<<"close", r, d>>, Arrives(q)) = 0 /\ If(<<"close", r, d>>, Records(q)) = 0
             /\ If(<<"close", r, d>>, Owings(q)) = 0
  BY Weights
<1>4. CASE Pushed(<<d, r, 0>>, Pop) /\ UNCHANGED card
  <2>1. \A these : Count(stack', these) = If(<<d, r, 0>>, these) + Count(Pop, these)
    BY <1>4 DEF Pushed
  <2>2. \A q : /\ If(<<d, r, 0>>, Resets(q)) = (IF r = q /\ d = "reset" THEN 1 ELSE 0)
               /\ If(<<d, r, 0>>, Lists(q)) = (IF r = q /\ d = "frames" THEN 1 ELSE 0)
               /\ If(<<d, r, 0>>, Arrives(q)) = 0 /\ If(<<d, r, 0>>, Records(q)) = 0
               /\ If(<<d, r, 0>>, Owings(q)) = 0
    BY Weights DEF Conts
  <2>3. SameCalls
    BY <1>2, <1>3, <2>1, <2>2 DEF SameCalls
  <2>4. Calm
    BY <1>1, <1>4, <2>3 DEF Calm, SameCards, SameOwed
  <2> QED  BY <1>4, <2>4, CalmCounts
<1>5. ASSUME NEW c \in Cards, frame[r].dispose = c, Pushed(<<"dispose", c, 0>>, Pop), OtherCards(c),
             card'[c].done = d, UNCHANGED <<card[c].host, card[c].disposed, card[c].pending,
                                            card[c].frames, card[c].wait>>
      PROVE  Counts'
  <2>1. card[c].host = r /\ card[c].done = "none" /\ ~card[c].disposed
    <3>1. frame[r].realm = c
      BY <1>5, LinksMeans, AnItem DEF Ready
    <3> QED  BY <3>1, LinksMeans DEF Kept
  <2>2. \A these : Count(stack', these) = If(<<"dispose", c, 0>>, these) + Count(Pop, these)
    BY <1>5 DEF Pushed
  <2>3. \A q : /\ If(<<"dispose", c, 0>>, Resets(q)) = 0 /\ If(<<"dispose", c, 0>>, Lists(q)) = 0
               /\ If(<<"dispose", c, 0>>, Arrives(q)) = 0 /\ If(<<"dispose", c, 0>>, Records(q)) = 0
               /\ If(<<"dispose", c, 0>>, Owings(q)) = 0
    BY Weights
  <2>4. \A q : /\ Count(stack, Resets(q)) = Count(stack', Resets(q)) + (IF r = q /\ d = "reset" THEN 1 ELSE 0)
               /\ Count(stack, Lists(q)) = Count(stack', Lists(q)) + (IF r = q /\ d = "frames" THEN 1 ELSE 0)
               /\ Count(stack', Arrives(q)) = Count(stack, Arrives(q))
               /\ Count(stack', Records(q)) = Count(stack, Records(q))
               /\ Count(stack', Owings(q)) = Count(stack, Owings(q))
               /\ Count(stack', Resets(q)) \in Nat /\ Count(stack', Lists(q)) \in Nat
    BY <1>2, <1>3, <2>2, <2>3
  <2>5. \A k \in Cards : /\ UNCHANGED <<card[k].host, card[k].disposed, card[k].pending, card[k].frames, card[k].wait>>
                         /\ k # c => UNCHANGED card[k].done
    BY <1>5 DEF OtherCards
  <2>6. \A q : /\ q # r \/ d # "reset" => Hosted(q, "reset")' = Hosted(q, "reset")
               /\ q # r \/ d # "frames" => Hosted(q, "frames")' = Hosted(q, "frames")
    BY <1>5, <2>1, <2>5 DEF Hosted, Out
  <2>7. d # "none" /\ Hosted(r, d)' = Hosted(r, d) \cup {c} /\ c \notin Hosted(r, d)
    BY <1>5, <2>1, <2>5 DEF Hosted, Out, Conts
  <2>8. Cardinality(Hosted(r, d)') = Cardinality(Hosted(r, d)) + 1
    BY <2>7, HostedGains
  <2>9. ASSUME NEW q \in Realms, OwedAt(q) PROVE OwedAt(q)'
    <3>1. CASE q = r /\ d = "reset"
      <4>1. Count(stack, Resets(r)) = Count(stack', Resets(r)) + 1 /\ Count(stack', Resets(r)) \in Nat
        BY <2>4, <3>1
      <4>2. Cardinality(Hosted(r, "reset")') = Cardinality(Hosted(r, "reset")) + 1
            /\ Cardinality(Hosted(r, "reset")) \in Nat
        BY <2>8, <3>1, HostedNat
      <4>3. frame'[r].owed = Count(stack', Resets(r)) + Cardinality(Hosted(r, "reset")')
        BY <1>1, <2>9, <3>1, <4>1, <4>2 DEF OwedAt
      <4> QED  BY <3>1, <4>3 DEF OwedAt, Resets
    <3>2. CASE q # r \/ d # "reset"
      <4>1. Count(stack', Resets(q)) = Count(stack, Resets(q)) /\ Hosted(q, "reset")' = Hosted(q, "reset")
        BY <2>4, <2>6, <3>2
      <4> QED  BY <1>1, <2>9, <4>1, OwedSame
    <3> QED  BY <3>1, <3>2
  <2>10. ASSUME NEW q \in Cards, ListedAt(q) PROVE ListedAt(q)'
    <3>0. q \in Realms /\ UNCHANGED frame[q].after /\ UNCHANGED card[q].frames
      BY <1>1, <2>5, AnItem
    <3>1. CASE q = r /\ d = "frames"
      <4>1. Count(stack, Lists(q)) = Count(stack', Lists(q)) + 1 /\ Count(stack', Lists(q)) \in Nat
        BY <2>4, <3>1
      <4>2. Cardinality(Hosted(q, "frames")') = Cardinality(Hosted(q, "frames")) + 1
            /\ Cardinality(Hosted(q, "frames")) \in Nat
        BY <2>8, <3>1, HostedNat
      <4>3. Count(frame'[q].after, Later(q)) = Count(frame[q].after, Later(q))
            /\ Count(frame[q].after, Later(q)) \in Nat
        BY <3>0, CountsNat
      <4>4. card'[q].frames = Count(stack', Lists(q)) + Count(frame'[q].after, Later(q))
                                 + Cardinality(Hosted(q, "frames")')
        BY <2>10, <3>0, <4>1, <4>2, <4>3 DEF ListedAt
      <4> QED  BY <4>4 DEF ListedAt, Lists, Later
    <3>2. CASE q # r \/ d # "frames"
      <4>1. Count(stack', Lists(q)) = Count(stack, Lists(q)) /\ Hosted(q, "frames")' = Hosted(q, "frames")
        BY <2>4, <2>6, <3>2
      <4> QED  BY <2>10, <3>0, <4>1, ListedSame
    <3> QED  BY <3>1, <3>2
  <2>11. ASSUME NEW q \in Cards, PendingAt(q) PROVE PendingAt(q)'
    BY <2>4, <2>5, <2>11, PendingSame
  <2> QED  BY <2>9, <2>10, <2>11, StayedBefore, CountsMeans, AnItem
<1> QED  BY <1>4, <1>5 DEF CloseStep

(* What waits for a reset is no call of a count but its frame's own lists. *)
LEMMA AfterCounts ==
  ASSUME Typed, Own, NEW r \in Realms
  PROVE  \A q : /\ Count(frame[r].after, Resets(q)) = 0 /\ Count(frame[r].after, Arrives(q)) = 0
                /\ Count(frame[r].after, Records(q)) = 0 /\ Count(frame[r].after, Owings(q)) = 0
                /\ q # r => Count(frame[r].after, Lists(q)) = 0
                /\ Count(frame[r].after, Lists(r)) = Count(frame[r].after, Later(r))
<1> PICK s \in Seq(AfterItems) : s = frame[r].after
  BY DEF Typed, Kinds, FrameRec
<1>1. \A x \in Within(s) : x[1] \in {"start", "frames"} /\ x[2] = r
  BY AfterWithin DEF Own
<1>2. ASSUME NEW these, \A x \in these : x \notin Within(s) PROVE Count(s, these) = 0
  <2>1. Count(s, these) # 0 => \E x \in these : x \in Within(s)
    BY WithinCount
  <2> QED  BY <1>2, <2>1
<1>3. \A q : /\ \A x \in Resets(q) : x \notin Within(s)
             /\ \A x \in Arrives(q) : x \notin Within(s)
             /\ \A x \in Records(q) : x \notin Within(s)
             /\ \A x \in Owings(q) : x \notin Within(s)
             /\ q # r => \A x \in Lists(q) : x \notin Within(s)
  BY <1>1 DEF Resets, Arrives, Records, Owings, Lists
<1>4. Places(s, Lists(r)) = Places(s, Later(r))
  <2>1. \A i \in DOMAIN s : s[i] \in Within(s)
    BY DEF Within
  <2>2. \A i \in DOMAIN s : s[i] # <<"close", r, "frames">>
    BY <1>1, <2>1
  <2> QED  BY <2>2 DEF Places, Lists, Later
<1>5. Count(s, Lists(r)) = Count(s, Later(r))
  BY <1>4 DEF Count
<1> QED  BY <1>2, <1>3, <1>5

(* The last card owed has posted its list: the frame is reset.             *)
LEMMA ResetCounts ==
  ASSUME Typed, Shape, Own, Counts, Kinds', NEW r \in Realms, ResetStep(r),
         \A k \in Cards : card[k].st = "freed" => card'[k].st = "freed"
  PROVE  Counts'
<1>1. /\ At("reset", r, 0) /\ frame'[r].owed = frame[r].owed - 1
      /\ \A q \in Realms : q # r => UNCHANGED <<frame[q].owed, frame[q].after>>
  BY DEF ResetStep
<1>2. \A these : /\ Count(stack, these) = If(<<"reset", r, 0>>, these) + Count(Pop, these)
                 /\ Count(Pop, these) \in Nat
  BY <1>1, TopCounts
<1>3. \A q : /\ If(<<"reset", r, 0>>, Resets(q)) = (IF r = q THEN 1 ELSE 0)
             /\ If(<<"reset", r, 0>>, Lists(q)) = 0 /\ If(<<"reset", r, 0>>, Arrives(q)) = 0
             /\ If(<<"reset", r, 0>>, Records(q)) = 0 /\ If(<<"reset", r, 0>>, Owings(q)) = 0
  BY Weights
<1>4. \A these : Count(frame[r].after, these) \in Nat
  BY CountsNat
<1>5. \E l \in Nat :
        /\ \A q : /\ Count(stack, Resets(q)) = Count(stack', Resets(q)) + (IF r = q THEN 1 ELSE 0)
                  /\ Count(stack', Lists(q)) = Count(stack, Lists(q)) + (IF r = q THEN l ELSE 0)
                  /\ Count(stack', Arrives(q)) = Count(stack, Arrives(q))
                  /\ Count(stack', Records(q)) = Count(stack, Records(q))
                  /\ Count(stack', Owings(q)) = Count(stack, Owings(q))
        /\ Count(frame[r].after, Later(r)) = Count(frame'[r].after, Later(r)) + l
        /\ Count(frame'[r].after, Later(r)) \in Nat
  <2>1. CASE frame[r].owed = 1
    <3>1. /\ \A these : Count(stack', these) = Count(frame[r].after, these) + Count(Pop, these)
          /\ frame'[r].after = <<>>
      BY <2>1 DEF ResetStep
    <3>2. Count(frame'[r].after, Later(r)) = 0
      BY <3>1, NoCall
    <3>3. \A q : /\ Count(frame[r].after, Resets(q)) = 0 /\ Count(frame[r].after, Arrives(q)) = 0
                 /\ Count(frame[r].after, Records(q)) = 0 /\ Count(frame[r].after, Owings(q)) = 0
                 /\ q # r => Count(frame[r].after, Lists(q)) = 0
                 /\ Count(frame[r].after, Lists(r)) = Count(frame[r].after, Later(r))
      BY AfterCounts
    <3>4. PICK l \in Nat : l = Count(frame[r].after, Later(r))
      BY <1>4
    <3>5. ASSUME NEW q PROVE Count(stack', Lists(q)) = Count(stack, Lists(q)) + (IF r = q THEN l ELSE 0)
      <4>1. Count(stack', Lists(q)) = Count(frame[r].after, Lists(q)) + Count(Pop, Lists(q))
        BY <3>1
      <4>2. Count(stack, Lists(q)) = Count(Pop, Lists(q)) /\ Count(Pop, Lists(q)) \in Nat
        BY <1>2, <1>3
      <4>3. Count(frame[r].after, Lists(q)) = (IF r = q THEN l ELSE 0)
        <5>1. CASE r = q
          BY <3>3, <3>4, <5>1
        <5>2. CASE r # q
          BY <3>3, <5>2
        <5> QED  BY <5>1, <5>2
      <4> QED  BY <4>1, <4>2, <4>3
    <3>6. ASSUME NEW q
          PROVE   /\ Count(stack, Resets(q)) = Count(stack', Resets(q)) + (IF r = q THEN 1 ELSE 0)
                  /\ Count(stack', Arrives(q)) = Count(stack, Arrives(q))
                  /\ Count(stack', Records(q)) = Count(stack, Records(q))
                  /\ Count(stack', Owings(q)) = Count(stack, Owings(q))
      <4>1. /\ Count(stack', Resets(q)) = Count(frame[r].after, Resets(q)) + Count(Pop, Resets(q))
            /\ Count(stack', Arrives(q)) = Count(frame[r].after, Arrives(q)) + Count(Pop, Arrives(q))
            /\ Count(stack', Records(q)) = Count(frame[r].after, Records(q)) + Count(Pop, Records(q))
            /\ Count(stack', Owings(q)) = Count(frame[r].after, Owings(q)) + Count(Pop, Owings(q))
        BY <3>1
      <4>2. /\ Count(frame[r].after, Resets(q)) = 0 /\ Count(frame[r].after, Arrives(q)) = 0
            /\ Count(frame[r].after, Records(q)) = 0 /\ Count(frame[r].after, Owings(q)) = 0
        BY <3>3
      <4>3. /\ Count(Pop, Resets(q)) \in Nat /\ Count(Pop, Arrives(q)) \in Nat
            /\ Count(Pop, Records(q)) \in Nat /\ Count(Pop, Owings(q)) \in Nat
            /\ Count(stack, Resets(q)) = (IF r = q THEN 1 ELSE 0) + Count(Pop, Resets(q))
            /\ Count(stack, Arrives(q)) = Count(Pop, Arrives(q))
            /\ Count(stack, Records(q)) = Count(Pop, Records(q))
            /\ Count(stack, Owings(q)) = Count(Pop, Owings(q))
        BY <1>2, <1>3
      <4> QED  BY <4>1, <4>2, <4>3
    <3> QED  BY <3>2, <3>4, <3>5, <3>6
  <2>2. CASE frame[r].owed # 1
    <3>1. stack' = Pop /\ UNCHANGED frame[r].after
      BY <2>2 DEF ResetStep
    <3>2. 0 \in Nat
      OBVIOUS
    <3>3. ASSUME NEW q
          PROVE   /\ Count(stack, Resets(q)) = Count(stack', Resets(q)) + (IF r = q THEN 1 ELSE 0)
                  /\ Count(stack', Lists(q)) = Count(stack, Lists(q)) + (IF r = q THEN 0 ELSE 0)
                  /\ Count(stack', Arrives(q)) = Count(stack, Arrives(q))
                  /\ Count(stack', Records(q)) = Count(stack, Records(q))
                  /\ Count(stack', Owings(q)) = Count(stack, Owings(q))
      BY <1>2, <1>3, <3>1
    <3>4. /\ Count(frame[r].after, Later(r)) = Count(frame'[r].after, Later(r)) + 0
          /\ Count(frame'[r].after, Later(r)) \in Nat
      BY <1>4, <3>1
    <3> QED  BY <3>2, <3>3, <3>4
  <2> QED  BY <2>1, <2>2
<1>6. /\ \A q, d : Hosted(q, d)' = Hosted(q, d)
      /\ \A k \in Cards : UNCHANGED <<card[k].frames, card[k].pending, card[k].wait>>
  BY DEF ResetStep, Hosted, Out
<1>7. ASSUME NEW q \in Realms, OwedAt(q) PROVE OwedAt(q)'
  <2>1. CASE q = r
    <3>1. Count(stack, Resets(r)) = Count(stack', Resets(r)) + 1
      BY <1>5
    <3>2. Count(stack, Resets(r)) \in Nat /\ Count(stack', Resets(r)) \in Nat
      <4>1. Count(stack, Resets(r)) \in Nat
        BY CountsNat
      <4>2. \E t \in Seq(Items) : t = stack'
        BY DEF Kinds
      <4> QED  BY <4>1, <4>2, WithinCount
    <3>3. Cardinality(Hosted(r, "reset")') = Cardinality(Hosted(r, "reset")) /\ Cardinality(Hosted(r, "reset")) \in Nat
      BY <1>6, HostedNat
    <3>4. frame'[r].owed = Count(stack', Resets(r)) + Cardinality(Hosted(r, "reset")')
      BY <1>1, <1>7, <2>1, <3>1, <3>2, <3>3 DEF OwedAt
    <3> QED  BY <2>1, <3>4 DEF OwedAt, Resets
  <2>2. CASE q # r
    <3>1. Count(stack', Resets(q)) = Count(stack, Resets(q))
      <4>1. Count(stack, Resets(q)) = Count(stack', Resets(q)) + 0
        BY <1>5, <2>2
      <4>2. \E t \in Seq(Items) : t = stack'
        BY DEF Kinds
      <4>3. Count(stack', Resets(q)) \in Nat
        BY <4>2, WithinCount
      <4> QED  BY <4>1, <4>3
    <3> QED  BY <1>1, <1>6, <1>7, <2>2, <3>1, OwedSame
  <2> QED  BY <2>1, <2>2
<1>8. ASSUME NEW q \in Cards, ListedAt(q) PROVE ListedAt(q)'
  <2>1. q \in Realms
    BY AnItem
  <2>2. Count(stack, Lists(q)) \in Nat /\ Count(frame[q].after, Later(q)) \in Nat
    BY <2>1, CountsNat
  <2>3. CASE q = r
    <3>1. PICK l \in Nat : /\ Count(stack', Lists(q)) = Count(stack, Lists(q)) + l
                           /\ Count(frame[q].after, Later(q)) = Count(frame'[q].after, Later(q)) + l
                           /\ Count(frame'[q].after, Later(q)) \in Nat
      BY <1>5, <2>3
    <3>2. Cardinality(Hosted(q, "frames")') = Cardinality(Hosted(q, "frames")) /\ Cardinality(Hosted(q, "frames")) \in Nat
      BY <1>6, HostedNat
    <3>3. card'[q].frames = Count(stack', Lists(q)) + Count(frame'[q].after, Later(q))
                             + Cardinality(Hosted(q, "frames")')
      BY <1>6, <1>8, <2>2, <3>1, <3>2 DEF ListedAt
    <3> QED  BY <3>3 DEF ListedAt, Lists, Later
  <2>4. CASE q # r
    <3>1. Count(stack', Lists(q)) = Count(stack, Lists(q))
      BY <1>5, <2>2, <2>4
    <3>2. UNCHANGED frame[q].after
      BY <1>1, <2>1, <2>4
    <3> QED  BY <1>6, <1>8, <3>1, <3>2, ListedSame
  <2> QED  BY <2>3, <2>4
<1>9. ASSUME NEW q \in Cards, PendingAt(q) PROVE PendingAt(q)'
  BY <1>5, <1>6, <1>9, PendingSame
<1> QED  BY <1>7, <1>8, <1>9, StayedBefore, CountsMeans, AnItem

(* Counts after the step are numbers.                                      *)
LEMMA CountsThen ==
  ASSUME Kinds'
  PROVE  \A these : Count(stack', these) \in Nat
<1>1. PICK s \in Seq(Items) : s = stack'
  BY DEF Kinds
<1> QED  BY <1>1, WithinCount

(* A call of one card's takes its turn; nothing else is counted anew.      *)

(* A call that calls another in its place.                                 *)
LEMMA TurnPush ==
  ASSUME Typed, Shape, NEW k, NEW r, NEW a, At(k, r, a), NEW y, Pushed(y, Pop)
  PROVE  \A these : /\ Count(stack', these) + If(<<k, r, a>>, these) = Count(stack, these) + If(y, these)
                    /\ Count(stack, these) \in Nat
<1>1. \A these : /\ Count(stack, these) = If(<<k, r, a>>, these) + Count(Pop, these)
                 /\ Count(Pop, these) \in Nat
  BY TopCounts
<1>2. \A these : Count(stack', these) = If(y, these) + Count(Pop, these)
  BY DEF Pushed
<1> QED  BY <1>1, <1>2 DEF If

(* A call that returns.                                                    *)
LEMMA TurnPop ==
  ASSUME Typed, Shape, NEW k, NEW r, NEW a, At(k, r, a), stack' = Pop
  PROVE  \A these : /\ Count(stack', these) + If(<<k, r, a>>, these) = Count(stack, these)
                    /\ Count(stack, these) \in Nat
<1>1. \A these : /\ Count(stack, these) = If(<<k, r, a>>, these) + Count(Pop, these)
                 /\ Count(Pop, these) \in Nat
  BY TopCounts
<1> QED  BY <1>1 DEF If

(* Only a card's own lists and arrivals are counted anew.                  *)
LEMMA OwnCounts ==
  ASSUME Typed, Counts, Kinds', NEW c \in Cards, OtherCards(c), Others(c),
         UNCHANGED frame[c].owed,
         \A r, d : Hosted(r, d)' = Hosted(r, d),
         \A k \in Cards : card[k].st = "freed" => card'[k].st = "freed",
         \A q \in Realms :
            /\ Count(stack', Resets(q)) = Count(stack, Resets(q))
            /\ q # c => /\ Count(stack', Lists(q)) = Count(stack, Lists(q))
                        /\ Count(stack', Arrives(q)) = Count(stack, Arrives(q))
                        /\ Count(stack', Records(q)) = Count(stack, Records(q))
                        /\ Count(stack', Owings(q)) = Count(stack, Owings(q)),
         Stays(c) => ListedAt(c)', PendingAt(c)'
  PROVE  Counts'
<1>1. ASSUME NEW q \in Realms, OwedAt(q) PROVE OwedAt(q)'
  <2>1. UNCHANGED frame[q].owed
    BY DEF Others
  <2> QED  BY <1>1, <2>1, OwedSame
<1>2. ASSUME NEW q \in Cards, q # c, ListedAt(q) PROVE ListedAt(q)'
  <2>1. UNCHANGED card[q].frames /\ Count(frame'[q].after, Later(q)) = Count(frame[q].after, Later(q))
    BY <1>2, AnItem DEF Others, OtherCards
  <2> QED  BY <1>2, <2>1, AnItem, ListedSame
<1>3. ASSUME NEW q \in Cards, q # c, PendingAt(q) PROVE PendingAt(q)'
  <2>1. UNCHANGED <<card[q].frames, card[q].pending, card[q].wait>>
    BY <1>3 DEF OtherCards
  <2> QED  BY <1>3, <2>1, AnItem, PendingSame
<1> QED  BY <1>1, <1>2, <1>3, StayedBefore, CountsMeans, AnItem

(* The counts of one card.                                                 *)
LEMMA CardFacts ==
  ASSUME Typed, Counts, NEW c \in Cards
  PROVE  /\ c \in Realms /\ card[c].frames \in Int /\ card[c].pending \in Int /\ PendingAt(c)
         /\ Stays(c) => ListedAt(c)
         /\ \A these : Count(stack, these) \in Nat
         /\ Count(frame[c].after, Later(c)) \in Nat /\ Cardinality(Hosted(c, "frames")) \in Nat
<1>1. c \in Realms
  BY AnItem
<1> QED  BY <1>1, CountsMeans, CountsNat, HostedNat DEF Typed, Kinds, CardRec

(* A card's call becomes its wait for records.                             *)
LEMMA RecordsCounts ==
  ASSUME Typed, Shape, Counts, Kinds', NEW c \in Cards, RecordsStep(c),
         \A k \in Cards : card[k].st = "freed" => card'[k].st = "freed"
  PROVE  Counts'
<1>1. \A these : /\ Count(stack', these) + If(<<"records", c, 0>>, these) = Count(stack, these)
                 /\ Count(stack, these) \in Nat
  BY TurnPop DEF RecordsStep
<1>2. \A q : /\ If(<<"records", c, 0>>, Resets(q)) = 0 /\ If(<<"records", c, 0>>, Lists(q)) = 0
             /\ If(<<"records", c, 0>>, Arrives(q)) = 0 /\ If(<<"records", c, 0>>, Owings(q)) = 0
             /\ If(<<"records", c, 0>>, Records(q)) = (IF c = q THEN 1 ELSE 0)
  BY Weights
<1>3. /\ OtherCards(c) /\ UNCHANGED frame /\ card'[c].wait = "next"
      /\ UNCHANGED <<card[c].host, card[c].done, card[c].disposed, card[c].pending, card[c].frames>>
  BY DEF RecordsStep
<1>4. \A r, d : Hosted(r, d)' = Hosted(r, d)
  BY <1>3 DEF Hosted, Out, OtherCards
<1>5. \A these : Count(stack', these) \in Nat
  BY CountsThen
<1>6. \A q : /\ Count(stack', Resets(q)) = Count(stack, Resets(q)) /\ Count(stack', Lists(q)) = Count(stack, Lists(q))
             /\ Count(stack', Arrives(q)) = Count(stack, Arrives(q)) /\ Count(stack', Owings(q)) = Count(stack, Owings(q))
             /\ Count(stack', Records(q)) + (IF c = q THEN 1 ELSE 0) = Count(stack, Records(q))
  BY <1>1, <1>2, <1>5
<1>7. PendingAt(c)'
  <2>1. PendingAt(c)
    BY CardFacts
  <2>2. Count(stack', Records(c)) + 1 = Count(stack, Records(c))
    BY <1>6
  <2>3. Waiter(c)' = 1 /\ Waiter(c) \in {0, 1} /\ Framed(c)' = Framed(c) /\ Framed(c) \in {0, 1}
    BY <1>3 DEF Waiter, Framed
  <2>4. Waiter(c) = 0
    BY <1>5, <2>1, <2>2, <2>3 DEF PendingAt
  <2>5. /\ card'[c].pending = Count(stack', Arrives(c)) + Count(stack', Records(c)) + Waiter(c)' + Framed(c)'
        /\ Count(stack', Records(c)) + Waiter(c)' <= 1
    BY <1>1, <1>3, <1>5, <1>6, <2>1, <2>2, <2>3, <2>4 DEF PendingAt
  <2>6. card'[c].frames + Count(stack', Owings(c)) <= 3 /\ card'[c].pending <= 2 /\ card'[c].frames >= 0
    BY <1>3, <1>6, <2>1 DEF PendingAt
  <2> QED  BY <2>5, <2>6 DEF PendingAt, Arrives, Records, Owings
<1>8. ASSUME Stays(c) PROVE ListedAt(c)'
  <2>1. ListedAt(c)
    BY <1>8, CardFacts
  <2> QED  BY <1>3, <1>4, <1>6, <2>1, ListedSame
<1> QED  BY <1>3, <1>4, <1>5, <1>6, <1>7, <1>8, OwnCounts DEF Others

(* That wait becomes its arrival.                                          *)
LEMMA FlushCounts ==
  ASSUME Typed, Shape, Counts, Kinds', NEW c \in Cards, FlushStep(c),
         \A k \in Cards : card[k].st = "freed" => card'[k].st = "freed"
  PROVE  Counts'
<1>0. stack = <<>> /\ UNCHANGED frame
  BY DEF FlushStep
<1>1. CASE card[c].wait # "due"
  <2>1. stack' = stack
    BY <1>0, <1>1 DEF FlushStep
  <2>2. SameCards
    BY <1>1 DEF FlushStep, SameCards, OtherCards
  <2>3. Calm
    BY <1>0, <2>1, <2>2 DEF Calm, SameCalls, SameOwed
  <2> QED  BY <2>3, CalmCounts
<1>2. CASE card[c].wait = "due"
  <2>1. \A these : Count(stack', these) = If(<<"arrive", c, 0>>, these) /\ Count(stack, these) = 0
    <3>1. \A these : Count(stack', these) = If(<<"arrive", c, 0>>, these) + Count(<<>>, these)
      BY <1>2 DEF Pushed, FlushStep
    <3> QED  BY <1>0, <3>1, NoCall DEF If
  <2>2. \A q : /\ If(<<"arrive", c, 0>>, Resets(q)) = 0 /\ If(<<"arrive", c, 0>>, Lists(q)) = 0
               /\ If(<<"arrive", c, 0>>, Records(q)) = 0 /\ If(<<"arrive", c, 0>>, Owings(q)) = 0
               /\ If(<<"arrive", c, 0>>, Arrives(q)) = (IF c = q THEN 1 ELSE 0)
    BY Weights
  <2>3. /\ OtherCards(c) /\ card'[c].wait = "no"
        /\ UNCHANGED <<card[c].host, card[c].done, card[c].disposed, card[c].pending, card[c].frames>>
    BY <1>2 DEF FlushStep
  <2>4. \A r, d : Hosted(r, d)' = Hosted(r, d)
    BY <2>3 DEF Hosted, Out, OtherCards
  <2>5. \A q : /\ Count(stack', Resets(q)) = Count(stack, Resets(q)) /\ Count(stack', Lists(q)) = Count(stack, Lists(q))
               /\ Count(stack', Records(q)) = Count(stack, Records(q)) /\ Count(stack', Owings(q)) = Count(stack, Owings(q))
               /\ Count(stack', Arrives(q)) = (IF c = q THEN 1 ELSE 0) /\ Count(stack, Arrives(q)) = 0
    BY <2>1, <2>2
  <2>6. PendingAt(c)'
    <3>1. PendingAt(c)
      BY CardFacts
    <3>2. Waiter(c)' = 0 /\ Waiter(c) = 1 /\ Framed(c)' = Framed(c) /\ Framed(c) \in {0, 1}
      BY <1>2, <2>3 DEF Waiter, Framed
    <3>3. Count(stack, Records(c)) = 0 /\ Count(stack', Records(c)) = 0
      BY <2>1, <2>5
    <3>4. Count(stack', Arrives(c)) = 1 /\ Count(stack, Arrives(c)) = 0
      BY <2>5
    <3>5. /\ card'[c].pending = Count(stack', Arrives(c)) + Count(stack', Records(c)) + Waiter(c)' + Framed(c)'
          /\ Count(stack', Records(c)) + Waiter(c)' <= 1
      BY <2>3, <3>1, <3>2, <3>3, <3>4 DEF PendingAt
    <3>6. card'[c].frames + Count(stack', Owings(c)) <= 3 /\ card'[c].pending <= 2 /\ card'[c].frames >= 0
      BY <2>3, <2>5, <3>1 DEF PendingAt
    <3> QED  BY <3>5, <3>6 DEF PendingAt, Arrives, Records, Owings
  <2>7. ASSUME Stays(c) PROVE ListedAt(c)'
    <3>1. ListedAt(c)
      BY <2>7, CardFacts
    <3> QED  BY <1>0, <2>3, <2>4, <2>5, <3>1, ListedSame
  <2>8. \A q : q # c => Count(stack', Arrives(q)) = Count(stack, Arrives(q))
    BY <2>5
  <2> QED  BY <1>0, <2>3, <2>4, <2>5, <2>6, <2>7, <2>8, OwnCounts DEF Others
<1> QED  BY <1>1, <1>2

(* A list is in: the last arrives.                                         *)
LEMMA FramesCounts ==
  ASSUME Typed, Shape, Life, Counts, Kinds', NEW c \in Cards, FramesStep(c),
         \A k \in Cards : card[k].st = "freed" => card'[k].st = "freed"
  PROVE  Counts'
<1>0. At("frames", c, 0) /\ UNCHANGED frame /\ c \in Realms
  BY AnItem DEF FramesStep
<1>1. /\ OtherCards(c) /\ card'[c].frames = card[c].frames - 1
      /\ UNCHANGED <<card[c].host, card[c].done, card[c].disposed, card[c].pending, card[c].wait>>
  BY DEF FramesStep
<1>2. \A r, d : Hosted(r, d)' = Hosted(r, d)
  BY <1>1 DEF Hosted, Out, OtherCards
<1>3. Stays(c) /\ ListedAt(c) /\ PendingAt(c) /\ card[c].frames \in Int
  <2>1. Alive(c)
    BY <1>0, CallAlive
  <2>2. Stays(c)
    BY <2>1 DEF Alive, Stays
  <2> QED  BY <2>2, CardFacts
<1>4. \A q : /\ If(<<"frames", c, 0>>, Resets(q)) = 0 /\ If(<<"frames", c, 0>>, Arrives(q)) = 0
             /\ If(<<"frames", c, 0>>, Records(q)) = 0 /\ If(<<"frames", c, 0>>, Owings(q)) = 0
             /\ If(<<"frames", c, 0>>, Lists(q)) = (IF c = q THEN 1 ELSE 0)
  BY Weights
<1>5. \A these : Count(stack', these) \in Nat /\ Count(stack, these) \in Nat
  BY CountsThen, CountsNat
<1>6. \A q : /\ Count(stack', Resets(q)) = Count(stack, Resets(q))
             /\ Count(stack', Records(q)) = Count(stack, Records(q)) /\ Count(stack', Owings(q)) = Count(stack, Owings(q))
             /\ Count(stack', Arrives(q)) = Count(stack, Arrives(q)) + (IF c = q /\ card[c].frames = 1 THEN 1 ELSE 0)
             /\ Count(stack', Lists(q)) + (IF c = q THEN 1 ELSE 0) = Count(stack, Lists(q))
  <2>1. CASE card[c].frames = 1
    <3>1. \A q : /\ If(<<"arrive", c, 0>>, Resets(q)) = 0 /\ If(<<"arrive", c, 0>>, Lists(q)) = 0
                 /\ If(<<"arrive", c, 0>>, Records(q)) = 0 /\ If(<<"arrive", c, 0>>, Owings(q)) = 0
                 /\ If(<<"arrive", c, 0>>, Arrives(q)) = (IF c = q THEN 1 ELSE 0)
      BY Weights
    <3>2. \A these : Count(stack', these) + If(<<"frames", c, 0>>, these) = Count(stack, these) + If(<<"arrive", c, 0>>, these)
      BY <1>0, <2>1, TurnPush DEF FramesStep
    <3> QED  BY <1>4, <1>5, <2>1, <3>1, <3>2
  <2>2. CASE card[c].frames # 1
    <3>1. \A these : Count(stack', these) + If(<<"frames", c, 0>>, these) = Count(stack, these)
      BY <1>0, <2>2, TurnPop DEF FramesStep
    <3> QED  BY <1>4, <1>5, <2>2, <3>1
  <2> QED  BY <2>1, <2>2
<1>7. /\ Count(stack', Lists(c)) + 1 = Count(stack, Lists(c))
      /\ Count(frame[c].after, Later(c)) \in Nat /\ Cardinality(Hosted(c, "frames")) \in Nat
  BY <1>6, CardFacts
<1>8. card[c].frames >= 1
  BY <1>3, <1>5, <1>7 DEF ListedAt
<1>9. PendingAt(c)'
  <2>1. Waiter(c)' = Waiter(c) /\ Waiter(c) \in {0, 1} /\ Framed(c) = 1
        /\ Framed(c)' = (IF card[c].frames = 1 THEN 0 ELSE 1)
    BY <1>1, <1>3, <1>8 DEF Waiter, Framed
  <2>2. Count(stack', Arrives(c)) = Count(stack, Arrives(c)) + (IF card[c].frames = 1 THEN 1 ELSE 0)
    BY <1>6
  <2>3. card'[c].pending = Count(stack', Arrives(c)) + Count(stack', Records(c)) + Waiter(c)' + Framed(c)'
    BY <1>1, <1>3, <1>5, <1>6, <2>1, <2>2 DEF PendingAt
  <2>4. /\ Count(stack', Records(c)) + Waiter(c)' <= 1
        /\ card'[c].frames + Count(stack', Owings(c)) <= 3 /\ card'[c].pending <= 2 /\ card'[c].frames >= 0
    BY <1>1, <1>3, <1>5, <1>6, <1>8, <2>1 DEF PendingAt
  <2> QED  BY <2>3, <2>4 DEF PendingAt, Arrives, Records, Owings
<1>10. ListedAt(c)'
  <2>1. card'[c].frames = Count(stack', Lists(c)) + Count(frame'[c].after, Later(c)) + Cardinality(Hosted(c, "frames")')
    BY <1>0, <1>1, <1>2, <1>3, <1>5, <1>7 DEF ListedAt
  <2> QED  BY <2>1 DEF ListedAt, Lists, Later
<1>11. \A q : q # c => /\ Count(stack', Lists(q)) = Count(stack, Lists(q))
                       /\ Count(stack', Arrives(q)) = Count(stack, Arrives(q))
  BY <1>5, <1>6
<1> QED  BY <1>0, <1>1, <1>2, <1>6, <1>9, <1>10, <1>11, OwnCounts DEF Others

(* What is owed is put off as one list more.                               *)
LEMMA OwingCounts ==
  ASSUME Typed, Shape, Life, Counts, Kinds', NEW c \in Cards, OwingStep(c),
         \A k \in Cards : card[k].st = "freed" => card'[k].st = "freed"
  PROVE  Counts'
<1>0. At("owing", c, 0) /\ Others(c) /\ UNCHANGED frame[c].owed /\ c \in Realms /\ stack' = Pop
  BY AnItem DEF OwingStep
<1>1. /\ OtherCards(c)
      /\ UNCHANGED <<card[c].host, card[c].done, card[c].disposed, card[c].pending, card[c].wait>>
  BY DEF OwingStep
<1>2. \A r, d : Hosted(r, d)' = Hosted(r, d)
  BY <1>1 DEF Hosted, Out, OtherCards
<1>3. Stays(c) /\ ListedAt(c) /\ PendingAt(c) /\ card[c].frames \in Int
  <2>1. Alive(c)
    BY <1>0, CallAlive
  <2>2. Stays(c)
    BY <2>1 DEF Alive, Stays
  <2> QED  BY <2>2, CardFacts
<1>4. \A q : /\ If(<<"owing", c, 0>>, Resets(q)) = 0 /\ If(<<"owing", c, 0>>, Arrives(q)) = 0
             /\ If(<<"owing", c, 0>>, Records(q)) = 0 /\ If(<<"owing", c, 0>>, Lists(q)) = 0
             /\ If(<<"owing", c, 0>>, Owings(q)) = (IF c = q THEN 1 ELSE 0)
  BY Weights
<1>5. \A these : Count(stack', these) \in Nat /\ Count(stack, these) \in Nat
  BY CountsThen, CountsNat
<1>6. \A q : /\ Count(stack', Resets(q)) = Count(stack, Resets(q))
             /\ Count(stack', Records(q)) = Count(stack, Records(q)) /\ Count(stack', Lists(q)) = Count(stack, Lists(q))
             /\ Count(stack', Arrives(q)) = Count(stack, Arrives(q))
             /\ Count(stack', Owings(q)) + (IF c = q THEN 1 ELSE 0) = Count(stack, Owings(q))
  <2>1. \A these : Count(stack', these) + If(<<"owing", c, 0>>, these) = Count(stack, these)
    BY <1>0, TurnPop
  <2> QED  BY <1>4, <1>5, <2>1
<1>7. /\ Count(stack', Lists(c)) = Count(stack, Lists(c)) /\ Count(stack', Owings(c)) + 1 = Count(stack, Owings(c))
      /\ Count(frame[c].after, Later(c)) \in Nat /\ Cardinality(Hosted(c, "frames")) \in Nat
  BY <1>6, CardFacts
<1>8. card[c].frames >= 1
  <2>1. Pop \in Seq(Items) /\ Pop # <<>> /\ Head(Pop) = <<"frames", c, 0>>
    BY <1>0, Popped DEF At
  <2>2. \A these : Count(Pop, these) = If(Head(Pop), these) + Count(Tail(Pop), these) /\ Count(Pop, these) \in Nat
    BY <2>1, SplitCount
  <2>3. Tail(Pop) \in Seq(Items)
    BY <2>1
  <2>4. Count(Tail(Pop), Lists(c)) \in Nat
    BY <2>3, WithinCount
  <2>5. If(<<"frames", c, 0>>, Lists(c)) = 1
    BY Weights
  <2>6. Count(stack', Lists(c)) >= 1
    BY SMTT(30), <1>0, <2>1, <2>2, <2>4, <2>5
  <2> QED  BY <1>3, <1>5, <1>7, <2>6 DEF ListedAt
<1>9. \/ /\ card'[c].frames = card[c].frames + 1
         /\ Count(frame'[c].after, Later(c)) = Count(frame[c].after, Later(c)) + 1
      \/ card'[c].frames = card[c].frames /\ Count(frame'[c].after, Later(c)) = Count(frame[c].after, Later(c))
  <2>1. CASE frame[c].owed > 0
    <3>1. card'[c].frames = card[c].frames + 1 /\ frame'[c].after = Append(frame[c].after, <<"frames", c, 0>>)
      BY <2>1 DEF OwingStep
    <3>2. <<"frames", c, 0>> \in AfterItems
      BY DEF AfterItems
    <3>3. \A these : Count(frame'[c].after, these) = Count(frame[c].after, these) + If(<<"frames", c, 0>>, these)
      BY <1>0, <3>1, <3>2, AfterPut
    <3>4. If(<<"frames", c, 0>>, Later(c)) = 1
      BY Weights
    <3> QED  BY <3>1, <3>3, <3>4
  <2>2. CASE ~(frame[c].owed > 0)
    BY <2>2 DEF OwingStep
  <2> QED  BY <2>1, <2>2
<1>10. PendingAt(c)'
  <2>1. Waiter(c)' = Waiter(c) /\ Waiter(c) \in {0, 1} /\ Framed(c) = 1 /\ Framed(c)' = 1
    BY <1>1, <1>3, <1>8, <1>9 DEF Waiter, Framed
  <2>2. card'[c].pending = Count(stack', Arrives(c)) + Count(stack', Records(c)) + Waiter(c)' + Framed(c)'
    BY <1>1, <1>3, <1>6, <2>1 DEF PendingAt
  <2>3. Count(stack', Records(c)) + Waiter(c)' <= 1 /\ card'[c].pending <= 2
    BY <1>1, <1>3, <1>6, <2>1 DEF PendingAt
  <2>4. card'[c].frames + Count(stack', Owings(c)) <= 3 /\ card'[c].frames >= 0
    BY <1>3, <1>5, <1>7, <1>8, <1>9 DEF PendingAt
  <2> QED  BY <2>2, <2>3, <2>4 DEF PendingAt, Arrives, Records, Owings
<1>11. ListedAt(c)'
  <2>1. Cardinality(Hosted(c, "frames")') = Cardinality(Hosted(c, "frames"))
    BY <1>2
  <2>2. card[c].frames = Count(stack, Lists(c)) + Count(frame[c].after, Later(c)) + Cardinality(Hosted(c, "frames"))
    BY <1>3 DEF ListedAt
  <2>3. card'[c].frames = Count(stack', Lists(c)) + Count(frame'[c].after, Later(c)) + Cardinality(Hosted(c, "frames")')
    BY <1>5, <1>7, <1>9, <2>1, <2>2
  <2> QED  BY <2>3 DEF ListedAt, Lists, Later
<1>12. \A q : q # c => Count(stack', Owings(q)) = Count(stack, Owings(q))
  BY <1>5, <1>6
<1> QED  BY <1>0, <1>1, <1>2, <1>6, <1>10, <1>11, <1>12, OwnCounts

(* A disposal begins with what it has yet to wait for.                     *)
LEMMA DisposeCounts ==
  ASSUME Typed, Shape, Flags, Counts, Kinds', NEW c \in Cards, DisposeStep(c),
         \A k \in Cards : card[k].st = "freed" => card'[k].st = "freed"
  PROVE  Counts'
<1>0. At("dispose", c, 0) /\ UNCHANGED frame /\ c \in Realms
  BY AnItem DEF DisposeStep
<1>1. /\ OtherCards(c) /\ card'[c].disposed /\ card'[c].pending = 2 /\ card'[c].frames = (IF frame[c].loaded THEN 2 ELSE 1)
      /\ UNCHANGED <<card[c].host, card[c].done, card[c].wait>>
  BY DEF DisposeStep
<1>2. ~card[c].disposed /\ card[c].wait = "no"
  <2>1. ~card[c].disposed
    BY <1>0 DEF Flags
  <2>2. card[c].wait # "no" => card[c].disposed
    BY DEF Flags
  <2> QED  BY <2>1, <2>2
<1>3. \A r, d : Hosted(r, d)' = Hosted(r, d)
  BY <1>1, <1>2 DEF Hosted, Out, OtherCards
<1>4. \A these : Count(stack', these) \in Nat /\ Count(stack, these) \in Nat
  BY CountsThen, CountsNat
<1>5. PICK k \in {"records", "arrive"} : \A these : Count(stack', these) =
                (IF frame[c].loaded THEN If(<<"close", c, "frames">>, these) ELSE 0)
                + If(<<"owing", c, 0>>, these) + If(<<"frames", c, 0>>, these)
                + If(<<k, c, 0>>, these) + Count(Pop, these)
  BY DisposeStack
<1>6. \A these : Count(stack, these) = If(<<"dispose", c, 0>>, these) + Count(Pop, these) /\ Count(Pop, these) \in Nat
  BY <1>0, TopCounts
<1>7. \A q : If(<<"dispose", c, 0>>, Resets(q)) = 0 /\ If(<<"dispose", c, 0>>, Lists(q)) = 0
          /\ If(<<"dispose", c, 0>>, Arrives(q)) = 0 /\ If(<<"dispose", c, 0>>, Records(q)) = 0
          /\ If(<<"dispose", c, 0>>, Owings(q)) = 0
  BY Weights
<1>8. \A q : If(<<"close", c, "frames">>, Resets(q)) = 0
          /\ If(<<"close", c, "frames">>, Lists(q)) = (IF c = q THEN 1 ELSE 0)
          /\ If(<<"close", c, "frames">>, Arrives(q)) = 0 /\ If(<<"close", c, "frames">>, Records(q)) = 0
          /\ If(<<"close", c, "frames">>, Owings(q)) = 0
  BY Weights
<1>9. \A q : If(<<"owing", c, 0>>, Resets(q)) = 0 /\ If(<<"owing", c, 0>>, Lists(q)) = 0
          /\ If(<<"owing", c, 0>>, Arrives(q)) = 0 /\ If(<<"owing", c, 0>>, Records(q)) = 0
          /\ If(<<"owing", c, 0>>, Owings(q)) = (IF c = q THEN 1 ELSE 0)
  BY Weights
<1>10. \A q : If(<<"frames", c, 0>>, Resets(q)) = 0 /\ If(<<"frames", c, 0>>, Lists(q)) = (IF c = q THEN 1 ELSE 0)
          /\ If(<<"frames", c, 0>>, Arrives(q)) = 0 /\ If(<<"frames", c, 0>>, Records(q)) = 0
          /\ If(<<"frames", c, 0>>, Owings(q)) = 0
  BY Weights
<1>11. \A q : If(<<k, c, 0>>, Resets(q)) = 0 /\ If(<<k, c, 0>>, Lists(q)) = 0 /\ If(<<k, c, 0>>, Owings(q)) = 0
          /\ If(<<k, c, 0>>, Arrives(q)) = (IF c = q /\ k = "arrive" THEN 1 ELSE 0)
          /\ If(<<k, c, 0>>, Records(q)) = (IF c = q /\ k = "records" THEN 1 ELSE 0)
  BY Weights
<1>12. \A q : q # c =>
          /\ Count(stack', Lists(q)) = Count(stack, Lists(q)) /\ Count(stack', Arrives(q)) = Count(stack, Arrives(q))
          /\ Count(stack', Records(q)) = Count(stack, Records(q)) /\ Count(stack', Owings(q)) = Count(stack, Owings(q))
  BY <1>5, <1>6, <1>7, <1>8, <1>9, <1>10, <1>11
<1>13. \A q : Count(stack', Resets(q)) = Count(stack, Resets(q))
  BY <1>5, <1>6, <1>7, <1>8, <1>9, <1>10, <1>11
<1>14. Count(stack, Lists(c)) = 0 /\ Count(stack, Arrives(c)) = 0 /\ Count(stack, Records(c)) = 0 /\ Count(stack, Owings(c)) = 0
  <2>1. <<"close", c, "frames">> \notin Within(stack) /\ <<"frames", c, 0>> \notin Within(stack)
        /\ <<"arrive", c, 0>> \notin Within(stack) /\ <<"records", c, 0>> \notin Within(stack)
         /\ <<"owing", c, 0>> \notin Within(stack)
    BY <1>2, LateCall
  <2>2. stack \in Seq(Items)
    BY DEF Typed, Kinds
  <2>3. \A these : Count(stack, these) # 0 => \E x \in these : x \in Within(stack)
    BY <2>2, WithinCount
  <2> QED  BY <2>1, <2>3 DEF Lists, Arrives, Records, Owings
<1>15. Count(frame[c].after, Later(c)) = 0
  <2>1. <<"frames", c, 0>> \notin Within(frame[c].after)
    BY <1>2 DEF Flags
  <2>2. frame[c].after \in Seq(AfterItems)
    BY <1>0 DEF Typed, Kinds, FrameRec
  <2>3. Count(frame[c].after, Later(c)) # 0 => \E x \in Later(c) : x \in Within(frame[c].after)
    BY <2>2, WithinCount
  <2> QED  BY <2>1, <2>3 DEF Later
<1>16. Cardinality(Hosted(c, "frames")) = 0
  <2>1. \A j \in Cards : card[j].done = "frames" /\ card[j].host = c => card[c].disposed
    BY DEF Flags
  <2>2. Hosted(c, "frames") = {}
    BY <1>2, <2>1 DEF Hosted
  <2> QED  BY <2>2, FS_EmptySet
<1>17. /\ Count(stack', Lists(c)) = (IF frame[c].loaded THEN 2 ELSE 1) /\ Count(stack', Owings(c)) = 1
       /\ Count(stack', Arrives(c)) = (IF k = "arrive" THEN 1 ELSE 0)
       /\ Count(stack', Records(c)) = (IF k = "records" THEN 1 ELSE 0)
  BY <1>5, <1>6, <1>7, <1>8, <1>9, <1>10, <1>11, <1>14
<1>18. PendingAt(c)'
  <2>1. Waiter(c)' = 0 /\ Framed(c)' = 1
    BY <1>1, <1>2 DEF Waiter, Framed
  <2>2. card'[c].pending = Count(stack', Arrives(c)) + Count(stack', Records(c)) + Waiter(c)' + Framed(c)'
        /\ Count(stack', Records(c)) + Waiter(c)' <= 1
    BY <1>1, <1>17, <2>1
  <2>3. card'[c].frames + Count(stack', Owings(c)) <= 3 /\ card'[c].pending <= 2 /\ card'[c].frames >= 0
    BY <1>1, <1>17
  <2> QED  BY <2>2, <2>3 DEF PendingAt, Arrives, Records, Owings
<1>19. ListedAt(c)'
  <2>1. Cardinality(Hosted(c, "frames")') = 0 /\ Count(frame'[c].after, Later(c)) = 0
    BY <1>0, <1>3, <1>15, <1>16
  <2>2. card'[c].frames = Count(stack', Lists(c)) + Count(frame'[c].after, Later(c)) + Cardinality(Hosted(c, "frames")')
    BY <1>1, <1>17, <2>1
  <2> QED  BY <2>2 DEF ListedAt, Lists, Later
<1> QED  BY <1>0, <1>1, <1>3, <1>12, <1>13, <1>18, <1>19, OwnCounts DEF Others

(* A card that has posted its last list is no longer waited for, but owed  *)
(* a call of its host's.                                                   *)
LEMMA ArriveMoves ==
  ASSUME Typed, Shape, Flags, Life, Counts, Kinds', NEW c \in Cards, ArriveStep(c),
         \A k \in Cards : card[k].st = "freed" => card'[k].st = "freed",
         NEW q \in Realms, Stays(q)'
  PROVE  /\ Count(stack', Resets(q)) + Cardinality(Hosted(q, "reset")')
               = Count(stack, Resets(q)) + Cardinality(Hosted(q, "reset"))
         /\ Count(stack', Lists(q)) + Cardinality(Hosted(q, "frames")')
               = Count(stack, Lists(q)) + Cardinality(Hosted(q, "frames"))
<1>a. PICK h \in Realms, d \in Dones : h = card[c].host /\ d = card[c].done
  BY DEF Typed, Kinds, CardRec
<1>0. At("arrive", c, 0)
  BY DEF ArriveStep
<1>1. /\ OtherCards(c) /\ card'[c].pending = card[c].pending - 1
      /\ UNCHANGED <<card[c].host, card[c].done, card[c].disposed>>
  BY DEF ArriveStep
<1>2. card[c].disposed /\ d # "none" /\ card[c].st # "unmade"
  <2>1. <<"arrive", c, 0>> \in Within(stack)
    BY <1>0, AtFacts
  <2>2. card[c].disposed
    BY <2>1, LateCall
  <2>3. d # "none"
    BY <1>a, <2>2 DEF Flags
  <2>4. card[c].st \notin {"unmade", "made"}
    BY <1>a, <2>3 DEF Flags
  <2> QED  BY <2>2, <2>3, <2>4
<1>3. h \in Realms /\ d \in Conts /\ (d # "none" /\ h # Page => h \in Cards)
  BY <1>2, AnItem DEF Dones
<1>4. \A these : Count(stack', these) \in Nat /\ Count(stack, these) \in Nat
  BY CountsThen, CountsNat
<1>5. \A r, e : Cardinality(Hosted(r, e)) \in Nat /\ Cardinality(Hosted(r, e)') \in Nat
  BY HostedNat, HostedNatThen
<1>6. If(<<"arrive", c, 0>>, Resets(q)) = 0 /\ If(<<"arrive", c, 0>>, Lists(q)) = 0
      /\ If(<<"arrive", c, 0>>, Arrives(c)) = 1
  BY Weights
<1>7. card[c].pending \in Int /\ card[c].pending >= 1
  <2>1. Count(stack, Arrives(c)) = If(<<"arrive", c, 0>>, Arrives(c)) + Count(Pop, Arrives(c)) /\ Count(Pop, Arrives(c)) \in Nat
    BY <1>0, TopCounts
  <2>2. PendingAt(c) /\ card[c].pending \in Int /\ card[c].frames \in Int
    BY CardFacts
  <2>3. Waiter(c) \in {0, 1} /\ Framed(c) \in {0, 1}
    BY DEF Waiter, Framed
  <2>4. Count(stack, Arrives(c)) >= 1 /\ Count(stack, Arrives(c)) \in Nat /\ Count(stack, Records(c)) \in Nat
    BY <1>4, <1>6, <2>1
  <2> QED  BY <2>2, <2>3, <2>4 DEF PendingAt
<1>8. CASE card[c].pending # 1
  <2>1. \A r, e : Hosted(r, e)' = Hosted(r, e)
    BY <1>1, <1>2, <1>7, <1>8 DEF Hosted, Out, OtherCards
  <2>2. \A these : Count(stack', these) + If(<<"arrive", c, 0>>, these) = Count(stack, these)
    BY <1>0, <1>8, TurnPop DEF ArriveStep
  <2> QED  BY <1>4, <1>5, <1>6, <2>1, <2>2
<1>9. CASE card[c].pending = 1
  <2>1. Out(c) /\ ~Out(c)'
    BY <1>1, <1>2, <1>9 DEF Out
  <2>2. \A e : Hosted(h, e)' = IF e = d THEN Hosted(h, e) \ {c} ELSE Hosted(h, e)
    BY <1>a, <1>1, <2>1 DEF Hosted, Out, OtherCards
  <2>3. c \in Hosted(h, d)
    BY <1>a, <2>1 DEF Hosted
  <2>4. Cardinality(Hosted(h, d)') = Cardinality(Hosted(h, d)) - 1
    <3>1. Hosted(h, d)' = Hosted(h, d) \ {c}
      BY <2>2
    <3> QED  BY <2>3, <3>1, HostedLoses
  <2>5. \A e : e # d => Hosted(h, e)' = Hosted(h, e)
    BY <2>2
  <2>6. \A r, e : r # h => Hosted(r, e)' = Hosted(r, e)
    BY <1>a, <1>1 DEF Hosted, Out, OtherCards
  <2>7. CASE ~Alive(h)
    <3>1. h \in Cards /\ card[h].st \in {"unmade", "freed"}
      BY <1>3, <2>7 DEF Alive, Typed, Kinds, CardRec, Stages, Conts
    <3>2. card[h].st # "unmade"
      BY <1>a, <1>2, <3>1, AnItem DEF Life
    <3>3. card'[h].st = "freed" /\ h # Page
      BY <3>1, <3>2, AnItem
    <3>4. q # h
      BY <3>3 DEF Stays
    <3>5. \A these : Count(stack', these) + If(<<"arrive", c, 0>>, these) = Count(stack, these)
      BY <1>a, <1>0, <2>7, TurnPop DEF ArriveStep
    <3> QED  BY <1>4, <1>5, <1>6, <2>6, <3>4, <3>5
  <2>8. CASE Alive(h)
    <3>1. Pushed(<<d, h, 0>>, Pop)
      BY <1>a, <1>9, <2>8 DEF ArriveStep
    <3>2. \A these : Count(stack', these) + If(<<"arrive", c, 0>>, these) = Count(stack, these) + If(<<d, h, 0>>, these)
      BY <1>0, <3>1, TurnPush
    <3>3. /\ If(<<d, h, 0>>, Resets(q)) = (IF h = q /\ d = "reset" THEN 1 ELSE 0)
          /\ If(<<d, h, 0>>, Lists(q)) = (IF h = q /\ d = "frames" THEN 1 ELSE 0)
      <4>1. d # "close"
        BY <1>3 DEF Conts
      <4> QED  BY <4>1, Weights
    <3>4. Cardinality(Hosted(q, "reset")') = Cardinality(Hosted(q, "reset")) - (IF h = q /\ d = "reset" THEN 1 ELSE 0)
      <4>1. CASE h = q /\ d = "reset"
        BY <2>4, <4>1
      <4>2. CASE ~(h = q /\ d = "reset")
        BY <1>5, <2>5, <2>6, <4>2
      <4> QED  BY <4>1, <4>2
    <3>5. Cardinality(Hosted(q, "frames")') = Cardinality(Hosted(q, "frames")) - (IF h = q /\ d = "frames" THEN 1 ELSE 0)
      <4>1. CASE h = q /\ d = "frames"
        BY <2>4, <4>1
      <4>2. CASE ~(h = q /\ d = "frames")
        BY <1>5, <2>5, <2>6, <4>2
      <4> QED  BY <4>1, <4>2
    <3>6. Count(stack', Resets(q)) = Count(stack, Resets(q)) + (IF h = q /\ d = "reset" THEN 1 ELSE 0)
      BY <1>4, <1>6, <3>2, <3>3
    <3>7. Count(stack', Lists(q)) = Count(stack, Lists(q)) + (IF h = q /\ d = "frames" THEN 1 ELSE 0)
      BY <1>4, <1>6, <3>2, <3>3
    <3> QED  BY <1>4, <1>5, <3>4, <3>5, <3>6, <3>7
  <2> QED  BY <2>7, <2>8
<1> QED  BY <1>8, <1>9

(* What arrives is waited for no longer, and the last calls the frame.     *)
LEMMA ArriveCounts ==
  ASSUME Typed, Shape, Flags, Life, Counts, Kinds', NEW c \in Cards, ArriveStep(c),
         \A k \in Cards : card[k].st = "freed" => card'[k].st = "freed"
  PROVE  Counts'
<1>0. At("arrive", c, 0) /\ UNCHANGED frame
  BY DEF ArriveStep
<1>1. /\ OtherCards(c) /\ card'[c].pending = card[c].pending - 1
      /\ UNCHANGED <<card[c].frames, card[c].wait>>
  BY DEF ArriveStep
<1>2. \A these : Count(stack', these) \in Nat /\ Count(stack, these) \in Nat
  BY CountsThen, CountsNat
<1>3. \A q : /\ If(<<"arrive", c, 0>>, Records(q)) = 0 /\ If(<<"arrive", c, 0>>, Owings(q)) = 0
             /\ If(<<"arrive", c, 0>>, Arrives(q)) = (IF c = q THEN 1 ELSE 0)
  BY Weights
<1>4. \A q : /\ Count(stack', Records(q)) = Count(stack, Records(q)) /\ Count(stack', Owings(q)) = Count(stack, Owings(q))
             /\ Count(stack', Arrives(q)) + (IF c = q THEN 1 ELSE 0) = Count(stack, Arrives(q))
  <2>1. CASE card[c].pending = 1 /\ Alive(card[c].host)
    <3>1. Pushed(<<card[c].done, card[c].host, 0>>, Pop)
      BY <2>1 DEF ArriveStep
    <3>2. \A these : Count(stack', these) + If(<<"arrive", c, 0>>, these) = Count(stack, these) + If(<<card[c].done, card[c].host, 0>>, these)
      BY <1>0, <3>1, TurnPush
    <3>3. card[c].done \notin {"arrive", "records", "owing"}
      BY DEF Typed, Kinds, CardRec, Dones, Conts
    <3>4. \A q : /\ If(<<card[c].done, card[c].host, 0>>, Records(q)) = 0
                 /\ If(<<card[c].done, card[c].host, 0>>, Owings(q)) = 0
                 /\ If(<<card[c].done, card[c].host, 0>>, Arrives(q)) = 0
      BY <3>3, Weights
    <3> QED  BY <1>2, <1>3, <3>2, <3>4
  <2>2. CASE ~(card[c].pending = 1 /\ Alive(card[c].host))
    <3>1. \A these : Count(stack', these) + If(<<"arrive", c, 0>>, these) = Count(stack, these)
      BY <1>0, <2>2, TurnPop DEF ArriveStep
    <3> QED  BY <1>2, <1>3, <3>1
  <2> QED  BY <2>1, <2>2
<1>5. ASSUME NEW q \in Realms, Stays(q)' PROVE OwedAt(q)'
  <2>1. Stays(q)
    BY <1>5, StayedBefore
  <2>2. OwedAt(q)
    BY <2>1 DEF Counts
  <2>3. Count(stack', Resets(q)) + Cardinality(Hosted(q, "reset")')
               = Count(stack, Resets(q)) + Cardinality(Hosted(q, "reset"))
    BY <1>5, ArriveMoves
  <2> QED  BY <1>0, <2>2, <2>3 DEF OwedAt, Resets
<1>6. ASSUME NEW q \in Cards, Stays(q)' PROVE ListedAt(q)'
  <2>0. q \in Realms
    BY AnItem
  <2>1. Stays(q)
    BY <1>6, <2>0, StayedBefore
  <2>2. ListedAt(q)
    BY <2>1, CardFacts
  <2>3. Count(stack', Lists(q)) + Cardinality(Hosted(q, "frames")')
               = Count(stack, Lists(q)) + Cardinality(Hosted(q, "frames"))
    BY <1>6, <2>0, ArriveMoves
  <2>4. card'[q].frames = card[q].frames
    BY <1>1 DEF OtherCards
  <2>5. /\ Count(stack, Lists(q)) \in Nat /\ Count(stack', Lists(q)) \in Nat /\ Count(frame[q].after, Later(q)) \in Nat
        /\ Cardinality(Hosted(q, "frames")') \in Nat /\ Cardinality(Hosted(q, "frames")) \in Nat
    BY <1>2, CardFacts, HostedNatThen
  <2>6. card'[q].frames = Count(stack', Lists(q)) + Count(frame'[q].after, Later(q)) + Cardinality(Hosted(q, "frames")')
    BY <1>0, <2>2, <2>3, <2>4, <2>5 DEF ListedAt
  <2> QED  BY <2>6 DEF ListedAt, Lists, Later
<1>7. ASSUME NEW q \in Cards PROVE PendingAt(q)'
  <2>1. PendingAt(q) /\ card[q].pending \in Int /\ card[q].frames \in Int
    BY CardFacts
  <2>2. CASE q = c
    <3>1. Waiter(c)' = Waiter(c) /\ Framed(c)' = Framed(c) /\ Waiter(c) \in {0, 1} /\ Framed(c) \in {0, 1}
      BY <1>1 DEF Waiter, Framed
    <3>2. Count(stack', Arrives(c)) + 1 = Count(stack, Arrives(c)) /\ Count(stack', Records(c)) = Count(stack, Records(c))
          /\ Count(stack', Owings(c)) = Count(stack, Owings(c))
      BY <1>4
    <3>3. /\ card'[c].pending = Count(stack', Arrives(c)) + Count(stack', Records(c)) + Waiter(c)' + Framed(c)'
          /\ Count(stack', Records(c)) + Waiter(c)' <= 1
      BY <1>1, <1>2, <2>1, <2>2, <3>1, <3>2 DEF PendingAt
    <3>4. card'[c].frames + Count(stack', Owings(c)) <= 3 /\ card'[c].pending <= 2 /\ card'[c].frames >= 0
      BY <1>1, <1>2, <2>1, <2>2, <3>2 DEF PendingAt
    <3> QED  BY <2>2, <3>3, <3>4 DEF PendingAt, Arrives, Records, Owings
  <2>3. CASE q # c
    <3>1. UNCHANGED <<card[q].frames, card[q].pending, card[q].wait>>
      BY <1>1, <2>3 DEF OtherCards
    <3>2. Count(stack', Arrives(q)) = Count(stack, Arrives(q)) /\ Count(stack', Records(q)) = Count(stack, Records(q))
          /\ Count(stack', Owings(q)) = Count(stack, Owings(q))
      BY <1>2, <1>4, <2>3
    <3> QED  BY <2>1, <3>1, <3>2, AnItem, PendingSame
  <2> QED  BY <2>2, <2>3
<1> QED  BY <1>5, <1>6, <1>7, CountsMeans

(* What is owed and waited for is what there is to pay.                    *)
LEMMA CountsKept ==
  ASSUME Core, Counts, Kinds', Does
  PROVE  Counts'
<1>0. Typed /\ Shape /\ Resting /\ Own /\ Links /\ BootJobs /\ Flags /\ Life
  BY DEF Core
<1>1. \A k \in Cards : card[k].st = "freed" => card'[k].st = "freed"
  BY <1>0, FreedStays
<1>2. CASE Calm
  BY <1>0, <1>1, <1>2, CalmCounts
<1>3. ASSUME NEW r \in Realms, NEW s \in Srcs, SetSrcStep(r, s) PROVE Counts'
  BY <1>0, <1>3, SetSrcCounts
<1>4. ASSUME NEW r \in Realms, NEW d \in Conts, d = "frames" => r \in Cards, CloseStep(r, d) PROVE Counts'
  BY <1>0, <1>1, <1>4, CloseCounts
<1>5. ASSUME NEW r \in Realms, ResetStep(r) PROVE Counts'
  BY <1>0, <1>1, <1>5, ResetCounts
<1>6. ASSUME NEW r \in Realms, HearStep(r) PROVE Counts'
  BY <1>0, <1>6, HearCounts
<1>7. ASSUME NEW c \in Cards, DisposeStep(c) PROVE Counts'
  BY <1>0, <1>1, <1>7, DisposeCounts
<1>8. ASSUME NEW c \in Cards, OwingStep(c) PROVE Counts'
  BY <1>0, <1>1, <1>8, OwingCounts
<1>9. ASSUME NEW c \in Cards, FramesStep(c) PROVE Counts'
  BY <1>0, <1>1, <1>9, FramesCounts
<1>10. ASSUME NEW c \in Cards, RecordsStep(c) PROVE Counts'
  BY <1>0, <1>1, <1>10, RecordsCounts
<1>11. ASSUME NEW c \in Cards, ArriveStep(c) PROVE Counts'
  BY <1>0, <1>1, <1>11, ArriveCounts
<1>12. ASSUME NEW c \in Cards, FlushStep(c) PROVE Counts'
  BY <1>0, <1>1, <1>12, FlushCounts
<1>13. Calm \/ Stirs
  BY <1>0, CalmOrNot
<1> QED  BY <1>2, <1>3, <1>4, <1>5, <1>6, <1>7, <1>8, <1>9, <1>10, <1>11, <1>12, <1>13 DEF Stirs


-----------------------------------------------------------------------------
(* What the observers saw, and LastListPosted.                             *)

(* A call in progress but the innermost stays.                             *)
Lasts == \A x \in Within(stack) : x \in Within(stack') \/ (stack # <<>> /\ x = Top)

(* A call that returns leaves those below it.                              *)
LEMMA LastsPop ==
  ASSUME Typed, Shape, NEW k, NEW r, NEW a, At(k, r, a), stack' = Pop
  PROVE  Lasts
<1>1. Within(stack) = {<<k, r, a>>} \cup Within(Pop) /\ Top = <<k, r, a>> /\ stack # <<>>
  BY AtFacts
<1> QED  BY <1>1 DEF Lasts

(* So does one that calls another.                                         *)
LEMMA LastsPush ==
  ASSUME Typed, Shape, NEW k, NEW r, NEW a, At(k, r, a), NEW y, Pushed(y, Pop)
  PROVE  Lasts
<1>1. Within(stack) = {<<k, r, a>>} \cup Within(Pop) /\ Top = <<k, r, a>> /\ stack # <<>>
  BY AtFacts
<1> QED  BY <1>1 DEF Lasts, Pushed

(* Where nothing is called, nothing is lost.                               *)
LEMMA LastsNone == ASSUME stack = <<>> PROVE Lasts
  BY NoCall DEF Lasts

(* Nor where the stack is as it was.                                       *)
LEMMA LastsSame == ASSUME UNCHANGED stack PROVE Lasts
  BY DEF Lasts

(* No step drops a call that is in progress.                               *)
LEMMA CallsLast ==
  ASSUME Typed, Shape, Resting, Kinds', Does
  PROVE  Lasts
<1>1. ASSUME NEW r \in Realms, NEW s \in Srcs, SourceStep(r, s) PROVE Lasts
  BY <1>1, LastsPop DEF SourceStep
<1>2. ASSUME NEW r \in Realms, NEW s \in Srcs, SetSrcStep(r, s) PROVE Lasts
  <2>1. Within(stack') = {<<"source", r, s>>}
              \cup (IF frame[r].src = NoSrc THEN {} ELSE {<<"close", r, "reset">>}) \cup Within(stack)
    BY <1>2, SetSrcStack
  <2> QED  BY <2>1 DEF Lasts
<1>3. ASSUME NEW r \in Realms, NEW g \in Nat, StartStep(r, g) PROVE Lasts
  BY <1>3, LastsPop DEF StartStep
<1>4. ASSUME NEW r \in Realms, NEW g \in Nat, RunStartStep(r, g) PROVE Lasts
  BY <1>4, LastsNone DEF RunStartStep
<1>5. ASSUME NEW r \in Realms, NEW g \in Nat, FetchStep(r, g) PROVE Lasts
  BY <1>5, LastsNone DEF FetchStep, Resting
<1>6. ASSUME NEW r \in Realms, NEW d \in Conts, d = "frames" => r \in Cards, CloseStep(r, d) PROVE Lasts
  <2>1. CASE Pushed(<<d, r, 0>>, Pop)
    BY <1>6, <2>1, LastsPush DEF CloseStep
  <2>2. ASSUME NEW c \in Cards, Pushed(<<"dispose", c, 0>>, Pop) PROVE Lasts
    BY <1>6, <2>2, LastsPush DEF CloseStep
  <2> QED  BY <1>6, <2>1, <2>2 DEF CloseStep
<1>7. ASSUME NEW r \in Realms, ResetStep(r) PROVE Lasts
  <2>1. Within(stack) = {<<"reset", r, 0>>} \cup Within(Pop) /\ Top = <<"reset", r, 0>> /\ stack # <<>>
    BY <1>7, AtFacts DEF ResetStep
  <2>2. Within(Pop) \subseteq Within(stack')
    BY <1>7 DEF ResetStep
  <2> QED  BY <2>1, <2>2 DEF Lasts
<1>8. ASSUME NEW r \in Realms, IdleStep(r) PROVE Lasts
  <2>1. CASE At("nothing", r, 0)
    BY <1>8, <2>1, LastsPop DEF IdleStep
  <2>2. CASE At("askPage", r, 0)
    BY <1>8, <2>2, LastsPop DEF IdleStep
  <2> QED  BY <1>8, <2>1, <2>2 DEF IdleStep
<1>9. ASSUME NEW r \in Realms, HearStep(r) PROVE Lasts
  BY <1>9, LastsNone DEF HearStep, Resting
<1>10. ASSUME NEW r \in Realms, MoveStep(r) PROVE Lasts
  BY <1>10, LastsSame DEF MoveStep
<1>11. ASSUME NEW c \in Cards, BootStep(c) PROVE Lasts
  BY <1>11, LastsNone DEF BootStep
<1>12. ASSUME NEW c \in Cards, LoadedStep(c) PROVE Lasts
  BY <1>12, LastsPop DEF LoadedStep
<1>13. ASSUME NEW c \in Cards, DisposeStep(c) PROVE Lasts
  <2>1. PICK j \in {"records", "arrive"} :
           Within(stack') = (IF frame[c].loaded THEN {<<"close", c, "frames">>} ELSE {})
                \cup {<<"owing", c, 0>>, <<"frames", c, 0>>, <<j, c, 0>>} \cup Within(Pop)
    BY <1>13, DisposeStack
  <2>2. Within(stack) = {<<"dispose", c, 0>>} \cup Within(Pop) /\ Top = <<"dispose", c, 0>> /\ stack # <<>>
    BY <1>13, AtFacts DEF DisposeStep
  <2> QED  BY <2>1, <2>2 DEF Lasts
<1>14. ASSUME NEW c \in Cards, OwingStep(c) PROVE Lasts
  BY <1>14, LastsPop DEF OwingStep
<1>15. ASSUME NEW c \in Cards, FramesStep(c) PROVE Lasts
  <2>1. CASE stack' = Pop
    BY <1>15, <2>1, LastsPop DEF FramesStep
  <2>2. CASE Pushed(<<"arrive", c, 0>>, Pop)
    BY <1>15, <2>2, LastsPush DEF FramesStep
  <2> QED  BY <1>15, <2>1, <2>2 DEF FramesStep
<1>16. ASSUME NEW c \in Cards, RecordsStep(c) PROVE Lasts
  BY <1>16, LastsPop DEF RecordsStep
<1>17. ASSUME NEW c \in Cards, ArriveStep(c) PROVE Lasts
  <2>1. CASE stack' = Pop
    BY <1>17, <2>1, LastsPop DEF ArriveStep
  <2>2. CASE Pushed(<<card[c].done, card[c].host, 0>>, Pop)
    BY <1>17, <2>2, LastsPush DEF ArriveStep
  <2> QED  BY <1>17, <2>1, <2>2 DEF ArriveStep
<1>18. ASSUME NEW c \in Cards, FlushStep(c) PROVE Lasts
  BY <1>18, LastsNone DEF FlushStep
<1>19. ASSUME NEW c \in Cards, CloseRealmStep(c) PROVE Lasts
  BY <1>19, LastsNone DEF CloseRealmStep
<1>20. ASSUME NEW c \in Cards, AckStep(c) PROVE Lasts
  BY <1>20, LastsSame DEF AckStep
<1>21. ASSUME NEW c \in Cards, BtsStep(c) PROVE Lasts
  BY <1>21, LastsSame DEF BtsStep
<1>22. ASSUME NEW c \in Cards, ObserveStep(c) PROVE Lasts
  BY <1>22, LastsSame DEF ObserveStep
<1>23. CASE HeardStep
  BY <1>23, LastsSame DEF HeardStep
<1>24. CASE EpilogueStep
  BY <1>24, LastsSame DEF EpilogueStep
<1>25. CASE OpenStep
  BY <1>25, LastsSame DEF OpenStep
<1>26. CASE OpenEventsStep
  BY <1>26, LastsSame DEF OpenEventsStep
<1>27. CASE OpenRecordsStep
  BY <1>27, LastsSame DEF OpenRecordsStep
<1>28. CASE RecordStep
  BY <1>28, LastsNone DEF RecordStep
<1>29. CASE BeginStep
  BY <1>29, LastsNone DEF BeginStep, Resting
<1> QED  BY <1>1, <1>2, <1>3, <1>4, <1>5, <1>6, <1>7, <1>8, <1>9, <1>10, <1>11, <1>12, <1>13,
            <1>14, <1>15, <1>16, <1>17, <1>18, <1>19, <1>20, <1>21, <1>22, <1>23, <1>24, <1>25,
            <1>26, <1>27, <1>28, <1>29 DEF Does

(* What the observers saw of a card, while it is to be let go of.          *)
Awaits(c) == On("records", c, 0) \/ card[c].wait = "next"
Unseen(c) == /\ <<c, FALSE>> \in changes \cup taken \/ (<<c, TRUE>> \in taken /\ card[c].root)
             /\ card[c].disposed /\ ~card[c].cut
Sighted(c) == /\ Unseen(c) => Awaits(c)
              /\ <<c, TRUE>> \in taken /\ card[c].root /\ ~card[c].disposed => card[c].shown
              /\ <<c, TRUE>> \notin changes
              /\ <<c, FALSE>> \in changes => card[c].disposed
              /\ \A b \in BOOLEAN : <<c, b>> \in taken => card[c].st \notin {"unmade", "made"}
Exposed == (entry # "listen" => taken = {}) /\ \A c \in Cards : Sighted(c)

(* A step no observer tells from another.                                  *)
Dim == /\ UNCHANGED <<changes, taken>> /\ (entry = "listen" => entry' = "listen")
       /\ stack = <<>> \/ Top[1] # "records"
       /\ \A k \in Cards : /\ UNCHANGED <<card[k].disposed, card[k].cut, card[k].wait>>
                           /\ card'[k].root => card[k].root /\ (card'[k].shown <=> card[k].shown)
                           /\ card'[k].st \in {"unmade", "made"} => card[k].st \in {"unmade", "made"}
Sees == \/ OpenRecordsStep \/ RecordStep
        \/ \E c \in Cards : BootStep(c) \/ DisposeStep(c) \/ RecordsStep(c) \/ FlushStep(c)

(* The steps they do tell.                                                 *)
LEMMA DimOrNot ==
  ASSUME Typed, Shape, Resting, Kinds', Does
  PROVE  Dim \/ Sees
<1>1. ASSUME NEW r \in Realms, NEW s \in Srcs, SourceStep(r, s) PROVE Dim \/ Sees
  <2>1. UNCHANGED <<changes, taken>> /\ (entry = "listen" => entry' = "listen")
    BY <1>1 DEF SourceStep, SameLinks
  <2>2. stack = <<>> \/ Top[1] # "records"
    BY <1>1 DEF SourceStep, At, AppRuns, Resting
  <2>3. \A k \in Cards : /\ UNCHANGED <<card[k].disposed, card[k].cut, card[k].wait>>
                         /\ card'[k].root => card[k].root /\ (card'[k].shown <=> card[k].shown)
                         /\ card'[k].st \in {"unmade", "made"} => card[k].st \in {"unmade", "made"}
    BY <1>1 DEF SourceStep, OtherCards, Freeing
  <2> QED  BY <2>1, <2>2, <2>3 DEF Dim
<1>2. ASSUME NEW r \in Realms, NEW s \in Srcs, SetSrcStep(r, s) PROVE Dim \/ Sees
  <2>1. UNCHANGED <<changes, taken>> /\ (entry = "listen" => entry' = "listen")
    BY <1>2 DEF SetSrcStep, SameLinks
  <2>2. stack = <<>> \/ Top[1] # "records"
    BY <1>2 DEF SetSrcStep, At, AppRuns, Resting
  <2>3. \A k \in Cards : /\ UNCHANGED <<card[k].disposed, card[k].cut, card[k].wait>>
                         /\ card'[k].root => card[k].root /\ (card'[k].shown <=> card[k].shown)
                         /\ card'[k].st \in {"unmade", "made"} => card[k].st \in {"unmade", "made"}
    BY <1>2 DEF SetSrcStep, OtherCards, Freeing
  <2> QED  BY <2>1, <2>2, <2>3 DEF Dim
<1>3. ASSUME NEW r \in Realms, NEW g \in Nat, StartStep(r, g) PROVE Dim \/ Sees
  <2>1. UNCHANGED <<changes, taken>> /\ (entry = "listen" => entry' = "listen")
    BY SMTT(30), <1>3 DEF StartStep, SameLinks
  <2>2. stack = <<>> \/ Top[1] # "records"
    BY SMTT(30), <1>3 DEF StartStep, At, AppRuns, Resting
  <2>3. \A k \in Cards : /\ UNCHANGED <<card[k].disposed, card[k].cut, card[k].wait>>
                         /\ card'[k].root => card[k].root /\ (card'[k].shown <=> card[k].shown)
                         /\ card'[k].st \in {"unmade", "made"} => card[k].st \in {"unmade", "made"}
    BY <1>3 DEF StartStep, OtherCards, Freeing
  <2> QED  BY SMTT(30), <2>1, <2>2, <2>3 DEF Dim
<1>4. ASSUME NEW r \in Realms, NEW g \in Nat, RunStartStep(r, g) PROVE Dim \/ Sees
  <2>1. UNCHANGED <<changes, taken>> /\ (entry = "listen" => entry' = "listen")
    BY <1>4 DEF RunStartStep, SameLinks
  <2>2. stack = <<>> \/ Top[1] # "records"
    BY <1>4 DEF RunStartStep, At, AppRuns, Resting
  <2>3. \A k \in Cards : /\ UNCHANGED <<card[k].disposed, card[k].cut, card[k].wait>>
                         /\ card'[k].root => card[k].root /\ (card'[k].shown <=> card[k].shown)
                         /\ card'[k].st \in {"unmade", "made"} => card[k].st \in {"unmade", "made"}
    BY <1>4 DEF RunStartStep, OtherCards, Freeing
  <2> QED  BY <2>1, <2>2, <2>3 DEF Dim
<1>5. ASSUME NEW r \in Realms, NEW g \in Nat, FetchStep(r, g) PROVE Dim \/ Sees
  <2>1. UNCHANGED <<changes, taken>> /\ (entry = "listen" => entry' = "listen")
    BY <1>5 DEF FetchStep, SameLinks
  <2>2. stack = <<>> \/ Top[1] # "records"
    BY <1>5 DEF FetchStep, At, AppRuns, Resting
  <2>3. \A k \in Cards : /\ UNCHANGED <<card[k].disposed, card[k].cut, card[k].wait>>
                         /\ card'[k].root => card[k].root /\ (card'[k].shown <=> card[k].shown)
                         /\ card'[k].st \in {"unmade", "made"} => card[k].st \in {"unmade", "made"}
    BY <1>5 DEF FetchStep, OtherCards, Freeing
  <2> QED  BY <2>1, <2>2, <2>3 DEF Dim
<1>6. ASSUME NEW r \in Realms, NEW d \in Conts, d = "frames" => r \in Cards, CloseStep(r, d) PROVE Dim \/ Sees
  <2>1. UNCHANGED <<changes, taken>> /\ (entry = "listen" => entry' = "listen")
    BY <1>6 DEF CloseStep, SameLinks
  <2>2. stack = <<>> \/ Top[1] # "records"
    BY <1>6 DEF CloseStep, At, AppRuns, Resting
  <2>3. \A k \in Cards : /\ UNCHANGED <<card[k].disposed, card[k].cut, card[k].wait>>
                         /\ card'[k].root => card[k].root /\ (card'[k].shown <=> card[k].shown)
                         /\ card'[k].st \in {"unmade", "made"} => card[k].st \in {"unmade", "made"}
    BY ZenonT(60), <1>6 DEF CloseStep, OtherCards, Freeing
  <2> QED  BY <2>1, <2>2, <2>3 DEF Dim
<1>7. ASSUME NEW r \in Realms, ResetStep(r) PROVE Dim \/ Sees
  <2>1. UNCHANGED <<changes, taken>> /\ (entry = "listen" => entry' = "listen")
    BY <1>7 DEF ResetStep, SameLinks
  <2>2. stack = <<>> \/ Top[1] # "records"
    BY <1>7 DEF ResetStep, At, AppRuns, Resting
  <2>3. \A k \in Cards : /\ UNCHANGED <<card[k].disposed, card[k].cut, card[k].wait>>
                         /\ card'[k].root => card[k].root /\ (card'[k].shown <=> card[k].shown)
                         /\ card'[k].st \in {"unmade", "made"} => card[k].st \in {"unmade", "made"}
    BY <1>7 DEF ResetStep, OtherCards, Freeing
  <2> QED  BY <2>1, <2>2, <2>3 DEF Dim
<1>8. ASSUME NEW r \in Realms, IdleStep(r) PROVE Dim \/ Sees
  <2>1. UNCHANGED <<changes, taken>> /\ (entry = "listen" => entry' = "listen")
    BY <1>8 DEF IdleStep, SameLinks
  <2>2. stack = <<>> \/ Top[1] # "records"
    BY <1>8 DEF IdleStep, At, AppRuns, Resting
  <2>3. \A k \in Cards : /\ UNCHANGED <<card[k].disposed, card[k].cut, card[k].wait>>
                         /\ card'[k].root => card[k].root /\ (card'[k].shown <=> card[k].shown)
                         /\ card'[k].st \in {"unmade", "made"} => card[k].st \in {"unmade", "made"}
    BY <1>8 DEF IdleStep, OtherCards, Freeing
  <2> QED  BY <2>1, <2>2, <2>3 DEF Dim
<1>9. ASSUME NEW r \in Realms, HearStep(r) PROVE Dim \/ Sees
  <2>1. UNCHANGED <<changes, taken>> /\ (entry = "listen" => entry' = "listen")
    BY <1>9 DEF HearStep, SameLinks
  <2>2. stack = <<>> \/ Top[1] # "records"
    BY <1>9 DEF HearStep, At, AppRuns, Resting
  <2>3. \A k \in Cards : /\ UNCHANGED <<card[k].disposed, card[k].cut, card[k].wait>>
                         /\ card'[k].root => card[k].root /\ (card'[k].shown <=> card[k].shown)
                         /\ card'[k].st \in {"unmade", "made"} => card[k].st \in {"unmade", "made"}
    BY <1>9 DEF HearStep, OtherCards, Freeing
  <2> QED  BY <2>1, <2>2, <2>3 DEF Dim
<1>10. ASSUME NEW r \in Realms, MoveStep(r) PROVE Dim \/ Sees
  <2>1. UNCHANGED <<changes, taken>> /\ (entry = "listen" => entry' = "listen")
    BY <1>10 DEF MoveStep, SameLinks
  <2>2. stack = <<>> \/ Top[1] # "records"
    BY <1>10 DEF MoveStep, At, AppRuns, Resting
  <2>3. \A k \in Cards : /\ UNCHANGED <<card[k].disposed, card[k].cut, card[k].wait>>
                         /\ card'[k].root => card[k].root /\ (card'[k].shown <=> card[k].shown)
                         /\ card'[k].st \in {"unmade", "made"} => card[k].st \in {"unmade", "made"}
    BY <1>10 DEF MoveStep, OtherCards, Freeing
  <2> QED  BY <2>1, <2>2, <2>3 DEF Dim
<1>11. ASSUME NEW c \in Cards, BootStep(c) PROVE Dim \/ Sees
  BY <1>11 DEF Sees
<1>12. ASSUME NEW c \in Cards, LoadedStep(c) PROVE Dim \/ Sees
  <2>1. UNCHANGED <<changes, taken>> /\ (entry = "listen" => entry' = "listen")
    BY <1>12 DEF LoadedStep, SameLinks
  <2>2. stack = <<>> \/ Top[1] # "records"
    BY <1>12 DEF LoadedStep, At, AppRuns, Resting
  <2>3. \A k \in Cards : /\ UNCHANGED <<card[k].disposed, card[k].cut, card[k].wait>>
                         /\ card'[k].root => card[k].root /\ (card'[k].shown <=> card[k].shown)
                         /\ card'[k].st \in {"unmade", "made"} => card[k].st \in {"unmade", "made"}
    BY <1>12 DEF LoadedStep, OtherCards, Freeing
  <2> QED  BY <2>1, <2>2, <2>3 DEF Dim
<1>13. ASSUME NEW c \in Cards, DisposeStep(c) PROVE Dim \/ Sees
  BY <1>13 DEF Sees
<1>14. ASSUME NEW c \in Cards, OwingStep(c) PROVE Dim \/ Sees
  <2>1. UNCHANGED <<changes, taken>> /\ (entry = "listen" => entry' = "listen")
    BY <1>14 DEF OwingStep, SameLinks
  <2>2. stack = <<>> \/ Top[1] # "records"
    BY <1>14 DEF OwingStep, At, AppRuns, Resting
  <2>3. \A k \in Cards : /\ UNCHANGED <<card[k].disposed, card[k].cut, card[k].wait>>
                         /\ card'[k].root => card[k].root /\ (card'[k].shown <=> card[k].shown)
                         /\ card'[k].st \in {"unmade", "made"} => card[k].st \in {"unmade", "made"}
    BY <1>14 DEF OwingStep, OtherCards, Freeing
  <2> QED  BY <2>1, <2>2, <2>3 DEF Dim
<1>15. ASSUME NEW c \in Cards, FramesStep(c) PROVE Dim \/ Sees
  <2>1. UNCHANGED <<changes, taken>> /\ (entry = "listen" => entry' = "listen")
    BY <1>15 DEF FramesStep, SameLinks
  <2>2. stack = <<>> \/ Top[1] # "records"
    BY <1>15 DEF FramesStep, At, AppRuns, Resting
  <2>3. \A k \in Cards : /\ UNCHANGED <<card[k].disposed, card[k].cut, card[k].wait>>
                         /\ card'[k].root => card[k].root /\ (card'[k].shown <=> card[k].shown)
                         /\ card'[k].st \in {"unmade", "made"} => card[k].st \in {"unmade", "made"}
    BY <1>15 DEF FramesStep, OtherCards, Freeing
  <2> QED  BY <2>1, <2>2, <2>3 DEF Dim
<1>16. ASSUME NEW c \in Cards, RecordsStep(c) PROVE Dim \/ Sees
  BY <1>16 DEF Sees
<1>17. ASSUME NEW c \in Cards, ArriveStep(c) PROVE Dim \/ Sees
  <2>1. UNCHANGED <<changes, taken>> /\ (entry = "listen" => entry' = "listen")
    BY <1>17 DEF ArriveStep, SameLinks
  <2>2. stack = <<>> \/ Top[1] # "records"
    BY <1>17 DEF ArriveStep, At, AppRuns, Resting
  <2>3. \A k \in Cards : /\ UNCHANGED <<card[k].disposed, card[k].cut, card[k].wait>>
                         /\ card'[k].root => card[k].root /\ (card'[k].shown <=> card[k].shown)
                         /\ card'[k].st \in {"unmade", "made"} => card[k].st \in {"unmade", "made"}
    BY <1>17 DEF ArriveStep, OtherCards, Freeing
  <2> QED  BY <2>1, <2>2, <2>3 DEF Dim
<1>18. ASSUME NEW c \in Cards, FlushStep(c) PROVE Dim \/ Sees
  BY <1>18 DEF Sees
<1>19. ASSUME NEW c \in Cards, CloseRealmStep(c) PROVE Dim \/ Sees
  <2>1. UNCHANGED <<changes, taken>> /\ (entry = "listen" => entry' = "listen")
    BY <1>19 DEF CloseRealmStep, SameLinks
  <2>2. stack = <<>> \/ Top[1] # "records"
    BY <1>19 DEF CloseRealmStep, At, AppRuns, Resting
  <2>3. \A k \in Cards : /\ UNCHANGED <<card[k].disposed, card[k].cut, card[k].wait>>
                         /\ card'[k].root => card[k].root /\ (card'[k].shown <=> card[k].shown)
                         /\ card'[k].st \in {"unmade", "made"} => card[k].st \in {"unmade", "made"}
    BY <1>19 DEF CloseRealmStep, OtherCards, Freeing
  <2> QED  BY <2>1, <2>2, <2>3 DEF Dim
<1>20. ASSUME NEW c \in Cards, AckStep(c) PROVE Dim \/ Sees
  <2>1. UNCHANGED <<changes, taken>> /\ (entry = "listen" => entry' = "listen")
    BY <1>20 DEF AckStep, SameLinks
  <2>2. stack = <<>> \/ Top[1] # "records"
    BY <1>20 DEF AckStep, At, AppRuns, Resting
  <2>3. \A k \in Cards : /\ UNCHANGED <<card[k].disposed, card[k].cut, card[k].wait>>
                         /\ card'[k].root => card[k].root /\ (card'[k].shown <=> card[k].shown)
                         /\ card'[k].st \in {"unmade", "made"} => card[k].st \in {"unmade", "made"}
    BY <1>20 DEF AckStep, OtherCards, Freeing
  <2> QED  BY <2>1, <2>2, <2>3 DEF Dim
<1>21. ASSUME NEW c \in Cards, BtsStep(c) PROVE Dim \/ Sees
  <2>1. UNCHANGED <<changes, taken>> /\ (entry = "listen" => entry' = "listen")
    BY <1>21 DEF BtsStep, SameLinks
  <2>2. stack = <<>> \/ Top[1] # "records"
    BY <1>21 DEF BtsStep, At, AppRuns, Resting
  <2>3. \A k \in Cards : /\ UNCHANGED <<card[k].disposed, card[k].cut, card[k].wait>>
                         /\ card'[k].root => card[k].root /\ (card'[k].shown <=> card[k].shown)
                         /\ card'[k].st \in {"unmade", "made"} => card[k].st \in {"unmade", "made"}
    BY <1>21 DEF BtsStep, OtherCards, Freeing
  <2> QED  BY <2>1, <2>2, <2>3 DEF Dim
<1>22. ASSUME NEW c \in Cards, ObserveStep(c) PROVE Dim \/ Sees
  <2>1. UNCHANGED <<changes, taken>> /\ (entry = "listen" => entry' = "listen")
    BY <1>22 DEF ObserveStep, SameLinks
  <2>2. stack = <<>> \/ Top[1] # "records"
    BY <1>22 DEF ObserveStep, At, AppRuns, Resting
  <2>3. \A k \in Cards : /\ UNCHANGED <<card[k].disposed, card[k].cut, card[k].wait>>
                         /\ card'[k].root => card[k].root /\ (card'[k].shown <=> card[k].shown)
                         /\ card'[k].st \in {"unmade", "made"} => card[k].st \in {"unmade", "made"}
    BY <1>22 DEF ObserveStep, OtherCards, Freeing
  <2> QED  BY <2>1, <2>2, <2>3 DEF Dim
<1>23. CASE HeardStep
  <2>1. UNCHANGED <<changes, taken>> /\ (entry = "listen" => entry' = "listen")
    BY <1>23 DEF HeardStep, SameLinks
  <2>2. stack = <<>> \/ Top[1] # "records"
    BY <1>23 DEF HeardStep, At, AppRuns, Resting
  <2>3. \A k \in Cards : /\ UNCHANGED <<card[k].disposed, card[k].cut, card[k].wait>>
                         /\ card'[k].root => card[k].root /\ (card'[k].shown <=> card[k].shown)
                         /\ card'[k].st \in {"unmade", "made"} => card[k].st \in {"unmade", "made"}
    BY <1>23 DEF HeardStep, OtherCards, Freeing
  <2> QED  BY <2>1, <2>2, <2>3 DEF Dim
<1>24. CASE EpilogueStep
  <2>1. UNCHANGED <<changes, taken>> /\ (entry = "listen" => entry' = "listen")
    BY <1>24 DEF EpilogueStep, SameLinks
  <2>2. stack = <<>> \/ Top[1] # "records"
    BY <1>24 DEF EpilogueStep, At, AppRuns, Resting
  <2>3. \A k \in Cards : /\ UNCHANGED <<card[k].disposed, card[k].cut, card[k].wait>>
                         /\ card'[k].root => card[k].root /\ (card'[k].shown <=> card[k].shown)
                         /\ card'[k].st \in {"unmade", "made"} => card[k].st \in {"unmade", "made"}
    BY <1>24 DEF EpilogueStep, OtherCards, Freeing
  <2> QED  BY <2>1, <2>2, <2>3 DEF Dim
<1>25. CASE OpenStep
  <2>1. UNCHANGED <<changes, taken>> /\ (entry = "listen" => entry' = "listen")
    BY <1>25 DEF OpenStep, SameLinks
  <2>2. stack = <<>> \/ Top[1] # "records"
    BY <1>25 DEF OpenStep, At, AppRuns, Resting
  <2>3. \A k \in Cards : /\ UNCHANGED <<card[k].disposed, card[k].cut, card[k].wait>>
                         /\ card'[k].root => card[k].root /\ (card'[k].shown <=> card[k].shown)
                         /\ card'[k].st \in {"unmade", "made"} => card[k].st \in {"unmade", "made"}
    BY <1>25 DEF OpenStep, OtherCards, Freeing
  <2> QED  BY <2>1, <2>2, <2>3 DEF Dim
<1>26. CASE OpenEventsStep
  <2>1. UNCHANGED <<changes, taken>> /\ (entry = "listen" => entry' = "listen")
    BY <1>26 DEF OpenEventsStep, SameLinks
  <2>2. stack = <<>> \/ Top[1] # "records"
    BY <1>26 DEF OpenEventsStep, At, AppRuns, Resting
  <2>3. \A k \in Cards : /\ UNCHANGED <<card[k].disposed, card[k].cut, card[k].wait>>
                         /\ card'[k].root => card[k].root /\ (card'[k].shown <=> card[k].shown)
                         /\ card'[k].st \in {"unmade", "made"} => card[k].st \in {"unmade", "made"}
    BY <1>26 DEF OpenEventsStep, OtherCards, Freeing
  <2> QED  BY <2>1, <2>2, <2>3 DEF Dim
<1>27. CASE OpenRecordsStep
  BY <1>27 DEF Sees
<1>28. CASE RecordStep
  BY <1>28 DEF Sees
<1>29. CASE BeginStep
  <2>1. UNCHANGED <<changes, taken>> /\ (entry = "listen" => entry' = "listen")
    BY <1>29 DEF BeginStep, SameLinks
  <2>2. stack = <<>> \/ Top[1] # "records"
    BY <1>29 DEF BeginStep, At, AppRuns, Resting
  <2>3. \A k \in Cards : /\ UNCHANGED <<card[k].disposed, card[k].cut, card[k].wait>>
                         /\ card'[k].root => card[k].root /\ (card'[k].shown <=> card[k].shown)
                         /\ card'[k].st \in {"unmade", "made"} => card[k].st \in {"unmade", "made"}
    BY <1>29 DEF BeginStep, OtherCards, Freeing
  <2> QED  BY <2>1, <2>2, <2>3 DEF Dim
<1> QED  BY <1>1, <1>2, <1>3, <1>4, <1>5, <1>6, <1>7, <1>8, <1>9, <1>10, <1>11, <1>12, <1>13,
            <1>14, <1>15, <1>16, <1>17, <1>18, <1>19, <1>20, <1>21, <1>22, <1>23, <1>24, <1>25,
            <1>26, <1>27, <1>28, <1>29 DEF Does

(* The others leave what they saw.                                         *)
LEMMA DimExposed ==
  ASSUME Typed, Shape, Resting, Exposed, Kinds', Does, Dim
  PROVE  Exposed'
<1>1. \A c \in Cards : On("records", c, 0) => On("records", c, 0)'
  <2>1. Lasts
    BY CallsLast
  <2> QED  BY <2>1 DEF Lasts, On, Dim
<1>2. ASSUME NEW c \in Cards PROVE Sighted(c)'
  <2>1. Sighted(c)
    BY DEF Exposed
  <2>2. Unseen(c)' => Unseen(c)
    BY DEF Unseen, Dim
  <2>3. Awaits(c) => Awaits(c)'
    BY <1>1 DEF Awaits, Dim
  <2>4. Unseen(c)' => Awaits(c)'
    BY <2>1, <2>2, <2>3 DEF Sighted
  <2>5. /\ <<c, TRUE>> \in taken' /\ card'[c].root /\ ~card'[c].disposed => card'[c].shown
        /\ <<c, TRUE>> \notin changes'
        /\ <<c, FALSE>> \in changes' => card'[c].disposed
        /\ \A b \in BOOLEAN : <<c, b>> \in taken' => card'[c].st \notin {"unmade", "made"}
    BY <2>1 DEF Sighted, Dim
  <2> QED  BY <2>4, <2>5 DEF Sighted
<1>3. entry' # "listen" => taken' = {}
  BY DEF Exposed, Dim
<1> QED  BY <1>2, <1>3 DEF Exposed

(* The entry takes what the observers saw.                                 *)
LEMMA OpenRecordsExposed ==
  ASSUME Typed, Flags, Runs, Exposed, Kinds', OpenRecordsStep
  PROVE  Exposed'
<1>1. ASSUME NEW c \in Cards PROVE Sighted(c)'
  <2>1. Sighted(c)
    BY DEF Exposed
  <2>2. /\ changes' = {} /\ UNCHANGED stack
        /\ taken' = changes \cup {<<k, ~card[k].shown>> : k \in {k \in Cards : Judged(k)}}
        /\ UNCHANGED <<card[c].root, card[c].disposed, card[c].wait, card[c].cut, card[c].st>>
        /\ Judged(c) => (card'[c].shown <=> ~card[c].shown)
    BY DEF OpenRecordsStep
  <2>3. ASSUME NEW b \in BOOLEAN, <<c, b>> \in taken'
        PROVE  <<c, b>> \in changes \/ (Judged(c) /\ (b <=> ~card[c].shown))
    BY <2>2, <2>3
  <2>4. Judged(c) => card[c].root /\ ~card[c].disposed
    BY DEF Judged
  <2>5. Unseen(c)' => <<c, FALSE>> \in changes
    <3>1. ASSUME Unseen(c)' PROVE <<c, FALSE>> \in changes
      <4>1. card[c].disposed
        BY <2>2, <3>1 DEF Unseen
      <4>2. <<c, FALSE>> \in taken' \/ <<c, TRUE>> \in taken'
        BY <2>2, <3>1 DEF Unseen
      <4>3. <<c, FALSE>> \in changes \/ <<c, TRUE>> \in changes
        BY <2>3, <2>4, <4>1, <4>2
      <4> QED  BY <2>1, <4>3 DEF Sighted
    <3> QED  BY <3>1
  <2>6. Unseen(c)' => Awaits(c)'
    <3>1. Unseen(c)' => Unseen(c)
      BY <2>2, <2>5 DEF Unseen
    <3>2. Awaits(c) => Awaits(c)'
      BY <2>2 DEF Awaits, On
    <3> QED  BY <2>1, <3>1, <3>2 DEF Sighted
  <2>7. <<c, TRUE>> \in taken' => card'[c].shown
    <3>1. ASSUME <<c, TRUE>> \in taken' PROVE card'[c].shown
      <4>1. Judged(c) /\ ~card[c].shown
        BY <2>1, <2>3, <3>1 DEF Sighted
      <4> QED  BY <2>2, <4>1
    <3> QED  BY <3>1
  <2>8. \A b \in BOOLEAN : <<c, b>> \in taken' => card'[c].st \notin {"unmade", "made"}
    <3>1. ASSUME NEW b \in BOOLEAN, <<c, b>> \in taken' PROVE card[c].st \notin {"unmade", "made"}
      <4>1. CASE <<c, b>> \in changes
        <5>1. card[c].disposed
          BY <2>1, <4>1 DEF Sighted
        <5>2. card[c].done # "none"
          BY <5>1 DEF Flags
        <5> QED  BY <5>2 DEF Flags
      <4>2. CASE Judged(c)
        <5>1. card[c].st \in {"booting", "booted", "freed"}
          BY <2>4, <4>2, AnItem DEF Runs, Ran
        <5> QED  BY <5>1
      <4> QED  BY <2>3, <3>1, <4>1, <4>2
    <3> QED  BY <2>2, <3>1
  <2> QED  BY <2>2, <2>6, <2>7, <2>8 DEF Sighted
<1>2. entry' = "listen"
  BY DEF OpenRecordsStep
<1> QED  BY <1>1, <1>2 DEF Exposed

(* The delivery leaves nothing.                                            *)
LEMMA RecordExposed ==
  ASSUME RecordStep
  PROVE  Exposed'
<1>1. changes' = {} /\ taken' = {}
  BY DEF RecordStep
<1> QED  BY <1>1 DEF Exposed, Sighted, Unseen

(* A card that boots was not seen before.                                  *)
LEMMA BootExposed ==
  ASSUME Typed, BootJobs, Flags, Exposed, NEW c \in Cards, BootStep(c)
  PROVE  Exposed'
<1>1. card[c].st = "made" /\ ~card[c].disposed
  <2>1. card[c].st = "made"
    BY DEF BootStep, BootJobs
  <2>2. card[c].done = "none"
    BY <2>1 DEF Flags
  <2>3. card[c].disposed => card[c].done # "none"
    BY DEF Flags
  <2> QED  BY <2>1, <2>2, <2>3
<1>2. UNCHANGED <<entry, changes, taken>> /\ stack = <<>> /\ OtherCards(c)
      /\ UNCHANGED <<card[c].disposed, card[c].cut, card[c].wait>>
  BY DEF BootStep
<1>3. ASSUME NEW k \in Cards PROVE Sighted(k)'
  <2>1. Sighted(k)
    BY DEF Exposed
  <2>2. CASE k = c
    <3>1. \A b \in BOOLEAN : <<c, b>> \notin taken
      BY <1>1, <2>1, <2>2 DEF Sighted
    <3>2. ~Unseen(c)'
      BY <1>1, <1>2 DEF Unseen
    <3> QED  BY <1>1, <1>2, <2>1, <2>2, <3>1, <3>2 DEF Sighted
  <2>3. CASE k # c
    <3>1. UNCHANGED card[k]
      BY <1>2, <2>3 DEF OtherCards
    <3>2. Unseen(k)' => Unseen(k)
      BY <1>2, <3>1 DEF Unseen
    <3>3. ~On("records", k, 0)
      BY <1>2, NoCall DEF On
    <3>4. Awaits(k) => Awaits(k)'
      BY <3>1, <3>3 DEF Awaits
    <3> QED  BY <1>2, <2>1, <3>1, <3>2, <3>4 DEF Sighted
  <2> QED  BY <2>2, <2>3
<1> QED  BY <1>2, <1>3 DEF Exposed

(* A card shown as it is let go of waits for the record.                   *)
LEMMA DisposeExposed ==
  ASSUME Typed, Shape, Resting, Flags, Exposed, Kinds', Does, NEW c \in Cards, DisposeStep(c)
  PROVE  Exposed'
<1>1. At("dispose", c, 0) /\ UNCHANGED <<entry, taken>> /\ OtherCards(c)
      /\ card'[c].disposed /\ ~card'[c].shown /\ (card'[c].cut <=> <<c, FALSE>> \in taken)
      /\ UNCHANGED <<card[c].root, card[c].st>>
      /\ changes' = IF card[c].shown THEN changes \cup {<<c, FALSE>>} ELSE changes
  BY DEF DisposeStep
<1>2. ~card[c].disposed
  BY <1>1 DEF Flags
<1>3. Lasts /\ Top = <<"dispose", c, 0>>
  BY <1>1, CallsLast DEF At
<1>4. ASSUME NEW k \in Cards PROVE Sighted(k)'
  <2>1. Sighted(k)
    BY DEF Exposed
  <2>2. CASE k = c
    <3>1. card[c].shown => On("records", c, 0)'
      <4>1. PICK j \in {"records", "arrive"} :
               /\ j = (IF card[c].shown THEN "records" ELSE "arrive")
               /\ Within(stack') = (IF frame[c].loaded THEN {<<"close", c, "frames">>} ELSE {})
                \cup {<<"owing", c, 0>>, <<"frames", c, 0>>, <<j, c, 0>>} \cup Within(Pop)
        BY DisposeStack
      <4>2. <<j, c, 0>> \in Within(stack')
        BY <4>1
      <4> QED  BY <4>1, <4>2 DEF On
    <3>2. ASSUME Unseen(c)' PROVE card[c].shown
      <4>1. <<c, FALSE>> \notin taken
        BY <1>1, <3>2 DEF Unseen
      <4>2. CASE <<c, FALSE>> \in changes'
        BY <1>1, <1>2, <2>1, <2>2, <4>2 DEF Sighted
      <4>3. CASE <<c, TRUE>> \in taken /\ card[c].root
        BY <1>2, <2>1, <2>2, <4>3 DEF Sighted
      <4> QED  BY <1>1, <3>2, <4>1, <4>2, <4>3 DEF Unseen
    <3>3. Unseen(c)' => Awaits(c)'
      BY <3>1, <3>2 DEF Awaits
    <3> QED  BY <1>1, <2>1, <2>2, <3>3 DEF Sighted
  <2>3. CASE k # c
    <3>1. UNCHANGED card[k]
      BY <1>1, <2>3 DEF OtherCards
    <3>2. \A b \in BOOLEAN : <<k, b>> \in changes' => <<k, b>> \in changes
      BY <1>1, <2>3
    <3>3. Unseen(k)' => Unseen(k)
      BY <1>1, <3>1, <3>2 DEF Unseen
    <3>4. On("records", k, 0) => On("records", k, 0)'
      BY <1>3 DEF Lasts, On
    <3>5. Awaits(k) => Awaits(k)'
      BY <3>1, <3>4 DEF Awaits
    <3> QED  BY <1>1, <2>1, <3>1, <3>2, <3>3, <3>5 DEF Sighted
  <2> QED  BY <2>2, <2>3
<1>5. entry' # "listen" => taken' = {}
  BY <1>1 DEF Exposed
<1> QED  BY <1>4, <1>5 DEF Exposed

(* It waits on, for the next delivery.                                     *)
LEMMA RecordsExposed ==
  ASSUME Typed, Shape, Resting, Exposed, Kinds', Does, NEW c \in Cards, RecordsStep(c)
  PROVE  Exposed'
<1>1. At("records", c, 0) /\ UNCHANGED <<entry, taken, changes>> /\ OtherCards(c)
      /\ UNCHANGED <<card[c].root, card[c].st, card[c].shown, card[c].disposed, card[c].cut>> /\ card'[c].wait = "next"
  BY DEF RecordsStep, SameLinks
<1>2. Lasts /\ Top = <<"records", c, 0>>
  BY <1>1, CallsLast DEF At
<1>3. ASSUME NEW k \in Cards PROVE Sighted(k)'
  <2>1. Sighted(k)
    BY DEF Exposed
  <2>2. UNCHANGED <<card[k].root, card[k].st, card[k].shown, card[k].disposed, card[k].cut>>
    BY <1>1 DEF OtherCards
  <2>3. Unseen(k)' => Unseen(k)
    BY <1>1, <2>2 DEF Unseen
  <2>4. Awaits(k) => Awaits(k)'
    <3>1. CASE k = c
      BY <1>1, <3>1 DEF Awaits
    <3>2. CASE k # c
      <4>1. On("records", k, 0) => On("records", k, 0)'
        BY <1>2, <3>2 DEF Lasts, On
      <4> QED  BY <1>1, <3>2, <4>1 DEF Awaits, OtherCards
    <3> QED  BY <3>1, <3>2
  <2> QED  BY <1>1, <2>1, <2>2, <2>3, <2>4 DEF Sighted
<1>4. entry' # "listen" => taken' = {}
  BY <1>1 DEF Exposed
<1> QED  BY <1>3, <1>4 DEF Exposed

(* A flush that was due owes no record.                                    *)
LEMMA FlushExposed ==
  ASSUME Typed, Exposed, NEW c \in Cards, FlushStep(c)
  PROVE  Exposed'
<1>1. stack = <<>> /\ UNCHANGED <<entry, taken, changes>> /\ OtherCards(c)
      /\ UNCHANGED <<card[c].root, card[c].st, card[c].shown, card[c].disposed, card[c].cut>>
      /\ (card[c].wait = "next" => card'[c].wait = "next")
  BY DEF FlushStep, SameLinks
<1>3. ASSUME NEW k \in Cards PROVE Sighted(k)'
  <2>1. Sighted(k)
    BY DEF Exposed
  <2>2. UNCHANGED <<card[k].root, card[k].st, card[k].shown, card[k].disposed, card[k].cut>>
        /\ (card[k].wait = "next" => card'[k].wait = "next")
    BY <1>1 DEF OtherCards
  <2>3. Unseen(k)' => Unseen(k)
    BY <1>1, <2>2 DEF Unseen
  <2>4. ~On("records", k, 0)
    BY <1>1, NoCall DEF On
  <2>5. Awaits(k) => Awaits(k)'
    BY <2>2, <2>4 DEF Awaits
  <2> QED  BY <1>1, <2>1, <2>2, <2>3, <2>5 DEF Sighted
<1>4. entry' # "listen" => taken' = {}
  BY <1>1 DEF Exposed
<1> QED  BY <1>3, <1>4 DEF Exposed

(* A record that shows a card let go of out of sight is waited for.        *)
LEMMA ExposedKept ==
  ASSUME Core, Exposed, Kinds', Does
  PROVE  Exposed'
<1>0. Typed /\ Shape /\ Resting /\ Flags /\ Runs /\ BootJobs
  BY DEF Core
<1>1. CASE Dim
  BY <1>0, <1>1, DimExposed
<1>2. CASE OpenRecordsStep
  BY <1>0, <1>2, OpenRecordsExposed
<1>3. CASE RecordStep
  BY <1>3, RecordExposed
<1>4. ASSUME NEW c \in Cards, BootStep(c) PROVE Exposed'
  BY <1>0, <1>4, BootExposed
<1>5. ASSUME NEW c \in Cards, DisposeStep(c) PROVE Exposed'
  BY <1>0, <1>5, DisposeExposed
<1>6. ASSUME NEW c \in Cards, RecordsStep(c) PROVE Exposed'
  BY <1>0, <1>6, RecordsExposed
<1>7. ASSUME NEW c \in Cards, FlushStep(c) PROVE Exposed'
  BY <1>0, <1>7, FlushExposed
<1>8. Dim \/ Sees
  BY <1>0, DimOrNot
<1> QED  BY <1>1, <1>2, <1>3, <1>4, <1>5, <1>6, <1>7, <1>8 DEF Sees

(* While a flush is scheduled, only what its predecessors called runs.     *)
FlushCalls == {"arrive", "frames", "reset", "start", "nothing"}
FlushAt(c) ==
  /\ <<"flush", c, 0>> \in jobs =>
        /\ entry = "turn" /\ \A x \in Within(stack) : x[1] \in FlushCalls
        /\ card[c].disposed /\ ~card[c].cut => card[c].wait = "due"
  /\ card[c].wait = "due" => <<"flush", c, 0>> \in jobs
Flushes == \A c \in Cards : FlushAt(c)

(* Any other call runs with no flush scheduled.                            *)
LEMMA CallNoFlush ==
  ASSUME Typed, Shape, Flushes, NEW k, NEW r, NEW a, At(k, r, a), k \notin FlushCalls
  PROVE  NoFlush
<1>1. <<k, r, a>> \in Within(stack)
  BY AtFacts
<1> QED  BY <1>1 DEF Flushes, FlushAt, NoFlush

(* No flush is scheduled, none is dropped unless it has run.               *)
Hushed == \A c \in Cards :
   /\ <<"flush", c, 0>> \in jobs' => <<"flush", c, 0>> \in jobs
   /\ card'[c].wait = "due" => card[c].wait = "due" /\ (<<"flush", c, 0>> \in jobs => <<"flush", c, 0>> \in jobs')
Delivers == /\ entry' = entry
            /\ (\A x \in Within(stack) : x[1] \in FlushCalls) => \A x \in Within(stack') : x[1] \in FlushCalls
            /\ \A c \in Cards : /\ UNCHANGED <<card[c].disposed, card[c].cut>>
                                /\ card[c].wait = "due" => card'[c].wait = "due" \/ <<"flush", c, 0>> \notin jobs'

(* Such a step leaves the flushes scheduled.                               *)
LEMMA HushedFlushes ==
  ASSUME Flushes, Hushed, NoFlush \/ Delivers
  PROVE  Flushes'
<1>1. ASSUME NEW c \in Cards PROVE FlushAt(c)'
  <2>1. FlushAt(c)
    BY DEF Flushes
  <2>2. card'[c].wait = "due" => <<"flush", c, 0>> \in jobs'
    BY <2>1 DEF FlushAt, Hushed
  <2>3. CASE NoFlush
    <3>1. <<"flush", c, 0>> \notin jobs'
      BY <2>3 DEF NoFlush, Hushed
    <3> QED  BY <2>2, <3>1 DEF FlushAt
  <2>4. CASE Delivers
    <3>1. ASSUME <<"flush", c, 0>> \in jobs'
          PROVE  /\ entry' = "turn" /\ \A x \in Within(stack') : x[1] \in FlushCalls
                 /\ card'[c].disposed /\ ~card'[c].cut => card'[c].wait = "due"
      <4>1. <<"flush", c, 0>> \in jobs
        BY <3>1 DEF Hushed
      <4> QED  BY <2>1, <2>4, <3>1, <4>1 DEF FlushAt, Delivers
    <3> QED  BY <2>2, <3>1 DEF FlushAt, FlushCalls
  <2> QED  BY <2>3, <2>4
<1> QED  BY <1>1 DEF Flushes

(* The delivery alone schedules any.                                       *)
LEMMA HushedOrRecord ==
  ASSUME Typed, Shape, Resting, Flags, Flushes, Kinds', Does
  PROVE  (Hushed /\ (NoFlush \/ Delivers)) \/ RecordStep
<1> DEFINE Goal == (Hushed /\ (NoFlush \/ Delivers)) \/ RecordStep
<1>1. ASSUME NEW r \in Realms, NEW s \in Srcs, SourceStep(r, s) PROVE Goal
  <2>1. Hushed
    BY <1>1 DEF SourceStep, Hushed, OtherCards, SameLinks, Freeing
  <2>2. NoFlush
    <3>1. At("source", r, s) /\ "source" \notin FlushCalls
      BY <1>1 DEF SourceStep, FlushCalls
    <3> QED  BY <3>1, CallNoFlush
  <2> QED  BY <2>1, <2>2
<1>2. ASSUME NEW r \in Realms, NEW s \in Srcs, SetSrcStep(r, s) PROVE Goal
  <2>1. Hushed
    BY <1>2 DEF SetSrcStep, Hushed, OtherCards, SameLinks, Freeing
  <2>2. NoFlush
    <3>1. CASE stack # <<>> /\ Top[1] = "loading"
      <4>1. At("loading", Top[2], Top[3])
        BY <3>1, TopFacts DEF At
      <4> QED  BY <4>1, CallNoFlush DEF FlushCalls
    <3> QED  BY <1>2, <3>1 DEF SetSrcStep, AppRuns
  <2> QED  BY <2>1, <2>2
<1>3. ASSUME NEW r \in Realms, NEW g \in Nat, StartStep(r, g) PROVE Goal
  <2>1. Hushed
    BY <1>3 DEF StartStep, Hushed, OtherCards, SameLinks, Freeing
  <2>2. Delivers
    <3>1. /\ entry' = entry
          /\ \A k \in Cards : /\ UNCHANGED <<card[k].disposed, card[k].cut>>
                              /\ card[k].wait = "due" => card'[k].wait = "due" \/ <<"flush", k, 0>> \notin jobs'
      BY SMTT(30), <1>3 DEF StartStep, SameLinks, OtherCards
    <3>2. (\A x \in Within(stack) : x[1] \in FlushCalls) => \A x \in Within(stack') : x[1] \in FlushCalls
      <4>1. \A x \in Within(Pop) : x \in Within(stack)
        BY <1>3, AtFacts DEF StartStep
      <4> QED  BY SMTT(30), <1>3, <4>1 DEF StartStep
    <3> QED  BY SMTT(30), <3>1, <3>2 DEF Delivers
  <2> QED  BY SMTT(30), <2>1, <2>2
<1>4. ASSUME NEW r \in Realms, NEW g \in Nat, RunStartStep(r, g) PROVE Goal
  <2>1. Hushed
    BY <1>4 DEF RunStartStep, Hushed, OtherCards, SameLinks, Freeing
  <2>2. NoFlush
    BY <1>4 DEF RunStartStep
  <2> QED  BY <2>1, <2>2
<1>5. ASSUME NEW r \in Realms, NEW g \in Nat, FetchStep(r, g) PROVE Goal
  <2>1. Hushed
    BY <1>5 DEF FetchStep, Hushed, OtherCards, SameLinks, Freeing
  <2>2. NoFlush
    BY <1>5 DEF FetchStep, NoFlush, Resting
  <2> QED  BY <2>1, <2>2
<1>6. ASSUME NEW r \in Realms, NEW d \in Conts, d = "frames" => r \in Cards, CloseStep(r, d) PROVE Goal
  <2>1. Hushed
    BY <1>6 DEF CloseStep, Hushed, OtherCards, SameLinks, Freeing
  <2>2. NoFlush
    <3>1. At("close", r, d) /\ "close" \notin FlushCalls
      BY <1>6 DEF CloseStep, FlushCalls
    <3> QED  BY <3>1, CallNoFlush
  <2> QED  BY <2>1, <2>2
<1>7. ASSUME NEW r \in Realms, ResetStep(r) PROVE Goal
  <2>1. Hushed
    BY <1>7 DEF ResetStep, Hushed, OtherCards, SameLinks, Freeing
  <2>2. Delivers
    <3>1. /\ entry' = entry
          /\ \A k \in Cards : /\ UNCHANGED <<card[k].disposed, card[k].cut>>
                              /\ card[k].wait = "due" => card'[k].wait = "due" \/ <<"flush", k, 0>> \notin jobs'
      BY <1>7 DEF ResetStep, SameLinks, OtherCards
    <3>2. (\A x \in Within(stack) : x[1] \in FlushCalls) => \A x \in Within(stack') : x[1] \in FlushCalls
      <4>1. \A x \in Within(Pop) : x \in Within(stack)
        BY <1>7, AtFacts DEF ResetStep
      <4>2. \A x \in Within(stack') : x \in Within(Pop) \/ x \in Within(frame[r].after)
        BY <1>7 DEF ResetStep
      <4>3. \A x \in Within(frame[r].after) : x[1] \in {"start", "frames"}
        BY AfterWithin
      <4> QED  BY <4>1, <4>2, <4>3 DEF FlushCalls
    <3> QED  BY <3>1, <3>2 DEF Delivers
  <2> QED  BY <2>1, <2>2
<1>8. ASSUME NEW r \in Realms, IdleStep(r) PROVE Goal
  <2>1. Hushed
    BY <1>8 DEF IdleStep, Hushed, OtherCards, SameLinks, Freeing
  <2>2. Delivers
    <3>1. /\ entry' = entry
          /\ \A k \in Cards : /\ UNCHANGED <<card[k].disposed, card[k].cut>>
                              /\ card[k].wait = "due" => card'[k].wait = "due" \/ <<"flush", k, 0>> \notin jobs'
      BY <1>8 DEF IdleStep, SameLinks, OtherCards
    <3>2. (\A x \in Within(stack) : x[1] \in FlushCalls) => \A x \in Within(stack') : x[1] \in FlushCalls
      <4>1. \A x \in Within(Pop) : x \in Within(stack)
        BY <1>8, AtFacts DEF IdleStep
      <4> QED  BY <1>8, <4>1 DEF IdleStep
    <3> QED  BY <3>1, <3>2 DEF Delivers
  <2> QED  BY <2>1, <2>2
<1>9. ASSUME NEW r \in Realms, HearStep(r) PROVE Goal
  <2>1. Hushed
    BY <1>9 DEF HearStep, Hushed, OtherCards, SameLinks, Freeing
  <2>2. NoFlush
    BY <1>9 DEF HearStep, NoFlush, Resting
  <2> QED  BY <2>1, <2>2
<1>10. ASSUME NEW r \in Realms, MoveStep(r) PROVE Goal
  <2>1. Hushed
    BY <1>10 DEF MoveStep, Hushed, OtherCards, SameLinks, Freeing
  <2>2. NoFlush
    <3>1. CASE stack # <<>> /\ Top[1] = "loading"
      <4>1. At("loading", Top[2], Top[3])
        BY <3>1, TopFacts DEF At
      <4> QED  BY <4>1, CallNoFlush DEF FlushCalls
    <3> QED  BY <1>10, <3>1 DEF MoveStep, AppRuns
  <2> QED  BY <2>1, <2>2
<1>11. ASSUME NEW c \in Cards, BootStep(c) PROVE Goal
  <2>1. Hushed
    BY <1>11 DEF BootStep, Hushed, OtherCards, SameLinks, Freeing
  <2>2. NoFlush
    BY <1>11 DEF BootStep
  <2> QED  BY <2>1, <2>2
<1>12. ASSUME NEW c \in Cards, LoadedStep(c) PROVE Goal
  <2>1. Hushed
    BY <1>12 DEF LoadedStep, Hushed, OtherCards, SameLinks, Freeing
  <2>2. NoFlush
    <3>1. At("loading", c, 0) /\ "loading" \notin FlushCalls
      BY <1>12 DEF LoadedStep, FlushCalls
    <3> QED  BY <3>1, CallNoFlush
  <2> QED  BY <2>1, <2>2
<1>13. ASSUME NEW c \in Cards, DisposeStep(c) PROVE Goal
  <2>1. Hushed
    BY <1>13 DEF DisposeStep, Hushed, OtherCards, SameLinks, Freeing
  <2>2. NoFlush
    <3>1. At("dispose", c, 0) /\ "dispose" \notin FlushCalls
      BY <1>13 DEF DisposeStep, FlushCalls
    <3> QED  BY <3>1, CallNoFlush
  <2> QED  BY <2>1, <2>2
<1>14. ASSUME NEW c \in Cards, OwingStep(c) PROVE Goal
  <2>1. Hushed
    BY <1>14 DEF OwingStep, Hushed, OtherCards, SameLinks, Freeing
  <2>2. NoFlush
    <3>1. At("owing", c, 0) /\ "owing" \notin FlushCalls
      BY <1>14 DEF OwingStep, FlushCalls
    <3> QED  BY <3>1, CallNoFlush
  <2> QED  BY <2>1, <2>2
<1>15. ASSUME NEW c \in Cards, FramesStep(c) PROVE Goal
  <2>1. Hushed
    BY <1>15 DEF FramesStep, Hushed, OtherCards, SameLinks, Freeing
  <2>2. Delivers
    <3>1. /\ entry' = entry
          /\ \A k \in Cards : /\ UNCHANGED <<card[k].disposed, card[k].cut>>
                              /\ card[k].wait = "due" => card'[k].wait = "due" \/ <<"flush", k, 0>> \notin jobs'
      BY <1>15 DEF FramesStep, SameLinks, OtherCards
    <3>2. (\A x \in Within(stack) : x[1] \in FlushCalls) => \A x \in Within(stack') : x[1] \in FlushCalls
      <4>1. \A x \in Within(Pop) : x \in Within(stack)
        BY <1>15, AtFacts DEF FramesStep
      <4>2. \A x \in Within(stack') : x \in Within(Pop) \/ x = <<"arrive", c, 0>>
        BY <1>15 DEF FramesStep, Pushed
      <4> QED  BY <4>1, <4>2 DEF FlushCalls
    <3> QED  BY <3>1, <3>2 DEF Delivers
  <2> QED  BY <2>1, <2>2
<1>16. ASSUME NEW c \in Cards, RecordsStep(c) PROVE Goal
  <2>1. Hushed
    BY <1>16 DEF RecordsStep, Hushed, OtherCards, SameLinks, Freeing
  <2>2. NoFlush
    <3>1. At("records", c, 0) /\ "records" \notin FlushCalls
      BY <1>16 DEF RecordsStep, FlushCalls
    <3> QED  BY <3>1, CallNoFlush
  <2> QED  BY <2>1, <2>2
<1>17. ASSUME NEW c \in Cards, ArriveStep(c) PROVE Goal
  <2>1. Hushed
    BY <1>17 DEF ArriveStep, Hushed, OtherCards, SameLinks, Freeing
  <2>2. Delivers
    <3>1. /\ entry' = entry
          /\ \A k \in Cards : /\ UNCHANGED <<card[k].disposed, card[k].cut>>
                              /\ card[k].wait = "due" => card'[k].wait = "due" \/ <<"flush", k, 0>> \notin jobs'
      BY <1>17 DEF ArriveStep, SameLinks, OtherCards
    <3>2. (\A x \in Within(stack) : x[1] \in FlushCalls) => \A x \in Within(stack') : x[1] \in FlushCalls
      <4>1. \A x \in Within(Pop) : x \in Within(stack)
        BY <1>17, AtFacts DEF ArriveStep
      <4>2. \A x \in Within(stack') : x \in Within(Pop) \/ x = <<card[c].done, card[c].host, 0>>
        BY <1>17 DEF ArriveStep, Pushed
      <4>3. <<"arrive", c, 0>> \in Within(stack)
        BY <1>17, AtFacts DEF ArriveStep
      <4>4. card[c].done \in Conts
        <5>1. card[c].disposed
          BY <4>3, LateCall
        <5>2. card[c].done # "none"
          BY <5>1 DEF Flags
        <5> QED  BY <5>2 DEF Typed, Kinds, CardRec, Dones
      <4>5. <<card[c].done, card[c].host, 0>>[1] \in FlushCalls
        BY <4>4 DEF Conts, FlushCalls
      <4> QED  BY <4>1, <4>2, <4>5
    <3> QED  BY <3>1, <3>2 DEF Delivers
  <2> QED  BY <2>1, <2>2
<1>18. ASSUME NEW c \in Cards, FlushStep(c) PROVE Goal
  <2>1. Hushed
    BY <1>18 DEF FlushStep, Hushed, OtherCards, SameLinks, Freeing
  <2>2. Delivers
    <3>1. /\ entry' = entry
          /\ \A k \in Cards : /\ UNCHANGED <<card[k].disposed, card[k].cut>>
                              /\ card[k].wait = "due" => card'[k].wait = "due" \/ <<"flush", k, 0>> \notin jobs'
      BY <1>18 DEF FlushStep, SameLinks, OtherCards
    <3>2. (\A x \in Within(stack) : x[1] \in FlushCalls) => \A x \in Within(stack') : x[1] \in FlushCalls
      <4>1. \A x \in Within(stack') : x = <<"arrive", c, 0>>
        BY <1>18, NoCall DEF FlushStep, Pushed
      <4> QED  BY <4>1 DEF FlushCalls
    <3> QED  BY <3>1, <3>2 DEF Delivers
  <2> QED  BY <2>1, <2>2
<1>19. ASSUME NEW c \in Cards, CloseRealmStep(c) PROVE Goal
  <2>1. Hushed
    BY <1>19 DEF CloseRealmStep, Hushed, OtherCards, SameLinks, Freeing
  <2>2. NoFlush
    BY <1>19 DEF CloseRealmStep
  <2> QED  BY <2>1, <2>2
<1>20. ASSUME NEW c \in Cards, AckStep(c) PROVE Goal
  <2>1. Hushed
    BY <1>20 DEF AckStep, Hushed, OtherCards, SameLinks, Freeing
  <2>2. NoFlush
    BY <1>20 DEF AckStep, NoFlush, Resting
  <2> QED  BY <2>1, <2>2
<1>21. ASSUME NEW c \in Cards, BtsStep(c) PROVE Goal
  <2>1. Hushed
    BY <1>21 DEF BtsStep, Hushed, OtherCards, SameLinks, Freeing
  <2>2. NoFlush
    BY <1>21 DEF BtsStep, NoFlush, Resting
  <2> QED  BY <2>1, <2>2
<1>22. ASSUME NEW c \in Cards, ObserveStep(c) PROVE Goal
  <2>1. Hushed
    BY <1>22 DEF ObserveStep, Hushed, OtherCards, SameLinks, Freeing
  <2>2. NoFlush
    BY <1>22 DEF ObserveStep, NoFlush, Resting
  <2> QED  BY <2>1, <2>2
<1>23. CASE HeardStep
  <2>1. Hushed
    BY <1>23 DEF HeardStep, Hushed, OtherCards, SameLinks, Freeing
  <2>2. NoFlush
    BY <1>23 DEF HeardStep, NoFlush, Resting
  <2> QED  BY <2>1, <2>2
<1>24. CASE EpilogueStep
  <2>1. Hushed
    BY <1>24 DEF EpilogueStep, Hushed, OtherCards, SameLinks, Freeing
  <2>2. NoFlush
    BY <1>24 DEF EpilogueStep, NoFlush, Resting
  <2> QED  BY <2>1, <2>2
<1>25. CASE OpenStep
  <2>1. Hushed
    BY <1>25 DEF OpenStep, Hushed, OtherCards, SameLinks, Freeing
  <2>2. NoFlush
    BY <1>25 DEF OpenStep, NoFlush, Resting
  <2> QED  BY <2>1, <2>2
<1>26. CASE OpenEventsStep
  <2>1. Hushed
    BY <1>26 DEF OpenEventsStep, Hushed, OtherCards, SameLinks, Freeing
  <2>2. NoFlush
    BY <1>26 DEF OpenEventsStep, NoFlush, Resting
  <2> QED  BY <2>1, <2>2
<1>27. CASE OpenRecordsStep
  <2>1. Hushed
    BY <1>27 DEF OpenRecordsStep, Hushed, OtherCards, SameLinks, Freeing
  <2>2. NoFlush
    BY <1>27 DEF OpenRecordsStep, NoFlush, Resting
  <2> QED  BY <2>1, <2>2
<1>28. CASE RecordStep
  BY <1>28
<1>29. CASE BeginStep
  <2>1. Hushed
    BY <1>29 DEF BeginStep, Hushed, OtherCards, SameLinks, Freeing
  <2>2. NoFlush
    BY <1>29 DEF BeginStep, NoFlush, Resting
  <2> QED  BY <2>1, <2>2
<1> QED  BY <1>1, <1>2, <1>3, <1>4, <1>5, <1>6, <1>7, <1>8, <1>9, <1>10, <1>11, <1>12, <1>13,
            <1>14, <1>15, <1>16, <1>17, <1>18, <1>19, <1>20, <1>21, <1>22, <1>23, <1>24, <1>25,
            <1>26, <1>27, <1>28, <1>29 DEF Does

(* It schedules one for each card it reaches.                              *)
LEMMA RecordFlushes ==
  ASSUME Typed, Exposed, Flushes, RecordStep
  PROVE  Flushes'
<1>1. ASSUME NEW c \in Cards PROVE FlushAt(c)'
  <2>1. FlushAt(c) /\ Sighted(c)
    BY DEF Flushes, Exposed
  <2>2. /\ stack = <<>> /\ stack' = <<>> /\ jobs = {} /\ entry' = "turn"
        /\ UNCHANGED <<card[c].disposed, card[c].cut>>
        /\ card'[c].wait = IF Reached(c) /\ card[c].wait = "next" THEN "due" ELSE card[c].wait
        /\ Reached(c) => <<"flush", c, 0>> \in jobs'
    BY DEF RecordStep
  <2>3. <<"flush", c, 0>> \in jobs' => Reached(c)
    <3>1. \A x \in jobs' : \E k \in Cards : x = <<"flush", k, 0>> /\ Reached(k)
      BY DEF RecordStep
    <3> QED  BY <3>1
  <2>4. ASSUME Reached(c), card[c].disposed, ~card[c].cut PROVE card'[c].wait = "due"
    <3>1. Unseen(c)
      BY <2>1, <2>4 DEF Unseen, Reached, Sighted
    <3>2. ~On("records", c, 0)
      BY <2>2, NoCall DEF On
    <3>3. card[c].wait = "next"
      BY <2>1, <3>1, <3>2 DEF Sighted, Awaits
    <3> QED  BY <2>2, <2>4, <3>3
  <2>5. card'[c].wait = "due" => <<"flush", c, 0>> \in jobs'
    BY <2>1, <2>2 DEF FlushAt
  <2>6. \A x \in Within(stack') : x[1] \in FlushCalls
    BY <2>2, NoCall
  <2> QED  BY <2>2, <2>3, <2>4, <2>5, <2>6 DEF FlushAt
<1> QED  BY <1>1 DEF Flushes

(* A flush scheduled runs in the entry of its delivery.                    *)
LEMMA FlushesKept ==
  ASSUME Core, Exposed, Flushes, Kinds', Does
  PROVE  Flushes'
<1>0. Typed /\ Shape /\ Resting /\ Flags
  BY DEF Core
<1>1. (Hushed /\ (NoFlush \/ Delivers)) \/ RecordStep
  BY <1>0, HushedOrRecord
<1> QED  BY <1>0, <1>1, HushedFlushes, RecordFlushes

(* LastListPosted: what a card let go of has last seen goes out first.     *)
LEMMA ListsPosted ==
  ASSUME Core, Counts, Exposed, Flushes
  PROVE  LastListPosted
<1>1. ASSUME NEW c \in Cards, Done(c), ~card[c].cut PROVE Posted(c)
  <2>0. Typed
    BY DEF Core
  <2>1. Sighted(c) /\ FlushAt(c) /\ PendingAt(c) /\ card[c].disposed /\ card[c].pending = 0
    BY <1>1 DEF Exposed, Flushes, Counts, Done
  <2>2. Count(stack, Records(c)) \in Nat /\ Count(stack, Arrives(c)) \in Nat
    BY <2>0, CountsNat
  <2>3. Waiter(c) \in {0, 1} /\ Framed(c) \in {0, 1}
    BY DEF Waiter, Framed
  <2>4. Count(stack, Records(c)) = 0 /\ Waiter(c) = 0
    BY <2>1, <2>2, <2>3 DEF PendingAt
  <2>5. card[c].wait = "no"
    BY <2>4 DEF Waiter
  <2>6. ~On("records", c, 0)
    <3>1. stack \in Seq(Items)
      BY <2>0 DEF Typed, Kinds
    <3>2. \A x \in Records(c) : x \in Within(stack) => Count(stack, Records(c)) >= 1
      BY <3>1, WithinCount
    <3> QED  BY <2>4, <3>2 DEF Records, On
  <2>7. ~Unseen(c)
    BY <2>1, <2>5, <2>6 DEF Sighted, Awaits
  <2>8. <<"flush", c, 0>> \notin jobs
    BY <1>1, <2>1, <2>5 DEF FlushAt
  <2> QED  BY <1>1, <2>1, <2>7, <2>8 DEF Posted, Unseen
<1> QED  BY <1>1 DEF LastListPosted


-----------------------------------------------------------------------------
(* The end of the view.                                                    *)

(* How the view ends: the page's cards are let go of without a word, and   *)
(* only what that calls still runs.                                        *)
Void(x) == x[1] = "nothing" \/ (x[1] = "close" /\ x[3] = "nothing")
EndCalls == {"close", "nothing", "dispose", "frames", "arrive", "records", "owing", "askPage"}
Ending(S) ==
  /\ \A x \in Within(stack) : x[1] \in EndCalls /\ (x[1] = "close" => x[3] # "reset") /\ x[2] \in S \cup {Page}
  /\ \A c \in S : card[c].done # "reset" /\ card[c].host \in S \cup {Page}
Voids == /\ \A x \in Within(stack) : Void(x) => x[2] = Page /\ entry = "ended"
         /\ \A c \in Cards : card[c].done = "nothing" => card[c].host = Page /\ entry = "ended"
Ends == /\ Voids
        /\ entry = "ended" => (\A x \in jobs : x[1] = "closeRealm") /\ \E S \in SUBSET Cards : Ending(S)

(* What can run once the view has ended.                                   *)
EndStep == \/ \E r \in Realms, d \in Conts : CloseStep(r, d) /\ (d = "frames" => r \in Cards)
           \/ \E r \in Realms : IdleStep(r)
           \/ \E c \in Cards : \/ DisposeStep(c) \/ OwingStep(c) \/ FramesStep(c) \/ RecordsStep(c)
                               \/ ArriveStep(c) \/ CloseRealmStep(c) \/ AckStep(c)

(* A call of an ended view.                                                *)
LEMMA EndCall ==
  ASSUME Typed, Shape, Ends, entry = "ended", stack # <<>>
  PROVE  Top[1] \in EndCalls
<1>1. PICK S \in SUBSET Cards : Ending(S)
  BY DEF Ends
<1>2. Top \in Within(stack)
  BY TopFacts
<1> QED  BY <1>1, <1>2 DEF Ending

(* A step of an ended view.                                                *)
LEMMA EndSteps ==
  ASSUME Typed, Shape, Ends, entry = "ended", Kinds', Does
  PROVE  EndStep
<1>1. ASSUME NEW r \in Realms, NEW s \in Srcs, SourceStep(r, s) PROVE EndStep
  <2>1. Top[1] \notin EndCalls /\ stack # <<>>
    BY <1>1 DEF SourceStep, At, EndCalls
  <2> QED  BY <2>1, EndCall
<1>2. ASSUME NEW r \in Realms, NEW s \in Srcs, SetSrcStep(r, s) PROVE EndStep
  <2>1. Top[1] \notin EndCalls /\ stack # <<>>
    BY <1>2 DEF SetSrcStep, AppRuns, EndCalls
  <2> QED  BY <2>1, EndCall
<1>3. ASSUME NEW r \in Realms, NEW g \in Nat, StartStep(r, g) PROVE EndStep
  <2>1. Top[1] \notin EndCalls /\ stack # <<>>
    BY <1>3 DEF StartStep, At, EndCalls
  <2> QED  BY SMTT(30), <2>1, EndCall
<1>4. ASSUME NEW r \in Realms, NEW g \in Nat, RunStartStep(r, g) PROVE EndStep
  BY <1>4 DEF RunStartStep, Ends
<1>5. ASSUME NEW r \in Realms, NEW g \in Nat, FetchStep(r, g) PROVE EndStep
  BY <1>5 DEF FetchStep
<1>6. ASSUME NEW r \in Realms, NEW d \in Conts, d = "frames" => r \in Cards, CloseStep(r, d) PROVE EndStep
  BY <1>6 DEF EndStep
<1>7. ASSUME NEW r \in Realms, ResetStep(r) PROVE EndStep
  <2>1. Top[1] \notin EndCalls /\ stack # <<>>
    BY <1>7 DEF ResetStep, At, EndCalls
  <2> QED  BY <2>1, EndCall
<1>8. ASSUME NEW r \in Realms, IdleStep(r) PROVE EndStep
  BY <1>8 DEF EndStep
<1>9. ASSUME NEW r \in Realms, HearStep(r) PROVE EndStep
  BY <1>9 DEF HearStep
<1>10. ASSUME NEW r \in Realms, MoveStep(r) PROVE EndStep
  <2>1. Top[1] \notin EndCalls /\ stack # <<>>
    BY <1>10 DEF MoveStep, AppRuns, EndCalls
  <2> QED  BY <2>1, EndCall
<1>11. ASSUME NEW c \in Cards, BootStep(c) PROVE EndStep
  BY <1>11 DEF BootStep, Ends
<1>12. ASSUME NEW c \in Cards, LoadedStep(c) PROVE EndStep
  <2>1. Top[1] \notin EndCalls /\ stack # <<>>
    BY <1>12 DEF LoadedStep, At, EndCalls
  <2> QED  BY <2>1, EndCall
<1>13. ASSUME NEW c \in Cards, DisposeStep(c) PROVE EndStep
  BY <1>13 DEF EndStep
<1>14. ASSUME NEW c \in Cards, OwingStep(c) PROVE EndStep
  BY <1>14 DEF EndStep
<1>15. ASSUME NEW c \in Cards, FramesStep(c) PROVE EndStep
  BY <1>15 DEF EndStep
<1>16. ASSUME NEW c \in Cards, RecordsStep(c) PROVE EndStep
  BY <1>16 DEF EndStep
<1>17. ASSUME NEW c \in Cards, ArriveStep(c) PROVE EndStep
  BY <1>17 DEF EndStep
<1>18. ASSUME NEW c \in Cards, FlushStep(c) PROVE EndStep
  BY <1>18 DEF FlushStep, Ends
<1>19. ASSUME NEW c \in Cards, CloseRealmStep(c) PROVE EndStep
  BY <1>19 DEF EndStep
<1>20. ASSUME NEW c \in Cards, AckStep(c) PROVE EndStep
  BY <1>20 DEF EndStep
<1>21. ASSUME NEW c \in Cards, BtsStep(c) PROVE EndStep
  BY <1>21 DEF BtsStep
<1>22. ASSUME NEW c \in Cards, ObserveStep(c) PROVE EndStep
  BY <1>22 DEF ObserveStep
<1>23. CASE HeardStep
  BY <1>23 DEF HeardStep
<1>24. CASE EpilogueStep
  BY <1>24 DEF EpilogueStep
<1>25. CASE OpenStep
  BY <1>25 DEF OpenStep
<1>26. CASE OpenEventsStep
  BY <1>26 DEF OpenEventsStep
<1>27. CASE OpenRecordsStep
  BY <1>27 DEF OpenRecordsStep
<1>28. CASE RecordStep
  BY <1>28 DEF RecordStep
<1>29. CASE BeginStep
  BY <1>29 DEF BeginStep
<1> QED  BY <1>1, <1>2, <1>3, <1>4, <1>5, <1>6, <1>7, <1>8, <1>9, <1>10, <1>11, <1>12, <1>13,
            <1>14, <1>15, <1>16, <1>17, <1>18, <1>19, <1>20, <1>21, <1>22, <1>23, <1>24, <1>25,
            <1>26, <1>27, <1>28, <1>29 DEF Does

(* A view's end is its last entry.                                         *)
LEMMA EndedStays ==
  ASSUME Typed, Kinds', Does
  PROVE  entry = "ended" => entry' = "ended"
<1> DEFINE Goal == entry = "ended" => entry' = "ended"
<1>1. ASSUME NEW r \in Realms, NEW s \in Srcs, SourceStep(r, s) PROVE Goal
  BY <1>1 DEF SourceStep, SameLinks
<1>2. ASSUME NEW r \in Realms, NEW s \in Srcs, SetSrcStep(r, s) PROVE Goal
  BY SMTT(30), <1>2 DEF SetSrcStep, SameLinks
<1>3. ASSUME NEW r \in Realms, NEW g \in Nat, StartStep(r, g) PROVE Goal
  BY <1>3 DEF StartStep, SameLinks
<1>4. ASSUME NEW r \in Realms, NEW g \in Nat, RunStartStep(r, g) PROVE Goal
  BY <1>4 DEF RunStartStep, SameLinks
<1>5. ASSUME NEW r \in Realms, NEW g \in Nat, FetchStep(r, g) PROVE Goal
  BY <1>5 DEF FetchStep, SameLinks
<1>6. ASSUME NEW r \in Realms, NEW d \in Conts, d = "frames" => r \in Cards, CloseStep(r, d) PROVE Goal
  BY <1>6 DEF CloseStep, SameLinks
<1>7. ASSUME NEW r \in Realms, ResetStep(r) PROVE Goal
  BY <1>7 DEF ResetStep, SameLinks
<1>8. ASSUME NEW r \in Realms, IdleStep(r) PROVE Goal
  BY <1>8 DEF IdleStep, SameLinks
<1>9. ASSUME NEW r \in Realms, HearStep(r) PROVE Goal
  BY <1>9 DEF HearStep, SameLinks
<1>10. ASSUME NEW r \in Realms, MoveStep(r) PROVE Goal
  BY <1>10 DEF MoveStep, SameLinks
<1>11. ASSUME NEW c \in Cards, BootStep(c) PROVE Goal
  BY <1>11 DEF BootStep, SameLinks
<1>12. ASSUME NEW c \in Cards, LoadedStep(c) PROVE Goal
  BY <1>12 DEF LoadedStep, SameLinks
<1>13. ASSUME NEW c \in Cards, DisposeStep(c) PROVE Goal
  BY <1>13 DEF DisposeStep, SameLinks
<1>14. ASSUME NEW c \in Cards, OwingStep(c) PROVE Goal
  BY <1>14 DEF OwingStep, SameLinks
<1>15. ASSUME NEW c \in Cards, FramesStep(c) PROVE Goal
  BY <1>15 DEF FramesStep, SameLinks
<1>16. ASSUME NEW c \in Cards, RecordsStep(c) PROVE Goal
  BY <1>16 DEF RecordsStep, SameLinks
<1>17. ASSUME NEW c \in Cards, ArriveStep(c) PROVE Goal
  BY <1>17 DEF ArriveStep, SameLinks
<1>18. ASSUME NEW c \in Cards, FlushStep(c) PROVE Goal
  BY <1>18 DEF FlushStep, SameLinks
<1>19. ASSUME NEW c \in Cards, CloseRealmStep(c) PROVE Goal
  BY <1>19 DEF CloseRealmStep, SameLinks
<1>20. ASSUME NEW c \in Cards, AckStep(c) PROVE Goal
  BY <1>20 DEF AckStep, SameLinks
<1>21. ASSUME NEW c \in Cards, BtsStep(c) PROVE Goal
  BY <1>21 DEF BtsStep, SameLinks
<1>22. ASSUME NEW c \in Cards, ObserveStep(c) PROVE Goal
  BY <1>22 DEF ObserveStep, SameLinks
<1>23. CASE HeardStep
  BY <1>23 DEF HeardStep, SameLinks
<1>24. CASE EpilogueStep
  BY <1>24 DEF EpilogueStep, SameLinks
<1>25. CASE OpenStep
  BY <1>25 DEF OpenStep, SameLinks
<1>26. CASE OpenEventsStep
  BY <1>26 DEF OpenEventsStep, SameLinks
<1>27. CASE OpenRecordsStep
  BY <1>27 DEF OpenRecordsStep, SameLinks
<1>28. CASE RecordStep
  BY <1>28 DEF RecordStep, SameLinks
<1>29. CASE BeginStep
  BY <1>29 DEF BeginStep, SameLinks
<1> QED  BY <1>1, <1>2, <1>3, <1>4, <1>5, <1>6, <1>7, <1>8, <1>9, <1>10, <1>11, <1>12, <1>13,
            <1>14, <1>15, <1>16, <1>17, <1>18, <1>19, <1>20, <1>21, <1>22, <1>23, <1>24, <1>25,
            <1>26, <1>27, <1>28, <1>29 DEF Does

(* Only the view's end lets go of cards without a word.                    *)
LEMMA NewVoid ==
  ASSUME Typed, Shape, Voids, Kinds', Does
  PROVE  \A x \in Within(stack') : Void(x) => x \in Within(stack) \/ (x[2] = Page /\ entry' = "ended")
<1> DEFINE Goal == \A x \in Within(stack') : Void(x) => x \in Within(stack) \/ (x[2] = Page /\ entry' = "ended")
<1>1. ASSUME NEW r \in Realms, NEW s \in Srcs, SourceStep(r, s) PROVE Goal
  BY <1>1, NewPop DEF SourceStep, NoNew
<1>2. ASSUME NEW r \in Realms, NEW s \in Srcs, SetSrcStep(r, s) PROVE Goal
  <2>1. Within(stack') = {<<"source", r, s>>}
              \cup (IF frame[r].src = NoSrc THEN {} ELSE {<<"close", r, "reset">>}) \cup Within(stack)
    BY <1>2, SetSrcStack
  <2> QED  BY <2>1 DEF Void
<1>3. ASSUME NEW r \in Realms, NEW g \in Nat, StartStep(r, g) PROVE Goal
  BY <1>3, NewPop DEF StartStep, NoNew
<1>4. ASSUME NEW r \in Realms, NEW g \in Nat, RunStartStep(r, g) PROVE Goal
  BY <1>4, NoCall DEF RunStartStep, Pushed, Void
<1>5. ASSUME NEW r \in Realms, NEW g \in Nat, FetchStep(r, g) PROVE Goal
  BY <1>5, NoCall DEF FetchStep, Pushed, Void
<1>6. ASSUME NEW r \in Realms, NEW d \in Conts, d = "frames" => r \in Cards, CloseStep(r, d) PROVE Goal
  <2>1. \A x \in Within(Pop) : x \in Within(stack)
    BY <1>6, AtFacts DEF CloseStep
  <2>2. CASE Pushed(<<d, r, 0>>, Pop)
    <3>1. ASSUME d = "nothing" PROVE r = Page /\ entry' = "ended"
      <4>1. <<"close", r, "nothing">> \in Within(stack)
        BY <1>6, <3>1, AtFacts DEF CloseStep
      <4>2. r = Page /\ entry = "ended"
        BY <4>1 DEF Voids, Void
      <4> QED  BY <1>6, <4>2 DEF CloseStep, SameLinks
    <3>2. d # "close"
      BY DEF Conts
    <3> QED  BY <2>1, <2>2, <3>1, <3>2 DEF Pushed, Void
  <2>3. ASSUME NEW c \in Cards, Pushed(<<"dispose", c, 0>>, Pop) PROVE \A x \in Within(stack') : Void(x) => x \in Within(stack)
    BY <2>1, <2>3 DEF Pushed, Void
  <2> QED  BY <1>6, <2>2, <2>3 DEF CloseStep
<1>7. ASSUME NEW r \in Realms, ResetStep(r) PROVE Goal
  <2>1. \A x \in Within(Pop) : x \in Within(stack)
    BY <1>7, AtFacts DEF ResetStep
  <2>2. \A x \in Within(stack') : x \in Within(Pop) \/ x \in Within(frame[r].after)
    BY <1>7 DEF ResetStep
  <2>3. \A x \in Within(frame[r].after) : x[1] \in {"start", "frames"}
    BY AfterWithin
  <2> QED  BY <2>1, <2>2, <2>3 DEF Void
<1>8. ASSUME NEW r \in Realms, IdleStep(r) PROVE Goal
  <2>1. \A x \in Within(Pop) : x \in Within(stack)
    BY <1>8, AtFacts DEF IdleStep
  <2> QED  BY <1>8, <2>1 DEF IdleStep
<1>9. ASSUME NEW r \in Realms, HearStep(r) PROVE Goal
  BY <1>9, NoCall DEF HearStep, Pushed, Void
<1>10. ASSUME NEW r \in Realms, MoveStep(r) PROVE Goal
  BY <1>10 DEF MoveStep
<1>11. ASSUME NEW c \in Cards, BootStep(c) PROVE Goal
  <2>1. CASE Pushed(<<"loading", c, 0>>, <<>>)
    BY <2>1, NoCall DEF Pushed, Void
  <2>2. CASE stack' = <<>>
    BY <2>2, NoCall
  <2> QED  BY <1>11, <2>1, <2>2 DEF BootStep
<1>12. ASSUME NEW c \in Cards, LoadedStep(c) PROVE Goal
  BY <1>12, NewPop DEF LoadedStep, NoNew
<1>13. ASSUME NEW c \in Cards, DisposeStep(c) PROVE Goal
  <2>1. \A x \in Within(Pop) : x \in Within(stack)
    BY <1>13, AtFacts DEF DisposeStep
  <2>2. PICK j \in {"records", "arrive"} :
           Within(stack') = (IF frame[c].loaded THEN {<<"close", c, "frames">>} ELSE {})
                \cup {<<"owing", c, 0>>, <<"frames", c, 0>>, <<j, c, 0>>} \cup Within(Pop)
    BY <1>13, DisposeStack
  <2> QED  BY <2>1, <2>2 DEF Void
<1>14. ASSUME NEW c \in Cards, OwingStep(c) PROVE Goal
  BY <1>14, NewPop DEF OwingStep, NoNew
<1>15. ASSUME NEW c \in Cards, FramesStep(c) PROVE Goal
  <2>1. \A x \in Within(Pop) : x \in Within(stack)
    BY <1>15, AtFacts DEF FramesStep
  <2>2. \A x \in Within(stack') : x \in Within(Pop) \/ x = <<"arrive", c, 0>>
    BY <1>15 DEF FramesStep, Pushed
  <2> QED  BY <2>1, <2>2 DEF Void
<1>16. ASSUME NEW c \in Cards, RecordsStep(c) PROVE Goal
  BY <1>16, NewPop DEF RecordsStep, NoNew
<1>17. ASSUME NEW c \in Cards, ArriveStep(c) PROVE Goal
  <2>1. \A x \in Within(Pop) : x \in Within(stack)
    BY <1>17, AtFacts DEF ArriveStep
  <2>2. \A x \in Within(stack') : x \in Within(Pop) \/ x = <<card[c].done, card[c].host, 0>>
    BY <1>17 DEF ArriveStep, Pushed
  <2>3. card[c].done = "nothing" => card[c].host = Page /\ entry' = "ended"
    BY <1>17 DEF ArriveStep, SameLinks, Voids
  <2>4. card[c].done # "close"
    BY DEF Typed, Kinds, CardRec, Dones, Conts
  <2> QED  BY <2>1, <2>2, <2>3, <2>4 DEF Void
<1>18. ASSUME NEW c \in Cards, FlushStep(c) PROVE Goal
  BY <1>18, NoCall DEF FlushStep, Pushed, Void
<1>19. ASSUME NEW c \in Cards, CloseRealmStep(c) PROVE Goal
  BY <1>19 DEF CloseRealmStep
<1>20. ASSUME NEW c \in Cards, AckStep(c) PROVE Goal
  BY <1>20 DEF AckStep
<1>21. ASSUME NEW c \in Cards, BtsStep(c) PROVE Goal
  BY <1>21 DEF BtsStep
<1>22. ASSUME NEW c \in Cards, ObserveStep(c) PROVE Goal
  BY <1>22 DEF ObserveStep
<1>23. CASE HeardStep
  BY <1>23 DEF HeardStep
<1>24. CASE EpilogueStep
  BY <1>24 DEF EpilogueStep
<1>25. CASE OpenStep
  BY <1>25 DEF OpenStep
<1>26. CASE OpenEventsStep
  BY <1>26 DEF OpenEventsStep
<1>27. CASE OpenRecordsStep
  BY <1>27 DEF OpenRecordsStep
<1>28. CASE RecordStep
  BY <1>28 DEF RecordStep
<1>29. CASE BeginStep
  <2>1. Within(stack') = (IF frame[Page].loaded THEN {<<"close", Page, "nothing">>} ELSE {})
              \cup {<<"askPage", Page, 0>>}
    BY <1>29, BeginStack
  <2> QED  BY <1>29, <2>1 DEF BeginStep
<1> QED  BY <1>1, <1>2, <1>3, <1>4, <1>5, <1>6, <1>7, <1>8, <1>9, <1>10, <1>11, <1>12, <1>13,
            <1>14, <1>15, <1>16, <1>17, <1>18, <1>19, <1>20, <1>21, <1>22, <1>23, <1>24, <1>25,
            <1>26, <1>27, <1>28, <1>29 DEF Does

(* A view ends by its disposal.                                            *)
LEMMA EndBegins ==
  ASSUME Typed, Kinds', Does
  PROVE  entry' = "ended" => entry = "ended" \/ BeginStep
<1> DEFINE Goal == entry' = "ended" => entry = "ended" \/ BeginStep
<1>1. ASSUME NEW r \in Realms, NEW s \in Srcs, SourceStep(r, s) PROVE Goal
  BY <1>1 DEF SourceStep, SameLinks
<1>2. ASSUME NEW r \in Realms, NEW s \in Srcs, SetSrcStep(r, s) PROVE Goal
  BY SMTT(30), <1>2 DEF SetSrcStep, SameLinks
<1>3. ASSUME NEW r \in Realms, NEW g \in Nat, StartStep(r, g) PROVE Goal
  BY <1>3 DEF StartStep, SameLinks
<1>4. ASSUME NEW r \in Realms, NEW g \in Nat, RunStartStep(r, g) PROVE Goal
  BY <1>4 DEF RunStartStep, SameLinks
<1>5. ASSUME NEW r \in Realms, NEW g \in Nat, FetchStep(r, g) PROVE Goal
  BY <1>5 DEF FetchStep, SameLinks
<1>6. ASSUME NEW r \in Realms, NEW d \in Conts, d = "frames" => r \in Cards, CloseStep(r, d) PROVE Goal
  BY <1>6 DEF CloseStep, SameLinks
<1>7. ASSUME NEW r \in Realms, ResetStep(r) PROVE Goal
  BY <1>7 DEF ResetStep, SameLinks
<1>8. ASSUME NEW r \in Realms, IdleStep(r) PROVE Goal
  BY <1>8 DEF IdleStep, SameLinks
<1>9. ASSUME NEW r \in Realms, HearStep(r) PROVE Goal
  BY <1>9 DEF HearStep, SameLinks
<1>10. ASSUME NEW r \in Realms, MoveStep(r) PROVE Goal
  BY <1>10 DEF MoveStep, SameLinks
<1>11. ASSUME NEW c \in Cards, BootStep(c) PROVE Goal
  BY <1>11 DEF BootStep, SameLinks
<1>12. ASSUME NEW c \in Cards, LoadedStep(c) PROVE Goal
  BY <1>12 DEF LoadedStep, SameLinks
<1>13. ASSUME NEW c \in Cards, DisposeStep(c) PROVE Goal
  BY <1>13 DEF DisposeStep, SameLinks
<1>14. ASSUME NEW c \in Cards, OwingStep(c) PROVE Goal
  BY <1>14 DEF OwingStep, SameLinks
<1>15. ASSUME NEW c \in Cards, FramesStep(c) PROVE Goal
  BY <1>15 DEF FramesStep, SameLinks
<1>16. ASSUME NEW c \in Cards, RecordsStep(c) PROVE Goal
  BY <1>16 DEF RecordsStep, SameLinks
<1>17. ASSUME NEW c \in Cards, ArriveStep(c) PROVE Goal
  BY <1>17 DEF ArriveStep, SameLinks
<1>18. ASSUME NEW c \in Cards, FlushStep(c) PROVE Goal
  BY <1>18 DEF FlushStep, SameLinks
<1>19. ASSUME NEW c \in Cards, CloseRealmStep(c) PROVE Goal
  BY <1>19 DEF CloseRealmStep, SameLinks
<1>20. ASSUME NEW c \in Cards, AckStep(c) PROVE Goal
  BY <1>20 DEF AckStep, SameLinks
<1>21. ASSUME NEW c \in Cards, BtsStep(c) PROVE Goal
  BY <1>21 DEF BtsStep, SameLinks
<1>22. ASSUME NEW c \in Cards, ObserveStep(c) PROVE Goal
  BY <1>22 DEF ObserveStep, SameLinks
<1>23. CASE HeardStep
  BY <1>23 DEF HeardStep, SameLinks
<1>24. CASE EpilogueStep
  BY <1>24 DEF EpilogueStep, SameLinks
<1>25. CASE OpenStep
  BY <1>25 DEF OpenStep, SameLinks
<1>26. CASE OpenEventsStep
  BY <1>26 DEF OpenEventsStep, SameLinks
<1>27. CASE OpenRecordsStep
  BY <1>27 DEF OpenRecordsStep, SameLinks
<1>28. CASE RecordStep
  BY <1>28 DEF RecordStep, SameLinks
<1>29. CASE BeginStep
  BY <1>29 DEF BeginStep, SameLinks
<1> QED  BY <1>1, <1>2, <1>3, <1>4, <1>5, <1>6, <1>7, <1>8, <1>9, <1>10, <1>11, <1>12, <1>13,
            <1>14, <1>15, <1>16, <1>17, <1>18, <1>19, <1>20, <1>21, <1>22, <1>23, <1>24, <1>25,
            <1>26, <1>27, <1>28, <1>29 DEF Does

(* A card's host is who made it.                                           *)
LEMMA HostStays ==
  ASSUME Typed, Shape, Life, Kinds', Does
  PROVE  \A k \in Cards : card[k].st # "unmade" => UNCHANGED card[k].host
<1>1. SameMade \/ \E r \in Realms, g \in Nat : At("start", r, g) /\ \E c \in Cards :
        OtherCards(c) /\ card[c].st = "unmade" /\ card'[c].st = "made" /\ card'[c].host = r
  BY MadeFrom
<1> QED  BY <1>1 DEF SameMade, OtherCards

(* The cards let go of without a word are the page's.                      *)
LEMMA VoidsKept ==
  ASSUME Typed, Shape, Resting, Life, Links, Voids, Kinds', Does
  PROVE  Voids'
<1>1. entry = "ended" => entry' = "ended"
  BY EndedStays
<1>2. \A x \in Within(stack') : Void(x) => x[2] = Page /\ entry' = "ended"
  <2>1. \A x \in Within(stack') : Void(x) => x \in Within(stack) \/ (x[2] = Page /\ entry' = "ended")
    BY NewVoid
  <2> QED  BY <1>1, <2>1 DEF Voids
<1>3. ASSUME NEW k \in Cards, card'[k].done = "nothing" PROVE card'[k].host = Page /\ entry' = "ended"
  <2>1. CASE card[k].done = "nothing"
    <3>1. card[k].host = Page /\ entry = "ended" /\ card[k].st # "unmade"
      BY <2>1 DEF Voids, Typed, Made
    <3> QED  BY <1>1, <3>1, HostStays
  <2>2. CASE card[k].done # "nothing"
    <3>1. PICK r \in Realms, d \in Conts, c \in Cards : Disposes(r, d, c)
      <4>1. CASE Quick
        BY <1>3, <2>2, <4>1 DEF Quick
      <4>2. ASSUME NEW c \in Cards, DisposeStep(c) PROVE FALSE
        BY <1>3, <2>2, <4>2 DEF DisposeStep, OtherCards
      <4> QED  BY <4>1, <4>2, LettingGo
    <3>2. k = c /\ d = "nothing"
      BY <1>3, <2>2, <3>1 DEF Disposes, OtherCards
    <3>3. <<"close", r, "nothing">> \in Within(stack)
      BY <3>1, <3>2, AtFacts DEF Disposes
    <3>4. r = Page /\ entry = "ended"
      BY <3>3 DEF Voids, Void
    <3>5. card[k].host = r
      BY <3>1, <3>2 DEF Disposes, Typed, Made
    <3>6. card'[k].host = r
      BY <3>1, <3>2, <3>5 DEF Disposes
    <3> QED  BY <1>1, <3>4, <3>6
  <2> QED  BY <2>1, <2>2
<1> QED  BY <1>2, <1>3 DEF Voids

(* A view's end begins with the page's frame.                              *)
LEMMA BeginEnds ==
  ASSUME Typed, Resting, BeginStep
  PROVE  (\A x \in jobs' : x[1] = "closeRealm") /\ \E S \in SUBSET Cards : Ending(S)'
<1>1. jobs' = {}
  BY DEF BeginStep, Resting
<1>2. Within(stack') = (IF frame[Page].loaded THEN {<<"close", Page, "nothing">>} ELSE {})
              \cup {<<"askPage", Page, 0>>}
  BY BeginStack
<1>3. Ending({})'
  BY <1>2 DEF Ending, EndCalls
<1> QED  BY <1>1, <1>3

(* The calls of an ended view's steps are of the cards it lets go of.      *)
LEMMA EndSame ==
  ASSUME NEW S \in SUBSET Cards, Ending(S),
         \A x \in Within(stack') : x \in Within(stack) \/ (x[1] \in EndCalls \ {"close"} /\ x[2] \in S \cup {Page}),
         \A k \in Cards : UNCHANGED <<card[k].done, card[k].host>>
  PROVE  Ending(S)'
<1>1. \A x \in Within(stack') : x[1] \in EndCalls /\ (x[1] = "close" => x[3] # "reset") /\ x[2] \in S \cup {Page}
  BY DEF Ending
<1>2. \A c \in S : card'[c].done # "reset" /\ card'[c].host \in S \cup {Page}
  BY DEF Ending
<1> QED  BY <1>1, <1>2 DEF Ending, EndCalls

(* The cards it lets go of are those under the page's, as far as it has    *)
(* come.                                                                   *)
LEMMA EndsOn ==
  ASSUME Typed, Shape, Flags, Links, Ends, Kinds', EndStep, NEW S \in SUBSET Cards, Ending(S)
  PROVE  \E T \in SUBSET Cards : Ending(T)'
<1>1. ASSUME NEW r \in Realms, NEW d \in Conts, CloseStep(r, d) PROVE \E T \in SUBSET Cards : Ending(T)'
  <2>1. At("close", r, d) /\ <<"close", r, d>> \in Within(stack) /\ \A x \in Within(Pop) : x \in Within(stack)
    BY <1>1, AtFacts DEF CloseStep
  <2>2. r \in S \cup {Page} /\ d # "reset"
    BY <2>1 DEF Ending
  <2>3. CASE Pushed(<<d, r, 0>>, Pop) /\ UNCHANGED card
    <3>1. d \in EndCalls \ {"close"}
      BY <2>2 DEF Conts, EndCalls
    <3>2. \A x \in Within(stack') : x \in Within(stack) \/ (x[1] \in EndCalls \ {"close"} /\ x[2] \in S \cup {Page})
      BY <2>1, <2>2, <2>3, <3>1 DEF Pushed
    <3>3. Ending(S)'
      BY <2>3, <3>2, EndSame
    <3> QED  BY <3>3
  <2>4. ASSUME NEW c \in Cards, frame[r].dispose = c, Pushed(<<"dispose", c, 0>>, Pop), OtherCards(c), card'[c].done = d,
               UNCHANGED card[c].host
        PROVE  \E T \in SUBSET Cards : Ending(T)'
    <3>1. card[c].host = r
      BY <2>4 DEF Typed, Made
    <3>2. \A x \in Within(stack') : x[1] \in EndCalls /\ (x[1] = "close" => x[3] # "reset") /\ x[2] \in S \cup {c} \cup {Page}
      BY <2>1, <2>4 DEF Pushed, Ending, EndCalls
    <3>3. \A k \in S \cup {c} : card'[k].done # "reset" /\ card'[k].host \in S \cup {c} \cup {Page}
      BY <2>2, <2>4, <3>1 DEF Ending, OtherCards
    <3>4. Ending(S \cup {c})'
      BY <3>2, <3>3 DEF Ending, EndCalls
    <3>5. S \cup {c} \in SUBSET Cards
      OBVIOUS
    <3> QED  BY <3>4, <3>5
  <2> QED  BY <1>1, <2>3, <2>4 DEF CloseStep
<1>2. ASSUME NEW r \in Realms, IdleStep(r) PROVE Ending(S)'
  <2>1. \A x \in Within(stack') : x \in Within(stack)
    <3>1. \A x \in Within(Pop) : x \in Within(stack)
      BY <1>2, AtFacts DEF IdleStep
    <3> QED  BY <1>2, <3>1 DEF IdleStep
  <2> QED  BY <1>2, <2>1, EndSame DEF IdleStep
<1>3. ASSUME NEW c \in Cards, DisposeStep(c) PROVE Ending(S)'
  <2>1. At("dispose", c, 0) /\ <<"dispose", c, 0>> \in Within(stack) /\ \A x \in Within(Pop) : x \in Within(stack)
    BY <1>3, AtFacts DEF DisposeStep
  <2>2. c \in S \cup {Page}
    BY <2>1 DEF Ending
  <2>3. PICK j \in {"records", "arrive"} :
           Within(stack') = (IF frame[c].loaded THEN {<<"close", c, "frames">>} ELSE {})
                \cup {<<"owing", c, 0>>, <<"frames", c, 0>>, <<j, c, 0>>} \cup Within(Pop)
    BY <1>3, DisposeStack
  <2>4. \A x \in Within(stack') : x[1] \in EndCalls /\ (x[1] = "close" => x[3] # "reset") /\ x[2] \in S \cup {Page}
    BY <2>1, <2>2, <2>3 DEF Ending, EndCalls
  <2>5. \A k \in S : card'[k].done # "reset" /\ card'[k].host \in S \cup {Page}
    BY ZenonT(60), <1>3 DEF DisposeStep, OtherCards, Ending
  <2> QED  BY <2>4, <2>5 DEF Ending, EndCalls
<1>4. ASSUME NEW c \in Cards, OwingStep(c) PROVE Ending(S)'
  <2>1. \A x \in Within(stack') : x \in Within(stack)
    <3>1. \A x \in Within(Pop) : x \in Within(stack)
      BY <1>4, AtFacts DEF OwingStep
    <3> QED  BY <1>4, <3>1 DEF OwingStep
  <2>2. \A k \in Cards : UNCHANGED <<card[k].done, card[k].host>>
    BY <1>4 DEF OwingStep, OtherCards
  <2> QED  BY <2>1, <2>2, EndSame
<1>5. ASSUME NEW c \in Cards, FramesStep(c) PROVE Ending(S)'
  <2>1. At("frames", c, 0) /\ <<"frames", c, 0>> \in Within(stack) /\ \A x \in Within(Pop) : x \in Within(stack)
    BY <1>5, AtFacts DEF FramesStep
  <2>2. \A x \in Within(stack') : x \in Within(Pop) \/ x = <<"arrive", c, 0>>
    BY <1>5 DEF FramesStep, Pushed
  <2>3. \A x \in Within(stack') : x \in Within(stack) \/ (x[1] \in EndCalls \ {"close"} /\ x[2] \in S \cup {Page})
    BY <2>1, <2>2 DEF Ending, EndCalls
  <2>4. \A k \in Cards : UNCHANGED <<card[k].done, card[k].host>>
    BY <1>5 DEF FramesStep, OtherCards
  <2> QED  BY <2>3, <2>4, EndSame
<1>6. ASSUME NEW c \in Cards, RecordsStep(c) PROVE Ending(S)'
  <2>1. \A x \in Within(stack') : x \in Within(stack)
    <3>1. \A x \in Within(Pop) : x \in Within(stack)
      BY <1>6, AtFacts DEF RecordsStep
    <3> QED  BY <1>6, <3>1 DEF RecordsStep
  <2>2. \A k \in Cards : UNCHANGED <<card[k].done, card[k].host>>
    BY <1>6 DEF RecordsStep, OtherCards
  <2> QED  BY <2>1, <2>2, EndSame
<1>7. ASSUME NEW c \in Cards, ArriveStep(c) PROVE Ending(S)'
  <2>1. At("arrive", c, 0) /\ <<"arrive", c, 0>> \in Within(stack) /\ \A x \in Within(Pop) : x \in Within(stack)
    BY <1>7, AtFacts DEF ArriveStep
  <2>2. c \in S
    <3>1. c \in S \cup {Page}
      BY <2>1 DEF Ending
    <3> QED  BY <3>1, AnItem
  <2>3. card[c].done \in {"frames", "nothing"} /\ card[c].host \in S \cup {Page}
    <3>1. card[c].done # "reset" /\ card[c].host \in S \cup {Page}
      BY <2>2 DEF Ending
    <3>2. card[c].disposed
      BY <2>1, LateCall
    <3>3. card[c].done # "none"
      BY <3>2 DEF Flags
    <3> QED  BY <3>1, <3>3 DEF Typed, Kinds, CardRec, Dones, Conts
  <2>4. \A x \in Within(stack') : x \in Within(Pop) \/ x = <<card[c].done, card[c].host, 0>>
    BY <1>7 DEF ArriveStep, Pushed
  <2>5. \A x \in Within(stack') : x \in Within(stack) \/ (x[1] \in EndCalls \ {"close"} /\ x[2] \in S \cup {Page})
    BY <2>1, <2>3, <2>4 DEF EndCalls
  <2>6. \A k \in Cards : UNCHANGED <<card[k].done, card[k].host>>
    BY <1>7 DEF ArriveStep, OtherCards
  <2> QED  BY <2>5, <2>6, EndSame
<1>8. ASSUME NEW c \in Cards, CloseRealmStep(c) \/ AckStep(c) PROVE Ending(S)'
  <2>1. UNCHANGED stack /\ \A k \in Cards : UNCHANGED <<card[k].done, card[k].host>>
    BY <1>8 DEF CloseRealmStep, AckStep, OtherCards
  <2> QED  BY <2>1, EndSame
<1> QED  BY <1>1, <1>2, <1>3, <1>4, <1>5, <1>6, <1>7, <1>8 DEF EndStep

(* An ended view runs nothing but its disposal.                            *)
LEMMA EndsKept ==
  ASSUME Core, Ends, Kinds', Does
  PROVE  Ends'
<1>0. Typed /\ Shape /\ Resting /\ Flags /\ Links /\ Life
  BY DEF Core
<1>1. Voids'
  BY <1>0, VoidsKept DEF Ends
<1>2. ASSUME entry' = "ended"
      PROVE  (\A x \in jobs' : x[1] = "closeRealm") /\ \E S \in SUBSET Cards : Ending(S)'
  <2>1. CASE BeginStep
    BY <1>0, <2>1, BeginEnds
  <2>2. CASE entry = "ended"
    <3>1. EndStep
      BY <1>0, <2>2, EndSteps
    <3>2. \A x \in jobs' : x[1] = "closeRealm"
      <4>1. \A x \in jobs : x[1] = "closeRealm"
        BY <2>2 DEF Ends
      <4>2. \A x \in jobs' : x \in jobs \/ x[1] = "closeRealm"
        <5>1. ASSUME NEW r \in Realms, NEW d \in Conts, CloseStep(r, d) PROVE UNCHANGED jobs
          BY <5>1 DEF CloseStep
        <5>4. ASSUME NEW r \in Realms, IdleStep(r) PROVE UNCHANGED jobs
          BY SMTT(30), <5>4 DEF IdleStep
        <5>2. ASSUME NEW c \in Cards, DisposeStep(c) \/ OwingStep(c) \/ FramesStep(c) \/ RecordsStep(c) PROVE UNCHANGED jobs
          BY <5>2 DEF DisposeStep, OwingStep, FramesStep, RecordsStep
        <5>3. ASSUME NEW c \in Cards, ArriveStep(c) \/ CloseRealmStep(c) \/ AckStep(c)
              PROVE  jobs' \subseteq jobs \cup {<<"closeRealm", c, 0>>}
          BY <5>3 DEF ArriveStep, CloseRealmStep, AckStep
        <5> QED  BY <3>1, <5>1, <5>2, <5>3, <5>4 DEF EndStep
      <4> QED  BY <4>1, <4>2
    <3>3. PICK S \in SUBSET Cards : Ending(S)
      BY <2>2 DEF Ends
    <3> QED  BY <1>0, <3>1, <3>2, <3>3, EndsOn
  <2> QED  BY <1>0, <1>2, <2>1, <2>2, EndBegins
<1> QED  BY <1>1, <1>2 DEF Ends


-----------------------------------------------------------------------------
(* Debts, resets and pages: FreshPage.                                     *)

(* The steps that change what a frame owes.                                *)
LEMMA OwedSteps ==
  ASSUME Typed, Kinds', Does
  PROVE  \A q \in Realms : UNCHANGED frame[q].owed
            \/ (\E r \in Realms, s \in Srcs : SetSrcStep(r, s)) \/ \E r \in Realms : HearStep(r) \/ ResetStep(r)
<1> DEFINE Goal ==
  \A q \in Realms : UNCHANGED frame[q].owed
    \/ (\E r \in Realms, s \in Srcs : SetSrcStep(r, s)) \/ \E r \in Realms : HearStep(r) \/ ResetStep(r)
<1>1. ASSUME NEW r \in Realms, NEW s \in Srcs, SourceStep(r, s) PROVE Goal
  BY <1>1 DEF SourceStep, Others, SameLoads
<1>2. ASSUME NEW r \in Realms, NEW s \in Srcs, SetSrcStep(r, s) PROVE Goal
  BY SMTT(30), <1>2
<1>3. ASSUME NEW r \in Realms, NEW g \in Nat, StartStep(r, g) PROVE Goal
  BY <1>3 DEF StartStep, Others, SameLoads
<1>4. ASSUME NEW r \in Realms, NEW g \in Nat, RunStartStep(r, g) PROVE Goal
  BY <1>4 DEF RunStartStep, Others, SameLoads
<1>5. ASSUME NEW r \in Realms, NEW g \in Nat, FetchStep(r, g) PROVE Goal
  BY <1>5 DEF FetchStep, Others, SameLoads
<1>6. ASSUME NEW r \in Realms, NEW d \in Conts, d = "frames" => r \in Cards, CloseStep(r, d) PROVE Goal
  BY <1>6 DEF CloseStep, Others, SameLoads
<1>7. ASSUME NEW r \in Realms, ResetStep(r) PROVE Goal
  BY <1>7
<1>8. ASSUME NEW r \in Realms, IdleStep(r) PROVE Goal
  BY <1>8 DEF IdleStep, Others, SameLoads
<1>9. ASSUME NEW r \in Realms, HearStep(r) PROVE Goal
  BY <1>9
<1>10. ASSUME NEW r \in Realms, MoveStep(r) PROVE Goal
  BY <1>10 DEF MoveStep, Others, SameLoads
<1>11. ASSUME NEW c \in Cards, BootStep(c) PROVE Goal
  BY <1>11 DEF BootStep, Others, SameLoads
<1>12. ASSUME NEW c \in Cards, LoadedStep(c) PROVE Goal
  BY <1>12 DEF LoadedStep, Others, SameLoads
<1>13. ASSUME NEW c \in Cards, DisposeStep(c) PROVE Goal
  BY <1>13 DEF DisposeStep, Others, SameLoads
<1>14. ASSUME NEW c \in Cards, OwingStep(c) PROVE Goal
  BY <1>14 DEF OwingStep, Others, SameLoads
<1>15. ASSUME NEW c \in Cards, FramesStep(c) PROVE Goal
  BY <1>15 DEF FramesStep, Others, SameLoads
<1>16. ASSUME NEW c \in Cards, RecordsStep(c) PROVE Goal
  BY <1>16 DEF RecordsStep, Others, SameLoads
<1>17. ASSUME NEW c \in Cards, ArriveStep(c) PROVE Goal
  BY <1>17 DEF ArriveStep, Others, SameLoads
<1>18. ASSUME NEW c \in Cards, FlushStep(c) PROVE Goal
  BY <1>18 DEF FlushStep, Others, SameLoads
<1>19. ASSUME NEW c \in Cards, CloseRealmStep(c) PROVE Goal
  BY <1>19 DEF CloseRealmStep, Others, SameLoads
<1>20. ASSUME NEW c \in Cards, AckStep(c) PROVE Goal
  BY <1>20 DEF AckStep, Others, SameLoads
<1>21. ASSUME NEW c \in Cards, BtsStep(c) PROVE Goal
  BY <1>21 DEF BtsStep, Others, SameLoads
<1>22. ASSUME NEW c \in Cards, ObserveStep(c) PROVE Goal
  BY <1>22 DEF ObserveStep, Others, SameLoads
<1>23. CASE HeardStep
  BY <1>23 DEF HeardStep, Others, SameLoads
<1>24. CASE EpilogueStep
  BY <1>24 DEF EpilogueStep, Others, SameLoads
<1>25. CASE OpenStep
  BY <1>25 DEF OpenStep, Others, SameLoads
<1>26. CASE OpenEventsStep
  BY <1>26 DEF OpenEventsStep, Others, SameLoads
<1>27. CASE OpenRecordsStep
  BY <1>27 DEF OpenRecordsStep, Others, SameLoads
<1>28. CASE RecordStep
  BY <1>28 DEF RecordStep, Others, SameLoads
<1>29. CASE BeginStep
  BY <1>29 DEF BeginStep, Others, SameLoads
<1> QED  BY <1>1, <1>2, <1>3, <1>4, <1>5, <1>6, <1>7, <1>8, <1>9, <1>10, <1>11, <1>12, <1>13,
            <1>14, <1>15, <1>16, <1>17, <1>18, <1>19, <1>20, <1>21, <1>22, <1>23, <1>24, <1>25,
            <1>26, <1>27, <1>28, <1>29 DEF Does

(* A frame's load is the same or the next.                                 *)
LEMMA Gens ==
  ASSUME Typed, Kinds', Does
  PROVE  \A q \in Realms : frame'[q].gen = frame[q].gen \/ frame'[q].gen = frame[q].gen + 1
<1> DEFINE Goal == \A q \in Realms : frame'[q].gen = frame[q].gen \/ frame'[q].gen = frame[q].gen + 1
<1>1. ASSUME NEW r \in Realms, NEW s \in Srcs, SourceStep(r, s) PROVE Goal
  BY <1>1 DEF SourceStep, Others, SameLoads
<1>2. ASSUME NEW r \in Realms, NEW s \in Srcs, SetSrcStep(r, s) PROVE Goal
  BY SMTT(30), <1>2 DEF SetSrcStep, Others, SameLoads
<1>3. ASSUME NEW r \in Realms, NEW g \in Nat, StartStep(r, g) PROVE Goal
  BY <1>3 DEF StartStep, Others, SameLoads
<1>4. ASSUME NEW r \in Realms, NEW g \in Nat, RunStartStep(r, g) PROVE Goal
  BY <1>4 DEF RunStartStep, Others, SameLoads
<1>5. ASSUME NEW r \in Realms, NEW g \in Nat, FetchStep(r, g) PROVE Goal
  BY <1>5 DEF FetchStep, Others, SameLoads
<1>6. ASSUME NEW r \in Realms, NEW d \in Conts, d = "frames" => r \in Cards, CloseStep(r, d) PROVE Goal
  BY <1>6 DEF CloseStep, Others, SameLoads
<1>7. ASSUME NEW r \in Realms, ResetStep(r) PROVE Goal
  BY <1>7 DEF ResetStep, Others, SameLoads
<1>8. ASSUME NEW r \in Realms, IdleStep(r) PROVE Goal
  BY <1>8 DEF IdleStep, Others, SameLoads
<1>9. ASSUME NEW r \in Realms, HearStep(r) PROVE Goal
  BY <1>9 DEF HearStep, Others, SameLoads
<1>10. ASSUME NEW r \in Realms, MoveStep(r) PROVE Goal
  BY <1>10 DEF MoveStep, Others, SameLoads
<1>11. ASSUME NEW c \in Cards, BootStep(c) PROVE Goal
  BY <1>11 DEF BootStep, Others, SameLoads
<1>12. ASSUME NEW c \in Cards, LoadedStep(c) PROVE Goal
  BY <1>12 DEF LoadedStep, Others, SameLoads
<1>13. ASSUME NEW c \in Cards, DisposeStep(c) PROVE Goal
  BY <1>13 DEF DisposeStep, Others, SameLoads
<1>14. ASSUME NEW c \in Cards, OwingStep(c) PROVE Goal
  BY <1>14 DEF OwingStep, Others, SameLoads
<1>15. ASSUME NEW c \in Cards, FramesStep(c) PROVE Goal
  BY <1>15 DEF FramesStep, Others, SameLoads
<1>16. ASSUME NEW c \in Cards, RecordsStep(c) PROVE Goal
  BY <1>16 DEF RecordsStep, Others, SameLoads
<1>17. ASSUME NEW c \in Cards, ArriveStep(c) PROVE Goal
  BY <1>17 DEF ArriveStep, Others, SameLoads
<1>18. ASSUME NEW c \in Cards, FlushStep(c) PROVE Goal
  BY <1>18 DEF FlushStep, Others, SameLoads
<1>19. ASSUME NEW c \in Cards, CloseRealmStep(c) PROVE Goal
  BY <1>19 DEF CloseRealmStep, Others, SameLoads
<1>20. ASSUME NEW c \in Cards, AckStep(c) PROVE Goal
  BY <1>20 DEF AckStep, Others, SameLoads
<1>21. ASSUME NEW c \in Cards, BtsStep(c) PROVE Goal
  BY <1>21 DEF BtsStep, Others, SameLoads
<1>22. ASSUME NEW c \in Cards, ObserveStep(c) PROVE Goal
  BY <1>22 DEF ObserveStep, Others, SameLoads
<1>23. CASE HeardStep
  BY <1>23 DEF HeardStep, Others, SameLoads
<1>24. CASE EpilogueStep
  BY <1>24 DEF EpilogueStep, Others, SameLoads
<1>25. CASE OpenStep
  BY <1>25 DEF OpenStep, Others, SameLoads
<1>26. CASE OpenEventsStep
  BY <1>26 DEF OpenEventsStep, Others, SameLoads
<1>27. CASE OpenRecordsStep
  BY <1>27 DEF OpenRecordsStep, Others, SameLoads
<1>28. CASE RecordStep
  BY <1>28 DEF RecordStep, Others, SameLoads
<1>29. CASE BeginStep
  BY <1>29 DEF BeginStep, Others, SameLoads
<1> QED  BY <1>1, <1>2, <1>3, <1>4, <1>5, <1>6, <1>7, <1>8, <1>9, <1>10, <1>11, <1>12, <1>13,
            <1>14, <1>15, <1>16, <1>17, <1>18, <1>19, <1>20, <1>21, <1>22, <1>23, <1>24, <1>25,
            <1>26, <1>27, <1>28, <1>29 DEF Does

(* A close on top runs next.                                               *)
LEMMA CloseRuns ==
  ASSUME Typed, Resting, Kinds', Does, stack # <<>>, Top[1] = "close"
  PROVE  \E r \in Realms, d \in Conts : CloseStep(r, d)
<1> DEFINE Goal == \E r \in Realms, d \in Conts : CloseStep(r, d)
<1>1. ASSUME NEW r \in Realms, NEW s \in Srcs, SourceStep(r, s) PROVE Goal
  BY <1>1 DEF SourceStep, At, AppRuns, Resting
<1>2. ASSUME NEW r \in Realms, NEW s \in Srcs, SetSrcStep(r, s) PROVE Goal
  BY SMTT(30), <1>2 DEF SetSrcStep, At, AppRuns, Resting
<1>3. ASSUME NEW r \in Realms, NEW g \in Nat, StartStep(r, g) PROVE Goal
  BY <1>3 DEF StartStep, At, AppRuns, Resting
<1>4. ASSUME NEW r \in Realms, NEW g \in Nat, RunStartStep(r, g) PROVE Goal
  BY <1>4 DEF RunStartStep, At, AppRuns, Resting
<1>5. ASSUME NEW r \in Realms, NEW g \in Nat, FetchStep(r, g) PROVE Goal
  BY <1>5 DEF FetchStep, At, AppRuns, Resting
<1>6. ASSUME NEW r \in Realms, NEW d \in Conts, d = "frames" => r \in Cards, CloseStep(r, d) PROVE Goal
  BY <1>6
<1>7. ASSUME NEW r \in Realms, ResetStep(r) PROVE Goal
  BY <1>7 DEF ResetStep, At, AppRuns, Resting
<1>8. ASSUME NEW r \in Realms, IdleStep(r) PROVE Goal
  BY <1>8 DEF IdleStep, At, AppRuns, Resting
<1>9. ASSUME NEW r \in Realms, HearStep(r) PROVE Goal
  BY <1>9 DEF HearStep, At, AppRuns, Resting
<1>10. ASSUME NEW r \in Realms, MoveStep(r) PROVE Goal
  BY <1>10 DEF MoveStep, At, AppRuns, Resting
<1>11. ASSUME NEW c \in Cards, BootStep(c) PROVE Goal
  BY <1>11 DEF BootStep, At, AppRuns, Resting
<1>12. ASSUME NEW c \in Cards, LoadedStep(c) PROVE Goal
  BY <1>12 DEF LoadedStep, At, AppRuns, Resting
<1>13. ASSUME NEW c \in Cards, DisposeStep(c) PROVE Goal
  BY <1>13 DEF DisposeStep, At, AppRuns, Resting
<1>14. ASSUME NEW c \in Cards, OwingStep(c) PROVE Goal
  BY <1>14 DEF OwingStep, At, AppRuns, Resting
<1>15. ASSUME NEW c \in Cards, FramesStep(c) PROVE Goal
  BY <1>15 DEF FramesStep, At, AppRuns, Resting
<1>16. ASSUME NEW c \in Cards, RecordsStep(c) PROVE Goal
  BY <1>16 DEF RecordsStep, At, AppRuns, Resting
<1>17. ASSUME NEW c \in Cards, ArriveStep(c) PROVE Goal
  BY <1>17 DEF ArriveStep, At, AppRuns, Resting
<1>18. ASSUME NEW c \in Cards, FlushStep(c) PROVE Goal
  BY <1>18 DEF FlushStep, At, AppRuns, Resting
<1>19. ASSUME NEW c \in Cards, CloseRealmStep(c) PROVE Goal
  BY <1>19 DEF CloseRealmStep, At, AppRuns, Resting
<1>20. ASSUME NEW c \in Cards, AckStep(c) PROVE Goal
  BY <1>20 DEF AckStep, At, AppRuns, Resting
<1>21. ASSUME NEW c \in Cards, BtsStep(c) PROVE Goal
  BY <1>21 DEF BtsStep, At, AppRuns, Resting
<1>22. ASSUME NEW c \in Cards, ObserveStep(c) PROVE Goal
  BY <1>22 DEF ObserveStep, At, AppRuns, Resting
<1>23. CASE HeardStep
  BY <1>23 DEF HeardStep, At, AppRuns, Resting
<1>24. CASE EpilogueStep
  BY <1>24 DEF EpilogueStep, At, AppRuns, Resting
<1>25. CASE OpenStep
  BY <1>25 DEF OpenStep, At, AppRuns, Resting
<1>26. CASE OpenEventsStep
  BY <1>26 DEF OpenEventsStep, At, AppRuns, Resting
<1>27. CASE OpenRecordsStep
  BY <1>27 DEF OpenRecordsStep, At, AppRuns, Resting
<1>28. CASE RecordStep
  BY <1>28 DEF RecordStep, At, AppRuns, Resting
<1>29. CASE BeginStep
  BY <1>29 DEF BeginStep, At, AppRuns, Resting
<1> QED  BY <1>1, <1>2, <1>3, <1>4, <1>5, <1>6, <1>7, <1>8, <1>9, <1>10, <1>11, <1>12, <1>13,
            <1>14, <1>15, <1>16, <1>17, <1>18, <1>19, <1>20, <1>21, <1>22, <1>23, <1>24, <1>25,
            <1>26, <1>27, <1>28, <1>29 DEF Does

(* A boot is queued by start alone.                                        *)
LEMMA BootFrom ==
  ASSUME Typed, Resting, Kinds', Does
  PROVE  NoBoot \/ \E r \in Realms, g \in Nat : StartStep(r, g)
<1> DEFINE Goal == NoBoot \/ \E r \in Realms, g \in Nat : StartStep(r, g)
<1>1. ASSUME NEW r \in Realms, NEW s \in Srcs, SourceStep(r, s) PROVE Goal
  <2>1. \A k \in Cards : <<"boot", k, 0>> # <<"start", r, frame[r].gen + 1>>
    OBVIOUS
  <2> QED  BY <1>1, <2>1 DEF SourceStep, NoBoot
<1>2. ASSUME NEW r \in Realms, NEW s \in Srcs, SetSrcStep(r, s) PROVE Goal
  BY <1>2 DEF SetSrcStep, NoBoot
<1>3. ASSUME NEW r \in Realms, NEW g \in Nat, StartStep(r, g) PROVE Goal
  BY <1>3
<1>4. ASSUME NEW r \in Realms, NEW g \in Nat, RunStartStep(r, g) PROVE Goal
  BY <1>4 DEF RunStartStep, NoBoot
<1>5. ASSUME NEW r \in Realms, NEW g \in Nat, FetchStep(r, g) PROVE Goal
  BY <1>5 DEF FetchStep, NoBoot
<1>6. ASSUME NEW r \in Realms, NEW d \in Conts, d = "frames" => r \in Cards, CloseStep(r, d) PROVE Goal
  BY <1>6 DEF CloseStep, NoBoot
<1>7. ASSUME NEW r \in Realms, ResetStep(r) PROVE Goal
  BY <1>7 DEF ResetStep, NoBoot
<1>8. ASSUME NEW r \in Realms, IdleStep(r) PROVE Goal
  BY <1>8 DEF IdleStep, NoBoot
<1>9. ASSUME NEW r \in Realms, HearStep(r) PROVE Goal
  BY <1>9 DEF HearStep, NoBoot
<1>10. ASSUME NEW r \in Realms, MoveStep(r) PROVE Goal
  BY <1>10 DEF MoveStep, NoBoot
<1>11. ASSUME NEW c \in Cards, BootStep(c) PROVE Goal
  BY <1>11 DEF BootStep, NoBoot
<1>12. ASSUME NEW c \in Cards, LoadedStep(c) PROVE Goal
  BY <1>12 DEF LoadedStep, NoBoot
<1>13. ASSUME NEW c \in Cards, DisposeStep(c) PROVE Goal
  BY <1>13 DEF DisposeStep, NoBoot
<1>14. ASSUME NEW c \in Cards, OwingStep(c) PROVE Goal
  BY <1>14 DEF OwingStep, NoBoot
<1>15. ASSUME NEW c \in Cards, FramesStep(c) PROVE Goal
  BY <1>15 DEF FramesStep, NoBoot
<1>16. ASSUME NEW c \in Cards, RecordsStep(c) PROVE Goal
  BY <1>16 DEF RecordsStep, NoBoot
<1>17. ASSUME NEW c \in Cards, ArriveStep(c) PROVE Goal
  BY <1>17 DEF ArriveStep, NoBoot
<1>18. ASSUME NEW c \in Cards, FlushStep(c) PROVE Goal
  BY <1>18 DEF FlushStep, NoBoot
<1>19. ASSUME NEW c \in Cards, CloseRealmStep(c) PROVE Goal
  BY <1>19 DEF CloseRealmStep, NoBoot
<1>20. ASSUME NEW c \in Cards, AckStep(c) PROVE Goal
  BY <1>20 DEF AckStep, NoBoot
<1>21. ASSUME NEW c \in Cards, BtsStep(c) PROVE Goal
  BY <1>21 DEF BtsStep, NoBoot
<1>22. ASSUME NEW c \in Cards, ObserveStep(c) PROVE Goal
  BY <1>22 DEF ObserveStep, NoBoot
<1>23. CASE HeardStep
  BY <1>23 DEF HeardStep, NoBoot
<1>24. CASE EpilogueStep
  BY <1>24 DEF EpilogueStep, NoBoot
<1>25. CASE OpenStep
  BY <1>25 DEF OpenStep, NoBoot
<1>26. CASE OpenEventsStep
  BY <1>26 DEF OpenEventsStep, NoBoot
<1>27. CASE OpenRecordsStep
  BY <1>27 DEF OpenRecordsStep, NoBoot
<1>28. CASE RecordStep
  <2>1. \A x \in jobs' : \E k \in Cards : x = <<"flush", k, 0>>
    BY <1>28 DEF RecordStep
  <2> QED  BY <2>1 DEF NoBoot
<1>29. CASE BeginStep
  BY <1>29 DEF BeginStep, NoBoot
<1> QED  BY <1>1, <1>2, <1>3, <1>4, <1>5, <1>6, <1>7, <1>8, <1>9, <1>10, <1>11, <1>12, <1>13,
            <1>14, <1>15, <1>16, <1>17, <1>18, <1>19, <1>20, <1>21, <1>22, <1>23, <1>24, <1>25,
            <1>26, <1>27, <1>28, <1>29 DEF Does

(* Nothing is paid that was not owed.                                      *)
OwedNat == \A r \in Realms : frame[r].owed >= 0
(* A frame whose card is about to boot owes nothing.                       *)
Free(r) == frame[r].owed = 0 \/ (stack # <<>> /\ Top[1] = "close" /\ Top[2] = r)
BootOwes == \A c \in Cards : <<"boot", c, 0>> \in jobs /\ Current(c) => Free(card[c].host)

(* A reset called for is owed.                                             *)
LEMMA ResetOwed ==
  ASSUME Typed, Shape, Life, Counts, NEW r \in Realms, At("reset", r, 0)
  PROVE  frame[r].owed >= 1 /\ frame[r].owed \in Int /\ OwedAt(r)
<1>1. Alive(r)
  BY CallAlive
<1>2. OwedAt(r)
  BY <1>1 DEF Counts, Stays, Alive
<1>3. If(<<"reset", r, 0>>, Resets(r)) = 1
  BY Weights
<1>4. Count(stack, Resets(r)) = If(<<"reset", r, 0>>, Resets(r)) + Count(Pop, Resets(r)) /\ Count(Pop, Resets(r)) \in Nat
  BY TopCounts
<1>5. Cardinality(Hosted(r, "reset")) \in Nat
  BY HostedNat
<1> QED  BY <1>2, <1>3, <1>4, <1>5 DEF OwedAt

(* Each debt is paid once.                                                 *)
LEMMA OwedNatKept ==
  ASSUME Typed, Shape, Life, Counts, OwedNat, Kinds', Does
  PROVE  OwedNat'
<1>1. CASE \A q \in Realms : UNCHANGED frame[q].owed
  BY <1>1 DEF OwedNat
<1>2. ASSUME NEW r \in Realms, NEW s \in Srcs, SetSrcStep(r, s) PROVE OwedNat'
  <2>1. \A q \in Realms : frame'[q].owed = frame[q].owed \/ frame'[q].owed = frame[q].owed + 1
    BY <1>2 DEF SetSrcStep, Others
  <2>2. \A q \in Realms : frame[q].owed \in Int
    BY DEF Typed, Kinds, FrameRec
  <2> QED  BY <2>1, <2>2 DEF OwedNat
<1>3. ASSUME NEW r \in Realms, HearStep(r) PROVE OwedNat'
  <2>1. \A q \in Realms : frame'[q].owed = frame[q].owed \/ frame'[q].owed = frame[q].owed + 1
    BY <1>3 DEF HearStep, Others
  <2>2. \A q \in Realms : frame[q].owed \in Int
    BY DEF Typed, Kinds, FrameRec
  <2> QED  BY <2>1, <2>2 DEF OwedNat
<1>4. ASSUME NEW r \in Realms, ResetStep(r) PROVE OwedNat'
  <2>1. frame[r].owed >= 1 /\ frame[r].owed \in Int
    BY <1>4, ResetOwed DEF ResetStep
  <2>2. \A q \in Realms : q # r => UNCHANGED frame[q].owed
    BY <1>4 DEF ResetStep
  <2>3. frame'[r].owed = frame[r].owed - 1
    BY <1>4 DEF ResetStep
  <2> QED  BY <2>1, <2>2, <2>3 DEF OwedNat
<1> QED  BY <1>1, <1>2, <1>3, <1>4, OwedSteps

(* While jobs run, no frame that owes nothing comes to owe but by a close  *)
(* in progress.                                                            *)
LEMMA FreeStays ==
  ASSUME Typed, Shape, Resting, Life, Counts, Kinds', Does, NEW r \in Realms, Free(r), frame'[r].gen = frame[r].gen,
         jobs # {}
  PROVE  Free(r)'
<1>1. frame[r].owed = 0
  <2>1. ASSUME stack # <<>>, Top[1] = "close", Top[2] = r PROVE FALSE
    <3>1. PICK q \in Realms, d \in Conts : CloseStep(q, d)
      BY <2>1, CloseRuns
    <3>2. q = r
      BY <2>1, <3>1 DEF CloseStep, At
    <3>3. frame[r].gen \in Nat
      BY DEF Typed, Kinds, FrameRec
    <3> QED  BY <3>1, <3>2, <3>3 DEF CloseStep
  <2> QED  BY <2>1 DEF Free
<1>2. CASE \A q \in Realms : UNCHANGED frame[q].owed
  BY <1>1, <1>2 DEF Free
<1>3. ASSUME NEW q \in Realms, NEW s \in Srcs, SetSrcStep(q, s) PROVE Free(r)'
  <2>1. CASE frame[q].src # NoSrc /\ q = r
    <3>1. stack' # <<>> /\ Top' = <<"close", r, "reset">>
      BY <1>3, <2>1, SetSrcStack
    <3> QED  BY <3>1 DEF Free
  <2>2. CASE ~(frame[q].src # NoSrc /\ q = r)
    BY <1>1, <1>3, <2>2 DEF SetSrcStep, Others, Free
  <2> QED  BY <2>1, <2>2
<1>4. ASSUME NEW q \in Realms, HearStep(q) PROVE Free(r)'
  BY <1>4 DEF HearStep, Resting
<1>5. ASSUME NEW q \in Realms, ResetStep(q) PROVE Free(r)'
  <2>1. frame[q].owed >= 1
    BY <1>5, ResetOwed DEF ResetStep
  <2>2. q # r
    BY <1>1, <2>1
  <2> QED  BY <1>1, <1>5, <2>2 DEF ResetStep, Free
<1> QED  BY <1>2, <1>3, <1>4, <1>5, OwedSteps

(* A start that owes its reset makes no card.                              *)
LEMMA BootOwesKept ==
  ASSUME Core, Counts, OwedNat, BootOwes, Kinds', Does
  PROVE  BootOwes'
<1>0. Typed /\ Shape /\ Resting /\ Life /\ Tokens /\ BootJobs
  BY DEF Core
<1>1. ASSUME NEW c \in Cards, <<"boot", c, 0>> \in jobs', Current(c)' PROVE Free(card[c].host)'
  <2>1. CASE <<"boot", c, 0>> \in jobs
    <3>1. card[c].st # "unmade"
      BY <1>0, <2>1 DEF BootJobs
    <3>2. UNCHANGED <<card[c].host, card[c].gen>>
      <4>1. SameMade \/ \E r \in Realms, g \in Nat : At("start", r, g) /\ \E k \in Cards :
              OtherCards(k) /\ card[k].st = "unmade" /\ card'[k].st = "made" /\ card'[k].host = r
        BY <1>0, MadeFrom
      <4> QED  BY <3>1, <4>1 DEF SameMade, OtherCards
    <3> PICK r \in Realms : r = card[c].host
      BY <1>0, HostFacts
    <3>3. card[c].gen <= frame[r].gen /\ card[c].gen \in Nat /\ frame[r].gen \in Nat
      BY <1>0, <3>1, MadeGen, HostFacts
    <3>4. card[c].gen = frame'[r].gen
      BY <1>1, <3>2 DEF Current
    <3>5. frame'[r].gen = frame[r].gen
      <4>1. frame'[r].gen = frame[r].gen \/ frame'[r].gen = frame[r].gen + 1
        BY <1>0, Gens
      <4> QED  BY <3>3, <3>4, <4>1
    <3>6. Free(r)
      BY <2>1, <3>4, <3>5 DEF BootOwes, Current
    <3>7. Free(r)'
      BY <1>0, <2>1, <3>5, <3>6, FreeStays
    <3> QED  BY <3>2, <3>7 DEF Free
  <2>2. CASE <<"boot", c, 0>> \notin jobs
    <3>1. PICK r \in Realms, g \in Nat : StartStep(r, g)
      <4>1. ~NoBoot
        BY SMTT(30), <1>1, <2>2 DEF NoBoot
      <4> QED  BY <1>0, <4>1, BootFrom
    <3>2. ~(frame[r].owed > 0) /\ card'[c].host = r /\ UNCHANGED frame[r].owed
      BY <1>1, <2>2, <3>1 DEF StartStep
    <3>3. frame[r].owed = 0
      <4>1. frame[r].owed \in Int /\ frame[r].owed >= 0
        BY <1>0 DEF Typed, Kinds, FrameRec, OwedNat
      <4> QED  BY <3>2, <4>1
    <3>4. Free(r)'
      BY <3>2, <3>3 DEF Free
    <3> QED  BY <3>2, <3>4 DEF Free
  <2> QED  BY <2>1, <2>2
<1> QED  BY <1>1 DEF BootOwes

(* A card's page is its frame's, or about to be reset with it.             *)
Excused(r) == frame[r].late \/ frame[r].owed > 0 \/ LetGo(r) \/ (entry = "ended" /\ r = Page)
Rooted(c) == /\ FrameLives(card[c].host)
             /\ frame[card[c].host].dispose = c \/ Excused(card[c].host)
             /\ card[c].done = "none" => frame[card[c].host].dispose = c
Alone == \A c, d \in Cards : card[c].root /\ card[d].root /\ card[c].host = card[d].host
                               => c = d \/ frame[card[c].host].late
Roots == (\A c \in Cards : card[c].root => Rooted(c)) /\ Alone

(* A step that builds no page and takes none down.                         *)
Grounded == /\ \A k \in Cards : /\ card'[k].root <=> card[k].root
                                /\ card[k].root => UNCHANGED card[k].host
                                /\ UNCHANGED card[k].done /\ (card[k].disposed => card'[k].disposed)
            /\ \A q \in Realms : /\ UNCHANGED frame[q].dispose /\ (frame[q].late => frame'[q].late)
                                 /\ frame[q].owed > 0 => frame'[q].owed > 0

(* The steps that may.                                                     *)
Uproots == \/ \E r \in Realms, d \in Conts : CloseStep(r, d) /\ (d = "frames" => r \in Cards)
           \/ \E r \in Realms : ResetStep(r)
           \/ \E c \in Cards : BootStep(c)

(* Who has a page had begun to boot.                                       *)
LEMMA RootMade ==
  ASSUME Runs, Flags, NEW c \in Cards, card[c].root
  PROVE  card[c].st \notin {"unmade", "made"}
<1>1. Ran(c)
  BY DEF Runs
<1>2. card[c].disposed => card[c].done # "none"
  BY DEF Flags
<1>3. card[c].done # "none" => card[c].st \notin {"unmade", "made"}
  BY DEF Flags
<1> QED  BY <1>1, <1>2, <1>3, AnItem DEF Ran

(* The others do not.                                                      *)
LEMMA GroundedOrNot ==
  ASSUME Typed, Runs, Flags, Kinds', Does
  PROVE  Grounded \/ Uproots
<1>1. ASSUME NEW r \in Realms, NEW s \in Srcs, SourceStep(r, s) PROVE Grounded \/ Uproots
  <2>1. \A k \in Cards : /\ card'[k].root <=> card[k].root
                         /\ card[k].root => UNCHANGED card[k].host
                         /\ UNCHANGED card[k].done /\ (card[k].disposed => card'[k].disposed)
    BY <1>1 DEF SourceStep, OtherCards, Freeing
  <2>2. \A q \in Realms : /\ UNCHANGED frame[q].dispose /\ (frame[q].late => frame'[q].late)
                          /\ frame[q].owed > 0 => frame'[q].owed > 0
    BY <1>1 DEF SourceStep, Others
  <2> QED  BY <2>1, <2>2 DEF Grounded
<1>2. ASSUME NEW r \in Realms, NEW s \in Srcs, SetSrcStep(r, s) PROVE Grounded \/ Uproots
  <2>1. \A k \in Cards : /\ card'[k].root <=> card[k].root
                         /\ card[k].root => UNCHANGED card[k].host
                         /\ UNCHANGED card[k].done /\ (card[k].disposed => card'[k].disposed)
    BY <1>2 DEF SetSrcStep, OtherCards, Freeing
  <2>2. \A q \in Realms : /\ UNCHANGED frame[q].dispose /\ (frame[q].late => frame'[q].late)
                          /\ frame[q].owed > 0 => frame'[q].owed > 0
    <3>1. \A q \in Realms : frame[q].owed \in Int
      BY DEF Typed, Kinds, FrameRec
    <3> QED  BY <1>2, <3>1 DEF SetSrcStep, Others
  <2> QED  BY <2>1, <2>2 DEF Grounded
<1>3. ASSUME NEW r \in Realms, NEW g \in Nat, StartStep(r, g) PROVE Grounded \/ Uproots
  <2>1. \A k \in Cards : /\ card'[k].root <=> card[k].root
                         /\ card[k].root => UNCHANGED card[k].host
                         /\ UNCHANGED card[k].done /\ (card[k].disposed => card'[k].disposed)
    <3>1. \A k \in Cards : card[k].root => card[k].st # "unmade"
      BY SMTT(30), RootMade
    <3> QED  BY <1>3, <3>1 DEF StartStep, OtherCards
  <2>2. \A q \in Realms : /\ UNCHANGED frame[q].dispose /\ (frame[q].late => frame'[q].late)
                          /\ frame[q].owed > 0 => frame'[q].owed > 0
    BY <1>3 DEF StartStep, Others
  <2> QED  BY SMTT(30), <2>1, <2>2 DEF Grounded
<1>4. ASSUME NEW r \in Realms, NEW g \in Nat, RunStartStep(r, g) PROVE Grounded \/ Uproots
  <2>1. \A k \in Cards : /\ card'[k].root <=> card[k].root
                         /\ card[k].root => UNCHANGED card[k].host
                         /\ UNCHANGED card[k].done /\ (card[k].disposed => card'[k].disposed)
    BY <1>4 DEF RunStartStep, OtherCards, Freeing
  <2>2. \A q \in Realms : /\ UNCHANGED frame[q].dispose /\ (frame[q].late => frame'[q].late)
                          /\ frame[q].owed > 0 => frame'[q].owed > 0
    BY <1>4 DEF RunStartStep, Others
  <2> QED  BY <2>1, <2>2 DEF Grounded
<1>5. ASSUME NEW r \in Realms, NEW g \in Nat, FetchStep(r, g) PROVE Grounded \/ Uproots
  <2>1. \A k \in Cards : /\ card'[k].root <=> card[k].root
                         /\ card[k].root => UNCHANGED card[k].host
                         /\ UNCHANGED card[k].done /\ (card[k].disposed => card'[k].disposed)
    BY <1>5 DEF FetchStep, OtherCards, Freeing
  <2>2. \A q \in Realms : /\ UNCHANGED frame[q].dispose /\ (frame[q].late => frame'[q].late)
                          /\ frame[q].owed > 0 => frame'[q].owed > 0
    BY <1>5 DEF FetchStep, Others
  <2> QED  BY <2>1, <2>2 DEF Grounded
<1>6. ASSUME NEW r \in Realms, NEW d \in Conts, d = "frames" => r \in Cards, CloseStep(r, d) PROVE Grounded \/ Uproots
  BY <1>6 DEF Uproots
<1>7. ASSUME NEW r \in Realms, ResetStep(r) PROVE Grounded \/ Uproots
  BY <1>7 DEF Uproots
<1>8. ASSUME NEW r \in Realms, IdleStep(r) PROVE Grounded \/ Uproots
  <2>1. \A k \in Cards : /\ card'[k].root <=> card[k].root
                         /\ card[k].root => UNCHANGED card[k].host
                         /\ UNCHANGED card[k].done /\ (card[k].disposed => card'[k].disposed)
    BY <1>8 DEF IdleStep, OtherCards, Freeing
  <2>2. \A q \in Realms : /\ UNCHANGED frame[q].dispose /\ (frame[q].late => frame'[q].late)
                          /\ frame[q].owed > 0 => frame'[q].owed > 0
    BY <1>8 DEF IdleStep, Others
  <2> QED  BY <2>1, <2>2 DEF Grounded
<1>9. ASSUME NEW r \in Realms, HearStep(r) PROVE Grounded \/ Uproots
  <2>1. \A k \in Cards : /\ card'[k].root <=> card[k].root
                         /\ card[k].root => UNCHANGED card[k].host
                         /\ UNCHANGED card[k].done /\ (card[k].disposed => card'[k].disposed)
    BY <1>9 DEF HearStep, OtherCards, Freeing
  <2>2. \A q \in Realms : /\ UNCHANGED frame[q].dispose /\ (frame[q].late => frame'[q].late)
                          /\ frame[q].owed > 0 => frame'[q].owed > 0
    <3>1. \A q \in Realms : frame[q].owed \in Int
      BY DEF Typed, Kinds, FrameRec
    <3> QED  BY <1>9, <3>1 DEF HearStep, Others
  <2> QED  BY <2>1, <2>2 DEF Grounded
<1>10. ASSUME NEW r \in Realms, MoveStep(r) PROVE Grounded \/ Uproots
  <2>1. \A k \in Cards : /\ card'[k].root <=> card[k].root
                         /\ card[k].root => UNCHANGED card[k].host
                         /\ UNCHANGED card[k].done /\ (card[k].disposed => card'[k].disposed)
    BY <1>10 DEF MoveStep, OtherCards, Freeing
  <2>2. \A q \in Realms : /\ UNCHANGED frame[q].dispose /\ (frame[q].late => frame'[q].late)
                          /\ frame[q].owed > 0 => frame'[q].owed > 0
    BY <1>10 DEF MoveStep, Others
  <2> QED  BY <2>1, <2>2 DEF Grounded
<1>11. ASSUME NEW c \in Cards, BootStep(c) PROVE Grounded \/ Uproots
  BY <1>11 DEF Uproots
<1>12. ASSUME NEW c \in Cards, LoadedStep(c) PROVE Grounded \/ Uproots
  <2>1. \A k \in Cards : /\ card'[k].root <=> card[k].root
                         /\ card[k].root => UNCHANGED card[k].host
                         /\ UNCHANGED card[k].done /\ (card[k].disposed => card'[k].disposed)
    BY <1>12 DEF LoadedStep, OtherCards, Freeing
  <2>2. \A q \in Realms : /\ UNCHANGED frame[q].dispose /\ (frame[q].late => frame'[q].late)
                          /\ frame[q].owed > 0 => frame'[q].owed > 0
    BY <1>12 DEF LoadedStep, Others
  <2> QED  BY <2>1, <2>2 DEF Grounded
<1>13. ASSUME NEW c \in Cards, DisposeStep(c) PROVE Grounded \/ Uproots
  <2>1. \A k \in Cards : /\ card'[k].root <=> card[k].root
                         /\ card[k].root => UNCHANGED card[k].host
                         /\ UNCHANGED card[k].done /\ (card[k].disposed => card'[k].disposed)
    BY <1>13 DEF DisposeStep, OtherCards, Freeing
  <2>2. \A q \in Realms : /\ UNCHANGED frame[q].dispose /\ (frame[q].late => frame'[q].late)
                          /\ frame[q].owed > 0 => frame'[q].owed > 0
    BY <1>13 DEF DisposeStep, Others
  <2> QED  BY <2>1, <2>2 DEF Grounded
<1>14. ASSUME NEW c \in Cards, OwingStep(c) PROVE Grounded \/ Uproots
  <2>1. \A k \in Cards : /\ card'[k].root <=> card[k].root
                         /\ card[k].root => UNCHANGED card[k].host
                         /\ UNCHANGED card[k].done /\ (card[k].disposed => card'[k].disposed)
    BY <1>14 DEF OwingStep, OtherCards, Freeing
  <2>2. \A q \in Realms : /\ UNCHANGED frame[q].dispose /\ (frame[q].late => frame'[q].late)
                          /\ frame[q].owed > 0 => frame'[q].owed > 0
    BY <1>14 DEF OwingStep, Others
  <2> QED  BY <2>1, <2>2 DEF Grounded
<1>15. ASSUME NEW c \in Cards, FramesStep(c) PROVE Grounded \/ Uproots
  <2>1. \A k \in Cards : /\ card'[k].root <=> card[k].root
                         /\ card[k].root => UNCHANGED card[k].host
                         /\ UNCHANGED card[k].done /\ (card[k].disposed => card'[k].disposed)
    BY <1>15 DEF FramesStep, OtherCards, Freeing
  <2>2. \A q \in Realms : /\ UNCHANGED frame[q].dispose /\ (frame[q].late => frame'[q].late)
                          /\ frame[q].owed > 0 => frame'[q].owed > 0
    BY <1>15 DEF FramesStep, Others
  <2> QED  BY <2>1, <2>2 DEF Grounded
<1>16. ASSUME NEW c \in Cards, RecordsStep(c) PROVE Grounded \/ Uproots
  <2>1. \A k \in Cards : /\ card'[k].root <=> card[k].root
                         /\ card[k].root => UNCHANGED card[k].host
                         /\ UNCHANGED card[k].done /\ (card[k].disposed => card'[k].disposed)
    BY <1>16 DEF RecordsStep, OtherCards, Freeing
  <2>2. \A q \in Realms : /\ UNCHANGED frame[q].dispose /\ (frame[q].late => frame'[q].late)
                          /\ frame[q].owed > 0 => frame'[q].owed > 0
    BY <1>16 DEF RecordsStep, Others
  <2> QED  BY <2>1, <2>2 DEF Grounded
<1>17. ASSUME NEW c \in Cards, ArriveStep(c) PROVE Grounded \/ Uproots
  <2>1. \A k \in Cards : /\ card'[k].root <=> card[k].root
                         /\ card[k].root => UNCHANGED card[k].host
                         /\ UNCHANGED card[k].done /\ (card[k].disposed => card'[k].disposed)
    BY <1>17 DEF ArriveStep, OtherCards, Freeing
  <2>2. \A q \in Realms : /\ UNCHANGED frame[q].dispose /\ (frame[q].late => frame'[q].late)
                          /\ frame[q].owed > 0 => frame'[q].owed > 0
    BY <1>17 DEF ArriveStep, Others
  <2> QED  BY <2>1, <2>2 DEF Grounded
<1>18. ASSUME NEW c \in Cards, FlushStep(c) PROVE Grounded \/ Uproots
  <2>1. \A k \in Cards : /\ card'[k].root <=> card[k].root
                         /\ card[k].root => UNCHANGED card[k].host
                         /\ UNCHANGED card[k].done /\ (card[k].disposed => card'[k].disposed)
    BY <1>18 DEF FlushStep, OtherCards, Freeing
  <2>2. \A q \in Realms : /\ UNCHANGED frame[q].dispose /\ (frame[q].late => frame'[q].late)
                          /\ frame[q].owed > 0 => frame'[q].owed > 0
    BY <1>18 DEF FlushStep, Others
  <2> QED  BY <2>1, <2>2 DEF Grounded
<1>19. ASSUME NEW c \in Cards, CloseRealmStep(c) PROVE Grounded \/ Uproots
  <2>1. \A k \in Cards : /\ card'[k].root <=> card[k].root
                         /\ card[k].root => UNCHANGED card[k].host
                         /\ UNCHANGED card[k].done /\ (card[k].disposed => card'[k].disposed)
    BY <1>19 DEF CloseRealmStep, OtherCards, Freeing
  <2>2. \A q \in Realms : /\ UNCHANGED frame[q].dispose /\ (frame[q].late => frame'[q].late)
                          /\ frame[q].owed > 0 => frame'[q].owed > 0
    BY <1>19 DEF CloseRealmStep, Others
  <2> QED  BY <2>1, <2>2 DEF Grounded
<1>20. ASSUME NEW c \in Cards, AckStep(c) PROVE Grounded \/ Uproots
  <2>1. \A k \in Cards : /\ card'[k].root <=> card[k].root
                         /\ card[k].root => UNCHANGED card[k].host
                         /\ UNCHANGED card[k].done /\ (card[k].disposed => card'[k].disposed)
    BY <1>20 DEF AckStep, OtherCards, Freeing
  <2>2. \A q \in Realms : /\ UNCHANGED frame[q].dispose /\ (frame[q].late => frame'[q].late)
                          /\ frame[q].owed > 0 => frame'[q].owed > 0
    BY <1>20 DEF AckStep, Others
  <2> QED  BY <2>1, <2>2 DEF Grounded
<1>21. ASSUME NEW c \in Cards, BtsStep(c) PROVE Grounded \/ Uproots
  <2>1. \A k \in Cards : /\ card'[k].root <=> card[k].root
                         /\ card[k].root => UNCHANGED card[k].host
                         /\ UNCHANGED card[k].done /\ (card[k].disposed => card'[k].disposed)
    BY <1>21 DEF BtsStep, OtherCards, Freeing
  <2>2. \A q \in Realms : /\ UNCHANGED frame[q].dispose /\ (frame[q].late => frame'[q].late)
                          /\ frame[q].owed > 0 => frame'[q].owed > 0
    BY <1>21 DEF BtsStep, Others
  <2> QED  BY <2>1, <2>2 DEF Grounded
<1>22. ASSUME NEW c \in Cards, ObserveStep(c) PROVE Grounded \/ Uproots
  <2>1. \A k \in Cards : /\ card'[k].root <=> card[k].root
                         /\ card[k].root => UNCHANGED card[k].host
                         /\ UNCHANGED card[k].done /\ (card[k].disposed => card'[k].disposed)
    BY <1>22 DEF ObserveStep, OtherCards, Freeing
  <2>2. \A q \in Realms : /\ UNCHANGED frame[q].dispose /\ (frame[q].late => frame'[q].late)
                          /\ frame[q].owed > 0 => frame'[q].owed > 0
    BY <1>22 DEF ObserveStep, Others
  <2> QED  BY <2>1, <2>2 DEF Grounded
<1>23. CASE HeardStep
  <2>1. \A k \in Cards : /\ card'[k].root <=> card[k].root
                         /\ card[k].root => UNCHANGED card[k].host
                         /\ UNCHANGED card[k].done /\ (card[k].disposed => card'[k].disposed)
    BY <1>23 DEF HeardStep, OtherCards, Freeing
  <2>2. \A q \in Realms : /\ UNCHANGED frame[q].dispose /\ (frame[q].late => frame'[q].late)
                          /\ frame[q].owed > 0 => frame'[q].owed > 0
    BY <1>23 DEF HeardStep, Others
  <2> QED  BY <2>1, <2>2 DEF Grounded
<1>24. CASE EpilogueStep
  <2>1. \A k \in Cards : /\ card'[k].root <=> card[k].root
                         /\ card[k].root => UNCHANGED card[k].host
                         /\ UNCHANGED card[k].done /\ (card[k].disposed => card'[k].disposed)
    BY <1>24 DEF EpilogueStep, OtherCards, Freeing
  <2>2. \A q \in Realms : /\ UNCHANGED frame[q].dispose /\ (frame[q].late => frame'[q].late)
                          /\ frame[q].owed > 0 => frame'[q].owed > 0
    BY <1>24 DEF EpilogueStep, Others
  <2> QED  BY <2>1, <2>2 DEF Grounded
<1>25. CASE OpenStep
  <2>1. \A k \in Cards : /\ card'[k].root <=> card[k].root
                         /\ card[k].root => UNCHANGED card[k].host
                         /\ UNCHANGED card[k].done /\ (card[k].disposed => card'[k].disposed)
    BY <1>25 DEF OpenStep, OtherCards, Freeing
  <2>2. \A q \in Realms : /\ UNCHANGED frame[q].dispose /\ (frame[q].late => frame'[q].late)
                          /\ frame[q].owed > 0 => frame'[q].owed > 0
    BY <1>25 DEF OpenStep, Others
  <2> QED  BY <2>1, <2>2 DEF Grounded
<1>26. CASE OpenEventsStep
  <2>1. \A k \in Cards : /\ card'[k].root <=> card[k].root
                         /\ card[k].root => UNCHANGED card[k].host
                         /\ UNCHANGED card[k].done /\ (card[k].disposed => card'[k].disposed)
    BY <1>26 DEF OpenEventsStep, OtherCards, Freeing
  <2>2. \A q \in Realms : /\ UNCHANGED frame[q].dispose /\ (frame[q].late => frame'[q].late)
                          /\ frame[q].owed > 0 => frame'[q].owed > 0
    BY <1>26 DEF OpenEventsStep, Others
  <2> QED  BY <2>1, <2>2 DEF Grounded
<1>27. CASE OpenRecordsStep
  <2>1. \A k \in Cards : /\ card'[k].root <=> card[k].root
                         /\ card[k].root => UNCHANGED card[k].host
                         /\ UNCHANGED card[k].done /\ (card[k].disposed => card'[k].disposed)
    BY <1>27 DEF OpenRecordsStep, OtherCards, Freeing
  <2>2. \A q \in Realms : /\ UNCHANGED frame[q].dispose /\ (frame[q].late => frame'[q].late)
                          /\ frame[q].owed > 0 => frame'[q].owed > 0
    BY <1>27 DEF OpenRecordsStep, Others
  <2> QED  BY <2>1, <2>2 DEF Grounded
<1>28. CASE RecordStep
  <2>1. \A k \in Cards : /\ card'[k].root <=> card[k].root
                         /\ card[k].root => UNCHANGED card[k].host
                         /\ UNCHANGED card[k].done /\ (card[k].disposed => card'[k].disposed)
    BY <1>28 DEF RecordStep, OtherCards, Freeing
  <2>2. \A q \in Realms : /\ UNCHANGED frame[q].dispose /\ (frame[q].late => frame'[q].late)
                          /\ frame[q].owed > 0 => frame'[q].owed > 0
    BY <1>28 DEF RecordStep, Others
  <2> QED  BY <2>1, <2>2 DEF Grounded
<1>29. CASE BeginStep
  <2>1. \A k \in Cards : /\ card'[k].root <=> card[k].root
                         /\ card[k].root => UNCHANGED card[k].host
                         /\ UNCHANGED card[k].done /\ (card[k].disposed => card'[k].disposed)
    BY <1>29 DEF BeginStep, OtherCards, Freeing
  <2>2. \A q \in Realms : /\ UNCHANGED frame[q].dispose /\ (frame[q].late => frame'[q].late)
                          /\ frame[q].owed > 0 => frame'[q].owed > 0
    BY <1>29 DEF BeginStep, Others
  <2> QED  BY <2>1, <2>2 DEF Grounded
<1> QED  BY <1>1, <1>2, <1>3, <1>4, <1>5, <1>6, <1>7, <1>8, <1>9, <1>10, <1>11, <1>12, <1>13,
            <1>14, <1>15, <1>16, <1>17, <1>18, <1>19, <1>20, <1>21, <1>22, <1>23, <1>24, <1>25,
            <1>26, <1>27, <1>28, <1>29 DEF Does

(* Roots after the step.                                                   *)
LEMMA RootsMeans ==
  /\ Roots' <=> (\A c \in Cards : card'[c].root => Rooted(c)') /\ Alone'
  /\ Alone' <=> \A c, d \in Cards : card'[c].root /\ card'[d].root /\ card'[c].host = card'[d].host
                                      => c = d \/ frame'[card'[c].host].late
  BY DEF Roots, Alone

(* They leave the pages where they are.                                    *)
LEMMA GroundedRoots ==
  ASSUME Typed, Roots, Kinds', Does, Grounded
  PROVE  Roots'
<1>1. ASSUME NEW c \in Cards, card'[c].root PROVE Rooted(c)'
  <2>1. Rooted(c) /\ card[c].root /\ UNCHANGED <<card[c].host, card[c].done>>
    BY <1>1 DEF Roots, Grounded
  <2>2. PICK r \in Realms : r = card[c].host
    BY HostFacts
  <2>3. FrameLives(r) => FrameLives(r)'
    BY AnItem DEF FrameLives, Grounded
  <2>4. Excused(r) => Excused(r)'
    <3>1. entry = "ended" => entry' = "ended"
      BY EndedStays
    <3>2. LetGo(r) => LetGo(r)'
      BY AnItem DEF LetGo, Grounded
    <3> QED  BY <3>1, <3>2 DEF Excused, Grounded
  <2>5. UNCHANGED frame[r].dispose
    BY DEF Grounded
  <2> QED  BY <2>1, <2>2, <2>3, <2>4, <2>5 DEF Rooted
<1>2. Alone'
  <2>1. \A c \in Cards : card'[c].root => card[c].root /\ UNCHANGED card[c].host
    BY DEF Grounded
  <2>2. \A r \in Realms : frame[r].late => frame'[r].late
    BY DEF Grounded
  <2>3. \A c \in Cards : card[c].host \in Realms
    BY HostFacts
  <2> QED  BY <2>1, <2>2, <2>3, RootsMeans DEF Roots, Alone
<1> QED  BY <1>1, <1>2, RootsMeans

(* A page whose card goes has its frame's reset owed.                      *)
LEMMA CloseRoots ==
  ASSUME Typed, Shape, Flags, Life, Counts, Voids, Roots, Kinds', NEW r \in Realms, NEW d \in Conts, CloseStep(r, d)
  PROVE  Roots'
<1>0. /\ At("close", r, d) /\ Others(r) /\ frame'[r].dispose = 0
      /\ UNCHANGED <<frame[r].owed, frame[r].late>> /\ UNCHANGED entry
  BY DEF CloseStep, SameLinks
<1>1. \A k \in Cards : /\ UNCHANGED <<card[k].root, card[k].host, card[k].disposed>>
                       /\ card'[k].done = (IF frame[r].dispose = k THEN d ELSE card[k].done)
  BY ZenonT(60), AnItem DEF CloseStep, OtherCards
<1>2. Excused(r)
  <2>1. <<"close", r, d>> \in Within(stack)
    BY <1>0, AtFacts
  <2>2. CASE d = "reset"
    <3>1. Alive(r)
      BY <1>0, CallAlive
    <3>2. OwedAt(r)
      BY <3>1 DEF Counts, Stays, Alive
    <3>3. <<"close", r, "reset">> \in Resets(r)
      BY DEF Resets
    <3>4. stack \in Seq(Items)
      BY DEF Typed, Kinds
    <3>5. Count(stack, Resets(r)) \in Nat /\ Count(stack, Resets(r)) >= 1
      BY <2>1, <2>2, <3>3, <3>4, WithinCount
    <3>6. Cardinality(Hosted(r, "reset")) \in Nat
      BY HostedNat
    <3> QED  BY <3>2, <3>5, <3>6 DEF OwedAt, Excused
  <2>3. CASE d = "frames"
    <3>1. r \in Cards
      <4>1. Top[1] = "close" /\ Top[3] = "frames" => Top[2] \in Cards
        BY <1>0, TopFacts DEF At
      <4> QED  BY <1>0, <2>3, <4>1 DEF At
    <3>2. card[r].disposed
      BY <2>1, <2>3, <3>1, LateCall
    <3> QED  BY <3>1, <3>2, AnItem DEF Excused, LetGo
  <2>4. CASE d = "nothing"
    BY <2>1, <2>4 DEF Voids, Void, Excused
  <2> QED  BY <2>2, <2>3, <2>4 DEF Conts
<1>3. ASSUME NEW c \in Cards, card'[c].root PROVE Rooted(c)'
  <2>1. Rooted(c) /\ UNCHANGED card[c].host
    BY <1>1, <1>3 DEF Roots
  <2>2. PICK h \in Realms : h = card[c].host
    BY HostFacts
  <2>3. FrameLives(h) => FrameLives(h)'
    BY <1>1, AnItem DEF FrameLives
  <2>4. Excused(h) => Excused(h)'
    <3>1. LetGo(h) => LetGo(h)'
      BY <1>1, AnItem DEF LetGo
    <3>2. UNCHANGED <<frame[h].owed, frame[h].late>>
      BY <1>0 DEF Others
    <3> QED  BY <1>0, <3>1, <3>2 DEF Excused
  <2>5. CASE h = r
    <3>1. card'[c].done # "none"
      <4>1. CASE frame[r].dispose = c
        BY <1>1, <4>1 DEF Conts
      <4>2. CASE frame[r].dispose # c
        BY <1>1, <2>1, <2>2, <2>5, <4>2 DEF Rooted
      <4> QED  BY <4>1, <4>2
    <3> QED  BY <1>2, <2>1, <2>2, <2>3, <2>4, <2>5, <3>1 DEF Rooted
  <2>6. CASE h # r
    <3>1. UNCHANGED frame[h].dispose
      BY <1>0, <2>6 DEF Others
    <3>2. card'[c].done = "none" => card[c].done = "none"
      BY <1>1 DEF Conts
    <3> QED  BY <2>1, <2>2, <2>3, <2>4, <3>1, <3>2 DEF Rooted
  <2> QED  BY <2>5, <2>6
<1>4. Alone'
  <2>1. \A q \in Realms : UNCHANGED frame[q].late
    BY <1>0 DEF Others
  <2>2. \A c \in Cards : card[c].host \in Realms
    BY HostFacts
  <2> QED  BY <1>1, <2>1, <2>2, RootsMeans DEF Roots, Alone
<1> QED  BY <1>3, <1>4, RootsMeans

(* What is under a frame is so, level by level.                            *)
LEMMA UnderFacts ==
  ASSUME NEW r
  PROVE  \A k \in Cards : card[k].root /\ (card[k].host = r \/ card[k].host \in Under(r)) => k \in Under(r)
  BY DEF Under, Nests

(* A reset takes down every page under its frame.                          *)
LEMMA ResetRoots ==
  ASSUME Typed, Shape, Life, Counts, Roots, Kinds', NEW r \in Realms, ResetStep(r)
  PROVE  Roots'
<1>0. /\ At("reset", r, 0) /\ UNCHANGED entry /\ frame'[r].owed = frame[r].owed - 1
      /\ \A q \in Realms : UNCHANGED <<frame[q].dispose, frame[q].late>> /\ (q # r => UNCHANGED frame[q].owed)
  BY DEF ResetStep, SameLinks
<1>1. \A k \in Cards : /\ UNCHANGED <<card[k].host, card[k].disposed, card[k].done>>
                       /\ IF frame[r].owed = 1 /\ FrameLives(r) /\ k \in Under(r)
                          THEN ~card'[k].root ELSE UNCHANGED card[k].root
  BY DEF ResetStep
<1>2. frame[r].owed >= 1 /\ frame[r].owed \in Int
  BY <1>0, ResetOwed
<1>3. ASSUME NEW c \in Cards, card'[c].root PROVE Rooted(c)'
  <2>1. Rooted(c) /\ card[c].root
    BY <1>1, <1>3 DEF Roots
  <2>2. PICK h \in Realms : h = card[c].host
    BY HostFacts
  <2>3. FrameLives(h)'
    <3>1. CASE h = Page
      BY <3>1 DEF FrameLives
    <3>2. CASE h # Page
      <4>1. h \in Cards /\ card[h].root
        BY <2>1, <2>2, <3>2, AnItem DEF Rooted, FrameLives
      <4>2. ~(frame[r].owed = 1 /\ FrameLives(r) /\ h \in Under(r))
        <5>1. h \in Under(r) => c \in Under(r)
          BY <2>1, <2>2, UnderFacts
        <5> QED  BY <1>1, <1>3, <5>1
      <4> QED  BY <1>1, <4>1, <4>2 DEF FrameLives
    <3> QED  BY <3>1, <3>2
  <2>4. Excused(h) => Excused(h)'
    <3>1. LetGo(h) => LetGo(h)'
      BY <1>1, AnItem DEF LetGo
    <3>2. CASE h = r
      <4>1. FrameLives(r) /\ c \in Under(r)
        BY <2>1, <2>2, <3>2, UnderFacts DEF Rooted
      <4>2. frame[r].owed # 1
        BY <1>1, <1>3, <4>1
      <4>3. frame'[h].owed > 0
        BY <1>0, <1>2, <3>2, <4>2
      <4> QED  BY <4>3 DEF Excused
    <3>3. CASE h # r
      BY <1>0, <3>1, <3>3 DEF Excused
    <3> QED  BY <3>2, <3>3
  <2>5. UNCHANGED frame[h].dispose
    BY <1>0
  <2> QED  BY <1>1, <2>1, <2>2, <2>3, <2>4, <2>5 DEF Rooted
<1>4. Alone'
  <2>1. \A c \in Cards : card[c].host \in Realms
    BY HostFacts
  <2>2. \A c \in Cards : card'[c].root => card[c].root
    BY <1>1
  <2> QED  BY <1>0, <1>1, <2>1, <2>2, RootsMeans DEF Roots, Alone
<1> QED  BY <1>3, <1>4, RootsMeans

(* A page is built where none is left.                                     *)
LEMMA BootRoots ==
  ASSUME Typed, Tokens, BootJobs, Links, Flags, Runs, LetGoes, BootOwes, Ends, Roots, Kinds', NEW c \in Cards, BootStep(c)
  PROVE  Roots'
<1>0. PICK r \in Realms : r = card[c].host
  BY HostFacts
<1>1. /\ stack = <<>> /\ <<"boot", c, 0>> \in jobs /\ UNCHANGED entry /\ OtherCards(c)
      /\ UNCHANGED <<card[c].host, card[c].done, card[c].disposed>>
      /\ \A q \in Realms : /\ UNCHANGED <<frame[q].late, frame[q].owed>>
                           /\ frame'[q].dispose = IF q = r /\ Current(c) THEN c ELSE frame[q].dispose
  BY <1>0 DEF BootStep, SameLoads
<1>2. card[c].st = "made" /\ card[c].done = "none" /\ ~card[c].root
  <2>1. card[c].st = "made"
    BY <1>1 DEF BootJobs
  <2>2. card[c].done = "none"
    BY <2>1 DEF Flags
  <2> QED  BY <2>1, <2>2, RootMade
<1>3. Current(c) => frame[r].dispose = 0
  BY <1>0, <1>1 DEF BootJobs
<1>4. \A q \in Realms : (Excused(q) => Excused(q)') /\ (FrameLives(q) => FrameLives(q)')
  <2>1. ASSUME NEW q \in Realms PROVE LetGo(q) => LetGo(q)'
    BY <1>1, AnItem DEF LetGo, OtherCards
  <2>2. ASSUME NEW q \in Realms PROVE FrameLives(q) => FrameLives(q)'
    BY <1>1, <1>2, AnItem DEF FrameLives, OtherCards
  <2> QED  BY <1>1, <2>1, <2>2 DEF Excused
<1>5. ASSUME NEW k \in Cards, k # c, card'[k].root PROVE Rooted(k)' /\ Rooted(k) /\ card[k].root
  <2>1. card[k].root /\ UNCHANGED card[k]
    BY <1>1, <1>5 DEF OtherCards
  <2>2. Rooted(k)
    BY <2>1 DEF Roots
  <2>3. PICK h \in Realms : h = card[k].host
    BY HostFacts
  <2>4. frame[h].dispose = k => frame'[h].dispose = k
    BY <1>1, <1>3, AnItem
  <2> QED  BY <1>4, <2>1, <2>2, <2>3, <2>4 DEF Rooted
<1>6. ASSUME card'[c].root PROVE Current(c) /\ FrameLives(r) /\ Rooted(c)'
  <2>1. Current(c) /\ FrameLives(r)
    BY <1>0, <1>2, <1>6 DEF BootStep
  <2>2. frame'[r].dispose = c /\ FrameLives(r)'
    BY <1>1, <1>4, <2>1
  <2> QED  BY <1>0, <1>1, <2>1, <2>2 DEF Rooted
<1>7. ASSUME card'[c].root, NEW k \in Cards, k # c, card'[k].root, card[k].host = r PROVE frame[r].late
  <2>1. Rooted(k)
    BY <1>5, <1>7
  <2>2. Current(c) /\ frame[r].dispose = 0
    BY <1>3, <1>6, <1>7
  <2>3. Excused(r)
    BY <1>7, <2>1, <2>2, AnItem DEF Rooted
  <2>4. ~(frame[r].owed > 0)
    <3>1. Free(r)
      BY <1>0, <1>1, <2>2 DEF BootOwes
    <3>2. frame[r].owed = 0
      BY <1>1, <3>1 DEF Free
    <3> QED  BY <3>2
  <2>5. entry # "ended"
    BY <1>1 DEF Ends
  <2>6. LetGo(r) => frame[r].late
    <3>1. frame[r].loaded
      BY <1>0, <1>2, <2>2, MadeGen DEF Current
    <3>2. ASSUME LetGo(r) PROVE frame[r].late
      <4>1. r \in Cards /\ card[r].disposed
        BY <3>2, AnItem DEF LetGo
      <4> QED  BY <1>1, <3>1, <4>1 DEF LetGoes, At
    <3> QED  BY <3>2
  <2> QED  BY <2>3, <2>4, <2>5, <2>6 DEF Excused
<1>8. ASSUME NEW k \in Cards, card'[k].root PROVE Rooted(k)'
  BY <1>5, <1>6, <1>8
<1>9. Alone'
  <2>1. \A k \in Cards : card'[k].host = card[k].host /\ card[k].host \in Realms
    BY <1>1, HostFacts DEF OtherCards
  <2>2. \A q \in Realms : UNCHANGED frame[q].late
    BY <1>1
  <2>3. ASSUME NEW j \in Cards, NEW k \in Cards, card'[j].root, card'[k].root, card[j].host = card[k].host
        PROVE  j = k \/ frame[card[j].host].late
    <3>1. CASE j # c /\ k # c
      <4>1. card[j].root /\ card[k].root
        BY <1>5, <2>3, <3>1
      <4> QED  BY <2>3, <4>1 DEF Roots, Alone
    <3>2. CASE j = c /\ k # c
      BY <1>0, <1>7, <2>3, <3>2
    <3>3. CASE j # c /\ k = c
      BY <1>0, <1>7, <2>3, <3>3
    <3> QED  BY <3>1, <3>2, <3>3
  <2> QED  BY <2>1, <2>2, <2>3, RootsMeans
<1> QED  BY <1>8, <1>9, RootsMeans

(* A frame has one page, its card's, or one its reset will take.           *)
LEMMA RootsKept ==
  ASSUME Core, LetGoes, Counts, Ends, BootOwes, Roots, Kinds', Does
  PROVE  Roots'
<1>0. Typed /\ Shape /\ Flags /\ Life /\ Runs /\ Tokens /\ BootJobs /\ Links /\ Voids
  BY DEF Core, Ends
<1>1. CASE Grounded
  BY <1>0, <1>1, GroundedRoots
<1>2. ASSUME NEW r \in Realms, NEW d \in Conts, CloseStep(r, d) PROVE Roots'
  BY <1>0, <1>2, CloseRoots
<1>3. ASSUME NEW r \in Realms, ResetStep(r) PROVE Roots'
  BY <1>0, <1>3, ResetRoots
<1>4. ASSUME NEW c \in Cards, BootStep(c) PROVE Roots'
  BY <1>0, <1>4, BootRoots
<1>5. Grounded \/ Uproots
  BY <1>0, GroundedOrNot
<1> QED  BY <1>1, <1>2, <1>3, <1>4, <1>5 DEF Uproots

(* FreshPage: a card boots into a page of its own.                         *)
LEMMA Freshly ==
  ASSUME Core, Counts, OwedNat, Roots
  PROVE  FreshPage
<1>0. Typed /\ Kinds /\ Links
  BY DEF Core, Typed
<1>1. ASSUME NEW c \in Cards, card[c].root PROVE Fresh(c) \/ frame[card[c].host].late
  BY <1>1 DEF Roots, Rooted, Alone, Fresh
<1>2. ASSUME NEW r \in Realms
      PROVE  /\ frame[r].gen \in Nat /\ frame[r].src \in Srcs \cup {NoSrc}
             /\ frame[r].realm \in Realms /\ frame[r].dispose \in {0, frame[r].realm}
             /\ frame[r].owed \in Nat
  <2>1. frame[r] \in FrameRec
    BY <1>0 DEF Kinds
  <2>2. frame[r].dispose \in {0, frame[r].realm}
    BY <1>0 DEF Links
  <2> QED  BY <2>1, <2>2 DEF FrameRec, OwedNat
<1>3. ASSUME NEW c \in Cards
      PROVE  /\ card[c].st \in {"unmade", "made", "booting", "booted", "refused", "freed"}
             /\ card[c].pending \in 0..2 /\ card[c].frames \in 0..3
             /\ card[c].done \in {"none", "reset", "frames", "nothing"}
             /\ card[c].bts \in {"none", "live", "asked", "ended"}
             /\ card[c].wait \in {"no", "next", "due"}
  <2>1. card[c] \in CardRec
    BY <1>0 DEF Kinds
  <2>2. PendingAt(c) /\ \A these : Count(stack, these) \in Nat
    BY <1>0, CardFacts
  <2>3. Waiter(c) \in {0, 1} /\ Framed(c) \in {0, 1}
    BY DEF Waiter, Framed
  <2>4. card[c].pending \in 0..2
    BY <2>1, <2>2, <2>3 DEF PendingAt, CardRec
  <2>5. card[c].frames \in 0..3
    BY <2>1, <2>2 DEF PendingAt, CardRec
  <2> QED  BY <2>1, <2>4, <2>5 DEF CardRec, Stages, Dones, Conts, Threads, Waiting
<1>4. asked \cup flying \subseteq Realms \X Nat /\ changes \cup taken \subseteq Cards \X BOOLEAN
  BY <1>0 DEF Kinds
<1> QED  BY <1>1, <1>2, <1>3, <1>4 DEF FreshPage, TypeOK


-----------------------------------------------------------------------------
(* What waits for a reset, what is watched, and who parts.                 *)

(* Nothing is put off by a frame that owes nothing.                        *)
LEMMA AfterSteps ==
  ASSUME Typed, Kinds', Does
  PROVE  \/ \A q \in Realms : frame'[q].after = frame[q].after \/ (frame[q].owed > 0 /\ frame'[q].owed = frame[q].owed)
         \/ \E r \in Realms : ResetStep(r)
<1> DEFINE Goal ==
  \/ \A q \in Realms : frame'[q].after = frame[q].after \/ (frame[q].owed > 0 /\ frame'[q].owed = frame[q].owed)
  \/ \E r \in Realms : ResetStep(r)
<1>1. ASSUME NEW r \in Realms, NEW s \in Srcs, SourceStep(r, s) PROVE Goal
  BY <1>1 DEF SourceStep, Others, SameLoads
<1>2. ASSUME NEW r \in Realms, NEW s \in Srcs, SetSrcStep(r, s) PROVE Goal
  BY SMTT(30), <1>2 DEF SetSrcStep, Others, SameLoads
<1>3. ASSUME NEW r \in Realms, NEW g \in Nat, StartStep(r, g) PROVE Goal
  BY <1>3 DEF StartStep, Others, SameLoads
<1>4. ASSUME NEW r \in Realms, NEW g \in Nat, RunStartStep(r, g) PROVE Goal
  BY <1>4 DEF RunStartStep, Others, SameLoads
<1>5. ASSUME NEW r \in Realms, NEW g \in Nat, FetchStep(r, g) PROVE Goal
  BY <1>5 DEF FetchStep, Others, SameLoads
<1>6. ASSUME NEW r \in Realms, NEW d \in Conts, d = "frames" => r \in Cards, CloseStep(r, d) PROVE Goal
  BY <1>6 DEF CloseStep, Others, SameLoads
<1>7. ASSUME NEW r \in Realms, ResetStep(r) PROVE Goal
  BY <1>7
<1>8. ASSUME NEW r \in Realms, IdleStep(r) PROVE Goal
  BY <1>8 DEF IdleStep, Others, SameLoads
<1>9. ASSUME NEW r \in Realms, HearStep(r) PROVE Goal
  BY <1>9 DEF HearStep, Others, SameLoads
<1>10. ASSUME NEW r \in Realms, MoveStep(r) PROVE Goal
  BY <1>10 DEF MoveStep, Others, SameLoads
<1>11. ASSUME NEW c \in Cards, BootStep(c) PROVE Goal
  BY <1>11 DEF BootStep, Others, SameLoads
<1>12. ASSUME NEW c \in Cards, LoadedStep(c) PROVE Goal
  BY <1>12 DEF LoadedStep, Others, SameLoads
<1>13. ASSUME NEW c \in Cards, DisposeStep(c) PROVE Goal
  BY <1>13 DEF DisposeStep, Others, SameLoads
<1>14. ASSUME NEW c \in Cards, OwingStep(c) PROVE Goal
  BY <1>14 DEF OwingStep, Others, SameLoads
<1>15. ASSUME NEW c \in Cards, FramesStep(c) PROVE Goal
  BY <1>15 DEF FramesStep, Others, SameLoads
<1>16. ASSUME NEW c \in Cards, RecordsStep(c) PROVE Goal
  BY <1>16 DEF RecordsStep, Others, SameLoads
<1>17. ASSUME NEW c \in Cards, ArriveStep(c) PROVE Goal
  BY <1>17 DEF ArriveStep, Others, SameLoads
<1>18. ASSUME NEW c \in Cards, FlushStep(c) PROVE Goal
  BY <1>18 DEF FlushStep, Others, SameLoads
<1>19. ASSUME NEW c \in Cards, CloseRealmStep(c) PROVE Goal
  BY <1>19 DEF CloseRealmStep, Others, SameLoads
<1>20. ASSUME NEW c \in Cards, AckStep(c) PROVE Goal
  BY <1>20 DEF AckStep, Others, SameLoads
<1>21. ASSUME NEW c \in Cards, BtsStep(c) PROVE Goal
  BY <1>21 DEF BtsStep, Others, SameLoads
<1>22. ASSUME NEW c \in Cards, ObserveStep(c) PROVE Goal
  BY <1>22 DEF ObserveStep, Others, SameLoads
<1>23. CASE HeardStep
  BY <1>23 DEF HeardStep, Others, SameLoads
<1>24. CASE EpilogueStep
  BY <1>24 DEF EpilogueStep, Others, SameLoads
<1>25. CASE OpenStep
  BY <1>25 DEF OpenStep, Others, SameLoads
<1>26. CASE OpenEventsStep
  BY <1>26 DEF OpenEventsStep, Others, SameLoads
<1>27. CASE OpenRecordsStep
  BY <1>27 DEF OpenRecordsStep, Others, SameLoads
<1>28. CASE RecordStep
  BY <1>28 DEF RecordStep, Others, SameLoads
<1>29. CASE BeginStep
  BY <1>29 DEF BeginStep, Others, SameLoads
<1> QED  BY <1>1, <1>2, <1>3, <1>4, <1>5, <1>6, <1>7, <1>8, <1>9, <1>10, <1>11, <1>12, <1>13,
            <1>14, <1>15, <1>16, <1>17, <1>18, <1>19, <1>20, <1>21, <1>22, <1>23, <1>24, <1>25,
            <1>26, <1>27, <1>28, <1>29 DEF Does

(* A frame has a card to dispose of once that boots.                       *)
LEMMA DisposeSteps ==
  ASSUME Typed, Kinds', Does
  PROVE  \/ \A q \in Realms : frame'[q].dispose = frame[q].dispose \/ frame'[q].dispose = 0
         \/ \E c \in Cards : BootStep(c)
<1> DEFINE Goal ==
  \/ \A q \in Realms : frame'[q].dispose = frame[q].dispose \/ frame'[q].dispose = 0
  \/ \E c \in Cards : BootStep(c)
<1>1. ASSUME NEW r \in Realms, NEW s \in Srcs, SourceStep(r, s) PROVE Goal
  BY <1>1 DEF SourceStep, Others, SameLoads
<1>2. ASSUME NEW r \in Realms, NEW s \in Srcs, SetSrcStep(r, s) PROVE Goal
  BY SMTT(30), <1>2 DEF SetSrcStep, Others, SameLoads
<1>3. ASSUME NEW r \in Realms, NEW g \in Nat, StartStep(r, g) PROVE Goal
  BY <1>3 DEF StartStep, Others, SameLoads
<1>4. ASSUME NEW r \in Realms, NEW g \in Nat, RunStartStep(r, g) PROVE Goal
  BY <1>4 DEF RunStartStep, Others, SameLoads
<1>5. ASSUME NEW r \in Realms, NEW g \in Nat, FetchStep(r, g) PROVE Goal
  BY <1>5 DEF FetchStep, Others, SameLoads
<1>6. ASSUME NEW r \in Realms, NEW d \in Conts, d = "frames" => r \in Cards, CloseStep(r, d) PROVE Goal
  BY <1>6 DEF CloseStep, Others, SameLoads
<1>7. ASSUME NEW r \in Realms, ResetStep(r) PROVE Goal
  BY <1>7 DEF ResetStep, Others, SameLoads
<1>8. ASSUME NEW r \in Realms, IdleStep(r) PROVE Goal
  BY <1>8 DEF IdleStep, Others, SameLoads
<1>9. ASSUME NEW r \in Realms, HearStep(r) PROVE Goal
  BY <1>9 DEF HearStep, Others, SameLoads
<1>10. ASSUME NEW r \in Realms, MoveStep(r) PROVE Goal
  BY <1>10 DEF MoveStep, Others, SameLoads
<1>11. ASSUME NEW c \in Cards, BootStep(c) PROVE Goal
  BY <1>11
<1>12. ASSUME NEW c \in Cards, LoadedStep(c) PROVE Goal
  BY <1>12 DEF LoadedStep, Others, SameLoads
<1>13. ASSUME NEW c \in Cards, DisposeStep(c) PROVE Goal
  BY <1>13 DEF DisposeStep, Others, SameLoads
<1>14. ASSUME NEW c \in Cards, OwingStep(c) PROVE Goal
  BY <1>14 DEF OwingStep, Others, SameLoads
<1>15. ASSUME NEW c \in Cards, FramesStep(c) PROVE Goal
  BY <1>15 DEF FramesStep, Others, SameLoads
<1>16. ASSUME NEW c \in Cards, RecordsStep(c) PROVE Goal
  BY <1>16 DEF RecordsStep, Others, SameLoads
<1>17. ASSUME NEW c \in Cards, ArriveStep(c) PROVE Goal
  BY <1>17 DEF ArriveStep, Others, SameLoads
<1>18. ASSUME NEW c \in Cards, FlushStep(c) PROVE Goal
  BY <1>18 DEF FlushStep, Others, SameLoads
<1>19. ASSUME NEW c \in Cards, CloseRealmStep(c) PROVE Goal
  BY <1>19 DEF CloseRealmStep, Others, SameLoads
<1>20. ASSUME NEW c \in Cards, AckStep(c) PROVE Goal
  BY <1>20 DEF AckStep, Others, SameLoads
<1>21. ASSUME NEW c \in Cards, BtsStep(c) PROVE Goal
  BY <1>21 DEF BtsStep, Others, SameLoads
<1>22. ASSUME NEW c \in Cards, ObserveStep(c) PROVE Goal
  BY <1>22 DEF ObserveStep, Others, SameLoads
<1>23. CASE HeardStep
  BY <1>23 DEF HeardStep, Others, SameLoads
<1>24. CASE EpilogueStep
  BY <1>24 DEF EpilogueStep, Others, SameLoads
<1>25. CASE OpenStep
  BY <1>25 DEF OpenStep, Others, SameLoads
<1>26. CASE OpenEventsStep
  BY <1>26 DEF OpenEventsStep, Others, SameLoads
<1>27. CASE OpenRecordsStep
  BY <1>27 DEF OpenRecordsStep, Others, SameLoads
<1>28. CASE RecordStep
  BY <1>28 DEF RecordStep, Others, SameLoads
<1>29. CASE BeginStep
  BY <1>29 DEF BeginStep, Others, SameLoads
<1> QED  BY <1>1, <1>2, <1>3, <1>4, <1>5, <1>6, <1>7, <1>8, <1>9, <1>10, <1>11, <1>12, <1>13,
            <1>14, <1>15, <1>16, <1>17, <1>18, <1>19, <1>20, <1>21, <1>22, <1>23, <1>24, <1>25,
            <1>26, <1>27, <1>28, <1>29 DEF Does

(* What waits for a reset has one owed, and a frame that owes one has      *)
(* let go of its card.                                                     *)
Afters == \A r \in Realms : frame[r].after # <<>> => frame[r].owed > 0
Closes == \A r \in Realms : frame[r].owed > 0 => frame[r].dispose = 0 \/ At("close", r, "reset")

(* What is put off is called with the reset it waits for.                  *)
LEMMA AftersKept ==
  ASSUME Typed, Shape, Life, Counts, OwedNat, Afters, Kinds', Does
  PROVE  Afters'
<1>0. \A q \in Realms : frame[q].owed \in Int /\ frame[q].owed >= 0
  BY DEF Typed, Kinds, FrameRec, OwedNat
<1>1. ASSUME NEW r \in Realms, ResetStep(r) PROVE Afters'
  <2>1. \A q \in Realms : q # r => UNCHANGED <<frame[q].owed, frame[q].after>>
    BY <1>1 DEF ResetStep
  <2>2. frame[r].owed >= 1
    BY <1>1, ResetOwed DEF ResetStep
  <2>3. frame'[r].after # <<>> => frame[r].owed # 1
    BY <1>1 DEF ResetStep
  <2>4. frame'[r].owed = frame[r].owed - 1
    BY <1>1 DEF ResetStep
  <2>5. frame'[r].after # <<>> => frame'[r].owed > 0
    BY <1>0, <2>2, <2>3, <2>4
  <2> QED  BY <2>1, <2>5 DEF Afters
<1>2. CASE ~\E r \in Realms : ResetStep(r)
  <2>1. \A q \in Realms : frame'[q].owed = frame[q].owed \/ frame'[q].owed = frame[q].owed + 1
    <3>1. ASSUME NEW r \in Realms, NEW s \in Srcs, SetSrcStep(r, s)
          PROVE  \A q \in Realms : frame'[q].owed = frame[q].owed \/ frame'[q].owed = frame[q].owed + 1
      BY <3>1 DEF SetSrcStep, Others
    <3>2. ASSUME NEW r \in Realms, HearStep(r)
          PROVE  \A q \in Realms : frame'[q].owed = frame[q].owed \/ frame'[q].owed = frame[q].owed + 1
      BY <3>2 DEF HearStep, Others
    <3> QED  BY <1>2, <3>1, <3>2, OwedSteps
  <2>2. \A q \in Realms : frame'[q].after = frame[q].after \/ (frame[q].owed > 0 /\ frame'[q].owed = frame[q].owed)
    BY <1>2, AfterSteps
  <2> QED  BY <1>0, <2>1, <2>2 DEF Afters
<1> QED  BY <1>1, <1>2

(* A debt is owed from the frame's close on.                               *)
LEMMA ClosesKept ==
  ASSUME Typed, Shape, Resting, Life, Counts, OwedNat, BootOwes, Closes, Kinds', Does
  PROVE  Closes'
<1>0. \A q \in Realms : frame[q].owed \in Int /\ frame[q].owed >= 0
  BY DEF Typed, Kinds, FrameRec, OwedNat
<1>1. CASE stack # <<>> /\ Top[1] = "close"
  <2>1. PICK r \in Realms, d \in Conts : CloseStep(r, d)
    BY <1>1, CloseRuns
  <2>2. Others(r) /\ frame'[r].dispose = 0 /\ At("close", r, d)
    BY <2>1 DEF CloseStep
  <2>3. ASSUME NEW q \in Realms, frame'[q].owed > 0, q # r PROVE frame'[q].dispose = 0
    <3>1. ~At("close", q, "reset")
      BY <2>2, <2>3 DEF At
    <3> QED  BY <2>2, <2>3, <3>1 DEF Others, Closes
  <2> QED  BY <2>2, <2>3 DEF Closes
<1>2. CASE ~(stack # <<>> /\ Top[1] = "close")
  <2>1. \A q \in Realms : frame[q].owed > 0 => frame[q].dispose = 0
    BY <1>2 DEF Closes, At
  <2>2. ASSUME NEW q \in Realms, frame'[q].owed > 0 PROVE frame'[q].dispose = 0 \/ At("close", q, "reset")'
    <3>1. ASSUME NEW r \in Realms, NEW s \in Srcs, SetSrcStep(r, s) PROVE frame'[q].dispose = 0 \/ At("close", q, "reset")'
      <4>1. CASE frame[r].src # NoSrc /\ q = r
        <5>1. stack' # <<>> /\ Top' = <<"close", r, "reset">>
          BY <3>1, <4>1, SetSrcStack
        <5> QED  BY <4>1, <5>1 DEF At
      <4>2. CASE ~(frame[r].src # NoSrc /\ q = r)
        BY <2>1, <2>2, <3>1, <4>2 DEF SetSrcStep, Others
      <4> QED  BY <4>1, <4>2
    <3>2. ASSUME NEW r \in Realms, HearStep(r) PROVE frame'[q].dispose = 0 \/ At("close", q, "reset")'
      BY <2>1, <2>2, <3>2 DEF HearStep, Others, At, Pushed
    <3>3. ASSUME NEW r \in Realms, ResetStep(r) PROVE frame'[q].dispose = 0
      <4>1. frame[q].owed > 0
        BY <1>0, <2>2, <3>3 DEF ResetStep
      <4> QED  BY <2>1, <3>3, <4>1 DEF ResetStep
    <3>4. CASE \A r \in Realms : UNCHANGED frame[r].owed
      <4>0. frame[q].owed > 0
        BY <2>2, <3>4
      <4>1. ASSUME NEW c \in Cards, BootStep(c) PROVE frame'[q].dispose = 0
        <5>1. CASE q = card[c].host /\ Current(c)
          <6>1. Free(q) /\ stack = <<>>
            BY <4>1, <5>1 DEF BootOwes, BootStep
          <6> QED  BY <1>0, <4>0, <6>1 DEF Free
        <5>2. CASE ~(q = card[c].host /\ Current(c))
          BY <2>1, <4>0, <4>1, <5>2 DEF BootStep
        <5> QED  BY <5>1, <5>2
      <4> QED  BY <2>1, <4>0, <4>1, DisposeSteps
    <3> QED  BY <3>1, <3>2, <3>3, <3>4, OwedSteps
  <2> QED  BY <2>2 DEF Closes
<1> QED  BY <1>1, <1>2

(* Records are waited for by a card let go of.                             *)
LEMMA NewRecords ==
  ASSUME Typed, Shape, Kinds', Does
  PROVE  NoNew("records") \/ (\E c \in Cards : DisposeStep(c))
<1> DEFINE Goal == NoNew("records") \/ (\E c \in Cards : DisposeStep(c))
<1>1. ASSUME NEW r \in Realms, NEW s \in Srcs, SourceStep(r, s) PROVE Goal
  BY <1>1, NewPop DEF SourceStep
<1>2. ASSUME NEW r \in Realms, NEW s \in Srcs, SetSrcStep(r, s) PROVE Goal
  <2>1. Within(stack') = {<<"source", r, s>>}
              \cup (IF frame[r].src = NoSrc THEN {} ELSE {<<"close", r, "reset">>}) \cup Within(stack)
    BY <1>2, SetSrcStack
  <2> QED  BY <2>1 DEF NoNew
<1>3. ASSUME NEW r \in Realms, NEW g \in Nat, StartStep(r, g) PROVE Goal
  BY <1>3, NewPop DEF StartStep
<1>4. ASSUME NEW r \in Realms, NEW g \in Nat, RunStartStep(r, g) PROVE Goal
  <2>1. CASE Pushed(<<"start", r, g>>, <<>>)
    BY <2>1, NewOne
  <2>2. CASE stack' = <<>>
    BY <2>2, NewNone
  <2>3. CASE UNCHANGED stack
    BY <2>3, NewSame
  <2> QED  BY <1>4, <2>1, <2>2, <2>3 DEF RunStartStep
<1>5. ASSUME NEW r \in Realms, NEW g \in Nat, FetchStep(r, g) PROVE Goal
  <2>1. CASE Pushed(<<"start", r, g>>, <<>>)
    BY <2>1, NewOne
  <2>2. CASE stack' = <<>>
    BY <2>2, NewNone
  <2>3. CASE UNCHANGED stack
    BY <2>3, NewSame
  <2> QED  BY <1>5, <2>1, <2>2, <2>3 DEF FetchStep
<1>6. ASSUME NEW r \in Realms, NEW d \in Conts, d = "frames" => r \in Cards, CloseStep(r, d) PROVE Goal
  <2>1. CASE Pushed(<<d, r, 0>>, Pop)
    BY <1>6, <2>1, NewPush DEF CloseStep, Conts
  <2>2. ASSUME NEW c \in Cards, Pushed(<<"dispose", c, 0>>, Pop) PROVE NoNew("records")
    BY <1>6, <2>2, NewPush DEF CloseStep
  <2> QED  BY <1>6, <2>1, <2>2 DEF CloseStep
<1>7. ASSUME NEW r \in Realms, ResetStep(r) PROVE Goal
  <2>1. \A x \in Within(Pop) : x \in Within(stack)
    BY <1>7, AtFacts DEF ResetStep
  <2>2. CASE frame[r].owed = 1
    <3>1. Within(stack') = Within(frame[r].after) \cup Within(Pop)
      BY <1>7, <2>2 DEF ResetStep
    <3>2. \A x \in Within(frame[r].after) : x[1] \in {"start", "frames"}
      BY AfterWithin
    <3> QED  BY <2>1, <3>1, <3>2 DEF NoNew
  <2>3. CASE stack' = Pop
    BY <1>7, <2>3, NewPop DEF ResetStep
  <2> QED  BY <1>7, <2>2, <2>3 DEF ResetStep
<1>8. ASSUME NEW r \in Realms, IdleStep(r) PROVE Goal
  BY <1>8, NewPop DEF IdleStep
<1>9. ASSUME NEW r \in Realms, HearStep(r) PROVE Goal
  <2>1. CASE Pushed(<<"close", r, "reset">>, <<>>)
    BY <2>1, NewOne
  <2>2. CASE Pushed(<<"source", r, frame[r].src>>, <<>>)
    BY <2>2, NewOne
  <2>3. CASE UNCHANGED stack
    BY <2>3, NewSame
  <2> QED  BY <1>9, <2>1, <2>2, <2>3 DEF HearStep
<1>10. ASSUME NEW r \in Realms, MoveStep(r) PROVE Goal
  BY <1>10, NewSame DEF MoveStep
<1>11. ASSUME NEW c \in Cards, BootStep(c) PROVE Goal
  <2>1. CASE Pushed(<<"loading", c, 0>>, <<>>)
    BY <2>1, NewOne
  <2>2. CASE stack' = <<>>
    BY <2>2, NewNone
  <2>3. CASE UNCHANGED stack
    BY <2>3, NewSame
  <2> QED  BY <1>11, <2>1, <2>2, <2>3 DEF BootStep
<1>12. ASSUME NEW c \in Cards, LoadedStep(c) PROVE Goal
  BY <1>12, NewPop DEF LoadedStep
<1>13. ASSUME NEW c \in Cards, DisposeStep(c) PROVE Goal
  BY <1>13
<1>14. ASSUME NEW c \in Cards, OwingStep(c) PROVE Goal
  BY <1>14, NewPop DEF OwingStep
<1>15. ASSUME NEW c \in Cards, FramesStep(c) PROVE Goal
  <2>1. CASE stack' = Pop
    BY <1>15, <2>1, NewPop DEF FramesStep
  <2>2. CASE Pushed(<<"arrive", c, 0>>, Pop)
    BY <1>15, <2>2, NewPush DEF FramesStep
  <2> QED  BY <1>15, <2>1, <2>2 DEF FramesStep
<1>16. ASSUME NEW c \in Cards, RecordsStep(c) PROVE Goal
  BY <1>16, NewPop DEF RecordsStep
<1>17. ASSUME NEW c \in Cards, ArriveStep(c) PROVE Goal
  <2>1. CASE stack' = Pop
    BY <1>17, <2>1, NewPop DEF ArriveStep
  <2>2. CASE Pushed(<<card[c].done, card[c].host, 0>>, Pop)
    <3>1. card[c].done # "records"
      BY DEF Typed, Kinds, CardRec, Dones, Conts
    <3> QED  BY <1>17, <2>2, <3>1, NewPush DEF ArriveStep
  <2> QED  BY <1>17, <2>1, <2>2 DEF ArriveStep
<1>18. ASSUME NEW c \in Cards, FlushStep(c) PROVE Goal
  <2>1. CASE Pushed(<<"arrive", c, 0>>, <<>>)
    BY <2>1, NewOne
  <2>2. CASE stack' = <<>>
    BY <2>2, NewNone
  <2>3. CASE UNCHANGED stack
    BY <2>3, NewSame
  <2> QED  BY <1>18, <2>1, <2>2, <2>3 DEF FlushStep
<1>19. ASSUME NEW c \in Cards, CloseRealmStep(c) PROVE Goal
  BY <1>19, NewSame DEF CloseRealmStep
<1>20. ASSUME NEW c \in Cards, AckStep(c) PROVE Goal
  BY <1>20, NewSame DEF AckStep
<1>21. ASSUME NEW c \in Cards, BtsStep(c) PROVE Goal
  BY <1>21, NewSame DEF BtsStep
<1>22. ASSUME NEW c \in Cards, ObserveStep(c) PROVE Goal
  BY <1>22, NewSame DEF ObserveStep
<1>23. CASE HeardStep
  BY <1>23, NewSame DEF HeardStep
<1>24. CASE EpilogueStep
  BY <1>24, NewSame DEF EpilogueStep
<1>25. CASE OpenStep
  BY <1>25, NewSame DEF OpenStep
<1>26. CASE OpenEventsStep
  BY <1>26, NewSame DEF OpenEventsStep
<1>27. CASE OpenRecordsStep
  BY <1>27, NewSame DEF OpenRecordsStep
<1>28. CASE RecordStep
  BY <1>28, NewSame DEF RecordStep
<1>29. CASE BeginStep
  <2>1. Within(stack') = (IF frame[Page].loaded THEN {<<"close", Page, "nothing">>} ELSE {})
              \cup {<<"askPage", Page, 0>>}
    BY <1>29, BeginStack
  <2> QED  BY <2>1 DEF NoNew
<1> QED  BY <1>1, <1>2, <1>3, <1>4, <1>5, <1>6, <1>7, <1>8, <1>9, <1>10, <1>11, <1>12, <1>13,
            <1>14, <1>15, <1>16, <1>17, <1>18, <1>19, <1>20, <1>21, <1>22, <1>23, <1>24, <1>25,
            <1>26, <1>27, <1>28, <1>29 DEF Does

(* What is watched of a card has a thread to be told of it.                *)
Watch(c) == /\ card[c].shown => card[c].root
            /\ card[c].shown \/ card[c].seen # "no" \/ card[c].wait # "no" \/ On("records", c, 0)
                 \/ card[c].st = "booted" => card[c].bts # "none"
Watches == \A c \in Cards : Watch(c)

(* What a step may add to what is watched.                                 *)
Glances == \A k \in Cards :
   /\ card[k].bts # "none" => card'[k].bts # "none"
   /\ card'[k].shown => (card[k].shown /\ (card[k].root => card'[k].root)) \/ (card'[k].root /\ card[k].seen # "no")
   /\ card'[k].seen # "no" => card[k].seen # "no" \/ card[k].st = "booted"
   /\ card'[k].wait # "no" => card[k].wait # "no" \/ On("records", k, 0)
   /\ card'[k].st = "booted" => card[k].st = "booted" \/ card'[k].bts # "none"

(* No step adds more.                                                      *)
LEMMA Glancing ==
  ASSUME Typed, Shape, Kinds', Does
  PROVE  Glances
<1>1. ASSUME NEW r \in Realms, NEW s \in Srcs, SourceStep(r, s) PROVE Glances
  BY <1>1 DEF SourceStep, Glances, OtherCards, Freeing, Judged
<1>2. ASSUME NEW r \in Realms, NEW s \in Srcs, SetSrcStep(r, s) PROVE Glances
  BY SMTT(30), <1>2 DEF SetSrcStep, Glances, OtherCards, Freeing, Judged
<1>3. ASSUME NEW r \in Realms, NEW g \in Nat, StartStep(r, g) PROVE Glances
  BY <1>3 DEF StartStep, Glances, OtherCards, Freeing, Judged
<1>4. ASSUME NEW r \in Realms, NEW g \in Nat, RunStartStep(r, g) PROVE Glances
  BY <1>4 DEF RunStartStep, Glances, OtherCards, Freeing, Judged
<1>5. ASSUME NEW r \in Realms, NEW g \in Nat, FetchStep(r, g) PROVE Glances
  BY <1>5 DEF FetchStep, Glances, OtherCards, Freeing, Judged
<1>6. ASSUME NEW r \in Realms, NEW d \in Conts, d = "frames" => r \in Cards, CloseStep(r, d) PROVE Glances
  BY ZenonT(60), <1>6 DEF CloseStep, Glances, OtherCards, Freeing, Judged
<1>7. ASSUME NEW r \in Realms, ResetStep(r) PROVE Glances
  BY <1>7 DEF ResetStep, Glances, OtherCards, Freeing, Judged
<1>8. ASSUME NEW r \in Realms, IdleStep(r) PROVE Glances
  BY <1>8 DEF IdleStep, Glances, OtherCards, Freeing, Judged
<1>9. ASSUME NEW r \in Realms, HearStep(r) PROVE Glances
  BY <1>9 DEF HearStep, Glances, OtherCards, Freeing, Judged
<1>10. ASSUME NEW r \in Realms, MoveStep(r) PROVE Glances
  BY <1>10 DEF MoveStep, Glances, OtherCards, Freeing, Judged
<1>11. ASSUME NEW c \in Cards, BootStep(c) PROVE Glances
  BY <1>11 DEF BootStep, Glances, OtherCards, Freeing, Judged
<1>12. ASSUME NEW c \in Cards, LoadedStep(c) PROVE Glances
  BY <1>12 DEF LoadedStep, Glances, OtherCards, Freeing, Judged
<1>13. ASSUME NEW c \in Cards, DisposeStep(c) PROVE Glances
  BY ZenonT(60), <1>13 DEF DisposeStep, Glances, OtherCards, Freeing, Judged
<1>14. ASSUME NEW c \in Cards, OwingStep(c) PROVE Glances
  BY <1>14 DEF OwingStep, Glances, OtherCards, Freeing, Judged
<1>15. ASSUME NEW c \in Cards, FramesStep(c) PROVE Glances
  BY <1>15 DEF FramesStep, Glances, OtherCards, Freeing, Judged
<1>16. ASSUME NEW c \in Cards, RecordsStep(c) PROVE Glances
  <2>1. On("records", c, 0)
    <3>1. At("records", c, 0)
      BY <1>16 DEF RecordsStep
    <3> QED  BY <3>1, AtFacts DEF On
  <2> QED  BY <1>16, <2>1 DEF RecordsStep, Glances, OtherCards
<1>17. ASSUME NEW c \in Cards, ArriveStep(c) PROVE Glances
  BY <1>17 DEF ArriveStep, Glances, OtherCards, Freeing, Judged
<1>18. ASSUME NEW c \in Cards, FlushStep(c) PROVE Glances
  BY <1>18 DEF FlushStep, Glances, OtherCards, Freeing, Judged
<1>19. ASSUME NEW c \in Cards, CloseRealmStep(c) PROVE Glances
  BY <1>19 DEF CloseRealmStep, Glances, OtherCards, Freeing, Judged
<1>20. ASSUME NEW c \in Cards, AckStep(c) PROVE Glances
  BY <1>20 DEF AckStep, Glances, OtherCards, Freeing, Judged
<1>21. ASSUME NEW c \in Cards, BtsStep(c) PROVE Glances
  BY <1>21 DEF BtsStep, Glances, OtherCards, Freeing, Judged
<1>22. ASSUME NEW c \in Cards, ObserveStep(c) PROVE Glances
  BY ZenonT(60), <1>22 DEF ObserveStep, Glances, OtherCards, Freeing, Judged
<1>23. CASE HeardStep
  BY <1>23 DEF HeardStep, Glances, OtherCards, Freeing, Judged
<1>24. CASE EpilogueStep
  BY <1>24 DEF EpilogueStep, Glances, OtherCards, Freeing, Judged
<1>25. CASE OpenStep
  BY <1>25 DEF OpenStep, Glances, OtherCards, Freeing, Judged
<1>26. CASE OpenEventsStep
  BY <1>26 DEF OpenEventsStep, Glances, OtherCards, Freeing, Judged
<1>27. CASE OpenRecordsStep
  BY <1>27 DEF OpenRecordsStep, Glances, OtherCards, Freeing, Judged
<1>28. CASE RecordStep
  BY <1>28 DEF RecordStep, Glances, OtherCards, Freeing, Judged
<1>29. CASE BeginStep
  BY <1>29 DEF BeginStep, Glances, OtherCards, Freeing, Judged
<1> QED  BY <1>1, <1>2, <1>3, <1>4, <1>5, <1>6, <1>7, <1>8, <1>9, <1>10, <1>11, <1>12, <1>13,
            <1>14, <1>15, <1>16, <1>17, <1>18, <1>19, <1>20, <1>21, <1>22, <1>23, <1>24, <1>25,
            <1>26, <1>27, <1>28, <1>29 DEF Does

(* The card was shown when it was let go of.                               *)
LEMMA RecordsFrom ==
  ASSUME Typed, Shape, Kinds', Does, NEW k \in Cards, On("records", k, 0)'
  PROVE  On("records", k, 0) \/ (card[k].shown /\ DisposeStep(k))
<1>1. CASE NoNew("records")
  BY <1>1 DEF NoNew, On
<1>2. ASSUME NEW c \in Cards, DisposeStep(c) PROVE On("records", k, 0) \/ (card[k].shown /\ DisposeStep(k))
  <2>1. PICK j \in {"records", "arrive"} :
           /\ j = (IF card[c].shown THEN "records" ELSE "arrive")
           /\ Within(stack') = (IF frame[c].loaded THEN {<<"close", c, "frames">>} ELSE {})
                \cup {<<"owing", c, 0>>, <<"frames", c, 0>>, <<j, c, 0>>} \cup Within(Pop)
    BY <1>2, DisposeStack
  <2>2. \A x \in Within(Pop) : x \in Within(stack)
    BY <1>2, AtFacts DEF DisposeStep
  <2>3. On("records", k, 0) \/ (card[c].shown /\ k = c)
    BY <2>1, <2>2 DEF On
  <2> QED  BY <1>2, <2>3
<1> QED  BY <1>1, <1>2, NewRecords

(* Who is shown has a page, and a thread to be told.                       *)
LEMMA WatchesKept ==
  ASSUME Typed, Shape, Watches, Kinds', Does
  PROVE  Watches'
<1>0. Glances
  BY Glancing
<1>1. ASSUME NEW k \in Cards, On("records", k, 0)' PROVE On("records", k, 0) \/ card[k].shown
  BY <1>1, RecordsFrom
<1>2. ASSUME NEW k \in Cards PROVE Watch(k)'
  <2>1. Watch(k)
    BY DEF Watches
  <2>2. /\ card[k].bts # "none" => card'[k].bts # "none"
        /\ card'[k].shown => (card[k].shown /\ (card[k].root => card'[k].root)) \/ (card'[k].root /\ card[k].seen # "no")
        /\ card'[k].seen # "no" => card[k].seen # "no" \/ card[k].st = "booted"
        /\ card'[k].wait # "no" => card[k].wait # "no" \/ On("records", k, 0)
        /\ card'[k].st = "booted" => card[k].st = "booted" \/ card'[k].bts # "none"
    BY <1>0 DEF Glances
  <2>3. card'[k].shown => card'[k].root
    BY <2>1, <2>2 DEF Watch
  <2>4. card'[k].shown \/ card'[k].seen # "no" \/ card'[k].wait # "no" \/ On("records", k, 0)'
          \/ card'[k].st = "booted" => card'[k].bts # "none"
    BY <1>1, <2>1, <2>2 DEF Watch
  <2> QED  BY <2>3, <2>4 DEF Watch
<1> QED  BY <1>2 DEF Watches

(* A realm is retired, or its thread asked to go, once all has arrived.    *)
Parts(c) == card[c].retired \/ <<"closeRealm", c, 0>> \in jobs \/ card[c].bts = "asked"
Partings == \A c \in Cards : Parts(c) => card[c].pending = 0

(* A step that parts with no realm.                                        *)
Abides == \A k \in Cards : /\ UNCHANGED <<card[k].pending, card[k].disposed>>
                           /\ Parts(k)' => Parts(k)

(* The steps that may.                                                     *)
LEMMA AbidesOrNot ==
  ASSUME Typed, Resting, Kinds', Does
  PROVE  Abides \/ (\E c \in Cards : DisposeStep(c) \/ ArriveStep(c))
<1> DEFINE Goal == Abides \/ (\E c \in Cards : DisposeStep(c) \/ ArriveStep(c))
<1>1. ASSUME NEW r \in Realms, NEW s \in Srcs, SourceStep(r, s) PROVE Goal
  BY <1>1 DEF SourceStep, Abides, Parts, OtherCards, Freeing
<1>2. ASSUME NEW r \in Realms, NEW s \in Srcs, SetSrcStep(r, s) PROVE Goal
  BY SMTT(30), <1>2 DEF SetSrcStep, Abides, Parts, OtherCards, Freeing
<1>3. ASSUME NEW r \in Realms, NEW g \in Nat, StartStep(r, g) PROVE Goal
  BY <1>3 DEF StartStep, Abides, Parts, OtherCards, Freeing
<1>4. ASSUME NEW r \in Realms, NEW g \in Nat, RunStartStep(r, g) PROVE Goal
  BY <1>4 DEF RunStartStep, Abides, Parts, OtherCards, Freeing
<1>5. ASSUME NEW r \in Realms, NEW g \in Nat, FetchStep(r, g) PROVE Goal
  BY <1>5 DEF FetchStep, Abides, Parts, OtherCards, Freeing
<1>6. ASSUME NEW r \in Realms, NEW d \in Conts, d = "frames" => r \in Cards, CloseStep(r, d) PROVE Goal
  BY ZenonT(60), <1>6 DEF CloseStep, Abides, Parts, OtherCards, Freeing
<1>7. ASSUME NEW r \in Realms, ResetStep(r) PROVE Goal
  BY <1>7 DEF ResetStep, Abides, Parts, OtherCards, Freeing
<1>8. ASSUME NEW r \in Realms, IdleStep(r) PROVE Goal
  BY <1>8 DEF IdleStep, Abides, Parts, OtherCards, Freeing
<1>9. ASSUME NEW r \in Realms, HearStep(r) PROVE Goal
  BY <1>9 DEF HearStep, Abides, Parts, OtherCards, Freeing
<1>10. ASSUME NEW r \in Realms, MoveStep(r) PROVE Goal
  BY <1>10 DEF MoveStep, Abides, Parts, OtherCards, Freeing
<1>11. ASSUME NEW c \in Cards, BootStep(c) PROVE Goal
  BY <1>11 DEF BootStep, Abides, Parts, OtherCards, Freeing
<1>12. ASSUME NEW c \in Cards, LoadedStep(c) PROVE Goal
  BY <1>12 DEF LoadedStep, Abides, Parts, OtherCards, Freeing
<1>13. ASSUME NEW c \in Cards, DisposeStep(c) PROVE Goal
  BY <1>13
<1>14. ASSUME NEW c \in Cards, OwingStep(c) PROVE Goal
  BY <1>14 DEF OwingStep, Abides, Parts, OtherCards, Freeing
<1>15. ASSUME NEW c \in Cards, FramesStep(c) PROVE Goal
  BY <1>15 DEF FramesStep, Abides, Parts, OtherCards, Freeing
<1>16. ASSUME NEW c \in Cards, RecordsStep(c) PROVE Goal
  BY <1>16 DEF RecordsStep, Abides, Parts, OtherCards, Freeing
<1>17. ASSUME NEW c \in Cards, ArriveStep(c) PROVE Goal
  BY <1>17
<1>18. ASSUME NEW c \in Cards, FlushStep(c) PROVE Goal
  BY <1>18 DEF FlushStep, Abides, Parts, OtherCards, Freeing
<1>19. ASSUME NEW c \in Cards, CloseRealmStep(c) PROVE Goal
  BY <1>19 DEF CloseRealmStep, Abides, Parts, OtherCards, Freeing
<1>20. ASSUME NEW c \in Cards, AckStep(c) PROVE Goal
  BY <1>20 DEF AckStep, Abides, Parts, OtherCards, Freeing
<1>21. ASSUME NEW c \in Cards, BtsStep(c) PROVE Goal
  BY <1>21 DEF BtsStep, Abides, Parts, OtherCards, Freeing
<1>22. ASSUME NEW c \in Cards, ObserveStep(c) PROVE Goal
  BY <1>22 DEF ObserveStep, Abides, Parts, OtherCards, Freeing
<1>23. CASE HeardStep
  BY <1>23 DEF HeardStep, Abides, Parts, OtherCards, Freeing
<1>24. CASE EpilogueStep
  BY <1>24 DEF EpilogueStep, Abides, Parts, OtherCards, Freeing
<1>25. CASE OpenStep
  BY <1>25 DEF OpenStep, Abides, Parts, OtherCards, Freeing
<1>26. CASE OpenEventsStep
  BY <1>26 DEF OpenEventsStep, Abides, Parts, OtherCards, Freeing
<1>27. CASE OpenRecordsStep
  BY <1>27 DEF OpenRecordsStep, Abides, Parts, OtherCards, Freeing
<1>28. CASE RecordStep
  BY <1>28 DEF RecordStep, Abides, Parts, OtherCards, Freeing
<1>29. CASE BeginStep
  BY <1>29 DEF BeginStep, Abides, Parts, OtherCards, Freeing
<1> QED  BY <1>1, <1>2, <1>3, <1>4, <1>5, <1>6, <1>7, <1>8, <1>9, <1>10, <1>11, <1>12, <1>13,
            <1>14, <1>15, <1>16, <1>17, <1>18, <1>19, <1>20, <1>21, <1>22, <1>23, <1>24, <1>25,
            <1>26, <1>27, <1>28, <1>29 DEF Does

(* Partings after the step.                                                *)
LEMMA PartingsMeans ==
  Partings' <=> \A c \in Cards : Parts(c)' => card'[c].pending = 0
BY DEF Partings

(* A realm goes once nothing is waited for.                                *)
LEMMA PartingsKept ==
  ASSUME Typed, Shape, Resting, Flags, Counts, Partings, Kinds', Does
  PROVE  Partings'
<1>1. CASE Abides
  BY <1>1 DEF Abides, Partings
<1>2. ASSUME NEW c \in Cards, DisposeStep(c) PROVE Partings'
  <2>1. ~card[c].disposed
    BY <1>2 DEF DisposeStep, Flags
  <2>2. ~Parts(c)
    BY <2>1 DEF Flags, Parts
  <2>3. \A k \in Cards : Parts(k)' => Parts(k)
    BY <1>2 DEF DisposeStep, OtherCards, Parts
  <2>4. \A k \in Cards : k # c => card'[k].pending = card[k].pending
    BY <1>2 DEF DisposeStep, OtherCards
  <2> QED  BY <2>2, <2>3, <2>4 DEF Partings
<1>3. ASSUME NEW c \in Cards, ArriveStep(c) PROVE Partings'
  <2>1. At("arrive", c, 0)
    BY <1>3 DEF ArriveStep
  <2>2. card[c].pending \in Int /\ card[c].pending >= 1
    <3>1. PendingAt(c) /\ card[c].pending \in Int /\ Count(stack, Arrives(c)) \in Nat /\ Count(stack, Records(c)) \in Nat
      BY CardFacts
    <3>2. If(<<"arrive", c, 0>>, Arrives(c)) = 1
      BY Weights
    <3>3. Count(stack, Arrives(c)) = If(<<"arrive", c, 0>>, Arrives(c)) + Count(Pop, Arrives(c)) /\ Count(Pop, Arrives(c)) \in Nat
      BY <2>1, TopCounts
    <3>4. Waiter(c) \in Nat /\ Framed(c) \in Nat
      BY DEF Waiter, Framed
    <3> QED  BY <3>1, <3>2, <3>3, <3>4 DEF PendingAt
  <2>3. ~Parts(c)
    BY <2>2 DEF Partings
  <2>4. card'[c].pending = card[c].pending - 1
    BY <1>3 DEF ArriveStep
  <2>5. Parts(c)' => card[c].pending = 1
    BY <1>3, <2>3 DEF ArriveStep, Parts
  <2>6. \A k \in Cards : k # c => card'[k].pending = card[k].pending /\ (Parts(k)' => Parts(k))
    BY <1>3 DEF ArriveStep, OtherCards, Parts
  <2>7. Parts(c)' => card'[c].pending = 0
    BY <2>4, <2>5
  <2>8. ASSUME NEW k \in Cards, Parts(k)' PROVE card'[k].pending = 0
    <3>1. CASE k = c
      BY <2>7, <2>8, <3>1
    <3>2. CASE k # c
      BY <2>6, <2>8, <3>2 DEF Partings
    <3> QED  BY <3>1, <3>2
  <2> QED  BY <2>8, PartingsMeans
<1> QED  BY <1>1, <1>2, <1>3, AbidesOrNot


-----------------------------------------------------------------------------
(* Whoever waits will be told: WaitersAreTold.                             *)

(* Nothing changes of a card that is dead.                                 *)
LEMMA DeadStay ==
  ASSUME Typed, Shape, Life, Kinds', Does
  PROVE  \A k \in Cards : Alive(k) \/ UNCHANGED <<card[k].bts, card[k].pending>>
<1> DEFINE Goal == \A k \in Cards : Alive(k) \/ UNCHANGED <<card[k].bts, card[k].pending>>
<1>1. ASSUME NEW r \in Realms, NEW s \in Srcs, SourceStep(r, s) PROVE Goal
  BY <1>1 DEF SourceStep, OtherCards, Freeing
<1>2. ASSUME NEW r \in Realms, NEW s \in Srcs, SetSrcStep(r, s) PROVE Goal
  BY SMTT(30), <1>2 DEF SetSrcStep, OtherCards, Freeing
<1>3. ASSUME NEW r \in Realms, NEW g \in Nat, StartStep(r, g) PROVE Goal
  BY <1>3 DEF StartStep, OtherCards, Freeing
<1>4. ASSUME NEW r \in Realms, NEW g \in Nat, RunStartStep(r, g) PROVE Goal
  BY <1>4 DEF RunStartStep, OtherCards, Freeing
<1>5. ASSUME NEW r \in Realms, NEW g \in Nat, FetchStep(r, g) PROVE Goal
  BY <1>5 DEF FetchStep, OtherCards, Freeing
<1>6. ASSUME NEW r \in Realms, NEW d \in Conts, d = "frames" => r \in Cards, CloseStep(r, d) PROVE Goal
  BY <1>6 DEF CloseStep, OtherCards, Freeing
<1>7. ASSUME NEW r \in Realms, ResetStep(r) PROVE Goal
  BY <1>7 DEF ResetStep, OtherCards, Freeing
<1>8. ASSUME NEW r \in Realms, IdleStep(r) PROVE Goal
  BY <1>8 DEF IdleStep, OtherCards, Freeing
<1>9. ASSUME NEW r \in Realms, HearStep(r) PROVE Goal
  BY <1>9 DEF HearStep, OtherCards, Freeing
<1>10. ASSUME NEW r \in Realms, MoveStep(r) PROVE Goal
  BY <1>10 DEF MoveStep, OtherCards, Freeing
<1>11. ASSUME NEW c \in Cards, BootStep(c) PROVE Goal
  BY <1>11 DEF BootStep, OtherCards, Freeing
<1>12. ASSUME NEW c \in Cards, LoadedStep(c) PROVE Goal
  <2>1. Alive(c)
    <3>1. At("loading", c, 0)
      BY <1>12 DEF LoadedStep
    <3> QED  BY <3>1, CallAlive
  <2> QED  BY <1>12, <2>1 DEF LoadedStep, OtherCards
<1>13. ASSUME NEW c \in Cards, DisposeStep(c) PROVE Goal
  <2>1. Alive(c)
    <3>1. At("dispose", c, 0)
      BY <1>13 DEF DisposeStep
    <3> QED  BY <3>1, CallAlive
  <2> QED  BY <1>13, <2>1 DEF DisposeStep, OtherCards
<1>14. ASSUME NEW c \in Cards, OwingStep(c) PROVE Goal
  BY <1>14 DEF OwingStep, OtherCards, Freeing
<1>15. ASSUME NEW c \in Cards, FramesStep(c) PROVE Goal
  BY <1>15 DEF FramesStep, OtherCards, Freeing
<1>16. ASSUME NEW c \in Cards, RecordsStep(c) PROVE Goal
  BY <1>16 DEF RecordsStep, OtherCards, Freeing
<1>17. ASSUME NEW c \in Cards, ArriveStep(c) PROVE Goal
  <2>1. Alive(c)
    <3>1. At("arrive", c, 0)
      BY <1>17 DEF ArriveStep
    <3> QED  BY <3>1, CallAlive
  <2> QED  BY <1>17, <2>1 DEF ArriveStep, OtherCards
<1>18. ASSUME NEW c \in Cards, FlushStep(c) PROVE Goal
  BY <1>18 DEF FlushStep, OtherCards, Freeing
<1>19. ASSUME NEW c \in Cards, CloseRealmStep(c) PROVE Goal
  BY <1>19 DEF CloseRealmStep, OtherCards, Freeing
<1>20. ASSUME NEW c \in Cards, AckStep(c) PROVE Goal
  BY <1>20 DEF AckStep, OtherCards, Freeing
<1>21. ASSUME NEW c \in Cards, BtsStep(c) PROVE Goal
  BY <1>21 DEF BtsStep, OtherCards, Freeing
<1>22. ASSUME NEW c \in Cards, ObserveStep(c) PROVE Goal
  BY <1>22 DEF ObserveStep, OtherCards, Freeing
<1>23. CASE HeardStep
  BY <1>23 DEF HeardStep, OtherCards, Freeing
<1>24. CASE EpilogueStep
  BY <1>24 DEF EpilogueStep, OtherCards, Freeing
<1>25. CASE OpenStep
  BY <1>25 DEF OpenStep, OtherCards, Freeing
<1>26. CASE OpenEventsStep
  BY <1>26 DEF OpenEventsStep, OtherCards, Freeing
<1>27. CASE OpenRecordsStep
  BY <1>27 DEF OpenRecordsStep, OtherCards, Freeing
<1>28. CASE RecordStep
  BY <1>28 DEF RecordStep, OtherCards, Freeing
<1>29. CASE BeginStep
  BY <1>29 DEF BeginStep, OtherCards, Freeing
<1> QED  BY <1>1, <1>2, <1>3, <1>4, <1>5, <1>6, <1>7, <1>8, <1>9, <1>10, <1>11, <1>12, <1>13,
            <1>14, <1>15, <1>16, <1>17, <1>18, <1>19, <1>20, <1>21, <1>22, <1>23, <1>24, <1>25,
            <1>26, <1>27, <1>28, <1>29 DEF Does

(* A frame that lags does for good.                                        *)
LEMMA LateStays ==
  ASSUME Typed, Kinds', Does
  PROVE  \A q \in Realms : frame[q].late => frame'[q].late
<1> DEFINE Goal == \A q \in Realms : frame[q].late => frame'[q].late
<1>1. ASSUME NEW r \in Realms, NEW s \in Srcs, SourceStep(r, s) PROVE Goal
  BY <1>1 DEF SourceStep, Others, SameLoads
<1>2. ASSUME NEW r \in Realms, NEW s \in Srcs, SetSrcStep(r, s) PROVE Goal
  BY SMTT(30), <1>2 DEF SetSrcStep, Others, SameLoads
<1>3. ASSUME NEW r \in Realms, NEW g \in Nat, StartStep(r, g) PROVE Goal
  BY <1>3 DEF StartStep, Others, SameLoads
<1>4. ASSUME NEW r \in Realms, NEW g \in Nat, RunStartStep(r, g) PROVE Goal
  BY <1>4 DEF RunStartStep, Others, SameLoads
<1>5. ASSUME NEW r \in Realms, NEW g \in Nat, FetchStep(r, g) PROVE Goal
  BY <1>5 DEF FetchStep, Others, SameLoads
<1>6. ASSUME NEW r \in Realms, NEW d \in Conts, d = "frames" => r \in Cards, CloseStep(r, d) PROVE Goal
  BY <1>6 DEF CloseStep, Others, SameLoads
<1>7. ASSUME NEW r \in Realms, ResetStep(r) PROVE Goal
  BY <1>7 DEF ResetStep, Others, SameLoads
<1>8. ASSUME NEW r \in Realms, IdleStep(r) PROVE Goal
  BY <1>8 DEF IdleStep, Others, SameLoads
<1>9. ASSUME NEW r \in Realms, HearStep(r) PROVE Goal
  BY <1>9 DEF HearStep, Others, SameLoads
<1>10. ASSUME NEW r \in Realms, MoveStep(r) PROVE Goal
  BY <1>10 DEF MoveStep, Others, SameLoads
<1>11. ASSUME NEW c \in Cards, BootStep(c) PROVE Goal
  BY <1>11 DEF BootStep, Others, SameLoads
<1>12. ASSUME NEW c \in Cards, LoadedStep(c) PROVE Goal
  BY <1>12 DEF LoadedStep, Others, SameLoads
<1>13. ASSUME NEW c \in Cards, DisposeStep(c) PROVE Goal
  BY <1>13 DEF DisposeStep, Others, SameLoads
<1>14. ASSUME NEW c \in Cards, OwingStep(c) PROVE Goal
  BY <1>14 DEF OwingStep, Others, SameLoads
<1>15. ASSUME NEW c \in Cards, FramesStep(c) PROVE Goal
  BY <1>15 DEF FramesStep, Others, SameLoads
<1>16. ASSUME NEW c \in Cards, RecordsStep(c) PROVE Goal
  BY <1>16 DEF RecordsStep, Others, SameLoads
<1>17. ASSUME NEW c \in Cards, ArriveStep(c) PROVE Goal
  BY <1>17 DEF ArriveStep, Others, SameLoads
<1>18. ASSUME NEW c \in Cards, FlushStep(c) PROVE Goal
  BY <1>18 DEF FlushStep, Others, SameLoads
<1>19. ASSUME NEW c \in Cards, CloseRealmStep(c) PROVE Goal
  BY <1>19 DEF CloseRealmStep, Others, SameLoads
<1>20. ASSUME NEW c \in Cards, AckStep(c) PROVE Goal
  BY <1>20 DEF AckStep, Others, SameLoads
<1>21. ASSUME NEW c \in Cards, BtsStep(c) PROVE Goal
  BY <1>21 DEF BtsStep, Others, SameLoads
<1>22. ASSUME NEW c \in Cards, ObserveStep(c) PROVE Goal
  BY <1>22 DEF ObserveStep, Others, SameLoads
<1>23. CASE HeardStep
  BY <1>23 DEF HeardStep, Others, SameLoads
<1>24. CASE EpilogueStep
  BY <1>24 DEF EpilogueStep, Others, SameLoads
<1>25. CASE OpenStep
  BY <1>25 DEF OpenStep, Others, SameLoads
<1>26. CASE OpenEventsStep
  BY <1>26 DEF OpenEventsStep, Others, SameLoads
<1>27. CASE OpenRecordsStep
  BY <1>27 DEF OpenRecordsStep, Others, SameLoads
<1>28. CASE RecordStep
  BY <1>28 DEF RecordStep, Others, SameLoads
<1>29. CASE BeginStep
  BY <1>29 DEF BeginStep, Others, SameLoads
<1> QED  BY <1>1, <1>2, <1>3, <1>4, <1>5, <1>6, <1>7, <1>8, <1>9, <1>10, <1>11, <1>12, <1>13,
            <1>14, <1>15, <1>16, <1>17, <1>18, <1>19, <1>20, <1>21, <1>22, <1>23, <1>24, <1>25,
            <1>26, <1>27, <1>28, <1>29 DEF Does

(* A load called for is gone once it runs.                                 *)
LEMMA SourceRuns ==
  ASSUME Typed, Resting, Kinds', Does, NEW p \in Realms, NEW z \in Srcs, At("source", p, z), ~On("source", p, z)'
  PROVE  \E q \in Realms, x \in Srcs : SourceStep(q, x)
<1> DEFINE Goal == \E q \in Realms, x \in Srcs : SourceStep(q, x)
<1>1. ASSUME NEW r \in Realms, NEW s \in Srcs, SourceStep(r, s) PROVE Goal
  BY <1>1
<1>2. ASSUME NEW r \in Realms, NEW s \in Srcs, SetSrcStep(r, s) PROVE Goal
  BY SMTT(30), <1>2 DEF SetSrcStep, At, AppRuns, Resting
<1>3. ASSUME NEW r \in Realms, NEW g \in Nat, StartStep(r, g) PROVE Goal
  BY <1>3 DEF StartStep, At, AppRuns, Resting
<1>4. ASSUME NEW r \in Realms, NEW g \in Nat, RunStartStep(r, g) PROVE Goal
  BY <1>4 DEF RunStartStep, At, AppRuns, Resting
<1>5. ASSUME NEW r \in Realms, NEW g \in Nat, FetchStep(r, g) PROVE Goal
  BY <1>5 DEF FetchStep, At, AppRuns, Resting
<1>6. ASSUME NEW r \in Realms, NEW d \in Conts, d = "frames" => r \in Cards, CloseStep(r, d) PROVE Goal
  BY <1>6 DEF CloseStep, At, AppRuns, Resting
<1>7. ASSUME NEW r \in Realms, ResetStep(r) PROVE Goal
  BY <1>7 DEF ResetStep, At, AppRuns, Resting
<1>8. ASSUME NEW r \in Realms, IdleStep(r) PROVE Goal
  BY <1>8 DEF IdleStep, At, AppRuns, Resting
<1>9. ASSUME NEW r \in Realms, HearStep(r) PROVE Goal
  BY <1>9 DEF HearStep, At, AppRuns, Resting
<1>10. ASSUME NEW r \in Realms, MoveStep(r) PROVE Goal
  BY <1>10 DEF MoveStep, At, AppRuns, Resting
<1>11. ASSUME NEW c \in Cards, BootStep(c) PROVE Goal
  BY <1>11 DEF BootStep, At, AppRuns, Resting
<1>12. ASSUME NEW c \in Cards, LoadedStep(c) PROVE Goal
  BY <1>12 DEF LoadedStep, At, AppRuns, Resting
<1>13. ASSUME NEW c \in Cards, DisposeStep(c) PROVE Goal
  BY <1>13 DEF DisposeStep, At, AppRuns, Resting
<1>14. ASSUME NEW c \in Cards, OwingStep(c) PROVE Goal
  BY <1>14 DEF OwingStep, At, AppRuns, Resting
<1>15. ASSUME NEW c \in Cards, FramesStep(c) PROVE Goal
  BY <1>15 DEF FramesStep, At, AppRuns, Resting
<1>16. ASSUME NEW c \in Cards, RecordsStep(c) PROVE Goal
  BY <1>16 DEF RecordsStep, At, AppRuns, Resting
<1>17. ASSUME NEW c \in Cards, ArriveStep(c) PROVE Goal
  BY <1>17 DEF ArriveStep, At, AppRuns, Resting
<1>18. ASSUME NEW c \in Cards, FlushStep(c) PROVE Goal
  BY <1>18 DEF FlushStep, At, AppRuns, Resting
<1>19. ASSUME NEW c \in Cards, CloseRealmStep(c) PROVE Goal
  BY <1>19 DEF CloseRealmStep, At, AppRuns, Resting
<1>20. ASSUME NEW c \in Cards, AckStep(c) PROVE Goal
  BY <1>20 DEF AckStep, At, AppRuns, Resting
<1>21. ASSUME NEW c \in Cards, BtsStep(c) PROVE Goal
  BY <1>21 DEF BtsStep, At, AppRuns, Resting
<1>22. ASSUME NEW c \in Cards, ObserveStep(c) PROVE Goal
  BY <1>22 DEF ObserveStep, At, AppRuns, Resting
<1>23. CASE HeardStep
  BY <1>23 DEF HeardStep, At, AppRuns, Resting
<1>24. CASE EpilogueStep
  BY <1>24 DEF EpilogueStep, At, AppRuns, Resting
<1>25. CASE OpenStep
  BY <1>25 DEF OpenStep, At, AppRuns, Resting
<1>26. CASE OpenEventsStep
  BY <1>26 DEF OpenEventsStep, At, AppRuns, Resting
<1>27. CASE OpenRecordsStep
  BY <1>27 DEF OpenRecordsStep, At, AppRuns, Resting
<1>28. CASE RecordStep
  BY <1>28 DEF RecordStep, At, AppRuns, Resting
<1>29. CASE BeginStep
  BY <1>29 DEF BeginStep, At, AppRuns, Resting
<1> QED  BY <1>1, <1>2, <1>3, <1>4, <1>5, <1>6, <1>7, <1>8, <1>9, <1>10, <1>11, <1>12, <1>13,
            <1>14, <1>15, <1>16, <1>17, <1>18, <1>19, <1>20, <1>21, <1>22, <1>23, <1>24, <1>25,
            <1>26, <1>27, <1>28, <1>29 DEF Does

(* Nothing is excused: no thread has ended unheard, and no card let go of  *)
(* loads its frame.                                                        *)
Sound == ~Spoiled /\ \A r \in Realms, s \in Srcs : On("source", r, s) => ~LetGo(r)

(* What is excused stays excused.                                          *)
LEMMA SoundBefore ==
  ASSUME Typed, Shape, Resting, BootJobs, Flags, Life, Kinds', Does, Sound'
  PROVE  Sound
<1>1. ~Spoiled
  <2>1. ASSUME NEW c \in Cards, card[c].st = "freed", card[c].pending > 0, card[c].bts = "ended" PROVE FALSE
    <3>1. card'[c].st = "freed"
      BY <2>1, FreedStays
    <3>2. ~Alive(c)
      BY <2>1, AnItem DEF Alive
    <3>3. UNCHANGED <<card[c].bts, card[c].pending>>
      BY <3>2, DeadStay
    <3> QED  BY <2>1, <3>1, <3>3 DEF Sound, Spoiled
  <2>2. ASSUME NEW r \in Realms, frame[r].late PROVE FALSE
    BY <2>2, LateStays DEF Sound, Spoiled
  <2> QED  BY <2>1, <2>2 DEF Spoiled
<1>2. ASSUME NEW r \in Realms, NEW s \in Srcs, On("source", r, s), LetGo(r) PROVE FALSE
  <2>1. r \in Cards /\ LetGo(r)'
    BY <1>2, DisposedStays, AnItem DEF LetGo
  <2>2. CASE On("source", r, s)'
    BY <2>1, <2>2 DEF Sound
  <2>3. CASE ~On("source", r, s)'
    <3>1. At("source", r, s)
      BY <1>2, <2>3, CallsLast DEF Lasts, On, At
    <3>2. \E q \in Realms, x \in Srcs : SourceStep(q, x)
      BY <2>3, <3>1, SourceRuns
    <3>3. SourceStep(r, s)
      <4>1. PICK q \in Realms, x \in Srcs : SourceStep(q, x)
        BY <3>2
      <4>2. q = r /\ x = s
        BY <3>1, <4>1 DEF SourceStep, At
      <4> QED  BY <4>1, <4>2
    <3>4. frame'[r].late
      BY <1>2, <3>3 DEF SourceStep
    <3> QED  BY <3>4 DEF Sound, Spoiled
  <2> QED  BY <2>2, <2>3
<1> QED  BY <1>1, <1>2 DEF Sound

(* Whoever waits will be told.                                             *)
Living(c)  == card[c].pending > 0 => Alive(c)
Heralds(c) == card[c].wait = "next" \/ On("records", c, 0)
                => card[c].root /\ <<c, FALSE>> \in changes \cup taken
Settled(c) == ~Out(c) => \A k \in Cards : card[k].root /\ card[k].host = c => card[k].done # "none" /\ ~Out(k)
Owned(c)   == card[c].disposed /\ Alive(c) /\ frame[c].owed > 0
                => On("owing", c, 0) \/ <<"frames", c, 0>> \in Within(frame[c].after)
Listed(c)  == card[c].done = "frames" /\ Out(c) => ~(frame[card[c].host].owed > 0)
Told(c) == Living(c) /\ Heralds(c) /\ Settled(c) /\ Owned(c) /\ Listed(c)
AllTold == \A c \in Cards : Told(c)
Counted == Counts /\ OwedNat /\ Afters /\ Closes /\ Watches /\ Partings

(* What is waited for are numbers.                                         *)
LEMMA CardNumbers ==
  ASSUME Typed
  PROVE  /\ \A c \in Cards : card[c].pending \in Int /\ card[c].frames \in Int
         /\ \A r \in Realms : frame[r].owed \in Int
BY DEF Typed, Kinds, CardRec, FrameRec

(* A frame that owes its reset has a card that will post its last list,    *)
(* and so has a card that waits for its frame's.                           *)
LEMMA OwedBy ==
  ASSUME Typed, Flags, Counts, stack = <<>>, NEW r \in Realms, Alive(r), frame[r].owed > 0
  PROVE  \E k \in Cards : card[k].host = r /\ card[k].done = "reset" /\ card[k].disposed /\ card[k].pending > 0
<1>1. OwedAt(r)
  BY DEF Counts, Stays, Alive
<1>2. Count(stack, Resets(r)) = 0
  BY NoCall
<1>3. Hosted(r, "reset") # {}
  <2> SUFFICES ASSUME Hosted(r, "reset") = {} PROVE FALSE
    OBVIOUS
  <2>1. Cardinality(Hosted(r, "reset")) = 0
    BY FS_EmptySet
  <2>2. frame[r].owed = Count(stack, Resets(r)) + Cardinality(Hosted(r, "reset"))
    BY <1>1 DEF OwedAt
  <2>3. frame[r].owed = 0
    BY <1>2, <2>1, <2>2
  <2> QED  BY <2>3
<1>4. PICK k \in Cards : card[k].host = r /\ card[k].done = "reset" /\ Out(k)
  BY <1>3 DEF Hosted
<1>5. card[k].disposed
  BY <1>4 DEF Flags, At
<1> QED  BY <1>4, <1>5 DEF Out

(* The card that will post the list a card waits for.                      *)
LEMMA ListedBy ==
  ASSUME Typed, Flags, Counts, Afters, stack = <<>>, NEW c \in Cards, Alive(c), card[c].frames > 0
  PROVE  \E k \in Cards : card[k].host = c /\ card[k].disposed /\ card[k].pending > 0
<1>0. c \in Realms
  BY AnItem
<1>1. CASE frame[c].after # <<>>
  <2>1. frame[c].owed > 0
    BY <1>0, <1>1 DEF Afters
  <2> QED  BY <1>0, <2>1, OwedBy
<1>2. CASE frame[c].after = <<>>
  <2>1. ListedAt(c)
    BY <1>0, AnItem DEF Counts, Stays, Alive
  <2>2. Count(stack, Lists(c)) = 0 /\ Count(frame[c].after, Later(c)) = 0
    BY <1>2, NoCall
  <2>3. Hosted(c, "frames") # {}
    <3>1. Cardinality({}) = 0
      BY FS_EmptySet
    <3>2. card[c].frames = Count(stack, Lists(c)) + Count(frame[c].after, Later(c)) + Cardinality(Hosted(c, "frames"))
      BY <2>1 DEF ListedAt
    <3>3. Cardinality(Hosted(c, "frames")) \in Nat
      BY HostedNat
    <3>4. card[c].frames = Cardinality(Hosted(c, "frames"))
      BY <2>2, <3>2, <3>3
    <3>5. Hosted(c, "frames") = {} => card[c].frames = 0
      BY <3>1, <3>4
    <3> QED  BY <3>5
  <2>4. PICK k \in Cards : card[k].host = c /\ card[k].done = "frames" /\ Out(k)
    BY <2>3 DEF Hosted
  <2>5. card[k].disposed
    BY <2>4 DEF Flags, At
  <2> QED  BY <2>4, <2>5 DEF Out
<1> QED  BY <1>1, <1>2

(* What a card waits for.                                                  *)
LEMMA PendingParts ==
  ASSUME Typed, Counts, NEW c \in Cards
  PROVE  /\ card[c].wait # "no" \/ On("records", c, 0) => card[c].pending > 0
         /\ stack = <<>> /\ card[c].pending > 0 /\ card[c].wait = "no" => card[c].frames > 0
<1>1. /\ PendingAt(c) /\ card[c].pending \in Int /\ card[c].frames \in Int
      /\ Count(stack, Arrives(c)) \in Nat /\ Count(stack, Records(c)) \in Nat
  BY CardFacts
<1>2. card[c].pending = Count(stack, Arrives(c)) + Count(stack, Records(c)) + Waiter(c) + Framed(c)
  BY <1>1 DEF PendingAt
<1>3. Waiter(c) \in Nat /\ Framed(c) \in Nat
  BY DEF Waiter, Framed
<1>4. On("records", c, 0) => Count(stack, Records(c)) >= 1
  <2> PICK w \in Seq(Items) : w = stack
    BY DEF Typed, Kinds
  <2>1. <<"records", c, 0>> \in Records(c)
    BY DEF Records
  <2>2. \A x \in Records(c) : x \in Within(w) => Count(w, Records(c)) >= 1
    BY WithinCount
  <2> QED  BY <2>1, <2>2 DEF On
<1>5. card[c].wait # "no" => Waiter(c) = 1
  BY DEF Waiter
<1>6. stack = <<>> => Count(stack, Arrives(c)) = 0 /\ Count(stack, Records(c)) = 0
  BY NoCall
<1>7. card[c].wait = "no" => Waiter(c) = 0
  BY DEF Waiter
<1>8. Framed(c) > 0 => card[c].frames > 0
  BY DEF Framed
<1>9. card[c].wait # "no" \/ On("records", c, 0) => card[c].pending > 0
  BY <1>1, <1>2, <1>3, <1>4, <1>5
<1>10. stack = <<>> /\ card[c].pending > 0 /\ card[c].wait = "no" => card[c].frames > 0
  BY <1>2, <1>3, <1>6, <1>7, <1>8
<1> QED  BY <1>9, <1>10

(* A card that waits is not released, unless its thread has ended.         *)
LEMMA WaitersStay ==
  ASSUME Typed, Flags, Counted, \A c \in Cards : Living(c), stack = <<>>,
         NEW loads, Freeing(loads), ~Spoiled'
  PROVE  \A c \in Cards : card[c].pending > 0 => c \notin Releasable(loads)
<1> DEFINE L == Losses(loads)
           K == {c \in Cards : card[c].pending > 0}
<1>0. Releasable(loads) \subseteq L
  BY DEF Releasable, Losses
<1>1. SUFFICES ASSUME \E c \in Cards : card[c].pending > 0 /\ c \in Releasable(loads) PROVE FALSE
  OBVIOUS
<1>2. \A c \in Cards : card[c].pending > 0 => Alive(c) /\ ~card[c].retired
  <2>1. ASSUME NEW c \in Cards, card[c].pending > 0 PROVE Alive(c) /\ ~card[c].retired
    <3>1. card[c].pending # 0
      BY <2>1
    <3> QED  BY <2>1, <3>1 DEF Counted, Partings, Parts, Living
  <2> QED  BY <2>1
<1>3. \A c \in Cards : card[c].pending > 0 /\ c \in Releasable(loads) => card[c].bts # "ended"
  <2>1. ASSUME NEW c \in Cards, card[c].pending > 0, c \in Releasable(loads), card[c].bts = "ended" PROVE FALSE
    <3>1. card'[c].st = "freed" /\ card'[c].pending = card[c].pending /\ card'[c].bts = card[c].bts
      BY <2>1 DEF Freeing
    <3> QED  BY <2>1, <3>1 DEF Spoiled
  <2> QED  BY <2>1
<1>4. \A c \in Cards : card[c].pending > 0 /\ c \in L => c \in Releasable(loads)
  BY <1>2 DEF Releasable, Losses
<1>5. ASSUME NEW c \in Cards, card[c].pending > 0, card[c].bts = "none"
      PROVE  \E k \in Cards : card[k].host = c /\ card[k].pending > 0
  <2>1. card[c].wait = "no"
    BY <1>5 DEF Counted, Watches, Watch
  <2>2. card[c].frames > 0
    BY <1>5, <2>1, PendingParts DEF Counted
  <2> QED  BY <1>2, <1>5, <2>2, ListedBy DEF Counted
<1>6. Gone(L \ K, loads)
  <2>1. ASSUME NEW c \in Cards, ~Alive(c) \/ card[c].retired \/ Unneeded(c, L \ K, loads) PROVE c \in L \ K
    <3>1. Unneeded(c, L \ K, loads) => Unneeded(c, L, loads)
      BY DEF Unneeded, Referenced
    <3>2. c \in L
      BY <2>1, <3>1, LossesGo
    <3>3. ASSUME c \in K PROVE FALSE
      <4>1. Unneeded(c, L \ K, loads)
        BY <1>2, <2>1, <3>3
      <4>2. ~IsBusy(c) /\ ~Referenced(c, L \ K)
        BY <4>1 DEF Unneeded
      <4>3. card[c].bts # "ended"
        BY <1>3, <1>4, <3>2, <3>3
      <4>4. card[c].bts = "none"
        <5>1. card[c].bts \in Threads
          BY DEF Typed, Kinds, CardRec
        <5> QED  BY <4>2, <4>3, <5>1 DEF IsBusy, Threads
      <4>5. PICK k \in Cards : card[k].host = c /\ card[k].pending > 0
        BY <1>5, <3>3, <4>4
      <4>6. Alive(k) /\ k \notin L \ K
        BY <1>2, <4>5
      <4> QED  BY <4>2, <4>5, <4>6 DEF Referenced
    <3> QED  BY <3>2, <3>3
  <2> QED  BY <2>1 DEF Gone
<1>7. L \subseteq L \ K
  <2>1. L \ K \in SUBSET Cards
    BY DEF Losses
  <2> QED  BY <1>6, <2>1 DEF Losses
<1> QED  BY <1>0, <1>1, <1>7

(* Who waits is not released.                                              *)
LEMMA LivingKept ==
  ASSUME Core, Counted, AllTold, Kinds', Does, ~Spoiled'
  PROVE  \A c \in Cards : Living(c)'
<1>0. Typed /\ Shape /\ Resting /\ Flags /\ Life /\ Counts /\ \A c \in Cards : Living(c)
  BY DEF Core, Counted, AllTold, Told
<1>1. ASSUME NEW c \in Cards, card'[c].pending > 0 PROVE card[c].pending > 0 \/ Alive(c)
  <2>1. CASE Abides
    BY <1>1, <2>1 DEF Abides
  <2>2. ASSUME NEW k \in Cards, DisposeStep(k) PROVE card[c].pending > 0 \/ Alive(c)
    <3>1. At("dispose", k, 0)
      BY <2>2 DEF DisposeStep
    <3>2. Alive(k)
      BY <1>0, <3>1, CallAlive
    <3> QED  BY <1>1, <2>2, <3>2 DEF DisposeStep, OtherCards
  <2>3. ASSUME NEW k \in Cards, ArriveStep(k) PROVE card[c].pending > 0 \/ Alive(c)
    <3>1. At("arrive", k, 0)
      BY <2>3 DEF ArriveStep
    <3>2. Alive(k)
      BY <1>0, <3>1, CallAlive
    <3> QED  BY <1>1, <2>3, <3>2 DEF ArriveStep, OtherCards
  <2> QED  BY <1>0, <2>1, <2>2, <2>3, AbidesOrNot
<1>2. ASSUME NEW c \in Cards, card'[c].pending > 0 PROVE Alive(c)'
  <2>1. Alive(c)
    BY <1>0, <1>1, <1>2 DEF Living
  <2>2. CASE Lives
    BY <2>1, <2>2 DEF Lives
  <2>3. CASE Frees
    <3>1. PICK loads \in SUBSET (Realms \X Nat) : Freeing(loads)
      BY <2>3 DEF Frees
    <3>2. stack = <<>>
      BY <2>3 DEF Frees
    <3>3. \A k \in Cards : card[k].pending > 0 => k \notin Releasable(loads)
      BY <1>0, <3>1, <3>2, WaitersStay
    <3>4. card[c].pending > 0 /\ (c \notin Releasable(loads) => card'[c].st = card[c].st)
      BY <1>2, <3>1 DEF Freeing
    <3> QED  BY <2>1, <3>3, <3>4 DEF Alive
  <2> QED  BY <1>0, <2>2, <2>3, AliveKept
<1> QED  BY <1>2 DEF Living

(* A step that takes no record, node or place of a card that waits.        *)
Mutes == \A k \in Cards :
   /\ card'[k].wait = "next" => card[k].wait = "next" \/ On("records", k, 0)
   /\ card[k].root => card'[k].root
   /\ <<k, FALSE>> \in changes \cup taken => <<k, FALSE>> \in changes' \cup taken'

(* The steps that may.                                                     *)
LEMMA MuteOrNot ==
  ASSUME Typed, Shape, Exposed, Kinds', Does
  PROVE  Mutes \/ RecordStep \/ \E r \in Realms : ResetStep(r)
<1> DEFINE Goal == Mutes \/ RecordStep \/ \E r \in Realms : ResetStep(r)
<1>1. ASSUME NEW r \in Realms, NEW s \in Srcs, SourceStep(r, s) PROVE Goal
  BY <1>1 DEF SourceStep, Mutes, OtherCards, Freeing, SameLinks
<1>2. ASSUME NEW r \in Realms, NEW s \in Srcs, SetSrcStep(r, s) PROVE Goal
  BY <1>2 DEF SetSrcStep, Mutes, OtherCards, Freeing, SameLinks
<1>3. ASSUME NEW r \in Realms, NEW g \in Nat, StartStep(r, g) PROVE Goal
  BY ZenonT(60), <1>3 DEF StartStep, Mutes, OtherCards, Freeing, SameLinks
<1>4. ASSUME NEW r \in Realms, NEW g \in Nat, RunStartStep(r, g) PROVE Goal
  BY <1>4 DEF RunStartStep, Mutes, OtherCards, Freeing, SameLinks
<1>5. ASSUME NEW r \in Realms, NEW g \in Nat, FetchStep(r, g) PROVE Goal
  BY <1>5 DEF FetchStep, Mutes, OtherCards, Freeing, SameLinks
<1>6. ASSUME NEW r \in Realms, NEW d \in Conts, d = "frames" => r \in Cards, CloseStep(r, d) PROVE Goal
  BY ZenonT(60), <1>6 DEF CloseStep, Mutes, OtherCards, Freeing, SameLinks
<1>7. ASSUME NEW r \in Realms, ResetStep(r) PROVE Goal
  BY <1>7
<1>8. ASSUME NEW r \in Realms, IdleStep(r) PROVE Goal
  BY <1>8 DEF IdleStep, Mutes, OtherCards, Freeing, SameLinks
<1>9. ASSUME NEW r \in Realms, HearStep(r) PROVE Goal
  BY <1>9 DEF HearStep, Mutes, OtherCards, Freeing, SameLinks
<1>10. ASSUME NEW r \in Realms, MoveStep(r) PROVE Goal
  BY <1>10 DEF MoveStep, Mutes, OtherCards, Freeing, SameLinks
<1>11. ASSUME NEW c \in Cards, BootStep(c) PROVE Goal
  BY ZenonT(60), <1>11 DEF BootStep, Mutes, OtherCards, Freeing, SameLinks
<1>12. ASSUME NEW c \in Cards, LoadedStep(c) PROVE Goal
  BY <1>12 DEF LoadedStep, Mutes, OtherCards, Freeing, SameLinks
<1>13. ASSUME NEW c \in Cards, DisposeStep(c) PROVE Goal
  BY ZenonT(60), <1>13 DEF DisposeStep, Mutes, OtherCards, Freeing, SameLinks
<1>14. ASSUME NEW c \in Cards, OwingStep(c) PROVE Goal
  BY <1>14 DEF OwingStep, Mutes, OtherCards, Freeing, SameLinks
<1>15. ASSUME NEW c \in Cards, FramesStep(c) PROVE Goal
  BY <1>15 DEF FramesStep, Mutes, OtherCards, Freeing, SameLinks
<1>16. ASSUME NEW c \in Cards, RecordsStep(c) PROVE Goal
  <2>1. On("records", c, 0)
    <3>1. At("records", c, 0)
      BY <1>16 DEF RecordsStep
    <3> QED  BY <3>1, AtFacts DEF On
  <2> QED  BY <1>16, <2>1 DEF RecordsStep, Mutes, OtherCards, SameLinks
<1>17. ASSUME NEW c \in Cards, ArriveStep(c) PROVE Goal
  BY <1>17 DEF ArriveStep, Mutes, OtherCards, Freeing, SameLinks
<1>18. ASSUME NEW c \in Cards, FlushStep(c) PROVE Goal
  BY <1>18 DEF FlushStep, Mutes, OtherCards, Freeing, SameLinks
<1>19. ASSUME NEW c \in Cards, CloseRealmStep(c) PROVE Goal
  BY <1>19 DEF CloseRealmStep, Mutes, OtherCards, Freeing, SameLinks
<1>20. ASSUME NEW c \in Cards, AckStep(c) PROVE Goal
  BY <1>20 DEF AckStep, Mutes, OtherCards, Freeing, SameLinks
<1>21. ASSUME NEW c \in Cards, BtsStep(c) PROVE Goal
  BY <1>21 DEF BtsStep, Mutes, OtherCards, Freeing, SameLinks
<1>22. ASSUME NEW c \in Cards, ObserveStep(c) PROVE Goal
  BY <1>22 DEF ObserveStep, Mutes, OtherCards, Freeing, SameLinks
<1>23. CASE HeardStep
  BY <1>23 DEF HeardStep, Mutes, OtherCards, Freeing, SameLinks
<1>24. CASE EpilogueStep
  BY <1>24 DEF EpilogueStep, Mutes, OtherCards, Freeing, SameLinks
<1>25. CASE OpenStep
  BY <1>25 DEF OpenStep, Mutes, OtherCards, Freeing, SameLinks
<1>26. CASE OpenEventsStep
  BY <1>26 DEF OpenEventsStep, Mutes, OtherCards, Freeing, SameLinks
<1>27. CASE OpenRecordsStep
  <2>1. taken = {}
    BY <1>27 DEF OpenRecordsStep, Exposed
  <2> QED  BY <1>27, <2>1 DEF OpenRecordsStep, Mutes
<1>28. CASE RecordStep
  BY <1>28
<1>29. CASE BeginStep
  BY <1>29 DEF BeginStep, Mutes, OtherCards, Freeing, SameLinks
<1> QED  BY <1>1, <1>2, <1>3, <1>4, <1>5, <1>6, <1>7, <1>8, <1>9, <1>10, <1>11, <1>12, <1>13,
            <1>14, <1>15, <1>16, <1>17, <1>18, <1>19, <1>20, <1>21, <1>22, <1>23, <1>24, <1>25,
            <1>26, <1>27, <1>28, <1>29 DEF Does

(* What a reset takes down has posted its last list.                       *)
LEMMA ResetSettled ==
  ASSUME Core, Counted, Ends, Roots, AllTold, NEW r \in Realms, ResetStep(r), frame[r].owed = 1
  PROVE  \A k \in Under(r) : ~Out(k)
<1>0. Typed /\ Shape /\ Flags /\ Life /\ Counts /\ Voids
  BY DEF Core, Counted, Ends
<1>1. At("reset", r, 0)
  BY DEF ResetStep
<1>2. OwedAt(r)
  BY <1>0, <1>1, ResetOwed
<1> DEFINE S == {k \in Cards : ~Out(k)}
<1>3. ASSUME NEW k \in Cards, card[k].root, card[k].host = r PROVE ~Out(k)
  <2>1. card[k].done # "none"
    <3>1. Rooted(k)
      BY <1>3 DEF Roots
    <3>2. card[k].done = "none" => frame[r].dispose = k
      BY <1>3, <3>1 DEF Rooted
    <3>3. frame[r].dispose = 0
      <4>1. ~At("close", r, "reset")
        BY <1>1 DEF At
      <4>2. frame[r].owed > 0
        OBVIOUS
      <4> QED  BY <4>1, <4>2 DEF Counted, Closes
    <3>4. k # 0
      BY AnItem
    <3> QED  BY <3>2, <3>3, <3>4
  <2>2. CASE card[k].done = "reset"
    <3>1. If(<<"reset", r, 0>>, Resets(r)) = 1
      BY Weights
    <3>2. Count(stack, Resets(r)) = If(<<"reset", r, 0>>, Resets(r)) + Count(Pop, Resets(r)) /\ Count(Pop, Resets(r)) \in Nat
      BY <1>0, <1>1, TopCounts
    <3>3. IsFiniteSet(Hosted(r, "reset")) /\ Cardinality(Hosted(r, "reset")) \in Nat
      BY <1>0, HostedNat
    <3>4. Cardinality(Hosted(r, "reset")) = 0
      BY <1>2, <3>1, <3>2, <3>3 DEF OwedAt
    <3>5. Hosted(r, "reset") = {}
      BY <3>3, <3>4, FS_EmptySet
    <3> QED  BY <1>3, <2>2, <3>5 DEF Hosted
  <2>3. CASE card[k].done = "frames"
    <3>1. Listed(k)
      BY DEF AllTold, Told
    <3>2. frame[card[k].host].owed = 1
      BY <1>3
    <3> QED  BY <2>3, <3>1, <3>2 DEF Listed
  <2>4. CASE card[k].done = "nothing"
    <3>1. entry = "ended"
      BY <1>0, <2>4 DEF Voids
    <3>2. Top[1] \in EndCalls
      BY <1>0, <1>1, <3>1, EndCall DEF At
    <3> QED  BY <1>1, <3>2 DEF At, EndCalls
  <2>5. card[k].done \in Dones
    BY <1>0 DEF Typed, Kinds, CardRec
  <2> QED  BY <2>1, <2>2, <2>3, <2>4, <2>5 DEF Dones, Conts
<1>4. ASSUME NEW k \in Cards, card[k].root, card[k].host \in S PROVE ~Out(k)
  <2>1. PICK h \in Cards : h = card[k].host /\ ~Out(h)
    BY <1>4
  <2>2. Settled(h)
    BY DEF AllTold, Told
  <2> QED  BY <1>4, <2>1, <2>2 DEF Settled
<1>5. Nests(r, S)
  BY <1>3, <1>4 DEF Nests
<1>6. Under(r) \subseteq S
  BY <1>5 DEF Under
<1> QED  BY <1>6

(* The record a card waits for is on its way until it is there.            *)
LEMMA HeraldsKept ==
  ASSUME Core, Counted, Exposed, Ends, Roots, AllTold, Kinds', Does
  PROVE  \A c \in Cards : Heralds(c)'
<1>0. Typed /\ Shape /\ Resting /\ Flags /\ Life /\ Counts
  BY DEF Core, Counted
<1> SUFFICES ASSUME NEW c \in Cards, card'[c].wait = "next" \/ On("records", c, 0)'
             PROVE  card'[c].root /\ <<c, FALSE>> \in changes' \cup taken'
  BY DEF Heralds
<1>1. Heralds(c) /\ Living(c)
  BY DEF AllTold, Told
<1>2. CASE Mutes
  <2>1. CASE card[c].wait = "next" \/ On("records", c, 0)
    BY <1>1, <1>2, <2>1 DEF Heralds, Mutes
  <2>2. CASE ~(card[c].wait = "next" \/ On("records", c, 0))
    <3>1. On("records", c, 0)'
      BY <1>2, <2>2 DEF Mutes
    <3>2. card[c].shown /\ DisposeStep(c)
      BY <1>0, <2>2, <3>1, RecordsFrom
    <3>3. card[c].root
      BY <3>2 DEF Counted, Watches, Watch
    <3> QED  BY <3>2, <3>3 DEF DisposeStep
  <2> QED  BY <2>1, <2>2
<1>3. ASSUME NEW r \in Realms, ResetStep(r) PROVE card'[c].root /\ <<c, FALSE>> \in changes' \cup taken'
  <2>1. On("records", c, 0)' => On("records", c, 0)
    <3>1. ~DisposeStep(c)
      BY <1>3 DEF ResetStep, DisposeStep, At
    <3> QED  BY <1>0, <3>1, RecordsFrom
  <2>2. card[c].wait = "next" \/ On("records", c, 0)
    BY <1>3, <2>1 DEF ResetStep
  <2>3. card[c].root /\ <<c, FALSE>> \in changes \cup taken
    BY <1>1, <2>2 DEF Heralds
  <2>4. Out(c)
    BY <1>0, <2>2, PendingParts DEF Out
  <2>5. frame[r].owed = 1 => c \notin Under(r)
    BY <1>3, <2>4, ResetSettled
  <2> QED  BY <1>3, <2>3, <2>5 DEF ResetStep, SameLinks
<1>4. CASE RecordStep
  <2>1. ~On("records", c, 0)'
    BY <1>4, NoCall DEF RecordStep, On
  <2>2. card[c].wait = "next" /\ ~Reached(c)
    BY <1>4, <2>1 DEF RecordStep
  <2>3. card[c].root /\ <<c, FALSE>> \in changes \cup taken
    BY <1>1, <2>2 DEF Heralds
  <2>4. card[c].pending > 0
    BY <1>0, <2>2, PendingParts
  <2>5. Alive(c)
    BY <1>1, <2>4 DEF Living
  <2>6. ~card[c].retired
    <3>1. card[c].pending # 0
      BY <2>4
    <3> QED  BY <3>1 DEF Counted, Partings, Parts
  <2> QED  BY <2>2, <2>3, <2>5, <2>6 DEF Reached
<1> QED  BY <1>0, <1>2, <1>3, <1>4, MuteOrNot

(* Who has posted its last list has, and only arrivals post one.           *)
LEMMA OverFrom ==
  ASSUME Core, Counts, Kinds', Does, NEW c \in Cards
  PROVE  /\ ~Out(c) => ~Out(c)'
         /\ ~Out(c)' => ~Out(c) \/ ArriveStep(c)
<1>0. Typed /\ Shape /\ Resting /\ Flags /\ card[c].pending \in Int
  BY CardNumbers DEF Core
<1>1. CASE Abides
  <2>1. Out(c)' <=> Out(c)
    BY <1>1 DEF Abides, Out
  <2> QED  BY <2>1
<1>2. ASSUME NEW k \in Cards, DisposeStep(k) PROVE (~Out(c) => ~Out(c)') /\ (~Out(c)' => ~Out(c))
  <2>1. CASE c = k
    <3>1. ~card[c].disposed
      BY <1>0, <1>2, <2>1 DEF DisposeStep, Flags
    <3>2. card'[c].pending = 2
      BY <1>2, <2>1 DEF DisposeStep
    <3> QED  BY <3>1, <3>2 DEF Out
  <2>2. CASE c # k
    <3>1. Out(c)' <=> Out(c)
      BY <1>2, <2>2 DEF DisposeStep, OtherCards, Out
    <3> QED  BY <3>1
  <2> QED  BY <2>1, <2>2
<1>3. ASSUME NEW k \in Cards, ArriveStep(k) PROVE (~Out(c) => ~Out(c)') /\ (~Out(c)' => ~Out(c) \/ ArriveStep(c))
  <2>1. CASE c = k
    <3>1. card'[c].pending = card[c].pending - 1 /\ (card'[c].disposed <=> card[c].disposed)
      BY <1>3, <2>1 DEF ArriveStep
    <3>2. ~Out(c) => ~Out(c)'
      BY <1>0, <3>1 DEF Out
    <3> QED  BY <1>3, <2>1, <3>2
  <2>2. CASE c # k
    <3>1. Out(c)' <=> Out(c)
      BY <1>3, <2>2 DEF ArriveStep, OtherCards, Out
    <3> QED  BY <3>1
  <2> QED  BY <2>1, <2>2
<1> QED  BY <1>0, <1>1, <1>2, <1>3, AbidesOrNot

(* Whom a card tells is settled by its frame's close.                      *)
LEMMA DoneFrom ==
  ASSUME Core, Kinds', Does, NEW k \in Cards
  PROVE  \/ card'[k].done = card[k].done
         \/ \E r \in Realms, d \in Conts : Disposes(r, d, k)
<1>0. Typed /\ Shape /\ Resting
  BY DEF Core
<1>1. CASE Quick
  BY <1>1 DEF Quick
<1>2. ASSUME NEW r \in Realms, NEW d \in Conts, NEW c \in Cards, Disposes(r, d, c)
      PROVE  card'[k].done = card[k].done \/ Disposes(r, d, k)
  <2>1. CASE c = k
    BY <1>2, <2>1
  <2>2. CASE c # k
    BY <1>2, <2>2 DEF Disposes, OtherCards
  <2> QED  BY <2>1, <2>2
<1>3. ASSUME NEW c \in Cards, DisposeStep(c) PROVE card'[k].done = card[k].done
  BY <1>3 DEF DisposeStep, OtherCards
<1> QED  BY <1>0, <1>1, <1>2, <1>3, LettingGo

(* A card that waits for what its frame owes has looked that up.           *)
LEMMA OwingFrames ==
  ASSUME Typed, Shape, NEW c \in Cards, On("owing", c, 0)
  PROVE  On("frames", c, 0)
<1> PICK w \in Seq(Items) : w = stack
  BY DEF Typed, Kinds
<1>1. PICK i \in DOMAIN w : w[i] = <<"owing", c, 0>>
  BY DEF On, Within
<1>2. i \in 1..Len(w)
  BY <1>1
<1>3. i < Len(w) /\ w[i + 1] = <<"frames", w[i][2], 0>>
  BY <1>1, <1>2 DEF Shape, Nested
<1>4. i + 1 \in DOMAIN w /\ w[i + 1] = <<"frames", c, 0>>
  BY <1>1, <1>2, <1>3
<1> QED  BY <1>4 DEF On, Within

(* The last of what a card let go of waits for: nothing of its frame's is  *)
(* left to be waited for.                                                  *)
LEMMA AllArrived ==
  ASSUME Core, Counted, AllTold, NEW c \in Cards, At("arrive", c, 0), card[c].pending = 1
  PROVE  Hosted(c, "frames") = {} /\ Hosted(c, "reset") = {}
<1>0. Typed /\ Shape /\ Flags /\ Life /\ Counts /\ c \in Realms /\ c # Page
  BY AnItem DEF Core, Counted
<1>1. /\ PendingAt(c) /\ card[c].frames \in Int
      /\ \A these : Count(stack, these) \in Nat
      /\ Count(frame[c].after, Later(c)) \in Nat
  BY <1>0, CardFacts
<1>2. Alive(c) /\ Stays(c)
  <2>1. Alive(c)
    BY <1>0, CallAlive
  <2> QED  BY <1>0, <2>1 DEF Alive, Stays
<1>3. Count(stack, Arrives(c)) >= 1
  <2>1. If(<<"arrive", c, 0>>, Arrives(c)) = 1
    BY Weights
  <2>2. Count(stack, Arrives(c)) = If(<<"arrive", c, 0>>, Arrives(c)) + Count(Pop, Arrives(c)) /\ Count(Pop, Arrives(c)) \in Nat
    BY <1>0, TopCounts
  <2> QED  BY <2>1, <2>2
<1>4. card[c].frames = 0
  <2>1. card[c].pending = Count(stack, Arrives(c)) + Count(stack, Records(c)) + Waiter(c) + Framed(c)
        /\ card[c].frames >= 0
    BY <1>1 DEF PendingAt
  <2>2. Waiter(c) \in Nat /\ Framed(c) \in Nat
    BY DEF Waiter, Framed
  <2>3. Count(stack, Records(c)) \in Nat /\ Count(stack, Arrives(c)) \in Nat
    BY <1>1
  <2>4. Framed(c) = 0
    BY <1>3, <2>1, <2>2, <2>3
  <2>5. ~(card[c].frames > 0)
    BY <2>4 DEF Framed
  <2> QED  BY <1>1, <2>1, <2>5
<1>5. /\ IsFiniteSet(Hosted(c, "frames")) /\ Cardinality(Hosted(c, "frames")) \in Nat
      /\ IsFiniteSet(Hosted(c, "reset")) /\ Cardinality(Hosted(c, "reset")) \in Nat
  BY <1>0, HostedNat
<1>6. /\ Count(stack, Lists(c)) = 0 /\ Count(frame[c].after, Later(c)) = 0
      /\ Cardinality(Hosted(c, "frames")) = 0
  <2>1. card[c].frames = Count(stack, Lists(c)) + Count(frame[c].after, Later(c)) + Cardinality(Hosted(c, "frames"))
    BY <1>0, <1>2 DEF Counts, ListedAt
  <2>2. Count(stack, Lists(c)) \in Nat
    BY <1>1
  <2> QED  BY <1>1, <1>4, <1>5, <2>1, <2>2
<1>7. ~(frame[c].owed > 0)
  <2>1. card[c].disposed
    <3>1. On("arrive", c, 0)
      BY <1>0, AtFacts DEF On
    <3> QED  BY <1>0, <3>1 DEF Flags
  <2>2. ~On("owing", c, 0)
    <3>1. SUFFICES ASSUME On("frames", c, 0) PROVE FALSE
      BY <1>0, OwingFrames
    <3> PICK w \in Seq(Items) : w = stack
      BY <1>0 DEF Typed, Kinds
    <3>2. <<"frames", c, 0>> \in Lists(c)
      BY DEF Lists
    <3>3. \A x \in Lists(c) : x \in Within(w) => Count(w, Lists(c)) >= 1
      BY WithinCount
    <3>4. Count(w, Lists(c)) >= 1
      BY <3>1, <3>2, <3>3 DEF On
    <3> QED  BY <1>6, <3>4
  <2>3. <<"frames", c, 0>> \notin Within(frame[c].after)
    <3> PICK w \in Seq(AfterItems) : w = frame[c].after
      BY <1>0 DEF Typed, Kinds, FrameRec
    <3>2. <<"frames", c, 0>> \in Later(c)
      BY DEF Later
    <3>3. \A x \in Later(c) : x \in Within(w) => Count(w, Later(c)) >= 1
      BY WithinCount
    <3> QED  BY <1>6, <3>2, <3>3
  <2>4. Owned(c)
    BY DEF AllTold, Told
  <2> QED  BY <1>2, <2>1, <2>2, <2>3, <2>4 DEF Owned
<1>8. Cardinality(Hosted(c, "reset")) = 0
  <2>1. frame[c].owed = Count(stack, Resets(c)) + Cardinality(Hosted(c, "reset"))
    BY <1>0, <1>2 DEF Counts, OwedAt
  <2>2. frame[c].owed \in Int
    BY <1>0, CardNumbers
  <2>3. Count(stack, Resets(c)) \in Nat
    BY <1>1
  <2> QED  BY <1>5, <1>7, <2>1, <2>2, <2>3
<1> QED  BY <1>5, <1>6, <1>8, FS_EmptySet

(* A card that waits no more has none under it that waits.                 *)
LEMMA SettledKept ==
  ASSUME Core, LetGoes, Counted, Ends, Roots, AllTold, ~Spoiled, Kinds', Does
  PROVE  \A c \in Cards : Settled(c)'
<1>0. Typed /\ Shape /\ Resting /\ Flags /\ Links /\ Runs /\ Life /\ BootJobs /\ Counts /\ Voids
  BY DEF Core, Counted, Ends
<1> SUFFICES ASSUME NEW c \in Cards, ~Out(c)', NEW k \in Cards, card'[k].root, card'[k].host = c
             PROVE  card'[k].done # "none" /\ ~Out(k)'
  BY DEF Settled
<1>1. Settled(c)
  BY DEF AllTold, Told
<1>2. card[k].done # "none" => card'[k].done # "none"
  BY DoneFrom DEF Disposes, Conts
<1>3. \A q \in Realms : ~frame[q].late
  BY DEF Spoiled
<1>4. c \in Realms /\ c # Page /\ k # 0
  BY AnItem
<1>5. CASE ~Out(c)
  <2>1. CASE card[k].root
    <3>1. card[k].host = c
      <4>1. card[k].st # "unmade"
        BY <1>0, <2>1, RootMade
      <4> QED  BY <1>0, <4>1, HostStays
    <3> QED  BY <1>0, <1>1, <1>2, <1>5, <2>1, <3>1, OverFrom DEF Settled
  <2>2. CASE ~card[k].root
    <3>1. PICK b \in Cards : BootStep(b)
      <4>1. ~Grounded
        BY <2>2 DEF Grounded
      <4>2. ASSUME NEW r \in Realms, NEW d \in Conts, CloseStep(r, d) PROVE FALSE
        BY <2>2, <4>2 DEF CloseStep, OtherCards
      <4>3. ASSUME NEW r \in Realms, ResetStep(r) PROVE FALSE
        BY <2>2, <4>3 DEF ResetStep
      <4> QED  BY <1>0, <4>1, <4>2, <4>3, GroundedOrNot DEF Uproots
    <3>2. BootStep(k) /\ card[k].host = c /\ Current(k) /\ stack = <<>> /\ <<"boot", k, 0>> \in jobs
      <4>1. b = k
        BY <2>2, <3>1 DEF BootStep, OtherCards
      <4> QED  BY <2>2, <3>1, <4>1 DEF BootStep
    <3>3. frame[c].realm = k
      BY <1>0, <3>2 DEF BootJobs
    <3>4. frame[c].loaded
      BY <1>0, <1>4, <3>3, LinksMeans DEF Kept
    <3>5. ~card[c].disposed
      BY <1>3, <1>4, <3>2, <3>4 DEF LetGoes, At
    <3> QED  BY <1>5, <3>5 DEF Out
  <2> QED  BY <2>1, <2>2
<1>6. CASE Out(c)
  <2>1. ArriveStep(c) /\ At("arrive", c, 0)
    <3>1. ArriveStep(c)
      BY <1>0, <1>6, OverFrom
    <3> QED  BY <3>1 DEF ArriveStep
  <2>2. card[c].disposed
    <3>1. On("arrive", c, 0)
      BY <1>0, <2>1, AtFacts DEF On
    <3> QED  BY <1>0, <3>1 DEF Flags
  <2>3. card[c].pending = 1
    <3>1. card[c].pending > 0 /\ ~(card'[c].pending > 0)
      BY <1>6, <2>2 DEF Out
    <3>2. card'[c].pending = card[c].pending - 1
      BY <2>1 DEF ArriveStep
    <3>3. card[c].pending \in Int
      BY <1>0, CardNumbers
    <3> QED  BY <3>1, <3>2, <3>3
  <2>4. CASE k = c
    <3>1. card[k].done # "none"
      BY <1>0, <2>2, <2>4 DEF Flags
    <3> QED  BY <1>2, <2>4, <3>1
  <2>5. CASE k # c
    <3>1. card[k].root /\ card[k].host = c /\ (~Out(k) => ~Out(k)')
      <4>1. card'[k] = card[k]
        BY <2>1, <2>5 DEF ArriveStep, OtherCards
      <4> QED  BY <1>0, <4>1, OverFrom
    <3>2. card[k].done # "none"
      <4>1. SUFFICES ASSUME card[k].done = "none" PROVE FALSE
        OBVIOUS
      <4>2. frame[c].dispose = k
        BY <3>1, <4>1 DEF Roots, Rooted
      <4>3. frame[c].realm = k
        BY <1>0, <1>4, <4>2, LinksMeans DEF Ready
      <4>4. frame[c].loaded
        BY <1>0, <1>4, <4>3, LinksMeans DEF Kept
      <4>5. ~At("close", c, "frames")
        BY <2>1 DEF At
      <4> QED  BY <1>3, <1>4, <2>2, <4>4, <4>5 DEF LetGoes
    <3>3. Hosted(c, "frames") = {} /\ Hosted(c, "reset") = {}
      BY <2>1, <2>3, AllArrived
    <3>4. card[k].done # "nothing"
      BY <1>0, <1>4, <3>1 DEF Voids
    <3>5. card[k].done \in Dones
      BY <1>0 DEF Typed, Kinds, CardRec
    <3>6. card[k].done \in {"reset", "frames"}
      BY <3>2, <3>4, <3>5 DEF Dones, Conts
    <3>7. ~Out(k)
      BY <3>1, <3>3, <3>6 DEF Hosted
    <3> QED  BY <1>2, <3>1, <3>2, <3>7
  <2> QED  BY <2>4, <2>5
<1> QED  BY <1>5, <1>6

(* What is owed is looked up once.                                         *)
LEMMA OwingRuns ==
  ASSUME Typed, Resting, Kinds', Does, NEW p \in Cards, At("owing", p, 0), ~On("owing", p, 0)'
  PROVE  \E q \in Cards : OwingStep(q)
<1> DEFINE Goal == \E q \in Cards : OwingStep(q)
<1>1. ASSUME NEW r \in Realms, NEW s \in Srcs, SourceStep(r, s) PROVE Goal
  BY <1>1 DEF SourceStep, At, AppRuns, Resting
<1>2. ASSUME NEW r \in Realms, NEW s \in Srcs, SetSrcStep(r, s) PROVE Goal
  BY SMTT(30), <1>2 DEF SetSrcStep, At, AppRuns, Resting
<1>3. ASSUME NEW r \in Realms, NEW g \in Nat, StartStep(r, g) PROVE Goal
  BY <1>3 DEF StartStep, At, AppRuns, Resting
<1>4. ASSUME NEW r \in Realms, NEW g \in Nat, RunStartStep(r, g) PROVE Goal
  BY <1>4 DEF RunStartStep, At, AppRuns, Resting
<1>5. ASSUME NEW r \in Realms, NEW g \in Nat, FetchStep(r, g) PROVE Goal
  BY <1>5 DEF FetchStep, At, AppRuns, Resting
<1>6. ASSUME NEW r \in Realms, NEW d \in Conts, d = "frames" => r \in Cards, CloseStep(r, d) PROVE Goal
  BY <1>6 DEF CloseStep, At, AppRuns, Resting
<1>7. ASSUME NEW r \in Realms, ResetStep(r) PROVE Goal
  BY <1>7 DEF ResetStep, At, AppRuns, Resting
<1>8. ASSUME NEW r \in Realms, IdleStep(r) PROVE Goal
  BY <1>8 DEF IdleStep, At, AppRuns, Resting
<1>9. ASSUME NEW r \in Realms, HearStep(r) PROVE Goal
  BY <1>9 DEF HearStep, At, AppRuns, Resting
<1>10. ASSUME NEW r \in Realms, MoveStep(r) PROVE Goal
  BY <1>10 DEF MoveStep, At, AppRuns, Resting
<1>11. ASSUME NEW c \in Cards, BootStep(c) PROVE Goal
  BY <1>11 DEF BootStep, At, AppRuns, Resting
<1>12. ASSUME NEW c \in Cards, LoadedStep(c) PROVE Goal
  BY <1>12 DEF LoadedStep, At, AppRuns, Resting
<1>13. ASSUME NEW c \in Cards, DisposeStep(c) PROVE Goal
  BY <1>13 DEF DisposeStep, At, AppRuns, Resting
<1>14. ASSUME NEW c \in Cards, OwingStep(c) PROVE Goal
  BY <1>14
<1>15. ASSUME NEW c \in Cards, FramesStep(c) PROVE Goal
  BY <1>15 DEF FramesStep, At, AppRuns, Resting
<1>16. ASSUME NEW c \in Cards, RecordsStep(c) PROVE Goal
  BY <1>16 DEF RecordsStep, At, AppRuns, Resting
<1>17. ASSUME NEW c \in Cards, ArriveStep(c) PROVE Goal
  BY <1>17 DEF ArriveStep, At, AppRuns, Resting
<1>18. ASSUME NEW c \in Cards, FlushStep(c) PROVE Goal
  BY <1>18 DEF FlushStep, At, AppRuns, Resting
<1>19. ASSUME NEW c \in Cards, CloseRealmStep(c) PROVE Goal
  BY <1>19 DEF CloseRealmStep, At, AppRuns, Resting
<1>20. ASSUME NEW c \in Cards, AckStep(c) PROVE Goal
  BY <1>20 DEF AckStep, At, AppRuns, Resting
<1>21. ASSUME NEW c \in Cards, BtsStep(c) PROVE Goal
  BY <1>21 DEF BtsStep, At, AppRuns, Resting
<1>22. ASSUME NEW c \in Cards, ObserveStep(c) PROVE Goal
  BY <1>22 DEF ObserveStep, At, AppRuns, Resting
<1>23. CASE HeardStep
  BY <1>23 DEF HeardStep, At, AppRuns, Resting
<1>24. CASE EpilogueStep
  BY <1>24 DEF EpilogueStep, At, AppRuns, Resting
<1>25. CASE OpenStep
  BY <1>25 DEF OpenStep, At, AppRuns, Resting
<1>26. CASE OpenEventsStep
  BY <1>26 DEF OpenEventsStep, At, AppRuns, Resting
<1>27. CASE OpenRecordsStep
  BY <1>27 DEF OpenRecordsStep, At, AppRuns, Resting
<1>28. CASE RecordStep
  BY <1>28 DEF RecordStep, At, AppRuns, Resting
<1>29. CASE BeginStep
  BY <1>29 DEF BeginStep, At, AppRuns, Resting
<1> QED  BY <1>1, <1>2, <1>3, <1>4, <1>5, <1>6, <1>7, <1>8, <1>9, <1>10, <1>11, <1>12, <1>13,
            <1>14, <1>15, <1>16, <1>17, <1>18, <1>19, <1>20, <1>21, <1>22, <1>23, <1>24, <1>25,
            <1>26, <1>27, <1>28, <1>29 DEF Does

(* What is put off stays until its reset.                                  *)
LEMMA AfterGrows ==
  ASSUME Typed, Kinds', Does
  PROVE  \/ \A q \in Realms : Within(frame[q].after) \subseteq Within(frame'[q].after)
         \/ \E r \in Realms : ResetStep(r)
<1> DEFINE Goal ==
  \/ \A q \in Realms : Within(frame[q].after) \subseteq Within(frame'[q].after)
  \/ \E r \in Realms : ResetStep(r)
<1>1. ASSUME NEW r \in Realms, NEW s \in Srcs, SourceStep(r, s) PROVE Goal
  BY <1>1 DEF SourceStep, Others, SameLoads
<1>2. ASSUME NEW r \in Realms, NEW s \in Srcs, SetSrcStep(r, s) PROVE Goal
  BY SMTT(30), <1>2 DEF SetSrcStep, Others, SameLoads
<1>3. ASSUME NEW r \in Realms, NEW g \in Nat, StartStep(r, g) PROVE Goal
  <2>1. CASE frame'[r].after = frame[r].after
    BY <1>3, <2>1 DEF StartStep, Others
  <2>2. CASE frame'[r].after = Append(frame[r].after, <<"start", r, g>>)
    <3>1. <<"start", r, g>> \in AfterItems /\ r \in Realms
      BY SMTT(30), AnItem DEF AfterItems
    <3>2. Within(frame'[r].after) = Within(frame[r].after) \cup {<<"start", r, g>>}
      BY <2>2, <3>1, AfterPut
    <3> QED  BY <1>3, <3>2 DEF StartStep, Others
  <2> QED  BY <1>3, <2>1, <2>2 DEF StartStep
<1>4. ASSUME NEW r \in Realms, NEW g \in Nat, RunStartStep(r, g) PROVE Goal
  BY <1>4 DEF RunStartStep, Others, SameLoads
<1>5. ASSUME NEW r \in Realms, NEW g \in Nat, FetchStep(r, g) PROVE Goal
  BY <1>5 DEF FetchStep, Others, SameLoads
<1>6. ASSUME NEW r \in Realms, NEW d \in Conts, d = "frames" => r \in Cards, CloseStep(r, d) PROVE Goal
  BY <1>6 DEF CloseStep, Others, SameLoads
<1>7. ASSUME NEW r \in Realms, ResetStep(r) PROVE Goal
  BY <1>7
<1>8. ASSUME NEW r \in Realms, IdleStep(r) PROVE Goal
  BY <1>8 DEF IdleStep, Others, SameLoads
<1>9. ASSUME NEW r \in Realms, HearStep(r) PROVE Goal
  BY <1>9 DEF HearStep, Others, SameLoads
<1>10. ASSUME NEW r \in Realms, MoveStep(r) PROVE Goal
  BY <1>10 DEF MoveStep, Others, SameLoads
<1>11. ASSUME NEW c \in Cards, BootStep(c) PROVE Goal
  BY <1>11 DEF BootStep, Others, SameLoads
<1>12. ASSUME NEW c \in Cards, LoadedStep(c) PROVE Goal
  BY <1>12 DEF LoadedStep, Others, SameLoads
<1>13. ASSUME NEW c \in Cards, DisposeStep(c) PROVE Goal
  BY SMTT(30), <1>13 DEF DisposeStep, Others, SameLoads
<1>14. ASSUME NEW c \in Cards, OwingStep(c) PROVE Goal
  <2>1. CASE frame'[c].after = frame[c].after
    BY <1>14, <2>1 DEF OwingStep, Others
  <2>2. CASE frame'[c].after = Append(frame[c].after, <<"frames", c, 0>>)
    <3>1. <<"frames", c, 0>> \in AfterItems /\ c \in Realms
      BY SMTT(30), AnItem DEF AfterItems
    <3>2. Within(frame'[c].after) = Within(frame[c].after) \cup {<<"frames", c, 0>>}
      BY <2>2, <3>1, AfterPut
    <3> QED  BY <1>14, <3>2 DEF OwingStep, Others
  <2> QED  BY <1>14, <2>1, <2>2 DEF OwingStep
<1>15. ASSUME NEW c \in Cards, FramesStep(c) PROVE Goal
  BY <1>15 DEF FramesStep, Others, SameLoads
<1>16. ASSUME NEW c \in Cards, RecordsStep(c) PROVE Goal
  BY <1>16 DEF RecordsStep, Others, SameLoads
<1>17. ASSUME NEW c \in Cards, ArriveStep(c) PROVE Goal
  BY <1>17 DEF ArriveStep, Others, SameLoads
<1>18. ASSUME NEW c \in Cards, FlushStep(c) PROVE Goal
  BY <1>18 DEF FlushStep, Others, SameLoads
<1>19. ASSUME NEW c \in Cards, CloseRealmStep(c) PROVE Goal
  BY <1>19 DEF CloseRealmStep, Others, SameLoads
<1>20. ASSUME NEW c \in Cards, AckStep(c) PROVE Goal
  BY <1>20 DEF AckStep, Others, SameLoads
<1>21. ASSUME NEW c \in Cards, BtsStep(c) PROVE Goal
  BY <1>21 DEF BtsStep, Others, SameLoads
<1>22. ASSUME NEW c \in Cards, ObserveStep(c) PROVE Goal
  BY <1>22 DEF ObserveStep, Others, SameLoads
<1>23. CASE HeardStep
  BY <1>23 DEF HeardStep, Others, SameLoads
<1>24. CASE EpilogueStep
  BY <1>24 DEF EpilogueStep, Others, SameLoads
<1>25. CASE OpenStep
  BY <1>25 DEF OpenStep, Others, SameLoads
<1>26. CASE OpenEventsStep
  BY <1>26 DEF OpenEventsStep, Others, SameLoads
<1>27. CASE OpenRecordsStep
  BY <1>27 DEF OpenRecordsStep, Others, SameLoads
<1>28. CASE RecordStep
  BY <1>28 DEF RecordStep, Others, SameLoads
<1>29. CASE BeginStep
  BY <1>29 DEF BeginStep, Others, SameLoads
<1> QED  BY <1>1, <1>2, <1>3, <1>4, <1>5, <1>6, <1>7, <1>8, <1>9, <1>10, <1>11, <1>12, <1>13,
            <1>14, <1>15, <1>16, <1>17, <1>18, <1>19, <1>20, <1>21, <1>22, <1>23, <1>24, <1>25,
            <1>26, <1>27, <1>28, <1>29 DEF Does

(* Only a write, or a frame removed, makes a frame owe more.               *)
LEMMA OwedFrom ==
  ASSUME Core, LetGoes, ~Spoiled, Kinds', Does, NEW q \in Cards, frame'[q].owed > 0, card[q].disposed
  PROVE  frame[q].owed > 0 \/ \E s \in Srcs : On("source", q, s)'
<1>0. Typed /\ Resting /\ q \in Realms /\ q # Page
  BY AnItem DEF Core
<1>1. CASE \A r \in Realms : UNCHANGED frame[r].owed
  BY <1>0, <1>1
<1>2. ASSUME NEW r \in Realms, NEW s \in Srcs, SetSrcStep(r, s)
      PROVE  frame[q].owed > 0 \/ On("source", q, s)'
  <2>1. CASE r = q
    <3>1. <<"source", r, s>> \in Within(stack')
      BY <1>0, <1>2, SetSrcStack
    <3> QED  BY <2>1, <3>1 DEF On
  <2>2. CASE r # q
    BY <1>0, <1>2, <2>2 DEF SetSrcStep, Others
  <2> QED  BY <2>1, <2>2
<1>3. ASSUME NEW r \in Realms, HearStep(r) PROVE frame[q].owed > 0
  <2>1. CASE r = q
    <3>1. stack = <<>>
      BY <1>0, <1>3 DEF HearStep, Resting
    <3>2. ~frame[q].late
      BY <1>0 DEF Spoiled
    <3>3. ~frame[q].loaded
      BY <1>0, <3>1, <3>2 DEF LetGoes, At
    <3> QED  BY <1>3, <2>1, <3>3 DEF HearStep
  <2>2. CASE r # q
    BY <1>0, <1>3, <2>2 DEF HearStep, Others
  <2> QED  BY <2>1, <2>2
<1>4. ASSUME NEW r \in Realms, ResetStep(r) PROVE frame[q].owed > 0
  <2>1. frame[q].owed \in Int
    BY <1>0, CardNumbers
  <2> QED  BY <1>0, <1>4, <2>1 DEF ResetStep
<1> QED  BY <1>0, <1>1, <1>2, <1>3, <1>4, OwedSteps

(* A card is let go of by dispose alone.                                   *)
LEMMA DisposedFrom ==
  ASSUME Core, Kinds', Does, NEW c \in Cards, card'[c].disposed
  PROVE  card[c].disposed \/ DisposeStep(c)
<1>0. Typed /\ Resting
  BY DEF Core
<1>1. CASE Abides
  BY <1>1 DEF Abides
<1>2. ASSUME NEW k \in Cards, DisposeStep(k) PROVE card[c].disposed \/ DisposeStep(c)
  BY ZenonT(60), <1>2 DEF DisposeStep, OtherCards
<1>3. ASSUME NEW k \in Cards, ArriveStep(k) PROVE card[c].disposed
  BY <1>3 DEF ArriveStep, OtherCards
<1> QED  BY <1>0, <1>1, <1>2, <1>3, AbidesOrNot

(* What a card's frame owes it has looked up, or is about to.              *)
LEMMA OwnedKept ==
  ASSUME Core, LetGoes, Counted, AllTold, Sound, Sound', Kinds', Does
  PROVE  \A c \in Cards : Owned(c)'
<1>0. Typed /\ Shape /\ Resting /\ Flags /\ BootJobs /\ Life /\ Counts /\ ~Spoiled
  BY DEF Core, Counted, Sound
<1> SUFFICES ASSUME NEW c \in Cards, card'[c].disposed, Alive(c)', frame'[c].owed > 0
             PROVE  On("owing", c, 0)' \/ <<"frames", c, 0>> \in Within(frame'[c].after)
  BY DEF Owned
<1>1. c \in Realms /\ c # Page
  BY AnItem
<1>2. CASE DisposeStep(c)
  <2>1. <<"owing", c, 0>> \in Within(stack')
    <3>1. PICK k \in {"records", "arrive"} :
             Within(stack') = (IF frame[c].loaded THEN {<<"close", c, "frames">>} ELSE {})
                \cup {<<"owing", c, 0>>, <<"frames", c, 0>>, <<k, c, 0>>} \cup Within(Pop)
      BY <1>0, <1>2, DisposeStack
    <3> QED  BY <3>1
  <2> QED  BY <2>1 DEF On
<1>3. CASE card[c].disposed
  <2>1. Alive(c)
    <3>1. card[c].st # "unmade"
      BY <1>0, <1>3 DEF Flags
    <3>2. card[c].st # "freed"
      <4>1. card'[c].st # "freed"
        BY <1>1 DEF Alive
      <4> QED  BY <1>0, <4>1, FreedStays
    <3> QED  BY <3>1, <3>2 DEF Alive
  <2>2. frame[c].owed > 0
    <3>1. LetGo(c)'
      BY <1>1 DEF LetGo
    <3>2. \A s \in Srcs : ~On("source", c, s)'
      BY <1>1, <3>1 DEF Sound
    <3> QED  BY <1>0, <1>3, <3>2, OwedFrom
  <2>3. On("owing", c, 0) \/ <<"frames", c, 0>> \in Within(frame[c].after)
    BY <1>3, <2>1, <2>2 DEF AllTold, Told, Owned
  <2>4. CASE On("owing", c, 0)
    <3>1. CASE On("owing", c, 0)'
      BY <3>1
    <3>2. CASE ~On("owing", c, 0)'
      <4>1. At("owing", c, 0)
        BY <1>0, <2>4, <3>2, CallsLast DEF Lasts, On, At
      <4>2. OwingStep(c)
        <5>1. PICK q \in Cards : OwingStep(q)
          BY <1>0, <3>2, <4>1, OwingRuns
        <5>2. q = c
          BY <4>1, <5>1 DEF OwingStep, At
        <5> QED  BY <5>1, <5>2
      <4>3. frame'[c].after = Append(frame[c].after, <<"frames", c, 0>>)
        BY <2>2, <4>2 DEF OwingStep
      <4>4. <<"frames", c, 0>> \in AfterItems
        BY SMTT(30) DEF AfterItems
      <4>5. Within(frame'[c].after) = Within(frame[c].after) \cup {<<"frames", c, 0>>}
        BY <1>0, <1>1, <4>3, <4>4, AfterPut
      <4> QED  BY <4>5
    <3> QED  BY <3>1, <3>2
  <2>5. CASE <<"frames", c, 0>> \in Within(frame[c].after)
    <3>1. ASSUME NEW r \in Realms, ResetStep(r) PROVE frame'[c].after = frame[c].after
      <4>1. CASE r = c
        <5>1. frame[c].owed # 1
          <6>1. frame[c].owed \in Int /\ frame'[c].owed = frame[c].owed - 1
            BY <1>0, <1>1, <3>1, <4>1, CardNumbers DEF ResetStep
          <6> QED  BY <6>1
        <5> QED  BY <3>1, <4>1, <5>1 DEF ResetStep
      <4>2. CASE r # c
        BY <1>1, <3>1, <4>2 DEF ResetStep
      <4> QED  BY <4>1, <4>2
    <3>2. CASE \A q \in Realms : Within(frame[q].after) \subseteq Within(frame'[q].after)
      BY <1>1, <2>5, <3>2
    <3> QED  BY <1>0, <2>5, <3>1, <3>2, AfterGrows
  <2> QED  BY <2>3, <2>4, <2>5
<1> QED  BY <1>2, <1>3, DisposedFrom

(* The list a card waits for is not waited for by a reset.                 *)
LEMMA ListedKept ==
  ASSUME Core, LetGoes, Counted, AllTold, Sound, Sound', Kinds', Does
  PROVE  \A c \in Cards : Listed(c)'
<1>0. Typed /\ Shape /\ Resting /\ Flags /\ Links /\ BootJobs /\ Life /\ Counts /\ ~Spoiled /\ Made
  BY DEF Core, Counted, Sound, Typed
<1> SUFFICES ASSUME NEW k \in Cards, card'[k].done = "frames", Out(k)', NEW h \in Realms, h = card'[k].host
             PROVE  ~(frame'[h].owed > 0)
  <2>1. \A k \in Cards : card'[k].host \in Realms
    BY DEF Kinds, CardRec
  <2> QED  BY <2>1 DEF Listed
<1>1. CASE card[k].done = "frames"
  <2>1. card[k].host = h /\ h \in Cards /\ card[h].disposed
    <3>1. card[k].st # "unmade"
      BY <1>0, <1>1 DEF Flags
    <3>2. card[k].host = h
      BY <1>0, <3>1, HostStays
    <3>3. h \in Cards
      BY <1>0, <1>1, <3>2 DEF Made
    <3> QED  BY <1>0, <1>1, <3>2, <3>3 DEF Flags
  <2>2. Out(k)
    BY OverFrom DEF Counted
  <2>3. ~(frame[h].owed > 0)
    BY <1>1, <2>1, <2>2 DEF AllTold, Told, Listed
  <2>4. LetGo(h)'
    <3>1. card'[h].disposed /\ h # Page
      BY <1>0, <2>1, DisposedStays, AnItem
    <3> QED  BY <3>1 DEF LetGo
  <2>5. \A s \in Srcs : ~On("source", h, s)'
    BY <2>4 DEF Sound
  <2> QED  BY <1>0, <2>1, <2>3, <2>5, OwedFrom
<1>2. ASSUME NEW r \in Realms, NEW d \in Conts, Disposes(r, d, k) PROVE ~(frame'[h].owed > 0)
  <2>1. /\ At("close", r, d) /\ frame[r].dispose = k /\ d = "frames" /\ card[k].host = h
    BY <1>2 DEF Disposes
  <2>2. h = r
    <3>1. k # 0
      BY AnItem
    <3>2. frame[r].realm = k
      BY <1>0, <2>1, <3>1, LinksMeans DEF Ready
    <3> QED  BY <1>0, <2>1, <3>2, LinksMeans DEF Kept
  <2>3. ~(frame[r].owed > 0)
    <3>1. k # 0 /\ ~At("close", r, "reset")
      BY <2>1, AnItem DEF At
    <3> QED  BY <2>1, <3>1 DEF Counted, Closes
  <2>4. frame'[r].owed = frame[r].owed
    <3>1. stack # <<>> /\ Top[1] = "close"
      BY <2>1 DEF At
    <3>2. PICK q \in Realms, e \in Conts : CloseStep(q, e)
      BY <1>0, <3>1, CloseRuns
    <3> QED  BY <3>2 DEF CloseStep, Others
  <2> QED  BY <2>2, <2>3, <2>4
<1> QED  BY <1>1, <1>2, DoneFrom

(* Told, a card at a time, unless something is excused.                    *)
LEMMA WaitsKept ==
  ASSUME Core, LetGoes, Counted, Exposed, Ends, Roots, Sound => AllTold, Kinds', Does
  PROVE  (Sound => AllTold)'
<1> SUFFICES ASSUME Sound' PROVE AllTold'
  OBVIOUS
<1>0. Typed /\ Shape /\ Resting /\ BootJobs /\ Flags /\ Life
  BY DEF Core
<1>1. Sound /\ AllTold
  BY <1>0, SoundBefore
<1>2. ~Spoiled /\ ~Spoiled'
  BY <1>1 DEF Sound
<1>3. \A c \in Cards : Living(c)'
  BY <1>1, <1>2, LivingKept
<1>4. \A c \in Cards : Heralds(c)'
  BY <1>1, HeraldsKept
<1>5. \A c \in Cards : Settled(c)'
  BY <1>1, <1>2, SettledKept
<1>6. \A c \in Cards : Owned(c)'
  BY <1>1, OwnedKept
<1>7. \A c \in Cards : Listed(c)'
  BY <1>1, ListedKept
<1> QED  BY <1>3, <1>4, <1>5, <1>6, <1>7 DEF AllTold, Told

(* WaitersAreTold: whoever waits will be told.                             *)
LEMMA WaitersTold ==
  ASSUME Core, Counted, Flushes, Sound => AllTold
  PROVE  WaitersAreTold
<1> SUFFICES ASSUME stack = <<>>, ~Spoiled
             PROVE  /\ \A c \in Cards : card[c].pending > 0 =>
                         /\ Alive(c)
                         /\ card[c].wait = "next" => card[c].root /\ <<c, FALSE>> \in changes \cup taken
                         /\ card[c].wait = "due" => <<"flush", c, 0>> \in jobs
                         /\ card[c].wait = "no" => card[c].frames > 0
                         /\ card[c].frames > 0 => Below(c) # {}
                    /\ \A r \in Realms : Alive(r) =>
                         /\ frame[r].owed > 0 => \E c \in Below(r) : card[c].done = "reset"
                         /\ frame[r].after # <<>> => frame[r].owed > 0
  BY DEF WaitersAreTold
<1>0. Typed /\ Flags /\ Counts /\ Afters
  BY DEF Core, Counted
<1>1. AllTold
  <2>1. Within(stack) = {}
    BY NoCall
  <2> QED  BY <2>1 DEF Sound, On
<1>2. \A c \in Cards : card[c].pending > 0 => Alive(c)
  BY <1>1 DEF AllTold, Told, Living
<1>3. ASSUME NEW c \in Cards, card[c].pending > 0
      PROVE  /\ card[c].wait = "next" => card[c].root /\ <<c, FALSE>> \in changes \cup taken
             /\ card[c].wait = "due" => <<"flush", c, 0>> \in jobs
             /\ card[c].wait = "no" => card[c].frames > 0
             /\ card[c].frames > 0 => Below(c) # {}
  <2>1. card[c].wait = "next" => card[c].root /\ <<c, FALSE>> \in changes \cup taken
    BY <1>1 DEF AllTold, Told, Heralds
  <2>2. card[c].wait = "due" => <<"flush", c, 0>> \in jobs
    BY DEF Flushes, FlushAt
  <2>3. card[c].wait = "no" => card[c].frames > 0
    BY <1>0, <1>3, PendingParts
  <2>4. ASSUME card[c].frames > 0 PROVE Below(c) # {}
    <3>1. PICK k \in Cards : card[k].host = c /\ card[k].pending > 0
      BY <1>0, <1>2, <1>3, <2>4, ListedBy
    <3>2. k \in Below(c)
      BY <1>2, <3>1 DEF Below
    <3> QED  BY <3>2
  <2> QED  BY <2>1, <2>2, <2>3, <2>4
<1>4. ASSUME NEW r \in Realms, Alive(r), frame[r].owed > 0 PROVE \E c \in Below(r) : card[c].done = "reset"
  <2>1. PICK k \in Cards : card[k].host = r /\ card[k].done = "reset" /\ card[k].pending > 0
    BY <1>0, <1>4, OwedBy
  <2>2. k \in Below(r)
    BY <1>2, <2>1 DEF Below
  <2> QED  BY <2>1, <2>2
<1>5. \A r \in Realms : frame[r].after # <<>> => frame[r].owed > 0
  BY <1>0 DEF Afters
<1> QED  BY <1>2, <1>3, <1>4, <1>5


-----------------------------------------------------------------------------
(* The first state, and the theorems.                                      *)

(* The first state, a field at a time.                                     *)
Untouched(r) == /\ frame[r].realm = 0 /\ frame[r].dispose = 0 /\ frame[r].owed = 0
                /\ frame[r].after = <<>> /\ ~frame[r].late
                /\ r # Page => frame[r].gen = 0 /\ frame[r].src = NoSrc /\ ~frame[r].loaded
Unused(c) == /\ card[c].host = Page /\ card[c].gen = 0 /\ card[c].st = "unmade" /\ ~card[c].root
             /\ ~card[c].disposed /\ card[c].pending = 0 /\ card[c].frames = 0
             /\ card[c].done = "none" /\ card[c].bts = "none" /\ ~card[c].retired
             /\ ~card[c].shown /\ card[c].seen = "no" /\ card[c].wait = "no" /\ ~card[c].cut
Begun ==
  /\ Kinds
  /\ \A r \in Realms : Untouched(r)
  /\ frame[Page].gen = 1 /\ frame[Page].src \in Srcs /\ frame[Page].loaded
  /\ \A c \in Cards : Unused(c)
  /\ asked = {} /\ flying = {} /\ jobs = {<<"start", Page, 1>>}
  /\ stack = <<>> /\ entry = "turn" /\ batch = <<>> /\ changes = {} /\ taken = {}

(* The first state is that.                                                *)
LEMMA InitBegins ==
  ASSUME FramesAssumption, Init
  PROVE  Begun
<1>1. PICK s \in Srcs : s = CHOOSE x \in Srcs : TRUE
  BY DEF FramesAssumption
<1>2. NewFrame \in FrameRec /\ NewCard \in CardRec
  <2>1. <<>> \in Seq(AfterItems) /\ 0 \in Realms /\ Page = 0
    BY AfterIsItems, AnItem DEF Page
  <2> QED BY <2>1 DEF NewFrame, NewCard, FrameRec, CardRec, Stages, Dones, Conts, Threads, Sights, Waiting
<1>3. ASSUME NEW x, x = [NewFrame EXCEPT !.gen = 1, !.src = s, !.loaded = TRUE, !.attached = TRUE]
      PROVE  x = [gen |-> 1, src |-> s, loaded |-> TRUE, realm |-> 0, dispose |-> 0, owed |-> 0,
                  after |-> <<>>, attached |-> TRUE, late |-> FALSE]
  <2>1. x = [[[[NewFrame EXCEPT !.gen = 1] EXCEPT !.src = s] EXCEPT !.loaded = TRUE] EXCEPT !.attached = TRUE]
    BY <1>3
  <2>2. PICK y : y = [NewFrame EXCEPT !.gen = 1]
    OBVIOUS
  <2>3. y = [gen |-> 1, src |-> NoSrc, loaded |-> FALSE, realm |-> 0, dispose |-> 0, owed |-> 0,
             after |-> <<>>, attached |-> FALSE, late |-> FALSE]
    BY <2>2 DEF NewFrame
  <2>4. PICK z : z = [y EXCEPT !.src = s]
    OBVIOUS
  <2>5. z = [gen |-> 1, src |-> s, loaded |-> FALSE, realm |-> 0, dispose |-> 0, owed |-> 0,
             after |-> <<>>, attached |-> FALSE, late |-> FALSE]
    BY <2>3, <2>4
  <2>6. PICK w : w = [z EXCEPT !.loaded = TRUE]
    OBVIOUS
  <2>7. w = [gen |-> 1, src |-> s, loaded |-> TRUE, realm |-> 0, dispose |-> 0, owed |-> 0,
             after |-> <<>>, attached |-> FALSE, late |-> FALSE]
    BY <2>5, <2>6
  <2>8. x = [w EXCEPT !.attached = TRUE]
    BY <2>1, <2>2, <2>4, <2>6
  <2> QED BY <2>7, <2>8
<1>4. Page \in Realms /\ Cards \subseteq Realms /\ Page \notin Cards
  BY AnItem
<1>5. frame[Page] = [gen |-> 1, src |-> s, loaded |-> TRUE, realm |-> 0, dispose |-> 0, owed |-> 0,
           after |-> <<>>, attached |-> TRUE, late |-> FALSE]
  BY <1>1, <1>3, <1>4, Zenon DEF Init
<1>6. \A r \in Realms : r # Page => frame[r] = NewFrame
  BY DEF Init
<1>7. \A c \in Cards : card[c] = NewCard
  BY DEF Init
<1>8. frame[Page] \in FrameRec
  <2>1. <<>> \in Seq(AfterItems) /\ 0 \in Realms
    BY AfterIsItems, AnItem DEF Page
  <2> QED BY <1>5, <2>1 DEF FrameRec
<1>9. \A r \in Realms : Untouched(r)
  BY <1>5, <1>6 DEF Untouched, NewFrame
<1>10. \A c \in Cards : Unused(c)
  BY <1>7 DEF Unused, NewCard
<1>11. frame \in [Realms -> FrameRec] /\ card \in [Cards -> CardRec]
  <2>1. \A r \in Realms : frame[r] \in FrameRec
    BY <1>2, <1>6, <1>8
  <2>2. \A c \in Cards : card[c] \in CardRec
    BY <1>2, <1>7
  <2>3. frame = [r \in Realms |-> frame[r]] /\ card = [c \in Cards |-> card[c]]
    BY DEF Init
  <2> QED BY <2>1, <2>2, <2>3
<1>12. jobs = {<<"start", Page, 1>>} /\ events = <<<<Page, TRUE>>>>
  BY DEF Init
<1>13. jobs \subseteq JobItems
  <2>1. <<"start", Page, 1>> \in {"start"} \X Realms \X Nat
    BY <1>4
  <2> QED BY <1>12, <2>1 DEF JobItems
<1>14. events \in Seq(Realms \X BOOLEAN)
  <2>1. PICK p : p = <<Page, TRUE>>
    OBVIOUS
  <2>2. p \in Realms \X BOOLEAN /\ events = <<p>>
    BY <1>4, <1>12, <2>1
  <2> QED BY <2>2
<1>15. Kinds
  <2>1. stack \in Seq(Items)
    BY NoCall DEF Init
  <2>2. batch \in Seq(Realms \X BOOLEAN)
    <3>1. PICK S : S = Realms \X BOOLEAN
      OBVIOUS
    <3>2. <<>> \in Seq(S)
      OBVIOUS
    <3> QED BY <3>1, <3>2 DEF Init
  <2>3. asked \subseteq Realms \X Nat /\ flying \subseteq Realms \X Nat
    BY DEF Init
  <2>4. changes \subseteq Cards \X BOOLEAN /\ taken \subseteq Cards \X BOOLEAN
    BY ZenonT(60) DEF Init
  <2>5. entry \in {"idle", "turn", "events", "heard", "listen", "ended"}
    BY DEF Init
  <2> QED BY <1>11, <1>13, <1>14, <2>1, <2>2, <2>3, <2>4, <2>5 DEF Kinds
<1>16. frame[Page].gen = 1 /\ frame[Page].src = s /\ frame[Page].loaded
  BY <1>5
<1> QED
  BY <1>9, <1>10, <1>12, <1>15, <1>16 DEF Begun, Init

(* Nothing is called, put off or waited for in it.                         *)
LEMMA BegunTables ==
  ASSUME Begun
  PROVE  /\ Within(stack) = {} /\ \A these : Count(stack, these) = 0
         /\ \A r \in Realms : Within(frame[r].after) = {} /\ \A these : Count(frame[r].after, these) = 0
         /\ \A r \in Realms : \A d : d # "none" => Hosted(r, d) = {} /\ Cardinality(Hosted(r, d)) = 0
         /\ \A r \in Realms : r # Page => r \in Cards
         /\ Page \in Realms /\ Cards \subseteq Realms /\ Page \notin Cards
<1>1. Within(stack) = {} /\ \A these : Count(stack, these) = 0
  BY NoCall DEF Begun
<1>2. \A r \in Realms : Within(frame[r].after) = {} /\ \A these : Count(frame[r].after, these) = 0
  BY NoCall DEF Begun, Untouched
<1>3. ASSUME NEW r \in Realms, NEW d, d # "none" PROVE Hosted(r, d) = {}
  BY <1>3 DEF Begun, Unused, Hosted
<1>4. Cardinality({}) = 0
  BY FS_EmptySet
<1> QED BY <1>1, <1>2, <1>3, <1>4, AnItem DEF Page

(* The core of the invariant holds in it.                                  *)
LEMMA InitCore ==
  ASSUME FramesAssumption, Begun
  PROVE  Core
<1>0. stack = <<>> /\ entry = "turn" /\ jobs = {<<"start", Page, 1>>} /\ batch = <<>>
  BY DEF Begun
<1>1. Typed
  <2>1. Made
    <3>1. \A c \in Cards : /\ card[c].st = "unmade" => card[c].done = "none" /\ card[c].host = Page
                           /\ <<"boot", c, 0>> \in jobs => card[c].st # "unmade"
                           /\ card[c].done = "frames" => card[c].host \in Cards
      BY <1>0 DEF Begun, Unused
    <3>2. \A r \in Realms : \A c \in Cards : frame[r].dispose # c
      BY BegunTables DEF Begun, Untouched, Page
    <3> QED BY <1>0, <3>1, <3>2 DEF Made
  <2> QED BY <2>1 DEF Typed, Begun
<1>2. Shape
  <2>1. Len(stack) = 0
    BY <1>0
  <2> QED BY <1>0, <2>1, BegunTables DEF Shape, Nested
<1>3. Resting
  BY <1>0 DEF Resting
<1>4. Own
  BY BegunTables DEF Own
<1>5. Tokens
  <2> SUFFICES ASSUME NEW r \in Realms, NEW g \in Nat PROVE Token(r, g) <= Lim(r, g)
    BY DEF Tokens
  <2>1. Count(stack, Starts(r, g)) = 0 /\ Count(frame[r].after, Starts(r, g)) = 0
    BY BegunTables
  <2>2. If(<<r, g>>, asked) = 0 /\ If(<<r, g>>, flying) = 0
    BY DEF If, Begun
  <2>3. Held(r, g) = 0
    BY DEF Held, Begun, Unused
  <2>4. If(<<"start", r, g>>, jobs) = (IF r = Page /\ g = 1 THEN 1 ELSE 0)
    BY <1>0 DEF If
  <2>5. Token(r, g) = If(<<"start", r, g>>, jobs)
    <3>1. If(<<"start", r, g>>, jobs) \in Nat
      BY <2>4
    <3> QED BY <2>1, <2>2, <2>3, <3>1 DEF Token
  <2>6. r = Page /\ g = 1 => Lim(r, g) = 1
    BY DEF Lim, Begun
  <2>7. Lim(r, g) \in {0, 1}
    BY DEF Lim
  <2> QED BY <2>4, <2>5, <2>6, <2>7
<1>6. Sourced
  BY BegunTables DEF Sourced, On
<1>7. Runs
  <2>1. \A r \in Realms : frame[r].loaded => r = Page
    BY DEF Begun, Untouched
  <2>2. \A c \in Cards : ~card[c].root
    BY DEF Begun, Unused
  <2> QED BY <2>1, <2>2, BegunTables DEF Runs, On, Ran
<1>8. Links
  <2> SUFFICES ASSUME NEW r \in Realms
               PROVE  /\ frame[r].dispose \in {0, frame[r].realm}
                      /\ frame[r].src = NoSrc => ~frame[r].loaded
                      /\ frame[r].loaded => frame[r].src # NoSrc
                      /\ \A c \in Cards : frame[r].realm # c
    BY DEF Links
  <2>1. frame[r].dispose = 0 /\ frame[r].realm = 0
    BY DEF Begun, Untouched
  <2>2. CASE r = Page
    BY <2>1, <2>2, BegunTables DEF Begun, Page, FramesAssumption
  <2>3. CASE r # Page
    BY <2>1, <2>3, BegunTables DEF Begun, Untouched, Page
  <2> QED BY <2>2, <2>3
<1>9. BootJobs
  BY <1>0 DEF BootJobs
<1>10. Flags
  <2> SUFFICES ASSUME NEW c \in Cards
               PROVE  /\ card[c].done = "none" /\ ~card[c].disposed /\ ~At("dispose", c, 0)
                      /\ \A k \in {"owing", "frames", "arrive", "records"} : ~On(k, c, 0)
                      /\ card[c].wait = "no" /\ <<"frames", c, 0>> \notin Within(frame[c].after)
                      /\ ~On("close", c, "frames") /\ ~card[c].retired
                      /\ <<"closeRealm", c, 0>> \notin jobs /\ card[c].bts # "asked"
                      /\ ~On("loading", c, 0)
    BY DEF Flags
  <2>1. /\ card[c].done = "none" /\ ~card[c].disposed /\ card[c].wait = "no"
        /\ ~card[c].retired /\ card[c].bts # "asked"
    BY DEF Begun, Unused
  <2> QED BY <1>0, <2>1, BegunTables DEF At, On
<1>11. Life
  <2>1. \A x \in Within(stack) \cup jobs : Alive(x[2])
    BY <1>0, BegunTables DEF Alive
  <2>2. \A c \in Cards : card[c].st = "unmade"
    BY DEF Begun, Unused
  <2> QED BY <2>1, <2>2 DEF Life
<1> QED
  BY <1>1, <1>2, <1>3, <1>4, <1>5, <1>6, <1>7, <1>8, <1>9, <1>10, <1>11 DEF Core

(* The inductive invariant of the frames: the core tables, then what       *)
(* NoOrphan, FreshPage, LastListPosted and WaitersAreTold each rest on.    *)
CardsInv == /\ Core /\ LetGoes /\ Keeps /\ Counts /\ OwedNat /\ Exposed /\ Flushes
            /\ Ends /\ BootOwes /\ Roots /\ Afters /\ Closes /\ Watches /\ Partings
            /\ Sound => AllTold

(* Nothing is owed in the first state.                                     *)
LEMMA InitCounts ==
  ASSUME Begun
  PROVE  Counts /\ OwedNat /\ BootOwes /\ Afters /\ Closes
<1>1. \A r \in Realms : frame[r].owed = 0 /\ frame[r].after = <<>> /\ ~(0 > 0)
  BY DEF Begun, Untouched
<1>2. \A r \in Realms : OwedAt(r)
  <2> SUFFICES ASSUME NEW r \in Realms PROVE OwedAt(r)
    OBVIOUS
  <2>1. Count(stack, Resets(r)) = 0 /\ Cardinality(Hosted(r, "reset")) = 0
    BY BegunTables
  <2> QED BY <1>1, <2>1 DEF OwedAt
<1>3. ASSUME NEW c \in Cards PROVE ListedAt(c) /\ PendingAt(c)
  <2>1. c \in Realms /\ card[c].frames = 0 /\ card[c].pending = 0 /\ card[c].wait = "no"
    BY BegunTables DEF Begun, Unused
  <2>2. Count(stack, Lists(c)) = 0 /\ Count(frame[c].after, Later(c)) = 0 /\ Cardinality(Hosted(c, "frames")) = 0
    BY <2>1, BegunTables
  <2>3. ListedAt(c)
    BY <2>1, <2>2 DEF ListedAt
  <2>4. /\ Count(stack, Arrives(c)) = 0 /\ Count(stack, Records(c)) = 0
        /\ Count(stack, Owings(c)) = 0
    BY BegunTables
  <2>5. Waiter(c) = 0 /\ Framed(c) = 0
    BY <2>1 DEF Waiter, Framed
  <2>6. PendingAt(c)
    BY <2>1, <2>4, <2>5 DEF PendingAt
  <2> QED BY <2>3, <2>6
<1>4. Counts
  BY <1>2, <1>3 DEF Counts
<1>5. OwedNat
  BY <1>1 DEF OwedNat
<1>6. BootOwes
  BY DEF BootOwes, Begun
<1>7. Afters /\ Closes
  BY <1>1 DEF Afters, Closes
<1> QED BY <1>4, <1>5, <1>6, <1>7

(* The invariant holds in it.                                              *)
LEMMA InitCards ==
  ASSUME FramesAssumption, Init
  PROVE  CardsInv
<1>0. Begun
  BY InitBegins
<1>1. Core
  BY <1>0, InitCore
<1>2. /\ stack = <<>> /\ entry = "turn" /\ jobs = {<<"start", Page, 1>>} /\ taken = {} /\ changes = {}
  BY <1>0 DEF Begun
<1>3. \A c \in Cards : Unused(c)
  BY <1>0 DEF Begun
<1>4. LetGoes /\ Keeps
  <2>1. \A c \in Cards : ~card[c].disposed /\ ~AtWork(c)
    BY <1>3 DEF Unused, AtWork
  <2> QED BY <2>1 DEF LetGoes, Keeps
<1>5. Exposed
  <2>1. \A c \in Cards : Sighted(c)
    BY <1>2 DEF Sighted, Unseen
  <2> QED BY <1>2, <2>1 DEF Exposed
<1>6. Flushes
  BY <1>2, <1>3 DEF Flushes, FlushAt, Unused
<1>7. Ends
  <2>1. Voids
    BY <1>0, <1>3, BegunTables DEF Voids, Unused
  <2> QED BY <1>2, <2>1 DEF Ends
<1>8. Roots
  BY <1>3 DEF Unused, Roots, Alone
<1>9. Watches
  <2>1. ASSUME NEW c \in Cards PROVE Watch(c)
    <3>1. ~On("records", c, 0)
      BY <1>0, BegunTables DEF On
    <3> QED BY <1>3, <3>1 DEF Watch, Unused
  <2> QED BY <2>1 DEF Watches
<1>10. Partings
  BY <1>3 DEF Partings, Unused
<1>11. AllTold
  <2> SUFFICES ASSUME NEW c \in Cards PROVE Told(c)
    BY DEF AllTold
  <2>1. \A k \in Cards : ~card[k].disposed /\ card[k].wait = "no" /\ ~card[k].root
                         /\ card[k].done = "none" /\ card[k].pending = 0
    BY <1>3 DEF Unused
  <2>2. ~On("records", c, 0)
    BY <1>0, BegunTables DEF On
  <2>3. Living(c)
    BY <2>1 DEF Living
  <2>4. Heralds(c)
    BY <2>1, <2>2 DEF Heralds
  <2>5. Settled(c) /\ Owned(c) /\ Listed(c)
    BY <2>1 DEF Settled, Owned, Listed
  <2> QED BY <2>3, <2>4, <2>5 DEF Told
<1> QED
  BY <1>0, <1>1, <1>4, <1>5, <1>6, <1>7, <1>8, <1>9, <1>10, <1>11, InitCounts DEF CardsInv

(* Each step keeps the invariant.                                          *)
LEMMA CardsInvKept ==
  ASSUME CardsInv, Next
  PROVE  CardsInv'
<1>0. /\ Core /\ LetGoes /\ Keeps /\ Counts /\ OwedNat /\ Exposed /\ Flushes
      /\ Ends /\ BootOwes /\ Roots /\ Afters /\ Closes /\ Watches /\ Partings
      /\ Sound => AllTold
  BY DEF CardsInv
<1>1. Typed /\ Shape /\ Resting /\ Flags /\ Life
  BY <1>0 DEF Core
<1>2. Core' /\ Does /\ Kinds'
  BY <1>0, CoreKept
<1>3. LetGoes' /\ Keeps'
  BY <1>0, <1>1, <1>2, LetGoesKept, KeepsKept
<1>4. Counts' /\ OwedNat' /\ BootOwes'
  BY <1>0, <1>1, <1>2, CountsKept, OwedNatKept, BootOwesKept
<1>5. Exposed' /\ Flushes'
  BY <1>0, <1>1, <1>2, ExposedKept, FlushesKept
<1>6. Ends' /\ Roots'
  BY <1>0, <1>1, <1>2, EndsKept, RootsKept
<1>7. Afters' /\ Closes'
  BY <1>0, <1>1, <1>2, AftersKept, ClosesKept
<1>8. Watches' /\ Partings'
  BY <1>0, <1>1, <1>2, WatchesKept, PartingsKept
<1>9. Counted
  BY <1>0 DEF Counted
<1>10. (Sound => AllTold)'
  BY <1>0, <1>1, <1>2, <1>9, WaitsKept
<1> QED
  BY <1>2, <1>3, <1>4, <1>5, <1>6, <1>7, <1>8, <1>10 DEF CardsInv

(* So does a step that is none.                                            *)
LEMMA CardsInvStutters ==
  ASSUME CardsInv, UNCHANGED vars
  PROVE  CardsInv'
<1>0. frame' = frame /\ card' = card /\ asked' = asked /\ flying' = flying /\ jobs' = jobs /\ stack' = stack
      /\ entry' = entry /\ events' = events /\ batch' = batch /\ changes' = changes /\ taken' = taken
  BY DEF vars
<1>1. BootJobs <=> BootJobs'
  BY <1>0 DEF BootJobs, Alive, Current
<1>2. Flags <=> Flags'
  BY <1>0 DEF Flags, At, On, Top
<1>3. Life <=> Life'
  BY <1>0 DEF Life, Alive
<1>4. Links <=> Links'
  BY <1>0 DEF Links, Alive
<1>5. Own <=> Own'
  BY <1>0 DEF Own
<1>6. Resting <=> Resting'
  BY <1>0 DEF Resting
<1>7. Runs <=> Runs'
  BY <1>0 DEF Runs, On, Ran
<1>8. Shape <=> Shape'
  BY <1>0 DEF Shape, Pop
<1>9. Sourced <=> Sourced'
  BY <1>0 DEF Sourced, At, On, Top
<1>10. Tokens <=> Tokens'
  BY <1>0 DEF Tokens, Lim, Token, Held
<1>11. Typed <=> Typed'
  BY <1>0 DEF FramesAssumption, Typed, Kinds, Made, CardRec, Threads
<1>12. LetGoes <=> LetGoes'
  BY <1>0 DEF LetGoes, At, Top
<1>13. Keeps <=> Keeps'
  BY <1>0 DEF Keeps, AtWork, HeldFast, Belated, Alive, Lags
<1>14. Counts <=> Counts'
  BY <1>0 DEF Counts, ListedAt, OwedAt, PendingAt, Stays, Hosted, Framed, Waiter, Out
<1>15. OwedNat <=> OwedNat'
  BY <1>0 DEF OwedNat
<1>16. Exposed <=> Exposed'
  BY <1>0 DEF Exposed, Sighted, Awaits, Unseen, On
<1>17. Flushes <=> Flushes'
  BY <1>0 DEF Flushes, FlushAt
<1>18. Ends <=> Ends'
  BY <1>0 DEF Ends, Ending, Voids
<1>19. BootOwes <=> BootOwes'
  BY <1>0 DEF BootOwes, Current, Free, Top
<1>20. Roots <=> Roots'
  BY <1>0 DEF Roots, Alone, Rooted, Excused, FrameLives, LetGo
<1>21. Afters <=> Afters'
  BY <1>0 DEF Afters
<1>22. Closes <=> Closes'
  BY <1>0 DEF Closes, At, Top
<1>23. Watches <=> Watches'
  BY <1>0 DEF Watches, Watch, On
<1>24. Partings <=> Partings'
  BY <1>0 DEF Partings, Parts
<1>25. (Sound => AllTold) <=> (Sound => AllTold)'
  BY <1>0 DEF Sound, LetGo, On, Spoiled, AllTold, Told, Heralds, Listed, Living, Owned, Settled, Out, Alive
<1>26. Core'
  BY <1>1, <1>2, <1>3, <1>4, <1>5, <1>6, <1>7, <1>8, <1>9, <1>10, <1>11 DEF CardsInv, Core
<1> QED BY <1>12, <1>13, <1>14, <1>15, <1>16, <1>17, <1>18, <1>19, <1>20, <1>21, <1>22, <1>23, <1>24, <1>25, <1>26 DEF CardsInv

(* The invariant of frame.ts, frame-boot.ts and child.rs, for every number *)
(* of cards and loads: every frame, card, call, job, debt and wait is as   *)
(* the parts above say.                                                    *)
THEOREM CardsHold == ASSUME FramesAssumption PROVE Spec => []CardsInv
<1>1. Init => CardsInv
  BY InitCards
<1>2. CardsInv /\ [Next]_vars => CardsInv'
  BY CardsInvKept, CardsInvStutters
<1> QED BY <1>1, <1>2, PTL DEF Spec

(* What frame.ts and frame-boot.ts promise, for every number of cards and  *)
(* loads: a card boots into a page of its own, a card at work is one its   *)
(* frame will let go of, what was last seen of a card let go of is posted  *)
(* before its thread goes, and whoever waits for a last list will be told  *)
(* of it.                                                                  *)
THEOREM CardsPromise ==
  ASSUME FramesAssumption
  PROVE  Spec => [](FreshPage /\ NoOrphan /\ LastListPosted /\ WaitersAreTold)
<1>1. CardsInv => FreshPage /\ NoOrphan /\ LastListPosted /\ WaitersAreTold
  <2> SUFFICES ASSUME CardsInv PROVE FreshPage /\ NoOrphan /\ LastListPosted /\ WaitersAreTold
    OBVIOUS
  <2>1. Counted
    BY DEF CardsInv, Counted
  <2> QED BY <2>1, Freshly, Orphans, ListsPosted, WaitersTold DEF CardsInv
<1> QED BY <1>1, CardsHold, PTL
=============================================================================
