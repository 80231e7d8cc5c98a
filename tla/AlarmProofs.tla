---------------------------- MODULE AlarmProofs ----------------------------
(***************************************************************************)
(* What Alarm promises for any number of sleeps and of tasks that poll     *)
(* them, and for any clocks: no wake is lost and no wait ends early; and   *)
(* what RealmClock promises for any number of realms that await them.      *)
(***************************************************************************)
EXTENDS Sequences, Alarm, MCClock, FiniteSetTheorems, WellFoundedInduction, TLAPS

Own(s) == {<<s, 1>>, <<s, 2>>}
Leaving == {"release", "count"}
Dropped == {s \in Sleeps : at[s] = "dropped"}

(* What a Sleep holds is its own, and is what its poll takes it for.       *)
IHeld ==
  \A s \in Sleeps :
    /\ held[s] # None => held[s] \in Own(s)
    /\ at[s] \in {"unmade", "made", "dropped"} => held[s] = None
    /\ at[s] \in {"replace", "unpark", "recheck", "waiting"} => held[s] # None
    /\ held[s] # None /\ at[s] \notin Leaving => state[held[s]] \in {"armed", "fired"}
    /\ at[s] \in Leaving => held[s] # None /\ state[held[s]] = "cancelled"
    /\ held[s] = None /\ at[s] # "dropped" => \A x \in Own(s) : state[x] = "free"

(* The registry lists the armed slots Sleeps hold and cancelled ones.      *)
ISlots ==
  \A x \in arrivals \cup pending :
    \/ state[x] = "armed" /\ held[x[1]] = x
    \/ state[x] = "cancelled" /\ at[x[1]] \in Leaving \cup {"dropped"}

(* An armed slot is listed, with a task to wake; past the registration or  *)
(* the replacement it is the task of this poll.                            *)
IArmed ==
  \A s \in Sleeps : Armed(s) =>
    /\ held[s] \in arrivals \cup pending
    /\ waker[held[s]] \in Wakers
    /\ at[s] \in {"unpark", "recheck"} => waker[held[s]] = by[s]

(* The alarm thread has claimed a slot or has a waker in hand exactly      *)
(* where it says so; and while it has, the Sleep's next slot cannot fire,  *)
(* so that the claimed one is not registered again.                        *)
IFiring ==
  /\ firing # None <=> pc = "claimed"
  /\ hand # None <=> pc = "wake"
  /\ published <=> pc # "unstarted"
  /\ firing # None =>
       /\ state[firing] = "fired" /\ waker[firing] \in Wakers
       /\ held[firing[1]] \notin {firing, None} => state[held[firing[1]]] # "fired"

(* What is fired was due by the alarm thread's clock.                      *)
IDue ==
  /\ seen \in Int
  /\ pc \in {"fire", "claimed", "wake"} => seen <= AlarmClock
  /\ \A x \in Slots : state[x] = "fired" => AlarmClock >= deadline[x[1]]

(* A cancellation is counted once.                                         *)
ICount == cancelled <= Cardinality(Dropped)

IRegistered == \A s \in Sleeps : at[s] = "waiting" => Registered(s)

IInv ==
  /\ TypeOK /\ IHeld /\ ISlots /\ IArmed /\ IFiring /\ IDue /\ ICount
  /\ IRegistered /\ NothingUnseen /\ NeverEarly

-----------------------------------------------------------------------------
(* A slot is one of its Sleep's two.                                       *)
LEMMA SlotShape ==
  ASSUME NEW x \in Slots
  PROVE  x[1] \in Sleeps /\ x \in Own(x[1]) /\ x # None
BY NoneAssumption DEF Slots, Own

LEMMA OwnSlots ==
  ASSUME NEW s \in Sleeps
  PROVE  /\ Own(s) \subseteq Slots
         /\ \A x \in Own(s) : x[1] = s
         /\ <<s, 1>> \in Own(s) /\ <<s, 2>> \in Own(s) /\ <<s, 1>> # <<s, 2>>
BY DEF Slots, Own

(* Two Sleeps hold two slots.                                              *)
LEMMA HeldApart ==
  ASSUME IHeld, NEW s \in Sleeps, NEW r \in Sleeps, s # r, held[s] # None
  PROVE  held[s] # held[r]
<1>1. held[s][1] = s
  BY OwnSlots DEF IHeld
<1>2. held[r] # None => held[r][1] = r
  BY OwnSlots DEF IHeld
<1> QED BY <1>1, <1>2

(* Register takes the slot its Sleep does not hold, which is listed        *)
(* nowhere.                                                                *)
Fresh(s) == IF held[s] = <<s, 1>> THEN <<s, 2>> ELSE <<s, 1>>

LEMMA FreshSlot ==
  ASSUME TypeOK, IHeld, ISlots, IFiring, NEW s \in Sleeps, Register(s)
  PROVE  /\ Fresh(s) \in Own(s) /\ Fresh(s) # held[s]
         /\ Fresh(s) \notin arrivals \cup pending
         /\ Fresh(s) # firing
<1>1. Fresh(s) \in Own(s) /\ Fresh(s) # held[s]
  BY OwnSlots, NoneAssumption DEF Fresh, IHeld, Own, Slots
<1>2. Fresh(s)[1] = s /\ Fresh(s) \in Slots
  BY <1>1, OwnSlots
<1>3. (at[s] = "match" /\ state[held[s]] # "armed") \/ held[s] = None
  BY DEF Register, Armed
<1>4. Fresh(s) \notin arrivals \cup pending
  BY <1>1, <1>2 DEF ISlots, Register, Leaving
<1>5. Fresh(s) # firing
  <2>1. CASE held[s] = None
    <3>1. state[Fresh(s)] = "free"
      BY <1>1, <2>1 DEF IHeld, Register
    <3> QED BY <1>2, <3>1, SlotShape DEF IFiring
  <2>2. CASE held[s] # None
    <3>1. state[held[s]] = "fired"
      BY <2>2 DEF IHeld, Register, Armed, Leaving
    <3> QED BY <1>1, <1>2, <2>2, <3>1, SlotShape DEF IFiring
  <2> QED BY <2>1, <2>2
<1> QED BY <1>1, <1>4, <1>5

(* No step takes a variable out of its range; the count needs IInv.        *)
LEMMA TypeStep == IInv /\ ICount' /\ [Next]_vars => TypeOK'
<1> SUFFICES ASSUME TypeOK, IHeld, ISlots, IFiring, ICount', [Next]_vars PROVE TypeOK'
  BY DEF IInv
<1> USE DEF clock, futures, shared, registry, thread
<1>1. CASE Tick
  BY <1>1, ClockAssumption DEF Tick, TypeOK
<1>2. ASSUME NEW s \in Sleeps, Make(s) PROVE TypeOK'
  BY <1>2, ClockAssumption DEF Make, TypeOK
<1>3. ASSUME NEW s \in Sleeps, NEW w \in Wakers, Poll(s, w) PROVE TypeOK'
  BY <1>3 DEF Poll, TypeOK
<1>4. ASSUME NEW s \in Sleeps, MatchArmed(s) PROVE TypeOK'
  BY <1>4 DEF MatchArmed, TypeOK
<1>5. ASSUME NEW s \in Sleeps, Replace(s) PROVE TypeOK'
  BY <1>5 DEF Replace, TypeOK
<1>6. ASSUME NEW s \in Sleeps, Register(s) PROVE TypeOK'
  <2>1. Fresh(s) \in Slots /\ Fresh(s) \notin pending
    BY <1>6, FreshSlot, OwnSlots
  <2>2. /\ state' = [state EXCEPT ![Fresh(s)] = "armed"]
        /\ waker' = [waker EXCEPT ![Fresh(s)] = by[s]]
        /\ arrivals' = arrivals \cup {Fresh(s)}
        /\ held' = [held EXCEPT ![s] = Fresh(s)]
    BY <1>6 DEF Register, Fresh
  <2> QED BY <1>6, <2>1, <2>2 DEF Register, TypeOK
<1>7. ASSUME NEW s \in Sleeps, Unpark(s) PROVE TypeOK'
  BY <1>7 DEF Unpark, TypeOK
<1>8. ASSUME NEW s \in Sleeps, Recheck(s) PROVE TypeOK'
  BY <1>8 DEF Recheck, TypeOK
<1>9. ASSUME NEW s \in Sleeps, Drop(s) PROVE TypeOK'
  BY <1>9 DEF Drop, TypeOK
<1>10. ASSUME NEW s \in Sleeps, Release(s) PROVE TypeOK'
  BY <1>10 DEF Release, TypeOK
<1>11. ASSUME NEW s \in Sleeps, CountDrop(s) PROVE TypeOK'
  <2>1. cancelled' \in 0..Cardinality(Sleeps)
    <3>1. cancelled' \in Nat /\ Dropped' \subseteq Sleeps
      BY <1>11, FiniteAssumption, FS_CardinalityType DEF CountDrop, TypeOK, Dropped
    <3>2. Cardinality(Dropped') <= Cardinality(Sleeps)
      BY <3>1, FiniteAssumption, FS_Subset
    <3>3. Cardinality(Dropped') \in Nat /\ Cardinality(Sleeps) \in Nat
      BY <3>1, FiniteAssumption, FS_Subset, FS_CardinalityType
    <3> QED BY <3>1, <3>2, <3>3 DEF ICount
  <2>2. counted' \in 0..cancelled'
    BY <1>11, FiniteAssumption, FS_CardinalityType DEF CountDrop, TypeOK
  <2> QED BY <1>11, <2>1, <2>2 DEF CountDrop, TypeOK
<1>12. CASE Publish
  BY <1>12 DEF Publish, TypeOK
<1>13. CASE Take
  BY <1>13 DEF Take, TypeOK
<1>14. CASE ReadClock
  BY <1>14 DEF ReadClock, TypeOK
<1>15. CASE Fire
  BY <1>15 DEF Fire, TypeOK
<1>16. CASE TakeWaker
  <2>1. firing \in Slots /\ waker[firing] \in Wakers
    BY <1>16, SlotShape DEF TakeWaker, IFiring, TypeOK
  <2>2. firing[1] \in Sleeps
    BY <2>1, SlotShape
  <2> QED BY <1>16, <2>1, <2>2 DEF TakeWaker, TypeOK
<1>17. CASE Wake
  <2>1. hand # None
    BY <1>17 DEF Wake, IFiring
  <2> QED BY <1>17, <2>1 DEF Wake, TypeOK
<1>18. CASE Count
  BY <1>18, FiniteAssumption, FS_CardinalityType DEF Count, TypeOK
<1>19. CASE Retain
  BY <1>19 DEF Retain, Live, TypeOK
<1>20. CASE Subtract
  BY <1>20, FiniteAssumption, FS_CardinalityType DEF Subtract, TypeOK
<1>21. CASE Park
  BY <1>21 DEF Park, TypeOK
<1>22. CASE Unparked
  BY <1>22 DEF Unparked, PassEnds, TypeOK
<1>23. CASE TimedOut
  BY <1>23 DEF TimedOut, PassEnds, TypeOK
<1>24. CASE UNCHANGED vars
  BY <1>24 DEF vars, TypeOK
<1> QED
  BY <1>1, <1>2, <1>3, <1>4, <1>5, <1>6, <1>7, <1>8, <1>9, <1>10, <1>11, <1>12, <1>13, <1>14,
     <1>15, <1>16, <1>17, <1>18, <1>19, <1>20, <1>21, <1>22, <1>23, <1>24
     DEF Next, SleepStep, AlarmStep, Over

(* The steps of the alarm thread that leave the slots' states alone, and   *)
(* those of the clock and of nobody.                                       *)
Listening ==
  \/ Publish \/ Take \/ ReadClock \/ TakeWaker \/ Wake \/ Count \/ Retain
  \/ Subtract \/ Park \/ Unparked \/ TimedOut \/ Tick \/ UNCHANGED vars

LEMMA ListeningLeaves ==
  ASSUME Listening PROVE UNCHANGED <<at, deadline, held, by, state>>
BY DEF Listening, Publish, Take, ReadClock, TakeWaker, Wake, Count, Retain, Subtract, Park,
       Unparked, TimedOut, PassEnds, Tick, vars, futures, shared

LEMMA Steps ==
  ASSUME [Next]_vars
  PROVE  \/ \E s \in Sleeps : \/ Make(s) \/ MatchArmed(s) \/ Replace(s) \/ Register(s)
                            \/ Unpark(s) \/ Recheck(s) \/ Drop(s) \/ Release(s)
                            \/ CountDrop(s)
                            \/ \E w \in Wakers : Poll(s, w)
         \/ Fire \/ Listening
BY DEF Next, SleepStep, AlarmStep, Over, Listening

(* The step of one Sleep as the others see it.                             *)
LEMMA HeldStep == IInv /\ [Next]_vars => IHeld'
<1> SUFFICES ASSUME TypeOK, IHeld, ISlots, IFiring, [Next]_vars PROVE IHeld'
  BY DEF IInv
<1> USE DEF clock, futures, shared, registry, thread
<1>1. ASSUME NEW s \in Sleeps, Make(s) PROVE IHeld'
  BY <1>1 DEF Make, TypeOK, IHeld, Leaving
<1>2. ASSUME NEW s \in Sleeps, NEW w \in Wakers, Poll(s, w) PROVE IHeld'
  BY <1>2, NoneAssumption DEF Poll, Elapsed, TypeOK, IHeld, Leaving
<1>3. ASSUME NEW s \in Sleeps, MatchArmed(s) PROVE IHeld'
  BY <1>3 DEF MatchArmed, Armed, TypeOK, IHeld, Leaving
<1>4. ASSUME NEW s \in Sleeps, Replace(s) \/ Unpark(s) \/ Recheck(s) PROVE IHeld'
  BY <1>4 DEF Replace, Unpark, Recheck, TypeOK, IHeld, Leaving
<1>5. ASSUME NEW s \in Sleeps, Register(s) PROVE IHeld'
  <2>1. Fresh(s) \in Own(s) /\ Fresh(s) \in Slots /\ Fresh(s) # None
    BY <1>5, FreshSlot, OwnSlots, SlotShape
  <2>2. /\ state' = [state EXCEPT ![Fresh(s)] = "armed"]
        /\ held' = [held EXCEPT ![s] = Fresh(s)]
        /\ at' = [at EXCEPT ![s] = IF published THEN "unpark" ELSE "recheck"]
    BY <1>5 DEF Register, Fresh
  <2>3. /\ held'[s] = Fresh(s) /\ state'[Fresh(s)] = "armed" /\ at'[s] \in {"unpark", "recheck"}
    BY <2>1, <2>2 DEF TypeOK
  <2>4. ASSUME NEW r \in Sleeps, r # s
        PROVE  /\ held'[r] = held[r] /\ at'[r] = at[r]
               /\ \A x \in Own(r) : state'[x] = state[x]
    <3>1. Own(r) \subseteq Slots /\ Fresh(s) \notin Own(r)
      BY <2>1, <2>4, OwnSlots
    <3> QED BY <2>2, <2>4, <3>1 DEF TypeOK
  <2>5. ASSUME NEW r \in Sleeps, r # s, held[r] # None PROVE held[r] \in Own(r)
    BY <2>5 DEF IHeld
  <2> QED BY <2>1, <2>3, <2>4, <2>5 DEF IHeld, Leaving
<1>6. ASSUME NEW s \in Sleeps, Drop(s) PROVE IHeld'
  <2>1. CASE Armed(s)
    <3>1. /\ state' = [state EXCEPT ![held[s]] = "cancelled"]
          /\ at' = [at EXCEPT ![s] = "release"] /\ UNCHANGED held
      BY <1>6, <2>1 DEF Drop
    <3>2. held[s] # None /\ held[s] \in Slots /\ held[s] \in Own(s)
      BY <2>1, OwnSlots DEF Armed, IHeld
    <3>3. ASSUME NEW r \in Sleeps, r # s
          PROVE  /\ at'[r] = at[r] /\ held'[r] = held[r]
                 /\ \A x \in Own(r) : state'[x] = state[x]
      <4>1. Own(r) \subseteq Slots /\ held[s] \notin Own(r)
        BY <3>2, <3>3, OwnSlots
      <4> QED BY <3>1, <3>3, <4>1 DEF TypeOK
    <3>4. ASSUME NEW r \in Sleeps, r # s, held[r] # None PROVE held[r] \in Own(r)
      BY <3>4 DEF IHeld
    <3>5. at'[s] = "release" /\ state'[held[s]] = "cancelled" /\ held'[s] = held[s]
      BY <3>1, <3>2 DEF TypeOK
    <3> QED BY <3>2, <3>3, <3>4, <3>5 DEF IHeld, Leaving
  <2>2. CASE ~Armed(s)
    BY <1>6, <2>2 DEF Drop, TypeOK, IHeld, Leaving
  <2> QED BY <2>1, <2>2
<1>7. ASSUME NEW s \in Sleeps, Release(s) \/ CountDrop(s) PROVE IHeld'
  BY <1>7 DEF Release, CountDrop, TypeOK, IHeld, Leaving
<1>8. CASE Fire
  <2>1. PICK x \in pending :
          IF state[x] = "armed" THEN state' = [state EXCEPT ![x] = "fired"]
                                ELSE UNCHANGED state
    BY <1>8 DEF Fire
  <2>2. UNCHANGED <<at, held>> /\ x \in Slots
    BY <1>8 DEF Fire, TypeOK
  <2>3. CASE state[x] = "armed"
    <3>1. state' = [state EXCEPT ![x] = "fired"]
      BY <2>1, <2>3
    <3>2. ASSUME NEW r \in Sleeps, held[r] # None
          PROVE  held[r] \in Slots /\ (held[r] = x => at[r] \notin Leaving)
      BY <2>3, <3>2, OwnSlots DEF IHeld
    <3>3. ASSUME NEW r \in Sleeps, held[r] = None, at[r] # "dropped"
          PROVE  x \notin Own(r) /\ Own(r) \subseteq Slots
      BY <2>3, <3>3, OwnSlots DEF IHeld
    <3> QED BY <2>2, <3>1, <3>2, <3>3 DEF TypeOK, IHeld
  <2>4. CASE state[x] # "armed"
    BY <2>1, <2>2, <2>4 DEF IHeld
  <2> QED BY <2>3, <2>4
<1>9. CASE Listening
  BY <1>9, ListeningLeaves DEF IHeld
<1> QED
  BY <1>1, <1>2, <1>3, <1>4, <1>5, <1>6, <1>7, <1>8, <1>9, Steps

(* What is listed stays armed and held, or is cancelled with its Sleep on  *)
(* its way out.                                                            *)
LEMMA SlotsStep == IInv /\ [Next]_vars => ISlots'
<1> SUFFICES ASSUME TypeOK, IHeld, ISlots, IArmed, IFiring, [Next]_vars PROVE ISlots'
  BY DEF IInv
<1> USE DEF clock, futures, shared, registry, thread
<1>1. ASSUME NEW x \in arrivals \cup pending PROVE x \in Slots /\ x[1] \in Sleeps
  BY SlotShape DEF TypeOK
<1>2. ASSUME NEW s \in Sleeps,
             \/ Make(s) \/ MatchArmed(s) \/ Replace(s) \/ Unpark(s) \/ Recheck(s)
             \/ \E w \in Wakers : Poll(s, w)
      PROVE  ISlots'
  BY <1>1, <1>2 DEF Make, MatchArmed, Replace, Unpark, Recheck, Poll, TypeOK, ISlots, Leaving
<1>3. ASSUME NEW s \in Sleeps, Register(s) PROVE ISlots'
  <2>1. /\ state' = [state EXCEPT ![Fresh(s)] = "armed"]
        /\ arrivals' = arrivals \cup {Fresh(s)} /\ pending' = pending
        /\ held' = [held EXCEPT ![s] = Fresh(s)]
        /\ at' = [at EXCEPT ![s] = IF published THEN "unpark" ELSE "recheck"]
    BY <1>3 DEF Register, Fresh
  <2>2. /\ Fresh(s) \in Slots /\ Fresh(s)[1] = s
        /\ Fresh(s) \notin arrivals \cup pending
    BY <1>3, FreshSlot, OwnSlots
  <2>3. ASSUME NEW x \in arrivals \cup pending PROVE x[1] # s
    <3>1. x # None
      BY SlotShape DEF TypeOK
    <3> QED BY <1>3, <3>1 DEF Register, ISlots, Leaving, Armed
  <2> QED BY <1>1, <2>1, <2>2, <2>3 DEF TypeOK, ISlots
<1>4. ASSUME NEW s \in Sleeps, Drop(s) PROVE ISlots'
  <2>1. CASE Armed(s)
    <3>1. held[s] \in Slots /\ held[s][1] = s
      BY <2>1, OwnSlots DEF Armed, IHeld
    <3> QED BY <1>1, <1>4, <2>1, <3>1 DEF Drop, TypeOK, ISlots, Leaving
  <2>2. CASE ~Armed(s)
    <3>1. ASSUME NEW x \in arrivals \cup pending, state[x] = "armed" PROVE x[1] # s
      BY <1>1, <2>2, <3>1, SlotShape DEF ISlots, Armed, TypeOK
    <3> QED BY <1>1, <1>4, <2>2, <3>1 DEF Drop, TypeOK, ISlots, Leaving
  <2> QED BY <2>1, <2>2
<1>5. ASSUME NEW s \in Sleeps, Release(s) \/ CountDrop(s) PROVE ISlots'
  BY <1>1, <1>5 DEF Release, CountDrop, TypeOK, ISlots, IHeld, Leaving
<1>6. CASE Fire
  <2>1. PICK x \in pending :
          /\ pending' = pending \ {x}
          /\ IF state[x] = "armed" THEN state' = [state EXCEPT ![x] = "fired"]
                                   ELSE UNCHANGED state
    BY <1>6 DEF Fire
  <2> QED BY <1>1, <1>6, <2>1 DEF Fire, TypeOK, ISlots
<1>7. CASE Listening
  <2>1. arrivals' \cup pending' \subseteq arrivals \cup pending
    BY <1>7 DEF Listening, Publish, Take, ReadClock, TakeWaker, Wake, Count, Retain, Live,
                Subtract, Park, Unparked, TimedOut, PassEnds, Tick, vars
  <2> QED BY <1>7, <2>1, ListeningLeaves DEF ISlots
<1> QED
  BY <1>2, <1>3, <1>4, <1>5, <1>6, <1>7, Steps

(* A slot leaves the list fired, or cancelled.                             *)
LEMMA ArmedStep == IInv /\ [Next]_vars => IArmed'
<1> SUFFICES ASSUME TypeOK, IHeld, ISlots, IArmed, IFiring, [Next]_vars PROVE IArmed'
  BY DEF IInv
<1> USE DEF clock, futures, shared, registry, thread
<1>1. ASSUME NEW s \in Sleeps, held[s] # None PROVE held[s] \in Slots /\ held[s] \in Own(s)
  BY <1>1, OwnSlots DEF IHeld
<1>2. ASSUME NEW s \in Sleeps,
             \/ Make(s) \/ MatchArmed(s) \/ Unpark(s) \/ Recheck(s)
             \/ \E w \in Wakers : Poll(s, w)
      PROVE  IArmed'
  BY <1>2 DEF Make, MatchArmed, Unpark, Recheck, Poll, TypeOK, IArmed, Armed
<1>3. ASSUME NEW s \in Sleeps, Replace(s) PROVE IArmed'
  <2>1. held[s] # None
    BY <1>3 DEF Replace, IHeld
  <2>2. ASSUME NEW r \in Sleeps, r # s, held[r] # None PROVE waker'[held[r]] = waker[held[r]]
    BY <1>1, <1>3, <2>1, <2>2, HeldApart DEF Replace, TypeOK
  <2> QED BY <1>1, <1>3, <2>1, <2>2 DEF Replace, TypeOK, IArmed, Armed
<1>4. ASSUME NEW s \in Sleeps, Register(s) PROVE IArmed'
  <2>1. /\ state' = [state EXCEPT ![Fresh(s)] = "armed"]
        /\ waker' = [waker EXCEPT ![Fresh(s)] = by[s]]
        /\ arrivals' = arrivals \cup {Fresh(s)} /\ pending' = pending /\ by' = by
        /\ held' = [held EXCEPT ![s] = Fresh(s)]
        /\ at' = [at EXCEPT ![s] = IF published THEN "unpark" ELSE "recheck"]
    BY <1>4 DEF Register, Fresh
  <2>2. Fresh(s) \in Slots /\ Fresh(s)[1] = s
    BY <1>4, FreshSlot, OwnSlots
  <2>3. ASSUME NEW r \in Sleeps, r # s, held[r] # None PROVE held[r] # Fresh(s)
    BY <1>1, <2>2, <2>3, OwnSlots
  <2>4. ASSUME NEW r \in Sleeps, r # s, Armed(r)'
        PROVE  /\ Armed(r) /\ held'[r] = held[r] /\ at'[r] = at[r]
               /\ waker'[held[r]] = waker[held[r]]
    BY <1>1, <2>1, <2>2, <2>3, <2>4 DEF TypeOK, Armed
  <2>5. held'[s] = Fresh(s) /\ waker'[Fresh(s)] = by[s] /\ by[s] \in Wakers
    BY <2>1, <2>2 DEF TypeOK
  <2> QED BY <2>1, <2>4, <2>5 DEF IArmed
<1>5. ASSUME NEW s \in Sleeps, Drop(s) PROVE IArmed'
  BY <1>1, <1>5 DEF Drop, TypeOK, IArmed, Armed
<1>6. ASSUME NEW s \in Sleeps, Release(s) PROVE IArmed'
  BY <1>1, <1>6 DEF Release, TypeOK, IArmed, Armed, IHeld, Leaving
<1>7. ASSUME NEW s \in Sleeps, CountDrop(s) PROVE IArmed'
  BY <1>7 DEF CountDrop, TypeOK, IArmed, Armed
<1>8. CASE Fire
  <2>1. PICK x \in pending :
          /\ pending' = pending \ {x}
          /\ IF state[x] = "armed" THEN state' = [state EXCEPT ![x] = "fired"]
                                   ELSE UNCHANGED state
    BY <1>8 DEF Fire
  <2>2. UNCHANGED <<at, held, by, waker, arrivals>> /\ x \in Slots
    BY <1>8 DEF Fire, TypeOK
  <2> QED BY <1>1, <2>1, <2>2 DEF TypeOK, IArmed, Armed
<1>9. CASE Listening
  <2>1. ASSUME NEW s \in Sleeps, Armed(s) PROVE held[s] \in arrivals' \cup pending'
    BY <1>9, <2>1 DEF Listening, Publish, Take, ReadClock, TakeWaker, Wake, Count, Retain, Live,
         Subtract, Park, Unparked, TimedOut, PassEnds, Tick, vars, IArmed, Armed
  <2>2. ASSUME NEW s \in Sleeps, Armed(s) PROVE waker'[held[s]] = waker[held[s]]
    <3>1. CASE TakeWaker
      BY <1>1, <2>2, <3>1, SlotShape DEF TakeWaker, TypeOK, IFiring, Armed
    <3>2. CASE UNCHANGED waker
      BY <3>2
    <3> QED
      BY <1>9, <3>1, <3>2 DEF Listening, Publish, Take, ReadClock, Wake, Count, Retain,
           Subtract, Park, Unparked, TimedOut, PassEnds, Tick, vars
  <2> QED BY <1>9, <2>1, <2>2, ListeningLeaves DEF IArmed, Armed
<1> QED
  BY <1>2, <1>3, <1>4, <1>5, <1>6, <1>7, <1>8, <1>9, Steps

(* What the alarm thread has claimed stays claimed until it takes the      *)
(* waker, whatever its Sleep does meanwhile.                               *)
LEMMA FiringStep == IInv /\ [Next]_vars => IFiring'
<1> SUFFICES ASSUME TypeOK, IHeld, ISlots, IArmed, IFiring, [Next]_vars PROVE IFiring'
  BY DEF IInv
<1> USE DEF clock, futures, shared, registry, thread
<1>1. ASSUME firing # None PROVE firing \in Slots /\ firing[1] \in Sleeps
  BY <1>1, SlotShape DEF TypeOK
<1>2. ASSUME NEW s \in Sleeps, held[s] # None PROVE held[s] \in Slots /\ held[s][1] = s
  BY <1>2, OwnSlots DEF IHeld
<1>3. ASSUME NEW s \in Sleeps,
             \/ Make(s) \/ MatchArmed(s) \/ Unpark(s) \/ Recheck(s)
             \/ \E w \in Wakers : Poll(s, w)
      PROVE  IFiring'
  BY <1>3 DEF Make, MatchArmed, Unpark, Recheck, Poll, IFiring
<1>4. ASSUME NEW s \in Sleeps, Replace(s) PROVE IFiring'
  BY <1>1, <1>4 DEF Replace, TypeOK, IFiring
<1>5. ASSUME NEW s \in Sleeps, Register(s) PROVE IFiring'
  <2>1. /\ state' = [state EXCEPT ![Fresh(s)] = "armed"]
        /\ waker' = [waker EXCEPT ![Fresh(s)] = by[s]]
        /\ held' = [held EXCEPT ![s] = Fresh(s)]
        /\ UNCHANGED <<published, thread>>
    BY <1>5 DEF Register, Fresh
  <2>2. Fresh(s) \in Slots /\ Fresh(s)[1] = s /\ Fresh(s) # firing
    BY <1>5, FreshSlot, OwnSlots
  <2>3. ASSUME firing # None
        PROVE  /\ state'[firing] = "fired" /\ waker'[firing] \in Wakers
               /\ held'[firing[1]] \notin {firing, None} => state'[held'[firing[1]]] # "fired"
    BY <1>1, <1>2, <2>1, <2>2, <2>3 DEF IFiring, TypeOK
  <2> QED BY <2>1, <2>3 DEF IFiring
<1>6. ASSUME NEW s \in Sleeps, Drop(s) PROVE IFiring'
  <2>1. CASE Armed(s)
    BY <1>1, <1>2, <1>6, <2>1 DEF Drop, TypeOK, IFiring, Armed
  <2>2. CASE ~Armed(s)
    BY <1>1, <1>6, <2>2 DEF Drop, TypeOK, IFiring
  <2> QED BY <2>1, <2>2
<1>7. ASSUME NEW s \in Sleeps, Release(s) \/ CountDrop(s) PROVE IFiring'
  BY <1>1, <1>2, <1>7 DEF Release, CountDrop, TypeOK, IFiring, IHeld, Leaving
<1>8. CASE Fire
  <2>1. PICK x \in pending :
          IF state[x] = "armed"
            THEN /\ state' = [state EXCEPT ![x] = "fired"]
                 /\ firing' = x /\ pc' = "claimed"
            ELSE UNCHANGED <<state, firing, pc>>
    BY <1>8 DEF Fire
  <2>2. UNCHANGED <<held, waker, hand, published>> /\ pc = "fire"
    BY <1>8 DEF Fire
  <2>3. x \in Slots /\ x # None /\ x[1] \in Sleeps
    BY SlotShape DEF TypeOK
  <2>4. state[x] = "armed" => held[x[1]] = x /\ waker[x] \in Wakers
    BY <2>3 DEF ISlots, IArmed, Armed
  <2> QED BY <2>1, <2>2, <2>3, <2>4 DEF TypeOK, IFiring
<1>9. CASE TakeWaker
  <2>1. firing # None /\ waker[firing] \in Wakers
    BY <1>9 DEF TakeWaker, IFiring
  <2>2. <<firing[1], waker[firing]>> # None
    BY <1>1, <2>1, NoneAssumption
  <2> QED BY <1>9, <2>2 DEF TakeWaker, IFiring
<1>10. CASE Listening /\ ~TakeWaker
  BY <1>10 DEF Listening, Publish, Take, ReadClock, Wake, Count, Retain, Subtract, Park,
       Unparked, TimedOut, PassEnds, Tick, vars, IFiring
<1> QED
  BY <1>3, <1>4, <1>5, <1>6, <1>7, <1>8, <1>9, <1>10, Steps

(* The reading of a pass is behind the clock, and what fires was due by it. *)
LEMMA DueStep == IInv /\ [Next]_vars => IDue'
<1> SUFFICES ASSUME TypeOK, IHeld, ISlots, IDue, [Next]_vars PROVE IDue'
  BY DEF IInv
<1> USE DEF clock, futures, shared, registry, thread
<1>1. now \in Int /\ skew \in Int /\ \A s \in Sleeps : deadline[s] \in Int
  BY ClockAssumption DEF TypeOK
<1>2. \A x \in Slots : x[1] \in Sleeps /\ x \in Own(x[1])
  BY SlotShape
<1>3. ASSUME NEW s \in Sleeps, Make(s) PROVE IDue'
  <2>1. \A x \in Own(s) : state[x] = "free"
    BY <1>3 DEF Make, IHeld
  <2>2. \A r \in Sleeps : r # s => deadline'[r] = deadline[r]
    BY <1>3 DEF Make, TypeOK
  <2>3. \A x \in Slots : state[x] = "fired" => x[1] # s
    BY <1>2, <2>1
  <2> QED BY <1>2, <1>3, <2>2, <2>3 DEF Make, IDue, AlarmClock
<1>4. ASSUME NEW s \in Sleeps,
             \/ MatchArmed(s) \/ Replace(s) \/ Unpark(s) \/ Recheck(s) \/ Release(s)
             \/ CountDrop(s) \/ \E w \in Wakers : Poll(s, w)
      PROVE  IDue'
  BY <1>4 DEF MatchArmed, Replace, Unpark, Recheck, Release, CountDrop, Poll, IDue, AlarmClock
<1>5. ASSUME NEW s \in Sleeps, Register(s) PROVE IDue'
  BY <1>5 DEF Register, TypeOK, IDue, AlarmClock
<1>6. ASSUME NEW s \in Sleeps, Drop(s) PROVE IDue'
  BY <1>6 DEF Drop, TypeOK, IDue, AlarmClock
<1>7. CASE Fire
  <2>1. PICK x \in pending :
          /\ Due(x)
          /\ IF state[x] = "armed"
               THEN state' = [state EXCEPT ![x] = "fired"] /\ pc' = "claimed"
               ELSE UNCHANGED <<state, pc>>
    BY <1>7 DEF Fire
  <2>2. UNCHANGED <<now, skew, deadline, seen>> /\ pc = "fire"
    BY <1>7 DEF Fire
  <2>3. x \in Slots /\ deadline[x[1]] <= AlarmClock
    BY <1>1, <1>2, <2>1, <2>2 DEF TypeOK, Due, IDue, AlarmClock
  <2> QED BY <2>1, <2>2, <2>3 DEF TypeOK, IDue, AlarmClock
<1>8. CASE Tick
  BY <1>1, <1>2, <1>8 DEF Tick, IDue, AlarmClock
<1>9. CASE Listening /\ ~Tick
  BY <1>1, <1>9 DEF Listening, Publish, Take, ReadClock, TakeWaker, Wake, Count, Retain,
       Subtract, Park, Unparked, TimedOut, PassEnds, vars, IDue, AlarmClock
<1> QED
  BY <1>3, <1>4, <1>5, <1>6, <1>7, <1>8, <1>9, Steps

(* A Sleep is counted when it is dropped and never again.                  *)
LEMMA CountStep == IInv /\ [Next]_vars => ICount'
<1> SUFFICES ASSUME TypeOK, ICount, [Next]_vars PROVE ICount'
  BY DEF IInv
<1> USE DEF clock, futures, shared, registry, thread
<1>1. /\ IsFiniteSet(Dropped) /\ IsFiniteSet(Dropped')
      /\ Cardinality(Dropped) \in Nat /\ Cardinality(Dropped') \in Nat
      /\ cancelled \in Nat /\ counted \in Nat
  <2>1. Dropped \subseteq Sleeps /\ Dropped' \subseteq Sleeps
    BY DEF Dropped
  <2> QED
    BY <2>1, FiniteAssumption, FS_Subset, FS_CardinalityType DEF TypeOK
<1>2. ASSUME cancelled' <= cancelled, cancelled' \in Int, Dropped \subseteq Dropped' PROVE ICount'
  <2>1. Cardinality(Dropped) <= Cardinality(Dropped')
    BY <1>1, <1>2, FS_Subset
  <2> QED BY <1>1, <1>2, <2>1 DEF ICount
<1>3. ASSUME NEW s \in Sleeps, CountDrop(s) PROVE ICount'
  <2>1. Dropped' = Dropped \cup {s} /\ s \notin Dropped
    BY <1>3 DEF CountDrop, Dropped, TypeOK
  <2>2. Cardinality(Dropped') = Cardinality(Dropped) + 1
    BY <1>1, <2>1, FS_AddElement
  <2> QED BY <1>1, <1>3, <2>2 DEF CountDrop, ICount
<1>4. ASSUME NEW s \in Sleeps,
             \/ Make(s) \/ MatchArmed(s) \/ Replace(s) \/ Register(s) \/ Unpark(s) \/ Recheck(s)
             \/ Drop(s) \/ Release(s) \/ \E w \in Wakers : Poll(s, w)
      PROVE  ICount'
  <2>1. cancelled' = cancelled
    BY <1>4 DEF Make, MatchArmed, Replace, Register, Unpark, Recheck, Drop, Release, Poll
  <2>2. at[s] # "dropped" /\ \A r \in Sleeps : r # s => at'[r] = at[r]
    BY <1>4 DEF Make, MatchArmed, Replace, Register, Unpark, Recheck, Drop, Release, Poll, TypeOK
  <2> QED BY <1>1, <1>2, <2>1, <2>2 DEF Dropped
<1>5. CASE Fire
  BY <1>1, <1>2, <1>5 DEF Fire, Dropped
<1>6. CASE Listening
  <2>1. cancelled' <= cancelled /\ cancelled' \in Int
    BY <1>1, <1>6 DEF Listening, Publish, Take, ReadClock, TakeWaker, Wake, Count, Retain,
         Subtract, Park, Unparked, TimedOut, PassEnds, Tick, vars
  <2> QED BY <1>2, <1>6, <2>1, ListeningLeaves DEF Dropped
<1> QED
  BY <1>3, <1>4, <1>5, <1>6, Steps

(* A wait stays registered while its slot is fired and its waker taken,    *)
(* handed over and woken.                                                  *)
LEMMA RegisteredStep == IInv /\ [Next]_vars => IRegistered'
<1> SUFFICES ASSUME TypeOK, IHeld, ISlots, IArmed, IFiring, IRegistered, [Next]_vars,
                    NEW r \in Sleeps, at'[r] = "waiting"
             PROVE  Registered(r)'
  BY DEF IInv, IRegistered
<1> USE DEF clock, futures, shared, registry, thread
<1>1. ASSUME NEW s \in Sleeps, held[s] # None
      PROVE  held[s] \in Slots /\ held[s] \in Own(s) /\ held[s][1] = s
  BY <1>1, OwnSlots DEF IHeld
<1>2. ASSUME at[r] = "waiting"
      PROVE  Registered(r) /\ held[r] # None /\ held[r] \in Slots
  BY <1>1, <1>2 DEF IRegistered, IHeld
<1>3. ASSUME NEW s \in Sleeps,
             Make(s) \/ MatchArmed(s) \/ Unpark(s) \/ \E w \in Wakers : Poll(s, w)
      PROVE  Registered(r)'
  <2>1. at[r] = "waiting" /\ r # s
    BY <1>3 DEF Make, MatchArmed, Unpark, Poll, TypeOK
  <2>2. UNCHANGED <<held, state, waker, arrivals, pending, firing, hand>>
    BY <1>3 DEF Make, MatchArmed, Unpark, Poll
  <2>3. by'[r] = by[r] /\ (<<r, by[r]>> \in woken => <<r, by[r]>> \in woken')
    BY <1>3, <2>1 DEF Make, MatchArmed, Unpark, Poll, TypeOK
  <2> QED BY <1>2, <2>1, <2>2, <2>3 DEF Registered, Armed
<1>4. ASSUME NEW s \in Sleeps, Recheck(s) PROVE Registered(r)'
  <2>1. CASE r = s
    <3>1. held[s] # None /\ state[held[s]] = "armed"
      BY <1>4, <2>1 DEF Recheck, Elapsed, IHeld, Leaving, TypeOK
    <3>2. held[s] \in arrivals \cup pending /\ waker[held[s]] = by[s]
      BY <1>4, <3>1 DEF IArmed, Armed, Recheck
    <3> QED BY <1>4, <2>1, <3>1, <3>2 DEF Recheck, Registered, Armed
  <2>2. CASE r # s
    BY <1>2, <1>4, <2>2 DEF Recheck, TypeOK, Registered, Armed
  <2> QED BY <2>1, <2>2
<1>5. ASSUME NEW s \in Sleeps, Replace(s) \/ Release(s) PROVE Registered(r)'
  <2>1. at[r] = "waiting" /\ r # s /\ held[s] # None
    BY <1>5 DEF Replace, Release, TypeOK, IHeld, Leaving
  <2>2. held[r] # held[s]
    BY <1>2, <2>1, HeldApart
  <2>3. waker'[held[r]] = waker[held[r]]
    BY <1>1, <1>2, <1>5, <2>1, <2>2 DEF Replace, Release, TypeOK
  <2>4. UNCHANGED <<held, by, woken, state, arrivals, pending, firing, hand>>
    BY <1>5 DEF Replace, Release
  <2> QED BY <1>2, <2>1, <2>3, <2>4 DEF Registered, Armed
<1>6. ASSUME NEW s \in Sleeps, Register(s) PROVE Registered(r)'
  <2>1. /\ state' = [state EXCEPT ![Fresh(s)] = "armed"]
        /\ waker' = [waker EXCEPT ![Fresh(s)] = by[s]]
        /\ arrivals' = arrivals \cup {Fresh(s)}
        /\ held' = [held EXCEPT ![s] = Fresh(s)]
        /\ UNCHANGED <<by, woken, pending, firing, hand>>
    BY <1>6 DEF Register, Fresh
  <2>2. at[r] = "waiting" /\ r # s
    BY <1>6 DEF Register, TypeOK
  <2>3. Fresh(s) \in Slots /\ Fresh(s) # held[r]
    <3>1. Fresh(s) \in Slots /\ Fresh(s)[1] = s
      BY <1>6, FreshSlot, OwnSlots
    <3>2. held[r][1] = r
      BY <1>1, <1>2, <2>2
    <3> QED BY <2>2, <3>1, <3>2
  <2>4. /\ held'[r] = held[r] /\ state'[held[r]] = state[held[r]]
        /\ waker'[held[r]] = waker[held[r]]
    BY <1>2, <2>1, <2>2, <2>3 DEF TypeOK
  <2> QED BY <1>2, <2>1, <2>2, <2>4 DEF Registered, Armed
<1>7. ASSUME NEW s \in Sleeps, Drop(s) PROVE Registered(r)'
  <2>1. at[r] = "waiting" /\ r # s /\ held'[r] = held[r]
    BY <1>7 DEF Drop, TypeOK
  <2>2. state'[held[r]] = state[held[r]]
    <3>1. held[s] # None => held[s] # held[r]
      BY <1>2, <2>1, HeldApart
    <3> QED BY <1>1, <1>2, <1>7, <2>1, <3>1 DEF Drop, Armed, TypeOK
  <2>3. UNCHANGED <<by, waker, arrivals, pending, firing, hand>>
    BY <1>7 DEF Drop
  <2>4. <<r, by[r]>> \in woken => <<r, by[r]>> \in woken'
    BY <1>7, <2>1 DEF Drop
  <2> QED BY <1>2, <2>1, <2>2, <2>3, <2>4 DEF Registered, Armed
<1>8. ASSUME NEW s \in Sleeps, CountDrop(s) PROVE Registered(r)'
  BY <1>2, <1>8 DEF CountDrop, TypeOK, Registered, Armed
<1>9. CASE Fire
  <2>1. PICK x \in pending :
          /\ pending' = pending \ {x}
          /\ IF state[x] = "armed"
               THEN state' = [state EXCEPT ![x] = "fired"] /\ firing' = x
               ELSE UNCHANGED <<state, firing>>
    BY <1>9 DEF Fire
  <2>2. UNCHANGED <<at, held, by, woken, waker, arrivals, hand>> /\ pc = "fire"
    BY <1>9 DEF Fire
  <2>3. firing = None /\ x \in Slots
    BY <2>2 DEF IFiring, TypeOK
  <2> QED BY <1>2, <2>1, <2>2, <2>3 DEF TypeOK, Registered, Armed
<1>10. CASE TakeWaker
  <2>1. hand = None /\ firing \in Slots /\ at[r] = "waiting" /\ state[firing] = "fired"
    BY <1>10, SlotShape DEF TakeWaker, IFiring, TypeOK
  <2>2. held[r] = firing => firing[1] = r
    BY <1>1, <1>2, <2>1
  <2>3. <<r, by[r]>> # None
    BY NoneAssumption DEF TypeOK
  <2> QED BY <1>2, <1>10, <2>1, <2>2, <2>3 DEF TakeWaker, TypeOK, Registered, Armed
<1>11. CASE Wake
  BY <1>2, <1>11 DEF Wake, Registered, Armed
<1>12. CASE Take \/ Retain
  BY <1>2, <1>12 DEF Take, Retain, Live, Registered, Armed
<1>13. CASE Listening /\ ~TakeWaker /\ ~Wake /\ ~Take /\ ~Retain
  BY <1>2, <1>13 DEF Listening, Publish, ReadClock, Count, Subtract, Park, Unparked, TimedOut,
       PassEnds, Tick, vars, Registered, Armed
<1> QED
  BY <1>3, <1>4, <1>5, <1>6, <1>7, <1>8, <1>9, <1>10, <1>11, <1>12, <1>13, Steps

(* The earliest of some deadlines is one of them.                          *)
LEMMA EarliestThere ==
  ASSUME TypeOK, pending # {}
  PROVE  (CHOOSE x \in pending : Earliest(x)) \in pending
<1> DEFINE D == {deadline[x[1]] : x \in pending}
<1>1. \A x \in pending : deadline[x[1]] \in Nat
  BY SlotShape, ClockAssumption DEF TypeOK
<1>2. D # {} /\ D \subseteq Nat
  BY <1>1
<1>3. OpToRel(<, Nat) = {ss \in Nat \X Nat : ss[1] < ss[2]}
  BY DEF OpToRel
<1>4. PICK d \in D : \A e \in D : <<e, d>> \notin OpToRel(<, Nat)
  BY <1>2, NatLessThanWellFounded, WFMin
<1>5. \A e \in D : d <= e
  <2>1. ASSUME NEW e \in D PROVE d <= e
    <3>1. <<e, d>> \in Nat \X Nat /\ ~(e < d)
      BY <1>2, <1>3, <1>4
    <3> QED BY <3>1
  <2> QED BY <2>1
<1>6. PICK x \in pending : d = deadline[x[1]]
  OBVIOUS
<1>7. Earliest(x)
  BY <1>5, <1>6 DEF Earliest
<1> QED BY <1>7

(* The alarm thread goes to sleep on nothing: an arrival leaves its unpark *)
(* behind, and a heap that is not empty has a root to wait for.            *)
LEMMA UnseenStep == IInv /\ [Next]_vars => NothingUnseen'
<1> SUFFICES ASSUME TypeOK, IHeld, ISlots, IArmed, IFiring, IDue, NothingUnseen, [Next]_vars
             PROVE  NothingUnseen'
  BY DEF IInv
<1> USE DEF clock, futures, shared, registry, thread
<1>1. ASSUME NEW s \in Sleeps,
             \/ Make(s) \/ MatchArmed(s) \/ Replace(s) \/ Recheck(s) \/ Drop(s) \/ Release(s)
             \/ CountDrop(s) \/ \E w \in Wakers : Poll(s, w)
      PROVE  NothingUnseen'
  <2>1. UNCHANGED <<arrivals, token, pc, until, pending>>
    BY <1>1 DEF Make, MatchArmed, Replace, Recheck, Drop, Release, CountDrop, Poll
  <2>2. at[s] # "unpark"
    BY <1>1 DEF Make, MatchArmed, Replace, Recheck, Drop, Release, CountDrop, Poll
  <2>3. ASSUME NEW r \in Sleeps, at[r] = "unpark" PROVE at'[r] = "unpark" /\ held'[r] = held[r]
    BY <1>1, <2>2, <2>3
       DEF TypeOK, Make, MatchArmed, Replace, Recheck, Drop, Release, CountDrop, Poll
  <2> QED BY <2>1, <2>3 DEF NothingUnseen
<1>2. ASSUME NEW s \in Sleeps, Register(s) PROVE NothingUnseen'
  <2>1. /\ arrivals' = arrivals \cup {Fresh(s)}
        /\ held' = [held EXCEPT ![s] = Fresh(s)]
        /\ at' = [at EXCEPT ![s] = IF published THEN "unpark" ELSE "recheck"]
        /\ UNCHANGED <<token, pc, until, pending>> /\ at[s] = "match"
    BY <1>2 DEF Register, Fresh
  <2>2. ASSUME NEW r \in Sleeps, at[r] = "unpark" PROVE at'[r] = "unpark" /\ held'[r] = held[r]
    BY <2>1, <2>2 DEF TypeOK
  <2>3. pc = "unstarted" \/ (at'[s] = "unpark" /\ held'[s] = Fresh(s))
    BY <2>1 DEF TypeOK, IFiring
  <2> QED BY <2>1, <2>2, <2>3 DEF NothingUnseen
<1>3. ASSUME NEW s \in Sleeps, Unpark(s) PROVE NothingUnseen'
  BY <1>3 DEF Unpark, NothingUnseen
<1>4. CASE Fire
  BY <1>4 DEF Fire, NothingUnseen
<1>5. CASE Park
  <2>1. until' = None => pending = {}
    <3>1. ASSUME pending # {} PROVE until' \in Int
      <4> DEFINE x == CHOOSE y \in pending : Earliest(y)
      <4>1. x \in pending
        BY <3>1, EarliestThere
      <4>2. deadline[x[1]] \in Int /\ AlarmClock \in Int /\ seen \in Int
        BY <4>1, SlotShape, ClockAssumption DEF TypeOK, IDue, AlarmClock
      <4>3. until' = AlarmClock + deadline[x[1]] - seen
        BY <1>5, <3>1 DEF Park
      <4> QED BY <4>2, <4>3
    <3> QED BY <3>1, NoneAssumption
  <2> QED BY <1>5, <2>1 DEF Park, NothingUnseen
<1>6. CASE Listening /\ ~Park
  BY <1>6 DEF Listening, Publish, Take, ReadClock, TakeWaker, Wake, Count, Retain, Subtract,
       Unparked, TimedOut, PassEnds, Tick, vars, NothingUnseen
<1> QED
  BY <1>1, <1>2, <1>3, <1>4, <1>5, <1>6, Steps

(* A wait is over when one clock or the flag says so, and stays so.        *)
LEMMA EarlyStep == IInv /\ [Next]_vars => NeverEarly'
<1> SUFFICES ASSUME TypeOK, IHeld, IDue, NeverEarly, [Next]_vars PROVE NeverEarly'
  BY DEF IInv
<1> USE DEF clock, futures, shared, registry, thread
<1>1. now \in Int /\ skew \in Int /\ \A s \in Sleeps : deadline[s] \in Int
  BY ClockAssumption DEF TypeOK
<1>2. ASSUME NEW s \in Sleeps, Elapsed(s) PROVE now >= deadline[s] \/ AlarmClock >= deadline[s]
  <2>1. held[s] # None => held[s] \in Slots /\ held[s][1] = s
    BY OwnSlots DEF IHeld
  <2> QED BY <1>2, <2>1 DEF Elapsed, IDue
<1>3. ASSUME NEW s \in Sleeps, Make(s) PROVE NeverEarly'
  BY <1>3 DEF Make, TypeOK, NeverEarly, AlarmClock
<1>4. ASSUME NEW s \in Sleeps, Recheck(s) \/ \E w \in Wakers : Poll(s, w) PROVE NeverEarly'
  <2>1. UNCHANGED <<now, skew, deadline>> /\ (at'[s] = "ready" => Elapsed(s))
    BY <1>4 DEF Recheck, Poll, TypeOK
  <2>2. \A r \in Sleeps : r # s => at'[r] = at[r]
    BY <1>4 DEF Recheck, Poll, TypeOK
  <2> QED BY <1>2, <2>1, <2>2 DEF NeverEarly, AlarmClock
<1>5. ASSUME NEW s \in Sleeps,
             \/ MatchArmed(s) \/ Replace(s) \/ Register(s) \/ Unpark(s) \/ Drop(s) \/ Release(s)
             \/ CountDrop(s)
      PROVE  NeverEarly'
  BY <1>5 DEF MatchArmed, Replace, Register, Unpark, Drop, Release, CountDrop, TypeOK, NeverEarly,
       AlarmClock
<1>6. CASE Fire
  BY <1>6 DEF Fire, NeverEarly, AlarmClock
<1>7. CASE Tick
  BY <1>1, <1>7 DEF Tick, NeverEarly, AlarmClock
<1>8. CASE Listening /\ ~Tick
  <2>1. UNCHANGED <<now, skew>>
    BY <1>8 DEF Listening, Publish, Take, ReadClock, TakeWaker, Wake, Count, Retain, Subtract,
         Park, Unparked, TimedOut, PassEnds, vars
  <2> QED BY <1>8, <2>1, ListeningLeaves DEF NeverEarly, AlarmClock
<1> QED
  BY <1>3, <1>4, <1>5, <1>6, <1>7, <1>8, Steps

-----------------------------------------------------------------------------
LEMMA InitInv == Init => IInv
<1> SUFFICES ASSUME Init PROVE IInv
  OBVIOUS
<1>1. Dropped = {} /\ Cardinality(Dropped) = 0
  BY FS_EmptySet DEF Init, Dropped
<1>2. Cardinality(Sleeps) \in Nat
  BY FiniteAssumption, FS_CardinalityType
<1>3. TypeOK
  <2>1. by \in [Sleeps -> Wakers] /\ cancelled \in 0..Cardinality(Sleeps) /\ counted \in 0..cancelled
    BY <1>2 DEF Init
  <2>2. now \in 0..MaxNow /\ deadline \in [Sleeps -> 0..MaxNow]
    BY ClockAssumption DEF Init
  <2>3. /\ held \in [Sleeps -> Slots \cup {None}] /\ woken \subseteq Sleeps \X Wakers
        /\ waker \in [Slots -> Wakers \cup {None}]
        /\ firing \in Slots \cup {None} /\ hand \in (Sleeps \X Wakers) \cup {None}
    BY DEF Init
  <2> QED BY <2>1, <2>2, <2>3 DEF Init, TypeOK
<1>4. IHeld
  BY OwnSlots DEF Init, IHeld, Leaving
<1>5. ISlots /\ IArmed /\ IFiring /\ ICount
  BY <1>1 DEF Init, ISlots, IArmed, IFiring, ICount, Armed
<1>6. IDue /\ IRegistered /\ NothingUnseen /\ NeverEarly
  BY DEF Init, IDue, IRegistered, NothingUnseen, NeverEarly
<1> QED BY <1>3, <1>4, <1>5, <1>6 DEF IInv

LEMMA StepInv == IInv /\ [Next]_vars => IInv'
<1> SUFFICES ASSUME IInv, [Next]_vars PROVE IInv'
  OBVIOUS
<1>1. ICount' /\ TypeOK'
  BY CountStep, TypeStep
<1> QED
  BY <1>1, HeldStep, SlotsStep, ArmedStep, FiringStep, DueStep, RegisteredStep, UnseenStep,
     EarlyStep DEF IInv

(* The inductive invariant of the registry holds in every reachable state  *)
(* (alarm.rs).                                                             *)
THEOREM Invariance == Spec => []IInv
BY InitInv, StepInv, PTL DEF Spec

(* No wake is lost, for any number of sleeps and of tasks that poll them,  *)
(* between a poll and the slot fired under it, or between a registration   *)
(* and the alarm thread that goes to sleep; and the count of cancellations *)
(* never falls below zero (alarm.rs:184-330).                              *)
THEOREM WakesAreKept == Spec => []NoLostWake
<1>1. IInv => NoLostWake
  BY DEF IInv, IRegistered, NoLostWake
<1> QED BY <1>1, Invariance, PTL

(* No wait ends before its deadline by both clocks, however far apart they *)
(* are (alarm.rs:145-150).                                                 *)
THEOREM WaitsAreServed == Spec => []NeverEarly
<1>1. IInv => NeverEarly
  BY DEF IInv
<1> QED BY <1>1, Invariance, PTL

-----------------------------------------------------------------------------
(* The realms whose clock tasks await such sleeps: RealmClock, as MCClock  *)
(* names it.                                                               *)

(* The job on the stack is one of r's.                                     *)
Mine(r) == k_job # NoJob /\ k_job.realm = r

(* What a realm's last entry published stands until a checkpoint is run.   *)
KMatch ==
  \A r \in Realms : ~k_ended[r] /\ ~k_foreign[r] => k_deadline[r] = K!Earliest(k_timers[r])

(* A checkpoint that was not the realm's own has yet to be read, or has    *)
(* been read and its settle is out.                                        *)
KTold ==
  \A r \in Realms : ~k_ended[r] /\ k_foreign[r] => k_unseen[r] \/ K!Unanswered(r) \/ Mine(r)

(* A clock task that waits has the deadline in hand, or is told of it.     *)
KArmed ==
  \A r \in Realms : k_clock[r] = "select" => k_moved[r] \/ k_armed[r] = k_deadline[r]

(* A settle is out only while the clock task awaits it, or was aborted.    *)
KOut ==
  \A r \in Realms : K!Unanswered(r) => k_clock[r] \in {"settling", "gone"}

KInv == KMatch /\ KTold /\ KArmed /\ KOut /\ K!SettlesDoNotPile

-----------------------------------------------------------------------------
(* Earliest answers a deadline of the set, or none of an empty one.        *)
LEMMA EarliestType ==
  ASSUME K!ClockAssumption, NEW S \in SUBSET K!Instant
  PROVE  K!Earliest(S) \in K!Instant \cup {K!NoDeadline}
<1>1. CASE S = {}
  BY <1>1 DEF K!Earliest
<1>2. CASE S # {}
  <2>1. PICK n \in S : TRUE
    BY <1>2
  <2>2. S \in SUBSET Nat
    BY K!ClockAssumption DEF K!ClockAssumption, K!Instant
  <2>3. \E d \in S : \A e \in S : <<e, d>> \notin OpToRel(<, Nat)
    BY <1>2, <2>2, NatLessThanWellFounded, WFMin
  <2>4. \E d \in S : \A e \in S : d <= e
    <3>1. PICK d \in S : \A e \in S : <<e, d>> \notin OpToRel(<, Nat)
      BY <2>3
    <3>2. OpToRel(<, Nat) = {ss \in Nat \X Nat : ss[1] < ss[2]}
      BY DEF OpToRel
    <3>3. ASSUME NEW e \in S PROVE d <= e
      <4>1. <<e, d>> \in Nat \X Nat /\ ~(e < d)
        BY <2>2, <3>1, <3>2
      <4> QED BY <4>1
    <3> QED BY <3>3
  <2>5. (CHOOSE d \in S : \A e \in S : d <= e) \in S
    BY <2>4
  <2> QED BY <1>2, <2>5 DEF K!Earliest
<1> QED BY <1>1, <1>2

(* A push of one job leaves the queue a sequence of jobs.                  *)
LEMMA PushType ==
  ASSUME K!TypeOK, NEW r \in Realms, NEW k \in {"enter", "timer", "settle"}, K!Push(r, k)
  PROVE  k_queue' \in Seq(K!Job)
<1>1. [realm |-> r, kind |-> k] \in K!Job
  BY DEF K!Job
<1> QED BY <1>1 DEF K!TypeOK, K!Push

(* Script leaves timers and flags in range.                                *)
LEMMA ScriptType ==
  ASSUME K!ClockAssumption, K!TypeOK, NEW r \in Realms, NEW fired, K!RunScript(r, fired)
  PROVE  /\ k_timers' \in [Realms -> SUBSET K!Instant]
         /\ k_arms' \in 0..MaxArms
         /\ k_unseen' = [q \in Realms |-> TRUE] /\ k_foreign' = [q \in Realms |-> TRUE]
<1>1. k_timers' \in [Realms -> SUBSET K!Instant] /\ k_arms' \in 0..MaxArms
  <2>1. CASE k_arms < MaxArms /\ k_arms' = k_arms + 1
    <3>1. PICK s \in Realms, d \in k_now..MaxInstant :
            k_timers' = [q \in Realms |->
              (k_timers[q] \ (IF q = r THEN fired ELSE {})) \cup (IF q = s THEN {d} ELSE {})]
      BY <2>1, K!ClockAssumption DEF K!ClockAssumption, K!RunScript, K!TypeOK
    <3>2. d \in K!Instant
      BY K!ClockAssumption DEF K!ClockAssumption, K!TypeOK, K!Instant
    <3>3. \A q \in Realms : k_timers[q] \subseteq K!Instant
      BY DEF K!TypeOK
    <3> QED BY <2>1, <3>1, <3>2, <3>3, K!ClockAssumption DEF K!ClockAssumption, K!TypeOK
  <2>2. CASE UNCHANGED k_arms
    BY <2>2, K!ClockAssumption DEF K!ClockAssumption, K!RunScript, K!TypeOK
  <2> QED BY <2>1, <2>2 DEF K!RunScript
<1> QED BY <1>1 DEF K!RunScript

(* No step takes a variable out of its range.                              *)
LEMMA ClocksTypeStep == K!ClockAssumption /\ K!TypeOK /\ [K!Next]_(K!vars) => K!TypeOK'
<1> SUFFICES ASSUME K!ClockAssumption, K!TypeOK, [K!Next]_(K!vars) PROVE K!TypeOK'
  OBVIOUS
<1> USE DEF K!watches, K!tasks, K!thread
<1>1. CASE K!Tick
  BY <1>1, K!ClockAssumption DEF K!ClockAssumption, K!Tick, K!TypeOK, K!Instant
<1>2. CASE K!Begin
  <2>1. Head(k_queue) \in K!Job /\ Tail(k_queue) \in Seq(K!Job)
    BY <1>2 DEF K!Begin, K!TypeOK
  <2> QED BY <1>2, <2>1 DEF K!Begin, K!TypeOK
<1>3. CASE K!Operation
  <2>1. k_job.realm \in Realms
    BY <1>3 DEF K!Operation, K!TypeOK, K!Job
  <2> QED BY <1>3, <2>1, ScriptType DEF K!Operation, K!TypeOK, K!NoScript
<1>4. CASE K!RunDueTimers
  <2>1. k_job.realm \in Realms
    BY <1>4 DEF K!RunDueTimers, K!TypeOK, K!Job
  <2> QED BY <1>4, <2>1, ScriptType DEF K!RunDueTimers, K!TypeOK, K!NoScript
<1>5. CASE K!Publish
  <2>1. k_job.realm \in Realms
    BY <1>5 DEF K!Publish, K!TypeOK, K!Job
  <2>2. K!Earliest(k_timers[k_job.realm]) \in K!Instant \cup {K!NoDeadline}
    BY <2>1, EarliestType DEF K!TypeOK
  <2> QED BY ZenonT(60), <1>5, <2>1, <2>2 DEF K!Publish, K!TypeOK, K!Announced
<1>6. ASSUME NEW r \in Realms, K!QueueEntry(r) PROVE K!TypeOK'
  BY <1>6, PushType, K!ClockAssumption DEF K!ClockAssumption, K!QueueEntry, K!TypeOK
<1>7. ASSUME NEW r \in Realms, K!End(r) PROVE K!TypeOK'
  BY <1>7 DEF K!End, K!TypeOK
<1>8. ASSUME NEW r \in Realms, K!ClockStep(r) PROVE K!TypeOK'
  <2>1. CASE K!Top(r)
    BY ZenonT(60), <2>1 DEF K!Top, K!TypeOK
  <2>2. CASE K!Elapsed(r)
    BY <2>2, PushType DEF K!Elapsed, K!TypeOK
  <2>3. CASE K!DeadlineMoved(r)
    BY <2>3 DEF K!DeadlineMoved, K!TypeOK
  <2>4. CASE K!Checkpointed(r)
    BY <2>4, PushType DEF K!Checkpointed, K!TypeOK
  <2>5. CASE K!Settled(r)
    BY <2>5 DEF K!Settled, K!TypeOK
  <2>6. CASE K!Reap(r)
    BY <2>6 DEF K!Reap, K!TypeOK
  <2> QED BY <1>8, <2>1, <2>2, <2>3, <2>4, <2>5, <2>6 DEF K!ClockStep
<1>9. CASE UNCHANGED K!vars
  BY <1>9 DEF K!vars, K!TypeOK
<1> QED BY <1>1, <1>2, <1>3, <1>4, <1>5, <1>6, <1>7, <1>8, <1>9
        DEF K!Next, K!JobStep, K!Over

(* Every reachable state of the clocks, watches and jobs is well typed.    *)
THEOREM ClocksTyped ==
  ASSUME K!ClockAssumption PROVE K!Spec => []K!TypeOK
<1>1. K!Init => K!TypeOK
  BY K!ClockAssumption DEF K!ClockAssumption, K!Init, K!TypeOK, K!Instant
<1> QED BY <1>1, ClocksTypeStep, PTL DEF K!Spec

-----------------------------------------------------------------------------
(* Settles that are out are the ones queued, and the one that runs.        *)
Out(i, r) == i \in DOMAIN k_queue /\ k_queue[i].realm = r /\ k_queue[i].kind # "enter"
Running(r) == k_job # NoJob /\ k_job.realm = r /\ k_job.kind # "enter"

(* A step that leaves the jobs as they are leaves what is out as it is.    *)
LEMMA SameOut ==
  ASSUME UNCHANGED <<k_queue, k_job>>
  PROVE  /\ \A r \in Realms : K!Unanswered(r)' = K!Unanswered(r)
         /\ K!SettlesDoNotPile => K!SettlesDoNotPile'
BY DEF K!Unanswered, K!SettlesDoNotPile

(* A push of an entry puts no settle out.                                  *)
LEMMA EntryOut ==
  ASSUME K!TypeOK, NEW q \in Realms, K!Push(q, "enter"), UNCHANGED k_job
  PROVE  /\ \A r \in Realms : K!Unanswered(r)' = K!Unanswered(r)
         /\ K!SettlesDoNotPile => K!SettlesDoNotPile'
<1>1. k_queue' = Append(k_queue, [realm |-> q, kind |-> "enter"]) /\ k_queue \in Seq(K!Job)
  BY DEF K!Push, K!TypeOK
<1>2. \A r \in Realms : \A i : Out(i, r)' <=> Out(i, r)
  BY <1>1 DEF Out
<1> QED BY <1>2 DEF K!Unanswered, K!SettlesDoNotPile, Out

(* A push of a settle puts one out for its realm and for no other.         *)
LEMMA SettleOut ==
  ASSUME K!TypeOK, NEW q \in Realms, NEW k \in {"timer", "settle"}, K!Push(q, k), UNCHANGED k_job
  PROVE  /\ \A r \in Realms : r # q => K!Unanswered(r)' = K!Unanswered(r)
         /\ K!Unanswered(q)'
         /\ K!SettlesDoNotPile /\ ~K!Unanswered(q) => K!SettlesDoNotPile'
<1> DEFINE n == Len(k_queue) + 1
<1>1. k_queue' = Append(k_queue, [realm |-> q, kind |-> k]) /\ k_queue \in Seq(K!Job)
  BY DEF K!Push, K!TypeOK
<1>2. \A r \in Realms : \A i : Out(i, r)' <=> Out(i, r) \/ (i = n /\ r = q)
  BY <1>1 DEF Out
<1>3. K!Unanswered(q)'
  BY <1>2 DEF K!Unanswered, Out
<1>4. \A r \in Realms : r # q => K!Unanswered(r)' = K!Unanswered(r)
  BY <1>2 DEF K!Unanswered, Out
<1>5. ASSUME K!SettlesDoNotPile, ~K!Unanswered(q) PROVE K!SettlesDoNotPile'
  BY <1>2, <1>5 DEF K!Unanswered, Out, K!SettlesDoNotPile
<1> QED BY <1>3, <1>4, <1>5

(* Taking the first job, to run it or to drop it, puts no settle out; one  *)
(* is answered only if the job dropped was it.                             *)
LEMMA BeginOut ==
  ASSUME K!ClockAssumption, K!TypeOK, K!Begin
  PROVE  /\ \A r \in Realms : K!Unanswered(r)' => K!Unanswered(r)
         /\ \A r \in Realms : ~k_ended[r] /\ K!Unanswered(r) => K!Unanswered(r)'
         /\ K!SettlesDoNotPile => K!SettlesDoNotPile'
<1>1. /\ k_queue \in Seq(K!Job) /\ k_queue # <<>> /\ k_queue' = Tail(k_queue)
      /\ k_job = NoJob /\ Head(k_queue) = k_queue[1] /\ Head(k_queue) \in K!Job
  BY DEF K!Begin, K!TypeOK
<1>2. Head(k_queue) # NoJob
  BY <1>1, K!ClockAssumption DEF K!ClockAssumption, K!Job
<1>3. \A r \in Realms, i \in Nat : Out(i, r)' <=> Out(i + 1, r) /\ i # 0
  BY <1>1 DEF Out
<1>4. \A r \in Realms : Running(r)' <=> Out(1, r) /\ ~k_ended[Head(k_queue).realm]
  BY <1>1, <1>2 DEF Out, Running, K!Begin
<1>5. \A r \in Realms : \A i : Out(i, r) => i \in Nat /\ (i = 1 \/ (i - 1 \in Nat /\ i - 1 # 0))
  BY <1>1 DEF Out
<1>6. \A r \in Realms : \A i : Out(i, r)' => i \in Nat
  BY <1>1 DEF Out
<1>7. \A r \in Realms : (K!Unanswered(r) <=> (\E i : Out(i, r)) \/ Running(r))
                        /\ (K!Unanswered(r)' <=> (\E i : Out(i, r)') \/ Running(r)')
  BY DEF K!Unanswered, Out, Running
<1>8. \A r \in Realms : K!Unanswered(r)' => K!Unanswered(r)
  BY <1>3, <1>4, <1>6, <1>7
<1>9. ASSUME NEW r \in Realms, ~k_ended[r], K!Unanswered(r) PROVE K!Unanswered(r)'
  <2>1. PICK i : Out(i, r)
    BY <1>1, <1>7, <1>9 DEF Running
  <2>2. CASE i = 1
    <3>1. Head(k_queue).realm = r
      BY <1>1, <2>1, <2>2 DEF Out
    <3> QED BY <1>4, <1>7, <1>9, <2>1, <2>2, <3>1
  <2>3. CASE i # 1
    <3>1. i - 1 \in Nat /\ i - 1 # 0 /\ (i - 1) + 1 = i
      BY <1>5, <2>1, <2>3
    <3>2. Out(i - 1, r)'
      BY <1>3, <2>1, <3>1
    <3> QED BY <1>7, <3>2
  <2> QED BY <2>2, <2>3
<1>10. ASSUME K!SettlesDoNotPile PROVE K!SettlesDoNotPile'
  <2>1. \A r \in Realms : \A i, k : Out(i, r) /\ Out(k, r) => i = k
    BY <1>10 DEF K!SettlesDoNotPile, Out
  <2>2. ASSUME NEW r \in Realms, NEW i, NEW k, Out(i, r)', Out(k, r)'
        PROVE  i = k /\ ~Running(r)'
    <3>1. i \in Nat /\ k \in Nat /\ i # 0 /\ Out(i + 1, r) /\ Out(k + 1, r)
      BY <1>3, <1>6, <2>2
    <3>2. i + 1 = k + 1 /\ ~Out(1, r)
      BY <2>1, <3>1
    <3> QED BY <1>4, <3>1, <3>2
  <2> QED BY <2>2 DEF K!SettlesDoNotPile, Out, Running
<1> QED BY <1>8, <1>9, <1>10

(* A step of the running job that is not its last leaves what is out.      *)
LEMMA JobOut ==
  ASSUME K!TypeOK, K!Publish
  PROVE  /\ \A r \in Realms : K!Unanswered(r)' => K!Unanswered(r)
         /\ \A r \in Realms : r # k_job.realm /\ K!Unanswered(r) => K!Unanswered(r)'
         /\ K!SettlesDoNotPile => K!SettlesDoNotPile'
BY DEF K!Publish, K!Unanswered, K!SettlesDoNotPile, K!thread

-----------------------------------------------------------------------------
(* The inductive invariant holds at the start.                             *)
LEMMA KInvInit == K!Init => KInv
BY DEF K!Init, KInv, KMatch, KTold, KArmed, KOut, K!SettlesDoNotPile, K!Unanswered, K!Earliest

(* The inductive invariant is inductive.                                   *)
LEMMA KInvStep == K!ClockAssumption /\ K!TypeOK /\ KInv /\ [K!Next]_(K!vars) => KInv'
<1> SUFFICES ASSUME K!ClockAssumption, K!TypeOK, KInv, [K!Next]_(K!vars) PROVE KInv'
  OBVIOUS
<1> USE DEF KInv, K!watches, K!tasks, K!thread
<1>1. CASE K!Tick
  BY <1>1, SameOut DEF K!Tick, KMatch, KTold, KArmed, KOut, Mine
<1>2. CASE K!Begin
  <2>1. UNCHANGED <<k_ended, k_timers, k_deadline, k_moved, k_unseen, k_foreign, k_clock, k_armed>>
    BY <1>2 DEF K!Begin
  <2>2. KTold'
    BY <1>2, <2>1, BeginOut DEF KTold, Mine, K!Begin
  <2> QED BY <1>2, <2>1, <2>2, BeginOut DEF KMatch, KArmed, KOut
<1>3. CASE K!Operation \/ K!RunDueTimers
  <2>1. /\ UNCHANGED <<k_ended, k_deadline, k_moved, k_clock, k_armed, k_queue, k_job>>
        /\ \/ UNCHANGED <<k_timers, k_unseen, k_foreign>>
           \/ k_unseen' = [q \in Realms |-> TRUE] /\ k_foreign' = [q \in Realms |-> TRUE]
    BY <1>3 DEF K!Operation, K!RunDueTimers, K!RunScript, K!NoScript
  <2> QED BY <2>1, SameOut DEF KMatch, KTold, KArmed, KOut, Mine
<1>4. CASE K!Publish
  <2>1. k_job # NoJob /\ k_job.realm \in Realms /\ k_job' = NoJob
    BY <1>4 DEF K!Publish, K!TypeOK, K!Job
  <2>2. UNCHANGED <<k_ended, k_timers, k_clock, k_armed>>
    BY <1>4 DEF K!Publish
  <2>3. KMatch'
    BY <1>4, <2>1, <2>2 DEF K!Publish, KMatch, K!TypeOK, K!Announced
  <2>4. KTold'
    BY <1>4, <2>1, <2>2, JobOut DEF K!Publish, KTold, K!TypeOK, K!Announced, Mine
  <2>5. KArmed'
    BY ZenonT(60), <1>4, <2>1, <2>2 DEF K!Publish, KArmed, K!TypeOK
  <2> QED BY <1>4, <2>2, <2>3, <2>4, <2>5, JobOut DEF KOut
<1>5. ASSUME NEW q \in Realms, K!QueueEntry(q) PROVE KInv'
  BY <1>5, EntryOut DEF K!QueueEntry, KMatch, KTold, KArmed, KOut, Mine
<1>6. ASSUME NEW q \in Realms, K!End(q) PROVE KInv'
  BY <1>6, SameOut DEF K!End, K!TypeOK, KMatch, KTold, KArmed, KOut, Mine
<1>7. ASSUME NEW q \in Realms, K!ClockStep(q) PROVE KInv'
  <2>1. CASE K!Top(q)
    BY <2>1, SameOut DEF K!Top, K!TypeOK, KMatch, KTold, KArmed, KOut, Mine
  <2>2. CASE K!Elapsed(q)
    <3>1. ~K!Unanswered(q)
      BY <2>2 DEF K!Elapsed, KOut
    <3> QED BY <2>2, <3>1, SettleOut DEF K!Elapsed, K!TypeOK, KMatch, KTold, KArmed, KOut, Mine
  <2>3. CASE K!DeadlineMoved(q)
    BY <2>3, SameOut DEF K!DeadlineMoved, K!TypeOK, KMatch, KTold, KArmed, KOut, Mine
  <2>4. CASE K!Checkpointed(q)
    <3>1. ~K!Unanswered(q)
      BY <2>4 DEF K!Checkpointed, KOut
    <3>2. CASE k_foreign[q]
      BY <2>4, <3>1, <3>2, SettleOut
         DEF K!Checkpointed, K!TypeOK, KMatch, KTold, KArmed, KOut, Mine
    <3>3. CASE ~k_foreign[q]
      BY <2>4, <3>3, SameOut DEF K!Checkpointed, K!TypeOK, KMatch, KTold, KArmed, KOut, Mine
    <3> QED BY <3>2, <3>3
  <2>5. CASE K!Settled(q)
    BY <2>5, SameOut DEF K!Settled, K!TypeOK, KMatch, KTold, KArmed, KOut, Mine
  <2>6. CASE K!Reap(q)
    BY <2>6, SameOut DEF K!Reap, K!TypeOK, KMatch, KTold, KArmed, KOut, Mine
  <2> QED BY <1>7, <2>1, <2>2, <2>3, <2>4, <2>5, <2>6 DEF K!ClockStep
<1>8. CASE UNCHANGED K!vars
  BY <1>8, SameOut DEF K!vars, KMatch, KTold, KArmed, KOut, Mine
<1> QED BY <1>1, <1>2, <1>3, <1>4, <1>5, <1>6, <1>7, <1>8 DEF K!Next, K!JobStep, K!Over

(* The inductive invariant holds throughout.                               *)
THEOREM ClocksInvariance ==
  ASSUME K!ClockAssumption PROVE K!Spec => [](K!TypeOK /\ KInv)
<1>1. K!Init => KInv
  BY KInvInit
<1>2. (K!TypeOK /\ KInv) /\ [K!Next]_(K!vars) => KInv'
  BY KInvStep
<1> QED BY <1>1, <1>2, ClocksTyped, PTL DEF K!Spec

(* No deadline is lost: a clock task that waits, waits for the earliest    *)
(* timer of its realm (serve_clock, arm_deadline, record_checkpoint).      *)
THEOREM NothingIsForgotten ==
  ASSUME K!ClockAssumption PROVE K!Spec => []NothingForgotten
<1>1. K!TypeOK /\ KInv => NothingForgotten
  <2> SUFFICES ASSUME KInv, NEW r \in Realms, K!Waiting(r), ~k_ended[r], ~Mine(r)
               PROVE  k_armed[r] = K!Earliest(k_timers[r])
    BY DEF NothingForgotten, K!NothingForgotten, Mine
  <2>1. ~k_unseen[r] /\ ~K!Unanswered(r)
    BY DEF K!Waiting, KInv, KOut
  <2>2. ~k_foreign[r]
    BY <2>1 DEF KInv, KTold
  <2> QED BY <2>2 DEF KInv, KMatch, KArmed, K!Waiting
<1> QED BY <1>1, ClocksInvariance, PTL

(* A realm has one settle out at a time, however long the thread is held   *)
(* (the await of each settle in serve_clock).                              *)
THEOREM OneSettleEach ==
  ASSUME K!ClockAssumption PROVE K!Spec => []SettlesDoNotPile
<1>1. KInv => SettlesDoNotPile
  BY DEF KInv, SettlesDoNotPile
<1> QED BY <1>1, ClocksInvariance, PTL
=============================================================================
