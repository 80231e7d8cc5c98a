------------------------- MODULE FutureTableProofs -------------------------
(***************************************************************************)
(* What FutureTable promises for any number of Futures, as long as the     *)
(* counter has an id for each: every outcome reaches its own Future; and   *)
(* what ImagePipeline promises for any views, sources and sizes: every     *)
(* request is answered once, and the frame being drawn keeps its pictures. *)
(***************************************************************************)
EXTENDS MCAnswers, Integers, Sequences, FiniteSetTheorems, WellFoundedInduction, TLAPS

(* The counter does not come round: 2^32 ids in the build.                 *)
EnoughIds == IsFiniteSet(Futures) /\ Cardinality(Futures) <= LastId

MadeOnes == {f \in Futures : Made(f)}

(* Every id below the next one is taken, and none above it, until all the  *)
(* Futures are made.                                                       *)
ICounter ==
  \/ MadeOnes = Futures
  \/ /\ \A f \in Futures : id[f] < next_id
     /\ Cardinality(MadeOnes) = next_id - 1

(* An id is one Future's, wherever it is written.                          *)
IIds ==
  /\ \A f, g \in Futures : Made(f) /\ id[f] = id[g] => f = g
  /\ \A i \in Ids : pending[i] # None => id[pending[i]] = i
  /\ \A i \in Ids : settling[i] # None => id[settling[i]] = i
  /\ \A i \in DOMAIN requests : id[requests[i].op] = requests[i].id
  /\ \A i \in DOMAIN deliveries : id[deliveries[i].op] = deliveries[i].id
  /\ \A e \in awaiting : id[e.op] = e.id

Asked(f) == \E i \in DOMAIN requests : requests[i].op = f
Awaited(f) == \E e \in awaiting : e.op = f
Delivered(f) == \E i \in DOMAIN deliveries : deliveries[i].op = f

(* An operation is on its way in one place.                                *)
IOnce ==
  /\ \A i, j \in DOMAIN requests : requests[i].op = requests[j].op => i = j
  /\ \A i, j \in DOMAIN deliveries : deliveries[i].op = deliveries[j].op => i = j
  /\ \A f \in Futures :
       ~(Asked(f) /\ Awaited(f)) /\ ~(Asked(f) /\ Delivered(f)) /\ ~(Awaited(f) /\ Delivered(f))

(* A conversion is on its way until its Promise settles, and filed.        *)
IWay ==
  /\ \A f \in Futures :
       /\ OnItsWay(f) <=> converted[f] /\ promise[f] = None
       /\ OnItsWay(f) => settling[id[f]] = f
  /\ \A i \in Ids : settling[i] # None => OnItsWay(settling[i])

(* The shapes of a Future: unmade, held by the table or by a wait, answered, *)
(* converted.                                                              *)
IShape ==
  \A f \in Futures :
    /\ ~Made(f) => ~converted[f] /\ answer[f] = None /\ promise[f] = None
    /\ Made(f) /\ (converted[f] \/ answer[f] # None) => pending[id[f]] = None
    /\ converted[f] => answer[f] = None
    /\ promise[f] # None /\ ~converted[f] => answer[f] = f

(* A wait holds the operation of the Future it waits for.                  *)
IWait ==
  /\ job # "waiting" => waited = None
  /\ job = "waiting" =>
       /\ waited = waiter /\ waiter \in Futures /\ Made(waiter)
       /\ ~converted[waiter] /\ answer[waiter] = None /\ promise[waiter] = None
       /\ pending[id[waiter]] = None

IInv ==
  /\ TypeOK /\ ICounter /\ IIds /\ IOnce /\ IWay /\ IShape /\ IWait
  /\ OwnOutcome /\ NothingIsLost

-----------------------------------------------------------------------------
LEMMA AppendEntry ==
  ASSUME NEW s \in Seq(Entry), NEW e \in Entry
  PROVE  /\ Append(s, e) \in Seq(Entry)
         /\ DOMAIN Append(s, e) = DOMAIN s \cup {Len(s) + 1} /\ Len(s) + 1 \notin DOMAIN s
         /\ Append(s, e)[Len(s) + 1] = e
         /\ \A i \in DOMAIN s : Append(s, e)[i] = s[i] /\ s[i] \in Entry
OBVIOUS

LEMMA TailEntry ==
  ASSUME NEW s \in Seq(Entry), s # <<>>
  PROVE  /\ Tail(s) \in Seq(Entry) /\ Head(s) = s[1] /\ Head(s) \in Entry /\ 1 \in DOMAIN s
         /\ \A i \in DOMAIN Tail(s) : i + 1 \in DOMAIN s /\ Tail(s)[i] = s[i + 1] /\ i + 1 # 1
         /\ \A i \in DOMAIN s : i # 1 => i - 1 \in DOMAIN Tail(s) /\ Tail(s)[i - 1] = s[i]
OBVIOUS

(* A registration takes the next id, which nothing uses.                   *)
LEMMA NextIdFree ==
  ASSUME TypeOK, ICounter, IIds, NEW f \in Futures, ~Made(f)
  PROVE  /\ Allocated = next_id /\ next_id \in Ids
         /\ pending[next_id] = None /\ settling[next_id] = None
         /\ \A g \in Futures : id[g] # next_id
<1>1. \A g \in Futures : id[g] < next_id /\ id[g] \in Int
  BY DEF ICounter, MadeOnes, TypeOK, Ids
<1>2. next_id \in Ids /\ next_id \in Int /\ \A g \in Futures : id[g] # next_id
  BY <1>1 DEF TypeOK, Ids
<1>3. pending[next_id] = None /\ settling[next_id] = None
  BY <1>2 DEF TypeOK, IIds
<1>4. Allocated = next_id
  <2>1. Free(next_id) /\ next_id >= next_id
    BY <1>2, <1>3 DEF Free
  <2>2. \A k \in Ids : k >= next_id => next_id <= k
    BY <1>2 DEF Ids
  <2>3. \A i \in Ids : i >= next_id /\ (\A k \in Ids : k >= next_id /\ Free(k) => i <= k)
                         => i = next_id
    BY <1>2, <2>1 DEF Ids
  <2>4. Allocated = CHOOSE i \in Ids : /\ i >= next_id /\ Free(i)
                                       /\ \A k \in Ids : k >= next_id /\ Free(k) => i <= k
    BY <1>2, <2>1 DEF Allocated
  <2> QED BY <1>2, <2>1, <2>2, <2>3, <2>4
<1> QED BY <1>2, <1>3, <1>4

LEMMA WayPlaces ==
  ASSUME NEW f
  PROVE  OnItsWay(f) <=> Asked(f) \/ Awaited(f) \/ Delivered(f)
BY DEF OnItsWay, Asked, Awaited, Delivered

(* then() asks for one settle, of the Future's own operation.              *)
LEMMA ThenPlaces ==
  ASSUME TypeOK, IIds, NEW f \in Futures, Then(f), answer[f] = None
  PROVE  /\ Made(f) /\ ~converted[f] /\ id[f] \in Ids /\ pending[id[f]] = f
         /\ [id |-> id[f], op |-> f] \in Entry
         /\ requests' = Append(requests, [id |-> id[f], op |-> f])
         /\ converted' = [converted EXCEPT ![f] = TRUE]
         /\ settling' = [settling EXCEPT ![id[f]] = f]
         /\ pending' = [pending EXCEPT ![id[f]] = None]
         /\ UNCHANGED <<promise, awaiting, deliveries>>
         /\ \A g \in Futures : /\ Asked(g)' <=> Asked(g) \/ g = f
                               /\ Awaited(g)' <=> Awaited(g)
                               /\ Delivered(g)' <=> Delivered(g)
<1>1. Made(f) /\ ~converted[f] /\ id[f] \in Ids /\ pending[id[f]] # None
  BY DEF Then, Made, TypeOK
<1>2. pending[id[f]] = f
  BY <1>1 DEF IIds, Made, TypeOK
<1>3. /\ requests' = Append(requests, [id |-> id[f], op |-> f])
      /\ converted' = [converted EXCEPT ![f] = TRUE]
      /\ settling' = [settling EXCEPT ![id[f]] = f]
      /\ pending' = [pending EXCEPT ![id[f]] = None]
      /\ UNCHANGED <<promise, awaiting, deliveries>>
  BY <1>1, <1>2 DEF Then
<1>4. [id |-> id[f], op |-> f] \in Entry
  BY <1>1 DEF Entry
<1>5. ASSUME NEW g \in Futures PROVE Asked(g)' <=> Asked(g) \/ g = f
  BY <1>3, <1>4, AppendEntry DEF Asked, TypeOK
<1> QED BY <1>1, <1>2, <1>3, <1>4, <1>5 DEF Awaited, Delivered

(* A job's return moves all that was asked to the tasks, or none.          *)
LEMMA ReturnPlaces ==
  ASSUME TypeOK, Return, ~ended
  PROVE  /\ requests' = <<>> /\ awaiting' = awaiting \cup {requests[i] : i \in DOMAIN requests}
         /\ UNCHANGED deliveries
         /\ \A g \in Futures : /\ ~Asked(g)'
                               /\ Awaited(g)' <=> Awaited(g) \/ Asked(g)
                               /\ Delivered(g)' <=> Delivered(g)
BY DEF Return, Asked, Awaited, Delivered

(* A task's delivery takes its place.                                      *)
LEMMA SettlePlaces ==
  ASSUME TypeOK, IIds, NEW e \in awaiting, Settle(e)
  PROVE  /\ e \in Entry /\ awaiting' = awaiting \ {e}
         /\ deliveries' = Append(deliveries, e) /\ UNCHANGED requests
         /\ \A g \in Futures : /\ Asked(g)' <=> Asked(g)
                               /\ Awaited(g)' <=> Awaited(g) /\ g # e.op
                               /\ Delivered(g)' <=> Delivered(g) \/ g = e.op
<1>1. /\ e \in Entry /\ awaiting' = awaiting \ {e}
      /\ deliveries' = Append(deliveries, e) /\ UNCHANGED requests
  BY DEF Settle, TypeOK
<1>2. ASSUME NEW g \in Futures PROVE Awaited(g)' <=> Awaited(g) /\ g # e.op
  <2>1. \A d \in awaiting : d.op = e.op => d = e
    <3>1. ASSUME NEW d \in awaiting, d.op = e.op PROVE d = e
      <4>1. d \in Entry /\ d.id = e.id
        BY <3>1 DEF IIds, TypeOK
      <4> QED BY <1>1, <3>1, <4>1 DEF Entry
    <3> QED BY <3>1
  <2> QED BY <1>1, <2>1 DEF Awaited
<1>3. ASSUME NEW g \in Futures PROVE Delivered(g)' <=> Delivered(g) \/ g = e.op
  BY <1>1, AppendEntry DEF Delivered, TypeOK
<1> QED BY <1>1, <1>2, <1>3 DEF Asked

(* A delivery leaves the queue, and there was one of its operation.        *)
LEMMA DeliverPlaces ==
  ASSUME TypeOK, IIds, IOnce, IWay, Deliver,
         NEW f, f = Head(deliveries).op
  PROVE  /\ f \in Futures /\ Head(deliveries).id = id[f] /\ id[f] \in Ids
         /\ settling[id[f]] = f /\ converted[f] /\ promise[f] = None
         /\ settling' = [settling EXCEPT ![id[f]] = None]
         /\ promise' = [promise EXCEPT ![f] = f]
         /\ deliveries' = Tail(deliveries) /\ UNCHANGED <<requests, awaiting, converted>>
         /\ \A g \in Futures : /\ Asked(g)' <=> Asked(g)
                               /\ Awaited(g)' <=> Awaited(g)
                               /\ Delivered(g)' <=> Delivered(g) /\ g # f
<1>1. /\ deliveries # <<>> /\ deliveries' = Tail(deliveries)
      /\ UNCHANGED <<requests, awaiting, converted>>
  BY DEF Deliver
<1>2. /\ Head(deliveries) \in Entry /\ 1 \in DOMAIN deliveries /\ Head(deliveries) = deliveries[1]
  BY <1>1, TailEntry DEF TypeOK
<1>3. f \in Futures /\ Head(deliveries).id = id[f] /\ id[f] \in Ids
  BY <1>2 DEF Entry, IIds
<1>4. Delivered(f) /\ OnItsWay(f)
  BY <1>2 DEF Delivered, OnItsWay
<1>5. settling[id[f]] = f /\ converted[f] /\ promise[f] = None
  BY <1>3, <1>4 DEF IWay
<1>6. f # None
  BY <1>3, NoneAssumption
<1>7. settling' = [settling EXCEPT ![id[f]] = None] /\ promise' = [promise EXCEPT ![f] = f]
  BY <1>3, <1>5, <1>6 DEF Deliver
<1>8. ASSUME NEW g \in Futures PROVE Delivered(g)' <=> Delivered(g) /\ g # f
  <2>1. \A i \in DOMAIN deliveries : i # 1 => deliveries[i].op # f
    BY <1>2 DEF IOnce
  <2>2. deliveries \in Seq(Entry)
    BY DEF TypeOK
  <2>3. /\ \A i \in DOMAIN Tail(deliveries) :
             i + 1 \in DOMAIN deliveries /\ Tail(deliveries)[i] = deliveries[i + 1] /\ i + 1 # 1
        /\ \A i \in DOMAIN deliveries :
             i # 1 => i - 1 \in DOMAIN Tail(deliveries) /\ Tail(deliveries)[i - 1] = deliveries[i]
    BY <1>1, <2>2, TailEntry
  <2> QED BY <1>1, <1>2, <2>1, <2>3 DEF Delivered
<1> QED BY <1>1, <1>3, <1>5, <1>7, <1>8 DEF Asked, Awaited

(* The steps that leave every operation on its way where it is.            *)
LEMMA SamePlaces ==
  ASSUME UNCHANGED <<requests, awaiting, deliveries>>
  PROVE  \A g \in Futures : /\ Asked(g)' <=> Asked(g)
                            /\ Awaited(g)' <=> Awaited(g)
                            /\ Delivered(g)' <=> Delivered(g)
                            /\ OnItsWay(g)' <=> OnItsWay(g)
BY DEF Asked, Awaited, Delivered, OnItsWay

-----------------------------------------------------------------------------
(* The operation of an entry is one whose id was given.                    *)
LEMMA EntriesAreMade ==
  ASSUME TypeOK, IIds, NEW f \in Futures, OnItsWay(f)
  PROVE  Made(f)
<1>1. ASSUME NEW e \in Entry, e.op = f, id[e.op] = e.id PROVE Made(f)
  BY <1>1 DEF Entry, Ids, Made
<1>2. CASE Asked(f)
  BY <1>1, <1>2 DEF Asked, TypeOK, IIds
<1>3. CASE Awaited(f)
  BY <1>1, <1>3 DEF Awaited, TypeOK, IIds
<1>4. CASE Delivered(f)
  BY <1>1, <1>4 DEF Delivered, TypeOK, IIds
<1> QED BY <1>2, <1>3, <1>4, WayPlaces

(* No step takes a variable out of its range.                              *)
LEMMA TypeStep == IInv /\ [Next]_vars => TypeOK'
<1> SUFFICES ASSUME IInv, [Next]_vars PROVE TypeOK'
  OBVIOUS
<1> USE DEF host, realm, stack, IInv
<1>1. CASE End
  BY <1>1 DEF End, TypeOK
<1>2. CASE Enter
  BY <1>2, NoneAssumption DEF Enter, TypeOK
<1>3. CASE WaitSettled
  <2>1. waited \in Futures
    BY <1>3 DEF WaitSettled, WaitReturns, TypeOK
  <2> QED BY <1>3, <2>1 DEF WaitSettled, WaitReturns, TypeOK
<1>4. CASE WaitTimedOut
  BY <1>4 DEF WaitTimedOut, WaitReturns, TypeOK
<1>5. CASE WaitEnded
  BY <1>5 DEF WaitEnded, WaitReturns, TypeOK
<1>6. CASE Return
  <2>1. job' = "none" /\ UNCHANGED <<done, pending, next_id, deliveries, ended, realm, waiter, waited>>
    BY <1>6 DEF Return
  <2>2. requests' \in Seq(Entry) /\ awaiting' \subseteq Entry
    <3>1. TypeOK
      OBVIOUS
    <3> HIDE DEF IInv
    <3>2. CASE ended
      BY <1>6, <3>1, <3>2 DEF Return, TypeOK
    <3>3. CASE ~ended
      BY <1>6, <3>1, <3>3 DEF Return, TypeOK
    <3> QED BY <3>2, <3>3
  <2>3. waiter' = None
    BY <1>6 DEF Return, Running, TypeOK
  <2> QED BY <2>1, <2>2, <2>3 DEF TypeOK
<1>7. CASE Deliver
  <2>1. Head(deliveries) \in Entry /\ Tail(deliveries) \in Seq(Entry)
    BY <1>7, TailEntry DEF Deliver, TypeOK
  <2>2. Head(deliveries).id \in Ids /\ Head(deliveries).op \in Futures
    BY <2>1 DEF Entry
  <2>3. settling' \in [Ids -> Futures \cup {None}] /\ promise' \in [Futures -> Futures \cup {None}]
    BY <1>7, <2>2 DEF Deliver, TypeOK
  <2> QED BY <1>7, <2>1, <2>3 DEF Deliver, TypeOK
<1>8. CASE Over
  BY <1>8 DEF Over, vars, TypeOK
<1>9. ASSUME NEW f \in Futures, Complete(f) PROVE TypeOK'
  BY <1>9 DEF Complete, TypeOK
<1>10. ASSUME NEW f \in Futures, Register(f) PROVE TypeOK'
  <2>1. Allocated = next_id /\ next_id \in Ids
    BY <1>10, NextIdFree DEF Register
  <2>2. (IF next_id = LastId THEN 1 ELSE next_id + 1) \in Ids
    BY <2>1, CounterAssumption DEF Ids
  <2> QED BY <1>10, <2>1, <2>2 DEF Register, TypeOK, Running
<1>11. ASSUME NEW f \in Futures, Wait(f) PROVE TypeOK'
  <2>1. id[f] \in Ids
    BY <1>11 DEF Wait, Made, TypeOK
  <2> QED BY <1>11, <2>1, NoneAssumption DEF Wait, TypeOK, Running
<1>12. ASSUME NEW f \in Futures, Then(f) PROVE TypeOK'
  <2>1. CASE answer[f] # None
    BY <1>12, <2>1 DEF Then, TypeOK, Running
  <2>2. CASE answer[f] = None
    <3>0. /\ id[f] \in Ids /\ [id |-> id[f], op |-> f] \in Entry
          /\ requests' = Append(requests, [id |-> id[f], op |-> f])
          /\ converted' = [converted EXCEPT ![f] = TRUE]
          /\ settling' = [settling EXCEPT ![id[f]] = f]
          /\ pending' = [pending EXCEPT ![id[f]] = None]
      BY <1>12, <2>2, ThenPlaces
    <3>1. requests' \in Seq(Entry)
      BY <3>0, AppendEntry DEF TypeOK
    <3>2. /\ converted' \in [Futures -> BOOLEAN] /\ settling' \in [Ids -> Futures \cup {None}]
          /\ pending' \in [Ids -> Futures \cup {None}]
      BY <3>0 DEF TypeOK
    <3>3. UNCHANGED <<promise, done, next_id, awaiting, deliveries, ended, id, answer, stack>>
      BY <1>12, <2>2 DEF Then
    <3> QED BY <3>1, <3>2, <3>3 DEF TypeOK
  <2> QED BY <2>1, <2>2
<1>13. ASSUME NEW e \in awaiting, Settle(e) PROVE TypeOK'
  <2>1. e \in Entry /\ Append(deliveries, e) \in Seq(Entry)
    BY <1>13, AppendEntry DEF TypeOK
  <2> QED BY <1>13, <2>1 DEF Settle, TypeOK
<1>14. CASE UNCHANGED vars
  BY <1>14 DEF vars, TypeOK
<1> QED
  BY <1>1, <1>2, <1>3, <1>4, <1>5, <1>6, <1>7, <1>8, <1>9, <1>10, <1>11, <1>12, <1>13, <1>14
     DEF Next

(* The counter moves with the Futures made, and comes round once none is   *)
(* left to be made.                                                        *)
LEMMA CounterStep == EnoughIds /\ IInv /\ [Next]_vars => ICounter'
<1> SUFFICES ASSUME EnoughIds, IInv, [Next]_vars PROVE ICounter'
  OBVIOUS
<1> USE DEF host, realm, stack
<1>1. ASSUME UNCHANGED <<id, next_id>> PROVE ICounter'
  <2>1. MadeOnes' = MadeOnes
    BY <1>1 DEF MadeOnes, Made
  <2> QED BY <1>1, <2>1 DEF IInv, ICounter
<1>2. ASSUME NEW f \in Futures, Register(f) PROVE ICounter'
  <2>1. Allocated = next_id /\ next_id \in Ids
    BY <1>2, NextIdFree DEF Register, IInv
  <2>2. /\ id' = [id EXCEPT ![f] = next_id]
        /\ next_id' = IF next_id = LastId THEN 1 ELSE next_id + 1
        /\ ~Made(f)
    BY <1>2, <2>1 DEF Register
  <2>3. f \notin MadeOnes /\ MadeOnes # Futures /\ MadeOnes \subseteq Futures
    BY <2>2 DEF MadeOnes
  <2>4. MadeOnes' = MadeOnes \cup {f}
    BY <2>1, <2>2 DEF MadeOnes, Made, IInv, TypeOK, Ids
  <2>5. IsFiniteSet(MadeOnes)
    BY <2>3, FS_Subset DEF EnoughIds
  <2>6. /\ Cardinality(MadeOnes) = next_id - 1 /\ \A g \in Futures : id[g] < next_id
    BY <2>3 DEF IInv, ICounter
  <2>7. IsFiniteSet(MadeOnes') /\ Cardinality(MadeOnes') = next_id
    BY <2>1, <2>3, <2>4, <2>5, <2>6, FS_AddElement DEF Ids
  <2>8. CASE next_id = LastId
    <3>1. MadeOnes' \subseteq Futures
      BY <2>3, <2>4
    <3>2. Cardinality(Futures) \in Nat /\ Cardinality(MadeOnes') <= Cardinality(Futures)
      BY <3>1, FS_Subset, FS_CardinalityType DEF EnoughIds
    <3>3. Cardinality(MadeOnes') = Cardinality(Futures)
      BY <3>2, <2>7, <2>8, CounterAssumption DEF EnoughIds
    <3>4. MadeOnes' = Futures
      BY <3>1, <3>3, FS_Subset DEF EnoughIds
    <3> QED BY <3>4 DEF ICounter
  <2>9. CASE next_id # LastId
    <3>1. next_id' = next_id + 1
      BY <2>2, <2>9
    <3>2. \A g \in Futures : id'[g] < next_id'
      BY <2>1, <2>2, <2>6, <3>1 DEF IInv, TypeOK, Ids
    <3>3. Cardinality(MadeOnes') = next_id' - 1
      BY <2>1, <2>7, <3>1 DEF Ids
    <3> QED BY <3>2, <3>3 DEF ICounter
  <2> QED BY <2>8, <2>9
<1> QED
  BY <1>1, <1>2 DEF Next, vars, End, Enter, WaitSettled, WaitTimedOut, WaitEnded, WaitReturns,
     Return, Deliver, Over, Complete, Wait, Then, Settle

-----------------------------------------------------------------------------
(* The steps that touch neither id, nor table, nor what is on its way.     *)
Elsewhere == UNCHANGED <<id, pending, settling, requests, awaiting, deliveries,
                         converted, promise>>

LEMMA NamedSteps ==
  ASSUME [Next]_vars
  PROVE  \/ Elsewhere /\ answer' = answer /\ (waited' = waited \/ (ended /\ ended'))
         \/ Elsewhere /\ WaitSettled
         \/ WaitTimedOut \/ (Return /\ ~ended) \/ Deliver
         \/ \E f \in Futures : Register(f) \/ Wait(f)
         \/ \E f \in Futures : Then(f) /\ answer[f] # None
         \/ \E f \in Futures : Then(f) /\ answer[f] = None
         \/ \E e \in awaiting : Settle(e)
<1> USE DEF host, realm, stack, Elsewhere
<1>1. CASE End \/ Enter \/ Over \/ UNCHANGED vars
  BY <1>1 DEF End, Enter, Over, vars
<1>2. CASE WaitSettled
  BY <1>2 DEF WaitSettled, WaitReturns
<1>3. CASE WaitEnded
  BY <1>3 DEF WaitEnded, WaitReturns
<1>4. CASE Return
  BY <1>4 DEF Return
<1>5. ASSUME NEW f \in Futures, Complete(f) PROVE Elsewhere /\ answer' = answer /\ waited' = waited
  BY <1>5 DEF Complete
<1>6. ASSUME NEW f \in Futures, Then(f)
      PROVE  (Then(f) /\ answer[f] # None) \/ (Then(f) /\ answer[f] = None)
  BY <1>6
<1> HIDE DEF host, realm, stack, Elsewhere
<1> QED BY <1>1, <1>2, <1>3, <1>4, <1>5, <1>6 DEF Next

(* An id stays one Future's.                                               *)
LEMMA IdsStep == IInv /\ [Next]_vars => IIds'
<1> SUFFICES ASSUME TypeOK, ICounter, IIds, IOnce, IWay, IWait, [Next]_vars PROVE IIds'
  BY DEF IInv
<1>1. CASE Elsewhere
  BY <1>1 DEF Elsewhere, IIds, Made
<1>2. CASE WaitTimedOut
  <2>1. /\ waiter \in Futures /\ waited = waiter
        /\ pending' = [pending EXCEPT ![id[waiter]] = waiter]
        /\ UNCHANGED <<id, settling, requests, awaiting, deliveries>>
    BY <1>2 DEF WaitTimedOut, WaitReturns, IWait
  <2>2. \A i \in Ids : pending'[i] # None => id[pending'[i]] = i
    BY <2>1 DEF IIds, TypeOK
  <2> QED BY <2>1, <2>2 DEF IIds, Made
<1>3. CASE Return /\ ~ended
  <2>1. /\ requests' = <<>> /\ awaiting' = awaiting \cup {requests[i] : i \in DOMAIN requests}
        /\ UNCHANGED <<id, pending, settling, deliveries>>
    BY <1>3 DEF Return, realm
  <2>2. DOMAIN requests' = {}
    BY <2>1
  <2> QED BY <2>1, <2>2 DEF IIds, Made
<1>4. CASE Deliver
  <2>1. PICK f : f = Head(deliveries).op
    OBVIOUS
  <2>2. /\ deliveries # <<>> /\ UNCHANGED <<id, pending, requests, awaiting>>
        /\ deliveries' = Tail(deliveries)
    BY <1>4 DEF Deliver
  <2>3. id[f] \in Ids /\ settling' = [settling EXCEPT ![id[f]] = None]
    BY <1>4, <2>1, DeliverPlaces
  <2>4. deliveries \in Seq(Entry)
    BY DEF TypeOK
  <2>5. \A i \in DOMAIN deliveries' : i + 1 \in DOMAIN deliveries /\ deliveries'[i] = deliveries[i + 1]
    BY <2>2, <2>4, TailEntry
  <2>6. \A i \in Ids : settling'[i] # None => settling'[i] = settling[i]
    BY <2>3 DEF TypeOK
  <2> QED BY <2>2, <2>5, <2>6 DEF IIds, Made
<1>5. ASSUME NEW f \in Futures, Register(f) PROVE IIds'
  <2>1. /\ next_id \in Ids /\ \A g \in Futures : id[g] # next_id
        /\ id' = [id EXCEPT ![f] = next_id]
        /\ pending' = [pending EXCEPT ![next_id] = f]
        /\ UNCHANGED <<settling, requests, awaiting, deliveries>>
    BY <1>5, NextIdFree DEF Register
  <2>2. id[f] = 0 /\ 0 \notin Ids
    BY <1>5 DEF Register, Made, Ids
  <2>3. id'[f] = next_id /\ \A g \in Futures : g # f => id'[g] = id[g]
    BY <2>1 DEF TypeOK
  <2>4. \A g, h \in Futures : Made(g)' /\ id'[g] = id'[h] => g = h
    BY <2>1, <2>2, <2>3 DEF IIds, Made
  <2>5. \A i \in Ids : pending'[i] # None => id'[pending'[i]] = i
    <3> SUFFICES ASSUME NEW i \in Ids, pending'[i] # None PROVE id'[pending'[i]] = i
      OBVIOUS
    <3>1. CASE i = next_id
      BY <2>1, <2>3, <3>1 DEF TypeOK
    <3>2. CASE i # next_id
      <4>1. pending'[i] = pending[i] /\ pending[i] \in Futures /\ id[pending[i]] = i
        BY <2>1, <3>2 DEF TypeOK, IIds
      <4> QED BY <2>2, <2>3, <4>1
    <3> QED BY <3>1, <3>2
  <2>6. \A i \in Ids : settling[i] # None => id'[settling[i]] = i
    BY <2>2, <2>3 DEF IIds, TypeOK
  <2>7. \A e \in Entry : id[e.op] = e.id => id'[e.op] = e.id
    BY <2>2, <2>3 DEF Entry
  <2>8. /\ \A i \in DOMAIN requests : requests[i] \in Entry
        /\ \A i \in DOMAIN deliveries : deliveries[i] \in Entry
        /\ awaiting \subseteq Entry
    BY DEF TypeOK
  <2>9. /\ \A i \in DOMAIN requests : id'[requests[i].op] = requests[i].id
        /\ \A i \in DOMAIN deliveries : id'[deliveries[i].op] = deliveries[i].id
        /\ \A e \in awaiting : id'[e.op] = e.id
    BY <2>7, <2>8 DEF IIds
  <2> QED BY <2>1, <2>4, <2>5, <2>6, <2>9 DEF IIds
<1>6. ASSUME NEW f \in Futures, Wait(f) PROVE IIds'
  <2>1. /\ pending' = [pending EXCEPT ![id[f]] = None]
        /\ UNCHANGED <<id, settling, requests, awaiting, deliveries>>
    BY <1>6 DEF Wait, realm
  <2>2. \A i \in Ids : pending'[i] # None => pending'[i] = pending[i]
    BY <2>1 DEF TypeOK
  <2> QED BY <2>1, <2>2 DEF IIds, Made
<1>7. ASSUME NEW f \in Futures, Then(f), answer[f] # None PROVE IIds'
  BY <1>7 DEF Then, IIds, Made
<1>8. ASSUME NEW f \in Futures, Then(f), answer[f] = None PROVE IIds'
  <2>1. /\ id[f] \in Ids /\ [id |-> id[f], op |-> f] \in Entry
        /\ requests' = Append(requests, [id |-> id[f], op |-> f])
        /\ settling' = [settling EXCEPT ![id[f]] = f]
        /\ pending' = [pending EXCEPT ![id[f]] = None]
        /\ UNCHANGED <<awaiting, deliveries>>
    BY <1>8, ThenPlaces
  <2>2. id' = id
    BY <1>8 DEF Then
  <2>3. /\ \A i \in Ids : pending'[i] # None => pending'[i] = pending[i]
        /\ \A i \in Ids : settling'[i] # None => settling'[i] = settling[i] \/ (i = id[f] /\ settling'[i] = f)
    BY <2>1 DEF TypeOK
  <2>4. requests \in Seq(Entry)
    BY DEF TypeOK
  <2>5. \A i \in DOMAIN requests' : id[requests'[i].op] = requests'[i].id
    <3> SUFFICES ASSUME NEW i \in DOMAIN requests' PROVE id[requests'[i].op] = requests'[i].id
      OBVIOUS
    <3>1. i \in DOMAIN requests \/ i = Len(requests) + 1
      BY <2>1, <2>4, AppendEntry
    <3>2. CASE i \in DOMAIN requests
      BY <2>1, <2>4, <3>2, AppendEntry DEF IIds
    <3>3. CASE i = Len(requests) + 1
      <4>1. requests'[i] = [id |-> id[f], op |-> f]
        BY <2>1, <2>4, <3>3, AppendEntry
      <4> QED BY <4>1
    <3> QED BY <3>1, <3>2, <3>3
  <2> QED BY <2>1, <2>2, <2>3, <2>5 DEF IIds, Made
<1>9. ASSUME NEW e \in awaiting, Settle(e) PROVE IIds'
  <2>1. /\ e \in Entry /\ awaiting' = awaiting \ {e}
        /\ deliveries' = Append(deliveries, e) /\ UNCHANGED requests
    BY <1>9, SettlePlaces
  <2>2. UNCHANGED <<id, pending, settling>>
    BY <1>9 DEF Settle, realm
  <2>3. deliveries \in Seq(Entry)
    BY DEF TypeOK
  <2>4. \A i \in DOMAIN deliveries' : (i \in DOMAIN deliveries /\ deliveries'[i] = deliveries[i])
                                        \/ deliveries'[i] = e
    BY <2>1, <2>3, AppendEntry
  <2> QED BY <2>1, <2>2, <2>4 DEF IIds, Made
<1> QED BY <1>1, <1>2, <1>3, <1>4, <1>5, <1>6, <1>7, <1>8, <1>9, NamedSteps

(* An operation moves on from a place as it reaches the next.              *)
LEMMA OnceStep == IInv /\ [Next]_vars => IOnce'
<1> SUFFICES ASSUME TypeOK, IIds, IOnce, IWay, [Next]_vars PROVE IOnce'
  BY DEF IInv
<1>1. CASE UNCHANGED <<requests, awaiting, deliveries>>
  BY <1>1, SamePlaces DEF IOnce
<1>3. CASE Return /\ ~ended
  <2>1. DOMAIN requests' = {}
    BY <1>3, ReturnPlaces
  <2> QED BY <1>3, <2>1, ReturnPlaces DEF IOnce
<1>4. CASE Deliver
  <2>1. PICK f : f = Head(deliveries).op
    OBVIOUS
  <2>2. deliveries # <<>> /\ deliveries' = Tail(deliveries) /\ UNCHANGED requests
    BY <1>4 DEF Deliver
  <2>3. \A g \in Futures : /\ Asked(g)' <=> Asked(g)
                           /\ Awaited(g)' <=> Awaited(g)
                           /\ Delivered(g)' <=> Delivered(g) /\ g # f
    BY <1>4, <2>1, DeliverPlaces
  <2>4. deliveries \in Seq(Entry)
    BY DEF TypeOK
  <2>5. \A i \in DOMAIN deliveries' : i + 1 \in DOMAIN deliveries /\ deliveries'[i] = deliveries[i + 1]
    BY <2>2, <2>4, TailEntry
  <2>6. \A i, j \in DOMAIN deliveries' : deliveries'[i].op = deliveries'[j].op => i + 1 = j + 1
    BY <2>5 DEF IOnce
  <2>7. \A i \in DOMAIN deliveries' : i \in Int
    BY <2>2, <2>4
  <2>8. \A i, j \in DOMAIN deliveries' : deliveries'[i].op = deliveries'[j].op => i = j
    BY <2>6, <2>7
  <2> QED BY <2>2, <2>3, <2>8 DEF IOnce
<1>8. ASSUME NEW f \in Futures, Then(f), answer[f] = None PROVE IOnce'
  <2>1. /\ requests' = Append(requests, [id |-> id[f], op |-> f])
        /\ [id |-> id[f], op |-> f] \in Entry /\ UNCHANGED deliveries /\ ~converted[f]
        /\ \A g \in Futures : /\ Asked(g)' <=> Asked(g) \/ g = f
                              /\ Awaited(g)' <=> Awaited(g)
                              /\ Delivered(g)' <=> Delivered(g)
    BY <1>8, ThenPlaces
  <2>2. ~Asked(f) /\ ~Awaited(f) /\ ~Delivered(f)
    BY <2>1, WayPlaces DEF IWay
  <2>3. requests \in Seq(Entry)
    BY DEF TypeOK
  <2>4. \A i \in DOMAIN requests : requests[i].op # f
    BY <2>2 DEF Asked
  <2>5. \A i \in DOMAIN requests' : \/ i \in DOMAIN requests /\ requests'[i] = requests[i]
                                    \/ i = Len(requests) + 1 /\ requests'[i].op = f
    <3>1. [id |-> id[f], op |-> f].op = f
      OBVIOUS
    <3> QED BY <2>1, <2>3, <3>1, AppendEntry
  <2>6. \A i, j \in DOMAIN requests' : requests'[i].op = requests'[j].op => i = j
    BY <2>4, <2>5 DEF IOnce
  <2> QED BY <2>1, <2>2, <2>6 DEF IOnce
<1>9. ASSUME NEW e \in awaiting, Settle(e) PROVE IOnce'
  <2>1. /\ e \in Entry /\ deliveries' = Append(deliveries, e) /\ UNCHANGED requests
        /\ \A g \in Futures : /\ Asked(g)' <=> Asked(g)
                              /\ Awaited(g)' <=> Awaited(g) /\ g # e.op
                              /\ Delivered(g)' <=> Delivered(g) \/ g = e.op
    BY <1>9, SettlePlaces
  <2>2. e.op \in Futures /\ Awaited(e.op)
    BY <2>1 DEF Entry, Awaited
  <2>3. ~Delivered(e.op) /\ ~Asked(e.op)
    BY <2>2 DEF IOnce
  <2>4. deliveries \in Seq(Entry)
    BY DEF TypeOK
  <2>5. \A i \in DOMAIN deliveries : deliveries[i].op # e.op
    BY <2>3 DEF Delivered
  <2>6. \A i \in DOMAIN deliveries' : \/ i \in DOMAIN deliveries /\ deliveries'[i] = deliveries[i]
                                      \/ i = Len(deliveries) + 1 /\ deliveries'[i] = e
    BY <2>1, <2>4, AppendEntry
  <2>7. \A i, j \in DOMAIN deliveries' : deliveries'[i].op = deliveries'[j].op => i = j
    BY <2>5, <2>6 DEF IOnce
  <2> QED BY <2>1, <2>3, <2>7 DEF IOnce
<1>10. Elsewhere => UNCHANGED <<requests, awaiting, deliveries>>
  BY DEF Elsewhere
<1>11. WaitTimedOut => UNCHANGED <<requests, awaiting, deliveries>>
  BY DEF WaitTimedOut, WaitReturns
<1>12. ASSUME NEW f \in Futures PROVE Register(f) \/ Wait(f) => UNCHANGED <<requests, awaiting, deliveries>>
  BY DEF Register, Wait
<1>13. ASSUME NEW f \in Futures, Then(f), answer[f] # None
       PROVE  UNCHANGED <<requests, awaiting, deliveries>>
  BY <1>13 DEF Then
<1> QED BY <1>1, <1>3, <1>4, <1>8, <1>9, <1>10, <1>11, <1>12, <1>13, NamedSteps

(* A conversion's operation stays on its way until its delivery, which the *)
(* realm's table has the Promise for.                                      *)
LEMMA WayStep == IInv /\ [Next]_vars => IWay'
<1> SUFFICES ASSUME TypeOK, ICounter, IIds, IOnce, IWay, IShape, [Next]_vars PROVE IWay'
  BY DEF IInv
<1>a. ASSUME UNCHANGED <<id, settling, converted, promise>>,
             \A g \in Futures : OnItsWay(g)' <=> OnItsWay(g)
      PROVE  IWay'
  BY <1>a DEF IWay, TypeOK
<1>1. CASE Elsewhere
  BY <1>1, <1>a, SamePlaces DEF Elsewhere
<1>2. CASE WaitTimedOut
  BY <1>2, <1>a, SamePlaces DEF WaitTimedOut, WaitReturns
<1>3. CASE Return /\ ~ended
  <2>1. UNCHANGED <<id, settling, converted, promise>>
    BY <1>3 DEF Return, realm
  <2>2. \A g \in Futures : OnItsWay(g)' <=> OnItsWay(g)
    BY <1>3, ReturnPlaces, WayPlaces DEF OnItsWay, Asked, Awaited, Delivered
  <2> QED BY <1>a, <2>1, <2>2
<1>4. CASE Deliver
  <2>1. PICK f : f = Head(deliveries).op
    OBVIOUS
  <2>2. /\ f \in Futures /\ id[f] \in Ids /\ converted[f]
        /\ settling' = [settling EXCEPT ![id[f]] = None]
        /\ promise' = [promise EXCEPT ![f] = f] /\ UNCHANGED converted
        /\ \A g \in Futures : /\ Asked(g)' <=> Asked(g)
                              /\ Awaited(g)' <=> Awaited(g)
                              /\ Delivered(g)' <=> Delivered(g) /\ g # f
    BY <1>4, <2>1, DeliverPlaces
  <2>3. UNCHANGED id
    BY <1>4 DEF Deliver
  <2>4. Delivered(f) /\ ~Asked(f) /\ ~Awaited(f)
    <3>1. deliveries # <<>> /\ deliveries \in Seq(Entry)
      BY <1>4 DEF Deliver, TypeOK
    <3>2. Delivered(f)
      BY <2>1, <3>1, TailEntry DEF Delivered
    <3> QED BY <2>2, <3>2 DEF IOnce
  <2>5. \A g \in Futures : OnItsWay(g)' <=> OnItsWay(g) /\ g # f
    BY <2>2, <2>4, WayPlaces DEF OnItsWay, Asked, Awaited, Delivered
  <2>6. \A g \in Futures : OnItsWay(g)' => settling'[id[g]] = g
    <3> SUFFICES ASSUME NEW g \in Futures, OnItsWay(g), g # f PROVE settling'[id[g]] = g
      BY <2>5
    <3>1. Made(g) /\ settling[id[g]] = g /\ id[g] \in Ids
      BY EntriesAreMade DEF IWay, TypeOK, Made
    <3>2. id[g] # id[f]
      BY <2>2, <3>1 DEF IIds
    <3> QED BY <2>2, <3>1, <3>2 DEF TypeOK
  <2>7. \A g \in Futures : OnItsWay(g)' <=> converted[g] /\ promise'[g] = None
    BY <2>2, <2>5, NoneAssumption DEF IWay, TypeOK
  <2>8. \A i \in Ids : settling'[i] # None =>
                       \E g \in Futures : g = settling'[i] /\ OnItsWay(g)'
    <3> SUFFICES ASSUME NEW i \in Ids, settling'[i] # None
                 PROVE  \E g \in Futures : g = settling'[i] /\ OnItsWay(g)'
      OBVIOUS
    <3>1. i # id[f] /\ settling'[i] = settling[i] /\ settling[i] \in Futures
      BY <2>2 DEF TypeOK
    <3>2. settling[i] # f
      BY <3>1 DEF IIds
    <3>3. OnItsWay(settling[i])
      BY <3>1 DEF IWay
    <3>4. PICK g \in Futures : g = settling[i]
      BY <3>1
    <3>5. OnItsWay(g)'
      BY <2>5, <3>2, <3>3, <3>4
    <3>6. settling'[i] = g
      BY <3>1, <3>4
    <3> QED BY <3>5, <3>6
  <2>9. \A i \in Ids : (settling[i] # None => OnItsWay(settling[i]))'
    BY <2>8 DEF OnItsWay
  <2> QED BY <2>2, <2>3, <2>6, <2>7, <2>9 DEF IWay
<1>5. ASSUME NEW f \in Futures, Register(f) PROVE IWay'
  <2>1. /\ UNCHANGED <<settling, converted, promise, requests, awaiting, deliveries>>
        /\ id' = [id EXCEPT ![f] = Allocated] /\ ~Made(f)
    BY <1>5 DEF Register
  <2>2. ~OnItsWay(f)
    BY <2>1, EntriesAreMade
  <2>3. \A g \in Futures : OnItsWay(g)' <=> OnItsWay(g)
    BY <2>1, SamePlaces
  <2>4. \A g \in Futures : g # f => id'[g] = id[g]
    BY <2>1 DEF TypeOK
  <2> QED BY <2>1, <2>2, <2>3, <2>4 DEF IWay, TypeOK
<1>6. ASSUME NEW f \in Futures, Wait(f) PROVE IWay'
  BY <1>6, <1>a, SamePlaces DEF Wait, realm
<1>7. ASSUME NEW f \in Futures, Then(f), answer[f] # None PROVE IWay'
  <2>1. /\ UNCHANGED <<id, settling, converted, requests, awaiting, deliveries>>
        /\ promise' = [promise EXCEPT ![f] = answer[f]] /\ ~converted[f]
    BY <1>7 DEF Then
  <2>2. \A g \in Futures : OnItsWay(g)' <=> OnItsWay(g)
    BY <2>1, SamePlaces
  <2> QED BY <2>1, <2>2 DEF IWay, TypeOK
<1>8. ASSUME NEW f \in Futures, Then(f), answer[f] = None PROVE IWay'
  <2>1. /\ Made(f) /\ ~converted[f] /\ id[f] \in Ids
        /\ converted' = [converted EXCEPT ![f] = TRUE]
        /\ settling' = [settling EXCEPT ![id[f]] = f] /\ UNCHANGED promise
        /\ \A g \in Futures : /\ Asked(g)' <=> Asked(g) \/ g = f
                              /\ Awaited(g)' <=> Awaited(g)
                              /\ Delivered(g)' <=> Delivered(g)
    BY <1>8, ThenPlaces
  <2>2. id' = id /\ promise[f] = None
    BY <1>8 DEF Then
  <2>3. \A g \in Futures : OnItsWay(g)' <=> OnItsWay(g) \/ g = f
    BY <2>1, WayPlaces DEF OnItsWay, Asked, Awaited, Delivered
  <2>4. \A g \in Futures : OnItsWay(g)' <=> converted'[g] /\ promise'[g] = None
    BY <2>1, <2>2, <2>3 DEF IWay, TypeOK
  <2>5. \A g \in Futures : OnItsWay(g)' => settling'[id'[g]] = g
    <3> SUFFICES ASSUME NEW g \in Futures, OnItsWay(g) \/ g = f PROVE settling'[id[g]] = g
      BY <2>2, <2>3
    <3>1. CASE g = f
      BY <2>1, <3>1 DEF TypeOK
    <3>2. CASE g # f
      <4>1. Made(g) /\ settling[id[g]] = g /\ id[g] \in Ids
        BY <3>2, EntriesAreMade DEF IWay, TypeOK, Made
      <4>2. id[g] # id[f]
        BY <2>1, <3>2, <4>1 DEF IIds
      <4> QED BY <2>1, <4>1, <4>2 DEF TypeOK
    <3> QED BY <3>1, <3>2
  <2>6. \A i \in Ids : settling'[i] # None =>
                       \E g \in Futures : g = settling'[i] /\ OnItsWay(g)'
    <3> SUFFICES ASSUME NEW i \in Ids, settling'[i] # None
                 PROVE  \E g \in Futures : g = settling'[i] /\ OnItsWay(g)'
      OBVIOUS
    <3>1. \/ settling'[i] = f
          \/ settling'[i] = settling[i] /\ settling[i] \in Futures /\ OnItsWay(settling[i])
      BY <2>1 DEF TypeOK, IWay
    <3>2. PICK g \in Futures : g = settling'[i] /\ (g = f \/ OnItsWay(g))
      BY <3>1
    <3>3. OnItsWay(g)'
      BY <2>3, <3>2
    <3> QED BY <3>2, <3>3
  <2>7. \A i \in Ids : (settling[i] # None => OnItsWay(settling[i]))'
    BY <2>6 DEF OnItsWay
  <2> QED BY <2>4, <2>5, <2>7 DEF IWay
<1>9. ASSUME NEW e \in awaiting, Settle(e) PROVE IWay'
  <2>1. /\ e \in Entry
        /\ \A g \in Futures : /\ Asked(g)' <=> Asked(g)
                              /\ Awaited(g)' <=> Awaited(g) /\ g # e.op
                              /\ Delivered(g)' <=> Delivered(g) \/ g = e.op
    BY <1>9, SettlePlaces
  <2>2. Awaited(e.op)
    BY DEF Awaited
  <2>3. \A g \in Futures : OnItsWay(g)' <=> OnItsWay(g)
    BY <2>1, <2>2, WayPlaces DEF OnItsWay, Asked, Awaited, Delivered
  <2>4. UNCHANGED <<id, settling, converted, promise>>
    BY <1>9 DEF Settle, realm
  <2> QED BY <1>a, <2>3, <2>4
<1> QED BY <1>1, <1>2, <1>3, <1>4, <1>5, <1>6, <1>7, <1>8, <1>9, NamedSteps

(* What a Future has become says where its operation can be.               *)
LEMMA ShapeStep == IInv /\ [Next]_vars => IShape'
<1> SUFFICES ASSUME TypeOK, ICounter, IIds, IOnce, IWay, IShape, IWait, OwnOutcome, [Next]_vars
             PROVE  IShape'
  BY DEF IInv
<1>a. ASSUME UNCHANGED <<id, pending, answer, converted, promise>> PROVE IShape'
  BY <1>a DEF IShape, Made
<1>1. CASE Elsewhere /\ answer' = answer
  BY <1>1, <1>a DEF Elsewhere
<1>b. CASE Elsewhere /\ WaitSettled
  <2>1. /\ waiter \in Futures /\ Made(waiter) /\ ~converted[waiter]
        /\ pending[id[waiter]] = None /\ promise[waiter] = None
        /\ answer' = [answer EXCEPT ![waiter] = waiter]
    BY <1>b DEF WaitSettled, WaitReturns, IWait
  <2> QED BY <1>b, <2>1 DEF Elsewhere, IShape, Made, TypeOK
<1>2. CASE WaitTimedOut
  <2>1. /\ waiter \in Futures /\ Made(waiter) /\ ~converted[waiter] /\ answer[waiter] = None
        /\ pending' = [pending EXCEPT ![id[waiter]] = waiter]
        /\ UNCHANGED <<id, answer, converted, promise>>
    BY <1>2 DEF WaitTimedOut, WaitReturns, IWait
  <2>2. ASSUME NEW g \in Futures, Made(g), converted[g] \/ answer[g] # None
        PROVE  pending'[id[g]] = None
    <3>1. id[g] # id[waiter] /\ id[g] \in Ids
      BY <2>1, <2>2 DEF IIds, Made, TypeOK
    <3> QED BY <2>1, <2>2, <3>1 DEF IShape, TypeOK
  <2> QED BY <2>1, <2>2 DEF IShape, Made
<1>3. CASE Return /\ ~ended
  BY <1>3, <1>a DEF Return, realm
<1>4. CASE Deliver
  <2>1. PICK f : f = Head(deliveries).op
    OBVIOUS
  <2>2. /\ f \in Futures /\ converted[f] /\ promise' = [promise EXCEPT ![f] = f]
    BY <1>4, <2>1, DeliverPlaces
  <2>3. UNCHANGED <<id, pending, answer, converted>>
    BY <1>4 DEF Deliver
  <2> QED BY <2>2, <2>3 DEF IShape, Made, TypeOK
<1>5. ASSUME NEW f \in Futures, Register(f) PROVE IShape'
  <2>1. /\ next_id \in Ids /\ \A g \in Futures : id[g] # next_id
        /\ id' = [id EXCEPT ![f] = next_id] /\ ~Made(f)
        /\ pending' = [pending EXCEPT ![next_id] = f]
        /\ UNCHANGED <<answer, converted, promise>>
    BY <1>5, NextIdFree DEF Register
  <2>2. ASSUME NEW g \in Futures PROVE
        /\ ~Made(g)' => ~Made(g)
        /\ Made(g)' /\ (converted[g] \/ answer[g] # None) => pending'[id'[g]] = None
    <3>1. CASE g = f
      BY <2>1, <3>1 DEF IShape, Made, TypeOK
    <3>2. CASE g # f
      <4>1. id'[g] = id[g] /\ id[g] # next_id
        BY <2>1, <3>2 DEF TypeOK
      <4> QED BY <2>1, <4>1 DEF IShape, Made, TypeOK
    <3> QED BY <3>1, <3>2
  <2> QED BY <2>1, <2>2 DEF IShape
<1>6. ASSUME NEW f \in Futures, Wait(f) PROVE IShape'
  BY <1>6 DEF Wait, realm, IShape, Made, TypeOK
<1>7. ASSUME NEW f \in Futures, Then(f), answer[f] # None PROVE IShape'
  BY <1>7 DEF Then, IShape, Made, TypeOK, OwnOutcome
<1>8. ASSUME NEW f \in Futures, Then(f), answer[f] = None PROVE IShape'
  <2>1. /\ Made(f) /\ id[f] \in Ids
        /\ converted' = [converted EXCEPT ![f] = TRUE]
        /\ pending' = [pending EXCEPT ![id[f]] = None] /\ UNCHANGED promise
    BY <1>8, ThenPlaces
  <2>2. UNCHANGED <<id, answer>>
    BY <1>8 DEF Then
  <2> QED BY <1>8, <2>1, <2>2 DEF IShape, Made, TypeOK
<1>9. ASSUME NEW e \in awaiting, Settle(e) PROVE IShape'
  BY <1>9, <1>a DEF Settle, realm
<1> QED BY <1>1, <1>b, <1>2, <1>3, <1>4, <1>5, <1>6, <1>7, <1>8, <1>9, NamedSteps

(* A wait has taken the operation of a Future that is neither answered nor *)
(* converted, and nothing answers or converts that one meanwhile.          *)
LEMMA WaitStep == IInv /\ [Next]_vars => IWait'
<1> SUFFICES ASSUME TypeOK, ICounter, IIds, IOnce, IWay, IShape, IWait, [Next]_vars
             PROVE  IWait'
  BY DEF IInv
<1> USE DEF host, realm, stack
<1>a. ASSUME UNCHANGED <<id, pending, answer, converted, promise, stack>> PROVE IWait'
  BY <1>a DEF IWait, Made
<1>b. ASSUME job # "waiting", job' # "waiting", UNCHANGED waited PROVE IWait'
  BY <1>b DEF IWait
<1>1. CASE End \/ Over \/ UNCHANGED vars
  BY <1>1, <1>a DEF End, Over, vars
<1>2. CASE Enter
  BY <1>2, <1>b DEF Enter
<1>3. CASE WaitSettled \/ WaitTimedOut \/ WaitEnded
  BY <1>3 DEF WaitSettled, WaitTimedOut, WaitEnded, WaitReturns, IWait
<1>4. CASE Return
  BY <1>4, <1>b DEF Return, Running
<1>5. CASE Deliver
  BY <1>5, <1>b DEF Deliver
<1>6. ASSUME NEW f \in Futures, Complete(f) PROVE IWait'
  BY <1>6, <1>a DEF Complete
<1>7. ASSUME NEW f \in Futures, Register(f) \/ Then(f) PROVE IWait'
  BY <1>7, <1>b DEF Register, Then, Running
<1>8. ASSUME NEW f \in Futures, Wait(f) PROVE IWait'
  <2>1. /\ Made(f) /\ ~converted[f] /\ answer[f] = None /\ id[f] \in Ids
        /\ pending[id[f]] # None
        /\ waiter' = f /\ waited' = pending[id[f]] /\ job' = "waiting"
        /\ pending' = [pending EXCEPT ![id[f]] = None]
        /\ UNCHANGED <<id, converted, answer, promise>>
    BY <1>8 DEF Wait, Made, TypeOK
  <2>2. pending[id[f]] = f
    BY <2>1 DEF IIds, TypeOK
  <2>3. promise[f] = None
    BY <2>1, NoneAssumption DEF IShape
  <2>4. pending'[id[f]] = None
    BY <2>1 DEF TypeOK
  <2> QED BY <2>1, <2>2, <2>3, <2>4 DEF IWait, Made
<1>9. ASSUME NEW e \in awaiting, Settle(e) PROVE IWait'
  BY <1>9, <1>a DEF Settle
<1> QED BY <1>1, <1>2, <1>3, <1>4, <1>5, <1>6, <1>7, <1>8, <1>9 DEF Next

(* No outcome but its own is written to a Future.                          *)
LEMMA OwnStep == IInv /\ [Next]_vars => OwnOutcome'
<1> SUFFICES ASSUME TypeOK, ICounter, IIds, IOnce, IWay, IShape, IWait, OwnOutcome, [Next]_vars
             PROVE  OwnOutcome'
  BY DEF IInv
<1>a. ASSUME UNCHANGED <<answer, promise>> PROVE OwnOutcome'
  BY <1>a DEF OwnOutcome
<1>1. CASE Elsewhere /\ answer' = answer
  BY <1>1, <1>a DEF Elsewhere
<1>2. CASE Elsewhere /\ WaitSettled
  BY <1>2 DEF Elsewhere, WaitSettled, WaitReturns, IWait, OwnOutcome, TypeOK
<1>3. CASE WaitTimedOut
  BY <1>3, <1>a DEF WaitTimedOut, WaitReturns
<1>4. CASE Return /\ ~ended
  BY <1>4, <1>a DEF Return, realm
<1>5. CASE Deliver
  <2>1. PICK f : f = Head(deliveries).op
    OBVIOUS
  <2>2. /\ f \in Futures /\ promise' = [promise EXCEPT ![f] = f]
    BY <1>5, <2>1, DeliverPlaces
  <2>3. UNCHANGED answer
    BY <1>5 DEF Deliver
  <2> QED BY <2>2, <2>3 DEF OwnOutcome, TypeOK
<1>6. ASSUME NEW f \in Futures, Register(f) \/ Wait(f) PROVE OwnOutcome'
  BY <1>6, <1>a DEF Register, Wait, realm
<1>7. ASSUME NEW f \in Futures, Then(f) PROVE OwnOutcome'
  BY <1>7 DEF Then, OwnOutcome, TypeOK
<1>8. ASSUME NEW e \in awaiting, Settle(e) PROVE OwnOutcome'
  BY <1>8, <1>a DEF Settle, realm
<1> QED BY <1>1, <1>2, <1>3, <1>4, <1>5, <1>6, <1>7, <1>8, NamedSteps

(* An operation leaves a place for another, or the realm ends.             *)
LEMMA LostStep == IInv /\ [Next]_vars => NothingIsLost'
<1> SUFFICES ASSUME TypeOK, ICounter, IIds, IOnce, IWay, IShape, IWait, OwnOutcome,
                    NothingIsLost, [Next]_vars, ~ended', NEW g \in Futures, Made(g)'
             PROVE  \/ pending'[id'[g]] = g \/ waited' = g \/ OnItsWay(g)'
                    \/ answer'[g] = g \/ promise'[g] = g
  BY DEF IInv, NothingIsLost
<1>b. ~ended
  BY DEF Next, vars, host, realm, stack, End, Enter, Over, WaitSettled, WaitTimedOut, WaitEnded,
         WaitReturns, Return, Deliver, Complete, Register, Wait, Then, Settle
<1>c. g # None
  BY NoneAssumption
<1>d. Made(g) => \/ pending[id[g]] = g \/ waited = g \/ OnItsWay(g)
                 \/ answer[g] = g \/ promise[g] = g
  BY <1>b DEF NothingIsLost
<1>1. CASE Elsewhere /\ answer' = answer /\ waited' = waited
  <2>1. OnItsWay(g)' <=> OnItsWay(g)
    BY <1>1, SamePlaces DEF Elsewhere
  <2> QED BY <1>1, <1>d, <2>1 DEF Elsewhere, Made
<1>2. CASE Elsewhere /\ WaitSettled
  <2>1. OnItsWay(g)' <=> OnItsWay(g)
    BY <1>2, SamePlaces DEF Elsewhere
  <2>2. waiter \in Futures /\ waited = waiter /\ answer' = [answer EXCEPT ![waiter] = waiter]
    BY <1>2 DEF WaitSettled, WaitReturns, IWait
  <2> QED BY <1>2, <1>d, <2>1, <2>2 DEF Elsewhere, Made, TypeOK
<1>3. CASE WaitTimedOut
  <2>1. /\ waiter \in Futures /\ waited = waiter /\ id[waiter] \in Ids
        /\ pending' = [pending EXCEPT ![id[waiter]] = waiter]
        /\ UNCHANGED <<id, answer, promise, requests, awaiting, deliveries>>
    BY <1>3 DEF WaitTimedOut, WaitReturns, IWait, Made, TypeOK
  <2>2. OnItsWay(g)' <=> OnItsWay(g)
    BY <2>1, SamePlaces
  <2>3. id[g] = id[waiter] => g = waiter
    BY <2>1 DEF IIds, Made
  <2>4. pending[id[g]] = g => pending'[id[g]] = g
    BY <2>1, <2>3 DEF TypeOK, Made
  <2>5. waited = g => pending'[id[g]] = g
    BY <2>1 DEF TypeOK
  <2> QED BY <1>d, <2>1, <2>2, <2>4, <2>5 DEF Made
<1>4. CASE Return /\ ~ended
  <2>1. OnItsWay(g)' <=> OnItsWay(g)
    BY <1>4, ReturnPlaces, WayPlaces DEF OnItsWay, Asked, Awaited, Delivered
  <2>2. UNCHANGED <<id, pending, waited, answer, promise>>
    BY <1>4 DEF Return, realm
  <2> QED BY <1>d, <2>1, <2>2 DEF Made
<1>5. CASE Deliver
  <2>1. PICK f : f = Head(deliveries).op
    OBVIOUS
  <2>2. /\ f \in Futures /\ promise' = [promise EXCEPT ![f] = f]
        /\ Asked(g)' <=> Asked(g)
        /\ Awaited(g)' <=> Awaited(g)
        /\ Delivered(g)' <=> Delivered(g) /\ g # f
    BY <1>5, <2>1, DeliverPlaces
  <2>3. UNCHANGED <<id, pending, answer, waited>>
    BY <1>5 DEF Deliver
  <2>4. OnItsWay(g) /\ g # f => OnItsWay(g)'
    BY <2>2, WayPlaces DEF OnItsWay, Asked, Awaited, Delivered
  <2>5. g = f => promise'[g] = g
    BY <2>2 DEF TypeOK
  <2>6. g # f => promise'[g] = promise[g]
    BY <2>2 DEF TypeOK
  <2> QED BY <1>d, <2>3, <2>4, <2>5, <2>6 DEF Made
<1>6. ASSUME NEW f \in Futures, Register(f)
      PROVE  \/ pending'[id'[g]] = g \/ waited' = g \/ OnItsWay(g)'
             \/ answer'[g] = g \/ promise'[g] = g
  <2>1. /\ next_id \in Ids /\ pending[next_id] = None
        /\ id' = [id EXCEPT ![f] = next_id]
        /\ pending' = [pending EXCEPT ![next_id] = f]
    BY <1>6, NextIdFree DEF Register
  <2>2. UNCHANGED <<answer, promise, waited, requests, awaiting, deliveries>>
    BY <1>6 DEF Register, stack
  <2>3. OnItsWay(g)' <=> OnItsWay(g)
    BY <2>2, SamePlaces
  <2>4. g = f => pending'[id'[g]] = g
    BY <2>1 DEF TypeOK
  <2>5. g # f => id'[g] = id[g] /\ (pending[id[g]] = g => pending'[id[g]] = g)
    BY <2>1, <1>c DEF TypeOK, Made
  <2> QED BY <1>d, <2>2, <2>3, <2>4, <2>5 DEF Made
<1>7. ASSUME NEW f \in Futures, Wait(f)
      PROVE  \/ pending'[id'[g]] = g \/ waited' = g \/ OnItsWay(g)'
             \/ answer'[g] = g \/ promise'[g] = g
  <2>1. /\ id[f] \in Ids /\ waited' = pending[id[f]] /\ waited = None
        /\ pending' = [pending EXCEPT ![id[f]] = None]
        /\ UNCHANGED <<id, answer, promise, requests, awaiting, deliveries>>
    BY <1>7 DEF Wait, Running, Made, TypeOK, IWait, realm
  <2>2. OnItsWay(g)' <=> OnItsWay(g)
    BY <2>1, SamePlaces
  <2>3. pending[id[g]] = g => pending'[id[g]] = g \/ waited' = g
    BY <2>1 DEF TypeOK, Made
  <2> QED BY <1>c, <1>d, <2>1, <2>2, <2>3 DEF Made
<1>8. ASSUME NEW f \in Futures, Then(f), answer[f] # None
      PROVE  \/ pending'[id'[g]] = g \/ waited' = g \/ OnItsWay(g)'
             \/ answer'[g] = g \/ promise'[g] = g
  <2>1. /\ promise' = [promise EXCEPT ![f] = answer[f]] /\ answer[f] = f
        /\ UNCHANGED <<id, pending, answer, waited, requests, awaiting, deliveries>>
    BY <1>8 DEF Then, OwnOutcome, stack
  <2>2. OnItsWay(g)' <=> OnItsWay(g)
    BY <2>1, SamePlaces
  <2> QED BY <1>d, <2>1, <2>2 DEF Made, TypeOK
<1>9. ASSUME NEW f \in Futures, Then(f), answer[f] = None
      PROVE  \/ pending'[id'[g]] = g \/ waited' = g \/ OnItsWay(g)'
             \/ answer'[g] = g \/ promise'[g] = g
  <2>1. /\ id[f] \in Ids
        /\ pending' = [pending EXCEPT ![id[f]] = None] /\ UNCHANGED promise
        /\ pending[id[f]] = f
        /\ Asked(g)' <=> Asked(g) \/ g = f
        /\ Awaited(g)' <=> Awaited(g)
        /\ Delivered(g)' <=> Delivered(g)
    BY <1>9, ThenPlaces
  <2>2. UNCHANGED <<id, answer, waited>>
    BY <1>9 DEF Then, stack
  <2>3. OnItsWay(g) \/ g = f => OnItsWay(g)'
    BY <2>1, WayPlaces DEF OnItsWay, Asked, Awaited, Delivered
  <2>4. pending[id[g]] = g /\ g # f => pending'[id[g]] = g
    BY <2>1, <2>2 DEF TypeOK, Made
  <2> QED BY <1>d, <2>1, <2>2, <2>3, <2>4 DEF Made
<1>10. ASSUME NEW e \in awaiting, Settle(e)
       PROVE  \/ pending'[id'[g]] = g \/ waited' = g \/ OnItsWay(g)'
              \/ answer'[g] = g \/ promise'[g] = g
  <2>1. /\ Asked(g)' <=> Asked(g)
        /\ Awaited(g)' <=> Awaited(g) /\ g # e.op
        /\ Delivered(g)' <=> Delivered(g) \/ g = e.op
    BY <1>10, SettlePlaces
  <2>2. UNCHANGED <<id, pending, answer, promise, waited>>
    BY <1>10 DEF Settle, realm, stack
  <2>3. OnItsWay(g) => OnItsWay(g)'
    BY <2>1, WayPlaces DEF OnItsWay, Asked, Awaited, Delivered
  <2> QED BY <1>d, <2>2, <2>3 DEF Made
<1> QED
  BY <1>b, <1>1, <1>2, <1>3, <1>4, <1>5, <1>6, <1>7, <1>8, <1>9, <1>10, NamedSteps

-----------------------------------------------------------------------------
LEMMA InitInv == EnoughIds /\ Init => IInv
<1> SUFFICES ASSUME EnoughIds, Init PROVE IInv
  OBVIOUS
<1>1. TypeOK
  <2>1. <<>> \in Seq(Entry)
    OBVIOUS
  <2>2. 1 \in Ids
    BY CounterAssumption DEF Ids
  <2>3. {} \subseteq Futures /\ {} \subseteq Entry
    OBVIOUS
  <2> QED BY <2>1, <2>2, <2>3 DEF Init, TypeOK
<1>2. ICounter
  <2>1. MadeOnes = {}
    BY DEF Init, MadeOnes, Made
  <2>2. Cardinality(MadeOnes) = 0
    BY <2>1, FS_EmptySet
  <2> QED BY <2>2 DEF Init, ICounter
<1>3. \A f \in Futures : ~Asked(f) /\ ~Awaited(f) /\ ~Delivered(f) /\ ~Made(f)
  BY DEF Init, Asked, Awaited, Delivered, Made
<1>4. \A f \in Futures : ~OnItsWay(f)
  BY <1>3, WayPlaces
<1>5. IIds /\ IOnce
  BY <1>3 DEF Init, IIds, IOnce
<1>6. IWay
  BY <1>4 DEF Init, IWay
<1>7. IShape /\ IWait /\ OwnOutcome /\ NothingIsLost
  BY <1>3, NoneAssumption DEF Init, IShape, IWait, OwnOutcome, NothingIsLost
<1> QED BY <1>1, <1>2, <1>5, <1>6, <1>7 DEF IInv

LEMMA StepInv == EnoughIds /\ IInv /\ [Next]_vars => IInv'
<1> SUFFICES ASSUME EnoughIds, IInv, [Next]_vars PROVE IInv'
  OBVIOUS
<1>1. TypeOK' /\ ICounter' /\ IIds' /\ IOnce'
  BY TypeStep, CounterStep, IdsStep, OnceStep
<1>2. IWay' /\ IShape' /\ IWait'
  BY WayStep, ShapeStep, WaitStep
<1>3. OwnOutcome' /\ NothingIsLost'
  BY OwnStep, LostStep
<1> QED BY <1>1, <1>2, <1>3 DEF IInv

(* The inductive invariant holds in every reachable state: an id is one    *)
(* Future's wherever it is written, and an operation is on its way in one  *)
(* place (future.rs, future.ts).                                           *)
THEOREM Invariance == ASSUME EnoughIds PROVE Spec => []IInv
<1>1. Init => IInv
  BY InitInv
<1>2. IInv /\ [Next]_vars => IInv'
  BY StepInv
<1> QED BY <1>1, <1>2, PTL DEF Spec

(* Every outcome reaches its own Future and none other, by either of the   *)
(* ways it is asked for, and none is lost before the realm ends, for any   *)
(* number of Futures the counter has an id for.                            *)
THEOREM Arrivals == ASSUME EnoughIds PROVE Spec => []OutcomesArrive
<1>1. IInv => OutcomesArrive
  <2> SUFFICES ASSUME IInv PROVE OutcomesArrive
    OBVIOUS
  <2>1. HalvesAgree
    BY DEF IInv, IWay, HalvesAgree
  <2> QED BY <2>1 DEF IInv, OutcomesArrive
<1> QED BY <1>1, Invariance, PTL


-----------------------------------------------------------------------------
(* The pictures.                                                           *)
LEMMA SameCounts ==
  ASSUME NEW S
  PROVE  (I!IsFiniteSet(S) <=> IsFiniteSet(S)) /\ I!Cardinality(S) = Cardinality(S)
BY DEF I!IsFiniteSet, IsFiniteSet, I!Cardinality, Cardinality

LEMMA Tallied ==
  ASSUME NEW seq, NEW these
  PROVE  I!Tally(seq, these) = Cardinality({i \in DOMAIN seq : seq[i] \in these})
BY SameCounts DEF I!Tally

LEMMA Given ==
  /\ Sources \cap Documents = {} /\ Sources # {} /\ IsFiniteSet(Sources)
  /\ Full \in Nat /\ First \in 1..Full
  /\ Budgets \subseteq Nat /\ Permits \in Nat /\ MaxActs \in Nat
BY PicturesAssumption, SameCounts DEF I!ImagesAssumption

(* Counting.                                                               *)
One(e, these) == IF e \in these THEN 1 ELSE 0
Hits(seq, these) == {i \in DOMAIN seq : seq[i] \in these}

LEMMA HitsFinite ==
  ASSUME NEW S, NEW seq \in Seq(S), NEW these
  PROVE  /\ IsFiniteSet(Hits(seq, these)) /\ I!Tally(seq, these) \in Nat
         /\ I!Tally(seq, these) = Cardinality(Hits(seq, these))
         /\ I!Tally(seq, these) = 0 <=> \A i \in 1..Len(seq) : seq[i] \notin these
<1>1. IsFiniteSet(1..Len(seq))
  BY FS_Interval
<1>2. Hits(seq, these) \subseteq 1..Len(seq)
  BY DEF Hits
<1>3. IsFiniteSet(Hits(seq, these))
  BY <1>1, <1>2, FS_Subset
<1>4. I!Tally(seq, these) = Cardinality(Hits(seq, these))
  BY Tallied DEF Hits
<1>5. Cardinality(Hits(seq, these)) = 0 <=> Hits(seq, these) = {}
  BY <1>3, FS_EmptySet
<1>6. Hits(seq, these) = {} <=> \A i \in 1..Len(seq) : seq[i] \notin these
  BY DEF Hits
<1> QED  BY <1>3, <1>4, <1>5, <1>6, FS_CardinalityType

LEMMA TallyNone == ASSUME NEW these PROVE I!Tally(<<>>, these) = 0
<1>1. Hits(<<>>, these) = {}
  BY DEF Hits
<1> QED  BY <1>1, FS_EmptySet, Tallied DEF Hits

LEMMA TallyAppend ==
  ASSUME NEW S, NEW seq \in Seq(S), NEW e \in S, NEW these
  PROVE  I!Tally(Append(seq, e), these) = I!Tally(seq, these) + One(e, these)
<1> DEFINE n == Len(seq) + 1
           A == Hits(seq, these)
           B == Hits(Append(seq, e), these)
<1>1. /\ Len(seq) \in Nat /\ DOMAIN seq = 1..Len(seq) /\ Append(seq, e) \in Seq(S)
      /\ DOMAIN Append(seq, e) = 1..n /\ Append(seq, e)[n] = e
      /\ \A i \in 1..Len(seq) : Append(seq, e)[i] = seq[i]
  OBVIOUS
<1>2. /\ A \subseteq 1..Len(seq) /\ B \subseteq 1..n
      /\ \A i \in 1..Len(seq) : i \in A <=> seq[i] \in these
      /\ \A i \in 1..Len(seq) : i \in B <=> seq[i] \in these
      /\ n \in B <=> e \in these
  BY <1>1 DEF Hits
<1>3. /\ I!Tally(seq, these) = Cardinality(A)
      /\ I!Tally(Append(seq, e), these) = Cardinality(B)
  BY Tallied DEF Hits
<1>4. IsFiniteSet(A)
  BY HitsFinite
<1> HIDE DEF A, B
<1>5. n \notin A /\ n \notin 1..Len(seq) /\ \A k \in 1..n : k = n \/ k \in 1..Len(seq)
  BY <1>1, <1>2
<1>6. CASE e \in these
  <2>1. \A k : k \in B <=> k \in A \cup {n}
    BY <1>1, <1>2, <1>5, <1>6
  <2>2. B = A \cup {n}
    <3> HIDE DEF n
    <3> QED  BY <2>1
  <2> QED  BY ZenonT(60), <1>3, <1>4, <1>5, <1>6, <2>2, FS_AddElement DEF One
<1>7. CASE e \notin these
  <2>1. \A k : k \in B <=> k \in A
    BY <1>1, <1>2, <1>5, <1>7
  <2>2. B = A
    BY <2>1
  <2>3. Cardinality(A) \in Nat
    BY <1>4, FS_CardinalityType
  <2> QED  BY <1>3, <1>7, <2>2, <2>3 DEF One
<1> QED  BY <1>6, <1>7

LEMMA TallyTail ==
  ASSUME NEW S, NEW seq \in Seq(S), seq # <<>>, NEW these
  PROVE  I!Tally(seq, these) = I!Tally(Tail(seq), these) + One(Head(seq), these)
<1> DEFINE A == Hits(Tail(seq), these)
           B == Hits(seq, these) \ {1}
           f == [i \in A |-> i + 1]
<1>1. /\ Tail(seq) \in Seq(S) /\ Len(Tail(seq)) = Len(seq) - 1 /\ Len(seq) \in Nat /\ Len(seq) >= 1
      /\ \A i \in 1..Len(seq) - 1 : Tail(seq)[i] = seq[i + 1]
      /\ Head(seq) = seq[1]
  OBVIOUS
<1>2. /\ A \subseteq 1..Len(seq) - 1
      /\ \A i \in 1..Len(seq) - 1 : i \in A <=> seq[i + 1] \in these
  BY <1>1 DEF Hits
<1>3. /\ B \subseteq 2..Len(seq)
      /\ \A i \in 2..Len(seq) : i \in B <=> seq[i] \in these
  BY <1>1 DEF Hits
<1> HIDE DEF A, B
<1>4. f \in Bijection(A, B)
  <2>1. \A i \in A : i + 1 \in B
    BY <1>1, <1>2, <1>3
  <2>2. f \in [A -> B]
    BY <2>1
  <2>3. \A a, b \in A : f[a] = f[b] => a = b
    BY <1>2
  <2>4. \A k \in B : k - 1 \in A /\ f[k - 1] = k
    BY <1>1, <1>2, <1>3
  <2>5. f \in Surjection(A, B)
    BY <2>2, <2>4 DEF Surjection
  <2>6. f \in Injection(A, B)
    BY <2>2, <2>3 DEF Injection, IsInjective
  <2> QED  BY <2>5, <2>6 DEF Bijection
<1>5. IsFiniteSet(A) /\ Cardinality(A) = I!Tally(Tail(seq), these)
  BY <1>1, HitsFinite DEF A
<1>6. Cardinality(B) = Cardinality(A)
  <2>1. ExistsBijection(A, B)
    BY <1>4 DEF ExistsBijection
  <2> QED  BY <2>1, <1>5, FS_Bijection
<1>7. /\ IsFiniteSet(Hits(seq, these)) /\ I!Tally(seq, these) = Cardinality(Hits(seq, these))
      /\ Cardinality(Hits(seq, these)) \in Nat
  BY HitsFinite, FS_CardinalityType
<1>8. 1 \in Hits(seq, these) <=> Head(seq) \in these
  BY <1>1 DEF Hits
<1>9. Cardinality(B) = IF 1 \in Hits(seq, these) THEN Cardinality(Hits(seq, these)) - 1
                       ELSE Cardinality(Hits(seq, these))
  BY <1>7, FS_RemoveElement DEF B
<1> QED  BY <1>5, <1>6, <1>7, <1>8, <1>9 DEF One

LEMMA TallySwap ==
  ASSUME NEW S, NEW seq \in Seq(S), NEW i \in 1..Len(seq), NEW these
  PROVE  /\ I!SwapRemove(seq, i) \in Seq(S)
         /\ I!Tally(seq, these) = I!Tally(I!SwapRemove(seq, i), these) + One(seq[i], these)
<1> DEFINE n == Len(seq)
           t == I!SwapRemove(seq, i)
           A == Hits(seq, these)
           B == Hits(t, these)
<1>1. n \in Nat /\ n >= 1 /\ i \in 1..n
  OBVIOUS
<1>2. /\ t \in Seq(S) /\ Len(t) = n - 1 /\ DOMAIN t = 1..n - 1
      /\ \A k \in 1..n - 1 : t[k] = IF k = i THEN seq[n] ELSE seq[k]
  BY <1>1 DEF I!SwapRemove
<1>3. IsFiniteSet(A) /\ IsFiniteSet(B) /\ Cardinality(A) = I!Tally(seq, these)
      /\ Cardinality(B) = I!Tally(t, these)
  BY <1>2, HitsFinite
<1>4. /\ \A k \in 1..n : k \in A <=> seq[k] \in these
      /\ A \subseteq 1..n
  BY DEF Hits
<1>5. /\ \A k \in 1..n - 1 : k \in B <=> (IF k = i THEN seq[n] \in these ELSE seq[k] \in these)
      /\ B \subseteq 1..n - 1
  BY <1>2 DEF Hits
<1> DEFINE L == 1..n
           K == 1..n - 1
<1>a. \A k : (k \in K) <=> (k \in L /\ k # n)
  BY <1>1
<1>b. (i \in L) /\ (n \in L) /\ (\A k : (k \in A) <=> (k \in L /\ seq[k] \in these))
  BY <1>1, <1>4
<1> HIDE DEF A, B, t
<1>6. IsFiniteSet(A \ {i}) /\ IsFiniteSet(B \ {i}) /\ i \notin A \ {i} /\ n \notin B
      /\ Cardinality(A) \in Nat /\ Cardinality(B) \in Nat
  BY <1>3, <1>5, <1>1, FS_RemoveElement, FS_CardinalityType
<1>7. Cardinality(A \ {i}) = Cardinality(A) - One(seq[i], these)
  BY <1>3, <1>4, <1>1, <1>6, FS_RemoveElement DEF One
<1>8. Cardinality(B) = Cardinality(A \ {i})
  <2>1. CASE i = n
    <3>1. B = A \ {i}
      <4>1. \A k : k \in B <=> k \in K /\ seq[k] \in these
        BY <2>1, <1>1, <1>5
      <4>2. \A k : k \in A \ {i} <=> k \in K /\ seq[k] \in these
        <5> HIDE DEF L, K, n
        <5> QED  BY <2>1, <1>a, <1>b
      <4> QED  BY <4>1, <4>2
    <3> QED  BY <3>1
  <2>2. CASE i # n /\ seq[n] \in these
    <3>1. /\ B = ((A \ {i}) \ {n}) \cup {i} /\ n \in A \ {i}
          /\ i \notin (A \ {i}) \ {n}
      <4>1. \A k : k \in B <=> k \in K /\ (k = i \/ seq[k] \in these)
        BY <2>2, <1>1, <1>5
      <4>2. \A k : k \in ((A \ {i}) \ {n}) \cup {i} <=> k \in K /\ (k = i \/ seq[k] \in these)
        <5> HIDE DEF L, K, n
        <5> QED  BY <2>2, <1>a, <1>b
      <4>3. n \in A \ {i} /\ i \notin (A \ {i}) \ {n}
        <5> HIDE DEF L, K, n
        <5> QED  BY <2>2, <1>a, <1>b
      <4>4. B = ((A \ {i}) \ {n}) \cup {i}
        <5> HIDE DEF n
        <5> QED  BY <4>1, <4>2
      <4> QED  BY <4>3, <4>4
    <3>2. IsFiniteSet((A \ {i}) \ {n}) /\ Cardinality((A \ {i}) \ {n}) = Cardinality(A \ {i}) - 1
      BY <3>1, <1>6, FS_RemoveElement
    <3>3. Cardinality(((A \ {i}) \ {n}) \cup {i}) = Cardinality((A \ {i}) \ {n}) + 1
      BY <3>1, <3>2, FS_AddElement
    <3>4. Cardinality(A \ {i}) \in Nat
      BY <1>6, FS_CardinalityType
    <3> QED  BY <3>1, <3>2, <3>3, <3>4
  <2>3. CASE i # n /\ seq[n] \notin these
    <3>1. B = A \ {i}
      <4>1. \A k : k \in B <=> k \in K /\ k # i /\ seq[k] \in these
        BY <2>3, <1>1, <1>5
      <4>2. \A k : k \in A \ {i} <=> k \in K /\ k # i /\ seq[k] \in these
        <5> HIDE DEF L, K, n
        <5> QED  BY <2>3, <1>a, <1>b
      <4> QED  BY <4>1, <4>2
    <3> QED  BY <3>1
  <2> QED  BY <2>1, <2>2, <2>3
<1> QED  BY <1>2, <1>3, <1>6, <1>7, <1>8 DEF t, One

(* What one job more or less makes of how many there are of a kind.        *)
LEMMA Counted ==
  ASSUME NEW J, IsFiniteSet(J), NEW M
  PROVE  IsFiniteSet(J \cap M) /\ Cardinality(J \cap M) \in Nat
<1> QED  BY FS_Subset, FS_CardinalityType

LEMMA CountedMore ==
  ASSUME NEW J, IsFiniteSet(J), NEW j, j \notin J, NEW M
  PROVE  Cardinality((J \cup {j}) \cap M) = Cardinality(J \cap M) + One(j, M)
<1>1. IsFiniteSet(J \cap M) /\ Cardinality(J \cap M) \in Nat
  BY Counted
<1>2. CASE j \in M
  <2>1. (J \cup {j}) \cap M = (J \cap M) \cup {j}
    BY <1>2
  <2>2. Cardinality((J \cap M) \cup {j}) = Cardinality(J \cap M) + 1
    BY <1>1, FS_AddElement
  <2> QED  BY <1>2, <2>1, <2>2 DEF One
<1>3. CASE j \notin M
  <2> DEFINE A == (J \cup {j}) \cap M
             B == J \cap M
  <2>1. A = B
    BY <1>3
  <2>2. One(j, M) = 0
    BY <1>3 DEF One
  <2>3. Cardinality(B) \in Nat
    BY <1>1
  <2> HIDE DEF A, B
  <2>4. Cardinality(A) = Cardinality(B) + One(j, M)
    BY <2>1, <2>2, <2>3
  <2> QED  BY <2>4 DEF A, B
<1> QED  BY <1>2, <1>3

LEMMA CountedLess ==
  ASSUME NEW J, IsFiniteSet(J), NEW j \in J, NEW M
  PROVE  Cardinality((J \ {j}) \cap M) = Cardinality(J \cap M) - One(j, M)
<1>1. IsFiniteSet(J \cap M) /\ Cardinality(J \cap M) \in Nat
  BY Counted
<1>2. CASE j \in M
  <2>1. (J \ {j}) \cap M = (J \cap M) \ {j}
    BY <1>2
  <2> QED  BY ZenonT(60), <1>1, <1>2, <2>1, FS_RemoveElement DEF One
<1>3. CASE j \notin M
  <2>1. (J \ {j}) \cap M = J \cap M
    BY <1>3
  <2> QED  BY <1>1, <1>3, <2>1 DEF One
<1> QED  BY <1>2, <1>3

-----------------------------------------------------------------------------
(* What is on its way to answer: the jobs, and their completions in the    *)
(* channel and in the turn.                                                *)
Kinds == {"load", "refine", "document"}
Heard(k) == IF k = "document" THEN Documents ELSE Sources
Of(k, x) == {j \in I!Job : j.kind = k /\ j.name = x}
Replies(k, x) ==
  I!Answers(IF k = "load" THEN I!LoadAnswers ELSE IF k = "refine" THEN I!RefineAnswers
            ELSE {"requested"}, x)
WayOf(js, cs, ts, k, x) ==
  Cardinality(js \cap Of(k, x)) + I!Tally(cs, Replies(k, x)) + I!Tally(ts, Replies(k, x))
Way(k, x) == WayOf(i_jobs, i_completions, i_turn, k, x)

(* What is to be answered: the load of a source that loads, the refinement *)
(* that is noted, the reports of a document that are asked for.            *)
Owed(k, x) ==
  IF k = "load" THEN (IF i_entries[x] = "loading" THEN 1 ELSE 0)
  ELSE IF k = "refine" THEN (IF i_refining[x] # 0 THEN 1 ELSE 0)
  ELSE I!Tally(i_requested, {x} \X Views)

(* Nobody waits for a source that does not load; only a loaded one is      *)
(* refined.                                                                *)
PWaiting == \A s \in Sources :
  /\ i_entries[s] # "loading" => i_waiters[s] = <<>>
  /\ i_refining[s] # 0 => i_entries[s] = "loaded"
(* What was asked is what was told and what waits.                         *)
PAsked == \A v \in Views :
  /\ \A s \in Sources : i_asked[v][s] = i_told[v][s] + I!Tally(i_waiters[s], {v})
  /\ \A d \in Documents : i_asked[v][d] = i_told[v][d] + I!Tally(i_requested, {<<d, v>>})
(* Nothing is on its way that is not owed, and all that is owed is, but    *)
(* for what the platform refused a thread.                                 *)
PWays == \A k \in Kinds : \A x \in Heard(k) :
  /\ Way(k, x) <= Owed(k, x)
  /\ x \notin i_lost => Way(k, x) = Owed(k, x)
(* A job is one of its name's, a document's parses apart by number; a      *)
(* refinement's has the size that is noted.                                *)
PJobs ==
  /\ IsFiniteSet(i_jobs)
  /\ \A j \in i_jobs :
       /\ (j.kind = "document") <=> (j.name \in Documents)
       /\ j.kind = "document" => j.n < i_acts
       /\ j.kind # "document" => j.n = 0
       /\ j.kind = "load" => j.size \in I!Sizes
       /\ j.kind = "refine" => j.size = i_refining[j.name] /\ j.size \in I!Sizes
  /\ \A j, k \in i_jobs : j.kind = k.kind /\ j.name = k.name /\ j.n = k.n => j = k
(* So does what a finished refinement left in the channel.                 *)
Sound(seq) == \A i \in 1..Len(seq) :
  /\ (seq[i].kind = "requested") <=> (seq[i].name \in Documents)
  /\ seq[i].kind = "loaded" => seq[i].size \in I!Sizes
  /\ seq[i].kind \in I!RefineAnswers =>
       seq[i].size \in I!Sizes /\ seq[i].size = i_refining[seq[i].name]
PSound == Sound(i_completions) /\ Sound(i_turn)
(* A permit is free or a decoding job's.                                   *)
Decoding == {j \in I!Job : j.stage = "decode"}
PPermits == i_permits + Cardinality(i_jobs \cap Decoding) = Permits

(* How a job, its end, a refused task and a drained channel change what is *)
(* on its way.                                                             *)
LEMMA WayNat ==
  ASSUME NEW js, IsFiniteSet(js), NEW cs \in Seq(I!Completion), NEW ts \in Seq(I!Completion),
         NEW k, NEW x
  PROVE  /\ WayOf(js, cs, ts, k, x) \in Nat
         /\ WayOf(js, cs, ts, k, x) = 0 =>
              /\ \A j \in js : j \notin Of(k, x)
              /\ \A i \in 1..Len(cs) : cs[i] \notin Replies(k, x)
              /\ \A i \in 1..Len(ts) : ts[i] \notin Replies(k, x)
<1>1. IsFiniteSet(js \cap Of(k, x)) /\ Cardinality(js \cap Of(k, x)) \in Nat
  BY FS_Intersection, FS_CardinalityType
<1>2. Cardinality(js \cap Of(k, x)) = 0 => \A j \in js : j \notin Of(k, x)
  BY <1>1, FS_EmptySet
<1>3. /\ I!Tally(cs, Replies(k, x)) \in Nat
      /\ I!Tally(cs, Replies(k, x)) = 0 => \A i \in 1..Len(cs) : cs[i] \notin Replies(k, x)
  BY HitsFinite
<1>4. /\ I!Tally(ts, Replies(k, x)) \in Nat
      /\ I!Tally(ts, Replies(k, x)) = 0 => \A i \in 1..Len(ts) : ts[i] \notin Replies(k, x)
  BY HitsFinite
<1> QED  BY <1>1, <1>2, <1>3, <1>4 DEF WayOf

LEMMA WayAdd ==
  ASSUME NEW js, IsFiniteSet(js), NEW cs \in Seq(I!Completion), NEW ts \in Seq(I!Completion),
         NEW j, j \notin js, NEW k, NEW x
  PROVE  WayOf(js \cup {j}, cs, ts, k, x) = WayOf(js, cs, ts, k, x) + One(j, Of(k, x))
<1>1. /\ Cardinality((js \cup {j}) \cap Of(k, x))
           = Cardinality(js \cap Of(k, x)) + One(j, Of(k, x))
      /\ Cardinality(js \cap Of(k, x)) \in Nat
  <2> DEFINE M == Of(k, x)
  <2> HIDE DEF M
  <2>1. Cardinality(js \cap M) \in Nat
    BY Counted
  <2>2. Cardinality((js \cup {j}) \cap M) = Cardinality(js \cap M) + One(j, M)
    BY CountedMore
  <2> QED  BY <2>1, <2>2 DEF M
<1>2. I!Tally(cs, Replies(k, x)) \in Nat /\ I!Tally(ts, Replies(k, x)) \in Nat
  BY HitsFinite
<1>3. One(j, Of(k, x)) \in Nat
  BY DEF One
<1> QED  BY <1>1, <1>2, <1>3 DEF WayOf

LEMMA WayLost ==
  ASSUME NEW js, IsFiniteSet(js), NEW cs \in Seq(I!Completion), NEW ts \in Seq(I!Completion),
         NEW j \in js, NEW k, NEW x
  PROVE  WayOf(js, cs, ts, k, x) = WayOf(js \ {j}, cs, ts, k, x) + One(j, Of(k, x))
<1>1. /\ Cardinality((js \ {j}) \cap Of(k, x))
           = Cardinality(js \cap Of(k, x)) - One(j, Of(k, x))
      /\ Cardinality(js \cap Of(k, x)) \in Nat
  <2> DEFINE M == Of(k, x)
  <2> HIDE DEF M
  <2>1. Cardinality(js \cap M) \in Nat
    BY Counted
  <2>2. Cardinality((js \ {j}) \cap M) = Cardinality(js \cap M) - One(j, M)
    BY CountedLess
  <2> QED  BY <2>1, <2>2 DEF M
<1>2. I!Tally(cs, Replies(k, x)) \in Nat /\ I!Tally(ts, Replies(k, x)) \in Nat
  BY HitsFinite
<1>3. One(j, Of(k, x)) \in Nat
  BY DEF One
<1> QED  BY <1>1, <1>2, <1>3 DEF WayOf

LEMMA WayGoes ==
  ASSUME NEW js, IsFiniteSet(js), NEW cs \in Seq(I!Completion), NEW ts \in Seq(I!Completion),
         NEW j \in js, NEW i, i \notin js \ {j}, NEW k, NEW x,
         (i \in Of(k, x)) <=> (j \in Of(k, x))
  PROVE  WayOf((js \ {j}) \cup {i}, cs, ts, k, x) = WayOf(js, cs, ts, k, x)
<1>1. WayOf(js, cs, ts, k, x) = WayOf(js \ {j}, cs, ts, k, x) + One(j, Of(k, x))
  BY WayLost
<1>2. IsFiniteSet(js \ {j})
  BY FS_RemoveElement
<1>3. WayOf((js \ {j}) \cup {i}, cs, ts, k, x)
        = WayOf(js \ {j}, cs, ts, k, x) + One(i, Of(k, x))
  BY <1>2, WayAdd
<1>4. One(i, Of(k, x)) = One(j, Of(k, x))
  BY DEF One
<1> QED  BY <1>1, <1>3, <1>4

LEMMA WayDone ==
  ASSUME NEW js, IsFiniteSet(js), NEW cs \in Seq(I!Completion), NEW ts \in Seq(I!Completion),
         NEW j \in js, NEW c \in I!Completion, NEW k, NEW x,
         (c \in Replies(k, x)) <=> (j \in Of(k, x))
  PROVE  WayOf(js \ {j}, Append(cs, c), ts, k, x) = WayOf(js, cs, ts, k, x)
<1>1. I!Tally(Append(cs, c), Replies(k, x)) = I!Tally(cs, Replies(k, x)) + One(c, Replies(k, x))
  BY TallyAppend
<1>2. /\ Cardinality((js \ {j}) \cap Of(k, x))
           = Cardinality(js \cap Of(k, x)) - One(j, Of(k, x))
      /\ Cardinality(js \cap Of(k, x)) \in Nat
  <2> DEFINE M == Of(k, x)
  <2> HIDE DEF M
  <2>1. Cardinality(js \cap M) \in Nat
    BY Counted
  <2>2. Cardinality((js \ {j}) \cap M) = Cardinality(js \cap M) - One(j, M)
    BY CountedLess
  <2> QED  BY <2>1, <2>2 DEF M
<1>3. I!Tally(cs, Replies(k, x)) \in Nat /\ I!Tally(ts, Replies(k, x)) \in Nat
  BY HitsFinite
<1>4. One(c, Replies(k, x)) = One(j, Of(k, x)) /\ One(j, Of(k, x)) \in Nat
  BY DEF One
<1> QED  BY <1>1, <1>2, <1>3, <1>4 DEF WayOf

LEMMA WayDrain ==
  ASSUME NEW js, IsFiniteSet(js), NEW cs \in Seq(I!Completion), NEW k, NEW x
  PROVE  WayOf(js, <<>>, cs, k, x) = WayOf(js, cs, <<>>, k, x)
<1>1. I!Tally(<<>>, Replies(k, x)) = 0 /\ I!Tally(cs, Replies(k, x)) \in Nat
  BY TallyNone, HitsFinite
<1>2. Cardinality(js \cap Of(k, x)) \in Nat
  BY Counted
<1> QED  BY <1>1, <1>2 DEF WayOf

LEMMA WayHead ==
  ASSUME NEW js, IsFiniteSet(js), NEW cs \in Seq(I!Completion),
         NEW ts \in Seq(I!Completion), ts # <<>>, NEW k, NEW x
  PROVE  WayOf(js, cs, ts, k, x) = WayOf(js, cs, Tail(ts), k, x) + One(Head(ts), Replies(k, x))
<1>1. I!Tally(ts, Replies(k, x)) = I!Tally(Tail(ts), Replies(k, x)) + One(Head(ts), Replies(k, x))
  BY TallyTail
<1>2. I!Tally(cs, Replies(k, x)) \in Nat /\ I!Tally(Tail(ts), Replies(k, x)) \in Nat
  <2>1. Tail(ts) \in Seq(I!Completion)
    OBVIOUS
  <2> QED  BY <2>1, HitsFinite
<1>3. Cardinality(js \cap Of(k, x)) \in Nat
  BY Counted
<1>4. One(Head(ts), Replies(k, x)) \in Nat
  BY DEF One
<1> QED  BY <1>1, <1>2, <1>3, <1>4 DEF WayOf

-----------------------------------------------------------------------------
(* The types, by what changes together.                                    *)
TypeCache ==
  /\ i_bitmaps \in [Sources -> 0..Full]
  /\ i_older \subseteq I!Resident \X I!Resident
  /\ \A a, b \in I!Resident :
       <<a, b>> \in i_older <=> a # b /\ <<b, a>> \notin i_older
  /\ \A a, b, c \in I!Resident :
       <<a, b>> \in i_older /\ <<b, c>> \in i_older => <<a, c>> \in i_older
  /\ i_pinned \subseteq Sources /\ i_budget \in Budgets /\ i_fresh \in Sources
TypeTable ==
  /\ i_entries \in [Sources -> {"none", "loading", "loaded", "parsed", "failed"}]
  /\ i_waiters \in [Sources -> Seq(Views)]
  /\ i_refining \in [Sources -> 0..Full]
  /\ i_requested \in Seq(Documents \X Views)
TypeFlow ==
  /\ i_jobs \subseteq I!Job /\ i_permits \in 0..Permits /\ i_lost \subseteq I!Names
  /\ i_completions \in Seq(I!Completion) /\ i_turn \in Seq(I!Completion)
TypeReports ==
  /\ i_asked \in [Views -> [I!Names -> Nat]] /\ i_told \in [Views -> [I!Names -> Nat]]
  /\ i_acts \in 0..MaxActs

PInv ==
  /\ TypeCache /\ TypeTable /\ TypeFlow /\ TypeReports
  /\ PWaiting /\ PAsked /\ PWays /\ PJobs /\ PSound /\ PPermits
  /\ I!OverOnlyIfPinned

LEMMA TypeParts == I!TypeOK <=> TypeCache /\ TypeTable /\ TypeFlow /\ TypeReports
<1> QED  BY Zenon DEF I!TypeOK, TypeCache, TypeTable, TypeFlow, TypeReports

Stages == {"bytes", "permit", "decode", "done"}
Payloads == {"raster", "vector", "failed"}
Moved(j, stage, payload) == [j EXCEPT !.stage = stage, !.payload = payload]

LEMMA JobType ==
  ASSUME NEW j \in I!Job
  PROVE  /\ j.kind \in Kinds /\ j.name \in I!Names /\ j.size \in 0..Full /\ j.n \in 0..MaxActs
         /\ j.stage \in Stages /\ j.payload \in Payloads
         /\ \A k, x : (j \in Of(k, x)) <=> (j.kind = k /\ j.name = x)
<1>1. /\ j.kind \in Kinds /\ j.name \in I!Names /\ j.size \in 0..Full /\ j.n \in 0..MaxActs
      /\ j.stage \in Stages /\ j.payload \in Payloads
  BY DEF I!Job, Kinds, Stages, Payloads
<1>2. \A k, x : (j \in Of(k, x)) <=> (j.kind = k /\ j.name = x)
  BY DEF Of
<1> QED  BY <1>1, <1>2

LEMMA MovedType ==
  ASSUME NEW j \in I!Job, NEW stage \in Stages, NEW payload \in Payloads
  PROVE  LET i == Moved(j, stage, payload)
         IN  /\ i \in I!Job
             /\ i.kind = j.kind /\ i.name = j.name /\ i.size = j.size /\ i.n = j.n
             /\ i.stage = stage /\ i.payload = payload
             /\ \A k, x : (i \in Of(k, x)) <=> (j \in Of(k, x))
             /\ (i \in Decoding) <=> (stage = "decode")
<1> DEFINE i == Moved(j, stage, payload)
<1>1. i \in I!Job
  BY DEF Moved, I!Job, Stages, Payloads
<1>2. /\ i.kind = j.kind /\ i.name = j.name /\ i.size = j.size /\ i.n = j.n
      /\ i.stage = stage /\ i.payload = payload
  BY DEF Moved, I!Job
<1>3. \A k, x : (i \in Of(k, x)) <=> (j \in Of(k, x))
  <2> HIDE DEF i
  <2> QED  BY <1>1, <1>2, JobType
<1>4. (i \in Decoding) <=> (stage = "decode")
  <2> HIDE DEF i
  <2> QED  BY <1>1, <1>2 DEF Decoding
<1> QED  BY <1>1, <1>2, <1>3, <1>4

(* A task that goes on is the task it was, on its way to the same answer.  *)
LEMMA GoesOn ==
  ASSUME TypeFlow, PJobs, NEW j \in i_jobs, NEW stage \in Stages, NEW payload \in Payloads,
         I!Goes(j, stage, payload), UNCHANGED <<i_completions, i_turn, i_refining, i_acts>>
  PROVE  /\ i_jobs' \subseteq I!Job /\ PJobs'
         /\ \A k, x : Way(k, x)' = Way(k, x)
         /\ Cardinality(i_jobs' \cap Decoding)
              = Cardinality(i_jobs \cap Decoding) - One(j.stage, {"decode"})
                  + One(stage, {"decode"})
         /\ Cardinality(i_jobs \cap Decoding) \in Nat
<1> DEFINE i == Moved(j, stage, payload)
<1>1. /\ i_jobs \subseteq I!Job /\ j \in I!Job /\ i_completions \in Seq(I!Completion)
      /\ i_turn \in Seq(I!Completion) /\ IsFiniteSet(i_jobs)
  BY DEF TypeFlow, PJobs
<1>2. /\ i \in I!Job
      /\ i.kind = j.kind /\ i.name = j.name /\ i.size = j.size /\ i.n = j.n
      /\ i.stage = stage /\ i.payload = payload
      /\ \A k, x : (i \in Of(k, x)) <=> (j \in Of(k, x))
      /\ (i \in Decoding) <=> (stage = "decode")
  BY <1>1, MovedType
<1>3. i_jobs' = (i_jobs \ {j}) \cup {i}
  BY DEF I!Goes, Moved
<1> HIDE DEF i
<1>4. i \notin i_jobs \ {j}
  BY <1>2 DEF PJobs
<1>5. i_jobs' \subseteq I!Job
  BY <1>1, <1>2, <1>3
<1>6. IsFiniteSet(i_jobs \ {j}) /\ IsFiniteSet(i_jobs')
  BY <1>1, <1>3, FS_RemoveElement, FS_AddElement
<1>7. PJobs'
  <2>1. \A k \in i_jobs' : \E h \in i_jobs :
          /\ k.kind = h.kind /\ k.name = h.name /\ k.size = h.size /\ k.n = h.n
          /\ k = i \/ k = h
          /\ h = j => k = i
    BY <1>2, <1>3
  <2>2. \A k \in i_jobs' :
       /\ (k.kind = "document") <=> (k.name \in Documents)
       /\ k.kind = "document" => k.n < i_acts'
       /\ k.kind # "document" => k.n = 0
       /\ k.kind = "load" => k.size \in I!Sizes
       /\ k.kind = "refine" => k.size = i_refining'[k.name] /\ k.size \in I!Sizes
    <3> SUFFICES ASSUME NEW k \in i_jobs' PROVE
       /\ (k.kind = "document") <=> (k.name \in Documents)
       /\ k.kind = "document" => k.n < i_acts'
       /\ k.kind # "document" => k.n = 0
       /\ k.kind = "load" => k.size \in I!Sizes
       /\ k.kind = "refine" => k.size = i_refining'[k.name] /\ k.size \in I!Sizes
      OBVIOUS
    <3>1. PICK h \in i_jobs : k.kind = h.kind /\ k.name = h.name /\ k.size = h.size /\ k.n = h.n
      BY <2>1
    <3> QED  BY <3>1 DEF PJobs
  <2>3. \A k, l \in i_jobs' : k.kind = l.kind /\ k.name = l.name /\ k.n = l.n => k = l
    <3> SUFFICES ASSUME NEW k \in i_jobs', NEW l \in i_jobs',
                        k.kind = l.kind /\ k.name = l.name /\ k.n = l.n
                 PROVE  k = l
      OBVIOUS
    <3>1. PICK g \in i_jobs : /\ k.kind = g.kind /\ k.name = g.name /\ k.n = g.n
                              /\ k = i \/ k = g
                              /\ g = j => k = i
      BY <2>1
    <3>2. PICK h \in i_jobs : /\ l.kind = h.kind /\ l.name = h.name /\ l.n = h.n
                              /\ l = i \/ l = h
                              /\ h = j => l = i
      BY <2>1
    <3>3. g = h
      BY ZenonT(60), <3>1, <3>2 DEF PJobs
    <3>4. CASE g = j
      BY <3>1, <3>2, <3>3, <3>4
    <3>5. CASE g # j
      <4>1. ~(i.kind = g.kind /\ i.name = g.name /\ i.n = g.n)
        BY <1>2, <3>5 DEF PJobs
      <4> QED  BY <3>1, <3>2, <3>3, <4>1
    <3> QED  BY <3>4, <3>5
  <2> QED  BY <1>6, <2>2, <2>3 DEF PJobs
<1>8. \A k, x : Way(k, x)' = Way(k, x)
  <2> SUFFICES ASSUME NEW k, NEW x PROVE Way(k, x)' = Way(k, x)
    OBVIOUS
  <2>1. WayOf((i_jobs \ {j}) \cup {i}, i_completions, i_turn, k, x)
          = WayOf(i_jobs, i_completions, i_turn, k, x)
    <3>1. (i \in Of(k, x)) <=> (j \in Of(k, x))
      BY <1>2
    <3>2. /\ IsFiniteSet(i_jobs) /\ i_completions \in Seq(I!Completion)
          /\ i_turn \in Seq(I!Completion) /\ j \in i_jobs
      BY <1>1
    <3> QED  BY <3>1, <3>2, <1>4, WayGoes
  <2>2. Way(k, x)' = WayOf(i_jobs', i_completions', i_turn', k, x)
    BY DEF Way, WayOf, Of, Replies
  <2> QED  BY <1>3, <2>1, <2>2 DEF Way
<1>9. Cardinality((i_jobs \ {j}) \cap Decoding) = Cardinality(i_jobs \cap Decoding) - One(j, Decoding)
  BY <1>1, CountedLess
<1>10. Cardinality(((i_jobs \ {j}) \cup {i}) \cap Decoding)
         = Cardinality((i_jobs \ {j}) \cap Decoding) + One(i, Decoding)
  BY <1>4, <1>6, CountedMore
<1>11. One(j, Decoding) = One(j.stage, {"decode"}) /\ One(i, Decoding) = One(stage, {"decode"})
  BY <1>1, <1>2 DEF One, Decoding
<1>12. Cardinality(i_jobs \cap Decoding) \in Nat
  BY <1>1, Counted
<1> QED  BY <1>3, <1>5, <1>7, <1>8, <1>9, <1>10, <1>11, <1>12

LEMMA CacheStays ==
  ASSUME TypeCache, I!OverOnlyIfPinned, UNCHANGED I!cache
  PROVE  TypeCache' /\ I!OverOnlyIfPinned'
<1>1. /\ i_bitmaps' = i_bitmaps /\ i_older' = i_older /\ i_pinned' = i_pinned /\ i_budget' = i_budget
      /\ i_fresh' = i_fresh
  BY DEF I!cache
<1>2. I!Resident' = I!Resident
  BY <1>1 DEF I!Resident
<1>3. TypeCache'
  BY <1>1, <1>2 DEF TypeCache
<1>4. I!OverOnlyIfPinned'
  BY <1>1, <1>2 DEF I!OverOnlyIfPinned, I!Bytes
<1> QED  BY <1>3, <1>4

LEMMA TableStays ==
  ASSUME TypeTable, PWaiting, UNCHANGED I!table
  PROVE  /\ TypeTable' /\ PWaiting'
         /\ \A k, x : Owed(k, x)' = Owed(k, x)
<1>1. i_entries' = i_entries /\ i_waiters' = i_waiters /\ i_refining' = i_refining /\ i_requested' = i_requested
  BY DEF I!table
<1> QED  BY <1>1 DEF TypeTable, PWaiting, Owed, I!Tally

LEMMA AskedStays ==
  ASSUME PAsked, UNCHANGED <<i_waiters, i_requested, I!reports>>
  PROVE  PAsked'
<1>1. i_waiters' = i_waiters /\ i_requested' = i_requested /\ i_asked' = i_asked /\ i_told' = i_told
  BY DEF I!reports
<1> QED  BY <1>1 DEF PAsked, I!Tally

LEMMA SoundStays ==
  ASSUME PSound, UNCHANGED <<i_completions, i_turn, i_refining>>
  PROVE  PSound'
<1> QED  BY DEF PSound, Sound

LEMMA WaysStay ==
  ASSUME PWays, \A k, x : Way(k, x)' = Way(k, x), \A k, x : Owed(k, x)' = Owed(k, x),
         i_lost' = i_lost
  PROVE  PWays'
<1>1. Kinds' = Kinds /\ \A k : Heard(k)' = Heard(k)
  BY DEF Kinds, Heard
<1> QED  BY <1>1 DEF PWays

(* GetBytes, AcquireDecode, Decode.                                        *)
LEMMA GoesOnStep ==
  ASSUME PInv, NEW j \in i_jobs, NEW stage \in Stages, NEW payload \in Payloads,
         I!Goes(j, stage, payload), UNCHANGED <<I!cache, I!table, i_lost, I!channel, I!reports, i_acts>>,
         i_permits' = i_permits + One(j.stage, {"decode"}) - One(stage, {"decode"}),
         i_permits' \in Nat
  PROVE  PInv'
<1>1. /\ TypeCache /\ TypeTable /\ TypeFlow /\ TypeReports /\ PWaiting /\ PAsked /\ PWays
      /\ PJobs /\ PSound /\ PPermits /\ I!OverOnlyIfPinned
  BY DEF PInv
<1>2. /\ i_completions' = i_completions /\ i_turn' = i_turn /\ i_refining' = i_refining /\ i_acts' = i_acts
      /\ i_waiters' = i_waiters /\ i_requested' = i_requested /\ i_asked' = i_asked /\ i_told' = i_told
      /\ i_lost' = i_lost
  BY DEF I!table, I!channel, I!reports
<1>3. /\ i_jobs' \subseteq I!Job /\ PJobs'
      /\ \A k, x : Way(k, x)' = Way(k, x)
      /\ Cardinality(i_jobs' \cap Decoding)
           = Cardinality(i_jobs \cap Decoding) - One(j.stage, {"decode"})
               + One(stage, {"decode"})
      /\ Cardinality(i_jobs \cap Decoding) \in Nat
  <2>1. UNCHANGED <<i_completions, i_turn, i_refining, i_acts>>
    BY <1>2
  <2> QED  BY <1>1, <2>1, GoesOn
<1>4. TypeCache' /\ I!OverOnlyIfPinned'
  BY <1>1, CacheStays
<1>5. TypeTable' /\ PWaiting' /\ \A k, x : Owed(k, x)' = Owed(k, x)
  BY <1>1, TableStays
<1>6. PAsked'
  BY <1>1, <1>2, AskedStays DEF I!reports
<1>7. PSound'
  BY <1>1, <1>2, SoundStays
<1>8. PWays'
  BY <1>1, <1>2, <1>3, <1>5, WaysStay
<1>9. PPermits' /\ i_permits' \in 0..Permits
  <2>1. /\ i_permits + Cardinality(i_jobs \cap Decoding) = Permits /\ i_permits \in Nat
        /\ One(j.stage, {"decode"}) \in Nat /\ One(stage, {"decode"}) \in Nat /\ Permits \in Nat
        /\ Cardinality(i_jobs' \cap Decoding) \in Nat
    <3>1. IsFiniteSet(i_jobs')
      BY <1>3 DEF PJobs
    <3>2. Cardinality(i_jobs' \cap Decoding) \in Nat
      BY <3>1, Counted
    <3> QED  BY <1>1, <3>2, Given DEF PPermits, One, TypeFlow
  <2>2. i_permits' + Cardinality(i_jobs' \cap Decoding) = Permits /\ i_permits' \in 0..Permits
    BY <2>1, <1>3
  <2>3. Decoding' = Decoding
    BY DEF Decoding
  <2> QED  BY <2>2, <2>3 DEF PPermits
<1>10. TypeFlow'
  BY <1>1, <1>2, <1>3, <1>9 DEF TypeFlow
<1>11. TypeReports'
  BY <1>1, <1>2 DEF TypeReports
<1> QED  BY <1>3, <1>4, <1>5, <1>6, <1>7, <1>8, <1>9, <1>10, <1>11 DEF PInv

LEMMA GetBytesStep ==
  ASSUME PInv, NEW j \in i_jobs, I!GetBytes(j)
  PROVE  PInv'
<1>1. j \in I!Job /\ i_permits \in Nat
  BY DEF PInv, TypeFlow
<1>2. PICK stage \in {"permit", "done"}, payload \in Payloads : I!Goes(j, stage, payload)
  BY <1>1, JobType DEF I!GetBytes, Payloads
<1>3. i_permits' = i_permits + One(j.stage, {"decode"}) - One(stage, {"decode"})
  BY <1>1, <1>2 DEF I!GetBytes, One
<1>4. UNCHANGED <<I!cache, I!table, i_lost, I!channel, I!reports, i_acts>> /\ i_permits' \in Nat
  BY <1>1 DEF I!GetBytes
<1>5. stage \in Stages
  BY <1>2 DEF Stages
<1> QED  BY <1>2, <1>3, <1>4, <1>5, GoesOnStep

LEMMA AcquireDecodeStep ==
  ASSUME PInv, NEW j \in i_jobs, I!AcquireDecode(j)
  PROVE  PInv'
<1>1. j \in I!Job /\ i_permits \in Nat
  BY DEF PInv, TypeFlow
<1>2. I!Goes(j, "decode", j.payload) /\ j.payload \in Payloads /\ "decode" \in Stages
  BY <1>1, JobType DEF I!AcquireDecode, Stages
<1>3. /\ i_permits' = i_permits + One(j.stage, {"decode"}) - One("decode", {"decode"})
      /\ i_permits' \in Nat
  BY <1>1 DEF I!AcquireDecode, One
<1>4. UNCHANGED <<I!cache, I!table, i_lost, I!channel, I!reports, i_acts>>
  BY DEF I!AcquireDecode
<1> QED  BY <1>2, <1>3, <1>4, GoesOnStep

LEMMA DecodeStep ==
  ASSUME PInv, NEW j \in i_jobs, I!Decode(j)
  PROVE  PInv'
<1>1. j \in I!Job /\ i_permits \in Nat
  BY DEF PInv, TypeFlow
<1>2. PICK payload \in Payloads : I!Goes(j, "done", payload)
  BY <1>1, JobType DEF I!Decode, Payloads
<1>3. /\ i_permits' = i_permits + One(j.stage, {"decode"}) - One("done", {"decode"})
      /\ i_permits' \in Nat /\ "done" \in Stages
  BY <1>1 DEF I!Decode, One, Stages
<1>4. UNCHANGED <<I!cache, I!table, i_lost, I!channel, I!reports, i_acts>>
  BY DEF I!Decode
<1> QED  BY <1>2, <1>3, <1>4, GoesOnStep

(* A task that ends.                                                       *)
LEMMA JobEnds ==
  ASSUME TypeFlow, PJobs, NEW j \in i_jobs, i_jobs' = i_jobs \ {j}, UNCHANGED <<i_refining, i_acts>>
  PROVE  /\ i_jobs' \subseteq I!Job /\ PJobs'
         /\ Cardinality(i_jobs' \cap Decoding)
              = Cardinality(i_jobs \cap Decoding) - One(j.stage, {"decode"})
         /\ Cardinality(i_jobs' \cap Decoding) \in Nat
         /\ Cardinality(i_jobs \cap Decoding) \in Nat
<1>1. i_jobs \subseteq I!Job /\ j \in I!Job /\ IsFiniteSet(i_jobs)
  BY DEF TypeFlow, PJobs
<1>2. IsFiniteSet(i_jobs')
  BY <1>1, FS_RemoveElement
<1>3. i_jobs' \subseteq I!Job /\ PJobs'
  BY <1>1, <1>2 DEF PJobs
<1>4. Cardinality((i_jobs \ {j}) \cap Decoding)
        = Cardinality(i_jobs \cap Decoding) - One(j, Decoding)
  BY <1>1, CountedLess
<1>5. One(j, Decoding) = One(j.stage, {"decode"})
  BY <1>1 DEF One, Decoding
<1>6. Cardinality(i_jobs' \cap Decoding) \in Nat /\ Cardinality(i_jobs \cap Decoding) \in Nat
  BY <1>1, <1>2, Counted
<1> QED  BY <1>3, <1>4, <1>5, <1>6

LEMMA CompletionSound ==
  ASSUME TypeFlow, TypeTable, PJobs, NEW j \in i_jobs
  PROVE  LET c == I!CompletionOf(j)
         IN  /\ c \in I!Completion
             /\ (c.kind = "requested") <=> (c.name \in Documents)
             /\ c.kind = "loaded" => c.size \in I!Sizes
             /\ c.kind \in I!RefineAnswers => c.size \in I!Sizes /\ c.size = i_refining[c.name]
             /\ \A k \in Kinds : \A x : (c \in Replies(k, x)) <=> (j \in Of(k, x))
<1> DEFINE c == I!CompletionOf(j)
<1>1. j \in I!Job
  BY DEF TypeFlow
<1>2. c.name = j.name /\ c.size = j.size
  BY DEF I!CompletionOf
<1>3. /\ j.kind = "document" => c.kind = "requested"
      /\ j.kind = "load" => c.kind \in I!LoadAnswers
      /\ j.kind = "refine" => c.kind \in I!RefineAnswers
  <2>1. j.kind \in Kinds /\ j.payload \in Payloads
    BY <1>1, JobType
  <2>2. /\ j.kind = "document" => c.kind = "requested"
        /\ j.kind = "load" => c.kind = [raster |-> "loaded", vector |-> "parsed",
                                       failed |-> "failed"][j.payload]
        /\ j.kind = "refine" =>
             c.kind = IF j.payload = "failed" THEN "refine failed" ELSE "refined"
    BY <2>1 DEF I!CompletionOf, Kinds
  <2>3. \A p \in Payloads : [raster |-> "loaded", vector |-> "parsed",
                              failed |-> "failed"][p] \in I!LoadAnswers
    BY DEF Payloads, I!LoadAnswers
  <2> HIDE DEF c
  <2>4. j.kind = "load" => c.kind \in I!LoadAnswers
    BY <2>1, <2>2, <2>3
  <2>5. j.kind = "refine" => c.kind \in I!RefineAnswers
    <3>1. j.kind = "refine" => c.kind = "refine failed" \/ c.kind = "refined"
      BY <2>2
    <3> QED  BY <3>1 DEF I!RefineAnswers
  <2> QED  BY <2>2, <2>4, <2>5
<1>4. PICK q : c = [name |-> j.name, size |-> j.size, kind |-> q]
  BY DEF I!CompletionOf
<1>5. j.kind \in Kinds /\ j.name \in I!Names /\ j.size \in 0..Full
  BY <1>1, JobType
<1> HIDE DEF c
<1>6. c \in I!Completion
  <2>1. c.kind = q
    BY <1>4
  <2>2. q \in {"loaded", "parsed", "requested", "refined", "failed", "refine failed"}
    <3> HIDE <1>4
    <3> QED  BY <1>3, <1>5, <2>1 DEF I!LoadAnswers, I!RefineAnswers, Kinds
  <2> QED  BY <1>4, <1>5, <2>2 DEF I!Completion
<1>7. \A k \in Kinds : \A x : (c \in Replies(k, x)) <=> (j \in Of(k, x))
  <2> SUFFICES ASSUME NEW k \in Kinds, NEW x
               PROVE  (c \in Replies(k, x)) <=> (j \in Of(k, x))
    OBVIOUS
  <2>1. (j \in Of(k, x)) <=> (j.kind = k /\ j.name = x)
    BY <1>1, JobType
  <2>2. \A kinds : (c \in I!Answers(kinds, x)) <=> (c.kind \in kinds /\ j.name = x)
    BY <1>4, <1>5 DEF I!Answers
  <2>3. (c \in Replies(k, x)) <=>
          /\ c.kind \in IF k = "load" THEN I!LoadAnswers
                       ELSE IF k = "refine" THEN I!RefineAnswers ELSE {"requested"}
          /\ j.name = x
    BY <2>2 DEF Replies
  <2>4. CASE j.kind = "document"
    BY <1>3, <2>1, <2>3, <2>4 DEF Kinds, I!LoadAnswers, I!RefineAnswers
  <2>5. CASE j.kind = "load"
    BY <1>3, <2>1, <2>3, <2>5 DEF Kinds, I!LoadAnswers, I!RefineAnswers
  <2>6. CASE j.kind = "refine"
    BY <1>3, <2>1, <2>3, <2>6 DEF Kinds, I!LoadAnswers, I!RefineAnswers
  <2> QED  BY <1>5, <2>4, <2>5, <2>6 DEF Kinds
<1>8. /\ (c.kind = "requested") <=> (c.name \in Documents)
      /\ c.kind = "loaded" => c.size \in I!Sizes
      /\ c.kind \in I!RefineAnswers => c.size \in I!Sizes /\ c.size = i_refining[c.name]
  <2>1. /\ (j.kind = "document") <=> (j.name \in Documents)
        /\ j.kind = "load" => j.size \in I!Sizes
        /\ j.kind = "refine" => j.size = i_refining[j.name] /\ j.size \in I!Sizes
    BY DEF PJobs
  <2> QED  BY <1>2, <1>3, <1>5, <2>1 DEF Kinds, I!LoadAnswers, I!RefineAnswers
<1> QED  BY <1>6, <1>7, <1>8 DEF c

LEMMA CompleteStep ==
  ASSUME PInv, NEW j \in i_jobs, I!Complete(j)
  PROVE  PInv'
<1> DEFINE c == I!CompletionOf(j)
<1>1. /\ TypeCache /\ TypeTable /\ TypeFlow /\ TypeReports /\ PWaiting /\ PAsked /\ PWays
      /\ PJobs /\ PSound /\ PPermits /\ I!OverOnlyIfPinned
  BY DEF PInv
<1>2. /\ i_completions' = Append(i_completions, c) /\ i_turn' = i_turn /\ i_refining' = i_refining
      /\ i_acts' = i_acts /\ i_waiters' = i_waiters /\ i_requested' = i_requested /\ i_asked' = i_asked
      /\ i_told' = i_told /\ i_lost' = i_lost /\ i_permits' = i_permits /\ i_jobs' = i_jobs \ {j}
      /\ j.stage = "done"
  BY DEF I!Complete, I!table, I!reports
<1>3. UNCHANGED I!cache /\ UNCHANGED I!table
  BY DEF I!Complete
<1>4. /\ c \in I!Completion
      /\ (c.kind = "requested") <=> (c.name \in Documents)
      /\ c.kind = "loaded" => c.size \in I!Sizes
      /\ c.kind \in I!RefineAnswers => c.size \in I!Sizes /\ c.size = i_refining[c.name]
      /\ \A k \in Kinds : \A x : (c \in Replies(k, x)) <=> (j \in Of(k, x))
  BY <1>1, CompletionSound
<1> HIDE DEF c
<1>5. /\ i_jobs' \subseteq I!Job /\ PJobs'
      /\ Cardinality(i_jobs' \cap Decoding)
           = Cardinality(i_jobs \cap Decoding) - One(j.stage, {"decode"})
      /\ Cardinality(i_jobs \cap Decoding) \in Nat
  <2>1. UNCHANGED <<i_refining, i_acts>>
    BY <1>2
  <2> QED  BY <1>1, <1>2, <2>1, JobEnds
<1>6. /\ IsFiniteSet(i_jobs) /\ i_completions \in Seq(I!Completion) /\ i_turn \in Seq(I!Completion)
  BY <1>1 DEF PJobs, TypeFlow
<1>7. TypeCache' /\ I!OverOnlyIfPinned'
  BY <1>1, <1>3, CacheStays
<1>8. TypeTable' /\ PWaiting' /\ \A k, x : Owed(k, x)' = Owed(k, x)
  BY <1>1, <1>3, TableStays
<1>9. PAsked'
  BY <1>1, <1>2, AskedStays DEF I!reports
<1>10. PSound'
  <2>1. /\ Len(Append(i_completions, c)) = Len(i_completions) + 1 /\ Len(i_completions) \in Nat
        /\ \A i \in 1..Len(i_completions) : Append(i_completions, c)[i] = i_completions[i]
        /\ Append(i_completions, c)[Len(i_completions) + 1] = c
    BY <1>4, <1>6
  <2>2. Sound(i_completions)'
    <3> SUFFICES ASSUME NEW i \in 1..Len(i_completions')
                 PROVE  /\ (i_completions'[i].kind = "requested") <=> (i_completions'[i].name \in Documents)
                        /\ i_completions'[i].kind = "loaded" => i_completions'[i].size \in I!Sizes
                        /\ i_completions'[i].kind \in I!RefineAnswers =>
                             /\ i_completions'[i].size \in I!Sizes
                             /\ i_completions'[i].size = i_refining'[i_completions'[i].name]
      BY DEF Sound, I!Sizes, I!RefineAnswers
    <3>1. CASE i \in 1..Len(i_completions)
      <4>1. i_completions'[i] = i_completions[i]
        BY <1>2, <2>1, <3>1
      <4>2. Sound(i_completions)
        BY <1>1 DEF PSound
      <4> QED  BY <1>2, <3>1, <4>1, <4>2 DEF Sound
    <3>2. CASE i = Len(i_completions) + 1
      <4>1. i_completions'[i] = c
        BY <1>2, <2>1, <3>2
      <4> QED  BY <1>2, <1>4, <4>1
    <3> QED  BY <1>2, <2>1, <3>1, <3>2
  <2>3. Sound(i_turn)'
    BY <1>1, <1>2 DEF PSound, Sound
  <2> QED  BY <2>2, <2>3 DEF PSound
<1>11. PWays'
  <2>1. \A k \in Kinds : \A x : Way(k, x)' = Way(k, x)
    <3> SUFFICES ASSUME NEW k \in Kinds, NEW x PROVE Way(k, x)' = Way(k, x)
      OBVIOUS
    <3>1. (c \in Replies(k, x)) <=> (j \in Of(k, x))
      BY <1>4
    <3>2. WayOf(i_jobs \ {j}, Append(i_completions, c), i_turn, k, x)
            = WayOf(i_jobs, i_completions, i_turn, k, x)
      BY <1>4, <1>6, <3>1, WayDone
    <3>3. Way(k, x)' = WayOf(i_jobs', i_completions', i_turn', k, x)
      BY DEF Way, WayOf, Of, Replies
    <3> QED  BY <1>2, <3>2, <3>3 DEF Way
  <2>2. Kinds' = Kinds /\ \A k : Heard(k)' = Heard(k)
    BY DEF Kinds, Heard
  <2> QED  BY <1>1, <1>2, <1>8, <2>1, <2>2 DEF PWays
<1>12. PPermits'
  <2>1. One(j.stage, {"decode"}) = 0 /\ Decoding' = Decoding
    BY <1>2 DEF One, Decoding
  <2> QED  BY <1>1, <1>2, <1>5, <2>1 DEF PPermits
<1>13. TypeFlow' /\ TypeReports'
  BY <1>1, <1>2, <1>4, <1>5, <1>6 DEF TypeFlow, TypeReports
<1> QED  BY <1>5, <1>7, <1>8, <1>9, <1>10, <1>11, <1>12, <1>13 DEF PInv

LEMMA RefusedStep ==
  ASSUME PInv, NEW j \in i_jobs, I!Refused(j)
  PROVE  PInv'
<1>1. /\ TypeCache /\ TypeTable /\ TypeFlow /\ TypeReports /\ PWaiting /\ PAsked /\ PWays
      /\ PJobs /\ PSound /\ PPermits /\ I!OverOnlyIfPinned
  BY DEF PInv
<1>2. /\ i_completions' = i_completions /\ i_turn' = i_turn /\ i_refining' = i_refining
      /\ i_acts' = i_acts /\ i_waiters' = i_waiters /\ i_requested' = i_requested /\ i_asked' = i_asked
      /\ i_told' = i_told /\ i_lost' = i_lost \cup {j.name} /\ i_jobs' = i_jobs \ {j}
      /\ i_permits' = IF j.stage = "decode" THEN i_permits + 1 ELSE i_permits
  BY DEF I!Refused, I!table, I!reports, I!channel
<1>3. UNCHANGED I!cache /\ UNCHANGED I!table
  BY DEF I!Refused
<1>4. /\ i_jobs' \subseteq I!Job /\ PJobs'
      /\ Cardinality(i_jobs' \cap Decoding)
           = Cardinality(i_jobs \cap Decoding) - One(j.stage, {"decode"})
      /\ Cardinality(i_jobs' \cap Decoding) \in Nat
      /\ Cardinality(i_jobs \cap Decoding) \in Nat
  <2>1. UNCHANGED <<i_refining, i_acts>>
    BY <1>2
  <2> QED  BY <1>1, <1>2, <2>1, JobEnds
<1>5. /\ IsFiniteSet(i_jobs) /\ i_completions \in Seq(I!Completion) /\ i_turn \in Seq(I!Completion)
      /\ j \in I!Job /\ j.name \in I!Names /\ IsFiniteSet(i_jobs')
  BY <1>1, <1>4, JobType DEF PJobs, TypeFlow
<1>6. TypeCache' /\ I!OverOnlyIfPinned'
  BY <1>1, <1>3, CacheStays
<1>7. TypeTable' /\ PWaiting' /\ \A k, x : Owed(k, x)' = Owed(k, x)
  BY <1>1, <1>3, TableStays
<1>8. PAsked'
  BY <1>1, <1>2, AskedStays DEF I!reports
<1>9. PSound'
  BY <1>1, <1>2, SoundStays
<1>10. PWays'
  <2> SUFFICES ASSUME NEW k \in Kinds, NEW x \in Heard(k)
               PROVE  /\ Way(k, x)' <= Owed(k, x)
                      /\ x \notin i_lost' => Way(k, x)' = Owed(k, x)
    BY <1>7 DEF PWays, Kinds, Heard
  <2>1. Way(k, x) = Way(k, x)' + One(j, Of(k, x))
    <3>1. WayOf(i_jobs, i_completions, i_turn, k, x)
            = WayOf(i_jobs \ {j}, i_completions, i_turn, k, x) + One(j, Of(k, x))
      BY <1>5, WayLost
    <3>2. Way(k, x)' = WayOf(i_jobs', i_completions', i_turn', k, x)
      BY DEF Way, WayOf, Of, Replies
    <3> QED  BY <1>2, <3>1, <3>2 DEF Way
  <2>2. Way(k, x)' \in Nat
    <3>1. WayOf(i_jobs', i_completions, i_turn, k, x) \in Nat
      BY <1>5, WayNat
    <3>2. Way(k, x)' = WayOf(i_jobs', i_completions', i_turn', k, x)
      BY DEF Way, WayOf, Of, Replies
    <3> QED  BY <1>2, <3>1, <3>2
  <2>3. /\ One(j, Of(k, x)) \in Nat
        /\ j.name # x => One(j, Of(k, x)) = 0
    BY <1>5, JobType DEF One
  <2>4. /\ Way(k, x) <= Owed(k, x)
        /\ x \notin i_lost => Way(k, x) = Owed(k, x)
    BY <1>1 DEF PWays
  <2>5. Owed(k, x) \in Nat
    <3>1. I!Tally(i_requested, {x} \X Views) \in Nat
      BY <1>1, HitsFinite DEF TypeTable
    <3> QED  BY <3>1 DEF Owed
  <2>6. Way(k, x)' <= Owed(k, x)
    BY <2>1, <2>2, <2>3, <2>4, <2>5
  <2>7. ASSUME x \notin i_lost' PROVE Way(k, x)' = Owed(k, x)
    <3>1. x \notin i_lost /\ j.name # x
      BY <1>2, <2>7
    <3> QED  BY <2>1, <2>2, <2>3, <2>4, <3>1
  <2> QED  BY <2>6, <2>7
<1>11. PPermits' /\ i_permits' \in 0..Permits
  <2>1. /\ i_permits + Cardinality(i_jobs \cap Decoding) = Permits /\ i_permits \in Nat
        /\ Permits \in Nat
        /\ i_permits' = i_permits + One(j.stage, {"decode"}) /\ One(j.stage, {"decode"}) \in Nat
    BY <1>1, <1>2, Given DEF PPermits, TypeFlow, One
  <2>2. i_permits' + Cardinality(i_jobs' \cap Decoding) = Permits /\ i_permits' \in 0..Permits
    BY <2>1, <1>4
  <2>3. Decoding' = Decoding
    BY DEF Decoding
  <2> QED  BY <2>2, <2>3 DEF PPermits
<1>12. TypeFlow' /\ TypeReports'
  BY <1>1, <1>2, <1>4, <1>5, <1>11 DEF TypeFlow, TypeReports
<1> QED  BY <1>4, <1>6, <1>7, <1>8, <1>9, <1>10, <1>11, <1>12 DEF PInv

LEMMA ServiceStep ==
  ASSUME PInv, I!Service
  PROVE  PInv'
<1>1. /\ TypeCache /\ TypeTable /\ TypeFlow /\ TypeReports /\ PWaiting /\ PAsked /\ PWays
      /\ PJobs /\ PSound /\ PPermits /\ I!OverOnlyIfPinned
  BY DEF PInv
<1>2. /\ i_completions' = <<>> /\ i_turn' = i_completions /\ i_turn = <<>> /\ i_refining' = i_refining
      /\ i_acts' = i_acts /\ i_waiters' = i_waiters /\ i_requested' = i_requested /\ i_asked' = i_asked
      /\ i_told' = i_told /\ i_lost' = i_lost /\ i_jobs' = i_jobs /\ i_permits' = i_permits
  BY DEF I!Service, I!table, I!reports, I!driver
<1>3. UNCHANGED I!cache /\ UNCHANGED I!table
  BY DEF I!Service
<1>4. IsFiniteSet(i_jobs) /\ i_completions \in Seq(I!Completion) /\ <<>> \in Seq(I!Completion)
  BY <1>1 DEF PJobs, TypeFlow
<1>5. TypeCache' /\ I!OverOnlyIfPinned'
  BY <1>1, <1>3, CacheStays
<1>6. TypeTable' /\ PWaiting' /\ \A k, x : Owed(k, x)' = Owed(k, x)
  BY <1>1, <1>3, TableStays
<1>7. PAsked'
  BY <1>1, <1>2, AskedStays DEF I!reports
<1>8. PSound'
  BY <1>1, <1>2 DEF PSound, Sound
<1>9. PWays'
  <2>1. \A k, x : Way(k, x)' = Way(k, x)
    <3> SUFFICES ASSUME NEW k, NEW x PROVE Way(k, x)' = Way(k, x)
      OBVIOUS
    <3>1. WayOf(i_jobs, <<>>, i_completions, k, x) = WayOf(i_jobs, i_completions, <<>>, k, x)
      BY <1>4, WayDrain
    <3>2. Way(k, x)' = WayOf(i_jobs', i_completions', i_turn', k, x)
      BY DEF Way, WayOf, Of, Replies
    <3> QED  BY <1>2, <3>1, <3>2 DEF Way
  <2> QED  BY <1>1, <1>2, <1>6, <2>1, WaysStay
<1>10. PJobs' /\ PPermits' /\ TypeFlow' /\ TypeReports'
  BY <1>1, <1>2, <1>4 DEF PJobs, PPermits, TypeFlow, TypeReports, Decoding
<1> QED  BY <1>5, <1>6, <1>7, <1>8, <1>9, <1>10 DEF PInv

-----------------------------------------------------------------------------
(* The cache.                                                              *)
Ordered(recency, those) ==
  /\ recency \subseteq those \X those
  /\ \A a, b \in those : <<a, b>> \in recency <=> a # b /\ <<b, a>> \notin recency
  /\ \A a, b, c \in those :
       <<a, b>> \in recency /\ <<b, c>> \in recency => <<a, c>> \in recency
Held(sizes) == {s \in Sources : sizes[s] # 0}
Kilobytes(sizes, those) == {b \in those \X I!Sizes : b[2] <= sizes[b[1]]}

LEMMA BytesType ==
  ASSUME NEW sizes, NEW those \in SUBSET Sources
  PROVE  /\ IsFiniteSet(Kilobytes(sizes, those))
         /\ I!Bytes(sizes, those) = Cardinality(Kilobytes(sizes, those))
         /\ I!Bytes(sizes, those) \in Nat
<1>1. IsFiniteSet(those)
  BY Given, FS_Subset
<1>2. IsFiniteSet(I!Sizes)
  BY Given, FS_Interval DEF I!Sizes
<1>3. IsFiniteSet(those \X I!Sizes)
  BY <1>1, <1>2, FS_Product
<1>4. IsFiniteSet(Kilobytes(sizes, those))
  BY <1>3, FS_Subset DEF Kilobytes
<1>5. I!Bytes(sizes, those) = Cardinality(Kilobytes(sizes, those))
  BY SameCounts DEF I!Bytes, Kilobytes
<1> QED  BY <1>4, <1>5, FS_CardinalityType

LEMMA BytesMono ==
  ASSUME NEW sizes, NEW those \in SUBSET Sources, NEW some \in SUBSET those
  PROVE  I!Bytes(sizes, some) <= I!Bytes(sizes, those)
<1>1. /\ IsFiniteSet(Kilobytes(sizes, those))
      /\ I!Bytes(sizes, those) = Cardinality(Kilobytes(sizes, those))
  BY BytesType
<1>2. I!Bytes(sizes, some) = Cardinality(Kilobytes(sizes, some))
  BY SameCounts DEF I!Bytes, Kilobytes
<1>3. Kilobytes(sizes, some) \subseteq Kilobytes(sizes, those)
  BY DEF Kilobytes
<1> QED  BY <1>1, <1>2, <1>3, FS_Subset

LEMMA BytesLeft ==
  ASSUME NEW sizes \in [Sources -> 0..Full], NEW gone \in SUBSET Sources
  PROVE  I!Bytes([s \in Sources |-> IF s \in gone THEN 0 ELSE sizes[s]], Sources)
           = I!Bytes(sizes, Sources) - I!Bytes(sizes, gone)
<1> DEFINE left == [s \in Sources |-> IF s \in gone THEN 0 ELSE sizes[s]]
           A == Kilobytes(sizes, Sources)
           B == Kilobytes(sizes, gone)
           C == Kilobytes(left, Sources)
<1>1. IsFiniteSet(A) /\ I!Bytes(sizes, Sources) = Cardinality(A)
  BY BytesType
<1>2. I!Bytes(sizes, gone) = Cardinality(B) /\ I!Bytes(left, Sources) = Cardinality(C)
  BY BytesType
<1>3. \A s \in Sources : left[s] = IF s \in gone THEN 0 ELSE sizes[s]
  OBVIOUS
<1>4. A \cap B = B
  BY DEF Kilobytes
<1>5. C = A \ B
  <2> HIDE DEF left
  <2>1. \A s \in Sources, n \in I!Sizes :
          /\ (<<s, n>> \in A) <=> (n <= sizes[s])
          /\ (<<s, n>> \in B) <=> (s \in gone /\ n <= sizes[s])
          /\ (<<s, n>> \in C) <=> (n <= left[s])
    BY DEF Kilobytes
  <2>2. \A n \in I!Sizes : n \in Nat /\ ~(n <= 0)
    BY Given DEF I!Sizes
  <2>3. \A s \in Sources, n \in I!Sizes : (<<s, n>> \in C) <=> (<<s, n>> \in A \ B)
    BY <1>3, <2>1, <2>2
  <2>4. \A b : b \in A \/ b \in C => \E s \in Sources, n \in I!Sizes : b = <<s, n>>
    BY DEF Kilobytes
  <2> HIDE DEF A, B, C
  <2> QED  BY <2>3, <2>4
<1> HIDE DEF A, B, C
<1>6. Cardinality(A \ B) = Cardinality(A) - Cardinality(A \cap B)
  BY <1>1, FS_Difference
<1>7. Cardinality(C) = Cardinality(A) - Cardinality(B)
  BY <1>4, <1>5, <1>6
<1> QED  BY <1>1, <1>2, <1>7

(* Of finitely many one was used first.                                    *)
LEMMA UsedFirst ==
  ASSUME NEW those, IsFiniteSet(those), NEW recency, Ordered(recency, those),
         NEW some \in SUBSET those, some # {}
  PROVE  \E s \in some : \A o \in some : <<o, s>> \notin recency
<1> DEFINE before(s) == {o \in some : <<o, s>> \in recency}
           T == {before(s) : s \in some}
<1>1. IsFiniteSet(some)
  BY FS_Subset
<1>2. T \subseteq FiniteSubsetsOf(some) /\ T # {}
  <2>1. \A s \in some : before(s) \in SUBSET some
    OBVIOUS
  <2>2. \A s \in some : IsFiniteSet(before(s))
    <3> HIDE DEF before
    <3> QED  BY <1>1, <2>1, FS_Subset
  <2> HIDE DEF before
  <2> QED  BY <2>1, <2>2 DEF FiniteSubsetsOf
<1>3. IsWellFoundedOn(StrictSubsetOrdering(some), FiniteSubsetsOf(some))
  BY FS_StrictSubsetOrderingWellFounded
<1>4. \E t \in T : \A u \in T : <<u, t>> \notin StrictSubsetOrdering(some)
  <2> HIDE DEF T
  <2> QED  BY <1>2, <1>3, WFMin
<1>5. PICK s \in some : \A o \in some :
                          <<before(o), before(s)>> \notin StrictSubsetOrdering(some)
  BY <1>4
<1>6. ASSUME NEW o \in some, <<o, s>> \in recency PROVE FALSE
  <2>1. before(o) \subseteq before(s)
    BY <1>6 DEF Ordered
  <2>2. o \in before(s) /\ o \notin before(o)
    BY <1>6 DEF Ordered
  <2>3. before(o) \subseteq some /\ before(s) \subseteq some
    OBVIOUS
  <2>4. before(o) # before(s)
    BY <2>2
  <2> HIDE DEF before
  <2>5. <<before(o), before(s)>> \in StrictSubsetOrdering(some)
    BY <2>1, <2>3, <2>4 DEF StrictSubsetOrdering
  <2> QED  BY <1>5, <2>5
<1> QED  BY <1>6

(* What trim_sparing leaves.                                               *)
LEMMA Trimmed ==
  ASSUME NEW sizes \in [Sources -> 0..Full], NEW recency, Ordered(recency, Held(sizes)),
         NEW pins \in SUBSET Sources, NEW limit \in Budgets, NEW spared \in SUBSET Sources,
         I!TrimmedTo(sizes, recency, pins, limit, spared)
  PROVE  /\ i_bitmaps' \in [Sources -> 0..Full] /\ Ordered(i_older', I!Resident')
         /\ i_pinned' = pins /\ i_budget' = limit
         /\ \A s \in pins \cup spared : i_bitmaps'[s] = sizes[s]
         /\ I!Bytes(i_bitmaps', Sources) > limit => I!Resident' \subseteq pins \cup spared
<1> DEFINE open == Held(sizes) \ (pins \cup spared)
           before(s) == {o \in open : <<o, s>> \in recency}
           gone == {s \in open : I!Bytes(sizes, Sources) > limit + I!Bytes(sizes, before(s))}
           left == [s \in Sources |-> IF s \in gone THEN 0 ELSE sizes[s]]
<1>1. I!Victims(sizes, recency, pins, limit, spared) = gone
  BY DEF I!Victims, I!Kept, Held
<1>2. /\ i_bitmaps' = left /\ i_older' = {p \in recency : p[1] \notin gone /\ p[2] \notin gone}
      /\ i_pinned' = pins /\ i_budget' = limit
  <2> HIDE DEF gone
  <2> QED  BY <1>1 DEF I!TrimmedTo
<1>3. gone \subseteq open /\ open \subseteq Sources /\ Held(sizes) \subseteq Sources
  BY DEF Held
<1>4. /\ left \in [Sources -> 0..Full]
      /\ \A s \in Sources : left[s] = IF s \in gone THEN 0 ELSE sizes[s]
  <2> HIDE DEF gone
  <2> QED  BY Given
<1>5. I!Resident' = Held(sizes) \ gone
  <2> HIDE DEF gone, left
  <2> QED  BY <1>2, <1>4 DEF I!Resident, Held
<1>6. Ordered(i_older', I!Resident')
  <2> HIDE DEF gone, left
  <2>1. \A a, b \in I!Resident' : (<<a, b>> \in i_older') <=> (<<a, b>> \in recency)
    BY <1>2, <1>5
  <2>2. i_older' \subseteq I!Resident' \X I!Resident'
    <3> SUFFICES ASSUME NEW p \in i_older' PROVE p \in I!Resident' \X I!Resident'
      OBVIOUS
    <3>1. p \in Held(sizes) \X Held(sizes) /\ p[1] \notin gone /\ p[2] \notin gone
      BY <1>2 DEF Ordered
    <3> QED  BY <3>1, <1>5
  <2>3. I!Resident' \subseteq Held(sizes)
    BY <1>5
  <2>4. \A a, b \in I!Resident' : <<a, b>> \in i_older' <=> a # b /\ <<b, a>> \notin i_older'
    BY <2>1, <2>3 DEF Ordered
  <2>5. \A a, b, c \in I!Resident' :
          <<a, b>> \in i_older' /\ <<b, c>> \in i_older' => <<a, c>> \in i_older'
    BY <2>1, <2>3 DEF Ordered
  <2> QED  BY <2>2, <2>4, <2>5 DEF Ordered
<1>7. \A s \in pins \cup spared : i_bitmaps'[s] = sizes[s]
  <2>1. \A s \in pins \cup spared : s \in Sources /\ s \notin gone
    BY <1>3
  <2> HIDE DEF gone, left
  <2> QED  BY <1>2, <1>4, <2>1
<1>8. ASSUME I!Bytes(i_bitmaps', Sources) > limit, ~(I!Resident' \subseteq pins \cup spared)
      PROVE  FALSE
  <2>1. open \ gone # {}
    BY <1>5, <1>8
  <2>2. IsFiniteSet(Held(sizes))
    BY <1>3, Given, FS_Subset
  <2>3. PICK s \in open \ gone : \A o \in open \ gone : <<o, s>> \notin recency
    <3>1. open \ gone \in SUBSET Held(sizes)
      OBVIOUS
    <3> HIDE DEF open, gone
    <3> QED  BY <2>1, <2>2, <3>1, UsedFirst
  <2>4. before(s) \subseteq gone
    BY <2>3
  <2>5. ~(I!Bytes(sizes, Sources) > limit + I!Bytes(sizes, before(s)))
    BY <2>3
  <2>6. /\ before(s) \in SUBSET Sources /\ before(s) \in SUBSET gone /\ gone \in SUBSET Sources
    BY <1>3, <2>4
  <2> HIDE DEF before, gone, open
  <2>7. /\ I!Bytes(sizes, before(s)) <= I!Bytes(sizes, gone)
    BY <2>6, BytesMono
  <2>8. /\ I!Bytes(sizes, before(s)) \in Nat /\ I!Bytes(sizes, gone) \in Nat
        /\ I!Bytes(sizes, Sources) \in Nat /\ limit \in Nat
    BY <2>6, BytesType, Given
  <2>9. I!Bytes(left, Sources) = I!Bytes(sizes, Sources) - I!Bytes(sizes, gone)
    BY <2>6, BytesLeft
  <2>10. I!Bytes(left, Sources) > limit
    BY <1>2, <1>8
  <2> HIDE DEF left
  <2> QED  BY <2>5, <2>7, <2>8, <2>9, <2>10
<1> QED
  <2> HIDE DEF gone, left
  <2> QED  BY <1>2, <1>4, <1>6, <1>7, <1>8

FrameKept == \A s \in i_pinned' : i_bitmaps[s] # 0 => i_bitmaps'[s] # 0

LEMMA CacheParts ==
  /\ TypeCache <=> /\ i_bitmaps \in [Sources -> 0..Full] /\ Ordered(i_older, I!Resident)
                   /\ i_pinned \subseteq Sources /\ i_budget \in Budgets /\ i_fresh \in Sources
  /\ TypeCache' <=> /\ i_bitmaps' \in [Sources -> 0..Full] /\ Ordered(i_older', I!Resident')
                    /\ i_pinned' \subseteq Sources /\ i_budget' \in Budgets /\ i_fresh' \in Sources
<1>1. TypeCache <=> /\ i_bitmaps \in [Sources -> 0..Full] /\ Ordered(i_older, I!Resident)
                    /\ i_pinned \subseteq Sources /\ i_budget \in Budgets /\ i_fresh \in Sources
  BY Zenon DEF TypeCache, Ordered
<1>2. TypeCache' <=> /\ i_bitmaps' \in [Sources -> 0..Full] /\ Ordered(i_older', I!Resident')
                     /\ i_pinned' \subseteq Sources /\ i_budget' \in Budgets /\ i_fresh' \in Sources
  BY Zenon DEF TypeCache, Ordered
<1> QED  BY <1>1, <1>2

LEMMA Latest ==
  ASSUME Ordered(i_older, I!Resident), NEW s \in Sources
  PROVE  Ordered(I!LatestUsed(s), I!Resident \cup {s})
<1> DEFINE recency == I!LatestUsed(s)
           those == I!Resident \cup {s}
<1>1. \A a, b \in those :
        (<<a, b>> \in recency) <=>
          \/ a # s /\ b # s /\ <<a, b>> \in i_older
          \/ a # s /\ b = s
  BY DEF I!LatestUsed, Ordered
<1>2. recency \subseteq those \X those
  BY DEF I!LatestUsed, Ordered
<1>3. \A a \in those : a # s => a \in I!Resident
  OBVIOUS
<1> HIDE DEF recency, those
<1>4. \A a, b \in those : <<a, b>> \in recency <=> a # b /\ <<b, a>> \notin recency
  BY <1>1, <1>3 DEF Ordered
<1>5. \A a, b, c \in those :
        <<a, b>> \in recency /\ <<b, c>> \in recency => <<a, c>> \in recency
  BY <1>1, <1>3 DEF Ordered
<1>6. Ordered(recency, those)
  BY <1>2, <1>4, <1>5 DEF Ordered
<1> QED  BY <1>6 DEF recency, those

LEMMA Inserted ==
  ASSUME TypeCache, NEW s \in Sources, NEW size \in I!Sizes, I!Insert(s, size)
  PROVE  TypeCache' /\ I!OverOnlyIfPinned' /\ FrameKept
<1> DEFINE sizes == [i_bitmaps EXCEPT ![s] = size]
           recency == I!LatestUsed(s)
<1>1. /\ i_bitmaps \in [Sources -> 0..Full] /\ Ordered(i_older, I!Resident)
      /\ i_pinned \subseteq Sources /\ i_budget \in Budgets
  BY CacheParts
<1>2. size \in 0..Full /\ size # 0
  BY Given DEF I!Sizes
<1>3. /\ sizes \in [Sources -> 0..Full]
      /\ \A o \in Sources : sizes[o] = IF o = s THEN size ELSE i_bitmaps[o]
  BY <1>1, <1>2
<1>4. I!TrimmedTo(sizes, recency, i_pinned, i_budget, {s}) /\ i_fresh' = s
  BY DEF I!Insert
<1> HIDE DEF sizes
<1>5. Held(sizes) = I!Resident \cup {s}
  BY <1>2, <1>3 DEF Held, I!Resident
<1>6. Ordered(recency, Held(sizes))
  BY <1>1, <1>5, Latest
<1> HIDE DEF recency
<1>7. /\ i_bitmaps' \in [Sources -> 0..Full] /\ Ordered(i_older', I!Resident')
      /\ i_pinned' = i_pinned /\ i_budget' = i_budget
      /\ \A o \in i_pinned \cup {s} : i_bitmaps'[o] = sizes[o]
      /\ I!Bytes(i_bitmaps', Sources) > i_budget => I!Resident' \subseteq i_pinned \cup {s}
  <2>1. i_pinned \in SUBSET Sources /\ {s} \in SUBSET Sources
    BY <1>1
  <2> QED  BY <1>1, <1>3, <1>4, <1>6, <2>1, Trimmed
<1>8. TypeCache'
  BY <1>1, <1>4, <1>7, CacheParts
<1>9. I!OverOnlyIfPinned'
  <2>1. I!Bytes(i_bitmaps, Sources)' = I!Bytes(i_bitmaps', Sources)
    BY DEF I!Bytes, I!Sizes
  <2> QED  BY <1>4, <1>7, <2>1 DEF I!OverOnlyIfPinned
<1>10. FrameKept
  BY <1>1, <1>2, <1>3, <1>7 DEF FrameKept
<1> QED  BY <1>8, <1>9, <1>10

(* A new frame or budget: nothing comes, and what goes is not the frame's. *)
LEMMA Retrimmed ==
  ASSUME TypeCache, NEW pins \in SUBSET Sources, NEW limit \in Budgets,
         I!TrimmedTo(i_bitmaps, i_older, pins, limit, {}), i_fresh' = i_fresh
  PROVE  TypeCache' /\ I!OverOnlyIfPinned' /\ FrameKept
<1>1. /\ i_bitmaps \in [Sources -> 0..Full] /\ Ordered(i_older, I!Resident)
      /\ i_fresh \in Sources
  BY CacheParts
<1>2. Held(i_bitmaps) = I!Resident
  BY DEF Held, I!Resident
<1>3. /\ i_bitmaps' \in [Sources -> 0..Full] /\ Ordered(i_older', I!Resident')
      /\ i_pinned' = pins /\ i_budget' = limit
      /\ \A o \in pins \cup {} : i_bitmaps'[o] = i_bitmaps[o]
      /\ I!Bytes(i_bitmaps', Sources) > limit => I!Resident' \subseteq pins \cup {}
  <2>1. {} \in SUBSET Sources /\ Ordered(i_older, Held(i_bitmaps))
    BY <1>1, <1>2
  <2> QED  BY <1>1, <2>1, Trimmed
<1>4. TypeCache'
  BY <1>1, <1>3, CacheParts
<1>5. I!OverOnlyIfPinned'
  <2>1. I!Bytes(i_bitmaps, Sources)' = I!Bytes(i_bitmaps', Sources)
    BY DEF I!Bytes, I!Sizes
  <2> QED  BY <1>3, <2>1 DEF I!OverOnlyIfPinned
<1>6. FrameKept
  BY <1>3 DEF FrameKept
<1> QED  BY <1>4, <1>5, <1>6

(* A use: only the order changes.                                          *)
LEMMA Used ==
  ASSUME TypeCache, I!OverOnlyIfPinned, NEW s \in I!Resident, i_older' = I!LatestUsed(s),
         UNCHANGED <<i_bitmaps, i_pinned, i_budget, i_fresh>>
  PROVE  TypeCache' /\ I!OverOnlyIfPinned' /\ FrameKept
<1>1. /\ i_bitmaps \in [Sources -> 0..Full] /\ Ordered(i_older, I!Resident)
      /\ i_pinned \subseteq Sources /\ i_budget \in Budgets /\ i_fresh \in Sources
  BY CacheParts
<1>2. I!Resident' = I!Resident /\ I!Resident \cup {s} = I!Resident /\ s \in Sources
  BY DEF I!Resident
<1>3. Ordered(i_older', I!Resident')
  <2>1. Ordered(I!LatestUsed(s), I!Resident \cup {s})
    BY <1>1, <1>2, Latest
  <2> QED  BY <1>2, <2>1
<1>4. TypeCache'
  BY <1>1, <1>3, CacheParts
<1>5. I!OverOnlyIfPinned'
  BY <1>2 DEF I!OverOnlyIfPinned, I!Bytes
<1> QED  BY <1>4, <1>5 DEF FrameKept

-----------------------------------------------------------------------------
(* The embedder's calls.                                                   *)
LEMMA OneMore ==
  ASSUME NEW f \in [Views -> [I!Names -> Nat]], NEW v \in Views, NEW x \in I!Names,
         NEW g, g = [f EXCEPT ![v][x] = @ + 1]
  PROVE  /\ g \in [Views -> [I!Names -> Nat]]
         /\ \A w \in Views, y \in I!Names :
              g[w][y] = IF w = v /\ y = x THEN f[w][y] + 1 ELSE f[w][y]
<1>1. f[v] \in [I!Names -> Nat] /\ f[v][x] \in Nat
  OBVIOUS
<1>2. g = [f EXCEPT ![v] = [f[v] EXCEPT ![x] = f[v][x] + 1]]
  OBVIOUS
<1>3. [f[v] EXCEPT ![x] = f[v][x] + 1] \in [I!Names -> Nat]
  BY <1>1
<1>4. \A w \in Views : g[w] = IF w = v THEN [f[v] EXCEPT ![x] = f[v][x] + 1] ELSE f[w]
  BY <1>2
<1>5. g \in [Views -> [I!Names -> Nat]]
  BY <1>2, <1>3
<1>6. \A w \in Views, y \in I!Names :
        g[w][y] = IF w = v /\ y = x THEN f[w][y] + 1 ELSE f[w][y]
  BY <1>1, <1>4
<1> QED  BY <1>5, <1>6

(* A call that starts no job and ends none.                                *)
LEMMA CallStep ==
  ASSUME PInv, I!Call, UNCHANGED <<i_entries, i_refining, i_requested, I!driver, I!channel>>,
         TypeCache', I!OverOnlyIfPinned',
         i_waiters' \in [Sources -> Seq(Views)], PWaiting', PAsked',
         i_asked' \in [Views -> [I!Names -> Nat]], i_told' \in [Views -> [I!Names -> Nat]]
  PROVE  PInv'
<1>1. /\ TypeCache /\ TypeTable /\ TypeFlow /\ TypeReports /\ PWaiting /\ PAsked /\ PWays
      /\ PJobs /\ PSound /\ PPermits /\ I!OverOnlyIfPinned
  BY DEF PInv
<1>2. /\ i_completions' = i_completions /\ i_turn' = i_turn /\ i_refining' = i_refining
      /\ i_entries' = i_entries /\ i_requested' = i_requested
      /\ i_lost' = i_lost /\ i_jobs' = i_jobs /\ i_permits' = i_permits
      /\ i_acts' = i_acts + 1 /\ i_acts < MaxActs /\ i_acts \in 0..MaxActs
  BY <1>1 DEF I!driver, I!channel, I!Call, TypeReports
<1>3. i_acts' \in 0..MaxActs /\ i_acts < i_acts' /\ i_acts \in Nat /\ i_acts' \in Nat
  BY <1>2, Given
<1>4. TypeTable' /\ TypeFlow' /\ TypeReports'
  BY <1>1, <1>2, <1>3 DEF TypeTable, TypeFlow, TypeReports
<1>5. PSound' /\ PPermits'
  BY <1>1, <1>2 DEF PSound, Sound, PPermits, Decoding
<1>6. PJobs'
  <2>1. \A j \in i_jobs : j.n \in Nat
    BY <1>1, JobType, Given DEF TypeFlow
  <2>2. \A j \in i_jobs : j.kind = "document" => j.n < i_acts'
    BY <1>1, <1>3, <2>1 DEF PJobs
  <2> QED  BY <1>1, <1>2, <2>2 DEF PJobs
<1>7. PWays'
  <2>1. \A k, x : Way(k, x)' = Way(k, x)
    BY <1>2 DEF Way, WayOf, Of, Replies
  <2>2. \A k, x : Owed(k, x)' = Owed(k, x)
    BY <1>2 DEF Owed, I!Tally
  <2> QED  BY <1>1, <1>2, <2>1, <2>2, WaysStay
<1> QED  BY <1>4, <1>5, <1>6, <1>7 DEF PInv

(* A job that starts.                                                      *)
LEMMA JobStarts ==
  ASSUME TypeFlow, PJobs, NEW j \in I!Job, UNCHANGED I!channel, i_jobs' = i_jobs \cup {j},
         i_acts \in Nat, i_acts' = i_acts + 1, j.stage # "decode",
         \A i \in i_jobs : ~(i.kind = j.kind /\ i.name = j.name /\ i.n = j.n),
         \A i \in i_jobs : i.kind = "refine" => i_refining'[i.name] = i_refining[i.name],
         (j.kind = "document") <=> (j.name \in Documents),
         j.kind = "document" => j.n = i_acts, j.kind # "document" => j.n = 0,
         j.kind = "load" => j.size \in I!Sizes,
         j.kind = "refine" => j.size = i_refining'[j.name] /\ j.size \in I!Sizes
  PROVE  /\ i_jobs' \subseteq I!Job /\ PJobs'
         /\ \A k, x : Way(k, x)' = Way(k, x) + One(j, Of(k, x))
         /\ Cardinality(i_jobs' \cap Decoding) = Cardinality(i_jobs \cap Decoding)
<1>1. i_jobs \subseteq I!Job /\ IsFiniteSet(i_jobs) /\ i_completions \in Seq(I!Completion)
      /\ i_turn \in Seq(I!Completion) /\ j \notin i_jobs
  BY DEF TypeFlow, PJobs
<1>2. i_jobs' \subseteq I!Job /\ IsFiniteSet(i_jobs')
  BY <1>1, FS_AddElement
<1>3. \A i \in i_jobs : i.n \in Nat
  BY <1>1, JobType, Given
<1>4. /\ \A i \in i_jobs' :
           /\ (i.kind = "document") <=> (i.name \in Documents)
           /\ i.kind # "document" => i.n = 0
           /\ i.kind = "load" => i.size \in I!Sizes
           /\ i.kind = "refine" => i.size = i_refining'[i.name] /\ i.size \in I!Sizes
      /\ \A i, k \in i_jobs' : i.kind = k.kind /\ i.name = k.name /\ i.n = k.n => i = k
  BY DEF PJobs
<1>5. \A i \in i_jobs' : i.kind = "document" => i.n < i_acts'
  BY <1>3 DEF PJobs
<1>6. PJobs'
  BY <1>2, <1>4, <1>5 DEF PJobs
<1>7. \A k, x : Way(k, x)' = Way(k, x) + One(j, Of(k, x))
  <2> SUFFICES ASSUME NEW k, NEW x PROVE Way(k, x)' = Way(k, x) + One(j, Of(k, x))
    OBVIOUS
  <2>1. WayOf(i_jobs \cup {j}, i_completions, i_turn, k, x)
          = WayOf(i_jobs, i_completions, i_turn, k, x) + One(j, Of(k, x))
    BY <1>1, WayAdd
  <2>2. Way(k, x)' = WayOf(i_jobs', i_completions', i_turn', k, x)
    BY DEF Way, WayOf, Of, Replies
  <2>3. i_completions' = i_completions /\ i_turn' = i_turn
    BY DEF I!channel
  <2> QED  BY <2>1, <2>2, <2>3 DEF Way
<1>8. Cardinality((i_jobs \cup {j}) \cap Decoding) = Cardinality(i_jobs \cap Decoding) + One(j, Decoding)
  BY <1>1, CountedMore
<1>9. One(j, Decoding) = 0 /\ Cardinality(i_jobs \cap Decoding) \in Nat
  BY <1>1, Counted DEF One, Decoding
<1> QED  BY <1>2, <1>6, <1>7, <1>8, <1>9

(* A call that starts one.                                                 *)
LEMMA StartStep ==
  ASSUME PInv, I!Call, NEW j \in I!Job, i_jobs' = i_jobs \cup {j},
         UNCHANGED <<i_permits, i_lost, I!channel>>, TypeCache', I!OverOnlyIfPinned',
         TypeTable', PWaiting', PAsked',
         i_asked' \in [Views -> [I!Names -> Nat]], i_told' \in [Views -> [I!Names -> Nat]],
         j.stage # "decode",
         \A i \in i_jobs : ~(i.kind = j.kind /\ i.name = j.name /\ i.n = j.n),
         \A i \in i_jobs : i.kind = "refine" => i_refining'[i.name] = i_refining[i.name],
         (j.kind = "document") <=> (j.name \in Documents),
         j.kind = "document" => j.n = i_acts, j.kind # "document" => j.n = 0,
         j.kind = "load" => j.size \in I!Sizes,
         j.kind = "refine" => j.size = i_refining'[j.name] /\ j.size \in I!Sizes,
         \A k \in Kinds : \A x \in Heard(k) : Owed(k, x)' = Owed(k, x) + One(j, Of(k, x)),
         PSound'
  PROVE  PInv'
<1>1. /\ TypeFlow /\ TypeReports /\ TypeTable /\ PWays /\ PJobs /\ PSound /\ PPermits
  BY DEF PInv
<1>2. /\ i_acts' = i_acts + 1 /\ i_acts < MaxActs /\ i_acts \in 0..MaxActs
      /\ i_permits' = i_permits /\ i_lost' = i_lost /\ i_completions' = i_completions /\ i_turn' = i_turn
  BY <1>1 DEF I!Call, TypeReports, I!channel
<1>3. i_acts \in Nat /\ i_acts' \in 0..MaxActs
  BY <1>2, Given
<1>4. /\ i_jobs' \subseteq I!Job /\ PJobs'
      /\ \A k, x : Way(k, x)' = Way(k, x) + One(j, Of(k, x))
      /\ Cardinality(i_jobs' \cap Decoding) = Cardinality(i_jobs \cap Decoding)
  BY <1>1, <1>2, <1>3, JobStarts
<1>5. TypeFlow' /\ TypeReports'
  BY <1>1, <1>2, <1>3, <1>4 DEF TypeFlow, TypeReports
<1>6. PPermits'
  BY <1>1, <1>2, <1>4 DEF PPermits, Decoding
<1>7. PWays'
  <2> SUFFICES ASSUME NEW k \in Kinds, NEW x \in Heard(k)
               PROVE  /\ Way(k, x)' <= Owed(k, x)'
                      /\ x \notin i_lost => Way(k, x)' = Owed(k, x)'
    BY <1>2 DEF PWays, Kinds, Heard
  <2>1. /\ Way(k, x) <= Owed(k, x)
        /\ x \notin i_lost => Way(k, x) = Owed(k, x)
    BY <1>1 DEF PWays
  <2>2. Way(k, x)' = Way(k, x) + One(j, Of(k, x)) /\ Owed(k, x)' = Owed(k, x) + One(j, Of(k, x))
    BY <1>4
  <2>3. Way(k, x) \in Nat
    BY <1>1, WayNat DEF Way, TypeFlow, PJobs
  <2>4. Owed(k, x) \in Nat
    <3>1. I!Tally(i_requested, {x} \X Views) \in Nat
      BY <1>1, HitsFinite DEF TypeTable
    <3> QED  BY <3>1 DEF Owed
  <2>5. One(j, Of(k, x)) \in Nat
    BY DEF One
  <2> QED  BY <2>1, <2>2, <2>3, <2>4, <2>5
<1> QED  BY <1>1, <1>4, <1>5, <1>6, <1>7 DEF PInv

LEMMA RetainStep ==
  ASSUME PInv, NEW frame \in SUBSET Sources, I!Retain(frame)
  PROVE  PInv' /\ FrameKept
<1>1. TypeCache /\ TypeTable /\ TypeReports /\ PWaiting /\ PAsked /\ i_budget \in Budgets
  BY CacheParts DEF PInv
<1>2. TypeCache' /\ I!OverOnlyIfPinned' /\ FrameKept
  BY <1>1, Retrimmed DEF I!Retain
<1>3. TypeTable' /\ PWaiting'
  BY <1>1, TableStays DEF I!Retain
<1>4. PAsked'
  BY <1>1, AskedStays DEF I!Retain, I!table
<1>5. PInv'
  <2>1. /\ i_waiters' \in [Sources -> Seq(Views)]
        /\ i_asked' \in [Views -> [I!Names -> Nat]] /\ i_told' \in [Views -> [I!Names -> Nat]]
    BY <1>1, <1>3 DEF TypeTable, TypeReports, I!Retain, I!reports
  <2>2. I!Call /\ UNCHANGED <<i_entries, i_refining, i_requested, I!driver, I!channel>>
    BY DEF I!Retain, I!table
  <2> QED  BY <1>2, <1>3, <1>4, <2>1, <2>2, CallStep
<1> QED  BY <1>2, <1>5

LEMMA SetBudgetStep ==
  ASSUME PInv, NEW bytes \in Budgets, I!SetBudget(bytes)
  PROVE  PInv' /\ FrameKept
<1>1. /\ TypeCache /\ TypeTable /\ TypeReports /\ PWaiting /\ PAsked
      /\ i_pinned \in SUBSET Sources
  BY CacheParts DEF PInv
<1>2. TypeCache' /\ I!OverOnlyIfPinned' /\ FrameKept
  BY <1>1, Retrimmed DEF I!SetBudget
<1>3. TypeTable' /\ PWaiting'
  BY <1>1, TableStays DEF I!SetBudget
<1>4. PAsked'
  BY <1>1, AskedStays DEF I!SetBudget, I!table
<1>5. PInv'
  <2>1. /\ i_waiters' \in [Sources -> Seq(Views)]
        /\ i_asked' \in [Views -> [I!Names -> Nat]] /\ i_told' \in [Views -> [I!Names -> Nat]]
    BY <1>1, <1>3 DEF TypeTable, TypeReports, I!SetBudget, I!reports
  <2>2. I!Call /\ UNCHANGED <<i_entries, i_refining, i_requested, I!driver, I!channel>>
    BY DEF I!SetBudget, I!table
  <2> QED  BY <1>2, <1>3, <1>4, <2>1, <2>2, CallStep
<1> QED  BY <1>2, <1>5

LEMMA RequestDocumentStep ==
  ASSUME PInv, NEW v \in Views, NEW d \in Documents, I!RequestDocument(v, d)
  PROVE  PInv'
<1> DEFINE j == I!Task("document", d, 0, i_acts, "permit", "vector")
<1>1. /\ TypeCache /\ TypeTable /\ TypeFlow /\ TypeReports /\ PWaiting /\ PAsked /\ PWays
      /\ PJobs /\ PSound /\ PPermits /\ I!OverOnlyIfPinned
  BY DEF PInv
<1>2. /\ I!Call /\ i_asked' = [i_asked EXCEPT ![v][d] = @ + 1] /\ i_told' = i_told
      /\ i_requested' = Append(i_requested, <<d, v>>) /\ i_jobs' = i_jobs \cup {j}
      /\ i_entries' = i_entries /\ i_waiters' = i_waiters /\ i_refining' = i_refining
      /\ i_permits' = i_permits /\ i_lost' = i_lost /\ UNCHANGED I!cache /\ UNCHANGED I!channel
  BY DEF I!RequestDocument, I!Asks
<1>3. /\ i_requested \in Seq(Documents \X Views) /\ <<d, v>> \in Documents \X Views
      /\ d \in I!Names /\ i_acts \in 0..MaxActs /\ d \notin Sources
  BY <1>1, Given DEF TypeTable, TypeReports, I!Names
<1>4. /\ j.kind = "document" /\ j.name = d /\ j.size = 0 /\ j.n = i_acts /\ j.stage = "permit"
      /\ j \in I!Job
  BY <1>3, Given DEF I!Task, I!Job
<1> HIDE DEF j
<1>5. TypeCache' /\ I!OverOnlyIfPinned'
  BY <1>1, <1>2, CacheStays
<1>6. TypeTable' /\ PWaiting'
  BY <1>1, <1>2, <1>3 DEF TypeTable, PWaiting
<1>7. \A these : I!Tally(i_requested, these)' = I!Tally(i_requested, these) + One(<<d, v>>, these)
  <2>1. \A these : I!Tally(Append(i_requested, <<d, v>>), these)
                     = I!Tally(i_requested, these) + One(<<d, v>>, these)
    BY <1>3, TallyAppend
  <2> QED  BY <1>2, <2>1 DEF I!Tally
<1>8. /\ i_asked' \in [Views -> [I!Names -> Nat]]
      /\ \A w \in Views, y \in I!Names :
           i_asked'[w][y] = IF w = v /\ y = d THEN i_asked[w][y] + 1 ELSE i_asked[w][y]
  BY SMTT(30), <1>1, <1>2, <1>3, OneMore DEF TypeReports
<1>9. PAsked'
  <2>1. \A w \in Views, s \in Sources : i_asked'[w][s] = i_told'[w][s] + I!Tally(i_waiters[s], {w})'
    <3>1. \A w \in Views, s \in Sources : i_asked[w][s] = i_told[w][s] + I!Tally(i_waiters[s], {w})
      BY <1>1 DEF PAsked
    <3>2. \A w \in Views, s \in Sources : i_asked'[w][s] = i_asked[w][s]
      BY <1>3, <1>8 DEF I!Names
    <3> QED  BY <1>2, <3>1, <3>2 DEF I!Tally
  <2>2. ASSUME NEW w \in Views, NEW e \in Documents
        PROVE  i_asked'[w][e] = i_told'[w][e] + I!Tally(i_requested, {<<e, w>>})'
    <3>1. i_asked[w][e] = i_told[w][e] + I!Tally(i_requested, {<<e, w>>})
      BY <1>1 DEF PAsked
    <3>2. /\ i_asked[w][e] \in Nat /\ i_told[w][e] \in Nat /\ e \in I!Names
          /\ I!Tally(i_requested, {<<e, w>>}) \in Nat
      BY <1>1, <1>3, HitsFinite DEF TypeReports, I!Names
    <3>3. I!Tally(i_requested, {<<e, w>>})'
            = I!Tally(i_requested, {<<e, w>>}) + One(<<d, v>>, {<<e, w>>})
      BY <1>7
    <3>4. One(<<d, v>>, {<<e, w>>}) = IF w = v /\ e = d THEN 1 ELSE 0
      BY DEF One
    <3>5. i_asked'[w][e] = IF w = v /\ e = d THEN i_asked[w][e] + 1 ELSE i_asked[w][e]
      BY <1>8, <3>2
    <3> QED  BY SMTT(30), <1>2, <3>1, <3>2, <3>3, <3>4, <3>5
  <2> QED  BY <2>1, <2>2 DEF PAsked
<1>10. \A k \in Kinds : \A x \in Heard(k) : Owed(k, x)' = Owed(k, x) + One(j, Of(k, x))
  <2> SUFFICES ASSUME NEW k \in Kinds, NEW x \in Heard(k)
               PROVE  Owed(k, x)' = Owed(k, x) + One(j, Of(k, x))
    OBVIOUS
  <2>1. (j \in Of(k, x)) <=> (j.kind = k /\ j.name = x)
    BY <1>4, JobType
  <2>2. CASE k = "document"
    <3>1. One(j, Of(k, x)) = One(<<d, v>>, {x} \X Views)
      BY <1>4, <2>1, <2>2 DEF One
    <3>2. Owed(k, x) = I!Tally(i_requested, {x} \X Views)
          /\ Owed(k, x)' = I!Tally(i_requested, {x} \X Views)'
      BY <2>2 DEF Owed
    <3> QED  BY <1>7, <3>1, <3>2
  <2>3. CASE k # "document"
    <3>1. One(j, Of(k, x)) = 0 /\ k \in {"load", "refine"}
      BY <1>4, <2>1, <2>3 DEF One, Kinds
    <3>2. Owed(k, x)' = Owed(k, x) /\ Owed(k, x) \in Nat
      BY <1>2, <3>1 DEF Owed
    <3> QED  BY <3>1, <3>2
  <2> QED  BY <2>2, <2>3
<1>11. PSound'
  BY <1>1, <1>2, SoundStays DEF I!channel
<1>12. \A i \in i_jobs : ~(i.kind = j.kind /\ i.name = j.name /\ i.n = j.n)
  <2>1. \A i \in i_jobs : i.kind = "document" => i.n < i_acts
    BY <1>1 DEF PJobs
  <2>2. i_acts \in Nat
    BY <1>3, Given
  <2> QED  BY <1>4, <2>1, <2>2
<1>13. i_told' \in [Views -> [I!Names -> Nat]]
  BY <1>1, <1>2 DEF TypeReports
<1> QED  BY <1>2, <1>4, <1>5, <1>6, <1>8, <1>9, <1>10, <1>11, <1>12, <1>13, StartStep

LEMMA RequestStep ==
  ASSUME PInv, NEW v \in Views, NEW s \in Sources, I!Request(v, s)
  PROVE  PInv'
<1>1. /\ TypeCache /\ TypeTable /\ TypeFlow /\ TypeReports /\ PWaiting /\ PAsked /\ PWays
      /\ PJobs /\ PSound /\ PPermits /\ I!OverOnlyIfPinned
  BY DEF PInv
<1>2. /\ I!Call /\ i_asked' = [i_asked EXCEPT ![v][s] = @ + 1]
      /\ i_refining' = i_refining /\ i_requested' = i_requested
      /\ i_permits' = i_permits /\ i_lost' = i_lost /\ UNCHANGED I!cache /\ UNCHANGED I!channel
  BY DEF I!Request, I!Asks
<1>3. /\ s \in I!Names /\ \A x \in Sources : i_waiters[x] \in Seq(Views)
      /\ i_waiters \in [Sources -> Seq(Views)] /\ i_requested \in Seq(Documents \X Views)
      /\ \A d \in Documents : d # s
  BY <1>1, Given DEF TypeTable, I!Names
<1>4. TypeCache' /\ I!OverOnlyIfPinned'
  BY <1>1, <1>2, CacheStays
<1>5. /\ i_asked' \in [Views -> [I!Names -> Nat]]
      /\ \A w \in Views, y \in I!Names :
           i_asked'[w][y] = IF w = v /\ y = s THEN i_asked[w][y] + 1 ELSE i_asked[w][y]
  BY <1>1, <1>2, <1>3, OneMore DEF TypeReports
<1>6. \A w \in Views, y \in I!Names : i_asked[w][y] \in Nat /\ i_told[w][y] \in Nat
  BY <1>1 DEF TypeReports
<1>7. \A w \in Views, x \in Sources : I!Tally(i_waiters[x], {w}) \in Nat
  BY <1>3, HitsFinite
<1>8. CASE /\ i_told' = [i_told EXCEPT ![v][s] = @ + 1] /\ UNCHANGED <<i_waiters, i_jobs>>
           /\ \/ i_entries[s] \in {"loaded", "failed"} /\ UNCHANGED i_entries
              \/ i_entries[s] \in {"none", "parsed"} /\ i_entries' = [i_entries EXCEPT ![s] = "failed"]
  <2>1. /\ i_told' \in [Views -> [I!Names -> Nat]]
        /\ \A w \in Views, y \in I!Names :
             i_told'[w][y] = IF w = v /\ y = s THEN i_told[w][y] + 1 ELSE i_told[w][y]
    BY SMTT(30), <1>1, <1>3, <1>8, OneMore DEF TypeReports
  <2>2. PAsked'
    <3>1. \A w \in Views, x \in Sources : i_asked'[w][x] = i_told'[w][x] + I!Tally(i_waiters[x], {w})'
      <4> SUFFICES ASSUME NEW w \in Views, NEW x \in Sources
                   PROVE  i_asked'[w][x] = i_told'[w][x] + I!Tally(i_waiters[x], {w})'
        OBVIOUS
      <4>1. /\ i_asked[w][x] = i_told[w][x] + I!Tally(i_waiters[x], {w})
            /\ I!Tally(i_waiters[x], {w})' = I!Tally(i_waiters[x], {w}) /\ x \in I!Names
        BY <1>1, <1>8 DEF PAsked, I!Tally, I!Names
      <4>2. /\ i_asked'[w][x] = IF w = v /\ x = s THEN i_asked[w][x] + 1 ELSE i_asked[w][x]
            /\ i_told'[w][x] = IF w = v /\ x = s THEN i_told[w][x] + 1 ELSE i_told[w][x]
        BY <1>5, <2>1, <4>1
      <4>3. i_asked[w][x] \in Nat /\ i_told[w][x] \in Nat /\ I!Tally(i_waiters[x], {w}) \in Nat
        BY <1>6, <1>7, <4>1
      <4> QED  BY <4>1, <4>2, <4>3
    <3>2. \A w \in Views, d \in Documents :
            i_asked'[w][d] = i_told'[w][d] + I!Tally(i_requested, {<<d, w>>})'
      <4>1. \A w \in Views, d \in Documents :
              i_asked[w][d] = i_told[w][d] + I!Tally(i_requested, {<<d, w>>})
        BY <1>1 DEF PAsked
      <4>2. \A w \in Views, d \in Documents :
              i_asked'[w][d] = i_asked[w][d] /\ i_told'[w][d] = i_told[w][d]
        BY <1>3, <1>5, <2>1 DEF I!Names
      <4> QED  BY <1>2, <4>1, <4>2 DEF I!Tally
    <3> QED  BY <3>1, <3>2 DEF PAsked
  <2>3. CASE i_entries[s] \in {"loaded", "failed"} /\ UNCHANGED i_entries
    <3>1. PWaiting' /\ i_waiters' \in [Sources -> Seq(Views)]
      BY <1>1, <1>2, <1>3, <1>8, <2>3 DEF PWaiting
    <3>2. UNCHANGED I!driver
      BY <1>2, <1>8 DEF I!driver
    <3> QED  BY <1>2, <1>4, <1>5, <2>1, <2>2, <2>3, <3>1, <3>2, CallStep
  <2>4. CASE i_entries[s] \in {"none", "parsed"} /\ i_entries' = [i_entries EXCEPT ![s] = "failed"]
    <3>1. /\ \A x \in Sources : i_entries'[x] = IF x = s THEN "failed" ELSE i_entries[x]
          /\ i_entries' \in [Sources -> {"none", "loading", "loaded", "parsed", "failed"}]
      BY <1>1, <2>4 DEF TypeTable
    <3>2. PWaiting' /\ TypeTable'
      BY <1>1, <1>2, <1>8, <2>4, <3>1 DEF PWaiting, TypeTable
    <3>3. TypeFlow' /\ TypeReports' /\ PSound' /\ PPermits' /\ PJobs'
      <4>1. /\ i_acts' = i_acts + 1 /\ i_acts < MaxActs /\ i_acts \in Nat /\ MaxActs \in Nat
            /\ \A j \in i_jobs : j.n \in Nat
        BY <1>1, <1>2, JobType, Given DEF I!Call, TypeReports, TypeFlow
      <4>2. i_acts' \in 0..MaxActs
        BY <4>1
      <4>3. TypeFlow' /\ TypeReports' /\ PSound' /\ PPermits'
        BY <1>1, <1>2, <1>5, <1>8, <2>1, <4>2
           DEF TypeFlow, TypeReports, PSound, Sound, PPermits, Decoding, I!channel
      <4>4. \A j \in i_jobs : j.kind = "document" => j.n < i_acts'
        BY <1>1, <4>1 DEF PJobs
      <4>5. PJobs'
        BY <1>1, <1>2, <1>8, <4>4 DEF PJobs
      <4> QED  BY <4>3, <4>5
    <3>4. PWays'
      <4>1. \A k, x : Way(k, x)' = Way(k, x)
        BY <1>2, <1>8 DEF Way, WayOf, Of, Replies, I!channel
      <4>2. \A k \in Kinds : \A x \in Heard(k) : Owed(k, x)' = Owed(k, x)
        BY <1>2, <2>4, <3>1 DEF Owed, I!Tally, Heard, Kinds
      <4>3. Kinds' = Kinds /\ \A k : Heard(k)' = Heard(k)
        BY DEF Kinds, Heard
      <4> QED  BY <1>1, <1>2, <4>1, <4>2, <4>3 DEF PWays
    <3> QED  BY <1>4, <2>2, <3>2, <3>3, <3>4 DEF PInv
  <2> QED  BY <1>8, <2>3, <2>4
<1>9. CASE /\ i_told' = i_told /\ i_jobs' = i_jobs /\ i_entries' = i_entries /\ i_entries[s] = "loading"
           /\ i_waiters' = [i_waiters EXCEPT ![s] = Append(@, v)]
  <2>1. /\ i_waiters' \in [Sources -> Seq(Views)]
        /\ \A x \in Sources : i_waiters'[x] = IF x = s THEN Append(i_waiters[s], v) ELSE i_waiters[x]
    BY <1>3, <1>9
  <2>2. PWaiting'
    BY <1>1, <1>2, <1>9, <2>1 DEF PWaiting
  <2>3. PAsked'
    <3>1. ASSUME NEW w \in Views, NEW x \in Sources
          PROVE  i_asked'[w][x] = i_told'[w][x] + I!Tally(i_waiters[x], {w})'
      <4>1. i_asked[w][x] = i_told[w][x] + I!Tally(i_waiters[x], {w}) /\ x \in I!Names
        BY <1>1 DEF PAsked, I!Names
      <4>2. I!Tally(Append(i_waiters[s], v), {w}) = I!Tally(i_waiters[s], {w}) + One(v, {w})
        BY <1>3, TallyAppend
      <4>3. I!Tally(i_waiters[x], {w})' = I!Tally(i_waiters'[x], {w})
        BY DEF I!Tally
      <4>4. One(v, {w}) = IF w = v THEN 1 ELSE 0
        BY DEF One
      <4>5. I!Tally(i_waiters'[x], {w}) = IF x = s THEN I!Tally(i_waiters[x], {w}) + One(v, {w})
                                          ELSE I!Tally(i_waiters[x], {w})
        BY <2>1, <4>2
      <4>6. i_asked'[w][x] = IF w = v /\ x = s THEN i_asked[w][x] + 1 ELSE i_asked[w][x]
        BY <1>5, <4>1
      <4>7. i_asked[w][x] \in Nat /\ i_told[w][x] \in Nat /\ I!Tally(i_waiters[x], {w}) \in Nat
        BY <1>6, <1>7, <4>1
      <4> QED  BY <1>9, <4>1, <4>3, <4>4, <4>5, <4>6, <4>7
    <3>2. \A w \in Views, d \in Documents :
            i_asked'[w][d] = i_told'[w][d] + I!Tally(i_requested, {<<d, w>>})'
      <4>1. \A w \in Views, d \in Documents :
              i_asked[w][d] = i_told[w][d] + I!Tally(i_requested, {<<d, w>>})
        BY <1>1 DEF PAsked
      <4>2. \A w \in Views, d \in Documents : i_asked'[w][d] = i_asked[w][d]
        BY <1>3, <1>5 DEF I!Names
      <4> QED  BY <1>2, <1>9, <4>1, <4>2 DEF I!Tally
    <3> QED  BY <3>1, <3>2 DEF PAsked
  <2>4. UNCHANGED I!driver /\ i_told' \in [Views -> [I!Names -> Nat]]
    BY <1>1, <1>2, <1>9 DEF I!driver, TypeReports
  <2> QED  BY <1>2, <1>4, <1>5, <1>9, <2>1, <2>2, <2>3, <2>4, CallStep
<1>10. CASE /\ i_entries[s] \in {"none", "parsed"} /\ i_told' = i_told
            /\ i_entries' = [i_entries EXCEPT ![s] = "loading"]
            /\ i_waiters' = [i_waiters EXCEPT ![s] = <<v>>]
            /\ i_jobs' = i_jobs \cup {I!Task("load", s, First, 0, "bytes", "raster")}
  <2> DEFINE j == I!Task("load", s, First, 0, "bytes", "raster")
  <2>1. /\ j.kind = "load" /\ j.name = s /\ j.size = First /\ j.n = 0 /\ j.stage = "bytes"
        /\ j \in I!Job /\ First \in I!Sizes
    <3>1. First \in 0..Full /\ 0 \in 0..MaxActs /\ First \in I!Sizes
      BY Given DEF I!Sizes
    <3> QED  BY <1>3, <3>1 DEF I!Task, I!Job
  <2>2. i_jobs' = i_jobs \cup {j}
    BY <1>10
  <2> HIDE DEF j
  <2>3. /\ <<v>> \in Seq(Views) /\ <<v>> = Append(<<>>, v) /\ <<>> \in Seq(Views)
    OBVIOUS
  <2>4. /\ i_waiters' \in [Sources -> Seq(Views)]
        /\ \A x \in Sources : i_waiters'[x] = IF x = s THEN <<v>> ELSE i_waiters[x]
        /\ \A x \in Sources : i_entries'[x] = IF x = s THEN "loading" ELSE i_entries[x]
        /\ i_entries' \in [Sources -> {"none", "loading", "loaded", "parsed", "failed"}]
    BY <1>1, <1>3, <1>10, <2>3 DEF TypeTable
  <2>5. i_waiters[s] = <<>> /\ i_refining[s] = 0 /\ i_entries[s] # "loading"
    <3>1. i_entries[s] # "loading" /\ i_entries[s] # "loaded"
      BY <1>10
    <3> QED  BY <1>1, <3>1 DEF PWaiting
  <2>6. TypeTable' /\ PWaiting'
    <3>1. TypeTable'
      BY <1>1, <1>2, <2>4 DEF TypeTable
    <3>2. PWaiting'
      BY <1>1, <1>2, <2>4, <2>5 DEF PWaiting
    <3> QED  BY <3>1, <3>2
  <2>7. PAsked'
    <3>1. ASSUME NEW w \in Views, NEW x \in Sources
          PROVE  i_asked'[w][x] = i_told'[w][x] + I!Tally(i_waiters[x], {w})'
      <4>1. i_asked[w][x] = i_told[w][x] + I!Tally(i_waiters[x], {w}) /\ x \in I!Names
        BY <1>1 DEF PAsked, I!Names
      <4>2. I!Tally(<<v>>, {w}) = One(v, {w}) /\ I!Tally(<<>>, {w}) = 0
        <5>1. I!Tally(Append(<<>>, v), {w}) = I!Tally(<<>>, {w}) + One(v, {w})
          BY <2>3, TallyAppend
        <5>2. I!Tally(<<>>, {w}) = 0 /\ One(v, {w}) \in Nat
          BY TallyNone DEF One
        <5> QED  BY <2>3, <5>1, <5>2
      <4>3. I!Tally(i_waiters[x], {w})' = I!Tally(i_waiters'[x], {w})
        BY DEF I!Tally
      <4>4. One(v, {w}) = IF w = v THEN 1 ELSE 0
        BY DEF One
      <4>5. I!Tally(i_waiters'[x], {w}) = IF x = s THEN I!Tally(i_waiters[x], {w}) + One(v, {w})
                                          ELSE I!Tally(i_waiters[x], {w})
        BY <2>4, <2>5, <4>2, <4>4
      <4>6. i_asked'[w][x] = IF w = v /\ x = s THEN i_asked[w][x] + 1 ELSE i_asked[w][x]
        BY <1>5, <4>1
      <4>7. i_asked[w][x] \in Nat /\ i_told[w][x] \in Nat /\ I!Tally(i_waiters[x], {w}) \in Nat
        BY <1>6, <1>7, <4>1
      <4> QED  BY <1>10, <4>1, <4>3, <4>4, <4>5, <4>6, <4>7
    <3>2. \A w \in Views, d \in Documents :
            i_asked'[w][d] = i_told'[w][d] + I!Tally(i_requested, {<<d, w>>})'
      <4>1. \A w \in Views, d \in Documents :
              i_asked[w][d] = i_told[w][d] + I!Tally(i_requested, {<<d, w>>})
        BY <1>1 DEF PAsked
      <4>2. \A w \in Views, d \in Documents : i_asked'[w][d] = i_asked[w][d]
        BY <1>3, <1>5 DEF I!Names
      <4> QED  BY <1>2, <1>10, <4>1, <4>2 DEF I!Tally
    <3> QED  BY <3>1, <3>2 DEF PAsked
  <2>8. \A i \in i_jobs : ~(i.kind = j.kind /\ i.name = j.name /\ i.n = j.n)
    <3>1. "load" \in Kinds /\ s \in Heard("load")
      BY DEF Kinds, Heard
    <3>2. Way("load", s) <= Owed("load", s) /\ Owed("load", s) = 0
      BY <1>1, <2>5, <3>1 DEF PWays, Owed
    <3>3. /\ Way("load", s) \in Nat
          /\ Way("load", s) = 0 => \A i \in i_jobs : i \notin Of("load", s)
      BY <1>1, WayNat DEF Way, TypeFlow, PJobs
    <3>4. Way("load", s) = 0
      BY <3>2, <3>3
    <3>5. \A i \in i_jobs : i \in I!Job
      BY <1>1 DEF TypeFlow
    <3> QED  BY <2>1, <3>3, <3>4, <3>5, JobType
  <2>9. \A k \in Kinds : \A x \in Heard(k) : Owed(k, x)' = Owed(k, x) + One(j, Of(k, x))
    <3> SUFFICES ASSUME NEW k \in Kinds, NEW x \in Heard(k)
                 PROVE  Owed(k, x)' = Owed(k, x) + One(j, Of(k, x))
      OBVIOUS
    <3>1. (j \in Of(k, x)) <=> (j.kind = k /\ j.name = x)
      BY <2>1, JobType
    <3>2. CASE k = "load"
      <4>1. x \in Sources
        BY <3>2 DEF Heard
      <4>2. One(j, Of(k, x)) = IF x = s THEN 1 ELSE 0
        BY <2>1, <3>1, <3>2 DEF One
      <4>3. /\ Owed(k, x) = (IF i_entries[x] = "loading" THEN 1 ELSE 0)
            /\ Owed(k, x)' = (IF i_entries'[x] = "loading" THEN 1 ELSE 0)
        BY <3>2 DEF Owed
      <4> QED  BY <2>4, <2>5, <4>1, <4>2, <4>3
    <3>3. CASE k # "load"
      <4>1. One(j, Of(k, x)) = 0
        BY <2>1, <3>1, <3>3 DEF One
      <4>2. Owed(k, x)' = Owed(k, x)
        BY <1>2, <3>3 DEF Owed, I!Tally
      <4>3. Owed(k, x) \in Nat
        <5>1. I!Tally(i_requested, {x} \X Views) \in Nat
          BY <1>3, HitsFinite
        <5> QED  BY <5>1 DEF Owed
      <4> QED  BY <4>1, <4>2, <4>3
    <3> QED  BY <3>2, <3>3
  <2>10. PSound'
    BY <1>1, <1>2, SoundStays DEF I!channel
  <2>11. /\ i_told' \in [Views -> [I!Names -> Nat]] /\ j.name \notin Documents
         /\ \A i \in i_jobs : i.kind = "refine" => i_refining'[i.name] = i_refining[i.name]
         /\ j.kind # "document" /\ j.kind # "refine" /\ j.stage # "decode"
    BY <1>1, <1>2, <1>3, <1>10, <2>1 DEF TypeReports
  <2> QED  BY <1>2, <1>4, <1>5, <2>1, <2>2, <2>6, <2>7, <2>8, <2>9, <2>10, <2>11, StartStep
<1> QED  BY <1>8, <1>9, <1>10 DEF I!Request

LEMMA ReplyType ==
  ASSUME NEW c \in I!Completion
  PROVE  /\ c.kind \in I!LoadAnswers \cup I!RefineAnswers \cup {"requested"}
         /\ c.name \in I!Names /\ c.size \in 0..Full
         /\ \A x : (c \in Replies("load", x)) <=> (c.kind \in I!LoadAnswers /\ c.name = x)
         /\ \A x : (c \in Replies("refine", x)) <=> (c.kind \in I!RefineAnswers /\ c.name = x)
         /\ \A x : (c \in Replies("document", x)) <=> (c.kind = "requested" /\ c.name = x)
<1>1. /\ c.kind \in I!LoadAnswers \cup I!RefineAnswers \cup {"requested"}
      /\ c.name \in I!Names /\ c.size \in 0..Full
  BY DEF I!Completion, I!LoadAnswers, I!RefineAnswers
<1>2. c = [kind |-> c.kind, name |-> c.name, size |-> c.size]
  BY DEF I!Completion
<1>3. \A kinds, x : (c \in I!Answers(kinds, x)) <=> (c.kind \in kinds /\ c.name = x)
  BY <1>1, <1>2 DEF I!Answers
<1>4. \A x : (c \in Replies("load", x)) <=> (c.kind \in I!LoadAnswers /\ c.name = x)
  BY <1>3 DEF Replies
<1>5. \A x : (c \in Replies("refine", x)) <=> (c.kind \in I!RefineAnswers /\ c.name = x)
  BY <1>3 DEF Replies
<1>6. \A x : (c \in Replies("document", x)) <=> (c.kind = "requested" /\ c.name = x)
  BY <1>3 DEF Replies
<1> QED  BY <1>1, <1>4, <1>5, <1>6

(* A refinement is noted as long as its job or its answer is on its way,   *)
(* so what changes the note changes it for none of them.                   *)
LEMMA NotesAgree ==
  ASSUME PJobs, NEW cs \in Seq(I!Completion), NEW ts \in Seq(I!Completion),
         Sound(cs), Sound(ts), i_jobs \subseteq I!Job,
         \A s \in Sources : i_refining'[s] = i_refining[s] \/ WayOf(i_jobs, cs, ts, "refine", s) = 0
  PROVE  /\ \A i \in i_jobs : i.kind = "refine" => i_refining'[i.name] = i_refining[i.name]
         /\ \A i \in 1..Len(cs) : cs[i].kind \in I!RefineAnswers =>
              i_refining'[cs[i].name] = i_refining[cs[i].name]
         /\ \A i \in 1..Len(ts) : ts[i].kind \in I!RefineAnswers =>
              i_refining'[ts[i].name] = i_refining[ts[i].name]
<1>1. \A s : WayOf(i_jobs, cs, ts, "refine", s) = 0 =>
           /\ \A j \in i_jobs : j \notin Of("refine", s)
           /\ \A i \in 1..Len(cs) : cs[i] \notin Replies("refine", s)
           /\ \A i \in 1..Len(ts) : ts[i] \notin Replies("refine", s)
  BY WayNat DEF PJobs
<1>2. ASSUME NEW i \in i_jobs, i.kind = "refine" PROVE i_refining'[i.name] = i_refining[i.name]
  <2>1. i \in I!Job /\ i.name \notin Documents
    BY <1>2 DEF PJobs
  <2>2. i \in Of("refine", i.name) /\ i.name \in Sources
    BY <1>2, <2>1, JobType DEF I!Names
  <2> QED  BY <1>1, <2>2
<1>3. ASSUME NEW i \in 1..Len(cs), cs[i].kind \in I!RefineAnswers
      PROVE  i_refining'[cs[i].name] = i_refining[cs[i].name]
  <2>1. cs[i] \in I!Completion
    OBVIOUS
  <2>2. cs[i].kind # "requested"
    BY <1>3 DEF I!RefineAnswers
  <2>3. cs[i].name \notin Documents
    BY <2>2 DEF Sound
  <2>4. cs[i] \in Replies("refine", cs[i].name) /\ cs[i].name \in Sources
    BY <1>3, <2>1, <2>3, ReplyType DEF I!Names
  <2> QED  BY <1>1, <2>4
<1>4. ASSUME NEW i \in 1..Len(ts), ts[i].kind \in I!RefineAnswers
      PROVE  i_refining'[ts[i].name] = i_refining[ts[i].name]
  <2>1. ts[i] \in I!Completion
    OBVIOUS
  <2>2. ts[i].kind # "requested"
    BY <1>4 DEF I!RefineAnswers
  <2>3. ts[i].name \notin Documents
    BY <2>2 DEF Sound
  <2>4. ts[i] \in Replies("refine", ts[i].name) /\ ts[i].name \in Sources
    BY <1>4, <2>1, <2>3, ReplyType DEF I!Names
  <2> QED  BY <1>1, <2>4
<1> QED  BY <1>2, <1>3, <1>4

LEMMA ReadStep ==
  ASSUME PInv, NEW s \in Sources, NEW target \in I!Sizes, I!Read(s, target)
  PROVE  PInv' /\ FrameKept
<1>1. /\ TypeCache /\ TypeTable /\ TypeFlow /\ TypeReports /\ PWaiting /\ PAsked /\ PWays
      /\ PJobs /\ PSound /\ PPermits /\ I!OverOnlyIfPinned
  BY DEF PInv
<1>2. /\ I!Call /\ i_entries[s] = "loaded" /\ i_entries' = i_entries /\ i_waiters' = i_waiters
      /\ i_requested' = i_requested /\ i_permits' = i_permits /\ i_lost' = i_lost
      /\ UNCHANGED I!channel /\ i_asked' = i_asked /\ i_told' = i_told
  BY DEF I!Read, I!reports
<1>3. /\ i_waiters' \in [Sources -> Seq(Views)]
      /\ i_asked' \in [Views -> [I!Names -> Nat]] /\ i_told' \in [Views -> [I!Names -> Nat]]
  BY <1>1, <1>2 DEF TypeTable, TypeReports
<1>4. PAsked'
  BY <1>1, <1>2, AskedStays DEF I!reports
<1>5. ASSUME UNCHANGED <<i_refining, i_jobs>>, TypeCache', I!OverOnlyIfPinned' PROVE PInv'
  <2>1. PWaiting' /\ UNCHANGED I!driver
    BY <1>1, <1>2, <1>5 DEF PWaiting, I!driver
  <2> QED  BY <1>2, <1>3, <1>4, <1>5, <2>1, CallStep
<1>6. CASE i_bitmaps[s] = 0 /\ I!Insert(s, target) /\ UNCHANGED <<i_refining, i_jobs>>
  BY <1>1, <1>5, <1>6, Inserted
<1>7. CASE i_bitmaps[s] = 0 /\ UNCHANGED <<I!cache, i_refining, i_jobs>>
  <2>1. FrameKept
    BY <1>7 DEF FrameKept, I!cache
  <2> QED  BY <1>1, <1>5, <1>7, <2>1, CacheStays
<1>8. CASE /\ i_bitmaps[s] # 0
           /\ i_older' = I!LatestUsed(s) /\ UNCHANGED <<i_bitmaps, i_pinned, i_budget, i_fresh>>
           /\ IF i_refining[s] = 0 /\ I!WantsRefinement(i_bitmaps[s], target)
                THEN /\ i_refining' = [i_refining EXCEPT ![s] = target]
                     /\ \E stage \in {"bytes", "permit"} :
                          i_jobs' = i_jobs \cup {I!Task("refine", s, target, 0, stage, "raster")}
                ELSE UNCHANGED <<i_refining, i_jobs>>
  <2>1. TypeCache' /\ I!OverOnlyIfPinned' /\ FrameKept
    BY <1>1, <1>8, Used DEF I!Resident
  <2>2. CASE UNCHANGED <<i_refining, i_jobs>>
    BY <1>5, <2>1, <2>2
  <2>3. CASE /\ i_refining[s] = 0 /\ i_refining' = [i_refining EXCEPT ![s] = target]
             /\ \E stage \in {"bytes", "permit"} :
                  i_jobs' = i_jobs \cup {I!Task("refine", s, target, 0, stage, "raster")}
    <3>1. PICK stage \in {"bytes", "permit"} :
                 i_jobs' = i_jobs \cup {I!Task("refine", s, target, 0, stage, "raster")}
      BY <2>3
    <3> DEFINE j == I!Task("refine", s, target, 0, stage, "raster")
    <3>2. /\ j.kind = "refine" /\ j.name = s /\ j.size = target /\ j.n = 0 /\ j.stage = stage
          /\ j \in I!Job /\ target \in I!Sizes /\ target # 0 /\ target \in 0..Full
      <4>1. target \in 0..Full /\ 0 \in 0..MaxActs /\ target # 0 /\ s \in I!Names
        BY Given DEF I!Sizes, I!Names
      <4> QED  BY <4>1 DEF I!Task, I!Job
    <3>3. i_jobs' = i_jobs \cup {j}
      BY <3>1
    <3> HIDE DEF j
    <3>4. /\ \A x \in Sources : i_refining'[x] = IF x = s THEN target ELSE i_refining[x]
          /\ i_refining' \in [Sources -> 0..Full]
      BY <1>1, <2>3, <3>2 DEF TypeTable
    <3>5. TypeTable' /\ PWaiting'
      BY <1>1, <1>2, <3>4 DEF TypeTable, PWaiting
    <3>6. Way("refine", s) = 0
      <4>1. "refine" \in Kinds /\ s \in Heard("refine")
        BY DEF Kinds, Heard
      <4>2. Way("refine", s) <= Owed("refine", s) /\ Owed("refine", s) = 0
        BY <1>1, <2>3, <4>1 DEF PWays, Owed
      <4>3. Way("refine", s) \in Nat
        BY <1>1, WayNat DEF Way, TypeFlow, PJobs
      <4> QED  BY <4>2, <4>3
    <3>7. /\ \A i \in i_jobs : i.kind = "refine" => i_refining'[i.name] = i_refining[i.name]
          /\ \A i \in 1..Len(i_completions) : i_completions[i].kind \in I!RefineAnswers =>
               i_refining'[i_completions[i].name] = i_refining[i_completions[i].name]
          /\ \A i \in 1..Len(i_turn) : i_turn[i].kind \in I!RefineAnswers =>
               i_refining'[i_turn[i].name] = i_refining[i_turn[i].name]
      <4>1. \A x \in Sources : i_refining'[x] = i_refining[x]
                                 \/ WayOf(i_jobs, i_completions, i_turn, "refine", x) = 0
        BY <3>4, <3>6 DEF Way
      <4> QED  BY <1>1, <4>1, NotesAgree DEF TypeFlow, PSound
    <3>8. PSound'
      <4>1. i_completions' = i_completions /\ i_turn' = i_turn
        BY <1>2 DEF I!channel
      <4> QED  BY <1>1, <3>7, <4>1 DEF PSound, Sound
    <3>9. \A i \in i_jobs : ~(i.kind = j.kind /\ i.name = j.name /\ i.n = j.n)
      <4>1. \A i \in i_jobs : i \notin Of("refine", s) /\ i \in I!Job
        BY <1>1, <3>6, WayNat DEF Way, TypeFlow, PJobs
      <4> QED  BY <3>2, <4>1, JobType
    <3>10. \A k \in Kinds : \A x \in Heard(k) : Owed(k, x)' = Owed(k, x) + One(j, Of(k, x))
      <4> SUFFICES ASSUME NEW k \in Kinds, NEW x \in Heard(k)
                   PROVE  Owed(k, x)' = Owed(k, x) + One(j, Of(k, x))
        OBVIOUS
      <4>1. (j \in Of(k, x)) <=> (j.kind = k /\ j.name = x)
        BY <3>2, JobType
      <4>2. CASE k = "refine"
        <5>1. x \in Sources
          BY <4>2 DEF Heard
        <5>2. One(j, Of(k, x)) = IF x = s THEN 1 ELSE 0
          BY <3>2, <4>1, <4>2 DEF One
        <5>3. /\ Owed(k, x) = (IF i_refining[x] # 0 THEN 1 ELSE 0)
              /\ Owed(k, x)' = (IF i_refining'[x] # 0 THEN 1 ELSE 0)
          BY <4>2 DEF Owed
        <5> QED  BY <2>3, <3>2, <3>4, <5>1, <5>2, <5>3
      <4>3. CASE k # "refine"
        <5>1. One(j, Of(k, x)) = 0
          BY <3>2, <4>1, <4>3 DEF One
        <5>2. Owed(k, x)' = Owed(k, x)
          BY <1>2, <4>3 DEF Owed, I!Tally
        <5>3. Owed(k, x) \in Nat
          <6>1. I!Tally(i_requested, {x} \X Views) \in Nat
            BY <1>1, HitsFinite DEF TypeTable
          <6> QED  BY <6>1 DEF Owed
        <5> QED  BY <5>1, <5>2, <5>3
      <4> QED  BY <4>2, <4>3
    <3>11. /\ j.kind # "document" /\ j.kind # "load" /\ j.stage # "decode"
           /\ j.name \notin Documents /\ j.size = i_refining'[j.name]
      BY <3>1, <3>2, <3>4, Given
    <3> QED  BY <1>2, <1>3, <1>4, <2>1, <3>2, <3>3, <3>5, <3>7, <3>8, <3>9, <3>10, <3>11,
                StartStep
  <2> QED  BY <1>8, <2>1, <2>2, <2>3
<1> QED  BY <1>6, <1>7, <1>8 DEF I!Read

-----------------------------------------------------------------------------
(* Apply: the answer that is taken off is one of those that were owed.     *)
LEMMA HeadOwed ==
  ASSUME PInv, i_turn # <<>>, NEW k \in Kinds, NEW x \in Heard(k),
         Head(i_turn) \in Replies(k, x)
  PROVE  /\ Owed(k, x) # 0
         /\ k # "document" => WayOf(i_jobs, i_completions, Tail(i_turn), k, x) = 0
<1>1. /\ i_completions \in Seq(I!Completion) /\ i_turn \in Seq(I!Completion) /\ IsFiniteSet(i_jobs)
      /\ Tail(i_turn) \in Seq(I!Completion)
  BY DEF PInv, TypeFlow, PJobs
<1>2. Way(k, x) = WayOf(i_jobs, i_completions, Tail(i_turn), k, x) + 1
  <2>1. WayOf(i_jobs, i_completions, i_turn, k, x)
          = WayOf(i_jobs, i_completions, Tail(i_turn), k, x) + One(Head(i_turn), Replies(k, x))
    BY <1>1, WayHead
  <2> QED  BY <2>1 DEF One, Way
<1>3. WayOf(i_jobs, i_completions, Tail(i_turn), k, x) \in Nat
  BY <1>1, WayNat
<1>4. Way(k, x) <= Owed(k, x)
  BY DEF PInv, PWays
<1>5. k # "document" => Owed(k, x) = 0 \/ Owed(k, x) = 1
  BY DEF Owed, Kinds
<1>6. Owed(k, x) \in Nat
  <2>1. I!Tally(i_requested, {x} \X Views) \in Nat
    BY HitsFinite DEF PInv, TypeTable
  <2> QED  BY <2>1 DEF Owed
<1> QED  BY <1>2, <1>3, <1>4, <1>5, <1>6

LEMMA ApplyRest ==
  ASSUME PInv, i_turn # <<>>, i_turn' = Tail(i_turn), UNCHANGED <<i_completions, I!driver, i_asked, i_acts>>,
         TypeCache', I!OverOnlyIfPinned', TypeTable', PWaiting', PAsked',
         i_told' \in [Views -> [I!Names -> Nat]],
         \A s \in Sources : i_refining'[s] = i_refining[s]
                              \/ WayOf(i_jobs, i_completions, Tail(i_turn), "refine", s) = 0,
         \A k \in Kinds : \A x \in Heard(k) :
           Owed(k, x) = Owed(k, x)' + One(Head(i_turn), Replies(k, x))
  PROVE  PInv'
<1>1. /\ TypeFlow /\ TypeReports /\ TypeTable /\ PWays /\ PJobs /\ PSound /\ PPermits
  BY DEF PInv
<1>2. /\ i_completions' = i_completions /\ i_jobs' = i_jobs /\ i_permits' = i_permits /\ i_lost' = i_lost
      /\ i_asked' = i_asked /\ i_acts' = i_acts /\ i_turn' = Tail(i_turn)
  BY DEF I!driver
<1>3. /\ i_completions \in Seq(I!Completion) /\ i_turn \in Seq(I!Completion) /\ IsFiniteSet(i_jobs)
      /\ Tail(i_turn) \in Seq(I!Completion) /\ i_jobs \subseteq I!Job
  BY <1>1 DEF TypeFlow, PJobs
<1>4. TypeFlow' /\ TypeReports' /\ PPermits'
  BY <1>1, <1>2, <1>3 DEF TypeFlow, TypeReports, PPermits, Decoding
<1>5. Sound(i_completions) /\ Sound(Tail(i_turn))
  <2>1. Sound(i_completions) /\ Sound(i_turn)
    BY <1>1 DEF PSound
  <2>2. /\ Len(Tail(i_turn)) = Len(i_turn) - 1 /\ Len(i_turn) \in Nat
        /\ \A i \in 1..Len(i_turn) - 1 : Tail(i_turn)[i] = i_turn[i + 1] /\ i + 1 \in 1..Len(i_turn)
    BY <1>3
  <2> DEFINE rest == Tail(i_turn)
  <2>3. \A i \in 1..Len(rest) : \E k \in 1..Len(i_turn) : rest[i] = i_turn[k]
    BY <2>2
  <2> HIDE DEF rest
  <2>4. Sound(rest)
    BY SMTT(30), <2>1, <2>3 DEF Sound
  <2> QED  BY <2>1, <2>4 DEF rest
<1>6. /\ \A i \in i_jobs : i.kind = "refine" => i_refining'[i.name] = i_refining[i.name]
      /\ \A i \in 1..Len(i_completions) : i_completions[i].kind \in I!RefineAnswers =>
           i_refining'[i_completions[i].name] = i_refining[i_completions[i].name]
      /\ \A i \in 1..Len(Tail(i_turn)) : Tail(i_turn)[i].kind \in I!RefineAnswers =>
           i_refining'[Tail(i_turn)[i].name] = i_refining[Tail(i_turn)[i].name]
  BY <1>1, <1>3, <1>5, NotesAgree
<1>7. PSound'
  <2> DEFINE rest == Tail(i_turn)
  <2>1. \A i \in 1..Len(rest) :
           /\ (rest[i].kind = "requested") <=> (rest[i].name \in Documents)
           /\ rest[i].kind = "loaded" => rest[i].size \in I!Sizes
           /\ rest[i].kind \in I!RefineAnswers =>
                rest[i].size \in I!Sizes /\ rest[i].size = i_refining'[rest[i].name]
    <3>1. Sound(rest) /\ \A i \in 1..Len(rest) : rest[i].kind \in I!RefineAnswers =>
                            i_refining'[rest[i].name] = i_refining[rest[i].name]
      BY <1>5, <1>6
    <3> HIDE DEF rest
    <3> QED  BY <3>1 DEF Sound
  <2>2. Sound(i_completions)'
    BY <1>2, <1>5, <1>6 DEF Sound
  <2>3. Sound(i_turn)'
    <3>1. i_turn' = rest
      BY <1>2
    <3> HIDE DEF rest
    <3> QED  BY <2>1, <3>1 DEF Sound, I!Sizes, I!RefineAnswers
  <2> QED  BY <2>2, <2>3 DEF PSound
<1>8. PJobs'
  <2>1. \A j \in i_jobs : j.kind = "refine" => j.size = i_refining'[j.name]
    BY <1>1, <1>6 DEF PJobs
  <2> QED  BY <1>1, <1>2, <2>1 DEF PJobs
<1>9. PWays'
  <2> SUFFICES ASSUME NEW k \in Kinds, NEW x \in Heard(k)
               PROVE  /\ Way(k, x)' <= Owed(k, x)'
                      /\ x \notin i_lost => Way(k, x)' = Owed(k, x)'
    BY <1>2 DEF PWays, Kinds, Heard
  <2>1. /\ Way(k, x) <= Owed(k, x)
        /\ x \notin i_lost => Way(k, x) = Owed(k, x)
    BY <1>1 DEF PWays
  <2>2. Way(k, x) = Way(k, x)' + One(Head(i_turn), Replies(k, x))
    <3>1. WayOf(i_jobs, i_completions, i_turn, k, x)
            = WayOf(i_jobs, i_completions, Tail(i_turn), k, x) + One(Head(i_turn), Replies(k, x))
      BY <1>3, WayHead
    <3>2. Way(k, x)' = WayOf(i_jobs', i_completions', i_turn', k, x)
      BY DEF Way, WayOf, Of, Replies
    <3> QED  BY <1>2, <3>1, <3>2 DEF Way
  <2>3. Way(k, x)' \in Nat
    <3>1. WayOf(i_jobs, i_completions, Tail(i_turn), k, x) \in Nat
      BY <1>3, WayNat
    <3>2. Way(k, x)' = WayOf(i_jobs', i_completions', i_turn', k, x)
      BY DEF Way, WayOf, Of, Replies
    <3> QED  BY <1>2, <3>1, <3>2
  <2>4. Owed(k, x)' \in Nat
    <3>1. I!Tally(i_requested', {x} \X Views) \in Nat
      BY HitsFinite DEF TypeTable
    <3>2. I!Tally(i_requested, {x} \X Views)' = I!Tally(i_requested', {x} \X Views)
      BY DEF I!Tally
    <3> QED  BY <3>1, <3>2 DEF Owed
  <2>5. One(Head(i_turn), Replies(k, x)) \in Nat
    BY DEF One
  <2>6. Owed(k, x) = Owed(k, x)' + One(Head(i_turn), Replies(k, x))
    OBVIOUS
  <2> QED  BY <2>1, <2>2, <2>3, <2>4, <2>5, <2>6
<1> QED  BY <1>4, <1>7, <1>8, <1>9 DEF PInv

LEMMA ApplyLoad ==
  ASSUME PInv, I!Apply, Head(i_turn).kind \in I!LoadAnswers
  PROVE  PInv' /\ FrameKept
<1> DEFINE h == Head(i_turn)
           x == h.name
<1>1. /\ TypeCache /\ TypeTable /\ TypeFlow /\ TypeReports /\ PWaiting /\ PAsked /\ PWays
      /\ PJobs /\ PSound /\ PPermits /\ I!OverOnlyIfPinned
  BY DEF PInv
<1>2. /\ i_turn # <<>> /\ i_turn' = Tail(i_turn) /\ i_completions' = i_completions
      /\ UNCHANGED I!driver /\ i_asked' = i_asked /\ i_acts' = i_acts
  BY DEF I!Apply
<1>3. /\ h \in I!Completion /\ i_turn \in Seq(I!Completion) /\ Len(i_turn) >= 1 /\ h = i_turn[1]
  BY <1>1, <1>2 DEF TypeFlow
<1>4. /\ h.kind \in I!LoadAnswers /\ x \in Sources /\ x \in I!Names
      /\ h.kind = "loaded" => h.size \in I!Sizes
  <2>1. /\ (h.kind = "requested") <=> (h.name \in Documents)
        /\ h.kind = "loaded" => h.size \in I!Sizes
    BY <1>1, <1>3 DEF PSound, Sound
  <2>2. h.kind \in I!LoadAnswers /\ h.kind # "requested"
    BY DEF I!LoadAnswers
  <2>3. x \in I!Names
    BY <1>3, ReplyType
  <2> QED  BY <2>1, <2>2, <2>3 DEF I!Names
<1> HIDE DEF h
<1>5. i_entries[x] = "loading"
  <2>1. "load" \in Kinds /\ x \in Heard("load")
    BY <1>4 DEF Kinds, Heard
  <2>2. h \in Replies("load", x)
    BY <1>3, <1>4, ReplyType
  <2>3. Owed("load", x) # 0
    BY <1>2, <2>1, <2>2, HeadOwed DEF h
  <2> QED  BY <2>3 DEF Owed
<1> DEFINE now == IF h.kind = "failed" THEN "failed" ELSE h.kind
<1>6. /\ i_entries' = [i_entries EXCEPT ![x] = now]
      /\ i_waiters' = [i_waiters EXCEPT ![x] = <<>>]
      /\ I!TellAll(i_waiters[x], x)
      /\ IF h.kind = "loaded" THEN I!Insert(x, h.size) ELSE UNCHANGED I!cache
      /\ i_refining' = i_refining /\ i_requested' = i_requested
  BY <1>4, <1>5 DEF I!Apply, I!LoadAnswers, h
<1>7. TypeCache' /\ I!OverOnlyIfPinned' /\ FrameKept
  <2>1. CASE h.kind = "loaded"
    BY <1>1, <1>4, <1>6, <2>1, Inserted
  <2>2. CASE h.kind # "loaded"
    <3>1. UNCHANGED I!cache
      BY <1>6, <2>2
    <3>2. FrameKept
      BY <3>1 DEF FrameKept, I!cache
    <3> QED  BY <1>1, <3>1, <3>2, CacheStays
  <2> QED  BY <2>1, <2>2
<1>8. now \in {"loaded", "parsed", "failed"}
  BY <1>4 DEF I!LoadAnswers
<1> HIDE DEF now
<1>9. /\ \A s \in Sources : i_entries'[s] = IF s = x THEN now ELSE i_entries[s]
      /\ \A s \in Sources : i_waiters'[s] = IF s = x THEN <<>> ELSE i_waiters[s]
      /\ <<>> \in Seq(Views)
  BY <1>1, <1>6 DEF TypeTable
<1>10. i_refining[x] = 0
  <2>1. i_entries[x] # "loaded"
    BY <1>5
  <2> QED  BY <1>1, <1>4, <2>1 DEF PWaiting
<1>11. TypeTable'
  <2>1. i_entries' \in [Sources -> {"none", "loading", "loaded", "parsed", "failed"}]
    BY <1>1, <1>6, <1>8 DEF TypeTable
  <2>2. i_waiters' \in [Sources -> Seq(Views)]
    BY <1>1, <1>6, <1>9 DEF TypeTable
  <2> QED  BY <1>1, <1>6, <2>1, <2>2 DEF TypeTable
<1>12. PWaiting'
  BY <1>1, <1>4, <1>6, <1>9, <1>10 DEF PWaiting
<1>13. \A w \in Views, s \in Sources : I!Tally(i_waiters[s], {w}) \in Nat
  BY <1>1, HitsFinite DEF TypeTable
<1>14. /\ i_told' \in [Views -> [I!Names -> Nat]]
       /\ \A w \in Views, y \in I!Names :
            i_told'[w][y] = IF y = x THEN i_told[w][y] + I!Tally(i_waiters[x], {w}) ELSE i_told[w][y]
  <2>1. i_told' = [w \in Views |-> [i_told[w] EXCEPT ![x] = @ + I!Tally(i_waiters[x], {w})]]
    BY <1>6 DEF I!TellAll
  <2>2. \A w \in Views : i_told[w] \in [I!Names -> Nat] /\ i_told[w][x] \in Nat
    BY <1>1, <1>4 DEF TypeReports
  <2> DEFINE new(w) == [i_told[w] EXCEPT ![x] = @ + I!Tally(i_waiters[x], {w})]
  <2>3. \A w \in Views : /\ new(w) \in [I!Names -> Nat]
                         /\ \A y \in I!Names : new(w)[y] = IF y = x
                              THEN i_told[w][y] + I!Tally(i_waiters[x], {w}) ELSE i_told[w][y]
    <3> SUFFICES ASSUME NEW w \in Views
                 PROVE  /\ new(w) \in [I!Names -> Nat]
                        /\ \A y \in I!Names : new(w)[y] = IF y = x
                              THEN i_told[w][y] + I!Tally(i_waiters[x], {w}) ELSE i_told[w][y]
      OBVIOUS
    <3>1. /\ i_told[w] \in [I!Names -> Nat] /\ i_told[w][x] \in Nat
          /\ I!Tally(i_waiters[x], {w}) \in Nat
      BY <1>4, <1>13, <2>2
    <3> DEFINE f == i_told[w]
               n == I!Tally(i_waiters[x], {w})
    <3>2. f \in [I!Names -> Nat] /\ f[x] \in Nat /\ n \in Nat /\ f[x] + n \in Nat
      BY <3>1
    <3>3. new(w) = [f EXCEPT ![x] = f[x] + n]
      OBVIOUS
    <3> HIDE DEF f, n, new
    <3>4. /\ new(w) \in [I!Names -> Nat]
          /\ \A y \in I!Names : new(w)[y] = IF y = x THEN f[x] + n ELSE f[y]
      BY <1>4, <3>2, <3>3
    <3> QED  BY <3>4 DEF f, n
  <2>4. i_told' = [w \in Views |-> new(w)]
    BY <2>1
  <2> HIDE DEF new
  <2> QED  BY <2>3, <2>4
<1>15. PAsked'
  <2>1. ASSUME NEW w \in Views, NEW s \in Sources
        PROVE  i_asked'[w][s] = i_told'[w][s] + I!Tally(i_waiters[s], {w})'
    <3>1. i_asked[w][s] = i_told[w][s] + I!Tally(i_waiters[s], {w}) /\ s \in I!Names
      BY <1>1 DEF PAsked, I!Names
    <3>2. I!Tally(i_waiters[s], {w})' = I!Tally(i_waiters'[s], {w}) /\ I!Tally(<<>>, {w}) = 0
      BY TallyNone DEF I!Tally
    <3>3. I!Tally(i_waiters'[s], {w}) = IF s = x THEN 0 ELSE I!Tally(i_waiters[s], {w})
      BY <1>9, <3>2
    <3>4. i_told'[w][s] = IF s = x THEN i_told[w][s] + I!Tally(i_waiters[x], {w}) ELSE i_told[w][s]
      BY <1>14, <3>1
    <3>5. i_told[w][s] \in Nat /\ I!Tally(i_waiters[s], {w}) \in Nat
      BY <1>1, <1>13, <3>1 DEF TypeReports
    <3> QED  BY <1>2, <3>1, <3>2, <3>3, <3>4, <3>5
  <2>2. \A w \in Views, d \in Documents :
          i_asked'[w][d] = i_told'[w][d] + I!Tally(i_requested, {<<d, w>>})'
    <3>1. \A w \in Views, d \in Documents :
            i_asked[w][d] = i_told[w][d] + I!Tally(i_requested, {<<d, w>>})
      BY <1>1 DEF PAsked
    <3>2. \A d \in Documents : d # x /\ d \in I!Names
      BY <1>4, Given DEF I!Names
    <3>3. \A w \in Views, d \in Documents : i_told'[w][d] = i_told[w][d]
      BY <1>14, <3>2
    <3>4. \A w \in Views, d \in Documents :
            I!Tally(i_requested, {<<d, w>>})' = I!Tally(i_requested, {<<d, w>>})
      BY <1>6 DEF I!Tally
    <3> QED  BY <1>2, <3>1, <3>3, <3>4
  <2> QED  BY <2>1, <2>2 DEF PAsked
<1>16. \A k \in Kinds : \A y \in Heard(k) :
         Owed(k, y) = Owed(k, y)' + One(h, Replies(k, y))
  <2> SUFFICES ASSUME NEW k \in Kinds, NEW y \in Heard(k)
               PROVE  Owed(k, y) = Owed(k, y)' + One(h, Replies(k, y))
    OBVIOUS
  <2>1. CASE k = "load"
    <3>1. y \in Sources
      BY <2>1 DEF Heard
    <3>2. One(h, Replies(k, y)) = IF y = x THEN 1 ELSE 0
      BY <1>3, <1>4, <2>1, ReplyType DEF One
    <3>3. /\ Owed(k, y) = (IF i_entries[y] = "loading" THEN 1 ELSE 0)
          /\ Owed(k, y)' = (IF i_entries'[y] = "loading" THEN 1 ELSE 0)
      BY <2>1 DEF Owed
    <3> QED  BY <1>5, <1>8, <1>9, <3>1, <3>2, <3>3
  <2>2. CASE k # "load"
    <3>1. One(h, Replies(k, y)) = 0
      <4>1. h.kind \notin I!RefineAnswers /\ h.kind # "requested"
        BY <1>4 DEF I!LoadAnswers, I!RefineAnswers
      <4>2. k = "refine" \/ k = "document"
        BY <2>2 DEF Kinds
      <4> QED  BY <1>3, <4>1, <4>2, ReplyType DEF One
    <3>2. Owed(k, y)' = Owed(k, y)
      BY <1>6, <2>2 DEF Owed, I!Tally
    <3>3. Owed(k, y) \in Nat
      <4>1. I!Tally(i_requested, {y} \X Views) \in Nat
        BY <1>1, HitsFinite DEF TypeTable
      <4> QED  BY <4>1 DEF Owed
    <3> QED  BY <3>1, <3>2, <3>3
  <2> QED  BY <2>1, <2>2
<1>17. PInv'
  <2>1. \A s \in Sources : i_refining'[s] = i_refining[s]
    BY <1>6
  <2> QED  BY <1>2, <1>7, <1>11, <1>12, <1>14, <1>15, <1>16, <2>1, ApplyRest DEF h
<1> QED  BY <1>7, <1>17

LEMMA ApplyRequested ==
  ASSUME PInv, I!Apply, Head(i_turn).kind = "requested"
  PROVE  PInv' /\ FrameKept
<1> DEFINE h == Head(i_turn)
           x == h.name
<1>1. /\ TypeCache /\ TypeTable /\ TypeFlow /\ TypeReports /\ PWaiting /\ PAsked /\ PWays
      /\ PJobs /\ PSound /\ PPermits /\ I!OverOnlyIfPinned
  BY DEF PInv
<1>2. /\ i_turn # <<>> /\ i_turn' = Tail(i_turn) /\ i_completions' = i_completions
      /\ UNCHANGED I!driver /\ i_asked' = i_asked /\ i_acts' = i_acts
  BY DEF I!Apply
<1>3. /\ h \in I!Completion /\ i_turn \in Seq(I!Completion) /\ Len(i_turn) >= 1 /\ h = i_turn[1]
  BY <1>1, <1>2 DEF TypeFlow
<1>4. /\ h.kind = "requested" /\ x \in Documents /\ x \in I!Names
      /\ i_requested \in Seq(Documents \X Views)
  BY SMTT(30), <1>1, <1>3 DEF PSound, Sound, I!Names, TypeTable
<1> HIDE DEF h
<1> DEFINE those == {i \in DOMAIN i_requested : i_requested[i][1] = x}
<1>5. those # {}
  <2>1. "document" \in Kinds /\ x \in Heard("document")
    BY <1>4 DEF Kinds, Heard
  <2>2. h \in Replies("document", x)
    BY <1>3, <1>4, ReplyType
  <2>3. Owed("document", x) # 0
    BY <1>2, <2>1, <2>2, HeadOwed DEF h
  <2>4. ~(I!Tally(i_requested, {x} \X Views) = 0)
    BY <2>3 DEF Owed
  <2>5. \E i \in 1..Len(i_requested) : i_requested[i] \in {x} \X Views
    BY <1>4, <2>4, HitsFinite
  <2> QED  BY <1>4, <2>5
<1>6. /\ i_entries' = i_entries /\ i_waiters' = i_waiters /\ i_refining' = i_refining /\ UNCHANGED I!cache
      /\ \E i \in those : /\ i_told' = [i_told EXCEPT ![i_requested[i][2]][x] = @ + 1]
                          /\ i_requested' = I!SwapRemove(i_requested, i)
  <2> HIDE DEF those
  <2>1. /\ IF those = {} THEN UNCHANGED <<i_requested, i_told>>
           ELSE \E i \in those :
                  /\ \A k \in those : i <= k
                  /\ i_told' = [i_told EXCEPT ![i_requested[i][2]][x] = @ + 1]
                  /\ i_requested' = I!SwapRemove(i_requested, i)
        /\ UNCHANGED <<i_entries, i_waiters, i_refining, I!cache>>
    BY <1>4 DEF I!Apply, h, those
  <2> QED  BY <1>5, <2>1
<1>7. PICK i \in those : /\ i_told' = [i_told EXCEPT ![i_requested[i][2]][x] = @ + 1]
                         /\ i_requested' = I!SwapRemove(i_requested, i)
  BY <1>6
<1> DEFINE v == i_requested[i][2]
<1>8. /\ i \in 1..Len(i_requested) /\ v \in Views /\ i_requested[i] = <<x, v>>
  <2>1. i \in 1..Len(i_requested) /\ i_requested[i][1] = x
    BY <1>4, <1>7
  <2>2. i_requested[i] \in Documents \X Views
    BY <1>4, <2>1
  <2> QED  BY <2>1, <2>2
<1>9. /\ i_requested' \in Seq(Documents \X Views)
      /\ \A these : I!Tally(i_requested, these) = I!Tally(i_requested, these)' + One(<<x, v>>, these)
  <2>1. /\ I!SwapRemove(i_requested, i) \in Seq(Documents \X Views)
        /\ \A these : I!Tally(i_requested, these)
                        = I!Tally(I!SwapRemove(i_requested, i), these) + One(i_requested[i], these)
    BY <1>4, <1>8, TallySwap
  <2>2. \A these : I!Tally(i_requested, these)' = I!Tally(i_requested', these)
    BY DEF I!Tally
  <2> QED  BY <1>7, <1>8, <2>1, <2>2
<1>10. /\ i_told' \in [Views -> [I!Names -> Nat]]
       /\ \A w \in Views, y \in I!Names :
            i_told'[w][y] = IF w = v /\ y = x THEN i_told[w][y] + 1 ELSE i_told[w][y]
  <2>1. i_told' = [i_told EXCEPT ![v][x] = @ + 1]
    BY <1>7
  <2>2. i_told \in [Views -> [I!Names -> Nat]]
    BY <1>1 DEF TypeReports
  <2> HIDE DEF v
  <2> QED  BY SMTT(30), <1>4, <1>8, <2>1, <2>2, OneMore
<1> HIDE DEF v, those
<1>11. TypeCache' /\ I!OverOnlyIfPinned' /\ FrameKept
  <2>1. FrameKept
    BY <1>6 DEF FrameKept, I!cache
  <2> QED  BY <1>1, <1>6, <2>1, CacheStays
<1>12. TypeTable' /\ PWaiting'
  BY <1>1, <1>6, <1>9 DEF TypeTable, PWaiting
<1>13. PAsked'
  <2>1. \A w \in Views, s \in Sources : i_asked'[w][s] = i_told'[w][s] + I!Tally(i_waiters[s], {w})'
    <3>1. \A w \in Views, s \in Sources : i_asked[w][s] = i_told[w][s] + I!Tally(i_waiters[s], {w})
      BY <1>1 DEF PAsked
    <3>2. \A s \in Sources : s # x /\ s \in I!Names
      BY <1>4, Given DEF I!Names
    <3>3. \A w \in Views, s \in Sources : i_told'[w][s] = i_told[w][s]
      BY <1>10, <3>2
    <3> QED  BY <1>2, <1>6, <3>1, <3>3 DEF I!Tally
  <2>2. ASSUME NEW w \in Views, NEW d \in Documents
        PROVE  i_asked'[w][d] = i_told'[w][d] + I!Tally(i_requested, {<<d, w>>})'
    <3>1. i_asked[w][d] = i_told[w][d] + I!Tally(i_requested, {<<d, w>>}) /\ d \in I!Names
      BY <1>1 DEF PAsked, I!Names
    <3>2. I!Tally(i_requested, {<<d, w>>})
            = I!Tally(i_requested, {<<d, w>>})' + One(<<x, v>>, {<<d, w>>})
      BY <1>9
    <3>3. One(<<x, v>>, {<<d, w>>}) = IF w = v /\ d = x THEN 1 ELSE 0
      BY DEF One
    <3>4. i_told'[w][d] = IF w = v /\ d = x THEN i_told[w][d] + 1 ELSE i_told[w][d]
      BY <1>10, <3>1
    <3>5. i_told[w][d] \in Nat /\ I!Tally(i_requested, {<<d, w>>})' \in Nat
      <4>1. I!Tally(i_requested', {<<d, w>>}) \in Nat
        BY <1>9, HitsFinite
      <4>2. I!Tally(i_requested, {<<d, w>>})' = I!Tally(i_requested', {<<d, w>>})
        BY DEF I!Tally
      <4> QED  BY <1>1, <3>1, <4>1, <4>2 DEF TypeReports
    <3>6. i_asked'[w][d] = i_asked[w][d]
      BY <1>2
    <3>7. I!Tally(i_requested, {<<d, w>>})
            = I!Tally(i_requested, {<<d, w>>})' + (IF w = v /\ d = x THEN 1 ELSE 0)
      BY <3>2, <3>3
    <3> QED  BY <3>1, <3>4, <3>5, <3>6, <3>7
  <2> QED  BY <2>1, <2>2 DEF PAsked
<1>14. \A k \in Kinds : \A y \in Heard(k) :
         Owed(k, y) = Owed(k, y)' + One(h, Replies(k, y))
  <2> SUFFICES ASSUME NEW k \in Kinds, NEW y \in Heard(k)
               PROVE  Owed(k, y) = Owed(k, y)' + One(h, Replies(k, y))
    OBVIOUS
  <2>1. CASE k = "document"
    <3>1. One(h, Replies(k, y)) = IF y = x THEN 1 ELSE 0
      BY <1>3, <1>4, <2>1, ReplyType DEF One
    <3>2. One(<<x, v>>, {y} \X Views) = IF y = x THEN 1 ELSE 0
      BY <1>8 DEF One
    <3>3. /\ Owed(k, y) = I!Tally(i_requested, {y} \X Views)
          /\ Owed(k, y)' = I!Tally(i_requested, {y} \X Views)'
      BY <2>1 DEF Owed
    <3> QED  BY <1>9, <3>1, <3>2, <3>3
  <2>2. CASE k # "document"
    <3>1. One(h, Replies(k, y)) = 0
      <4>1. h.kind \notin I!RefineAnswers /\ h.kind \notin I!LoadAnswers
        BY <1>4 DEF I!LoadAnswers, I!RefineAnswers
      <4>2. k = "refine" \/ k = "load"
        BY <2>2 DEF Kinds
      <4> QED  BY <1>3, <4>1, <4>2, ReplyType DEF One
    <3>2. Owed(k, y)' = Owed(k, y) /\ Owed(k, y) \in Nat
      <4>1. k = "refine" \/ k = "load"
        BY <2>2 DEF Kinds
      <4> QED  BY <1>6, <4>1 DEF Owed
    <3> QED  BY <3>1, <3>2
  <2> QED  BY <2>1, <2>2
<1>15. PInv'
  <2>1. \A s \in Sources : i_refining'[s] = i_refining[s]
    BY <1>6
  <2> QED  BY <1>2, <1>10, <1>11, <1>12, <1>13, <1>14, <2>1, ApplyRest DEF h
<1> QED  BY <1>11, <1>15

LEMMA ApplyRefined ==
  ASSUME PInv, I!Apply, Head(i_turn).kind \in I!RefineAnswers
  PROVE  PInv' /\ FrameKept
<1> DEFINE h == Head(i_turn)
           x == h.name
<1>1. /\ TypeCache /\ TypeTable /\ TypeFlow /\ TypeReports /\ PWaiting /\ PAsked /\ PWays
      /\ PJobs /\ PSound /\ PPermits /\ I!OverOnlyIfPinned
  BY DEF PInv
<1>2. /\ i_turn # <<>> /\ i_turn' = Tail(i_turn) /\ i_completions' = i_completions
      /\ UNCHANGED I!driver /\ i_asked' = i_asked /\ i_acts' = i_acts
  BY DEF I!Apply
<1>3. /\ h \in I!Completion /\ i_turn \in Seq(I!Completion) /\ Len(i_turn) >= 1 /\ h = i_turn[1]
  BY <1>1, <1>2 DEF TypeFlow
<1>4. /\ h.kind \in I!RefineAnswers /\ x \in Sources /\ x \in I!Names
      /\ h.size \in I!Sizes /\ h.size = i_refining[x]
  <2>1. /\ (h.kind = "requested") <=> (h.name \in Documents)
        /\ h.kind \in I!RefineAnswers => h.size \in I!Sizes /\ h.size = i_refining[h.name]
    BY <1>1, <1>3 DEF PSound, Sound
  <2>2. h.kind \in I!RefineAnswers /\ h.kind # "requested"
    BY DEF I!RefineAnswers
  <2>3. x \in I!Names
    BY <1>3, ReplyType
  <2> QED  BY <2>1, <2>2, <2>3 DEF I!Names
<1> HIDE DEF h
<1>5. /\ i_refining[x] # 0 /\ i_entries[x] = "loaded"
      /\ WayOf(i_jobs, i_completions, Tail(i_turn), "refine", x) = 0
  <2>1. "refine" \in Kinds /\ x \in Heard("refine") /\ "refine" # "document"
    BY <1>4 DEF Kinds, Heard
  <2>2. h \in Replies("refine", x)
    BY <1>3, <1>4, ReplyType
  <2>3. /\ Owed("refine", x) # 0
        /\ WayOf(i_jobs, i_completions, Tail(i_turn), "refine", x) = 0
    BY <1>2, <2>1, <2>2, HeadOwed DEF h
  <2>4. i_refining[x] # 0
    BY <2>3 DEF Owed
  <2> QED  BY <1>1, <1>4, <2>3, <2>4 DEF PWaiting
<1>6. /\ i_refining' = [i_refining EXCEPT ![x] = 0]
      /\ IF h.kind = "refined" THEN I!Insert(x, h.size) ELSE UNCHANGED I!cache
      /\ i_entries' = i_entries /\ i_waiters' = i_waiters /\ i_requested' = i_requested /\ i_told' = i_told
  <2>1. CASE h.kind = "refined"
    BY <1>4, <1>5, <2>1 DEF I!Apply, h
  <2>2. CASE h.kind = "refine failed"
    BY <1>4, <1>5, <2>2 DEF I!Apply, h
  <2> QED  BY <1>4, <2>1, <2>2 DEF I!RefineAnswers
<1>7. TypeCache' /\ I!OverOnlyIfPinned' /\ FrameKept
  <2>1. CASE h.kind = "refined"
    BY <1>1, <1>4, <1>6, <2>1, Inserted
  <2>2. CASE h.kind # "refined"
    <3>1. UNCHANGED I!cache
      BY <1>6, <2>2
    <3>2. FrameKept
      BY <3>1 DEF FrameKept, I!cache
    <3> QED  BY <1>1, <3>1, <3>2, CacheStays
  <2> QED  BY <2>1, <2>2
<1>8. /\ \A s \in Sources : i_refining'[s] = IF s = x THEN 0 ELSE i_refining[s]
      /\ i_refining' \in [Sources -> 0..Full]
  <2>1. i_refining \in [Sources -> 0..Full] /\ 0 \in 0..Full
    BY <1>1, Given DEF TypeTable
  <2>2. i_refining' = [i_refining EXCEPT ![x] = 0]
    BY <1>6
  <2> QED  BY <1>4, <2>1, <2>2
<1>9. TypeTable' /\ PWaiting'
  BY <1>1, <1>6, <1>8 DEF TypeTable, PWaiting
<1>10. PAsked' /\ i_told' \in [Views -> [I!Names -> Nat]]
  <2>1. UNCHANGED <<i_waiters, i_requested, I!reports>>
    BY <1>2, <1>6 DEF I!reports
  <2> QED  BY <1>1, <1>6, <2>1, AskedStays DEF TypeReports
<1>11. \A k \in Kinds : \A y \in Heard(k) :
         Owed(k, y) = Owed(k, y)' + One(h, Replies(k, y))
  <2> SUFFICES ASSUME NEW k \in Kinds, NEW y \in Heard(k)
               PROVE  Owed(k, y) = Owed(k, y)' + One(h, Replies(k, y))
    OBVIOUS
  <2>1. CASE k = "refine"
    <3>1. y \in Sources
      BY <2>1 DEF Heard
    <3>2. One(h, Replies(k, y)) = IF y = x THEN 1 ELSE 0
      BY <1>3, <1>4, <2>1, ReplyType DEF One
    <3>3. /\ Owed(k, y) = (IF i_refining[y] # 0 THEN 1 ELSE 0)
          /\ Owed(k, y)' = (IF i_refining'[y] # 0 THEN 1 ELSE 0)
      BY <2>1 DEF Owed
    <3> QED  BY <1>5, <1>8, <3>1, <3>2, <3>3
  <2>2. CASE k # "refine"
    <3>1. One(h, Replies(k, y)) = 0
      <4>1. h.kind \notin I!LoadAnswers /\ h.kind # "requested"
        BY <1>4 DEF I!LoadAnswers, I!RefineAnswers
      <4>2. k = "load" \/ k = "document"
        BY <2>2 DEF Kinds
      <4> QED  BY <1>3, <4>1, <4>2, ReplyType DEF One
    <3>2. Owed(k, y)' = Owed(k, y)
      BY <1>6, <2>2 DEF Owed, I!Tally
    <3>3. Owed(k, y) \in Nat
      <4>1. I!Tally(i_requested, {y} \X Views) \in Nat
        BY <1>1, HitsFinite DEF TypeTable
      <4> QED  BY <4>1 DEF Owed
    <3> QED  BY <3>1, <3>2, <3>3
  <2> QED  BY <2>1, <2>2
<1>12. PInv'
  <2>1. \A s \in Sources : i_refining'[s] = i_refining[s]
                             \/ WayOf(i_jobs, i_completions, Tail(i_turn), "refine", s) = 0
    BY <1>5, <1>8
  <2> QED  BY <1>2, <1>7, <1>9, <1>10, <1>11, <2>1, ApplyRest DEF h
<1> QED  BY <1>7, <1>12

LEMMA ApplyStep ==
  ASSUME PInv, I!Apply
  PROVE  PInv' /\ FrameKept
<1>1. i_turn \in Seq(I!Completion) /\ i_turn # <<>>
  BY DEF PInv, TypeFlow, I!Apply
<1>2. Head(i_turn) \in I!Completion
  BY <1>1
<1>3. Head(i_turn).kind \in I!LoadAnswers \cup I!RefineAnswers \cup {"requested"}
  BY <1>2, ReplyType
<1> QED  BY <1>3, ApplyLoad, ApplyRefined, ApplyRequested

-----------------------------------------------------------------------------
LEMMA InitHolds == I!Init => PInv
<1> SUFFICES ASSUME I!Init PROVE PInv
  OBVIOUS
<1>1. /\ i_entries = [s \in Sources |-> "none"] /\ i_waiters = [s \in Sources |-> <<>>]
      /\ i_refining = [s \in Sources |-> 0] /\ i_bitmaps = [s \in Sources |-> 0]
      /\ i_older = {} /\ i_pinned = {} /\ i_budget \in Budgets /\ i_fresh \in Sources
      /\ i_requested = <<>> /\ i_jobs = {} /\ i_permits = Permits
      /\ i_completions = <<>> /\ i_turn = <<>> /\ i_lost = {}
      /\ i_asked = [v \in Views |-> [x \in I!Names |-> 0]] /\ i_told = i_asked
      /\ i_acts = 0
  BY Given DEF I!Init
<1>2. I!Resident = {}
  BY <1>1 DEF I!Resident
<1>3. TypeCache /\ I!OverOnlyIfPinned
  BY <1>1, <1>2, Given DEF TypeCache, I!OverOnlyIfPinned
<1>4. TypeTable /\ PWaiting
  <2>1. <<>> \in Seq(Views) /\ <<>> \in Seq(Documents \X Views)
    OBVIOUS
  <2> QED  BY <1>1, <2>1, Given DEF TypeTable, PWaiting
<1>5. TypeFlow /\ TypeReports
  <2>1. <<>> \in Seq(I!Completion)
    OBVIOUS
  <2> QED  BY <1>1, <2>1, Given DEF TypeFlow, TypeReports
<1>6. PAsked
  <2>1. \A these : I!Tally(<<>>, these) = 0
    BY TallyNone
  <2> QED  BY <1>1, <2>1 DEF PAsked, I!Names
<1>7. PJobs /\ PSound
  BY <1>1, FS_EmptySet DEF PJobs, PSound, Sound
<1>8. Cardinality({}) = 0 /\ \A S : {} \cap S = {}
  BY FS_EmptySet
<1>9. PPermits
  BY <1>1, <1>8, Given DEF PPermits
<1>10. PWays
  <2> SUFFICES ASSUME NEW k \in Kinds, NEW x \in Heard(k)
               PROVE  Way(k, x) = 0 /\ Owed(k, x) = 0
    BY DEF PWays
  <2>1. I!Tally(<<>>, Replies(k, x)) = 0 /\ I!Tally(<<>>, {x} \X Views) = 0
    BY TallyNone
  <2>2. Way(k, x) = 0
    BY <1>1, <1>8, <2>1 DEF Way, WayOf
  <2>3. Owed(k, x) = 0
    BY <1>1, <2>1 DEF Owed, Kinds, Heard
  <2> QED  BY <2>2, <2>3
<1> QED  BY <1>3, <1>4, <1>5, <1>6, <1>7, <1>9, <1>10 DEF PInv

LEMMA StepHolds ==
  ASSUME PInv, I!Next
  PROVE  PInv' /\ FrameKept
<1>1. ASSUME UNCHANGED I!cache PROVE FrameKept
  BY <1>1 DEF FrameKept, I!cache
<1>2. ASSUME NEW v \in Views, NEW s \in Sources, I!Request(v, s) PROVE PInv' /\ FrameKept
  BY <1>1, <1>2, RequestStep DEF I!Request
<1>3. ASSUME NEW v \in Views, NEW d \in Documents, I!RequestDocument(v, d)
      PROVE  PInv' /\ FrameKept
  BY <1>1, <1>3, RequestDocumentStep DEF I!RequestDocument
<1>4. ASSUME NEW s \in Sources, NEW target \in I!Sizes, I!Read(s, target) PROVE PInv' /\ FrameKept
  BY <1>4, ReadStep
<1>5. ASSUME NEW frame \in SUBSET Sources, I!Retain(frame) PROVE PInv' /\ FrameKept
  BY <1>5, RetainStep
<1>6. ASSUME NEW bytes \in Budgets, I!SetBudget(bytes) PROVE PInv' /\ FrameKept
  BY <1>6, SetBudgetStep
<1>7. CASE I!Service
  BY <1>1, <1>7, ServiceStep DEF I!Service
<1>8. CASE I!Apply
  BY <1>8, ApplyStep
<1>9. ASSUME NEW j \in i_jobs, I!GetBytes(j) PROVE PInv' /\ FrameKept
  BY <1>1, <1>9, GetBytesStep DEF I!GetBytes
<1>10. ASSUME NEW j \in i_jobs, I!AcquireDecode(j) PROVE PInv' /\ FrameKept
  BY <1>1, <1>10, AcquireDecodeStep DEF I!AcquireDecode
<1>11. ASSUME NEW j \in i_jobs, I!Decode(j) PROVE PInv' /\ FrameKept
  BY <1>1, <1>11, DecodeStep DEF I!Decode
<1>12. ASSUME NEW j \in i_jobs, I!Complete(j) PROVE PInv' /\ FrameKept
  BY <1>1, <1>12, CompleteStep DEF I!Complete
<1>13. ASSUME NEW j \in i_jobs, I!Refused(j) PROVE PInv' /\ FrameKept
  BY <1>1, <1>13, RefusedStep DEF I!Refused
<1> QED
  BY <1>2, <1>3, <1>4, <1>5, <1>6, <1>7, <1>8, <1>9, <1>10, <1>11, <1>12, <1>13
     DEF I!Next, I!Step

LEMMA StutterHolds ==
  ASSUME PInv, UNCHANGED I!vars
  PROVE  PInv'
<1>1. /\ TypeCache /\ TypeTable /\ TypeFlow /\ TypeReports /\ PWaiting /\ PAsked /\ PWays
      /\ PJobs /\ PSound /\ PPermits /\ I!OverOnlyIfPinned
  BY DEF PInv
<1>2. /\ UNCHANGED I!cache /\ UNCHANGED I!table /\ UNCHANGED <<i_completions, i_turn, i_refining>>
      /\ UNCHANGED <<i_waiters, i_requested, I!reports>> /\ i_jobs' = i_jobs /\ i_permits' = i_permits
      /\ i_lost' = i_lost /\ i_asked' = i_asked /\ i_told' = i_told /\ i_acts' = i_acts
      /\ i_completions' = i_completions /\ i_turn' = i_turn /\ i_refining' = i_refining
  BY DEF I!vars, I!cache, I!table, I!reports
<1>3. TypeCache' /\ I!OverOnlyIfPinned'
  BY <1>1, <1>2, CacheStays
<1>4. TypeTable' /\ PWaiting' /\ \A k, x : Owed(k, x)' = Owed(k, x)
  BY <1>1, <1>2, TableStays
<1>5. PAsked'
  BY <1>1, <1>2, AskedStays
<1>6. PSound'
  BY <1>1, <1>2, SoundStays
<1>7. PWays'
  <2>1. \A k, x : Way(k, x)' = Way(k, x)
    BY <1>2 DEF Way, WayOf, Of, Replies
  <2> QED  BY <1>1, <1>2, <1>4, <2>1, WaysStay
<1>8. TypeFlow' /\ TypeReports' /\ PJobs' /\ PPermits'
  BY <1>1, <1>2 DEF TypeFlow, TypeReports, PJobs, PPermits, Decoding
<1> QED  BY <1>3, <1>4, <1>5, <1>6, <1>7, <1>8 DEF PInv

LEMMA IsTold == PInv => I!EveryoneIsTold
<1> SUFFICES ASSUME PInv PROVE I!EveryoneIsTold
  OBVIOUS
<1>1. I!TypeOK
  BY TypeParts DEF PInv
<1>2. \A kind, x : I!Tasks(kind, x) = Cardinality(i_jobs \cap Of(kind, x))
  <2> SUFFICES ASSUME NEW kind, NEW x
               PROVE  I!Tasks(kind, x) = Cardinality(i_jobs \cap Of(kind, x))
    OBVIOUS
  <2> DEFINE A == {j \in i_jobs : j.kind = kind /\ j.name = x}
             B == i_jobs \cap Of(kind, x)
  <2>1. A = B
    BY DEF PInv, TypeFlow, Of
  <2>2. I!Tasks(kind, x) = Cardinality(A)
    BY SameCounts DEF I!Tasks
  <2>3. Cardinality(A) = Cardinality(B)
    <3> HIDE DEF A, B
    <3> QED  BY <2>1
  <2> QED  BY <2>2, <2>3
<1>3. \A x : /\ Cardinality(i_jobs \cap Of("load", x)) \in Nat
             /\ Cardinality(i_jobs \cap Of("refine", x)) \in Nat
             /\ Cardinality(i_jobs \cap Of("document", x)) \in Nat
  BY Counted DEF PInv, PJobs
<1>4. \A these : I!Tally(i_completions, these) \in Nat /\ I!Tally(i_turn, these) \in Nat
  BY HitsFinite DEF PInv, TypeFlow
<1>5. /\ \A x : I!Tasks("load", x) + I!InFlight(I!LoadAnswers, x) = Way("load", x)
      /\ \A x : I!Tasks("refine", x) + I!InFlight(I!RefineAnswers, x) = Way("refine", x)
      /\ \A x : I!Tasks("document", x) + I!InFlight({"requested"}, x) = Way("document", x)
  <2>1. /\ \A x : Replies("load", x) = I!Answers(I!LoadAnswers, x)
        /\ \A x : Replies("refine", x) = I!Answers(I!RefineAnswers, x)
        /\ \A x : Replies("document", x) = I!Answers({"requested"}, x)
    BY DEF Replies
  <2>2. \A kinds, x : I!InFlight(kinds, x)
                      = I!Tally(i_completions, I!Answers(kinds, x)) + I!Tally(i_turn, I!Answers(kinds, x))
    BY DEF I!InFlight
  <2>3. \A k, x : Way(k, x) = Cardinality(i_jobs \cap Of(k, x))
                     + I!Tally(i_completions, Replies(k, x)) + I!Tally(i_turn, Replies(k, x))
    BY DEF Way, WayOf
  <2>4. ASSUME NEW x PROVE I!Tasks("load", x) + I!InFlight(I!LoadAnswers, x) = Way("load", x)
    <3>1. /\ I!Tasks("load", x) = Cardinality(i_jobs \cap Of("load", x))
          /\ Cardinality(i_jobs \cap Of("load", x)) \in Nat
          /\ I!Tally(i_completions, Replies("load", x)) \in Nat
          /\ I!Tally(i_turn, Replies("load", x)) \in Nat
      BY <1>2, <1>3, <1>4
    <3>2. I!InFlight(I!LoadAnswers, x)
            = I!Tally(i_completions, Replies("load", x)) + I!Tally(i_turn, Replies("load", x))
      BY <2>1, <2>2
    <3>3. Way("load", x) = Cardinality(i_jobs \cap Of("load", x))
            + I!Tally(i_completions, Replies("load", x)) + I!Tally(i_turn, Replies("load", x))
      BY <2>3
    <3> QED  BY <3>1, <3>2, <3>3
  <2>5. ASSUME NEW x PROVE I!Tasks("refine", x) + I!InFlight(I!RefineAnswers, x) = Way("refine", x)
    <3>1. /\ I!Tasks("refine", x) = Cardinality(i_jobs \cap Of("refine", x))
          /\ Cardinality(i_jobs \cap Of("refine", x)) \in Nat
          /\ I!Tally(i_completions, Replies("refine", x)) \in Nat
          /\ I!Tally(i_turn, Replies("refine", x)) \in Nat
      BY <1>2, <1>3, <1>4
    <3>2. I!InFlight(I!RefineAnswers, x)
            = I!Tally(i_completions, Replies("refine", x)) + I!Tally(i_turn, Replies("refine", x))
      BY <2>1, <2>2
    <3>3. Way("refine", x) = Cardinality(i_jobs \cap Of("refine", x))
            + I!Tally(i_completions, Replies("refine", x)) + I!Tally(i_turn, Replies("refine", x))
      BY <2>3
    <3> QED  BY <3>1, <3>2, <3>3
  <2>6. ASSUME NEW x PROVE I!Tasks("document", x) + I!InFlight({"requested"}, x) = Way("document", x)
    <3>1. /\ I!Tasks("document", x) = Cardinality(i_jobs \cap Of("document", x))
          /\ Cardinality(i_jobs \cap Of("document", x)) \in Nat
          /\ I!Tally(i_completions, Replies("document", x)) \in Nat
          /\ I!Tally(i_turn, Replies("document", x)) \in Nat
      BY <1>2, <1>3, <1>4
    <3>2. I!InFlight({"requested"}, x)
            = I!Tally(i_completions, Replies("document", x)) + I!Tally(i_turn, Replies("document", x))
      BY <2>1, <2>2
    <3>3. Way("document", x) = Cardinality(i_jobs \cap Of("document", x))
            + I!Tally(i_completions, Replies("document", x)) + I!Tally(i_turn, Replies("document", x))
      BY <2>3
    <3> QED  BY <3>1, <3>2, <3>3
  <2> QED  BY <2>4, <2>5, <2>6
<1>6. ASSUME NEW s \in Sources \ i_lost
      PROVE  /\ I!Tasks("load", s) + I!InFlight(I!LoadAnswers, s)
                  = IF i_entries[s] = "loading" THEN 1 ELSE 0
             /\ I!Tasks("refine", s) + I!InFlight(I!RefineAnswers, s)
                  = IF i_refining[s] # 0 THEN 1 ELSE 0
             /\ \A j \in i_jobs : j.kind = "refine" /\ j.name = s => j.size = i_refining[s]
  <2>1. "load" \in Kinds /\ "refine" \in Kinds /\ s \in Heard("load") /\ s \in Heard("refine")
    BY DEF Kinds, Heard
  <2>2. Way("load", s) = Owed("load", s) /\ Way("refine", s) = Owed("refine", s)
    BY <2>1 DEF PInv, PWays
  <2> QED  BY <1>5, <2>2 DEF Owed, PInv, PJobs
<1>7. ASSUME NEW d \in Documents \ i_lost
      PROVE  I!Tasks("document", d) + I!InFlight({"requested"}, d) = I!Tally(i_requested, {d} \X Views)
  <2>1. "document" \in Kinds /\ d \in Heard("document")
    BY DEF Kinds, Heard
  <2>2. Way("document", d) = Owed("document", d)
    BY <2>1 DEF PInv, PWays
  <2> QED  BY <1>5, <2>2 DEF Owed
<1>8. \A v \in Views :
        /\ \A s \in Sources : i_asked[v][s] = i_told[v][s] + I!Tally(i_waiters[s], {v})
        /\ \A d \in Documents : i_asked[v][d] = i_told[v][d] + I!Tally(i_requested, {<<d, v>>})
  BY DEF PInv, PAsked
<1> QED  BY <1>1, <1>6, <1>7, <1>8 DEF I!EveryoneIsTold

(* The pictures keep the invariant (images.rs, cache/memory.rs,            *)
(* executor.rs): whatever of a load, a refinement or a report is owed is   *)
(* on its way once, and the cache is trimmed as far as it can be.          *)
THEOREM PicturesHold == I!Spec => []PInv
<1>1. PInv /\ [I!Next]_(I!vars) => PInv'
  BY StepHolds, StutterHolds
<1> QED  BY InitHolds, <1>1, PTL DEF I!Spec

(* Every request is answered once, to the view that made it (images.rs).   *)
THEOREM PicturesTold == I!Spec => []I!EveryoneIsTold
<1> QED  BY PicturesHold, IsTold, PTL

(* What is pinned is not evicted, and nothing else stays over the budget   *)
(* (cache/memory.rs, trim_sparing).                                        *)
THEOREM PicturesStay == I!Spec => I!FrameStays
<1>1. PInv /\ [I!Next]_(I!vars) =>
        [/\ \A s \in i_pinned' : i_bitmaps[s] # 0 => i_bitmaps'[s] # 0
         /\ I!OverOnlyIfPinned']_(I!vars)
  <2>1. ASSUME PInv, I!Next
        PROVE  /\ \A s \in i_pinned' : i_bitmaps[s] # 0 => i_bitmaps'[s] # 0
               /\ I!OverOnlyIfPinned'
    BY <2>1, StepHolds DEF FrameKept, PInv
  <2> QED  BY <2>1
<1> QED  BY PicturesHold, <1>1, PTL DEF I!Spec, I!FrameStays

-----------------------------------------------------------------------------
(* Each of the two takes its own steps or stands still.                    *)
LEMMA Apart == AnswersSpec => Spec /\ I!Spec
<1>1. AnswersInit => Init /\ I!Init
  BY DEF AnswersInit
<1>2. [AnswersNext]_all => [Next]_vars /\ [I!Next]_(I!vars)
  <2>1. UNCHANGED i_vars <=> UNCHANGED I!vars
    BY DEF i_vars, I!vars
  <2>2. UNCHANGED all => UNCHANGED vars /\ UNCHANGED i_vars
    BY DEF all
  <2> QED BY <2>1, <2>2 DEF AnswersNext
<1> QED BY <1>1, <1>2, PTL DEF AnswersSpec, Spec, I!Spec

(* Beside the pictures, too, every outcome reaches its own Future          *)
(* (future.rs, realm/owner.rs).                                            *)
THEOREM AnswersArrive ==
  ASSUME EnoughIds
  PROVE  AnswersSpec => []OutcomesArrive
BY Apart, Arrivals, PTL

(* What a view asked for is what it was told and what still waits, and what *)
(* waits is answered by something on its way: one load for a source that   *)
(* loads, one refinement of the noted size, a parse for each request of a  *)
(* document, unless the platform refused the task a thread (images.rs,     *)
(* executor.rs).                                                           *)
THEOREM AnswersTold == AnswersSpec => []EveryoneIsTold
BY Apart, PicturesTold, PTL DEF EveryoneIsTold

(* No insertion, new frame or smaller budget takes a picture from the      *)
(* frame being drawn, and the cache is over its budget only by what that   *)
(* frame pins (cache/memory.rs).                                           *)
THEOREM AnswersKeepFrames == AnswersSpec => FrameStays
BY Apart, PicturesStay, PTL DEF FrameStays
=============================================================================
