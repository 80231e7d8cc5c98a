----------------------------- MODULE FutureTable -----------------------------
(***************************************************************************)
(* The Futures of one realm: the host's table of operations, the realm's   *)
(* Future objects with the two shapes they are asked for in, and the ids   *)
(* that are all either side knows of the other.                            *)
(*                                                                         *)
(*   src/crates/bobcat-core/src/future.rs        FutureTable, its members  *)
(*   src/crates/bobcat-core/src/realm/owner.rs   settle_future, epilogue   *)
(*   src/packages/bobcat-element/src/future.ts   Future, settling          *)
(*                                                                         *)
(* A Future is named by the operation it was made for, and an outcome by   *)
(* the operation it came from.                                             *)
(***************************************************************************)
EXTENDS Naturals, Sequences, FiniteSets

CONSTANTS
  Futures,  \* the operations the realm starts, one Future each
  None,     \* no operation
  LastId    \* the greatest id of the counter, u32::MAX in the build

ASSUME NoneAssumption == None \notin Futures
ASSUME CounterAssumption == LastId \in Nat /\ LastId > 0

Ids == 1..LastId
Entry == [id : Ids, op : Futures]

VARIABLES
  \* the host
  done,       \* operations that have an outcome
  pending,    \* FutureTable.pending: id -> operation, None where there is none
  next_id,
  requests,   \* FutureTable.settle_requests, in order
  awaiting,   \* settle_future tasks on their operation
  deliveries, \* the entries those have queued
  ended,      \* the realm has ended
  \* the realm
  id,         \* of each Future made, 0 before
  answer,     \* Future.#answer
  converted,  \* Future.#converted
  promise,    \* what its Promise settled to; None while it is pending
  settling,   \* the table of conversions: id -> Future
  \* the job on the stack
  job,        \* "none", "running", "waiting"
  waiter,     \* the Future whose wait it is parked in
  waited      \* the operation waitFuture holds meanwhile

host == <<done, pending, next_id, requests, awaiting, deliveries, ended>>
realm == <<id, answer, converted, promise, settling>>
stack == <<job, waiter, waited>>
vars == <<host, realm, stack>>

Init ==
  /\ done = {}
  /\ pending = [i \in Ids |-> None]
  /\ next_id = 1
  /\ requests = <<>> /\ awaiting = {} /\ deliveries = <<>>
  /\ ended = FALSE
  /\ id = [f \in Futures |-> 0]
  /\ answer = [f \in Futures |-> None]
  /\ converted = [f \in Futures |-> FALSE]
  /\ promise = [f \in Futures |-> None]
  /\ settling = [i \in Ids |-> None]
  /\ job = "none" /\ waiter = None /\ waited = None

Made(f) == id[f] # 0

-----------------------------------------------------------------------------
(* The world.                                                              *)

(* An operation of the host's ends, whoever holds it and wherever.         *)
Complete(f) ==
  /\ Made(f) /\ f \notin done
  /\ done' = done \cup {f}
  /\ UNCHANGED <<pending, next_id, requests, awaiting, deliveries, ended, realm, stack>>

End ==
  /\ ~ended
  /\ ended' = TRUE
  /\ UNCHANGED <<done, pending, next_id, requests, awaiting, deliveries, realm, stack>>

-----------------------------------------------------------------------------
(* Script of the realm.                                                    *)

Enter ==
  /\ job = "none" /\ ~ended
  /\ job' = "running"
  /\ UNCHANGED <<host, realm, waiter, waited>>

Running == job = "running"

Free(i) == pending[i] = None

(* allocate_id, from next_id on and round.  An outcome is parked within    *)
(* one call of the realm's and has been taken when the next id is.         *)
Allocated ==
  IF \E i \in Ids : i >= next_id /\ Free(i)
    THEN CHOOSE i \in Ids : /\ i >= next_id /\ Free(i)
                            /\ \A k \in Ids : k >= next_id /\ Free(k) => i <= k
    ELSE CHOOSE i \in Ids : Free(i) /\ \A k \in Ids : Free(k) => i <= k

Register(f) ==
  /\ Running /\ ~Made(f)
  /\ \E i \in Ids : Free(i)
  /\ id' = [id EXCEPT ![f] = Allocated]
  /\ pending' = [pending EXCEPT ![Allocated] = f]
  /\ next_id' = IF Allocated = LastId THEN 1 ELSE Allocated + 1
  /\ UNCHANGED <<done, requests, awaiting, deliveries, ended, answer, converted,
                 promise, settling, stack>>

(* wait: refused once a Promise, remembered from the last wait, or a park  *)
(* with the operation taken out of the table.                              *)
Wait(f) ==
  /\ Running /\ Made(f) /\ ~converted[f] /\ answer[f] = None
  /\ pending[id[f]] # None
  /\ waiter' = f /\ waited' = pending[id[f]]
  /\ pending' = [pending EXCEPT ![id[f]] = None]
  /\ job' = "waiting"
  /\ UNCHANGED <<done, next_id, requests, awaiting, deliveries, ended, realm>>

WaitReturns ==
  /\ job = "waiting"
  /\ job' = "running" /\ waiter' = None /\ waited' = None
  /\ UNCHANGED <<done, next_id, requests, awaiting, deliveries, ended, id, converted,
                 promise, settling>>

WaitSettled ==
  /\ WaitReturns /\ ~ended /\ waited \in done
  /\ answer' = [answer EXCEPT ![waiter] = waited]
  /\ UNCHANGED pending

(* Nothing was cancelled: the operation goes back where it was.            *)
WaitTimedOut ==
  /\ WaitReturns /\ ~ended
  /\ pending' = [pending EXCEPT ![id[waiter]] = waited]
  /\ UNCHANGED answer

WaitEnded ==
  /\ WaitReturns /\ ended
  /\ UNCHANGED <<answer, pending>>

(* then: one Promise, of what a wait left or of the operation itself.      *)
Then(f) ==
  /\ Running /\ Made(f) /\ ~converted[f] /\ promise[f] = None
  /\ \/ /\ answer[f] # None
        /\ promise' = [promise EXCEPT ![f] = answer[f]]
        /\ UNCHANGED <<converted, settling, pending, requests>>
     \/ /\ answer[f] = None /\ pending[id[f]] # None
        /\ converted' = [converted EXCEPT ![f] = TRUE]
        /\ settling' = [settling EXCEPT ![id[f]] = f]
        /\ requests' = Append(requests, [id |-> id[f], op |-> pending[id[f]]])
        /\ pending' = [pending EXCEPT ![id[f]] = None]
        /\ UNCHANGED promise
  /\ UNCHANGED <<done, next_id, awaiting, deliveries, ended, id, answer, stack>>

(* Mutant of Return: the epilogue spawns one settle an entry.              *)
ReturnSpawnsOne ==
  /\ Running
  /\ job' = "none"
  /\ IF ended
       THEN UNCHANGED <<requests, awaiting>>
       ELSE /\ awaiting' = awaiting \cup {requests[i] : i \in DOMAIN requests \cap {1}}
            /\ requests' = <<>>
  /\ UNCHANGED <<done, pending, next_id, deliveries, ended, realm, waiter, waited>>

(* The end of a job: its epilogue spawns a task per settle asked for.      *)
Return ==
  /\ Running
  /\ job' = "none"
  /\ IF ended
       THEN UNCHANGED <<requests, awaiting>>
       ELSE /\ awaiting' = awaiting \cup {requests[i] : i \in DOMAIN requests}
            /\ requests' = <<>>
  /\ UNCHANGED <<done, pending, next_id, deliveries, ended, realm, waiter, waited>>

-----------------------------------------------------------------------------
(* settle_future, and what it enters the realm for.                        *)

Settle(e) ==
  /\ e \in awaiting /\ e.op \in done /\ ~ended
  /\ awaiting' = awaiting \ {e}
  /\ deliveries' = Append(deliveries, e)
  /\ UNCHANGED <<done, pending, next_id, requests, ended, realm, stack>>

(* Mutant of Deliver: a delivery is for the oldest conversion.             *)
DeliverOldest ==
  /\ job = "none" /\ deliveries # <<>> /\ ~ended
  /\ deliveries' = Tail(deliveries)
  /\ job' = "running"
  /\ \E i \in Ids :
       /\ settling[i] # None /\ \A k \in Ids : settling[k] # None => i <= k
       /\ settling' = [settling EXCEPT ![i] = None]
       /\ promise' = [promise EXCEPT ![settling[i]] = Head(deliveries).op]
  /\ UNCHANGED <<done, pending, next_id, requests, awaiting, ended, id, answer, converted,
                 waiter, waited>>

(* __BobcatSettleFuture: the table says whose Promise it is, if anyone's.  *)
Deliver ==
  /\ job = "none" /\ deliveries # <<>> /\ ~ended
  /\ deliveries' = Tail(deliveries)
  /\ job' = "running"
  /\ LET i == Head(deliveries).id
         f == settling[i]
     IN IF f = None
          THEN UNCHANGED <<settling, promise>>
          ELSE /\ settling' = [settling EXCEPT ![i] = None]
               /\ promise' = [promise EXCEPT ![f] = Head(deliveries).op]
  /\ UNCHANGED <<done, pending, next_id, requests, awaiting, ended, id, answer, converted,
                 waiter, waited>>

Over ==
  /\ ended /\ job = "none"
  /\ UNCHANGED vars

Next ==
  \/ End \/ Enter \/ WaitSettled \/ WaitTimedOut \/ WaitEnded \/ Return \/ Deliver \/ Over
  \/ \E f \in Futures : Complete(f) \/ Register(f) \/ Wait(f) \/ Then(f)
  \/ \E e \in awaiting : Settle(e)

Spec == Init /\ [][Next]_vars

(* The host answers what it was asked, a task that is ready is polled, a   *)
(* delivery has its turn in the thread's FIFO whatever is entered beside   *)
(* it, and no script runs for ever: between two waits of one job the       *)
(* return is possible again and again, and is made.                        *)
Fairness ==
  /\ \A f \in Futures : WF_vars(Complete(f))
  /\ WF_vars(\E e \in awaiting : Settle(e))
  /\ SF_vars(Deliver) /\ WF_vars(WaitSettled) /\ WF_vars(WaitEnded) /\ SF_vars(Return)

FairSpec == Spec /\ Fairness

-----------------------------------------------------------------------------
(* Every variable keeps its range.                                         *)
TypeOK ==
  /\ done \subseteq Futures
  /\ pending \in [Ids -> Futures \cup {None}]
  /\ next_id \in Ids
  /\ requests \in Seq(Entry) /\ deliveries \in Seq(Entry)
  /\ awaiting \subseteq Entry
  /\ ended \in BOOLEAN
  /\ id \in [Futures -> Ids \cup {0}]
  /\ answer \in [Futures -> Futures \cup {None}]
  /\ converted \in [Futures -> BOOLEAN]
  /\ promise \in [Futures -> Futures \cup {None}]
  /\ settling \in [Ids -> Futures \cup {None}]
  /\ job \in {"none", "running", "waiting"}
  /\ waiter \in Futures \cup {None} /\ waited \in Futures \cup {None}
  /\ (waiter = None) <=> (job # "waiting")

(* A Future answers with its own operation's outcome, in whichever shape   *)
(* it is asked and however the operations overtake one another: the id is  *)
(* all that says whose a delivery is.                                      *)
OwnOutcome ==
  \A f \in Futures : answer[f] \in {None, f} /\ promise[f] \in {None, f}

OnItsWay(f) ==
  \/ \E i \in DOMAIN requests : requests[i].op = f
  \/ \E e \in awaiting : e.op = f
  \/ \E i \in DOMAIN deliveries : deliveries[i].op = f

(* No operation is lost: until the realm ends each is in the table, held   *)
(* by the wait, on its way to its Promise, or answered.  A timed-out wait  *)
(* cancels nothing (future.rs, Waited::TimedOut).                          *)
NothingIsLost ==
  ~ended => \A f \in Futures : Made(f) =>
    \/ pending[id[f]] = f \/ waited = f \/ OnItsWay(f) \/ answer[f] = f \/ promise[f] = f

(* The realm's table and the host's agree: a conversion is filed exactly   *)
(* while its operation is on its way, so a delivery finds its Promise and  *)
(* no Promise is kept for a delivery that was made.                        *)
HalvesAgree ==
  /\ TypeOK
  /\ ~ended =>
       /\ \A f \in Futures :
            OnItsWay(f) <=> converted[f] /\ promise[f] = None /\ settling[id[f]] = f
       /\ \A i \in Ids : settling[i] # None => OnItsWay(settling[i])

(* Every outcome reaches its own Future and none other, by whichever of    *)
(* the two ways it is asked for (future.rs, future.ts).                    *)
OutcomesArrive == HalvesAgree /\ OwnOutcome /\ NothingIsLost

(* A Future's Promise settles, once the operation has, or the realm ends:  *)
(* no conversion is undone, so each is settled as often as all are.        *)
ConversionsSettle ==
  []<>\A f \in Futures : converted[f] => promise[f] # None \/ ended
=============================================================================
