---------------------------- MODULE HostTableProofs ----------------------------
(***************************************************************************)
(* That a realm which waits for a frame is owed one and that nobody is     *)
(* missed, for any number of workers, callbacks and records: both rest on  *)
(* the order in which the notices of one realm reach the table, and on     *)
(* where a worker's script is while they do.                               *)
(***************************************************************************)
EXTENDS HostTable, TLAPS

Demand(r) == [kind |-> "wants", realm |-> r]
Withdrawal(r) == [kind |-> "wants none", realm |-> r]
Creation(w) == [kind |-> "created", realm |-> w]

(* A realm is created before anything else is said of it.                  *)
CreatedFirst(s) ==
  \A i, j \in 1..Len(s) :
    s[i].kind = "created" /\ s[j].realm = s[i].realm => i <= j

(* What was withdrawn was asked for again.                                 *)
Reasked(s, r) ==
  \A i \in 1..Len(s) :
    s[i] = Withdrawal(r) => \E j \in 1..Len(s) : i < j /\ s[j] = Demand(r)

Unopened == {"none", "opening", "booted", "asked", "fetching"}

(* Where a script is says what there can be of its realm.                  *)
IRoot ==
  /\ root[Main] \in {"finished", "over"} /\ Main \notin held \cup reading
  /\ \A r \in Realms :
       root[r] \in Unopened =>
         callbacks[r] = {} /\ r \notin requested \cup in_frame \cup observing
  /\ \A w \in reading : root[w] \notin {"none", "over", "forgotten"}
  /\ \A w \in observing : root[w] # "forgotten"
  /\ \A w \in Workers : root[w] = "none" =>
       w \notin table \cup dropped /\ \A n \in ToSet(notices) : n.realm # w

(* A worker that can be reached has its address in the table, or on its    *)
(* way there ahead of all that is said of it.                              *)
ITable ==
  /\ CreatedFirst(notices)
  /\ \A n \in ToSet(notices) : n.kind = "created" =>
       /\ n.realm \in Workers \ table
       /\ root[n.realm] \notin {"none", "fetching", "running", "finished"}
  /\ \A n \in ToSet(notices) : n.kind = "call" => n.realm \in Workers
  /\ ~failed => \A w \in Workers :
       Reached(w) => w \in table \/ Creation(w) \in ToSet(notices)

(* What updateFrameRequest knows is what was said last.                    *)
IDemand ==
  \A r \in Realms :
    /\ Runs(r) /\ r \notin in_frame => (callbacks[r] # {} <=> r \in requested)
    /\ r \in requested => Reasked(notices, r)

(* A demand that is known is somewhere on its way round.                   *)
IAsked ==
  \A r \in Realms :
    Runs(r) /\ (r = Main \/ Reached(r)) /\ ~failed /\ r \in requested =>
      \/ r \in bits \/ OnTheWay(r, "vsync", "frame")
      \/ Demand(r) \in ToSet(notices)

(* Entries are owed to observers only.                                     *)
IOwed == \A w \in Workers \ observing : owed[w] = 0

IInv == TypeOK /\ IRoot /\ ITable /\ IDemand /\ IAsked /\ IOwed /\ NobodyIsMissed

-----------------------------------------------------------------------------
(* Sequences.                                                              *)
LEMMA Appended ==
  ASSUME NEW S, NEW s \in Seq(S), NEW e \in S
  PROVE  /\ Append(s, e) \in Seq(S) /\ Len(Append(s, e)) = Len(s) + 1
         /\ \A i \in 1..Len(s) : Append(s, e)[i] = s[i]
         /\ Append(s, e)[Len(s) + 1] = e
         /\ ToSet(Append(s, e)) = ToSet(s) \cup {e}
<1>1. /\ Append(s, e) \in Seq(S) /\ Len(Append(s, e)) = Len(s) + 1
      /\ \A i \in 1..Len(s) : Append(s, e)[i] = s[i]
      /\ Append(s, e)[Len(s) + 1] = e
  OBVIOUS
<1>2. /\ DOMAIN s = 1..Len(s) /\ DOMAIN Append(s, e) = 1..(Len(s) + 1)
      /\ Len(s) \in Nat
  BY <1>1
<1>3. ToSet(Append(s, e)) \subseteq ToSet(s) \cup {e}
  BY <1>1, <1>2 DEF ToSet
<1>4. ToSet(s) \subseteq ToSet(Append(s, e))
  BY <1>1, <1>2 DEF ToSet
<1>5. e \in ToSet(Append(s, e))
  BY <1>1, <1>2 DEF ToSet
<1> QED BY <1>1, <1>3, <1>4, <1>5

LEMMA Beheaded ==
  ASSUME NEW S, NEW s \in Seq(S), s # <<>>
  PROVE  /\ Tail(s) \in Seq(S) /\ Head(s) \in S /\ Head(s) = s[1]
         /\ Len(s) \in Nat \ {0} /\ Len(Tail(s)) = Len(s) - 1
         /\ \A i \in 1..(Len(s) - 1) : Tail(s)[i] = s[i + 1]
         /\ ToSet(s) = ToSet(Tail(s)) \cup {Head(s)}
<1>1. /\ Tail(s) \in Seq(S) /\ Head(s) \in S /\ Head(s) = s[1]
      /\ Len(s) \in Nat \ {0} /\ Len(Tail(s)) = Len(s) - 1
      /\ \A i \in 1..(Len(s) - 1) : Tail(s)[i] = s[i + 1]
  OBVIOUS
<1>2. DOMAIN s = 1..Len(s) /\ DOMAIN Tail(s) = 1..(Len(s) - 1)
  BY <1>1
<1>3. ToSet(s) \subseteq ToSet(Tail(s)) \cup {Head(s)}
  <2> SUFFICES ASSUME NEW i \in 1..Len(s) PROVE s[i] \in ToSet(Tail(s)) \cup {Head(s)}
    BY <1>2 DEF ToSet
  <2>1. CASE i = 1
    BY <1>1, <2>1
  <2>2. CASE i # 1
    <3>1. i - 1 \in 1..(Len(s) - 1) /\ Tail(s)[i - 1] = s[i]
      BY <1>1, <2>2
    <3> QED BY <1>2, <3>1 DEF ToSet
  <2> QED BY <2>1, <2>2
<1>4. ToSet(Tail(s)) \subseteq ToSet(s)
  <2> SUFFICES ASSUME NEW i \in 1..(Len(s) - 1) PROVE Tail(s)[i] \in ToSet(s)
    BY <1>2 DEF ToSet
  <2>1. i + 1 \in 1..Len(s) /\ Tail(s)[i] = s[i + 1]
    BY <1>1
  <2> QED BY <1>2, <2>1 DEF ToSet
<1>5. Head(s) \in ToSet(s)
  <2>1. 1 \in 1..Len(s)
    BY <1>1
  <2> QED BY <1>1, <1>2, <2>1 DEF ToSet
<1> QED BY <1>1, <1>3, <1>4, <1>5

(* What is said last of a realm neither was said before it was created nor *)
(* leaves a demand withdrawn, unless it withdraws it.                      *)
LEMMA Said ==
  ASSUME NEW s \in Seq(Notice), NEW n \in Notice
  PROVE  /\ CreatedFirst(s)
              /\ (n.kind = "created" => \A m \in ToSet(s) : m.realm # n.realm)
              => CreatedFirst(Append(s, n))
         /\ \A r \in Realms :
              Reasked(s, r) /\ n # Withdrawal(r) => Reasked(Append(s, n), r)
         /\ \A r \in Realms : n = Demand(r) => Reasked(Append(s, n), r)
<1> DEFINE t == Append(s, n)
<1>1. /\ t \in Seq(Notice) /\ Len(t) = Len(s) + 1 /\ Len(s) \in Nat
      /\ \A i \in 1..Len(s) : t[i] = s[i]
      /\ t[Len(s) + 1] = n
  BY Appended
<1>2. \A i \in 1..Len(s) : s[i] \in ToSet(s)
  BY DEF ToSet
<1> HIDE DEF t
<1>3. ASSUME CreatedFirst(s),
             n.kind = "created" => \A m \in ToSet(s) : m.realm # n.realm
      PROVE  CreatedFirst(t)
  <2> SUFFICES ASSUME NEW i \in 1..Len(t), NEW j \in 1..Len(t),
                      t[i].kind = "created", t[j].realm = t[i].realm
               PROVE  i <= j
    BY DEF CreatedFirst
  <2>1. CASE i \in 1..Len(s) /\ j \in 1..Len(s)
    BY <1>1, <1>3, <2>1 DEF CreatedFirst
  <2>2. CASE j = Len(s) + 1
    BY <1>1, <2>2
  <2>3. CASE i = Len(s) + 1 /\ j \in 1..Len(s)
    BY <1>1, <1>2, <1>3, <2>3
  <2> QED BY <1>1, <2>1, <2>2, <2>3
<1>4. ASSUME NEW r \in Realms, Reasked(s, r), n # Withdrawal(r)
      PROVE  Reasked(t, r)
  <2> SUFFICES ASSUME NEW i \in 1..Len(t), t[i] = Withdrawal(r)
               PROVE  \E j \in 1..Len(t) : i < j /\ t[j] = Demand(r)
    BY DEF Reasked
  <2>1. i \in 1..Len(s) /\ s[i] = Withdrawal(r)
    BY <1>1, <1>4
  <2>2. PICK j \in 1..Len(s) : i < j /\ s[j] = Demand(r)
    BY <1>4, <2>1 DEF Reasked
  <2> QED BY <1>1, <2>2
<1>5. ASSUME NEW r \in Realms, n = Demand(r)
      PROVE  Reasked(t, r)
  <2>1. Demand(r) # Withdrawal(r)
    BY DEF Demand, Withdrawal
  <2> QED BY <1>1, <1>5, <2>1 DEF Reasked
<1> QED BY <1>3, <1>4, <1>5 DEF t

LEMMA Heard ==
  ASSUME NEW s \in Seq(Notice), s # <<>>
  PROVE  /\ CreatedFirst(s) => CreatedFirst(Tail(s))
         /\ CreatedFirst(s) => \A n \in ToSet(Tail(s)) :
              n.kind = "created" => n.realm # Head(s).realm
         /\ \A r \in Realms : Reasked(s, r) => Reasked(Tail(s), r)
         /\ \A r \in Realms : Reasked(s, r) /\ Head(s) = Withdrawal(r)
              => Demand(r) \in ToSet(Tail(s))
<1> DEFINE t == Tail(s)
<1>1. /\ t \in Seq(Notice) /\ Head(s) = s[1]
      /\ Len(s) \in Nat \ {0} /\ Len(t) = Len(s) - 1
      /\ \A i \in 1..(Len(s) - 1) : t[i] = s[i + 1]
  BY Beheaded
<1>2. ToSet(t) = {t[i] : i \in 1..(Len(s) - 1)}
  <2>1. DOMAIN t = 1..Len(t)
    BY <1>1
  <2> QED BY <1>1, <2>1 DEF ToSet
<1> HIDE DEF t
<1>3. ASSUME CreatedFirst(s)
      PROVE  CreatedFirst(t) /\ \A n \in ToSet(t) : n.kind = "created" => n.realm # Head(s).realm
  <2>1. CreatedFirst(t)
    <3> SUFFICES ASSUME NEW i \in 1..Len(t), NEW j \in 1..Len(t),
                        t[i].kind = "created", t[j].realm = t[i].realm
                 PROVE  i <= j
      BY DEF CreatedFirst
    <3>1. i + 1 \in 1..Len(s) /\ j + 1 \in 1..Len(s) /\ t[i] = s[i + 1] /\ t[j] = s[j + 1]
      BY <1>1
    <3>2. i + 1 <= j + 1
      BY <1>3, <3>1 DEF CreatedFirst
    <3> QED BY <1>1, <3>2
  <2>2. ASSUME NEW i \in 1..(Len(s) - 1), t[i].kind = "created", t[i].realm = Head(s).realm
        PROVE  FALSE
    <3>1. i + 1 \in 1..Len(s) /\ 1 \in 1..Len(s) /\ t[i] = s[i + 1]
      BY <1>1
    <3>2. i + 1 <= 1
      BY <1>1, <1>3, <2>2, <3>1 DEF CreatedFirst
    <3> QED BY <3>2
  <2> QED BY <1>2, <2>1, <2>2
<1>4. ASSUME NEW r \in Realms, Reasked(s, r)
      PROVE  Reasked(t, r)
  <2> SUFFICES ASSUME NEW i \in 1..Len(t), t[i] = Withdrawal(r)
               PROVE  \E j \in 1..Len(t) : i < j /\ t[j] = Demand(r)
    BY DEF Reasked
  <2>1. i + 1 \in 1..Len(s) /\ s[i + 1] = Withdrawal(r)
    BY <1>1
  <2>2. PICK j \in 1..Len(s) : i + 1 < j /\ s[j] = Demand(r)
    BY <1>4, <2>1 DEF Reasked
  <2>3. j - 1 \in 1..Len(t) /\ i < j - 1 /\ t[j - 1] = Demand(r)
    BY <1>1, <2>2
  <2> QED BY <2>3
<1>5. ASSUME NEW r \in Realms, Reasked(s, r), Head(s) = Withdrawal(r)
      PROVE  Demand(r) \in ToSet(t)
  <2>1. 1 \in 1..Len(s) /\ s[1] = Withdrawal(r)
    BY <1>1, <1>5
  <2>2. PICK j \in 1..Len(s) : 1 < j /\ s[j] = Demand(r)
    BY <1>5, <2>1 DEF Reasked
  <2>3. j - 1 \in 1..(Len(s) - 1) /\ t[j - 1] = Demand(r)
    BY <1>1, <2>2
  <2> QED BY <1>2, <2>3
<1> QED BY <1>3, <1>4, <1>5 DEF t

(* What one more notice, one more entry of a queue and one entry less do.  *)
LEMMA Noted ==
  ASSUME TypeOK, NEW n \in Notice, notices' = Append(notices, n)
  PROVE  /\ notices' \in Seq(Notice) /\ ToSet(notices') = ToSet(notices) \cup {n}
         /\ CreatedFirst(notices)
              /\ (n.kind = "created" => \A m \in ToSet(notices) : m.realm # n.realm)
              => CreatedFirst(notices')
         /\ \A r \in Realms :
              Reasked(notices, r) /\ n # Withdrawal(r) => Reasked(notices', r)
         /\ \A r \in Realms : n = Demand(r) => Reasked(notices', r)
<1>1. notices \in Seq(Notice)
  BY DEF TypeOK
<1> QED BY <1>1, Appended, Said

LEMMA Emptied == ToSet(<<>>) = {} /\ \A S : <<>> \in Seq(S)
BY DEF ToSet

LEMMA Queued ==
  ASSUME TypeOK, NEW r \in Realms, NEW job \in {"frame", "entries"},
         jobs' = [jobs EXCEPT ![r] = Append(@, job)]
  PROVE  /\ jobs' \in [Realms -> Seq({"frame", "entries"})]
         /\ ToSet(jobs'[r]) = ToSet(jobs[r]) \cup {job}
         /\ \A q \in Realms \ {r} : jobs'[q] = jobs[q]
<1>1. jobs \in [Realms -> Seq({"frame", "entries"})] /\ jobs[r] \in Seq({"frame", "entries"})
  BY DEF TypeOK
<1>2. jobs'[r] = Append(jobs[r], job) /\ \A q \in Realms \ {r} : jobs'[q] = jobs[q]
  BY <1>1
<1>3. /\ Append(jobs[r], job) \in Seq({"frame", "entries"})
      /\ ToSet(Append(jobs[r], job)) = ToSet(jobs[r]) \cup {job}
  BY <1>1, Appended
<1>4. jobs' \in [Realms -> Seq({"frame", "entries"})]
  BY <1>1, <1>3
<1> QED BY <1>2, <1>3, <1>4

LEMMA Taken ==
  ASSUME TypeOK, NEW r \in Realms, jobs[r] # <<>>, jobs' = [jobs EXCEPT ![r] = Tail(@)]
  PROVE  /\ jobs' \in [Realms -> Seq({"frame", "entries"})]
         /\ ToSet(jobs[r]) = ToSet(jobs'[r]) \cup {Head(jobs[r])}
         /\ \A q \in Realms \ {r} : jobs'[q] = jobs[q]
<1>1. jobs \in [Realms -> Seq({"frame", "entries"})] /\ jobs[r] \in Seq({"frame", "entries"})
  BY DEF TypeOK
<1>2. jobs'[r] = Tail(jobs[r]) /\ \A q \in Realms \ {r} : jobs'[q] = jobs[q]
  BY <1>1
<1>3. /\ Tail(jobs[r]) \in Seq({"frame", "entries"})
      /\ ToSet(jobs[r]) = ToSet(Tail(jobs[r])) \cup {Head(jobs[r])}
  BY <1>1, Beheaded
<1>4. jobs' \in [Realms -> Seq({"frame", "entries"})]
  BY <1>1, <1>3
<1> QED BY <1>2, <1>3, <1>4

LEMMA Read ==
  ASSUME TypeOK, NEW r \in Realms, inbox[r] # <<>>, inbox' = [inbox EXCEPT ![r] = Tail(@)]
  PROVE  /\ inbox' \in [Realms -> Seq({"vsync", "entries", "terminate"})]
         /\ ToSet(inbox[r]) = ToSet(inbox'[r]) \cup {Head(inbox[r])}
         /\ \A q \in Realms \ {r} : inbox'[q] = inbox[q]
<1>1. /\ inbox \in [Realms -> Seq({"vsync", "entries", "terminate"})]
      /\ inbox[r] \in Seq({"vsync", "entries", "terminate"})
  BY DEF TypeOK
<1>2. inbox'[r] = Tail(inbox[r]) /\ \A q \in Realms \ {r} : inbox'[q] = inbox[q]
  BY <1>1
<1>3. /\ Tail(inbox[r]) \in Seq({"vsync", "entries", "terminate"})
      /\ ToSet(inbox[r]) = ToSet(Tail(inbox[r])) \cup {Head(inbox[r])}
  BY <1>1, Beheaded
<1>4. inbox' \in [Realms -> Seq({"vsync", "entries", "terminate"})]
  BY <1>1, <1>3
<1> QED BY <1>2, <1>3, <1>4

LEMMA Told ==
  ASSUME TypeOK, NEW set, NEW word \in {"vsync", "entries", "terminate"}
  PROVE  /\ Tell(set, word) \in [Realms -> Seq({"vsync", "entries", "terminate"})]
         /\ \A r \in Realms :
              ToSet(Tell(set, word)[r]) = ToSet(inbox[r]) \cup IF r \in set THEN {word} ELSE {}
<1>1. \A r \in Realms : inbox[r] \in Seq({"vsync", "entries", "terminate"})
  BY DEF TypeOK
<1>2. \A r \in Realms : Append(inbox[r], word) \in Seq({"vsync", "entries", "terminate"})
  BY <1>1
<1>3. \A r \in Realms : ToSet(Append(inbox[r], word)) = ToSet(inbox[r]) \cup {word}
  BY <1>1, Appended
<1> QED BY <1>1, <1>2, <1>3 DEF Tell

LEMMA Notices ==
  /\ \A r \in Realms : Demand(r) \in Notice /\ Withdrawal(r) \in Notice /\ Creation(r) \in Notice
  /\ \A n \in Notice : n.realm \in Realms
  /\ \A n \in Notice : /\ n.kind = "created" => n = Creation(n.realm)
                      /\ n.kind = "wants none" => n = Withdrawal(n.realm)
  /\ \A r, q \in Realms : Demand(r) # Withdrawal(q) /\ Demand(r) # Creation(q)
                           /\ Withdrawal(r) # Creation(q)
  /\ \A r, q \in Realms : r # q => Demand(r) # Demand(q) /\ Withdrawal(r) # Withdrawal(q)
                                   /\ Creation(r) # Creation(q)
<1>1. \A n \in Notice : n.realm \in Realms
  BY DEF Notice, Realms
<1>2. \A n \in Notice : /\ n.kind = "created" => n = Creation(n.realm)
                        /\ n.kind = "wants none" => n = Withdrawal(n.realm)
  <2> SUFFICES ASSUME NEW n \in Notice, n.kind \in {"created", "wants none"}
               PROVE  n = [kind |-> n.kind, realm |-> n.realm]
    BY DEF Creation, Withdrawal
  <2>1. n \in [kind : {"created", "source", "wants", "wants none", "call"}, realm : Realms]
    BY DEF Notice
  <2> QED BY <2>1
<1>3. \A r, q \in Realms : Demand(r) # Withdrawal(q) /\ Demand(r) # Creation(q)
                             /\ Withdrawal(r) # Creation(q)
  <2> SUFFICES ASSUME NEW r \in Realms, NEW q \in Realms
               PROVE  Demand(r).kind = "wants" /\ Withdrawal(r).kind = "wants none"
                        /\ Withdrawal(q).kind = "wants none" /\ Creation(q).kind = "created"
    OBVIOUS
  <2> QED BY DEF Demand, Withdrawal, Creation
<1>4. \A r, q \in Realms : r # q => Demand(r) # Demand(q) /\ Withdrawal(r) # Withdrawal(q)
                                     /\ Creation(r) # Creation(q)
  <2> SUFFICES ASSUME NEW r \in Realms
               PROVE  Demand(r).realm = r /\ Withdrawal(r).realm = r /\ Creation(r).realm = r
    OBVIOUS
  <2> QED BY DEF Demand, Withdrawal, Creation
<1>5. \A r \in Realms : Demand(r) \in Notice /\ Withdrawal(r) \in Notice /\ Creation(r) \in Notice
  BY DEF Notice, Demand, Withdrawal, Creation
<1> QED BY <1>1, <1>2, <1>3, <1>4, <1>5

-----------------------------------------------------------------------------
LEMMA InitInv == Init => IInv
<1> SUFFICES ASSUME Init PROVE IInv
  OBVIOUS
<1>1. TypeOK
  <2>1. /\ notices \in Seq(Notice) /\ \A r \in Realms : inbox[r] = <<>> /\ jobs[r] = <<>>
        /\ table = {} /\ bits = {} /\ held = {} /\ reading = {}
        /\ background \in SUBSET Workers /\ let_in = {} /\ put_off = {}
        /\ requested = {} /\ in_frame = {} /\ observing = {} /\ wakes = {}
        /\ acts = 0 /\ dropped = {}
    BY DEF Init
  <2>2. /\ inbox \in [Realms -> Seq({"vsync", "entries", "terminate"})]
        /\ jobs \in [Realms -> Seq({"frame", "entries"})]
    BY DEF Init
  <2>3. /\ root \in [Realms -> {"none", "opening", "booted", "asked", "fetching", "running",
                                "finished", "over", "forgotten"}]
        /\ callbacks \in [Realms -> SUBSET Ids] /\ left \in [Realms -> SUBSET Ids]
        /\ filed \in [Realms -> 0..MaxRequests] /\ owed \in [Workers -> 0..MaxRecords]
    BY BoundAssumption DEF Init
  <2>4. failed \in BOOLEAN /\ stale \in BOOLEAN
    BY DEF Init
  <2>5. acts \in 0..MaxActs
    BY <2>1, BoundAssumption
  <2> QED BY <2>1, <2>2, <2>3, <2>4, <2>5 DEF TypeOK
<1>2. CreatedFirst(notices) /\ \A r \in Realms : Reasked(notices, r)
  BY DEF Init, CreatedFirst, Reasked
<1>3. IRoot /\ ITable
  BY <1>2, Emptied, RealmAssumption DEF Init, IRoot, ITable, Reached, Realms
<1>4. IDemand /\ IAsked /\ IOwed /\ NobodyIsMissed
  BY <1>2, Emptied DEF Init, IDemand, IAsked, IOwed, NobodyIsMissed, Reached, Realms
<1> QED BY <1>1, <1>3, <1>4 DEF IInv

-----------------------------------------------------------------------------
(* A notice that creates nobody and withdraws nothing.                     *)
LEMMA Spoken ==
  ASSUME IInv, NEW r \in Realms, NEW kind \in {"source", "wants", "call"}, Notify(kind, r)
  PROVE  /\ notices' \in Seq(Notice) /\ ToSet(notices) \subseteq ToSet(notices')
         /\ \A n \in ToSet(notices') :
              n \in ToSet(notices) \/ (n.kind = kind /\ n.realm = r)
         /\ CreatedFirst(notices') /\ \A q \in Realms : Reasked(notices, q) => Reasked(notices', q)
         /\ kind = "wants" => Demand(r) \in ToSet(notices') /\ Reasked(notices', r)
<1> DEFINE n == [kind |-> kind, realm |-> r]
<1>1. n \in Notice /\ n.kind = kind /\ n.realm = r
  BY DEF Notice
<1>2. notices' = Append(notices, n)
  BY DEF Notify
<1>3. \A q \in Realms : n # Withdrawal(q)
  <2> SUFFICES ASSUME NEW q \in Realms PROVE Withdrawal(q).kind = "wants none"
    BY <1>1
  <2> QED BY DEF Withdrawal
<1>4. kind = "wants" => n = Demand(r)
  BY DEF Demand
<1> HIDE DEF n
<1>5. TypeOK /\ CreatedFirst(notices)
  BY DEF IInv, ITable
<1> QED BY <1>1, <1>2, <1>3, <1>4, <1>5, Noted

(* The life of a worker.                                                   *)
LEMMA CreateInv ==
  ASSUME IInv, NEW w \in Workers, Create(w)
  PROVE  IInv'
<1> USE DEF IInv
<1>1. /\ w \in Realms /\ w # Main /\ Main \in Realms /\ Workers \subseteq Realms
      /\ Creation(w) \in Notice
  BY RealmAssumption, Notices DEF Realms
<1>2. /\ root[w] = "none" /\ notices' = Append(notices, Creation(w))
      /\ \A m \in ToSet(notices) : m.realm # w
      /\ w \notin table
  BY DEF Create, Notify, Creation, IRoot
<1>3. Creation(w).kind = "created" /\ Creation(w).realm = w
  BY DEF Creation
<1>4. /\ notices' \in Seq(Notice) /\ ToSet(notices') = ToSet(notices) \cup {Creation(w)}
      /\ CreatedFirst(notices) => CreatedFirst(notices')
      /\ \A r \in Realms : Reasked(notices, r) => Reasked(notices', r)
  BY ZenonT(60), <1>1, <1>2, <1>3, Noted, Notices
<1>5. /\ root'[w] \in {"opening", "forgotten"}
      /\ \A r \in Realms \ {w} : root'[r] = root[r]
      /\ root' \in [Realms -> {"none", "opening", "booted", "asked", "fetching", "running",
                          "finished", "over", "forgotten"}]
      /\ \/ held' = held \cup {w} /\ reading' = reading \cup {w} /\ root'[w] = "opening"
         \/ held' = held /\ reading' = reading
  BY <1>1 DEF Create, TypeOK
<1>6. UNCHANGED <<table, bits, failed, background, inbox, let_in, put_off, jobs, frames, registry,
                 ledger>>
  BY DEF Create
<1>7. TypeOK'
  BY <1>4, <1>5, <1>6 DEF TypeOK, frames, registry, ledger
<1>8. IRoot'
  BY ZenonT(60), <1>1, <1>2, <1>3, <1>4, <1>5, <1>6 DEF IRoot, TypeOK, Unopened, frames, registry, ledger
<1>9. ITable'
  BY <1>1, <1>2, <1>3, <1>4, <1>5, <1>6 DEF ITable, Reached, IRoot
<1>10. IDemand'
  BY <1>2, <1>4, <1>5, <1>6 DEF IDemand, Runs, frames, IRoot, Unopened
<1>11. IAsked'
  BY <1>1, <1>4, <1>5, <1>6 DEF IAsked, Runs, Reached, OnTheWay, frames
<1>12. IOwed' /\ NobodyIsMissed'
  BY <1>2, <1>5, <1>6 DEF IOwed, NobodyIsMissed, IRoot, Unopened, Reached, OnTheWay, registry, ledger, Realms
<1> QED BY <1>7, <1>8, <1>9, <1>10, <1>11, <1>12
LEMMA LetGoInv ==
  ASSUME IInv, NEW w \in Workers, LetGo(w)
  PROVE  IInv'
<1> USE DEF IInv
<1>1. w \in Realms /\ w # Main /\ Main \in Realms /\ Workers \subseteq Realms
  BY RealmAssumption DEF Realms
<1>2. held' = held \ {w} /\ inbox' \in [Realms -> Seq({"vsync", "entries", "terminate"})]
      /\ \A r \in Realms : ToSet(inbox[r]) \subseteq ToSet(inbox'[r])
  BY Told DEF LetGo, TypeOK
<1>3. UNCHANGED <<notices, table, bits, failed, background, reading, root, let_in, put_off, jobs,
                  callbacks, filed, requested, in_frame, left, observing, owed, wakes, stale,
                  acts, dropped>>
  BY DEF LetGo, view, frames, registry, ledger
<1>4. TypeOK'
  BY <1>2, <1>3 DEF TypeOK
<1>5. IRoot' /\ ITable'
  BY <1>2, <1>3 DEF IRoot, ITable, Reached
<1>6. IDemand' /\ IAsked'
  BY <1>2, <1>3 DEF IDemand, IAsked, Runs, Reached, OnTheWay
<1>7. IOwed' /\ NobodyIsMissed'
  BY <1>1, <1>2, <1>3 DEF IOwed, NobodyIsMissed, Reached, OnTheWay
<1> QED BY <1>4, <1>5, <1>6, <1>7

(* What a worker's script does before it runs.                             *)
LEMMA OpeningInv ==
  ASSUME IInv, NEW w \in Workers, Open(w) \/ Initialize(w)
  PROVE  IInv'
<1> USE DEF IInv
<1>1. w \in Realms /\ w # Main /\ Main \in Realms /\ Workers \subseteq Realms
  BY RealmAssumption DEF Realms
<1>2. /\ root[w] \in {"opening", "booted"} /\ root'[w] \in {"booted", "asked"}
      /\ \A r \in Realms \ {w} : root'[r] = root[r]
      /\ root' \in [Realms -> {"none", "opening", "booted", "asked", "fetching", "running",
                          "finished", "over", "forgotten"}]
      /\ notices' = notices \/ Notify("source", w)
  BY <1>1 DEF Open, Initialize, TypeOK
<1>3. UNCHANGED <<table, bits, failed, background, held, reading, inbox, let_in, put_off, jobs,
                  callbacks, filed, requested, in_frame, left, observing, owed, wakes, stale,
                  acts, dropped>>
  BY DEF Open, Initialize, frames, registry, ledger
<1>4. /\ notices' \in Seq(Notice) /\ ToSet(notices) \subseteq ToSet(notices')
      /\ \A n \in ToSet(notices') :
           n \in ToSet(notices) \/ (n.kind = "source" /\ n.realm = w)
      /\ CreatedFirst(notices')
      /\ \A q \in Realms : Reasked(notices, q) => Reasked(notices', q)
  <2>1. CASE notices' = notices
    BY <2>1 DEF TypeOK, ITable
  <2>2. CASE Notify("source", w)
    BY <1>1, <2>2, Spoken
  <2> QED BY <1>2, <2>1, <2>2
<1>5. TypeOK'
  BY <1>2, <1>3, <1>4 DEF TypeOK
<1>6. IRoot'
  BY ZenonT(60), <1>1, <1>2, <1>3, <1>4 DEF IRoot, Unopened, TypeOK
<1>7. ITable'
  BY <1>1, <1>2, <1>3, <1>4 DEF ITable, Reached
<1>8. IDemand' /\ IAsked'
  BY <1>1, <1>2, <1>3, <1>4 DEF IDemand, IAsked, Runs, Reached, OnTheWay
<1>9. IOwed' /\ NobodyIsMissed'
  BY <1>1, <1>3 DEF IOwed, NobodyIsMissed, Reached, OnTheWay
<1> QED BY <1>5, <1>6, <1>7, <1>8, <1>9

LEMMA RunningInv ==
  ASSUME IInv, NEW w \in Workers, Arrives(w) \/ RootEnds(w) \/ EntryEnds(w)
  PROVE  IInv'
<1> USE DEF IInv
<1>1. w \in Realms /\ w # Main /\ Main \in Realms /\ Workers \subseteq Realms
  BY RealmAssumption DEF Realms
<1>2. /\ \/ root[w] = "fetching" /\ root'[w] = "running"
         \/ root[w] = "running" /\ root'[w] = "finished"
      /\ \A r \in Realms \ {w} : root'[r] = root[r]
      /\ root' \in [Realms -> {"none", "opening", "booted", "asked", "fetching", "running",
                          "finished", "over", "forgotten"}]
  BY <1>1 DEF Arrives, RootEnds, EntryEnds, TypeOK
<1>3. UNCHANGED <<notices, table, bits, failed, background, held, reading, inbox, let_in, put_off,
                  jobs, callbacks, filed, requested, in_frame, left, observing, acts, dropped>>
  BY DEF Arrives, RootEnds, EntryEnds, view, frames, registry, ledger
<1>4. /\ owed' \in [Workers -> 0..MaxRecords] /\ wakes' \subseteq Workers /\ stale' \in BOOLEAN
      /\ \A v \in Workers : owed'[v] \in {0, owed[v]} /\ (v \in wakes /\ owed'[v] > 0 => v \in wakes')
  <2>1. CASE EntryEnds(w)
    <3>1. PICK owing \in {wakes, wakes \cup {w}} :
            /\ stale' = (stale \/ owing # wakes) /\ wakes' = owing \ {w}
            /\ owed' = IF w \in owing THEN [owed EXCEPT ![w] = 0] ELSE owed
      BY <2>1 DEF EntryEnds
    <3>2. owed' \in [Workers -> 0..MaxRecords] /\ wakes' \subseteq Workers
      BY <3>1, BoundAssumption DEF TypeOK
    <3>3. \A v \in Workers : owed'[v] \in {0, owed[v]} /\ (v \in wakes /\ owed'[v] > 0 => v \in wakes')
      BY <3>1 DEF TypeOK
    <3> QED BY <3>1, <3>2, <3>3
  <2>2. CASE Arrives(w) \/ RootEnds(w)
    BY <2>2 DEF Arrives, RootEnds, registry, TypeOK
  <2> QED BY <2>1, <2>2
<1>5. TypeOK'
  BY <1>2, <1>3, <1>4 DEF TypeOK
<1>6. IRoot'
  BY ZenonT(60), <1>1, <1>2, <1>3 DEF IRoot, Unopened, TypeOK
<1>7. ITable'
  BY <1>1, <1>2, <1>3, Notices DEF ITable, Reached
<1>8. IDemand' /\ IAsked'
  BY <1>1, <1>2, <1>3 DEF IDemand, IAsked, IRoot, Unopened, Runs, Reached, OnTheWay
<1>9. IOwed'
  BY <1>3, <1>4 DEF IOwed
<1>10. \A v \in Workers : owed'[v] > 0 => owed[v] > 0 /\ (v \in wakes => v \in wakes')
  BY <1>4
<1>11. NobodyIsMissed'
  BY <1>3, <1>10 DEF NobodyIsMissed, Reached, OnTheWay
<1> QED BY <1>5, <1>6, <1>7, <1>8, <1>9, <1>11
(* A worker quits, whichever way.                                          *)
LEMMA QuitsInv ==
  ASSUME IInv, NEW w \in Workers, w \in reading, Quits(w),
         UNCHANGED <<view, background, held, let_in, callbacks, filed, requested, registry, ledger>>
  PROVE  IInv'
<1> USE DEF IInv
<1>1. w \in Realms /\ w # Main /\ Main \in Realms /\ Workers \subseteq Realms
  BY RealmAssumption DEF Realms
<1>2. /\ reading' = reading \ {w} /\ root'[w] = "over"
      /\ \A r \in Realms \ {w} : root'[r] = root[r] /\ inbox'[r] = inbox[r] /\ jobs'[r] = jobs[r]
      /\ root' \in [Realms -> {"none", "opening", "booted", "asked", "fetching", "running",
                          "finished", "over", "forgotten"}]
      /\ inbox' \in [Realms -> Seq({"vsync", "entries", "terminate"})]
      /\ jobs' \in [Realms -> Seq({"frame", "entries"})]
      /\ in_frame' = in_frame \ {w} /\ left' \in [Realms -> SUBSET Ids]
      /\ put_off' = put_off \ {w}
  BY <1>1, Emptied DEF Quits, TypeOK
<1>3. UNCHANGED <<notices, table, bits, failed, background, held, let_in, callbacks, filed,
                  requested, observing, owed, wakes, stale, acts, dropped>>
  BY DEF view, registry, ledger
<1>4. TypeOK'
  BY <1>2, <1>3 DEF TypeOK
<1>5. IRoot'
  BY ZenonT(60), <1>1, <1>2, <1>3 DEF IRoot, Unopened, TypeOK
<1>6. ITable'
  BY <1>1, <1>2, <1>3 DEF ITable, Reached
<1>7. IDemand' /\ IAsked'
  BY <1>1, <1>2, <1>3 DEF IDemand, IAsked, Runs, Reached, OnTheWay
<1>8. IOwed' /\ NobodyIsMissed'
  BY <1>1, <1>2, <1>3 DEF IOwed, NobodyIsMissed, Reached, OnTheWay
<1> QED BY <1>4, <1>5, <1>6, <1>7, <1>8

LEMMA ForgetInv ==
  ASSUME IInv, NEW w \in Workers, Forget(w)
  PROVE  IInv'
<1> USE DEF IInv
<1>1. w \in Realms /\ w # Main /\ Main \in Realms /\ Workers \subseteq Realms
  BY RealmAssumption DEF Realms
<1>2. /\ root[w] = "over" /\ root'[w] = "forgotten" /\ w \notin reading
      /\ \A r \in Realms \ {w} : root'[r] = root[r]
      /\ root' \in [Realms -> {"none", "opening", "booted", "asked", "fetching", "running",
                          "finished", "over", "forgotten"}]
      /\ observing' = observing \ {w} /\ wakes' = wakes \ {w}
      /\ owed'[w] = 0 /\ \A v \in Workers \ {w} : owed'[v] = owed[v]
      /\ owed' \in [Workers -> 0..MaxRecords]
  BY <1>1, BoundAssumption DEF Forget, TypeOK, IRoot
<1>3. UNCHANGED <<notices, table, bits, failed, background, held, reading, inbox, let_in, put_off,
                  jobs, callbacks, filed, requested, in_frame, left, stale, acts, dropped>>
  BY DEF Forget, view, frames, ledger
<1>4. TypeOK'
  BY <1>2, <1>3 DEF TypeOK
<1>5. IRoot'
  BY ZenonT(60), <1>1, <1>2, <1>3 DEF IRoot, Unopened, TypeOK
<1>6. ITable'
  BY <1>1, <1>2, <1>3 DEF ITable, Reached
<1>7. IDemand' /\ IAsked'
  BY <1>1, <1>2, <1>3 DEF IDemand, IAsked, Runs, Reached, OnTheWay
<1>8. IOwed' /\ NobodyIsMissed'
  BY <1>1, <1>2, <1>3 DEF IOwed, NobodyIsMissed, Reached, OnTheWay
<1> QED BY <1>4, <1>5, <1>6, <1>7, <1>8

LEMMA FailInv ==
  ASSUME IInv, Fail
  PROVE  IInv'
<1> USE DEF IInv
<1> DEFINE n == [kind |-> "fatal", realm |-> Main]
<1>1. Main \in Realms /\ Main \notin Workers /\ Workers \subseteq Realms
  BY RealmAssumption DEF Realms
<1>2. n \in Notice /\ n.kind = "fatal" /\ n.realm = Main /\ notices' = Append(notices, n)
  BY DEF Notice, Fail, Notify
<1>3. \A r \in Realms : n # Withdrawal(r)
  <2> SUFFICES ASSUME NEW r \in Realms PROVE Withdrawal(r).kind = "wants none"
    BY <1>2
  <2> QED BY DEF Withdrawal
<1> HIDE DEF n
<1>4. /\ notices' \in Seq(Notice) /\ ToSet(notices') = ToSet(notices) \cup {n}
      /\ CreatedFirst(notices')
      /\ \A r \in Realms : Reasked(notices, r) => Reasked(notices', r)
  BY <1>2, <1>3, Noted DEF ITable
<1>5. /\ root'[Main] = "over"
      /\ \A r \in Workers : root'[r] = root[r] /\ inbox'[r] = inbox[r] /\ jobs'[r] = jobs[r]
      /\ root' \in [Realms -> {"none", "opening", "booted", "asked", "fetching", "running",
                          "finished", "over", "forgotten"}]
      /\ inbox' \in [Realms -> Seq({"vsync", "entries", "terminate"})]
      /\ jobs' \in [Realms -> Seq({"frame", "entries"})]
  BY <1>1, Emptied DEF Fail, TypeOK
<1>6. UNCHANGED <<table, bits, failed, background, held, reading, let_in, put_off, callbacks, filed,
                  requested, in_frame, left, observing, owed, wakes, stale, acts, dropped>>
  BY DEF Fail, frames, registry, ledger
<1>7. \A r \in Realms : r = Main \/ r \in Workers
  BY DEF Realms
<1>8. TypeOK'
  BY <1>4, <1>5, <1>6 DEF TypeOK
<1>9. IRoot'
  BY SMTT(30), <1>1, <1>2, <1>4, <1>5, <1>6, <1>7 DEF IRoot, Unopened, TypeOK
<1>10. ITable'
  BY <1>1, <1>2, <1>4, <1>5, <1>6 DEF ITable, Reached
<1>11. IDemand' /\ IAsked'
  BY <1>1, <1>4, <1>5, <1>6, <1>7 DEF IDemand, IAsked, Runs, Reached, OnTheWay
<1>12. IOwed' /\ NobodyIsMissed'
  BY <1>1, <1>5, <1>6 DEF IOwed, NobodyIsMissed, Reached, OnTheWay
<1> QED BY <1>8, <1>9, <1>10, <1>11, <1>12

-----------------------------------------------------------------------------
(* What a consumer and its jobs do.                                        *)
LEMMA ConsumeInv ==
  ASSUME IInv, NEW w \in Workers, Consume(w)
  PROVE  IInv'
<1> USE DEF IInv
<1>1. w \in Realms /\ Workers \subseteq Realms
  BY DEF Realms
<1>2. inbox \in [Realms -> Seq({"vsync", "entries", "terminate"})] /\ inbox[w] # <<>>
      /\ jobs \in [Realms -> Seq({"frame", "entries"})] /\ w \in reading
  BY DEF Consume, TypeOK
<1>3. UNCHANGED <<view, background, held, let_in, callbacks, filed, requested, registry, ledger>>
  BY DEF Consume
<1>4. CASE Head(inbox[w]) = "terminate"
  <2>1. Quits(w)
    BY <1>4 DEF Consume
  <2> QED BY <1>2, <1>3, <2>1, QuitsInv
<1>5. ASSUME Head(inbox[w]) \in {"vsync", "entries"}
      PROVE  IInv'
  <2>1. inbox' = [inbox EXCEPT ![w] = Tail(@)] /\ UNCHANGED <<reading, root, in_frame, left>>
    BY <1>5 DEF Consume
  <2>2. /\ inbox' \in [Realms -> Seq({"vsync", "entries", "terminate"})]
        /\ ToSet(inbox[w]) = ToSet(inbox'[w]) \cup {Head(inbox[w])}
        /\ \A r \in Realms \ {w} : inbox'[r] = inbox[r]
    BY <1>1, <1>2, <2>1, Read
  <2>3. \/ /\ Head(inbox[w]) = "vsync" /\ put_off' = put_off
           /\ jobs' = [jobs EXCEPT ![w] = Append(@, "frame")]
        \/ /\ Head(inbox[w]) = "entries" /\ w \in let_in /\ put_off' = put_off
           /\ jobs' = [jobs EXCEPT ![w] = Append(@, "entries")]
        \/ /\ Head(inbox[w]) = "entries" /\ w \notin let_in
           /\ put_off' = put_off \cup {w} /\ jobs' = jobs
    BY <1>5 DEF Consume
  <2>4. /\ jobs' \in [Realms -> Seq({"frame", "entries"})]
        /\ ToSet(jobs[w]) \subseteq ToSet(jobs'[w])
        /\ \A r \in Realms \ {w} : jobs'[r] = jobs[r]
        /\ put_off \subseteq put_off' /\ put_off' \subseteq Workers \ let_in
        /\ Head(inbox[w]) = "vsync" => "frame" \in ToSet(jobs'[w])
        /\ Head(inbox[w]) = "entries" => w \in put_off' \/ "entries" \in ToSet(jobs'[w])
    <3>1. CASE jobs' = [jobs EXCEPT ![w] = Append(@, "frame")] /\ put_off' = put_off
                 /\ Head(inbox[w]) = "vsync"
      <4>1. /\ jobs' \in [Realms -> Seq({"frame", "entries"})]
            /\ ToSet(jobs'[w]) = ToSet(jobs[w]) \cup {"frame"}
            /\ \A r \in Realms \ {w} : jobs'[r] = jobs[r]
        BY <1>1, <3>1, Queued
      <4> QED BY <3>1, <4>1 DEF TypeOK
    <3>2. CASE jobs' = [jobs EXCEPT ![w] = Append(@, "entries")] /\ put_off' = put_off
                 /\ Head(inbox[w]) = "entries"
      <4>1. /\ jobs' \in [Realms -> Seq({"frame", "entries"})]
            /\ ToSet(jobs'[w]) = ToSet(jobs[w]) \cup {"entries"}
            /\ \A r \in Realms \ {w} : jobs'[r] = jobs[r]
        BY <1>1, <3>2, Queued
      <4> QED BY <3>2, <4>1 DEF TypeOK
    <3>3. CASE w \notin let_in /\ put_off' = put_off \cup {w} /\ jobs' = jobs
                 /\ Head(inbox[w]) = "entries"
      BY <1>2, <3>3 DEF TypeOK
    <3> QED BY <2>3, <3>1, <3>2, <3>3
  <2>5. UNCHANGED <<notices, table, bits, failed, background, held, reading, root, let_in, callbacks,
                    filed, requested, in_frame, left, observing, owed, wakes, stale, acts, dropped>>
    BY <1>3, <2>1 DEF view, registry, ledger
  <2>6. \A r \in Realms :
          /\ OnTheWay(r, "vsync", "frame") => OnTheWay(r, "vsync", "frame")'
          /\ r \in put_off \/ OnTheWay(r, "entries", "entries") =>
               r \in put_off' \/ OnTheWay(r, "entries", "entries")'
    BY <1>5, <2>2, <2>4 DEF OnTheWay
  <2>7. TypeOK'
    BY <2>2, <2>4, <2>5 DEF TypeOK
  <2>8. IRoot' /\ ITable' /\ IDemand' /\ IOwed'
    BY <2>5 DEF IRoot, ITable, IDemand, IOwed, Reached, Runs
  <2>9. IAsked' /\ NobodyIsMissed'
    BY <1>1, <2>5, <2>6 DEF IAsked, NobodyIsMissed, Reached, Runs
  <2> QED BY <2>7, <2>8, <2>9
<1>6. Head(inbox[w]) \in {"vsync", "entries", "terminate"}
  BY <1>1, <1>2, Beheaded
<1> QED BY <1>4, <1>5, <1>6
LEMMA StopInv ==
  ASSUME IInv, NEW w \in Workers, Stop(w) \/ ReadsTheEnd(w)
  PROVE  IInv'
<1>1. w \in reading /\ Quits(w)
  BY DEF Stop, ReadsTheEnd
<1>2. UNCHANGED <<view, background, held, let_in, callbacks, filed, requested, registry, ledger>>
  BY DEF Stop, ReadsTheEnd
<1> QED BY <1>1, <1>2, QuitsInv

LEMMA LetsThroughInv ==
  ASSUME IInv, NEW w \in Workers, LetsThrough(w)
  PROVE  IInv'
<1> USE DEF IInv
<1>1. w \in Realms /\ Workers \subseteq Realms
  BY DEF Realms
<1>2. let_in' = let_in \cup {w} /\ put_off' = put_off \ {w}
  BY DEF LetsThrough
<1>3. UNCHANGED <<notices, table, bits, failed, background, held, reading, root, inbox, callbacks,
                  filed, requested, in_frame, left, observing, owed, wakes, stale, acts, dropped>>
  BY DEF LetsThrough, view, frames, registry, ledger
<1>4. /\ jobs' \in [Realms -> Seq({"frame", "entries"})]
      /\ \A r \in Realms : ToSet(jobs[r]) \subseteq ToSet(jobs'[r])
      /\ w \in put_off => "entries" \in ToSet(jobs'[w])
  <2>1. CASE w \in put_off
    <3>1. jobs' = [jobs EXCEPT ![w] = Append(@, "entries")]
      BY <2>1 DEF LetsThrough
    <3> QED BY <1>1, <3>1, Queued
  <2>2. CASE w \notin put_off
    BY <2>2 DEF LetsThrough, TypeOK
  <2> QED BY <2>1, <2>2
<1>5. TypeOK'
  BY <1>2, <1>3, <1>4 DEF TypeOK
<1>6. IRoot' /\ ITable' /\ IDemand' /\ IOwed'
  BY <1>3 DEF IRoot, ITable, IDemand, IOwed, Reached, Runs
<1>7. IAsked' /\ NobodyIsMissed'
  BY <1>1, <1>2, <1>3, <1>4 DEF IAsked, NobodyIsMissed, Reached, Runs, OnTheWay
<1> QED BY <1>5, <1>6, <1>7

LEMMA ConsumeMainInv ==
  ASSUME IInv, ConsumeMain
  PROVE  IInv'
<1> USE DEF IInv
<1>1. Main \in Realms /\ Main \notin Workers /\ Workers \subseteq Realms
  BY RealmAssumption DEF Realms
<1>2. UNCHANGED <<notices, table, bits, failed, background, held, reading, root, let_in, put_off,
                  callbacks, filed, requested, in_frame, left, observing, owed, wakes, stale,
                  acts, dropped>>
  BY DEF ConsumeMain, view, life, frames, registry, ledger
<1>3. /\ inbox' \in [Realms -> Seq({"vsync", "entries", "terminate"})]
      /\ \A r \in Realms \ {Main} : inbox'[r] = inbox[r]
  BY <1>1, Read DEF ConsumeMain
<1>4. /\ jobs' \in [Realms -> Seq({"frame", "entries"})]
      /\ ToSet(jobs'[Main]) = ToSet(jobs[Main]) \cup {"frame"}
      /\ \A r \in Realms \ {Main} : jobs'[r] = jobs[r]
  BY <1>1, Queued DEF ConsumeMain
<1>5. TypeOK'
  BY <1>2, <1>3, <1>4 DEF TypeOK
<1>6. IRoot' /\ ITable' /\ IDemand' /\ IOwed'
  BY <1>2 DEF IRoot, ITable, IDemand, IOwed, Reached, Runs
<1>7. IAsked' /\ NobodyIsMissed'
  BY <1>1, <1>2, <1>3, <1>4 DEF IAsked, NobodyIsMissed, Reached, Runs, OnTheWay
<1> QED BY <1>5, <1>6, <1>7

LEMMA TakeEntriesInv ==
  ASSUME IInv, NEW w \in Workers, TakeEntries(w)
  PROVE  IInv'
<1> USE DEF IInv
<1>1. w \in Realms /\ Workers \subseteq Realms
  BY DEF Realms
<1>2. UNCHANGED <<notices, table, bits, failed, background, held, reading, root, let_in, put_off,
                  inbox, callbacks, filed, requested, in_frame, left, observing, wakes, stale,
                  acts, dropped>>
  BY DEF TakeEntries, view, life, frames, registry, ledger
<1>3. /\ jobs' \in [Realms -> Seq({"frame", "entries"})]
      /\ ToSet(jobs[w]) = ToSet(jobs'[w]) \cup {"entries"}
      /\ \A r \in Realms \ {w} : jobs'[r] = jobs[r]
  BY <1>1, Taken DEF TakeEntries
<1>4. /\ owed' \in [Workers -> 0..MaxRecords] /\ owed'[w] = 0
      /\ \A v \in Workers \ {w} : owed'[v] = owed[v]
  BY BoundAssumption DEF TakeEntries, TypeOK, IOwed
<1>5. TypeOK'
  BY <1>2, <1>3, <1>4 DEF TypeOK
<1>6. IRoot' /\ ITable' /\ IDemand'
  BY <1>2 DEF IRoot, ITable, IDemand, Reached, Runs
<1>7. IOwed'
  BY <1>2, <1>4 DEF IOwed
<1>8. IAsked'
  BY <1>1, <1>2, <1>3 DEF IAsked, Reached, Runs, OnTheWay
<1>9. NobodyIsMissed'
  BY SMTT(30), <1>1, <1>2, <1>3, <1>4 DEF NobodyIsMissed, Reached, OnTheWay
<1> QED BY <1>5, <1>6, <1>7, <1>8, <1>9
-----------------------------------------------------------------------------
(* animation-frame.ts: what the host is told is what the realm then knows. *)
LEMMA Updated ==
  ASSUME IInv, NEW r \in Realms, NEW waiting, UpdateFrameRequest(r, waiting, requested)
  PROVE  /\ notices' \in Seq(Notice) /\ ToSet(notices) \subseteq ToSet(notices')
         /\ \A n \in ToSet(notices') :
              n \in ToSet(notices) \/ (n.kind \in {"wants", "wants none"} /\ n.realm = r)
         /\ CreatedFirst(notices')
         /\ requested' \subseteq Realms
         /\ \A q \in Realms \ {r} : q \in requested' <=> q \in requested
         /\ \A q \in requested' : Reasked(notices', q)
         /\ r \in requested' <=> waiting # {}
         /\ r \in requested' \ requested => Demand(r) \in ToSet(notices')
<1> USE DEF IInv
<1>1. /\ notices \in Seq(Notice) /\ CreatedFirst(notices) /\ requested \subseteq Realms
      /\ \A q \in requested : Reasked(notices, q)
  BY DEF TypeOK, ITable, IDemand
<1>2. CASE (waiting # {}) = (r \in requested)
  <2>1. requested' = requested /\ notices' = notices
    BY <1>2 DEF UpdateFrameRequest
  <2> QED BY <1>1, <1>2, <2>1
<1>3. CASE waiting # {} /\ r \notin requested
  <2>1. requested' = requested \cup {r} /\ Notify("wants", r)
    BY <1>3 DEF UpdateFrameRequest
  <2> QED BY ZenonT(60), <1>1, <1>3, <2>1, Spoken
<1>4. CASE waiting = {} /\ r \in requested
  <2>1. requested' = requested \ {r} /\ notices' = Append(notices, Withdrawal(r))
    BY <1>4 DEF UpdateFrameRequest, Notify, Withdrawal
  <2>2. Withdrawal(r).kind = "wants none" /\ Withdrawal(r).realm = r
    BY DEF Withdrawal
  <2>3. /\ notices' \in Seq(Notice) /\ ToSet(notices') = ToSet(notices) \cup {Withdrawal(r)}
        /\ CreatedFirst(notices')
        /\ \A q \in Realms : Reasked(notices, q) /\ Withdrawal(r) # Withdrawal(q)
             => Reasked(notices', q)
    BY <1>1, <2>1, <2>2, Noted, Notices
  <2>4. \A q \in Realms \ {r} : Withdrawal(r) # Withdrawal(q)
    BY Notices
  <2>5. \A q \in requested' : Reasked(notices', q)
    BY <1>1, <2>1, <2>3, <2>4
  <2>6. \A n \in ToSet(notices') :
          n \in ToSet(notices) \/ (n.kind \in {"wants", "wants none"} /\ n.realm = r)
    BY <2>2, <2>3
  <2> QED BY <1>1, <1>4, <2>1, <2>3, <2>5, <2>6
<1>5. \/ (waiting # {}) = (r \in requested)
      \/ waiting # {} /\ r \notin requested
      \/ waiting = {} /\ r \in requested
  <2>1. CASE r \in requested
    BY <2>1
  <2>2. CASE r \notin requested
    BY <2>2
  <2> QED BY <2>1, <2>2
<1> QED BY <1>2, <1>3, <1>4, <1>5

LEMMA RequestInv ==
  ASSUME IInv, NEW r \in Realms, RequestAnimationFrame(r) \/ CancelAnimationFrame(r) \/ EndFrame(r)
  PROVE  IInv'
<1> USE DEF IInv
<1>1. Workers \subseteq Realms
  BY DEF Realms
<1>2. root[r] \notin Unopened
  BY DEF RequestAnimationFrame, CancelAnimationFrame, EndFrame, Runs, Unopened, IRoot
<1>3. UNCHANGED <<table, bits, failed, background, held, reading, root, let_in, put_off, inbox, jobs,
                  left, observing, owed, wakes, stale, dropped>>
  BY DEF RequestAnimationFrame, CancelAnimationFrame, EndFrame, life, registry, ledger
<1>4. /\ callbacks' \in [Realms -> SUBSET Ids] /\ filed' \in [Realms -> 0..MaxRequests]
      /\ acts' \in 0..MaxActs /\ in_frame' \subseteq Realms
      /\ \A q \in Realms \ {r} :
           callbacks'[q] = callbacks[q] /\ (q \in in_frame' <=> q \in in_frame)
      /\ UpdateFrameRequest(r, callbacks'[r], requested)
  <2>1. CASE RequestAnimationFrame(r)
    <3>1. filed[r] \in 0..MaxRequests /\ filed[r] < MaxRequests
      BY <2>1 DEF RequestAnimationFrame, TypeOK
    <3>2. filed[r] + 1 \in Ids /\ filed[r] + 1 \in 0..MaxRequests
      BY <3>1, BoundAssumption DEF Ids
    <3>3. acts' \in 0..MaxActs
      BY <2>1, BoundAssumption DEF RequestAnimationFrame, Act, TypeOK
    <3>4. /\ callbacks' = [callbacks EXCEPT ![r] = callbacks[r] \cup {filed[r] + 1}]
          /\ filed' = [filed EXCEPT ![r] = @ + 1] /\ in_frame' = in_frame
          /\ UpdateFrameRequest(r, callbacks[r] \cup {filed[r] + 1}, requested)
      BY <2>1 DEF RequestAnimationFrame
    <3>5. callbacks'[r] = callbacks[r] \cup {filed[r] + 1}
      BY <3>4 DEF TypeOK
    <3> QED BY <3>2, <3>3, <3>4, <3>5 DEF TypeOK
  <2>2. CASE CancelAnimationFrame(r)
    <3>1. PICK gone \in {{id} : id \in callbacks[r]} \cup {callbacks[r]} :
            /\ callbacks' = [callbacks EXCEPT ![r] = callbacks[r] \ gone]
            /\ UpdateFrameRequest(r, callbacks[r] \ gone, requested)
      BY <2>2 DEF CancelAnimationFrame
    <3>2. callbacks'[r] = callbacks[r] \ gone
      BY <3>1 DEF TypeOK
    <3>3. acts' \in 0..MaxActs /\ filed' = filed /\ in_frame' = in_frame
      BY <2>2, BoundAssumption DEF CancelAnimationFrame, Act, TypeOK
    <3> QED BY <3>1, <3>2, <3>3 DEF TypeOK
  <2>3. CASE EndFrame(r)
    BY <2>3 DEF EndFrame, TypeOK, ledger
  <2> QED BY <2>1, <2>2, <2>3
<1>5. /\ notices' \in Seq(Notice) /\ ToSet(notices) \subseteq ToSet(notices')
      /\ \A n \in ToSet(notices') :
           n \in ToSet(notices) \/ (n.kind \in {"wants", "wants none"} /\ n.realm = r)
      /\ CreatedFirst(notices')
      /\ requested' \subseteq Realms
      /\ \A q \in Realms \ {r} : q \in requested' <=> q \in requested
      /\ \A q \in requested' : Reasked(notices', q)
      /\ r \in requested' <=> callbacks'[r] # {}
      /\ r \in requested' \ requested => Demand(r) \in ToSet(notices')
  BY <1>4, Updated
<1>6. TypeOK'
  BY <1>3, <1>4, <1>5 DEF TypeOK
<1>7. IRoot'
  BY ZenonT(60), <1>1, <1>2, <1>3, <1>4, <1>5 DEF IRoot, Unopened, TypeOK
<1>8. ITable'
  BY <1>3, <1>5 DEF ITable, Reached
<1>9. IDemand'
  BY <1>3, <1>4, <1>5 DEF IDemand, Runs
<1>10. IAsked'
  BY <1>3, <1>5 DEF IAsked, Runs, Reached, OnTheWay
<1>11. IOwed' /\ NobodyIsMissed'
  BY <1>3 DEF IOwed, NobodyIsMissed, Reached, OnTheWay
<1> QED BY <1>6, <1>7, <1>8, <1>9, <1>10, <1>11

LEMMA BeginFrameInv ==
  ASSUME IInv, NEW r \in Realms, BeginFrame(r)
  PROVE  IInv'
<1> USE DEF IInv
<1>1. Workers \subseteq Realms
  BY DEF Realms
<1>2. root[r] \notin Unopened
  BY DEF BeginFrame, Runs, Unopened
<1>3. UNCHANGED <<notices, table, bits, failed, background, held, reading, root, let_in, put_off,
                  inbox, callbacks, filed, observing, owed, wakes, stale, acts, dropped>>
  BY DEF BeginFrame, view, life, registry, ledger
<1>4. /\ jobs' \in [Realms -> Seq({"frame", "entries"})]
      /\ ToSet(jobs[r]) = ToSet(jobs'[r]) \cup {"frame"}
      /\ \A q \in Realms \ {r} : jobs'[q] = jobs[q]
  BY Taken DEF BeginFrame
<1>5. /\ requested' = requested \ {r} /\ in_frame' = in_frame \cup {r}
      /\ left' \in [Realms -> SUBSET Ids]
  BY DEF BeginFrame, TypeOK
<1>6. TypeOK'
  BY <1>3, <1>4, <1>5 DEF TypeOK
<1>7. IRoot' /\ ITable'
  BY <1>2, <1>3, <1>5 DEF IRoot, ITable, Reached
<1>8. IDemand' /\ IOwed'
  BY <1>3, <1>5 DEF IDemand, IOwed, Runs
<1>9. IAsked'
  BY <1>3, <1>4, <1>5 DEF IAsked, Runs, Reached, OnTheWay
<1>10. NobodyIsMissed'
  BY <1>1, <1>3, <1>4 DEF NobodyIsMissed, Reached, OnTheWay
<1> QED BY <1>6, <1>7, <1>8, <1>9, <1>10

LEMMA RunCallbackInv ==
  ASSUME IInv, NEW r \in Realms, RunCallback(r)
  PROVE  IInv'
<1> USE DEF IInv
<1>1. UNCHANGED <<notices, table, bits, failed, background, held, reading, root, let_in, put_off,
                  inbox, jobs, filed, requested, in_frame, observing, owed, wakes, stale, acts,
                  dropped>>
  BY DEF RunCallback, view, life, registry, ledger
<1>2. /\ callbacks' \in [Realms -> SUBSET Ids] /\ left' \in [Realms -> SUBSET Ids]
      /\ r \in in_frame /\ callbacks'[r] \subseteq callbacks[r]
      /\ \A q \in Realms \ {r} : callbacks'[q] = callbacks[q]
  BY DEF RunCallback, TypeOK
<1>3. TypeOK'
  BY <1>1, <1>2 DEF TypeOK
<1>4. IRoot' /\ ITable'
  BY <1>1, <1>2 DEF IRoot, ITable, Reached
<1>5. IDemand'
  BY <1>1, <1>2 DEF IDemand, Runs
<1>6. IAsked' /\ IOwed' /\ NobodyIsMissed'
  BY <1>1 DEF IAsked, IOwed, NobodyIsMissed, Runs, Reached, OnTheWay
<1> QED BY <1>3, <1>4, <1>5, <1>6
-----------------------------------------------------------------------------
(* The registry, and a native call.                                        *)
LEMMA ObserveInv ==
  ASSUME IInv, NEW w \in Workers, Observe(w)
  PROVE  IInv'
<1> USE DEF IInv
<1>1. Workers \subseteq Realms
  BY DEF Realms
<1>2. root[w] \notin Unopened \cup {"forgotten"}
  BY DEF Observe, Runs, Unopened
<1>3. UNCHANGED <<notices, table, bits, failed, background, held, reading, root, let_in, put_off,
                  inbox, jobs, callbacks, filed, requested, in_frame, left, wakes, stale, dropped>>
  BY DEF Observe, view, life, frames
<1>4. /\ observing' \subseteq Workers /\ owed' \in [Workers -> 0..MaxRecords]
      /\ \A v \in Workers \ {w} : owed'[v] = owed[v] /\ (v \in observing' <=> v \in observing)
      /\ owed'[w] = 0
  BY BoundAssumption DEF Observe, TypeOK, IOwed
<1>5. acts' \in 0..MaxActs
  BY BoundAssumption DEF Observe, Act, TypeOK
<1>6. TypeOK'
  BY <1>3, <1>4, <1>5 DEF TypeOK
<1>7. IRoot' /\ ITable'
  BY <1>1, <1>2, <1>3, <1>4 DEF IRoot, ITable, Reached
<1>8. IDemand' /\ IAsked'
  BY <1>3 DEF IDemand, IAsked, Runs, Reached, OnTheWay
<1>9. IOwed' /\ NobodyIsMissed'
  BY <1>3, <1>4 DEF IOwed, NobodyIsMissed, Reached, OnTheWay
<1> QED BY <1>6, <1>7, <1>8, <1>9

LEMMA MakeEntryInv ==
  ASSUME IInv, MakeEntry
  PROVE  IInv'
<1> USE DEF IInv
<1>1. UNCHANGED <<notices, table, bits, failed, background, held, reading, root, let_in, put_off,
                  inbox, jobs, callbacks, filed, requested, in_frame, left, observing, dropped>>
  BY DEF MakeEntry, view, life, frames
<1>2. \A w \in Workers : Enqueue(w) \in 0..MaxRecords
  BY BoundAssumption DEF Enqueue, TypeOK
<1>3. /\ owed' \in [Workers -> 0..MaxRecords]
      /\ \A w \in Workers \ observing : owed'[w] = owed[w]
      /\ wakes' = wakes \cup observing /\ stale' \in BOOLEAN
  BY <1>2 DEF MakeEntry, TypeOK
<1>4. acts' \in 0..MaxActs
  BY BoundAssumption DEF MakeEntry, Act, TypeOK
<1>5. TypeOK'
  BY <1>1, <1>3, <1>4 DEF TypeOK
<1>6. IRoot' /\ ITable' /\ IDemand' /\ IAsked'
  BY <1>1 DEF IRoot, ITable, IDemand, IAsked, Runs, Reached, OnTheWay
<1>7. IOwed' /\ NobodyIsMissed'
  BY <1>1, <1>3 DEF IOwed, NobodyIsMissed, Reached, OnTheWay
<1> QED BY <1>5, <1>6, <1>7

LEMMA CallInv ==
  ASSUME IInv, NEW w \in Workers, Call(w)
  PROVE  IInv'
<1> USE DEF IInv
<1>1. w \in Realms /\ Workers \subseteq Realms
  BY DEF Realms
<1>2. root[w] # "none"
  BY DEF Call, Runs
<1>3. UNCHANGED <<table, bits, failed, background, held, reading, root, let_in, put_off, inbox, jobs,
                  callbacks, filed, requested, in_frame, left, observing, owed, wakes, stale, dropped>>
  BY DEF Call, life, frames, registry
<1>4. /\ notices' \in Seq(Notice) /\ ToSet(notices) \subseteq ToSet(notices')
      /\ \A n \in ToSet(notices') :
           n \in ToSet(notices) \/ (n.kind = "call" /\ n.realm = w)
      /\ CreatedFirst(notices')
      /\ \A q \in Realms : Reasked(notices, q) => Reasked(notices', q)
  BY <1>1, Spoken DEF Call
<1>5. acts' \in 0..MaxActs
  BY BoundAssumption DEF Call, Act, TypeOK
<1>6. TypeOK'
  BY <1>3, <1>4, <1>5 DEF TypeOK
<1>7. IRoot'
  BY <1>2, <1>3, <1>4 DEF IRoot
<1>8. ITable'
  BY <1>3, <1>4 DEF ITable, Reached
<1>9. IDemand' /\ IAsked'
  BY <1>3, <1>4 DEF IDemand, IAsked, Runs, Reached, OnTheWay
<1>10. IOwed' /\ NobodyIsMissed'
  BY <1>3 DEF IOwed, NobodyIsMissed, Reached, OnTheWay
<1> QED BY <1>6, <1>7, <1>8, <1>9, <1>10

-----------------------------------------------------------------------------
(* The embedder's thread.                                                  *)

(* Who runs, or observes and reads, and can be reached is in the table.    *)
LEMMA InTheTable ==
  ASSUME IInv, ~failed, NEW w \in Workers, Reached(w), Runs(w) \/ w \in observing
  PROVE  w \in table
<1>1. w \in Realms /\ w \in reading
  BY DEF Realms, Reached
<1>2. root[w] \in {"running", "finished"}
  BY <1>1 DEF Runs, IInv, IRoot, TypeOK, Unopened
<1>3. CASE Creation(w) \in ToSet(notices)
  <2>1. Creation(w).kind = "created" /\ Creation(w).realm = w
    BY DEF Creation
  <2> QED BY <1>2, <1>3, <2>1 DEF IInv, ITable
<1> QED BY <1>3 DEF IInv, ITable

LEMMA NotifyInv ==
  ASSUME IInv, PumpEntries \/ Present
  PROVE  IInv'
<1> USE DEF IInv
<1>1. Workers \subseteq Realms
  BY DEF Realms
<1>2. UNCHANGED <<notices, table, bits, failed, background, held, reading, root, let_in, put_off,
                  jobs, callbacks, filed, requested, in_frame, left, observing, owed, acts, dropped>>
  BY DEF PumpEntries, Present, view, life, frames, ledger
<1>3. wakes' = {} /\ stale' \in BOOLEAN /\ NotifyPerformance(wakes)
  BY DEF PumpEntries, Present, TypeOK
<1>4. /\ inbox' \in [Realms -> Seq({"vsync", "entries", "terminate"})]
      /\ \A r \in Realms : ToSet(inbox[r]) \subseteq ToSet(inbox'[r])
      /\ \A r \in Realms :
           r \in wakes \cap table \cap held \cap reading => "entries" \in ToSet(inbox'[r])
  <2> DEFINE told == wakes \cap table \cap held \cap reading
  <2>1. TypeOK /\ inbox' = Tell(told, "entries")
    BY <1>3 DEF NotifyPerformance
  <2> HIDE DEF told
  <2>2. /\ Tell(told, "entries") \in [Realms -> Seq({"vsync", "entries", "terminate"})]
        /\ \A r \in Realms :
             ToSet(Tell(told, "entries")[r]) = ToSet(inbox[r]) \cup IF r \in told THEN {"entries"} ELSE {}
    BY <2>1, Told
  <2>3. \A r \in Realms : r \in wakes \cap table \cap held \cap reading => r \in told
    BY DEF told
  <2> QED BY <2>1, <2>2, <2>3
<1>5. TypeOK'
  BY <1>2, <1>3, <1>4 DEF TypeOK
<1>6. IRoot' /\ ITable' /\ IDemand' /\ IOwed'
  BY <1>2 DEF IRoot, ITable, IDemand, IOwed, Runs, Reached
<1>7. IAsked'
  BY <1>2, <1>4 DEF IAsked, Runs, Reached, OnTheWay
<1>8. NobodyIsMissed'
  <2> SUFFICES ASSUME NEW w \in Workers, Reached(w)
               PROVE  /\ w \notin dropped
                      /\ ~failed /\ w \in observing /\ owed[w] > 0 =>
                           w \in put_off \/ OnTheWay(w, "entries", "entries")'
    BY <1>2 DEF NobodyIsMissed, Reached
  <2>1. w \notin dropped
    BY DEF NobodyIsMissed
  <2>2. ASSUME ~failed, w \in observing, owed[w] > 0
        PROVE  w \in put_off \/ OnTheWay(w, "entries", "entries")'
    <3>1. CASE w \in wakes
      <4>1. w \in wakes \cap table \cap held \cap reading
        BY <2>2, <3>1, InTheTable DEF Reached
      <4> QED BY <1>1, <1>4, <4>1 DEF OnTheWay
    <3>2. CASE w \notin wakes
      BY <1>1, <1>2, <1>4, <2>2, <3>2 DEF NobodyIsMissed, OnTheWay
    <3> QED BY <3>1, <3>2
  <2> QED BY <2>1, <2>2
<1> QED BY <1>5, <1>6, <1>7, <1>8

LEMMA IsPendingInv ==
  ASSUME IInv, IsPending
  PROVE  IInv'
<1> USE DEF IInv
<1>1. Main \notin Workers
  BY RealmAssumption
<1>2. UNCHANGED <<notices, failed, background, held, reading, root, let_in, put_off, inbox, jobs,
                  callbacks, filed, requested, in_frame, left, observing, owed, wakes, stale, acts,
                  dropped>>
  BY DEF IsPending, life, frames, registry, ledger
<1>3. /\ table' \subseteq table /\ bits' \subseteq bits /\ bits' \subseteq table' \cup {Main}
      /\ \A w \in Workers : Reached(w) => (w \in table <=> w \in table') /\ (w \in bits <=> w \in bits')
      /\ Main \in bits <=> Main \in bits'
  BY <1>1 DEF IsPending, Swept, TypeOK
<1>4. TypeOK'
  BY <1>2, <1>3 DEF TypeOK
<1>5. IRoot' /\ ITable'
  BY <1>2, <1>3 DEF IRoot, ITable, Reached
<1>6. IDemand' /\ IOwed' /\ NobodyIsMissed'
  BY <1>2 DEF IDemand, IOwed, NobodyIsMissed, Runs, Reached, OnTheWay
<1>7. IAsked'
  BY <1>2, <1>3 DEF IAsked, Runs, Reached, OnTheWay, Realms
<1> QED BY <1>4, <1>5, <1>6, <1>7

LEMMA VsyncInv ==
  ASSUME IInv, Vsync
  PROVE  IInv'
<1> USE DEF IInv
<1>1. Main \notin Workers /\ Main \in Realms /\ Workers \subseteq Realms
  BY RealmAssumption DEF Realms
<1>2. UNCHANGED <<notices, table, failed, background, held, reading, root, let_in, put_off, jobs,
                  callbacks, filed, requested, in_frame, left, observing, owed, wakes, stale, acts,
                  dropped>>
  BY DEF Vsync, life, frames, registry, ledger
<1> DEFINE asked == (bits \cap Swept) \cup (bits \cap {r \in {Main} : root[r] # "over"})
<1>3. bits' = {} /\ inbox' = Tell(asked, "vsync")
  BY DEF Vsync
<1>4. /\ inbox' \in [Realms -> Seq({"vsync", "entries", "terminate"})]
      /\ \A r \in Realms : ToSet(inbox[r]) \subseteq ToSet(inbox'[r])
      /\ \A r \in Realms : r \in asked => "vsync" \in ToSet(inbox'[r])
  <2> HIDE DEF asked
  <2>1. TypeOK
    OBVIOUS
  <2>2. /\ Tell(asked, "vsync") \in [Realms -> Seq({"vsync", "entries", "terminate"})]
        /\ \A r \in Realms :
             ToSet(Tell(asked, "vsync")[r]) = ToSet(inbox[r]) \cup IF r \in asked THEN {"vsync"} ELSE {}
    BY <2>1, Told
  <2> QED BY <1>3, <2>2
<1>5. \A r \in Realms : r \in bits /\ Runs(r) /\ (r = Main \/ Reached(r)) => r \in asked
  BY <1>1 DEF TypeOK, Runs, Swept
<1> HIDE DEF asked
<1>6. TypeOK'
  BY <1>2, <1>3, <1>4 DEF TypeOK
<1>7. IRoot' /\ ITable' /\ IDemand' /\ IOwed'
  BY <1>2 DEF IRoot, ITable, IDemand, IOwed, Runs, Reached
<1>8. IAsked'
  BY <1>2, <1>4, <1>5 DEF IAsked, Runs, Reached, OnTheWay
<1>9. NobodyIsMissed'
  BY <1>1, <1>2, <1>4 DEF NobodyIsMissed, Reached, OnTheWay
<1> QED BY <1>6, <1>7, <1>8, <1>9
(* What is left of the notices once the first of them is read.             *)
LEMMA PumpNoticeInv ==
  ASSUME IInv, PumpNotice
  PROVE  IInv'
<1> USE DEF IInv
<1>0. PICK r, kind : r = Head(notices).realm /\ kind = Head(notices).kind
  OBVIOUS
<1>1. Main \notin Workers /\ Main \in Realms /\ Workers \subseteq Realms
  BY RealmAssumption DEF Realms
<1>2. notices \in Seq(Notice) /\ notices # <<>> /\ notices' = Tail(notices)
  BY DEF PumpNotice, TypeOK
<1>3. /\ notices' \in Seq(Notice) /\ Head(notices) \in Notice
      /\ ToSet(notices) = ToSet(notices') \cup {Head(notices)}
  BY <1>2, Beheaded
<1>4. /\ CreatedFirst(notices')
      /\ \A n \in ToSet(notices') : n.kind = "created" => n.realm # r
      /\ \A q \in requested : Reasked(notices', q)
      /\ \A q \in requested : Head(notices) = Withdrawal(q) => Demand(q) \in ToSet(notices')
  <2>1. CreatedFirst(notices) /\ \A q \in requested : q \in Realms /\ Reasked(notices, q)
    BY DEF ITable, IDemand, TypeOK
  <2> QED BY <1>0, <1>2, <2>1, Heard
<1>5. UNCHANGED <<background, held, reading, inbox, let_in, put_off, jobs, callbacks, filed,
                  requested, in_frame, left, observing, owed, wakes, stale, acts>>
  BY DEF PumpNotice, frames, registry
<1>6. /\ r \in Realms /\ kind \in {"created", "source", "wants", "wants none", "call", "fatal"}
      /\ root[r] # "none"
  <2>1. r \in Realms /\ kind \in {"created", "source", "wants", "wants none", "call", "fatal"}
    BY <1>0, <1>1, <1>3 DEF Notice
  <2>2. CASE r = Main
    <3>1. root[Main] \in {"finished", "over"}
      BY DEF IRoot
    <3> QED BY <2>1, <2>2, <3>1
  <2>3. CASE r \in Workers
    <3>1. Head(notices) \in ToSet(notices)
      BY <1>3
    <3> QED BY <1>0, <2>1, <2>3, <3>1 DEF IRoot
  <2> QED BY <2>1, <2>2, <2>3 DEF Realms
<1>7. /\ kind = "wants none" => Head(notices) = Withdrawal(r)
      /\ \A q \in Realms : Demand(q) = Head(notices) => q = r /\ kind = "wants"
      /\ \A q \in Realms : Creation(q) = Head(notices) => q = r /\ kind = "created"
  <2>1. \A q \in Realms : /\ Demand(q).realm = q /\ Demand(q).kind = "wants"
                          /\ Creation(q).realm = q /\ Creation(q).kind = "created"
    BY DEF Demand, Creation
  <2>2. \A n \in Notice : n.kind = "wants none" => n = Withdrawal(n.realm)
    BY Notices
  <2> QED BY ZenonT(60), <1>0, <1>3, <2>1, <2>2
<1>8. /\ Head(notices) \in ToSet(notices) /\ ToSet(notices') \subseteq ToSet(notices)
      /\ \A n \in ToSet(notices) : n \in ToSet(notices') \/ n = Head(notices)
      /\ \A q \in Realms : Demand(q) \in ToSet(notices) =>
           Demand(q) \in ToSet(notices') \/ (q = r /\ kind = "wants")
      /\ \A q \in Realms : Creation(q) \in ToSet(notices) =>
           Creation(q) \in ToSet(notices') \/ (q = r /\ kind = "created")
  BY <1>3, <1>7
<1>9. kind = "created" => r \in Workers \ table /\ root[r] \notin {"none", "fetching", "running", "finished"}
  BY <1>0, <1>8 DEF ITable
<1>10. kind = "call" => r \in Workers
  BY <1>0, <1>8 DEF ITable
<1>11. \A w \in Workers :
         ~failed /\ Reached(w) /\ Creation(w) \in ToSet(notices) =>
           Creation(w) \in ToSet(notices') \/ (w = r /\ kind = "created")
  BY <1>1, <1>8
<1>12. CASE kind = "created"
  <2>1. /\ table' = table \cup {r} /\ bits' = bits \ {r} /\ UNCHANGED <<failed, root, dropped>>
        /\ r \in Workers \ table /\ root[r] \notin {"none", "fetching", "running", "finished"}
    BY <1>0, <1>9, <1>12 DEF PumpNotice
  <2>2. TypeOK'
    BY <1>3, <1>5, <2>1 DEF TypeOK
  <2>3. IRoot'
    BY <1>5, <1>8, <2>1 DEF IRoot
  <2>4. ITable'
    BY <1>4, <1>5, <1>8, <1>11, <2>1 DEF ITable, Reached
  <2>5. IDemand' /\ IOwed'
    BY <1>4, <1>5, <2>1 DEF IDemand, IOwed, Runs
  <2>6. IAsked'
    BY <1>5, <1>8, <1>12, <2>1 DEF IAsked, Runs, Reached, OnTheWay
  <2>7. NobodyIsMissed'
    BY <1>5, <2>1 DEF NobodyIsMissed, Reached, OnTheWay
  <2> QED BY <2>2, <2>3, <2>4, <2>5, <2>6, <2>7
<1>13. CASE kind = "source"
  <2>1. /\ UNCHANGED <<table, bits, failed, dropped>>
        /\ root' \in [Realms -> {"none", "opening", "booted", "asked", "fetching", "running",
                          "finished", "over", "forgotten"}]
        /\ \A q \in Realms : \/ root'[q] = root[q]
                             \/ q = r /\ root[q] = "asked" /\ root'[q] = "fetching"
    <3>1. /\ UNCHANGED <<table, bits, failed, dropped>>
          /\ root' = IF root[r] = "asked" /\ ~failed
                       THEN [root EXCEPT ![r] = "fetching"] ELSE root
      BY <1>0, <1>13 DEF PumpNotice
    <3> QED BY <1>6, <3>1 DEF TypeOK
  <2>2. TypeOK'
    BY <1>3, <1>5, <2>1 DEF TypeOK
  <2>3. IRoot'
    BY <1>1, <1>5, <1>8, <2>1 DEF IRoot, Unopened, TypeOK
  <2>4. ITable'
    BY <1>1, <1>4, <1>5, <1>8, <1>11, <1>13, <2>1 DEF ITable, Reached
  <2>5. IDemand' /\ IOwed'
    BY <1>4, <1>5, <2>1 DEF IDemand, IOwed, Runs
  <2>6. IAsked'
    BY <1>5, <1>8, <1>13, <2>1 DEF IAsked, Runs, Reached, OnTheWay
  <2>7. NobodyIsMissed'
    BY <1>5, <2>1 DEF NobodyIsMissed, Reached, OnTheWay
  <2> QED BY <2>2, <2>3, <2>4, <2>5, <2>6, <2>7
<1>14. CASE kind \in {"wants", "wants none"}
  <2>1. /\ UNCHANGED <<table, failed, root, dropped>>
        /\ bits' = IF failed THEN bits
                   ELSE IF kind = "wants" THEN bits \cup ({r} \cap (table \cup {Main}))
                   ELSE bits \ {r}
    BY <1>0, <1>14 DEF PumpNotice
  <2>2. TypeOK'
    BY <1>3, <1>5, <2>1 DEF TypeOK
  <2>3. IRoot'
    BY <1>5, <1>8, <2>1 DEF IRoot
  <2>4. ITable'
    BY <1>1, <1>4, <1>5, <1>8, <1>11, <1>14, <2>1 DEF ITable, Reached
  <2>5. IDemand' /\ IOwed'
    BY <1>4, <1>5, <2>1 DEF IDemand, IOwed, Runs
  <2>6. IAsked'
    <3> SUFFICES ASSUME NEW q \in Realms, Runs(q), q = Main \/ Reached(q), ~failed, q \in requested
                 PROVE  q \in bits' \/ OnTheWay(q, "vsync", "frame") \/ Demand(q) \in ToSet(notices')
      BY <1>5, <2>1 DEF IAsked, Runs, Reached, OnTheWay
    <3>1. q \in bits \/ OnTheWay(q, "vsync", "frame") \/ Demand(q) \in ToSet(notices)
      BY DEF IAsked
    <3>2. CASE q # r
      BY <1>8, <2>1, <3>1, <3>2
    <3>3. CASE q = r /\ kind = "wants"
      <4>1. q \in table \cup {Main}
        BY InTheTable DEF Realms
      <4> QED BY <2>1, <3>3, <4>1
    <3>4. CASE q = r /\ kind = "wants none"
      BY <1>4, <1>7, <3>4
    <3> QED BY <1>14, <3>2, <3>3, <3>4
  <2>7. NobodyIsMissed'
    BY <1>5, <2>1 DEF NobodyIsMissed, Reached, OnTheWay
  <2> QED BY <2>2, <2>3, <2>4, <2>5, <2>6, <2>7
<1>15. CASE kind = "call"
  <2>1. /\ UNCHANGED <<table, bits, failed, root>> /\ r \in Workers
        /\ dropped' = IF failed \/ r \in table THEN dropped ELSE dropped \cup {r}
    BY <1>0, <1>10, <1>15 DEF PumpNotice
  <2>2. TypeOK'
    BY <1>3, <1>5, <2>1 DEF TypeOK
  <2>3. IRoot'
    BY <1>5, <1>6, <1>8, <2>1 DEF IRoot
  <2>4. ITable'
    BY <1>1, <1>4, <1>5, <1>8, <1>11, <1>15, <2>1 DEF ITable, Reached
  <2>5. IDemand' /\ IOwed'
    BY <1>4, <1>5, <2>1 DEF IDemand, IOwed, Runs
  <2>6. IAsked'
    BY <1>5, <1>8, <1>15, <2>1 DEF IAsked, Runs, Reached, OnTheWay
  <2>7. ~failed /\ Reached(r) => r \in table
    <3>1. Creation(r) \notin ToSet(notices')
      <4>1. Creation(r).kind = "created" /\ Creation(r).realm = r
        BY DEF Creation
      <4> QED BY <1>4, <4>1
    <3> QED BY <1>1, <1>8, <1>15, <2>1, <3>1 DEF ITable
  <2>8. NobodyIsMissed'
    BY <1>5, <2>1, <2>7 DEF NobodyIsMissed, Reached, OnTheWay
  <2> QED BY <2>2, <2>3, <2>4, <2>5, <2>6, <2>8
<1>16. CASE kind = "fatal"
  <2>1. failed' = TRUE /\ table' = {} /\ bits' = {} /\ UNCHANGED <<root, dropped>>
    BY <1>0, <1>16 DEF PumpNotice
  <2>2. TypeOK'
    BY <1>3, <1>5, <2>1 DEF TypeOK
  <2>3. IRoot'
    BY <1>5, <1>8, <2>1 DEF IRoot
  <2>4. ITable'
    BY <1>4, <1>5, <1>8, <2>1 DEF ITable, Reached
  <2>5. IDemand' /\ IOwed' /\ IAsked'
    BY <1>4, <1>5, <2>1 DEF IDemand, IOwed, IAsked, Runs
  <2>6. NobodyIsMissed'
    BY <1>5, <2>1 DEF NobodyIsMissed, Reached
  <2> QED BY <2>2, <2>3, <2>4, <2>5, <2>6
<1> QED BY <1>6, <1>12, <1>13, <1>14, <1>15, <1>16

-----------------------------------------------------------------------------
LEMMA NextInv == IInv /\ [Next]_vars => IInv'
<1> SUFFICES ASSUME IInv, [Next]_vars PROVE IInv'
  OBVIOUS
<1>1. ASSUME NEW w \in Workers,
             \/ Create(w) \/ LetGo(w) \/ RootEnds(w) \/ EntryEnds(w) \/ Stop(w) \/ Forget(w)
             \/ Worker(w) \/ Observe(w) \/ Call(w)
      PROVE  IInv'
  BY <1>1, CreateInv, LetGoInv, RunningInv, StopInv, ForgetInv, OpeningInv, ConsumeInv,
     LetsThroughInv, TakeEntriesInv, ObserveInv, CallInv DEF Worker
<1>2. ASSUME NEW r \in Realms, RequestAnimationFrame(r) \/ CancelAnimationFrame(r) \/ Script(r)
      PROVE  IInv'
  BY <1>2, RequestInv, BeginFrameInv, RunCallbackInv DEF Script
<1>3. CASE ConsumeMain \/ Fail \/ MakeEntry
  BY <1>3, ConsumeMainInv, FailInv, MakeEntryInv
<1>4. CASE Pump \/ Present \/ IsPending \/ Vsync
  BY <1>4, PumpNoticeInv, NotifyInv, IsPendingInv, VsyncInv DEF Pump
<1>5. CASE UNCHANGED vars
  <2>1. UNCHANGED <<notices, table, bits, failed, background, held, reading, inbox, root, let_in,
                    put_off, jobs, callbacks, filed, requested, in_frame, left, observing, owed,
                    wakes, stale, acts, dropped>>
    BY <1>5 DEF vars
  <2>2. TypeOK' /\ IRoot' /\ ITable'
    BY <2>1 DEF IInv, TypeOK, IRoot, ITable, Reached
  <2>3. IDemand' /\ IAsked' /\ IOwed' /\ NobodyIsMissed'
    BY <2>1 DEF IInv, IDemand, IAsked, IOwed, NobodyIsMissed, Runs, Reached, OnTheWay
  <2> QED BY <2>2, <2>3 DEF IInv
<1> QED BY <1>1, <1>2, <1>3, <1>4, <1>5 DEF Next

(* The inductive invariant holds in every behaviour.                       *)
THEOREM Invariance == Spec => []IInv
BY InitInv, NextInv, PTL DEF Spec

(* Every variable keeps its type; a demand is only ever set for a worker   *)
(* whose address the table has (link.rs, FrameDemand).                     *)
THEOREM TypeCorrect == Spec => []TypeOK
<1>1. IInv => TypeOK
  BY DEF IInv
<1> QED BY <1>1, Invariance, PTL

(* A realm with a callback that waits is owed a frame, for any number of   *)
(* workers: the demand is set, on its way to the table, or answered and on *)
(* its way back (animation-frame.ts, FrameDemand::dispatch).               *)
THEOREM FramesAreOwed == Spec => []FrameIsOwed
<1>1. IInv => FrameIsOwed
  BY DEF IInv, FrameIsOwed, IDemand, IAsked, Demand
<1> QED BY <1>1, Invariance, PTL

(* No observer that can be reached loses its wake and no call of one goes  *)
(* unanswered, for any number of workers (registry.rs, deliver;            *)
(* FrameDemand::reply).                                                    *)
THEOREM NobodyMissed == Spec => []NobodyIsMissed
<1>1. IInv => NobodyIsMissed
  BY DEF IInv
<1> QED BY <1>1, Invariance, PTL
=============================================================================
