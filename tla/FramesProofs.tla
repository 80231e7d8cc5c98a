--------------------------- MODULE FramesProofs -----------------------------
(***************************************************************************)
(* What the tables of Frames hold, for every number of cards and loads:    *)
(* the calls on the stack, the cards of the frames, the loads and the      *)
(* disposals. FrameCardsProofs builds what frame.ts promises on it.        *)
(***************************************************************************)
EXTENDS Frames, Integers, FiniteSetTheorems, WellFoundedInduction, TLAPS

-----------------------------------------------------------------------------
(* The lists the stack is made of, and counting in them.                   *)

(* Counting the calls of a stack.                                          *)
Places(s, these) == {i \in DOMAIN s : s[i] \in these}
Count(s, these) == Cardinality(Places(s, these))
Within(s) == {s[i] : i \in DOMAIN s}
If(e, these) == IF e \in these THEN 1 ELSE 0

(* A count is a number, and zero of what is not there.                     *)
LEMMA PlacesFinite ==
  ASSUME NEW S, NEW s \in Seq(S), NEW these
  PROVE  /\ IsFiniteSet(Places(s, these)) /\ Count(s, these) \in Nat
         /\ Count(s, these) = 0 <=> \A i \in 1..Len(s) : s[i] \notin these
<1>1. IsFiniteSet(1..Len(s))
  BY FS_Interval
<1>2. Places(s, these) \subseteq 1..Len(s)
  BY DEF Places
<1>3. IsFiniteSet(Places(s, these))
  BY <1>1, <1>2, FS_Subset
<1>4. Cardinality(Places(s, these)) = 0 <=> Places(s, these) = {}
  BY <1>3, FS_EmptySet
<1>5. Places(s, these) = {} <=> \A i \in 1..Len(s) : s[i] \notin these
  BY DEF Places
<1> QED  BY <1>3, <1>4, <1>5, FS_CardinalityType DEF Count

(* Nothing is counted in an empty stack.                                   *)
LEMMA CountNone == ASSUME NEW these PROVE Count(<<>>, these) = 0
<1>1. Places(<<>>, these) = {}
  BY DEF Places
<1> QED  BY <1>1, FS_EmptySet DEF Count

(* A count of two stacks, one on the other, is the sum of their counts.    *)
LEMMA CountJoin ==
  ASSUME NEW S, NEW s \in Seq(S), NEW t \in Seq(S), NEW these
  PROVE  Count(s \o t, these) = Count(s, these) + Count(t, these)
<1> DEFINE n == Len(s)
           A == Places(s, these)
           T == Places(t, these)
           f == [i \in T |-> n + i]
           B == {n + i : i \in T}
           W == Places(s \o t, these)
<1>1. /\ n \in Nat /\ Len(t) \in Nat /\ s \o t \in Seq(S) /\ Len(s \o t) = n + Len(t)
      /\ \A i \in 1..n : (s \o t)[i] = s[i]
      /\ \A i \in 1..Len(t) : (s \o t)[n + i] = t[i]
  OBVIOUS
<1>2. A \subseteq 1..n /\ T \subseteq 1..Len(t)
  BY DEF Places
<1>3. \A i \in 1..n : i \in W <=> i \in A
  BY <1>1 DEF Places
<1>4. \A i \in 1..Len(t) : n + i \in W <=> i \in T
  BY <1>1 DEF Places
<1>5. W \subseteq 1..(n + Len(t))
  BY <1>1 DEF Places
<1>6. IsFiniteSet(A) /\ IsFiniteSet(T)
  BY PlacesFinite
<1> HIDE DEF A, T, W
<1>7. W = A \cup B
  <2>1. ASSUME NEW i \in W PROVE i \in A \cup B
    <3>1. CASE i \in 1..n
      BY <1>3, <3>1
    <3>2. CASE i \notin 1..n
      <4>1. i - n \in 1..Len(t) /\ n + (i - n) = i
        BY <1>1, <1>5, <3>2
      <4>2. i - n \in T
        BY <1>4, <4>1
      <4> QED  BY <4>1, <4>2
    <3> QED  BY <3>1, <3>2
  <2>2. A \subseteq W
    BY <1>2, <1>3
  <2>3. B \subseteq W
    BY <1>2, <1>4
  <2> QED  BY <2>1, <2>2, <2>3
<1>8. A \cap B = {}
  BY <1>1, <1>2
<1>9. IsFiniteSet(B) /\ Cardinality(B) = Cardinality(T)
  <2>1. \A i, j \in T : f[i] = f[j] => i = j
    BY <1>1, <1>2
  <2>2. f \in [T -> B]
    OBVIOUS
  <2>3. \A b \in B : \E i \in T : f[i] = b
    OBVIOUS
  <2>4. f \in Bijection(T, B)
    BY <2>1, <2>2, <2>3 DEF Bijection, Injection, Surjection, IsInjective
  <2>5. ExistsBijection(T, B)
    BY <2>4 DEF ExistsBijection
  <2> QED  BY <2>5, <1>6, FS_Bijection
<1> HIDE DEF B
<1>10. Cardinality(W) = Cardinality(A) + Cardinality(B) - Cardinality(A \cap B)
  BY <1>6, <1>7, <1>9, FS_Union
<1>11. Cardinality(A \cap B) = 0
  BY <1>8, FS_EmptySet
<1>12. Cardinality(A) \in Nat /\ Cardinality(B) \in Nat
  BY <1>6, <1>9, FS_CardinalityType
<1>13. Cardinality(W) = Cardinality(A) + Cardinality(T)
  BY <1>9, <1>10, <1>11, <1>12
<1> QED  BY <1>13 DEF Count, A, T, W

(* A single call is counted where it belongs.                              *)
LEMMA CountOne ==
  ASSUME NEW S, NEW a \in S, NEW these
  PROVE  Count(<<a>>, these) = If(a, these)
<1>1. CASE a \in these
  <2>1. Places(<<a>>, these) = {1}
    BY <1>1 DEF Places
  <2> QED  BY <1>1, <2>1, FS_Singleton DEF Count, If
<1>2. CASE a \notin these
  <2>1. Places(<<a>>, these) = {}
    BY <1>2 DEF Places
  <2> QED  BY <1>2, <2>1, FS_EmptySet DEF Count, If
<1> QED  BY <1>1, <1>2

(* A call pushed on a stack.                                               *)
LEMMA Push ==
  ASSUME NEW S, NEW s \in Seq(S), NEW a \in S
  PROVE  /\ <<a>> \o s \in Seq(S) /\ <<a>> \o s # <<>>
         /\ Head(<<a>> \o s) = a /\ Tail(<<a>> \o s) = s
         /\ Len(<<a>> \o s) = Len(s) + 1 /\ (<<a>> \o s)[1] = a
         /\ \A i \in 1..Len(s) : (<<a>> \o s)[i + 1] = s[i]
         /\ Within(<<a>> \o s) = {a} \cup Within(s)
         /\ \A these : Count(<<a>> \o s, these) = If(a, these) + Count(s, these)
<1> DEFINE w == <<a>> \o s
<1>1. /\ w \in Seq(S) /\ w # <<>> /\ Head(w) = a /\ Len(w) = Len(s) + 1 /\ w[1] = a
      /\ \A i \in 1..Len(s) : w[i + 1] = s[i]
      /\ Len(s) \in Nat
  OBVIOUS
<1>2. Tail(w) = s
  <2>1. Tail(w) \in Seq(S) /\ Len(Tail(w)) = Len(s) /\ \A i \in 1..Len(s) : Tail(w)[i] = s[i]
    BY <1>1
  <2> QED  BY <2>1
<1>3. Within(w) = {a} \cup Within(s)
  <2>1. ASSUME NEW x \in Within(w) PROVE x \in {a} \cup Within(s)
    <3>1. PICK i \in 1..(Len(s) + 1) : w[i] = x
      BY <1>1 DEF Within
    <3>2. CASE i = 1
      BY <1>1, <3>1, <3>2
    <3>3. CASE i # 1
      <4>1. i - 1 \in 1..Len(s) /\ (i - 1) + 1 = i
        BY <1>1, <3>3
      <4>2. s[i - 1] = x
        BY <1>1, <3>1, <4>1
      <4> QED  BY <4>1, <4>2 DEF Within
    <3> QED  BY <3>2, <3>3
  <2>2. ASSUME NEW x \in Within(s) PROVE x \in Within(w)
    <3>1. PICK i \in 1..Len(s) : s[i] = x
      BY DEF Within
    <3>2. i + 1 \in DOMAIN w /\ w[i + 1] = x
      BY <1>1, <3>1
    <3> QED  BY <3>2 DEF Within
  <2>3. a \in Within(w)
    <3>1. 1 \in DOMAIN w
      BY <1>1
    <3> QED  BY <1>1, <3>1 DEF Within
  <2> QED  BY <2>1, <2>2, <2>3
<1>4. \A these : Count(w, these) = If(a, these) + Count(s, these)
  <2> SUFFICES ASSUME NEW these PROVE Count(w, these) = If(a, these) + Count(s, these)
    OBVIOUS
  <2> DEFINE u == <<a>>
  <2>1. u \in Seq(S) /\ w = u \o s
    OBVIOUS
  <2>2. Count(u, these) = If(a, these)
    BY CountOne
  <2> HIDE DEF u, w
  <2>3. Count(u \o s, these) = Count(u, these) + Count(s, these)
    BY <2>1, CountJoin
  <2> QED  BY <2>1, <2>2, <2>3
<1> QED  BY <1>1, <1>2, <1>3, <1>4

(* A stack is its top call and the ones below.                             *)
LEMMA Split ==
  ASSUME NEW S, NEW s \in Seq(S), s # <<>>
  PROVE  /\ Head(s) \in S /\ Tail(s) \in Seq(S) /\ s = <<Head(s)>> \o Tail(s)
         /\ Head(s) = s[1] /\ Len(s) = Len(Tail(s)) + 1
         /\ \A i \in 1..Len(Tail(s)) : Tail(s)[i] = s[i + 1]
         /\ Within(s) = {Head(s)} \cup Within(Tail(s))
         /\ \A these : Count(s, these) = If(Head(s), these) + Count(Tail(s), these)
<1>1. /\ Head(s) \in S /\ Tail(s) \in Seq(S) /\ Head(s) = s[1] /\ Len(s) = Len(Tail(s)) + 1
      /\ \A i \in 1..Len(Tail(s)) : Tail(s)[i] = s[i + 1]
      /\ Len(s) \in Nat /\ Len(s) >= 1
  OBVIOUS
<1>2. s = <<Head(s)>> \o Tail(s)
  BY <1>1
<1> DEFINE a == Head(s)
           t == Tail(s)
<1>3. a \in S /\ t \in Seq(S) /\ s = <<a>> \o t
  BY <1>1, <1>2
<1> HIDE DEF a, t
<1>4. /\ Within(<<a>> \o t) = {a} \cup Within(t)
      /\ \A these : Count(<<a>> \o t, these) = If(a, these) + Count(t, these)
  BY <1>3, Push
<1>5. /\ Within(s) = {a} \cup Within(t)
      /\ \A these : Count(s, these) = If(a, these) + Count(t, these)
  BY <1>3, <1>4
<1> QED  BY <1>1, <1>2, <1>5 DEF a, t

(* What is in two joined lists is what is in either.                       *)
LEMMA JoinFacts ==
  ASSUME NEW S, NEW s \in Seq(S), NEW t \in Seq(S)
  PROVE  s \o t \in Seq(S) /\ Within(s \o t) = Within(s) \cup Within(t)
<1>1. /\ s \o t \in Seq(S) /\ Len(s \o t) = Len(s) + Len(t) /\ Len(s) \in Nat /\ Len(t) \in Nat
      /\ \A i \in 1..Len(s) : (s \o t)[i] = s[i]
      /\ \A i \in 1..Len(t) : (s \o t)[Len(s) + i] = t[i]
  OBVIOUS
<1>2. ASSUME NEW x \in Within(s \o t) PROVE x \in Within(s) \cup Within(t)
  <2>1. PICK i \in 1..(Len(s) + Len(t)) : (s \o t)[i] = x
    BY <1>1 DEF Within
  <2>2. CASE i <= Len(s)
    BY <1>1, <2>1, <2>2 DEF Within
  <2>3. CASE ~(i <= Len(s))
    <3>1. i - Len(s) \in 1..Len(t) /\ Len(s) + (i - Len(s)) = i
      BY <1>1, <2>3
    <3>2. t[i - Len(s)] = x
      BY <1>1, <2>1, <3>1
    <3> QED  BY <3>1, <3>2 DEF Within
  <2> QED  BY <2>2, <2>3
<1>3. ASSUME NEW x \in Within(s) PROVE x \in Within(s \o t)
  <2>1. PICK i \in 1..Len(s) : s[i] = x
    BY DEF Within
  <2>2. i \in DOMAIN (s \o t) /\ (s \o t)[i] = x
    BY <1>1, <2>1
  <2> QED  BY <2>2 DEF Within
<1>4. ASSUME NEW x \in Within(t) PROVE x \in Within(s \o t)
  <2>1. PICK i \in 1..Len(t) : t[i] = x
    BY DEF Within
  <2>2. Len(s) + i \in DOMAIN (s \o t) /\ (s \o t)[Len(s) + i] = x
    BY <1>1, <2>1
  <2> QED  BY <2>2 DEF Within
<1> QED  BY <1>1, <1>2, <1>3, <1>4

(* What is appended is in the list, and counted.                           *)
LEMMA AppendFacts ==
  ASSUME NEW S, NEW s \in Seq(S), NEW a \in S
  PROVE  /\ Append(s, a) \in Seq(S) /\ Append(s, a) # <<>>
         /\ Within(Append(s, a)) = Within(s) \cup {a}
         /\ \A these : Count(Append(s, a), these) = Count(s, these) + If(a, these)
<1>1. Append(s, a) = s \o <<a>> /\ <<a>> \in Seq(S) /\ Append(s, a) # <<>>
  OBVIOUS
<1>2. Within(<<a>>) = {a}
  BY DEF Within
<1>3. \A these : Count(<<a>>, these) = If(a, these)
  BY CountOne
<1> DEFINE u == <<a>>
<1> HIDE DEF u
<1>4. u \in Seq(S) /\ Append(s, a) = s \o u /\ Within(u) = {a}
      /\ \A these : Count(u, these) = If(a, these)
  BY <1>1, <1>2, <1>3 DEF u
<1>5. s \o u \in Seq(S) /\ Within(s \o u) = Within(s) \cup Within(u)
  BY <1>4, JoinFacts
<1>6. \A these : Count(s \o u, these) = Count(s, these) + Count(u, these)
  BY <1>4, CountJoin
<1> QED  BY <1>1, <1>4, <1>5, <1>6

(* What is there is counted, and what is counted is there.                 *)
LEMMA WithinCount ==
  ASSUME NEW S, NEW s \in Seq(S), NEW these
  PROVE  /\ Count(s, these) \in Nat
         /\ \A x \in these : x \in Within(s) => Count(s, these) >= 1
         /\ Count(s, these) # 0 => \E x \in these : x \in Within(s)
<1>1. Count(s, these) = 0 <=> \A i \in 1..Len(s) : s[i] \notin these
  BY PlacesFinite
<1>2. Count(s, these) \in Nat
  BY PlacesFinite
<1>3. ASSUME NEW x \in these, x \in Within(s) PROVE Count(s, these) >= 1
  <2>1. \E i \in 1..Len(s) : s[i] = x
    BY <1>3 DEF Within
  <2> QED  BY <1>1, <1>2, <2>1
<1>4. ASSUME Count(s, these) # 0 PROVE \E x \in these : x \in Within(s)
  <2>1. PICK i \in 1..Len(s) : s[i] \in these
    BY <1>1, <1>4
  <2>2. s[i] \in Within(s)
    BY DEF Within
  <2> QED  BY <2>1, <2>2
<1> QED  BY <1>2, <1>3, <1>4

(* Two calls pushed at once are pushed one after the other.                *)
LEMMA Pair ==
  ASSUME NEW S, NEW x \in S, NEW y \in S, NEW s \in Seq(S)
  PROVE  <<x, y>> \o s = <<x>> \o (<<y>> \o s)
<1> DEFINE l == <<x, y>> \o s
           u == <<y>> \o s
           r == <<x>> \o u
<1>1. /\ l \in Seq(S) /\ Len(l) = Len(s) + 2 /\ l[1] = x /\ l[2] = y
      /\ \A i \in 1..Len(s) : l[i + 2] = s[i]
  OBVIOUS
<1>2. /\ u \in Seq(S) /\ Len(u) = Len(s) + 1 /\ u[1] = y /\ \A i \in 1..Len(s) : u[i + 1] = s[i]
  BY Push
<1>3. Len(s) \in Nat
  OBVIOUS
<1>4. /\ r \in Seq(S) /\ Len(r) = Len(u) + 1 /\ r[1] = x /\ \A i \in 1..Len(u) : r[i + 1] = u[i]
  <2> HIDE DEF u
  <2> QED  BY <1>2
<1> HIDE DEF l, r, u
<1>5. Len(l) = Len(s) + 2 /\ Len(r) = Len(s) + 2
  BY <1>1, <1>2, <1>3, <1>4
<1>6. ASSUME NEW i \in 1..(Len(s) + 2) PROVE l[i] = r[i]
  <2>1. CASE i = 1
    BY <1>1, <1>4, <2>1
  <2>2. CASE i = 2
    <3>1. 1 \in 1..Len(u)
      BY <1>2, <1>3
    <3>2. r[1 + 1] = u[1]
      BY <1>4, <3>1
    <3> QED  BY <1>1, <1>2, <2>2, <3>2
  <2>3. CASE i # 1 /\ i # 2
    <3>1. i - 2 \in 1..Len(s) /\ (i - 2) + 2 = i /\ i - 1 \in 1..Len(u) /\ (i - 1) + 1 = i /\ (i - 2) + 1 = i - 1
      BY <1>2, <1>3, <2>3
    <3>2. l[i] = s[i - 2]
      BY <1>1, <3>1
    <3>3. u[i - 1] = s[i - 2]
      BY <1>2, <3>1
    <3>4. r[i] = u[i - 1]
      BY <1>4, <3>1
    <3> QED  BY <3>2, <3>3, <3>4
  <2> QED  BY <2>1, <2>2, <2>3
<1>7. l = r
  BY <1>1, <1>3, <1>4, <1>5, <1>6
<1> QED  BY <1>7 DEF l, r, u

(* Where the calls of two joined stacks are.                               *)
LEMMA Joined ==
  ASSUME NEW S, NEW s \in Seq(S), NEW t \in Seq(S)
  PROVE  /\ s \o t \in Seq(S) /\ Len(s \o t) = Len(s) + Len(t)
         /\ \A i \in 1..Len(s) : (s \o t)[i] = s[i]
         /\ \A i \in 1..Len(t) : (s \o t)[Len(s) + i] = t[i]
OBVIOUS

(* Joining is associative.                                                 *)
LEMMA Assoc ==
  ASSUME NEW S, NEW a \in Seq(S), NEW b \in Seq(S), NEW c \in Seq(S)
  PROVE  (a \o b) \o c = a \o (b \o c)
<1> DEFINE l == (a \o b) \o c
           r == a \o (b \o c)
           d == a \o b
           e == b \o c
           n == Len(a)
           m == Len(b)
           k == Len(c)
<1>1. n \in Nat /\ m \in Nat /\ k \in Nat
  OBVIOUS
<1>2. /\ d \in Seq(S) /\ Len(d) = n + m /\ (\A i \in 1..n : d[i] = a[i])
      /\ \A i \in 1..m : d[n + i] = b[i]
  OBVIOUS
<1>3. /\ e \in Seq(S) /\ Len(e) = m + k /\ (\A i \in 1..m : e[i] = b[i])
      /\ \A i \in 1..k : e[m + i] = c[i]
  OBVIOUS
<1>4. l = d \o c /\ r = a \o e
  OBVIOUS
<1> HIDE DEF d, e, l, r
<1>5. /\ l \in Seq(S) /\ Len(l) = Len(d) + k /\ (\A i \in 1..Len(d) : l[i] = d[i])
      /\ \A i \in 1..k : l[Len(d) + i] = c[i]
  <2>1. /\ d \o c \in Seq(S) /\ Len(d \o c) = Len(d) + Len(c) /\ (\A i \in 1..Len(d) : (d \o c)[i] = d[i])
        /\ \A i \in 1..Len(c) : (d \o c)[Len(d) + i] = c[i]
    <3>1. d \in Seq(S)
      BY <1>2
    <3> QED  BY <3>1, Joined
  <2> QED  BY <1>4, <2>1
<1>6. /\ r \in Seq(S) /\ Len(r) = n + Len(e) /\ (\A i \in 1..n : r[i] = a[i])
      /\ \A i \in 1..Len(e) : r[n + i] = e[i]
  <2>1. /\ a \o e \in Seq(S) /\ Len(a \o e) = Len(a) + Len(e) /\ (\A i \in 1..Len(a) : (a \o e)[i] = a[i])
        /\ \A i \in 1..Len(e) : (a \o e)[Len(a) + i] = e[i]
    <3>1. e \in Seq(S)
      BY <1>3
    <3> QED  BY <3>1, Joined
  <2> QED  BY <1>4, <2>1
<1> HIDE DEF n, m, k
<1>7. ASSUME NEW i \in 1..(n + m + k) PROVE l[i] = r[i]
  <2>1. CASE i <= n
    <3>1. i \in 1..n /\ i \in 1..Len(d)
      BY <1>1, <1>2, <2>1
    <3> QED  BY <1>2, <1>5, <1>6, <3>1
  <2>2. CASE i > n /\ i <= n + m
    <3>1. i \in 1..Len(d) /\ i - n \in 1..m /\ n + (i - n) = i /\ i - n \in 1..Len(e)
      BY <1>1, <1>2, <1>3, <2>2
    <3>2. l[i] = d[i] /\ d[i] = b[i - n]
      BY <1>2, <1>5, <3>1
    <3>3. r[i] = e[i - n] /\ e[i - n] = b[i - n]
      BY <1>3, <1>6, <3>1
    <3> QED  BY <3>2, <3>3
  <2>3. CASE i > n + m
    <3>1. /\ i - (n + m) \in 1..k /\ Len(d) + (i - (n + m)) = i
          /\ i - n \in 1..Len(e) /\ n + (i - n) = i /\ m + (i - (n + m)) = i - n
      BY <1>1, <1>2, <1>3, <2>3
    <3>2. l[i] = c[i - (n + m)]
      BY <1>5, <3>1
    <3>3. r[i] = e[i - n] /\ e[i - n] = c[i - (n + m)]
      BY <1>3, <1>6, <3>1
    <3> QED  BY <3>2, <3>3
  <2> QED  BY <1>1, <2>1, <2>2, <2>3
<1>8. Len(l) = n + m + k /\ Len(r) = n + m + k
  BY <1>1, <1>2, <1>3, <1>5, <1>6
<1>9. l = r
  BY <1>1, <1>5, <1>6, <1>7, <1>8
<1> QED  BY <1>9 DEF l, r

(* The same of a pair with a name.                                         *)
LEMMA PairNamed ==
  ASSUME NEW S, NEW x \in S, NEW y \in S, NEW s \in Seq(S), NEW p, p = <<x, y>>
  PROVE  p \o s = <<x>> \o (<<y>> \o s)
BY Pair

(* The same of joined lists with names.                                    *)
LEMMA AssocNamed ==
  ASSUME NEW S, NEW a \in Seq(S), NEW b \in Seq(S), NEW c \in Seq(S), NEW d, d = a \o b, NEW e, e = b \o c
  PROVE  d \o c = a \o e
BY SMTT(30), Assoc

(* The earliest of some entries.                                           *)
LEMMA Least ==
  ASSUME NEW S \in SUBSET Nat, S # {}
  PROVE  \E d \in S : \A e \in S : d <= e
<1>1. OpToRel(<, Nat) = {ss \in Nat \X Nat : ss[1] < ss[2]}
  BY DEF OpToRel
<1>2. PICK d \in S : \A e \in S : <<e, d>> \notin OpToRel(<, Nat)
  BY NatLessThanWellFounded, WFMin
<1>3. ASSUME NEW e \in S PROVE d <= e
  <2>1. <<e, d>> \in Nat \X Nat /\ ~(e < d)
    BY <1>1, <1>2
  <2> QED BY <2>1
<1> QED BY <1>2, <1>3
(*ENDSKIP*)


-----------------------------------------------------------------------------
(* What the tables hold.                                                   *)

Conts == {"reset", "frames", "nothing"}
Bares == {"reset", "nothing", "askPage", "none"}
CardCalls == {"loading", "dispose", "owing", "frames", "arrive", "records"}
CallKinds == {"source", "start", "close"} \cup Bares \cup CardCalls

(* What may be on the stack, among the jobs, and kept for a reset.         *)
Items == ({"source"} \X Realms \X Srcs) \cup ({"start"} \X Realms \X Nat)
    \cup ({"close"} \X Realms \X {"reset", "nothing"}) \cup ({"close"} \X Cards \X {"frames"})
    \cup (Bares \X Realms \X {0}) \cup (CardCalls \X Cards \X {0})
JobItems == ({"start"} \X Realms \X Nat) \cup ({"boot", "flush", "closeRealm"} \X Cards \X {0})
AfterItems == ({"start"} \X Realms \X Nat) \cup ({"frames"} \X Cards \X {0})

(* What the tables hold: frames, cards, calls, jobs, loads and records.    *)
FrameRec == [gen : Nat, src : Srcs \cup {NoSrc}, loaded : BOOLEAN, realm : Realms,
             dispose : Realms, owed : Int, after : Seq(AfterItems), attached : BOOLEAN,
             late : BOOLEAN]
Stages == {"unmade", "made", "booting", "booted", "refused", "freed"}
Dones  == Conts \cup {"none"}
Threads == {"none", "live", "asked", "ended"}
Sights == {"no", "in", "out"}
Waiting == {"no", "next", "due"}
CardRec == [host : Realms, gen : Nat, st : Stages, root : BOOLEAN, disposed : BOOLEAN,
            pending : Int, frames : Int, done : Dones, bts : Threads, retired : BOOLEAN,
            shown : BOOLEAN, seen : Sights, wait : Waiting, cut : BOOLEAN]

Kinds ==
  /\ frame \in [Realms -> FrameRec] /\ card \in [Cards -> CardRec]
  /\ stack \in Seq(Items) /\ jobs \subseteq JobItems
  /\ asked \subseteq Realms \X Nat /\ flying \subseteq Realms \X Nat
  /\ changes \subseteq Cards \X BOOLEAN /\ taken \subseteq Cards \X BOOLEAN
  /\ events \in Seq(Realms \X BOOLEAN) /\ batch \in Seq(Realms \X BOOLEAN)
  /\ entry \in {"idle", "turn", "events", "heard", "listen", "ended"}

(* A card that is not made takes part in nothing, and a frame disposes of  *)
(* a card made for it.                                                     *)
Made ==
  /\ \A c \in Cards : /\ card[c].st = "unmade" => card[c].done = "none" /\ card[c].host = Page
                      /\ <<"boot", c, 0>> \in jobs => card[c].st # "unmade"
                      /\ card[c].done = "frames" => card[c].host \in Cards
  /\ \A r \in Realms : \A c \in Cards :
        frame[r].dispose = c => card[c].st # "unmade" /\ card[c].host = r
  /\ entry = "heard" => batch # <<>>
Typed == Kinds /\ Made /\ FramesAssumption

(* The parts of a call, by its kind.                                       *)
LEMMA ItemFacts ==
  ASSUME NEW x \in Items
  PROVE  /\ x = <<x[1], x[2], x[3]>> /\ x[2] \in Realms /\ x[1] \in CallKinds
         /\ x[1] = "source" => x[3] \in Srcs
         /\ x[1] = "start" => x[3] \in Nat
         /\ x[1] = "close" => x[3] \in Conts /\ (x[3] = "frames" => x[2] \in Cards)
         /\ x[1] \in Bares \cup CardCalls => x[3] = 0
         /\ x[1] \in CardCalls => x[2] \in Cards
<1> USE DEF Items, Bares, CardCalls, Conts, Realms, Cards, CallKinds
<1>1. CASE x \in {"source"} \X Realms \X Srcs
  BY <1>1
<1>2. CASE x \in {"start"} \X Realms \X Nat
  BY <1>2
<1>3. CASE x \in {"close"} \X Realms \X {"reset", "nothing"}
  BY <1>3
<1>4. CASE x \in {"close"} \X Cards \X {"frames"}
  BY <1>4
<1>5. CASE x \in Bares \X Realms \X {0}
  BY <1>5
<1>6. CASE x \in CardCalls \X Cards \X {0}
  BY <1>6
<1> QED  BY <1>1, <1>2, <1>3, <1>4, <1>5, <1>6

(* The call on top, and a call taken in its place.                         *)
At(k, r, a) == stack # <<>> /\ Top = <<k, r, a>>
Pushed(a, t) == /\ stack' # <<>> /\ Top' = a /\ Pop' = t /\ Within(stack') = {a} \cup Within(t)
                /\ \A these : Count(stack', these) = If(a, these) + Count(t, these)

(* The call on top, and those below it.                                    *)
LEMMA TopFacts ==
  ASSUME Typed, stack # <<>>
  PROVE  /\ Top \in Items /\ Pop \in Seq(Items)
         /\ Top = <<Top[1], Top[2], Top[3]>> /\ Top[2] \in Realms
         /\ Top[1] = "source" => Top[3] \in Srcs
         /\ Top[1] = "start" => Top[3] \in Nat
         /\ Top[1] = "close" => Top[3] \in Conts /\ (Top[3] = "frames" => Top[2] \in Cards)
         /\ Top[1] \in Bares \cup CardCalls => Top[3] = 0
         /\ Top[1] \in CardCalls => Top[2] \in Cards
         /\ Within(stack) = {Top} \cup Within(Pop)
         /\ \A these : Count(stack, these) = If(Top, these) + Count(Pop, these)
<1>1. /\ Top \in Items /\ Pop \in Seq(Items) /\ Within(stack) = {Top} \cup Within(Pop)
      /\ \A these : Count(stack, these) = If(Top, these) + Count(Pop, these)
  BY Split DEF Typed, Kinds, Top, Pop
<1> QED  BY <1>1, ItemFacts

(* What a call pushed changes of the stack.                                *)
LEMMA PushFacts ==
  ASSUME NEW a \in Items, NEW t \in Seq(Items), stack' = <<a>> \o t
  PROVE  stack' \in Seq(Items) /\ Pushed(a, t)
BY Push DEF Pushed, Top, Pop

(* An empty stack.                                                         *)
LEMMA NoCall == /\ Within(<<>>) = {} /\ \A these : Count(<<>>, these) = 0
                /\ <<>> \in Seq(Items)
BY CountNone DEF Within

(* What is on the stack are calls.                                         *)
LEMMA WithinItems == ASSUME Typed PROVE Within(stack) \subseteq Items
BY DEF Typed, Kinds, Within

(* The calls a realm and a card may have.                                  *)
LEMMA AnItem ==
  /\ \A r \in Realms : \A s \in Srcs : <<"source", r, s>> \in Items
  /\ \A r \in Realms : \A g \in Nat : <<"start", r, g>> \in Items
  /\ \A r \in Realms : \A d \in {"reset", "nothing"} : <<"close", r, d>> \in Items
  /\ \A c \in Cards : <<"close", c, "frames">> \in Items
  /\ \A r \in Realms : \A k \in Bares : <<k, r, 0>> \in Items
  /\ \A c \in Cards : \A k \in CardCalls : <<k, c, 0>> \in Items
  /\ Page \in Realms /\ Cards \subseteq Realms /\ Page \notin Cards
  /\ \A r \in Realms : r \in Cards <=> r # 0
<1>1. Page \in Realms /\ Cards \subseteq Realms /\ Page \notin Cards /\ \A r \in Realms : r \in Cards <=> r # 0
  BY DEF Page, Realms, Cards
<1>2. /\ \A r \in Realms : \A s \in Srcs : <<"source", r, s>> \in Items
      /\ \A r \in Realms : \A g \in Nat : <<"start", r, g>> \in Items
      /\ \A r \in Realms : \A d \in {"reset", "nothing"} : <<"close", r, d>> \in Items
  BY DEF Items
<1>3. \A c \in Cards : <<"close", c, "frames">> \in Items
  BY DEF Items
<1>4. \A r \in Realms : \A k \in Bares : <<k, r, 0>> \in Items
  BY DEF Items
<1>5. \A c \in Cards : \A k \in CardCalls : <<k, c, 0>> \in Items
  BY DEF Items
<1> QED  BY <1>1, <1>2, <1>3, <1>4, <1>5

(* What waits for a reset may be called.                                   *)
LEMMA AfterIsItems == Seq(AfterItems) \subseteq Seq(Items) /\ <<>> \in Seq(AfterItems)
<1>1. AfterItems \subseteq Items
  BY SMTT(30) DEF AfterItems, Items, CardCalls
<1> QED  BY <1>1

(* A record with new values is a record.                                   *)
LEMMA FramePut ==
  /\ \A x \in FrameRec : \A i \in Int : [x EXCEPT !.owed = i] \in FrameRec
  /\ \A x \in FrameRec : \A n \in Nat, s \in Srcs, a, b \in BOOLEAN :
        [x EXCEPT !.gen = n, !.loaded = a, !.src = s, !.late = b] \in FrameRec
  /\ \A x \in FrameRec : \A l \in Seq(AfterItems) : [x EXCEPT !.after = l] \in FrameRec
  /\ \A x \in FrameRec : \A r \in Realms : [x EXCEPT !.realm = r] \in FrameRec
  /\ \A x \in FrameRec : \A r \in Realms : [x EXCEPT !.dispose = r] \in FrameRec
  /\ \A x \in FrameRec : \A a \in BOOLEAN : [x EXCEPT !.attached = a] \in FrameRec
  /\ \A x \in FrameRec : \A n \in Nat, a \in BOOLEAN, r, q \in Realms :
        [x EXCEPT !.gen = n, !.loaded = a, !.dispose = r, !.realm = q] \in FrameRec
  /\ \A x \in FrameRec : \A i \in Int, l \in Seq(AfterItems) :
        [x EXCEPT !.owed = i, !.after = l] \in FrameRec
<1>1. \A x \in FrameRec : \A i \in Int : [x EXCEPT !.owed = i] \in FrameRec
  BY DEF FrameRec
<1>2. \A x \in FrameRec : \A n \in Nat, s \in Srcs, a, b \in BOOLEAN :
        [x EXCEPT !.gen = n, !.loaded = a, !.src = s, !.late = b] \in FrameRec
  BY ZenonT(60) DEF FrameRec
<1>3. \A x \in FrameRec : \A l \in Seq(AfterItems) : [x EXCEPT !.after = l] \in FrameRec
  BY DEF FrameRec
<1>4. \A x \in FrameRec : \A r \in Realms : [x EXCEPT !.realm = r] \in FrameRec
  BY DEF FrameRec
<1>5. \A x \in FrameRec : \A r \in Realms : [x EXCEPT !.dispose = r] \in FrameRec
  BY DEF FrameRec
<1>6. \A x \in FrameRec : \A a \in BOOLEAN : [x EXCEPT !.attached = a] \in FrameRec
  BY DEF FrameRec
<1>7. \A x \in FrameRec : \A n \in Nat, a \in BOOLEAN, r, q \in Realms :
        [x EXCEPT !.gen = n, !.loaded = a, !.dispose = r, !.realm = q] \in FrameRec
  BY ZenonT(60) DEF FrameRec
<1>8. \A x \in FrameRec : \A i \in Int, l \in Seq(AfterItems) :
        [x EXCEPT !.owed = i, !.after = l] \in FrameRec
  BY DEF FrameRec
<1> QED BY <1>1, <1>2, <1>3, <1>4, <1>5, <1>6, <1>7, <1>8

(* A card's record with new values is one.                                 *)
LEMMA CardPut ==
  ASSUME NEW x \in CardRec
  PROVE  /\ \A z \in Stages, r \in Realms, n \in Nat : [x EXCEPT !.st = z, !.host = r, !.gen = n] \in CardRec
         /\ \A z \in Stages, a \in BOOLEAN : [x EXCEPT !.st = z, !.root = a] \in CardRec
         /\ \A z \in Stages, t \in Threads : [x EXCEPT !.st = z, !.bts = t] \in CardRec
         /\ \A z \in Stages : [x EXCEPT !.st = z] \in CardRec
         /\ \A e \in Dones : [x EXCEPT !.done = e] \in CardRec
         /\ \A a, b \in BOOLEAN : [x EXCEPT !.root = a, !.shown = b] \in CardRec
         /\ \A a, b, d \in BOOLEAN, i, j \in Int :
               [x EXCEPT !.disposed = a, !.shown = b, !.pending = i, !.frames = j, !.cut = d] \in CardRec
         /\ \A i \in Int : [x EXCEPT !.frames = i] \in CardRec
         /\ \A w \in Waiting : [x EXCEPT !.wait = w] \in CardRec
         /\ \A i \in Int, t \in Threads : [x EXCEPT !.pending = i, !.bts = t] \in CardRec
         /\ \A t \in Threads : [x EXCEPT !.bts = t] \in CardRec
         /\ \A a \in BOOLEAN : [x EXCEPT !.retired = a] \in CardRec
         /\ \A v \in Sights, a \in BOOLEAN : [x EXCEPT !.seen = v, !.shown = a] \in CardRec
         /\ \A v \in Sights : [x EXCEPT !.seen = v] \in CardRec
<1>1. \A z \in Stages, r \in Realms, n \in Nat : [x EXCEPT !.st = z, !.host = r, !.gen = n] \in CardRec
  BY DEF CardRec
<1>2. \A z \in Stages, a \in BOOLEAN : [x EXCEPT !.st = z, !.root = a] \in CardRec
  BY DEF CardRec
<1>3. \A z \in Stages, t \in Threads : [x EXCEPT !.st = z, !.bts = t] \in CardRec
  BY DEF CardRec
<1>4. \A z \in Stages : [x EXCEPT !.st = z] \in CardRec
  BY DEF CardRec
<1>5. \A e \in Dones : [x EXCEPT !.done = e] \in CardRec
  BY DEF CardRec
<1>6. \A a, b \in BOOLEAN : [x EXCEPT !.root = a, !.shown = b] \in CardRec
  BY DEF CardRec
<1>7. \A a, b, d \in BOOLEAN, i, j \in Int :
        [x EXCEPT !.disposed = a, !.shown = b, !.pending = i, !.frames = j, !.cut = d] \in CardRec
  BY ZenonT(60) DEF CardRec
<1>8. \A i \in Int : [x EXCEPT !.frames = i] \in CardRec
  BY DEF CardRec
<1>9. \A w \in Waiting : [x EXCEPT !.wait = w] \in CardRec
  BY DEF CardRec
<1>10. \A i \in Int, t \in Threads : [x EXCEPT !.pending = i, !.bts = t] \in CardRec
  BY DEF CardRec
<1>11. \A t \in Threads : [x EXCEPT !.bts = t] \in CardRec
  BY DEF CardRec
<1>12. \A a \in BOOLEAN : [x EXCEPT !.retired = a] \in CardRec
  BY DEF CardRec
<1>13. \A v \in Sights, a \in BOOLEAN : [x EXCEPT !.seen = v, !.shown = a] \in CardRec
  BY DEF CardRec
<1>14. \A v \in Sights : [x EXCEPT !.seen = v] \in CardRec
  BY DEF CardRec
<1> QED BY <1>1, <1>2, <1>3, <1>4, <1>5, <1>6, <1>7, <1>8, <1>9, <1>10, <1>11, <1>12, <1>13, <1>14


-----------------------------------------------------------------------------
(* What each step does, a field at a time. A step that is a call is named  *)
(* for it, and the lemma after it says its action does that and no more.   *)

Others(r) == \A q \in Realms : q # r => frame'[q] = frame[q]
OtherCards(c) == \A k \in Cards : k # c => card'[k] = card[k]
SameLinks == UNCHANGED <<asked, flying, entry, events, batch, changes, taken>>

(* What each call does, a field at a time.                                 *)
SourceStep(r, s) ==
  /\ At("source", r, s)
  /\ stack' = Pop /\ UNCHANGED <<card, flying, entry, events, batch, changes, taken>>
  /\ Others(r) /\ frame'[r].gen = frame[r].gen + 1 /\ frame'[r].loaded /\ frame'[r].src = s
  /\ frame'[r].late = (frame[r].late \/ LetGo(r))
  /\ UNCHANGED <<frame[r].realm, frame[r].dispose, frame[r].owed, frame[r].after>>
  /\ \/ jobs' = jobs \cup {<<"start", r, frame[r].gen + 1>>} /\ UNCHANGED asked
     \/ asked' = asked \cup {<<r, frame[r].gen + 1>>} /\ UNCHANGED jobs

LEMMA SourceDoes ==
  ASSUME Typed, NEW r \in Realms, NEW s \in Srcs, At("source", r, s), Source
  PROVE  Kinds' /\ SourceStep(r, s)
<1>1. LoadFrom(r, s) /\ Pop \in Seq(Items)
  BY TopFacts DEF Source, At
<1>2. /\ frame[r].gen + 1 \in Nat /\ (frame[r].late \/ LetGo(r)) \in BOOLEAN /\ frame[r] \in FrameRec
      /\ frame \in [Realms -> FrameRec]
  BY DEF Typed, Kinds, FrameRec
<1> DEFINE y == [frame[r] EXCEPT !.gen = frame[r].gen + 1, !.loaded = TRUE, !.src = s,
                                 !.late = frame[r].late \/ LetGo(r)]
<1>3. y \in FrameRec
  BY <1>2, FramePut
<1>4. frame' = [frame EXCEPT ![r] = y]
  BY <1>1, <1>2 DEF LoadFrom
<1>5. /\ y.gen = frame[r].gen + 1 /\ y.loaded /\ y.src = s /\ y.late = (frame[r].late \/ LetGo(r))
      /\ y.realm = frame[r].realm /\ y.dispose = frame[r].dispose /\ y.owed = frame[r].owed
      /\ y.after = frame[r].after
  BY <1>2 DEF FrameRec
<1> HIDE DEF y
<1>6. /\ Others(r) /\ frame'[r] = y /\ frame' \in [Realms -> FrameRec]
  BY <1>2, <1>3, <1>4 DEF Others
<1>7. /\ stack' = Pop /\ UNCHANGED <<card, flying, entry, events, batch, changes, taken>>
      /\ \/ jobs' = jobs \cup {<<"start", r, frame[r].gen + 1>>} /\ UNCHANGED asked
         \/ asked' = asked \cup {<<r, frame[r].gen + 1>>} /\ UNCHANGED jobs
  BY <1>1 DEF LoadFrom
<1>8. jobs' \subseteq JobItems /\ asked' \subseteq Realms \X Nat
  BY <1>2, <1>7 DEF Typed, Kinds, JobItems
<1>9. Kinds'
  BY <1>1, <1>6, <1>7, <1>8 DEF Typed, Kinds
<1> QED  BY <1>5, <1>6, <1>7, <1>9 DEF SourceStep

(* start of frame.ts: stale, put off until the reset, or a card is made.   *)
StartStep(r, g) ==
  /\ At("start", r, g)
  /\ stack' = Pop /\ SameLinks
  /\ \/ UNCHANGED <<frame, card, jobs>>
     \/ /\ g = frame[r].gen /\ frame[r].owed > 0 /\ UNCHANGED <<card, jobs>> /\ Others(r)
        /\ frame'[r].after = Append(frame[r].after, <<"start", r, g>>)
        /\ UNCHANGED <<frame[r].gen, frame[r].src, frame[r].loaded, frame[r].realm,
                       frame[r].dispose, frame[r].owed, frame[r].late>>
     \/ /\ g = frame[r].gen /\ ~(frame[r].owed > 0)
        /\ \E c \in Cards :
             /\ card[c].st = "unmade" /\ jobs' = jobs \cup {<<"boot", c, 0>>}
             /\ OtherCards(c) /\ card'[c].st = "made" /\ card'[c].host = r /\ card'[c].gen = g
             /\ UNCHANGED <<card[c].root, card[c].disposed, card[c].pending, card[c].frames,
                            card[c].done, card[c].bts, card[c].retired, card[c].shown,
                            card[c].seen, card[c].wait, card[c].cut>>
             /\ Others(r) /\ frame'[r].realm = c
             /\ UNCHANGED <<frame[r].gen, frame[r].src, frame[r].loaded, frame[r].after,
                            frame[r].dispose, frame[r].owed, frame[r].late>>

LEMMA StartDoes ==
  ASSUME Typed, NEW r \in Realms, NEW g \in Nat, At("start", r, g), Start
  PROVE  Kinds' /\ StartStep(r, g)
<1>1. /\ Top[2] = r /\ Top[3] = g /\ Pop \in Seq(Items)
  BY TopFacts DEF At
<1>2. /\ stack' = Pop /\ SameLinks
  BY DEF Start, SameLinks
<1>3. /\ frame \in [Realms -> FrameRec] /\ card \in [Cards -> CardRec] /\ jobs \subseteq JobItems
      /\ frame[r] \in FrameRec
  BY DEF Typed, Kinds
<1> DEFINE fresh == {c \in Cards : card[c].st = "unmade"}
<1>4. CASE g # frame[r].gen \/ (~Owes(r) /\ fresh = {})
  <2>1. UNCHANGED <<frame, card, jobs>>
    BY <1>1, <1>4 DEF Start
  <2> QED  BY <1>1, <1>2, <2>1 DEF Typed, Kinds, SameLinks, StartStep
<1>5. CASE g = frame[r].gen /\ Owes(r)
  <2> DEFINE y == [frame[r] EXCEPT !.after = Append(frame[r].after, <<"start", r, g>>)]
  <2>1. UNCHANGED <<card, jobs>> /\ frame' = [frame EXCEPT ![r] = y]
    BY <1>1, <1>3, <1>5 DEF Start
  <2>2. frame[r].after \in Seq(AfterItems) /\ <<"start", r, g>> \in AfterItems
    BY <1>3 DEF FrameRec, AfterItems
  <2>3. Append(frame[r].after, <<"start", r, g>>) \in Seq(AfterItems)
    BY <2>2, AppendFacts
  <2>4. y \in FrameRec
    BY <1>3, <2>3, FramePut
  <2>5. /\ y.after = Append(frame[r].after, <<"start", r, g>>) /\ y.gen = frame[r].gen
        /\ y.src = frame[r].src /\ y.loaded = frame[r].loaded /\ y.realm = frame[r].realm
        /\ y.dispose = frame[r].dispose /\ y.owed = frame[r].owed /\ y.late = frame[r].late
    BY <1>3 DEF FrameRec
  <2> HIDE DEF y
  <2>6. Others(r) /\ frame'[r] = y /\ frame' \in [Realms -> FrameRec]
    BY <1>3, <2>1, <2>4 DEF Others
  <2>7. Kinds'
    BY <1>1, <1>2, <2>1, <2>6 DEF Typed, Kinds, SameLinks
  <2> QED  BY <1>2, <1>5, <2>1, <2>5, <2>6, <2>7 DEF Owes, StartStep
<1>6. CASE g = frame[r].gen /\ ~Owes(r) /\ fresh # {}
  <2> DEFINE c == CHOOSE x \in fresh : \A y \in fresh : x <= y
             z == [frame[r] EXCEPT !.realm = c]
             w == [card[c] EXCEPT !.st = "made", !.host = r, !.gen = g]
  <2>1. c \in fresh
    <3>1. fresh \subseteq Nat
      BY DEF Cards
    <3>2. \E x \in fresh : \A y \in fresh : x <= y
      BY <1>6, <3>1, Least
    <3> QED  BY <3>2
  <2>2. c \in Cards /\ card[c].st = "unmade" /\ card[c] \in CardRec
    BY <1>3, <2>1
  <2>3. /\ frame' = [frame EXCEPT ![r] = z] /\ card' = [card EXCEPT ![c] = w]
        /\ jobs' = jobs \cup {<<"boot", c, 0>>}
    BY SMTT(30), <1>1, <1>3, <1>6, <2>2 DEF Start
  <2> HIDE DEF c
  <2>4. /\ z \in FrameRec /\ w \in CardRec
    <3>1. "made" \in Stages /\ c \in Realms
      BY <2>2, AnItem DEF Stages
    <3> QED  BY <1>3, <2>2, <3>1, FramePut, CardPut
  <2>5. /\ z.realm = c /\ z.gen = frame[r].gen /\ z.src = frame[r].src /\ z.loaded = frame[r].loaded
        /\ z.after = frame[r].after /\ z.dispose = frame[r].dispose /\ z.owed = frame[r].owed
        /\ z.late = frame[r].late
    BY <1>3 DEF FrameRec
  <2>6. /\ w.st = "made" /\ w.host = r /\ w.gen = g /\ w.root = card[c].root
        /\ w.disposed = card[c].disposed /\ w.pending = card[c].pending /\ w.frames = card[c].frames
        /\ w.done = card[c].done /\ w.bts = card[c].bts /\ w.retired = card[c].retired
        /\ w.shown = card[c].shown /\ w.seen = card[c].seen /\ w.wait = card[c].wait
        /\ w.cut = card[c].cut
    BY <2>2 DEF CardRec
  <2> HIDE DEF w, z
  <2>7. /\ Others(r) /\ frame'[r] = z /\ frame' \in [Realms -> FrameRec]
        /\ OtherCards(c) /\ card'[c] = w /\ card' \in [Cards -> CardRec]
    BY <1>3, <2>2, <2>3, <2>4 DEF Others, OtherCards
  <2>8. jobs' \subseteq JobItems
    BY <1>3, <2>2, <2>3 DEF JobItems
  <2>9. Kinds'
    BY SMTT(30), <1>1, <1>2, <2>7, <2>8 DEF Typed, Kinds, SameLinks
  <2> QED  BY <1>2, <1>6, <2>2, <2>3, <2>5, <2>6, <2>7, <2>9 DEF Owes, StartStep
<1> QED  BY SMTT(30), <1>4, <1>5, <1>6 DEF StartStep

SameLoads(q) == UNCHANGED <<frame[q].gen, frame[q].src, frame[q].loaded, frame[q].realm,
                            frame[q].owed, frame[q].after, frame[q].late>>
NoFlush == \A c \in Cards : <<"flush", c, 0>> \notin jobs

(* boot of frame-boot.ts: stale, refused, or the card's script loads.      *)
BootStep(c) ==
  /\ stack = <<>> /\ NoFlush /\ <<"boot", c, 0>> \in jobs
  /\ jobs' = jobs \ {<<"boot", c, 0>>}
  /\ UNCHANGED <<asked, flying, entry, batch, changes, taken>>
  /\ \A q \in Realms : /\ SameLoads(q)
                       /\ frame'[q].dispose = IF q = card[c].host /\ Current(c) THEN c
                                              ELSE frame[q].dispose
  /\ OtherCards(c)
  /\ UNCHANGED <<card[c].host, card[c].gen, card[c].disposed, card[c].pending, card[c].frames,
                 card[c].done, card[c].bts, card[c].retired, card[c].shown,
                 card[c].seen, card[c].wait, card[c].cut>>
  /\ \/ ~Current(c) /\ stack' = <<>> /\ UNCHANGED card
     \/ Current(c) /\ stack' = <<>> /\ card'[c].st = "refused" /\ UNCHANGED card[c].root
     \/ /\ Current(c) /\ FrameLives(card[c].host) /\ card'[c].st = "booting" /\ card'[c].root
        /\ Pushed(<<"loading", c, 0>>, <<>>)

LEMMA BootDoes ==
  ASSUME Typed, NEW c \in Cards, Boot(c)
  PROVE  Kinds' /\ BootStep(c)
<1> DEFINE r == card[c].host
           boots == Current(c) /\ FrameLives(r) /\ Depth[r] <= MaxDepth
           f(q) == IF q = r /\ Current(c) THEN [frame[r] EXCEPT !.dispose = c]
                   ELSE IF q = c /\ boots THEN [frame[c] EXCEPT !.attached = TRUE] ELSE frame[q]
           w == IF boots THEN [card[c] EXCEPT !.st = "booting", !.root = TRUE]
                ELSE IF Current(c) THEN [card[c] EXCEPT !.st = "refused"] ELSE card[c]
<1>1. /\ frame \in [Realms -> FrameRec] /\ card \in [Cards -> CardRec] /\ card[c] \in CardRec
      /\ r \in Realms /\ c \in Realms
  BY AnItem DEF Typed, Kinds, CardRec
<1>2. /\ frame' = [q \in Realms |-> f(q)]
      /\ card' = IF boots THEN [card EXCEPT ![c].st = "booting", ![c].root = TRUE]
                 ELSE IF Current(c) THEN [card EXCEPT ![c].st = "refused"] ELSE card
      /\ stack' = IF boots THEN <<<<"loading", c, 0>>>> ELSE stack
      /\ events' = IF boots /\ Connected[r] THEN Append(events, <<c, TRUE>>) ELSE events
      /\ stack = <<>> /\ NoFlush /\ <<"boot", c, 0>> \in jobs
      /\ jobs' = jobs \ {<<"boot", c, 0>>}
      /\ UNCHANGED <<asked, flying, entry, batch, changes, taken>>
  BY DEF Boot, Flushed, NoFlush
<1>3. \A q \in Realms : /\ f(q) \in FrameRec
                        /\ f(q).gen = frame[q].gen /\ f(q).src = frame[q].src
                        /\ f(q).loaded = frame[q].loaded /\ f(q).realm = frame[q].realm
                        /\ f(q).owed = frame[q].owed /\ f(q).after = frame[q].after
                        /\ f(q).late = frame[q].late
                        /\ f(q).dispose = IF q = card[c].host /\ Current(c) THEN c ELSE frame[q].dispose
  <2> SUFFICES ASSUME NEW q \in Realms
               PROVE  /\ f(q) \in FrameRec
                      /\ f(q).gen = frame[q].gen /\ f(q).src = frame[q].src
                      /\ f(q).loaded = frame[q].loaded /\ f(q).realm = frame[q].realm
                      /\ f(q).owed = frame[q].owed /\ f(q).after = frame[q].after
                      /\ f(q).late = frame[q].late
                      /\ f(q).dispose = IF q = card[c].host /\ Current(c) THEN c ELSE frame[q].dispose
    OBVIOUS
  <2>1. frame[q] \in FrameRec /\ frame[r] \in FrameRec /\ frame[c] \in FrameRec
    BY <1>1
  <2>2. [frame[r] EXCEPT !.dispose = c] \in FrameRec /\ [frame[c] EXCEPT !.attached = TRUE] \in FrameRec
    BY <1>1, <2>1, FramePut
  <2>3. f(q) \in FrameRec
    BY <2>1, <2>2
  <2> QED  BY <2>1, <2>3 DEF FrameRec
<1>4. /\ w \in CardRec /\ w.host = card[c].host /\ w.gen = card[c].gen
      /\ w.disposed = card[c].disposed /\ w.pending = card[c].pending /\ w.frames = card[c].frames
      /\ w.done = card[c].done /\ w.bts = card[c].bts /\ w.retired = card[c].retired
      /\ w.shown = card[c].shown /\ w.seen = card[c].seen /\ w.wait = card[c].wait
      /\ w.cut = card[c].cut
  <2>1. "booting" \in Stages /\ "refused" \in Stages
    BY SMTT(30) DEF Stages
  <2>2. w \in CardRec
    BY <1>1, <2>1, CardPut
  <2> QED  BY <1>1, <2>2 DEF CardRec
<1>5. /\ boots => w.st = "booting" /\ w.root
      /\ ~boots /\ Current(c) => w.st = "refused" /\ w.root = card[c].root
  BY <1>1 DEF CardRec
<1>6. card' = [card EXCEPT ![c] = w]
  BY <1>1, <1>2
<1>7. events' \in Seq(Realms \X BOOLEAN)
  <2>1. events \in Seq(Realms \X BOOLEAN) /\ <<c, TRUE>> \in Realms \X BOOLEAN
    BY <1>1 DEF Typed, Kinds
  <2>2. Append(events, <<c, TRUE>>) \in Seq(Realms \X BOOLEAN)
    BY <2>1, AppendFacts
  <2> QED  BY <1>2, <2>1, <2>2
<1> HIDE DEF f, w
<1>8. card'[c] = w /\ OtherCards(c) /\ card' \in [Cards -> CardRec]
  BY <1>1, <1>4, <1>6 DEF OtherCards
<1>9. frame' \in [Realms -> FrameRec] /\ \A q \in Realms : frame'[q] = f(q)
  BY <1>2, <1>3
<1>10. \A q \in Realms : /\ SameLoads(q)
                         /\ frame'[q].dispose = IF q = card[c].host /\ Current(c) THEN c
                                                ELSE frame[q].dispose
  BY <1>3, <1>9 DEF SameLoads
<1>11. boots => stack' \in Seq(Items) /\ Pushed(<<"loading", c, 0>>, <<>>)
  <2>1. <<"loading", c, 0>> \in Items /\ <<>> \in Seq(Items)
    BY AnItem, NoCall DEF CardCalls
  <2>2. <<<<"loading", c, 0>>>> = <<<<"loading", c, 0>>>> \o <<>>
    OBVIOUS
  <2> QED  BY <1>2, <2>1, <2>2, PushFacts
<1>12. stack' \in Seq(Items)
  BY <1>2, <1>11, NoCall
<1>13. Kinds'
  BY <1>2, <1>7, <1>8, <1>9, <1>12 DEF Typed, Kinds
<1>14. /\ Current(c) \/ card' = card
       /\ UNCHANGED <<card[c].host, card[c].gen, card[c].disposed, card[c].pending, card[c].frames,
                        card[c].done, card[c].bts, card[c].retired, card[c].shown,
                        card[c].seen, card[c].wait, card[c].cut>>
  BY <1>2, <1>4, <1>8
<1>15. \/ ~Current(c) /\ stack' = <<>> /\ UNCHANGED card
       \/ Current(c) /\ stack' = <<>> /\ card'[c].st = "refused" /\ UNCHANGED card[c].root
       \/ /\ Current(c) /\ FrameLives(card[c].host) /\ card'[c].st = "booting" /\ card'[c].root
          /\ Pushed(<<"loading", c, 0>>, <<>>)
  BY <1>2, <1>5, <1>8, <1>11, <1>14
<1> QED  BY <1>2, <1>8, <1>10, <1>13, <1>14, <1>15 DEF BootStep

(* The script has loaded: the card is booted unless it was let go of.      *)
LoadedStep(c) ==
  /\ At("loading", c, 0)
  /\ stack' = Pop /\ UNCHANGED <<frame, jobs>> /\ SameLinks
  /\ OtherCards(c)
  /\ IF card[c].disposed THEN card'[c].st = "refused" /\ card'[c].bts = card[c].bts
     ELSE card'[c].st = "booted" /\ card'[c].bts = "live"
  /\ UNCHANGED <<card[c].host, card[c].gen, card[c].root, card[c].disposed, card[c].pending,
                 card[c].frames, card[c].done, card[c].retired, card[c].shown,
                 card[c].seen, card[c].wait, card[c].cut>>

LEMMA LoadedDoes ==
  ASSUME Typed, NEW c \in Cards, At("loading", c, 0), Loaded
  PROVE  Kinds' /\ LoadedStep(c)
<1> DEFINE w == IF card[c].disposed THEN [card[c] EXCEPT !.st = "refused"]
                ELSE [card[c] EXCEPT !.st = "booted", !.bts = "live"]
<1>1. Pop \in Seq(Items) /\ Top[2] = c /\ card \in [Cards -> CardRec] /\ card[c] \in CardRec
  BY TopFacts DEF At, Typed, Kinds
<1>2. /\ card' = [card EXCEPT ![c] = w]
      /\ stack' = Pop /\ UNCHANGED <<frame, jobs>> /\ SameLinks
  BY <1>1 DEF Loaded, SameLinks
<1>3. w \in CardRec
  <2>1. "booted" \in Stages /\ "refused" \in Stages /\ "live" \in Threads
    BY DEF Stages, Threads
  <2> QED  BY <1>1, <2>1, CardPut
<1>4. /\ IF card[c].disposed THEN w.st = "refused" /\ w.bts = card[c].bts
         ELSE w.st = "booted" /\ w.bts = "live"
      /\ w.host = card[c].host /\ w.gen = card[c].gen /\ w.root = card[c].root
      /\ w.disposed = card[c].disposed /\ w.pending = card[c].pending /\ w.frames = card[c].frames
      /\ w.done = card[c].done /\ w.retired = card[c].retired
      /\ w.shown = card[c].shown /\ w.seen = card[c].seen /\ w.wait = card[c].wait
      /\ w.cut = card[c].cut
  BY <1>1 DEF CardRec
<1> HIDE DEF w
<1>5. card'[c] = w /\ OtherCards(c) /\ card' \in [Cards -> CardRec]
  BY <1>1, <1>2, <1>3 DEF OtherCards
<1>6. Kinds'
  BY <1>1, <1>2, <1>5 DEF Typed, Kinds, SameLinks
<1> QED  BY <1>2, <1>4, <1>5, <1>6 DEF LoadedStep

(* close of frame.ts: the load ends and its card's disposal begins.        *)
CloseStep(r, d) ==
  /\ At("close", r, d)
  /\ UNCHANGED jobs /\ SameLinks
  /\ Others(r) /\ frame'[r].gen = frame[r].gen + 1 /\ ~frame'[r].loaded
  /\ frame'[r].dispose = 0 /\ frame'[r].realm = 0
  /\ UNCHANGED <<frame[r].src, frame[r].owed, frame[r].after, frame[r].late>>
  /\ \/ frame[r].dispose = 0 /\ Pushed(<<d, r, 0>>, Pop) /\ UNCHANGED card
     \/ \E c \in Cards :
          /\ frame[r].dispose = c /\ Pushed(<<"dispose", c, 0>>, Pop)
          /\ OtherCards(c) /\ card'[c].done = d
          /\ UNCHANGED <<card[c].host, card[c].gen, card[c].st, card[c].root,
                         card[c].disposed, card[c].pending, card[c].frames, card[c].bts,
                         card[c].retired, card[c].shown, card[c].seen, card[c].wait,
                         card[c].cut>>

LEMMA CloseDoes ==
  ASSUME Typed, NEW r \in Realms, NEW d \in Conts, At("close", r, d), Close
  PROVE  Kinds' /\ CloseStep(r, d)
<1> DEFINE c == frame[r].dispose
           y == [frame[r] EXCEPT !.gen = frame[r].gen + 1, !.loaded = FALSE, !.dispose = 0, !.realm = 0]
<1>1. /\ Pop \in Seq(Items) /\ Top[2] = r /\ Top[3] = d /\ (d = "frames" => r \in Cards)
      /\ frame \in [Realms -> FrameRec] /\ card \in [Cards -> CardRec]
  BY TopFacts DEF At, Typed, Kinds
<1>2. frame[r] \in FrameRec /\ frame[r].gen + 1 \in Nat /\ 0 \in Realms /\ c \in Realms
  BY <1>1, AnItem DEF FrameRec, Page
<1>3. /\ frame' = [frame EXCEPT ![r] = y] /\ UNCHANGED jobs /\ SameLinks
      /\ IF c = 0 THEN stack' = <<<<d, r, 0>>>> \o Pop /\ UNCHANGED card
         ELSE stack' = <<<<"dispose", c, 0>>>> \o Pop /\ card' = [card EXCEPT ![c].done = d]
  BY <1>1 DEF Close, SameLinks
<1>4. y \in FrameRec
  BY <1>2, FramePut
<1>5. /\ y.gen = frame[r].gen + 1 /\ ~y.loaded /\ y.dispose = 0 /\ y.realm = 0
      /\ y.src = frame[r].src /\ y.owed = frame[r].owed /\ y.after = frame[r].after
      /\ y.late = frame[r].late
  BY <1>2 DEF FrameRec
<1> HIDE DEF y
<1>6. Others(r) /\ frame'[r] = y /\ frame' \in [Realms -> FrameRec]
  BY <1>1, <1>3, <1>4 DEF Others
<1>7. CASE c = 0
  <2>1. <<d, r, 0>> \in Items
    BY <1>1, AnItem DEF Conts, Bares, CardCalls
  <2>2. stack' \in Seq(Items) /\ Pushed(<<d, r, 0>>, Pop)
    BY <1>1, <1>3, <1>7, <2>1, PushFacts
  <2>3. Kinds'
    BY SMTT(30), <1>1, <1>3, <1>6, <1>7, <2>2 DEF Typed, Kinds, SameLinks
  <2> QED  BY <1>3, <1>5, <1>6, <1>7, <2>2, <2>3 DEF CloseStep
<1>8. CASE c # 0
  <2> PICK k \in Cards : k = c
    BY <1>2, <1>8, AnItem
  <2> DEFINE w == [card[k] EXCEPT !.done = d]
  <2>1. card[k] \in CardRec
    BY <1>1
  <2>2. <<"dispose", k, 0>> \in Items
    BY <2>1, AnItem DEF CardCalls
  <2>3. stack' \in Seq(Items) /\ Pushed(<<"dispose", k, 0>>, Pop)
    BY <1>1, <1>3, <1>8, <2>2, PushFacts
  <2>4. w \in CardRec
    BY <2>1, CardPut DEF Dones
  <2>5. card' = [card EXCEPT ![k] = w]
    BY <1>3, <1>8
  <2>6. /\ w.host = card[k].host /\ w.gen = card[k].gen /\ w.root = card[k].root
        /\ w.st = card[k].st
        /\ w.disposed = card[k].disposed /\ w.pending = card[k].pending /\ w.frames = card[k].frames
        /\ w.done = d /\ w.retired = card[k].retired /\ w.bts = card[k].bts
        /\ w.shown = card[k].shown /\ w.seen = card[k].seen /\ w.wait = card[k].wait
        /\ w.cut = card[k].cut
    BY <2>1 DEF CardRec
  <2> HIDE DEF w
  <2>7. card'[k] = w /\ OtherCards(k) /\ card' \in [Cards -> CardRec]
    BY <1>1, <2>1, <2>4, <2>5 DEF OtherCards
  <2>8. Kinds'
    BY <1>1, <1>3, <1>6, <2>3, <2>7 DEF Typed, Kinds, SameLinks
  <2>9. /\ frame[r].dispose = k /\ Pushed(<<"dispose", k, 0>>, Pop)
        /\ OtherCards(k) /\ card'[k].done = d
        /\ UNCHANGED <<card[k].host, card[k].gen, card[k].st, card[k].root,
                       card[k].disposed, card[k].pending, card[k].frames, card[k].bts,
                       card[k].retired, card[k].shown, card[k].seen, card[k].wait,
                       card[k].cut>>
    BY <2>3, <2>6, <2>7
  <2> QED  BY <1>3, <1>5, <1>6, <2>1, <2>8, <2>9 DEF CloseStep
<1> QED  BY <1>7, <1>8 DEF CloseStep

(* The last list of a card owed to a frame is in: the page under it goes   *)
(* and what waited is called.                                              *)
ResetStep(r) ==
  /\ At("reset", r, 0)
  /\ UNCHANGED jobs /\ SameLinks
  /\ \A q \in Realms : /\ UNCHANGED <<frame[q].gen, frame[q].src, frame[q].loaded, frame[q].realm,
                                      frame[q].dispose, frame[q].late>>
                       /\ q # r => UNCHANGED <<frame[q].owed, frame[q].after>>
  /\ frame'[r].owed = frame[r].owed - 1
  /\ \A k \in Cards :
       /\ UNCHANGED <<card[k].host, card[k].gen, card[k].st, card[k].disposed, card[k].pending,
                      card[k].frames, card[k].done, card[k].bts, card[k].retired,
                      card[k].seen, card[k].wait, card[k].cut>>
       /\ IF frame[r].owed = 1 /\ FrameLives(r) /\ k \in Under(r)
          THEN ~card'[k].root /\ ~card'[k].shown ELSE UNCHANGED <<card[k].root, card[k].shown>>
  /\ IF frame[r].owed = 1
     THEN /\ frame'[r].after = <<>> /\ stack' = frame[r].after \o Pop
          /\ Within(stack') = Within(frame[r].after) \cup Within(Pop)
          /\ \A these : Count(stack', these) = Count(frame[r].after, these) + Count(Pop, these)
     ELSE UNCHANGED frame[r].after /\ stack' = Pop

LEMMA ResetDoes ==
  ASSUME Typed, NEW r \in Realms, At("reset", r, 0), Reset
  PROVE  Kinds' /\ ResetStep(r)
<1> DEFINE last == frame[r].owed = 1
           gone == IF last /\ FrameLives(r) THEN Under(r) ELSE {}
           f(q) == IF q = r THEN [frame[r] EXCEPT !.owed = frame[r].owed - 1,
                                           !.after = IF last THEN <<>> ELSE frame[r].after]
                   ELSE IF q \in gone THEN [frame[q] EXCEPT !.attached = FALSE] ELSE frame[q]
           w(k) == IF k \in gone THEN [card[k] EXCEPT !.root = FALSE, !.shown = FALSE] ELSE card[k]
<1>1. /\ Pop \in Seq(Items) /\ Top[2] = r /\ frame \in [Realms -> FrameRec] /\ card \in [Cards -> CardRec]
      /\ frame[r].after \in Seq(AfterItems) /\ frame[r].owed - 1 \in Int
  BY SMTT(30), TopFacts DEF At, Typed, Kinds, FrameRec
<1>2. /\ frame' = [q \in Realms |-> f(q)] /\ card' = [k \in Cards |-> w(k)]
      /\ stack' = (IF last THEN frame[r].after ELSE <<>>) \o Pop /\ UNCHANGED jobs /\ SameLinks
  BY <1>1 DEF Reset, SameLinks
<1>3. ASSUME NEW q \in Realms
      PROVE  /\ f(q) \in FrameRec /\ f(q).gen = frame[q].gen /\ f(q).src = frame[q].src
             /\ f(q).loaded = frame[q].loaded /\ f(q).realm = frame[q].realm
             /\ f(q).dispose = frame[q].dispose /\ f(q).late = frame[q].late
             /\ f(q).owed = IF q = r THEN frame[r].owed - 1 ELSE frame[q].owed
             /\ f(q).after = IF q = r /\ last THEN <<>> ELSE frame[q].after
  <2>1. frame[q] \in FrameRec /\ frame[r] \in FrameRec
    BY <1>1
  <2>2. (IF last THEN <<>> ELSE frame[r].after) \in Seq(AfterItems)
    BY <1>1, AfterIsItems
  <2>3. f(q) \in FrameRec
    BY <1>1, <2>1, <2>2, FramePut
  <2> QED  BY SMTT(30), <2>1, <2>3 DEF FrameRec
<1>4. ASSUME NEW k \in Cards
      PROVE  /\ w(k) \in CardRec /\ w(k).host = card[k].host /\ w(k).gen = card[k].gen /\ w(k).st = card[k].st
             /\ w(k).disposed = card[k].disposed /\ w(k).pending = card[k].pending /\ w(k).frames = card[k].frames
             /\ w(k).done = card[k].done /\ w(k).bts = card[k].bts /\ w(k).retired = card[k].retired
             /\ w(k).seen = card[k].seen /\ w(k).wait = card[k].wait /\ w(k).cut = card[k].cut
             /\ k \in gone => ~w(k).root /\ ~w(k).shown
             /\ k \notin gone => w(k).root = card[k].root /\ w(k).shown = card[k].shown
  <2>1. card[k] \in CardRec
    BY <1>1
  <2>2. w(k) \in CardRec
    BY <2>1, CardPut
  <2> QED  BY ZenonT(60), <2>1, <2>2 DEF CardRec
<1> HIDE DEF f, w
<1>5. frame' \in [Realms -> FrameRec] /\ \A q \in Realms : frame'[q] = f(q)
  BY <1>2, <1>3
<1>6. card' \in [Cards -> CardRec] /\ \A k \in Cards : card'[k] = w(k)
  BY <1>2, <1>4
<1>7. /\ stack' \in Seq(Items)
      /\ IF frame[r].owed = 1
         THEN /\ stack' = frame[r].after \o Pop
              /\ Within(stack') = Within(frame[r].after) \cup Within(Pop)
              /\ \A these : Count(stack', these) = Count(frame[r].after, these) + Count(Pop, these)
         ELSE stack' = Pop
  <2>1. frame[r].after \in Seq(Items)
    BY <1>1, AfterIsItems
  <2>2. CASE last
    <3>1. stack' = frame[r].after \o Pop
      BY <1>2, <2>2
    <3> QED  BY <1>1, <2>1, <2>2, <3>1, JoinFacts, CountJoin
  <2>3. CASE ~last
    <3>1. stack' = Pop
      BY <1>1, <1>2, <2>3
    <3> QED  BY <1>1, <2>3, <3>1
  <2> QED  BY <2>2, <2>3
<1>8. Kinds'
  BY <1>2, <1>5, <1>6, <1>7 DEF Typed, Kinds, SameLinks
<1>9. \A k \in Cards :
        /\ UNCHANGED <<card[k].host, card[k].gen, card[k].st, card[k].disposed, card[k].pending,
                       card[k].frames, card[k].done, card[k].bts, card[k].retired,
                       card[k].seen, card[k].wait, card[k].cut>>
        /\ IF frame[r].owed = 1 /\ FrameLives(r) /\ k \in Under(r)
           THEN ~card'[k].root /\ ~card'[k].shown ELSE UNCHANGED <<card[k].root, card[k].shown>>
  BY <1>4, <1>6
<1>10. /\ \A q \in Realms : /\ UNCHANGED <<frame[q].gen, frame[q].src, frame[q].loaded, frame[q].realm,
                                           frame[q].dispose, frame[q].late>>
                            /\ q # r => UNCHANGED <<frame[q].owed, frame[q].after>>
       /\ frame'[r].owed = frame[r].owed - 1
       /\ frame'[r].after = IF frame[r].owed = 1 THEN <<>> ELSE frame[r].after
  BY <1>3, <1>5
<1> QED  BY <1>2, <1>7, <1>8, <1>9, <1>10 DEF ResetStep

(* Calls with nothing left to do.                                          *)
IdleStep(r) ==
  /\ (At("nothing", r, 0) \/ At("askPage", r, 0))
  /\ stack' = Pop /\ UNCHANGED <<frame, card, jobs>> /\ SameLinks

LEMMA IdleCallDoes ==
  ASSUME Typed, NEW r \in Realms,
         At("nothing", r, 0) \/ At("askPage", r, 0), Nothing \/ AskPage
  PROVE  Kinds' /\ IdleStep(r)
<1>1. stack' = Pop /\ UNCHANGED <<frame, card, jobs>> /\ SameLinks
  BY DEF Nothing, AskPage, SameLinks
<1>2. Pop \in Seq(Items)
  BY SMTT(30), TopFacts DEF At
<1> QED  BY <1>1, <1>2 DEF Typed, Kinds, SameLinks, IdleStep

(* dispose of frame-boot.ts: what the card has yet to wait for.            *)
DisposeStep(c) ==
  /\ At("dispose", c, 0)
  /\ UNCHANGED <<frame, jobs, asked, flying, entry, events, batch, taken>>
  /\ OtherCards(c) /\ card'[c].disposed /\ ~card'[c].shown /\ card'[c].pending = 2
  /\ card'[c].frames = (IF frame[c].loaded THEN 2 ELSE 1)
  /\ (card'[c].cut <=> <<c, FALSE>> \in taken)
  /\ UNCHANGED <<card[c].host, card[c].gen, card[c].st, card[c].root, card[c].done, card[c].bts,
                 card[c].retired, card[c].seen, card[c].wait>>
  /\ changes' = IF card[c].shown THEN changes \cup {<<c, FALSE>>} ELSE changes
  /\ \E one, two \in Seq(Items) :
       /\ one = <<<<"frames", c, 0>>>>
                  \o (<<<<IF card[c].shown THEN "records" ELSE "arrive", c, 0>>>> \o Pop)
       /\ two = <<<<"owing", c, 0>>>> \o one
       /\ stack' = IF frame[c].loaded THEN <<<<"close", c, "frames">>>> \o two ELSE two

LEMMA DisposeDoes ==
  ASSUME Typed, NEW c \in Cards, At("dispose", c, 0), Dispose
  PROVE  Kinds' /\ DisposeStep(c)
<1> PICK d \in BOOLEAN : d <=> <<c, FALSE>> \in taken
  <2>1. CASE <<c, FALSE>> \in taken
    <3> WITNESS TRUE \in BOOLEAN
    <3> QED  BY <2>1
  <2>2. CASE <<c, FALSE>> \notin taken
    <3> WITNESS FALSE \in BOOLEAN
    <3> QED  BY <2>2
  <2> QED  BY <2>1, <2>2
<1> PICK n \in Int : n = 1 + (IF frame[c].loaded THEN 1 ELSE 0)
  OBVIOUS
<1> DEFINE mine == IF frame[c].loaded THEN 1 ELSE 0
           w == [card[c] EXCEPT !.disposed = TRUE, !.shown = FALSE, !.pending = 2,
                                !.frames = n, !.cut = d]
           z == <<IF card[c].shown THEN "records" ELSE "arrive", c, 0>>
           l == IF mine = 1 THEN <<<<"close", c, "frames">>>> ELSE <<>>
           zero == <<z>> \o Pop
           one == <<<<"frames", c, 0>>>> \o zero
           two == <<<<"owing", c, 0>>>> \o one
<1>1. Pop \in Seq(Items) /\ Top[2] = c /\ card \in [Cards -> CardRec] /\ card[c] \in CardRec
  BY TopFacts DEF At, Typed, Kinds
<1>2. /\ card' = [card EXCEPT ![c].disposed = TRUE, ![c].shown = FALSE, ![c].pending = 2,
                              ![c].frames = 1 + mine, ![c].cut = <<c, FALSE>> \in taken]
      /\ changes' = IF card[c].shown THEN changes \cup {<<c, FALSE>>} ELSE changes
      /\ stack' = l \o <<<<"owing", c, 0>>, <<"frames", c, 0>>>> \o <<z>> \o Pop
      /\ UNCHANGED <<frame, jobs, asked, flying, entry, events, batch, taken>>
  BY <1>1 DEF Dispose, Waits
<1>3. w \in CardRec
  <2>1. \A a, b, e \in BOOLEAN, i, j \in Int :
          [card[c] EXCEPT !.disposed = a, !.shown = b, !.pending = i, !.frames = j, !.cut = e] \in CardRec
    BY <1>1, CardPut
  <2>2. 2 \in Int /\ TRUE \in BOOLEAN /\ FALSE \in BOOLEAN
    OBVIOUS
  <2> QED  BY ZenonT(60), <2>1, <2>2, Zenon
<1>4. card' = [card EXCEPT ![c] = w]
  <2>1. d = (<<c, FALSE>> \in taken)
    <3>1. CASE <<c, FALSE>> \in taken
      BY <3>1, Zenon
    <3>2. CASE <<c, FALSE>> \notin taken
      BY <3>2, Zenon
    <3> QED  BY <3>1, <3>2
  <2> QED  BY <1>1, <1>2, <2>1
<1>5. /\ w.disposed /\ ~w.shown /\ w.pending = 2 /\ w.frames = n /\ w.cut = d
      /\ w.host = card[c].host /\ w.gen = card[c].gen /\ w.st = card[c].st /\ w.root = card[c].root
      /\ w.done = card[c].done /\ w.bts = card[c].bts /\ w.retired = card[c].retired
      /\ w.seen = card[c].seen /\ w.wait = card[c].wait
  BY <1>1 DEF CardRec
<1> HIDE DEF w
<1>6. card'[c] = w /\ OtherCards(c) /\ card' \in [Cards -> CardRec]
  BY <1>1, <1>3, <1>4 DEF OtherCards
<1>7. z \in Items /\ <<"frames", c, 0>> \in Items /\ <<"owing", c, 0>> \in Items
      /\ <<"close", c, "frames">> \in Items
  BY AnItem DEF CardCalls
<1> HIDE DEF z
<1>8. zero \in Seq(Items)
  BY <1>1, <1>7, Push
<1>9. one \in Seq(Items)
  <2> HIDE DEF zero
  <2> QED  BY <1>7, <1>8, Push
<1>10. two \in Seq(Items)
  <2> HIDE DEF one
  <2> QED  BY <1>7, <1>9, Push
<1>11. l \in Seq(Items)
  BY <1>7, NoCall
<1>12. stack' = l \o two
  <2> DEFINE x == <<"owing", c, 0>>
             y == <<"frames", c, 0>>
             p == <<x, y>>
             q == <<z>>
             k == l \o p
             v == k \o q
             f == p \o zero
  <2>1. /\ x \in Items /\ y \in Items /\ p \in Seq(Items) /\ q \in Seq(Items) /\ k \in Seq(Items)
        /\ zero \in Seq(Items) /\ l \in Seq(Items) /\ Pop \in Seq(Items)
    <3>1. p \in Seq(Items) /\ q \in Seq(Items)
      BY <1>7
    <3> HIDE DEF p, q, l, zero
    <3> QED  BY <1>1, <1>7, <1>8, <1>11, <3>1
  <2>2. /\ p = <<x, y>> /\ zero = q \o Pop /\ k = l \o p /\ v = k \o q /\ f = p \o zero
        /\ stack' = v \o Pop
    BY <1>2
  <2> HIDE DEF l, p, q, k, v, f, x, y, zero
  <2> PICK S, s : S = Items /\ s = Pop
    OBVIOUS
  <2>3. k \in Seq(S) /\ q \in Seq(S) /\ s \in Seq(S) /\ v = k \o q /\ zero = q \o s
    BY <2>1, <2>2
  <2>4. v \o s = k \o zero
    BY SMTT(30), <2>3, AssocNamed
  <2>7. l \in Seq(S) /\ p \in Seq(S) /\ zero \in Seq(S) /\ k = l \o p /\ f = p \o zero
    BY <2>1, <2>2
  <2>5. k \o zero = l \o f
    BY SMTT(30), <2>7, AssocNamed
  <2>8. x \in S /\ y \in S /\ zero \in Seq(S) /\ p = <<x, y>>
    BY <2>1, <2>2
  <2>9. p \o zero = <<x>> \o (<<y>> \o zero)
    <3>1. <<x, y>> \o zero = <<x>> \o (<<y>> \o zero)
      <4>1. x \in S
        BY <2>8
      <4>2. y \in S
        BY <2>8
      <4>3. zero \in Seq(S)
        BY <2>8
      <4> QED  BY SMTT(30), <4>1, <4>2, <4>3, Pair
    <3> QED  BY <2>8, <3>1
  <2>6. stack' = l \o (<<x>> \o (<<y>> \o zero))
    BY <2>2, <2>4, <2>5, <2>9
  <2> QED  BY <2>6 DEF x, y
<1>13. stack' = IF frame[c].loaded THEN <<<<"close", c, "frames">>>> \o two ELSE two
  <2> HIDE DEF two
  <2> QED  BY <1>10, <1>12
<1>14. stack' \in Seq(Items)
  <2> HIDE DEF two
  <2> QED  BY <1>7, <1>10, <1>13, Push
<1>15. changes' \subseteq Cards \X BOOLEAN
  <2>1. <<c, FALSE>> \in Cards \X BOOLEAN
    OBVIOUS
  <2> QED  BY <1>2, <2>1 DEF Typed, Kinds
<1>16. Kinds'
  BY <1>2, <1>6, <1>14, <1>15 DEF Typed, Kinds
<1>17. \E ones, twos \in Seq(Items) :
         /\ ones = <<<<"frames", c, 0>>>>
                    \o (<<<<IF card[c].shown THEN "records" ELSE "arrive", c, 0>>>> \o Pop)
         /\ twos = <<<<"owing", c, 0>>>> \o ones
         /\ stack' = IF frame[c].loaded THEN <<<<"close", c, "frames">>>> \o twos ELSE twos
  BY <1>9, <1>10, <1>13 DEF z
<1>18. card'[c].frames = (IF frame[c].loaded THEN 2 ELSE 1) /\ (card'[c].cut <=> <<c, FALSE>> \in taken)
  BY <1>5, <1>6
<1> HIDE DEF one, two
<1> QED  BY <1>2, <1>5, <1>6, <1>16, <1>17, <1>18 DEF DisposeStep

(* What its own frame owes is waited for, too.                             *)
OwingStep(c) ==
  /\ At("owing", c, 0)
  /\ stack' = Pop /\ UNCHANGED jobs /\ SameLinks
  /\ OtherCards(c)
  /\ UNCHANGED <<card[c].host, card[c].gen, card[c].st, card[c].root, card[c].disposed,
                 card[c].pending, card[c].done, card[c].bts, card[c].retired, card[c].shown,
                 card[c].seen, card[c].wait, card[c].cut>>
  /\ Others(c)
  /\ UNCHANGED <<frame[c].gen, frame[c].src, frame[c].loaded, frame[c].realm,
                 frame[c].dispose, frame[c].owed, frame[c].late>>
  /\ IF frame[c].owed > 0
     THEN /\ card'[c].frames = card[c].frames + 1
          /\ frame'[c].after = Append(frame[c].after, <<"frames", c, 0>>)
     ELSE UNCHANGED <<frame, card>>

LEMMA OwingDoes ==
  ASSUME Typed, NEW c \in Cards, At("owing", c, 0), Owing
  PROVE  Kinds' /\ OwingStep(c)
<1>1. /\ Pop \in Seq(Items) /\ Top[2] = c /\ card \in [Cards -> CardRec] /\ card[c] \in CardRec
      /\ c \in Realms /\ frame \in [Realms -> FrameRec] /\ frame[c] \in FrameRec
  BY TopFacts, AnItem DEF At, Typed, Kinds
<1>2. stack' = Pop /\ UNCHANGED jobs /\ SameLinks
  BY DEF Owing, SameLinks
<1>3. CASE ~(frame[c].owed > 0)
  <2>1. UNCHANGED <<frame, card>>
    BY <1>1, <1>3 DEF Owing
  <2>2. Kinds'
    BY <1>1, <1>2, <2>1 DEF Typed, Kinds, SameLinks
  <2> QED  BY <1>2, <1>3, <2>1, <2>2 DEF Others, OtherCards, OwingStep
<1>4. CASE frame[c].owed > 0
  <2> DEFINE w == [card[c] EXCEPT !.frames = card[c].frames + 1]
             y == [frame[c] EXCEPT !.after = Append(frame[c].after, <<"frames", c, 0>>)]
  <2>1. card' = [card EXCEPT ![c] = w] /\ frame' = [frame EXCEPT ![c] = y]
    BY <1>1, <1>4 DEF Owing
  <2>2. /\ frame[c].after \in Seq(AfterItems) /\ <<"frames", c, 0>> \in AfterItems
        /\ card[c].frames + 1 \in Int
    BY SMTT(30), <1>1 DEF FrameRec, CardRec, AfterItems
  <2>3. Append(frame[c].after, <<"frames", c, 0>>) \in Seq(AfterItems)
    BY <2>2, AppendFacts
  <2>4. w \in CardRec /\ y \in FrameRec
    BY <1>1, <2>2, <2>3, CardPut, FramePut
  <2>5. /\ w.frames = card[c].frames + 1 /\ w.host = card[c].host /\ w.gen = card[c].gen
        /\ w.st = card[c].st /\ w.root = card[c].root /\ w.disposed = card[c].disposed
        /\ w.pending = card[c].pending /\ w.done = card[c].done /\ w.bts = card[c].bts
        /\ w.retired = card[c].retired /\ w.shown = card[c].shown /\ w.seen = card[c].seen
        /\ w.wait = card[c].wait /\ w.cut = card[c].cut
    BY <1>1 DEF CardRec
  <2>6. /\ y.after = Append(frame[c].after, <<"frames", c, 0>>) /\ y.gen = frame[c].gen
        /\ y.src = frame[c].src /\ y.loaded = frame[c].loaded /\ y.realm = frame[c].realm
        /\ y.dispose = frame[c].dispose /\ y.owed = frame[c].owed /\ y.late = frame[c].late
    BY <1>1 DEF FrameRec
  <2> HIDE DEF w, y
  <2>7. /\ card'[c] = w /\ OtherCards(c) /\ card' \in [Cards -> CardRec]
        /\ frame'[c] = y /\ Others(c) /\ frame' \in [Realms -> FrameRec]
    BY <1>1, <2>1, <2>4 DEF OtherCards, Others
  <2>8. Kinds'
    BY <1>1, <1>2, <2>7 DEF Typed, Kinds, SameLinks
  <2> QED  BY <1>2, <1>4, <2>5, <2>6, <2>7, <2>8 DEF OwingStep
<1> QED  BY <1>3, <1>4 DEF OwingStep

(* One of the lists a card's frames owe is in.                             *)
FramesStep(c) ==
  /\ At("frames", c, 0)
  /\ UNCHANGED <<frame, jobs>> /\ SameLinks
  /\ OtherCards(c) /\ card'[c].frames = card[c].frames - 1
  /\ UNCHANGED <<card[c].host, card[c].gen, card[c].st, card[c].root, card[c].disposed,
                 card[c].pending, card[c].done, card[c].bts, card[c].retired, card[c].shown,
                 card[c].seen, card[c].wait, card[c].cut>>
  /\ IF card[c].frames = 1 THEN Pushed(<<"arrive", c, 0>>, Pop) ELSE stack' = Pop

LEMMA FramesDoes ==
  ASSUME Typed, NEW c \in Cards, At("frames", c, 0), FramesArrive
  PROVE  Kinds' /\ FramesStep(c)
<1> DEFINE w == [card[c] EXCEPT !.frames = card[c].frames - 1]
<1>1. Pop \in Seq(Items) /\ Top[2] = c /\ card \in [Cards -> CardRec] /\ card[c] \in CardRec
  BY SMTT(30), TopFacts DEF At, Typed, Kinds
<1>2. /\ card' = [card EXCEPT ![c] = w] /\ UNCHANGED <<frame, jobs>> /\ SameLinks
      /\ stack' = (IF card[c].frames = 1 THEN <<<<"arrive", c, 0>>>> ELSE <<>>) \o Pop
  BY <1>1 DEF FramesArrive, SameLinks
<1>3. w \in CardRec
  <2>1. card[c].frames - 1 \in Int
    BY <1>1 DEF CardRec
  <2> QED  BY <1>1, <2>1, CardPut
<1>4. /\ w.frames = card[c].frames - 1
      /\ w.host = card[c].host /\ w.gen = card[c].gen /\ w.st = card[c].st /\ w.root = card[c].root
      /\ w.disposed = card[c].disposed /\ w.pending = card[c].pending /\ w.done = card[c].done
      /\ w.bts = card[c].bts /\ w.retired = card[c].retired /\ w.shown = card[c].shown
      /\ w.seen = card[c].seen /\ w.wait = card[c].wait /\ w.cut = card[c].cut
  BY <1>1 DEF CardRec
<1> HIDE DEF w
<1>5. card'[c] = w /\ OtherCards(c) /\ card' \in [Cards -> CardRec]
  BY <1>1, <1>2, <1>3 DEF OtherCards
<1>6. /\ stack' \in Seq(Items)
      /\ IF card[c].frames = 1 THEN Pushed(<<"arrive", c, 0>>, Pop) ELSE stack' = Pop
  <2>1. <<"arrive", c, 0>> \in Items
    BY AnItem DEF CardCalls
  <2>2. CASE card[c].frames = 1
    <3>1. stack' = <<<<"arrive", c, 0>>>> \o Pop
      BY <1>2, <2>2
    <3> QED  BY <1>1, <2>1, <2>2, <3>1, PushFacts
  <2>3. CASE card[c].frames # 1
    <3>1. stack' = Pop
      BY <1>1, <1>2, <2>3
    <3> QED  BY <1>1, <2>3, <3>1
  <2> QED  BY <2>2, <2>3
<1>7. Kinds'
  BY <1>2, <1>5, <1>6 DEF Typed, Kinds, SameLinks
<1> QED  BY <1>2, <1>4, <1>5, <1>6, <1>7 DEF FramesStep

(* The card waits for its last records.                                    *)
RecordsStep(c) ==
  /\ At("records", c, 0) /\ stack' = Pop
  /\ UNCHANGED <<frame, jobs>> /\ SameLinks
  /\ OtherCards(c) /\ card'[c].wait = "next"
  /\ UNCHANGED <<card[c].host, card[c].gen, card[c].st, card[c].root, card[c].disposed,
                 card[c].pending, card[c].frames, card[c].done, card[c].bts, card[c].retired,
                 card[c].shown, card[c].seen, card[c].cut>>

LEMMA RecordsDoes ==
  ASSUME Typed, NEW c \in Cards, At("records", c, 0), AwaitRecords
  PROVE  Kinds' /\ RecordsStep(c)
<1> DEFINE w == [card[c] EXCEPT !.wait = "next"]
<1>1. Pop \in Seq(Items) /\ Top[2] = c /\ card \in [Cards -> CardRec] /\ card[c] \in CardRec
  BY SMTT(30), TopFacts DEF At, Typed, Kinds
<1>2. card' = [card EXCEPT ![c] = w] /\ UNCHANGED <<frame, jobs>> /\ SameLinks /\ stack' = Pop
  BY <1>1 DEF AwaitRecords, SameLinks
<1>3. w \in CardRec
  <2>1. "next" \in Waiting
    BY DEF Waiting
  <2> QED  BY <1>1, <2>1, CardPut
<1>4. /\ w.wait = "next"
      /\ w.host = card[c].host /\ w.gen = card[c].gen /\ w.st = card[c].st /\ w.root = card[c].root
      /\ w.disposed = card[c].disposed /\ w.pending = card[c].pending /\ w.done = card[c].done
      /\ w.bts = card[c].bts /\ w.retired = card[c].retired /\ w.shown = card[c].shown
      /\ w.seen = card[c].seen /\ w.frames = card[c].frames /\ w.cut = card[c].cut
  BY <1>1 DEF CardRec
<1> HIDE DEF w
<1>5. card'[c] = w /\ OtherCards(c) /\ card' \in [Cards -> CardRec]
  BY <1>1, <1>2, <1>3 DEF OtherCards
<1>7. Kinds'
  BY <1>1, <1>2, <1>5 DEF Typed, Kinds, SameLinks
<1> QED  BY <1>2, <1>4, <1>5, <1>7 DEF RecordsStep

(* The last of what it waits for ends the card's thread and tells its      *)
(* frame.                                                                  *)
ArriveStep(c) ==
  /\ At("arrive", c, 0)
  /\ UNCHANGED frame /\ SameLinks
  /\ OtherCards(c) /\ card'[c].pending = card[c].pending - 1
  /\ card'[c].bts = IF card[c].pending = 1 /\ card[c].bts = "live" THEN "asked" ELSE card[c].bts
  /\ UNCHANGED <<card[c].host, card[c].gen, card[c].st, card[c].root, card[c].disposed,
                 card[c].frames, card[c].done, card[c].retired, card[c].shown,
                 card[c].seen, card[c].wait, card[c].cut>>
  /\ jobs' = IF card[c].pending = 1 /\ card[c].bts # "live"
             THEN jobs \cup {<<"closeRealm", c, 0>>} ELSE jobs
  /\ IF card[c].pending = 1 /\ Alive(card[c].host)
     THEN Pushed(<<card[c].done, card[c].host, 0>>, Pop) ELSE stack' = Pop

LEMMA ArriveDoes ==
  ASSUME Typed, NEW c \in Cards, At("arrive", c, 0), Arrive
  PROVE  Kinds' /\ ArriveStep(c)
<1> DEFINE last == card[c].pending = 1
           t == IF last /\ card[c].bts = "live" THEN "asked" ELSE card[c].bts
           w == [card[c] EXCEPT !.pending = card[c].pending - 1, !.bts = t]
           a == <<card[c].done, card[c].host, 0>>
<1>1. Pop \in Seq(Items) /\ Top[2] = c /\ card \in [Cards -> CardRec] /\ card[c] \in CardRec
  BY TopFacts DEF At, Typed, Kinds
<1>2. /\ card' = [card EXCEPT ![c] = w] /\ UNCHANGED frame /\ SameLinks
      /\ jobs' = IF last /\ card[c].bts # "live" THEN jobs \cup {<<"closeRealm", c, 0>>} ELSE jobs
      /\ stack' = (IF last /\ Alive(card[c].host) THEN <<a>> ELSE <<>>) \o Pop
  BY <1>1 DEF Arrive, SameLinks
<1>3. w \in CardRec
  <2>1. card[c].pending - 1 \in Int /\ t \in Threads
    BY <1>1 DEF CardRec, Threads
  <2> HIDE DEF t
  <2> QED  BY <1>1, <2>1, CardPut
<1>4. /\ w.pending = card[c].pending - 1 /\ w.bts = t
      /\ w.host = card[c].host /\ w.gen = card[c].gen /\ w.st = card[c].st /\ w.root = card[c].root
      /\ w.disposed = card[c].disposed /\ w.wait = card[c].wait /\ w.done = card[c].done
      /\ w.retired = card[c].retired /\ w.shown = card[c].shown
      /\ w.seen = card[c].seen /\ w.frames = card[c].frames /\ w.cut = card[c].cut
  BY <1>1 DEF CardRec
<1> HIDE DEF w
<1>5. card'[c] = w /\ OtherCards(c) /\ card' \in [Cards -> CardRec]
  BY <1>1, <1>2, <1>3 DEF OtherCards
<1>6. jobs' \subseteq JobItems
  BY <1>2 DEF Typed, Kinds, JobItems
<1>7. a \in Items
  <2>1. card[c].host \in Realms /\ card[c].done \in {"none", "reset", "frames", "nothing"}
        /\ (card[c].done = "frames" => card[c].host \in Cards)
    BY <1>1 DEF CardRec, Dones, Conts, Typed, Made
  <2>2. CASE card[c].done = "frames"
    BY <2>1, <2>2, AnItem DEF CardCalls
  <2>3. CASE card[c].done # "frames"
    BY <2>1, <2>3, AnItem DEF Bares
  <2> QED  BY <2>2, <2>3
<1> HIDE DEF a
<1>8. /\ stack' \in Seq(Items)
      /\ IF last /\ Alive(card[c].host) THEN Pushed(a, Pop) ELSE stack' = Pop
  <2>2. CASE last /\ Alive(card[c].host)
    <3>1. stack' = <<a>> \o Pop
      BY <1>2, <2>2
    <3> QED  BY <1>1, <1>7, <2>2, <3>1, PushFacts
  <2>3. CASE ~(last /\ Alive(card[c].host))
    <3>1. stack' = Pop
      BY <1>1, <1>2, <2>3
    <3> QED  BY <1>1, <2>3, <3>1
  <2> QED  BY <2>2, <2>3
<1>9. Kinds'
  BY <1>2, <1>5, <1>6, <1>8 DEF Typed, Kinds, SameLinks
<1> QED  BY <1>2, <1>4, <1>5, <1>8, <1>9 DEF ArriveStep, a

(* A start queued as a job runs.                                           *)
RunStartStep(r, g) ==
  /\ stack = <<>> /\ NoFlush /\ <<"start", r, g>> \in jobs
  /\ jobs' = jobs \ {<<"start", r, g>>} /\ Pushed(<<"start", r, g>>, <<>>)
  /\ UNCHANGED <<frame, card>> /\ SameLinks

LEMMA RunStartDoes ==
  ASSUME Typed, NEW r \in Realms, NEW g \in Nat, RunStart(r, g)
  PROVE  Kinds' /\ RunStartStep(r, g)
<1>1. /\ stack = <<>> /\ NoFlush /\ <<"start", r, g>> \in jobs
      /\ jobs' = jobs \ {<<"start", r, g>>} /\ stack' = <<<<"start", r, g>>>>
      /\ UNCHANGED <<frame, card>> /\ SameLinks
  BY DEF RunStart, Flushed, NoFlush, SameLinks
<1>2. stack' \in Seq(Items) /\ Pushed(<<"start", r, g>>, <<>>)
  <2>1. <<"start", r, g>> \in Items /\ <<>> \in Seq(Items)
    BY AnItem, NoCall
  <2>2. <<<<"start", r, g>>>> = <<<<"start", r, g>>>> \o <<>>
    OBVIOUS
  <2> QED  BY <1>1, <2>1, <2>2, PushFacts
<1>3. Kinds'
  BY <1>1, <1>2 DEF Typed, Kinds, SameLinks
<1> QED  BY <1>1, <1>2, <1>3 DEF RunStartStep

(* The records scheduled are flushed, and who waits for them told.         *)
FlushStep(c) ==
  /\ stack = <<>> /\ <<"flush", c, 0>> \in jobs /\ jobs' = jobs \ {<<"flush", c, 0>>}
  /\ UNCHANGED frame /\ SameLinks
  /\ OtherCards(c) /\ card'[c].wait = IF card[c].wait = "due" THEN "no" ELSE card[c].wait
  /\ UNCHANGED <<card[c].host, card[c].gen, card[c].st, card[c].root, card[c].disposed,
                 card[c].pending, card[c].frames, card[c].done, card[c].bts, card[c].retired,
                 card[c].shown, card[c].seen, card[c].cut>>
  /\ IF card[c].wait = "due" THEN Pushed(<<"arrive", c, 0>>, <<>>) ELSE stack' = <<>>

LEMMA FlushDoes ==
  ASSUME Typed, NEW c \in Cards, Flush(c)
  PROVE  Kinds' /\ FlushStep(c)
<1> DEFINE v == IF card[c].wait = "due" THEN "no" ELSE card[c].wait
           w == [card[c] EXCEPT !.wait = v]
<1>1. card \in [Cards -> CardRec] /\ card[c] \in CardRec
  BY DEF Typed, Kinds
<1>2. /\ card' = [card EXCEPT ![c] = w] /\ UNCHANGED frame /\ SameLinks
      /\ stack = <<>> /\ <<"flush", c, 0>> \in jobs /\ jobs' = jobs \ {<<"flush", c, 0>>}
      /\ stack' = IF card[c].wait = "due" THEN <<<<"arrive", c, 0>>>> ELSE <<>>
  BY SMTT(30), <1>1 DEF Flush, SameLinks
<1>3. w \in CardRec
  <2>1. v \in Waiting
    BY <1>1 DEF Waiting, CardRec
  <2> HIDE DEF v
  <2> QED  BY <1>1, <2>1, CardPut
<1>4. /\ w.wait = v
      /\ w.host = card[c].host /\ w.gen = card[c].gen /\ w.st = card[c].st /\ w.root = card[c].root
      /\ w.disposed = card[c].disposed /\ w.pending = card[c].pending /\ w.done = card[c].done
      /\ w.bts = card[c].bts /\ w.retired = card[c].retired /\ w.shown = card[c].shown
      /\ w.seen = card[c].seen /\ w.frames = card[c].frames /\ w.cut = card[c].cut
  BY <1>1 DEF CardRec
<1> HIDE DEF w
<1>5. card'[c] = w /\ OtherCards(c) /\ card' \in [Cards -> CardRec]
  BY <1>1, <1>2, <1>3 DEF OtherCards
<1>6. /\ stack' \in Seq(Items)
      /\ IF card[c].wait = "due" THEN Pushed(<<"arrive", c, 0>>, <<>>) ELSE stack' = <<>>
  <2>1. <<"arrive", c, 0>> \in Items /\ <<>> \in Seq(Items)
    BY AnItem, NoCall DEF CardCalls
  <2>2. <<<<"arrive", c, 0>>>> = <<<<"arrive", c, 0>>>> \o <<>>
    OBVIOUS
  <2>3. CASE card[c].wait = "due"
    BY <1>2, <2>1, <2>2, <2>3, PushFacts
  <2>4. CASE card[c].wait # "due"
    BY <1>2, <2>1, <2>4
  <2> QED  BY <2>3, <2>4
<1>7. Kinds'
  BY <1>2, <1>5, <1>6 DEF Typed, Kinds, SameLinks
<1> QED  BY <1>2, <1>4, <1>5, <1>6, <1>7 DEF FlushStep

(* The realm of a card let go of is retired.                               *)
CloseRealmStep(c) ==
  /\ stack = <<>> /\ NoFlush /\ <<"closeRealm", c, 0>> \in jobs
  /\ jobs' = jobs \ {<<"closeRealm", c, 0>>}
  /\ UNCHANGED <<frame, stack>> /\ SameLinks
  /\ OtherCards(c) /\ card'[c].retired
  /\ UNCHANGED <<card[c].host, card[c].gen, card[c].st, card[c].root, card[c].disposed,
                 card[c].pending, card[c].frames, card[c].done, card[c].bts, card[c].shown,
                 card[c].seen, card[c].wait, card[c].cut>>

LEMMA CloseRealmDoes ==
  ASSUME Typed, NEW c \in Cards, CloseRealm(c)
  PROVE  Kinds' /\ CloseRealmStep(c)
<1> DEFINE w == [card[c] EXCEPT !.retired = TRUE]
<1>1. card \in [Cards -> CardRec] /\ card[c] \in CardRec
  BY DEF Typed, Kinds
<1>2. /\ card' = [card EXCEPT ![c] = w] /\ UNCHANGED <<frame, stack>> /\ SameLinks
      /\ stack = <<>> /\ NoFlush /\ <<"closeRealm", c, 0>> \in jobs
      /\ jobs' = jobs \ {<<"closeRealm", c, 0>>}
  BY SMTT(30), <1>1 DEF CloseRealm, Flushed, NoFlush, SameLinks
<1>3. w \in CardRec
  BY <1>1, CardPut
<1>4. /\ w.retired
      /\ w.host = card[c].host /\ w.gen = card[c].gen /\ w.st = card[c].st /\ w.root = card[c].root
      /\ w.disposed = card[c].disposed /\ w.pending = card[c].pending /\ w.done = card[c].done
      /\ w.bts = card[c].bts /\ w.wait = card[c].wait /\ w.shown = card[c].shown
      /\ w.seen = card[c].seen /\ w.frames = card[c].frames /\ w.cut = card[c].cut
  BY <1>1 DEF CardRec
<1> HIDE DEF w
<1>5. card'[c] = w /\ OtherCards(c) /\ card' \in [Cards -> CardRec]
  BY <1>1, <1>2, <1>3 DEF OtherCards
<1>7. Kinds'
  BY <1>2, <1>5 DEF Typed, Kinds, SameLinks
<1> QED  BY <1>2, <1>4, <1>5, <1>7 DEF CloseRealmStep

(* The cards a release frees change in nothing else.                       *)
Freeing(loads) ==
  \A k \in Cards :
     /\ UNCHANGED <<card[k].host, card[k].gen, card[k].root, card[k].disposed,
                    card[k].pending, card[k].frames, card[k].done, card[k].bts, card[k].retired,
                    card[k].shown, card[k].seen, card[k].wait, card[k].cut>>
     /\ card'[k].st = IF k \in Releasable(loads) THEN "freed" ELSE card[k].st

(* A release of child.rs frees what is not needed.                         *)
LEMMA ReleaseDoes ==
  ASSUME Typed, NEW loads, Release(loads)
  PROVE  card' \in [Cards -> CardRec] /\ Freeing(loads)
<1> DEFINE w(k) == IF k \in Releasable(loads) THEN [card[k] EXCEPT !.st = "freed"] ELSE card[k]
<1>1. card \in [Cards -> CardRec] /\ card' = [k \in Cards |-> w(k)]
  BY DEF Typed, Kinds, Release
<1>2. ASSUME NEW k \in Cards
      PROVE  /\ w(k) \in CardRec
             /\ w(k).host = card[k].host /\ w(k).gen = card[k].gen /\ w(k).root = card[k].root
             /\ w(k).disposed = card[k].disposed /\ w(k).pending = card[k].pending
             /\ w(k).frames = card[k].frames /\ w(k).done = card[k].done /\ w(k).bts = card[k].bts
             /\ w(k).retired = card[k].retired /\ w(k).shown = card[k].shown
             /\ w(k).seen = card[k].seen /\ w(k).wait = card[k].wait /\ w(k).cut = card[k].cut
             /\ w(k).st = IF k \in Releasable(loads) THEN "freed" ELSE card[k].st
  <2>1. card[k] \in CardRec /\ "freed" \in Stages
    BY SMTT(30), <1>1 DEF Stages
  <2>2. w(k) \in CardRec
    BY <2>1, CardPut
  <2> QED  BY <2>1, <2>2 DEF CardRec
<1> HIDE DEF w
<1>3. card' \in [Cards -> CardRec] /\ \A k \in Cards : card'[k] = w(k)
  BY <1>1, <1>2
<1> QED  BY <1>2, <1>3 DEF Freeing

(* The listeners of an event have run.                                     *)
HeardStep ==
  /\ entry = "heard" /\ entry' = "events" /\ stack = <<>> /\ jobs = {}
  /\ UNCHANGED <<frame, stack, jobs, asked, flying, changes, taken>>
  /\ UNCHANGED card \/ Freeing(flying)

LEMMA HeardDoes ==
  ASSUME Typed, Heard
  PROVE  Kinds' /\ HeardStep
<1>1. /\ entry = "heard" /\ entry' = "events" /\ stack = <<>> /\ jobs = {}
      /\ UNCHANGED <<frame, stack, jobs, asked, flying, changes, taken, events>>
      /\ batch' = Tail(batch)
      /\ UNCHANGED card \/ Release(flying)
  BY DEF Heard, Quiet
<1>4. card' \in [Cards -> CardRec] /\ (UNCHANGED card \/ Freeing(flying))
  BY <1>1, ReleaseDoes DEF Typed, Kinds
<1>5. batch' \in Seq(Realms \X BOOLEAN)
  BY <1>1, Split DEF Typed, Kinds, Made
<1>6. Kinds'
  BY <1>1, <1>4, <1>5 DEF Typed, Kinds
<1> QED  BY <1>1, <1>4, <1>6 DEF HeardStep

(* The epilogue: loads asked for fly, and what is not needed is freed.     *)
EpilogueStep ==
  /\ entry \in {"turn", "events"} /\ entry' = "idle" /\ stack = <<>> /\ jobs = {}
  /\ UNCHANGED <<frame, stack, jobs, batch, changes, taken>>
  /\ flying' = flying \cup asked /\ asked' = {} /\ Freeing(flying \cup asked)

LEMMA EpilogueDoes ==
  ASSUME Typed, Epilogue
  PROVE  Kinds' /\ EpilogueStep
<1>1. /\ entry \in {"turn", "events"} /\ entry' = "idle" /\ stack = <<>> /\ jobs = {}
      /\ UNCHANGED <<frame, stack, jobs, batch, changes, taken, events>>
      /\ flying' = flying \cup asked /\ asked' = {} /\ Release(flying \cup asked)
  BY DEF Epilogue, Quiet
<1>2. card' \in [Cards -> CardRec] /\ Freeing(flying \cup asked)
  BY <1>1, ReleaseDoes
<1>3. Kinds'
  BY <1>1, <1>2 DEF Typed, Kinds
<1> QED  BY <1>1, <1>2, <1>3 DEF EpilogueStep

(* An entry opens.                                                         *)
OpenStep ==
  /\ entry = "idle" /\ entry' = "turn"
  /\ UNCHANGED <<frame, card, jobs, stack, asked, flying, changes, taken>>

LEMMA OpenDoes ==
  ASSUME Typed, OpenTurn
  PROVE  Kinds' /\ OpenStep
BY DEF OpenTurn, Enter, OpenStep, Typed, Kinds

(* An entry opens with attachments to hear of.                             *)
OpenEventsStep ==
  /\ entry = "idle" /\ entry' = "events"
  /\ UNCHANGED <<frame, card, jobs, stack, asked, flying, changes, taken>>

LEMMA OpenEventsDoes ==
  ASSUME Typed, OpenEvents
  PROVE  Kinds' /\ OpenEventsStep
BY AfterIsItems DEF OpenEvents, Enter, OpenEventsStep, Typed, Kinds

(* A frame is attached, or detached: it loads, or is closed for its reset. *)
HearStep(r) ==
  /\ entry = "events" /\ entry' = "heard" /\ batch # <<>>
  /\ UNCHANGED <<card, jobs, asked, flying, batch, changes, taken>>
  /\ \/ UNCHANGED <<frame, stack>>
     \/ /\ FrameLives(r) /\ Alive(r) /\ (r # Page => ~card[r].retired)
        /\ frame[r].src # NoSrc /\ ~frame[r].loaded /\ UNCHANGED frame
        /\ Pushed(<<"source", r, frame[r].src>>, <<>>)
     \/ /\ FrameLives(r) /\ Alive(r) /\ (r # Page => ~card[r].retired)
        /\ frame[r].loaded /\ Pushed(<<"close", r, "reset">>, <<>>)
        /\ Others(r) /\ frame'[r].owed = frame[r].owed + 1
        /\ UNCHANGED <<frame[r].gen, frame[r].src, frame[r].loaded, frame[r].realm,
                       frame[r].dispose, frame[r].after, frame[r].late>>

LEMMA HearDoes ==
  ASSUME Typed, Hear
  PROVE  Kinds' /\ \E r \in Realms : HearStep(r)
<1> DEFINE r == Head(batch)[1]
           hears == FrameLives(r) /\ Alive(r) /\ (r # Page => ~card[r].retired)
<1>1. batch \in Seq(Realms \X BOOLEAN) /\ batch # <<>> /\ Head(batch) \in Realms \X BOOLEAN
  BY Split DEF Typed, Kinds, Hear
<1>2. /\ r \in Realms /\ frame \in [Realms -> FrameRec] /\ frame[r] \in FrameRec
  BY <1>1 DEF Typed, Kinds
<1>3. /\ entry = "events" /\ entry' = "heard"
      /\ UNCHANGED <<card, jobs, asked, flying, batch, changes, taken, events>>
      /\ \/ UNCHANGED <<frame, stack>>
         \/ /\ hears /\ frame[r].src # NoSrc /\ ~frame[r].loaded
            /\ stack' = <<<<"source", r, frame[r].src>>>> /\ UNCHANGED frame
         \/ /\ hears /\ frame[r].loaded /\ stack' = <<<<"close", r, "reset">>>>
            /\ frame' = [frame EXCEPT ![r].owed = @ + 1]
  BY DEF Hear
<1>4. CASE UNCHANGED <<frame, stack>>
  <2>1. Kinds'
    BY <1>3, <1>4 DEF Typed, Kinds
  <2>2. HearStep(r)
    BY <1>1, <1>3, <1>4 DEF HearStep
  <2> QED  BY <1>2, <2>1, <2>2
<1> PICK q \in Realms : q = r
  BY <1>2
<1>5. CASE /\ hears /\ frame[r].src # NoSrc /\ ~frame[r].loaded
           /\ stack' = <<<<"source", r, frame[r].src>>>> /\ UNCHANGED frame
  <2>1. <<"source", q, frame[q].src>> \in Items /\ <<>> \in Seq(Items)
    <3>1. frame[q].src \in Srcs
      BY <1>2, <1>5 DEF FrameRec
    <3> QED  BY <3>1, AnItem, NoCall
  <2>2. <<<<"source", q, frame[q].src>>>> = <<<<"source", q, frame[q].src>>>> \o <<>>
    OBVIOUS
  <2>3. stack' \in Seq(Items) /\ Pushed(<<"source", q, frame[q].src>>, <<>>)
    BY <1>5, <2>1, <2>2, PushFacts
  <2>4. Kinds'
    BY <1>3, <1>5, <2>3 DEF Typed, Kinds
  <2>5. HearStep(q)
    BY <1>1, <1>3, <1>5, <2>3 DEF HearStep
  <2> QED  BY <2>4, <2>5
<1>6. CASE /\ hears /\ frame[r].loaded /\ stack' = <<<<"close", r, "reset">>>>
           /\ frame' = [frame EXCEPT ![r].owed = @ + 1]
  <2> DEFINE y == [frame[q] EXCEPT !.owed = frame[q].owed + 1]
  <2>1. <<"close", q, "reset">> \in Items /\ <<>> \in Seq(Items)
    BY AnItem, NoCall
  <2>2. <<<<"close", q, "reset">>>> = <<<<"close", q, "reset">>>> \o <<>>
    OBVIOUS
  <2>3. stack' \in Seq(Items) /\ Pushed(<<"close", q, "reset">>, <<>>)
    BY <1>6, <2>1, <2>2, PushFacts
  <2>4. frame' = [frame EXCEPT ![q] = y]
    BY <1>2, <1>6
  <2>5. y \in FrameRec
    <3>1. frame[q].owed + 1 \in Int
      BY <1>2 DEF FrameRec
    <3> QED  BY <1>2, <3>1, FramePut
  <2>6. /\ y.owed = frame[q].owed + 1 /\ y.gen = frame[q].gen /\ y.src = frame[q].src
        /\ y.loaded = frame[q].loaded /\ y.realm = frame[q].realm /\ y.dispose = frame[q].dispose
        /\ y.after = frame[q].after /\ y.late = frame[q].late
    BY <1>2 DEF FrameRec
  <2> HIDE DEF y
  <2>7. Others(q) /\ frame'[q] = y /\ frame' \in [Realms -> FrameRec]
    BY <1>2, <2>4, <2>5 DEF Others
  <2>8. Kinds'
    BY <1>3, <2>3, <2>7 DEF Typed, Kinds
  <2>9. HearStep(q)
    BY <1>1, <1>3, <1>6, <2>3, <2>6, <2>7 DEF HearStep
  <2> QED  BY <2>8, <2>9
<1> QED  BY <1>3, <1>4, <1>5, <1>6

(* An entry opens with records of what the observers saw.                  *)
OpenRecordsStep ==
  /\ entry = "idle" /\ entry' = "listen" /\ changes' = {}
  /\ taken' = changes \cup {<<c, ~card[c].shown>> : c \in {k \in Cards : Judged(k)}}
  /\ UNCHANGED <<frame, jobs, stack, asked, flying>>
  /\ \A k \in Cards :
       /\ UNCHANGED <<card[k].host, card[k].gen, card[k].st, card[k].root, card[k].disposed,
                      card[k].pending, card[k].frames, card[k].done, card[k].bts,
                      card[k].retired, card[k].wait, card[k].cut>>
       /\ card'[k].seen = "no"
       /\ IF Judged(k) THEN card'[k].shown <=> ~card[k].shown ELSE UNCHANGED card[k].shown

LEMMA OpenRecordsDoes ==
  ASSUME Typed, OpenRecords
  PROVE  Kinds' /\ OpenRecordsStep
<1> DEFINE v(k) == IF Judged(k) THEN ~card[k].shown ELSE card[k].shown
           w(k) == [card[k] EXCEPT !.seen = "no", !.shown = v(k)]
<1>1. card \in [Cards -> CardRec] /\ card' = [k \in Cards |-> w(k)]
  BY DEF Typed, Kinds, OpenRecords
<1>2. ASSUME NEW k \in Cards
      PROVE  /\ w(k) \in CardRec
             /\ w(k).host = card[k].host /\ w(k).gen = card[k].gen /\ w(k).root = card[k].root
             /\ w(k).disposed = card[k].disposed /\ w(k).pending = card[k].pending
             /\ w(k).frames = card[k].frames /\ w(k).done = card[k].done /\ w(k).bts = card[k].bts
             /\ w(k).retired = card[k].retired /\ w(k).st = card[k].st
             /\ w(k).wait = card[k].wait /\ w(k).cut = card[k].cut
             /\ w(k).seen = "no" /\ (w(k).shown <=> v(k))
  <2>1. card[k] \in CardRec /\ "no" \in Sights
    BY <1>1 DEF Sights
  <2>2. v(k) \in BOOLEAN
    BY <2>1 DEF CardRec
  <2>3. w(k) \in CardRec
    <3> HIDE DEF v
    <3> QED  BY <2>1, <2>2, CardPut
  <2> HIDE DEF v
  <2> QED  BY <2>1, <2>2, <2>3 DEF CardRec
<1> HIDE DEF w
<1>3. card' \in [Cards -> CardRec] /\ \A k \in Cards : card'[k] = w(k)
  BY <1>1, <1>2
<1>4. \A k \in Cards :
       /\ UNCHANGED <<card[k].host, card[k].gen, card[k].st, card[k].root, card[k].disposed,
                      card[k].pending, card[k].frames, card[k].done, card[k].bts,
                      card[k].retired, card[k].wait, card[k].cut>>
       /\ card'[k].seen = "no"
       /\ IF Judged(k) THEN card'[k].shown <=> ~card[k].shown ELSE UNCHANGED card[k].shown
  <2> SUFFICES ASSUME NEW k \in Cards
               PROVE  /\ UNCHANGED <<card[k].host, card[k].gen, card[k].st, card[k].root, card[k].disposed,
                                     card[k].pending, card[k].frames, card[k].done, card[k].bts,
                                     card[k].retired, card[k].wait, card[k].cut>>
                      /\ card'[k].seen = "no"
                      /\ IF Judged(k) THEN card'[k].shown <=> ~card[k].shown ELSE UNCHANGED card[k].shown
    OBVIOUS
  <2>1. card'[k].shown <=> v(k)
    BY <1>2, <1>3
  <2>2. card[k].shown \in BOOLEAN /\ card'[k].shown \in BOOLEAN
    BY <1>1, <1>3 DEF CardRec
  <2>3. IF Judged(k) THEN card'[k].shown <=> ~card[k].shown ELSE UNCHANGED card[k].shown
    BY <2>1, <2>2
  <2> QED  BY <1>2, <1>3, <2>3
<1>5. /\ entry = "idle" /\ entry' = "listen" /\ changes' = {}
      /\ taken' = changes \cup {<<c, ~card[c].shown>> : c \in {k \in Cards : Judged(k)}}
      /\ UNCHANGED <<frame, jobs, stack, asked, flying, events, batch>>
  BY DEF OpenRecords, Enter
<1>6. taken' \subseteq Cards \X BOOLEAN
  <2>1. ASSUME NEW c \in Cards PROVE <<c, ~card[c].shown>> \in Cards \X BOOLEAN
    <3>1. (~card[c].shown) \in BOOLEAN
      BY Zenon
    <3> QED  BY <3>1, Zenon
  <2> DEFINE pair(c) == <<c, ~card[c].shown>>
             judged == {k \in Cards : Judged(k)}
  <2>2. \A c \in judged : pair(c) \in Cards \X BOOLEAN
    BY <2>1
  <2>3. taken' = changes \cup {pair(c) : c \in judged} /\ changes \subseteq Cards \X BOOLEAN
    BY <1>5 DEF Typed, Kinds
  <2> HIDE DEF pair, judged
  <2> QED  BY <2>2, <2>3
<1>7. Kinds'
  BY <1>3, <1>5, <1>6 DEF Typed, Kinds
<1> QED  BY <1>4, <1>5, <1>7 DEF OpenRecordsStep

Reached(c) == /\ <<c, TRUE>> \in taken \cup changes \/ <<c, FALSE>> \in taken \cup changes
              /\ card[c].root /\ Alive(c) /\ ~card[c].retired

(* The records are delivered: each card's flush is scheduled.              *)
RecordStep ==
  /\ entry = "listen" /\ entry' = "turn" /\ stack = <<>> /\ jobs = {}
  /\ changes' = {} /\ taken' = {} /\ UNCHANGED <<frame, stack, asked, flying>>
  /\ \A x \in jobs' : \E c \in Cards : x = <<"flush", c, 0>> /\ Reached(c)
  /\ \A c \in Cards : Reached(c) => <<"flush", c, 0>> \in jobs'
  /\ \A k \in Cards :
       /\ UNCHANGED <<card[k].host, card[k].gen, card[k].st, card[k].root, card[k].disposed,
                      card[k].pending, card[k].frames, card[k].done, card[k].bts,
                      card[k].retired, card[k].shown, card[k].seen, card[k].cut>>
       /\ card'[k].wait = IF Reached(k) /\ card[k].wait = "next" THEN "due" ELSE card[k].wait

LEMMA RecordDoes ==
  ASSUME Typed, Record
  PROVE  Kinds' /\ RecordStep
<1> DEFINE reached == {c \in Cards : /\ \E b \in BOOLEAN : <<c, b>> \in taken \cup changes
                                     /\ card[c].root /\ Alive(c) /\ ~card[c].retired}
           w(k) == IF k \in reached /\ card[k].wait = "next"
                   THEN [card[k] EXCEPT !.wait = "due"] ELSE card[k]
<1>1. /\ card \in [Cards -> CardRec] /\ card' = [k \in Cards |-> w(k)]
      /\ jobs' = {<<"flush", c, 0>> : c \in reached}
      /\ entry = "listen" /\ entry' = "turn" /\ stack = <<>> /\ jobs = {}
      /\ changes' = {} /\ taken' = {} /\ UNCHANGED <<frame, stack, asked, flying, events, batch>>
  BY DEF Typed, Kinds, Record, Quiet
<1>2. \A c \in Cards : c \in reached <=> Reached(c)
  BY DEF Reached
<1>3. ASSUME NEW k \in Cards
      PROVE  /\ w(k) \in CardRec
             /\ w(k).host = card[k].host /\ w(k).gen = card[k].gen /\ w(k).root = card[k].root
             /\ w(k).disposed = card[k].disposed /\ w(k).pending = card[k].pending
             /\ w(k).frames = card[k].frames /\ w(k).done = card[k].done /\ w(k).bts = card[k].bts
             /\ w(k).retired = card[k].retired /\ w(k).shown = card[k].shown
             /\ w(k).seen = card[k].seen /\ w(k).st = card[k].st /\ w(k).cut = card[k].cut
             /\ w(k).wait = IF k \in reached /\ card[k].wait = "next" THEN "due" ELSE card[k].wait
  <2> HIDE DEF reached
  <2>1. card[k] \in CardRec /\ "due" \in Waiting
    BY <1>1 DEF Waiting
  <2>2. w(k) \in CardRec
    BY <2>1, CardPut
  <2> QED  BY <2>1, <2>2 DEF CardRec
<1>4. \A c \in reached : c \in Cards
  OBVIOUS
<1> HIDE DEF reached, w
<1>5. card' \in [Cards -> CardRec] /\ \A k \in Cards : card'[k] = w(k)
  BY <1>1, <1>3
<1>6. jobs' \subseteq JobItems
  BY <1>1, <1>4 DEF JobItems
<1>7. Kinds'
  BY <1>1, <1>5, <1>6 DEF Typed, Kinds
<1>8. /\ \A x \in jobs' : \E c \in Cards : x = <<"flush", c, 0>> /\ Reached(c)
      /\ \A c \in Cards : Reached(c) => <<"flush", c, 0>> \in jobs'
  BY <1>1, <1>2, <1>4
<1>9. \A k \in Cards :
       /\ UNCHANGED <<card[k].host, card[k].gen, card[k].st, card[k].root, card[k].disposed,
                      card[k].pending, card[k].frames, card[k].done, card[k].bts,
                      card[k].retired, card[k].shown, card[k].seen, card[k].cut>>
       /\ card'[k].wait = IF Reached(k) /\ card[k].wait = "next" THEN "due" ELSE card[k].wait
  BY <1>2, <1>3, <1>5
<1> QED  BY <1>1, <1>7, <1>8, <1>9 DEF RecordStep

(* A load's source is here: its start is called if its realm is alive.     *)
FetchStep(r, g) ==
  /\ entry = "idle" /\ entry' = "turn" /\ <<r, g>> \in flying /\ flying' = flying \ {<<r, g>>}
  /\ UNCHANGED <<frame, card, jobs, asked, changes, taken>>
  /\ UNCHANGED stack \/ (Alive(r) /\ Pushed(<<"start", r, g>>, <<>>))

LEMMA FetchDoes ==
  ASSUME Typed, NEW r \in Realms, NEW g \in Nat, FetchLands(r, g)
  PROVE  Kinds' /\ FetchStep(r, g)
<1>1. /\ entry = "idle" /\ entry' = "turn" /\ <<r, g>> \in flying /\ flying' = flying \ {<<r, g>>}
      /\ UNCHANGED <<frame, card, jobs, asked, changes, taken, events, batch>>
      /\ UNCHANGED stack \/ (Alive(r) /\ stack' = <<<<"start", r, g>>>>)
  BY DEF FetchLands, Enter
<1>2. <<"start", r, g>> \in Items /\ <<>> \in Seq(Items)
  BY AnItem, NoCall
<1>3. <<<<"start", r, g>>>> = <<<<"start", r, g>>>> \o <<>>
  OBVIOUS
<1>4. stack' = <<<<"start", r, g>>>> => stack' \in Seq(Items) /\ Pushed(<<"start", r, g>>, <<>>)
  BY <1>2, <1>3, PushFacts
<1>5. stack' \in Seq(Items) /\ (UNCHANGED stack \/ (Alive(r) /\ Pushed(<<"start", r, g>>, <<>>)))
  BY <1>1, <1>4 DEF Typed, Kinds
<1>6. Kinds'
  BY <1>1, <1>5 DEF Typed, Kinds
<1> QED  BY <1>1, <1>5, <1>6 DEF FetchStep

(* A thread asked to go has gone.                                          *)
AckStep(c) ==
  /\ entry \in {"idle", "ended"} /\ stack = <<>> /\ jobs = {} /\ card[c].bts = "asked" /\ Alive(c)
  /\ entry' = (IF entry = "idle" THEN "turn" ELSE entry) /\ jobs' = {<<"closeRealm", c, 0>>}
  /\ UNCHANGED <<frame, stack, asked, flying, changes, taken>>
  /\ OtherCards(c) /\ card'[c].bts = "ended"
  /\ UNCHANGED <<card[c].host, card[c].gen, card[c].st, card[c].root, card[c].disposed,
                 card[c].pending, card[c].frames, card[c].done, card[c].retired, card[c].shown,
                 card[c].seen, card[c].wait, card[c].cut>>

(* A thread ends by itself.                                                *)
BtsStep(c) ==
  /\ entry = "idle" /\ entry' = "turn" /\ card[c].bts = "live" /\ Alive(c)
  /\ UNCHANGED <<frame, jobs, stack, asked, flying, changes, taken>>
  /\ OtherCards(c) /\ card'[c].bts = "ended"
  /\ UNCHANGED <<card[c].host, card[c].gen, card[c].st, card[c].root, card[c].disposed,
                 card[c].pending, card[c].frames, card[c].done, card[c].retired, card[c].shown,
                 card[c].seen, card[c].wait, card[c].cut>>

(* A thread's end changes a card in nothing else.                          *)
LEMMA EndedPut ==
  ASSUME Typed, NEW c \in Cards, card' = [card EXCEPT ![c].bts = "ended"]
  PROVE  /\ card' \in [Cards -> CardRec] /\ OtherCards(c) /\ card'[c].bts = "ended"
         /\ UNCHANGED <<card[c].host, card[c].gen, card[c].st, card[c].root, card[c].disposed,
                        card[c].pending, card[c].frames, card[c].done, card[c].retired, card[c].shown,
                        card[c].seen, card[c].wait, card[c].cut>>
<1> DEFINE w == [card[c] EXCEPT !.bts = "ended"]
<1>1. card \in [Cards -> CardRec] /\ card[c] \in CardRec /\ "ended" \in Threads
  BY DEF Typed, Kinds, Threads
<1>2. card' = [card EXCEPT ![c] = w]
  BY SMTT(30), <1>1
<1>3. w \in CardRec
  BY <1>1, CardPut
<1>4. /\ w.bts = "ended"
      /\ w.host = card[c].host /\ w.gen = card[c].gen /\ w.st = card[c].st /\ w.root = card[c].root
      /\ w.disposed = card[c].disposed /\ w.pending = card[c].pending /\ w.done = card[c].done
      /\ w.retired = card[c].retired /\ w.wait = card[c].wait /\ w.shown = card[c].shown
      /\ w.seen = card[c].seen /\ w.frames = card[c].frames /\ w.cut = card[c].cut
  BY <1>1 DEF CardRec
<1> HIDE DEF w
<1>5. card'[c] = w /\ OtherCards(c) /\ card' \in [Cards -> CardRec]
  BY <1>1, <1>2, <1>3 DEF OtherCards
<1> QED  BY <1>4, <1>5

LEMMA AckDoes ==
  ASSUME Typed, NEW c \in Cards, Acknowledged(c)
  PROVE  Kinds' /\ AckStep(c)
<1>1. /\ entry \in {"idle", "ended"} /\ stack = <<>> /\ jobs = {} /\ card[c].bts = "asked" /\ Alive(c)
      /\ entry' = (IF entry = "idle" THEN "turn" ELSE entry) /\ jobs' = {<<"closeRealm", c, 0>>}
      /\ UNCHANGED <<frame, stack, asked, flying, changes, taken, events, batch>>
      /\ card' = [card EXCEPT ![c].bts = "ended"]
  BY DEF Acknowledged, Quiet
<1>2. jobs' \subseteq JobItems
  BY <1>1 DEF JobItems
<1>3. Kinds'
  BY <1>1, <1>2, EndedPut DEF Typed, Kinds
<1> QED  BY <1>1, <1>3, EndedPut DEF AckStep

LEMMA BtsDoes ==
  ASSUME Typed, NEW c \in Cards, BtsEnds(c)
  PROVE  Kinds' /\ BtsStep(c)
<1>1. /\ entry = "idle" /\ entry' = "turn" /\ card[c].bts = "live" /\ Alive(c)
      /\ UNCHANGED <<frame, jobs, stack, asked, flying, changes, taken, events, batch>>
      /\ card' = [card EXCEPT ![c].bts = "ended"]
  BY DEF BtsEnds, Enter
<1>3. Kinds'
  BY <1>1, EndedPut DEF Typed, Kinds
<1> QED  BY <1>1, <1>3, EndedPut DEF BtsStep

(* The painter's visit sees a card.                                        *)
ObserveStep(c) ==
  /\ entry = "idle" /\ card[c].st = "booted" /\ card[c].root
  /\ UNCHANGED <<frame, jobs, stack, entry, asked, flying, changes, taken>>
  /\ OtherCards(c)
  /\ UNCHANGED <<card[c].host, card[c].gen, card[c].st, card[c].root, card[c].disposed,
                 card[c].pending, card[c].frames, card[c].done, card[c].bts, card[c].retired,
                 card[c].shown, card[c].wait, card[c].cut>>

LEMMA ObserveDoes ==
  ASSUME Typed, NEW c \in Cards, Observe(c)
  PROVE  Kinds' /\ ObserveStep(c)
<1> PICK v \in Sights : v = IF Connected[card[c].host] THEN "in" ELSE "out"
  BY DEF Sights
<1> DEFINE w == [card[c] EXCEPT !.seen = v]
<1>1. card \in [Cards -> CardRec] /\ card[c] \in CardRec
  BY DEF Typed, Kinds
<1>2. /\ card' = [card EXCEPT ![c] = w] /\ entry = "idle" /\ card[c].st = "booted" /\ card[c].root
      /\ UNCHANGED <<frame, jobs, stack, entry, asked, flying, changes, taken, events, batch>>
  BY <1>1 DEF Observe
<1>3. w \in CardRec
  BY <1>1, CardPut
<1>4. /\ w.bts = card[c].bts
      /\ w.host = card[c].host /\ w.gen = card[c].gen /\ w.st = card[c].st /\ w.root = card[c].root
      /\ w.disposed = card[c].disposed /\ w.pending = card[c].pending /\ w.done = card[c].done
      /\ w.retired = card[c].retired /\ w.wait = card[c].wait /\ w.shown = card[c].shown
      /\ w.frames = card[c].frames /\ w.cut = card[c].cut
  BY <1>1 DEF CardRec
<1> HIDE DEF w
<1>5. card'[c] = w /\ OtherCards(c) /\ card' \in [Cards -> CardRec]
  BY <1>1, <1>2, <1>3 DEF OtherCards
<1>6. Kinds'
  BY <1>2, <1>5 DEF Typed, Kinds
<1> QED  BY <1>2, <1>4, <1>5, <1>6 DEF ObserveStep

(* The view ends: the page's frame is closed without a word.               *)
BeginStep ==
  /\ entry = "idle" /\ entry' = "ended"
  /\ UNCHANGED <<frame, card, jobs, asked, flying, changes, taken>>
  /\ \E t \in Seq(Items) :
       /\ Within(t) = {<<"askPage", Page, 0>>}
       /\ \A these : Count(t, these) = If(<<"askPage", Page, 0>>, these)
       /\ t # <<>> /\ Head(t) = <<"askPage", Page, 0>> /\ Len(t) = 1
       /\ IF frame[Page].loaded THEN Pushed(<<"close", Page, "nothing">>, t) ELSE stack' = t

LEMMA BeginDoes ==
  ASSUME Typed, BeginDispose
  PROVE  Kinds' /\ BeginStep
<1> DEFINE a == <<"askPage", Page, 0>>
           b == <<"close", Page, "nothing">>
<1>1. a \in Items /\ b \in Items /\ <<>> \in Seq(Items)
  <2>1. Page \in Realms /\ "askPage" \in Bares
    BY AnItem DEF Bares
  <2> HIDE DEF a, b
  <2>2. a \in Items
    BY <2>1, AnItem DEF a
  <2>3. b \in Items
    BY <2>1, AnItem DEF b
  <2> QED  BY <2>2, <2>3, NoCall
<1>2. /\ stack' = (IF frame[Page].loaded THEN <<b>> ELSE <<>>) \o <<a>>
      /\ entry = "idle" /\ entry' = "ended"
      /\ UNCHANGED <<frame, card, jobs, asked, flying, changes, taken, events, batch>>
  BY DEF BeginDispose
<1> DEFINE t == <<a>>
<1> HIDE DEF a, b
<1>3. /\ t \in Seq(Items) /\ t # <<>> /\ Head(t) = a /\ Len(t) = 1 /\ Within(t) = {a}
      /\ \A these : Count(t, these) = If(a, these)
  <2>1. \A these : Count(<<a>>, these) = If(a, these)
    BY <1>1, CountOne
  <2>2. Within(<<a>>) = {a}
    BY DEF Within
  <2> QED  BY <1>1, <2>1, <2>2
<1>4. stack' = IF frame[Page].loaded THEN <<b>> \o t ELSE t
  <2>1. CASE frame[Page].loaded
    BY <1>2, <2>1
  <2>2. CASE ~frame[Page].loaded
    <3>1. <<>> \o <<a>> = <<a>>
      BY <1>1
    <3> QED  BY <1>2, <2>2, <3>1
  <2> QED  BY <2>1, <2>2
<1> HIDE DEF t
<1>5. /\ stack' \in Seq(Items)
      /\ IF frame[Page].loaded THEN Pushed(b, t) ELSE stack' = t
  BY <1>1, <1>3, <1>4, PushFacts
<1>6. Kinds'
  BY <1>2, <1>5 DEF Typed, Kinds
<1>7. /\ t \in Seq(Items) /\ Within(t) = {<<"askPage", Page, 0>>}
      /\ \A these : Count(t, these) = If(<<"askPage", Page, 0>>, these)
      /\ t # <<>> /\ Head(t) = <<"askPage", Page, 0>> /\ Len(t) = 1
      /\ IF frame[Page].loaded THEN Pushed(<<"close", Page, "nothing">>, t) ELSE stack' = t
  BY <1>3, <1>5 DEF a, b
<1> QED  BY <1>2, <1>6, <1>7 DEF BeginStep

(* What a script may do: it runs in a realm that is alive.                 *)
AppRuns(r) == /\ Alive(r) /\ FrameLives(r) /\ (r # Page => card[r].st \in {"booting", "booted"})
              /\ \/ stack = <<>> /\ NoFlush /\ entry \in {"turn", "listen"}
                 \/ stack # <<>> /\ Top[1] = "loading"

(* A write of src loads the frame, or closes it for its reset first.       *)
SetSrcStep(r, s) ==
  /\ AppRuns(r) /\ s # frame[r].src
  /\ UNCHANGED <<card, jobs>> /\ SameLinks
  /\ IF frame[r].src = NoSrc THEN Pushed(<<"source", r, s>>, stack) /\ UNCHANGED frame
     ELSE /\ Others(r) /\ frame'[r].owed = frame[r].owed + 1
          /\ UNCHANGED <<frame[r].gen, frame[r].src, frame[r].loaded, frame[r].realm,
                         frame[r].dispose, frame[r].after, frame[r].late>>
          /\ \E t \in Seq(Items) :
               /\ Pushed(<<"close", r, "reset">>, t) /\ t = <<<<"source", r, s>>>> \o stack

LEMMA SetSrcDoes ==
  ASSUME Typed, NEW r \in Realms, NEW s \in Srcs, SetSrc(r, s)
  PROVE  Kinds' /\ SetSrcStep(r, s)
<1> DEFINE a == <<"source", r, s>>
           b == <<"close", r, "reset">>
<1>1. a \in Items /\ b \in Items
  BY AnItem
<1>2. stack \in Seq(Items) /\ frame \in [Realms -> FrameRec] /\ frame[r] \in FrameRec
  BY DEF Typed, Kinds
<1>3. /\ AppRuns(r) /\ s # frame[r].src /\ UNCHANGED <<card, jobs>> /\ SameLinks
      /\ IF frame[r].src = NoSrc THEN stack' = <<a>> \o stack /\ UNCHANGED frame
         ELSE stack' = <<b, a>> \o stack /\ frame' = [frame EXCEPT ![r].owed = @ + 1]
  BY DEF SetSrc, AppMayRun, AppRuns, Flushed, NoFlush, SameLinks
<1> HIDE DEF a, b
<1>4. CASE frame[r].src = NoSrc
  <2>1. stack' \in Seq(Items) /\ Pushed(a, stack)
    BY <1>1, <1>2, <1>3, <1>4, PushFacts
  <2>2. Kinds'
    BY <1>3, <1>4, <2>1 DEF Typed, Kinds, SameLinks
  <2> QED  BY <1>3, <1>4, <2>1, <2>2 DEF SetSrcStep, a
<1>5. CASE frame[r].src # NoSrc
  <2> DEFINE y == [frame[r] EXCEPT !.owed = frame[r].owed + 1]
             t == <<a>> \o stack
  <2>1. t \in Seq(Items)
    BY <1>1, <1>2, Push
  <2>2. <<b, a>> \o stack = <<b>> \o (<<a>> \o stack)
    <3> PICK S : S = Items
      OBVIOUS
    <3>1. a \in S
      BY <1>1
    <3>2. b \in S
      BY <1>1
    <3>3. stack \in Seq(S)
      BY <1>2
    <3> QED  BY SMTT(30), <3>1, <3>2, <3>3, Pair
  <2>3. stack' = <<b>> \o t
    BY <1>3, <1>5, <2>2
  <2>4. t = <<<<"source", r, s>>>> \o stack
    BY DEF a
  <2> HIDE DEF t
  <2>5. stack' \in Seq(Items) /\ Pushed(b, t)
    BY <1>1, <2>1, <2>3, PushFacts
  <2>6. frame' = [frame EXCEPT ![r] = y]
    BY <1>2, <1>3, <1>5
  <2>7. y \in FrameRec
    <3>1. frame[r].owed + 1 \in Int
      BY <1>2 DEF FrameRec
    <3> QED  BY <1>2, <3>1, FramePut
  <2>8. /\ y.owed = frame[r].owed + 1 /\ y.gen = frame[r].gen /\ y.src = frame[r].src
        /\ y.loaded = frame[r].loaded /\ y.realm = frame[r].realm /\ y.dispose = frame[r].dispose
        /\ y.after = frame[r].after /\ y.late = frame[r].late
    BY <1>2 DEF FrameRec
  <2> HIDE DEF y
  <2>9. Others(r) /\ frame'[r] = y /\ frame' \in [Realms -> FrameRec]
    BY <1>2, <2>6, <2>7 DEF Others
  <2>10. Kinds'
    BY <1>3, <2>5, <2>9 DEF Typed, Kinds, SameLinks
  <2>11. \E u \in Seq(Items) : Pushed(<<"close", r, "reset">>, u) /\ u = <<<<"source", r, s>>>> \o stack
    BY <2>1, <2>4, <2>5 DEF b
  <2> QED  BY <1>3, <1>5, <2>8, <2>9, <2>10, <2>11 DEF SetSrcStep
<1> QED  BY <1>4, <1>5

(* A node moves.                                                           *)
MoveStep(r) ==
  /\ AppRuns(r)
  /\ UNCHANGED <<card, jobs, stack, entry, asked, flying, changes, taken, batch>>
  /\ \A q \in Realms :
       UNCHANGED <<frame[q].gen, frame[q].src, frame[q].loaded, frame[q].realm,
                   frame[q].dispose, frame[q].owed, frame[q].after, frame[q].late>>

LEMMA MoveDoes ==
  ASSUME Typed, NEW r \in Realms, Move(r)
  PROVE  Kinds' /\ MoveStep(r)
<1> DEFINE inner == {c \in Under(r) : frame[c].attached}
           n == Cardinality(inner)
<1> PICK to \in BOOLEAN : to <=> ~frame[r].attached
  <2>1. CASE frame[r].attached
    <3> WITNESS FALSE \in BOOLEAN
    <3> QED  BY <2>1
  <2>2. CASE ~frame[r].attached
    <3> WITNESS TRUE \in BOOLEAN
    <3> QED  BY <2>2
  <2> QED  BY <2>1, <2>2
<1> DEFINE y == [frame[r] EXCEPT !.attached = to]
<1>1. frame \in [Realms -> FrameRec] /\ frame[r] \in FrameRec /\ events \in Seq(Realms \X BOOLEAN)
  BY DEF Typed, Kinds
<1>2. to = ~frame[r].attached
  BY Zenon
<1>3. /\ AppRuns(r)
      /\ UNCHANGED <<card, jobs, stack, entry, asked, flying, changes, taken, batch>>
      /\ frame' = [frame EXCEPT ![r].attached = to]
      /\ \/ UNCHANGED events
         \/ \E along \in [1..n -> inner] :
              events' = events \o <<<<r, to>>>> \o [i \in DOMAIN along |-> <<along[i], to>>]
  BY <1>2 DEF Move, AppMayRun, AppRuns, Flushed, NoFlush
<1>4. y \in FrameRec /\ frame' = [frame EXCEPT ![r] = y]
  BY <1>1, <1>3, FramePut
<1>5. /\ y.gen = frame[r].gen /\ y.src = frame[r].src
      /\ y.loaded = frame[r].loaded /\ y.realm = frame[r].realm /\ y.dispose = frame[r].dispose
      /\ y.after = frame[r].after /\ y.late = frame[r].late /\ y.owed = frame[r].owed
  BY <1>1 DEF FrameRec
<1> HIDE DEF y
<1>6. Others(r) /\ frame'[r] = y /\ frame' \in [Realms -> FrameRec]
  BY <1>1, <1>4 DEF Others
<1>7. n \in Nat /\ inner \subseteq Realms
  <2>1. inner \subseteq Cards /\ Cards \subseteq Realms
    BY AnItem DEF Under
  <2>2. IsFiniteSet(Cards)
    BY FS_Interval DEF Typed, FramesAssumption, Cards
  <2> QED  BY <2>1, <2>2, FS_Subset, FS_CardinalityType
<1>8. events' \in Seq(Realms \X BOOLEAN)
  <2>1. CASE UNCHANGED events
    BY <1>1, <2>1
  <2>2. CASE \E along \in [1..n -> inner] :
              events' = events \o <<<<r, to>>>> \o [i \in DOMAIN along |-> <<along[i], to>>]
    <3> HIDE DEF inner, n
    <3> PICK along \in [1..n -> inner] :
              events' = events \o <<<<r, to>>>> \o [i \in DOMAIN along |-> <<along[i], to>>]
      BY <2>2
    <3> DEFINE e == <<<<r, to>>>>
               f == [i \in DOMAIN along |-> <<along[i], to>>]
    <3>1. e \in Seq(Realms \X BOOLEAN)
      OBVIOUS
    <3>2. f \in Seq(Realms \X BOOLEAN)
      <4>1. f \in [1..n -> Realms \X BOOLEAN]
        BY <1>7
      <4> HIDE DEF f
      <4> QED  BY <1>7, <4>1
    <3> DEFINE g == events \o e
    <3>3. events' = g \o f
      OBVIOUS
    <3> HIDE DEF e, f
    <3>4. g \in Seq(Realms \X BOOLEAN)
      BY <1>1, <3>1, Joined
    <3> HIDE DEF g
    <3> PICK S : S = Realms \X BOOLEAN
      OBVIOUS
    <3>5. g \in Seq(S) /\ f \in Seq(S)
      BY <3>2, <3>4
    <3>6. g \o f \in Seq(S)
      BY <3>5
    <3> QED  BY <3>3, <3>6
  <2> QED  BY <1>3, <2>1, <2>2
<1>9. Kinds'
  BY <1>3, <1>6, <1>8 DEF Typed, Kinds
<1> QED  BY <1>3, <1>5, <1>6, <1>9 DEF MoveStep, Others


-----------------------------------------------------------------------------
(* All the steps there are.                                                *)

(* Every step the specification takes does one of these.                   *)
Does ==
  \/ \E r \in Realms, s \in Srcs : SourceStep(r, s) \/ SetSrcStep(r, s)
  \/ \E r \in Realms, g \in Nat : StartStep(r, g) \/ RunStartStep(r, g) \/ FetchStep(r, g)
  \/ \E r \in Realms, d \in Conts : CloseStep(r, d) /\ (d = "frames" => r \in Cards)
  \/ \E r \in Realms : ResetStep(r) \/ IdleStep(r) \/ HearStep(r) \/ MoveStep(r)
  \/ \E c \in Cards : \/ BootStep(c) \/ LoadedStep(c) \/ DisposeStep(c) \/ OwingStep(c)
                      \/ FramesStep(c) \/ RecordsStep(c) \/ ArriveStep(c) \/ FlushStep(c)
  \/ \E c \in Cards : CloseRealmStep(c) \/ AckStep(c) \/ BtsStep(c) \/ ObserveStep(c)
  \/ HeardStep \/ EpilogueStep \/ OpenStep \/ OpenEventsStep
  \/ OpenRecordsStep \/ RecordStep \/ BeginStep

(* The steps of Next, an action at a time.                                 *)
LEMMA Steps ==
  ASSUME Typed, Next
  PROVE  Kinds' /\ Does
<1>1. CASE Calls
  <2>1. stack # <<>>
    BY ZenonT(60), <1>1 DEF Calls, Source, Start, Loaded, Close, Reset, Nothing, Dispose, Owing, FramesArrive,
                AwaitRecords, Arrive, AskPage
  <2> DEFINE r == Top[2]
  <2>2. /\ Top = <<Top[1], r, Top[3]>> /\ r \in Realms
        /\ Top[1] = "source" => Top[3] \in Srcs
        /\ Top[1] = "start" => Top[3] \in Nat
        /\ Top[1] = "close" => Top[3] \in Conts /\ (Top[3] = "frames" => r \in Cards)
        /\ Top[1] \in Bares \cup CardCalls => Top[3] = 0
        /\ Top[1] \in CardCalls => r \in Cards
    BY <2>1, TopFacts
  <2> HIDE DEF r
  <2>3. CASE Source
    <3> PICK s \in Srcs : s = Top[3]
      BY <2>2, <2>3 DEF Source
    <3>1. At("source", r, s)
      BY <2>1, <2>2, <2>3 DEF Source, At
    <3> QED  BY <2>2, <2>3, <3>1, SourceDoes DEF Does
  <2>4. CASE Start
    <3> PICK g \in Nat : g = Top[3]
      BY ZenonT(60), <2>2, <2>4 DEF Start
    <3>1. At("start", r, g)
      BY <2>1, <2>2, <2>4 DEF Start, At
    <3> QED  BY SMTT(30), <2>2, <2>4, <3>1, StartDoes DEF Does
  <2>5. CASE Close
    <3> PICK d \in Conts : d = Top[3]
      BY <2>2, <2>5 DEF Close
    <3>1. At("close", r, d) /\ (d = "frames" => r \in Cards)
      BY <2>1, <2>2, <2>5 DEF Close, At
    <3> QED  BY <2>2, <2>5, <3>1, CloseDoes DEF Does
  <2>6. CASE Reset
    <3>1. At("reset", r, 0)
      BY <2>1, <2>2, <2>6 DEF Reset, At, Bares
    <3> QED  BY SMTT(30), <2>2, <2>6, <3>1, ResetDoes DEF Does
  <2>7. CASE Nothing
    <3>1. At("nothing", r, 0)
      BY <2>1, <2>2, <2>7 DEF Nothing, At, Bares
    <3> QED  BY <2>2, <2>7, <3>1, IdleCallDoes DEF Does
  <2>8. CASE AskPage
    <3>1. At("askPage", r, 0)
      BY <2>1, <2>2, <2>8 DEF AskPage, At, Bares
    <3> QED  BY <2>2, <2>8, <3>1, IdleCallDoes DEF Does
  <2>9. CASE Loaded
    <3>1. At("loading", r, 0) /\ r \in Cards
      BY <2>1, <2>2, <2>9 DEF Loaded, At, CardCalls
    <3> QED  BY <2>9, <3>1, LoadedDoes DEF Does
  <2>10. CASE Dispose
    <3>1. At("dispose", r, 0) /\ r \in Cards
      BY <2>1, <2>2, <2>10 DEF Dispose, At, CardCalls
    <3> QED  BY <2>10, <3>1, DisposeDoes DEF Does
  <2>11. CASE Owing
    <3>1. At("owing", r, 0) /\ r \in Cards
      BY <2>1, <2>2, <2>11 DEF Owing, At, CardCalls
    <3> QED  BY <2>11, <3>1, OwingDoes DEF Does
  <2>12. CASE FramesArrive
    <3>1. At("frames", r, 0) /\ r \in Cards
      BY <2>1, <2>2, <2>12 DEF FramesArrive, At, CardCalls
    <3> QED  BY <2>12, <3>1, FramesDoes DEF Does
  <2>13. CASE AwaitRecords
    <3>1. At("records", r, 0) /\ r \in Cards
      BY <2>1, <2>2, <2>13 DEF AwaitRecords, At, CardCalls
    <3> QED  BY <2>13, <3>1, RecordsDoes DEF Does
  <2>14. CASE Arrive
    <3>1. At("arrive", r, 0) /\ r \in Cards
      BY <2>1, <2>2, <2>14 DEF Arrive, At, CardCalls
    <3> QED  BY <2>14, <3>1, ArriveDoes DEF Does
  <2> QED  BY SMTT(30),
              <1>1, <2>3, <2>4, <2>5, <2>6, <2>7, <2>8, <2>9, <2>10, <2>11, <2>12, <2>13, <2>14 DEF Calls
<1>2. CASE Jobs
  <2>1. ASSUME NEW c \in Cards, Boot(c) PROVE Kinds' /\ Does
    BY <2>1, BootDoes DEF Does
  <2>2. ASSUME NEW c \in Cards, Flush(c) PROVE Kinds' /\ Does
    BY <2>2, FlushDoes DEF Does
  <2>3. ASSUME NEW c \in Cards, CloseRealm(c) PROVE Kinds' /\ Does
    BY <2>3, CloseRealmDoes DEF Does
  <2>4. ASSUME NEW r \in Realms, NEW g \in 0..frame[r].gen, RunStart(r, g) PROVE Kinds' /\ Does
    <3>1. g \in Nat
      BY DEF Typed, Kinds, FrameRec
    <3> QED  BY <2>4, <3>1, RunStartDoes DEF Does
  <2> QED  BY <1>2, <2>1, <2>2, <2>3, <2>4 DEF Jobs
<1>3. CASE Entries
  <2>1. CASE OpenEvents
    BY <2>1, OpenEventsDoes DEF Does
  <2>2. CASE Hear
    BY <2>2, HearDoes DEF Does
  <2>3. CASE Heard
    BY <2>3, HeardDoes DEF Does
  <2>4. CASE OpenRecords
    BY <2>4, OpenRecordsDoes DEF Does
  <2>5. CASE Record
    BY <2>5, RecordDoes DEF Does
  <2>6. CASE Epilogue
    BY <2>6, EpilogueDoes DEF Does
  <2>7. ASSUME NEW c \in Cards, Acknowledged(c) PROVE Kinds' /\ Does
    BY <2>7, AckDoes DEF Does
  <2>8. ASSUME NEW r \in Realms, NEW g \in 0..frame[r].gen, FetchLands(r, g) PROVE Kinds' /\ Does
    <3>1. g \in Nat
      BY DEF Typed, Kinds, FrameRec
    <3> QED  BY <2>8, <3>1, FetchDoes DEF Does
  <2> QED  BY <1>3, <2>1, <2>2, <2>3, <2>4, <2>5, <2>6, <2>7, <2>8 DEF Entries
<1>4. CASE App
  <2>1. ASSUME NEW r \in Realms, Move(r) PROVE Kinds' /\ Does
    BY <2>1, MoveDoes DEF Does
  <2>2. ASSUME NEW r \in Realms, NEW s \in Srcs, SetSrc(r, s) PROVE Kinds' /\ Does
    BY <2>2, SetSrcDoes DEF Does
  <2> QED  BY <1>4, <2>1, <2>2 DEF App
<1>5. CASE OpenTurn
  BY <1>5, OpenDoes DEF Does
<1>6. CASE BeginDispose
  BY <1>6, BeginDoes DEF Does
<1>7. CASE \E c \in Cards : BtsEnds(c) \/ Observe(c)
  BY <1>7, BtsDoes, ObserveDoes DEF Does
<1> QED  BY <1>1, <1>2, <1>3, <1>4, <1>5, <1>6, <1>7 DEF Next


-----------------------------------------------------------------------------
(* The cards that are not made.                                            *)

(* Cards that are not made stay out of it.                                 *)
LEMMA MadeKept ==
  ASSUME Typed, Kinds', Does
  PROVE  Made'
<1> USE AnItem
<1>1. ASSUME NEW r \in Realms, NEW s \in Srcs, SourceStep(r, s) PROVE Made'
  BY <1>1 DEF SourceStep, Others, OtherCards, SameLinks, SameLoads, Freeing, Typed, Made
<1>2. ASSUME NEW r \in Realms, NEW s \in Srcs, SetSrcStep(r, s) PROVE Made'
  BY SMTT(30), <1>2 DEF SetSrcStep, Others, OtherCards, SameLinks, SameLoads, Freeing, Typed, Made
<1>3. ASSUME NEW r \in Realms, NEW g \in Nat, StartStep(r, g) PROVE Made'
  BY <1>3 DEF StartStep, Others, OtherCards, SameLinks, SameLoads, Freeing, Typed, Made
<1>4. ASSUME NEW r \in Realms, NEW g \in Nat, RunStartStep(r, g) PROVE Made'
  BY <1>4 DEF RunStartStep, Others, OtherCards, SameLinks, SameLoads, Freeing, Typed, Made
<1>5. ASSUME NEW r \in Realms, NEW g \in Nat, FetchStep(r, g) PROVE Made'
  BY <1>5 DEF FetchStep, Others, OtherCards, SameLinks, SameLoads, Freeing, Typed, Made
<1>6. ASSUME NEW r \in Realms, NEW d \in Conts, d = "frames" => r \in Cards, CloseStep(r, d) PROVE Made'
  <2>1. \A q \in Realms, k \in Cards : frame'[q].dispose = k => frame[q].dispose = k
    BY <1>6 DEF CloseStep, Others
  <2>2. CASE frame[r].dispose = 0
    <3>1. UNCHANGED <<card, jobs>> /\ SameLinks
      BY <1>6, <2>2 DEF CloseStep
    <3> QED  BY <2>1, <3>1 DEF SameLinks, Typed, Made
  <2>3. CASE frame[r].dispose # 0
    <3>1. PICK c \in Cards :
            /\ frame[r].dispose = c /\ OtherCards(c) /\ card'[c].done = d
            /\ UNCHANGED <<card[c].host, card[c].st>>
      BY <1>6, <2>3 DEF CloseStep
    <3>2. card[c].st # "unmade" /\ card[c].host = r
      BY <3>1 DEF Typed, Made
    <3>3. jobs' = jobs /\ SameLinks
      BY <1>6 DEF CloseStep
    <3> QED  BY <1>6, <2>1, <3>1, <3>2, <3>3 DEF OtherCards, SameLinks, Typed, Made
  <2> QED  BY <2>2, <2>3
<1>7. ASSUME NEW r \in Realms, ResetStep(r) PROVE Made'
  BY <1>7 DEF ResetStep, Others, OtherCards, SameLinks, SameLoads, Freeing, Typed, Made
<1>8. ASSUME NEW r \in Realms, IdleStep(r) PROVE Made'
  BY <1>8 DEF IdleStep, Others, OtherCards, SameLinks, SameLoads, Freeing, Typed, Made
<1>9. ASSUME NEW r \in Realms, HearStep(r) PROVE Made'
  BY <1>9 DEF HearStep, Others, OtherCards, SameLinks, SameLoads, Freeing, Typed, Made
<1>10. ASSUME NEW r \in Realms, MoveStep(r) PROVE Made'
  BY <1>10 DEF MoveStep, Others, OtherCards, SameLinks, SameLoads, Freeing, Typed, Made
<1>11. ASSUME NEW c \in Cards, BootStep(c) PROVE Made'
  BY <1>11 DEF BootStep, Others, OtherCards, SameLinks, SameLoads, Freeing, Typed, Made
<1>12. ASSUME NEW c \in Cards, LoadedStep(c) PROVE Made'
  BY <1>12 DEF LoadedStep, Others, OtherCards, SameLinks, SameLoads, Freeing, Typed, Made
<1>13. ASSUME NEW c \in Cards, DisposeStep(c) PROVE Made'
  <2>1. /\ \A k \in Cards : UNCHANGED <<card[k].host, card[k].st, card[k].done>>
        /\ UNCHANGED <<frame, jobs, entry, batch>>
    BY <1>13 DEF DisposeStep, OtherCards
  <2> QED  BY <2>1 DEF Typed, Made
<1>14. ASSUME NEW c \in Cards, OwingStep(c) PROVE Made'
  BY <1>14 DEF OwingStep, Others, OtherCards, SameLinks, SameLoads, Freeing, Typed, Made
<1>15. ASSUME NEW c \in Cards, FramesStep(c) PROVE Made'
  BY <1>15 DEF FramesStep, Others, OtherCards, SameLinks, SameLoads, Freeing, Typed, Made
<1>16. ASSUME NEW c \in Cards, RecordsStep(c) PROVE Made'
  BY <1>16 DEF RecordsStep, Others, OtherCards, SameLinks, SameLoads, Freeing, Typed, Made
<1>17. ASSUME NEW c \in Cards, ArriveStep(c) PROVE Made'
  BY <1>17 DEF ArriveStep, Others, OtherCards, SameLinks, SameLoads, Freeing, Typed, Made
<1>18. ASSUME NEW c \in Cards, FlushStep(c) PROVE Made'
  BY <1>18 DEF FlushStep, Others, OtherCards, SameLinks, SameLoads, Freeing, Typed, Made
<1>19. ASSUME NEW c \in Cards, CloseRealmStep(c) PROVE Made'
  BY <1>19 DEF CloseRealmStep, Others, OtherCards, SameLinks, SameLoads, Freeing, Typed, Made
<1>20. ASSUME NEW c \in Cards, AckStep(c) PROVE Made'
  BY <1>20 DEF AckStep, Others, OtherCards, SameLinks, SameLoads, Freeing, Typed, Made
<1>21. ASSUME NEW c \in Cards, BtsStep(c) PROVE Made'
  BY <1>21 DEF BtsStep, Others, OtherCards, SameLinks, SameLoads, Freeing, Typed, Made
<1>22. ASSUME NEW c \in Cards, ObserveStep(c) PROVE Made'
  BY <1>22 DEF ObserveStep, Others, OtherCards, SameLinks, SameLoads, Freeing, Typed, Made
<1>23. CASE HeardStep
  BY <1>23 DEF HeardStep, Others, OtherCards, SameLinks, SameLoads, Freeing, Typed, Made
<1>24. CASE EpilogueStep
  BY <1>24 DEF EpilogueStep, Others, OtherCards, SameLinks, SameLoads, Freeing, Typed, Made
<1>25. CASE OpenStep
  BY <1>25 DEF OpenStep, Others, OtherCards, SameLinks, SameLoads, Freeing, Typed, Made
<1>26. CASE OpenEventsStep
  BY <1>26 DEF OpenEventsStep, Others, OtherCards, SameLinks, SameLoads, Freeing, Typed, Made
<1>27. CASE OpenRecordsStep
  BY <1>27 DEF OpenRecordsStep, Others, OtherCards, SameLinks, SameLoads, Freeing, Typed, Made
<1>28. CASE RecordStep
  BY <1>28 DEF RecordStep, Others, OtherCards, SameLinks, SameLoads, Freeing, Typed, Made
<1>29. CASE BeginStep
  BY <1>29 DEF BeginStep, Others, OtherCards, SameLinks, SameLoads, Freeing, Typed, Made
<1> QED  BY <1>1, <1>2, <1>3, <1>4, <1>5, <1>6, <1>7, <1>8, <1>9, <1>10, <1>11, <1>12, <1>13,
            <1>14, <1>15, <1>16, <1>17, <1>18, <1>19, <1>20, <1>21, <1>22, <1>23, <1>24, <1>25,
            <1>26, <1>27, <1>28, <1>29 DEF Does


-----------------------------------------------------------------------------
(* How the calls of frame.ts and frame-boot.ts nest.                       *)

(* The calls that may lie below another.                                   *)
Deep == {"source", "start", "loading", "owing", "frames", "arrive", "records", "askPage"}
Sources == {"source"} \X Realms \X Srcs

(* How calls lie on the stack: a load's listeners are the bottom call, and *)
(* what a card owes is looked up before its list is waited for.            *)
Nested(s) == \A i \in 1..Len(s) :
    /\ s[i][1] = "loading" => i = Len(s)
    /\ s[i][1] = "owing" => i < Len(s) /\ s[i + 1] = <<"frames", s[i][2], 0>>
Shape ==
  /\ Nested(stack)
  /\ stack # <<>> => \A x \in Within(Pop) : x[1] \in Deep
  /\ Count(stack, Sources) <= 1

(* A call pushed on a well nested stack.                                   *)
LEMMA NestedPush ==
  ASSUME NEW a \in Items, NEW t \in Seq(Items), Nested(t), a[1] # "loading",
         a[1] = "owing" => t # <<>> /\ Head(t) = <<"frames", a[2], 0>>
  PROVE  Nested(<<a>> \o t)
<1> DEFINE w == <<a>> \o t
<1>1. /\ Len(w) = Len(t) + 1 /\ w[1] = a /\ Len(t) \in Nat
      /\ \A i \in 1..Len(t) : w[i + 1] = t[i]
  BY Push
<1>2. t # <<>> => Head(t) = t[1] /\ Len(t) >= 1
  OBVIOUS
<1> HIDE DEF w
<1>3. ASSUME NEW i \in 1..Len(w)
      PROVE  /\ w[i][1] = "loading" => i = Len(w)
             /\ w[i][1] = "owing" => i < Len(w) /\ w[i + 1] = <<"frames", w[i][2], 0>>
  <2>1. CASE i = 1
    <3>1. w[i] = a
      BY <1>1, <2>1
    <3>2. CASE a[1] = "owing"
      <4>1. 1 \in 1..Len(t) /\ t[1] = <<"frames", a[2], 0>>
        BY <1>1, <1>2, <3>2
      <4> QED  BY <1>1, <2>1, <3>1, <4>1
    <3>3. CASE a[1] # "owing"
      BY <3>1, <3>3
    <3> QED  BY <3>2, <3>3
  <2>2. CASE i # 1
    <3>1. i - 1 \in 1..Len(t) /\ (i - 1) + 1 = i
      BY <1>1, <2>2
    <3> PICK j \in 1..Len(t) : j = i - 1
      BY <3>1
    <3>2. w[i] = t[j] /\ i = j + 1
      BY <1>1, <3>1
    <3>3. /\ t[j][1] = "loading" => j = Len(t)
          /\ t[j][1] = "owing" => j < Len(t) /\ t[j + 1] = <<"frames", t[j][2], 0>>
      BY DEF Nested
    <3>4. j < Len(t) => j + 1 \in 1..Len(t)
      BY <1>1
    <3>5. j < Len(t) => w[i + 1] = t[j + 1]
      BY <1>1, <3>2, <3>4
    <3> QED  BY <1>1, <3>2, <3>3, <3>5
  <2> QED  BY <2>1, <2>2
<1>4. Nested(w)
  BY <1>3 DEF Nested
<1> QED  BY <1>4 DEF w

(* What is below the top is well nested.                                   *)
LEMMA NestedPop ==
  ASSUME NEW s \in Seq(Items), s # <<>>, Nested(s)
  PROVE  /\ Nested(Tail(s)) /\ Tail(s) \in Seq(Items)
         /\ Head(s)[1] = "loading" => Tail(s) = <<>>
         /\ Head(s)[1] = "owing" => Tail(s) # <<>> /\ Head(Tail(s)) = <<"frames", Head(s)[2], 0>>
<1> DEFINE t == Tail(s)
<1>1. /\ t \in Seq(Items) /\ Head(s) = s[1] /\ Len(s) = Len(t) + 1 /\ Len(t) \in Nat
      /\ \A i \in 1..Len(t) : t[i] = s[i + 1]
  BY Split
<1>2. t # <<>> => Head(t) = t[1] /\ Len(t) >= 1
  BY <1>1
<1> HIDE DEF t
<1>3. Len(t) = 0 => t = <<>>
  <2> PICK S : S = Items
    OBVIOUS
  <2>1. t \in Seq(S)
    BY <1>1
  <2> QED  BY <2>1
<1>4. ASSUME NEW i \in 1..Len(t)
      PROVE  /\ t[i][1] = "loading" => i = Len(t)
             /\ t[i][1] = "owing" => i < Len(t) /\ t[i + 1] = <<"frames", t[i][2], 0>>
  <2>1. i + 1 \in 1..Len(s) /\ t[i] = s[i + 1]
    BY <1>1
  <2>2. /\ t[i][1] = "loading" => i + 1 = Len(s)
        /\ t[i][1] = "owing" => i + 1 < Len(s) /\ s[(i + 1) + 1] = <<"frames", t[i][2], 0>>
    BY <2>1 DEF Nested
  <2>3. i + 1 < Len(s) => i + 1 \in 1..Len(t)
    BY <1>1
  <2>4. i + 1 < Len(s) => t[i + 1] = s[(i + 1) + 1]
    BY <1>1, <2>3
  <2> QED  BY <1>1, <2>2, <2>4
<1>5. Nested(t)
  BY <1>4 DEF Nested
<1>6. /\ s[1][1] = "loading" => 1 = Len(s)
      /\ s[1][1] = "owing" => 1 < Len(s) /\ s[1 + 1] = <<"frames", s[1][2], 0>>
  <2>1. 1 \in 1..Len(s)
    BY <1>1
  <2> QED  BY <2>1 DEF Nested
<1>7. 1 < Len(s) => 1 \in 1..Len(t) /\ t # <<>>
  BY <1>1
<1>8. 1 < Len(s) => t[1] = s[1 + 1]
  BY <1>1, <1>7
<1>9. 1 = Len(s) => Len(t) = 0
  BY <1>1
<1>10. /\ s[1][1] = "loading" => t = <<>>
       /\ s[1][1] = "owing" => t # <<>> /\ Head(t) = <<"frames", s[1][2], 0>>
  BY <1>2, <1>3, <1>6, <1>7, <1>8, <1>9
<1> QED  BY <1>1, <1>5, <1>10 DEF t

(* What waited for a reset may be called on any stack.                     *)
LEMMA NestedJoin ==
  ASSUME NEW l \in Seq(AfterItems), NEW t \in Seq(Items), Nested(t)
  PROVE  Nested(l \o t)
<1> DEFINE w == l \o t
           n == Len(l)
<1>1. /\ Len(w) = n + Len(t) /\ n \in Nat /\ Len(t) \in Nat
      /\ \A i \in 1..n : w[i] = l[i] /\ l[i] \in AfterItems
      /\ \A i \in 1..Len(t) : w[n + i] = t[i]
  <2>1. l \in Seq(Items)
    BY AfterIsItems
  <2>2. /\ Len(w) = n + Len(t)
        /\ \A i \in 1..n : w[i] = l[i]
        /\ \A i \in 1..Len(t) : w[n + i] = t[i]
    BY <2>1, Joined
  <2> QED  BY <2>2
<1> HIDE DEF w, n
<1>2. \A x \in AfterItems : x[1] # "loading" /\ x[1] # "owing"
  BY DEF AfterItems
<1>3. ASSUME NEW i \in 1..Len(w)
      PROVE  /\ w[i][1] = "loading" => i = Len(w)
             /\ w[i][1] = "owing" => i < Len(w) /\ w[i + 1] = <<"frames", w[i][2], 0>>
  <2>1. CASE i <= n
    <3>1. i \in 1..n
      BY <1>1, <2>1
    <3> QED  BY <1>1, <1>2, <3>1
  <2>2. CASE ~(i <= n)
    <3>1. i - n \in 1..Len(t) /\ n + (i - n) = i
      BY <1>1, <2>2
    <3> PICK j \in 1..Len(t) : j = i - n
      BY <3>1
    <3>2. w[i] = t[j] /\ i = n + j
      BY <1>1, <3>1
    <3>3. /\ t[j][1] = "loading" => j = Len(t)
          /\ t[j][1] = "owing" => j < Len(t) /\ t[j + 1] = <<"frames", t[j][2], 0>>
      BY DEF Nested
    <3>4. j < Len(t) => j + 1 \in 1..Len(t) /\ n + (j + 1) = i + 1
      BY <1>1, <3>2
    <3>5. j < Len(t) => w[i + 1] = t[j + 1]
      BY <1>1, <3>4
    <3> QED  BY <1>1, <3>2, <3>3, <3>5
  <2> QED  BY <2>1, <2>2
<1>4. Nested(w)
  BY <1>3 DEF Nested
<1> QED  BY <1>4 DEF w

(* What a step pops, and what it pushes.                                   *)
LEMMA Popped ==
  ASSUME Typed, Shape, stack # <<>>
  PROVE  /\ Pop \in Seq(Items) /\ Nested(Pop) /\ Within(Pop) \subseteq Within(stack)
         /\ \A x \in Within(Pop) : x[1] \in Deep
         /\ Top[1] = "loading" => Pop = <<>>
         /\ Top[1] = "owing" => Pop # <<>> /\ Head(Pop) = <<"frames", Top[2], 0>>
         /\ Count(Pop, Sources) <= 1
         /\ Top \in Sources => Count(Pop, Sources) = 0
<1>1. stack \in Seq(Items)
  BY DEF Typed, Kinds
<1>2. /\ Nested(Pop) /\ Pop \in Seq(Items)
      /\ Top[1] = "loading" => Pop = <<>>
      /\ Top[1] = "owing" => Pop # <<>> /\ Head(Pop) = <<"frames", Top[2], 0>>
  BY <1>1, NestedPop DEF Shape, Top, Pop
<1>3. /\ Within(stack) = {Top} \cup Within(Pop)
      /\ Count(stack, Sources) = If(Top, Sources) + Count(Pop, Sources)
  BY TopFacts
<1>4. Count(stack, Sources) \in Nat /\ Count(Pop, Sources) \in Nat /\ Count(stack, Sources) <= 1
  BY <1>1, <1>2, WithinCount DEF Shape
<1>5. /\ Count(Pop, Sources) <= 1
      /\ Top \in Sources => Count(Pop, Sources) = 0
  BY <1>3, <1>4 DEF If
<1> QED  BY <1>2, <1>3, <1>5 DEF Shape

(* A call returns.                                                         *)
LEMMA ShapePop ==
  ASSUME Typed, Shape, Kinds', stack # <<>>, stack' = Pop
  PROVE  Shape'
<1>1. /\ Nested(Pop) /\ Count(Pop, Sources) <= 1 /\ \A x \in Within(Pop) : x[1] \in Deep
  BY Popped
<1>2. Nested(stack') /\ Count(stack', Sources) <= 1 /\ \A x \in Within(stack') : x[1] \in Deep
  BY <1>1
<1>3. stack' # <<>> => Within(stack') = {Top'} \cup Within(Pop')
  BY Split DEF Kinds, Top, Pop
<1>4. stack' # <<>> => \A x \in Within(Pop') : x[1] \in Deep
  BY <1>2, <1>3
<1>5. Nested(stack)' /\ Count(stack, Sources)' <= 1
  BY <1>2 DEF Nested, Count, Places, Sources
<1> QED  BY <1>4, <1>5 DEF Shape

(* A call calls another.                                                   *)
LEMMA ShapePush ==
  ASSUME Typed, Shape, Kinds', NEW a \in Items, NEW t \in Seq(Items), Pushed(a, t),
         Nested(t), \A x \in Within(t) : x[1] \in Deep, a[1] # "loading",
         a[1] = "owing" => t # <<>> /\ Head(t) = <<"frames", a[2], 0>>,
         Count(t, Sources) <= 1, a \in Sources => Count(t, Sources) = 0
  PROVE  Shape'
<1>1. stack' = <<a>> \o t
  BY Split DEF Pushed, Kinds, Top, Pop
<1>2. Nested(stack')
  BY <1>1, NestedPush
<1>3. Count(stack', Sources) <= 1
  <2>1. Count(stack', Sources) = If(a, Sources) + Count(t, Sources) /\ Count(t, Sources) \in Nat
    BY WithinCount DEF Pushed
  <2> QED  BY <2>1 DEF If
<1>4. \A x \in Within(Pop') : x[1] \in Deep
  <2>1. Pop' = t
    BY DEF Pushed
  <2>2. Within(Pop') = Within(t)
    BY <2>1
  <2> QED  BY <2>2
<1>5. Nested(stack)' /\ Count(stack, Sources)' <= 1
  BY <1>2, <1>3 DEF Nested, Count, Places, Sources
<1> QED  BY <1>4, <1>5 DEF Shape

(* A job's or an event's first call.                                       *)
LEMMA ShapeOne ==
  ASSUME Typed, Shape, Kinds', NEW a \in Items, Pushed(a, <<>>), a[1] # "owing"
  PROVE  Shape'
<1>1. stack' = <<a>>
  <2>1. stack' = <<a>> \o <<>>
    BY Split DEF Pushed, Kinds, Top, Pop
  <2> QED  BY <2>1
<1>2. Nested(<<a>>)
  BY DEF Nested
<1>3. Count(<<a>>, Sources) <= 1
  <2>1. Count(<<a>>, Sources) = If(a, Sources)
    BY CountOne
  <2> QED  BY <2>1 DEF If
<1>4. Within(Pop') = {}
  <2>1. Pop' = <<>>
    BY DEF Pushed
  <2>2. Within(Pop') = Within(<<>>)
    BY <2>1
  <2> QED  BY <2>2, NoCall
<1>5. Nested(stack)' /\ Count(stack, Sources)' <= 1
  BY <1>1, <1>2, <1>3 DEF Nested, Count, Places, Sources
<1> QED  BY <1>4, <1>5 DEF Shape

(* Nothing is called.                                                      *)
LEMMA ShapeSame ==
  ASSUME Shape, UNCHANGED stack
  PROVE  Shape'
BY DEF Shape, Nested, Count, Places, Sources, Pop, Within

(* Nothing is left to call.                                                *)
LEMMA ShapeEmpty ==
  ASSUME stack' = <<>>
  PROVE  Shape'
<1>1. Count(stack', Sources) = 0
  BY CountNone
<1>2. Nested(stack')
  BY DEF Nested
<1>3. Nested(stack)' /\ Count(stack, Sources)' <= 1
  BY <1>1, <1>2 DEF Nested, Count, Places, Sources
<1> QED  BY <1>3 DEF Shape

(* The owner rests: between entries and between events nothing runs.       *)
Resting == entry \in {"idle", "events"} => stack = <<>> /\ jobs = {}

(* A step of a resting owner is an entry's, or an event's.                 *)
LEMMA RestingKept ==
  ASSUME Typed, Resting, Kinds', Does
  PROVE  Resting'
<1>1. ASSUME NEW r \in Realms, NEW s \in Srcs, SourceStep(r, s) PROVE Resting'
  BY <1>1 DEF SourceStep, Resting, At, SameLinks, AppRuns
<1>2. ASSUME NEW r \in Realms, NEW s \in Srcs, SetSrcStep(r, s) PROVE Resting'
  BY SMTT(30), <1>2 DEF SetSrcStep, Resting, At, SameLinks, AppRuns
<1>3. ASSUME NEW r \in Realms, NEW g \in Nat, StartStep(r, g) PROVE Resting'
  BY <1>3 DEF StartStep, Resting, At, SameLinks, AppRuns
<1>4. ASSUME NEW r \in Realms, NEW g \in Nat, RunStartStep(r, g) PROVE Resting'
  BY <1>4 DEF RunStartStep, Resting, At, SameLinks, AppRuns
<1>5. ASSUME NEW r \in Realms, NEW g \in Nat, FetchStep(r, g) PROVE Resting'
  BY <1>5 DEF FetchStep, Resting, At, SameLinks, AppRuns
<1>6. ASSUME NEW r \in Realms, NEW d \in Conts, d = "frames" => r \in Cards, CloseStep(r, d) PROVE Resting'
  BY <1>6 DEF CloseStep, Resting, At, SameLinks, AppRuns
<1>7. ASSUME NEW r \in Realms, ResetStep(r) PROVE Resting'
  BY <1>7 DEF ResetStep, Resting, At, SameLinks, AppRuns
<1>8. ASSUME NEW r \in Realms, IdleStep(r) PROVE Resting'
  BY <1>8 DEF IdleStep, Resting, At, SameLinks, AppRuns
<1>9. ASSUME NEW r \in Realms, HearStep(r) PROVE Resting'
  BY <1>9 DEF HearStep, Resting, At, SameLinks, AppRuns
<1>10. ASSUME NEW r \in Realms, MoveStep(r) PROVE Resting'
  BY <1>10 DEF MoveStep, Resting, At, SameLinks, AppRuns
<1>11. ASSUME NEW c \in Cards, BootStep(c) PROVE Resting'
  BY <1>11 DEF BootStep, Resting, At, SameLinks, AppRuns
<1>12. ASSUME NEW c \in Cards, LoadedStep(c) PROVE Resting'
  BY <1>12 DEF LoadedStep, Resting, At, SameLinks, AppRuns
<1>13. ASSUME NEW c \in Cards, DisposeStep(c) PROVE Resting'
  BY <1>13 DEF DisposeStep, Resting, At, SameLinks, AppRuns
<1>14. ASSUME NEW c \in Cards, OwingStep(c) PROVE Resting'
  BY <1>14 DEF OwingStep, Resting, At, SameLinks, AppRuns
<1>15. ASSUME NEW c \in Cards, FramesStep(c) PROVE Resting'
  BY <1>15 DEF FramesStep, Resting, At, SameLinks, AppRuns
<1>16. ASSUME NEW c \in Cards, RecordsStep(c) PROVE Resting'
  BY <1>16 DEF RecordsStep, Resting, At, SameLinks, AppRuns
<1>17. ASSUME NEW c \in Cards, ArriveStep(c) PROVE Resting'
  BY <1>17 DEF ArriveStep, Resting, At, SameLinks, AppRuns
<1>18. ASSUME NEW c \in Cards, FlushStep(c) PROVE Resting'
  BY <1>18 DEF FlushStep, Resting, At, SameLinks, AppRuns
<1>19. ASSUME NEW c \in Cards, CloseRealmStep(c) PROVE Resting'
  BY <1>19 DEF CloseRealmStep, Resting, At, SameLinks, AppRuns
<1>20. ASSUME NEW c \in Cards, AckStep(c) PROVE Resting'
  BY <1>20 DEF AckStep, Resting, At, SameLinks, AppRuns
<1>21. ASSUME NEW c \in Cards, BtsStep(c) PROVE Resting'
  BY <1>21 DEF BtsStep, Resting, At, SameLinks, AppRuns
<1>22. ASSUME NEW c \in Cards, ObserveStep(c) PROVE Resting'
  BY <1>22 DEF ObserveStep, Resting, At, SameLinks, AppRuns
<1>23. CASE HeardStep
  BY <1>23 DEF HeardStep, Resting, At, SameLinks, AppRuns
<1>24. CASE EpilogueStep
  BY <1>24 DEF EpilogueStep, Resting, At, SameLinks, AppRuns
<1>25. CASE OpenStep
  BY <1>25 DEF OpenStep, Resting, At, SameLinks, AppRuns
<1>26. CASE OpenEventsStep
  BY <1>26 DEF OpenEventsStep, Resting, At, SameLinks, AppRuns
<1>27. CASE OpenRecordsStep
  BY <1>27 DEF OpenRecordsStep, Resting, At, SameLinks, AppRuns
<1>28. CASE RecordStep
  BY <1>28 DEF RecordStep, Resting, At, SameLinks, AppRuns
<1>29. CASE BeginStep
  BY <1>29 DEF BeginStep, Resting, At, SameLinks, AppRuns
<1> QED  BY <1>1, <1>2, <1>3, <1>4, <1>5, <1>6, <1>7, <1>8, <1>9, <1>10, <1>11, <1>12, <1>13,
            <1>14, <1>15, <1>16, <1>17, <1>18, <1>19, <1>20, <1>21, <1>22, <1>23, <1>24, <1>25,
            <1>26, <1>27, <1>28, <1>29 DEF Does

(* A call pushed, by name.                                                 *)
Onto(a, s) == <<a>> \o s

(* What that makes of a stack.                                             *)
LEMMA OntoFacts ==
  ASSUME NEW a \in Items, NEW s \in Seq(Items)
  PROVE  /\ Onto(a, s) \in Seq(Items) /\ Onto(a, s) # <<>>
         /\ Head(Onto(a, s)) = a /\ Tail(Onto(a, s)) = s
         /\ Within(Onto(a, s)) = {a} \cup Within(s)
BY Push DEF Onto

(* A count by the top and the rest.                                        *)
LEMMA SplitCount ==
  ASSUME NEW w \in Seq(Items), w # <<>>, NEW these
  PROVE  Count(w, these) = If(Head(w), these) + Count(Tail(w), these) /\ Count(w, these) \in Nat
<1>1. Count(w, these) = If(Head(w), these) + Count(Tail(w), these)
  BY Split
<1>2. Count(w, these) \in Nat
  BY WithinCount
<1> QED  BY <1>1, <1>2

(* A count of a stack pushed on.                                           *)
LEMMA OntoCount ==
  ASSUME NEW a \in Items, NEW s \in Seq(Items), NEW these
  PROVE  Count(Onto(a, s), these) = If(a, these) + Count(s, these) /\ Count(s, these) \in Nat
<1>1. Onto(a, s) \in Seq(Items) /\ Onto(a, s) # <<>> /\ Head(Onto(a, s)) = a /\ Tail(Onto(a, s)) = s
  BY OntoFacts
<1>2. Count(Onto(a, s), these) = If(a, these) + Count(s, these)
  BY <1>1, SplitCount
<1>3. Count(s, these) \in Nat
  BY WithinCount
<1> QED  BY <1>2, <1>3

(* A well nested stack pushed on.                                          *)
LEMMA NestedOnto ==
  ASSUME NEW a \in Items, NEW t \in Seq(Items), Nested(t), a[1] # "loading",
         a[1] = "owing" => t # <<>> /\ Head(t) = <<"frames", a[2], 0>>
  PROVE  Nested(Onto(a, t))
BY NestedPush DEF Onto

(* A count of a stack pushed on, unnamed.                                  *)
LEMMA PushCount ==
  ASSUME NEW a \in Items, NEW s \in Seq(Items), NEW these
  PROVE  Count(<<a>> \o s, these) = If(a, these) + Count(s, these) /\ Count(s, these) \in Nat
<1>1. <<a>> \o s \in Seq(Items) /\ <<a>> \o s # <<>> /\ Head(<<a>> \o s) = a /\ Tail(<<a>> \o s) = s
  BY Push
<1> DEFINE w == <<a>> \o s
<1> HIDE DEF w
<1>2. w \in Seq(Items) /\ w # <<>> /\ Head(w) = a /\ Tail(w) = s
  BY <1>1 DEF w
<1>3. Count(w, these) = If(a, these) + Count(s, these)
  BY <1>2, Split
<1>4. Count(s, these) \in Nat
  BY WithinCount
<1> QED  BY <1>3, <1>4 DEF w

(* Each step leaves the stack in shape.                                    *)
LEMMA ShapeKept ==
  ASSUME Typed, Shape, Resting, Kinds', Does
  PROVE  Shape'
<1>1. ASSUME NEW r \in Realms, NEW s \in Srcs, SourceStep(r, s) PROVE Shape'
  BY <1>1, ShapePop DEF SourceStep, At
<1>2. ASSUME NEW r \in Realms, NEW s \in Srcs, SetSrcStep(r, s) PROVE Shape'
  <2>1. stack = <<>> \/ (Pop = <<>> /\ stack # <<>> /\ Top[1] = "loading")
    BY <1>2, Popped DEF SetSrcStep, AppRuns
  <2>2. /\ stack \in Seq(Items) /\ Nested(stack) /\ Count(stack, Sources) = 0
        /\ \A x \in Within(stack) : x[1] \in Deep
    <3>1. stack \in Seq(Items) /\ Nested(stack)
      BY DEF Typed, Kinds, Shape
    <3>2. CASE stack = <<>>
      BY <3>1, <3>2, NoCall
    <3>3. CASE stack # <<>>
      <4>1. /\ Top \in Items /\ Top[1] = "loading" /\ Pop = <<>>
            /\ Within(stack) = {Top} \cup Within(Pop)
            /\ Count(stack, Sources) = If(Top, Sources) + Count(Pop, Sources)
        BY <2>1, <3>3, TopFacts
      <4>2. Top \notin Sources
        BY <4>1 DEF Sources
      <4>3. Within(Pop) = {} /\ Count(Pop, Sources) = 0
        BY <4>1, NoCall
      <4> QED  BY <3>1, <4>1, <4>2, <4>3 DEF If, Deep
    <3> QED  BY <3>2, <3>3
  <2> DEFINE a == <<"source", r, s>>
             b == <<"close", r, "reset">>
  <2>3. /\ a \in Items /\ b \in Items /\ b \notin Sources /\ a[1] \in Deep
        /\ a[1] # "owing" /\ b[1] # "owing" /\ a[1] # "loading" /\ b[1] # "loading"
    BY AnItem DEF Sources, Deep
  <2>4. CASE frame[r].src = NoSrc
    <3>1. Pushed(a, stack)
      BY <1>2, <2>4 DEF SetSrcStep
    <3> HIDE DEF a, b
    <3> QED  BY <2>2, <2>3, <3>1, ShapePush
  <2>5. CASE frame[r].src # NoSrc
    <3>1. PICK t \in Seq(Items) : Pushed(b, t) /\ t = <<a>> \o stack
      BY <1>2, <2>5 DEF SetSrcStep
    <3> HIDE DEF a, b
    <3>2. /\ Nested(t) /\ Within(t) = {a} \cup Within(stack)
      BY <2>2, <2>3, <3>1, NestedPush, Push
    <3>3. Count(t, Sources) = If(a, Sources) + Count(stack, Sources)
      BY <2>2, <2>3, <3>1, PushCount
    <3>4. Count(t, Sources) <= 1
      BY <2>2, <3>3 DEF If
    <3>5. \A x \in Within(t) : x[1] \in Deep
      BY SMTT(30), <2>2, <2>3, <3>2
    <3> QED  BY <2>3, <3>1, <3>2, <3>4, <3>5, ShapePush
  <2> QED  BY <2>4, <2>5
<1>3. ASSUME NEW r \in Realms, NEW g \in Nat, StartStep(r, g) PROVE Shape'
  BY <1>3, ShapePop DEF StartStep, At
<1>4. ASSUME NEW r \in Realms, NEW g \in Nat, RunStartStep(r, g) PROVE Shape'
  <2>1. CASE TRUE
    <3> DEFINE a == <<"start", r, g>>
    <3>2. a \in Items /\ a[1] # "owing" /\ Pushed(a, <<>>)
      BY <1>4, <2>1, AnItem DEF RunStartStep, CardCalls, Bares
    <3> HIDE DEF a
    <3> QED  BY <3>2, ShapeOne
  <2>2. CASE ~(TRUE)
    BY <1>4, <2>2, ShapeSame DEF RunStartStep
  <2> QED  BY <2>1, <2>2
<1>5. ASSUME NEW r \in Realms, NEW g \in Nat, FetchStep(r, g) PROVE Shape'
  <2>1. CASE Pushed(<<"start", r, g>>, <<>>)
    <3> DEFINE a == <<"start", r, g>>
    <3>2. a \in Items /\ a[1] # "owing" /\ Pushed(a, <<>>)
      BY <1>5, <2>1, AnItem DEF FetchStep, CardCalls, Bares
    <3> HIDE DEF a
    <3> QED  BY <3>2, ShapeOne
  <2>2. CASE ~(Pushed(<<"start", r, g>>, <<>>))
    BY <1>5, <2>2, ShapeSame DEF FetchStep
  <2> QED  BY <2>1, <2>2
<1>6. ASSUME NEW r \in Realms, NEW d \in Conts, d = "frames" => r \in Cards, CloseStep(r, d) PROVE Shape'
  <2>1. /\ Pop \in Seq(Items) /\ Nested(Pop) /\ \A x \in Within(Pop) : x[1] \in Deep
        /\ Count(Pop, Sources) <= 1
    BY <1>6, Popped DEF CloseStep, At
  <2>2. CASE Pushed(<<d, r, 0>>, Pop)
    <3>1. <<d, r, 0>> \in Items /\ <<d, r, 0>> \notin Sources /\ d # "loading" /\ d # "owing"
      BY <1>6, AnItem DEF Conts, Bares, CardCalls, Sources
    <3> DEFINE a == <<d, r, 0>>
    <3>2. a \in Items /\ a \notin Sources /\ a[1] # "loading" /\ a[1] # "owing" /\ Pushed(a, Pop)
      BY <2>2, <3>1
    <3> HIDE DEF a
    <3> QED  BY <2>1, <3>2, ShapePush
  <2>3. ASSUME NEW c \in Cards, Pushed(<<"dispose", c, 0>>, Pop) PROVE Shape'
    <3> DEFINE a == <<"dispose", c, 0>>
    <3>2. a \in Items /\ a \notin Sources /\ a[1] # "loading" /\ a[1] # "owing" /\ Pushed(a, Pop)
      BY <2>3, AnItem DEF CardCalls, Sources
    <3> HIDE DEF a
    <3> QED  BY <2>1, <3>2, ShapePush
  <2> QED  BY <1>6, <2>2, <2>3 DEF CloseStep
<1>7. ASSUME NEW r \in Realms, ResetStep(r) PROVE Shape'
  <2>1. /\ Pop \in Seq(Items) /\ Nested(Pop) /\ \A x \in Within(Pop) : x[1] \in Deep
        /\ Count(Pop, Sources) <= 1 /\ Within(Pop) \subseteq Within(stack)
    BY <1>7, Popped DEF ResetStep, At
  <2>2. CASE frame[r].owed = 1
    <3> PICK l \in Seq(AfterItems) : l = frame[r].after
      BY DEF Typed, Kinds, FrameRec
    <3>1. /\ stack' = l \o Pop /\ Within(stack') = Within(l) \cup Within(Pop)
          /\ Count(stack', Sources) = Count(l, Sources) + Count(Pop, Sources)
      BY <1>7, <2>2 DEF ResetStep
    <3>2. l \in Seq(Items)
      BY AfterIsItems
    <3>3. \A x \in AfterItems : x[1] \in Deep /\ x \notin Sources
      BY DEF AfterItems, Sources, Deep
    <3>4. \A x \in Within(l) : x \in AfterItems
      BY DEF Within
    <3>5. Count(l, Sources) = 0
      BY <3>2, <3>3, <3>4, WithinCount
    <3>6. Count(stack', Sources) <= 1
      <4>1. Count(Pop, Sources) \in Nat
        BY <2>1, WithinCount
      <4> QED  BY <2>1, <3>1, <3>5, <4>1
    <3>7. Nested(stack')
      BY <2>1, <3>1, NestedJoin
    <3>8. \A x \in Within(stack') : x[1] \in Deep
      BY <2>1, <3>1, <3>3, <3>4
    <3>9. stack' # <<>> => Within(stack') = {Top'} \cup Within(Pop')
      BY Split DEF Kinds, Top, Pop
    <3>10. stack' # <<>> => \A x \in Within(Pop') : x[1] \in Deep
      BY <3>8, <3>9
    <3>11. Nested(stack)' /\ Count(stack, Sources)' <= 1
      BY <3>6, <3>7 DEF Nested, Count, Places, Sources
    <3> QED  BY <3>10, <3>11 DEF Shape
  <2>3. CASE frame[r].owed # 1
    BY <1>7, <2>3, ShapePop DEF ResetStep, At
  <2> QED  BY <2>2, <2>3
<1>8. ASSUME NEW r \in Realms, IdleStep(r) PROVE Shape'
  BY <1>8, ShapePop DEF IdleStep, At
<1>9. ASSUME NEW r \in Realms, HearStep(r) PROVE Shape'
  <2>1. CASE Pushed(<<"close", r, "reset">>, <<>>)
    <3> DEFINE a == <<"close", r, "reset">>
    <3>2. a \in Items /\ a[1] # "owing" /\ Pushed(a, <<>>)
      BY <2>1, AnItem
    <3> HIDE DEF a
    <3> QED  BY <3>2, ShapeOne
  <2>2. CASE frame[r].src # NoSrc /\ Pushed(<<"source", r, frame[r].src>>, <<>>)
    <3> PICK s \in Srcs : s = frame[r].src
      BY <2>2 DEF Typed, Kinds, FrameRec
    <3> DEFINE a == <<"source", r, s>>
    <3>2. a \in Items /\ a[1] # "owing" /\ Pushed(a, <<>>)
      BY <2>2, AnItem
    <3> HIDE DEF a
    <3> QED  BY <3>2, ShapeOne
  <2>3. CASE UNCHANGED stack
    BY <2>3, ShapeSame
  <2> QED  BY <1>9, <2>1, <2>2, <2>3 DEF HearStep
<1>10. ASSUME NEW r \in Realms, MoveStep(r) PROVE Shape'
  BY <1>10, ShapeSame DEF MoveStep
<1>11. ASSUME NEW c \in Cards, BootStep(c) PROVE Shape'
  <2>1. CASE Pushed(<<"loading", c, 0>>, <<>>)
    <3> DEFINE a == <<"loading", c, 0>>
    <3>2. a \in Items /\ a[1] # "owing" /\ Pushed(a, <<>>)
      BY <1>11, <2>1, AnItem DEF BootStep, CardCalls, Bares
    <3> HIDE DEF a
    <3> QED  BY <3>2, ShapeOne
  <2>2. CASE ~(Pushed(<<"loading", c, 0>>, <<>>))
    BY <1>11, <2>2, ShapeEmpty DEF BootStep
  <2> QED  BY <2>1, <2>2
<1>12. ASSUME NEW c \in Cards, LoadedStep(c) PROVE Shape'
  BY <1>12, ShapePop DEF LoadedStep, At
<1>13. ASSUME NEW c \in Cards, DisposeStep(c) PROVE Shape'
  <2>1. /\ Pop \in Seq(Items) /\ Nested(Pop) /\ \A x \in Within(Pop) : x[1] \in Deep
        /\ Count(Pop, Sources) <= 1
    BY <1>13, Popped DEF DisposeStep, At
  <2> DEFINE k == IF card[c].shown THEN "records" ELSE "arrive"
             a == <<k, c, 0>>
             b == <<"frames", c, 0>>
             d == <<"owing", c, 0>>
             e == <<"close", c, "frames">>
             zero == <<a>> \o Pop
  <2>2. PICK one, two \in Seq(Items) :
          /\ one = <<b>> \o zero /\ two = <<d>> \o one
          /\ stack' = IF frame[c].loaded THEN <<e>> \o two ELSE two
    BY <1>13 DEF DisposeStep
  <2>3. /\ a \in Items /\ b \in Items /\ d \in Items /\ e \in Items
        /\ a \notin Sources /\ b \notin Sources /\ d \notin Sources /\ e \notin Sources
        /\ a[1] # "loading" /\ b[1] # "loading" /\ d[1] # "loading" /\ e[1] # "loading"
        /\ a[1] # "owing" /\ b[1] # "owing" /\ e[1] # "owing"
        /\ a[1] \in Deep /\ b[1] \in Deep /\ d[1] \in Deep
        /\ b = <<"frames", d[2], 0>>
    <3>1. /\ b \in Items /\ d \in Items /\ e \in Items
          /\ b \notin Sources /\ d \notin Sources /\ e \notin Sources
          /\ b[1] # "loading" /\ d[1] # "loading" /\ e[1] # "loading"
          /\ b[1] # "owing" /\ e[1] # "owing"
          /\ b[1] \in Deep /\ d[1] \in Deep
          /\ b = <<"frames", d[2], 0>>
      BY AnItem DEF CardCalls, Sources, Deep
    <3>2. k \in {"records", "arrive"}
      OBVIOUS
    <3>3. a \in Items /\ a \notin Sources /\ a[1] # "loading" /\ a[1] # "owing" /\ a[1] \in Deep
      BY <3>2, AnItem DEF CardCalls, Sources, Deep
    <3> QED  BY <3>1, <3>3
  <2> HIDE DEF a, b, d, e
  <2>4. /\ Nested(one) /\ Nested(two) /\ Count(one, Sources) <= 1 /\ Count(two, Sources) <= 1
        /\ (\A x \in Within(one) \cup Within(two) : x[1] \in Deep)
        /\ Head(one) = b /\ one # <<>>
    <3>2. one = Onto(b, Onto(a, Pop)) /\ two = Onto(d, one)
      BY <2>2 DEF Onto
    <3>3. /\ \A x \in {a, b, d} : x[1] \in Deep /\ x[1] # "loading" /\ x \notin Sources
          /\ a[1] # "owing" /\ b[1] # "owing" /\ b = <<"frames", d[2], 0>>
      BY <2>3
    <3>4. a \in Items /\ b \in Items /\ d \in Items /\ Pop \in Seq(Items)
      BY <2>1, <2>3
    <3>5. Nested(Pop) /\ Count(Pop, Sources) <= 1 /\ \A x \in Within(Pop) : x[1] \in Deep
      BY <2>1
    <3> HIDE DEF zero
    <3> PICK z : z = Onto(a, Pop)
      OBVIOUS
    <3>6. z = Onto(a, Pop) /\ one = Onto(b, z) /\ two = Onto(d, one)
      BY <3>2
    <3>11. z \in Seq(Items) /\ Within(z) = {a} \cup Within(Pop)
      BY <3>4, <3>6, OntoFacts
    <3>12. one \in Seq(Items) /\ Within(one) = {b} \cup Within(z) /\ Head(one) = b /\ one # <<>>
      BY <3>11, <3>4, <3>6, OntoFacts
    <3>13. two \in Seq(Items) /\ Within(two) = {d} \cup Within(one)
      BY <3>12, <3>4, <3>6, OntoFacts
    <3>14. Count(z, Sources) = If(a, Sources) + Count(Pop, Sources) /\ Count(Pop, Sources) \in Nat
      BY <3>4, <3>6, OntoCount
    <3>15. Count(one, Sources) = If(b, Sources) + Count(z, Sources)
      BY <3>11, <3>4, <3>6, OntoCount
    <3>16. Count(two, Sources) = If(d, Sources) + Count(one, Sources)
      BY <3>12, <3>4, <3>6, OntoCount
    <3>17. Nested(z)
      BY <3>3, <3>4, <3>5, <3>6, NestedOnto
    <3>18. Nested(one)
      BY <3>11, <3>17, <3>3, <3>4, <3>6, NestedOnto
    <3>19. Nested(two)
      BY <3>12, <3>18, <3>3, <3>4, <3>6, NestedOnto
    <3>20. Count(one, Sources) <= 1 /\ Count(two, Sources) <= 1
      BY <3>3, <3>5, <3>14, <3>15, <3>16 DEF If
    <3> QED  BY <3>3, <3>5, <3>20, <3>11, <3>12, <3>13, <3>18, <3>19, <3>20
  <2>9. CASE frame[c].loaded
    <3>1. Pushed(e, two)
      BY <2>2, <2>3, <2>9, PushFacts
    <3> QED  BY <2>2, <2>3, <2>4, <3>1, ShapePush
  <2>10. CASE ~frame[c].loaded
    <3>1. Pushed(d, one)
      BY <2>2, <2>3, <2>10, PushFacts
    <3>2. Count(one, Sources) <= 1 /\ d \notin Sources /\ Head(one) = <<"frames", d[2], 0>> /\ one # <<>>
      BY <2>3, <2>4
    <3> QED  BY <2>2, <2>3, <2>4, <3>1, <3>2, ShapePush
  <2> QED  BY <2>9, <2>10
<1>14. ASSUME NEW c \in Cards, OwingStep(c) PROVE Shape'
  BY <1>14, ShapePop DEF OwingStep, At
<1>15. ASSUME NEW c \in Cards, FramesStep(c) PROVE Shape'
  <2>1. /\ Pop \in Seq(Items) /\ Nested(Pop) /\ \A x \in Within(Pop) : x[1] \in Deep
        /\ Count(Pop, Sources) <= 1
    BY <1>15, Popped DEF FramesStep, At
  <2>2. CASE card[c].frames = 1
    <3> DEFINE a == <<"arrive", c, 0>>
    <3>2. a \in Items /\ a \notin Sources /\ a[1] # "loading" /\ a[1] # "owing" /\ Pushed(a, Pop)
      BY <1>15, <2>2, AnItem DEF FramesStep, CardCalls, Sources
    <3> HIDE DEF a
    <3> QED  BY <2>1, <3>2, ShapePush
  <2>3. CASE card[c].frames # 1
    BY <1>15, <2>3, ShapePop DEF FramesStep, At
  <2> QED  BY <2>2, <2>3
<1>16. ASSUME NEW c \in Cards, RecordsStep(c) PROVE Shape'
  BY <1>16, ShapePop DEF RecordsStep, At
<1>17. ASSUME NEW c \in Cards, ArriveStep(c) PROVE Shape'
  <2>1. /\ Pop \in Seq(Items) /\ Nested(Pop) /\ \A x \in Within(Pop) : x[1] \in Deep
        /\ Count(Pop, Sources) <= 1
    BY <1>17, Popped DEF ArriveStep, At
  <2>2. CASE card[c].pending = 1 /\ Alive(card[c].host)
    <3> DEFINE a == <<card[c].done, card[c].host, 0>>
    <3>1. card[c].done \in Bares \cup {"frames"} /\ card[c].host \in Realms
          /\ (card[c].done = "frames" => card[c].host \in Cards)
      BY DEF Typed, Kinds, Made, CardRec, Dones, Conts, Bares
    <3>2. a \in Items /\ a \notin Sources /\ a[1] # "loading" /\ a[1] # "owing" /\ Pushed(a, Pop)
      BY <1>17, <2>2, <3>1, AnItem DEF ArriveStep, CardCalls, Bares, Sources
    <3> HIDE DEF a
    <3> QED  BY <2>1, <3>2, ShapePush
  <2>3. CASE ~(card[c].pending = 1 /\ Alive(card[c].host))
    BY <1>17, <2>3, ShapePop DEF ArriveStep, At
  <2> QED  BY <2>2, <2>3
<1>18. ASSUME NEW c \in Cards, FlushStep(c) PROVE Shape'
  <2>1. CASE card[c].wait = "due"
    <3> DEFINE a == <<"arrive", c, 0>>
    <3>2. a \in Items /\ a[1] # "owing" /\ Pushed(a, <<>>)
      BY <1>18, <2>1, AnItem DEF FlushStep, CardCalls, Bares
    <3> HIDE DEF a
    <3> QED  BY <3>2, ShapeOne
  <2>2. CASE ~(card[c].wait = "due")
    BY <1>18, <2>2, ShapeEmpty DEF FlushStep
  <2> QED  BY <2>1, <2>2
<1>19. ASSUME NEW c \in Cards, CloseRealmStep(c) PROVE Shape'
  BY <1>19, ShapeSame DEF CloseRealmStep
<1>20. ASSUME NEW c \in Cards, AckStep(c) PROVE Shape'
  BY <1>20, ShapeSame DEF AckStep
<1>21. ASSUME NEW c \in Cards, BtsStep(c) PROVE Shape'
  BY <1>21, ShapeSame DEF BtsStep
<1>22. ASSUME NEW c \in Cards, ObserveStep(c) PROVE Shape'
  BY <1>22, ShapeSame DEF ObserveStep
<1>23. CASE HeardStep
  BY <1>23, ShapeSame DEF HeardStep
<1>24. CASE EpilogueStep
  BY <1>24, ShapeSame DEF EpilogueStep
<1>25. CASE OpenStep
  BY <1>25, ShapeSame DEF OpenStep
<1>26. CASE OpenEventsStep
  BY <1>26, ShapeSame DEF OpenEventsStep
<1>27. CASE OpenRecordsStep
  BY <1>27, ShapeSame DEF OpenRecordsStep
<1>28. CASE RecordStep
  BY <1>28, ShapeSame DEF RecordStep
<1>29. CASE BeginStep
  <2> DEFINE a == <<"close", Page, "nothing">>
             z == <<"askPage", Page, 0>>
  <2>1. PICK t \in Seq(Items) :
          /\ Within(t) = {z} /\ \A these : Count(t, these) = If(z, these)
          /\ t # <<>> /\ Head(t) = z /\ Len(t) = 1
          /\ IF frame[Page].loaded THEN Pushed(a, t) ELSE stack' = t
    BY <1>29 DEF BeginStep
  <2>2. /\ a \in Items /\ a[1] # "owing" /\ a[1] # "loading" /\ a \notin Sources
        /\ z \in Items /\ z[1] # "owing" /\ z[1] # "loading" /\ z \notin Sources /\ z[1] \in Deep
    BY AnItem DEF Bares, Deep, Sources
  <2> HIDE DEF a, z
  <2>3. /\ \A x \in Within(t) : x[1] \in Deep
        /\ Count(t, Sources) = 0
    BY <2>1, <2>2 DEF If
  <2>4. Nested(t)
    <3>1. t[1] = z
      BY <2>1
    <3>2. ASSUME NEW i \in 1..Len(t) PROVE i = 1
      BY <2>1
    <3> QED  BY <2>2, <3>1, <3>2 DEF Nested
  <2>5. CASE frame[Page].loaded
    BY <2>1, <2>2, <2>3, <2>4, <2>5, ShapePush
  <2>6. CASE ~frame[Page].loaded
    <3>0. Nested(stack') /\ Count(stack', Sources) <= 1
      BY <2>1, <2>3, <2>4, <2>6
    <3>1. Nested(stack)' /\ Count(stack, Sources)' <= 1
      BY <3>0 DEF Nested, Count, Places, Sources
    <3>2. \A x \in Within(stack') : x[1] \in Deep
      BY <2>1, <2>3, <2>6
    <3>3. stack' # <<>> => Within(stack') = {Top'} \cup Within(Pop')
      BY Split DEF Kinds, Top, Pop
    <3>4. stack' # <<>> => \A x \in Within(Pop') : x[1] \in Deep
      BY <3>2, <3>3
    <3> QED  BY <3>1, <3>4 DEF Shape
  <2> QED  BY <2>5, <2>6
<1> QED  BY <1>1, <1>2, <1>3, <1>4, <1>5, <1>6, <1>7, <1>8, <1>9, <1>10, <1>11, <1>12, <1>13,
            <1>14, <1>15, <1>16, <1>17, <1>18, <1>19, <1>20, <1>21, <1>22, <1>23, <1>24, <1>25,
            <1>26, <1>27, <1>28, <1>29 DEF Does

(* What the two steps that push several calls leave on the stack.          *)
LEMMA DisposeStack ==
  ASSUME Typed, NEW c \in Cards, DisposeStep(c)
  PROVE  \E k \in {"records", "arrive"} :
           /\ k = (IF card[c].shown THEN "records" ELSE "arrive")
           /\ Within(stack') = (IF frame[c].loaded THEN {<<"close", c, "frames">>} ELSE {})
                \cup {<<"owing", c, 0>>, <<"frames", c, 0>>, <<k, c, 0>>} \cup Within(Pop)
           /\ stack' # <<>>
           /\ Top' = (IF frame[c].loaded THEN <<"close", c, "frames">> ELSE <<"owing", c, 0>>)
           /\ \A these : Count(stack', these) =
                (IF frame[c].loaded THEN If(<<"close", c, "frames">>, these) ELSE 0)
                + If(<<"owing", c, 0>>, these) + If(<<"frames", c, 0>>, these)
                + If(<<k, c, 0>>, these) + Count(Pop, these)
<1> DEFINE k == IF card[c].shown THEN "records" ELSE "arrive"
           a == <<k, c, 0>>
           b == <<"frames", c, 0>>
           d == <<"owing", c, 0>>
           e == <<"close", c, "frames">>
           zero == <<a>> \o Pop
<1>1. PICK one, two \in Seq(Items) :
          /\ one = <<b>> \o zero /\ two = <<d>> \o one
          /\ stack' = IF frame[c].loaded THEN <<e>> \o two ELSE two
  BY DEF DisposeStep
<1>2. k \in {"records", "arrive"} /\ k = (IF card[c].shown THEN "records" ELSE "arrive")
  OBVIOUS
<1>3. a \in Items /\ b \in Items /\ d \in Items /\ e \in Items
  BY <1>2, AnItem DEF CardCalls
<1>4. Pop \in Seq(Items)
  BY TopFacts DEF DisposeStep, At
<1> PICK z : z = Onto(a, Pop)
  OBVIOUS
<1> HIDE DEF k
<1>40. /\ a = <<k, c, 0>> /\ b = <<"frames", c, 0>> /\ d = <<"owing", c, 0>>
       /\ e = <<"close", c, "frames">>
  OBVIOUS
<1> HIDE DEF a, b, d, e
<1>5. one = Onto(b, z) /\ two = Onto(d, one)
  BY <1>1 DEF Onto
<1> HIDE DEF zero
<1>6. z \in Seq(Items) /\ Within(z) = {a} \cup Within(Pop)
  BY <1>3, <1>4, OntoFacts
<1>7. one \in Seq(Items) /\ Within(one) = {b} \cup Within(z)
  BY <1>3, <1>5, <1>6, OntoFacts
<1>8. two \in Seq(Items) /\ Within(two) = {d} \cup Within(one) /\ two # <<>> /\ Head(two) = d
  BY <1>3, <1>5, <1>7, OntoFacts
<1>9. \A these : Count(z, these) = If(a, these) + Count(Pop, these) /\ Count(Pop, these) \in Nat
  BY <1>3, <1>4, OntoCount
<1>10. \A these : Count(one, these) = If(b, these) + Count(z, these)
  BY <1>3, <1>5, <1>6, OntoCount
<1>11. \A these : Count(two, these) = If(d, these) + Count(one, these)
  BY <1>3, <1>5, <1>7, OntoCount
<1>12. \A these : Count(two, these) = If(d, these) + If(b, these) + If(a, these) + Count(Pop, these)
  <2> TAKE these
  <2>1. /\ Count(z, these) = If(a, these) + Count(Pop, these) /\ Count(Pop, these) \in Nat
        /\ Count(one, these) = If(b, these) + Count(z, these)
        /\ Count(two, these) = If(d, these) + Count(one, these)
    BY <1>9, <1>10, <1>11
  <2> QED  BY <2>1 DEF If
<1>13. CASE frame[c].loaded
  <2>1. stack' = <<e>> \o two
    BY <1>1, <1>13
  <2>2. Pushed(e, two)
    BY <1>3, <1>8, <2>1, PushFacts
  <2>3. stack' # <<>> /\ Top' = e /\ Within(stack') = {e} \cup Within(two)
    BY <2>2 DEF Pushed
  <2>4. \A these : Count(stack', these)
                     = If(e, these) + If(d, these) + If(b, these) + If(a, these) + Count(Pop, these)
    <3> TAKE these
    <3>1. Count(stack', these) = If(e, these) + Count(two, these)
      BY <2>2 DEF Pushed
    <3>2. Count(two, these) = If(d, these) + If(b, these) + If(a, these) + Count(Pop, these)
          /\ Count(Pop, these) \in Nat
      BY <1>9, <1>12
    <3> QED  BY <3>1, <3>2 DEF If
  <2>5. Within(stack') = {e} \cup {d, b, a} \cup Within(Pop)
    BY <1>6, <1>7, <1>8, <2>3
  <2> QED  BY <1>2, <1>13, <1>40, <2>3, <2>4, <2>5
<1>14. CASE ~frame[c].loaded
  <2>1. stack' = two
    BY <1>1, <1>14
  <2>2. stack' # <<>> /\ Top' = d
    BY <1>8, <2>1 DEF Top
  <2>3. Within(stack') = {} \cup {d, b, a} \cup Within(Pop)
    BY <1>6, <1>7, <1>8, <2>1
  <2>4. \A these : Count(stack', these)
                     = 0 + If(d, these) + If(b, these) + If(a, these) + Count(Pop, these)
    <3> TAKE these
    <3>1. Count(stack', these) = If(d, these) + If(b, these) + If(a, these) + Count(Pop, these)
          /\ Count(Pop, these) \in Nat
      BY <1>9, <1>12, <2>1
    <3> QED  BY <3>1 DEF If
  <2> QED  BY <1>2, <1>14, <1>40, <2>2, <2>3, <2>4
<1> QED  BY <1>13, <1>14

(* A write of src calls close before source, if there is a load to close.  *)
LEMMA SetSrcStack ==
  ASSUME Typed, NEW r \in Realms, NEW s \in Srcs, SetSrcStep(r, s)
  PROVE  /\ Within(stack') = {<<"source", r, s>>}
              \cup (IF frame[r].src = NoSrc THEN {} ELSE {<<"close", r, "reset">>}) \cup Within(stack)
         /\ stack' # <<>>
         /\ Top' = (IF frame[r].src = NoSrc THEN <<"source", r, s>> ELSE <<"close", r, "reset">>)
         /\ \A these : Count(stack', these) = If(<<"source", r, s>>, these)
              + (IF frame[r].src = NoSrc THEN 0 ELSE If(<<"close", r, "reset">>, these))
              + Count(stack, these)
<1> DEFINE a == <<"source", r, s>>
           b == <<"close", r, "reset">>
<1>1. a \in Items /\ b \in Items /\ stack \in Seq(Items)
  BY AnItem DEF Typed, Kinds
<1>2. \A these : Count(stack, these) \in Nat
  BY <1>1, WithinCount
<1>3. CASE frame[r].src = NoSrc
  <2>1. Pushed(a, stack)
    BY <1>3 DEF SetSrcStep
  <2>2. \A these : Count(stack', these) = If(a, these) + 0 + Count(stack, these)
    BY <1>2, <2>1 DEF Pushed, If
  <2> QED  BY <1>3, <2>1, <2>2 DEF Pushed
<1>4. CASE frame[r].src # NoSrc
  <2>1. PICK t \in Seq(Items) : Pushed(b, t) /\ t = <<a>> \o stack
    BY <1>4 DEF SetSrcStep
  <2> HIDE DEF a, b
  <2>2. t = Onto(a, stack)
    BY <2>1 DEF Onto
  <2>3. Within(t) = {a} \cup Within(stack)
    BY <1>1, <2>2, OntoFacts
  <2>4. \A these : Count(t, these) = If(a, these) + Count(stack, these)
    BY <1>1, <2>2, OntoCount
  <2>5. stack' # <<>> /\ Top' = b /\ Within(stack') = {a} \cup {b} \cup Within(stack)
    BY <2>1, <2>3 DEF Pushed
  <2>6. \A these : Count(stack', these) = If(a, these) + If(b, these) + Count(stack, these)
    <3> TAKE these
    <3>1. Count(stack', these) = If(b, these) + Count(t, these)
      BY <2>1 DEF Pushed
    <3>2. Count(t, these) = If(a, these) + Count(stack, these) /\ Count(stack, these) \in Nat
      BY <1>2, <2>4
    <3> QED  BY <3>1, <3>2 DEF If
  <2> QED  BY <1>4, <2>5, <2>6 DEF a, b
<1> QED  BY <1>3, <1>4

(* The view's end calls close before it asks for the page's end.           *)
LEMMA BeginStack ==
  ASSUME Typed, BeginStep
  PROVE  /\ Within(stack') = (IF frame[Page].loaded THEN {<<"close", Page, "nothing">>} ELSE {})
              \cup {<<"askPage", Page, 0>>}
         /\ stack' # <<>>
         /\ Top' = (IF frame[Page].loaded THEN <<"close", Page, "nothing">> ELSE <<"askPage", Page, 0>>)
         /\ \A these : Count(stack', these) =
              (IF frame[Page].loaded THEN If(<<"close", Page, "nothing">>, these) ELSE 0)
              + If(<<"askPage", Page, 0>>, these)
<1> DEFINE a == <<"close", Page, "nothing">>
           z == <<"askPage", Page, 0>>
<1>1. PICK t \in Seq(Items) :
          /\ Within(t) = {z} /\ \A these : Count(t, these) = If(z, these)
          /\ t # <<>> /\ Head(t) = z /\ Len(t) = 1
          /\ IF frame[Page].loaded THEN Pushed(a, t) ELSE stack' = t
  BY DEF BeginStep
<1>2. CASE frame[Page].loaded
  BY <1>1, <1>2 DEF Pushed
<1>3. CASE ~frame[Page].loaded
  <2>1. stack' = t
    BY <1>1, <1>3
  <2>2. \A these : Count(stack', these) = 0 + If(z, these)
    BY <1>1, <2>1 DEF If
  <2>3. Top' = z /\ Within(stack') = {} \cup {z}
    BY <1>1, <2>1 DEF Top
  <2> QED  BY <1>1, <1>3, <2>1, <2>2, <2>3
<1> QED  BY <1>2, <1>3


-----------------------------------------------------------------------------
(* The parts of the core invariant.                                        *)

(* A call anywhere on the stack.                                           *)
On(k, r, a) == <<k, r, a>> \in Within(stack)

(* What waits for a reset is its frame's own.                              *)
Own == \A r \in Realms : \A x \in Within(frame[r].after) : x[2] = r

(* A load is asked for, starts and makes its card once.                    *)
Held(r, g) == IF \E c \in Cards : card[c].st # "unmade" /\ card[c].host = r /\ card[c].gen = g
              THEN 1 ELSE 0
Starts(r, g) == {<<"start", r, g>>}
Token(r, g) == Count(stack, Starts(r, g)) + Count(frame[r].after, Starts(r, g))
   + If(<<"start", r, g>>, jobs) + If(<<r, g>>, asked) + If(<<r, g>>, flying) + Held(r, g)
Lim(r, g) == IF g < frame[r].gen \/ (g = frame[r].gen /\ frame[r].loaded) THEN 1 ELSE 0
Tokens == \A r \in Realms : \A g \in Nat : Token(r, g) <= Lim(r, g)

(* A frame written to is not loaded, or about to be closed.                *)
Sourced == \A r \in Realms, s \in Srcs :
              On("source", r, s) => ~frame[r].loaded \/ At("close", r, "reset")

(* A frame is loaded, and a page built, by a realm that has run.           *)
Ran(r) == r # Page => card[r].st \in {"booting", "booted", "freed"} \/ card[r].disposed
Runs == /\ \A r \in Realms, s \in Srcs : On("source", r, s) => Ran(r)
        /\ \A r \in Realms : frame[r].loaded => Ran(r)
        /\ \A c \in Cards : card[c].root => Ran(c)

(* What a frame holds is its card, and alive as long as the frame.         *)
Links == \A r \in Realms :
   /\ frame[r].dispose \in {0, frame[r].realm}
   /\ frame[r].src = NoSrc => ~frame[r].loaded
   /\ frame[r].loaded => frame[r].src # NoSrc
   /\ \A c \in Cards : frame[r].realm = c =>
        /\ card[c].st # "unmade" /\ card[c].host = r /\ card[c].gen = frame[r].gen
        /\ frame[r].loaded /\ card[c].done = "none" /\ ~card[c].disposed
        /\ frame[r].dispose = c => card[c].st # "made"
        /\ Alive(r) => Alive(c)

BootJobs == \A c \in Cards : <<"boot", c, 0>> \in jobs =>
   /\ card[c].st = "made" /\ Alive(card[c].host)
   /\ Current(c) => frame[card[c].host].realm = c /\ frame[card[c].host].dispose = 0

(* How far a card's disposal is.                                           *)
Flags == \A c \in Cards :
   /\ card[c].done # "none" /\ ~card[c].disposed <=> At("dispose", c, 0)
   /\ \A k \in {"owing", "frames", "arrive", "records"} : On(k, c, 0) => card[c].disposed
   /\ card[c].wait # "no" => card[c].disposed
   /\ <<"frames", c, 0>> \in Within(frame[c].after) => card[c].disposed
   /\ On("close", c, "frames") => card[c].disposed
   /\ card[c].retired \/ <<"closeRealm", c, 0>> \in jobs \/ card[c].bts = "asked" => card[c].disposed
   /\ card[c].disposed => card[c].done # "none"
   /\ card[c].done # "none" => card[c].st \notin {"unmade", "made"}
   /\ On("loading", c, 0) => card[c].st = "booting"
   /\ \A k \in Cards : card[c].done = "frames" /\ card[c].host = k => card[k].disposed

(* Calls and jobs are a live realm's, and a card's host was made.          *)
Life == /\ \A x \in Within(stack) \cup jobs : Alive(x[2])
        /\ \A c \in Cards : card[c].st # "unmade" => card[c].host = Page \/ card[card[c].host].st # "unmade"
Core == /\ Typed /\ Shape /\ Resting /\ Own /\ Tokens /\ Sourced /\ Runs
        /\ Links /\ BootJobs /\ Flags /\ Life

(* What is put off is counted.                                             *)
LEMMA AppendAfter ==
  ASSUME NEW s \in Seq(AfterItems), NEW x \in AfterItems
  PROVE  /\ Within(Append(s, x)) = Within(s) \cup {x}
         /\ \A these : /\ Count(Append(s, x), these) = Count(s, these) + If(x, these)
                       /\ Count(s, these) \in Nat
<1>1. /\ Within(Append(s, x)) = Within(s) \cup {x}
      /\ \A these : Count(Append(s, x), these) = Count(s, these) + If(x, these)
  BY AppendFacts
<1>2. \A these : Count(s, these) \in Nat
  BY WithinCount
<1> QED  BY <1>1, <1>2

(* The same of the list a frame keeps.                                     *)
LEMMA AfterPut ==
  ASSUME Typed, NEW r \in Realms, NEW x \in AfterItems,
         frame'[r].after = Append(frame[r].after, x)
  PROVE  /\ Within(frame'[r].after) = Within(frame[r].after) \cup {x}
         /\ \A these : /\ Count(frame'[r].after, these) = Count(frame[r].after, these) + If(x, these)
                       /\ Count(frame[r].after, these) \in Nat
<1> PICK s \in Seq(AfterItems) : s = frame[r].after
  BY DEF Typed, Kinds, FrameRec
<1> QED  BY AppendAfter

(* Such a count is a number.                                               *)
LEMMA AfterCount ==
  ASSUME Typed, NEW r \in Realms, NEW these
  PROVE  Count(frame[r].after, these) \in Nat
<1> PICK s \in Seq(AfterItems) : s = frame[r].after
  BY DEF Typed, Kinds, FrameRec
<1> QED  BY WithinCount

(* What a frame puts off is its own.                                       *)
LEMMA OwnPut ==
  ASSUME Typed, Own, NEW r \in Realms, NEW x \in AfterItems, x[2] = r, Others(r),
         frame'[r].after = Append(frame[r].after, x)
  PROVE  Own'
<1>1. Within(frame'[r].after) = Within(frame[r].after) \cup {x}
  BY AfterPut
<1>2. \A q \in Realms : q # r => frame'[q].after = frame[q].after
  BY DEF Others
<1>3. ASSUME NEW q \in Realms, NEW y \in Within(frame'[q].after) PROVE y[2] = q
  <2>1. CASE q = r
    BY <1>1, <1>3, <2>1 DEF Own
  <2>2. CASE q # r
    BY <1>2, <1>3, <2>2 DEF Own
  <2> QED  BY <2>1, <2>2
<1> QED  BY <1>3 DEF Own

(* No step puts off a call with another frame.                             *)
LEMMA OwnKept ==
  ASSUME Typed, Own, Kinds', Does
  PROVE  Own'
<1>1. ASSUME NEW r \in Realms, NEW s \in Srcs, SourceStep(r, s) PROVE Own'
  <2>1. \A q \in Realms : frame'[q].after = frame[q].after
    BY <1>1 DEF SourceStep, Others, SameLoads
  <2> QED  BY <2>1 DEF Own
<1>2. ASSUME NEW r \in Realms, NEW s \in Srcs, SetSrcStep(r, s) PROVE Own'
  <2>1. \A q \in Realms : frame'[q].after = frame[q].after
    BY SMTT(30), <1>2 DEF SetSrcStep, Others, SameLoads
  <2> QED  BY <2>1 DEF Own
<1>3. ASSUME NEW r \in Realms, NEW g \in Nat, StartStep(r, g) PROVE Own'
  <2>1. <<"start", r, g>> \in AfterItems
    BY DEF AfterItems
  <2>2. CASE frame'[r].after = Append(frame[r].after, <<"start", r, g>>) /\ Others(r)
    BY <2>1, <2>2, OwnPut
  <2>3. (\A q \in Realms : frame'[q].after = frame[q].after) => Own'
    BY DEF Own
  <2> QED  BY <1>3, <2>2, <2>3 DEF StartStep, Others
<1>4. ASSUME NEW r \in Realms, NEW g \in Nat, RunStartStep(r, g) PROVE Own'
  <2>1. \A q \in Realms : frame'[q].after = frame[q].after
    BY <1>4 DEF RunStartStep, Others, SameLoads
  <2> QED  BY <2>1 DEF Own
<1>5. ASSUME NEW r \in Realms, NEW g \in Nat, FetchStep(r, g) PROVE Own'
  <2>1. \A q \in Realms : frame'[q].after = frame[q].after
    BY <1>5 DEF FetchStep, Others, SameLoads
  <2> QED  BY <2>1 DEF Own
<1>6. ASSUME NEW r \in Realms, NEW d \in Conts, d = "frames" => r \in Cards, CloseStep(r, d) PROVE Own'
  <2>1. \A q \in Realms : frame'[q].after = frame[q].after
    BY <1>6 DEF CloseStep, Others, SameLoads
  <2> QED  BY <2>1 DEF Own
<1>7. ASSUME NEW r \in Realms, ResetStep(r) PROVE Own'
  <2>1. ASSUME NEW q \in Realms PROVE frame'[q].after = frame[q].after \/ frame'[q].after = <<>>
    BY <1>7 DEF ResetStep
  <2>2. ASSUME NEW q \in Realms, NEW x \in Within(frame'[q].after) PROVE x[2] = q
    BY <2>1, <2>2, NoCall DEF Own
  <2> QED  BY <2>2 DEF Own
<1>8. ASSUME NEW r \in Realms, IdleStep(r) PROVE Own'
  <2>1. \A q \in Realms : frame'[q].after = frame[q].after
    BY <1>8 DEF IdleStep, Others, SameLoads
  <2> QED  BY <2>1 DEF Own
<1>9. ASSUME NEW r \in Realms, HearStep(r) PROVE Own'
  <2>1. \A q \in Realms : frame'[q].after = frame[q].after
    BY <1>9 DEF HearStep, Others, SameLoads
  <2> QED  BY <2>1 DEF Own
<1>10. ASSUME NEW r \in Realms, MoveStep(r) PROVE Own'
  <2>1. \A q \in Realms : frame'[q].after = frame[q].after
    BY <1>10 DEF MoveStep, Others, SameLoads
  <2> QED  BY <2>1 DEF Own
<1>11. ASSUME NEW c \in Cards, BootStep(c) PROVE Own'
  <2>1. \A q \in Realms : frame'[q].after = frame[q].after
    BY <1>11 DEF BootStep, Others, SameLoads
  <2> QED  BY <2>1 DEF Own
<1>12. ASSUME NEW c \in Cards, LoadedStep(c) PROVE Own'
  <2>1. \A q \in Realms : frame'[q].after = frame[q].after
    BY <1>12 DEF LoadedStep, Others, SameLoads
  <2> QED  BY <2>1 DEF Own
<1>13. ASSUME NEW c \in Cards, DisposeStep(c) PROVE Own'
  <2>1. \A q \in Realms : frame'[q].after = frame[q].after
    BY <1>13 DEF DisposeStep, Others, SameLoads
  <2> QED  BY <2>1 DEF Own
<1>14. ASSUME NEW c \in Cards, OwingStep(c) PROVE Own'
  <2>1. <<"frames", c, 0>> \in AfterItems /\ c \in Realms
    BY AnItem DEF AfterItems
  <2>2. CASE frame'[c].after = Append(frame[c].after, <<"frames", c, 0>>) /\ Others(c)
    BY <2>1, <2>2, OwnPut
  <2>3. (\A q \in Realms : frame'[q].after = frame[q].after) => Own'
    BY DEF Own
  <2> QED  BY <1>14, <2>2, <2>3 DEF OwingStep, Others
<1>15. ASSUME NEW c \in Cards, FramesStep(c) PROVE Own'
  <2>1. \A q \in Realms : frame'[q].after = frame[q].after
    BY <1>15 DEF FramesStep, Others, SameLoads
  <2> QED  BY <2>1 DEF Own
<1>16. ASSUME NEW c \in Cards, RecordsStep(c) PROVE Own'
  <2>1. \A q \in Realms : frame'[q].after = frame[q].after
    BY <1>16 DEF RecordsStep, Others, SameLoads
  <2> QED  BY <2>1 DEF Own
<1>17. ASSUME NEW c \in Cards, ArriveStep(c) PROVE Own'
  <2>1. \A q \in Realms : frame'[q].after = frame[q].after
    BY <1>17 DEF ArriveStep, Others, SameLoads
  <2> QED  BY <2>1 DEF Own
<1>18. ASSUME NEW c \in Cards, FlushStep(c) PROVE Own'
  <2>1. \A q \in Realms : frame'[q].after = frame[q].after
    BY <1>18 DEF FlushStep, Others, SameLoads
  <2> QED  BY <2>1 DEF Own
<1>19. ASSUME NEW c \in Cards, CloseRealmStep(c) PROVE Own'
  <2>1. \A q \in Realms : frame'[q].after = frame[q].after
    BY <1>19 DEF CloseRealmStep, Others, SameLoads
  <2> QED  BY <2>1 DEF Own
<1>20. ASSUME NEW c \in Cards, AckStep(c) PROVE Own'
  <2>1. \A q \in Realms : frame'[q].after = frame[q].after
    BY <1>20 DEF AckStep, Others, SameLoads
  <2> QED  BY <2>1 DEF Own
<1>21. ASSUME NEW c \in Cards, BtsStep(c) PROVE Own'
  <2>1. \A q \in Realms : frame'[q].after = frame[q].after
    BY <1>21 DEF BtsStep, Others, SameLoads
  <2> QED  BY <2>1 DEF Own
<1>22. ASSUME NEW c \in Cards, ObserveStep(c) PROVE Own'
  <2>1. \A q \in Realms : frame'[q].after = frame[q].after
    BY <1>22 DEF ObserveStep, Others, SameLoads
  <2> QED  BY <2>1 DEF Own
<1>23. CASE HeardStep
  <2>1. \A q \in Realms : frame'[q].after = frame[q].after
    BY <1>23 DEF HeardStep, Others, SameLoads
  <2> QED  BY <2>1 DEF Own
<1>24. CASE EpilogueStep
  <2>1. \A q \in Realms : frame'[q].after = frame[q].after
    BY <1>24 DEF EpilogueStep, Others, SameLoads
  <2> QED  BY <2>1 DEF Own
<1>25. CASE OpenStep
  <2>1. \A q \in Realms : frame'[q].after = frame[q].after
    BY <1>25 DEF OpenStep, Others, SameLoads
  <2> QED  BY <2>1 DEF Own
<1>26. CASE OpenEventsStep
  <2>1. \A q \in Realms : frame'[q].after = frame[q].after
    BY <1>26 DEF OpenEventsStep, Others, SameLoads
  <2> QED  BY <2>1 DEF Own
<1>27. CASE OpenRecordsStep
  <2>1. \A q \in Realms : frame'[q].after = frame[q].after
    BY <1>27 DEF OpenRecordsStep, Others, SameLoads
  <2> QED  BY <2>1 DEF Own
<1>28. CASE RecordStep
  <2>1. \A q \in Realms : frame'[q].after = frame[q].after
    BY <1>28 DEF RecordStep, Others, SameLoads
  <2> QED  BY <2>1 DEF Own
<1>29. CASE BeginStep
  <2>1. \A q \in Realms : frame'[q].after = frame[q].after
    BY <1>29 DEF BeginStep, Others, SameLoads
  <2> QED  BY <2>1 DEF Own
<1> QED  BY <1>1, <1>2, <1>3, <1>4, <1>5, <1>6, <1>7, <1>8, <1>9, <1>10, <1>11, <1>12, <1>13,
            <1>14, <1>15, <1>16, <1>17, <1>18, <1>19, <1>20, <1>21, <1>22, <1>23, <1>24, <1>25,
            <1>26, <1>27, <1>28, <1>29 DEF Does

(* Only the two steps that free kill a realm, and nothing runs then.       *)
Frees == /\ stack = <<>> /\ jobs = {} /\ UNCHANGED <<frame, stack, jobs>>
         /\ \E loads \in SUBSET (Realms \X Nat) : Freeing(loads)
Lives == \A c \in Cards : Alive(c) => Alive(c)'

(* A step either frees realms, and does nothing else, or frees none.       *)
LEMMA AliveKept ==
  ASSUME Typed, Kinds', Does
  PROVE  Lives \/ Frees
<1>1. ASSUME NEW r \in Realms, NEW s \in Srcs, SourceStep(r, s) PROVE Lives \/ Frees
  BY <1>1 DEF SourceStep, Lives, Alive, OtherCards, At
<1>2. ASSUME NEW r \in Realms, NEW s \in Srcs, SetSrcStep(r, s) PROVE Lives \/ Frees
  BY SMTT(30), <1>2 DEF SetSrcStep, Lives, Alive, OtherCards, At
<1>3. ASSUME NEW r \in Realms, NEW g \in Nat, StartStep(r, g) PROVE Lives \/ Frees
  BY <1>3 DEF StartStep, Lives, Alive, OtherCards, At
<1>4. ASSUME NEW r \in Realms, NEW g \in Nat, RunStartStep(r, g) PROVE Lives \/ Frees
  BY <1>4 DEF RunStartStep, Lives, Alive, OtherCards, At
<1>5. ASSUME NEW r \in Realms, NEW g \in Nat, FetchStep(r, g) PROVE Lives \/ Frees
  BY <1>5 DEF FetchStep, Lives, Alive, OtherCards, At
<1>6. ASSUME NEW r \in Realms, NEW d \in Conts, d = "frames" => r \in Cards, CloseStep(r, d) PROVE Lives \/ Frees
  BY <1>6 DEF CloseStep, Lives, Alive, OtherCards, At
<1>7. ASSUME NEW r \in Realms, ResetStep(r) PROVE Lives \/ Frees
  BY <1>7 DEF ResetStep, Lives, Alive, OtherCards, At
<1>8. ASSUME NEW r \in Realms, IdleStep(r) PROVE Lives \/ Frees
  BY <1>8 DEF IdleStep, Lives, Alive, OtherCards, At
<1>9. ASSUME NEW r \in Realms, HearStep(r) PROVE Lives \/ Frees
  BY <1>9 DEF HearStep, Lives, Alive, OtherCards, At
<1>10. ASSUME NEW r \in Realms, MoveStep(r) PROVE Lives \/ Frees
  BY <1>10 DEF MoveStep, Lives, Alive, OtherCards, At
<1>11. ASSUME NEW c \in Cards, BootStep(c) PROVE Lives \/ Frees
  <2>1. card[c].st # "unmade" /\ card'[c].st \in {card[c].st, "refused", "booting"} /\ OtherCards(c)
    BY <1>11 DEF BootStep, Typed, Made
  <2> QED  BY <2>1 DEF Lives, Alive, OtherCards
<1>12. ASSUME NEW c \in Cards, LoadedStep(c) PROVE Lives \/ Frees
  BY <1>12 DEF LoadedStep, Lives, Alive, OtherCards, At
<1>13. ASSUME NEW c \in Cards, DisposeStep(c) PROVE Lives \/ Frees
  BY <1>13 DEF DisposeStep, Lives, Alive, OtherCards, At
<1>14. ASSUME NEW c \in Cards, OwingStep(c) PROVE Lives \/ Frees
  BY <1>14 DEF OwingStep, Lives, Alive, OtherCards, At
<1>15. ASSUME NEW c \in Cards, FramesStep(c) PROVE Lives \/ Frees
  BY <1>15 DEF FramesStep, Lives, Alive, OtherCards, At
<1>16. ASSUME NEW c \in Cards, RecordsStep(c) PROVE Lives \/ Frees
  BY <1>16 DEF RecordsStep, Lives, Alive, OtherCards, At
<1>17. ASSUME NEW c \in Cards, ArriveStep(c) PROVE Lives \/ Frees
  BY <1>17 DEF ArriveStep, Lives, Alive, OtherCards, At
<1>18. ASSUME NEW c \in Cards, FlushStep(c) PROVE Lives \/ Frees
  BY <1>18 DEF FlushStep, Lives, Alive, OtherCards, At
<1>19. ASSUME NEW c \in Cards, CloseRealmStep(c) PROVE Lives \/ Frees
  BY <1>19 DEF CloseRealmStep, Lives, Alive, OtherCards, At
<1>20. ASSUME NEW c \in Cards, AckStep(c) PROVE Lives \/ Frees
  BY <1>20 DEF AckStep, Lives, Alive, OtherCards, At
<1>21. ASSUME NEW c \in Cards, BtsStep(c) PROVE Lives \/ Frees
  BY <1>21 DEF BtsStep, Lives, Alive, OtherCards, At
<1>22. ASSUME NEW c \in Cards, ObserveStep(c) PROVE Lives \/ Frees
  BY <1>22 DEF ObserveStep, Lives, Alive, OtherCards, At
<1>23. CASE HeardStep
  <2>1. CASE UNCHANGED card
    BY <2>1 DEF Lives, Alive
  <2>2. CASE Freeing(flying)
    BY <1>23, <2>2 DEF HeardStep, Frees, Typed, Kinds
  <2> QED  BY <1>23, <2>1, <2>2 DEF HeardStep
<1>24. CASE EpilogueStep
  <2>1. flying \cup asked \in SUBSET (Realms \X Nat)
    BY DEF Typed, Kinds
  <2> QED  BY <1>24, <2>1 DEF EpilogueStep, Frees
<1>25. CASE OpenStep
  BY <1>25 DEF OpenStep, Lives, Alive, OtherCards, At
<1>26. CASE OpenEventsStep
  BY <1>26 DEF OpenEventsStep, Lives, Alive, OtherCards, At
<1>27. CASE OpenRecordsStep
  BY <1>27 DEF OpenRecordsStep, Lives, Alive, OtherCards, At
<1>28. CASE RecordStep
  BY <1>28 DEF RecordStep, Lives, Alive, OtherCards, At
<1>29. CASE BeginStep
  BY <1>29 DEF BeginStep, Lives, Alive, OtherCards, At
<1> QED  BY <1>1, <1>2, <1>3, <1>4, <1>5, <1>6, <1>7, <1>8, <1>9, <1>10, <1>11, <1>12, <1>13,
            <1>14, <1>15, <1>16, <1>17, <1>18, <1>19, <1>20, <1>21, <1>22, <1>23, <1>24, <1>25,
            <1>26, <1>27, <1>28, <1>29 DEF Does


-----------------------------------------------------------------------------
(* A load is asked for, starts and makes its card once.                    *)

(* The terms of a load's token are numbers.                                *)
LEMMA TokenTerms ==
  ASSUME Typed, NEW r \in Realms, NEW g \in Nat
  PROVE  /\ Count(stack, Starts(r, g)) \in Nat /\ Count(frame[r].after, Starts(r, g)) \in Nat
         /\ If(<<"start", r, g>>, jobs) \in {0, 1} /\ If(<<r, g>>, asked) \in {0, 1}
         /\ If(<<r, g>>, flying) \in {0, 1} /\ Held(r, g) \in {0, 1} /\ Lim(r, g) \in {0, 1}
<1>1. stack \in Seq(Items)
  BY DEF Typed, Kinds
<1>2. Count(stack, Starts(r, g)) \in Nat
  BY <1>1, WithinCount
<1>3. Count(frame[r].after, Starts(r, g)) \in Nat
  BY AfterCount
<1> QED  BY <1>2, <1>3 DEF If, Held, Lim

(* They are after the step.                                                *)
LEMMA TokenTermsThen ==
  ASSUME Kinds', NEW r \in Realms, NEW g \in Nat
  PROVE  /\ Count(stack', Starts(r, g)) \in Nat /\ Count(frame'[r].after, Starts(r, g)) \in Nat
<1>1. stack' \in Seq(Items)
  BY DEF Kinds
<1>2. Count(stack', Starts(r, g)) \in Nat
  BY <1>1, WithinCount
<1> PICK s \in Seq(AfterItems) : s = frame'[r].after
  BY DEF Kinds, FrameRec
<1>3. Count(s, Starts(r, g)) \in Nat
  BY WithinCount
<1> QED  BY <1>2, <1>3

(* What a step may leave of the tokens: it makes no card, calls no start,  *)
(* lowers no generation, puts nothing off and queues no start.             *)
SameMade == \A c \in Cards : UNCHANGED <<card[c].host, card[c].gen>>
                             /\ (card'[c].st = "unmade" <=> card[c].st = "unmade")
Quieter == \A r \in Realms, g \in Nat : Count(stack', Starts(r, g)) <= Count(stack, Starts(r, g))
NoLower == \A r \in Realms : \/ UNCHANGED <<frame[r].gen, frame[r].loaded>>
                             \/ frame'[r].gen = frame[r].gen + 1
SameAfter == \A r \in Realms : UNCHANGED frame[r].after
NoStart == \A r \in Realms, g \in Nat : <<"start", r, g>> \in jobs' => <<"start", r, g>> \in jobs

(* The loads that have their card are the same.                            *)
LEMMA HeldSame == ASSUME SameMade PROVE \A r \in Realms, g \in Nat : Held(r, g)' = Held(r, g)
BY DEF SameMade, Held

(* A load that could be there still can.                                   *)
LEMMA LimKept ==
  ASSUME Typed, NoLower
  PROVE  \A r \in Realms, g \in Nat : Lim(r, g) <= Lim(r, g)'
<1>1. \A r \in Realms : frame[r].gen \in Nat
  BY DEF Typed, Kinds, FrameRec
<1> QED  BY <1>1 DEF Lim, NoLower

(* A token after the step, term by term.                                   *)
LEMMA TokenThen ==
  ASSUME NEW r \in Realms, NEW g \in Nat
  PROVE  Token(r, g)' = Count(stack', Starts(r, g)) + Count(frame'[r].after, Starts(r, g))
            + If(<<"start", r, g>>, jobs') + If(<<r, g>>, asked') + If(<<r, g>>, flying') + Held(r, g)'
BY DEF Token, Count, Places, Starts, If

(* A step that gives out no token.                                         *)
LEMMA TokensLess ==
  ASSUME Typed, Kinds', Tokens, Quieter, SameMade, NoLower, SameAfter, NoStart,
         asked' \subseteq asked, flying' \subseteq flying
  PROVE  Tokens'
<1>1. ASSUME NEW r \in Realms, NEW g \in Nat PROVE Token(r, g)' <= Lim(r, g)'
  <2>1. /\ Count(stack', Starts(r, g)) <= Count(stack, Starts(r, g))
        /\ frame'[r].after = frame[r].after /\ Held(r, g)' = Held(r, g) /\ Lim(r, g) <= Lim(r, g)'
    BY HeldSame, LimKept DEF Quieter, SameAfter
  <2>2. /\ If(<<"start", r, g>>, jobs') <= If(<<"start", r, g>>, jobs)
        /\ If(<<r, g>>, asked') <= If(<<r, g>>, asked)
        /\ If(<<r, g>>, flying') <= If(<<r, g>>, flying)
    BY DEF If, NoStart
  <2>3. /\ Count(stack, Starts(r, g)) \in Nat /\ Count(frame[r].after, Starts(r, g)) \in Nat
        /\ If(<<"start", r, g>>, jobs) \in {0, 1} /\ If(<<r, g>>, asked) \in {0, 1}
        /\ If(<<r, g>>, flying) \in {0, 1} /\ Held(r, g) \in {0, 1} /\ Lim(r, g) \in {0, 1}
    BY TokenTerms
  <2>4. Count(stack', Starts(r, g)) \in Nat /\ Lim(r, g)' \in {0, 1}
    BY TokenTermsThen DEF Lim
  <2>5. Token(r, g) <= Lim(r, g)
    BY DEF Tokens
  <2>6. /\ If(<<"start", r, g>>, jobs') \in {0, 1} /\ If(<<r, g>>, asked') \in {0, 1}
        /\ If(<<r, g>>, flying') \in {0, 1}
    BY DEF If
  <2>7. Token(r, g) = Count(stack, Starts(r, g)) + Count(frame[r].after, Starts(r, g))
            + If(<<"start", r, g>>, jobs) + If(<<r, g>>, asked) + If(<<r, g>>, flying) + Held(r, g)
    BY DEF Token
  <2>8. Token(r, g)' = Count(stack', Starts(r, g)) + Count(frame[r].after, Starts(r, g))
            + If(<<"start", r, g>>, jobs') + If(<<r, g>>, asked') + If(<<r, g>>, flying') + Held(r, g)
    BY <2>1, TokenThen
  <2> QED  BY <2>1, <2>2, <2>3, <2>4, <2>5, <2>6, <2>7, <2>8
<1> QED  BY <1>1 DEF Tokens

(* A call that returns calls no start.                                     *)
LEMMA QuietPop ==
  ASSUME Typed, stack # <<>>, stack' = Pop
  PROVE  Quieter
<1>1. ASSUME NEW r \in Realms, NEW g \in Nat
      PROVE  Count(stack', Starts(r, g)) <= Count(stack, Starts(r, g))
  <2>1. Count(stack, Starts(r, g)) = If(Top, Starts(r, g)) + Count(Pop, Starts(r, g))
    BY TopFacts
  <2>2. Count(Pop, Starts(r, g)) \in Nat
    BY TopFacts, WithinCount
  <2>3. Count(stack', Starts(r, g)) = Count(Pop, Starts(r, g))
    OBVIOUS
  <2> QED  BY <2>1, <2>2, <2>3 DEF If
<1> QED  BY <1>1 DEF Quieter

(* A call of another kind is no start.                                     *)
LEMMA QuietPush ==
  ASSUME Typed, stack # <<>>, NEW a, a[1] # "start", Pushed(a, Pop)
  PROVE  Quieter
<1>1. ASSUME NEW r \in Realms, NEW g \in Nat
      PROVE  Count(stack', Starts(r, g)) <= Count(stack, Starts(r, g))
  <2>1. Count(stack, Starts(r, g)) = If(Top, Starts(r, g)) + Count(Pop, Starts(r, g))
    BY TopFacts
  <2>2. Count(Pop, Starts(r, g)) \in Nat
    BY TopFacts, WithinCount
  <2>3. Count(stack', Starts(r, g)) = If(a, Starts(r, g)) + Count(Pop, Starts(r, g))
    BY DEF Pushed
  <2>4. a \notin Starts(r, g)
    BY DEF Starts
  <2> QED  BY <2>1, <2>2, <2>3, <2>4 DEF If
<1> QED  BY <1>1 DEF Quieter

(* A first call of another kind is no start.                               *)
LEMMA QuietOne ==
  ASSUME Typed, NEW a, a[1] # "start", Pushed(a, <<>>)
  PROVE  Quieter
<1>1. ASSUME NEW r \in Realms, NEW g \in Nat
      PROVE  Count(stack', Starts(r, g)) <= Count(stack, Starts(r, g))
  <2>1. Count(stack, Starts(r, g)) \in Nat
    BY TokenTerms
  <2>2. Count(<<>>, Starts(r, g)) = 0
    BY NoCall
  <2>3. Count(stack', Starts(r, g)) = If(a, Starts(r, g)) + Count(<<>>, Starts(r, g))
    BY DEF Pushed
  <2>4. a \notin Starts(r, g)
    BY DEF Starts
  <2> QED  BY <2>1, <2>2, <2>3, <2>4 DEF If
<1> QED  BY <1>1 DEF Quieter

(* Where nothing is called, no start is.                                   *)
LEMMA QuietSame == ASSUME Typed, UNCHANGED stack PROVE Quieter
<1>1. ASSUME NEW r \in Realms, NEW g \in Nat
      PROVE  Count(stack', Starts(r, g)) <= Count(stack, Starts(r, g))
  <2>1. Count(stack, Starts(r, g)) \in Nat
    BY TokenTerms
  <2>2. Count(stack', Starts(r, g)) = Count(stack, Starts(r, g))
    OBVIOUS
  <2> QED  BY <2>1, <2>2
<1> QED  BY <1>1 DEF Quieter

(* A release makes no card.                                                *)
LEMMA FreeingMade ==
  ASSUME NEW loads, Freeing(loads)
  PROVE  SameMade
<1>1. ASSUME NEW c \in Cards
      PROVE  UNCHANGED <<card[c].host, card[c].gen>> /\ (card'[c].st = "unmade" <=> card[c].st = "unmade")
  <2>1. UNCHANGED <<card[c].host, card[c].gen>>
        /\ card'[c].st = IF c \in Releasable(loads) THEN "freed" ELSE card[c].st
    BY DEF Freeing
  <2>2. c \in Releasable(loads) => card[c].st # "unmade"
    BY AnItem DEF Releasable, Alive
  <2> QED  BY <2>1, <2>2
<1> QED  BY <1>1 DEF SameMade

(* A token is given out by source alone, for a load of its own, and passed *)
(* on from the load asked for to its start and to the card.                *)
LEMMA TokensKept ==
  ASSUME Typed, Tokens, Own, Life, Kinds', Does
  PROVE  Tokens'
<1>1. ASSUME NEW r \in Realms, NEW s \in Srcs, SourceStep(r, s) PROVE Tokens'
  <2>1. SameMade
    BY <1>1 DEF SourceStep, SameMade
  <2>50. ASSUME NEW q \in Realms, NEW n \in Nat PROVE Token(q, n)' <= Lim(q, n)'
    <3>90. /\ Count(stack, Starts(q, n)) \in Nat /\ Count(frame[q].after, Starts(q, n)) \in Nat
          /\ If(<<"start", q, n>>, jobs) \in {0, 1} /\ If(<<q, n>>, asked) \in {0, 1}
          /\ If(<<q, n>>, flying) \in {0, 1} /\ Held(q, n) \in {0, 1} /\ Lim(q, n) \in {0, 1}
      BY TokenTerms
    <3>91. /\ Count(stack', Starts(q, n)) \in Nat /\ Count(frame'[q].after, Starts(q, n)) \in Nat
      BY TokenTermsThen
    <3>92. Token(q, n) <= Lim(q, n)
      BY DEF Tokens
    <3>93. Token(q, n) = Count(stack, Starts(q, n)) + Count(frame[q].after, Starts(q, n))
            + If(<<"start", q, n>>, jobs) + If(<<q, n>>, asked) + If(<<q, n>>, flying) + Held(q, n)
      BY DEF Token
    <3>94. Token(q, n)' = Count(stack', Starts(q, n)) + Count(frame'[q].after, Starts(q, n))
            + If(<<"start", q, n>>, jobs') + If(<<q, n>>, asked') + If(<<q, n>>, flying') + Held(q, n)'
      BY TokenThen
    <3>95. /\ If(<<"start", q, n>>, jobs') \in {0, 1} /\ If(<<q, n>>, asked') \in {0, 1}
           /\ If(<<q, n>>, flying') \in {0, 1}
      BY DEF If
    <3>96. frame[q].gen \in Nat
      BY DEF Typed, Kinds, FrameRec
    <3>1. Count(stack, Starts(q, n)) = If(Top, Starts(q, n)) + Count(stack', Starts(q, n))
      <4>1. Count(stack, Starts(q, n)) = If(Top, Starts(q, n)) + Count(Pop, Starts(q, n))
        BY <1>1, TopFacts DEF SourceStep, At
      <4> QED  BY <1>1, <4>1 DEF SourceStep
    <3>2. Held(q, n)' = Held(q, n)
      BY <2>1, HeldSame
    <3>3. frame'[q].after = frame[q].after
      BY <1>1 DEF SourceStep, Others
    <3>4. CASE q = r /\ n = frame[r].gen + 1
      <4>1. Lim(q, n) = 0 /\ Lim(q, n)' = 1
        BY <1>1, <3>4, <3>96 DEF Lim, SourceStep
      <4>2. /\ If(<<"start", q, n>>, jobs') + If(<<q, n>>, asked') <= 1
            /\ flying' = flying
        <5>1. If(<<"start", q, n>>, jobs) = 0 /\ If(<<q, n>>, asked) = 0
          BY <3>90, <3>92, <3>93, <4>1
        <5> QED  BY <1>1, <5>1 DEF SourceStep, If
      <4> QED  BY <3>1, <3>2, <3>3, <4>1, <4>2, <3>90, <3>91, <3>92, <3>93, <3>94, <3>95 DEF If
    <3>5. CASE ~(q = r /\ n = frame[r].gen + 1)
      <4>1. /\ If(<<"start", q, n>>, jobs') = If(<<"start", q, n>>, jobs)
            /\ If(<<q, n>>, asked') = If(<<q, n>>, asked) /\ flying' = flying
        BY <1>1, <3>5 DEF SourceStep, If
      <4>2. Lim(q, n) <= Lim(q, n)'
        BY <1>1, <3>96 DEF Lim, SourceStep, Others
      <4>3. Lim(q, n)' \in {0, 1}
        BY DEF Lim
      <4> QED  BY <3>1, <3>2, <3>3, <4>1, <4>2, <4>3, <3>90, <3>91, <3>92, <3>93, <3>94, <3>95 DEF If
    <3> QED  BY <3>4, <3>5
  <2> QED  BY <2>50 DEF Tokens
<1>2. ASSUME NEW r \in Realms, NEW s \in Srcs, SetSrcStep(r, s) PROVE Tokens'
  <2>1. Quieter
    <3>1. \A these : Count(stack', these) = If(<<"source", r, s>>, these)
              + (IF frame[r].src = NoSrc THEN 0 ELSE If(<<"close", r, "reset">>, these))
              + Count(stack, these)
      BY <1>2, SetSrcStack
    <3>2. ASSUME NEW q \in Realms, NEW g \in Nat
          PROVE  Count(stack', Starts(q, g)) <= Count(stack, Starts(q, g))
      <4>1. Count(stack', Starts(q, g)) = If(<<"source", r, s>>, Starts(q, g))
              + (IF frame[r].src = NoSrc THEN 0 ELSE If(<<"close", r, "reset">>, Starts(q, g)))
              + Count(stack, Starts(q, g))
        BY <3>1
      <4>2. <<"source", r, s>> \notin Starts(q, g) /\ <<"close", r, "reset">> \notin Starts(q, g)
        BY DEF Starts
      <4>3. Count(stack, Starts(q, g)) \in Nat
        BY TokenTerms
      <4> QED  BY <4>1, <4>2, <4>3 DEF If
    <3> QED  BY <3>2 DEF Quieter
  <2>2. SameMade
    BY <1>2 DEF SetSrcStep, SameMade, OtherCards, Freeing, Typed, Made
  <2>3. NoLower /\ SameAfter
    BY <1>2 DEF SetSrcStep, NoLower, SameAfter, Others, SameLoads
  <2>4. NoStart /\ asked' \subseteq asked /\ flying' \subseteq flying
    BY <1>2 DEF SetSrcStep, NoStart, SameLinks
  <2> QED  BY <2>1, <2>2, <2>3, <2>4, TokensLess
<1>3. ASSUME NEW r \in Realms, NEW g \in Nat, StartStep(r, g) PROVE Tokens'
  <2>1. CASE UNCHANGED <<frame, card, jobs>>
    <3>1. Quieter
      BY <1>3, QuietPop DEF StartStep, At
    <3>2. SameMade /\ NoLower /\ SameAfter /\ NoStart /\ asked' \subseteq asked /\ flying' \subseteq flying
      BY <1>3, <2>1 DEF StartStep, SameMade, NoLower, SameAfter, NoStart, SameLinks
    <3> QED  BY SMTT(30), <3>1, <3>2, TokensLess
  <2>2. ASSUME ~UNCHANGED <<frame, card, jobs>>, NEW q \in Realms, NEW n \in Nat
        PROVE  Token(q, n)' <= Lim(q, n)'
    <3>90. /\ Count(stack, Starts(q, n)) \in Nat /\ Count(frame[q].after, Starts(q, n)) \in Nat
          /\ If(<<"start", q, n>>, jobs) \in {0, 1} /\ If(<<q, n>>, asked) \in {0, 1}
          /\ If(<<q, n>>, flying) \in {0, 1} /\ Held(q, n) \in {0, 1} /\ Lim(q, n) \in {0, 1}
      BY TokenTerms
    <3>91. /\ Count(stack', Starts(q, n)) \in Nat /\ Count(frame'[q].after, Starts(q, n)) \in Nat
      BY TokenTermsThen
    <3>92. Token(q, n) <= Lim(q, n)
      BY DEF Tokens
    <3>93. Token(q, n) = Count(stack, Starts(q, n)) + Count(frame[q].after, Starts(q, n))
            + If(<<"start", q, n>>, jobs) + If(<<q, n>>, asked) + If(<<q, n>>, flying) + Held(q, n)
      BY DEF Token
    <3>94. Token(q, n)' = Count(stack', Starts(q, n)) + Count(frame'[q].after, Starts(q, n))
            + If(<<"start", q, n>>, jobs') + If(<<q, n>>, asked') + If(<<q, n>>, flying') + Held(q, n)'
      BY TokenThen
    <3>95. /\ If(<<"start", q, n>>, jobs') \in {0, 1} /\ If(<<q, n>>, asked') \in {0, 1}
           /\ If(<<q, n>>, flying') \in {0, 1}
      BY DEF If
    <3>96. frame[q].gen \in Nat
      BY SMTT(30) DEF Typed, Kinds, FrameRec
    <3>1. Count(stack, Starts(q, n)) = If(Top, Starts(q, n)) + Count(stack', Starts(q, n))
      <4>1. Count(stack, Starts(q, n)) = If(Top, Starts(q, n)) + Count(Pop, Starts(q, n))
        BY <1>3, TopFacts DEF StartStep, At
      <4> QED  BY SMTT(30), <1>3, <4>1 DEF StartStep
    <3>2. If(Top, Starts(q, n)) = (IF q = r /\ n = g THEN 1 ELSE 0)
      <4>1. Top = <<"start", r, g>>
        BY <1>3 DEF StartStep, At
      <4> QED  BY <4>1 DEF If, Starts
    <3>3. Lim(q, n)' = Lim(q, n) /\ asked' = asked /\ flying' = flying
      BY <1>3 DEF StartStep, Lim, Others, SameLinks
    <3>4. CASE /\ frame'[r].after = Append(frame[r].after, <<"start", r, g>>) /\ Others(r)
               /\ UNCHANGED <<card, jobs>>
      <4>1. SameMade
        BY <3>4 DEF SameMade
      <4>2. Held(q, n)' = Held(q, n) /\ jobs' = jobs
        BY <3>4, <4>1, HeldSame
      <4>3. Count(frame'[q].after, Starts(q, n))
              = Count(frame[q].after, Starts(q, n)) + (IF q = r /\ n = g THEN 1 ELSE 0)
        <5>1. CASE q = r
          <6>1. <<"start", r, g>> \in AfterItems
            BY SMTT(30) DEF AfterItems
          <6>2. Count(frame'[r].after, Starts(q, n))
                  = Count(frame[r].after, Starts(q, n)) + If(<<"start", r, g>>, Starts(q, n))
            BY ZenonT(60), <3>4, <6>1, AfterPut
          <6>3. If(<<"start", r, g>>, Starts(q, n)) = (IF q = r /\ n = g THEN 1 ELSE 0)
            BY DEF If, Starts
          <6> QED  BY <5>1, <6>2, <6>3
        <5>2. CASE q # r
          BY <3>4, <5>2, <3>90 DEF Others
        <5> QED  BY <5>1, <5>2
      <4>4. Token(q, n)' = Count(stack', Starts(q, n))
              + (Count(frame[q].after, Starts(q, n)) + (IF q = r /\ n = g THEN 1 ELSE 0))
              + If(<<"start", q, n>>, jobs) + If(<<q, n>>, asked) + If(<<q, n>>, flying) + Held(q, n)
        BY <3>3, <3>94, <4>2, <4>3
      <4>5. Token(q, n)' = Token(q, n)
        BY <3>1, <3>2, <3>93, <3>90, <3>91, <4>4
      <4> QED  BY <3>3, <3>92, <4>5
    <3>5. CASE ~(frame'[r].after = Append(frame[r].after, <<"start", r, g>>) /\ Others(r)
               /\ UNCHANGED <<card, jobs>>)
      <4>1. PICK c \in Cards :
             /\ card[c].st = "unmade" /\ jobs' = jobs \cup {<<"boot", c, 0>>}
             /\ OtherCards(c) /\ card'[c].st = "made" /\ card'[c].host = r /\ card'[c].gen = g
             /\ Others(r) /\ frame'[r].after = frame[r].after
        BY ZenonT(60), <1>3, <2>2, <3>5 DEF StartStep
      <4>2. frame'[q].after = frame[q].after
            /\ If(<<"start", q, n>>, jobs') = If(<<"start", q, n>>, jobs)
        BY <4>1 DEF Others, If
      <4>3. Held(q, n)' <= Held(q, n) + (IF q = r /\ n = g THEN 1 ELSE 0)
        <5>1. CASE q = r /\ n = g
          BY <5>1, <3>90 DEF Held
        <5>2. CASE ~(q = r /\ n = g)
          <6>1. Held(q, n)' = 1 => Held(q, n) = 1
            BY <4>1, <5>2 DEF Held, OtherCards
          <6>2. Held(q, n)' \in {0, 1}
            BY DEF Held
          <6> QED  BY <5>2, <6>1, <6>2, <3>90
        <5> QED  BY <5>1, <5>2
      <4>4. Held(q, n)' \in {0, 1}
        BY DEF Held
      <4>5. Token(q, n)' = Count(stack', Starts(q, n)) + Count(frame[q].after, Starts(q, n))
              + If(<<"start", q, n>>, jobs) + If(<<q, n>>, asked) + If(<<q, n>>, flying) + Held(q, n)'
        BY <3>3, <3>94, <4>2
      <4>6. Token(q, n)' <= Token(q, n)
        BY <3>1, <3>2, <3>93, <3>90, <3>91, <4>3, <4>4, <4>5
      <4>7. Token(q, n)' \in Nat /\ Token(q, n) \in Nat
        BY <3>90, <3>91, <3>93, <4>4, <4>5
      <4> QED  BY SMTT(30), <3>3, <3>90, <3>92, <4>6, <4>7
    <3> QED  BY <3>4, <3>5
  <2>3. CASE ~UNCHANGED <<frame, card, jobs>>
    BY <2>2, <2>3 DEF Tokens
  <2> QED  BY <2>1, <2>3
<1>4. ASSUME NEW r \in Realms, NEW g \in Nat, RunStartStep(r, g) PROVE Tokens'
  <2>1. SameMade
    BY <1>4 DEF RunStartStep, SameMade
  <2>50. ASSUME NEW q \in Realms, NEW n \in Nat PROVE Token(q, n)' <= Lim(q, n)'
    <3>90. /\ Count(stack, Starts(q, n)) \in Nat /\ Count(frame[q].after, Starts(q, n)) \in Nat
          /\ If(<<"start", q, n>>, jobs) \in {0, 1} /\ If(<<q, n>>, asked) \in {0, 1}
          /\ If(<<q, n>>, flying) \in {0, 1} /\ Held(q, n) \in {0, 1} /\ Lim(q, n) \in {0, 1}
      BY TokenTerms
    <3>91. /\ Count(stack', Starts(q, n)) \in Nat /\ Count(frame'[q].after, Starts(q, n)) \in Nat
      BY TokenTermsThen
    <3>92. Token(q, n) <= Lim(q, n)
      BY DEF Tokens
    <3>93. Token(q, n) = Count(stack, Starts(q, n)) + Count(frame[q].after, Starts(q, n))
            + If(<<"start", q, n>>, jobs) + If(<<q, n>>, asked) + If(<<q, n>>, flying) + Held(q, n)
      BY DEF Token
    <3>94. Token(q, n)' = Count(stack', Starts(q, n)) + Count(frame'[q].after, Starts(q, n))
            + If(<<"start", q, n>>, jobs') + If(<<q, n>>, asked') + If(<<q, n>>, flying') + Held(q, n)'
      BY TokenThen
    <3>95. /\ If(<<"start", q, n>>, jobs') \in {0, 1} /\ If(<<q, n>>, asked') \in {0, 1}
           /\ If(<<q, n>>, flying') \in {0, 1}
      BY DEF If
    <3>96. frame[q].gen \in Nat
      BY DEF Typed, Kinds, FrameRec
    <3>1. Held(q, n)' = Held(q, n)
      BY <2>1, HeldSame
    <3>2. frame' = frame /\ Lim(q, n)' = Lim(q, n)
      BY <1>4 DEF RunStartStep, Lim
    <3>3. Count(stack', Starts(q, n)) = If(<<"start", r, g>>, Starts(q, n)) + 0
      BY <1>4, NoCall DEF RunStartStep, Pushed
    <3>4. asked' = asked /\ flying' = flying
      BY <1>4 DEF RunStartStep, SameLinks
    <3>5. If(<<"start", r, g>>, Starts(q, n)) + If(<<"start", q, n>>, jobs') <= If(<<"start", q, n>>, jobs)
      <4>1. CASE q = r /\ n = g
        BY <1>4, <4>1 DEF RunStartStep, If, Starts
      <4>2. CASE ~(q = r /\ n = g)
        BY <1>4, <4>2 DEF RunStartStep, If, Starts
      <4> QED  BY <4>1, <4>2
    <3>6. If(<<"start", r, g>>, Starts(q, n)) \in {0, 1}
      BY DEF If
    <3> QED  BY <3>1, <3>2, <3>3, <3>4, <3>5, <3>6, <3>90, <3>91, <3>92, <3>93, <3>94, <3>95
  <2> QED  BY <2>50 DEF Tokens
<1>5. ASSUME NEW r \in Realms, NEW g \in Nat, FetchStep(r, g) PROVE Tokens'
  <2>1. SameMade
    BY <1>5 DEF FetchStep, SameMade
  <2>50. ASSUME NEW q \in Realms, NEW n \in Nat PROVE Token(q, n)' <= Lim(q, n)'
    <3>90. /\ Count(stack, Starts(q, n)) \in Nat /\ Count(frame[q].after, Starts(q, n)) \in Nat
          /\ If(<<"start", q, n>>, jobs) \in {0, 1} /\ If(<<q, n>>, asked) \in {0, 1}
          /\ If(<<q, n>>, flying) \in {0, 1} /\ Held(q, n) \in {0, 1} /\ Lim(q, n) \in {0, 1}
      BY TokenTerms
    <3>91. /\ Count(stack', Starts(q, n)) \in Nat /\ Count(frame'[q].after, Starts(q, n)) \in Nat
      BY TokenTermsThen
    <3>92. Token(q, n) <= Lim(q, n)
      BY DEF Tokens
    <3>93. Token(q, n) = Count(stack, Starts(q, n)) + Count(frame[q].after, Starts(q, n))
            + If(<<"start", q, n>>, jobs) + If(<<q, n>>, asked) + If(<<q, n>>, flying) + Held(q, n)
      BY DEF Token
    <3>94. Token(q, n)' = Count(stack', Starts(q, n)) + Count(frame'[q].after, Starts(q, n))
            + If(<<"start", q, n>>, jobs') + If(<<q, n>>, asked') + If(<<q, n>>, flying') + Held(q, n)'
      BY TokenThen
    <3>95. /\ If(<<"start", q, n>>, jobs') \in {0, 1} /\ If(<<q, n>>, asked') \in {0, 1}
           /\ If(<<q, n>>, flying') \in {0, 1}
      BY DEF If
    <3>96. frame[q].gen \in Nat
      BY DEF Typed, Kinds, FrameRec
    <3>1. Held(q, n)' = Held(q, n)
      BY <2>1, HeldSame
    <3>2. frame' = frame /\ Lim(q, n)' = Lim(q, n) /\ jobs' = jobs /\ asked' = asked
      BY <1>5 DEF FetchStep, Lim
    <3>3. \/ Count(stack', Starts(q, n)) = Count(stack, Starts(q, n))
          \/ Count(stack', Starts(q, n)) = If(<<"start", r, g>>, Starts(q, n)) + 0
      BY <1>5, NoCall DEF FetchStep, Pushed
    <3>5. If(<<"start", r, g>>, Starts(q, n)) + If(<<q, n>>, flying') <= If(<<q, n>>, flying)
      <4>1. CASE q = r /\ n = g
        BY <1>5, <4>1 DEF FetchStep, If, Starts
      <4>2. CASE ~(q = r /\ n = g)
        BY <1>5, <4>2 DEF FetchStep, If, Starts
      <4> QED  BY <4>1, <4>2
    <3>6. If(<<"start", r, g>>, Starts(q, n)) \in {0, 1}
      BY DEF If
    <3>7. Token(q, n)' = Count(stack', Starts(q, n)) + Count(frame[q].after, Starts(q, n))
            + If(<<"start", q, n>>, jobs) + If(<<q, n>>, asked) + If(<<q, n>>, flying') + Held(q, n)
      BY <3>1, <3>2, <3>94
    <3>8. Count(stack', Starts(q, n)) + If(<<q, n>>, flying') <= Count(stack, Starts(q, n)) + If(<<q, n>>, flying)
      BY <3>3, <3>5, <3>6, <3>90, <3>91, <3>95
    <3>9. Token(q, n)' <= Token(q, n)
      BY <3>7, <3>8, <3>90, <3>91, <3>93, <3>95
    <3>10. Token(q, n)' \in Nat /\ Token(q, n) \in Nat
      BY <3>7, <3>90, <3>91, <3>93, <3>95
    <3> QED  BY <3>2, <3>9, <3>10, <3>90, <3>92
  <2> QED  BY <2>50 DEF Tokens
<1>6. ASSUME NEW r \in Realms, NEW d \in Conts, d = "frames" => r \in Cards, CloseStep(r, d) PROVE Tokens'
  <2>1. Quieter
    <3>1. ASSUME NEW a, a[1] # "start", Pushed(a, Pop) PROVE Quieter
      BY <1>6, <3>1, QuietPush DEF CloseStep, At
    <3>2. d # "start"
      BY DEF Conts
    <3> QED  BY <1>6, <3>1, <3>2 DEF CloseStep
  <2>2. SameMade
    BY ZenonT(60), <1>6 DEF CloseStep, SameMade, OtherCards, Freeing, Typed, Made
  <2>3. NoLower /\ SameAfter
    BY <1>6 DEF CloseStep, NoLower, SameAfter, Others, SameLoads
  <2>4. NoStart /\ asked' \subseteq asked /\ flying' \subseteq flying
    BY <1>6 DEF CloseStep, NoStart, SameLinks
  <2> QED  BY <2>1, <2>2, <2>3, <2>4, TokensLess
<1>7. ASSUME NEW r \in Realms, ResetStep(r) PROVE Tokens'
  <2>1. SameMade
    BY <1>7 DEF ResetStep, SameMade
  <2>50. ASSUME NEW q \in Realms, NEW n \in Nat PROVE Token(q, n)' <= Lim(q, n)'
    <3>90. /\ Count(stack, Starts(q, n)) \in Nat /\ Count(frame[q].after, Starts(q, n)) \in Nat
          /\ If(<<"start", q, n>>, jobs) \in {0, 1} /\ If(<<q, n>>, asked) \in {0, 1}
          /\ If(<<q, n>>, flying) \in {0, 1} /\ Held(q, n) \in {0, 1} /\ Lim(q, n) \in {0, 1}
      BY TokenTerms
    <3>91. /\ Count(stack', Starts(q, n)) \in Nat /\ Count(frame'[q].after, Starts(q, n)) \in Nat
      BY TokenTermsThen
    <3>92. Token(q, n) <= Lim(q, n)
      BY DEF Tokens
    <3>93. Token(q, n) = Count(stack, Starts(q, n)) + Count(frame[q].after, Starts(q, n))
            + If(<<"start", q, n>>, jobs) + If(<<q, n>>, asked) + If(<<q, n>>, flying) + Held(q, n)
      BY DEF Token
    <3>94. Token(q, n)' = Count(stack', Starts(q, n)) + Count(frame'[q].after, Starts(q, n))
            + If(<<"start", q, n>>, jobs') + If(<<q, n>>, asked') + If(<<q, n>>, flying') + Held(q, n)'
      BY TokenThen
    <3>95. /\ If(<<"start", q, n>>, jobs') \in {0, 1} /\ If(<<q, n>>, asked') \in {0, 1}
           /\ If(<<q, n>>, flying') \in {0, 1}
      BY DEF If
    <3>96. frame[q].gen \in Nat
      BY DEF Typed, Kinds, FrameRec
    <3>1. Count(stack, Starts(q, n)) = If(Top, Starts(q, n)) + Count(Pop, Starts(q, n))
          /\ If(Top, Starts(q, n)) = 0
      <4>1. Count(stack, Starts(q, n)) = If(Top, Starts(q, n)) + Count(Pop, Starts(q, n))
        BY <1>7, TopFacts DEF ResetStep, At
      <4> QED  BY <1>7, <4>1 DEF ResetStep, At, Starts, If
    <3>2. Held(q, n)' = Held(q, n)
      BY <2>1, HeldSame
    <3>3. Lim(q, n)' = Lim(q, n) /\ jobs' = jobs /\ asked' = asked /\ flying' = flying
      BY <1>7 DEF ResetStep, Lim, SameLinks
    <3>4. CASE frame[r].owed # 1
      <4>1. Count(stack', Starts(q, n)) = Count(Pop, Starts(q, n))
            /\ frame'[q].after = frame[q].after
        BY <1>7, <3>4 DEF ResetStep
      <4> QED  BY <3>1, <3>2, <3>3, <4>1, <3>90, <3>91, <3>92, <3>93, <3>94, <3>95
    <3>5. CASE frame[r].owed = 1 /\ q = r
      <4>1. Count(stack', Starts(q, n)) = Count(frame[q].after, Starts(q, n)) + Count(Pop, Starts(q, n))
            /\ frame'[q].after = <<>>
        BY <1>7, <3>5 DEF ResetStep
      <4>2. Count(frame'[q].after, Starts(q, n)) = 0
        BY <4>1, NoCall
      <4>3. Token(q, n)' = Count(frame[q].after, Starts(q, n)) + Count(Pop, Starts(q, n)) + 0
              + If(<<"start", q, n>>, jobs) + If(<<q, n>>, asked) + If(<<q, n>>, flying) + Held(q, n)
        BY <3>2, <3>3, <3>94, <4>1, <4>2
      <4>4. Count(stack, Starts(q, n)) = Count(Pop, Starts(q, n))
        <5>1. Count(Pop, Starts(q, n)) \in Nat
          BY <1>7, TopFacts, WithinCount DEF ResetStep, At
        <5> QED  BY <3>1, <5>1
      <4>5. Token(q, n)' = Token(q, n)
        BY <3>93, <3>90, <4>3, <4>4
      <4> QED  BY <3>3, <3>92, <4>5
    <3>6. CASE frame[r].owed = 1 /\ q # r
      <4>1. Count(stack', Starts(q, n)) = Count(frame[r].after, Starts(q, n)) + Count(Pop, Starts(q, n))
            /\ frame'[q].after = frame[q].after
        BY <1>7, <3>6 DEF ResetStep
      <4>2. Count(frame[r].after, Starts(q, n)) = 0
        <5> PICK l \in Seq(AfterItems) : l = frame[r].after
          BY DEF Typed, Kinds, FrameRec
        <5>1. \A x \in Starts(q, n) : x \notin Within(l)
          BY <3>6 DEF Own, Starts
        <5>2. Count(l, Starts(q, n)) = 0
          BY <5>1, WithinCount
        <5> QED  BY <5>2
      <4> QED  BY <3>1, <3>2, <3>3, <4>1, <4>2, <3>90, <3>91, <3>92, <3>93, <3>94, <3>95
    <3> QED  BY <3>4, <3>5, <3>6
  <2> QED  BY <2>50 DEF Tokens
<1>8. ASSUME NEW r \in Realms, IdleStep(r) PROVE Tokens'
  <2>1. Quieter
    BY <1>8, QuietPop DEF IdleStep, At
  <2>2. SameMade
    BY <1>8 DEF IdleStep, SameMade, OtherCards, Freeing, Typed, Made
  <2>3. NoLower /\ SameAfter
    BY <1>8 DEF IdleStep, NoLower, SameAfter, Others, SameLoads
  <2>4. NoStart /\ asked' \subseteq asked /\ flying' \subseteq flying
    BY <1>8 DEF IdleStep, NoStart, SameLinks
  <2> QED  BY <2>1, <2>2, <2>3, <2>4, TokensLess
<1>9. ASSUME NEW r \in Realms, HearStep(r) PROVE Tokens'
  <2>1. Quieter
    <3>1. CASE UNCHANGED stack
      BY <3>1, QuietSame
    <3>2. CASE Pushed(<<"source", r, frame[r].src>>, <<>>)
      BY <3>2, QuietOne
    <3>3. CASE Pushed(<<"close", r, "reset">>, <<>>)
      BY <3>3, QuietOne
    <3> QED  BY <1>9, <3>1, <3>2, <3>3 DEF HearStep
  <2>2. SameMade
    BY <1>9 DEF HearStep, SameMade, OtherCards, Freeing, Typed, Made
  <2>3. NoLower /\ SameAfter
    BY <1>9 DEF HearStep, NoLower, SameAfter, Others, SameLoads
  <2>4. NoStart /\ asked' \subseteq asked /\ flying' \subseteq flying
    BY <1>9 DEF HearStep, NoStart, SameLinks
  <2> QED  BY <2>1, <2>2, <2>3, <2>4, TokensLess
<1>10. ASSUME NEW r \in Realms, MoveStep(r) PROVE Tokens'
  <2>1. Quieter
    BY <1>10, QuietSame DEF MoveStep, At
  <2>2. SameMade
    BY <1>10 DEF MoveStep, SameMade, OtherCards, Freeing, Typed, Made
  <2>3. NoLower /\ SameAfter
    BY <1>10 DEF MoveStep, NoLower, SameAfter, Others, SameLoads
  <2>4. NoStart /\ asked' \subseteq asked /\ flying' \subseteq flying
    BY <1>10 DEF MoveStep, NoStart, SameLinks
  <2> QED  BY <2>1, <2>2, <2>3, <2>4, TokensLess
<1>11. ASSUME NEW c \in Cards, BootStep(c) PROVE Tokens'
  <2>1. Quieter
    <3>1. CASE stack' = <<>>
      BY <1>11, <3>1, QuietSame DEF BootStep
    <3>2. CASE Pushed(<<"loading", c, 0>>, <<>>)
      BY <3>2, QuietOne
    <3> QED  BY <1>11, <3>1, <3>2 DEF BootStep
  <2>2. SameMade
    BY <1>11 DEF BootStep, SameMade, OtherCards, Freeing, Typed, Made
  <2>3. NoLower /\ SameAfter
    BY <1>11 DEF BootStep, NoLower, SameAfter, Others, SameLoads
  <2>4. NoStart /\ asked' \subseteq asked /\ flying' \subseteq flying
    BY <1>11 DEF BootStep, NoStart, SameLinks
  <2> QED  BY <2>1, <2>2, <2>3, <2>4, TokensLess
<1>12. ASSUME NEW c \in Cards, LoadedStep(c) PROVE Tokens'
  <2>1. Quieter
    BY <1>12, QuietPop DEF LoadedStep, At
  <2>2. SameMade
    <3>1. <<"loading", c, 0>> \in Within(stack)
      BY <1>12, TopFacts DEF LoadedStep, At
    <3>2. card[c].st # "unmade"
      BY <3>1, AnItem DEF Life, Alive, Page
    <3>3. OtherCards(c) /\ UNCHANGED <<card[c].host, card[c].gen>> /\ card'[c].st # "unmade"
      BY <1>12 DEF LoadedStep
    <3> QED  BY <3>2, <3>3 DEF SameMade, OtherCards
  <2>3. NoLower /\ SameAfter
    BY <1>12 DEF LoadedStep, NoLower, SameAfter, Others, SameLoads
  <2>4. NoStart /\ asked' \subseteq asked /\ flying' \subseteq flying
    BY <1>12 DEF LoadedStep, NoStart, SameLinks
  <2> QED  BY <2>1, <2>2, <2>3, <2>4, TokensLess
<1>13. ASSUME NEW c \in Cards, DisposeStep(c) PROVE Tokens'
  <2>1. Quieter
    <3>1. PICK k \in {"records", "arrive"} :
            \A these : Count(stack', these) =
                (IF frame[c].loaded THEN If(<<"close", c, "frames">>, these) ELSE 0)
                + If(<<"owing", c, 0>>, these) + If(<<"frames", c, 0>>, these)
                + If(<<k, c, 0>>, these) + Count(Pop, these)
      BY <1>13, DisposeStack
    <3>2. stack # <<>> /\ Pop \in Seq(Items)
      BY <1>13, TopFacts DEF DisposeStep, At
    <3>3. ASSUME NEW r \in Realms, NEW g \in Nat
          PROVE  Count(stack', Starts(r, g)) <= Count(stack, Starts(r, g))
      <4>1. /\ Count(stack, Starts(r, g)) = If(Top, Starts(r, g)) + Count(Pop, Starts(r, g))
            /\ Count(Pop, Starts(r, g)) \in Nat
        BY <3>2, TopFacts, WithinCount
      <4>2. /\ <<"close", c, "frames">> \notin Starts(r, g) /\ <<"owing", c, 0>> \notin Starts(r, g)
            /\ <<"frames", c, 0>> \notin Starts(r, g) /\ <<k, c, 0>> \notin Starts(r, g)
        BY DEF Starts
      <4>3. Count(stack', Starts(r, g)) =
                (IF frame[c].loaded THEN If(<<"close", c, "frames">>, Starts(r, g)) ELSE 0)
                + If(<<"owing", c, 0>>, Starts(r, g)) + If(<<"frames", c, 0>>, Starts(r, g))
                + If(<<k, c, 0>>, Starts(r, g)) + Count(Pop, Starts(r, g))
        BY <3>1
      <4>4. Count(stack', Starts(r, g)) = Count(Pop, Starts(r, g))
        BY <4>1, <4>2, <4>3 DEF If
      <4> QED  BY <4>1, <4>4 DEF If
    <3> QED  BY <3>3 DEF Quieter
  <2>2. SameMade
    <3>3. OtherCards(c) /\ UNCHANGED <<card[c].host, card[c].gen, card[c].st>>
      BY <1>13 DEF DisposeStep
    <3> QED  BY <3>3 DEF SameMade, OtherCards
  <2>3. NoLower /\ SameAfter
    BY <1>13 DEF DisposeStep, NoLower, SameAfter, Others, SameLoads
  <2>4. NoStart /\ asked' \subseteq asked /\ flying' \subseteq flying
    BY <1>13 DEF DisposeStep, NoStart, SameLinks
  <2> QED  BY <2>1, <2>2, <2>3, <2>4, TokensLess
<1>14. ASSUME NEW c \in Cards, OwingStep(c) PROVE Tokens'
  <2>1. SameMade
    BY <1>14 DEF OwingStep, SameMade, OtherCards
  <2>2. <<"frames", c, 0>> \in AfterItems /\ c \in Realms
    BY AnItem DEF AfterItems
  <2>50. ASSUME NEW q \in Realms, NEW n \in Nat PROVE Token(q, n)' <= Lim(q, n)'
    <3>90. /\ Count(stack, Starts(q, n)) \in Nat /\ Count(frame[q].after, Starts(q, n)) \in Nat
          /\ If(<<"start", q, n>>, jobs) \in {0, 1} /\ If(<<q, n>>, asked) \in {0, 1}
          /\ If(<<q, n>>, flying) \in {0, 1} /\ Held(q, n) \in {0, 1} /\ Lim(q, n) \in {0, 1}
      BY TokenTerms
    <3>91. /\ Count(stack', Starts(q, n)) \in Nat /\ Count(frame'[q].after, Starts(q, n)) \in Nat
      BY TokenTermsThen
    <3>92. Token(q, n) <= Lim(q, n)
      BY DEF Tokens
    <3>93. Token(q, n) = Count(stack, Starts(q, n)) + Count(frame[q].after, Starts(q, n))
            + If(<<"start", q, n>>, jobs) + If(<<q, n>>, asked) + If(<<q, n>>, flying) + Held(q, n)
      BY DEF Token
    <3>94. Token(q, n)' = Count(stack', Starts(q, n)) + Count(frame'[q].after, Starts(q, n))
            + If(<<"start", q, n>>, jobs') + If(<<q, n>>, asked') + If(<<q, n>>, flying') + Held(q, n)'
      BY TokenThen
    <3>95. /\ If(<<"start", q, n>>, jobs') \in {0, 1} /\ If(<<q, n>>, asked') \in {0, 1}
           /\ If(<<q, n>>, flying') \in {0, 1}
      BY DEF If
    <3>96. frame[q].gen \in Nat
      BY DEF Typed, Kinds, FrameRec
    <3>1. Count(stack, Starts(q, n)) = If(Top, Starts(q, n)) + Count(stack', Starts(q, n))
      <4>1. Count(stack, Starts(q, n)) = If(Top, Starts(q, n)) + Count(Pop, Starts(q, n))
        BY <1>14, TopFacts DEF OwingStep, At
      <4> QED  BY <1>14, <4>1 DEF OwingStep
    <3>2. Held(q, n)' = Held(q, n)
      BY <2>1, HeldSame
    <3>3. Lim(q, n)' = Lim(q, n) /\ jobs' = jobs /\ asked' = asked /\ flying' = flying
      BY ZenonT(60), <1>14 DEF OwingStep, Lim, Others, SameLinks
    <3>4. Count(frame'[q].after, Starts(q, n)) = Count(frame[q].after, Starts(q, n))
      <4>1. CASE frame'[q].after = frame[q].after
        BY <4>1
      <4>2. CASE q = c /\ frame'[c].after = Append(frame[c].after, <<"frames", c, 0>>)
        <5>1. Count(frame'[c].after, Starts(q, n))
                = Count(frame[c].after, Starts(q, n)) + If(<<"frames", c, 0>>, Starts(q, n))
          BY <2>2, <4>2, AfterPut
        <5>2. <<"frames", c, 0>> \notin Starts(q, n)
          BY DEF Starts
        <5> QED  BY SMTT(30), <4>2, <5>1, <5>2, <3>90 DEF If
      <4> QED  BY <1>14, <4>1, <4>2 DEF OwingStep, Others
    <3> QED  BY <3>1, <3>2, <3>3, <3>4, <3>90, <3>91, <3>92, <3>93, <3>94, <3>95 DEF If
  <2> QED  BY <2>50 DEF Tokens
<1>15. ASSUME NEW c \in Cards, FramesStep(c) PROVE Tokens'
  <2>1. Quieter
    <3>1. CASE stack' = Pop
      BY <1>15, <3>1, QuietPop DEF FramesStep, At
    <3>2. CASE Pushed(<<"arrive", c, 0>>, Pop)
      BY <1>15, <3>2, QuietPush DEF FramesStep, At
    <3> QED  BY <1>15, <3>1, <3>2 DEF FramesStep
  <2>2. SameMade
    BY <1>15 DEF FramesStep, SameMade, OtherCards, Freeing, Typed, Made
  <2>3. NoLower /\ SameAfter
    BY <1>15 DEF FramesStep, NoLower, SameAfter, Others, SameLoads
  <2>4. NoStart /\ asked' \subseteq asked /\ flying' \subseteq flying
    BY <1>15 DEF FramesStep, NoStart, SameLinks
  <2> QED  BY <2>1, <2>2, <2>3, <2>4, TokensLess
<1>16. ASSUME NEW c \in Cards, RecordsStep(c) PROVE Tokens'
  <2>1. Quieter
    BY <1>16, QuietPop DEF RecordsStep, At
  <2>2. SameMade
    BY <1>16 DEF RecordsStep, SameMade, OtherCards, Freeing, Typed, Made
  <2>3. NoLower /\ SameAfter
    BY <1>16 DEF RecordsStep, NoLower, SameAfter, Others, SameLoads
  <2>4. NoStart /\ asked' \subseteq asked /\ flying' \subseteq flying
    BY <1>16 DEF RecordsStep, NoStart, SameLinks
  <2> QED  BY <2>1, <2>2, <2>3, <2>4, TokensLess
<1>17. ASSUME NEW c \in Cards, ArriveStep(c) PROVE Tokens'
  <2>1. Quieter
    <3>1. CASE stack' = Pop
      BY <1>17, <3>1, QuietPop DEF ArriveStep, At
    <3>2. card[c].done # "start"
      BY DEF Typed, Kinds, CardRec, Dones, Conts
    <3>3. CASE Pushed(<<card[c].done, card[c].host, 0>>, Pop)
      BY <1>17, <3>2, <3>3, QuietPush DEF ArriveStep, At
    <3> QED  BY <1>17, <3>1, <3>3 DEF ArriveStep
  <2>2. SameMade
    BY <1>17 DEF ArriveStep, SameMade, OtherCards, Freeing, Typed, Made
  <2>3. NoLower /\ SameAfter
    BY <1>17 DEF ArriveStep, NoLower, SameAfter, Others, SameLoads
  <2>4. NoStart /\ asked' \subseteq asked /\ flying' \subseteq flying
    BY <1>17 DEF ArriveStep, NoStart, SameLinks
  <2> QED  BY <2>1, <2>2, <2>3, <2>4, TokensLess
<1>18. ASSUME NEW c \in Cards, FlushStep(c) PROVE Tokens'
  <2>1. Quieter
    <3>1. CASE stack' = <<>>
      BY <1>18, <3>1, QuietSame DEF FlushStep
    <3>2. CASE Pushed(<<"arrive", c, 0>>, <<>>)
      BY <3>2, QuietOne
    <3> QED  BY <1>18, <3>1, <3>2 DEF FlushStep
  <2>2. SameMade
    BY <1>18 DEF FlushStep, SameMade, OtherCards, Freeing, Typed, Made
  <2>3. NoLower /\ SameAfter
    BY <1>18 DEF FlushStep, NoLower, SameAfter, Others, SameLoads
  <2>4. NoStart /\ asked' \subseteq asked /\ flying' \subseteq flying
    BY <1>18 DEF FlushStep, NoStart, SameLinks
  <2> QED  BY <2>1, <2>2, <2>3, <2>4, TokensLess
<1>19. ASSUME NEW c \in Cards, CloseRealmStep(c) PROVE Tokens'
  <2>1. Quieter
    BY <1>19, QuietSame DEF CloseRealmStep, At
  <2>2. SameMade
    BY <1>19 DEF CloseRealmStep, SameMade, OtherCards, Freeing, Typed, Made
  <2>3. NoLower /\ SameAfter
    BY <1>19 DEF CloseRealmStep, NoLower, SameAfter, Others, SameLoads
  <2>4. NoStart /\ asked' \subseteq asked /\ flying' \subseteq flying
    BY <1>19 DEF CloseRealmStep, NoStart, SameLinks
  <2> QED  BY <2>1, <2>2, <2>3, <2>4, TokensLess
<1>20. ASSUME NEW c \in Cards, AckStep(c) PROVE Tokens'
  <2>1. Quieter
    BY <1>20, QuietSame DEF AckStep, At
  <2>2. SameMade
    BY <1>20 DEF AckStep, SameMade, OtherCards, Freeing, Typed, Made
  <2>3. NoLower /\ SameAfter
    BY <1>20 DEF AckStep, NoLower, SameAfter, Others, SameLoads
  <2>4. NoStart /\ asked' \subseteq asked /\ flying' \subseteq flying
    BY <1>20 DEF AckStep, NoStart, SameLinks
  <2> QED  BY <2>1, <2>2, <2>3, <2>4, TokensLess
<1>21. ASSUME NEW c \in Cards, BtsStep(c) PROVE Tokens'
  <2>1. Quieter
    BY <1>21, QuietSame DEF BtsStep, At
  <2>2. SameMade
    BY <1>21 DEF BtsStep, SameMade, OtherCards, Freeing, Typed, Made
  <2>3. NoLower /\ SameAfter
    BY <1>21 DEF BtsStep, NoLower, SameAfter, Others, SameLoads
  <2>4. NoStart /\ asked' \subseteq asked /\ flying' \subseteq flying
    BY <1>21 DEF BtsStep, NoStart, SameLinks
  <2> QED  BY <2>1, <2>2, <2>3, <2>4, TokensLess
<1>22. ASSUME NEW c \in Cards, ObserveStep(c) PROVE Tokens'
  <2>1. Quieter
    BY <1>22, QuietSame DEF ObserveStep, At
  <2>2. SameMade
    BY <1>22 DEF ObserveStep, SameMade, OtherCards, Freeing, Typed, Made
  <2>3. NoLower /\ SameAfter
    BY <1>22 DEF ObserveStep, NoLower, SameAfter, Others, SameLoads
  <2>4. NoStart /\ asked' \subseteq asked /\ flying' \subseteq flying
    BY <1>22 DEF ObserveStep, NoStart, SameLinks
  <2> QED  BY <2>1, <2>2, <2>3, <2>4, TokensLess
<1>23. CASE HeardStep
  <2>1. Quieter
    BY <1>23, QuietSame DEF HeardStep, At
  <2>2. SameMade
    <3>1. CASE UNCHANGED card
      BY <3>1 DEF SameMade
    <3>2. CASE Freeing(flying)
      BY <3>2, FreeingMade
    <3> QED  BY <1>23, <3>1, <3>2 DEF HeardStep
  <2>3. NoLower /\ SameAfter
    BY <1>23 DEF HeardStep, NoLower, SameAfter, Others, SameLoads
  <2>4. NoStart /\ asked' \subseteq asked /\ flying' \subseteq flying
    BY <1>23 DEF HeardStep, NoStart, SameLinks
  <2> QED  BY <2>1, <2>2, <2>3, <2>4, TokensLess
<1>24. CASE EpilogueStep
  <2>1. SameMade
    BY <1>24, FreeingMade DEF EpilogueStep
  <2>50. ASSUME NEW q \in Realms, NEW n \in Nat PROVE Token(q, n)' <= Lim(q, n)'
    <3>90. /\ Count(stack, Starts(q, n)) \in Nat /\ Count(frame[q].after, Starts(q, n)) \in Nat
          /\ If(<<"start", q, n>>, jobs) \in {0, 1} /\ If(<<q, n>>, asked) \in {0, 1}
          /\ If(<<q, n>>, flying) \in {0, 1} /\ Held(q, n) \in {0, 1} /\ Lim(q, n) \in {0, 1}
      BY TokenTerms
    <3>91. /\ Count(stack', Starts(q, n)) \in Nat /\ Count(frame'[q].after, Starts(q, n)) \in Nat
      BY TokenTermsThen
    <3>92. Token(q, n) <= Lim(q, n)
      BY DEF Tokens
    <3>93. Token(q, n) = Count(stack, Starts(q, n)) + Count(frame[q].after, Starts(q, n))
            + If(<<"start", q, n>>, jobs) + If(<<q, n>>, asked) + If(<<q, n>>, flying) + Held(q, n)
      BY DEF Token
    <3>94. Token(q, n)' = Count(stack', Starts(q, n)) + Count(frame'[q].after, Starts(q, n))
            + If(<<"start", q, n>>, jobs') + If(<<q, n>>, asked') + If(<<q, n>>, flying') + Held(q, n)'
      BY TokenThen
    <3>95. /\ If(<<"start", q, n>>, jobs') \in {0, 1} /\ If(<<q, n>>, asked') \in {0, 1}
           /\ If(<<q, n>>, flying') \in {0, 1}
      BY DEF If
    <3>96. frame[q].gen \in Nat
      BY DEF Typed, Kinds, FrameRec
    <3>1. Held(q, n)' = Held(q, n)
      BY <2>1, HeldSame
    <3>2. frame' = frame /\ Lim(q, n)' = Lim(q, n) /\ jobs' = jobs
      BY <1>24 DEF EpilogueStep, Lim
    <3>3. Count(stack', Starts(q, n)) = Count(stack, Starts(q, n))
      BY <1>24 DEF EpilogueStep
    <3>5. If(<<q, n>>, asked') + If(<<q, n>>, flying') <= If(<<q, n>>, asked) + If(<<q, n>>, flying)
      BY <1>24 DEF EpilogueStep, If
    <3> QED  BY <3>1, <3>2, <3>3, <3>5, <3>90, <3>91, <3>92, <3>93, <3>94, <3>95
  <2> QED  BY <2>50 DEF Tokens
<1>25. CASE OpenStep
  <2>1. Quieter
    BY <1>25, QuietSame DEF OpenStep, At
  <2>2. SameMade
    BY <1>25 DEF OpenStep, SameMade, OtherCards, Freeing, Typed, Made
  <2>3. NoLower /\ SameAfter
    BY <1>25 DEF OpenStep, NoLower, SameAfter, Others, SameLoads
  <2>4. NoStart /\ asked' \subseteq asked /\ flying' \subseteq flying
    BY <1>25 DEF OpenStep, NoStart, SameLinks
  <2> QED  BY <2>1, <2>2, <2>3, <2>4, TokensLess
<1>26. CASE OpenEventsStep
  <2>1. Quieter
    BY <1>26, QuietSame DEF OpenEventsStep, At
  <2>2. SameMade
    BY <1>26 DEF OpenEventsStep, SameMade, OtherCards, Freeing, Typed, Made
  <2>3. NoLower /\ SameAfter
    BY <1>26 DEF OpenEventsStep, NoLower, SameAfter, Others, SameLoads
  <2>4. NoStart /\ asked' \subseteq asked /\ flying' \subseteq flying
    BY <1>26 DEF OpenEventsStep, NoStart, SameLinks
  <2> QED  BY <2>1, <2>2, <2>3, <2>4, TokensLess
<1>27. CASE OpenRecordsStep
  <2>1. Quieter
    BY <1>27, QuietSame DEF OpenRecordsStep, At
  <2>2. SameMade
    BY <1>27 DEF OpenRecordsStep, SameMade, OtherCards, Freeing, Typed, Made
  <2>3. NoLower /\ SameAfter
    BY <1>27 DEF OpenRecordsStep, NoLower, SameAfter, Others, SameLoads
  <2>4. NoStart /\ asked' \subseteq asked /\ flying' \subseteq flying
    BY <1>27 DEF OpenRecordsStep, NoStart, SameLinks
  <2> QED  BY <2>1, <2>2, <2>3, <2>4, TokensLess
<1>28. CASE RecordStep
  <2>1. Quieter
    BY <1>28, QuietSame DEF RecordStep, At
  <2>2. SameMade
    BY <1>28 DEF RecordStep, SameMade, OtherCards, Freeing, Typed, Made
  <2>3. NoLower /\ SameAfter
    BY <1>28 DEF RecordStep, NoLower, SameAfter, Others, SameLoads
  <2>4. NoStart /\ asked' \subseteq asked /\ flying' \subseteq flying
    BY <1>28 DEF RecordStep, NoStart, SameLinks
  <2> QED  BY <2>1, <2>2, <2>3, <2>4, TokensLess
<1>29. CASE BeginStep
  <2>1. Quieter
    <3>1. \A these : Count(stack', these) =
              (IF frame[Page].loaded THEN If(<<"close", Page, "nothing">>, these) ELSE 0)
              + If(<<"askPage", Page, 0>>, these)
      BY <1>29, BeginStack
    <3>2. ASSUME NEW q \in Realms, NEW g \in Nat
          PROVE  Count(stack', Starts(q, g)) <= Count(stack, Starts(q, g))
      <4>1. Count(stack', Starts(q, g)) =
              (IF frame[Page].loaded THEN If(<<"close", Page, "nothing">>, Starts(q, g)) ELSE 0)
              + If(<<"askPage", Page, 0>>, Starts(q, g))
        BY <3>1
      <4>2. <<"close", Page, "nothing">> \notin Starts(q, g) /\ <<"askPage", Page, 0>> \notin Starts(q, g)
        BY DEF Starts
      <4>3. Count(stack, Starts(q, g)) \in Nat
        BY TokenTerms
      <4> QED  BY <4>1, <4>2, <4>3 DEF If
    <3> QED  BY <3>2 DEF Quieter
  <2>2. SameMade
    BY <1>29 DEF BeginStep, SameMade, OtherCards, Freeing, Typed, Made
  <2>3. NoLower /\ SameAfter
    BY <1>29 DEF BeginStep, NoLower, SameAfter, Others, SameLoads
  <2>4. NoStart /\ asked' \subseteq asked /\ flying' \subseteq flying
    BY <1>29 DEF BeginStep, NoStart, SameLinks
  <2> QED  BY <2>1, <2>2, <2>3, <2>4, TokensLess
<1> QED  BY <1>1, <1>2, <1>3, <1>4, <1>5, <1>6, <1>7, <1>8, <1>9, <1>10, <1>11, <1>12, <1>13,
            <1>14, <1>15, <1>16, <1>17, <1>18, <1>19, <1>20, <1>21, <1>22, <1>23, <1>24, <1>25,
            <1>26, <1>27, <1>28, <1>29 DEF Does


-----------------------------------------------------------------------------
(* Where a call comes from.                                                *)

(* The call on top and those below it.                                     *)
LEMMA AtFacts ==
  ASSUME Typed, Shape, NEW k, NEW r, NEW a, At(k, r, a)
  PROVE  /\ stack # <<>> /\ Top = <<k, r, a>> /\ Top[1] = k /\ Top[2] = r
         /\ Pop \in Seq(Items) /\ Within(stack) = {<<k, r, a>>} \cup Within(Pop)
         /\ \A x \in Within(Pop) : x \in Within(stack) /\ x[1] \in Deep
<1>1. stack # <<>> /\ Top = <<k, r, a>>
  BY DEF At
<1>2. Pop \in Seq(Items) /\ Within(stack) = {Top} \cup Within(Pop)
  BY <1>1, TopFacts
<1>3. \A x \in Within(Pop) : x[1] \in Deep
  BY <1>1 DEF Shape
<1> QED  BY <1>1, <1>2, <1>3

(* What is put off is a start or a list.                                   *)
LEMMA AfterWithin ==
  ASSUME Typed, NEW r \in Realms, NEW x \in Within(frame[r].after)
  PROVE  x \in AfterItems /\ x[1] \in {"start", "frames"} /\ x \in Items
<1> PICK s \in Seq(AfterItems) : s = frame[r].after
  BY DEF Typed, Kinds, FrameRec
<1>1. x \in AfterItems
  BY DEF Within
<1>2. AfterItems \subseteq Items
  BY DEF AfterItems, Items, CardCalls
<1> QED  BY <1>1, <1>2 DEF AfterItems

(* Of a kind, no call is new.                                              *)
NoNew(k) == \A x \in Within(stack') : x[1] = k => x \in Within(stack)

(* A call that returns is no new call.                                     *)
LEMMA NewPop == ASSUME Typed, Shape, NEW j, NEW r, NEW a, At(j, r, a), stack' = Pop
                PROVE \A k : NoNew(k)
<1>1. \A x \in Within(Pop) : x \in Within(stack)
  BY AtFacts
<1> QED  BY <1>1 DEF NoNew

(* A call of one kind is none of another.                                  *)
LEMMA NewPush == ASSUME Typed, Shape, NEW j, NEW r, NEW a, At(j, r, a), NEW x, Pushed(x, Pop),
                        NEW k, x[1] # k
                 PROVE NoNew(k)
<1>1. \A y \in Within(Pop) : y \in Within(stack)
  BY AtFacts
<1> QED  BY <1>1 DEF NoNew, Pushed

(* A first call of one kind is none of another.                            *)
LEMMA NewOne == ASSUME NEW x, Pushed(x, <<>>), NEW k, x[1] # k PROVE NoNew(k)
BY NoCall DEF NoNew, Pushed

(* Where nothing is called, no call is new.                                *)
LEMMA NewSame == ASSUME UNCHANGED stack PROVE \A k : NoNew(k)
<1>1. Within(stack') = Within(stack)
  OBVIOUS
<1> QED  BY <1>1 DEF NoNew

(* Where nothing is left to call, no call is new.                          *)
LEMMA NewNone == ASSUME stack' = <<>> PROVE \A k : NoNew(k)
<1>1. Within(stack') = {}
  BY NoCall
<1> QED  BY <1>1 DEF NoNew

(* A load is called for by a write, or by an event.                        *)
LEMMA NewSource ==
  ASSUME Typed, Shape, Kinds', Does
  PROVE  NoNew("source") \/ (\E r \in Realms, s \in Srcs : SetSrcStep(r, s)) \/ (\E r \in Realms : HearStep(r))
<1> DEFINE Goal == NoNew("source") \/ (\E r \in Realms, s \in Srcs : SetSrcStep(r, s)) \/ (\E r \in Realms : HearStep(r))
<1>1. ASSUME NEW r \in Realms, NEW s \in Srcs, SourceStep(r, s) PROVE Goal
  BY <1>1, NewPop DEF SourceStep
<1>2. ASSUME NEW r \in Realms, NEW s \in Srcs, SetSrcStep(r, s) PROVE Goal
  BY SMTT(30), <1>2
<1>3. ASSUME NEW r \in Realms, NEW g \in Nat, StartStep(r, g) PROVE Goal
  BY <1>3, NewPop DEF StartStep
<1>4. ASSUME NEW r \in Realms, NEW g \in Nat, RunStartStep(r, g) PROVE Goal
  <2>1. CASE Pushed(<<"start", r, g>>, <<>>)
    BY <2>1, NewOne
  <2>2. CASE stack' = <<>>
    BY <2>2, NewNone
  <2>3. CASE UNCHANGED stack
    BY <2>3, NewSame
  <2> QED  BY <1>4, <2>1, <2>2, <2>3 DEF RunStartStep
<1>5. ASSUME NEW r \in Realms, NEW g \in Nat, FetchStep(r, g) PROVE Goal
  <2>1. CASE Pushed(<<"start", r, g>>, <<>>)
    BY <2>1, NewOne
  <2>2. CASE stack' = <<>>
    BY <2>2, NewNone
  <2>3. CASE UNCHANGED stack
    BY <2>3, NewSame
  <2> QED  BY <1>5, <2>1, <2>2, <2>3 DEF FetchStep
<1>6. ASSUME NEW r \in Realms, NEW d \in Conts, d = "frames" => r \in Cards, CloseStep(r, d) PROVE Goal
  <2>1. CASE Pushed(<<d, r, 0>>, Pop)
    BY <1>6, <2>1, NewPush DEF CloseStep, Conts
  <2>2. ASSUME NEW c \in Cards, Pushed(<<"dispose", c, 0>>, Pop) PROVE NoNew("source")
    BY <1>6, <2>2, NewPush DEF CloseStep
  <2> QED  BY <1>6, <2>1, <2>2 DEF CloseStep
<1>7. ASSUME NEW r \in Realms, ResetStep(r) PROVE Goal
  <2>1. \A x \in Within(Pop) : x \in Within(stack)
    BY <1>7, AtFacts DEF ResetStep
  <2>2. CASE frame[r].owed = 1
    <3>1. Within(stack') = Within(frame[r].after) \cup Within(Pop)
      BY <1>7, <2>2 DEF ResetStep
    <3>2. \A x \in Within(frame[r].after) : x[1] \in {"start", "frames"}
      BY AfterWithin
    <3> QED  BY <2>1, <3>1, <3>2 DEF NoNew
  <2>3. CASE stack' = Pop
    BY <1>7, <2>3, NewPop DEF ResetStep
  <2> QED  BY <1>7, <2>2, <2>3 DEF ResetStep
<1>8. ASSUME NEW r \in Realms, IdleStep(r) PROVE Goal
  BY <1>8, NewPop DEF IdleStep
<1>9. ASSUME NEW r \in Realms, HearStep(r) PROVE Goal
  BY <1>9
<1>10. ASSUME NEW r \in Realms, MoveStep(r) PROVE Goal
  BY <1>10, NewSame DEF MoveStep
<1>11. ASSUME NEW c \in Cards, BootStep(c) PROVE Goal
  <2>1. CASE Pushed(<<"loading", c, 0>>, <<>>)
    BY <2>1, NewOne
  <2>2. CASE stack' = <<>>
    BY <2>2, NewNone
  <2>3. CASE UNCHANGED stack
    BY <2>3, NewSame
  <2> QED  BY <1>11, <2>1, <2>2, <2>3 DEF BootStep
<1>12. ASSUME NEW c \in Cards, LoadedStep(c) PROVE Goal
  BY <1>12, NewPop DEF LoadedStep
<1>13. ASSUME NEW c \in Cards, DisposeStep(c) PROVE Goal
  <2>1. PICK j \in {"records", "arrive"} :
           Within(stack') = (IF frame[c].loaded THEN {<<"close", c, "frames">>} ELSE {})
                \cup {<<"owing", c, 0>>, <<"frames", c, 0>>, <<j, c, 0>>} \cup Within(Pop)
    BY <1>13, DisposeStack
  <2>2. \A x \in Within(Pop) : x \in Within(stack)
    BY <1>13, AtFacts DEF DisposeStep
  <2> QED  BY <2>1, <2>2 DEF NoNew
<1>14. ASSUME NEW c \in Cards, OwingStep(c) PROVE Goal
  BY <1>14, NewPop DEF OwingStep
<1>15. ASSUME NEW c \in Cards, FramesStep(c) PROVE Goal
  <2>1. CASE stack' = Pop
    BY <1>15, <2>1, NewPop DEF FramesStep
  <2>2. CASE Pushed(<<"arrive", c, 0>>, Pop)
    BY <1>15, <2>2, NewPush DEF FramesStep
  <2> QED  BY <1>15, <2>1, <2>2 DEF FramesStep
<1>16. ASSUME NEW c \in Cards, RecordsStep(c) PROVE Goal
  BY <1>16, NewPop DEF RecordsStep
<1>17. ASSUME NEW c \in Cards, ArriveStep(c) PROVE Goal
  <2>1. CASE stack' = Pop
    BY <1>17, <2>1, NewPop DEF ArriveStep
  <2>2. CASE Pushed(<<card[c].done, card[c].host, 0>>, Pop)
    <3>1. card[c].done # "source"
      BY DEF Typed, Kinds, CardRec, Dones, Conts
    <3> QED  BY <1>17, <2>2, <3>1, NewPush DEF ArriveStep
  <2> QED  BY <1>17, <2>1, <2>2 DEF ArriveStep
<1>18. ASSUME NEW c \in Cards, FlushStep(c) PROVE Goal
  <2>1. CASE Pushed(<<"arrive", c, 0>>, <<>>)
    BY <2>1, NewOne
  <2>2. CASE stack' = <<>>
    BY <2>2, NewNone
  <2>3. CASE UNCHANGED stack
    BY <2>3, NewSame
  <2> QED  BY <1>18, <2>1, <2>2, <2>3 DEF FlushStep
<1>19. ASSUME NEW c \in Cards, CloseRealmStep(c) PROVE Goal
  BY <1>19, NewSame DEF CloseRealmStep
<1>20. ASSUME NEW c \in Cards, AckStep(c) PROVE Goal
  BY <1>20, NewSame DEF AckStep
<1>21. ASSUME NEW c \in Cards, BtsStep(c) PROVE Goal
  BY <1>21, NewSame DEF BtsStep
<1>22. ASSUME NEW c \in Cards, ObserveStep(c) PROVE Goal
  BY <1>22, NewSame DEF ObserveStep
<1>23. CASE HeardStep
  BY <1>23, NewSame DEF HeardStep
<1>24. CASE EpilogueStep
  BY <1>24, NewSame DEF EpilogueStep
<1>25. CASE OpenStep
  BY <1>25, NewSame DEF OpenStep
<1>26. CASE OpenEventsStep
  BY <1>26, NewSame DEF OpenEventsStep
<1>27. CASE OpenRecordsStep
  BY <1>27, NewSame DEF OpenRecordsStep
<1>28. CASE RecordStep
  BY <1>28, NewSame DEF RecordStep
<1>29. CASE BeginStep
  <2>1. Within(stack') = (IF frame[Page].loaded THEN {<<"close", Page, "nothing">>} ELSE {})
              \cup {<<"askPage", Page, 0>>}
    BY <1>29, BeginStack
  <2> QED  BY <2>1 DEF NoNew
<1> QED  BY <1>1, <1>2, <1>3, <1>4, <1>5, <1>6, <1>7, <1>8, <1>9, <1>10, <1>11, <1>12, <1>13,
            <1>14, <1>15, <1>16, <1>17, <1>18, <1>19, <1>20, <1>21, <1>22, <1>23, <1>24, <1>25,
            <1>26, <1>27, <1>28, <1>29 DEF Does

(* A script loads because its card boots.                                  *)
LEMMA NewLoading ==
  ASSUME Typed, Shape, Kinds', Does
  PROVE  NoNew("loading") \/ (\E c \in Cards : BootStep(c))
<1> DEFINE Goal == NoNew("loading") \/ (\E c \in Cards : BootStep(c))
<1>1. ASSUME NEW r \in Realms, NEW s \in Srcs, SourceStep(r, s) PROVE Goal
  BY <1>1, NewPop DEF SourceStep
<1>2. ASSUME NEW r \in Realms, NEW s \in Srcs, SetSrcStep(r, s) PROVE Goal
  <2>1. Within(stack') = {<<"source", r, s>>}
              \cup (IF frame[r].src = NoSrc THEN {} ELSE {<<"close", r, "reset">>}) \cup Within(stack)
    BY <1>2, SetSrcStack
  <2> QED  BY <2>1 DEF NoNew
<1>3. ASSUME NEW r \in Realms, NEW g \in Nat, StartStep(r, g) PROVE Goal
  BY <1>3, NewPop DEF StartStep
<1>4. ASSUME NEW r \in Realms, NEW g \in Nat, RunStartStep(r, g) PROVE Goal
  <2>1. CASE Pushed(<<"start", r, g>>, <<>>)
    BY <2>1, NewOne
  <2>2. CASE stack' = <<>>
    BY <2>2, NewNone
  <2>3. CASE UNCHANGED stack
    BY <2>3, NewSame
  <2> QED  BY <1>4, <2>1, <2>2, <2>3 DEF RunStartStep
<1>5. ASSUME NEW r \in Realms, NEW g \in Nat, FetchStep(r, g) PROVE Goal
  <2>1. CASE Pushed(<<"start", r, g>>, <<>>)
    BY <2>1, NewOne
  <2>2. CASE stack' = <<>>
    BY <2>2, NewNone
  <2>3. CASE UNCHANGED stack
    BY <2>3, NewSame
  <2> QED  BY <1>5, <2>1, <2>2, <2>3 DEF FetchStep
<1>6. ASSUME NEW r \in Realms, NEW d \in Conts, d = "frames" => r \in Cards, CloseStep(r, d) PROVE Goal
  <2>1. CASE Pushed(<<d, r, 0>>, Pop)
    BY <1>6, <2>1, NewPush DEF CloseStep, Conts
  <2>2. ASSUME NEW c \in Cards, Pushed(<<"dispose", c, 0>>, Pop) PROVE NoNew("loading")
    BY <1>6, <2>2, NewPush DEF CloseStep
  <2> QED  BY <1>6, <2>1, <2>2 DEF CloseStep
<1>7. ASSUME NEW r \in Realms, ResetStep(r) PROVE Goal
  <2>1. \A x \in Within(Pop) : x \in Within(stack)
    BY <1>7, AtFacts DEF ResetStep
  <2>2. CASE frame[r].owed = 1
    <3>1. Within(stack') = Within(frame[r].after) \cup Within(Pop)
      BY <1>7, <2>2 DEF ResetStep
    <3>2. \A x \in Within(frame[r].after) : x[1] \in {"start", "frames"}
      BY AfterWithin
    <3> QED  BY <2>1, <3>1, <3>2 DEF NoNew
  <2>3. CASE stack' = Pop
    BY <1>7, <2>3, NewPop DEF ResetStep
  <2> QED  BY <1>7, <2>2, <2>3 DEF ResetStep
<1>8. ASSUME NEW r \in Realms, IdleStep(r) PROVE Goal
  BY <1>8, NewPop DEF IdleStep
<1>9. ASSUME NEW r \in Realms, HearStep(r) PROVE Goal
  <2>1. CASE Pushed(<<"close", r, "reset">>, <<>>)
    BY <2>1, NewOne
  <2>2. CASE Pushed(<<"source", r, frame[r].src>>, <<>>)
    BY <2>2, NewOne
  <2>3. CASE UNCHANGED stack
    BY <2>3, NewSame
  <2> QED  BY <1>9, <2>1, <2>2, <2>3 DEF HearStep
<1>10. ASSUME NEW r \in Realms, MoveStep(r) PROVE Goal
  BY <1>10, NewSame DEF MoveStep
<1>11. ASSUME NEW c \in Cards, BootStep(c) PROVE Goal
  BY <1>11
<1>12. ASSUME NEW c \in Cards, LoadedStep(c) PROVE Goal
  BY <1>12, NewPop DEF LoadedStep
<1>13. ASSUME NEW c \in Cards, DisposeStep(c) PROVE Goal
  <2>1. PICK j \in {"records", "arrive"} :
           Within(stack') = (IF frame[c].loaded THEN {<<"close", c, "frames">>} ELSE {})
                \cup {<<"owing", c, 0>>, <<"frames", c, 0>>, <<j, c, 0>>} \cup Within(Pop)
    BY <1>13, DisposeStack
  <2>2. \A x \in Within(Pop) : x \in Within(stack)
    BY <1>13, AtFacts DEF DisposeStep
  <2> QED  BY <2>1, <2>2 DEF NoNew
<1>14. ASSUME NEW c \in Cards, OwingStep(c) PROVE Goal
  BY <1>14, NewPop DEF OwingStep
<1>15. ASSUME NEW c \in Cards, FramesStep(c) PROVE Goal
  <2>1. CASE stack' = Pop
    BY <1>15, <2>1, NewPop DEF FramesStep
  <2>2. CASE Pushed(<<"arrive", c, 0>>, Pop)
    BY <1>15, <2>2, NewPush DEF FramesStep
  <2> QED  BY <1>15, <2>1, <2>2 DEF FramesStep
<1>16. ASSUME NEW c \in Cards, RecordsStep(c) PROVE Goal
  BY <1>16, NewPop DEF RecordsStep
<1>17. ASSUME NEW c \in Cards, ArriveStep(c) PROVE Goal
  <2>1. CASE stack' = Pop
    BY <1>17, <2>1, NewPop DEF ArriveStep
  <2>2. CASE Pushed(<<card[c].done, card[c].host, 0>>, Pop)
    <3>1. card[c].done # "loading"
      BY DEF Typed, Kinds, CardRec, Dones, Conts
    <3> QED  BY <1>17, <2>2, <3>1, NewPush DEF ArriveStep
  <2> QED  BY <1>17, <2>1, <2>2 DEF ArriveStep
<1>18. ASSUME NEW c \in Cards, FlushStep(c) PROVE Goal
  <2>1. CASE Pushed(<<"arrive", c, 0>>, <<>>)
    BY <2>1, NewOne
  <2>2. CASE stack' = <<>>
    BY <2>2, NewNone
  <2>3. CASE UNCHANGED stack
    BY <2>3, NewSame
  <2> QED  BY <1>18, <2>1, <2>2, <2>3 DEF FlushStep
<1>19. ASSUME NEW c \in Cards, CloseRealmStep(c) PROVE Goal
  BY <1>19, NewSame DEF CloseRealmStep
<1>20. ASSUME NEW c \in Cards, AckStep(c) PROVE Goal
  BY <1>20, NewSame DEF AckStep
<1>21. ASSUME NEW c \in Cards, BtsStep(c) PROVE Goal
  BY <1>21, NewSame DEF BtsStep
<1>22. ASSUME NEW c \in Cards, ObserveStep(c) PROVE Goal
  BY <1>22, NewSame DEF ObserveStep
<1>23. CASE HeardStep
  BY <1>23, NewSame DEF HeardStep
<1>24. CASE EpilogueStep
  BY <1>24, NewSame DEF EpilogueStep
<1>25. CASE OpenStep
  BY <1>25, NewSame DEF OpenStep
<1>26. CASE OpenEventsStep
  BY <1>26, NewSame DEF OpenEventsStep
<1>27. CASE OpenRecordsStep
  BY <1>27, NewSame DEF OpenRecordsStep
<1>28. CASE RecordStep
  BY <1>28, NewSame DEF RecordStep
<1>29. CASE BeginStep
  <2>1. Within(stack') = (IF frame[Page].loaded THEN {<<"close", Page, "nothing">>} ELSE {})
              \cup {<<"askPage", Page, 0>>}
    BY <1>29, BeginStack
  <2> QED  BY <2>1 DEF NoNew
<1> QED  BY <1>1, <1>2, <1>3, <1>4, <1>5, <1>6, <1>7, <1>8, <1>9, <1>10, <1>11, <1>12, <1>13,
            <1>14, <1>15, <1>16, <1>17, <1>18, <1>19, <1>20, <1>21, <1>22, <1>23, <1>24, <1>25,
            <1>26, <1>27, <1>28, <1>29 DEF Does


-----------------------------------------------------------------------------
(* Whose frames are loaded, and by whom.                                   *)

(* A step that calls for no load and loads no frame.                       *)
LEMMA SourcedLess ==
  ASSUME Sourced, NoNew("source"), stack # <<>> => Top[1] # "close",
         \A q \in Realms : frame'[q].loaded => frame[q].loaded
  PROVE  Sourced'
<1>1. ASSUME NEW q \in Realms, NEW s \in Srcs, <<"source", q, s>> \in Within(stack')
      PROVE  ~frame'[q].loaded
  <2>1. <<"source", q, s>> \in Within(stack)
    BY <1>1 DEF NoNew
  <2> QED  BY <2>1 DEF Sourced, On, At
<1> QED  BY <1>1 DEF Sourced, On

(* A write to a loaded frame closes it first.                              *)
LEMMA SetSrcSourced ==
  ASSUME Typed, Shape, Sourced, Links, NEW r \in Realms, NEW s \in Srcs, SetSrcStep(r, s)
  PROVE  Sourced'
<1>1. /\ Within(stack') = {<<"source", r, s>>}
              \cup (IF frame[r].src = NoSrc THEN {} ELSE {<<"close", r, "reset">>}) \cup Within(stack)
      /\ stack' # <<>>
      /\ Top' = (IF frame[r].src = NoSrc THEN <<"source", r, s>> ELSE <<"close", r, "reset">>)
  BY SetSrcStack
<1>2. \A x \in Within(stack) : x[1] = "loading"
  <2>1. CASE stack = <<>>
    BY <2>1, NoCall
  <2>2. CASE stack # <<>> /\ Top[1] = "loading"
    <3>1. Pop = <<>> /\ Within(stack) = {Top} \cup Within(Pop)
      BY <2>2, Popped, TopFacts
    <3>2. Within(stack) = {Top}
      BY <3>1, NoCall
    <3> QED  BY <2>2, <3>2
  <2> QED  BY <2>1, <2>2 DEF SetSrcStep, AppRuns
<1>3. \A q \in Realms : frame'[q].loaded = frame[q].loaded
  BY DEF SetSrcStep, Others
<1>4. ASSUME NEW q \in Realms, NEW x \in Srcs, <<"source", q, x>> \in Within(stack')
      PROVE  ~frame'[q].loaded \/ (stack' # <<>> /\ Top' = <<"close", q, "reset">>)
  <2>1. q = r
    BY <1>1, <1>2, <1>4
  <2>2. frame[r].src = NoSrc => ~frame[r].loaded
    BY DEF Links
  <2> QED  BY <1>1, <1>3, <2>1, <2>2
<1> QED  BY <1>4 DEF Sourced, On, At, Top

(* An event loads a frame that is not loaded.                              *)
LEMMA HearSourced ==
  ASSUME Typed, Resting, Sourced, NEW r \in Realms, HearStep(r)
  PROVE  Sourced'
<1>1. stack = <<>>
  BY DEF Resting, HearStep
<1>2. CASE UNCHANGED <<frame, stack>>
  <2>1. NoNew("source") /\ \A q \in Realms : frame'[q].loaded => frame[q].loaded
    BY <1>2, NewSame
  <2> QED  BY <1>1, <2>1, SourcedLess
<1>3. CASE ~frame[r].loaded /\ UNCHANGED frame /\ Pushed(<<"source", r, frame[r].src>>, <<>>)
  <2>1. ASSUME NEW q \in Realms, NEW s \in Srcs, <<"source", q, s>> \in Within(stack') PROVE q = r
    BY <1>3, <2>1, NoCall DEF Pushed
  <2> QED  BY <1>3, <2>1 DEF Sourced, On
<1>4. CASE Pushed(<<"close", r, "reset">>, <<>>)
  <2>1. ASSUME NEW q \in Realms, NEW s \in Srcs, <<"source", q, s>> \in Within(stack') PROVE FALSE
    BY <1>4, <2>1, NoCall DEF Pushed
  <2> QED  BY <2>1 DEF Sourced, On
<1> QED  BY <1>2, <1>3, <1>4 DEF HearStep

(* Where no load is called for, the frames still are not loaded.           *)
LEMMA SourcedRest ==
  ASSUME Typed, Shape, Resting, Sourced, Links, Kinds', Does, NoNew("source")
  PROVE  Sourced'
<1>1. ASSUME NEW r \in Realms, NEW s \in Srcs, SourceStep(r, s) PROVE Sourced'
  <2>1. \A q \in Realms : q # r => frame'[q].loaded = frame[q].loaded
    BY <1>1 DEF SourceStep, Others
  <2>2. /\ Within(stack) = {<<"source", r, s>>} \cup Within(Pop) /\ Top[1] = "source"
        /\ Pop \in Seq(Items) /\ stack # <<>>
    BY <1>1, AtFacts DEF SourceStep
  <2>3. \A x \in Srcs : <<"source", r, x>> \notin Within(Pop)
    <3>1. Top \in Sources
      BY <1>1 DEF SourceStep, At, Sources
    <3>2. Count(Pop, Sources) = 0
      BY <2>2, <3>1, Popped
    <3>3. \A x \in Sources : x \notin Within(Pop)
      BY <2>2, <3>2, WithinCount
    <3> QED  BY <3>3 DEF Sources
  <2>4. ASSUME NEW q \in Realms, NEW x \in Srcs, <<"source", q, x>> \in Within(stack')
        PROVE  ~frame'[q].loaded
    <3>1. <<"source", q, x>> \in Within(Pop)
      BY <1>1, <2>4 DEF SourceStep
    <3>2. q # r
      BY <2>3, <3>1
    <3>3. On("source", q, x)
      BY <2>2, <3>1 DEF On
    <3> QED  BY <2>1, <2>2, <3>2, <3>3 DEF Sourced, At
  <2> QED  BY <2>4 DEF Sourced, On
<1>2. ASSUME NEW r \in Realms, NEW s \in Srcs, SetSrcStep(r, s) PROVE Sourced'
  BY <1>2, SetSrcSourced
<1>3. ASSUME NEW r \in Realms, NEW g \in Nat, StartStep(r, g) PROVE Sourced'
  <2>1. stack # <<>> => Top[1] # "close"
    BY SMTT(30), <1>3 DEF StartStep, At, AppRuns, Resting
  <2>2. \A q \in Realms : frame'[q].loaded => frame[q].loaded
    BY <1>3 DEF StartStep, Others, SameLoads
  <2> QED  BY SMTT(30), <2>1, <2>2, SourcedLess
<1>4. ASSUME NEW r \in Realms, NEW g \in Nat, RunStartStep(r, g) PROVE Sourced'
  <2>1. stack # <<>> => Top[1] # "close"
    BY <1>4 DEF RunStartStep, At, AppRuns, Resting
  <2>2. \A q \in Realms : frame'[q].loaded => frame[q].loaded
    BY <1>4 DEF RunStartStep, Others, SameLoads
  <2> QED  BY <2>1, <2>2, SourcedLess
<1>5. ASSUME NEW r \in Realms, NEW g \in Nat, FetchStep(r, g) PROVE Sourced'
  <2>1. stack # <<>> => Top[1] # "close"
    BY <1>5 DEF FetchStep, At, AppRuns, Resting
  <2>2. \A q \in Realms : frame'[q].loaded => frame[q].loaded
    BY <1>5 DEF FetchStep, Others, SameLoads
  <2> QED  BY <2>1, <2>2, SourcedLess
<1>6. ASSUME NEW r \in Realms, NEW d \in Conts, d = "frames" => r \in Cards, CloseStep(r, d) PROVE Sourced'
  <2>1. \A q \in Realms : q # r => frame'[q].loaded = frame[q].loaded
    BY <1>6 DEF CloseStep, Others
  <2>2. ~frame'[r].loaded /\ Top[2] = r
    BY <1>6 DEF CloseStep, At
  <2>3. ASSUME NEW q \in Realms, NEW x \in Srcs, <<"source", q, x>> \in Within(stack')
        PROVE  ~frame'[q].loaded
    <3>1. CASE q = r
      BY <2>2, <3>1
    <3>2. CASE q # r
      <4>1. <<"source", q, x>> \in Within(stack)
        BY <2>3 DEF NoNew
      <4> QED  BY <2>1, <2>2, <3>2, <4>1 DEF Sourced, On, At
    <3> QED  BY <3>1, <3>2
  <2> QED  BY <2>3 DEF Sourced, On
<1>7. ASSUME NEW r \in Realms, ResetStep(r) PROVE Sourced'
  <2>1. stack # <<>> => Top[1] # "close"
    BY <1>7 DEF ResetStep, At, AppRuns, Resting
  <2>2. \A q \in Realms : frame'[q].loaded => frame[q].loaded
    BY <1>7 DEF ResetStep, Others, SameLoads
  <2> QED  BY <2>1, <2>2, SourcedLess
<1>8. ASSUME NEW r \in Realms, IdleStep(r) PROVE Sourced'
  <2>1. stack # <<>> => Top[1] # "close"
    BY <1>8 DEF IdleStep, At, AppRuns, Resting
  <2>2. \A q \in Realms : frame'[q].loaded => frame[q].loaded
    BY <1>8 DEF IdleStep, Others, SameLoads
  <2> QED  BY <2>1, <2>2, SourcedLess
<1>9. ASSUME NEW r \in Realms, HearStep(r) PROVE Sourced'
  BY <1>9, HearSourced
<1>10. ASSUME NEW r \in Realms, MoveStep(r) PROVE Sourced'
  <2>1. stack # <<>> => Top[1] # "close"
    BY <1>10 DEF MoveStep, At, AppRuns, Resting
  <2>2. \A q \in Realms : frame'[q].loaded => frame[q].loaded
    BY <1>10 DEF MoveStep, Others, SameLoads
  <2> QED  BY <2>1, <2>2, SourcedLess
<1>11. ASSUME NEW c \in Cards, BootStep(c) PROVE Sourced'
  <2>1. stack # <<>> => Top[1] # "close"
    BY <1>11 DEF BootStep, At, AppRuns, Resting
  <2>2. \A q \in Realms : frame'[q].loaded => frame[q].loaded
    BY <1>11 DEF BootStep, Others, SameLoads
  <2> QED  BY <2>1, <2>2, SourcedLess
<1>12. ASSUME NEW c \in Cards, LoadedStep(c) PROVE Sourced'
  <2>1. stack # <<>> => Top[1] # "close"
    BY <1>12 DEF LoadedStep, At, AppRuns, Resting
  <2>2. \A q \in Realms : frame'[q].loaded => frame[q].loaded
    BY <1>12 DEF LoadedStep, Others, SameLoads
  <2> QED  BY <2>1, <2>2, SourcedLess
<1>13. ASSUME NEW c \in Cards, DisposeStep(c) PROVE Sourced'
  <2>1. stack # <<>> => Top[1] # "close"
    BY <1>13 DEF DisposeStep, At, AppRuns, Resting
  <2>2. \A q \in Realms : frame'[q].loaded => frame[q].loaded
    BY <1>13 DEF DisposeStep, Others, SameLoads
  <2> QED  BY <2>1, <2>2, SourcedLess
<1>14. ASSUME NEW c \in Cards, OwingStep(c) PROVE Sourced'
  <2>1. stack # <<>> => Top[1] # "close"
    BY <1>14 DEF OwingStep, At, AppRuns, Resting
  <2>2. \A q \in Realms : frame'[q].loaded => frame[q].loaded
    BY <1>14 DEF OwingStep, Others, SameLoads
  <2> QED  BY <2>1, <2>2, SourcedLess
<1>15. ASSUME NEW c \in Cards, FramesStep(c) PROVE Sourced'
  <2>1. stack # <<>> => Top[1] # "close"
    BY <1>15 DEF FramesStep, At, AppRuns, Resting
  <2>2. \A q \in Realms : frame'[q].loaded => frame[q].loaded
    BY <1>15 DEF FramesStep, Others, SameLoads
  <2> QED  BY <2>1, <2>2, SourcedLess
<1>16. ASSUME NEW c \in Cards, RecordsStep(c) PROVE Sourced'
  <2>1. stack # <<>> => Top[1] # "close"
    BY <1>16 DEF RecordsStep, At, AppRuns, Resting
  <2>2. \A q \in Realms : frame'[q].loaded => frame[q].loaded
    BY <1>16 DEF RecordsStep, Others, SameLoads
  <2> QED  BY <2>1, <2>2, SourcedLess
<1>17. ASSUME NEW c \in Cards, ArriveStep(c) PROVE Sourced'
  <2>1. stack # <<>> => Top[1] # "close"
    BY <1>17 DEF ArriveStep, At, AppRuns, Resting
  <2>2. \A q \in Realms : frame'[q].loaded => frame[q].loaded
    BY <1>17 DEF ArriveStep, Others, SameLoads
  <2> QED  BY <2>1, <2>2, SourcedLess
<1>18. ASSUME NEW c \in Cards, FlushStep(c) PROVE Sourced'
  <2>1. stack # <<>> => Top[1] # "close"
    BY <1>18 DEF FlushStep, At, AppRuns, Resting
  <2>2. \A q \in Realms : frame'[q].loaded => frame[q].loaded
    BY <1>18 DEF FlushStep, Others, SameLoads
  <2> QED  BY <2>1, <2>2, SourcedLess
<1>19. ASSUME NEW c \in Cards, CloseRealmStep(c) PROVE Sourced'
  <2>1. stack # <<>> => Top[1] # "close"
    BY <1>19 DEF CloseRealmStep, At, AppRuns, Resting
  <2>2. \A q \in Realms : frame'[q].loaded => frame[q].loaded
    BY <1>19 DEF CloseRealmStep, Others, SameLoads
  <2> QED  BY <2>1, <2>2, SourcedLess
<1>20. ASSUME NEW c \in Cards, AckStep(c) PROVE Sourced'
  <2>1. stack # <<>> => Top[1] # "close"
    BY <1>20 DEF AckStep, At, AppRuns, Resting
  <2>2. \A q \in Realms : frame'[q].loaded => frame[q].loaded
    BY <1>20 DEF AckStep, Others, SameLoads
  <2> QED  BY <2>1, <2>2, SourcedLess
<1>21. ASSUME NEW c \in Cards, BtsStep(c) PROVE Sourced'
  <2>1. stack # <<>> => Top[1] # "close"
    BY <1>21 DEF BtsStep, At, AppRuns, Resting
  <2>2. \A q \in Realms : frame'[q].loaded => frame[q].loaded
    BY <1>21 DEF BtsStep, Others, SameLoads
  <2> QED  BY <2>1, <2>2, SourcedLess
<1>22. ASSUME NEW c \in Cards, ObserveStep(c) PROVE Sourced'
  <2>1. stack # <<>> => Top[1] # "close"
    BY <1>22 DEF ObserveStep, At, AppRuns, Resting
  <2>2. \A q \in Realms : frame'[q].loaded => frame[q].loaded
    BY <1>22 DEF ObserveStep, Others, SameLoads
  <2> QED  BY <2>1, <2>2, SourcedLess
<1>23. CASE HeardStep
  <2>1. stack # <<>> => Top[1] # "close"
    BY <1>23 DEF HeardStep, At, AppRuns, Resting
  <2>2. \A q \in Realms : frame'[q].loaded => frame[q].loaded
    BY <1>23 DEF HeardStep, Others, SameLoads
  <2> QED  BY <2>1, <2>2, SourcedLess
<1>24. CASE EpilogueStep
  <2>1. stack # <<>> => Top[1] # "close"
    BY <1>24 DEF EpilogueStep, At, AppRuns, Resting
  <2>2. \A q \in Realms : frame'[q].loaded => frame[q].loaded
    BY <1>24 DEF EpilogueStep, Others, SameLoads
  <2> QED  BY <2>1, <2>2, SourcedLess
<1>25. CASE OpenStep
  <2>1. stack # <<>> => Top[1] # "close"
    BY <1>25 DEF OpenStep, At, AppRuns, Resting
  <2>2. \A q \in Realms : frame'[q].loaded => frame[q].loaded
    BY <1>25 DEF OpenStep, Others, SameLoads
  <2> QED  BY <2>1, <2>2, SourcedLess
<1>26. CASE OpenEventsStep
  <2>1. stack # <<>> => Top[1] # "close"
    BY <1>26 DEF OpenEventsStep, At, AppRuns, Resting
  <2>2. \A q \in Realms : frame'[q].loaded => frame[q].loaded
    BY <1>26 DEF OpenEventsStep, Others, SameLoads
  <2> QED  BY <2>1, <2>2, SourcedLess
<1>27. CASE OpenRecordsStep
  <2>1. stack # <<>> => Top[1] # "close"
    BY <1>27 DEF OpenRecordsStep, At, AppRuns, Resting
  <2>2. \A q \in Realms : frame'[q].loaded => frame[q].loaded
    BY <1>27 DEF OpenRecordsStep, Others, SameLoads
  <2> QED  BY <2>1, <2>2, SourcedLess
<1>28. CASE RecordStep
  <2>1. stack # <<>> => Top[1] # "close"
    BY <1>28 DEF RecordStep, At, AppRuns, Resting
  <2>2. \A q \in Realms : frame'[q].loaded => frame[q].loaded
    BY <1>28 DEF RecordStep, Others, SameLoads
  <2> QED  BY <2>1, <2>2, SourcedLess
<1>29. CASE BeginStep
  <2>1. stack # <<>> => Top[1] # "close"
    BY <1>29 DEF BeginStep, At, AppRuns, Resting
  <2>2. \A q \in Realms : frame'[q].loaded => frame[q].loaded
    BY <1>29 DEF BeginStep, Others, SameLoads
  <2> QED  BY <2>1, <2>2, SourcedLess
<1> QED  BY <1>1, <1>2, <1>3, <1>4, <1>5, <1>6, <1>7, <1>8, <1>9, <1>10, <1>11, <1>12, <1>13,
            <1>14, <1>15, <1>16, <1>17, <1>18, <1>19, <1>20, <1>21, <1>22, <1>23, <1>24, <1>25,
            <1>26, <1>27, <1>28, <1>29 DEF Does

(* A frame written to is closed before it loads, whatever comes between.   *)
LEMMA SourcedKept ==
  ASSUME Typed, Shape, Resting, Sourced, Links, Kinds', Does
  PROVE  Sourced'
<1>1. NoNew("source") \/ (\E r \in Realms, s \in Srcs : SetSrcStep(r, s)) \/ \E r \in Realms : HearStep(r)
  BY NewSource
<1> QED  BY <1>1, SourcedRest, SetSrcSourced, HearSourced

(* A realm that has run has run.                                           *)
LEMMA RanKept ==
  ASSUME Typed, BootJobs, Kinds', Does, NEW r \in Realms, Ran(r)
  PROVE  Ran(r)'
<1>1. CASE r = Page
  BY <1>1 DEF Ran
<1>2. CASE r # Page
  <2>1. r \in Cards /\ (card[r].st \in {"booting", "booted", "freed"} \/ card[r].disposed)
    BY <1>2, AnItem DEF Ran, Page
  <2>2. (card'[r].st \in {"booting", "booted", "freed"} \/ card'[r].disposed) => Ran(r)'
    BY DEF Ran
  <2> HIDE DEF Ran
  <2>3. ASSUME NEW q \in Realms, NEW s \in Srcs, SourceStep(q, s) PROVE Ran(r)'
    BY <2>3, <2>1, <2>2 DEF SourceStep, OtherCards, Freeing
  <2>4. ASSUME NEW q \in Realms, NEW s \in Srcs, SetSrcStep(q, s) PROVE Ran(r)'
    BY SMTT(30), <2>4, <2>1, <2>2 DEF SetSrcStep, OtherCards, Freeing
  <2>5. ASSUME NEW q \in Realms, NEW g \in Nat, StartStep(q, g) PROVE Ran(r)'
    BY <2>5, <2>1, <2>2 DEF StartStep, OtherCards, Freeing
  <2>6. ASSUME NEW q \in Realms, NEW g \in Nat, RunStartStep(q, g) PROVE Ran(r)'
    BY <2>6, <2>1, <2>2 DEF RunStartStep, OtherCards, Freeing
  <2>7. ASSUME NEW q \in Realms, NEW g \in Nat, FetchStep(q, g) PROVE Ran(r)'
    BY <2>7, <2>1, <2>2 DEF FetchStep, OtherCards, Freeing
  <2>8. ASSUME NEW q \in Realms, NEW d \in Conts, d = "frames" => q \in Cards, CloseStep(q, d) PROVE Ran(r)'
    BY <2>8, <2>1, <2>2 DEF CloseStep, OtherCards, Freeing
  <2>9. ASSUME NEW q \in Realms, ResetStep(q) PROVE Ran(r)'
    BY <2>9, <2>1, <2>2 DEF ResetStep, OtherCards, Freeing
  <2>10. ASSUME NEW q \in Realms, IdleStep(q) PROVE Ran(r)'
    BY <2>10, <2>1, <2>2 DEF IdleStep, OtherCards, Freeing
  <2>11. ASSUME NEW q \in Realms, HearStep(q) PROVE Ran(r)'
    BY <2>11, <2>1, <2>2 DEF HearStep, OtherCards, Freeing
  <2>12. ASSUME NEW q \in Realms, MoveStep(q) PROVE Ran(r)'
    BY <2>12, <2>1, <2>2 DEF MoveStep, OtherCards, Freeing
  <2>13. ASSUME NEW c \in Cards, BootStep(c) PROVE Ran(r)'
    <3>1. \A k \in Cards : card'[k].disposed = card[k].disposed
      BY <2>13 DEF BootStep, OtherCards
    <3>2. CASE r = c /\ card'[c].st # card[c].st
      <4>1. card[c].st = "made"
        BY <2>13 DEF BootJobs, BootStep
      <4> QED  BY <2>1, <2>2, <3>1, <3>2, <4>1
    <3>3. CASE ~(r = c /\ card'[c].st # card[c].st)
      BY <2>13, <2>1, <2>2, <3>1, <3>3 DEF BootStep, OtherCards
    <3> QED  BY <3>2, <3>3
  <2>14. ASSUME NEW c \in Cards, LoadedStep(c) PROVE Ran(r)'
    BY <2>14, <2>1, <2>2 DEF LoadedStep, OtherCards, Freeing
  <2>15. ASSUME NEW c \in Cards, DisposeStep(c) PROVE Ran(r)'
    BY <2>15, <2>1, <2>2 DEF DisposeStep, OtherCards, Freeing
  <2>16. ASSUME NEW c \in Cards, OwingStep(c) PROVE Ran(r)'
    BY <2>16, <2>1, <2>2 DEF OwingStep, OtherCards, Freeing
  <2>17. ASSUME NEW c \in Cards, FramesStep(c) PROVE Ran(r)'
    BY <2>17, <2>1, <2>2 DEF FramesStep, OtherCards, Freeing
  <2>18. ASSUME NEW c \in Cards, RecordsStep(c) PROVE Ran(r)'
    BY <2>18, <2>1, <2>2 DEF RecordsStep, OtherCards, Freeing
  <2>19. ASSUME NEW c \in Cards, ArriveStep(c) PROVE Ran(r)'
    BY <2>19, <2>1, <2>2 DEF ArriveStep, OtherCards, Freeing
  <2>20. ASSUME NEW c \in Cards, FlushStep(c) PROVE Ran(r)'
    BY <2>20, <2>1, <2>2 DEF FlushStep, OtherCards, Freeing
  <2>21. ASSUME NEW c \in Cards, CloseRealmStep(c) PROVE Ran(r)'
    BY <2>21, <2>1, <2>2 DEF CloseRealmStep, OtherCards, Freeing
  <2>22. ASSUME NEW c \in Cards, AckStep(c) PROVE Ran(r)'
    BY <2>22, <2>1, <2>2 DEF AckStep, OtherCards, Freeing
  <2>23. ASSUME NEW c \in Cards, BtsStep(c) PROVE Ran(r)'
    BY <2>23, <2>1, <2>2 DEF BtsStep, OtherCards, Freeing
  <2>24. ASSUME NEW c \in Cards, ObserveStep(c) PROVE Ran(r)'
    BY <2>24, <2>1, <2>2 DEF ObserveStep, OtherCards, Freeing
  <2>25. CASE HeardStep
    BY <2>25, <2>1, <2>2 DEF HeardStep, OtherCards, Freeing
  <2>26. CASE EpilogueStep
    BY <2>26, <2>1, <2>2 DEF EpilogueStep, OtherCards, Freeing
  <2>27. CASE OpenStep
    BY <2>27, <2>1, <2>2 DEF OpenStep, OtherCards, Freeing
  <2>28. CASE OpenEventsStep
    BY <2>28, <2>1, <2>2 DEF OpenEventsStep, OtherCards, Freeing
  <2>29. CASE OpenRecordsStep
    BY <2>29, <2>1, <2>2 DEF OpenRecordsStep, OtherCards, Freeing
  <2>30. CASE RecordStep
    BY <2>30, <2>1, <2>2 DEF RecordStep, OtherCards, Freeing
  <2>31. CASE BeginStep
    BY <2>31, <2>1, <2>2 DEF BeginStep, OtherCards, Freeing
  <2> QED  BY <2>3, <2>4, <2>5, <2>6, <2>7, <2>8, <2>9, <2>10, <2>11, <2>12, <2>13, <2>14,
              <2>15, <2>16, <2>17, <2>18, <2>19, <2>20, <2>21, <2>22, <2>23, <2>24, <2>25,
              <2>26, <2>27, <2>28, <2>29, <2>30, <2>31, <2>1 DEF Does
<1> QED  BY <1>1, <1>2

(* A frame is loaded by source alone.                                      *)
LEMMA LoadedFrom ==
  ASSUME Typed, Kinds', Does
  PROVE  \A q \in Realms : frame'[q].loaded => frame[q].loaded \/ \E x \in Srcs : At("source", q, x)
<1> DEFINE Goal == \A q \in Realms : frame'[q].loaded => frame[q].loaded \/ \E x \in Srcs : At("source", q, x)
<1>1. ASSUME NEW r \in Realms, NEW s \in Srcs, SourceStep(r, s) PROVE Goal
  BY <1>1 DEF SourceStep, Others, SameLoads
<1>2. ASSUME NEW r \in Realms, NEW s \in Srcs, SetSrcStep(r, s) PROVE Goal
  BY SMTT(30), <1>2 DEF SetSrcStep, Others, SameLoads
<1>3. ASSUME NEW r \in Realms, NEW g \in Nat, StartStep(r, g) PROVE Goal
  BY <1>3 DEF StartStep, Others, SameLoads
<1>4. ASSUME NEW r \in Realms, NEW g \in Nat, RunStartStep(r, g) PROVE Goal
  BY <1>4 DEF RunStartStep, Others, SameLoads
<1>5. ASSUME NEW r \in Realms, NEW g \in Nat, FetchStep(r, g) PROVE Goal
  BY <1>5 DEF FetchStep, Others, SameLoads
<1>6. ASSUME NEW r \in Realms, NEW d \in Conts, d = "frames" => r \in Cards, CloseStep(r, d) PROVE Goal
  BY <1>6 DEF CloseStep, Others, SameLoads
<1>7. ASSUME NEW r \in Realms, ResetStep(r) PROVE Goal
  BY <1>7 DEF ResetStep, Others, SameLoads
<1>8. ASSUME NEW r \in Realms, IdleStep(r) PROVE Goal
  BY <1>8 DEF IdleStep, Others, SameLoads
<1>9. ASSUME NEW r \in Realms, HearStep(r) PROVE Goal
  BY <1>9 DEF HearStep, Others, SameLoads
<1>10. ASSUME NEW r \in Realms, MoveStep(r) PROVE Goal
  BY <1>10 DEF MoveStep, Others, SameLoads
<1>11. ASSUME NEW c \in Cards, BootStep(c) PROVE Goal
  BY <1>11 DEF BootStep, Others, SameLoads
<1>12. ASSUME NEW c \in Cards, LoadedStep(c) PROVE Goal
  BY <1>12 DEF LoadedStep, Others, SameLoads
<1>13. ASSUME NEW c \in Cards, DisposeStep(c) PROVE Goal
  BY <1>13 DEF DisposeStep, Others, SameLoads
<1>14. ASSUME NEW c \in Cards, OwingStep(c) PROVE Goal
  BY <1>14 DEF OwingStep, Others, SameLoads
<1>15. ASSUME NEW c \in Cards, FramesStep(c) PROVE Goal
  BY <1>15 DEF FramesStep, Others, SameLoads
<1>16. ASSUME NEW c \in Cards, RecordsStep(c) PROVE Goal
  BY <1>16 DEF RecordsStep, Others, SameLoads
<1>17. ASSUME NEW c \in Cards, ArriveStep(c) PROVE Goal
  BY <1>17 DEF ArriveStep, Others, SameLoads
<1>18. ASSUME NEW c \in Cards, FlushStep(c) PROVE Goal
  BY <1>18 DEF FlushStep, Others, SameLoads
<1>19. ASSUME NEW c \in Cards, CloseRealmStep(c) PROVE Goal
  BY <1>19 DEF CloseRealmStep, Others, SameLoads
<1>20. ASSUME NEW c \in Cards, AckStep(c) PROVE Goal
  BY <1>20 DEF AckStep, Others, SameLoads
<1>21. ASSUME NEW c \in Cards, BtsStep(c) PROVE Goal
  BY <1>21 DEF BtsStep, Others, SameLoads
<1>22. ASSUME NEW c \in Cards, ObserveStep(c) PROVE Goal
  BY <1>22 DEF ObserveStep, Others, SameLoads
<1>23. CASE HeardStep
  BY <1>23 DEF HeardStep, Others, SameLoads
<1>24. CASE EpilogueStep
  BY <1>24 DEF EpilogueStep, Others, SameLoads
<1>25. CASE OpenStep
  BY <1>25 DEF OpenStep, Others, SameLoads
<1>26. CASE OpenEventsStep
  BY <1>26 DEF OpenEventsStep, Others, SameLoads
<1>27. CASE OpenRecordsStep
  BY <1>27 DEF OpenRecordsStep, Others, SameLoads
<1>28. CASE RecordStep
  BY <1>28 DEF RecordStep, Others, SameLoads
<1>29. CASE BeginStep
  BY <1>29 DEF BeginStep, Others, SameLoads
<1> QED  BY <1>1, <1>2, <1>3, <1>4, <1>5, <1>6, <1>7, <1>8, <1>9, <1>10, <1>11, <1>12, <1>13,
            <1>14, <1>15, <1>16, <1>17, <1>18, <1>19, <1>20, <1>21, <1>22, <1>23, <1>24, <1>25,
            <1>26, <1>27, <1>28, <1>29 DEF Does

(* A page is built by a card that boots.                                   *)
LEMMA RootFrom ==
  ASSUME Typed, Kinds', Does
  PROVE  \A k \in Cards : card'[k].root => card[k].root \/ card'[k].st = "booting"
<1> DEFINE Goal == \A k \in Cards : card'[k].root => card[k].root \/ card'[k].st = "booting"
<1>1. ASSUME NEW r \in Realms, NEW s \in Srcs, SourceStep(r, s) PROVE Goal
  BY <1>1 DEF SourceStep, OtherCards, Freeing
<1>2. ASSUME NEW r \in Realms, NEW s \in Srcs, SetSrcStep(r, s) PROVE Goal
  BY SMTT(30), <1>2 DEF SetSrcStep, OtherCards, Freeing
<1>3. ASSUME NEW r \in Realms, NEW g \in Nat, StartStep(r, g) PROVE Goal
  BY <1>3 DEF StartStep, OtherCards, Freeing
<1>4. ASSUME NEW r \in Realms, NEW g \in Nat, RunStartStep(r, g) PROVE Goal
  BY <1>4 DEF RunStartStep, OtherCards, Freeing
<1>5. ASSUME NEW r \in Realms, NEW g \in Nat, FetchStep(r, g) PROVE Goal
  BY <1>5 DEF FetchStep, OtherCards, Freeing
<1>6. ASSUME NEW r \in Realms, NEW d \in Conts, d = "frames" => r \in Cards, CloseStep(r, d) PROVE Goal
  BY <1>6 DEF CloseStep, OtherCards, Freeing
<1>7. ASSUME NEW r \in Realms, ResetStep(r) PROVE Goal
  BY <1>7 DEF ResetStep, OtherCards, Freeing
<1>8. ASSUME NEW r \in Realms, IdleStep(r) PROVE Goal
  BY <1>8 DEF IdleStep, OtherCards, Freeing
<1>9. ASSUME NEW r \in Realms, HearStep(r) PROVE Goal
  BY <1>9 DEF HearStep, OtherCards, Freeing
<1>10. ASSUME NEW r \in Realms, MoveStep(r) PROVE Goal
  BY <1>10 DEF MoveStep, OtherCards, Freeing
<1>11. ASSUME NEW c \in Cards, BootStep(c) PROVE Goal
  BY <1>11 DEF BootStep, OtherCards, Freeing
<1>12. ASSUME NEW c \in Cards, LoadedStep(c) PROVE Goal
  BY <1>12 DEF LoadedStep, OtherCards, Freeing
<1>13. ASSUME NEW c \in Cards, DisposeStep(c) PROVE Goal
  BY <1>13 DEF DisposeStep, OtherCards, Freeing
<1>14. ASSUME NEW c \in Cards, OwingStep(c) PROVE Goal
  BY <1>14 DEF OwingStep, OtherCards, Freeing
<1>15. ASSUME NEW c \in Cards, FramesStep(c) PROVE Goal
  BY <1>15 DEF FramesStep, OtherCards, Freeing
<1>16. ASSUME NEW c \in Cards, RecordsStep(c) PROVE Goal
  BY <1>16 DEF RecordsStep, OtherCards, Freeing
<1>17. ASSUME NEW c \in Cards, ArriveStep(c) PROVE Goal
  BY <1>17 DEF ArriveStep, OtherCards, Freeing
<1>18. ASSUME NEW c \in Cards, FlushStep(c) PROVE Goal
  BY <1>18 DEF FlushStep, OtherCards, Freeing
<1>19. ASSUME NEW c \in Cards, CloseRealmStep(c) PROVE Goal
  BY <1>19 DEF CloseRealmStep, OtherCards, Freeing
<1>20. ASSUME NEW c \in Cards, AckStep(c) PROVE Goal
  BY <1>20 DEF AckStep, OtherCards, Freeing
<1>21. ASSUME NEW c \in Cards, BtsStep(c) PROVE Goal
  BY <1>21 DEF BtsStep, OtherCards, Freeing
<1>22. ASSUME NEW c \in Cards, ObserveStep(c) PROVE Goal
  BY <1>22 DEF ObserveStep, OtherCards, Freeing
<1>23. CASE HeardStep
  BY <1>23 DEF HeardStep, OtherCards, Freeing
<1>24. CASE EpilogueStep
  BY <1>24 DEF EpilogueStep, OtherCards, Freeing
<1>25. CASE OpenStep
  BY <1>25 DEF OpenStep, OtherCards, Freeing
<1>26. CASE OpenEventsStep
  BY <1>26 DEF OpenEventsStep, OtherCards, Freeing
<1>27. CASE OpenRecordsStep
  BY <1>27 DEF OpenRecordsStep, OtherCards, Freeing
<1>28. CASE RecordStep
  BY <1>28 DEF RecordStep, OtherCards, Freeing
<1>29. CASE BeginStep
  BY <1>29 DEF BeginStep, OtherCards, Freeing
<1> QED  BY <1>1, <1>2, <1>3, <1>4, <1>5, <1>6, <1>7, <1>8, <1>9, <1>10, <1>11, <1>12, <1>13,
            <1>14, <1>15, <1>16, <1>17, <1>18, <1>19, <1>20, <1>21, <1>22, <1>23, <1>24, <1>25,
            <1>26, <1>27, <1>28, <1>29 DEF Does

(* Only what runs, or ran, loads frames and builds a page.                 *)
LEMMA RunsKept ==
  ASSUME Typed, Shape, Resting, BootJobs, Runs, Kinds', Does
  PROVE  Runs'
<1>1. ASSUME NEW r \in Realms, NEW s \in Srcs, <<"source", r, s>> \in Within(stack')
      PROVE  Ran(r)
  <2>1. CASE NoNew("source")
    BY <1>1, <2>1 DEF NoNew, Runs, On
  <2>2. ASSUME NEW q \in Realms, NEW x \in Srcs, SetSrcStep(q, x) PROVE Ran(r)
    <3>1. Within(stack') = {<<"source", q, x>>}
              \cup (IF frame[q].src = NoSrc THEN {} ELSE {<<"close", q, "reset">>}) \cup Within(stack)
      BY <2>2, SetSrcStack
    <3>2. Ran(q)
      BY <2>2 DEF SetSrcStep, AppRuns, Ran
    <3>3. q = r \/ <<"source", r, s>> \in Within(stack)
      BY <1>1, <3>1
    <3> QED  BY <3>2, <3>3 DEF Runs, On
  <2>3. ASSUME NEW q \in Realms, HearStep(q) PROVE Ran(r)
    <3>1. CASE stack' = stack
      BY <1>1, <3>1 DEF Runs, On
    <3>2. CASE FrameLives(q) /\ Pushed(<<"source", q, frame[q].src>>, <<>>)
      <4>1. Ran(q)
        BY <3>2, AnItem DEF FrameLives, Runs, Ran, Page
      <4>2. r = q
        BY <1>1, <3>2, NoCall DEF Pushed
      <4> QED  BY <4>1, <4>2
    <3>3. CASE Pushed(<<"close", q, "reset">>, <<>>)
      BY <1>1, <3>3, NoCall DEF Pushed
    <3> QED  BY <2>3, <3>1, <3>2, <3>3 DEF HearStep
  <2> QED  BY <2>1, <2>2, <2>3, NewSource
<1>2. ASSUME NEW r \in Realms, frame'[r].loaded PROVE Ran(r)
  <2>1. CASE frame[r].loaded
    BY <2>1 DEF Runs
  <2>2. ASSUME NEW x \in Srcs, At("source", r, x) PROVE Ran(r)
    <3>1. On("source", r, x)
      BY <2>2, AtFacts DEF On
    <3> QED  BY <3>1 DEF Runs
  <2> QED  BY <1>2, <2>1, <2>2, LoadedFrom
<1>3. ASSUME NEW c \in Cards, card'[c].root PROVE Ran(c)'
  <2>1. CASE card[c].root
    <3>1. Ran(c) /\ c \in Realms
      BY <2>1, AnItem DEF Runs
    <3> QED  BY <3>1, RanKept
  <2>2. CASE card'[c].st = "booting"
    BY <2>2 DEF Ran
  <2> QED  BY <1>3, <2>1, <2>2, RootFrom
<1>4. ASSUME NEW r \in Realms, NEW s \in Srcs, On("source", r, s)' PROVE Ran(r)'
  BY <1>1, <1>4, RanKept DEF On
<1>5. ASSUME NEW r \in Realms, frame'[r].loaded PROVE Ran(r)'
  BY <1>2, <1>5, RanKept
<1> QED  BY <1>3, <1>4, <1>5 DEF Runs

(* A card is made by start alone.                                          *)
LEMMA MadeFrom ==
  ASSUME Typed, Shape, Life, Kinds', Does
  PROVE  SameMade \/ \E r \in Realms, g \in Nat : At("start", r, g) /\ \E c \in Cards :
        OtherCards(c) /\ card[c].st = "unmade" /\ card'[c].st = "made" /\ card'[c].host = r
<1> DEFINE Goal ==
  SameMade \/ \E r \in Realms, g \in Nat : At("start", r, g) /\ \E c \in Cards :
    OtherCards(c) /\ card[c].st = "unmade" /\ card'[c].st = "made" /\ card'[c].host = r
<1>1. ASSUME NEW r \in Realms, NEW s \in Srcs, SourceStep(r, s) PROVE Goal
  BY <1>1 DEF SourceStep, SameMade, OtherCards, Typed, Made
<1>2. ASSUME NEW r \in Realms, NEW s \in Srcs, SetSrcStep(r, s) PROVE Goal
  BY <1>2 DEF SetSrcStep, SameMade, OtherCards, Typed, Made
<1>3. ASSUME NEW r \in Realms, NEW g \in Nat, StartStep(r, g) PROVE Goal
  <2>1. CASE UNCHANGED card
    BY SMTT(30), <2>1 DEF SameMade
  <2>2. CASE ~UNCHANGED card
    BY <1>3, <2>2 DEF StartStep
  <2> QED  BY <2>1, <2>2
<1>4. ASSUME NEW r \in Realms, NEW g \in Nat, RunStartStep(r, g) PROVE Goal
  BY <1>4 DEF RunStartStep, SameMade, OtherCards, Typed, Made
<1>5. ASSUME NEW r \in Realms, NEW g \in Nat, FetchStep(r, g) PROVE Goal
  BY <1>5 DEF FetchStep, SameMade, OtherCards, Typed, Made
<1>6. ASSUME NEW r \in Realms, NEW d \in Conts, d = "frames" => r \in Cards, CloseStep(r, d) PROVE Goal
  BY ZenonT(60), <1>6 DEF CloseStep, SameMade, OtherCards, Typed, Made
<1>7. ASSUME NEW r \in Realms, ResetStep(r) PROVE Goal
  BY <1>7 DEF ResetStep, SameMade, OtherCards, Typed, Made
<1>8. ASSUME NEW r \in Realms, IdleStep(r) PROVE Goal
  BY <1>8 DEF IdleStep, SameMade, OtherCards, Typed, Made
<1>9. ASSUME NEW r \in Realms, HearStep(r) PROVE Goal
  BY <1>9 DEF HearStep, SameMade, OtherCards, Typed, Made
<1>10. ASSUME NEW r \in Realms, MoveStep(r) PROVE Goal
  BY <1>10 DEF MoveStep, SameMade, OtherCards, Typed, Made
<1>11. ASSUME NEW c \in Cards, BootStep(c) PROVE Goal
  BY <1>11 DEF BootStep, SameMade, OtherCards, Typed, Made
<1>12. ASSUME NEW c \in Cards, LoadedStep(c) PROVE Goal
  <2>1. <<"loading", c, 0>> \in Within(stack)
    BY <1>12, AtFacts DEF LoadedStep
  <2>2. card[c].st # "unmade"
    BY <2>1, AnItem DEF Life, Alive, Page
  <2>3. OtherCards(c) /\ UNCHANGED <<card[c].host, card[c].gen>> /\ card'[c].st # "unmade"
    BY <1>12 DEF LoadedStep
  <2> QED  BY <2>2, <2>3 DEF SameMade, OtherCards
<1>13. ASSUME NEW c \in Cards, DisposeStep(c) PROVE Goal
  <2>3. OtherCards(c) /\ UNCHANGED <<card[c].host, card[c].gen, card[c].st>>
    BY SMTT(30), <1>13 DEF DisposeStep
  <2> QED  BY <2>3 DEF SameMade, OtherCards
<1>14. ASSUME NEW c \in Cards, OwingStep(c) PROVE Goal
  BY <1>14 DEF OwingStep, SameMade, OtherCards, Typed, Made
<1>15. ASSUME NEW c \in Cards, FramesStep(c) PROVE Goal
  BY <1>15 DEF FramesStep, SameMade, OtherCards, Typed, Made
<1>16. ASSUME NEW c \in Cards, RecordsStep(c) PROVE Goal
  BY <1>16 DEF RecordsStep, SameMade, OtherCards, Typed, Made
<1>17. ASSUME NEW c \in Cards, ArriveStep(c) PROVE Goal
  BY <1>17 DEF ArriveStep, SameMade, OtherCards, Typed, Made
<1>18. ASSUME NEW c \in Cards, FlushStep(c) PROVE Goal
  BY <1>18 DEF FlushStep, SameMade, OtherCards, Typed, Made
<1>19. ASSUME NEW c \in Cards, CloseRealmStep(c) PROVE Goal
  BY <1>19 DEF CloseRealmStep, SameMade, OtherCards, Typed, Made
<1>20. ASSUME NEW c \in Cards, AckStep(c) PROVE Goal
  BY <1>20 DEF AckStep, SameMade, OtherCards, Typed, Made
<1>21. ASSUME NEW c \in Cards, BtsStep(c) PROVE Goal
  BY <1>21 DEF BtsStep, SameMade, OtherCards, Typed, Made
<1>22. ASSUME NEW c \in Cards, ObserveStep(c) PROVE Goal
  BY <1>22 DEF ObserveStep, SameMade, OtherCards, Typed, Made
<1>23. CASE HeardStep
  <2>1. CASE UNCHANGED card
    BY <2>1 DEF SameMade
  <2>2. CASE Freeing(flying)
    BY <2>2, FreeingMade
  <2> QED  BY <1>23, <2>1, <2>2 DEF HeardStep
<1>24. CASE EpilogueStep
  BY <1>24, FreeingMade DEF EpilogueStep
<1>25. CASE OpenStep
  BY <1>25 DEF OpenStep, SameMade, OtherCards, Typed, Made
<1>26. CASE OpenEventsStep
  BY <1>26 DEF OpenEventsStep, SameMade, OtherCards, Typed, Made
<1>27. CASE OpenRecordsStep
  BY <1>27 DEF OpenRecordsStep, SameMade, OtherCards, Typed, Made
<1>28. CASE RecordStep
  BY <1>28 DEF RecordStep, SameMade, OtherCards, Typed, Made
<1>29. CASE BeginStep
  BY <1>29 DEF BeginStep, SameMade, OtherCards, Typed, Made
<1> QED  BY <1>1, <1>2, <1>3, <1>4, <1>5, <1>6, <1>7, <1>8, <1>9, <1>10, <1>11, <1>12, <1>13,
            <1>14, <1>15, <1>16, <1>17, <1>18, <1>19, <1>20, <1>21, <1>22, <1>23, <1>24, <1>25,
            <1>26, <1>27, <1>28, <1>29 DEF Does

(* Life: what runs is alive.                                               *)
LEMMA HostsKept ==
  ASSUME Typed, Shape, Life, Kinds', Does
  PROVE  \A c \in Cards : card'[c].st # "unmade" =>
            card'[c].host = Page \/ card'[card'[c].host].st # "unmade"
<1>1. CASE SameMade
  <2>1. \A c \in Cards : card[c].host \in Realms
    BY DEF Typed, Kinds, CardRec
  <2>2. \A c \in Cards : card[c].host = Page \/ card[c].host \in Cards
    BY <2>1, AnItem DEF Page
  <2> QED  BY <1>1, <2>2 DEF SameMade, Life
<1>2. ASSUME NEW r \in Realms, NEW g \in Nat, NEW c \in Cards, At("start", r, g), OtherCards(c),
             card[c].st = "unmade", card'[c].st = "made", card'[c].host = r
      PROVE  \A k \in Cards : card'[k].st # "unmade" =>
                card'[k].host = Page \/ card'[card'[k].host].st # "unmade"
  <2>1. <<"start", r, g>> \in Within(stack)
    BY <1>2, AtFacts
  <2>2. Alive(r)
    BY <2>1 DEF Life
  <2>3. r = Page \/ (r \in Cards /\ card[r].st # "unmade")
    BY <2>2, AnItem DEF Alive, Page
  <2>4. \A q \in Cards : card[q].st # "unmade" => card'[q].st # "unmade"
    BY <1>2 DEF OtherCards
  <2>5. ASSUME NEW k \in Cards, card'[k].st # "unmade"
        PROVE  card'[k].host = Page \/ card'[card'[k].host].st # "unmade"
    <3>1. CASE k = c
      BY <1>2, <2>3, <2>4, <3>1
    <3>2. CASE k # c
      <4>1. card[k].st # "unmade" /\ card'[k].host = card[k].host /\ card[k].host \in Realms
        BY <1>2, <2>5, <3>2 DEF OtherCards, Typed, Kinds, CardRec
      <4>2. card[k].host = Page \/ (card[k].host \in Cards /\ card[card[k].host].st # "unmade")
        BY <4>1, AnItem DEF Life, Page
      <4> QED  BY <2>4, <4>1, <4>2
    <3> QED  BY <3>1, <3>2
  <2> QED  BY <2>5
<1>3. SameMade \/ \E r \in Realms, g \in Nat : At("start", r, g) /\ \E c \in Cards :
        OtherCards(c) /\ card[c].st = "unmade" /\ card'[c].st = "made" /\ card'[c].host = r
  BY MadeFrom
<1> QED  BY <1>1, <1>2, <1>3


-----------------------------------------------------------------------------
(* What runs is alive.                                                     *)

(* A call in progress is of a realm that is alive, and so are those below  *)
(* it.                                                                     *)
LEMMA CallAlive ==
  ASSUME Typed, Shape, Life, NEW k, NEW r, NEW a, At(k, r, a)
  PROVE  /\ Alive(r) /\ \A x \in Within(Pop) \cup jobs : Alive(x[2])
<1>1. Within(stack) = {<<k, r, a>>} \cup Within(Pop)
  BY AtFacts
<1>2. <<k, r, a>>[2] = r
  OBVIOUS
<1> QED  BY <1>1, <1>2 DEF Life

(* So is what a call calls.                                                *)
LEMMA CallsAlive ==
  ASSUME Typed, Shape, Own, Links, Life, Kinds', Does
  PROVE  \A x \in Within(stack') \cup jobs' : Alive(x[2]) \/ Alive(x[2])'
<1> DEFINE Goal == \A x \in Within(stack') \cup jobs' : Alive(x[2]) \/ Alive(x[2])'
<1>1. ASSUME NEW r \in Realms, NEW s \in Srcs, SourceStep(r, s) PROVE Goal
  <2>1. Alive(r) /\ \A x \in Within(Pop) \cup jobs : Alive(x[2])
    BY <1>1, CallAlive DEF SourceStep
  <2>2. Within(stack') = Within(Pop) /\ \A x \in jobs' : x \in jobs \/ x[2] = r
    BY <1>1 DEF SourceStep
  <2> QED  BY <2>1, <2>2
<1>2. ASSUME NEW r \in Realms, NEW s \in Srcs, SetSrcStep(r, s) PROVE Goal
  <2>1. Within(stack') = {<<"source", r, s>>}
              \cup (IF frame[r].src = NoSrc THEN {} ELSE {<<"close", r, "reset">>}) \cup Within(stack)
    BY <1>2, SetSrcStack
  <2>2. jobs' = jobs /\ Alive(r)
    BY <1>2 DEF SetSrcStep, AppRuns
  <2>3. \A x \in Within(stack') : x \in Within(stack) \/ x[2] = r
    BY <2>1
  <2> QED  BY <2>2, <2>3 DEF Life
<1>3. ASSUME NEW r \in Realms, NEW g \in Nat, StartStep(r, g) PROVE Goal
  <2>1. Alive(r) /\ \A x \in Within(Pop) \cup jobs : Alive(x[2])
    BY SMTT(30), <1>3, CallAlive DEF StartStep
  <2>2. Within(stack') = Within(Pop)
    BY <1>3 DEF StartStep
  <2>3. CASE jobs' = jobs
    BY <2>1, <2>2, <2>3
  <2>4. ASSUME NEW c \in Cards, jobs' = jobs \cup {<<"boot", c, 0>>}, card'[c].st = "made"
        PROVE  \A x \in Within(stack') \cup jobs' : Alive(x[2]) \/ Alive(x[2])'
    <3>1. Alive(c)'
      BY <2>4 DEF Alive
    <3>2. <<"boot", c, 0>>[2] = c
      OBVIOUS
    <3>3. \A x \in jobs' : x \in jobs \/ x = <<"boot", c, 0>>
      BY <2>4
    <3>4. ASSUME NEW x \in Within(stack') \cup jobs' PROVE Alive(x[2]) \/ Alive(x[2])'
      <4>1. CASE x = <<"boot", c, 0>>
        <5>1. x[2] = c
          BY <3>2, <4>1
        <5> QED  BY <3>1, <5>1 DEF Alive
      <4>2. CASE x # <<"boot", c, 0>>
        BY <2>1, <2>2, <3>3, <4>2
      <4> QED  BY <4>1, <4>2
    <3> QED  BY <3>4
  <2> QED  BY SMTT(30), <1>3, <2>3, <2>4 DEF StartStep
<1>4. ASSUME NEW r \in Realms, NEW g \in Nat, RunStartStep(r, g) PROVE Goal
  <2>1. \A x \in jobs' : x \in jobs
    BY <1>4 DEF RunStartStep
  <2>2. CASE Pushed(<<"start", r, g>>, <<>>)
    <3>1. \A x \in Within(stack') : x = <<"start", r, g>>
      BY <2>2, NoCall DEF Pushed
    <3>2. Alive(<<"start", r, g>>[2])
      <4>1. <<"start", r, g>> \in jobs
        BY <1>4 DEF RunStartStep
      <4>2. Alive(<<"start", r, g>>[2])
        BY <4>1 DEF Life
      <4> QED  BY <4>2
    <3> QED  BY <2>1, <3>1, <3>2 DEF Life
  <2>3. CASE stack' = <<>>
    BY <2>1, <2>3, NoCall DEF Life
  <2>4. CASE stack' = stack
    BY <2>1, <2>4 DEF Life
  <2> QED  BY <1>4, <2>2, <2>3, <2>4 DEF RunStartStep
<1>5. ASSUME NEW r \in Realms, NEW g \in Nat, FetchStep(r, g) PROVE Goal
  <2>1. jobs' = jobs
    BY <1>5 DEF FetchStep
  <2>2. CASE Alive(r) /\ Pushed(<<"start", r, g>>, <<>>)
    <3>1. \A x \in Within(stack') : x[2] = r
      BY <2>2, NoCall DEF Pushed
    <3> QED  BY <2>1, <2>2, <3>1 DEF Life
  <2>3. CASE stack' = stack
    BY <2>1, <2>3 DEF Life
  <2> QED  BY <1>5, <2>2, <2>3 DEF FetchStep
<1>6. ASSUME NEW r \in Realms, NEW d \in Conts, d = "frames" => r \in Cards, CloseStep(r, d) PROVE Goal
  <2>1. Alive(r) /\ \A x \in Within(Pop) \cup jobs : Alive(x[2])
    BY <1>6, CallAlive DEF CloseStep
  <2>2. jobs' = jobs
    BY <1>6 DEF CloseStep
  <2>3. CASE Pushed(<<d, r, 0>>, Pop)
    <3>1. \A x \in Within(stack') : x \in Within(Pop) \/ x[2] = r
      BY <2>3 DEF Pushed
    <3> QED  BY <2>1, <2>2, <3>1
  <2>4. ASSUME NEW c \in Cards, frame[r].dispose = c, Pushed(<<"dispose", c, 0>>, Pop)
        PROVE  \A x \in Within(stack') \cup jobs' : Alive(x[2]) \/ Alive(x[2])'
    <3>1. \A x \in Within(stack') : x \in Within(Pop) \/ x[2] = c
      BY <2>4 DEF Pushed
    <3>2. Alive(c)
      BY <2>1, <2>4, AnItem DEF Links
    <3> QED  BY <2>1, <2>2, <3>1, <3>2
  <2> QED  BY <1>6, <2>3, <2>4 DEF CloseStep
<1>7. ASSUME NEW r \in Realms, ResetStep(r) PROVE Goal
  <2>1. Alive(r) /\ \A x \in Within(Pop) \cup jobs : Alive(x[2])
    BY <1>7, CallAlive DEF ResetStep
  <2>2. jobs' = jobs
    BY <1>7 DEF ResetStep
  <2>3. \A x \in Within(frame[r].after) : x[2] = r
    BY DEF Own
  <2>4. \A x \in Within(stack') : x \in Within(Pop) \/ x[2] = r
    <3>1. CASE frame[r].owed = 1
      BY <1>7, <2>3, <3>1 DEF ResetStep
    <3>2. CASE frame[r].owed # 1
      BY <1>7, <2>3, <3>2 DEF ResetStep
    <3> QED  BY <3>1, <3>2
  <2> QED  BY <2>1, <2>2, <2>4
<1>8. ASSUME NEW r \in Realms, IdleStep(r) PROVE Goal
  <2>1. \A x \in Within(Pop) \cup jobs : Alive(x[2])
    BY <1>8, CallAlive DEF IdleStep
  <2>2. Within(stack') = Within(Pop) /\ jobs' = jobs
    BY <1>8 DEF IdleStep
  <2> QED  BY <2>1, <2>2
<1>9. ASSUME NEW r \in Realms, HearStep(r) PROVE Goal
  <2>1. jobs' = jobs
    BY <1>9 DEF HearStep
  <2>2. ASSUME NEW x, x[2] = r, Alive(r), Pushed(x, <<>>)
        PROVE \A y \in Within(stack') \cup jobs' : Alive(y[2]) \/ Alive(y[2])'
    <3>1. \A y \in Within(stack') : y[2] = r
      BY <2>2, NoCall DEF Pushed
    <3> QED  BY <2>1, <2>2, <3>1 DEF Life
  <2>3. CASE stack' = stack
    BY <2>1, <2>3 DEF Life
  <2> QED  BY <1>9, <2>2, <2>3 DEF HearStep
<1>10. ASSUME NEW r \in Realms, MoveStep(r) PROVE Goal
  <2>1. stack' = stack /\ \A x \in jobs' : x \in jobs
    BY <1>10 DEF MoveStep
  <2> QED  BY <2>1 DEF Life
<1>11. ASSUME NEW c \in Cards, BootStep(c) PROVE Goal
  <2>1. \A x \in jobs' : x \in jobs
    BY <1>11 DEF BootStep
  <2>2. CASE Pushed(<<"loading", c, 0>>, <<>>)
    <3>1. \A x \in Within(stack') : x = <<"loading", c, 0>>
      BY <2>2, NoCall DEF Pushed
    <3>2. Alive(<<"loading", c, 0>>[2])
      <4>1. <<"boot", c, 0>> \in jobs
        BY <1>11 DEF BootStep
      <4>2. Alive(<<"boot", c, 0>>[2])
        BY <4>1 DEF Life
      <4> QED  BY <4>2
    <3> QED  BY <2>1, <3>1, <3>2 DEF Life
  <2>3. CASE stack' = <<>>
    BY <2>1, <2>3, NoCall DEF Life
  <2>4. CASE stack' = stack
    BY <2>1, <2>4 DEF Life
  <2> QED  BY <1>11, <2>2, <2>3, <2>4 DEF BootStep
<1>12. ASSUME NEW c \in Cards, LoadedStep(c) PROVE Goal
  <2>1. \A x \in Within(Pop) \cup jobs : Alive(x[2])
    BY <1>12, CallAlive DEF LoadedStep
  <2>2. Within(stack') = Within(Pop) /\ jobs' = jobs
    BY <1>12 DEF LoadedStep
  <2> QED  BY <2>1, <2>2
<1>13. ASSUME NEW c \in Cards, DisposeStep(c) PROVE Goal
  <2>1. Alive(c) /\ \A x \in Within(Pop) \cup jobs : Alive(x[2])
    BY <1>13, CallAlive DEF DisposeStep
  <2>2. PICK j \in {"records", "arrive"} :
           Within(stack') = (IF frame[c].loaded THEN {<<"close", c, "frames">>} ELSE {})
                \cup {<<"owing", c, 0>>, <<"frames", c, 0>>, <<j, c, 0>>} \cup Within(Pop)
    BY <1>13, DisposeStack
  <2>3. jobs' = jobs
    BY <1>13 DEF DisposeStep
  <2>4. \A x \in Within(stack') : x \in Within(Pop) \/ x[2] = c
    BY <2>2
  <2> QED  BY <2>1, <2>3, <2>4
<1>14. ASSUME NEW c \in Cards, OwingStep(c) PROVE Goal
  <2>1. \A x \in Within(Pop) \cup jobs : Alive(x[2])
    BY <1>14, CallAlive DEF OwingStep
  <2>2. Within(stack') = Within(Pop) /\ jobs' = jobs
    BY <1>14 DEF OwingStep
  <2> QED  BY <2>1, <2>2
<1>15. ASSUME NEW c \in Cards, FramesStep(c) PROVE Goal
  <2>1. Alive(c) /\ \A x \in Within(Pop) \cup jobs : Alive(x[2])
    BY <1>15, CallAlive DEF FramesStep
  <2>2. jobs' = jobs
    BY <1>15 DEF FramesStep
  <2>3. CASE Pushed(<<"arrive", c, 0>>, Pop)
    <3>1. \A x \in Within(stack') : x \in Within(Pop) \/ x[2] = c
      BY <2>3 DEF Pushed
    <3> QED  BY <2>1, <2>2, <3>1
  <2>4. CASE stack' = Pop
    BY <2>1, <2>2, <2>4
  <2> QED  BY <1>15, <2>3, <2>4 DEF FramesStep
<1>16. ASSUME NEW c \in Cards, RecordsStep(c) PROVE Goal
  <2>1. \A x \in Within(Pop) \cup jobs : Alive(x[2])
    BY <1>16, CallAlive DEF RecordsStep
  <2>2. Within(stack') = Within(Pop) /\ jobs' = jobs
    BY <1>16 DEF RecordsStep
  <2> QED  BY <2>1, <2>2
<1>17. ASSUME NEW c \in Cards, ArriveStep(c) PROVE Goal
  <2>1. Alive(c) /\ \A x \in Within(Pop) \cup jobs : Alive(x[2])
    BY <1>17, CallAlive DEF ArriveStep
  <2>2. \A x \in jobs' : x \in jobs \/ x[2] = c
    BY <1>17 DEF ArriveStep
  <2>3. CASE Alive(card[c].host) /\ Pushed(<<card[c].done, card[c].host, 0>>, Pop)
    <3>1. \A x \in Within(stack') : x \in Within(Pop) \/ x[2] = card[c].host
      BY <2>3 DEF Pushed
    <3> QED  BY <2>1, <2>2, <2>3, <3>1
  <2>4. CASE stack' = Pop
    BY <2>1, <2>2, <2>4
  <2> QED  BY <1>17, <2>3, <2>4 DEF ArriveStep
<1>18. ASSUME NEW c \in Cards, FlushStep(c) PROVE Goal
  <2>1. \A x \in jobs' : x \in jobs
    BY <1>18 DEF FlushStep
  <2>2. CASE Pushed(<<"arrive", c, 0>>, <<>>)
    <3>1. \A x \in Within(stack') : x = <<"arrive", c, 0>>
      BY <2>2, NoCall DEF Pushed
    <3>2. Alive(<<"arrive", c, 0>>[2])
      <4>1. <<"flush", c, 0>> \in jobs
        BY <1>18 DEF FlushStep
      <4>2. Alive(<<"flush", c, 0>>[2])
        BY <4>1 DEF Life
      <4> QED  BY <4>2
    <3> QED  BY <2>1, <3>1, <3>2 DEF Life
  <2>3. CASE stack' = <<>>
    BY <2>1, <2>3, NoCall DEF Life
  <2>4. CASE stack' = stack
    BY <2>1, <2>4 DEF Life
  <2> QED  BY <1>18, <2>2, <2>3, <2>4 DEF FlushStep
<1>19. ASSUME NEW c \in Cards, CloseRealmStep(c) PROVE Goal
  <2>1. stack' = stack /\ \A x \in jobs' : x \in jobs
    BY <1>19 DEF CloseRealmStep
  <2> QED  BY <2>1 DEF Life
<1>20. ASSUME NEW c \in Cards, AckStep(c) PROVE Goal
  <2>1. stack' = <<>>
    BY <1>20 DEF AckStep
  <2>2. ASSUME NEW x \in jobs' PROVE Alive(x[2])
    <3>1. x = <<"closeRealm", c, 0>> /\ Alive(c)
      BY <1>20, <2>2 DEF AckStep
    <3>2. <<"closeRealm", c, 0>>[2] = c
      OBVIOUS
    <3>3. x[2] = c
      BY <3>1, <3>2
    <3> QED  BY <3>1, <3>3, Zenon
  <2> QED  BY <2>1, <2>2, NoCall
<1>21. ASSUME NEW c \in Cards, BtsStep(c) PROVE Goal
  <2>1. stack' = stack /\ \A x \in jobs' : x \in jobs
    BY <1>21 DEF BtsStep
  <2> QED  BY <2>1 DEF Life
<1>22. ASSUME NEW c \in Cards, ObserveStep(c) PROVE Goal
  <2>1. stack' = stack /\ \A x \in jobs' : x \in jobs
    BY <1>22 DEF ObserveStep
  <2> QED  BY <2>1 DEF Life
<1>23. CASE HeardStep
  <2>1. stack' = <<>> /\ jobs' = {}
    BY <1>23 DEF HeardStep
  <2> QED  BY <2>1, NoCall
<1>24. CASE EpilogueStep
  <2>1. stack' = <<>> /\ jobs' = {}
    BY <1>24 DEF EpilogueStep
  <2> QED  BY <2>1, NoCall
<1>25. CASE OpenStep
  <2>1. stack' = stack /\ \A x \in jobs' : x \in jobs
    BY <1>25 DEF OpenStep
  <2> QED  BY <2>1 DEF Life
<1>26. CASE OpenEventsStep
  <2>1. stack' = stack /\ \A x \in jobs' : x \in jobs
    BY <1>26 DEF OpenEventsStep
  <2> QED  BY <2>1 DEF Life
<1>27. CASE OpenRecordsStep
  <2>1. stack' = stack /\ \A x \in jobs' : x \in jobs
    BY <1>27 DEF OpenRecordsStep
  <2> QED  BY <2>1 DEF Life
<1>28. CASE RecordStep
  <2>1. stack' = <<>>
    BY <1>28 DEF RecordStep
  <2>2. ASSUME NEW x \in jobs' PROVE Alive(x[2])
    <3>1. PICK c \in Cards : x = <<"flush", c, 0>> /\ Alive(c)
      BY <1>28, <2>2 DEF RecordStep, Reached
    <3>2. <<"flush", c, 0>>[2] = c
      OBVIOUS
    <3>3. x[2] = c
      BY <3>1, <3>2
    <3> QED  BY <3>1, <3>3, Zenon
  <2> QED  BY <2>1, <2>2, NoCall
<1>29. CASE BeginStep
  <2>1. Within(stack') = (IF frame[Page].loaded THEN {<<"close", Page, "nothing">>} ELSE {})
              \cup {<<"askPage", Page, 0>>}
    BY <1>29, BeginStack
  <2>2. jobs' = jobs
    BY <1>29 DEF BeginStep
  <2>3. \A x \in Within(stack') : x[2] = Page
    BY <2>1
  <2>4. Alive(Page)
    BY DEF Alive
  <2> QED  BY <2>2, <2>3, <2>4 DEF Life
<1> QED  BY <1>1, <1>2, <1>3, <1>4, <1>5, <1>6, <1>7, <1>8, <1>9, <1>10, <1>11, <1>12, <1>13,
            <1>14, <1>15, <1>16, <1>17, <1>18, <1>19, <1>20, <1>21, <1>22, <1>23, <1>24, <1>25,
            <1>26, <1>27, <1>28, <1>29 DEF Does

(* What runs is alive: nothing runs where realms are freed.                *)
LEMMA LifeKept ==
  ASSUME Typed, Shape, Own, Links, Life, Kinds', Does
  PROVE  Life'
<1>1. \A x \in Within(stack') \cup jobs' : Alive(x[2])'
  <2>1. CASE Frees
    <3>1. stack' = <<>> /\ jobs' = {}
      BY <2>1 DEF Frees
    <3> QED  BY <3>1, NoCall
  <2>2. CASE Lives
    <3>1. ASSUME NEW x \in Within(stack') \cup jobs' PROVE Alive(x[2])'
      <4>1. x[2] \in Realms
        <5>1. CASE x \in Within(stack')
          <6>1. x \in Items
            BY <5>1 DEF Kinds, Within
          <6> QED  BY <6>1, ItemFacts
        <5>2. CASE x \in jobs'
          BY <5>2, AnItem DEF Kinds, JobItems
        <5> QED  BY <5>1, <5>2
      <4>2. Alive(x[2]) => Alive(x[2])'
        <5>1. CASE x[2] = Page
          BY <5>1 DEF Alive
        <5>2. CASE x[2] # Page
          <6>1. x[2] \in Cards
            BY <4>1, <5>2, AnItem DEF Page
          <6> QED  BY <2>2, <6>1 DEF Lives
        <5> QED  BY <5>1, <5>2
      <4> QED  BY <4>2, CallsAlive
    <3> QED  BY <3>1
  <2> QED  BY <2>1, <2>2, AliveKept
<1>2. \A c \in Cards : card'[c].st # "unmade" =>
            card'[c].host = Page \/ card'[card'[c].host].st # "unmade"
  BY HostsKept
<1> QED  BY <1>1, <1>2 DEF Life


-----------------------------------------------------------------------------
(* How far the disposal of a card is.                                      *)

(* The call on top after the step.                                         *)
LEMMA TopThen ==
  ASSUME Kinds', stack' # <<>>
  PROVE  Top' \in Items /\ Top' \in Within(stack')
<1>1. stack' \in Seq(Items)
  BY DEF Kinds
<1>2. Head(stack') \in Items /\ Within(stack') = {Head(stack')} \cup Within(Tail(stack'))
  BY <1>1, Split
<1> QED  BY <1>2 DEF Top

(* The calls only a card let go of makes.                                  *)
Late(x) == x[1] \in {"owing", "frames", "arrive", "records"} \/ (x[1] = "close" /\ x[3] = "frames")

(* A card that makes such a call was let go of.                            *)
LEMMA LateDisposed ==
  ASSUME Typed, Flags, NEW x \in Within(stack), Late(x)
  PROVE  card[x[2]].disposed /\ x[2] \in Cards
<1>1. x \in Items
  BY DEF Typed, Kinds, Within
<1>2. x = <<x[1], x[2], x[3]>>
  BY <1>1, ItemFacts
<1>3. CASE x[1] \in {"owing", "frames", "arrive", "records"}
  <2>1. x[2] \in Cards /\ x[3] = 0
    BY <1>1, <1>3, ItemFacts DEF CardCalls
  <2>2. On(x[1], x[2], 0)
    BY <1>2, <2>1 DEF On
  <2> QED  BY <1>3, <2>1, <2>2 DEF Flags
<1>4. CASE x[1] = "close" /\ x[3] = "frames"
  <2>1. x[2] \in Cards
    BY <1>1, <1>4, ItemFacts
  <2>2. On("close", x[2], "frames")
    BY <1>2, <1>4 DEF On
  <2> QED  BY <2>1, <2>2 DEF Flags
<1> QED  BY <1>3, <1>4 DEF Late

(* A card let go of stays so.                                              *)
LEMMA DisposedStays ==
  ASSUME Typed, Kinds', Does
  PROVE  \A k \in Cards : card[k].disposed => card'[k].disposed
<1> DEFINE Goal == \A k \in Cards : card[k].disposed => card'[k].disposed
<1>1. ASSUME NEW r \in Realms, NEW s \in Srcs, SourceStep(r, s) PROVE Goal
  BY <1>1 DEF SourceStep, OtherCards, Freeing
<1>2. ASSUME NEW r \in Realms, NEW s \in Srcs, SetSrcStep(r, s) PROVE Goal
  BY SMTT(30), <1>2 DEF SetSrcStep, OtherCards, Freeing
<1>3. ASSUME NEW r \in Realms, NEW g \in Nat, StartStep(r, g) PROVE Goal
  BY <1>3 DEF StartStep, OtherCards, Freeing
<1>4. ASSUME NEW r \in Realms, NEW g \in Nat, RunStartStep(r, g) PROVE Goal
  BY <1>4 DEF RunStartStep, OtherCards, Freeing
<1>5. ASSUME NEW r \in Realms, NEW g \in Nat, FetchStep(r, g) PROVE Goal
  BY <1>5 DEF FetchStep, OtherCards, Freeing
<1>6. ASSUME NEW r \in Realms, NEW d \in Conts, d = "frames" => r \in Cards, CloseStep(r, d) PROVE Goal
  BY <1>6 DEF CloseStep, OtherCards, Freeing
<1>7. ASSUME NEW r \in Realms, ResetStep(r) PROVE Goal
  BY <1>7 DEF ResetStep, OtherCards, Freeing
<1>8. ASSUME NEW r \in Realms, IdleStep(r) PROVE Goal
  BY <1>8 DEF IdleStep, OtherCards, Freeing
<1>9. ASSUME NEW r \in Realms, HearStep(r) PROVE Goal
  BY <1>9 DEF HearStep, OtherCards, Freeing
<1>10. ASSUME NEW r \in Realms, MoveStep(r) PROVE Goal
  BY <1>10 DEF MoveStep, OtherCards, Freeing
<1>11. ASSUME NEW c \in Cards, BootStep(c) PROVE Goal
  BY <1>11 DEF BootStep, OtherCards, Freeing
<1>12. ASSUME NEW c \in Cards, LoadedStep(c) PROVE Goal
  BY <1>12 DEF LoadedStep, OtherCards, Freeing
<1>13. ASSUME NEW c \in Cards, DisposeStep(c) PROVE Goal
  BY <1>13 DEF DisposeStep, OtherCards, Freeing
<1>14. ASSUME NEW c \in Cards, OwingStep(c) PROVE Goal
  BY <1>14 DEF OwingStep, OtherCards, Freeing
<1>15. ASSUME NEW c \in Cards, FramesStep(c) PROVE Goal
  BY <1>15 DEF FramesStep, OtherCards, Freeing
<1>16. ASSUME NEW c \in Cards, RecordsStep(c) PROVE Goal
  BY <1>16 DEF RecordsStep, OtherCards, Freeing
<1>17. ASSUME NEW c \in Cards, ArriveStep(c) PROVE Goal
  BY <1>17 DEF ArriveStep, OtherCards, Freeing
<1>18. ASSUME NEW c \in Cards, FlushStep(c) PROVE Goal
  BY <1>18 DEF FlushStep, OtherCards, Freeing
<1>19. ASSUME NEW c \in Cards, CloseRealmStep(c) PROVE Goal
  BY <1>19 DEF CloseRealmStep, OtherCards, Freeing
<1>20. ASSUME NEW c \in Cards, AckStep(c) PROVE Goal
  BY <1>20 DEF AckStep, OtherCards, Freeing
<1>21. ASSUME NEW c \in Cards, BtsStep(c) PROVE Goal
  BY <1>21 DEF BtsStep, OtherCards, Freeing
<1>22. ASSUME NEW c \in Cards, ObserveStep(c) PROVE Goal
  BY <1>22 DEF ObserveStep, OtherCards, Freeing
<1>23. CASE HeardStep
  BY <1>23 DEF HeardStep, OtherCards, Freeing
<1>24. CASE EpilogueStep
  BY <1>24 DEF EpilogueStep, OtherCards, Freeing
<1>25. CASE OpenStep
  BY <1>25 DEF OpenStep, OtherCards, Freeing
<1>26. CASE OpenEventsStep
  BY <1>26 DEF OpenEventsStep, OtherCards, Freeing
<1>27. CASE OpenRecordsStep
  BY <1>27 DEF OpenRecordsStep, OtherCards, Freeing
<1>28. CASE RecordStep
  BY <1>28 DEF RecordStep, OtherCards, Freeing
<1>29. CASE BeginStep
  BY <1>29 DEF BeginStep, OtherCards, Freeing
<1> QED  BY <1>1, <1>2, <1>3, <1>4, <1>5, <1>6, <1>7, <1>8, <1>9, <1>10, <1>11, <1>12, <1>13,
            <1>14, <1>15, <1>16, <1>17, <1>18, <1>19, <1>20, <1>21, <1>22, <1>23, <1>24, <1>25,
            <1>26, <1>27, <1>28, <1>29 DEF Does

(* Who calls such a call was let go of.                                    *)
LEMMA NewLate ==
  ASSUME Typed, Shape, Own, Flags, Kinds', Does
  PROVE  \A x \in Within(stack') : Late(x) => x \in Within(stack) \/ card'[x[2]].disposed
<1> DEFINE Goal == \A x \in Within(stack') : Late(x) => x \in Within(stack) \/ card'[x[2]].disposed
<1>1. ASSUME NEW r \in Realms, NEW s \in Srcs, SourceStep(r, s) PROVE Goal
  <2>1. \A x \in Within(Pop) : x \in Within(stack)
    BY <1>1, AtFacts DEF SourceStep
  <2> QED  BY <1>1, <2>1 DEF SourceStep
<1>2. ASSUME NEW r \in Realms, NEW s \in Srcs, SetSrcStep(r, s) PROVE Goal
  <2>1. Within(stack') = {<<"source", r, s>>}
              \cup (IF frame[r].src = NoSrc THEN {} ELSE {<<"close", r, "reset">>}) \cup Within(stack)
    BY <1>2, SetSrcStack
  <2>2. ~Late(<<"source", r, s>>) /\ ~Late(<<"close", r, "reset">>)
    BY DEF Late
  <2> QED  BY <2>1, <2>2
<1>3. ASSUME NEW r \in Realms, NEW g \in Nat, StartStep(r, g) PROVE Goal
  <2>1. \A x \in Within(Pop) : x \in Within(stack)
    BY <1>3, AtFacts DEF StartStep
  <2> QED  BY <1>3, <2>1 DEF StartStep
<1>4. ASSUME NEW r \in Realms, NEW g \in Nat, RunStartStep(r, g) PROVE Goal
  <2>1. CASE Pushed(<<"start", r, g>>, <<>>)
    <3>1. ~Late(<<"start", r, g>>)
      BY DEF Late
    <3>2. \A x \in Within(stack') : x = <<"start", r, g>>
      BY <2>1, NoCall DEF Pushed
    <3> QED  BY <3>1, <3>2
  <2>2. CASE stack' = <<>>
    BY <2>2, NoCall
  <2>3. CASE UNCHANGED stack
    BY <2>3
  <2> QED  BY <1>4, <2>1, <2>2, <2>3 DEF RunStartStep
<1>5. ASSUME NEW r \in Realms, NEW g \in Nat, FetchStep(r, g) PROVE Goal
  <2>1. CASE Pushed(<<"start", r, g>>, <<>>)
    <3>1. ~Late(<<"start", r, g>>)
      BY DEF Late
    <3>2. \A x \in Within(stack') : x = <<"start", r, g>>
      BY <2>1, NoCall DEF Pushed
    <3> QED  BY <3>1, <3>2
  <2>2. CASE stack' = <<>>
    BY <2>2, NoCall
  <2>3. CASE UNCHANGED stack
    BY <2>3
  <2> QED  BY <1>5, <2>1, <2>2, <2>3 DEF FetchStep
<1>6. ASSUME NEW r \in Realms, NEW d \in Conts, d = "frames" => r \in Cards, CloseStep(r, d) PROVE Goal
  <2>1. \A x \in Within(Pop) : x \in Within(stack)
    BY <1>6, AtFacts DEF CloseStep
  <2>2. CASE Pushed(<<d, r, 0>>, Pop)
    <3>1. ASSUME NEW x \in Within(stack'), Late(x), x \notin Within(stack) PROVE card'[x[2]].disposed
      <4>1. x = <<d, r, 0>>
        BY <2>1, <2>2, <3>1 DEF Pushed
      <4>2. x[1] = d /\ x[2] = r
        BY <4>1
      <4>3. d = "frames"
        BY <3>1, <4>2 DEF Late, Conts
      <4>4. On("close", r, "frames") /\ r \in Cards
        BY <1>6, <4>3, AtFacts DEF CloseStep, On
      <4> QED  BY <4>2, <4>4, DisposedStays DEF Flags
    <3> QED  BY <3>1
  <2>3. ASSUME NEW c \in Cards, Pushed(<<"dispose", c, 0>>, Pop) PROVE \A x \in Within(stack') : Late(x) => x \in Within(stack) \/ card'[x[2]].disposed
    <3>1. \A x \in Within(stack') : x \in Within(Pop) \/ x = <<"dispose", c, 0>>
      BY <2>3 DEF Pushed
    <3>2. ~Late(<<"dispose", c, 0>>)
      BY DEF Late
    <3> QED  BY <2>1, <3>1, <3>2
  <2> QED  BY <1>6, <2>2, <2>3 DEF CloseStep
<1>7. ASSUME NEW r \in Realms, ResetStep(r) PROVE Goal
  <2>1. \A x \in Within(Pop) : x \in Within(stack)
    BY <1>7, AtFacts DEF ResetStep
  <2>2. CASE frame[r].owed = 1
    <3>1. Within(stack') = Within(frame[r].after) \cup Within(Pop)
      BY <1>7, <2>2 DEF ResetStep
    <3>2. ASSUME NEW x \in Within(frame[r].after), Late(x) PROVE card'[x[2]].disposed
      <4>1. x \in AfterItems /\ x[1] \in {"start", "frames"} /\ x \in Items /\ x[2] = r
        BY AfterWithin DEF Own
      <4>2. x[1] = "frames"
        BY <3>2, <4>1 DEF Late
      <4>3. x = <<"frames", r, 0>> /\ r \in Cards
        BY <4>1, <4>2, ItemFacts DEF CardCalls
      <4> QED  BY ZenonT(60), <4>1, <4>3, DisposedStays DEF Flags
    <3> QED  BY <2>1, <3>1, <3>2
  <2>3. CASE stack' = Pop
    BY <2>1, <2>3
  <2> QED  BY <1>7, <2>2, <2>3 DEF ResetStep
<1>8. ASSUME NEW r \in Realms, IdleStep(r) PROVE Goal
  <2>1. \A x \in Within(Pop) : x \in Within(stack)
    BY <1>8, AtFacts DEF IdleStep
  <2> QED  BY <1>8, <2>1 DEF IdleStep
<1>9. ASSUME NEW r \in Realms, HearStep(r) PROVE Goal
  <2>1. CASE Pushed(<<"close", r, "reset">>, <<>>)
    <3>1. ~Late(<<"close", r, "reset">>)
      BY DEF Late
    <3> QED  BY <2>1, <3>1, NoCall DEF Pushed
  <2>2. CASE Pushed(<<"source", r, frame[r].src>>, <<>>)
    <3>1. ~Late(<<"source", r, frame[r].src>>)
      BY DEF Late
    <3> QED  BY <2>2, <3>1, NoCall DEF Pushed
  <2>3. CASE UNCHANGED stack
    BY <2>3
  <2> QED  BY <1>9, <2>1, <2>2, <2>3 DEF HearStep
<1>10. ASSUME NEW r \in Realms, MoveStep(r) PROVE Goal
  <2>1. stack' = stack
    BY <1>10 DEF MoveStep
  <2> QED  BY <2>1
<1>11. ASSUME NEW c \in Cards, BootStep(c) PROVE Goal
  <2>1. CASE Pushed(<<"loading", c, 0>>, <<>>)
    <3>1. ~Late(<<"loading", c, 0>>)
      BY DEF Late
    <3>2. \A x \in Within(stack') : x = <<"loading", c, 0>>
      BY <2>1, NoCall DEF Pushed
    <3> QED  BY <3>1, <3>2
  <2>2. CASE stack' = <<>>
    BY <2>2, NoCall
  <2>3. CASE UNCHANGED stack
    BY <2>3
  <2> QED  BY <1>11, <2>1, <2>2, <2>3 DEF BootStep
<1>12. ASSUME NEW c \in Cards, LoadedStep(c) PROVE Goal
  <2>1. \A x \in Within(Pop) : x \in Within(stack)
    BY <1>12, AtFacts DEF LoadedStep
  <2> QED  BY <1>12, <2>1 DEF LoadedStep
<1>13. ASSUME NEW c \in Cards, DisposeStep(c) PROVE Goal
  <2>1. PICK j \in {"records", "arrive"} :
           Within(stack') = (IF frame[c].loaded THEN {<<"close", c, "frames">>} ELSE {})
                \cup {<<"owing", c, 0>>, <<"frames", c, 0>>, <<j, c, 0>>} \cup Within(Pop)
    BY <1>13, DisposeStack
  <2>2. \A x \in Within(Pop) : x \in Within(stack)
    BY <1>13, AtFacts DEF DisposeStep
  <2>3. \A x \in Within(stack') : x \in Within(stack) \/ x[2] = c
    BY <2>1, <2>2
  <2>4. card'[c].disposed
    BY <1>13 DEF DisposeStep
  <2> QED  BY <2>3, <2>4
<1>14. ASSUME NEW c \in Cards, OwingStep(c) PROVE Goal
  <2>1. \A x \in Within(Pop) : x \in Within(stack)
    BY <1>14, AtFacts DEF OwingStep
  <2> QED  BY <1>14, <2>1 DEF OwingStep
<1>15. ASSUME NEW c \in Cards, FramesStep(c) PROVE Goal
  <2>1. \A x \in Within(Pop) : x \in Within(stack)
    BY <1>15, AtFacts DEF FramesStep
  <2>2. card'[c].disposed
    <3>1. <<"frames", c, 0>> \in Within(stack)
      BY <1>15, AtFacts DEF FramesStep
    <3> QED  BY <3>1, DisposedStays DEF Flags, On
  <2>3. \A x \in Within(stack') : x \in Within(Pop) \/ x[2] = c
    BY <1>15 DEF FramesStep, Pushed
  <2> QED  BY <2>1, <2>2, <2>3
<1>16. ASSUME NEW c \in Cards, RecordsStep(c) PROVE Goal
  <2>1. \A x \in Within(Pop) : x \in Within(stack)
    BY <1>16, AtFacts DEF RecordsStep
  <2> QED  BY <1>16, <2>1 DEF RecordsStep
<1>17. ASSUME NEW c \in Cards, ArriveStep(c) PROVE Goal
  <2>1. \A x \in Within(Pop) : x \in Within(stack)
    BY <1>17, AtFacts DEF ArriveStep
  <2>2. card'[c].disposed
    <3>1. <<"arrive", c, 0>> \in Within(stack)
      BY <1>17, AtFacts DEF ArriveStep
    <3> QED  BY <3>1, DisposedStays DEF Flags, On
  <2>3. CASE Pushed(<<card[c].done, card[c].host, 0>>, Pop)
    <3>1. ASSUME NEW x \in Within(stack'), Late(x), x \notin Within(stack) PROVE card'[x[2]].disposed
      <4>1. x = <<card[c].done, card[c].host, 0>>
        BY <2>1, <2>3, <3>1 DEF Pushed
      <4>2. x[1] = card[c].done /\ x[2] = card[c].host
        BY <4>1
      <4>3. card[c].done = "frames"
        BY <3>1, <4>2 DEF Late, Typed, Kinds, CardRec, Dones, Conts
      <4>4. card[c].host \in Cards
        BY <4>3 DEF Typed, Made
      <4> QED  BY <4>2, <4>3, <4>4, DisposedStays DEF Flags
    <3> QED  BY <3>1
  <2>4. CASE stack' = Pop
    BY <2>1, <2>4
  <2> QED  BY <1>17, <2>3, <2>4 DEF ArriveStep
<1>18. ASSUME NEW c \in Cards, FlushStep(c) PROVE Goal
  <2>1. CASE card[c].wait = "due" /\ Pushed(<<"arrive", c, 0>>, <<>>)
    <3>1. card'[c].disposed
      BY <2>1, DisposedStays DEF Flags
    <3>2. \A x \in Within(stack') : x[2] = c
      BY <2>1, NoCall DEF Pushed
    <3> QED  BY <3>1, <3>2
  <2>2. CASE stack' = <<>>
    BY <2>2, NoCall
  <2> QED  BY <1>18, <2>1, <2>2 DEF FlushStep
<1>19. ASSUME NEW c \in Cards, CloseRealmStep(c) PROVE Goal
  <2>1. stack' = stack
    BY <1>19 DEF CloseRealmStep
  <2> QED  BY <2>1
<1>20. ASSUME NEW c \in Cards, AckStep(c) PROVE Goal
  <2>1. stack' = stack
    BY <1>20 DEF AckStep
  <2> QED  BY <2>1
<1>21. ASSUME NEW c \in Cards, BtsStep(c) PROVE Goal
  <2>1. stack' = stack
    BY <1>21 DEF BtsStep
  <2> QED  BY <2>1
<1>22. ASSUME NEW c \in Cards, ObserveStep(c) PROVE Goal
  <2>1. stack' = stack
    BY <1>22 DEF ObserveStep
  <2> QED  BY <2>1
<1>23. CASE HeardStep
  <2>1. stack' = stack
    BY <1>23 DEF HeardStep
  <2> QED  BY <2>1
<1>24. CASE EpilogueStep
  <2>1. stack' = stack
    BY <1>24 DEF EpilogueStep
  <2> QED  BY <2>1
<1>25. CASE OpenStep
  <2>1. stack' = stack
    BY <1>25 DEF OpenStep
  <2> QED  BY <2>1
<1>26. CASE OpenEventsStep
  <2>1. stack' = stack
    BY <1>26 DEF OpenEventsStep
  <2> QED  BY <2>1
<1>27. CASE OpenRecordsStep
  <2>1. stack' = stack
    BY <1>27 DEF OpenRecordsStep
  <2> QED  BY <2>1
<1>28. CASE RecordStep
  <2>1. stack' = stack
    BY <1>28 DEF RecordStep
  <2> QED  BY <2>1
<1>29. CASE BeginStep
  <2>1. Within(stack') = (IF frame[Page].loaded THEN {<<"close", Page, "nothing">>} ELSE {})
              \cup {<<"askPage", Page, 0>>}
    BY <1>29, BeginStack
  <2>2. ~Late(<<"close", Page, "nothing">>) /\ ~Late(<<"askPage", Page, 0>>)
    BY DEF Late
  <2> QED  BY <2>1, <2>2
<1> QED  BY <1>1, <1>2, <1>3, <1>4, <1>5, <1>6, <1>7, <1>8, <1>9, <1>10, <1>11, <1>12, <1>13,
            <1>14, <1>15, <1>16, <1>17, <1>18, <1>19, <1>20, <1>21, <1>22, <1>23, <1>24, <1>25,
            <1>26, <1>27, <1>28, <1>29 DEF Does

(* Nothing is let go of.                                                   *)
LetsGo(x) == x[1] = "dispose"
Quick == /\ stack = <<>> \/ ~LetsGo(Top)
         /\ stack' = <<>> \/ ~LetsGo(Top')
         /\ \A k \in Cards : UNCHANGED <<card[k].done, card[k].disposed>>

(* A call that returns leaves no dispose on top.                           *)
LEMMA QuickPop ==
  ASSUME Typed, Shape, Kinds', stack # <<>>, stack' = Pop
  PROVE  stack' = <<>> \/ ~LetsGo(Top')
<1>1. CASE stack' # <<>>
  <2>1. Top' \in Within(Pop)
    BY <1>1, TopThen
  <2> QED  BY <2>1 DEF Shape, Deep, LetsGo
<1> QED  BY <1>1

Disposes(r, d, c) ==
  /\ At("close", r, d) /\ frame[r].dispose = c /\ Pushed(<<"dispose", c, 0>>, Pop)
  /\ OtherCards(c) /\ card'[c].done = d
  /\ UNCHANGED <<card[c].host, card[c].st, card[c].disposed>>

(* A card is let go of by close and dispose, and by no other step.         *)
LEMMA LettingGo ==
  ASSUME Typed, Shape, Resting, Kinds', Does
  PROVE  Quick \/ (\E r \in Realms, d \in Conts, c \in Cards : Disposes(r, d, c)) \/ \E c \in Cards : DisposeStep(c)
<1> DEFINE Goal == Quick \/ (\E r \in Realms, d \in Conts, c \in Cards : Disposes(r, d, c)) \/ \E c \in Cards : DisposeStep(c)
<1>1. ASSUME NEW r \in Realms, NEW s \in Srcs, SourceStep(r, s) PROVE Goal
  <2>1. \A k \in Cards : UNCHANGED <<card[k].done, card[k].disposed>>
    BY <1>1 DEF SourceStep, OtherCards, Freeing
  <2>2. stack # <<>> /\ ~LetsGo(Top)
    BY <1>1 DEF SourceStep, At, LetsGo
  <2>3. stack' = <<>> \/ ~LetsGo(Top')
    BY <1>1, <2>2, QuickPop DEF SourceStep
  <2> QED  BY <2>1, <2>2, <2>3 DEF Quick
<1>2. ASSUME NEW r \in Realms, NEW s \in Srcs, SetSrcStep(r, s) PROVE Goal
  <2>1. \A k \in Cards : UNCHANGED <<card[k].done, card[k].disposed>>
    BY <1>2 DEF SetSrcStep, OtherCards, Freeing
  <2>2. stack = <<>> \/ ~LetsGo(Top)
    BY <1>2 DEF SetSrcStep, AppRuns, LetsGo
  <2>3. Top' = (IF frame[r].src = NoSrc THEN <<"source", r, s>> ELSE <<"close", r, "reset">>)
    BY <1>2, SetSrcStack
  <2>4. ~LetsGo(Top')
    BY <2>3 DEF LetsGo
  <2> QED  BY <2>1, <2>2, <2>4 DEF Quick
<1>3. ASSUME NEW r \in Realms, NEW g \in Nat, StartStep(r, g) PROVE Goal
  <2>1. \A k \in Cards : UNCHANGED <<card[k].done, card[k].disposed>>
    BY SMTT(30), <1>3 DEF StartStep, OtherCards, Freeing
  <2>2. stack # <<>> /\ ~LetsGo(Top)
    BY SMTT(30), <1>3 DEF StartStep, At, LetsGo
  <2>3. stack' = <<>> \/ ~LetsGo(Top')
    BY <1>3, <2>2, QuickPop DEF StartStep
  <2> QED  BY <2>1, <2>2, <2>3 DEF Quick
<1>4. ASSUME NEW r \in Realms, NEW g \in Nat, RunStartStep(r, g) PROVE Goal
  <2>1. \A k \in Cards : UNCHANGED <<card[k].done, card[k].disposed>>
    BY <1>4 DEF RunStartStep, OtherCards, Freeing
  <2>2. stack = <<>>
    BY <1>4 DEF RunStartStep, Resting, AppRuns, LetsGo
  <2>3. CASE Pushed(<<"start", r, g>>, <<>>)
    BY <2>1, <2>2, <2>3 DEF Pushed, LetsGo, Quick
  <2> QED  BY <1>4, <2>1, <2>2, <2>3 DEF RunStartStep, Quick
<1>5. ASSUME NEW r \in Realms, NEW g \in Nat, FetchStep(r, g) PROVE Goal
  <2>1. \A k \in Cards : UNCHANGED <<card[k].done, card[k].disposed>>
    BY <1>5 DEF FetchStep, OtherCards, Freeing
  <2>2. stack = <<>>
    BY <1>5 DEF FetchStep, Resting, AppRuns, LetsGo
  <2>3. CASE Pushed(<<"start", r, g>>, <<>>)
    BY <2>1, <2>2, <2>3 DEF Pushed, LetsGo, Quick
  <2> QED  BY <1>5, <2>1, <2>2, <2>3 DEF FetchStep, Quick
<1>6. ASSUME NEW r \in Realms, NEW d \in Conts, d = "frames" => r \in Cards, CloseStep(r, d) PROVE Goal
  <2>1. stack # <<>> /\ ~LetsGo(Top)
    BY <1>6 DEF CloseStep, At, LetsGo
  <2>2. CASE Pushed(<<d, r, 0>>, Pop) /\ UNCHANGED card
    <3>1. stack' # <<>> /\ ~LetsGo(Top')
      BY <2>2 DEF Pushed, LetsGo, Conts
    <3> QED  BY <2>1, <2>2, <3>1 DEF Quick
  <2>3. CASE ~(Pushed(<<d, r, 0>>, Pop) /\ UNCHANGED card)
    BY <1>6, <2>3 DEF CloseStep, Disposes
  <2> QED  BY <2>2, <2>3
<1>7. ASSUME NEW r \in Realms, ResetStep(r) PROVE Goal
  <2>1. \A k \in Cards : UNCHANGED <<card[k].done, card[k].disposed>>
    BY <1>7 DEF ResetStep, OtherCards, Freeing
  <2>2. stack # <<>> /\ ~LetsGo(Top)
    BY <1>7 DEF ResetStep, At, LetsGo
  <2>3. CASE stack' = Pop
    BY <2>1, <2>2, <2>3, QuickPop DEF Quick
  <2>4. CASE frame[r].owed = 1 /\ stack' # <<>>
    <3>1. Within(stack') = Within(frame[r].after) \cup Within(Pop)
      BY <1>7, <2>4 DEF ResetStep
    <3>2. \A x \in Within(frame[r].after) : ~LetsGo(x)
      BY AfterWithin DEF LetsGo
    <3>3. \A x \in Within(Pop) : ~LetsGo(x)
      BY <2>2 DEF Shape, Deep, LetsGo
    <3>4. Top' \in Within(stack')
      BY <2>4, TopThen
    <3> QED  BY <2>1, <2>2, <3>1, <3>2, <3>3, <3>4 DEF Quick
  <2> QED  BY <1>7, <2>1, <2>2, <2>3, <2>4 DEF ResetStep, Quick
<1>8. ASSUME NEW r \in Realms, IdleStep(r) PROVE Goal
  <2>1. \A k \in Cards : UNCHANGED <<card[k].done, card[k].disposed>>
    BY <1>8 DEF IdleStep, OtherCards, Freeing
  <2>2. stack # <<>> /\ ~LetsGo(Top)
    BY <1>8 DEF IdleStep, At, LetsGo
  <2>3. stack' = <<>> \/ ~LetsGo(Top')
    BY <1>8, <2>2, QuickPop DEF IdleStep
  <2> QED  BY <2>1, <2>2, <2>3 DEF Quick
<1>9. ASSUME NEW r \in Realms, HearStep(r) PROVE Goal
  <2>1. \A k \in Cards : UNCHANGED <<card[k].done, card[k].disposed>>
    BY <1>9 DEF HearStep, OtherCards, Freeing
  <2>2. stack = <<>>
    BY <1>9 DEF HearStep, Resting, AppRuns, LetsGo
  <2>3. CASE Pushed(<<"close", r, "reset">>, <<>>)
    BY <2>1, <2>2, <2>3 DEF Pushed, LetsGo, Quick
  <2>4. CASE Pushed(<<"source", r, frame[r].src>>, <<>>)
    BY <2>1, <2>2, <2>4 DEF Pushed, LetsGo, Quick
  <2> QED  BY <1>9, <2>1, <2>2, <2>3, <2>4 DEF HearStep, Quick
<1>10. ASSUME NEW r \in Realms, MoveStep(r) PROVE Goal
  <2>1. \A k \in Cards : UNCHANGED <<card[k].done, card[k].disposed>>
    BY <1>10 DEF MoveStep, OtherCards, Freeing
  <2>2. stack' = stack /\ (stack = <<>> \/ ~LetsGo(Top))
    BY <1>10 DEF MoveStep, AppRuns, LetsGo
  <2> QED  BY <2>1, <2>2 DEF Quick, Top
<1>11. ASSUME NEW c \in Cards, BootStep(c) PROVE Goal
  <2>1. \A k \in Cards : UNCHANGED <<card[k].done, card[k].disposed>>
    BY <1>11 DEF BootStep, OtherCards, Freeing
  <2>2. stack = <<>>
    BY <1>11 DEF BootStep, Resting, AppRuns, LetsGo
  <2>3. CASE Pushed(<<"loading", c, 0>>, <<>>)
    BY <2>1, <2>2, <2>3 DEF Pushed, LetsGo, Quick
  <2> QED  BY <1>11, <2>1, <2>2, <2>3 DEF BootStep, Quick
<1>12. ASSUME NEW c \in Cards, LoadedStep(c) PROVE Goal
  <2>1. \A k \in Cards : UNCHANGED <<card[k].done, card[k].disposed>>
    BY <1>12 DEF LoadedStep, OtherCards, Freeing
  <2>2. stack # <<>> /\ ~LetsGo(Top)
    BY <1>12 DEF LoadedStep, At, LetsGo
  <2>3. stack' = <<>> \/ ~LetsGo(Top')
    BY <1>12, <2>2, QuickPop DEF LoadedStep
  <2> QED  BY <2>1, <2>2, <2>3 DEF Quick
<1>13. ASSUME NEW c \in Cards, DisposeStep(c) PROVE Goal
  BY <1>13
<1>14. ASSUME NEW c \in Cards, OwingStep(c) PROVE Goal
  <2>1. \A k \in Cards : UNCHANGED <<card[k].done, card[k].disposed>>
    BY <1>14 DEF OwingStep, OtherCards, Freeing
  <2>2. stack # <<>> /\ ~LetsGo(Top)
    BY <1>14 DEF OwingStep, At, LetsGo
  <2>3. stack' = <<>> \/ ~LetsGo(Top')
    BY <1>14, <2>2, QuickPop DEF OwingStep
  <2> QED  BY <2>1, <2>2, <2>3 DEF Quick
<1>15. ASSUME NEW c \in Cards, FramesStep(c) PROVE Goal
  <2>1. \A k \in Cards : UNCHANGED <<card[k].done, card[k].disposed>>
    BY <1>15 DEF FramesStep, OtherCards, Freeing
  <2>2. stack # <<>> /\ ~LetsGo(Top)
    BY <1>15 DEF FramesStep, At, LetsGo
  <2>3. CASE Pushed(<<"arrive", c, 0>>, Pop)
    BY <2>1, <2>2, <2>3 DEF Pushed, LetsGo, Quick
  <2>4. CASE stack' = Pop
    BY <2>1, <2>2, <2>4, QuickPop DEF Quick
  <2> QED  BY <1>15, <2>1, <2>2, <2>3, <2>4 DEF FramesStep, Quick
<1>16. ASSUME NEW c \in Cards, RecordsStep(c) PROVE Goal
  <2>1. \A k \in Cards : UNCHANGED <<card[k].done, card[k].disposed>>
    BY <1>16 DEF RecordsStep, OtherCards, Freeing
  <2>2. stack # <<>> /\ ~LetsGo(Top)
    BY <1>16 DEF RecordsStep, At, LetsGo
  <2>3. stack' = <<>> \/ ~LetsGo(Top')
    BY <1>16, <2>2, QuickPop DEF RecordsStep
  <2> QED  BY <2>1, <2>2, <2>3 DEF Quick
<1>17. ASSUME NEW c \in Cards, ArriveStep(c) PROVE Goal
  <2>1. \A k \in Cards : UNCHANGED <<card[k].done, card[k].disposed>>
    BY <1>17 DEF ArriveStep, OtherCards, Freeing
  <2>2. stack # <<>> /\ ~LetsGo(Top)
    BY <1>17 DEF ArriveStep, At, LetsGo
  <2>3. CASE Pushed(<<card[c].done, card[c].host, 0>>, Pop)
    <3>1. card[c].done # "dispose"
      BY DEF Typed, Kinds, CardRec, Dones, Conts
    <3> QED  BY <2>1, <2>2, <2>3, <3>1 DEF Pushed, LetsGo, Quick
  <2>4. CASE stack' = Pop
    BY <2>1, <2>2, <2>4, QuickPop DEF Quick
  <2> QED  BY <1>17, <2>1, <2>2, <2>3, <2>4 DEF ArriveStep, Quick
<1>18. ASSUME NEW c \in Cards, FlushStep(c) PROVE Goal
  <2>1. \A k \in Cards : UNCHANGED <<card[k].done, card[k].disposed>>
    BY <1>18 DEF FlushStep, OtherCards, Freeing
  <2>2. stack = <<>>
    BY <1>18 DEF FlushStep, Resting, AppRuns, LetsGo
  <2>3. CASE Pushed(<<"arrive", c, 0>>, <<>>)
    BY <2>1, <2>2, <2>3 DEF Pushed, LetsGo, Quick
  <2> QED  BY <1>18, <2>1, <2>2, <2>3 DEF FlushStep, Quick
<1>19. ASSUME NEW c \in Cards, CloseRealmStep(c) PROVE Goal
  <2>1. \A k \in Cards : UNCHANGED <<card[k].done, card[k].disposed>>
    BY <1>19 DEF CloseRealmStep, OtherCards, Freeing
  <2>2. stack' = <<>> /\ stack = <<>>
    BY <1>19 DEF CloseRealmStep, Resting
  <2> QED  BY <2>1, <2>2 DEF Quick
<1>20. ASSUME NEW c \in Cards, AckStep(c) PROVE Goal
  <2>1. \A k \in Cards : UNCHANGED <<card[k].done, card[k].disposed>>
    BY <1>20 DEF AckStep, OtherCards, Freeing
  <2>2. stack' = <<>> /\ stack = <<>>
    BY <1>20 DEF AckStep, Resting
  <2> QED  BY <2>1, <2>2 DEF Quick
<1>21. ASSUME NEW c \in Cards, BtsStep(c) PROVE Goal
  <2>1. \A k \in Cards : UNCHANGED <<card[k].done, card[k].disposed>>
    BY <1>21 DEF BtsStep, OtherCards, Freeing
  <2>2. stack' = <<>> /\ stack = <<>>
    BY <1>21 DEF BtsStep, Resting
  <2> QED  BY <2>1, <2>2 DEF Quick
<1>22. ASSUME NEW c \in Cards, ObserveStep(c) PROVE Goal
  <2>1. \A k \in Cards : UNCHANGED <<card[k].done, card[k].disposed>>
    BY <1>22 DEF ObserveStep, OtherCards, Freeing
  <2>2. stack' = <<>> /\ stack = <<>>
    BY <1>22 DEF ObserveStep, Resting
  <2> QED  BY <2>1, <2>2 DEF Quick
<1>23. CASE HeardStep
  <2>1. \A k \in Cards : UNCHANGED <<card[k].done, card[k].disposed>>
    BY <1>23 DEF HeardStep, OtherCards, Freeing
  <2>2. stack' = <<>> /\ stack = <<>>
    BY <1>23 DEF HeardStep, Resting
  <2> QED  BY <2>1, <2>2 DEF Quick
<1>24. CASE EpilogueStep
  <2>1. \A k \in Cards : UNCHANGED <<card[k].done, card[k].disposed>>
    BY <1>24 DEF EpilogueStep, OtherCards, Freeing
  <2>2. stack' = <<>> /\ stack = <<>>
    BY <1>24 DEF EpilogueStep, Resting
  <2> QED  BY <2>1, <2>2 DEF Quick
<1>25. CASE OpenStep
  <2>1. \A k \in Cards : UNCHANGED <<card[k].done, card[k].disposed>>
    BY <1>25 DEF OpenStep, OtherCards, Freeing
  <2>2. stack' = <<>> /\ stack = <<>>
    BY <1>25 DEF OpenStep, Resting
  <2> QED  BY <2>1, <2>2 DEF Quick
<1>26. CASE OpenEventsStep
  <2>1. \A k \in Cards : UNCHANGED <<card[k].done, card[k].disposed>>
    BY <1>26 DEF OpenEventsStep, OtherCards, Freeing
  <2>2. stack' = <<>> /\ stack = <<>>
    BY <1>26 DEF OpenEventsStep, Resting
  <2> QED  BY <2>1, <2>2 DEF Quick
<1>27. CASE OpenRecordsStep
  <2>1. \A k \in Cards : UNCHANGED <<card[k].done, card[k].disposed>>
    BY <1>27 DEF OpenRecordsStep, OtherCards, Freeing
  <2>2. stack' = <<>> /\ stack = <<>>
    BY <1>27 DEF OpenRecordsStep, Resting
  <2> QED  BY <2>1, <2>2 DEF Quick
<1>28. CASE RecordStep
  <2>1. \A k \in Cards : UNCHANGED <<card[k].done, card[k].disposed>>
    BY <1>28 DEF RecordStep, OtherCards, Freeing
  <2>2. stack' = <<>> /\ stack = <<>>
    BY <1>28 DEF RecordStep, Resting
  <2> QED  BY <2>1, <2>2 DEF Quick
<1>29. CASE BeginStep
  <2>1. \A k \in Cards : UNCHANGED <<card[k].done, card[k].disposed>>
    BY <1>29 DEF BeginStep, OtherCards, Freeing
  <2>2. stack = <<>>
    BY <1>29 DEF BeginStep, Resting
  <2>3. Top' = (IF frame[Page].loaded THEN <<"close", Page, "nothing">> ELSE <<"askPage", Page, 0>>)
    BY <1>29, BeginStack
  <2>4. ~LetsGo(Top')
    BY <2>3 DEF LetsGo
  <2> QED  BY <2>1, <2>2, <2>4 DEF Quick
<1> QED  BY <1>1, <1>2, <1>3, <1>4, <1>5, <1>6, <1>7, <1>8, <1>9, <1>10, <1>11, <1>12, <1>13,
            <1>14, <1>15, <1>16, <1>17, <1>18, <1>19, <1>20, <1>21, <1>22, <1>23, <1>24, <1>25,
            <1>26, <1>27, <1>28, <1>29 DEF Does

(* Between a card's close and its dispose nothing else is called.          *)
LEMMA TopKept ==
  ASSUME Typed, Shape, Resting, Links, Flags, Kinds', Does
  PROVE  \A c \in Cards : card'[c].done # "none" /\ ~card'[c].disposed <=> At("dispose", c, 0)'
<1>0. \A k \in Cards : <<"dispose", k, 0>>[1] = "dispose" /\ <<"dispose", k, 0>>[2] = k
  OBVIOUS
<1>1. CASE Quick
  <2>1. \A c \in Cards : ~At("dispose", c, 0) /\ ~At("dispose", c, 0)'
    BY <1>0, <1>1 DEF Quick, At, LetsGo
  <2>2. \A c \in Cards : card'[c].done = card[c].done /\ card'[c].disposed = card[c].disposed
    BY <1>1 DEF Quick
  <2> QED  BY <2>1, <2>2 DEF Flags
<1>2. ASSUME NEW r \in Realms, NEW d \in Conts, NEW c \in Cards, Disposes(r, d, c)
      PROVE  \A k \in Cards : card'[k].done # "none" /\ ~card'[k].disposed <=> At("dispose", k, 0)'
  <2>1. Top[1] = "close"
    BY <1>2 DEF Disposes, At
  <2>2. \A k \in Cards : ~At("dispose", k, 0)
    BY <1>0, <2>1 DEF At
  <2>3. stack' # <<>> /\ Top' = <<"dispose", c, 0>>
    BY <1>2 DEF Disposes, Pushed
  <2>4. ~card'[c].disposed /\ card'[c].done # "none"
    <3>1. ~card[c].disposed
      BY <1>2, AnItem DEF Disposes, Links
    <3> QED  BY <1>2, <3>1 DEF Disposes, Conts
  <2>5. ASSUME NEW k \in Cards
        PROVE  card'[k].done # "none" /\ ~card'[k].disposed <=> At("dispose", k, 0)'
    <3>1. CASE k = c
      BY <2>3, <2>4, <3>1 DEF At
    <3>2. CASE k # c
      <4>1. card'[k] = card[k] /\ ~At("dispose", k, 0)'
        BY <1>0, <1>2, <2>3, <3>2 DEF Disposes, OtherCards, At
      <4> QED  BY <2>2, <4>1 DEF Flags
    <3> QED  BY <3>1, <3>2
  <2> QED  BY <2>5
<1>3. ASSUME NEW c \in Cards, DisposeStep(c)
      PROVE  \A k \in Cards : card'[k].done # "none" /\ ~card'[k].disposed <=> At("dispose", k, 0)'
  <2>1. Top = <<"dispose", c, 0>>
    BY <1>3 DEF DisposeStep, At
  <2>2. \A k \in Cards : k # c => ~At("dispose", k, 0)
    BY <1>0, <2>1 DEF At
  <2>3. \A k \in Cards : ~At("dispose", k, 0)'
    <3>1. stack' # <<>> /\ Top' = (IF frame[c].loaded THEN <<"close", c, "frames">> ELSE <<"owing", c, 0>>)
      BY <1>3, DisposeStack
    <3>2. Top'[1] # "dispose"
      BY <3>1
    <3> QED  BY <1>0, <3>2 DEF At
  <2>4. card'[c].disposed /\ \A k \in Cards : k # c => card'[k] = card[k]
    BY <1>3 DEF DisposeStep, OtherCards
  <2>5. ASSUME NEW k \in Cards
        PROVE  card'[k].done # "none" /\ ~card'[k].disposed <=> At("dispose", k, 0)'
    <3>1. CASE k = c
      BY <2>3, <2>4, <3>1
    <3>2. CASE k # c
      BY ZenonT(60), <2>2, <2>3, <2>4, <3>2 DEF Flags
    <3> QED  BY <3>1, <3>2
  <2> QED  BY <2>5
<1> QED  BY <1>1, <1>2, <1>3, LettingGo

(* The same, kind by kind.                                                 *)
LEMMA LateCall ==
  ASSUME Flags, NEW c \in Cards
  PROVE  /\ \A k \in {"owing", "frames", "arrive", "records"} :
              <<k, c, 0>> \in Within(stack) => card[c].disposed
         /\ <<"close", c, "frames">> \in Within(stack) => card[c].disposed
BY DEF Flags, On

(* A list put off is of a card let go of.                                  *)
LEMMA AfterDisposed ==
  ASSUME Typed, Shape, Flags, Kinds', Does
  PROVE  \A k \in Cards : <<"frames", k, 0>> \in Within(frame'[k].after) => card'[k].disposed
<1> DEFINE Goal == \A k \in Cards : <<"frames", k, 0>> \in Within(frame'[k].after) => card'[k].disposed
<1>0. \A k \in Cards : <<"frames", k, 0>> \in Within(frame[k].after) => card[k].disposed
  BY DEF Flags
<1>1. ASSUME NEW r \in Realms, NEW s \in Srcs, SourceStep(r, s) PROVE Goal
  <2>1. \A q \in Realms : frame'[q].after = frame[q].after
    BY <1>1 DEF SourceStep, Others, SameLoads
  <2> QED  BY <2>1, AnItem, <1>0, DisposedStays
<1>2. ASSUME NEW r \in Realms, NEW s \in Srcs, SetSrcStep(r, s) PROVE Goal
  <2>1. \A q \in Realms : frame'[q].after = frame[q].after
    BY SMTT(30), <1>2 DEF SetSrcStep, Others, SameLoads
  <2> QED  BY <2>1, AnItem, <1>0, DisposedStays
<1>3. ASSUME NEW r \in Realms, NEW g \in Nat, StartStep(r, g) PROVE Goal
  <2>1. CASE frame'[r].after = Append(frame[r].after, <<"start", r, g>>) /\ Others(r)
    <3>1. <<"start", r, g>> \in AfterItems
      BY DEF AfterItems
    <3>2. Within(frame'[r].after) = Within(frame[r].after) \cup {<<"start", r, g>>}
      BY <2>1, <3>1, AfterPut
    <3>3. \A k \in Cards : k \in Realms /\ (k # r => frame'[k].after = frame[k].after)
      BY <2>1, AnItem DEF Others
    <3>4. \A k \in Cards : <<"frames", k, 0>> \in Within(frame'[k].after)
                             => <<"frames", k, 0>> \in Within(frame[k].after)
      BY <3>2, <3>3
    <3> QED  BY <1>0, <3>4, DisposedStays
  <2>2. CASE \A q \in Realms : frame'[q].after = frame[q].after
    BY <1>0, <2>2, AnItem, DisposedStays
  <2> QED  BY ZenonT(60), <1>3, <2>1, <2>2 DEF StartStep, Others
<1>4. ASSUME NEW r \in Realms, NEW g \in Nat, RunStartStep(r, g) PROVE Goal
  <2>1. \A q \in Realms : frame'[q].after = frame[q].after
    BY <1>4 DEF RunStartStep, Others, SameLoads
  <2> QED  BY <2>1, AnItem, <1>0, DisposedStays
<1>5. ASSUME NEW r \in Realms, NEW g \in Nat, FetchStep(r, g) PROVE Goal
  <2>1. \A q \in Realms : frame'[q].after = frame[q].after
    BY <1>5 DEF FetchStep, Others, SameLoads
  <2> QED  BY <2>1, AnItem, <1>0, DisposedStays
<1>6. ASSUME NEW r \in Realms, NEW d \in Conts, d = "frames" => r \in Cards, CloseStep(r, d) PROVE Goal
  <2>1. \A q \in Realms : frame'[q].after = frame[q].after
    BY <1>6 DEF CloseStep, Others, SameLoads
  <2> QED  BY <2>1, AnItem, <1>0, DisposedStays
<1>7. ASSUME NEW r \in Realms, ResetStep(r) PROVE Goal
  <2>1. \A q \in Realms : frame'[q].after = frame[q].after \/ frame'[q].after = <<>>
    BY <1>7 DEF ResetStep
  <2> QED  BY <2>1, AnItem, NoCall, <1>0, DisposedStays
<1>8. ASSUME NEW r \in Realms, IdleStep(r) PROVE Goal
  <2>1. \A q \in Realms : frame'[q].after = frame[q].after
    BY <1>8 DEF IdleStep, Others, SameLoads
  <2> QED  BY <2>1, AnItem, <1>0, DisposedStays
<1>9. ASSUME NEW r \in Realms, HearStep(r) PROVE Goal
  <2>1. \A q \in Realms : frame'[q].after = frame[q].after
    BY <1>9 DEF HearStep, Others, SameLoads
  <2> QED  BY <2>1, AnItem, <1>0, DisposedStays
<1>10. ASSUME NEW r \in Realms, MoveStep(r) PROVE Goal
  <2>1. \A q \in Realms : frame'[q].after = frame[q].after
    BY <1>10 DEF MoveStep, Others, SameLoads
  <2> QED  BY <2>1, AnItem, <1>0, DisposedStays
<1>11. ASSUME NEW c \in Cards, BootStep(c) PROVE Goal
  <2>1. \A q \in Realms : frame'[q].after = frame[q].after
    BY <1>11 DEF BootStep, Others, SameLoads
  <2> QED  BY <2>1, AnItem, <1>0, DisposedStays
<1>12. ASSUME NEW c \in Cards, LoadedStep(c) PROVE Goal
  <2>1. \A q \in Realms : frame'[q].after = frame[q].after
    BY <1>12 DEF LoadedStep, Others, SameLoads
  <2> QED  BY <2>1, AnItem, <1>0, DisposedStays
<1>13. ASSUME NEW c \in Cards, DisposeStep(c) PROVE Goal
  <2>1. \A q \in Realms : frame'[q].after = frame[q].after
    BY <1>13 DEF DisposeStep, Others, SameLoads
  <2> QED  BY <2>1, AnItem, <1>0, DisposedStays
<1>14. ASSUME NEW c \in Cards, OwingStep(c) PROVE Goal
  <2>1. c \in Realms /\ <<"frames", c, 0>> \in AfterItems
    BY AnItem DEF AfterItems
  <2>2. card'[c].disposed
    <3>1. <<"owing", c, 0>> \in Within(stack)
      BY <1>14, AtFacts DEF OwingStep
    <3> QED  BY <3>1, DisposedStays DEF Flags, On
  <2>3. CASE frame[c].owed > 0
    <3>1. \A k \in Cards : k # c => k \in Realms /\ frame'[k].after = frame[k].after
      BY <1>14, AnItem DEF OwingStep, Others
    <3> QED  BY <1>0, <2>2, <3>1, DisposedStays
  <2>4. CASE ~(frame[c].owed > 0)
    BY <1>0, <1>14, <2>4, DisposedStays DEF OwingStep
  <2> QED  BY <2>3, <2>4
<1>15. ASSUME NEW c \in Cards, FramesStep(c) PROVE Goal
  <2>1. \A q \in Realms : frame'[q].after = frame[q].after
    BY <1>15 DEF FramesStep, Others, SameLoads
  <2> QED  BY <2>1, AnItem, <1>0, DisposedStays
<1>16. ASSUME NEW c \in Cards, RecordsStep(c) PROVE Goal
  <2>1. \A q \in Realms : frame'[q].after = frame[q].after
    BY <1>16 DEF RecordsStep, Others, SameLoads
  <2> QED  BY <2>1, AnItem, <1>0, DisposedStays
<1>17. ASSUME NEW c \in Cards, ArriveStep(c) PROVE Goal
  <2>1. \A q \in Realms : frame'[q].after = frame[q].after
    BY <1>17 DEF ArriveStep, Others, SameLoads
  <2> QED  BY <2>1, AnItem, <1>0, DisposedStays
<1>18. ASSUME NEW c \in Cards, FlushStep(c) PROVE Goal
  <2>1. \A q \in Realms : frame'[q].after = frame[q].after
    BY <1>18 DEF FlushStep, Others, SameLoads
  <2> QED  BY <2>1, AnItem, <1>0, DisposedStays
<1>19. ASSUME NEW c \in Cards, CloseRealmStep(c) PROVE Goal
  <2>1. \A q \in Realms : frame'[q].after = frame[q].after
    BY <1>19 DEF CloseRealmStep, Others, SameLoads
  <2> QED  BY <2>1, AnItem, <1>0, DisposedStays
<1>20. ASSUME NEW c \in Cards, AckStep(c) PROVE Goal
  <2>1. \A q \in Realms : frame'[q].after = frame[q].after
    BY <1>20 DEF AckStep, Others, SameLoads
  <2> QED  BY <2>1, AnItem, <1>0, DisposedStays
<1>21. ASSUME NEW c \in Cards, BtsStep(c) PROVE Goal
  <2>1. \A q \in Realms : frame'[q].after = frame[q].after
    BY <1>21 DEF BtsStep, Others, SameLoads
  <2> QED  BY <2>1, AnItem, <1>0, DisposedStays
<1>22. ASSUME NEW c \in Cards, ObserveStep(c) PROVE Goal
  <2>1. \A q \in Realms : frame'[q].after = frame[q].after
    BY <1>22 DEF ObserveStep, Others, SameLoads
  <2> QED  BY <2>1, AnItem, <1>0, DisposedStays
<1>23. CASE HeardStep
  <2>1. \A q \in Realms : frame'[q].after = frame[q].after
    BY <1>23 DEF HeardStep, Others, SameLoads
  <2> QED  BY <2>1, AnItem, <1>0, DisposedStays
<1>24. CASE EpilogueStep
  <2>1. \A q \in Realms : frame'[q].after = frame[q].after
    BY <1>24 DEF EpilogueStep, Others, SameLoads
  <2> QED  BY <2>1, AnItem, <1>0, DisposedStays
<1>25. CASE OpenStep
  <2>1. \A q \in Realms : frame'[q].after = frame[q].after
    BY <1>25 DEF OpenStep, Others, SameLoads
  <2> QED  BY <2>1, AnItem, <1>0, DisposedStays
<1>26. CASE OpenEventsStep
  <2>1. \A q \in Realms : frame'[q].after = frame[q].after
    BY <1>26 DEF OpenEventsStep, Others, SameLoads
  <2> QED  BY <2>1, AnItem, <1>0, DisposedStays
<1>27. CASE OpenRecordsStep
  <2>1. \A q \in Realms : frame'[q].after = frame[q].after
    BY <1>27 DEF OpenRecordsStep, Others, SameLoads
  <2> QED  BY <2>1, AnItem, <1>0, DisposedStays
<1>28. CASE RecordStep
  <2>1. \A q \in Realms : frame'[q].after = frame[q].after
    BY <1>28 DEF RecordStep, Others, SameLoads
  <2> QED  BY <2>1, AnItem, <1>0, DisposedStays
<1>29. CASE BeginStep
  <2>1. \A q \in Realms : frame'[q].after = frame[q].after
    BY <1>29 DEF BeginStep, Others, SameLoads
  <2> QED  BY <2>1, AnItem, <1>0, DisposedStays
<1> QED  BY <1>1, <1>2, <1>3, <1>4, <1>5, <1>6, <1>7, <1>8, <1>9, <1>10, <1>11, <1>12, <1>13,
            <1>14, <1>15, <1>16, <1>17, <1>18, <1>19, <1>20, <1>21, <1>22, <1>23, <1>24, <1>25,
            <1>26, <1>27, <1>28, <1>29 DEF Does

(* Who waits for records was let go of.                                    *)
LEMMA WaitDisposed ==
  ASSUME Typed, Shape, Flags, Kinds', Does
  PROVE  \A k \in Cards : card'[k].wait # "no" => card[k].disposed
<1> DEFINE Goal == \A k \in Cards : card'[k].wait # "no" => card[k].disposed
<1>0. \A k \in Cards : card[k].wait # "no" => card[k].disposed
  BY DEF Flags
<1>1. ASSUME NEW r \in Realms, NEW s \in Srcs, SourceStep(r, s) PROVE Goal
  BY <1>1, <1>0 DEF SourceStep, OtherCards, Freeing
<1>2. ASSUME NEW r \in Realms, NEW s \in Srcs, SetSrcStep(r, s) PROVE Goal
  BY SMTT(30), <1>2, <1>0 DEF SetSrcStep, OtherCards, Freeing
<1>3. ASSUME NEW r \in Realms, NEW g \in Nat, StartStep(r, g) PROVE Goal
  BY <1>3, <1>0 DEF StartStep, OtherCards, Freeing
<1>4. ASSUME NEW r \in Realms, NEW g \in Nat, RunStartStep(r, g) PROVE Goal
  BY <1>4, <1>0 DEF RunStartStep, OtherCards, Freeing
<1>5. ASSUME NEW r \in Realms, NEW g \in Nat, FetchStep(r, g) PROVE Goal
  BY <1>5, <1>0 DEF FetchStep, OtherCards, Freeing
<1>6. ASSUME NEW r \in Realms, NEW d \in Conts, d = "frames" => r \in Cards, CloseStep(r, d) PROVE Goal
  BY ZenonT(60), <1>6, <1>0 DEF CloseStep, OtherCards, Freeing
<1>7. ASSUME NEW r \in Realms, ResetStep(r) PROVE Goal
  BY <1>7, <1>0 DEF ResetStep, OtherCards, Freeing
<1>8. ASSUME NEW r \in Realms, IdleStep(r) PROVE Goal
  BY <1>8, <1>0 DEF IdleStep, OtherCards, Freeing
<1>9. ASSUME NEW r \in Realms, HearStep(r) PROVE Goal
  BY <1>9, <1>0 DEF HearStep, OtherCards, Freeing
<1>10. ASSUME NEW r \in Realms, MoveStep(r) PROVE Goal
  BY <1>10, <1>0 DEF MoveStep, OtherCards, Freeing
<1>11. ASSUME NEW c \in Cards, BootStep(c) PROVE Goal
  BY <1>11, <1>0 DEF BootStep, OtherCards, Freeing
<1>12. ASSUME NEW c \in Cards, LoadedStep(c) PROVE Goal
  BY <1>12, <1>0 DEF LoadedStep, OtherCards, Freeing
<1>13. ASSUME NEW c \in Cards, DisposeStep(c) PROVE Goal
  BY <1>13, <1>0 DEF DisposeStep, OtherCards, Freeing
<1>14. ASSUME NEW c \in Cards, OwingStep(c) PROVE Goal
  BY <1>14, <1>0 DEF OwingStep, OtherCards, Freeing
<1>15. ASSUME NEW c \in Cards, FramesStep(c) PROVE Goal
  BY <1>15, <1>0 DEF FramesStep, OtherCards, Freeing
<1>16. ASSUME NEW c \in Cards, RecordsStep(c) PROVE Goal
  <2>1. card[c].disposed
    <3>1. <<"records", c, 0>> \in Within(stack)
      BY <1>16, AtFacts DEF RecordsStep
    <3> QED  BY <3>1, LateCall
  <2> QED  BY <1>0, <1>16, <2>1 DEF RecordsStep, OtherCards
<1>17. ASSUME NEW c \in Cards, ArriveStep(c) PROVE Goal
  BY <1>17, <1>0 DEF ArriveStep, OtherCards, Freeing
<1>18. ASSUME NEW c \in Cards, FlushStep(c) PROVE Goal
  BY <1>18, <1>0 DEF FlushStep, OtherCards, Freeing
<1>19. ASSUME NEW c \in Cards, CloseRealmStep(c) PROVE Goal
  BY <1>19, <1>0 DEF CloseRealmStep, OtherCards, Freeing
<1>20. ASSUME NEW c \in Cards, AckStep(c) PROVE Goal
  BY <1>20, <1>0 DEF AckStep, OtherCards, Freeing
<1>21. ASSUME NEW c \in Cards, BtsStep(c) PROVE Goal
  BY <1>21, <1>0 DEF BtsStep, OtherCards, Freeing
<1>22. ASSUME NEW c \in Cards, ObserveStep(c) PROVE Goal
  BY <1>22, <1>0 DEF ObserveStep, OtherCards, Freeing
<1>23. CASE HeardStep
  BY <1>23, <1>0 DEF HeardStep, OtherCards, Freeing
<1>24. CASE EpilogueStep
  BY <1>24, <1>0 DEF EpilogueStep, OtherCards, Freeing
<1>25. CASE OpenStep
  BY <1>25, <1>0 DEF OpenStep, OtherCards, Freeing
<1>26. CASE OpenEventsStep
  BY <1>26, <1>0 DEF OpenEventsStep, OtherCards, Freeing
<1>27. CASE OpenRecordsStep
  BY <1>27, <1>0 DEF OpenRecordsStep, OtherCards, Freeing
<1>28. CASE RecordStep
  BY <1>28, <1>0 DEF RecordStep, OtherCards, Freeing
<1>29. CASE BeginStep
  BY <1>29, <1>0 DEF BeginStep, OtherCards, Freeing
<1> QED  BY <1>1, <1>2, <1>3, <1>4, <1>5, <1>6, <1>7, <1>8, <1>9, <1>10, <1>11, <1>12, <1>13,
            <1>14, <1>15, <1>16, <1>17, <1>18, <1>19, <1>20, <1>21, <1>22, <1>23, <1>24, <1>25,
            <1>26, <1>27, <1>28, <1>29 DEF Does

(* Whose realm goes was let go of.                                         *)
LEMMA RetiredDisposed ==
  ASSUME Typed, Shape, Flags, Kinds', Does
  PROVE  \A k \in Cards : card'[k].retired \/ <<"closeRealm", k, 0>> \in jobs' \/ card'[k].bts = "asked" => card[k].disposed
<1> DEFINE Goal ==
  \A k \in Cards : card'[k].retired \/ <<"closeRealm", k, 0>> \in jobs' \/ card'[k].bts = "asked" => card[k].disposed
<1>0. \A k \in Cards : card[k].retired \/ <<"closeRealm", k, 0>> \in jobs \/ card[k].bts = "asked" => card[k].disposed
  BY DEF Flags
<1>1. ASSUME NEW r \in Realms, NEW s \in Srcs, SourceStep(r, s) PROVE Goal
  BY <1>1, <1>0 DEF SourceStep, OtherCards, Freeing
<1>2. ASSUME NEW r \in Realms, NEW s \in Srcs, SetSrcStep(r, s) PROVE Goal
  BY <1>2, <1>0 DEF SetSrcStep, OtherCards, Freeing
<1>3. ASSUME NEW r \in Realms, NEW g \in Nat, StartStep(r, g) PROVE Goal
  BY <1>3, <1>0 DEF StartStep, OtherCards, Freeing
<1>4. ASSUME NEW r \in Realms, NEW g \in Nat, RunStartStep(r, g) PROVE Goal
  BY <1>4, <1>0 DEF RunStartStep, OtherCards, Freeing
<1>5. ASSUME NEW r \in Realms, NEW g \in Nat, FetchStep(r, g) PROVE Goal
  BY <1>5, <1>0 DEF FetchStep, OtherCards, Freeing
<1>6. ASSUME NEW r \in Realms, NEW d \in Conts, d = "frames" => r \in Cards, CloseStep(r, d) PROVE Goal
  <2>1. \A k \in Cards : UNCHANGED <<card[k].retired, card[k].bts>>
    BY <1>6 DEF CloseStep, OtherCards
  <2>2. jobs' = jobs
    BY <1>6 DEF CloseStep
  <2> QED  BY <1>0, <2>1, <2>2
<1>7. ASSUME NEW r \in Realms, ResetStep(r) PROVE Goal
  BY <1>7, <1>0 DEF ResetStep, OtherCards, Freeing
<1>8. ASSUME NEW r \in Realms, IdleStep(r) PROVE Goal
  BY <1>8, <1>0 DEF IdleStep, OtherCards, Freeing
<1>9. ASSUME NEW r \in Realms, HearStep(r) PROVE Goal
  BY <1>9, <1>0 DEF HearStep, OtherCards, Freeing
<1>10. ASSUME NEW r \in Realms, MoveStep(r) PROVE Goal
  BY <1>10, <1>0 DEF MoveStep, OtherCards, Freeing
<1>11. ASSUME NEW c \in Cards, BootStep(c) PROVE Goal
  BY <1>11, <1>0 DEF BootStep, OtherCards, Freeing
<1>12. ASSUME NEW c \in Cards, LoadedStep(c) PROVE Goal
  BY <1>12, <1>0 DEF LoadedStep, OtherCards, Freeing
<1>13. ASSUME NEW c \in Cards, DisposeStep(c) PROVE Goal
  BY ZenonT(60), <1>13, <1>0 DEF DisposeStep, OtherCards, Freeing
<1>14. ASSUME NEW c \in Cards, OwingStep(c) PROVE Goal
  BY <1>14, <1>0 DEF OwingStep, OtherCards, Freeing
<1>15. ASSUME NEW c \in Cards, FramesStep(c) PROVE Goal
  BY <1>15, <1>0 DEF FramesStep, OtherCards, Freeing
<1>16. ASSUME NEW c \in Cards, RecordsStep(c) PROVE Goal
  BY <1>16, <1>0 DEF RecordsStep, OtherCards, Freeing
<1>17. ASSUME NEW c \in Cards, ArriveStep(c) PROVE Goal
  <2>1. card[c].disposed
    <3>1. <<"arrive", c, 0>> \in Within(stack)
      BY <1>17, AtFacts DEF ArriveStep
    <3> QED  BY <3>1, LateCall
  <2> QED  BY <1>0, <1>17, <2>1 DEF ArriveStep, OtherCards
<1>18. ASSUME NEW c \in Cards, FlushStep(c) PROVE Goal
  BY <1>18, <1>0 DEF FlushStep, OtherCards, Freeing
<1>19. ASSUME NEW c \in Cards, CloseRealmStep(c) PROVE Goal
  BY <1>19, <1>0 DEF CloseRealmStep, OtherCards, Freeing
<1>20. ASSUME NEW c \in Cards, AckStep(c) PROVE Goal
  BY <1>20, <1>0 DEF AckStep, OtherCards, Freeing
<1>21. ASSUME NEW c \in Cards, BtsStep(c) PROVE Goal
  BY <1>21, <1>0 DEF BtsStep, OtherCards, Freeing
<1>22. ASSUME NEW c \in Cards, ObserveStep(c) PROVE Goal
  BY <1>22, <1>0 DEF ObserveStep, OtherCards, Freeing
<1>23. CASE HeardStep
  BY <1>23, <1>0 DEF HeardStep, OtherCards, Freeing
<1>24. CASE EpilogueStep
  BY <1>24, <1>0 DEF EpilogueStep, OtherCards, Freeing
<1>25. CASE OpenStep
  BY <1>25, <1>0 DEF OpenStep, OtherCards, Freeing
<1>26. CASE OpenEventsStep
  BY <1>26, <1>0 DEF OpenEventsStep, OtherCards, Freeing
<1>27. CASE OpenRecordsStep
  BY <1>27, <1>0 DEF OpenRecordsStep, OtherCards, Freeing
<1>28. CASE RecordStep
  BY <1>28, <1>0 DEF RecordStep, OtherCards, Freeing
<1>29. CASE BeginStep
  BY <1>29, <1>0 DEF BeginStep, OtherCards, Freeing
<1> QED  BY <1>1, <1>2, <1>3, <1>4, <1>5, <1>6, <1>7, <1>8, <1>9, <1>10, <1>11, <1>12, <1>13,
            <1>14, <1>15, <1>16, <1>17, <1>18, <1>19, <1>20, <1>21, <1>22, <1>23, <1>24, <1>25,
            <1>26, <1>27, <1>28, <1>29 DEF Does

(* Who was let go of has someone to tell, or no one by choice.             *)
LEMMA DisposedDone ==
  ASSUME Typed, Shape, Flags, Kinds', Does
  PROVE  \A k \in Cards : card'[k].disposed => card'[k].done # "none"
<1> DEFINE Goal == \A k \in Cards : card'[k].disposed => card'[k].done # "none"
<1>0. \A k \in Cards : card[k].disposed => card[k].done # "none"
  BY DEF Flags
<1>1. ASSUME NEW r \in Realms, NEW s \in Srcs, SourceStep(r, s) PROVE Goal
  BY <1>1, <1>0 DEF SourceStep, OtherCards, Freeing
<1>2. ASSUME NEW r \in Realms, NEW s \in Srcs, SetSrcStep(r, s) PROVE Goal
  BY <1>2, <1>0 DEF SetSrcStep, OtherCards, Freeing
<1>3. ASSUME NEW r \in Realms, NEW g \in Nat, StartStep(r, g) PROVE Goal
  BY <1>3, <1>0 DEF StartStep, OtherCards, Freeing
<1>4. ASSUME NEW r \in Realms, NEW g \in Nat, RunStartStep(r, g) PROVE Goal
  BY <1>4, <1>0 DEF RunStartStep, OtherCards, Freeing
<1>5. ASSUME NEW r \in Realms, NEW g \in Nat, FetchStep(r, g) PROVE Goal
  BY <1>5, <1>0 DEF FetchStep, OtherCards, Freeing
<1>6. ASSUME NEW r \in Realms, NEW d \in Conts, d = "frames" => r \in Cards, CloseStep(r, d) PROVE Goal
  <2>1. \A k \in Cards : card'[k].disposed = card[k].disposed
                          /\ (card'[k].done = card[k].done \/ card'[k].done = d)
    BY <1>6 DEF CloseStep, OtherCards
  <2> QED  BY <1>0, <2>1 DEF Conts
<1>7. ASSUME NEW r \in Realms, ResetStep(r) PROVE Goal
  BY <1>7, <1>0 DEF ResetStep, OtherCards, Freeing
<1>8. ASSUME NEW r \in Realms, IdleStep(r) PROVE Goal
  BY <1>8, <1>0 DEF IdleStep, OtherCards, Freeing
<1>9. ASSUME NEW r \in Realms, HearStep(r) PROVE Goal
  BY <1>9, <1>0 DEF HearStep, OtherCards, Freeing
<1>10. ASSUME NEW r \in Realms, MoveStep(r) PROVE Goal
  BY <1>10, <1>0 DEF MoveStep, OtherCards, Freeing
<1>11. ASSUME NEW c \in Cards, BootStep(c) PROVE Goal
  BY <1>11, <1>0 DEF BootStep, OtherCards, Freeing
<1>12. ASSUME NEW c \in Cards, LoadedStep(c) PROVE Goal
  BY <1>12, <1>0 DEF LoadedStep, OtherCards, Freeing
<1>13. ASSUME NEW c \in Cards, DisposeStep(c) PROVE Goal
  <2>1. card[c].done # "none"
    BY <1>13 DEF DisposeStep, Flags
  <2> QED  BY <1>0, <1>13, <2>1 DEF DisposeStep, OtherCards
<1>14. ASSUME NEW c \in Cards, OwingStep(c) PROVE Goal
  BY <1>14, <1>0 DEF OwingStep, OtherCards, Freeing
<1>15. ASSUME NEW c \in Cards, FramesStep(c) PROVE Goal
  BY <1>15, <1>0 DEF FramesStep, OtherCards, Freeing
<1>16. ASSUME NEW c \in Cards, RecordsStep(c) PROVE Goal
  BY <1>16, <1>0 DEF RecordsStep, OtherCards, Freeing
<1>17. ASSUME NEW c \in Cards, ArriveStep(c) PROVE Goal
  BY <1>17, <1>0 DEF ArriveStep, OtherCards, Freeing
<1>18. ASSUME NEW c \in Cards, FlushStep(c) PROVE Goal
  BY <1>18, <1>0 DEF FlushStep, OtherCards, Freeing
<1>19. ASSUME NEW c \in Cards, CloseRealmStep(c) PROVE Goal
  BY <1>19, <1>0 DEF CloseRealmStep, OtherCards, Freeing
<1>20. ASSUME NEW c \in Cards, AckStep(c) PROVE Goal
  BY <1>20, <1>0 DEF AckStep, OtherCards, Freeing
<1>21. ASSUME NEW c \in Cards, BtsStep(c) PROVE Goal
  BY <1>21, <1>0 DEF BtsStep, OtherCards, Freeing
<1>22. ASSUME NEW c \in Cards, ObserveStep(c) PROVE Goal
  BY <1>22, <1>0 DEF ObserveStep, OtherCards, Freeing
<1>23. CASE HeardStep
  BY <1>23, <1>0 DEF HeardStep, OtherCards, Freeing
<1>24. CASE EpilogueStep
  BY <1>24, <1>0 DEF EpilogueStep, OtherCards, Freeing
<1>25. CASE OpenStep
  BY <1>25, <1>0 DEF OpenStep, OtherCards, Freeing
<1>26. CASE OpenEventsStep
  BY <1>26, <1>0 DEF OpenEventsStep, OtherCards, Freeing
<1>27. CASE OpenRecordsStep
  BY <1>27, <1>0 DEF OpenRecordsStep, OtherCards, Freeing
<1>28. CASE RecordStep
  BY <1>28, <1>0 DEF RecordStep, OtherCards, Freeing
<1>29. CASE BeginStep
  BY <1>29, <1>0 DEF BeginStep, OtherCards, Freeing
<1> QED  BY <1>1, <1>2, <1>3, <1>4, <1>5, <1>6, <1>7, <1>8, <1>9, <1>10, <1>11, <1>12, <1>13,
            <1>14, <1>15, <1>16, <1>17, <1>18, <1>19, <1>20, <1>21, <1>22, <1>23, <1>24, <1>25,
            <1>26, <1>27, <1>28, <1>29 DEF Does

(* Who is told of had begun to boot.                                       *)
LEMMA DoneBooted ==
  ASSUME Typed, Shape, Links, Flags, Kinds', Does
  PROVE  \A k \in Cards : card'[k].done # "none" => card'[k].st \notin {"unmade", "made"}
<1> DEFINE Goal == \A k \in Cards : card'[k].done # "none" => card'[k].st \notin {"unmade", "made"}
<1>0. \A k \in Cards : card[k].done # "none" => card[k].st \notin {"unmade", "made"}
  BY DEF Flags
<1>1. ASSUME NEW r \in Realms, NEW s \in Srcs, SourceStep(r, s) PROVE Goal
  BY <1>1, <1>0 DEF SourceStep, OtherCards, Freeing
<1>2. ASSUME NEW r \in Realms, NEW s \in Srcs, SetSrcStep(r, s) PROVE Goal
  BY <1>2, <1>0 DEF SetSrcStep, OtherCards, Freeing
<1>3. ASSUME NEW r \in Realms, NEW g \in Nat, StartStep(r, g) PROVE Goal
  <2>1. CASE UNCHANGED card
    BY <1>0, <2>1
  <2>2. ASSUME NEW c \in Cards, card[c].st = "unmade", OtherCards(c), UNCHANGED card[c].done
        PROVE \A k \in Cards : card'[k].done # "none" => card'[k].st \notin {"unmade", "made"}
    <3>1. card[c].done = "none"
      BY <2>2 DEF Typed, Made
    <3> QED  BY <1>0, <2>2, <3>1 DEF OtherCards
  <2> QED  BY <1>3, <2>1, <2>2 DEF StartStep
<1>4. ASSUME NEW r \in Realms, NEW g \in Nat, RunStartStep(r, g) PROVE Goal
  BY <1>4, <1>0 DEF RunStartStep, OtherCards, Freeing
<1>5. ASSUME NEW r \in Realms, NEW g \in Nat, FetchStep(r, g) PROVE Goal
  BY <1>5, <1>0 DEF FetchStep, OtherCards, Freeing
<1>6. ASSUME NEW r \in Realms, NEW d \in Conts, d = "frames" => r \in Cards, CloseStep(r, d) PROVE Goal
  <2>1. CASE UNCHANGED card
    BY <1>0, <2>1
  <2>2. ASSUME NEW c \in Cards, frame[r].dispose = c, OtherCards(c), UNCHANGED card[c].st
        PROVE \A k \in Cards : card'[k].done # "none" => card'[k].st \notin {"unmade", "made"}
    <3>1. card[c].st \notin {"unmade", "made"}
      BY <2>2, AnItem DEF Links
    <3> QED  BY <1>0, <2>2, <3>1 DEF OtherCards
  <2> QED  BY <1>6, <2>1, <2>2 DEF CloseStep
<1>7. ASSUME NEW r \in Realms, ResetStep(r) PROVE Goal
  BY <1>7, <1>0 DEF ResetStep, OtherCards, Freeing
<1>8. ASSUME NEW r \in Realms, IdleStep(r) PROVE Goal
  BY <1>8, <1>0 DEF IdleStep, OtherCards, Freeing
<1>9. ASSUME NEW r \in Realms, HearStep(r) PROVE Goal
  BY <1>9, <1>0 DEF HearStep, OtherCards, Freeing
<1>10. ASSUME NEW r \in Realms, MoveStep(r) PROVE Goal
  BY <1>10, <1>0 DEF MoveStep, OtherCards, Freeing
<1>11. ASSUME NEW c \in Cards, BootStep(c) PROVE Goal
  BY <1>11, <1>0 DEF BootStep, OtherCards, Freeing
<1>12. ASSUME NEW c \in Cards, LoadedStep(c) PROVE Goal
  BY <1>12, <1>0 DEF LoadedStep, OtherCards, Freeing
<1>13. ASSUME NEW c \in Cards, DisposeStep(c) PROVE Goal
  BY ZenonT(60), <1>13, <1>0 DEF DisposeStep, OtherCards, Freeing
<1>14. ASSUME NEW c \in Cards, OwingStep(c) PROVE Goal
  BY <1>14, <1>0 DEF OwingStep, OtherCards, Freeing
<1>15. ASSUME NEW c \in Cards, FramesStep(c) PROVE Goal
  BY <1>15, <1>0 DEF FramesStep, OtherCards, Freeing
<1>16. ASSUME NEW c \in Cards, RecordsStep(c) PROVE Goal
  BY <1>16, <1>0 DEF RecordsStep, OtherCards, Freeing
<1>17. ASSUME NEW c \in Cards, ArriveStep(c) PROVE Goal
  BY <1>17, <1>0 DEF ArriveStep, OtherCards, Freeing
<1>18. ASSUME NEW c \in Cards, FlushStep(c) PROVE Goal
  BY <1>18, <1>0 DEF FlushStep, OtherCards, Freeing
<1>19. ASSUME NEW c \in Cards, CloseRealmStep(c) PROVE Goal
  BY <1>19, <1>0 DEF CloseRealmStep, OtherCards, Freeing
<1>20. ASSUME NEW c \in Cards, AckStep(c) PROVE Goal
  BY <1>20, <1>0 DEF AckStep, OtherCards, Freeing
<1>21. ASSUME NEW c \in Cards, BtsStep(c) PROVE Goal
  BY <1>21, <1>0 DEF BtsStep, OtherCards, Freeing
<1>22. ASSUME NEW c \in Cards, ObserveStep(c) PROVE Goal
  BY <1>22, <1>0 DEF ObserveStep, OtherCards, Freeing
<1>23. CASE HeardStep
  BY <1>23, <1>0 DEF HeardStep, OtherCards, Freeing
<1>24. CASE EpilogueStep
  BY <1>24, <1>0 DEF EpilogueStep, OtherCards, Freeing
<1>25. CASE OpenStep
  BY <1>25, <1>0 DEF OpenStep, OtherCards, Freeing
<1>26. CASE OpenEventsStep
  BY <1>26, <1>0 DEF OpenEventsStep, OtherCards, Freeing
<1>27. CASE OpenRecordsStep
  BY <1>27, <1>0 DEF OpenRecordsStep, OtherCards, Freeing
<1>28. CASE RecordStep
  BY <1>28, <1>0 DEF RecordStep, OtherCards, Freeing
<1>29. CASE BeginStep
  BY <1>29, <1>0 DEF BeginStep, OtherCards, Freeing
<1> QED  BY <1>1, <1>2, <1>3, <1>4, <1>5, <1>6, <1>7, <1>8, <1>9, <1>10, <1>11, <1>12, <1>13,
            <1>14, <1>15, <1>16, <1>17, <1>18, <1>19, <1>20, <1>21, <1>22, <1>23, <1>24, <1>25,
            <1>26, <1>27, <1>28, <1>29 DEF Does

(* A card whose list its host waits for has a host let go of.              *)
LEMMA FramesHost ==
  ASSUME Typed, Shape, Links, Flags, Kinds', Does
  PROVE  \A k, h \in Cards : card'[k].done = "frames" /\ card'[k].host = h => card[h].disposed
<1> DEFINE Goal == \A k, h \in Cards : card'[k].done = "frames" /\ card'[k].host = h => card[h].disposed
<1>0. \A k, h \in Cards : card[k].done = "frames" /\ card[k].host = h => card[h].disposed
  BY DEF Flags
<1>1. ASSUME NEW r \in Realms, NEW s \in Srcs, SourceStep(r, s) PROVE Goal
  BY <1>1, <1>0 DEF SourceStep, OtherCards, Freeing
<1>2. ASSUME NEW r \in Realms, NEW s \in Srcs, SetSrcStep(r, s) PROVE Goal
  BY <1>2, <1>0 DEF SetSrcStep, OtherCards, Freeing
<1>3. ASSUME NEW r \in Realms, NEW g \in Nat, StartStep(r, g) PROVE Goal
  <2>1. CASE UNCHANGED card
    BY <1>0, <2>1
  <2>2. ASSUME NEW c \in Cards, card[c].st = "unmade", OtherCards(c), UNCHANGED card[c].done
        PROVE \A k, h \in Cards : card'[k].done = "frames" /\ card'[k].host = h => card[h].disposed
    <3>1. card[c].done = "none"
      BY <2>2 DEF Typed, Made
    <3> QED  BY <1>0, <2>2, <3>1 DEF OtherCards
  <2> QED  BY <1>3, <2>1, <2>2 DEF StartStep
<1>4. ASSUME NEW r \in Realms, NEW g \in Nat, RunStartStep(r, g) PROVE Goal
  BY <1>4, <1>0 DEF RunStartStep, OtherCards, Freeing
<1>5. ASSUME NEW r \in Realms, NEW g \in Nat, FetchStep(r, g) PROVE Goal
  BY <1>5, <1>0 DEF FetchStep, OtherCards, Freeing
<1>6. ASSUME NEW r \in Realms, NEW d \in Conts, d = "frames" => r \in Cards, CloseStep(r, d) PROVE Goal
  <2>1. CASE UNCHANGED card
    BY <1>0, <2>1
  <2>2. ASSUME NEW c \in Cards, frame[r].dispose = c, OtherCards(c), UNCHANGED card[c].host,
               card'[c].done = d
        PROVE \A k, h \in Cards : card'[k].done = "frames" /\ card'[k].host = h => card[h].disposed
    <3>1. card'[c].host = r
      BY <2>2, AnItem DEF Typed, Made
    <3>2. d = "frames" => \A h \in Cards : h = r => card[h].disposed
      <4>1. <<"close", r, d>> \in Within(stack)
        BY <1>6, AtFacts DEF CloseStep
      <4> QED  BY <4>1, LateCall
    <3> QED  BY <1>0, <2>2, <3>1, <3>2 DEF OtherCards
  <2> QED  BY <1>6, <2>1, <2>2 DEF CloseStep
<1>7. ASSUME NEW r \in Realms, ResetStep(r) PROVE Goal
  BY <1>7, <1>0 DEF ResetStep, OtherCards, Freeing
<1>8. ASSUME NEW r \in Realms, IdleStep(r) PROVE Goal
  BY <1>8, <1>0 DEF IdleStep, OtherCards, Freeing
<1>9. ASSUME NEW r \in Realms, HearStep(r) PROVE Goal
  BY <1>9, <1>0 DEF HearStep, OtherCards, Freeing
<1>10. ASSUME NEW r \in Realms, MoveStep(r) PROVE Goal
  BY <1>10, <1>0 DEF MoveStep, OtherCards, Freeing
<1>11. ASSUME NEW c \in Cards, BootStep(c) PROVE Goal
  BY <1>11, <1>0 DEF BootStep, OtherCards, Freeing
<1>12. ASSUME NEW c \in Cards, LoadedStep(c) PROVE Goal
  BY <1>12, <1>0 DEF LoadedStep, OtherCards, Freeing
<1>13. ASSUME NEW c \in Cards, DisposeStep(c) PROVE Goal
  <2>1. OtherCards(c) /\ UNCHANGED <<card[c].host, card[c].done>>
    BY <1>13 DEF DisposeStep
  <2> QED  BY <1>0, <2>1 DEF OtherCards
<1>14. ASSUME NEW c \in Cards, OwingStep(c) PROVE Goal
  BY <1>14, <1>0 DEF OwingStep, OtherCards, Freeing
<1>15. ASSUME NEW c \in Cards, FramesStep(c) PROVE Goal
  BY <1>15, <1>0 DEF FramesStep, OtherCards, Freeing
<1>16. ASSUME NEW c \in Cards, RecordsStep(c) PROVE Goal
  BY <1>16, <1>0 DEF RecordsStep, OtherCards, Freeing
<1>17. ASSUME NEW c \in Cards, ArriveStep(c) PROVE Goal
  BY <1>17, <1>0 DEF ArriveStep, OtherCards, Freeing
<1>18. ASSUME NEW c \in Cards, FlushStep(c) PROVE Goal
  BY <1>18, <1>0 DEF FlushStep, OtherCards, Freeing
<1>19. ASSUME NEW c \in Cards, CloseRealmStep(c) PROVE Goal
  BY <1>19, <1>0 DEF CloseRealmStep, OtherCards, Freeing
<1>20. ASSUME NEW c \in Cards, AckStep(c) PROVE Goal
  BY <1>20, <1>0 DEF AckStep, OtherCards, Freeing
<1>21. ASSUME NEW c \in Cards, BtsStep(c) PROVE Goal
  BY <1>21, <1>0 DEF BtsStep, OtherCards, Freeing
<1>22. ASSUME NEW c \in Cards, ObserveStep(c) PROVE Goal
  BY <1>22, <1>0 DEF ObserveStep, OtherCards, Freeing
<1>23. CASE HeardStep
  BY <1>23, <1>0 DEF HeardStep, OtherCards, Freeing
<1>24. CASE EpilogueStep
  BY <1>24, <1>0 DEF EpilogueStep, OtherCards, Freeing
<1>25. CASE OpenStep
  BY <1>25, <1>0 DEF OpenStep, OtherCards, Freeing
<1>26. CASE OpenEventsStep
  BY <1>26, <1>0 DEF OpenEventsStep, OtherCards, Freeing
<1>27. CASE OpenRecordsStep
  BY <1>27, <1>0 DEF OpenRecordsStep, OtherCards, Freeing
<1>28. CASE RecordStep
  BY <1>28, <1>0 DEF RecordStep, OtherCards, Freeing
<1>29. CASE BeginStep
  BY <1>29, <1>0 DEF BeginStep, OtherCards, Freeing
<1> QED  BY <1>1, <1>2, <1>3, <1>4, <1>5, <1>6, <1>7, <1>8, <1>9, <1>10, <1>11, <1>12, <1>13,
            <1>14, <1>15, <1>16, <1>17, <1>18, <1>19, <1>20, <1>21, <1>22, <1>23, <1>24, <1>25,
            <1>26, <1>27, <1>28, <1>29 DEF Does

(* A card boots until its script's call returns.                           *)
LEMMA StillBooting ==
  ASSUME Typed, Shape, Resting, BootJobs, Kinds', Does
  PROVE  \A k \in Cards : card[k].st = "booting" => card'[k].st = "booting" \/ stack' = <<>>
<1> DEFINE Goal == \A k \in Cards : card[k].st = "booting" => card'[k].st = "booting" \/ stack' = <<>>
<1>1. ASSUME NEW r \in Realms, NEW s \in Srcs, SourceStep(r, s) PROVE Goal
  BY <1>1 DEF SourceStep, OtherCards, Freeing
<1>2. ASSUME NEW r \in Realms, NEW s \in Srcs, SetSrcStep(r, s) PROVE Goal
  BY SMTT(30), <1>2 DEF SetSrcStep, OtherCards, Freeing
<1>3. ASSUME NEW r \in Realms, NEW g \in Nat, StartStep(r, g) PROVE Goal
  BY <1>3 DEF StartStep, OtherCards, Freeing
<1>4. ASSUME NEW r \in Realms, NEW g \in Nat, RunStartStep(r, g) PROVE Goal
  BY <1>4 DEF RunStartStep, OtherCards, Freeing
<1>5. ASSUME NEW r \in Realms, NEW g \in Nat, FetchStep(r, g) PROVE Goal
  BY <1>5 DEF FetchStep, OtherCards, Freeing
<1>6. ASSUME NEW r \in Realms, NEW d \in Conts, d = "frames" => r \in Cards, CloseStep(r, d) PROVE Goal
  BY <1>6 DEF CloseStep, OtherCards, Freeing
<1>7. ASSUME NEW r \in Realms, ResetStep(r) PROVE Goal
  BY <1>7 DEF ResetStep, OtherCards, Freeing
<1>8. ASSUME NEW r \in Realms, IdleStep(r) PROVE Goal
  BY <1>8 DEF IdleStep, OtherCards, Freeing
<1>9. ASSUME NEW r \in Realms, HearStep(r) PROVE Goal
  BY <1>9 DEF HearStep, OtherCards, Freeing
<1>10. ASSUME NEW r \in Realms, MoveStep(r) PROVE Goal
  BY <1>10 DEF MoveStep, OtherCards, Freeing
<1>11. ASSUME NEW c \in Cards, BootStep(c) PROVE Goal
  <2>1. card[c].st # "booting"
    BY <1>11 DEF BootStep, BootJobs
  <2> QED  BY <1>11, <2>1 DEF BootStep, OtherCards
<1>12. ASSUME NEW c \in Cards, LoadedStep(c) PROVE Goal
  <2>1. stack # <<>> /\ Top[1] = "loading" /\ stack' = Pop
    BY <1>12, AtFacts DEF LoadedStep
  <2> QED  BY <2>1, Popped
<1>13. ASSUME NEW c \in Cards, DisposeStep(c) PROVE Goal
  BY <1>13 DEF DisposeStep, OtherCards, Freeing
<1>14. ASSUME NEW c \in Cards, OwingStep(c) PROVE Goal
  BY <1>14 DEF OwingStep, OtherCards, Freeing
<1>15. ASSUME NEW c \in Cards, FramesStep(c) PROVE Goal
  BY <1>15 DEF FramesStep, OtherCards, Freeing
<1>16. ASSUME NEW c \in Cards, RecordsStep(c) PROVE Goal
  BY <1>16 DEF RecordsStep, OtherCards, Freeing
<1>17. ASSUME NEW c \in Cards, ArriveStep(c) PROVE Goal
  BY <1>17 DEF ArriveStep, OtherCards, Freeing
<1>18. ASSUME NEW c \in Cards, FlushStep(c) PROVE Goal
  BY <1>18 DEF FlushStep, OtherCards, Freeing
<1>19. ASSUME NEW c \in Cards, CloseRealmStep(c) PROVE Goal
  BY <1>19 DEF CloseRealmStep, OtherCards, Freeing
<1>20. ASSUME NEW c \in Cards, AckStep(c) PROVE Goal
  BY <1>20 DEF AckStep, OtherCards, Freeing
<1>21. ASSUME NEW c \in Cards, BtsStep(c) PROVE Goal
  BY <1>21 DEF BtsStep, OtherCards, Freeing
<1>22. ASSUME NEW c \in Cards, ObserveStep(c) PROVE Goal
  BY <1>22 DEF ObserveStep, OtherCards, Freeing
<1>23. CASE HeardStep
  BY <1>23 DEF HeardStep, Freeing
<1>24. CASE EpilogueStep
  BY <1>24 DEF EpilogueStep, Freeing
<1>25. CASE OpenStep
  BY <1>25 DEF OpenStep, OtherCards, Freeing
<1>26. CASE OpenEventsStep
  BY <1>26 DEF OpenEventsStep, OtherCards, Freeing
<1>27. CASE OpenRecordsStep
  BY <1>27 DEF OpenRecordsStep, OtherCards, Freeing
<1>28. CASE RecordStep
  BY <1>28 DEF RecordStep, OtherCards, Freeing
<1>29. CASE BeginStep
  BY <1>29 DEF BeginStep, OtherCards, Freeing
<1> QED  BY <1>1, <1>2, <1>3, <1>4, <1>5, <1>6, <1>7, <1>8, <1>9, <1>10, <1>11, <1>12, <1>13,
            <1>14, <1>15, <1>16, <1>17, <1>18, <1>19, <1>20, <1>21, <1>22, <1>23, <1>24, <1>25,
            <1>26, <1>27, <1>28, <1>29 DEF Does

(* Whose script loads is booting.                                          *)
LEMMA LoadingBooting ==
  ASSUME Typed, Shape, Resting, BootJobs, Flags, Kinds', Does
  PROVE  \A k \in Cards : On("loading", k, 0)' => card'[k].st = "booting"
<1>0. \A k \in Cards : <<"loading", k, 0>>[1] = "loading" /\ <<"loading", k, 0>>[2] = k
  OBVIOUS
<1>1. ASSUME NEW k \in Cards, <<"loading", k, 0>> \in Within(stack') PROVE card'[k].st = "booting"
  <2>1. CASE <<"loading", k, 0>> \in Within(stack)
    <3>1. card[k].st = "booting"
      BY <2>1 DEF Flags, On
    <3> QED  BY <1>1, <3>1, StillBooting, NoCall
  <2>2. ASSUME NEW c \in Cards, BootStep(c), <<"loading", k, 0>> \notin Within(stack)
        PROVE  card'[k].st = "booting"
    <3>1. CASE stack' = <<>>
      BY <1>1, <3>1, NoCall
    <3>2. CASE card'[c].st = "booting" /\ Pushed(<<"loading", c, 0>>, <<>>)
      <4>1. <<"loading", k, 0>> = <<"loading", c, 0>>
        BY <1>1, <3>2, NoCall DEF Pushed
      <4>2. k = c
        BY <1>0, <4>1
      <4> QED  BY <3>2, <4>2
    <3> QED  BY <2>2, <3>1, <3>2 DEF BootStep
  <2> QED  BY <1>0, <1>1, <2>1, <2>2, NewLoading DEF NoNew
<1> QED  BY <1>1 DEF On

(* Each flag of a disposal is raised in its turn.                          *)
LEMMA FlagsKept ==
  ASSUME Typed, Shape, Resting, Own, Links, BootJobs, Flags, Kinds', Does
  PROVE  Flags'
<1>1. \A c \in Cards : card'[c].done # "none" /\ ~card'[c].disposed <=> At("dispose", c, 0)'
  BY TopKept
<1>2. \A x \in Within(stack') : Late(x) => card'[x[2]].disposed
  <2>1. ASSUME NEW x \in Within(stack), Late(x) PROVE card'[x[2]].disposed
    BY <2>1, LateDisposed, DisposedStays
  <2> QED  BY <2>1, NewLate
<1>3. ASSUME NEW c \in Cards
      PROVE  /\ \A k \in {"owing", "frames", "arrive", "records"} : On(k, c, 0)' => card'[c].disposed
             /\ On("close", c, "frames")' => card'[c].disposed
  <2>1. ASSUME NEW k \in {"owing", "frames", "arrive", "records"}, <<k, c, 0>> \in Within(stack')
        PROVE  card'[c].disposed
    <3>1. <<k, c, 0>>[1] = k /\ <<k, c, 0>>[2] = c
      OBVIOUS
    <3> QED  BY <1>2, <2>1, <3>1 DEF Late
  <2>2. ASSUME <<"close", c, "frames">> \in Within(stack') PROVE card'[c].disposed
    <3>1. Late(<<"close", c, "frames">>) /\ <<"close", c, "frames">>[2] = c
      BY DEF Late
    <3> QED  BY <1>2, <2>2, <3>1
  <2> QED  BY <2>1, <2>2 DEF On
<1>4. \A k \in Cards : card'[k].wait # "no" => card'[k].disposed
  BY WaitDisposed, DisposedStays
<1>5. \A k \in Cards : card'[k].retired \/ <<"closeRealm", k, 0>> \in jobs' \/ card'[k].bts = "asked"
                          => card'[k].disposed
  BY RetiredDisposed, DisposedStays
<1>6. \A k, h \in Cards : card'[k].done = "frames" /\ card'[k].host = h => card'[h].disposed
  BY FramesHost, DisposedStays
<1>7. \A k \in Cards : <<"frames", k, 0>> \in Within(frame'[k].after) => card'[k].disposed
  BY AfterDisposed
<1>8. /\ \A k \in Cards : card'[k].disposed => card'[k].done # "none"
      /\ \A k \in Cards : card'[k].done # "none" => card'[k].st \notin {"unmade", "made"}
      /\ \A k \in Cards : On("loading", k, 0)' => card'[k].st = "booting"
  BY DisposedDone, DoneBooted, LoadingBooting
<1> QED  BY <1>1, <1>3, <1>4, <1>5, <1>6, <1>7, <1>8 DEF Flags


-----------------------------------------------------------------------------
(* A frame and its card.                                                   *)

(* What a frame and its card have of each other.                           *)
SameFrames == \A q \in Realms : UNCHANGED <<frame[q].gen, frame[q].src, frame[q].loaded,
                                            frame[q].realm, frame[q].dispose>>
Kept(c, r) == /\ card[c].st # "unmade" /\ card[c].host = r /\ card[c].gen = frame[r].gen
              /\ frame[r].loaded /\ card[c].done = "none" /\ ~card[c].disposed
              /\ (frame[r].dispose = c => card[c].st # "made")
              /\ (Alive(r) => Alive(c))
Ready(r) == frame[r].dispose \in {0, frame[r].realm} /\ (frame[r].src = NoSrc => ~frame[r].loaded)

(* Links, a frame at a time.                                               *)
LEMMA LinksMeans ==
  /\ Links <=> \A r \in Realms : Ready(r) /\ \A c \in Cards : frame[r].realm = c => Kept(c, r)
  /\ Links' <=> \A r \in Realms : Ready(r)' /\ \A c \in Cards : frame'[r].realm = c => Kept(c, r)'
<1>1. Links <=> \A r \in Realms : Ready(r) /\ \A c \in Cards : frame[r].realm = c => Kept(c, r)
  BY DEF Links, Ready, Kept
<1>2. Links' <=> \A r \in Realms : Ready(r)' /\ \A c \in Cards : frame'[r].realm = c => Kept(c, r)'
  BY DEF Links, Ready, Kept
<1> QED  BY <1>1, <1>2

(* A card that is kept, where nothing of it changes.                       *)
LEMMA KeptSame ==
  ASSUME NEW r \in Realms, NEW c \in Cards, Kept(c, r),
         UNCHANGED <<frame[r].gen, frame[r].loaded, frame[r].dispose>>,
         UNCHANGED <<card[c].host, card[c].gen, card[c].done, card[c].disposed>>,
         card'[c].st # "unmade", card'[c].st = "made" => card[c].st = "made",
         Alive(r)' => Alive(c)'
  PROVE  Kept(c, r)'
BY DEF Kept

(* A step that changes no frame and no card.                               *)
LEMMA LinksSame ==
  ASSUME Links, SameFrames,
         \A k \in Cards : UNCHANGED <<card[k].host, card[k].gen, card[k].done, card[k].disposed,
                                      card[k].st>>
  PROVE  Links'
<1>1. \A r \in Realms : Ready(r)'
  BY LinksMeans DEF Ready, SameFrames
<1>2. ASSUME NEW r \in Realms, NEW c \in Cards, frame'[r].realm = c PROVE Kept(c, r)'
  <2>1. Kept(c, r)
    BY <1>2, LinksMeans DEF SameFrames
  <2>2. r # Page => r \in Cards
    BY AnItem DEF Page
  <2>3. Alive(r)' => Alive(r)
    BY <2>2 DEF Alive
  <2>4. Alive(c) => Alive(c)'
    BY DEF Alive
  <2>5. card[c].st # "unmade" /\ (Alive(r) => Alive(c))
    BY <2>1 DEF Kept
  <2> QED  BY <2>1, <2>3, <2>4, <2>5, KeptSame DEF SameFrames
<1> QED  BY <1>1, <1>2, LinksMeans

(* A release's least set.                                                  *)
Losses(loads) == {k \in Cards : \A S \in SUBSET Cards : Gone(S, loads) => k \in S}

(* The least set loses what is dead, retired or not needed.                *)
LEMMA LossesGo ==
  ASSUME NEW loads, NEW k \in Cards,
         ~Alive(k) \/ card[k].retired \/ Unneeded(k, Losses(loads), loads)
  PROVE  k \in Losses(loads)
<1>1. ASSUME NEW S \in SUBSET Cards, Gone(S, loads) PROVE k \in S
  <2>1. Losses(loads) \subseteq S
    BY <1>1 DEF Losses
  <2>2. Unneeded(k, Losses(loads), loads) => Unneeded(k, S, loads)
    BY <2>1 DEF Unneeded, Referenced
  <2> QED  BY <1>1, <2>2 DEF Gone
<1> QED  BY <1>1 DEF Losses

(* A card its live frame holds is not released.                            *)
LEMMA Spared ==
  ASSUME Typed, NEW loads, NEW c \in Cards, NEW r \in Realms, ~card[c].retired,
         card[c].host = r, frame[r].realm = c, r \notin Losses(loads)
  PROVE  c \notin Releasable(loads)
<1> DEFINE L == Losses(loads)
           S == L \ {c}
<1>1. Gone(S, loads) \/ ~Alive(c)
  <2>1. ASSUME NEW k \in Cards, Alive(c), ~Alive(k) \/ card[k].retired \/ Unneeded(k, S, loads)
        PROVE  k \in S
    <3>1. CASE k = c
      <4>1. Referenced(c, S)
        BY DEF Referenced
      <4>2. ~Unneeded(c, S, loads)
        BY <4>1 DEF Unneeded
      <4> QED  BY <2>1, <3>1, <4>2
    <3>2. CASE k # c
      <4>1. S \subseteq L
        OBVIOUS
      <4>2. Unneeded(k, S, loads) => Unneeded(k, L, loads)
        BY <4>1 DEF Unneeded, Referenced
      <4>3. k \in L
        BY <2>1, <4>2, LossesGo
      <4> QED  BY <3>2, <4>3
    <3> QED  BY <3>1, <3>2
  <2> QED  BY <2>1 DEF Gone
<1>2. S \in SUBSET Cards /\ c \notin S
  BY DEF Losses
<1> QED  BY <1>1, <1>2 DEF Releasable

(* A release spares the card of a live frame.                              *)
LEMMA FreeingLinks ==
  ASSUME Typed, Links, Flags, NEW loads, Freeing(loads), UNCHANGED frame
  PROVE  Links'
<1>1. \A r \in Realms : Ready(r)'
  BY LinksMeans DEF Ready
<1>2. ASSUME NEW r \in Realms, NEW c \in Cards, frame'[r].realm = c PROVE Kept(c, r)'
  <2>1. Kept(c, r)
    BY <1>2, LinksMeans
  <2>2. ~card[c].retired
    BY <2>1 DEF Kept, Flags
  <2>3. /\ UNCHANGED <<card[c].host, card[c].gen, card[c].done, card[c].disposed>>
        /\ card'[c].st # "unmade" /\ (card'[c].st = "made" => card[c].st = "made")
    BY <2>1 DEF Freeing, Kept
  <2>4. ASSUME Alive(r)' PROVE Alive(c)'
    <3>1. r \notin Losses(loads)
      <4>1. CASE r = Page
        BY <4>1, AnItem DEF Losses
      <4>2. CASE r # Page
        <5>1. r \in Cards
          BY <4>2, AnItem DEF Page
        <5>2. card'[r].st \notin {"unmade", "freed"}
          BY <2>4, <4>2 DEF Alive
        <5>3. r \notin Releasable(loads) /\ Alive(r)
          BY <5>1, <5>2 DEF Freeing, Alive
        <5> QED  BY <5>1, <5>3 DEF Releasable, Losses
      <4> QED  BY <4>1, <4>2
    <3>2. Alive(r)
      <4>1. CASE r = Page
        BY <4>1 DEF Alive
      <4>2. CASE r # Page
        <5>1. r \in Cards
          BY <4>2, AnItem DEF Page
        <5> QED  BY <2>4, <4>2, <5>1 DEF Alive, Freeing
      <4> QED  BY <4>1, <4>2
    <3>3. Alive(c)
      BY <2>1, <3>2 DEF Kept
    <3>4. card[c].host = r /\ frame[r].realm = c
      BY <1>2, <2>1 DEF Kept
    <3>5. c \notin Releasable(loads)
      BY <2>2, <3>1, <3>4, Spared
    <3> QED  BY <3>3, <3>5 DEF Freeing, Alive
  <2> QED  BY <2>1, <2>3, <2>4, KeptSame
<1> QED  BY <1>1, <1>2, LinksMeans

(* A start at hand is the only one of a frame that holds no card.          *)
LEMMA StartFree ==
  ASSUME Typed, Tokens, Links, NEW r \in Realms, NEW g \in Nat,
         <<"start", r, g>> \in Within(stack), g = frame[r].gen
  PROVE  /\ frame[r].loaded /\ frame[r].dispose = 0
         /\ \A c \in Cards : frame[r].realm # c
         /\ \A c \in Cards : card[c].st # "unmade" /\ card[c].host = r => card[c].gen # g
<1>1. Count(stack, Starts(r, g)) >= 1
  <2>1. stack \in Seq(Items)
    BY DEF Typed, Kinds
  <2>2. <<"start", r, g>> \in Starts(r, g)
    BY DEF Starts
  <2> QED  BY <2>1, <2>2, WithinCount
<1>2. Token(r, g) <= Lim(r, g)
  BY DEF Tokens
<1>3. /\ Count(stack, Starts(r, g)) \in Nat /\ Count(frame[r].after, Starts(r, g)) \in Nat
      /\ If(<<"start", r, g>>, jobs) \in {0, 1} /\ If(<<r, g>>, asked) \in {0, 1}
      /\ If(<<r, g>>, flying) \in {0, 1} /\ Held(r, g) \in {0, 1} /\ Lim(r, g) \in {0, 1}
  BY TokenTerms
<1>4. Lim(r, g) = 1 /\ Held(r, g) = 0
  BY <1>1, <1>2, <1>3 DEF Token
<1>5. frame[r].gen \in Nat
  BY DEF Typed, Kinds, FrameRec
<1>6. frame[r].loaded
  BY <1>4, <1>5 DEF Lim
<1>7. \A c \in Cards : card[c].st # "unmade" /\ card[c].host = r => card[c].gen # g
  BY <1>4 DEF Held
<1>8. \A c \in Cards : frame[r].realm # c
  BY <1>7, LinksMeans DEF Kept
<1>9. frame[r].realm \in Realms
  BY DEF Typed, Kinds, FrameRec
<1>10. frame[r].realm = 0 /\ frame[r].dispose = 0
  BY <1>8, <1>9, AnItem, LinksMeans DEF Ready
<1> QED  BY <1>6, <1>7, <1>8, <1>10

(* A frame's card is its own, of its load, and alive with it, until the    *)
(* frame closes.                                                           *)
LEMMA LinksKept ==
  ASSUME Typed, Shape, Resting, Tokens, Sourced, Links, BootJobs, Flags, Life, Kinds', Does
  PROVE  Links'
<1>1. ASSUME NEW r \in Realms, NEW s \in Srcs, SourceStep(r, s) PROVE Links'
  <2>1. On("source", r, s) /\ Top[1] = "source"
    BY <1>1, AtFacts DEF SourceStep, On
  <2>2. ~frame[r].loaded
    BY <2>1 DEF Sourced, At
  <2>3. \A c \in Cards : frame[r].realm # c
    BY <2>2, LinksMeans DEF Kept
  <2>4. frame[r].realm \in Realms
    BY DEF Typed, Kinds, FrameRec
  <2>5. frame[r].realm = 0 /\ frame[r].dispose = 0
    BY <2>3, <2>4, AnItem, LinksMeans DEF Ready
  <2>6. /\ card' = card /\ Others(r) /\ frame'[r].src = s
        /\ frame'[r].realm = 0 /\ frame'[r].dispose = 0
    BY <1>1, <2>5 DEF SourceStep
  <2>7. s # NoSrc
    BY DEF Typed, FramesAssumption
  <2>8. ASSUME NEW q \in Realms PROVE Ready(q)'
    <3>1. CASE q = r
      BY <2>6, <2>7, <3>1 DEF Ready
    <3>2. CASE q # r
      BY <2>6, <3>2, LinksMeans DEF Ready, Others
    <3> QED  BY <3>1, <3>2
  <2>9. ASSUME NEW q \in Realms, NEW c \in Cards, frame'[q].realm = c PROVE Kept(c, q)'
    <3>1. q # r
      BY <2>6, <2>9, AnItem
    <3>2. Kept(c, q) /\ frame'[q] = frame[q]
      BY <2>6, <2>9, <3>1, LinksMeans DEF Others
    <3> QED  BY <2>6, <3>2 DEF Kept, Alive
  <2> QED  BY <2>8, <2>9, LinksMeans
<1>2. ASSUME NEW r \in Realms, NEW s \in Srcs, SetSrcStep(r, s) PROVE Links'
  <2>1. SameFrames
    BY <1>2 DEF SetSrcStep, SameFrames, Others
  <2>2. \A k \in Cards : UNCHANGED <<card[k].host, card[k].gen, card[k].done, card[k].disposed, card[k].st>>
    BY SMTT(30), <1>2 DEF SetSrcStep, OtherCards
  <2> QED  BY <2>1, <2>2, LinksSame
<1>3. ASSUME NEW r \in Realms, NEW g \in Nat, StartStep(r, g) PROVE Links'
  <2>1. CASE UNCHANGED card /\ SameFrames
    BY SMTT(30), <2>1, LinksSame
  <2>2. CASE UNCHANGED card /\ ~SameFrames
    BY SMTT(30), <1>3, <2>2 DEF StartStep, SameFrames, Others
  <2>3. ASSUME NEW c \in Cards, g = frame[r].gen, card[c].st = "unmade", OtherCards(c),
               card'[c].st = "made", card'[c].host = r, card'[c].gen = g,
               UNCHANGED <<card[c].done, card[c].disposed>>,
               Others(r), frame'[r].realm = c,
               UNCHANGED <<frame[r].gen, frame[r].src, frame[r].loaded, frame[r].dispose>>
        PROVE  Links'
    <3>1. <<"start", r, g>> \in Within(stack)
      BY <1>3, AtFacts DEF StartStep
    <3>2. frame[r].loaded /\ frame[r].dispose = 0
      BY <2>3, <3>1, StartFree
    <3>3. card[c].done = "none" /\ ~card[c].disposed
      BY <2>3 DEF Typed, Made, Flags
    <3>4. ASSUME NEW q \in Realms PROVE Ready(q)'
      <4>1. CASE q = r
        BY <2>3, <3>2, <4>1, LinksMeans DEF Ready
      <4>2. CASE q # r
        BY <2>3, <4>2, LinksMeans DEF Ready, Others
      <4> QED  BY <4>1, <4>2
    <3>5. ASSUME NEW q \in Realms, NEW k \in Cards, frame'[q].realm = k PROVE Kept(k, q)'
      <4>1. CASE q = r
        <5>1. k = c
          BY <2>3, <3>5, <4>1
        <5>2. Alive(c)' /\ c # 0
          BY <2>3, AnItem DEF Alive
        <5> QED  BY <2>3, <3>2, <3>3, <4>1, <5>1, <5>2 DEF Kept
      <4>2. CASE q # r
        <5>1. Kept(k, q) /\ frame'[q] = frame[q]
          BY <2>3, <3>5, <4>2, LinksMeans DEF Others
        <5>2. k # c /\ card'[k] = card[k]
          BY <2>3, <5>1 DEF Kept, OtherCards
        <5>3. q # c
          <6>1. card[k].st # "unmade" /\ card[k].host = q
            BY <5>1 DEF Kept
          <6>2. q = Page \/ card[q].st # "unmade"
            BY <6>1 DEF Life
          <6> QED  BY <2>3, <6>2, AnItem DEF Page
        <5>4. Alive(q)' => Alive(q)
          <6>1. q # Page => q \in Cards /\ card'[q] = card[q]
            BY <2>3, <5>3, AnItem DEF OtherCards, Page
          <6> QED  BY <6>1 DEF Alive
        <5> QED  BY <5>1, <5>2, <5>4 DEF Kept, Alive
      <4> QED  BY <4>1, <4>2
    <3> QED  BY <3>4, <3>5, LinksMeans
  <2> QED  BY <1>3, <2>1, <2>2, <2>3 DEF StartStep
<1>4. ASSUME NEW r \in Realms, NEW g \in Nat, RunStartStep(r, g) PROVE Links'
  <2>1. SameFrames
    BY <1>4 DEF RunStartStep, SameFrames, Others
  <2>2. \A k \in Cards : UNCHANGED <<card[k].host, card[k].gen, card[k].done, card[k].disposed, card[k].st>>
    BY <1>4 DEF RunStartStep, OtherCards
  <2> QED  BY <2>1, <2>2, LinksSame
<1>5. ASSUME NEW r \in Realms, NEW g \in Nat, FetchStep(r, g) PROVE Links'
  <2>1. SameFrames
    BY <1>5 DEF FetchStep, SameFrames, Others
  <2>2. \A k \in Cards : UNCHANGED <<card[k].host, card[k].gen, card[k].done, card[k].disposed, card[k].st>>
    BY <1>5 DEF FetchStep, OtherCards
  <2> QED  BY <2>1, <2>2, LinksSame
<1>6. ASSUME NEW r \in Realms, NEW d \in Conts, d = "frames" => r \in Cards, CloseStep(r, d) PROVE Links'
  <2>1. /\ Others(r) /\ UNCHANGED frame[r].src /\ ~frame'[r].loaded
        /\ frame'[r].dispose = 0 /\ frame'[r].realm = 0
    BY <1>6 DEF CloseStep
  <2>2. ASSUME NEW q \in Realms PROVE Ready(q)'
    <3>1. CASE q = r
      BY <2>1, <3>1 DEF Ready
    <3>2. CASE q # r
      BY <2>1, <3>2, LinksMeans DEF Ready, Others
    <3> QED  BY <3>1, <3>2
  <2>3. ASSUME NEW q \in Realms, NEW c \in Cards, frame'[q].realm = c PROVE Kept(c, q)'
    <3>1. q # r
      BY <2>1, <2>3, AnItem
    <3>2. Kept(c, q) /\ frame'[q] = frame[q]
      BY <2>1, <2>3, <3>1, LinksMeans DEF Others
    <3>3. frame[r].dispose # c
      BY <3>1, <3>2 DEF Kept, Typed, Made
    <3>4. card'[c] = card[c]
      BY <1>6, <3>3 DEF CloseStep, OtherCards
    <3>5. \A k \in Cards : card'[k].st = card[k].st
      BY <1>6 DEF CloseStep, OtherCards
    <3>6. q # Page => q \in Cards
      BY AnItem DEF Page
    <3>7. (Alive(q)' => Alive(q)) /\ (Alive(c) => Alive(c)')
      BY <3>5, <3>6 DEF Alive
    <3> QED  BY <3>2, <3>4, <3>7 DEF Kept
  <2> QED  BY <2>2, <2>3, LinksMeans
<1>7. ASSUME NEW r \in Realms, ResetStep(r) PROVE Links'
  <2>1. SameFrames
    BY <1>7 DEF ResetStep, SameFrames, Others
  <2>2. \A k \in Cards : UNCHANGED <<card[k].host, card[k].gen, card[k].done, card[k].disposed, card[k].st>>
    BY <1>7 DEF ResetStep, OtherCards
  <2> QED  BY <2>1, <2>2, LinksSame
<1>8. ASSUME NEW r \in Realms, IdleStep(r) PROVE Links'
  <2>1. SameFrames
    BY <1>8 DEF IdleStep, SameFrames, Others
  <2>2. \A k \in Cards : UNCHANGED <<card[k].host, card[k].gen, card[k].done, card[k].disposed, card[k].st>>
    BY <1>8 DEF IdleStep, OtherCards
  <2> QED  BY <2>1, <2>2, LinksSame
<1>9. ASSUME NEW r \in Realms, HearStep(r) PROVE Links'
  <2>1. SameFrames
    BY <1>9 DEF HearStep, SameFrames, Others
  <2>2. \A k \in Cards : UNCHANGED <<card[k].host, card[k].gen, card[k].done, card[k].disposed, card[k].st>>
    BY <1>9 DEF HearStep, OtherCards
  <2> QED  BY <2>1, <2>2, LinksSame
<1>10. ASSUME NEW r \in Realms, MoveStep(r) PROVE Links'
  <2>1. SameFrames
    BY <1>10 DEF MoveStep, SameFrames, Others
  <2>2. \A k \in Cards : UNCHANGED <<card[k].host, card[k].gen, card[k].done, card[k].disposed, card[k].st>>
    BY <1>10 DEF MoveStep, OtherCards
  <2> QED  BY <2>1, <2>2, LinksSame
<1>11. ASSUME NEW c \in Cards, BootStep(c) PROVE Links'
  <2>1. /\ card[c].st = "made"
        /\ (Current(c) => frame[card[c].host].realm = c /\ frame[card[c].host].dispose = 0)
    BY <1>11 DEF BootStep, BootJobs
  <2>2. \A q \in Realms : /\ UNCHANGED <<frame[q].gen, frame[q].src, frame[q].loaded, frame[q].realm>>
                          /\ frame'[q].dispose = IF q = card[c].host /\ Current(c) THEN c
                                                 ELSE frame[q].dispose
    BY <1>11 DEF BootStep, SameLoads
  <2>3. /\ OtherCards(c)
        /\ UNCHANGED <<card[c].host, card[c].gen, card[c].disposed, card[c].done>>
        /\ IF Current(c) THEN card'[c].st \in {"refused", "booting"} ELSE UNCHANGED card
    BY <1>11 DEF BootStep
  <2>4. \A q \in Realms : Ready(q)'
    BY <2>1, <2>2, LinksMeans DEF Ready
  <2>5. \A k \in Realms : Alive(k)' <=> Alive(k)
    <3>1. \A k \in Cards : card'[k].st \in {"unmade", "freed"} <=> card[k].st \in {"unmade", "freed"}
      BY <2>1, <2>3 DEF OtherCards
    <3>2. \A k \in Realms : k # Page => k \in Cards
      BY AnItem DEF Page
    <3> QED  BY <3>1, <3>2 DEF Alive
  <2>6. ASSUME NEW q \in Realms, NEW k \in Cards, frame'[q].realm = k PROVE Kept(k, q)'
    <3>1. Kept(k, q)
      BY <2>2, <2>6, LinksMeans
    <3>2. Alive(q)' => Alive(k)'
      BY <2>5, <3>1, AnItem DEF Kept
    <3>3. CASE k = c /\ Current(c)
      <4>1. card'[k].st \in {"refused", "booting"}
        BY <2>3, <3>3
      <4> QED  BY <2>2, <2>3, <3>1, <3>2, <3>3, <4>1 DEF Kept
    <3>4. CASE k = c /\ ~Current(c)
      BY <2>2, <2>3, <3>1, <3>2, <3>4 DEF Kept
    <3>5. CASE k # c
      <4>1. card'[k] = card[k] /\ card[k].host = q
        BY <2>3, <3>1, <3>5 DEF OtherCards, Kept
      <4>2. frame'[q].dispose = k => frame[q].dispose = k
        BY <2>2, <3>5
      <4> QED  BY <2>2, <3>1, <3>2, <4>1, <4>2 DEF Kept
    <3> QED  BY <3>3, <3>4, <3>5
  <2> QED  BY <2>4, <2>6, LinksMeans
<1>12. ASSUME NEW c \in Cards, LoadedStep(c) PROVE Links'
  <2>1. UNCHANGED frame /\ OtherCards(c)
        /\ UNCHANGED <<card[c].host, card[c].gen, card[c].disposed, card[c].done>>
        /\ card'[c].st \in {"refused", "booted"}
    BY <1>12 DEF LoadedStep
  <2>2. Alive(c) /\ c # 0
    <3>1. <<"loading", c, 0>> \in Within(stack)
      BY <1>12, AtFacts DEF LoadedStep
    <3>2. <<"loading", c, 0>>[2] = c
      OBVIOUS
    <3> QED  BY <3>1, <3>2, AnItem DEF Life
  <2>3. \A k \in Realms : Alive(k)' <=> Alive(k)
    <3>1. \A k \in Cards : card'[k].st \in {"unmade", "freed"} <=> card[k].st \in {"unmade", "freed"}
      BY <2>1, <2>2 DEF OtherCards, Alive, Page
    <3>2. \A k \in Realms : k # Page => k \in Cards
      BY AnItem DEF Page
    <3> QED  BY <3>1, <3>2 DEF Alive
  <2>4. \A q \in Realms : Ready(q)'
    BY <2>1, LinksMeans DEF Ready
  <2>5. ASSUME NEW q \in Realms, NEW k \in Cards, frame'[q].realm = k PROVE Kept(k, q)'
    <3>1. Kept(k, q)
      BY <2>1, <2>5, LinksMeans
    <3>2. Alive(q)' => Alive(k)'
      BY <2>3, <3>1, AnItem DEF Kept
    <3>3. CASE k = c
      BY <2>1, <3>1, <3>2, <3>3 DEF Kept
    <3>4. CASE k # c
      BY <2>1, <3>1, <3>2, <3>4 DEF Kept, OtherCards
    <3> QED  BY <3>3, <3>4
  <2> QED  BY <2>4, <2>5, LinksMeans
<1>13. ASSUME NEW c \in Cards, DisposeStep(c) PROVE Links'
  <2>1. UNCHANGED frame /\ OtherCards(c) /\ card'[c].st = card[c].st
    BY SMTT(30), <1>13 DEF DisposeStep
  <2>2. card[c].done # "none"
    BY <1>13 DEF DisposeStep, Flags
  <2>3. \A q \in Realms : Ready(q)'
    BY <2>1, LinksMeans DEF Ready
  <2>4. ASSUME NEW q \in Realms, NEW k \in Cards, frame'[q].realm = k PROVE Kept(k, q)'
    <3>1. Kept(k, q)
      BY <2>1, <2>4, LinksMeans
    <3>2. k # c /\ card'[k] = card[k]
      BY <2>1, <2>2, <3>1 DEF Kept, OtherCards
    <3>3. \A z \in Cards : card'[z].st = card[z].st
      BY <2>1 DEF OtherCards
    <3>4. q # Page => q \in Cards
      BY AnItem DEF Page
    <3>5. (Alive(q)' => Alive(q)) /\ (Alive(k) => Alive(k)')
      BY <3>3, <3>4 DEF Alive
    <3> QED  BY <2>1, <3>1, <3>2, <3>5 DEF Kept
  <2> QED  BY <2>3, <2>4, LinksMeans
<1>14. ASSUME NEW c \in Cards, OwingStep(c) PROVE Links'
  <2>1. SameFrames
    BY <1>14 DEF OwingStep, SameFrames, Others
  <2>2. \A k \in Cards : UNCHANGED <<card[k].host, card[k].gen, card[k].done, card[k].disposed, card[k].st>>
    BY <1>14 DEF OwingStep, OtherCards
  <2> QED  BY <2>1, <2>2, LinksSame
<1>15. ASSUME NEW c \in Cards, FramesStep(c) PROVE Links'
  <2>1. SameFrames
    BY <1>15 DEF FramesStep, SameFrames, Others
  <2>2. \A k \in Cards : UNCHANGED <<card[k].host, card[k].gen, card[k].done, card[k].disposed, card[k].st>>
    BY <1>15 DEF FramesStep, OtherCards
  <2> QED  BY <2>1, <2>2, LinksSame
<1>16. ASSUME NEW c \in Cards, RecordsStep(c) PROVE Links'
  <2>1. SameFrames
    BY <1>16 DEF RecordsStep, SameFrames, Others
  <2>2. \A k \in Cards : UNCHANGED <<card[k].host, card[k].gen, card[k].done, card[k].disposed, card[k].st>>
    BY <1>16 DEF RecordsStep, OtherCards
  <2> QED  BY <2>1, <2>2, LinksSame
<1>17. ASSUME NEW c \in Cards, ArriveStep(c) PROVE Links'
  <2>1. SameFrames
    BY <1>17 DEF ArriveStep, SameFrames, Others
  <2>2. \A k \in Cards : UNCHANGED <<card[k].host, card[k].gen, card[k].done, card[k].disposed, card[k].st>>
    BY <1>17 DEF ArriveStep, OtherCards
  <2> QED  BY <2>1, <2>2, LinksSame
<1>18. ASSUME NEW c \in Cards, FlushStep(c) PROVE Links'
  <2>1. SameFrames
    BY <1>18 DEF FlushStep, SameFrames, Others
  <2>2. \A k \in Cards : UNCHANGED <<card[k].host, card[k].gen, card[k].done, card[k].disposed, card[k].st>>
    BY <1>18 DEF FlushStep, OtherCards
  <2> QED  BY <2>1, <2>2, LinksSame
<1>19. ASSUME NEW c \in Cards, CloseRealmStep(c) PROVE Links'
  <2>1. SameFrames
    BY <1>19 DEF CloseRealmStep, SameFrames, Others
  <2>2. \A k \in Cards : UNCHANGED <<card[k].host, card[k].gen, card[k].done, card[k].disposed, card[k].st>>
    BY <1>19 DEF CloseRealmStep, OtherCards
  <2> QED  BY <2>1, <2>2, LinksSame
<1>20. ASSUME NEW c \in Cards, AckStep(c) PROVE Links'
  <2>1. SameFrames
    BY <1>20 DEF AckStep, SameFrames, Others
  <2>2. \A k \in Cards : UNCHANGED <<card[k].host, card[k].gen, card[k].done, card[k].disposed, card[k].st>>
    BY <1>20 DEF AckStep, OtherCards
  <2> QED  BY <2>1, <2>2, LinksSame
<1>21. ASSUME NEW c \in Cards, BtsStep(c) PROVE Links'
  <2>1. SameFrames
    BY <1>21 DEF BtsStep, SameFrames, Others
  <2>2. \A k \in Cards : UNCHANGED <<card[k].host, card[k].gen, card[k].done, card[k].disposed, card[k].st>>
    BY <1>21 DEF BtsStep, OtherCards
  <2> QED  BY <2>1, <2>2, LinksSame
<1>22. ASSUME NEW c \in Cards, ObserveStep(c) PROVE Links'
  <2>1. SameFrames
    BY <1>22 DEF ObserveStep, SameFrames, Others
  <2>2. \A k \in Cards : UNCHANGED <<card[k].host, card[k].gen, card[k].done, card[k].disposed, card[k].st>>
    BY <1>22 DEF ObserveStep, OtherCards
  <2> QED  BY <2>1, <2>2, LinksSame
<1>23. CASE HeardStep
  <2>1. UNCHANGED frame
    BY <1>23 DEF HeardStep
  <2>2. CASE UNCHANGED card
    BY <2>1, <2>2, LinksSame DEF SameFrames
  <2>3. CASE Freeing(flying)
    BY <2>1, <2>3, FreeingLinks
  <2> QED  BY <1>23, <2>2, <2>3 DEF HeardStep
<1>24. CASE EpilogueStep
  BY <1>24, FreeingLinks DEF EpilogueStep
<1>25. CASE OpenStep
  <2>1. SameFrames
    BY <1>25 DEF OpenStep, SameFrames, Others
  <2>2. \A k \in Cards : UNCHANGED <<card[k].host, card[k].gen, card[k].done, card[k].disposed, card[k].st>>
    BY <1>25 DEF OpenStep, OtherCards
  <2> QED  BY <2>1, <2>2, LinksSame
<1>26. CASE OpenEventsStep
  <2>1. SameFrames
    BY <1>26 DEF OpenEventsStep, SameFrames, Others
  <2>2. \A k \in Cards : UNCHANGED <<card[k].host, card[k].gen, card[k].done, card[k].disposed, card[k].st>>
    BY <1>26 DEF OpenEventsStep, OtherCards
  <2> QED  BY <2>1, <2>2, LinksSame
<1>27. CASE OpenRecordsStep
  <2>1. SameFrames
    BY <1>27 DEF OpenRecordsStep, SameFrames, Others
  <2>2. \A k \in Cards : UNCHANGED <<card[k].host, card[k].gen, card[k].done, card[k].disposed, card[k].st>>
    BY <1>27 DEF OpenRecordsStep, OtherCards
  <2> QED  BY <2>1, <2>2, LinksSame
<1>28. CASE RecordStep
  <2>1. SameFrames
    BY <1>28 DEF RecordStep, SameFrames, Others
  <2>2. \A k \in Cards : UNCHANGED <<card[k].host, card[k].gen, card[k].done, card[k].disposed, card[k].st>>
    BY <1>28 DEF RecordStep, OtherCards
  <2> QED  BY <2>1, <2>2, LinksSame
<1>29. CASE BeginStep
  <2>1. SameFrames
    BY <1>29 DEF BeginStep, SameFrames, Others
  <2>2. \A k \in Cards : UNCHANGED <<card[k].host, card[k].gen, card[k].done, card[k].disposed, card[k].st>>
    BY <1>29 DEF BeginStep, OtherCards
  <2> QED  BY <2>1, <2>2, LinksSame
<1> QED  BY <1>1, <1>2, <1>3, <1>4, <1>5, <1>6, <1>7, <1>8, <1>9, <1>10, <1>11, <1>12, <1>13,
            <1>14, <1>15, <1>16, <1>17, <1>18, <1>19, <1>20, <1>21, <1>22, <1>23, <1>24, <1>25,
            <1>26, <1>27, <1>28, <1>29 DEF Does
=============================================================================
