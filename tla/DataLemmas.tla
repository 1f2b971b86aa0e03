----------------------------- MODULE DataLemmas -----------------------------
(***************************************************************************)
(* What the proofs of several components need to know of the data that     *)
(* their states are made of: numbers, queues and sets.                     *)
(***************************************************************************)
EXTENDS Integers, Sequences, FiniteSets, FiniteSetsExt, SequencesExt, SequenceTheorems,
        FiniteSetTheorems, WellFoundedInduction, TLAPS

-----------------------------------------------------------------------------
(* The least and the greatest of a set of numbers. *)

\* The least element of a set of numbers is one of them.
LEMMA MinNat ==
  ASSUME NEW S, S \subseteq Nat, S # {}
  PROVE  Min(S) \in S /\ \A y \in S : Min(S) <= y
<1>1. PICK x \in S : \A y \in S : <<y, x>> \notin OpToRel(<, Nat)
  BY WFMin, NatLessThanWellFounded
<1>2. ASSUME NEW y \in S, y < x PROVE FALSE
  <2>1. <<y, x>> \in Nat \X Nat
    OBVIOUS
  <2>2. <<y, x>>[1] < <<y, x>>[2]
    BY <1>2
  <2>3. <<y, x>> \in OpToRel(<, Nat)
    BY <2>1, <2>2, Zenon DEF OpToRel
  <2> QED
    BY <1>1, <2>3, Zenon
<1>3. \A y \in S : x <= y
  BY <1>2
<1> QED
  BY <1>3 DEF Min

\* The greatest element of a set of numbers with a bound is one of them.
LEMMA MaxNat ==
  ASSUME NEW S, NEW n \in Nat, S \subseteq 0 .. n, S # {}
  PROVE  Max(S) \in S /\ \A y \in S : y <= Max(S)
<1> DEFINE T == {m \in 0 .. n : n - m \in S}
<1>1. T \subseteq Nat /\ T # {}
  <2>1. PICK x \in S : TRUE
    OBVIOUS
  <2>2. n - x \in 0 .. n /\ n - (n - x) = x
    BY <2>1
  <2>3. n - x \in T
    BY <2>2
  <2>4. T \subseteq Nat
    OBVIOUS
  <2> HIDE DEF T
  <2> QED
    BY <2>3, <2>4
<1>2. Min(T) \in T /\ \A y \in T : Min(T) <= y
  BY <1>1, MinNat
<1>3. n - Min(T) \in S
  BY <1>2
<1>4. ASSUME NEW y \in S PROVE n - Min(T) >= y
  <2>1. n - y \in 0 .. n /\ n - (n - y) = y
    OBVIOUS
  <2>2. n - y \in T
    BY <2>1
  <2>3. Min(T) <= n - y
    BY <1>2, <2>2
  <2> QED
    BY <1>2, <2>1, <2>3
<1> QED
  BY <1>3, <1>4 DEF Max

\* The lesser of two integers is one of them.
LEMMA MinPair ==
  ASSUME NEW a \in Int, NEW b \in Int
  PROVE  Min({a, b}) \in Int
<1>1. \E x \in {a, b} : \A y \in {a, b} : x <= y
  OBVIOUS
<1> QED
  BY <1>1 DEF Min

\* Induction over the numbers, for the set of those that have a property.
LEMMA NatInductionSet ==
  ASSUME NEW S, 0 \in S, \A n \in Nat : n \in S => n + 1 \in S
  PROVE  Nat \subseteq S
<1> DEFINE T == {n \in Nat : n \notin S}
<1> SUFFICES ASSUME T # {} PROVE FALSE
  OBVIOUS
<1>1. T \subseteq Nat
  OBVIOUS
<1>2. Min(T) \in T /\ \A y \in T : Min(T) <= y
  <2> HIDE DEF T
  <2> QED
    BY <1>1, MinNat
<1>3. PICK n \in Nat : n \notin S /\ \A y \in Nat : y \notin S => n <= y
  BY <1>2
<1>4. n # 0 /\ n - 1 \in Nat /\ (n - 1) + 1 = n /\ ~(n <= n - 1)
  BY <1>3
<1>5. n - 1 \in S
  BY <1>3, <1>4
<1> QED
  BY <1>3, <1>4, <1>5

-----------------------------------------------------------------------------
(* Queues: what occurs in them. *)

Occurs(x, q) == \E i \in DOMAIN q : q[i] = x
NoDuplicates(q) == \A i, j \in DOMAIN q : q[i] = q[j] => i = j

LEMMA TailQueue ==
  ASSUME NEW S, NEW q \in Seq(S), q # <<>>, NoDuplicates(q)
  PROVE  /\ Tail(q) \in Seq(S) /\ NoDuplicates(Tail(q))
         /\ Head(q) \in S /\ Occurs(Head(q), q)
         /\ \A x : Occurs(x, Tail(q)) <=> Occurs(x, q) /\ x # Head(q)
<1>1. /\ Len(q) \in Nat \ {0} /\ DOMAIN q = 1 .. Len(q)
      /\ Head(q) = q[1] /\ Tail(q) \in Seq(S) /\ Len(Tail(q)) = Len(q) - 1
      /\ \A i \in 1 .. Len(Tail(q)) : Tail(q)[i] = q[i + 1]
  BY EmptySeq, LenProperties, HeadTailProperties
<1>2. DOMAIN Tail(q) = 1 .. Len(q) - 1
  BY <1>1, LenProperties
<1>3. NoDuplicates(Tail(q))
  <2> SUFFICES ASSUME NEW i \in 1 .. Len(q) - 1, NEW j \in 1 .. Len(q) - 1,
                      Tail(q)[i] = Tail(q)[j]
               PROVE  i = j
    BY <1>2 DEF NoDuplicates
  <2>1. q[i + 1] = q[j + 1] /\ i + 1 \in DOMAIN q /\ j + 1 \in DOMAIN q
    BY <1>1
  <2>2. i + 1 = j + 1
    BY <2>1 DEF NoDuplicates
  <2> QED
    BY <2>2
<1>4. Head(q) \in S /\ Occurs(Head(q), q)
  BY <1>1 DEF Occurs
<1>5. ASSUME NEW x PROVE Occurs(x, Tail(q)) <=> Occurs(x, q) /\ x # Head(q)
  <2>1. ASSUME Occurs(x, Tail(q)) PROVE Occurs(x, q) /\ x # Head(q)
    <3>1. PICK i \in 1 .. Len(q) - 1 : Tail(q)[i] = x
      BY <1>2, <2>1 DEF Occurs
    <3>2. i + 1 \in DOMAIN q /\ q[i + 1] = x /\ 1 \in DOMAIN q /\ i + 1 # 1
      BY <1>1, <3>1
    <3>3. q[1] # x
      BY <3>2 DEF NoDuplicates
    <3> QED
      BY <1>1, <3>2, <3>3 DEF Occurs
  <2>2. ASSUME Occurs(x, q), x # Head(q) PROVE Occurs(x, Tail(q))
    <3>1. PICK i \in 1 .. Len(q) : q[i] = x
      BY <1>1, <2>2 DEF Occurs
    <3>2. i # 1
      BY <1>1, <2>2, <3>1, Zenon
    <3>3. i - 1 \in DOMAIN Tail(q) /\ Tail(q)[i - 1] = x
      BY <1>1, <1>2, <3>1, <3>2
    <3> QED
      BY <3>3 DEF Occurs
  <2> QED
    BY <2>1, <2>2
<1> QED
  BY <1>1, <1>3, <1>4, <1>5

\* A sequence of more than one element has a tail.
LEMMA TailOfLonger ==
  ASSUME NEW S, NEW q \in Seq(S), Len(q) > 1
  PROVE  q # <<>> /\ Tail(q) \in Seq(S) /\ Tail(q) # <<>>
<1>1. Len(q) \in Nat /\ q # <<>>
  BY LenProperties, EmptySeq
<1>2. Tail(q) \in Seq(S) /\ Len(Tail(q)) = Len(q) - 1
  BY <1>1, HeadTailProperties
<1>3. \A n \in Nat : n > 1 => n - 1 # 0
  OBVIOUS
<1>4. Len(<<>>) = 0
  BY EmptySeq
<1> QED
  BY <1>1, <1>2, <1>3, <1>4, Zenon

\* A sequence of one element has none.
LEMMA TailOfOne ==
  ASSUME NEW S, NEW q \in Seq(S), q # <<>>, ~(Len(q) > 1)
  PROVE  Tail(q) = <<>>
<1>1. Len(q) \in Nat \ {0}
  BY EmptySeq
<1>2. Tail(q) \in Seq(S) /\ Len(Tail(q)) = Len(q) - 1
  BY HeadTailProperties
<1>3. \A n \in Nat \ {0} : ~(n > 1) => n - 1 = 0
  OBVIOUS
<1> QED
  BY <1>1, <1>2, <1>3, EmptySeq

LEMMA AppendQueue ==
  ASSUME NEW S, NEW q \in Seq(S), NEW e \in S, NoDuplicates(q), ~Occurs(e, q)
  PROVE  /\ Append(q, e) \in Seq(S) /\ NoDuplicates(Append(q, e))
         /\ Append(q, e) # <<>>
         /\ \A x : Occurs(x, Append(q, e)) <=> Occurs(x, q) \/ x = e
<1> DEFINE r == Append(q, e)
<1>1. /\ Len(q) \in Nat /\ DOMAIN q = 1 .. Len(q) /\ r \in Seq(S)
      /\ Len(r) = Len(q) + 1 /\ DOMAIN r = 1 .. Len(q) + 1
      /\ r[Len(q) + 1] = e /\ r # <<>>
      /\ \A i \in 1 .. Len(q) : r[i] = q[i]
  BY LenProperties, AppendProperties
<1> HIDE DEF r
<1>2. ASSUME NEW i \in DOMAIN r PROVE (i \in DOMAIN q /\ r[i] = q[i]) \/ (i = Len(q) + 1)
  BY <1>1
<1>3. NoDuplicates(r)
  BY <1>1, <1>2 DEF NoDuplicates, Occurs
<1>4. \A x : Occurs(x, r) <=> Occurs(x, q) \/ x = e
  BY <1>1, <1>2 DEF Occurs
<1> QED
  BY <1>1, <1>3, <1>4 DEF r

\* The elements of a queue when its front leaves it, and when one joins it.
LEMMA HeadTailSet ==
  ASSUME NEW S, NEW q \in Seq(S), q # <<>>
  PROVE  /\ Tail(q) \in Seq(S) /\ Head(q) \in S
         /\ Head(q) \in ToSet(q) /\ ToSet(Tail(q)) \subseteq ToSet(q)
<1>1. /\ Len(q) \in Nat \ {0} /\ DOMAIN q = 1 .. Len(q)
      /\ Head(q) = q[1] /\ Head(q) \in S
      /\ Tail(q) \in Seq(S) /\ Len(Tail(q)) = Len(q) - 1
      /\ \A i \in 1 .. Len(Tail(q)) : Tail(q)[i] = q[i + 1]
  BY EmptySeq, LenProperties, HeadTailProperties
<1>2. DOMAIN Tail(q) = 1 .. Len(q) - 1
  BY <1>1, LenProperties
<1>3. \A i \in 1 .. Len(q) - 1 : i + 1 \in 1 .. Len(q) /\ Tail(q)[i] = q[i + 1]
  BY <1>1
<1>4. 1 \in 1 .. Len(q)
  BY <1>1
<1> QED
  BY <1>1, <1>2, <1>3, <1>4 DEF ToSet

LEMMA AppendSet ==
  ASSUME NEW S, NEW q \in Seq(S), NEW e \in S
  PROVE  Append(q, e) \in Seq(S) /\ ToSet(Append(q, e)) = ToSet(q) \cup {e}
<1> DEFINE r == Append(q, e)
<1>1. /\ Len(q) \in Nat /\ DOMAIN q = 1 .. Len(q) /\ r \in Seq(S)
      /\ DOMAIN r = 1 .. Len(q) + 1 /\ r[Len(q) + 1] = e
      /\ \A i \in 1 .. Len(q) : r[i] = q[i]
  BY LenProperties, AppendProperties
<1>2. \A i \in 1 .. Len(q) + 1 : i \in 1 .. Len(q) \/ i = Len(q) + 1
  BY <1>1
<1> HIDE DEF r
<1>3. ToSet(r) = ToSet(q) \cup {e}
  BY <1>1, <1>2 DEF ToSet
<1> QED
  BY <1>1, <1>3 DEF r

\* RemoveAt() takes out exactly one element.
LEMMA RemoveAtProperties ==
  ASSUME NEW S, NEW s \in Seq(S), NEW i \in 1 .. Len(s)
  PROVE  /\ RemoveAt(s, i) \in Seq(S)
         /\ Len(RemoveAt(s, i)) = Len(s) - 1
         /\ \A j \in 1 .. Len(s) - 1 :
              RemoveAt(s, i)[j] = IF j < i THEN s[j] ELSE s[j + 1]
<1> DEFINE a == SubSeq(s, 1, i - 1)
           b == SubSeq(s, i + 1, Len(s))
<1>0. Len(s) \in Nat
  BY LenProperties
<1>1. \A j \in 1 .. Len(s) : s[j] \in S
  BY ElementOfSeq
<1>2. /\ a \in Seq(S) /\ Len(a) = i - 1
      /\ \A j \in 1 .. i - 1 : a[j] = s[j]
  <2>1. \A j \in 1 .. i - 1 : s[j] \in S
    BY <1>0, <1>1
  <2>2. /\ a \in Seq(S)
        /\ Len(a) = IF 1 <= i - 1 THEN (i - 1) - 1 + 1 ELSE 0
        /\ \A j \in 1 .. (i - 1) - 1 + 1 : a[j] = s[1 + j - 1]
    BY <1>0, <2>1, SubSeqProperties
  <2> QED
    BY <1>0, <2>2
<1>3. /\ b \in Seq(S) /\ Len(b) = Len(s) - i
      /\ \A j \in 1 .. Len(s) - i : b[j] = s[i + j]
  <2>1. \A j \in i + 1 .. Len(s) : s[j] \in S
    BY <1>0, <1>1
  <2>2. /\ b \in Seq(S)
        /\ Len(b) = IF i + 1 <= Len(s) THEN Len(s) - (i + 1) + 1 ELSE 0
        /\ \A j \in 1 .. Len(s) - (i + 1) + 1 : b[j] = s[(i + 1) + j - 1]
    BY <1>0, <2>1, SubSeqProperties
  <2> QED
    BY <1>0, <2>2
<1> HIDE DEF a, b
<1>4. /\ a \o b \in Seq(S)
      /\ Len(a \o b) = Len(a) + Len(b)
      /\ \A j \in 1 .. Len(a) + Len(b) :
           (a \o b)[j] = IF j <= Len(a) THEN a[j] ELSE b[j - Len(a)]
  BY <1>2, <1>3, ConcatProperties
<1>5. \A j \in 1 .. Len(s) - 1 :
        (a \o b)[j] = IF j < i THEN s[j] ELSE s[j + 1]
  BY <1>0, <1>2, <1>3, <1>4
<1>6. RemoveAt(s, i) = a \o b
  BY DEF RemoveAt, a, b
<1>7. Len(a \o b) = Len(s) - 1
  BY <1>0, <1>2, <1>3, <1>4
<1> QED
  BY <1>4, <1>5, <1>6, <1>7, Zenon

\* A queue from whose middle an element is taken, by its place or by its value.
LEMMA RemoveQueue ==
  ASSUME NEW S, NEW q \in Seq(S), NoDuplicates(q), NEW k \in DOMAIN q
  PROVE  /\ RemoveAt(q, k) \in Seq(S) /\ NoDuplicates(RemoveAt(q, k))
         /\ Len(RemoveAt(q, k)) = Len(q) - 1
         /\ q[k] \in S
         /\ \A x : Occurs(x, RemoveAt(q, k)) <=> Occurs(x, q) /\ x # q[k]
<1> DEFINE r == RemoveAt(q, k)
<1>1. Len(q) \in Nat /\ DOMAIN q = 1 .. Len(q) /\ k \in 1 .. Len(q) /\ q[k] \in S
  BY LenProperties, ElementOfSeq
<1>2. /\ r \in Seq(S) /\ Len(r) = Len(q) - 1
      /\ \A j \in 1 .. Len(q) - 1 : r[j] = IF j < k THEN q[j] ELSE q[j + 1]
  BY <1>1, RemoveAtProperties
<1>3. DOMAIN r = 1 .. Len(q) - 1
  BY <1>2, LenProperties
<1> HIDE DEF r
<1>4. NoDuplicates(r)
  <2> SUFFICES ASSUME NEW i \in 1 .. Len(q) - 1, NEW j \in 1 .. Len(q) - 1, r[i] = r[j]
               PROVE  i = j
    BY <1>3 DEF NoDuplicates
  <2> DEFINE back(n) == IF n < k THEN n ELSE n + 1
  <2>1. /\ back(i) \in DOMAIN q /\ q[back(i)] = r[i]
        /\ back(j) \in DOMAIN q /\ q[back(j)] = r[j]
    BY <1>1, <1>2
  <2>2. back(i) = back(j)
    <3> HIDE DEF back
    <3> QED
      BY <2>1 DEF NoDuplicates
  <2> QED
    BY <1>1, <2>2
<1>5. ASSUME NEW x PROVE Occurs(x, r) <=> Occurs(x, q) /\ x # q[k]
  <2>1. ASSUME Occurs(x, r) PROVE Occurs(x, q) /\ x # q[k]
    <3>1. PICK i \in 1 .. Len(q) - 1 : r[i] = x
      BY <1>3, <2>1 DEF Occurs
    <3> DEFINE j == IF i < k THEN i ELSE i + 1
    <3>2. j \in DOMAIN q /\ j # k /\ q[j] = x
      BY <1>1, <1>2, <3>1
    <3> HIDE DEF j
    <3>3. q[k] # x
      BY <1>1, <3>2 DEF NoDuplicates
    <3> QED
      BY <3>2, <3>3 DEF Occurs
  <2>2. ASSUME Occurs(x, q), x # q[k] PROVE Occurs(x, r)
    <3>1. PICK i \in 1 .. Len(q) : q[i] = x
      BY <1>1, <2>2 DEF Occurs
    <3>2. i # k
      BY <2>2, <3>1
    <3> DEFINE j == IF i < k THEN i ELSE i - 1
    <3>3. j \in 1 .. Len(q) - 1 /\ r[j] = x
      BY <1>1, <1>2, <3>1, <3>2
    <3> HIDE DEF j
    <3> QED
      BY <1>3, <3>3 DEF Occurs
  <2> QED
    BY <2>1, <2>2
<1> QED
  BY <1>1, <1>2, <1>4, <1>5 DEF r

LEMMA RemoveFirstQueue ==
  ASSUME NEW S, NEW q \in Seq(S), NoDuplicates(q), NEW e, Occurs(e, q)
  PROVE  /\ RemoveFirst(q, e) \in Seq(S) /\ NoDuplicates(RemoveFirst(q, e))
         /\ \A x : Occurs(x, RemoveFirst(q, e)) <=> Occurs(x, q) /\ x # e
<1> DEFINE places == {i \in 1 .. Len(q) : q[i] = e}
<1>1. DOMAIN q = 1 .. Len(q) /\ Len(q) \in Nat
  BY LenProperties
<1>2. places # {} /\ places \subseteq Nat
  BY <1>1 DEF Occurs
<1>3. Min(places) \in places
  BY <1>2, MinNat
<1>4. SelectInSeq(q, LAMBDA v : v = e) = Min(places)
  BY <1>2, Zenon DEF SelectInSeq
<1>5. \E i \in 1 .. Len(q) : q[i] = e
  BY <1>1, Zenon DEF Occurs
<1>6. RemoveFirst(q, e) = RemoveAt(q, Min(places))
  BY <1>4, <1>5, Zenon DEF RemoveFirst
<1>7. PICK k \in DOMAIN q : q[k] = e /\ RemoveFirst(q, e) = RemoveAt(q, k)
  BY <1>1, <1>3, <1>6
<1>8. /\ RemoveAt(q, k) \in Seq(S) /\ NoDuplicates(RemoveAt(q, k))
      /\ \A x : Occurs(x, RemoveAt(q, k)) <=> Occurs(x, q) /\ x # q[k]
  BY RemoveQueue
<1> QED
  BY <1>7, <1>8

\* Two queues that share nothing, one behind the other.
LEMMA ConcatQueue ==
  ASSUME NEW S, NEW q \in Seq(S), NEW r \in Seq(S), NoDuplicates(q), NoDuplicates(r),
         \A x : ~(Occurs(x, q) /\ Occurs(x, r))
  PROVE  /\ q \o r \in Seq(S) /\ NoDuplicates(q \o r)
         /\ \A x : Occurs(x, q \o r) <=> Occurs(x, q) \/ Occurs(x, r)
<1> DEFINE b == q \o r
<1>1. /\ Len(q) \in Nat /\ DOMAIN q = 1 .. Len(q)
      /\ Len(r) \in Nat /\ DOMAIN r = 1 .. Len(r)
  BY LenProperties
<1>2. /\ b \in Seq(S) /\ Len(b) = Len(q) + Len(r)
      /\ \A i \in 1 .. Len(q) + Len(r) : b[i] = IF i <= Len(q) THEN q[i] ELSE r[i - Len(q)]
  BY ConcatProperties
<1>3. DOMAIN b = 1 .. Len(q) + Len(r)
  BY <1>2, LenProperties
<1> HIDE DEF b
<1>4. ASSUME NEW i \in DOMAIN b
      PROVE  \/ i \in DOMAIN q /\ b[i] = q[i]
             \/ i - Len(q) \in DOMAIN r /\ b[i] = r[i - Len(q)] /\ i > Len(q)
  BY <1>1, <1>2, <1>3
<1>5. NoDuplicates(b)
  <2> SUFFICES ASSUME NEW i \in DOMAIN b, NEW j \in DOMAIN b, b[i] = b[j]
               PROVE  i = j
    BY DEF NoDuplicates
  <2>1. CASE i \in DOMAIN q /\ b[i] = q[i] /\ j \in DOMAIN q /\ b[j] = q[j]
    BY <2>1 DEF NoDuplicates
  <2>2. CASE /\ i - Len(q) \in DOMAIN r /\ b[i] = r[i - Len(q)]
             /\ j - Len(q) \in DOMAIN r /\ b[j] = r[j - Len(q)]
    <3>1. i - Len(q) = j - Len(q)
      BY <2>2 DEF NoDuplicates
    <3> QED
      BY <1>1, <1>3, <3>1
  <2>3. CASE /\ i \in DOMAIN q /\ b[i] = q[i]
             /\ j - Len(q) \in DOMAIN r /\ b[j] = r[j - Len(q)]
    BY <2>3 DEF Occurs
  <2>4. CASE /\ j \in DOMAIN q /\ b[j] = q[j]
             /\ i - Len(q) \in DOMAIN r /\ b[i] = r[i - Len(q)]
    BY <2>4 DEF Occurs
  <2> QED
    BY <1>4, <2>1, <2>2, <2>3, <2>4
<1>6. ASSUME NEW x PROVE Occurs(x, b) <=> Occurs(x, q) \/ Occurs(x, r)
  <2>1. Occurs(x, b) => Occurs(x, q) \/ Occurs(x, r)
    BY <1>4 DEF Occurs
  <2>2. ASSUME NEW i \in DOMAIN q PROVE i \in DOMAIN b /\ b[i] = q[i]
    BY <1>1, <1>2, <1>3
  <2>3. ASSUME NEW i \in DOMAIN r
        PROVE  i + Len(q) \in DOMAIN b /\ b[i + Len(q)] = r[i]
    BY <1>1, <1>2, <1>3
  <2> QED
    BY <2>1, <2>2, <2>3 DEF Occurs
<1> QED
  BY <1>2, <1>5, <1>6 DEF b

\* In a queue without duplicates, an element has at most one place.
LEMMA PlacesInQueue ==
  ASSUME NEW S, NEW q \in Seq(S), NoDuplicates(q), NEW x
  PROVE  Cardinality({i \in DOMAIN q : q[i] = x}) = IF Occurs(x, q) THEN 1 ELSE 0
<1>1. CASE Occurs(x, q)
  <2>1. PICK i \in DOMAIN q : q[i] = x
    BY <1>1 DEF Occurs
  <2>2. {j \in DOMAIN q : q[j] = x} = {i}
    BY <2>1 DEF NoDuplicates
  <2> QED
    BY <1>1, <2>2, FS_Singleton
<1>2. CASE ~Occurs(x, q)
  <2>1. {j \in DOMAIN q : q[j] = x} = {}
    BY <1>2 DEF Occurs
  <2> QED
    BY <1>2, <2>1, FS_EmptySet
<1> QED
  BY <1>1, <1>2

-----------------------------------------------------------------------------
(* Counting. *)

CountOf(q, x) == Cardinality({j \in DOMAIN q : q[j] = x})

\* Numbers that are all moved up by one keep their count.
LEMMA ShiftedCount ==
  ASSUME NEW A, NEW B, NEW d \in Nat, A \subseteq Nat, IsFiniteSet(A),
         B = {n \in Nat : n - d \in A}
  PROVE  IsFiniteSet(B) /\ Cardinality(B) = Cardinality(A)
<1> DEFINE f == [n \in A |-> n + d]
<1>1. f \in Bijection(A, B)
  <2>1. \A n \in A : n + d \in B
    OBVIOUS
  <2>2. f \in [A -> B]
    BY <2>1
  <2>3. \A a, b \in A : f[a] = f[b] => a = b
    OBVIOUS
  <2>4. \A n \in B : n - d \in A /\ f[n - d] = n
    OBVIOUS
  <2> HIDE DEF f
  <2>5. \A n \in B : \E a \in A : f[a] = n
    BY <2>4
  <2>6. f \in Injection(A, B) /\ f \in Surjection(A, B)
    BY <2>2, <2>3, <2>5 DEF Injection, Surjection, IsInjective
  <2> QED
    BY <2>6 DEF Bijection
<1>2. ExistsBijection(A, B)
  BY <1>1, Zenon DEF ExistsBijection
<1> QED
  BY <1>2, FS_Bijection

LEMMA CountIn ==
  ASSUME NEW S, NEW q \in Seq(S), NEW x
  PROVE  /\ IsFiniteSet({j \in DOMAIN q : q[j] = x})
         /\ CountOf(q, x) \in Nat
         /\ CountOf(q, x) # 0 <=> Occurs(x, q)
<1> DEFINE A == {j \in DOMAIN q : q[j] = x}
<1>1. IsFiniteSet(DOMAIN q)
  BY LenProperties, FS_Interval
<1>2. IsFiniteSet(A) /\ Cardinality(A) \in Nat
  BY <1>1, FS_Subset, FS_CardinalityType
<1>3. Cardinality(A) = 0 <=> A = {}
  BY <1>2, FS_EmptySet
<1>4. A = {} <=> ~Occurs(x, q)
  BY DEF Occurs
<1> QED
  BY <1>2, <1>3, <1>4 DEF CountOf

LEMMA CountAppend ==
  ASSUME NEW S, NEW q \in Seq(S), NEW e \in S, NEW x
  PROVE  CountOf(Append(q, e), x) = IF x = e THEN CountOf(q, x) + 1 ELSE CountOf(q, x)
<1> DEFINE r == Append(q, e)
           A == {j \in DOMAIN q : q[j] = x}
           B == {j \in DOMAIN r : r[j] = x}
<1>1. /\ Len(q) \in Nat /\ DOMAIN q = 1 .. Len(q)
      /\ DOMAIN r = 1 .. Len(q) + 1 /\ r[Len(q) + 1] = e
      /\ \A i \in 1 .. Len(q) : r[i] = q[i]
  BY LenProperties, AppendProperties
<1>2. IsFiniteSet(A) /\ Len(q) + 1 \notin A
  <2>1. IsFiniteSet(A)
    BY CountIn
  <2>2. Len(q) + 1 \notin DOMAIN q
    BY <1>1
  <2> QED
    BY <2>1, <2>2
<1> HIDE DEF r
<1>3. CASE x = e
  <2>1. B = A \cup {Len(q) + 1}
    BY <1>1, <1>3
  <2>2. Cardinality(B) = Cardinality(A) + 1
    BY <1>2, <2>1, FS_AddElement
  <2> QED
    BY <1>3, <2>2 DEF CountOf, r
<1>4. CASE x # e
  <2>1. B = A
    BY <1>1, <1>4
  <2> QED
    BY <1>4, <2>1 DEF CountOf, r
<1> QED
  BY <1>3, <1>4

LEMMA CountConcat ==
  ASSUME NEW S, NEW q \in Seq(S), NEW r \in Seq(S), NEW x
  PROVE  /\ q \o r \in Seq(S)
         /\ CountOf(q \o r, x) = CountOf(q, x) + CountOf(r, x)
<1> DEFINE b == q \o r
           A == {j \in DOMAIN q : q[j] = x}
           B == {j \in DOMAIN r : r[j] = x}
           C == {j \in Nat : j - Len(q) \in B}
           D == {j \in DOMAIN b : b[j] = x}
<1>1. /\ Len(q) \in Nat /\ DOMAIN q = 1 .. Len(q)
      /\ Len(r) \in Nat /\ DOMAIN r = 1 .. Len(r)
  BY LenProperties
<1>2. /\ b \in Seq(S) /\ Len(b) = Len(q) + Len(r)
      /\ \A i \in 1 .. Len(q) + Len(r) : b[i] = IF i <= Len(q) THEN q[i] ELSE r[i - Len(q)]
  BY ConcatProperties
<1>3. DOMAIN b = 1 .. Len(q) + Len(r)
  BY <1>2, LenProperties
<1> HIDE DEF b
<1>4. IsFiniteSet(A) /\ IsFiniteSet(B) /\ B \subseteq Nat
  <2>1. IsFiniteSet(A) /\ IsFiniteSet(B)
    BY CountIn
  <2>2. B \subseteq Nat
    BY <1>1
  <2> QED
    BY <2>1, <2>2
<1>5. IsFiniteSet(C) /\ Cardinality(C) = Cardinality(B)
  <2> HIDE DEF B
  <2> QED
    BY <1>1, <1>4, ShiftedCount
<1>6. D = A \cup C
  <2>1. \A j \in Nat : j \in D <=> j \in A \/ j \in C
    BY <1>1, <1>2, <1>3
  <2>2. A \subseteq Nat /\ C \subseteq Nat /\ D \subseteq Nat
    BY <1>1, <1>3
  <2> HIDE DEF A, C, D
  <2> QED
    BY <2>1, <2>2
<1>7. A \cap C = {}
  BY <1>1
<1>8. Cardinality(D) = Cardinality(A) + Cardinality(C) - 0
  <2> HIDE DEF A, C, D
  <2> QED
    BY <1>4, <1>5, <1>6, <1>7, FS_Union, FS_EmptySet
<1>9. Cardinality(A) \in Nat /\ Cardinality(B) \in Nat
  BY <1>4, FS_CardinalityType
<1>10. Cardinality(D) = Cardinality(A) + Cardinality(B)
  <2> HIDE DEF A, B, C, D
  <2> QED
    BY <1>5, <1>8, <1>9
<1> QED
  BY <1>2, <1>10, Zenon DEF CountOf, b

\* A set that can be told apart by the elements of another has no more than it.
LEMMA NoMoreThan ==
  ASSUME NEW A, NEW B, IsFiniteSet(B), NEW f \in [A -> B],
         \A x, y \in A : f[x] = f[y] => x = y
  PROVE  IsFiniteSet(A) /\ Cardinality(A) <= Cardinality(B)
<1>1. f \in Injection(A, B)
  BY DEF Injection, IsInjective
<1> QED
  BY <1>1, FS_Injection

\* A list in which no value comes up more than a number of times is not longer than
\* all its values allow.
LEMMA LengthBounded ==
  ASSUME NEW L \in Nat, NEW K \in Nat, NEW list \in Seq(1 .. L),
         \A x \in 1 .. L : CountOf(list, x) <= K
  PROVE  Len(list) <= L * K
<1> DEFINE A == DOMAIN list
           Same(k) == {j \in A : j <= k /\ list[j] = list[k]}
           B == (1 .. L) \X (1 .. K)
           f == [k \in A |-> <<list[k], Cardinality(Same(k))>>]
<1>1. Len(list) \in Nat /\ A = 1 .. Len(list) /\ \A k \in A : list[k] \in 1 .. L
  BY LenProperties, ElementOfSeq
<1>2. ASSUME NEW k \in A
      PROVE  /\ IsFiniteSet(Same(k)) /\ Cardinality(Same(k)) \in 1 .. K
  <2> DEFINE all == {j \in A : list[j] = list[k]}
  <2>1. IsFiniteSet(all) /\ Cardinality(all) <= K /\ Cardinality(all) \in Nat
    BY <1>1, CountIn DEF CountOf
  <2>2. Same(k) \subseteq all /\ k \in Same(k)
    BY <1>1
  <2> HIDE DEF all, Same
  <2>3. IsFiniteSet(Same(k)) /\ Cardinality(Same(k)) <= Cardinality(all)
    BY <2>1, <2>2, FS_Subset
  <2>4. Cardinality(Same(k)) \in Nat /\ Cardinality(Same(k)) # 0
    BY <2>2, <2>3, FS_EmptySet, FS_CardinalityType
  <2> QED
    BY <2>1, <2>3, <2>4
<1>3. f \in [A -> B]
  <2> HIDE DEF Same
  <2> QED
    BY <1>1, <1>2
<1>4. ASSUME NEW k \in A, NEW l \in A, k < l, list[k] = list[l]
      PROVE  Cardinality(Same(k)) # Cardinality(Same(l))
  <2>1. Same(k) \subseteq Same(l) /\ l \in Same(l) /\ l \notin Same(k)
    BY <1>1, <1>4
  <2> HIDE DEF Same
  <2>2. Same(k) # Same(l)
    BY <2>1
  <2> QED
    BY <1>2, <2>1, <2>2, FS_Subset
<1>5. \A k, l \in A : f[k] = f[l] => k = l
  <2> SUFFICES ASSUME NEW k \in A, NEW l \in A, f[k] = f[l] PROVE k = l
    OBVIOUS
  <2>1. list[k] = list[l] /\ Cardinality(Same(k)) = Cardinality(Same(l))
    <3> HIDE DEF Same
    <3> QED
      OBVIOUS
  <2>2. ~(k < l) /\ ~(l < k)
    <3> HIDE DEF Same
    <3> QED
      BY <1>4, <2>1
  <2> QED
    BY <1>1, <2>2
<1>6. IsFiniteSet(B) /\ Cardinality(B) = L * K
  <2>1. IsFiniteSet(1 .. L) /\ Cardinality(1 .. L) = L
    BY FS_Interval
  <2>2. IsFiniteSet(1 .. K) /\ Cardinality(1 .. K) = K
    BY FS_Interval
  <2> QED
    BY <2>1, <2>2, FS_Product
<1>7. Cardinality(A) <= Cardinality(B)
  <2> HIDE DEF f, A, B
  <2> QED
    BY <1>3, <1>5, <1>6, NoMoreThan
<1>8. Cardinality(A) = Len(list)
  <2>1. \A n \in Nat : Cardinality(1 .. n) = n
    BY FS_Interval
  <2> QED
    BY <1>1, <2>1
<1> QED
  BY <1>6, <1>7, <1>8

-----------------------------------------------------------------------------
(* Recursive functions over the places of a sequence. *)

\* What begins with base and goes on by a table of steps exists.
Iterated(f, S, N, step, base) ==
  /\ f \in [0 .. N -> S]
  /\ f[0] = base
  /\ \A n \in 1 .. N : f[n] = step[<<f[n - 1], n>>]

LEMMA Iterates ==
  ASSUME NEW S, NEW N \in Nat, NEW step \in [S \X (1 .. N) -> S], NEW base \in S
  PROVE  \E f : Iterated(f, S, N, step, base)
<1> DEFINE M == {m \in Nat : m <= N => \E f \in [0 .. m -> S] :
                   /\ f[0] = base
                   /\ \A n \in 1 .. m : f[n] = step[<<f[n - 1], n>>]}
<1>1. 0 \in M
  <2> DEFINE z == [n \in 0 .. 0 |-> base]
  <2>1. z \in [0 .. 0 -> S] /\ z[0] = base /\ \A n \in 1 .. 0 : FALSE
    OBVIOUS
  <2> HIDE DEF z
  <2> QED
    BY <2>1
<1>2. ASSUME NEW m \in Nat, m \in M PROVE m + 1 \in M
  <2> SUFFICES ASSUME m + 1 <= N
               PROVE  \E f \in [0 .. m + 1 -> S] :
                        /\ f[0] = base
                        /\ \A n \in 1 .. m + 1 : f[n] = step[<<f[n - 1], n>>]
    OBVIOUS
  <2>1. PICK f \in [0 .. m -> S] :
          /\ f[0] = base
          /\ \A n \in 1 .. m : f[n] = step[<<f[n - 1], n>>]
    BY <1>2
  <2> DEFINE e == step[<<f[m], m + 1>>]
             g == [n \in 0 .. m + 1 |-> IF n = m + 1 THEN e ELSE f[n]]
  <2>2. e \in S
    <3>1. f[m] \in S /\ m + 1 \in 1 .. N
      OBVIOUS
    <3> QED
      BY <3>1
  <2>3. g \in [0 .. m + 1 -> S]
    <3> HIDE DEF e
    <3> QED
      BY <2>2
  <2>4. /\ \A n \in 0 .. m : g[n] = f[n]
        /\ g[m + 1] = e
    <3> HIDE DEF e
    <3> QED
      OBVIOUS
  <2> HIDE DEF g
  <2>5. g[0] = base
    BY <2>1, <2>4
  <2>6. ASSUME NEW n \in 1 .. m + 1 PROVE g[n] = step[<<g[n - 1], n>>]
    <3>1. CASE n = m + 1
      <4>1. g[n - 1] = f[m]
        BY <2>4, <3>1
      <4> QED
        BY <2>4, <3>1, <4>1
    <3>2. CASE n # m + 1
      <4>1. n \in 1 .. m /\ n - 1 \in 0 .. m /\ n \in 0 .. m
        BY <3>2
      <4>2. g[n] = f[n] /\ g[n - 1] = f[n - 1]
        BY <2>4, <4>1
      <4> QED
        BY <2>1, <4>1, <4>2
    <3> QED
      BY <3>1, <3>2
  <2> QED
    BY <2>3, <2>5, <2>6
<1>3. N \in M
  <2> HIDE DEF M
  <2> QED
    BY <1>1, <1>2, NatInductionSet
<1>4. \E f : /\ f \in [0 .. N -> S] /\ f[0] = base
             /\ \A n \in 1 .. N : f[n] = step[<<f[n - 1], n>>]
  BY <1>3
<1> QED
  BY <1>4, Zenon DEF Iterated

\* Two that begin alike and go on alike are alike.
LEMMA SameFromStart ==
  ASSUME NEW N \in Nat, NEW f, NEW g, f[0] = g[0],
         \A n \in 1 .. N : f[n - 1] = g[n - 1] => f[n] = g[n]
  PROVE  \A n \in 0 .. N : f[n] = g[n]
<1> DEFINE M == {m \in Nat : m <= N => f[m] = g[m]}
<1>1. 0 \in M
  OBVIOUS
<1>2. ASSUME NEW m \in Nat, m \in M PROVE m + 1 \in M
  <2>1. m + 1 <= N => m + 1 \in 1 .. N /\ (m + 1) - 1 = m /\ m <= N
    OBVIOUS
  <2> QED
    BY <1>2, <2>1
<1>3. Nat \subseteq M
  <2> HIDE DEF M
  <2> QED
    BY <1>1, <1>2, NatInductionSet
<1> QED
  BY <1>3

-----------------------------------------------------------------------------
(* Folds over a sequence, as the library defines them: by way of a function on the
   sets of its places. *)

\* What a fold by a table of steps goes through.
Folded(g, S, N, step, base) ==
  /\ g \in [SUBSET (1 .. N) -> S]
  /\ g = [s \in SUBSET (1 .. N) |->
            IF s = {} THEN base ELSE step[<<g[s \ {Max(s)}], Max(s)>>]]

LEMMA MaxOfPlaces ==
  ASSUME NEW n \in Nat \ {0}
  PROVE  1 .. n # {} /\ Max(1 .. n) = n /\ (1 .. n) \ {n} = 1 .. n - 1
<1>1. 1 .. n # {} /\ 1 .. n \subseteq 0 .. n /\ n \in 1 .. n
  OBVIOUS
<1>2. Max(1 .. n) \in 1 .. n /\ \A y \in 1 .. n : y <= Max(1 .. n)
  BY <1>1, MaxNat
<1>3. Max(1 .. n) = n
  BY <1>1, <1>2
<1> QED
  BY <1>1, <1>3

LEMMA FoldExists ==
  ASSUME NEW S, NEW N \in Nat, NEW step \in [S \X (1 .. N) -> S], NEW base \in S
  PROVE  \E g : Folded(g, S, N, step, base)
<1> DEFINE Table(g, m) ==
             /\ g \in [SUBSET (1 .. m) -> S]
             /\ \A s \in SUBSET (1 .. m) :
                  g[s] = IF s = {} THEN base ELSE step[<<g[s \ {Max(s)}], Max(s)>>]
           M == {m \in Nat : m <= N => \E g : Table(g, m)}
<1>1. 0 \in M
  <2> DEFINE z == [s \in SUBSET (1 .. 0) |-> base]
  <2>1. \A s \in SUBSET (1 .. 0) : s = {}
    OBVIOUS
  <2>2. z \in [SUBSET (1 .. 0) -> S] /\ \A s \in SUBSET (1 .. 0) : z[s] = base
    OBVIOUS
  <2> HIDE DEF z
  <2>3. Table(z, 0)
    BY <2>1, <2>2
  <2> HIDE DEF Table
  <2> QED
    BY <2>3
<1>2. ASSUME NEW m \in Nat, m \in M PROVE m + 1 \in M
  <2> SUFFICES ASSUME m + 1 <= N PROVE \E g : Table(g, m + 1)
    <3> HIDE DEF Table
    <3> QED
      OBVIOUS
  <2>1. PICK f : Table(f, m)
    <3> HIDE DEF Table
    <3> QED
      BY <1>2
  <2> DEFINE g == [s \in SUBSET (1 .. m + 1) |->
                     IF m + 1 \in s THEN step[<<f[s \ {m + 1}], m + 1>>] ELSE f[s]]
  <2>2. \A s \in SUBSET (1 .. m + 1) :
          /\ s \ {m + 1} \in SUBSET (1 .. m)
          /\ m + 1 \notin s => s \in SUBSET (1 .. m)
    OBVIOUS
  <2>3. \A s \in SUBSET (1 .. m) : f[s] \in S /\ m + 1 \notin s /\ s \in SUBSET (1 .. m + 1)
    BY <2>1
  <2>4. m + 1 \in 1 .. N
    OBVIOUS
  <2>5. \A s \in SUBSET (1 .. m + 1) : g[s] \in S
    BY <2>2, <2>3, <2>4
  <2>6. g \in [SUBSET (1 .. m + 1) -> S]
    BY <2>5
  <2>7. \A s \in SUBSET (1 .. m) : g[s] = f[s]
    BY <2>3
  <2>8. \A s \in SUBSET (1 .. m + 1) :
          m + 1 \in s => g[s] = step[<<g[s \ {m + 1}], m + 1>>]
    BY <2>2, <2>7
  <2> HIDE DEF g
  <2>9. ASSUME NEW s \in SUBSET (1 .. m + 1)
        PROVE  g[s] = IF s = {} THEN base ELSE step[<<g[s \ {Max(s)}], Max(s)>>]
    <3>1. CASE m + 1 \in s
      <4>1. s # {} /\ s \subseteq 0 .. m + 1 /\ m + 1 \in Nat
        BY <3>1
      <4>2. Max(s) \in s /\ \A y \in s : y <= Max(s)
        <5> HIDE DEF Table
        <5> QED
          BY ONLY <4>1, MaxNat
      <4>3. Max(s) \in 1 .. m + 1 /\ m + 1 <= Max(s)
        BY <3>1, <4>2
      <4>4. Max(s) = m + 1
        BY <4>3
      <4> QED
        BY <2>8, <3>1, <4>1, <4>4
    <3>2. CASE m + 1 \notin s
      <4>1. s \in SUBSET (1 .. m) /\ s \ {Max(s)} \in SUBSET (1 .. m)
        BY <2>2, <3>2
      <4>2. f[s] = IF s = {} THEN base ELSE step[<<f[s \ {Max(s)}], Max(s)>>]
        BY <2>1, <4>1
      <4> QED
        BY <2>7, <4>1, <4>2
    <3> QED
      BY <3>1, <3>2
  <2> QED
    BY <2>6, <2>9
<1>3. N \in M
  <2> HIDE DEF M
  <2> QED
    BY <1>1, <1>2, NatInductionSet
<1>4. PICK g : Table(g, N)
  <2> HIDE DEF Table
  <2> QED
    BY <1>3
<1>5. g = [s \in SUBSET (1 .. N) |->
             IF s = {} THEN base ELSE step[<<g[s \ {Max(s)}], Max(s)>>]]
  BY <1>4
<1> QED
  BY <1>4, <1>5, Zenon DEF Folded

LEMMA FoldedAt ==
  ASSUME NEW S, NEW N \in Nat, NEW step, NEW base, NEW g, Folded(g, S, N, step, base),
         NEW r \in SUBSET (1 .. N)
  PROVE  /\ g[r] = IF r = {} THEN base ELSE step[<<g[r \ {Max(r)}], Max(r)>>]
         /\ r # {} => Max(r) \in 1 .. N /\ g[r \ {Max(r)}] \in S
<1>1. g[r] = IF r = {} THEN base ELSE step[<<g[r \ {Max(r)}], Max(r)>>]
  BY DEF Folded
<1>2. ASSUME r # {} PROVE Max(r) \in 1 .. N /\ g[r \ {Max(r)}] \in S
  <2>1. r \subseteq 0 .. N
    OBVIOUS
  <2>2. Max(r) \in r
    BY <1>2, <2>1, MaxNat
  <2> QED
    BY <2>2 DEF Folded
<1> QED
  BY <1>1, <1>2

\* A fold goes from place to place: next is the step it takes, which agrees with the
\* table while the fold stays in the set for which the table is made.
FoldedBy(g, S, N, step, base, next) ==
  /\ N \in Nat /\ step \in [S \X (1 .. N) -> S] /\ base \in S
  /\ \A r \in SUBSET (1 .. N) :
       /\ g[r] = IF r = {} THEN base ELSE next[r]
       /\ r # {} /\ g[r \ {Max(r)}] \in S =>
            next[r] = step[<<g[r \ {Max(r)}], Max(r)>>]

LEMMA FoldRuns ==
  ASSUME NEW S, NEW N, NEW step, NEW base, NEW g, NEW next,
         FoldedBy(g, S, N, step, base, next)
  PROVE  \E f : Iterated(f, S, N, step, base) /\ f[N] = g[1 .. N]
<1> DEFINE f == [n \in 0 .. N |-> g[1 .. n]]
<1>0. N \in Nat /\ step \in [S \X (1 .. N) -> S] /\ base \in S
  BY DEF FoldedBy
<1>1. f[0] = base
  <2>1. 1 .. 0 = {} /\ 1 .. 0 \in SUBSET (1 .. N)
    BY <1>0
  <2>2. f[0] = g[1 .. 0]
    BY <1>0
  <2> QED
    BY <1>0, <2>1, <2>2 DEF FoldedBy
<1>2. ASSUME NEW n \in 1 .. N, f[n - 1] \in S PROVE f[n] = step[<<f[n - 1], n>>]
  <2>1. 1 .. n # {} /\ Max(1 .. n) = n /\ (1 .. n) \ {n} = 1 .. n - 1
    <3>1. n \in Nat \ {0}
      BY <1>0
    <3> QED
      BY <3>1, MaxOfPlaces
  <2>2. 1 .. n \in SUBSET (1 .. N)
    BY <1>0
  <2>3. f[n] = g[1 .. n] /\ f[n - 1] = g[1 .. n - 1]
    BY <1>0
  <2>4. g[1 .. n] = next[1 .. n]
    BY <2>1, <2>2 DEF FoldedBy
  <2>5. next[1 .. n] = step[<<g[1 .. n - 1], n>>]
    BY <1>2, <2>1, <2>2, <2>3 DEF FoldedBy
  <2> QED
    BY <2>3, <2>4, <2>5
<1>3. \A n \in 0 .. N : f[n] \in S
  <2> DEFINE M == {n \in Nat : n <= N => f[n] \in S}
  <2>1. 0 \in M
    BY <1>0, <1>1
  <2>2. ASSUME NEW n \in Nat, n \in M PROVE n + 1 \in M
    <3> SUFFICES ASSUME n + 1 <= N PROVE f[n + 1] \in S
      OBVIOUS
    <3>1. n + 1 \in 1 .. N /\ (n + 1) - 1 = n /\ n <= N
      BY <1>0
    <3>2. f[n] \in S
      BY <2>2, <3>1
    <3> HIDE DEF f
    <3> QED
      BY <1>0, <1>2, <3>1, <3>2
  <2>3. Nat \subseteq M
    <3> HIDE DEF M
    <3> QED
      BY <2>1, <2>2, NatInductionSet
  <2> HIDE DEF f
  <2> QED
    BY <1>0, <2>3
<1>4. f[N] = g[1 .. N] /\ f = [n \in 0 .. N |-> f[n]]
  BY <1>0
<1>5. \A n \in 1 .. N : n - 1 \in 0 .. N
  BY <1>0
<1> HIDE DEF f
<1>6. f \in [0 .. N -> S] /\ \A n \in 1 .. N : f[n] = step[<<f[n - 1], n>>]
  BY <1>2, <1>3, <1>4, <1>5
<1> QED
  BY <1>1, <1>4, <1>6 DEF Iterated
=============================================================================
