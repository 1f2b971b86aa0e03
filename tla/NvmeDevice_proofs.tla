------------------------- MODULE NvmeDevice_proofs -------------------------
(***************************************************************************)
(* What is proved of the subsystems behind the NVMe controller.            *)
(*                                                                         *)
(* NamespacesAlwaysApart: whatever namespaces are created, formatted,      *)
(* attached and deleted, in whatever order their commands end, no logical  *)
(* page belongs to two of them, and the account of allocated pages is the  *)
(* sum of their ranges.                                                    *)
(* ChunksAlwaysSound, FlashAlwaysInOrder: however many commands on a chunk *)
(* of an Open-Channel SSD of revision 2.0 are accepted before the first of *)
(* their jobs reaches the flash, chunks are programmed in the order of     *)
(* their pages, and a descriptor tells what the chunk will hold when the   *)
(* jobs that wait are done.  They assume ListsInMask: no write is for more *)
(* pages than the mask of refusals in writeInternal() has bits.            *)
(* CommandsAnsweredInFull: a command is answered once and when nothing of  *)
(* it is under way, and all of its data was moved, each unit to its place, *)
(* whatever the shape of its PRP lists or scatter gather segments and the  *)
(* order in which its transfers, jobs and requests end.                    *)
(* RequestsAlwaysInside: the request that an I/O command makes to the      *)
(* layers below is for the units of its LBAs, each once, on the pages of   *)
(* its namespace.                                                          *)
(***************************************************************************)
EXTENDS NvmeDevice, DataLemmas

-----------------------------------------------------------------------------
(* The sum of the pages of a set of namespaces. *)

PagesOf(S) == MapThenSumSet(LAMBDA ns : ns.range.nlp, S)

Picked(S) == CHOOSE x \in S : TRUE

\* g sums up the pages of the sets in D, one element after the other.
Sums(g, D) ==
  g = [s \in D |-> IF s = {} THEN 0 ELSE Picked(s).range.nlp + g[s \ {Picked(s)}]]
SumOf(S) == CHOOSE g : Sums(g, SUBSET S)

\* A set that is not empty has an element to pick.
LEMMA PickedIn ==
  ASSUME NEW s, s # {}
  PROVE  Picked(s) \in s
BY Zenon DEF Picked

\* The sum of a set is what its sums make of the whole set.
LEMMA PagesOfIsSum ==
  ASSUME NEW S
  PROVE  PagesOf(S) = SumOf(S)[S]
BY Zenon DEF PagesOf, MapThenSumSet, MapThenFoldSet, SumOf, Sums, Picked

\* The subsets of a finite set with at most n elements.
Small(S, n) == {s \in SUBSET S : Cardinality(s) <= n}

\* A set without its picked element has one element less.
LEMMA WithoutPicked ==
  ASSUME NEW S, IsFiniteSet(S), NEW s \in SUBSET S, s # {}
  PROVE  /\ Picked(s) \in s /\ s \ {Picked(s)} \in SUBSET S
         /\ Cardinality(s) \in Nat \ {0}
         /\ Cardinality(s \ {Picked(s)}) = Cardinality(s) - 1
<1>1. IsFiniteSet(s)
  BY FS_Subset
<1>2. Picked(s) \in s
  BY PickedIn
<1>3. Cardinality(s \ {Picked(s)}) = Cardinality(s) - 1
  BY <1>1, <1>2, FS_RemoveElement
<1>4. Cardinality(s) \in Nat \ {0}
  BY <1>1, FS_CardinalityType, FS_EmptySet
<1> QED
  BY <1>2, <1>3, <1>4

\* Sums of the smaller sets give those of sets with one element more.
LEMMA SumsStep ==
  ASSUME NEW S, IsFiniteSet(S), NEW n \in Nat,
         \E g : Sums(g, Small(S, n))
  PROVE  \E g : Sums(g, Small(S, n + 1))
<1> DEFINE D == Small(S, n)
           E == Small(S, n + 1)
<1>1. PICK g : Sums(g, D)
  OBVIOUS
<1> DEFINE h == [s \in E |-> IF s = {} THEN 0
                             ELSE Picked(s).range.nlp + g[s \ {Picked(s)}]]
<1>2. ASSUME NEW s \in E PROVE Cardinality(s) \in Nat /\ s \in SUBSET S
  BY FS_Subset, FS_CardinalityType DEF Small
<1>3. ASSUME NEW s \in E, s # {}
      PROVE  s \ {Picked(s)} \in D /\ s \ {Picked(s)} \in E
  <2>1. /\ s \ {Picked(s)} \in SUBSET S /\ Cardinality(s) \in Nat \ {0}
        /\ Cardinality(s \ {Picked(s)}) = Cardinality(s) - 1
    BY <1>2, <1>3, WithoutPicked
  <2>2. Cardinality(s) <= n + 1
    BY DEF Small
  <2>3. Cardinality(s) - 1 <= n /\ Cardinality(s) - 1 <= n + 1
    BY <2>1, <2>2
  <2> QED
    BY <2>1, <2>3 DEF Small
<1>4. ASSUME NEW s \in D PROVE h[s] = g[s]
  <2>1. s \in E
    BY FS_Subset, FS_CardinalityType DEF Small
  <2>2. g[s] = IF s = {} THEN 0 ELSE Picked(s).range.nlp + g[s \ {Picked(s)}]
    BY <1>1, Zenon DEF Sums
  <2> QED
    BY <2>1, <2>2, Zenon
<1>5. ASSUME NEW s \in E
      PROVE  h[s] = IF s = {} THEN 0 ELSE Picked(s).range.nlp + h[s \ {Picked(s)}]
  <2>1. CASE s = {}
    BY <2>1, Zenon
  <2>2. ASSUME s # {} PROVE h[s] = Picked(s).range.nlp + h[s \ {Picked(s)}]
    <3>1. h[s \ {Picked(s)}] = g[s \ {Picked(s)}]
      BY <1>3, <1>4, <2>2, Zenon
    <3>2. h[s] = Picked(s).range.nlp + g[s \ {Picked(s)}]
      BY <2>2, Zenon
    <3> QED
      BY <3>1, <3>2, Zenon
  <2> QED
    BY <2>1, <2>2, Zenon
<1>6. h = [s \in E |-> h[s]]
  BY Zenon
<1> HIDE DEF h, E, D
<1>7. h = [s \in E |-> IF s = {} THEN 0 ELSE Picked(s).range.nlp + h[s \ {Picked(s)}]]
  BY <1>5, <1>6, Zenon
<1>8. Sums(h, E)
  BY <1>7, Zenon DEF Sums
<1> QED
  BY <1>8, Zenon DEF E

\* Every finite set has its sums.
LEMMA SumsExist ==
  ASSUME NEW S, IsFiniteSet(S)
  PROVE  Sums(SumOf(S), SUBSET S)
<1> DEFINE N == {n \in Nat : \E g : Sums(g, Small(S, n))}
<1>1. 0 \in N
  <2> DEFINE z == [s \in Small(S, 0) |-> 0]
  <2>1. ASSUME NEW s \in Small(S, 0) PROVE s = {}
    <3>1. IsFiniteSet(s) /\ Cardinality(s) \in Nat /\ Cardinality(s) <= 0
      BY FS_Subset, FS_CardinalityType DEF Small
    <3>2. Cardinality(s) = 0
      BY <3>1
    <3> QED
      BY <3>1, <3>2, FS_EmptySet
  <2>2. Sums(z, Small(S, 0))
    BY <2>1, Zenon DEF Sums
  <2> QED
    BY <2>2
<1>2. \A n \in Nat : n \in N => n + 1 \in N
  BY SumsStep
<1>3. Nat \subseteq N
  <2> HIDE DEF N
  <2> QED
    BY <1>1, <1>2, NatInductionSet
<1>4. Cardinality(S) \in Nat
  BY FS_CardinalityType
<1>5. Small(S, Cardinality(S)) = SUBSET S
  BY FS_Subset DEF Small
<1>6. \E g : Sums(g, SUBSET S)
  BY <1>3, <1>4, <1>5
<1> QED
  BY <1>6, Zenon DEF SumOf

\* The sum of a subset, by its definition.
LEMMA SumEquation ==
  ASSUME NEW S, IsFiniteSet(S), NEW s \in SUBSET S
  PROVE  /\ s = {} => SumOf(S)[s] = 0
         /\ s # {} => SumOf(S)[s] = Picked(s).range.nlp + SumOf(S)[s \ {Picked(s)}]
<1>1. Sums(SumOf(S), SUBSET S)
  BY SumsExist
<1>2. SumOf(S) = [t \in SUBSET S |-> IF t = {} THEN 0
                    ELSE Picked(t).range.nlp + SumOf(S)[t \ {Picked(t)}]]
  BY <1>1, Zenon DEF Sums
<1> DEFINE g == SumOf(S)
<1>3. g[s] = IF s = {} THEN 0 ELSE Picked(s).range.nlp + g[s \ {Picked(s)}]
  <2> HIDE DEF g
  <2>1. g = [t \in SUBSET S |-> IF t = {} THEN 0
                    ELSE Picked(t).range.nlp + g[t \ {Picked(t)}]]
    BY <1>2, Zenon DEF g
  <2> QED
    BY <2>1, Zenon
<1> QED
  BY <1>3, Zenon

Counted(S) == \A x \in S : x.range.nlp \in Nat

\* Any element may be taken off the sum first.
LEMMA SumOrder ==
  ASSUME NEW S, IsFiniteSet(S), Counted(S)
  PROVE  \A s \in SUBSET S :
           /\ SumOf(S)[s] \in Nat
           /\ \A x \in s : SumOf(S)[s] = x.range.nlp + SumOf(S)[s \ {x}]
<1> DEFINE g == SumOf(S)
           Good(s) == /\ g[s] \in Nat
                      /\ \A x \in s : g[s] = x.range.nlp + g[s \ {x}]
           N == {n \in Nat : \A s \in SUBSET S : Cardinality(s) <= n => Good(s)}
<1>0. ASSUME NEW s \in SUBSET S
      PROVE  /\ s = {} => g[s] = 0
             /\ s # {} => g[s] = Picked(s).range.nlp + g[s \ {Picked(s)}]
  BY SumEquation, Zenon
<1> HIDE DEF g
<1>1. 0 \in N
  <2>1. ASSUME NEW s \in SUBSET S, Cardinality(s) <= 0 PROVE Good(s)
    <3>1. IsFiniteSet(s) /\ Cardinality(s) \in Nat
      BY FS_Subset, FS_CardinalityType
    <3>2. Cardinality(s) = 0
      BY <2>1, <3>1
    <3>3. s = {}
      BY <3>1, <3>2, FS_EmptySet
    <3>4. g[s] = 0
      BY <1>0, <3>3, Zenon
    <3> QED
      BY <3>3, <3>4
  <2> QED
    BY <2>1
<1>2. ASSUME NEW n \in Nat, n \in N PROVE n + 1 \in N
  <2>1. ASSUME NEW s \in SUBSET S, Cardinality(s) <= n + 1 PROVE Good(s)
    <3>1. CASE s = {}
      <4>1. g[s] = 0
        BY <1>0, <3>1, Zenon
      <4> QED
        BY <3>1, <4>1
    <3>2. CASE s # {}
      <4> DEFINE y == Picked(s)
      <4>1. /\ y \in s /\ s \ {y} \in SUBSET S /\ Cardinality(s) \in Nat \ {0}
            /\ Cardinality(s \ {y}) = Cardinality(s) - 1
        BY <3>2, WithoutPicked, Zenon
      <4>2. Cardinality(s \ {y}) <= n
        <5> HIDE DEF y
        <5> QED
          BY <2>1, <4>1
      <4>3. Good(s \ {y})
        BY <1>2, <4>1, <4>2, Zenon
      <4>4. g[s] = y.range.nlp + g[s \ {y}]
        BY <1>0, <3>2, Zenon
      <4>5. y.range.nlp \in Nat
        BY <4>1, Zenon DEF Counted
      <4> HIDE DEF y
      <4>6. g[s] \in Nat
        BY <4>3, <4>4, <4>5
      <4>7. ASSUME NEW x \in s PROVE g[s] = x.range.nlp + g[s \ {x}]
        <5>1. CASE x = y
          BY <4>4, <5>1, Zenon
        <5>2. CASE x # y
          <6>1. x \in s \ {y} /\ y \in s \ {x} /\ (s \ {y}) \ {x} = (s \ {x}) \ {y}
            BY <4>1, <5>2
          <6>2. g[s \ {y}] = x.range.nlp + g[(s \ {y}) \ {x}]
            BY <4>3, <6>1, Zenon
          <6>3. s \ {x} \in SUBSET S /\ Cardinality(s \ {x}) <= n
            <7>1. IsFiniteSet(s) /\ Cardinality(s \ {x}) = Cardinality(s) - 1
              BY FS_Subset, FS_RemoveElement
            <7>2. Cardinality(s) - 1 <= n
              BY <2>1, <4>1
            <7> QED
              BY <7>1, <7>2
          <6>4. Good(s \ {x})
            BY <1>2, <6>3, Zenon
          <6>5. g[s \ {x}] = y.range.nlp + g[(s \ {x}) \ {y}]
            BY <6>1, <6>4, Zenon
          <6>6. g[(s \ {x}) \ {y}] \in Nat
            <7>1. (s \ {x}) \ {y} \in SUBSET S
              OBVIOUS
            <7>2. Cardinality((s \ {x}) \ {y}) <= n
              <8>1. /\ IsFiniteSet(s \ {x}) /\ Cardinality(s \ {x}) \in Nat
                    /\ Cardinality((s \ {x}) \ {y}) = Cardinality(s \ {x}) - 1
                BY <6>1, <6>3, FS_Subset, FS_CardinalityType, FS_RemoveElement
              <8> QED
                BY <6>3, <8>1
            <7> QED
              BY <1>2, <7>1, <7>2, Zenon
          <6>7. x.range.nlp \in Nat
            BY DEF Counted
          <6>8. PICK G \in Nat : G = g[(s \ {x}) \ {y}]
            BY <6>6, Zenon
          <6>9. g[s \ {y}] = x.range.nlp + G /\ g[s \ {x}] = y.range.nlp + G
            BY <6>1, <6>2, <6>5, <6>8, Zenon
          <6>10. \A a, b \in Nat : b + (a + G) = a + (b + G)
            OBVIOUS
          <6> QED
            BY <4>4, <4>5, <6>7, <6>9, <6>10, Zenon
        <5> QED
          BY <5>1, <5>2
      <4> QED
        BY <4>6, <4>7
    <3> QED
      BY <3>1, <3>2
  <2> QED
    BY <2>1
<1>3. Nat \subseteq N
  <2> HIDE DEF N
  <2> QED
    BY <1>1, <1>2, NatInductionSet
<1>4. ASSUME NEW s \in SUBSET S PROVE Good(s)
  <2>1. IsFiniteSet(s) /\ Cardinality(s) \in Nat /\ Cardinality(s) <= Cardinality(s)
    BY FS_Subset, FS_CardinalityType
  <2> QED
    BY <1>3, <2>1
<1> QED
  BY <1>4 DEF g

\* The sums of a smaller set are those of a larger one.
LEMMA SumsAgree ==
  ASSUME NEW S, IsFiniteSet(S), NEW T \in SUBSET S
  PROVE  PagesOf(T) = SumOf(S)[T]
<1> DEFINE g == SumOf(S)
           h == SumOf(T)
           N == {n \in Nat : \A s \in SUBSET T : Cardinality(s) <= n => h[s] = g[s]}
<1>0. IsFiniteSet(T)
  BY FS_Subset
<1>1. ASSUME NEW s \in SUBSET T
      PROVE  /\ s \in SUBSET S
             /\ s = {} => h[s] = 0 /\ g[s] = 0
             /\ s # {} => /\ h[s] = Picked(s).range.nlp + h[s \ {Picked(s)}]
                          /\ g[s] = Picked(s).range.nlp + g[s \ {Picked(s)}]
  <2>1. s \in SUBSET S
    OBVIOUS
  <2>2. /\ s = {} => h[s] = 0
        /\ s # {} => h[s] = Picked(s).range.nlp + h[s \ {Picked(s)}]
    BY <1>0, SumEquation, Zenon
  <2>3. /\ s = {} => g[s] = 0
        /\ s # {} => g[s] = Picked(s).range.nlp + g[s \ {Picked(s)}]
    BY <2>1, SumEquation, Zenon
  <2> QED
    BY <2>1, <2>2, <2>3, Zenon
<1> HIDE DEF g, h
<1>2. 0 \in N
  <2>1. ASSUME NEW s \in SUBSET T, Cardinality(s) <= 0 PROVE h[s] = g[s]
    <3>1. IsFiniteSet(s) /\ Cardinality(s) \in Nat
      BY <1>0, FS_Subset, FS_CardinalityType
    <3>2. Cardinality(s) = 0
      BY <2>1, <3>1
    <3>3. s = {}
      BY <3>1, <3>2, FS_EmptySet
    <3> QED
      BY <1>1, <3>3, Zenon
  <2> QED
    BY <2>1
<1>3. ASSUME NEW n \in Nat, n \in N PROVE n + 1 \in N
  <2>1. ASSUME NEW s \in SUBSET T, Cardinality(s) <= n + 1 PROVE h[s] = g[s]
    <3>1. CASE s = {}
      BY <1>1, <3>1, Zenon
    <3>2. CASE s # {}
      <4> DEFINE y == Picked(s)
      <4>1. /\ y \in s /\ s \ {y} \in SUBSET T /\ Cardinality(s) \in Nat \ {0}
            /\ Cardinality(s \ {y}) = Cardinality(s) - 1
        BY <1>0, <3>2, WithoutPicked, Zenon
      <4>2. h[s] = y.range.nlp + h[s \ {y}] /\ g[s] = y.range.nlp + g[s \ {y}]
        BY <1>1, <3>2, Zenon
      <4> HIDE DEF y
      <4>3. Cardinality(s \ {y}) <= n
        BY <2>1, <4>1
      <4>4. h[s \ {y}] = g[s \ {y}]
        BY <1>3, <4>1, <4>3, Zenon
      <4> QED
        BY <4>2, <4>4, Zenon
    <3> QED
      BY <3>1, <3>2
  <2> QED
    BY <2>1
<1>4. Nat \subseteq N
  <2> HIDE DEF N
  <2> QED
    BY <1>2, <1>3, NatInductionSet
<1>5. Cardinality(T) \in Nat /\ Cardinality(T) <= Cardinality(T) /\ T \in SUBSET T
  BY <1>0, FS_CardinalityType
<1>6. h[T] = g[T]
  BY <1>4, <1>5
<1> QED
  BY <1>6, PagesOfIsSum, Zenon DEF g, h

\* No namespaces have no pages.
LEMMA PagesOfNone == PagesOf({}) = 0
<1>1. IsFiniteSet({})
  BY FS_EmptySet
<1>2. {} \in SUBSET {}
  OBVIOUS
<1>3. SumOf({})[{}] = 0
  BY <1>1, <1>2, SumEquation, Zenon
<1> QED
  BY <1>3, PagesOfIsSum, Zenon

\* A namespace that leaves takes its pages with it.
LEMMA PagesWithout ==
  ASSUME NEW S, IsFiniteSet(S), Counted(S), NEW x \in S
  PROVE  /\ PagesOf(S) \in Nat /\ PagesOf(S \ {x}) \in Nat
         /\ PagesOf(S) = x.range.nlp + PagesOf(S \ {x})
<1>1. S \in SUBSET S /\ S \ {x} \in SUBSET S
  OBVIOUS
<1>2. PagesOf(S) = SumOf(S)[S] /\ PagesOf(S \ {x}) = SumOf(S)[S \ {x}]
  BY <1>1, SumsAgree, Zenon
<1>3. \A s \in SUBSET S :
           /\ SumOf(S)[s] \in Nat
           /\ \A y \in s : SumOf(S)[s] = y.range.nlp + SumOf(S)[s \ {y}]
  BY SumOrder, Zenon
<1>4. /\ SumOf(S)[S] \in Nat /\ SumOf(S)[S \ {x}] \in Nat
      /\ SumOf(S)[S] = x.range.nlp + SumOf(S)[S \ {x}]
  BY <1>1, <1>3, Zenon
<1> QED
  BY <1>2, <1>4, Zenon

\* One that joins brings its own.
LEMMA PagesWith ==
  ASSUME NEW S, IsFiniteSet(S), Counted(S), NEW x, x \notin S, x.range.nlp \in Nat
  PROVE  /\ PagesOf(S) \in Nat
         /\ PagesOf(S \cup {x}) = x.range.nlp + PagesOf(S)
<1> DEFINE T == S \cup {x}
<1>1. IsFiniteSet(T) /\ Counted(T)
  BY FS_AddElement DEF Counted
<1>2. x \in T /\ T \ {x} = S
  OBVIOUS
<1> HIDE DEF T
<1>3. /\ PagesOf(T \ {x}) \in Nat
      /\ PagesOf(T) = x.range.nlp + PagesOf(T \ {x})
  BY <1>1, <1>2, PagesWithout, Zenon
<1> QED
  BY <1>2, <1>3, Zenon DEF T

-----------------------------------------------------------------------------
(* Sizes: pages and LBAs. *)

LEMMA DivBounds ==
  ASSUME NEW a \in Nat, NEW b \in Nat \ {0}
  PROVE  /\ a \div b \in Nat
         /\ (a \div b) * b <= a
         /\ a < (a \div b + 1) * b
  OBVIOUS

LEMMA DivExact ==
  ASSUME NEW a \in Nat, NEW b \in Nat \ {0}
  PROVE  (a * b) \div b = a
  OBVIOUS

LEMMA TimesOrder ==
  ASSUME NEW a \in Nat, NEW b \in Nat, NEW c \in Nat \ {0}
  PROVE  /\ a * c \in Nat
         /\ a <= b <=> a * c <= b * c
  OBVIOUS

\* A namespace whose size is no multiple of a page has no room for its LBAs; so
\* one that has room gives back the pages it got.
LEMMA CreatedExact ==
  ASSUME NEW size \in Nat, NEW lba \in Nat \ {0}, NEW page \in Nat \ {0},
         size * lba <= ((size \div page) * lba) * page
  PROVE  (size * lba) \div page = (size \div page) * lba
<1> DEFINE q == size \div page
<1>1. q \in Nat /\ q * page <= size
  BY DivBounds
<1> HIDE DEF q
<1>2. (q * lba) * page = (q * page) * lba
  BY <1>1
<1>3. size * lba <= (q * page) * lba
  BY <1>2 DEF q
<1>4. q * page \in Nat
  BY <1>1
<1>5. size <= q * page
  BY <1>3, <1>4, TimesOrder
<1>6. size = q * page
  BY <1>1, <1>4, <1>5
<1>7. size * lba = (q * lba) * page
  BY <1>2, <1>6
<1>8. ((q * lba) * page) \div page = q * lba
  <2>1. q * lba \in Nat
    BY <1>1
  <2> QED
    BY <2>1, DivExact
<1> QED
  BY <1>7, <1>8 DEF q

\* A formatted one claims the whole device: if it has room, it has all pages.
LEMMA FormattedExact ==
  ASSUME NEW total \in Nat, NEW page \in Nat \ {0}, NEW lba \in Nat \ {0},
         (total * page) % lba = 0, NEW nlp \in Nat, nlp <= total,
         ((total * page) \div lba) * lba <= nlp * page
  PROVE  (((total * page) \div lba) * lba) \div page = nlp
<1>1. total * page \in Nat
  OBVIOUS
<1>2. \A n \in Nat : n % lba = 0 => (n \div lba) * lba = n
  OBVIOUS
<1>3. ((total * page) \div lba) * lba = total * page
  BY <1>1, <1>2
<1>4. total * page <= nlp * page
  BY <1>3
<1>5. total = nlp
  BY <1>4, TimesOrder
<1> QED
  BY <1>3, <1>5, DivExact

\* n parts of the whole device, each in whole pages, are no more than it has.
LEMMA DefaultFits ==
  ASSUME NEW total \in Nat, NEW page \in Nat \ {0}, NEW lba \in Nat \ {0},
         NEW n \in Nat \ {0}
  PROVE  LET size == ((total * page) \div lba) \div n
         IN  /\ size \in Nat
             /\ (size \div page) * lba \in Nat
             /\ n * ((size \div page) * lba) <= total
<1> DEFINE a == (total * page) \div lba
           b == a \div n
           c == b \div page
<1>1. total * page \in Nat
  OBVIOUS
<1>2. a \in Nat /\ a * lba <= total * page
  BY <1>1, DivBounds
<1> HIDE DEF a
<1>3. b \in Nat /\ b * n <= a
  BY <1>2, DivBounds
<1> HIDE DEF b
<1>4. c \in Nat /\ c * page <= b
  BY <1>3, DivBounds
<1> HIDE DEF c
<1>5. c * page \in Nat /\ (c * page) * n \in Nat /\ b * n \in Nat
  BY <1>3, <1>4
<1>6. (c * page) * n <= b * n
  BY <1>3, <1>4, <1>5, TimesOrder
<1>7. (c * page) * n <= a
  BY <1>2, <1>3, <1>5, <1>6
<1>8. ((c * page) * n) * lba <= a * lba
  BY <1>2, <1>5, <1>7, TimesOrder
<1>9. ((c * page) * n) * lba = (n * (c * lba)) * page
  BY <1>4
<1>10. n * (c * lba) \in Nat /\ a * lba \in Nat /\ (n * (c * lba)) * page \in Nat
  BY <1>2, <1>4
<1>11. (n * (c * lba)) * page <= total * page
  BY <1>1, <1>2, <1>8, <1>9, <1>10
<1>12. n * (c * lba) <= total
  BY <1>10, <1>11, TimesOrder
<1>13. c * lba \in Nat
  BY <1>4
<1> QED
  BY <1>3, <1>12, <1>13 DEF a, b, c

-----------------------------------------------------------------------------
(* Sets of namespaces. *)

NamespaceType ==
  [nsid : Nat \ {0}, range : [slpn : Nat, nlp : Nat \ {0}], size : Nat,
   lbaSize : Nat \ {0}, attached : BOOLEAN]

End(r) == r.slpn + r.nlp
Before(r, q) == End(r) <= q.slpn

\* A namespace that has room gives back the pages it got.
Exact(ns) == HasRoom(ns) => Freed(ns) = ns.range.nlp

\* What the namespaces of a subsystem always are.
Sound(S) ==
  /\ IsFiniteSet(S) /\ S \subseteq NamespaceType
  /\ \A a, b \in S : a # b => /\ a.nsid # b.nsid
                              /\ Before(a.range, b.range) \/ Before(b.range, a.range)
  /\ \A a \in S : End(a.range) <= TotalLogicalPages /\ Exact(a)

LEMMA SoundCounted ==
  ASSUME NEW S, Sound(S)
  PROVE  IsFiniteSet(S) /\ Counted(S)
BY DEF Sound, Counted, NamespaceType

\* The free ranges between them can be found.
LEMMA SoundInverts ==
  ASSUME NEW S, Sound(S)
  PROVE  Inverts({ns.range : ns \in S})
<1> SUFFICES ASSUME NEW a \in S
             PROVE  /\ a.range.slpn + a.range.nlp <= TotalLogicalPages
                    /\ \A b \in S : b.range # a.range /\ b.range.slpn < a.range.slpn =>
                         b.range.slpn + b.range.nlp <= a.range.slpn
  BY Zenon DEF Inverts
<1>1. a.range.slpn + a.range.nlp <= TotalLogicalPages
  BY DEF Sound, End
<1>2. ASSUME NEW b \in S, b.range # a.range, b.range.slpn < a.range.slpn
      PROVE  b.range.slpn + b.range.nlp <= a.range.slpn
  <2>1. Before(a.range, b.range) \/ Before(b.range, a.range)
    BY <1>2, Zenon DEF Sound
  <2>2. a.range.slpn \in Nat /\ b.range.slpn \in Nat /\ a.range.nlp \in Nat
    BY DEF Sound, NamespaceType
  <2> QED
    BY <1>2, <2>1, <2>2 DEF Before, End
<1> QED
  BY <1>1, <1>2

\* A namespace may leave.
LEMMA SoundWithout ==
  ASSUME NEW S, Sound(S), NEW T, T \subseteq S
  PROVE  Sound(T)
<1>1. IsFiniteSet(T)
  BY FS_Subset DEF Sound
<1> QED
  BY <1>1, Zenon DEF Sound

\* One may join whose NSID and pages no other has.
LEMMA SoundWith ==
  ASSUME NEW S, Sound(S), NEW x \in NamespaceType,
         End(x.range) <= TotalLogicalPages, Exact(x),
         \A a \in S : /\ a.nsid # x.nsid
                      /\ Before(a.range, x.range) \/ Before(x.range, a.range)
  PROVE  Sound(S \cup {x}) /\ x \notin S
<1>1. IsFiniteSet(S \cup {x})
  BY FS_AddElement DEF Sound
<1>2. S \cup {x} \subseteq NamespaceType
  BY DEF Sound
<1>3. ASSUME NEW a \in S \cup {x}, NEW b \in S \cup {x}, a # b
      PROVE  /\ a.nsid # b.nsid
             /\ Before(a.range, b.range) \/ Before(b.range, a.range)
  <2>1. CASE a \in S /\ b \in S
    BY <1>3, <2>1, Zenon DEF Sound
  <2>2. CASE a = x /\ b \in S
    BY <2>2, Zenon
  <2>3. CASE a \in S /\ b = x
    BY <2>3, Zenon
  <2>4. CASE a = x /\ b = x
    BY <1>3, <2>4
  <2> QED
    BY <2>1, <2>2, <2>3, <2>4
<1>4. \A a \in S \cup {x} : End(a.range) <= TotalLogicalPages /\ Exact(a)
  BY Zenon DEF Sound
<1>5. x \notin S
  BY Zenon
<1> QED
  BY <1>1, <1>2, <1>3, <1>4, <1>5, Zenon DEF Sound

\* One may change what is not its NSID or its range.
LEMMA SoundChanged ==
  ASSUME NEW S, Sound(S), NEW x \in S, NEW y \in NamespaceType,
         y.nsid = x.nsid, y.range = x.range, Exact(y)
  PROVE  /\ Sound((S \ {x}) \cup {y})
         /\ PagesOf((S \ {x}) \cup {y}) = PagesOf(S)
<1> DEFINE T == S \ {x}
<1>1. Sound(T)
  BY SoundWithout
<1>2. \A a \in T : /\ a.nsid # y.nsid
                   /\ Before(a.range, y.range) \/ Before(y.range, a.range)
  BY Zenon DEF Sound
<1>3. End(y.range) <= TotalLogicalPages
  BY DEF Sound
<1> HIDE DEF T
<1>4. Sound(T \cup {y}) /\ y \notin T
  BY <1>1, <1>2, <1>3, SoundWith
<1>5. y.range.nlp \in Nat
  BY DEF NamespaceType
<1>6. PagesOf(T \cup {y}) = y.range.nlp + PagesOf(T)
  BY <1>1, <1>4, <1>5, PagesWith, SoundCounted, Zenon
<1>7. PagesOf(S) = x.range.nlp + PagesOf(T)
  BY PagesWithout, SoundCounted, Zenon DEF T
<1> QED
  BY <1>4, <1>6, <1>7, Zenon DEF T

\* A free range ends where the next namespace begins, or the device ends.
LEMMA RoomBounds ==
  ASSUME NEW S, Sound(S), NEW start \in Nat,
         NEW m \in Nat, m <= Room(start, {ns.range : ns \in S})
  PROVE  /\ start + m <= TotalLogicalPages
         /\ \A a \in S : a.range.slpn >= start => start + m <= a.range.slpn
<1> DEFINE ranges == {ns.range : ns \in S}
           ends == {r.slpn : r \in {q \in ranges : q.slpn >= start}} \cup {TotalLogicalPages}
<1>1. ends \subseteq Nat /\ ends # {}
  <2>1. \A r \in ranges : r.slpn \in Nat
    BY DEF Sound, NamespaceType
  <2>2. TotalLogicalPages \in Nat
    BY SubsystemAssumption
  <2> QED
    BY <2>1, <2>2
<1>2. \A a \in S : a.range.slpn >= start => a.range.slpn \in ends
  OBVIOUS
<1>3. TotalLogicalPages \in ends
  OBVIOUS
<1>4. Room(start, ranges) = Min(ends) - start
  BY Zenon DEF Room
<1> HIDE DEF ends
<1>5. Min(ends) \in ends /\ \A y \in ends : Min(ends) <= y
  BY <1>1, MinNat
<1>6. PICK e \in Nat : e = Min(ends)
  BY <1>1, <1>5
<1>7. start + m <= e
  BY <1>4, <1>6
<1>8. \A y \in ends : y \in Nat /\ e <= y
  BY <1>1, <1>5, <1>6
<1>9. \A y \in ends : start + m <= y
  BY <1>7, <1>8
<1> QED
  BY <1>2, <1>3, <1>9

\* The range that the search finds has no page of a namespace.
LEMMA FirstFitApart ==
  ASSUME NEW S, Sound(S), NEW m \in Nat,
         FirstFit({ns.range : ns \in S}, m).nlp # 0
  PROVE  LET range == FirstFit({ns.range : ns \in S}, m) IN
         /\ range = LPNRange(range.slpn, m) /\ range.slpn \in Nat /\ m # 0
         /\ End(range) <= TotalLogicalPages
         /\ \A a \in S : Before(a.range, range) \/ Before(range, a.range)
<1> DEFINE ranges == {ns.range : ns \in S}
           fits == {p \in FreeStarts(ranges) : Room(p, ranges) >= m}
           start == Min(fits)
<1>1. FirstFit(ranges, m) = IF fits = {} THEN LPNRange(0, 0) ELSE LPNRange(start, m)
  BY Zenon DEF FirstFit
<1>2. fits # {} /\ FirstFit(ranges, m) = LPNRange(start, m)
  <2>1. LPNRange(0, 0).nlp = 0
    BY DEF LPNRange
  <2> QED
    BY <1>1, <2>1, Zenon
<1>3. m # 0
  BY <1>2 DEF LPNRange
<1>4. fits \subseteq Nat
  <2>1. \A r \in ranges : r.slpn + r.nlp \in Nat
    BY DEF Sound, NamespaceType
  <2> QED
    BY <2>1 DEF FreeStarts
<1>5. start \in fits
  <2> HIDE DEF fits
  <2> QED
    BY <1>2, <1>4, MinNat
<1>6. start \in Nat /\ start \in FreeStarts(ranges)
  BY <1>4, <1>5
<1>7. m <= Room(start, ranges)
  <2>1. Room(start, ranges) >= m
    BY <1>5, Zenon
  <2> HIDE DEF start, fits, ranges
  <2> QED
    BY <2>1
<1> HIDE DEF start, fits
<1>8. /\ start + m <= TotalLogicalPages
      /\ \A a \in S : a.range.slpn >= start => start + m <= a.range.slpn
  BY <1>6, <1>7, RoomBounds, Zenon
<1>9. ASSUME NEW a \in S, ~(a.range.slpn >= start) PROVE End(a.range) <= start
  <2>1. a.range.slpn \in Nat /\ a.range.nlp \in Nat \ {0}
    BY DEF Sound, NamespaceType
  <2>2. PICK q \in S : start = End(q.range)
    BY <1>6, <1>9, <2>1 DEF FreeStarts, End
  <2>3. q.range.slpn \in Nat /\ q.range.nlp \in Nat \ {0}
    BY DEF Sound, NamespaceType
  <2>4. CASE q = a
    BY <2>1, <2>2, <2>4 DEF End
  <2>5. CASE q # a
    <3>1. Before(a.range, q.range) \/ Before(q.range, a.range)
      BY <2>5, Zenon DEF Sound
    <3> QED
      BY <1>6, <1>9, <2>1, <2>2, <2>3, <3>1 DEF Before, End
  <2> QED
    BY <2>4, <2>5
<1> DEFINE range == LPNRange(start, m)
<1>10. range.slpn = start /\ range.nlp = m /\ End(range) = start + m
  BY DEF LPNRange, End
<1>11. \A a \in S : Before(a.range, range) \/ Before(range, a.range)
  BY <1>8, <1>9, <1>10, Zenon DEF Before
<1> HIDE DEF range
<1>12. range = LPNRange(range.slpn, m)
  BY <1>10, Zenon DEF range
<1>13. range.slpn \in Nat /\ End(range) <= TotalLogicalPages
  BY <1>6, <1>8, <1>10, Zenon
<1> QED
  BY <1>2, <1>3, <1>11, <1>12, <1>13, Zenon DEF range

-----------------------------------------------------------------------------
(* How often a data pointer has memory read before its command goes on. *)

\* g counts the reads of lists for what is left of the data, for the lengths in D.
CountsReads(g, D) ==
  g = [size \in D |-> IF ListLength * PageSize < size
                      THEN 1 + g[size - ListLength * PageSize] ELSE 1]

LEMMA CountsReadsStep ==
  ASSUME NEW n \in Nat, \E g : CountsReads(g, 1 .. n)
  PROVE  \E g : CountsReads(g, 1 .. n + 1)
<1> DEFINE k == ListLength * PageSize
           next(g, size) == IF k < size THEN 1 + g[size - k] ELSE 1
<1>1. PICK g : CountsReads(g, 1 .. n)
  OBVIOUS
<1> DEFINE h == [size \in 1 .. n + 1 |-> next(g, size)]
<1>2. k \in Nat \ {0}
  BY DataPointerAssumption
<1>3. ASSUME NEW size \in 1 .. n PROVE h[size] = g[size]
  <2>1. size \in 1 .. n + 1
    OBVIOUS
  <2>2. g[size] = next(g, size)
    BY <1>1, Zenon DEF CountsReads
  <2> QED
    BY <2>1, <2>2, Zenon
<1>4. ASSUME NEW size \in 1 .. n + 1 PROVE h[size] = next(h, size)
  <2>1. CASE k < size
    <3>1. size - k \in 1 .. n
      BY <1>2, <2>1
    <3>2. h[size - k] = g[size - k]
      BY <1>3, <3>1, Zenon
    <3> QED
      BY <2>1, <3>2, Zenon
  <2>2. CASE ~(k < size)
    BY <2>2, Zenon
  <2> QED
    BY <2>1, <2>2
<1>5. h = [size \in 1 .. n + 1 |-> h[size]]
  BY Zenon
<1> HIDE DEF h
<1>6. h = [size \in 1 .. n + 1 |-> next(h, size)]
  BY <1>4, <1>5, Zenon
<1> QED
  BY <1>6, Zenon DEF CountsReads

LEMMA ReadsCounted ==
  ASSUME NEW n \in Nat
  PROVE  LET g == CHOOSE g : CountsReads(g, 1 .. n)
         IN  \A size \in 1 .. n : g[size] \in Nat \ {0}
<1> DEFINE N == {m \in Nat : \E g : CountsReads(g, 1 .. m)}
           k == ListLength * PageSize
           g == CHOOSE f : CountsReads(f, 1 .. n)
           M == {m \in Nat : \A size \in 1 .. n : size <= m => g[size] \in Nat \ {0}}
<1>1. 0 \in N
  <2> DEFINE z == [size \in 1 .. 0 |-> 0]
  <2>1. \A size \in 1 .. 0 : FALSE
    OBVIOUS
  <2>2. CountsReads(z, 1 .. 0)
    BY <2>1, Zenon DEF CountsReads
  <2> QED
    BY <2>2
<1>2. Nat \subseteq N
  <2>1. \A m \in Nat : m \in N => m + 1 \in N
    BY CountsReadsStep
  <2> HIDE DEF N
  <2> QED
    BY <1>1, <2>1, NatInductionSet
<1>3. CountsReads(g, 1 .. n)
  <2>1. \E f : CountsReads(f, 1 .. n)
    BY <1>2
  <2> QED
    BY <2>1, Zenon
<1>4. k \in Nat \ {0}
  BY DataPointerAssumption
<1> HIDE DEF g
<1>5. \A size \in 1 .. n : g[size] = IF k < size THEN 1 + g[size - k] ELSE 1
  BY <1>3, Zenon DEF CountsReads
<1> HIDE DEF k
<1>6. 0 \in M
  OBVIOUS
<1>7. ASSUME NEW m \in Nat, m \in M PROVE m + 1 \in M
  <2>1. ASSUME NEW size \in 1 .. n, size <= m + 1 PROVE g[size] \in Nat \ {0}
    <3>1. CASE k < size
      <4>1. size - k \in 1 .. n /\ size - k <= m
        BY <1>4, <2>1, <3>1
      <4>2. g[size - k] \in Nat \ {0}
        BY <1>7, <4>1
      <4>3. g[size] = 1 + g[size - k]
        BY <1>5, <3>1, Zenon
      <4> QED
        BY <4>2, <4>3
    <3>2. CASE ~(k < size)
      <4>1. g[size] = 1
        BY <1>5, <3>2, Zenon
      <4> QED
        BY <4>1
    <3> QED
      BY <3>1, <3>2
  <2> QED
    BY <2>1
<1>8. Nat \subseteq M
  <2> HIDE DEF M
  <2> QED
    BY <1>6, <1>7, NatInductionSet
<1>9. \A size \in 1 .. n : g[size] \in Nat \ {0}
  <2>1. n \in M
    BY <1>8
  <2> QED
    BY <2>1
<1> QED
  BY <1>9 DEF g

\* A pointer has memory read a number of times.
LEMMA PointerReadsCounted ==
  ASSUME NEW p \in Pointers
  PROVE  PointerReads(p) \in Nat
<1>1. CASE /\ p.type = "PRP" /\ p.size \in Nat \ {0} /\ p.offset \in 0 .. PageSize - 1
  <2>1. CASE NeedsList(p)
    <3> DEFINE g == CHOOSE g : CountsReads(g, 1 .. p.size)
               rest == p.size - getPRPSize(p.offset)
    <3>1. rest \in 1 .. p.size
      BY <1>1, <2>1, DataPointerAssumption DEF NeedsList, getPRPSize
    <3>2. ListReads(p) = g[rest]
      BY Zenon DEF ListReads, CountsReads
    <3>3. \A size \in 1 .. p.size : g[size] \in Nat \ {0}
      BY <1>1, ReadsCounted
    <3>4. ListReads(p) \in Nat
      BY <3>1, <3>2, <3>3
    <3>5. PointerReads(p) = ListReads(p)
      BY <1>1, <2>1, Zenon DEF PointerReads
    <3> QED
      BY <3>4, <3>5, Zenon
  <2>2. CASE ~NeedsList(p)
    <3>1. PointerReads(p) = 0
      BY <1>1, <2>2, Zenon DEF PointerReads
    <3> QED
      BY <3>1
  <2> QED
    BY <2>1, <2>2
<1>2. CASE p.type = "SGL" /\ p.segments \in Seq(Seq([length : Nat, ignore : BOOLEAN]))
  <2>1. Len(p.segments) \in Nat
    BY <1>2, LenProperties, Zenon
  <2>2. p.type # "PRP"
    BY <1>2
  <2>3. PointerReads(p) = 0 \/ PointerReads(p) = Len(p.segments)
    BY <2>2, Zenon DEF PointerReads
  <2> QED
    BY <2>1, <2>3
<1> QED
  BY <1>1, <1>2, NvmeCommandAssumption, Zenon

-----------------------------------------------------------------------------
(* Commands. *)

\* A record with the fields of a command, and no other.
IsCommand(r) ==
  r = [op |-> r.op, arg |-> r.arg, pointer |-> r.pointer, data |-> r.data,
       stages |-> r.stages, under |-> r.under, moved |-> r.moved,
       status |-> r.status, answers |-> r.answers]

\* Stages of which the last one only is the transfer to the device.
InLast(stages) ==
  /\ stages \in Seq({"pointer", "in"})
  /\ \A i \in 1 .. Len(stages) - 1 : stages[i] # "in"

LEMMA InLastTail ==
  ASSUME NEW stages, InLast(stages), stages # <<>>
  PROVE  /\ InLast(Tail(stages))
         /\ Head(stages) = "in" => Tail(stages) = <<>>
<1>1. /\ stages \in Seq({"pointer", "in"}) /\ Len(stages) \in Nat \ {0}
      /\ Head(stages) = stages[1] /\ Tail(stages) \in Seq({"pointer", "in"})
      /\ Len(Tail(stages)) = Len(stages) - 1
      /\ \A i \in 1 .. Len(Tail(stages)) : Tail(stages)[i] = stages[i + 1]
  BY EmptySeq, LenProperties, HeadTailProperties DEF InLast
<1>2. InLast(Tail(stages))
  BY <1>1 DEF InLast
<1>3. ASSUME Head(stages) = "in" PROVE Tail(stages) = <<>>
  <2>1. 1 \notin 1 .. Len(stages) - 1
    BY <1>1, <1>3, Zenon DEF InLast
  <2>2. ~(Len(stages) > 1)
    BY <1>1, <2>1
  <2> QED
    BY <1>1, <2>2, TailOfOne, Zenon
<1> QED
  BY <1>2, <1>3

\* The stages of a creation.
LEMMA CreationStages ==
  ASSUME NEW p \in Pointers
  PROVE  InLast(PointerStages(p) \o <<"in">>)
<1> DEFINE q == PointerStages(p)
<1>1. PICK n \in Nat : q = [i \in 1 .. n |-> "pointer"]
  <2>1. PointerReads(p) \in Nat
    BY PointerReadsCounted
  <2>2. CASE PointerReads(p) = 0
    BY <2>2 DEF PointerStages
  <2>3. CASE PointerReads(p) # 0
    BY <2>1, <2>3, Zenon DEF PointerStages
  <2> QED
    BY <2>2, <2>3
<1> HIDE DEF q
<1>2. q \in Seq({"pointer", "in"}) /\ Len(q) = n /\ \A i \in 1 .. n : q[i] = "pointer"
  BY <1>1
<1>3. <<"in">> \in Seq({"pointer", "in"}) /\ Len(<<"in">>) = 1
  OBVIOUS
<1>4. /\ q \o <<"in">> \in Seq({"pointer", "in"})
      /\ Len(q \o <<"in">>) = n + 1
      /\ \A i \in 1 .. n : (q \o <<"in">>)[i] = q[i]
  BY <1>2, <1>3, ConcatProperties
<1> QED
  BY <1>2, <1>4 DEF InLast, q

\* A command that will create a namespace when the data of the host is there.
Creates(r) == r.op = "create" /\ r.stages # <<>>

\* What becomes of a command, or is put on its slot, creates a namespace only if
\* the command did, and the same.
Quiet(r, q) ==
  /\ IsCommand(r)
  /\ Creates(r) => /\ Creates(q) /\ r.arg = q.arg /\ r.answers = q.answers
                   /\ InLast(q.stages) => InLast(r.stages)

LEMMA BeginCommand ==
  ASSUME NEW r, IsCommand(r)
  PROVE  /\ IsCommand(Begin(r)) /\ Begin(r).op = r.op /\ Begin(r).arg = r.arg
         /\ Begin(r).stages = r.stages
         /\ r.stages # <<>> => Begin(r).answers = r.answers
<1>1. CASE r.stages = <<>>
  <2>1. Begin(r) = [r EXCEPT !.under = {}, !.answers = @ + 1]
    BY <1>1, Zenon DEF Begin
  <2>2. Begin(r) = [op |-> r.op, arg |-> r.arg, pointer |-> r.pointer, data |-> r.data,
                    stages |-> r.stages, under |-> {}, moved |-> r.moved,
                    status |-> r.status, answers |-> r.answers + 1]
    BY <2>1 DEF IsCommand
  <2> QED
    BY <1>1, <2>2 DEF IsCommand
<1>2. CASE r.stages # <<>>
  <2>1. Begin(r) = [r EXCEPT !.under = Pieces(r)]
    BY <1>2, Zenon DEF Begin
  <2>2. Begin(r) = [op |-> r.op, arg |-> r.arg, pointer |-> r.pointer, data |-> r.data,
                    stages |-> r.stages, under |-> Pieces(r), moved |-> r.moved,
                    status |-> r.status, answers |-> r.answers]
    BY <2>1 DEF IsCommand
  <2> QED
    BY <1>2, <2>2 DEF IsCommand
<1> QED
  BY <1>1, <1>2

LEMMA CommandFields ==
  ASSUME NEW op, NEW arg, NEW pointer, NEW stages
  PROVE  LET r == Command(op, arg, pointer, stages) IN
         /\ IsCommand(r) /\ r.op = op /\ r.arg = arg /\ r.stages = stages /\ r.answers = 0
BY DEF Command, IsCommand

\* What changes some fields of a command leaves the others.
LEMMA MovedFields ==
  ASSUME NEW r, IsCommand(r), NEW x, NEW y, NEW e,
         e = [r EXCEPT !.under = x, !.moved = y]
  PROVE  e = [op |-> r.op, arg |-> r.arg, pointer |-> r.pointer, data |-> r.data,
              stages |-> r.stages, under |-> x, moved |-> y,
              status |-> r.status, answers |-> r.answers]
BY DEF IsCommand

LEMMA EndedFields ==
  ASSUME NEW r, IsCommand(r), NEW x, NEW y, NEW e,
         e = [r EXCEPT !.stages = x, !.status = y]
  PROVE  e = [op |-> r.op, arg |-> r.arg, pointer |-> r.pointer, data |-> r.data,
              stages |-> x, under |-> r.under, moved |-> r.moved,
              status |-> y, answers |-> r.answers]
BY DEF IsCommand

LEMMA AdvancedFields ==
  ASSUME NEW r, IsCommand(r), NEW x, NEW e, e = [r EXCEPT !.stages = x]
  PROVE  e = [op |-> r.op, arg |-> r.arg, pointer |-> r.pointer, data |-> r.data,
              stages |-> x, under |-> r.under, moved |-> r.moved,
              status |-> r.status, answers |-> r.answers]
BY DEF IsCommand

LEMMA EndPieceFields ==
  ASSUME NEW q, IsCommand(q), NEW piece
  PROVE  LET r == EndPiece(q, piece) IN
         /\ IsCommand(r) /\ r.op = q.op /\ r.arg = q.arg /\ r.stages = q.stages
         /\ r.answers = q.answers
<1>1. EndPiece(q, piece) =
        [op |-> q.op, arg |-> q.arg, pointer |-> q.pointer, data |-> q.data,
         stages |-> q.stages, under |-> q.under \ {piece},
         moved |-> q.moved \cup UnitsOf(piece),
         status |-> q.status, answers |-> q.answers]
  BY MovedFields, Zenon DEF EndPiece
<1> QED
  BY <1>1 DEF IsCommand

\* An error ends a command, so that it creates nothing.
LEMMA FailQuiet ==
  ASSUME NEW r, IsCommand(r), NEW q
  PROVE  /\ Quiet(Fail(r), q) /\ IsCommand(Fail(r))
         /\ Fail(r).stages = <<>> /\ Fail(r).op = r.op /\ Fail(r).arg = r.arg
<1> DEFINE e == [r EXCEPT !.stages = <<>>, !.status = "error"]
<1>1. e = [op |-> r.op, arg |-> r.arg, pointer |-> r.pointer, data |-> r.data,
           stages |-> <<>>, under |-> r.under, moved |-> r.moved,
           status |-> "error", answers |-> r.answers]
  BY EndedFields, Zenon
<1>2. IsCommand(e) /\ e.stages = <<>> /\ e.op = r.op /\ e.arg = r.arg
  BY <1>1 DEF IsCommand
<1> HIDE DEF e
<1>3. /\ IsCommand(Begin(e)) /\ Begin(e).stages = <<>>
      /\ Begin(e).op = r.op /\ Begin(e).arg = r.arg
  BY <1>2, BeginCommand, Zenon
<1>4. Fail(r) = Begin(e)
  BY Zenon DEF Fail, e
<1> QED
  BY <1>3, <1>4, Zenon DEF Quiet, Creates

\* The next stage changes neither what the command is, nor its answers if it is
\* not the last.
LEMMA NextStageQuiet ==
  ASSUME NEW r, IsCommand(r), r.stages # <<>>
  PROVE  /\ Quiet(NextStage(r), r) /\ IsCommand(NextStage(r))
         /\ NextStage(r).op = r.op /\ NextStage(r).arg = r.arg
         /\ NextStage(r).stages = Tail(r.stages)
<1> DEFINE e == [r EXCEPT !.stages = Tail(r.stages)]
<1>1. e = [op |-> r.op, arg |-> r.arg, pointer |-> r.pointer, data |-> r.data,
           stages |-> Tail(r.stages), under |-> r.under, moved |-> r.moved,
           status |-> r.status, answers |-> r.answers]
  BY AdvancedFields, Zenon
<1>2. /\ IsCommand(e) /\ e.op = r.op /\ e.arg = r.arg /\ e.answers = r.answers
      /\ e.stages = Tail(r.stages)
  BY <1>1 DEF IsCommand
<1> HIDE DEF e
<1>3. /\ IsCommand(Begin(e)) /\ Begin(e).op = r.op /\ Begin(e).arg = r.arg
      /\ Begin(e).stages = e.stages
      /\ e.stages # <<>> => Begin(e).answers = r.answers
  BY <1>2, BeginCommand, Zenon
<1>4. NextStage(r) = Begin(e)
  BY Zenon DEF NextStage, e
<1>5. InLast(r.stages) => InLast(e.stages)
  BY <1>2, InLastTail, Zenon
<1> QED
  BY <1>2, <1>3, <1>4, <1>5, Zenon DEF Quiet, Creates

\* A command of which the last piece of a stage ended.
LEMMA StageEndedFields ==
  ASSUME NEW s, IsCommand(command[s]), NEW stage, NEW r \in StageEnded(s, stage)
  PROVE  /\ r.stages # <<>> /\ command[s].stages # <<>>
         /\ IsCommand(r) /\ r.op = command[s].op /\ r.arg = command[s].arg
         /\ r.stages = command[s].stages /\ r.answers = command[s].answers
<1>1. AtStage(s, {stage})
  BY Zenon DEF StageEnded
<1>2. PICK piece \in command[s].under : r = EndPiece(command[s], piece)
  BY <1>1, Zenon DEF StageEnded
<1>3. command[s].stages # <<>>
  BY <1>1, Zenon DEF AtStage
<1>4. /\ IsCommand(r) /\ r.op = command[s].op /\ r.arg = command[s].arg
      /\ r.stages = command[s].stages /\ r.answers = command[s].answers
  BY <1>2, EndPieceFields, Zenon
<1> QED
  BY <1>3, <1>4, Zenon

\* When a stage ends, the command goes on or fails.
LEMMA StageEndedQuiet ==
  ASSUME NEW s, IsCommand(command[s]), NEW stage, NEW r \in StageEnded(s, stage)
  PROVE  /\ Quiet(NextStage(r), command[s]) /\ Quiet(Fail(r), command[s])
         /\ IsCommand(NextStage(r)) /\ NextStage(r).op = command[s].op
         /\ NextStage(r).stages = Tail(command[s].stages)
<1>1. /\ r.stages # <<>> /\ command[s].stages # <<>>
      /\ IsCommand(r) /\ r.op = command[s].op /\ r.arg = command[s].arg
      /\ r.stages = command[s].stages /\ r.answers = command[s].answers
  BY StageEndedFields, Zenon
<1>2. /\ Quiet(NextStage(r), r) /\ IsCommand(NextStage(r))
      /\ NextStage(r).op = r.op /\ NextStage(r).arg = r.arg
      /\ NextStage(r).stages = Tail(r.stages)
  BY <1>1, NextStageQuiet, Zenon
<1>3. Quiet(Fail(r), command[s])
  BY <1>1, FailQuiet, Zenon
<1> QED
  BY <1>1, <1>2, <1>3, Zenon DEF Quiet, Creates

\* A command that is not one to create a namespace.
LEMMA OtherQuiet ==
  ASSUME NEW r, IsCommand(r), r.op # "create", NEW q
  PROVE  Quiet(r, q)
BY Zenon DEF Quiet, Creates

LEMMA OtherBegun ==
  ASSUME NEW op, op # "create", NEW arg, NEW pointer, NEW stages, NEW q
  PROVE  /\ Quiet(Command(op, arg, pointer, stages), q)
         /\ Quiet(Begin(Command(op, arg, pointer, stages)), q)
         /\ Quiet(Fail(Command(op, arg, pointer, stages)), q)
<1> DEFINE r == Command(op, arg, pointer, stages)
<1>1. IsCommand(r) /\ r.op = op
  BY DEF Command, IsCommand
<1> HIDE DEF r
<1>2. IsCommand(Begin(r)) /\ Begin(r).op = op
  BY <1>1, BeginCommand, Zenon
<1>3. Quiet(r, q) /\ Quiet(Begin(r), q)
  BY <1>1, <1>2, OtherQuiet, Zenon
<1>4. Quiet(Fail(r), q)
  BY <1>1, FailQuiet, Zenon
<1> QED
  BY <1>3, <1>4, Zenon DEF r

-----------------------------------------------------------------------------
(* The inductive invariant. *)

NSIDsOf(S) == {ns.nsid : ns \in S}

\* The account is exact and the free ranges were always found.
Accounts ==
  /\ Sound(lNamespaces)
  /\ allocatedLogicalPages = PagesOf(lNamespaces)
  /\ bug = FALSE

\* At most one namespace is being created, under an NSID that none has.
Creations ==
  kind = "nvm" =>
    /\ command = [s \in Slot |-> command[s]]
    /\ \A s \in Slot : IsCommand(command[s])
    /\ \A s \in Slot : Creates(command[s]) =>
         /\ command[s].answers = 0
         /\ command[s].arg.nsid \in Nat \ {0} /\ command[s].arg.new \in NewNamespace
         /\ command[s].arg.nsid \notin NSIDsOf(lNamespaces)
         /\ InLast(command[s].stages)
    /\ \A s, t \in Slot : Creates(command[s]) /\ Creates(command[t]) => s = t

DeviceInv == Accounts /\ Creations

\* A step of one command that creates nothing new, under NSIDs that do not grow.
LEMMA QuietStep ==
  ASSUME Creations, kind = "nvm", kind' = kind, NEW s \in Slot, NEW r,
         command' = [command EXCEPT ![s] = r], Quiet(r, command[s]),
         NSIDsOf(lNamespaces') \subseteq NSIDsOf(lNamespaces)
  PROVE  Creations'
<1>1. /\ command = [t \in Slot |-> command[t]]
      /\ \A t \in Slot : IsCommand(command[t])
  BY Zenon DEF Creations
<1>2. command' = [t \in Slot |-> IF t = s THEN r ELSE command[t]]
  BY <1>1
<1>3. /\ command' = [t \in Slot |-> command'[t]]
      /\ command'[s] = r /\ \A t \in Slot \ {s} : command'[t] = command[t]
  BY <1>2
<1>4. \A t \in Slot : IsCommand(command'[t])
  BY <1>1, <1>3, Zenon DEF Quiet
<1>5. ASSUME NEW t \in Slot, Creates(command'[t])
      PROVE  /\ Creates(command[t]) /\ command'[t].arg = command[t].arg
             /\ command'[t].answers = command[t].answers
             /\ InLast(command[t].stages) => InLast(command'[t].stages)
  <2>1. CASE t = s
    BY <1>3, <1>5, <2>1, Zenon DEF Quiet
  <2>2. CASE t # s
    BY <1>3, <1>5, <2>2, Zenon
  <2> QED
    BY <2>1, <2>2
<1>6. ASSUME NEW t \in Slot, Creates(command'[t])
      PROVE  /\ command'[t].answers = 0
             /\ command'[t].arg.nsid \in Nat \ {0} /\ command'[t].arg.new \in NewNamespace
             /\ command'[t].arg.nsid \notin NSIDsOf(lNamespaces')
             /\ InLast(command'[t].stages)
  <2>1. /\ Creates(command[t]) /\ command'[t].arg = command[t].arg
        /\ command'[t].answers = command[t].answers
        /\ InLast(command[t].stages) => InLast(command'[t].stages)
    BY <1>5, <1>6
  <2>2. /\ command[t].answers = 0
        /\ command[t].arg.nsid \in Nat \ {0} /\ command[t].arg.new \in NewNamespace
        /\ command[t].arg.nsid \notin NSIDsOf(lNamespaces)
        /\ InLast(command[t].stages)
    BY <2>1, Zenon DEF Creations
  <2>3. command'[t].arg.nsid \notin NSIDsOf(lNamespaces')
    BY <2>1, <2>2
  <2> QED
    BY <2>1, <2>2, <2>3, Zenon
<1>7. \A t, u \in Slot : Creates(command'[t]) /\ Creates(command'[u]) => t = u
  BY <1>5, Zenon DEF Creations
<1> QED
  BY <1>3, <1>4, <1>6, <1>7, Zenon DEF Creations

\* The NSID of a new namespace is one that no namespace has.
LEMMA FreeNSIDUnused ==
  ASSUME Sound(lNamespaces)
  PROVE  FreeNSID \in Nat \ {0} /\ FreeNSID \notin NSIDsOf(lNamespaces)
<1> DEFINE n == Cardinality(lNamespaces)
           unused == {m \in 1 .. n + 1 : Named(m) = {}}
<1>1. IsFiniteSet(lNamespaces) /\ n \in Nat
  BY FS_CardinalityType DEF Sound
<1>2. unused # {}
  <2> SUFFICES ASSUME unused = {} PROVE FALSE
    OBVIOUS
  <2> DEFINE f == [m \in 1 .. n + 1 |-> CHOOSE ns \in lNamespaces : ns.nsid = m]
  <2>1. ASSUME NEW m \in 1 .. n + 1 PROVE f[m] \in lNamespaces /\ f[m].nsid = m
    <3>1. \E ns \in lNamespaces : ns.nsid = m
      BY Zenon DEF Named
    <3> QED
      BY <3>1, Zenon
  <2>2. f \in [1 .. n + 1 -> lNamespaces]
    BY <2>1, Zenon
  <2>3. IsFiniteSet(1 .. n + 1) /\ Cardinality(1 .. n + 1) = n + 1
    <3> HIDE DEF n
    <3>1. n + 1 \in Int /\ 1 \in Int /\ ~(1 > n + 1) /\ n + 1 - 1 + 1 = n + 1
      BY <1>1
    <3>2. /\ IsFiniteSet(1 .. n + 1)
          /\ Cardinality(1 .. n + 1) = IF 1 > n + 1 THEN 0 ELSE n + 1 - 1 + 1
      BY ONLY <3>1, FS_Interval
    <3> QED
      BY <3>1, <3>2, Zenon
  <2>4. Cardinality(lNamespaces) < Cardinality(1 .. n + 1)
    <3>1. n < n + 1
      BY <1>1
    <3> QED
      BY <2>3, <3>1, Zenon
  <2> HIDE DEF f
  <2>5. \E x, y \in 1 .. n + 1 : x # y /\ f[x] = f[y]
    <3> HIDE DEF n
    <3>1. /\ IsFiniteSet(1 .. n + 1) /\ IsFiniteSet(lNamespaces)
          /\ Cardinality(lNamespaces) < Cardinality(1 .. n + 1)
          /\ f \in [1 .. n + 1 -> lNamespaces]
      BY <1>1, <2>2, <2>3, <2>4, Zenon
    <3> QED
      BY ONLY <3>1, FS_PigeonHole
  <2> QED
    BY <2>1, <2>5, Zenon
<1>3. Min(unused) \in unused
  <2>1. unused \subseteq Nat
    BY <1>1
  <2> HIDE DEF unused
  <2> QED
    BY <1>2, <2>1, MinNat
<1>4. FreeNSID = Min(unused)
  BY Zenon DEF FreeNSID
<1>5. FreeNSID \in 1 .. n + 1 /\ Named(FreeNSID) = {}
  BY <1>3, <1>4, Zenon
<1> HIDE DEF n, unused
<1>6. FreeNSID \in Nat \ {0}
  BY <1>1, <1>5
<1>7. FreeNSID \notin NSIDsOf(lNamespaces)
  BY <1>5 DEF Named, NSIDsOf
<1> QED
  BY <1>6, <1>7

\* A namespace is found by its NSID, and there is only one.
LEMMA NamedOne ==
  ASSUME Sound(lNamespaces), NEW nsid, Named(nsid) # {}
  PROVE  /\ Find(nsid) \in lNamespaces /\ Find(nsid).nsid = nsid
         /\ Named(nsid) = {Find(nsid)}
<1>1. \E ns \in lNamespaces : ns.nsid = nsid
  BY DEF Named
<1>2. Find(nsid) \in lNamespaces /\ Find(nsid).nsid = nsid
  BY <1>1, Zenon DEF Find
<1>3. \A ns \in Named(nsid) : ns \in lNamespaces /\ ns.nsid = nsid
  BY DEF Named
<1>4. \A ns \in Named(nsid) : ns = Find(nsid)
  BY <1>2, <1>3, Zenon DEF Sound
<1> QED
  BY <1>2, <1>4 DEF Named

LEMMA SameNamespaces ==
  ASSUME Accounts, UNCHANGED namespaceVars
  PROVE  Accounts' /\ NSIDsOf(lNamespaces') = NSIDsOf(lNamespaces)
BY DEF Accounts, namespaceVars, NSIDsOf, Sound, Exact, HasRoom, Freed

-----------------------------------------------------------------------------
(* The commands of the host. *)

LEMMA CameQuiet ==
  ASSUME NEW op, op # "create", NEW arg, NEW pointer, NEW stages, NEW q
  PROVE  Quiet(Came(Command(op, arg, pointer, stages)), q)
<1> DEFINE r == Command(op, arg, pointer, stages)
           e == [r EXCEPT !.answers = 1]
<1>1. IsCommand(r) /\ r.op = op
  BY DEF Command, IsCommand
<1>2. IsCommand(e) /\ e.op = op
  BY DEF Command, IsCommand
<1>3. Quiet(Begin(r), q)
  BY OtherBegun, Zenon
<1> HIDE DEF r, e
<1>4. IsCommand(Begin(e)) /\ Begin(e).op = op
  BY <1>2, BeginCommand, Zenon
<1>5. Quiet(Begin(e), q) /\ Quiet(Fail(e), q)
  BY <1>2, <1>4, OtherQuiet, FailQuiet, Zenon
<1>6. Came(r) = Begin(r) \/ Came(r) = Begin(e) \/ Came(r) = Fail(e)
  BY Zenon DEF Came, e
<1> QED
  BY <1>3, <1>5, <1>6, Zenon DEF r

\* A command that comes, and creates nothing, leaves the invariant as it was.
LEMMA OtherSubmitted ==
  ASSUME DeviceInv, kind = "nvm", kind' = kind, NEW s \in Slot, NEW r,
         Submit(s, r), Quiet(r, command[s]), UNCHANGED namespaceVars
  PROVE  DeviceInv'
<1>1. Accounts' /\ NSIDsOf(lNamespaces') \subseteq NSIDsOf(lNamespaces)
  BY SameNamespaces, Zenon DEF DeviceInv
<1>2. command' = [command EXCEPT ![s] = r]
  BY DEF Submit
<1>3. Creations'
  BY <1>1, <1>2, QuietStep, Zenon DEF DeviceInv
<1> QED
  BY <1>1, <1>3 DEF DeviceInv

LEMMA SubmitCreateInv ==
  ASSUME DeviceInv, kind = "nvm", kind' = kind, NEW s \in Slot, NEW new \in NewNamespace,
         SubmitCreate(s, new)
  PROVE  DeviceInv'
<1>1. PICK p \in Pointers :
        Submit(s, Begin(Command("create", [nsid |-> FreeNSID, new |-> new], p,
                                PointerStages(p) \o <<"in">>)))
  BY DEF SubmitCreate, PointersFor
<1> DEFINE arg == [nsid |-> FreeNSID, new |-> new]
           stages == PointerStages(p) \o <<"in">>
           c == Command("create", arg, p, stages)
           r == Begin(c)
<1>2. UNCHANGED namespaceVars /\ ~Creating
  BY DEF SubmitCreate
<1>3. Accounts' /\ NSIDsOf(lNamespaces') = NSIDsOf(lNamespaces) /\ Sound(lNamespaces)
  BY <1>2, SameNamespaces, Zenon DEF DeviceInv, Accounts
<1>4. arg.nsid = FreeNSID /\ arg.new = new
  OBVIOUS
<1>5. FreeNSID \in Nat \ {0} /\ FreeNSID \notin NSIDsOf(lNamespaces)
  BY <1>3, FreeNSIDUnused, Zenon
<1>6. InLast(stages)
  BY CreationStages
<1> HIDE DEF arg, stages
<1>7. IsCommand(c) /\ c.op = "create" /\ c.arg = arg /\ c.stages = stages /\ c.answers = 0
  BY DEF Command, IsCommand
<1> HIDE DEF c
<1>8. /\ IsCommand(r) /\ r.arg = arg /\ r.stages = stages
      /\ r.stages # <<>> => r.answers = 0
  BY <1>7, BeginCommand, Zenon
<1>9. command' = [command EXCEPT ![s] = r]
  BY <1>1, Zenon DEF Submit, c, stages, arg
<1> HIDE DEF r
<1>10. /\ command = [t \in Slot |-> command[t]]
       /\ \A t \in Slot : IsCommand(command[t])
       /\ \A t \in Slot : Creates(command[t]) => command[t].answers = 0
  BY Zenon DEF DeviceInv, Creations
<1>11. command' = [t \in Slot |-> IF t = s THEN r ELSE command[t]]
  BY <1>9, <1>10
<1>12. /\ command' = [t \in Slot |-> command'[t]]
       /\ command'[s] = r /\ \A t \in Slot \ {s} : command'[t] = command[t]
  BY <1>11
<1>13. \A t \in Slot : ~Creates(command[t])
  BY <1>2, <1>10, Zenon DEF Creating, Creates
<1>14. \A t \in Slot : Creates(command'[t]) => t = s
  BY <1>12, <1>13, Zenon
<1>15. \A t \in Slot : IsCommand(command'[t])
  BY <1>8, <1>10, <1>12, Zenon
<1>16. Creates(r) => /\ r.answers = 0 /\ r.arg.nsid \in Nat \ {0}
                     /\ r.arg.new \in NewNamespace
                     /\ r.arg.nsid \notin NSIDsOf(lNamespaces') /\ InLast(r.stages)
  BY <1>3, <1>4, <1>5, <1>6, <1>8, Zenon DEF Creates
<1>17. Creations'
  BY <1>12, <1>14, <1>15, <1>16, Zenon DEF Creations
<1> QED
  BY <1>3, <1>17 DEF DeviceInv

-----------------------------------------------------------------------------
(* What becomes of them. *)

\* When the one creation ends, none is left.
LEMMA CreationEnds ==
  ASSUME Creations, kind = "nvm", kind' = kind, NEW s \in Slot, NEW r,
         command' = [command EXCEPT ![s] = r], IsCommand(r), ~Creates(r),
         Creates(command[s])
  PROVE  Creations'
<1>1. /\ command = [t \in Slot |-> command[t]]
      /\ \A t \in Slot : IsCommand(command[t])
      /\ \A t \in Slot : Creates(command[t]) => t = s
  BY Zenon DEF Creations
<1>2. command' = [t \in Slot |-> IF t = s THEN r ELSE command[t]]
  BY <1>1
<1>3. /\ command' = [t \in Slot |-> command'[t]]
      /\ command'[s] = r /\ \A t \in Slot \ {s} : command'[t] = command[t]
  BY <1>2
<1>4. \A t \in Slot : IsCommand(command'[t]) /\ ~Creates(command'[t])
  BY <1>1, <1>3, Zenon
<1> QED
  BY <1>3, <1>4, Zenon DEF Creations

LEMMA CreateInv ==
  ASSUME DeviceInv, kind = "nvm", kind' = kind, NEW s \in Slot, Create(s)
  PROVE  DeviceInv'
<1> DEFINE present == {ns.range : ns \in lNamespaces}
           size(r) == r.arg.new[1]
           lba(r) == r.arg.new[2]
           range(r) == Allocate(size(r), lba(r), lNamespaces, allocatedLogicalPages)
           made(r) == Namespace(r.arg.nsid, range(r), size(r), lba(r), FALSE)
<1>1. PICK r \in StageEnded(s, "in") :
        /\ bug' = (bug \/ ~Inverts(present))
        /\ IF range(r).nlp = 0
           THEN /\ command' = [command EXCEPT ![s] = Fail(r)]
                /\ UNCHANGED <<lNamespaces, allocatedLogicalPages>>
           ELSE /\ command' = [command EXCEPT ![s] = NextStage(r)]
                /\ lNamespaces' = lNamespaces \cup {made(r)}
                /\ allocatedLogicalPages' =
                     allocatedLogicalPages + RequestedLogicalPages(size(r), lba(r))
  BY Zenon DEF Create
<1>2. Accounts /\ Creations /\ Sound(lNamespaces) /\ IsCommand(command[s])
  BY Zenon DEF DeviceInv, Accounts, Creations
<1>3. /\ command[s].op = "create" /\ command[s].stages # <<>>
      /\ r.arg = command[s].arg
      /\ IsCommand(Fail(r)) /\ Fail(r).stages = <<>>
      /\ IsCommand(NextStage(r)) /\ NextStage(r).stages = Tail(command[s].stages)
  <2>1. command[s].op = "create"
    BY DEF Create
  <2>2. /\ command[s].stages # <<>> /\ IsCommand(r) /\ r.arg = command[s].arg
    BY <1>2, StageEndedFields, Zenon
  <2>3. IsCommand(NextStage(r)) /\ NextStage(r).stages = Tail(command[s].stages)
    BY <1>2, StageEndedQuiet, Zenon
  <2>4. IsCommand(Fail(r)) /\ Fail(r).stages = <<>>
    BY <2>2, FailQuiet, Zenon
  <2> QED
    BY <2>1, <2>2, <2>3, <2>4, Zenon
<1>4. Creates(command[s])
  BY <1>3, Zenon DEF Creates
<1>5. /\ r.arg.nsid \in Nat \ {0} /\ r.arg.new \in NewNamespace
      /\ r.arg.nsid \notin NSIDsOf(lNamespaces) /\ InLast(command[s].stages)
  BY <1>2, <1>3, <1>4, Zenon DEF Creations
<1>6. NextStage(r).stages = <<>>
  <2>1. AtStage(s, {"in"})
    BY Zenon DEF StageEnded
  <2>2. Head(command[s].stages) = "in"
    BY <2>1 DEF AtStage
  <2> QED
    BY <1>3, <1>5, <2>2, InLastTail, Zenon
<1>7. ~Creates(Fail(r)) /\ ~Creates(NextStage(r))
  BY <1>3, <1>6, Zenon DEF Creates
<1>8. Creations'
  BY <1>1, <1>2, <1>3, <1>4, <1>7, CreationEnds, Zenon
<1>9. size(r) \in Nat /\ lba(r) \in Nat \ {0}
  BY <1>5, SubsystemAssumption
<1>10. bug' = FALSE
  <2>1. Inverts(present)
    BY <1>2, SoundInverts, Zenon
  <2>2. bug = FALSE
    BY <1>2 DEF Accounts
  <2> HIDE DEF present
  <2> QED
    BY <1>1, <2>1, <2>2
<1>11. CASE range(r).nlp = 0
  <2>1. lNamespaces' = lNamespaces /\ allocatedLogicalPages' = allocatedLogicalPages
    BY <1>1, <1>11, Zenon
  <2>2. Accounts'
    BY <1>2, <1>10, <2>1, Zenon DEF Accounts
  <2> QED
    BY <1>8, <2>2 DEF DeviceInv
<1>12. CASE range(r).nlp # 0
  <2> DEFINE m == RequestedLogicalPages(size(r), lba(r))
             x == made(r)
  <2>1. /\ lNamespaces' = lNamespaces \cup {x}
        /\ allocatedLogicalPages' = allocatedLogicalPages + m
    BY <1>1, <1>12, Zenon
  <2>2. m \in Nat /\ m = (size(r) \div LogicalPageSize) * lba(r)
    <3>1. size(r) \div LogicalPageSize \in Nat
      BY <1>9, DivBounds, SubsystemAssumption
    <3> HIDE DEF size, lba
    <3>2. (size(r) \div LogicalPageSize) * lba(r) \in Nat
      BY <1>9, <3>1
    <3> QED
      BY <3>2, Zenon DEF RequestedLogicalPages
  <2>3. range(r) = FirstFit(present, m)
    <3>1. LPNRange(0, 0).nlp = 0
      BY DEF LPNRange
    <3> QED
      BY <1>12, <3>1, Zenon DEF Allocate
  <2> HIDE DEF m
  <2>4. /\ range(r) = LPNRange(range(r).slpn, m) /\ range(r).slpn \in Nat /\ m # 0
        /\ End(range(r)) <= TotalLogicalPages
        /\ \A a \in lNamespaces : Before(a.range, range(r)) \/ Before(range(r), a.range)
    <3>1. FirstFit(present, m).nlp # 0
      BY <1>12, <2>3, Zenon
    <3> HIDE DEF range
    <3> QED
      BY <1>2, <2>2, <2>3, <3>1, FirstFitApart, Zenon
  <2> HIDE DEF range, size, lba
  <2>5. /\ x = [nsid |-> r.arg.nsid, range |-> range(r), size |-> size(r),
                lbaSize |-> lba(r), attached |-> FALSE]
        /\ range(r) = [slpn |-> range(r).slpn, nlp |-> m]
    BY <2>4, Zenon DEF Namespace, LPNRange
  <2> HIDE DEF made, x
  <2>6. /\ x.nsid = r.arg.nsid /\ x.range = range(r) /\ x.range.nlp = m
        /\ x.size = size(r) /\ x.lbaSize = lba(r)
    BY <2>5
  <2>7. x \in NamespaceType
    <3>1. range(r) \in [slpn : Nat, nlp : Nat \ {0}]
      BY <2>2, <2>4, <2>5
    <3>2. r.arg.nsid \in Nat \ {0}
      BY <1>5
    <3> QED
      BY ONLY <1>9, <2>5, <3>1, <3>2 DEF NamespaceType
  <2>8. Exact(x)
    <3>1. ASSUME size(r) * lba(r) <= m * LogicalPageSize
          PROVE  (size(r) * lba(r)) \div LogicalPageSize = m
      BY <1>9, <2>2, <3>1, CreatedExact, SubsystemAssumption
    <3> QED
      BY <2>6, <3>1, Zenon DEF Exact, HasRoom, Freed
  <2>9. \A a \in lNamespaces : a.nsid # x.nsid
    BY <1>5, <2>6, Zenon DEF NSIDsOf
  <2>10. Sound(lNamespaces \cup {x}) /\ x \notin lNamespaces
    <3>1. /\ End(x.range) <= TotalLogicalPages
          /\ \A a \in lNamespaces : Before(a.range, x.range) \/ Before(x.range, a.range)
      BY <2>4, <2>6, Zenon
    <3>2. \A a \in lNamespaces :
            /\ a.nsid # x.nsid
            /\ Before(a.range, x.range) \/ Before(x.range, a.range)
      BY <2>9, <3>1, Zenon
    <3> QED
      BY ONLY <1>2, <2>7, <2>8, <3>1, <3>2, SoundWith, Zenon
  <2>11. /\ PagesOf(lNamespaces) \in Nat
         /\ PagesOf(lNamespaces \cup {x}) = m + PagesOf(lNamespaces)
    BY <1>2, <2>2, <2>6, <2>10, PagesWith, SoundCounted, Zenon
  <2>12. allocatedLogicalPages = PagesOf(lNamespaces)
    BY <1>2 DEF Accounts
  <2>13. allocatedLogicalPages' = PagesOf(lNamespaces')
    <3>1. \A n \in Nat : n + m = m + n
      BY <2>2
    <3> QED
      BY <2>1, <2>11, <2>12, <3>1, Zenon
  <2>14. Accounts'
    BY <1>10, <2>1, <2>10, <2>13, Zenon DEF Accounts
  <2> QED
    BY <1>8, <2>14 DEF DeviceInv
<1> QED
  BY <1>11, <1>12

LEMMA DeleteInv ==
  ASSUME DeviceInv, kind = "nvm", kind' = kind, NEW s \in Slot, NEW nsid,
         Delete(s, nsid)
  PROVE  DeviceInv'
<1> DEFINE c == Command("delete", <<>>, NoPointer, <<>>)
           r == IF Named(nsid) = {} THEN Fail(c) ELSE Begin(c)
<1>1. Accounts /\ Creations /\ Sound(lNamespaces)
  BY Zenon DEF DeviceInv, Accounts
<1>2. /\ command' = [command EXCEPT ![s] = r] /\ bug' = bug
      /\ lNamespaces' = lNamespaces \ Named(nsid)
      /\ allocatedLogicalPages' =
           allocatedLogicalPages - (IF Named(nsid) = {} THEN 0 ELSE Freed(Find(nsid)))
      /\ \A ns \in Named(nsid) : HasRoom(ns)
  BY Zenon DEF Delete, Submit
<1>3. Quiet(r, command[s])
  <2>1. Quiet(Begin(c), command[s]) /\ Quiet(Fail(c), command[s])
    BY OtherBegun
  <2> QED
    BY <2>1, Zenon
<1> HIDE DEF r
<1>4. NSIDsOf(lNamespaces') \subseteq NSIDsOf(lNamespaces)
  BY <1>2 DEF NSIDsOf
<1>5. Creations'
  BY <1>1, <1>2, <1>3, <1>4, QuietStep, Zenon
<1>6. allocatedLogicalPages = PagesOf(lNamespaces) /\ bug' = FALSE
  BY <1>1, <1>2 DEF Accounts
<1>7. Sound(lNamespaces')
  BY <1>1, <1>2, SoundWithout
<1>8. allocatedLogicalPages' = PagesOf(lNamespaces')
  <2>1. CASE Named(nsid) = {}
    <3>1. lNamespaces' = lNamespaces
      BY <1>2, <2>1
    <3>2. PagesOf(lNamespaces) \in Nat
      <4>1. CASE lNamespaces = {}
        BY <4>1, PagesOfNone
      <4>2. CASE lNamespaces # {}
        <5>1. PICK y \in lNamespaces : TRUE
          BY <4>2
        <5> QED
          BY <1>1, <5>1, PagesWithout, SoundCounted, Zenon
      <4> QED
        BY <4>1, <4>2
    <3> QED
      BY <1>2, <1>6, <2>1, <3>1, <3>2
  <2>2. CASE Named(nsid) # {}
    <3> DEFINE x == Find(nsid)
    <3>1. x \in lNamespaces /\ Named(nsid) = {x}
      BY <1>1, <2>2, NamedOne, Zenon
    <3>2. allocatedLogicalPages' = allocatedLogicalPages - Freed(x)
      BY <1>2, <2>2, Zenon
    <3> HIDE DEF x
    <3>3. Freed(x) = x.range.nlp
      BY <1>1, <1>2, <3>1, Zenon DEF Sound, Exact
    <3>4. x.range.nlp \in Nat
      BY <1>1, <3>1, SoundCounted, Zenon DEF Counted
    <3>5. /\ PagesOf(lNamespaces \ {x}) \in Nat
          /\ PagesOf(lNamespaces) = x.range.nlp + PagesOf(lNamespaces \ {x})
      BY <1>1, <3>1, PagesWithout, SoundCounted, Zenon
    <3>6. \A a, b \in Nat : (a + b) - a = b
      OBVIOUS
    <3>7. lNamespaces' = lNamespaces \ {x}
      BY <1>2, <3>1, Zenon
    <3>8. allocatedLogicalPages' = (x.range.nlp + PagesOf(lNamespaces \ {x})) - x.range.nlp
      BY <1>6, <3>2, <3>3, <3>5, Zenon
    <3>9. allocatedLogicalPages' = PagesOf(lNamespaces \ {x})
      BY <3>4, <3>5, <3>6, <3>8, Zenon
    <3> QED
      BY <3>7, <3>9, Zenon
  <2> QED
    BY <2>1, <2>2
<1>9. Accounts'
  BY <1>6, <1>7, <1>8, Zenon DEF Accounts
<1> QED
  BY <1>5, <1>9 DEF DeviceInv

\* A namespace changes, but not its NSID or its range.
LEMMA NamespaceChanges ==
  ASSUME Accounts, NEW x \in lNamespaces, NEW y \in NamespaceType,
         y.nsid = x.nsid, y.range = x.range, Exact(y),
         lNamespaces' = (lNamespaces \ {x}) \cup {y},
         UNCHANGED <<allocatedLogicalPages, bug>>
  PROVE  Accounts' /\ NSIDsOf(lNamespaces') = NSIDsOf(lNamespaces)
<1>1. Sound(lNamespaces) /\ allocatedLogicalPages = PagesOf(lNamespaces) /\ bug = FALSE
  BY DEF Accounts
<1>2. /\ Sound((lNamespaces \ {x}) \cup {y})
      /\ PagesOf((lNamespaces \ {x}) \cup {y}) = PagesOf(lNamespaces)
  BY <1>1, SoundChanged, Zenon
<1>3. Accounts'
  BY <1>1, <1>2, Zenon DEF Accounts
<1>4. NSIDsOf((lNamespaces \ {x}) \cup {y}) = NSIDsOf(lNamespaces)
  BY DEF NSIDsOf
<1> QED
  BY <1>3, <1>4, Zenon

LEMMA AttachmentInv ==
  ASSUME DeviceInv, kind = "nvm", kind' = kind, NEW s \in Slot, Attachment(s)
  PROVE  DeviceInv'
<1>1. PICK r \in StageEnded(s, "in") :
        LET found == Named(r.arg.nsid)
            attach == r.arg.sel = "attach"
            ok == IF attach THEN \E ns \in found : ~ns.attached
                  ELSE \A ns \in found : ns.attached
        IN
        /\ command' = [command EXCEPT ![s] = IF ok THEN NextStage(r) ELSE Fail(r)]
        /\ lNamespaces' = (lNamespaces \ found) \cup
                            {[ns EXCEPT !.attached = attach] : ns \in found}
  BY Zenon DEF Attachment
<1> DEFINE nsid == r.arg.nsid
           attach == r.arg.sel = "attach"
<1>2. /\ Accounts /\ Creations /\ Sound(lNamespaces) /\ IsCommand(command[s])
      /\ UNCHANGED <<allocatedLogicalPages, bug>>
  BY Zenon DEF DeviceInv, Accounts, Creations, Attachment
<1>3. PICK q : command' = [command EXCEPT ![s] = q] /\ Quiet(q, command[s])
  <2>1. Quiet(NextStage(r), command[s]) /\ Quiet(Fail(r), command[s])
    BY <1>2, StageEndedQuiet, Zenon
  <2>2. \/ command' = [command EXCEPT ![s] = NextStage(r)]
        \/ command' = [command EXCEPT ![s] = Fail(r)]
    BY <1>1, Zenon
  <2> QED
    BY <2>1, <2>2, Zenon
<1>4. lNamespaces' = (lNamespaces \ Named(nsid)) \cup
                       {[ns EXCEPT !.attached = attach] : ns \in Named(nsid)}
  BY <1>1, Zenon
<1>5. Accounts' /\ NSIDsOf(lNamespaces') \subseteq NSIDsOf(lNamespaces)
  <2>1. CASE Named(nsid) = {}
    <3>1. lNamespaces' = lNamespaces
      BY <1>4, <2>1
    <3>2. UNCHANGED namespaceVars
      BY <1>2, <3>1 DEF namespaceVars
    <3> QED
      BY <1>2, <3>2, SameNamespaces, Zenon
  <2>2. CASE Named(nsid) # {}
    <3> DEFINE x == Find(nsid)
               y == [x EXCEPT !.attached = attach]
    <3>1. x \in lNamespaces /\ Named(nsid) = {x}
      BY <1>2, <2>2, NamedOne, Zenon
    <3>2. lNamespaces' = (lNamespaces \ {x}) \cup {y}
      <4> HIDE DEF nsid, attach, x
      <4>1. {[ns EXCEPT !.attached = attach] : ns \in {x}} = {y}
        BY Zenon
      <4> QED
        BY <1>4, <3>1, <4>1, Zenon
    <3>3. x \in NamespaceType /\ Exact(x)
      BY <1>2, <3>1, Zenon DEF Sound
    <3>4. attach \in BOOLEAN
      BY Zenon
    <3> HIDE DEF x, attach
    <3>5. /\ y \in NamespaceType /\ y.nsid = x.nsid /\ y.range = x.range
          /\ y.size = x.size /\ y.lbaSize = x.lbaSize
      BY <3>3, <3>4 DEF NamespaceType
    <3> HIDE DEF y
    <3>6. Exact(y)
      BY <3>3, <3>5, Zenon DEF Exact, HasRoom, Freed
    <3> QED
      BY <1>2, <3>1, <3>2, <3>5, <3>6, NamespaceChanges, Zenon
  <2> QED
    BY <2>1, <2>2
<1>6. Creations'
  BY <1>2, <1>3, <1>5, QuietStep, Zenon
<1> QED
  BY <1>5, <1>6 DEF DeviceInv

\* The LBA sizes divide the device.
WholeFormats == \A lba \in LBASize : (TotalLogicalPages * LogicalPageSize) % lba = 0

LEMMA FormatInv ==
  ASSUME WholeFormats, DeviceInv, kind = "nvm", kind' = kind, NEW s \in Slot,
         NEW nsid, NEW lba \in LBASize, FormatNVM(s, nsid, lba)
  PROVE  DeviceInv'
<1>1. /\ Accounts /\ Creations /\ Sound(lNamespaces) /\ IsCommand(command[s])
      /\ UNCHANGED <<allocatedLogicalPages, bug>>
  BY Zenon DEF DeviceInv, Accounts, Creations, FormatNVM
<1>2. CASE Named(nsid) = {}
  <2> DEFINE r == Fail(Command("format", [nsid |-> nsid], NoPointer, <<>>))
  <2>1. Submit(s, r) /\ lNamespaces' = lNamespaces
    BY <1>2, Zenon DEF FormatNVM
  <2>2. UNCHANGED namespaceVars
    BY <1>1, <2>1 DEF namespaceVars
  <2>3. Quiet(r, command[s])
    BY OtherBegun
  <2> HIDE DEF r
  <2> QED
    BY <2>1, <2>2, <2>3, OtherSubmitted, Zenon
<1>3. CASE Named(nsid) # {}
  <2> DEFINE r == Begin(Command("format", [nsid |-> nsid], NoPointer, <<"job", "HIL">>))
             x == Find(nsid)
             size == (TotalLogicalPages * LogicalPageSize) \div lba
             y == [x EXCEPT !.lbaSize = lba, !.size = size]
  <2>1. /\ command' = [command EXCEPT ![s] = r]
        /\ lNamespaces' = (lNamespaces \ Named(nsid)) \cup {y}
    BY <1>3, Zenon DEF FormatNVM, Submit
  <2>2. Quiet(r, command[s])
    BY OtherBegun
  <2>3. x \in lNamespaces /\ Named(nsid) = {x}
    BY <1>1, <1>3, NamedOne, Zenon
  <2>4. x \in NamespaceType /\ x.range.nlp \in Nat /\ End(x.range) <= TotalLogicalPages
    BY <1>1, <2>3 DEF Sound, NamespaceType
  <2>5. x.range.nlp <= TotalLogicalPages
    <3>1. x.range.slpn \in Nat
      BY <2>4 DEF NamespaceType
    <3> HIDE DEF x
    <3> QED
      BY <2>4, <3>1, SubsystemAssumption DEF End
  <2>6. lba \in Nat \ {0} /\ (TotalLogicalPages * LogicalPageSize) % lba = 0
    BY SubsystemAssumption DEF WholeFormats
  <2>7. size \in Nat
    <3>1. TotalLogicalPages * LogicalPageSize \in Nat
      BY SubsystemAssumption
    <3> QED
      BY <2>6, <3>1, DivBounds
  <2>8. ASSUME size * lba <= x.range.nlp * LogicalPageSize
        PROVE  (size * lba) \div LogicalPageSize = x.range.nlp
    BY <2>4, <2>5, <2>6, <2>8, FormattedExact, SubsystemAssumption
  <2> HIDE DEF x, size, r
  <2>9. /\ y \in NamespaceType /\ y.nsid = x.nsid /\ y.range = x.range
        /\ y.size = size /\ y.lbaSize = lba
    BY <2>4, <2>6, <2>7 DEF NamespaceType
  <2> HIDE DEF y
  <2>10. Exact(y)
    BY <2>8, <2>9, Zenon DEF Exact, HasRoom, Freed
  <2>11. lNamespaces' = (lNamespaces \ {x}) \cup {y}
    BY <2>1, <2>3, Zenon
  <2>12. Accounts' /\ NSIDsOf(lNamespaces') \subseteq NSIDsOf(lNamespaces)
    BY <1>1, <2>3, <2>9, <2>10, <2>11, NamespaceChanges, Zenon
  <2>13. Creations'
    BY <1>1, <2>1, <2>2, <2>12, QuietStep, Zenon
  <2> QED
    BY <2>12, <2>13 DEF DeviceInv
<1> QED
  BY <1>2, <1>3

LEMMA NamespaceSubmitInv ==
  ASSUME DeviceInv, kind = "nvm", kind' = kind, NEW s \in Slot, NamespaceSubmit(s)
  PROVE  DeviceInv'
<1>1. PICK r \in StageEnded(s, "SUBMIT_COMMAND") :
        command' = [command EXCEPT ![s] =
          IF r.op = "io" /\ ~Find(r.arg.nsid).attached THEN Fail(r) ELSE NextStage(r)]
  BY Zenon DEF NamespaceSubmit
<1>2. Accounts /\ Creations /\ IsCommand(command[s]) /\ UNCHANGED namespaceVars
  BY Zenon DEF DeviceInv, Creations, NamespaceSubmit
<1>3. PICK q : command' = [command EXCEPT ![s] = q] /\ Quiet(q, command[s])
  <2>1. Quiet(NextStage(r), command[s]) /\ Quiet(Fail(r), command[s])
    BY <1>2, StageEndedQuiet, Zenon
  <2>2. \/ command' = [command EXCEPT ![s] = NextStage(r)]
        \/ command' = [command EXCEPT ![s] = Fail(r)]
    BY <1>1, Zenon
  <2> QED
    BY <2>1, <2>2, Zenon
<1>4. Accounts' /\ NSIDsOf(lNamespaces') \subseteq NSIDsOf(lNamespaces)
  BY <1>2, SameNamespaces, Zenon
<1>5. Creations'
  BY <1>2, <1>3, <1>4, QuietStep, Zenon
<1> QED
  BY <1>4, <1>5 DEF DeviceInv

LEMMA ConvertInv ==
  ASSUME DeviceInv, kind = "nvm", kind' = kind, NEW s \in Slot, Convert(s)
  PROVE  DeviceInv'
<1>0. PICK r \in StageEnded(s, "job") :
        \E request \in {RequestOf(ns, r.arg.io) : ns \in Named(r.arg.nsid)} :
          command' = [command EXCEPT ![s] = [NextStage(r) EXCEPT !.arg.request = request]]
  BY Zenon DEF Convert
<1>1. PICK request :
        command' = [command EXCEPT ![s] = [NextStage(r) EXCEPT !.arg.request = request]]
  BY <1>0, Zenon
<1>2. /\ Accounts /\ Creations /\ IsCommand(command[s]) /\ UNCHANGED namespaceVars
      /\ command[s].op = "io"
  BY Zenon DEF DeviceInv, Creations, Convert
<1> DEFINE n == NextStage(r)
           q == [n EXCEPT !.arg.request = request]
<1>3. IsCommand(n) /\ n.op = "io"
  BY <1>2, StageEndedQuiet, Zenon
<1> HIDE DEF n
<1>4. IsCommand(q) /\ q.op = "io"
  <2>1. n = [op |-> n.op, arg |-> n.arg, pointer |-> n.pointer, data |-> n.data,
             stages |-> n.stages, under |-> n.under, moved |-> n.moved,
             status |-> n.status, answers |-> n.answers]
    BY <1>3 DEF IsCommand
  <2>2. PICK e : e = [n.arg EXCEPT !.request = request]
    OBVIOUS
  <2>3. q = [n EXCEPT !.arg = e]
    BY <2>2
  <2>4. q = [op |-> n.op, arg |-> e, pointer |-> n.pointer, data |-> n.data,
             stages |-> n.stages, under |-> n.under, moved |-> n.moved,
             status |-> n.status, answers |-> n.answers]
    <3> HIDE DEF q
    <3> QED
      BY <2>1, <2>3
  <2> HIDE DEF q
  <2> QED
    BY <1>3, <2>4 DEF IsCommand
<1> HIDE DEF q
<1>5. Quiet(q, command[s])
  BY <1>4, OtherQuiet, Zenon
<1>6. command' = [command EXCEPT ![s] = q]
  BY <1>1, Zenon DEF q, n
<1>7. Accounts' /\ NSIDsOf(lNamespaces') \subseteq NSIDsOf(lNamespaces)
  BY <1>2, SameNamespaces, Zenon
<1>8. Creations'
  BY <1>2, <1>5, <1>6, <1>7, QuietStep, Zenon
<1> QED
  BY <1>7, <1>8 DEF DeviceInv

LEMMA CallbackInv ==
  ASSUME DeviceInv, kind = "nvm", kind' = kind, NEW s \in Slot, SubsystemCallback(s)
  PROVE  DeviceInv'
<1>1. Accounts /\ Creations /\ IsCommand(command[s]) /\ UNCHANGED namespaceVars
  BY Zenon DEF DeviceInv, Creations, SubsystemCallback
<1>2. PICK q : command' = [command EXCEPT ![s] = q] /\ Quiet(q, command[s])
  <2>1. ASSUME PieceEnds(s)
        PROVE  \E q : command' = [command EXCEPT ![s] = q] /\ Quiet(q, command[s])
    <3>1. PICK piece \in command[s].under :
            command' = [command EXCEPT ![s] = EndPiece(command[s], piece)]
      BY <2>1, Zenon DEF PieceEnds
    <3> DEFINE q == EndPiece(command[s], piece)
    <3>2. /\ IsCommand(q) /\ q.op = command[s].op /\ q.arg = command[s].arg
          /\ q.stages = command[s].stages /\ q.answers = command[s].answers
      BY <1>1, EndPieceFields, Zenon
    <3> HIDE DEF q
    <3>3. Quiet(q, command[s])
      BY <3>2, Zenon DEF Quiet, Creates
    <3> QED
      BY <3>1, <3>3, Zenon DEF q
  <2>2. ASSUME NEW stages, GoesOn(s, stages)
        PROVE  \E q : command' = [command EXCEPT ![s] = q] /\ Quiet(q, command[s])
    <3>1. PICK r \in StageEnded(s, Head(command[s].stages)) :
            command' = [command EXCEPT ![s] = NextStage(r)]
      BY <2>2, Zenon DEF GoesOn
    <3>2. Quiet(NextStage(r), command[s])
      BY <1>1, StageEndedQuiet, Zenon
    <3> QED
      BY <3>1, <3>2, Zenon
  <2> QED
    BY <2>1, <2>2, Zenon DEF SubsystemCallback
<1>3. Accounts' /\ NSIDsOf(lNamespaces') \subseteq NSIDsOf(lNamespaces)
  BY <1>1, SameNamespaces, Zenon
<1>4. Creations'
  BY <1>1, <1>2, <1>3, QuietStep, Zenon
<1> QED
  BY <1>3, <1>4 DEF DeviceInv

LEMMA TakenInv ==
  ASSUME DeviceInv, NEW s \in Slot, Taken(s)
  PROVE  DeviceInv'
<1>1. /\ command' = [command EXCEPT ![s] = NoCommand]
      /\ kind' = kind /\ UNCHANGED namespaceVars
  BY DEF Taken, TakeCompletion
<1>2. Accounts' /\ NSIDsOf(lNamespaces') \subseteq NSIDsOf(lNamespaces)
  BY <1>1, SameNamespaces, Zenon DEF DeviceInv
<1>3. Quiet(NoCommand, command[s])
  BY OtherBegun DEF NoCommand
<1>4. Creations'
  <2>1. CASE kind = "nvm"
    BY <1>1, <1>2, <1>3, <2>1, QuietStep, Zenon DEF DeviceInv
  <2>2. CASE kind # "nvm"
    BY <1>1, <2>2, Zenon DEF Creations
  <2> QED
    BY <2>1, <2>2
<1> QED
  BY <1>2, <1>4 DEF DeviceInv

LEMMA HostInv ==
  ASSUME WholeFormats, DeviceInv, kind = "nvm", kind' = kind, NEW s \in Slot,
         SubsystemHost(s)
  PROVE  DeviceInv'
<1>1. CASE \E op \in AdminOps \cap {"identify", "getLogPage", "namespaceLogPage",
                              "deleteSQueue", "deleteCQueue", "abort", "setFeatures",
                              "getFeatures", "csd", "asyncEventReq"} : AdminCommand(s, op)
  <2>1. PICK op : op # "create" /\ AdminCommand(s, op)
    BY <1>1
  <2>2. PICK p, nsid :
          /\ Submit(s, Came(Command(op, [nsid |-> nsid], p, AdminStages(op, p))))
          /\ UNCHANGED namespaceVars
    BY <2>1, Zenon DEF AdminCommand
  <2>3. Quiet(Came(Command(op, [nsid |-> nsid], p, AdminStages(op, p))), command[s])
    BY <2>1, CameQuiet, Zenon
  <2> QED
    BY <2>2, <2>3, OtherSubmitted, Zenon
<1>2. ASSUME NEW op, op # "create", NEW ret, Submit(s, QueueCommand(op, ret)),
             UNCHANGED namespaceVars
      PROVE  DeviceInv'
  <2>1. Quiet(QueueCommand(op, ret), command[s])
    BY <1>2, OtherBegun, Zenon DEF QueueCommand
  <2> QED
    BY <1>2, <2>1, OtherSubmitted, Zenon
<1>3. CASE Has("createSQueue") /\ \E ret \in {0, 2} : createSQueue(s, ret)
  <2>1. "createSQueue" # "create"
    OBVIOUS
  <2> QED
    BY <1>2, <1>3, <2>1, Zenon DEF createSQueue
<1>4. CASE Has("createCQueue") /\ \E ret \in {0, 1} : createCQueue(s, ret)
  <2>1. "createCQueue" # "create"
    OBVIOUS
  <2> QED
    BY <1>2, <1>4, <2>1, Zenon DEF createCQueue
<1>5. CASE Has("create") /\ \E new \in NewNamespace : SubmitCreate(s, new)
  BY <1>5, SubmitCreateInv, Zenon
<1>6. CASE Has("delete") /\ \E nsid \in NSIDs : Delete(s, nsid)
  BY <1>6, DeleteInv, Zenon
<1>7. ASSUME NEW nsid, NEW sel, SubmitAttachment(s, nsid, sel) PROVE DeviceInv'
  <2>1. PICK p : /\ Submit(s, Begin(Command("attach", [nsid |-> nsid, sel |-> sel], p,
                                            PointerStages(p) \o <<"in">>)))
                 /\ UNCHANGED namespaceVars
    BY <1>7, Zenon DEF SubmitAttachment
  <2>2. "attach" # "create"
    OBVIOUS
  <2>3. Quiet(Begin(Command("attach", [nsid |-> nsid, sel |-> sel], p,
                            PointerStages(p) \o <<"in">>)), command[s])
    BY <2>2, OtherBegun, Zenon
  <2> QED
    BY <2>1, <2>3, OtherSubmitted, Zenon
<1>8. CASE Has("format") /\ \E nsid \in NSIDs, lba \in LBASize : FormatNVM(s, nsid, lba)
  BY <1>8, FormatInv, Zenon
<1>9. ASSUME NEW nsid, NEW io, SubmitIO(s, nsid, io) PROVE DeviceInv'
  <2> DEFINE arg == [nsid |-> nsid, io |-> io, request |-> Request(0, 0, 0, 0)]
             failed == Fail(Command("io", arg, NoPointer, <<>>))
             begun(p) == Begin(Command("io", arg, p,
                                       <<"SUBMIT_COMMAND">> \o IOStages(io.op, p)))
  <2>1. /\ Submit(s, failed) \/ \E p : Submit(s, begun(p))
        /\ UNCHANGED namespaceVars
    BY <1>9, Zenon DEF SubmitIO
  <2>2. "io" # "create"
    OBVIOUS
  <2>3. Quiet(failed, command[s]) /\ \A p : Quiet(begun(p), command[s])
    BY <2>2, OtherBegun, Zenon
  <2> HIDE DEF failed, begun
  <2> QED
    BY <2>1, <2>3, OtherSubmitted, Zenon
<1> QED
  BY <1>1, <1>3, <1>4, <1>5, <1>6, <1>7, <1>8, <1>9, Zenon DEF SubsystemHost

LEMMA DeviceStepInv ==
  ASSUME WholeFormats
  PROVE  DeviceInv /\ [Next]_deviceVars => DeviceInv'
<1> SUFFICES ASSUME DeviceInv, [Next]_deviceVars PROVE DeviceInv'
  OBVIOUS
<1>1. ASSUME NEW s \in Slot, NvmHost(s) PROVE DeviceInv'
  BY <1>1, HostInv, Zenon DEF NvmHost
<1>2. ASSUME NEW s \in Slot, NvmStep(s) PROVE DeviceInv'
  <2>1. kind = "nvm" /\ kind' = kind /\ SubsystemStep(s)
    BY <1>2 DEF NvmStep
  <2> QED
    BY <2>1, CreateInv, AttachmentInv, NamespaceSubmitInv, ConvertInv, CallbackInv, Zenon
       DEF SubsystemStep
<1>3. ASSUME kind # "nvm", kind' = kind, UNCHANGED namespaceVars PROVE DeviceInv'
  <2>1. Accounts'
    BY <1>3, SameNamespaces, Zenon DEF DeviceInv
  <2> QED
    BY <1>3, <2>1, Zenon DEF DeviceInv, Creations
<1>4. ASSUME NEW s \in Slot, OpenChannelHost(s) PROVE DeviceInv'
  <2>1. kind # "nvm" /\ kind' = kind /\ UNCHANGED namespaceVars
    BY <1>4 DEF OpenChannelHost
  <2> QED
    BY <1>3, <2>1, Zenon
<1>5. ASSUME NEW s \in Slot, ChunkStep(s) PROVE DeviceInv'
  <2>1. kind # "nvm" /\ kind' = kind /\ UNCHANGED namespaceVars
    BY <1>5 DEF ChunkStep
  <2> QED
    BY <1>3, <2>1, Zenon
<1>6. CASE Flash
  <2>1. kind # "nvm" /\ kind' = kind /\ UNCHANGED namespaceVars
    BY <1>6 DEF Flash
  <2> QED
    BY <1>3, <2>1, Zenon
<1>7. CASE UNCHANGED deviceVars
  <2>1. kind' = kind /\ command' = command /\ UNCHANGED namespaceVars
    BY <1>7 DEF deviceVars, commandVars
  <2>2. Accounts' /\ NSIDsOf(lNamespaces') = NSIDsOf(lNamespaces)
    BY <2>1, SameNamespaces, Zenon DEF DeviceInv
  <2> QED
    BY <2>1, <2>2, Zenon DEF DeviceInv, Creations
<1> QED
  BY <1>1, <1>2, <1>4, <1>5, <1>6, <1>7, TakenInv, Zenon DEF Next

-----------------------------------------------------------------------------
(* The namespaces at first. *)

\* init() panics when a default namespace cannot be created.
DefaultsCreated == DefaultNamespaces > 0 => DefaultPages(1) > 0

DefaultOne(n) ==
  Namespace(n, LPNRange(DefaultPages(n - 1), DefaultPages(1)), DefaultSize,
            DefaultLBASize, TRUE)
Defaults(k) == {DefaultOne(n) : n \in 1 .. k}

\* The default namespaces follow one another, each as long as the others.
LEMMA DefaultFields ==
  ASSUME DefaultsCreated, DefaultNamespaces > 0
  PROVE  \E m \in Nat \ {0} :
           /\ m = (DefaultSize \div LogicalPageSize) * DefaultLBASize
           /\ DefaultSize \in Nat /\ DefaultNamespaces * m <= TotalLogicalPages
           /\ \A n \in Nat : DefaultPages(n) = n * m
           /\ \A n \in Nat \ {0} :
                /\ DefaultOne(n).nsid = n
                /\ DefaultOne(n).range.slpn = (n - 1) * m
                /\ DefaultOne(n).range.nlp = m
                /\ DefaultOne(n) \in NamespaceType
                /\ DefaultOne(n).size = DefaultSize
                /\ DefaultOne(n).lbaSize = DefaultLBASize
<1> DEFINE m == (DefaultSize \div LogicalPageSize) * DefaultLBASize
<1>1. /\ TotalLogicalPages \in Nat /\ LogicalPageSize \in Nat \ {0}
      /\ DefaultLBASize \in Nat \ {0} /\ DefaultNamespaces \in Nat \ {0}
  BY SubsystemAssumption
<1>2. DefaultSize \in Nat /\ m \in Nat /\ DefaultNamespaces * m <= TotalLogicalPages
  BY <1>1, DefaultFits, Zenon DEF DefaultSize
<1>3. m = RequestedLogicalPages(DefaultSize, DefaultLBASize)
  BY Zenon DEF RequestedLogicalPages
<1> HIDE DEF m
<1>4. \A n \in Nat : DefaultPages(n) = n * m
  BY <1>2, <1>3 DEF DefaultPages
<1>5. m # 0 /\ DefaultPages(1) = m
  BY <1>2, <1>4 DEF DefaultsCreated
<1>6. ASSUME NEW n \in Nat \ {0}
      PROVE  /\ DefaultOne(n).nsid = n
             /\ DefaultOne(n).range.slpn = (n - 1) * m
             /\ DefaultOne(n).range.nlp = m
             /\ DefaultOne(n) \in NamespaceType
             /\ DefaultOne(n).size = DefaultSize
             /\ DefaultOne(n).lbaSize = DefaultLBASize
  <2>1. DefaultPages(n - 1) = (n - 1) * m /\ (n - 1) * m \in Nat
    BY <1>2, <1>4
  <2>2. DefaultOne(n) = [nsid |-> n, range |-> [slpn |-> (n - 1) * m, nlp |-> m],
                         size |-> DefaultSize, lbaSize |-> DefaultLBASize,
                         attached |-> TRUE]
    BY <1>5, <2>1, Zenon DEF DefaultOne, Namespace, LPNRange
  <2> QED
    BY <1>1, <1>2, <1>5, <2>1, <2>2 DEF NamespaceType
<1> QED
  BY <1>2, <1>4, <1>5, <1>6 DEF m

\* The first k of them, with their pages counted.
LEMMA DefaultsSound ==
  ASSUME DefaultsCreated, DefaultNamespaces > 0
  PROVE  /\ Sound(Defaults(DefaultNamespaces))
         /\ PagesOf(Defaults(DefaultNamespaces)) = DefaultPages(DefaultNamespaces)
         /\ \A n \in NSIDsOf(Defaults(DefaultNamespaces)) : n \in Nat \ {0}
<1>1. PICK m \in Nat \ {0} :
           /\ m = (DefaultSize \div LogicalPageSize) * DefaultLBASize
           /\ DefaultSize \in Nat /\ DefaultNamespaces * m <= TotalLogicalPages
           /\ \A n \in Nat : DefaultPages(n) = n * m
           /\ \A n \in Nat \ {0} :
                /\ DefaultOne(n).nsid = n
                /\ DefaultOne(n).range.slpn = (n - 1) * m
                /\ DefaultOne(n).range.nlp = m
                /\ DefaultOne(n) \in NamespaceType
                /\ DefaultOne(n).size = DefaultSize
                /\ DefaultOne(n).lbaSize = DefaultLBASize
  BY DefaultFields, Zenon
<1>2. /\ TotalLogicalPages \in Nat /\ LogicalPageSize \in Nat \ {0}
      /\ DefaultLBASize \in Nat \ {0} /\ DefaultNamespaces \in Nat \ {0}
  BY SubsystemAssumption
<1>3. ASSUME NEW n \in Nat \ {0} PROVE Exact(DefaultOne(n))
  <2>1. /\ DefaultOne(n).range.nlp = m /\ DefaultOne(n).size = DefaultSize
        /\ DefaultOne(n).lbaSize = DefaultLBASize
    BY <1>1, <1>3, Zenon
  <2>2. DefaultSize * DefaultLBASize <= m * LogicalPageSize =>
          (DefaultSize * DefaultLBASize) \div LogicalPageSize = m
    BY <1>1, <1>2, CreatedExact, ZenonT(20)
  <2> QED
    BY <2>1, <2>2, Zenon DEF Exact, HasRoom, Freed
<1> DEFINE T == {k \in Nat : k <= DefaultNamespaces =>
                   Sound(Defaults(k)) /\ PagesOf(Defaults(k)) = k * m}
<1>4. 0 \in T
  <2>1. Defaults(0) = {}
    BY DEF Defaults
  <2>2. Sound({})
    BY FS_EmptySet DEF Sound
  <2>3. Sound(Defaults(0)) /\ PagesOf(Defaults(0)) = 0
    BY <2>1, <2>2, PagesOfNone, Zenon
  <2>4. 0 * m = 0
    OBVIOUS
  <2> QED
    BY <2>3, <2>4, Zenon
<1>5. ASSUME NEW k \in Nat, k \in T PROVE k + 1 \in T
  <2> SUFFICES ASSUME k + 1 <= DefaultNamespaces
               PROVE  /\ Sound(Defaults(k + 1))
                      /\ PagesOf(Defaults(k + 1)) = (k + 1) * m
    OBVIOUS
  <2>0. PICK one : one = DefaultOne(k + 1)
    OBVIOUS
  <2>1. Sound(Defaults(k)) /\ PagesOf(Defaults(k)) = k * m
    BY <1>2, <1>5
  <2>2. /\ one.nsid = k + 1 /\ one.range.slpn = k * m /\ one.range.nlp = m
        /\ one \in NamespaceType /\ Exact(one)
    BY <1>1, <1>3, <2>0
  <2>3. Defaults(k + 1) = Defaults(k) \cup {one}
    <3>1. 1 .. (k + 1) = (1 .. k) \cup {k + 1}
      OBVIOUS
    <3> QED
      BY <2>0, <3>1, Zenon DEF Defaults
  <2>4. k * m + m <= TotalLogicalPages /\ k * m \in Nat /\ (k + 1) * m = m + k * m
    <3>1. (k + 1) * m <= DefaultNamespaces * m
      BY <1>2, TimesOrder
    <3>2. (k + 1) * m = k * m + m /\ k * m \in Nat
      OBVIOUS
    <3>3. DefaultNamespaces * m \in Nat
      BY <1>2
    <3> QED
      BY <1>1, <1>2, <3>1, <3>2, <3>3
  <2>5. ASSUME NEW n \in 1 .. k
        PROVE  DefaultOne(n).nsid # k + 1 /\ Before(DefaultOne(n).range, one.range)
    <3>1. /\ DefaultOne(n).nsid = n /\ DefaultOne(n).range.slpn = (n - 1) * m
          /\ DefaultOne(n).range.nlp = m
      BY <1>1
    <3>2. (n - 1) * m + m = n * m
      OBVIOUS
    <3>3. n * m <= k * m
      BY TimesOrder
    <3>4. (n - 1) * m + m <= k * m
      BY <3>2, <3>3
    <3> QED
      BY <2>2, <3>1, <3>4 DEF Before, End
  <2>6. \A a \in Defaults(k) :
          /\ a.nsid # one.nsid
          /\ Before(a.range, one.range) \/ Before(one.range, a.range)
    BY <2>2, <2>5, Zenon DEF Defaults
  <2>7. End(one.range) <= TotalLogicalPages
    BY <2>2, <2>4 DEF End
  <2>8. Sound(Defaults(k) \cup {one}) /\ one \notin Defaults(k)
    BY ONLY <2>1, <2>2, <2>6, <2>7, SoundWith, Zenon
  <2>9. one.range.nlp \in Nat
    BY <2>2
  <2>10. PagesOf(Defaults(k) \cup {one}) = one.range.nlp + PagesOf(Defaults(k))
    BY <2>1, <2>8, <2>9, PagesWith, SoundCounted, Zenon
  <2> QED
    BY <2>1, <2>2, <2>3, <2>4, <2>8, <2>10, Zenon
<1>6. DefaultNamespaces \in T
  <2> HIDE DEF T
  <2> QED
    BY <1>2, <1>4, <1>5, NatInductionSet
<1>7. /\ Sound(Defaults(DefaultNamespaces))
      /\ PagesOf(Defaults(DefaultNamespaces)) = DefaultNamespaces * m
  BY <1>2, <1>6
<1>8. \A n \in NSIDsOf(Defaults(DefaultNamespaces)) : n \in Nat \ {0}
  BY <1>7 DEF Sound, NSIDsOf, NamespaceType
<1> QED
  BY <1>1, <1>2, <1>7, <1>8

LEMMA InitDeviceInv ==
  ASSUME DefaultsCreated
  PROVE  Init => DeviceInv
<1> SUFFICES ASSUME Init PROVE DeviceInv
  OBVIOUS
<1>1. /\ lNamespaces = Defaults(DefaultNamespaces)
      /\ allocatedLogicalPages = DefaultPages(DefaultNamespaces) /\ bug = FALSE
      /\ command = [s \in Slot |-> NoCommand]
  BY Zenon DEF Init, SubsystemInit, CommandInit, Defaults, DefaultOne
<1>2. Sound(lNamespaces) /\ allocatedLogicalPages = PagesOf(lNamespaces)
  <2>1. CASE DefaultNamespaces > 0
    BY <1>1, <2>1, DefaultsSound, Zenon
  <2>2. CASE DefaultNamespaces = 0
    <3>1. Defaults(0) = {} /\ DefaultPages(0) = 0
      BY DEF Defaults, DefaultPages
    <3>2. Sound({})
      BY FS_EmptySet DEF Sound
    <3> QED
      BY <1>1, <2>2, <3>1, <3>2, PagesOfNone, Zenon
  <2> QED
    BY <2>1, <2>2, SubsystemAssumption
<1>3. Accounts
  BY <1>1, <1>2, Zenon DEF Accounts
<1>4. IsCommand(NoCommand) /\ NoCommand.stages = <<>>
  <2>1. LET r == Command("none", <<>>, NoPointer, <<>>) IN
          /\ IsCommand(r) /\ r.op = "none" /\ r.arg = <<>> /\ r.stages = <<>>
          /\ r.answers = 0
    BY ONLY CommandFields
  <2> QED
    BY <2>1, Zenon DEF NoCommand
<1>5. \A s \in Slot : IsCommand(command[s]) /\ ~Creates(command[s])
  BY <1>1, <1>4, Zenon DEF Creates
<1>6. command = [s \in Slot |-> command[s]]
  BY <1>1
<1> QED
  BY <1>3, <1>5, <1>6, Zenon DEF DeviceInv, Creations

LEMMA DeviceInvariantHolds ==
  ASSUME WholeFormats, DefaultsCreated
  PROVE  Spec => []DeviceInv
<1>1. Init => DeviceInv
  BY InitDeviceInv
<1>2. DeviceInv /\ [Next]_deviceVars => DeviceInv'
  BY DeviceStepInv
<1> QED
  BY <1>1, <1>2, PTL DEF Spec

\* Where the LBA sizes divide the device, and init() can create its namespaces,
\* createNamespace() never gives a logical page to two namespaces, never fails to
\* find the free ranges, and counts exactly the pages it gave: for any device,
\* any namespaces asked for, and any interleaving of the commands under way.
THEOREM NamespacesAlwaysApart ==
  ASSUME WholeFormats, DefaultsCreated
  PROVE  Spec => []NamespacesApart
<1>1. DeviceInv => NamespacesApart
  <2> SUFFICES ASSUME DeviceInv PROVE NamespacesApart
    OBVIOUS
  <2>1. /\ Sound(lNamespaces) /\ bug = FALSE
        /\ allocatedLogicalPages = PagesOf(lNamespaces)
    BY Zenon DEF DeviceInv, Accounts
  <2>2. Inverts({ns.range : ns \in lNamespaces})
    BY <2>1, SoundInverts
  <2>3. ASSUME NEW a \in lNamespaces, NEW b \in lNamespaces, a # b
        PROVE  a.nsid # b.nsid /\ a.range # b.range
    <3>1. /\ a.nsid # b.nsid
          /\ Before(a.range, b.range) \/ Before(b.range, a.range)
      BY <2>1, <2>3, Zenon DEF Sound
    <3>2. /\ a.range.slpn \in Nat /\ a.range.nlp \in Nat \ {0}
          /\ b.range.slpn \in Nat /\ b.range.nlp \in Nat \ {0}
      BY <2>1 DEF Sound, NamespaceType
    <3> QED
      BY <3>1, <3>2 DEF Before, End
  <2> QED
    BY <2>1, <2>2, <2>3, Zenon DEF NamespacesApart, PagesOf
<1>2. Spec => []DeviceInv
  BY DeviceInvariantHolds
<1> QED
  BY <1>1, <1>2, PTL

-----------------------------------------------------------------------------
(* What the flash will hold. *)

Page == 0 .. Pages - 1
Paged == [chunk : Chunk, page : Page]
LBA == 0 .. Chunks * (Pages * WriteSize) - 1

ReadOps == {"read", "vectorChunkRead"}
WriteOps == {"write", "vectorChunkWrite"}
ResetOps == {"datasetManagement", "vectorChunkReset"}
FlashOps == ReadOps \cup WriteOps \cup ResetOps

InOrder(pages) == \A i, j \in DOMAIN pages : i < j => pages[i] < pages[j]

\* The descriptor of a chunk with these pages.
Told(pages) ==
  IF pages = <<>> THEN [state |-> "FREE", writePointer |-> 0]
  ELSE Written(pages[Len(pages)])

\* The LBAs of a command: the pages of a write are no more than the mask of its
\* refusals has bits.
InMask(op) ==
  {lbas \in Seq(LBA) : op \in WriteOps => Len(convertUnit20(lbas, FALSE)) <= MaskBits}

\* The host issues no other.
ListsInMask == \A io \in Requests20 : io.lbas \in InMask(io.op)

\* F[i] is what the flash holds when i of the jobs that wait are done.
Foretells(F) ==
  /\ F \in [0 .. Len(flashJobs) -> [Chunk -> Seq(Page)]]
  /\ F[0] = flash
  /\ \A i \in 1 .. Len(flashJobs) : F[i] = Done(F[i - 1], flashJobs[i].op, flashJobs[i].list)
  /\ \A i \in 0 .. Len(flashJobs) : \A c \in Chunk : InOrder(F[i][c])
  /\ descriptor = [c \in Chunk |-> Told(F[Len(flashJobs)][c])]

\* The descriptors tell what the flash will hold.
FlashAhead ==
  /\ flashJobs \in Seq([slot : Slot, op : FlashOps, list : Seq(Paged)])
  /\ \E F : Foretells(F)

-----------------------------------------------------------------------------
(* Commands on their way to the flash. *)

StageName == {"pointer", "job", "list", "in", "out", "completion", "flash", "crash"}
NoFlash(stages) == stages \in Seq(StageName \ {"flash"})
OnceFlash(stages) ==
  /\ stages \in Seq(StageName)
  /\ \A i, j \in DOMAIN stages : stages[i] = "flash" /\ stages[j] = "flash" => i = j

\* It has still to reach readInternal(), writeInternal() or eraseInternal().
Ahead(r) == \E i \in 2 .. Len(r.stages) : r.stages[i] = "flash"

WellStaged(r) ==
  /\ IsCommand(r)
  /\ OnceFlash(r.stages)
  /\ NoFlash(r.stages) \/ (r.op \in FlashOps /\ r.arg \in InMask(r.op))

\* None of the chunks it resets is refused.
Unrefused(r) ==
  \A i \in DOMAIN convertUnit20(r.arg, TRUE) : ~ResetRefused(convertUnit20(r.arg, TRUE), i)

\* While a reset of several chunks is outstanding no other reset is; and none of
\* its chunks is refused.
ResetsApart ==
  \A s \in Slot : Several(command[s]) =>
    /\ \A t \in Slot : Resets(command[t].op) => t = s
    /\ Ahead(command[s]) => Unrefused(command[s])

Commands20 ==
  kind # "nvm" =>
    /\ command = [s \in Slot |-> command[s]]
    /\ \A s \in Slot : WellStaged(command[s])
    /\ ResetsApart

ChunkInv == FlashAhead /\ Commands20

-----------------------------------------------------------------------------
(* Addresses. *)

LEMMA DivLess ==
  ASSUME NEW a \in Nat, NEW b \in Nat \ {0}, NEW c \in Nat, a < c * b
  PROVE  a \div b \in 0 .. c - 1
<1>1. a \div b \in Nat /\ (a \div b) * b <= a
  BY DivBounds
<1>2. ASSUME c <= a \div b PROVE FALSE
  <2>1. c * b <= (a \div b) * b
    BY <1>1, <1>2, TimesOrder
  <2>2. c * b \in Nat /\ (a \div b) * b \in Nat
    BY <1>1, TimesOrder
  <2> QED
    BY <1>1, <2>1, <2>2
<1> QED
  BY <1>1, <1>2

LEMMA SizePositive == ChunkSize \in Nat \ {0}
<1>1. Pages * WriteSize \in Nat /\ (Pages <= 0 <=> Pages * WriteSize <= 0 * WriteSize)
  BY OpenChannelAssumption, TimesOrder
<1> QED
  BY <1>1, OpenChannelAssumption DEF ChunkSize

LEMMA ParsedLBA ==
  ASSUME NEW lba \in LBA
  PROVE  parseLBA(lba) \in Paged
<1> DEFINE k == ChunkSize
<1>1. k \in Nat \ {0}
  BY SizePositive
<1>2. lba \in Nat /\ lba < Chunks * k
  <2>1. Chunks * k \in Nat
    BY <1>1, OpenChannelAssumption, TimesOrder
  <2> QED
    BY <2>1 DEF LBA, ChunkSize
<1>3. lba \div k \in Chunk
  <2> HIDE DEF k
  <2> QED
    BY <1>1, <1>2, OpenChannelAssumption, DivLess DEF Chunk
<1>4. lba % k \in Nat /\ lba % k < k
  <2> HIDE DEF k
  <2> QED
    BY <1>1, <1>2
<1>5. (lba % k) \div WriteSize \in Page
  <2>1. lba % k < Pages * WriteSize
    BY <1>4 DEF ChunkSize
  <2> HIDE DEF k
  <2> QED
    BY <1>4, <2>1, OpenChannelAssumption, DivLess DEF Page
<1> QED
  BY <1>3, <1>5 DEF parseLBA, Paged

\* The same page as the one before it, or the same chunk.
Same(a, b, block) == a.chunk = b.chunk /\ (block \/ a.page = b.page)

\* f[n] are the pages of the first n LBAs.
Converts(f, lbas, block) ==
  f = [n \in 0 .. Len(lbas) |->
         IF n = 0 THEN <<>>
         ELSE IF f[n - 1] # <<>> /\ Same(Last(f[n - 1]), parseLBA(lbas[n]), block)
         THEN f[n - 1]
         ELSE Append(f[n - 1], parseLBA(lbas[n]))]

\* The pages of LBAs of the device are pages of the device.
LEMMA ConvertedPages ==
  ASSUME NEW lbas \in Seq(LBA), NEW block
  PROVE  convertUnit20(lbas, block) \in Seq(Paged)
<1> DEFINE N == Len(lbas)
           S == Seq(Paged)
           next(x, n) == IF x # <<>> /\ Same(Last(x), parseLBA(lbas[n]), block)
                         THEN x ELSE Append(x, parseLBA(lbas[n]))
           step == [x \in S \X (1 .. N) |-> next(x[1], x[2])]
           g == CHOOSE f : Converts(f, lbas, block)
<1>1. N \in Nat
  BY LenProperties
<1>2. ASSUME NEW x \in S, NEW n \in 1 .. N PROVE next(x, n) \in S
  <2>1. parseLBA(lbas[n]) \in Paged
    BY ElementOfSeq, ParsedLBA
  <2>2. Append(x, parseLBA(lbas[n])) \in S
    BY <2>1, AppendProperties
  <2> QED
    BY <2>2, Zenon
<1>3. step \in [S \X (1 .. N) -> S]
  <2> HIDE DEF next, S
  <2> QED
    BY <1>2
<1>4. \A x \in S, n \in 1 .. N : step[<<x, n>>] = next(x, n)
  <2> HIDE DEF next, S
  <2> QED
    BY <1>2
<1> HIDE DEF step
<1>5. <<>> \in S
  OBVIOUS
<1>6. PICK f : /\ f \in [0 .. N -> S] /\ f[0] = <<>>
               /\ \A n \in 1 .. N : f[n] = step[<<f[n - 1], n>>]
  <2> HIDE DEF S
  <2>1. \E f : Iterated(f, S, N, step, <<>>)
    BY <1>1, <1>3, <1>5, Iterates, Zenon
  <2> QED
    BY <2>1, Zenon DEF Iterated
<1>7. ASSUME NEW n \in 0 .. N
      PROVE  f[n] = IF n = 0 THEN <<>> ELSE next(f[n - 1], n)
  <2>1. CASE n = 0
    BY <1>6, <2>1, Zenon
  <2>2. CASE n # 0
    <3>1. n \in 1 .. N /\ n - 1 \in 0 .. N
      BY <2>2
    <3>2. f[n - 1] \in S
      BY <1>6, <3>1
    <3>3. f[n] = next(f[n - 1], n)
      BY <1>4, <1>6, <3>1, <3>2, Zenon
    <3> QED
      BY <2>2, <3>3, Zenon
  <2> QED
    BY <2>1, <2>2
<1>8. f = [n \in 0 .. N |-> f[n]]
  BY <1>6, Zenon
<1>9. f = [n \in 0 .. N |-> IF n = 0 THEN <<>> ELSE next(f[n - 1], n)]
  BY <1>7, <1>8, Zenon
<1>10. Converts(f, lbas, block)
  BY <1>9, Zenon DEF Converts
<1>11. Converts(g, lbas, block)
  BY <1>10, Zenon
<1>12. convertUnit20(lbas, block) = g[N]
  BY Zenon DEF convertUnit20, Converts, Same
<1> HIDE DEF g
<1>13. \A n \in 0 .. N : g[n] = IF n = 0 THEN <<>> ELSE next(g[n - 1], n)
  BY <1>11, Zenon DEF Converts
<1> DEFINE M == {m \in Nat : m <= N => g[m] \in S}
<1> HIDE DEF next, S
<1>14. 0 \in M
  <2>1. 0 \in 0 .. N
    BY <1>1
  <2>2. g[0] = <<>>
    BY <1>13, <2>1, Zenon
  <2> QED
    BY <1>5, <2>2
<1>15. ASSUME NEW m \in Nat, m \in M PROVE m + 1 \in M
  <2> SUFFICES ASSUME m + 1 <= N PROVE g[m + 1] \in S
    OBVIOUS
  <2>1. /\ m + 1 \in 0 .. N /\ m + 1 \in 1 .. N /\ m + 1 # 0 /\ (m + 1) - 1 = m
        /\ g[m] \in S
    BY <1>15, <1>1
  <2>2. g[m + 1] = next(g[m], m + 1)
    BY <1>13, <2>1, Zenon
  <2> QED
    BY <1>2, <2>1, <2>2, Zenon
<1>16. N \in M
  <2> HIDE DEF M
  <2> QED
    BY <1>1, <1>14, <1>15, NatInductionSet
<1> QED
  BY <1>1, <1>12, <1>16 DEF S

-----------------------------------------------------------------------------
(* What a write job makes of the flash. *)

Content == [Chunk -> Seq(Page)]

\* f[n] is what the flash holds when the first n pages of the list are programmed.
Programs(f, fl, list) ==
  f = [n \in 0 .. Len(list) |->
         IF n = 0 THEN fl
         ELSE [f[n - 1] EXCEPT ![list[n].chunk] = Append(@, list[n].page)]]

LEMMA ProgrammedInSteps ==
  ASSUME NEW fl \in Content, NEW list \in Seq(Paged)
  PROVE  \E f \in [0 .. Len(list) -> Content] :
           /\ f[0] = fl
           /\ \A n \in 1 .. Len(list) :
                f[n] = [f[n - 1] EXCEPT ![list[n].chunk] = Append(@, list[n].page)]
           /\ Programmed(fl, list) = f[Len(list)]
<1> DEFINE N == Len(list)
           next(x, n) == [x EXCEPT ![list[n].chunk] = Append(@, list[n].page)]
           step == [x \in Content \X (1 .. N) |-> next(x[1], x[2])]
           g == CHOOSE f : Programs(f, fl, list)
<1>1. N \in Nat
  BY LenProperties
<1>2. ASSUME NEW x \in Content, NEW n \in 1 .. N PROVE next(x, n) \in Content
  <2>1. list[n] \in Paged
    BY ElementOfSeq
  <2>2. list[n].chunk \in Chunk /\ list[n].page \in Page
    BY <2>1 DEF Paged
  <2>3. x[list[n].chunk] \in Seq(Page)
    BY <2>2 DEF Content
  <2>4. Append(x[list[n].chunk], list[n].page) \in Seq(Page)
    BY <2>2, <2>3, AppendProperties
  <2> QED
    BY <2>2, <2>4 DEF Content
<1>3. step \in [Content \X (1 .. N) -> Content]
  <2> HIDE DEF next
  <2> QED
    BY <1>2
<1>4. \A x \in Content, n \in 1 .. N : step[<<x, n>>] = next(x, n)
  <2> HIDE DEF next
  <2> QED
    BY <1>2
<1> HIDE DEF step
<1>5. PICK f : /\ f \in [0 .. N -> Content] /\ f[0] = fl
               /\ \A n \in 1 .. N : f[n] = step[<<f[n - 1], n>>]
  <2>1. \E f : Iterated(f, Content, N, step, fl)
    BY <1>1, <1>3, Iterates, Zenon
  <2> QED
    BY <2>1, Zenon DEF Iterated
<1>6. ASSUME NEW n \in 0 .. N
      PROVE  f[n] = IF n = 0 THEN fl ELSE next(f[n - 1], n)
  <2>1. CASE n = 0
    BY <1>5, <2>1, Zenon
  <2>2. CASE n # 0
    <3>1. n \in 1 .. N /\ n - 1 \in 0 .. N
      BY <2>2
    <3>2. f[n - 1] \in Content
      BY <1>5, <3>1
    <3>3. f[n] = next(f[n - 1], n)
      BY <1>4, <1>5, <3>1, <3>2, Zenon
    <3> QED
      BY <2>2, <3>3, Zenon
  <2> QED
    BY <2>1, <2>2
<1>7. f = [n \in 0 .. N |-> f[n]]
  BY <1>5, Zenon
<1>8. f = [n \in 0 .. N |-> IF n = 0 THEN fl ELSE next(f[n - 1], n)]
  BY <1>6, <1>7, Zenon
<1>9. Programs(f, fl, list)
  BY <1>8, Zenon DEF Programs
<1>10. Programs(g, fl, list)
  BY <1>9, Zenon
<1>11. Programmed(fl, list) = g[N]
  BY Zenon DEF Programmed, Programs
<1> HIDE DEF g
<1>12. /\ g = [n \in 0 .. N |-> g[n]]
       /\ \A n \in 0 .. N : g[n] = IF n = 0 THEN fl ELSE next(g[n - 1], n)
  BY <1>10, Zenon DEF Programs
<1> DEFINE M == {m \in Nat : m <= N => g[m] \in Content}
<1> HIDE DEF next
<1>13. 0 \in 0 .. N /\ g[0] = fl
  <2>1. 0 \in 0 .. N
    BY <1>1
  <2> QED
    BY <1>12, <2>1, Zenon
<1>14. 0 \in M
  BY <1>13
<1>15. ASSUME NEW m \in Nat, m \in M PROVE m + 1 \in M
  <2> SUFFICES ASSUME m + 1 <= N PROVE g[m + 1] \in Content
    OBVIOUS
  <2>1. /\ m + 1 \in 0 .. N /\ m + 1 \in 1 .. N /\ m + 1 # 0 /\ (m + 1) - 1 = m
        /\ g[m] \in Content
    BY <1>15, <1>1
  <2>2. g[m + 1] = next(g[m], m + 1)
    BY <1>12, <2>1, Zenon
  <2> QED
    BY <1>2, <2>1, <2>2, Zenon
<1>16. \A n \in 0 .. N : g[n] \in Content
  <2>1. Nat \subseteq M
    <3> HIDE DEF M
    <3> QED
      BY <1>14, <1>15, NatInductionSet
  <2> QED
    BY <2>1
<1>17. g \in [0 .. N -> Content]
  BY <1>12, <1>16, Zenon
<1>18. \A n \in 1 .. N : g[n] = next(g[n - 1], n)
  <2>1. \A n \in 1 .. N : n \in 0 .. N /\ n # 0
    OBVIOUS
  <2> QED
    BY <1>12, <2>1, Zenon
<1> QED
  BY <1>11, <1>13, <1>17, <1>18, Zenon DEF next

\* The descriptors after one more page.
LEMMA AfterNone ==
  ASSUME NEW list, NEW c
  PROVE  AfterWrites(list, 0, c) = descriptor[c]
<1>1. {j \in 1 .. 0 : list[j].chunk = c} = {}
  OBVIOUS
<1> QED
  BY <1>1, Zenon DEF AfterWrites

LEMMA AfterOne ==
  ASSUME NEW list, NEW n \in Nat \ {0}, NEW c
  PROVE  AfterWrites(list, n, c) =
           IF list[n].chunk = c THEN Written(list[n].page) ELSE AfterWrites(list, n - 1, c)
<1> DEFINE on(m) == {j \in 1 .. m : list[j].chunk = c}
<1>1. CASE list[n].chunk = c
  <2>1. n \in on(n) /\ on(n) \subseteq 0 .. n /\ on(n) # {}
    BY <1>1
  <2>2. Max(on(n)) \in on(n) /\ \A y \in on(n) : y <= Max(on(n))
    <3> HIDE DEF on
    <3> QED
      BY <2>1, MaxNat
  <2>3. Max(on(n)) = n
    BY <2>1, <2>2
  <2>4. AfterWrites(list, n, c) = Written(list[Max(on(n))].page)
    BY <2>1, Zenon DEF AfterWrites
  <2> QED
    BY <1>1, <2>3, <2>4, Zenon
<1>2. CASE list[n].chunk # c
  <2>1. on(n) = on(n - 1)
    <3>1. \A j \in 1 .. n : j = n \/ j \in 1 .. n - 1
      OBVIOUS
    <3>2. \A j \in 1 .. n - 1 : j \in 1 .. n
      OBVIOUS
    <3> QED
      BY <1>2, <3>1, <3>2, Zenon
  <2> QED
    BY <1>2, <2>1, Zenon DEF AfterWrites
<1> QED
  BY <1>1, <1>2

\* A page that is not refused comes after those of its chunk.
LEMMA Appended ==
  ASSUME NEW pages \in Seq(Page), InOrder(pages), NEW p \in Page,
         Told(pages).state # "CLOSED",
         Told(pages).state = "OPEN" => Told(pages).writePointer \div WriteSize <= p
  PROVE  InOrder(Append(pages, p)) /\ Told(Append(pages, p)) = Written(p)
<1> DEFINE q == Append(pages, p)
           n == Len(pages)
<1>1. /\ n \in Nat /\ DOMAIN pages = 1 .. n
      /\ q \in Seq(Page) /\ q # <<>> /\ Len(q) = n + 1 /\ DOMAIN q = 1 .. n + 1
      /\ \A i \in 1 .. n : q[i] = pages[i]
      /\ q[n + 1] = p
  <2>1. q \in Seq(Page) /\ q # <<>> /\ Len(q) = n + 1
        /\ (\A i \in 1 .. n : q[i] = pages[i]) /\ q[n + 1] = p
    BY AppendProperties
  <2> HIDE DEF q
  <2> QED
    BY <2>1, LenProperties
<1>2. ASSUME NEW i \in 1 .. n PROVE pages[i] < p
  <2>1. pages # <<>> /\ n \in 1 .. n
    BY <1>1, EmptySeq
  <2>2. pages[i] \in Page /\ pages[n] \in Page
    BY <2>1, ElementOfSeq
  <2>3. Told(pages) = Written(pages[n])
    BY <2>1, Zenon DEF Told
  <2>4. pages[n] # Pages - 1
    BY <2>3 DEF Written
  <2>5. Told(pages).state = "OPEN" /\ Told(pages).writePointer = (pages[n] + 1) * WriteSize
    BY <2>3, <2>4 DEF Written
  <2>6. ((pages[n] + 1) * WriteSize) \div WriteSize = pages[n] + 1
    <3>1. pages[n] + 1 \in Nat
      BY <2>2 DEF Page
    <3> QED
      BY <3>1, DivExact, OpenChannelAssumption
  <2>7. pages[n] + 1 <= p
    BY <2>5, <2>6, Zenon
  <2>8. pages[i] <= pages[n]
    <3>1. CASE i = n
      BY <2>2, <3>1 DEF Page
    <3>2. CASE i # n
      <4>1. i \in DOMAIN pages /\ n \in DOMAIN pages
        BY <1>1, <1>2, <2>1, Zenon
      <4>2. i < n
        <5> HIDE DEF n, q
        <5> QED
          BY <1>1, <1>2, <3>2
      <4>3. pages[i] < pages[n]
        BY <4>1, <4>2, Zenon DEF InOrder
      <4> QED
        BY <2>2, <4>3 DEF Page
    <3> QED
      BY <3>1, <3>2
  <2> QED
    BY <2>2, <2>7, <2>8 DEF Page
<1> HIDE DEF q
<1>3. ASSUME NEW i \in DOMAIN q, NEW j \in DOMAIN q, i < j PROVE q[i] < q[j]
  <2>1. i \in 1 .. n /\ q[i] = pages[i]
    BY <1>1, <1>3
  <2>2. CASE j = n + 1
    BY <1>1, <1>2, <2>1, <2>2
  <2>3. CASE j # n + 1
    <3>1. j \in 1 .. n /\ q[j] = pages[j]
      BY <1>1, <2>3
    <3> QED
      BY <1>1, <1>3, <2>1, <3>1 DEF InOrder
  <2> QED
    BY <2>2, <2>3
<1>4. InOrder(q)
  BY <1>3, Zenon DEF InOrder
<1>5. Told(q) = Written(p)
  <2>1. Told(q) = Written(q[n + 1])
    BY <1>1, Zenon DEF Told
  <2> QED
    BY <1>1, <2>1, Zenon
<1> QED
  BY <1>4, <1>5 DEF q

\* Pages none of which is refused keep every chunk in order, and leave the
\* descriptors as writeInternal() does.
LEMMA WritesTold ==
  ASSUME NEW fl \in Content, \A c \in Chunk : InOrder(fl[c]),
         \A c \in Chunk : descriptor[c] = Told(fl[c]),
         NEW list \in Seq(Paged), \A i \in DOMAIN list : ~WriteRefused(list, i)
  PROVE  LET g == Programmed(fl, list) IN
         /\ g \in Content
         /\ \A c \in Chunk : InOrder(g[c]) /\ Told(g[c]) = AfterWrites(list, Len(list), c)
<1> DEFINE N == Len(list)
<1>1. N \in Nat /\ DOMAIN list = 1 .. N
  BY LenProperties
<1>2. PICK f \in [0 .. N -> Content] :
        /\ f[0] = fl
        /\ \A n \in 1 .. N :
             f[n] = [f[n - 1] EXCEPT ![list[n].chunk] = Append(@, list[n].page)]
        /\ Programmed(fl, list) = f[N]
  BY ProgrammedInSteps, Zenon
<1> DEFINE Good(n) == \A c \in Chunk : InOrder(f[n][c]) /\ Told(f[n][c]) = AfterWrites(list, n, c)
           M == {m \in Nat : m <= N => Good(m)}
<1>3. Good(0)
  BY <1>2, AfterNone, Zenon
<1>4. ASSUME NEW n \in 1 .. N, Good(n - 1) PROVE Good(n)
  <2> DEFINE d == list[n].chunk
             p == list[n].page
  <2>1. list[n] \in Paged
    BY <1>1, ElementOfSeq
  <2>2. d \in Chunk /\ p \in Page
    BY <2>1 DEF Paged
  <2>3. f[n - 1] \in Content
    <3>1. n - 1 \in 0 .. N
      BY <1>1
    <3> QED
      BY <1>2, <3>1
  <2>4. f[n - 1][d] \in Seq(Page)
    BY <2>2, <2>3 DEF Content
  <2>5. /\ InOrder(f[n - 1][d])
        /\ Told(f[n - 1][d]) = AfterWrites(list, n - 1, d)
    BY <1>4, <2>2, Zenon
  <2>6. ~WriteRefused(list, n)
    BY <1>1, Zenon
  <2>7. /\ Told(f[n - 1][d]).state # "CLOSED"
        /\ Told(f[n - 1][d]).state = "OPEN" =>
             ~(Told(f[n - 1][d]).writePointer \div WriteSize > p)
    BY <2>5, <2>6, Zenon DEF WriteRefused
  <2>8. Told(f[n - 1][d]).state = "OPEN" =>
          Told(f[n - 1][d]).writePointer \div WriteSize <= p
    <3>1. ASSUME Told(f[n - 1][d]).state = "OPEN"
          PROVE  Told(f[n - 1][d]).writePointer \in Nat
      <4>1. f[n - 1][d] # <<>>
        BY <3>1 DEF Told
      <4>2. PICK q \in Page : Told(f[n - 1][d]) = Written(q)
        <5>1. Len(f[n - 1][d]) \in 1 .. Len(f[n - 1][d])
          BY <2>4, <4>1, EmptySeq
        <5>2. f[n - 1][d][Len(f[n - 1][d])] \in Page
          BY <2>4, <5>1, ElementOfSeq
        <5> QED
          BY <4>1, <5>2, Zenon DEF Told
      <4>3. (q + 1) * WriteSize \in Nat
        BY OpenChannelAssumption DEF Page
      <4>4. Told(f[n - 1][d]).writePointer = (q + 1) * WriteSize
        BY <4>2 DEF Written
      <4> QED
        BY <4>3, <4>4, Zenon
    <3> DEFINE w == Told(f[n - 1][d]).writePointer
               k == w \div WriteSize
    <3>2. w \in Nat => k \in Nat
      <4> HIDE DEF w
      <4> QED
        BY OpenChannelAssumption
    <3>3. k \in Nat /\ ~(k > p) => k <= p
      <4> HIDE DEF k
      <4> QED
        BY <2>2 DEF Page
    <3> QED
      BY <2>7, <3>1, <3>2, <3>3, Zenon
  <2>9. /\ InOrder(Append(f[n - 1][d], p))
        /\ Told(Append(f[n - 1][d], p)) = Written(p)
    BY <2>2, <2>4, <2>5, <2>7, <2>8, Appended, Zenon
  <2>10. f[n] = [f[n - 1] EXCEPT ![d] = Append(f[n - 1][d], p)]
    BY <1>2, Zenon
  <2>11. ASSUME NEW c \in Chunk
         PROVE  f[n][c] = IF c = d THEN Append(f[n - 1][d], p) ELSE f[n - 1][c]
    <3> HIDE DEF p, d
    <3> QED
      BY <2>3, <2>10 DEF Content
  <2>12. ASSUME NEW c \in Chunk
         PROVE  InOrder(f[n][c]) /\ Told(f[n][c]) = AfterWrites(list, n, c)
    <3>1. AfterWrites(list, n, c) =
            IF list[n].chunk = c THEN Written(list[n].page) ELSE AfterWrites(list, n - 1, c)
      <4>1. n \in Nat \ {0}
        BY <1>1
      <4> QED
        BY <4>1, AfterOne
    <3>2. CASE c = d
      BY <2>9, <2>11, <3>1, <3>2, Zenon
    <3>3. CASE c # d
      <4>1. f[n][c] = f[n - 1][c]
        BY <2>11, <3>3, Zenon
      <4>2. InOrder(f[n - 1][c]) /\ Told(f[n - 1][c]) = AfterWrites(list, n - 1, c)
        BY <1>4, Zenon
      <4> QED
        BY <3>1, <3>3, <4>1, <4>2, Zenon
    <3> QED
      BY <3>2, <3>3
  <2> QED
    BY <2>12, Zenon
<1>5. Good(N)
  <2> HIDE DEF Good
  <2>1. 0 \in M
    BY <1>3
  <2>2. ASSUME NEW m \in Nat, m \in M PROVE m + 1 \in M
    <3> SUFFICES ASSUME m + 1 <= N PROVE Good(m + 1)
      OBVIOUS
    <3>1. m + 1 \in 1 .. N /\ (m + 1) - 1 = m /\ Good(m)
      BY <1>1, <2>2
    <3> QED
      BY <1>4, <3>1, Zenon
  <2>3. N \in M
    <3> HIDE DEF M
    <3> QED
      BY <1>1, <2>1, <2>2, NatInductionSet
  <2> QED
    BY <1>1, <2>3
<1>6. f[N] \in Content
  <2>1. N \in 0 .. N
    BY <1>1
  <2> QED
    BY <1>2, <2>1
<1> QED
  BY <1>2, <1>5, <1>6, Zenon

\* Whether a page is refused, and what the descriptors become, depends on the
\* pages up to it.
LEMMA AfterSame ==
  ASSUME NEW a, NEW b, NEW n \in Nat, \A j \in 1 .. n : a[j] = b[j], NEW c
  PROVE  AfterWrites(a, n, c) = AfterWrites(b, n, c)
<1> DEFINE on(l) == {j \in 1 .. n : l[j].chunk = c}
<1>1. on(a) = on(b)
  BY Zenon
<1>2. CASE on(a) = {}
  BY <1>1, <1>2, Zenon DEF AfterWrites
<1>3. CASE on(a) # {}
  <2>1. Max(on(a)) \in 1 .. n
    <3>1. on(a) \subseteq 1 .. n /\ on(a) \subseteq 0 .. n
      OBVIOUS
    <3> HIDE DEF on
    <3>2. Max(on(a)) \in on(a)
      BY <1>3, <3>1, MaxNat
    <3> QED
      BY <3>1, <3>2
  <2>2. a[Max(on(a))] = b[Max(on(a))]
    BY <2>1, Zenon
  <2>3. /\ AfterWrites(a, n, c) = Written(a[Max(on(a))].page)
        /\ AfterWrites(b, n, c) = Written(b[Max(on(b))].page)
    BY <1>1, <1>3, Zenon DEF AfterWrites
  <2> QED
    BY <1>1, <2>2, <2>3, Zenon
<1> QED
  BY <1>2, <1>3

\* What is left of a list that is no longer than the mask.
LEMMA OutcomeInMask ==
  ASSUME NEW desc, NEW list \in Seq(Paged), NEW bad, bad \subseteq DOMAIN list,
         bad = {} \/ Len(list) <= MaskBits
  PROVE  /\ Outcome(desc, list, bad).desc = desc
         /\ Outcome(desc, list, bad).kept =
              IF bad = {} THEN list ELSE SubSeq(list, 1, Min(bad) - 1)
<1> DEFINE N == Len(list)
           n == Accepted(list, bad)
           from == (IF n < MaskBits THEN MaskBits ELSE n) + 1
           kept == IF bad = {} THEN list ELSE SubSeq(list, 1, n) \o SubSeq(list, from, N)
<1>1. N \in Nat /\ DOMAIN list = 1 .. N
  BY LenProperties
<1>2. n = IF bad = {} THEN N ELSE Min(bad) - 1
  BY Zenon DEF Accepted
<1>3. Outcome(desc, list, bad) = [desc |-> desc, err |-> bad # {}, kept |-> kept]
  BY Zenon DEF Outcome
<1>4. Outcome(desc, list, bad).desc = desc /\ Outcome(desc, list, bad).kept = kept
  <2> HIDE DEF kept
  <2> QED
    BY <1>3
<1>5. kept = IF bad = {} THEN list ELSE SubSeq(list, 1, n)
  <2>1. CASE bad = {}
    BY <2>1, Zenon
  <2>2. CASE bad # {}
    <3> DEFINE m == Min(bad)
    <3>1. m \in bad
      <4>1. bad \subseteq Nat
        BY <1>1
      <4> QED
        BY <2>2, <4>1, MinNat, Zenon
    <3>2. m \in 1 .. N /\ N <= 64
      BY <1>1, <2>2, <3>1 DEF MaskBits
    <3> HIDE DEF m
    <3>3. n = m - 1
      BY <1>2, <2>2, Zenon DEF m
    <3> HIDE DEF n
    <3>4. from = 65
      BY <3>2, <3>3 DEF MaskBits
    <3>5. SubSeq(list, from, N) = <<>>
      <4>1. 65 \in Int /\ N \in Int /\ N < 65
        BY <1>1, <3>2
      <4> HIDE DEF N
      <4>2. SubSeq(list, 65, N) = <<>>
        BY <4>1, SubSeqEmpty
      <4> HIDE DEF from
      <4> QED
        BY <3>4, <4>2, Zenon
    <3>6. SubSeq(list, 1, n) \in Seq(Paged)
      <4>1. \A i \in 1 .. n : i \in 1 .. N
        BY <1>1, <3>2, <3>3
      <4>2. \A i \in 1 .. n : list[i] \in Paged
        BY <1>1, <4>1, ElementOfSeq, Zenon
      <4>3. 1 \in Int /\ n \in Int
        BY <3>2, <3>3
      <4> QED
        BY <4>2, <4>3, SubSeqProperties
    <3>7. SubSeq(list, 1, n) \o <<>> = SubSeq(list, 1, n)
      BY <3>6, ConcatEmptySeq
    <3> HIDE DEF from
    <3> QED
      BY <2>2, <3>5, <3>7, Zenon
  <2> QED
    BY <2>1, <2>2
<1> HIDE DEF n
<1> QED
  BY <1>2, <1>4, <1>5, Zenon DEF n

\* What writeInternal() keeps is not refused.
LEMMA WriteInternalKeeps ==
  ASSUME NEW list \in Seq(Paged), Len(list) <= MaskBits
  PROVE  LET o == writeInternal(list) IN
         /\ o.kept \in Seq(Paged)
         /\ \A i \in DOMAIN o.kept : ~WriteRefused(o.kept, i)
         /\ o.desc = [c \in Chunk |-> AfterWrites(o.kept, Len(o.kept), c)]
<1> DEFINE bad == {i \in DOMAIN list : WriteRefused(list, i)}
           kept == IF bad = {} THEN list ELSE SubSeq(list, 1, Min(bad) - 1)
           N == Len(list)
           n == Accepted(list, bad)
<1>1. N \in Nat /\ DOMAIN list = 1 .. N
  BY LenProperties
<1>2. /\ n = IF bad = {} THEN N ELSE Min(bad) - 1
      /\ writeInternal(list).kept = kept
      /\ writeInternal(list).desc = [c \in Chunk |-> AfterWrites(list, n, c)]
  <2> DEFINE desc == [c \in Chunk |-> AfterWrites(list, n, c)]
  <2>1. writeInternal(list) = Outcome(desc, list, bad)
    BY Zenon DEF writeInternal
  <2>2. bad \subseteq DOMAIN list
    OBVIOUS
  <2> HIDE DEF desc, bad
  <2>3. /\ Outcome(desc, list, bad).desc = desc
        /\ Outcome(desc, list, bad).kept =
             IF bad = {} THEN list ELSE SubSeq(list, 1, Min(bad) - 1)
    BY <2>2, OutcomeInMask
  <2> QED
    BY <2>1, <2>3, Zenon DEF desc, Accepted
<1> HIDE DEF n
<1>3. CASE bad = {}
  BY <1>2, <1>3, Zenon
<1>4. CASE bad # {}
  <2> DEFINE m == Min(bad)
  <2>1. m \in bad /\ \A y \in bad : m <= y
    <3>1. bad \subseteq Nat
      BY <1>1
    <3> HIDE DEF bad
    <3> QED
      BY <1>4, <3>1, MinNat
  <2>2. m \in 1 .. N
    BY <1>1, <2>1
  <2> HIDE DEF m
  <2>3. /\ kept \in Seq(Paged) /\ Len(kept) = m - 1
        /\ DOMAIN kept = 1 .. m - 1
        /\ \A i \in 1 .. m - 1 : kept[i] = list[i]
    <3>1. kept = SubSeq(list, 1, m - 1)
      BY <1>4, Zenon DEF m
    <3>2. \A i \in 1 .. m - 1 : list[i] \in Paged
      <4>1. \A i \in 1 .. m - 1 : i \in 1 .. N
        BY <1>1, <2>2
      <4> QED
        BY <4>1, ElementOfSeq
    <3>3. 1 \in Int /\ m - 1 \in Int
      BY <2>2
    <3>4. /\ SubSeq(list, 1, m - 1) \in Seq(Paged)
          /\ Len(SubSeq(list, 1, m - 1)) = IF 1 <= m - 1 THEN (m - 1) - 1 + 1 ELSE 0
          /\ \A i \in 1 .. (m - 1) - 1 + 1 : SubSeq(list, 1, m - 1)[i] = list[1 + i - 1]
      BY <3>2, <3>3, SubSeqProperties
    <3> HIDE DEF kept
    <3>5. kept \in Seq(Paged) /\ Len(kept) = m - 1
      BY <2>2, <3>1, <3>4
    <3>6. DOMAIN kept = 1 .. m - 1
      BY <3>5, LenProperties
    <3>7. ASSUME NEW i \in 1 .. m - 1 PROVE kept[i] = list[i]
      <4>1. i \in 1 .. (m - 1) - 1 + 1 /\ 1 + i - 1 = i
        BY <2>2
      <4> QED
        BY <3>1, <3>4, <4>1, Zenon
    <3> QED
      BY <3>5, <3>6, <3>7
  <2> HIDE DEF kept
  <2>4. ASSUME NEW i \in DOMAIN kept PROVE ~WriteRefused(kept, i)
    <3>1. i \in 1 .. m - 1 /\ i \in 1 .. N /\ i - 1 \in Nat /\ ~(m <= i)
          /\ \A j \in 1 .. i - 1 : j \in 1 .. m - 1
      BY <2>2, <2>3, <2>4, <1>1
    <3>2. ~WriteRefused(list, i)
      BY <1>1, <2>1, <3>1, Zenon
    <3>3. kept[i] = list[i] /\ \A j \in 1 .. i - 1 : kept[j] = list[j]
      BY <2>3, <3>1, Zenon
    <3>4. AfterWrites(kept, i - 1, kept[i].chunk) = AfterWrites(list, i - 1, list[i].chunk)
      <4>1. AfterWrites(kept, i - 1, kept[i].chunk) = AfterWrites(list, i - 1, kept[i].chunk)
        <5>1. i - 1 \in Nat
          BY <3>1, Zenon
        <5>2. \A j \in 1 .. i - 1 : kept[j] = list[j]
          BY <3>3, Zenon
        <5> QED
          BY ONLY <5>1, <5>2, AfterSame
      <4> QED
        BY <3>3, <4>1, Zenon
    <3> QED
      BY <3>2, <3>3, <3>4, Zenon DEF WriteRefused
  <2>5. Len(kept) = n /\ n \in Nat /\ \A j \in 1 .. n : list[j] = kept[j]
    <3>1. n = m - 1
      BY <1>2, <1>4, Zenon DEF m
    <3> QED
      BY <2>2, <2>3, <3>1
  <2>6. \A c \in Chunk : AfterWrites(list, n, c) = AfterWrites(kept, Len(kept), c)
    <3>1. ASSUME NEW c \in Chunk PROVE AfterWrites(list, n, c) = AfterWrites(kept, n, c)
      BY ONLY <2>5, AfterSame
    <3> QED
      BY <2>5, <3>1, Zenon
  <2>7. writeInternal(list).desc = [c \in Chunk |-> AfterWrites(kept, Len(kept), c)]
    BY <1>2, <2>6, Zenon
  <2> QED
    BY <1>2, <2>3, <2>4, <2>7, Zenon
<1> QED
  BY <1>3, <1>4

\* A chunk that is closed stays so.
LEMMA ClosedStays ==
  ASSUME NEW list \in Seq(Paged), \A i \in DOMAIN list : ~WriteRefused(list, i),
         NEW c, descriptor[c].state = "CLOSED"
  PROVE  AfterWrites(list, Len(list), c) = descriptor[c]
<1> DEFINE on == {j \in 1 .. Len(list) : list[j].chunk = c}
<1>1. Len(list) \in Nat /\ DOMAIN list = 1 .. Len(list)
  BY LenProperties
<1>2. ASSUME on # {} PROVE FALSE
  <2> DEFINE m == Min(on)
  <2>1. on \subseteq Nat
    BY <1>1
  <2>2. m \in on /\ \A y \in on : m <= y
    <3> HIDE DEF on
    <3> QED
      BY <1>2, <2>1, MinNat
  <2>3. m \in 1 .. Len(list) /\ list[m].chunk = c
    BY <2>2
  <2>4. {j \in 1 .. m - 1 : list[j].chunk = c} = {}
    <3> SUFFICES ASSUME NEW j \in 1 .. m - 1, list[j].chunk = c PROVE FALSE
      OBVIOUS
    <3> HIDE DEF m
    <3>1. j \in 1 .. Len(list) /\ ~(m <= j)
      BY <1>1, <2>3
    <3> QED
      BY <2>2, <3>1
  <2> HIDE DEF m, on
  <2>5. AfterWrites(list, m - 1, c) = descriptor[c]
    BY <2>4, Zenon DEF AfterWrites
  <2>6. WriteRefused(list, m)
    BY <2>3, <2>5, Zenon DEF WriteRefused
  <2> QED
    BY <1>1, <2>3, <2>6, Zenon
<1> QED
  BY <1>2, Zenon DEF AfterWrites

\* What a reset takes off the list it leaves in the descriptors too.
LEMMA ResetsTold ==
  ASSUME NEW fl \in Content, \A c \in Chunk : InOrder(fl[c]),
         descriptor = [c \in Chunk |-> Told(fl[c])],
         NEW op, Resets(op), NEW list \in Seq(Paged),
         Len(list) <= 1 \/ \A i \in DOMAIN list : ~ResetRefused(list, i)
  PROVE  LET o == eraseInternal(list)
             g == Done(fl, op, o.kept)
         IN  /\ o.kept \in Seq(Paged) /\ g \in Content
             /\ \A c \in Chunk : InOrder(g[c])
             /\ o.desc = [c \in Chunk |-> Told(g[c])]
<1> DEFINE bad == {i \in DOMAIN list : ResetRefused(list, i)}
           freed == {list[i].chunk : i \in DOMAIN list \ bad}
           desc == [c \in Chunk |-> IF c \in freed THEN [state |-> "FREE", writePointer |-> 0]
                                    ELSE descriptor[c]]
           kept == IF bad = {} THEN list ELSE SubSeq(list, 1, Min(bad) - 1)
           g == Done(fl, op, kept)
           on(c) == \E i \in DOMAIN kept : kept[i].chunk = c
<1>1. Len(list) \in Nat /\ DOMAIN list = 1 .. Len(list)
  BY LenProperties
<1>2. eraseInternal(list).kept = kept /\ eraseInternal(list).desc = desc
  <2>1. eraseInternal(list) = Outcome(desc, list, bad)
    BY Zenon DEF eraseInternal
  <2>2. bad \subseteq DOMAIN list
    OBVIOUS
  <2>3. bad = {} \/ Len(list) <= MaskBits
    <3>1. Len(list) <= 1 => Len(list) <= MaskBits
      BY <1>1 DEF MaskBits
    <3> QED
      BY <3>1, Zenon
  <2> HIDE DEF desc, bad
  <2>4. /\ Outcome(desc, list, bad).desc = desc
        /\ Outcome(desc, list, bad).kept =
             IF bad = {} THEN list ELSE SubSeq(list, 1, Min(bad) - 1)
    BY <2>2, <2>3, OutcomeInMask
  <2> QED
    BY <2>1, <2>4, Zenon
<1>3. /\ kept \in Seq(Paged)
      /\ \A c \in Chunk : c \in freed <=> on(c)
  <2>1. CASE bad = {}
    <3>1. kept = list
      BY <2>1, Zenon
    <3>2. \A c \in Chunk : c \in freed <=> \E i \in DOMAIN list : list[i].chunk = c
      BY <2>1, Zenon
    <3> QED
      BY <3>1, <3>2, Zenon
  <2>2. CASE bad # {}
    <3>1. Len(list) = 1 /\ bad = {1} /\ DOMAIN list = {1}
      <4>1. PICK i \in DOMAIN list : ResetRefused(list, i)
        BY <2>2, Zenon
      <4>2. Len(list) <= 1
        BY <4>1, Zenon
      <4>3. Len(list) = 1 /\ i = 1
        BY <1>1, <4>1, <4>2
      <4>4. DOMAIN list = {1}
        BY <1>1, <4>3
      <4> QED
        BY <4>1, <4>3, <4>4, Zenon
    <3>2. kept = <<>>
      <4>1. Min({1}) = 1
        BY MinNat
      <4>2. 0 \in Int /\ 1 \in Int /\ 0 < 1 /\ 1 - 1 = 0
        OBVIOUS
      <4>3. SubSeq(list, 1, 0) = <<>>
        BY <4>2, SubSeqEmpty
      <4> QED
        BY <2>2, <3>1, <4>1, <4>2, <4>3, Zenon
    <3>3. freed = {}
      BY <3>1, Zenon
    <3>4. DOMAIN <<>> = {}
      OBVIOUS
    <3>5. <<>> \in Seq(Paged)
      OBVIOUS
    <3> HIDE DEF kept, freed
    <3> QED
      BY <3>2, <3>3, <3>4, <3>5, Zenon
  <2> QED
    BY <2>1, <2>2
<1> HIDE DEF kept, freed
<1>4. g = [c \in Chunk |-> IF on(c) THEN <<>> ELSE fl[c]]
  <2>1. op \notin {"read", "vectorChunkRead"} /\ op \notin {"write", "vectorChunkWrite"}
    BY DEF Resets
  <2> QED
    BY <2>1, Zenon DEF Done
<1>5. \A c \in Chunk : g[c] = IF on(c) THEN <<>> ELSE fl[c]
  BY <1>4, Zenon
<1>6. g \in Content
  <2> HIDE DEF on, g
  <2>1. \A c \in Chunk : fl[c] \in Seq(Page) /\ <<>> \in Seq(Page)
    BY DEF Content
  <2> QED
    BY <1>4, <2>1 DEF Content
<1>7. InOrder(<<>>) /\ Told(<<>>) = [state |-> "FREE", writePointer |-> 0]
  BY DEF InOrder, Told
<1> HIDE DEF g, on
<1>8. \A c \in Chunk : InOrder(g[c])
  BY <1>5, <1>7, Zenon
<1>9. \A c \in Chunk : Told(g[c]) = IF c \in freed THEN [state |-> "FREE", writePointer |-> 0]
                                    ELSE descriptor[c]
  BY <1>3, <1>5, <1>7, Zenon
<1>10. desc = [c \in Chunk |-> Told(g[c])]
  BY <1>9, Zenon
<1> QED
  BY <1>2, <1>3, <1>6, <1>8, <1>10, Zenon DEF g

\* What goes to the flash makes of it what the descriptors then tell; and only a
\* reset frees a chunk.
LEMMA InternalTold ==
  ASSUME NEW fl \in Content, \A c \in Chunk : InOrder(fl[c]),
         descriptor = [c \in Chunk |-> Told(fl[c])],
         NEW op \in FlashOps, NEW list \in Seq(Paged),
         op \in WriteOps => Len(list) <= MaskBits,
         Resets(op) => Len(list) <= 1 \/ \A i \in DOMAIN list : ~ResetRefused(list, i)
  PROVE  LET o == Internal(op, list)
             g == Done(fl, op, o.kept)
         IN  /\ o.kept \in Seq(Paged) /\ g \in Content
             /\ \A c \in Chunk : InOrder(g[c])
             /\ o.desc = [c \in Chunk |-> Told(g[c])]
             /\ ~Resets(op) => \A c \in Chunk :
                  descriptor[c].state = "CLOSED" => o.desc[c].state = "CLOSED"
<1>1. CASE op \in ReadOps
  <2>1. op \in {"read", "vectorChunkRead"}
    BY <1>1, Zenon DEF ReadOps
  <2>2. Internal(op, list) = readInternal(list)
    BY <2>1 DEF Internal, Resets
  <2>3. readInternal(list) = [desc |-> descriptor, err |-> FALSE, kept |-> list]
    BY DEF readInternal, Outcome
  <2>4. Internal(op, list).kept = list /\ Internal(op, list).desc = descriptor
    BY <2>2, <2>3
  <2>5. Done(fl, op, list) = fl
    BY <2>1 DEF Done, Resets
  <2> QED
    BY <2>4, <2>5, Zenon
<1>2. CASE op \in WriteOps
  <2>1. op \in {"write", "vectorChunkWrite"} /\ op \notin {"read", "vectorChunkRead"}
        /\ ~Resets(op)
    BY <1>2 DEF WriteOps, Resets
  <2> DEFINE o == writeInternal(list)
             g == Programmed(fl, o.kept)
  <2>2. Internal(op, list) = o
    BY <2>1, Zenon DEF Internal
  <2>3. /\ o.kept \in Seq(Paged)
        /\ \A i \in DOMAIN o.kept : ~WriteRefused(o.kept, i)
        /\ o.desc = [c \in Chunk |-> AfterWrites(o.kept, Len(o.kept), c)]
    <3>1. Len(list) <= MaskBits
      BY <1>2, Zenon
    <3> QED
      BY <3>1, WriteInternalKeeps, Zenon
  <2> HIDE DEF o
  <2>4. \A c \in Chunk : descriptor[c] = Told(fl[c])
    BY Zenon
  <2>5. /\ g \in Content
        /\ \A c \in Chunk : InOrder(g[c]) /\ Told(g[c]) = AfterWrites(o.kept, Len(o.kept), c)
    BY <2>3, <2>4, WritesTold, Zenon
  <2>6. Done(fl, op, o.kept) = g
    BY <2>1, Zenon DEF Done
  <2> HIDE DEF g
  <2>7. o.desc = [c \in Chunk |-> Told(g[c])]
    BY <2>3, <2>5, Zenon
  <2>8. ASSUME NEW c \in Chunk, descriptor[c].state = "CLOSED"
        PROVE  o.desc[c].state = "CLOSED"
    <3>1. o.desc[c] = descriptor[c]
      BY <2>3, <2>8, ClosedStays, Zenon
    <3> QED
      BY <2>8, <3>1, Zenon
  <2> QED
    BY <2>2, <2>3, <2>5, <2>6, <2>7, <2>8, Zenon
<1>3. CASE op \in ResetOps
  <2>1. /\ op \notin {"read", "vectorChunkRead"} /\ op \notin {"write", "vectorChunkWrite"}
        /\ Resets(op)
    BY <1>3 DEF ResetOps, Resets
  <2>2. Internal(op, list) = eraseInternal(list)
    BY <2>1, Zenon DEF Internal
  <2> DEFINE o == eraseInternal(list)
             g == Done(fl, op, o.kept)
  <2>3. /\ o.kept \in Seq(Paged) /\ g \in Content
        /\ \A c \in Chunk : InOrder(g[c])
        /\ o.desc = [c \in Chunk |-> Told(g[c])]
    <3>1. Len(list) <= 1 \/ \A i \in DOMAIN list : ~ResetRefused(list, i)
      BY <2>1, Zenon
    <3>2. Resets(op)
      BY <2>1, Zenon
    <3> QED
      BY <3>1, <3>2, ResetsTold
  <2> QED
    BY <2>1, <2>2, <2>3, Zenon
<1> QED
  BY <1>1, <1>2, <1>3, Zenon DEF FlashOps

-----------------------------------------------------------------------------
(* The jobs that wait for the flash. *)

Jobs == [slot : Slot, op : FlashOps, list : Seq(Paged)]

\* One more job waits, of which the descriptors tell already.
LEMMA JobQueued ==
  ASSUME FlashAhead, NEW F, Foretells(F), NEW job \in Jobs,
         LET g == Done(F[Len(flashJobs)], job.op, job.list) IN
           /\ g \in Content /\ \A c \in Chunk : InOrder(g[c])
           /\ descriptor' = [c \in Chunk |-> Told(g[c])],
         flashJobs' = Append(flashJobs, job), flash' = flash
  PROVE  FlashAhead'
<1> DEFINE n == Len(flashJobs)
           g == Done(F[n], job.op, job.list)
           G == [i \in 0 .. n + 1 |-> IF i = n + 1 THEN g ELSE F[i]]
<1>1. /\ flashJobs \in Seq(Jobs) /\ n \in Nat
      /\ flashJobs' \in Seq(Jobs) /\ Len(flashJobs') = n + 1
      /\ \A i \in 1 .. n : flashJobs'[i] = flashJobs[i]
      /\ flashJobs'[n + 1] = job
  <2>1. flashJobs \in Seq(Jobs)
    BY Zenon DEF FlashAhead, Jobs
  <2> QED
    BY <2>1, AppendProperties, LenProperties
<1>2. /\ F \in [0 .. n -> Content] /\ F[0] = flash
      /\ \A i \in 1 .. n : F[i] = Done(F[i - 1], flashJobs[i].op, flashJobs[i].list)
      /\ \A i \in 0 .. n : \A c \in Chunk : InOrder(F[i][c])
  BY Zenon DEF Foretells, Content
<1>3. g \in Content /\ \A c \in Chunk : InOrder(g[c])
  BY Zenon
<1>4. descriptor' = [c \in Chunk |-> Told(g[c])]
  BY Zenon
<1> HIDE DEF g
<1>5. /\ G \in [0 .. n + 1 -> Content]
      /\ \A i \in 0 .. n : G[i] = F[i]
      /\ G[n + 1] = g
  <2> HIDE DEF n
  <2> QED
    BY <1>1, <1>2, <1>3
<1> HIDE DEF G
<1>6. G[0] = flash'
  <2>1. 0 \in 0 .. n
    BY <1>1
  <2> QED
    BY <1>2, <1>5, <2>1, Zenon
<1>7. ASSUME NEW i \in 1 .. n + 1
      PROVE  G[i] = Done(G[i - 1], flashJobs'[i].op, flashJobs'[i].list)
  <2>1. CASE i = n + 1
    <3>1. n \in 0 .. n /\ i - 1 = n
      BY <1>1, <2>1
    <3>2. G[i - 1] = F[n] /\ G[i] = g /\ flashJobs'[i] = job
      BY <1>1, <1>5, <2>1, <3>1, Zenon
    <3> QED
      BY <3>2, Zenon DEF g
  <2>2. CASE i # n + 1
    <3>1. i \in 1 .. n /\ i \in 0 .. n /\ i - 1 \in 0 .. n
      BY <1>1, <1>7, <2>2
    <3>2. G[i] = F[i] /\ G[i - 1] = F[i - 1] /\ flashJobs'[i] = flashJobs[i]
      BY <1>1, <1>5, <3>1, Zenon
    <3> QED
      BY <1>2, <3>1, <3>2, Zenon
  <2> QED
    BY <2>1, <2>2
<1>8. ASSUME NEW i \in 0 .. n + 1, NEW c \in Chunk PROVE InOrder(G[i][c])
  <2>1. CASE i = n + 1
    BY <1>3, <1>5, <1>8, <2>1, Zenon
  <2>2. CASE i # n + 1
    <3>1. i \in 0 .. n
      BY <1>1, <1>8, <2>2
    <3> QED
      BY <1>2, <1>5, <1>8, <3>1, Zenon
  <2> QED
    BY <2>1, <2>2
<1>9. descriptor' = [c \in Chunk |-> Told(G[n + 1][c])]
  BY <1>4, <1>5, Zenon
<1>10. /\ G \in [0 .. Len(flashJobs') -> [Chunk -> Seq(Page)]]
       /\ G[0] = flash'
       /\ \A i \in 1 .. Len(flashJobs') :
            G[i] = Done(G[i - 1], flashJobs'[i].op, flashJobs'[i].list)
       /\ \A i \in 0 .. Len(flashJobs') : \A c \in Chunk : InOrder(G[i][c])
       /\ descriptor' = [c \in Chunk |-> Told(G[Len(flashJobs')][c])]
  BY <1>1, <1>5, <1>6, <1>7, <1>8, <1>9, Zenon DEF Content
<1>11. \E H : Foretells(H)'
  BY <1>10, Zenon DEF Foretells
<1> QED
  BY <1>1, <1>11, Zenon DEF FlashAhead, Jobs

\* The first job is done: what was to come is now.
LEMMA JobDone ==
  ASSUME FlashAhead, flashJobs # <<>>,
         flash' = Done(flash, Head(flashJobs).op, Head(flashJobs).list),
         flashJobs' = Tail(flashJobs), descriptor' = descriptor
  PROVE  FlashAhead'
<1> DEFINE n == Len(flashJobs)
<1>1. /\ flashJobs \in Seq(Jobs) /\ n \in Nat \ {0}
      /\ flashJobs' \in Seq(Jobs) /\ Len(flashJobs') = n - 1
      /\ \A i \in 1 .. n - 1 : flashJobs'[i] = flashJobs[i + 1]
      /\ Head(flashJobs) = flashJobs[1]
  <2>1. flashJobs \in Seq(Jobs)
    BY Zenon DEF FlashAhead, Jobs
  <2> QED
    BY <2>1, EmptySeq, HeadTailProperties
<1>2. PICK F : Foretells(F)
  BY Zenon DEF FlashAhead
<1>3. /\ F \in [0 .. n -> Content] /\ F[0] = flash
      /\ \A i \in 1 .. n : F[i] = Done(F[i - 1], flashJobs[i].op, flashJobs[i].list)
      /\ \A i \in 0 .. n : \A c \in Chunk : InOrder(F[i][c])
      /\ descriptor = [c \in Chunk |-> Told(F[n][c])]
  BY <1>2, Zenon DEF Foretells, Content
<1> DEFINE G == [i \in 0 .. n - 1 |-> F[i + 1]]
<1>4. /\ G \in [0 .. n - 1 -> Content]
      /\ \A i \in 0 .. n - 1 : G[i] = F[i + 1] /\ i + 1 \in 0 .. n
  <2> HIDE DEF n
  <2> QED
    BY <1>1, <1>3
<1> HIDE DEF G
<1>5. G[0] = flash'
  <2>1. 0 \in 0 .. n - 1 /\ 0 + 1 = 1 /\ 1 \in 1 .. n /\ 1 - 1 = 0
    BY <1>1
  <2>2. F[1] = Done(F[0], flashJobs[1].op, flashJobs[1].list)
    BY <1>3, <2>1, Zenon
  <2>3. G[0] = F[1]
    BY <1>4, <2>1, Zenon
  <2> QED
    BY <1>1, <1>3, <2>2, <2>3, Zenon
<1>6. ASSUME NEW i \in 1 .. n - 1
      PROVE  G[i] = Done(G[i - 1], flashJobs'[i].op, flashJobs'[i].list)
  <2>1. /\ i \in 0 .. n - 1 /\ i - 1 \in 0 .. n - 1 /\ (i - 1) + 1 = i
        /\ i + 1 \in 1 .. n /\ (i + 1) - 1 = i
    BY <1>1, <1>6
  <2>2. F[i + 1] = Done(F[i], flashJobs[i + 1].op, flashJobs[i + 1].list)
    BY <1>3, <2>1, Zenon
  <2>3. G[i] = F[i + 1] /\ G[i - 1] = F[i]
    BY <1>4, <2>1, Zenon
  <2>4. flashJobs'[i] = flashJobs[i + 1]
    BY <1>1, <1>6, Zenon
  <2> QED
    BY <2>2, <2>3, <2>4, Zenon
<1>7. ASSUME NEW i \in 0 .. n - 1, NEW c \in Chunk PROVE InOrder(G[i][c])
  BY <1>3, <1>4, <1>7, Zenon
<1>8. descriptor' = [c \in Chunk |-> Told(G[n - 1][c])]
  <2>1. n - 1 \in 0 .. n - 1 /\ (n - 1) + 1 = n
    BY <1>1
  <2>2. G[n - 1] = F[n]
    BY <1>4, <2>1, Zenon
  <2> QED
    BY <1>3, <2>2, Zenon
<1>9. /\ G \in [0 .. Len(flashJobs') -> [Chunk -> Seq(Page)]]
      /\ G[0] = flash'
      /\ \A i \in 1 .. Len(flashJobs') :
           G[i] = Done(G[i - 1], flashJobs'[i].op, flashJobs'[i].list)
      /\ \A i \in 0 .. Len(flashJobs') : \A c \in Chunk : InOrder(G[i][c])
      /\ descriptor' = [c \in Chunk |-> Told(G[Len(flashJobs')][c])]
  BY <1>1, <1>4, <1>5, <1>6, <1>7, <1>8, Zenon DEF Content
<1>10. \E H : Foretells(H)'
  BY <1>9, Zenon DEF Foretells
<1> QED
  BY <1>1, <1>10, Zenon DEF FlashAhead, Jobs

\* Nothing was done.
LEMMA NoJob ==
  ASSUME FlashAhead, flash' = flash, flashJobs' = flashJobs, descriptor' = descriptor
  PROVE  FlashAhead'
<1>1. PICK F : Foretells(F)
  BY Zenon DEF FlashAhead
<1>2. Foretells(F)'
  BY <1>1, Zenon DEF Foretells
<1> QED
  BY <1>2, Zenon DEF FlashAhead

-----------------------------------------------------------------------------
(* The stages of a command. *)

LEMMA NoFlashJoin ==
  ASSUME NEW a, NoFlash(a), NEW b, NoFlash(b)
  PROVE  NoFlash(a \o b)
BY ConcatProperties DEF NoFlash

LEMMA NoFlashOnce ==
  ASSUME NEW a, NoFlash(a)
  PROVE  OnceFlash(a) /\ \A i \in DOMAIN a : a[i] # "flash"
<1>1. a \in Seq(StageName \ {"flash"}) /\ DOMAIN a = 1 .. Len(a)
  BY LenProperties DEF NoFlash
<1>2. a \in Seq(StageName)
  BY <1>1, SeqMonotonic
<1>3. \A i \in DOMAIN a : a[i] # "flash"
  BY <1>1, ElementOfSeq
<1> QED
  BY <1>2, <1>3, Zenon DEF OnceFlash

LEMMA OnceFlashJoin ==
  ASSUME NEW a, NEW b,
         \/ OnceFlash(a) /\ NoFlash(b)
         \/ NoFlash(a) /\ OnceFlash(b)
  PROVE  OnceFlash(a \o b)
<1>1. OnceFlash(a) /\ OnceFlash(b)
  BY NoFlashOnce, Zenon
<1>2. /\ a \in Seq(StageName) /\ b \in Seq(StageName)
      /\ Len(a) \in Nat /\ DOMAIN a = 1 .. Len(a)
      /\ Len(b) \in Nat /\ DOMAIN b = 1 .. Len(b)
  BY <1>1, LenProperties DEF OnceFlash
<1> DEFINE q == a \o b
<1>3. /\ q \in Seq(StageName) /\ DOMAIN q = 1 .. Len(a) + Len(b)
      /\ \A i \in 1 .. Len(a) + Len(b) : q[i] = IF i <= Len(a) THEN a[i] ELSE b[i - Len(a)]
  <2>1. /\ q \in Seq(StageName) /\ Len(q) = Len(a) + Len(b)
        /\ \A i \in 1 .. Len(a) + Len(b) : q[i] = IF i <= Len(a) THEN a[i] ELSE b[i - Len(a)]
    BY <1>2, ConcatProperties
  <2> HIDE DEF q
  <2> QED
    BY <2>1, LenProperties
<1> HIDE DEF q
<1>4. ASSUME NEW i \in DOMAIN q
      PROVE  \/ i <= Len(a) /\ i \in DOMAIN a /\ q[i] = a[i]
             \/ ~(i <= Len(a)) /\ i - Len(a) \in DOMAIN b /\ q[i] = b[i - Len(a)]
  <2>1. i \in 1 .. Len(a) + Len(b)
    BY <1>3, <1>4
  <2>2. CASE i <= Len(a)
    BY <1>2, <1>3, <2>1, <2>2
  <2>3. CASE ~(i <= Len(a))
    <3>1. i - Len(a) \in 1 .. Len(b)
      BY <1>2, <2>1, <2>3
    <3> QED
      BY <1>2, <1>3, <2>1, <2>3, <3>1, Zenon
  <2> QED
    BY <2>2, <2>3
<1>5. ASSUME NEW i \in DOMAIN q, NEW j \in DOMAIN q, q[i] = "flash", q[j] = "flash"
      PROVE  i = j
  <2>1. CASE NoFlash(b)
    <3>1. /\ i \in DOMAIN a /\ q[i] = a[i]
          /\ j \in DOMAIN a /\ q[j] = a[j]
      BY <1>4, <1>5, <2>1, NoFlashOnce, Zenon
    <3> QED
      BY <1>1, <1>5, <3>1, Zenon DEF OnceFlash
  <2>2. CASE NoFlash(a)
    <3>1. /\ i - Len(a) \in DOMAIN b /\ q[i] = b[i - Len(a)]
          /\ j - Len(a) \in DOMAIN b /\ q[j] = b[j - Len(a)]
      BY <1>4, <1>5, <2>2, NoFlashOnce, Zenon
    <3>2. i - Len(a) = j - Len(a)
      BY <1>1, <1>5, <3>1, Zenon DEF OnceFlash
    <3>3. i \in 1 .. Len(a) + Len(b) /\ j \in 1 .. Len(a) + Len(b)
      BY <1>3, <1>5, Zenon
    <3> QED
      BY <1>2, <3>2, <3>3
  <2> QED
    BY <2>1, <2>2
<1> QED
  BY <1>3, <1>5, Zenon DEF OnceFlash, q

\* The rest of the stages.
LEMMA RestOfStages ==
  ASSUME NEW stages, OnceFlash(stages), stages # <<>>
  PROVE  /\ OnceFlash(Tail(stages))
         /\ NoFlash(stages) => NoFlash(Tail(stages))
         /\ Len(stages) \in Nat \ {0} /\ Head(stages) = stages[1]
         /\ Len(Tail(stages)) = Len(stages) - 1
         /\ \A i \in 1 .. Len(stages) - 1 : Tail(stages)[i] = stages[i + 1]
<1>1. stages \in Seq(StageName)
  BY DEF OnceFlash
<1>2. /\ Len(stages) \in Nat \ {0} /\ DOMAIN stages = 1 .. Len(stages)
      /\ Head(stages) = stages[1] /\ Tail(stages) \in Seq(StageName)
      /\ Len(Tail(stages)) = Len(stages) - 1
      /\ \A i \in 1 .. Len(stages) - 1 : Tail(stages)[i] = stages[i + 1]
  BY <1>1, EmptySeq, LenProperties, HeadTailProperties
<1>3. OnceFlash(Tail(stages))
  <2>1. DOMAIN Tail(stages) = 1 .. Len(stages) - 1
    BY <1>2, LenProperties
  <2>2. ASSUME NEW i \in 1 .. Len(stages) - 1, NEW j \in 1 .. Len(stages) - 1,
               Tail(stages)[i] = "flash", Tail(stages)[j] = "flash"
        PROVE  i = j
    <3>1. i + 1 \in DOMAIN stages /\ j + 1 \in DOMAIN stages
      BY <1>2, <2>2
    <3>2. stages[i + 1] = "flash" /\ stages[j + 1] = "flash"
      BY <1>2, <2>2, Zenon
    <3>3. i + 1 = j + 1
      BY <3>1, <3>2, Zenon DEF OnceFlash
    <3> QED
      BY <1>2, <2>2, <3>3
  <2> QED
    BY <1>2, <2>1, <2>2, Zenon DEF OnceFlash
<1>4. NoFlash(stages) => NoFlash(Tail(stages))
  BY HeadTailProperties DEF NoFlash
<1> QED
  BY <1>2, <1>3, <1>4, Zenon

LEMMA ShortStages ==
  /\ NoFlash(<<>>) /\ NoFlash(<<"job">>) /\ NoFlash(<<"list">>)
  /\ NoFlash(<<"in">>) /\ NoFlash(<<"out">>) /\ NoFlash(<<"crash">>)
  /\ NoFlash(<<"job", "in">>) /\ NoFlash(<<"list", "job">>) /\ NoFlash(<<"pointer", "in">>)
  /\ NoFlash(<<"in", "completion">>) /\ NoFlash(<<"completion", "out">>)
  /\ NoFlash(<<"job", "completion">>) /\ NoFlash(<<"pointer", "job", "in", "completion">>)
  /\ \A n : NoFlash(List(n))
  /\ OnceFlash(OnFlash)
<1>1. NoFlash(<<>>) /\ NoFlash(<<"list">>)
  BY DEF NoFlash, StageName
<1>2. \A n : NoFlash(List(n))
  BY <1>1, Zenon DEF List
<1>3. OnceFlash(OnFlash)
  BY DEF OnceFlash, OnFlash, StageName
<1>4. /\ NoFlash(<<"job">>) /\ NoFlash(<<"in">>) /\ NoFlash(<<"out">>)
      /\ NoFlash(<<"crash">>)
      /\ NoFlash(<<"job", "in">>) /\ NoFlash(<<"list", "job">>) /\ NoFlash(<<"pointer", "in">>)
  BY DEF NoFlash, StageName
<1>5. /\ NoFlash(<<"in", "completion">>) /\ NoFlash(<<"completion", "out">>)
      /\ NoFlash(<<"job", "completion">>) /\ NoFlash(<<"pointer", "job", "in", "completion">>)
  BY DEF NoFlash, StageName
<1> QED
  BY <1>1, <1>2, <1>3, <1>4, <1>5, Zenon

LEMMA PointerNoFlash ==
  ASSUME NEW p \in Pointers
  PROVE  NoFlash(PointerStages(p))
<1>1. PICK n \in Nat : PointerStages(p) = [i \in 1 .. n |-> "pointer"]
  <2>1. PointerReads(p) \in Nat
    BY PointerReadsCounted
  <2>2. CASE PointerReads(p) = 0
    BY <2>2 DEF PointerStages
  <2>3. CASE PointerReads(p) # 0
    BY <2>1, <2>3, Zenon DEF PointerStages
  <2> QED
    BY <2>2, <2>3
<1>2. "pointer" \in StageName \ {"flash"}
  BY DEF StageName
<1>3. [i \in 1 .. n |-> "pointer"] \in Seq(StageName \ {"flash"})
  BY <1>2
<1> QED
  BY <1>1, <1>3, Zenon DEF NoFlash

LEMMA PointersForIn == \A n : PointersFor(n) \subseteq Pointers
BY DEF PointersFor

\* The operations of revision 2.0 that reach the flash do so once.
LEMMA Stages20Once ==
  ASSUME NEW op, NEW n, NEW p \in Pointers20(op, n),
         op \in {"read", "write", "datasetManagement", "trimIgnored",
                 "vectorChunkRead", "vectorChunkWrite", "vectorChunkReset"}
  PROVE  /\ OnceFlash(Stages20(op, p, n))
         /\ NoFlash(Stages20(op, p, n)) \/ op \in FlashOps
<1> DEFINE q == PointerStages(p)
<1>1. CASE op \in {"read", "write", "datasetManagement", "vectorChunkRead", "vectorChunkWrite"}
  <2>1. NoFlash(q)
    <3>1. p \in Pointers
      BY <1>1, PointersForIn DEF Pointers20
    <3> QED
      BY <3>1, PointerNoFlash
  <2> HIDE DEF q
  <2>2. NoFlash(q \o <<"job">>) /\ NoFlash(q \o <<"job", "in">>)
    BY <2>1, NoFlashJoin, ShortStages, Zenon
  <2>3. NoFlash((q \o <<"job">>) \o List(n))
    BY <2>2, NoFlashJoin, ShortStages, Zenon
  <2>4. /\ OnceFlash((q \o <<"job">>) \o OnFlash)
        /\ OnceFlash((q \o <<"job", "in">>) \o OnFlash)
        /\ OnceFlash(((q \o <<"job">>) \o List(n)) \o OnFlash)
    BY <2>2, <2>3, OnceFlashJoin, ShortStages, Zenon
  <2>5. /\ OnceFlash(((q \o <<"job">>) \o OnFlash) \o <<"out">>)
        /\ OnceFlash(((q \o <<"job", "in">>) \o OnFlash) \o <<"crash">>)
        /\ OnceFlash((((q \o <<"job">>) \o List(n)) \o OnFlash) \o <<"out">>)
        /\ OnceFlash((((q \o <<"job">>) \o List(n)) \o OnFlash) \o <<"in">>)
    BY <2>4, OnceFlashJoin, ShortStages, Zenon
  <2>6. /\ op = "read" => Stages20(op, p, n) = ((q \o <<"job">>) \o OnFlash) \o <<"out">>
        /\ op = "write" => Stages20(op, p, n) = (q \o <<"job", "in">>) \o OnFlash
        /\ op = "datasetManagement" =>
             Stages20(op, p, n) = ((q \o <<"job", "in">>) \o OnFlash) \o <<"crash">>
        /\ op = "vectorChunkRead" =>
             Stages20(op, p, n) = (((q \o <<"job">>) \o List(n)) \o OnFlash) \o <<"out">>
        /\ op = "vectorChunkWrite" =>
             Stages20(op, p, n) = (((q \o <<"job">>) \o List(n)) \o OnFlash) \o <<"in">>
    BY DEF Stages20, read20, write20, datasetManagement20, vectorChunkRead, vectorChunkWrite, q
  <2>7. op \in FlashOps
    BY <1>1 DEF FlashOps, ReadOps, WriteOps, ResetOps
  <2> QED
    BY <1>1, <2>4, <2>5, <2>6, <2>7, Zenon
<1>2. CASE op = "trimIgnored"
  <2>1. Stages20(op, p, n) = <<>>
    BY <1>2 DEF Stages20, trimIgnored
  <2> QED
    BY <2>1, ShortStages, NoFlashOnce, Zenon
<1>3. CASE op = "vectorChunkReset"
  <2>1. Stages20(op, p, n) = OnFlash \/ Stages20(op, p, n) = <<"list", "job">> \o OnFlash
    BY <1>3 DEF Stages20, vectorChunkReset
  <2>2. OnceFlash(<<"list", "job">> \o OnFlash)
    BY ShortStages, OnceFlashJoin, Zenon
  <2>3. op \in FlashOps
    BY <1>3 DEF FlashOps, ResetOps
  <2> QED
    BY <2>1, <2>2, <2>3, ShortStages, Zenon
<1> QED
  BY <1>1, <1>2, <1>3

\* Those of revision 1.2 never wait for it.
LEMMA Stages12NoFlash ==
  ASSUME NEW op, NEW n, NEW p \in Pointers12(op, n),
         op \in {"deviceIdentification", "getBadBlockTable", "physicalBlockErase",
                 "physicalPageWrite", "physicalPageRead", "readIgnored"}
  PROVE  NoFlash(Stages12(op, p, n))
<1> DEFINE q == PointerStages(p)
<1>1. CASE op \in {"deviceIdentification", "getBadBlockTable", "physicalPageWrite",
                   "physicalPageRead"}
  <2>1. NoFlash(q)
    <3>1. p \in Pointers
      BY <1>1, PointersForIn DEF Pointers12
    <3> QED
      BY <3>1, PointerNoFlash
  <2> HIDE DEF q
  <2>2. NoFlash(q \o <<"out">>) /\ NoFlash(q \o <<"job">>)
    BY <2>1, NoFlashJoin, ShortStages, Zenon
  <2>3. NoFlash((q \o <<"job">>) \o List(n))
    BY <2>2, NoFlashJoin, ShortStages, Zenon
  <2>4. /\ NoFlash(((q \o <<"job">>) \o List(n)) \o <<"in", "completion">>)
        /\ NoFlash(((q \o <<"job">>) \o List(n)) \o <<"completion", "out">>)
    BY <2>3, NoFlashJoin, ShortStages, Zenon
  <2>5. /\ op \in {"deviceIdentification", "getBadBlockTable"} =>
             Stages12(op, p, n) = q \o <<"out">>
        /\ op = "physicalPageWrite" =>
             Stages12(op, p, n) = ((q \o <<"job">>) \o List(n)) \o <<"in", "completion">>
        /\ op = "physicalPageRead" =>
             Stages12(op, p, n) = ((q \o <<"job">>) \o List(n)) \o <<"completion", "out">>
    BY DEF Stages12, deviceIdentification, getBadBlockTable, physicalPageWrite,
           physicalPageRead, q
  <2> QED
    BY <1>1, <2>2, <2>4, <2>5, Zenon
<1>2. CASE op = "physicalBlockErase"
  <2>1. \/ Stages12(op, p, n) = <<"pointer", "job", "in", "completion">>
        \/ Stages12(op, p, n) = <<"job", "completion">>
    BY <1>2 DEF Stages12, physicalBlockErase
  <2> QED
    BY <2>1, ShortStages, Zenon
<1>3. CASE op = "readIgnored"
  <2>1. Stages12(op, p, n) = <<>>
    BY <1>3 DEF Stages12, readIgnored
  <2> QED
    BY <2>1, ShortStages, Zenon
<1> QED
  BY <1>1, <1>2, <1>3

-----------------------------------------------------------------------------
(* Steps of the commands. *)

LEMMA AheadFacts ==
  ASSUME NEW r, WellStaged(r), Ahead(r)
  PROVE  r.op \in FlashOps /\ r.arg \in InMask(r.op)
<1>1. PICK i \in 2 .. Len(r.stages) : r.stages[i] = "flash"
  BY DEF Ahead
<1>2. ASSUME NoFlash(r.stages) PROVE FALSE
  <2>1. r.stages \in Seq(StageName \ {"flash"})
    BY <1>2 DEF NoFlash
  <2>2. i \in 1 .. Len(r.stages)
    BY <1>1
  <2>3. r.stages[i] \in StageName \ {"flash"}
    BY <2>1, <2>2, ElementOfSeq
  <2> QED
    BY <1>1, <2>3
<1> QED
  BY <1>2, Zenon DEF WellStaged

\* Chunks that are all closed stay so but for resets.
LEMMA StaysUnrefused ==
  ASSUME NEW lbas \in Seq(LBA), NEW i \in DOMAIN convertUnit20(lbas, TRUE),
         ~ResetRefused(convertUnit20(lbas, TRUE), i),
         \A c \in Chunk : descriptor[c].state = "CLOSED" => descriptor'[c].state = "CLOSED"
  PROVE  ~ResetRefused(convertUnit20(lbas, TRUE), i)'
<1> DEFINE list == convertUnit20(lbas, TRUE)
<1>1. list \in Seq(Paged)
  BY ConvertedPages
<1> HIDE DEF list
<1>2. list[i] \in Paged
  BY <1>1, LenProperties, ElementOfSeq DEF list
<1>3. list[i].chunk \in Chunk
  BY <1>2 DEF Paged
<1>4. ~ResetRefused(list, i) => ~ResetRefused(list, i)'
  BY <1>3, Zenon DEF ResetRefused
<1> QED
  BY <1>4 DEF list

\* Another command comes on a slot, or it goes on, or away.
LEMMA SlotChanged ==
  ASSUME Commands20, kind # "nvm", kind' = kind, NEW s \in Slot, NEW r, WellStaged(r),
         command' = [command EXCEPT ![s] = r],
         Several(r) => \A t \in Slot : Resets(command[t].op) => t = s,
         Several(r) /\ Ahead(r) => Unrefused(r)',
         Resets(r.op) => \A t \in Slot : Several(command[t]) => t = s,
         ~Resets(r.op) => \A c \in Chunk :
           descriptor[c].state = "CLOSED" => descriptor'[c].state = "CLOSED"
  PROVE  Commands20'
<1>1. /\ command = [t \in Slot |-> command[t]]
      /\ \A t \in Slot : WellStaged(command[t])
      /\ ResetsApart
  BY Zenon DEF Commands20
<1>2. command' = [t \in Slot |-> IF t = s THEN r ELSE command[t]]
  BY <1>1
<1>3. /\ command' = [t \in Slot |-> command'[t]]
      /\ command'[s] = r /\ \A t \in Slot : t # s => command'[t] = command[t]
  BY <1>2
<1>4. \A t \in Slot : WellStaged(command'[t])
  BY <1>1, <1>3, Zenon
<1>5. Several(r) => Resets(r.op)
  BY Zenon DEF Several
<1>6. ASSUME NEW t \in Slot, NEW q, q = command'[t], Several(q)
      PROVE  /\ \A u \in Slot : Resets(command'[u].op) => u = t
             /\ Ahead(q) => Unrefused(q)'
  <2>1. CASE t = s
    <3>1. q = r
      BY <1>3, <1>6, <2>1, Zenon
    <3>2. \A u \in Slot : Resets(command'[u].op) => u = t
      BY <1>3, <1>6, <2>1, <3>1, Zenon
    <3> QED
      BY <1>6, <3>1, <3>2, Zenon
  <2>2. CASE t # s
    <3>1. q = command[t] /\ Several(command[t])
      BY <1>3, <1>6, <2>2, Zenon
    <3>2. ~Resets(r.op)
      BY <1>6, <2>2, <3>1, Zenon
    <3>3. /\ \A u \in Slot : Resets(command[u].op) => u = t
          /\ Ahead(command[t]) => Unrefused(command[t])
      BY <1>1, <1>6, <3>1, Zenon DEF ResetsApart
    <3>4. \A u \in Slot : Resets(command'[u].op) => u = t
      BY <1>3, <3>2, <3>3, Zenon
    <3>5. ASSUME Ahead(q) PROVE Unrefused(q)'
      <4>1. q.arg \in Seq(LBA)
        BY <1>1, <1>6, <3>1, <3>5, AheadFacts, Zenon DEF InMask
      <4>2. Unrefused(q)
        BY <3>1, <3>3, <3>5, Zenon
      <4>3. \A c \in Chunk : descriptor[c].state = "CLOSED" => descriptor'[c].state = "CLOSED"
        BY <3>2, Zenon
      <4>4. PICK l : l = q.arg
        OBVIOUS
      <4>5. ASSUME NEW i \in DOMAIN convertUnit20(l, TRUE)
            PROVE  ~ResetRefused(convertUnit20(l, TRUE), i)'
        <5>1. ~ResetRefused(convertUnit20(l, TRUE), i) /\ l \in Seq(LBA)
          BY <4>1, <4>2, <4>4, <4>5, Zenon DEF Unrefused
        <5> QED
          BY <4>3, <4>5, <5>1, StaysUnrefused, Zenon
      <4> QED
        BY <4>4, <4>5, Zenon DEF Unrefused
    <3> QED
      BY <3>4, <3>5
  <2> QED
    BY <2>1, <2>2
<1>7. ASSUME NEW t \in Slot, Several(command'[t])
      PROVE  /\ \A u \in Slot : Resets(command'[u].op) => u = t
             /\ Ahead(command'[t]) => Unrefused(command[t])'
  <2>1. PICK q : q = command'[t]
    OBVIOUS
  <2>2. /\ \A u \in Slot : Resets(command'[u].op) => u = t
        /\ Ahead(q) => Unrefused(q)'
    BY <1>6, <1>7, <2>1, Zenon
  <2>3. Ahead(q) => Unrefused(command[t])'
    BY <2>1, <2>2, Zenon DEF Unrefused
  <2> QED
    BY <2>1, <2>2, <2>3, Zenon
<1>8. ResetsApart'
  BY <1>7, Zenon DEF ResetsApart
<1> QED
  BY <1>3, <1>4, <1>8, Zenon DEF Commands20

\* A command goes on, with what it asks for.
LEMMA Follows ==
  ASSUME Commands20, kind # "nvm", kind' = kind, NEW s \in Slot, NEW r, IsCommand(r),
         r.op = command[s].op, r.arg = command[s].arg,
         \/ r.stages = command[s].stages
         \/ command[s].stages # <<>> /\ r.stages = Tail(command[s].stages),
         command' = [command EXCEPT ![s] = r], descriptor' = descriptor
  PROVE  Commands20'
<1>1. WellStaged(command[s]) /\ ResetsApart
  BY Zenon DEF Commands20
<1>2. OnceFlash(command[s].stages)
  BY <1>1, Zenon DEF WellStaged
<1>3. WellStaged(r)
  BY <1>1, <1>2, RestOfStages, Zenon DEF WellStaged
<1>4. Ahead(r) => Ahead(command[s])
  <2>1. CASE r.stages = command[s].stages
    BY <2>1, Zenon DEF Ahead
  <2>2. CASE command[s].stages # <<>> /\ r.stages = Tail(command[s].stages)
    <3> SUFFICES ASSUME NEW i \in 2 .. Len(r.stages), r.stages[i] = "flash"
                 PROVE  Ahead(command[s])
      BY Zenon DEF Ahead
    <3> DEFINE q == command[s].stages
    <3>1. /\ Len(q) \in Nat \ {0} /\ Len(r.stages) = Len(q) - 1
          /\ \A k \in 1 .. Len(q) - 1 : r.stages[k] = q[k + 1]
      BY <1>2, <2>2, RestOfStages, Zenon
    <3> HIDE DEF q
    <3>2. i \in 1 .. Len(q) - 1 /\ i + 1 \in 2 .. Len(q)
      BY <3>1
    <3>3. q[i + 1] = "flash"
      BY <3>1, <3>2, Zenon
    <3> QED
      BY <3>2, <3>3, Zenon DEF Ahead, q
  <2> QED
    BY <2>1, <2>2
<1>5. Several(r) <=> Several(command[s])
  BY Zenon DEF Several
<1>6. Several(r) => \A t \in Slot : Resets(command[t].op) => t = s
  BY <1>1, <1>5, Zenon DEF ResetsApart
<1>7. Several(r) /\ Ahead(r) => Unrefused(r)'
  <2>1. Several(r) /\ Ahead(r) => Unrefused(r)
    BY <1>1, <1>4, <1>5, Zenon DEF ResetsApart, Unrefused
  <2>2. Unrefused(r) => Unrefused(r)'
    BY Zenon DEF Unrefused, ResetRefused
  <2> QED
    BY <2>1, <2>2
<1>8. Resets(r.op) => \A t \in Slot : Several(command[t]) => t = s
  BY <1>1, Zenon DEF ResetsApart
<1>9. \A c \in Chunk : descriptor[c].state = "CLOSED" => descriptor'[c].state = "CLOSED"
  BY Zenon
<1> QED
  BY <1>3, <1>6, <1>7, <1>8, <1>9, SlotChanged, Zenon

\* A command reaches the flash.
LEMMA GoesToFlashInv ==
  ASSUME ChunkInv, kind # "nvm", kind' = kind, NEW s \in Slot, NEW r, IsCommand(r),
         OnceFlash(r.stages), r.stages # <<>>, Head(r.stages) = "flash",
         r.op \in FlashOps, r.arg \in InMask(r.op),
         Several(r) => /\ Unrefused(r)
                       /\ \A t \in Slot : Resets(command[t].op) => t = s,
         Resets(r.op) => \A t \in Slot : Several(command[t]) => t = s,
         GoesToFlash(s, r)
  PROVE  ChunkInv'
<1>1. FlashAhead /\ Commands20
  BY DEF ChunkInv
<1>2. PICK F : Foretells(F)
  BY <1>1, Zenon DEF FlashAhead
<1> DEFINE fl == F[Len(flashJobs)]
<1>3. /\ fl \in Content /\ \A c \in Chunk : InOrder(fl[c])
      /\ descriptor = [c \in Chunk |-> Told(fl[c])]
  <2>1. Len(flashJobs) \in 0 .. Len(flashJobs)
    BY <1>1, LenProperties DEF FlashAhead
  <2>2. F \in [0 .. Len(flashJobs) -> Content]
    BY <1>2, Zenon DEF Foretells, Content
  <2>3. fl \in Content
    BY <2>1, <2>2
  <2> QED
    BY <1>2, <2>1, <2>3, Zenon DEF Foretells
<1>4. PICK list, o :
        /\ list = convertUnit20(r.arg, Resets(r.op)) /\ o = Internal(r.op, list)
        /\ command' = [command EXCEPT ![s] =
                         Begin([r EXCEPT !.status =
                                  IF o.err /\ r.op # "datasetManagement" THEN "error"
                                  ELSE r.status])]
        /\ descriptor' = o.desc
        /\ flashJobs' = Append(flashJobs, [slot |-> s, op |-> r.op, list |-> o.kept])
        /\ flash' = flash
  BY Zenon DEF GoesToFlash
<1>5. list \in Seq(Paged) /\ (r.op \in WriteOps => Len(list) <= MaskBits)
  <2>1. r.arg \in Seq(LBA)
    BY Zenon DEF InMask
  <2>2. r.op \in WriteOps => Resets(r.op) = FALSE
    BY DEF WriteOps, Resets
  <2>3. r.op \in WriteOps => Len(convertUnit20(r.arg, FALSE)) <= MaskBits
    BY Zenon DEF InMask
  <2> QED
    BY <1>4, <2>1, <2>2, <2>3, ConvertedPages, Zenon
<1>6. Resets(r.op) => Len(list) <= 1 \/ \A i \in DOMAIN list : ~ResetRefused(list, i)
  <2> SUFFICES ASSUME Resets(r.op), ~(Len(list) <= 1)
               PROVE  \A i \in DOMAIN list : ~ResetRefused(list, i)
    OBVIOUS
  <2>1. Resets(r.op) = TRUE
    BY DEF Resets
  <2>2. list = convertUnit20(r.arg, TRUE)
    BY <1>4, <2>1, Zenon
  <2>3. Len(list) > 1
    BY <1>5, LenProperties
  <2>4. Several(r)
    BY <2>2, <2>3, Zenon DEF Several
  <2> QED
    BY <2>2, <2>4, Zenon DEF Unrefused
<1> DEFINE g == Done(fl, r.op, o.kept)
<1>7. /\ o.kept \in Seq(Paged) /\ g \in Content
      /\ \A c \in Chunk : InOrder(g[c])
      /\ o.desc = [c \in Chunk |-> Told(g[c])]
      /\ ~Resets(r.op) => \A c \in Chunk :
           descriptor[c].state = "CLOSED" => o.desc[c].state = "CLOSED"
  <2> HIDE DEF fl
  <2>1. LET x == Internal(r.op, list)
            y == Done(fl, r.op, x.kept)
        IN  /\ x.kept \in Seq(Paged) /\ y \in Content
            /\ \A c \in Chunk : InOrder(y[c])
            /\ x.desc = [c \in Chunk |-> Told(y[c])]
            /\ ~Resets(r.op) => \A c \in Chunk :
                 descriptor[c].state = "CLOSED" => x.desc[c].state = "CLOSED"
    BY <1>3, <1>5, <1>6, InternalTold
  <2> QED
    BY <1>4, <2>1, Zenon
<1>8. FlashAhead'
  <2>1. PICK job : job = [slot |-> s, op |-> r.op, list |-> o.kept]
    OBVIOUS
  <2>2. job \in Jobs /\ job.op = r.op /\ job.list = o.kept
    BY <1>7, <2>1 DEF Jobs
  <2>3. /\ Done(fl, job.op, job.list) = g
        /\ flashJobs' = Append(flashJobs, job)
    BY <1>4, <2>1, <2>2, Zenon
  <2>4. /\ Done(F[Len(flashJobs)], job.op, job.list) \in Content
        /\ \A c \in Chunk : InOrder(Done(F[Len(flashJobs)], job.op, job.list)[c])
        /\ descriptor' = [c \in Chunk |-> Told(Done(F[Len(flashJobs)], job.op, job.list)[c])]
    BY <1>4, <1>7, <2>3, Zenon
  <2> QED
    BY <1>1, <1>2, <1>4, <2>2, <2>3, <2>4, JobQueued, Zenon
<1>9. Commands20'
  <2>1. PICK e : e = [r EXCEPT !.status =
                        IF o.err /\ r.op # "datasetManagement" THEN "error" ELSE r.status]
    OBVIOUS
  <2>2. PICK q : q = Begin(e)
    OBVIOUS
  <2>3. IsCommand(e) /\ e.op = r.op /\ e.arg = r.arg /\ e.stages = r.stages
    <3>1. e = [op |-> r.op, arg |-> r.arg, pointer |-> r.pointer, data |-> r.data,
               stages |-> r.stages, under |-> r.under, moved |-> r.moved,
               status |-> IF o.err /\ r.op # "datasetManagement" THEN "error"
                          ELSE r.status,
               answers |-> r.answers]
      BY <2>1 DEF IsCommand
    <3> QED
      BY <3>1 DEF IsCommand
  <2>4. IsCommand(q) /\ q.op = r.op /\ q.arg = r.arg /\ q.stages = r.stages
    BY <2>2, <2>3, BeginCommand, Zenon
  <2>5. WellStaged(q)
    BY <2>4, Zenon DEF WellStaged
  <2>6. ~Ahead(q)
    <3> SUFFICES ASSUME NEW i \in 2 .. Len(r.stages), r.stages[i] = "flash" PROVE FALSE
      BY <2>4, Zenon DEF Ahead
    <3>1. Len(r.stages) \in Nat /\ DOMAIN r.stages = 1 .. Len(r.stages)
      BY LenProperties DEF OnceFlash
    <3>2. r.stages[1] = "flash"
      BY RestOfStages, Zenon
    <3>3. 1 \in DOMAIN r.stages /\ i \in DOMAIN r.stages /\ i # 1
      BY <3>1
    <3> QED
      BY <3>2, <3>3, Zenon DEF OnceFlash
  <2>7. Several(q) <=> Several(r)
    BY <2>4, Zenon DEF Several
  <2>8. command' = [command EXCEPT ![s] = q]
    BY <1>4, <2>1, <2>2, Zenon
  <2>9. ~Resets(q.op) => \A c \in Chunk :
          descriptor[c].state = "CLOSED" => descriptor'[c].state = "CLOSED"
    BY <1>4, <1>7, <2>4, Zenon
  <2>10. Several(q) => \A t \in Slot : Resets(command[t].op) => t = s
    BY <2>7, Zenon
  <2>11. Resets(q.op) => \A t \in Slot : Several(command[t]) => t = s
    BY <2>4, Zenon
  <2> QED
    BY <1>1, <2>5, <2>6, <2>8, <2>9, <2>10, <2>11, SlotChanged, Zenon
<1> QED
  BY <1>8, <1>9 DEF ChunkInv

\* A command comes that changes nothing yet.
LEMMA CommandComes ==
  ASSUME ChunkInv, kind # "nvm", kind' = kind, NEW s \in Slot, NEW r, WellStaged(r),
         Several(r) => /\ \A t \in Slot : Resets(command[t].op) => t = s
                       /\ Unrefused(r),
         Resets(r.op) => \A t \in Slot : Several(command[t]) => t = s,
         command' = [command EXCEPT ![s] = r], UNCHANGED <<descriptor, flash, flashJobs>>
  PROVE  ChunkInv'
<1>1. FlashAhead /\ Commands20
  BY DEF ChunkInv
<1>2. descriptor' = descriptor /\ flash' = flash /\ flashJobs' = flashJobs
  OBVIOUS
<1>3. FlashAhead'
  BY <1>1, <1>2, NoJob, Zenon
<1>4. Several(r) => Unrefused(r)'
  BY <1>2, Zenon DEF Unrefused, ResetRefused
<1>5. \A c \in Chunk : descriptor[c].state = "CLOSED" => descriptor'[c].state = "CLOSED"
  BY <1>2, Zenon
<1>6. Several(r) => \A t \in Slot : Resets(command[t].op) => t = s
  BY Zenon
<1>7. Commands20'
  BY <1>1, <1>4, <1>5, <1>6, SlotChanged, Zenon
<1> QED
  BY <1>3, <1>7 DEF ChunkInv

\* A command that is no reset comes.
LEMMA OtherComes ==
  ASSUME ChunkInv, kind # "nvm", kind' = kind, NEW s \in Slot, NEW r, WellStaged(r),
         ~Resets(r.op),
         command' = [command EXCEPT ![s] = r], UNCHANGED <<descriptor, flash, flashJobs>>
  PROVE  ChunkInv'
<1>1. ~Several(r)
  BY DEF Several
<1> QED
  BY <1>1, CommandComes, Zenon

\* Where a command goes on, and no job is done.
LEMMA GoesOnInv ==
  ASSUME ChunkInv, kind # "nvm", kind' = kind, NEW s \in Slot, NEW r, IsCommand(r),
         r.op = command[s].op, r.arg = command[s].arg,
         \/ r.stages = command[s].stages
         \/ command[s].stages # <<>> /\ r.stages = Tail(command[s].stages),
         command' = [command EXCEPT ![s] = r], UNCHANGED <<descriptor, flash, flashJobs>>
  PROVE  ChunkInv'
<1>1. FlashAhead /\ Commands20
  BY DEF ChunkInv
<1>2. descriptor' = descriptor /\ flash' = flash /\ flashJobs' = flashJobs
  OBVIOUS
<1>3. FlashAhead'
  BY <1>1, <1>2, NoJob, Zenon
<1>4. Commands20'
  BY <1>1, <1>2, Follows, Zenon
<1> QED
  BY <1>3, <1>4 DEF ChunkInv

-----------------------------------------------------------------------------
(* The steps of the device. *)

LEMMA Made ==
  ASSUME NEW op, NEW arg, NEW pointer, NEW stages, NEW r,
         r = Command(op, arg, pointer, stages)
  PROVE  IsCommand(r) /\ r.op = op /\ r.arg = arg /\ r.stages = stages
BY DEF Command, IsCommand

LEMMA Begun ==
  ASSUME NEW op, NEW arg, NEW pointer, NEW stages, NEW r,
         r = Begin(Command(op, arg, pointer, stages))
  PROVE  IsCommand(r) /\ r.op = op /\ r.arg = arg /\ r.stages = stages
<1>1. PICK q : q = Command(op, arg, pointer, stages)
  OBVIOUS
<1>2. IsCommand(q) /\ q.op = op /\ q.arg = arg /\ q.stages = stages
  BY <1>1, Made
<1>3. r = Begin(q)
  BY <1>1, Zenon
<1> QED
  BY <1>2, <1>3, BeginCommand, Zenon

\* submitCommand() of revision 2.0.
LEMMA Submit20Inv ==
  ASSUME ListsInMask, ChunkInv, kind # "nvm", kind' = kind, NEW s \in Slot, NEW io \in Requests20,
         SubmitIO20(s, io)
  PROVE  ChunkInv'
<1>1. /\ io.op \in {"read", "write", "datasetManagement", "trimIgnored",
                    "vectorChunkRead", "vectorChunkWrite", "vectorChunkReset"}
      /\ io.lbas \in Seq(LBA) /\ io.lbas \in InMask(io.op)
  BY OpenChannelAssumption, Zenon DEF LBA, ListsInMask
<1>2. PICK p, r :
        /\ p \in Pointers20(io.op, io.nlb)
        /\ r = Command(io.op, io.lbas, p, Stages20(io.op, p, io.nlb))
        /\ IF r.stages # <<>> /\ Head(r.stages) = "flash"
           THEN /\ submitted' = submitted + 1
                /\ GoesToFlash(s, r)
           ELSE Submit(s, Begin(r)) /\ UNCHANGED chunkVars
  BY Zenon DEF SubmitIO20
<1>3. /\ IsCommand(r) /\ r.op = io.op /\ r.arg = io.lbas
      /\ r.stages = Stages20(io.op, p, io.nlb)
  <2>1. r = Command(io.op, io.lbas, p, Stages20(io.op, p, io.nlb))
    BY <1>2, Zenon
  <2> QED
    BY ONLY <2>1, Made
<1>4. OnceFlash(r.stages) /\ (NoFlash(r.stages) \/ r.op \in FlashOps)
  BY <1>1, <1>2, <1>3, Stages20Once, Zenon
<1>5. Resets(r.op) => HostMayReset(io.lbas)
  BY <1>3, Zenon DEF SubmitIO20
<1> DEFINE list == convertUnit20(io.lbas, TRUE)
<1>6. Resets(r.op) =>
        /\ \A t \in Slot : Resets(command[t].op) => Len(list) <= 1 /\ ~Several(command[t])
        /\ Len(list) > 1 => \A i \in DOMAIN list : ~ResetRefused(list, i)
  BY <1>5, Zenon DEF HostMayReset
<1>7. Several(r) <=> Resets(r.op) /\ Len(list) > 1
  BY <1>3, Zenon DEF Several
<1>8. Resets(r.op) => \A t \in Slot : Several(command[t]) => t = s
  BY <1>6, Zenon DEF Several
<1>9. Several(r) => /\ Unrefused(r)
                    /\ \A t \in Slot : Resets(command[t].op) => t = s
  <2> SUFFICES ASSUME Several(r)
               PROVE  Unrefused(r) /\ \A t \in Slot : ~Resets(command[t].op)
    BY Zenon
  <2>1. Resets(r.op) /\ Len(list) > 1
    BY <1>7, Zenon
  <2>2. Unrefused(r)
    BY <1>3, <1>6, <2>1, Zenon DEF Unrefused
  <2>3. ~(Len(list) <= 1)
    <3>1. Len(list) \in Nat
      BY <1>1, ConvertedPages, LenProperties
    <3> HIDE DEF list
    <3> QED
      BY <2>1, <3>1
  <2> QED
    BY <1>6, <2>1, <2>2, <2>3, Zenon
<1> HIDE DEF list
<1>10. CASE r.stages # <<>> /\ Head(r.stages) = "flash"
  <2>1. GoesToFlash(s, r)
    BY <1>2, <1>10, Zenon
  <2>2. ~NoFlash(r.stages)
    <3> SUFFICES ASSUME NoFlash(r.stages) PROVE FALSE
      OBVIOUS
    <3>1. Head(r.stages) \in StageName \ {"flash"}
      BY <1>10, HeadTailProperties DEF NoFlash
    <3> QED
      BY <1>10, <3>1
  <2>3. r.op \in FlashOps /\ r.arg \in InMask(r.op)
    BY <1>1, <1>3, <1>4, <2>2, Zenon
  <2> QED
    BY <1>3, <1>4, <1>8, <1>9, <1>10, <2>1, <2>3, GoesToFlashInv, Zenon
<1>11. CASE ~(r.stages # <<>> /\ Head(r.stages) = "flash")
  <2>1. PICK q : q = Begin(r)
    OBVIOUS
  <2>2. Submit(s, q) /\ UNCHANGED chunkVars
    BY <1>2, <1>11, <2>1, Zenon
  <2>3. IsCommand(q) /\ q.op = r.op /\ q.arg = r.arg /\ q.stages = r.stages
    BY <1>3, <2>1, BeginCommand, Zenon
  <2>4. WellStaged(q)
    BY <1>1, <1>3, <1>4, <2>3, Zenon DEF WellStaged
  <2>5. Several(q) => /\ \A t \in Slot : Resets(command[t].op) => t = s
                      /\ Unrefused(q)
    BY <1>9, <2>3, Zenon DEF Several, Unrefused
  <2>6. Resets(q.op) => \A t \in Slot : Several(command[t]) => t = s
    BY <1>8, <2>3, Zenon
  <2>7. command' = [command EXCEPT ![s] = q] /\ UNCHANGED <<descriptor, flash, flashJobs>>
    BY <2>2 DEF Submit, chunkVars
  <2> QED
    BY <2>4, <2>5, <2>6, <2>7, CommandComes, Zenon
<1> QED
  BY <1>10, <1>11

LEMMA Host20Inv ==
  ASSUME ListsInMask, ChunkInv, kind # "nvm", kind' = kind, NEW s \in Slot, Host20(s)
  PROVE  ChunkInv'
<1>1. CASE \E io \in Requests20 : SubmitIO20(s, io)
  BY <1>1, Submit20Inv, Zenon
<1>2. CASE SubmitAdmin20(s)
  <2>1. PICK op, p, r :
          /\ op \in {"geometry", "chunkLog"} /\ p \in PointersFor(1)
          /\ r = Begin(Command(op, <<>>, p,
                               IF op = "geometry" THEN geometry(p) ELSE chunkLog(p)))
          /\ Submit(s, r) /\ UNCHANGED chunkVars
    BY <1>2, Zenon DEF SubmitAdmin20
  <2>2. /\ IsCommand(r) /\ r.op = op
        /\ r.stages = IF op = "geometry" THEN geometry(p) ELSE chunkLog(p)
    BY <2>1, Begun
  <2>3. NoFlash(r.stages)
    <3>1. p \in Pointers
      BY <2>1, PointersForIn
    <3>2. NoFlash(PointerStages(p) \o <<"out">>)
      BY <3>1, PointerNoFlash, NoFlashJoin, ShortStages, Zenon
    <3> QED
      BY <2>2, <3>2, Zenon DEF geometry, chunkLog
  <2>4. WellStaged(r)
    BY <2>2, <2>3, NoFlashOnce, Zenon DEF WellStaged
  <2>5. ~Resets(r.op)
    BY <2>1, <2>2 DEF Resets
  <2>6. command' = [command EXCEPT ![s] = r] /\ UNCHANGED <<descriptor, flash, flashJobs>>
    BY <2>1 DEF Submit, chunkVars
  <2> QED
    BY <2>4, <2>5, <2>6, OtherComes, Zenon
<1> QED
  BY <1>1, <1>2 DEF Host20

LEMMA Host12Inv ==
  ASSUME ChunkInv, kind # "nvm", kind' = kind, NEW s \in Slot, Host12(s)
  PROVE  ChunkInv'
<1>1. ASSUME NEW io \in Requests12, Submit12(s, io) PROVE ChunkInv'
  <2>1. io.op \in {"deviceIdentification", "getBadBlockTable", "physicalBlockErase",
                   "physicalPageWrite", "physicalPageRead", "readIgnored"}
    BY <1>1, OpenChannelAssumption, Zenon
  <2>2. PICK p, q, r :
          /\ p \in Pointers12(io.op, io.nlb)
          /\ q = Command(io.op, <<>>, p, Stages12(io.op, p, io.nlb))
          /\ r = Begin(q) \/ r = Fail([q EXCEPT !.pointer = NoPointer])
          /\ Submit(s, r) /\ UNCHANGED chunkVars
    BY <1>1, Zenon DEF Submit12
  <2>3. IsCommand(q) /\ q.op = io.op /\ q.stages = Stages12(io.op, p, io.nlb)
    <3>1. q = Command(io.op, <<>>, p, Stages12(io.op, p, io.nlb))
      BY <2>2, Zenon
    <3> QED
      BY ONLY <3>1, Made
  <2>4. NoFlash(q.stages)
    BY <2>1, <2>2, <2>3, Stages12NoFlash, Zenon
  <2>5. /\ IsCommand(r) /\ r.op = io.op
        /\ r.stages = q.stages \/ r.stages = <<>>
    <3>1. CASE r = Begin(q)
      BY <2>3, <3>1, BeginCommand, Zenon
    <3>2. CASE r = Fail([q EXCEPT !.pointer = NoPointer])
      <4>1. PICK e : e = [[q EXCEPT !.pointer = NoPointer]
                           EXCEPT !.stages = <<>>, !.status = "error"]
        OBVIOUS
      <4>2. e = [op |-> q.op, arg |-> q.arg, pointer |-> NoPointer, data |-> q.data,
                 stages |-> <<>>, under |-> q.under, moved |-> q.moved,
                 status |-> "error", answers |-> q.answers]
        BY <2>3, <4>1 DEF IsCommand
      <4>3. IsCommand(e) /\ e.op = q.op /\ e.stages = <<>>
        BY <4>2 DEF IsCommand
      <4>4. r = Begin(e)
        BY <3>2, <4>1, Zenon DEF Fail
      <4> QED
        BY <2>3, <4>3, <4>4, BeginCommand, Zenon
    <3> QED
      BY <2>2, <3>1, <3>2
  <2>6. WellStaged(r)
    BY <2>4, <2>5, NoFlashOnce, ShortStages, Zenon DEF WellStaged
  <2>7. ~Resets(r.op)
    BY <2>1, <2>5 DEF Resets
  <2>8. command' = [command EXCEPT ![s] = r] /\ UNCHANGED <<descriptor, flash, flashJobs>>
    BY <2>2 DEF Submit, chunkVars
  <2> QED
    BY <2>6, <2>7, <2>8, OtherComes, Zenon
<1>2. ASSUME NEW blocks, NEW value, SubmitSetBadBlocks(s, blocks, value) PROVE ChunkInv'
  <2>1. PICK r :
          /\ r = Begin(Command("setBadBlockTable", [blocks |-> blocks, value |-> value],
                               PRPBase(1), setBadBlockTable))
          /\ Submit(s, r) /\ UNCHANGED chunkVars
    BY <1>2, Zenon DEF SubmitSetBadBlocks
  <2>2. IsCommand(r) /\ r.op = "setBadBlockTable" /\ r.stages = <<"pointer", "in">>
    BY <2>1, Begun DEF setBadBlockTable
  <2>3. WellStaged(r)
    BY <2>2, NoFlashOnce, ShortStages, Zenon DEF WellStaged
  <2>4. ~Resets(r.op)
    BY <2>2 DEF Resets
  <2>5. command' = [command EXCEPT ![s] = r] /\ UNCHANGED <<descriptor, flash, flashJobs>>
    BY <2>1 DEF Submit, chunkVars
  <2> QED
    BY <2>3, <2>4, <2>5, OtherComes, Zenon
<1> QED
  BY <1>1, <1>2, Zenon DEF Host12

\* dmaDone, doRead, doWrite: the stage before the flash ends.
LEMMA ToFlashInv ==
  ASSUME ChunkInv, kind # "nvm", kind' = kind, NEW s \in Slot, ToFlash(s)
  PROVE  ChunkInv'
<1>1. WellStaged(command[s]) /\ ResetsApart
  BY Zenon DEF ChunkInv, Commands20
<1>2. IsCommand(command[s]) /\ OnceFlash(command[s].stages)
  BY <1>1, Zenon DEF WellStaged
<1>3. PICK stage, r, e :
        /\ r \in StageEnded(s, stage)
        /\ Len(r.stages) > 1 /\ r.stages[2] = "flash"
        /\ e = [r EXCEPT !.stages = Tail(r.stages)]
        /\ GoesToFlash(s, e)
  BY Zenon DEF ToFlash
<1>4. /\ r.stages # <<>> /\ IsCommand(r) /\ r.op = command[s].op /\ r.arg = command[s].arg
      /\ r.stages = command[s].stages
  BY <1>2, <1>3, StageEndedFields, Zenon
<1>5. IsCommand(e) /\ e.op = r.op /\ e.arg = r.arg /\ e.stages = Tail(r.stages)
  <2>1. e = [op |-> r.op, arg |-> r.arg, pointer |-> r.pointer, data |-> r.data,
             stages |-> Tail(r.stages), under |-> r.under, moved |-> r.moved,
             status |-> r.status, answers |-> r.answers]
    BY <1>3, <1>4, AdvancedFields, Zenon
  <2> QED
    BY <2>1 DEF IsCommand
<1>6. OnceFlash(e.stages) /\ e.stages # <<>> /\ Head(e.stages) = "flash"
  <2>1. /\ OnceFlash(e.stages) /\ Len(r.stages) \in Nat
        /\ Len(e.stages) = Len(r.stages) - 1
        /\ \A i \in 1 .. Len(r.stages) - 1 : e.stages[i] = r.stages[i + 1]
    BY <1>2, <1>4, <1>5, RestOfStages, Zenon
  <2>2. e.stages \in Seq(StageName) /\ Len(e.stages) # 0
    BY <1>3, <2>1 DEF OnceFlash
  <2>3. e.stages # <<>>
    BY <2>2
  <2>4. 1 \in 1 .. Len(r.stages) - 1 /\ 1 + 1 = 2
    BY <1>3, <2>1
  <2>5. e.stages[1] = "flash"
    BY <1>3, <2>1, <2>4, Zenon
  <2>6. Head(e.stages) = e.stages[1]
    BY <2>1, <2>3, RestOfStages, Zenon
  <2> QED
    BY <2>1, <2>3, <2>5, <2>6, Zenon
<1>7. Ahead(command[s])
  <2>1. Len(r.stages) \in Nat
    BY <1>2, <1>4, RestOfStages, Zenon
  <2>2. 2 \in 2 .. Len(r.stages)
    BY <1>3, <2>1
  <2> QED
    BY <1>3, <1>4, <2>2, Zenon DEF Ahead
<1>8. e.op \in FlashOps /\ e.arg \in InMask(e.op)
  BY <1>1, <1>4, <1>5, <1>7, AheadFacts, Zenon
<1>9. Several(e) => /\ Unrefused(e)
                    /\ \A t \in Slot : Resets(command[t].op) => t = s
  BY <1>1, <1>4, <1>5, <1>7, Zenon DEF ResetsApart, Several, Unrefused
<1>10. Resets(e.op) => \A t \in Slot : Several(command[t]) => t = s
  BY <1>1, <1>4, <1>5, Zenon DEF ResetsApart
<1> QED
  BY <1>3, <1>5, <1>6, <1>8, <1>9, <1>10, GoesToFlashInv, Zenon

\* Every other callback.
LEMMA ChunkCallbackInv ==
  ASSUME ChunkInv, kind # "nvm", kind' = kind, NEW s \in Slot,
         SetBadBlocks(s) \/ OpenChannelCallback(s)
  PROVE  ChunkInv'
<1>1. IsCommand(command[s]) /\ UNCHANGED <<descriptor, flash, flashJobs>>
  <2>1. IsCommand(command[s])
    BY Zenon DEF ChunkInv, Commands20, WellStaged
  <2> QED
    BY <2>1 DEF SetBadBlocks, OpenChannelCallback, chunkVars
<1>2. ASSUME NEW stage, NEW r \in StageEnded(s, stage),
             command' = [command EXCEPT ![s] = NextStage(r)]
      PROVE  ChunkInv'
  <2>1. PICK q : q = NextStage(r)
    OBVIOUS
  <2>2. /\ r.stages # <<>> /\ command[s].stages # <<>> /\ IsCommand(r)
        /\ r.op = command[s].op /\ r.arg = command[s].arg /\ r.stages = command[s].stages
    BY <1>1, <1>2, StageEndedFields, Zenon
  <2>3. IsCommand(q) /\ q.op = r.op /\ q.arg = r.arg /\ q.stages = Tail(r.stages)
    BY <2>1, <2>2, NextStageQuiet, Zenon
  <2> QED
    BY <1>1, <1>2, <2>1, <2>2, <2>3, GoesOnInv, Zenon
<1>3. ASSUME PieceEnds(s) PROVE ChunkInv'
  <2>1. PICK piece, q :
          q = EndPiece(command[s], piece) /\ command' = [command EXCEPT ![s] = q]
    BY <1>3, Zenon DEF PieceEnds
  <2>2. IsCommand(q) /\ q.op = command[s].op /\ q.arg = command[s].arg
        /\ q.stages = command[s].stages
    BY <1>1, <2>1, EndPieceFields, Zenon
  <2> QED
    BY <1>1, <2>1, <2>2, GoesOnInv, Zenon
<1> QED
  BY <1>2, <1>3, Zenon DEF SetBadBlocks, OpenChannelCallback, GoesOn

\* The core does its first job.
LEMMA FlashJobInv ==
  ASSUME ChunkInv, kind # "nvm", kind' = kind, FlashJob
  PROVE  ChunkInv'
<1>1. FlashAhead /\ Commands20
  BY DEF ChunkInv
<1>2. PICK s, r, q :
        /\ r \in StageEnded(s, "flash")
        /\ s = Head(flashJobs).slot /\ q = NextStage(r)
        /\ command' = [command EXCEPT ![s] = q]
        /\ flashJobs # <<>> /\ flash' = Done(flash, Head(flashJobs).op, Head(flashJobs).list)
        /\ flashJobs' = Tail(flashJobs) /\ descriptor' = descriptor
  BY Zenon DEF FlashJob
<1>3. s \in Slot
  <2>1. Head(flashJobs) \in [slot : Slot, op : FlashOps, list : Seq(Paged)]
    BY <1>1, <1>2, HeadTailProperties DEF FlashAhead
  <2> QED
    BY <1>2, <2>1
<1>4. FlashAhead'
  BY <1>1, <1>2, JobDone, Zenon
<1>5. IsCommand(command[s])
  BY <1>1, <1>3, Zenon DEF Commands20, WellStaged
<1>6. /\ r.stages # <<>> /\ command[s].stages # <<>> /\ IsCommand(r)
      /\ r.op = command[s].op /\ r.arg = command[s].arg /\ r.stages = command[s].stages
  BY <1>2, <1>5, StageEndedFields, Zenon
<1>7. IsCommand(q) /\ q.op = r.op /\ q.arg = r.arg /\ q.stages = Tail(r.stages)
  BY <1>2, <1>6, NextStageQuiet, Zenon
<1>8. Commands20'
  BY <1>1, <1>2, <1>3, <1>6, <1>7, Follows, Zenon
<1> QED
  BY <1>4, <1>8 DEF ChunkInv

\* The host takes a completion.
LEMMA ChunkTakenInv ==
  ASSUME ChunkInv, NEW s \in Slot, Taken(s)
  PROVE  ChunkInv'
<1>1. /\ command' = [command EXCEPT ![s] = NoCommand] /\ kind' = kind
      /\ UNCHANGED <<descriptor, flash, flashJobs>>
  BY DEF Taken, TakeCompletion, chunkVars
<1>2. CASE kind = "nvm"
  <2>1. FlashAhead'
    BY <1>1, NoJob DEF ChunkInv
  <2>2. Commands20'
    BY <1>1, <1>2, Zenon DEF Commands20
  <2> QED
    BY <2>1, <2>2 DEF ChunkInv
<1>3. CASE kind # "nvm"
  <2>1. PICK r : r = NoCommand
    OBVIOUS
  <2>2. IsCommand(r) /\ r.op = "none" /\ r.stages = <<>>
    BY <2>1, Made DEF NoCommand
  <2>3. WellStaged(r)
    BY <2>2, NoFlashOnce, ShortStages, Zenon DEF WellStaged
  <2>4. ~Resets(r.op)
    BY <2>2 DEF Resets
  <2> QED
    BY <1>1, <1>3, <2>1, <2>3, <2>4, OtherComes, Zenon
<1> QED
  BY <1>2, <1>3

LEMMA ChunkStepInv ==
  ASSUME ListsInMask, ChunkInv, [Next]_deviceVars
  PROVE  ChunkInv'
<1>1. ASSUME kind = "nvm", kind' = kind, UNCHANGED chunkVars PROVE ChunkInv'
  <2>1. descriptor' = descriptor /\ flash' = flash /\ flashJobs' = flashJobs
    BY <1>1 DEF chunkVars
  <2>2. FlashAhead'
    BY <2>1, NoJob, Zenon DEF ChunkInv
  <2>3. Commands20'
    BY <1>1, Zenon DEF Commands20
  <2> QED
    BY <2>2, <2>3 DEF ChunkInv
<1>2. ASSUME NEW s \in Slot, NvmHost(s) \/ NvmStep(s) PROVE ChunkInv'
  <2>1. kind = "nvm" /\ kind' = kind /\ UNCHANGED chunkVars
    BY <1>2 DEF NvmHost, NvmStep
  <2> QED
    BY <1>1, <2>1, Zenon
<1>3. ASSUME NEW s \in Slot, OpenChannelHost(s) PROVE ChunkInv'
  <2>1. kind # "nvm" /\ kind' = kind
    BY <1>3 DEF OpenChannelHost
  <2> QED
    BY <1>3, <2>1, Host12Inv, Host20Inv, Zenon DEF OpenChannelHost
<1>4. ASSUME NEW s \in Slot, ChunkStep(s) PROVE ChunkInv'
  <2>1. kind # "nvm" /\ kind' = kind /\ OpenChannelStep(s)
    BY <1>4 DEF ChunkStep
  <2> QED
    BY <2>1, ToFlashInv, ChunkCallbackInv, Zenon DEF OpenChannelStep
<1>5. CASE Flash
  <2>1. kind # "nvm" /\ kind' = kind /\ FlashJob
    BY <1>5 DEF Flash
  <2> QED
    BY <2>1, FlashJobInv, Zenon
<1>6. CASE UNCHANGED deviceVars
  <2>1. /\ descriptor' = descriptor /\ flash' = flash /\ flashJobs' = flashJobs
        /\ kind' = kind /\ command' = command
    BY <1>6 DEF deviceVars, commandVars, chunkVars
  <2>2. FlashAhead'
    BY <2>1, NoJob, Zenon DEF ChunkInv
  <2>3. Commands20 => Commands20'
    BY <2>1, Zenon DEF Commands20, ResetsApart, Unrefused, ResetRefused
  <2> QED
    BY <2>2, <2>3 DEF ChunkInv
<1> QED
  BY <1>2, <1>3, <1>4, <1>5, <1>6, ChunkTakenInv, Zenon DEF Next

LEMMA InitChunkInv == Init => ChunkInv
<1> SUFFICES ASSUME Init PROVE ChunkInv
  OBVIOUS
<1>1. /\ descriptor = [c \in Chunk |-> [state |-> "FREE", writePointer |-> 0]]
      /\ flash = [c \in Chunk |-> <<>>]
      /\ flashJobs = <<>>
      /\ command = [s \in Slot |-> NoCommand]
  BY DEF Init, OpenChannelInit, CommandInit
<1>2. FlashAhead
  <2> DEFINE F == [i \in 0 .. 0 |-> flash]
  <2>1. Len(flashJobs) = 0 /\ flashJobs \in Seq([slot : Slot, op : FlashOps, list : Seq(Paged)])
    BY <1>1
  <2>2. flash \in [Chunk -> Seq(Page)]
    BY <1>1
  <2>3. F \in [0 .. 0 -> [Chunk -> Seq(Page)]] /\ F[0] = flash /\ \A i \in 0 .. 0 : F[i] = flash
    <3>1. \A i \in 0 .. 0 : F[i] = flash /\ i = 0
      OBVIOUS
    <3>2. 0 \in 0 .. 0
      OBVIOUS
    <3> QED
      BY <2>2, <3>1, <3>2, Zenon
  <2>4. \A i \in 1 .. 0 : FALSE
    OBVIOUS
  <2>5. InOrder(<<>>) /\ Told(<<>>) = [state |-> "FREE", writePointer |-> 0]
    BY DEF InOrder, Told
  <2>6. \A c \in Chunk : flash[c] = <<>>
    BY <1>1
  <2> HIDE DEF F
  <2>7. \A i \in 0 .. 0 : \A c \in Chunk : InOrder(F[i][c])
    BY <2>3, <2>5, <2>6, Zenon
  <2>8. descriptor = [c \in Chunk |-> Told(F[0][c])]
    BY <1>1, <2>3, <2>5, <2>6, Zenon
  <2>9. Foretells(F)
    BY <2>1, <2>3, <2>4, <2>7, <2>8, Zenon DEF Foretells
  <2> QED
    BY <2>1, <2>9, Zenon DEF FlashAhead
<1>3. IsCommand(NoCommand) /\ NoCommand.op = "none" /\ NoCommand.stages = <<>>
  BY Made DEF NoCommand
<1>4. WellStaged(NoCommand)
  BY <1>3, NoFlashOnce, ShortStages, Zenon DEF WellStaged
<1>5. ~Several(NoCommand)
  BY <1>3 DEF Several, Resets
<1>6. \A s \in Slot : command[s] = NoCommand
  BY <1>1
<1>7. command = [s \in Slot |-> command[s]]
  BY <1>1
<1>8. Commands20
  BY <1>4, <1>5, <1>6, <1>7, Zenon DEF Commands20, ResetsApart
<1> QED
  BY <1>2, <1>8 DEF ChunkInv

LEMMA ChunkInvariantHolds ==
  ASSUME ListsInMask
  PROVE  Spec => []ChunkInv
<1>1. Init => ChunkInv
  BY InitChunkInv
<1>2. ChunkInv /\ [Next]_deviceVars => ChunkInv'
  BY ChunkStepInv
<1> QED
  BY <1>1, <1>2, PTL DEF Spec

-----------------------------------------------------------------------------
(* The theorems. *)

\* Whatever reads, writes and resets the host has under way on a chunk, and in
\* whatever order their transfers end, doWrite programs its pages in ascending
\* order, each at most once between two erases.  No write is for more pages than
\* the mask of refusals in writeInternal() has bits: of a longer one, the pages
\* behind the mask are programmed even where they were refused.
THEOREM FlashAlwaysInOrder ==
  ASSUME ListsInMask
  PROVE  Spec => []FlashInOrder
<1>1. ChunkInv => FlashInOrder
  <2> SUFFICES ASSUME ChunkInv PROVE FlashInOrder
    OBVIOUS
  <2>1. Len(flashJobs) \in Nat
    BY LenProperties DEF ChunkInv, FlashAhead
  <2>2. 0 \in 0 .. Len(flashJobs)
    BY <2>1
  <2>3. \A c \in Chunk : InOrder(flash[c])
    BY <2>2, Zenon DEF ChunkInv, FlashAhead, Foretells
  <2> QED
    BY <2>3, Zenon DEF FlashInOrder, InOrder
<1>2. Spec => []ChunkInv
  BY ChunkInvariantHolds
<1> QED
  BY <1>1, <1>2, PTL

LEMMA ToldSound ==
  ASSUME NEW pages \in Seq(Page)
  PROVE  /\ Told(pages).state = "FREE" <=> Told(pages).writePointer = 0
         /\ Told(pages).state = "CLOSED" <=> Told(pages).writePointer = ChunkSize
         /\ Told(pages).writePointer =
              IF pages = <<>> THEN 0 ELSE (Last(pages) + 1) * WriteSize
<1>1. CASE pages = <<>>
  <2>1. Told(pages) = [state |-> "FREE", writePointer |-> 0]
    BY <1>1, Zenon DEF Told
  <2>2. ChunkSize # 0
    BY SizePositive
  <2> QED
    BY <1>1, <2>1, <2>2
<1>2. CASE pages # <<>>
  <2> DEFINE p == Last(pages)
             w == (p + 1) * WriteSize
  <2>1. p \in Page /\ Told(pages) = Written(p)
    <3>1. Len(pages) \in 1 .. Len(pages)
      BY <1>2, EmptySeq
    <3>2. pages[Len(pages)] \in Page
      BY <3>1, ElementOfSeq
    <3> QED
      BY <1>2, <3>2, Zenon DEF Told, Last
  <2> HIDE DEF p
  <2>2. p \in Nat /\ p + 1 \in Nat /\ p + 1 <= Pages /\ Pages \in Nat
    BY <2>1, OpenChannelAssumption DEF Page
  <2>3. /\ w \in Nat /\ ChunkSize \in Nat
        /\ w <= 0 * WriteSize <=> p + 1 <= 0
        /\ ChunkSize <= w <=> Pages <= p + 1
        /\ w <= ChunkSize
    BY <2>2, OpenChannelAssumption, TimesOrder DEF ChunkSize
  <2>4. w # 0
    BY <2>2, <2>3, OpenChannelAssumption
  <2>5. w = ChunkSize <=> p = Pages - 1
    <3> HIDE DEF w
    <3> QED
      BY <2>2, <2>3
  <2>6. /\ Told(pages).writePointer = w
        /\ Told(pages).state = IF p = Pages - 1 THEN "CLOSED" ELSE "OPEN"
    BY <2>1 DEF Written
  <2> HIDE DEF w
  <2>7. Told(pages).state # "FREE" /\ (Told(pages).state = "CLOSED" <=> p = Pages - 1)
    BY <2>6
  <2> QED
    BY <1>2, <2>4, <2>5, <2>6, <2>7, Zenon DEF w, p
<1> QED
  BY <1>1, <1>2

\* What chunkLog and the descriptors tell the host of a chunk is what the state
\* means, and when no job waits it is what the flash holds: again for writes that
\* the mask of refusals reaches to the end.
THEOREM ChunksAlwaysSound ==
  ASSUME ListsInMask
  PROVE  Spec => []ChunksSound
<1>1. ChunkInv => ChunksSound
  <2> SUFFICES ASSUME ChunkInv, NEW c \in Chunk
               PROVE  LET d == descriptor[c] IN
                      /\ d.state = "FREE" <=> d.writePointer = 0
                      /\ d.state = "CLOSED" <=> d.writePointer = ChunkSize
                      /\ flashJobs = <<>> =>
                           d.writePointer = IF flash[c] = <<>> THEN 0
                                            ELSE (Last(flash[c]) + 1) * WriteSize
    BY Zenon DEF ChunksSound
  <2>1. PICK F : Foretells(F)
    BY Zenon DEF ChunkInv, FlashAhead
  <2> DEFINE n == Len(flashJobs)
  <2>2. n \in Nat
    BY LenProperties DEF ChunkInv, FlashAhead
  <2>3. n \in 0 .. n
    BY <2>2
  <2>4. F \in [0 .. n -> [Chunk -> Seq(Page)]] /\ F[0] = flash
        /\ descriptor = [x \in Chunk |-> Told(F[n][x])]
    BY <2>1, Zenon DEF Foretells
  <2>5. F[n][c] \in Seq(Page) /\ descriptor[c] = Told(F[n][c])
    <3>1. F[n] \in [Chunk -> Seq(Page)]
      BY <2>3, <2>4
    <3> QED
      BY <2>4, <3>1
  <2>6. flashJobs = <<>> => F[n][c] = flash[c]
    <3>1. Len(<<>>) = 0
      OBVIOUS
    <3> QED
      BY <2>4, <3>1, Zenon
  <2> HIDE DEF n
  <2> QED
    BY <2>5, <2>6, ToldSound, Zenon
<1>2. Spec => []ChunkInv
  BY ChunkInvariantHolds
<1> QED
  BY <1>1, <1>2, PTL

-----------------------------------------------------------------------------
(* Regions that lie one behind the other, and the units that transfers move. *)

RegionType == [addr : Nat, size : Nat, ignore : BOOLEAN]

\* Where the first n regions of a list end.
EndOf(list, n) == IF n = 0 THEN 0 ELSE list[n].addr + list[n].size

\* The regions of a list, each behind the one before it.
Regular(list) ==
  /\ list \in Seq(RegionType)
  /\ \A n \in 1 .. Len(list) : list[n].addr = EndOf(list, n - 1)

Lies(i, r) == r.addr <= i /\ i < r.addr + r.size

\* The units below m that none of the first n regions drops, each at its place.
Dropped(list, n, i) == \E j \in 1 .. n : list[j].ignore /\ Lies(i, list[j])
KeptUnits(list, n, m) == {i \in 0 .. m - 1 : ~Dropped(list, n, i)}
InPlace(U) == {<<i, i>> : i \in U}

UnitsOfAll(T) == UNION {UnitsOf(t) : t \in T}

LEMMA RegularRegion ==
  ASSUME NEW list, Regular(list), NEW n \in 1 .. Len(list)
  PROVE  /\ list[n] \in RegionType /\ list[n].addr \in Nat /\ list[n].size \in Nat
         /\ Len(list) \in Nat /\ n - 1 \in 0 .. Len(list)
         /\ list[n].addr = EndOf(list, n - 1) /\ EndOf(list, n) = EndOf(list, n - 1) + list[n].size
         /\ EndOf(list, n - 1) \in Nat /\ EndOf(list, n) \in Nat
<1>1. list \in Seq(RegionType) /\ Len(list) \in Nat
  BY LenProperties DEF Regular
<1>2. list[n] \in RegionType
  BY <1>1, ElementOfSeq
<1>3. list[n].addr \in Nat /\ list[n].size \in Nat
  BY <1>2 DEF RegionType
<1>4. list[n].addr = EndOf(list, n - 1)
  BY DEF Regular
<1>5. EndOf(list, n) = list[n].addr + list[n].size
  BY DEF EndOf
<1> QED
  BY <1>1, <1>2, <1>3, <1>4, <1>5

\* Each region ends where a later one begins, or before.
LEMMA EndsGrow ==
  ASSUME NEW list, Regular(list), NEW n \in 1 .. Len(list), NEW j \in 1 .. n
  PROVE  EndOf(list, j) <= EndOf(list, n)
<1> DEFINE M == {m \in Nat : j + m <= Len(list) => EndOf(list, j) <= EndOf(list, j + m)}
<1>1. Len(list) \in Nat
  BY LenProperties DEF Regular
<1>2. 0 \in M
  <2>1. j \in 1 .. Len(list)
    BY <1>1
  <2>2. EndOf(list, j) \in Nat
    BY <2>1, RegularRegion
  <2> QED
    BY <2>2
<1>3. ASSUME NEW m \in Nat, m \in M PROVE m + 1 \in M
  <2> SUFFICES ASSUME j + (m + 1) <= Len(list) PROVE EndOf(list, j) <= EndOf(list, j + (m + 1))
    OBVIOUS
  <2> DEFINE k == j + (m + 1)
  <2>1. k \in 1 .. Len(list) /\ k - 1 = j + m /\ j + m <= Len(list)
    BY <1>1
  <2>2. EndOf(list, k) = EndOf(list, k - 1) + list[k].size /\ list[k].size \in Nat
        /\ EndOf(list, k - 1) \in Nat
    BY <2>1, RegularRegion
  <2>3. EndOf(list, j) <= EndOf(list, k - 1)
    BY <1>3, <2>1
  <2>4. EndOf(list, j) \in Nat
    BY <1>1, RegularRegion
  <2> HIDE DEF k
  <2>5. EndOf(list, j) <= EndOf(list, k)
    BY <2>2, <2>3, <2>4
  <2> QED
    BY <2>5 DEF k
<1>4. n - j \in M
  <2>1. Nat \subseteq M
    <3> HIDE DEF M
    <3> QED
      BY <1>2, <1>3, NatInductionSet
  <2>2. n - j \in Nat
    OBVIOUS
  <2> HIDE DEF M
  <2> QED
    BY <2>1, <2>2
<1>5. j + (n - j) = n /\ n <= Len(list)
  BY <1>1
<1> QED
  BY <1>4, <1>5

\* The next region gives so many units, behind those that came before it.
Gives(list, n, total, size) ==
  /\ Regular(list) /\ n \in 1 .. Len(list) /\ total \in Nat /\ size \in Nat
  /\ total <= EndOf(list, n - 1) /\ size <= list[n].size
  /\ size = 0 \/ total = EndOf(list, n - 1)

\* What a transfer for the next region adds, or a bit bucket drops.
Added(r, total, size) == IF r.ignore THEN {} ELSE total .. total + size - 1
Adds(list, n, total, size) ==
  KeptUnits(list, n, total + size)
    = KeptUnits(list, n - 1, total) \cup Added(list[n], total, size)

LEMMA KeptMore ==
  ASSUME NEW list, NEW n, NEW total, NEW size, Gives(list, n, total, size)
  PROVE  Adds(list, n, total, size)
<1> DEFINE r == list[n]
           e == EndOf(list, n - 1)
<1> USE DEF Gives
<1>1. /\ r.addr = e /\ e \in Nat /\ r.size \in Nat /\ Len(list) \in Nat
  BY RegularRegion
<1>2. ASSUME NEW j \in 1 .. n - 1
      PROVE  list[j].addr \in Nat /\ list[j].size \in Nat /\ list[j].addr + list[j].size <= e
  <2>1. n - 1 \in 1 .. Len(list) /\ j \in 1 .. Len(list)
    BY <1>1
  <2>2. EndOf(list, j) <= e
    BY <2>1, EndsGrow
  <2>3. EndOf(list, j) = list[j].addr + list[j].size /\ list[j].addr \in Nat /\ list[j].size \in Nat
    BY <2>1, RegularRegion
  <2> QED
    BY <2>2, <2>3
<1> HIDE DEF e
<1>3. ASSUME NEW i \in Nat
      PROVE  /\ Dropped(list, n, i) <=> Dropped(list, n - 1, i) \/ (r.ignore /\ Lies(i, r))
             /\ e <= i => ~Dropped(list, n - 1, i)
             /\ i < e => ~Lies(i, r)
             /\ e <= i /\ i < e + r.size => Lies(i, r)
  <2>1. \A j \in 1 .. n : j \in 1 .. n - 1 \/ j = n
    OBVIOUS
  <2>2. 1 .. n - 1 \subseteq 1 .. n /\ n \in 1 .. n
    OBVIOUS
  <2>3. Dropped(list, n, i) <=> Dropped(list, n - 1, i) \/ (r.ignore /\ Lies(i, r))
    BY <2>1, <2>2, Zenon DEF Dropped
  <2>4. ASSUME e <= i, NEW j \in 1 .. n - 1 PROVE ~Lies(i, list[j])
    BY <1>1, <1>2, <2>4 DEF Lies
  <2>5. e <= i => ~Dropped(list, n - 1, i)
    BY <2>4, Zenon DEF Dropped
  <2>6. /\ i < e => ~Lies(i, r)
        /\ e <= i /\ i < e + r.size => Lies(i, r)
    BY <1>1 DEF Lies
  <2> QED
    BY <2>3, <2>5, <2>6
<1> HIDE DEF r
<1>4. ASSUME NEW i \in 0 .. total - 1 PROVE i \in Nat /\ i < e /\ i \in 0 .. total + size - 1
  <2>1. total <= e
    BY DEF e
  <2> QED
    BY <1>1, <2>1
<1>5. ASSUME NEW i \in 0 .. total + size - 1, i \notin 0 .. total - 1
      PROVE  i \in Nat /\ e <= i /\ i < e + r.size /\ i \in total .. total + size - 1
  <2>1. size <= r.size /\ (size = 0 \/ total = e)
    BY DEF e, r
  <2> QED
    BY <1>1, <1>5, <2>1
<1>6. ASSUME NEW i \in total .. total + size - 1 PROVE i \in 0 .. total + size - 1 /\ i \notin 0 .. total - 1
  OBVIOUS
<1>7. /\ \A i : i \in KeptUnits(list, n, total + size) <=>
                i \in 0 .. total + size - 1 /\ ~Dropped(list, n, i)
      /\ \A i : i \in KeptUnits(list, n - 1, total) <=>
                i \in 0 .. total - 1 /\ ~Dropped(list, n - 1, i)
  BY DEF KeptUnits
<1>8. ASSUME NEW i
      PROVE  /\ r.ignore => (i \in KeptUnits(list, n, total + size)
                               <=> i \in KeptUnits(list, n - 1, total))
             /\ ~r.ignore => (i \in KeptUnits(list, n, total + size) <=>
                    i \in KeptUnits(list, n - 1, total) \/ i \in total .. total + size - 1)
  <2>1. CASE i \in 0 .. total - 1
    <3>1. i \in 0 .. total + size - 1 /\ i \notin total .. total + size - 1
      BY <1>4, <1>6, <2>1, Zenon
    <3>2. Dropped(list, n, i) <=> Dropped(list, n - 1, i)
      BY <1>3, <1>4, <2>1, Zenon
    <3> QED
      BY <1>7, <2>1, <3>1, <3>2, Zenon
  <2>2. CASE i \in 0 .. total + size - 1 /\ i \notin 0 .. total - 1
    <3>1. i \in total .. total + size - 1
      BY <1>5, <2>2, Zenon
    <3>2. Dropped(list, n, i) <=> r.ignore
      BY <1>3, <1>5, <2>2, Zenon
    <3> QED
      BY <1>7, <2>2, <3>1, <3>2, Zenon
  <2>3. CASE i \notin 0 .. total + size - 1 /\ i \notin 0 .. total - 1
    BY <1>6, <1>7, <2>3, Zenon
  <2> QED
    BY <2>1, <2>2, <2>3
<1>9. r.ignore => KeptUnits(list, n, total + size) = KeptUnits(list, n - 1, total)
  BY <1>8
<1>10. ~r.ignore => KeptUnits(list, n, total + size)
                      = KeptUnits(list, n - 1, total) \cup (total .. total + size - 1)
  BY <1>8
<1> QED
  BY <1>9, <1>10 DEF r, Added, Adds

\* The units of a transfer to where they come from.
LEMMA TransferUnits ==
  ASSUME NEW addr \in Int, NEW at \in Nat, NEW size \in Nat, size = 0 \/ addr = at
  PROVE  UnitsOf(Transfer(addr, at, size)) = InPlace(at .. at + size - 1)
<1> DEFINE t == Transfer(addr, at, size)
<1>1. t.addr = addr /\ t.at = at /\ t.size = size
  BY DEF Transfer
<1> HIDE DEF t
<1>2. UnitsOf(t) = {<<addr + i, at + i>> : i \in 0 .. size - 1}
  BY <1>1, Zenon DEF UnitsOf
<1>3. ASSUME NEW x \in UnitsOf(t) PROVE x \in InPlace(at .. at + size - 1)
  <2>1. PICK i \in 0 .. size - 1 : x = <<addr + i, at + i>>
    BY <1>2, <1>3
  <2>2. addr + i = at + i /\ at + i \in at .. at + size - 1
    BY <2>1
  <2>3. x = <<at + i, at + i>>
    BY <2>1, <2>2
  <2> QED
    BY <2>2, <2>3, Zenon DEF InPlace
<1>4. ASSUME NEW x \in InPlace(at .. at + size - 1) PROVE x \in UnitsOf(t)
  <2>1. PICK k \in at .. at + size - 1 : x = <<k, k>>
    BY <1>4, Zenon DEF InPlace
  <2>2. k - at \in 0 .. size - 1 /\ addr + (k - at) = k /\ at + (k - at) = k
    BY <2>1
  <2>3. x = <<addr + (k - at), at + (k - at)>>
    BY <2>1, <2>2
  <2> QED
    BY <1>2, <2>2, <2>3, Zenon
<1> QED
  BY <1>3, <1>4, Zenon DEF t

-----------------------------------------------------------------------------
(* The transfers of read() and write(). *)

TransferType == [kind : {"data"}, addr : Int, at : Nat, size : Nat]

\* How far the transfers have come.
Progress(length) ==
  {s \in [begun : BOOLEAN, ended : BOOLEAN, total : Nat, current : Nat, out : Seq(TransferType)] :
     s.total <= length /\ (s.ended => s.begun)}

\* What Transfers() does for one region.
TransferStep(s, r, offset, length) ==
  CASE s.ended -> s
    [] s.begun /\ ~s.ended ->
         LET size == Least(r.size, length - s.total) IN
         [s EXCEPT !.total = @ + size, !.ended = s.total + size = length,
                   !.out = IF r.ignore THEN @
                           ELSE Append(@, Transfer(r.addr, s.total, size))]
    [] ~s.begun /\ s.current + r.size > offset ->
         LET skipped == offset - s.current
             size == Least(r.size - skipped, length)
         IN [s EXCEPT !.begun = TRUE, !.total = size, !.current = @ + r.size,
                      !.out = IF r.ignore THEN @
                              ELSE Append(@, Transfer(r.addr + skipped, 0, size))]
    [] OTHER -> [s EXCEPT !.current = @ + r.size]
NoTransfer == [begun |-> FALSE, ended |-> FALSE, total |-> 0, current |-> 0, out |-> <<>>]

\* With a transfer at the end, or without.
Joined(out, r, addr, at, size) ==
  IF r.ignore THEN out ELSE Append(out, Transfer(addr, at, size))

TakenBy(r, addr, at, size) ==
  IF r.ignore THEN {} ELSE UnitsOf(Transfer(addr, at, size))

LEMMA LeastOf ==
  ASSUME NEW a \in Nat, NEW b \in Nat
  PROVE  /\ Least(a, b) \in Nat /\ Least(a, b) <= a /\ Least(a, b) <= b
         /\ Least(a, b) = a \/ Least(a, b) = b
BY DEF Least

LEMMA JoinedOut ==
  ASSUME NEW out \in Seq(TransferType), NEW r, NEW addr \in Int, NEW at \in Nat, NEW size \in Nat
  PROVE  /\ Joined(out, r, addr, at, size) \in Seq(TransferType)
         /\ UnitsOfAll(ToSet(Joined(out, r, addr, at, size)))
              = UnitsOfAll(ToSet(out))
                  \cup TakenBy(r, addr, at, size)
<1> DEFINE t == Transfer(addr, at, size)
<1>1. t \in TransferType
  BY DEF TransferType, Transfer
<1> HIDE DEF t
<1>2. Append(out, t) \in Seq(TransferType) /\ ToSet(Append(out, t)) = ToSet(out) \cup {t}
  BY <1>1, AppendSet
<1>3. UnitsOfAll(ToSet(out) \cup {t}) = UnitsOfAll(ToSet(out)) \cup UnitsOf(t)
  BY DEF UnitsOfAll
<1>4. CASE r.ignore
  BY <1>4 DEF Joined, TakenBy
<1>5. CASE ~r.ignore
  <2>1. Joined(out, r, addr, at, size) = Append(out, t)
    BY <1>5, Zenon DEF Joined, t
  <2> QED
    BY <1>2, <1>3, <1>5, <2>1, Zenon DEF t, TakenBy
<1> QED
  BY <1>4, <1>5

\* A step, field by field.
LEMMA StepFields ==
  ASSUME NEW length \in Nat, NEW s \in Progress(length), NEW r \in RegionType
  PROVE  LET t == TransferStep(s, r, 0, length) IN
         /\ t \in Progress(length)
         /\ s.ended => t = s
         /\ s.begun /\ ~s.ended =>
              LET size == Least(r.size, length - s.total) IN
              /\ size \in Nat /\ t.begun /\ t.total = s.total + size
              /\ t.ended => t.total = length
              /\ t.out = Joined(s.out, r, r.addr, s.total, size)
         /\ ~s.begun /\ s.current + r.size > 0 =>
              LET size == Least(r.size + s.current, length) IN
              /\ size \in Nat /\ t.begun /\ ~t.ended /\ t.total = size
              /\ t.out = Joined(s.out, r, r.addr - s.current, 0, size)
         /\ ~s.begun /\ ~(s.current + r.size > 0) =>
              /\ ~t.begun /\ ~t.ended /\ t.total = s.total
              /\ t.current = s.current + r.size /\ t.out = s.out
<1> DEFINE t == TransferStep(s, r, 0, length)
<1>1. /\ s = [begun |-> s.begun, ended |-> s.ended, total |-> s.total,
              current |-> s.current, out |-> s.out]
      /\ s.begun \in BOOLEAN /\ s.ended \in BOOLEAN /\ s.total \in Nat /\ s.current \in Nat
      /\ s.out \in Seq(TransferType) /\ s.total <= length
      /\ s.ended => s.begun
  BY DEF Progress
<1>2. r.addr \in Nat /\ r.size \in Nat
  BY DEF RegionType
<1>3. CASE s.ended
  <2>1. s.begun /\ ~(~s.begun) /\ ~(~s.ended)
    BY <1>1, <1>3
  <2>2. t = s
    BY <1>3, <2>1, Zenon DEF TransferStep
  <2> QED
    BY <1>1, <1>3, <2>2, Zenon
<1>4. CASE s.begun /\ ~s.ended
  <2> DEFINE size == Least(r.size, length - s.total)
             out == Joined(s.out, r, r.addr, s.total, size)
  <2>1. size \in Nat /\ size <= length - s.total
    <3>1. length - s.total \in Nat
      BY <1>1
    <3> QED
      BY <1>2, <3>1, LeastOf
  <2>2. t = [s EXCEPT !.total = s.total + size, !.ended = s.total + size = length, !.out = out]
    BY <1>4, Zenon DEF TransferStep, Joined
  <2>3. out \in Seq(TransferType)
    <3> HIDE DEF size
    <3>1. r.addr \in Int /\ size \in Nat /\ s.total \in Nat /\ s.out \in Seq(TransferType)
      BY <1>1, <1>2, <2>1
    <3> QED
      BY ONLY <3>1, JoinedOut
  <2> HIDE DEF size, out
  <2> DEFINE b == s.total + size = length
             m == s.total + size
  <2>4. m \in Nat /\ m <= length /\ b \in BOOLEAN /\ (b => m = length)
    BY <1>1, <2>1
  <2>5. t = [begun |-> s.begun, ended |-> b, total |-> m, current |-> s.current, out |-> out]
    <3> HIDE DEF b, m
    <3>1. t = [s EXCEPT !.total = m, !.ended = b, !.out = out]
      BY <2>2, Zenon DEF b, m
    <3> HIDE DEF t
    <3> QED
      BY <1>1, <3>1
  <2> HIDE DEF b, m, t
  <2>6. /\ t.begun = s.begun /\ t.ended = b /\ t.total = m /\ t.current = s.current /\ t.out = out
        /\ t \in [begun : BOOLEAN, ended : BOOLEAN, total : Nat, current : Nat,
                  out : Seq(TransferType)]
    BY <1>1, <2>3, <2>4, <2>5
  <2>7. t \in Progress(length)
    BY <1>4, <2>4, <2>6 DEF Progress
  <2> QED
    BY <1>4, <2>1, <2>4, <2>6, <2>7, Zenon DEF t, m, out, size
<1>5. CASE ~s.begun /\ s.current + r.size > 0
  <2> DEFINE size == Least(r.size + s.current, length)
             out == Joined(s.out, r, r.addr - s.current, 0, size)
  <2>1. size \in Nat /\ size <= length
    <3>1. r.size + s.current \in Nat
      BY <1>1, <1>2
    <3> QED
      BY <3>1, LeastOf
  <2>2. t = [s EXCEPT !.begun = TRUE, !.total = size, !.current = s.current + r.size, !.out = out]
    <3>1. r.size - (0 - s.current) = r.size + s.current /\ r.addr + (0 - s.current) = r.addr - s.current
      BY <1>1, <1>2
    <3>2. ~s.ended
      BY <1>1, <1>5
    <3> QED
      BY <1>5, <3>1, <3>2, Zenon DEF TransferStep, Joined
  <2>3. out \in Seq(TransferType)
    <3> HIDE DEF size
    <3>1. r.addr - s.current \in Int
      BY <1>1, <1>2
    <3> QED
      BY <1>1, <2>1, <3>1, JoinedOut
  <2> HIDE DEF size, out
  <2>4. t = [begun |-> TRUE, ended |-> s.ended, total |-> size, current |-> s.current + r.size,
             out |-> out]
    <3> HIDE DEF t
    <3> QED
      BY <1>1, <2>2
  <2> HIDE DEF t
  <2>5. /\ t.begun /\ t.ended = s.ended /\ t.total = size /\ t.out = out
        /\ t \in [begun : BOOLEAN, ended : BOOLEAN, total : Nat, current : Nat,
                  out : Seq(TransferType)]
    BY <1>1, <1>2, <2>1, <2>3, <2>4
  <2>6. ~t.ended
    BY <1>1, <1>5, <2>5
  <2>7. t \in Progress(length)
    BY <2>1, <2>5 DEF Progress
  <2> QED
    BY <1>1, <1>5, <2>1, <2>5, <2>6, <2>7, Zenon DEF t, out, size
<1>6. CASE ~s.begun /\ ~(s.current + r.size > 0)
  <2>1. ~s.ended
    BY <1>1, <1>6
  <2>2. t = [s EXCEPT !.current = s.current + r.size]
    BY <1>6, <2>1, Zenon DEF TransferStep
  <2>3. t = [begun |-> s.begun, ended |-> s.ended, total |-> s.total,
             current |-> s.current + r.size, out |-> s.out]
    <3> HIDE DEF t
    <3> QED
      BY <1>1, <2>2
  <2> HIDE DEF t
  <2>4. /\ t.begun = s.begun /\ t.ended = s.ended /\ t.total = s.total /\ t.out = s.out
        /\ t.current = s.current + r.size
        /\ t \in [begun : BOOLEAN, ended : BOOLEAN, total : Nat, current : Nat,
                  out : Seq(TransferType)]
    BY <1>1, <1>2, <2>3
  <2>5. t \in Progress(length)
    BY <1>1, <2>4 DEF Progress
  <2> QED
    BY <1>1, <1>6, <2>1, <2>4, <2>5, Zenon DEF t
<1> QED
  BY <1>1, <1>3, <1>4, <1>5, <1>6, Zenon

\* The transfers of a list, region by region.
LEMMA TransferRuns ==
  ASSUME NEW list \in Seq(RegionType), NEW length \in Nat
  PROVE  \E f \in [0 .. Len(list) -> Progress(length)] :
           /\ f[0] = NoTransfer
           /\ \A n \in 1 .. Len(list) : f[n] = TransferStep(f[n - 1], list[n], 0, length)
           /\ Transfers(list, 0, length) = f[Len(list)].out
<1> DEFINE N == Len(list)
           D == 1 .. N
           S == Progress(length)
           Turn(t, k) == TransferStep(t, list[k], 0, length)
           step == [x \in S \X D |-> Turn(x[1], x[2])]
           P(g) == g = [r \in SUBSET D |->
                          IF r = {} THEN NoTransfer ELSE Turn(g[r \ {Max(r)}], Max(r))]
<1>1. N \in Nat /\ DOMAIN list = D
  BY LenProperties
<1>2. NoTransfer \in S
  BY DEF NoTransfer, Progress
<1>3. \A t \in S, k \in D : Turn(t, k) \in S
  <2> TAKE t \in S, k \in D
  <2>1. list[k] \in RegionType
    BY ElementOfSeq
  <2> HIDE DEF S
  <2> QED
    BY <2>1, StepFields, Zenon DEF S
<1>5. Transfers(list, 0, length) = ((CHOOSE g : P(g))[D]).out
  BY <1>1, Zenon DEF Transfers, FoldLeft, MapThenFoldSet, TransferStep, NoTransfer
<1> HIDE DEF Turn, S
<1>4. step \in [S \X D -> S]
  BY <1>3
<1>6. PICK h : Folded(h, S, N, step, NoTransfer)
  <2> HIDE DEF step
  <2> QED
    BY <1>1, <1>2, <1>4, FoldExists
<1>7. \A t \in S, k \in D : step[<<t, k>>] = Turn(t, k)
  OBVIOUS
<1> HIDE DEF step
<1>8. ASSUME NEW r \in SUBSET D
      PROVE  /\ r # {} => Max(r) \in D
             /\ h[r] = IF r = {} THEN NoTransfer ELSE Turn(h[r \ {Max(r)}], Max(r))
  <2>1. /\ h[r] = IF r = {} THEN NoTransfer ELSE step[<<h[r \ {Max(r)}], Max(r)>>]
        /\ r # {} => Max(r) \in D /\ h[r \ {Max(r)}] \in S
    BY <1>1, <1>6, FoldedAt
  <2> QED
    BY <1>7, <2>1
<1>9. P(h)
  <2>1. h \in [SUBSET D -> S]
    BY <1>6, Zenon DEF Folded
  <2> QED
    BY <1>8, <2>1
<1>10. PICK g : P(g) /\ Transfers(list, 0, length) = g[D].out
  <2> HIDE DEF P
  <2> QED
    BY <1>5, <1>9, Zenon
<1> DEFINE next == [r \in SUBSET D |-> Turn(g[r \ {Max(r)}], Max(r))]
<1>11. \A r \in SUBSET D : g[r] = IF r = {} THEN NoTransfer ELSE next[r]
  BY <1>10
<1>12. FoldedBy(g, S, N, step, NoTransfer, next)
  BY <1>1, <1>2, <1>4, <1>7, <1>8, <1>11 DEF FoldedBy
<1> HIDE DEF next, P
<1>13. PICK f : Iterated(f, S, N, step, NoTransfer) /\ f[N] = g[D]
  BY <1>12, FoldRuns
<1>14. /\ f \in [0 .. N -> S] /\ f[0] = NoTransfer
       /\ \A n \in D : f[n] = step[<<f[n - 1], n>>]
  BY <1>13, Zenon DEF Iterated
<1>15. ASSUME NEW n \in D PROVE f[n] = TransferStep(f[n - 1], list[n], 0, length)
  <2>1. n - 1 \in 0 .. N
    BY <1>1
  <2>2. f[n] = Turn(f[n - 1], n)
    BY <1>7, <1>14, <2>1
  <2> QED
    BY <2>2 DEF Turn
<1> QED
  BY <1>10, <1>13, <1>14, <1>15, Zenon DEF S

\* What the transfers for the first n regions have moved.
MovedSoFar(list, n, length, s) ==
  /\ s.total = Least(EndOf(list, n), length)
  /\ ~s.begun => EndOf(list, n) = 0 /\ s.current = 0
  /\ s.ended => s.total = length
  /\ UnitsOfAll(ToSet(s.out)) = InPlace(KeptUnits(list, n, s.total))

\* The transfer for the next region joins those before it.
LEMMA TransferJoins ==
  ASSUME NEW list, NEW n, NEW total, NEW size, Gives(list, n, total, size),
         NEW addr \in Int, size = 0 \/ addr = total,
         NEW out \in Seq(TransferType),
         UnitsOfAll(ToSet(out)) = InPlace(KeptUnits(list, n - 1, total))
  PROVE  UnitsOfAll(ToSet(Joined(out, list[n], addr, total, size)))
           = InPlace(KeptUnits(list, n, total + size))
<1> DEFINE u == total .. total + size - 1
           before == KeptUnits(list, n - 1, total)
           after == KeptUnits(list, n, total + size)
<1>1. PICK r : r = list[n]
  OBVIOUS
<1>2. after = before \cup IF r.ignore THEN {} ELSE u
  <2>1. Adds(list, n, total, size)
    BY KeptMore, Zenon
  <2> QED
    BY <1>1, <2>1 DEF Adds, Added
<1>3. UnitsOf(Transfer(addr, total, size)) = InPlace(u)
  BY TransferUnits DEF Gives
<1>4. UnitsOfAll(ToSet(Joined(out, r, addr, total, size)))
        = UnitsOfAll(ToSet(out)) \cup TakenBy(r, addr, total, size)
  BY JoinedOut DEF Gives
<1> HIDE DEF u, before, after
<1>5. InPlace(before \cup u) = InPlace(before) \cup InPlace(u)
  BY DEF InPlace
<1>6. UnitsOfAll(ToSet(out)) = InPlace(before)
  BY DEF before
<1>7. CASE r.ignore
  <2>1. after = before /\ UnitsOfAll(ToSet(Joined(out, r, addr, total, size))) = UnitsOfAll(ToSet(out))
    BY <1>2, <1>4, <1>7 DEF TakenBy
  <2> QED
    BY <1>1, <1>6, <2>1, Zenon DEF after
<1>8. CASE ~r.ignore
  <2>1. /\ after = before \cup u
        /\ UnitsOfAll(ToSet(Joined(out, r, addr, total, size)))
             = UnitsOfAll(ToSet(out)) \cup UnitsOf(Transfer(addr, total, size))
    BY <1>2, <1>4, <1>8 DEF TakenBy
  <2> QED
    BY <1>1, <1>3, <1>5, <1>6, <2>1, Zenon DEF after
<1> QED
  BY <1>7, <1>8

LEMMA MovesOn ==
  ASSUME NEW list, Regular(list), NEW length \in Nat, NEW n \in 1 .. Len(list),
         NEW s \in Progress(length), MovedSoFar(list, n - 1, length, s),
         NEW t, t = TransferStep(s, list[n], 0, length)
  PROVE  MovedSoFar(list, n, length, t)
<1> DEFINE r == list[n]
           e == EndOf(list, n - 1)
<1>1. /\ r \in RegionType /\ r.addr = e /\ e \in Nat /\ r.size \in Nat
      /\ EndOf(list, n) = e + r.size
  BY RegularRegion
<1>2. /\ s.total \in Nat /\ s.total <= length /\ s.out \in Seq(TransferType) /\ s.current \in Nat
      /\ s.begun \in BOOLEAN /\ s.ended \in BOOLEAN /\ (s.ended => s.begun)
  BY DEF Progress
<1>3. s.total = Least(e, length) /\ s.total <= e
  <2>1. s.total = Least(e, length)
    BY DEF MovedSoFar
  <2> QED
    BY <1>1, <2>1, LeastOf
<1>4. UnitsOfAll(ToSet(s.out)) = InPlace(KeptUnits(list, n - 1, s.total))
  BY DEF MovedSoFar
<1>5. ASSUME NEW size \in Nat, size <= r.size, size = 0 \/ s.total = e,
             NEW addr \in Int, size = 0 \/ addr = s.total
      PROVE  UnitsOfAll(ToSet(Joined(s.out, r, addr, s.total, size)))
               = InPlace(KeptUnits(list, n, s.total + size))
  <2>1. PICK total, out : total = s.total /\ out = s.out
    OBVIOUS
  <2>2. /\ out \in Seq(TransferType) /\ Gives(list, n, total, size)
        /\ size = 0 \/ addr = total
        /\ UnitsOfAll(ToSet(out)) = InPlace(KeptUnits(list, n - 1, total))
    BY <1>2, <1>3, <1>4, <1>5, <2>1 DEF Gives
  <2> HIDE DEF r, e
  <2>3. UnitsOfAll(ToSet(Joined(out, list[n], addr, total, size)))
          = InPlace(KeptUnits(list, n, total + size))
    BY <2>2, TransferJoins
  <2> QED
    BY <2>1, <2>3, Zenon DEF r
<1>6. r.addr \in Int /\ 0 \in Nat /\ s.total + 0 = s.total
  BY <1>1, <1>2
<1>7. KeptUnits(list, n, s.total) = KeptUnits(list, n - 1, s.total)
  <2>1. s.total \in Nat /\ s.total <= EndOf(list, n - 1) /\ 0 <= list[n].size
    BY <1>1, <1>2, <1>3
  <2>2. s.total .. s.total + 0 - 1 = {} /\ s.total + 0 = s.total
    BY <1>2
  <2>3. Adds(list, n, s.total, 0)
    <3> HIDE DEF r, e
    <3>1. 0 \in Nat
      OBVIOUS
    <3>2. Gives(list, n, s.total, 0)
      BY <2>1, <3>1 DEF Gives
    <3> QED
      BY <3>2, KeptMore, Zenon
  <2>4. Added(list[n], s.total, 0) = {}
    BY <2>2 DEF Added
  <2> QED
    BY <2>2, <2>3, <2>4 DEF Adds
<1> HIDE DEF r, e
<1>8. /\ t \in Progress(length)
      /\ s.ended => t = s
      /\ s.begun /\ ~s.ended =>
           LET size == Least(r.size, length - s.total) IN
           /\ size \in Nat /\ t.begun /\ t.total = s.total + size
           /\ t.ended => t.total = length
           /\ t.out = Joined(s.out, r, r.addr, s.total, size)
      /\ ~s.begun /\ s.current + r.size > 0 =>
           LET size == Least(r.size + s.current, length) IN
           /\ size \in Nat /\ t.begun /\ ~t.ended /\ t.total = size
           /\ t.out = Joined(s.out, r, r.addr - s.current, 0, size)
      /\ ~s.begun /\ ~(s.current + r.size > 0) =>
           /\ ~t.begun /\ ~t.ended /\ t.total = s.total
           /\ t.current = s.current + r.size /\ t.out = s.out
  <2>1. t = TransferStep(s, r, 0, length)
    BY DEF r
  <2> QED
    BY <1>1, <2>1, StepFields
<1>9. CASE s.ended
  <2>1. t = s /\ s.total = length
    BY <1>8, <1>9 DEF MovedSoFar
  <2>2. t.total = Least(EndOf(list, n), length)
    <3>1. length <= e
      BY <1>3, <2>1
    <3> QED
      BY <1>1, <2>1, <3>1 DEF Least
  <2>3. UnitsOfAll(ToSet(t.out)) = InPlace(KeptUnits(list, n, t.total))
    BY <1>4, <1>7, <2>1, Zenon
  <2> QED
    BY <1>2, <1>9, <2>1, <2>2, <2>3 DEF MovedSoFar
<1>10. CASE s.begun /\ ~s.ended
  <2> DEFINE size == Least(r.size, length - s.total)
  <2>1. /\ size \in Nat /\ t.begun /\ t.total = s.total + size
        /\ t.ended => t.total = length
        /\ t.out = Joined(s.out, r, r.addr, s.total, size)
    BY <1>8, <1>10
  <2>2. /\ size <= r.size /\ (size = 0 \/ s.total = e)
        /\ s.total + size = Least(e + r.size, length)
    BY <1>1, <1>2, <1>3 DEF Least
  <2> HIDE DEF size
  <2>3. size = 0 \/ r.addr = s.total
    BY <1>1, <2>2
  <2>4. UnitsOfAll(ToSet(t.out)) = InPlace(KeptUnits(list, n, t.total))
    BY <1>5, <1>6, <2>1, <2>2, <2>3, Zenon
  <2>5. t.total = Least(EndOf(list, n), length)
    BY <1>1, <2>1, <2>2
  <2> QED
    BY <2>1, <2>4, <2>5, Zenon DEF MovedSoFar
<1>11. CASE ~s.begun /\ s.current + r.size > 0
  <2> DEFINE size == Least(r.size + s.current, length)
  <2>1. /\ size \in Nat /\ t.begun /\ ~t.ended /\ t.total = size
        /\ t.out = Joined(s.out, r, r.addr - s.current, 0, size)
    BY <1>8, <1>11
  <2>2. e = 0 /\ s.current = 0
    BY <1>11 DEF MovedSoFar, e
  <2>3. s.total = 0 /\ r.addr - s.current = 0
    BY <1>1, <1>2, <1>3, <2>2
  <2>4. size <= r.size /\ s.total + size = size /\ size = Least(e + r.size, length)
    BY <1>1, <2>1, <2>2, <2>3 DEF Least
  <2> HIDE DEF size
  <2>5. t.out = Joined(s.out, r, 0, s.total, size)
    BY <2>1, <2>3, Zenon
  <2>6. UnitsOfAll(ToSet(t.out)) = InPlace(KeptUnits(list, n, t.total))
    <3>1. 0 \in Int /\ (size = 0 \/ s.total = e) /\ (size = 0 \/ 0 = s.total)
      BY <2>2, <2>3
    <3> QED
      BY <1>5, <2>1, <2>4, <2>5, <3>1, Zenon
  <2>7. t.total = Least(EndOf(list, n), length)
    BY <1>1, <2>1, <2>4
  <2> QED
    BY <2>1, <2>6, <2>7, Zenon DEF MovedSoFar
<1>12. CASE ~s.begun /\ ~(s.current + r.size > 0)
  <2>1. /\ ~t.begun /\ ~t.ended /\ t.total = s.total
        /\ t.current = s.current + r.size /\ t.out = s.out
    BY <1>8, <1>12
  <2>2. e = 0 /\ s.current = 0
    BY <1>12 DEF MovedSoFar, e
  <2>3. r.size = 0 /\ EndOf(list, n) = 0 /\ t.current = 0 /\ EndOf(list, n) = e
    BY <1>1, <1>2, <1>12, <2>1, <2>2
  <2>4. UnitsOfAll(ToSet(t.out)) = InPlace(KeptUnits(list, n, t.total))
    BY <1>4, <1>7, <2>1, Zenon
  <2> QED
    BY <1>3, <2>1, <2>3, <2>4, Zenon DEF MovedSoFar
<1> QED
  BY <1>2, <1>9, <1>10, <1>11, <1>12

\* The transfers for a list that is long enough move every unit to its place,
\* but those that the list drops.
LEMMA TransfersMove ==
  ASSUME NEW list, Regular(list), NEW length \in Nat, length <= EndOf(list, Len(list))
  PROVE  UnitsOfAll(ToSet(Transfers(list, 0, length)))
           = InPlace(KeptUnits(list, Len(list), length))
<1> DEFINE N == Len(list)
<1>1. list \in Seq(RegionType) /\ N \in Nat
  BY LenProperties DEF Regular
<1>2. PICK f \in [0 .. N -> Progress(length)] :
        /\ f[0] = NoTransfer
        /\ \A n \in 1 .. N : f[n] = TransferStep(f[n - 1], list[n], 0, length)
        /\ Transfers(list, 0, length) = f[N].out
  BY <1>1, TransferRuns
<1> DEFINE M == {n \in Nat : n <= N => MovedSoFar(list, n, length, f[n])}
<1>3. 0 \in M
  <2>1. EndOf(list, 0) = 0 /\ Least(0, length) = 0
    BY DEF EndOf, Least
  <2>2. /\ NoTransfer.total = 0 /\ NoTransfer.current = 0 /\ ~NoTransfer.ended
        /\ NoTransfer.out = <<>>
    BY DEF NoTransfer
  <2>3. UnitsOfAll(ToSet(<<>>)) = {} /\ InPlace(KeptUnits(list, 0, 0)) = {}
    <3>1. ToSet(<<>>) = {}
      BY DEF ToSet
    <3>2. 0 .. 0 - 1 = {}
      OBVIOUS
    <3>3. KeptUnits(list, 0, 0) = {}
      BY <3>2 DEF KeptUnits
    <3> QED
      BY <3>1, <3>3 DEF UnitsOfAll, InPlace
  <2>4. MovedSoFar(list, 0, length, NoTransfer)
    BY <2>1, <2>2, <2>3, Zenon DEF MovedSoFar
  <2> QED
    BY <1>2, <2>4
<1>4. ASSUME NEW n \in Nat, n \in M PROVE n + 1 \in M
  <2> SUFFICES ASSUME n + 1 <= N PROVE MovedSoFar(list, n + 1, length, f[n + 1])
    OBVIOUS
  <2>1. n + 1 \in 1 .. N /\ (n + 1) - 1 = n /\ n \in 0 .. N /\ n <= N
    BY <1>1
  <2>2. f[n] \in Progress(length)
    BY <2>1
  <2>3. f[n + 1] = TransferStep(f[n], list[n + 1], 0, length)
    BY <1>2, <2>1, Zenon
  <2>4. MovedSoFar(list, (n + 1) - 1, length, f[n])
    BY <1>4, <2>1
  <2> QED
    BY <2>1, <2>2, <2>3, <2>4, MovesOn, Zenon
<1>5. MovedSoFar(list, N, length, f[N])
  <2>1. Nat \subseteq M
    <3> HIDE DEF M
    <3> QED
      BY <1>3, <1>4, NatInductionSet
  <2> QED
    BY <1>1, <2>1
<1>6. f[N].total = length
  <2>1. f[N].total = Least(EndOf(list, N), length)
    BY <1>5, Zenon DEF MovedSoFar
  <2>2. Least(EndOf(list, N), length) = length
    <3>1. EndOf(list, N) \in Nat
      <4>1. CASE N = 0
        BY <4>1 DEF EndOf
      <4>2. CASE N # 0
        <5>1. N \in 1 .. Len(list)
          BY <1>1, <4>2
        <5> QED
          BY <5>1, RegularRegion
      <4> QED
        BY <4>1, <4>2
    <3> HIDE DEF N
    <3> QED
      BY <3>1 DEF Least, N
  <2> QED
    BY <2>1, <2>2
<1> QED
  BY <1>2, <1>5, <1>6, Zenon DEF MovedSoFar

-----------------------------------------------------------------------------
(* The regions that data pointers describe. *)

\* What is left of the data for list number k.
Left(p, k) == p.size - getPRPSize(p.offset) - k * ListLength * PageSize

\* The pages in list number k.
ListPages(p, k, n) == [i \in 1 .. n |-> HostPage(p, PagesBefore(k) + i - 1)]

\* A table of what is found in the lists from number k on.
Walks(f, p) ==
  f = [k \in Nat |-> IF ListLength * PageSize < Left(p, k)
                     THEN ListPages(p, k, ListLength - 1) \o f[k + 1]
                     ELSE ListPages(p, k, PagesTaken(Left(p, k)))]

\* What fits in one list is found there.
LEMMA OneList ==
  ASSUME NEW p, NEW rest \in Int, rest = p.size - getPRPSize(p.offset),
         rest <= ListLength * PageSize
  PROVE  getPRPListFromPRP(p) = ListPages(p, 0, PagesTaken(rest))
<1> DEFINE g == [k \in Nat |-> ListPages(p, k, PagesTaken(Left(p, k)))]
           w == CHOOSE f : Walks(f, p)
           m == ListLength * PageSize
<1>1. m \in Nat /\ 0 * m = 0
  BY DataPointerAssumption
<1>2. ASSUME NEW k \in Nat PROVE k * m \in Nat /\ k * ListLength * PageSize = k * m
  BY DataPointerAssumption
<1>3. ASSUME NEW k \in Nat PROVE Left(p, k) = rest - k * m
  BY <1>2, Zenon DEF Left
<1> HIDE DEF m
<1>4. Left(p, 0) = rest
  BY <1>1, <1>3
<1>5. rest <= m
  BY DEF m
<1>6. ASSUME NEW k \in Nat PROVE ~(m < Left(p, k))
  <2> DEFINE b == k * m
  <2>1. b \in Nat /\ Left(p, k) = rest - b
    BY <1>2, <1>3
  <2> HIDE DEF b
  <2> QED
    BY <1>1, <1>5, <2>1
<1>7. Walks(g, p)
  BY <1>6, Zenon DEF Walks, m
<1> HIDE DEF g
<1>8. Walks(w, p)
  BY <1>7, Zenon
<1>9. getPRPListFromPRP(p) = w[0]
  BY Zenon DEF getPRPListFromPRP, Walks, Left, ListPages
<1> HIDE DEF w
<1>10. 0 \in Nat
  OBVIOUS
<1>11. w[0] = ListPages(p, 0, PagesTaken(Left(p, 0)))
  BY <1>6, <1>8, <1>10, Zenon DEF Walks, m
<1> QED
  BY <1>4, <1>9, <1>11, Zenon

\* A pointer of which the lists cover the data.
PRPFits(p) ==
  /\ p.size \in Nat \ {0} /\ p.offset \in 0 .. PageSize - 1
  /\ NeedsList(p) => p.size - getPRPSize(p.offset) <= ListLength * PageSize

\* Regions without a bit bucket, that hold so many units.
Holds(list, size) ==
  /\ Regular(list)
  /\ \A n \in 1 .. Len(list) : ~list[n].ignore
  /\ size <= EndOf(list, Len(list))

\* Enough pages for what is left of the data.
LEMMA PagesCover ==
  ASSUME NEW rest \in Nat \ {0}, rest <= ListLength * PageSize
  PROVE  PagesTaken(rest) \in Nat \ {0} /\ rest <= PagesTaken(rest) * PageSize
<1> DEFINE a == rest + PageSize - 1
           c == a \div PageSize
<1>1. PageSize \in Nat \ {0} /\ ListLength \in Nat \ {0}
  BY DataPointerAssumption
<1>2. a \in Nat /\ rest <= a
  BY <1>1
<1>3. /\ c \in Nat /\ a < (c + 1) * PageSize
  <2> HIDE DEF a
  <2> QED
    BY <1>1, <1>2, DivBounds
<1>4. PagesTaken(rest) = Least(ListLength, c)
  BY Zenon DEF PagesTaken, CeilDiv
<1> HIDE DEF c
<1>5. (c + 1) * PageSize = c * PageSize + PageSize /\ c * PageSize \in Nat
  BY <1>1, <1>3
<1> DEFINE w == c * PageSize
<1>6. rest <= w
  <2>1. w \in Nat /\ rest + PageSize - 1 < w + PageSize
    BY <1>3, <1>5
  <2> HIDE DEF w
  <2> QED
    BY <1>1, <2>1
<1>7. c # 0
  <2> SUFFICES ASSUME c = 0 PROVE FALSE
    OBVIOUS
  <2>1. w = 0
    BY <1>1
  <2> QED
    BY <1>6, <2>1
<1>8. CASE ListLength < c
  BY <1>1, <1>4, <1>8 DEF Least
<1>9. CASE ~(ListLength < c)
  <2>1. PagesTaken(rest) = c
    BY <1>4, <1>9 DEF Least
  <2> QED
    BY <1>3, <1>6, <1>7, <2>1
<1> QED
  BY <1>8, <1>9

\* One region.
LEMMA OneRegion ==
  ASSUME NEW size \in Nat
  PROVE  Holds(<<Region(0, size, FALSE)>>, size)
<1> DEFINE r == Region(0, size, FALSE)
<1>1. r \in RegionType /\ r.addr = 0 /\ r.size = size /\ ~r.ignore
  BY DEF Region, RegionType
<1> HIDE DEF r
<1>2. <<r>> \in Seq(RegionType) /\ Len(<<r>>) = 1 /\ <<r>>[1] = r /\ \A n \in 1 .. 1 : n = 1
  BY <1>1
<1>3. EndOf(<<r>>, 0) = 0 /\ EndOf(<<r>>, 1) = size
  BY <1>1 DEF EndOf
<1>4. Regular(<<r>>)
  <2>1. <<r>>[1].addr = EndOf(<<r>>, 1 - 1)
    BY <1>1, <1>2, <1>3
  <2> QED
    BY <1>2, <2>1, Zenon DEF Regular
<1>5. Holds(<<r>>, size)
  BY <1>1, <1>2, <1>3, <1>4 DEF Holds
<1> QED
  BY <1>5 DEF r

\* The first page, and so many that follow it.
LEMMA PagesHold ==
  ASSUME NEW p, p.offset \in 0 .. PageSize - 1, NEW m \in Nat,
         NEW list, list = <<Region(0, getPRPSize(p.offset), FALSE)>>
                            \o [i \in 1 .. m |-> HostPage(p, i - 1)]
  PROVE  /\ getPRPSize(p.offset) \in Nat \ {0}
         /\ Holds(list, getPRPSize(p.offset) + m * PageSize)
<1> DEFINE f == getPRPSize(p.offset)
           r == Region(0, f, FALSE)
           more == [i \in 1 .. m |-> HostPage(p, i - 1)]
           at(k) == f + k * PageSize
<1>1. PageSize \in Nat \ {0} /\ f \in Nat \ {0}
  BY DataPointerAssumption DEF getPRPSize
<1>2. ASSUME NEW k \in Nat
      PROVE  at(k) \in Nat /\ at(k + 1) = at(k) + PageSize
  <2>1. (k + 1) * PageSize = k * PageSize + PageSize /\ k * PageSize \in Nat
    BY <1>1
  <2> QED
    BY <1>1, <2>1
<1>3. at(0) = f
  BY <1>1
<1>4. ASSUME NEW k \in Nat
      PROVE  HostPage(p, k) = [addr |-> at(k), size |-> PageSize, ignore |-> FALSE]
  BY Zenon DEF HostPage, Region
<1>5. r = [addr |-> 0, size |-> f, ignore |-> FALSE]
  BY Zenon DEF Region
<1> HIDE DEF f, r
<1> HIDE DEF at
<1>6. r \in RegionType /\ r.addr = 0 /\ r.size = f /\ ~r.ignore
  BY <1>1, <1>5 DEF RegionType
<1>7. ASSUME NEW k \in Nat
      PROVE  /\ HostPage(p, k) \in RegionType /\ HostPage(p, k).addr = at(k)
             /\ HostPage(p, k).size = PageSize /\ ~HostPage(p, k).ignore
  <2>1. PICK a \in Nat : a = at(k)
    BY <1>2
  <2>2. PICK h : h = HostPage(p, k)
    OBVIOUS
  <2>3. h = [addr |-> a, size |-> PageSize, ignore |-> FALSE]
    BY <1>4, <2>1, <2>2, Zenon
  <2>4. h \in RegionType /\ h.addr = a /\ h.size = PageSize /\ ~h.ignore
    BY <1>1, <2>3 DEF RegionType
  <2> QED
    BY <2>1, <2>2, <2>4, Zenon
<1>8. /\ more \in Seq(RegionType) /\ Len(more) = m
      /\ \A i \in 1 .. m : more[i] = HostPage(p, i - 1)
  <2>1. \A i \in 1 .. m : i - 1 \in Nat
    OBVIOUS
  <2> QED
    BY <1>7, <2>1
<1> HIDE DEF more
<1>9. <<r>> \in Seq(RegionType) /\ Len(<<r>>) = 1 /\ <<r>>[1] = r
  BY <1>6
<1>10. list = <<r>> \o more
  BY Zenon DEF r, f, more
<1>11. /\ list \in Seq(RegionType) /\ Len(list) = m + 1 /\ list[1] = r
       /\ \A n \in 2 .. m + 1 : list[n] = HostPage(p, n - 2)
  <2>1. /\ <<r>> \o more \in Seq(RegionType) /\ Len(<<r>> \o more) = m + 1
        /\ \A n \in 1 .. 1 : (<<r>> \o more)[n] = <<r>>[n]
        /\ \A n \in 2 .. m + 1 : (<<r>> \o more)[n] = more[n - 1]
    BY <1>8, <1>9, ConcatProperties
  <2>2. (<<r>> \o more)[1] = r
    BY <1>9, <2>1
  <2>3. ASSUME NEW n \in 2 .. m + 1 PROVE (<<r>> \o more)[n] = HostPage(p, n - 2)
    <3>1. n - 1 \in 1 .. m /\ (n - 1) - 1 = n - 2
      OBVIOUS
    <3>2. more[n - 1] = HostPage(p, n - 2)
      BY <1>8, <3>1
    <3> QED
      BY <2>1, <3>2
  <2> QED
    BY <1>10, <2>1, <2>2, <2>3
<1>12. ASSUME NEW n \in 1 .. m + 1 PROVE EndOf(list, n) = at(n - 1) /\ ~list[n].ignore
  <2>1. CASE n = 1
    <3>1. EndOf(list, 1) = f
      <4>1. EndOf(list, 1) = list[1].addr + list[1].size
        BY DEF EndOf
      <4>2. EndOf(list, 1) = 0 + f
        BY <1>6, <1>11, <4>1, Zenon
      <4> QED
        BY <1>1, <4>2
    <3>2. n - 1 = 0
      BY <2>1
    <3> QED
      BY <1>3, <1>6, <1>11, <2>1, <3>1, <3>2, Zenon
  <2>2. CASE n # 1
    <3>1. n \in 2 .. m + 1 /\ n - 2 \in Nat /\ (n - 2) + 1 = n - 1 /\ n # 0
      BY <2>2
    <3>2. list[n].addr = at(n - 2) /\ list[n].size = PageSize /\ ~list[n].ignore
      BY <1>7, <1>11, <3>1
    <3>3. at(n - 1) = at(n - 2) + PageSize
      BY <1>2, <3>1
    <3> QED
      BY <3>1, <3>2, <3>3 DEF EndOf
  <2> QED
    BY <2>1, <2>2
<1>13. ASSUME NEW n \in 1 .. m + 1 PROVE list[n].addr = EndOf(list, n - 1)
  <2>1. CASE n = 1
    <3>1. n - 1 = 0 /\ EndOf(list, 0) = 0
      BY <2>1 DEF EndOf
    <3> QED
      BY <1>6, <1>11, <2>1, <3>1, Zenon
  <2>2. CASE n # 1
    <3>1. n \in 2 .. m + 1 /\ n - 2 \in Nat /\ n - 1 \in 1 .. m + 1 /\ (n - 1) - 1 = n - 2
      BY <2>2
    <3>2. list[n].addr = at(n - 2)
      BY <1>7, <1>11, <3>1
    <3>3. EndOf(list, n - 1) = at(n - 2)
      BY <1>12, <3>1
    <3> QED
      BY <3>2, <3>3
  <2> QED
    BY <2>1, <2>2
<1>14. Regular(list) /\ \A n \in 1 .. Len(list) : ~list[n].ignore
  BY <1>11, <1>12, <1>13 DEF Regular
<1>15. EndOf(list, Len(list)) = at(m) /\ at(m) \in Nat
  <2>1. m + 1 \in 1 .. m + 1 /\ (m + 1) - 1 = m
    OBVIOUS
  <2> QED
    BY <1>2, <1>11, <1>12, <2>1
<1>16. Holds(list, at(m))
  <2>1. PICK w \in Nat : w = at(m)
    BY <1>15
  <2>2. EndOf(list, Len(list)) = w /\ w <= w
    <3>1. EndOf(list, Len(list)) = w
      BY <1>15, <2>1, Zenon
    <3>2. w <= w
      BY <2>1
    <3> QED
      BY <3>1, <3>2, Zenon
  <2> QED
    <3>1. w <= EndOf(list, Len(list))
      BY <2>2, Zenon
    <3> QED
      BY <1>14, <2>1, <3>1, Zenon DEF Holds
<1> QED
  BY <1>1, <1>16 DEF at, f

LEMMA JoinTwo ==
  ASSUME NEW a, NEW b
  PROVE  <<a>> \o <<b>> = <<a, b>>
<1> DEFINE S == {a, b}
           c == <<a>> \o <<b>>
<1>1. /\ <<a>> \in Seq(S) /\ <<b>> \in Seq(S) /\ Len(<<a>>) = 1 /\ Len(<<b>>) = 1
      /\ <<a>>[1] = a /\ <<b>>[1] = b
  OBVIOUS
<1>2. /\ c \in Seq(S) /\ Len(c) = 2 /\ c[1] = a /\ c[2] = b
  <2>1. /\ c \in Seq(S) /\ Len(c) = 1 + 1
        /\ \A i \in 1 .. 1 : c[i] = <<a>>[i]
        /\ \A i \in 1 + 1 .. 1 + 1 : c[i] = <<b>>[i - 1]
    BY <1>1, ConcatProperties
  <2> QED
    BY <1>1, <2>1
<1>3. <<a, b>> \in Seq(S) /\ Len(<<a, b>>) = 2 /\ <<a, b>>[1] = a /\ <<a, b>>[2] = b
  OBVIOUS
<1> HIDE DEF c, S
<1>4. \A i \in 1 .. 2 : c[i] = <<a, b>>[i]
  BY <1>2, <1>3
<1> QED
  BY <1>2, <1>3, <1>4, SeqEqual DEF c

\* The regions of a PRP pointer hold its data.
LEMMA PRPHolds ==
  ASSUME NEW p, PRPFits(p)
  PROVE  Holds(PRPList(p), p.size)
<1> DEFINE f == getPRPSize(p.offset)
           first == Region(0, f, FALSE)
<1>1. /\ PageSize \in Nat \ {0} /\ p.size \in Nat \ {0} /\ p.offset \in 0 .. PageSize - 1
      /\ ListLength \in Nat
  BY DataPointerAssumption DEF PRPFits
<1>2. f \in Nat \ {0} /\ f <= PageSize
  BY <1>1 DEF getPRPSize
<1>3. CASE p.contiguous \/ (~NeedsList(p) /\ p.size <= f)
  <2>1. PRPList(p) = <<Region(0, p.size, FALSE)>>
    BY <1>3, Zenon DEF PRPList
  <2> QED
    BY <1>1, <2>1, OneRegion
<1>4. CASE ~p.contiguous /\ NeedsList(p)
  <2> DEFINE rest == p.size - f
             m == PagesTaken(rest)
             more == [i \in 1 .. m |-> HostPage(p, i - 1)]
  <2>1. rest \in Nat \ {0} /\ rest <= ListLength * PageSize
    BY <1>1, <1>2, <1>4 DEF PRPFits, NeedsList
  <2>2. m \in Nat \ {0} /\ rest <= m * PageSize
    <3> HIDE DEF rest
    <3> QED
      BY <2>1, PagesCover
  <2>3. getPRPListFromPRP(p) = ListPages(p, 0, m)
    <3> HIDE DEF m
    <3>1. getPRPListFromPRP(p) = ListPages(p, 0, PagesTaken(rest))
      BY <2>1, OneList
    <3> QED
      BY <3>1 DEF m
  <2> HIDE DEF m
  <2>4. ListPages(p, 0, m) = more
    <3>1. PagesBefore(0) = 0
      BY DataPointerAssumption DEF PagesBefore
    <3>2. \A i \in 1 .. m : PagesBefore(0) + i - 1 = i - 1
      BY <3>1
    <3> QED
      BY <3>2, Zenon DEF ListPages
  <2>5. PRPList(p) = <<first>> \o more
    <3>1. PRPList(p) = <<first>> \o getPRPListFromPRP(p)
      BY <1>4, Zenon DEF PRPList
    <3> QED
      BY <2>3, <2>4, <3>1, Zenon
  <2>6. Holds(PRPList(p), f + m * PageSize)
    BY <1>1, <2>2, <2>5, PagesHold
  <2>7. p.size <= f + m * PageSize /\ m * PageSize \in Nat
    BY <1>1, <1>2, <2>2
  <2> DEFINE list == PRPList(p)
             w == f + m * PageSize
  <2>8. w \in Nat /\ p.size <= w /\ Holds(list, w)
    BY <1>2, <2>6, <2>7
  <2> QED
    <3> HIDE DEF list, w
    <3>1. EndOf(list, Len(list)) \in Int
      <4>1. list \in Seq(RegionType) /\ Len(list) \in Nat
        BY <2>8, LenProperties DEF Holds, Regular
      <4>2. CASE Len(list) = 0
        BY <4>2 DEF EndOf
      <4>3. CASE Len(list) # 0
        <5>1. Len(list) \in 1 .. Len(list) /\ Regular(list)
          BY <2>8, <4>1, <4>3 DEF Holds
        <5> QED
          BY <5>1, RegularRegion
      <4> QED
        BY <4>2, <4>3
    <3>2. Holds(list, p.size)
      BY <1>1, <2>8, <3>1 DEF Holds
    <3> QED
      BY <3>2 DEF list
<1>5. CASE ~p.contiguous /\ ~NeedsList(p) /\ ~(p.size <= f)
  <2> DEFINE more == [i \in 1 .. 1 |-> HostPage(p, i - 1)]
             list == PRPList(p)
  <2>1. list = <<first, HostPage(p, 0)>>
    BY <1>5, Zenon DEF PRPList
  <2>2. <<first>> \o more = <<first, HostPage(p, 0)>>
    <3> DEFINE a == HostPage(p, 0)
    <3>1. more = <<a>>
      <4>1. \A i \in 1 .. 1 : i - 1 = 0
        OBVIOUS
      <4>2. more = [i \in 1 .. 1 |-> a]
        BY <4>1, Zenon
      <4> HIDE DEF a, more
      <4> QED
        BY <4>2
    <3> HIDE DEF a, more, first
    <3>2. <<first>> \o <<a>> = <<first, a>>
      BY JoinTwo, Zenon
    <3> QED
      BY <3>1, <3>2, Zenon DEF a
  <2>3. Holds(list, f + 1 * PageSize)
    <3> HIDE DEF list
    <3> QED
      BY <1>1, <2>1, <2>2, PagesHold
  <2>4. p.size <= f + 1 * PageSize
    BY <1>1, <1>2, <1>5 DEF NeedsList
  <2> QED
    <3> HIDE DEF list
    <3>1. Len(list) = 2
      BY <2>1
    <3>2. EndOf(list, Len(list)) \in Nat
      <4>1. Regular(list) /\ Len(list) \in 1 .. Len(list)
        BY <2>3, <3>1 DEF Holds
      <4> QED
        BY <4>1, RegularRegion
    <3>3. Holds(list, p.size)
      BY <1>1, <1>2, <2>3, <2>4, <3>2 DEF Holds
    <3> QED
      BY <3>3 DEF list
<1> QED
  BY <1>3, <1>4, <1>5

\* A descriptor of a scatter gather list.
Descriptor == [length : Nat, ignore : BOOLEAN]

\* A table of what the first segments hold.
Flattens(f, q) ==
  f = [i \in 1 .. Len(q) |-> IF i = 1 THEN q[i] ELSE f[i - 1] \o q[i]]

\* The segments of a list, one after the other.
LEMMA FlattenType ==
  ASSUME NEW S, NEW q \in Seq(Seq(S))
  PROVE  FlattenSeq(q) \in Seq(S)
<1> DEFINE N == Len(q)
           T == Seq(S)
           next(x, n) == IF n = 1 THEN q[n] ELSE x \o q[n]
           step == [x \in T \X (1 .. N) |-> next(x[1], x[2])]
           w == CHOOSE f : Flattens(f, q)
<1>1. N \in Nat /\ \A n \in 1 .. N : q[n] \in T
  BY ElementOfSeq, LenProperties
<1>2. <<>> \in T
  OBVIOUS
<1>3. CASE N = 0
  <2>1. FlattenSeq(q) = q
    BY <1>3, Zenon DEF FlattenSeq
  <2>2. q = <<>>
    BY <1>3, EmptySeq
  <2> QED
    BY <1>2, <2>1, <2>2, Zenon
<1>4. CASE N # 0
  <2>1. \A x \in T, n \in 1 .. N : next(x, n) \in T
    BY <1>1, ConcatProperties
  <2> HIDE DEF next, T
  <2>2. step \in [T \X (1 .. N) -> T]
    BY <2>1
  <2>3. PICK f : Iterated(f, T, N, step, <<>>)
    <3> HIDE DEF step
    <3> QED
      BY <1>1, <1>2, <2>2, Iterates
  <2>4. ASSUME NEW n \in 1 .. N
        PROVE  n - 1 \in 0 .. N /\ f[n - 1] \in T /\ f[n] = next(f[n - 1], n)
    <3>1. f \in [0 .. N -> T] /\ f[n] = step[<<f[n - 1], n>>]
      BY <2>3, Zenon DEF Iterated
    <3>2. n - 1 \in 0 .. N
      BY <1>1
    <3> QED
      BY <3>1, <3>2
  <2> DEFINE h == [i \in 1 .. N |-> f[i]]
  <2>5. ASSUME NEW i \in 1 .. N PROVE h[i] = IF i = 1 THEN q[i] ELSE h[i - 1] \o q[i]
    <3>1. CASE i = 1
      BY <2>4, <3>1, Zenon DEF next
    <3>2. CASE i # 1
      <4>1. i - 1 \in 1 .. N
        BY <1>1, <3>2
      <4> QED
        BY <2>4, <3>2, <4>1, Zenon DEF next
    <3> QED
      BY <3>1, <3>2
  <2>6. h = [i \in 1 .. N |-> h[i]]
    BY Zenon
  <2> HIDE DEF h
  <2>7. h = [i \in 1 .. N |-> IF i = 1 THEN q[i] ELSE h[i - 1] \o q[i]]
    BY <2>5, <2>6, Zenon
  <2>8. Flattens(w, q)
    BY <2>7, Zenon DEF Flattens
  <2>9. FlattenSeq(q) = w[N]
    BY <1>4, Zenon DEF FlattenSeq, Flattens
  <2> HIDE DEF w
  <2>10. \A i \in 1 .. N : w[i] = IF i = 1 THEN q[i] ELSE w[i - 1] \o q[i]
    BY <2>8, Zenon DEF Flattens
  <2> DEFINE M == {m \in Nat : m + 1 <= N => w[m + 1] \in T}
  <2>11. 0 \in M
    <3>1. w[1] = q[1] /\ q[1] \in T
      BY <1>1, <1>4, <2>10
    <3> QED
      BY <3>1
  <2>12. ASSUME NEW m \in Nat, m \in M PROVE m + 1 \in M
    <3> SUFFICES ASSUME (m + 1) + 1 <= N PROVE w[(m + 1) + 1] \in T
      OBVIOUS
    <3> DEFINE i == (m + 1) + 1
    <3>1. i \in 1 .. N /\ i # 1 /\ i - 1 = m + 1 /\ m + 1 <= N
      BY <1>1
    <3>2. w[i - 1] \in T
      BY <2>12, <3>1
    <3> HIDE DEF i
    <3>3. w[i] = w[i - 1] \o q[i]
      BY <2>10, <3>1, Zenon
    <3>4. w[i - 1] \o q[i] \in T
      BY <1>1, <3>1, <3>2, ConcatProperties DEF T
    <3> QED
      BY <3>3, <3>4, Zenon DEF i
  <2>13. w[N] \in T
    <3>1. Nat \subseteq M
      <4> HIDE DEF M
      <4> QED
        BY <2>11, <2>12, NatInductionSet
    <3>2. N - 1 \in Nat /\ (N - 1) + 1 = N
      BY <1>1, <1>4
    <3>3. N - 1 \in M
      BY <3>1, <3>2
    <3> QED
      BY <1>1, <3>2, <3>3
  <2> QED
    BY <2>9, <2>13, Zenon DEF T
<1> QED
  BY <1>3, <1>4

\* A region behind the last one.
LEMMA AppendRegular ==
  ASSUME NEW list, Regular(list), NEW length \in Nat, NEW ignore \in BOOLEAN,
         NEW r, r = Region(EndOf(list, Len(list)), length, ignore)
  PROVE  /\ EndOf(list, Len(list)) \in Nat
         /\ Regular(Append(list, r)) /\ Len(Append(list, r)) = Len(list) + 1
         /\ EndOf(Append(list, r), Len(list) + 1) = EndOf(list, Len(list)) + length
<1> DEFINE N == Len(list)
           more == Append(list, r)
<1>1. list \in Seq(RegionType) /\ N \in Nat
  BY LenProperties DEF Regular
<1>2. EndOf(list, N) \in Nat
  <2>1. CASE N = 0
    BY <2>1 DEF EndOf
  <2>2. CASE N # 0
    <3>1. N \in 1 .. Len(list)
      BY <1>1, <2>2
    <3> QED
      BY <3>1, RegularRegion
  <2> QED
    BY <2>1, <2>2
<1>3. r \in RegionType /\ r.addr = EndOf(list, N) /\ r.size = length
  BY <1>2 DEF RegionType, Region
<1>4. /\ more \in Seq(RegionType) /\ Len(more) = N + 1
      /\ \A n \in 1 .. N : more[n] = list[n]
      /\ more[N + 1] = r
  BY <1>1, <1>3, AppendProperties
<1> HIDE DEF more
<1>5. ASSUME NEW n \in 0 .. N PROVE EndOf(more, n) = EndOf(list, n)
  <2>1. CASE n = 0
    BY <2>1 DEF EndOf
  <2>2. CASE n # 0
    <3>1. n \in 1 .. N
      BY <1>1, <2>2
    <3> QED
      BY <1>4, <2>2, <3>1, Zenon DEF EndOf
  <2> QED
    BY <2>1, <2>2
<1>6. ASSUME NEW n \in 1 .. N + 1 PROVE more[n].addr = EndOf(more, n - 1)
  <2>1. CASE n = N + 1
    <3>1. n - 1 = N /\ N \in 0 .. N
      BY <1>1, <2>1
    <3> QED
      BY <1>3, <1>4, <1>5, <2>1, <3>1, Zenon
  <2>2. CASE n # N + 1
    <3>1. n \in 1 .. N /\ n - 1 \in 0 .. N
      BY <1>1, <2>2
    <3>2. list[n].addr = EndOf(list, n - 1)
      BY <3>1, Zenon DEF Regular
    <3> QED
      BY <1>4, <1>5, <3>1, <3>2, Zenon
  <2> QED
    BY <2>1, <2>2
<1>7. Regular(more)
  BY <1>4, <1>6, Zenon DEF Regular
<1>8. EndOf(more, N + 1) = EndOf(list, N) + length
  <2>1. N + 1 # 0
    BY <1>1
  <2> QED
    BY <1>3, <1>4, <2>1, Zenon DEF EndOf
<1> QED
  BY <1>2, <1>4, <1>7, <1>8, Zenon DEF more

\* What SGL() and DataLength() do for one descriptor.
SGLStep(list, desc) ==
  LET addr == IF list = <<>> THEN 0 ELSE Last(list).addr + Last(list).size
  IN Append(list, Region(addr, desc.length, desc.ignore))
LengthStep(n, desc) == n + desc.length

LEMMA SGLStepType ==
  ASSUME NEW list \in Seq(RegionType), NEW desc \in Descriptor
  PROVE  /\ SGLStep(list, desc) \in Seq(RegionType)
         /\ SGLStep(list, desc)
              = Append(list, Region(EndOf(list, Len(list)), desc.length, desc.ignore))
<1> DEFINE a == IF list = <<>> THEN 0 ELSE Last(list).addr + Last(list).size
<1>1. Len(list) \in Nat /\ (Len(list) = 0 <=> list = <<>>)
  BY EmptySeq, LenProperties
<1>2. a = EndOf(list, Len(list))
  BY <1>1, Zenon DEF EndOf, Last
<1>3. a \in Nat
  <2>1. CASE list = <<>>
    BY <2>1
  <2>2. CASE list # <<>>
    <3>1. Last(list) \in RegionType
      <4>1. Len(list) \in 1 .. Len(list)
        BY <1>1, <2>2
      <4> QED
        BY <4>1, ElementOfSeq DEF Last
    <3>2. Last(list).addr \in Nat /\ Last(list).size \in Nat
      BY <3>1 DEF RegionType
    <3> QED
      BY <2>2, <3>2
  <2> QED
    BY <2>1, <2>2
<1>4. SGLStep(list, desc) = Append(list, Region(a, desc.length, desc.ignore))
  BY Zenon DEF SGLStep
<1> HIDE DEF a
<1>5. Region(a, desc.length, desc.ignore) \in RegionType
  BY <1>3 DEF Region, RegionType, Descriptor
<1>6. Append(list, Region(a, desc.length, desc.ignore)) \in Seq(RegionType)
  BY <1>5, AppendProperties
<1> QED
  BY <1>2, <1>4, <1>6, Zenon

\* The regions of a scatter gather list, descriptor by descriptor.
LEMMA SGLRuns ==
  ASSUME NEW p, NEW list \in Seq(Descriptor), list = SGLDescriptors(p)
  PROVE  \E f \in [0 .. Len(list) -> Seq(RegionType)] :
           /\ f[0] = <<>>
           /\ \A n \in 1 .. Len(list) : f[n] = SGLStep(f[n - 1], list[n])
           /\ SGL(p) = f[Len(list)]
<1> DEFINE N == Len(list)
           D == 1 .. N
           S == Seq(RegionType)
           Turn(t, k) == SGLStep(t, list[k])
           step == [x \in S \X D |-> Turn(x[1], x[2])]
           P(g) == g = [r \in SUBSET D |->
                          IF r = {} THEN <<>> ELSE Turn(g[r \ {Max(r)}], Max(r))]
<1>1. N \in Nat /\ DOMAIN list = D
  BY LenProperties
<1>2. <<>> \in S
  OBVIOUS
<1>3. \A t \in S, k \in D : Turn(t, k) \in S
  <2> TAKE t \in S, k \in D
  <2>1. list[k] \in Descriptor
    BY ElementOfSeq
  <2> HIDE DEF S
  <2> QED
    BY <2>1, SGLStepType, Zenon DEF S
<1>5. SGL(p) = (CHOOSE g : P(g))[D]
  BY <1>1, Zenon DEF SGL, FoldLeft, MapThenFoldSet, SGLStep
<1> HIDE DEF Turn, S
<1>4. step \in [S \X D -> S]
  BY <1>3
<1>6. PICK h : Folded(h, S, N, step, <<>>)
  <2> HIDE DEF step
  <2> QED
    BY <1>1, <1>2, <1>4, FoldExists
<1>7. \A t \in S, k \in D : step[<<t, k>>] = Turn(t, k)
  OBVIOUS
<1> HIDE DEF step
<1>8. ASSUME NEW r \in SUBSET D
      PROVE  /\ r # {} => Max(r) \in D
             /\ h[r] = IF r = {} THEN <<>> ELSE Turn(h[r \ {Max(r)}], Max(r))
  <2>1. /\ h[r] = IF r = {} THEN <<>> ELSE step[<<h[r \ {Max(r)}], Max(r)>>]
        /\ r # {} => Max(r) \in D /\ h[r \ {Max(r)}] \in S
    BY <1>1, <1>6, FoldedAt
  <2> QED
    BY <1>7, <2>1
<1>9. P(h)
  <2>1. h \in [SUBSET D -> S]
    BY <1>6, Zenon DEF Folded
  <2> QED
    BY <1>8, <2>1
<1>10. PICK g : P(g) /\ SGL(p) = g[D]
  <2> HIDE DEF P
  <2> QED
    BY <1>5, <1>9, Zenon
<1> DEFINE next == [r \in SUBSET D |-> Turn(g[r \ {Max(r)}], Max(r))]
<1>11. \A r \in SUBSET D : g[r] = IF r = {} THEN <<>> ELSE next[r]
  BY <1>10
<1>12. FoldedBy(g, S, N, step, <<>>, next)
  BY <1>1, <1>2, <1>4, <1>7, <1>8, <1>11 DEF FoldedBy
<1> HIDE DEF next, P
<1>13. PICK f : Iterated(f, S, N, step, <<>>) /\ f[N] = g[D]
  BY <1>12, FoldRuns
<1>14. /\ f \in [0 .. N -> S] /\ f[0] = <<>>
       /\ \A n \in D : f[n] = step[<<f[n - 1], n>>]
  BY <1>13, Zenon DEF Iterated
<1>15. ASSUME NEW n \in D PROVE f[n] = SGLStep(f[n - 1], list[n])
  <2>1. n - 1 \in 0 .. N
    BY <1>1
  <2>2. f[n] = Turn(f[n - 1], n)
    BY <1>7, <1>14, <2>1
  <2> QED
    BY <2>2 DEF Turn
<1> QED
  BY <1>10, <1>13, <1>14, <1>15, Zenon DEF S

\* The length of the data of a scatter gather list, descriptor by descriptor.
LEMMA LengthRuns ==
  ASSUME NEW p, NEW list \in Seq(Descriptor), list = SGLDescriptors(p),
         p.type # "PRP"
  PROVE  \E f \in [0 .. Len(list) -> Nat] :
           /\ f[0] = 0
           /\ \A n \in 1 .. Len(list) : f[n] = LengthStep(f[n - 1], list[n])
           /\ DataLength(p) = f[Len(list)]
<1> DEFINE N == Len(list)
           D == 1 .. N
           S == Nat
           Turn(t, k) == LengthStep(t, list[k])
           step == [x \in S \X D |-> Turn(x[1], x[2])]
           P(g) == g = [r \in SUBSET D |->
                          IF r = {} THEN 0 ELSE Turn(g[r \ {Max(r)}], Max(r))]
<1>1. N \in Nat /\ DOMAIN list = D
  BY LenProperties
<1>2. 0 \in S
  OBVIOUS
<1>3. \A t \in S, k \in D : Turn(t, k) \in S
  <2> TAKE t \in S, k \in D
  <2>1. list[k] \in Descriptor
    BY ElementOfSeq
  <2>2. list[k].length \in Nat
    BY <2>1 DEF Descriptor
  <2> QED
    BY <2>2 DEF LengthStep
<1>5. DataLength(p) = (CHOOSE g : P(g))[D]
  BY <1>1, Zenon DEF DataLength, FoldLeft, MapThenFoldSet, LengthStep
<1> HIDE DEF Turn, S
<1>4. step \in [S \X D -> S]
  BY <1>3
<1>6. PICK h : Folded(h, S, N, step, 0)
  <2> HIDE DEF step
  <2> QED
    BY <1>1, <1>2, <1>4, FoldExists
<1>7. \A t \in S, k \in D : step[<<t, k>>] = Turn(t, k)
  OBVIOUS
<1> HIDE DEF step
<1>8. ASSUME NEW r \in SUBSET D
      PROVE  /\ r # {} => Max(r) \in D
             /\ h[r] = IF r = {} THEN 0 ELSE Turn(h[r \ {Max(r)}], Max(r))
  <2>1. /\ h[r] = IF r = {} THEN 0 ELSE step[<<h[r \ {Max(r)}], Max(r)>>]
        /\ r # {} => Max(r) \in D /\ h[r \ {Max(r)}] \in S
    BY <1>1, <1>6, FoldedAt
  <2> QED
    BY <1>7, <2>1
<1>9. P(h)
  <2>1. h \in [SUBSET D -> S]
    BY <1>6, Zenon DEF Folded
  <2> QED
    BY <1>8, <2>1
<1>10. PICK g : P(g) /\ DataLength(p) = g[D]
  <2> HIDE DEF P
  <2> QED
    BY <1>5, <1>9, Zenon
<1> DEFINE next == [r \in SUBSET D |-> Turn(g[r \ {Max(r)}], Max(r))]
<1>11. \A r \in SUBSET D : g[r] = IF r = {} THEN 0 ELSE next[r]
  BY <1>10
<1>12. FoldedBy(g, S, N, step, 0, next)
  BY <1>1, <1>2, <1>4, <1>7, <1>8, <1>11 DEF FoldedBy
<1> HIDE DEF next, P
<1>13. PICK f : Iterated(f, S, N, step, 0) /\ f[N] = g[D]
  BY <1>12, FoldRuns
<1>14. /\ f \in [0 .. N -> S] /\ f[0] = 0
       /\ \A n \in D : f[n] = step[<<f[n - 1], n>>]
  BY <1>13, Zenon DEF Iterated
<1>15. ASSUME NEW n \in D PROVE f[n] = LengthStep(f[n - 1], list[n])
  <2>1. n - 1 \in 0 .. N
    BY <1>1
  <2>2. f[n] = Turn(f[n - 1], n)
    BY <1>7, <1>14, <2>1
  <2> QED
    BY <2>2 DEF Turn
<1> QED
  BY <1>10, <1>13, <1>14, <1>15, Zenon DEF S

\* The regions of a scatter gather list hold just its data.
LEMMA SGLRegular ==
  ASSUME NEW p, p.type # "PRP", SGLDescriptors(p) \in Seq(Descriptor)
  PROVE  /\ Regular(SGL(p)) /\ DataLength(p) \in Nat
         /\ DataLength(p) = EndOf(SGL(p), Len(SGL(p)))
<1> DEFINE list == SGLDescriptors(p)
           N == Len(list)
<1>1. list \in Seq(Descriptor) /\ N \in Nat
  BY LenProperties
<1> HIDE DEF list
<1>2. PICK f \in [0 .. N -> Seq(RegionType)] :
           /\ f[0] = <<>>
           /\ \A n \in 1 .. N : f[n] = SGLStep(f[n - 1], list[n])
           /\ SGL(p) = f[N]
  BY <1>1, SGLRuns DEF list
<1>3. PICK g \in [0 .. N -> Nat] :
           /\ g[0] = 0
           /\ \A n \in 1 .. N : g[n] = LengthStep(g[n - 1], list[n])
           /\ DataLength(p) = g[N]
  BY <1>1, LengthRuns DEF list
<1> DEFINE Good(n) == Regular(f[n]) /\ Len(f[n]) = n /\ EndOf(f[n], n) = g[n]
           M == {n \in Nat : n <= N => Good(n)}
<1>4. 0 \in M
  <2>1. <<>> \in Seq(RegionType) /\ Len(<<>>) = 0 /\ \A n \in 1 .. 0 : FALSE
    OBVIOUS
  <2>2. Regular(<<>>) /\ EndOf(<<>>, 0) = 0
    BY <2>1 DEF Regular, EndOf
  <2>3. Good(0)
    BY <1>2, <1>3, <2>1, <2>2, Zenon
  <2> HIDE DEF Good
  <2> QED
    BY <2>3
<1>5. ASSUME NEW n \in Nat, n \in M PROVE n + 1 \in M
  <2> SUFFICES ASSUME n + 1 <= N PROVE Good(n + 1)
    OBVIOUS
  <2>1. n + 1 \in 1 .. N /\ (n + 1) - 1 = n /\ n \in 0 .. N /\ n <= N
    BY <1>1
  <2>2. Good(n)
    <3> HIDE DEF Good
    <3> QED
      BY <1>5, <2>1
  <2>3. f[n + 1] = SGLStep(f[n], list[n + 1]) /\ g[n + 1] = LengthStep(g[n], list[n + 1])
    BY <1>2, <1>3, <2>1, Zenon
  <2>4. PICK desc \in Descriptor : desc = list[n + 1]
    BY <1>1, <2>1, ElementOfSeq
  <2>5. desc.length \in Nat /\ desc.ignore \in BOOLEAN
    BY DEF Descriptor
  <2>6. PICK a \in Seq(RegionType) : a = f[n]
    BY <1>2, <2>1
  <2>7. Regular(a) /\ Len(a) = n /\ EndOf(a, n) = g[n]
    BY <2>2, <2>6, Zenon
  <2>8. SGLStep(a, desc) = Append(a, Region(EndOf(a, Len(a)), desc.length, desc.ignore))
    BY SGLStepType
  <2> DEFINE r == Region(EndOf(a, Len(a)), desc.length, desc.ignore)
  <2>9. /\ Regular(Append(a, r)) /\ Len(Append(a, r)) = Len(a) + 1
        /\ EndOf(Append(a, r), Len(a) + 1) = EndOf(a, Len(a)) + desc.length
    <3>1. PICK length, ignore, q : length = desc.length /\ ignore = desc.ignore /\ q = r
      OBVIOUS
    <3>2. /\ Regular(a) /\ length \in Nat /\ ignore \in BOOLEAN
          /\ q = Region(EndOf(a, Len(a)), length, ignore)
      BY <2>5, <2>7, <3>1, Zenon
    <3>3. /\ Regular(Append(a, q)) /\ Len(Append(a, q)) = Len(a) + 1
          /\ EndOf(Append(a, q), Len(a) + 1) = EndOf(a, Len(a)) + length
      BY ONLY <3>2, AppendRegular
    <3> QED
      BY <3>1, <3>3, Zenon
  <2> HIDE DEF r
  <2>10. f[n + 1] = Append(a, r) /\ g[n + 1] = g[n] + desc.length
    BY <2>3, <2>4, <2>6, <2>8, Zenon DEF r, LengthStep
  <2> QED
    BY <2>7, <2>9, <2>10, Zenon
<1>6. Good(N)
  <2>1. Nat \subseteq M
    <3> HIDE DEF M
    <3> QED
      BY <1>4, <1>5, NatInductionSet
  <2> HIDE DEF Good
  <2> QED
    BY <1>1, <2>1
<1>7. g[N] \in Nat
  BY <1>1, <1>3
<1> QED
  BY <1>2, <1>3, <1>6, <1>7, Zenon

\* A pointer that tells where all of its data is.
PointerFits(p) ==
  \/ p.type = "PRP" /\ PRPFits(p)
  \/ p.type = "SGL" /\ p.segments \in Seq(Seq(Descriptor))

\* What its regions drop is what it says that they drop.
LEMMA BucketsDropped ==
  ASSUME NEW p, PointerFits(p)
  PROVE  /\ p # NoPointer /\ DataLength(p) \in Nat /\ Regular(Regions(p))
         /\ DataLength(p) <= EndOf(Regions(p), Len(Regions(p)))
         /\ \A i \in Nat : i \in Buckets(p) <=> Dropped(Regions(p), Len(Regions(p)), i)
<1>1. CASE p.type = "PRP" /\ PRPFits(p)
  <2> DEFINE list == PRPList(p)
  <2>1. Regions(p) = list /\ DataLength(p) = p.size /\ Buckets(p) = {}
    BY <1>1, Zenon DEF Regions, DataLength, Buckets
  <2>2. Holds(list, p.size)
    BY <1>1, PRPHolds
  <2>3. \A i : ~Dropped(list, Len(list), i)
    BY <2>2, Zenon DEF Holds, Dropped
  <2>4. p.size \in Nat
    BY <1>1 DEF PRPFits
  <2>5. p # NoPointer
    BY <1>1 DEF NoPointer
  <2> HIDE DEF list
  <2> QED
    BY <2>1, <2>2, <2>3, <2>4, <2>5, Zenon DEF Holds
<1>2. CASE p.type = "SGL" /\ p.segments \in Seq(Seq(Descriptor))
  <2> DEFINE list == SGL(p)
             N == Len(list)
             Of(r) == r.addr .. r.addr + r.size - 1
  <2>1. p.type # "PRP" /\ p # NoPointer
    BY <1>2 DEF NoPointer
  <2>2. SGLDescriptors(p) \in Seq(Descriptor)
    BY <1>2, FlattenType DEF SGLDescriptors
  <2>3. Regular(list) /\ DataLength(p) \in Nat /\ DataLength(p) = EndOf(list, N)
    BY <2>1, <2>2, SGLRegular
  <2>4. Regions(p) = list
    BY <2>1, Zenon DEF Regions
  <2>5. Buckets(p) = UNION {Of(r) : r \in {x \in ToSet(list) : x.ignore}}
    BY <2>1, Zenon DEF Buckets
  <2>6. list \in Seq(RegionType) /\ N \in Nat /\ DOMAIN list = 1 .. N
    BY <2>3, LenProperties DEF Regular
  <2>7. \A r : r \in ToSet(list) <=> \E j \in 1 .. N : r = list[j]
    BY <2>6 DEF ToSet
  <2> HIDE DEF list, N
  <2>8. \A r \in RegionType : \A i \in Nat : i \in Of(r) <=> Lies(i, r)
    BY DEF RegionType, Lies
  <2>9. \A j \in 1 .. N : list[j] \in RegionType
    BY <2>6, ElementOfSeq DEF N
  <2> HIDE DEF Of
  <2>10. ASSUME NEW i \in Nat
         PROVE  i \in Buckets(p) <=> Dropped(list, N, i)
    <3>1. i \in Buckets(p) <=> \E r \in ToSet(list) : r.ignore /\ i \in Of(r)
      BY <2>5
    <3>2. ASSUME NEW r \in ToSet(list), r.ignore, i \in Of(r) PROVE Dropped(list, N, i)
      <4>1. PICK j \in 1 .. N : r = list[j]
        BY <2>7, <3>2, Zenon
      <4> QED
        BY <2>8, <2>9, <3>2, <4>1, Zenon DEF Dropped
    <3>3. ASSUME NEW j \in 1 .. N, list[j].ignore, Lies(i, list[j])
          PROVE  \E r \in ToSet(list) : r.ignore /\ i \in Of(r)
      BY <2>7, <2>8, <2>9, <3>3, Zenon
    <3> QED
      BY <3>1, <3>2, <3>3, Zenon DEF Dropped
  <2>11. DataLength(p) <= EndOf(list, N)
    BY <2>3 DEF N
  <2> QED
    BY <2>1, <2>3, <2>4, <2>10, <2>11, Zenon DEF N
<1> QED
  BY <1>1, <1>2, Zenon DEF PointerFits

\* The transfers of a command move what it has to move, each unit to its place.
LEMMA DataMoved ==
  ASSUME NEW p, PointerFits(p)
  PROVE  /\ p # NoPointer
         /\ UnitsOfAll(DataPieces(p)) = Whole(p, DataLength(p))
<1> DEFINE list == Regions(p)
           length == DataLength(p)
           t == ToSet(Transfers(list, 0, length))
<1>1. /\ p # NoPointer /\ length \in Nat /\ Regular(list)
      /\ length <= EndOf(list, Len(list))
      /\ \A i \in Nat : i \in Buckets(p) <=> Dropped(list, Len(list), i)
  BY BucketsDropped
<1> HIDE DEF list, length
<1>2. UnitsOfAll(t) = InPlace(KeptUnits(list, Len(list), length))
  BY <1>1, TransfersMove
<1>3. KeptUnits(list, Len(list), length) = (0 .. length - 1) \ Buckets(p)
  <2>1. \A i \in 0 .. length - 1 : i \in Nat
    BY <1>1
  <2> QED
    BY <1>1, <2>1 DEF KeptUnits
<1>4. Whole(p, length) = InPlace((0 .. length - 1) \ Buckets(p))
  BY Zenon DEF Whole, InPlace
<1>5. DataPieces(p) = IF t = {} THEN {Piece("immediate")} ELSE t
  BY <1>1, Zenon DEF DataPieces, list, length
<1> HIDE DEF t
<1>6. UnitsOfAll(DataPieces(p)) = UnitsOfAll(t)
  <2>1. CASE t = {}
    <3> DEFINE none == Piece("immediate")
    <3>1. none.size = 0
      BY DEF Piece, Transfer
    <3> HIDE DEF none
    <3>2. UnitsOf(none) = {}
      BY <3>1 DEF UnitsOf
    <3>3. UnitsOfAll({none}) = {} /\ UnitsOfAll({}) = {}
      BY <3>2 DEF UnitsOfAll
    <3> QED
      BY <1>5, <2>1, <3>3, Zenon DEF none
  <2>2. CASE t # {}
    BY <1>5, <2>2, Zenon
  <2> QED
    BY <2>1, <2>2
<1> QED
  BY <1>1, <1>2, <1>3, <1>4, <1>6, Zenon DEF length

-----------------------------------------------------------------------------
(* What a command has moved, and what its stages will move. *)

DataStages == {"in", "out", "in, HIL", "out, HIL"}
AnyStage ==
  StageName \cup DataStages \cup {"HIL", "queue", "refused", "SUBMIT_COMMAND"}

\* A stage from number k on moves the data.
MovesFrom(stages, k) == \E i \in k .. Len(stages) : stages[i] \in DataStages

\* All that a command has to move.
Needed(r) == Whole(r.pointer, DataLength(r.pointer))

\* A command that was not answered, and moved no unit that it should not.
Carries(r) ==
  /\ IsCommand(r) /\ r.stages \in Seq(AnyStage) /\ r.answers = 0
  /\ r.pointer # NoPointer => UnitsOfAll(r.data) = Needed(r) /\ r.moved \subseteq Needed(r)

\* One of which stage number k is the next: what is missing is for a stage to
\* move from then on, unless it failed.
Owes(r, k) ==
  r.pointer # NoPointer /\ r.status = "success" => MovesFrom(r.stages, k) \/ r.moved = Needed(r)
Ready(r) == Carries(r) /\ Owes(r, 1)
Ended(r) == Carries(r) /\ Owes(r, 2) /\ r.stages # <<>>

\* A command at any time: what is missing is for the pieces that are under way, or
\* for a later stage.
Moving(r) ==
  /\ r.moved \cup UnitsOfAll(r.under) \subseteq Needed(r)
  /\ r.status = "success" =>
       MovesFrom(r.stages, 2) \/ r.moved \cup UnitsOfAll(r.under) = Needed(r)
Fulfils(r) ==
  /\ IsCommand(r) /\ r.stages \in Seq(AnyStage) /\ r.answers \in {0, 1}
  /\ r.answers = 1 => r.stages = <<>> /\ r.under = {}
  /\ r.pointer # NoPointer => UnitsOfAll(r.data) = Needed(r) /\ Moving(r)

\* What is answered was done.
LEMMA FulfilledInFull ==
  ASSUME NEW r, Fulfils(r), r.answers > 0
  PROVE  /\ r.answers = 1 /\ r.under = {} /\ r.stages = <<>>
         /\ r.status = "success" /\ r.pointer # NoPointer
              => r.moved = Whole(r.pointer, DataLength(r.pointer))
<1>1. r.answers = 1
  BY DEF Fulfils
<1>2. r.stages = <<>> /\ r.under = {}
  BY <1>1, Zenon DEF Fulfils
<1>3. ~MovesFrom(<<>>, 2)
  BY DEF MovesFrom
<1>4. r.moved \cup UnitsOfAll({}) = r.moved
  BY DEF UnitsOfAll
<1> QED
  BY <1>1, <1>2, <1>3, <1>4, Zenon DEF Fulfils, Moving, Needed

\* Nothing but a transfer moves data.
LEMMA PieceUnits ==
  ASSUME NEW kind_
  PROVE  UnitsOf(Piece(kind_)) = {} /\ UnitsOfAll({Piece(kind_)}) = {}
<1> DEFINE none == Piece(kind_)
<1>1. none.size = 0
  BY DEF Piece, Transfer
<1> HIDE DEF none
<1>2. UnitsOf(none) = {}
  BY <1>1 DEF UnitsOf
<1>3. UnitsOfAll({none}) = {}
  BY <1>2 DEF UnitsOfAll
<1> QED
  BY <1>2, <1>3 DEF none

\* The pieces of a stage.
LEMMA PiecesUnits ==
  ASSUME NEW r
  PROVE  UnitsOfAll(Pieces(r)) = IF Head(r.stages) \in DataStages THEN UnitsOfAll(r.data) ELSE {}
<1>1. CASE Head(r.stages) \in {"in", "out"}
  <2>1. Pieces(r) = r.data /\ Head(r.stages) \in DataStages
    BY <1>1 DEF Pieces, DataStages
  <2> QED
    BY <2>1
<1>2. CASE Head(r.stages) \in {"in, HIL", "out, HIL"}
  <2>1. Pieces(r) = r.data \cup {Piece("HIL")} /\ Head(r.stages) \in DataStages
    BY <1>2 DEF Pieces, DataStages
  <2>2. UnitsOf(Piece("HIL")) = {}
    BY PieceUnits
  <2>3. UnitsOfAll(r.data \cup {Piece("HIL")}) = UnitsOfAll(r.data)
    BY <2>2 DEF UnitsOfAll
  <2> QED
    BY <2>1, <2>3
<1>3. CASE Head(r.stages) \notin DataStages
  <2>1. ~(Head(r.stages) \in {"in", "out"}) /\ ~(Head(r.stages) \in {"in, HIL", "out, HIL"})
    BY <1>3 DEF DataStages
  <2>2. Pieces(r) = {Piece(Head(r.stages))}
    BY <2>1, Zenon DEF Pieces
  <2>3. UnitsOfAll({Piece(Head(r.stages))}) = {}
    BY PieceUnits, Zenon
  <2> QED
    BY <1>3, <2>2, <2>3, Zenon
<1> QED
  BY <1>1, <1>2, <1>3 DEF DataStages

\* What begins does what it has to.
LEMMA BeginFulfils ==
  ASSUME NEW r, Ready(r)
  PROVE  Fulfils(Begin(r))
<1>1. IsCommand(r) /\ r.stages \in Seq(AnyStage) /\ r.answers = 0
  BY DEF Ready, Carries
<1>2. r.pointer # NoPointer => /\ UnitsOfAll(r.data) = Needed(r) /\ r.moved \subseteq Needed(r)
                               /\ r.status = "success" =>
                                    MovesFrom(r.stages, 1) \/ r.moved = Needed(r)
  BY Zenon DEF Ready, Carries, Owes
<1>3. CASE r.stages = <<>>
  <2>1. PICK e : e = Begin(r)
    OBVIOUS
  <2>2. e = [op |-> r.op, arg |-> r.arg, pointer |-> r.pointer, data |-> r.data,
             stages |-> r.stages, under |-> {}, moved |-> r.moved,
             status |-> r.status, answers |-> r.answers + 1]
    <3>1. e = [r EXCEPT !.under = {}, !.answers = r.answers + 1]
      BY <1>3, <2>1, Zenon DEF Begin
    <3> QED
      BY <1>1, <3>1 DEF IsCommand
  <2>3. /\ IsCommand(e) /\ e.pointer = r.pointer /\ e.data = r.data /\ e.stages = <<>>
        /\ e.under = {} /\ e.moved = r.moved /\ e.status = r.status /\ e.answers = 1
    BY <1>1, <1>3, <2>2 DEF IsCommand
  <2>4. ~MovesFrom(<<>>, 1)
    BY DEF MovesFrom
  <2>5. UnitsOfAll({}) = {}
    BY DEF UnitsOfAll
  <2>6. Needed(e) = Needed(r)
    BY <2>3, Zenon DEF Needed
  <2>7. e.pointer # NoPointer => Moving(e)
    <3>1. e.moved \cup UnitsOfAll(e.under) = r.moved
      BY <2>3, <2>5
    <3> QED
      BY <1>2, <1>3, <2>3, <2>4, <2>6, <3>1, Zenon DEF Moving
  <2>8. e.stages \in Seq(AnyStage) /\ e.answers \in {0, 1}
    BY <2>3
  <2> QED
    BY <1>2, <2>1, <2>3, <2>6, <2>7, <2>8, Zenon DEF Fulfils
<1>4. CASE r.stages # <<>>
  <2>1. PICK e : e = Begin(r)
    OBVIOUS
  <2>2. e = [op |-> r.op, arg |-> r.arg, pointer |-> r.pointer, data |-> r.data,
             stages |-> r.stages, under |-> Pieces(r), moved |-> r.moved,
             status |-> r.status, answers |-> r.answers]
    <3>1. e = [r EXCEPT !.under = Pieces(r)]
      BY <1>4, <2>1, Zenon DEF Begin
    <3> QED
      BY <1>1, <3>1 DEF IsCommand
  <2>3. /\ IsCommand(e) /\ e.pointer = r.pointer /\ e.data = r.data /\ e.stages = r.stages
        /\ e.under = Pieces(r) /\ e.moved = r.moved /\ e.status = r.status /\ e.answers = 0
    BY <1>1, <2>2 DEF IsCommand
  <2>4. Needed(e) = Needed(r)
    BY <2>3, Zenon DEF Needed
  <2>5. UnitsOfAll(e.under) = IF Head(r.stages) \in DataStages THEN UnitsOfAll(r.data) ELSE {}
    BY <2>3, PiecesUnits, Zenon
  <2>6. MovesFrom(r.stages, 1) => Head(r.stages) \in DataStages \/ MovesFrom(r.stages, 2)
    <3>1. Head(r.stages) = r.stages[1] /\ Len(r.stages) \in Nat
      BY <1>1, <1>4, HeadTailProperties, LenProperties
    <3>2. \A i \in 1 .. Len(r.stages) : i = 1 \/ i \in 2 .. Len(r.stages)
      BY <3>1
    <3> QED
      BY <3>1, <3>2, Zenon DEF MovesFrom
  <2>7. ASSUME r.pointer # NoPointer PROVE Moving(e)
    <3>1. /\ UnitsOfAll(r.data) = Needed(r) /\ r.moved \subseteq Needed(r)
          /\ r.status = "success" => MovesFrom(r.stages, 1) \/ r.moved = Needed(r)
      BY <1>2, <2>7, Zenon
    <3>2. CASE Head(r.stages) \in DataStages
      <4>1. e.moved \cup UnitsOfAll(e.under) = Needed(e)
        BY <2>3, <2>4, <2>5, <3>1, <3>2
      <4> QED
        BY <4>1 DEF Moving
    <3>3. CASE Head(r.stages) \notin DataStages
      <4>1. e.moved \cup UnitsOfAll(e.under) = r.moved
        BY <2>3, <2>5, <3>3
      <4> QED
        BY <2>3, <2>4, <2>6, <3>1, <3>3, <4>1, Zenon DEF Moving
    <3> QED
      BY <3>2, <3>3
  <2>8. e.answers \in {0, 1} /\ e.answers # 1
    BY <2>3
  <2> QED
    BY <1>1, <1>2, <2>1, <2>3, <2>4, <2>7, <2>8, Zenon DEF Fulfils
<1> QED
  BY <1>3, <1>4

\* An error ends what was not answered.
LEMMA FailFulfils ==
  ASSUME NEW r, Carries(r)
  PROVE  Fulfils(Fail(r))
<1>1. PICK e : e = [r EXCEPT !.stages = <<>>, !.status = "error"]
  OBVIOUS
<1>2. IsCommand(r) /\ r.answers = 0
  BY DEF Carries
<1>3. e = [op |-> r.op, arg |-> r.arg, pointer |-> r.pointer, data |-> r.data,
           stages |-> <<>>, under |-> r.under, moved |-> r.moved,
           status |-> "error", answers |-> r.answers]
  BY <1>1, <1>2, EndedFields, Zenon
<1>4. /\ IsCommand(e) /\ e.pointer = r.pointer /\ e.data = r.data /\ e.stages = <<>>
      /\ e.moved = r.moved /\ e.status # "success" /\ e.answers = 0
  BY <1>2, <1>3 DEF IsCommand
<1>5. Needed(e) = Needed(r)
  BY <1>4, Zenon DEF Needed
<1>6. e.stages \in Seq(AnyStage)
  BY <1>4
<1>7. Ready(e)
  BY <1>4, <1>5, <1>6, Zenon DEF Ready, Carries, Owes
<1>8. Fail(r) = Begin(e)
  BY <1>1, Zenon DEF Fail
<1> QED
  BY <1>7, <1>8, BeginFulfils, Zenon

\* What follows a stage that ended.
LEMMA Advanced ==
  ASSUME NEW r, Ended(r), NEW e, e = [r EXCEPT !.stages = Tail(r.stages)]
  PROVE  Ready(e)
<1>1. /\ IsCommand(r) /\ r.answers = 0 /\ r.stages \in Seq(AnyStage) /\ r.stages # <<>>
  BY DEF Ended, Carries
<1>2. e = [op |-> r.op, arg |-> r.arg, pointer |-> r.pointer, data |-> r.data,
           stages |-> Tail(r.stages), under |-> r.under, moved |-> r.moved,
           status |-> r.status, answers |-> r.answers]
  BY <1>1, AdvancedFields, Zenon
<1>3. /\ IsCommand(e) /\ e.pointer = r.pointer /\ e.data = r.data
      /\ e.stages = Tail(r.stages)
      /\ e.moved = r.moved /\ e.status = r.status /\ e.answers = 0
  BY <1>1, <1>2 DEF IsCommand
<1>4. Needed(e) = Needed(r)
  BY <1>3, Zenon DEF Needed
<1>5. /\ Tail(r.stages) \in Seq(AnyStage) /\ Len(r.stages) \in Nat
      /\ Len(Tail(r.stages)) = Len(r.stages) - 1
      /\ \A i \in 1 .. Len(Tail(r.stages)) : Tail(r.stages)[i] = r.stages[i + 1]
  BY <1>1, HeadTailProperties, LenProperties
<1>6. MovesFrom(r.stages, 2) => MovesFrom(e.stages, 1)
  <2> SUFFICES ASSUME NEW i \in 2 .. Len(r.stages), r.stages[i] \in DataStages
               PROVE  MovesFrom(Tail(r.stages), 1)
    BY <1>3, Zenon DEF MovesFrom
  <2>1. i - 1 \in 1 .. Len(Tail(r.stages)) /\ (i - 1) + 1 = i
    <3>1. PICK n, m : n = Len(r.stages) /\ m = Len(Tail(r.stages))
      OBVIOUS
    <3>2. n \in Nat /\ m = n - 1 /\ i \in 2 .. n
      BY <1>5, <3>1
    <3>3. i - 1 \in 1 .. m /\ (i - 1) + 1 = i
      BY ONLY <3>2, SMT
    <3> QED
      BY <3>1, <3>3, Zenon
  <2>2. Tail(r.stages)[i - 1] = r.stages[i]
    BY <1>5, <2>1
  <2> QED
    BY <2>1, <2>2, Zenon DEF MovesFrom
<1> QED
  BY <1>3, <1>4, <1>5, <1>6, Zenon DEF Ready, Ended, Carries, Owes

LEMMA NextStageFulfils ==
  ASSUME NEW r, Ended(r)
  PROVE  Fulfils(NextStage(r)) /\ Fulfils(Fail(r))
<1>1. PICK e : e = [r EXCEPT !.stages = Tail(r.stages)]
  OBVIOUS
<1>2. Ready(e)
  BY <1>1, Advanced, Zenon
<1>3. NextStage(r) = Begin(e)
  BY <1>1, Zenon DEF NextStage
<1>4. Carries(r)
  BY DEF Ended
<1> QED
  BY <1>2, <1>3, <1>4, BeginFulfils, FailFulfils, Zenon

\* A piece that ends takes nothing from what was moved or is under way.
LEMMA PieceMoved ==
  ASSUME NEW q, Fulfils(q), NEW piece \in q.under, NEW r, r = EndPiece(q, piece)
  PROVE  /\ Fulfils(r) /\ q.answers = 0 /\ r.stages = q.stages
         /\ r.under = {} /\ q.stages # <<>> => Ended(r)
<1>1. /\ IsCommand(q) /\ q.stages \in Seq(AnyStage) /\ q.answers \in {0, 1} /\ q.answers # 1
      /\ q.pointer # NoPointer => UnitsOfAll(q.data) = Needed(q) /\ Moving(q)
  BY DEF Fulfils
<1>2. q.answers = 0
  BY <1>1
<1>3. r = [op |-> q.op, arg |-> q.arg, pointer |-> q.pointer, data |-> q.data,
           stages |-> q.stages, under |-> q.under \ {piece},
           moved |-> q.moved \cup UnitsOf(piece),
           status |-> q.status, answers |-> q.answers]
  BY <1>1, MovedFields, Zenon DEF EndPiece
<1>4. /\ IsCommand(r) /\ r.pointer = q.pointer /\ r.data = q.data /\ r.stages = q.stages
      /\ r.under = q.under \ {piece} /\ r.moved = q.moved \cup UnitsOf(piece)
      /\ r.status = q.status /\ r.answers = 0
  BY <1>2, <1>3 DEF IsCommand
<1>5. Needed(r) = Needed(q)
  BY <1>4, Zenon DEF Needed
<1>6. r.moved \cup UnitsOfAll(r.under) = q.moved \cup UnitsOfAll(q.under)
  <2>1. UnitsOfAll(q.under) = UnitsOf(piece) \cup UnitsOfAll(q.under \ {piece})
    BY DEF UnitsOfAll
  <2> HIDE DEF UnitsOfAll
  <2>2. r.moved \cup UnitsOfAll(r.under)
          = (q.moved \cup UnitsOf(piece)) \cup UnitsOfAll(q.under \ {piece})
    BY <1>4, Zenon
  <2> QED
    BY <2>1, <2>2
<1>7. q.pointer # NoPointer => UnitsOfAll(r.data) = Needed(r) /\ Moving(r)
  BY <1>1, <1>4, <1>5, <1>6, Zenon DEF Moving
<1>8. r.answers \in {0, 1} /\ r.answers # 1
  BY <1>4
<1>9. Fulfils(r)
  BY <1>1, <1>4, <1>7, <1>8, Zenon DEF Fulfils
<1>10. ASSUME r.under = {}, q.stages # <<>> PROVE Ended(r)
  <2>1. r.moved \cup UnitsOfAll(r.under) = r.moved
    BY <1>10 DEF UnitsOfAll
  <2>2. r.pointer # NoPointer => /\ r.moved \subseteq Needed(r)
                                 /\ r.status = "success" =>
                                      MovesFrom(r.stages, 2) \/ r.moved = Needed(r)
    BY <1>4, <1>7, <2>1, Zenon DEF Moving
  <2> QED
    BY <1>1, <1>4, <1>7, <1>10, <2>2, Zenon DEF Ended, Carries, Owes
<1> QED
  BY <1>2, <1>4, <1>9, <1>10, Zenon

LEMMA StageFulfilled ==
  ASSUME NEW s, Fulfils(command[s]), NEW stage, NEW r \in StageEnded(s, stage)
  PROVE  Ended(r)
<1>1. AtStage(s, {stage})
  BY Zenon DEF StageEnded
<1>2. PICK piece \in command[s].under : r = EndPiece(command[s], piece) /\ r.under = {}
  BY <1>1, Zenon DEF StageEnded
<1>3. command[s].stages # <<>>
  BY <1>1, Zenon DEF AtStage
<1> QED
  BY <1>2, <1>3, PieceMoved, Zenon

-----------------------------------------------------------------------------
(* The stages of a command that moves data. *)

WithData(x) == x \in Seq(AnyStage) /\ MovesFrom(x, 1)

\* Stages that move the data, if there is any.
Suits(p, x) == x \in Seq(AnyStage) /\ (p = NoPointer \/ (PointerFits(p) /\ MovesFrom(x, 1)))

LEMMA SuitsData ==
  ASSUME NEW p, PointerFits(p), NEW x, WithData(x)
  PROVE  Suits(p, x)
BY Zenon DEF Suits, WithData

LEMMA SuitsNone ==
  ASSUME NEW x \in Seq(AnyStage)
  PROVE  Suits(NoPointer, x)
BY DEF Suits

LEMMA DataJoin ==
  ASSUME NEW a \in Seq(AnyStage), NEW b \in Seq(AnyStage), MovesFrom(a, 1) \/ MovesFrom(b, 1)
  PROVE  WithData(a \o b)
<1> DEFINE q == a \o b
<1>1. PICK n, m : n = Len(a) /\ m = Len(b)
  OBVIOUS
<1>2. n \in Nat /\ m \in Nat
  BY <1>1, LenProperties
<1>3. /\ q \in Seq(AnyStage) /\ Len(q) = n + m
      /\ \A i \in 1 .. n + m : q[i] = IF i <= n THEN a[i] ELSE b[i - n]
  BY <1>1, ConcatProperties
<1> HIDE DEF q
<1>4. CASE MovesFrom(a, 1)
  <2>1. PICK i \in 1 .. n : a[i] \in DataStages
    BY <1>1, <1>4, Zenon DEF MovesFrom
  <2>2. i \in 1 .. n + m /\ i <= n
    BY <1>2
  <2>3. q[i] = a[i]
    BY <1>3, <2>2, Zenon
  <2>4. i \in 1 .. Len(q)
    BY <1>3, <2>2, Zenon
  <2> QED
    BY <1>3, <2>1, <2>3, <2>4, Zenon DEF WithData, MovesFrom, q
<1>5. CASE MovesFrom(b, 1)
  <2>1. PICK j \in 1 .. m : b[j] \in DataStages
    BY <1>1, <1>5, Zenon DEF MovesFrom
  <2>2. PICK i : i = n + j
    OBVIOUS
  <2>3. i \in 1 .. n + m /\ ~(i <= n) /\ i - n = j
    BY <1>2, <2>2
  <2>4. q[i] = b[j]
    BY <1>3, <2>3, Zenon
  <2>5. i \in 1 .. Len(q)
    BY <1>3, <2>3, Zenon
  <2> QED
    BY <1>3, <2>1, <2>4, <2>5, Zenon DEF WithData, MovesFrom, q
<1> QED
  BY <1>4, <1>5

LEMMA DataBehind ==
  ASSUME NEW a \in Seq(AnyStage), NEW b, WithData(b)
  PROVE  WithData(a \o b)
BY DataJoin, Zenon DEF WithData

LEMMA DataBefore ==
  ASSUME NEW a, WithData(a), NEW b \in Seq(AnyStage)
  PROVE  WithData(a \o b)
BY DataJoin, Zenon DEF WithData

LEMMA StageStrings ==
  ASSUME NEW x
  PROVE  OnceFlash(x) \/ NoFlash(x) => x \in Seq(AnyStage)
<1>1. StageName \subseteq AnyStage
  BY DEF AnyStage
<1>2. OnceFlash(x) \/ NoFlash(x) => x \in Seq(StageName)
  BY NoFlashOnce, Zenon DEF OnceFlash
<1> QED
  BY <1>1, <1>2, SeqMonotonic

LEMMA PointerStrings ==
  ASSUME NEW p \in Pointers
  PROVE  PointerStages(p) \in Seq(AnyStage)
BY PointerNoFlash, StageStrings, Zenon

LEMMA DataEnds ==
  /\ WithData(<<"in">>) /\ WithData(<<"out">>)
  /\ WithData(<<"job", "in">>) /\ WithData(<<"job", "in, HIL">>) /\ WithData(<<"job", "out, HIL">>)
  /\ WithData(<<"job", "in", "HIL">>)
  /\ WithData(<<"pointer", "in">>) /\ WithData(<<"in", "completion">>)
  /\ WithData(<<"completion", "out">>) /\ WithData(<<"pointer", "job", "in", "completion">>)
<1>1. ASSUME NEW x \in Seq(AnyStage), NEW i \in 1 .. Len(x), x[i] \in DataStages
      PROVE  WithData(x)
  BY <1>1, Zenon DEF WithData, MovesFrom
<1>2. WithData(<<"in">>) /\ WithData(<<"out">>)
  <2>1. <<"in">> \in Seq(AnyStage) /\ 1 \in 1 .. Len(<<"in">>) /\ <<"in">>[1] \in DataStages
    BY DEF DataStages, AnyStage, StageName
  <2>2. <<"out">> \in Seq(AnyStage) /\ 1 \in 1 .. Len(<<"out">>) /\ <<"out">>[1] \in DataStages
    BY DEF DataStages, AnyStage, StageName
  <2> QED
    BY <1>1, <2>1, <2>2, Zenon
<1>3. ASSUME NEW a \in AnyStage, NEW b \in AnyStage, {a, b} \cap DataStages # {}
      PROVE  WithData(<<a, b>>)
  <2>1. PICK x : x = <<a, b>>
    OBVIOUS
  <2>2. /\ x \in Seq(AnyStage) /\ x[1] = a /\ x[2] = b /\ 1 \in 1 .. Len(x) /\ 2 \in 1 .. Len(x)
    BY <2>1
  <2>3. x[1] \in DataStages \/ x[2] \in DataStages
    BY <1>3, <2>2
  <2> QED
    BY <1>1, <2>1, <2>2, <2>3, Zenon
<1>4. /\ {"job", "in"} \cap DataStages # {} /\ {"job", "in, HIL"} \cap DataStages # {}
      /\ {"job", "out, HIL"} \cap DataStages # {} /\ {"pointer", "in"} \cap DataStages # {}
      /\ {"in", "completion"} \cap DataStages # {} /\ {"completion", "out"} \cap DataStages # {}
  BY DEF DataStages
<1>5. /\ "job" \in AnyStage /\ "in" \in AnyStage /\ "out" \in AnyStage /\ "pointer" \in AnyStage
      /\ "in, HIL" \in AnyStage /\ "out, HIL" \in AnyStage /\ "completion" \in AnyStage
  BY DEF AnyStage, StageName, DataStages
<1>6. /\ WithData(<<"job", "in">>) /\ WithData(<<"job", "in, HIL">>)
      /\ WithData(<<"job", "out, HIL">>) /\ WithData(<<"pointer", "in">>)
      /\ WithData(<<"in", "completion">>) /\ WithData(<<"completion", "out">>)
  BY <1>3, <1>4, <1>5, Zenon
<1>7. WithData(<<"job", "in", "HIL">>)
  <2>1. PICK x : x = <<"job", "in", "HIL">>
    OBVIOUS
  <2>2. x \in Seq(AnyStage) /\ 2 \in 1 .. Len(x) /\ x[2] \in DataStages
    BY <2>1 DEF DataStages, AnyStage, StageName
  <2> QED
    BY <1>1, <2>1, <2>2, Zenon
<1>8. WithData(<<"pointer", "job", "in", "completion">>)
  <2>1. PICK x : x = <<"pointer", "job", "in", "completion">>
    OBVIOUS
  <2>2. x \in Seq(AnyStage) /\ 3 \in 1 .. Len(x) /\ x[3] \in DataStages
    BY <2>1 DEF DataStages, AnyStage, StageName
  <2> QED
    BY <1>1, <2>1, <2>2, Zenon
<1> QED
  BY <1>2, <1>6, <1>7, <1>8, Zenon

\* What reads its pointer first.
LEMMA PointerThenData ==
  ASSUME NEW p \in Pointers, NEW x, WithData(x)
  PROVE  WithData(PointerStages(p) \o x)
BY PointerStrings, DataBehind, Zenon

-----------------------------------------------------------------------------
(* The commands of the host. *)

\* In the lists of a PRP pointer nothing follows the first one.
ListsFit ==
  \A p \in Pointers :
    p.type = "PRP" /\ NeedsList(p) => p.size - getPRPSize(p.offset) <= ListLength * PageSize

LEMMA HostPointers ==
  ASSUME ListsFit, NEW p \in Pointers
  PROVE  PointerFits(p)
<1>1. CASE p.type = "PRP"
  <2>1. p.size \in Nat \ {0} /\ p.offset \in 0 .. PageSize - 1
    BY <1>1, NvmeCommandAssumption
  <2>2. NeedsList(p) => p.size - getPRPSize(p.offset) <= ListLength * PageSize
    BY <1>1, Zenon DEF ListsFit
  <2> QED
    BY <1>1, <2>1, <2>2, Zenon DEF PointerFits, PRPFits
<1>2. CASE p.type # "PRP"
  <2>1. p.type = "SGL" /\ p.segments \in Seq(Seq([length : Nat, ignore : BOOLEAN]))
    BY <1>2, NvmeCommandAssumption, Zenon
  <2> QED
    BY <2>1, Zenon DEF PointerFits, Descriptor
<1> QED
  BY <1>1, <1>2

LEMMA BaseFits == PointerFits(PRPBase(1))
<1>1. PICK p : p = PRPBase(1)
  OBVIOUS
<1>2. p.type = "PRP" /\ p.size = 1 /\ p.offset = 0 /\ p.contiguous
  BY <1>1 DEF PRPBase
<1>3. ~NeedsList(p)
  BY <1>2, Zenon DEF NeedsList
<1>4. p.size \in Nat \ {0} /\ p.offset \in 0 .. PageSize - 1
  BY <1>2, DataPointerAssumption
<1> QED
  BY <1>1, <1>2, <1>3, <1>4, Zenon DEF PointerFits, PRPFits

\* A command when it comes.
LEMMA NewReady ==
  ASSUME NEW op, NEW arg, NEW p, NEW x, Suits(p, x), NEW r, r = Command(op, arg, p, x)
  PROVE  Ready(r)
<1>1. /\ IsCommand(r) /\ r.pointer = p /\ r.data = DataPieces(p) /\ r.stages = x
      /\ r.moved = {} /\ r.status = "success" /\ r.answers = 0
  BY DEF Command, IsCommand
<1>2. x \in Seq(AnyStage)
  BY Zenon DEF Suits
<1>3. CASE p = NoPointer
  BY <1>1, <1>2, <1>3, Zenon DEF Ready, Carries, Owes
<1>4. CASE p # NoPointer
  <2>1. PointerFits(p) /\ MovesFrom(x, 1)
    BY <1>4, Zenon DEF Suits
  <2>2. UnitsOfAll(r.data) = Needed(r)
    BY <1>1, <2>1, DataMoved, Zenon DEF Needed
  <2>3. r.moved \subseteq Needed(r)
    BY <1>1
  <2> QED
    BY <1>1, <1>2, <2>1, <2>2, <2>3, Zenon DEF Ready, Carries, Owes
<1> QED
  BY <1>3, <1>4

LEMMA NewFulfils ==
  ASSUME NEW op, NEW arg, NEW p, NEW x, Suits(p, x)
  PROVE  Fulfils(Begin(Command(op, arg, p, x)))
<1>1. PICK r : r = Command(op, arg, p, x)
  OBVIOUS
<1>2. Ready(r)
  BY <1>1, NewReady, Zenon
<1> QED
  BY <1>1, <1>2, BeginFulfils, Zenon

\* One that is answered at once, or by nobody.
LEMMA NewWithout ==
  ASSUME NEW op, NEW arg, NEW x \in Seq(AnyStage)
  PROVE  /\ Fulfils(Begin(Command(op, arg, NoPointer, x)))
         /\ Fulfils(Fail(Command(op, arg, NoPointer, x)))
         /\ Fulfils(Command(op, arg, NoPointer, x))
<1>1. PICK r : r = Command(op, arg, NoPointer, x)
  OBVIOUS
<1>2. Suits(NoPointer, x)
  BY SuitsNone
<1>3. Ready(r)
  BY <1>1, <1>2, NewReady, Zenon
<1>4. /\ IsCommand(r) /\ r.stages = x /\ r.pointer = NoPointer /\ r.answers = 0
  BY <1>1 DEF Command, IsCommand
<1>5. r.answers \in {0, 1} /\ r.answers # 1
  BY <1>4
<1>6. Fulfils(r)
  BY <1>4, <1>5, Zenon DEF Fulfils
<1>7. Fulfils(Begin(r)) /\ Fulfils(Fail(r))
  BY <1>3, BeginFulfils, FailFulfils, Zenon DEF Ready
<1> QED
  BY <1>1, <1>6, <1>7, Zenon

\* One that is refused, or ends with an error, with a status or an argument of
\* its own.
LEMMA StatusReady ==
  ASSUME NEW r, Ready(r), NEW e, e = [r EXCEPT !.status = "error"]
  PROVE  Ready(e)
<1>1. IsCommand(r)
  BY DEF Ready, Carries
<1>2. /\ IsCommand(e) /\ e.pointer = r.pointer /\ e.data = r.data /\ e.stages = r.stages
      /\ e.moved = r.moved /\ e.status # "success" /\ e.answers = r.answers
  <2>1. e = [op |-> r.op, arg |-> r.arg, pointer |-> r.pointer, data |-> r.data,
             stages |-> r.stages, under |-> r.under, moved |-> r.moved,
             status |-> "error", answers |-> r.answers]
    BY <1>1 DEF IsCommand
  <2> QED
    BY <2>1 DEF IsCommand
<1>3. Needed(e) = Needed(r)
  BY <1>2, Zenon DEF Needed
<1> QED
  BY <1>2, <1>3, Zenon DEF Ready, Carries, Owes

LEMMA ArgumentFulfils ==
  ASSUME NEW r, Fulfils(r), NEW x, NEW e, e = [r EXCEPT !.arg = x]
  PROVE  Fulfils(e)
<1>1. IsCommand(r)
  BY DEF Fulfils
<1>2. /\ IsCommand(e) /\ e.pointer = r.pointer /\ e.data = r.data /\ e.stages = r.stages
      /\ e.under = r.under /\ e.moved = r.moved /\ e.status = r.status
      /\ e.answers = r.answers
  <2>1. e = [op |-> r.op, arg |-> x, pointer |-> r.pointer, data |-> r.data,
             stages |-> r.stages, under |-> r.under, moved |-> r.moved,
             status |-> r.status, answers |-> r.answers]
    BY <1>1 DEF IsCommand
  <2> QED
    BY <2>1 DEF IsCommand
<1>3. Needed(e) = Needed(r)
  BY <1>2, Zenon DEF Needed
<1> QED
  BY <1>2, <1>3, Zenon DEF Fulfils, Moving

LEMMA RefusedFulfils ==
  ASSUME NEW r, IsCommand(r), r.stages \in Seq(AnyStage), r.answers = 0,
         NEW e, e = [r EXCEPT !.pointer = NoPointer]
  PROVE  Fulfils(Fail(e))
<1>1. IsCommand(e) /\ e.stages = r.stages /\ e.pointer = NoPointer /\ e.answers = 0
  <2>1. e = [op |-> r.op, arg |-> r.arg, pointer |-> NoPointer, data |-> r.data,
             stages |-> r.stages, under |-> r.under, moved |-> r.moved,
             status |-> r.status, answers |-> r.answers]
    BY DEF IsCommand
  <2> QED
    BY <2>1 DEF IsCommand
<1>2. Carries(e)
  BY <1>1, Zenon DEF Carries
<1> QED
  BY <1>2, FailFulfils

-----------------------------------------------------------------------------
(* Every command does what it has to. *)

FullInv ==
  /\ command = [s \in Slot |-> command[s]]
  /\ \A s \in Slot : Fulfils(command[s])

LEMMA SlotFulfils ==
  ASSUME FullInv, NEW s, NEW x, s \in Slot => Fulfils(x),
         command' = [command EXCEPT ![s] = x]
  PROVE  FullInv'
<1>1. command' = [t \in Slot |-> IF t = s THEN x ELSE command[t]]
  BY DEF FullInv
<1>2. \A t \in Slot : command'[t] = IF t = s THEN x ELSE command[t]
  BY <1>1
<1>3. \A t \in Slot : Fulfils(command'[t])
  BY <1>2, Zenon DEF FullInv
<1>4. command' = [t \in Slot |-> command'[t]]
  BY <1>1
<1>5. (\A t \in Slot : Fulfils(command[t]))'
  BY <1>3, Zenon DEF Fulfils, Moving, Needed, MovesFrom, UnitsOfAll, IsCommand
<1> QED
  BY <1>4, <1>5, Zenon DEF FullInv

LEMMA SubmitFulfils ==
  ASSUME FullInv, NEW s, NEW x, Fulfils(x), Submit(s, x)
  PROVE  FullInv'
<1>1. command' = [command EXCEPT ![s] = x]
  BY DEF Submit
<1> QED
  BY <1>1, SlotFulfils, Zenon

\* A stage ends.
LEMMA StageFulfils ==
  ASSUME FullInv, NEW s \in Slot, NEW stage, NEW r \in StageEnded(s, stage)
  PROVE  Ended(r) /\ Fulfils(NextStage(r)) /\ Fulfils(Fail(r))
<1>1. Fulfils(command[s])
  BY DEF FullInv
<1>2. Ended(r)
  BY <1>1, StageFulfilled, Zenon
<1> QED
  BY <1>2, NextStageFulfils, Zenon

LEMMA PieceEndsFulfils ==
  ASSUME FullInv, NEW s \in Slot, PieceEnds(s)
  PROVE  FullInv'
<1>1. PICK piece, r :
        /\ piece \in command[s].under
        /\ r = EndPiece(command[s], piece) /\ command' = [command EXCEPT ![s] = r]
  BY Zenon DEF PieceEnds
<1>2. Fulfils(command[s])
  BY DEF FullInv
<1>3. Fulfils(r)
  BY <1>1, <1>2, PieceMoved, Zenon
<1> QED
  BY <1>1, <1>3, SlotFulfils, Zenon

LEMMA EndsFulfil ==
  ASSUME FullInv, NEW s \in Slot, NEW stage, NEW r \in StageEnded(s, stage),
         \/ command' = [command EXCEPT ![s] = NextStage(r)]
         \/ command' = [command EXCEPT ![s] = Fail(r)]
  PROVE  FullInv'
<1>1. Fulfils(NextStage(r)) /\ Fulfils(Fail(r))
  BY StageFulfils, Zenon
<1> QED
  BY <1>1, SlotFulfils, Zenon

LEMMA GoesOnFulfils ==
  ASSUME FullInv, NEW s \in Slot, NEW stages, GoesOn(s, stages)
  PROVE  FullInv'
<1>1. PICK r \in StageEnded(s, Head(command[s].stages)) :
        command' = [command EXCEPT ![s] = NextStage(r)]
  BY Zenon DEF GoesOn
<1> QED
  BY <1>1, EndsFulfil, Zenon

-----------------------------------------------------------------------------
(* The subsystem of an NVMe SSD. *)

LEMMA AdminFulfils ==
  ASSUME FullInv, ListsFit, NEW s,
         NEW op \in {"identify", "getLogPage", "deleteSQueue", "deleteCQueue", "abort",
                     "setFeatures", "getFeatures", "csd", "asyncEventReq"},
         AdminCommand(s, op)
  PROVE  FullInv'
<1>1. PICK p, nsid, r, x :
        /\ p \in IF Reads(op) THEN PointersFor(1) ELSE {NoPointer}
        /\ x = AdminStages(op, p)
        /\ r = Command(op, [nsid |-> nsid], p, x)
        /\ Submit(s, Came(r))
  BY Zenon DEF AdminCommand
<1>2. op # "namespaceLogPage"
  OBVIOUS
<1>3. Came(r) = Begin(r)
  <2>1. r.op = op
    BY <1>1 DEF Command
  <2> QED
    BY <1>2, <2>1, Zenon DEF Came
<1>4. Suits(p, x)
  <2>1. CASE op \in {"identify", "getLogPage"}
    <3>1. p \in Pointers
      BY <1>1, <2>1, PointersForIn DEF Reads
    <3>2. x = PointerStages(p) \o <<"out">>
      BY <1>1, <2>1 DEF AdminStages, identify, getLogPage
    <3>3. WithData(x)
      BY <3>1, <3>2, PointerThenData, DataEnds, Zenon
    <3> QED
      BY <3>1, <3>3, HostPointers, SuitsData, Zenon
  <2>2. CASE op \in {"deleteSQueue", "deleteCQueue", "abort", "setFeatures", "getFeatures",
                     "csd", "asyncEventReq"}
    <3>1. p = NoPointer
      BY <1>1, <2>2 DEF Reads
    <3>2. x = <<>>
      BY <1>1, <2>2 DEF AdminStages, deleteSQueue, deleteCQueue, abort, setFeatures,
                        getFeatures, csd, asyncEventReq
    <3>3. x \in Seq(AnyStage)
      BY <3>2
    <3> QED
      BY <3>1, <3>3, SuitsNone
  <2> QED
    BY <2>1, <2>2
<1>5. Fulfils(Begin(r))
  BY <1>1, <1>4, NewFulfils, Zenon
<1> QED
  BY <1>1, <1>3, <1>5, SubmitFulfils, Zenon

LEMMA ShortSequences ==
  /\ <<>> \in Seq(AnyStage) /\ <<"queue">> \in Seq(AnyStage) /\ <<"refused">> \in Seq(AnyStage)
  /\ <<"job", "HIL">> \in Seq(AnyStage) /\ <<"SUBMIT_COMMAND">> \in Seq(AnyStage)
  /\ <<"completion">> \in Seq(AnyStage)
<1>1. /\ "queue" \in AnyStage /\ "refused" \in AnyStage /\ "job" \in AnyStage
      /\ "HIL" \in AnyStage /\ "SUBMIT_COMMAND" \in AnyStage /\ "completion" \in AnyStage
  BY DEF AnyStage, StageName
<1> QED
  BY <1>1

LEMMA QueueFulfils ==
  ASSUME FullInv, NEW s, NEW op, NEW ret, Submit(s, QueueCommand(op, ret))
  PROVE  FullInv'
<1>1. Fulfils(QueueCommand(op, ret))
  BY NewWithout, ShortSequences, Zenon DEF QueueCommand
<1> QED
  BY <1>1, SubmitFulfils, Zenon

\* Commands that read something from the host first.
LEMMA TakesFulfils ==
  ASSUME FullInv, ListsFit, NEW s, NEW op, NEW arg, NEW p \in PointersFor(1),
         Submit(s, Begin(Command(op, arg, p, PointerStages(p) \o <<"in">>)))
  PROVE  FullInv'
<1>1. p \in Pointers
  BY PointersForIn
<1>2. WithData(PointerStages(p) \o <<"in">>)
  BY <1>1, PointerThenData, DataEnds, Zenon
<1>3. Suits(p, PointerStages(p) \o <<"in">>)
  BY <1>1, <1>2, HostPointers, SuitsData, Zenon
<1> QED
  BY <1>3, NewFulfils, SubmitFulfils, Zenon

LEMMA DeleteFulfils ==
  ASSUME FullInv, NEW s, NEW nsid, Delete(s, nsid)
  PROVE  FullInv'
<1>1. PICK r : r = Command("delete", <<>>, NoPointer, <<>>)
  OBVIOUS
<1>2. Submit(s, IF Named(nsid) = {} THEN Fail(r) ELSE Begin(r))
  BY <1>1, Zenon DEF Delete
<1>3. Fulfils(Begin(r)) /\ Fulfils(Fail(r))
  BY <1>1, NewWithout, ShortSequences, Zenon
<1>4. Submit(s, Fail(r)) \/ Submit(s, Begin(r))
  BY <1>2, Zenon
<1> QED
  BY <1>3, <1>4, SubmitFulfils, Zenon

LEMMA FormatFulfils ==
  ASSUME FullInv, NEW s, NEW nsid, NEW lba, FormatNVM(s, nsid, lba)
  PROVE  FullInv'
<1>1. PICK arg : arg = [nsid |-> nsid]
  OBVIOUS
<1>2. \/ Submit(s, Fail(Command("format", arg, NoPointer, <<>>)))
      \/ Submit(s, Begin(Command("format", arg, NoPointer, <<"job", "HIL">>)))
  BY <1>1, Zenon DEF FormatNVM
<1>3. /\ Fulfils(Fail(Command("format", arg, NoPointer, <<>>)))
      /\ Fulfils(Begin(Command("format", arg, NoPointer, <<"job", "HIL">>)))
  BY NewWithout, ShortSequences, Zenon
<1> QED
  BY <1>2, <1>3, SubmitFulfils, Zenon

\* submitCommand() for the I/O commands.
LEMMA IOFulfils ==
  ASSUME FullInv, ListsFit, NEW s, NEW nsid, NEW io \in IORequests, SubmitIO(s, nsid, io)
  PROVE  FullInv'
<1>1. PICK arg : arg = [nsid |-> nsid, io |-> io, request |-> Request(0, 0, 0, 0)]
  OBVIOUS
<1>2. \/ Submit(s, Fail(Command("io", arg, NoPointer, <<>>)))
      \/ \E p \in PointersOf(Find(nsid), io) :
           Submit(s, Begin(Command("io", arg, p, <<"SUBMIT_COMMAND">> \o IOStages(io.op, p))))
  BY <1>1, Zenon DEF SubmitIO
<1>3. CASE Submit(s, Fail(Command("io", arg, NoPointer, <<>>)))
  <2>1. Fulfils(Fail(Command("io", arg, NoPointer, <<>>)))
    BY NewWithout, ShortSequences, Zenon
  <2> QED
    BY <1>3, <2>1, SubmitFulfils, Zenon
<1>4. ASSUME NEW p \in PointersOf(Find(nsid), io),
             Submit(s, Begin(Command("io", arg, p, <<"SUBMIT_COMMAND">> \o IOStages(io.op, p))))
      PROVE  FullInv'
  <2>1. io.op \in {"flush", "write", "read", "compare", "datasetManagement"}
    BY SubsystemAssumption, Zenon
  <2>2. Suits(p, <<"SUBMIT_COMMAND">> \o IOStages(io.op, p))
    <3>1. CASE io.op = "flush"
      <4>1. p = NoPointer
        BY <1>4, <3>1 DEF PointersOf
      <4>2. IOStages(io.op, p) = <<"job", "HIL">>
        BY <3>1 DEF IOStages, flush
      <4>3. <<"SUBMIT_COMMAND">> \o <<"job", "HIL">> \in Seq(AnyStage)
        BY ShortSequences, ConcatProperties
      <4> QED
        BY <4>1, <4>2, <4>3, SuitsNone, Zenon
    <3>2. CASE io.op \in {"write", "read", "compare", "datasetManagement"}
      <4>1. p \in Pointers
        <5>1. \E n : p \in PointersFor(n)
          BY <1>4, <3>2 DEF PointersOf
        <5> QED
          BY <5>1, PointersForIn, Zenon
      <4>2. \/ IOStages(io.op, p) = PointerStages(p) \o <<"job", "in, HIL">>
            \/ IOStages(io.op, p) = PointerStages(p) \o <<"job", "out, HIL">>
            \/ IOStages(io.op, p) = PointerStages(p) \o <<"job", "in", "HIL">>
        BY <3>2 DEF IOStages, write, read, compare, datasetManagement
      <4>3. WithData(IOStages(io.op, p))
        BY <4>1, <4>2, PointerThenData, DataEnds, Zenon
      <4>4. WithData(<<"SUBMIT_COMMAND">> \o IOStages(io.op, p))
        BY <4>3, ShortSequences, DataBehind, Zenon
      <4> QED
        BY <4>1, <4>4, HostPointers, SuitsData, Zenon
    <3> QED
      BY <2>1, <3>1, <3>2
  <2> QED
    BY <1>4, <2>2, NewFulfils, SubmitFulfils, Zenon
<1> QED
  BY <1>2, <1>3, <1>4, Zenon

LEMMA HostFulfils ==
  ASSUME FullInv, ListsFit, "namespaceLogPage" \notin AdminOps, NEW s, SubsystemHost(s)
  PROVE  FullInv'
<1>1. CASE \E op \in AdminOps \cap {"identify", "getLogPage", "namespaceLogPage",
                              "deleteSQueue", "deleteCQueue", "abort", "setFeatures",
                              "getFeatures", "csd", "asyncEventReq"} : AdminCommand(s, op)
  <2>1. PICK op \in {"identify", "getLogPage", "deleteSQueue", "deleteCQueue", "abort",
                     "setFeatures", "getFeatures", "csd", "asyncEventReq"} :
          AdminCommand(s, op)
    BY <1>1
  <2> QED
    BY <2>1, AdminFulfils, Zenon
<1>2. CASE Has("createSQueue") /\ \E ret \in {0, 2} : createSQueue(s, ret)
  BY <1>2, QueueFulfils, Zenon DEF createSQueue
<1>3. CASE Has("createCQueue") /\ \E ret \in {0, 1} : createCQueue(s, ret)
  BY <1>3, QueueFulfils, Zenon DEF createCQueue
<1>4. CASE Has("create") /\ \E new \in NewNamespace : SubmitCreate(s, new)
  BY <1>4, TakesFulfils, Zenon DEF SubmitCreate
<1>5. CASE Has("delete") /\ \E nsid \in NSIDs : Delete(s, nsid)
  BY <1>5, DeleteFulfils, Zenon
<1>6. CASE Has("attach") /\ \E nsid \in NSIDs, sel \in {"attach", "detach"} :
                              SubmitAttachment(s, nsid, sel)
  BY <1>6, TakesFulfils, Zenon DEF SubmitAttachment
<1>7. CASE Has("format") /\ \E nsid \in NSIDs, lba \in LBASize : FormatNVM(s, nsid, lba)
  BY <1>7, FormatFulfils, Zenon
<1>8. CASE \E nsid \in NSIDs, io \in IORequests : SubmitIO(s, nsid, io)
  BY <1>8, IOFulfils, Zenon
<1> QED
  BY <1>1, <1>2, <1>3, <1>4, <1>5, <1>6, <1>7, <1>8, Zenon DEF SubsystemHost

LEMMA StepFulfils ==
  ASSUME FullInv, NEW s \in Slot, SubsystemStep(s)
  PROVE  FullInv'
<1>1. CASE Create(s)
  <2>1. PICK r \in StageEnded(s, "in") :
          \/ command' = [command EXCEPT ![s] = NextStage(r)]
          \/ command' = [command EXCEPT ![s] = Fail(r)]
    BY <1>1, Zenon DEF Create
  <2> QED
    BY <2>1, EndsFulfil, Zenon
<1>2. CASE Attachment(s)
  <2>1. PICK r, ok :
          /\ r \in StageEnded(s, "in")
          /\ command' = [command EXCEPT ![s] = IF ok THEN NextStage(r) ELSE Fail(r)]
    BY <1>2, Zenon DEF Attachment
  <2> QED
    BY <2>1, EndsFulfil, Zenon
<1>3. CASE NamespaceSubmit(s)
  <2>1. PICK r, bad :
          /\ r \in StageEnded(s, "SUBMIT_COMMAND")
          /\ command' = [command EXCEPT ![s] = IF bad THEN Fail(r) ELSE NextStage(r)]
    BY <1>3, Zenon DEF NamespaceSubmit
  <2> QED
    BY <2>1, EndsFulfil, Zenon
<1>4. CASE Convert(s)
  <2>1. PICK r, request :
          /\ r \in StageEnded(s, "job")
          /\ command' = [command EXCEPT ![s] = [NextStage(r) EXCEPT !.arg.request = request]]
    BY <1>4, Zenon DEF Convert
  <2>2. PICK n, e : n = NextStage(r) /\ e = [n EXCEPT !.arg.request = request]
    OBVIOUS
  <2>3. Fulfils(n)
    BY <2>1, <2>2, StageFulfils, Zenon
  <2>4. PICK x : x = [n.arg EXCEPT !.request = request]
    OBVIOUS
  <2>5. e = [n EXCEPT !.arg = x]
    BY <2>2, <2>4
  <2>6. Fulfils(e)
    BY <2>3, <2>5, ArgumentFulfils, Zenon
  <2>7. command' = [command EXCEPT ![s] = e]
    BY <2>1, <2>2, Zenon
  <2> QED
    BY <2>6, <2>7, SlotFulfils, Zenon
<1>5. CASE SubsystemCallback(s)
  BY <1>5, PieceEndsFulfils, GoesOnFulfils, Zenon DEF SubsystemCallback
<1> QED
  BY <1>1, <1>2, <1>3, <1>4, <1>5, Zenon DEF SubsystemStep

-----------------------------------------------------------------------------
(* The Open-Channel SSDs. *)

\* The stages of revision 2.0.
LEMMA Stages20Suit ==
  ASSUME ListsFit, NEW op, NEW n, NEW p \in Pointers20(op, n),
         op \in {"read", "write", "datasetManagement", "trimIgnored",
                 "vectorChunkRead", "vectorChunkWrite", "vectorChunkReset"}
  PROVE  Suits(p, Stages20(op, p, n))
<1>1. Stages20(op, p, n) \in Seq(AnyStage)
  BY Stages20Once, StageStrings, Zenon
<1>2. CASE op \in {"vectorChunkReset", "trimIgnored"}
  <2>1. p = NoPointer
    BY <1>2 DEF Pointers20
  <2> QED
    BY <1>1, <2>1, SuitsNone, Zenon
<1>3. CASE op \in {"read", "write", "datasetManagement", "vectorChunkRead", "vectorChunkWrite"}
  <2> DEFINE q == PointerStages(p)
             w == q \o <<"job">>
             x == q \o <<"job", "in">>
             y == w \o OnFlash
             z == (w \o List(n)) \o OnFlash
  <2>1. p \in Pointers
    BY <1>3, PointersForIn DEF Pointers20
  <2>2. NoFlash(q)
    BY <2>1, PointerNoFlash
  <2> HIDE DEF q
  <2>3. WithData(x)
    BY <2>1, PointerThenData, DataEnds, Zenon DEF q
  <2>4. NoFlash(w)
    BY <2>2, NoFlashJoin, ShortStages, Zenon
  <2>5. NoFlash(w \o List(n))
    BY <2>4, NoFlashJoin, ShortStages, Zenon
  <2>6. OnceFlash(y) /\ OnceFlash(z)
    BY <2>4, <2>5, OnceFlashJoin, ShortStages, Zenon
  <2>7. /\ y \in Seq(AnyStage) /\ z \in Seq(AnyStage) /\ OnFlash \in Seq(AnyStage)
        /\ <<"crash">> \in Seq(AnyStage)
    BY <2>6, ShortStages, StageStrings, Zenon
  <2>8. /\ op = "read" => Stages20(op, p, n) = y \o <<"out">>
        /\ op = "write" => Stages20(op, p, n) = x \o OnFlash
        /\ op = "datasetManagement" => Stages20(op, p, n) = (x \o OnFlash) \o <<"crash">>
        /\ op = "vectorChunkRead" => Stages20(op, p, n) = z \o <<"out">>
        /\ op = "vectorChunkWrite" => Stages20(op, p, n) = z \o <<"in">>
    BY DEF Stages20, read20, write20, datasetManagement20, vectorChunkRead, vectorChunkWrite, q
  <2> HIDE DEF w, x, y, z
  <2>9. WithData(x \o OnFlash) /\ WithData((x \o OnFlash) \o <<"crash">>)
    BY <2>3, <2>7, DataBefore, Zenon
  <2>10. WithData(y \o <<"out">>) /\ WithData(z \o <<"out">>) /\ WithData(z \o <<"in">>)
    BY <2>7, DataBehind, DataEnds, Zenon
  <2>11. WithData(Stages20(op, p, n))
    BY <1>3, <2>8, <2>9, <2>10, Zenon
  <2> QED
    BY <2>1, <2>11, HostPointers, SuitsData, Zenon
<1> QED
  BY <1>2, <1>3

\* Those of revision 1.2.
LEMMA Stages12Suit ==
  ASSUME ListsFit, NEW op, NEW n, NEW p \in Pointers12(op, n),
         op \in {"deviceIdentification", "getBadBlockTable", "physicalBlockErase",
                 "physicalPageWrite", "physicalPageRead", "readIgnored"}
  PROVE  Suits(p, Stages12(op, p, n))
<1>1. Stages12(op, p, n) \in Seq(AnyStage)
  BY Stages12NoFlash, StageStrings, Zenon
<1>2. CASE op \in {"deviceIdentification", "getBadBlockTable", "physicalPageWrite",
                   "physicalPageRead"}
  <2> DEFINE q == PointerStages(p)
             w == (q \o <<"job">>) \o List(n)
  <2>1. p \in Pointers
    BY <1>2, PointersForIn DEF Pointers12
  <2>2. NoFlash(q)
    BY <2>1, PointerNoFlash
  <2> HIDE DEF q
  <2>3. NoFlash(q \o <<"job">>)
    BY <2>2, NoFlashJoin, ShortStages, Zenon
  <2>4. NoFlash(w)
    BY <2>3, NoFlashJoin, ShortStages, Zenon
  <2>5. w \in Seq(AnyStage)
    BY <2>4, StageStrings, Zenon
  <2>6. /\ op \in {"deviceIdentification", "getBadBlockTable"} =>
             Stages12(op, p, n) = q \o <<"out">>
        /\ op = "physicalPageWrite" => Stages12(op, p, n) = w \o <<"in", "completion">>
        /\ op = "physicalPageRead" => Stages12(op, p, n) = w \o <<"completion", "out">>
    BY DEF Stages12, deviceIdentification, getBadBlockTable, physicalPageWrite,
           physicalPageRead, q
  <2> HIDE DEF w
  <2>7. WithData(q \o <<"out">>)
    BY <2>1, PointerThenData, DataEnds, Zenon DEF q
  <2>8. WithData(w \o <<"in", "completion">>) /\ WithData(w \o <<"completion", "out">>)
    BY <2>5, DataBehind, DataEnds, Zenon
  <2>9. WithData(Stages12(op, p, n))
    BY <1>2, <2>6, <2>7, <2>8, Zenon
  <2> QED
    BY <2>1, <2>9, HostPointers, SuitsData, Zenon
<1>3. CASE op = "physicalBlockErase"
  <2>1. CASE n > 1
    <3>1. p = PRPBase(1)
      BY <1>3, <2>1 DEF Pointers12
    <3>2. Stages12(op, p, n) = <<"pointer", "job", "in", "completion">>
      BY <1>3, <2>1 DEF Stages12, physicalBlockErase
    <3>3. WithData(Stages12(op, p, n))
      BY <3>2, DataEnds, Zenon
    <3> QED
      BY <3>1, <3>3, BaseFits, SuitsData, Zenon
  <2>2. CASE ~(n > 1)
    <3>1. p = NoPointer
      BY <1>3, <2>2 DEF Pointers12
    <3> QED
      BY <1>1, <3>1, SuitsNone, Zenon
  <2> QED
    BY <2>1, <2>2
<1>4. CASE op = "readIgnored"
  <2>1. p = NoPointer
    BY <1>4 DEF Pointers12
  <2> QED
    BY <1>1, <2>1, SuitsNone, Zenon
<1> QED
  BY <1>2, <1>3, <1>4

\* A command reaches readInternal(), writeInternal() or eraseInternal().
LEMMA GoesToFlashFulfils ==
  ASSUME FullInv, NEW s, NEW r, Ready(r), GoesToFlash(s, r)
  PROVE  FullInv'
<1>1. PICK o, e :
        /\ e = [r EXCEPT !.status =
                  IF o.err /\ r.op # "datasetManagement" THEN "error" ELSE r.status]
        /\ command' = [command EXCEPT ![s] = Begin(e)]
  BY Zenon DEF GoesToFlash
<1>2. Ready(e)
  <2>1. CASE o.err /\ r.op # "datasetManagement"
    <3>1. e = [r EXCEPT !.status = "error"]
      BY <1>1, <2>1, Zenon
    <3> QED
      BY <3>1, StatusReady, Zenon
  <2>2. CASE ~(o.err /\ r.op # "datasetManagement")
    <3>1. e = [r EXCEPT !.status = r.status]
      BY <1>1, <2>2, Zenon
    <3>2. e = r
      BY <3>1 DEF Ready, Carries, IsCommand
    <3> QED
      BY <3>2, Zenon
  <2> QED
    BY <2>1, <2>2
<1>3. Fulfils(Begin(e))
  BY <1>2, BeginFulfils, Zenon
<1> QED
  BY <1>1, <1>3, SlotFulfils, Zenon

LEMMA Host20Fulfils ==
  ASSUME FullInv, ListsFit, NEW s, Host20(s)
  PROVE  FullInv'
<1>1. CASE SubmitAdmin20(s)
  <2>1. PICK op, p, x :
          /\ op \in {"geometry", "chunkLog"} /\ p \in PointersFor(1)
          /\ x = IF op = "geometry" THEN geometry(p) ELSE chunkLog(p)
          /\ Submit(s, Begin(Command(op, <<>>, p, x)))
    BY <1>1, Zenon DEF SubmitAdmin20
  <2>2. p \in Pointers
    BY <2>1, PointersForIn
  <2>3. x = PointerStages(p) \o <<"out">>
    BY <2>1, Zenon DEF geometry, chunkLog
  <2>4. WithData(x)
    BY <2>2, <2>3, PointerThenData, DataEnds, Zenon
  <2>5. Suits(p, x)
    BY <2>2, <2>4, HostPointers, SuitsData, Zenon
  <2> QED
    BY <2>1, <2>5, NewFulfils, SubmitFulfils, Zenon
<1>2. ASSUME NEW io \in Requests20, SubmitIO20(s, io) PROVE FullInv'
  <2>1. io.op \in {"read", "write", "datasetManagement", "trimIgnored",
                   "vectorChunkRead", "vectorChunkWrite", "vectorChunkReset"}
    BY OpenChannelAssumption, Zenon
  <2>2. PICK p, r :
          /\ p \in Pointers20(io.op, io.nlb)
          /\ r = Command(io.op, io.lbas, p, Stages20(io.op, p, io.nlb))
          /\ GoesToFlash(s, r) \/ Submit(s, Begin(r))
    BY <1>2, Zenon DEF SubmitIO20
  <2>3. Suits(p, Stages20(io.op, p, io.nlb))
    BY <2>1, <2>2, Stages20Suit, Zenon
  <2>4. Ready(r)
    BY <2>2, <2>3, NewReady, Zenon
  <2>5. Fulfils(Begin(r))
    BY <2>4, BeginFulfils, Zenon
  <2> QED
    BY <2>2, <2>4, <2>5, GoesToFlashFulfils, SubmitFulfils, Zenon
<1> QED
  BY <1>1, <1>2, Zenon DEF Host20

LEMMA Host12Fulfils ==
  ASSUME FullInv, ListsFit, NEW s, Host12(s)
  PROVE  FullInv'
<1>1. ASSUME NEW io \in Requests12, Submit12(s, io) PROVE FullInv'
  <2>1. io.op \in {"deviceIdentification", "getBadBlockTable", "physicalBlockErase",
                   "physicalPageWrite", "physicalPageRead", "readIgnored"}
    BY <1>1, OpenChannelAssumption, Zenon
  <2>2. PICK p, r, e :
          /\ p \in Pointers12(io.op, io.nlb)
          /\ r = Command(io.op, <<>>, p, Stages12(io.op, p, io.nlb))
          /\ e = [r EXCEPT !.pointer = NoPointer]
          /\ Submit(s, Begin(r)) \/ Submit(s, Fail(e))
    BY <1>1, Zenon DEF Submit12
  <2>3. Suits(p, Stages12(io.op, p, io.nlb))
    BY <2>1, <2>2, Stages12Suit, Zenon
  <2>4. Ready(r)
    BY <2>2, <2>3, NewReady, Zenon
  <2>5. Fulfils(Begin(r))
    BY <2>4, BeginFulfils, Zenon
  <2>6. Fulfils(Fail(e))
    BY <2>2, <2>4, RefusedFulfils, Zenon DEF Ready, Carries
  <2> QED
    BY <2>2, <2>5, <2>6, SubmitFulfils, Zenon
<1>2. ASSUME NEW blocks, NEW value, SubmitSetBadBlocks(s, blocks, value) PROVE FullInv'
  <2>1. PICK arg : Submit(s, Begin(Command("setBadBlockTable", arg, PRPBase(1),
                                           setBadBlockTable)))
    BY <1>2, Zenon DEF SubmitSetBadBlocks
  <2>2. WithData(setBadBlockTable)
    BY DataEnds, Zenon DEF setBadBlockTable
  <2>3. Suits(PRPBase(1), setBadBlockTable)
    BY <2>2, BaseFits, SuitsData, Zenon
  <2> QED
    BY <2>1, <2>3, NewFulfils, SubmitFulfils, Zenon
<1> QED
  BY <1>1, <1>2, Zenon DEF Host12

LEMMA ChunkFulfils ==
  ASSUME FullInv, NEW s \in Slot, OpenChannelStep(s)
  PROVE  FullInv'
<1>1. CASE ToFlash(s)
  <2>1. PICK stage, r, e :
          /\ r \in StageEnded(s, stage)
          /\ e = [r EXCEPT !.stages = Tail(r.stages)]
          /\ GoesToFlash(s, e)
    BY <1>1, Zenon DEF ToFlash
  <2>2. Ended(r)
    BY <2>1, StageFulfils, Zenon
  <2>3. Ready(e)
    BY <2>1, <2>2, Advanced, Zenon
  <2> QED
    BY <2>1, <2>3, GoesToFlashFulfils, Zenon
<1>2. CASE SetBadBlocks(s)
  <2>1. PICK r \in StageEnded(s, "in") : command' = [command EXCEPT ![s] = NextStage(r)]
    BY <1>2, Zenon DEF SetBadBlocks
  <2> QED
    BY <2>1, EndsFulfil, Zenon
<1>3. CASE OpenChannelCallback(s)
  <2>1. \/ PieceEnds(s) \/ GoesOn(s, {"pointer", "completion", "out"})
        \/ \E stage : \E r \in StageEnded(s, stage) :
             command' = [command EXCEPT ![s] = NextStage(r)]
    BY <1>3, Zenon DEF OpenChannelCallback
  <2> QED
    BY <2>1, PieceEndsFulfils, GoesOnFulfils, EndsFulfil, Zenon
<1> QED
  BY <1>1, <1>2, <1>3, Zenon DEF OpenChannelStep

\* The core does its first job.
LEMMA FlashJobFulfils ==
  ASSUME FullInv, FlashJob
  PROVE  FullInv'
<1>1. PICK s, r, x :
        /\ r \in StageEnded(s, "flash") /\ x = NextStage(r)
        /\ command' = [command EXCEPT ![s] = x]
  BY Zenon DEF FlashJob
<1>2. s \in Slot => Fulfils(x)
  BY <1>1, StageFulfils, Zenon
<1> QED
  BY <1>1, <1>2, SlotFulfils, Zenon

-----------------------------------------------------------------------------
(* The steps of the device. *)

LEMMA FulfilsStep ==
  ASSUME ListsFit, "namespaceLogPage" \notin AdminOps
  PROVE  FullInv /\ [Next]_deviceVars => FullInv'
<1> SUFFICES ASSUME FullInv, [Next]_deviceVars PROVE FullInv'
  OBVIOUS
<1>1. ASSUME NEW s \in Slot, NvmHost(s) \/ NvmStep(s) PROVE FullInv'
  BY <1>1, HostFulfils, StepFulfils, Zenon DEF NvmHost, NvmStep
<1>2. ASSUME NEW s \in Slot, OpenChannelHost(s) \/ ChunkStep(s) PROVE FullInv'
  BY <1>2, Host12Fulfils, Host20Fulfils, ChunkFulfils, Zenon DEF OpenChannelHost, ChunkStep
<1>3. ASSUME NEW s \in Slot, Taken(s) PROVE FullInv'
  <2>1. command' = [command EXCEPT ![s] = NoCommand]
    BY <1>3 DEF Taken, TakeCompletion
  <2>2. Fulfils(NoCommand)
    BY NewWithout, ShortSequences, Zenon DEF NoCommand
  <2> QED
    BY <2>1, <2>2, SlotFulfils, Zenon
<1>4. CASE Flash
  BY <1>4, FlashJobFulfils, Zenon DEF Flash
<1>5. CASE UNCHANGED deviceVars
  <2>1. command' = command
    BY <1>5 DEF deviceVars, commandVars
  <2> QED
    BY <2>1, Zenon DEF FullInv, Fulfils, Moving, Needed, MovesFrom, UnitsOfAll, IsCommand
<1> QED
  BY <1>1, <1>2, <1>3, <1>4, <1>5, Zenon DEF Next

LEMMA InitFulfils == Init => FullInv
<1> SUFFICES ASSUME Init PROVE FullInv
  OBVIOUS
<1>1. command = [s \in Slot |-> NoCommand]
  BY DEF Init, CommandInit
<1>2. command = [s \in Slot |-> command[s]] /\ \A s \in Slot : command[s] = NoCommand
  BY <1>1
<1>3. Fulfils(NoCommand)
  BY NewWithout, ShortSequences, Zenon DEF NoCommand
<1> QED
  BY <1>2, <1>3, Zenon DEF FullInv

\* Every command is answered once, when nothing of it is under way, and one that
\* succeeded has all of its data, each unit in its place: for every set of data
\* pointers, PRP or SGL, every geometry of the device, every number of slots, and
\* whatever the order in which transfers, firmware jobs, flash jobs and requests
\* end (subsystem.cc, namespace.cc, ocssd.cc, and read() and write() of dma.cc).
\* Both hypotheses leave out what the code does get wrong: a command for the health
\* of a namespace is answered by getLogPage() and again by the namespace, as the
\* run nvm_smart shows; and of the data behind a second PRP list a page is lost,
\* since getPRPListFromPRP() counts the entry that points to the next list.
THEOREM CommandsAnsweredInFull ==
  ASSUME ListsFit, "namespaceLogPage" \notin AdminOps
  PROVE  Spec => []AnsweredInFull
<1>1. Init => FullInv
  BY InitFulfils
<1>2. FullInv /\ [Next]_deviceVars => FullInv'
  BY FulfilsStep
<1>3. FullInv => AnsweredInFull
  BY FulfilledInFull, Zenon DEF FullInv, AnsweredInFull
<1> QED
  BY <1>1, <1>2, <1>3, PTL DEF Spec

-----------------------------------------------------------------------------
(* The requests that icl.cc cuts into pages. *)

\* A request for length units from number first on: its pages are those on which
\* they lie.
Spans(req, first, length) ==
  /\ req.range.slpn \in Nat /\ req.range.nlp \in Nat \ {0}
  /\ req.offset \in 0 .. LogicalPageSize - 1 /\ req.length = length /\ length \in Nat
  /\ req.range.slpn * LogicalPageSize + req.offset = first
  /\ req.offset + length <= req.range.nlp * LogicalPageSize
  /\ (req.range.nlp - 1) * LogicalPageSize < req.offset + length

\* What PageRequests() does for one page.
PageStep(s, i, req) ==
  LET least(a, b) == IF a < b THEN a ELSE b
      length == least(s.remain, LogicalPageSize - s.offset)
  IN [remain |-> s.remain - length, offset |-> 0,
      out |-> Append(s.out, Request(req.range.slpn + i - 1, 1, s.offset, length))]

PageCut == [range : [slpn : Int, nlp : Int], offset : Int, length : Int]
Cutting == [remain : Int, offset : Int, out : Seq(PageCut)]

LEMMA PageStepFields ==
  ASSUME NEW s \in Cutting, NEW i \in Int, NEW req, req.range.slpn \in Int
  PROVE  /\ PageStep(s, i, req) \in Cutting
         /\ LET length == Least(s.remain, LogicalPageSize - s.offset) IN
            PageStep(s, i, req) =
              [remain |-> s.remain - length, offset |-> 0,
               out |-> Append(s.out, Request(req.range.slpn + i - 1, 1, s.offset, length))]
<1> DEFINE length == Least(s.remain, LogicalPageSize - s.offset)
           cut == Request(req.range.slpn + i - 1, 1, s.offset, length)
<1>1. LogicalPageSize \in Nat
  BY SubsystemAssumption
<1>2. s.remain \in Int /\ s.offset \in Int /\ s.out \in Seq(PageCut)
  BY DEF Cutting
<1>3. length \in Int
  BY <1>1, <1>2 DEF Least
<1>4. PageStep(s, i, req) = [remain |-> s.remain - length, offset |-> 0,
                             out |-> Append(s.out, cut)]
  BY Zenon DEF PageStep, Least
<1> HIDE DEF length
<1>5. cut \in PageCut
  BY <1>2, <1>3 DEF PageCut, Request, LPNRange
<1> HIDE DEF cut
<1>6. Append(s.out, cut) \in Seq(PageCut)
  BY <1>2, <1>5, AppendProperties
<1>7. [remain |-> s.remain - length, offset |-> 0, out |-> Append(s.out, cut)] \in Cutting
  BY <1>2, <1>3, <1>6 DEF Cutting
<1> QED
  BY <1>4, <1>7, Zenon DEF cut, length

\* The pieces of a request, page by page.
LEMMA PagesRun ==
  ASSUME NEW req, req.range.slpn \in Nat, req.range.nlp \in Nat,
         req.offset \in Nat, req.length \in Nat
  PROVE  \E f \in [0 .. req.range.nlp -> Cutting] :
           /\ f[0] = [remain |-> req.length, offset |-> req.offset, out |-> <<>>]
           /\ \A n \in 1 .. req.range.nlp : f[n] = PageStep(f[n - 1], n, req)
           /\ PageRequests(req, LogicalPageSize) = f[req.range.nlp].out
<1> DEFINE N == req.range.nlp
           D == 1 .. N
           list == [i \in D |-> i]
           S == Cutting
           base == [remain |-> req.length, offset |-> req.offset, out |-> <<>>]
           Turn(t, k) == PageStep(t, list[k], req)
           step == [x \in S \X D |-> Turn(x[1], x[2])]
           P(g) == g = [r \in SUBSET D |->
                          IF r = {} THEN base ELSE Turn(g[r \ {Max(r)}], Max(r))]
<1>1. N \in Nat /\ DOMAIN list = D
  OBVIOUS
<1>2. base \in S
  BY DEF Cutting
<1>3. \A t \in S, k \in D : Turn(t, k) \in S
  <2> TAKE t \in S, k \in D
  <2>1. list[k] \in Int /\ req.range.slpn \in Int
    OBVIOUS
  <2> HIDE DEF S
  <2> QED
    BY <2>1, PageStepFields, Zenon DEF S
<1>5. PageRequests(req, LogicalPageSize) = ((CHOOSE g : P(g))[D]).out
  BY <1>1, Zenon DEF PageRequests, FoldLeft, MapThenFoldSet, PageStep
<1>16. \A k \in D : list[k] = k
  OBVIOUS
<1> HIDE DEF Turn, S, base, list
<1>4. step \in [S \X D -> S]
  BY <1>3
<1>6. PICK h : Folded(h, S, N, step, base)
  <2> HIDE DEF step
  <2> QED
    BY <1>1, <1>2, <1>4, FoldExists
<1>7. \A t \in S, k \in D : step[<<t, k>>] = Turn(t, k)
  OBVIOUS
<1> HIDE DEF step
<1>8. ASSUME NEW r \in SUBSET D
      PROVE  /\ r # {} => Max(r) \in D
             /\ h[r] = IF r = {} THEN base ELSE Turn(h[r \ {Max(r)}], Max(r))
  <2>1. /\ h[r] = IF r = {} THEN base ELSE step[<<h[r \ {Max(r)}], Max(r)>>]
        /\ r # {} => Max(r) \in D /\ h[r \ {Max(r)}] \in S
    BY <1>1, <1>6, FoldedAt
  <2> QED
    BY <1>7, <2>1
<1>9. P(h)
  <2>1. h \in [SUBSET D -> S]
    BY <1>6, Zenon DEF Folded
  <2> QED
    BY <1>8, <2>1
<1>10. PICK g : P(g) /\ PageRequests(req, LogicalPageSize) = g[D].out
  <2> HIDE DEF P
  <2> QED
    BY <1>5, <1>9, Zenon
<1> DEFINE next == [r \in SUBSET D |-> Turn(g[r \ {Max(r)}], Max(r))]
<1>11. \A r \in SUBSET D : g[r] = IF r = {} THEN base ELSE next[r]
  BY <1>10
<1>12. FoldedBy(g, S, N, step, base, next)
  BY <1>1, <1>2, <1>4, <1>7, <1>8, <1>11 DEF FoldedBy
<1> HIDE DEF next, P
<1>13. PICK f : Iterated(f, S, N, step, base) /\ f[N] = g[D]
  BY <1>12, FoldRuns
<1>14. /\ f \in [0 .. N -> S] /\ f[0] = base
       /\ \A n \in D : f[n] = step[<<f[n - 1], n>>]
  BY <1>13, Zenon DEF Iterated
<1>15. ASSUME NEW n \in D PROVE f[n] = PageStep(f[n - 1], n, req)
  <2>1. n - 1 \in 0 .. N
    BY <1>1
  <2>2. f[n] = Turn(f[n - 1], n)
    BY <1>7, <1>14, <2>1
  <2> QED
    BY <1>16, <2>2, Zenon DEF Turn
<1> QED
  BY <1>10, <1>13, <1>14, <1>15, Zenon DEF S, base

\* Where piece i begins and ends in its page.
FromOf(req, i) == IF i = 1 THEN req.offset ELSE 0
LeftAt(req, n) == (req.offset + req.length) - n * LogicalPageSize
UpTo(req, i) == Least(LeftAt(req, i - 1), LogicalPageSize)
PieceOf(req, i) ==
  Request(req.range.slpn + i - 1, 1, FromOf(req, i), UpTo(req, i) - FromOf(req, i))

\* After n pages.
CutSoFar(s, n, req) ==
  /\ s.out \in Seq(PageCut) /\ Len(s.out) = n
  /\ \A i \in 1 .. n : s.out[i] = PieceOf(req, i)
  /\ n < req.range.nlp =>
       /\ s.offset = FromOf(req, n + 1)
       /\ s.remain = LeftAt(req, n) - FromOf(req, n + 1)

LEMMA PageTimes ==
  ASSUME NEW n \in Nat, NEW m \in Nat, n <= m
  PROVE  /\ n * LogicalPageSize \in Nat /\ m * LogicalPageSize \in Nat
         /\ (n + 1) * LogicalPageSize = n * LogicalPageSize + LogicalPageSize
         /\ n * LogicalPageSize <= m * LogicalPageSize
<1>1. LogicalPageSize \in Nat \ {0}
  BY SubsystemAssumption
<1> QED
  BY <1>1

\* The piece of one page.
LEMMA PieceMade ==
  ASSUME NEW req, NEW first, NEW length, Spans(req, first, length),
         NEW n \in 1 .. req.range.nlp, NEW s \in Cutting, CutSoFar(s, n - 1, req)
  PROVE  CutSoFar(PageStep(s, n, req), n, req)
<1> DEFINE L == LogicalPageSize
           o == FromOf(req, n)
           z == Least(s.remain, L - s.offset)
           cut == Request(req.range.slpn + n - 1, 1, s.offset, z)
<1>1. PICK N, E, x : N = req.range.nlp /\ E = req.offset + req.length /\ x = (n - 1) * L
  OBVIOUS
<1>2. /\ L \in Nat \ {0} /\ N \in Nat \ {0} /\ req.offset \in 0 .. L - 1
      /\ req.length \in Nat /\ E \in Nat /\ n \in 1 .. N /\ n - 1 \in Nat /\ req.range.slpn \in Nat
      /\ (N - 1) * L < E
  <2>1. L \in Nat \ {0}
    BY SubsystemAssumption
  <2> QED
    BY <1>1, <2>1 DEF Spans
<1>3. x \in Nat /\ n * L = x + L /\ (n < N => n * L <= (N - 1) * L)
  <2>1. x \in Nat /\ (n - 1 + 1) * L = x + L
    BY <1>1, <1>2, PageTimes
  <2>2. n - 1 + 1 = n
    BY <1>2
  <2>3. n < N => n * L <= (N - 1) * L
    <3>1. n < N => n \in Nat /\ N - 1 \in Nat /\ n <= N - 1
      BY <1>2
    <3> QED
      BY <3>1, PageTimes
  <2> QED
    BY <2>1, <2>2, <2>3, Zenon
<1>4. /\ s.out \in Seq(PageCut) /\ Len(s.out) = n - 1
      /\ \A i \in 1 .. n - 1 : s.out[i] = PieceOf(req, i)
      /\ s.offset = o /\ s.remain = E - x - o
  <2>1. n - 1 < req.range.nlp /\ (n - 1) + 1 = n
    BY <1>1, <1>2
  <2>2. s.offset = o /\ s.remain = LeftAt(req, n - 1) - o
    BY <2>1, Zenon DEF CutSoFar
  <2>3. LeftAt(req, n - 1) = E - x
    BY <1>1, Zenon DEF LeftAt
  <2>4. /\ s.out \in Seq(PageCut) /\ Len(s.out) = n - 1
        /\ \A i \in 1 .. n - 1 : s.out[i] = PieceOf(req, i)
    BY Zenon DEF CutSoFar
  <2> QED
    BY <2>2, <2>3, <2>4, Zenon
<1>5. o \in 0 .. L - 1
  BY <1>2 DEF FromOf
<1>6. UpTo(req, n) = Least(E - x, L)
  <2>1. LeftAt(req, n - 1) = E - x
    BY <1>1, Zenon DEF LeftAt
  <2> QED
    BY <2>1, Zenon DEF UpTo
<1> HIDE DEF o, L
<1>7. z = Least(E - x, L) - o
  BY <1>2, <1>3, <1>4, <1>5 DEF Least
<1>8. cut = PieceOf(req, n)
  BY <1>4, <1>6, <1>7, Zenon DEF PieceOf, o
<1>9. n < N => E - x - o - z = E - n * L
  <2>1. PICK y, w : y = n * L /\ w = (N - 1) * L
    OBVIOUS
  <2>2. n < N => Least(E - x, L) = L
    <3>1. n < N => y < E /\ y = x + L
      <4>1. y = x + L /\ w < E /\ (n < N => y <= w)
        BY <1>2, <1>3, <2>1, Zenon
      <4>2. w \in Int
        BY <1>2, <2>1
      <4> QED
        BY <1>2, <1>3, <4>1, <4>2
    <3> QED
      BY <1>2, <1>3, <3>1 DEF Least
  <2>3. y = x + L
    BY <1>3, <2>1
  <2> HIDE DEF z
  <2>4. n < N => z = L - o
    BY <1>7, <2>2
  <2> QED
    BY <1>2, <1>3, <1>5, <2>1, <2>3, <2>4
<1>10. PageStep(s, n, req) = [remain |-> s.remain - z, offset |-> 0, out |-> Append(s.out, cut)]
  BY <1>2, PageStepFields DEF L
<1>11. PICK t : t = PageStep(s, n, req)
  OBVIOUS
<1> HIDE DEF z, cut
<1>12. t.remain = s.remain - z /\ t.offset = 0 /\ t.out = Append(s.out, cut) /\ t \in Cutting
  <2>1. t \in Cutting
    BY <1>2, <1>11, PageStepFields
  <2> QED
    BY <1>10, <1>11, <2>1
<1>13. t.out \in Seq(PageCut)
  BY <1>12 DEF Cutting
<1>14. Len(t.out) = n /\ \A i \in 1 .. n : t.out[i] = PieceOf(req, i)
  <2>1. PICK m : m = n - 1
    OBVIOUS
  <2>2. /\ Len(t.out) = m + 1 /\ t.out[m + 1] = cut /\ \A i \in 1 .. m : t.out[i] = s.out[i]
    BY <1>2, <1>4, <1>12, <2>1, AppendProperties
  <2>3. m + 1 = n /\ \A i \in 1 .. n : i \in 1 .. m \/ i = n
    BY <1>2, <2>1
  <2> QED
    BY <1>4, <1>8, <2>1, <2>2, <2>3, Zenon
<1>15. n < N => t.offset = FromOf(req, n + 1) /\ t.remain = E - n * L - FromOf(req, n + 1)
  <2>1. FromOf(req, n + 1) = 0
    BY <1>2 DEF FromOf
  <2>2. PICK y : y = n * L
    OBVIOUS
  <2>3. y \in Int
    BY <1>2, <2>2
  <2>4. n < N => t.remain = E - y
    BY <1>4, <1>9, <1>12, <2>2
  <2> QED
    BY <1>2, <1>12, <2>1, <2>2, <2>3, <2>4
<1> QED
  <2>1. LeftAt(req, n) = E - n * L
    BY <1>1, Zenon DEF LeftAt, L
  <2>2. CutSoFar(t, n, req)
    BY <1>1, <1>13, <1>14, <1>15, <2>1, Zenon DEF CutSoFar
  <2> QED
    BY <1>11, <2>2, Zenon

LEMMA PiecesMade ==
  ASSUME NEW req, NEW first, NEW length, Spans(req, first, length)
  PROVE  /\ PageRequests(req, LogicalPageSize) \in Seq(PageCut)
         /\ DOMAIN PageRequests(req, LogicalPageSize) = 1 .. req.range.nlp
         /\ \A i \in 1 .. req.range.nlp :
              PageRequests(req, LogicalPageSize)[i] = PieceOf(req, i)
<1> DEFINE N == req.range.nlp
           pieces == PageRequests(req, LogicalPageSize)
<1>1. N \in Nat \ {0} /\ req.range.slpn \in Nat /\ req.offset \in Nat /\ req.length \in Nat
  BY DEF Spans
<1>2. PICK f \in [0 .. N -> Cutting] :
        /\ f[0] = [remain |-> req.length, offset |-> req.offset, out |-> <<>>]
        /\ \A n \in 1 .. N : f[n] = PageStep(f[n - 1], n, req)
        /\ pieces = f[N].out
  BY <1>1, PagesRun
<1> HIDE DEF pieces
<1> DEFINE M == {n \in Nat : n <= N => CutSoFar(f[n], n, req)}
<1>3. 0 \in M
  <2>1. f[0].out = <<>> /\ f[0].offset = req.offset /\ f[0].remain = req.length
    BY <1>2
  <2>2. FromOf(req, 0 + 1) = req.offset
    BY DEF FromOf
  <2>3. 0 * LogicalPageSize = 0
    BY SubsystemAssumption
  <2>4. LeftAt(req, 0) - FromOf(req, 0 + 1) = req.length
    BY <1>1, <2>2, <2>3 DEF LeftAt
  <2>5. f[0].out \in Seq(PageCut) /\ Len(f[0].out) = 0 /\ \A i \in 1 .. 0 : FALSE
    BY <2>1
  <2>6. CutSoFar(f[0], 0, req)
    BY <2>1, <2>2, <2>4, <2>5, Zenon DEF CutSoFar
  <2> QED
    BY <2>6
<1>4. ASSUME NEW n \in Nat, n \in M PROVE n + 1 \in M
  <2> SUFFICES ASSUME n + 1 <= N PROVE CutSoFar(f[n + 1], n + 1, req)
    OBVIOUS
  <2>1. PICK m : m = n + 1
    OBVIOUS
  <2>2. m \in 1 .. N /\ m - 1 = n /\ n \in 0 .. N
    BY <1>1, <2>1
  <2>3. CutSoFar(f[m - 1], m - 1, req)
    BY <1>4, <2>2
  <2>4. f[m - 1] \in Cutting /\ f[m] = PageStep(f[m - 1], m, req)
    BY <1>2, <2>2
  <2>5. CutSoFar(f[m], m, req)
    BY <2>2, <2>3, <2>4, PieceMade, Zenon
  <2> QED
    BY <2>1, <2>5, Zenon
<1>5. CutSoFar(f[N], N, req)
  <2> HIDE DEF M
  <2>1. N \in M
    BY <1>1, <1>3, <1>4, NatInductionSet
  <2> QED
    BY <1>1, <2>1 DEF M
<1>6. /\ pieces \in Seq(PageCut) /\ Len(pieces) = N
      /\ \A i \in 1 .. N : pieces[i] = PieceOf(req, i)
  BY <1>2, <1>5, Zenon DEF CutSoFar
<1>7. DOMAIN pieces = 1 .. N
  BY <1>6, LenProperties
<1> QED
  BY <1>6, <1>7, Zenon DEF pieces

Most(a, b) == IF a < b THEN b ELSE a

LEMMA TimesSum ==
  ASSUME NEW a \in Int, NEW b \in Int, NEW c \in Int
  PROVE  a * c \in Int /\ b * c \in Int /\ (a + b) * c = a * c + b * c
  OBVIOUS

\* The units of one page, and the pages in order.
LEMMA UnitsOfPage ==
  ASSUME NEW p \in Nat
  PROVE  /\ p * LogicalPageSize \in Nat
         /\ \A u \in Int : u \div LogicalPageSize = p <=>
              p * LogicalPageSize <= u /\ u < p * LogicalPageSize + LogicalPageSize
<1>1. LogicalPageSize \in Nat \ {0}
  BY SubsystemAssumption
<1>2. PICK L : L = LogicalPageSize
  OBVIOUS
<1>3. L \in Nat \ {0}
  BY <1>1, <1>2
<1>4. p * L \in Nat
  BY <1>3
<1>5. ASSUME NEW u \in Int
      PROVE  u \div L = p <=> p * L <= u /\ u < p * L + L
  <2>1. PICK q : q = u \div L
    OBVIOUS
  <2>2. q \in Int /\ q * L <= u /\ u < q * L + L
    BY <1>3, <2>1
  <2>3. q = p => p * L <= u /\ u < p * L + L
    BY <2>2, Zenon
  <2>4. p * L <= u /\ u < p * L + L => q = p
    <3>1. q < p => q * L + L <= p * L
      BY <1>3, <2>2
    <3>2. p < q => p * L + L <= q * L
      BY <1>3, <2>2
    <3>3. q * L \in Int
      BY <1>3, <2>2
    <3> QED
      BY <1>3, <1>4, <2>2, <3>1, <3>2, <3>3
  <2> QED
    BY <2>1, <2>3, <2>4, Zenon
<1> QED
  BY <1>2, <1>4, <1>5, Zenon

\* A request for length units from number first on, where its pages are.
LEMMA SpansPages ==
  ASSUME NEW req, NEW first, NEW length, Spans(req, first, length),
         NEW i \in 1 .. req.range.nlp
  PROVE  LET page == (req.range.slpn + i - 1) * LogicalPageSize IN
         /\ page \in Nat /\ first \in Nat /\ length \in Nat
         /\ page + FromOf(req, i) = Most(first, page)
         /\ page + UpTo(req, i) = Least(first + length, page + LogicalPageSize)
         /\ page < first + length /\ first < page + LogicalPageSize
<1>1. PICK L, N, S, x, o, E, p :
        /\ L = LogicalPageSize /\ N = req.range.nlp /\ S = req.range.slpn * L
        /\ x = (i - 1) * L /\ o = req.offset /\ E = req.offset + req.length
        /\ p = req.range.slpn + i - 1
  OBVIOUS
<1>2. /\ L \in Nat \ {0} /\ N \in Nat \ {0} /\ i \in 1 .. N /\ o \in 0 .. L - 1
      /\ E = o + length /\ length \in Nat /\ first = S + o /\ (N - 1) * L < E
      /\ req.range.slpn \in Nat
  <2>1. LogicalPageSize \in Nat \ {0}
    BY SubsystemAssumption
  <2> QED
    BY <1>1, <2>1 DEF Spans
<1>3. S \in Nat /\ x \in Nat /\ p \in Nat
  BY <1>1, <1>2
<1>4. p * L = S + x
  BY <1>1, <1>2
<1>5. x < E
  <2>1. i - 1 <= N - 1 /\ i - 1 \in Nat /\ N - 1 \in Nat
    BY <1>2
  <2>2. x <= (N - 1) * L /\ (N - 1) * L \in Nat
    BY <1>1, <1>2, <2>1, TimesOrder
  <2>3. E \in Nat
    BY <1>2
  <2> QED
    BY <1>2, <1>3, <2>2, <2>3
<1>6. IF i = 1 THEN x = 0 ELSE x >= L
  <2>1. i # 1 => i - 2 \in Nat /\ x = (i - 2) * L + L
    BY <1>1, <1>2
  <2>2. i # 1 => (i - 2) * L \in Nat
    BY <1>2, <2>1
  <2>3. i = 1 => x = 0
    BY <1>1, <1>2
  <2> QED
    BY <1>2, <2>1, <2>2, <2>3
<1>7. UpTo(req, i) = Least(E - x, L)
  <2>1. LeftAt(req, i - 1) = E - x
    BY <1>1, Zenon DEF LeftAt
  <2> QED
    BY <1>1, <2>1, Zenon DEF UpTo
<1>8. FromOf(req, i) = IF i = 1 THEN o ELSE 0
  BY <1>1, Zenon DEF FromOf
<1>9. PICK page : page = p * L
  OBVIOUS
<1>10. /\ page \in Nat /\ first \in Nat /\ length \in Nat
       /\ page + FromOf(req, i) = Most(first, page)
       /\ page + UpTo(req, i) = Least(first + length, page + L)
       /\ page < first + length /\ first < page + L
  <2>1. page = S + x
    BY <1>4, <1>9
  <2>2. page + FromOf(req, i) = Most(first, page)
    BY <1>2, <1>3, <1>6, <1>8, <2>1 DEF Most
  <2>3. page + UpTo(req, i) = Least(first + length, page + L)
    BY <1>2, <1>3, <1>5, <1>7, <2>1 DEF Least
  <2>4. page < first + length /\ first < page + L
    BY <1>2, <1>3, <1>5, <1>6, <2>1
  <2> QED
    BY <1>2, <1>3, <2>1, <2>2, <2>3, <2>4
<1> QED
  BY <1>1, <1>9, <1>10, Zenon

\* Every piece is for the units of its page.
LEMMA UnitsOfPiece ==
  ASSUME NEW req, NEW first, NEW length, Spans(req, first, length),
         NEW i \in 1 .. req.range.nlp
  PROVE  /\ UnitsIn(PieceOf(req, i), LogicalPageSize) =
              {u \in first .. first + length - 1 :
                 u \div LogicalPageSize = req.range.slpn + i - 1}
         /\ length > 0 => UnitsIn(PieceOf(req, i), LogicalPageSize) # {}
<1>0. PICK from, upto : from = FromOf(req, i) /\ upto = UpTo(req, i)
  OBVIOUS
<1>1. PICK L, p : L = LogicalPageSize /\ p = req.range.slpn + i - 1
  OBVIOUS
<1>11. PICK a : a = p * L
  OBVIOUS
<1>2. /\ a \in Nat /\ first \in Nat /\ length \in Nat
      /\ a + from = Most(first, a) /\ a + upto = Least(first + length, a + L)
      /\ a < first + length /\ first < a + L
  BY <1>0, <1>1, <1>11, SpansPages, Zenon
<1>3. L \in Nat \ {0} /\ p \in Nat
  <2>1. LogicalPageSize \in Nat \ {0} /\ req.range.slpn \in Nat
    BY SubsystemAssumption DEF Spans
  <2> QED
    BY <1>1, <2>1
<1>4. from \in Int /\ upto \in Int
  <2>1. req.offset \in Int /\ LeftAt(req, i - 1) \in Int
    <3>1. req.offset \in Int /\ req.length \in Int
      BY <1>1, <1>3 DEF Spans
    <3>2. (i - 1) * L \in Int
      BY <1>3
    <3> QED
      BY <1>1, <3>1, <3>2 DEF LeftAt
  <2> QED
    BY <1>0, <1>1, <1>3, <2>1 DEF FromOf, UpTo, Least
<1>5. UnitsIn(PieceOf(req, i), L) = a + from .. a + from + (upto - from) - 1
  <2>1. PieceOf(req, i) = Request(p, 1, from, upto - from)
    BY <1>0, <1>1, Zenon DEF PieceOf
  <2>2. PICK piece : piece = PieceOf(req, i)
    OBVIOUS
  <2>3. piece.range.slpn = p /\ piece.offset = from /\ piece.length = upto - from
    BY <2>1, <2>2 DEF Request, LPNRange
  <2> QED
    BY <1>1, <1>11, <2>2, <2>3, Zenon DEF UnitsIn
<1>6. \A u \in Int : u \in UnitsIn(PieceOf(req, i), L) <=>
        first <= u /\ a <= u /\ u < first + length /\ u < a + L
  <2>1. \A u \in Int : u \in a + from .. a + from + (upto - from) - 1 <=>
          a + from <= u /\ u < a + upto
    BY <1>2, <1>4
  <2> QED
    BY <1>2, <1>3, <1>4, <1>5, <2>1 DEF Most, Least
<1>7. \A u \in Int : u \div L = p <=> a <= u /\ u < a + L
  BY <1>1, <1>3, <1>11, UnitsOfPage, Zenon
<1>8. \A u \in UnitsIn(PieceOf(req, i), L) : u \in Int
  BY <1>5
<1>9. UnitsIn(PieceOf(req, i), L) = {u \in first .. first + length - 1 : u \div L = p}
  <2>1. \A u \in Int : u \in first .. first + length - 1 <=> first <= u /\ u < first + length
    BY <1>2
  <2>2. \A u \in first .. first + length - 1 : u \in Int
    OBVIOUS
  <2> QED
    BY <1>6, <1>7, <1>8, <2>1, <2>2, Zenon
<1>10. length > 0 => UnitsIn(PieceOf(req, i), L) # {}
  <2>1. length > 0 => Most(first, a) \in UnitsIn(PieceOf(req, i), L)
    BY <1>2, <1>3, <1>6 DEF Most
  <2> QED
    BY <2>1
<1> QED
  BY <1>1, <1>9, <1>10, Zenon

\* The pages of a request begin and end with its units.
LEMMA SpansEnds ==
  ASSUME NEW req, NEW first, NEW length, Spans(req, first, length)
  PROVE  LET after == req.range.slpn + req.range.nlp IN
         /\ first \in Nat /\ length \in Nat /\ req.range.slpn \in Nat /\ req.range.nlp \in Nat \ {0}
         /\ req.range.slpn * LogicalPageSize <= first
         /\ first < (req.range.slpn + 1) * LogicalPageSize
         /\ first + length <= after * LogicalPageSize
         /\ (after - 1) * LogicalPageSize < first + length
         /\ \A u \in first .. first + length - 1 :
              u \div LogicalPageSize \in PagesIn(req.range)
<1>1. PICK L, N, A, S, T, o :
        /\ L = LogicalPageSize /\ N = req.range.nlp /\ A = req.range.slpn
        /\ S = A * L /\ T = (N - 1) * L /\ o = req.offset
  OBVIOUS
<1>2. /\ L \in Nat \ {0} /\ N \in Nat \ {0} /\ A \in Nat /\ o \in 0 .. L - 1
      /\ length \in Nat /\ first = S + o /\ T < o + length /\ o + length <= N * L
  <2>1. LogicalPageSize \in Nat \ {0}
    BY SubsystemAssumption
  <2> QED
    BY <1>1, <2>1 DEF Spans
<1>3. S \in Nat /\ T \in Nat /\ N * L = T + L
  <2>1. PICK m : m = N - 1
    OBVIOUS
  <2>2. m \in Nat /\ N = m + 1
    BY <1>2, <2>1
  <2>3. T = m * L /\ 1 * L = L
    BY <1>1, <1>2, <2>1
  <2>4. T \in Nat /\ S \in Nat
    BY <1>1, <1>2, <2>2, <2>3, TimesOrder
  <2>5. (m + 1) * L = m * L + 1 * L
    BY <1>2, <2>2, TimesSum
  <2> QED
    BY <2>2, <2>3, <2>4, <2>5, Zenon
<1>4. /\ (A + 1) * L = S + L /\ (A + N) * L = S + T + L /\ (A + N - 1) * L = S + T
  <2>1. 1 * L = L
    BY <1>2
  <2>2. (A + 1) * L = S + L
    BY <1>1, <1>2, <2>1, TimesSum
  <2>3. (A + N) * L = S + N * L
    BY <1>1, <1>2, TimesSum
  <2>4. A + N - 1 = A + (N - 1) /\ N - 1 \in Int
    BY <1>2
  <2>5. (A + (N - 1)) * L = S + T
    BY <1>1, <1>2, <2>4, TimesSum
  <2>6. S + (T + L) = S + T + L
    BY <1>2, <1>3
  <2> QED
    BY <1>3, <2>2, <2>3, <2>4, <2>5, <2>6, Zenon
<1>5. /\ first \in Nat /\ S <= first /\ first < (A + 1) * L
      /\ first + length <= (A + N) * L /\ ((A + N) - 1) * L < first + length
  <2>1. (A + N) - 1 = A + N - 1
    BY <1>2
  <2>2. (A + N - 1) * L < first + length
    BY <1>2, <1>3, <1>4
  <2> QED
    BY <1>2, <1>3, <1>4, <2>1, <2>2
<1>6. ASSUME NEW u \in first .. first + length - 1
      PROVE  u \div L \in PagesIn(req.range)
  <2>1. PICK p : p = u \div L
    OBVIOUS
  <2>2. u \in Nat /\ S <= u /\ u < (A + N) * L
    <3>1. (A + N) * L \in Nat
      BY <1>2
    <3> QED
      BY <1>2, <1>5, <1>3, <3>1
  <2>3. p \in Nat /\ p * L <= u /\ u < (p + 1) * L
    BY <1>2, <2>1, <2>2, DivBounds
  <2>4. p < A + N
    <3>1. A + N <= p => (A + N) * L <= p * L
      BY <1>2, <2>3, TimesOrder
    <3>2. (A + N) * L \in Nat /\ p * L \in Nat
      BY <1>2, <2>3
    <3> QED
      BY <1>2, <2>2, <2>3, <3>1, <3>2
  <2>5. A <= p
    <3>1. p + 1 <= A => (p + 1) * L <= S
      BY <1>1, <1>2, <2>3, TimesOrder
    <3>2. (p + 1) * L \in Nat
      BY <1>2, <2>3
    <3> QED
      BY <1>2, <1>3, <2>2, <2>3, <3>1, <3>2
  <2>6. p \in A .. A + N - 1
    BY <1>2, <2>3, <2>4, <2>5
  <2> QED
    BY <1>1, <2>1, <2>6, Zenon DEF PagesIn
<1>7. /\ first \in Nat /\ length \in Nat /\ A \in Nat /\ N \in Nat \ {0}
      /\ A * L <= first
  BY <1>1, <1>2, <1>5, Zenon
<1> QED
  BY <1>1, <1>5, <1>6, <1>7, Zenon

\* The pieces of a request for length units from number first on are for these
\* units, each for some of its own.
LEMMA PiecesOfUnits ==
  ASSUME NEW req, NEW first, NEW length, Spans(req, first, length)
  PROVE  LET pieces == PageRequests(req, LogicalPageSize)
             units(i) == UnitsIn(pieces[i], LogicalPageSize)
         IN /\ UNION {units(i) : i \in DOMAIN pieces} = first .. first + length - 1
            /\ length > 0 => \A i \in DOMAIN pieces : units(i) # {}
            /\ \A i, j \in DOMAIN pieces : i # j => units(i) \cap units(j) = {}
<1> DEFINE pieces == PageRequests(req, LogicalPageSize)
           units(i) == UnitsIn(pieces[i], LogicalPageSize)
           A == req.range.slpn
           N == req.range.nlp
           D == first .. first + length - 1
<1>1. DOMAIN pieces = 1 .. N /\ \A i \in 1 .. N : pieces[i] = PieceOf(req, i)
  BY PiecesMade, Zenon
<1> HIDE DEF pieces
<1>2. ASSUME NEW i \in 1 .. N
      PROVE  /\ units(i) = {u \in D : u \div LogicalPageSize = A + i - 1}
             /\ length > 0 => units(i) # {}
  <2>1. units(i) = UnitsIn(PieceOf(req, i), LogicalPageSize)
    BY <1>1, Zenon
  <2>2. /\ UnitsIn(PieceOf(req, i), LogicalPageSize) =
              {u \in D : u \div LogicalPageSize = A + i - 1}
        /\ length > 0 => UnitsIn(PieceOf(req, i), LogicalPageSize) # {}
    BY UnitsOfPiece
  <2> HIDE DEF units
  <2> QED
    BY <2>1, <2>2, Zenon
<1>3. A \in Nat /\ N \in Nat
  BY DEF Spans
<1>4. \A u \in D : u \div LogicalPageSize \in A .. A + N - 1
  BY SpansEnds, Zenon DEF PagesIn
<1> HIDE DEF units, D
<1>5. \A u \in D : \E i \in 1 .. N : u \in units(i)
  <2> TAKE u \in D
  <2>1. PICK p : p = u \div LogicalPageSize /\ p \in A .. A + N - 1
    BY <1>4
  <2>2. p - A + 1 \in 1 .. N /\ A + (p - A + 1) - 1 = p
    BY <1>3, <2>1
  <2>3. u \in units(p - A + 1)
    BY <1>2, <2>1, <2>2
  <2> QED
    BY <2>2, <2>3, Zenon
<1>6. UNION {units(i) : i \in DOMAIN pieces} = D
  <2>1. \A i \in 1 .. N : units(i) \subseteq D
    BY <1>2, Zenon
  <2> QED
    BY <1>1, <1>5, <2>1, Zenon
<1>7. ASSUME NEW i \in 1 .. N, NEW j \in 1 .. N, i # j
      PROVE  units(i) \cap units(j) = {}
  <2>1. A + i - 1 # A + j - 1
    BY <1>3, <1>7
  <2>2. \A u : u \in units(i) => u \div LogicalPageSize = A + i - 1
    BY <1>2, Zenon
  <2>3. \A u : u \in units(j) => u \div LogicalPageSize = A + j - 1
    BY <1>2, Zenon
  <2> QED
    BY <2>1, <2>2, <2>3, Zenon
<1>8. \A i \in DOMAIN pieces : length > 0 => units(i) # {}
  BY <1>1, <1>2, Zenon
<1>9. \A i, j \in DOMAIN pieces : i # j => units(i) \cap units(j) = {}
  BY <1>1, <1>7, Zenon
<1> QED
  BY <1>6, <1>8, <1>9, Zenon DEF units, D, pieces

\* Cut into whole pages, it is for the units of its pages.
LEMMA WholePagesUnits ==
  ASSUME NEW req, req.range.slpn \in Nat, req.range.nlp \in Nat
  PROVE  LET pieces == WholePages(req, LogicalPageSize)
             units(i) == UnitsIn(pieces[i], LogicalPageSize)
         IN /\ UNION {units(i) : i \in DOMAIN pieces} \subseteq Int
            /\ \A u \in Int :
                 u \in UNION {units(i) : i \in DOMAIN pieces} <=>
                   u \div LogicalPageSize \in PagesIn(req.range)
<1> DEFINE pieces == WholePages(req, LogicalPageSize)
           units(i) == UnitsIn(pieces[i], LogicalPageSize)
           A == req.range.slpn
           N == req.range.nlp
           page(i) == A + i - 1
<1>1. /\ DOMAIN pieces = 1 .. N
      /\ \A i \in 1 .. N : pieces[i] = Request(A + i - 1, 1, 0, LogicalPageSize)
  BY DEF WholePages
<1>2. LogicalPageSize \in Nat \ {0}
  BY SubsystemAssumption
<1> HIDE DEF pieces
<1>3. ASSUME NEW i \in 1 .. N
      PROVE  /\ page(i) \in Nat /\ units(i) \subseteq Int
             /\ \A u \in Int : u \in units(i) <=> u \div LogicalPageSize = page(i)
  <2>1. PICK p, L : p = page(i) /\ L = LogicalPageSize
    OBVIOUS
  <2>2. p \in Nat /\ L \in Nat
    BY <1>2, <2>1
  <2>3. /\ p * L \in Nat
        /\ \A u \in Int : u \div L = p <=> p * L <= u /\ u < p * L + L
    BY <2>1, <2>2, UnitsOfPage, Zenon
  <2>4. PICK a : a = p * L
    OBVIOUS
  <2>5. units(i) = a + 0 .. a + 0 + L - 1
    <3>1. PICK piece : piece = pieces[i]
      OBVIOUS
    <3>2. piece = Request(p, 1, 0, L)
      BY <1>1, <2>1, <3>1, Zenon
    <3>3. piece.range.slpn = p /\ piece.offset = 0 /\ piece.length = L
      BY <3>2 DEF Request, LPNRange
    <3> QED
      BY <2>1, <2>4, <3>1, <3>3, Zenon DEF UnitsIn
  <2>6. /\ units(i) \subseteq Int
        /\ \A u \in Int : u \in units(i) <=> a <= u /\ u < a + L
    <3>1. PICK U : U = units(i)
      OBVIOUS
    <3>2. U = a + 0 .. a + 0 + L - 1 /\ a \in Nat
      BY <2>3, <2>4, <2>5, <3>1, Zenon
    <3>3. U \subseteq Int /\ \A u \in Int : u \in U <=> a <= u /\ u < a + L
      BY ONLY <2>2, <3>2
    <3> QED
      BY <3>1, <3>3, Zenon
  <2> QED
    BY <2>1, <2>2, <2>3, <2>4, <2>6, Zenon
<1> HIDE DEF units, page
<1>4. ASSUME NEW u \in Int
      PROVE  (\E i \in 1 .. N : u \in units(i)) <=> u \div LogicalPageSize \in A .. A + N - 1
  <2>1. PICK p : p = u \div LogicalPageSize
    OBVIOUS
  <2>2. p \in Int
    BY <1>2, <2>1
  <2>3. (\E i \in 1 .. N : p = page(i)) <=> p \in A .. A + N - 1
    <3>1. ASSUME NEW i \in 1 .. N, p = page(i) PROVE p \in A .. A + N - 1
      BY <3>1 DEF page
    <3>2. ASSUME p \in A .. A + N - 1 PROVE \E i \in 1 .. N : p = page(i)
      <4>1. p - A + 1 \in 1 .. N /\ p = page(p - A + 1)
        BY <2>2, <3>2 DEF page
      <4> QED
        BY <4>1, Zenon
    <3> QED
      BY <3>1, <3>2, Zenon
  <2> QED
    BY <1>3, <2>1, <2>3, Zenon
<1>5. UNION {units(i) : i \in DOMAIN pieces} \subseteq Int
  BY <1>1, <1>3, Zenon
<1> QED
  BY <1>1, <1>4, <1>5, Zenon DEF units, pieces, PagesIn

\* LBAs and logical pages divide each other.
AlignedLBAs ==
  \A lba \in LBASize : LogicalPageSize % lba = 0 \/ lba % LogicalPageSize = 0

LEMMA TimesThree ==
  ASSUME NEW a \in Int, NEW b \in Int, NEW c \in Int
  PROVE  (a * b) * c = a * (b * c)
  OBVIOUS

LEMMA DividesExactly ==
  ASSUME NEW a \in Nat, NEW b \in Nat \ {0}, a % b = 0
  PROVE  a \div b \in Nat /\ a = (a \div b) * b
  OBVIOUS

LEMMA DividesRest ==
  ASSUME NEW a \in Nat, NEW b \in Nat \ {0}
  PROVE  /\ a \div b \in Nat /\ a % b \in 0 .. b - 1
         /\ a = (a \div b) * b + (a % b)
  OBVIOUS

\* Either a whole number of LBAs makes a page, or one of pages an LBA.
LEMMA LBAsOfPage ==
  ASSUME AlignedLBAs, NEW lba \in LBASize
  PROVE  LET L == LogicalPageSize IN
         IF L \div lba = 0 THEN lba \div L \in Nat \ {0} /\ lba = (lba \div L) * L
         ELSE L \div lba \in Nat \ {0} /\ L = (L \div lba) * lba
<1>1. PICK L : L = LogicalPageSize
  OBVIOUS
<1>2. L \in Nat \ {0} /\ lba \in Nat \ {0} /\ (L % lba = 0 \/ lba % L = 0)
  BY <1>1, SubsystemAssumption DEF AlignedLBAs
<1>3. PICK ratio : ratio = L \div lba
  OBVIOUS
<1>4. ratio \in Nat /\ ratio * lba <= L /\ L < (ratio + 1) * lba
  BY <1>2, <1>3, DivBounds
<1>5. CASE ratio = 0
  <2>1. L < lba
    BY <1>2, <1>4, <1>5
  <2>2. L % lba # 0
    BY <1>2, <2>1
  <2>3. lba % L = 0
    BY <1>2, <2>2
  <2>4. PICK pages : pages = lba \div L
    OBVIOUS
  <2>5. pages \in Nat /\ lba = pages * L
    BY <1>2, <2>3, <2>4, DividesExactly
  <2>6. pages # 0
    BY <1>2, <2>5
  <2> QED
    BY <1>1, <1>3, <1>5, <2>4, <2>5, <2>6
<1>6. CASE ratio # 0
  <2>1. CASE L % lba = 0
    <3>1. L = ratio * lba
      BY <1>2, <1>3, <2>1, DividesExactly
    <3> QED
      BY <1>1, <1>3, <1>4, <1>6, <3>1
  <2>2. CASE lba % L = 0
    <3>1. PICK pages : pages = lba \div L
      OBVIOUS
    <3>2. pages \in Nat /\ lba = pages * L
      BY <1>2, <2>2, <3>1, DividesExactly
    <3>3. lba <= L
      <4>1. 1 * lba <= ratio * lba /\ ratio * lba \in Nat
        BY <1>2, <1>4, <1>6, TimesOrder
      <4> QED
        BY <1>2, <1>4, <4>1
    <3>4. pages = 1
      <4>1. pages # 0
        BY <1>2, <3>2
      <4>2. pages >= 2 => 2 * L <= pages * L
        BY <1>2, <3>2, TimesOrder
      <4> QED
        BY <1>2, <3>2, <3>3, <4>1, <4>2
    <3>5. lba = L
      BY <1>2, <3>2, <3>4
    <3>6. ratio = 1
      BY <1>2, <1>3, <3>5
    <3>7. L = ratio * lba
      BY <1>2, <3>5, <3>6
    <3> QED
      BY <1>1, <1>3, <1>4, <1>6, <3>7
  <2> QED
    BY <1>2, <2>1, <2>2
<1> QED
  BY <1>1, <1>3, <1>5, <1>6, Zenon

\* CeilDiv() rounds up.
LEMMA CeilBounds ==
  ASSUME NEW a \in Nat, NEW b \in Nat \ {0}
  PROVE  /\ CeilDiv(a, b) \in Nat /\ a <= CeilDiv(a, b) * b
         /\ CeilDiv(a, b) > 0 => (CeilDiv(a, b) - 1) * b < a
<1>1. PICK c : c = CeilDiv(a, b)
  OBVIOUS
<1>2. c \in Nat /\ c * b <= a + b - 1 /\ a + b - 1 < (c + 1) * b
  <2>1. a + b - 1 \in Nat /\ c = (a + b - 1) \div b
    BY <1>1 DEF CeilDiv
  <2> QED
    BY <2>1, DivBounds
<1>3. (c + 1) * b = c * b + b /\ (c - 1) * b = c * b - b /\ c * b \in Nat
  BY <1>2
<1> QED
  BY <1>1, <1>2, <1>3

\* convertUnit() asks for the units of the LBAs, where their pages are.
LEMMA ConvertedUnits ==
  ASSUME AlignedLBAs, NEW ns, ns.range.slpn \in Nat, ns.lbaSize \in LBASize,
         NEW slba \in Nat, NEW nlblk \in Nat,
         convertUnit(ns, slba, nlblk).range.nlp > 0
  PROVE  Spans(convertUnit(ns, slba, nlblk),
               ns.range.slpn * LogicalPageSize + slba * ns.lbaSize, nlblk * ns.lbaSize)
<1>1. PICK L, lba, A, ratio, pages, length, req :
        /\ L = LogicalPageSize /\ lba = ns.lbaSize /\ A = ns.range.slpn
        /\ ratio = L \div lba /\ pages = lba \div L /\ length = nlblk * lba
        /\ req = convertUnit(ns, slba, nlblk)
  OBVIOUS
<1>2. L \in Nat \ {0} /\ lba \in Nat \ {0} /\ A \in Nat
  BY <1>1, SubsystemAssumption
<1>3. IF ratio = 0 THEN pages \in Nat \ {0} /\ lba = pages * L
      ELSE ratio \in Nat \ {0} /\ L = ratio * lba
  BY <1>1, LBAsOfPage, Zenon
<1>4. req = IF ratio = 0 THEN Request(A + slba * pages, nlblk * pages, 0, length)
            ELSE Request(A + (slba \div ratio), CeilDiv(nlblk + (slba % ratio), ratio),
                         (slba % ratio) * lba, length)
  BY <1>1, Zenon DEF convertUnit
<1>5. req.range.nlp > 0
  BY <1>1
<1>6. length \in Nat /\ length = nlblk * lba
  BY <1>1, <1>2, TimesOrder
<1>11. L = LogicalPageSize
  BY <1>1
<1>7. PICK first : first = A * L + slba * lba
  OBVIOUS
<1> SUFFICES Spans(req, first, length)
  BY <1>1, <1>7, Zenon
<1>8. CASE ratio = 0
  <2>1. PICK t, n : t = slba * pages /\ n = nlblk * pages
    OBVIOUS
  <2>2. /\ req.range.slpn = A + t /\ req.range.nlp = n
        /\ req.offset = 0 /\ req.length = length
    BY <1>4, <1>8, <2>1 DEF Request, LPNRange
  <2>3. pages \in Nat \ {0} /\ lba = pages * L
    BY <1>3, <1>8
  <2>4. t \in Nat /\ n \in Nat
    BY <2>1, <2>3, TimesOrder
  <2>5. n \in Nat \ {0}
    BY <1>5, <2>2, <2>4
  <2>6. slba * lba = t * L /\ length = n * L
    BY <1>2, <1>6, <2>1, <2>3, TimesThree
  <2>7. (A + t) * L + 0 = first
    <3>1. (A + t) * L = A * L + t * L /\ A * L \in Int /\ t * L \in Int
      BY <1>2, <2>4, TimesSum
    <3> QED
      BY <1>7, <2>6, <3>1
  <2>8. 0 + length <= n * L /\ (n - 1) * L < 0 + length
    <3>1. (n - 1) * L = n * L - L /\ n * L \in Nat
      BY <1>2, <2>5
    <3> QED
      BY <1>2, <2>6, <3>1
  <2>9. 0 \in 0 .. L - 1
    BY <1>2
  <2>10. A + t \in Nat
    BY <1>2, <2>4
  <2>20. /\ req.range.slpn \in Nat /\ req.range.nlp \in Nat \ {0} /\ req.length = length
         /\ req.offset \in 0 .. LogicalPageSize - 1
    BY <1>11, <2>2, <2>5, <2>9, <2>10, Zenon
  <2>21. req.range.slpn * LogicalPageSize + req.offset = first
    BY <1>11, <2>2, <2>7, Zenon
  <2>22. req.offset + length <= req.range.nlp * LogicalPageSize
    BY <1>11, <2>2, <2>8, Zenon
  <2>23. (req.range.nlp - 1) * LogicalPageSize < req.offset + length
    BY <1>11, <2>2, <2>8, Zenon
  <2> QED
    BY <1>6, <2>20, <2>21, <2>22, <2>23, Zenon DEF Spans
<1>9. CASE ratio # 0
  <2>1. PICK q, m, c : q = slba \div ratio /\ m = slba % ratio /\ c = CeilDiv(nlblk + m, ratio)
    OBVIOUS
  <2>2. PICK o : o = m * lba
    OBVIOUS
  <2>3. /\ req.range.slpn = A + q /\ req.range.nlp = c
        /\ req.offset = o /\ req.length = length
    BY <1>4, <1>9, <2>1, <2>2 DEF Request, LPNRange
  <2>4. ratio \in Nat \ {0} /\ L = ratio * lba
    BY <1>3, <1>9
  <2>5. q \in Nat /\ m \in 0 .. ratio - 1 /\ slba = q * ratio + m
    BY <2>1, <2>4, DividesRest
  <2>6. PICK e : e = nlblk + m
    OBVIOUS
  <2>7. e \in Nat /\ c \in Nat /\ e <= c * ratio /\ (c > 0 => (c - 1) * ratio < e)
    <3>1. e \in Nat
      BY <2>4, <2>5, <2>6
    <3>2. c = CeilDiv(e, ratio)
      BY <2>1, <2>6, Zenon
    <3> QED
      BY <2>4, <3>1, <3>2, CeilBounds, Zenon
  <2>8. c > 0 /\ c \in Nat \ {0} /\ c - 1 \in Nat
    BY <1>5, <2>3, <2>7
  <2>9. o \in 0 .. L - 1
    <3>1. m * lba \in Nat /\ (m + 1) * lba <= ratio * lba /\ (m + 1) * lba = m * lba + lba
      BY <1>2, <2>4, <2>5, TimesOrder
    <3>2. PICK z : z = (m + 1) * lba
      OBVIOUS
    <3> QED
      BY <1>2, <2>2, <2>4, <3>1, <3>2
  <2>10. o + length = e * lba
    BY <1>2, <1>6, <2>2, <2>5, <2>6, TimesSum
  <2>11. o + length <= c * L
    <3>1. e * lba <= (c * ratio) * lba
      BY <1>2, <2>4, <2>7, TimesOrder
    <3>2. (c * ratio) * lba = c * L
      BY <1>2, <2>4, <2>7, TimesThree
    <3> QED
      BY <2>10, <3>1, <3>2
  <2>12. (c - 1) * L < o + length
    <3>1. PICK d, w : d = c - 1 /\ w = d * ratio
      OBVIOUS
    <3>2. d \in Nat /\ w \in Nat /\ w < e
      BY <2>4, <2>7, <2>8, <3>1, TimesOrder
    <3>3. w * lba < e * lba
      <4>1. ~(e * lba <= w * lba)
        BY <1>2, <2>7, <3>2, TimesOrder
      <4>2. e * lba \in Nat /\ w * lba \in Nat
        BY <1>2, <2>7, <3>2, TimesOrder
      <4> QED
        BY <4>1, <4>2
    <3>4. w * lba = d * L
      BY <1>2, <2>4, <3>1, <3>2, TimesThree
    <3> QED
      BY <2>10, <3>1, <3>3, <3>4, Zenon
  <2>13. (A + q) * L + o = first
    <3>1. (A + q) * L = A * L + q * L /\ A * L \in Int /\ q * L \in Int
      BY <1>2, <2>5, TimesSum
    <3>2. (q * ratio) * lba = q * L
      BY <1>2, <2>4, <2>5, TimesThree
    <3>3. slba * lba = (q * ratio) * lba + m * lba
      <4>1. q * ratio \in Int
        BY <2>4, <2>5
      <4> QED
        BY <1>2, <2>5, <4>1, TimesSum
    <3>4. o \in Int
      BY <2>9
    <3>5. PICK x, y : x = A * L /\ y = q * L
      OBVIOUS
    <3>6. (A + q) * L = x + y /\ slba * lba = y + o /\ first = x + slba * lba /\ x \in Int /\ y \in Int
      BY <1>7, <2>2, <3>1, <3>2, <3>3, <3>5, Zenon
    <3>7. x + y + o = x + (y + o)
      BY <3>4, <3>6
    <3> QED
      BY <3>6, <3>7, Zenon
  <2>14. A + q \in Nat
    BY <1>2, <2>5
  <2>20. /\ req.range.slpn \in Nat /\ req.range.nlp \in Nat \ {0} /\ req.length = length
         /\ req.offset \in 0 .. LogicalPageSize - 1
    BY <1>11, <2>3, <2>8, <2>9, <2>14, Zenon
  <2>21. req.range.slpn * LogicalPageSize + req.offset = first
    BY <1>11, <2>3, <2>13, Zenon
  <2>22. req.offset + length <= req.range.nlp * LogicalPageSize
    BY <1>11, <2>3, <2>11, Zenon
  <2>23. (req.range.nlp - 1) * LogicalPageSize < req.offset + length
    BY <1>11, <2>3, <2>12, Zenon
  <2> QED
    BY <1>6, <2>20, <2>21, <2>22, <2>23, Zenon DEF Spans
<1> QED
  BY <1>8, <1>9, Zenon

-----------------------------------------------------------------------------
(* What an I/O command asks for, and of which namespace. *)

Alike(x, y) ==
  x.nsid = y.nsid /\ x.range = y.range /\ x.size = y.size /\ x.lbaSize = y.lbaSize

\* Its namespace is there, has its LBAs, and its request, if it was converted, is
\* for them.
ForNamespace(arg, S) ==
  /\ arg.nsid \in NSIDsOf(S)
  /\ \A ns \in S : ns.nsid = arg.nsid =>
       /\ arg.io.slba + arg.io.nlb <= ns.size
       /\ arg.request = Request(0, 0, 0, 0) \/ arg.request = RequestOf(ns, arg.io)

\* Without a namespace it was refused when it came.
IoSound(q, S) ==
  q.op = "io" =>
    /\ q.arg = [nsid |-> q.arg.nsid, io |-> q.arg.io, request |-> q.arg.request]
    /\ q.arg.io \in IORequests
    /\ \/ q.arg.request = Request(0, 0, 0, 0) /\ q.stages = <<>>
       \/ ForNamespace(q.arg, S)

IoInv ==
  /\ command = [s \in Slot |-> command[s]]
  /\ \A s \in Slot : IsCommand(command[s]) /\ IoSound(command[s], lNamespaces)
  /\ \A ns \in lNamespaces : ns.lbaSize \in LBASize

\* What became of a command asks for nothing else.
Keeps(r, q) ==
  /\ IsCommand(r)
  /\ r.op = "io" => q.op = "io" /\ r.arg = q.arg /\ (q.stages = <<>> => r.stages = <<>>)

LEMMA KeptSound ==
  ASSUME NEW q, NEW r, NEW S, IoSound(q, S), Keeps(r, q)
  PROVE  IoSound(r, S)
BY Zenon DEF IoSound, Keeps

\* Namespaces change for no command that is under way.
LEMMA SoundUnder ==
  ASSUME NEW q, NEW S, NEW T, IoSound(q, S),
         q.op = "io" /\ q.arg.nsid \in NSIDsOf(S) =>
           /\ q.arg.nsid \in NSIDsOf(T)
           /\ \A x \in T : x.nsid = q.arg.nsid => \E y \in S : Alike(x, y)
  PROVE  IoSound(q, T)
<1>1. ASSUME NEW arg, ForNamespace(arg, S), arg.nsid \in NSIDsOf(T),
             \A x \in T : x.nsid = arg.nsid => \E y \in S : Alike(x, y)
      PROVE  ForNamespace(arg, T)
  <2>1. ASSUME NEW x \in T, x.nsid = arg.nsid
        PROVE  /\ arg.io.slba + arg.io.nlb <= x.size
               /\ arg.request = Request(0, 0, 0, 0) \/ arg.request = RequestOf(x, arg.io)
    <3>1. PICK y \in S : Alike(x, y)
      BY <1>1, <2>1, Zenon
    <3>2. RequestOf(x, arg.io) = RequestOf(y, arg.io)
      BY <3>1, Zenon DEF Alike, RequestOf, convertUnit
    <3>3. /\ arg.io.slba + arg.io.nlb <= y.size
          /\ arg.request = Request(0, 0, 0, 0) \/ arg.request = RequestOf(y, arg.io)
      BY <1>1, <2>1, <3>1, Zenon DEF ForNamespace, Alike
    <3> QED
      BY <3>1, <3>2, <3>3, Zenon DEF Alike
  <2> QED
    BY <1>1, <2>1, Zenon DEF ForNamespace
<1>2. ForNamespace(q.arg, S) => q.arg.nsid \in NSIDsOf(S)
  BY Zenon DEF ForNamespace
<1> QED
  BY <1>1, <1>2, Zenon DEF IoSound

LEMMA SlotIo ==
  ASSUME IoInv, NEW s, NEW x, command' = [command EXCEPT ![s] = x],
         s \in Slot => IsCommand(x) /\ IoSound(x, lNamespaces'),
         \A t \in Slot : IoSound(command[t], lNamespaces'),
         \A ns \in lNamespaces' : ns.lbaSize \in LBASize
  PROVE  IoInv'
<1>1. command' = [t \in Slot |-> IF t = s THEN x ELSE command[t]]
  BY DEF IoInv
<1>2. /\ command' = [t \in Slot |-> command'[t]]
      /\ \A t \in Slot : command'[t] = IF t = s THEN x ELSE command[t]
  BY <1>1
<1>3. \A t \in Slot : IsCommand(command'[t]) /\ IoSound(command'[t], lNamespaces')
  BY <1>2, Zenon DEF IoInv
<1> QED
  BY <1>2, <1>3, Zenon DEF IoInv

LEMMA SlotKeeps ==
  ASSUME IoInv, NEW s, NEW x, command' = [command EXCEPT ![s] = x],
         s \in Slot => Keeps(x, command[s]), UNCHANGED lNamespaces
  PROVE  IoInv'
<1>1. s \in Slot => IsCommand(x) /\ IoSound(x, lNamespaces)
  BY KeptSound, Zenon DEF IoInv, Keeps
<1>2. /\ \A t \in Slot : IoSound(command[t], lNamespaces)
      /\ \A ns \in lNamespaces : ns.lbaSize \in LBASize
  BY Zenon DEF IoInv
<1> QED
  BY <1>1, <1>2, SlotIo, Zenon

\* A command that is no I/O command comes.
LEMMA OtherKeeps ==
  ASSUME NEW op, op # "io", NEW arg, NEW p, NEW stages, NEW q
  PROVE  LET r == Command(op, arg, p, stages) IN
         Keeps(r, q) /\ Keeps(Begin(r), q) /\ Keeps(Fail(r), q)
<1>1. PICK r : r = Command(op, arg, p, stages)
  OBVIOUS
<1>2. IsCommand(r) /\ r.op = op
  BY ONLY <1>1, CommandFields
<1>3. /\ IsCommand(Begin(r)) /\ Begin(r).op = op
      /\ IsCommand(Fail(r)) /\ Fail(r).op = op
  BY <1>2, BeginCommand, FailQuiet, Zenon
<1> QED
  BY <1>1, <1>2, <1>3, Zenon DEF Keeps

LEMMA SubmitKeeps ==
  ASSUME IoInv, NEW s, NEW x, Submit(s, x), s \in Slot => Keeps(x, command[s]),
         UNCHANGED lNamespaces
  PROVE  IoInv'
<1>1. command' = [command EXCEPT ![s] = x]
  BY DEF Submit
<1> QED
  BY <1>1, SlotKeeps, Zenon

\* A stage ends.
LEMMA StageKeeps ==
  ASSUME IoInv, NEW s \in Slot, NEW stage, NEW r \in StageEnded(s, stage)
  PROVE  /\ IsCommand(r) /\ r.op = command[s].op /\ r.arg = command[s].arg
         /\ r.stages = command[s].stages /\ r.stages # <<>>
         /\ Keeps(NextStage(r), command[s]) /\ Keeps(Fail(r), command[s])
<1>1. IsCommand(command[s])
  BY DEF IoInv
<1>2. /\ IsCommand(r) /\ r.op = command[s].op /\ r.arg = command[s].arg
      /\ r.stages = command[s].stages /\ r.stages # <<>>
  BY <1>1, StageEndedFields, Zenon
<1>3. IsCommand(NextStage(r)) /\ NextStage(r).op = r.op /\ NextStage(r).arg = r.arg
  BY <1>2, NextStageQuiet, Zenon
<1>4. IsCommand(Fail(r)) /\ Fail(r).op = r.op /\ Fail(r).arg = r.arg
  BY <1>2, FailQuiet, Zenon
<1> QED
  BY <1>2, <1>3, <1>4, Zenon DEF Keeps

LEMMA EndsKeep ==
  ASSUME IoInv, NEW s \in Slot, NEW stage, NEW r \in StageEnded(s, stage),
         \/ command' = [command EXCEPT ![s] = NextStage(r)]
         \/ command' = [command EXCEPT ![s] = Fail(r)],
         UNCHANGED lNamespaces
  PROVE  IoInv'
BY StageKeeps, SlotKeeps, Zenon

LEMMA GoesOnKeeps ==
  ASSUME IoInv, NEW s \in Slot, NEW stages, GoesOn(s, stages), UNCHANGED lNamespaces
  PROVE  IoInv'
<1>1. PICK r \in StageEnded(s, Head(command[s].stages)) :
        command' = [command EXCEPT ![s] = NextStage(r)]
  BY Zenon DEF GoesOn
<1> QED
  BY <1>1, EndsKeep, Zenon

LEMMA PieceEndsKeeps ==
  ASSUME IoInv, NEW s \in Slot, PieceEnds(s), UNCHANGED lNamespaces
  PROVE  IoInv'
<1>1. PICK piece, r :
        r = EndPiece(command[s], piece) /\ command' = [command EXCEPT ![s] = r]
  BY Zenon DEF PieceEnds
<1>2. Keeps(r, command[s])
  <2>1. IsCommand(command[s])
    BY DEF IoInv
  <2> QED
    BY <1>1, <2>1, EndPieceFields, Zenon DEF Keeps
<1> QED
  BY <1>1, <1>2, SlotKeeps, Zenon

\* A namespace is created under an NSID that no command under way has found.
LEMMA CreateIo ==
  ASSUME DeviceInv, IoInv, kind = "nvm", NEW s \in Slot, Create(s)
  PROVE  IoInv'
<1>1. PICK r, range :
        /\ r \in StageEnded(s, "in")
        /\ IF range.nlp = 0
           THEN command' = [command EXCEPT ![s] = Fail(r)] /\ UNCHANGED lNamespaces
           ELSE /\ command' = [command EXCEPT ![s] = NextStage(r)]
                /\ lNamespaces' = lNamespaces \cup
                     {Namespace(r.arg.nsid, range, r.arg.new[1], r.arg.new[2], FALSE)}
  BY Zenon DEF Create
<1>2. CASE range.nlp = 0
  BY <1>1, <1>2, EndsKeep, Zenon
<1>3. CASE range.nlp # 0
  <2>1. PICK x : x = Namespace(r.arg.nsid, range, r.arg.new[1], r.arg.new[2], FALSE)
    OBVIOUS
  <2>2. x.nsid = r.arg.nsid /\ x.lbaSize = r.arg.new[2]
    BY <2>1 DEF Namespace
  <2>3. /\ command' = [command EXCEPT ![s] = NextStage(r)]
        /\ lNamespaces' = lNamespaces \cup {x}
    BY <1>1, <1>3, <2>1, Zenon
  <2>4. /\ r.arg = command[s].arg /\ command[s].stages # <<>> /\ command[s].op = "create"
        /\ Keeps(NextStage(r), command[s])
    BY <1>1, StageKeeps, Zenon DEF Create
  <2>5. r.arg.nsid \notin NSIDsOf(lNamespaces) /\ r.arg.new \in NewNamespace
    BY <2>4, Zenon DEF DeviceInv, Creations, Creates
  <2>6. x.lbaSize \in LBASize
    BY <2>2, <2>5, SubsystemAssumption, Zenon
  <2>7. ASSUME NEW q, IoSound(q, lNamespaces) PROVE IoSound(q, lNamespaces')
    <3>1. NSIDsOf(lNamespaces) \subseteq NSIDsOf(lNamespaces')
      BY <2>3, Zenon DEF NSIDsOf
    <3>2. ASSUME NEW y \in lNamespaces', y.nsid \in NSIDsOf(lNamespaces)
          PROVE  \E z \in lNamespaces : Alike(y, z)
      <4>1. y \in lNamespaces
        BY <2>2, <2>3, <2>5, <3>2, Zenon
      <4> QED
        BY <4>1, Zenon DEF Alike
    <3> QED
      BY <2>7, <3>1, <3>2, SoundUnder, Zenon
  <2>8. IsCommand(NextStage(r)) /\ IoSound(NextStage(r), lNamespaces)
    BY <2>4, KeptSound, Zenon DEF IoInv, Keeps
  <2>9. /\ \A t \in Slot : IoSound(command[t], lNamespaces)
        /\ \A ns \in lNamespaces : ns.lbaSize \in LBASize
    BY Zenon DEF IoInv
  <2>10. \A ns \in lNamespaces' : ns.lbaSize \in LBASize
    BY <2>3, <2>6, <2>9, Zenon
  <2> QED
    BY <2>3, <2>7, <2>8, <2>9, <2>10, SlotIo, Zenon
<1> QED
  BY <1>2, <1>3, Zenon

\* A namespace no command uses is taken away or changed.
LEMMA UnusedChanges ==
  ASSUME IoInv, NEW s \in Slot, NEW x, NEW nsid, ~InUse(nsid),
         command' = [command EXCEPT ![s] = x], Keeps(x, command[s]),
         \A y : y.nsid # nsid => (y \in lNamespaces' <=> y \in lNamespaces),
         \A y \in lNamespaces' : y.lbaSize \in LBASize
  PROVE  IoInv'
<1>1. ASSUME NEW t \in Slot, NEW q, Keeps(q, command[t])
      PROVE  IoSound(q, lNamespaces')
  <2>1. command[t].op = "io" => command[t].arg.nsid # nsid
    BY Zenon DEF InUse
  <2>2. IoSound(q, lNamespaces)
    BY <1>1, KeptSound, Zenon DEF IoInv
  <2>3. q.op = "io" => q.arg.nsid # nsid
    BY <1>1, <2>1, Zenon DEF Keeps
  <2>4. ASSUME q.op = "io", q.arg.nsid \in NSIDsOf(lNamespaces)
        PROVE  /\ q.arg.nsid \in NSIDsOf(lNamespaces')
               /\ \A y \in lNamespaces' : y.nsid = q.arg.nsid =>
                    \E z \in lNamespaces : Alike(y, z)
    <3>1. PICK y \in lNamespaces : y.nsid = q.arg.nsid
      BY <2>4, Zenon DEF NSIDsOf
    <3>2. y \in lNamespaces'
      BY <2>3, <2>4, <3>1, Zenon
    <3>3. q.arg.nsid \in NSIDsOf(lNamespaces')
      BY <3>1, <3>2, Zenon DEF NSIDsOf
    <3>4. ASSUME NEW z \in lNamespaces', z.nsid = q.arg.nsid
          PROVE  \E a \in lNamespaces : Alike(z, a)
      <4>1. z \in lNamespaces
        BY <2>3, <2>4, <3>4, Zenon
      <4> QED
        BY <4>1, Zenon DEF Alike
    <3> QED
      BY <3>3, <3>4, Zenon
  <2> QED
    BY <2>2, <2>4, SoundUnder, Zenon
<1>2. \A t \in Slot : Keeps(command[t], command[t])
  BY Zenon DEF Keeps, IoInv
<1>3. \A t \in Slot : IoSound(command[t], lNamespaces')
  BY <1>1, <1>2, Zenon
<1>4. IsCommand(x) /\ IoSound(x, lNamespaces')
  BY <1>1, Zenon DEF Keeps
<1> QED
  BY <1>3, <1>4, SlotIo, Zenon

LEMMA DeleteIo ==
  ASSUME IoInv, NEW s \in Slot, NEW nsid, Delete(s, nsid)
  PROVE  IoInv'
<1>1. PICK c, r :
        /\ c = Command("delete", <<>>, NoPointer, <<>>)
        /\ r = IF Named(nsid) = {} THEN Fail(c) ELSE Begin(c)
  OBVIOUS
<1>2. /\ command' = [command EXCEPT ![s] = r] /\ ~InUse(nsid)
      /\ lNamespaces' = lNamespaces \ Named(nsid)
  BY <1>1, Zenon DEF Delete, Submit
<1>3. Keeps(r, command[s])
  <2>1. "delete" # "io"
    OBVIOUS
  <2>2. Keeps(Begin(c), command[s]) /\ Keeps(Fail(c), command[s])
    BY <1>1, <2>1, OtherKeeps, Zenon
  <2> QED
    BY <1>1, <2>2, Zenon
<1>4. \A y : y.nsid # nsid => (y \in lNamespaces' <=> y \in lNamespaces)
  BY <1>2, Zenon DEF Named
<1>5. \A y \in lNamespaces' : y.lbaSize \in LBASize
  BY <1>2, Zenon DEF IoInv
<1> QED
  BY <1>2, <1>3, <1>4, <1>5, UnusedChanges, Zenon

LEMMA FormatIo ==
  ASSUME DeviceInv, IoInv, NEW s \in Slot, NEW nsid, NEW lba \in LBASize,
         FormatNVM(s, nsid, lba)
  PROVE  IoInv'
<1>1. "format" # "io"
  OBVIOUS
<1>2. CASE Named(nsid) = {}
  <2>1. PICK arg : arg = [nsid |-> nsid]
    OBVIOUS
  <2>2. /\ Submit(s, Fail(Command("format", arg, NoPointer, <<>>)))
        /\ UNCHANGED lNamespaces
    BY <1>2, <2>1, Zenon DEF FormatNVM
  <2> QED
    BY <1>1, <2>2, OtherKeeps, SubmitKeeps, Zenon
<1>3. CASE Named(nsid) # {}
  <2>1. PICK x, y, r, size, arg :
          /\ x = Find(nsid) /\ y = [x EXCEPT !.lbaSize = lba, !.size = size]
          /\ r = Begin(Command("format", arg, NoPointer, <<"job", "HIL">>))
          /\ command' = [command EXCEPT ![s] = r] /\ ~InUse(nsid)
          /\ lNamespaces' = (lNamespaces \ Named(nsid)) \cup {y}
    BY <1>3, Zenon DEF FormatNVM, Submit
  <2>2. x \in lNamespaces /\ x.nsid = nsid /\ x \in NamespaceType
    <3>1. Sound(lNamespaces)
      BY DEF DeviceInv, Accounts
    <3>2. x \in lNamespaces /\ x.nsid = nsid
      BY <1>3, <2>1, <3>1, NamedOne, Zenon
    <3> QED
      BY <3>1, <3>2, Zenon DEF Sound
  <2>3. y.nsid = nsid /\ y.lbaSize = lba
    BY <2>1, <2>2 DEF NamespaceType
  <2>4. Keeps(r, command[s])
    BY <1>1, <2>1, OtherKeeps, Zenon
  <2>5. \A z : z.nsid # nsid => (z \in lNamespaces' <=> z \in lNamespaces)
    BY <2>1, <2>3, Zenon DEF Named
  <2>6. \A z \in lNamespaces' : z.lbaSize \in LBASize
    BY <2>1, <2>3, Zenon DEF IoInv
  <2> QED
    BY <2>1, <2>4, <2>5, <2>6, UnusedChanges, Zenon
<1> QED
  BY <1>2, <1>3

\* Attached or detached, a namespace keeps its pages and its LBAs.
LEMMA AttachmentIo ==
  ASSUME DeviceInv, IoInv, NEW s \in Slot, Attachment(s)
  PROVE  IoInv'
<1>0. PICK r \in StageEnded(s, "in") :
        LET found == Named(r.arg.nsid)
            attach == r.arg.sel = "attach"
            ok == IF attach THEN \E ns \in found : ~ns.attached
                  ELSE \A ns \in found : ns.attached
        IN
        /\ command' = [command EXCEPT ![s] = IF ok THEN NextStage(r) ELSE Fail(r)]
        /\ lNamespaces' = (lNamespaces \ found) \cup
                            {[ns EXCEPT !.attached = attach] : ns \in found}
  BY Zenon DEF Attachment
<1> DEFINE nsid == r.arg.nsid
           attach == r.arg.sel = "attach"
<1>1. PICK x :
        /\ x = Fail(r) \/ x = NextStage(r)
        /\ command' = [command EXCEPT ![s] = x]
        /\ lNamespaces' = (lNamespaces \ Named(nsid)) \cup
                            {[ns EXCEPT !.attached = attach] : ns \in Named(nsid)}
  BY <1>0, Zenon
<1> HIDE DEF nsid, attach
<1>2. lNamespaces \subseteq NamespaceType
  BY Zenon DEF DeviceInv, Accounts, Sound
<1>3. ASSUME NEW y \in lNamespaces PROVE Alike([y EXCEPT !.attached = attach], y)
  BY <1>2, <1>3 DEF NamespaceType, Alike
<1>4. \A y \in lNamespaces' : \E z \in lNamespaces : Alike(y, z)
  <2>1. \A y \in lNamespaces : Alike(y, y)
    BY Zenon DEF Alike
  <2>2. Named(nsid) \subseteq lNamespaces
    BY DEF Named
  <2> QED
    BY <1>1, <1>3, <2>1, <2>2, Zenon
<1>5. \A z \in lNamespaces : \E y \in lNamespaces' : y.nsid = z.nsid
  <2> TAKE z \in lNamespaces
  <2>1. CASE z \in Named(nsid)
    <3>1. [z EXCEPT !.attached = attach] \in lNamespaces'
      BY <1>1, <2>1, Zenon
    <3> QED
      BY <1>3, <3>1, Zenon DEF Alike
  <2>2. CASE z \notin Named(nsid)
    BY <1>1, <2>2, Zenon
  <2> QED
    BY <2>1, <2>2
<1>6. ASSUME NEW q, IoSound(q, lNamespaces) PROVE IoSound(q, lNamespaces')
  <2>1. \A n \in NSIDsOf(lNamespaces) : n \in NSIDsOf(lNamespaces')
    BY <1>5, Zenon DEF NSIDsOf
  <2> QED
    BY <1>4, <1>6, <2>1, SoundUnder, Zenon
<1>7. IsCommand(x) /\ IoSound(x, lNamespaces)
  <2>1. Keeps(x, command[s])
    BY <1>1, StageKeeps, Zenon
  <2> QED
    BY <2>1, KeptSound, Zenon DEF IoInv, Keeps
<1>8. /\ \A t \in Slot : IoSound(command[t], lNamespaces)
      /\ \A ns \in lNamespaces : ns.lbaSize \in LBASize
  BY Zenon DEF IoInv
<1>9. \A ns \in lNamespaces' : ns.lbaSize \in LBASize
  BY <1>4, <1>8, Zenon DEF Alike
<1> QED
  BY <1>1, <1>6, <1>7, <1>8, <1>9, SlotIo, Zenon

LEMMA SubmitIOIo ==
  ASSUME IoInv, NEW s \in Slot, NEW nsid, NEW io \in IORequests, SubmitIO(s, nsid, io)
  PROVE  IoInv'
<1>1. PICK arg : arg = [nsid |-> nsid, io |-> io, request |-> Request(0, 0, 0, 0)]
  OBVIOUS
<1>2. /\ arg = [nsid |-> arg.nsid, io |-> arg.io, request |-> arg.request]
      /\ arg.nsid = nsid /\ arg.io = io /\ arg.request = Request(0, 0, 0, 0)
  BY <1>1
<1>3. /\ \A ns \in Named(nsid) : io.slba + io.nlb <= ns.size
      /\ UNCHANGED lNamespaces
  BY Zenon DEF SubmitIO, namespaceVars
<1>4. PICK c, x, p, stages :
        /\ c = Command("io", arg, p, stages) /\ Submit(s, x)
        /\ IF Named(nsid) = {} THEN x = Fail(c) ELSE x = Begin(c)
  <2>1. CASE Named(nsid) = {}
    <3>1. Submit(s, Fail(Command("io", arg, NoPointer, <<>>)))
      BY <1>1, <2>1, Zenon DEF SubmitIO
    <3> QED
      BY <2>1, <3>1, Zenon
  <2>2. CASE Named(nsid) # {}
    <3>1. \E p : Submit(s, Begin(Command("io", arg, p,
                                         <<"SUBMIT_COMMAND">> \o IOStages(io.op, p))))
      BY <1>1, <2>2, Zenon DEF SubmitIO
    <3> QED
      BY <2>2, <3>1, Zenon
  <2> QED
    BY <2>1, <2>2
<1>5. IsCommand(c) /\ c.op = "io" /\ c.arg = arg
  <2>1. c = Command("io", arg, p, stages)
    BY <1>4, Zenon
  <2> QED
    BY ONLY <2>1, CommandFields
<1>6. IsCommand(x) /\ IoSound(x, lNamespaces)
  <2>1. CASE Named(nsid) = {}
    <3>1. x = Fail(c)
      BY <1>4, <2>1, Zenon
    <3>2. IsCommand(x) /\ x.stages = <<>> /\ x.arg = arg
      BY <1>5, <3>1, FailQuiet, Zenon
    <3> QED
      BY <1>2, <3>2, Zenon DEF IoSound
  <2>2. CASE Named(nsid) # {}
    <3>1. x = Begin(c)
      BY <1>4, <2>2, Zenon
    <3>2. IsCommand(x) /\ x.arg = arg
      BY <1>5, <3>1, BeginCommand, Zenon
    <3>3. arg.nsid \in NSIDsOf(lNamespaces)
      <4>1. PICK ns \in lNamespaces : ns.nsid = nsid
        BY <2>2, Zenon DEF Named
      <4> QED
        BY <1>2, <4>1, Zenon DEF NSIDsOf
    <3>4. ForNamespace(arg, lNamespaces)
      BY <1>2, <1>3, <3>3, Zenon DEF ForNamespace, Named
    <3> QED
      BY <1>2, <3>2, <3>4, Zenon DEF IoSound
  <2> QED
    BY <2>1, <2>2
<1>7. command' = [command EXCEPT ![s] = x]
  BY <1>4, Zenon DEF Submit
<1>8. /\ \A t \in Slot : IoSound(command[t], lNamespaces)
      /\ \A ns \in lNamespaces : ns.lbaSize \in LBASize
  BY Zenon DEF IoInv
<1> QED
  BY <1>3, <1>6, <1>7, <1>8, SlotIo, Zenon

\* The request that is made of a command is for its LBAs.
LEMMA ConvertIo ==
  ASSUME DeviceInv, IoInv, NEW s \in Slot, Convert(s)
  PROVE  IoInv'
<1>1. PICK r \in StageEnded(s, "job") :
        \E request \in {RequestOf(ns, r.arg.io) : ns \in Named(r.arg.nsid)} :
          command' = [command EXCEPT ![s] = [NextStage(r) EXCEPT !.arg.request = request]]
  BY Zenon DEF Convert
<1>2. PICK one \in Named(r.arg.nsid) :
        command' = [command EXCEPT ![s] =
          [NextStage(r) EXCEPT !.arg.request = RequestOf(one, r.arg.io)]]
  BY <1>1, Zenon
<1>3. PICK n, a, request, x :
        /\ n = NextStage(r) /\ a = r.arg /\ request = RequestOf(one, a.io)
        /\ x = [n EXCEPT !.arg.request = request]
  OBVIOUS
<1>4. /\ command[s].op = "io" /\ command[s].arg = a /\ command[s].stages # <<>>
      /\ IsCommand(n) /\ (n.op = "io" => n.arg = a)
      /\ UNCHANGED lNamespaces
  <2>1. UNCHANGED lNamespaces /\ command[s].op = "io"
    BY Zenon DEF Convert, namespaceVars
  <2>2. /\ r.arg = command[s].arg /\ command[s].stages # <<>>
        /\ Keeps(NextStage(r), command[s])
    BY StageKeeps, Zenon
  <2> QED
    BY <1>3, <2>1, <2>2, Zenon DEF Keeps
<1>5. /\ a = [nsid |-> a.nsid, io |-> a.io, request |-> a.request]
      /\ a.io \in IORequests /\ ForNamespace(a, lNamespaces)
  BY <1>4, Zenon DEF IoInv, IoSound
<1>6. PICK e : e = [n.arg EXCEPT !.request = request]
  OBVIOUS
<1>7. IsCommand(x) /\ x.op = n.op /\ x.arg = e
  <2>1. n = [op |-> n.op, arg |-> n.arg, pointer |-> n.pointer, data |-> n.data,
             stages |-> n.stages, under |-> n.under, moved |-> n.moved,
             status |-> n.status, answers |-> n.answers]
    BY <1>4 DEF IsCommand
  <2>2. x = [n EXCEPT !.arg = e]
    BY <1>3, <1>6
  <2>3. x = [op |-> n.op, arg |-> e, pointer |-> n.pointer, data |-> n.data,
             stages |-> n.stages, under |-> n.under, moved |-> n.moved,
             status |-> n.status, answers |-> n.answers]
    BY <2>1, <2>2
  <2> QED
    BY <2>3 DEF IsCommand
<1>8. IoSound(x, lNamespaces)
  <2> SUFFICES ASSUME x.op = "io" PROVE IoSound(x, lNamespaces)
    BY Zenon DEF IoSound
  <2>1. n.arg = a
    BY <1>4, <1>7
  <2>2. e = [nsid |-> a.nsid, io |-> a.io, request |-> request]
    BY <1>5, <1>6, <2>1
  <2>3. /\ e = [nsid |-> e.nsid, io |-> e.io, request |-> e.request]
        /\ e.nsid = a.nsid /\ e.io = a.io /\ e.request = request
    BY <2>2
  <2>4. ASSUME NEW ns \in lNamespaces, ns.nsid = a.nsid PROVE ns = one
    <3>1. ns \in Named(a.nsid) /\ one \in Named(a.nsid)
      BY <1>3, <2>4, Zenon DEF Named
    <3>2. Sound(lNamespaces)
      BY DEF DeviceInv, Accounts
    <3>3. Named(a.nsid) = {Find(a.nsid)}
      <4>1. Named(a.nsid) # {}
        BY <3>1
      <4> QED
        BY <3>2, <4>1, NamedOne, Zenon
    <3> QED
      BY <3>1, <3>3
  <2>5. ForNamespace(e, lNamespaces)
    BY <1>3, <1>5, <2>3, <2>4, Zenon DEF ForNamespace
  <2> QED
    BY <1>5, <1>7, <2>3, <2>5, Zenon DEF IoSound
<1>9. command' = [command EXCEPT ![s] = x]
  BY <1>2, <1>3, Zenon
<1>10. /\ \A t \in Slot : IoSound(command[t], lNamespaces)
       /\ \A ns \in lNamespaces : ns.lbaSize \in LBASize
  BY Zenon DEF IoInv
<1> QED
  BY <1>4, <1>7, <1>8, <1>9, <1>10, SlotIo, Zenon

LEMMA NvmHostIo ==
  ASSUME DeviceInv, IoInv, NEW s \in Slot, SubsystemHost(s)
  PROVE  IoInv'
<1>1. CASE \E op \in AdminOps \cap {"identify", "getLogPage", "namespaceLogPage",
                              "deleteSQueue", "deleteCQueue", "abort", "setFeatures",
                              "getFeatures", "csd", "asyncEventReq"} : AdminCommand(s, op)
  <2>1. PICK op : op # "io" /\ AdminCommand(s, op)
    BY <1>1
  <2>2. PICK p, nsid, c :
          /\ c = Command(op, [nsid |-> nsid], p, AdminStages(op, p))
          /\ Submit(s, Came(c)) /\ UNCHANGED lNamespaces
    BY <2>1, Zenon DEF AdminCommand, namespaceVars
  <2>3. Keeps(Came(c), command[s])
    <3>1. IsCommand(c) /\ c.op = op
      <4>1. c = Command(op, [nsid |-> nsid], p, AdminStages(op, p))
        BY <2>2, Zenon
      <4> QED
        BY ONLY <4>1, CommandFields
    <3>2. PICK e : e = [c EXCEPT !.answers = 1]
      OBVIOUS
    <3>3. e = [op |-> c.op, arg |-> c.arg, pointer |-> c.pointer, data |-> c.data,
               stages |-> c.stages, under |-> c.under, moved |-> c.moved,
               status |-> c.status, answers |-> 1]
      BY <3>1, <3>2 DEF IsCommand
    <3>4. IsCommand(e) /\ e.op = op
      BY <3>1, <3>3 DEF IsCommand
    <3>5. Came(c) = Begin(c) \/ Came(c) = Begin(e) \/ Came(c) = Fail(e)
      BY <3>2, Zenon DEF Came
    <3>6. IsCommand(Came(c)) /\ Came(c).op = op
      BY <3>1, <3>4, <3>5, BeginCommand, FailQuiet, Zenon
    <3> QED
      BY <2>1, <3>6, Zenon DEF Keeps
  <2> QED
    BY <2>2, <2>3, SubmitKeeps, Zenon
<1>2. ASSUME NEW op, op # "io", NEW ret, Submit(s, QueueCommand(op, ret)),
             UNCHANGED namespaceVars
      PROVE  IoInv'
  <2>1. Keeps(QueueCommand(op, ret), command[s])
    BY <1>2, OtherKeeps, Zenon DEF QueueCommand
  <2> QED
    BY <1>2, <2>1, SubmitKeeps, Zenon DEF namespaceVars
<1>3. CASE Has("createSQueue") /\ \E ret \in {0, 2} : createSQueue(s, ret)
  <2>1. "createSQueue" # "io"
    OBVIOUS
  <2> QED
    BY <1>2, <1>3, <2>1, Zenon DEF createSQueue
<1>4. CASE Has("createCQueue") /\ \E ret \in {0, 1} : createCQueue(s, ret)
  <2>1. "createCQueue" # "io"
    OBVIOUS
  <2> QED
    BY <1>2, <1>4, <2>1, Zenon DEF createCQueue
<1>5. ASSUME NEW op, op # "io", NEW arg, NEW p, NEW stages,
             Submit(s, Begin(Command(op, arg, p, stages))), UNCHANGED namespaceVars
      PROVE  IoInv'
  BY <1>5, OtherKeeps, SubmitKeeps, Zenon DEF namespaceVars
<1>6. CASE Has("create") /\ \E new \in NewNamespace : SubmitCreate(s, new)
  <2>1. "create" # "io"
    OBVIOUS
  <2> QED
    BY <1>5, <1>6, <2>1, Zenon DEF SubmitCreate
<1>7. CASE Has("delete") /\ \E nsid \in NSIDs : Delete(s, nsid)
  BY <1>7, DeleteIo, Zenon
<1>8. CASE Has("attach") /\ \E nsid \in NSIDs, sel \in {"attach", "detach"} :
                              SubmitAttachment(s, nsid, sel)
  <2>1. "attach" # "io"
    OBVIOUS
  <2> QED
    BY <1>5, <1>8, <2>1, Zenon DEF SubmitAttachment
<1>9. CASE Has("format") /\ \E nsid \in NSIDs, lba \in LBASize : FormatNVM(s, nsid, lba)
  BY <1>9, FormatIo, Zenon
<1>10. CASE \E nsid \in NSIDs, io \in IORequests : SubmitIO(s, nsid, io)
  BY <1>10, SubmitIOIo, Zenon
<1> QED
  BY <1>1, <1>3, <1>4, <1>6, <1>7, <1>8, <1>9, <1>10, Zenon DEF SubsystemHost

LEMMA NvmStepIo ==
  ASSUME DeviceInv, IoInv, kind = "nvm", NEW s \in Slot, SubsystemStep(s)
  PROVE  IoInv'
<1>1. CASE NamespaceSubmit(s)
  <2>1. PICK r \in StageEnded(s, "SUBMIT_COMMAND") :
          \/ command' = [command EXCEPT ![s] = NextStage(r)]
          \/ command' = [command EXCEPT ![s] = Fail(r)]
    BY <1>1, Zenon DEF NamespaceSubmit
  <2>2. UNCHANGED lNamespaces
    BY <1>1 DEF NamespaceSubmit, namespaceVars
  <2> QED
    BY <2>1, <2>2, EndsKeep, Zenon
<1>2. CASE SubsystemCallback(s)
  <2>1. UNCHANGED lNamespaces
    BY <1>2 DEF SubsystemCallback, namespaceVars
  <2> QED
    BY <1>2, <2>1, PieceEndsKeeps, GoesOnKeeps, Zenon DEF SubsystemCallback
<1> QED
  BY <1>1, <1>2, CreateIo, AttachmentIo, ConvertIo, Zenon DEF SubsystemStep

-----------------------------------------------------------------------------
(* The commands of an Open-Channel SSD are none of these. *)

LEMMA GoesToFlashKeeps ==
  ASSUME IoInv, NEW s, NEW r, s \in Slot => Keeps(r, command[s]), IsCommand(r),
         GoesToFlash(s, r), UNCHANGED lNamespaces
  PROVE  IoInv'
<1>1. PICK o, e :
        /\ e = [r EXCEPT !.status =
                  IF o.err /\ r.op # "datasetManagement" THEN "error" ELSE r.status]
        /\ command' = [command EXCEPT ![s] = Begin(e)]
  BY Zenon DEF GoesToFlash
<1>2. PICK status : e = [r EXCEPT !.status = status]
  BY <1>1, Zenon
<1>3. e = [op |-> r.op, arg |-> r.arg, pointer |-> r.pointer, data |-> r.data,
           stages |-> r.stages, under |-> r.under, moved |-> r.moved,
           status |-> status, answers |-> r.answers]
  BY <1>2 DEF IsCommand
<1>4. IsCommand(e) /\ e.op = r.op /\ e.arg = r.arg /\ e.stages = r.stages
  BY <1>3 DEF IsCommand
<1>5. /\ IsCommand(Begin(e)) /\ Begin(e).op = r.op /\ Begin(e).arg = r.arg
      /\ Begin(e).stages = r.stages
  BY <1>4, BeginCommand, Zenon
<1>6. s \in Slot => Keeps(Begin(e), command[s])
  BY <1>5, Zenon DEF Keeps
<1> QED
  BY <1>1, <1>6, SlotKeeps, Zenon

LEMMA Host20Io ==
  ASSUME IoInv, NEW s, Host20(s), UNCHANGED lNamespaces
  PROVE  IoInv'
<1>1. CASE SubmitAdmin20(s)
  <2>1. PICK op, p, stages :
          /\ op \in {"geometry", "chunkLog"} /\ p \in PointersFor(1)
          /\ stages = IF op = "geometry" THEN geometry(p) ELSE chunkLog(p)
          /\ Submit(s, Begin(Command(op, <<>>, p, stages)))
    BY <1>1, Zenon DEF SubmitAdmin20
  <2>2. op # "io"
    BY <2>1
  <2> QED
    BY <2>1, <2>2, OtherKeeps, SubmitKeeps, Zenon
<1>2. ASSUME NEW io \in Requests20, SubmitIO20(s, io) PROVE IoInv'
  <2>1. io.op # "io"
    <3>1. io.op \in {"read", "write", "datasetManagement", "trimIgnored",
                     "vectorChunkRead", "vectorChunkWrite", "vectorChunkReset"}
      BY OpenChannelAssumption, Zenon
    <3> QED
      BY <3>1
  <2>2. PICK p, stages, r :
          /\ r = Command(io.op, io.lbas, p, stages)
          /\ GoesToFlash(s, r) \/ Submit(s, Begin(r))
    BY <1>2, Zenon DEF SubmitIO20
  <2>3. Keeps(r, command[s]) /\ Keeps(Begin(r), command[s])
    BY <2>1, <2>2, OtherKeeps, Zenon
  <2>4. IsCommand(r)
    BY <2>3, Zenon DEF Keeps
  <2> QED
    BY <2>2, <2>3, <2>4, GoesToFlashKeeps, SubmitKeeps, Zenon
<1> QED
  BY <1>1, <1>2, Zenon DEF Host20

LEMMA Host12Io ==
  ASSUME IoInv, NEW s, Host12(s), UNCHANGED lNamespaces
  PROVE  IoInv'
<1>1. ASSUME NEW io \in Requests12, Submit12(s, io) PROVE IoInv'
  <2>1. io.op # "io"
    <3>1. io.op \in {"deviceIdentification", "getBadBlockTable", "physicalBlockErase",
                     "physicalPageWrite", "physicalPageRead", "readIgnored"}
      BY OpenChannelAssumption, Zenon
    <3> QED
      BY <3>1
  <2>2. PICK p, stages, r, e :
          /\ r = Command(io.op, <<>>, p, stages)
          /\ e = [r EXCEPT !.pointer = NoPointer]
          /\ Submit(s, Begin(r)) \/ Submit(s, Fail(e))
    BY <1>1, Zenon DEF Submit12
  <2>3. IsCommand(r) /\ r.op = io.op
    <3>1. r = Command(io.op, <<>>, p, stages)
      BY <2>2, Zenon
    <3> QED
      BY ONLY <3>1, CommandFields
  <2>4. e = [op |-> r.op, arg |-> r.arg, pointer |-> NoPointer, data |-> r.data,
             stages |-> r.stages, under |-> r.under, moved |-> r.moved,
             status |-> r.status, answers |-> r.answers]
    BY <2>2, <2>3 DEF IsCommand
  <2>5. IsCommand(e) /\ e.op = io.op
    BY <2>3, <2>4 DEF IsCommand
  <2>6. /\ IsCommand(Begin(r)) /\ Begin(r).op = io.op
        /\ IsCommand(Fail(e)) /\ Fail(e).op = io.op
    BY <2>3, <2>5, BeginCommand, FailQuiet, Zenon
  <2>7. Keeps(Begin(r), command[s]) /\ Keeps(Fail(e), command[s])
    BY <2>1, <2>6, Zenon DEF Keeps
  <2> QED
    BY <2>2, <2>7, SubmitKeeps, Zenon
<1>2. ASSUME NEW blocks, NEW value, SubmitSetBadBlocks(s, blocks, value) PROVE IoInv'
  <2>1. PICK arg : Submit(s, Begin(Command("setBadBlockTable", arg, PRPBase(1),
                                           setBadBlockTable)))
    BY <1>2, Zenon DEF SubmitSetBadBlocks
  <2>2. "setBadBlockTable" # "io"
    OBVIOUS
  <2> QED
    BY <2>1, <2>2, OtherKeeps, SubmitKeeps, Zenon
<1> QED
  BY <1>1, <1>2, Zenon DEF Host12

LEMMA ChunkIo ==
  ASSUME IoInv, NEW s \in Slot, OpenChannelStep(s), UNCHANGED lNamespaces
  PROVE  IoInv'
<1>1. CASE ToFlash(s)
  <2>1. PICK stage, r, e :
          /\ r \in StageEnded(s, stage)
          /\ e = [r EXCEPT !.stages = Tail(r.stages)]
          /\ GoesToFlash(s, e)
    BY <1>1, Zenon DEF ToFlash
  <2>2. /\ IsCommand(r) /\ r.op = command[s].op /\ r.arg = command[s].arg
        /\ command[s].stages # <<>>
    BY <2>1, StageKeeps, Zenon
  <2>3. e = [op |-> r.op, arg |-> r.arg, pointer |-> r.pointer, data |-> r.data,
             stages |-> Tail(r.stages), under |-> r.under, moved |-> r.moved,
             status |-> r.status, answers |-> r.answers]
    BY <2>1, <2>2, AdvancedFields, Zenon
  <2>4. IsCommand(e) /\ e.op = r.op /\ e.arg = r.arg
    BY <2>3 DEF IsCommand
  <2>5. Keeps(e, command[s])
    BY <2>2, <2>4, Zenon DEF Keeps
  <2> QED
    BY <2>1, <2>4, <2>5, GoesToFlashKeeps, Zenon
<1>2. CASE SetBadBlocks(s)
  <2>1. PICK r \in StageEnded(s, "in") : command' = [command EXCEPT ![s] = NextStage(r)]
    BY <1>2, Zenon DEF SetBadBlocks
  <2> QED
    BY <2>1, EndsKeep, Zenon
<1>3. CASE OpenChannelCallback(s)
  <2>1. \/ PieceEnds(s) \/ GoesOn(s, {"pointer", "completion", "out"})
        \/ \E stage : \E r \in StageEnded(s, stage) :
             command' = [command EXCEPT ![s] = NextStage(r)]
    BY <1>3, Zenon DEF OpenChannelCallback
  <2> QED
    BY <2>1, PieceEndsKeeps, GoesOnKeeps, EndsKeep, Zenon
<1> QED
  BY <1>1, <1>2, <1>3, Zenon DEF OpenChannelStep

LEMMA FlashJobIo ==
  ASSUME IoInv, FlashJob, UNCHANGED lNamespaces
  PROVE  IoInv'
<1>1. PICK s, r, x :
        /\ r \in StageEnded(s, "flash") /\ x = NextStage(r)
        /\ command' = [command EXCEPT ![s] = x]
  BY Zenon DEF FlashJob
<1>2. s \in Slot => Keeps(x, command[s])
  BY <1>1, StageKeeps, Zenon
<1> QED
  BY <1>1, <1>2, SlotKeeps, Zenon

-----------------------------------------------------------------------------
(* The steps of the device. *)

LEMMA IoStep ==
  ASSUME WholeFormats
  PROVE  DeviceInv /\ IoInv /\ [Next]_deviceVars => IoInv'
<1> SUFFICES ASSUME DeviceInv, IoInv, [Next]_deviceVars PROVE IoInv'
  OBVIOUS
<1>1. ASSUME NEW s \in Slot, NvmHost(s) \/ NvmStep(s) PROVE IoInv'
  BY <1>1, NvmHostIo, NvmStepIo, Zenon DEF NvmHost, NvmStep
<1>2. ASSUME NEW s \in Slot, OpenChannelHost(s) PROVE IoInv'
  BY <1>2, Host12Io, Host20Io, Zenon DEF OpenChannelHost, namespaceVars
<1>3. ASSUME NEW s \in Slot, ChunkStep(s) PROVE IoInv'
  BY <1>3, ChunkIo, Zenon DEF ChunkStep, namespaceVars
<1>4. ASSUME NEW s \in Slot, Taken(s) PROVE IoInv'
  <2>1. command' = [command EXCEPT ![s] = NoCommand] /\ UNCHANGED lNamespaces
    BY <1>4 DEF Taken, TakeCompletion, namespaceVars
  <2>2. "none" # "io"
    OBVIOUS
  <2>3. Keeps(NoCommand, command[s])
    BY <2>2, OtherKeeps, Zenon DEF NoCommand
  <2> QED
    BY <2>1, <2>3, SlotKeeps, Zenon
<1>5. CASE Flash
  BY <1>5, FlashJobIo, Zenon DEF Flash, namespaceVars
<1>6. CASE UNCHANGED deviceVars
  <2>1. command' = command /\ lNamespaces' = lNamespaces
    BY <1>6 DEF deviceVars, commandVars, namespaceVars
  <2> QED
    BY <2>1, Zenon DEF IoInv
<1> QED
  BY <1>1, <1>2, <1>3, <1>4, <1>5, <1>6, Zenon DEF Next

LEMMA InitIo == Init => IoInv
<1> SUFFICES ASSUME Init PROVE IoInv
  OBVIOUS
<1>1. command = [s \in Slot |-> NoCommand]
  BY DEF Init, CommandInit
<1>2. command = [s \in Slot |-> command[s]] /\ \A s \in Slot : command[s] = NoCommand
  BY <1>1
<1>3. IsCommand(NoCommand) /\ NoCommand.op # "io"
  <2>1. NoCommand.op = "none"
    BY DEF NoCommand, Command
  <2>2. "none" # "io"
    OBVIOUS
  <2>3. Keeps(NoCommand, NoCommand)
    BY <2>2, OtherKeeps, Zenon DEF NoCommand
  <2> QED
    BY <2>1, <2>2, <2>3, Zenon DEF Keeps
<1>4. \A ns \in lNamespaces : ns.lbaSize = DefaultLBASize
  BY DEF Init, SubsystemInit, Namespace
<1>5. \A ns \in lNamespaces : ns.lbaSize \in LBASize
  BY <1>4, SubsystemAssumption, Zenon
<1> QED
  BY <1>2, <1>3, <1>5, Zenon DEF IoInv, IoSound

LEMMA IoInvariantHolds ==
  ASSUME WholeFormats, DefaultsCreated
  PROVE  Spec => [](DeviceInv /\ IoInv)
<1>1. Init => IoInv
  BY InitIo
<1>2. DeviceInv /\ IoInv /\ [Next]_deviceVars => IoInv'
  BY IoStep
<1>3. Spec => []DeviceInv
  BY DeviceInvariantHolds
<1> QED
  BY <1>1, <1>2, <1>3, PTL DEF Spec

-----------------------------------------------------------------------------
(* The request of an I/O command is for the units of its LBAs. *)

LEMMA LBAsInOrder ==
  ASSUME NEW ns, ns.range.slpn \in Nat, ns.lbaSize \in Nat \ {0},
         NEW io, io.slba \in Nat, io.nlb \in Nat
  PROVE  LET first == ns.range.slpn * LogicalPageSize + io.slba * ns.lbaSize
             length == io.nlb * ns.lbaSize
         IN /\ first \in Nat /\ length \in Nat
            /\ UnitsOfLBAs(ns, io) = first .. first + length - 1
            /\ io.nlb > 0 => length > 0
<1>1. PICK A, x, y, z :
        /\ A = ns.range.slpn * LogicalPageSize
        /\ x = io.slba * ns.lbaSize /\ y = io.nlb * ns.lbaSize
        /\ z = (io.slba + io.nlb) * ns.lbaSize
  OBVIOUS
<1>2. A \in Nat /\ x \in Nat
  BY <1>1, SubsystemAssumption, TimesOrder
<1>3. y \in Nat /\ (io.nlb > 0 => y > 0)
  <2>1. PICK n, b : n = io.nlb /\ b = ns.lbaSize /\ n \in Nat /\ b \in Nat \ {0}
    OBVIOUS
  <2>2. n * b \in Nat /\ (n > 0 => n * b > 0)
    BY <2>1
  <2> QED
    BY <1>1, <2>1, <2>2, Zenon
<1>4. z = x + y
  <2>1. io.slba \in Int /\ io.nlb \in Int /\ ns.lbaSize \in Int
    OBVIOUS
  <2> QED
    BY <1>1, <2>1, TimesSum
<1>5. UnitsOfLBAs(ns, io) = {A + u : u \in x .. z - 1}
  BY <1>1, Zenon DEF UnitsOfLBAs
<1>6. {A + u : u \in x .. z - 1} = A + x .. (A + x) + y - 1
  <2>1. ASSUME NEW v \in A + x .. (A + x) + y - 1
        PROVE  v \in {A + u : u \in x .. z - 1}
    <3>1. v - A \in x .. z - 1 /\ v = A + (v - A)
      BY <1>2, <1>3, <1>4
    <3> QED
      BY <3>1
  <2>2. ASSUME NEW u \in x .. z - 1
        PROVE  A + u \in A + x .. (A + x) + y - 1
    BY <1>2, <1>3, <1>4
  <2> QED
    BY <2>1, <2>2, Zenon
<1> DEFINE first == ns.range.slpn * LogicalPageSize + io.slba * ns.lbaSize
           length == io.nlb * ns.lbaSize
<1>7. first = A + x /\ length = y
  BY <1>1, Zenon
<1>8. first \in Nat /\ length \in Nat /\ (io.nlb > 0 => length > 0)
  BY <1>2, <1>3, <1>7
<1> HIDE DEF first, length
<1>9. UnitsOfLBAs(ns, io) = first .. first + length - 1
  BY <1>5, <1>6, <1>7, Zenon
<1> QED
  BY <1>8, <1>9, Zenon DEF first, length

\* What lies on the pages of a namespace begins and ends on pages of it.
LEMMA SpansWithin ==
  ASSUME NEW req, NEW first, NEW length, Spans(req, first, length),
         NEW range, range.slpn \in Nat, range.nlp \in Nat,
         range.slpn * LogicalPageSize <= first,
         first + length <= (range.slpn + range.nlp) * LogicalPageSize
  PROVE  PagesIn(req.range) \subseteq PagesIn(range)
<1>1. PICK L, a, e, A, E :
        /\ L = LogicalPageSize /\ a = req.range.slpn /\ e = req.range.slpn + req.range.nlp
        /\ A = range.slpn /\ E = range.slpn + range.nlp
  OBVIOUS
<1>2. /\ a \in Nat /\ e \in Nat /\ a < e /\ A \in Nat /\ E \in Nat /\ L \in Nat \ {0}
      /\ first \in Nat /\ length \in Nat
  <2>1. /\ first \in Nat /\ length \in Nat
        /\ req.range.slpn \in Nat /\ req.range.nlp \in Nat \ {0}
    BY SpansEnds, Zenon
  <2> QED
    BY <1>1, <2>1, SubsystemAssumption
<1>3. /\ first < (a + 1) * L /\ (e - 1) * L < first + length
      /\ A * L <= first /\ first + length <= E * L
  BY <1>1, SpansEnds, Zenon
<1>4. A <= a
  <2>1. (a + 1) * L \in Nat /\ A * L \in Nat /\ (a + 1 <= A <=> (a + 1) * L <= A * L)
    BY <1>2, TimesOrder
  <2> QED
    BY <1>2, <1>3, <2>1
<1>5. e <= E
  <2>1. (e - 1) * L \in Nat /\ E * L \in Nat /\ (E <= e - 1 <=> E * L <= (e - 1) * L)
    BY <1>2, TimesOrder
  <2> QED
    BY <1>2, <1>3, <2>1
<1>6. a .. e - 1 \subseteq A .. E - 1
  BY <1>2, <1>4, <1>5
<1>7. PagesIn(req.range) = a .. e - 1
  <2>1. req.range.slpn \in Nat /\ req.range.nlp \in Nat
    BY DEF Spans
  <2> QED
    BY <1>1, <2>1 DEF PagesIn
<1>8. PagesIn(range) = A .. E - 1
  BY <1>1 DEF PagesIn
<1> QED
  BY <1>6, <1>7, <1>8, Zenon

\* The LBAs that a namespace has room for lie on its pages.
LEMMA RoomForLBAs ==
  ASSUME NEW ns \in NamespaceType, HasRoom(ns), NEW slba \in Nat, NEW nlb \in Nat,
         slba + nlb <= ns.size
  PROVE  LET first == ns.range.slpn * LogicalPageSize + slba * ns.lbaSize
             length == nlb * ns.lbaSize
         IN /\ ns.range.slpn * LogicalPageSize <= first
            /\ first + length <= (ns.range.slpn + ns.range.nlp) * LogicalPageSize
<1>1. /\ ns.range.slpn \in Nat /\ ns.range.nlp \in Nat /\ ns.lbaSize \in Nat \ {0}
      /\ ns.size \in Nat /\ LogicalPageSize \in Nat \ {0}
  BY SubsystemAssumption DEF NamespaceType
<1>2. PICK A, B, C, x, y, z, w :
        /\ A = ns.range.slpn * LogicalPageSize /\ B = ns.range.nlp * LogicalPageSize
        /\ C = (ns.range.slpn + ns.range.nlp) * LogicalPageSize
        /\ x = slba * ns.lbaSize /\ y = nlb * ns.lbaSize
        /\ z = (slba + nlb) * ns.lbaSize /\ w = ns.size * ns.lbaSize
  OBVIOUS
<1>3. C = A + B /\ A \in Int /\ B \in Int
  BY <1>1, <1>2, TimesSum
<1>4. z = x + y /\ y \in Int
  BY <1>1, <1>2, TimesSum
<1>5. x \in Nat
  BY <1>1, <1>2, TimesOrder
<1>6. z <= w
  <2>1. slba + nlb \in Nat
    OBVIOUS
  <2> QED
    BY <1>1, <1>2, <2>1, TimesOrder
<1>7. w <= B /\ w \in Nat
  BY <1>1, <1>2, TimesOrder DEF HasRoom
<1>8. A <= A + x /\ (A + x) + y <= C
  BY <1>3, <1>4, <1>5, <1>6, <1>7
<1> QED
  BY <1>2, <1>8, Zenon

\* One command and its namespace.
PiecesFor(io, request) ==
  IF io.op \in {"flush", "datasetManagement"} THEN WholePages(request, LogicalPageSize)
  ELSE PageRequests(request, LogicalPageSize)

Inside(ns, io, pieces) ==
  LET units(i) == UnitsIn(pieces[i], LogicalPageSize)
      all == UNION {units(i) : i \in DOMAIN pieces}
  IN /\ io.op # "flush" => UnitsOfLBAs(ns, io) \subseteq all
     /\ io.op \notin {"flush", "datasetManagement"} =>
          /\ all \subseteq UnitsOfLBAs(ns, io)
          /\ \A i \in DOMAIN pieces : units(i) # {}
          /\ \A i, j \in DOMAIN pieces : i # j => units(i) \cap units(j) = {}
     /\ HasRoom(ns) => \A u \in all : u \div LogicalPageSize \in PagesIn(ns.range)

LEMMA RequestUnits ==
  ASSUME AlignedLBAs, NEW ns \in NamespaceType, ns.lbaSize \in LBASize,
         NEW io \in IORequests, io.slba + io.nlb <= ns.size,
         NEW request, request = RequestOf(ns, io), request.range.nlp > 0
  PROVE  Inside(ns, io, PiecesFor(io, request))
<1> DEFINE L == LogicalPageSize
           first == ns.range.slpn * L + io.slba * ns.lbaSize
           length == io.nlb * ns.lbaSize
           wholes == WholePages(request, L)
           pieces == PageRequests(request, L)
           wholeUnits(i) == UnitsIn(wholes[i], L)
           units(i) == UnitsIn(pieces[i], L)
           allWhole == UNION {wholeUnits(i) : i \in DOMAIN wholes}
           all == UNION {units(i) : i \in DOMAIN pieces}
<1>1. /\ ns.range.slpn \in Nat /\ ns.range.nlp \in Nat /\ ns.lbaSize \in Nat \ {0}
      /\ io.slba \in Nat /\ io.nlb \in Nat
      /\ io.op \in {"flush", "write", "read", "compare", "datasetManagement"}
      /\ io.op \in {"write", "read", "compare"} => io.nlb > 0
  BY SubsystemAssumption DEF NamespaceType
<1>2. /\ first \in Nat /\ length \in Nat /\ (io.nlb > 0 => length > 0)
      /\ UnitsOfLBAs(ns, io) = first .. first + length - 1
  BY <1>1, LBAsInOrder, Zenon
<1>3. HasRoom(ns) => /\ ns.range.slpn * L <= first
                     /\ first + length <= (ns.range.slpn + ns.range.nlp) * L
  BY <1>1, RoomForLBAs, Zenon
<1>4. io.op # "flush" => Spans(request, first, length)
  <2>1. SUFFICES ASSUME io.op # "flush" PROVE Spans(request, first, length)
    OBVIOUS
  <2>2. request = convertUnit(ns, io.slba, io.nlb)
    BY <2>1, Zenon DEF RequestOf
  <2> QED
    BY <1>1, <2>2, ConvertedUnits, Zenon
<1>5. ASSUME request.range.slpn \in Nat, request.range.nlp \in Nat
      PROVE  /\ allWhole \subseteq Int
             /\ \A u \in Int : u \in allWhole <=> u \div L \in PagesIn(request.range)
  BY <1>5, WholePagesUnits, Zenon
<1>6. CASE io.op = "flush"
  <2>1. request = Request(ns.range.slpn, ns.range.nlp, 0, ns.range.nlp * LogicalPageSize)
    BY <1>6, Zenon DEF RequestOf
  <2>2. request.range.slpn = ns.range.slpn /\ request.range.nlp = ns.range.nlp
    BY <2>1 DEF Request, LPNRange
  <2>3. PagesIn(request.range) = PagesIn(ns.range)
    BY <2>2, Zenon DEF PagesIn
  <2>4. \A u \in allWhole : u \div L \in PagesIn(ns.range)
    BY <1>1, <1>5, <2>2, <2>3, Zenon
  <2>5. PiecesFor(io, request) = wholes
    BY <1>6, Zenon DEF PiecesFor
  <2>6. Inside(ns, io, wholes)
    BY <1>6, <2>4, Zenon DEF Inside
  <2> QED
    BY <2>5, <2>6, Zenon
<1>7. CASE io.op = "datasetManagement"
  <2>1. /\ Spans(request, first, length) /\ request.range.slpn \in Nat
        /\ request.range.nlp \in Nat
        /\ \A u \in first .. first + length - 1 : u \div L \in PagesIn(request.range)
    BY <1>4, <1>7, SpansEnds
  <2>2. \A u \in first .. first + length - 1 : u \in Int
    BY <1>2
  <2>3. UnitsOfLBAs(ns, io) \subseteq allWhole
    BY <1>2, <1>5, <2>1, <2>2, Zenon
  <2>4. ASSUME HasRoom(ns) PROVE \A u \in allWhole : u \div L \in PagesIn(ns.range)
    <3>1. PagesIn(request.range) \subseteq PagesIn(ns.range)
      BY <1>1, <1>3, <2>1, <2>4, SpansWithin, Zenon
    <3> QED
      BY <1>5, <2>1, <3>1, Zenon
  <2>5. PiecesFor(io, request) = wholes
    BY <1>7, Zenon DEF PiecesFor
  <2>6. Inside(ns, io, wholes)
    BY <1>7, <2>3, <2>4, Zenon DEF Inside
  <2> QED
    BY <2>5, <2>6, Zenon
<1>8. CASE io.op \notin {"flush", "datasetManagement"}
  <2>1. Spans(request, first, length) /\ length > 0
    BY <1>1, <1>2, <1>4, <1>8
  <2>2. /\ all = first .. first + length - 1
        /\ \A i \in DOMAIN pieces : units(i) # {}
        /\ \A i, j \in DOMAIN pieces : i # j => units(i) \cap units(j) = {}
    BY ONLY <2>1, PiecesOfUnits, Zenon
  <2>3. ASSUME HasRoom(ns) PROVE \A u \in all : u \div L \in PagesIn(ns.range)
    <3>1. PagesIn(request.range) \subseteq PagesIn(ns.range)
      BY <1>1, <1>3, <2>1, <2>3, SpansWithin, Zenon
    <3>2. \A u \in first .. first + length - 1 : u \div L \in PagesIn(request.range)
      BY <2>1, SpansEnds, Zenon
    <3> QED
      BY <2>2, <3>1, <3>2, Zenon
  <2>4. all \subseteq UnitsOfLBAs(ns, io) /\ UnitsOfLBAs(ns, io) \subseteq all
    BY <1>2, <2>2, Zenon
  <2>5. PiecesFor(io, request) = pieces
    BY <1>8, Zenon DEF PiecesFor
  <2>6. Inside(ns, io, pieces)
    BY <2>2, <2>3, <2>4, Zenon DEF Inside
  <2> QED
    BY <2>5, <2>6, Zenon
<1> QED
  BY <1>6, <1>7, <1>8, Zenon

\* The invariant is enough.
LEMMA IoInvInside ==
  ASSUME AlignedLBAs, DeviceInv, IoInv
  PROVE  RequestsInside
<1>1. SUFFICES
        ASSUME NEW s \in Slot, command[s].op = "io",
               command[s].arg.request.range.nlp > 0, NEW ns \in Named(command[s].arg.nsid)
        PROVE  Inside(ns, command[s].arg.io,
                      PiecesFor(command[s].arg.io, command[s].arg.request))
  BY Zenon DEF RequestsInside, Inside, PiecesFor
<1>2. PICK arg : arg = command[s].arg
  OBVIOUS
<1>3. /\ IoSound(command[s], lNamespaces) /\ ns \in lNamespaces /\ ns.nsid = arg.nsid
      /\ ns.lbaSize \in LBASize
  BY <1>2, Zenon DEF IoInv, Named
<1>4. ns \in NamespaceType
  BY <1>3 DEF DeviceInv, Accounts, Sound
<1>5. arg.io \in IORequests
  BY <1>1, <1>2, <1>3, Zenon DEF IoSound
<1>6. arg.request # Request(0, 0, 0, 0)
  <2>1. Request(0, 0, 0, 0).range.nlp = 0
    BY DEF Request, LPNRange
  <2> QED
    BY <1>1, <1>2, <2>1
<1>7. arg.io.slba + arg.io.nlb <= ns.size /\ arg.request = RequestOf(ns, arg.io)
  BY <1>1, <1>2, <1>3, <1>6, Zenon DEF IoSound, ForNamespace
<1>8. arg.request.range.nlp > 0
  BY <1>1, <1>2, Zenon
<1>9. Inside(ns, arg.io, PiecesFor(arg.io, arg.request))
  BY <1>3, <1>4, <1>5, <1>7, <1>8, RequestUnits, Zenon
<1> QED
  BY <1>2, <1>9, Zenon

\* What convertUnit() makes of the LBAs of a command is, cut into pages by read()
\* and write() of the interface of the ICL, for the units of those LBAs, each of
\* them once and none beside, and within the pages of its namespace if that one
\* has room for the LBAs it tells of: for every size of LBA and of logical page of
\* which one divides the other, every namespace and every request that fits it.
\* A namespace keeps its LBAs while commands for it are under way, so the request
\* is still right when the command waits for its data (subsystem.cc, icl.cc).
\* AlignedLBAs is what convertUnit() takes for granted: it divides one size by the
\* other.
THEOREM RequestsAlwaysInside ==
  ASSUME WholeFormats, DefaultsCreated, AlignedLBAs
  PROVE  Spec => []RequestsInside
<1>1. DeviceInv /\ IoInv => RequestsInside
  BY IoInvInside
<1> QED
  BY <1>1, IoInvariantHolds, PTL
=============================================================================
