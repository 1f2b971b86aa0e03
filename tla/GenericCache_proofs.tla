------------------------- MODULE GenericCache_proofs -------------------------
(***************************************************************************)
(* Proofs about the cache, for every number of sets, ways and units, every *)
(* configuration and every range of the requests.                          *)
(***************************************************************************)
EXTENDS GenericCache, DataLemmas

-----------------------------------------------------------------------------
(* Where lines are.                                                        *)

LEMMA SetIndex == \A a \in Nat : calcSetIndex(a) \in Set
BY CacheAssumption DEF calcSetIndex, Set

\* OneCopy of a cache c, set by set.
OneCopyIn(c) ==
  \A s \in Set, w \in Way : c[s][w].valid =>
    /\ calcSetIndex(c[s][w].tag) = s
    /\ \A v \in Way : c[s][v].valid /\ c[s][v].tag = c[s][w].tag => v = w

LEMMA OneCopyBySets == OneCopy <=> OneCopyIn(cache)
<1>1. ASSUME OneCopy PROVE OneCopyIn(cache)
  <2> SUFFICES ASSUME NEW s \in Set, NEW w \in Way, cache[s][w].valid
               PROVE  /\ calcSetIndex(cache[s][w].tag) = s
                      /\ \A v \in Way : cache[s][v].valid /\ cache[s][v].tag = cache[s][w].tag
                                        => v = w
    BY DEF OneCopyIn
  <2>1. \A v \in Way : cache[s][v].valid => <<s, v>> \in ValidLines /\ At(<<s, v>>) = cache[s][v]
    BY DEF ValidLines, Lines, At
  <2>2. calcSetIndex(cache[s][w].tag) = s
    <3>1. calcSetIndex(At(<<s, w>>).tag) = <<s, w>>[1]
      BY <1>1, <2>1, Zenon DEF OneCopy
    <3> QED
      BY <2>1, <3>1
  <2>3. ASSUME NEW v \in Way, cache[s][v].valid, cache[s][v].tag = cache[s][w].tag
        PROVE  v = w
    <3>1. /\ <<s, v>> \in ValidLines /\ <<s, w>> \in ValidLines
          /\ At(<<s, v>>).tag = At(<<s, w>>).tag
      BY <2>1, <2>3
    <3>2. <<s, v>> = <<s, w>>
      BY <1>1, <3>1, Zenon DEF OneCopy
    <3> QED
      BY <3>2
  <2> QED
    BY <2>2, <2>3
<1>2. ASSUME OneCopyIn(cache) PROVE OneCopy
  <2> SUFFICES ASSUME NEW x \in ValidLines, NEW y \in ValidLines
               PROVE  /\ calcSetIndex(At(x).tag) = x[1]
                      /\ At(x).tag = At(y).tag => x = y
    BY DEF OneCopy
  <2>1. /\ x[1] \in Set /\ x[2] \in Way /\ x = <<x[1], x[2]>> /\ cache[x[1]][x[2]].valid
        /\ y[1] \in Set /\ y[2] \in Way /\ y = <<y[1], y[2]>> /\ cache[y[1]][y[2]].valid
    BY DEF ValidLines, Lines, At
  <2>2. calcSetIndex(At(x).tag) = x[1] /\ calcSetIndex(At(y).tag) = y[1]
    BY <1>2, <2>1 DEF OneCopyIn, At
  <2>3. At(x).tag = At(y).tag => x[1] = y[1] /\ x[2] = y[2]
    BY <1>2, <2>1, <2>2 DEF OneCopyIn, At
  <2> QED
    BY <2>1, <2>2, <2>3
<1> QED
  BY <1>1, <1>2

\* Writing a line for a unit that no other way of its set holds.
LEMMA WriteLine ==
  ASSUME NEW c \in [Set -> [Way -> Line]], OneCopyIn(c),
         NEW a \in Nat, NEW w \in Way, NEW line \in Line, line.tag = a,
         \A v \in Way : c[calcSetIndex(a)][v].valid /\ c[calcSetIndex(a)][v].tag = a => v = w
  PROVE  /\ [c EXCEPT ![calcSetIndex(a)][w] = line] \in [Set -> [Way -> Line]]
         /\ OneCopyIn([c EXCEPT ![calcSetIndex(a)][w] = line])
<1> DEFINE s == calcSetIndex(a)
           d == [c EXCEPT ![s][w] = line]
<1>1. s \in Set
  BY SetIndex
<1>2. d \in [Set -> [Way -> Line]]
  BY <1>1
<1>3. \A t \in Set, v \in Way : d[t][v] = IF t = s /\ v = w THEN line ELSE c[t][v]
  BY <1>1
<1> HIDE DEF d
<1>4. OneCopyIn(d)
  BY <1>1, <1>3 DEF OneCopyIn
<1> QED
  BY <1>2, <1>4 DEF d

\* Taking the validity from lines leaves the others as they were.
LEMMA FewerLines ==
  ASSUME NEW c, NEW d, OneCopyIn(c),
         \A s \in Set, w \in Way : d[s][w].valid => c[s][w].valid /\ d[s][w].tag = c[s][w].tag
  PROVE  OneCopyIn(d)
BY DEF OneCopyIn

-----------------------------------------------------------------------------
(* Reading in.                                                             *)

\* The recursion of PlacedAfter has a solution.
LEMMA PlacedAfterDef ==
  ASSUME NEW begin \in Nat, NEW count \in Nat
  PROVE  PlacedAfter(begin, count) =
           [i \in 0 .. count |->
              IF i = 0 THEN {[cache |-> cache, noted |-> <<>>, list |-> <<>>]}
              ELSE UNION {Placed(x, begin + i - 1) : x \in PlacedAfter(begin, count)[i - 1]}]
<1> DEFINE Start == {[cache |-> cache, noted |-> <<>>, list |-> <<>>]}
           Step(X, i) == UNION {Placed(x, begin + i - 1) : x \in X}
           Solves(f, n) == f = [i \in 0 .. n |-> IF i = 0 THEN Start ELSE Step(f[i - 1], i)]
           S == {n \in Nat : \E f : Solves(f, n)}
<1>1. PlacedAfter(begin, count) = CHOOSE f : Solves(f, count)
  BY DEF PlacedAfter
<1> HIDE DEF Start, Step
<1>2. 0 \in S
  <2>1. Solves([i \in 0 .. 0 |-> Start], 0)
    OBVIOUS
  <2> QED
    BY <2>1
<1>3. ASSUME NEW n \in Nat, n \in S PROVE n + 1 \in S
  <2>1. PICK f : Solves(f, n)
    BY <1>3
  <2> DEFINE g == [i \in 0 .. n + 1 |-> IF i = n + 1 THEN Step(f[n], n + 1) ELSE f[i]]
  <2>2. \A i \in 0 .. n + 1 : g[i] = IF i = 0 THEN Start ELSE Step(g[i - 1], i)
    <3> SUFFICES ASSUME NEW i \in 0 .. n + 1
                 PROVE  g[i] = IF i = 0 THEN Start ELSE Step(g[i - 1], i)
      OBVIOUS
    <3>1. CASE i = n + 1
      BY <3>1
    <3>2. CASE i # n + 1
      <4>1. i \in 0 .. n /\ (i # 0 => i - 1 \in 0 .. n /\ i - 1 # n + 1)
        BY <3>2
      <4>2. f[i] = IF i = 0 THEN Start ELSE Step(f[i - 1], i)
        BY <2>1, <4>1
      <4>3. g[i] = f[i] /\ (i # 0 => g[i - 1] = f[i - 1])
        BY <4>1, <3>2
      <4> QED
        BY <4>2, <4>3
    <3> QED
      BY <3>1, <3>2
  <2>3. Solves(g, n + 1)
    BY <2>2
  <2> HIDE DEF g, Solves
  <2>4. n + 1 \in Nat /\ \E h : Solves(h, n + 1)
    BY <2>3
  <2> QED
    BY <2>4, Zenon
<1>4. count \in S
  <2> HIDE DEF S
  <2> QED
    BY <1>2, <1>3, NatInductionSet
<1>5. Solves(PlacedAfter(begin, count), count)
  <2> HIDE DEF Solves
  <2> QED
    BY <1>1, <1>4, Zenon
<1> QED
  BY <1>5 DEF Start, Step
\* The loop of read(): lines keep their tags and are only made valid; each unit gets at
\* most one way, in its own set, and only if no line that was valid stands for it.
PlacedInv(x, begin, n) ==
  /\ x.cache \in [Set -> [Way -> Line]]
  /\ x.list \in Seq([unit : Nat, at : Lines])
  /\ \A s \in Set, w \in Way : /\ x.cache[s][w].tag = cache[s][w].tag
                               /\ cache[s][w].valid => x.cache[s][w].valid
                               /\ cache[s][w].dirty \/ ~x.cache[s][w].dirty
  /\ \A s \in Set, w \in Way : x.cache[s][w].valid /\ ~cache[s][w].valid =>
       \E j \in DOMAIN x.list : x.list[j].at = <<s, w>>
  /\ \A j \in DOMAIN x.list : /\ x.list[j].unit \in begin .. begin + n - 1
                              /\ x.list[j].at[1] = calcSetIndex(x.list[j].unit)
  /\ \A j, k \in DOMAIN x.list : x.list[j].unit = x.list[k].unit => j = k
  /\ \A j \in DOMAIN x.list, s \in Set, w \in Way :
       cache[s][w].valid => cache[s][w].tag # x.list[j].unit

LEMMA PlacedStep ==
  ASSUME OneCopyIn(cache), NEW begin \in Nat, NEW n \in Nat, NEW x,
         PlacedInv(x, begin, n), NEW y \in Placed(x, begin + n)
  PROVE  PlacedInv(y, begin, n + 1)
<1> DEFINE a == begin + n
           s == calcSetIndex(a)
<1>1. a \in Nat /\ s \in Set
  BY SetIndex
<1>2. CASE ValidWays(x.cache, a) # {}
  <2>1. y = x
    BY <1>2 DEF Placed
  <2>2. /\ x.cache \in [Set -> [Way -> Line]]
        /\ x.list \in Seq([unit : Nat, at : Lines])
        /\ \A t \in Set, v \in Way :
             /\ x.cache[t][v].tag = cache[t][v].tag
             /\ cache[t][v].valid => x.cache[t][v].valid
             /\ cache[t][v].dirty \/ ~x.cache[t][v].dirty
        /\ \A t \in Set, v \in Way : x.cache[t][v].valid /\ ~cache[t][v].valid =>
             \E j \in DOMAIN x.list : x.list[j].at = <<t, v>>
        /\ \A j, k \in DOMAIN x.list : x.list[j].unit = x.list[k].unit => j = k
        /\ \A j \in DOMAIN x.list, t \in Set, v \in Way :
             cache[t][v].valid => cache[t][v].tag # x.list[j].unit
    BY Zenon DEF PlacedInv
  <2>3. \A j \in DOMAIN x.list : /\ x.list[j].unit \in begin .. begin + n - 1
                                 /\ x.list[j].at[1] = calcSetIndex(x.list[j].unit)
    BY Zenon DEF PlacedInv
  <2>4. \A u \in begin .. begin + n - 1 : u \in begin .. begin + (n + 1) - 1
    OBVIOUS
  <2>5. \A j \in DOMAIN x.list : /\ x.list[j].unit \in begin .. begin + (n + 1) - 1
                                 /\ x.list[j].at[1] = calcSetIndex(x.list[j].unit)
    BY ONLY <2>3, <2>4, Zenon
  <2>6. PlacedInv(x, begin, n + 1)
    BY ONLY <2>2, <2>5, Zenon DEF PlacedInv
  <2> QED
    BY ONLY <2>1, <2>6, Zenon
<1>3. CASE ValidWays(x.cache, a) = {}
  <2>1. PICK w \in Way :
          /\ y.cache = [x.cache EXCEPT ![s][w].valid = TRUE, ![s][w].dirty = FALSE]
          /\ y.list = Append(x.list, [unit |-> a, at |-> <<s, w>>])
    <3>1. \A v \in EmptyWays(x.cache, s) : v \in Way
      BY DEF EmptyWays
    <3>2. PICK w \in Way :
            \E m :
              y = [cache |-> [x.cache EXCEPT ![s][w].valid = TRUE, ![s][w].dirty = FALSE],
                   noted |-> m,
                   list  |-> Append(x.list, [unit |-> a, at |-> <<s, w>>])]
      BY <1>3, <3>1, Zenon DEF Placed
    <3>3. PICK m :
            y = [cache |-> [x.cache EXCEPT ![s][w].valid = TRUE, ![s][w].dirty = FALSE],
                 noted |-> m,
                 list  |-> Append(x.list, [unit |-> a, at |-> <<s, w>>])]
      BY <3>2
    <3> QED
      BY <3>2, <3>3
  <2>2. /\ x.cache \in [Set -> [Way -> Line]]
        /\ x.list \in Seq([unit : Nat, at : Lines])
    BY DEF PlacedInv
  <2> DEFINE r == [unit |-> a, at |-> <<s, w>>]
  <2>3. r \in [unit : Nat, at : Lines] /\ r.unit = a /\ r.at = <<s, w>> /\ r.at[1] = s
    BY <1>1 DEF Lines
  <2>4. y.list = Append(x.list, r)
    BY <2>1
  <2> HIDE DEF r
  <2>5. /\ y.list \in Seq([unit : Nat, at : Lines])
        /\ Len(y.list) = Len(x.list) + 1
        /\ y.list[Len(x.list) + 1] = r
        /\ \A j \in 1 .. Len(x.list) : y.list[j] = x.list[j]
        /\ DOMAIN x.list = 1 .. Len(x.list) /\ DOMAIN y.list = 1 .. Len(x.list) + 1
        /\ Len(x.list) \in Nat
    BY <2>2, <2>3, <2>4, AppendProperties, LenProperties
  <2>6. /\ DOMAIN x.list \subseteq DOMAIN y.list
        /\ \A j \in DOMAIN x.list : y.list[j] = x.list[j]
        /\ \E j \in DOMAIN y.list : y.list[j] = r
        /\ \A j \in DOMAIN y.list : j \in DOMAIN x.list \/ y.list[j] = r
        /\ \A j, k \in DOMAIN y.list : j \notin DOMAIN x.list /\ k \notin DOMAIN x.list => j = k
    BY <2>5, SMTT(20)
  <2>7. /\ y.cache \in [Set -> [Way -> Line]]
        /\ \A t \in Set, v \in Way :
             /\ y.cache[t][v].tag = x.cache[t][v].tag
             /\ y.cache[t][v].valid = IF t = s /\ v = w THEN TRUE ELSE x.cache[t][v].valid
             /\ y.cache[t][v].dirty = IF t = s /\ v = w THEN FALSE ELSE x.cache[t][v].dirty
    <3>1. x.cache[s] \in [Way -> Line] /\ x.cache[s][w] \in Line
      BY <1>1, <2>2
    <3> DEFINE l == [x.cache[s][w] EXCEPT !.valid = TRUE, !.dirty = FALSE]
    <3>2. l \in Line /\ l.valid = TRUE /\ l.dirty = FALSE /\ l.tag = x.cache[s][w].tag
      BY <3>1 DEF Line
    <3>3. y.cache = [x.cache EXCEPT ![s][w] = l]
      BY <1>1, <2>1, <2>2, <3>1
    <3> HIDE DEF l
    <3>4. y.cache \in [Set -> [Way -> Line]]
      BY <1>1, <2>2, <3>2, <3>3
    <3>5. \A t \in Set, v \in Way :
            y.cache[t][v] = IF t = s /\ v = w THEN l ELSE x.cache[t][v]
      BY <1>1, <2>2, <3>3
    <3> QED
      BY <3>2, <3>4, <3>5
  <2>8. \A v \in Way : ~(x.cache[s][v].valid /\ x.cache[s][v].tag = a)
    BY <1>3 DEF ValidWays
  <2>9. \A t \in Set, v \in Way : cache[t][v].valid => cache[t][v].tag # a
    BY <2>8 DEF OneCopyIn, PlacedInv
  <2>10. /\ \A t \in Set, v \in Way : /\ x.cache[t][v].tag = cache[t][v].tag
                                      /\ cache[t][v].valid => x.cache[t][v].valid
                                      /\ cache[t][v].dirty \/ ~x.cache[t][v].dirty
         /\ \A t \in Set, v \in Way : x.cache[t][v].valid /\ ~cache[t][v].valid =>
              \E j \in DOMAIN x.list : x.list[j].at = <<t, v>>
         /\ \A j \in DOMAIN x.list : /\ x.list[j].unit \in begin .. begin + n - 1
                                     /\ x.list[j].at[1] = calcSetIndex(x.list[j].unit)
         /\ \A j, k \in DOMAIN x.list : x.list[j].unit = x.list[k].unit => j = k
         /\ \A j \in DOMAIN x.list, t \in Set, v \in Way :
              cache[t][v].valid => cache[t][v].tag # x.list[j].unit
    BY Zenon DEF PlacedInv
  <2>11. /\ \A u \in begin .. begin + n - 1 : u \in begin .. begin + (n + 1) - 1 /\ u # a
         /\ a \in begin .. begin + (n + 1) - 1
    OBVIOUS
  <2> HIDE DEF a, s
  <2>12. \A t \in Set, v \in Way : /\ y.cache[t][v].tag = cache[t][v].tag
                                   /\ cache[t][v].valid => y.cache[t][v].valid
                                   /\ cache[t][v].dirty \/ ~y.cache[t][v].dirty
    <3> SUFFICES ASSUME NEW t \in Set, NEW v \in Way
                 PROVE  /\ y.cache[t][v].tag = cache[t][v].tag
                        /\ cache[t][v].valid => y.cache[t][v].valid
                        /\ cache[t][v].dirty \/ ~y.cache[t][v].dirty
      OBVIOUS
    <3>1. CASE t = s /\ v = w
      BY <2>7, <2>10, <3>1
    <3>2. CASE ~(t = s /\ v = w)
      <4>1. /\ y.cache[t][v].valid = x.cache[t][v].valid
            /\ y.cache[t][v].dirty = x.cache[t][v].dirty
        BY <2>7, <3>2
      <4> QED
        BY <2>7, <2>10, <4>1, ZenonT(20)
    <3> QED
      BY <3>1, <3>2
  <2>13. \A t \in Set, v \in Way : y.cache[t][v].valid /\ ~cache[t][v].valid =>
           \E j \in DOMAIN y.list : y.list[j].at = <<t, v>>
    <3> SUFFICES ASSUME NEW t \in Set, NEW v \in Way, y.cache[t][v].valid, ~cache[t][v].valid
                 PROVE  \E j \in DOMAIN y.list : y.list[j].at = <<t, v>>
      OBVIOUS
    <3>1. CASE t = s /\ v = w
      BY <2>3, <2>6, <3>1
    <3>2. CASE ~(t = s /\ v = w)
      <4>1. x.cache[t][v].valid
        BY <2>7, <3>2
      <4>2. PICK j \in DOMAIN x.list : x.list[j].at = <<t, v>>
        BY <2>10, <4>1
      <4> QED
        BY <2>6, <4>2, Zenon
    <3> QED
      BY <3>1, <3>2
  <2>14. \A j \in DOMAIN y.list : /\ y.list[j].unit \in begin .. begin + (n + 1) - 1
                                  /\ y.list[j].at[1] = calcSetIndex(y.list[j].unit)
    BY <2>3, <2>6, <2>10, <2>11, Zenon DEF s
  <2>15. \A j, k \in DOMAIN y.list : y.list[j].unit = y.list[k].unit => j = k
    <3>1. \A j \in DOMAIN x.list : x.list[j].unit # a
      BY <2>10, <2>11, Zenon
    <3> QED
      BY <3>1, <2>3, <2>6, <2>10
  <2>16. \A j \in DOMAIN y.list, t \in Set, v \in Way :
           cache[t][v].valid => cache[t][v].tag # y.list[j].unit
    BY <2>3, <2>6, <2>9, <2>10
  <2> QED
    BY <2>5, <2>7, <2>12, <2>13, <2>14, <2>15, <2>16, Zenon DEF PlacedInv
<1> QED
  BY <1>2, <1>3

LEMMA PlacedAfterInv ==
  ASSUME cache \in [Set -> [Way -> Line]], OneCopyIn(cache),
         NEW begin \in Nat, NEW count \in Nat
  PROVE  \A x \in PlacedAfter(begin, count)[count] : PlacedInv(x, begin, count)
<1> DEFINE f == PlacedAfter(begin, count)
           S == {n \in Nat : n <= count => \A x \in f[n] : PlacedInv(x, begin, n)}
<1>1. f = [i \in 0 .. count |->
             IF i = 0 THEN {[cache |-> cache, noted |-> <<>>, list |-> <<>>]}
             ELSE UNION {Placed(x, begin + i - 1) : x \in f[i - 1]}]
  BY PlacedAfterDef
<1>2. 0 \in S
  <2>1. f[0] = {[cache |-> cache, noted |-> <<>>, list |-> <<>>]}
    <3> HIDE DEF f
    <3> QED
      BY <1>1
  <2>2. DOMAIN <<>> = {} /\ <<>> \in Seq([unit : Nat, at : Lines])
    OBVIOUS
  <2>3. \A x : x.cache = cache /\ x.list = <<>> => PlacedInv(x, begin, 0)
    BY <2>2 DEF PlacedInv
  <2>4. \A x \in f[0] : PlacedInv(x, begin, 0)
    BY <2>1, <2>3
  <2> HIDE DEF f
  <2> QED
    BY <2>4
<1> HIDE DEF f
<1>3. ASSUME NEW n \in Nat, n \in S PROVE n + 1 \in S
  <2> SUFFICES ASSUME n + 1 <= count, NEW y \in f[n + 1] PROVE PlacedInv(y, begin, n + 1)
    OBVIOUS
  <2>1. n + 1 \in 0 .. count /\ n + 1 # 0 /\ n <= count
    OBVIOUS
  <2>2. f[n + 1] = UNION {Placed(x, begin + (n + 1) - 1) : x \in f[(n + 1) - 1]}
    BY <1>1, <2>1, Zenon
  <2>3. (n + 1) - 1 = n /\ begin + (n + 1) - 1 = begin + n
    OBVIOUS
  <2>4. PICK x \in f[n] : y \in Placed(x, begin + n)
    BY <2>2, <2>3
  <2>5. PlacedInv(x, begin, n)
    BY <1>3, <2>1, <2>4
  <2> QED
    BY <2>4, <2>5, PlacedStep
<1>4. count \in S
  <2> HIDE DEF S
  <2> QED
    BY <1>2, <1>3, NatInductionSet
<1> QED
  BY <1>4 DEF f
\* Then each way that a unit got takes its tag, and the last of them if it got several.
LEMMA ReadInFacts ==
  ASSUME cache \in [Set -> [Way -> Line]], flash \in [LCA -> 0 .. MaxVersion + 1],
         OneCopyIn(cache), NEW begin \in Nat, NEW n \in Nat, NEW x, PlacedInv(x, begin, n)
  PROVE  /\ ReadIn(x) \in [Set -> [Way -> Line]]
         /\ OneCopyIn(ReadIn(x))
         /\ \A s \in Set, w \in Way : ReadIn(x)[s][w].dirty => cache[s][w].dirty
<1> DEFINE Here(s, w) == {i \in DOMAIN x.list : x.list[i].at = <<s, w>>}
           line(s, w) == IF <<s, w>> \in Range(x.noted)
                         THEN [x.cache[s][w] EXCEPT !.valid = FALSE, !.tag = 0]
                         ELSE x.cache[s][w]
           unitRead(s, w) == x.list[Max(Here(s, w))].unit
           new(s, w) == IF Here(s, w) = {} THEN line(s, w)
                        ELSE [line(s, w) EXCEPT
                                !.tag = unitRead(s, w),
                                !.ver = IF unitRead(s, w) \in LCA
                                        THEN flash[unitRead(s, w)] ELSE Nothing]
<1>1. ReadIn(x) = [s \in Set |-> [w \in Way |-> new(s, w)]]
  BY DEF ReadIn
<1>2. /\ x.cache \in [Set -> [Way -> Line]]
      /\ x.list \in Seq([unit : Nat, at : Lines])
      /\ \A s \in Set, w \in Way : /\ x.cache[s][w].tag = cache[s][w].tag
                                   /\ cache[s][w].dirty \/ ~x.cache[s][w].dirty
      /\ \A s \in Set, w \in Way : x.cache[s][w].valid /\ ~cache[s][w].valid =>
           \E j \in DOMAIN x.list : x.list[j].at = <<s, w>>
      /\ \A j \in DOMAIN x.list : x.list[j].at[1] = calcSetIndex(x.list[j].unit)
      /\ \A j, k \in DOMAIN x.list : x.list[j].unit = x.list[k].unit => j = k
      /\ \A j \in DOMAIN x.list, s \in Set, w \in Way :
           cache[s][w].valid => cache[s][w].tag # x.list[j].unit
  BY Zenon DEF PlacedInv
<1>3. \A s \in Set, w \in Way :
        /\ line(s, w) \in Line
        /\ line(s, w).valid => x.cache[s][w].valid /\ line(s, w).tag = cache[s][w].tag
        /\ line(s, w).dirty = x.cache[s][w].dirty
  <2> SUFFICES ASSUME NEW s \in Set, NEW w \in Way
               PROVE  /\ line(s, w) \in Line
                      /\ line(s, w).valid =>
                           x.cache[s][w].valid /\ line(s, w).tag = cache[s][w].tag
                      /\ line(s, w).dirty = x.cache[s][w].dirty
    OBVIOUS
  <2>1. x.cache[s][w] \in Line
    BY <1>2
  <2>2. CASE <<s, w>> \in Range(x.noted)
    BY <2>1, <2>2 DEF Line
  <2>3. CASE <<s, w>> \notin Range(x.noted)
    BY <1>2, <2>1, <2>3
  <2> QED
    BY <2>2, <2>3
<1> HIDE DEF line
<1>4. \A s \in Set, w \in Way : Here(s, w) # {} => Max(Here(s, w)) \in Here(s, w)
  <2> SUFFICES ASSUME NEW s \in Set, NEW w \in Way, Here(s, w) # {}
               PROVE  Max(Here(s, w)) \in Here(s, w)
    OBVIOUS
  <2>1. Len(x.list) \in Nat /\ DOMAIN x.list = 1 .. Len(x.list)
    BY <1>2, LenProperties
  <2>2. Here(s, w) \subseteq 0 .. Len(x.list)
    BY <2>1
  <2> HIDE DEF Here
  <2> QED
    BY <2>1, <2>2, MaxNat
<1>5. \A s \in Set, w \in Way : Here(s, w) # {} =>
        /\ unitRead(s, w) \in Nat
        /\ calcSetIndex(unitRead(s, w)) = s
        /\ \A t \in Set, v \in Way : cache[t][v].valid => cache[t][v].tag # unitRead(s, w)
        /\ \A t \in Set, v \in Way : Here(t, v) # {} /\ unitRead(t, v) = unitRead(s, w) => v = w
  <2> SUFFICES ASSUME NEW s \in Set, NEW w \in Way, Here(s, w) # {}
               PROVE  /\ unitRead(s, w) \in Nat
                      /\ calcSetIndex(unitRead(s, w)) = s
                      /\ \A t \in Set, v \in Way :
                           cache[t][v].valid => cache[t][v].tag # unitRead(s, w)
                      /\ \A t \in Set, v \in Way :
                           Here(t, v) # {} /\ unitRead(t, v) = unitRead(s, w) => v = w
    OBVIOUS
  <2>1. PICK j \in DOMAIN x.list : x.list[j].at = <<s, w>> /\ j = Max(Here(s, w))
    BY <1>4
  <2>2. x.list[j] \in [unit : Nat, at : Lines]
    <3>1. x.list \in Seq([unit : Nat, at : Lines])
      BY <1>2, Zenon
    <3>2. DOMAIN x.list = 1 .. Len(x.list)
      BY ONLY <3>1, LenProperties, Zenon
    <3>3. j \in 1 .. Len(x.list)
      BY ONLY <2>1, <3>2, Zenon
    <3> QED
      BY ONLY <3>1, <3>3, ElementOfSeq, Zenon
  <2>3. unitRead(s, w) = x.list[j].unit
    BY <2>1, Zenon
  <2>4. calcSetIndex(unitRead(s, w)) = s
    <3>1. <<s, w>>[1] = s
      BY ONLY TRUE
    <3>2. x.list[j].at[1] = s
      BY ONLY <2>1, <3>1, Zenon
    <3> QED
      BY <1>2, <2>1, <2>3, <3>2, Zenon
  <2>5. ASSUME NEW t \in Set, NEW v \in Way, Here(t, v) # {},
               unitRead(t, v) = unitRead(s, w)
        PROVE  v = w
    <3>1. PICK k \in DOMAIN x.list : x.list[k].at = <<t, v>> /\ k = Max(Here(t, v))
      BY <1>4, <2>5
    <3>2. x.list[k].unit = x.list[j].unit
      BY <2>3, <2>5, <3>1, Zenon
    <3>3. k = j
      BY <1>2, <3>2
    <3>4. <<s, w>> = <<t, v>>
      BY <2>1, <3>1, <3>3, Zenon
    <3> QED
      BY <3>4
  <2> HIDE DEF unitRead, Here
  <2> QED
    BY <1>2, <2>2, <2>3, <2>4, <2>5
<1>6. \A s \in Set, w \in Way : Here(s, w) = {} => ~x.cache[s][w].valid \/ cache[s][w].valid
  <2> SUFFICES ASSUME NEW s \in Set, NEW w \in Way, x.cache[s][w].valid, ~cache[s][w].valid
               PROVE  Here(s, w) # {}
    BY Zenon
  <2>1. PICK j \in DOMAIN x.list : x.list[j].at = <<s, w>>
    BY <1>2
  <2> QED
    BY <2>1
<1>7. \A s \in Set, w \in Way :
        /\ new(s, w) \in Line
        /\ new(s, w).dirty = x.cache[s][w].dirty
        /\ Here(s, w) # {} => new(s, w).tag = unitRead(s, w)
        /\ Here(s, w) = {} => new(s, w) = line(s, w)
  <2> SUFFICES ASSUME NEW s \in Set, NEW w \in Way
               PROVE  /\ new(s, w) \in Line
                      /\ new(s, w).dirty = x.cache[s][w].dirty
                      /\ Here(s, w) # {} => new(s, w).tag = unitRead(s, w)
                      /\ Here(s, w) = {} => new(s, w) = line(s, w)
    OBVIOUS
  <2>1. CASE Here(s, w) = {}
    BY <1>3, <2>1
  <2>2. CASE Here(s, w) # {}
    <3> DEFINE ver == IF unitRead(s, w) \in LCA THEN flash[unitRead(s, w)] ELSE Nothing
    <3>1. unitRead(s, w) \in Nat
      BY <1>5, <2>2
    <3> HIDE DEF unitRead, Here
    <3>2. ver \in 0 .. MaxVersion + 1
      BY CacheAssumption DEF Nothing
    <3>3. new(s, w) = [line(s, w) EXCEPT !.tag = unitRead(s, w), !.ver = ver]
      BY <2>2
    <3> HIDE DEF ver, new
    <3>4. line(s, w) \in Line /\ line(s, w).dirty = x.cache[s][w].dirty
      BY <1>3
    <3> QED
      BY <2>2, <3>1, <3>2, <3>3, <3>4 DEF Line
  <2> QED
    BY <2>1, <2>2
<1> HIDE DEF new, Here, unitRead
<1>8. /\ ReadIn(x) \in [Set -> [Way -> Line]]
      /\ \A s \in Set, w \in Way : ReadIn(x)[s][w] = new(s, w)
  BY <1>1, <1>7
<1>9. OneCopyIn(ReadIn(x))
  <2> SUFFICES ASSUME NEW s \in Set, NEW w \in Way, new(s, w).valid
               PROVE  /\ calcSetIndex(new(s, w).tag) = s
                      /\ \A v \in Way : new(s, v).valid /\ new(s, v).tag = new(s, w).tag
                                        => v = w
    BY <1>8 DEF OneCopyIn
  <2>1. \A v \in Way : Here(s, v) = {} /\ new(s, v).valid =>
          cache[s][v].valid /\ new(s, v).tag = cache[s][v].tag
    BY <1>3, <1>6, <1>7
  <2>2. CASE Here(s, w) = {}
    BY <1>5, <1>7, <2>1, <2>2 DEF OneCopyIn
  <2>3. CASE Here(s, w) # {}
    <3>1. new(s, w).tag = unitRead(s, w) /\ calcSetIndex(unitRead(s, w)) = s
      BY <1>5, <1>7, <2>3
    <3>2. ASSUME NEW v \in Way, new(s, v).valid, new(s, v).tag = unitRead(s, w) PROVE v = w
      <4>1. CASE Here(s, v) = {}
        BY <1>5, <2>1, <2>3, <3>2, <4>1
      <4>2. CASE Here(s, v) # {}
        <5>1. unitRead(s, v) = unitRead(s, w)
          BY <1>7, <3>2, <4>2
        <5> QED
          BY <1>5, <2>3, <4>2, <5>1
      <4> QED
        BY <4>1, <4>2
    <3> QED
      BY <3>1, <3>2
  <2> QED
    BY <2>2, <2>3
<1>10. \A s \in Set, w \in Way : ReadIn(x)[s][w].dirty => cache[s][w].dirty
  <2> SUFFICES ASSUME NEW s \in Set, NEW w \in Way, ReadIn(x)[s][w].dirty
               PROVE  cache[s][w].dirty
    OBVIOUS
  <2>1. x.cache[s][w].dirty
    BY <1>7, <1>8, Zenon
  <2> QED
    BY <1>2, <2>1
<1> QED
  BY <1>8, <1>9, <1>10
-----------------------------------------------------------------------------
(* The invariant.                                                          *)

Stored(a) ==
  \/ flash[a] = latest[a]
  \/ \E s \in Set, w \in Way : /\ cache[s][w].valid /\ cache[s][w].dirty
                               /\ cache[s][w].tag = a /\ cache[s][w].ver = latest[a]

\* Where NewestKept speaks: without caching of writes no line is dirty, and a dirty line holds
\* what the host wrote last, so that its eviction never takes the flash back.
Kept ==
  cfg.lines = 1 /\ ~cfg.flush /\ ~(cfg.read /\ cfg.write) =>
    /\ ~cfg.write => \A s \in Set, w \in Way : ~cache[s][w].dirty
    /\ \A s \in Set, w \in Way :
         LET line == cache[s][w] IN
         line.valid /\ line.dirty /\ line.tag \in LCA /\ latest[line.tag] # Nothing
           => line.ver = latest[line.tag]
    /\ \A a \in LCA : latest[a] # Nothing => Stored(a)

CacheInv == TypeOK /\ OneCopyIn(cache) /\ ~corrupted /\ Kept

LEMMA ConfigFacts ==
  ASSUME TypeOK
  PROVE  /\ cfg \in Configs /\ cfg.read \in BOOLEAN /\ cfg.write \in BOOLEAN
         /\ cfg.flush \in BOOLEAN
         /\ cfg.lines \in Nat \ {0} /\ cfg.ahead \in Nat
         /\ cfg.writes \in 0 .. MaxVersion /\ MaxVersion \in Nat
         /\ version \in 0 .. cfg.writes
         /\ cache \in [Set -> [Way -> Line]] /\ flash \in [LCA -> 0 .. MaxVersion + 1]
         /\ latest \in [LCA -> 0 .. MaxVersion]
         /\ LCA \subseteq Nat
<1>1. cfg \in [read : BOOLEAN, write : BOOLEAN, lines : Nat \ {0}, parallelIO : Nat \ {0},
               superPage : BOOLEAN, flush : BOOLEAN, writes : 0 .. MaxVersion, ahead : Nat]
  BY CacheAssumption DEF TypeOK
<1>2. MaxVersion \in Nat /\ LCA \subseteq Nat
  BY CacheAssumption DEF LCA
<1> QED
  BY <1>1, <1>2 DEF TypeOK

LEMMA NewestStored ==
  ASSUME NEW a \in LCA
  PROVE  Newest(a) <=> Stored(a)
<1>1. \A s \in Set, w \in Way : cache[s][w].valid =>
        <<s, w>> \in ValidLines /\ At(<<s, w>>) = cache[s][w]
  BY DEF ValidLines, Lines, At
<1>2. \A x \in ValidLines : x[1] \in Set /\ x[2] \in Way /\ cache[x[1]][x[2]].valid
  BY DEF ValidLines, Lines, At
<1>3. ASSUME Stored(a), flash[a] # latest[a] PROVE Newest(a)
  <2>1. PICK s \in Set, w \in Way : /\ cache[s][w].valid /\ cache[s][w].dirty
                                    /\ cache[s][w].tag = a /\ cache[s][w].ver = latest[a]
    BY <1>3, Zenon DEF Stored
  <2>2. /\ <<s, w>> \in ValidLines /\ At(<<s, w>>).tag = a /\ At(<<s, w>>).dirty
        /\ At(<<s, w>>).ver = latest[a]
    BY <1>1, <2>1
  <2> QED
    BY <2>2, Zenon DEF Newest
<1>4. Newest(a) => Stored(a)
  BY <1>2, Zenon DEF Newest, Stored, At
<1> QED
  BY <1>3, <1>4 DEF Newest

\* Units and pages are the same where a page has one unit.
LEMMA OneUnitPerPage ==
  ASSUME cfg.lines = 1, NEW a \in Nat
  PROVE  unit(a) = 0 /\ lpn(a) = a
<1>1. a % 1 = 0 /\ a \div 1 = a
  OBVIOUS
<1> QED
  BY <1>1 DEF unit, lpn

LEMMA InitCacheInv == Init => CacheInv
<1> SUFFICES ASSUME Init PROVE CacheInv
  OBVIOUS
<1>1. /\ cfg \in Configs /\ cache = [s \in Set |-> [w \in Way |-> NoLine]]
      /\ flash = [a \in LCA |-> Nothing] /\ latest = [a \in LCA |-> Nothing]
      /\ version = 0 /\ corrupted = FALSE
      /\ readDetect = [unit |-> 0, end |-> 0, hitCounter |-> 0, accessCounter |-> 0,
                       enabled |-> FALSE]
      /\ prefetch = [trigger |-> Never, last |-> 0]
  BY Zenon DEF Init
<1>2. NoLine \in Line /\ ~NoLine.valid /\ ~NoLine.dirty
  BY CacheAssumption DEF NoLine, Line, Nothing
<1>3. cache \in [Set -> [Way -> Line]] /\ \A s \in Set, w \in Way : cache[s][w] = NoLine
  BY <1>1, <1>2
<1>4. /\ flash \in [LCA -> 0 .. MaxVersion + 1] /\ latest \in [LCA -> 0 .. MaxVersion]
      /\ \A a \in LCA : latest[a] = Nothing
  BY <1>1, CacheAssumption DEF Nothing
<1>5. version \in 0 .. cfg.writes
  BY <1>1, CacheAssumption
<1>6. readDetect \in [unit : LCA, end : 0 .. 2, hitCounter : 0 .. PrefetchCount,
                      accessCounter : 0 .. PrefetchRatio, enabled : BOOLEAN]
  <2>1. 0 \in LCA /\ 0 \in 0 .. 2 /\ 0 \in 0 .. PrefetchCount /\ 0 \in 0 .. PrefetchRatio
    BY CacheAssumption DEF LCA
  <2> QED
    BY <1>1, <2>1
<1>7. prefetch \in [trigger : {Never} \cup Nat, last : Nat]
  BY <1>1
<1>8. TypeOK
  BY <1>1, <1>3, <1>4, <1>5, <1>6, <1>7 DEF TypeOK
<1>9. OneCopyIn(cache)
  BY <1>2, <1>3 DEF OneCopyIn
<1>10. Kept
  BY <1>2, <1>3, <1>4 DEF Kept
<1> QED
  BY <1>1, <1>8, <1>9, <1>10 DEF CacheInv

-----------------------------------------------------------------------------
(* Reads.                                                                  *)

LEMMA DetectionType ==
  ASSUME TypeOK, NEW a \in LCA, NEW offset, NEW length, offset + length \in 0 .. 2,
         NEW same \in BOOLEAN
  PROVE  checkSequential(a, offset, length, same) \in
           [unit : LCA, end : 0 .. 2, hitCounter : 0 .. PrefetchCount,
            accessCounter : 0 .. PrefetchRatio, enabled : BOOLEAN]
<1> DEFINE d == readDetect
           D == [unit : LCA, end : 0 .. 2, hitCounter : 0 .. PrefetchCount,
                 accessCounter : 0 .. PrefetchRatio, enabled : BOOLEAN]
           here == [d EXCEPT !.unit = a, !.end = offset + length]
           hits == Min({d.hitCounter + 1, PrefetchCount})
           accesses == Min({d.accessCounter + d.end, PrefetchRatio})
           on == hits = PrefetchCount /\ accesses = PrefetchRatio
<1>1. d \in D
  BY DEF TypeOK
<1>2. /\ d.end \in 0 .. 2 /\ d.hitCounter \in 0 .. PrefetchCount
      /\ d.accessCounter \in 0 .. PrefetchRatio /\ PrefetchCount \in Nat /\ PrefetchRatio \in Nat
  BY <1>1, CacheAssumption
<1>3. here \in D
  BY <1>1
<1>4. hits \in 0 .. PrefetchCount
  <2>1. d.hitCounter + 1 \in Nat
    BY <1>2
  <2> HIDE DEF d
  <2>2. {d.hitCounter + 1, PrefetchCount} \subseteq Nat /\ {d.hitCounter + 1, PrefetchCount} # {}
    BY <1>2, <2>1
  <2>3. hits \in {d.hitCounter + 1, PrefetchCount} /\ hits <= PrefetchCount
    BY <2>2, MinNat
  <2> QED
    BY <1>2, <2>1, <2>3
<1>5. accesses \in 0 .. PrefetchRatio
  <2>1. d.accessCounter + d.end \in Nat
    BY <1>2
  <2> HIDE DEF d
  <2>2. /\ {d.accessCounter + d.end, PrefetchRatio} \subseteq Nat
        /\ {d.accessCounter + d.end, PrefetchRatio} # {}
    BY <1>2, <2>1
  <2>3. accesses \in {d.accessCounter + d.end, PrefetchRatio} /\ accesses <= PrefetchRatio
    BY <2>2, MinNat
  <2> QED
    BY <1>2, <2>1, <2>3
<1>6. on \in BOOLEAN
  OBVIOUS
<1> DEFINE counted == [here EXCEPT !.hitCounter = hits, !.accessCounter = accesses,
                                   !.enabled = on]
           restarted == [here EXCEPT !.hitCounter = 0, !.accessCounter = 0,
                                     !.enabled = FALSE]
<1>7. checkSequential(a, offset, length, same) \in {here, restarted, counted}
  BY DEF checkSequential
<1> HIDE DEF here, hits, accesses, on, d
<1>8. counted \in D
  BY <1>3, <1>4, <1>5, <1>6
<1>9. restarted \in D
  <2>1. 0 \in 0 .. PrefetchCount /\ 0 \in 0 .. PrefetchRatio
    BY CacheAssumption
  <2> QED
    BY <1>3, <2>1
<1> QED
  BY <1>3, <1>7, <1>8, <1>9

LEMMA ReadAheadFacts ==
  ASSUME CacheInv, NEW begin \in Nat, NEW d, d.enabled \in BOOLEAN, ReadAhead(d, begin)
  PROVE  /\ cache' \in [Set -> [Way -> Line]] /\ OneCopyIn(cache')
         /\ \A s \in Set, w \in Way : cache'[s][w].dirty => cache[s][w].dirty
         /\ prefetch' \in [trigger : {Never} \cup Nat, last : Nat]
<1> DEFINE count == IF d.enabled THEN cfg.ahead ELSE 1
<1>1. /\ cfg.ahead \in Nat /\ cache \in [Set -> [Way -> Line]]
      /\ flash \in [LCA -> 0 .. MaxVersion + 1] /\ OneCopyIn(cache)
  BY ConfigFacts DEF CacheInv
<1>2. count \in Nat
  BY <1>1
<1>3. cache' \in ReadInFrom(begin, count)
  BY DEF ReadAhead
<1> HIDE DEF count
<1>4. PICK x \in PlacedAfter(begin, count)[count] : cache' = ReadIn(x)
  BY <1>3 DEF ReadInFrom
<1>5. PlacedInv(x, begin, count)
  BY <1>1, <1>2, <1>4, PlacedAfterInv
<1>6. /\ ReadIn(x) \in [Set -> [Way -> Line]] /\ OneCopyIn(ReadIn(x))
      /\ \A s \in Set, w \in Way : ReadIn(x)[s][w].dirty => cache[s][w].dirty
  BY <1>1, <1>2, <1>5, ReadInFacts
<1>7. /\ cache' \in [Set -> [Way -> Line]] /\ OneCopyIn(cache')
      /\ \A s \in Set, w \in Way : cache'[s][w].dirty => cache[s][w].dirty
  BY <1>4, <1>6, Zenon
<1>8. prefetch' \in [trigger : {Never} \cup Nat, last : Nat]
  <2>1. prefetch' = IF d.enabled
                    THEN [trigger |-> begin + count \div 2, last |-> begin + count]
                    ELSE prefetch
    BY DEF ReadAhead, count
  <2>2. count \div 2 \in Nat
    BY <1>2
  <2>3. begin + count \div 2 \in Nat /\ begin + count \in Nat
    BY <1>2, <2>2
  <2>4. prefetch \in [trigger : {Never} \cup Nat, last : Nat]
    BY DEF CacheInv, TypeOK
  <2> QED
    BY <2>1, <2>3, <2>4
<1> QED
  BY <1>7, <1>8

LEMMA ReadInv ==
  ASSUME CacheInv, NEW a \in LCA, NEW part \in Parts, NEW same \in BOOLEAN,
         HostRead(a, part[1], part[2], same)
  PROVE  CacheInv'
<1> DEFINE d == IF cfg.ahead = 0 THEN readDetect
                ELSE checkSequential(a, part[1], part[2], same)
<1>1. /\ cfg.read /\ readDetect' = d
      /\ UNCHANGED <<cfg, flash, latest, version, corrupted>>
      /\ \/ ReadAhead(d, a)
         \/ ReadAhead(d, prefetch.last)
         \/ UNCHANGED <<cache, prefetch>>
  BY DEF HostRead, Read
<1>2. part[1] + part[2] \in 0 .. 2
  BY DEF Parts
<1>3. d \in [unit : LCA, end : 0 .. 2, hitCounter : 0 .. PrefetchCount,
             accessCounter : 0 .. PrefetchRatio, enabled : BOOLEAN]
  BY <1>2, DetectionType, Zenon DEF CacheInv, TypeOK
<1> HIDE DEF d
<1>4. /\ TypeOK /\ a \in Nat /\ prefetch.last \in Nat /\ d.enabled \in BOOLEAN
      /\ OneCopyIn(cache) /\ ~corrupted /\ Kept
  BY <1>3, ConfigFacts DEF CacheInv, TypeOK
<1>5. /\ cache' \in [Set -> [Way -> Line]] /\ OneCopyIn(cache')
      /\ \A s \in Set, w \in Way : cache'[s][w].dirty => cache[s][w].dirty
      /\ prefetch' \in [trigger : {Never} \cup Nat, last : Nat]
  <2>1. CASE ReadAhead(d, a)
    BY <1>4, <2>1, ReadAheadFacts
  <2>2. CASE ReadAhead(d, prefetch.last)
    BY <1>4, <2>2, ReadAheadFacts
  <2>3. CASE UNCHANGED <<cache, prefetch>>
    BY <1>4, <2>3, Zenon DEF TypeOK
  <2> QED
    BY <1>1, <2>1, <2>2, <2>3
<1>6. TypeOK'
  BY <1>1, <1>3, <1>4, <1>5, Zenon DEF TypeOK
<1>7. Kept'
  <2>1. /\ cfg' = cfg /\ flash' = flash /\ latest' = latest
    BY <1>1
  <2> SUFFICES ASSUME cfg.lines = 1, ~cfg.flush, ~(cfg.read /\ cfg.write)
               PROVE  /\ \A s \in Set, w \in Way : ~cache'[s][w].dirty
                      /\ \A b \in LCA : latest[b] # Nothing => flash[b] = latest[b]
    BY <2>1, Zenon DEF Kept, Stored
  <2>2. /\ \A s \in Set, w \in Way : ~cache[s][w].dirty
        /\ \A b \in LCA : latest[b] # Nothing => Stored(b)
    BY <1>1, <1>4, Zenon DEF Kept
  <2> QED
    BY <1>5, <2>2, Zenon DEF Stored
<1> QED
  BY <1>1, <1>4, <1>5, <1>6, <1>7, Zenon DEF CacheInv
-----------------------------------------------------------------------------
(* Writes.                                                                 *)

LEMMA FtlWriteFacts ==
  ASSUME TypeOK, NEW a \in LCA, NEW ver \in 0 .. MaxVersion + 1
  PROVE  /\ FtlWrite(flash, a, {unit(a)}, ver) \in [LCA -> 0 .. MaxVersion + 1]
         /\ FtlWrite(flash, a, {unit(a)}, ver)[a] = ver
         /\ cfg.lines = 1 => \A b \in LCA \ {a} :
              FtlWrite(flash, a, {unit(a)}, ver)[b] = flash[b]
<1>1. /\ flash \in [LCA -> 0 .. MaxVersion + 1] /\ Junk \in 0 .. MaxVersion + 1
      /\ LCA \subseteq Nat
  BY ConfigFacts DEF Junk
<1> DEFINE new(b) == CASE b = a /\ unit(b) \in {unit(a)} -> ver
                       [] b # a /\ lpn(b) = lpn(a) /\ unit(b) \in {unit(a)} -> Junk
                       [] OTHER -> flash[b]
<1>2. FtlWrite(flash, a, {unit(a)}, ver) = [b \in LCA |-> new(b)]
  BY DEF FtlWrite
<1>3. new(a) = ver /\ \A b \in LCA : new(b) \in {ver, Junk, flash[b]}
  OBVIOUS
<1>4. cfg.lines = 1 => \A b \in LCA \ {a} : new(b) = flash[b]
  <2>1. cfg.lines = 1 => \A b \in LCA : lpn(b) = b
    BY <1>1, OneUnitPerPage
  <2> QED
    BY <2>1
<1> HIDE DEF new
<1> QED
  BY <1>1, <1>2, <1>3, <1>4

\* The next version, and the newest version of each unit, after a write of the host.
LEMMA HostWroteFacts ==
  ASSUME TypeOK, NEW a \in LCA, HostWrote(a)
  PROVE  /\ version + 1 \in 0 .. MaxVersion /\ version + 1 # Nothing
         /\ version' \in 0 .. cfg'.writes /\ cfg' = cfg
         /\ latest' \in [LCA -> 0 .. MaxVersion] /\ latest'[a] = version + 1
         /\ \A b \in LCA \ {a} : latest'[b] = latest[b]
         /\ UNCHANGED prefetchVars
<1>1. /\ version \in 0 .. cfg.writes /\ cfg.writes \in 0 .. MaxVersion /\ MaxVersion \in Nat
      /\ latest \in [LCA -> 0 .. MaxVersion]
  BY ConfigFacts
<1>2. /\ version < cfg.writes /\ version' = version + 1
      /\ latest' = [latest EXCEPT ![a] = version + 1]
      /\ cfg' = cfg /\ UNCHANGED prefetchVars
  BY DEF HostWrote
<1>3. version + 1 \in 0 .. MaxVersion /\ version + 1 \in 0 .. cfg.writes /\ version + 1 # 0
  BY <1>1, <1>2
<1> QED
  BY <1>1, <1>2, <1>3 DEF Nothing

LEMMA WriteFlashFacts ==
  ASSUME TypeOK, NEW a \in LCA, NEW partial \in BOOLEAN, HostWrote(a)
  PROVE  /\ WriteFlash(a, partial) \in [LCA -> 0 .. MaxVersion + 1]
         /\ ~(partial /\ cfg.write) => WriteFlash(a, partial)[a] = version + 1
         /\ cfg.lines = 1 => \A b \in LCA \ {a} : WriteFlash(a, partial)[b] = flash[b]
<1>1. version + 1 \in 0 .. MaxVersion + 1 /\ flash \in [LCA -> 0 .. MaxVersion + 1]
  BY HostWroteFacts, ConfigFacts
<1> DEFINE written == FtlWrite(flash, a, {unit(a)}, version + 1)
<1>2. /\ written \in [LCA -> 0 .. MaxVersion + 1] /\ written[a] = version + 1
      /\ cfg.lines = 1 => \A b \in LCA \ {a} : written[b] = flash[b]
  BY <1>1, FtlWriteFacts
<1>3. WriteFlash(a, partial) = IF partial /\ cfg.write THEN flash ELSE written
  BY DEF WriteFlash
<1> HIDE DEF written
<1> QED
  BY <1>1, <1>2, <1>3

LEMMA WriteThroughInv ==
  ASSUME CacheInv, NEW a \in LCA, NEW partial \in BOOLEAN, WriteThrough(a, partial)
  PROVE  CacheInv'
<1>1. /\ ~cfg.write /\ HostWrote(a) /\ flash' = WriteFlash(a, partial)
      /\ cache' = cache /\ corrupted' = corrupted
  BY DEF WriteThrough
<1>2. /\ version' \in 0 .. cfg'.writes /\ cfg' = cfg
      /\ latest' \in [LCA -> 0 .. MaxVersion] /\ latest'[a] = version + 1
      /\ \A b \in LCA \ {a} : latest'[b] = latest[b]
      /\ readDetect' = readDetect /\ prefetch' = prefetch
  BY <1>1, HostWroteFacts DEF CacheInv, prefetchVars
<1>3. /\ flash' \in [LCA -> 0 .. MaxVersion + 1] /\ flash'[a] = version + 1
      /\ cfg.lines = 1 => \A b \in LCA \ {a} : flash'[b] = flash[b]
  BY <1>1, WriteFlashFacts DEF CacheInv
<1>4. TypeOK'
  BY <1>1, <1>2, <1>3, Zenon DEF CacheInv, TypeOK
<1>5. Kept'
  <2> SUFFICES ASSUME cfg.lines = 1, ~cfg.flush, ~(cfg.read /\ cfg.write)
               PROVE  Kept'
    BY <1>2, Zenon DEF Kept
  <2>1. /\ ~cfg.write => \A s \in Set, w \in Way : ~cache[s][w].dirty
        /\ \A b \in LCA : latest[b] # Nothing => Stored(b)
        /\ \A s \in Set, w \in Way :
             LET line == cache[s][w] IN
             line.valid /\ line.dirty /\ line.tag \in LCA /\ latest[line.tag] # Nothing
               => line.ver = latest[line.tag]
    BY Zenon DEF CacheInv, Kept
  <2> QED
    BY <1>1, <1>2, <1>3, <2>1 DEF Kept, Stored
<1> QED
  BY <1>1, <1>4, <1>5, Zenon DEF CacheInv
\* A line is written over an invalid one, or over the one of the same unit.
LEMMA PutInv ==
  ASSUME CacheInv, NEW a \in LCA, NEW partial \in BOOLEAN, NEW w \in Way,
         cfg.write, HostWrote(a), flash' = WriteFlash(a, partial),
         cache' = Put(calcSetIndex(a), w, a, partial), corrupted' = corrupted,
         LET line == cache[calcSetIndex(a)][w] IN line.valid => line.tag = a,
         \A v \in Way : LET line == cache[calcSetIndex(a)][v]
                        IN  line.valid /\ line.tag = a => v = w
  PROVE  CacheInv'
<1> DEFINE s == calcSetIndex(a)
           new == [valid |-> TRUE, dirty |-> partial, tag |-> a, ver |-> version + 1]
<1>1. /\ version + 1 \in 0 .. MaxVersion /\ version + 1 # Nothing
      /\ version' \in 0 .. cfg'.writes /\ cfg' = cfg
      /\ latest' \in [LCA -> 0 .. MaxVersion] /\ latest'[a] = version + 1
      /\ \A b \in LCA \ {a} : latest'[b] = latest[b]
      /\ readDetect' = readDetect /\ prefetch' = prefetch
  BY HostWroteFacts DEF CacheInv, prefetchVars
<1>2. /\ flash' \in [LCA -> 0 .. MaxVersion + 1]
      /\ ~(partial /\ cfg.write) => flash'[a] = version + 1
      /\ cfg.lines = 1 => \A b \in LCA \ {a} : flash'[b] = flash[b]
  BY WriteFlashFacts DEF CacheInv
<1>3. /\ a \in Nat /\ s \in Set /\ cache \in [Set -> [Way -> Line]] /\ OneCopyIn(cache)
      /\ MaxVersion \in Nat
  BY ConfigFacts, SetIndex DEF CacheInv
<1>4. /\ new \in Line /\ new.tag = a /\ new.valid = TRUE /\ new.dirty = partial
      /\ new.ver = version + 1
  BY <1>1, <1>3 DEF Line
<1>5. cache' = [cache EXCEPT ![calcSetIndex(a)][w] = new]
  BY DEF Put
<1> HIDE DEF new
<1>6. cache' \in [Set -> [Way -> Line]] /\ OneCopyIn(cache')
  <2>1. \A v \in Way : cache[calcSetIndex(a)][v].valid /\ cache[calcSetIndex(a)][v].tag = a
          => v = w
    OBVIOUS
  <2>2. /\ [cache EXCEPT ![calcSetIndex(a)][w] = new] \in [Set -> [Way -> Line]]
        /\ OneCopyIn([cache EXCEPT ![calcSetIndex(a)][w] = new])
    BY <1>3, <1>4, <2>1, WriteLine
  <2> QED
    BY <1>5, <2>2, Zenon
<1>7. \A t \in Set, v \in Way :
        cache'[t][v] = IF t = s /\ v = w THEN new ELSE cache[t][v]
  BY <1>3, <1>5
<1>8. TypeOK'
  BY <1>1, <1>2, <1>6, Zenon DEF CacheInv, TypeOK
<1>9. Kept'
  <2> SUFFICES ASSUME cfg.lines = 1, ~cfg.flush, ~(cfg.read /\ cfg.write)
               PROVE  Kept'
    BY <1>1, Zenon DEF Kept
  <2>1. /\ \A t \in Set, v \in Way :
             LET line == cache[t][v] IN
             line.valid /\ line.dirty /\ line.tag \in LCA /\ latest[line.tag] # Nothing
               => line.ver = latest[line.tag]
        /\ \A b \in LCA : latest[b] # Nothing => Stored(b)
    BY Zenon DEF CacheInv, Kept
  <2>2. ASSUME NEW t \in Set, NEW v \in Way,
               cache'[t][v].valid, cache'[t][v].dirty, cache'[t][v].tag \in LCA,
               latest'[cache'[t][v].tag] # Nothing
        PROVE  cache'[t][v].ver = latest'[cache'[t][v].tag]
    <3>1. CASE t = s /\ v = w
      BY <1>1, <1>4, <1>7, <3>1
    <3>2. CASE ~(t = s /\ v = w)
      <4>1. cache'[t][v] = cache[t][v]
        BY <1>7, <3>2
      <4>2. cache[t][v].tag # a
        BY <1>3, <2>2, <3>2, <4>1 DEF OneCopyIn
      <4> QED
        BY <1>1, <2>1, <2>2, <4>1, <4>2
    <3> QED
      BY <3>1, <3>2
  <2>3. ASSUME NEW b \in LCA, latest'[b] # Nothing
        PROVE  Stored(b)'
    <3>1. CASE b = a /\ partial
      <4>1. /\ cache'[s][w].valid /\ cache'[s][w].dirty /\ cache'[s][w].tag = b
            /\ cache'[s][w].ver = latest'[b]
        BY <1>1, <1>3, <1>4, <1>7, <3>1
      <4> QED
        BY <1>3, <4>1, Zenon DEF Stored
    <3>2. CASE b = a /\ ~partial
      BY <1>1, <1>2, <3>2 DEF Stored
    <3>3. CASE b # a
      <4>1. latest'[b] = latest[b] /\ flash'[b] = flash[b]
        BY <1>1, <1>2, <3>3
      <4>2. Stored(b)
        BY <2>1, <2>3, <4>1
      <4>3. CASE flash[b] = latest[b]
        BY <4>1, <4>3 DEF Stored
      <4>4. CASE flash[b] # latest[b]
        <5>1. PICK t \in Set, v \in Way :
                /\ cache[t][v].valid /\ cache[t][v].dirty
                /\ cache[t][v].tag = b /\ cache[t][v].ver = latest[b]
          BY <4>2, <4>4, Zenon DEF Stored
        <5>2. cache'[t][v] = cache[t][v]
          BY <1>7, <3>3, <5>1
        <5> QED
          BY <4>1, <5>1, <5>2, Zenon DEF Stored
      <4> QED
        BY <4>3, <4>4
    <3> QED
      BY <3>1, <3>2, <3>3
  <2> QED
    BY <1>1, <2>2, <2>3, Zenon DEF Kept
<1> QED
  BY <1>6, <1>8, <1>9, Zenon DEF CacheInv

LEMMA WriteHitInv ==
  ASSUME CacheInv, NEW a \in LCA, NEW partial \in BOOLEAN, WriteHit(a, partial)
  PROVE  CacheInv'
<1>1. PICK w \in ValidWays(cache, a) : cache' = Put(calcSetIndex(a), w, a, partial)
  BY DEF WriteHit
<1>2. /\ w \in Way /\ cache[calcSetIndex(a)][w].valid /\ cache[calcSetIndex(a)][w].tag = a
  BY <1>1 DEF ValidWays
<1>3. \A v \in Way : cache[calcSetIndex(a)][v].valid /\ cache[calcSetIndex(a)][v].tag = a
        => v = w
  <2>1. calcSetIndex(a) \in Set /\ OneCopyIn(cache)
    BY ConfigFacts, SetIndex DEF CacheInv
  <2> QED
    BY <1>2, <2>1 DEF OneCopyIn
<1> QED
  BY <1>1, <1>2, <1>3, PutInv DEF WriteHit

LEMMA WriteEmptyInv ==
  ASSUME CacheInv, NEW a \in LCA, NEW partial \in BOOLEAN, WriteEmpty(a, partial)
  PROVE  CacheInv'
<1>1. PICK w \in EmptyWays(cache, calcSetIndex(a)) :
        cache' = Put(calcSetIndex(a), w, a, partial)
  BY DEF WriteEmpty
<1>2. w \in Way /\ ~cache[calcSetIndex(a)][w].valid
  BY <1>1 DEF EmptyWays
<1>3. \A v \in Way : ~(cache[calcSetIndex(a)][v].valid /\ cache[calcSetIndex(a)][v].tag = a)
  BY DEF WriteEmpty, ValidWays
<1> QED
  BY <1>1, <1>2, <1>3, PutInv DEF WriteEmpty
\* What is evicted: valid lines, one of them at least of the set that needs a way.
LEMMA EvictionsFacts ==
  ASSUME NEW s \in Set, NEW E \in Evictions(s)
  PROVE  E \subseteq ValidLines /\ \E w \in Way : <<s, w>> \in E
<1>1. \A p \in Picks : p \subseteq ValidLines
  BY DEF Picks
<1>2. \A x \in ValidLines : x = <<x[1], x[2]>> /\ x[2] \in Way
  BY DEF ValidLines, Lines
<1>3. CASE \E x \in E : E \in Picks /\ x[1] = s
  BY <1>1, <1>2, <1>3
<1>4. CASE \E p \in Picks \X ValidLines :
             /\ p[2][1] = s
             /\ E = (p[1] \ {y \in p[1] : Slots(y) = Slot(p[2])}) \cup {p[2]}
  <2>1. PICK p \in Picks \X ValidLines :
          /\ p[2][1] = s
          /\ E = (p[1] \ {y \in p[1] : Slots(y) = Slot(p[2])}) \cup {p[2]}
    BY <1>4
  <2>2. p[1] \in Picks /\ p[2] \in ValidLines
    BY <2>1
  <2>3. p[2] \in E /\ p[2] = <<s, p[2][2]>> /\ p[2][2] \in Way
    BY <1>2, <2>1, <2>2
  <2>4. E \subseteq ValidLines
    BY <1>1, <2>1, <2>2
  <2> QED
    BY <2>3, <2>4
<1>5. \/ \E x \in E : E \in Picks /\ x[1] = s
      \/ \E p \in Picks \X ValidLines :
           /\ p[2][1] = s
           /\ E = (p[1] \ {y \in p[1] : Slots(y) = Slot(p[2])}) \cup {p[2]}
  BY Zenon DEF Evictions
<1> QED
  BY <1>3, <1>4, <1>5

\* The dirty lines among them are stored, and no other unit of the flash changes.
LEMMA EvictedFlashFacts ==
  ASSUME CacheInv, NEW E, E \subseteq ValidLines
  PROVE  /\ EvictedFlash(E) \in [LCA -> 0 .. MaxVersion + 1]
         /\ \A s \in Set, w \in Way :
              <<s, w>> \in E /\ cache[s][w].dirty /\ cache[s][w].tag \in LCA =>
                EvictedFlash(E)[cache[s][w].tag] = cache[s][w].ver
         /\ \A b \in LCA : \/ EvictedFlash(E)[b] = flash[b]
                           \/ \E s \in Set, w \in Way :
                                /\ <<s, w>> \in E /\ cache[s][w].valid /\ cache[s][w].dirty
                                /\ cache[s][w].tag = b
                                /\ EvictedFlash(E)[b] = cache[s][w].ver
<1>1. /\ cache \in [Set -> [Way -> Line]] /\ flash \in [LCA -> 0 .. MaxVersion + 1]
      /\ OneCopy
  BY ConfigFacts, OneCopyBySets DEF CacheInv
<1>2. \A x \in E : /\ x[1] \in Set /\ x[2] \in Way /\ x = <<x[1], x[2]>>
                   /\ At(x) = cache[x[1]][x[2]] /\ At(x).valid /\ At(x) \in Line
  BY <1>1 DEF ValidLines, Lines, At
<1>3. \A x, y \in E : At(x).tag = At(y).tag => x = y
  BY <1>1 DEF OneCopy
<1> DEFINE Dirty(b, x) == At(x).valid /\ At(x).dirty /\ At(x).tag = b
           Pick(b) == CHOOSE x \in E : At(x).tag = b
           new(b) == IF \E x \in E : Dirty(b, x) THEN At(Pick(b)).ver ELSE flash[b]
<1>4. EvictedFlash(E) = [b \in LCA |-> new(b)]
  BY DEF EvictedFlash
<1>5. \A x \in E, b \in LCA : Dirty(b, x) => new(b) = At(x).ver
  <2> SUFFICES ASSUME NEW x \in E, NEW b \in LCA, Dirty(b, x) PROVE new(b) = At(x).ver
    OBVIOUS
  <2>1. Pick(b) \in E /\ At(Pick(b)).tag = b
    BY Zenon
  <2>2. Pick(b) = x
    BY <1>3, <2>1
  <2>3. new(b) = At(Pick(b)).ver
    BY Zenon
  <2> HIDE DEF new, Pick
  <2> QED
    BY <2>2, <2>3
<1>6. \A b \in LCA : (\A x \in E : ~Dirty(b, x)) => new(b) = flash[b]
  BY Zenon
<1> HIDE DEF new
<1>7. \A b \in LCA : new(b) \in 0 .. MaxVersion + 1
  <2> SUFFICES ASSUME NEW b \in LCA PROVE new(b) \in 0 .. MaxVersion + 1
    OBVIOUS
  <2>1. CASE \E x \in E : Dirty(b, x)
    <3>1. PICK x \in E : Dirty(b, x)
      BY <2>1
    <3>2. new(b) = At(x).ver
      BY <1>5, <3>1
    <3> QED
      BY <1>2, <3>2 DEF Line
  <2>2. CASE \A x \in E : ~Dirty(b, x)
    BY <1>1, <1>6, <2>2
  <2> QED
    BY <2>1, <2>2
<1>8. /\ EvictedFlash(E) \in [LCA -> 0 .. MaxVersion + 1]
      /\ \A b \in LCA : EvictedFlash(E)[b] = new(b)
  BY <1>4, <1>7
<1>9. ASSUME NEW s \in Set, NEW w \in Way, <<s, w>> \in E, cache[s][w].dirty,
             cache[s][w].tag \in LCA
      PROVE  EvictedFlash(E)[cache[s][w].tag] = cache[s][w].ver
  <2>1. At(<<s, w>>) = cache[s][w]
    BY DEF At
  <2>2. Dirty(cache[s][w].tag, <<s, w>>)
    BY <1>2, <1>9, <2>1
  <2>3. new(cache[s][w].tag) = At(<<s, w>>).ver
    BY <1>5, <1>9, <2>2
  <2> QED
    BY <1>8, <1>9, <2>1, <2>3
<1>10. ASSUME NEW b \in LCA, EvictedFlash(E)[b] # flash[b]
       PROVE  \E s \in Set, w \in Way :
                /\ <<s, w>> \in E /\ cache[s][w].valid /\ cache[s][w].dirty
                /\ cache[s][w].tag = b /\ EvictedFlash(E)[b] = cache[s][w].ver
  <2>1. PICK x \in E : Dirty(b, x)
    BY <1>6, <1>8, <1>10
  <2>2. EvictedFlash(E)[b] = At(x).ver
    BY <1>5, <1>8, <2>1
  <2>3. /\ x[1] \in Set /\ x[2] \in Way /\ <<x[1], x[2]>> \in E
        /\ At(x) = cache[x[1]][x[2]]
    BY <1>2
  <2> QED
    BY <2>1, <2>2, <2>3
<1> QED
  BY <1>8, <1>9, <1>10, Zenon

LEMMA EvictedCacheFacts ==
  ASSUME TypeOK, NEW E
  PROVE  /\ EvictedCache(E) \in [Set -> [Way -> Line]]
         /\ \A s \in Set, w \in Way :
              IF <<s, w>> \in E THEN ~EvictedCache(E)[s][w].valid
                                ELSE EvictedCache(E)[s][w] = cache[s][w]
<1>1. cache \in [Set -> [Way -> Line]]
  BY ConfigFacts
<1> DEFINE new(s, w) == IF <<s, w>> \in E
                        THEN [cache[s][w] EXCEPT !.valid = FALSE, !.dirty = FALSE, !.tag = 0]
                        ELSE cache[s][w]
<1>2. EvictedCache(E) = [s \in Set |-> [w \in Way |-> new(s, w)]]
  BY DEF EvictedCache
<1>3. \A s \in Set, w \in Way :
        /\ new(s, w) \in Line
        /\ IF <<s, w>> \in E THEN ~new(s, w).valid ELSE new(s, w) = cache[s][w]
  <2> SUFFICES ASSUME NEW s \in Set, NEW w \in Way
               PROVE  /\ new(s, w) \in Line
                      /\ IF <<s, w>> \in E THEN ~new(s, w).valid
                                           ELSE new(s, w) = cache[s][w]
    OBVIOUS
  <2>1. cache[s][w] \in Line
    BY <1>1
  <2> QED
    BY <2>1 DEF Line
<1> HIDE DEF new
<1>4. /\ EvictedCache(E) \in [Set -> [Way -> Line]]
      /\ \A s \in Set, w \in Way : EvictedCache(E)[s][w] = new(s, w)
  <2>1. \A s \in Set, w \in Way : new(s, w) \in Line
    BY <1>3, Zenon
  <2> QED
    BY <1>2, <2>1
<1> QED
  BY <1>3, <1>4, Zenon
\* With no way empty, lines are evicted first: a way of the set is free then.
LEMMA WriteEvictInv ==
  ASSUME CacheInv, NEW a \in LCA, NEW partial \in BOOLEAN, WriteEvict(a, partial)
  PROVE  CacheInv'
<1> DEFINE s == calcSetIndex(a)
           new == [valid |-> TRUE, dirty |-> TRUE, tag |-> a, ver |-> version + 1]
<1>1. /\ cfg.write /\ ValidWays(cache, a) = {} /\ HostWrote(a)
  BY DEF WriteEvict
<1>2. /\ version + 1 \in 0 .. MaxVersion /\ version + 1 # Nothing
      /\ version' \in 0 .. cfg'.writes /\ cfg' = cfg
      /\ latest' \in [LCA -> 0 .. MaxVersion] /\ latest'[a] = version + 1
      /\ \A b \in LCA \ {a} : latest'[b] = latest[b]
      /\ readDetect' = readDetect /\ prefetch' = prefetch
  BY <1>1, HostWroteFacts DEF CacheInv, prefetchVars
<1>3. /\ a \in Nat /\ s \in Set /\ cache \in [Set -> [Way -> Line]] /\ OneCopyIn(cache)
      /\ MaxVersion \in Nat
  BY ConfigFacts, SetIndex DEF CacheInv
<1>4. /\ new \in Line /\ new.tag = a /\ new.valid = TRUE /\ new.dirty = TRUE
      /\ new.ver = version + 1
  BY <1>2, <1>3 DEF Line
<1>5. PICK E \in Evictions(s) :
        LET evicted == EvictedCache(E)
            empty   == {w \in Way : ~evicted[s][w].valid}
            stored  == EvictedFlash(E)
        IN  /\ flash' = IF partial THEN stored ELSE [stored EXCEPT ![a] = version + 1]
            /\ IF empty = {}
               THEN corrupted' = TRUE /\ cache' = evicted
               ELSE /\ corrupted' = corrupted
                    /\ \E w \in empty : cache' = [evicted EXCEPT ![s][w] = new]
  BY Zenon DEF WriteEvict
<1>6. E \subseteq ValidLines /\ \E w \in Way : <<s, w>> \in E
  BY <1>3, EvictionsFacts
<1>7. PICK stored : stored = EvictedFlash(E)
  OBVIOUS
<1>8. /\ stored \in [LCA -> 0 .. MaxVersion + 1]
      /\ \A t \in Set, v \in Way :
           <<t, v>> \in E /\ cache[t][v].dirty /\ cache[t][v].tag \in LCA =>
             stored[cache[t][v].tag] = cache[t][v].ver
      /\ \A b \in LCA : \/ stored[b] = flash[b]
                        \/ \E t \in Set, v \in Way :
                             /\ <<t, v>> \in E /\ cache[t][v].valid /\ cache[t][v].dirty
                             /\ cache[t][v].tag = b /\ stored[b] = cache[t][v].ver
  BY <1>6, <1>7, EvictedFlashFacts, SMTT(20)
<1>9. PICK evicted : evicted = EvictedCache(E)
  OBVIOUS
<1>10. /\ evicted \in [Set -> [Way -> Line]]
       /\ \A t \in Set, v \in Way : IF <<t, v>> \in E THEN ~evicted[t][v].valid
                                                    ELSE evicted[t][v] = cache[t][v]
  BY <1>9, EvictedCacheFacts DEF CacheInv
<1> HIDE DEF new, s
<1>11. {w \in Way : ~evicted[s][w].valid} # {}
  BY <1>3, <1>6, <1>10
<1>12. /\ corrupted' = corrupted
       /\ flash' = IF partial THEN stored ELSE [stored EXCEPT ![a] = version + 1]
       /\ \E w \in Way : ~evicted[s][w].valid /\ cache' = [evicted EXCEPT ![s][w] = new]
  BY <1>5, <1>7, <1>9, <1>11, Zenon
<1>13. PICK w \in Way : ~evicted[s][w].valid /\ cache' = [evicted EXCEPT ![s][w] = new]
  BY <1>12
<1>14. /\ flash' \in [LCA -> 0 .. MaxVersion + 1]
       /\ ~partial => flash'[a] = version + 1
       /\ \A b \in LCA \ {a} : flash'[b] = stored[b]
  BY <1>2, <1>3, <1>8, <1>12
<1>15. \A t \in Set, v \in Way : evicted[t][v].valid =>
         cache[t][v].valid /\ evicted[t][v] = cache[t][v] /\ <<t, v>> \notin E
  BY <1>10
<1>16. /\ cache' \in [Set -> [Way -> Line]]
       /\ \A t \in Set, v \in Way :
            cache'[t][v] = IF t = s /\ v = w THEN new ELSE evicted[t][v]
  BY <1>3, <1>4, <1>10, <1>13
<1>17. OneCopyIn(cache')
  <2>1. OneCopyIn(evicted)
    BY <1>3, <1>15, FewerLines
  <2>2. \A v \in Way : ~(cache[s][v].valid /\ cache[s][v].tag = a)
    BY <1>1 DEF ValidWays, s
  <2>3. \A v \in Way : evicted[s][v].valid /\ evicted[s][v].tag = a => v = w
    BY <1>3, <1>15, <2>2
  <2>4. OneCopyIn([evicted EXCEPT ![calcSetIndex(a)][w] = new])
    BY <1>3, <1>4, <1>10, <2>1, <2>3, WriteLine DEF s
  <2> QED
    BY <1>13, <2>4, Zenon DEF s
<1>18. TypeOK'
  BY <1>2, <1>12, <1>14, <1>16, Zenon DEF CacheInv, TypeOK
<1>19. Kept'
  <2> SUFFICES ASSUME cfg.lines = 1, ~cfg.flush, ~(cfg.read /\ cfg.write)
               PROVE  Kept'
    BY <1>2, Zenon DEF Kept
  <2>1. /\ \A t \in Set, v \in Way :
             LET line == cache[t][v] IN
             line.valid /\ line.dirty /\ line.tag \in LCA /\ latest[line.tag] # Nothing
               => line.ver = latest[line.tag]
        /\ \A b \in LCA : latest[b] # Nothing => Stored(b)
    BY Zenon DEF CacheInv, Kept
  <2>2. ASSUME NEW t \in Set, NEW v \in Way,
               cache'[t][v].valid, cache'[t][v].dirty, cache'[t][v].tag \in LCA,
               latest'[cache'[t][v].tag] # Nothing
        PROVE  cache'[t][v].ver = latest'[cache'[t][v].tag]
    <3>1. CASE t = s /\ v = w
      BY <1>2, <1>4, <1>16, <3>1
    <3>2. CASE ~(t = s /\ v = w)
      <4>1. cache'[t][v] = evicted[t][v]
        BY <1>16, <3>2
      <4>2. cache'[t][v] = cache[t][v] /\ cache[t][v].valid
        BY <1>15, <2>2, <4>1
      <4>3. cache[t][v].tag # a
        <5>1. cache'[s][w].valid /\ cache'[s][w].tag = a
          BY <1>3, <1>4, <1>16
        <5> QED
          BY <1>3, <1>17, <2>2, <3>2, <4>2, <5>1 DEF OneCopyIn
      <4> QED
        BY <1>2, <2>1, <2>2, <4>2, <4>3
    <3> QED
      BY <3>1, <3>2
  <2>3. ASSUME NEW b \in LCA, latest'[b] # Nothing
        PROVE  Stored(b)'
    <3>1. CASE b = a /\ partial
      <4>1. /\ cache'[s][w].valid /\ cache'[s][w].dirty /\ cache'[s][w].tag = b
            /\ cache'[s][w].ver = latest'[b]
        BY <1>2, <1>3, <1>4, <1>16, <3>1
      <4> QED
        BY <1>3, <4>1, Zenon DEF Stored
    <3>2. CASE b = a /\ ~partial
      BY <1>2, <1>14, <3>2 DEF Stored
    <3>3. CASE b # a
      <4>1. latest'[b] = latest[b] /\ flash'[b] = stored[b]
        BY <1>2, <1>14, <3>3
      <4>2. CASE stored[b] = latest[b]
        BY <4>1, <4>2 DEF Stored
      <4>3. CASE stored[b] # latest[b]
        <5>1. stored[b] = flash[b]
          <6> SUFFICES ASSUME stored[b] # flash[b] PROVE FALSE
            OBVIOUS
          <6>0. b \in LCA
            BY <2>3
          <6>1. PICK t \in Set, v \in Way :
                  /\ <<t, v>> \in E /\ cache[t][v].valid /\ cache[t][v].dirty
                  /\ cache[t][v].tag = b /\ stored[b] = cache[t][v].ver
            BY <1>8, <6>0, Zenon
          <6>2. cache[t][v].ver = latest[b]
            BY <2>1, <2>3, <4>1, <6>1
          <6> QED
            BY <4>3, <6>1, <6>2
        <5>2. PICK t \in Set, v \in Way :
                /\ cache[t][v].valid /\ cache[t][v].dirty
                /\ cache[t][v].tag = b /\ cache[t][v].ver = latest[b]
          BY <2>1, <2>3, <4>1, <4>3, <5>1, Zenon DEF Stored
        <5>3. <<t, v>> \notin E
          BY <1>8, <4>3, <5>2
        <5>4. evicted[t][v] = cache[t][v]
          BY <1>10, <5>3
        <5>5. cache'[t][v] = cache[t][v]
          BY <1>13, <1>16, <5>2, <5>4
        <5> QED
          BY <4>1, <5>2, <5>5, Zenon DEF Stored
      <4> QED
        BY <4>2, <4>3
    <3> QED
      BY <3>1, <3>2, <3>3
  <2> QED
    BY <1>1, <1>2, <2>2, <2>3, Zenon DEF Kept
<1> QED
  BY <1>12, <1>17, <1>18, <1>19, Zenon DEF CacheInv
-----------------------------------------------------------------------------
(* Flush, trim and format.                                                 *)

\* The last of some lines, in the order of the loops over the cache.
LEMMA LastLine ==
  ASSUME NEW S, S \subseteq Lines, S # {}
  PROVE  \E x \in S : \A y \in S : Before(y, x)
<1> DEFINE Sets == {x[1] : x \in S}
<1>1. \A x \in S : x[1] \in 0 .. SetSize /\ x[2] \in 0 .. WaySize
  BY CacheAssumption DEF Lines, Set, Way
<1>2. SetSize \in Nat /\ WaySize \in Nat
  BY CacheAssumption
<1>3. Max(Sets) \in Sets /\ \A s \in Sets : s <= Max(Sets)
  <2>1. Sets \subseteq 0 .. SetSize /\ Sets # {}
    BY <1>1
  <2> HIDE DEF Sets
  <2> QED
    BY <1>2, <2>1, MaxNat
<1>4. PICK s \in 0 .. SetSize : /\ \E x \in S : x[1] = s
                                /\ \A x \in S : x[1] <= s
  BY <1>1, <1>3
<1> DEFINE Ways == {x[2] : x \in {z \in S : z[1] = s}}
<1>5. Max(Ways) \in Ways /\ \A w \in Ways : w <= Max(Ways)
  <2>1. Ways \subseteq 0 .. WaySize /\ Ways # {}
    BY <1>1, <1>4
  <2> HIDE DEF Ways
  <2> QED
    BY <1>2, <2>1, MaxNat
<1>6. PICK x \in S : x[1] = s /\ \A y \in S : y[1] = s => y[2] <= x[2]
  BY <1>5
<1>7. \A y \in S : Before(y, x)
  BY <1>1, <1>4, <1>6 DEF Before
<1> QED
  BY <1>7

LEMMA FlushedFlashType ==
  ASSUME TypeOK, NEW range
  PROVE  FlushedFlash(range) \in [LCA -> 0 .. MaxVersion + 1]
<1> DEFINE D == {x \in Matching(range) : At(x).dirty}
           flags(x) == {unit(At(y).tag) : y \in {z \in D : Before(z, x)}}
           touching(b) == {x \in D : lpn(At(x).tag) = lpn(b) /\ unit(b) \in flags(x)}
           last(b) == CHOOSE x \in touching(b) : \A y \in touching(b) : Before(y, x)
           new(b) == CASE touching(b) = {} -> flash[b]
                       [] touching(b) # {} /\ At(last(b)).tag = b -> At(last(b)).ver
                       [] OTHER -> Junk
<1>1. FlushedFlash(range) = [b \in LCA |-> new(b)]
  BY DEF FlushedFlash
<1>2. /\ cache \in [Set -> [Way -> Line]] /\ flash \in [LCA -> 0 .. MaxVersion + 1]
      /\ Junk \in 0 .. MaxVersion + 1
  BY ConfigFacts DEF Junk
<1>3. \A x \in Lines : At(x).ver \in 0 .. MaxVersion + 1
  BY <1>2 DEF Lines, At, Line
<1>4. \A b \in LCA : touching(b) \subseteq Lines
  BY DEF Matching
<1>5. \A b \in LCA : touching(b) # {} => last(b) \in Lines
  <2> SUFFICES ASSUME NEW b \in LCA, touching(b) # {} PROVE last(b) \in Lines
    OBVIOUS
  <2>1. touching(b) \subseteq Lines
    BY <1>4
  <2> HIDE DEF touching
  <2>2. \E x \in touching(b) : \A y \in touching(b) : Before(y, x)
    BY <2>1, LastLine
  <2>3. last(b) \in touching(b)
    BY <2>2, Zenon
  <2> QED
    BY <2>1, <2>3
<1> HIDE DEF touching, last
<1>6. \A b \in LCA : new(b) \in 0 .. MaxVersion + 1
  BY <1>2, <1>3, <1>5
<1> HIDE DEF new
<1> QED
  BY <1>1, <1>6

LEMMA InvalidatedFacts ==
  ASSUME TypeOK, OneCopyIn(cache), NEW S
  PROVE  /\ InvalidateLines(S) \in [Set -> [Way -> Line]]
         /\ OneCopyIn(InvalidateLines(S))
         /\ \A s \in Set, w \in Way :
              /\ InvalidateLines(S)[s][w].valid <=> cache[s][w].valid /\ <<s, w>> \notin S
              /\ InvalidateLines(S)[s][w].dirty = cache[s][w].dirty
              /\ InvalidateLines(S)[s][w].tag = cache[s][w].tag
              /\ InvalidateLines(S)[s][w].ver = cache[s][w].ver
<1>1. cache \in [Set -> [Way -> Line]]
  BY ConfigFacts
<1> DEFINE new(s, w) == [cache[s][w] EXCEPT !.valid = @ /\ <<s, w>> \notin S]
<1>2. InvalidateLines(S) = [s \in Set |-> [w \in Way |-> new(s, w)]]
  BY DEF InvalidateLines
<1>3. \A s \in Set, w \in Way :
        /\ new(s, w) \in Line
        /\ new(s, w).valid <=> cache[s][w].valid /\ <<s, w>> \notin S
        /\ new(s, w).dirty = cache[s][w].dirty
        /\ new(s, w).tag = cache[s][w].tag
        /\ new(s, w).ver = cache[s][w].ver
  <2> SUFFICES ASSUME NEW s \in Set, NEW w \in Way
               PROVE  /\ new(s, w) \in Line
                      /\ new(s, w).valid <=> cache[s][w].valid /\ <<s, w>> \notin S
                      /\ new(s, w).dirty = cache[s][w].dirty
                      /\ new(s, w).tag = cache[s][w].tag
                      /\ new(s, w).ver = cache[s][w].ver
    OBVIOUS
  <2>1. cache[s][w] \in Line
    BY <1>1
  <2> QED
    BY <2>1 DEF Line
<1> HIDE DEF new
<1>4. /\ InvalidateLines(S) \in [Set -> [Way -> Line]]
      /\ \A s \in Set, w \in Way : InvalidateLines(S)[s][w] = new(s, w)
  <2>1. \A s \in Set, w \in Way : new(s, w) \in Line
    BY <1>3, Zenon
  <2> QED
    BY <1>2, <2>1
<1>5. OneCopyIn(InvalidateLines(S))
  <2>1. \A s \in Set, w \in Way : InvalidateLines(S)[s][w].valid =>
          cache[s][w].valid /\ InvalidateLines(S)[s][w].tag = cache[s][w].tag
    BY <1>3, <1>4, Zenon
  <2> QED
    BY <2>1, FewerLines, Zenon
<1> QED
  BY <1>3, <1>4, <1>5, ZenonT(20)

LEMMA FlushInv ==
  ASSUME CacheInv, NEW range, Flush(range)
  PROVE  CacheInv'
<1>1. /\ cfg.flush /\ flash' = FlushedFlash(range)
      /\ cache' = InvalidateLines(Matching(range))
      /\ UNCHANGED <<cfg, latest, version, corrupted, readDetect, prefetch>>
  BY DEF Flush, prefetchVars
<1>2. flash' \in [LCA -> 0 .. MaxVersion + 1]
  BY <1>1, FlushedFlashType DEF CacheInv
<1>3. cache' \in [Set -> [Way -> Line]] /\ OneCopyIn(cache')
  BY <1>1, InvalidatedFacts, Zenon DEF CacheInv
<1>4. TypeOK'
  BY <1>1, <1>2, <1>3, Zenon DEF CacheInv, TypeOK
<1>5. Kept'
  BY <1>1, Zenon DEF Kept
<1> QED
  BY <1>1, <1>3, <1>4, <1>5, Zenon DEF CacheInv

LEMMA RangeFacts ==
  ASSUME NEW range \in Ranges
  PROVE  /\ In(range) \subseteq LCA /\ range.slpn \in Nat /\ range.nlp \in Nat \ {0}
         /\ In(range) = range.slpn .. range.slpn + range.nlp - 1
<1>1. /\ range \in [slpn : LCA, nlp : 1 .. LCAs] /\ range.slpn + range.nlp <= LCAs
      /\ LCAs \in Nat
  BY CacheAssumption
<1>2. range.slpn \in LCA /\ range.nlp \in 1 .. LCAs
  BY <1>1
<1> QED
  BY <1>1, <1>2 DEF In, LCA

\* Some units are discarded by the host, with all the lines that hold them, and pages of
\* the flash: where a page has one unit, no page of any other unit.
LEMMA DiscardInv ==
  ASSUME CacheInv, NEW range \in Ranges, NEW pages, NEW S,
         HostDiscarded(range), flash' = FtlDiscard(flash, pages),
         cache' \in {cache, InvalidateLines(S)}, cache' # cache => S \subseteq Matching(range),
         cfg.lines = 1 => pages \subseteq In(range),
         UNCHANGED <<cfg, version, corrupted, prefetchVars>>
  PROVE  CacheInv'
<1>1. /\ flash \in [LCA -> 0 .. MaxVersion + 1] /\ latest \in [LCA -> 0 .. MaxVersion]
      /\ MaxVersion \in Nat /\ LCA \subseteq Nat /\ cache \in [Set -> [Way -> Line]]
  BY ConfigFacts DEF CacheInv
<1>2. /\ flash' \in [LCA -> 0 .. MaxVersion + 1]
      /\ \A b \in LCA : lpn(b) \notin pages => flash'[b] = flash[b]
  BY <1>1 DEF FtlDiscard, Nothing
<1>3. /\ latest' \in [LCA -> 0 .. MaxVersion]
      /\ \A b \in LCA : latest'[b] = IF b \in In(range) THEN Nothing ELSE latest[b]
  BY <1>1 DEF HostDiscarded, Nothing
<1>4. /\ cache' \in [Set -> [Way -> Line]] /\ OneCopyIn(cache')
      /\ \A s \in Set, w \in Way :
           /\ cache'[s][w].valid => cache[s][w].valid
           /\ cache[s][w].valid /\ cache[s][w].tag \notin In(range) => cache'[s][w].valid
           /\ cache'[s][w].dirty = cache[s][w].dirty
           /\ cache'[s][w].tag = cache[s][w].tag
           /\ cache'[s][w].ver = cache[s][w].ver
  <2>1. CASE cache' = cache
    BY <1>1, <2>1 DEF CacheInv
  <2>2. CASE cache' = InvalidateLines(S) /\ cache' # cache
    <3>1. \A s \in Set, w \in Way : <<s, w>> \in S => cache[s][w].tag \in In(range)
      <4>1. \A s \in Set, w \in Way : At(<<s, w>>) = cache[s][w]
        BY DEF At
      <4> QED
        BY <2>2, <4>1, Zenon DEF Matching
    <3>2. /\ cache' \in [Set -> [Way -> Line]] /\ OneCopyIn(cache')
          /\ \A s \in Set, w \in Way :
               /\ cache'[s][w].valid <=> cache[s][w].valid /\ <<s, w>> \notin S
               /\ cache'[s][w].dirty = cache[s][w].dirty
               /\ cache'[s][w].tag = cache[s][w].tag
               /\ cache'[s][w].ver = cache[s][w].ver
      <4>1. TypeOK /\ OneCopyIn(cache)
        BY DEF CacheInv
      <4> QED
        BY <2>2, <4>1, InvalidatedFacts
    <3> QED
      BY <3>1, <3>2, Zenon
  <2> QED
    BY <2>1, <2>2
<1>5. TypeOK'
  BY <1>2, <1>3, <1>4, Zenon DEF CacheInv, TypeOK, prefetchVars
<1>6. Kept'
  <2> SUFFICES ASSUME cfg.lines = 1, ~cfg.flush, ~(cfg.read /\ cfg.write)
               PROVE  Kept'
    BY Zenon DEF Kept
  <2>1. /\ ~cfg.write => \A s \in Set, w \in Way : ~cache[s][w].dirty
        /\ \A s \in Set, w \in Way :
             LET line == cache[s][w] IN
             line.valid /\ line.dirty /\ line.tag \in LCA /\ latest[line.tag] # Nothing
               => line.ver = latest[line.tag]
        /\ \A b \in LCA : latest[b] # Nothing => Stored(b)
    BY Zenon DEF CacheInv, Kept
  <2>2. ~cfg.write => \A s \in Set, w \in Way : ~cache'[s][w].dirty
    BY <1>4, <2>1, Zenon
  <2>3. ASSUME NEW s \in Set, NEW w \in Way,
               cache'[s][w].valid, cache'[s][w].dirty, cache'[s][w].tag \in LCA,
               latest'[cache'[s][w].tag] # Nothing
        PROVE  cache'[s][w].ver = latest'[cache'[s][w].tag]
    <3>1. latest'[cache[s][w].tag] = latest[cache[s][w].tag]
      BY <1>3, <1>4, <2>3
    <3> QED
      BY <1>4, <2>1, <2>3, <3>1
  <2>4. ASSUME NEW b \in LCA, latest'[b] # Nothing PROVE Stored(b)'
    <3>1. b \notin In(range) /\ latest'[b] = latest[b]
      BY <1>3, <2>4
    <3>2. lpn(b) = b
      BY <1>1, OneUnitPerPage
    <3>3. flash'[b] = flash[b]
      BY <1>2, <3>1, <3>2
    <3>4. Stored(b)
      BY <2>1, <2>4, <3>1
    <3>5. CASE flash[b] = latest[b]
      BY <3>1, <3>3, <3>5 DEF Stored
    <3>6. CASE flash[b] # latest[b]
      <4>1. PICK s \in Set, w \in Way :
              /\ cache[s][w].valid /\ cache[s][w].dirty
              /\ cache[s][w].tag = b /\ cache[s][w].ver = latest[b]
        BY <3>4, <3>6, Zenon DEF Stored
      <4>2. /\ cache'[s][w].valid /\ cache'[s][w].dirty
            /\ cache'[s][w].tag = b /\ cache'[s][w].ver = latest'[b]
        BY <1>4, <3>1, <4>1, Zenon
      <4> QED
        BY <4>2, Zenon DEF Stored
    <3> QED
      BY <3>5, <3>6
  <2> QED
    BY <2>2, <2>3, <2>4, Zenon DEF Kept
<1> QED
  BY <1>4, <1>5, <1>6, Zenon DEF CacheInv

LEMMA TrimInv ==
  ASSUME CacheInv, NEW range \in Ranges, Trim(range)
  PROVE  CacheInv'
<1> DEFINE pages == {lpn(At(x).tag) : x \in Matching(range)}
<1>1. /\ flash' = FtlDiscard(flash, pages) /\ cache' = InvalidateLines(Matching(range))
      /\ HostDiscarded(range) /\ UNCHANGED <<cfg, version, corrupted, prefetchVars>>
  BY DEF Trim
<1>2. cfg.lines = 1 => pages \subseteq In(range)
  <2>1. \A x \in Matching(range) : At(x).tag \in In(range) /\ In(range) \subseteq Nat
    BY RangeFacts, ConfigFacts DEF Matching, CacheInv
  <2>2. cfg.lines = 1 => \A x \in Matching(range) : lpn(At(x).tag) = At(x).tag
    BY <2>1, OneUnitPerPage
  <2> QED
    BY <2>1, <2>2
<1> HIDE DEF pages
<1> QED
  BY <1>1, <1>2, DiscardInv

LEMMA FormatInv ==
  ASSUME CacheInv, NEW range \in Ranges, Format(range)
  PROVE  CacheInv'
<1> DEFINE slpn == lpn(range.slpn)
           nlp == (range.nlp - 1) \div cfg.lines + 1
<1>1. /\ flash' = FtlDiscard(flash, slpn .. slpn + nlp - 1)
      /\ cache' \in {cache, InvalidateLines(Matching(range) \cap ValidLines)}
      /\ HostDiscarded(range) /\ UNCHANGED <<cfg, version, corrupted, prefetchVars>>
  BY DEF Format
<1>2. cfg.lines = 1 => slpn .. slpn + nlp - 1 \subseteq In(range)
  <2> SUFFICES ASSUME cfg.lines = 1 PROVE slpn = range.slpn /\ nlp = range.nlp
    BY RangeFacts
  <2>1. range.slpn \in Nat /\ range.nlp \in Nat
    BY RangeFacts
  <2>2. \A n \in Nat : (n - 1) \div 1 + 1 = n
    OBVIOUS
  <2> QED
    BY <2>1, <2>2, OneUnitPerPage
<1>3. Matching(range) \cap ValidLines \subseteq Matching(range)
  OBVIOUS
<1> HIDE DEF slpn, nlp
<1> QED
  BY <1>1, <1>2, <1>3, DiscardInv

-----------------------------------------------------------------------------
(* Theorems.                                                               *)

LEMMA CacheStepInv == CacheInv /\ [Next]_vars => CacheInv'
<1>1. CacheInv /\ Next => CacheInv'
  BY ReadInv, WriteThroughInv, WriteHitInv, WriteEmptyInv, WriteEvictInv, FlushInv,
     TrimInv, FormatInv DEF Next
<1>2. CacheInv /\ UNCHANGED vars => CacheInv'
  <2> SUFFICES ASSUME CacheInv, UNCHANGED vars PROVE CacheInv'
    OBVIOUS
  <2>1. UNCHANGED <<cfg, cache, flash, latest, version, corrupted, readDetect, prefetch>>
    BY DEF vars, prefetchVars
  <2>2. TypeOK'
    BY <2>1, Zenon DEF CacheInv, TypeOK
  <2>3. Kept'
    <3>1. Kept
      BY DEF CacheInv
    <3>2. \A a : Stored(a)' <=> Stored(a)
      BY <2>1, Zenon DEF Stored
    <3> QED
      BY <2>1, <3>1, <3>2, Zenon DEF Kept
  <2> QED
    BY <2>1, <2>2, <2>3, Zenon DEF CacheInv
<1> QED
  BY <1>1, <1>2

LEMMA CacheInvariantHolds == Spec => []CacheInv
BY InitCacheInv, CacheStepInv, PTL DEF Spec

\* Types: lines, versions and the state of the read ahead stay in their ranges.
THEOREM CacheTypeCorrect == Spec => []TypeOK
<1>1. CacheInv => TypeOK
  BY DEF CacheInv
<1> QED
  BY <1>1, CacheInvariantHolds, PTL

\* Whatever is read, read ahead, written, evicted, flushed or discarded, a unit is cached
\* in one line at most, in the set its address selects.
THEOREM UnitsCachedOnce == Spec => []OneCopy
<1>1. CacheInv => OneCopy
  BY OneCopyBySets DEF CacheInv
<1> QED
  BY <1>1, CacheInvariantHolds, PTL

\* An eviction for a write frees a way of the set that needs one, whatever slots the
\* lines compete for and whichever the policy keeps.
THEOREM EvictionAlwaysFreesSet == Spec => []EvictionFreesSet
<1>1. CacheInv => EvictionFreesSet
  BY DEF CacheInv, EvictionFreesSet
<1> QED
  BY <1>1, CacheInvariantHolds, PTL

\* With one unit per page, without flush and with one kind of caching at most, what the
\* host wrote last is in the flash or in a dirty line on its way there.
THEOREM NewestNeverLost == Spec => []NewestKept
<1>1. ASSUME CacheInv PROVE NewestKept
  <2> SUFFICES ASSUME cfg.lines = 1, ~cfg.flush, ~(cfg.read /\ cfg.write),
                      NEW a \in LCA, latest[a] # Nothing
               PROVE  Newest(a)
    BY Zenon DEF NewestKept
  <2>1. Stored(a)
    BY <1>1, Zenon DEF CacheInv, Kept
  <2> QED
    BY <2>1, NewestStored
<1> QED
  BY <1>1, CacheInvariantHolds, PTL
=============================================================================
