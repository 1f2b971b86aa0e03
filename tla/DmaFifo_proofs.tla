---------------------------- MODULE DmaFifo_proofs ----------------------------
(***************************************************************************)
(* What is proved of the FIFO between a bus and a DMA engine.              *)
(*                                                                         *)
(* FifoTypeCorrect: an event that takes the first entry of a queue finds   *)
(* one, and every counter has its range.                                   *)
(* UsageAlwaysExact: the space in use is what the entries inside take.     *)
(* AnsweredAlwaysInOrder: requests are answered in the order in which they *)
(* were made.                                                              *)
(* PortImplemented: the layers below see a DMA interface; in whatever      *)
(* order stages end, requests are answered in order, once, and after all   *)
(* of their bytes moved.                                                   *)
(***************************************************************************)
EXTENDS DmaFifo, DataLemmas

Entry == [req : Nat, offset : Nat, size : Nat \ {0}, last : BOOLEAN, id : Nat]

-----------------------------------------------------------------------------
(* The space of an entry. *)

LEMMA SizeNat ==
  ASSUME NEW size \in Nat
  PROVE  calcSize(size) \in Nat
<1>1. TransferUnit \in Nat \ {0} /\ size + TransferUnit - 1 \in Nat
  BY FifoAssumption
<1>2. (size + TransferUnit - 1) \div TransferUnit \in Nat
  BY <1>1
<1>3. ((size + TransferUnit - 1) \div TransferUnit) * TransferUnit \in Nat
  BY <1>1, <1>2
<1> QED
  BY <1>3 DEF calcSize

\* A unit takes a unit; so an entry larger than the FIFO is larger than a unit.
LEMMA UnitFits ==
  ASSUME NEW d \in Direction
  PROVE  /\ calcSize(TransferUnit) <= Capacity[d]
         /\ \A size \in Nat : ~(calcSize(size) <= Capacity[d]) => size > TransferUnit
<1>1. TransferUnit \in Nat \ {0} /\ Capacity[d] \in Nat /\ TransferUnit <= Capacity[d]
  BY FifoAssumption
<1>2. calcSize(TransferUnit) = TransferUnit
  <2> DEFINE a == TransferUnit + TransferUnit - 1
             q == a \div TransferUnit
  <2>1. a \in Nat
    BY <1>1
  <2>2. q \in Nat /\ q * TransferUnit <= a /\ a < (q + 1) * TransferUnit
    <3> HIDE DEF a
    <3> QED
      BY <1>1, <2>1
  <2> HIDE DEF q
  <2>3. q # 0
    BY <1>1, <2>2
  <2>4. ASSUME q > 1 PROVE FALSE
    <3>1. 2 * TransferUnit <= q * TransferUnit
      BY <1>1, <2>2, <2>4
    <3> QED
      BY <1>1, <2>2, <3>1
  <2>5. q = 1
    BY <2>2, <2>3, <2>4
  <2>6. calcSize(TransferUnit) = q * TransferUnit
    BY <1>1 DEF calcSize, q
  <2> QED
    BY <1>1, <2>5, <2>6
<1>3. ASSUME NEW size \in Nat, ~(calcSize(size) <= Capacity[d]) PROVE size > TransferUnit
  <2>1. size # TransferUnit
    BY <1>1, <1>2, <1>3
  <2>2. ~(size < TransferUnit)
    BY <1>1, <1>3 DEF calcSize
  <2> QED
    BY <1>1, <2>1, <2>2
<1> QED
  BY <1>1, <1>2, <1>3

\* f[n] is the space that the first n entries of the queue take.
Spaces(f, queue) ==
  f = [n \in 0 .. Len(queue) |-> IF n = 0 THEN 0 ELSE f[n - 1] + calcSize(queue[n].size)]

LEMMA SpaceInSteps ==
  ASSUME NEW queue \in Seq(Entry)
  PROVE  \E f \in [0 .. Len(queue) -> Nat] :
           /\ f[0] = 0
           /\ \A n \in 1 .. Len(queue) : f[n] = f[n - 1] + calcSize(queue[n].size)
           /\ Space(queue) = f[Len(queue)]
<1> DEFINE N == Len(queue)
           next(x, n) == x + calcSize(queue[n].size)
           step == [x \in Nat \X (1 .. N) |-> next(x[1], x[2])]
           g == CHOOSE f : Spaces(f, queue)
<1>1. N \in Nat
  BY LenProperties
<1>2. ASSUME NEW x \in Nat, NEW n \in 1 .. N PROVE next(x, n) \in Nat
  <2>1. queue[n] \in Entry
    BY ElementOfSeq
  <2>2. calcSize(queue[n].size) \in Nat
    BY <2>1, SizeNat DEF Entry
  <2> QED
    BY <2>2
<1>3. step \in [Nat \X (1 .. N) -> Nat]
  <2> HIDE DEF next
  <2> QED
    BY <1>2
<1>4. \A x \in Nat, n \in 1 .. N : step[<<x, n>>] = next(x, n)
  <2> HIDE DEF next
  <2> QED
    BY <1>2
<1> HIDE DEF step
<1>5. PICK f : /\ f \in [0 .. N -> Nat] /\ f[0] = 0
               /\ \A n \in 1 .. N : f[n] = step[<<f[n - 1], n>>]
  <2>1. \E f : Iterated(f, Nat, N, step, 0)
    BY <1>1, <1>3, Iterates
  <2> QED
    BY <2>1, Zenon DEF Iterated
<1>6. ASSUME NEW n \in 0 .. N
      PROVE  f[n] = IF n = 0 THEN 0 ELSE next(f[n - 1], n)
  <2>1. CASE n = 0
    BY <1>5, <2>1, Zenon
  <2>2. CASE n # 0
    <3>1. n \in 1 .. N /\ n - 1 \in 0 .. N
      BY <2>2
    <3>2. f[n - 1] \in Nat
      BY <1>5, <3>1
    <3>3. f[n] = next(f[n - 1], n)
      BY <1>4, <1>5, <3>1, <3>2, Zenon
    <3> QED
      BY <2>2, <3>3, Zenon
  <2> QED
    BY <2>1, <2>2
<1>7. f = [n \in 0 .. N |-> f[n]]
  BY <1>5, Zenon
<1>8. f = [n \in 0 .. N |-> IF n = 0 THEN 0 ELSE next(f[n - 1], n)]
  BY <1>6, <1>7, Zenon
<1>9. Spaces(f, queue)
  BY <1>8, Zenon DEF Spaces
<1>10. Spaces(g, queue)
  BY <1>9, Zenon
<1>11. Space(queue) = g[N]
  BY Zenon DEF Space, Spaces
<1> HIDE DEF g
<1>12. /\ g = [n \in 0 .. N |-> g[n]]
       /\ \A n \in 0 .. N : g[n] = IF n = 0 THEN 0 ELSE next(g[n - 1], n)
  BY <1>10, Zenon DEF Spaces
<1> HIDE DEF next
<1>13. 0 \in 0 .. N /\ g[0] = 0 /\ f[0] = g[0]
  <2>1. 0 \in 0 .. N
    BY <1>1
  <2> QED
    BY <1>5, <1>12, <2>1, Zenon
<1>14. \A n \in 1 .. N : g[n] = next(g[n - 1], n) /\ f[n] = next(f[n - 1], n)
  <2>1. \A n \in 1 .. N : n \in 0 .. N /\ n # 0
    OBVIOUS
  <2> QED
    BY <1>6, <1>12, <2>1, Zenon
<1>15. \A n \in 0 .. N : f[n] = g[n]
  <2>1. \A n \in 1 .. N : f[n - 1] = g[n - 1] => f[n] = g[n]
    BY <1>14, Zenon
  <2> HIDE DEF N
  <2> QED
    BY <1>1, <1>13, <2>1, SameFromStart
<1>16. N \in 0 .. N
  BY <1>1
<1>17. g[N] = f[N]
  BY <1>15, <1>16, Zenon
<1>18. \A n \in 1 .. N : f[n] = f[n - 1] + calcSize(queue[n].size)
  BY <1>14, Zenon DEF next
<1> QED
  BY <1>5, <1>11, <1>17, <1>18, Zenon

LEMMA EmptySpace == Space(<<>>) = 0
<1>1. PICK f \in [0 .. Len(<<>>) -> Nat] : f[0] = 0 /\ Space(<<>>) = f[Len(<<>>)]
  BY SpaceInSteps, EmptySeq
<1> QED
  BY <1>1, EmptySeq

LEMMA AppendSpace ==
  ASSUME NEW queue \in Seq(Entry), NEW entry \in Entry
  PROVE  /\ Space(queue) \in Nat
         /\ Space(Append(queue, entry)) = Space(queue) + calcSize(entry.size)
<1> DEFINE N == Len(queue)
           longer == Append(queue, entry)
<1>1. /\ N \in Nat /\ longer \in Seq(Entry) /\ Len(longer) = N + 1 /\ longer[N + 1] = entry
      /\ \A n \in 1 .. N : longer[n] = queue[n]
  BY LenProperties, AppendProperties
<1>2. PICK f :
        /\ f \in [0 .. N -> Nat]
        /\ f[0] = 0
        /\ \A n \in 1 .. N : f[n] = f[n - 1] + calcSize(queue[n].size)
        /\ Space(queue) = f[N]
  BY SpaceInSteps
<1> HIDE DEF longer
<1>3. PICK g :
        /\ g \in [0 .. N + 1 -> Nat]
        /\ g[0] = 0
        /\ \A n \in 1 .. N + 1 : g[n] = g[n - 1] + calcSize(longer[n].size)
        /\ Space(longer) = g[N + 1]
  BY <1>1, SpaceInSteps
<1> HIDE DEF N
<1>4. \A n \in 0 .. N : f[n] = g[n]
  <2>1. ASSUME NEW n \in 1 .. N, f[n - 1] = g[n - 1] PROVE f[n] = g[n]
    <3>1. n \in 1 .. N + 1
      BY <1>1
    <3> QED
      BY <1>1, <1>2, <1>3, <2>1, <3>1, Zenon
  <2>2. \A n \in 1 .. N : f[n - 1] = g[n - 1] => f[n] = g[n]
    BY <2>1
  <2>3. f[0] = g[0] /\ N \in Nat
    BY <1>1, <1>2, <1>3
  <2> QED
    BY <2>2, <2>3, SameFromStart, ZenonT(30)
<1>5. N + 1 \in 1 .. N + 1 /\ (N + 1) - 1 = N /\ N \in 0 .. N
  BY <1>1
<1>6. g[N + 1] = f[N] + calcSize(entry.size)
  BY <1>1, <1>3, <1>4, <1>5, Zenon
<1>7. f[N] \in Nat
  BY <1>2, <1>5
<1> QED
  BY <1>2, <1>3, <1>6, <1>7 DEF longer

LEMMA TailSpace ==
  ASSUME NEW queue \in Seq(Entry), queue # <<>>
  PROVE  Space(Tail(queue)) = Space(queue) - calcSize(Head(queue).size)
<1> DEFINE N == Len(queue)
           rest == Tail(queue)
           c == calcSize(queue[1].size)
<1>1. /\ N \in Nat \ {0} /\ rest \in Seq(Entry) /\ Len(rest) = N - 1
      /\ \A n \in 1 .. N - 1 : rest[n] = queue[n + 1]
      /\ Head(queue) = queue[1] /\ queue[1] \in Entry
  BY EmptySeq, LenProperties, HeadTailProperties
<1>2. PICK f :
        /\ f \in [0 .. N -> Nat]
        /\ f[0] = 0
        /\ \A n \in 1 .. N : f[n] = f[n - 1] + calcSize(queue[n].size)
        /\ Space(queue) = f[N]
  BY SpaceInSteps
<1> HIDE DEF rest
<1>3. PICK g :
        /\ g \in [0 .. N - 1 -> Nat]
        /\ g[0] = 0
        /\ \A n \in 1 .. N - 1 : g[n] = g[n - 1] + calcSize(rest[n].size)
        /\ Space(rest) = g[N - 1]
  BY <1>1, SpaceInSteps
<1> HIDE DEF N
<1>4. c \in Nat
  BY <1>1, SizeNat DEF Entry
<1>5. f[1] = c
  <2>1. 1 \in 1 .. N /\ 1 - 1 = 0
    BY <1>1
  <2>2. f[1] = f[0] + c
    BY <1>2, <2>1
  <2> HIDE DEF c
  <2> QED
    BY <1>2, <1>4, <2>2
<1> HIDE DEF c
<1>6. \A n \in 0 .. N - 1 : f[n + 1] - c = g[n]
  <2> DEFINE h == [n \in 0 .. N - 1 |-> f[n + 1] - c]
  <2>1. h[0] = 0
    BY <1>1, <1>4, <1>5
  <2>2. ASSUME NEW n \in 1 .. N - 1, h[n - 1] = g[n - 1] PROVE h[n] = g[n]
    <3>1. /\ n + 1 \in 1 .. N /\ (n + 1) - 1 = n /\ (n - 1) + 1 = n
          /\ n - 1 \in 0 .. N - 1 /\ n \in 0 .. N - 1 /\ n \in 0 .. N
      BY <1>1
    <3>2. f[n + 1] = f[n] + calcSize(rest[n].size)
      BY <1>1, <1>2, <3>1
    <3>3. g[n] = (f[n] - c) + calcSize(rest[n].size)
      BY <1>3, <2>2, <3>1
    <3>4. rest[n] \in Entry
      BY <1>1, ElementOfSeq
    <3>5. calcSize(rest[n].size) \in Nat
      BY <3>4, SizeNat DEF Entry
    <3>6. f[n] \in Nat
      BY <1>2, <3>1
    <3>7. h[n] = f[n + 1] - c
      BY <3>1
    <3> HIDE DEF h
    <3> QED
      BY <1>4, <3>2, <3>3, <3>5, <3>6, <3>7
  <2>3. \A n \in 0 .. N - 1 : h[n] = f[n + 1] - c
    OBVIOUS
  <2>4. N - 1 \in Nat
    BY <1>1
  <2> HIDE DEF h
  <2>5. h[0] = g[0]
    BY <1>3, <2>1
  <2>6. \A n \in 1 .. N - 1 : h[n - 1] = g[n - 1] => h[n] = g[n]
    BY <2>2
  <2>7. \A n \in 0 .. N - 1 : h[n] = g[n]
    BY <2>4, <2>5, <2>6, SameFromStart, ZenonT(30)
  <2> QED
    BY <2>3, <2>7
<1>7. N - 1 \in 0 .. N - 1 /\ (N - 1) + 1 = N
  BY <1>1
<1>8. f[N] - c = g[N - 1]
  BY <1>6, <1>7
<1> QED
  BY <1>1, <1>2, <1>3, <1>8 DEF c, rest

-----------------------------------------------------------------------------
(* The requests of some size. *)

\* f[n] are those of the first n requests.
Reals(f, sizes) ==
  f = [n \in 0 .. Len(sizes) |->
         IF n = 0 THEN <<>>
         ELSE IF sizes[n] > 0 THEN Append(f[n - 1], n)
         ELSE f[n - 1]]

LEMMA RealInSteps ==
  ASSUME NEW sizes \in Seq(Nat)
  PROVE  \E f \in [0 .. Len(sizes) -> Seq(Nat)] :
           /\ f[0] = <<>>
           /\ \A n \in 1 .. Len(sizes) :
                f[n] = IF sizes[n] > 0 THEN Append(f[n - 1], n) ELSE f[n - 1]
           /\ Real(sizes) = f[Len(sizes)]
<1> DEFINE N == Len(sizes)
           S == Seq(Nat)
           next(x, n) == IF sizes[n] > 0 THEN Append(x, n) ELSE x
           step == [x \in S \X (1 .. N) |-> next(x[1], x[2])]
           g == CHOOSE f : Reals(f, sizes)
<1>1. N \in Nat
  BY LenProperties
<1>2. ASSUME NEW x \in S, NEW n \in 1 .. N PROVE next(x, n) \in S
  <2>1. n \in Nat
    OBVIOUS
  <2>2. Append(x, n) \in S
    BY <2>1, AppendProperties
  <2> QED
    BY <2>2, Zenon
<1>3. step \in [S \X (1 .. N) -> S]
  <2> HIDE DEF next, S
  <2> QED
    BY <1>2
<1>4. \A x \in S, n \in 1 .. N : step[<<x, n>>] = next(x, n)
  <2> HIDE DEF next, S
  <2> QED
    BY <1>2
<1> HIDE DEF step
<1>5. <<>> \in S
  OBVIOUS
<1>6. PICK f : /\ f \in [0 .. N -> S] /\ f[0] = <<>>
               /\ \A n \in 1 .. N : f[n] = step[<<f[n - 1], n>>]
  <2> HIDE DEF S
  <2>1. \E f : Iterated(f, S, N, step, <<>>)
    BY <1>1, <1>3, <1>5, Iterates, Zenon
  <2> QED
    BY <2>1, Zenon DEF Iterated
<1>7. ASSUME NEW n \in 0 .. N
      PROVE  f[n] = IF n = 0 THEN <<>> ELSE next(f[n - 1], n)
  <2>1. CASE n = 0
    BY <1>6, <2>1, Zenon
  <2>2. CASE n # 0
    <3>1. n \in 1 .. N /\ n - 1 \in 0 .. N
      BY <2>2
    <3>2. f[n - 1] \in S
      BY <1>6, <3>1
    <3>3. f[n] = next(f[n - 1], n)
      BY <1>4, <1>6, <3>1, <3>2, Zenon
    <3> QED
      BY <2>2, <3>3, Zenon
  <2> QED
    BY <2>1, <2>2
<1>8. f = [n \in 0 .. N |-> f[n]]
  BY <1>6, Zenon
<1>9. f = [n \in 0 .. N |-> IF n = 0 THEN <<>> ELSE next(f[n - 1], n)]
  BY <1>7, <1>8, Zenon
<1>10. Reals(f, sizes)
  BY <1>9, Zenon DEF Reals
<1>11. Reals(g, sizes)
  BY <1>10, Zenon
<1>12. Real(sizes) = g[N]
  BY Zenon DEF Real, Reals
<1> HIDE DEF g
<1>13. \A n \in 0 .. N : g[n] = IF n = 0 THEN <<>> ELSE next(g[n - 1], n)
  BY <1>11, Zenon DEF Reals
<1> HIDE DEF next
<1>14. \A n \in 1 .. N : g[n] = next(g[n - 1], n) /\ f[n] = next(f[n - 1], n)
  <2>1. \A n \in 1 .. N : n \in 0 .. N /\ n # 0
    OBVIOUS
  <2> QED
    BY <1>7, <1>13, <2>1, Zenon
<1>15. 0 \in 0 .. N /\ N \in 0 .. N
  BY <1>1
<1>16. f[0] = g[0]
  BY <1>6, <1>13, <1>15, Zenon
<1>17. \A n \in 0 .. N : f[n] = g[n]
  <2>1. \A n \in 1 .. N : f[n - 1] = g[n - 1] => f[n] = g[n]
    BY <1>14, Zenon
  <2> HIDE DEF N
  <2> QED
    BY <1>1, <1>16, <2>1, SameFromStart, ZenonT(30)
<1>18. g[N] = f[N]
  BY <1>15, <1>17, Zenon
<1>19. \A n \in 1 .. N : f[n] = IF sizes[n] > 0 THEN Append(f[n - 1], n) ELSE f[n - 1]
  BY <1>14, Zenon DEF next
<1> QED
  BY <1>6, <1>12, <1>18, <1>19, Zenon DEF S

\* They are requests, in their order, and each has some size.
OfSomeSize(real, sizes) ==
  /\ real \in Seq(Nat)
  /\ \A k \in 1 .. Len(real) : real[k] \in 1 .. Len(sizes) /\ sizes[real[k]] > 0
  /\ \A j, k \in 1 .. Len(real) : j < k => real[j] < real[k]

LEMMA RealOfSomeSize ==
  ASSUME NEW sizes \in Seq(Nat)
  PROVE  OfSomeSize(Real(sizes), sizes)
<1> DEFINE N == Len(sizes)
           Fine(real, m) ==
             /\ real \in Seq(Nat)
             /\ \A k \in 1 .. Len(real) : real[k] \in 1 .. m /\ sizes[real[k]] > 0
             /\ \A j, k \in 1 .. Len(real) : j < k => real[j] < real[k]
<1>1. PICK f :
        /\ f \in [0 .. N -> Seq(Nat)]
        /\ f[0] = <<>>
        /\ \A n \in 1 .. N : f[n] = IF sizes[n] > 0 THEN Append(f[n - 1], n) ELSE f[n - 1]
        /\ Real(sizes) = f[N]
  BY RealInSteps
<1>2. N \in Nat
  BY LenProperties
<1> DEFINE M == {m \in Nat : m <= N => Fine(f[m], m)}
<1>3. 0 \in M
  BY <1>1, EmptySeq
<1>4. ASSUME NEW m \in Nat, m \in M PROVE m + 1 \in M
  <2> SUFFICES ASSUME m + 1 <= N PROVE Fine(f[m + 1], m + 1)
    OBVIOUS
  <2>1. m + 1 \in 1 .. N /\ (m + 1) - 1 = m /\ m <= N
    BY <1>2
  <2>2. Fine(f[m], m)
    BY <1>4, <2>1
  <2>3. f[m + 1] = IF sizes[m + 1] > 0 THEN Append(f[m], m + 1) ELSE f[m]
    BY <1>1, <2>1
  <2>4. CASE ~(sizes[m + 1] > 0)
    <3>1. f[m + 1] = f[m]
      BY <2>3, <2>4, Zenon
    <3> QED
      BY <2>2, <3>1
  <2>5. CASE sizes[m + 1] > 0
    <3> DEFINE a == f[m]
               b == Append(a, m + 1)
    <3>1. /\ b \in Seq(Nat) /\ Len(b) = Len(a) + 1 /\ b[Len(a) + 1] = m + 1 /\ Len(a) \in Nat
          /\ \A i \in 1 .. Len(a) : b[i] = a[i]
      BY <2>2, AppendProperties, LenProperties
    <3>2. f[m + 1] = b
      BY <2>3, <2>5
    <3> HIDE DEF b
    <3>3. \A k \in 1 .. Len(b) : k \in 1 .. Len(a) \/ k = Len(a) + 1
      BY <3>1
    <3>4. ASSUME NEW k \in 1 .. Len(b) PROVE b[k] \in 1 .. m + 1 /\ sizes[b[k]] > 0
      <4>1. CASE k \in 1 .. Len(a)
        <5>1. b[k] = a[k] /\ a[k] \in 1 .. m /\ sizes[a[k]] > 0
          BY <2>2, <3>1, <4>1
        <5> QED
          BY <5>1
      <4>2. CASE k = Len(a) + 1
        BY <2>5, <3>1, <4>2, SMTT(20)
      <4> QED
        BY <3>3, <4>1, <4>2
    <3>5. ASSUME NEW j \in 1 .. Len(b), NEW k \in 1 .. Len(b), j < k PROVE b[j] < b[k]
      <4>1. j \in 1 .. Len(a)
        BY <3>1, <3>5
      <4>2. CASE k \in 1 .. Len(a)
        BY <2>2, <3>1, <3>5, <4>1, <4>2
      <4>3. CASE k = Len(a) + 1
        <5>1. b[k] = m + 1 /\ b[j] = a[j] /\ a[j] \in 1 .. m
          BY <2>2, <3>1, <4>1, <4>3
        <5> QED
          BY <5>1
      <4> QED
        BY <3>3, <4>2, <4>3
    <3> QED
      BY <3>1, <3>2, <3>4, <3>5
  <2> QED
    BY <2>4, <2>5
<1>5. Fine(f[N], N)
  <2>1. N \in M
    <3> HIDE DEF M
    <3> QED
      BY <1>2, <1>3, <1>4, NatInductionSet
  <2> QED
    BY <1>2, <2>1
<1> QED
  BY <1>1, <1>5 DEF OfSomeSize

LEMMA AppendReal ==
  ASSUME NEW sizes \in Seq(Nat), NEW size \in Nat
  PROVE  Real(Append(sizes, size)) =
           IF size > 0 THEN Append(Real(sizes), Len(sizes) + 1) ELSE Real(sizes)
<1> DEFINE N == Len(sizes)
           longer == Append(sizes, size)
<1>1. /\ N \in Nat /\ longer \in Seq(Nat) /\ Len(longer) = N + 1 /\ longer[N + 1] = size
      /\ \A n \in 1 .. N : longer[n] = sizes[n]
  BY LenProperties, AppendProperties
<1>2. PICK f :
        /\ f \in [0 .. N -> Seq(Nat)]
        /\ f[0] = <<>>
        /\ \A n \in 1 .. N : f[n] = IF sizes[n] > 0 THEN Append(f[n - 1], n) ELSE f[n - 1]
        /\ Real(sizes) = f[N]
  BY RealInSteps
<1> HIDE DEF longer
<1>3. PICK g :
        /\ g \in [0 .. N + 1 -> Seq(Nat)]
        /\ g[0] = <<>>
        /\ \A n \in 1 .. N + 1 :
             g[n] = IF longer[n] > 0 THEN Append(g[n - 1], n) ELSE g[n - 1]
        /\ Real(longer) = g[N + 1]
  BY <1>1, RealInSteps
<1> HIDE DEF N
<1>4. \A n \in 0 .. N : f[n] = g[n]
  <2>1. ASSUME NEW n \in 1 .. N, f[n - 1] = g[n - 1] PROVE f[n] = g[n]
    <3>1. n \in 1 .. N + 1
      BY <1>1
    <3> QED
      BY <1>1, <1>2, <1>3, <2>1, <3>1, Zenon
  <2>2. \A n \in 1 .. N : f[n - 1] = g[n - 1] => f[n] = g[n]
    BY <2>1
  <2>3. f[0] = g[0] /\ N \in Nat
    BY <1>1, <1>2, <1>3
  <2>4. N \in Nat /\ \A n \in 1 .. N : f[n - 1] = g[n - 1] => f[n] = g[n]
    BY <2>2, <2>3
  <2> QED
    BY <2>3, <2>4, SameFromStart, ZenonT(30)
<1>5. N + 1 \in 1 .. N + 1 /\ (N + 1) - 1 = N /\ N \in 0 .. N
  BY <1>1
<1>6. g[N + 1] = IF size > 0 THEN Append(f[N], N + 1) ELSE f[N]
  BY <1>1, <1>3, <1>4, <1>5, Zenon
<1> QED
  BY <1>2, <1>3, <1>6, Zenon DEF longer, N

-----------------------------------------------------------------------------
(* The pieces of the requests that are not answered.  `real` are the requests *)
(* of some size, n of which are answered; `stream` are the pieces of the     *)
(* others, in the order in which they leave the FIFO, of which the first p   *)
(* have moved.                                                               *)

PieceOf(entry, r, sizes) ==
  /\ entry.req = r
  /\ entry.offset + entry.size <= sizes[r]
  /\ entry.last <=> entry.offset + entry.size = sizes[r]

\* The last piece of a request comes before the first of the next, another one
\* before the piece where it ends.
Follows(entry, next, k, l) ==
  IF entry.last THEN l = k + 1 /\ next.offset = 0
  ELSE l = k /\ next.offset = entry.offset + entry.size

\* Piece i is of the request real[K[i]].
Placed(stream, K, n, real, sizes) ==
  /\ K \in [1 .. Len(stream) -> n + 1 .. Len(real)]
  /\ stream = <<>> => n = Len(real)
  /\ stream # <<>> =>
       K[1] = n + 1 /\ K[Len(stream)] = Len(real) /\ stream[Len(stream)].last
  /\ \A i \in 1 .. Len(stream) : PieceOf(stream[i], real[K[i]], sizes)
  /\ \A i, j \in 1 .. Len(stream) :
       i < j => K[i] <= K[j] /\ (stream[i].last => K[i] < K[j])
  /\ \A i, j \in 1 .. Len(stream) : j = i + 1 => Follows(stream[i], stream[j], K[i], K[j])

\* Of the requests before real[c] all bytes have moved, of this one the first o.
MovedTo(c, o, n, real, sizes, mv) ==
  \A k \in n + 1 .. Len(real) :
    mv[real[k]] = IF k < c THEN sizes[real[k]] ELSE IF k = c THEN o ELSE 0

InPieces(stream, K, p, n, real, sizes, mv) ==
  /\ stream \in Seq(Entry) /\ p \in 0 .. Len(stream)
  /\ sizes \in Seq(Nat) /\ OfSomeSize(real, sizes) /\ n \in 0 .. Len(real)
  /\ mv \in Seq(Nat) /\ Len(mv) = Len(sizes)
  /\ Placed(stream, K, n, real, sizes)
  /\ p < Len(stream) => MovedTo(K[p + 1], stream[p + 1].offset, n, real, sizes, mv)
  /\ p = Len(stream) => MovedTo(Len(real) + 1, 0, n, real, sizes, mv)

Pieces(stream, p, n, real, sizes, mv) ==
  \E K : InPieces(stream, K, p, n, real, sizes, mv)

\* A request more changes nothing for the others.
LEMMA PiecesStay ==
  ASSUME NEW stream, NEW p, NEW n, NEW real, NEW sizes, NEW mv,
         Pieces(stream, p, n, real, sizes, mv), NEW size \in Nat
  PROVE  Pieces(stream, p, n, real, Append(sizes, size), Append(mv, 0))
<1>1. PICK K : InPieces(stream, K, p, n, real, sizes, mv)
  BY Zenon DEF Pieces
<1> DEFINE sizes2 == Append(sizes, size)
           mv2 == Append(mv, 0)
           L == Len(stream)
<1>2. sizes \in Seq(Nat) /\ mv \in Seq(Nat) /\ Len(mv) = Len(sizes) /\ OfSomeSize(real, sizes)
  BY <1>1 DEF InPieces
<1>3. /\ sizes2 \in Seq(Nat) /\ mv2 \in Seq(Nat) /\ Len(mv2) = Len(sizes2)
      /\ Len(sizes) \in Nat /\ Len(sizes2) = Len(sizes) + 1
      /\ \A r \in 1 .. Len(sizes) : sizes2[r] = sizes[r] /\ mv2[r] = mv[r]
  BY <1>2, LenProperties, AppendProperties
<1> HIDE DEF sizes2, mv2
<1>4. \A k \in 1 .. Len(real) :
        /\ real[k] \in 1 .. Len(sizes) /\ real[k] \in 1 .. Len(sizes2)
        /\ sizes2[real[k]] = sizes[real[k]] /\ mv2[real[k]] = mv[real[k]]
  <2>1. \A r \in 1 .. Len(sizes) : r \in 1 .. Len(sizes2)
    BY <1>3
  <2>2. \A k \in 1 .. Len(real) : real[k] \in 1 .. Len(sizes)
    BY <1>2 DEF OfSomeSize
  <2> QED
    BY <1>3, <2>1, <2>2, Zenon
<1>5. OfSomeSize(real, sizes2)
  BY <1>2, <1>4 DEF OfSomeSize
<1>6. n \in Nat /\ Len(real) \in Nat /\ \A k \in n + 1 .. Len(real) : k \in 1 .. Len(real)
  BY <1>1, <1>2, LenProperties DEF InPieces, OfSomeSize
<1>7. Placed(stream, K, n, real, sizes2)
  <2>1. Placed(stream, K, n, real, sizes)
    BY <1>1 DEF InPieces
  <2>2. \A i \in 1 .. L : K[i] \in 1 .. Len(real)
    BY <1>6, <2>1 DEF Placed
  <2>3. \A i \in 1 .. L : PieceOf(stream[i], real[K[i]], sizes2)
    BY <1>4, <2>1, <2>2 DEF Placed, PieceOf
  <2> QED
    BY <2>1, <2>3 DEF Placed
<1>8. ASSUME NEW c, NEW o, MovedTo(c, o, n, real, sizes, mv)
      PROVE  MovedTo(c, o, n, real, sizes2, mv2)
  BY <1>4, <1>6, <1>8 DEF MovedTo
<1>9. InPieces(stream, K, p, n, real, sizes2, mv2)
  BY <1>1, <1>3, <1>5, <1>7, <1>8 DEF InPieces
<1> QED
  BY <1>9, Zenon DEF Pieces, sizes2, mv2

\* A request of some size joins the stream in one piece.
LEMMA PiecesJoin ==
  ASSUME NEW stream, NEW p, NEW n, NEW real, NEW sizes, NEW mv,
         Pieces(stream, p, n, real, sizes, mv),
         NEW r \in 1 .. Len(sizes), sizes[r] > 0, mv[r] = 0,
         \A k \in 1 .. Len(real) : real[k] < r
  PROVE  Pieces(Append(stream, FIFOEntry(r, 0, sizes[r])), p, n, Append(real, r), sizes, mv)
<1>1. PICK K : InPieces(stream, K, p, n, real, sizes, mv)
  BY Zenon DEF Pieces
<1> DEFINE e == FIFOEntry(r, 0, sizes[r])
           S == Append(stream, e)
           R == Append(real, r)
           L == Len(stream)
           m == Len(real)
           K2 == [i \in 1 .. L + 1 |-> IF i = L + 1 THEN m + 1 ELSE K[i]]
<1>2. /\ stream \in Seq(Entry) /\ real \in Seq(Nat) /\ sizes \in Seq(Nat) /\ mv \in Seq(Nat)
      /\ L \in Nat /\ m \in Nat /\ n \in 0 .. m /\ p \in 0 .. L /\ Len(sizes) \in Nat
      /\ OfSomeSize(real, sizes) /\ Placed(stream, K, n, real, sizes)
  BY <1>1, LenProperties DEF InPieces, OfSomeSize
<1>3. e \in Entry /\ sizes[r] \in Nat /\ r \in Nat
  <2>1. sizes[r] \in Nat
    BY <1>2, ElementOfSeq
  <2> QED
    BY <1>2, <2>1 DEF FIFOEntry, Entry
<1>4. /\ e.req = r /\ e.offset = 0 /\ e.size = sizes[r] /\ e.last = TRUE
  BY DEF FIFOEntry
<1> HIDE DEF e
<1>5. /\ S \in Seq(Entry) /\ S # <<>> /\ Len(S) = L + 1 /\ S[L + 1] = e
      /\ \A i \in 1 .. L : S[i] = stream[i]
      /\ R \in Seq(Nat) /\ Len(R) = m + 1 /\ R[m + 1] = r
      /\ \A k \in 1 .. m : R[k] = real[k]
  <2>1. stream \in Seq(Entry) /\ e \in Entry /\ real \in Seq(Nat) /\ r \in Nat
    BY <1>2, <1>3
  <2>2. /\ S \in Seq(Entry) /\ S # <<>> /\ Len(S) = L + 1 /\ S[L + 1] = e
        /\ \A i \in 1 .. L : S[i] = stream[i]
    BY <2>1, AppendProperties
  <2>3. /\ R \in Seq(Nat) /\ Len(R) = m + 1 /\ R[m + 1] = r
        /\ \A k \in 1 .. m : R[k] = real[k]
    BY <2>1, AppendProperties
  <2> QED
    BY <2>2, <2>3
<1> HIDE DEF S, R
<1>6. OfSomeSize(R, sizes)
  <2>1. \A k \in 1 .. m + 1 : k \in 1 .. m \/ k = m + 1
    BY <1>2
  <2>2. \A k \in 1 .. m + 1 : R[k] \in 1 .. Len(sizes) /\ sizes[R[k]] > 0
    BY <1>2, <1>5, <2>1 DEF OfSomeSize
  <2>3. ASSUME NEW j \in 1 .. m + 1, NEW k \in 1 .. m + 1, j < k PROVE R[j] < R[k]
    <3>1. j \in 1 .. m
      BY <1>2, <2>3
    <3> QED
      BY <1>2, <1>5, <2>1, <2>3, <3>1 DEF OfSomeSize
  <2> QED
    BY <1>5, <2>2, <2>3 DEF OfSomeSize
<1>7. \A i \in 1 .. L : K[i] \in n + 1 .. m /\ K2[i] = K[i] /\ i \in 1 .. L + 1
  <2>1. \A i \in 1 .. L : i # L + 1 /\ i \in 1 .. L + 1
    BY <1>2
  <2>2. \A i \in 1 .. L : K[i] \in n + 1 .. m
    BY <1>2 DEF Placed
  <2>3. \A i \in 1 .. L + 1 : i # L + 1 => K2[i] = K[i]
    OBVIOUS
  <2> HIDE DEF K2
  <2> QED
    BY <2>1, <2>2, <2>3, Zenon
<1>8. K2 \in [1 .. L + 1 -> n + 1 .. m + 1] /\ K2[L + 1] = m + 1
  <2>1. K2[L + 1] = m + 1
    BY <1>2
  <2>2. K2 = [i \in 1 .. L + 1 |-> K2[i]]
    OBVIOUS
  <2> HIDE DEF K2
  <2>3. \A i \in 1 .. L + 1 : i \in 1 .. L \/ i = L + 1
    BY <1>2
  <2>4. \A k \in n + 1 .. m : k \in n + 1 .. m + 1
    BY <1>2
  <2>5. m + 1 \in n + 1 .. m + 1
    BY <1>2
  <2>6. \A i \in 1 .. L + 1 : K2[i] \in n + 1 .. m + 1
    BY <1>7, <2>1, <2>3, <2>4, <2>5, Zenon
  <2> QED
    BY <2>1, <2>2, <2>6
<1> HIDE DEF K2
<1>9. \A i \in 1 .. L + 1 : i \in 1 .. L \/ i = L + 1
  BY <1>2
<1>10. Placed(S, K2, n, R, sizes)
  <2>1. K2[1] = n + 1
    <3>1. CASE L = 0
      <4>1. stream = <<>>
        BY <1>2, <3>1, EmptySeq
      <4>2. n = m
        BY <1>2, <4>1 DEF Placed
      <4> QED
        BY <1>8, <3>1, <4>2
    <3>2. CASE L # 0
      <4>1. stream # <<>> /\ 1 \in 1 .. L
        BY <1>2, <3>2, EmptySeq
      <4> QED
        BY <1>2, <1>7, <4>1 DEF Placed
    <3> QED
      BY <3>1, <3>2
  <2>2. ASSUME NEW i \in 1 .. L + 1 PROVE PieceOf(S[i], R[K2[i]], sizes)
    <3>1. CASE i = L + 1
      BY <1>3, <1>4, <1>5, <1>8, <3>1 DEF PieceOf
    <3>2. CASE i \in 1 .. L
      <4>1. K2[i] = K[i] /\ K[i] \in 1 .. m /\ S[i] = stream[i]
        <5>1. K2[i] = K[i] /\ K[i] \in n + 1 .. m /\ S[i] = stream[i]
          BY <1>5, <1>7, <3>2
        <5>2. n \in Nat /\ m \in Nat
          BY <1>2
        <5> QED
          BY <5>1, <5>2
      <4>2. R[K2[i]] = real[K[i]]
        BY <1>5, <4>1
      <4> QED
        BY <1>2, <3>2, <4>1, <4>2 DEF Placed
    <3> QED
      BY <1>9, <3>1, <3>2
  <2>3. ASSUME NEW i \in 1 .. L + 1, NEW j \in 1 .. L + 1, i < j
        PROVE  K2[i] <= K2[j] /\ (S[i].last => K2[i] < K2[j])
    <3>1. i \in 1 .. L
      BY <1>2, <2>3
    <3>2. CASE j = L + 1
      <4>1. K2[j] = m + 1 /\ K2[i] \in n + 1 .. m
        BY <1>7, <1>8, <3>1, <3>2
      <4>2. n \in Nat /\ m \in Nat
        BY <1>2
      <4> QED
        BY <4>1, <4>2
    <3>3. CASE j \in 1 .. L
      <4>1. K2[i] = K[i] /\ K2[j] = K[j] /\ S[i] = stream[i]
        BY <1>5, <1>7, <3>1, <3>3
      <4> QED
        BY <1>2, <2>3, <3>1, <3>3, <4>1 DEF Placed
    <3> QED
      BY <1>9, <3>2, <3>3
  <2>4. ASSUME NEW i \in 1 .. L + 1, NEW j \in 1 .. L + 1, j = i + 1
        PROVE  Follows(S[i], S[j], K2[i], K2[j])
    <3>1. i \in 1 .. L
      BY <1>2, <2>4
    <3>2. CASE j = L + 1
      <4>1. i = L /\ stream # <<>>
        BY <1>2, <2>4, <3>1, <3>2, EmptySeq
      <4>2. K[i] = m /\ stream[i].last
        BY <1>2, <4>1 DEF Placed
      <4>3. /\ S[i].last /\ S[j].offset = 0 /\ K2[i] = m /\ K2[j] = m + 1
        BY <1>4, <1>5, <1>7, <1>8, <3>1, <3>2, <4>2
      <4> QED
        BY <4>3 DEF Follows
    <3>3. CASE j \in 1 .. L
      <4>1. K2[i] = K[i] /\ K2[j] = K[j] /\ S[i] = stream[i] /\ S[j] = stream[j]
        BY <1>5, <1>7, <3>1, <3>3
      <4>2. Follows(stream[i], stream[j], K[i], K[j])
        BY <1>2, <2>4, <3>1, <3>3 DEF Placed
      <4> QED
        BY <4>1, <4>2
    <3> QED
      BY <1>9, <3>2, <3>3
  <2> QED
    BY <1>4, <1>5, <1>8, <2>1, <2>2, <2>3, <2>4 DEF Placed
<1>11. \A k \in n + 1 .. m + 1 : (k \in n + 1 .. m /\ R[k] = real[k]) \/ (k = m + 1 /\ R[k] = r)
  <2>1. n \in Nat /\ m \in Nat
    BY <1>2
  <2>2. \A k \in n + 1 .. m + 1 : k \in n + 1 .. m \/ k = m + 1
    BY <2>1
  <2>3. \A k \in n + 1 .. m : k \in 1 .. m
    BY <2>1
  <2> QED
    BY <1>5, <2>2, <2>3
<1>12. CASE p < L
  <2>1. MovedTo(K[p + 1], stream[p + 1].offset, n, real, sizes, mv) /\ p + 1 \in 1 .. L
    BY <1>1, <1>2, <1>12 DEF InPieces
  <2>2. K[p + 1] <= m /\ K[p + 1] \in Nat
    BY <1>2, <1>7, <2>1
  <2>3. MovedTo(K[p + 1], stream[p + 1].offset, n, R, sizes, mv)
    <3> SUFFICES ASSUME NEW k \in n + 1 .. m + 1
                 PROVE  mv[R[k]] = IF k < K[p + 1] THEN sizes[R[k]]
                                   ELSE IF k = K[p + 1] THEN stream[p + 1].offset ELSE 0
      BY <1>5 DEF MovedTo
    <3>1. CASE k \in n + 1 .. m /\ R[k] = real[k]
      BY <2>1, <3>1 DEF MovedTo
    <3>2. CASE k = m + 1 /\ R[k] = r
      BY <1>2, <2>2, <3>2, SMTT(20)
    <3> QED
      BY <1>11, <3>1, <3>2
  <2>4. K2[p + 1] = K[p + 1] /\ S[p + 1] = stream[p + 1] /\ p \in 0 .. L + 1 /\ p < L + 1
    <3>1. L \in Nat /\ p \in Nat
      BY <1>2
    <3> QED
      BY <1>5, <1>7, <1>12, <2>1, <3>1
  <2>5. InPieces(S, K2, p, n, R, sizes, mv)
    BY <1>1, <1>2, <1>5, <1>6, <1>10, <2>3, <2>4, SMTT(20) DEF InPieces
  <2> QED
    BY <2>5, Zenon DEF Pieces, S, R, e
<1>13. CASE p = L
  <2>1. MovedTo(m + 1, 0, n, real, sizes, mv)
    BY <1>1, <1>13 DEF InPieces
  <2>2. MovedTo(m + 1, 0, n, R, sizes, mv)
    <3> SUFFICES ASSUME NEW k \in n + 1 .. m + 1
                 PROVE  mv[R[k]] = IF k < m + 1 THEN sizes[R[k]]
                                   ELSE IF k = m + 1 THEN 0 ELSE 0
      BY <1>5 DEF MovedTo
    <3>1. CASE k \in n + 1 .. m /\ R[k] = real[k]
      BY <2>1, <3>1 DEF MovedTo
    <3>2. CASE k = m + 1 /\ R[k] = r
      BY <1>2, <3>2
    <3> QED
      BY <1>11, <3>1, <3>2
  <2>3. K2[p + 1] = m + 1 /\ S[p + 1].offset = 0 /\ p \in 0 .. L + 1 /\ p < L + 1
    BY <1>2, <1>4, <1>5, <1>8, <1>13, SMTT(20)
  <2>4. InPieces(S, K2, p, n, R, sizes, mv)
    BY <1>1, <1>2, <1>5, <1>6, <1>10, <2>2, <2>3, SMTT(20) DEF InPieces
  <2> QED
    BY <2>4, Zenon DEF Pieces, S, R, e
<1> QED
  BY <1>2, <1>12, <1>13

\* The first piece leaves; if it is the last one of its request, all bytes of the
\* request have moved, and it is the next to be answered.
LEMMA PiecesLeave ==
  ASSUME NEW stream, NEW p, NEW n, NEW real, NEW sizes, NEW mv,
         Pieces(stream, p, n, real, sizes, mv), p > 0
  PROVE  /\ stream # <<>>
         /\ Pieces(Tail(stream), p - 1, IF Head(stream).last THEN n + 1 ELSE n,
                   real, sizes, mv)
         /\ Head(stream).last =>
              /\ n < Len(real) /\ Head(stream).req = real[n + 1]
              /\ mv[real[n + 1]] = sizes[real[n + 1]]
<1>1. PICK K : InPieces(stream, K, p, n, real, sizes, mv)
  BY Zenon DEF Pieces
<1> DEFINE L == Len(stream)
           m == Len(real)
           S == Tail(stream)
           n2 == IF Head(stream).last THEN n + 1 ELSE n
           K2 == [i \in 1 .. L - 1 |-> K[i + 1]]
<1>2. /\ stream \in Seq(Entry) /\ real \in Seq(Nat) /\ sizes \in Seq(Nat) /\ mv \in Seq(Nat)
      /\ L \in Nat /\ m \in Nat /\ n \in 0 .. m /\ p \in 1 .. L
      /\ OfSomeSize(real, sizes) /\ Placed(stream, K, n, real, sizes)
  BY <1>1, LenProperties DEF InPieces, OfSomeSize
<1>3. stream # <<>> /\ L # 0
  BY <1>2, EmptySeq
<1>4. /\ S \in Seq(Entry) /\ Len(S) = L - 1 /\ Head(stream) = stream[1]
      /\ \A i \in 1 .. L - 1 : S[i] = stream[i + 1]
  BY <1>2, <1>3, HeadTailProperties
<1> HIDE DEF S
<1>5. K[1] = n + 1 /\ K[L] = m /\ stream[L].last /\ 1 \in 1 .. L
  BY <1>2, <1>3 DEF Placed
<1>6. n < m
  <2>1. K[1] \in n + 1 .. m
    BY <1>2, <1>5 DEF Placed
  <2> QED
    BY <1>2, <2>1
<1>7. n2 \in 0 .. m
  BY <1>2, <1>6
<1>8. \A i \in 1 .. L : K[i] \in n + 1 .. m
  BY <1>2 DEF Placed
<1>9. ASSUME NEW i \in 2 .. L PROVE K[i] \in n2 + 1 .. m
  <2>1. K[1] <= K[i] /\ (stream[1].last => K[1] < K[i]) /\ K[i] \in n + 1 .. m
    BY <1>2, <1>5, <1>8, <1>9 DEF Placed
  <2> QED
    BY <1>2, <1>4, <1>5, <2>1, SMTT(20)
<1>10. /\ K2 \in [1 .. L - 1 -> n2 + 1 .. m]
       /\ \A i \in 1 .. L - 1 : K2[i] = K[i + 1] /\ i + 1 \in 2 .. L /\ i + 1 \in 1 .. L
  BY <1>2, <1>9, SMTT(20)
<1> HIDE DEF K2
<1>11. CASE L = 1
  <2>1. stream[1].last /\ n + 1 = m /\ n2 = m /\ Len(S) = 0 /\ p = 1
    BY <1>2, <1>4, <1>5, <1>11
  <2>2. S = <<>>
    BY <1>4, <2>1, EmptySeq
  <2>3. Placed(S, K2, n2, real, sizes)
    BY <1>10, <1>11, <2>1, <2>2 DEF Placed
  <2>4. MovedTo(m + 1, 0, n, real, sizes, mv)
    BY <1>1, <1>11, <2>1 DEF InPieces
  <2>5. MovedTo(m + 1, 0, n2, real, sizes, mv)
    BY <1>2, <2>1 DEF MovedTo
  <2>6. InPieces(S, K2, p - 1, n2, real, sizes, mv)
    <3>1. p - 1 \in 0 .. Len(S) /\ ~(p - 1 < Len(S)) /\ p - 1 = Len(S)
      BY <2>1
    <3> HIDE DEF n2
    <3> QED
      BY <1>1, <1>2, <1>4, <1>7, <2>1, <2>3, <2>5, <3>1 DEF InPieces
  <2>7. mv[real[n + 1]] = sizes[real[n + 1]]
    BY <1>2, <2>1, <2>4 DEF MovedTo
  <2>8. stream[1].req = real[n + 1]
    BY <1>2, <1>5 DEF Placed, PieceOf
  <2> QED
    BY <1>3, <1>4, <1>6, <2>6, <2>7, <2>8, Zenon DEF Pieces, S
<1>12. CASE L # 1
  <2>1. 2 \in 1 .. L /\ 1 \in 1 .. L - 1 /\ L - 1 \in 1 .. L - 1 /\ (L - 1) + 1 = L
    <3>1. L \in Nat
      BY <1>2
    <3> HIDE DEF L
    <3> QED
      BY <1>3, <1>12, <3>1
  <2>2. Follows(stream[1], stream[2], K[1], K[2])
    BY <1>2, <1>5, <2>1 DEF Placed
  <2>3. K2[1] = n2 + 1
    BY <1>2, <1>4, <1>5, <1>10, <2>1, <2>2 DEF Follows
  <2>4. K2[L - 1] = m /\ S[L - 1].last /\ S # <<>>
    <3>1. S # <<>>
      BY <1>4, <2>1, EmptySeq
    <3> QED
      BY <1>4, <1>5, <1>10, <2>1, <3>1
  <2>5. Placed(S, K2, n2, real, sizes)
    <3>1. \A i \in 1 .. L - 1 : PieceOf(S[i], real[K2[i]], sizes)
      BY <1>2, <1>4, <1>10 DEF Placed
    <3>2. ASSUME NEW i \in 1 .. L - 1, NEW j \in 1 .. L - 1, i < j
          PROVE  K2[i] <= K2[j] /\ (S[i].last => K2[i] < K2[j])
      <4>1. i + 1 < j + 1 /\ i + 1 \in 1 .. L /\ j + 1 \in 1 .. L
        BY <1>10, <3>2
      <4>2. K[i + 1] <= K[j + 1] /\ (stream[i + 1].last => K[i + 1] < K[j + 1])
        BY <1>2, <4>1 DEF Placed
      <4> QED
        BY <1>4, <1>10, <4>2
    <3>3. ASSUME NEW i \in 1 .. L - 1, NEW j \in 1 .. L - 1, j = i + 1
          PROVE  Follows(S[i], S[j], K2[i], K2[j])
      <4>1. j + 1 = (i + 1) + 1 /\ i + 1 \in 1 .. L /\ j + 1 \in 1 .. L
        BY <1>10, <3>3
      <4>2. Follows(stream[i + 1], stream[j + 1], K[i + 1], K[j + 1])
        BY <1>2, <4>1 DEF Placed
      <4> QED
        BY <1>4, <1>10, <4>2
    <3> HIDE DEF n2
    <3> QED
      BY <1>4, <1>10, <2>3, <2>4, <3>1, <3>2, <3>3 DEF Placed
  <2>6. \A k \in n2 + 1 .. m : k \in n + 1 .. m
    BY <1>2
  <2>7. \A c, o : MovedTo(c, o, n, real, sizes, mv) => MovedTo(c, o, n2, real, sizes, mv)
    <3> HIDE DEF n2
    <3> QED
      BY <2>6 DEF MovedTo
  <2>8. /\ p - 1 \in 0 .. L - 1 /\ (p - 1) + 1 = p
        /\ p < L => p \in 1 .. L - 1
        /\ p - 1 < L - 1 <=> p < L
        /\ p - 1 = L - 1 <=> p = L
    BY <1>2
  <2>9. p < L => K2[p] = K[p + 1] /\ S[p] = stream[p + 1]
    BY <1>4, <1>10, <2>8
  <2>10. p - 1 < L - 1 => MovedTo(K2[p], S[p].offset, n2, real, sizes, mv)
    <3> HIDE DEF n2
    <3> QED
      BY <1>1, <2>7, <2>8, <2>9 DEF InPieces
  <2>11. p - 1 = L - 1 => MovedTo(m + 1, 0, n2, real, sizes, mv)
    <3> HIDE DEF n2
    <3> QED
      BY <1>1, <2>7, <2>8 DEF InPieces
  <2>12. InPieces(S, K2, p - 1, n2, real, sizes, mv)
    <3> HIDE DEF n2
    <3> QED
      BY <1>1, <1>2, <1>4, <1>7, <2>5, <2>8, <2>10, <2>11 DEF InPieces
  <2>13. ASSUME stream[1].last PROVE mv[real[n + 1]] = sizes[real[n + 1]]
    <3>1. n + 1 \in n + 1 .. m
      BY <1>2, <1>6
    <3>2. CASE p = L
      <4>1. MovedTo(m + 1, 0, n, real, sizes, mv)
        BY <1>1, <3>2 DEF InPieces
      <4> QED
        BY <1>2, <3>1, <4>1 DEF MovedTo
    <3>3. CASE p < L
      <4>1. MovedTo(K[p + 1], stream[p + 1].offset, n, real, sizes, mv) /\ p + 1 \in 1 .. L
        BY <1>1, <1>2, <3>3 DEF InPieces
      <4>2. K[1] < K[p + 1]
        BY <1>2, <1>5, <2>13, <4>1 DEF Placed
      <4>3. n + 1 < K[p + 1]
        BY <1>5, <4>2
      <4> QED
        BY <3>1, <4>1, <4>3 DEF MovedTo
    <3> QED
      BY <1>2, <3>2, <3>3
  <2>14. stream[1].req = real[n + 1]
    BY <1>2, <1>5 DEF Placed, PieceOf
  <2>15. Pieces(S, p - 1, n2, real, sizes, mv)
    BY <2>12, Zenon DEF Pieces
  <2> QED
    BY <1>3, <1>4, <1>6, <2>13, <2>14, <2>15, Zenon DEF S
<1> QED
  BY <1>11, <1>12

\* The first piece that has not moved moves.
LEMMA PiecesMove ==
  ASSUME NEW stream, NEW p, NEW n, NEW real, NEW sizes, NEW mv,
         Pieces(stream, p, n, real, sizes, mv), p < Len(stream),
         NEW entry, entry = stream[p + 1]
  PROVE  /\ entry.size \in Nat \ {0} /\ mv[entry.req] \in Nat
         /\ mv[entry.req] + entry.size <= sizes[entry.req]
         /\ \E k \in n + 1 .. Len(real) : real[k] = entry.req
         /\ Pieces(stream, p + 1, n, real, sizes, [mv EXCEPT ![entry.req] = @ + entry.size])
<1>1. PICK K : InPieces(stream, K, p, n, real, sizes, mv)
  BY Zenon DEF Pieces
<1> DEFINE L == Len(stream)
           m == Len(real)
           c == K[p + 1]
           r == entry.req
           mv2 == [mv EXCEPT ![r] = @ + entry.size]
<1>2. /\ stream \in Seq(Entry) /\ real \in Seq(Nat) /\ sizes \in Seq(Nat) /\ mv \in Seq(Nat)
      /\ L \in Nat /\ m \in Nat /\ n \in 0 .. m /\ p \in 0 .. L /\ p + 1 \in 1 .. L
      /\ Len(sizes) \in Nat /\ Len(mv) = Len(sizes)
      /\ OfSomeSize(real, sizes) /\ Placed(stream, K, n, real, sizes)
  BY <1>1, LenProperties DEF InPieces, OfSomeSize
<1>3. entry.size \in Nat \ {0} /\ entry.offset \in Nat /\ entry.last \in BOOLEAN
  <2>1. entry \in Entry
    BY <1>2, ElementOfSeq
  <2> QED
    BY <2>1 DEF Entry
<1>4. c \in n + 1 .. m /\ c \in 1 .. m /\ PieceOf(entry, real[c], sizes)
  <2>1. c \in n + 1 .. m /\ PieceOf(entry, real[c], sizes)
    BY <1>2 DEF Placed
  <2> QED
    BY <1>2, <2>1
<1>5. r = real[c] /\ r \in 1 .. Len(mv)
  BY <1>2, <1>4 DEF PieceOf, OfSomeSize
<1>6. MovedTo(c, entry.offset, n, real, sizes, mv)
  BY <1>1 DEF InPieces
<1>7. mv[r] = entry.offset
  BY <1>4, <1>5, <1>6 DEF MovedTo
<1>8. entry.offset + entry.size \in Nat
  BY <1>3
<1>9. /\ mv2 \in Seq(Nat) /\ Len(mv2) = Len(mv) /\ mv2[r] = entry.offset + entry.size
      /\ \A j \in 1 .. Len(mv) : j # r => mv2[j] = mv[j]
  <2>1. mv2 = [mv EXCEPT ![r] = entry.offset + entry.size]
    BY <1>7
  <2> HIDE DEF mv2, r
  <2> QED
    BY <1>2, <1>5, <1>8, <2>1, ExceptSeq
<1> HIDE DEF mv2
<1>10. ASSUME NEW k \in n + 1 .. m, k # c PROVE mv2[real[k]] = mv[real[k]]
  <2>1. k \in 1 .. m /\ (k < c \/ c < k)
    BY <1>2, <1>4, <1>10
  <2>2. /\ real[k] \in 1 .. Len(mv) /\ real[c] \in 1 .. Len(mv)
        /\ real[k] < real[c] \/ real[c] < real[k]
    BY <1>2, <1>4, <2>1 DEF OfSomeSize
  <2>3. real[k] # real[c]
    BY <2>2
  <2> QED
    BY <1>5, <1>9, <2>2, <2>3
<1>11. ASSUME NEW d, NEW o,
              entry.last => d = c + 1 /\ o = 0,
              ~entry.last => d = c /\ o = entry.offset + entry.size
       PROVE  MovedTo(d, o, n, real, sizes, mv2)
  <2> SUFFICES ASSUME NEW k \in n + 1 .. m
               PROVE  mv2[real[k]] = IF k < d THEN sizes[real[k]]
                                     ELSE IF k = d THEN o ELSE 0
    BY DEF MovedTo
  <2>1. CASE k = c
    <3>1. mv2[real[k]] = entry.offset + entry.size
      BY <1>5, <1>9, <2>1
    <3>2. CASE entry.last
      <4>1. entry.offset + entry.size = sizes[real[k]]
        BY <1>4, <2>1, <3>2 DEF PieceOf
      <4> QED
        BY <1>4, <1>11, <2>1, <3>1, <3>2, <4>1
    <3>3. CASE ~entry.last
      BY <1>4, <1>11, <2>1, <3>1, <3>3
    <3> QED
      BY <3>2, <3>3
  <2>2. CASE k # c
    <3>1. mv2[real[k]] = IF k < c THEN sizes[real[k]] ELSE 0
      BY <1>6, <1>10, <2>2 DEF MovedTo
    <3>2. CASE entry.last
      BY <1>2, <1>4, <1>11, <2>2, <3>1, <3>2
    <3>3. CASE ~entry.last
      BY <1>2, <1>4, <1>11, <2>2, <3>1, <3>3
    <3> QED
      BY <3>2, <3>3
  <2> QED
    BY <2>1, <2>2
<1>12. CASE p + 1 = L
  <2>1. entry.last /\ c = m
    <3>1. stream # <<>>
      BY <1>2, EmptySeq
    <3> QED
      BY <1>2, <1>12, <3>1 DEF Placed
  <2>2. MovedTo(m + 1, 0, n, real, sizes, mv2)
    BY <1>11, <2>1, Zenon
  <2>3. p + 1 \in 0 .. L /\ ~(p + 1 < L)
    BY <1>2, <1>12
  <2>4. InPieces(stream, K, p + 1, n, real, sizes, mv2)
    BY <1>1, <1>2, <1>9, <2>2, <2>3 DEF InPieces
  <2>5. Pieces(stream, p + 1, n, real, sizes, mv2)
    BY <2>4, Zenon DEF Pieces
  <2> QED
    BY <1>3, <1>4, <1>5, <1>7, <2>5 DEF mv2, PieceOf
<1>13. CASE p + 1 # L
  <2>1. p + 2 \in 1 .. L /\ p + 2 = (p + 1) + 1 /\ p + 1 < L /\ p + 1 \in 0 .. L
    BY <1>2, <1>13
  <2>2. Follows(entry, stream[p + 2], c, K[p + 2])
    BY <1>2, <2>1 DEF Placed
  <2>3. /\ entry.last => K[p + 2] = c + 1 /\ stream[p + 2].offset = 0
        /\ ~entry.last => K[p + 2] = c /\ stream[p + 2].offset = entry.offset + entry.size
    BY <2>2 DEF Follows
  <2>4. MovedTo(K[p + 2], stream[p + 2].offset, n, real, sizes, mv2)
    BY <1>11, <2>3, Zenon
  <2>5. MovedTo(K[(p + 1) + 1], stream[(p + 1) + 1].offset, n, real, sizes, mv2)
    BY <2>1, <2>4
  <2>6. InPieces(stream, K, p + 1, n, real, sizes, mv2)
    BY <1>1, <1>2, <1>9, <2>1, <2>5 DEF InPieces
  <2>7. Pieces(stream, p + 1, n, real, sizes, mv2)
    BY <2>6, Zenon DEF Pieces
  <2> QED
    BY <1>3, <1>4, <1>5, <1>7, <2>7 DEF mv2, PieceOf
<1> QED
  BY <1>12, <1>13

\* The number of an entry does not matter.
SamePiece(a, b) ==
  a.req = b.req /\ a.offset = b.offset /\ a.size = b.size /\ a.last = b.last

LEMMA PiecesNumbered ==
  ASSUME NEW stream, NEW p, NEW n, NEW real, NEW sizes, NEW mv,
         Pieces(stream, p, n, real, sizes, mv),
         NEW S \in Seq(Entry), Len(S) = Len(stream),
         \A i \in 1 .. Len(stream) : SamePiece(S[i], stream[i])
  PROVE  Pieces(S, p, n, real, sizes, mv)
<1>1. PICK K : InPieces(stream, K, p, n, real, sizes, mv)
  BY Zenon DEF Pieces
<1> DEFINE L == Len(stream)
<1>2. /\ stream \in Seq(Entry) /\ L \in Nat /\ p \in 0 .. L
      /\ Placed(stream, K, n, real, sizes)
  BY <1>1, LenProperties DEF InPieces
<1>3. stream = <<>> <=> S = <<>>
  BY <1>2, EmptySeq
<1>4. stream # <<>> => L \in 1 .. L
  BY <1>2, EmptySeq
<1>5. Placed(S, K, n, real, sizes)
  <2>1. \A i \in 1 .. L : PieceOf(S[i], real[K[i]], sizes)
    BY <1>2 DEF Placed, PieceOf, SamePiece
  <2>2. \A i, j \in 1 .. L : j = i + 1 => Follows(S[i], S[j], K[i], K[j])
    BY <1>2, SMTT(20) DEF Placed, Follows, SamePiece
  <2>3. \A i, j \in 1 .. L : i < j => K[i] <= K[j] /\ (S[i].last => K[i] < K[j])
    BY <1>2 DEF Placed, SamePiece
  <2>4. S # <<>> => K[1] = n + 1 /\ K[L] = Len(real) /\ S[L].last
    BY <1>2, <1>3, <1>4 DEF Placed, SamePiece
  <2>5. K \in [1 .. L -> n + 1 .. Len(real)] /\ (S = <<>> => n = Len(real))
    BY <1>2, <1>3 DEF Placed
  <2> QED
    BY <2>1, <2>2, <2>3, <2>4, <2>5 DEF Placed
<1>6. p < L => S[p + 1].offset = stream[p + 1].offset
  BY <1>2 DEF SamePiece
<1>7. InPieces(S, K, p, n, real, sizes, mv)
  BY <1>1, <1>5, <1>6 DEF InPieces
<1> QED
  BY <1>7, Zenon DEF Pieces

\* S is a stream in which the last piece of a request, at t + 1, is split.
SplitAt(S, stream, t, unit) ==
  /\ t < Len(stream) /\ stream[t + 1].last /\ unit < stream[t + 1].size
  /\ Len(S) = Len(stream) + 1
  /\ \A i \in 1 .. t : S[i] = stream[i]
  /\ S[t + 1].req = stream[t + 1].req /\ S[t + 1].offset = stream[t + 1].offset
  /\ S[t + 1].size = unit /\ ~S[t + 1].last
  /\ S[t + 2].req = stream[t + 1].req
  /\ S[t + 2].offset = stream[t + 1].offset + unit
  /\ S[t + 2].size = stream[t + 1].size - unit /\ S[t + 2].last
  /\ \A i \in t + 2 .. Len(stream) : S[i + 1] = stream[i]

\* A last piece that has not moved can be split.
LEMMA PiecesSplit ==
  ASSUME NEW stream, NEW p, NEW n, NEW real, NEW sizes, NEW mv,
         Pieces(stream, p, n, real, sizes, mv),
         NEW t \in Nat, p <= t, NEW unit \in Nat \ {0},
         NEW S \in Seq(Entry), SplitAt(S, stream, t, unit)
  PROVE  Pieces(S, p, n, real, sizes, mv)
<1> USE DEF SplitAt
<1>1. PICK K : InPieces(stream, K, p, n, real, sizes, mv)
  BY Zenon DEF Pieces
<1> DEFINE L == Len(stream)
           m == Len(real)
           e == stream[t + 1]
           K2 == [i \in 1 .. L + 1 |-> IF i <= t + 1 THEN K[i] ELSE K[i - 1]]
<1>2. /\ stream \in Seq(Entry) /\ L \in Nat /\ m \in Nat /\ n \in 0 .. m /\ p \in 0 .. L
      /\ t + 1 \in 1 .. L /\ p < L
      /\ Placed(stream, K, n, real, sizes)
  BY <1>1, LenProperties DEF InPieces, OfSomeSize
<1>3. e.size \in Nat \ {0} /\ e.offset \in Nat
  <2>1. e \in Entry
    BY <1>2, ElementOfSeq
  <2> QED
    BY <2>1 DEF Entry
\* Where a piece of S comes from.
<1>4. \A i \in 1 .. L + 1 :
        \/ i \in 1 .. t /\ i \in 1 .. L /\ S[i] = stream[i] /\ K2[i] = K[i]
        \/ i = t + 1 /\ K2[i] = K[t + 1]
        \/ i = t + 2 /\ K2[i] = K[t + 1]
        \/ i \in t + 3 .. L + 1 /\ i - 1 \in 1 .. L /\ S[i] = stream[i - 1] /\ K2[i] = K[i - 1]
  <2> SUFFICES ASSUME NEW i \in 1 .. L + 1
               PROVE  \/ i \in 1 .. t /\ i \in 1 .. L /\ S[i] = stream[i] /\ K2[i] = K[i]
                      \/ i = t + 1 /\ K2[i] = K[t + 1]
                      \/ i = t + 2 /\ K2[i] = K[t + 1]
                      \/ /\ i \in t + 3 .. L + 1 /\ i - 1 \in 1 .. L
                         /\ S[i] = stream[i - 1] /\ K2[i] = K[i - 1]
    OBVIOUS
  <2>1. CASE i \in 1 .. t
    BY <1>2, <2>1
  <2>2. CASE i = t + 1
    BY <2>2
  <2>3. CASE i = t + 2
    BY <2>3
  <2>4. CASE i \in t + 3 .. L + 1
    <3>1. i - 1 \in t + 2 .. L /\ (i - 1) + 1 = i /\ i - 1 \in 1 .. L /\ ~(i <= t + 1)
      BY <1>2, <2>4
    <3> QED
      BY <2>4, <3>1
  <2> QED
    BY <1>2, <2>1, <2>2, <2>3, <2>4
<1>5. \A i \in 1 .. L : K[i] \in n + 1 .. m
  BY <1>2 DEF Placed
<1>6. K2 \in [1 .. L + 1 -> n + 1 .. m]
  <2>1. ASSUME NEW i \in 1 .. L + 1 PROVE K2[i] \in n + 1 .. m
    <3> HIDE DEF K2, L, m, e
    <3>1. \E j \in 1 .. L : K2[i] = K[j]
      BY <1>2, <1>4, Zenon
    <3> QED
      BY <1>5, <3>1, Zenon
  <2>2. K2 = [i \in 1 .. L + 1 |-> K2[i]]
    OBVIOUS
  <2> HIDE DEF K2
  <2> QED
    BY <2>1, <2>2
<1> HIDE DEF K2
<1>7. PieceOf(e, real[K[t + 1]], sizes)
  BY <1>2 DEF Placed
<1>8. e.offset + e.size = sizes[real[K[t + 1]]] /\ e.req = real[K[t + 1]]
  BY <1>7 DEF PieceOf
<1>9. ASSUME NEW i \in 1 .. L + 1 PROVE PieceOf(S[i], real[K2[i]], sizes)
  <2>1. CASE i \in 1 .. t /\ i \in 1 .. L /\ S[i] = stream[i] /\ K2[i] = K[i]
    BY <1>2, <2>1 DEF Placed
  <2>2. CASE i = t + 1 /\ K2[i] = K[t + 1]
    <3>1. e.offset + unit < e.offset + e.size
      BY <1>3
    <3>2. /\ S[i].req = real[K2[i]] /\ S[i].offset + S[i].size < sizes[real[K2[i]]]
          /\ ~S[i].last
      BY <1>8, <2>2, <3>1
    <3>3. \A x, y \in Int : x < y => x <= y /\ x # y
      OBVIOUS
    <3>4. S[i].offset + S[i].size \in Int /\ sizes[real[K2[i]]] \in Int
      BY <1>3, <1>8, <2>2
    <3> QED
      BY <3>2, <3>3, <3>4 DEF PieceOf
  <2>3. CASE i = t + 2 /\ K2[i] = K[t + 1]
    <3>1. (e.offset + unit) + (e.size - unit) = e.offset + e.size
      <4>1. \A x, y, z \in Int : (x + z) + (y - z) = x + y
        OBVIOUS
      <4>2. e.offset \in Int /\ e.size \in Int /\ unit \in Int
        BY <1>3
      <4> QED
        BY <4>1, <4>2
    <3>2. /\ S[i].req = real[K2[i]] /\ S[i].offset + S[i].size = sizes[real[K2[i]]]
          /\ S[i].last
      BY <1>8, <2>3, <3>1
    <3>3. \A x \in Int : x <= x
      OBVIOUS
    <3>4. sizes[real[K2[i]]] \in Int
      BY <1>3, <1>8, <2>3
    <3> QED
      BY <3>2, <3>3, <3>4 DEF PieceOf
  <2>4. CASE /\ i \in t + 3 .. L + 1 /\ i - 1 \in 1 .. L
             /\ S[i] = stream[i - 1] /\ K2[i] = K[i - 1]
    BY <1>2, <2>4 DEF Placed
  <2> QED
    BY <1>4, <2>1, <2>2, <2>3, <2>4
\* The pieces before, between and behind are in the order they were in.
<1>10. \A i, j \in 1 .. L : i < j => K[i] <= K[j] /\ (stream[i].last => K[i] < K[j])
  BY <1>2 DEF Placed
<1>11. ASSUME NEW i \in 1 .. L + 1, NEW j \in 1 .. L + 1, i < j
       PROVE  K2[i] <= K2[j] /\ (S[i].last => K2[i] < K2[j])
  <2> DEFINE a == IF i <= t + 1 THEN i ELSE i - 1
             b == IF j <= t + 1 THEN j ELSE j - 1
  <2>1. ASSUME NEW x \in 1 .. L + 1
        PROVE  LET y == IF x <= t + 1 THEN x ELSE x - 1
               IN  y \in 1 .. L /\ K2[x] = K[y] /\ (x # t + 1 /\ S[x].last => stream[y].last)
    <3>1. CASE x \in 1 .. t /\ x \in 1 .. L /\ S[x] = stream[x] /\ K2[x] = K[x]
      BY <3>1
    <3>2. CASE x = t + 1 /\ K2[x] = K[t + 1]
      BY <1>2, <3>2
    <3>3. CASE x = t + 2 /\ K2[x] = K[t + 1]
      BY <1>2, <3>3
    <3>4. CASE /\ x \in t + 3 .. L + 1 /\ x - 1 \in 1 .. L
               /\ S[x] = stream[x - 1] /\ K2[x] = K[x - 1]
      BY <3>4
    <3> QED
      BY <1>4, <3>1, <3>2, <3>3, <3>4
  <2>2. a < b \/ (i = t + 1 /\ j = t + 2 /\ a = b)
    BY <1>2, <1>11
  <2>3. /\ a \in 1 .. L /\ K2[i] = K[a] /\ (i # t + 1 /\ S[i].last => stream[a].last)
        /\ b \in 1 .. L /\ K2[j] = K[b]
    BY <2>1
  <2> HIDE DEF a, b
  <2>4. K[a] \in Int /\ K[b] \in Int
    BY <1>2, <1>5, <2>3
  <2>5. CASE a < b
    BY <1>10, <2>3, <2>5
  <2>6. CASE i = t + 1 /\ j = t + 2 /\ a = b
    BY <2>3, <2>4, <2>6
  <2> QED
    BY <2>2, <2>5, <2>6
<1>12. \A i, j \in 1 .. L : j = i + 1 => Follows(stream[i], stream[j], K[i], K[j])
  BY <1>2 DEF Placed
<1>13. ASSUME NEW i \in 1 .. L + 1, NEW j \in 1 .. L + 1, j = i + 1
       PROVE  Follows(S[i], S[j], K2[i], K2[j])
  <2>1. CASE i + 1 <= t
    <3>1. i \in 1 .. L /\ j \in 1 .. L /\ S[i] = stream[i] /\ S[j] = stream[j]
          /\ K2[i] = K[i] /\ K2[j] = K[j]
      BY <1>2, <1>4, <1>13, <2>1
    <3> QED
      BY <1>12, <1>13, <3>1
  <2>2. CASE i = t
    <3>1. /\ i \in 1 .. L /\ j \in 1 .. L /\ j = t + 1 /\ S[i] = stream[i]
          /\ S[j].offset = stream[j].offset /\ K2[i] = K[i] /\ K2[j] = K[j]
      BY <1>2, <1>4, <1>13, <2>2
    <3>2. Follows(stream[i], stream[j], K[i], K[j])
      BY <1>12, <1>13, <3>1
    <3> QED
      BY <3>1, <3>2 DEF Follows
  <2>3. CASE i = t + 1
    <3>1. j = t + 2 /\ K2[i] = K[t + 1] /\ K2[j] = K[t + 1]
      BY <1>2, <1>4, <1>13, <2>3
    <3> QED
      BY <2>3, <3>1 DEF Follows
  <2>4. CASE i = t + 2
    <3>1. /\ t + 2 \in 1 .. L /\ j = t + 3 /\ S[j] = stream[t + 2]
          /\ K2[i] = K[t + 1] /\ K2[j] = K[t + 2]
      BY <1>2, <1>4, <1>13, <2>4
    <3>2. Follows(e, stream[t + 2], K[t + 1], K[t + 2])
      BY <1>2, <1>12, <3>1
    <3> QED
      BY <2>4, <3>1, <3>2 DEF Follows
  <2>5. CASE i \in t + 3 .. L + 1
    <3>1. /\ i - 1 \in 1 .. L /\ i \in 1 .. L /\ S[i] = stream[i - 1] /\ S[j] = stream[i]
          /\ K2[i] = K[i - 1] /\ K2[j] = K[i] /\ i = (i - 1) + 1
      BY <1>2, <1>4, <1>13, <2>5
    <3> QED
      BY <1>12, <3>1
  <2> QED
    BY <1>2, <1>13, <2>1, <2>2, <2>3, <2>4, <2>5
<1>14. S # <<>> /\ K2[1] = n + 1 /\ K2[L + 1] = m /\ S[L + 1].last
  <2>1. S # <<>> /\ stream # <<>>
    BY <1>2, EmptySeq
  <2>2. K[1] = n + 1 /\ K[L] = m /\ stream[L].last
    BY <1>2, <2>1 DEF Placed
  <2>3. K2[1] = K[1]
    <3>1. 1 \in 1 .. L + 1 /\ 1 # t + 2 /\ 1 \notin t + 3 .. L + 1
      BY <1>2
    <3>2. (1 \in 1 .. t /\ K2[1] = K[1]) \/ (1 = t + 1 /\ K2[1] = K[t + 1])
      BY <1>4, <3>1
    <3> QED
      BY <3>2
  <2>4. CASE L = t + 1
    BY <1>2, <1>4, <2>1, <2>2, <2>3, <2>4
  <2>5. CASE L # t + 1
    <3>1. L + 1 \in t + 3 .. L + 1 /\ (L + 1) - 1 = L /\ L + 1 \in 1 .. L + 1
      BY <1>2, <2>5
    <3> QED
      BY <1>2, <1>4, <2>1, <2>2, <2>3, <3>1
  <2> QED
    BY <2>4, <2>5
<1>15. Placed(S, K2, n, real, sizes)
  BY <1>6, <1>9, <1>11, <1>13, <1>14 DEF Placed
<1>16. /\ p + 1 \in 1 .. L + 1 /\ K2[p + 1] = K[p + 1]
       /\ S[p + 1].offset = stream[p + 1].offset
  <2>1. p + 1 \in 1 .. L + 1 /\ (p + 1 \in 1 .. t \/ p + 1 = t + 1)
    BY <1>2
  <2>2. CASE p + 1 \in 1 .. t
    <3>1. p + 1 # t + 1 /\ p + 1 # t + 2 /\ p + 1 \notin t + 3 .. L + 1
      BY <1>2, <2>2
    <3>2. S[p + 1] = stream[p + 1] /\ K2[p + 1] = K[p + 1]
      BY <1>4, <2>1, <3>1
    <3> QED
      BY <2>1, <3>2
  <2>3. CASE p + 1 = t + 1
    <3>1. p + 1 \notin 1 .. t /\ p + 1 # t + 2 /\ p + 1 \notin t + 3 .. L + 1
      BY <1>2, <2>3
    <3>2. K2[p + 1] = K[t + 1]
      BY <1>4, <2>1, <3>1
    <3> QED
      BY <2>1, <2>3, <3>2
  <2> QED
    BY <2>1, <2>2, <2>3
<1>17. p \in 0 .. L + 1 /\ p < L + 1 /\ p # L + 1
  BY <1>2
<1>18. InPieces(S, K2, p, n, real, sizes, mv)
  BY <1>1, <1>2, <1>15, <1>16, <1>17 DEF InPieces
<1> QED
  BY <1>18, Zenon DEF Pieces

-----------------------------------------------------------------------------
(* The queues of a direction. *)

\* The pieces of requests inside the FIFO and those that wait to enter.
Stream(waiting, busy, queue) == queue \o (IF busy THEN Tail(waiting) ELSE waiting)

Queued(d, waiting, busy, queue, used, p, n, real, sizes, mv) ==
  /\ waiting \in Seq(Entry) /\ queue \in Seq(Entry) /\ busy \in BOOLEAN
  /\ busy => /\ waiting # <<>> /\ queue # <<>> /\ waiting[1] = queue[Len(queue)]
             /\ calcSize(waiting[1].size) <= Capacity[d]
  /\ \A i \in 1 .. Len(waiting) : waiting[i].last \/ (busy /\ i = 1)
  /\ used = Space(queue)
  /\ p <= Len(queue)
  /\ Pieces(Stream(waiting, busy, queue), p, n, real, sizes, mv)

\* What Enter() makes of the queues; c is the number of an entry that enters.
Entered(d, waiting, busy, queue, used, c, waiting2, busy2, queue2, used2) ==
  IF waiting = <<>> \/ MustWait(d, Head(waiting), busy, used)
  THEN waiting2 = waiting /\ busy2 = busy /\ queue2 = queue /\ used2 = used
  ELSE LET pieces == Split(d, Head(waiting))
           first  == [pieces[1] EXCEPT !.id = c]
       IN  /\ waiting2 = <<first>> \o Tail(pieces) \o Tail(waiting)
           /\ busy2 = TRUE
           /\ queue2 = Append(queue, first)
           /\ used2 = used + calcSize(first.size)

LEMMA AppendOfConcat ==
  ASSUME NEW S, NEW s \in Seq(S), NEW t \in Seq(S), NEW e \in S
  PROVE  s \o Append(t, e) = Append(s \o t, e)
<1>1. s \o t \in Seq(S) /\ <<e>> \in Seq(S)
  BY ConcatProperties
<1>2. Append(t, e) = t \o <<e>> /\ Append(s \o t, e) = (s \o t) \o <<e>>
  BY <1>1, AppendIsConcat
<1>3. (s \o t) \o <<e>> = s \o (t \o <<e>>)
  BY <1>1, ConcatAssociative
<1> QED
  BY <1>2, <1>3

LEMMA HeadTailOfConcat ==
  ASSUME NEW S, NEW s \in Seq(S), NEW t \in Seq(S), s # <<>>
  PROVE  Head(s \o t) = Head(s) /\ Tail(s \o t) = Tail(s) \o t
<1> DEFINE q == s \o t
           r == Tail(s) \o t
<1>1. /\ Len(s) \in Nat \ {0} /\ Len(t) \in Nat
      /\ Tail(s) \in Seq(S) /\ Len(Tail(s)) = Len(s) - 1 /\ Head(s) = s[1]
      /\ \A i \in 1 .. Len(s) - 1 : Tail(s)[i] = s[i + 1]
  BY HeadTailProperties, EmptySeq, LenProperties
<1>2. /\ q \in Seq(S) /\ Len(q) = Len(s) + Len(t)
      /\ \A i \in 1 .. Len(s) + Len(t) : q[i] = IF i <= Len(s) THEN s[i] ELSE t[i - Len(s)]
  BY ConcatProperties
<1>3. /\ r \in Seq(S) /\ Len(r) = Len(Tail(s)) + Len(t)
      /\ \A i \in 1 .. Len(Tail(s)) + Len(t) :
           r[i] = IF i <= Len(Tail(s)) THEN Tail(s)[i] ELSE t[i - Len(Tail(s))]
  BY <1>1, ConcatProperties
<1> HIDE DEF q, r
<1>4. q # <<>> /\ 1 \in 1 .. Len(s) + Len(t) /\ 1 <= Len(s)
  BY <1>1, <1>2, EmptySeq
<1>5. /\ Head(q) = q[1] /\ Tail(q) \in Seq(S) /\ Len(Tail(q)) = Len(q) - 1
      /\ \A i \in 1 .. Len(Tail(q)) : Tail(q)[i] = q[i + 1]
  BY <1>2, <1>4, HeadTailProperties
<1>6. Head(q) = Head(s)
  BY <1>1, <1>2, <1>4, <1>5
<1>7. Len(Tail(q)) = Len(r)
  BY <1>1, <1>2, <1>3, <1>5
<1>8. ASSUME NEW i \in 1 .. Len(Tail(q)) PROVE Tail(q)[i] = r[i]
  <2>1. i + 1 \in 1 .. Len(s) + Len(t) /\ i \in 1 .. Len(Tail(s)) + Len(t)
    BY <1>1, <1>2, <1>5
  <2>2. Tail(q)[i] = q[i + 1]
    BY <1>5
  <2>3. CASE i <= Len(Tail(s))
    <3>1. i + 1 <= Len(s) /\ i \in 1 .. Len(s) - 1
      BY <1>1, <2>1, <2>3
    <3>2. q[i + 1] = s[i + 1] /\ r[i] = Tail(s)[i] /\ Tail(s)[i] = s[i + 1]
      BY <1>1, <1>2, <1>3, <2>1, <2>3, <3>1
    <3> QED
      BY <2>2, <3>2
  <2>4. CASE ~(i <= Len(Tail(s)))
    <3>1. ~(i + 1 <= Len(s)) /\ (i + 1) - Len(s) = i - Len(Tail(s))
      BY <1>1, <2>1, <2>4
    <3>2. q[i + 1] = t[(i + 1) - Len(s)] /\ r[i] = t[i - Len(Tail(s))]
      BY <1>2, <1>3, <2>1, <2>4, <3>1
    <3> QED
      BY <2>2, <3>1, <3>2
  <2> QED
    BY <2>3, <2>4
<1>9. Tail(q) = r
  BY <1>3, <1>5, <1>7, <1>8, SeqEqual
<1> QED
  BY <1>6, <1>9 DEF q, r

LEMMA ConsProperties ==
  ASSUME NEW S, NEW x \in S, NEW s \in Seq(S)
  PROVE  /\ <<x>> \o s \in Seq(S) /\ <<x>> \o s # <<>>
         /\ Len(<<x>> \o s) = Len(s) + 1
         /\ (<<x>> \o s)[1] = x /\ Head(<<x>> \o s) = x
         /\ \A i \in 1 .. Len(s) : (<<x>> \o s)[i + 1] = s[i]
         /\ Tail(<<x>> \o s) = s
<1> DEFINE q == <<x>> \o s
<1>1. <<x>> \in Seq(S) /\ Len(<<x>>) = 1 /\ <<x>>[1] = x
  OBVIOUS
<1>2. Len(s) \in Nat
  BY LenProperties
<1>3. /\ q \in Seq(S) /\ Len(q) = 1 + Len(s)
      /\ \A i \in 1 .. 1 + Len(s) : q[i] = IF i <= 1 THEN <<x>>[i] ELSE s[i - 1]
  BY <1>1, ConcatProperties
<1> HIDE DEF q
<1>4. q # <<>> /\ Len(q) = Len(s) + 1
  BY <1>2, <1>3, EmptySeq
<1>5. q[1] = x
  BY <1>1, <1>2, <1>3
<1>6. ASSUME NEW i \in 1 .. Len(s) PROVE q[i + 1] = s[i]
  <2>1. i + 1 \in 1 .. 1 + Len(s) /\ ~(i + 1 <= 1) /\ (i + 1) - 1 = i
    BY <1>2
  <2> QED
    BY <1>3, <2>1
<1>7. /\ Head(q) = q[1] /\ Tail(q) \in Seq(S) /\ Len(Tail(q)) = Len(q) - 1
      /\ \A i \in 1 .. Len(Tail(q)) : Tail(q)[i] = q[i + 1]
  BY <1>3, <1>4, HeadTailProperties
<1>8. Len(Tail(q)) = Len(s)
  BY <1>2, <1>4, <1>7
<1>9. Tail(q) = s
  BY <1>6, <1>7, <1>8, SeqEqual
<1> QED
  BY <1>3, <1>4, <1>5, <1>6, <1>7, <1>9 DEF q

\* The stream after an entry entered.
LEMMA JoinedStream ==
  ASSUME NEW queue \in Seq(Entry), NEW first \in Entry, NEW rest \in Seq(Entry)
  PROVE  LET S == Append(queue, first) \o rest
         IN  /\ S \in Seq(Entry) /\ Len(S) = Len(queue) + 1 + Len(rest)
             /\ \A i \in 1 .. Len(queue) : S[i] = queue[i]
             /\ S[Len(queue) + 1] = first
             /\ \A j \in 1 .. Len(rest) : S[Len(queue) + 1 + j] = rest[j]
<1> DEFINE Q == Append(queue, first)
           S == Q \o rest
           t == Len(queue)
<1>1. /\ Q \in Seq(Entry) /\ Len(Q) = t + 1 /\ Q[t + 1] = first
      /\ \A i \in 1 .. t : Q[i] = queue[i]
      /\ t \in Nat /\ Len(rest) \in Nat
  BY AppendProperties, LenProperties
<1> HIDE DEF Q
<1>2. /\ S \in Seq(Entry) /\ Len(S) = (t + 1) + Len(rest)
      /\ \A i \in 1 .. (t + 1) + Len(rest) :
           S[i] = IF i <= t + 1 THEN Q[i] ELSE rest[i - (t + 1)]
  <2>1. /\ S \in Seq(Entry) /\ Len(S) = Len(Q) + Len(rest)
        /\ \A i \in 1 .. Len(Q) + Len(rest) :
             S[i] = IF i <= Len(Q) THEN Q[i] ELSE rest[i - Len(Q)]
    BY <1>1, ConcatProperties
  <2> HIDE DEF S
  <2> QED
    BY <1>1, <2>1, Zenon
<1> HIDE DEF S
<1>3. ASSUME NEW i \in 1 .. t PROVE S[i] = queue[i]
  <2>1. i \in 1 .. (t + 1) + Len(rest) /\ i <= t + 1
    BY <1>1
  <2> QED
    BY <1>1, <1>2, <2>1
<1>4. S[t + 1] = first
  <2>1. t + 1 \in 1 .. (t + 1) + Len(rest) /\ t + 1 <= t + 1
    BY <1>1
  <2> QED
    BY <1>1, <1>2, <2>1
<1>5. ASSUME NEW j \in 1 .. Len(rest) PROVE S[t + 1 + j] = rest[j]
  <2>1. /\ t + 1 + j \in 1 .. (t + 1) + Len(rest) /\ ~(t + 1 + j <= t + 1)
        /\ (t + 1 + j) - (t + 1) = j
    BY <1>1
  <2> QED
    BY <1>2, <2>1
<1> QED
  BY <1>2, <1>3, <1>4, <1>5 DEF Q, S

\* An entry enters, or its first unit, and a second piece stays.
FirstOf(d, e, pieces, first) ==
  /\ first \in Entry /\ calcSize(first.size) <= Capacity[d]
  /\ first.req = e.req /\ first.offset = e.offset
  /\ \/ first.size = e.size /\ first.last = e.last /\ Tail(pieces) = <<>>
     \/ \E second \in Entry :
          /\ Tail(pieces) = <<second>> /\ second.last
          /\ TransferUnit < e.size /\ first.size = TransferUnit /\ ~first.last
          /\ second.req = e.req /\ second.offset = e.offset + TransferUnit
          /\ second.size = e.size - TransferUnit

LEMMA EntersFirst ==
  ASSUME NEW d \in Direction, NEW e \in Entry, e.last, NEW c \in Nat,
         NEW pieces, pieces = Split(d, e),
         NEW first, first = [pieces[1] EXCEPT !.id = c]
  PROVE  FirstOf(d, e, pieces, first) /\ first.id = c
<1>1. TransferUnit \in Nat \ {0} /\ Capacity[d] \in Nat
  BY FifoAssumption
<1>2. /\ e.req \in Nat /\ e.offset \in Nat /\ e.size \in Nat \ {0} /\ e.last \in BOOLEAN
      /\ e.id \in Nat
  BY DEF Entry
<1>3. CASE calcSize(e.size) <= Capacity[d]
  <2>1. pieces = <<e>>
    BY <1>3 DEF Split
  <2>2. pieces[1] = e /\ Tail(pieces) = <<>>
    BY <2>1
  <2>3. first = [e EXCEPT !.id = c]
    BY <2>2
  <2>4. /\ first \in Entry /\ first.id = c /\ first.req = e.req /\ first.offset = e.offset
        /\ first.size = e.size /\ first.last = e.last
    BY <2>3 DEF Entry
  <2> QED
    BY <1>3, <2>2, <2>4 DEF FirstOf
<1>4. CASE ~(calcSize(e.size) <= Capacity[d])
  <2>1. TransferUnit < e.size /\ calcSize(TransferUnit) <= Capacity[d]
    BY <1>2, <1>4, UnitFits
  <2> DEFINE a == [e EXCEPT !.size = TransferUnit, !.last = FALSE]
             b == [e EXCEPT !.offset = @ + TransferUnit, !.size = @ - TransferUnit,
                            !.last = TRUE]
  <2>2. pieces = <<a, b>>
    BY <1>4 DEF Split
  <2>6. pieces[1] = a /\ Tail(pieces) = <<b>>
    <3> HIDE DEF a, b
    <3> QED
      BY <2>2
  <2>7. first = [a EXCEPT !.id = c]
    BY <2>6
  <2>3. /\ first \in Entry /\ first.id = c /\ first.req = e.req /\ first.offset = e.offset
        /\ first.size = TransferUnit /\ first.last = FALSE
    BY <1>1, <1>2, <2>7 DEF Entry
  <2>4. e.size - TransferUnit \in Nat \ {0} /\ e.offset + TransferUnit \in Nat
    BY <1>1, <1>2, <2>1
  <2>5. /\ b \in Entry /\ b.last = TRUE /\ b.req = e.req
        /\ b.offset = e.offset + TransferUnit /\ b.size = e.size - TransferUnit
    BY <2>4 DEF Entry
  <2> HIDE DEF a, b
  <2> QED
    BY <2>1, <2>3, <2>5, <2>6 DEF FirstOf
<1> QED
  BY <1>3, <1>4

Joined(queue, queue2, c) == \E first \in Entry : first.id = c /\ queue2 = Append(queue, first)

LEMMA EnteredKeeps ==
  ASSUME NEW d \in Direction, NEW waiting, NEW busy, NEW queue, NEW used,
         NEW p \in Nat, NEW n, NEW real, NEW sizes, NEW mv,
         Queued(d, waiting, busy, queue, used, p, n, real, sizes, mv),
         NEW c \in Nat, NEW waiting2, NEW busy2, NEW queue2, NEW used2,
         Entered(d, waiting, busy, queue, used, c, waiting2, busy2, queue2, used2),
         ~(waiting = <<>> \/ MustWait(d, Head(waiting), busy, used))
  PROVE  /\ Queued(d, waiting2, busy2, queue2, used2, p, n, real, sizes, mv)
         /\ ~busy /\ busy2 = TRUE /\ Joined(queue, queue2, c)
<1> DEFINE e == Head(waiting)
           pieces == Split(d, e)
           first == [pieces[1] EXCEPT !.id = c]
           t == Len(queue)
           rest == Tail(pieces) \o Tail(waiting)
           stream == queue \o waiting
           S == Append(queue, first) \o rest
<1>1. /\ waiting \in Seq(Entry) /\ queue \in Seq(Entry) /\ busy \in BOOLEAN
      /\ used = Space(queue) /\ p <= t /\ t \in Nat /\ waiting # <<>>
      /\ \A i \in 1 .. Len(waiting) : waiting[i].last \/ (busy /\ i = 1)
  BY LenProperties DEF Queued
<1>2. /\ e \in Entry /\ e = waiting[1] /\ Len(waiting) \in Nat \ {0}
      /\ Tail(waiting) \in Seq(Entry) /\ Len(Tail(waiting)) = Len(waiting) - 1
      /\ \A i \in 1 .. Len(waiting) - 1 : Tail(waiting)[i] = waiting[i + 1]
  BY <1>1, HeadTailProperties, EmptySeq
<1>3. ~busy
  BY <1>1, <1>2 DEF Queued, MustWait
<1>4. \A i \in 1 .. Len(waiting) : waiting[i].last
  BY <1>1, <1>3
<1>5. e.last
  BY <1>2, <1>4
<1>6. FirstOf(d, e, pieces, first) /\ first.id = c
  <2>1. pieces = Split(d, e) /\ first = [pieces[1] EXCEPT !.id = c]
    OBVIOUS
  <2> HIDE DEF e, pieces, first
  <2>2. e \in Entry /\ e.last
    BY <1>2, <1>5
  <2> QED
    BY <2>1, <2>2, EntersFirst
<1>7. /\ first \in Entry /\ first.id = c /\ calcSize(first.size) <= Capacity[d]
      /\ first.req = e.req /\ first.offset = e.offset
      /\ \/ first.size = e.size /\ first.last = e.last /\ Tail(pieces) = <<>>
         \/ \E second \in Entry :
              /\ Tail(pieces) = <<second>> /\ second.last
              /\ TransferUnit < e.size /\ first.size = TransferUnit /\ ~first.last
              /\ second.req = e.req /\ second.offset = e.offset + TransferUnit
              /\ second.size = e.size - TransferUnit
  <2> HIDE DEF e, pieces, first
  <2> QED
    BY <1>6, Zenon DEF FirstOf
<1>8. /\ waiting2 = <<first>> \o Tail(pieces) \o Tail(waiting) /\ busy2 = TRUE
      /\ queue2 = Append(queue, first) /\ used2 = used + calcSize(first.size)
  BY DEF Entered
<1>9. Pieces(stream, p, n, real, sizes, mv)
  BY <1>3 DEF Queued, Stream
<1>10. /\ stream \in Seq(Entry) /\ Len(stream) = t + Len(waiting)
       /\ \A i \in 1 .. t : stream[i] = queue[i]
       /\ \A j \in 1 .. Len(waiting) : stream[t + j] = waiting[j]
  <2>1. /\ stream \in Seq(Entry) /\ Len(stream) = t + Len(waiting)
        /\ \A i \in 1 .. t + Len(waiting) :
             stream[i] = IF i <= t THEN queue[i] ELSE waiting[i - t]
    BY <1>1, ConcatProperties
  <2> HIDE DEF stream
  <2>2. ASSUME NEW i \in 1 .. t PROVE stream[i] = queue[i]
    <3>1. i \in 1 .. t + Len(waiting) /\ i <= t
      BY <1>1, <1>2
    <3> QED
      BY <2>1, <3>1
  <2>3. ASSUME NEW j \in 1 .. Len(waiting) PROVE stream[t + j] = waiting[j]
    <3>1. t + j \in 1 .. t + Len(waiting) /\ ~(t + j <= t) /\ (t + j) - t = j
      BY <1>1, <1>2
    <3> QED
      BY <2>1, <3>1
  <2> QED
    BY <2>1, <2>2, <2>3
<1>11. stream[t + 1] = e
  BY <1>2, <1>10
<1> HIDE DEF stream, first, pieces, e
<1>12. Tail(pieces) \in Seq(Entry) /\ \A i \in 1 .. Len(Tail(pieces)) : Tail(pieces)[i].last
  <2> DEFINE x == Tail(pieces)
  <2> SUFFICES x \in Seq(Entry) /\ \A i \in 1 .. Len(x) : x[i].last
    OBVIOUS
  <2> HIDE DEF x
  <2>1. CASE x = <<>>
    <3>1. Len(x) = 0 /\ x \in Seq(Entry)
      BY <2>1, EmptySeq
    <3>2. \A i \in 1 .. 0 : FALSE
      OBVIOUS
    <3> QED
      BY <3>1, <3>2, Zenon
  <2>2. ASSUME NEW second \in Entry, x = <<second>>, second.last
        PROVE  x \in Seq(Entry) /\ \A i \in 1 .. Len(x) : x[i].last
    <3>1. <<second>> \in Seq(Entry) /\ Len(<<second>>) = 1 /\ <<second>>[1] = second
      OBVIOUS
    <3> QED
      BY <2>2, <3>1
  <2> QED
    BY <1>7, <2>1, <2>2, Zenon DEF x
<1>13. /\ rest \in Seq(Entry)
       /\ \A i \in 1 .. Len(rest) : rest[i].last
  <2> DEFINE a == Tail(pieces)
             b == Tail(waiting)
  <2>1. \A i \in 1 .. Len(b) : b[i].last
    BY <1>2, <1>4
  <2>2. /\ rest \in Seq(Entry) /\ Len(rest) = Len(a) + Len(b)
        /\ \A i \in 1 .. Len(a) + Len(b) : rest[i] = IF i <= Len(a) THEN a[i] ELSE b[i - Len(a)]
    BY <1>2, <1>12, ConcatProperties
  <2>3. Len(a) \in Nat /\ Len(b) \in Nat
    BY <1>2, <1>12, LenProperties
  <2> HIDE DEF rest, b
  <2>4. ASSUME NEW i \in 1 .. Len(rest) PROVE rest[i].last
    <3>1. CASE i <= Len(a)
      BY <1>12, <2>2, <2>3, <3>1
    <3>2. CASE ~(i <= Len(a))
      BY <2>1, <2>2, <2>3, <3>2
    <3> QED
      BY <3>1, <3>2
  <2> QED
    BY <2>2, <2>4
<1>14. waiting2 = <<first>> \o rest
  BY <1>2, <1>7, <1>8, <1>12, ConcatAssociative
<1> HIDE DEF rest
<1>15. /\ waiting2 \in Seq(Entry) /\ waiting2 # <<>> /\ waiting2[1] = first
       /\ Len(waiting2) = Len(rest) + 1
       /\ \A i \in 1 .. Len(rest) : waiting2[i + 1] = rest[i]
       /\ Tail(waiting2) = rest
  BY <1>7, <1>13, <1>14, ConsProperties
<1>16. /\ S \in Seq(Entry) /\ Len(S) = t + 1 + Len(rest)
       /\ \A i \in 1 .. t : S[i] = queue[i]
       /\ S[t + 1] = first
       /\ \A j \in 1 .. Len(rest) : S[t + 1 + j] = rest[j]
  BY <1>1, <1>7, <1>13, JoinedStream
<1> HIDE DEF S
<1>17. Pieces(S, p, n, real, sizes, mv)
  <2>1. CASE first.size = e.size /\ first.last = e.last /\ Tail(pieces) = <<>>
    <3>1. rest = Tail(waiting)
      BY <1>2, <2>1, ConcatEmptySeq DEF rest
    <3>2. Len(S) = Len(stream)
      BY <1>1, <1>2, <1>10, <1>16, <3>1
    <3>3. ASSUME NEW i \in 1 .. Len(stream) PROVE SamePiece(S[i], stream[i])
      <4>1. CASE i <= t
        <5>1. S[i] = stream[i]
          BY <1>1, <1>10, <1>16, <4>1
        <5> QED
          BY <5>1 DEF SamePiece
      <4>2. CASE i = t + 1
        BY <1>7, <1>11, <1>16, <2>1, <4>2 DEF SamePiece
      <4>3. CASE i > t + 1
        <5> DEFINE j == i - (t + 1)
        <5>1. /\ j \in 1 .. Len(waiting) - 1 /\ j + 1 \in 1 .. Len(waiting)
              /\ i = t + 1 + j /\ i = t + (j + 1)
          BY <1>1, <1>2, <1>10, <4>3
        <5> HIDE DEF j
        <5>2. stream[i] = waiting[j + 1]
          BY <1>10, <5>1
        <5>3. rest = Tail(waiting) /\ j \in 1 .. Len(rest)
          BY <1>2, <3>1, <5>1
        <5>4. S[i] = rest[j] /\ rest[j] = waiting[j + 1]
          BY <1>2, <1>16, <5>1, <5>3
        <5> QED
          BY <5>2, <5>4 DEF SamePiece
      <4> QED
        BY <1>1, <4>1, <4>2, <4>3
    <3> QED
      BY <1>9, <1>16, <3>2, <3>3, PiecesNumbered
  <2>2. ASSUME NEW second \in Entry, Tail(pieces) = <<second>>, second.last,
               TransferUnit < e.size, first.size = TransferUnit, ~first.last,
               second.req = e.req, second.offset = e.offset + TransferUnit,
               second.size = e.size - TransferUnit
        PROVE  Pieces(S, p, n, real, sizes, mv)
    <3>1. rest = <<second>> \o Tail(waiting)
      BY <2>2 DEF rest
    <3>2. /\ Len(rest) = Len(waiting) /\ rest[1] = second
          /\ \A i \in 1 .. Len(waiting) - 1 : rest[i + 1] = waiting[i + 1]
      <4>1. /\ Len(rest) = Len(Tail(waiting)) + 1 /\ rest[1] = second
            /\ \A i \in 1 .. Len(Tail(waiting)) : rest[i + 1] = Tail(waiting)[i]
        BY <1>2, <3>1, ConsProperties
      <4> QED
        BY <1>2, <4>1
    <3>3. Len(S) = Len(stream) + 1 /\ t < Len(stream)
      BY <1>1, <1>2, <1>10, <1>16, <3>2
    <3>4. S[t + 2] = second
      <4>1. 1 \in 1 .. Len(rest) /\ t + 1 + 1 = t + 2
        BY <1>1, <1>2, <3>2
      <4> QED
        BY <1>16, <3>2, <4>1
    <3>5. ASSUME NEW i \in t + 2 .. Len(stream) PROVE S[i + 1] = stream[i]
      <4> DEFINE j == i - (t + 1)
      <4>1. /\ j \in 1 .. Len(waiting) - 1 /\ j + 1 \in 1 .. Len(waiting)
            /\ i + 1 = t + 1 + (j + 1) /\ i = t + (j + 1)
        BY <1>1, <1>2, <1>10
      <4> HIDE DEF j
      <4>2. S[t + 1 + (j + 1)] = rest[j + 1] /\ stream[t + (j + 1)] = waiting[j + 1]
        BY <1>10, <1>16, <3>2, <4>1
      <4> QED
        BY <3>2, <4>1, <4>2
    <3>6. \A i \in 1 .. t : S[i] = stream[i]
      BY <1>10, <1>16
    <3>7. TransferUnit \in Nat \ {0}
      BY FifoAssumption
    <3>8. /\ stream[t + 1].last /\ TransferUnit < stream[t + 1].size
          /\ S[t + 1].req = stream[t + 1].req /\ S[t + 1].offset = stream[t + 1].offset
          /\ S[t + 1].size = TransferUnit /\ ~S[t + 1].last
          /\ S[t + 2].req = stream[t + 1].req
          /\ S[t + 2].offset = stream[t + 1].offset + TransferUnit
          /\ S[t + 2].size = stream[t + 1].size - TransferUnit /\ S[t + 2].last
      BY <1>5, <1>7, <1>11, <1>16, <2>2, <3>4
    <3>9. SplitAt(S, stream, t, TransferUnit)
      BY <3>3, <3>5, <3>6, <3>8, Zenon DEF SplitAt
    <3> QED
      BY <1>1, <1>9, <1>16, <3>7, <3>9, PiecesSplit, Zenon
  <2> QED
    BY <1>7, <2>1, <2>2, Zenon
<1>18. Queued(d, waiting2, TRUE, queue2, used2, p, n, real, sizes, mv)
  <2>1. /\ queue2 \in Seq(Entry) /\ queue2 # <<>> /\ Len(queue2) = t + 1
        /\ queue2[Len(queue2)] = first
    BY <1>1, <1>7, <1>8, AppendProperties
  <2>2. used2 = Space(queue2)
    BY <1>1, <1>7, <1>8, AppendSpace
  <2>3. ASSUME NEW i \in 1 .. Len(waiting2) PROVE waiting2[i].last \/ (TRUE /\ i = 1)
    <3>1. CASE i # 1
      <4>1. i - 1 \in 1 .. Len(rest) /\ (i - 1) + 1 = i
        <5>1. Len(rest) \in Nat
          BY <1>13, LenProperties
        <5> QED
          BY <1>15, <3>1, <5>1
      <4>2. waiting2[i] = rest[i - 1]
        BY <1>15, <4>1, Zenon
      <4> QED
        BY <1>13, <4>1, <4>2
    <3> QED
      BY <3>1
  <2>4. Stream(waiting2, TRUE, queue2) = S
    BY <1>8, <1>15 DEF Stream, S
  <2>5. p <= Len(queue2)
    BY <1>1, <2>1
  <2> QED
    BY <1>7, <1>15, <1>17, <2>1, <2>2, <2>3, <2>4, <2>5 DEF Queued
<1> QED
  BY <1>3, <1>7, <1>8, <1>18, Zenon DEF Joined

\* A request joins those that wait to enter; one of no size changes nothing.
LEMMA RequestQueued ==
  ASSUME NEW d \in Direction, NEW waiting, NEW busy, NEW queue, NEW used, NEW p, NEW n,
         NEW sizes \in Seq(Nat), NEW mv, NEW size \in Nat,
         Queued(d, waiting, busy, queue, used, p, n, Real(sizes), sizes, mv)
  PROVE  LET sizes2 == Append(sizes, size)
             mv2 == Append(mv, 0)
             entry == FIFOEntry(Len(sizes) + 1, 0, size)
         IN  /\ size = 0 => Queued(d, waiting, busy, queue, used, p, n, Real(sizes2), sizes2, mv2)
             /\ size > 0 => Queued(d, Append(waiting, entry), busy, queue, used, p, n,
                                   Real(sizes2), sizes2, mv2)
<1> DEFINE sizes2 == Append(sizes, size)
           mv2 == Append(mv, 0)
           r == Len(sizes) + 1
           entry == FIFOEntry(r, 0, size)
           stream == Stream(waiting, busy, queue)
           real == Real(sizes)
<1>1. /\ waiting \in Seq(Entry) /\ queue \in Seq(Entry) /\ busy \in BOOLEAN
      /\ Pieces(stream, p, n, real, sizes, mv)
  BY DEF Queued
<1>2. /\ sizes2 \in Seq(Nat) /\ Len(sizes) \in Nat /\ Len(sizes2) = r /\ sizes2[r] = size
      /\ r \in 1 .. Len(sizes2)
  BY AppendProperties, LenProperties
<1>3. mv \in Seq(Nat) /\ Len(mv) = Len(sizes) /\ OfSomeSize(real, sizes)
  BY <1>1 DEF Pieces, InPieces
<1>4. mv2[r] = 0
  BY <1>3, AppendProperties
<1>5. Pieces(stream, p, n, real, sizes2, mv2)
  BY <1>1, PiecesStay
<1>6. Real(sizes2) = IF size > 0 THEN Append(real, r) ELSE real
  BY AppendReal
<1> HIDE DEF sizes2, mv2, real
<1>7. ASSUME size = 0
      PROVE  Queued(d, waiting, busy, queue, used, p, n, Real(sizes2), sizes2, mv2)
  <2>1. Real(sizes2) = real
    BY <1>6, <1>7
  <2> QED
    BY <1>5, <2>1, Zenon DEF Queued
<1>8. ASSUME size > 0
      PROVE  Queued(d, Append(waiting, entry), busy, queue, used, p, n,
                    Real(sizes2), sizes2, mv2)
  <2>1. Real(sizes2) = Append(real, r)
    BY <1>6, <1>8
  <2>2. \A k \in 1 .. Len(real) : real[k] < r
    BY <1>2, <1>3 DEF OfSomeSize
  <2>3. entry = FIFOEntry(r, 0, sizes2[r])
    BY <1>2
  <2>4. Pieces(Append(stream, entry), p, n, Append(real, r), sizes2, mv2)
    <3> HIDE DEF entry, r, stream
    <3>1. sizes2[r] > 0
      BY <1>2, <1>8
    <3> QED
      BY <1>2, <1>4, <1>5, <2>2, <2>3, <3>1, PiecesJoin
  <2>5. entry \in Entry /\ entry.last = TRUE
    BY <1>2, <1>8 DEF FIFOEntry, Entry
  <2> DEFINE longer == Append(waiting, entry)
  <2> HIDE DEF entry
  <2>6. /\ longer \in Seq(Entry) /\ longer # <<>> /\ Len(longer) = Len(waiting) + 1
        /\ Len(waiting) \in Nat /\ longer[Len(waiting) + 1] = entry
        /\ \A i \in 1 .. Len(waiting) : longer[i] = waiting[i]
    BY <1>1, <2>5, AppendProperties, LenProperties
  <2>7. Stream(longer, busy, queue) = Append(stream, entry)
    <3>1. CASE ~busy
      <4>1. queue \o Append(waiting, entry) = Append(queue \o waiting, entry)
        BY <1>1, <2>5, AppendOfConcat
      <4> QED
        BY <3>1, <4>1 DEF Stream
    <3>2. CASE busy
      <4>1. waiting # <<>>
        BY <3>2 DEF Queued
      <4>2. Tail(longer) = Append(Tail(waiting), entry) /\ Tail(waiting) \in Seq(Entry)
        BY <1>1, <4>1, HeadTailAppend, HeadTailProperties
      <4>3. queue \o Append(Tail(waiting), entry) = Append(queue \o Tail(waiting), entry)
        BY <1>1, <2>5, <4>2, AppendOfConcat
      <4> QED
        BY <3>2, <4>2, <4>3 DEF Stream
    <3> QED
      BY <3>1, <3>2
  <2> HIDE DEF longer, stream
  <2>8. busy => longer[1] = waiting[1]
    <3>1. busy => 1 \in 1 .. Len(waiting)
      BY <1>1, EmptySeq DEF Queued
    <3> QED
      BY <2>6, <3>1
  <2>9. ASSUME NEW i \in 1 .. Len(longer) PROVE longer[i].last \/ (busy /\ i = 1)
    <3>1. CASE i \in 1 .. Len(waiting)
      BY <2>6, <3>1 DEF Queued
    <3>2. CASE i = Len(waiting) + 1
      BY <2>5, <2>6, <3>2
    <3> QED
      BY <2>6, <3>1, <3>2
  <2>10. Queued(d, longer, busy, queue, used, p, n, Append(real, r), sizes2, mv2)
    <3> HIDE DEF r
    <3>1. Pieces(Stream(longer, busy, queue), p, n, Append(real, r), sizes2, mv2)
      BY <2>4, <2>7
    <3>2. busy => /\ longer # <<>> /\ queue # <<>> /\ longer[1] = queue[Len(queue)]
                  /\ calcSize(longer[1].size) <= Capacity[d]
      BY <2>6, <2>8 DEF Queued
    <3>3. used = Space(queue) /\ p <= Len(queue)
      BY DEF Queued
    <3> QED
      BY <1>1, <2>6, <2>9, <3>1, <3>2, <3>3 DEF Queued
  <2> QED
    BY <2>1, <2>10 DEF longer
<1> QED
  BY <1>7, <1>8 DEF sizes2, mv2

\* The first piece in the FIFO that has not moved moves.
LEMMA QueuedMoves ==
  ASSUME NEW d \in Direction, NEW waiting, NEW busy, NEW queue, NEW used, NEW p \in Nat,
         NEW n, NEW real, NEW sizes, NEW mv,
         Queued(d, waiting, busy, queue, used, p, n, real, sizes, mv),
         p < Len(queue), NEW entry, entry = queue[p + 1]
  PROVE  /\ entry.size \in Nat \ {0} /\ mv[entry.req] \in Nat
         /\ mv[entry.req] + entry.size <= sizes[entry.req]
         /\ \E k \in n + 1 .. Len(real) : real[k] = entry.req
         /\ Queued(d, waiting, busy, queue, used, p + 1, n, real, sizes,
                   [mv EXCEPT ![entry.req] = @ + entry.size])
<1> DEFINE rest == IF busy THEN Tail(waiting) ELSE waiting
           stream == Stream(waiting, busy, queue)
<1>1. /\ waiting \in Seq(Entry) /\ queue \in Seq(Entry) /\ busy \in BOOLEAN
      /\ Pieces(stream, p, n, real, sizes, mv)
      /\ busy => waiting # <<>>
  BY DEF Queued
<1>2. rest \in Seq(Entry)
  BY <1>1, HeadTailProperties
<1>3. Len(queue) \in Nat /\ Len(rest) \in Nat
  BY <1>1, <1>2, LenProperties
<1>4. stream = queue \o rest
  BY DEF Stream
<1> HIDE DEF rest
<1>5. /\ Len(stream) = Len(queue) + Len(rest)
      /\ \A i \in 1 .. Len(queue) + Len(rest) :
           stream[i] = IF i <= Len(queue) THEN queue[i] ELSE rest[i - Len(queue)]
  BY <1>1, <1>2, <1>4, ConcatProperties, ZenonT(30)
<1> HIDE DEF stream
<1>6. p < Len(stream) /\ entry = stream[p + 1] /\ p + 1 <= Len(queue)
  BY <1>3, <1>5
<1>7. /\ entry.size \in Nat \ {0} /\ mv[entry.req] \in Nat
      /\ mv[entry.req] + entry.size <= sizes[entry.req]
      /\ \E k \in n + 1 .. Len(real) : real[k] = entry.req
      /\ Pieces(stream, p + 1, n, real, sizes, [mv EXCEPT ![entry.req] = @ + entry.size])
  BY <1>1, <1>6, PiecesMove, Zenon
<1> QED
  BY <1>1, <1>6, <1>7, Zenon DEF Queued, stream

\* The first entry leaves the FIFO.
LEMMA QueuedLeaves ==
  ASSUME NEW d \in Direction, NEW waiting, NEW busy, NEW queue, NEW used, NEW p \in Nat,
         NEW n, NEW real, NEW sizes, NEW mv,
         Queued(d, waiting, busy, queue, used, p, n, real, sizes, mv),
         p > 0, busy => Len(queue) > 1
  PROVE  LET entry == Head(queue)
         IN  /\ queue # <<>> /\ Tail(queue) \in Seq(Entry) /\ Len(Tail(queue)) = Len(queue) - 1
             /\ busy => Tail(queue)[Len(Tail(queue))] = queue[Len(queue)]
             /\ Queued(d, waiting, busy, Tail(queue), used - calcSize(entry.size), p - 1,
                       IF entry.last THEN n + 1 ELSE n, real, sizes, mv)
             /\ entry.last =>
                  /\ n < Len(real) /\ entry.req = real[n + 1]
                  /\ mv[real[n + 1]] = sizes[real[n + 1]]
<1> DEFINE rest == IF busy THEN Tail(waiting) ELSE waiting
           stream == Stream(waiting, busy, queue)
           entry == Head(queue)
           n2 == IF entry.last THEN n + 1 ELSE n
<1>1. /\ waiting \in Seq(Entry) /\ queue \in Seq(Entry) /\ busy \in BOOLEAN
      /\ Pieces(stream, p, n, real, sizes, mv) /\ p <= Len(queue)
      /\ busy => waiting # <<>>
      /\ used = Space(queue)
  BY DEF Queued
<1>2. rest \in Seq(Entry)
  BY <1>1, HeadTailProperties
<1>3. queue # <<>> /\ Len(queue) \in Nat \ {0}
  <2>1. Len(queue) \in Nat /\ Len(queue) # 0
    BY <1>1, LenProperties
  <2> QED
    BY <1>1, <2>1, EmptySeq
<1>4. /\ Tail(queue) \in Seq(Entry) /\ Len(Tail(queue)) = Len(queue) - 1
      /\ \A i \in 1 .. Len(Tail(queue)) : Tail(queue)[i] = queue[i + 1]
  BY <1>1, <1>3, HeadTailProperties
<1>5. stream = queue \o rest /\ Stream(waiting, busy, Tail(queue)) = Tail(queue) \o rest
  BY DEF Stream
<1>6. Head(queue \o rest) = Head(queue) /\ Tail(queue \o rest) = Tail(queue) \o rest
  <2> HIDE DEF rest
  <2> QED
    BY <1>1, <1>2, <1>3, HeadTailOfConcat
<1> HIDE DEF rest, stream
<1>7. Head(stream) = entry
  BY <1>5, <1>6
<1>8. /\ Pieces(Tail(stream), p - 1, n2, real, sizes, mv)
      /\ entry.last =>
           /\ n < Len(real) /\ entry.req = real[n + 1]
           /\ mv[real[n + 1]] = sizes[real[n + 1]]
  <2>1. /\ Pieces(Tail(stream), p - 1, IF Head(stream).last THEN n + 1 ELSE n,
                   real, sizes, mv)
        /\ Head(stream).last =>
             /\ n < Len(real) /\ Head(stream).req = real[n + 1]
             /\ mv[real[n + 1]] = sizes[real[n + 1]]
    BY <1>1, PiecesLeave
  <2> HIDE DEF entry
  <2> QED
    BY <1>7, <2>1
<1>9. Pieces(Stream(waiting, busy, Tail(queue)), p - 1, n2, real, sizes, mv)
  BY <1>5, <1>6, <1>8, Zenon
<1>10. busy => Tail(queue) # <<>> /\ Tail(queue)[Len(Tail(queue))] = queue[Len(queue)]
  <2> SUFFICES ASSUME busy
               PROVE  Tail(queue) # <<>> /\ Tail(queue)[Len(Tail(queue))] = queue[Len(queue)]
    OBVIOUS
  <2>1. Len(queue) > 1
    OBVIOUS
  <2>2. Tail(queue) # <<>>
    BY <1>1, <2>1, TailOfLonger
  <2>3. /\ Len(queue) - 1 \in 1 .. Len(queue) - 1 /\ (Len(queue) - 1) + 1 = Len(queue)
    BY <1>3, <2>1
  <2> QED
    BY <1>4, <2>2, <2>3
<1>11. used - calcSize(entry.size) = Space(Tail(queue))
  BY <1>1, <1>3, TailSpace
<1>12. p - 1 <= Len(Tail(queue))
  BY <1>1, <1>3, <1>4
<1> HIDE DEF entry, n2
<1>13. Queued(d, waiting, busy, Tail(queue), used - calcSize(entry.size), p - 1, n2,
              real, sizes, mv)
  BY <1>1, <1>4, <1>9, <1>10, <1>11, <1>12, Zenon DEF Queued
<1> QED
  BY <1>3, <1>4, <1>8, <1>10, <1>13 DEF entry, n2

\* The entry that enters is inside.
LEMMA QueuedInside ==
  ASSUME NEW d \in Direction, NEW waiting, NEW queue, NEW used, NEW p, NEW n, NEW real,
         NEW sizes, NEW mv,
         Queued(d, waiting, TRUE, queue, used, p, n, real, sizes, mv)
  PROVE  Queued(d, Tail(waiting), FALSE, queue, used, p, n, real, sizes, mv)
<1>1. /\ waiting \in Seq(Entry) /\ waiting # <<>>
      /\ \A i \in 1 .. Len(waiting) : waiting[i].last \/ (TRUE /\ i = 1)
  BY DEF Queued
<1>2. /\ Tail(waiting) \in Seq(Entry) /\ Len(Tail(waiting)) = Len(waiting) - 1
      /\ \A i \in 1 .. Len(Tail(waiting)) : Tail(waiting)[i] = waiting[i + 1]
      /\ Len(waiting) \in Nat
  BY <1>1, HeadTailProperties, LenProperties
<1>3. ASSUME NEW i \in 1 .. Len(Tail(waiting)) PROVE Tail(waiting)[i].last
  <2>1. i + 1 \in 1 .. Len(waiting) /\ i + 1 # 1
    BY <1>2
  <2> QED
    BY <1>1, <1>2, <2>1
<1>4. Stream(Tail(waiting), FALSE, queue) = Stream(waiting, TRUE, queue)
  BY DEF Stream
<1> QED
  BY <1>2, <1>3, <1>4 DEF Queued

-----------------------------------------------------------------------------
(* One direction. *)

\* The requests answered are the first ones of some size.
Prefix(an, real) ==
  /\ an \in Seq(Nat) /\ Len(an) <= Len(real)
  /\ \A k \in 1 .. Len(an) : an[k] = real[k]

\* Its second stage has an entry to work at, and so has the event that starts it,
\* even when the stage is about to end.
Started(queue, begin, l) ==
  /\ begin \in BOOLEAN /\ l \in {"idle", "busy", "waiting", "submit"}
  /\ begin \/ l # "idle" => queue # <<>>
  /\ begin /\ l # "idle" => Len(queue) > 1

\* How many pieces in the FIFO have moved: a write that leaves it, a read that
\* entered it.
Gone(d, busy, queue, l) ==
  IF d = "write" THEN IF l = "submit" THEN 1 ELSE 0
  ELSE IF busy THEN Len(queue) - 1 ELSE Len(queue)

Sound(d, sizes, an, waiting, busy, queue, used, begin, l, mv) ==
  /\ sizes \in Seq(Size) /\ Prefix(an, Real(sizes)) /\ Started(queue, begin, l)
  /\ Queued(d, waiting, busy, queue, used, Gone(d, busy, queue, l), Len(an),
            Real(sizes), sizes, mv)

LEMMA GoneNat ==
  ASSUME NEW d \in Direction, NEW waiting, NEW busy, NEW queue, NEW used, NEW n, NEW real,
         NEW sizes, NEW mv, NEW l, NEW p,
         Queued(d, waiting, busy, queue, used, p, n, real, sizes, mv)
  PROVE  Gone(d, busy, queue, l) \in Nat
<1>1. Len(queue) \in Nat /\ (busy => Len(queue) # 0)
  BY LenProperties, EmptySeq DEF Queued
<1> QED
  BY <1>1 DEF Gone

LEMMA SoundEntered ==
  ASSUME NEW d \in Direction, NEW sizes, NEW an, NEW waiting, NEW busy, NEW queue, NEW used,
         NEW begin, NEW l, NEW mv,
         Sound(d, sizes, an, waiting, busy, queue, used, begin, l, mv),
         NEW c \in Nat, NEW waiting2, NEW busy2, NEW queue2, NEW used2, NEW begin2,
         Entered(d, waiting, busy, queue, used, c, waiting2, busy2, queue2, used2),
         begin2 = IF waiting = <<>> \/ MustWait(d, Head(waiting), busy, used)
                  THEN begin ELSE TRUE
  PROVE  Sound(d, sizes, an, waiting2, busy2, queue2, used2, begin2, l, mv)
<1> DEFINE stays == waiting = <<>> \/ MustWait(d, Head(waiting), busy, used)
           p == Gone(d, busy, queue, l)
<1>1. CASE stays
  <2>1. /\ waiting2 = waiting /\ busy2 = busy /\ queue2 = queue /\ used2 = used
        /\ begin2 = begin
    BY <1>1 DEF Entered
  <2> QED
    BY <2>1
<1>2. CASE ~stays
  <2>1. Queued(d, waiting, busy, queue, used, p, Len(an), Real(sizes), sizes, mv)
    BY DEF Sound
  <2>2. p \in Nat
    BY <2>1, GoneNat
  <2>3. /\ Queued(d, waiting2, busy2, queue2, used2, p, Len(an), Real(sizes), sizes, mv)
        /\ ~busy /\ busy2 = TRUE /\ Joined(queue, queue2, c)
    <3> HIDE DEF p
    <3> QED
      BY <1>2, <2>1, <2>2, EnteredKeeps
  <2>4. queue \in Seq(Entry)
    BY <2>1 DEF Queued
  <2>5. Len(queue2) = Len(queue) + 1 /\ queue2 # <<>> /\ Len(queue) \in Nat
    BY <2>3, <2>4, AppendProperties, LenProperties DEF Joined
  <2>6. Gone(d, busy2, queue2, l) = p
    BY <2>3, <2>5 DEF Gone
  <2>7. begin2 = TRUE
    BY <1>2
  <2>8. l # "idle" => Len(queue2) > 1
    <3>1. l # "idle" => Len(queue) # 0
      BY <2>4, EmptySeq DEF Sound, Started
    <3> QED
      BY <2>5, <3>1
  <2>9. Started(queue2, begin2, l)
    BY <2>5, <2>7, <2>8 DEF Sound, Started
  <2> QED
    BY <2>3, <2>6, <2>9 DEF Sound
<1> QED
  BY <1>1, <1>2

LEMMA SoundRequested ==
  ASSUME NEW d \in Direction, NEW sizes, NEW an, NEW waiting, NEW busy, NEW queue, NEW used,
         NEW begin, NEW l, NEW mv, NEW size \in Size,
         Sound(d, sizes, an, waiting, busy, queue, used, begin, l, mv)
  PROVE  LET sizes2 == Append(sizes, size)
             mv2 == Append(mv, 0)
             entry == FIFOEntry(Len(sizes2), 0, size)
         IN  /\ size = 0 => Sound(d, sizes2, an, waiting, busy, queue, used, begin, l, mv2)
             /\ size # 0 => Sound(d, sizes2, an, Append(waiting, entry), busy, queue, used,
                                  begin, l, mv2)
<1> DEFINE sizes2 == Append(sizes, size)
           mv2 == Append(mv, 0)
           p == Gone(d, busy, queue, l)
           n == Len(an)
           entry == FIFOEntry(Len(sizes2), 0, size)
<1>1. sizes \in Seq(Size) /\ Size \subseteq Nat
  BY FifoAssumption DEF Sound
<1>2. sizes \in Seq(Nat) /\ size \in Nat
  BY <1>1, SeqMonotonic
<1>3. sizes2 \in Seq(Size) /\ Len(sizes2) = Len(sizes) + 1
  BY <1>1, AppendProperties
<1>4. /\ size = 0 => Queued(d, waiting, busy, queue, used, p, n, Real(sizes2), sizes2, mv2)
      /\ size > 0 => Queued(d, Append(waiting, FIFOEntry(Len(sizes) + 1, 0, size)), busy,
                            queue, used, p, n, Real(sizes2), sizes2, mv2)
  <2>1. Queued(d, waiting, busy, queue, used, p, n, Real(sizes), sizes, mv)
    BY DEF Sound
  <2> HIDE DEF p, n
  <2> QED
    BY <1>2, <2>1, RequestQueued
<1>5. Prefix(an, Real(sizes2))
  <2>1. Prefix(an, Real(sizes))
    BY DEF Sound
  <2>2. Real(sizes) \in Seq(Nat)
    BY <1>2, RealOfSomeSize DEF OfSomeSize
  <2>3. Real(sizes2) = IF size > 0 THEN Append(Real(sizes), Len(sizes) + 1) ELSE Real(sizes)
    BY <1>2, AppendReal
  <2> HIDE DEF sizes2
  <2>4. CASE ~(size > 0)
    BY <2>1, <2>3, <2>4
  <2>5. CASE size > 0
    <3> DEFINE real == Real(sizes)
               longer == Append(real, Len(sizes) + 1)
    <3>1. Len(sizes) + 1 \in Nat
      BY <1>2, LenProperties
    <3>2. /\ Len(longer) = Len(real) + 1 /\ Len(real) \in Nat
          /\ \A k \in 1 .. Len(real) : longer[k] = real[k]
      BY <2>2, <3>1, AppendProperties, LenProperties
    <3>3. Real(sizes2) = longer
      BY <2>3, <2>5
    <3> HIDE DEF longer, real
    <3>4. Prefix(an, real)
      BY <2>1 DEF real
    <3>5. Len(an) \in Nat
      BY <3>4, LenProperties DEF Prefix
    <3>6. \A k \in 1 .. Len(an) : k \in 1 .. Len(real)
      BY <3>2, <3>4, <3>5 DEF Prefix
    <3> QED
      BY <3>2, <3>3, <3>4, <3>5, <3>6 DEF Prefix
  <2> QED
    BY <2>4, <2>5
<1>6. size # 0 => size > 0
  BY <1>2
<1>7. Started(queue, begin, l)
  BY DEF Sound
<1> HIDE DEF sizes2, mv2
<1> QED
  BY <1>3, <1>4, <1>5, <1>6, <1>7 DEF Sound, sizes2, mv2

\* The entry that enters is inside.  A write has not moved yet.
LEMMA SoundInserted ==
  ASSUME NEW sizes, NEW an, NEW waiting, NEW queue, NEW used, NEW begin, NEW l, NEW mv,
         Sound("write", sizes, an, waiting, TRUE, queue, used, begin, l, mv)
  PROVE  Sound("write", sizes, an, Tail(waiting), FALSE, queue, used, begin, l, mv)
<1>1. "write" \in Direction
  BY DEF Direction
<1>2. Gone("write", TRUE, queue, l) = Gone("write", FALSE, queue, l)
  BY DEF Gone
<1> QED
  BY <1>1, <1>2, QueuedInside DEF Sound

\* A read has: it is the last one in the FIFO.
LEMMA SoundRead ==
  ASSUME NEW sizes, NEW an, NEW waiting, NEW queue, NEW used, NEW begin, NEW l, NEW mv,
         NEW l2, l2 = l \/ (l = "waiting" /\ l2 = "submit"),
         Sound("read", sizes, an, waiting, TRUE, queue, used, begin, l, mv),
         NEW entry, entry = Head(waiting)
  PROVE  /\ entry.size \in Nat \ {0} /\ mv[entry.req] \in Nat
         /\ mv[entry.req] + entry.size <= sizes[entry.req]
         /\ \E k \in Len(an) + 1 .. Len(Real(sizes)) : Real(sizes)[k] = entry.req
         /\ Sound("read", sizes, an, Tail(waiting), FALSE, queue, used, begin, l2,
                  [mv EXCEPT ![entry.req] = @ + entry.size])
<1> DEFINE p == Len(queue) - 1
           n == Len(an)
           real == Real(sizes)
<1>1. "read" \in Direction
  BY DEF Direction
<1>2. Queued("read", waiting, TRUE, queue, used, p, n, real, sizes, mv)
  BY DEF Sound, Gone
<1>3. /\ waiting \in Seq(Entry) /\ waiting # <<>> /\ waiting[1] = queue[Len(queue)]
      /\ Len(queue) \in Nat \ {0}
  BY <1>2, EmptySeq DEF Queued
<1>4. /\ p \in Nat /\ p < Len(queue) /\ p + 1 = Len(queue)
  BY <1>3
<1>5. entry = queue[p + 1]
  BY <1>3, <1>4, HeadTailProperties
<1> HIDE DEF p, n, real
<1>6. /\ entry.size \in Nat \ {0} /\ mv[entry.req] \in Nat
      /\ mv[entry.req] + entry.size <= sizes[entry.req]
      /\ \E k \in n + 1 .. Len(real) : real[k] = entry.req
      /\ Queued("read", waiting, TRUE, queue, used, p + 1, n, real, sizes,
                [mv EXCEPT ![entry.req] = @ + entry.size])
  BY <1>1, <1>2, <1>4, <1>5, QueuedMoves
<1>7. Queued("read", Tail(waiting), FALSE, queue, used, Len(queue), n, real, sizes,
             [mv EXCEPT ![entry.req] = @ + entry.size])
  BY <1>1, <1>4, <1>6, QueuedInside
<1>8. Gone("read", FALSE, queue, l2) = Len(queue)
  BY DEF Gone
<1>9. Started(queue, begin, l2)
  BY DEF Sound, Started
<1> QED
  BY <1>6, <1>7, <1>8, <1>9 DEF Sound, n, real

\* The DMA of a write ends.
LEMMA SoundMoved ==
  ASSUME NEW sizes, NEW an, NEW waiting, NEW busy, NEW queue, NEW used, NEW begin, NEW mv,
         Sound("write", sizes, an, waiting, busy, queue, used, begin, "busy", mv),
         NEW entry, entry = Head(queue)
  PROVE  /\ entry.size \in Nat \ {0} /\ mv[entry.req] \in Nat
         /\ mv[entry.req] + entry.size <= sizes[entry.req]
         /\ \E k \in Len(an) + 1 .. Len(Real(sizes)) : Real(sizes)[k] = entry.req
         /\ Sound("write", sizes, an, waiting, busy, queue, used, begin, "submit",
                  [mv EXCEPT ![entry.req] = @ + entry.size])
<1> DEFINE n == Len(an)
           real == Real(sizes)
<1>1. "write" \in Direction
  BY DEF Direction
<1>2. Queued("write", waiting, busy, queue, used, 0, n, real, sizes, mv)
  BY DEF Sound, Gone
<1>3. Started(queue, begin, "busy")
  BY DEF Sound
<1>4. queue \in Seq(Entry) /\ queue # <<>>
  BY <1>2, <1>3 DEF Queued, Started
<1>5. 0 < Len(queue) /\ entry = queue[0 + 1]
  BY <1>4, EmptySeq, HeadTailProperties
<1> HIDE DEF n, real
<1>6. /\ entry.size \in Nat \ {0} /\ mv[entry.req] \in Nat
      /\ mv[entry.req] + entry.size <= sizes[entry.req]
      /\ \E k \in n + 1 .. Len(real) : real[k] = entry.req
      /\ Queued("write", waiting, busy, queue, used, 0 + 1, n, real, sizes,
                [mv EXCEPT ![entry.req] = @ + entry.size])
  BY <1>1, <1>2, <1>5, QueuedMoves
<1>7. Gone("write", busy, queue, "submit") = 0 + 1
  BY DEF Gone
<1>8. Started(queue, begin, "submit")
  BY <1>3 DEF Started
<1> QED
  BY <1>6, <1>7, <1>8 DEF Sound, n, real

\* The first entry leaves the FIFO.
Leaves(an, busy, queue, begin, entry, rest, an2, l2) ==
  /\ busy => Len(queue) > 1
  /\ entry = Head(queue) /\ rest = Tail(queue)
  /\ an2 = IF entry.last THEN Append(an, entry.req) ELSE an
  /\ l2 = IF rest # <<>> /\ ~begin THEN "busy" ELSE "idle"

LEMMA SoundLeft ==
  ASSUME NEW d \in Direction, NEW sizes, NEW an, NEW waiting, NEW busy, NEW queue, NEW used,
         NEW begin, NEW mv,
         Sound(d, sizes, an, waiting, busy, queue, used, begin, "submit", mv),
         NEW entry, NEW rest, NEW an2, NEW l2,
         Leaves(an, busy, queue, begin, entry, rest, an2, l2)
  PROVE  /\ Sound(d, sizes, an2, waiting, busy, rest, used - calcSize(entry.size), begin, l2, mv)
         /\ busy => rest[Len(rest)] = queue[Len(queue)]
         /\ entry.last =>
              /\ an2 = Append(an, entry.req) /\ Len(an) < Len(Real(sizes))
              /\ mv[Real(sizes)[Len(an) + 1]] = sizes[Real(sizes)[Len(an) + 1]]
<1> USE DEF Leaves
<1> DEFINE n == Len(an)
           real == Real(sizes)
           p == Gone(d, busy, queue, "submit")
           n2 == IF entry.last THEN n + 1 ELSE n
<1>1. Queued(d, waiting, busy, queue, used, p, n, real, sizes, mv)
  BY DEF Sound
<1>2. Started(queue, begin, "submit") /\ Prefix(an, real) /\ sizes \in Seq(Size)
  BY DEF Sound
<1>3. /\ p \in Nat /\ p > 0
      /\ Len(queue) \in Nat \ {0} /\ queue \in Seq(Entry)
  <2>1. Len(queue) \in Nat \ {0} /\ queue \in Seq(Entry)
    BY <1>1, <1>2, EmptySeq DEF Queued, Started
  <2> QED
    BY <2>1 DEF Gone
<1> HIDE DEF n, real, p
<1>4. /\ rest \in Seq(Entry) /\ Len(rest) = Len(queue) - 1
      /\ busy => rest[Len(rest)] = queue[Len(queue)]
      /\ Queued(d, waiting, busy, rest, used - calcSize(entry.size), p - 1, n2, real, sizes, mv)
      /\ entry.last =>
           /\ n < Len(real) /\ entry.req = real[n + 1]
           /\ mv[real[n + 1]] = sizes[real[n + 1]]
  BY <1>1, <1>3, QueuedLeaves
<1>5. Gone(d, busy, rest, l2) = p - 1
  BY <1>3, <1>4 DEF Gone, p
<1>6. Started(rest, begin, l2)
  <2>1. begin => rest # <<>>
    <3>1. begin => Len(rest) # 0
      BY <1>2, <1>3, <1>4 DEF Started
    <3> QED
      BY <3>1, EmptySeq
  <2>2. l2 # "idle" => rest # <<>> /\ ~begin
    OBVIOUS
  <2>3. l2 \in {"idle", "busy", "waiting", "submit"}
    OBVIOUS
  <2> QED
    BY <1>2, <2>1, <2>2, <2>3, Zenon DEF Started
<1>7. Prefix(an2, real) /\ Len(an2) = n2
  <2>1. n \in Nat /\ an \in Seq(Nat)
    BY <1>2, LenProperties DEF Prefix, n
  <2>2. CASE ~entry.last
    BY <1>2, <2>2 DEF n
  <2>3. CASE entry.last
    <3>1. real \in Seq(Nat)
      <4>1. sizes \in Seq(Nat)
        BY <1>2, FifoAssumption, SeqMonotonic
      <4> QED
        BY <4>1, RealOfSomeSize DEF OfSomeSize, real
    <3>2. Len(real) \in Nat
      BY <3>1, LenProperties
    <3>3. n + 1 \in 1 .. Len(real) /\ entry.req = real[n + 1]
      BY <1>4, <2>1, <2>3, <3>2
    <3>4. entry.req \in Nat
      BY <3>1, <3>3, ElementOfSeq
    <3>5. /\ an2 \in Seq(Nat) /\ Len(an2) = n + 1 /\ an2[n + 1] = entry.req
          /\ \A k \in 1 .. n : an2[k] = an[k]
      BY <2>1, <2>3, <3>4, AppendProperties DEF n
    <3>6. \A k \in 1 .. n + 1 : k \in 1 .. n \/ k = n + 1
      BY <2>1
    <3>7. ASSUME NEW k \in 1 .. n + 1 PROVE an2[k] = real[k]
      BY <1>2, <3>3, <3>5, <3>6 DEF Prefix, n
    <3>8. n + 1 <= Len(real)
      BY <2>1, <3>2, <3>3
    <3> QED
      BY <2>3, <3>5, <3>7, <3>8 DEF Prefix
  <2> QED
    BY <2>2, <2>3
<1>8. Sound(d, sizes, an2, waiting, busy, rest, used - calcSize(entry.size), begin, l2, mv)
  BY <1>2, <1>4, <1>5, <1>6, <1>7 DEF Sound, real
<1>9. entry.last => an2 = Append(an, entry.req)
  OBVIOUS
<1> QED
  BY <1>4, <1>8, <1>9 DEF n, real

-----------------------------------------------------------------------------
(* What a direction shows of the interface that the layers below see. *)

\* The bytes that each request not answered has left to move.
PendingOf(sizes, an, mv) ==
  LET real == Real(sizes)
      left == SubSeq(real, Len(an) + 1, Len(real))
  IN  [k \in DOMAIN left |-> sizes[left[k]] - mv[left[k]]]

Accounts(sizes, an, mv) ==
  /\ sizes \in Seq(Nat) /\ Prefix(an, Real(sizes))
  /\ mv \in Seq(Nat) /\ Len(mv) = Len(sizes)

\* Each in terms of the requests of some size.
Shows(shown, sizes, n, mv) ==
  LET real == Real(sizes)
  IN  /\ shown \in Seq(Int) /\ Len(shown) = Len(real) - n
      /\ \A k \in 1 .. Len(real) - n : shown[k] = sizes[real[n + k]] - mv[real[n + k]]

LEMMA SoundAccounts ==
  ASSUME NEW d \in Direction, NEW sizes, NEW an, NEW waiting, NEW busy, NEW queue, NEW used,
         NEW begin, NEW l, NEW mv,
         Sound(d, sizes, an, waiting, busy, queue, used, begin, l, mv)
  PROVE  Accounts(sizes, an, mv)
<1>1. sizes \in Seq(Nat)
  BY FifoAssumption, SeqMonotonic DEF Sound
<1>2. mv \in Seq(Nat) /\ Len(mv) = Len(sizes)
  BY DEF Sound, Queued, Pieces, InPieces
<1> QED
  BY <1>1, <1>2 DEF Sound, Accounts

LEMMA PendingShows ==
  ASSUME NEW sizes, NEW an, NEW mv, Accounts(sizes, an, mv)
  PROVE  Shows(PendingOf(sizes, an, mv), sizes, Len(an), mv)
<1> DEFINE real == Real(sizes)
           n == Len(an)
           left == SubSeq(real, n + 1, Len(real))
           shown == PendingOf(sizes, an, mv)
<1>1. /\ sizes \in Seq(Nat) /\ mv \in Seq(Nat) /\ Len(mv) = Len(sizes)
      /\ OfSomeSize(real, sizes) /\ n \in Nat /\ n <= Len(real) /\ Len(real) \in Nat
  BY RealOfSomeSize, LenProperties DEF Accounts, Prefix, OfSomeSize
<1> HIDE DEF real, n
<1>2. \A k \in n + 1 .. Len(real) : real[k] \in 1 .. Len(sizes)
  BY <1>1 DEF OfSomeSize
<1>3. /\ left \in Seq(1 .. Len(sizes)) /\ Len(left) = Len(real) - n
      /\ \A k \in 1 .. Len(real) - n : left[k] = real[n + k]
  <2> DEFINE L == Len(real)
  <2>1. L \in Int /\ n + 1 \in Int /\ \A k \in n + 1 .. L : real[k] \in 1 .. Len(sizes)
    BY <1>1, <1>2
  <2>2. /\ left \in Seq(1 .. Len(sizes))
        /\ Len(left) = IF n + 1 <= L THEN L - (n + 1) + 1 ELSE 0
        /\ \A k \in 1 .. L - (n + 1) + 1 : left[k] = real[(n + 1) + k - 1]
    BY <2>1, SubSeqProperties
  <2>3. ASSUME NEW k \in 1 .. L - n PROVE left[k] = real[n + k]
    <3>1. k \in 1 .. L - (n + 1) + 1 /\ (n + 1) + k - 1 = n + k
      BY <1>1
    <3> QED
      BY <2>2, <3>1
  <2>4. Len(left) = L - n
    BY <1>1, <2>2
  <2> QED
    BY <2>2, <2>3, <2>4
<1>4. shown = [k \in DOMAIN left |-> sizes[left[k]] - mv[left[k]]]
  BY DEF PendingOf, real, n
<1> HIDE DEF left, shown
<1>5. DOMAIN left = 1 .. Len(real) - n /\ Len(real) - n \in Nat
  BY <1>1, <1>3, LenProperties
<1>6. ASSUME NEW k \in 1 .. Len(real) - n
      PROVE  /\ shown[k] = sizes[real[n + k]] - mv[real[n + k]]
             /\ shown[k] \in Int
  <2>1. shown[k] = sizes[real[n + k]] - mv[real[n + k]]
    BY <1>3, <1>4, <1>5
  <2>2. n + k \in n + 1 .. Len(real)
    BY <1>1
  <2>3. real[n + k] \in 1 .. Len(sizes)
    BY <1>2, <2>2
  <2>4. sizes[real[n + k]] \in Nat /\ mv[real[n + k]] \in Nat
    BY <1>1, <2>3, ElementOfSeq
  <2> QED
    BY <2>1, <2>4
<1>7. DOMAIN shown = 1 .. Len(real) - n
  BY <1>4, <1>5
<1>8. shown \in [1 .. Len(real) - n -> Int]
  BY <1>4, <1>5, <1>6
<1>9. shown \in Seq(Int) /\ Len(shown) = Len(real) - n
  BY <1>5, <1>8
<1> QED
  BY <1>6, <1>9 DEF Shows, real, n, shown

\* Two that show the same are equal.
LEMMA ShowsSame ==
  ASSUME NEW P, NEW Q, NEW sizes, NEW n, NEW mv,
         Shows(P, sizes, n, mv), Shows(Q, sizes, n, mv)
  PROVE  P = Q
<1>1. /\ P \in Seq(Int) /\ Q \in Seq(Int) /\ Len(P) = Len(Q)
      /\ \A k \in 1 .. Len(P) : P[k] = Q[k]
  BY DEF Shows
<1> QED
  BY <1>1, SeqEqual

LEMMA PendingRequest ==
  ASSUME NEW sizes, NEW an, NEW mv, Accounts(sizes, an, mv), NEW size \in Nat
  PROVE  LET P2 == PendingOf(Append(sizes, size), an, Append(mv, 0))
             P == PendingOf(sizes, an, mv)
         IN  P2 = IF size > 0 THEN Append(P, size) ELSE P
<1> DEFINE sizes2 == Append(sizes, size)
           mv2 == Append(mv, 0)
           real == Real(sizes)
           real2 == Real(sizes2)
           n == Len(an)
           N == Len(sizes)
           P == PendingOf(sizes, an, mv)
           Q == IF size > 0 THEN Append(P, size) ELSE P
<1>1. /\ sizes \in Seq(Nat) /\ mv \in Seq(Nat) /\ Len(mv) = N /\ N \in Nat
      /\ OfSomeSize(real, sizes) /\ n \in Nat /\ n <= Len(real) /\ Len(real) \in Nat
      /\ an \in Seq(Nat) /\ \A k \in 1 .. n : an[k] = real[k]
  BY RealOfSomeSize, LenProperties DEF Accounts, Prefix, OfSomeSize
<1>2. Shows(P, sizes, n, mv)
  BY PendingShows
<1>3. /\ sizes2 \in Seq(Nat) /\ Len(sizes2) = N + 1 /\ sizes2[N + 1] = size
      /\ mv2 \in Seq(Nat) /\ Len(mv2) = N + 1 /\ mv2[N + 1] = 0
      /\ \A r \in 1 .. N : sizes2[r] = sizes[r] /\ mv2[r] = mv[r]
  BY <1>1, AppendProperties
<1>4. real2 = IF size > 0 THEN Append(real, N + 1) ELSE real
  BY <1>1, AppendReal
<1>5. /\ Len(real2) = IF size > 0 THEN Len(real) + 1 ELSE Len(real)
      /\ \A k \in 1 .. Len(real) : real2[k] = real[k]
      /\ size > 0 => real2[Len(real) + 1] = N + 1
  <2>1. real \in Seq(Nat) /\ N + 1 \in Nat
    BY <1>1 DEF OfSomeSize
  <2> QED
    BY <1>4, <2>1, AppendProperties
<1> HIDE DEF sizes2, mv2, real2, P
<1>6. Accounts(sizes2, an, mv2)
  <2>1. \A k \in 1 .. n : k \in 1 .. Len(real)
    BY <1>1
  <2>2. n <= Len(real2)
    BY <1>1, <1>5
  <2>3. \A k \in 1 .. n : an[k] = real2[k]
    BY <1>1, <1>5, <2>1
  <2> QED
    BY <1>1, <1>3, <2>2, <2>3 DEF Accounts, Prefix, real2
<1>7. Shows(PendingOf(sizes2, an, mv2), sizes2, n, mv2)
  BY <1>6, PendingShows
<1>8. P \in Seq(Int) /\ Len(P) = Len(real) - n
  BY <1>2 DEF Shows
<1>9. ASSUME NEW k \in 1 .. Len(real) - n
      PROVE  P[k] = sizes2[real2[n + k]] - mv2[real2[n + k]]
  <2>1. n + k \in 1 .. Len(real)
    BY <1>1
  <2>2. real2[n + k] = real[n + k] /\ real[n + k] \in 1 .. N
    BY <1>1, <1>5, <2>1 DEF OfSomeSize
  <2> QED
    BY <1>2, <1>3, <2>2 DEF Shows
<1>10. Shows(Q, sizes2, n, mv2)
  <2>1. CASE ~(size > 0)
    <3>1. Q = P /\ Len(real2) = Len(real)
      BY <1>5, <2>1
    <3> QED
      BY <1>8, <1>9, <3>1 DEF Shows, real2
  <2>2. CASE size > 0
    <3>1. Q = Append(P, size) /\ Len(real2) = Len(real) + 1
      BY <1>5, <2>2
    <3>2. /\ Q \in Seq(Int) /\ Len(Q) = Len(real) - n + 1
          /\ \A k \in 1 .. Len(real) - n : Q[k] = P[k]
          /\ Q[Len(real) - n + 1] = size
      BY <1>8, <3>1, AppendProperties
    <3> HIDE DEF Q
    <3>3. ASSUME NEW k \in 1 .. Len(real2) - n
          PROVE  Q[k] = sizes2[real2[n + k]] - mv2[real2[n + k]]
      <4>1. k \in 1 .. Len(real) - n \/ (k = Len(real) - n + 1 /\ n + k = Len(real) + 1)
        BY <1>1, <3>1
      <4>2. CASE k \in 1 .. Len(real) - n
        BY <1>9, <3>2, <4>2
      <4>3. CASE k = Len(real) - n + 1 /\ n + k = Len(real) + 1
        <5>1. sizes2[real2[n + k]] = size /\ mv2[real2[n + k]] = 0 /\ Q[k] = size
          BY <1>3, <1>5, <2>2, <3>2, <4>3
        <5> QED
          BY <5>1
      <4> QED
        BY <4>1, <4>2, <4>3
    <3>4. Len(Q) = Len(real2) - n
      BY <1>1, <3>1, <3>2
    <3> QED
      BY <3>2, <3>3, <3>4 DEF Shows, real2
  <2> QED
    BY <2>1, <2>2
<1>11. PendingOf(sizes2, an, mv2) = Q
  BY <1>7, <1>10, ShowsSame
<1> QED
  BY <1>11 DEF sizes2, mv2, P

\* Bytes of one request less are left.
Moves(P, P2) ==
  \E k \in DOMAIN P : \E left \in 0 .. P[k] - 1 : P2 = [P EXCEPT ![k] = left]

LEMMA PendingMoves ==
  ASSUME NEW sizes, NEW an, NEW mv, Accounts(sizes, an, mv), NEW r, NEW bytes \in Nat \ {0},
         mv[r] \in Nat, mv[r] + bytes <= sizes[r],
         \E k \in Len(an) + 1 .. Len(Real(sizes)) : Real(sizes)[k] = r
  PROVE  Moves(PendingOf(sizes, an, mv), PendingOf(sizes, an, [mv EXCEPT ![r] = @ + bytes]))
<1> DEFINE mv2 == [mv EXCEPT ![r] = @ + bytes]
           real == Real(sizes)
           n == Len(an)
           P == PendingOf(sizes, an, mv)
<1>1. /\ sizes \in Seq(Nat) /\ mv \in Seq(Nat) /\ Len(mv) = Len(sizes)
      /\ OfSomeSize(real, sizes) /\ n \in Nat /\ n <= Len(real) /\ Len(real) \in Nat
  BY RealOfSomeSize, LenProperties DEF Accounts, Prefix, OfSomeSize
<1>2. PICK k0 \in n + 1 .. Len(real) : real[k0] = r
  OBVIOUS
<1>3. k0 \in 1 .. Len(real) /\ r \in 1 .. Len(sizes)
  <2>1. k0 \in 1 .. Len(real)
    BY <1>1
  <2> QED
    BY <1>1, <1>2, <2>1 DEF OfSomeSize
<1>4. sizes[r] \in Nat
  BY <1>1, <1>3, ElementOfSeq
<1>5. mv \in [1 .. Len(sizes) -> Nat]
  BY <1>1, LenProperties
<1>6. /\ mv2 \in [1 .. Len(sizes) -> Nat] /\ mv2[r] = mv[r] + bytes
      /\ \A q \in 1 .. Len(sizes) : q # r => mv2[q] = mv[q]
  BY <1>3, <1>5
<1>7. Len(sizes) \in Nat
  BY <1>1, LenProperties
<1> HIDE DEF mv2, real, n, P
<1>8. mv2 \in Seq(Nat) /\ Len(mv2) = Len(sizes)
  BY <1>6, <1>7
<1>9. Shows(P, sizes, n, mv)
  BY PendingShows DEF P, n
<1>10. Accounts(sizes, an, mv2)
  BY <1>1, <1>8 DEF Accounts
<1>11. Shows(PendingOf(sizes, an, mv2), sizes, n, mv2)
  BY <1>10, PendingShows DEF n
<1> DEFINE k1 == k0 - n
           left == sizes[r] - (mv[r] + bytes)
           Q == [P EXCEPT ![k1] = left]
<1>12. /\ P \in Seq(Int) /\ Len(P) = Len(real) - n
       /\ \A k \in 1 .. Len(real) - n : P[k] = sizes[real[n + k]] - mv[real[n + k]]
  BY <1>9 DEF Shows, real
<1>13. k1 \in 1 .. Len(real) - n /\ n + k1 = k0
  BY <1>1, <1>2
<1>14. P \in [1 .. Len(real) - n -> Int] /\ Len(real) - n \in Nat
  BY <1>1, <1>12, LenProperties
<1>15. P[k1] = sizes[r] - mv[r]
  BY <1>2, <1>12, <1>13
<1> HIDE DEF k1
<1>16. left \in 0 .. P[k1] - 1 /\ left \in Int
  <2>1. \A a, b, c \in Int : b + c <= a /\ c > 0 => a - (b + c) \in 0 .. (a - b) - 1
    OBVIOUS
  <2>2. sizes[r] \in Int /\ mv[r] \in Int /\ bytes \in Int /\ bytes > 0
    BY <1>4
  <2>3. left \in 0 .. (sizes[r] - mv[r]) - 1
    BY <2>1, <2>2, Zenon
  <2>4. left \in Int
    BY <2>2
  <2> QED
    BY <1>15, <2>3, <2>4
<1>17. /\ Q \in [1 .. Len(real) - n -> Int] /\ Q[k1] = left
       /\ \A k \in 1 .. Len(real) - n : k # k1 => Q[k] = P[k]
  BY <1>13, <1>14, <1>16
<1> HIDE DEF Q
<1>18. Q \in Seq(Int) /\ Len(Q) = Len(real) - n
  BY <1>14, <1>17
<1>19. ASSUME NEW k \in 1 .. Len(real) - n
       PROVE  Q[k] = sizes[real[n + k]] - mv2[real[n + k]]
  <2>1. CASE k = k1
    <3>1. real[n + k] = r
      BY <1>2, <1>13, <2>1
    <3> QED
      BY <1>6, <1>17, <2>1, <3>1
  <2>2. CASE k # k1
    <3>1. n + k \in 1 .. Len(real) /\ n + k # k0
      <4>1. k1 \in Int /\ k \in Int
        BY <1>13
      <4>2. n + k # n + k1
        BY <1>1, <2>2, <4>1
      <4>3. n + k \in 1 .. Len(real)
        BY <1>1
      <4> QED
        BY <1>13, <4>2, <4>3
    <3>2. n + k < k0 \/ k0 < n + k
      BY <1>1, <1>2, <3>1
    <3>3. real[n + k] \in 1 .. Len(sizes) /\ real[n + k] # r
      <4>1. real[n + k] \in 1 .. Len(sizes) /\ (real[n + k] < r \/ r < real[n + k])
        BY <1>1, <1>2, <1>3, <3>1, <3>2 DEF OfSomeSize
      <4>2. \A x, y \in Int : x < y \/ y < x => x # y
        OBVIOUS
      <4> QED
        BY <1>3, <4>1
    <3> QED
      BY <1>6, <1>12, <1>17, <2>2, <3>3
  <2> QED
    BY <2>1, <2>2
<1>20. Shows(Q, sizes, n, mv2)
  BY <1>18, <1>19 DEF Shows, real
<1>21. PendingOf(sizes, an, mv2) = Q
  BY <1>11, <1>20, ShowsSame
<1>22. k1 \in DOMAIN P
  BY <1>13, <1>14
<1>23. \E k \in DOMAIN P : \E x \in 0 .. P[k] - 1 : PendingOf(sizes, an, mv2) = [P EXCEPT ![k] = x]
  BY <1>16, <1>21, <1>22, Zenon DEF Q
<1> QED
  BY <1>23, Zenon DEF Moves, mv2, P

\* The first request, of which nothing is left, is answered.
LEMMA PendingAnswered ==
  ASSUME NEW sizes, NEW an, NEW mv, Accounts(sizes, an, mv), NEW x,
         Accounts(sizes, Append(an, x), mv), Len(an) < Len(Real(sizes)),
         mv[Real(sizes)[Len(an) + 1]] = sizes[Real(sizes)[Len(an) + 1]]
  PROVE  LET P == PendingOf(sizes, an, mv)
         IN  P # <<>> /\ Head(P) = 0 /\ PendingOf(sizes, Append(an, x), mv) = Tail(P)
<1> DEFINE real == Real(sizes)
           n == Len(an)
           P == PendingOf(sizes, an, mv)
           an2 == Append(an, x)
<1>1. /\ sizes \in Seq(Nat) /\ OfSomeSize(real, sizes) /\ n \in Nat /\ n < Len(real)
      /\ Len(real) \in Nat /\ an \in Seq(Nat)
  BY RealOfSomeSize, LenProperties DEF Accounts, Prefix, OfSomeSize
<1>2. Len(an2) = n + 1
  <2>1. an2 \in Seq(Nat)
    BY DEF Accounts, Prefix
  <2> QED
    BY <1>1
<1> HIDE DEF real, n, P, an2
<1>3. Shows(P, sizes, n, mv) /\ Shows(PendingOf(sizes, an2, mv), sizes, n + 1, mv)
  BY <1>2, PendingShows DEF P, n, an2
<1>4. /\ P \in Seq(Int) /\ Len(P) = Len(real) - n
      /\ \A k \in 1 .. Len(real) - n : P[k] = sizes[real[n + k]] - mv[real[n + k]]
  BY <1>3 DEF Shows, real
<1>5. 1 \in 1 .. Len(real) - n /\ n + 1 \in 1 .. Len(real)
  BY <1>1
<1>6. P # <<>>
  BY <1>1, <1>4, EmptySeq
<1>7. /\ Head(P) = P[1] /\ Tail(P) \in Seq(Int) /\ Len(Tail(P)) = Len(P) - 1
      /\ \A k \in 1 .. Len(Tail(P)) : Tail(P)[k] = P[k + 1]
  <2>1. P \in Seq(Int)
    BY <1>4
  <2> QED
    BY <1>6, <2>1, HeadTailProperties
<1>8. Head(P) = 0
  <2>1. real[n + 1] \in 1 .. Len(sizes)
    BY <1>1, <1>5 DEF OfSomeSize
  <2>2. sizes[real[n + 1]] \in Nat
    BY <1>1, <2>1, ElementOfSeq
  <2>3. P[1] = sizes[real[n + 1]] - mv[real[n + 1]]
    BY <1>4, <1>5
  <2>4. mv[real[n + 1]] = sizes[real[n + 1]]
    BY DEF real, n
  <2> QED
    BY <1>7, <2>2, <2>3, <2>4
<1>9. Shows(Tail(P), sizes, n + 1, mv)
  <2>1. Len(Tail(P)) = Len(real) - (n + 1)
    BY <1>1, <1>4, <1>7
  <2>2. ASSUME NEW k \in 1 .. Len(real) - (n + 1)
        PROVE  Tail(P)[k] = sizes[real[(n + 1) + k]] - mv[real[(n + 1) + k]]
    <3>1. k + 1 \in 1 .. Len(real) - n /\ n + (k + 1) = (n + 1) + k
      BY <1>1
    <3>2. Tail(P)[k] = P[k + 1]
      BY <1>7, <2>1
    <3> QED
      BY <1>4, <3>1, <3>2
  <2> QED
    BY <1>7, <2>1, <2>2 DEF Shows, real
<1>10. PendingOf(sizes, an2, mv) = Tail(P)
  BY <1>3, <1>9, ShowsSame
<1> QED
  BY <1>6, <1>8, <1>10 DEF P, an2

-----------------------------------------------------------------------------
(* The reads, whose pieces are told apart by their ids: completed are those *)
(* whose DMA ended before their insertion, c is the id of the next one.     *)

Reading(busy, queue, l, completed, c) ==
  /\ c \in Nat /\ completed \subseteq 0 .. c - 1
  /\ busy => queue[Len(queue)].id \in (0 .. c - 1) \ completed
  /\ busy /\ l = "submit" => Len(queue) > 1

Stays(d, waiting, busy, used) == waiting = <<>> \/ MustWait(d, Head(waiting), busy, used)

LEMMA EntersAtEnd ==
  ASSUME NEW d \in Direction, NEW sizes, NEW an, NEW waiting, NEW busy, NEW queue, NEW used,
         NEW begin, NEW l, NEW mv,
         Sound(d, sizes, an, waiting, busy, queue, used, begin, l, mv),
         NEW c \in Nat, NEW waiting2, NEW busy2, NEW queue2, NEW used2,
         Entered(d, waiting, busy, queue, used, c, waiting2, busy2, queue2, used2),
         ~Stays(d, waiting, busy, used)
  PROVE  ~busy /\ Joined(queue, queue2, c) /\ queue \in Seq(Entry)
<1> DEFINE p == Gone(d, busy, queue, l)
<1>1. Queued(d, waiting, busy, queue, used, p, Len(an), Real(sizes), sizes, mv)
  BY DEF Sound
<1>2. p \in Nat
  BY <1>1, GoneNat
<1> HIDE DEF p
<1>3. ~(waiting = <<>> \/ MustWait(d, Head(waiting), busy, used))
  BY DEF Stays
<1>4. ~busy /\ Joined(queue, queue2, c)
  BY <1>1, <1>2, <1>3, EnteredKeeps
<1> QED
  BY <1>1, <1>4 DEF Queued

LEMMA ReadingEntered ==
  ASSUME NEW sizes, NEW an, NEW waiting, NEW busy, NEW queue, NEW used,
         NEW begin, NEW l, NEW mv,
         Sound("read", sizes, an, waiting, busy, queue, used, begin, l, mv),
         NEW c, NEW completed, Reading(busy, queue, l, completed, c),
         NEW waiting2, NEW busy2, NEW queue2, NEW used2, NEW c2,
         Entered("read", waiting, busy, queue, used, c, waiting2, busy2, queue2, used2),
         c2 = IF Stays("read", waiting, busy, used) THEN c ELSE c + 1
  PROVE  Reading(busy2, queue2, l, completed, c2)
<1>1. CASE Stays("read", waiting, busy, used)
  BY <1>1 DEF Entered, Stays
<1>2. CASE ~Stays("read", waiting, busy, used)
  <2>1. "read" \in Direction /\ c \in Nat /\ completed \subseteq 0 .. c - 1 /\ c2 = c + 1
    BY <1>2 DEF Direction, Reading
  <2>2. Joined(queue, queue2, c) /\ queue \in Seq(Entry)
    BY <1>2, <2>1, EntersAtEnd
  <2>3. PICK first \in Entry : first.id = c /\ queue2 = Append(queue, first)
    BY <2>2 DEF Joined
  <2>4. Len(queue2) = Len(queue) + 1 /\ queue2[Len(queue2)] = first /\ Len(queue) \in Nat
    BY <2>2, <2>3, AppendProperties, LenProperties
  <2>5. l = "submit" => Len(queue) # 0
    BY <2>2, EmptySeq DEF Sound, Started
  <2>6. c \in (0 .. c2 - 1) \ completed /\ completed \subseteq 0 .. c2 - 1 /\ c2 \in Nat
    BY <2>1
  <2>7. l = "submit" => Len(queue2) > 1
    BY <2>4, <2>5
  <2> QED
    BY <2>3, <2>4, <2>6, <2>7 DEF Reading
<1> QED
  BY <1>1, <1>2

-----------------------------------------------------------------------------
(* The FIFO. *)

\* Each variable has a value for each direction.
Table(f) == f = [d \in Direction |-> f[d]]

Tables ==
  /\ Table(requests) /\ Table(answered) /\ Table(waitQueue) /\ Table(entering)
  /\ Table(transferQueue) /\ Table(usage) /\ Table(beginTransfer) /\ Table(leaving)
  /\ Table(moved)

InDirection(d) ==
  Sound(d, requests[d], answered[d], waitQueue[d], entering[d], transferQueue[d],
        usage[d], beginTransfer[d], leaving[d], moved[d])

Reads ==
  Reading(entering["read"], transferQueue["read"], leaving["read"], readCompletion, counter)

FifoInv ==
  /\ Tables
  /\ \A d \in Direction : InDirection(d)
  /\ Reads

\* g differs from f at most in direction d, where it is v.
Sets(f, g, d, v) == Table(g) /\ g[d] = v /\ \A e \in Direction \ {d} : g[e] = f[e]

LEMMA ExceptSets ==
  ASSUME NEW f, Table(f), NEW d \in Direction, NEW v, NEW g, g = [f EXCEPT ![d] = v]
  PROVE  Sets(f, g, d, v)
<1>1. DOMAIN f = Direction
  BY DEF Table
<1>2. g = [e \in Direction |-> IF e = d THEN v ELSE f[e]]
  BY <1>1
<1>3. g[d] = v /\ \A e \in Direction \ {d} : g[e] = f[e]
  BY <1>2
<1>4. \A e \in Direction : g[e] = IF e = d THEN v ELSE f[e]
  BY <1>2
<1>5. g = [e \in Direction |-> g[e]]
  BY <1>2, <1>4
<1> QED
  BY <1>3, <1>5 DEF Table, Sets

LEMMA EnterIs ==
  ASSUME Tables, NEW d \in Direction, NEW A, NEW B, NEW Q, NEW u, Enter(d, A, B, Q, u),
         NEW c, c = IF d = "read" THEN counter ELSE 0
  PROVE  \E A2, B2, Q2, u2, b2 :
           /\ Sets(waitQueue, waitQueue', d, A2) /\ Sets(entering, entering', d, B2)
           /\ Sets(transferQueue, transferQueue', d, Q2) /\ Sets(usage, usage', d, u2)
           /\ Sets(beginTransfer, beginTransfer', d, b2)
           /\ Entered(d, A, B, Q, u, c, A2, B2, Q2, u2)
           /\ b2 = IF Stays(d, A, B, u) THEN beginTransfer[d] ELSE TRUE
           /\ counter' = IF Stays(d, A, B, u) \/ d # "read" THEN counter ELSE counter + 1
<1>1. CASE Stays(d, A, B, u)
  <2>1. /\ waitQueue'     = [waitQueue EXCEPT ![d] = A]
        /\ entering'      = [entering EXCEPT ![d] = B]
        /\ transferQueue' = [transferQueue EXCEPT ![d] = Q]
        /\ usage'         = [usage EXCEPT ![d] = u]
        /\ beginTransfer' = beginTransfer /\ counter' = counter
    BY <1>1 DEF Enter, Stays
  <2>2. PICK b : b = beginTransfer[d]
    OBVIOUS
  <2>3. Sets(beginTransfer, beginTransfer', d, b)
    BY <2>1, <2>2 DEF Sets, Tables
  <2>4. Sets(waitQueue, waitQueue', d, A)
    BY <2>1, ExceptSets, Zenon DEF Tables
  <2>5. Sets(entering, entering', d, B)
    BY <2>1, ExceptSets, Zenon DEF Tables
  <2>6. Sets(transferQueue, transferQueue', d, Q)
    BY <2>1, ExceptSets, Zenon DEF Tables
  <2>7. Sets(usage, usage', d, u)
    BY <2>1, ExceptSets, Zenon DEF Tables
  <2>8. Entered(d, A, B, Q, u, c, A, B, Q, u)
    BY <1>1 DEF Entered, Stays
  <2> QED
    BY <1>1, <2>1, <2>2, <2>3, <2>4, <2>5, <2>6, <2>7, <2>8, Zenon
<1>2. CASE ~Stays(d, A, B, u)
  <2> DEFINE pieces == Split(d, Head(A))
             first == [pieces[1] EXCEPT !.id = c]
             A2 == <<first>> \o Tail(pieces) \o Tail(A)
             Q2 == Append(Q, first)
             u2 == u + calcSize(first.size)
  <2>1. /\ waitQueue'     = [waitQueue EXCEPT ![d] = A2]
        /\ entering'      = [entering EXCEPT ![d] = TRUE]
        /\ transferQueue' = [transferQueue EXCEPT ![d] = Q2]
        /\ usage'         = [usage EXCEPT ![d] = u2]
        /\ beginTransfer' = [beginTransfer EXCEPT ![d] = TRUE]
        /\ counter' = IF d = "read" THEN counter + 1 ELSE counter
    BY <1>2 DEF Enter, Stays
  <2>2. Entered(d, A, B, Q, u, c, A2, TRUE, Q2, u2)
    BY <1>2 DEF Entered, Stays
  <2> HIDE DEF A2, Q2, u2, first, pieces
  <2>3. Sets(beginTransfer, beginTransfer', d, TRUE)
    BY <2>1, ExceptSets, Zenon DEF Tables
  <2>4. Sets(waitQueue, waitQueue', d, A2)
    BY <2>1, ExceptSets, Zenon DEF Tables
  <2>5. Sets(entering, entering', d, TRUE)
    BY <2>1, ExceptSets, Zenon DEF Tables
  <2>6. Sets(transferQueue, transferQueue', d, Q2)
    BY <2>1, ExceptSets, Zenon DEF Tables
  <2>7. Sets(usage, usage', d, u2)
    BY <2>1, ExceptSets, Zenon DEF Tables
  <2> QED
    BY <1>2, <2>1, <2>2, <2>3, <2>4, <2>5, <2>6, <2>7, Zenon
<1> QED
  BY <1>1, <1>2

\* They differ at most in direction d.
Same(f, g, d) == Table(g) /\ \A e \in Direction \ {d} : g[e] = f[e]

SameQueues(d) ==
  /\ Same(waitQueue, waitQueue', d) /\ Same(entering, entering', d)
  /\ Same(transferQueue, transferQueue', d) /\ Same(usage, usage', d)
  /\ Same(beginTransfer, beginTransfer', d)

\* What the handler left is sound; so is what is there after an entry tried to
\* enter.
LEMMA EnterKeeps ==
  ASSUME Tables, NEW d \in Direction, NEW A, NEW B, NEW Q, NEW u, Enter(d, A, B, Q, u),
         NEW sizes, NEW an, NEW l, NEW mv,
         Sound(d, sizes, an, A, B, Q, u, beginTransfer[d], l, mv),
         counter \in Nat, NEW completed,
         d = "read" => Reading(B, Q, l, completed, counter)
  PROVE  /\ SameQueues(d)
         /\ Sound(d, sizes, an, waitQueue'[d], entering'[d], transferQueue'[d], usage'[d],
                  beginTransfer'[d], l, mv)
         /\ d = "read" => Reading(entering'[d], transferQueue'[d], l, completed, counter')
         /\ d # "read" => counter' = counter
<1>1. PICK b, c, n, n2 : b = beginTransfer[d] /\ c = (IF d = "read" THEN counter ELSE 0)
                         /\ n = counter /\ n2 = counter'
  OBVIOUS
<1>2. PICK A2, B2, Q2, u2, b2 :
        /\ Sets(waitQueue, waitQueue', d, A2) /\ Sets(entering, entering', d, B2)
        /\ Sets(transferQueue, transferQueue', d, Q2) /\ Sets(usage, usage', d, u2)
        /\ Sets(beginTransfer, beginTransfer', d, b2)
        /\ Entered(d, A, B, Q, u, c, A2, B2, Q2, u2)
        /\ b2 = IF Stays(d, A, B, u) THEN beginTransfer[d] ELSE TRUE
        /\ counter' = IF Stays(d, A, B, u) \/ d # "read" THEN counter ELSE counter + 1
  BY <1>1, EnterIs, ZenonT(30)
<1>3. Sound(d, sizes, an, A, B, Q, u, b, l, mv)
  BY <1>1
<1>4. c \in Nat
  BY <1>1
<1>5. b2 = IF A = <<>> \/ MustWait(d, Head(A), B, u) THEN b ELSE TRUE
  BY <1>1, <1>2 DEF Stays
<1>6. Sound(d, sizes, an, A2, B2, Q2, u2, b2, l, mv)
  BY <1>2, <1>3, <1>4, <1>5, SoundEntered
<1>7. ASSUME d = "read" PROVE Reading(B2, Q2, l, completed, n2)
  <2>1. Sound("read", sizes, an, A, B, Q, u, b, l, mv) /\ Reading(B, Q, l, completed, n)
    BY <1>1, <1>3, <1>7
  <2>2. Entered("read", A, B, Q, u, n, A2, B2, Q2, u2)
    BY <1>1, <1>2, <1>7
  <2>3. n2 = IF Stays("read", A, B, u) THEN n ELSE n + 1
    BY <1>1, <1>2, <1>7
  <2> QED
    BY <2>1, <2>2, <2>3, ReadingEntered
<1>8. d # "read" => counter' = counter
  BY <1>2
<1>9. /\ waitQueue'[d] = A2 /\ entering'[d] = B2 /\ transferQueue'[d] = Q2
      /\ usage'[d] = u2 /\ beginTransfer'[d] = b2
  BY <1>2 DEF Sets
<1>10. SameQueues(d)
  BY <1>2 DEF SameQueues, Same, Sets
<1>11. d = "read" => Reading(entering'[d], transferQueue'[d], l, completed, counter')
  BY <1>1, <1>7, <1>9
<1> QED
  BY <1>6, <1>8, <1>9, <1>10, <1>11

\* A step of the interface in one direction.
PortStep(P, P2) ==
  \/ P2 = P
  \/ \E size \in Size \ {0} : P2 = Append(P, size)
  \/ Moves(P, P2)
  \/ P # <<>> /\ Head(P) = 0 /\ P2 = Tail(P)

PendingIn(d) == PendingOf(requests[d], answered[d], moved[d])

\* A step of one direction.
Changes(d) ==
  /\ SameQueues(d) /\ Same(requests, requests', d) /\ Same(answered, answered', d)
  /\ Same(leaving, leaving', d) /\ Same(moved, moved', d)
  /\ Sound(d, requests'[d], answered'[d], waitQueue'[d], entering'[d], transferQueue'[d],
           usage'[d], beginTransfer'[d], leaving'[d], moved'[d])
  /\ Reads'
  /\ PortStep(PendingIn(d), PendingOf(requests'[d], answered'[d], moved'[d]))

LEMMA DirectionStep ==
  ASSUME FifoInv, NEW d \in Direction, Changes(d)
  PROVE  FifoInv' /\ [Port!Next]_pending
<1>1. Tables'
  BY DEF Changes, SameQueues, Same, Tables
<1>2. ASSUME NEW e \in Direction PROVE InDirection(e)'
  <2>1. CASE e = d
    BY <2>1 DEF Changes, InDirection
  <2>2. CASE e # d
    <3>1. InDirection(e)
      BY DEF FifoInv
    <3>2. /\ requests'[e] = requests[e] /\ answered'[e] = answered[e]
          /\ waitQueue'[e] = waitQueue[e] /\ entering'[e] = entering[e]
          /\ transferQueue'[e] = transferQueue[e] /\ usage'[e] = usage[e]
          /\ beginTransfer'[e] = beginTransfer[e] /\ leaving'[e] = leaving[e]
          /\ moved'[e] = moved[e]
      BY <2>2 DEF Changes, SameQueues, Same
    <3> QED
      BY <3>1, <3>2 DEF InDirection
  <2> QED
    BY <2>1, <2>2
<1>3. pending = [e \in Direction |-> PendingIn(e)]
  BY DEF pending, Unanswered, PendingIn, PendingOf
<1>4. pending' = [e \in Direction |-> PendingOf(requests'[e], answered'[e], moved'[e])]
  BY DEF pending, Unanswered, PendingOf
<1>5. PICK P, P2 : P = PendingIn(d) /\ P2 = PendingOf(requests'[d], answered'[d], moved'[d])
  OBVIOUS
<1>6. \A e \in Direction \ {d} : pending'[e] = pending[e]
  <2>1. \A e \in Direction \ {d} :
          requests'[e] = requests[e] /\ answered'[e] = answered[e] /\ moved'[e] = moved[e]
    BY DEF Changes, Same
  <2> QED
    BY <1>3, <1>4, <2>1 DEF PendingIn
<1>7. pending[d] = P /\ pending' = [pending EXCEPT ![d] = P2]
  <2>1. pending[d] = P /\ pending'[d] = P2
    BY <1>3, <1>4, <1>5
  <2>2. /\ pending = [e \in Direction |-> pending[e]]
        /\ pending' = [e \in Direction |-> pending'[e]]
    BY <1>3, <1>4
  <2> QED
    BY <1>6, <2>1, <2>2
<1>8. PortStep(P, P2)
  BY <1>5 DEF Changes
<1>9. [Port!Next]_pending
  <2>1. CASE P2 = P
    BY <1>3, <1>7, <2>1
  <2>2. CASE \E size \in Size \ {0} : P2 = Append(P, size)
    BY <1>7, <2>2 DEF Port!Next, Port!Request
  <2>3. CASE Moves(P, P2)
    <3>1. PICK k \in DOMAIN P : \E left \in 0 .. P[k] - 1 : P2 = [P EXCEPT ![k] = left]
      BY <2>3 DEF Moves
    <3>2. PICK left \in 0 .. P[k] - 1 : P2 = [P EXCEPT ![k] = left]
      BY <3>1
    <3>3. pending' = [pending EXCEPT ![d][k] = left]
      BY <1>7, <3>2
    <3>4. k \in DOMAIN pending[d] /\ left \in 0 .. pending[d][k] - 1
      BY <1>7
    <3> QED
      BY <3>3, <3>4 DEF Port!Next, Port!Move
  <2>4. CASE P # <<>> /\ Head(P) = 0 /\ P2 = Tail(P)
    BY <1>7, <2>4 DEF Port!Next, Port!Answer
  <2> QED
    BY <1>8, <2>1, <2>2, <2>3, <2>4, Zenon DEF PortStep
<1>10. Reads'
  BY DEF Changes
<1> QED
  BY <1>1, <1>2, <1>9, <1>10 DEF FifoInv

LEMMA SameUnchanged ==
  ASSUME NEW f, Table(f), NEW d \in Direction, NEW g, g = f
  PROVE  Same(f, g, d)
BY DEF Same

\* The names of what direction d holds.
Holds(d, sizes, an, W, B, Q, u, b, l, mv) ==
  /\ sizes = requests[d] /\ an = answered[d] /\ W = waitQueue[d] /\ B = entering[d]
  /\ Q = transferQueue[d] /\ u = usage[d] /\ b = beginTransfer[d] /\ l = leaving[d]
  /\ mv = moved[d]

LEMMA Named ==
  ASSUME FifoInv, NEW d \in Direction
  PROVE  \E sizes, an, W, B, Q, u, b, l, mv :
           /\ Holds(d, sizes, an, W, B, Q, u, b, l, mv)
           /\ Sound(d, sizes, an, W, B, Q, u, b, l, mv)
           /\ d = "read" => Reading(B, Q, l, readCompletion, counter)
<1>1. InDirection(d) /\ (d = "read" => Reads)
  BY DEF FifoInv
<1>2. Sound(d, requests[d], answered[d], waitQueue[d], entering[d], transferQueue[d],
            usage[d], beginTransfer[d], leaving[d], moved[d])
  BY <1>1 DEF InDirection
<1>3. d = "read" => Reading(entering[d], transferQueue[d], leaving[d], readCompletion, counter)
  BY <1>1 DEF Reads
<1> QED
  BY <1>2, <1>3, Zenon DEF Holds

\* Reads stay as they are in a step of the writes.
LEMMA ReadsStay ==
  ASSUME Reads, SameQueues("write"), Same(leaving, leaving', "write"),
         readCompletion' = readCompletion, counter' = counter
  PROVE  Reads'
<1>1. "read" \in Direction \ {"write"}
  BY DEF Direction
<1> QED
  BY <1>1 DEF Reads, SameQueues, Same

LEMMA RequestStep ==
  ASSUME FifoInv, NEW d \in Direction, NEW size \in Size, Request(d, size)
  PROVE  Changes(d)
<1>1. PICK sizes, an, W, B, Q, u, b, l, mv :
        /\ Holds(d, sizes, an, W, B, Q, u, b, l, mv)
        /\ Sound(d, sizes, an, W, B, Q, u, b, l, mv)
        /\ d = "read" => Reading(B, Q, l, readCompletion, counter)
  BY Named, Zenon
<1> DEFINE sizes2 == Append(sizes, size)
           mv2 == Append(mv, 0)
           entry == FIFOEntry(Len(sizes2), 0, size)
<1>2. Tables /\ Reads /\ counter \in Nat
  BY DEF FifoInv, Reads, Reading
<1>3. requests' = [requests EXCEPT ![d] = sizes2] /\ moved' = [moved EXCEPT ![d] = mv2]
  BY <1>1 DEF Request, Holds
<1>4. answered' = answered /\ leaving' = leaving /\ readCompletion' = readCompletion
  BY DEF Request
<1>5. /\ size = 0 => Sound(d, sizes2, an, W, B, Q, u, b, l, mv2)
      /\ size # 0 => Sound(d, sizes2, an, Append(W, entry), B, Q, u, b, l, mv2)
  BY <1>1, SoundRequested
<1>6. /\ PendingOf(sizes2, an, mv2) =
           IF size > 0 THEN Append(PendingOf(sizes, an, mv), size) ELSE PendingOf(sizes, an, mv)
      /\ size \in Nat
  <2>1. Accounts(sizes, an, mv)
    BY <1>1, SoundAccounts
  <2>2. size \in Nat
    BY FifoAssumption
  <2> QED
    BY <2>1, <2>2, PendingRequest
<1> HIDE DEF sizes2, mv2, entry
<1>7. Same(requests, requests', d) /\ requests'[d] = sizes2
  <2>1. Sets(requests, requests', d, sizes2)
    BY <1>2, <1>3, ExceptSets, Zenon DEF Tables
  <2> QED
    BY <2>1 DEF Sets, Same
<1>8. Same(moved, moved', d) /\ moved'[d] = mv2
  <2>1. Sets(moved, moved', d, mv2)
    BY <1>2, <1>3, ExceptSets, Zenon DEF Tables
  <2> QED
    BY <2>1 DEF Sets, Same
<1>9. /\ Same(answered, answered', d) /\ answered'[d] = an
      /\ Same(leaving, leaving', d) /\ leaving'[d] = l
  BY <1>1, <1>2, <1>4, SameUnchanged DEF Tables, Holds
<1>10. PortStep(PendingIn(d), PendingOf(requests'[d], answered'[d], moved'[d]))
  <2>1. PendingIn(d) = PendingOf(sizes, an, mv)
    BY <1>1 DEF PendingIn, Holds
  <2>2. size > 0 => size \in Size \ {0}
    BY <1>6
  <2> QED
    BY <1>6, <1>7, <1>8, <1>9, <2>1, <2>2, Zenon DEF PortStep
<1>11. /\ SameQueues(d)
       /\ Sound(d, sizes2, an, waitQueue'[d], entering'[d], transferQueue'[d], usage'[d],
                beginTransfer'[d], l, mv2)
       /\ d = "read" => Reading(entering'[d], transferQueue'[d], l, readCompletion, counter')
       /\ d # "read" => counter' = counter
  <2>1. CASE size = 0
    <3>1. UNCHANGED <<waitQueue, entering, transferQueue, usage, beginTransfer, counter>>
      BY <2>1 DEF Request
    <3>2. SameQueues(d)
      BY <1>2, <3>1, SameUnchanged DEF SameQueues, Tables
    <3> QED
      BY <1>1, <1>5, <2>1, <3>1, <3>2 DEF Holds
  <2>2. CASE size # 0
    <3>1. PICK A : A = Append(W, entry)
      OBVIOUS
    <3>2. Enter(d, A, B, Q, u)
      <4>1. requests'[d] = sizes2
        BY <1>7
      <4>2. Enter(d, Append(waitQueue[d], FIFOEntry(Len(requests'[d]), 0, size)),
                  entering[d], transferQueue[d], usage[d])
        BY <2>2 DEF Request
      <4>3. /\ A = Append(waitQueue[d], FIFOEntry(Len(requests'[d]), 0, size))
            /\ B = entering[d] /\ Q = transferQueue[d] /\ u = usage[d]
        BY <1>1, <3>1, <4>1 DEF Holds, entry
      <4> QED
        BY <4>2, <4>3 DEF Enter
    <3>3. Sound(d, sizes2, an, A, B, Q, u, beginTransfer[d], l, mv2)
      BY <1>1, <1>5, <2>2, <3>1 DEF Holds
    <3>4. PICK completed : completed = readCompletion
      OBVIOUS
    <3>5. d = "read" => Reading(B, Q, l, completed, counter)
      BY <1>1, <3>4
    <3>6. /\ SameQueues(d)
          /\ Sound(d, sizes2, an, waitQueue'[d], entering'[d], transferQueue'[d], usage'[d],
                   beginTransfer'[d], l, mv2)
          /\ d = "read" => Reading(entering'[d], transferQueue'[d], l, completed, counter')
          /\ d # "read" => counter' = counter
      BY <1>2, <3>2, <3>3, <3>5, EnterKeeps
    <3> QED
      BY <3>4, <3>6
  <2> QED
    BY <2>1, <2>2
<1>12. Reads'
  <2>1. CASE d = "read"
    BY <1>4, <1>9, <1>11, <2>1 DEF Reads
  <2>2. CASE d = "write"
    BY <1>2, <1>4, <1>9, <1>11, <2>2, ReadsStay
  <2> QED
    BY <2>1, <2>2 DEF Direction
<1> QED
  BY <1>7, <1>8, <1>9, <1>10, <1>11, <1>12 DEF Changes

LEMMA InsertWriteStep ==
  ASSUME FifoInv, insertWriteDone
  PROVE  Changes("write")
<1> DEFINE d == "write"
<1>1. d \in Direction /\ d # "read"
  BY DEF Direction
<1>2. PICK sizes, an, W, B, Q, u, b, l, mv :
        /\ Holds(d, sizes, an, W, B, Q, u, b, l, mv)
        /\ Sound(d, sizes, an, W, B, Q, u, b, l, mv)
        /\ d = "read" => Reading(B, Q, l, readCompletion, counter)
  BY <1>1, Named, Zenon
<1>3. Tables /\ Reads /\ counter \in Nat
  BY DEF FifoInv, Reads, Reading
<1>4. requests' = requests /\ answered' = answered /\ leaving' = leaving /\ moved' = moved
  BY DEF insertWriteDone
<1>5. B = TRUE
  BY <1>2 DEF insertWriteDone, Holds, Sound, Queued
<1>6. PICK A : A = Tail(W)
  OBVIOUS
<1>7. Sound(d, sizes, an, A, FALSE, Q, u, beginTransfer[d], l, mv)
  <2>1. Sound("write", sizes, an, W, B, Q, u, b, l, mv)
    BY <1>2
  <2>2. Sound("write", sizes, an, W, TRUE, Q, u, b, l, mv)
    BY <1>5, <2>1, Zenon
  <2> QED
    BY <1>2, <1>6, <2>2, SoundInserted DEF Holds
<1>8. Enter(d, A, FALSE, Q, u)
  <2>1. A = Tail(waitQueue[d]) /\ Q = transferQueue[d] /\ u = usage[d]
    BY <1>2, <1>6 DEF Holds
  <2> QED
    BY <2>1 DEF insertWriteDone, Enter
<1>9. /\ SameQueues(d) /\ counter' = counter
      /\ Sound(d, sizes, an, waitQueue'[d], entering'[d], transferQueue'[d], usage'[d],
               beginTransfer'[d], l, mv)
  <2>1. PICK completed : completed = readCompletion
    OBVIOUS
  <2> QED
    BY <1>1, <1>3, <1>7, <1>8, EnterKeeps
<1>10. /\ Same(requests, requests', d) /\ Same(answered, answered', d)
       /\ Same(leaving, leaving', d) /\ Same(moved, moved', d)
  BY <1>1, <1>3, <1>4, SameUnchanged DEF Tables
<1>11. Reads'
  <2>1. readCompletion' = readCompletion
    BY DEF insertWriteDone
  <2> QED
    BY <1>3, <1>9, <1>10, <2>1, ReadsStay
<1>12. PortStep(PendingIn(d), PendingOf(requests'[d], answered'[d], moved'[d]))
  BY <1>4 DEF PendingIn, PortStep
<1>13. /\ requests'[d] = sizes /\ answered'[d] = an /\ leaving'[d] = l /\ moved'[d] = mv
  BY <1>2, <1>4 DEF Holds
<1> QED
  BY <1>9, <1>10, <1>11, <1>12, <1>13 DEF Changes

LEMMA TransferReadStep ==
  ASSUME FifoInv, transferReadDone
  PROVE  Changes("read")
<1> DEFINE d == "read"
<1>1. d \in Direction
  BY DEF Direction
<1>2. PICK sizes, an, W, B, Q, u, b, l, mv :
        /\ Holds(d, sizes, an, W, B, Q, u, b, l, mv)
        /\ Sound(d, sizes, an, W, B, Q, u, b, l, mv)
        /\ d = "read" => Reading(B, Q, l, readCompletion, counter)
  BY <1>1, Named, Zenon
<1>3. Tables /\ counter \in Nat
  BY DEF FifoInv, Reads, Reading
<1>4. B = TRUE
  BY <1>2 DEF transferReadDone, Holds, Sound, Queued
<1>5. PICK entry, A, l2, completed, c :
        /\ entry = Head(W) /\ A = Tail(W) /\ l2 = leaving'[d] /\ completed = readCompletion'
        /\ c = counter
  OBVIOUS
<1> DEFINE mv2 == [mv EXCEPT ![entry.req] = @ + entry.size]
<1>6. requests' = requests /\ answered' = answered
  BY DEF transferReadDone
<1>7. moved' = [moved EXCEPT ![d] = mv2]
  BY <1>2, <1>5 DEF transferReadDone, MovedBy, Holds
<1>8. Same(leaving, leaving', d) /\ (l2 = l \/ (l = "waiting" /\ l2 = "submit"))
  <2>1. CASE leaving' = [leaving EXCEPT ![d] = "submit"] /\ leaving[d] = "waiting"
    <3>1. Sets(leaving, leaving', d, "submit")
      BY <1>1, <1>3, <2>1, ExceptSets, Zenon DEF Tables
    <3> QED
      BY <1>2, <1>5, <2>1, <3>1 DEF Sets, Same, Holds
  <2>2. CASE leaving' = leaving
    BY <1>1, <1>2, <1>3, <1>5, <2>2, SameUnchanged DEF Tables, Holds
  <2> QED
    BY <2>1, <2>2 DEF transferReadDone
<1>9. completed = readCompletion \/ completed = readCompletion \cup {entry.id}
  BY <1>2, <1>5 DEF transferReadDone, Holds
<1>10. entry = Q[Len(Q)]
  <2>1. W \in Seq(Entry) /\ W # <<>> /\ W[1] = Q[Len(Q)]
    BY <1>2, <1>4 DEF Sound, Queued
  <2> QED
    BY <1>5, <2>1, HeadTailProperties
<1>11. Reading(FALSE, Q, l2, completed, c)
  <2>1. Reading(B, Q, l, readCompletion, c)
    BY <1>2, <1>5
  <2> QED
    BY <1>4, <1>9, <1>10, <2>1 DEF Reading
<1>12. Sound("read", sizes, an, W, TRUE, Q, u, b, l, mv)
  <2>1. Sound("read", sizes, an, W, B, Q, u, b, l, mv)
    BY <1>2
  <2> QED
    BY <1>4, <2>1, Zenon
<1>13. /\ entry.size \in Nat \ {0} /\ mv[entry.req] \in Nat
       /\ mv[entry.req] + entry.size <= sizes[entry.req]
       /\ \E k \in Len(an) + 1 .. Len(Real(sizes)) : Real(sizes)[k] = entry.req
       /\ Sound("read", sizes, an, A, FALSE, Q, u, b, l2, mv2)
  <2>1. /\ l2 = l \/ (l = "waiting" /\ l2 = "submit")
        /\ entry = Head(W) /\ A = Tail(W)
    BY <1>5, <1>8
  <2> QED
    BY <1>12, <2>1, SoundRead, ZenonT(30)
<1>14. Moves(PendingOf(sizes, an, mv), PendingOf(sizes, an, mv2))
  <2>1. Accounts(sizes, an, mv)
    BY <1>1, <1>2, SoundAccounts
  <2> QED
    BY <1>13, <2>1, PendingMoves
<1> HIDE DEF mv2
<1>15. Same(moved, moved', d) /\ moved'[d] = mv2
  <2>1. Sets(moved, moved', d, mv2)
    BY <1>1, <1>3, <1>7, ExceptSets, Zenon DEF Tables
  <2> QED
    BY <2>1 DEF Sets, Same
<1>16. Enter(d, A, FALSE, Q, u)
  <2>1. A = Tail(waitQueue[d]) /\ Q = transferQueue[d] /\ u = usage[d]
    BY <1>2, <1>5 DEF Holds
  <2> QED
    BY <2>1 DEF transferReadDone, Enter
<1>17. /\ SameQueues(d)
       /\ Sound(d, sizes, an, waitQueue'[d], entering'[d], transferQueue'[d], usage'[d],
                beginTransfer'[d], l2, mv2)
       /\ Reading(entering'[d], transferQueue'[d], l2, completed, counter')
  <2>1. Sound(d, sizes, an, A, FALSE, Q, u, beginTransfer[d], l2, mv2)
    BY <1>2, <1>13 DEF Holds
  <2>2. d = "read" => Reading(FALSE, Q, l2, completed, counter)
    BY <1>5, <1>11
  <2> QED
    BY <1>1, <1>3, <1>16, <2>1, <2>2, EnterKeeps
<1>18. /\ Same(requests, requests', d) /\ requests'[d] = sizes
       /\ Same(answered, answered', d) /\ answered'[d] = an
  BY <1>1, <1>2, <1>3, <1>6, SameUnchanged DEF Tables, Holds
<1>19. Reads'
  BY <1>5, <1>17 DEF Reads
<1>20. PortStep(PendingIn(d), PendingOf(requests'[d], answered'[d], moved'[d]))
  <2>1. PendingIn(d) = PendingOf(sizes, an, mv)
    BY <1>2 DEF PendingIn, Holds
  <2> QED
    BY <1>14, <1>15, <1>18, <2>1, Zenon DEF PortStep
<1> QED
  BY <1>5, <1>8, <1>15, <1>17, <1>18, <1>19, <1>20 DEF Changes

LEMMA BeginTransferStep ==
  ASSUME FifoInv, NEW d \in Direction, BeginTransfer(d)
  PROVE  Changes(d)
<1>1. PICK sizes, an, W, B, Q, u, b, l, mv :
        /\ Holds(d, sizes, an, W, B, Q, u, b, l, mv)
        /\ Sound(d, sizes, an, W, B, Q, u, b, l, mv)
        /\ d = "read" => Reading(B, Q, l, readCompletion, counter)
  BY Named, Zenon
<1>2. Tables /\ Reads
  BY DEF FifoInv
<1> DEFINE l2 == IF l = "idle" THEN "busy" ELSE l
<1>3. /\ beginTransfer' = [beginTransfer EXCEPT ![d] = FALSE]
      /\ leaving' = [leaving EXCEPT ![d] = l2]
      /\ UNCHANGED <<requests, answered, waitQueue, entering, transferQueue, usage,
                     readCompletion, counter, moved>>
  BY <1>1 DEF BeginTransfer, Holds
<1>4. b = TRUE
  BY <1>1 DEF BeginTransfer, Holds, Sound, Started
<1>5. Sound(d, sizes, an, W, B, Q, u, FALSE, l2, mv)
  <2>1. Started(Q, FALSE, l2) /\ Gone(d, B, Q, l2) = Gone(d, B, Q, l)
    BY <1>1, <1>4 DEF Sound, Started, Gone
  <2> HIDE DEF l2
  <2> QED
    BY <1>1, <2>1 DEF Sound
<1>6. d = "read" => Reading(B, Q, l2, readCompletion, counter)
  BY <1>1 DEF Reading
<1> HIDE DEF l2
<1>7. Same(beginTransfer, beginTransfer', d) /\ beginTransfer'[d] = FALSE
  <2>1. Sets(beginTransfer, beginTransfer', d, FALSE)
    BY <1>2, <1>3, ExceptSets, Zenon DEF Tables
  <2> QED
    BY <2>1 DEF Sets, Same
<1>8. Same(leaving, leaving', d) /\ leaving'[d] = l2
  <2>1. Sets(leaving, leaving', d, l2)
    BY <1>2, <1>3, ExceptSets, Zenon DEF Tables
  <2> QED
    BY <2>1 DEF Sets, Same
<1>9. /\ Same(waitQueue, waitQueue', d) /\ Same(entering, entering', d)
      /\ Same(transferQueue, transferQueue', d) /\ Same(usage, usage', d)
      /\ Same(requests, requests', d) /\ Same(answered, answered', d)
      /\ Same(moved, moved', d)
  BY <1>2, <1>3, SameUnchanged DEF Tables
<1>10. /\ requests'[d] = sizes /\ answered'[d] = an /\ waitQueue'[d] = W
       /\ entering'[d] = B /\ transferQueue'[d] = Q /\ usage'[d] = u /\ moved'[d] = mv
  BY <1>1, <1>3 DEF Holds
<1>11. SameQueues(d)
  BY <1>7, <1>9 DEF SameQueues
<1>12. Reads'
  <2>1. CASE d = "read"
    BY <1>3, <1>6, <1>8, <1>10, <2>1 DEF Reads
  <2>2. CASE d = "write"
    BY <1>2, <1>3, <1>8, <1>11, <2>2, ReadsStay
  <2> QED
    BY <2>1, <2>2 DEF Direction
<1>13. PortStep(PendingIn(d), PendingOf(requests'[d], answered'[d], moved'[d]))
  BY <1>3 DEF PendingIn, PortStep
<1> QED
  BY <1>5, <1>7, <1>8, <1>9, <1>10, <1>11, <1>12, <1>13 DEF Changes

LEMMA TransferWriteStep ==
  ASSUME FifoInv, transferWriteDone
  PROVE  Changes("write")
<1> DEFINE d == "write"
<1>1. d \in Direction /\ d # "read"
  BY DEF Direction
<1>2. PICK sizes, an, W, B, Q, u, b, l, mv :
        /\ Holds(d, sizes, an, W, B, Q, u, b, l, mv)
        /\ Sound(d, sizes, an, W, B, Q, u, b, l, mv)
        /\ d = "read" => Reading(B, Q, l, readCompletion, counter)
  BY <1>1, Named, Zenon
<1>3. Tables /\ Reads
  BY DEF FifoInv
<1>4. /\ UNCHANGED <<requests, answered, waitQueue, entering, transferQueue, usage,
                     beginTransfer, readCompletion, counter>>
      /\ leaving' = [leaving EXCEPT ![d] = "submit"] /\ l = "busy"
  BY <1>2 DEF transferWriteDone, Holds
<1>5. PICK entry : entry = Head(Q)
  OBVIOUS
<1> DEFINE mv2 == [mv EXCEPT ![entry.req] = @ + entry.size]
<1>6. moved' = [moved EXCEPT ![d] = mv2]
  BY <1>2, <1>5 DEF transferWriteDone, MovedBy, Holds
<1>7. Sound("write", sizes, an, W, B, Q, u, b, "busy", mv)
  BY <1>2, <1>4
<1>8. /\ entry.size \in Nat \ {0} /\ mv[entry.req] \in Nat
      /\ mv[entry.req] + entry.size <= sizes[entry.req]
      /\ \E k \in Len(an) + 1 .. Len(Real(sizes)) : Real(sizes)[k] = entry.req
      /\ Sound("write", sizes, an, W, B, Q, u, b, "submit", mv2)
  BY <1>5, <1>7, SoundMoved
<1>9. Moves(PendingOf(sizes, an, mv), PendingOf(sizes, an, mv2))
  <2>1. Accounts(sizes, an, mv)
    BY <1>1, <1>2, SoundAccounts
  <2> QED
    BY <1>8, <2>1, PendingMoves
<1> HIDE DEF mv2
<1>10. Same(moved, moved', d) /\ moved'[d] = mv2
  <2>1. Sets(moved, moved', d, mv2)
    BY <1>1, <1>3, <1>6, ExceptSets, Zenon DEF Tables
  <2> QED
    BY <2>1 DEF Sets, Same
<1>11. Same(leaving, leaving', d) /\ leaving'[d] = "submit"
  <2>1. Sets(leaving, leaving', d, "submit")
    BY <1>1, <1>3, <1>4, ExceptSets, Zenon DEF Tables
  <2> QED
    BY <2>1 DEF Sets, Same
<1>12. /\ Same(waitQueue, waitQueue', d) /\ Same(entering, entering', d)
       /\ Same(transferQueue, transferQueue', d) /\ Same(usage, usage', d)
       /\ Same(requests, requests', d) /\ Same(answered, answered', d)
       /\ Same(beginTransfer, beginTransfer', d)
  BY <1>1, <1>3, <1>4, SameUnchanged DEF Tables
<1>13. /\ requests'[d] = sizes /\ answered'[d] = an /\ waitQueue'[d] = W
       /\ entering'[d] = B /\ transferQueue'[d] = Q /\ usage'[d] = u
       /\ beginTransfer'[d] = b
  BY <1>2, <1>4 DEF Holds
<1>14. SameQueues(d)
  BY <1>12 DEF SameQueues
<1>15. Reads'
  BY <1>3, <1>4, <1>11, <1>14, ReadsStay
<1>16. PortStep(PendingIn(d), PendingOf(requests'[d], answered'[d], moved'[d]))
  <2>1. PendingIn(d) = PendingOf(sizes, an, mv)
    BY <1>2 DEF PendingIn, Holds
  <2> QED
    BY <1>9, <1>10, <1>13, <2>1, Zenon DEF PortStep
<1> QED
  BY <1>8, <1>10, <1>11, <1>12, <1>13, <1>14, <1>15, <1>16 DEF Changes

LEMMA InsertReadStep ==
  ASSUME FifoInv, insertReadDone
  PROVE  Changes("read")
<1> DEFINE d == "read"
<1>1. d \in Direction
  BY DEF Direction
<1>2. PICK sizes, an, W, B, Q, u, b, l, mv :
        /\ Holds(d, sizes, an, W, B, Q, u, b, l, mv)
        /\ Sound(d, sizes, an, W, B, Q, u, b, l, mv)
        /\ d = "read" => Reading(B, Q, l, readCompletion, counter)
  BY <1>1, Named, Zenon
<1>3. Tables
  BY DEF FifoInv
<1>4. PICK id, l2, completed :
        /\ id = Head(Q).id /\ completed = readCompletion
        /\ l2 = IF id \in completed THEN "submit" ELSE "waiting"
  OBVIOUS
<1>5. /\ UNCHANGED <<requests, answered, waitQueue, entering, transferQueue, usage,
                     beginTransfer, counter, moved>>
      /\ leaving' = [leaving EXCEPT ![d] = l2] /\ l = "busy"
      /\ readCompletion' = completed \ {id}
  BY <1>2, <1>4 DEF insertReadDone, Holds
<1>6. Started(Q, b, l) /\ Q \in Seq(Entry)
  BY <1>2 DEF Sound, Queued
<1>7. Len(Q) \in Nat \ {0} /\ Head(Q) = Q[1]
  BY <1>5, <1>6, EmptySeq, HeadTailProperties DEF Started
<1>8. Sound(d, sizes, an, W, B, Q, u, b, l2, mv)
  <2>1. Started(Q, b, l2) /\ Gone(d, B, Q, l2) = Gone(d, B, Q, l)
    BY <1>4, <1>5, <1>6 DEF Started, Gone
  <2> QED
    BY <1>2, <2>1 DEF Sound
<1>9. Reading(B, Q, l2, completed \ {id}, counter)
  <2>1. Reading(B, Q, l, completed, counter)
    BY <1>2, <1>4
  <2>2. B /\ l2 = "submit" => Len(Q) # 1
    BY <1>4, <1>7, <2>1 DEF Reading
  <2>3. B /\ l2 = "submit" => Len(Q) > 1
    BY <1>7, <2>2
  <2> QED
    BY <2>1, <2>3 DEF Reading
<1>10. Same(leaving, leaving', d) /\ leaving'[d] = l2
  <2>1. Sets(leaving, leaving', d, l2)
    BY <1>1, <1>3, <1>5, ExceptSets, Zenon DEF Tables
  <2> QED
    BY <2>1 DEF Sets, Same
<1>11. /\ Same(waitQueue, waitQueue', d) /\ Same(entering, entering', d)
       /\ Same(transferQueue, transferQueue', d) /\ Same(usage, usage', d)
       /\ Same(requests, requests', d) /\ Same(answered, answered', d)
       /\ Same(beginTransfer, beginTransfer', d) /\ Same(moved, moved', d)
  BY <1>1, <1>3, <1>5, SameUnchanged DEF Tables
<1>12. /\ requests'[d] = sizes /\ answered'[d] = an /\ waitQueue'[d] = W
       /\ entering'[d] = B /\ transferQueue'[d] = Q /\ usage'[d] = u
       /\ beginTransfer'[d] = b /\ moved'[d] = mv
  BY <1>2, <1>5 DEF Holds
<1>13. SameQueues(d)
  BY <1>11 DEF SameQueues
<1>14. Reads'
  BY <1>5, <1>9, <1>10, <1>12 DEF Reads
<1>15. PortStep(PendingIn(d), PendingOf(requests'[d], answered'[d], moved'[d]))
  BY <1>5 DEF PendingIn, PortStep
<1> QED
  BY <1>8, <1>10, <1>11, <1>12, <1>13, <1>14, <1>15 DEF Changes

LEMMA DoneNextStep ==
  ASSUME FifoInv, NEW d \in Direction, DoneNext(d)
  PROVE  Changes(d)
<1>1. PICK sizes, an, W, B, Q, u, b, l, mv :
        /\ Holds(d, sizes, an, W, B, Q, u, b, l, mv)
        /\ Sound(d, sizes, an, W, B, Q, u, b, l, mv)
        /\ d = "read" => Reading(B, Q, l, readCompletion, counter)
  BY Named, Zenon
<1>2. Tables /\ Reads /\ counter \in Nat
  BY DEF FifoInv, Reads, Reading
<1>3. PICK entry, rest, an2, l2, left, completed :
        /\ entry = Head(Q) /\ rest = Tail(Q)
        /\ an2 = (IF entry.last THEN Append(an, entry.req) ELSE an)
        /\ l2 = (IF rest # <<>> /\ ~b THEN "busy" ELSE "idle")
        /\ left = u - calcSize(entry.size) /\ completed = readCompletion
  OBVIOUS
<1>4. /\ requests' = requests /\ moved' = moved /\ readCompletion' = completed
      /\ l = "submit" /\ leaving' = [leaving EXCEPT ![d] = l2]
      /\ Enter(d, W, B, rest, left)
  BY <1>1, <1>3 DEF DoneNext, Holds, BeginsNext, Released, Enter
<1>5. B => Len(Q) > 1
  <2>1. CASE d = "read"
    BY <1>1, <1>4, <2>1 DEF Reading
  <2>2. CASE d = "write"
    BY <1>1, <2>2 DEF DoneNext, Inside, Holds
  <2> QED
    BY <2>1, <2>2 DEF Direction
<1>6. Sound(d, sizes, an, W, B, Q, u, b, "submit", mv)
  BY <1>1, <1>4
<1>7. /\ Sound(d, sizes, an2, W, B, rest, left, b, l2, mv)
      /\ B => rest[Len(rest)] = Q[Len(Q)]
      /\ entry.last =>
           /\ an2 = Append(an, entry.req) /\ Len(an) < Len(Real(sizes))
           /\ mv[Real(sizes)[Len(an) + 1]] = sizes[Real(sizes)[Len(an) + 1]]
  <2>1. Leaves(an, B, Q, b, entry, rest, an2, l2)
    BY <1>3, <1>5 DEF Leaves
  <2>2. /\ Sound(d, sizes, an2, W, B, rest, u - calcSize(entry.size), b, l2, mv)
        /\ B => rest[Len(rest)] = Q[Len(Q)]
        /\ entry.last =>
             /\ an2 = Append(an, entry.req) /\ Len(an) < Len(Real(sizes))
             /\ mv[Real(sizes)[Len(an) + 1]] = sizes[Real(sizes)[Len(an) + 1]]
    BY <1>6, <2>1, SoundLeft
  <2>3. left = u - calcSize(entry.size)
    BY <1>3
  <2> QED
    BY <2>2, <2>3, Zenon
<1>8. d = "read" => Reading(B, rest, l2, completed, counter)
  BY <1>1, <1>3, <1>7 DEF Reading
<1>9. Same(answered, answered', d) /\ answered'[d] = an2
  <2>1. CASE entry.last
    <3>1. answered' = [answered EXCEPT ![d] = an2]
      BY <1>1, <1>3, <2>1 DEF DoneNext, Holds, Answers
    <3>2. Sets(answered, answered', d, an2)
      BY <1>2, <3>1, ExceptSets, Zenon DEF Tables
    <3> QED
      BY <3>2 DEF Sets, Same
  <2>2. CASE ~entry.last
    <3>1. answered' = answered /\ an2 = an
      BY <1>1, <1>3, <2>2 DEF DoneNext, Holds, Answers
    <3> QED
      BY <1>1, <1>2, <3>1, SameUnchanged DEF Tables, Holds
  <2> QED
    BY <2>1, <2>2
<1>10. Same(leaving, leaving', d) /\ leaving'[d] = l2
  <2>1. Sets(leaving, leaving', d, l2)
    BY <1>2, <1>4, ExceptSets, Zenon DEF Tables
  <2> QED
    BY <2>1 DEF Sets, Same
<1>11. /\ Same(requests, requests', d) /\ requests'[d] = sizes
       /\ Same(moved, moved', d) /\ moved'[d] = mv
  BY <1>1, <1>2, <1>4, SameUnchanged DEF Tables, Holds
<1>12. /\ SameQueues(d)
       /\ Sound(d, sizes, an2, waitQueue'[d], entering'[d], transferQueue'[d], usage'[d],
                beginTransfer'[d], l2, mv)
       /\ d = "read" => Reading(entering'[d], transferQueue'[d], l2, completed, counter')
       /\ d # "read" => counter' = counter
  <2>1. Sound(d, sizes, an2, W, B, rest, left, beginTransfer[d], l2, mv)
    BY <1>1, <1>7 DEF Holds
  <2> QED
    BY <1>2, <1>4, <1>8, <2>1, EnterKeeps
<1>13. Reads'
  <2>1. CASE d = "read"
    BY <1>4, <1>10, <1>12, <2>1 DEF Reads
  <2>2. CASE d = "write"
    BY <1>2, <1>3, <1>4, <1>10, <1>12, <2>2, ReadsStay
  <2> QED
    BY <2>1, <2>2 DEF Direction
<1>14. PortStep(PendingIn(d), PendingOf(requests'[d], answered'[d], moved'[d]))
  <2>1. PendingIn(d) = PendingOf(sizes, an, mv)
    BY <1>1 DEF PendingIn, Holds
  <2>2. CASE entry.last
    <3>1. an2 = Append(an, entry.req)
      BY <1>7, <2>2
    <3>2. Accounts(sizes, an, mv) /\ Accounts(sizes, Append(an, entry.req), mv)
      BY <1>6, <1>7, <3>1, SoundAccounts
    <3>3. PICK x : x = entry.req
      OBVIOUS
    <3>4. LET P == PendingOf(sizes, an, mv)
          IN  P # <<>> /\ Head(P) = 0 /\ PendingOf(sizes, Append(an, x), mv) = Tail(P)
      BY <1>7, <2>2, <3>2, <3>3, PendingAnswered
    <3> QED
      BY <1>9, <1>11, <2>1, <3>1, <3>3, <3>4, Zenon DEF PortStep
  <2>3. CASE ~entry.last
    <3>1. an2 = an
      BY <1>3, <2>3
    <3> QED
      BY <1>9, <1>11, <2>1, <3>1, Zenon DEF PortStep
  <2> QED
    BY <2>2, <2>3
<1> QED
  BY <1>9, <1>10, <1>11, <1>12, <1>13, <1>14 DEF Changes

LEMMA EmptySound ==
  ASSUME NEW d \in Direction
  PROVE  /\ Sound(d, <<>>, <<>>, <<>>, FALSE, <<>>, 0, FALSE, "idle", <<>>)
         /\ PendingOf(<<>>, <<>>, <<>>) = <<>>
<1> DEFINE none == <<>>
<1>1. /\ none \in Seq(Entry) /\ none \in Seq(Nat) /\ none \in Seq(Size) /\ Len(none) = 0
      /\ none \o none = none
  BY EmptySeq
<1>2. \A i : i \notin 1 .. 0
  OBVIOUS
<1>3. Real(none) = none
  <2>1. OfSomeSize(Real(none), none)
    BY <1>1, RealOfSomeSize
  <2>2. Real(none) \in Seq(Nat) /\ \A k \in 1 .. Len(Real(none)) : FALSE
    BY <1>1, <1>2, <2>1 DEF OfSomeSize
  <2>3. Len(Real(none)) \in Nat
    BY <2>2, LenProperties
  <2>4. ~(1 <= Len(Real(none)))
    BY <2>2, <2>3
  <2> QED
    BY <2>2, <2>3, <2>4, EmptySeq
<1> HIDE DEF none
<1>4. OfSomeSize(none, none)
  BY <1>1, <1>2 DEF OfSomeSize
<1>5. Pieces(none, 0, 0, none, none, none)
  <2> DEFINE K == [i \in 1 .. 0 |-> 1]
  <2>1. K \in [1 .. Len(none) -> 0 + 1 .. Len(none)]
    BY <1>1, <1>2
  <2> HIDE DEF K
  <2>2. Placed(none, K, 0, none, none)
    BY <1>1, <1>2, <2>1 DEF Placed, none
  <2>3. MovedTo(Len(none) + 1, 0, 0, none, none, none)
    BY <1>1, <1>2 DEF MovedTo
  <2>4. InPieces(none, K, 0, 0, none, none, none)
    BY <1>1, <1>4, <2>2, <2>3 DEF InPieces
  <2> QED
    BY <2>4, Zenon DEF Pieces
<1>6. Stream(none, FALSE, none) = none
  BY <1>1 DEF Stream
<1>7. Space(none) = 0
  BY EmptySpace DEF none
<1>8. Gone(d, FALSE, none, "idle") = 0
  BY <1>1 DEF Gone
<1>9. Queued(d, none, FALSE, none, 0, 0, 0, none, none, none)
  <2>1. \A i \in 1 .. Len(none) : none[i].last \/ (FALSE /\ i = 1)
    BY <1>1, <1>2
  <2>2. FALSE \in BOOLEAN /\ 0 <= Len(none)
    BY <1>1
  <2>3. Pieces(Stream(none, FALSE, none), 0, 0, none, none, none)
    BY <1>5, <1>6
  <2> QED
    BY <1>1, <1>7, <2>1, <2>2, <2>3, Zenon DEF Queued
<1>10. Prefix(none, none)
  BY <1>1, <1>2 DEF Prefix
<1>11. Started(none, FALSE, "idle")
  BY DEF Started
<1>12. Sound(d, none, none, none, FALSE, none, 0, FALSE, "idle", none)
  BY <1>1, <1>3, <1>8, <1>9, <1>10, <1>11 DEF Sound
<1>13. PendingOf(none, none, none) = none
  <2>1. Accounts(none, none, none)
    BY <1>1, <1>3, <1>10 DEF Accounts
  <2>2. Shows(PendingOf(none, none, none), none, 0, none)
    BY <1>1, <2>1, PendingShows
  <2>3. PendingOf(none, none, none) \in Seq(Int) /\ Len(PendingOf(none, none, none)) = 0
    BY <1>1, <1>3, <2>2 DEF Shows
  <2> QED
    BY <2>3, EmptySeq DEF none
<1> QED
  BY <1>12, <1>13 DEF none

LEMMA InitSound ==
  ASSUME Init
  PROVE  FifoInv /\ Port!Init
<1>1. ASSUME NEW d \in Direction
      PROVE  /\ requests[d] = <<>> /\ answered[d] = <<>> /\ waitQueue[d] = <<>>
             /\ entering[d] = FALSE /\ transferQueue[d] = <<>> /\ usage[d] = 0
             /\ beginTransfer[d] = FALSE /\ leaving[d] = "idle" /\ moved[d] = <<>>
  BY DEF Init
<1>2. Tables
  BY DEF Init, Tables, Table
<1>3. \A d \in Direction : InDirection(d)
  BY <1>1, EmptySound DEF InDirection
<1>4. Reads
  <2>1. "read" \in Direction
    BY DEF Direction
  <2> QED
    BY <1>1, <2>1 DEF Init, Reads, Reading
<1>5. pending = [d \in Direction |-> PendingOf(requests[d], answered[d], moved[d])]
  BY DEF pending, Unanswered, PendingOf
<1>6. \A d \in Direction : PendingOf(requests[d], answered[d], moved[d]) = <<>>
  BY <1>1, EmptySound
<1> QED
  BY <1>2, <1>3, <1>4, <1>5, <1>6 DEF FifoInv, Port!Init

LEMMA FifoStep ==
  ASSUME FifoInv, [Next]_vars
  PROVE  FifoInv' /\ [Port!Next]_pending
<1>1. CASE UNCHANGED vars
  <2>1. pending' = pending
    BY <1>1 DEF vars, pending, Unanswered
  <2>2. FifoInv'
    BY <1>1 DEF vars, FifoInv, Tables, Table, InDirection, Reads
  <2> QED
    BY <2>1, <2>2
<1>2. CASE Next
  <2>1. \E d \in Direction : Changes(d)
    <3>1. "write" \in Direction /\ "read" \in Direction
      BY DEF Direction
    <3>2. CASE insertWriteDone
      BY <3>1, <3>2, InsertWriteStep
    <3>3. CASE transferReadDone
      BY <3>1, <3>3, TransferReadStep
    <3>4. CASE \E d \in Direction : BeginTransfer(d)
      BY <3>4, BeginTransferStep
    <3>5. CASE transferWriteDone
      BY <3>1, <3>5, TransferWriteStep
    <3>6. CASE insertReadDone
      BY <3>1, <3>6, InsertReadStep
    <3>7. CASE \E d \in Direction : DoneNext(d)
      BY <3>7, DoneNextStep
    <3>8. CASE \E d \in Direction, size \in Size : Request(d, size)
      BY <3>8, RequestStep
    <3> QED
      BY <1>2, <3>2, <3>3, <3>4, <3>5, <3>6, <3>7, <3>8 DEF Next, Event
  <2> QED
    BY <2>1, DirectionStep
<1> QED
  BY <1>1, <1>2

\* In each direction the entries that wait and those inside are, one after the
\* other, the pieces of the requests that are not answered, whatever was split and
\* in whatever order insertWriteDone(), transferReadDone() and the ends of the
\* second stage came.
THEOREM FifoAlwaysSound == Spec => []FifoInv
<1>1. Init => FifoInv
  BY InitSound
<1>2. FifoInv /\ [Next]_vars => FifoInv'
  BY FifoStep
<1> QED
  BY <1>1, <1>2, PTL DEF Spec

\* The bound on the requests of a behaviour.
Within == Len(requests["write"]) + Len(requests["read"]) <= MaxRequests

\* Every queue and counter has its type, and the events, which take front() of a
\* queue unchecked, find an entry in it.
THEOREM FifoTypeCorrect == Spec => []TypeOK
<1>1. Init => Within
  BY FifoAssumption, EmptySeq DEF Init, Within, Direction
<1>2. ASSUME FifoInv, Within, [Next]_vars PROVE Within'
  <2>1. CASE requests' = requests
    BY <1>2, <2>1 DEF Within
  <2>2. ASSUME NEW d \in Direction, NEW size \in Size, Request(d, size) PROVE Within'
    <3>1. \A e \in Direction : requests[e] \in Seq(Size)
      BY <1>2 DEF FifoInv, InDirection, Sound
    <3>2. "write" \in Direction /\ "read" \in Direction /\ (d = "write" \/ d = "read")
      BY DEF Direction
    <3>3. /\ Table(requests) /\ requests' = [requests EXCEPT ![d] = Append(requests[d], size)]
          /\ Len(requests["write"]) + Len(requests["read"]) < MaxRequests
      BY <1>2, <2>2 DEF FifoInv, Tables, Request
    <3>4. PICK longer : longer = Append(requests[d], size)
      OBVIOUS
    <3>5. Len(longer) = Len(requests[d]) + 1
      BY <3>1, <3>4, AppendProperties
    <3>6. Sets(requests, requests', d, longer)
      BY <3>3, <3>4, ExceptSets, Zenon
    <3>7. \A e \in Direction : Len(requests[e]) \in Nat
      BY <3>1, LenProperties
    <3>8. /\ Len(requests["write"]) \in Nat /\ Len(requests["read"]) \in Nat
          /\ MaxRequests \in Nat
          /\ Len(requests["write"]) + Len(requests["read"]) < MaxRequests
      BY <3>2, <3>3, <3>7, FifoAssumption
    <3>9. CASE d = "write"
      <4>1. requests'["write"] = longer /\ requests'["read"] = requests["read"]
        BY <3>2, <3>6, <3>9 DEF Sets
      <4>2. Len(longer) = Len(requests["write"]) + 1
        BY <3>5, <3>9
      <4>3. PICK x, y : x = Len(requests["write"]) /\ y = Len(requests["read"])
        OBVIOUS
      <4>4. PICK w, r : w = requests'["write"] /\ r = requests'["read"]
        OBVIOUS
      <4>5. Len(w) = x + 1 /\ Len(r) = y
        BY <4>1, <4>2, <4>3, <4>4
      <4>6. Len(w) + Len(r) <= MaxRequests
        <5>1. x \in Nat /\ y \in Nat /\ MaxRequests \in Nat /\ x + y < MaxRequests
          BY <3>8, <4>3
        <5> QED
          BY <4>5, <5>1
      <4> QED
        BY <4>4, <4>6, Zenon DEF Within
    <3>10. CASE d = "read"
      <4>1. requests'["read"] = longer /\ requests'["write"] = requests["write"]
        BY <3>2, <3>6, <3>10 DEF Sets
      <4>2. Len(longer) = Len(requests["read"]) + 1
        BY <3>5, <3>10
      <4>3. PICK x, y : x = Len(requests["write"]) /\ y = Len(requests["read"])
        OBVIOUS
      <4>4. PICK w, r : w = requests'["write"] /\ r = requests'["read"]
        OBVIOUS
      <4>5. Len(w) = x /\ Len(r) = y + 1
        BY <4>1, <4>2, <4>3, <4>4
      <4>6. Len(w) + Len(r) <= MaxRequests
        <5>1. x \in Nat /\ y \in Nat /\ MaxRequests \in Nat /\ x + y < MaxRequests
          BY <3>8, <4>3
        <5> QED
          BY <4>5, <5>1
      <4> QED
        BY <4>4, <4>6, Zenon DEF Within
    <3> QED
      BY <3>2, <3>9, <3>10
  <2>3. requests' = requests \/ \E d \in Direction, size \in Size : Request(d, size)
    BY <1>2 DEF Next, Event, vars, insertWriteDone, transferReadDone, BeginTransfer,
                transferWriteDone, insertReadDone, DoneNext
  <2> QED
    BY <2>1, <2>2, <2>3
<1>3. ASSUME FifoInv, Within PROVE TypeOK
  <2> SUFFICES ASSUME NEW d \in Direction
               PROVE  /\ requests[d] \in Seq(Size) /\ Len(moved[d]) = Len(requests[d])
                      /\ answered[d] \in Seq(1 .. MaxRequests)
                      /\ usage[d] \in Nat
                      /\ leaving[d] \in {"idle", "busy", "waiting", "submit"}
                      /\ entering[d] => waitQueue[d] # <<>>
                      /\ beginTransfer[d] \/ leaving[d] # "idle" => transferQueue[d] # <<>>
                      /\ counter \in Nat /\ readCompletion \subseteq 0 .. counter - 1
    BY DEF TypeOK
  <2>1. PICK sizes, an, W, B, Q, u, b, l, mv :
          /\ Holds(d, sizes, an, W, B, Q, u, b, l, mv)
          /\ Sound(d, sizes, an, W, B, Q, u, b, l, mv)
          /\ d = "read" => Reading(B, Q, l, readCompletion, counter)
    BY <1>3, Named, Zenon
  <2>2. counter \in Nat /\ readCompletion \subseteq 0 .. counter - 1
    BY <1>3 DEF FifoInv, Reads, Reading
  <2>3. sizes \in Seq(Size) /\ Accounts(sizes, an, mv)
    BY <2>1, SoundAccounts DEF Sound
  <2>4. /\ l \in {"idle", "busy", "waiting", "submit"}
        /\ B => W # <<>>
        /\ b \/ l # "idle" => Q # <<>>
    BY <2>1 DEF Sound, Started, Queued
  <2>5. u \in Nat
    <3>1. Q \in Seq(Entry) /\ u = Space(Q)
      BY <2>1 DEF Sound, Queued
    <3>2. PICK f \in [0 .. Len(Q) -> Nat] : Space(Q) = f[Len(Q)]
      BY <3>1, SpaceInSteps
    <3>3. Len(Q) \in 0 .. Len(Q)
      BY <3>1, LenProperties
    <3> QED
      BY <3>1, <3>2, <3>3
  <2>6. an \in Seq(1 .. MaxRequests)
    <3>1. Len(sizes) \in Nat /\ Len(sizes) <= MaxRequests
      <4>1. /\ Len(requests["write"]) \in Nat /\ Len(requests["read"]) \in Nat
            /\ (d = "write" \/ d = "read")
        <5>1. \A e \in Direction : requests[e] \in Seq(Size)
          BY <1>3 DEF FifoInv, InDirection, Sound
        <5> QED
          BY <5>1, LenProperties DEF Direction
      <4>2. Len(sizes) = Len(requests[d])
        BY <2>1 DEF Holds
      <4>3. Len(requests["write"]) + Len(requests["read"]) <= MaxRequests /\ MaxRequests \in Nat
        BY <1>3, FifoAssumption DEF Within
      <4>4. \A x, y, z \in Nat : x + y <= z => x <= z /\ y <= z
        OBVIOUS
      <4> QED
        BY <4>1, <4>2, <4>3, <4>4
    <3>2. OfSomeSize(Real(sizes), sizes) /\ Prefix(an, Real(sizes))
      BY <2>3, RealOfSomeSize DEF Accounts
    <3>3. PICK real : real = Real(sizes)
      OBVIOUS
    <3>4. Len(an) \in Nat /\ Len(real) \in Nat /\ Len(an) <= Len(real) /\ an \in Seq(Nat)
      BY <3>2, <3>3, LenProperties DEF Prefix, OfSomeSize
    <3>5. \A k \in 1 .. Len(an) : an[k] = real[k] /\ k \in 1 .. Len(real)
      BY <3>2, <3>3, <3>4 DEF Prefix
    <3>6. \A k \in 1 .. Len(real) : real[k] \in 1 .. Len(sizes)
      BY <3>2, <3>3 DEF OfSomeSize
    <3>7. \A x \in 1 .. Len(sizes) : x \in 1 .. MaxRequests
      BY <3>1, FifoAssumption
    <3>8. \A k \in 1 .. Len(an) : an[k] \in 1 .. MaxRequests
      BY <3>5, <3>6, <3>7, Zenon
    <3>9. an \in [1 .. Len(an) -> 1 .. MaxRequests]
      BY <3>4, <3>8, LenProperties
    <3>10. PICK len \in Nat : len = Len(an)
      BY <3>4
    <3>11. an \in [1 .. len -> 1 .. MaxRequests]
      BY <3>9, <3>10, Zenon
    <3> QED
      BY <3>11, SeqDef, Zenon
  <2>7. Len(mv) = Len(sizes)
    BY <2>3 DEF Accounts
  <2> QED
    BY <2>1, <2>2, <2>3, <2>4, <2>5, <2>6, <2>7 DEF Holds
<1>4. FifoInv /\ Within /\ [Next]_vars => Within'
  BY <1>2
<1>5. FifoInv /\ Within => TypeOK
  BY <1>3
<1> QED
  BY <1>1, <1>4, <1>5, FifoAlwaysSound, PTL DEF Spec

\* The usage of each direction is what the entries inside take, rounded to whole
\* units: no space leaks when insertWrite() and transferRead() split a request.
THEOREM UsageAlwaysExact == Spec => []UsageExact
<1>1. FifoInv => UsageExact
  BY DEF FifoInv, InDirection, Sound, Queued, UsageExact
<1> QED
  BY <1>1, FifoAlwaysSound, PTL

\* transferWriteDoneNext() and insertReadDoneNext() answer requests in the order
\* in which they were made, each once; those of no size are not answered.
THEOREM AnsweredAlwaysInOrder == Spec => []AnsweredInOrder
<1>1. ASSUME FifoInv, NEW d \in Direction
      PROVE  answered[d] = SubSeq(Real(requests[d]), 1, Len(answered[d]))
  <2>1. PICK an, sizes : an = answered[d] /\ sizes = requests[d]
    OBVIOUS
  <2>2. sizes \in Seq(Size) /\ Prefix(an, Real(sizes))
    BY <1>1, <2>1 DEF FifoInv, InDirection, Sound
  <2>3. sizes \in Seq(Nat)
    BY <2>2, FifoAssumption, SeqMonotonic
  <2>4. PICK real : real = Real(sizes)
    OBVIOUS
  <2>5. real \in Seq(Nat) /\ Prefix(an, real)
    BY <2>2, <2>3, <2>4, RealOfSomeSize DEF OfSomeSize
  <2>6. /\ an \in Seq(Nat) /\ Len(an) \in Nat /\ Len(real) \in Nat /\ Len(an) <= Len(real)
        /\ \A k \in 1 .. Len(an) : an[k] = real[k] /\ real[k] \in Nat
    <3>1. Len(an) \in Nat /\ Len(real) \in Nat /\ Len(an) <= Len(real) /\ an \in Seq(Nat)
      BY <2>5, LenProperties DEF Prefix
    <3>2. \A k \in 1 .. Len(an) : k \in 1 .. Len(real)
      BY <3>1
    <3> QED
      BY <2>5, <3>1, <3>2, ElementOfSeq DEF Prefix
  <2>7. /\ SubSeq(real, 1, Len(an)) \in Seq(Nat)
        /\ Len(SubSeq(real, 1, Len(an))) = IF 1 <= Len(an) THEN Len(an) - 1 + 1 ELSE 0
        /\ \A k \in 1 .. Len(an) - 1 + 1 : SubSeq(real, 1, Len(an))[k] = real[1 + k - 1]
    BY <2>6, SubSeqProperties
  <2>8. Len(SubSeq(real, 1, Len(an))) = Len(an)
    BY <2>6, <2>7
  <2>9. ASSUME NEW k \in 1 .. Len(an) PROVE SubSeq(real, 1, Len(an))[k] = an[k]
    <3>1. k \in 1 .. Len(an) - 1 + 1 /\ 1 + k - 1 = k
      BY <2>6
    <3> QED
      BY <2>6, <2>7, <3>1
  <2>10. an = SubSeq(real, 1, Len(an))
    BY <2>6, <2>7, <2>8, <2>9, SeqEqual
  <2> QED
    BY <2>1, <2>4, <2>10
<1>2. FifoInv => AnsweredInOrder
  BY <1>1 DEF AnsweredInOrder
<1> QED
  BY <1>2, FifoAlwaysSound, PTL

\* The layers below see a DMA interface: each step of the FIFO is a request, the
\* move of bytes, the answer of the oldest request, of which nothing is left to
\* move, or nothing that they see.
THEOREM PortImplemented == Spec => ImplementsPort
<1>1. Init => Port!Init
  BY InitSound
<1>2. FifoInv /\ [Next]_vars => [Port!Next]_pending
  BY FifoStep
<1>3. Spec => Port!Spec
  BY <1>1, <1>2, FifoAlwaysSound, PTL DEF Spec, Port!Spec
<1> QED
  BY <1>3, AnsweredAlwaysInOrder DEF ImplementsPort
=============================================================================
