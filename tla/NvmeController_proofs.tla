----------------------- MODULE NvmeController_proofs -----------------------
(***************************************************************************)
(* What is proved of the NVMe controller, for every number of queues,      *)
(* slots, vectors and commands and both arbitrations.                      *)
(*                                                                         *)
(* NothingAfterShutdown: after a complete shutdown the subsystem gets no   *)
(* command.  ControllerInvariant: every command that the host waits for is *)
(* at one stage of the controller, and every entry in use of a ring is one *)
(* outstanding command; with it the controller never panics, reads no      *)
(* queue that is gone, and neither loses nor doubles a command.            *)
(***************************************************************************)
EXTENDS NvmeController, DataLemmas

-----------------------------------------------------------------------------
(* What a state is made of. *)

Operations == (AdminOps \ {"shutdown"}) \cup {"io"}
Command == [sq : SQ, op : Operations, arg : SQ \cup CQ \cup Id \cup Vectors]
Tag == 0 .. MaxCommands     \* a command, or 0 for none
SubmissionQueue == [exists : BOOLEAN, head : Slot(SqSize), tail : Slot(SqSize),
                    ring : [Slot(SqSize) -> Tag]]
Entry == [id : Tag, phase : BOOLEAN]
CompletionQueue == [exists : BOOLEAN, head : Slot(CqSize), tail : Slot(CqSize),
                    phase : BOOLEAN, ring : [Slot(CqSize) -> Entry]]
Write == [cq : CQ, slot : Slot(CqSize), entry : Entry]
Call == [writes : Seq(Write), ivs : SUBSET Vectors]
Read == [sq : SQ, slot : Slot(SqSize)]
Position == [slot : Slot(CqSize), phase : BOOLEAN]
Host == [sqs : SUBSET SQ, cqs : SUBSET CQ, arbitration : Arbitration,
         reads : [CQ -> Position]]
Aggregation == [valid : BOOLEAN, running : BOOLEAN, count : Nat, pending : BOOLEAN]

LEMMA Constants ==
  /\ LastSQ \in Nat /\ LastCQ \in Nat
  /\ SqSize \in Nat /\ SqSize > 1 /\ CqSize \in Nat /\ CqSize > 1
  /\ 0 \in SQ /\ 0 \in CQ /\ SQ \subseteq Nat /\ CQ \subseteq Nat
  /\ CqOf \in [SQ -> CQ] /\ \A q \in SQ : CqOf[q] = 0 <=> q = 0
<1>1. /\ LastSQ \in Nat /\ LastCQ \in Nat
      /\ SqSize \in Nat \ {0, 1} /\ CqSize \in Nat \ {0, 1}
      /\ CqOf \in [SQ -> CQ] /\ \A q \in SQ : CqOf[q] = 0 <=> q = 0
  BY ControllerAssumption, Zenon DEF ControllerAssumption
<1>2. SqSize > 1 /\ CqSize > 1
  BY <1>1
<1>3. 0 \in SQ /\ 0 \in CQ /\ SQ \subseteq Nat /\ CQ \subseteq Nat
  BY <1>1 DEF SQ, CQ
<1> QED
  BY <1>1, <1>2, <1>3

\* A ring holds fewer entries than it has slots.
LEMMA ItemsBounded ==
  ASSUME NEW n \in Nat \ {0}, NEW head \in Slot(n), NEW tail \in Slot(n)
  PROVE  /\ ItemCount(head, tail, n) \in 0 .. n - 1
         /\ ItemCount(head, tail, n) = 0 <=> head = tail
BY DEF ItemCount, Slot

-----------------------------------------------------------------------------
(* The collection of the queued entries. *)

Collection == [left : [SQ -> Nat], updated : Nat, order : Seq(SQ), stop : BOOLEAN]

\* What a turn or a pass takes from a queue, it adds to the order.
Takes(s, t) ==
  /\ s \in Collection /\ t \in Collection
  /\ \A p \in SQ : /\ t.left[p] + CountOf(t.order, p) = s.left[p] + CountOf(s.order, p)
                   /\ t.left[p] <= s.left[p]
  /\ Len(s.order) <= Len(t.order)

LEMMA TakesTwice ==
  ASSUME NEW s, NEW t, NEW u, Takes(s, t), Takes(t, u)
  PROVE  Takes(s, u)
<1>1. \A p \in SQ : /\ s.left[p] \in Nat /\ t.left[p] \in Nat /\ u.left[p] \in Nat
  BY DEF Takes, Collection
<1>2. Len(s.order) \in Nat /\ Len(t.order) \in Nat /\ Len(u.order) \in Nat
  BY LenProperties DEF Takes, Collection
<1>3. \A a, b, c \in Nat : a <= b /\ b <= c => a <= c
  OBVIOUS
<1>4. \A p \in SQ : u.left[p] <= s.left[p]
  BY <1>1, <1>3 DEF Takes
<1>5. Len(s.order) <= Len(u.order)
  BY <1>2, <1>3 DEF Takes
<1>6. \A p \in SQ : u.left[p] + CountOf(u.order, p) = s.left[p] + CountOf(s.order, p)
  BY Zenon DEF Takes
<1> QED
  BY <1>4, <1>5, <1>6 DEF Takes

LEMMA TakesOne ==
  ASSUME NEW s \in Collection, NEW q \in SQ, s.left[q] # 0
  PROVE  /\ Takes(s, TakeOne(s, q))
         /\ TakeOne(s, q).left = [s.left EXCEPT ![q] = @ - 1]
         /\ Len(TakeOne(s, q).order) = Len(s.order) + 1
<1> DEFINE t == TakeOne(s, q)
<1>1. /\ s.left \in [SQ -> Nat] /\ s.order \in Seq(SQ)
      /\ t.left = [s.left EXCEPT ![q] = @ - 1] /\ t.order = Append(s.order, q)
      /\ t.stop = s.stop /\ t.updated = s.updated
  BY DEF Collection, TakeOne
<1>2. t = [left |-> t.left, updated |-> t.updated, order |-> t.order, stop |-> t.stop]
  <2>1. s = [left |-> s.left, updated |-> s.updated, order |-> s.order, stop |-> s.stop]
    BY DEF Collection
  <2> DEFINE a == [s.left EXCEPT ![q] = @ - 1]
             b == Append(s.order, q)
  <2>2. t = [s EXCEPT !.left = a, !.order = b]
    BY <2>1 DEF TakeOne
  <2> HIDE DEF a, b, t
  <2>3. t = [left |-> a, updated |-> s.updated, order |-> b, stop |-> s.stop]
    BY <2>1, <2>2
  <2> QED
    BY <2>3
<1>3. t.left \in [SQ -> Nat]
  BY <1>1
<1>4. /\ t.order \in Seq(SQ) /\ Len(t.order) = Len(s.order) + 1
      /\ Len(s.order) \in Nat
  BY <1>1, AppendProperties, LenProperties
<1> HIDE DEF t
<1>5. t \in Collection
  BY <1>1, <1>2, <1>3, <1>4 DEF Collection
<1>6. ASSUME NEW p \in SQ
      PROVE  /\ t.left[p] + CountOf(t.order, p) = s.left[p] + CountOf(s.order, p)
             /\ t.left[p] <= s.left[p]
  <2>1. CountOf(t.order, p) = IF p = q THEN CountOf(s.order, p) + 1 ELSE CountOf(s.order, p)
    BY <1>1, CountAppend
  <2>2. CountOf(s.order, p) \in Nat /\ s.left[p] \in Nat
    BY <1>1, CountIn
  <2>3. t.left[p] = IF p = q THEN s.left[p] - 1 ELSE s.left[p]
    BY <1>1
  <2> QED
    BY <2>1, <2>2, <2>3
<1> QED
  BY <1>1, <1>4, <1>5, <1>6 DEF Takes, t

\* One turn: an entry is taken, or nothing happens.
LEMMA TurnTakes ==
  ASSUME NEW s \in Collection, NEW q \in SQ, NEW queues, NEW quota \in Nat
  PROVE  LET t == TakeTurn(s, q, queues, quota)
         IN  /\ Takes(s, t)
             /\ s.stop \/ q \notin queues \/ s.left[q] = 0 => t = s
             /\ ~(s.stop \/ q \notin queues \/ s.left[q] = 0) =>
                  /\ t.left = [s.left EXCEPT ![q] = @ - 1]
                  /\ Len(t.order) = Len(s.order) + 1
             /\ quota = NoQuota => t.stop = s.stop
<1> DEFINE t == TakeTurn(s, q, queues, quota)
           o == TakeOne(s, q)
<1>1. /\ s.left \in [SQ -> Nat] /\ s.order \in Seq(SQ) /\ s.updated \in Nat
      /\ s.stop \in BOOLEAN /\ Len(s.order) \in Nat
  BY LenProperties DEF Collection
<1>2. Takes(s, s)
  BY <1>1 DEF Takes
<1>3. CASE s.stop \/ q \notin queues \/ s.left[q] = 0
  <2>1. t = s
    BY <1>3 DEF TakeTurn
  <2> HIDE DEF t
  <2> QED
    BY <1>2, <1>3, <2>1 DEF t
<1>4. CASE ~(s.stop \/ q \notin queues \/ s.left[q] = 0)
  <2>1. /\ Takes(s, o) /\ o.left = [s.left EXCEPT ![q] = @ - 1]
        /\ Len(o.order) = Len(s.order) + 1
    BY <1>4, TakesOne
  <2>2. /\ o \in Collection /\ o.updated = s.updated
    BY <2>1 DEF Takes, TakeOne
  <2>3. t = [o EXCEPT !.updated = IF @ + 1 = quota THEN 0 ELSE @ + 1,
                      !.stop = s.updated + 1 = quota]
    BY <1>4 DEF TakeTurn
  <2> HIDE DEF t, o
  <2>4. /\ t \in Collection /\ t.left = o.left /\ t.order = o.order
        /\ t.stop = (s.updated + 1 = quota)
    <3>1. o = [left |-> o.left, updated |-> o.updated, order |-> o.order, stop |-> o.stop]
      BY <2>2 DEF Collection
    <3> DEFINE u == IF s.updated + 1 = quota THEN 0 ELSE s.updated + 1
               b == s.updated + 1 = quota
    <3>2. t = [left |-> o.left, updated |-> u, order |-> o.order, stop |-> b]
      BY <2>2, <2>3, <3>1
    <3>3. u \in Nat /\ b \in BOOLEAN /\ o.left \in [SQ -> Nat] /\ o.order \in Seq(SQ)
      BY <1>1, <2>2 DEF Collection
    <3> HIDE DEF u
    <3> QED
      BY <3>2, <3>3 DEF Collection
  <2>5. Takes(s, t)
    BY <2>1, <2>4 DEF Takes
  <2>6. quota = NoQuota => ~(s.updated + 1 = quota)
    BY <1>1 DEF NoQuota
  <2>7. s.stop = FALSE
    BY <1>1, <1>4
  <2>8. quota = NoQuota => t.stop = s.stop
    BY <2>4, <2>6, <2>7
  <2> QED
    BY <1>4, <2>1, <2>4, <2>5, <2>8 DEF t
<1> QED
  BY <1>3, <1>4

\* A pass, turn by turn.
LEMMA PassTurns ==
  ASSUME NEW s \in Collection, NEW queues, NEW quota \in Nat
  PROVE  \E f \in [0 .. LastSQ + 1 -> Collection] :
           /\ f[0] = [s EXCEPT !.stop = FALSE]
           /\ \A n \in 1 .. LastSQ + 1 : f[n] = TakeTurn(f[n - 1], n - 1, queues, quota)
           /\ Pass(s, queues, quota) = f[LastSQ + 1]
<1> DEFINE N == LastSQ + 1
           D == 1 .. N
           turns == [k \in 1 .. LastSQ + 1 |-> k - 1]
           base == [s EXCEPT !.stop = FALSE]
           Turn(t, k) == TakeTurn(t, turns[k], queues, quota)
           step == [x \in Collection \X D |-> Turn(x[1], x[2])]
           P(g) == g = [r \in SUBSET D |->
                          IF r = {} THEN base ELSE Turn(g[r \ {Max(r)}], Max(r))]
<1>1. N \in Nat /\ DOMAIN turns = D /\ \A k \in D : turns[k] = k - 1 /\ k - 1 \in SQ
  BY Constants DEF SQ
<1>2. base \in Collection
  BY DEF Collection
<1>3. \A t \in Collection, k \in D : Turn(t, k) \in Collection
  <2> HIDE DEF turns
  <2> TAKE t \in Collection, k \in D
  <2>1. turns[k] \in SQ
    BY <1>1
  <2> QED
    BY <2>1, TurnTakes DEF Takes
<1> HIDE DEF turns
<1>4. step \in [Collection \X D -> Collection]
  <2> HIDE DEF Turn
  <2> QED
    BY <1>3
<1>5. Pass(s, queues, quota) = (CHOOSE g : P(g))[D]
  BY <1>1, Zenon DEF Pass, FoldLeft, MapThenFoldSet, turns
<1> HIDE DEF base, Turn
<1>6. PICK h : Folded(h, Collection, N, step, base)
  <2> HIDE DEF step
  <2> QED
    BY <1>1, <1>2, <1>4, FoldExists
<1>7. \A t \in Collection, k \in D : step[<<t, k>>] = Turn(t, k)
  OBVIOUS
<1> HIDE DEF step
<1>8. ASSUME NEW r \in SUBSET D
      PROVE  /\ r # {} => Max(r) \in D
             /\ h[r] = IF r = {} THEN base ELSE Turn(h[r \ {Max(r)}], Max(r))
  <2>1. /\ h[r] = IF r = {} THEN base ELSE step[<<h[r \ {Max(r)}], Max(r)>>]
        /\ r # {} => Max(r) \in D /\ h[r \ {Max(r)}] \in Collection
    BY <1>1, <1>6, FoldedAt
  <2> QED
    BY <1>7, <2>1
<1>9. P(h)
  <2>1. h \in [SUBSET D -> Collection]
    BY <1>6, Zenon DEF Folded
  <2> QED
    BY <1>8, <2>1
<1>10. PICK g : P(g) /\ Pass(s, queues, quota) = g[D]
  <2> HIDE DEF P
  <2> QED
    BY <1>5, <1>9, Zenon
<1> DEFINE next == [r \in SUBSET D |-> Turn(g[r \ {Max(r)}], Max(r))]
<1>11. \A r \in SUBSET D : g[r] = IF r = {} THEN base ELSE next[r]
  BY <1>10
<1>12. FoldedBy(g, Collection, N, step, base, next)
  BY <1>1, <1>2, <1>4, <1>7, <1>8, <1>11 DEF FoldedBy
<1> HIDE DEF next, P
<1>13. PICK f : Iterated(f, Collection, N, step, base) /\ f[N] = g[D]
  BY <1>12, FoldRuns
<1>14. /\ f \in [0 .. N -> Collection] /\ f[0] = base
       /\ \A n \in D : f[n] = step[<<f[n - 1], n>>]
  BY <1>13, Zenon DEF Iterated
<1>15. ASSUME NEW n \in D PROVE f[n] = TakeTurn(f[n - 1], n - 1, queues, quota)
  <2>1. n - 1 \in 0 .. N
    BY <1>1
  <2>2. f[n] = Turn(f[n - 1], n)
    BY <1>7, <1>14, <2>1
  <2> QED
    BY <1>1, <2>2 DEF Turn
<1> QED
  BY <1>10, <1>13, <1>14, <1>15 DEF base

\* What n turns of a pass have done.
Passing(s, queues, quota, n, t) ==
  /\ Takes(s, t)
  /\ \A p \in SQ : p \notin queues => t.left[p] = s.left[p]
  /\ quota = NoQuota =>
       /\ t.stop = FALSE
       /\ \A p \in SQ : p \in queues =>
            t.left[p] = IF p < n /\ s.left[p] # 0 THEN s.left[p] - 1 ELSE s.left[p]
  /\ \/ Len(t.order) > Len(s.order)
     \/ /\ t.stop = FALSE /\ t.left = s.left
        /\ \A p \in SQ : p \in queues /\ p < n => s.left[p] = 0

LEMMA PassStarts ==
  ASSUME NEW s \in Collection, NEW queues, NEW quota
  PROVE  Passing(s, queues, quota, 0, [s EXCEPT !.stop = FALSE])
<1> DEFINE t == [s EXCEPT !.stop = FALSE]
<1>1. /\ t \in Collection /\ t.left = s.left /\ t.order = s.order /\ t.stop = FALSE
      /\ t.left \in [SQ -> Nat] /\ Len(s.order) \in Nat
  BY LenProperties DEF Collection
<1> HIDE DEF t
<1>2. Takes(s, t)
  BY <1>1 DEF Takes
<1>3. \A p \in SQ : ~(p < 0)
  BY Constants
<1> QED
  BY <1>1, <1>2, <1>3 DEF Passing, t

LEMMA PassGoesOn ==
  ASSUME NEW s \in Collection, NEW queues, NEW quota \in Nat, NEW n \in SQ, NEW t,
         Passing(s, queues, quota, n, t)
  PROVE  Passing(s, queues, quota, n + 1, TakeTurn(t, n, queues, quota))
<1> DEFINE u == TakeTurn(t, n, queues, quota)
<1>1. Takes(s, t) /\ t \in Collection
  BY DEF Passing, Takes
<1>2. /\ Takes(t, u)
      /\ t.stop \/ n \notin queues \/ t.left[n] = 0 => u = t
      /\ ~(t.stop \/ n \notin queues \/ t.left[n] = 0) =>
           u.left = [t.left EXCEPT ![n] = @ - 1] /\ Len(u.order) = Len(t.order) + 1
      /\ quota = NoQuota => u.stop = t.stop
  BY <1>1, TurnTakes
<1> HIDE DEF u
<1>3. Takes(s, u)
  BY <1>1, <1>2, TakesTwice
<1>4. /\ s.left \in [SQ -> Nat] /\ t.left \in [SQ -> Nat]
      /\ Len(s.order) \in Nat /\ Len(t.order) \in Nat
      /\ Len(s.order) <= Len(t.order) /\ t.stop \in BOOLEAN
  BY <1>1, LenProperties DEF Collection, Takes
<1>5. n \in Nat /\ \A p \in SQ : p \in Nat /\ (p < n + 1 <=> p < n \/ p = n)
  BY Constants
<1>6. CASE t.stop \/ n \notin queues \/ t.left[n] = 0
  <2>1. u = t
    BY <1>2, <1>6
  <2>2. quota = NoQuota =>
          /\ u.stop = FALSE
          /\ \A p \in SQ : p \in queues =>
               u.left[p] = IF p < n + 1 /\ s.left[p] # 0 THEN s.left[p] - 1 ELSE s.left[p]
    <3> SUFFICES ASSUME quota = NoQuota, NEW p \in SQ, p \in queues
                 PROVE  /\ u.stop = FALSE
                        /\ u.left[p] = IF p < n + 1 /\ s.left[p] # 0 THEN s.left[p] - 1
                                                                       ELSE s.left[p]
      BY <2>1 DEF Passing
    <3>1. /\ t.stop = FALSE
          /\ t.left[p] = IF p < n /\ s.left[p] # 0 THEN s.left[p] - 1 ELSE s.left[p]
      BY DEF Passing
    <3>2. p = n => t.left[p] = s.left[p] /\ t.left[p] = 0
      BY <1>5, <1>6, <3>1
    <3> QED
      BY <1>5, <2>1, <3>1, <3>2
  <2>3. \/ Len(u.order) > Len(s.order)
        \/ /\ u.stop = FALSE /\ u.left = s.left
           /\ \A p \in SQ : p \in queues /\ p < n + 1 => s.left[p] = 0
    <3>1. CASE Len(t.order) > Len(s.order)
      BY <2>1, <3>1
    <3>2. CASE /\ t.stop = FALSE /\ t.left = s.left
               /\ \A p \in SQ : p \in queues /\ p < n => s.left[p] = 0
      BY <1>5, <1>6, <2>1, <3>2
    <3> QED
      BY <3>1, <3>2 DEF Passing
  <2> QED
    BY <1>3, <2>1, <2>2, <2>3 DEF Passing, u
<1>7. CASE ~(t.stop \/ n \notin queues \/ t.left[n] = 0)
  <2>1. /\ u.left = [t.left EXCEPT ![n] = @ - 1] /\ Len(u.order) = Len(t.order) + 1
        /\ n \in queues
    BY <1>2, <1>7
  <2>2. Len(u.order) > Len(s.order)
    BY <1>4, <2>1
  <2>3. \A p \in SQ : p \notin queues => u.left[p] = s.left[p]
    BY <1>4, <2>1 DEF Passing
  <2>4. ASSUME quota = NoQuota, NEW p \in SQ, p \in queues
        PROVE  u.left[p] = IF p < n + 1 /\ s.left[p] # 0 THEN s.left[p] - 1 ELSE s.left[p]
    <3>1. t.left[p] = IF p < n /\ s.left[p] # 0 THEN s.left[p] - 1 ELSE s.left[p]
      BY <2>4 DEF Passing
    <3>2. u.left[p] = IF p = n THEN t.left[p] - 1 ELSE t.left[p]
      BY <1>4, <2>1
    <3>3. p = n => t.left[p] = s.left[p] /\ t.left[p] # 0
      BY <1>5, <1>7, <3>1
    <3> QED
      BY <1>5, <3>1, <3>2, <3>3
  <2>5. quota = NoQuota => u.stop = FALSE
    BY <1>2 DEF Passing
  <2> QED
    BY <1>3, <2>2, <2>3, <2>4, <2>5 DEF Passing, u
<1> QED
  BY <1>6, <1>7

\* A pass takes from its queues only, from each of them when there is no quota, and it
\* takes something when they hold something.
LEMMA PassTakes ==
  ASSUME NEW s \in Collection, NEW queues, NEW quota \in Nat
  PROVE  Passing(s, queues, quota, LastSQ + 1, Pass(s, queues, quota))
<1>1. PICK f \in [0 .. LastSQ + 1 -> Collection] :
        /\ f[0] = [s EXCEPT !.stop = FALSE]
        /\ \A n \in 1 .. LastSQ + 1 : f[n] = TakeTurn(f[n - 1], n - 1, queues, quota)
        /\ Pass(s, queues, quota) = f[LastSQ + 1]
  BY PassTurns
<1> DEFINE M == {n \in Nat : n <= LastSQ + 1 => Passing(s, queues, quota, n, f[n])}
<1>2. 0 \in M
  BY <1>1, PassStarts
<1>3. ASSUME NEW n \in Nat, n \in M PROVE n + 1 \in M
  <2> SUFFICES ASSUME n + 1 <= LastSQ + 1 PROVE Passing(s, queues, quota, n + 1, f[n + 1])
    OBVIOUS
  <2>1. n \in SQ /\ n + 1 \in 1 .. LastSQ + 1 /\ (n + 1) - 1 = n /\ n <= LastSQ + 1
    BY Constants DEF SQ
  <2>2. Passing(s, queues, quota, n, f[n])
    BY <1>3, <2>1
  <2>3. f[n + 1] = TakeTurn(f[n], n, queues, quota)
    BY <1>1, <2>1
  <2> QED
    BY <2>1, <2>2, <2>3, PassGoesOn
<1>4. LastSQ + 1 \in M
  <2>1. Nat \subseteq M
    <3> HIDE DEF M
    <3> QED
      BY <1>2, <1>3, NatInductionSet
  <2> QED
    BY <2>1, Constants
<1>5. LastSQ + 1 \in Nat
  BY Constants
<1> QED
  BY <1>1, <1>4, <1>5

LEMMA UncollectedItems ==
  ASSUME sq \in [SQ -> SubmissionQueue]
  PROVE  /\ Uncollected \in Collection /\ Uncollected.order = <<>>
         /\ \A q \in SQ : /\ Uncollected.left[q] = SqItems(q)
                          /\ SqItems(q) \in 0 .. SqSize - 1
                          /\ CountOf(Uncollected.order, q) = 0
<1>1. ASSUME NEW q \in SQ PROVE SqItems(q) \in 0 .. SqSize - 1
  <2>1. sq[q].head \in Slot(SqSize) /\ sq[q].tail \in Slot(SqSize) /\ SqSize \in Nat \ {0}
    BY Constants DEF SubmissionQueue
  <2> QED
    BY <2>1, ItemsBounded DEF SqItems
<1>2. [q \in SQ |-> SqItems(q)] \in [SQ -> Nat]
  BY <1>1, Constants
<1>3. <<>> \in Seq(SQ)
  BY EmptySeq
<1>4. Uncollected \in Collection /\ Uncollected.order = <<>>
  BY <1>2, <1>3 DEF Collection, Uncollected
<1>5. ASSUME NEW q \in SQ PROVE CountOf(<<>>, q) = 0
  <2>1. ~Occurs(q, <<>>)
    BY EmptySeq DEF Occurs
  <2> QED
    BY <1>3, <2>1, CountIn
<1>6. \A q \in SQ : Uncollected.left[q] = SqItems(q)
  BY DEF Uncollected
<1> QED
  BY <1>1, <1>4, <1>5, <1>6

\* The rounds of the round robin.
LEMMA Rounds ==
  ASSUME sq \in [SQ -> SubmissionQueue], NEW queues
  PROVE  \E f \in [0 .. SqSize -> Collection] :
           /\ f[0] = Uncollected
           /\ \A n \in 1 .. SqSize : f[n] = Pass(f[n - 1], queues, NoQuota)
           /\ RoundRobin(queues) = f[SqSize].order
<1> DEFINE N == SqSize
           D == 1 .. N
           passes == [k \in 1 .. SqSize |-> k]
           base == Uncollected
           Turn(t) == Pass(t, queues, NoQuota)
           step == [x \in Collection \X D |-> Turn(x[1])]
           P(g) == g = [r \in SUBSET D |-> IF r = {} THEN base ELSE Turn(g[r \ {Max(r)}])]
<1>1. N \in Nat /\ DOMAIN passes = D
  BY Constants
<1>2. base \in Collection
  BY UncollectedItems
<1>3. \A t \in Collection : Turn(t) \in Collection
  BY PassTakes, Zenon DEF Passing, Takes, NoQuota
<1>4. step \in [Collection \X D -> Collection]
  <2> HIDE DEF Turn
  <2> QED
    BY <1>3
<1>5. RoundRobin(queues) = (CHOOSE g : P(g))[D].order
  BY <1>1, Zenon DEF RoundRobin, FoldLeft, MapThenFoldSet, passes
<1> HIDE DEF base, Turn
<1>6. PICK h : Folded(h, Collection, N, step, base)
  <2> HIDE DEF step
  <2> QED
    BY <1>1, <1>2, <1>4, FoldExists
<1>7. \A t \in Collection, k \in D : step[<<t, k>>] = Turn(t)
  OBVIOUS
<1> HIDE DEF step
<1>8. ASSUME NEW r \in SUBSET D
      PROVE  /\ r # {} => Max(r) \in D
             /\ h[r] = IF r = {} THEN base ELSE Turn(h[r \ {Max(r)}])
  <2>1. /\ h[r] = IF r = {} THEN base ELSE step[<<h[r \ {Max(r)}], Max(r)>>]
        /\ r # {} => Max(r) \in D /\ h[r \ {Max(r)}] \in Collection
    BY <1>1, <1>6, FoldedAt
  <2> QED
    BY <1>7, <2>1
<1>9. P(h)
  <2>1. h \in [SUBSET D -> Collection]
    BY <1>6, Zenon DEF Folded
  <2> QED
    BY <1>8, <2>1
<1>10. PICK g : P(g) /\ RoundRobin(queues) = g[D].order
  <2> HIDE DEF P
  <2> QED
    BY <1>5, <1>9, Zenon
<1> DEFINE next == [r \in SUBSET D |-> Turn(g[r \ {Max(r)}])]
<1>11. \A r \in SUBSET D : g[r] = IF r = {} THEN base ELSE next[r]
  BY <1>10
<1>12. FoldedBy(g, Collection, N, step, base, next)
  BY <1>1, <1>2, <1>4, <1>7, <1>8, <1>11 DEF FoldedBy
<1> HIDE DEF next, P
<1>13. PICK f : Iterated(f, Collection, N, step, base) /\ f[N] = g[D]
  BY <1>12, FoldRuns
<1>14. /\ f \in [0 .. N -> Collection] /\ f[0] = base
       /\ \A n \in D : f[n] = step[<<f[n - 1], n>>]
  BY <1>13, Zenon DEF Iterated
<1>15. ASSUME NEW n \in D PROVE f[n] = Pass(f[n - 1], queues, NoQuota)
  <2>1. n - 1 \in 0 .. N
    BY <1>1
  <2> QED
    BY <1>7, <1>14, <2>1 DEF Turn
<1> QED
  BY <1>10, <1>13, <1>14, <1>15 DEF base

\* Round robin takes all that its queues hold, and nothing of the others.
LEMMA RoundRobinTakesAll ==
  ASSUME sq \in [SQ -> SubmissionQueue], NEW queues
  PROVE  /\ RoundRobin(queues) \in Seq(SQ)
         /\ \A q \in SQ : CountOf(RoundRobin(queues), q) = IF q \in queues THEN SqItems(q) ELSE 0
<1>1. PICK f \in [0 .. SqSize -> Collection] :
        /\ f[0] = Uncollected
        /\ \A n \in 1 .. SqSize : f[n] = Pass(f[n - 1], queues, NoQuota)
        /\ RoundRobin(queues) = f[SqSize].order
  BY Rounds
<1> DEFINE Round(n) ==
             /\ Takes(Uncollected, f[n])
             /\ \A q \in SQ : /\ q \notin queues => f[n].left[q] = SqItems(q)
                              /\ q \in queues => f[n].left[q] = 0 \/ f[n].left[q] + n < SqSize
           M == {n \in Nat : n <= SqSize => Round(n)}
<1>2. /\ Uncollected \in Collection
      /\ \A q \in SQ : /\ Uncollected.left[q] = SqItems(q)
                       /\ SqItems(q) \in 0 .. SqSize - 1
                       /\ CountOf(Uncollected.order, q) = 0
  BY UncollectedItems
<1>3. 0 \in M
  <2>1. Takes(Uncollected, Uncollected)
    <3>1. Len(Uncollected.order) \in Nat
      BY <1>2, LenProperties DEF Collection
    <3> QED
      BY <1>2, <3>1, Constants DEF Takes
  <2>2. \A q \in SQ : SqItems(q) + 0 < SqSize
    BY <1>2, Constants
  <2>3. Round(0)
    BY <1>1, <1>2, <2>1, <2>2
  <2> HIDE DEF Round
  <2> QED
    BY <2>3
<1>4. ASSUME NEW n \in Nat, n \in M PROVE n + 1 \in M
  <2> SUFFICES ASSUME n + 1 <= SqSize PROVE Round(n + 1)
    OBVIOUS
  <2>1. n + 1 \in 1 .. SqSize /\ (n + 1) - 1 = n /\ n <= SqSize /\ n \in 0 .. SqSize
    BY Constants
  <2>2. Round(n) /\ f[n] \in Collection
    BY <1>1, <1>4, <2>1
  <2>3. f[n + 1] = Pass(f[n], queues, NoQuota)
    BY <1>1, <2>1
  <2>4. Passing(f[n], queues, NoQuota, LastSQ + 1, f[n + 1])
    BY <2>2, <2>3, PassTakes DEF NoQuota
  <2>5. Takes(Uncollected, f[n + 1])
    BY <2>2, <2>4, TakesTwice DEF Passing
  <2>6. ASSUME NEW q \in SQ
        PROVE  /\ q \notin queues => f[n + 1].left[q] = SqItems(q)
               /\ q \in queues => f[n + 1].left[q] = 0 \/ f[n + 1].left[q] + (n + 1) < SqSize
    <3>1. q < LastSQ + 1 /\ q \in Nat
      BY Constants DEF SQ
    <3>2. f[n].left[q] \in Nat
      BY <2>2 DEF Collection
    <3>3. /\ q \notin queues => f[n + 1].left[q] = f[n].left[q]
          /\ q \in queues => f[n + 1].left[q] = IF f[n].left[q] # 0 THEN f[n].left[q] - 1
                                                                  ELSE f[n].left[q]
      BY <2>4, <3>1 DEF Passing
    <3> QED
      BY <2>2, <3>2, <3>3, Constants
  <2> QED
    BY <2>5, <2>6
<1>5. SqSize \in M
  <2>1. Nat \subseteq M
    <3> HIDE DEF M
    <3> QED
      BY <1>3, <1>4, NatInductionSet
  <2> QED
    BY <2>1, Constants
<1>6. Round(SqSize) /\ SqSize \in 0 .. SqSize
  BY <1>5, Constants
<1>7. f[SqSize].order \in Seq(SQ)
  BY <1>1, <1>6 DEF Collection
<1>8. ASSUME NEW q \in SQ
      PROVE  CountOf(f[SqSize].order, q) = IF q \in queues THEN SqItems(q) ELSE 0
  <2>1. CountOf(f[SqSize].order, q) \in Nat /\ f[SqSize].left[q] \in Nat
    BY <1>1, <1>6, <1>7, CountIn DEF Collection
  <2>2. f[SqSize].left[q] + CountOf(f[SqSize].order, q) = SqItems(q) + 0
    BY <1>2, <1>6 DEF Takes
  <2>3. q \in queues => f[SqSize].left[q] = 0
    BY <1>6, <2>1, Constants
  <2>4. q \notin queues => f[SqSize].left[q] = SqItems(q)
    BY <1>6
  <2> QED
    BY <1>2, <2>1, <2>2, <2>3, <2>4
<1> QED
  BY <1>1, <1>7, <1>8

LEMMA WeightedPassTakes ==
  ASSUME NEW s \in Collection, NEW high, NEW medium, high \subseteq SQ, medium \subseteq SQ
  PROVE  LET t == WeightedPass(s, high, medium)
         IN  /\ Takes(s, t)
             /\ \A q \in SQ : q \notin high /\ q \notin medium => t.left[q] = s.left[q]
             /\ (\E q \in SQ : (q \in high \/ q \in medium) /\ s.left[q] # 0) =>
                  Len(t.order) > Len(s.order)
<1> DEFINE a == Pass(s, high, WrrHigh)
           b == Pass(a, medium, WrrMedium)
           t == WeightedPass(s, high, medium)
           ready == {q \in medium : b.left[q] > 0}
<1>0. WrrHigh \in Nat /\ WrrMedium \in Nat
  BY ControllerAssumption DEF ControllerAssumption
<1>1. Passing(s, high, WrrHigh, LastSQ + 1, a)
  BY <1>0, PassTakes
<1>2. a \in Collection
  BY <1>1 DEF Passing, Takes
<1>3. Passing(a, medium, WrrMedium, LastSQ + 1, b)
  <2> HIDE DEF a
  <2> QED
    BY <1>0, <1>2, PassTakes
<1>4. t = IF ready = {} THEN b ELSE TakeOne(b, Min(ready))
  BY DEF WeightedPass, LowPass
<1> HIDE DEF a, b, t
<1>5. b \in Collection
  BY <1>3 DEF Passing, Takes
<1>6. /\ Takes(b, t) /\ \A q \in SQ : q \notin medium => t.left[q] = b.left[q]
  <2>1. CASE ready = {}
    <3>1. Len(b.order) \in Nat /\ \A q \in SQ : b.left[q] \in Nat
      BY <1>5, LenProperties DEF Collection
    <3>2. t = b
      BY <1>4, <2>1
    <3> QED
      BY <1>5, <3>1, <3>2 DEF Takes
  <2>2. CASE ready # {}
    <3>1. Min(ready) \in ready
      <4>1. ready \subseteq Nat
        BY Constants
      <4> HIDE DEF ready
      <4> QED
        BY <2>2, <4>1, MinNat
    <3>2. PICK x \in medium : b.left[x] > 0 /\ t = TakeOne(b, x)
      BY <1>4, <2>2, <3>1
    <3>3. x \in SQ /\ b.left[x] # 0
      BY <1>5, <3>2 DEF Collection
    <3>4. Takes(b, t) /\ t.left = [b.left EXCEPT ![x] = @ - 1]
      BY <1>5, <3>2, <3>3, TakesOne
    <3> QED
      BY <1>5, <3>2, <3>4 DEF Collection
  <2> QED
    BY <2>1, <2>2
<1>7. Takes(s, a) /\ Takes(a, b) /\ Takes(s, t)
  <2>1. Takes(s, a) /\ Takes(a, b)
    BY <1>1, <1>3 DEF Passing
  <2> QED
    BY <1>6, <2>1, TakesTwice
<1>8. \A q \in SQ : q \notin high /\ q \notin medium => t.left[q] = s.left[q]
  BY <1>1, <1>3, <1>6 DEF Passing
<1>9. ASSUME NEW q \in SQ, q \in high \/ q \in medium, s.left[q] # 0
      PROVE  Len(t.order) > Len(s.order)
  <2>1. q < LastSQ + 1
    BY Constants DEF SQ
  <2>2. /\ Len(s.order) \in Nat /\ Len(a.order) \in Nat /\ Len(b.order) \in Nat
        /\ Len(t.order) \in Nat
        /\ Len(s.order) <= Len(a.order) /\ Len(a.order) <= Len(b.order)
        /\ Len(b.order) <= Len(t.order)
    BY <1>6, <1>7, LenProperties DEF Collection, Takes
  <2>3. Len(a.order) > Len(s.order) \/ Len(b.order) > Len(a.order)
    BY <1>1, <1>3, <1>9, <2>1, Zenon DEF Passing
  <2> QED
    BY <2>2, <2>3
<1> QED
  BY <1>7, <1>8, <1>9 DEF t

\* The passes of the weighted priorities.
WeightedOrder(high, medium) ==
  FoldLeft(LAMBDA s, n : WeightedPass(s, high, medium), Uncollected,
           [n \in 1 .. SqSize * LastSQ |-> n]).order

LEMMA WeightedPasses ==
  ASSUME sq \in [SQ -> SubmissionQueue],
         NEW high, NEW medium, high \subseteq SQ, medium \subseteq SQ
  PROVE  \E f \in [0 .. SqSize * LastSQ -> Collection] :
           /\ f[0] = Uncollected
           /\ \A n \in 1 .. SqSize * LastSQ : f[n] = WeightedPass(f[n - 1], high, medium)
           /\ WeightedOrder(high, medium) = f[SqSize * LastSQ].order
<1> DEFINE N == SqSize * LastSQ
           D == 1 .. N
           passes == [k \in 1 .. SqSize * LastSQ |-> k]
           base == Uncollected
           Turn(t) == WeightedPass(t, high, medium)
           step == [x \in Collection \X D |-> Turn(x[1])]
           P(g) == g = [r \in SUBSET D |-> IF r = {} THEN base ELSE Turn(g[r \ {Max(r)}])]
<1>1. N \in Nat /\ DOMAIN passes = D
  BY Constants
<1>2. base \in Collection
  BY UncollectedItems
<1>3. \A t \in Collection : Turn(t) \in Collection
  BY WeightedPassTakes, Zenon DEF Takes
<1>4. step \in [Collection \X D -> Collection]
  <2> HIDE DEF Turn
  <2> QED
    BY <1>3
<1>5. WeightedOrder(high, medium) = (CHOOSE g : P(g))[D].order
  BY <1>1, Zenon DEF WeightedOrder, FoldLeft, MapThenFoldSet, passes
<1> HIDE DEF base, Turn, N
<1>6. PICK h : Folded(h, Collection, N, step, base)
  <2> HIDE DEF step
  <2> QED
    BY <1>1, <1>2, <1>4, FoldExists
<1>7. \A t \in Collection, k \in D : step[<<t, k>>] = Turn(t)
  OBVIOUS
<1> HIDE DEF step
<1>8. ASSUME NEW r \in SUBSET D
      PROVE  /\ r # {} => Max(r) \in D
             /\ h[r] = IF r = {} THEN base ELSE Turn(h[r \ {Max(r)}])
  <2>1. /\ h[r] = IF r = {} THEN base ELSE step[<<h[r \ {Max(r)}], Max(r)>>]
        /\ r # {} => Max(r) \in D /\ h[r \ {Max(r)}] \in Collection
    BY <1>1, <1>6, FoldedAt
  <2> QED
    BY <1>7, <2>1
<1>9. P(h)
  <2>1. h \in [SUBSET D -> Collection]
    BY <1>6, Zenon DEF Folded
  <2> QED
    BY <1>8, <2>1
<1>10. PICK g : P(g) /\ WeightedOrder(high, medium) = g[D].order
  <2> HIDE DEF P
  <2> QED
    BY <1>5, <1>9, Zenon
<1> DEFINE next == [r \in SUBSET D |-> Turn(g[r \ {Max(r)}])]
<1>11. \A r \in SUBSET D : g[r] = IF r = {} THEN base ELSE next[r]
  BY <1>10
<1>12. FoldedBy(g, Collection, N, step, base, next)
  BY <1>1, <1>2, <1>4, <1>7, <1>8, <1>11 DEF FoldedBy
<1> HIDE DEF next, P
<1>13. PICK f : Iterated(f, Collection, N, step, base) /\ f[N] = g[D]
  BY <1>12, FoldRuns
<1>14. /\ f \in [0 .. N -> Collection] /\ f[0] = base
       /\ \A n \in D : f[n] = step[<<f[n - 1], n>>]
  BY <1>13, Zenon DEF Iterated
<1>15. ASSUME NEW n \in D PROVE f[n] = WeightedPass(f[n - 1], high, medium)
  <2>1. n - 1 \in 0 .. N
    BY <1>1
  <2> QED
    BY <1>7, <1>14, <2>1 DEF Turn
<1> QED
  BY <1>10, <1>13, <1>14, <1>15 DEF base, N

LEMMA WeightedTakesAll ==
  ASSUME sq \in [SQ -> SubmissionQueue],
         NEW high, NEW medium, high \subseteq SQ \ {0}, medium \subseteq SQ \ {0}
  PROVE  /\ WeightedOrder(high, medium) \in Seq(SQ)
         /\ \A q \in SQ : CountOf(WeightedOrder(high, medium), q)
                            = IF q \in high \/ q \in medium THEN SqItems(q) ELSE 0
<1> DEFINE N == SqSize * LastSQ
           Served(q) == q \in high \/ q \in medium
<1>0. N \in Nat /\ 0 \in 0 .. N
  BY Constants
<1>1. PICK f \in [0 .. N -> Collection] :
        /\ f[0] = Uncollected
        /\ \A n \in 1 .. N : f[n] = WeightedPass(f[n - 1], high, medium)
        /\ WeightedOrder(high, medium) = f[N].order
  BY WeightedPasses
<1> DEFINE Round(n) ==
             /\ Takes(Uncollected, f[n])
             /\ \A q \in SQ : ~Served(q) => f[n].left[q] = SqItems(q)
             /\ Len(f[n].order) >= n \/ \A q \in SQ : Served(q) => f[n].left[q] = 0
           M == {n \in Nat : n <= N => Round(n)}
<1>2. /\ Uncollected \in Collection /\ Uncollected.order = <<>>
      /\ \A q \in SQ : /\ Uncollected.left[q] = SqItems(q)
                       /\ SqItems(q) \in 0 .. SqSize - 1
                       /\ CountOf(Uncollected.order, q) = 0
  BY UncollectedItems
<1> HIDE DEF N
<1>3. 0 \in M
  <2>1. Takes(Uncollected, Uncollected) /\ Len(Uncollected.order) >= 0
    <3>1. Len(Uncollected.order) \in Nat
      BY <1>2, LenProperties DEF Collection
    <3>2. \A q \in SQ : SqItems(q) <= SqItems(q)
      BY <1>2, Constants
    <3> QED
      BY <1>2, <3>1, <3>2 DEF Takes
  <2>2. Round(0)
    BY <1>1, <1>2, <2>1
  <2> HIDE DEF Round
  <2> QED
    BY <2>2
<1>4. ASSUME NEW n \in Nat, n \in M PROVE n + 1 \in M
  <2> SUFFICES ASSUME n + 1 <= N PROVE Round(n + 1)
    OBVIOUS
  <2>1. n + 1 \in 1 .. N /\ (n + 1) - 1 = n /\ n <= N /\ n \in 0 .. N /\ n + 1 \in 0 .. N
    BY <1>0
  <2>2. Round(n) /\ f[n] \in Collection /\ f[n + 1] \in Collection
    BY <1>1, <1>4, <2>1
  <2>3. f[n + 1] = WeightedPass(f[n], high, medium)
    BY <1>1, <2>1
  <2>4. /\ Takes(f[n], f[n + 1])
        /\ \A q \in SQ : ~Served(q) => f[n + 1].left[q] = f[n].left[q]
        /\ (\E q \in SQ : Served(q) /\ f[n].left[q] # 0) =>
             Len(f[n + 1].order) > Len(f[n].order)
    BY <2>2, <2>3, WeightedPassTakes
  <2>5. Takes(Uncollected, f[n + 1])
    BY <2>2, <2>4, TakesTwice
  <2>6. Len(f[n].order) \in Nat /\ Len(f[n + 1].order) \in Nat
        /\ \A q \in SQ : f[n].left[q] \in Nat /\ f[n + 1].left[q] \in Nat
    BY <2>2, LenProperties DEF Collection
  <2>7. \/ Len(f[n + 1].order) >= n + 1
        \/ \A q \in SQ : Served(q) => f[n + 1].left[q] = 0
    <3>1. CASE \E q \in SQ : Served(q) /\ f[n].left[q] # 0
      BY <2>2, <2>4, <2>6, <3>1
    <3>2. CASE \A q \in SQ : Served(q) => f[n].left[q] = 0
      <4>1. \A q \in SQ : f[n + 1].left[q] <= f[n].left[q]
        BY <2>4 DEF Takes
      <4> QED
        BY <2>6, <3>2, <4>1
    <3> QED
      BY <3>1, <3>2
  <2> HIDE DEF Served
  <2> QED
    BY <2>2, <2>4, <2>5, <2>7
<1>5. Round(N)
  <2>1. Nat \subseteq M
    <3> HIDE DEF M
    <3> QED
      BY <1>3, <1>4, NatInductionSet
  <2> HIDE DEF Round
  <2> QED
    BY <1>0, <2>1
<1> DEFINE t == f[N]
<1>6. t \in Collection /\ t.order \in Seq(SQ) /\ Len(t.order) \in Nat
  BY <1>0, <1>1, LenProperties DEF Collection
<1>7. ASSUME NEW q \in SQ
      PROVE  /\ t.left[q] \in Nat /\ CountOf(t.order, q) \in Nat
             /\ t.left[q] + CountOf(t.order, q) = SqItems(q)
  <2>1. t.left[q] \in Nat /\ CountOf(t.order, q) \in Nat
    BY <1>6, CountIn DEF Collection
  <2>2. t.left[q] + CountOf(t.order, q) = SqItems(q) + 0
    BY <1>2, <1>5 DEF Takes
  <2> QED
    BY <1>2, <2>1, <2>2
<1>8. ASSUME NEW q \in SQ, Served(q) PROVE t.left[q] = 0
  <2> SUFFICES ASSUME Len(t.order) >= N PROVE FALSE
    BY <1>5, <1>8
  <2>1. LastSQ > 0 /\ LastSQ \in Nat
    BY <1>8, Constants DEF SQ
  <2>2. CountOf(t.order, 0) = 0
    <3>1. t.left[0] = SqItems(0)
      BY <1>5, Constants
    <3> QED
      BY <1>2, <1>7, <3>1, Constants
  <2>3. \A k \in 1 .. Len(t.order) : t.order[k] \in 1 .. LastSQ
    <3> TAKE k \in 1 .. Len(t.order)
    <3>1. t.order[k] \in SQ /\ k \in DOMAIN t.order
      BY <1>6, ElementOfSeq, LenProperties
    <3>2. ~Occurs(0, t.order)
      BY <1>6, <2>2, CountIn
    <3>3. t.order[k] # 0
      BY <3>1, <3>2 DEF Occurs
    <3> QED
      BY <3>1, <3>3, Constants DEF SQ
  <2>4. t.order \in Seq(1 .. LastSQ)
    <3> DEFINE o == t.order
               n == Len(o)
    <3>1. o = [k \in 1 .. n |-> o[k]] /\ n \in Nat
      BY <1>6, LenProperties
    <3>2. \A k \in 1 .. n : o[k] \in 1 .. LastSQ
      BY <2>3
    <3> HIDE DEF o, n
    <3>3. o \in [1 .. n -> 1 .. LastSQ]
      BY <3>1, <3>2
    <3>4. o \in Seq(1 .. LastSQ)
      BY <3>1, <3>3, SeqDef
    <3> QED
      BY <3>4 DEF o
  <2>5. SqSize - 1 \in Nat /\ \A x \in 1 .. LastSQ : x \in SQ
    BY Constants DEF SQ
  <2>6. \A x \in 1 .. LastSQ : CountOf(t.order, x) <= SqSize - 1
    <3> TAKE x \in 1 .. LastSQ
    <3>1. /\ t.left[x] \in Nat /\ CountOf(t.order, x) \in Nat
          /\ t.left[x] + CountOf(t.order, x) = SqItems(x)
          /\ SqItems(x) \in 0 .. SqSize - 1
      BY <1>2, <1>7, <2>5
    <3> QED
      BY <3>1, Constants
  <2>7. Len(t.order) <= LastSQ * (SqSize - 1)
    <3> HIDE DEF t
    <3> QED
      BY <2>1, <2>4, <2>5, <2>6, LengthBounded
  <2>8. \A a, b \in Nat : a > 0 /\ b > 1 => a * (b - 1) < b * a
    OBVIOUS
  <2>9. LastSQ * (SqSize - 1) < N
    BY <2>1, <2>8, Constants DEF N
  <2>10. LastSQ * (SqSize - 1) \in Nat
    BY <2>1, <2>5
  <2> QED
    BY <1>0, <1>6, <2>7, <2>9, <2>10
<1>9. ASSUME NEW q \in SQ
      PROVE  CountOf(t.order, q) = IF q \in high \/ q \in medium THEN SqItems(q) ELSE 0
  <2>1. Served(q) => t.left[q] = 0
    BY <1>8
  <2>2. ~Served(q) => t.left[q] = SqItems(q)
    BY <1>5
  <2> HIDE DEF t
  <2> QED
    BY <1>2, <1>7, <2>1, <2>2
<1> QED
  BY <1>1, <1>6, <1>9

\* Low priority is never served when the arbitration is weighted.
Unfetched(q) == host.arbitration = "weighted" /\ q # 0 /\ Priority[q] = "low"

\* A collection takes all that the queues hold, with that exception.
LEMMA CollectsAll ==
  ASSUME sq \in [SQ -> SubmissionQueue], sq[0].exists
  PROVE  /\ CollectOrder \in Seq(SQ)
         /\ \A q \in SQ : CountOf(CollectOrder, q)
                            = IF sq[q].exists /\ ~Unfetched(q) THEN SqItems(q) ELSE 0
<1> DEFINE queues == {q \in SQ : sq[q].exists}
           Class(p) == {q \in queues \ {0} : Priority[q] = p}
<1>1. CASE host.arbitration # "weighted"
  <2>1. CollectOrder = RoundRobin(queues)
    BY <1>1 DEF CollectOrder
  <2>2. /\ RoundRobin(queues) \in Seq(SQ)
        /\ \A q \in SQ : CountOf(RoundRobin(queues), q)
                           = IF q \in queues THEN SqItems(q) ELSE 0
    <3> HIDE DEF queues
    <3> QED
      BY RoundRobinTakesAll
  <2> QED
    BY <1>1, <2>1, <2>2 DEF Unfetched
<1>2. CASE host.arbitration = "weighted"
  <2> DEFINE admin == [k \in 1 .. SqItems(0) |-> 0]
             urgent == RoundRobin(Class("urgent"))
             rest == WeightedOrder(Class("high"), Class("medium"))
  <2>1. CollectOrder = admin \o urgent \o rest
    BY <1>2, Zenon DEF CollectOrder, WeightedRoundRobin, WeightedOrder
  <2>2. /\ urgent \in Seq(SQ)
        /\ \A q \in SQ : CountOf(urgent, q) = IF q \in Class("urgent") THEN SqItems(q) ELSE 0
    <3> HIDE DEF Class
    <3> QED
      BY RoundRobinTakesAll
  <2>3. /\ rest \in Seq(SQ)
        /\ \A q \in SQ : CountOf(rest, q)
             = IF q \in Class("high") \/ q \in Class("medium") THEN SqItems(q) ELSE 0
    <3>1. Class("high") \subseteq SQ \ {0} /\ Class("medium") \subseteq SQ \ {0}
      OBVIOUS
    <3> HIDE DEF Class
    <3> QED
      BY <3>1, WeightedTakesAll
  <2>4. \A q \in SQ : SqItems(q) \in Nat
    BY UncollectedItems
  <2>5. /\ admin \in Seq(SQ)
        /\ \A q \in SQ : CountOf(admin, q) = IF q = 0 THEN SqItems(q) ELSE 0
    <3>1. SqItems(0) \in Nat
      BY <2>4, Constants
    <3>2. admin \in Seq(SQ)
      BY <3>1, Constants, IsASeq
    <3>3. CountOf(admin, 0) = SqItems(0)
      <4>1. {j \in DOMAIN admin : admin[j] = 0} = 1 .. SqItems(0)
        OBVIOUS
      <4>2. \A n \in Nat : Cardinality(1 .. n) = n
        BY FS_Interval
      <4> QED
        BY <3>1, <4>1, <4>2 DEF CountOf
    <3>4. ASSUME NEW q \in SQ, q # 0 PROVE CountOf(admin, q) = 0
      <4>1. ~Occurs(q, admin)
        BY <3>4 DEF Occurs
      <4> HIDE DEF admin
      <4> QED
        BY <3>2, <4>1, CountIn
    <3> QED
      BY <3>2, <3>3, <3>4
  <2> HIDE DEF admin, urgent, rest
  <2>6. /\ admin \o urgent \in Seq(SQ)
        /\ \A q \in SQ : CountOf(admin \o urgent, q) = CountOf(admin, q) + CountOf(urgent, q)
    BY <2>2, <2>5, CountConcat
  <2>7. /\ CollectOrder \in Seq(SQ)
        /\ \A q \in SQ : CountOf(CollectOrder, q)
             = (CountOf(admin, q) + CountOf(urgent, q)) + CountOf(rest, q)
    <3> DEFINE first == admin \o urgent
    <3>1. CollectOrder = first \o rest
      BY <2>1
    <3>2. /\ first \in Seq(SQ)
          /\ \A q \in SQ : CountOf(first, q) = CountOf(admin, q) + CountOf(urgent, q)
      BY <2>6
    <3> HIDE DEF first
    <3>3. /\ first \o rest \in Seq(SQ)
          /\ \A q \in SQ : CountOf(first \o rest, q) = CountOf(first, q) + CountOf(rest, q)
      BY <2>3, <3>2, CountConcat
    <3> QED
      BY <3>1, <3>2, <3>3
  <2>8. ASSUME NEW q \in SQ
        PROVE  CountOf(CollectOrder, q)
                 = IF sq[q].exists /\ ~Unfetched(q) THEN SqItems(q) ELSE 0
    <3>1. CountOf(CollectOrder, q)
            = ((IF q = 0 THEN SqItems(q) ELSE 0)
               + (IF q \in Class("urgent") THEN SqItems(q) ELSE 0))
              + (IF q \in Class("high") \/ q \in Class("medium") THEN SqItems(q) ELSE 0)
      BY <2>2, <2>3, <2>5, <2>7
    <3>2. Priority[q] \in {"urgent", "high", "medium", "low"}
      BY ControllerAssumption DEF ControllerAssumption
    <3> HIDE DEF queues
    <3>3. q \in queues <=> sq[q].exists
      BY DEF queues
    <3> QED
      BY <1>2, <2>4, <3>1, <3>2, <3>3 DEF Unfetched
  <2> QED
    BY <2>7, <2>8
<1> QED
  BY <1>1, <1>2

-----------------------------------------------------------------------------
(* Shutdown. *)

\* A controller that reported its shutdown has fetched nothing that it still could
\* give to the subsystem, and the round of its loop is past the point where a
\* read could be in flight.
Quiet ==
  /\ status \in {"ready", "shutdown", "complete"}
  /\ status = "complete" =>
       fetching = <<>> /\ lSQFIFO = <<>> /\ loop \in {"handle", "work", "stopped"}

\* The walk of deleteSQueue() over lSQFIFO.
AbortStep(q, s, k) ==
  IF s.pos > Len(s.fifo) THEN s
  ELSE IF cmd[s.fifo[s.pos]].sq = q
  THEN LET left == RemoveAt(s.fifo, s.pos)
       IN  [fifo |-> left, aborted |-> Append(s.aborted, s.fifo[s.pos]),
            pos |-> IF s.pos > Len(left) THEN 1 ELSE s.pos + 1]
  ELSE [s EXCEPT !.pos = @ + 1]
Walk == [k \in 1 .. Len(lSQFIFO) * (Len(lSQFIFO) + 1) |-> k]
Walked(q, g, D) ==
  g = [s \in SUBSET D |->
         IF s = {} THEN [fifo |-> lSQFIFO, aborted |-> <<>>, pos |-> 1]
         ELSE AbortStep(q, g[s \ {Max(s)}], Walk[Max(s)])]

LEMMA AbortAllWalks ==
  ASSUME NEW q
  PROVE  AbortAll(q) = (CHOOSE g : Walked(q, g, DOMAIN Walk))[DOMAIN Walk]
BY Zenon DEF AbortAll, FoldLeft, MapThenFoldSet, Walked, AbortStep, Walk

\* When nothing was fetched, there is nothing to abort.
LEMMA NothingToAbort ==
  ASSUME NEW q, lSQFIFO = <<>>
  PROVE  AbortAll(q).fifo = <<>>
<1>1. DOMAIN Walk = {}
  BY DEF Walk
<1> DEFINE start == [fifo |-> lSQFIFO, aborted |-> <<>>, pos |-> 1]
           f == [s \in SUBSET {} |-> start]
<1>2. Walked(q, f, {})
  BY Zenon DEF Walked
<1>3. PICK g : /\ Walked(q, g, {})
               /\ AbortAll(q) = g[{}]
  BY <1>1, <1>2, AbortAllWalks, Zenon
<1>4. g[{}] = start
  BY <1>3, Zenon DEF Walked
<1> QED
  BY <1>3, <1>4

\* The step of the subsystem with a command: it gives none to itself.
LEMMA ExecuteQuiet ==
  ASSUME Quiet, status = "complete", NEW i, Execute(i)
  PROVE  /\ executing' \subseteq executing /\ status' = status
         /\ fetching' = <<>> /\ lSQFIFO' = <<>> /\ loop' = loop
<1>1. fetching = <<>> /\ lSQFIFO = <<>>
  BY DEF Quiet
<1>2. CASE CompleteIO(i) \/ CreateSQ(i) \/ CreateCQ(i) \/ DeleteCQ(i) \/ SetCoalescing(i)
  BY <1>1, <1>2, Zenon DEF CompleteIO, CreateSQ, CreateCQ, DeleteCQ, SetCoalescing, Finish, loopVars
<1>3. CASE DeleteSQ(i)
  <2>1. lSQFIFO' = AbortAll(cmd[i].arg).fifo \/ lSQFIFO' = lSQFIFO
    BY <1>3, Zenon DEF DeleteSQ
  <2> QED
    BY <1>1, <1>3, <2>1, NothingToAbort, Zenon DEF DeleteSQ, Finish
<1>4. CASE Abort(i)
  <2>1. ~Contains(lSQFIFO, cmd[i].arg)
    BY <1>1 DEF Contains
  <2> QED
    BY <1>1, <1>4, <2>1, Zenon DEF Abort, Finish
<1> QED
  BY <1>2, <1>3, <1>4, Zenon DEF Execute

LEMMA QuietStep ==
  ASSUME Quiet, Next
  PROVE  /\ Quiet'
         /\ status = "complete" => executing' \subseteq executing
<1>1. CASE status = "complete"
  <2>1. fetching = <<>> /\ lSQFIFO = <<>> /\ loop \in {"handle", "work", "stopped"}
    BY <1>1 DEF Quiet
  <2> SUFFICES /\ executing' \subseteq executing /\ status' = status
               /\ fetching' = <<>> /\ lSQFIFO' = <<>>
               /\ loop' \in {"handle", "work", "stopped"}
    BY <1>1 DEF Quiet
  <2>2. CASE WorkEvent
    BY <1>1, <2>1, <2>2 DEF WorkEvent
  <2>3. CASE FetchDone \/ QueueFunction
    BY <2>1, <2>3 DEF FetchDone, QueueFunction
  <2>4. CASE HandleRequest
    BY <2>1, <2>4, Zenon DEF HandleRequest
  <2>5. CASE \E i \in Id : Execute(i)
    BY <1>1, <2>1, <2>5, ExecuteQuiet, Zenon
  <2>6. CASE Completion \/ Post \/ \E v \in Vectors : AggregationTimeEnds(v)
    BY <2>1, <2>6 DEF Completion, Post, PostWrite, Send, AggregationTimeEnds, loopVars
  <2>7. CASE \/ \E q \in SQ : SubmitIO(q)
             \/ \E op \in AdminOps \ {"shutdown"} : SubmitAdmin(op)
             \/ Shutdown
    BY <1>1, <2>7 DEF SubmitIO, SubmitAdmin, Submit, Shutdown
  <2>8. CASE \E c \in CQ : HostConsume(c)
    BY <2>1, <2>8 DEF HostConsume, loopVars
  <2> QED
    BY <2>2, <2>3, <2>4, <2>5, <2>6, <2>7, <2>8, Zenon DEF Next
<1>2. CASE status # "complete"
  <2>1. ASSUME NEW i, Execute(i) PROVE status' = status
    BY <2>1, Zenon DEF Execute, CompleteIO, DeleteSQ, CreateSQ, DeleteCQ, CreateCQ, Abort,
       SetCoalescing
  <2>2. CASE QueueFunction
    BY <1>2, <2>2 DEF QueueFunction, Quiet
  <2>3. CASE Shutdown
    BY <1>2, <2>3 DEF Shutdown, Quiet
  <2>4. ASSUME ~QueueFunction, ~Shutdown PROVE status' = status
    <3>1. CASE WorkEvent \/ FetchDone \/ HandleRequest \/ \E i \in Id : Execute(i)
      BY <2>1, <3>1, Zenon DEF WorkEvent, FetchDone, HandleRequest
    <3>2. CASE \/ Completion \/ Post \/ \E v \in Vectors : AggregationTimeEnds(v)
               \/ \E q \in SQ : SubmitIO(q)
               \/ \E op \in AdminOps \ {"shutdown"} : SubmitAdmin(op)
               \/ \E c \in CQ : HostConsume(c)
      BY <3>2, Zenon DEF Completion, Post, PostWrite, Send, AggregationTimeEnds, SubmitIO,
         SubmitAdmin, Submit, HostConsume
    <3> QED
      BY <2>4, <3>1, <3>2, Zenon DEF Next
  <2> QED
    BY <1>2, <2>2, <2>3, <2>4 DEF Quiet
<1> QED
  BY <1>1, <1>2

\* Whatever the controller was doing when the host asked for the shutdown, and however
\* many reads were in flight: once it reported the end, no command is given to the
\* subsystem any more, although commands there still complete.
THEOREM NothingAfterShutdown == Spec => AfterShutdown
<1>1. Init => Quiet
  BY DEF Init, Quiet
<1>2. Quiet /\ [Next]_vars
        => Quiet' /\ [status = "complete" => executing' \subseteq executing]_vars
  <2>1. ASSUME Quiet, UNCHANGED vars PROVE Quiet'
    BY <2>1 DEF vars, loopVars, Quiet
  <2> QED
    BY <2>1, QuietStep, Zenon
<1> QED
  BY <1>1, <1>2, PTL DEF Spec, AfterShutdown

-----------------------------------------------------------------------------
(* Submission queues: the entries that wait or are being read. *)

\* The d-th slot behind the tail.
Back(tail, d) == IF d <= tail THEN tail - d ELSE tail + SqSize - d
EntryAt(queue, d) == queue.ring[Back(queue.tail, d)]

\* The n entries behind the tail are different commands of a set O.
InRing(queue, n, i) == \E d \in 1 .. n : EntryAt(queue, d) = i
Ring(queue, n, O) ==
  /\ n < SqSize
  /\ \A d \in 1 .. n : EntryAt(queue, d) \in O
  /\ \A d, e \in 1 .. n : EntryAt(queue, d) = EntryAt(queue, e) => d = e

\* The reads of a queue in flight, from the k-th read on.
ReadsFrom(f, q, k) == Cardinality({j \in DOMAIN f : j >= k /\ f[j].sq = q})
Items(queue) == ItemCount(queue.head, queue.tail, SqSize)
Depth(q, queue, f) == Items(queue) + ReadsFrom(f, q, 1)
SqOk(q, queue, f, O) ==
  /\ Ring(queue, Depth(q, queue, f), O)
  /\ \A k \in DOMAIN f :
       f[k].sq = q => f[k].slot = Back(queue.tail, Items(queue) + ReadsFrom(f, q, k))

LEMMA WrapSum ==
  ASSUME NEW n \in Nat \ {0}, NEW h \in Nat, NEW m \in Nat, h + m < n + n
  PROVE  (h + m) % n = IF h + m < n THEN h + m ELSE h + m - n
<1>1. CASE h + m < n
  BY <1>1
<1>2. CASE ~(h + m < n)
  <2>1. h + m - n \in 0 .. n - 1 /\ h + m = n * 1 + (h + m - n)
    BY <1>2
  <2> QED
    BY <1>2, <2>1
<1> QED
  BY <1>1, <1>2

\* The tail, or the head, after a step.
LEMMA NextSlot ==
  ASSUME NEW n \in Nat \ {0}, NEW h \in 0 .. n - 1
  PROVE  /\ (h + 1) % n = IF h + 1 < n THEN h + 1 ELSE 0
         /\ (h + 1) % n \in 0 .. n - 1
<1>1. CASE h + 1 < n
  BY <1>1
<1>2. CASE ~(h + 1 < n)
  <2>1. h + 1 = n * 1 + 0
    BY <1>2
  <2> QED
    BY <1>2, <2>1
<1> QED
  BY <1>1, <1>2

\* A command that is not in O joins at the tail.
LEMMA RingGrows ==
  ASSUME NEW queue \in SubmissionQueue, NEW n \in Nat, NEW O, NEW x, x \notin O,
         Ring(queue, n, O), n + 1 < SqSize, NEW more,
         more.tail = (queue.tail + 1) % SqSize,
         more.ring = [queue.ring EXCEPT ![queue.tail] = x]
  PROVE  /\ Ring(more, n + 1, O \cup {x})
         /\ \A i : InRing(more, n + 1, i) <=> InRing(queue, n, i) \/ i = x
<1>1. /\ SqSize \in Nat /\ SqSize > 1 /\ queue.tail \in 0 .. SqSize - 1
      /\ queue.ring \in [0 .. SqSize - 1 -> Tag]
  BY Constants DEF SubmissionQueue, Slot
<1>2. more.tail = IF queue.tail + 1 < SqSize THEN queue.tail + 1 ELSE 0
  <2>1. SqSize \in Nat \ {0} /\ queue.tail \in 0 .. SqSize - 1
    BY <1>1
  <2>2. (queue.tail + 1) % SqSize = IF queue.tail + 1 < SqSize THEN queue.tail + 1 ELSE 0
    BY <2>1, NextSlot, Zenon
  <2> QED
    BY <2>2, Zenon
<1>3. /\ Back(more.tail, 1) = queue.tail
      /\ \A d \in 1 .. n : /\ Back(more.tail, d + 1) = Back(queue.tail, d)
                           /\ Back(queue.tail, d) # queue.tail
                           /\ Back(queue.tail, d) \in 0 .. SqSize - 1
  <2> DEFINE t == queue.tail
             u == more.tail
  <2>1. /\ t \in 0 .. SqSize - 1 /\ SqSize \in Nat /\ SqSize > 1 /\ n + 1 < SqSize
        /\ u = IF t + 1 < SqSize THEN t + 1 ELSE 0
    BY <1>1, <1>2
  <2> HIDE DEF t, u
  <2>2. Back(u, 1) = t
    BY <2>1 DEF Back
  <2>3. ASSUME NEW d \in 1 .. n
        PROVE  Back(u, d + 1) = Back(t, d) /\ Back(t, d) # t /\ Back(t, d) \in 0 .. SqSize - 1
    BY <2>1 DEF Back
  <2> QED
    BY <2>2, <2>3 DEF t, u
<1>4. EntryAt(more, 1) = x
  BY <1>1, <1>3 DEF EntryAt
<1>5. \A d \in 1 .. n : EntryAt(more, d + 1) = EntryAt(queue, d)
  BY <1>1, <1>3 DEF EntryAt
<1>6. \A d \in 1 .. n + 1 : d = 1 \/ (d - 1 \in 1 .. n /\ d = (d - 1) + 1)
  OBVIOUS
<1>7. \A d \in 1 .. n : d + 1 \in 1 .. n + 1
  OBVIOUS
<1>8. \A d \in 1 .. n + 1 : \/ d = 1 /\ EntryAt(more, d) = x
                            \/ /\ d - 1 \in 1 .. n /\ d = (d - 1) + 1
                               /\ EntryAt(more, d) = EntryAt(queue, d - 1)
  BY <1>4, <1>5, <1>6
<1>9. \A d \in 1 .. n : EntryAt(queue, d) \in O /\ EntryAt(queue, d) # x
  BY Zenon DEF Ring
<1>10. \A d, e \in 1 .. n + 1 : EntryAt(more, d) = EntryAt(more, e) => d = e
  <2> SUFFICES ASSUME NEW d \in 1 .. n + 1, NEW e \in 1 .. n + 1,
                      EntryAt(more, d) = EntryAt(more, e)
               PROVE  d = e
    OBVIOUS
  <2>1. CASE d = 1 \/ e = 1
    BY <1>4, <1>8, <1>9, <2>1, Zenon
  <2>2. CASE d # 1 /\ e # 1
    <3>1. d - 1 = e - 1
      BY <1>8, <2>2, Zenon DEF Ring
    <3> QED
      BY <3>1
  <2> QED
    BY <2>1, <2>2
<1>11. \A d \in 1 .. n + 1 : EntryAt(more, d) \in O \cup {x}
  BY <1>8, <1>9, Zenon
<1>12. ASSUME NEW i PROVE InRing(more, n + 1, i) <=> InRing(queue, n, i) \/ i = x
  <2>1. ASSUME InRing(more, n + 1, i) PROVE InRing(queue, n, i) \/ i = x
    BY <1>8, <2>1, Zenon DEF InRing
  <2>2. ASSUME InRing(queue, n, i) PROVE InRing(more, n + 1, i)
    BY <1>5, <1>7, <2>2, Zenon DEF InRing
  <2>3. InRing(more, n + 1, x)
    <3>1. 1 \in 1 .. n + 1
      OBVIOUS
    <3> QED
      BY <1>4, <3>1, Zenon DEF InRing
  <2> QED
    BY <2>1, <2>2, <2>3
<1> QED
  BY <1>10, <1>11, <1>12 DEF Ring

\* The entry farthest from the tail leaves.
LEMMA RingShrinks ==
  ASSUME NEW queue, NEW n \in Nat \ {0}, NEW O, Ring(queue, n, O)
  PROVE  /\ EntryAt(queue, n) \in O /\ InRing(queue, n, EntryAt(queue, n))
         /\ Ring(queue, n - 1, O)
         /\ \A i : InRing(queue, n - 1, i) <=> InRing(queue, n, i) /\ i # EntryAt(queue, n)
<1>1. n \in 1 .. n /\ \A d \in 1 .. n - 1 : d \in 1 .. n /\ d # n
  OBVIOUS
<1>2. \A d \in 1 .. n : d = n \/ d \in 1 .. n - 1
  OBVIOUS
<1>3. SqSize \in Nat /\ n - 1 < SqSize
  BY Constants DEF Ring
<1>4. Ring(queue, n - 1, O)
  BY <1>1, <1>3, Zenon DEF Ring
<1>5. EntryAt(queue, n) \in O /\ InRing(queue, n, EntryAt(queue, n))
  BY <1>1, Zenon DEF Ring, InRing
<1>6. ASSUME NEW i
      PROVE  InRing(queue, n - 1, i) <=> InRing(queue, n, i) /\ i # EntryAt(queue, n)
  BY <1>1, <1>2, Zenon DEF Ring, InRing
<1> QED
  BY <1>4, <1>5, <1>6

LEMMA RingSize ==
  ASSUME NEW queue, NEW n \in Nat, NEW O, Ring(queue, n, O), IsFiniteSet(O)
  PROVE  n <= Cardinality(O)
<1> DEFINE f == [d \in 1 .. n |-> EntryAt(queue, d)]
<1>1. f \in [1 .. n -> O] /\ \A x, y \in 1 .. n : f[x] = f[y] => x = y
  BY Zenon DEF Ring
<1>2. \A m \in Nat : Cardinality(1 .. m) = m
  BY FS_Interval
<1> HIDE DEF f
<1>3. Cardinality(1 .. n) <= Cardinality(O)
  BY <1>1, NoMoreThan
<1> QED
  BY <1>2, <1>3

\* The entries stay while other members of the queue change.
LEMMA RingStays ==
  ASSUME NEW queue, NEW n, NEW O, Ring(queue, n, O), NEW other,
         other.tail = queue.tail, other.ring = queue.ring,
         NEW U, \A i : InRing(queue, n, i) => i \in U
  PROVE  /\ Ring(other, n, U)
         /\ \A i : InRing(other, n, i) <=> InRing(queue, n, i)
<1>1. \A d : EntryAt(other, d) = EntryAt(queue, d)
  BY Zenon DEF EntryAt
<1> QED
  BY <1>1, Zenon DEF Ring, InRing

\* What is in a submission queue or on its way from it.
WaitsIn(q, queue, f, i) == InRing(queue, Depth(q, queue, f), i)

LEMMA ItemsNat ==
  ASSUME NEW queue \in SubmissionQueue
  PROVE  Items(queue) \in 0 .. SqSize - 1 /\ Items(queue) \in Nat
<1>1. SqSize \in Nat \ {0} /\ queue.head \in Slot(SqSize) /\ queue.tail \in Slot(SqSize)
  BY Constants DEF SubmissionQueue
<1> QED
  BY <1>1, ItemsBounded DEF Items

LEMMA ReadsCounted ==
  ASSUME NEW f \in Seq(Read), NEW q, NEW k
  PROVE  /\ IsFiniteSet({j \in DOMAIN f : j >= k /\ f[j].sq = q})
         /\ ReadsFrom(f, q, k) \in Nat
         /\ f = <<>> => ReadsFrom(f, q, k) = 0
<1>1. IsFiniteSet(DOMAIN f)
  BY LenProperties, FS_Interval
<1>2. IsFiniteSet({j \in DOMAIN f : j >= k /\ f[j].sq = q})
  BY <1>1, FS_Subset
<1>3. ReadsFrom(f, q, k) \in Nat
  BY <1>2, FS_CardinalityType DEF ReadsFrom
<1>4. ASSUME f = <<>> PROVE ReadsFrom(f, q, k) = 0
  <2>1. {j \in DOMAIN f : j >= k /\ f[j].sq = q} = {}
    BY <1>4
  <2> QED
    BY <2>1, FS_EmptySet DEF ReadsFrom
<1> QED
  BY <1>2, <1>3, <1>4

LEMMA ReadsOfTail ==
  ASSUME NEW f \in Seq(Read), f # <<>>, NEW q
  PROVE  /\ \A k \in Nat \ {0} : ReadsFrom(Tail(f), q, k) = ReadsFrom(f, q, k + 1)
         /\ ReadsFrom(f, q, 1) = IF Head(f).sq = q THEN ReadsFrom(f, q, 2) + 1
                                                   ELSE ReadsFrom(f, q, 2)
<1>1. /\ Len(f) \in Nat \ {0} /\ DOMAIN f = 1 .. Len(f) /\ Head(f) = f[1]
      /\ Tail(f) \in Seq(Read) /\ Len(Tail(f)) = Len(f) - 1 /\ DOMAIN Tail(f) = 1 .. Len(f) - 1
      /\ \A j \in 1 .. Len(f) - 1 : Tail(f)[j] = f[j + 1]
  BY EmptySeq, LenProperties, HeadTailProperties
<1> DEFINE t == Tail(f)
           In(g, k) == {j \in DOMAIN g : j >= k /\ g[j].sq = q}
<1> HIDE DEF t
<1>2. ASSUME NEW k \in Nat \ {0} PROVE ReadsFrom(t, q, k) = ReadsFrom(f, q, k + 1)
  <2>1. In(f, k + 1) = {n \in Nat : n - 1 \in In(t, k)}
    <3>1. ASSUME NEW n \in In(f, k + 1) PROVE n \in Nat /\ n - 1 \in In(t, k)
      <4>1. n \in Nat /\ n - 1 \in 1 .. Len(f) - 1 /\ (n - 1) + 1 = n /\ n - 1 >= k
        BY <1>1, <3>1
      <4> QED
        BY <1>1, <3>1, <4>1 DEF t
    <3>2. ASSUME NEW n \in Nat, n - 1 \in In(t, k) PROVE n \in In(f, k + 1)
      <4>1. n - 1 \in 1 .. Len(f) - 1 /\ n - 1 >= k /\ t[n - 1].sq = q /\ (n - 1) + 1 = n
        BY <1>1, <3>2 DEF t
      <4>2. n \in 1 .. Len(f) /\ n >= k + 1
        BY <1>1, <4>1
      <4>3. t[n - 1] = f[(n - 1) + 1]
        BY <1>1, <4>1, Zenon DEF t
      <4>4. f[n].sq = q
        BY <4>1, <4>3, Zenon
      <4> QED
        BY <1>1, <4>2, <4>4
    <3> HIDE DEF In
    <3>3. In(f, k + 1) \subseteq Nat
      BY <3>1
    <3> QED
      BY <3>1, <3>2, <3>3
  <2>2. IsFiniteSet(In(t, k)) /\ In(t, k) \subseteq Nat
    <3>1. t \in Seq(Read)
      BY <1>1 DEF t
    <3>2. IsFiniteSet(In(t, k))
      BY <3>1, ReadsCounted, Zenon
    <3>3. In(t, k) \subseteq Nat
      BY <1>1 DEF t
    <3> QED
      BY <3>2, <3>3
  <2> HIDE DEF In
  <2>3. Cardinality(In(f, k + 1)) = Cardinality(In(t, k))
    BY <2>1, <2>2, ShiftedCount
  <2> QED
    BY <2>3 DEF In, ReadsFrom
<1>3. ReadsFrom(f, q, 1) = IF Head(f).sq = q THEN ReadsFrom(f, q, 2) + 1
                                             ELSE ReadsFrom(f, q, 2)
  <2>1. IsFiniteSet(In(f, 2)) /\ 1 \notin In(f, 2)
    <3>1. IsFiniteSet(In(f, 2))
      BY ReadsCounted, Zenon
    <3> QED
      BY <3>1
  <2>2. CASE Head(f).sq = q
    <3>1. In(f, 1) = In(f, 2) \cup {1}
      BY <1>1, <2>2
    <3> HIDE DEF In
    <3>2. Cardinality(In(f, 1)) = Cardinality(In(f, 2)) + 1
      BY <2>1, <3>1, FS_AddElement
    <3> QED
      BY <2>2, <3>2 DEF In, ReadsFrom
  <2>3. CASE Head(f).sq # q
    <3>1. In(f, 1) = In(f, 2)
      BY <1>1, <2>3
    <3> QED
      BY <2>3, <3>1, Zenon DEF ReadsFrom
  <2> QED
    BY <2>2, <2>3
<1> QED
  BY <1>2, <1>3 DEF t

\* A read ends: the entry that is farthest from the tail has come to lSQFIFO.
LEMMA ReadEnds ==
  ASSUME NEW f \in Seq(Read), f # <<>>, NEW q, NEW queue \in SubmissionQueue, NEW O,
         SqOk(q, queue, f, O)
  PROVE  /\ SqOk(q, queue, Tail(f), O)
         /\ Head(f).sq # q =>
              \A i : WaitsIn(q, queue, Tail(f), i) <=> WaitsIn(q, queue, f, i)
         /\ Head(f).sq = q =>
              /\ queue.ring[Head(f).slot] \in O
              /\ WaitsIn(q, queue, f, queue.ring[Head(f).slot])
              /\ \A i : WaitsIn(q, queue, Tail(f), i)
                          <=> WaitsIn(q, queue, f, i) /\ i # queue.ring[Head(f).slot]
<1> DEFINE t == Tail(f)
           n == Depth(q, queue, f)
           m == Depth(q, queue, t)
<1>1. /\ Len(f) \in Nat \ {0} /\ DOMAIN f = 1 .. Len(f) /\ Head(f) = f[1]
      /\ t \in Seq(Read) /\ Len(t) = Len(f) - 1 /\ DOMAIN t = 1 .. Len(f) - 1
      /\ \A j \in 1 .. Len(f) - 1 : t[j] = f[j + 1]
  BY EmptySeq, LenProperties, HeadTailProperties
<1>2. /\ \A k \in Nat \ {0} : ReadsFrom(t, q, k) = ReadsFrom(f, q, k + 1)
      /\ ReadsFrom(f, q, 1) = IF Head(f).sq = q THEN ReadsFrom(f, q, 2) + 1
                                                ELSE ReadsFrom(f, q, 2)
  BY ReadsOfTail
<1>3. /\ Items(queue) \in Nat /\ ReadsFrom(f, q, 1) \in Nat /\ ReadsFrom(f, q, 2) \in Nat
      /\ ReadsFrom(t, q, 1) = ReadsFrom(f, q, 2)
  <2>1. 1 \in Nat \ {0} /\ 1 + 1 = 2
    OBVIOUS
  <2> QED
    BY <1>2, <2>1, ItemsNat, ReadsCounted
<1> HIDE DEF t
<1>4. n \in Nat /\ m \in Nat /\ m = IF Head(f).sq = q THEN n - 1 ELSE n
  <2>1. n = Items(queue) + ReadsFrom(f, q, 1) /\ m = Items(queue) + ReadsFrom(t, q, 1)
    BY Zenon DEF Depth
  <2> HIDE DEF n, m
  <2>2. ReadsFrom(f, q, 1) = IF Head(f).sq = q THEN ReadsFrom(t, q, 1) + 1
                                               ELSE ReadsFrom(t, q, 1)
    BY <1>2, <1>3
  <2> QED
    BY <1>3, <2>1, <2>2
<1>5. ASSUME NEW k \in DOMAIN t, t[k].sq = q
      PROVE  t[k].slot = Back(queue.tail, Items(queue) + ReadsFrom(t, q, k))
  <2>1. k \in Nat \ {0} /\ k + 1 \in DOMAIN f /\ t[k] = f[k + 1]
    BY <1>1
  <2>2. f[k + 1].slot = Back(queue.tail, Items(queue) + ReadsFrom(f, q, k + 1))
    BY <1>5, <2>1, Zenon DEF SqOk
  <2> QED
    BY <1>2, <2>1, <2>2
<1>6. Ring(queue, n, O)
  BY DEF SqOk
<1>7. CASE Head(f).sq # q
  <2>1. m = n
    BY <1>4, <1>7
  <2> QED
    BY <1>5, <1>6, <1>7, <2>1, Zenon DEF SqOk, WaitsIn, t
<1>8. CASE Head(f).sq = q
  <2>1. n \in Nat \ {0} /\ m = n - 1
    BY <1>4, <1>8
  <2>2. queue.ring[Head(f).slot] = EntryAt(queue, n)
    <3>1. 1 \in DOMAIN f
      BY <1>1
    <3>2. f[1].slot = Back(queue.tail, n)
      BY <1>1, <1>8, <3>1, Zenon DEF SqOk, Depth
    <3> QED
      BY <1>1, <3>2, Zenon DEF EntryAt
  <2> HIDE DEF n, m
  <2>3. /\ EntryAt(queue, n) \in O /\ InRing(queue, n, EntryAt(queue, n))
        /\ Ring(queue, n - 1, O)
        /\ \A i : InRing(queue, n - 1, i) <=> InRing(queue, n, i) /\ i # EntryAt(queue, n)
    BY <1>6, <2>1, RingShrinks
  <2> QED
    BY <1>5, <1>8, <2>1, <2>2, <2>3, Zenon DEF SqOk, WaitsIn, n, m, t
<1> QED
  BY <1>7, <1>8

\* The reads that a collection issues.
LEMMA IssuedReads ==
  ASSUME sq \in [SQ -> SubmissionQueue], NEW order \in Seq(SQ)
  PROVE  /\ Reads(order) \in Seq(Read) /\ DOMAIN Reads(order) = DOMAIN order
         /\ \A k \in DOMAIN order :
              /\ Reads(order)[k].sq = order[k]
              /\ Reads(order)[k].slot
                   = (sq[order[k]].head + Cardinality({j \in 1 .. k - 1 : order[j] = order[k]}))
                       % SqSize
<1> DEFINE r == Reads(order)
<1>1. /\ Len(order) \in Nat /\ DOMAIN order = 1 .. Len(order)
      /\ \A k \in 1 .. Len(order) : order[k] \in SQ
  BY LenProperties, ElementOfSeq
<1>2. ASSUME NEW k \in DOMAIN order
      PROVE  /\ r[k].sq = order[k]
             /\ r[k].slot
                  = (sq[order[k]].head + Cardinality({j \in 1 .. k - 1 : order[j] = order[k]}))
                      % SqSize
             /\ r[k] \in Read
  <2> DEFINE n == Cardinality({j \in 1 .. k - 1 : order[j] = order[k]})
             s == (sq[order[k]].head + n) % SqSize
  <2>1. r[k] = [sq |-> order[k], slot |-> s]
    BY Zenon DEF Reads
  <2>2. n \in Nat
    <3>1. \A m \in Int : IsFiniteSet(1 .. m)
      BY FS_Interval
    <3>2. IsFiniteSet(1 .. k - 1)
      BY <1>1, <3>1
    <3>3. IsFiniteSet({j \in 1 .. k - 1 : order[j] = order[k]})
      BY <3>2, FS_Subset
    <3> QED
      BY <3>3, FS_CardinalityType
  <2> HIDE DEF n
  <2>3. sq[order[k]].head \in Nat /\ SqSize \in Nat \ {0}
    BY <1>1, Constants, SMTT(30) DEF SubmissionQueue, Slot
  <2>4. s \in Slot(SqSize)
    BY <2>2, <2>3 DEF Slot
  <2> HIDE DEF s
  <2> QED
    BY <1>1, <2>1, <2>4 DEF Read, s, n
<1>3. DOMAIN r = DOMAIN order /\ r = [k \in DOMAIN order |-> r[k]]
  BY Zenon DEF Reads
<1> HIDE DEF r
<1>4. r \in [1 .. Len(order) -> Read]
  BY <1>1, <1>2, <1>3
<1>5. r \in Seq(Read)
  BY <1>1, <1>4, SeqDef
<1> QED
  BY <1>2, <1>3, <1>5 DEF r

LEMMA FetchedHead ==
  ASSUME sq \in [SQ -> SubmissionQueue], NEW order \in Seq(SQ), NEW q \in SQ
  PROVE  /\ Fetched(order)[q] = [sq[q] EXCEPT !.head = (@ + CountOf(order, q)) % SqSize]
         /\ Fetched(order)[q] \in SubmissionQueue
         /\ Fetched(order)[q].head = (sq[q].head + CountOf(order, q)) % SqSize
         /\ Fetched(order)[q].tail = sq[q].tail /\ Fetched(order)[q].ring = sq[q].ring
         /\ Fetched(order)[q].exists = sq[q].exists
<1>1. Fetched(order)[q] = [sq[q] EXCEPT !.head = (@ + CountOf(order, q)) % SqSize]
  BY Zenon DEF Fetched, CountOf
<1>2. /\ sq[q] \in SubmissionQueue /\ sq[q].head \in Nat /\ SqSize \in Nat \ {0}
      /\ CountOf(order, q) \in Nat
  <2>1. CountOf(order, q) \in Nat
    BY CountIn
  <2> QED
    BY <2>1, Constants DEF SubmissionQueue, Slot
<1> DEFINE h == (sq[q].head + CountOf(order, q)) % SqSize
<1>3. h \in Slot(SqSize)
  BY <1>2 DEF Slot
<1>4. Fetched(order)[q] = [sq[q] EXCEPT !.head = h]
  BY <1>1
<1> HIDE DEF h
<1>5. /\ Fetched(order)[q] \in SubmissionQueue
      /\ Fetched(order)[q].head = h
      /\ Fetched(order)[q].tail = sq[q].tail /\ Fetched(order)[q].ring = sq[q].ring
      /\ Fetched(order)[q].exists = sq[q].exists
  BY <1>2, <1>3, <1>4 DEF SubmissionQueue
<1> QED
  BY <1>1, <1>5 DEF h

\* The entries that were before the k-th place of the order, and those from it on.
LEMMA CountSplits ==
  ASSUME sq \in [SQ -> SubmissionQueue], NEW order \in Seq(SQ), NEW q, NEW k \in DOMAIN order
  PROVE  /\ Cardinality({j \in 1 .. k - 1 : order[j] = q}) \in Nat
         /\ ReadsFrom(Reads(order), q, k) \in Nat
         /\ CountOf(order, q) = Cardinality({j \in 1 .. k - 1 : order[j] = q})
                                  + ReadsFrom(Reads(order), q, k)
<1> DEFINE A == {j \in 1 .. k - 1 : order[j] = q}
           B == {j \in DOMAIN order : j >= k /\ order[j] = q}
           C == {j \in DOMAIN order : order[j] = q}
<1>1. Len(order) \in Nat /\ DOMAIN order = 1 .. Len(order)
  BY LenProperties
<1>2. IsFiniteSet(DOMAIN order)
  BY <1>1, FS_Interval
<1>3. C = A \cup B /\ A \cap B = {} /\ A \subseteq DOMAIN order /\ B \subseteq DOMAIN order
  BY <1>1
<1>4. {j \in DOMAIN Reads(order) : j >= k /\ Reads(order)[j].sq = q} = B
  BY IssuedReads
<1>5. ReadsFrom(Reads(order), q, k) = Cardinality(B) /\ CountOf(order, q) = Cardinality(C)
  BY <1>4, Zenon DEF ReadsFrom, CountOf
<1> HIDE DEF A, B, C
<1>6. IsFiniteSet(A) /\ IsFiniteSet(B)
  BY <1>2, <1>3, FS_Subset
<1>7. Cardinality(A) \in Nat /\ Cardinality(B) \in Nat
  BY <1>6, FS_CardinalityType
<1>8. Cardinality(C) = Cardinality(A) + Cardinality(B)
  <2>1. Cardinality(A \cup B) = Cardinality(A) + Cardinality(B) - Cardinality(A \cap B)
    BY <1>6, FS_Union
  <2>2. Cardinality(A \cap B) = 0
    BY <1>3, FS_EmptySet
  <2> QED
    BY <1>3, <1>7, <2>1, <2>2
<1> QED
  BY <1>5, <1>7, <1>8 DEF A

\* A collection moves the entries from the queue to the reads.
LEMMA Collected ==
  ASSUME sq \in [SQ -> SubmissionQueue], NEW order \in Seq(SQ), NEW q \in SQ,
         CountOf(order, q) <= Items(sq[q]), NEW O, SqOk(q, sq[q], <<>>, O)
  PROVE  /\ Items(Fetched(order)[q]) = Items(sq[q]) - CountOf(order, q)
         /\ SqOk(q, Fetched(order)[q], Reads(order), O)
         /\ \A i : WaitsIn(q, Fetched(order)[q], Reads(order), i)
                     <=> WaitsIn(q, sq[q], <<>>, i)
<1> DEFINE old == sq[q]
           new == Fetched(order)[q]
           f == Reads(order)
           c == CountOf(order, q)
<1>1. /\ new \in SubmissionQueue /\ new.head = (old.head + c) % SqSize
      /\ new.tail = old.tail /\ new.ring = old.ring
  BY FetchedHead
<1>2. /\ SqSize \in Nat /\ SqSize > 1 /\ old \in SubmissionQueue
      /\ old.head \in 0 .. SqSize - 1 /\ old.tail \in 0 .. SqSize - 1
  BY Constants DEF SubmissionQueue, Slot
<1>3. /\ c \in Nat /\ Items(old) \in 0 .. SqSize - 1 /\ c <= Items(old)
      /\ Items(new) \in 0 .. SqSize - 1
      /\ Items(old) = ItemCount(old.head, old.tail, SqSize)
      /\ Items(new) = ItemCount(new.head, new.tail, SqSize)
  <2>1. c \in Nat
    BY CountIn
  <2> QED
    BY <1>1, <1>2, <2>1, ItemsNat DEF Items
<1>4. f \in Seq(Read) /\ DOMAIN f = DOMAIN order
      /\ DOMAIN order = 1 .. Len(order) /\ Len(order) \in Nat
  BY IssuedReads, LenProperties
<1>5. <<>> \in Seq(Read) /\ ReadsFrom(<<>>, q, 1) = 0
  <2>1. <<>> \in Seq(Read)
    BY EmptySeq
  <2> QED
    BY <2>1, ReadsCounted
<1>6. ReadsFrom(f, q, 1) = c
  <2>1. {j \in DOMAIN f : j >= 1 /\ f[j].sq = q} = {j \in DOMAIN order : order[j] = q}
    <3>1. \A j \in DOMAIN order : f[j].sq = order[j]
      BY IssuedReads
    <3>2. \A j \in DOMAIN order : j >= 1
      BY <1>4
    <3> QED
      BY <1>4, <3>1, <3>2, Zenon
  <2> QED
    BY <2>1, Zenon DEF ReadsFrom, CountOf
<1> HIDE DEF old, new, f, c
<1>7. ASSUME NEW n \in Nat, n <= Items(old)
      PROVE  (old.head + n) % SqSize = IF old.head + n < SqSize THEN old.head + n
                                                              ELSE old.head + n - SqSize
  <2>1. SqSize \in Nat \ {0} /\ old.head \in Nat /\ n \in Nat /\ old.head + n < SqSize + SqSize
    BY <1>2, <1>3, <1>7
  <2> QED
    BY <2>1, WrapSum, Zenon
<1>8. Items(new) = Items(old) - c
  <2>1. new.head = IF old.head + c < SqSize THEN old.head + c ELSE old.head + c - SqSize
    BY <1>1, <1>3, <1>7, Zenon
  <2>2. new.tail = old.tail
    BY <1>1
  <2> QED
    BY <1>2, <1>3, <2>1, <2>2, SMTT(30) DEF ItemCount
<1>9. Depth(q, new, f) = Items(old) /\ Depth(q, old, <<>>) = Items(old)
  BY <1>3, <1>5, <1>6, <1>8 DEF Depth
<1>10. ASSUME NEW k \in DOMAIN f, f[k].sq = q
       PROVE  f[k].slot = Back(new.tail, Items(new) + ReadsFrom(f, q, k))
  <2> DEFINE n == Cardinality({j \in 1 .. k - 1 : order[j] = q})
  <2>1. order[k] = q /\ f[k].slot = (old.head + n) % SqSize
    <3>1. order[k] = q
      BY <1>4, <1>10, IssuedReads, Zenon DEF f
    <3>2. f[k].slot = (sq[order[k]].head + Cardinality({j \in 1 .. k - 1 : order[j] = order[k]}))
                        % SqSize
      BY <1>4, IssuedReads, Zenon DEF f
    <3> QED
      BY <3>1, <3>2, Zenon DEF old
  <2>2. n \in Nat /\ ReadsFrom(f, q, k) \in Nat /\ c = n + ReadsFrom(f, q, k)
    BY <1>4, CountSplits DEF f, c
  <2> HIDE DEF n
  <2>3. f[k].slot = IF old.head + n < SqSize THEN old.head + n ELSE old.head + n - SqSize
    BY <1>3, <1>7, <2>1, <2>2
  <2>4. Items(new) + ReadsFrom(f, q, k) = Items(old) - n
    BY <1>3, <1>8, <2>2
  <2>5. new.tail = old.tail
    BY <1>1
  <2>6. n <= Items(old)
    BY <1>3, <2>2
  <2>7. f[k].slot = Back(old.tail, Items(old) - n)
    <3> DEFINE h == old.head
               t == old.tail
               I == Items(old)
    <3>1. /\ SqSize \in Nat /\ h \in 0 .. SqSize - 1 /\ t \in 0 .. SqSize - 1
          /\ I = IF t >= h THEN t - h ELSE (SqSize - h) + t
          /\ n \in 0 .. I
      BY <1>2, <1>3, <2>2, <2>6 DEF ItemCount
    <3>2. f[k].slot = IF h + n < SqSize THEN h + n ELSE h + n - SqSize
      BY <2>3
    <3> HIDE DEF h, t, I
    <3>3. Back(t, I - n) = IF h + n < SqSize THEN h + n ELSE h + n - SqSize
      BY <3>1 DEF Back
    <3> QED
      BY <3>2, <3>3 DEF t, I
  <2> QED
    BY <2>4, <2>5, <2>7, Zenon
<1>11. Ring(old, Items(old), O)
  BY <1>9, Zenon DEF SqOk, old
<1>12. /\ Ring(new, Items(old), O)
       /\ \A i : InRing(new, Items(old), i) <=> InRing(old, Items(old), i)
  <2>1. \A i : InRing(old, Items(old), i) => i \in O
    BY <1>11, Zenon DEF InRing, Ring
  <2> QED
    BY <1>1, <1>11, <2>1, RingStays
<1> QED
  BY <1>8, <1>9, <1>10, <1>12, Zenon DEF SqOk, WaitsIn, old, new, f, c

\* A collection reads a queue when it takes entries from it.
LEMMA ReadsWhat ==
  ASSUME sq \in [SQ -> SubmissionQueue], NEW order \in Seq(SQ), NEW q
  PROVE  (\E k \in DOMAIN Reads(order) : Reads(order)[k].sq = q) <=> CountOf(order, q) # 0
<1>1. (\E k \in DOMAIN Reads(order) : Reads(order)[k].sq = q) <=> Occurs(q, order)
  BY IssuedReads, Zenon DEF Occurs
<1> QED
  BY <1>1, CountIn, Zenon

\* A queue with a new entry.
Pushed(queue, x) == [queue EXCEPT !.ring = [@ EXCEPT ![queue.tail] = x],
                                  !.tail = (@ + 1) % SqSize]

LEMMA PushedQueue ==
  ASSUME NEW queue \in SubmissionQueue, NEW x \in Tag
  PROVE  LET more == Pushed(queue, x)
         IN  /\ more \in SubmissionQueue
             /\ more.exists = queue.exists /\ more.head = queue.head
             /\ more.tail = (queue.tail + 1) % SqSize
             /\ more.tail = IF queue.tail + 1 < SqSize THEN queue.tail + 1 ELSE 0
             /\ more.ring = [queue.ring EXCEPT ![queue.tail] = x]
<1> DEFINE tail == (queue.tail + 1) % SqSize
           ring == [queue.ring EXCEPT ![queue.tail] = x]
<1>1. /\ SqSize \in Nat \ {0} /\ queue.exists \in BOOLEAN
      /\ queue.head \in Slot(SqSize) /\ queue.tail \in 0 .. SqSize - 1
      /\ queue.ring \in [Slot(SqSize) -> Tag] /\ 0 .. SqSize - 1 = Slot(SqSize)
      /\ queue = [exists |-> queue.exists, head |-> queue.head, tail |-> queue.tail,
                  ring |-> queue.ring]
  BY Constants DEF SubmissionQueue, Slot
<1>2. tail = (IF queue.tail + 1 < SqSize THEN queue.tail + 1 ELSE 0) /\ tail \in Slot(SqSize)
  BY <1>1, NextSlot
<1>3. ring \in [Slot(SqSize) -> Tag]
  BY <1>1
<1>4. Pushed(queue, x) = [queue EXCEPT !.ring = ring, !.tail = tail]
  BY Zenon DEF Pushed
<1> HIDE DEF tail, ring
<1>5. Pushed(queue, x) = [exists |-> queue.exists, head |-> queue.head, tail |-> tail,
                          ring |-> ring]
  BY <1>1, <1>4
<1>6. Pushed(queue, x) \in SubmissionQueue
  BY <1>1, <1>2, <1>3, <1>5 DEF SubmissionQueue
<1>7. /\ Pushed(queue, x).exists = queue.exists /\ Pushed(queue, x).head = queue.head
      /\ Pushed(queue, x).tail = tail /\ Pushed(queue, x).ring = ring
  BY <1>5
<1> QED
  BY <1>2, <1>6, <1>7, Zenon DEF tail, ring

\* A command is submitted to a queue that has a slot for it.
LEMMA SubmitOne ==
  ASSUME NEW q, NEW queue \in SubmissionQueue, NEW f \in Seq(Read), NEW O, NEW x \in Tag,
         SqOk(q, queue, f, O), IsFiniteSet(O), Cardinality(O) < SqSize - 1, x \notin O
  PROVE  LET more == Pushed(queue, x)
         IN  /\ Items(more) = Items(queue) + 1
             /\ SqOk(q, more, f, O \cup {x})
             /\ \A i : WaitsIn(q, more, f, i) <=> WaitsIn(q, queue, f, i) \/ i = x
             /\ \A i : InRing(more, Items(more), i) <=> InRing(queue, Items(queue), i) \/ i = x
<1> DEFINE n == Depth(q, queue, f)
           more == Pushed(queue, x)
           tail == more.tail
<1>1. /\ SqSize \in Nat /\ SqSize > 1
      /\ queue.head \in 0 .. SqSize - 1 /\ queue.tail \in 0 .. SqSize - 1
  BY Constants DEF SubmissionQueue, Slot
<1>2. /\ more.head = queue.head
      /\ tail = IF queue.tail + 1 < SqSize THEN queue.tail + 1 ELSE 0
  BY PushedQueue, Zenon
<1>3. /\ more.tail = (queue.tail + 1) % SqSize
      /\ more.ring = [queue.ring EXCEPT ![queue.tail] = x]
  BY PushedQueue, Zenon
<1> HIDE DEF more
<1>8. /\ Items(queue) \in Nat /\ ReadsFrom(f, q, 1) \in Nat
      /\ \A k : ReadsFrom(f, q, k) \in Nat
      /\ n = Items(queue) + ReadsFrom(f, q, 1) /\ n \in Nat
  <2>1. Items(queue) \in Nat /\ \A k : ReadsFrom(f, q, k) \in Nat
    BY ItemsNat, ReadsCounted
  <2>2. n = Items(queue) + ReadsFrom(f, q, 1)
    BY Zenon DEF Depth
  <2> HIDE DEF n
  <2> QED
    BY <2>1, <2>2
<1>9. Ring(queue, n, O)
  BY DEF SqOk
<1>10. n + 1 < SqSize
  <2>1. n <= Cardinality(O)
    <3> HIDE DEF n
    <3> QED
      BY <1>8, <1>9, RingSize
  <2>2. Cardinality(O) \in Nat
    BY FS_CardinalityType
  <2> QED
    BY <1>1, <1>8, <2>1, <2>2
<1>11. Items(more) = Items(queue) + 1
  <2>1. Items(queue) + 1 < SqSize
    BY <1>1, <1>8, <1>10
  <2>2. /\ Items(more) = ItemCount(queue.head, tail, SqSize)
        /\ Items(queue) = ItemCount(queue.head, queue.tail, SqSize)
    BY <1>2, Zenon DEF Items
  <2> DEFINE h == queue.head
             t == queue.tail
  <2>3. /\ h \in 0 .. SqSize - 1 /\ t \in 0 .. SqSize - 1 /\ SqSize \in Nat
        /\ tail = IF t + 1 < SqSize THEN t + 1 ELSE 0
        /\ ItemCount(h, t, SqSize) + 1 < SqSize
    BY <1>1, <1>2, <2>1, <2>2
  <2> HIDE DEF h, t, tail
  <2>4. ItemCount(h, tail, SqSize) = ItemCount(h, t, SqSize) + 1
    BY <2>3 DEF ItemCount
  <2> QED
    BY <2>2, <2>4 DEF h, t
<1>12. Depth(q, more, f) = n + 1
  BY <1>8, <1>11 DEF Depth
<1>13. \A m \in Nat : Ring(queue, m, O) /\ m + 1 < SqSize =>
         /\ Ring(more, m + 1, O \cup {x})
         /\ \A i : InRing(more, m + 1, i) <=> InRing(queue, m, i) \/ i = x
  <2> TAKE m \in Nat
  <2> HAVE Ring(queue, m, O) /\ m + 1 < SqSize
  <2> QED
    BY <1>3, RingGrows, Zenon
<1>14. Ring(queue, Items(queue), O) /\ Items(queue) + 1 < SqSize
  <2>1. \A d \in 1 .. Items(queue) : d \in 1 .. n
    BY <1>8
  <2> QED
    BY <1>1, <1>8, <1>9, <1>10, <2>1 DEF Ring
<1>15. ASSUME NEW k \in DOMAIN f, f[k].sq = q
       PROVE  f[k].slot = Back(more.tail, Items(more) + ReadsFrom(f, q, k))
  <2>1. f[k].slot = Back(queue.tail, Items(queue) + ReadsFrom(f, q, k))
    BY <1>15, Zenon DEF SqOk
  <2>2. ReadsFrom(f, q, k) <= ReadsFrom(f, q, 1) /\ ReadsFrom(f, q, k) >= 1
    <3> DEFINE A == {j \in DOMAIN f : j >= k /\ f[j].sq = q}
               B == {j \in DOMAIN f : j >= 1 /\ f[j].sq = q}
    <3>1. DOMAIN f = 1 .. Len(f) /\ Len(f) \in Nat
      BY LenProperties
    <3>2. A \subseteq B /\ k \in A
      BY <1>15, <3>1
    <3>3. IsFiniteSet(A) /\ IsFiniteSet(B)
      BY ReadsCounted, Zenon
    <3>4. ReadsFrom(f, q, k) = Cardinality(A) /\ ReadsFrom(f, q, 1) = Cardinality(B)
      BY Zenon DEF ReadsFrom
    <3> HIDE DEF A, B
    <3>5. Cardinality(A) <= Cardinality(B) /\ Cardinality(A) # 0
      BY <3>2, <3>3, FS_Subset, FS_EmptySet
    <3> QED
      BY <1>8, <3>4, <3>5
  <2> DEFINE e == Items(queue) + ReadsFrom(f, q, k)
  <2>3. e \in Nat /\ e >= 1 /\ e + 1 < SqSize /\ Items(more) + ReadsFrom(f, q, k) = e + 1
    BY <1>1, <1>8, <1>10, <1>11, <2>2
  <2> HIDE DEF e, tail
  <2>4. Back(tail, e + 1) = Back(queue.tail, e)
    <3> DEFINE t == queue.tail
    <3>1. /\ SqSize \in Nat /\ SqSize > 1 /\ t \in 0 .. SqSize - 1
          /\ tail = IF t + 1 < SqSize THEN t + 1 ELSE 0
      BY <1>1, <1>2
    <3> HIDE DEF t
    <3>2. Back(tail, e + 1) = Back(t, e)
      BY <2>3, <3>1 DEF Back
    <3> QED
      BY <3>2 DEF t
  <2> QED
    BY <2>1, <2>3, <2>4 DEF e, tail
<1> QED
  <2> HIDE DEF n
  <2>1. /\ Ring(more, n + 1, O \cup {x})
        /\ \A i : InRing(more, n + 1, i) <=> InRing(queue, n, i) \/ i = x
    BY <1>8, <1>9, <1>10, <1>13, Zenon
  <2>2. \A i : InRing(more, Items(more), i) <=> InRing(queue, Items(queue), i) \/ i = x
    BY <1>8, <1>11, <1>13, <1>14
  <2> QED
    BY <1>11, <1>12, <1>15, <2>1, <2>2, Zenon DEF SqOk, WaitsIn, n, more

\* Its entries stay in a queue while other members of it change.
LEMMA SqStays ==
  ASSUME NEW q, NEW queue, NEW f, NEW O, SqOk(q, queue, f, O), NEW other,
         other.head = queue.head, other.tail = queue.tail, other.ring = queue.ring,
         NEW U, \A i : WaitsIn(q, queue, f, i) => i \in U
  PROVE  /\ SqOk(q, other, f, U) /\ Items(other) = Items(queue)
         /\ \A i : WaitsIn(q, other, f, i) <=> WaitsIn(q, queue, f, i)
         /\ \A i, n : InRing(other, n, i) <=> InRing(queue, n, i)
<1>1. Items(other) = Items(queue)
  BY Zenon DEF Items
<1>2. Depth(q, other, f) = Depth(q, queue, f)
  BY <1>1, Zenon DEF Depth
<1>3. /\ Ring(other, Depth(q, queue, f), U)
      /\ \A i : InRing(other, Depth(q, queue, f), i) <=> InRing(queue, Depth(q, queue, f), i)
  <2>1. \A i : InRing(queue, Depth(q, queue, f), i) => i \in U
    BY Zenon DEF WaitsIn
  <2>2. Ring(queue, Depth(q, queue, f), O)
    BY Zenon DEF SqOk
  <2> QED
    BY <2>1, <2>2, RingStays
<1>4. \A d : EntryAt(other, d) = EntryAt(queue, d)
  BY Zenon DEF EntryAt
<1>5. \A i, n : InRing(other, n, i) <=> InRing(queue, n, i)
  BY <1>4, Zenon DEF InRing
<1>6. SqOk(q, other, f, U)
  BY <1>1, <1>2, <1>3, Zenon DEF SqOk
<1> QED
  BY <1>1, <1>2, <1>3, <1>5, <1>6, Zenon DEF WaitsIn

\* All that is in a queue is in the set it is from.
LEMMA WaitsAmong ==
  ASSUME NEW q, NEW queue, NEW f, NEW O, SqOk(q, queue, f, O), NEW i, WaitsIn(q, queue, f, i)
  PROVE  i \in O
BY Zenon DEF SqOk, Ring, WaitsIn, InRing

\* A queue that was just created, or that holds nothing.
LEMMA SqEmpty ==
  ASSUME NEW q, NEW queue \in SubmissionQueue, NEW f \in Seq(Read), Items(queue) = 0,
         \A k \in DOMAIN f : f[k].sq # q, NEW O
  PROVE  /\ SqOk(q, queue, f, O) /\ \A i : ~WaitsIn(q, queue, f, i)
<1>1. ReadsFrom(f, q, 1) = 0
  <2>1. {j \in DOMAIN f : j >= 1 /\ f[j].sq = q} = {}
    OBVIOUS
  <2> QED
    BY <2>1, FS_EmptySet DEF ReadsFrom
<1>2. Depth(q, queue, f) = 0
  BY <1>1 DEF Depth
<1>3. 1 .. 0 = {} /\ 0 < SqSize
  BY Constants
<1>4. Ring(queue, 0, O) /\ \A i : ~InRing(queue, 0, i)
  BY <1>3 DEF Ring, InRing
<1> QED
  BY <1>2, <1>4, Zenon DEF SqOk, WaitsIn

-----------------------------------------------------------------------------
(* Completion queues: the entries that are posted and not read. *)

\* The phase of a new entry in a slot, seen from what the host reads next.
Expected(r, s) == r.phase = (s >= r.slot)
Used(queue, s) ==
  ItemCount(queue.head, s, CqSize) < ItemCount(queue.head, queue.tail, CqSize)

\* A new entry is in the memory of the host, or its DMA write is one of P.
Landed(queue, r, s, i) == queue.ring[s] = [id |-> i, phase |-> Expected(r, s)]
InFlight(c, r, P, s, i) ==
  [cq |-> c, slot |-> s, entry |-> [id |-> i, phase |-> Expected(r, s)]] \in P
Holds(c, queue, r, P, s, i) == Landed(queue, r, s, i) \/ InFlight(c, r, P, s, i)
Held(c, queue, r, P, i) == \E s \in Slot(CqSize) : Holds(c, queue, r, P, s, i)

\* The slots in use hold one new entry each, of a command of O, and no other slot does.
CqOk(c, queue, r, P, O) ==
  /\ queue.exists /\ r.slot = queue.head
  /\ queue.phase = Expected(r, queue.tail)
  /\ \A w \in P : w.cq = c => w.entry.phase = Expected(r, w.slot)
  /\ \A s \in Slot(CqSize) : Used(queue, s) => \E i \in O : Holds(c, queue, r, P, s, i)
  /\ \A s \in Slot(CqSize), i \in Tag :
       Holds(c, queue, r, P, s, i) => Used(queue, s) /\ i \in O
  /\ \A s \in Slot(CqSize), i, j \in Tag :
       Holds(c, queue, r, P, s, i) /\ InFlight(c, r, P, s, j) =>
         i = j /\ ~Landed(queue, r, s, i)
  /\ \A s, t \in Slot(CqSize), i \in Tag :
       Holds(c, queue, r, P, s, i) /\ Holds(c, queue, r, P, t, i) => s = t

LEMMA UsedGrows ==
  ASSUME NEW n \in Nat, n > 1, NEW h \in 0 .. n - 1, NEW t \in 0 .. n - 1,
         ItemCount(h, t, n) + 1 < n, NEW u, u = IF t + 1 < n THEN t + 1 ELSE 0
  PROVE  /\ u # h /\ ~(ItemCount(h, t, n) < ItemCount(h, t, n))
         /\ \A s \in 0 .. n - 1 : ItemCount(h, s, n) < ItemCount(h, u, n)
                                    <=> ItemCount(h, s, n) < ItemCount(h, t, n) \/ s = t
BY DEF ItemCount

LEMMA UsedShrinks ==
  ASSUME NEW n \in Nat, n > 1, NEW h \in 0 .. n - 1, NEW t \in 0 .. n - 1,
         NEW u, u = IF h + 1 < n THEN h + 1 ELSE 0,
         ItemCount(h, h, n) < ItemCount(h, t, n)
  PROVE  /\ t # h
         /\ \A s \in 0 .. n - 1 : ItemCount(u, s, n) < ItemCount(u, t, n)
                                    <=> ItemCount(h, s, n) < ItemCount(h, t, n) /\ s # h
BY DEF ItemCount

\* CQueue::setData() and the phase: the host will take the entry at the new tail for a
\* new one when it is written.
LEMMA NextTail ==
  ASSUME NEW queue \in CompletionQueue
  PROVE  LET next == SetData(queue)
         IN  /\ next \in CompletionQueue
             /\ next.exists = queue.exists /\ next.head = queue.head /\ next.ring = queue.ring
             /\ next.tail = IF queue.tail + 1 < CqSize THEN queue.tail + 1 ELSE 0
             /\ next.phase = IF next.tail = 0 THEN ~queue.phase ELSE queue.phase
<1> DEFINE tail == (queue.tail + 1) % CqSize
           phase == IF tail = 0 THEN ~queue.phase ELSE queue.phase
<1>1. /\ CqSize \in Nat \ {0} /\ queue.exists \in BOOLEAN /\ queue.phase \in BOOLEAN
      /\ queue.head \in Slot(CqSize) /\ queue.tail \in 0 .. CqSize - 1
      /\ queue.ring \in [Slot(CqSize) -> Entry] /\ 0 .. CqSize - 1 = Slot(CqSize)
      /\ queue = [exists |-> queue.exists, head |-> queue.head, tail |-> queue.tail,
                  phase |-> queue.phase, ring |-> queue.ring]
  BY Constants DEF CompletionQueue, Slot
<1>2. tail = (IF queue.tail + 1 < CqSize THEN queue.tail + 1 ELSE 0) /\ tail \in Slot(CqSize)
  BY <1>1, NextSlot
<1>3. phase \in BOOLEAN
  BY <1>1
<1>4. SetData(queue) = [queue EXCEPT !.tail = tail, !.phase = phase]
  BY Zenon DEF SetData
<1> HIDE DEF tail
<1> HIDE DEF phase
<1>5. SetData(queue) = [exists |-> queue.exists, head |-> queue.head, tail |-> tail,
                        phase |-> phase, ring |-> queue.ring]
  BY <1>1, <1>4
<1>6. SetData(queue) \in CompletionQueue
  BY <1>1, <1>2, <1>3, <1>5 DEF CompletionQueue
<1>7. /\ SetData(queue).exists = queue.exists /\ SetData(queue).head = queue.head
      /\ SetData(queue).tail = tail /\ SetData(queue).ring = queue.ring
      /\ SetData(queue).phase = phase
  BY <1>5
<1> QED
  BY <1>2, <1>6, <1>7, Zenon DEF phase

LEMMA PhaseOfTail ==
  ASSUME NEW queue \in CompletionQueue, NEW r \in Position, r.slot = queue.head,
         queue.phase = Expected(r, queue.tail), SetData(queue).tail # queue.head
  PROVE  SetData(queue).phase = Expected(r, SetData(queue).tail)
<1> DEFINE t == queue.tail
           u == SetData(queue).tail
           n == CqSize
           h == r.slot
<1>1. /\ n \in Nat /\ n > 1 /\ t \in 0 .. n - 1 /\ h \in 0 .. n - 1 /\ r.phase \in BOOLEAN
      /\ queue.phase \in BOOLEAN
  BY Constants DEF CompletionQueue, Position, Slot
<1>2. /\ u = IF t + 1 < n THEN t + 1 ELSE 0
      /\ SetData(queue).phase = IF u = 0 THEN ~queue.phase ELSE queue.phase
      /\ u # h
  BY NextTail, Zenon
<1>3. IF u = 0 THEN t >= h /\ ~(u >= h) ELSE (u >= h <=> t >= h)
  <2> HIDE DEF t, u, n, h
  <2> QED
    BY <1>1, <1>2
<1>4. queue.phase = (r.phase = (t >= h))
  BY DEF Expected
<1> HIDE DEF t, u, n, h
<1>5. SetData(queue).phase = (r.phase = (u >= h))
  BY <1>1, <1>2, <1>3, <1>4
<1> QED
  BY <1>5 DEF Expected, u, h

\* A completion queue holds no more entries than there are commands to hold.
LEMMA EntriesBounded ==
  ASSUME NEW c, NEW queue \in CompletionQueue, NEW r, NEW P, NEW O, O \subseteq Tag,
         CqOk(c, queue, r, P, O), NEW U, IsFiniteSet(U),
         \A i \in O : Held(c, queue, r, P, i) => i \in U
  PROVE  ItemCount(queue.head, queue.tail, CqSize) <= Cardinality(U)
<1> DEFINE N == ItemCount(queue.head, queue.tail, CqSize)
           h == queue.head
           at(k) == IF h + k - 1 < CqSize THEN h + k - 1 ELSE h + k - 1 - CqSize
           H(s, i) == Holds(c, queue, r, P, s, i)
           f == [k \in 1 .. N |-> CHOOSE i \in O : H(at(k), i)]
<1>1. /\ CqSize \in Nat /\ CqSize > 1 /\ h \in 0 .. CqSize - 1 /\ queue.tail \in 0 .. CqSize - 1
      /\ Slot(CqSize) = 0 .. CqSize - 1
  BY Constants DEF CompletionQueue, Slot
<1>2. N \in 0 .. CqSize - 1
  <2>1. CqSize \in Nat \ {0}
    BY <1>1
  <2> QED
    BY <1>1, <2>1, ItemsBounded
<1>3. ASSUME NEW k \in 1 .. N
      PROVE  at(k) \in Slot(CqSize) /\ ItemCount(h, at(k), CqSize) = k - 1 /\ k - 1 < N
  <2> HIDE DEF h, N
  <2> QED
    BY <1>1, <1>2 DEF ItemCount
<1>4. \A k, l \in 1 .. N : at(k) = at(l) => k = l
  <2> HIDE DEF h, N
  <2> QED
    BY <1>1, <1>2
<1> HIDE DEF at
<1>5. ASSUME NEW k \in 1 .. N PROVE f[k] \in O /\ f[k] \in U /\ H(at(k), f[k])
  <2>1. Used(queue, at(k))
    BY <1>3 DEF Used
  <2>2. \E i \in O : H(at(k), i)
    BY <1>3, <2>1, Zenon DEF CqOk
  <2>3. f[k] = CHOOSE i \in O : H(at(k), i)
    OBVIOUS
  <2> HIDE DEF f, H
  <2>4. f[k] \in O /\ H(at(k), f[k])
    BY <2>2, <2>3, Zenon
  <2>5. Held(c, queue, r, P, f[k])
    BY <1>3, <2>4, Zenon DEF Held, H
  <2> QED
    BY <2>4, <2>5
<1>6. ASSUME NEW k \in 1 .. N, NEW l \in 1 .. N, f[k] = f[l] PROVE k = l
  <2>1. f[k] \in Tag
    BY <1>5
  <2>2. H(at(k), f[k]) /\ H(at(l), f[k]) /\ at(k) \in Slot(CqSize) /\ at(l) \in Slot(CqSize)
    BY <1>3, <1>5, <1>6, Zenon
  <2> HIDE DEF f
  <2>3. at(k) = at(l)
    BY <2>1, <2>2, Zenon DEF CqOk
  <2> QED
    BY <1>4, <2>3, Zenon
<1>7. f \in [1 .. N -> U]
  <2>1. DOMAIN f = 1 .. N /\ f = [k \in 1 .. N |-> f[k]]
    OBVIOUS
  <2> HIDE DEF f
  <2> QED
    BY <1>5, <2>1
<1> HIDE DEF f
<1>8. Cardinality(1 .. N) <= Cardinality(U)
  BY <1>6, <1>7, NoMoreThan
<1>9. \A m \in Nat : Cardinality(1 .. m) = m
  BY FS_Interval
<1> QED
  BY <1>2, <1>8, <1>9

\* The write that completion() issues for a command, at the tail of the queue.
WriteOf(c, queue, i) ==
  [cq |-> c, slot |-> queue.tail, entry |-> [id |-> i, phase |-> queue.phase]]

\* A completion is posted: the tail moves, and does not run into the head.
LEMMA PostOne ==
  ASSUME NEW c \in CQ, NEW queue \in CompletionQueue, NEW r \in Position,
         NEW P \in SUBSET Write, NEW O, O \subseteq Tag, IsFiniteSet(O),
         Cardinality(O) <= CqSize - 1, CqOk(c, queue, r, P, O),
         NEW i \in O, ~Held(c, queue, r, P, i)
  PROVE  LET next == SetData(queue)
             Q == P \cup {WriteOf(c, queue, i)}
         IN  /\ next.tail # next.head
             /\ CqOk(c, next, r, Q, O)
             /\ \A j \in Tag : Held(c, next, r, Q, j) <=> Held(c, queue, r, P, j) \/ j = i
<1> DEFINE next == SetData(queue)
           w == WriteOf(c, queue, i)
           Q == P \cup {w}
           t == queue.tail
           n == CqSize
           h == queue.head
<1>1. /\ n \in Nat /\ n > 1 /\ t \in 0 .. n - 1 /\ h \in 0 .. n - 1
      /\ Slot(n) = 0 .. n - 1 /\ queue.exists
  BY Constants DEF CompletionQueue, Slot, CqOk
<1>2. /\ next.exists = queue.exists /\ next.head = h /\ next.ring = queue.ring
      /\ next.tail = IF t + 1 < n THEN t + 1 ELSE 0
  BY NextTail, Zenon
<1>3. ItemCount(h, t, n) + 1 < n /\ ItemCount(h, t, n) \in Nat
  <2>1. \A j \in O : Held(c, queue, r, P, j) => j \in O \ {i}
    BY Zenon
  <2>2. IsFiniteSet(O \ {i}) /\ Cardinality(O \ {i}) = Cardinality(O) - 1
    BY FS_RemoveElement
  <2>3. ItemCount(h, t, n) <= Cardinality(O \ {i})
    BY <2>1, <2>2, EntriesBounded
  <2>4. Cardinality(O) \in Nat
    BY FS_CardinalityType
  <2>5. ItemCount(h, t, n) \in Nat
    BY <1>1 DEF ItemCount
  <2> QED
    BY <1>1, <2>2, <2>3, <2>4, <2>5
<1> HIDE DEF next, w
<1>4. /\ next.tail # h /\ ~Used(queue, t)
      /\ \A s \in Slot(n) : Used(next, s) <=> Used(queue, s) \/ s = t
  <2> DEFINE u == next.tail
  <2>1. u = IF t + 1 < n THEN t + 1 ELSE 0
    BY <1>2
  <2> HIDE DEF u, t, n, h
  <2>2. /\ u # h /\ ~(ItemCount(h, t, n) < ItemCount(h, t, n))
        /\ \A s \in 0 .. n - 1 : ItemCount(h, s, n) < ItemCount(h, u, n)
                                   <=> ItemCount(h, s, n) < ItemCount(h, t, n) \/ s = t
    BY <1>1, <1>3, <2>1, UsedGrows
  <2> QED
    BY <1>1, <1>2, <2>2, Zenon DEF u, t, n, h, Used
<1>5. next.phase = Expected(r, next.tail)
  BY <1>4, PhaseOfTail, Zenon DEF CqOk, next
<1>6. w.cq = c /\ w.slot = t /\ w.entry.phase = Expected(r, t)
      /\ w = [cq |-> c, slot |-> t, entry |-> [id |-> i, phase |-> Expected(r, t)]]
  BY DEF w, WriteOf, CqOk
<1>7. \A s, j : Landed(next, r, s, j) <=> Landed(queue, r, s, j)
  BY <1>2, Zenon DEF Landed
<1>8. ASSUME NEW s, NEW j
      PROVE  InFlight(c, r, Q, s, j) <=> InFlight(c, r, P, s, j) \/ (s = t /\ j = i)
  <2>1. [cq |-> c, slot |-> s, entry |-> [id |-> j, phase |-> Expected(r, s)]] = w
          <=> s = t /\ j = i
    BY <1>6
  <2> QED
    BY <2>1, Zenon DEF InFlight
<1> HIDE DEF t
<1>9. t \in Slot(n) /\ i \in Tag /\ \A j \in Tag : ~Holds(c, queue, r, P, t, j)
  BY <1>1, <1>4, Zenon DEF CqOk
<1>10. \A s, j : Holds(c, next, r, Q, s, j)
                   <=> Holds(c, queue, r, P, s, j) \/ (s = t /\ j = i)
  BY <1>7, <1>8, Zenon DEF Holds
<1>11. \A s \in Slot(n) : ~Holds(c, queue, r, P, s, i)
  BY Zenon DEF Held
<1>12. CqOk(c, next, r, Q, O)
  <2>1. \A v \in Q : v.cq = c => v.entry.phase = Expected(r, v.slot)
    BY <1>6, Zenon DEF CqOk
  <2>2. \A s \in Slot(n) : Used(next, s) => \E j \in O : Holds(c, next, r, Q, s, j)
    BY <1>4, <1>10, Zenon DEF CqOk
  <2>3. \A s \in Slot(n), j \in Tag : Holds(c, next, r, Q, s, j) => Used(next, s) /\ j \in O
    BY <1>4, <1>10, Zenon DEF CqOk
  <2>4. ASSUME NEW s \in Slot(n), NEW j \in Tag, NEW l \in Tag,
               Holds(c, next, r, Q, s, j), InFlight(c, r, Q, s, l)
        PROVE  j = l /\ ~Landed(next, r, s, j)
    <3>0. /\ Holds(c, queue, r, P, s, j) \/ (s = t /\ j = i)
          /\ InFlight(c, r, P, s, l) \/ (s = t /\ l = i)
          /\ Landed(next, r, s, j) <=> Landed(queue, r, s, j)
      <4> HIDE DEF Q
      <4> QED
        BY <1>7, <1>8, <1>10, <2>4
    <3>1. CASE s = t
      <4>1. ~Landed(queue, r, s, j) /\ ~InFlight(c, r, P, s, l) /\ ~Holds(c, queue, r, P, s, j)
        BY <1>9, <3>1, Zenon DEF Holds
      <4> QED
        BY <3>0, <4>1, Zenon
    <3>2. CASE s # t
      <4>1. Holds(c, queue, r, P, s, j) /\ InFlight(c, r, P, s, l)
        BY <3>0, <3>2, Zenon
      <4>2. j = l /\ ~Landed(queue, r, s, j)
        BY <4>1, Zenon DEF CqOk
      <4> QED
        BY <3>0, <4>2, Zenon
    <3> QED
      BY <3>1, <3>2
  <2>5. ASSUME NEW s \in Slot(n), NEW u \in Slot(n), NEW j \in Tag,
               Holds(c, next, r, Q, s, j), Holds(c, next, r, Q, u, j)
        PROVE  s = u
    <3>0. /\ Holds(c, queue, r, P, s, j) \/ (s = t /\ j = i)
          /\ Holds(c, queue, r, P, u, j) \/ (u = t /\ j = i)
      <4> HIDE DEF Q
      <4> QED
        BY <1>10, <2>5
    <3>1. CASE j = i
      <4>1. ~Holds(c, queue, r, P, s, j) /\ ~Holds(c, queue, r, P, u, j)
        BY <1>11, <3>1, Zenon
      <4> QED
        BY <3>0, <4>1, Zenon
    <3>2. CASE j # i
      <4>1. Holds(c, queue, r, P, s, j) /\ Holds(c, queue, r, P, u, j)
        BY <3>0, <3>2, Zenon
      <4> QED
        BY <4>1, Zenon DEF CqOk
    <3> QED
      BY <3>1, <3>2
  <2>6. next.exists /\ r.slot = next.head
    BY <1>1, <1>2, Zenon DEF CqOk
  <2> QED
    BY <1>5, <2>1, <2>2, <2>3, <2>4, <2>5, <2>6, Zenon DEF CqOk
<1>13. \A j \in Tag : Held(c, next, r, Q, j) <=> Held(c, queue, r, P, j) \/ j = i
  BY <1>9, <1>10, Zenon DEF Held
<1> QED
  BY <1>2, <1>4, <1>12, <1>13, Zenon DEF next, w

\* Nothing happens to a queue while commands and writes of others come and go.
LEMMA CqStays ==
  ASSUME NEW c \in CQ, NEW queue, NEW r, NEW P, NEW O, CqOk(c, queue, r, P, O),
         NEW Q, \A w : w.cq = c => (w \in Q <=> w \in P),
         NEW U, \A i \in Tag : Held(c, queue, r, P, i) => (i \in O <=> i \in U), U \subseteq Tag,
         O \subseteq Tag
  PROVE  /\ CqOk(c, queue, r, Q, U)
         /\ \A i : Held(c, queue, r, Q, i) <=> Held(c, queue, r, P, i)
<1>1. \A s, i : InFlight(c, r, Q, s, i) <=> InFlight(c, r, P, s, i)
  <2> TAKE s, i
  <2> DEFINE w == [cq |-> c, slot |-> s, entry |-> [id |-> i, phase |-> Expected(r, s)]]
  <2>1. w.cq = c
    OBVIOUS
  <2>2. (InFlight(c, r, Q, s, i) <=> w \in Q) /\ (InFlight(c, r, P, s, i) <=> w \in P)
    BY Zenon DEF InFlight
  <2> HIDE DEF w
  <2> QED
    BY <2>1, <2>2, Zenon
<1>2. \A s, i : Holds(c, queue, r, Q, s, i) <=> Holds(c, queue, r, P, s, i)
  BY <1>1, Zenon DEF Holds
<1>3. \A i : Held(c, queue, r, Q, i) <=> Held(c, queue, r, P, i)
  BY <1>2, Zenon DEF Held
<1>4. \A s \in Slot(CqSize) : Used(queue, s) => \E i \in U : Holds(c, queue, r, Q, s, i)
  <2> TAKE s \in Slot(CqSize)
  <2> HAVE Used(queue, s)
  <2>1. PICK i \in O : Holds(c, queue, r, P, s, i)
    BY Zenon DEF CqOk
  <2>2. i \in Tag /\ Held(c, queue, r, P, i)
    BY <2>1, Zenon DEF Held
  <2> QED
    BY <1>2, <2>1, <2>2, Zenon
<1>5. \A s \in Slot(CqSize), i \in Tag :
        Holds(c, queue, r, Q, s, i) => Used(queue, s) /\ i \in U
  <2> TAKE s \in Slot(CqSize), i \in Tag
  <2> HAVE Holds(c, queue, r, Q, s, i)
  <2>1. Holds(c, queue, r, P, s, i) /\ Held(c, queue, r, P, i)
    BY <1>2, Zenon DEF Held
  <2>2. Used(queue, s) /\ i \in O
    BY <2>1, Zenon DEF CqOk
  <2> QED
    BY <2>1, <2>2, Zenon
<1>6. \A w \in Q : w.cq = c => w.entry.phase = Expected(r, w.slot)
  BY Zenon DEF CqOk
<1>7. \A s \in Slot(CqSize), i, j \in Tag :
        Holds(c, queue, r, Q, s, i) /\ InFlight(c, r, Q, s, j) =>
          i = j /\ ~Landed(queue, r, s, i)
  BY <1>1, <1>2, Zenon DEF CqOk
<1>8. \A s, t \in Slot(CqSize), i \in Tag :
        Holds(c, queue, r, Q, s, i) /\ Holds(c, queue, r, Q, t, i) => s = t
  BY <1>2, Zenon DEF CqOk
<1>9. /\ queue.exists /\ r.slot = queue.head
      /\ queue.phase = Expected(r, queue.tail)
  BY Zenon DEF CqOk
<1> QED
  BY <1>3, <1>4, <1>5, <1>6, <1>7, <1>8, <1>9, Zenon DEF CqOk

\* A queue that was just created, and that the host reads from its first slot.
LEMMA CqEmpty ==
  ASSUME NEW c \in CQ, NEW P, \A w \in P : w.cq # c, NEW O
  PROVE  /\ NewCQ \in CompletionQueue /\ FirstRead \in Position
         /\ CqOk(c, NewCQ, FirstRead, P, O)
         /\ \A i : ~Held(c, NewCQ, FirstRead, P, i)
<1>1. CqSize \in Nat /\ CqSize > 1 /\ 0 \in Slot(CqSize) /\ 0 \in Tag
  <2>1. MaxCommands \in Nat
    BY ControllerAssumption DEF ControllerAssumption
  <2> QED
    BY <2>1, Constants DEF Slot, Tag
<1>2. /\ NewCQ.exists /\ NewCQ.head = 0 /\ NewCQ.tail = 0 /\ NewCQ.phase = TRUE
      /\ \A s \in Slot(CqSize) : NewCQ.ring[s] = [id |-> 0, phase |-> FALSE]
      /\ FirstRead.slot = 0 /\ FirstRead.phase = TRUE
  BY DEF NewCQ, FirstRead
<1>3. NewCQ \in CompletionQueue
  <2>1. [s \in Slot(CqSize) |-> [id |-> 0, phase |-> FALSE]] \in [Slot(CqSize) -> Entry]
    BY <1>1 DEF Entry
  <2> QED
    BY <1>1, <2>1 DEF NewCQ, CompletionQueue
<1>4. FirstRead \in Position
  BY <1>1 DEF FirstRead, Position
<1>5. \A s \in Slot(CqSize) : Expected(FirstRead, s) = TRUE
  <2> TAKE s \in Slot(CqSize)
  <2>1. s >= 0
    BY <1>1 DEF Slot
  <2>2. Expected(FirstRead, s) = (TRUE = (s >= 0))
    BY <1>2, Zenon DEF Expected
  <2>3. (s >= 0) = TRUE
    BY <2>1
  <2> QED
    BY <2>2, <2>3, Zenon
<1>6. \A s \in Slot(CqSize) : \A i : ~Landed(NewCQ, FirstRead, s, i)
  BY <1>2, <1>5 DEF Landed
<1>7. \A s, i : ~InFlight(c, FirstRead, P, s, i)
  BY DEF InFlight
<1>8. \A s \in Slot(CqSize) : \A i : ~Holds(c, NewCQ, FirstRead, P, s, i)
  BY <1>6, <1>7, Zenon DEF Holds
<1>9. \A s \in Slot(CqSize) : ~Used(NewCQ, s)
  <2>1. \A s \in Slot(CqSize) : ~(ItemCount(0, s, CqSize) < ItemCount(0, 0, CqSize))
    BY <1>1 DEF ItemCount, Slot
  <2> QED
    BY <1>2, <2>1, Zenon DEF Used
<1>10. Expected(FirstRead, 0) = TRUE
  BY <1>1, <1>5
<1>11. CqOk(c, NewCQ, FirstRead, P, O)
  BY <1>2, <1>7, <1>8, <1>9, <1>10, Zenon DEF CqOk
<1> QED
  BY <1>3, <1>4, <1>8, <1>11, Zenon DEF Held

\* The DMA write of an entry ends.
Written(queue, w) == [queue EXCEPT !.ring = [@ EXCEPT ![w.slot] = w.entry]]

LEMMA WrittenQueue ==
  ASSUME NEW queue \in CompletionQueue, NEW w \in Write
  PROVE  LET new == Written(queue, w)
         IN  /\ new \in CompletionQueue
             /\ new.exists = queue.exists /\ new.head = queue.head
             /\ new.tail = queue.tail /\ new.phase = queue.phase
             /\ \A s \in Slot(CqSize) :
                  new.ring[s] = IF s = w.slot THEN w.entry ELSE queue.ring[s]
<1> DEFINE ring == [queue.ring EXCEPT ![w.slot] = w.entry]
<1>1. /\ queue.exists \in BOOLEAN /\ queue.phase \in BOOLEAN
      /\ queue.head \in Slot(CqSize) /\ queue.tail \in Slot(CqSize)
      /\ queue.ring \in [Slot(CqSize) -> Entry]
      /\ queue = [exists |-> queue.exists, head |-> queue.head, tail |-> queue.tail,
                  phase |-> queue.phase, ring |-> queue.ring]
      /\ w.slot \in Slot(CqSize) /\ w.entry \in Entry
  BY DEF CompletionQueue, Write
<1>2. /\ ring \in [Slot(CqSize) -> Entry]
      /\ \A s \in Slot(CqSize) : ring[s] = IF s = w.slot THEN w.entry ELSE queue.ring[s]
  BY <1>1
<1>3. Written(queue, w) = [queue EXCEPT !.ring = ring]
  BY Zenon DEF Written
<1> HIDE DEF ring
<1>4. Written(queue, w) = [exists |-> queue.exists, head |-> queue.head, tail |-> queue.tail,
                           phase |-> queue.phase, ring |-> ring]
  BY <1>1, <1>3
<1>5. Written(queue, w) \in CompletionQueue
  BY <1>1, <1>2, <1>4 DEF CompletionQueue
<1>6. /\ Written(queue, w).exists = queue.exists /\ Written(queue, w).head = queue.head
      /\ Written(queue, w).tail = queue.tail /\ Written(queue, w).phase = queue.phase
      /\ Written(queue, w).ring = ring
  BY <1>4
<1> QED
  BY <1>2, <1>5, <1>6

LEMMA LandOne ==
  ASSUME NEW c \in CQ, NEW queue \in CompletionQueue, NEW r \in Position,
         NEW P \in SUBSET Write, NEW O, O \subseteq Tag, CqOk(c, queue, r, P, O),
         NEW w \in P, w.cq = c
  PROVE  /\ CqOk(c, Written(queue, w), r, P \ {w}, O)
         /\ \A i \in Tag : Held(c, Written(queue, w), r, P \ {w}, i)
                             <=> Held(c, queue, r, P, i)
<1> DEFINE new == Written(queue, w)
           Q == P \ {w}
           z == w.slot
           x == w.entry.id
<1>1. /\ new.exists = queue.exists /\ new.head = queue.head
      /\ new.tail = queue.tail /\ new.phase = queue.phase
      /\ \A s \in Slot(CqSize) : new.ring[s] = IF s = z THEN w.entry ELSE queue.ring[s]
  BY WrittenQueue
<1>2. w \in Write /\ z \in Slot(CqSize) /\ x \in Tag
  BY DEF Write, Entry
<1>3. w.entry.phase = Expected(r, z)
  BY Zenon DEF CqOk
<1>4. w.entry = [id |-> x, phase |-> Expected(r, z)]
  <2>1. w.entry = [id |-> w.entry.id, phase |-> w.entry.phase]
    BY <1>2 DEF Write, Entry
  <2> QED
    BY <1>3, <2>1, Zenon
<1>5. w = [cq |-> c, slot |-> z, entry |-> [id |-> x, phase |-> Expected(r, z)]]
  <2>1. w = [cq |-> w.cq, slot |-> w.slot, entry |-> w.entry]
    BY <1>2 DEF Write
  <2> QED
    BY <1>4, <2>1, Zenon
<1> HIDE DEF new
<1>6. InFlight(c, r, P, z, x)
  BY <1>5, Zenon DEF InFlight
<1>7. \A i \in Tag : ~Landed(queue, r, z, i) /\ (InFlight(c, r, P, z, i) => i = x)
  <2>1. \A i, k \in Tag : Holds(c, queue, r, P, z, i) /\ InFlight(c, r, P, z, k) =>
          i = k /\ ~Landed(queue, r, z, i)
    BY <1>2, Zenon DEF CqOk
  <2> HIDE DEF x, z
  <2>2. \A i \in Tag : Holds(c, queue, r, P, z, i) => i = x /\ ~Landed(queue, r, z, i)
    BY <1>2, <1>6, <2>1, Zenon
  <2> QED
    BY <2>2, Zenon DEF Holds
<1>8. \A s \in Slot(CqSize) : \A i \in Tag :
        Landed(new, r, s, i) <=> IF s = z THEN i = x ELSE Landed(queue, r, s, i)
  <2> TAKE s \in Slot(CqSize)
  <2> TAKE i \in Tag
  <2>1. CASE s = z
    <3>1. Landed(new, r, s, i) <=> w.entry = [id |-> i, phase |-> Expected(r, z)]
      BY <1>1, <2>1, Zenon DEF Landed
    <3>2. w.entry = [id |-> i, phase |-> Expected(r, z)] <=> i = x
      BY <1>4
    <3> QED
      BY <2>1, <3>1, <3>2
  <2>2. CASE s # z
    BY <1>1, <2>2, Zenon DEF Landed
  <2> QED
    BY <2>1, <2>2
<1>9. ASSUME NEW s, NEW i
      PROVE  InFlight(c, r, Q, s, i) <=> InFlight(c, r, P, s, i) /\ ~(s = z /\ i = x)
  <2>1. [cq |-> c, slot |-> s, entry |-> [id |-> i, phase |-> Expected(r, s)]] = w
          <=> s = z /\ i = x
    BY <1>5
  <2> QED
    BY <2>1, Zenon DEF InFlight
<1> HIDE DEF Q, z, x
<1>10. ASSUME NEW s \in Slot(CqSize), NEW i \in Tag
       PROVE  Holds(c, new, r, Q, s, i) <=> Holds(c, queue, r, P, s, i)
  <2>1. CASE s = z
    BY <1>6, <1>7, <1>8, <1>9, <2>1 DEF Holds
  <2>2. CASE s # z
    BY <1>8, <1>9, <2>2 DEF Holds
  <2> QED
    BY <2>1, <2>2
<1>11. ASSUME NEW s \in Slot(CqSize), NEW i \in Tag, NEW j \in Tag,
              Holds(c, new, r, Q, s, i), InFlight(c, r, Q, s, j)
       PROVE  i = j /\ ~Landed(new, r, s, i)
  <2>1. Holds(c, queue, r, P, s, i) /\ InFlight(c, r, P, s, j) /\ ~(s = z /\ j = x)
    BY <1>9, <1>10, <1>11
  <2>2. s # z
    BY <1>7, <2>1, Zenon
  <2>3. i = j /\ ~Landed(queue, r, s, i)
    BY <2>1, Zenon DEF CqOk
  <2> QED
    BY <1>8, <2>2, <2>3
<1>12. \A s : Used(new, s) <=> Used(queue, s)
  BY <1>1, Zenon DEF Used
<1>13. /\ \A s \in Slot(CqSize) : Used(new, s) => \E i \in O : Holds(c, queue, r, P, s, i)
       /\ \A s \in Slot(CqSize), i \in Tag :
            Holds(c, new, r, Q, s, i) => Used(new, s) /\ i \in O
       /\ \A s, t \in Slot(CqSize), i \in Tag :
            Holds(c, new, r, Q, s, i) /\ Holds(c, new, r, Q, t, i) => s = t
  BY <1>10, <1>12, Zenon DEF CqOk
<1>14. \A s \in Slot(CqSize) : Used(new, s) => \E i \in O : Holds(c, new, r, Q, s, i)
  <2> TAKE s \in Slot(CqSize)
  <2> HAVE Used(new, s)
  <2>1. PICK i \in O : Holds(c, queue, r, P, s, i)
    BY <1>13, Zenon
  <2>2. i \in Tag
    BY <2>1
  <2> QED
    BY <1>10, <2>1, <2>2, Zenon
<1>15. /\ new.exists /\ r.slot = new.head /\ new.phase = Expected(r, new.tail)
       /\ \A v \in Q : v.cq = c => v.entry.phase = Expected(r, v.slot)
  BY <1>1, Zenon DEF CqOk, Q
<1>16. CqOk(c, new, r, Q, O)
  BY <1>11, <1>13, <1>14, <1>15, Zenon DEF CqOk
<1>17. \A i \in Tag : Held(c, new, r, Q, i) <=> Held(c, queue, r, P, i)
  BY <1>10, Zenon DEF Held
<1> QED
  BY <1>16, <1>17 DEF new, Q

\* The host goes on to the next entry.
LEMMA NextPosition ==
  ASSUME NEW r \in Position
  PROVE  /\ NextRead(r) \in Position
         /\ NextRead(r).slot = IF r.slot + 1 < CqSize THEN r.slot + 1 ELSE 0
         /\ \A s \in Slot(CqSize) :
              Expected(NextRead(r), s) = IF s = r.slot THEN ~r.phase ELSE Expected(r, s)
         /\ Expected(r, r.slot) = r.phase
<1> DEFINE n == CqSize
           h == r.slot
           u == (h + 1) % n
           p == r.phase
           phase == IF u = 0 THEN ~p ELSE p
<1>1. /\ n \in Nat \ {0} /\ h \in 0 .. n - 1 /\ p \in BOOLEAN /\ Slot(n) = 0 .. n - 1
  BY Constants DEF Position, Slot
<1>2. u = (IF h + 1 < n THEN h + 1 ELSE 0) /\ u \in Slot(n)
  BY <1>1, NextSlot
<1>3. NextRead(r) = [slot |-> u, phase |-> phase]
  BY Zenon DEF NextRead
<1> HIDE DEF u
<1>4. NextRead(r).slot = u /\ NextRead(r).phase = phase /\ phase \in BOOLEAN
  <2>1. phase \in BOOLEAN
    BY <1>1
  <2> HIDE DEF phase
  <2> QED
    BY <1>3, <2>1
<1>5. NextRead(r) \in Position
  <2> HIDE DEF phase
  <2> QED
    BY <1>2, <1>3, <1>4 DEF Position
<1>6. ASSUME NEW s \in Slot(n)
      PROVE  Expected(NextRead(r), s) = IF s = h THEN ~p ELSE Expected(r, s)
  <2>1. Expected(NextRead(r), s) = (phase = (s >= u)) /\ Expected(r, s) = (p = (s >= h))
    BY <1>4, Zenon DEF Expected
  <2>2. s \in 0 .. n - 1
    BY <1>1
  <2> HIDE DEF h, n, p
  <2>3. (phase = (s >= u)) = IF s = h THEN ~p ELSE (p = (s >= h))
    <3>1. CASE u = 0
      <4>1. (s >= u) = TRUE /\ (s >= h) = (s = h)
        BY <1>1, <1>2, <2>2, <3>1
      <4>2. phase = ~p
        BY <3>1
      <4>3. (~p = TRUE) = IF s = h THEN ~p ELSE (p = (s = h))
        BY <1>1
      <4> QED
        BY <4>1, <4>2, <4>3
    <3>2. CASE u # 0
      <4>1. s = h => (s >= u) = FALSE /\ (s >= h) = TRUE
        BY <1>1, <1>2, <2>2, <3>2
      <4>2. s # h => (s >= u) = (s >= h)
        BY <1>1, <1>2, <2>2, <3>2
      <4>3. phase = p /\ (p = FALSE) = ~p
        BY <1>1, <3>2
      <4> QED
        BY <4>1, <4>2, <4>3
    <3> QED
      BY <3>1, <3>2
  <2> QED
    BY <2>1, <2>3
<1>7. Expected(r, h) = p
  <2>1. (h >= h) = TRUE
    BY <1>1
  <2>2. Expected(r, h) = (p = TRUE)
    BY <2>1, Zenon DEF Expected
  <2> QED
    BY <1>1, <2>2
<1> QED
  BY <1>2, <1>4, <1>5, <1>6, <1>7, Zenon

\* The head of the queue moves on.
Freed(queue, head) == [queue EXCEPT !.head = head]

LEMMA FreedQueue ==
  ASSUME NEW queue \in CompletionQueue, NEW head \in Slot(CqSize)
  PROVE  LET new == Freed(queue, head)
         IN  /\ new \in CompletionQueue
             /\ new.exists = queue.exists /\ new.head = head
             /\ new.tail = queue.tail /\ new.phase = queue.phase /\ new.ring = queue.ring
<1>1. /\ queue.exists \in BOOLEAN /\ queue.phase \in BOOLEAN
      /\ queue.tail \in Slot(CqSize) /\ queue.ring \in [Slot(CqSize) -> Entry]
      /\ queue = [exists |-> queue.exists, head |-> queue.head, tail |-> queue.tail,
                  phase |-> queue.phase, ring |-> queue.ring]
  BY DEF CompletionQueue
<1>2. Freed(queue, head) = [exists |-> queue.exists, head |-> head, tail |-> queue.tail,
                            phase |-> queue.phase, ring |-> queue.ring]
  BY <1>1 DEF Freed
<1> QED
  BY <1>1, <1>2 DEF CompletionQueue

LEMMA ConsumeOne ==
  ASSUME NEW c \in CQ, NEW queue \in CompletionQueue, NEW r \in Position,
         NEW P \in SUBSET Write, NEW O, O \subseteq Tag, CqOk(c, queue, r, P, O),
         queue.ring[r.slot].phase = r.phase
  PROVE  LET x == queue.ring[r.slot].id
             new == Freed(queue, NextRead(r).slot)
         IN  /\ x \in O /\ Held(c, queue, r, P, x)
             /\ CqOk(c, new, NextRead(r), P, O \ {x})
             /\ \A i \in Tag : Held(c, new, NextRead(r), P, i)
                                 <=> Held(c, queue, r, P, i) /\ i # x
<1> DEFINE h == r.slot
           e == queue.ring[h]
           x == e.id
           q == NextRead(r)
           new == Freed(queue, q.slot)
<1>1. /\ h \in Slot(CqSize) /\ e \in Entry /\ x \in Tag
      /\ e = [id |-> e.id, phase |-> e.phase] /\ h = queue.head
  BY DEF Position, CompletionQueue, Entry, CqOk
<1>2. /\ q \in Position /\ q.slot = IF h + 1 < CqSize THEN h + 1 ELSE 0
      /\ \A s \in Slot(CqSize) : Expected(q, s) = IF s = h THEN ~r.phase ELSE Expected(r, s)
      /\ Expected(r, h) = r.phase
  BY NextPosition
<1>3. /\ new.exists = queue.exists /\ new.head = q.slot
      /\ new.tail = queue.tail /\ new.phase = queue.phase /\ new.ring = queue.ring
  <2>1. q.slot \in Slot(CqSize)
    BY <1>2 DEF Position
  <2> QED
    BY <2>1, FreedQueue, Zenon
<1>4. Landed(queue, r, h, x)
  BY <1>1, <1>2, Zenon DEF Landed
<1> HIDE DEF x, q, new, h
<1>5. Holds(c, queue, r, P, h, x) /\ x \in O /\ Used(queue, h) /\ Held(c, queue, r, P, x)
  BY <1>1, <1>4, Zenon DEF CqOk, Holds, Held
<1>6. \A i \in Tag : ~InFlight(c, r, P, h, i) /\ (Holds(c, queue, r, P, h, i) <=> i = x)
  <2>1. \A i \in Tag : ~InFlight(c, r, P, h, i)
    BY <1>1, <1>4, <1>5, Zenon DEF CqOk
  <2>2. \A i \in Tag : Landed(queue, r, h, i) => i = x
    BY <1>4 DEF Landed
  <2> QED
    BY <1>5, <2>1, <2>2, Zenon DEF Holds
<1>7. \A v \in P : v.cq = c => v.slot # h
  <2> SUFFICES ASSUME NEW v \in P, v.cq = c, v.slot = h PROVE FALSE
    OBVIOUS
  <2>1. v \in Write /\ v.entry.id \in Tag
    BY DEF Write, Entry
  <2>2. v = [cq |-> v.cq, slot |-> v.slot, entry |-> v.entry]
        /\ v.entry = [id |-> v.entry.id, phase |-> v.entry.phase]
    BY <2>1 DEF Write, Entry
  <2>3. v.entry.phase = Expected(r, h)
    BY Zenon DEF CqOk
  <2>4. v = [cq |-> c, slot |-> h, entry |-> [id |-> v.entry.id, phase |-> Expected(r, h)]]
    BY <2>2, <2>3, Zenon
  <2>5. InFlight(c, r, P, h, v.entry.id)
    BY <2>4, Zenon DEF InFlight
  <2> QED
    BY <1>6, <2>1, <2>5, Zenon
<1>8. \A s \in Slot(CqSize) : \A i \in Tag :
        /\ Landed(new, q, s, i) <=> Landed(queue, r, s, i) /\ s # h
        /\ InFlight(c, q, P, s, i) <=> InFlight(c, r, P, s, i) /\ s # h
  <2> TAKE s \in Slot(CqSize)
  <2> TAKE i \in Tag
  <2>1. CASE s # h
    <3>1. Expected(q, s) = Expected(r, s)
      BY <1>2, <2>1, Zenon
    <3> QED
      BY <1>3, <2>1, <3>1, Zenon DEF Landed, InFlight
  <2>2. CASE s = h
    <3>1. Expected(q, s) = ~r.phase
      BY <1>2, <2>2, Zenon
    <3>2. ~Landed(new, q, s, i)
      <4>1. r.phase \in BOOLEAN /\ queue.ring[h].phase = r.phase
        BY DEF Position, h
      <4>2. new.ring[s] = queue.ring[h]
        BY <1>3, <2>2, Zenon
      <4>3. Landed(new, q, s, i) => queue.ring[h].phase = ~r.phase
        BY <3>1, <4>2 DEF Landed
      <4> QED
        BY <4>1, <4>3
    <3>3. ~InFlight(c, q, P, s, i)
      <4> DEFINE v == [cq |-> c, slot |-> s, entry |-> [id |-> i, phase |-> Expected(q, s)]]
      <4>1. v.cq = c /\ v.slot = h
        BY <2>2
      <4>2. InFlight(c, q, P, s, i) => v \in P
        BY Zenon DEF InFlight
      <4> HIDE DEF v
      <4> QED
        BY <1>7, <4>1, <4>2, Zenon
    <3> QED
      BY <2>2, <3>2, <3>3
  <2> QED
    BY <2>1, <2>2
<1>9. \A s \in Slot(CqSize) : \A i \in Tag :
        Holds(c, new, q, P, s, i) <=> Holds(c, queue, r, P, s, i) /\ s # h
  BY <1>8 DEF Holds
<1>10. queue.tail # h /\ \A s \in Slot(CqSize) : Used(new, s) <=> Used(queue, s) /\ s # h
  <2> DEFINE t == queue.tail
             u == new.head
             n == CqSize
  <2>1. /\ n \in Nat /\ n > 1 /\ h \in 0 .. n - 1 /\ t \in 0 .. n - 1
        /\ u = IF h + 1 < n THEN h + 1 ELSE 0
    BY <1>1, <1>2, <1>3, Constants DEF CompletionQueue, Slot
  <2>2. ItemCount(h, h, n) < ItemCount(h, t, n)
    BY <1>1, <1>5, Zenon DEF Used
  <2> HIDE DEF t, u, n
  <2>3. /\ t # h
        /\ \A s \in 0 .. n - 1 : ItemCount(u, s, n) < ItemCount(u, t, n)
                                   <=> ItemCount(h, s, n) < ItemCount(h, t, n) /\ s # h
    BY <2>1, <2>2, UsedShrinks
  <2>4. Slot(n) = 0 .. n - 1
    BY DEF Slot
  <2> QED
    BY <1>1, <1>3, <2>3, <2>4, Zenon DEF Used, t, u, n
<1>11. new.exists /\ q.slot = new.head /\ new.phase = Expected(q, new.tail)
  <2>1. queue.tail \in Slot(CqSize)
    BY DEF CompletionQueue
  <2>2. Expected(q, queue.tail) = Expected(r, queue.tail)
    BY <1>2, <1>10, <2>1, Zenon
  <2> QED
    BY <1>3, <2>2, Zenon DEF CqOk
<1>12. \A v \in P : v.cq = c => v.entry.phase = Expected(q, v.slot)
  <2> SUFFICES ASSUME NEW v \in P, v.cq = c PROVE v.entry.phase = Expected(q, v.slot)
    OBVIOUS
  <2>1. v.slot \in Slot(CqSize)
    BY DEF Write
  <2>2. v.slot # h /\ v.entry.phase = Expected(r, v.slot)
    BY <1>7, Zenon DEF CqOk
  <2> QED
    BY <1>2, <2>1, <2>2, Zenon
<1>13. \A s \in Slot(CqSize), i \in Tag : Holds(c, queue, r, P, s, i) /\ s # h => i # x
  <2>1. \A s, t \in Slot(CqSize), i \in Tag :
          Holds(c, queue, r, P, s, i) /\ Holds(c, queue, r, P, t, i) => s = t
    BY Zenon DEF CqOk
  <2> QED
    BY <1>1, <1>5, <2>1, Zenon
<1>14. \A s \in Slot(CqSize) : Used(new, s) => \E i \in O \ {x} : Holds(c, new, q, P, s, i)
  <2> TAKE s \in Slot(CqSize)
  <2> HAVE Used(new, s)
  <2>1. Used(queue, s) /\ s # h
    BY <1>10, Zenon
  <2>2. PICK i \in O : Holds(c, queue, r, P, s, i)
    BY <2>1, Zenon DEF CqOk
  <2>3. i \in Tag
    BY <2>2
  <2> QED
    BY <1>9, <1>13, <2>1, <2>2, <2>3, Zenon
<1>15. \A s \in Slot(CqSize), i \in Tag :
         Holds(c, new, q, P, s, i) => Used(new, s) /\ i \in O \ {x}
  BY <1>9, <1>10, <1>13, Zenon DEF CqOk
<1>16. \A s \in Slot(CqSize), i, j \in Tag :
         Holds(c, new, q, P, s, i) /\ InFlight(c, q, P, s, j) =>
           i = j /\ ~Landed(new, q, s, i)
  <2> SUFFICES ASSUME NEW s \in Slot(CqSize), NEW i \in Tag, NEW j \in Tag,
                      Holds(c, new, q, P, s, i), InFlight(c, q, P, s, j)
               PROVE  i = j /\ ~Landed(new, q, s, i)
    OBVIOUS
  <2>1. Holds(c, queue, r, P, s, i) /\ InFlight(c, r, P, s, j)
    BY <1>8, <1>9, Zenon
  <2>2. i = j /\ ~Landed(queue, r, s, i)
    BY <2>1, Zenon DEF CqOk
  <2> QED
    BY <1>8, <2>2
<1>17. \A s, t \in Slot(CqSize), i \in Tag :
         Holds(c, new, q, P, s, i) /\ Holds(c, new, q, P, t, i) => s = t
  BY <1>9, Zenon DEF CqOk
<1>18. CqOk(c, new, q, P, O \ {x})
  BY <1>11, <1>12, <1>14, <1>15, <1>16, <1>17, Zenon DEF CqOk
<1>19. ASSUME NEW i \in Tag
       PROVE  Held(c, new, q, P, i) <=> Held(c, queue, r, P, i) /\ i # x
  <2>1. ASSUME Held(c, new, q, P, i) PROVE Held(c, queue, r, P, i) /\ i # x
    BY <1>9, <1>13, <2>1, Zenon DEF Held
  <2>2. ASSUME Held(c, queue, r, P, i), i # x PROVE Held(c, new, q, P, i)
    <3>1. PICK s \in Slot(CqSize) : Holds(c, queue, r, P, s, i)
      BY <2>2, Zenon DEF Held
    <3>2. s # h
      BY <1>6, <2>2, <3>1, Zenon
    <3> QED
      BY <1>9, <3>1, <3>2, Zenon DEF Held
  <2> QED
    BY <2>1, <2>2
<1> QED
  BY <1>5, <1>18, <1>19 DEF x, q, new, h

-----------------------------------------------------------------------------
(* Calls of completion(): the DMA writes in flight. *)

Pending(P) == {w \in Write : \E k \in DOMAIN P : Occurs(w, P[k].writes)}

\* No two of the writes are for one command.
WritesApart(P) ==
  \A k, l \in DOMAIN P : \A m \in DOMAIN P[k].writes, n \in DOMAIN P[l].writes :
    P[k].writes[m].entry.id = P[l].writes[n].entry.id => k = l /\ m = n

LEMMA WritesOfCall ==
  ASSUME NEW P \in Seq(Call), NEW k \in DOMAIN P
  PROVE  /\ P[k] \in Call /\ P[k].writes \in Seq(Write) /\ P[k].ivs \subseteq Vectors
         /\ \A m \in DOMAIN P[k].writes :
              P[k].writes[m] \in Write /\ P[k].writes[m] \in Pending(P)
<1>1. P[k] \in Call
  BY ElementOfSeq, LenProperties
<1>2. P[k].writes \in Seq(Write) /\ P[k].ivs \subseteq Vectors
  BY <1>1 DEF Call
<1>3. ASSUME NEW m \in DOMAIN P[k].writes
      PROVE  P[k].writes[m] \in Write /\ P[k].writes[m] \in Pending(P)
  <2>1. P[k].writes[m] \in Write
    BY <1>2, ElementOfSeq, LenProperties
  <2>2. Occurs(P[k].writes[m], P[k].writes)
    BY Zenon DEF Occurs
  <2> QED
    BY <2>1, <2>2, Zenon DEF Pending
<1> QED
  BY <1>1, <1>2, <1>3

LEMMA WriteEnds ==
  ASSUME NEW P \in Seq(Call), WritesApart(P), NEW k \in DOMAIN P, P[k].writes # <<>>
  PROVE  LET Q == [P EXCEPT ![k].writes = Tail(@)]
             w == Head(P[k].writes)
         IN  /\ w \in Pending(P) /\ Q \in Seq(Call) /\ DOMAIN Q = DOMAIN P
             /\ WritesApart(Q) /\ Pending(Q) = Pending(P) \ {w}
<1> DEFINE ws == P[k].writes
           Q == [P EXCEPT ![k].writes = Tail(@)]
           w == Head(ws)
           n == Len(ws)
           call == [writes |-> Tail(ws), ivs |-> P[k].ivs]
<1>1. /\ P[k] \in Call /\ ws \in Seq(Write) /\ P[k].ivs \subseteq Vectors
      /\ P[k] = [writes |-> ws, ivs |-> P[k].ivs]
  <2>1. P[k] \in Call /\ ws \in Seq(Write) /\ P[k].ivs \subseteq Vectors
    BY WritesOfCall
  <2> QED
    BY <2>1 DEF Call
<1>2. /\ n \in Nat \ {0} /\ DOMAIN ws = 1 .. n /\ w = ws[1]
      /\ Tail(ws) \in Seq(Write) /\ DOMAIN Tail(ws) = 1 .. n - 1
      /\ \A m \in 1 .. n - 1 : Tail(ws)[m] = ws[m + 1]
  <2> HIDE DEF ws
  <2>1. n \in Nat \ {0} /\ DOMAIN ws = 1 .. n /\ w = ws[1]
    BY <1>1, EmptySeq, LenProperties, HeadTailProperties
  <2>2. /\ Tail(ws) \in Seq(Write) /\ Len(Tail(ws)) = n - 1
        /\ \A m \in 1 .. Len(Tail(ws)) : Tail(ws)[m] = ws[m + 1]
    BY <1>1, HeadTailProperties
  <2>3. DOMAIN Tail(ws) = 1 .. n - 1
    BY <2>2, LenProperties
  <2> QED
    BY <2>1, <2>2, <2>3
<1>3. Q = [P EXCEPT ![k] = call]
  <2>1. [P[k] EXCEPT !.writes = Tail(ws)] = call
    <3> DEFINE t == Tail(ws)
    <3> HIDE DEF t
    <3>1. \A a, b : [[writes |-> a, ivs |-> b] EXCEPT !.writes = t] = [writes |-> t, ivs |-> b]
      OBVIOUS
    <3>2. [P[k] EXCEPT !.writes = t] = [writes |-> t, ivs |-> P[k].ivs]
      BY <1>1, <3>1, Zenon
    <3> QED
      BY <3>2 DEF t
  <2> QED
    BY <2>1
<1> HIDE DEF ws, w, n
<1>4. DOMAIN Q = DOMAIN P /\ \A l \in DOMAIN P : Q[l] = IF l = k THEN call ELSE P[l]
  BY <1>3
<1>5. call \in Call
  BY <1>1, <1>2 DEF Call
<1>6. Q \in Seq(Call)
  <2>1. DOMAIN P = 1 .. Len(P) /\ Len(P) \in Nat
    BY LenProperties
  <2>2. k \in 1 .. Len(P)
    BY <2>1
  <2> HIDE DEF call
  <2> QED
    BY <1>3, <1>5, <2>2, ExceptSeq
<1> HIDE DEF Q
<1>7. call.writes = Tail(ws)
  OBVIOUS
<1> HIDE DEF call
<1>8. \A l \in DOMAIN P : Q[l].writes = IF l = k THEN Tail(ws) ELSE P[l].writes
  BY <1>4, <1>7
<1>9. \A m \in 1 .. n - 1 : m + 1 \in 1 .. n /\ m + 1 # 1
  BY <1>2
<1>10. ASSUME NEW l \in DOMAIN P, NEW m \in DOMAIN Q[l].writes
       PROVE  IF l = k THEN m \in 1 .. n - 1 /\ Q[l].writes[m] = ws[m + 1]
                       ELSE m \in DOMAIN P[l].writes /\ Q[l].writes[m] = P[l].writes[m]
  BY <1>2, <1>8, <1>10
<1>11. WritesApart(Q)
  <2> SUFFICES ASSUME NEW a \in DOMAIN P, NEW b \in DOMAIN P,
                      NEW i \in DOMAIN Q[a].writes, NEW j \in DOMAIN Q[b].writes,
                      Q[a].writes[i].entry.id = Q[b].writes[j].entry.id
               PROVE  a = b /\ i = j
    BY <1>4, Zenon DEF WritesApart
  <2>1. \A x, y \in DOMAIN P : \A p \in DOMAIN P[x].writes, r \in DOMAIN P[y].writes :
          P[x].writes[p].entry.id = P[y].writes[r].entry.id => x = y /\ p = r
    BY Zenon DEF WritesApart
  <2>2. CASE a = k /\ b = k
    <3>1. /\ i \in 1 .. n - 1 /\ j \in 1 .. n - 1
          /\ ws[i + 1].entry.id = ws[j + 1].entry.id
      BY <1>10, <2>2
    <3>2. i + 1 = j + 1
      BY <1>2, <1>9, <2>1, <3>1, SMTT(30) DEF ws
    <3> QED
      BY <2>2, <3>1, <3>2
  <2>3. CASE a = k /\ b # k
    <3>1. /\ i + 1 \in DOMAIN P[k].writes /\ j \in DOMAIN P[b].writes
          /\ P[k].writes[i + 1].entry.id = P[b].writes[j].entry.id
      BY <1>2, <1>9, <1>10, <2>3 DEF ws
    <3> QED
      BY <2>1, <2>3, <3>1
  <2>4. CASE a # k /\ b = k
    <3>1. /\ j + 1 \in DOMAIN P[k].writes /\ i \in DOMAIN P[a].writes
          /\ P[a].writes[i].entry.id = P[k].writes[j + 1].entry.id
      BY <1>2, <1>9, <1>10, <2>4 DEF ws
    <3> QED
      BY <2>1, <2>4, <3>1
  <2>5. CASE a # k /\ b # k
    <3>1. /\ i \in DOMAIN P[a].writes /\ j \in DOMAIN P[b].writes
          /\ P[a].writes[i].entry.id = P[b].writes[j].entry.id
      BY <1>10, <2>5
    <3> QED
      BY <2>1, <3>1
  <2> QED
    BY <2>2, <2>3, <2>4, <2>5
<1>12. w \in Pending(P)
  <2>1. 1 \in DOMAIN P[k].writes
    BY <1>2 DEF ws
  <2> QED
    BY <1>2, <2>1, WritesOfCall, Zenon DEF ws
<1>13. Pending(Q) = Pending(P) \ {w}
  <2>1. ASSUME NEW v \in Pending(Q) PROVE v \in Pending(P) \ {w}
    <3>0. PICK l \in DOMAIN P : \E m \in DOMAIN Q[l].writes : Q[l].writes[m] = v
      BY <1>4, <2>1, Zenon DEF Pending, Occurs
    <3>1. PICK m \in DOMAIN Q[l].writes : Q[l].writes[m] = v
      BY <3>0
    <3>2. PICK p \in DOMAIN P[l].writes : P[l].writes[p] = v /\ ~(l = k /\ p = 1)
      BY <1>2, <1>9, <1>10, <3>1 DEF ws
    <3>3. v \in Pending(P)
      BY <3>2, WritesOfCall, Zenon
    <3>4. v # w
      <4>1. 1 \in DOMAIN P[k].writes /\ w = P[k].writes[1]
        BY <1>2 DEF ws
      <4>2. P[l].writes[p].entry.id = P[k].writes[1].entry.id => l = k /\ p = 1
        BY <4>1, Zenon DEF WritesApart
      <4> QED
        BY <3>2, <4>1, <4>2
    <3> QED
      BY <3>3, <3>4
  <2>2. ASSUME NEW v \in Pending(P), v # w PROVE v \in Pending(Q)
    <3>0. PICK l \in DOMAIN P : \E p \in DOMAIN P[l].writes : P[l].writes[p] = v
      BY <2>2, Zenon DEF Pending, Occurs
    <3>1. PICK p \in DOMAIN P[l].writes : P[l].writes[p] = v
      BY <3>0
    <3>2. \E m \in DOMAIN Q[l].writes : Q[l].writes[m] = v
      <4>1. CASE l # k
        BY <1>8, <3>1, <4>1
      <4>2. CASE l = k
        <5>1. p \in 1 .. n /\ ws[p] = v /\ p # 1
          BY <1>2, <2>2, <3>1, <4>2 DEF ws
        <5>2. p - 1 \in 1 .. n - 1 /\ (p - 1) + 1 = p
          BY <1>2, <5>1
        <5>3. p - 1 \in DOMAIN Tail(ws) /\ Tail(ws)[p - 1] = v
          BY <1>2, <5>1, <5>2
        <5> QED
          BY <1>8, <4>2, <5>3
      <4> QED
        BY <4>1, <4>2
    <3> QED
      BY <1>4, <2>2, <3>2, Zenon DEF Pending, Occurs
  <2> QED
    BY <2>1, <2>2
<1> QED
  BY <1>4, <1>6, <1>11, <1>12, <1>13 DEF Q, w, ws

\* A call whose writes all ended is gone.
LEMMA CallEnds ==
  ASSUME NEW P \in Seq(Call), WritesApart(P), NEW k \in DOMAIN P, P[k].writes = <<>>
  PROVE  LET Q == RemoveAt(P, k)
         IN  Q \in Seq(Call) /\ WritesApart(Q) /\ Pending(Q) = Pending(P)
<1> DEFINE Q == RemoveAt(P, k)
           n == Len(P)
           old(j) == IF j < k THEN j ELSE j + 1
<1>1. n \in Nat /\ DOMAIN P = 1 .. n /\ k \in 1 .. n
  BY LenProperties
<1>2. /\ Q \in Seq(Call) /\ DOMAIN Q = 1 .. n - 1
      /\ \A j \in 1 .. n - 1 : Q[j] = IF j < k THEN P[j] ELSE P[j + 1]
  <2>1. /\ Q \in Seq(Call) /\ Len(Q) = n - 1
        /\ \A j \in 1 .. n - 1 : Q[j] = IF j < k THEN P[j] ELSE P[j + 1]
    BY <1>1, RemoveAtProperties
  <2> HIDE DEF Q
  <2> QED
    BY <2>1, LenProperties
<1> HIDE DEF Q, n
<1>3. \A j \in DOMAIN Q : old(j) \in DOMAIN P /\ Q[j] = P[old(j)]
  BY <1>1, <1>2
<1>4. \A i, j \in DOMAIN Q : old(i) = old(j) => i = j
  BY <1>1, <1>2
<1>5. \A l \in DOMAIN P : l = k \/ \E j \in DOMAIN Q : old(j) = l
  <2> TAKE l \in DOMAIN P
  <2>1. l < k => l \in DOMAIN Q /\ old(l) = l
    BY <1>1, <1>2
  <2>2. l > k => l - 1 \in DOMAIN Q /\ old(l - 1) = l
    BY <1>1, <1>2
  <2>3. l < k \/ l = k \/ l > k
    BY <1>1
  <2> HIDE DEF old
  <2> QED
    BY <2>1, <2>2, <2>3
<1> HIDE DEF old
<1>6. WritesApart(Q)
  <2> SUFFICES ASSUME NEW a \in DOMAIN Q, NEW b \in DOMAIN Q,
                      NEW i \in DOMAIN Q[a].writes, NEW j \in DOMAIN Q[b].writes,
                      Q[a].writes[i].entry.id = Q[b].writes[j].entry.id
               PROVE  a = b /\ i = j
    BY Zenon DEF WritesApart
  <2>1. /\ old(a) \in DOMAIN P /\ old(b) \in DOMAIN P
        /\ i \in DOMAIN P[old(a)].writes /\ j \in DOMAIN P[old(b)].writes
        /\ P[old(a)].writes[i].entry.id = P[old(b)].writes[j].entry.id
    BY <1>3
  <2>2. old(a) = old(b) /\ i = j
    <3>1. \A x, y \in DOMAIN P : \A m \in DOMAIN P[x].writes, l \in DOMAIN P[y].writes :
            P[x].writes[m].entry.id = P[y].writes[l].entry.id => x = y /\ m = l
      BY Zenon DEF WritesApart
    <3> QED
      BY <2>1, <3>1
  <2> QED
    BY <1>4, <2>2, Zenon
<1>7. Pending(Q) = Pending(P)
  <2>1. \A w : ~Occurs(w, P[k].writes)
    BY EmptySeq DEF Occurs
  <2>2. ASSUME NEW w PROVE w \in Pending(Q) <=> w \in Pending(P)
    BY <1>3, <1>5, <2>1, Zenon DEF Pending
  <2> QED
    BY <2>2
<1> QED
  BY <1>2, <1>6, <1>7 DEF Q

\* A new call, for commands that no other write is for.
LEMMA CallStarts ==
  ASSUME NEW P \in Seq(Call), WritesApart(P), NEW ws \in Seq(Write),
         NEW ivs \in SUBSET Vectors,
         \A m, n \in DOMAIN ws : ws[m].entry.id = ws[n].entry.id => m = n,
         \A m \in DOMAIN ws : \A w \in Pending(P) : ws[m].entry.id # w.entry.id
  PROVE  LET Q == Append(P, [writes |-> ws, ivs |-> ivs])
         IN  /\ Q \in Seq(Call) /\ WritesApart(Q)
             /\ Pending(Q) = Pending(P) \cup {w \in Write : Occurs(w, ws)}
<1> DEFINE call == [writes |-> ws, ivs |-> ivs]
           Q == Append(P, call)
           n == Len(P)
<1>1. call \in Call /\ call.writes = ws
  BY DEF Call
<1>2. n \in Nat /\ DOMAIN P = 1 .. n
  BY LenProperties
<1> HIDE DEF call
<1>3. /\ Q \in Seq(Call) /\ DOMAIN Q = 1 .. n + 1 /\ Q[n + 1] = call
      /\ \A k \in 1 .. n : Q[k] = P[k]
  <2>1. Q \in Seq(Call) /\ Len(Q) = n + 1 /\ Q[n + 1] = call /\ \A k \in 1 .. n : Q[k] = P[k]
    BY <1>1, AppendProperties
  <2> HIDE DEF Q
  <2> QED
    BY <2>1, LenProperties
<1> HIDE DEF Q
<1>4. \A k \in DOMAIN Q : \/ k \in DOMAIN P /\ k # n + 1 /\ Q[k] = P[k]
                          \/ k = n + 1 /\ Q[k].writes = ws
  BY <1>1, <1>2, <1>3
<1>5. n + 1 \in DOMAIN Q /\ Q[n + 1].writes = ws /\ \A k \in DOMAIN P : k \in DOMAIN Q /\ Q[k] = P[k]
  BY <1>1, <1>2, <1>3
<1> HIDE DEF n
<1>6. WritesApart(Q)
  <2> SUFFICES ASSUME NEW a \in DOMAIN Q, NEW b \in DOMAIN Q,
                      NEW i \in DOMAIN Q[a].writes, NEW j \in DOMAIN Q[b].writes,
                      Q[a].writes[i].entry.id = Q[b].writes[j].entry.id
               PROVE  a = b /\ i = j
    BY Zenon DEF WritesApart
  <2>1. \A k \in DOMAIN P : \A m \in DOMAIN P[k].writes : \A l \in DOMAIN ws :
          ws[l].entry.id # P[k].writes[m].entry.id
    BY WritesOfCall, Zenon
  <2>2. CASE a # n + 1 /\ b # n + 1
    <3>1. a \in DOMAIN P /\ b \in DOMAIN P /\ Q[a] = P[a] /\ Q[b] = P[b]
      BY <1>4, <2>2
    <3> QED
      BY <3>1 DEF WritesApart
  <2>3. CASE a = n + 1 /\ b = n + 1
    BY <1>5, <2>3
  <2>4. CASE a = n + 1 /\ b # n + 1
    <3>1. b \in DOMAIN P /\ Q[b] = P[b] /\ Q[a].writes = ws
      BY <1>4, <2>4
    <3> QED
      BY <2>1, <3>1
  <2>5. CASE a # n + 1 /\ b = n + 1
    <3>1. a \in DOMAIN P /\ Q[a] = P[a] /\ Q[b].writes = ws
      BY <1>4, <2>5
    <3> QED
      BY <2>1, <3>1
  <2> QED
    BY <2>2, <2>3, <2>4, <2>5
<1>7. ASSUME NEW w PROVE w \in Pending(Q) <=> w \in Pending(P) \/ (w \in Write /\ Occurs(w, ws))
  <2>1. ASSUME w \in Pending(Q) PROVE w \in Pending(P) \/ (w \in Write /\ Occurs(w, ws))
    <3>1. w \in Write
      BY <2>1 DEF Pending
    <3>2. PICK k \in DOMAIN Q : Occurs(w, Q[k].writes)
      BY <2>1 DEF Pending
    <3>3. \/ k \in DOMAIN P /\ Occurs(w, P[k].writes)
          \/ Occurs(w, ws)
      BY <1>4, <3>2
    <3> QED
      BY <3>1, <3>3, Zenon DEF Pending
  <2>2. ASSUME w \in Pending(P) PROVE w \in Pending(Q)
    BY <1>5, <2>2 DEF Pending
  <2>3. ASSUME w \in Write, Occurs(w, ws) PROVE w \in Pending(Q)
    BY <1>5, <2>3 DEF Pending
  <2> QED
    BY <2>1, <2>2, <2>3
<1> QED
  BY <1>3, <1>6, <1>7 DEF Q, call

-----------------------------------------------------------------------------
(* Aborts: deleteSQueue() walks over lSQFIFO. *)

Walking == [fifo : Seq(Issued), aborted : Seq(Issued), pos : Nat \ {0}]

\* Every command is still in lSQFIFO or was aborted.
Parted(s) ==
  /\ s \in Walking /\ NoDuplicates(s.fifo) /\ NoDuplicates(s.aborted)
  /\ \A x : Occurs(x, lSQFIFO) <=> Occurs(x, s.fifo) \/ Occurs(x, s.aborted)
  /\ \A x : ~(Occurs(x, s.fifo) /\ Occurs(x, s.aborted))

\* The command at the position is taken out.
TakenOut(s) ==
  LET left == RemoveAt(s.fifo, s.pos)
  IN  [fifo |-> left, aborted |-> Append(s.aborted, s.fifo[s.pos]),
       pos |-> IF s.pos > Len(left) THEN 1 ELSE s.pos + 1]

LEMMA AbortSteps ==
  ASSUME NEW q, NEW s \in Walking, NEW k
  PROVE  \/ AbortStep(q, s, k) = s
         \/ AbortStep(q, s, k) = [fifo |-> s.fifo, aborted |-> s.aborted, pos |-> s.pos + 1]
         \/ s.pos \in DOMAIN s.fifo /\ AbortStep(q, s, k) = TakenOut(s)
<1>1. /\ s.fifo \in Seq(Issued) /\ s.pos \in Nat \ {0}
      /\ s = [fifo |-> s.fifo, aborted |-> s.aborted, pos |-> s.pos]
  BY DEF Walking
<1>2. DOMAIN s.fifo = 1 .. Len(s.fifo) /\ Len(s.fifo) \in Nat
  BY <1>1, LenProperties
<1>3. [s EXCEPT !.pos = @ + 1] = [fifo |-> s.fifo, aborted |-> s.aborted, pos |-> s.pos + 1]
  BY <1>1
<1>4. ~(s.pos > Len(s.fifo)) => s.pos \in DOMAIN s.fifo
  BY <1>1, <1>2
<1>5. \/ AbortStep(q, s, k) = s
      \/ AbortStep(q, s, k) = [s EXCEPT !.pos = @ + 1]
      \/ ~(s.pos > Len(s.fifo)) /\ AbortStep(q, s, k) = TakenOut(s)
  BY Zenon DEF AbortStep, TakenOut
<1> QED
  BY <1>3, <1>4, <1>5, Zenon

LEMMA WalkingOn ==
  ASSUME NEW q, NEW s \in Walking, NEW k
  PROVE  AbortStep(q, s, k) \in Walking
<1>1. /\ s.fifo \in Seq(Issued) /\ s.aborted \in Seq(Issued) /\ s.pos \in Nat \ {0}
      /\ s.pos + 1 \in Nat \ {0}
  BY DEF Walking
<1>2. [fifo |-> s.fifo, aborted |-> s.aborted, pos |-> s.pos + 1] \in Walking
  BY <1>1 DEF Walking
<1>3. ASSUME s.pos \in DOMAIN s.fifo PROVE TakenOut(s) \in Walking
  <2> DEFINE left == RemoveAt(s.fifo, s.pos)
             gone == Append(s.aborted, s.fifo[s.pos])
             pos == IF s.pos > Len(left) THEN 1 ELSE s.pos + 1
  <2>1. s.pos \in 1 .. Len(s.fifo) /\ s.fifo[s.pos] \in Issued
    BY <1>1, <1>3, LenProperties, ElementOfSeq
  <2>2. left \in Seq(Issued)
    BY <1>1, <2>1, RemoveAtProperties
  <2>3. gone \in Seq(Issued)
    BY <1>1, <2>1, AppendProperties
  <2>4. pos \in Nat \ {0}
    BY <1>1
  <2>5. TakenOut(s) = [fifo |-> left, aborted |-> gone, pos |-> pos]
    BY Zenon DEF TakenOut
  <2> HIDE DEF left, gone, pos
  <2> QED
    BY <2>2, <2>3, <2>4, <2>5 DEF Walking
<1> QED
  BY <1>2, <1>3, AbortSteps, Zenon

LEMMA PartedStep ==
  ASSUME NEW q, NEW s, Parted(s), NEW k
  PROVE  Parted(AbortStep(q, s, k))
<1>1. /\ s \in Walking /\ NoDuplicates(s.fifo) /\ NoDuplicates(s.aborted)
      /\ \A x : Occurs(x, lSQFIFO) <=> Occurs(x, s.fifo) \/ Occurs(x, s.aborted)
      /\ \A x : ~(Occurs(x, s.fifo) /\ Occurs(x, s.aborted))
  BY Zenon DEF Parted
<1>2. AbortStep(q, s, k) \in Walking
  BY <1>1, WalkingOn
<1>3. CASE AbortStep(q, s, k) = s
  BY <1>1, <1>3, Zenon DEF Parted
<1>4. CASE AbortStep(q, s, k) = [fifo |-> s.fifo, aborted |-> s.aborted, pos |-> s.pos + 1]
  <2>1. AbortStep(q, s, k).fifo = s.fifo /\ AbortStep(q, s, k).aborted = s.aborted
    BY <1>4
  <2> QED
    BY <1>1, <1>2, <2>1, Zenon DEF Parted
<1>5. CASE s.pos \in DOMAIN s.fifo /\ AbortStep(q, s, k) = TakenOut(s)
  <2> DEFINE t == AbortStep(q, s, k)
             e == s.fifo[s.pos]
  <2>1. s.fifo \in Seq(Issued) /\ s.aborted \in Seq(Issued)
    BY <1>1 DEF Walking
  <2>2. t.fifo = RemoveAt(s.fifo, s.pos) /\ t.aborted = Append(s.aborted, e)
    BY <1>5 DEF TakenOut
  <2> HIDE DEF t
  <2>3. /\ NoDuplicates(t.fifo) /\ e \in Issued
        /\ \A x : Occurs(x, t.fifo) <=> Occurs(x, s.fifo) /\ x # e
    BY <1>1, <1>5, <2>1, <2>2, RemoveQueue
  <2>4. Occurs(e, s.fifo) /\ ~Occurs(e, s.aborted)
    BY <1>1, <1>5, Zenon DEF Occurs
  <2> HIDE DEF e
  <2>5. /\ NoDuplicates(t.aborted)
        /\ \A x : Occurs(x, t.aborted) <=> Occurs(x, s.aborted) \/ x = e
    BY <1>1, <2>1, <2>2, <2>3, <2>4, AppendQueue
  <2>6. Parted(t)
    BY <1>1, <1>2, <2>3, <2>4, <2>5, Zenon DEF Parted, t
  <2> QED
    BY <2>6 DEF t
<1> QED
  BY <1>1, <1>3, <1>4, <1>5, AbortSteps, Zenon

\* The walk neither loses a command nor takes one out twice, whatever it passes over.
LEMMA Aborts ==
  ASSUME lSQFIFO \in Seq(Issued), NoDuplicates(lSQFIFO), NEW q
  PROVE  Parted(AbortAll(q))
<1> DEFINE N == Len(lSQFIFO) * (Len(lSQFIFO) + 1)
           D == 1 .. N
           base == [fifo |-> lSQFIFO, aborted |-> <<>>, pos |-> 1]
           Turn(t, k) == AbortStep(q, t, k)
           step == [x \in Walking \X D |-> Turn(x[1], x[2])]
           P(g) == g = [r \in SUBSET D |->
                          IF r = {} THEN base ELSE Turn(g[r \ {Max(r)}], Walk[Max(r)])]
<1>1. N \in Nat /\ DOMAIN Walk = D /\ \A k \in D : Walk[k] = k
  <2>1. Len(lSQFIFO) \in Nat
    BY LenProperties
  <2>2. N \in Nat
    BY <2>1
  <2> HIDE DEF N
  <2> QED
    BY <2>2 DEF Walk, N
<1> HIDE DEF N
<1>2. base \in Walking
  <2>1. <<>> \in Seq(Issued)
    BY EmptySeq
  <2> QED
    BY <2>1 DEF Walking
<1>3. \A t \in Walking, k \in D : Turn(t, k) \in Walking
  BY WalkingOn, Zenon
<1>4. step \in [Walking \X D -> Walking]
  <2> HIDE DEF Turn
  <2> QED
    BY <1>3
<1>5. AbortAll(q) = (CHOOSE g : P(g))[D]
  BY <1>1, AbortAllWalks, Zenon DEF Walked
<1> HIDE DEF base, Turn
<1>6. PICK h : Folded(h, Walking, N, step, base)
  <2> HIDE DEF step
  <2> QED
    BY <1>1, <1>2, <1>4, FoldExists
<1>7. \A t \in Walking, k \in D : step[<<t, k>>] = Turn(t, k)
  OBVIOUS
<1> HIDE DEF step
<1>8. ASSUME NEW r \in SUBSET D
      PROVE  /\ r # {} => Max(r) \in D
             /\ h[r] = IF r = {} THEN base ELSE Turn(h[r \ {Max(r)}], Walk[Max(r)])
  <2>1. /\ h[r] = IF r = {} THEN base ELSE step[<<h[r \ {Max(r)}], Max(r)>>]
        /\ r # {} => Max(r) \in D /\ h[r \ {Max(r)}] \in Walking
    BY <1>1, <1>6, FoldedAt
  <2> QED
    BY <1>1, <1>7, <2>1
<1>9. P(h)
  <2>1. h \in [SUBSET D -> Walking]
    BY <1>6, Zenon DEF Folded
  <2> QED
    BY <1>8, <2>1
<1>10. PICK g : P(g) /\ AbortAll(q) = g[D]
  <2> HIDE DEF P
  <2> QED
    BY <1>5, <1>9, Zenon
<1> DEFINE next == [r \in SUBSET D |-> Turn(g[r \ {Max(r)}], Walk[Max(r)])]
<1>11. \A r \in SUBSET D : g[r] = IF r = {} THEN base ELSE next[r]
  BY <1>10
<1>12. FoldedBy(g, Walking, N, step, base, next)
  <2>1. ASSUME NEW r \in SUBSET D, r # {}, g[r \ {Max(r)}] \in Walking
        PROVE  next[r] = step[<<g[r \ {Max(r)}], Max(r)>>]
    <3>1. Max(r) \in D
      BY <1>8, <2>1
    <3>2. Walk[Max(r)] = Max(r)
      BY <1>1, <3>1, Zenon
    <3>3. next[r] = Turn(g[r \ {Max(r)}], Walk[Max(r)])
      BY <2>1, Zenon
    <3> QED
      BY <1>7, <2>1, <3>1, <3>2, <3>3, Zenon
  <2> HIDE DEF next
  <2> QED
    BY <1>1, <1>2, <1>4, <1>11, <2>1, Zenon DEF FoldedBy
<1> HIDE DEF next, P
<1>13. PICK f : Iterated(f, Walking, N, step, base) /\ f[N] = g[D]
  BY <1>12, FoldRuns
<1>14. /\ f \in [0 .. N -> Walking] /\ f[0] = base
       /\ \A n \in D : f[n] = step[<<f[n - 1], n>>]
  BY <1>13, Zenon DEF Iterated
<1> DEFINE M == {n \in Nat : n <= N => Parted(f[n])}
<1>15. 0 \in M
  <2>1. base.fifo = lSQFIFO /\ base.aborted = <<>>
    BY DEF base
  <2>2. \A x : ~Occurs(x, <<>>)
    BY EmptySeq DEF Occurs
  <2>3. NoDuplicates(<<>>)
    BY EmptySeq DEF NoDuplicates
  <2>4. Parted(base)
    BY <1>2, <2>1, <2>2, <2>3, Zenon DEF Parted
  <2> QED
    BY <1>14, <2>4
<1>16. ASSUME NEW n \in Nat, n \in M PROVE n + 1 \in M
  <2> SUFFICES ASSUME n + 1 <= N PROVE Parted(f[n + 1])
    OBVIOUS
  <2>1. n + 1 \in D /\ (n + 1) - 1 = n /\ n <= N /\ n \in 0 .. N
    BY <1>1
  <2>2. Parted(f[n]) /\ f[n] \in Walking
    BY <1>14, <1>16, <2>1
  <2>3. f[n + 1] = AbortStep(q, f[n], n + 1)
    BY <1>7, <1>14, <2>1, <2>2 DEF Turn
  <2> QED
    BY <2>2, <2>3, PartedStep
<1>17. N \in M
  <2>1. Nat \subseteq M
    <3> HIDE DEF M
    <3> QED
      BY <1>15, <1>16, NatInductionSet
  <2> QED
    BY <1>1, <2>1
<1> QED
  BY <1>1, <1>10, <1>13, <1>17

-----------------------------------------------------------------------------
(* The invariant: where every command is, and what the queues are good for. *)

Typed ==
  /\ cmd \in Seq(Command) /\ Len(cmd) <= MaxCommands
  /\ sq \in [SQ -> SubmissionQueue] /\ cq \in [CQ -> CompletionQueue]
  /\ host \in Host /\ done \subseteq Issued
  /\ loop \in {"work", "collect", "handle", "stopped"}
  /\ fetching \in Seq(Read)
  /\ lSQFIFO \in Seq(Issued) /\ lCQFIFO \in Seq(Issued)
  /\ executing \subseteq Issued /\ created \subseteq executing
  /\ posting \in Seq(Call)
  /\ aggregationMap \in [Vectors -> Aggregation]
  /\ status \in {"ready", "shutdown", "complete"}
  /\ panic = NoPanic

\* The stages of a command; Unread says that it is an admin command not yet collected,
\* Late that a queue command has had its effect.
Live == Issued \ done
Queued(i) == \E q \in SQ : WaitsIn(q, sq[q], fetching, i)
Unread(i) == InRing(sq[0], Items(sq[0]), i)
Fifo(i) == Occurs(i, lSQFIFO)
Exec(i) == i \in executing
Finished(i) == Occurs(i, lCQFIFO)
Posted(i) == \E c \in host.cqs : Held(c, cq[c], host.reads[c], Pending(posting), i)
Late(i) == i \in created \/ Finished(i) \/ Posted(i)

\* What a submission queue or a completion queue holds are outstanding commands of it.
SqsOk == \A q \in SQ : SqOk(q, sq[q], fetching, Outstanding(q))
CqsOk ==
  /\ \A c \in host.cqs : CqOk(c, cq[c], host.reads[c], Pending(posting), OutstandingTo(c))
  /\ \A c \in CQ : Cardinality(OutstandingTo(c)) <= CqSize - 1
  /\ \A w \in Pending(posting) : w.cq \in host.cqs
  /\ WritesApart(posting)

\* A command that the host waits for is at one stage; a shutdown may lose it.
Stage(i) ==
  /\ Queued(i) \/ Fifo(i) \/ Exec(i) \/ Finished(i) \/ Posted(i) => i \in Live
  /\ i \in Live => \/ Queued(i) \/ Fifo(i) \/ Exec(i) \/ Finished(i) \/ Posted(i)
                   \/ status = "complete"
  /\ Queued(i) => ~Fifo(i) /\ ~Exec(i) /\ ~Finished(i) /\ ~Posted(i)
  /\ Fifo(i) => ~Exec(i) /\ ~Finished(i) /\ ~Posted(i)
  /\ Exec(i) => ~Finished(i) /\ ~Posted(i)
  /\ Finished(i) => ~Posted(i)
Stages ==
  /\ NoDuplicates(lSQFIFO) /\ NoDuplicates(lCQFIFO)
  /\ \A i \in Issued : Stage(i)

\* A queue that is gone has nothing left to collect.
Drained(q) == Items(sq[q]) = 0 \/ Unfetched(q)
Reading(q) == \E k \in DOMAIN fetching : fetching[k].sq = q
ReadsOk ==
  /\ loop # "collect" => fetching = <<>>
  /\ \A q \in SQ : /\ Reading(q) => sq[q].exists /\ ~Unfetched(q)
                   /\ ~sq[q].exists => Drained(q)

\* An admin command in flight, and the queue that it creates or deletes.
OkDeleteSQ(i, a) ==
  /\ a \in SQ \ host.sqs /\ a # 0
  /\ sq[a].exists <=> ~Late(i)
  /\ ~Unread(i) => Drained(a)
  /\ Exec(i) => ~Reading(a)
OkCreateSQ(i, a) ==
  /\ a \in SQ \ host.sqs /\ CqOf[a] \in host.cqs /\ Outstanding(a) = {}
  /\ sq[a].exists <=> Late(i)
OkDeleteCQ(i, a) ==
  /\ a \in CQ \ host.cqs /\ a # 0
  /\ cq[a].exists <=> ~Late(i)
OkCreateCQ(i, a) ==
  /\ a \in CQ \ host.cqs
  /\ cq[a].exists <=> Late(i)
  /\ Late(i) => cq[a] = NewCQ
OkAdmin(i) ==
  /\ cmd[i].op = "delete SQ" => OkDeleteSQ(i, cmd[i].arg)
  /\ cmd[i].op = "create SQ" => OkCreateSQ(i, cmd[i].arg)
  /\ cmd[i].op = "delete CQ" => OkDeleteCQ(i, cmd[i].arg)
  /\ cmd[i].op = "create CQ" => OkCreateCQ(i, cmd[i].arg)
  /\ cmd[i].op = "abort" =>
       cmd[i].arg \in Issued /\ cmd[cmd[i].arg].sq \in host.sqs /\ cmd[cmd[i].arg].sq # 0
  /\ cmd[i].op = "coalesce" => cmd[i].arg \in Vectors

\* The rules of the interface that the host keeps, seen from the commands in flight.
CommandsOk ==
  /\ \A i \in Issued : cmd[i].sq = 0 <=> cmd[i].op # "io"
  /\ \A i \in created : cmd[i].op \in {"create SQ", "create CQ"}
  /\ \A i \in Live : CqOf[cmd[i].sq] \in host.cqs
  /\ \A i, j \in Live : cmd[i].sq = 0 /\ cmd[j].sq = 0 => i = j
HostOk ==
  /\ 0 \in host.sqs
  /\ \A q \in host.sqs : sq[q].exists /\ CqOf[q] \in host.cqs
  /\ \A q \in SQ \ host.sqs : sq[q].exists =>
       \E i \in Live : cmd[i].op \in {"delete SQ", "create SQ"} /\ cmd[i].arg = q
  /\ \A c \in CQ \ host.cqs : cq[c].exists =>
       \E i \in Live : cmd[i].op \in {"delete CQ", "create CQ"} /\ cmd[i].arg = c
AdminsOk == \A i \in Live : cmd[i].sq = 0 => OkAdmin(i)

Inv == Typed /\ SqsOk /\ CqsOk /\ Stages /\ ReadsOk /\ CommandsOk /\ HostOk /\ AdminsOk

\* Nothing happens to the completion queues that the host uses.
LEMMA CompletionSideStays ==
  ASSUME UNCHANGED <<cmd, done, host, posting>>, \A c \in host.cqs : cq'[c] = cq[c]
  PROVE  /\ CqsOk => CqsOk'
         /\ \A i : Posted(i)' <=> Posted(i)
<1>1. \A c : OutstandingTo(c)' = OutstandingTo(c)
  BY Zenon DEF OutstandingTo, CompletionQueueOf, Issued
<1>2. CqsOk => CqsOk'
  BY <1>1, Zenon DEF CqsOk
<1>3. \A i : Posted(i)' <=> Posted(i)
  BY Zenon DEF Posted
<1> QED
  BY <1>2, <1>3

LEMMA CompletionSideSame ==
  ASSUME UNCHANGED <<cmd, done, host, cq, posting>>
  PROVE  /\ CqsOk => CqsOk'
         /\ \A i : Posted(i)' <=> Posted(i)
BY CompletionSideStays, Zenon

\* Nothing happens to the submission queues, or only to whether they exist.
LEMMA SubmissionSideSame ==
  ASSUME UNCHANGED <<cmd, done, host, sq, fetching>>
  PROVE  /\ SqsOk => SqsOk'
         /\ \A i : (Queued(i)' <=> Queued(i)) /\ (Unread(i)' <=> Unread(i))
         /\ \A q : (Reading(q)' <=> Reading(q)) /\ (Drained(q)' <=> Drained(q))
<1>1. \A q : Outstanding(q)' = Outstanding(q)
  BY Zenon DEF Outstanding, Issued
<1>2. SqsOk => SqsOk'
  BY <1>1, Zenon DEF SqsOk
<1>3. \A i : (Queued(i)' <=> Queued(i)) /\ (Unread(i)' <=> Unread(i))
  BY Zenon DEF Queued, Unread
<1>4. \A q : (Reading(q)' <=> Reading(q)) /\ (Drained(q)' <=> Drained(q))
  BY Zenon DEF Reading, Drained, Unfetched
<1> QED
  BY <1>2, <1>3, <1>4

LEMMA SubmissionSideStays ==
  ASSUME UNCHANGED <<cmd, done, host, fetching>>, SqsOk,
         \A q \in SQ : sq'[q].head = sq[q].head /\ sq'[q].tail = sq[q].tail
                       /\ sq'[q].ring = sq[q].ring
  PROVE  /\ SqsOk'
         /\ \A i : (Queued(i)' <=> Queued(i)) /\ (Unread(i)' <=> Unread(i))
         /\ \A q \in SQ : (Reading(q)' <=> Reading(q)) /\ (Drained(q)' <=> Drained(q))
<1>1. \A q : Outstanding(q)' = Outstanding(q)
  BY Zenon DEF Outstanding, Issued
<1>2. ASSUME NEW q \in SQ
      PROVE  /\ SqOk(q, sq'[q], fetching, Outstanding(q)) /\ Items(sq'[q]) = Items(sq[q])
             /\ \A i : WaitsIn(q, sq'[q], fetching, i) <=> WaitsIn(q, sq[q], fetching, i)
             /\ \A i, n : InRing(sq'[q], n, i) <=> InRing(sq[q], n, i)
  <2>1. SqOk(q, sq[q], fetching, Outstanding(q))
    BY Zenon DEF SqsOk
  <2>2. \A i : WaitsIn(q, sq[q], fetching, i) => i \in Outstanding(q)
    BY <2>1, WaitsAmong, Zenon
  <2> QED
    BY <2>1, <2>2, SqStays, Zenon
<1>3. SqsOk'
  BY <1>1, <1>2, Zenon DEF SqsOk
<1>4. \A i : (Queued(i)' <=> Queued(i)) /\ (Unread(i)' <=> Unread(i))
  BY <1>2, Constants, Zenon DEF Queued, Unread
<1>5. \A q \in SQ : (Reading(q)' <=> Reading(q)) /\ (Drained(q)' <=> Drained(q))
  BY <1>2, Zenon DEF Reading, Drained, Unfetched
<1> QED
  BY <1>3, <1>4, <1>5

\* The rules stay while the queue commands in flight keep their effect.
LEMMA RulesKept ==
  ASSUME host \in Host, CommandsOk, HostOk, AdminsOk,
         UNCHANGED <<cmd, done, host>>, created' \subseteq created,
         \A q \in SQ : sq'[q].exists = sq[q].exists,
         \A c \in CQ : cq'[c].exists = cq[c].exists,
         \A c \in CQ \ host.cqs : cq'[c] = cq[c],
         \A i \in Live : cmd[i].op \in {"delete SQ", "create SQ", "delete CQ", "create CQ"} =>
           (Late(i)' <=> Late(i)),
         \A i \in Live, a \in SQ : cmd[i].op = "delete SQ" /\ OkDeleteSQ(i, a) =>
           (~Unread(i) => Drained(a))' /\ (Exec(i) => ~Reading(a))'
  PROVE  CommandsOk' /\ HostOk' /\ AdminsOk'
<1>1. Live' = Live /\ Issued' = Issued /\ \A q : Outstanding(q)' = Outstanding(q)
  BY Zenon DEF Live, Issued, Outstanding
<1>2. CommandsOk'
  BY <1>1, Zenon DEF CommandsOk
<1>3. HostOk'
  <2>1. host.sqs \subseteq SQ
    BY DEF Host
  <2>2. 0 \in host'.sqs /\ \A q \in host'.sqs : sq'[q].exists /\ CqOf[q] \in host'.cqs
    <3>1. \A q \in host.sqs : q \in SQ
      BY <2>1
    <3> QED
      BY <3>1, Zenon DEF HostOk
  <2>3. ASSUME NEW q \in SQ \ host'.sqs, sq'[q].exists
        PROVE  \E i \in Live' : cmd'[i].op \in {"delete SQ", "create SQ"} /\ cmd'[i].arg = q
    BY <1>1, <2>3, ZenonT(40) DEF HostOk
  <2>4. ASSUME NEW c \in CQ \ host'.cqs, cq'[c].exists
        PROVE  \E i \in Live' : cmd'[i].op \in {"delete CQ", "create CQ"} /\ cmd'[i].arg = c
    BY <1>1, <2>4, Zenon DEF HostOk
  <2> QED
    BY <2>2, <2>3, <2>4, Zenon DEF HostOk
<1>4. ASSUME NEW i \in Live, cmd[i].sq = 0 PROVE OkAdmin(i)'
  <2> DEFINE a == cmd[i].arg
  <2>1. OkAdmin(i)
    BY <1>4, Zenon DEF AdminsOk
  <2>2. cmd[i].op = "delete SQ" => OkDeleteSQ(i, a)'
    BY <2>1, Zenon DEF OkAdmin, OkDeleteSQ
  <2>3. cmd[i].op = "create SQ" => OkCreateSQ(i, a)'
    BY <1>1, <2>1, Zenon DEF OkAdmin, OkCreateSQ
  <2>4. cmd[i].op = "delete CQ" => OkDeleteCQ(i, a)'
    BY <2>1, Zenon DEF OkAdmin, OkDeleteCQ
  <2>5. cmd[i].op = "create CQ" => OkCreateCQ(i, a)'
    BY <2>1, Zenon DEF OkAdmin, OkCreateCQ
  <2> QED
    BY <1>1, <2>1, <2>2, <2>3, <2>4, <2>5, Zenon DEF OkAdmin
<1> QED
  BY <1>1, <1>2, <1>3, <1>4, Zenon DEF AdminsOk

LEMMA CommandsTyped ==
  ASSUME Typed
  PROVE  /\ MaxCommands \in Nat /\ Issued = 1 .. Len(cmd) /\ Len(cmd) \in Nat
         /\ Issued \subseteq Id /\ Issued \subseteq Tag /\ 0 \notin Issued /\ IsFiniteSet(Issued)
         /\ \A i \in Issued : /\ cmd[i] \in Command /\ cmd[i].sq \in SQ
                              /\ CompletionQueueOf(i) \in CQ
         /\ \A q : IsFiniteSet(Outstanding(q)) /\ Outstanding(q) \subseteq Live
         /\ \A c : IsFiniteSet(OutstandingTo(c)) /\ OutstandingTo(c) \subseteq Live
         /\ Live \subseteq Issued
<1>1. MaxCommands \in Nat
  BY ControllerAssumption, Zenon DEF ControllerAssumption
<1>2. Len(cmd) \in Nat /\ Issued = 1 .. Len(cmd) /\ Len(cmd) <= MaxCommands
  BY LenProperties DEF Typed, Issued
<1>3. Issued \subseteq Id /\ Issued \subseteq Tag /\ 0 \notin Issued
  BY <1>1, <1>2 DEF Id, Tag
<1>4. IsFiniteSet(Issued)
  BY <1>2, FS_Interval
<1>5. ASSUME NEW i \in Issued
      PROVE  cmd[i] \in Command /\ cmd[i].sq \in SQ /\ CompletionQueueOf(i) \in CQ
  <2>1. cmd[i] \in Command
    BY <1>2, <1>5, ElementOfSeq DEF Typed
  <2> QED
    BY <2>1, Constants DEF Command, CompletionQueueOf
<1>6. \A q : Outstanding(q) \subseteq Issued /\ Outstanding(q) \subseteq Live
  BY DEF Outstanding, Live
<1>7. \A c : OutstandingTo(c) \subseteq Issued /\ OutstandingTo(c) \subseteq Live
  BY DEF OutstandingTo, Live
<1>8. Live \subseteq Issued
  BY DEF Live
<1> QED
  BY <1>1, <1>2, <1>3, <1>4, <1>5, <1>6, <1>7, <1>8, FS_Subset

\* No command goes on to another stage.
LEMMA SameStages ==
  ASSUME Stages, UNCHANGED <<cmd, done, lSQFIFO, lCQFIFO, executing, status>>,
         \A i : Queued(i)' <=> Queued(i), \A i : Posted(i)' <=> Posted(i)
  PROVE  /\ Stages' /\ Live' = Live
         /\ \A i : Exec(i)' <=> Exec(i)
         /\ created' = created => \A i : Late(i)' <=> Late(i)
<1>1. Live' = Live /\ Issued' = Issued
  BY Zenon DEF Live, Issued
<1>2. \A i : (Fifo(i)' <=> Fifo(i)) /\ (Exec(i)' <=> Exec(i)) /\ (Finished(i)' <=> Finished(i))
  BY Zenon DEF Fifo, Exec, Finished
<1>3. created' = created => \A i : Late(i)' <=> Late(i)
  BY <1>2, Zenon DEF Late
<1>4. \A i : Stage(i) => Stage(i)'
  BY <1>1, <1>2, Zenon DEF Stage
<1> QED
  BY <1>1, <1>2, <1>3, <1>4, Zenon DEF Stages

\* An entry that was not collected is in its queue.
LEMMA UnreadQueued ==
  ASSUME Typed, NEW i, Unread(i)
  PROVE  Queued(i)
<1>1. PICK d \in 1 .. Items(sq[0]) : EntryAt(sq[0], d) = i
  BY Zenon DEF Unread, InRing
<1>2. sq[0] \in SubmissionQueue /\ 0 \in SQ
  BY Constants DEF Typed
<1>3. Items(sq[0]) \in Nat /\ ReadsFrom(fetching, 0, 1) \in Nat
  BY <1>2, ItemsNat, ReadsCounted DEF Typed
<1>4. d \in 1 .. Depth(0, sq[0], fetching)
  BY <1>3 DEF Depth
<1> QED
  BY <1>1, <1>2, <1>4, Zenon DEF Queued, WaitsIn, InRing

-----------------------------------------------------------------------------
(* The loop of the controller. *)

LEMMA WorkStep ==
  ASSUME Inv, WorkEvent
  PROVE  Inv'
<1>1. /\ UNCHANGED <<cmd, cq, host, done, lSQFIFO, executing, created, lCQFIFO, posting,
                     aggregationMap, status, panic>>
      /\ loop = "work" /\ loop' \in {"stopped", "collect"}
  BY Zenon DEF WorkEvent, postVars
<1>2. /\ Typed /\ SqsOk /\ CqsOk /\ Stages /\ ReadsOk /\ CommandsOk /\ HostOk /\ AdminsOk
      /\ host \in Host /\ sq \in [SQ -> SubmissionQueue]
  BY Zenon DEF Inv, Typed
<1>3. fetching = <<>>
  BY <1>1, <1>2 DEF ReadsOk
<1>4. CqsOk' /\ \A i : Posted(i)' <=> Posted(i)
  BY <1>1, <1>2, CompletionSideSame, Zenon
<1>5. CASE UNCHANGED <<sq, fetching>> /\ loop' = "stopped"
  <2>1. /\ SqsOk' /\ \A i : (Queued(i)' <=> Queued(i)) /\ (Unread(i)' <=> Unread(i))
        /\ \A q : (Reading(q)' <=> Reading(q)) /\ (Drained(q)' <=> Drained(q))
    BY <1>1, <1>2, <1>5, SubmissionSideSame, Zenon
  <2>2. /\ Stages' /\ Live' = Live
        /\ \A i : (Exec(i)' <=> Exec(i)) /\ (Late(i)' <=> Late(i))
    BY <1>1, <1>2, <1>4, <2>1, SameStages, Zenon
  <2>3. CommandsOk' /\ HostOk' /\ AdminsOk'
    BY <1>1, <1>2, <1>5, <2>1, <2>2, RulesKept, Zenon DEF OkDeleteSQ
  <2>4. ReadsOk'
    BY <1>1, <1>2, <1>3, <1>5, <2>1, Zenon DEF ReadsOk, Unfetched
  <2>5. Typed'
    BY <1>1, <1>2, <1>5 DEF Typed, Issued
  <2> QED
    BY <1>4, <2>1, <2>2, <2>3, <2>4, <2>5, Zenon DEF Inv
<1>6. CASE /\ loop' = "collect"
           /\ fetching' = Reads(CollectOrder) /\ sq' = Fetched(CollectOrder)
  <2> DEFINE order == CollectOrder
             taken(q) == CountOf(order, q)
  <2>1. /\ order \in Seq(SQ)
        /\ \A q \in SQ : taken(q) = IF sq[q].exists /\ ~Unfetched(q) THEN SqItems(q) ELSE 0
    <3>1. sq[0].exists
      BY <1>2, Zenon DEF HostOk
    <3> QED
      BY <1>2, <3>1, CollectsAll, Zenon
  <2>2. \A q \in SQ : /\ Items(sq[q]) \in Nat /\ taken(q) <= Items(sq[q])
                      /\ taken(q) # 0 => /\ sq[q].exists /\ ~Unfetched(q)
                                        /\ Items(sq[q]) # 0
                      /\ sq[q].exists /\ ~Unfetched(q) => Items(sq[q]) - taken(q) = 0
    <3> TAKE q \in SQ
    <3>1. sq[q] \in SubmissionQueue
      BY <1>2
    <3>2. SqItems(q) = Items(sq[q]) /\ Items(sq[q]) \in Nat
      BY <3>1, ItemsNat DEF SqItems, Items
    <3>3. taken(q) = IF sq[q].exists /\ ~Unfetched(q) THEN Items(sq[q]) ELSE 0
      BY <2>1, <3>2, Zenon
    <3> HIDE DEF taken
    <3> QED
      BY <3>2, <3>3
  <2> HIDE DEF order
  <2>3. ASSUME NEW q \in SQ
        PROVE  /\ sq'[q] \in SubmissionQueue /\ sq'[q].exists = sq[q].exists
               /\ sq'[q].ring = sq[q].ring /\ sq'[q].tail = sq[q].tail
               /\ Items(sq'[q]) = Items(sq[q]) - taken(q)
               /\ SqOk(q, sq'[q], fetching', Outstanding(q))
               /\ \A i : WaitsIn(q, sq'[q], fetching', i) <=> WaitsIn(q, sq[q], fetching, i)
    <3>1. SqOk(q, sq[q], <<>>, Outstanding(q))
      BY <1>2, <1>3, Zenon DEF SqsOk
    <3>2. sq' = Fetched(order) /\ fetching' = Reads(order)
      BY <1>6 DEF order
    <3>3. /\ Items(sq'[q]) = Items(sq[q]) - taken(q)
          /\ SqOk(q, sq'[q], fetching', Outstanding(q))
          /\ \A i : WaitsIn(q, sq'[q], fetching', i) <=> WaitsIn(q, sq[q], <<>>, i)
      BY <1>2, <2>1, <2>2, <3>1, <3>2, Collected, Zenon
    <3>4. /\ sq'[q] \in SubmissionQueue /\ sq'[q].exists = sq[q].exists
          /\ sq'[q].ring = sq[q].ring /\ sq'[q].tail = sq[q].tail
      BY <1>2, <2>1, <3>2, FetchedHead, Zenon
    <3> QED
      BY <1>3, <3>3, <3>4, Zenon
  <2>4. sq' \in [SQ -> SubmissionQueue] /\ fetching' \in Seq(Read)
    <3>1. sq' = [q \in SQ |-> sq'[q]]
      BY <1>6 DEF Fetched
    <3>2. fetching' \in Seq(Read)
      BY <1>2, <1>6, <2>1, IssuedReads, Zenon DEF order
    <3> QED
      BY <2>3, <3>1, <3>2
  <2>5. \A q \in SQ : Reading(q)' => taken(q) # 0
    BY <1>2, <1>6, <2>1, ReadsWhat, Zenon DEF Reading, order
  <2> HIDE DEF taken
  <2>6. \A q : Unfetched(q)' <=> Unfetched(q)
    BY <1>1, Zenon DEF Unfetched
  <2>7. \A q \in SQ : /\ sq[q].exists \/ Drained(q) => Drained(q)'
                      /\ Reading(q)' => sq[q].exists /\ ~Drained(q)
    <3> TAKE q \in SQ
    <3>1. Items(sq'[q]) = Items(sq[q]) - taken(q)
      BY <2>3
    <3>2. Drained(q)' <=> Items(sq'[q]) = 0 \/ Unfetched(q)
      BY <2>6, Zenon DEF Drained
    <3>3. CASE taken(q) = 0
      <4>1. Items(sq'[q]) = Items(sq[q])
        BY <2>2, <3>1, <3>3
      <4>2. sq[q].exists /\ ~Unfetched(q) => Items(sq'[q]) = 0
        BY <2>2, <3>1
      <4> QED
        BY <2>5, <3>2, <3>3, <4>1, <4>2, Zenon DEF Drained
    <3>4. CASE taken(q) # 0
      <4>1. sq[q].exists /\ ~Unfetched(q) /\ Items(sq[q]) # 0 /\ Items(sq'[q]) = 0
        BY <2>2, <3>1, <3>4
      <4> QED
        BY <3>2, <4>1, Zenon DEF Drained
    <3> QED
      BY <3>3, <3>4, Zenon
  <2>8. SqsOk' /\ \A i : Queued(i)' <=> Queued(i)
    <3>1. \A q : Outstanding(q)' = Outstanding(q)
      BY <1>1, Zenon DEF Outstanding, Issued
    <3> QED
      BY <2>3, <3>1, Zenon DEF SqsOk, Queued
  <2>9. /\ Stages' /\ Live' = Live
        /\ \A i : (Exec(i)' <=> Exec(i)) /\ (Late(i)' <=> Late(i))
    BY <1>1, <1>2, <1>4, <2>8, SameStages, Zenon
  <2>10. CommandsOk' /\ HostOk' /\ AdminsOk'
    <3>1. ASSUME NEW i \in Live, NEW a \in SQ, OkDeleteSQ(i, a)
          PROVE  Drained(a)' /\ (Exec(i) => ~Reading(a)')
      <4>1. Drained(a)'
        BY <1>2, <2>7, Zenon DEF ReadsOk
      <4>2. Exec(i) => ~Unread(i)
        <5>1. Stage(i) /\ Unread(i) => Queued(i)
          BY <1>2, UnreadQueued, Zenon DEF Stages, Live
        <5> QED
          BY <1>2, <5>1, Zenon DEF Stages, Live, Stage
      <4> QED
        BY <2>7, <3>1, <4>1, <4>2, Zenon DEF OkDeleteSQ
    <3> QED
      BY <1>1, <1>2, <2>3, <2>9, <3>1, RulesKept, Zenon
  <2>11. ReadsOk'
    BY <1>2, <1>6, <2>2, <2>3, <2>5, <2>6, <2>7, Zenon DEF ReadsOk
  <2>12. Typed'
    BY <1>1, <1>2, <2>4 DEF Typed, Issued
  <2> QED
    BY <1>4, <2>8, <2>9, <2>10, <2>11, <2>12, Zenon DEF Inv
<1> QED
  BY <1>5, <1>6, Zenon DEF WorkEvent

LEMMA FetchStep ==
  ASSUME Inv, FetchDone
  PROVE  Inv'
<1> DEFINE f == Head(fetching)
           x == sq[f.sq].ring[f.slot]
<1>1. /\ UNCHANGED <<cmd, sq, cq, host, done, loop, executing, created, lCQFIFO, posting,
                     aggregationMap, status, panic>>
      /\ fetching # <<>> /\ fetching' = Tail(fetching) /\ lSQFIFO' = Append(lSQFIFO, x)
  BY Zenon DEF FetchDone, postVars
<1>2. /\ Typed /\ SqsOk /\ CqsOk /\ Stages /\ ReadsOk /\ CommandsOk /\ HostOk /\ AdminsOk
      /\ host \in Host /\ sq \in [SQ -> SubmissionQueue] /\ fetching \in Seq(Read)
      /\ lSQFIFO \in Seq(Issued) /\ NoDuplicates(lSQFIFO)
  BY Zenon DEF Inv, Typed, Stages
<1>3. CqsOk' /\ \A i : Posted(i)' <=> Posted(i)
  BY <1>1, <1>2, CompletionSideSame, Zenon
<1>4. /\ fetching' \in Seq(Read) /\ f \in Read /\ f.sq \in SQ
      /\ \A k \in DOMAIN fetching' : k + 1 \in DOMAIN fetching /\ fetching'[k] = fetching[k + 1]
  <2>1. /\ f \in Read /\ fetching' \in Seq(Read) /\ Len(fetching') = Len(fetching) - 1
        /\ Len(fetching) \in Nat
        /\ \A k \in 1 .. Len(fetching') : fetching'[k] = fetching[k + 1]
    BY <1>1, <1>2, HeadTailProperties, LenProperties
  <2>2. DOMAIN fetching' = 1 .. Len(fetching') /\ DOMAIN fetching = 1 .. Len(fetching)
    BY <1>2, <2>1, LenProperties
  <2>3. f.sq \in SQ
    BY <2>1 DEF Read
  <2> QED
    BY <2>1, <2>2, <2>3
<1> HIDE DEF f
<1>5. ASSUME NEW q \in SQ
      PROVE  /\ SqOk(q, sq[q], fetching', Outstanding(q))
             /\ f.sq # q => \A i : WaitsIn(q, sq[q], fetching', i) <=> WaitsIn(q, sq[q], fetching, i)
             /\ f.sq = q =>
                  /\ x \in Outstanding(q) /\ WaitsIn(q, sq[q], fetching, x)
                  /\ \A i : WaitsIn(q, sq[q], fetching', i)
                              <=> WaitsIn(q, sq[q], fetching, i) /\ i # x
  <2>1. SqOk(q, sq[q], fetching, Outstanding(q)) /\ sq[q] \in SubmissionQueue
    BY <1>2 DEF SqsOk
  <2>2. /\ SqOk(q, sq[q], Tail(fetching), Outstanding(q))
        /\ f.sq # q =>
             \A i : WaitsIn(q, sq[q], Tail(fetching), i) <=> WaitsIn(q, sq[q], fetching, i)
        /\ f.sq = q =>
             /\ sq[q].ring[f.slot] \in Outstanding(q)
             /\ WaitsIn(q, sq[q], fetching, sq[q].ring[f.slot])
             /\ \A i : WaitsIn(q, sq[q], Tail(fetching), i)
                         <=> WaitsIn(q, sq[q], fetching, i) /\ i # sq[q].ring[f.slot]
    BY <1>1, <1>2, <2>1, ReadEnds, Zenon DEF f
  <2> QED
    BY <1>1, <2>2, Zenon
<1> HIDE DEF x
<1>6. x \in Issued /\ x \in Live /\ Queued(x) /\ cmd[x].sq = f.sq
  <2>1. x \in Outstanding(f.sq) /\ WaitsIn(f.sq, sq[f.sq], fetching, x)
    BY <1>4, <1>5, Zenon
  <2>2. x \in Live /\ cmd[x].sq = f.sq
    BY <2>1 DEF Outstanding, Live
  <2> QED
    BY <1>4, <2>1, <2>2, Zenon DEF Queued, Live
<1>7. \A i : Queued(i)' <=> Queued(i) /\ i # x
  <2>1. ASSUME NEW q \in SQ, NEW i, WaitsIn(q, sq[q], fetching, i), q # f.sq PROVE i # x
    <3>1. i \in Outstanding(q)
      BY <1>2, <2>1, WaitsAmong, Zenon DEF SqsOk
    <3>2. cmd[i].sq = q
      BY <3>1 DEF Outstanding
    <3> QED
      BY <1>6, <2>1, <3>2
  <2>2. ASSUME NEW i PROVE Queued(i)' <=> \E q \in SQ : WaitsIn(q, sq[q], fetching', i)
    BY <1>1, Zenon DEF Queued
  <2> QED
    BY <1>4, <1>5, <2>1, <2>2, Zenon DEF Queued
<1>8. SqsOk'
  <2>1. \A q : Outstanding(q)' = Outstanding(q)
    BY <1>1, Zenon DEF Outstanding, Issued
  <2> QED
    BY <1>1, <1>5, <2>1, Zenon DEF SqsOk
<1>9. Stage(x)
  BY <1>2, <1>6, Zenon DEF Stages
<1>10. /\ lSQFIFO' \in Seq(Issued) /\ NoDuplicates(lSQFIFO')
       /\ \A i : Fifo(i)' <=> Fifo(i) \/ i = x
  <2>1. ~Occurs(x, lSQFIFO)
    BY <1>6, <1>9, Zenon DEF Stage, Fifo
  <2> QED
    BY <1>1, <1>2, <1>6, <2>1, AppendQueue, Zenon DEF Fifo
<1>11. /\ Live' = Live /\ Issued' = Issued
       /\ \A i : (Exec(i)' <=> Exec(i)) /\ (Finished(i)' <=> Finished(i))
       /\ \A i : (Late(i)' <=> Late(i)) /\ (Unread(i)' <=> Unread(i))
       /\ \A q : (Unfetched(q)' <=> Unfetched(q)) /\ (Drained(q)' <=> Drained(q))
  BY <1>1, <1>3, Zenon DEF Live, Issued, Exec, Finished, Late, Unread, Unfetched, Drained
<1>12. Stages'
  <2>1. ASSUME NEW i \in Issued PROVE Stage(i)'
    <3>1. Stage(i)
      BY <1>2, Zenon DEF Stages
    <3>2. CASE i = x
      BY <1>1, <1>3, <1>6, <1>7, <1>9, <1>10, <1>11, <3>2, Zenon DEF Stage
    <3>3. CASE i # x
      BY <1>1, <1>3, <1>7, <1>10, <1>11, <3>1, <3>3, Zenon DEF Stage
    <3> QED
      BY <3>2, <3>3
  <2> QED
    BY <1>1, <1>2, <1>10, <1>11, <2>1, Zenon DEF Stages
<1>13. \A q : Reading(q)' => Reading(q)
  BY <1>4, Zenon DEF Reading
<1>14. ReadsOk'
  BY <1>1, <1>2, <1>11, <1>13, Zenon DEF ReadsOk
<1>15. CommandsOk' /\ HostOk' /\ AdminsOk'
  BY <1>1, <1>2, <1>11, <1>13, RulesKept, Zenon DEF OkDeleteSQ
<1>16. Typed'
  BY <1>1, <1>2, <1>4, <1>10, <1>11 DEF Typed
<1> QED
  BY <1>3, <1>8, <1>12, <1>14, <1>15, <1>16, Zenon DEF Inv

LEMMA QueueFunctionStep ==
  ASSUME Inv, QueueFunction
  PROVE  Inv'
<1>1. /\ UNCHANGED <<cmd, sq, cq, host, done, fetching, executing, created, lCQFIFO, posting,
                     aggregationMap, panic>>
      /\ fetching = <<>> /\ loop' = "handle"
      /\ status' = IF status = "shutdown" THEN "complete" ELSE status
      /\ lSQFIFO' = IF status = "shutdown" THEN <<>> ELSE lSQFIFO
  BY Zenon DEF QueueFunction, postVars
<1>2. /\ Typed /\ SqsOk /\ CqsOk /\ Stages /\ ReadsOk /\ CommandsOk /\ HostOk /\ AdminsOk
      /\ host \in Host /\ lSQFIFO \in Seq(Issued) /\ NoDuplicates(lSQFIFO)
  BY Zenon DEF Inv, Typed, Stages
<1>3. CqsOk' /\ \A i : Posted(i)' <=> Posted(i)
  BY <1>1, <1>2, CompletionSideSame, Zenon
<1>4. /\ SqsOk' /\ \A i : (Queued(i)' <=> Queued(i)) /\ (Unread(i)' <=> Unread(i))
      /\ \A q : (Reading(q)' <=> Reading(q)) /\ (Drained(q)' <=> Drained(q))
  BY <1>1, <1>2, SubmissionSideSame, Zenon
<1>5. /\ Live' = Live /\ Issued' = Issued
      /\ \A i : (Exec(i)' <=> Exec(i)) /\ (Finished(i)' <=> Finished(i))
      /\ \A i : Late(i)' <=> Late(i)
      /\ \A q : Unfetched(q)' <=> Unfetched(q)
  BY <1>1, <1>3, Zenon DEF Live, Issued, Exec, Finished, Late, Unfetched
<1>6. /\ lSQFIFO' \in Seq(Issued) /\ NoDuplicates(lSQFIFO')
      /\ \A i : Fifo(i)' => Fifo(i)
      /\ status' = "complete" \/ (status' = status /\ \A i : Fifo(i) => Fifo(i)')
  <2>1. CASE status = "shutdown"
    <3>1. <<>> \in Seq(Issued) /\ NoDuplicates(<<>>) /\ \A i : ~Occurs(i, <<>>)
      BY EmptySeq DEF NoDuplicates, Occurs
    <3>2. lSQFIFO' = <<>> /\ status' = "complete"
      BY <1>1, <2>1
    <3> QED
      BY <3>1, <3>2, Zenon DEF Fifo
  <2>2. CASE status # "shutdown"
    <3>1. lSQFIFO' = lSQFIFO /\ status' = status
      BY <1>1, <2>2
    <3> QED
      BY <1>2, <3>1, Zenon DEF Fifo
  <2> QED
    BY <2>1, <2>2
<1>7. Stages'
  <2>1. ASSUME NEW i \in Issued PROVE Stage(i)'
    <3>1. Stage(i)
      BY <1>2, Zenon DEF Stages
    <3> QED
      BY <1>3, <1>4, <1>5, <1>6, <3>1, Zenon DEF Stage
  <2> QED
    BY <1>1, <1>2, <1>5, <1>6, <2>1, Zenon DEF Stages
<1>8. ReadsOk'
  BY <1>1, <1>2, <1>4, <1>5, Zenon DEF ReadsOk
<1>9. CommandsOk' /\ HostOk' /\ AdminsOk'
  BY <1>1, <1>2, <1>4, <1>5, RulesKept, Zenon DEF OkDeleteSQ
<1>10. Typed'
  BY <1>1, <1>2, <1>5, <1>6 DEF Typed
<1> QED
  BY <1>3, <1>4, <1>7, <1>8, <1>9, <1>10, Zenon DEF Inv

LEMMA HandleStep ==
  ASSUME Inv, HandleRequest
  PROVE  Inv'
<1> DEFINE x == Head(lSQFIFO)
<1>1. /\ UNCHANGED <<cmd, sq, cq, host, done, fetching, created, lCQFIFO, posting,
                     aggregationMap, status, panic>>
      /\ loop = "handle" /\ loop' \in {"handle", "work"}
  BY Zenon DEF HandleRequest, postVars
<1>2. /\ Typed /\ SqsOk /\ CqsOk /\ Stages /\ ReadsOk /\ CommandsOk /\ HostOk /\ AdminsOk
      /\ host \in Host /\ lSQFIFO \in Seq(Issued) /\ NoDuplicates(lSQFIFO)
  BY Zenon DEF Inv, Typed, Stages
<1>3. CqsOk' /\ \A i : Posted(i)' <=> Posted(i)
  BY <1>1, <1>2, CompletionSideSame, Zenon
<1>4. /\ SqsOk' /\ \A i : (Queued(i)' <=> Queued(i)) /\ (Unread(i)' <=> Unread(i))
      /\ \A q : (Reading(q)' <=> Reading(q)) /\ (Drained(q)' <=> Drained(q))
  BY <1>1, <1>2, SubmissionSideSame, Zenon
<1>5. /\ Live' = Live /\ Issued' = Issued
      /\ \A i : Finished(i)' <=> Finished(i)
      /\ \A i : Late(i)' <=> Late(i)
      /\ \A q : Unfetched(q)' <=> Unfetched(q)
  BY <1>1, <1>3, Zenon DEF Live, Issued, Finished, Late, Unfetched
<1>6. fetching = <<>> /\ \A q : ~Reading(q)
  <2>1. fetching = <<>>
    BY <1>1, <1>2 DEF ReadsOk
  <2> QED
    BY <2>1 DEF Reading
<1>7. /\ lSQFIFO' \in Seq(Issued) /\ NoDuplicates(lSQFIFO')
      /\ executing' \subseteq Issued /\ executing \subseteq executing'
      /\ Stages'
  <2>1. CASE lSQFIFO = <<>>
    <3>1. UNCHANGED <<lSQFIFO, executing>>
      BY <2>1, Zenon DEF HandleRequest
    <3>2. Stages'
      BY <1>1, <1>2, <1>3, <1>4, <3>1, SameStages, Zenon
    <3> QED
      BY <1>2, <3>1, <3>2 DEF Typed
  <2>2. CASE lSQFIFO # <<>>
    <3>1. executing' = executing \cup {x} /\ lSQFIFO' = Tail(lSQFIFO)
      BY <2>2, Zenon DEF HandleRequest
    <3>2. /\ lSQFIFO' \in Seq(Issued) /\ NoDuplicates(lSQFIFO') /\ x \in Issued
          /\ Fifo(x) /\ \A i : Fifo(i)' <=> Fifo(i) /\ i # x
      BY <1>2, <2>2, <3>1, TailQueue, Zenon DEF Fifo
    <3> HIDE DEF x
    <3>3. \A i : Exec(i)' <=> Exec(i) \/ i = x
      BY <3>1 DEF Exec
    <3>4. ASSUME NEW i \in Issued PROVE Stage(i)'
      <4>1. Stage(i)
        BY <1>2, Zenon DEF Stages
      <4>2. CASE i = x
        BY <1>1, <1>3, <1>4, <1>5, <3>2, <3>3, <4>1, <4>2, Zenon DEF Stage
      <4>3. CASE i # x
        BY <1>1, <1>3, <1>4, <1>5, <3>2, <3>3, <4>1, <4>3, Zenon DEF Stage
      <4> QED
        BY <4>2, <4>3
    <3>5. Stages'
      BY <1>1, <1>2, <1>5, <3>2, <3>4, Zenon DEF Stages
    <3>6. executing \subseteq Issued
      BY <1>2 DEF Typed
    <3> QED
      BY <3>1, <3>2, <3>5, <3>6
  <2> QED
    BY <2>1, <2>2
<1>8. ReadsOk'
  BY <1>1, <1>2, <1>4, <1>5, <1>6, Zenon DEF ReadsOk
<1>9. CommandsOk' /\ HostOk' /\ AdminsOk'
  BY <1>1, <1>2, <1>4, <1>5, <1>6, RulesKept, Zenon DEF OkDeleteSQ
<1>10. Typed'
  BY <1>1, <1>2, <1>5, <1>7 DEF Typed
<1> QED
  BY <1>3, <1>4, <1>7, <1>8, <1>9, <1>10, Zenon DEF Inv

-----------------------------------------------------------------------------
(* The subsystem: commands end, queues come and go. *)

\* Whoever is in flight has a completion queue.
LEMMA QueueToComplete ==
  ASSUME Inv, NEW i \in Live
  PROVE  CompletionQueueOf(i) \in host.cqs /\ cq[CompletionQueueOf(i)].exists
<1>1. CompletionQueueOf(i) \in host.cqs
  BY Zenon DEF Inv, CommandsOk, CompletionQueueOf
<1> QED
  BY <1>1, Zenon DEF Inv, CqsOk, CqOk

\* submit(): a command ends, with others that it aborts.
LEMMA Ends ==
  ASSUME Inv, NEW i \in executing, NEW es \in Seq(Issued), NoDuplicates(es),
         Occurs(i, es), \A j : Occurs(j, es) => j = i \/ Fifo(j),
         submit(es), executing' = executing \ {i},
         lSQFIFO' \in Seq(Issued), NoDuplicates(lSQFIFO'),
         \A j : Fifo(j)' <=> Fifo(j) /\ ~Occurs(j, es),
         UNCHANGED <<cmd, done, status>>,
         \A j : Queued(j)' <=> Queued(j), \A j : Posted(j)' <=> Posted(j)
  PROVE  /\ panic' = NoPanic /\ lCQFIFO' \in Seq(Issued)
         /\ Stages' /\ Live' = Live /\ Issued' = Issued
         /\ \A j : Finished(j)' <=> Finished(j) \/ Occurs(j, es)
         /\ \A j : Exec(j)' <=> Exec(j) /\ j # i
<1>1. /\ Typed /\ Stages /\ i \in Issued /\ lCQFIFO \in Seq(Issued)
      /\ NoDuplicates(lCQFIFO) /\ panic = NoPanic
  BY DEF Inv, Typed, Stages
<1>2. \A j \in Issued : Stage(j)
  BY <1>1, Zenon DEF Stages
<1>3. \A j : Occurs(j, es) => j \in Issued
  BY ElementOfSeq, LenProperties DEF Occurs
<1>4. \A j : Occurs(j, es) => j \in Live /\ ~Occurs(j, lCQFIFO)
  BY <1>2, <1>3, Zenon DEF Stage, Exec, Finished
<1>5. \A k \in DOMAIN es : cq[CompletionQueueOf(es[k])].exists
  <2> TAKE k \in DOMAIN es
  <2>1. es[k] \in Live
    BY <1>4, Zenon DEF Occurs
  <2> QED
    BY <2>1, QueueToComplete, Zenon
<1>6. lCQFIFO' = lCQFIFO \o es /\ panic' = NoPanic
  BY <1>1, <1>5, Zenon DEF submit
<1>7. /\ lCQFIFO' \in Seq(Issued) /\ NoDuplicates(lCQFIFO')
      /\ \A j : Finished(j)' <=> Finished(j) \/ Occurs(j, es)
  BY <1>1, <1>4, <1>6, ConcatQueue, Zenon DEF Finished
<1>8. \A j : Exec(j)' <=> Exec(j) /\ j # i
  BY DEF Exec
<1>9. Live' = Live /\ Issued' = Issued
  BY Zenon DEF Live, Issued
<1>10. ASSUME NEW j \in Issued PROVE Stage(j)'
  <2>1. Stage(j)
    BY <1>2
  <2>2. CASE j = i
    <3>1. Exec(j) /\ Occurs(j, es)
      BY <2>2, Zenon DEF Exec
    <3> QED
      BY <1>7, <1>8, <1>9, <2>1, <2>2, <3>1, Zenon DEF Stage
  <2>3. CASE j # i /\ Occurs(j, es)
    BY <1>7, <1>8, <1>9, <2>1, <2>3, Zenon DEF Stage
  <2>4. CASE j # i /\ ~Occurs(j, es)
    BY <1>7, <1>8, <1>9, <2>1, <2>4, Zenon DEF Stage
  <2> QED
    BY <2>2, <2>3, <2>4
<1>11. Stages'
  BY <1>7, <1>9, <1>10, Zenon DEF Stages
<1> QED
  BY <1>6, <1>7, <1>8, <1>9, <1>11

\* The end of one command alone.
LEMMA JustOne ==
  ASSUME NEW S, NEW i \in S
  PROVE  /\ <<i>> \in Seq(S) /\ NoDuplicates(<<i>>) /\ \A j : Occurs(j, <<i>>) <=> j = i
<1>1. <<>> \in Seq(S) /\ NoDuplicates(<<>>) /\ \A j : ~Occurs(j, <<>>)
  BY EmptySeq DEF NoDuplicates, Occurs
<1>2. Append(<<>>, i) = <<i>>
  OBVIOUS
<1>3. /\ Append(<<>>, i) \in Seq(S) /\ NoDuplicates(Append(<<>>, i))
      /\ \A j : Occurs(j, Append(<<>>, i)) <=> Occurs(j, <<>>) \/ j = i
  BY <1>1, AppendQueue, Zenon
<1> QED
  BY <1>1, <1>2, <1>3, Zenon

LEMMA JustTwo ==
  ASSUME NEW S, NEW i \in S, NEW k \in S, i # k
  PROVE  /\ <<i, k>> \in Seq(S) /\ NoDuplicates(<<i, k>>)
         /\ \A j : Occurs(j, <<i, k>>) <=> j = i \/ j = k
<1> DEFINE both == <<i, k>>
<1>1. DOMAIN both = {1, 2} /\ both[1] = i /\ both[2] = k
  OBVIOUS
<1>2. both \in Seq(S)
  OBVIOUS
<1> HIDE DEF both
<1>3. NoDuplicates(both) /\ \A j : Occurs(j, both) <=> j = i \/ j = k
  BY <1>1 DEF NoDuplicates, Occurs
<1> QED
  BY <1>2, <1>3 DEF both

LEMMA EndsAlone ==
  ASSUME Inv, NEW i \in executing, submit(<<i>>), executing' = executing \ {i},
         UNCHANGED <<cmd, done, status, lSQFIFO>>,
         \A j : Queued(j)' <=> Queued(j), \A j : Posted(j)' <=> Posted(j)
  PROVE  /\ panic' = NoPanic /\ lCQFIFO' \in Seq(Issued)
         /\ Stages' /\ Live' = Live /\ Issued' = Issued
         /\ \A j : Finished(j)' <=> Finished(j) \/ j = i
         /\ \A j : Exec(j)' <=> Exec(j) /\ j # i
<1>1. /\ Typed /\ Stages /\ i \in Issued /\ lSQFIFO \in Seq(Issued) /\ NoDuplicates(lSQFIFO)
  BY DEF Inv, Typed, Stages
<1>2. <<i>> \in Seq(Issued) /\ NoDuplicates(<<i>>) /\ \A j : Occurs(j, <<i>>) <=> j = i
  BY <1>1, JustOne
<1>3. ~Fifo(i)
  BY <1>1, Zenon DEF Stages, Stage, Exec
<1>4. \A j : Fifo(j)' <=> Fifo(j) /\ ~Occurs(j, <<i>>)
  BY <1>2, <1>3, Zenon DEF Fifo
<1>5. Issued' = Issued
  BY Zenon DEF Issued
<1> QED
  BY <1>1, <1>2, <1>4, <1>5, Ends, Zenon

LEMMA IoStep ==
  ASSUME Inv, NEW i, CompleteIO(i)
  PROVE  Inv'
<1>1. /\ UNCHANGED <<cmd, sq, cq, host, done, loop, fetching, lSQFIFO, posting,
                     aggregationMap, status>>
      /\ i \in executing /\ (cmd[i].op = "io" \/ i \in created)
      /\ executing' = executing \ {i} /\ created' = created \ {i} /\ submit(<<i>>)
  BY Zenon DEF CompleteIO, postVars, loopVars, Finish
<1>2. /\ Typed /\ SqsOk /\ CqsOk /\ Stages /\ ReadsOk /\ CommandsOk /\ HostOk /\ AdminsOk
      /\ host \in Host
  BY Zenon DEF Inv, Typed
<1>3. CqsOk' /\ \A j : Posted(j)' <=> Posted(j)
  BY <1>1, <1>2, CompletionSideSame, Zenon
<1>4. /\ SqsOk' /\ \A j : (Queued(j)' <=> Queued(j)) /\ (Unread(j)' <=> Unread(j))
      /\ \A q : (Reading(q)' <=> Reading(q)) /\ (Drained(q)' <=> Drained(q))
  BY <1>1, <1>2, SubmissionSideSame, Zenon
<1>5. /\ panic' = NoPanic /\ lCQFIFO' \in Seq(Issued)
      /\ Stages' /\ Live' = Live /\ Issued' = Issued
      /\ \A j : Finished(j)' <=> Finished(j) \/ j = i
      /\ \A j : Exec(j)' <=> Exec(j) /\ j # i
  BY <1>1, <1>3, <1>4, EndsAlone, Zenon
<1>6. \A j : j \in created' <=> j \in created /\ j # i
  BY <1>1
<1>7. ASSUME NEW j, cmd[j].op # "io" PROVE Late(j)' <=> Late(j)
  BY <1>1, <1>3, <1>5, <1>6, <1>7, Zenon DEF Late
<1>8. ReadsOk'
  BY <1>1, <1>2, <1>4, Zenon DEF ReadsOk, Unfetched
<1>9. CommandsOk' /\ HostOk' /\ AdminsOk'
  <2>1. \A j \in Live : cmd[j].op \in {"delete SQ", "create SQ", "delete CQ", "create CQ"} =>
          (Late(j)' <=> Late(j))
    <3> SUFFICES ASSUME NEW j \in Live,
                        cmd[j].op \in {"delete SQ", "create SQ", "delete CQ", "create CQ"}
                 PROVE  Late(j)' <=> Late(j)
      OBVIOUS
    <3>1. cmd[j].op # "io"
      OBVIOUS
    <3> QED
      BY <1>7, <3>1
  <2>2. created' \subseteq created
    BY <1>1
  <2> QED
    BY <1>1, <1>2, <1>4, <1>5, <2>1, <2>2, RulesKept, Zenon DEF OkDeleteSQ
<1>10. Typed'
  <2>1. executing' \subseteq Issued /\ created' \subseteq executing'
    BY <1>1, <1>2 DEF Typed
  <2> QED
    BY <1>1, <1>2, <1>5, <2>1 DEF Typed
<1> QED
  BY <1>3, <1>4, <1>5, <1>8, <1>9, <1>10, Zenon DEF Inv

LEMMA CoalesceStep ==
  ASSUME Inv, NEW i, SetCoalescing(i)
  PROVE  Inv'
<1>1. /\ UNCHANGED <<cmd, sq, cq, host, done, loop, fetching, lSQFIFO, posting, created,
                     status>>
      /\ i \in executing /\ cmd[i].op = "coalesce"
      /\ executing' = executing \ {i} /\ submit(<<i>>)
  BY Zenon DEF SetCoalescing, postVars, loopVars, Finish, Executes
<1>2. /\ Typed /\ SqsOk /\ CqsOk /\ Stages /\ ReadsOk /\ CommandsOk /\ HostOk /\ AdminsOk
      /\ host \in Host
  BY Zenon DEF Inv, Typed
<1>3. CqsOk' /\ \A j : Posted(j)' <=> Posted(j)
  BY <1>1, <1>2, CompletionSideSame, Zenon
<1>4. /\ SqsOk' /\ \A j : (Queued(j)' <=> Queued(j)) /\ (Unread(j)' <=> Unread(j))
      /\ \A q : (Reading(q)' <=> Reading(q)) /\ (Drained(q)' <=> Drained(q))
  BY <1>1, <1>2, SubmissionSideSame, Zenon
<1>5. /\ panic' = NoPanic /\ lCQFIFO' \in Seq(Issued)
      /\ Stages' /\ Live' = Live /\ Issued' = Issued
      /\ \A j : Finished(j)' <=> Finished(j) \/ j = i
      /\ \A j : Exec(j)' <=> Exec(j) /\ j # i
  BY <1>1, <1>3, <1>4, EndsAlone, Zenon
<1>6. ASSUME NEW j, j # i PROVE Late(j)' <=> Late(j)
  BY <1>1, <1>3, <1>5, <1>6, Zenon DEF Late
<1>7. ReadsOk'
  BY <1>1, <1>2, <1>4, Zenon DEF ReadsOk, Unfetched
<1>8. CommandsOk' /\ HostOk' /\ AdminsOk'
  <2>1. \A j \in Live : cmd[j].op \in {"delete SQ", "create SQ", "delete CQ", "create CQ"} =>
          (Late(j)' <=> Late(j))
    <3> SUFFICES ASSUME NEW j \in Live,
                        cmd[j].op \in {"delete SQ", "create SQ", "delete CQ", "create CQ"}
                 PROVE  Late(j)' <=> Late(j)
      OBVIOUS
    <3>1. j # i
      BY <1>1
    <3> QED
      BY <1>6, <3>1
  <2> QED
    BY <1>1, <1>2, <1>4, <1>5, <2>1, RulesKept, Zenon DEF OkDeleteSQ
<1>9. aggregationMap' \in [Vectors -> Aggregation]
  <2> DEFINE v == cmd[i].arg
             a == [NoAggregation EXCEPT !.valid = ~aggregationMap[v].valid]
  <2>1. CASE aggregationMap' = aggregationMap
    BY <1>2, <2>1 DEF Typed
  <2>2. CASE aggregationMap' = [aggregationMap EXCEPT ![v] = a]
    <3>1. a \in Aggregation
      BY DEF NoAggregation, Aggregation
    <3> HIDE DEF a
    <3> QED
      BY <1>2, <2>2, <3>1 DEF Typed
  <2> QED
    BY <2>1, <2>2, Zenon DEF SetCoalescing
<1>10. Typed'
  <2>1. i \notin created
    <3>1. i \in created => cmd[i].op \in {"create SQ", "create CQ"}
      BY <1>2, Zenon DEF CommandsOk
    <3> QED
      BY <1>1, <3>1
  <2>2. executing' \subseteq Issued /\ created' \subseteq executing'
    BY <1>1, <1>2, <2>1 DEF Typed
  <2> QED
    BY <1>1, <1>2, <1>5, <1>9, <2>2 DEF Typed
<1> QED
  BY <1>3, <1>4, <1>5, <1>7, <1>8, <1>10, Zenon DEF Inv

LEMMA AbortStepKeeps ==
  ASSUME Inv, NEW i, Abort(i)
  PROVE  Inv'
<1> DEFINE a == cmd[i].arg
<1>1. /\ UNCHANGED <<cmd, sq, cq, host, done, loop, fetching, posting, created,
                     aggregationMap, status>>
      /\ i \in executing /\ cmd[i].op = "abort" /\ executing' = executing \ {i}
  BY Zenon DEF Abort, postVars, Finish, Executes
<1>2. /\ Typed /\ SqsOk /\ CqsOk /\ Stages /\ ReadsOk /\ CommandsOk /\ HostOk /\ AdminsOk
      /\ host \in Host /\ lSQFIFO \in Seq(Issued) /\ NoDuplicates(lSQFIFO)
      /\ executing \subseteq Issued
  BY Zenon DEF Inv, Typed, Stages
<1>3. CqsOk' /\ \A j : Posted(j)' <=> Posted(j)
  BY <1>1, <1>2, CompletionSideSame, Zenon
<1>4. /\ SqsOk' /\ \A j : (Queued(j)' <=> Queued(j)) /\ (Unread(j)' <=> Unread(j))
      /\ \A q : (Reading(q)' <=> Reading(q)) /\ (Drained(q)' <=> Drained(q))
  BY <1>1, <1>2, SubmissionSideSame, Zenon
<1>5. /\ i \in Issued /\ i \in Live /\ ~Fifo(i) /\ cmd[i].sq = 0
  <2>1. i \in Issued
    BY <1>1, <1>2
  <2>2. Stage(i) /\ Exec(i)
    BY <1>1, <1>2, <2>1, Zenon DEF Stages, Exec
  <2>3. cmd[i].op # "io"
    BY <1>1
  <2> QED
    BY <1>2, <2>1, <2>2, <2>3, Zenon DEF Stage, CommandsOk
<1>6. a \in Issued /\ cmd[a].sq \in host.sqs /\ cmd[a].sq # 0 /\ sq[cmd[a].sq].exists
  <2>1. OkAdmin(i)
    BY <1>2, <1>5, Zenon DEF AdminsOk
  <2> QED
    BY <1>1, <1>2, <2>1, Zenon DEF OkAdmin, HostOk
<1>7. cmd[a].op = "io" /\ a # i
  BY <1>2, <1>5, <1>6, Zenon DEF CommandsOk
<1>8. /\ panic' = NoPanic /\ lCQFIFO' \in Seq(Issued) /\ lSQFIFO' \in Seq(Issued)
      /\ Stages' /\ Live' = Live /\ Issued' = Issued
      /\ \A j : j # i /\ j # a => (Finished(j)' <=> Finished(j))
      /\ \A j : Exec(j)' <=> Exec(j) /\ j # i
  <2>1. CASE ~Contains(lSQFIFO, a)
    <3>1. submit(<<i>>) /\ UNCHANGED lSQFIFO
      BY <2>1, Zenon DEF Abort
    <3> QED
      BY <1>1, <1>2, <1>3, <1>4, <3>1, EndsAlone, Zenon
  <2>2. CASE Contains(lSQFIFO, a)
    <3> DEFINE es == <<a, i>>
    <3>1. Fifo(a)
      BY <1>2, <2>2, LenProperties DEF Contains, Fifo, Occurs
    <3>2. lSQFIFO' = RemoveFirst(lSQFIFO, a) /\ submit(es)
      BY <1>6, <2>2, Zenon DEF Abort
    <3>3. /\ lSQFIFO' \in Seq(Issued) /\ NoDuplicates(lSQFIFO')
          /\ \A j : Fifo(j)' <=> Fifo(j) /\ j # a
      BY <1>2, <3>1, <3>2, RemoveFirstQueue, Zenon DEF Fifo
    <3>4. es \in Seq(Issued) /\ NoDuplicates(es) /\ \A j : Occurs(j, es) <=> j = a \/ j = i
      BY <1>5, <1>6, <1>7, JustTwo
    <3> HIDE DEF es
    <3>5. \A j : Fifo(j)' <=> Fifo(j) /\ ~Occurs(j, es)
      BY <1>5, <3>3, <3>4, Zenon
    <3>6. Issued' = Issued
      BY <1>1, Zenon DEF Issued
    <3>7. /\ panic' = NoPanic /\ lCQFIFO' \in Seq(Issued)
          /\ Stages' /\ Live' = Live /\ Issued' = Issued
          /\ \A j : Finished(j)' <=> Finished(j) \/ Occurs(j, es)
          /\ \A j : Exec(j)' <=> Exec(j) /\ j # i
      BY <1>1, <1>3, <1>4, <3>1, <3>2, <3>3, <3>4, <3>5, <3>6, Ends, Zenon
    <3> QED
      BY <3>3, <3>4, <3>7, Zenon
  <2> QED
    BY <2>1, <2>2
<1>9. ASSUME NEW j, j # i, j # a PROVE Late(j)' <=> Late(j)
  BY <1>1, <1>3, <1>8, <1>9, Zenon DEF Late
<1>10. ReadsOk'
  BY <1>1, <1>2, <1>4, Zenon DEF ReadsOk, Unfetched
<1> HIDE DEF a
<1>11. CommandsOk' /\ HostOk' /\ AdminsOk'
  <2>1. \A j \in Live : cmd[j].op \in {"delete SQ", "create SQ", "delete CQ", "create CQ"} =>
          (Late(j)' <=> Late(j))
    <3> SUFFICES ASSUME NEW j \in Live,
                        cmd[j].op \in {"delete SQ", "create SQ", "delete CQ", "create CQ"}
                 PROVE  Late(j)' <=> Late(j)
      OBVIOUS
    <3>1. j # i /\ j # a
      BY <1>1, <1>7
    <3> QED
      BY <1>9, <3>1
  <2> QED
    BY <1>1, <1>2, <1>4, <1>8, <2>1, RulesKept, Zenon DEF OkDeleteSQ
<1>12. Typed'
  <2>1. i \notin created
    <3>1. i \in created => cmd[i].op \in {"create SQ", "create CQ"}
      BY <1>2, Zenon DEF CommandsOk
    <3> QED
      BY <1>1, <3>1
  <2>2. executing' \subseteq Issued /\ created' \subseteq executing'
    BY <1>1, <1>2, <2>1 DEF Typed
  <2> QED
    BY <1>1, <1>2, <1>8, <2>2 DEF Typed
<1> QED
  BY <1>3, <1>4, <1>8, <1>10, <1>11, <1>12, Zenon DEF Inv

\* What is known of an admin command in the subsystem.
LEMMA Executing ==
  ASSUME Inv, NEW i \in executing
  PROVE  /\ i \in Issued /\ i \in Live /\ Exec(i) /\ cmd[i] \in Command
         /\ ~Queued(i) /\ ~Unread(i) /\ ~Fifo(i) /\ ~Finished(i) /\ ~Posted(i)
         /\ Late(i) <=> i \in created
         /\ cmd[i].op # "io" => cmd[i].sq = 0 /\ OkAdmin(i)
         /\ i \in created => cmd[i].op \in {"create SQ", "create CQ"}
<1>1. Typed /\ i \in Issued /\ Exec(i)
  BY DEF Inv, Typed, Exec
<1>2. Stage(i) /\ cmd[i] \in Command
  BY <1>1, CommandsTyped, Zenon DEF Inv, Stages
<1>3. i \in Live /\ ~Queued(i) /\ ~Fifo(i) /\ ~Finished(i) /\ ~Posted(i)
  BY <1>1, <1>2, Zenon DEF Stage
<1>4. ~Unread(i)
  BY <1>1, <1>3, UnreadQueued, Zenon
<1>5. cmd[i].op # "io" => cmd[i].sq = 0 /\ OkAdmin(i)
  BY <1>1, <1>3, Zenon DEF Inv, CommandsOk, AdminsOk
<1>6. i \in created => cmd[i].op \in {"create SQ", "create CQ"}
  BY Zenon DEF Inv, CommandsOk
<1> QED
  BY <1>1, <1>2, <1>3, <1>4, <1>5, <1>6, Zenon DEF Late

\* The rules stay when a queue command has its effect on the queue it names.
LEMMA RulesOfOne ==
  ASSUME host \in Host, CommandsOk, HostOk, UNCHANGED <<cmd, done, host>>,
         NEW i \in Live, cmd[i].sq = 0, OkAdmin(i)',
         \A j \in created' : j \in created \/ cmd[j].op \in {"create SQ", "create CQ"},
         \A q \in SQ : \/ sq'[q].exists = sq[q].exists
                       \/ /\ q \notin host.sqs
                          /\ cmd[i].op \in {"delete SQ", "create SQ"} /\ cmd[i].arg = q,
         \A c \in CQ : \/ cq'[c].exists = cq[c].exists
                       \/ /\ cmd[i].op \in {"delete CQ", "create CQ"} /\ cmd[i].arg = c
  PROVE  CommandsOk' /\ HostOk' /\ AdminsOk'
<1>1. Live' = Live /\ Issued' = Issued
  BY Zenon DEF Live, Issued
<1>2. CommandsOk'
  BY <1>1, Zenon DEF CommandsOk
<1>3. HostOk'
  <2>1. \A q \in host.sqs : q \in SQ
    BY DEF Host
  <2>2. 0 \in host'.sqs /\ \A q \in host'.sqs : sq'[q].exists /\ CqOf[q] \in host'.cqs
    BY <2>1, Zenon DEF HostOk
  <2>3. ASSUME NEW q \in SQ \ host'.sqs, sq'[q].exists
        PROVE  \E j \in Live' : cmd'[j].op \in {"delete SQ", "create SQ"} /\ cmd'[j].arg = q
    BY <1>1, <2>3, ZenonT(40) DEF HostOk
  <2>4. ASSUME NEW c \in CQ \ host'.cqs, cq'[c].exists
        PROVE  \E j \in Live' : cmd'[j].op \in {"delete CQ", "create CQ"} /\ cmd'[j].arg = c
    BY <1>1, <2>4, Zenon DEF HostOk
  <2> QED
    BY <2>2, <2>3, <2>4, Zenon DEF HostOk
<1>4. \A j \in Live : cmd[j].sq = 0 => j = i
  BY Zenon DEF CommandsOk
<1> QED
  BY <1>1, <1>2, <1>3, <1>4, Zenon DEF AdminsOk

LEMMA DeleteSqStep ==
  ASSUME Inv, NEW i, DeleteSQ(i)
  PROVE  Inv'
<1> DEFINE a == cmd[i].arg
           out == AbortAll(a)
           es == Append(out.aborted, i)
<1>1. /\ UNCHANGED <<cmd, created, cq, host, done, loop, fetching, posting, aggregationMap,
                     status>>
      /\ i \in executing /\ cmd[i].op = "delete SQ" /\ executing' = executing \ {i}
  BY Zenon DEF DeleteSQ, postVars, Finish, Executes
<1>2. /\ Typed /\ SqsOk /\ CqsOk /\ Stages /\ ReadsOk /\ CommandsOk /\ HostOk /\ AdminsOk
      /\ host \in Host /\ lSQFIFO \in Seq(Issued) /\ NoDuplicates(lSQFIFO)
      /\ sq \in [SQ -> SubmissionQueue]
  BY Zenon DEF Inv, Typed, Stages
<1>3. /\ i \in Issued /\ i \in Live /\ Exec(i) /\ ~Unread(i) /\ ~Fifo(i)
      /\ ~Late(i) /\ cmd[i].sq = 0 /\ i \notin created /\ OkDeleteSQ(i, a)
  <2>1. cmd[i].op # "io" /\ cmd[i].op \notin {"create SQ", "create CQ"}
    BY <1>1
  <2>2. /\ i \in Issued /\ i \in Live /\ Exec(i) /\ ~Unread(i) /\ ~Fifo(i)
        /\ Late(i) <=> i \in created
        /\ cmd[i].op # "io" => cmd[i].sq = 0 /\ OkAdmin(i)
        /\ i \in created => cmd[i].op \in {"create SQ", "create CQ"}
    BY <1>1, Executing, Zenon
  <2> QED
    BY <1>1, <2>1, <2>2, Zenon DEF OkAdmin
<1>4. a \in SQ /\ a \notin host.sqs /\ a # 0 /\ sq[a].exists /\ Drained(a) /\ ~Reading(a)
  BY <1>3, Zenon DEF OkDeleteSQ
<1>5. /\ lSQFIFO' = out.fifo /\ submit(es) /\ sq' = [sq EXCEPT ![a].exists = FALSE]
  <2>1. \A n \in SQ : n # 0 => n > 0
    BY Constants DEF SQ
  <2>2. a > 0
    BY <1>4, <2>1, Zenon
  <2> QED
    BY <1>4, <2>2, Zenon DEF DeleteSQ
<1>6. /\ out.fifo \in Seq(Issued) /\ out.aborted \in Seq(Issued)
      /\ NoDuplicates(out.fifo) /\ NoDuplicates(out.aborted)
      /\ \A x : Occurs(x, lSQFIFO) <=> Occurs(x, out.fifo) \/ Occurs(x, out.aborted)
      /\ \A x : ~(Occurs(x, out.fifo) /\ Occurs(x, out.aborted))
  <2>1. Parted(out)
    BY <1>2, Aborts
  <2> HIDE DEF out
  <2> QED
    BY <2>1 DEF Parted, Walking
<1> HIDE DEF out, a
<1>7. /\ es \in Seq(Issued) /\ NoDuplicates(es)
      /\ \A x : Occurs(x, es) <=> Occurs(x, out.aborted) \/ x = i
  <2>1. ~Occurs(i, out.aborted)
    BY <1>3, <1>6, Zenon DEF Fifo
  <2> QED
    BY <1>3, <1>6, <2>1, AppendQueue, Zenon
<1> HIDE DEF es
<1>8. \A j : Fifo(j)' <=> Fifo(j) /\ ~Occurs(j, es)
  BY <1>3, <1>5, <1>6, <1>7, Zenon DEF Fifo
<1>9. CqsOk' /\ \A j : Posted(j)' <=> Posted(j)
  BY <1>1, <1>2, CompletionSideSame, Zenon
<1>10. /\ sq' \in [SQ -> SubmissionQueue] /\ ~sq'[a].exists
       /\ \A q \in SQ : q # a => sq'[q] = sq[q]
       /\ \A q \in SQ : sq'[q].head = sq[q].head /\ sq'[q].tail = sq[q].tail
                      /\ sq'[q].ring = sq[q].ring
  <2> DEFINE b == [sq[a] EXCEPT !.exists = FALSE]
  <2>1. sq[a] \in SubmissionQueue
    BY <1>2, <1>4
  <2>2. /\ b \in SubmissionQueue /\ ~b.exists
        /\ b.head = sq[a].head /\ b.tail = sq[a].tail /\ b.ring = sq[a].ring
    BY <2>1 DEF SubmissionQueue
  <2>3. sq' = [sq EXCEPT ![a] = b]
    BY <1>5
  <2> HIDE DEF b
  <2> QED
    BY <1>2, <1>4, <2>2, <2>3
<1>11. /\ SqsOk' /\ \A j : (Queued(j)' <=> Queued(j)) /\ (Unread(j)' <=> Unread(j))
       /\ \A q \in SQ : (Reading(q)' <=> Reading(q)) /\ (Drained(q)' <=> Drained(q))
  BY <1>1, <1>2, <1>10, SubmissionSideStays, Zenon
<1>12. /\ panic' = NoPanic /\ lCQFIFO' \in Seq(Issued)
       /\ Stages' /\ Live' = Live /\ Issued' = Issued
       /\ \A j : Finished(j)' <=> Finished(j) \/ Occurs(j, es)
       /\ \A j : Exec(j)' <=> Exec(j) /\ j # i
  <2>1. Issued' = Issued
    BY <1>1, Zenon DEF Issued
  <2>2. Occurs(i, es) /\ \A j : Occurs(j, es) => j = i \/ Fifo(j)
    BY <1>6, <1>7, Zenon DEF Fifo
  <2>3. lSQFIFO' \in Seq(Issued) /\ NoDuplicates(lSQFIFO')
    BY <1>5, <1>6
  <2> QED
    BY <1>1, <1>5, <1>7, <1>8, <1>9, <1>11, <2>1, <2>2, <2>3, Ends, Zenon
<1>13. Late(i)' /\ ~Exec(i)'
  BY <1>7, <1>12, Zenon DEF Late
<1>14. ReadsOk'
  <2>1. \A q : Unfetched(q)' <=> Unfetched(q)
    BY <1>1, Zenon DEF Unfetched
  <2>2. ASSUME NEW q \in SQ
        PROVE  /\ Reading(q)' => sq'[q].exists /\ ~Unfetched(q)'
               /\ ~sq'[q].exists => Drained(q)'
    BY <1>2, <1>4, <1>10, <1>11, <2>1, Zenon DEF ReadsOk
  <2> QED
    BY <1>1, <1>2, <2>2, Zenon DEF ReadsOk
<1>15. OkAdmin(i)'
  <2>1. OkDeleteSQ(i, a)'
    BY <1>1, <1>3, <1>4, <1>10, <1>11, <1>13, Zenon DEF OkDeleteSQ, a
  <2> QED
    BY <1>1, <2>1, Zenon DEF OkAdmin, a
<1>16. CommandsOk' /\ HostOk' /\ AdminsOk'
  BY <1>1, <1>2, <1>3, <1>4, <1>10, <1>15, RulesOfOne, Zenon DEF a
<1>17. Typed'
  <2>1. executing' \subseteq Issued /\ created' \subseteq executing'
    BY <1>1, <1>2, <1>3 DEF Typed
  <2> QED
    BY <1>1, <1>2, <1>5, <1>6, <1>10, <1>12, <2>1 DEF Typed
<1> QED
  BY <1>9, <1>11, <1>12, <1>14, <1>16, <1>17, Zenon DEF Inv

LEMMA CreateSqStep ==
  ASSUME Inv, NEW i, CreateSQ(i)
  PROVE  Inv'
<1> DEFINE a == cmd[i].arg
<1>1. /\ UNCHANGED <<cmd, cq, host, done, loop, fetching, lSQFIFO, posting, lCQFIFO,
                     aggregationMap, status, panic>>
      /\ i \in executing /\ cmd[i].op = "create SQ" /\ i \notin created
  BY Zenon DEF CreateSQ, loopVars, postVars, Executes
<1>2. /\ Typed /\ SqsOk /\ CqsOk /\ Stages /\ ReadsOk /\ CommandsOk /\ HostOk /\ AdminsOk
      /\ host \in Host /\ sq \in [SQ -> SubmissionQueue] /\ fetching \in Seq(Read)
  BY Zenon DEF Inv, Typed, Stages
<1>3. /\ i \in Issued /\ i \in Live /\ ~Late(i) /\ cmd[i].sq = 0 /\ OkCreateSQ(i, a)
  <2>1. cmd[i].op # "io"
    BY <1>1
  <2> QED
    BY <1>1, <2>1, Executing, Zenon DEF OkAdmin
<1>4. /\ a \in SQ /\ a \notin host.sqs /\ a # 0 /\ Outstanding(a) = {} /\ ~sq[a].exists
      /\ cq[CqOf[a]].exists /\ ~Reading(a)
  <2>1. a \in SQ /\ a \notin host.sqs /\ Outstanding(a) = {} /\ ~sq[a].exists /\ CqOf[a] \in host.cqs
    BY <1>3, Zenon DEF OkCreateSQ
  <2>2. cq[CqOf[a]].exists
    BY <1>2, <2>1, Zenon DEF CqsOk, CqOk
  <2> QED
    BY <1>2, <2>1, <2>2, Zenon DEF HostOk, ReadsOk
<1>5. /\ sq' = [sq EXCEPT ![a] = NewSQ] /\ created' = created \cup {i}
      /\ executing' = executing
  BY <1>4, Zenon DEF CreateSQ
<1> HIDE DEF a
<1>6. NewSQ \in SubmissionQueue /\ NewSQ.exists /\ Items(NewSQ) = 0
  <2>1. 0 \in Slot(SqSize) /\ 0 \in Tag
    <3>1. MaxCommands \in Nat
      BY ControllerAssumption, Zenon DEF ControllerAssumption
    <3> QED
      BY <3>1, Constants DEF Slot, Tag
  <2> QED
    BY <2>1 DEF NewSQ, SubmissionQueue, Items, ItemCount
<1>7. /\ sq' \in [SQ -> SubmissionQueue] /\ sq'[a] = NewSQ
      /\ \A q \in SQ : q # a => sq'[q] = sq[q]
  BY <1>2, <1>4, <1>5, <1>6
<1>8. CqsOk' /\ \A j : Posted(j)' <=> Posted(j)
  BY <1>1, <1>2, CompletionSideSame, Zenon
<1>9. ASSUME NEW q \in SQ
      PROVE  /\ SqOk(q, sq'[q], fetching, Outstanding(q))
             /\ \A j : WaitsIn(q, sq'[q], fetching, j) <=> WaitsIn(q, sq[q], fetching, j)
  <2>1. SqOk(q, sq[q], fetching, Outstanding(q))
    BY <1>2, Zenon DEF SqsOk
  <2>2. CASE q = a
    <3>1. \A k \in DOMAIN fetching : fetching[k].sq # a
      BY <1>4, Zenon DEF Reading
    <3>2. /\ SqOk(a, NewSQ, fetching, Outstanding(a))
          /\ \A j : ~WaitsIn(a, NewSQ, fetching, j)
      BY <1>2, <1>6, <3>1, SqEmpty, Zenon
    <3>3. \A j : WaitsIn(q, sq[q], fetching, j) => j \in Outstanding(q)
      BY <2>1, WaitsAmong, Zenon
    <3>4. \A j : ~(j \in Outstanding(a))
      BY <1>4
    <3> QED
      BY <1>7, <2>2, <3>2, <3>3, <3>4, Zenon
  <2>3. CASE q # a
    BY <1>7, <2>1, <2>3, Zenon
  <2> QED
    BY <2>2, <2>3
<1>10. /\ SqsOk' /\ \A j : (Queued(j)' <=> Queued(j)) /\ (Unread(j)' <=> Unread(j))
       /\ \A q \in SQ : (Reading(q)' <=> Reading(q)) /\ (q # a => (Drained(q)' <=> Drained(q)))
       /\ \A q : Unfetched(q)' <=> Unfetched(q)
  <2>1. \A q : Outstanding(q)' = Outstanding(q)
    BY <1>1, Zenon DEF Outstanding, Issued
  <2>2. sq'[0] = sq[0]
    BY <1>4, <1>7, Constants, Zenon
  <2> QED
    BY <1>1, <1>7, <1>9, <2>1, <2>2, Zenon DEF SqsOk, Queued, Unread, Reading, Drained, Unfetched
<1>11. /\ Stages' /\ Live' = Live /\ \A j : Exec(j)' <=> Exec(j)
  BY <1>1, <1>2, <1>5, <1>8, <1>10, SameStages, Zenon
<1>12. ReadsOk'
  BY <1>1, <1>2, <1>4, <1>6, <1>7, <1>10, Zenon DEF ReadsOk
<1>13. OkAdmin(i)'
  <2>1. Late(i)'
    BY <1>5 DEF Late
  <2>2. \A q : Outstanding(q)' = Outstanding(q)
    BY <1>1, Zenon DEF Outstanding, Issued
  <2>3. OkCreateSQ(i, a)'
    BY <1>1, <1>3, <1>6, <1>7, <2>1, <2>2, Zenon DEF OkCreateSQ, a
  <2> QED
    BY <1>1, <2>3, Zenon DEF OkAdmin, a
<1>14. CommandsOk' /\ HostOk' /\ AdminsOk'
  <2>1. \A j \in created' : j \in created \/ cmd[j].op \in {"create SQ", "create CQ"}
    BY <1>1, <1>5
  <2> QED
    BY <1>1, <1>2, <1>3, <1>4, <1>7, <1>13, <2>1, RulesOfOne, Zenon DEF a
<1>15. Typed'
  <2>1. executing' \subseteq Issued /\ created' \subseteq executing'
    BY <1>1, <1>2, <1>5 DEF Typed
  <2> QED
    BY <1>1, <1>2, <1>5, <1>7, <2>1 DEF Typed, Issued
<1> QED
  BY <1>8, <1>10, <1>11, <1>12, <1>14, <1>15, Zenon DEF Inv

LEMMA CreateCqStep ==
  ASSUME Inv, NEW i, CreateCQ(i)
  PROVE  Inv'
<1> DEFINE a == cmd[i].arg
<1>1. /\ UNCHANGED <<cmd, sq, host, done, loop, fetching, lSQFIFO, posting, lCQFIFO,
                     status, panic>>
      /\ i \in executing /\ cmd[i].op = "create CQ" /\ i \notin created
  BY Zenon DEF CreateCQ, loopVars, postVars, Executes
<1>2. /\ Typed /\ SqsOk /\ CqsOk /\ Stages /\ ReadsOk /\ CommandsOk /\ HostOk /\ AdminsOk
      /\ host \in Host /\ cq \in [CQ -> CompletionQueue]
      /\ aggregationMap \in [Vectors -> Aggregation]
  BY Zenon DEF Inv, Typed, Stages
<1>3. /\ i \in Issued /\ i \in Live /\ ~Late(i) /\ cmd[i].sq = 0 /\ OkCreateCQ(i, a)
  <2>1. cmd[i].op # "io"
    BY <1>1
  <2> QED
    BY <1>1, <2>1, Executing, Zenon DEF OkAdmin
<1>4. a \in CQ /\ a \notin host.cqs /\ ~cq[a].exists
  BY <1>3, Zenon DEF OkCreateCQ
<1>5. /\ cq' = [cq EXCEPT ![a] = NewCQ] /\ created' = created \cup {i}
      /\ executing' = executing
      /\ aggregationMap' = [aggregationMap EXCEPT ![Vector[a]] = NoAggregation]
  BY <1>4, Zenon DEF CreateCQ
<1> HIDE DEF a
<1>6. NewCQ \in CompletionQueue /\ NewCQ.exists
  <2>1. NewCQ \in CompletionQueue
    <3>1. PICK none : none = {}
      OBVIOUS
    <3>2. \A w \in none : w.cq # a
      BY <3>1
    <3>3. CqOk(a, NewCQ, FirstRead, none, none) /\ NewCQ \in CompletionQueue
      BY <1>4, <3>2, CqEmpty, Zenon
    <3> QED
      BY <3>3
  <2> QED
    BY <2>1 DEF NewCQ
<1>7. /\ cq' \in [CQ -> CompletionQueue] /\ cq'[a] = NewCQ
      /\ \A c \in CQ : c # a => cq'[c] = cq[c]
  BY <1>2, <1>4, <1>5, <1>6
<1>8. CqsOk' /\ \A j : Posted(j)' <=> Posted(j)
  <2>1. \A c \in host.cqs : c \in CQ /\ c # a
    BY <1>2, <1>4 DEF Host
  <2>2. \A c \in host.cqs : cq'[c] = cq[c]
    BY <1>7, <2>1, Zenon
  <2> QED
    BY <1>1, <1>2, <2>2, CompletionSideStays, Zenon
<1>9. /\ SqsOk' /\ \A j : (Queued(j)' <=> Queued(j)) /\ (Unread(j)' <=> Unread(j))
      /\ \A q : (Reading(q)' <=> Reading(q)) /\ (Drained(q)' <=> Drained(q))
  BY <1>1, <1>2, SubmissionSideSame, Zenon
<1>10. /\ Stages' /\ Live' = Live /\ \A j : Exec(j)' <=> Exec(j)
  BY <1>1, <1>2, <1>5, <1>8, <1>9, SameStages, Zenon
<1>11. ReadsOk'
  BY <1>1, <1>2, <1>9, Zenon DEF ReadsOk, Unfetched
<1>12. OkAdmin(i)'
  <2>1. Late(i)'
    BY <1>5 DEF Late
  <2>2. OkCreateCQ(i, a)'
    BY <1>1, <1>3, <1>6, <1>7, <2>1, Zenon DEF OkCreateCQ, a
  <2> QED
    BY <1>1, <2>2, Zenon DEF OkAdmin, a
<1>13. CommandsOk' /\ HostOk' /\ AdminsOk'
  <2>1. \A j \in created' : j \in created \/ cmd[j].op \in {"create SQ", "create CQ"}
    BY <1>1, <1>5
  <2> QED
    BY <1>1, <1>2, <1>3, <1>4, <1>7, <1>12, <2>1, RulesOfOne, Zenon DEF a
<1>14. Typed'
  <2>1. executing' \subseteq Issued /\ created' \subseteq executing'
    BY <1>1, <1>2, <1>5 DEF Typed
  <2>2. aggregationMap' \in [Vectors -> Aggregation]
    <3>1. NoAggregation \in Aggregation
      BY DEF NoAggregation, Aggregation
    <3> QED
      BY <1>2, <1>5, <3>1
  <2> QED
    BY <1>1, <1>2, <1>5, <1>7, <2>1, <2>2 DEF Typed, Issued
<1> QED
  BY <1>8, <1>9, <1>10, <1>11, <1>13, <1>14, Zenon DEF Inv

LEMMA DeleteCqStep ==
  ASSUME Inv, NEW i, DeleteCQ(i)
  PROVE  Inv'
<1> DEFINE a == cmd[i].arg
<1>1. /\ UNCHANGED <<cmd, created, sq, host, done, loop, fetching, lSQFIFO, posting, status>>
      /\ i \in executing /\ cmd[i].op = "delete CQ"
      /\ executing' = executing \ {i} /\ submit(<<i>>)
  BY Zenon DEF DeleteCQ, loopVars, postVars, Executes, Finish
<1>2. /\ Typed /\ SqsOk /\ CqsOk /\ Stages /\ ReadsOk /\ CommandsOk /\ HostOk /\ AdminsOk
      /\ host \in Host /\ cq \in [CQ -> CompletionQueue]
      /\ aggregationMap \in [Vectors -> Aggregation]
  BY Zenon DEF Inv, Typed, Stages
<1>3. /\ i \in Issued /\ i \in Live /\ ~Late(i) /\ cmd[i].sq = 0 /\ i \notin created
      /\ OkDeleteCQ(i, a)
  <2>1. cmd[i].op # "io" /\ cmd[i].op \notin {"create SQ", "create CQ"}
    BY <1>1
  <2> QED
    BY <1>1, <2>1, Executing, Zenon DEF OkAdmin
<1>4. a \in CQ /\ a \notin host.cqs /\ a # 0 /\ cq[a].exists
  BY <1>3, Zenon DEF OkDeleteCQ
<1>5. \A q \in SQ : sq[q].exists => CqOf[q] # a
  <2> SUFFICES ASSUME NEW q \in SQ, sq[q].exists PROVE CqOf[q] # a
    OBVIOUS
  <2>1. CASE q \in host.sqs
    BY <1>2, <1>4, <2>1, Zenon DEF HostOk
  <2>2. CASE q \notin host.sqs
    <3>1. PICK j \in Live : cmd[j].op \in {"delete SQ", "create SQ"}
      BY <1>2, <2>2, Zenon DEF HostOk
    <3>2. cmd[j].op # "io" /\ cmd[j].op # "delete CQ" /\ j \in Issued
      BY <3>1 DEF Live
    <3> QED
      BY <1>1, <1>2, <1>3, <3>1, <3>2, Zenon DEF CommandsOk
  <2> QED
    BY <2>1, <2>2
<1>6. /\ cq' = [cq EXCEPT ![a].exists = FALSE]
      /\ \/ aggregationMap' = aggregationMap
         \/ aggregationMap' = [aggregationMap EXCEPT ![Vector[a]] = NoAggregation]
  <2>1. \A n \in CQ : n # 0 => n > 0
    BY Constants DEF CQ
  <2>2. a > 0
    BY <1>4, <2>1, Zenon
  <2> QED
    BY <1>4, <1>5, <2>2, Zenon DEF DeleteCQ
<1> HIDE DEF a
<1>7. /\ cq' \in [CQ -> CompletionQueue] /\ ~cq'[a].exists
      /\ \A c \in CQ : c # a => cq'[c] = cq[c]
  <2> DEFINE b == [cq[a] EXCEPT !.exists = FALSE]
  <2>1. cq[a] \in CompletionQueue
    BY <1>2, <1>4
  <2>2. b \in CompletionQueue /\ ~b.exists
    BY <2>1 DEF CompletionQueue
  <2>3. cq' = [cq EXCEPT ![a] = b]
    BY <1>6
  <2> HIDE DEF b
  <2> QED
    BY <1>2, <1>4, <2>2, <2>3
<1>8. CqsOk' /\ \A j : Posted(j)' <=> Posted(j)
  <2>1. \A c \in host.cqs : c \in CQ /\ c # a
    BY <1>2, <1>4 DEF Host
  <2>2. \A c \in host.cqs : cq'[c] = cq[c]
    BY <1>7, <2>1, Zenon
  <2> QED
    BY <1>1, <1>2, <2>2, CompletionSideStays, Zenon
<1>9. /\ SqsOk' /\ \A j : (Queued(j)' <=> Queued(j)) /\ (Unread(j)' <=> Unread(j))
      /\ \A q : (Reading(q)' <=> Reading(q)) /\ (Drained(q)' <=> Drained(q))
  BY <1>1, <1>2, SubmissionSideSame, Zenon
<1>10. /\ panic' = NoPanic /\ lCQFIFO' \in Seq(Issued)
       /\ Stages' /\ Live' = Live /\ Issued' = Issued
       /\ \A j : Finished(j)' <=> Finished(j) \/ j = i
       /\ \A j : Exec(j)' <=> Exec(j) /\ j # i
  BY <1>1, <1>8, <1>9, EndsAlone, Zenon
<1>11. ReadsOk'
  BY <1>1, <1>2, <1>9, Zenon DEF ReadsOk, Unfetched
<1>12. OkAdmin(i)'
  <2>1. Late(i)'
    BY <1>10, Zenon DEF Late
  <2>2. OkDeleteCQ(i, a)'
    BY <1>1, <1>3, <1>7, <2>1, Zenon DEF OkDeleteCQ, a
  <2> QED
    BY <1>1, <2>2, Zenon DEF OkAdmin, a
<1>13. CommandsOk' /\ HostOk' /\ AdminsOk'
  BY <1>1, <1>2, <1>3, <1>4, <1>7, <1>12, RulesOfOne, Zenon DEF a
<1>14. Typed'
  <2>1. executing' \subseteq Issued /\ created' \subseteq executing'
    BY <1>1, <1>2, <1>3 DEF Typed
  <2>2. aggregationMap' \in [Vectors -> Aggregation]
    <3>1. NoAggregation \in Aggregation
      BY DEF NoAggregation, Aggregation
    <3> QED
      BY <1>2, <1>6, <3>1
  <2> QED
    BY <1>1, <1>2, <1>7, <1>10, <2>1, <2>2 DEF Typed
<1> QED
  BY <1>8, <1>9, <1>10, <1>11, <1>13, <1>14, Zenon DEF Inv

-----------------------------------------------------------------------------
(* completion(): everything in lCQFIFO is posted. *)

PostState == [cq : [CQ -> CompletionQueue], agg : [Vectors -> Aggregation],
              writes : Seq(Write), ivs : SUBSET Vectors,
              panic : {NoPanic, "completion queue not created", "completion queue overflow"}]
PostStart == [cq |-> cq, agg |-> aggregationMap, writes |-> <<>>, ivs |-> {}, panic |-> panic]
PostAll == FoldLeft(PostEntry, PostStart, lCQFIFO)

LEMMA EntryCounted ==
  ASSUME NEW a \in Aggregation, NEW c \in CQ
  PROVE  AfterEntry(a, c) \in Aggregation
<1>1. /\ a.valid \in BOOLEAN /\ a.running \in BOOLEAN /\ a.count \in Nat
      /\ a.pending \in BOOLEAN
      /\ a = [valid |-> a.valid, running |-> a.running, count |-> a.count, pending |-> a.pending]
  BY DEF Aggregation
<1>2. [a EXCEPT !.count = @ + 1, !.pending = TRUE] \in Aggregation
  <2> DEFINE m == a.count + 1
  <2>1. m \in Nat
    BY <1>1
  <2> HIDE DEF m
  <2>2. [a EXCEPT !.count = m, !.pending = TRUE] \in Aggregation
    BY <1>1, <2>1 DEF Aggregation
  <2> QED
    BY <2>2, Zenon DEF m
<1>3. [a EXCEPT !.count = 0, !.running = TRUE] \in Aggregation
  BY <1>1 DEF Aggregation
<1>4. c = 0 \/ c > 0
  BY Constants
<1>5. CASE c = 0 \/ ~a.valid
  <2>1. AfterEntry(a, c) = a \/ AfterEntry(a, c) = [a EXCEPT !.count = @ + 1, !.pending = TRUE]
        \/ AfterEntry(a, c) = [a EXCEPT !.count = 0, !.running = TRUE]
    BY <1>5 DEF AfterEntry
  <2> QED
    BY <1>2, <1>3, <2>1
<1>6. CASE ~(c = 0 \/ ~a.valid) /\ Coalesced(a, c)
  <2>1. AfterEntry(a, c) = [a EXCEPT !.count = @ + 1, !.pending = TRUE]
    BY <1>6 DEF AfterEntry
  <2> QED
    BY <1>2, <2>1
<1>7. CASE ~(c = 0 \/ ~a.valid) /\ ~Coalesced(a, c)
  <2>1. AfterEntry(a, c) = [a EXCEPT !.count = 0, !.running = TRUE]
    BY <1>4, <1>7 DEF AfterEntry
  <2> QED
    BY <1>3, <2>1
<1> QED
  BY <1>5, <1>6, <1>7

LEMMA PostsEntry ==
  ASSUME Typed, NEW s \in PostState, NEW i \in Issued
  PROVE  LET c == CompletionQueueOf(i)
             next == SetData(s.cq[c])
         IN  /\ PostEntry(s, i) \in PostState
             /\ s.panic = NoPanic /\ s.cq[c].exists /\ next.tail # next.head =>
                  /\ PostEntry(s, i).panic = NoPanic
                  /\ PostEntry(s, i).cq = [s.cq EXCEPT ![c] = next]
                  /\ PostEntry(s, i).writes = Append(s.writes, WriteOf(c, s.cq[c], i))
<1> DEFINE c == CompletionQueueOf(i)
           v == Vector[c]
           queue == s.cq[c]
           next == SetData(queue)
           w == WriteOf(c, queue, i)
           bad == "completion queue not created"
<1>1. i \in Tag /\ c \in CQ
  BY CommandsTyped
<1>2. v \in Vectors
  BY <1>1, Zenon DEF Vectors
<1>3. /\ s.cq \in [CQ -> CompletionQueue] /\ s.agg \in [Vectors -> Aggregation]
      /\ s.writes \in Seq(Write) /\ s.ivs \subseteq Vectors
      /\ s = [cq |-> s.cq, agg |-> s.agg, writes |-> s.writes, ivs |-> s.ivs, panic |-> s.panic]
  BY DEF PostState
<1>4. CASE s.panic # NoPanic \/ ~queue.exists
  <2>1. PostEntry(s, i) = [s EXCEPT !.panic = bad]
    BY <1>4, Zenon DEF PostEntry
  <2>2. [s EXCEPT !.panic = bad] \in PostState
    BY DEF PostState
  <2> QED
    BY <1>4, <2>1, <2>2, Zenon
<1>5. CASE ~(s.panic # NoPanic \/ ~queue.exists)
  <2> DEFINE more == [s.cq EXCEPT ![c] = next]
             agg == [s.agg EXCEPT ![v] = AfterEntry(s.agg[v], c)]
             ws == Append(s.writes, w)
             ivs == IF Coalesced(s.agg[v], c) THEN s.ivs ELSE s.ivs \cup {v}
             p == IF next.head = next.tail THEN "completion queue overflow" ELSE NoPanic
             t == [cq |-> more, agg |-> agg, writes |-> ws, ivs |-> ivs, panic |-> p]
  <2>1. PostEntry(s, i) = t
    BY <1>5, Zenon DEF PostEntry, WriteOf
  <2>2. queue \in CompletionQueue
    BY <1>1, <1>3
  <2>3. more \in [CQ -> CompletionQueue]
    <3>1. next \in CompletionQueue
      BY <2>2, NextTail
    <3> HIDE DEF next
    <3> QED
      BY <1>1, <1>3, <3>1
  <2>4. agg \in [Vectors -> Aggregation]
    <3>1. AfterEntry(s.agg[v], c) \in Aggregation
      BY <1>1, <1>2, <1>3, EntryCounted
    <3> HIDE DEF v, c
    <3> QED
      BY <1>2, <1>3, <3>1
  <2>5. ws \in Seq(Write)
    <3>1. w \in Write
      BY <1>1, <2>2 DEF WriteOf, Write, Entry, CompletionQueue
    <3> HIDE DEF w
    <3> QED
      BY <1>3, <3>1, AppendProperties
  <2>6. ivs \subseteq Vectors
    <3> HIDE DEF v, c
    <3> QED
      BY <1>2, <1>3
  <2>7. p \in {NoPanic, bad, "completion queue overflow"}
    <3> HIDE DEF next
    <3> QED
      OBVIOUS
  <2>8. next.tail # next.head => p = NoPanic
    <3> HIDE DEF next
    <3> QED
      OBVIOUS
  <2> HIDE DEF more, agg, ws, ivs, p
  <2>9. t \in PostState
    BY <2>3, <2>4, <2>5, <2>6, <2>7 DEF PostState
  <2>10. t.panic = p /\ t.cq = more /\ t.writes = ws
    OBVIOUS
  <2> QED
    BY <2>1, <2>8, <2>9, <2>10, Zenon DEF more, ws
<1> QED
  BY <1>4, <1>5, Zenon

\* completion(), entry by entry.
LEMMA Posts ==
  ASSUME Typed
  PROVE  \E f \in [0 .. Len(lCQFIFO) -> PostState] :
           /\ f[0] = PostStart
           /\ \A n \in 1 .. Len(lCQFIFO) : f[n] = PostEntry(f[n - 1], lCQFIFO[n])
           /\ PostAll = f[Len(lCQFIFO)]
<1> DEFINE N == Len(lCQFIFO)
           D == 1 .. N
           base == PostStart
           Turn(t, k) == PostEntry(t, lCQFIFO[k])
           step == [x \in PostState \X D |-> Turn(x[1], x[2])]
           P(g) == g = [r \in SUBSET D |->
                          IF r = {} THEN base ELSE Turn(g[r \ {Max(r)}], Max(r))]
<1>1. N \in Nat /\ DOMAIN lCQFIFO = D /\ \A k \in D : lCQFIFO[k] \in Issued
  BY LenProperties, ElementOfSeq DEF Typed
<1> HIDE DEF N
<1>2. base \in PostState
  <2>1. <<>> \in Seq(Write)
    BY EmptySeq
  <2> QED
    BY <2>1 DEF PostStart, PostState, Typed
<1>3. \A t \in PostState, k \in D : Turn(t, k) \in PostState
  BY <1>1, PostsEntry, Zenon
<1>4. step \in [PostState \X D -> PostState]
  <2> HIDE DEF Turn
  <2> QED
    BY <1>3
<1>5. PostAll = (CHOOSE g : P(g))[D]
  BY <1>1, Zenon DEF PostAll, FoldLeft, MapThenFoldSet
<1> HIDE DEF base, Turn
<1>6. PICK h : Folded(h, PostState, N, step, base)
  <2> HIDE DEF step
  <2> QED
    BY <1>1, <1>2, <1>4, FoldExists
<1>7. \A t \in PostState, k \in D : step[<<t, k>>] = Turn(t, k)
  OBVIOUS
<1> HIDE DEF step
<1>8. ASSUME NEW r \in SUBSET D
      PROVE  /\ r # {} => Max(r) \in D
             /\ h[r] = IF r = {} THEN base ELSE Turn(h[r \ {Max(r)}], Max(r))
  <2>1. /\ h[r] = IF r = {} THEN base ELSE step[<<h[r \ {Max(r)}], Max(r)>>]
        /\ r # {} => Max(r) \in D /\ h[r \ {Max(r)}] \in PostState
    BY <1>1, <1>6, FoldedAt
  <2> QED
    BY <1>7, <2>1
<1>9. P(h)
  <2>1. h \in [SUBSET D -> PostState]
    BY <1>6, Zenon DEF Folded
  <2> QED
    BY <1>8, <2>1
<1>10. PICK g : P(g) /\ PostAll = g[D]
  <2> HIDE DEF P
  <2> QED
    BY <1>5, <1>9, Zenon
<1> DEFINE next == [r \in SUBSET D |-> Turn(g[r \ {Max(r)}], Max(r))]
<1>11. \A r \in SUBSET D : g[r] = IF r = {} THEN base ELSE next[r]
  BY <1>10
<1>12. FoldedBy(g, PostState, N, step, base, next)
  BY <1>1, <1>2, <1>4, <1>7, <1>8, <1>11 DEF FoldedBy
<1> HIDE DEF next, P
<1>13. PICK f : Iterated(f, PostState, N, step, base) /\ f[N] = g[D]
  BY <1>12, FoldRuns
<1>14. /\ f \in [0 .. N -> PostState] /\ f[0] = base
       /\ \A n \in D : f[n] = step[<<f[n - 1], n>>]
  BY <1>13, Zenon DEF Iterated
<1>15. ASSUME NEW n \in D PROVE f[n] = PostEntry(f[n - 1], lCQFIFO[n])
  <2>1. n - 1 \in 0 .. N
    BY <1>1
  <2>2. f[n] = Turn(f[n - 1], n)
    BY <1>7, <1>14, <2>1
  <2> QED
    BY <2>2 DEF Turn
<1> QED
  BY <1>10, <1>13, <1>14, <1>15, Zenon DEF base, N

\* The writes in flight when entries were posted, and what holds after n of them.
InPosts(s) == Pending(posting) \cup {w \in Write : Occurs(w, s.writes)}
Among(n, i) == \E m \in 1 .. n : lCQFIFO[m] = i
QueuePosts(n, s, c) ==
  /\ CqOk(c, s.cq[c], host.reads[c], InPosts(s), OutstandingTo(c))
  /\ \A i \in Tag : Held(c, s.cq[c], host.reads[c], InPosts(s), i) <=>
       \/ Held(c, cq[c], host.reads[c], Pending(posting), i)
       \/ Among(n, i) /\ CompletionQueueOf(i) = c
AfterPosts(n, s) ==
  /\ s.panic = NoPanic /\ Len(s.writes) = n
  /\ \A m \in 1 .. n : s.writes[m].entry.id = lCQFIFO[m] /\ s.writes[m].cq \in host.cqs
  /\ \A c \in host.cqs : QueuePosts(n, s, c)
  /\ \A c \in CQ \ host.cqs : s.cq[c] = cq[c]

LEMMA OneMoreWrite ==
  ASSUME NEW s \in PostState, NEW t, NEW w \in Write, t.writes = Append(s.writes, w)
  PROVE  /\ Len(t.writes) = Len(s.writes) + 1
         /\ \A m \in 1 .. Len(s.writes) + 1 :
              t.writes[m] = IF m = Len(s.writes) + 1 THEN w ELSE s.writes[m]
         /\ InPosts(t) = InPosts(s) \cup {w}
<1> DEFINE q == s.writes
           n == Len(q)
           r == Append(q, w)
<1>1. q \in Seq(Write)
  BY DEF PostState
<1>2. n \in Nat /\ DOMAIN q = 1 .. n
  BY <1>1, LenProperties
<1>3. /\ r \in Seq(Write) /\ Len(r) = n + 1 /\ r[n + 1] = w
      /\ \A m \in 1 .. n : r[m] = q[m]
  BY <1>1, AppendProperties
<1>4. DOMAIN r = 1 .. n + 1
  BY <1>3, LenProperties
<1> HIDE DEF r, q, n
<1>5. \A m \in 1 .. n + 1 : r[m] = IF m = n + 1 THEN w ELSE q[m]
  BY <1>2, <1>3
<1>6. \A x : Occurs(x, r) <=> Occurs(x, q) \/ x = w
  <2> TAKE x
  <2>1. Occurs(x, r) => Occurs(x, q) \/ x = w
    BY <1>2, <1>4, <1>5 DEF Occurs
  <2>2. Occurs(x, q) => Occurs(x, r)
    BY <1>2, <1>3, <1>4 DEF Occurs
  <2>3. x = w => Occurs(x, r)
    BY <1>2, <1>3, <1>4 DEF Occurs
  <2> QED
    BY <2>1, <2>2, <2>3
<1>7. t.writes = r
  BY Zenon DEF r, q
<1>8. InPosts(t) = InPosts(s) \cup {w}
  <2>1. {x \in Write : Occurs(x, r)} = {x \in Write : Occurs(x, q)} \cup {w}
    BY <1>6
  <2> QED
    BY <1>7, <2>1 DEF InPosts, q
<1> QED
  BY <1>3, <1>5, <1>7, <1>8 DEF q, n

LEMMA PostsOn ==
  ASSUME Inv, NEW n \in Nat, n < Len(lCQFIFO), NEW s \in PostState, AfterPosts(n, s)
  PROVE  AfterPosts(n + 1, PostEntry(s, lCQFIFO[n + 1]))
<1> DEFINE i == lCQFIFO[n + 1]
           c == CompletionQueueOf(i)
           t == PostEntry(s, i)
           next == SetData(s.cq[c])
           w == WriteOf(c, s.cq[c], i)
           P == InPosts(s)
           O(d) == OutstandingTo(d)
<1>1. /\ Typed /\ CqsOk /\ Stages /\ lCQFIFO \in Seq(Issued) /\ NoDuplicates(lCQFIFO)
      /\ host \in Host /\ posting \in Seq(Call)
  BY Zenon DEF Inv, Typed, Stages
<1>2. Len(lCQFIFO) \in Nat /\ DOMAIN lCQFIFO = 1 .. Len(lCQFIFO)
  BY <1>1, LenProperties
<1>3. n + 1 \in 1 .. Len(lCQFIFO) /\ \A m \in 1 .. n : m \in 1 .. Len(lCQFIFO) /\ m # n + 1
  BY <1>2
<1>4. i \in Issued /\ Finished(i)
  <2>1. i \in Issued
    BY <1>1, <1>2, <1>3, ElementOfSeq
  <2> QED
    BY <1>2, <1>3, <2>1, Zenon DEF Finished, Occurs
<1>5. i \in Live /\ ~Posted(i) /\ i \in Tag /\ i \in OutstandingTo(c)
  <2>1. i \in Live /\ ~Posted(i)
    BY <1>1, <1>4, Zenon DEF Stages, Stage
  <2>2. i \in Tag
    BY <1>1, <1>4, CommandsTyped
  <2>3. i \in OutstandingTo(c)
    BY <1>4, <2>1 DEF OutstandingTo, Live
  <2> QED
    BY <2>1, <2>2, <2>3
<1>6. ~Among(n, i)
  BY <1>1, <1>2, <1>3, Zenon DEF Among, NoDuplicates
<1>7. c \in host.cqs /\ c \in CQ
  <2>1. c \in host.cqs
    BY <1>5, QueueToComplete, Zenon
  <2> QED
    BY <1>1, <2>1 DEF Host
<1>8. /\ s.cq \in [CQ -> CompletionQueue] /\ s.writes \in Seq(Write)
      /\ P \in SUBSET Write /\ s.panic = NoPanic
  BY DEF PostState, AfterPosts, InPosts, Pending
<1>9. QueuePosts(n, s, c)
  BY <1>7, Zenon DEF AfterPosts
<1>10. /\ CqOk(c, s.cq[c], host.reads[c], P, O(c))
       /\ ~Held(c, s.cq[c], host.reads[c], P, i)
       /\ s.cq[c].exists
  <2>1. CqOk(c, s.cq[c], host.reads[c], P, O(c))
    BY <1>9, Zenon DEF QueuePosts
  <2>2. ~Held(c, cq[c], host.reads[c], Pending(posting), i)
    BY <1>5, <1>7, Zenon DEF Posted
  <2>3. ~Held(c, s.cq[c], host.reads[c], P, i)
    BY <1>5, <1>6, <1>9, <2>2, Zenon DEF QueuePosts
  <2> QED
    BY <2>1, <2>3, Zenon DEF CqOk
<1>11. /\ \A d : O(d) \subseteq Tag /\ IsFiniteSet(O(d))
       /\ \A d \in CQ : Cardinality(O(d)) <= CqSize - 1
       /\ s.cq[c] \in CompletionQueue /\ host.reads[c] \in Position
  <2>1. \A d : O(d) \subseteq Tag /\ IsFiniteSet(O(d))
    BY <1>1, CommandsTyped
  <2>2. \A d \in CQ : Cardinality(O(d)) <= CqSize - 1
    BY <1>1, Zenon DEF CqsOk
  <2>3. s.cq[c] \in CompletionQueue /\ host.reads[c] \in Position
    BY <1>1, <1>7, <1>8 DEF Host
  <2> QED
    BY <2>1, <2>2, <2>3
<1> HIDE DEF P, O, i, c
<1>12. /\ next.tail # next.head
       /\ CqOk(c, next, host.reads[c], P \cup {w}, O(c))
       /\ \A j \in Tag : Held(c, next, host.reads[c], P \cup {w}, j) <=>
                           Held(c, s.cq[c], host.reads[c], P, j) \/ j = i
  <2>1. O(c) \subseteq Tag /\ IsFiniteSet(O(c)) /\ Cardinality(O(c)) <= CqSize - 1
    BY <1>7, <1>11
  <2>2. i \in O(c)
    BY <1>5 DEF O
  <2> QED
    BY <1>7, <1>8, <1>10, <1>11, <2>1, <2>2, PostOne
<1>13. /\ t \in PostState /\ t.panic = NoPanic /\ t.cq = [s.cq EXCEPT ![c] = next]
       /\ t.writes = Append(s.writes, w)
  BY <1>1, <1>4, <1>8, <1>10, <1>12, PostsEntry, Zenon DEF c
<1>14. w \in Write /\ w.cq = c /\ w.entry.id = i
  BY <1>5, <1>7, <1>11 DEF WriteOf, Write, Entry, CompletionQueue
<1> HIDE DEF w, t
<1>15. /\ Len(t.writes) = n + 1 /\ InPosts(t) = P \cup {w}
       /\ \A m \in 1 .. n + 1 : t.writes[m] = IF m = n + 1 THEN w ELSE s.writes[m]
  <2>1. Len(s.writes) = n
    BY Zenon DEF AfterPosts
  <2> QED
    BY <1>13, <1>14, <2>1, OneMoreWrite DEF P
<1>16. /\ t.cq[c] = next
       /\ \A d \in CQ : d # c => t.cq[d] = s.cq[d]
  BY <1>7, <1>8, <1>13, Zenon
<1> HIDE DEF next
<1>17. \A j : Among(n + 1, j) <=> Among(n, j) \/ j = i
  <2>1. 1 .. n + 1 = (1 .. n) \cup {n + 1}
    OBVIOUS
  <2>2. \A m : m \in 1 .. n + 1 <=> m \in 1 .. n \/ m = n + 1
    BY <2>1
  <2> QED
    BY <2>2, Zenon DEF Among, i
<1>18. \A m \in 1 .. n + 1 : t.writes[m].entry.id = lCQFIFO[m] /\ t.writes[m].cq \in host.cqs
  <2> TAKE m \in 1 .. n + 1
  <2>1. CASE m = n + 1
    BY <1>7, <1>14, <1>15, <2>1, Zenon DEF i
  <2>2. CASE m # n + 1
    <3>1. m \in 1 .. n
      BY <2>2
    <3>2. s.writes[m].entry.id = lCQFIFO[m] /\ s.writes[m].cq \in host.cqs
      BY <3>1, Zenon DEF AfterPosts
    <3> QED
      BY <1>15, <2>2, <3>2, Zenon
  <2> QED
    BY <2>1, <2>2
<1>19. ASSUME NEW d \in host.cqs PROVE QueuePosts(n + 1, t, d)
  <2>1. d \in CQ /\ QueuePosts(n, s, d)
    BY <1>1 DEF Host, AfterPosts
  <2>2. CASE d = c
    <3>1. CqOk(d, t.cq[d], host.reads[d], InPosts(t), OutstandingTo(d))
      BY <1>12, <1>15, <1>16, <2>2, Zenon DEF O
    <3>2. ASSUME NEW j \in Tag
          PROVE  Held(d, t.cq[d], host.reads[d], InPosts(t), j) <=>
                   \/ Held(d, cq[d], host.reads[d], Pending(posting), j)
                   \/ Among(n + 1, j) /\ CompletionQueueOf(j) = d
      <4>1. Held(d, t.cq[d], host.reads[d], InPosts(t), j) <=>
              Held(d, s.cq[d], host.reads[d], P, j) \/ j = i
        BY <1>12, <1>15, <1>16, <2>2, Zenon
      <4>2. Held(d, s.cq[d], host.reads[d], P, j) <=>
              \/ Held(d, cq[d], host.reads[d], Pending(posting), j)
              \/ Among(n, j) /\ CompletionQueueOf(j) = d
        BY <2>1, Zenon DEF QueuePosts, P
      <4>3. CompletionQueueOf(i) = d
        BY <2>2 DEF c, i
      <4> QED
        BY <1>17, <4>1, <4>2, <4>3, Zenon
    <3> QED
      BY <3>1, <3>2, Zenon DEF QueuePosts
  <2>3. CASE d # c
    <3>1. t.cq[d] = s.cq[d]
      BY <1>16, <2>1, <2>3
    <3>2. CqOk(d, s.cq[d], host.reads[d], P, O(d))
      BY <2>1, Zenon DEF QueuePosts, P, O
    <3>3. \A x : x.cq = d => (x \in InPosts(t) <=> x \in P)
      BY <1>14, <1>15, <2>3
    <3>4. O(d) \subseteq Tag
      BY <1>11
    <3>5. /\ CqOk(d, s.cq[d], host.reads[d], InPosts(t), O(d))
          /\ \A j : Held(d, s.cq[d], host.reads[d], InPosts(t), j) <=>
                      Held(d, s.cq[d], host.reads[d], P, j)
      BY <2>1, <3>2, <3>3, <3>4, CqStays
    <3>6. CompletionQueueOf(i) # d
      BY <2>3 DEF c, i
    <3>7. ASSUME NEW j \in Tag
          PROVE  Held(d, t.cq[d], host.reads[d], InPosts(t), j) <=>
                   \/ Held(d, cq[d], host.reads[d], Pending(posting), j)
                   \/ Among(n + 1, j) /\ CompletionQueueOf(j) = d
      <4>1. Held(d, t.cq[d], host.reads[d], InPosts(t), j) <=>
              Held(d, s.cq[d], host.reads[d], P, j)
        BY <3>1, <3>5, Zenon
      <4>2. Held(d, s.cq[d], host.reads[d], P, j) <=>
              \/ Held(d, cq[d], host.reads[d], Pending(posting), j)
              \/ Among(n, j) /\ CompletionQueueOf(j) = d
        BY <2>1, Zenon DEF QueuePosts, P
      <4>3. CompletionQueueOf(j) = d => j # i
        BY <3>6, Zenon
      <4>4. CompletionQueueOf(j) = d => (Among(n + 1, j) <=> Among(n, j))
        BY <1>17, <4>3, Zenon
      <4> QED
        BY <4>1, <4>2, <4>4, Zenon
    <3> QED
      BY <3>1, <3>5, <3>7, Zenon DEF QueuePosts, O
  <2> QED
    BY <2>2, <2>3
<1>20. \A d \in CQ \ host.cqs : t.cq[d] = cq[d]
  <2> TAKE d \in CQ \ host.cqs
  <2>1. d \in CQ /\ d # c /\ s.cq[d] = cq[d]
    BY <1>7 DEF AfterPosts
  <2> QED
    BY <1>16, <2>1, Zenon
<1> QED
  BY <1>13, <1>15, <1>18, <1>19, <1>20, Zenon DEF AfterPosts, t, i

LEMMA PostedAll ==
  ASSUME Inv
  PROVE  PostAll \in PostState /\ AfterPosts(Len(lCQFIFO), PostAll)
<1> DEFINE N == Len(lCQFIFO)
<1>1. Typed /\ CqsOk /\ N \in Nat
  BY LenProperties DEF Inv, Typed
<1>2. PICK f \in [0 .. N -> PostState] :
        /\ f[0] = PostStart
        /\ \A n \in 1 .. N : f[n] = PostEntry(f[n - 1], lCQFIFO[n])
        /\ PostAll = f[N]
  BY <1>1, Posts, Zenon
<1> DEFINE M == {n \in Nat : n <= N => AfterPosts(n, f[n])}
<1> HIDE DEF N
<1>3. 0 \in M
  <2>1. PostStart.panic = NoPanic /\ PostStart.cq = cq /\ PostStart.writes = <<>>
    BY <1>1 DEF PostStart, Typed
  <2>2. Len(<<>>) = 0 /\ \A x : ~Occurs(x, <<>>)
    BY EmptySeq DEF Occurs
  <2>3. InPosts(PostStart) = Pending(posting)
    BY <2>1, <2>2 DEF InPosts
  <2>4. \A m : m \notin 1 .. 0
    OBVIOUS
  <2>5. \A i : ~Among(0, i)
    BY <2>4, Zenon DEF Among
  <2>6. \A c \in host.cqs : QueuePosts(0, PostStart, c)
    BY <1>1, <2>1, <2>3, <2>5, Zenon DEF QueuePosts, CqsOk
  <2>7. AfterPosts(0, PostStart)
    BY <2>1, <2>2, <2>4, <2>6, Zenon DEF AfterPosts
  <2> QED
    BY <1>2, <2>7
<1>4. ASSUME NEW n \in Nat, n \in M PROVE n + 1 \in M
  <2> SUFFICES ASSUME n + 1 <= N PROVE AfterPosts(n + 1, f[n + 1])
    OBVIOUS
  <2>1. n + 1 \in 1 .. N /\ (n + 1) - 1 = n /\ n <= N /\ n < N /\ n \in 0 .. N
    BY <1>1
  <2>2. AfterPosts(n, f[n]) /\ f[n] \in PostState
    BY <1>2, <1>4, <2>1
  <2>3. f[n + 1] = PostEntry(f[n], lCQFIFO[n + 1])
    BY <1>2, <2>1
  <2> QED
    BY <2>1, <2>2, <2>3, PostsOn DEF N
<1>5. N \in M
  <2>1. Nat \subseteq M
    <3> HIDE DEF M
    <3> QED
      BY <1>3, <1>4, NatInductionSet
  <2> QED
    BY <1>1, <2>1
<1>6. PostAll \in PostState
  BY <1>1, <1>2
<1> QED
  BY <1>1, <1>2, <1>5, <1>6 DEF N

\* A DMA write in flight posts a command.
LEMMA PendingPosted ==
  ASSUME Inv, NEW w \in Pending(posting)
  PROVE  /\ w \in Write /\ w.cq \in host.cqs /\ w.cq \in CQ
         /\ InFlight(w.cq, host.reads[w.cq], Pending(posting), w.slot, w.entry.id)
         /\ Posted(w.entry.id)
<1>1. w \in Write /\ w.cq \in host.cqs
  BY Zenon DEF Inv, CqsOk, Pending
<1>2. w.cq \in CQ /\ w.slot \in Slot(CqSize)
      /\ w = [cq |-> w.cq, slot |-> w.slot,
              entry |-> [id |-> w.entry.id, phase |-> w.entry.phase]]
  BY <1>1 DEF Write, Entry
<1>3. w.entry.phase = Expected(host.reads[w.cq], w.slot)
  BY <1>1, Zenon DEF Inv, CqsOk, CqOk
<1>4. InFlight(w.cq, host.reads[w.cq], Pending(posting), w.slot, w.entry.id)
  BY <1>2, <1>3, Zenon DEF InFlight
<1>5. Posted(w.entry.id)
  BY <1>1, <1>2, <1>4, Zenon DEF Posted, Held, Holds
<1> QED
  BY <1>1, <1>2, <1>4, <1>5

LEMMA CompletionStep ==
  ASSUME Inv, Completion
  PROVE  Inv'
<1> DEFINE s == PostAll
           N == Len(lCQFIFO)
           call == [writes |-> s.writes, ivs |-> s.ivs \cup Due(s.agg)]
<1>1. /\ UNCHANGED <<cmd, sq, host, done, loop, fetching, lSQFIFO, executing, created, status>>
      /\ lCQFIFO' = <<>> /\ panic' = s.panic /\ cq' = s.cq
      /\ aggregationMap' = [v \in Vectors |->
              IF v \in Due(s.agg)
              THEN [s.agg[v] EXCEPT !.running = TRUE, !.count = 0, !.pending = FALSE]
              ELSE s.agg[v]]
      /\ posting' = IF s.writes = <<>> THEN posting ELSE Append(posting, call)
  BY Zenon DEF Completion, loopVars, PostAll, PostStart
<1>2. /\ Typed /\ SqsOk /\ CqsOk /\ Stages /\ ReadsOk /\ CommandsOk /\ HostOk /\ AdminsOk
      /\ host \in Host /\ cq \in [CQ -> CompletionQueue] /\ posting \in Seq(Call)
      /\ lCQFIFO \in Seq(Issued) /\ NoDuplicates(lCQFIFO)
  BY Zenon DEF Inv, Typed, Stages
<1>3. s \in PostState /\ AfterPosts(N, s)
  BY PostedAll
<1>4. N \in Nat /\ DOMAIN lCQFIFO = 1 .. N
  BY <1>2, LenProperties
<1> HIDE DEF s, N
<1>5. /\ s.cq \in [CQ -> CompletionQueue] /\ s.agg \in [Vectors -> Aggregation]
      /\ s.writes \in Seq(Write) /\ s.ivs \subseteq Vectors /\ s.panic = NoPanic
      /\ DOMAIN s.writes = 1 .. N
  <2>1. Len(s.writes) = N /\ s.panic = NoPanic
    BY <1>3, Zenon DEF AfterPosts
  <2>2. /\ s.cq \in [CQ -> CompletionQueue] /\ s.agg \in [Vectors -> Aggregation]
        /\ s.writes \in Seq(Write) /\ s.ivs \subseteq Vectors
    BY <1>3 DEF PostState
  <2> QED
    BY <2>1, <2>2, LenProperties
<1>6. /\ \A m \in 1 .. N : s.writes[m].entry.id = lCQFIFO[m] /\ s.writes[m].cq \in host.cqs
      /\ \A c \in host.cqs : QueuePosts(N, s, c)
      /\ \A c \in CQ \ host.cqs : s.cq[c] = cq[c]
  BY <1>3, Zenon DEF AfterPosts
<1>7. \A i : Finished(i) <=> Among(N, i)
  BY <1>4, Zenon DEF Finished, Occurs, Among
<1>8. \A m \in 1 .. N : Finished(lCQFIFO[m]) /\ lCQFIFO[m] \in Issued
  BY <1>2, <1>4, ElementOfSeq DEF Finished, Occurs
<1>9. posting' \in Seq(Call) /\ WritesApart(posting') /\ Pending(posting') = InPosts(s)
  <2>1. CASE s.writes = <<>>
    <3>1. \A x : ~Occurs(x, s.writes)
      BY <2>1, EmptySeq DEF Occurs
    <3>2. InPosts(s) = Pending(posting)
      BY <3>1 DEF InPosts
    <3>3. WritesApart(posting)
      BY <1>2, Zenon DEF CqsOk
    <3> QED
      BY <1>1, <1>2, <2>1, <3>2, <3>3
  <2>2. CASE s.writes # <<>>
    <3>1. \A m, n \in DOMAIN s.writes : s.writes[m].entry.id = s.writes[n].entry.id => m = n
      BY <1>2, <1>4, <1>5, <1>6, Zenon DEF NoDuplicates
    <3>2. \A m \in DOMAIN s.writes : \A w \in Pending(posting) :
            s.writes[m].entry.id # w.entry.id
      <4> SUFFICES ASSUME NEW m \in DOMAIN s.writes, NEW w \in Pending(posting),
                          s.writes[m].entry.id = w.entry.id
                   PROVE  FALSE
        BY Zenon
      <4>1. lCQFIFO[m] = w.entry.id /\ Finished(lCQFIFO[m]) /\ lCQFIFO[m] \in Issued
        BY <1>5, <1>6, <1>8
      <4>2. Posted(w.entry.id)
        BY PendingPosted
      <4>3. Stage(lCQFIFO[m])
        BY <1>2, <4>1, Zenon DEF Stages
      <4> QED
        BY <4>1, <4>2, <4>3, Zenon DEF Stage
    <3>3. WritesApart(posting)
      BY <1>2, Zenon DEF CqsOk
    <3>4. s.ivs \cup Due(s.agg) \in SUBSET Vectors
      BY <1>5 DEF Due
    <3>5. /\ Append(posting, call) \in Seq(Call) /\ WritesApart(Append(posting, call))
          /\ Pending(Append(posting, call))
               = Pending(posting) \cup {w \in Write : Occurs(w, s.writes)}
      BY <1>2, <1>5, <3>1, <3>2, <3>3, <3>4, CallStarts
    <3> QED
      BY <1>1, <2>2, <3>5, Zenon DEF InPosts
  <2> QED
    BY <2>1, <2>2
<1>10. Live' = Live /\ Issued' = Issued /\ \A c : OutstandingTo(c)' = OutstandingTo(c)
  BY <1>1, Zenon DEF Live, Issued, OutstandingTo, CompletionQueueOf
<1>11. CqsOk'
  <2>1. \A c \in host'.cqs :
          CqOk(c, cq'[c], host'.reads[c], Pending(posting'), OutstandingTo(c)')
    BY <1>1, <1>6, <1>9, <1>10, Zenon DEF QueuePosts
  <2>2. \A c \in CQ : Cardinality(OutstandingTo(c)') <= CqSize - 1
    BY <1>2, <1>10, Zenon DEF CqsOk
  <2>3. ASSUME NEW w \in InPosts(s) PROVE w.cq \in host.cqs
    <3>1. w \in Pending(posting) \/ Occurs(w, s.writes)
      BY DEF InPosts
    <3>2. ASSUME Occurs(w, s.writes) PROVE w.cq \in host.cqs
      BY <1>5, <1>6, <3>2, Zenon DEF Occurs
    <3>3. ASSUME w \in Pending(posting) PROVE w.cq \in host.cqs
      BY <1>2, <3>3, Zenon DEF CqsOk
    <3> QED
      BY <3>1, <3>2, <3>3
  <2> QED
    BY <1>1, <1>9, <2>1, <2>2, <2>3, Zenon DEF CqsOk
<1>12. ASSUME NEW i \in Issued PROVE Posted(i)' <=> Posted(i) \/ Finished(i)
  <2>1. i \in Tag
    BY <1>2, CommandsTyped
  <2>2. \A c \in host.cqs :
          Held(c, s.cq[c], host.reads[c], InPosts(s), i) <=>
            \/ Held(c, cq[c], host.reads[c], Pending(posting), i)
            \/ Finished(i) /\ CompletionQueueOf(i) = c
    BY <1>6, <1>7, <2>1, Zenon DEF QueuePosts
  <2>3. Finished(i) => CompletionQueueOf(i) \in host.cqs
    <3>1. Finished(i) => i \in Live
      BY <1>2, Zenon DEF Stages, Stage
    <3> QED
      BY <3>1, QueueToComplete, Zenon
  <2>4. Posted(i)' <=> \E c \in host.cqs : Held(c, s.cq[c], host.reads[c], InPosts(s), i)
    BY <1>1, <1>9, Zenon DEF Posted
  <2> QED
    BY <2>2, <2>3, <2>4, Zenon DEF Posted
<1>13. /\ SqsOk' /\ \A j : (Queued(j)' <=> Queued(j)) /\ (Unread(j)' <=> Unread(j))
       /\ \A q : (Reading(q)' <=> Reading(q)) /\ (Drained(q)' <=> Drained(q))
  BY <1>1, <1>2, SubmissionSideSame, Zenon
<1>14. \A j : ~Finished(j)' /\ (Fifo(j)' <=> Fifo(j)) /\ (Exec(j)' <=> Exec(j))
  <2>1. \A j : ~Occurs(j, <<>>)
    BY EmptySeq DEF Occurs
  <2> QED
    BY <1>1, <2>1, Zenon DEF Finished, Fifo, Exec
<1>15. Stages'
  <2>1. NoDuplicates(lCQFIFO') /\ NoDuplicates(lSQFIFO')
    <3>1. NoDuplicates(<<>>)
      BY EmptySeq DEF NoDuplicates
    <3> QED
      BY <1>1, <1>2, <3>1, Zenon DEF Stages
  <2>2. ASSUME NEW j \in Issued PROVE Stage(j)'
    <3>1. Stage(j)
      BY <1>2, Zenon DEF Stages
    <3> QED
      BY <1>1, <1>10, <1>12, <1>13, <1>14, <3>1, Zenon DEF Stage
  <2> QED
    BY <1>10, <2>1, <2>2, Zenon DEF Stages
<1>16. ReadsOk'
  BY <1>1, <1>2, <1>13, Zenon DEF ReadsOk, Unfetched
<1>17. CommandsOk' /\ HostOk' /\ AdminsOk'
  <2>1. \A c \in CQ \ host.cqs : cq'[c] = cq[c]
    BY <1>1, <1>6
  <2>2. ASSUME NEW c \in CQ PROVE cq'[c].exists = cq[c].exists
    <3>1. CASE c \in host.cqs
      <4>1. cq[c].exists /\ cq'[c].exists
        BY <1>1, <1>2, <1>6, <3>1, Zenon DEF CqsOk, QueuePosts, CqOk
      <4>2. cq[c].exists \in BOOLEAN /\ cq'[c].exists \in BOOLEAN
        BY <1>1, <1>2, <1>5 DEF CompletionQueue
      <4> QED
        BY <4>1, <4>2
    <3>2. CASE c \notin host.cqs
      BY <2>1, <3>2
    <3> QED
      BY <3>1, <3>2
  <2>3. ASSUME NEW j \in Live PROVE Late(j)' <=> Late(j)
    <3>1. j \in Issued
      BY DEF Live
    <3> QED
      BY <1>1, <1>12, <1>14, <3>1, Zenon DEF Late
  <2>4. created' \subseteq created
    BY <1>1
  <2> QED
    BY <1>1, <1>2, <1>13, <1>14, <2>1, <2>2, <2>3, <2>4, RulesKept, Zenon DEF OkDeleteSQ
<1>18. Typed'
  <2>1. aggregationMap' \in [Vectors -> Aggregation]
    <3>1. ASSUME NEW v \in Vectors
          PROVE  /\ s.agg[v] \in Aggregation
                 /\ [s.agg[v] EXCEPT !.running = TRUE, !.count = 0, !.pending = FALSE]
                      \in Aggregation
      <4>1. s.agg[v] \in Aggregation
        BY <1>5
      <4> QED
        BY <4>1 DEF Aggregation
    <3>2. aggregationMap' = [v \in Vectors |->
              IF v \in Due(s.agg)
              THEN [s.agg[v] EXCEPT !.running = TRUE, !.count = 0, !.pending = FALSE]
              ELSE s.agg[v]]
      BY <1>1
    <3> QED
      BY <3>1, <3>2
  <2>2. lCQFIFO' \in Seq(Issued)
    BY <1>1, EmptySeq
  <2>3. cq' \in [CQ -> CompletionQueue] /\ panic' = NoPanic
    BY <1>1, <1>5
  <2> QED
    BY <1>1, <1>2, <1>9, <1>10, <2>1, <2>2, <2>3 DEF Typed
<1> QED
  BY <1>11, <1>13, <1>15, <1>16, <1>17, <1>18, Zenon DEF Inv

-----------------------------------------------------------------------------
(* The ends of DMA writes and of calls of completion(); times that end. *)

\* What a completion queue holds are commands.
LEMMA HeldTag ==
  ASSUME NEW c, NEW queue \in CompletionQueue, NEW r, NEW P \in SUBSET Write, NEW i,
         Held(c, queue, r, P, i)
  PROVE  i \in Tag
<1>1. PICK s \in Slot(CqSize) : Landed(queue, r, s, i) \/ InFlight(c, r, P, s, i)
  BY Zenon DEF Held, Holds
<1> DEFINE e == [id |-> i, phase |-> Expected(r, s)]
<1>2. CASE Landed(queue, r, s, i)
  <2>1. queue.ring[s] \in Entry
    BY DEF CompletionQueue
  <2>2. e \in Entry
    BY <1>2, <2>1, Zenon DEF Landed
  <2>3. e.id \in Tag
    <3> HIDE DEF e
    <3> QED
      BY <2>2 DEF Entry
  <2> QED
    BY <2>3
<1>3. CASE InFlight(c, r, P, s, i)
  <2> DEFINE w == [cq |-> c, slot |-> s, entry |-> e]
  <2>1. w \in Write
    BY <1>3 DEF InFlight
  <2>2. w.entry.id \in Tag
    <3> HIDE DEF w
    <3> QED
      BY <2>1 DEF Write, Entry
  <2> QED
    BY <2>2
<1> QED
  BY <1>1, <1>2, <1>3

LEMMA PostWriteStep ==
  ASSUME Inv, NEW k, PostWrite(k)
  PROVE  Inv'
<1> DEFINE w == Head(posting[k].writes)
           c == w.cq
           P == Pending(posting)
           new == Written(cq[c], w)
<1>1. /\ UNCHANGED <<cmd, sq, host, done, loop, fetching, lSQFIFO, executing, created, lCQFIFO,
                     aggregationMap, status, panic>>
      /\ k \in DOMAIN posting /\ posting[k].writes # <<>>
      /\ posting' = [posting EXCEPT ![k].writes = Tail(@)]
      /\ cq' = [cq EXCEPT ![c] = new]
  BY Zenon DEF PostWrite, loopVars, Written
<1>2. /\ Typed /\ SqsOk /\ CqsOk /\ Stages /\ ReadsOk /\ CommandsOk /\ HostOk /\ AdminsOk
      /\ host \in Host /\ cq \in [CQ -> CompletionQueue] /\ posting \in Seq(Call)
      /\ WritesApart(posting)
  BY Zenon DEF Inv, Typed, CqsOk
<1>3. /\ w \in P /\ posting' \in Seq(Call) /\ WritesApart(posting')
      /\ Pending(posting') = P \ {w}
  BY <1>1, <1>2, WriteEnds
<1> HIDE DEF w
<1>4. w \in Write /\ c \in host.cqs /\ c \in CQ
  BY <1>3, PendingPosted
<1>5. P \in SUBSET Write
  BY DEF Pending
<1> HIDE DEF P
<1>6. \A d \in host.cqs : /\ d \in CQ /\ cq[d] \in CompletionQueue /\ host.reads[d] \in Position
                          /\ CqOk(d, cq[d], host.reads[d], P, OutstandingTo(d))
                          /\ OutstandingTo(d) \subseteq Tag
  <2>1. \A d \in CQ : OutstandingTo(d) \subseteq Tag
    BY <1>2, CommandsTyped
  <2>2. \A d \in host.cqs : CqOk(d, cq[d], host.reads[d], P, OutstandingTo(d))
    BY <1>2, Zenon DEF CqsOk, P
  <2>3. \A d \in host.cqs : /\ d \in CQ /\ cq[d] \in CompletionQueue
                            /\ host.reads[d] \in Position
    BY <1>2 DEF Host
  <2> QED
    BY <2>1, <2>2, <2>3
<1>7. new \in CompletionQueue /\ new.exists = cq[c].exists
  BY <1>4, <1>6, WrittenQueue
<1>8. /\ cq' \in [CQ -> CompletionQueue] /\ cq'[c] = new
      /\ \A d \in CQ : d # c => cq'[d] = cq[d]
  <2> HIDE DEF new
  <2> QED
    BY <1>1, <1>2, <1>4, <1>7
<1>9. ASSUME NEW d \in host.cqs
      PROVE  /\ CqOk(d, cq'[d], host.reads[d], P \ {w}, OutstandingTo(d))
             /\ \A i : Held(d, cq'[d], host.reads[d], P \ {w}, i)
                         <=> Held(d, cq[d], host.reads[d], P, i)
  <2>1. CASE d = c
    <3>1. /\ CqOk(c, new, host.reads[c], P \ {w}, OutstandingTo(c))
          /\ \A i \in Tag : Held(c, new, host.reads[c], P \ {w}, i)
                              <=> Held(c, cq[c], host.reads[c], P, i)
      BY <1>3, <1>4, <1>5, <1>6, LandOne DEF P
    <3>2. \A i : /\ Held(c, new, host.reads[c], P \ {w}, i) => i \in Tag
                 /\ Held(c, cq[c], host.reads[c], P, i) => i \in Tag
      <4>1. P \ {w} \in SUBSET Write
        BY <1>5
      <4> HIDE DEF new
      <4> QED
        BY <1>4, <1>5, <1>6, <1>7, <4>1, HeldTag
    <3> QED
      BY <1>8, <2>1, <3>1, <3>2, Zenon
  <2>2. CASE d # c
    <3>1. \A x : x.cq = d => (x \in P \ {w} <=> x \in P)
      BY <2>2
    <3>2. /\ CqOk(d, cq[d], host.reads[d], P \ {w}, OutstandingTo(d))
          /\ \A i : Held(d, cq[d], host.reads[d], P \ {w}, i)
                      <=> Held(d, cq[d], host.reads[d], P, i)
      BY <1>6, <3>1, CqStays
    <3> QED
      BY <1>6, <1>8, <2>2, <3>2, Zenon
  <2> QED
    BY <2>1, <2>2
<1>10. Live' = Live /\ Issued' = Issued /\ \A d : OutstandingTo(d)' = OutstandingTo(d)
  BY <1>1, Zenon DEF Live, Issued, OutstandingTo, CompletionQueueOf
<1>11. CqsOk' /\ \A i : Posted(i)' <=> Posted(i)
  <2>1. \A d \in CQ : Cardinality(OutstandingTo(d)') <= CqSize - 1
    BY <1>2, <1>10, Zenon DEF CqsOk
  <2>2. \A x \in Pending(posting') : x.cq \in host.cqs
    <3>1. \A x \in P \ {w} : x \in P
      OBVIOUS
    <3> QED
      BY <1>2, <1>3, <3>1, Zenon DEF CqsOk, P
  <2>3. Pending(posting') = P \ {w}
    BY <1>3 DEF P
  <2>4. CqsOk'
    BY <1>1, <1>3, <1>9, <1>10, <2>1, <2>2, <2>3, Zenon DEF CqsOk
  <2>5. \A i : Posted(i)' <=> \E d \in host.cqs : Held(d, cq'[d], host.reads[d], P \ {w}, i)
    BY <1>1, <2>3, Zenon DEF Posted
  <2>6. \A i : Posted(i)' <=> Posted(i)
    BY <1>9, <2>5, Zenon DEF Posted, P
  <2> QED
    BY <2>4, <2>6
<1>12. /\ SqsOk' /\ \A j : (Queued(j)' <=> Queued(j)) /\ (Unread(j)' <=> Unread(j))
       /\ \A q : (Reading(q)' <=> Reading(q)) /\ (Drained(q)' <=> Drained(q))
  BY <1>1, <1>2, SubmissionSideSame, Zenon
<1>13. /\ Stages' /\ \A i : (Exec(i)' <=> Exec(i)) /\ (Late(i)' <=> Late(i))
  BY <1>1, <1>2, <1>11, <1>12, SameStages, Zenon
<1>14. ReadsOk'
  BY <1>1, <1>2, <1>12, Zenon DEF ReadsOk, Unfetched
<1>15. CommandsOk' /\ HostOk' /\ AdminsOk'
  <2>1. \A d \in CQ : cq'[d].exists = cq[d].exists
    BY <1>7, <1>8, Zenon
  <2>2. \A d \in CQ \ host.cqs : cq'[d] = cq[d]
    BY <1>4, <1>8
  <2>3. created' \subseteq created
    BY <1>1
  <2> QED
    BY <1>1, <1>2, <1>12, <1>13, <2>1, <2>2, <2>3, RulesKept, Zenon DEF OkDeleteSQ
<1>16. Typed'
  BY <1>1, <1>2, <1>3, <1>8, <1>10 DEF Typed
<1> QED
  BY <1>11, <1>12, <1>13, <1>14, <1>15, <1>16, Zenon DEF Inv

\* Nothing happens but to what the invariant says nothing about.
LEMMA Unnoticed ==
  ASSUME Inv, UNCHANGED <<cmd, sq, cq, host, done, loop, fetching, lSQFIFO, executing, created,
                          lCQFIFO, status, panic>>,
         posting' \in Seq(Call), WritesApart(posting'), Pending(posting') = Pending(posting),
         aggregationMap' \in [Vectors -> Aggregation]
  PROVE  Inv'
<1>1. /\ Typed /\ SqsOk /\ CqsOk /\ Stages /\ ReadsOk /\ CommandsOk /\ HostOk /\ AdminsOk
      /\ host \in Host
  BY Zenon DEF Inv, Typed
<1>2. Live' = Live /\ Issued' = Issued /\ \A d : OutstandingTo(d)' = OutstandingTo(d)
  BY Zenon DEF Live, Issued, OutstandingTo, CompletionQueueOf
<1>3. CqsOk' /\ \A i : Posted(i)' <=> Posted(i)
  BY <1>1, <1>2, Zenon DEF CqsOk, Posted
<1>4. /\ SqsOk' /\ \A j : (Queued(j)' <=> Queued(j)) /\ (Unread(j)' <=> Unread(j))
      /\ \A q : (Reading(q)' <=> Reading(q)) /\ (Drained(q)' <=> Drained(q))
  BY <1>1, SubmissionSideSame, Zenon
<1>5. /\ Stages' /\ \A i : (Exec(i)' <=> Exec(i)) /\ (Late(i)' <=> Late(i))
  BY <1>1, <1>3, <1>4, SameStages, Zenon
<1>6. ReadsOk'
  BY <1>1, <1>4, Zenon DEF ReadsOk, Unfetched
<1>7. CommandsOk' /\ HostOk' /\ AdminsOk'
  <2>1. created' \subseteq created
    OBVIOUS
  <2> QED
    BY <1>1, <1>4, <1>5, <2>1, RulesKept, Zenon DEF OkDeleteSQ
<1>8. Typed'
  BY <1>1, <1>2 DEF Typed
<1> QED
  BY <1>3, <1>4, <1>5, <1>6, <1>7, <1>8, Zenon DEF Inv

LEMMA SendStep ==
  ASSUME Inv, NEW k, Send(k)
  PROVE  Inv'
<1>1. /\ UNCHANGED <<cmd, sq, cq, host, done, loop, fetching, lSQFIFO, executing, created,
                     lCQFIFO, aggregationMap, status, panic>>
      /\ k \in DOMAIN posting /\ posting[k].writes = <<>> /\ posting' = RemoveAt(posting, k)
  BY Zenon DEF Send, loopVars
<1>2. /\ posting \in Seq(Call) /\ WritesApart(posting)
      /\ aggregationMap \in [Vectors -> Aggregation]
  BY Zenon DEF Inv, Typed, CqsOk
<1>3. /\ posting' \in Seq(Call) /\ WritesApart(posting')
      /\ Pending(posting') = Pending(posting)
  BY <1>1, <1>2, CallEnds
<1>4. aggregationMap' \in [Vectors -> Aggregation]
  BY <1>1, <1>2
<1> QED
  BY <1>1, <1>3, <1>4, Unnoticed, Zenon

LEMMA TimeStep ==
  ASSUME Inv, NEW v \in Vectors, AggregationTimeEnds(v)
  PROVE  Inv'
<1>1. /\ UNCHANGED <<cmd, sq, cq, host, done, loop, fetching, lSQFIFO, executing, created,
                     lCQFIFO, status, panic, posting>>
      /\ aggregationMap' = [aggregationMap EXCEPT ![v].running = FALSE]
  BY Zenon DEF AggregationTimeEnds, loopVars, postVars
<1>2. /\ posting \in Seq(Call) /\ WritesApart(posting)
      /\ aggregationMap \in [Vectors -> Aggregation]
  BY Zenon DEF Inv, Typed, CqsOk
<1>3. aggregationMap' \in [Vectors -> Aggregation]
  <2> DEFINE a == [aggregationMap[v] EXCEPT !.running = FALSE]
  <2>1. a \in Aggregation
    <3>1. aggregationMap[v] \in Aggregation
      BY <1>2
    <3> QED
      BY <3>1 DEF Aggregation
  <2>2. aggregationMap' = [aggregationMap EXCEPT ![v] = a]
    BY <1>1
  <2> HIDE DEF a
  <2> QED
    BY <1>2, <2>1, <2>2
<1>4. posting' \in Seq(Call) /\ WritesApart(posting') /\ Pending(posting') = Pending(posting)
  BY <1>1, <1>2, Zenon
<1> QED
  BY <1>1, <1>3, <1>4, Unnoticed, Zenon

LEMMA NothingHappens ==
  ASSUME Inv, UNCHANGED vars
  PROVE  Inv'
<1>1. UNCHANGED <<cmd, sq, cq, host, done, loop, fetching, lSQFIFO, executing, created,
                  lCQFIFO, status, panic, posting, aggregationMap>>
  BY DEF vars, loopVars, postVars
<1>2. /\ posting \in Seq(Call) /\ WritesApart(posting)
      /\ aggregationMap \in [Vectors -> Aggregation]
  BY Zenon DEF Inv, Typed, CqsOk
<1>3. /\ posting' \in Seq(Call) /\ WritesApart(posting') /\ Pending(posting') = Pending(posting)
      /\ aggregationMap' \in [Vectors -> Aggregation]
  BY <1>1, <1>2, Zenon
<1> QED
  BY <1>1, <1>3, Unnoticed, Zenon

LEMMA ShutdownStep ==
  ASSUME Inv, Shutdown
  PROVE  Inv'
<1>1. /\ UNCHANGED <<cmd, sq, cq, host, done, loop, fetching, lSQFIFO, executing, created,
                     lCQFIFO, panic, posting, aggregationMap>>
      /\ status = "ready" /\ status' = "shutdown"
  BY Zenon DEF Shutdown, loopVars, postVars
<1>2. /\ Typed /\ SqsOk /\ CqsOk /\ Stages /\ ReadsOk /\ CommandsOk /\ HostOk /\ AdminsOk
      /\ host \in Host
  BY Zenon DEF Inv, Typed
<1>3. Live' = Live /\ Issued' = Issued
  BY <1>1, Zenon DEF Live, Issued
<1>4. CqsOk' /\ \A j : Posted(j)' <=> Posted(j)
  BY <1>1, <1>2, CompletionSideSame, Zenon
<1>5. /\ SqsOk' /\ \A j : (Queued(j)' <=> Queued(j)) /\ (Unread(j)' <=> Unread(j))
      /\ \A q : (Reading(q)' <=> Reading(q)) /\ (Drained(q)' <=> Drained(q))
  BY <1>1, <1>2, SubmissionSideSame, Zenon
<1>6. \A j : /\ (Fifo(j)' <=> Fifo(j)) /\ (Exec(j)' <=> Exec(j)) /\ (Finished(j)' <=> Finished(j))
             /\ (Late(j)' <=> Late(j))
  BY <1>1, <1>4, Zenon DEF Fifo, Exec, Finished, Late
<1>7. Stages'
  <2>1. status # "complete"
    BY <1>1
  <2>2. ASSUME NEW j \in Issued PROVE Stage(j)'
    <3>1. Stage(j)
      BY <1>2, Zenon DEF Stages
    <3> QED
      BY <1>3, <1>4, <1>5, <1>6, <2>1, <3>1, Zenon DEF Stage
  <2> QED
    BY <1>1, <1>2, <1>3, <2>2, Zenon DEF Stages
<1>8. ReadsOk'
  BY <1>1, <1>2, <1>5, Zenon DEF ReadsOk, Unfetched
<1>9. CommandsOk' /\ HostOk' /\ AdminsOk'
  <2>1. created' \subseteq created
    BY <1>1
  <2> QED
    BY <1>1, <1>2, <1>5, <1>6, <2>1, RulesKept, Zenon DEF OkDeleteSQ
<1>10. Typed'
  BY <1>1, <1>2, <1>3 DEF Typed
<1> QED
  BY <1>4, <1>5, <1>7, <1>8, <1>9, <1>10, Zenon DEF Inv

-----------------------------------------------------------------------------
(* The host submits a command. *)

\* The x-th command joins those in flight, and nothing else happens to them.
Joins(x, q, op, arg) ==
  /\ UNCHANGED <<cq, done, fetching, lSQFIFO, executing, created, lCQFIFO, posting>>
  /\ q \in host.sqs /\ Live' = Live \cup {x} /\ x \notin Issued /\ Issued' = Issued \cup {x}
  /\ cmd'[x] = [sq |-> q, op |-> op, arg |-> arg]
  /\ \A i \in Issued : cmd'[i] = cmd[i]
  /\ \A p \in SQ : sq'[p].exists = sq[p].exists
  /\ \A p \in SQ : p # q => Outstanding(p)' = Outstanding(p)
  /\ \A p \in SQ : p # q => (Drained(p)' <=> Drained(p))
  /\ \A p \in SQ : Reading(p)' <=> Reading(p)
  /\ \A i : Unread(i)' <=> Unread(i) \/ (q = 0 /\ i = x)
  /\ \A i : (Exec(i)' <=> Exec(i)) /\ (Late(i)' <=> Late(i))
  /\ ~Late(x) /\ ~Exec(x)

LEMMA SubmitKeeps ==
  ASSUME Inv, NEW q \in SQ, NEW op, NEW arg, Submit(q, op, arg),
         [sq |-> q, op |-> op, arg |-> arg] \in Command,
         host' \in Host, host'.sqs \subseteq host.sqs, host'.cqs \subseteq host.cqs,
         host'.reads = host.reads, host'.arbitration = host.arbitration,
         \A c \in host.cqs \ host'.cqs : OutstandingTo(c) = {} /\ c # CqOf[q]
  PROVE  SqsOk' /\ CqsOk' /\ Stages' /\ ReadsOk' /\ Typed' /\ Joins(Len(cmd) + 1, q, op, arg)
<1> DEFINE x == Len(cmd) + 1
           new == [sq |-> q, op |-> op, arg |-> arg]
           more == Pushed(sq[q], x)
           P == Pending(posting)
<1>1. /\ UNCHANGED <<cq, done, loop, fetching, lSQFIFO, executing, created, lCQFIFO, posting,
                     aggregationMap, status, panic>>
      /\ Len(cmd) < MaxCommands /\ q \in host.sqs
      /\ Cardinality(Outstanding(q)) < SqSize - 1
      /\ Cardinality(OutstandingTo(CqOf[q])) < CqSize - 1
      /\ cmd' = Append(cmd, new)
      /\ sq' = [sq EXCEPT ![q].ring[sq[q].tail] = Len(cmd'),
                          ![q].tail = (@ + 1) % SqSize]
  BY Zenon DEF Submit, loopVars, postVars
<1>2. /\ Typed /\ SqsOk /\ CqsOk /\ Stages /\ ReadsOk /\ CommandsOk /\ HostOk /\ AdminsOk
      /\ host \in Host /\ cmd \in Seq(Command) /\ sq \in [SQ -> SubmissionQueue]
      /\ cq \in [CQ -> CompletionQueue] /\ fetching \in Seq(Read) /\ done \subseteq Issued
      /\ lSQFIFO \in Seq(Issued) /\ lCQFIFO \in Seq(Issued)
      /\ executing \subseteq Issued /\ created \subseteq executing
  BY Zenon DEF Inv, Typed
<1>3. /\ MaxCommands \in Nat /\ Len(cmd) \in Nat /\ Issued = 1 .. Len(cmd)
      /\ Issued \subseteq Tag
      /\ \A p : IsFiniteSet(Outstanding(p)) /\ Outstanding(p) \subseteq Live
      /\ \A c : IsFiniteSet(OutstandingTo(c)) /\ OutstandingTo(c) \subseteq Live
      /\ Live \subseteq Issued
  BY <1>2, CommandsTyped
<1>4. x \in Tag /\ x \notin Issued /\ 1 .. x = Issued \cup {x} /\ x <= MaxCommands
  BY <1>1, <1>3 DEF Tag
<1>5. /\ cmd' \in Seq(Command) /\ Len(cmd') = x /\ cmd'[x] = new
      /\ \A i \in Issued : cmd'[i] = cmd[i]
  <2> HIDE DEF new
  <2>1. new \in Command
    BY DEF new
  <2> QED
    BY <1>1, <1>2, <1>3, <2>1, AppendProperties
<1>6. Issued' = Issued \cup {x} /\ Live' = Live \cup {x}
  <2>1. Issued' = 1 .. x
    BY <1>5, LenProperties DEF Issued
  <2>2. x \notin done
    BY <1>2, <1>4
  <2> QED
    BY <1>1, <1>4, <2>1, <2>2 DEF Live
<1>7. /\ \A p : Outstanding(p)' = IF p = q THEN Outstanding(p) \cup {x} ELSE Outstanding(p)
      /\ \A c : OutstandingTo(c)' = IF c = CqOf[q] THEN OutstandingTo(c) \cup {x}
                                                  ELSE OutstandingTo(c)
  <2>1. \A i : i \in Issued' \ done' <=> i \in Issued \ done \/ i = x
    BY <1>6 DEF Live
  <2>2. \A i \in Issued : cmd'[i].sq = cmd[i].sq
    BY <1>5
  <2>3. cmd'[x].sq = q
    BY <1>5
  <2>4. \A p : \A i : i \in Outstanding(p)' <=> i \in Outstanding(p) \/ (i = x /\ p = q)
    BY <1>4, <2>1, <2>2, <2>3 DEF Outstanding
  <2>5. \A c : \A i : i \in OutstandingTo(c)' <=> i \in OutstandingTo(c) \/ (i = x /\ c = CqOf[q])
    BY <1>4, <2>1, <2>2, <2>3 DEF OutstandingTo, CompletionQueueOf
  <2>6. ASSUME NEW p
        PROVE  Outstanding(p)' = IF p = q THEN Outstanding(p) \cup {x} ELSE Outstanding(p)
    <3>1. \A i : i \in Outstanding(p)' <=> i \in Outstanding(p) \/ (i = x /\ p = q)
      BY <2>4
    <3> QED
      BY <3>1
  <2>7. ASSUME NEW c
        PROVE  OutstandingTo(c)' = IF c = CqOf[q] THEN OutstandingTo(c) \cup {x}
                                                  ELSE OutstandingTo(c)
    <3>1. \A i : i \in OutstandingTo(c)' <=> i \in OutstandingTo(c) \/ (i = x /\ c = CqOf[q])
      BY <2>5
    <3> QED
      BY <3>1
  <2> QED
    BY <2>6, <2>7
<1>8. /\ sq' \in [SQ -> SubmissionQueue] /\ sq'[q] = more
      /\ \A p \in SQ : p # q => sq'[p] = sq[p]
      /\ more.exists = sq[q].exists
  <2> DEFINE a == sq[q]
             ring == [a.ring EXCEPT ![a.tail] = x]
             b == [a EXCEPT !.ring = ring]
             tail == (a.tail + 1) % SqSize
  <2>1. a \in SubmissionQueue
    BY <1>2
  <2>2. more \in SubmissionQueue /\ more.exists = a.exists
    BY <1>4, <2>1, PushedQueue
  <2>3. more = [a EXCEPT !.ring = ring, !.tail = tail]
    BY Zenon DEF Pushed
  <2> DEFINE half == [sq EXCEPT ![q] = b]
  <2>4. sq' = [half EXCEPT ![q] = [half[q] EXCEPT !.tail = tail]]
    BY <1>1, <1>5, Zenon
  <2> HIDE DEF b, more, tail
  <2>5. half[q] = b
    BY <1>2
  <2>6. [half[q] EXCEPT !.tail = tail] = more
    BY <2>3, <2>5, Zenon DEF b
  <2> HIDE DEF half
  <2>7. sq' = [half EXCEPT ![q] = more]
    BY <2>4, <2>6, Zenon
  <2>8. half = [sq EXCEPT ![q] = b]
    BY DEF half
  <2>9. sq' = [[sq EXCEPT ![q] = b] EXCEPT ![q] = more]
    BY <2>7, <2>8, Zenon
  <2>10. sq' = [sq EXCEPT ![q] = more]
    BY <1>2, <2>9
  <2> QED
    BY <1>2, <2>2, <2>10
<1> HIDE DEF more, x, new
<1>9. /\ SqOk(q, sq'[q], fetching, Outstanding(q)')
      /\ \A i : WaitsIn(q, sq'[q], fetching, i) <=> WaitsIn(q, sq[q], fetching, i) \/ i = x
      /\ \A i : InRing(sq'[q], Items(sq'[q]), i) <=> InRing(sq[q], Items(sq[q]), i) \/ i = x
  <2>1. sq[q] \in SubmissionQueue /\ SqOk(q, sq[q], fetching, Outstanding(q))
    BY <1>2 DEF SqsOk
  <2>2. x \notin Outstanding(q)
    BY <1>3, <1>4
  <2>3. /\ SqOk(q, more, fetching, Outstanding(q) \cup {x})
        /\ \A i : WaitsIn(q, more, fetching, i) <=> WaitsIn(q, sq[q], fetching, i) \/ i = x
        /\ \A i : InRing(more, Items(more), i) <=> InRing(sq[q], Items(sq[q]), i) \/ i = x
    <3>1. IsFiniteSet(Outstanding(q)) /\ Cardinality(Outstanding(q)) < SqSize - 1 /\ x \in Tag
          /\ fetching \in Seq(Read)
      BY <1>1, <1>2, <1>3, <1>4
    <3> QED
      BY <2>1, <2>2, <3>1, SubmitOne, ZenonT(40) DEF more
  <2> QED
    BY <1>7, <1>8, <2>3
<1>10. SqsOk' /\ \A i : Queued(i)' <=> Queued(i) \/ i = x
  <2>1. \A p \in SQ : p # q => SqOk(p, sq'[p], fetching, Outstanding(p)')
    <3>1. \A p \in SQ : p # q => Outstanding(p)' = Outstanding(p)
      BY <1>7
    <3> QED
      BY <1>2, <1>8, <3>1, Zenon DEF SqsOk
  <2>2. SqsOk'
    BY <1>1, <1>9, <2>1, Zenon DEF SqsOk
  <2>3. \A i : Queued(i)' <=> \E p \in SQ : WaitsIn(p, sq'[p], fetching, i)
    BY <1>1, Zenon DEF Queued
  <2>4. ASSUME NEW i PROVE Queued(i)' <=> Queued(i) \/ i = x
    <3>1. \A p \in SQ : WaitsIn(p, sq'[p], fetching, i) <=>
                          WaitsIn(p, sq[p], fetching, i) \/ (p = q /\ i = x)
      <4> TAKE p \in SQ
      <4>1. CASE p = q
        BY <1>9, <4>1, Zenon
      <4>2. CASE p # q
        BY <1>8, <4>2, Zenon
      <4> QED
        BY <4>1, <4>2
    <3> QED
      BY <2>3, <3>1, Zenon DEF Queued
  <2> QED
    BY <2>2, <2>4
<1>11. \A i : Unread(i)' <=> Unread(i) \/ (q = 0 /\ i = x)
  <2>1. CASE q = 0
    BY <1>9, <2>1, Zenon DEF Unread
  <2>2. CASE q # 0
    <3>1. sq'[0] = sq[0]
      BY <1>8, <2>2, Constants, Zenon
    <3> QED
      BY <2>2, <3>1, Zenon DEF Unread
  <2> QED
    BY <2>1, <2>2
<1>12. P \in SUBSET Write
  BY DEF Pending
<1>13. \A c \in host.cqs : /\ c \in CQ /\ cq[c] \in CompletionQueue
                           /\ CqOk(c, cq[c], host.reads[c], P, OutstandingTo(c))
                           /\ OutstandingTo(c) \subseteq Tag
                           /\ \A i : Held(c, cq[c], host.reads[c], P, i) =>
                                i \in Tag /\ i \in OutstandingTo(c)
  <2> TAKE c \in host.cqs
  <2>1. c \in CQ /\ cq[c] \in CompletionQueue
    BY <1>2 DEF Host
  <2>2. CqOk(c, cq[c], host.reads[c], P, OutstandingTo(c))
    BY <1>2, Zenon DEF CqsOk
  <2>3. OutstandingTo(c) \subseteq Tag
    BY <1>3
  <2> HIDE DEF P
  <2>4. \A i : Held(c, cq[c], host.reads[c], P, i) => i \in Tag
    BY <1>12, <2>1, HeldTag
  <2>5. \A i : Held(c, cq[c], host.reads[c], P, i) => i \in OutstandingTo(c)
    BY <2>2, <2>4, Zenon DEF CqOk, Held
  <2> QED
    BY <2>1, <2>2, <2>3, <2>4, <2>5
<1>14. \A i : Posted(i)' <=> Posted(i)
  <2> TAKE i
  <2>1. Posted(i)' <=> \E c \in host'.cqs : Held(c, cq[c], host.reads[c], P, i)
    BY <1>1, Zenon DEF Posted
  <2>2. ASSUME NEW c \in host.cqs, Held(c, cq[c], host.reads[c], P, i) PROVE c \in host'.cqs
    <3>1. i \in OutstandingTo(c)
      BY <1>13, <2>2, Zenon
    <3> QED
      BY <3>1
  <2>3. \A c \in host'.cqs : c \in host.cqs
    OBVIOUS
  <2> QED
    BY <2>1, <2>2, <2>3, Zenon DEF Posted
<1>15. CqsOk'
  <2>1. ASSUME NEW c \in host'.cqs
        PROVE  CqOk(c, cq[c], host.reads[c], P, OutstandingTo(c)')
    <3>1. c \in host.cqs
      OBVIOUS
    <3>2. /\ c \in CQ /\ CqOk(c, cq[c], host.reads[c], P, OutstandingTo(c))
          /\ OutstandingTo(c) \subseteq Tag
          /\ \A i : Held(c, cq[c], host.reads[c], P, i) => i \in OutstandingTo(c)
      BY <1>13, <3>1, Zenon
    <3> DEFINE U == OutstandingTo(c)'
    <3>3. OutstandingTo(c) \subseteq U /\ U \subseteq Tag
      BY <1>4, <1>7, <3>2
    <3> HIDE DEF U, P
    <3>4. \A i \in Tag : Held(c, cq[c], host.reads[c], P, i) =>
                           (i \in OutstandingTo(c) <=> i \in U)
      BY <3>2, <3>3
    <3>5. \A w : w.cq = c => (w \in P <=> w \in P)
      OBVIOUS
    <3>6. CqOk(c, cq[c], host.reads[c], P, U)
      BY <3>2, <3>3, <3>4, <3>5, CqStays
    <3> QED
      BY <3>6 DEF U
  <2>2. ASSUME NEW c \in CQ PROVE Cardinality(OutstandingTo(c)') <= CqSize - 1
    <3>1. Cardinality(OutstandingTo(c)) <= CqSize - 1
      BY <1>2, Zenon DEF CqsOk
    <3>2. CASE c = CqOf[q]
      <4>1. OutstandingTo(c)' = OutstandingTo(c) \cup {x} /\ x \notin OutstandingTo(c)
        BY <1>3, <1>4, <1>7, <3>2
      <4>2. Cardinality(OutstandingTo(c) \cup {x}) = Cardinality(OutstandingTo(c)) + 1
        BY <1>3, <4>1, FS_AddElement
      <4>3. Cardinality(OutstandingTo(c)) \in Nat
        BY <1>3, FS_CardinalityType
      <4> QED
        BY <1>1, <3>2, <4>1, <4>2, <4>3, Constants
    <3>3. CASE c # CqOf[q]
      BY <1>7, <3>1, <3>3
    <3> QED
      BY <3>2, <3>3
  <2>3. ASSUME NEW w \in P PROVE w.cq \in host'.cqs
    <3>1. w.cq \in host.cqs /\ InFlight(w.cq, host.reads[w.cq], P, w.slot, w.entry.id)
          /\ w \in Write
      BY PendingPosted
    <3>2. w.slot \in Slot(CqSize)
      BY <3>1 DEF Write
    <3>3. Held(w.cq, cq[w.cq], host.reads[w.cq], P, w.entry.id)
      BY <3>1, <3>2, Zenon DEF Held, Holds
    <3>4. w.entry.id \in OutstandingTo(w.cq)
      BY <1>13, <3>1, <3>3, Zenon
    <3> QED
      BY <3>1, <3>4
  <2> QED
    BY <1>1, <1>2, <2>1, <2>2, <2>3, Zenon DEF CqsOk
<1>16. /\ \A i : /\ (Fifo(i)' <=> Fifo(i)) /\ (Exec(i)' <=> Exec(i))
                 /\ (Finished(i)' <=> Finished(i)) /\ (Late(i)' <=> Late(i))
       /\ ~Fifo(x) /\ ~Exec(x) /\ ~Finished(x) /\ ~Posted(x) /\ ~Late(x)
  <2>1. \A i : /\ (Fifo(i)' <=> Fifo(i)) /\ (Exec(i)' <=> Exec(i))
               /\ (Finished(i)' <=> Finished(i)) /\ (Late(i)' <=> Late(i))
    BY <1>1, <1>14, Zenon DEF Fifo, Exec, Finished, Late
  <2>2. ~Fifo(x) /\ ~Finished(x)
    <3>1. \A i : Occurs(i, lSQFIFO) \/ Occurs(i, lCQFIFO) => i \in Issued
      BY <1>2, ElementOfSeq, LenProperties DEF Occurs
    <3> QED
      BY <1>4, <3>1, Zenon DEF Fifo, Finished
  <2>3. ~Exec(x) /\ x \notin created
    BY <1>2, <1>4 DEF Exec
  <2>4. ~Posted(x)
    <3>1. \A c : x \notin OutstandingTo(c)
      BY <1>3, <1>4
    <3> QED
      BY <1>13, <3>1, Zenon DEF Posted
  <2> QED
    BY <2>1, <2>2, <2>3, <2>4, Zenon DEF Late
<1>17. Stages'
  <2>1. ASSUME NEW i \in Issued' PROVE Stage(i)'
    <3>1. CASE i = x
      <4>1. x \in Live'
        BY <1>6
      <4> QED
        BY <1>10, <1>14, <1>16, <3>1, <4>1, Zenon DEF Stage
    <3>2. CASE i # x
      <4>1. i \in Issued
        BY <1>6, <3>2
      <4>2. i \in Live' <=> i \in Live
        BY <1>6, <3>2
      <4>3. Stage(i)
        BY <1>2, <4>1, Zenon DEF Stages
      <4> QED
        BY <1>1, <1>10, <1>14, <1>16, <3>2, <4>2, <4>3, Zenon DEF Stage
    <3> QED
      BY <3>1, <3>2
  <2> QED
    BY <1>1, <1>2, <2>1, Zenon DEF Stages
<1>18. \A p \in SQ : sq'[p].exists = sq[p].exists
  BY <1>8, Zenon
<1>19. /\ \A p \in SQ : p # q => (Drained(p)' <=> Drained(p))
       /\ \A p : (Reading(p)' <=> Reading(p)) /\ (Unfetched(p)' <=> Unfetched(p))
  BY <1>1, <1>8, Zenon DEF Drained, Reading, Unfetched
<1>20. ReadsOk'
  <2>1. sq[q].exists
    BY <1>1, <1>2, Zenon DEF HostOk
  <2> QED
    BY <1>1, <1>2, <1>18, <1>19, <2>1, Zenon DEF ReadsOk
<1>21. Typed'
  <2>1. Issued \subseteq Issued'
    BY <1>6
  <2>2. lSQFIFO \in Seq(Issued') /\ lCQFIFO \in Seq(Issued')
    <3>1. \A i \in DOMAIN lSQFIFO : lSQFIFO[i] \in Issued'
      BY <1>2, <2>1, ElementOfSeq, LenProperties
    <3>2. \A i \in DOMAIN lCQFIFO : lCQFIFO[i] \in Issued'
      BY <1>2, <2>1, ElementOfSeq, LenProperties
    <3>3. \A S, T : \A s \in Seq(S) : (\A i \in DOMAIN s : s[i] \in T) => s \in Seq(T)
      OBVIOUS
    <3> QED
      BY <1>2, <3>1, <3>2, <3>3
  <2>3. done \subseteq Issued' /\ executing \subseteq Issued' /\ created \subseteq executing
    BY <1>2, <2>1
  <2>4. Len(cmd') <= MaxCommands
    BY <1>4, <1>5
  <2> QED
    BY <1>1, <1>2, <1>5, <1>8, <2>2, <2>3, <2>4, Zenon DEF Typed
<1>22. \A p \in SQ : p # q => Outstanding(p)' = Outstanding(p)
  BY <1>7
<1>23. Joins(x, q, op, arg)
  BY <1>1, <1>4, <1>5, <1>6, <1>11, <1>16, <1>18, <1>19, <1>22, Zenon DEF Joins, new
<1> QED
  BY <1>10, <1>15, <1>17, <1>20, <1>21, <1>23, Zenon DEF x

LEMMA SubmitIoStep ==
  ASSUME Inv, NEW q \in SQ, SubmitIO(q)
  PROVE  Inv'
<1> DEFINE x == Len(cmd) + 1
           new == [sq |-> q, op |-> "io", arg |-> 0]
<1>1. q # 0 /\ Submit(q, "io", 0) /\ host' = host
  BY DEF SubmitIO
<1>2. /\ Typed /\ CommandsOk /\ HostOk /\ AdminsOk /\ host \in Host /\ created \subseteq Issued
  BY DEF Inv, Typed
<1>3. new \in Command
  BY Constants DEF Command, Operations
<1>4. \A c \in host.cqs \ host'.cqs : OutstandingTo(c) = {} /\ c # CqOf[q]
  BY <1>1
<1>5. /\ host' \in Host /\ host'.sqs \subseteq host.sqs /\ host'.cqs \subseteq host.cqs
      /\ host'.reads = host.reads /\ host'.arbitration = host.arbitration
  BY <1>1, <1>2
<1>6. SqsOk' /\ CqsOk' /\ Stages' /\ ReadsOk' /\ Typed' /\ Joins(x, q, "io", 0)
  BY <1>1, <1>3, <1>4, <1>5, SubmitKeeps, Zenon
<1> HIDE DEF x
<1>7. /\ UNCHANGED <<cq, done, fetching, lSQFIFO, executing, created, lCQFIFO, posting>>
      /\ q \in host.sqs /\ Live' = Live \cup {x} /\ x \notin Issued /\ Issued' = Issued \cup {x}
      /\ cmd'[x] = new
      /\ \A i \in Issued : cmd'[i] = cmd[i]
      /\ \A p \in SQ : sq'[p].exists = sq[p].exists
      /\ \A p \in SQ : p # q => Outstanding(p)' = Outstanding(p)
      /\ \A p \in SQ : p # q => (Drained(p)' <=> Drained(p))
      /\ \A p \in SQ : Reading(p)' <=> Reading(p)
      /\ \A i : Unread(i)' <=> Unread(i) \/ (q = 0 /\ i = x)
      /\ \A i : (Exec(i)' <=> Exec(i)) /\ (Late(i)' <=> Late(i))
  BY <1>6, Zenon DEF Joins
<1>8. cmd'[x].sq = q /\ cmd'[x].op = "io"
  BY <1>7
<1>9. \A i : (i \in Live' <=> i \in Live \/ i = x) /\ (i \in Issued' <=> i \in Issued \/ i = x)
      /\ (i \in Live => i \in Issued) /\ (i \in created => i \in Issued)
  BY <1>2, <1>7 DEF Live
<1>10. CommandsOk'
  <2>1. \A i \in Issued' : cmd'[i].sq = 0 <=> cmd'[i].op # "io"
    <3>1. \A i \in Issued : cmd'[i].sq = 0 <=> cmd'[i].op # "io"
      BY <1>2, <1>7, Zenon DEF CommandsOk
    <3> QED
      BY <1>1, <1>8, <1>9, <3>1, Zenon
  <2>2. \A i \in created' : cmd'[i].op \in {"create SQ", "create CQ"}
    <3>1. \A i \in created : cmd[i].op \in {"create SQ", "create CQ"}
      BY <1>2, Zenon DEF CommandsOk
    <3> QED
      BY <1>7, <1>9, <3>1
  <2>3. \A i \in Live' : CqOf[cmd'[i].sq] \in host'.cqs
    <3>1. \A i \in Live : CqOf[cmd'[i].sq] \in host'.cqs
      BY <1>1, <1>2, <1>7, <1>9, Zenon DEF CommandsOk
    <3>2. CqOf[cmd'[x].sq] \in host'.cqs
      BY <1>1, <1>2, <1>7, <1>8, Zenon DEF HostOk
    <3> QED
      BY <1>9, <3>1, <3>2, Zenon
  <2>4. \A i, j \in Live' : cmd'[i].sq = 0 /\ cmd'[j].sq = 0 => i = j
    <3>1. \A i \in Live' : cmd'[i].sq = 0 => i \in Live /\ cmd[i].sq = 0
      BY <1>1, <1>7, <1>8, <1>9, Zenon
    <3> QED
      BY <1>2, <3>1, Zenon DEF CommandsOk
  <2> QED
    BY <2>1, <2>2, <2>3, <2>4, Zenon DEF CommandsOk
<1>11. HostOk'
  <2>1. \A p \in host.sqs : p \in SQ
    BY <1>2 DEF Host
  <2>2. \A p \in host'.sqs : sq'[p].exists /\ CqOf[p] \in host'.cqs
    BY <1>1, <1>2, <1>7, <2>1, Zenon DEF HostOk
  <2>3. ASSUME NEW p \in SQ \ host'.sqs, sq'[p].exists
        PROVE  \E i \in Live' : cmd'[i].op \in {"delete SQ", "create SQ"} /\ cmd'[i].arg = p
    <3>1. PICK i \in Live : cmd[i].op \in {"delete SQ", "create SQ"} /\ cmd[i].arg = p
      BY <1>1, <1>2, <1>7, <2>3, Zenon DEF HostOk
    <3> QED
      BY <1>7, <1>9, <3>1, Zenon
  <2>4. ASSUME NEW c \in CQ \ host'.cqs, cq'[c].exists
        PROVE  \E i \in Live' : cmd'[i].op \in {"delete CQ", "create CQ"} /\ cmd'[i].arg = c
    <3>1. PICK i \in Live : cmd[i].op \in {"delete CQ", "create CQ"} /\ cmd[i].arg = c
      BY <1>1, <1>2, <1>7, <2>4, Zenon DEF HostOk
    <3> QED
      BY <1>7, <1>9, <3>1, Zenon
  <2> QED
    BY <1>1, <1>2, <2>2, <2>3, <2>4, Zenon DEF HostOk
<1>12. AdminsOk'
  <2> SUFFICES ASSUME NEW i \in Live', cmd'[i].sq = 0 PROVE OkAdmin(i)'
    BY Zenon DEF AdminsOk
  <2> DEFINE a == cmd[i].arg
  <2>1. i \in Live /\ i \in Issued /\ cmd'[i] = cmd[i] /\ i # x
    BY <1>1, <1>7, <1>8, <1>9, Zenon
  <2>2. OkAdmin(i)
    BY <1>2, <2>1, Zenon DEF AdminsOk
  <2>3. cmd[i].op = "delete SQ" => OkDeleteSQ(i, a)'
    <3>1. ASSUME OkDeleteSQ(i, a) PROVE OkDeleteSQ(i, a)'
      <4>1. a \in SQ /\ a # q
        BY <1>7, <3>1 DEF OkDeleteSQ
      <4> QED
        BY <1>1, <1>7, <2>1, <3>1, <4>1, Zenon DEF OkDeleteSQ
    <3> QED
      BY <2>2, <3>1, Zenon DEF OkAdmin
  <2>4. cmd[i].op = "create SQ" => OkCreateSQ(i, a)'
    <3>1. ASSUME OkCreateSQ(i, a) PROVE OkCreateSQ(i, a)'
      <4>1. a \in SQ /\ a # q
        BY <1>7, <3>1 DEF OkCreateSQ
      <4> QED
        BY <1>1, <1>7, <2>1, <3>1, <4>1, Zenon DEF OkCreateSQ
    <3> QED
      BY <2>2, <3>1, Zenon DEF OkAdmin
  <2>5. cmd[i].op = "delete CQ" => OkDeleteCQ(i, a)'
    BY <1>1, <1>7, <2>1, <2>2, Zenon DEF OkAdmin, OkDeleteCQ
  <2>6. cmd[i].op = "create CQ" => OkCreateCQ(i, a)'
    BY <1>1, <1>7, <2>1, <2>2, Zenon DEF OkAdmin, OkCreateCQ
  <2>7. cmd[i].op = "abort" =>
          a \in Issued' /\ cmd'[a].sq \in host'.sqs /\ cmd'[a].sq # 0
    BY <1>1, <1>7, <1>9, <2>2, Zenon DEF OkAdmin
  <2> QED
    BY <2>1, <2>2, <2>3, <2>4, <2>5, <2>6, <2>7, Zenon DEF OkAdmin
<1> QED
  BY <1>6, <1>10, <1>11, <1>12, Zenon DEF Inv

\* What the host may ask for.
LEMMA HostAsksWhat ==
  ASSUME NEW op, NEW arg \in HostAsks(op), op \in AdminOps \ {"shutdown"}
  PROVE  \/ op = "delete SQ" /\ arg \in host.sqs \ {0}
         \/ op = "create SQ" /\ arg \in SQ \ host.sqs /\ CqOf[arg] \in host.cqs
                             /\ Outstanding(arg) = {}
         \/ op = "delete CQ" /\ arg \in host.cqs \ {0} /\ (\A q \in host.sqs : CqOf[q] # arg)
                             /\ (HostDrains => OutstandingTo(arg) = {})
         \/ op = "create CQ" /\ arg \in CQ \ host.cqs
         \/ op = "abort" /\ arg \in Issued \ done /\ cmd[arg].sq \in host.sqs \ {0}
         \/ op = "coalesce" /\ \E c \in host.cqs \ {0} : arg = Vector[c]
<1>1. op \in {"delete SQ", "create SQ", "delete CQ", "create CQ", "abort", "coalesce"}
  BY ControllerAssumption DEF ControllerAssumption
<1>2. CASE op = "delete SQ"
  BY <1>2 DEF HostAsks
<1>3. CASE op = "create SQ"
  BY <1>3 DEF HostAsks
<1>4. CASE op = "delete CQ"
  BY <1>4 DEF HostAsks
<1>5. CASE op = "create CQ"
  BY <1>5 DEF HostAsks
<1>6. CASE op = "abort"
  BY <1>6 DEF HostAsks
<1>7. CASE op = "coalesce"
  BY <1>7 DEF HostAsks
<1> QED
  BY <1>1, <1>2, <1>3, <1>4, <1>5, <1>6, <1>7

LEMMA SubmitAdminStep ==
  ASSUME Inv, HostDrains, NEW op \in AdminOps \ {"shutdown"}, SubmitAdmin(op)
  PROVE  Inv'
<1>1. PICK x : x = Len(cmd) + 1
  OBVIOUS
<1>2. PICK arg \in HostAsks(op) :
        /\ Submit(0, op, arg)
        /\ host' = CASE op = "delete SQ" -> [host EXCEPT !.sqs = @ \ {arg}]
                     [] op = "delete CQ" -> [host EXCEPT !.cqs = @ \ {arg}]
                     [] op \notin {"delete SQ", "delete CQ"} -> host
  BY Zenon DEF SubmitAdmin
<1> DEFINE new == [sq |-> 0, op |-> op, arg |-> arg]
<1>3. /\ Typed /\ CqsOk /\ CommandsOk /\ HostOk /\ AdminsOk /\ host \in Host /\ created \subseteq Issued
      /\ Outstanding(0) = {} /\ Issued \subseteq Id
  BY CommandsTyped DEF Inv, Typed, SubmitAdmin
<1>4. \/ op = "delete SQ" /\ arg \in host.sqs \ {0}
      \/ op = "create SQ" /\ arg \in SQ \ host.sqs /\ CqOf[arg] \in host.cqs
                          /\ Outstanding(arg) = {}
      \/ op = "delete CQ" /\ arg \in host.cqs \ {0} /\ (\A q \in host.sqs : CqOf[q] # arg)
                          /\ OutstandingTo(arg) = {}
      \/ op = "create CQ" /\ arg \in CQ \ host.cqs
      \/ op = "abort" /\ arg \in Issued \ done /\ cmd[arg].sq \in host.sqs \ {0}
      \/ op = "coalesce" /\ \E c \in host.cqs \ {0} : arg = Vector[c]
  BY HostAsksWhat
<1>5. /\ host.sqs \subseteq SQ /\ host.cqs \subseteq CQ /\ op # "io" /\ op \in Operations
      /\ host = [sqs |-> host.sqs, cqs |-> host.cqs, arbitration |-> host.arbitration,
                 reads |-> host.reads]
      /\ host.arbitration \in Arbitration /\ host.reads \in [CQ -> Position]
  BY <1>3, <1>4 DEF Host, Operations
<1>6. new \in Command
  <2>1. arg \in SQ \cup CQ \cup Id \cup Vectors
    BY <1>3, <1>4, <1>5 DEF Vectors
  <2> QED
    BY <1>5, <2>1, Constants DEF Command
<1>7. /\ op = "delete SQ" => host'.sqs = host.sqs \ {arg} /\ host'.cqs = host.cqs
      /\ op = "delete CQ" => host'.cqs = host.cqs \ {arg} /\ host'.sqs = host.sqs
      /\ op \notin {"delete SQ", "delete CQ"} => host'.sqs = host.sqs /\ host'.cqs = host.cqs
      /\ host'.reads = host.reads /\ host'.arbitration = host.arbitration
      /\ host' \in Host
  <2>1. CASE op = "delete SQ"
    <3>1. host' = [host EXCEPT !.sqs = @ \ {arg}]
      BY <1>2, <2>1
    <3>2. host' = [sqs |-> host.sqs \ {arg}, cqs |-> host.cqs,
                   arbitration |-> host.arbitration, reads |-> host.reads]
      BY <1>5, <3>1
    <3> QED
      BY <1>5, <2>1, <3>2 DEF Host
  <2>2. CASE op = "delete CQ"
    <3>1. host' = [host EXCEPT !.cqs = @ \ {arg}]
      BY <1>2, <2>2
    <3>2. host' = [sqs |-> host.sqs, cqs |-> host.cqs \ {arg},
                   arbitration |-> host.arbitration, reads |-> host.reads]
      BY <1>5, <3>1
    <3> QED
      BY <1>5, <2>2, <3>2 DEF Host
  <2>3. CASE op \notin {"delete SQ", "delete CQ"}
    <3>1. host' = host
      BY <1>2, <2>3
    <3> QED
      BY <1>3, <2>3, <3>1
  <2> QED
    BY <2>1, <2>2, <2>3
<1>8. host'.sqs \subseteq host.sqs /\ host'.cqs \subseteq host.cqs
  BY <1>7
<1>9. ASSUME NEW c \in host.cqs \ host'.cqs
      PROVE  OutstandingTo(c) = {} /\ (\A q \in host.sqs : CqOf[q] # c) /\ c = arg
             /\ op = "delete CQ" /\ c # CqOf[0]
  <2>1. op = "delete CQ" /\ c = arg
    BY <1>7
  <2>2. CqOf[0] = 0
    BY Constants
  <2> QED
    BY <1>4, <2>1, <2>2
<1>10. SqsOk' /\ CqsOk' /\ Stages' /\ ReadsOk' /\ Typed' /\ Joins(x, 0, op, arg)
  <2>1. 0 \in SQ
    BY Constants
  <2>2. \A c \in host.cqs \ host'.cqs : OutstandingTo(c) = {} /\ c # CqOf[0]
    BY <1>9
  <2> QED
    BY <1>1, <1>2, <1>6, <1>7, <1>8, <2>1, <2>2, SubmitKeeps, Zenon
<1>11. /\ UNCHANGED <<cq, done, fetching, lSQFIFO, executing, created, lCQFIFO, posting>>
       /\ 0 \in host.sqs /\ Live' = Live \cup {x} /\ x \notin Issued /\ Issued' = Issued \cup {x}
       /\ cmd'[x] = new
       /\ \A i \in Issued : cmd'[i] = cmd[i]
       /\ \A p \in SQ : sq'[p].exists = sq[p].exists
       /\ \A p \in SQ : p # 0 => Outstanding(p)' = Outstanding(p)
       /\ \A p \in SQ : p # 0 => (Drained(p)' <=> Drained(p))
       /\ \A p \in SQ : Reading(p)' <=> Reading(p)
       /\ \A i : Unread(i)' <=> Unread(i) \/ i = x
       /\ \A i : (Exec(i)' <=> Exec(i)) /\ (Late(i)' <=> Late(i))
       /\ ~Late(x) /\ ~Exec(x)
  BY <1>10, Zenon DEF Joins
<1>12. cmd'[x].sq = 0 /\ cmd'[x].op = op /\ cmd'[x].arg = arg
  BY <1>11
<1>13. \A i : (i \in Live' <=> i \in Live \/ i = x) /\ (i \in Issued' <=> i \in Issued \/ i = x)
       /\ (i \in Live => i \in Issued /\ i # x) /\ (i \in created => i \in Issued)
  BY <1>3, <1>11 DEF Live
<1>14. \A i \in Live : cmd[i].sq # 0 /\ cmd[i].op = "io"
  <2> TAKE i \in Live
  <2>1. cmd[i].sq # 0
    BY <1>3 DEF Outstanding, Live
  <2> QED
    BY <1>3, <1>13, <2>1, Zenon DEF CommandsOk
<1>15. CommandsOk'
  <2>1. \A i \in Issued' : cmd'[i].sq = 0 <=> cmd'[i].op # "io"
    <3>1. \A i \in Issued : cmd'[i].sq = 0 <=> cmd'[i].op # "io"
      BY <1>3, <1>11, Zenon DEF CommandsOk
    <3> QED
      BY <1>5, <1>12, <1>13, <3>1, Zenon
  <2>2. \A i \in created' : cmd'[i].op \in {"create SQ", "create CQ"}
    <3>1. \A i \in created : cmd[i].op \in {"create SQ", "create CQ"}
      BY <1>3, Zenon DEF CommandsOk
    <3> QED
      BY <1>11, <1>13, <3>1
  <2>3. \A i \in Live' : CqOf[cmd'[i].sq] \in host'.cqs
    <3>1. ASSUME NEW i \in Live PROVE CqOf[cmd'[i].sq] \in host'.cqs
      <4>1. i \in Issued /\ cmd'[i] = cmd[i] /\ CqOf[cmd[i].sq] \in host.cqs
        BY <1>3, <1>11, <1>13, Zenon DEF CommandsOk
      <4>2. i \in OutstandingTo(CqOf[cmd[i].sq])
        BY <4>1 DEF OutstandingTo, CompletionQueueOf, Live
      <4> QED
        BY <1>9, <4>1, <4>2
    <3>2. CqOf[cmd'[x].sq] \in host'.cqs
      <4>1. CqOf[0] \in host.cqs
        BY <1>3, <1>11, Zenon DEF HostOk
      <4> QED
        BY <1>9, <1>12, <4>1
    <3> QED
      BY <1>13, <3>1, <3>2, Zenon
  <2>4. \A i, j \in Live' : cmd'[i].sq = 0 /\ cmd'[j].sq = 0 => i = j
    <3>1. \A i \in Live' : cmd'[i].sq = 0 => i = x
      BY <1>11, <1>13, <1>14, Zenon
    <3> QED
      BY <3>1, Zenon
  <2> QED
    BY <2>1, <2>2, <2>3, <2>4, Zenon DEF CommandsOk
<1>16. \A p \in SQ \ host.sqs : ~sq[p].exists
  <2> SUFFICES ASSUME NEW p \in SQ \ host.sqs, sq[p].exists PROVE FALSE
    OBVIOUS
  <2>1. PICK i \in Live : cmd[i].op \in {"delete SQ", "create SQ"}
    BY <1>3, Zenon DEF HostOk
  <2>2. cmd[i].op # "io"
    BY <2>1
  <2> QED
    BY <1>14, <2>2, Zenon
<1>17. \A c \in CQ \ host.cqs : ~cq[c].exists
  <2> SUFFICES ASSUME NEW c \in CQ \ host.cqs, cq[c].exists PROVE FALSE
    OBVIOUS
  <2>1. PICK i \in Live : cmd[i].op \in {"delete CQ", "create CQ"}
    BY <1>3, Zenon DEF HostOk
  <2>2. cmd[i].op # "io"
    BY <2>1
  <2> QED
    BY <1>14, <2>2, Zenon
<1>18. HostOk'
  <2>1. 0 \in host'.sqs
    BY <1>4, <1>7, <1>11
  <2>2. ASSUME NEW p \in host'.sqs PROVE sq'[p].exists /\ CqOf[p] \in host'.cqs
    <3>1. p \in host.sqs /\ p \in SQ
      BY <1>5, <1>8
    <3>2. sq[p].exists /\ CqOf[p] \in host.cqs
      BY <1>3, <3>1, Zenon DEF HostOk
    <3>3. CqOf[p] \in host'.cqs
      BY <1>9, <3>1, <3>2
    <3>4. sq'[p].exists = sq[p].exists
      BY <1>11, <3>1, Zenon
    <3> QED
      BY <3>2, <3>3, <3>4, Zenon
  <2>3. ASSUME NEW p \in SQ \ host'.sqs, sq'[p].exists
        PROVE  \E i \in Live' : cmd'[i].op \in {"delete SQ", "create SQ"} /\ cmd'[i].arg = p
    <3>1. sq[p].exists
      <4>1. sq'[p].exists = sq[p].exists
        BY <1>11, Zenon
      <4> QED
        BY <2>3, <4>1, Zenon
    <3>2. p \in host.sqs
      BY <1>16, <3>1
    <3>3. op = "delete SQ" /\ p = arg
      BY <1>7, <3>2
    <3>4. x \in Live' /\ cmd'[x].op \in {"delete SQ", "create SQ"} /\ cmd'[x].arg = p
      BY <1>12, <1>13, <3>3
    <3> QED
      BY <3>4
  <2>4. ASSUME NEW c \in CQ \ host'.cqs, cq'[c].exists
        PROVE  \E i \in Live' : cmd'[i].op \in {"delete CQ", "create CQ"} /\ cmd'[i].arg = c
    <3>1. cq[c].exists
      BY <1>11, <2>4, Zenon
    <3>2. c \in host.cqs
      BY <1>17, <3>1
    <3>3. op = "delete CQ" /\ c = arg
      BY <1>9, <3>2
    <3>4. x \in Live' /\ cmd'[x].op \in {"delete CQ", "create CQ"} /\ cmd'[x].arg = c
      BY <1>12, <1>13, <3>3
    <3> QED
      BY <3>4
  <2> QED
    BY <2>1, <2>2, <2>3, <2>4, Zenon DEF HostOk
<1>19. AdminsOk'
  <2> SUFFICES ASSUME NEW i \in Live', cmd'[i].sq = 0 PROVE OkAdmin(i)'
    BY Zenon DEF AdminsOk
  <2>1. i = x
    BY <1>11, <1>13, <1>14, Zenon
  <2>2. op = "delete SQ" => OkDeleteSQ(x, arg)'
    <3> SUFFICES ASSUME op = "delete SQ" PROVE OkDeleteSQ(x, arg)'
      OBVIOUS
    <3>1. arg \in host.sqs /\ arg # 0 /\ arg \in SQ \ host'.sqs
      BY <1>4, <1>5, <1>7
    <3>2. sq[arg].exists
      BY <1>3, <3>1, Zenon DEF HostOk
    <3>3. sq'[arg].exists
      BY <1>11, <3>1, <3>2, Zenon
    <3>4. Unread(x)' /\ ~Late(x)' /\ ~Exec(x)'
      BY <1>11, Zenon
    <3> QED
      BY <3>1, <3>3, <3>4, Zenon DEF OkDeleteSQ
  <2>3. op = "create SQ" => OkCreateSQ(x, arg)'
    <3> SUFFICES ASSUME op = "create SQ" PROVE OkCreateSQ(x, arg)'
      OBVIOUS
    <3>1. /\ arg \in SQ \ host.sqs /\ CqOf[arg] \in host.cqs /\ Outstanding(arg) = {}
          /\ host'.sqs = host.sqs /\ host'.cqs = host.cqs
      BY <1>4, <1>7
    <3>2. arg # 0
      BY <1>11, <3>1
    <3>3. ~sq'[arg].exists
      <4>1. arg \in SQ /\ ~sq[arg].exists
        BY <1>16, <3>1
      <4>2. sq'[arg].exists = sq[arg].exists
        BY <1>11, <4>1, Zenon
      <4> QED
        BY <4>1, <4>2, Zenon
    <3>4. Outstanding(arg)' = {}
      BY <1>11, <3>1, <3>2
    <3> QED
      BY <1>11, <3>1, <3>3, <3>4, Zenon DEF OkCreateSQ
  <2>4. op = "delete CQ" => OkDeleteCQ(x, arg)'
    <3> SUFFICES ASSUME op = "delete CQ" PROVE OkDeleteCQ(x, arg)'
      OBVIOUS
    <3>1. arg \in host.cqs /\ arg # 0 /\ arg \in CQ \ host'.cqs
      BY <1>4, <1>5, <1>7
    <3>2. cq[arg].exists
      BY <1>3, <3>1, Zenon DEF CqsOk, CqOk
    <3> QED
      BY <1>11, <3>1, <3>2, Zenon DEF OkDeleteCQ
  <2>5. op = "create CQ" => OkCreateCQ(x, arg)'
    <3> SUFFICES ASSUME op = "create CQ" PROVE OkCreateCQ(x, arg)'
      OBVIOUS
    <3>1. arg \in CQ \ host.cqs /\ host'.cqs = host.cqs
      BY <1>4, <1>7
    <3>2. ~cq[arg].exists
      BY <1>17, <3>1
    <3> QED
      BY <1>11, <3>1, <3>2, Zenon DEF OkCreateCQ
  <2>6. op = "abort" =>
          arg \in Issued' /\ cmd'[arg].sq \in host'.sqs /\ cmd'[arg].sq # 0
    <3> SUFFICES ASSUME op = "abort"
                 PROVE  arg \in Issued' /\ cmd'[arg].sq \in host'.sqs /\ cmd'[arg].sq # 0
      OBVIOUS
    <3>1. arg \in Issued /\ cmd[arg].sq \in host.sqs \ {0} /\ host'.sqs = host.sqs
      BY <1>4, <1>7
    <3> QED
      BY <1>11, <1>13, <3>1
  <2>7. op = "coalesce" => arg \in Vectors
    BY <1>4, <1>5 DEF Vectors
  <2>8. OkAdmin(x)'
    BY <1>12, <2>2, <2>3, <2>4, <2>5, <2>6, <2>7, Zenon DEF OkAdmin
  <2> QED
    BY <2>1, <2>8, Zenon
<1> QED
  BY <1>10, <1>15, <1>18, <1>19, Zenon DEF Inv

-----------------------------------------------------------------------------
(* The host reads a completion. *)

LEMMA ConsumeStep ==
  ASSUME Inv, NEW c \in CQ, HostConsume(c)
  PROVE  Inv'
<1> DEFINE P == Pending(posting)
           r == host.reads[c]
           next == NextRead(r)
           reads == [host.reads EXCEPT ![c] = NextRead(@)]
           new == Freed(cq[c], next.slot)
<1>1. PICK x : x = cq[c].ring[r.slot].id
  OBVIOUS
<1>2. PICK a : a = cmd[x].arg
  OBVIOUS
<1>3. /\ UNCHANGED <<cmd, sq, loop, fetching, lSQFIFO, executing, created, lCQFIFO, posting,
                     aggregationMap, status, panic>>
      /\ c \in host.cqs /\ cq[c].ring[r.slot].phase = r.phase
      /\ done' = done \cup {x}
      /\ host' = CASE cmd[x].op = "create SQ" ->
                        [host EXCEPT !.reads = reads, !.sqs = @ \cup {a}]
                   [] cmd[x].op = "create CQ" ->
                        [host EXCEPT !.reads = [reads EXCEPT ![a] = FirstRead],
                                     !.cqs = @ \cup {a}]
                   [] cmd[x].op \notin {"create SQ", "create CQ"} ->
                        [host EXCEPT !.reads = reads]
      /\ cq' = [cq EXCEPT ![c].head = reads[c].slot]
  BY <1>1, <1>2, Zenon DEF HostConsume, loopVars, ringCQHeadDoorbell
<1>4. /\ Typed /\ SqsOk /\ CqsOk /\ Stages /\ ReadsOk /\ CommandsOk /\ HostOk /\ AdminsOk
      /\ host \in Host /\ cq \in [CQ -> CompletionQueue] /\ sq \in [SQ -> SubmissionQueue]
      /\ done \subseteq Issued
  BY Zenon DEF Inv, Typed
<1>5. /\ host.sqs \subseteq SQ /\ host.cqs \subseteq CQ
      /\ host = [sqs |-> host.sqs, cqs |-> host.cqs, arbitration |-> host.arbitration,
                 reads |-> host.reads]
      /\ host.arbitration \in Arbitration /\ host.reads \in [CQ -> Position]
  BY <1>4 DEF Host
<1>6. /\ Issued \subseteq Tag /\ Live \subseteq Issued
      /\ \A q : IsFiniteSet(OutstandingTo(q)) /\ OutstandingTo(q) \subseteq Live
      /\ \A q : Outstanding(q) \subseteq Live
  BY <1>4, CommandsTyped
<1>7. P \in SUBSET Write
  BY DEF Pending
<1> HIDE DEF P
<1>8. \A d \in host.cqs : /\ d \in CQ /\ cq[d] \in CompletionQueue /\ host.reads[d] \in Position
                          /\ CqOk(d, cq[d], host.reads[d], P, OutstandingTo(d))
                          /\ OutstandingTo(d) \subseteq Tag
  <2>1. \A d \in host.cqs : CqOk(d, cq[d], host.reads[d], P, OutstandingTo(d))
    BY <1>4, Zenon DEF CqsOk, P
  <2>2. \A d : OutstandingTo(d) \subseteq Tag
    BY <1>6
  <2>3. \A d \in host.cqs : d \in CQ /\ cq[d] \in CompletionQueue /\ host.reads[d] \in Position
    BY <1>4, <1>5
  <2> QED
    BY <2>1, <2>2, <2>3
<1>9. /\ x \in OutstandingTo(c) /\ Held(c, cq[c], r, P, x)
      /\ CqOk(c, new, next, P, OutstandingTo(c) \ {x})
      /\ \A i \in Tag : Held(c, new, next, P, i) <=> Held(c, cq[c], r, P, i) /\ i # x
  BY <1>1, <1>3, <1>7, <1>8, ConsumeOne
<1>10. next \in Position /\ next.slot \in Slot(CqSize)
  <2>1. next \in Position
    BY <1>5, NextPosition
  <2> HIDE DEF next
  <2> QED
    BY <2>1 DEF Position
<1>11. reads \in [CQ -> Position] /\ reads[c] = next /\ \A d \in CQ : d # c => reads[d] = host.reads[d]
  <2> HIDE DEF next
  <2>1. reads = [host.reads EXCEPT ![c] = next]
    BY DEF next
  <2> HIDE DEF reads
  <2> QED
    BY <1>5, <1>10, <2>1
<1>12. new \in CompletionQueue /\ new.exists = cq[c].exists
  BY <1>3, <1>8, <1>10, FreedQueue
<1>13. /\ cq' \in [CQ -> CompletionQueue] /\ cq'[c] = new
       /\ \A d \in CQ : d # c => cq'[d] = cq[d]
  <2>1. cq' = [cq EXCEPT ![c] = new]
    <3> HIDE DEF reads
    <3> QED
      BY <1>3, <1>11, Zenon DEF Freed
  <2> HIDE DEF new
  <2> QED
    BY <1>4, <1>12, <2>1
<1> HIDE DEF reads, next, r, new
<1>14. /\ x \in Live /\ x \in Issued /\ x \in Tag /\ Posted(x) /\ Late(x) /\ CompletionQueueOf(x) = c
       /\ ~Queued(x) /\ ~Fifo(x) /\ ~Exec(x) /\ ~Finished(x)
  <2>1. x \in Live /\ x \in Issued /\ x \in Tag
    BY <1>6, <1>9
  <2>2. Posted(x)
    BY <1>3, <1>9, Zenon DEF Posted, P, r
  <2>3. ~Queued(x) /\ ~Fifo(x) /\ ~Exec(x) /\ ~Finished(x)
    BY <1>4, <2>1, <2>2, Zenon DEF Stages, Stage
  <2>4. CompletionQueueOf(x) = c
    BY <1>9 DEF OutstandingTo
  <2> QED
    BY <2>1, <2>2, <2>3, <2>4, Zenon DEF Late
<1>15. cmd[x].op # "io" => cmd[x].sq = 0 /\ OkAdmin(x)
  BY <1>4, <1>14, Zenon DEF CommandsOk, AdminsOk
<1>16. cmd[x].op = "create SQ" =>
         /\ a \in SQ \ host.sqs /\ CqOf[a] \in host.cqs /\ sq[a].exists
  <2> SUFFICES ASSUME cmd[x].op = "create SQ"
               PROVE  a \in SQ \ host.sqs /\ CqOf[a] \in host.cqs /\ sq[a].exists
    OBVIOUS
  <2>1. cmd[x].op # "io"
    OBVIOUS
  <2>2. OkCreateSQ(x, a)
    BY <1>2, <1>15, <2>1, Zenon DEF OkAdmin
  <2> QED
    BY <1>14, <2>2, Zenon DEF OkCreateSQ
<1>17. cmd[x].op = "create CQ" => a \in CQ \ host.cqs /\ cq[a] = NewCQ
  <2> SUFFICES ASSUME cmd[x].op = "create CQ" PROVE a \in CQ \ host.cqs /\ cq[a] = NewCQ
    OBVIOUS
  <2>1. cmd[x].op # "io"
    OBVIOUS
  <2>2. OkCreateCQ(x, a)
    BY <1>2, <1>15, <2>1, Zenon DEF OkAdmin
  <2> QED
    BY <1>14, <2>2, Zenon DEF OkCreateCQ
<1>18. /\ host'.sqs = IF cmd[x].op = "create SQ" THEN host.sqs \cup {a} ELSE host.sqs
       /\ host'.cqs = IF cmd[x].op = "create CQ" THEN host.cqs \cup {a} ELSE host.cqs
       /\ host'.reads[c] = next
       /\ \A d \in host.cqs : d # c => host'.reads[d] = host.reads[d]
       /\ cmd[x].op = "create CQ" => host'.reads[a] = FirstRead
       /\ host'.arbitration = host.arbitration /\ host' \in Host
  <2>1. CASE cmd[x].op = "create SQ"
    <3>1. host' = [host EXCEPT !.reads = reads, !.sqs = @ \cup {a}]
      BY <1>3, <2>1
    <3>2. host' = [sqs |-> host.sqs \cup {a}, cqs |-> host.cqs,
                   arbitration |-> host.arbitration, reads |-> reads]
      BY <1>5, <3>1
    <3>3. host' \in Host
      BY <1>5, <1>11, <1>16, <2>1, <3>2 DEF Host
    <3> QED
      BY <1>5, <1>11, <2>1, <3>2, <3>3
  <2>2. CASE cmd[x].op = "create CQ"
    <3> DEFINE more == [reads EXCEPT ![a] = FirstRead]
    <3>1. host' = [host EXCEPT !.reads = more, !.cqs = @ \cup {a}]
      BY <1>3, <2>2
    <3>2. FirstRead \in Position
      <4>1. 0 \in Slot(CqSize)
        BY Constants DEF Slot
      <4> QED
        BY <4>1 DEF FirstRead, Position
    <3>3. a \in CQ /\ a \notin host.cqs
      BY <1>17, <2>2
    <3>4. more \in [CQ -> Position] /\ more[a] = FirstRead
          /\ \A d \in CQ : d # a => more[d] = reads[d]
      BY <1>11, <3>2, <3>3
    <3> HIDE DEF more
    <3>5. host' = [sqs |-> host.sqs, cqs |-> host.cqs \cup {a},
                   arbitration |-> host.arbitration, reads |-> more]
      BY <1>5, <3>1
    <3>6. host' \in Host
      BY <1>5, <3>3, <3>4, <3>5 DEF Host
    <3>7. /\ host'.sqs = host.sqs /\ host'.cqs = host.cqs \cup {a} /\ host'.reads = more
          /\ host'.arbitration = host.arbitration
      BY <3>5
    <3>8. more[c] = next /\ \A d \in host.cqs : d # c => more[d] = host.reads[d]
      BY <1>3, <1>5, <1>11, <3>3, <3>4
    <3> QED
      BY <2>2, <3>4, <3>6, <3>7, <3>8
  <2>3. CASE cmd[x].op \notin {"create SQ", "create CQ"}
    <3>1. host' = [host EXCEPT !.reads = reads]
      BY <1>3, <2>3
    <3>2. host' = [sqs |-> host.sqs, cqs |-> host.cqs,
                   arbitration |-> host.arbitration, reads |-> reads]
      BY <1>5, <3>1
    <3>3. host' \in Host
      BY <1>5, <1>11, <3>2 DEF Host
    <3> QED
      BY <1>5, <1>11, <2>3, <3>2, <3>3
  <2> QED
    BY <2>1, <2>2, <2>3
<1>19. /\ Issued' = Issued /\ Live' = Live \ {x}
       /\ \A q : Outstanding(q)' = Outstanding(q) \ {x}
       /\ \A d : d # c => OutstandingTo(d)' = OutstandingTo(d)
       /\ OutstandingTo(c)' = OutstandingTo(c) \ {x}
  <2>1. Issued' = Issued
    BY <1>3, Zenon DEF Issued
  <2>2. Live' = Live \ {x}
    BY <1>3, <2>1 DEF Live
  <2>3. \A q : Outstanding(q)' = Outstanding(q) \ {x}
    BY <1>3, <2>1 DEF Outstanding
  <2>4. \A d : OutstandingTo(d)' = OutstandingTo(d) \ {x}
    BY <1>3, <2>1 DEF OutstandingTo, CompletionQueueOf
  <2>5. \A d : d # c => x \notin OutstandingTo(d)
    BY <1>14 DEF OutstandingTo
  <2> QED
    BY <2>1, <2>2, <2>3, <2>4, <2>5
<1>20. /\ SqsOk' /\ \A i : (Queued(i)' <=> Queued(i)) /\ (Unread(i)' <=> Unread(i))
       /\ \A q : /\ (Reading(q)' <=> Reading(q)) /\ (Drained(q)' <=> Drained(q))
                 /\ (Unfetched(q)' <=> Unfetched(q))
  <2>1. ASSUME NEW q \in SQ PROVE SqOk(q, sq[q], fetching, Outstanding(q)')
    <3>1. SqOk(q, sq[q], fetching, Outstanding(q))
      BY <1>4, Zenon DEF SqsOk
    <3>2. \A i : WaitsIn(q, sq[q], fetching, i) => i \in Outstanding(q) /\ i # x
      BY <1>14, <3>1, WaitsAmong, Zenon DEF Queued
    <3>3. \A i : WaitsIn(q, sq[q], fetching, i) => i \in Outstanding(q)'
      BY <1>19, <3>2
    <3> QED
      BY <3>1, <3>3, SqStays, Zenon
  <2>2. SqsOk'
    BY <1>3, <2>1, Zenon DEF SqsOk
  <2>3. \A i : (Queued(i)' <=> Queued(i)) /\ (Unread(i)' <=> Unread(i))
    BY <1>3, Zenon DEF Queued, Unread
  <2>4. \A q : /\ (Reading(q)' <=> Reading(q)) /\ (Drained(q)' <=> Drained(q))
               /\ (Unfetched(q)' <=> Unfetched(q))
    BY <1>3, <1>18, Zenon DEF Reading, Drained, Unfetched
  <2> QED
    BY <2>2, <2>3, <2>4
<1>21. \A w \in P : w.cq \in host.cqs
  BY <1>4, Zenon DEF CqsOk, P
<1>22. ASSUME NEW d \in host'.cqs
       PROVE  /\ CqOk(d, cq'[d], host'.reads[d], P, OutstandingTo(d)')
              /\ \A i : Held(d, cq'[d], host'.reads[d], P, i) <=>
                   d \in host.cqs /\ Held(d, cq[d], host.reads[d], P, i) /\ i # x
  <2>1. CASE d = c
    <3>1. CqOk(c, new, next, P, OutstandingTo(c)')
      BY <1>9, <1>19, Zenon
    <3>2. \A i : /\ Held(c, new, next, P, i) => i \in Tag
                 /\ Held(c, cq[c], r, P, i) => i \in Tag
      BY <1>3, <1>7, <1>8, <1>12, HeldTag
    <3>3. \A i : Held(c, new, next, P, i) <=> Held(c, cq[c], r, P, i) /\ i # x
      BY <1>9, <3>2, Zenon
    <3> QED
      BY <1>3, <1>13, <1>18, <2>1, <3>1, <3>3, Zenon DEF r
  <2>2. CASE d # c /\ d \in host.cqs
    <3>1. /\ d \in CQ /\ cq'[d] = cq[d] /\ host'.reads[d] = host.reads[d]
          /\ OutstandingTo(d)' = OutstandingTo(d)
          /\ CqOk(d, cq[d], host.reads[d], P, OutstandingTo(d))
          /\ cq[d] \in CompletionQueue
      BY <1>8, <1>13, <1>18, <1>19, <2>2, Zenon
    <3>2. ~Held(d, cq[d], host.reads[d], P, x)
      <4>1. x \notin OutstandingTo(d)
        BY <1>14, <2>2 DEF OutstandingTo
      <4> QED
        BY <1>14, <3>1, <4>1, Zenon DEF CqOk, Held
    <3> QED
      BY <2>2, <3>1, <3>2, Zenon
  <2>3. CASE d # c /\ d \notin host.cqs
    <3>1. cmd[x].op = "create CQ" /\ d = a
      BY <1>18, <2>3
    <3>2. d \in CQ /\ cq'[d] = NewCQ /\ host'.reads[d] = FirstRead
      BY <1>13, <1>17, <1>18, <2>3, <3>1
    <3>3. \A w \in P : w.cq # d
      BY <1>21, <2>3
    <3> DEFINE O == OutstandingTo(d)'
    <3> HIDE DEF O
    <3>4. /\ CqOk(d, NewCQ, FirstRead, P, O)
          /\ \A i : ~Held(d, NewCQ, FirstRead, P, i)
      BY <3>2, <3>3, CqEmpty
    <3> QED
      BY <2>3, <3>2, <3>4, Zenon DEF O
  <2> QED
    BY <2>1, <2>2, <2>3
<1>23. host.cqs \subseteq host'.cqs /\ host.sqs \subseteq host'.sqs
  BY <1>18
<1>24. \A i : Posted(i)' <=> Posted(i) /\ i # x
  <2> TAKE i
  <2>1. Posted(i)' <=> \E d \in host'.cqs : Held(d, cq'[d], host'.reads[d], P, i)
    BY <1>3, Zenon DEF Posted, P
  <2>2. \A d : d \in host.cqs => d \in host'.cqs
    BY <1>23
  <2> QED
    BY <1>22, <2>1, <2>2, Zenon DEF Posted, P
<1>25. CqsOk'
  <2>1. ASSUME NEW d \in CQ PROVE Cardinality(OutstandingTo(d)') <= CqSize - 1
    <3>1. Cardinality(OutstandingTo(d)) <= CqSize - 1
      BY <1>4, Zenon DEF CqsOk
    <3>2. CASE d = c
      <4>1. /\ IsFiniteSet(OutstandingTo(c))
            /\ Cardinality(OutstandingTo(c) \ {x}) = Cardinality(OutstandingTo(c)) - 1
        BY <1>6, <1>9, FS_RemoveElement
      <4>2. Cardinality(OutstandingTo(c)) \in Nat
        BY <4>1, FS_CardinalityType
      <4>3. Cardinality(OutstandingTo(d)') = Cardinality(OutstandingTo(c)) - 1
        <5>1. OutstandingTo(d)' = OutstandingTo(c) \ {x}
          BY <1>19, <3>2, Zenon
        <5> QED
          BY <4>1, <5>1, Zenon
      <4>4. Cardinality(OutstandingTo(c)) <= CqSize - 1
        BY <3>1, <3>2, Zenon
      <4> QED
        BY <4>2, <4>3, <4>4, Constants
    <3>3. CASE d # c
      BY <1>19, <3>1, <3>3
    <3> QED
      BY <3>2, <3>3
  <2>2. \A w \in P : w.cq \in host'.cqs
    BY <1>21, <1>23
  <2>3. WritesApart(posting)
    BY <1>4, Zenon DEF CqsOk
  <2> QED
    BY <1>3, <1>22, <2>1, <2>2, <2>3, Zenon DEF CqsOk, P
<1>26. \A i : /\ (Fifo(i)' <=> Fifo(i)) /\ (Exec(i)' <=> Exec(i)) /\ (Finished(i)' <=> Finished(i))
              /\ (i # x => (Late(i)' <=> Late(i)))
  BY <1>3, <1>24, Zenon DEF Fifo, Exec, Finished, Late
<1>27. Stages'
  <2>1. ASSUME NEW i \in Issued PROVE Stage(i)'
    <3>1. Stage(i)
      BY <1>4, Zenon DEF Stages
    <3>2. CASE i = x
      <4>1. x \notin Live'
        BY <1>19
      <4> QED
        BY <1>14, <1>20, <1>24, <1>26, <3>2, <4>1, Zenon DEF Stage
    <3>3. CASE i # x
      <4>1. i \in Live' <=> i \in Live
        BY <1>19, <3>3
      <4> QED
        BY <1>3, <1>20, <1>24, <1>26, <3>1, <3>3, <4>1, Zenon DEF Stage
    <3> QED
      BY <3>2, <3>3
  <2> QED
    BY <1>3, <1>4, <1>19, <2>1, Zenon DEF Stages
<1>28. ReadsOk'
  BY <1>3, <1>4, <1>20, Zenon DEF ReadsOk
<1>29. \A i \in Live' : i \in Live /\ i # x
  BY <1>19
<1>30. CommandsOk'
  <2>1. \A i \in Live' : CqOf[cmd[i].sq] \in host'.cqs
    <3>1. \A i \in Live : CqOf[cmd[i].sq] \in host.cqs
      BY <1>4, Zenon DEF CommandsOk
    <3> QED
      BY <1>23, <1>29, <3>1
  <2> QED
    BY <1>3, <1>4, <1>19, <1>29, <2>1, Zenon DEF CommandsOk
<1>31. \A d \in CQ : cq'[d].exists = cq[d].exists
  BY <1>12, <1>13, Zenon
<1>32. HostOk'
  <2>1. 0 \in host'.sqs
    <3>1. 0 \in host.sqs
      BY <1>4, Zenon DEF HostOk
    <3> QED
      BY <1>23, <3>1
  <2>2. ASSUME NEW q \in host'.sqs PROVE sq[q].exists /\ CqOf[q] \in host'.cqs
    <3>1. CASE q \in host.sqs
      <4>1. sq[q].exists /\ CqOf[q] \in host.cqs
        BY <1>4, <3>1, Zenon DEF HostOk
      <4> QED
        BY <1>23, <4>1
    <3>2. CASE q \notin host.sqs
      <4>1. cmd[x].op = "create SQ" /\ q = a
        BY <1>18, <3>2
      <4> QED
        BY <1>16, <1>23, <4>1
    <3> QED
      BY <3>1, <3>2
  <2>3. ASSUME NEW q \in SQ \ host'.sqs, sq[q].exists
        PROVE  \E i \in Live' : cmd[i].op \in {"delete SQ", "create SQ"} /\ cmd[i].arg = q
    <3>1. q \in SQ \ host.sqs
      BY <1>23
    <3>2. PICK i \in Live : cmd[i].op \in {"delete SQ", "create SQ"} /\ cmd[i].arg = q
      BY <1>4, <2>3, <3>1, Zenon DEF HostOk
    <3>3. ASSUME i = x PROVE FALSE
      <4>1. CASE cmd[x].op = "create SQ"
        <5>1. q = a
          BY <1>2, <3>2, <3>3
        <5> QED
          BY <1>18, <4>1, <5>1
      <4>2. CASE cmd[x].op = "delete SQ"
        <5>1. cmd[x].op # "io"
          BY <4>2
        <5>2. OkDeleteSQ(x, q)
          BY <1>15, <3>2, <3>3, <4>2, <5>1, Zenon DEF OkAdmin
        <5> QED
          BY <1>14, <2>3, <5>2, Zenon DEF OkDeleteSQ
      <4> QED
        BY <3>2, <3>3, <4>1, <4>2
    <3>4. i \in Live'
      BY <1>19, <3>3
    <3> QED
      BY <3>2, <3>4, Zenon
  <2>4. ASSUME NEW d \in CQ \ host'.cqs, cq'[d].exists
        PROVE  \E i \in Live' : cmd[i].op \in {"delete CQ", "create CQ"} /\ cmd[i].arg = d
    <3>1. d \in CQ \ host.cqs
      BY <1>23
    <3>2. cq[d].exists
      <4>1. cq'[d].exists = cq[d].exists
        BY <1>31
      <4> QED
        BY <2>4, <4>1, Zenon
    <3>3. PICK i \in Live : cmd[i].op \in {"delete CQ", "create CQ"} /\ cmd[i].arg = d
      BY <1>4, <3>1, <3>2, Zenon DEF HostOk
    <3>4. ASSUME i = x PROVE FALSE
      <4>1. CASE cmd[x].op = "create CQ"
        <5>1. d = a
          BY <1>2, <3>3, <3>4
        <5> QED
          BY <1>18, <4>1, <5>1
      <4>2. CASE cmd[x].op = "delete CQ"
        <5>1. cmd[x].op # "io"
          BY <4>2
        <5>2. OkDeleteCQ(x, d)
          BY <1>15, <3>3, <3>4, <4>2, <5>1, Zenon DEF OkAdmin
        <5> QED
          BY <1>14, <3>2, <5>2, Zenon DEF OkDeleteCQ
      <4> QED
        BY <3>3, <3>4, <4>1, <4>2
    <3>5. i \in Live'
      BY <1>19, <3>4
    <3> QED
      BY <3>3, <3>5, Zenon
  <2> QED
    <3>1. \A q \in host'.sqs : sq'[q].exists /\ CqOf[q] \in host'.cqs
      BY <1>3, <2>2, Zenon
    <3>2. \A q \in SQ \ host'.sqs : sq'[q].exists =>
            \E i \in Live' : cmd'[i].op \in {"delete SQ", "create SQ"} /\ cmd'[i].arg = q
      BY <1>3, <2>3, Zenon
    <3>3. \A d \in CQ \ host'.cqs : cq'[d].exists =>
            \E i \in Live' : cmd'[i].op \in {"delete CQ", "create CQ"} /\ cmd'[i].arg = d
      BY <1>3, <2>4, Zenon
    <3> QED
      BY <2>1, <3>1, <3>2, <3>3, Zenon DEF HostOk
<1>33. AdminsOk'
  <2> SUFFICES ASSUME NEW i \in Live', cmd'[i].sq = 0 PROVE OkAdmin(i)'
    BY Zenon DEF AdminsOk
  <2>1. i \in Live /\ i # x /\ cmd[i].sq = 0 /\ OkAdmin(i)
    BY <1>3, <1>4, <1>29, Zenon DEF AdminsOk
  <2>2. cmd[x].op = "io"
    BY <1>4, <1>14, <1>15, <2>1, Zenon DEF CommandsOk
  <2>3. host'.sqs = host.sqs /\ host'.cqs = host.cqs
    BY <1>18, <2>2
  <2> DEFINE b == cmd[i].arg
  <2>4. cmd[i].op = "delete SQ" => OkDeleteSQ(i, b)'
    BY <1>3, <1>20, <1>26, <2>1, <2>3, Zenon DEF OkAdmin, OkDeleteSQ
  <2>5. cmd[i].op = "create SQ" => OkCreateSQ(i, b)'
    <3>1. ASSUME OkCreateSQ(i, b) PROVE Outstanding(b)' = {}
      <4>1. cmd' = cmd /\ Outstanding(b) = {}
        BY <1>3, <3>1, Zenon DEF OkCreateSQ
      <4>2. Outstanding(b)' = Outstanding(b) \ {x}
        BY <1>19, <4>1, Zenon
      <4> QED
        BY <4>1, <4>2
    <3> QED
      BY <1>3, <1>26, <2>1, <2>3, <3>1, Zenon DEF OkAdmin, OkCreateSQ
  <2>6. cmd[i].op = "delete CQ" => OkDeleteCQ(i, b)'
    <3>1. ASSUME OkDeleteCQ(i, b) PROVE OkDeleteCQ(i, b)'
      <4>1. b \in CQ
        BY <3>1 DEF OkDeleteCQ
      <4>2. cq'[b].exists = cq[b].exists
        BY <1>31, <4>1, Zenon
      <4> QED
        BY <1>3, <1>26, <2>1, <2>3, <3>1, <4>2, Zenon DEF OkDeleteCQ
    <3> QED
      BY <2>1, <3>1, Zenon DEF OkAdmin
  <2>7. cmd[i].op = "create CQ" => OkCreateCQ(i, b)'
    <3>1. ASSUME OkCreateCQ(i, b) PROVE OkCreateCQ(i, b)'
      <4>1. b \in CQ /\ b # c
        BY <1>3, <3>1 DEF OkCreateCQ
      <4>2. cq'[b] = cq[b]
        BY <1>13, <4>1, Zenon
      <4> QED
        BY <1>3, <1>26, <2>1, <2>3, <3>1, <4>2, Zenon DEF OkCreateCQ
    <3> QED
      BY <2>1, <3>1, Zenon DEF OkAdmin
  <2>8. cmd[i].op = "abort" => b \in Issued' /\ cmd'[b].sq \in host'.sqs /\ cmd'[b].sq # 0
    BY <1>3, <1>19, <2>1, <2>3, Zenon DEF OkAdmin
  <2> QED
    BY <1>3, <2>1, <2>4, <2>5, <2>6, <2>7, <2>8, Zenon DEF OkAdmin
<1>34. Typed'
  <2>1. done' \subseteq Issued
    BY <1>3, <1>4, <1>14
  <2> QED
    BY <1>3, <1>4, <1>13, <1>18, <1>19, <2>1 DEF Typed
<1> QED
  BY <1>20, <1>25, <1>27, <1>28, <1>30, <1>32, <1>33, <1>34, Zenon DEF Inv

-----------------------------------------------------------------------------
(* The invariant holds at first and always. *)

\* The records of Init, field by field.
LEMMA TagZero == 0 \in Tag
<1>1. MaxCommands \in Nat
  BY ControllerAssumption, Zenon DEF ControllerAssumption
<1> QED
  BY <1>1 DEF Tag

LEMMA FreshCompletionQueue ==
  ASSUME NEW n \in Slot(CqSize), NEW ring \in [Slot(CqSize) -> Entry]
  PROVE  LET queue == [NewCQ EXCEPT !.head = n, !.tail = n, !.ring = ring]
         IN  /\ queue \in CompletionQueue /\ queue.exists = TRUE /\ queue.phase = TRUE
             /\ queue.head = n /\ queue.tail = n /\ queue.ring = ring
<1>1. [NewCQ EXCEPT !.head = n, !.tail = n, !.ring = ring]
        = [exists |-> TRUE, head |-> n, tail |-> n, phase |-> TRUE, ring |-> ring]
  <2>1. ASSUME NEW queue, queue = [NewCQ EXCEPT !.head = n, !.tail = n, !.ring = ring]
        PROVE  queue = [exists |-> TRUE, head |-> n, tail |-> n, phase |-> TRUE, ring |-> ring]
    BY <2>1 DEF NewCQ
  <2> QED
    BY <2>1, Zenon
<1>2. [exists |-> TRUE, head |-> n, tail |-> n, phase |-> TRUE, ring |-> ring]
        \in CompletionQueue
  BY DEF CompletionQueue
<1> DEFINE queue == [exists |-> TRUE, head |-> n, tail |-> n, phase |-> TRUE, ring |-> ring]
<1>3. /\ queue.exists = TRUE /\ queue.phase = TRUE
      /\ queue.head = n /\ queue.tail = n /\ queue.ring = ring
  BY Zenon
<1> QED
  BY <1>1, <1>2, <1>3, Zenon

LEMMA FreshSubmissionQueue ==
  ASSUME NEW n \in Slot(SqSize)
  PROVE  LET queue == [NewSQ EXCEPT !.head = n, !.tail = n]
         IN  /\ queue \in SubmissionQueue /\ queue.exists = TRUE
             /\ queue.head = n /\ queue.tail = n
<1> DEFINE ring == [s \in Slot(SqSize) |-> 0]
<1>1. ring \in [Slot(SqSize) -> Tag]
  <2>1. 0 \in Tag
    BY TagZero
  <2> QED
    BY <2>1
<1>2. NewSQ = [exists |-> TRUE, head |-> 0, tail |-> 0, ring |-> ring]
  BY DEF NewSQ
<1> HIDE DEF ring
<1>3. [NewSQ EXCEPT !.head = n, !.tail = n]
        = [exists |-> TRUE, head |-> n, tail |-> n, ring |-> ring]
  <2>1. ASSUME NEW queue, queue = [NewSQ EXCEPT !.head = n, !.tail = n]
        PROVE  queue = [exists |-> TRUE, head |-> n, tail |-> n, ring |-> ring]
    BY <1>2, <2>1
  <2> QED
    BY <2>1, Zenon
<1>4. [exists |-> TRUE, head |-> n, tail |-> n, ring |-> ring] \in SubmissionQueue
  BY <1>1 DEF SubmissionQueue
<1> DEFINE queue == [exists |-> TRUE, head |-> n, tail |-> n, ring |-> ring]
<1>5. queue.exists = TRUE /\ queue.head = n /\ queue.tail = n
  BY Zenon
<1> QED
  BY <1>3, <1>4, <1>5, Zenon

LEMMA FreshPosition ==
  ASSUME NEW n \in Slot(CqSize)
  PROVE  LET r == [FirstRead EXCEPT !.slot = n]
         IN  r \in Position /\ r.slot = n /\ r.phase = TRUE
<1>1. [FirstRead EXCEPT !.slot = n] = [slot |-> n, phase |-> TRUE]
  <2>1. ASSUME NEW r, r = [FirstRead EXCEPT !.slot = n]
        PROVE  r = [slot |-> n, phase |-> TRUE]
    BY <2>1 DEF FirstRead
  <2> QED
    BY <2>1, Zenon
<1>2. [slot |-> n, phase |-> TRUE] \in Position
  BY DEF Position
<1>3. [slot |-> n, phase |-> TRUE].slot = n /\ [slot |-> n, phase |-> TRUE].phase = TRUE
  BY Zenon
<1> QED
  BY <1>1, <1>2, <1>3, Zenon

\* A queue that wrapped round to where it starts holds nothing that the host would read.
LEMMA FreshQueueHolds ==
  ASSUME NEW c \in CQ, NEW queue, NEW r, Start \in Slot(CqSize),
         queue.exists = TRUE, queue.phase = TRUE, queue.head = Start, queue.tail = Start,
         r.slot = Start, r.phase = TRUE,
         \A s \in Slot(CqSize) : queue.ring[s] = [id |-> 0, phase |-> s < Start]
  PROVE  CqOk(c, queue, r, {}, {}) /\ \A i : ~Held(c, queue, r, {}, i)
<1>1. CqSize \in Nat /\ CqSize > 1
  BY Constants
<1>2. \A s \in Slot(CqSize) : s \in Int /\ (Expected(r, s) <=> s >= Start)
  <2>1. \A s \in Slot(CqSize) : s \in Int
    BY <1>1 DEF Slot
  <2>2. ASSUME NEW s PROVE Expected(r, s) <=> s >= Start
    BY Zenon DEF Expected
  <2> QED
    BY <2>1, <2>2, Zenon
<1>3. ASSUME NEW s \in Slot(CqSize) PROVE ~Used(queue, s)
  <2>1. s \in 0 .. CqSize - 1 /\ Start \in 0 .. CqSize - 1
    BY DEF Slot
  <2> QED
    BY <1>1, <2>1 DEF Used, ItemCount
<1>4. ASSUME NEW s \in Slot(CqSize), NEW i PROVE ~Holds(c, queue, r, {}, s, i)
  <2>1. ~Landed(queue, r, s, i)
    <3> SUFFICES ASSUME Landed(queue, r, s, i) PROVE FALSE
      OBVIOUS
    <3>1. [id |-> 0, phase |-> s < Start] = [id |-> i, phase |-> Expected(r, s)]
      BY Zenon DEF Landed
    <3>2. [id |-> 0, phase |-> s < Start].phase = (s < Start)
      BY Zenon
    <3>3. [id |-> i, phase |-> Expected(r, s)].phase = Expected(r, s)
      BY Zenon
    <3>4. (s < Start) = Expected(r, s)
      BY <3>1, <3>2, <3>3, Zenon
    <3>5. s \in Int /\ Start \in Int
      BY <1>1 DEF Slot
    <3>6. s < Start <=> s >= Start
      <4>1. CASE s < Start
        BY <1>2, <3>4, <4>1, Zenon
      <4>2. CASE Expected(r, s)
        BY <1>2, <3>4, <4>2, Zenon
      <4> QED
        BY <1>2, <4>1, <4>2, Zenon
    <3> QED
      BY <3>5, <3>6
  <2>2. ~InFlight(c, r, {}, s, i)
    BY DEF InFlight
  <2> QED
    BY <2>1, <2>2 DEF Holds
<1>5. \A i : ~Held(c, queue, r, {}, i)
  BY <1>4, Zenon DEF Held
<1>6. queue.phase = Expected(r, queue.tail)
  <2>1. Start >= Start
    BY <1>1 DEF Slot
  <2> QED
    BY <1>2, <2>1, Zenon
<1>7. CqOk(c, queue, r, {}, {})
  <2>1. \A w \in {} : w.cq = c => w.entry.phase = Expected(r, w.slot)
    OBVIOUS
  <2>2. queue.exists /\ r.slot = queue.head
    BY Zenon
  <2> QED
    BY <1>3, <1>4, <1>6, <2>1, <2>2, Zenon DEF CqOk
<1> QED
  BY <1>5, <1>7, Zenon

LEMMA InitQueue ==
  ASSUME NEW c \in CQ
  PROVE  LET queue == [NewCQ EXCEPT !.head = Start, !.tail = Start,
                       !.ring = [s \in Slot(CqSize) |-> [id |-> 0, phase |-> s < Start]]]
             r == [FirstRead EXCEPT !.slot = Start]
         IN  /\ queue \in CompletionQueue /\ r \in Position /\ queue.exists
             /\ CqOk(c, queue, r, {}, {})
             /\ \A i : ~Held(c, queue, r, {}, i)
<1>1. Start \in Slot(CqSize) /\ 0 \in Tag
  BY TagZero, ControllerAssumption, Zenon DEF ControllerAssumption
<1> DEFINE ring == [s \in Slot(CqSize) |-> [id |-> 0, phase |-> s < Start]]
           queue == [NewCQ EXCEPT !.head = Start, !.tail = Start, !.ring = ring]
           r == [FirstRead EXCEPT !.slot = Start]
<1>2. \A s \in Slot(CqSize) : ring[s] = [id |-> 0, phase |-> s < Start] /\ ring[s] \in Entry
  BY <1>1 DEF Entry
<1>3. ring \in [Slot(CqSize) -> Entry]
  BY <1>2
<1> HIDE DEF ring
<1>4. /\ queue \in CompletionQueue /\ queue.exists = TRUE /\ queue.phase = TRUE
      /\ queue.head = Start /\ queue.tail = Start /\ queue.ring = ring
  BY <1>1, <1>3, FreshCompletionQueue, Zenon
<1>5. r \in Position /\ r.slot = Start /\ r.phase = TRUE
  BY <1>1, FreshPosition, Zenon
<1> HIDE DEF queue, r
<1>6. CqOk(c, queue, r, {}, {}) /\ \A i : ~Held(c, queue, r, {}, i)
  BY <1>1, <1>2, <1>4, <1>5, FreshQueueHolds, Zenon
<1>7. queue.exists
  BY <1>4, Zenon
<1> QED
  BY <1>4, <1>5, <1>6, <1>7, Zenon DEF queue, r, ring

LEMMA InitHolds ==
  ASSUME Init
  PROVE  Inv
<1> DEFINE r0 == [FirstRead EXCEPT !.slot = Start]
           q0 == [NewSQ EXCEPT !.head = Start, !.tail = Start]
           c0 == [NewCQ EXCEPT !.head = Start, !.tail = Start,
                  !.ring = [s \in Slot(CqSize) |-> [id |-> 0, phase |-> s < Start]]]
<1>1. /\ cmd = <<>> /\ sq = [q \in SQ |-> q0] /\ cq = [c \in CQ |-> c0]
      /\ host \in [sqs : {SQ}, cqs : {CQ}, arbitration : Arbitration,
                   reads : {[c \in CQ |-> r0]}]
      /\ done = {} /\ loop = "work" /\ fetching = <<>> /\ lSQFIFO = <<>>
      /\ executing = {} /\ created = {} /\ lCQFIFO = <<>> /\ posting = <<>>
      /\ aggregationMap = [v \in Vectors |-> NoAggregation]
      /\ status = "ready" /\ panic = NoPanic
  BY Zenon DEF Init
<1>2. MaxCommands \in Nat /\ Start \in Slot(SqSize) /\ Start \in Slot(CqSize)
  BY ControllerAssumption, Zenon DEF ControllerAssumption
<1>3. /\ DOMAIN <<>> = {} /\ Len(<<>>) = 0
      /\ \A S : <<>> \in Seq(S)
      /\ NoDuplicates(<<>>) /\ \A x : ~Occurs(x, <<>>)
  BY EmptySeq DEF NoDuplicates, Occurs
<1>4. Issued = {} /\ Live = {} /\ (\A q : Outstanding(q) = {}) /\ \A c : OutstandingTo(c) = {}
  BY <1>1, <1>3 DEF Issued, Live, Outstanding, OutstandingTo
<1>5. q0 \in SubmissionQueue /\ q0.exists /\ Items(q0) = 0
  <2>1. q0 \in SubmissionQueue /\ q0.exists = TRUE /\ q0.head = Start /\ q0.tail = Start
    BY <1>2, FreshSubmissionQueue, Zenon
  <2>2. Start \in Int
    BY <1>2, Constants DEF Slot
  <2> HIDE DEF q0
  <2> QED
    BY <2>1, <2>2 DEF Items, ItemCount
<1>6. \A c \in CQ : /\ c0 \in CompletionQueue /\ r0 \in Position /\ c0.exists
                    /\ CqOk(c, c0, r0, {}, {}) /\ \A i : ~Held(c, c0, r0, {}, i)
  BY InitQueue, Zenon
<1> HIDE DEF q0, c0, r0
<1>7. /\ \A q \in SQ : sq[q] = q0
      /\ \A c \in CQ : cq[c] = c0
  BY <1>1
<1>8. /\ host.sqs = SQ /\ host.cqs = CQ /\ host.reads = [c \in CQ |-> r0]
      /\ \A c \in CQ : host.reads[c] = r0
  BY <1>1
<1>9. host \in Host
  <2>1. [c \in CQ |-> r0] \in [CQ -> Position]
    BY <1>6
  <2> DEFINE f == [c \in CQ |-> r0]
  <2> HIDE DEF f
  <2>2. host \in [sqs : {SQ}, cqs : {CQ}, arbitration : Arbitration, reads : {f}]
    BY <1>1 DEF f
  <2>3. f \in [CQ -> Position]
    BY <2>1 DEF f
  <2> QED
    BY <2>2, <2>3 DEF Host
<1>10. Pending(posting) = {}
  BY <1>1, <1>3 DEF Pending
<1>11. Typed
  <2>1. sq \in [SQ -> SubmissionQueue] /\ cq \in [CQ -> CompletionQueue]
    BY <1>1, <1>5, <1>6
  <2>2. aggregationMap \in [Vectors -> Aggregation]
    <3>1. NoAggregation \in Aggregation
      BY DEF NoAggregation, Aggregation
    <3> QED
      BY <1>1, <3>1
  <2>3. Len(cmd) <= MaxCommands
    BY <1>1, <1>2, <1>3
  <2>4. /\ cmd \in Seq(Command) /\ fetching \in Seq(Read) /\ lSQFIFO \in Seq(Issued)
        /\ lCQFIFO \in Seq(Issued) /\ posting \in Seq(Call)
    BY <1>1, <1>3, Zenon
  <2>5. done \subseteq Issued /\ executing \subseteq Issued /\ created \subseteq executing
    BY <1>1
  <2>6. loop \in {"work", "collect", "handle", "stopped"}
        /\ status \in {"ready", "shutdown", "complete"}
    BY <1>1
  <2> QED
    BY <1>1, <1>9, <2>1, <2>2, <2>3, <2>4, <2>5, <2>6, Zenon DEF Typed
<1>12. SqsOk
  <2> SUFFICES ASSUME NEW q \in SQ PROVE SqOk(q, sq[q], fetching, Outstanding(q))
    BY Zenon DEF SqsOk
  <2>1. fetching \in Seq(Read) /\ \A k \in DOMAIN fetching : fetching[k].sq # q
    BY <1>1, <1>3
  <2>2. sq[q] \in SubmissionQueue /\ Items(sq[q]) = 0
    BY <1>5, <1>7
  <2> QED
    BY <2>1, <2>2, SqEmpty
<1>13. CqsOk
  <2>1. \A c \in host.cqs : CqOk(c, cq[c], host.reads[c], Pending(posting), OutstandingTo(c))
    BY <1>4, <1>6, <1>7, <1>8, <1>10, Zenon
  <2>2. \A c \in CQ : Cardinality(OutstandingTo(c)) <= CqSize - 1
    BY <1>4, FS_EmptySet, Constants
  <2>3. WritesApart(posting)
    BY <1>1, <1>3 DEF WritesApart
  <2>4. \A w \in Pending(posting) : w.cq \in host.cqs
    BY <1>10
  <2> QED
    BY <2>1, <2>2, <2>3, <2>4, Zenon DEF CqsOk
<1>14. Stages
  <2>1. \A i \in Issued : Stage(i)
    BY <1>4
  <2> QED
    BY <1>1, <1>3, <2>1, Zenon DEF Stages
<1>15. ReadsOk
  <2>1. \A q : ~Reading(q)
    BY <1>1, <1>3 DEF Reading
  <2> QED
    BY <1>1, <1>5, <1>7, <2>1, Zenon DEF ReadsOk
<1>16. CommandsOk
  BY <1>1, <1>4 DEF CommandsOk
<1>17. HostOk
  <2>1. 0 \in SQ /\ \A q \in SQ : CqOf[q] \in CQ
    BY Constants
  <2>2. (\A q : q \notin SQ \ host.sqs) /\ \A c : c \notin CQ \ host.cqs
    BY <1>8
  <2>3. \A q \in host.sqs : sq[q].exists /\ CqOf[q] \in host.cqs
    BY <1>5, <1>7, <1>8, <2>1, Zenon
  <2> QED
    BY <1>8, <2>1, <2>2, <2>3, Zenon DEF HostOk
<1>18. AdminsOk
  BY <1>4 DEF AdminsOk
<1> QED
  BY <1>11, <1>12, <1>13, <1>14, <1>15, <1>16, <1>17, <1>18, Zenon DEF Inv

LEMMA NextKeeps ==
  ASSUME Inv, HostDrains, [Next]_vars
  PROVE  Inv'
<1>1. CASE WorkEvent
  BY <1>1, WorkStep
<1>2. CASE FetchDone
  BY <1>2, FetchStep
<1>3. CASE QueueFunction
  BY <1>3, QueueFunctionStep
<1>4. CASE HandleRequest
  BY <1>4, HandleStep
<1>5. ASSUME NEW i \in Id, Execute(i) PROVE Inv'
  BY <1>5, IoStep, DeleteSqStep, CreateSqStep, DeleteCqStep, CreateCqStep, AbortStepKeeps,
     CoalesceStep, Zenon DEF Execute
<1>6. CASE Completion
  BY <1>6, CompletionStep
<1>7. CASE Post
  BY <1>7, PostWriteStep, SendStep, Zenon DEF Post
<1>8. ASSUME NEW v \in Vectors, AggregationTimeEnds(v) PROVE Inv'
  BY <1>8, TimeStep
<1>9. ASSUME NEW q \in SQ, SubmitIO(q) PROVE Inv'
  BY <1>9, SubmitIoStep
<1>10. ASSUME NEW op \in AdminOps \ {"shutdown"}, SubmitAdmin(op) PROVE Inv'
  BY <1>10, SubmitAdminStep
<1>11. CASE Shutdown
  BY <1>11, ShutdownStep
<1>12. ASSUME NEW c \in CQ, HostConsume(c) PROVE Inv'
  BY <1>12, ConsumeStep
<1>13. CASE UNCHANGED vars
  BY <1>13, NothingHappens
<1> QED
  BY <1>1, <1>2, <1>3, <1>4, <1>5, <1>6, <1>7, <1>8, <1>9, <1>10, <1>11, <1>12, <1>13,
     Zenon DEF Next

\* A host that deletes a completion queue only when its commands are done finds
\* every command that it waits for at exactly one stage of the controller, and
\* every queue entry in use by one outstanding command: whatever DMA transfers,
\* commands, completions and doorbells are interleaved, and whatever queues are
\* created, deleted or aborted on the way (controller.cc, queue.cc, subsystem.cc).
THEOREM ControllerInvariant ==
  ASSUME HostDrains
  PROVE  Spec => []Inv
<1>1. Init => Inv
  BY InitHolds
<1>2. Inv /\ [Next]_vars => Inv'
  BY NextKeeps
<1> QED
  BY <1>1, <1>2, PTL DEF Spec

\* The controller never posts to a completion queue that is gone or full, and
\* never aborts from a deleted submission queue (controller.cc:1661, 635, 1771,
\* queue.cc:127).
THEOREM QueuesNeverFail ==
  ASSUME HostDrains
  PROVE  Spec => []NeverPanics
<1>1. Inv => NeverPanics
  BY DEF Inv, Typed, NeverPanics
<1> QED
  BY <1>1, ControllerInvariant, PTL

\* The end of a DMA read finds the submission queue it was issued for
\* (doRead, controller.cc:1631): deleteSQueue() comes after what it read.
THEOREM ReadsFindTheirQueue ==
  ASSUME HostDrains
  PROVE  Spec => []NoFetchFromDeleted
<1>1. ASSUME Inv PROVE NoFetchFromDeleted
  <2> SUFFICES ASSUME NEW k \in DOMAIN fetching PROVE sq[fetching[k].sq].exists
    BY Zenon DEF NoFetchFromDeleted
  <2>1. fetching[k].sq \in SQ
    <3>1. fetching \in Seq(Read)
      BY <1>1, Zenon DEF Inv, Typed
    <3>2. fetching[k] \in Read
      BY <3>1, ElementOfSeq, LenProperties
    <3> QED
      BY <3>2 DEF Read
  <2>2. Reading(fetching[k].sq)
    BY Zenon DEF Reading
  <2> QED
    BY <1>1, <2>1, <2>2, Zenon DEF Inv, ReadsOk
<1> QED
  BY <1>1, ControllerInvariant, PTL
-----------------------------------------------------------------------------
(* Every command in one place. *)

\* The low priority is not used: the controller never fetches from a queue of that
\* priority when the arbitration is weighted (controller.cc:1513).
EveryQueueFetched ==
  "weighted" \in Arbitration => \A q \in SQ \ {0} : Priority[q] # "low"

\* The parts of Places.
WaitingAt(i) ==
  {x \in SQ \X Slot(SqSize) :
     /\ sq[x[1]].exists /\ x[2] < SqItems(x[1])
     /\ sq[x[1]].ring[(sq[x[1]].head + x[2]) % SqSize] = i}
ReadAt(i) == {k \in DOMAIN fetching : sq[fetching[k].sq].ring[fetching[k].slot] = i}
QueueAt(queue, i) == {k \in DOMAIN queue : queue[k] = i}
WritesAt(k, i) == {n \in DOMAIN posting[k].writes : posting[k].writes[n].entry.id = i}
WritingAt(i) == UNION {{k} \X WritesAt(k, i) : k \in DOMAIN posting}
ArrivedAt(i) ==
  {x \in CQ \X Slot(CqSize) :
     /\ x[1] \in host.cqs /\ cq[x[1]].ring[x[2]].id = i
     /\ cq[x[1]].ring[x[2]].phase = Expected(host.reads[x[1]], x[2])}

LEMMA PlacesAre ==
  ASSUME NEW i, NEW x
  PROVE  x \in Places(i) <=>
           \/ x \in {"queued"} \X WaitingAt(i) \/ x \in {"fetching"} \X ReadAt(i)
           \/ x \in {"fifo"} \X QueueAt(lSQFIFO, i) \/ x \in {"executing"} \X (executing \cap {i})
           \/ x \in {"finished"} \X QueueAt(lCQFIFO, i) \/ x \in {"writing"} \X WritingAt(i)
           \/ x \in {"posted"} \X ArrivedAt(i)
<1> DEFINE a == {"queued"} \X WaitingAt(i)
           b == {"fetching"} \X ReadAt(i)
           c == {"fifo"} \X QueueAt(lSQFIFO, i)
           d == {"executing"} \X (executing \cap {i})
           e == {"finished"} \X QueueAt(lCQFIFO, i)
           f == {"writing"} \X WritingAt(i)
           g == {"posted"} \X ArrivedAt(i)
<1>1. Places(i) = UNION {a, b, c, d, e, f, g}
  BY Zenon DEF Places, WaitingAt, ReadAt, QueueAt, WritingAt, WritesAt, ArrivedAt, Expected
<1> HIDE DEF a, b, c, d, e, f, g
<1>2. x \in Places(i) <=>
        x \in a \/ x \in b \/ x \in c \/ x \in d \/ x \in e \/ x \in f \/ x \in g
  BY <1>1
<1> QED
  BY <1>2, Zenon DEF a, b, c, d, e, f, g

\* The entry of a queue that the controller fetches n-th next.
LEMMA SlotOfItem ==
  ASSUME NEW queue \in SubmissionQueue, NEW n \in Nat, n < Items(queue)
  PROVE  /\ Items(queue) - n \in 1 .. Items(queue)
         /\ queue.ring[(queue.head + n) % SqSize] = EntryAt(queue, Items(queue) - n)
<1>1. /\ SqSize \in Nat \ {0} /\ queue.head \in 0 .. SqSize - 1 /\ queue.tail \in 0 .. SqSize - 1
      /\ Items(queue) \in Nat
  BY Constants, ItemsNat DEF SubmissionQueue, Slot
<1>2. Items(queue) = IF queue.tail >= queue.head THEN queue.tail - queue.head
                     ELSE (SqSize - queue.head) + queue.tail
  BY Zenon DEF Items, ItemCount
<1> DEFINE h == queue.head
           t == queue.tail
           w == (h + n) % SqSize
<1>3. h + n < SqSize + SqSize
  BY <1>1, <1>2
<1>4. w = IF h + n < SqSize THEN h + n ELSE h + n - SqSize
  <2>1. h \in Nat
    BY <1>1
  <2> HIDE DEF h
  <2> QED
    BY <1>1, <1>3, <2>1, WrapSum, Zenon
<1> HIDE DEF w
<1>5. w = Back(t, Items(queue) - n)
  BY <1>1, <1>2, <1>4 DEF Back
<1>6. Items(queue) - n \in 1 .. Items(queue)
  BY <1>1
<1> QED
  BY <1>5, <1>6, Zenon DEF EntryAt, w

\* The reads of a queue are counted one by one.
LEMMA OneRead ==
  ASSUME NEW f \in Seq(Read), NEW q
  PROVE  /\ ReadsFrom(f, q, Len(f) + 1) = 0
         /\ \A k \in DOMAIN f : ReadsFrom(f, q, k) = IF f[k].sq = q THEN ReadsFrom(f, q, k + 1) + 1
                                                                   ELSE ReadsFrom(f, q, k + 1)
         /\ \A j, k \in Nat : j <= k => ReadsFrom(f, q, k) <= ReadsFrom(f, q, j)
<1> DEFINE In(k) == {j \in DOMAIN f : j >= k /\ f[j].sq = q}
<1>1. Len(f) \in Nat /\ DOMAIN f = 1 .. Len(f)
  BY LenProperties
<1>2. \A k : IsFiniteSet(In(k)) /\ Cardinality(In(k)) \in Nat /\ Cardinality(In(k)) = ReadsFrom(f, q, k)
  BY ReadsCounted, Zenon DEF ReadsFrom
<1>3. In(Len(f) + 1) = {}
  BY <1>1
<1>4. ASSUME NEW k \in DOMAIN f, f[k].sq = q
      PROVE  In(k) = In(k + 1) \cup {k} /\ k \notin In(k + 1)
  BY <1>1, <1>4
<1>5. ASSUME NEW k \in DOMAIN f, f[k].sq # q PROVE In(k) = In(k + 1)
  BY <1>1, <1>5
<1>6. ASSUME NEW j \in Nat, NEW k \in Nat, j <= k PROVE In(k) \subseteq In(j)
  BY <1>1, <1>6
<1> HIDE DEF In
<1>7. ReadsFrom(f, q, Len(f) + 1) = 0
  BY <1>2, <1>3, FS_EmptySet, Zenon
<1>8. ASSUME NEW k \in DOMAIN f
      PROVE  ReadsFrom(f, q, k) = IF f[k].sq = q THEN ReadsFrom(f, q, k + 1) + 1
                                                 ELSE ReadsFrom(f, q, k + 1)
  <2>1. CASE f[k].sq = q
    <3>1. Cardinality(In(k)) = Cardinality(In(k + 1)) + 1
      BY <1>2, <1>4, <2>1, FS_AddElement
    <3> QED
      BY <1>2, <2>1, <3>1, Zenon
  <2>2. CASE f[k].sq # q
    BY <1>2, <1>5, <2>2, Zenon
  <2> QED
    BY <2>1, <2>2
<1>9. ASSUME NEW j \in Nat, NEW k \in Nat, j <= k
      PROVE  ReadsFrom(f, q, k) <= ReadsFrom(f, q, j)
  <2>1. Cardinality(In(k)) <= Cardinality(In(j))
    BY <1>2, <1>6, <1>9, FS_Subset
  <2>2. Cardinality(In(k)) = ReadsFrom(f, q, k) /\ Cardinality(In(j)) = ReadsFrom(f, q, j)
    BY <1>2, Zenon
  <2> QED
    BY <2>1, <2>2
<1> QED
  BY <1>7, <1>8, <1>9

\* Every number up to that of the reads is the number of one of them.
LEMMA ReadOfNumber ==
  ASSUME NEW f \in Seq(Read), NEW q, NEW d \in 1 .. ReadsFrom(f, q, 1)
  PROVE  \E k \in DOMAIN f : f[k].sq = q /\ ReadsFrom(f, q, k) = d
<1> DEFINE Found == \E k \in DOMAIN f : f[k].sq = q /\ ReadsFrom(f, q, k) = d
           M == {m \in Nat : \A k \in Nat \ {0} : k + m = Len(f) + 1 /\ d <= ReadsFrom(f, q, k) => Found}
<1>1. Len(f) \in Nat /\ DOMAIN f = 1 .. Len(f) /\ \A k : ReadsFrom(f, q, k) \in Nat
  BY LenProperties, ReadsCounted
<1>2. d \in Nat \ {0}
  BY <1>1
<1>3. 0 \in M
  <2>1. \A k \in Nat \ {0} : k + 0 = Len(f) + 1 => ReadsFrom(f, q, k) = 0
    BY <1>1, OneRead
  <2> QED
    BY <1>2, <2>1
<1>4. ASSUME NEW m \in Nat, m \in M PROVE m + 1 \in M
  <2> SUFFICES ASSUME NEW k \in Nat \ {0}, k + (m + 1) = Len(f) + 1, d <= ReadsFrom(f, q, k)
               PROVE  Found
    OBVIOUS
  <2>1. k \in DOMAIN f /\ k + 1 \in Nat \ {0} /\ (k + 1) + m = Len(f) + 1
    BY <1>1
  <2>2. ReadsFrom(f, q, k) = IF f[k].sq = q THEN ReadsFrom(f, q, k + 1) + 1
                                            ELSE ReadsFrom(f, q, k + 1)
    BY <2>1, OneRead, ZenonT(40)
  <2>3. CASE d <= ReadsFrom(f, q, k + 1)
    BY <1>4, <2>1, <2>3
  <2>4. CASE ~(d <= ReadsFrom(f, q, k + 1))
    <3>1. f[k].sq = q /\ d = ReadsFrom(f, q, k)
      BY <1>1, <1>2, <2>2, <2>4
    <3> QED
      BY <2>1, <3>1
  <2> QED
    BY <2>3, <2>4
<1>5. Len(f) \in M
  <2>1. Nat \subseteq M
    <3> HIDE DEF M
    <3> QED
      BY <1>3, <1>4, NatInductionSet
  <2> QED
    BY <1>1, <2>1
<1>6. 1 + Len(f) = Len(f) + 1 /\ d <= ReadsFrom(f, q, 1)
  BY <1>1
<1> QED
  BY <1>5, <1>6
\* Where a command waits in a queue: the n-th entry to fetch, or the k-th read.
SlotsWith(queue, i) ==
  {n \in Nat : n < Items(queue) /\ queue.ring[(queue.head + n) % SqSize] = i}
ReadsWith(q, queue, f, i) == {k \in DOMAIN f : f[k].sq = q /\ queue.ring[f[k].slot] = i}

\* What waits in a queue is at one of its slots or being read, and once.
LEMMA WaitsOnce ==
  ASSUME NEW q, NEW queue \in SubmissionQueue, NEW f \in Seq(Read), NEW O,
         SqOk(q, queue, f, O), NEW i
  PROVE  LET slots == SlotsWith(queue, i)
             reads == ReadsWith(q, queue, f, i)
         IN  /\ WaitsIn(q, queue, f, i) <=> slots # {} \/ reads # {}
             /\ \A m, n \in slots : m = n
             /\ \A j, k \in reads : j = k
             /\ slots = {} \/ reads = {}
<1> DEFINE N == Items(queue)
           D == Depth(q, queue, f)
           slots == SlotsWith(queue, i)
           reads == ReadsWith(q, queue, f, i)
           R(k) == ReadsFrom(f, q, k)
<1>1. /\ N \in Nat /\ R(1) \in Nat /\ D = N + R(1)
      /\ DOMAIN f = 1 .. Len(f) /\ Len(f) \in Nat /\ \A k : R(k) \in Nat
  BY ItemsNat, ReadsCounted, LenProperties DEF Depth
<1>2. \A d, e \in 1 .. D : EntryAt(queue, d) = EntryAt(queue, e) => d = e
  BY Zenon DEF SqOk, Ring
<1>3. \A k \in DOMAIN f : f[k].sq = q => f[k].slot = Back(queue.tail, N + R(k))
  BY Zenon DEF SqOk
<1>4. \A n \in Nat : n < N =>
        /\ N - n \in 1 .. N
        /\ queue.ring[(queue.head + n) % SqSize] = EntryAt(queue, N - n)
  BY SlotOfItem
<1> HIDE DEF N, D, R
<1>5. ASSUME NEW n \in slots PROVE n \in Nat /\ N - n \in 1 .. N /\ EntryAt(queue, N - n) = i
  <2>1. n \in Nat /\ n < N /\ queue.ring[(queue.head + n) % SqSize] = i
    BY <1>5, Zenon DEF N, SlotsWith
  <2> QED
    BY <1>4, <2>1, Zenon
<1>6. ASSUME NEW k \in reads
      PROVE  /\ k \in 1 .. Len(f) /\ f[k].sq = q /\ R(k) \in 1 .. R(1)
             /\ EntryAt(queue, N + R(k)) = i
  <2>1. k \in DOMAIN f /\ f[k].sq = q /\ queue.ring[f[k].slot] = i
    BY <1>6, Zenon DEF ReadsWith
  <2>2. EntryAt(queue, N + R(k)) = i
    BY <1>3, <2>1, Zenon DEF EntryAt
  <2>3. R(k) = R(k + 1) + 1 /\ R(k) <= R(1)
    <3>1. k \in Nat /\ 1 \in Nat /\ 1 <= k
      BY <1>1, <2>1
    <3> QED
      BY <2>1, <3>1, OneRead, Zenon DEF R
  <2>4. R(k) \in 1 .. R(1)
    BY <1>1, <2>3
  <2> QED
    BY <1>1, <2>1, <2>2, <2>4
<1>7. ASSUME NEW m \in slots, NEW n \in slots PROVE m = n
  <2>1. m \in Nat /\ N - m \in 1 .. N /\ n \in Nat /\ N - n \in 1 .. N
        /\ EntryAt(queue, N - m) = EntryAt(queue, N - n)
    BY <1>5, Zenon
  <2>2. N - m \in 1 .. D /\ N - n \in 1 .. D
    BY <1>1, <2>1
  <2>3. N - m = N - n
    BY <1>2, <2>1, <2>2, Zenon
  <2> QED
    BY <1>1, <2>1, <2>3
<1>8. ASSUME NEW j \in reads, NEW k \in reads, j < k PROVE FALSE
  <2>1. /\ j \in 1 .. Len(f) /\ k \in 1 .. Len(f) /\ R(j) \in 1 .. R(1) /\ R(k) \in 1 .. R(1)
        /\ EntryAt(queue, N + R(j)) = EntryAt(queue, N + R(k)) /\ f[j].sq = q
    BY <1>6, Zenon
  <2>2. N + R(j) \in 1 .. D /\ N + R(k) \in 1 .. D
    BY <1>1, <2>1
  <2>3. N + R(j) = N + R(k)
    BY <1>2, <2>1, <2>2, Zenon
  <2>4. j \in Nat /\ k \in Nat /\ j + 1 \in Nat /\ j + 1 <= k
    BY <1>1, <1>8, <2>1
  <2>5. R(j) = R(j + 1) + 1 /\ R(k) <= R(j + 1)
    BY <1>1, <2>1, <2>4, OneRead, Zenon DEF R
  <2> QED
    BY <1>1, <2>3, <2>5
<1>9. ASSUME NEW n \in slots, NEW k \in reads PROVE FALSE
  <2>1. /\ N - n \in 1 .. N /\ R(k) \in 1 .. R(1) /\ n \in Nat
        /\ EntryAt(queue, N - n) = EntryAt(queue, N + R(k))
    BY <1>5, <1>6, Zenon
  <2>2. N - n \in 1 .. D /\ N + R(k) \in 1 .. D
    BY <1>1, <2>1
  <2>3. N - n = N + R(k)
    BY <1>2, <2>1, <2>2, Zenon
  <2> QED
    BY <1>1, <2>1, <2>3
<1>10. ASSUME WaitsIn(q, queue, f, i) PROVE slots # {} \/ reads # {}
  <2>1. PICK d \in 1 .. D : EntryAt(queue, d) = i
    BY <1>10, Zenon DEF WaitsIn, InRing, D
  <2>2. CASE d <= N
    <3>1. N - d \in Nat /\ N - d < N /\ N - (N - d) = d
      BY <1>1, <2>1, <2>2
    <3>2. queue.ring[(queue.head + (N - d)) % SqSize] = i
      BY <1>4, <2>1, <3>1, Zenon
    <3> QED
      BY <3>1, <3>2, Zenon DEF N, SlotsWith
  <2>3. CASE ~(d <= N)
    <3>1. d - N \in 1 .. R(1) /\ N + (d - N) = d
      BY <1>1, <2>1, <2>3
    <3>2. PICK k \in DOMAIN f : f[k].sq = q /\ R(k) = d - N
      <4>1. \A e \in 1 .. R(1) : \E k \in DOMAIN f : f[k].sq = q /\ R(k) = e
        BY ReadOfNumber, Zenon DEF R
      <4> QED
        BY <3>1, <4>1, Zenon
    <3>3. queue.ring[f[k].slot] = i
      BY <1>3, <2>1, <3>1, <3>2, Zenon DEF EntryAt
    <3> QED
      BY <3>2, <3>3, Zenon DEF ReadsWith
  <2> QED
    BY <2>2, <2>3
<1>11. ASSUME slots # {} \/ reads # {} PROVE WaitsIn(q, queue, f, i)
  <2>1. ASSUME NEW d \in 1 .. D, EntryAt(queue, d) = i PROVE WaitsIn(q, queue, f, i)
    BY <2>1, Zenon DEF WaitsIn, InRing, D
  <2>2. ASSUME NEW n \in slots PROVE WaitsIn(q, queue, f, i)
    <3>1. N - n \in 1 .. N /\ EntryAt(queue, N - n) = i /\ n \in Nat
      BY <1>5, Zenon
    <3>2. N - n \in 1 .. D
      BY <1>1, <3>1
    <3> QED
      BY <2>1, <3>1, <3>2, Zenon
  <2>3. ASSUME NEW k \in reads PROVE WaitsIn(q, queue, f, i)
    <3>1. R(k) \in 1 .. R(1) /\ EntryAt(queue, N + R(k)) = i
      BY <1>6, Zenon
    <3>2. N + R(k) \in 1 .. D
      BY <1>1, <3>1
    <3> QED
      BY <2>1, <3>1, <3>2, Zenon
  <2> HIDE DEF slots, reads
  <2> QED
    BY <1>11, <2>2, <2>3, Zenon
<1>12. ASSUME NEW j \in reads, NEW k \in reads PROVE j = k
  <2>1. j \in Nat /\ k \in Nat
    BY <1>1, <1>6
  <2>2. ~(j < k) /\ ~(k < j)
    BY <1>8, Zenon
  <2> QED
    BY <2>1, <2>2
<1> HIDE DEF slots, reads
<1>13. slots = {} \/ reads = {}
  BY <1>9, Zenon
<1> QED
  BY <1>7, <1>10, <1>11, <1>12, <1>13, Zenon DEF slots, reads

\* A queued command is at one slot of one submission queue.
LEMMA QueuedOnce ==
  ASSUME Inv, EveryQueueFetched, NEW i \in Issued
  PROVE  /\ Queued(i) <=> WaitingAt(i) # {} \/ ReadAt(i) # {}
         /\ \A x, y \in WaitingAt(i) : x = y
         /\ \A j, k \in ReadAt(i) : j = k
         /\ WaitingAt(i) = {} \/ ReadAt(i) = {}
<1>1. /\ SqsOk /\ ReadsOk /\ fetching \in Seq(Read) /\ sq \in [SQ -> SubmissionQueue]
      /\ host.arbitration \in Arbitration
  <2>1. host \in Host
    BY Zenon DEF Inv, Typed
  <2>2. host.arbitration \in Arbitration
    BY <2>1 DEF Host
  <2> QED
    BY <2>2, Zenon DEF Inv, Typed
<1>2. \A q \in SQ : ~Unfetched(q)
  BY <1>1, Zenon DEF Unfetched, EveryQueueFetched
<1> DEFINE slots(q) == SlotsWith(sq[q], i)
           reads(q) == ReadsWith(q, sq[q], fetching, i)
<1>3. ASSUME NEW q \in SQ
      PROVE  /\ WaitsIn(q, sq[q], fetching, i) <=> slots(q) # {} \/ reads(q) # {}
             /\ \A m, n \in slots(q) : m = n
             /\ \A j, k \in reads(q) : j = k
             /\ slots(q) = {} \/ reads(q) = {}
  <2>1. SqOk(q, sq[q], fetching, Outstanding(q)) /\ sq[q] \in SubmissionQueue
    BY <1>1, Zenon DEF SqsOk
  <2> QED
    BY <1>1, <2>1, WaitsOnce, Zenon
<1>4. ASSUME NEW q \in SQ, WaitsIn(q, sq[q], fetching, i) PROVE q = cmd[i].sq
  <2>1. SqOk(q, sq[q], fetching, Outstanding(q))
    BY <1>1, Zenon DEF SqsOk
  <2>2. i \in Outstanding(q)
    BY <1>4, <2>1, WaitsAmong, Zenon
  <2> QED
    BY <2>2 DEF Outstanding
<1>5. ASSUME NEW x
      PROVE  x \in WaitingAt(i) <=> \E q \in SQ : \E n \in slots(q) : x = <<q, n>>
  <2>1. ASSUME x \in WaitingAt(i) PROVE \E q \in SQ : \E n \in slots(q) : x = <<q, n>>
    <3>1. /\ x \in SQ \X Slot(SqSize) /\ x[2] < SqItems(x[1])
          /\ sq[x[1]].ring[(sq[x[1]].head + x[2]) % SqSize] = i
      BY <2>1, Zenon DEF WaitingAt
    <3>2. x[1] \in SQ /\ x[2] \in Slot(SqSize) /\ x = <<x[1], x[2]>>
      BY <3>1
    <3>3. x[2] \in Nat
      BY <3>2, Constants DEF Slot
    <3>4. x[2] \in slots(x[1])
      BY <3>1, <3>3, Zenon DEF SqItems, Items, SlotsWith
    <3> HIDE DEF slots
    <3> QED
      BY <3>2, <3>4, Zenon
  <2>2. ASSUME NEW q \in SQ, NEW n \in slots(q), x = <<q, n>> PROVE x \in WaitingAt(i)
    <3>1. n \in Nat /\ n < Items(sq[q]) /\ sq[q].ring[(sq[q].head + n) % SqSize] = i
      BY Zenon DEF SlotsWith
    <3>2. Items(sq[q]) \in 0 .. SqSize - 1
      BY <1>1, ItemsNat
    <3>3. n \in Slot(SqSize)
      BY <3>1, <3>2, Constants DEF Slot
    <3>4. sq[q].exists
      <4>1. sq[q].exists \/ Items(sq[q]) = 0
        BY <1>1, <1>2, Zenon DEF ReadsOk, Drained
      <4>2. Items(sq[q]) # 0
        BY <3>1, <3>2
      <4> QED
        BY <4>1, <4>2
    <3>5. x \in SQ \X Slot(SqSize) /\ x[1] = q /\ x[2] = n
      BY <2>2, <3>3
    <3> QED
      BY <3>1, <3>4, <3>5, Zenon DEF WaitingAt, SqItems, Items
  <2> QED
    BY <2>1, <2>2, Zenon
<1>6. ASSUME NEW k
      PROVE  k \in ReadAt(i) <=> \E q \in SQ : k \in reads(q)
  <2>1. \A j \in DOMAIN fetching : fetching[j].sq \in SQ
    <3>1. \A j \in DOMAIN fetching : fetching[j] \in Read
      BY <1>1, ElementOfSeq, LenProperties
    <3> QED
      BY <3>1 DEF Read
  <2> QED
    BY <2>1, Zenon DEF ReadAt, ReadsWith
<1> HIDE DEF slots, reads
<1>7. Queued(i) <=> WaitingAt(i) # {} \/ ReadAt(i) # {}
  <2>1. Queued(i) <=> \E q \in SQ : slots(q) # {} \/ reads(q) # {}
    BY <1>3, Zenon DEF Queued
  <2>2. WaitingAt(i) # {} <=> \E q \in SQ : slots(q) # {}
    BY <1>5, Zenon
  <2>3. ReadAt(i) # {} <=> \E q \in SQ : reads(q) # {}
    BY <1>6, Zenon
  <2> QED
    BY <2>1, <2>2, <2>3, Zenon
<1>8. \A q \in SQ : slots(q) # {} \/ reads(q) # {} => q = cmd[i].sq
  BY <1>3, <1>4, Zenon
<1>9. ASSUME NEW x \in WaitingAt(i), NEW y \in WaitingAt(i) PROVE x = y
  <2>1. PICK q \in SQ : \E n \in slots(q) : x = <<q, n>>
    BY <1>5, Zenon
  <2>2. PICK m \in slots(q) : x = <<q, m>>
    BY <2>1, Zenon
  <2>3. PICK p \in SQ : \E n \in slots(p) : y = <<p, n>>
    BY <1>5, Zenon
  <2>4. PICK n \in slots(p) : y = <<p, n>>
    BY <2>3, Zenon
  <2>5. p = q
    BY <1>8, <2>2, <2>4, Zenon
  <2>6. m = n
    BY <1>3, <2>2, <2>4, <2>5, Zenon
  <2> QED
    BY <2>2, <2>4, <2>5, <2>6, Zenon
<1>10. \A j, k \in ReadAt(i) : j = k
  BY <1>3, <1>6, <1>8, Zenon
<1>11. ASSUME NEW x \in WaitingAt(i), NEW k \in ReadAt(i) PROVE FALSE
  <2>1. PICK q \in SQ : \E n \in slots(q) : x = <<q, n>>
    BY <1>5, Zenon
  <2>2. PICK p \in SQ : k \in reads(p)
    BY <1>6, Zenon
  <2>3. p = q
    BY <1>8, <2>1, <2>2, Zenon
  <2> QED
    BY <1>3, <2>1, <2>2, <2>3, Zenon
<1> QED
  BY <1>7, <1>9, <1>10, <1>11, Zenon

\* A completion that was posted is one DMA write, or one entry that the host has not read.
LEMMA PostedOnce ==
  ASSUME Inv, NEW i \in Issued
  PROVE  /\ Posted(i) <=> WritingAt(i) # {} \/ ArrivedAt(i) # {}
         /\ \A x, y \in WritingAt(i) : x = y
         /\ \A x, y \in ArrivedAt(i) : x = y
         /\ WritingAt(i) = {} \/ ArrivedAt(i) = {}
<1> DEFINE P == Pending(posting)
           r(c) == host.reads[c]
<1>1. /\ CqsOk /\ posting \in Seq(Call) /\ cq \in [CQ -> CompletionQueue]
      /\ host.cqs \subseteq CQ /\ i \in Tag
  <2>1. host \in Host /\ cmd \in Seq(Command) /\ Len(cmd) <= MaxCommands
    BY Zenon DEF Inv, Typed
  <2>2. host.cqs \subseteq CQ
    BY <2>1 DEF Host
  <2>3. i \in Tag
    <3>1. DOMAIN cmd = 1 .. Len(cmd) /\ Len(cmd) \in Nat
      BY <2>1, LenProperties
    <3>2. MaxCommands \in Nat
      BY ControllerAssumption, Zenon DEF ControllerAssumption
    <3> QED
      BY <2>1, <3>1, <3>2 DEF Issued, Tag
  <2> QED
    BY <2>2, <2>3, Zenon DEF Inv, Typed
<1>2. ASSUME NEW c \in host.cqs
      PROVE  /\ CqOk(c, cq[c], r(c), P, OutstandingTo(c)) /\ cq[c] \in CompletionQueue
             /\ \A s \in Slot(CqSize) : cq[c].ring[s] \in Entry
  <2>1. CqOk(c, cq[c], r(c), P, OutstandingTo(c))
    BY <1>1, Zenon DEF CqsOk
  <2>2. cq[c] \in CompletionQueue
    BY <1>1
  <2>3. \A s \in Slot(CqSize) : cq[c].ring[s] \in Entry
    BY <2>2 DEF CompletionQueue
  <2> QED
    BY <2>1, <2>2, <2>3
<1> HIDE DEF P, r
<1>3. ASSUME NEW c \in host.cqs, NEW s \in Slot(CqSize), Holds(c, cq[c], r(c), P, s, i)
      PROVE  c = CompletionQueueOf(i)
  <2>1. i \in OutstandingTo(c)
    BY <1>1, <1>2, <1>3, Zenon DEF CqOk
  <2> QED
    BY <2>1 DEF OutstandingTo
<1>4. ASSUME NEW c \in host.cqs, NEW s \in Slot(CqSize)
      PROVE  Landed(cq[c], r(c), s, i) <=>
               cq[c].ring[s].id = i /\ cq[c].ring[s].phase = Expected(r(c), s)
  <2>1. cq[c].ring[s] \in Entry
    BY <1>2, Zenon
  <2> DEFINE e == cq[c].ring[s]
             p == Expected(r(c), s)
  <2>2. p \in BOOLEAN
    BY DEF Expected
  <2> HIDE DEF e, p
  <2>3. e = [id |-> i, phase |-> p] <=> e.id = i /\ e.phase = p
    <3>1. e \in Entry
      BY <2>1, Zenon DEF e
    <3>2. e = [id |-> e.id, phase |-> e.phase]
      BY <3>1 DEF Entry
    <3>3. [id |-> i, phase |-> p].id = i /\ [id |-> i, phase |-> p].phase = p
      BY Zenon
    <3> QED
      BY <3>2, <3>3, Zenon
  <2> QED
    BY <2>3, Zenon DEF Landed, e, p
<1>5. ASSUME NEW x
      PROVE  x \in ArrivedAt(i) <=>
               \E c \in host.cqs : \E s \in Slot(CqSize) :
                 x = <<c, s>> /\ Landed(cq[c], r(c), s, i)
  <2>1. ASSUME x \in ArrivedAt(i)
        PROVE  \E c \in host.cqs : \E s \in Slot(CqSize) :
                 x = <<c, s>> /\ Landed(cq[c], r(c), s, i)
    <3>1. /\ x \in CQ \X Slot(CqSize) /\ x[1] \in host.cqs /\ cq[x[1]].ring[x[2]].id = i
          /\ cq[x[1]].ring[x[2]].phase = Expected(r(x[1]), x[2])
      BY <2>1, Zenon DEF ArrivedAt, r
    <3>2. x[2] \in Slot(CqSize) /\ x = <<x[1], x[2]>>
      BY <3>1
    <3>3. Landed(cq[x[1]], r(x[1]), x[2], i)
      BY <1>4, <3>1, <3>2, Zenon
    <3> QED
      BY <3>1, <3>2, <3>3, Zenon
  <2>2. ASSUME NEW c \in host.cqs, NEW s \in Slot(CqSize), x = <<c, s>>,
               Landed(cq[c], r(c), s, i)
        PROVE  x \in ArrivedAt(i)
    <3>1. x \in CQ \X Slot(CqSize) /\ x[1] = c /\ x[2] = s
      BY <1>1, <2>2
    <3>2. cq[c].ring[s].id = i /\ cq[c].ring[s].phase = Expected(r(c), s)
      BY <1>4, <2>2, Zenon
    <3> QED
      BY <3>1, <3>2, Zenon DEF ArrivedAt, r
  <2> QED
    BY <2>1, <2>2, Zenon
<1>6. ASSUME NEW x
      PROVE  x \in WritingAt(i) <=> \E k \in DOMAIN posting : \E n \in WritesAt(k, i) : x = <<k, n>>
  <2>1. x \in WritingAt(i) <=> \E k \in DOMAIN posting : x \in {k} \X WritesAt(k, i)
    BY Zenon DEF WritingAt
  <2>2. \A k : x \in {k} \X WritesAt(k, i) <=> \E n \in WritesAt(k, i) : x = <<k, n>>
    OBVIOUS
  <2> QED
    BY <2>1, <2>2, Zenon
<1>7. ASSUME NEW k \in DOMAIN posting, NEW n \in WritesAt(k, i)
      PROVE  \E c \in host.cqs : \E s \in Slot(CqSize) : InFlight(c, r(c), P, s, i)
  <2> DEFINE w == posting[k].writes[n]
  <2>1. n \in DOMAIN posting[k].writes /\ w.entry.id = i
    BY Zenon DEF WritesAt
  <2>2. w \in Write /\ w \in P
    BY <1>1, <2>1, WritesOfCall, Zenon DEF P
  <2> HIDE DEF w
  <2>3. w.cq \in host.cqs
    BY <1>1, <2>2, Zenon DEF CqsOk, P
  <2>4. w.entry.phase = Expected(r(w.cq), w.slot)
    BY <1>2, <2>2, <2>3, Zenon DEF CqOk
  <2>5. /\ w.slot \in Slot(CqSize) /\ w = [cq |-> w.cq, slot |-> w.slot, entry |-> w.entry]
        /\ w.entry = [id |-> w.entry.id, phase |-> w.entry.phase]
    BY <2>2 DEF Write, Entry
  <2>6. InFlight(w.cq, r(w.cq), P, w.slot, i)
    BY <2>1, <2>2, <2>4, <2>5, Zenon DEF InFlight
  <2> QED
    BY <2>3, <2>5, <2>6, Zenon
<1>8. ASSUME NEW c, NEW s, InFlight(c, r(c), P, s, i)
      PROVE  WritingAt(i) # {}
  <2> DEFINE w == [cq |-> c, slot |-> s, entry |-> [id |-> i, phase |-> Expected(r(c), s)]]
  <2>1. w \in P
    BY <1>8, Zenon DEF InFlight
  <2>2. w.entry.id = i
    <3>1. w.entry = [id |-> i, phase |-> Expected(r(c), s)]
      BY Zenon
    <3>2. [id |-> i, phase |-> Expected(r(c), s)].id = i
      BY Zenon
    <3> QED
      BY <3>1, <3>2, Zenon
  <2> HIDE DEF w
  <2>3. PICK k \in DOMAIN posting : Occurs(w, posting[k].writes)
    BY <2>1, Zenon DEF P, Pending
  <2>4. PICK n \in DOMAIN posting[k].writes : posting[k].writes[n] = w
    BY <2>3, Zenon DEF Occurs
  <2>5. n \in WritesAt(k, i)
    BY <2>2, <2>4, Zenon DEF WritesAt
  <2> QED
    BY <1>6, <2>5, Zenon
<1>9. Posted(i) <=> WritingAt(i) # {} \/ ArrivedAt(i) # {}
  <2>1. Posted(i) <=> \E c \in host.cqs : \E s \in Slot(CqSize) :
                        Landed(cq[c], r(c), s, i) \/ InFlight(c, r(c), P, s, i)
    BY Zenon DEF Posted, Held, Holds, P, r
  <2>2. ASSUME WritingAt(i) # {} PROVE Posted(i)
    BY <1>6, <1>7, <2>1, <2>2, Zenon
  <2>3. ASSUME ArrivedAt(i) # {} PROVE Posted(i)
    BY <1>5, <2>1, <2>3, Zenon
  <2>4. ASSUME Posted(i) PROVE WritingAt(i) # {} \/ ArrivedAt(i) # {}
    BY <1>5, <1>8, <2>1, <2>4, Zenon
  <2> QED
    BY <2>2, <2>3, <2>4
<1>10. ASSUME NEW x \in WritingAt(i), NEW y \in WritingAt(i) PROVE x = y
  <2>1. PICK k \in DOMAIN posting : \E n \in WritesAt(k, i) : x = <<k, n>>
    BY <1>6, Zenon
  <2>2. PICK m \in WritesAt(k, i) : x = <<k, m>>
    BY <2>1, Zenon
  <2>3. PICK l \in DOMAIN posting : \E n \in WritesAt(l, i) : y = <<l, n>>
    BY <1>6, Zenon
  <2>4. PICK n \in WritesAt(l, i) : y = <<l, n>>
    BY <2>3, Zenon
  <2>5. /\ m \in DOMAIN posting[k].writes /\ n \in DOMAIN posting[l].writes
        /\ posting[k].writes[m].entry.id = posting[l].writes[n].entry.id
    BY <2>2, <2>4, Zenon DEF WritesAt
  <2>6. k = l /\ m = n
    BY <1>1, <2>5, ZenonT(40) DEF CqsOk, WritesApart
  <2> QED
    BY <2>2, <2>4, <2>6, Zenon
<1>11. ASSUME NEW x \in ArrivedAt(i), NEW y \in ArrivedAt(i) PROVE x = y
  <2>1. PICK c \in host.cqs : \E s \in Slot(CqSize) : x = <<c, s>> /\ Landed(cq[c], r(c), s, i)
    BY <1>5, Zenon
  <2>2. PICK s \in Slot(CqSize) : x = <<c, s>> /\ Landed(cq[c], r(c), s, i)
    BY <2>1, Zenon
  <2>3. PICK d \in host.cqs : \E t \in Slot(CqSize) : y = <<d, t>> /\ Landed(cq[d], r(d), t, i)
    BY <1>5, Zenon
  <2>4. PICK t \in Slot(CqSize) : y = <<d, t>> /\ Landed(cq[d], r(d), t, i)
    BY <2>3, Zenon
  <2>5. c = d
    BY <1>3, <2>2, <2>4, Zenon DEF Holds
  <2>6. Holds(c, cq[c], r(c), P, s, i) /\ Holds(c, cq[c], r(c), P, t, i)
    BY <2>2, <2>4, <2>5, Zenon DEF Holds
  <2>7. s = t
    BY <1>1, <1>2, <2>6, Zenon DEF CqOk
  <2> QED
    BY <2>2, <2>4, <2>5, <2>7, Zenon
<1>12. ASSUME NEW x \in WritingAt(i), NEW y \in ArrivedAt(i) PROVE FALSE
  <2>1. PICK c \in host.cqs : \E s \in Slot(CqSize) : InFlight(c, r(c), P, s, i)
    BY <1>6, <1>7, Zenon
  <2>2. PICK s \in Slot(CqSize) : InFlight(c, r(c), P, s, i)
    BY <2>1, Zenon
  <2>3. PICK d \in host.cqs : \E t \in Slot(CqSize) : y = <<d, t>> /\ Landed(cq[d], r(d), t, i)
    BY <1>5, Zenon
  <2>4. PICK t \in Slot(CqSize) : Landed(cq[d], r(d), t, i)
    BY <2>3, Zenon
  <2>5. c = d
    BY <1>3, <2>2, <2>4, Zenon DEF Holds
  <2>6. Holds(c, cq[c], r(c), P, s, i) /\ Holds(c, cq[c], r(c), P, t, i)
    BY <2>2, <2>4, <2>5, Zenon DEF Holds
  <2>7. s = t
    BY <1>1, <1>2, <2>6, Zenon DEF CqOk
  <2>8. ~Landed(cq[c], r(c), s, i)
    BY <1>1, <1>2, <2>2, <2>6, Zenon DEF CqOk
  <2> QED
    BY <2>4, <2>5, <2>7, <2>8, Zenon
<1> QED
  BY <1>9, <1>10, <1>11, <1>12, Zenon

\* At most one command has an index in a queue without duplicates.
LEMMA QueueOnce ==
  ASSUME NEW queue, NoDuplicates(queue), NEW i
  PROVE  /\ Occurs(i, queue) <=> QueueAt(queue, i) # {}
         /\ \A j, k \in QueueAt(queue, i) : j = k
BY Zenon DEF NoDuplicates, Occurs, QueueAt

\* The places of a command, by the stage that they stand for.
LEMMA OnePlace ==
  ASSUME Inv, EveryQueueFetched, NEW i \in Issued
  PROVE  /\ \A x, y \in Places(i) : x = y
         /\ Places(i) # {} <=> Queued(i) \/ Fifo(i) \/ Exec(i) \/ Finished(i) \/ Posted(i)
<1> DEFINE In(t, S, x) == \E y \in S : x = <<t, y>>
<1>1. \A t, S, x : x \in {t} \X S <=> In(t, S, x)
  OBVIOUS
<1> HIDE DEF In
<1> DEFINE AtQueue(x) == In("queued", WaitingAt(i), x) \/ In("fetching", ReadAt(i), x)
           AtFifo(x) == In("fifo", QueueAt(lSQFIFO, i), x)
           AtExec(x) == In("executing", executing \cap {i}, x)
           AtEnd(x) == In("finished", QueueAt(lCQFIFO, i), x)
           AtPost(x) == In("writing", WritingAt(i), x) \/ In("posted", ArrivedAt(i), x)
<1>2. \A x : x \in Places(i) <=>
               AtQueue(x) \/ AtFifo(x) \/ AtExec(x) \/ AtEnd(x) \/ AtPost(x)
  BY <1>1, PlacesAre, Zenon
<1>3. Stage(i) /\ NoDuplicates(lSQFIFO) /\ NoDuplicates(lCQFIFO)
  BY Zenon DEF Inv, Stages
<1>4. /\ Queued(i) <=> \E x : AtQueue(x)
      /\ \A x, y : AtQueue(x) /\ AtQueue(y) => x = y
  BY QueuedOnce, Zenon DEF In
<1>5. /\ Posted(i) <=> \E x : AtPost(x)
      /\ \A x, y : AtPost(x) /\ AtPost(y) => x = y
  BY PostedOnce, Zenon DEF In
<1>6. /\ Fifo(i) <=> \E x : AtFifo(x)
      /\ \A x, y : AtFifo(x) /\ AtFifo(y) => x = y
  BY <1>3, QueueOnce, Zenon DEF In, Fifo
<1>7. /\ Finished(i) <=> \E x : AtEnd(x)
      /\ \A x, y : AtEnd(x) /\ AtEnd(y) => x = y
  BY <1>3, QueueOnce, Zenon DEF In, Finished
<1>8. /\ Exec(i) <=> \E x : AtExec(x)
      /\ \A x, y : AtExec(x) /\ AtExec(y) => x = y
  BY Zenon DEF In, Exec
<1> HIDE DEF AtQueue, AtFifo, AtExec, AtEnd, AtPost
<1>9. Places(i) # {} <=> Queued(i) \/ Fifo(i) \/ Exec(i) \/ Finished(i) \/ Posted(i)
  BY <1>2, <1>4, <1>5, <1>6, <1>7, <1>8, Zenon
<1>10. ASSUME NEW x \in Places(i), NEW y \in Places(i) PROVE x = y
  <2>1. /\ AtQueue(x) \/ AtFifo(x) \/ AtExec(x) \/ AtEnd(x) \/ AtPost(x)
        /\ AtQueue(y) \/ AtFifo(y) \/ AtExec(y) \/ AtEnd(y) \/ AtPost(y)
    BY <1>2, Zenon
  <2>2. CASE Queued(i)
    BY <1>3, <1>4, <1>5, <1>6, <1>7, <1>8, <2>1, <2>2, Zenon DEF Stage
  <2>3. CASE Fifo(i)
    BY <1>3, <1>4, <1>5, <1>6, <1>7, <1>8, <2>1, <2>3, Zenon DEF Stage
  <2>4. CASE Exec(i)
    BY <1>3, <1>4, <1>5, <1>6, <1>7, <1>8, <2>1, <2>4, Zenon DEF Stage
  <2>5. CASE Finished(i)
    BY <1>3, <1>4, <1>5, <1>6, <1>7, <1>8, <2>1, <2>5, Zenon DEF Stage
  <2>6. CASE Posted(i)
    BY <1>3, <1>4, <1>5, <1>6, <1>7, <1>8, <2>1, <2>6, Zenon DEF Stage
  <2> QED
    BY <1>9, <2>2, <2>3, <2>4, <2>5, <2>6, Zenon
<1> QED
  BY <1>9, <1>10, Zenon

\* No command is lost or duplicated on its way through submission queue, DMA read,
\* lSQFIFO, subsystem, lCQFIFO, DMA write and completion queue: until the host saw it
\* complete it is in one place, then in none, but for a shutdown (controller.cc:1442-1566
\* and 1631-1664, subsystem.cc).  Queues of low priority in weighted arbitration are left
\* out, because nothing fetches from them.
THEOREM CommandsStayInOnePlace ==
  ASSUME HostDrains, EveryQueueFetched
  PROVE  Spec => []InOnePlace
<1>1. Inv => InOnePlace
  <2> SUFFICES ASSUME Inv, NEW i \in Issued
               PROVE  \/ Cardinality(Places(i)) = 1 /\ i \notin done
                      \/ Places(i) = {} /\ (i \in done \/ status = "complete")
    BY Zenon DEF InOnePlace
  <2>1. /\ \A x, y \in Places(i) : x = y
        /\ Places(i) # {} <=> Queued(i) \/ Fifo(i) \/ Exec(i) \/ Finished(i) \/ Posted(i)
    BY OnePlace
  <2>2. Stage(i) /\ (i \in Live <=> i \notin done)
    BY Zenon DEF Inv, Stages, Live
  <2>3. CASE Places(i) = {}
    <3>1. i \in done \/ status = "complete"
      BY <2>1, <2>2, <2>3, Zenon DEF Stage
    <3> QED
      BY <2>3, <3>1
  <2>4. CASE Places(i) # {}
    <3>1. PICK x : x \in Places(i)
      BY <2>4, Zenon
    <3>2. Places(i) = {x}
      BY <2>1, <3>1
    <3>3. Cardinality(Places(i)) = 1
      BY <3>2, FS_Singleton, Zenon
    <3>4. i \notin done
      BY <2>1, <2>2, <2>4, Zenon DEF Stage
    <3> QED
      BY <3>3, <3>4
  <2> QED
    BY <2>3, <2>4
<1> QED
  BY <1>1, ControllerInvariant, PTL
=============================================================================
