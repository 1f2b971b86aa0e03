------------------------- MODULE PageMapping_proofs -------------------------
(***************************************************************************)
(* Proofs about the page-level mapping: type correctness, the agreement of *)
(* the mapping table with the flash blocks, the soundness of the free list *)
(* and the order of programming; that no block is lost and wear levelled;  *)
(* that the mapping implements LogicalSpace; all for every geometry with   *)
(* superpages (IOUnitInPage > 1), every configuration and every number of  *)
(* blocks.  And that the code meets none of its own checks (PlainConfig).  *)
(***************************************************************************)
EXTENDS PageMapping, DataLemmas

-----------------------------------------------------------------------------
(* Sequences in which an element is put. *)

\* InsertAt() puts in one element and keeps the others in order.
LEMMA InsertAtProperties ==
  ASSUME NEW S, NEW s \in Seq(S), NEW i \in 1 .. Len(s) + 1, NEW e \in S
  PROVE  /\ InsertAt(s, i, e) \in Seq(S)
         /\ Len(InsertAt(s, i, e)) = Len(s) + 1
         /\ \A j \in 1 .. i - 1 : InsertAt(s, i, e)[j] = s[j]
         /\ InsertAt(s, i, e)[i] = e
         /\ \A j \in i + 1 .. Len(s) + 1 : InsertAt(s, i, e)[j] = s[j - 1]
<1> DEFINE a == SubSeq(s, 1, i - 1)
           b == SubSeq(s, i, Len(s))
<1>0. Len(s) \in Nat
  BY LenProperties
<1>1. \A j \in 1 .. Len(s) : s[j] \in S
  BY ElementOfSeq
<1>2. /\ a \in Seq(S) /\ Len(a) = i - 1
      /\ \A j \in 1 .. i - 1 : a[j] = s[j]
  <2>1. \A j \in 1 .. i - 1 : s[j] \in S
    BY <1>0, <1>1
  <2>2. /\ a \in Seq(S)
        /\ Len(a) = IF 1 <= i - 1 THEN (i - 1) - 1 + 1 ELSE 0
        /\ \A j \in 1 .. (i - 1) - 1 + 1 : a[j] = s[1 + j - 1]
    BY <1>0, <2>1, SubSeqProperties
  <2> QED
    BY <1>0, <2>2
<1>3. /\ b \in Seq(S) /\ Len(b) = Len(s) - i + 1
      /\ \A j \in 1 .. Len(s) - i + 1 : b[j] = s[i + j - 1]
  <2>1. \A j \in i .. Len(s) : s[j] \in S
    BY <1>0, <1>1
  <2>2. /\ b \in Seq(S)
        /\ Len(b) = IF i <= Len(s) THEN Len(s) - i + 1 ELSE 0
        /\ \A j \in 1 .. Len(s) - i + 1 : b[j] = s[i + j - 1]
    BY <1>0, <2>1, SubSeqProperties
  <2> QED
    BY <1>0, <2>2
<1> HIDE DEF a, b
<1>4. <<e>> \in Seq(S) /\ Len(<<e>>) = 1 /\ <<e>>[1] = e
  OBVIOUS
<1> DEFINE ae == a \o <<e>>
<1>5. /\ ae \in Seq(S)
      /\ Len(ae) = i
      /\ \A j \in 1 .. i : ae[j] = IF j < i THEN s[j] ELSE e
  <2>1. /\ ae \in Seq(S)
        /\ Len(ae) = Len(a) + Len(<<e>>)
        /\ \A j \in 1 .. Len(a) + Len(<<e>>) :
             ae[j] = IF j <= Len(a) THEN a[j] ELSE <<e>>[j - Len(a)]
    BY <1>2, <1>4, ConcatProperties
  <2> QED
    BY <1>0, <1>2, <1>4, <2>1
<1> HIDE DEF ae
<1>6. /\ ae \o b \in Seq(S)
      /\ Len(ae \o b) = Len(ae) + Len(b)
      /\ \A j \in 1 .. Len(ae) + Len(b) :
           (ae \o b)[j] = IF j <= Len(ae) THEN ae[j] ELSE b[j - Len(ae)]
  BY <1>3, <1>5, ConcatProperties
<1>7. /\ \A j \in 1 .. i - 1 : (ae \o b)[j] = s[j]
      /\ (ae \o b)[i] = e
      /\ \A j \in i + 1 .. Len(s) + 1 : (ae \o b)[j] = s[j - 1]
  <2>1. \A j \in 1 .. i : (ae \o b)[j] = ae[j]
    BY <1>0, <1>3, <1>5, <1>6
  <2>2. ASSUME NEW j \in i + 1 .. Len(s) + 1 PROVE (ae \o b)[j] = s[j - 1]
    <3>1. j - i \in 1 .. Len(s) - i + 1 /\ i + (j - i) - 1 = j - 1
      BY <1>0
    <3>2. (ae \o b)[j] = b[j - i]
      BY <1>0, <1>3, <1>5, <1>6
    <3> QED
      BY <1>3, <3>1, <3>2
  <2>3. i \in 1 .. i /\ \A j \in 1 .. i - 1 : j \in 1 .. i /\ j < i
    BY <1>0
  <2>4. (ae \o b)[i] = e /\ \A j \in 1 .. i - 1 : (ae \o b)[j] = s[j]
    BY <1>5, <2>1, <2>3
  <2> QED
    BY <2>2, <2>4
<1>8. InsertAt(s, i, e) = ae \o b
  BY DEF InsertAt, ae, a, b
<1> QED
  <2>1. Len(ae \o b) = Len(s) + 1
    BY <1>0, <1>3, <1>5, <1>6
  <2> QED
    BY <1>6, <1>7, <1>8, <2>1, Zenon

-----------------------------------------------------------------------------
(* The inductive invariant. *)

\* Table and blocks: each mapped unit is where the table says, and the pages
\* of a block are programmed in order.
FlashInv ==
  /\ table \in [LPN -> [Unit -> Location \cup {Unmapped}]]
  /\ content \in [Block -> [Page -> [Unit -> Content]]]
  /\ nextPage \in [Block -> [Unit -> 0 .. PagesInBlock]]
  /\ MappingExact
  /\ ProgramOrder

\* The allocator: lanes hold blocks; a block is in use or free, never both.
AllocInv ==
  /\ blocks \subseteq Block
  /\ freeBlocks \in Seq(Block)
  /\ nFreeBlocks = Len(freeBlocks)
  /\ \A i, j \in 1 .. Len(freeBlocks) : freeBlocks[i] = freeBlocks[j] => i = j
  /\ \A i \in 1 .. Len(freeBlocks) : freeBlocks[i] \notin blocks
  /\ lastFreeBlock \in [Lane -> Block]
  /\ lastFreeBlockIndex \in Lane
  /\ lastFreeBlockIOMap \subseteq Unit
  /\ bReclaimMore \in BOOLEAN

\* A block that is not in use is blank: the block a lane takes from the free
\* list can be programmed from its first page.
IdleBlank ==
  \A b \in Block \ blocks, u \in Unit :
    /\ nextPage[b][u] = 0
    /\ \A p \in Page : content[b][p][u] = Erased

\* The call stack: filling stops at its target, and a collection in progress
\* is at one of its victims.
StackInv ==
  /\ eraseCount \in [Block -> Nat]
  /\ pc \in {"filling", "ready", "select", "copy", "erase", "panicked"}
  /\ filled \in 0 .. PagesToFill
  /\ pc = "filling" => filled < PagesToFill
  /\ victims \in Seq(Block)
  /\ cursor \in [victim : Nat \ {0}, page : 0 .. PagesInBlock]
  /\ pc \in {"copy", "erase"} => cursor.victim \in 1 .. Len(victims)
  /\ panic # NoPanic <=> pc = "panicked"

IInv == FlashInv /\ AllocInv /\ IdleBlank /\ StackInv

\* What a unit may hold: valid, erased and stale are apart, and invalidating
\* leaves nothing valid and erases nothing.
LEMMA ContentFacts ==
  /\ LPN \subseteq Content
  /\ Erased \in Content \ LPN
  /\ \A c \in Content : /\ Invalidated(c) \in Content \ LPN
                        /\ Invalidated(c) = Erased <=> c = Erased
<1>1. TotalLogicalPages \in Nat \ {0}
  BY GeometryAssumption
<1>2. \A l \in LPN : Stale(l) \in Content \ LPN /\ Stale(l) # Erased
  BY <1>1 DEF LPN, Stale, Content, Erased
<1>3. \A c \in Content : c \in LPN \/ c = Erased \/ \E l \in LPN : c = Stale(l)
  BY DEF Content
<1>4. LPN \subseteq Content /\ Erased \in Content \ LPN
  BY <1>1 DEF LPN, Content, Erased
<1> QED
  BY <1>2, <1>3, <1>4 DEF Invalidated

\* Locations are not the empty mapping, and pages and blocks are numbers.
LEMMA LocationFacts ==
  /\ Unmapped \notin Location
  /\ \A b \in Block, p \in Page : <<b, p>> \in Location
  /\ PagesInBlock \in Nat \ {0} /\ Page = 0 .. PagesInBlock - 1
  /\ PagesInBlock \notin Page
BY GeometryAssumption DEF Location, Unmapped, Block, Page

-----------------------------------------------------------------------------
(* Programming, discarding and erasing keep table and blocks in agreement. *)

\* Program() moves units to erased pages of d: it keeps table and blocks in
\* agreement if old is where the table has the units it moves.
LEMMA ProgramKeepsFlash ==
  ASSUME FlashInv, NEW d \in Block, NEW units \in SUBSET Unit,
         NEW owner, NEW old,
         \A u \in units : /\ owner[u] \in LPN
                         /\ table[owner[u]][u] = old[u]
                         /\ nextPage[d][u] \in Page
                         /\ content[d][nextPage[d][u]][u] = Erased,
         Program(d, units, owner, old)
  PROVE  FlashInv'
<1>1. /\ table' \in [LPN -> [Unit -> Location \cup {Unmapped}]]
      /\ \A l \in LPN, u \in Unit : table'[l][u] =
           IF u \in units /\ owner[u] = l THEN <<d, nextPage[d][u]>>
                                         ELSE table[l][u]
  BY LocationFacts DEF FlashInv, Program
<1>2. /\ content' \in [Block -> [Page -> [Unit -> Content]]]
      /\ \A b \in Block, p \in Page, u \in Unit : content'[b][p][u] =
           CASE u \in units /\ b = d /\ p = nextPage[d][u] -> owner[u]
             [] /\ u \in units /\ ~(b = d /\ p = nextPage[d][u])
                /\ old[u] = <<b, p>> -> Invalidated(content[b][p][u])
             [] OTHER -> content[b][p][u]
  BY ContentFacts DEF FlashInv, Program
<1>3. /\ nextPage' \in [Block -> [Unit -> 0 .. PagesInBlock]]
      /\ \A b \in Block, u \in Unit : nextPage'[b][u] =
           IF b = d /\ u \in units THEN nextPage[b][u] + 1 ELSE nextPage[b][u]
  BY LocationFacts DEF FlashInv, Program
<1>4. MappingExact'
  <2> SUFFICES ASSUME NEW l \in LPN, NEW u \in Unit, NEW b \in Block, NEW p \in Page
               PROVE  table'[l][u] = <<b, p>> <=> content'[b][p][u] = l
    BY DEF MappingExact
  <2>1. /\ \A k \in LPN : table[k][u] = <<b, p>> <=> content[b][p][u] = k
        /\ content[b][p][u] \in Content
    BY DEF FlashInv, MappingExact
  <2>2. CASE u \notin units
    <3>1. table'[l][u] = table[l][u]
      BY <1>1, <2>2
    <3>2. content'[b][p][u] = content[b][p][u]
      BY <1>2, <2>2
    <3> QED
      BY <2>1, <3>1, <3>2
  <2>3. CASE u \in units /\ b = d /\ p = nextPage[d][u]
    <3>1. content[b][p][u] = Erased /\ owner[u] \in LPN
      BY <2>3
    <3>2. content'[b][p][u] = owner[u]
      BY <1>2, <2>3
    <3>3. table[l][u] # <<b, p>>
      BY <2>1, <3>1, ContentFacts
    <3>4. table'[l][u] = IF owner[u] = l THEN <<b, p>> ELSE table[l][u]
      BY <1>1, <2>3
    <3> QED
      BY <3>2, <3>3, <3>4
  <2>4. CASE u \in units /\ ~(b = d /\ p = nextPage[d][u])
    <3>1. owner[u] \in LPN /\ table[owner[u]][u] = old[u]
      BY <2>4
    <3>2. table[owner[u]][u] = <<b, p>> <=> content[b][p][u] = owner[u]
      BY <2>1, <3>1, Zenon
    <3>3. ASSUME owner[u] = l PROVE table'[l][u] # <<b, p>>
      <4>1. table'[l][u] = <<d, nextPage[d][u]>>
        BY <1>1, <2>4, <3>3
      <4> QED
        BY <2>4, <4>1
    <3>4. owner[u] # l => table'[l][u] = table[l][u]
      BY <1>1, <2>4
    <3>5. content'[b][p][u] = IF old[u] = <<b, p>>
                              THEN Invalidated(content[b][p][u])
                              ELSE content[b][p][u]
      BY <1>2, <2>4
    <3> QED
      BY <2>1, <3>1, <3>2, <3>3, <3>4, <3>5, ContentFacts
  <2> QED
    BY <2>2, <2>3, <2>4
<1>5. ProgramOrder'
  <2> SUFFICES ASSUME NEW b \in Block, NEW p \in Page, NEW u \in Unit
               PROVE  content'[b][p][u] = Erased <=> p >= nextPage'[b][u]
    BY DEF ProgramOrder
  <2>1. /\ content[b][p][u] = Erased <=> p >= nextPage[b][u]
        /\ content[b][p][u] \in Content
        /\ nextPage[b][u] \in Int /\ p \in Int
    BY LocationFacts DEF FlashInv, ProgramOrder
  <2>2. CASE u \notin units
    BY <1>2, <1>3, <2>1, <2>2
  <2>3. CASE u \in units /\ b = d /\ p = nextPage[d][u]
    BY <1>2, <1>3, <2>1, <2>3, ContentFacts
  <2>4. CASE u \in units /\ ~(b = d /\ p = nextPage[d][u])
    <3>1. content'[b][p][u] \in {Invalidated(content[b][p][u]),
                                 content[b][p][u]}
      BY <1>2, <2>4
    <3>2. content'[b][p][u] = Erased <=> content[b][p][u] = Erased
      BY <2>1, <3>1, ContentFacts
    <3>3. nextPage'[b][u] = IF b = d THEN nextPage[b][u] + 1 ELSE nextPage[b][u]
      BY <1>3, <2>4
    <3> QED
      BY <2>1, <2>4, <3>2, <3>3
  <2> QED
    BY <2>2, <2>3, <2>4
<1> QED
  BY <1>1, <1>2, <1>3, <1>4, <1>5 DEF FlashInv

\* Programming d leaves the blocks that are not in use blank.
LEMMA ProgramKeepsBlank ==
  ASSUME FlashInv, IdleBlank, NEW d \in Block, NEW units \in SUBSET Unit,
         NEW owner, NEW old, Program(d, units, owner, old),
         blocks' = blocks \cup {d}
  PROVE  IdleBlank'
<1> SUFFICES ASSUME NEW b \in Block \ (blocks \cup {d}), NEW u \in Unit
             PROVE  /\ nextPage'[b][u] = 0
                    /\ \A p \in Page : content'[b][p][u] = Erased
  BY DEF IdleBlank
<1>1. nextPage[b][u] = 0 /\ \A p \in Page : content[b][p][u] = Erased
  BY DEF IdleBlank
<1>2. nextPage'[b] = nextPage[b]
  BY DEF Program, FlashInv
<1>3. \A p \in Page : content'[b][p][u] \in {Invalidated(content[b][p][u]),
                                           content[b][p][u]}
  BY DEF Program, FlashInv
<1> QED
  BY <1>1, <1>2, <1>3, ContentFacts

\* Discard() takes away the only valid copy of every unit it unmaps.
LEMMA DiscardKeepsFlash ==
  ASSUME FlashInv, NEW lpns \in SUBSET LPN, Discard(lpns)
  PROVE  FlashInv'
<1>1. /\ table' \in [LPN -> [Unit -> Location \cup {Unmapped}]]
      /\ \A l \in LPN, u \in Unit :
           table'[l][u] = IF l \in lpns THEN Unmapped ELSE table[l][u]
  BY DEF FlashInv, Discard
<1>2. /\ content' \in [Block -> [Page -> [Unit -> Content]]]
      /\ \A b \in Block, p \in Page, u \in Unit :
           content'[b][p][u] = IF \E l \in lpns : table[l][u] = <<b, p>>
                               THEN Invalidated(content[b][p][u])
                               ELSE content[b][p][u]
  BY ContentFacts DEF FlashInv, Discard
<1>3. nextPage' = nextPage
  BY DEF Discard
<1>4. MappingExact'
  <2> SUFFICES ASSUME NEW l \in LPN, NEW u \in Unit, NEW b \in Block, NEW p \in Page
               PROVE  table'[l][u] = <<b, p>> <=> content'[b][p][u] = l
    BY DEF MappingExact
  <2>1. /\ \A k \in LPN : table[k][u] = <<b, p>> <=> content[b][p][u] = k
        /\ content[b][p][u] \in Content
    BY DEF FlashInv, MappingExact
  <2>2. CASE l \in lpns
    <3>1. table'[l][u] # <<b, p>>
      BY <1>1, <2>2, LocationFacts
    <3>2. CASE content[b][p][u] = l
      <4>1. table[l][u] = <<b, p>>
        BY <2>1, <3>2
      <4>2. content'[b][p][u] = Invalidated(content[b][p][u])
        BY <1>2, <2>2, <4>1
      <4> QED
        BY <2>1, <3>1, <4>2, ContentFacts
    <3>3. CASE content[b][p][u] # l
      <4>1. content'[b][p][u] \in {Invalidated(content[b][p][u]),
                                   content[b][p][u]}
        BY <1>2
      <4> QED
        BY <2>1, <3>1, <3>3, <4>1, ContentFacts
    <3> QED
      BY <3>2, <3>3
  <2>3. CASE l \notin lpns
    <3>1. table'[l][u] = table[l][u]
      BY <1>1, <2>3
    <3>2. CASE \E k \in lpns : table[k][u] = <<b, p>>
      <4>1. PICK k \in lpns : table[k][u] = <<b, p>>
        BY <3>2
      <4>2. content[b][p][u] = k /\ k # l /\ k \in LPN
        BY <2>1, <2>3, <4>1
      <4>3. content'[b][p][u] = Invalidated(content[b][p][u])
        BY <1>2, <3>2
      <4> QED
        BY <2>1, <3>1, <4>2, <4>3, ContentFacts
    <3>3. CASE ~ \E k \in lpns : table[k][u] = <<b, p>>
      <4>1. content'[b][p][u] = content[b][p][u]
        BY <1>2, <3>3
      <4> QED
        BY <2>1, <3>1, <4>1
    <3> QED
      BY <3>2, <3>3
  <2> QED
    BY <2>2, <2>3
<1>5. ProgramOrder'
  <2> SUFFICES ASSUME NEW b \in Block, NEW p \in Page, NEW u \in Unit
               PROVE  content'[b][p][u] = Erased <=> p >= nextPage[b][u]
    BY <1>3 DEF ProgramOrder
  <2>1. /\ content[b][p][u] = Erased <=> p >= nextPage[b][u]
        /\ content[b][p][u] \in Content
    BY DEF FlashInv, ProgramOrder
  <2>2. content'[b][p][u] \in {Invalidated(content[b][p][u]),
                               content[b][p][u]}
    BY <1>2
  <2> QED
    BY <2>1, <2>2, ContentFacts
<1> QED
  BY <1>1, <1>2, <1>3, <1>4, <1>5 DEF FlashInv

LEMMA DiscardKeepsBlank ==
  ASSUME FlashInv, IdleBlank, NEW lpns \in SUBSET LPN, Discard(lpns),
         blocks' = blocks
  PROVE  IdleBlank'
<1>1. \A b \in Block, p \in Page, u \in Unit :
        content'[b][p][u] \in {Invalidated(content[b][p][u]), content[b][p][u]}
  BY DEF Discard
<1> QED
  BY <1>1, ContentFacts DEF IdleBlank, Discard

\* Erasing a block without valid pages loses no mapped unit.
LEMMA EraseKeepsFlash ==
  ASSUME FlashInv, NEW b \in Block, ValidPages(b) = {},
         content' = [content EXCEPT ![b] =
                       [p \in Page |-> [u \in Unit |-> Erased]]],
         nextPage' = [nextPage EXCEPT ![b] = [u \in Unit |-> 0]],
         table' = table
  PROVE  FlashInv'
<1>1. /\ content' \in [Block -> [Page -> [Unit -> Content]]]
      /\ \A c \in Block, p \in Page, u \in Unit :
           content'[c][p][u] = IF c = b THEN Erased ELSE content[c][p][u]
  BY ContentFacts DEF FlashInv
<1>2. /\ nextPage' \in [Block -> [Unit -> 0 .. PagesInBlock]]
      /\ \A c \in Block, u \in Unit :
           nextPage'[c][u] = IF c = b THEN 0 ELSE nextPage[c][u]
  BY LocationFacts DEF FlashInv
<1>3. \A p \in Page, u \in Unit : content[b][p][u] \notin LPN
  BY DEF ValidPages, ValidUnits, IsValid
<1>4. MappingExact'
  BY <1>1, <1>3, ContentFacts DEF MappingExact, FlashInv
<1>5. ProgramOrder'
  BY <1>1, <1>2, LocationFacts DEF ProgramOrder, FlashInv
<1> QED
  BY <1>1, <1>2, <1>4, <1>5 DEF FlashInv

-----------------------------------------------------------------------------
(* The allocator. *)

\* getLastFreeBlock() goes round the lanes.
LEMMA NextLaneIsLane ==
  ASSUME AllocInv, NEW units
  PROVE  NextLane(units) \in Lane
<1>1. PageCountToMaxPerf \in Nat \ {0} /\ lastFreeBlockIndex \in Nat
  BY GeometryAssumption DEF AllocInv, Lane
<1>2. (lastFreeBlockIndex + 1) % PageCountToMaxPerf \in 0 .. PageCountToMaxPerf - 1
  BY <1>1
<1> QED
  BY <1>2 DEF NextLane, Lane, AllocInv

\* getFreeBlock() finds a position of a list that is not empty.
LEMMA FreeIndexIsIndex ==
  ASSUME AllocInv, nFreeBlocks > 0, NEW lane
  PROVE  FreeIndex(lane) \in 1 .. Len(freeBlocks)
<1> DEFINE same == {i \in 1 .. Len(freeBlocks) :
                      freeBlocks[i] % PageCountToMaxPerf = lane}
<1>1. Len(freeBlocks) \in Nat \ {0}
  BY LenProperties DEF AllocInv
<1>2. CASE same = {}
  BY <1>1, <1>2 DEF FreeIndex
<1>3. CASE same # {}
  <2>1. same \subseteq Nat
    BY <1>1
  <2>2. Min(same) \in same
    <3> HIDE DEF same
    <3> QED
      BY <1>3, <2>1, MinNat
  <2>3. FreeIndex(lane) = Min(same)
    BY <1>3 DEF FreeIndex
  <2> QED
    BY <2>2, <2>3
<1> QED
  BY <1>2, <1>3

\* A write that passes the sanity checks has a block to go to: the lane's own
\* one while that is not full, or else a free one, which is blank.
LEMMA DestinationIsOpen ==
  ASSUME FlashInv, AllocInv, IdleBlank, NEW units, AllocError(units) = NoPanic
  PROVE  /\ Active(units) \in blocks
         /\ Destination(units) \in Block
         /\ \A u \in Unit : nextPage[Destination(units)][u] \in Page
         /\ IsFull(Active(units)) =>
              /\ nFreeBlocks > 0
              /\ FreeIndex(NextLane(units)) \in 1 .. Len(freeBlocks)
              /\ Destination(units) = freeBlocks[FreeIndex(NextLane(units))]
         /\ ~IsFull(Active(units)) => Destination(units) = Active(units)
<1>1. Active(units) \in blocks
  BY DEF AllocError, NoPanic
<1>2. Len(freeBlocks) \in Nat /\ nFreeBlocks \in Nat
  BY LenProperties DEF AllocInv
<1>3. CASE ~IsFull(Active(units))
  <2>1. Destination(units) = Active(units) /\ Active(units) \in Block
    BY <1>1, <1>3 DEF Destination, AllocInv
  <2>2. \A u \in Unit : /\ nextPage[Active(units)][u] \in 0 .. PagesInBlock
                       /\ nextPage[Active(units)][u] # PagesInBlock
    BY <1>3, <2>1 DEF IsFull, FlashInv
  <2> QED
    BY <1>1, <1>3, <2>1, <2>2, LocationFacts
<1>4. CASE IsFull(Active(units))
  <2>1. nFreeBlocks # 0
    BY <1>1, <1>4 DEF AllocError, NoPanic
  <2>2. FreeIndex(NextLane(units)) \in 1 .. Len(freeBlocks)
    BY <1>2, <2>1, FreeIndexIsIndex
  <2>3. Destination(units) = freeBlocks[FreeIndex(NextLane(units))]
    BY <1>4 DEF Destination, FreeBlock
  <2>4. Destination(units) \in Block \ blocks
    BY <2>2, <2>3, ElementOfSeq DEF AllocInv
  <2>5. \A u \in Unit : nextPage[Destination(units)][u] = 0
    BY <2>4 DEF IdleBlank
  <2> QED
    BY <1>1, <1>2, <1>4, <2>1, <2>2, <2>3, <2>4, <2>5, LocationFacts
<1> QED
  BY <1>3, <1>4

\* Taking the destination moves at most one block from the free list into use.
LEMMA TakeDestinationKeepsAlloc ==
  ASSUME FlashInv, AllocInv, IdleBlank, NEW units \in SUBSET Unit,
         AllocError(units) = NoPanic, TakeDestination(units)
  PROVE  AllocInv' /\ blocks' = blocks \cup {Destination(units)}
<1> DEFINE d == Destination(units)
           n == FreeIndex(NextLane(units))
<1>1. /\ Active(units) \in blocks
      /\ d \in Block
      /\ IsFull(Active(units)) => nFreeBlocks > 0 /\ n \in 1 .. Len(freeBlocks)
                                 /\ d = freeBlocks[n]
      /\ ~IsFull(Active(units)) => d = Active(units)
  BY DestinationIsOpen
<1>2. /\ NextLane(units) \in Lane
      /\ Len(freeBlocks) \in Nat
  BY NextLaneIsLane, LenProperties DEF AllocInv
<1>3. lastFreeBlockIndex' \in Lane /\ lastFreeBlockIOMap' \subseteq Unit
  BY <1>2 DEF TakeDestination, AllocInv
<1> HIDE DEF d, n
<1>4. CASE ~IsFull(Active(units))
  <2>1. UNCHANGED <<lastFreeBlock, blocks, freeBlocks, nFreeBlocks, bReclaimMore>>
    BY <1>4 DEF TakeDestination
  <2> QED
    BY <1>1, <1>3, <1>4, <2>1 DEF AllocInv, d
<1>5. CASE IsFull(Active(units))
  <2>1. /\ lastFreeBlock' = [lastFreeBlock EXCEPT ![NextLane(units)] = d]
        /\ blocks' = blocks \cup {d}
        /\ freeBlocks' = RemoveAt(freeBlocks, n)
        /\ nFreeBlocks' = nFreeBlocks - 1
        /\ bReclaimMore' = TRUE
    BY <1>5 DEF TakeDestination, d, n
  <2>2. /\ freeBlocks' \in Seq(Block)
        /\ Len(freeBlocks') = Len(freeBlocks) - 1
        /\ \A j \in 1 .. Len(freeBlocks) - 1 :
             freeBlocks'[j] = IF j < n THEN freeBlocks[j] ELSE freeBlocks[j + 1]
    BY <1>1, <1>5, <2>1, RemoveAtProperties DEF AllocInv
  <2>3. /\ nFreeBlocks = Len(freeBlocks)
        /\ \A i, j \in 1 .. Len(freeBlocks) :
             freeBlocks[i] = freeBlocks[j] => i = j
        /\ \A i \in 1 .. Len(freeBlocks) : freeBlocks[i] \notin blocks
    BY DEF AllocInv
  <2>4. \A i, j \in 1 .. Len(freeBlocks') :
          freeBlocks'[i] = freeBlocks'[j] => i = j
    BY <1>1, <1>2, <1>5, <2>2, <2>3
  <2>5. \A i \in 1 .. Len(freeBlocks') : freeBlocks'[i] \notin blocks'
    BY <1>1, <1>2, <1>5, <2>1, <2>2, <2>3
  <2>6. nFreeBlocks' = Len(freeBlocks')
    BY <2>1, <2>2, <2>3
  <2>7. blocks' \subseteq Block /\ lastFreeBlock' \in [Lane -> Block]
    BY <1>1, <2>1 DEF AllocInv
  <2> QED
    BY <1>3, <2>1, <2>2, <2>4, <2>5, <2>6, <2>7 DEF AllocInv, d
<1> QED
  BY <1>4, <1>5

\* Every step that writes units: the block written, the allocator and the
\* table stay in agreement.
LEMMA WriteKeepsInvariants ==
  ASSUME FlashInv, AllocInv, IdleBlank, NEW units \in SUBSET Unit,
         NEW owner, NEW old,
         \A u \in units : owner[u] \in LPN /\ table[owner[u]][u] = old[u],
         AllocError(units) = NoPanic,
         ProgramError(Destination(units), units) = NoPanic,
         Program(Destination(units), units, owner, old),
         TakeDestination(units)
  PROVE  FlashInv' /\ AllocInv' /\ IdleBlank'
<1>1. /\ Destination(units) \in Block
      /\ \A u \in Unit : nextPage[Destination(units)][u] \in Page
  BY DestinationIsOpen
<1>2. \A u \in units :
        content[Destination(units)][nextPage[Destination(units)][u]][u] = Erased
  BY DEF ProgramError, NoPanic
<1>3. AllocInv' /\ blocks' = blocks \cup {Destination(units)}
  BY TakeDestinationKeepsAlloc
<1>4. FlashInv'
  BY <1>1, <1>2, ProgramKeepsFlash
<1>5. IdleBlank'
  BY <1>1, <1>3, ProgramKeepsBlank
<1> QED
  BY <1>3, <1>4, <1>5

\* FreeListPosition() is a place of the free list, or the one behind it.
LEMMA FreeListPositionIsPlace ==
  ASSUME AllocInv, NEW n
  PROVE  FreeListPosition(n) \in 1 .. Len(freeBlocks) + 1
<1> DEFINE S == {0} \cup {i \in 1 .. Len(freeBlocks) :
                            eraseCount[freeBlocks[i]] <= n}
<1>1. Len(freeBlocks) \in Nat
  BY LenProperties DEF AllocInv
<1>2. S \subseteq 0 .. Len(freeBlocks) /\ S # {}
  BY <1>1
<1>3. Max(S) \in S
  <2> HIDE DEF S
  <2> QED
    BY <1>1, <1>2, MaxNat
<1>4. Max(S) \in 0 .. Len(freeBlocks)
  <2> HIDE DEF S
  <2> QED
    BY <1>2, <1>3
<1> QED
  BY <1>1, <1>4 DEF FreeListPosition

\* eraseInternal() moves a block from use back to the free list, or out of
\* service.
LEMMA EraseKeepsAlloc ==
  ASSUME AllocInv, NEW b \in blocks, NEW n,
         blocks' = blocks \ {b},
         \/ /\ freeBlocks' = InsertAt(freeBlocks, FreeListPosition(n), b)
            /\ nFreeBlocks' = nFreeBlocks + 1
         \/ UNCHANGED <<freeBlocks, nFreeBlocks>>,
         UNCHANGED <<lastFreeBlock, lastFreeBlockIndex, lastFreeBlockIOMap,
                     bReclaimMore>>
  PROVE  AllocInv'
<1>1. /\ Len(freeBlocks) \in Nat
      /\ b \in Block
      /\ nFreeBlocks = Len(freeBlocks)
      /\ \A i, j \in 1 .. Len(freeBlocks) :
           freeBlocks[i] = freeBlocks[j] => i = j
      /\ \A i \in 1 .. Len(freeBlocks) : freeBlocks[i] \notin blocks
  BY LenProperties DEF AllocInv
<1>2. CASE UNCHANGED <<freeBlocks, nFreeBlocks>>
  BY <1>1, <1>2 DEF AllocInv
<1>3. CASE /\ freeBlocks' = InsertAt(freeBlocks, FreeListPosition(n), b)
           /\ nFreeBlocks' = nFreeBlocks + 1
  <2> DEFINE k == FreeListPosition(n)
  <2>1. k \in 1 .. Len(freeBlocks) + 1
    BY FreeListPositionIsPlace
  <2> HIDE DEF k
  <2>2. freeBlocks' = InsertAt(freeBlocks, k, b)
    BY <1>3 DEF k
  <2>3. /\ freeBlocks' \in Seq(Block)
        /\ Len(freeBlocks') = Len(freeBlocks) + 1
        /\ \A j \in 1 .. k - 1 : freeBlocks'[j] = freeBlocks[j]
        /\ freeBlocks'[k] = b
        /\ \A j \in k + 1 .. Len(freeBlocks) + 1 :
             freeBlocks'[j] = freeBlocks[j - 1]
    <3>1. freeBlocks \in Seq(Block)
      BY DEF AllocInv
    <3> QED
      BY <1>1, <2>1, <2>2, <3>1, InsertAtProperties
  <2>4. \A i, j \in 1 .. Len(freeBlocks') :
          freeBlocks'[i] = freeBlocks'[j] => i = j
    <3> DEFINE from(j) == IF j < k THEN j ELSE j - 1
    <3>1. \A j \in 1 .. Len(freeBlocks') :
            j # k => /\ from(j) \in 1 .. Len(freeBlocks)
                     /\ freeBlocks'[j] = freeBlocks[from(j)]
      BY <1>1, <2>1, <2>3
    <3>2. \A i, j \in 1 .. Len(freeBlocks') \ {k} : from(i) = from(j) => i = j
      BY <1>1, <2>1, <2>3
    <3> HIDE DEF from
    <3> QED
      BY <1>1, <2>3, <3>1, <3>2
  <2>5. \A i \in 1 .. Len(freeBlocks') : freeBlocks'[i] \notin blocks'
    BY <1>1, <2>1, <2>3
  <2>6. nFreeBlocks' = Len(freeBlocks')
    BY <1>1, <1>3, <2>3
  <2> QED
    BY <2>3, <2>4, <2>5, <2>6 DEF AllocInv
<1> QED
  BY <1>2, <1>3

-----------------------------------------------------------------------------
(* Victims. *)

\* Blocks are finitely many.
LEMMA BlocksFinite ==
  ASSUME NEW S \in SUBSET Block
  PROVE  IsFiniteSet(S) /\ Cardinality(S) \in Nat
<1>1. IsFiniteSet(Block)
  BY FS_Interval, GeometryAssumption DEF Block
<1> QED
  BY <1>1, FS_Subset, FS_CardinalityType

\* A list of k blocks, k of any sign, is a sequence of blocks.
LEMMA ListsAreSequences ==
  ASSUME NEW k \in Int, NEW S \in SUBSET Block
  PROVE  [1 .. k -> S] \subseteq Seq(Block)
<1> SUFFICES ASSUME NEW f \in [1 .. k -> S] PROVE f \in Seq(Block)
  OBVIOUS
<1>1. CASE k \in Nat
  <2>1. f \in [1 .. k -> Block]
    OBVIOUS
  <2> QED
    BY <1>1, <2>1, SeqDef
<1>2. CASE k \notin Nat
  <2>1. 1 .. k = 1 .. 0
    BY <1>2
  <2>2. f \in [1 .. 0 -> Block]
    BY <2>1
  <2> QED
    BY <2>2, SeqDef
<1> QED
  BY <1>1, <1>2

\* selectVictimBlock() lists blocks that are in use, whatever the policy.
LEMMA VictimsAreBlocks ==
  ASSUME AllocInv
  PROVE  VictimLists \subseteq Seq(Block)
<1>1. /\ TotalPhysicalBlocks \in Nat /\ PageCountToMaxPerf \in Nat
      /\ DChoiceParam \in Nat /\ nFreeBlocks \in Nat
      /\ GCMode = 0 => GCReclaimBlocks \in Nat
      /\ GCMode # 0 => GCReclaimThreshold \in Int
  BY GeometryAssumption, ConfigAssumption, LenProperties DEF AllocInv
<1>2. BlocksToReclaim \in Int
  <2>1. ASSUME GCMode # 0
        PROVE  (TotalPhysicalBlocks * GCReclaimThreshold) \div 100 \in Int
    BY <1>1, <2>1
  <2> QED
    BY <1>1, <2>1 DEF BlocksToReclaim
<1>3. SampleSize \in Int
  <2>1. DChoiceParam * BlocksToReclaim \in Int
    BY <1>1, <1>2
  <2> QED
    BY <1>2, <2>1 DEF SampleSize
<1>4. Candidates \in SUBSET Block
  BY DEF Candidates, AllocInv
<1> DEFINE k == Min({BlocksToReclaim, Cardinality(Candidates)})
<1>5. k \in Int /\ Min({k, SampleSize}) \in Int
  BY <1>2, <1>3, <1>4, BlocksFinite, MinPair
<1> HIDE DEF k
<1>6. \A n \in Int : \A S \in SUBSET Block :
        ListsOf(n, S) \subseteq Seq(Block) /\ LeastUtilized(n, S) \subseteq Seq(Block)
  BY ListsAreSequences DEF ListsOf, LeastUtilized
<1>7. \A S \in kSubset(SampleSize, Candidates) : S \in SUBSET Block
  BY <1>4 DEF kSubset
<1>8. VictimLists =
        CASE EvictPolicy = "greedy"       -> LeastUtilized(k, Candidates)
          [] EvictPolicy = "cost-benefit" -> ListsOf(k, Candidates)
          [] OTHER -> UNION {LeastUtilized(Min({k, SampleSize}), S) :
                               S \in kSubset(SampleSize, Candidates)}
  BY DEF VictimLists, k
<1>9. UNION {LeastUtilized(Min({k, SampleSize}), S) :
               S \in kSubset(SampleSize, Candidates)} \subseteq Seq(Block)
  BY <1>5, <1>6, <1>7
<1> QED
  BY <1>4, <1>5, <1>6, <1>8, <1>9

-----------------------------------------------------------------------------
(* Every step keeps the invariant. *)

\* PagesToInvalidate is a remainder, so a number.
LEMMA PagesToFillIsNat == PagesToFill \in Nat
<1>1. /\ PagesInBlock \in Nat /\ TotalPhysicalBlocks \in Nat
      /\ PageCountToMaxPerf \in Nat /\ GCThreshold \in Nat
      /\ PagesToWarmup \in Nat /\ InvalidPages \in Nat
      /\ UInt64Range \in Nat \ {0}
  BY GeometryAssumption, ConfigAssumption, FillingAssumption
<1> DEFINE x == TotalPhysicalBlocks * (100 - GCThreshold) - 100 * PageCountToMaxPerf
<1>2. x \in Int
  BY <1>1
<1>3. (PagesInBlock * x) \div 100 \in Int
  <2> HIDE DEF x
  <2> QED
    BY <1>1, <1>2
<1>4. MaxPagesBeforeGC \in Int
  BY <1>3 DEF MaxPagesBeforeGC
<1>5. (MaxPagesBeforeGC - PagesToWarmup) % UInt64Range \in Nat
  BY <1>1, <1>4
<1> QED
  BY <1>1, <1>5 DEF PagesToFill, PagesToInvalidate

\* The constructor's state.
LEMMA InitInv == Init => IInv
<1> SUFFICES ASSUME Init PROVE IInv
  OBVIOUS
<1>1. /\ TotalPhysicalBlocks \in Nat /\ PageCountToMaxPerf \in Nat \ {0}
      /\ PageCountToMaxPerf <= TotalPhysicalBlocks
      /\ PagesInBlock \in Nat \ {0}
  BY GeometryAssumption
<1>2. FlashInv
  <2>1. MappingExact
    BY ContentFacts, LocationFacts DEF Init, MappingExact
  <2>2. ProgramOrder
    BY <1>1 DEF Init, ProgramOrder, Page
  <2> QED
    BY <1>1, <2>1, <2>2, ContentFacts DEF Init, FlashInv
<1>3. AllocInv
  <2> DEFINE n == TotalPhysicalBlocks - PageCountToMaxPerf
  <2>1. n \in Nat /\ freeBlocks = [i \in 1 .. n |-> i - 1 + PageCountToMaxPerf]
    BY <1>1 DEF Init
  <2>2. freeBlocks \in [1 .. n -> Block]
    BY <1>1, <2>1 DEF Block
  <2>3. freeBlocks \in Seq(Block) /\ Len(freeBlocks) = n
    BY <2>1, <2>2, SeqDef
  <2>4. \A i \in 1 .. n : freeBlocks[i] = i - 1 + PageCountToMaxPerf
    BY <2>1
  <2>5. nFreeBlocks = n /\ blocks = Lane
    BY DEF Init
  <2> HIDE DEF n
  <2>6. \A i, j \in 1 .. Len(freeBlocks) : freeBlocks[i] = freeBlocks[j] => i = j
    BY <1>1, <2>1, <2>3, <2>4
  <2>7. \A i \in 1 .. Len(freeBlocks) : freeBlocks[i] \notin blocks
    BY <1>1, <2>1, <2>3, <2>4, <2>5 DEF Lane
  <2>8. Lane \subseteq Block /\ 0 \in Lane
    BY <1>1 DEF Lane, Block
  <2>9. /\ lastFreeBlock \in [Lane -> Block] /\ lastFreeBlockIndex \in Lane
        /\ lastFreeBlockIOMap \subseteq Unit
    BY <2>8 DEF Init
  <2>10. bReclaimMore \in BOOLEAN
    BY DEF Init
  <2> QED
    BY <2>3, <2>5, <2>6, <2>7, <2>8, <2>9, <2>10 DEF AllocInv
<1>4. IdleBlank
  BY DEF Init, IdleBlank, Block, Page
<1>5. StackInv
  BY PagesToFillIsNat, <1>1 DEF Init, StackInv, AtStart, NoPanic
<1> QED
  BY <1>2, <1>3, <1>4, <1>5 DEF IInv

\* A panic leaves everything as it is.
LEMMA PanicInv ==
  ASSUME IInv, pc' = "panicked", panic' # NoPanic,
         UNCHANGED <<flashVars, eraseCount, allocVars, filled, gcVars>>
  PROVE  IInv'
<1>1. FlashInv'
  BY DEF IInv, FlashInv, MappingExact, ProgramOrder, flashVars
<1>2. AllocInv'
  BY DEF IInv, AllocInv, allocVars
<1>3. IdleBlank'
  BY DEF IInv, IdleBlank, flashVars, allocVars
<1>4. StackInv'
  BY DEF IInv, StackInv, gcVars
<1> QED
  BY <1>1, <1>2, <1>3, <1>4 DEF IInv

\* Writes: of initialize() and of the host.
LEMMA WriteInv ==
  ASSUME IInv, NEW l \in LPN, NEW units \in SUBSET Unit,
         WriteError(units) = NoPanic, WriteUnits(l, units)
  PROVE  FlashInv' /\ AllocInv' /\ IdleBlank'
<1>1. /\ AllocError(units) = NoPanic
      /\ ProgramError(Destination(units), units) = NoPanic
  BY DEF WriteError, FirstError
<1>2. \A u \in units : /\ [v \in Unit |-> l][u] \in LPN
                      /\ table[[v \in Unit |-> l][u]][u] = table[l][u]
  OBVIOUS
<1>3. /\ Program(Destination(units), units, [u \in Unit |-> l], table[l])
      /\ TakeDestination(units)
  BY DEF WriteUnits
<1> QED
  BY <1>1, <1>2, <1>3, WriteKeepsInvariants DEF IInv

LEMMA InitWriteInv ==
  ASSUME IInv, NEW l \in LPN, InitWrite(l)
  PROVE  IInv'
<1>1. CASE FillError # NoPanic
  BY <1>1, PanicInv DEF InitWrite, Checked
<1>2. CASE FillError = NoPanic
  <2>1. /\ WriteUnits(l, Unit) /\ filled' = filled + 1
        /\ pc' = IF filled + 1 = PagesToFill THEN "ready" ELSE pc
        /\ pc = "filling" /\ panic' = panic
    BY <1>2 DEF InitWrite, Checked
  <2>2. FlashInv' /\ AllocInv' /\ IdleBlank'
    BY <1>2, <2>1, WriteInv DEF FillError, FirstError
  <2>3. StackInv'
    BY <2>1, PagesToFillIsNat DEF IInv, StackInv, WriteUnits, gcVars
  <2> QED
    BY <2>2, <2>3 DEF IInv
<1> QED
  BY <1>1, <1>2

LEMMA HostWriteInv ==
  ASSUME IInv, NEW l \in LPN, NEW units \in SUBSET Unit, Write(l, units)
  PROVE  IInv'
<1>1. CASE WriteError(units) # NoPanic
  BY <1>1, PanicInv DEF Write, Checked
<1>2. CASE WriteError(units) = NoPanic
  <2>1. /\ WriteUnits(l, units) /\ filled' = filled /\ panic' = panic
        /\ pc = "ready" /\ pc' \in {"select", "ready"}
    BY <1>2 DEF Write, Checked
  <2>2. FlashInv' /\ AllocInv' /\ IdleBlank'
    BY <1>2, <2>1, WriteInv
  <2>3. StackInv'
    BY <2>1 DEF IInv, StackInv, WriteUnits, gcVars
  <2> QED
    BY <2>2, <2>3 DEF IInv
<1> QED
  BY <1>1, <1>2

\* read() changes nothing unless it panics.
LEMMA ReadInv ==
  ASSUME IInv, NEW l \in LPN, NEW units \in SUBSET Unit, Read(l, units)
  PROVE  IInv'
<1> DEFINE err == IF \E u \in units : /\ table[l][u] \in Location
                                     /\ table[l][u][1] \notin blocks
                  THEN "Block is not in use" ELSE NoPanic
<1>1. CASE err # NoPanic
  BY <1>1, PanicInv DEF Read, Checked
<1>2. CASE err = NoPanic
  <2>1. vars' = vars
    BY <1>2 DEF Read, Checked, vars
  <2>2. FlashInv' /\ IdleBlank'
    BY <2>1 DEF IInv, FlashInv, MappingExact, ProgramOrder, IdleBlank, vars,
                flashVars, allocVars
  <2>3. AllocInv' /\ StackInv'
    BY <2>1 DEF IInv, AllocInv, StackInv, vars, allocVars, gcVars
  <2> QED
    BY <2>2, <2>3 DEF IInv
<1> QED
  BY <1>1, <1>2

LEMMA TrimInv ==
  ASSUME IInv, NEW l \in LPN, Trim(l)
  PROVE  IInv'
<1>1. CASE DiscardError({l}) # NoPanic
  BY <1>1, PanicInv DEF Trim, Checked
<1>2. CASE DiscardError({l}) = NoPanic
  <2>1. /\ Discard({l}) /\ panic' = panic
        /\ UNCHANGED <<eraseCount, allocVars, pc, filled, gcVars>>
    BY <1>2 DEF Trim, Checked
  <2>2. FlashInv'
    BY <2>1, DiscardKeepsFlash DEF IInv
  <2>3. IdleBlank'
    BY <2>1, DiscardKeepsBlank DEF IInv, allocVars
  <2>4. AllocInv' /\ StackInv'
    BY <2>1 DEF IInv, AllocInv, StackInv, allocVars, gcVars
  <2> QED
    BY <2>2, <2>3, <2>4 DEF IInv
<1> QED
  BY <1>1, <1>2

LEMMA FormatInv ==
  ASSUME IInv, NEW range \in FormatRanges, Format(range)
  PROVE  IInv'
<1> DEFINE entries == Entries(range)
           used    == BlocksOf(entries)
<1>1. entries \in SUBSET LPN
  BY GeometryAssumption DEF Entries
<1>2. CASE DiscardError(entries) # NoPanic
  BY <1>2, PanicInv DEF Format, Checked
<1>3. CASE DiscardError(entries) = NoPanic
  <2>1. /\ Discard(entries) /\ panic' = panic /\ pc = "ready"
        /\ victims' \in Ascending(used) /\ cursor' = AtStart
        /\ pc' = IF used = {} THEN "ready" ELSE "copy"
        /\ UNCHANGED <<eraseCount, allocVars, filled>>
    BY <1>3 DEF Format, Checked
  <2>2. FlashInv'
    BY <1>1, <2>1, DiscardKeepsFlash DEF IInv
  <2>3. IdleBlank'
    BY <1>1, <2>1, DiscardKeepsBlank DEF IInv, allocVars
  <2>4. AllocInv'
    BY <2>1 DEF IInv, AllocInv, allocVars
  <2>5. used \in SUBSET Block
    BY <1>3 DEF DiscardError, NoPanic, IInv, AllocInv, BlocksOf
  <2> HIDE DEF used
  <2>6. IsFiniteSet(used) /\ Cardinality(used) \in Nat
    BY <2>5, BlocksFinite
  <2>7. /\ victims' \in Seq(Block) /\ Len(victims') = Cardinality(used)
        /\ used # {} => Cardinality(used) # 0
    <3>1. victims' \in [1 .. Cardinality(used) -> Block]
      BY <2>1, <2>5 DEF Ascending
    <3>2. used # {} => Cardinality(used) # 0
      BY <2>6, FS_EmptySet
    <3> QED
      BY <2>6, <3>1, <3>2, SeqDef
  <2>8. cursor' \in [victim : Nat \ {0}, page : 0 .. PagesInBlock]
        /\ cursor'.victim = 1
    BY <2>1, LocationFacts DEF AtStart
  <2>9. StackInv'
    BY <2>1, <2>6, <2>7, <2>8 DEF IInv, StackInv
  <2> QED
    BY <2>2, <2>3, <2>4, <2>9 DEF IInv
<1> QED
  BY <1>2, <1>3

LEMMA SelectInv ==
  ASSUME IInv, SelectVictimBlock
  PROVE  IInv'
<1>1. CASE SelectError # NoPanic
  BY <1>1, PanicInv DEF SelectVictimBlock, Checked
<1>2. CASE SelectError = NoPanic
  <2>1. /\ victims' \in VictimLists /\ cursor' = AtStart /\ panic' = panic
        /\ pc' = IF victims' = <<>> THEN "ready" ELSE "copy"
        /\ pc = "select" /\ bReclaimMore' = FALSE
        /\ UNCHANGED <<flashVars, eraseCount, blocks, freeBlocks, nFreeBlocks,
                       lastFreeBlock, lastFreeBlockIndex, lastFreeBlockIOMap,
                       filled>>
    BY <1>2 DEF SelectVictimBlock, Checked
  <2>2. victims' \in Seq(Block)
    BY <2>1, VictimsAreBlocks DEF IInv
  <2>3. victims' # <<>> => Len(victims') \in Nat \ {0}
    BY <2>2, EmptySeq
  <2>4. FlashInv' /\ IdleBlank'
    BY <2>1 DEF IInv, FlashInv, MappingExact, ProgramOrder, IdleBlank, flashVars
  <2>5. AllocInv'
    BY <2>1 DEF IInv, AllocInv
  <2>6. cursor' \in [victim : Nat \ {0}, page : 0 .. PagesInBlock]
        /\ cursor'.victim = 1
    BY <2>1, LocationFacts DEF AtStart
  <2>7. StackInv'
    BY <2>1, <2>2, <2>3, <2>6 DEF IInv, StackInv
  <2> QED
    BY <2>4, <2>5, <2>7 DEF IInv
<1> QED
  BY <1>1, <1>2

\* The victim being handled is a block.
LEMMA VictimIsBlock ==
  ASSUME IInv, pc \in {"copy", "erase"}
  PROVE  Victim \in Block
BY ElementOfSeq DEF IInv, StackInv, Victim

\* A collection moves valid units only (superpages), from where the table has
\* them.
LEMMA CopyInv ==
  ASSUME IInv, IOUnitInPage # 1, CopyPage
  PROVE  IInv'
<1> DEFINE p     == Min(PagesLeft)
           units == LiveUnits(Victim, p)
           owner == [u \in Unit |-> Owner(content[Victim][p][u])]
           old   == [u \in Unit |-> <<Victim, p>>]
<1>1. Victim \in Block /\ pc = "copy"
  BY VictimIsBlock DEF CopyPage
<1>2. p \in Page /\ p + 1 \in 0 .. PagesInBlock
  <2>1. PagesLeft \subseteq Page /\ Page \subseteq Nat
    BY LocationFacts DEF PagesLeft, LivePages
  <2>2. p \in PagesLeft
    BY <2>1, MinNat DEF CopyPage
  <2> HIDE DEF p
  <2> QED
    BY <2>1, <2>2, LocationFacts
<1>3. units \in SUBSET Unit
      /\ \A u \in units : content[Victim][p][u] \in LPN
  BY DEF LiveUnits, ValidUnits, IsValid
<1>4. CASE CopyError(units, owner) # NoPanic
  BY <1>4, PanicInv DEF CopyPage, Checked
<1>5. CASE CopyError(units, owner) = NoPanic
  <2>1. /\ Program(Destination(units), units, owner, old)
        /\ TakeDestination(units) /\ panic' = panic
        /\ cursor' = [cursor EXCEPT !.page = p + 1]
        /\ UNCHANGED <<eraseCount, pc, filled, victims>>
    BY <1>5 DEF CopyPage, Checked
  <2>2. /\ AllocError(units) = NoPanic
        /\ ProgramError(Destination(units), units) = NoPanic
    BY <1>5 DEF CopyError, FirstError
  <2>3. \A u \in units : owner[u] \in LPN /\ table[owner[u]][u] = old[u]
    <3> TAKE u \in units
    <3>1. u \in Unit /\ owner[u] = content[Victim][p][u] /\ owner[u] \in LPN
      BY <1>3 DEF Owner
    <3>2. table[content[Victim][p][u]][u] = <<Victim, p>>
      BY <1>1, <1>2, <1>3, <3>1 DEF IInv, FlashInv, MappingExact
    <3> QED
      BY <3>1, <3>2
  <2> HIDE DEF units, owner, old, p
  <2>4. FlashInv' /\ AllocInv' /\ IdleBlank'
    BY <1>3, <2>1, <2>2, <2>3, WriteKeepsInvariants DEF IInv
  <2>5. StackInv'
    BY <1>1, <1>2, <2>1 DEF IInv, StackInv
  <2> QED
    BY <2>4, <2>5 DEF IInv
<1> QED
  BY <1>4, <1>5

LEMMA EndVictimInv ==
  ASSUME IInv, EndVictim
  PROVE  IInv'
<1>1. CASE Victim \notin blocks
  BY <1>1, PanicInv DEF EndVictim, Checked, NoPanic
<1>2. CASE Victim \in blocks
  <2>1. /\ cursor' = IF LastVictim THEN AtStart ELSE NextVictim
        /\ pc = "copy" /\ pc' = IF LastVictim THEN "erase" ELSE pc
        /\ panic' = panic
        /\ UNCHANGED <<flashVars, eraseCount, allocVars, filled, victims>>
    BY <1>2 DEF EndVictim, Checked
  <2>2. FlashInv' /\ IdleBlank'
    BY <2>1 DEF IInv, FlashInv, MappingExact, ProgramOrder, IdleBlank, flashVars,
                allocVars
  <2>3. AllocInv'
    BY <2>1 DEF IInv, AllocInv, allocVars
  <2>4. cursor.victim \in 1 .. Len(victims) /\ Len(victims) \in Nat
    BY <2>1, LenProperties DEF IInv, StackInv
  <2>5. /\ cursor' \in [victim : Nat \ {0}, page : 0 .. PagesInBlock]
        /\ cursor'.victim \in 1 .. Len(victims)
    BY <2>1, <2>4, LocationFacts DEF AtStart, NextVictim, LastVictim
  <2>6. StackInv'
    BY <2>1, <2>5 DEF IInv, StackInv
  <2> QED
    BY <2>2, <2>3, <2>6 DEF IInv
<1> QED
  BY <1>1, <1>2

LEMMA EraseInv ==
  ASSUME IInv, EraseBlock
  PROVE  IInv'
<1>1. CASE EraseError # NoPanic
  BY <1>1, PanicInv DEF EraseBlock, Checked
<1>2. CASE EraseError = NoPanic
  <2> DEFINE n == eraseCount[Victim] + 1
  <2>1. /\ content' = [content EXCEPT ![Victim] =
                         [p \in Page |-> [u \in Unit |-> Erased]]]
        /\ nextPage' = [nextPage EXCEPT ![Victim] = [u \in Unit |-> 0]]
        /\ eraseCount' = [eraseCount EXCEPT ![Victim] = n]
        /\ \/ /\ freeBlocks' = InsertAt(freeBlocks, FreeListPosition(n), Victim)
              /\ nFreeBlocks' = nFreeBlocks + 1
           \/ UNCHANGED <<freeBlocks, nFreeBlocks>>
        /\ blocks' = blocks \ {Victim}
        /\ UNCHANGED <<table, lastFreeBlock, lastFreeBlockIndex,
                       lastFreeBlockIOMap, bReclaimMore>>
    BY <1>2 DEF EraseBlock, Checked
  <2>2. /\ pc = "erase" /\ pc' = IF LastVictim THEN "ready" ELSE pc
        /\ victims' = IF LastVictim THEN <<>> ELSE victims
        /\ cursor' = IF LastVictim THEN AtStart ELSE NextVictim
        /\ filled' = filled /\ panic' = panic
    BY <1>2 DEF EraseBlock, Checked
  <2>3. Victim \in blocks /\ ValidPages(Victim) = {} /\ Victim \in Block
    BY <1>2, <2>2, VictimIsBlock DEF EraseError, NoPanic
  <2>4. FlashInv'
    BY <2>1, <2>3, EraseKeepsFlash DEF IInv
  <2>5. AllocInv'
    <3> HIDE DEF n
    <3> QED
      BY <2>1, <2>3, EraseKeepsAlloc DEF IInv
  <2>6. IdleBlank'
    <3> SUFFICES ASSUME NEW b \in Block \ (blocks \ {Victim}), NEW u \in Unit
                 PROVE  /\ nextPage'[b][u] = 0
                        /\ \A p \in Page : content'[b][p][u] = Erased
      BY <2>1 DEF IdleBlank
    <3>1. CASE b = Victim
      BY <2>1, <2>3, <3>1 DEF IInv, FlashInv
    <3>2. CASE b # Victim
      BY <2>1, <3>2 DEF IInv, FlashInv, IdleBlank
    <3> QED
      BY <3>1, <3>2
  <2>7. eraseCount' \in [Block -> Nat]
    BY <2>1, <2>3 DEF IInv, StackInv
  <2>8. cursor.victim \in 1 .. Len(victims) /\ Len(victims) \in Nat
    BY <2>2, LenProperties DEF IInv, StackInv
  <2>9. /\ cursor' \in [victim : Nat \ {0}, page : 0 .. PagesInBlock]
        /\ ~LastVictim => cursor'.victim \in 1 .. Len(victims)
    BY <2>2, <2>8, LocationFacts DEF AtStart, NextVictim, LastVictim
  <2>10. victims' \in Seq(Block) /\ (~LastVictim => victims' = victims)
    BY <2>2 DEF IInv, StackInv
  <2>11. StackInv'
    BY <2>2, <2>7, <2>9, <2>10 DEF IInv, StackInv
  <2> QED
    BY <2>4, <2>5, <2>6, <2>11 DEF IInv
<1> QED
  BY <1>1, <1>2

-----------------------------------------------------------------------------
(* The theorems. *)

\* The invariant is inductive: one step for each action of the FTL.
LEMMA StepInv ==
  ASSUME IInv, IOUnitInPage # 1, [Next]_vars
  PROVE  IInv'
<1>1. ASSUME NEW l \in LPN, InitWrite(l) PROVE IInv'
  BY <1>1, InitWriteInv
<1>2. ASSUME NEW l \in LPN, NEW units \in (SUBSET Unit) \ {{}}, Write(l, units)
      PROVE  IInv'
  BY <1>2, HostWriteInv
<1>3. ASSUME NEW l \in LPN, NEW units \in (SUBSET Unit) \ {{}}, Read(l, units)
      PROVE  IInv'
  BY <1>3, ReadInv
<1>4. ASSUME NEW l \in LPN, Trim(l) PROVE IInv'
  BY <1>4, TrimInv
<1>5. ASSUME NEW range \in FormatRanges, Format(range) PROVE IInv'
  BY <1>5, FormatInv
<1>6. CASE SelectVictimBlock
  BY <1>6, SelectInv
<1>7. CASE CopyPage
  BY <1>7, CopyInv
<1>8. CASE EndVictim
  BY <1>8, EndVictimInv
<1>9. CASE EraseBlock
  BY <1>9, EraseInv
<1>10. CASE UNCHANGED vars
  <2>1. FlashInv' /\ IdleBlank'
    BY <1>10 DEF IInv, FlashInv, MappingExact, ProgramOrder, IdleBlank, vars,
                 flashVars, allocVars
  <2>2. AllocInv' /\ StackInv'
    BY <1>10 DEF IInv, AllocInv, StackInv, vars, allocVars, gcVars
  <2> QED
    BY <2>1, <2>2 DEF IInv
<1> QED
  BY <1>1, <1>2, <1>3, <1>4, <1>5, <1>6, <1>7, <1>8, <1>9, <1>10
  DEF Next, GarbageCollection

LEMMA InvariantHolds ==
  ASSUME IOUnitInPage # 1
  PROVE  Spec => []IInv
<1>1. Init => IInv
  BY InitInv
<1>2. IInv /\ [Next]_vars => IInv'
  BY StepInv
<1> QED
  BY <1>1, <1>2, PTL DEF Spec

\* Type correctness of the FTL, for every geometry and configuration with
\* superpages: every index it forms stays inside its array, and nFreeBlocks
\* never wraps below zero.
THEOREM TypeCorrect ==
  ASSUME IOUnitInPage # 1
  PROVE  Spec => []TypeOK
<1>1. IInv => TypeOK
  BY LenProperties DEF IInv, FlashInv, AllocInv, StackInv, TypeOK
<1> QED
  BY <1>1, InvariantHolds, PTL

\* The mapping table and the reverse maps of the blocks agree after every
\* write, copy, trim and format: no page is lost, duplicated or stale.
THEOREM MappingIsExact ==
  ASSUME IOUnitInPage # 1
  PROVE  Spec => []MappingExact
<1>1. IInv => MappingExact
  BY DEF IInv, FlashInv
<1> QED
  BY <1>1, InvariantHolds, PTL

\* No block is in use and free at once, the hand-kept count is the length of
\* the free list, and a block taken from it is blank.
THEOREM FreeListIsSound ==
  ASSUME IOUnitInPage # 1
  PROVE  Spec => []FreeListSound
<1>1. IInv => FreeListSound
  BY DEF IInv, AllocInv, IdleBlank, FreeListSound
<1> QED
  BY <1>1, InvariantHolds, PTL

\* Every block is programmed page after page and erased as a whole.
THEOREM ProgrammedInOrder ==
  ASSUME IOUnitInPage # 1
  PROVE  Spec => []ProgramOrder
<1>1. IInv => ProgramOrder
  BY DEF IInv, FlashInv
<1> QED
  BY <1>1, InvariantHolds, PTL

-----------------------------------------------------------------------------
(* Wear: the free list is sorted by it, and it alone ends a block's service. *)

\* The free list holds the least worn blocks first.
FreeListSorted ==
  \A i, j \in 1 .. Len(freeBlocks) :
    i <= j => eraseCount[freeBlocks[i]] <= eraseCount[freeBlocks[j]]

\* A lane takes one block out of the list, and none less worn waits there.
LEMMA TakeDestinationKeepsService ==
  ASSUME FlashInv, AllocInv, IdleBlank, eraseCount \in [Block -> Nat],
         NEW units \in SUBSET Unit, AllocError(units) = NoPanic,
         TakeDestination(units), UNCHANGED eraseCount
  PROVE  /\ NoBlockLost => NoBlockLost'
         /\ FreeListSorted => FreeListSorted' /\ TakesLeastWorn
<1> DEFINE d == Destination(units)
           k == NextLane(units)
           n == FreeIndex(k)
<1>1. /\ Active(units) \in blocks
      /\ d \in Block
      /\ IsFull(Active(units)) => nFreeBlocks > 0 /\ n \in 1 .. Len(freeBlocks)
                                 /\ d = freeBlocks[n]
  BY DestinationIsOpen
<1>2. /\ Len(freeBlocks) \in Nat
      /\ \A i \in 1 .. Len(freeBlocks) :
           freeBlocks[i] \in Block /\ freeBlocks[i] \notin blocks
      /\ \A i, j \in 1 .. Len(freeBlocks) :
           freeBlocks[i] = freeBlocks[j] => i = j
      /\ freeBlocks \in Seq(Block)
  BY LenProperties, ElementOfSeq DEF AllocInv
<1>3. CASE ~IsFull(Active(units))
  <2>1. UNCHANGED <<blocks, freeBlocks>>
    BY <1>3 DEF TakeDestination
  <2> QED
    BY <1>2, <2>1 DEF NoBlockLost, FreeListSorted, TakesLeastWorn
<1>4. CASE IsFull(Active(units))
  <2> DEFINE same == {i \in 1 .. Len(freeBlocks) :
                        freeBlocks[i] % PageCountToMaxPerf = k}
  <2>1. same # {} => n \in same /\ \A i \in same : n <= i
    <3>1. same \subseteq Nat
      BY <1>2
    <3>2. same # {} => n = Min(same)
      BY DEF FreeIndex
    <3> HIDE DEF same, n
    <3>3. same # {} => Min(same) \in same /\ \A i \in same : Min(same) <= i
      BY <3>1, MinNat
    <3> QED
      BY <3>2, <3>3
  <2>2. same = {} => n = 1
    BY DEF FreeIndex
  <2>3. \A j \in 1 .. Len(freeBlocks) :
          freeBlocks[j] % PageCountToMaxPerf = d % PageCountToMaxPerf => n <= j
    <3> SUFFICES ASSUME NEW j \in 1 .. Len(freeBlocks),
                        freeBlocks[j] % PageCountToMaxPerf
                          = d % PageCountToMaxPerf
                 PROVE  n <= j
      OBVIOUS
    <3>1. CASE same = {}
      BY <2>2, <3>1
    <3>2. CASE same # {}
      <4>1. n \in same
        BY <2>1, <3>2
      <4>2. d % PageCountToMaxPerf = k
        BY <1>1, <1>4, <4>1
      <4>3. j \in same
        BY <4>2
      <4> QED
        BY <2>1, <3>2, <4>3
    <3> QED
      BY <3>1, <3>2
  <2> HIDE DEF same
  <2>4. /\ blocks' = blocks \cup {d}
        /\ freeBlocks' = RemoveAt(freeBlocks, n)
    BY <1>4 DEF TakeDestination
  <2> HIDE DEF d, n, k
  <2>5. /\ Len(freeBlocks') = Len(freeBlocks) - 1
        /\ \A j \in 1 .. Len(freeBlocks) - 1 :
             freeBlocks'[j] = IF j < n THEN freeBlocks[j] ELSE freeBlocks[j + 1]
    BY <1>1, <1>2, <1>4, <2>4, RemoveAtProperties
  <2>6. n \in 1 .. Len(freeBlocks) /\ d = freeBlocks[n]
    BY <1>1, <1>4
  <2>7. FreeListSorted => FreeListSorted'
    <3> SUFFICES ASSUME FreeListSorted,
                        NEW i \in 1 .. Len(freeBlocks'),
                        NEW j \in 1 .. Len(freeBlocks'), i <= j
                 PROVE  eraseCount[freeBlocks'[i]] <= eraseCount[freeBlocks'[j]]
      BY DEF FreeListSorted
    <3> DEFINE from(m) == IF m < n THEN m ELSE m + 1
    <3>1. /\ from(i) \in 1 .. Len(freeBlocks) /\ from(j) \in 1 .. Len(freeBlocks)
          /\ from(i) <= from(j)
          /\ freeBlocks'[i] = freeBlocks[from(i)]
          /\ freeBlocks'[j] = freeBlocks[from(j)]
      BY <1>2, <2>5, <2>6, SMTT(20)
    <3> HIDE DEF from
    <3> QED
      BY <3>1 DEF FreeListSorted
  <2>8. NoBlockLost => NoBlockLost'
    <3> SUFFICES ASSUME NoBlockLost, NEW b \in Block
                 PROVE  (/\ b \notin blocks'
                         /\ \A i \in 1 .. Len(freeBlocks') : freeBlocks'[i] # b)
                          <=> eraseCount[b] >= BadBlockThreshold
      BY DEF NoBlockLost
    <3>1. (b \notin blocks /\ \A i \in 1 .. Len(freeBlocks) : freeBlocks[i] # b)
            <=> eraseCount[b] >= BadBlockThreshold
      BY DEF NoBlockLost
    <3>2. CASE b = d
      BY <2>4, <2>6, <3>1, <3>2
    <3>3. ASSUME b # d, NEW i \in 1 .. Len(freeBlocks), freeBlocks[i] = b
          PROVE  \E j \in 1 .. Len(freeBlocks') : freeBlocks'[j] = b
      <4>1. i # n
        BY <2>6, <3>3
      <4>2. CASE i < n
        BY <1>2, <2>5, <2>6, <3>3, <4>2
      <4>3. CASE i > n
        <5>1. i - 1 \in 1 .. Len(freeBlocks') /\ ~(i - 1 < n) /\ i - 1 + 1 = i
          BY <1>2, <2>5, <2>6, <4>3
        <5>2. freeBlocks'[i - 1] = freeBlocks[i]
          BY <2>5, <5>1
        <5> QED
          BY <3>3, <5>1, <5>2
      <4> QED
        BY <1>2, <2>6, <4>1, <4>2, <4>3
    <3>4. ASSUME b # d, NEW j \in 1 .. Len(freeBlocks'), freeBlocks'[j] = b
          PROVE  \E i \in 1 .. Len(freeBlocks) : freeBlocks[i] = b
      BY <1>2, <2>5, <2>6, <3>4
    <3> QED
      BY <2>4, <3>1, <3>2, <3>3, <3>4
  <2>9. FreeListSorted => TakesLeastWorn
    <3> SUFFICES ASSUME FreeListSorted,
                        NEW i \in 1 .. Len(freeBlocks), freeBlocks[i] \in blocks',
                        NEW j \in 1 .. Len(freeBlocks),
                        freeBlocks[j] % PageCountToMaxPerf
                          = freeBlocks[i] % PageCountToMaxPerf
                 PROVE  eraseCount[freeBlocks[i]] <= eraseCount[freeBlocks[j]]
      BY DEF TakesLeastWorn
    <3>1. freeBlocks[i] = d /\ i = n
      BY <1>2, <2>4, <2>6
    <3>2. n <= j
      BY <2>3, <3>1
    <3> QED
      BY <3>1, <3>2 DEF FreeListSorted
  <2> QED
    BY <2>7, <2>8, <2>9
<1> QED
  BY <1>3, <1>4

\* An erased block goes back to its place in the list, unless it wore out.
LEMMA EraseKeepsService ==
  ASSUME AllocInv, eraseCount \in [Block -> Nat], NEW b \in blocks, NEW n,
         n = eraseCount[b] + 1,
         eraseCount' = [eraseCount EXCEPT ![b] = n],
         blocks' = blocks \ {b},
         IF n < BadBlockThreshold
         THEN freeBlocks' = InsertAt(freeBlocks, FreeListPosition(n), b)
         ELSE UNCHANGED freeBlocks
  PROVE  /\ NoBlockLost => NoBlockLost'
         /\ FreeListSorted => FreeListSorted' /\ TakesLeastWorn
<1>1. /\ Len(freeBlocks) \in Nat
      /\ b \in Block /\ eraseCount[b] \in Nat /\ n \in Nat
      /\ BadBlockThreshold \in Nat
      /\ freeBlocks \in Seq(Block)
      /\ \A i \in 1 .. Len(freeBlocks) :
           /\ freeBlocks[i] \in Block /\ freeBlocks[i] \notin blocks
           /\ freeBlocks[i] # b
           /\ eraseCount[freeBlocks[i]] \in Nat
  BY LenProperties, ElementOfSeq, ConfigAssumption DEF AllocInv
<1>2. /\ eraseCount'[b] = n
      /\ \A c \in Block : c # b => eraseCount'[c] = eraseCount[c]
  BY <1>1
<1>3. TakesLeastWorn
  BY <1>1 DEF TakesLeastWorn
<1>4. NoBlockLost => eraseCount[b] < BadBlockThreshold
  BY <1>1 DEF NoBlockLost
<1>5. CASE n >= BadBlockThreshold
  <2>1. freeBlocks' = freeBlocks
    BY <1>1, <1>5
  <2>2. FreeListSorted => FreeListSorted'
    BY <1>1, <1>2, <2>1 DEF FreeListSorted
  <2>3. NoBlockLost => NoBlockLost'
    <3> SUFFICES ASSUME NoBlockLost, NEW c \in Block
                 PROVE  (/\ c \notin blocks'
                         /\ \A i \in 1 .. Len(freeBlocks) : freeBlocks[i] # c)
                          <=> eraseCount'[c] >= BadBlockThreshold
      BY <2>1 DEF NoBlockLost
    <3>1. CASE c = b
      BY <1>1, <1>2, <1>5, <3>1
    <3>2. CASE c # b
      BY <1>2, <3>2 DEF NoBlockLost
    <3> QED
      BY <3>1, <3>2
  <2> QED
    BY <1>3, <2>2, <2>3
<1>6. CASE n < BadBlockThreshold
  <2> DEFINE k == FreeListPosition(n)
             S == {0} \cup {i \in 1 .. Len(freeBlocks) :
                              eraseCount[freeBlocks[i]] <= n}
  <2>1. k \in 1 .. Len(freeBlocks) + 1
    BY FreeListPositionIsPlace
  <2>2. k = 1 + Max(S)
    BY DEF FreeListPosition
  <2>3. Max(S) \in S /\ Max(S) \in Nat /\ \A i \in S : i <= Max(S)
    <3>1. S \subseteq Nat /\ S # {} /\ S \subseteq 0 .. Len(freeBlocks)
      BY <1>1
    <3> HIDE DEF S
    <3> QED
      BY <1>1, <3>1, MaxNat
  <2>4. FreeListSorted =>
          \A i \in 1 .. Len(freeBlocks) : i < k => eraseCount[freeBlocks[i]] <= n
    <3> SUFFICES ASSUME FreeListSorted, NEW i \in 1 .. Len(freeBlocks), i < k
                 PROVE  eraseCount[freeBlocks[i]] <= n
      OBVIOUS
    <3> HIDE DEF k
    <3>1. k - 1 \in 1 .. Len(freeBlocks) /\ i <= k - 1 /\ k - 1 = Max(S)
      <4> HIDE DEF S
      <4> QED
        BY <1>1, <2>1, <2>2, <2>3
    <3>2. k - 1 # 0
      BY <3>1
    <3>3. eraseCount[freeBlocks[k - 1]] <= n
      BY <2>3, <3>1, <3>2
    <3>4. eraseCount[freeBlocks[i]] <= eraseCount[freeBlocks[k - 1]]
      BY <3>1 DEF FreeListSorted
    <3> QED
      BY <1>1, <3>1, <3>3, <3>4
  <2>5. \A i \in 1 .. Len(freeBlocks) : i >= k => n <= eraseCount[freeBlocks[i]]
    <3> SUFFICES ASSUME NEW i \in 1 .. Len(freeBlocks), i >= k
                 PROVE  n <= eraseCount[freeBlocks[i]]
      OBVIOUS
    <3> HIDE DEF k
    <3>1. i \notin S
      <4> HIDE DEF S
      <4> QED
        BY <1>1, <2>1, <2>2, <2>3
    <3> QED
      BY <1>1, <3>1
  <2> HIDE DEF k, S
  <2>6. /\ Len(freeBlocks') = Len(freeBlocks) + 1
        /\ \A j \in 1 .. k - 1 : freeBlocks'[j] = freeBlocks[j]
        /\ freeBlocks'[k] = b
        /\ \A j \in k + 1 .. Len(freeBlocks) + 1 :
             freeBlocks'[j] = freeBlocks[j - 1]
    <3>1. freeBlocks' = InsertAt(freeBlocks, k, b)
      BY <1>6 DEF k
    <3>2. freeBlocks \in Seq(Block) /\ b \in Block
      BY <1>1
    <3> DEFINE list == InsertAt(freeBlocks, k, b)
    <3>3. /\ Len(list) = Len(freeBlocks) + 1
          /\ \A j \in 1 .. k - 1 : list[j] = freeBlocks[j]
          /\ list[k] = b
          /\ \A j \in k + 1 .. Len(freeBlocks) + 1 : list[j] = freeBlocks[j - 1]
      BY <2>1, <3>2, InsertAtProperties
    <3> QED
      BY <3>1, <3>3, Zenon
  <2>7. FreeListSorted => FreeListSorted'
    <3> SUFFICES ASSUME FreeListSorted,
                        NEW i \in 1 .. Len(freeBlocks'),
                        NEW j \in 1 .. Len(freeBlocks'), i < j
                 PROVE  eraseCount'[freeBlocks'[i]] <= eraseCount'[freeBlocks'[j]]
      <4>1. \A i \in 1 .. Len(freeBlocks') :
              eraseCount'[freeBlocks'[i]] \in Nat
        BY <1>1, <1>2, <2>1, <2>6, SMTT(20)
      <4> QED
        BY <1>1, <2>6, <4>1 DEF FreeListSorted
    <3> DEFINE from(m) == IF m < k THEN m ELSE m - 1
    <3>1. \A m \in 1 .. Len(freeBlocks') : m # k =>
            /\ from(m) \in 1 .. Len(freeBlocks)
            /\ freeBlocks'[m] = freeBlocks[from(m)]
            /\ eraseCount'[freeBlocks'[m]] = eraseCount[freeBlocks[from(m)]]
      BY <1>1, <1>2, <2>1, <2>6, SMTT(20)
    <3>2. CASE i # k /\ j # k
      <4>1. from(i) <= from(j)
        BY <1>1, <2>1, <2>6, <3>2
      <4> HIDE DEF from
      <4> QED
        BY <3>1, <3>2, <4>1 DEF FreeListSorted
    <3>3. CASE i = k /\ j # k
      <4>1. from(j) >= k
        BY <1>1, <2>1, <2>6, <3>3
      <4> HIDE DEF from
      <4> QED
        BY <1>2, <2>5, <2>6, <3>1, <3>3, <4>1
    <3>4. CASE i # k /\ j = k
      <4>1. from(i) < k
        BY <1>1, <2>1, <2>6, <3>4
      <4> HIDE DEF from
      <4> QED
        BY <1>2, <2>4, <2>6, <3>1, <3>4, <4>1
    <3> QED
      BY <1>1, <2>1, <2>6, <3>2, <3>3, <3>4
  <2>8. NoBlockLost => NoBlockLost'
    <3> SUFFICES ASSUME NoBlockLost, NEW c \in Block
                 PROVE  (/\ c \notin blocks'
                         /\ \A i \in 1 .. Len(freeBlocks') : freeBlocks'[i] # c)
                          <=> eraseCount'[c] >= BadBlockThreshold
      BY DEF NoBlockLost
    <3>1. CASE c = b
      <4>1. k \in 1 .. Len(freeBlocks')
        BY <1>1, <2>1, <2>6
      <4> QED
        BY <1>1, <1>2, <1>6, <2>6, <3>1, <4>1
    <3>2. CASE c # b
      <4>1. ASSUME NEW i \in 1 .. Len(freeBlocks), freeBlocks[i] = c
            PROVE  \E j \in 1 .. Len(freeBlocks') : freeBlocks'[j] = c
        <5>1. CASE i < k
          BY <1>1, <2>1, <2>6, <4>1, <5>1
        <5>2. CASE i >= k
          <6>1. i + 1 \in k + 1 .. Len(freeBlocks) + 1 /\ i + 1 - 1 = i
                /\ i + 1 \in 1 .. Len(freeBlocks')
            BY <1>1, <2>1, <2>6, <5>2
          <6>2. freeBlocks'[i + 1] = freeBlocks[i]
            BY <2>6, <6>1
          <6> QED
            BY <4>1, <6>1, <6>2
        <5> QED
          BY <2>1, <5>1, <5>2
      <4>2. ASSUME NEW j \in 1 .. Len(freeBlocks'), freeBlocks'[j] = c
            PROVE  \E i \in 1 .. Len(freeBlocks) : freeBlocks[i] = c
        <5>1. CASE j < k
          <6>1. j \in 1 .. k - 1 /\ j \in 1 .. Len(freeBlocks)
            BY <1>1, <2>1, <2>6, <5>1
          <6> QED
            BY <2>6, <4>2, <6>1
        <5>2. CASE j > k
          <6>1. j \in k + 1 .. Len(freeBlocks) + 1 /\ j - 1 \in 1 .. Len(freeBlocks)
            BY <1>1, <2>1, <2>6, <5>2
          <6> QED
            BY <2>6, <4>2, <6>1
        <5>3. j # k
          BY <2>6, <3>2, <4>2
        <5> QED
          BY <1>1, <2>1, <2>6, <5>1, <5>2, <5>3
      <4>3. (c \notin blocks /\ \A i \in 1 .. Len(freeBlocks) : freeBlocks[i] # c)
              <=> eraseCount[c] >= BadBlockThreshold
        BY DEF NoBlockLost
      <4> QED
        BY <1>2, <3>2, <4>1, <4>2, <4>3
    <3> QED
      BY <3>1, <3>2
  <2> QED
    BY <1>3, <2>7, <2>8
<1> QED
  BY <1>1, <1>5, <1>6

\* The steps that leave the allocator and the wear of the blocks alone.
LEMMA IdleKeepsService ==
  ASSUME AllocInv, UNCHANGED <<blocks, freeBlocks, eraseCount>>
  PROVE  /\ NoBlockLost => NoBlockLost'
         /\ FreeListSorted => FreeListSorted' /\ TakesLeastWorn
<1>1. TakesLeastWorn
  BY DEF TakesLeastWorn, AllocInv
<1> QED
  BY <1>1 DEF NoBlockLost, FreeListSorted

\* One step for each kind of action: those that write, the erase, the rest.
LEMMA StepService ==
  ASSUME IInv, [Next]_vars
  PROVE  /\ NoBlockLost => NoBlockLost'
         /\ FreeListSorted => FreeListSorted' /\ TakesLeastWorn
<1> DEFINE Kept == /\ NoBlockLost => NoBlockLost'
                   /\ FreeListSorted => FreeListSorted' /\ TakesLeastWorn
<1>1. ASSUME UNCHANGED <<blocks, freeBlocks, eraseCount>> PROVE Kept
  BY <1>1, IdleKeepsService DEF IInv
<1>2. ASSUME NEW units \in SUBSET Unit, AllocError(units) = NoPanic,
             TakeDestination(units), UNCHANGED eraseCount
      PROVE  Kept
  BY <1>2, TakeDestinationKeepsService DEF IInv, StackInv
<1>3. ASSUME NEW err, NEW step,
             /\ pc' = "panicked" /\ panic' = err
             /\ UNCHANGED <<flashVars, eraseCount, allocVars, filled, gcVars>>
      PROVE  Kept
  <2>1. UNCHANGED <<blocks, freeBlocks, eraseCount>>
    BY <1>3 DEF allocVars
  <2> QED
    BY <1>1, <2>1
<1> HIDE DEF Kept
<1>4. ASSUME NEW l \in LPN, InitWrite(l) PROVE Kept
  <2>1. CASE FillError = NoPanic
    <3>1. WriteUnits(l, Unit)
      BY <1>4, <2>1 DEF InitWrite, Checked
    <3>2. AllocError(Unit) = NoPanic
      BY <2>1 DEF FillError, WriteError, FirstError
    <3>3. TakeDestination(Unit) /\ UNCHANGED eraseCount
      BY <3>1 DEF WriteUnits
    <3> QED
      BY <1>2, <3>2, <3>3
  <2>2. CASE FillError # NoPanic
    BY <1>3, <1>4, <2>2 DEF InitWrite, Checked
  <2> QED
    BY <2>1, <2>2
<1>5. ASSUME NEW l \in LPN, NEW units \in (SUBSET Unit) \ {{}}, Write(l, units)
      PROVE  Kept
  <2>1. CASE WriteError(units) = NoPanic
    <3>1. WriteUnits(l, units)
      BY <1>5, <2>1 DEF Write, Checked
    <3>2. AllocError(units) = NoPanic
      BY <2>1 DEF WriteError, FirstError
    <3>3. TakeDestination(units) /\ UNCHANGED eraseCount
      BY <3>1 DEF WriteUnits
    <3> QED
      BY <1>2, <3>2, <3>3
  <2>2. CASE WriteError(units) # NoPanic
    BY <1>3, <1>5, <2>2 DEF Write, Checked
  <2> QED
    BY <2>1, <2>2
<1>6. ASSUME NEW l \in LPN, NEW units \in (SUBSET Unit) \ {{}}, Read(l, units)
      PROVE  Kept
  <2>1. UNCHANGED <<eraseCount, allocVars>>
    BY <1>6 DEF Read, Checked
  <2> QED
    BY <1>1, <2>1 DEF allocVars
<1>7. ASSUME NEW l \in LPN, Trim(l) PROVE Kept
  <2>1. UNCHANGED <<eraseCount, allocVars>>
    BY <1>7 DEF Trim, Checked
  <2> QED
    BY <1>1, <2>1 DEF allocVars
<1>8. ASSUME NEW range \in FormatRanges, Format(range) PROVE Kept
  <2>1. UNCHANGED <<eraseCount, allocVars>>
    BY <1>8 DEF Format, Checked
  <2> QED
    BY <1>1, <2>1 DEF allocVars
<1>9. ASSUME SelectVictimBlock PROVE Kept
  <2>1. UNCHANGED <<eraseCount, blocks, freeBlocks>>
    BY <1>9 DEF SelectVictimBlock, Checked, allocVars
  <2> QED
    BY <1>1, <2>1
<1>10. ASSUME CopyPage PROVE Kept
  <2> DEFINE p     == Min(PagesLeft)
             units == LiveUnits(Victim, p)
             owner == [u \in Unit |-> Owner(content[Victim][p][u])]
  <2>1. CASE CopyError(units, owner) = NoPanic
    <3>1. TakeDestination(units) /\ UNCHANGED eraseCount
      BY <1>10, <2>1 DEF CopyPage, Checked
    <3>2. AllocError(units) = NoPanic
      BY <2>1 DEF CopyError, FirstError
    <3>3. units \in SUBSET Unit
      BY DEF LiveUnits, ValidUnits
    <3> QED
      BY <1>2, <3>1, <3>2, <3>3
  <2>2. CASE CopyError(units, owner) # NoPanic
    BY <1>3, <1>10, <2>2 DEF CopyPage, Checked
  <2> QED
    BY <2>1, <2>2
<1>11. ASSUME EndVictim PROVE Kept
  <2>1. UNCHANGED <<eraseCount, allocVars>>
    BY <1>11 DEF EndVictim, Checked
  <2> QED
    BY <1>1, <2>1 DEF allocVars
<1>12. ASSUME EraseBlock PROVE Kept
  <2>1. CASE EraseError = NoPanic
    <3> DEFINE n == eraseCount[Victim] + 1
    <3>1. /\ eraseCount' = [eraseCount EXCEPT ![Victim] = n]
          /\ IF n < BadBlockThreshold
             THEN freeBlocks' = InsertAt(freeBlocks, FreeListPosition(n), Victim)
             ELSE UNCHANGED freeBlocks
          /\ blocks' = blocks \ {Victim}
      BY <1>12, <2>1 DEF EraseBlock, Checked
    <3>2. Victim \in blocks
      BY <2>1 DEF EraseError, NoPanic
    <3>3. AllocInv /\ eraseCount \in [Block -> Nat]
      BY DEF IInv, StackInv
    <3> HIDE DEF n
    <3> QED
      BY <3>1, <3>2, <3>3, EraseKeepsService DEF Kept, n
  <2>2. CASE EraseError # NoPanic
    BY <1>3, <1>12, <2>2 DEF EraseBlock, Checked
  <2> QED
    BY <2>1, <2>2
<1>13. ASSUME UNCHANGED vars PROVE Kept
  <2>1. UNCHANGED <<blocks, freeBlocks, eraseCount>>
    BY <1>13 DEF vars, allocVars
  <2> QED
    BY <1>1, <2>1
<1>14. Kept
  BY <1>4, <1>5, <1>6, <1>7, <1>8, <1>9, <1>10, <1>11, <1>12, <1>13
  DEF Next, GarbageCollection
<1> QED
  BY <1>14 DEF Kept

\* At the start every block is a lane's or free, and none is worn.
LEMMA InitService ==
  ASSUME Init
  PROVE  /\ BadBlockThreshold # 0 => NoBlockLost
         /\ FreeListSorted
<1>1. /\ TotalPhysicalBlocks \in Nat /\ PageCountToMaxPerf \in Nat \ {0}
      /\ PageCountToMaxPerf <= TotalPhysicalBlocks
      /\ BadBlockThreshold \in Nat
  BY GeometryAssumption, ConfigAssumption
<1>2. /\ \A b \in Block : eraseCount[b] = 0
      /\ blocks = Lane
  BY DEF Init
<1>3. AllocInv
  BY InitInv DEF IInv
<1>4. FreeListSorted
  <2>1. \A i \in 1 .. Len(freeBlocks) : freeBlocks[i] \in Block
    BY <1>3, ElementOfSeq DEF AllocInv
  <2> QED
    BY <1>2, <2>1 DEF FreeListSorted
<1>5. ASSUME BadBlockThreshold # 0 PROVE NoBlockLost
  <2> DEFINE n == TotalPhysicalBlocks - PageCountToMaxPerf
  <2>1. n \in Nat /\ freeBlocks = [i \in 1 .. n |-> i - 1 + PageCountToMaxPerf]
    BY <1>1 DEF Init
  <2>2. Len(freeBlocks) = n
    BY <2>1
  <2>3. ASSUME NEW b \in Block, b \notin blocks
        PROVE  \E i \in 1 .. Len(freeBlocks) : freeBlocks[i] = b
    <3>1. b - PageCountToMaxPerf + 1 \in 1 .. n
      BY <1>1, <1>2, <2>3 DEF Block, Lane
    <3>2. freeBlocks[b - PageCountToMaxPerf + 1] = b
      BY <1>1, <2>1, <3>1 DEF Block
    <3> QED
      BY <2>2, <3>1, <3>2
  <2> HIDE DEF n
  <2> QED
    BY <1>1, <1>2, <1>5, <2>3 DEF NoBlockLost
<1> QED
  BY <1>4, <1>5

\* Blocks circulate between the map of those in use, the lanes and the free
\* list, and the only way out is to be erased BadBlockThreshold times.  (A
\* threshold of zero would declare the blocks of a new device worn out.)
THEOREM NoBlockIsLost ==
  ASSUME IOUnitInPage # 1, BadBlockThreshold # 0
  PROVE  Spec => []NoBlockLost
<1>1. Init => IInv /\ NoBlockLost
  BY InitInv, InitService
<1>2. IInv /\ NoBlockLost /\ [Next]_vars => IInv' /\ NoBlockLost'
  BY StepInv, StepService
<1> QED
  BY <1>1, <1>2, PTL DEF Spec

\* The block a lane takes is the least worn of those that may become its own:
\* the list is searched front to back, and erased blocks are put in by wear.
THEOREM WearIsLevelled ==
  ASSUME IOUnitInPage # 1
  PROVE  Spec => WearLevelled
<1>1. Init => IInv /\ FreeListSorted
  BY InitInv, InitService
<1>2. IInv /\ FreeListSorted /\ [Next]_vars
        => IInv' /\ FreeListSorted' /\ [TakesLeastWorn]_vars
  BY StepInv, StepService
<1> QED
  BY <1>1, <1>2, PTL DEF Spec, WearLevelled

-----------------------------------------------------------------------------
(* The page mapping implements the logical space its host is promised. *)

\* The units that hold data are those the table maps.
MappedByTable ==
  /\ MappedUnits \subseteq LPN \X Unit
  /\ \A l \in LPN, u \in Unit :
       <<l, u>> \in MappedUnits <=> table[l][u] # Unmapped

\* Wherever the table and the blocks agree, the mapping can be read off it.
LEMMA MappedUnitsAreMapped == IInv => MappedByTable
<1> SUFFICES ASSUME IInv PROVE MappedByTable
  OBVIOUS
<1>1. MappedUnits \subseteq LPN \X Unit
  BY DEF MappedUnits
<1>2. ASSUME NEW l \in LPN, NEW u \in Unit
      PROVE  <<l, u>> \in MappedUnits <=>
               /\ table[l][u] \in Location
               /\ content[table[l][u][1]][table[l][u][2]][u] = l
  BY DEF MappedUnits
<1>3. ASSUME NEW l \in LPN, NEW u \in Unit, table[l][u] # Unmapped
      PROVE  /\ table[l][u] \in Location
             /\ content[table[l][u][1]][table[l][u][2]][u] = l
  <2>1. table[l][u] \in Location
    BY <1>3 DEF IInv, FlashInv
  <2>2. PICK b \in Block, p \in Page : table[l][u] = <<b, p>>
    BY <2>1 DEF Location
  <2>3. content[b][p][u] = l
    BY <2>2 DEF IInv, FlashInv, MappingExact
  <2> QED
    BY <2>1, <2>2, <2>3
<1>4. Unmapped \notin Location
  BY LocationFacts
<1> QED
  BY <1>1, <1>2, <1>3, <1>4 DEF MappedByTable

\* And after a step.
LEMMA MappedUnitsAreMappedNext == IInv' => MappedByTable'
BY MappedUnitsAreMapped, PTL

\* What programming units maps.
LEMMA ProgramMaps ==
  ASSUME NEW d \in Block, NEW units \in SUBSET Unit, NEW owner, NEW old,
         \A u \in Unit : nextPage[d][u] \in Page,
         Program(d, units, owner, old),
         NEW l \in LPN, NEW u \in Unit
  PROVE  table'[l][u] # Unmapped <=>
           (u \in units /\ owner[u] = l) \/ table[l][u] # Unmapped
<1>1. table'[l][u] = IF u \in units /\ owner[u] = l THEN <<d, nextPage[d][u]>>
                                                    ELSE table[l][u]
  BY DEF Program
<1>2. <<d, nextPage[d][u]>> # Unmapped
  BY LocationFacts DEF Location
<1> QED
  BY <1>1, <1>2

\* Two sets of units are the same if they have the same members.
LEMMA SameUnits ==
  ASSUME NEW A, NEW B, A \subseteq LPN \X Unit, B \subseteq LPN \X Unit,
         \A k \in LPN, u \in Unit : <<k, u>> \in A <=> <<k, u>> \in B
  PROVE  A = B
<1>1. ASSUME NEW x \in LPN \X Unit PROVE x \in A <=> x \in B
  <2>1. PICK k \in LPN, u \in Unit : x = <<k, u>>
    OBVIOUS
  <2> QED
    BY <2>1
<1> QED
  BY <1>1

\* A write maps what the host wrote.
LEMMA WriteMaps ==
  ASSUME IInv, IInv', NEW l \in LPN, NEW units \in SUBSET Unit,
         WriteError(units) = NoPanic, WriteUnits(l, units)
  PROVE  MappedUnits' = MappedUnits \cup ({l} \X units)
<1>1. /\ \A u \in Unit : nextPage[Destination(units)][u] \in Page
      /\ Destination(units) \in Block
  <2>1. AllocError(units) = NoPanic
    BY DEF WriteError, FirstError
  <2> QED
    BY <2>1, DestinationIsOpen DEF IInv
<1>2. ASSUME NEW k \in LPN, NEW u \in Unit
      PROVE  table'[k][u] # Unmapped <=> (u \in units /\ l = k)
                                          \/ table[k][u] # Unmapped
  <2> DEFINE owner == [v \in Unit |-> l]
  <2>1. Program(Destination(units), units, owner, table[l])
    BY DEF WriteUnits
  <2>2. owner[u] = l
    OBVIOUS
  <2> HIDE DEF owner
  <2> QED
    BY <1>1, <2>1, <2>2, ProgramMaps
<1>3. /\ MappedUnits \subseteq LPN \X Unit
      /\ \A k \in LPN, u \in Unit :
           <<k, u>> \in MappedUnits <=> table[k][u] # Unmapped
  BY MappedUnitsAreMapped DEF MappedByTable
<1>4. /\ MappedUnits' \subseteq LPN \X Unit
      /\ \A k \in LPN, u \in Unit :
           <<k, u>> \in MappedUnits' <=> table'[k][u] # Unmapped
  BY MappedUnitsAreMappedNext DEF MappedByTable
<1>5. \A k \in LPN, u \in Unit :
        <<k, u>> \in MappedUnits' <=>
          <<k, u>> \in MappedUnits \cup ({l} \X units)
  BY <1>2, <1>3, <1>4
<1>6. MappedUnits \cup ({l} \X units) \subseteq LPN \X Unit
  BY <1>3
<1> QED
  BY <1>4, <1>5, <1>6

\* A trim or format unmaps the pages it drops, and nothing else.
LEMMA DiscardUnmaps ==
  ASSUME IInv, IInv', NEW lpns \in SUBSET LPN, Discard(lpns)
  PROVE  MappedUnits' = MappedUnits \ (lpns \X Unit)
<1>1. ASSUME NEW k \in LPN, NEW u \in Unit
      PROVE  table'[k][u] = IF k \in lpns THEN Unmapped ELSE table[k][u]
  BY DEF Discard
<1>2. /\ MappedUnits \subseteq LPN \X Unit
      /\ \A k \in LPN, u \in Unit :
           <<k, u>> \in MappedUnits <=> table[k][u] # Unmapped
  BY MappedUnitsAreMapped DEF MappedByTable
<1>3. /\ MappedUnits' \subseteq LPN \X Unit
      /\ \A k \in LPN, u \in Unit :
           <<k, u>> \in MappedUnits' <=> table'[k][u] # Unmapped
  BY MappedUnitsAreMappedNext DEF MappedByTable
<1>4. ASSUME NEW k \in LPN, NEW u \in Unit
      PROVE  <<k, u>> \in MappedUnits' <=>
               <<k, u>> \in MappedUnits \ (lpns \X Unit)
  <2>1. <<k, u>> \in lpns \X Unit <=> k \in lpns
    OBVIOUS
  <2>2. <<k, u>> \in MappedUnits' <=> table'[k][u] # Unmapped
    BY <1>3
  <2>3. <<k, u>> \in MappedUnits <=> table[k][u] # Unmapped
    BY <1>2
  <2>4. table'[k][u] = IF k \in lpns THEN Unmapped ELSE table[k][u]
    BY <1>1
  <2> QED
    BY <2>1, <2>2, <2>3, <2>4, Zenon
<1>5. MappedUnits \ (lpns \X Unit) \subseteq LPN \X Unit
  BY <1>2
<1> QED
  BY <1>3, <1>4, <1>5, SameUnits

\* Steps that map each unit that was mapped, and no other, are not seen.
LEMMA SameMapping ==
  ASSUME IInv, IInv',
         \A l \in LPN, u \in Unit :
           table'[l][u] # Unmapped <=> table[l][u] # Unmapped
  PROVE  MappedUnits' = MappedUnits
<1>1. /\ MappedUnits \subseteq LPN \X Unit
      /\ \A k \in LPN, u \in Unit :
           <<k, u>> \in MappedUnits <=> table[k][u] # Unmapped
  BY MappedUnitsAreMapped DEF MappedByTable
<1>2. /\ MappedUnits' \subseteq LPN \X Unit
      /\ \A k \in LPN, u \in Unit :
           <<k, u>> \in MappedUnits' <=> table'[k][u] # Unmapped
  BY MappedUnitsAreMappedNext DEF MappedByTable
<1>3. \A k \in LPN, u \in Unit :
        <<k, u>> \in MappedUnits' <=> <<k, u>> \in MappedUnits
  BY <1>1, <1>2
<1> QED
  BY <1>1, <1>2, <1>3, SameUnits

\* A panic halts the logical space.
LEMMA PanicHalts ==
  ASSUME pc # "panicked", pc' = "panicked", UNCHANGED flashVars
  PROVE  Abstract!Next
<1>1. MappedUnits' = MappedUnits
  BY DEF MappedUnits, flashVars
<1>2. Phase # "halted" /\ Phase' = "halted"
  BY DEF Phase
<1>3. Abstract!Halt
  BY <1>1, <1>2 DEF Abstract!Halt
<1> QED
  BY <1>3 DEF Abstract!Next

\* Every step of the page mapping is a step of the logical space or a stutter.
LEMMA StepImplements ==
  ASSUME IInv, IInv', IOUnitInPage # 1, Next
  PROVE  Abstract!Next \/ UNCHANGED <<MappedUnits, Phase>>
<1> DEFINE Simulated == Abstract!Next \/ UNCHANGED <<MappedUnits, Phase>>
<1>1. ASSUME pc # "panicked", pc' = "panicked",
             UNCHANGED <<flashVars, eraseCount, allocVars, filled, gcVars>>
      PROVE  Simulated
  BY <1>1, PanicHalts
<1>2. ASSUME NEW l \in LPN, NEW units \in SUBSET Unit,
             WriteError(units) = NoPanic, WriteUnits(l, units),
             Phase = "idle", Phase' \in {"idle", "busy"}
      PROVE  Simulated
  <2>1. MappedUnits' = MappedUnits \cup ({l} \X units)
    BY <1>2, WriteMaps
  <2>2. Abstract!Write(l, units)
    BY <1>2, <2>1 DEF Abstract!Write
  <2> QED
    BY <2>2 DEF Abstract!Next
<1>3. ASSUME NEW lpns \in SUBSET LPN, Discard(lpns),
             Phase = "idle", Phase' \in {"idle", "busy"}
      PROVE  Simulated
  <2>1. MappedUnits' = MappedUnits \ (lpns \X Unit)
    BY <1>3, DiscardUnmaps
  <2>2. Abstract!Discard(lpns)
    BY <1>3, <2>1 DEF Abstract!Discard
  <2> QED
    BY <2>2 DEF Abstract!Next
<1>4. ASSUME \A l \in LPN, u \in Unit :
               table'[l][u] # Unmapped <=> table[l][u] # Unmapped,
             Phase = "busy", Phase' \in {"idle", "busy"}
      PROVE  Simulated
  <2>1. MappedUnits' = MappedUnits
    BY <1>4, SameMapping
  <2>2. Abstract!Collect
    BY <1>4, <2>1 DEF Abstract!Collect
  <2> QED
    BY <2>2 DEF Abstract!Next
<1> HIDE DEF Simulated
<1>5. ASSUME NEW l \in LPN, InitWrite(l) PROVE Simulated
  <2>1. pc = "filling"
    BY <1>5 DEF InitWrite
  <2>2. CASE FillError = NoPanic
    <3>1. WriteUnits(l, Unit) /\ pc' \in {"ready", "filling"}
      BY <1>5, <2>1, <2>2 DEF InitWrite, Checked
    <3>2. WriteError(Unit) = NoPanic
      BY <2>2 DEF FillError, FirstError
    <3>3. Phase = "idle" /\ Phase' = "idle"
      BY <2>1, <3>1 DEF Phase
    <3> QED
      BY <1>2, <3>1, <3>2, <3>3
  <2>3. CASE FillError # NoPanic
    BY <1>1, <1>5, <2>1, <2>3 DEF InitWrite, Checked
  <2> QED
    BY <2>2, <2>3
<1>6. ASSUME NEW l \in LPN, NEW units \in (SUBSET Unit) \ {{}}, Write(l, units)
      PROVE  Simulated
  <2>1. pc = "ready"
    BY <1>6 DEF Write
  <2>2. CASE WriteError(units) = NoPanic
    <3>1. WriteUnits(l, units) /\ pc' \in {"ready", "select"}
      BY <1>6, <2>1, <2>2 DEF Write, Checked
    <3>2. Phase = "idle" /\ Phase' \in {"idle", "busy"}
      BY <2>1, <3>1 DEF Phase
    <3> QED
      BY <1>2, <2>2, <3>1, <3>2
  <2>3. CASE WriteError(units) # NoPanic
    BY <1>1, <1>6, <2>1, <2>3 DEF Write, Checked
  <2> QED
    BY <2>2, <2>3
<1>7. ASSUME NEW l \in LPN, NEW units \in (SUBSET Unit) \ {{}}, Read(l, units)
      PROVE  Simulated
  <2> DEFINE err == IF \E u \in units : /\ table[l][u] \in Location
                                       /\ table[l][u][1] \notin blocks
                    THEN "Block is not in use" ELSE NoPanic
  <2>1. pc = "ready" /\ UNCHANGED flashVars
    BY <1>7 DEF Read, Checked
  <2>2. CASE err = NoPanic
    <3>1. UNCHANGED pc
      BY <1>7, <2>2 DEF Read, Checked
    <3>2. UNCHANGED <<MappedUnits, Phase>>
      BY <2>1, <3>1 DEF MappedUnits, Phase, flashVars
    <3> QED
      BY <3>2 DEF Simulated
  <2>3. CASE err # NoPanic
    BY <1>1, <1>7, <2>1, <2>3 DEF Read, Checked
  <2> QED
    BY <2>2, <2>3
<1>8. ASSUME NEW l \in LPN, Trim(l) PROVE Simulated
  <2>1. pc = "ready"
    BY <1>8 DEF Trim
  <2>2. CASE DiscardError({l}) = NoPanic
    <3>1. Discard({l}) /\ pc' = pc
      BY <1>8, <2>2 DEF Trim, Checked
    <3>2. Phase = "idle" /\ Phase' = "idle"
      BY <2>1, <3>1 DEF Phase
    <3>3. {l} \in SUBSET LPN
      OBVIOUS
    <3> QED
      BY <1>3, <3>1, <3>2, <3>3
  <2>3. CASE DiscardError({l}) # NoPanic
    BY <1>1, <1>8, <2>1, <2>3 DEF Trim, Checked
  <2> QED
    BY <2>2, <2>3
<1>9. ASSUME NEW range \in FormatRanges, Format(range) PROVE Simulated
  <2>1. pc = "ready"
    BY <1>9 DEF Format
  <2>2. CASE DiscardError(Entries(range)) = NoPanic
    <3>1. Discard(Entries(range)) /\ pc' \in {"ready", "copy"}
      BY <1>9, <2>2 DEF Format, Checked
    <3>2. Phase = "idle" /\ Phase' \in {"idle", "busy"}
      BY <2>1, <3>1 DEF Phase
    <3>3. Entries(range) \in SUBSET LPN
      BY <1>9, GeometryAssumption DEF Entries
    <3> QED
      BY <1>3, <3>1, <3>2, <3>3
  <2>3. CASE DiscardError(Entries(range)) # NoPanic
    BY <1>1, <1>9, <2>1, <2>3 DEF Format, Checked
  <2> QED
    BY <2>2, <2>3
<1>10. ASSUME SelectVictimBlock PROVE Simulated
  <2>1. pc = "select"
    BY <1>10 DEF SelectVictimBlock
  <2>2. CASE SelectError = NoPanic
    <3>1. table' = table /\ pc' \in {"ready", "copy"}
      BY <1>10, <2>2 DEF SelectVictimBlock, Checked, flashVars
    <3>2. Phase = "busy" /\ Phase' \in {"idle", "busy"}
      BY <2>1, <3>1 DEF Phase
    <3> QED
      BY <1>4, <3>1, <3>2
  <2>3. CASE SelectError # NoPanic
    BY <1>1, <1>10, <2>1, <2>3 DEF SelectVictimBlock, Checked
  <2> QED
    BY <2>2, <2>3
<1>11. ASSUME CopyPage PROVE Simulated
  <2> DEFINE p     == Min(PagesLeft)
             units == LiveUnits(Victim, p)
             owner == [u \in Unit |-> Owner(content[Victim][p][u])]
             old   == [u \in Unit |-> <<Victim, p>>]
  <2>1. pc = "copy" /\ Victim \in Block
    BY <1>11, VictimIsBlock DEF CopyPage
  <2>2. CASE CopyError(units, owner) = NoPanic
    <3>1. /\ Program(Destination(units), units, owner, old)
          /\ pc' = pc
      BY <1>11, <2>2 DEF CopyPage, Checked
    <3>2. AllocError(units) = NoPanic
      BY <2>2 DEF CopyError, FirstError
    <3>3. p \in Page
      <4>1. PagesLeft \subseteq Page /\ Page \subseteq Nat
        BY LocationFacts DEF PagesLeft, LivePages
      <4>2. p \in PagesLeft
        BY <1>11, <4>1, MinNat DEF CopyPage
      <4> QED
        BY <4>1, <4>2
    <3>4. /\ units \in SUBSET Unit
          /\ \A u \in units : owner[u] \in LPN /\ table[owner[u]][u] # Unmapped
      <4>1. units \in SUBSET Unit
            /\ \A u \in units : content[Victim][p][u] \in LPN
        BY DEF LiveUnits, ValidUnits, IsValid
      <4>2. ASSUME NEW u \in units
            PROVE  owner[u] \in LPN /\ table[owner[u]][u] # Unmapped
        <5>1. u \in Unit /\ owner[u] = content[Victim][p][u] /\ owner[u] \in LPN
          BY <4>1 DEF Owner
        <5>2. table[content[Victim][p][u]][u] = <<Victim, p>>
          BY <2>1, <3>3, <4>1, <5>1 DEF IInv, FlashInv, MappingExact
        <5>3. <<Victim, p>> # Unmapped
          BY <2>1, <3>3, LocationFacts DEF Location
        <5> QED
          BY <5>1, <5>2, <5>3
      <4> QED
        BY <4>1, <4>2
    <3> HIDE DEF p, units, owner, old
    <3>5. /\ Destination(units) \in Block
          /\ \A u \in Unit : nextPage[Destination(units)][u] \in Page
      BY <3>2, DestinationIsOpen DEF IInv
    <3>6. ASSUME NEW l \in LPN, NEW u \in Unit
          PROVE  table'[l][u] # Unmapped <=> table[l][u] # Unmapped
      <4>1. table'[l][u] # Unmapped <=>
              (u \in units /\ owner[u] = l) \/ table[l][u] # Unmapped
        BY <3>1, <3>4, <3>5, ProgramMaps
      <4> QED
        BY <3>4, <4>1
    <3>7. Phase = "busy" /\ Phase' = "busy"
      BY <2>1, <3>1 DEF Phase
    <3> QED
      BY <1>4, <3>6, <3>7
  <2>3. CASE CopyError(units, owner) # NoPanic
    BY <1>1, <1>11, <2>1, <2>3 DEF CopyPage, Checked
  <2> QED
    BY <2>2, <2>3
<1>12. ASSUME EndVictim PROVE Simulated
  <2>1. pc = "copy"
    BY <1>12 DEF EndVictim
  <2>2. CASE Victim \in blocks
    <3>1. table' = table /\ pc' \in {"copy", "erase"}
      BY <1>12, <2>1, <2>2 DEF EndVictim, Checked, flashVars
    <3>2. Phase = "busy" /\ Phase' \in {"idle", "busy"}
      BY <2>1, <3>1 DEF Phase
    <3> QED
      BY <1>4, <3>1, <3>2
  <2>3. CASE Victim \notin blocks
    BY <1>1, <1>12, <2>1, <2>3 DEF EndVictim, Checked, NoPanic
  <2> QED
    BY <2>2, <2>3
<1>13. ASSUME EraseBlock PROVE Simulated
  <2>1. pc = "erase"
    BY <1>13 DEF EraseBlock
  <2>2. CASE EraseError = NoPanic
    <3>1. table' = table /\ pc' \in {"ready", "erase"}
      BY <1>13, <2>1, <2>2 DEF EraseBlock, Checked
    <3>2. Phase = "busy" /\ Phase' \in {"idle", "busy"}
      BY <2>1, <3>1 DEF Phase
    <3> QED
      BY <1>4, <3>1, <3>2
  <2>3. CASE EraseError # NoPanic
    BY <1>1, <1>13, <2>1, <2>3 DEF EraseBlock, Checked
  <2> QED
    BY <2>2, <2>3
<1>14. Simulated
  BY <1>5, <1>6, <1>7, <1>8, <1>9, <1>10, <1>11, <1>12, <1>13
  DEF Next, GarbageCollection
<1> QED
  BY <1>14 DEF Simulated

\* The page mapping implements the logical space: with no step, of a request
\* or of a collection between two requests, can a unit the host wrote go, or
\* one it discarded come back.
THEOREM LogicalSpaceImplemented ==
  ASSUME IOUnitInPage # 1
  PROVE  Spec => ImplementsLogicalSpace
<1>1. Init => Abstract!Init
  <2> SUFFICES ASSUME Init PROVE Abstract!Init
    OBVIOUS
  <2>1. Phase = "idle"
    BY DEF Init, Phase
  <2>2. MappedUnits = {}
    <3>1. \A l \in LPN, u \in Unit : table[l][u] = Unmapped
      BY DEF Init
    <3>2. Unmapped \notin Location
      BY LocationFacts
    <3> QED
      BY <3>1, <3>2 DEF MappedUnits
  <2> QED
    BY <2>1, <2>2 DEF Abstract!Init
<1>2. IInv /\ IInv' /\ [Next]_vars => [Abstract!Next]_<<MappedUnits, Phase>>
  <2>1. ASSUME UNCHANGED vars PROVE UNCHANGED <<MappedUnits, Phase>>
    BY <2>1 DEF vars, flashVars, MappedUnits, Phase
  <2> QED
    BY <2>1, StepImplements
<1>3. Spec => []IInv
  BY InvariantHolds
<1> QED
  BY <1>1, <1>2, <1>3, PTL DEF Spec, ImplementsLogicalSpace, Abstract!Spec

-----------------------------------------------------------------------------
(* With one lane, whole pages and no format, no sanity check ever fails. *)

\* The block being written; there is one lane.
Open == lastFreeBlock[0]

\* A collection in progress.  Its victims are distinct, full, and in use until
\* they are erased.  What was copied out of them is gone from them, so that the
\* erase loop meets no valid page; and the open block is no victim any more by
\* then, since a victim that is open still has a page to be copied.
VictimsInv ==
  /\ pc \in {"copy", "erase"} =>
       /\ \A i, j \in 1 .. Len(victims) : victims[i] = victims[j] => i = j
       /\ \A i \in 1 .. Len(victims) : pc = "copy" \/ i >= cursor.victim =>
            victims[i] \in blocks /\ IsFull(victims[i])
  /\ pc = "copy" => \A i \in 1 .. Len(victims) :
       /\ i < cursor.victim => ValidPages(victims[i]) = {}
       /\ i = cursor.victim =>
            \A p \in ValidPages(victims[i]) : p >= cursor.page
       /\ victims[i] = Open => ValidPages(Open) # {}
  /\ pc = "erase" => \A i \in 1 .. Len(victims) : i >= cursor.victim =>
       ValidPages(victims[i]) = {} /\ victims[i] # Open

\* The open block is in use; the page a host's write put last is valid still
\* when the collection it starts selects its victims.
OpenInv ==
  /\ Open \in blocks
  /\ pc = "select" => ValidPages(Open) # {}

\* Filling takes a new block only for every PagesInBlock pages.
FillInv ==
  pc = "filling" => \A u \in Unit :
    (TotalPhysicalBlocks - 1 - nFreeBlocks) * PagesInBlock + nextPage[Open][u]
      = filled

\* The sanity checks hold, and this is why.
ChecksInv == SanityChecks /\ VictimsInv /\ OpenInv /\ FillInv

\* The configurations without what can make a check fail (see the README): a
\* second lane, a format, pages written in part, victims drawn at random, and
\* more pages to fill than fit.
PlainConfig ==
  /\ IOUnitInPage # 1
  /\ PageCountToMaxPerf = 1
  /\ ~RandomTweak
  /\ FormatRanges = {}
  /\ EvictPolicy \in {"greedy", "cost-benefit"}
  /\ PagesToWarmup <= MaxPagesBeforeGC
  /\ MaxPagesBeforeGC < UInt64Range

Shortage == "No free block left"

\* One lane: every write goes to the open block.
LEMMA OpenIsActive ==
  ASSUME AllocInv, PlainConfig, NEW units
  PROVE  NextLane(units) = 0 /\ Active(units) = Open /\ 0 \in Lane /\ Open \in Block
<1>1. Lane = {0}
  BY DEF PlainConfig, Lane
<1>2. NextLane(units) \in Lane
  BY NextLaneIsLane
<1> QED
  BY <1>1, <1>2 DEF Active, Open, AllocInv

\* While the open block is in use, only a shortage of free blocks stops a write.
LEMMA AllocErrorIsShortage ==
  ASSUME AllocInv, PlainConfig, Open \in blocks, NEW units
  PROVE  AllocError(units) \in {NoPanic, Shortage}
<1>1. Active(units) \in blocks
  BY OpenIsActive
<1>2. ASSUME nFreeBlocks > 0 PROVE FreeBlock(NextLane(units)) \notin blocks
  BY <1>2, FreeIndexIsIndex DEF FreeBlock, AllocInv
<1> QED
  BY <1>1, <1>2 DEF AllocError, Shortage

\* The page written is erased: flash is programmed in order.
LEMMA NoProgramError ==
  ASSUME FlashInv, AllocInv, IdleBlank, NEW units \in SUBSET Unit,
         AllocError(units) = NoPanic
  PROVE  ProgramError(Destination(units), units) = NoPanic
<1>1. /\ Destination(units) \in Block
      /\ \A u \in Unit : nextPage[Destination(units)][u] \in Page
  BY DestinationIsOpen
<1>2. \A u \in Unit :
        content[Destination(units)][nextPage[Destination(units)][u]][u] = Erased
  <2> TAKE u \in Unit
  <2>1. nextPage[Destination(units)][u] \in Page /\ Page \subseteq Nat
    BY <1>1, LocationFacts
  <2> QED
    BY <1>1, <2>1 DEF FlashInv, ProgramOrder
<1> QED
  BY <1>2 DEF ProgramError

\* What a write needs is what the allocator needs.
LEMMA WriteErrorIsShortage ==
  ASSUME IInv, PlainConfig, Open \in blocks, NEW units \in SUBSET Unit
  PROVE  WriteError(units) \in {NoPanic, Shortage}
<1>1. AllocError(units) \in {NoPanic, Shortage}
  BY AllocErrorIsShortage DEF IInv
<1>2. AllocError(units) = NoPanic
        => ProgramError(Destination(units), units) = NoPanic
  BY NoProgramError DEF IInv
<1> QED
  BY <1>1, <1>2 DEF WriteError, FirstError

\* What programming does to the pages of the block programmed, and of others.
LEMMA ProgramKeepsValid ==
  ASSUME FlashInv, NEW d \in Block, NEW units \in SUBSET Unit,
         NEW owner, NEW old, \A u \in Unit : nextPage[d][u] \in Page,
         Program(d, units, owner, old)
  PROVE  /\ \A b \in Block \ {d}, u \in Unit :
              /\ nextPage'[b][u] = nextPage[b][u]
              /\ \A p \in Page :
                   content'[b][p][u] \in LPN => content[b][p][u] \in LPN
         /\ \A b \in Block \ {d}, p \in Page, u \in units :
              old[u] = <<b, p>> => content'[b][p][u] \notin LPN
         /\ \A u \in units : owner[u] \in LPN =>
              content'[d][nextPage[d][u]][u] \in LPN
<1>1. ASSUME NEW b \in Block \ {d}, NEW p \in Page, NEW u \in Unit
      PROVE  /\ content'[b][p][u] = IF u \in units /\ old[u] = <<b, p>>
                                    THEN Invalidated(content[b][p][u])
                                    ELSE content[b][p][u]
             /\ Invalidated(content[b][p][u]) \notin LPN
  <2>1. content[b][p][u] \in Content
    BY DEF FlashInv
  <2> QED
    BY <2>1, ContentFacts DEF Program
<1>2. ASSUME NEW b \in Block \ {d}, NEW u \in Unit
      PROVE  /\ nextPage'[b][u] = nextPage[b][u]
             /\ \A p \in Page :
                  content'[b][p][u] \in LPN => content[b][p][u] \in LPN
  BY <1>1 DEF Program, FlashInv
<1>3. ASSUME NEW b \in Block \ {d}, NEW p \in Page,
             NEW u \in units, old[u] = <<b, p>>
      PROVE  content'[b][p][u] \notin LPN
  BY <1>1, <1>3
<1>4. ASSUME NEW u \in units, owner[u] \in LPN
      PROVE  content'[d][nextPage[d][u]][u] \in LPN
  BY <1>4 DEF Program
<1> QED
  BY <1>2, <1>3, <1>4

\* After a write the open block is the block written, which was no full one.
LEMMA WriteKeepsOpen ==
  ASSUME IInv, PlainConfig, Open \in blocks, NEW units \in SUBSET Unit,
         AllocError(units) = NoPanic, TakeDestination(units)
  PROVE  /\ Destination(units) \in Block
         /\ \A u \in Unit : nextPage[Destination(units)][u] \in Page
         /\ Open' = Destination(units)
         /\ blocks' = blocks \cup {Destination(units)}
         /\ \A b \in blocks : IsFull(b) => b # Destination(units)
<1>1. /\ NextLane(units) = 0 /\ Active(units) = Open /\ 0 \in Lane
      /\ Open \in Block
  BY OpenIsActive DEF IInv
<1>2. /\ Destination(units) \in Block
      /\ \A u \in Unit : nextPage[Destination(units)][u] \in Page
      /\ IsFull(Active(units)) =>
           /\ FreeIndex(NextLane(units)) \in 1 .. Len(freeBlocks)
           /\ Destination(units) = freeBlocks[FreeIndex(NextLane(units))]
      /\ ~IsFull(Active(units)) => Destination(units) = Active(units)
  BY DestinationIsOpen DEF IInv
<1>3. blocks' = blocks \cup {Destination(units)}
  BY TakeDestinationKeepsAlloc DEF IInv
<1>4. Open' = Destination(units)
  BY <1>1, <1>2 DEF TakeDestination, Open, IInv, AllocInv
<1>5. \A b \in blocks : IsFull(b) => b # Destination(units)
  BY <1>1, <1>2 DEF IInv, AllocInv
<1> QED
  BY <1>2, <1>3, <1>4, <1>5

\* A panic for want of free blocks leaves everything as it was.
LEMMA ShortageKeepsChecks ==
  ASSUME IInv, ChecksInv, pc' = "panicked", panic' = Shortage,
         UNCHANGED <<flashVars, eraseCount, allocVars, filled, gcVars>>
  PROVE  ChecksInv'
<1>1. SanityChecks'
  BY DEF SanityChecks, Shortage
<1>2. VictimsInv' /\ FillInv'
  BY DEF VictimsInv, FillInv
<1>3. OpenInv'
  BY DEF ChecksInv, OpenInv, Open, allocVars
<1> QED
  BY <1>1, <1>2, <1>3 DEF ChecksInv

\* initialize() fills at most the pages that fit without a collection.
LEMMA PagesToFillFit ==
  ASSUME PlainConfig
  PROVE  MaxPagesBeforeGC \in Nat /\ PagesToFill <= MaxPagesBeforeGC
<1>1. /\ MaxPagesBeforeGC \in Int /\ MaxPagesBeforeGC >= 0
      /\ PagesToWarmup \in Nat /\ InvalidPages \in Nat
      /\ UInt64Range \in Nat \ {0}
  <2>1. /\ PagesInBlock \in Nat /\ TotalPhysicalBlocks \in Nat
        /\ GCThreshold \in Nat /\ PageCountToMaxPerf \in Nat
    BY GeometryAssumption, ConfigAssumption
  <2> QED
    BY <2>1, GeometryAssumption, FillingAssumption DEF MaxPagesBeforeGC
<1> DEFINE room == MaxPagesBeforeGC - PagesToWarmup
<1>2. room \in 0 .. UInt64Range - 1
  BY <1>1 DEF PlainConfig
<1> HIDE DEF room
<1>3. room % UInt64Range = room
  BY <1>1, <1>2
<1>4. CASE PagesToWarmup + InvalidPages > MaxPagesBeforeGC
  <2>1. PagesToInvalidate = room
    BY <1>3, <1>4 DEF PagesToInvalidate, room
  <2> QED
    BY <1>1, <2>1 DEF PagesToFill, room
<1>5. CASE ~(PagesToWarmup + InvalidPages > MaxPagesBeforeGC)
  BY <1>1, <1>5 DEF PagesToFill, PagesToInvalidate
<1> QED
  BY <1>1, <1>4, <1>5

\* Few enough blocks are taken to leave the threshold of free ones.
LEMMA FewBlocksTaken ==
  ASSUME PlainConfig, NEW n \in Nat,
         (TotalPhysicalBlocks - 1 - n) * PagesInBlock < PagesToFill
  PROVE  ~NeedsGC(n)
<1> DEFINE k == TotalPhysicalBlocks - 1 - n
           X == TotalPhysicalBlocks * (100 - GCThreshold) - 100
<1>1. /\ PagesInBlock \in Nat \ {0} /\ TotalPhysicalBlocks \in Nat
      /\ GCThreshold \in Nat /\ k \in Int /\ PageCountToMaxPerf = 1
  BY GeometryAssumption, ConfigAssumption DEF PlainConfig
<1>2. X \in Int
  BY <1>1
<1>3. /\ MaxPagesBeforeGC = (PagesInBlock * X) \div 100
      /\ MaxPagesBeforeGC \in Nat /\ PagesToFill <= MaxPagesBeforeGC
      /\ PagesToFill \in Nat
  BY <1>1, PagesToFillFit, PagesToFillIsNat DEF MaxPagesBeforeGC
<1> HIDE DEF X
<1>4. k * PagesInBlock \in Int /\ PagesInBlock * X \in Int
  BY <1>1, <1>2
<1>5. k * PagesInBlock < (PagesInBlock * X) \div 100
  BY <1>1, <1>3, <1>4
<1> HIDE DEF k
<1>6. 100 * (k * PagesInBlock) < PagesInBlock * X
  <2> DEFINE a == k * PagesInBlock
             b == PagesInBlock * X
  <2>1. a \in Int /\ b \in Int /\ a < b \div 100
    BY <1>4, <1>5
  <2> HIDE DEF a, b
  <2>2. 100 * a < b
    BY <2>1
  <2> QED
    BY <2>2 DEF a, b
<1>7. 100 * k < X
  <2>1. SUFFICES ASSUME X <= 100 * k PROVE FALSE
    BY <1>1, <1>2
  <2>2. PagesInBlock * X <= PagesInBlock * (100 * k)
    BY <1>1, <1>2, <2>1
  <2>3. PagesInBlock * (100 * k) = 100 * (k * PagesInBlock)
    BY <1>1
  <2> QED
    BY <1>1, <1>2, <1>4, <1>6, <2>2, <2>3
<1>8. TotalPhysicalBlocks * (100 - GCThreshold)
        = 100 * TotalPhysicalBlocks - TotalPhysicalBlocks * GCThreshold
  BY <1>1
<1>9. TotalPhysicalBlocks * GCThreshold \in Int
  BY <1>1
<1>10. n * 100 > TotalPhysicalBlocks * GCThreshold
  BY <1>1, <1>7, <1>8, <1>9 DEF k, X
<1> QED
  BY <1>1, <1>9, <1>10 DEF NeedsGC

\* Filling ends before free blocks are few, and stays in step with its count.
LEMMA FillKeepsChecks ==
  ASSUME IInv, PlainConfig, ChecksInv, NEW l \in LPN, InitWrite(l)
  PROVE  ChecksInv'
<1>0. /\ pc = "filling" /\ Open \in blocks
      /\ \A u \in Unit :
           (TotalPhysicalBlocks - 1 - nFreeBlocks) * PagesInBlock
             + nextPage[Open][u] = filled
  BY DEF InitWrite, ChecksInv, OpenInv, FillInv
<1>1. /\ nFreeBlocks \in Nat /\ PagesInBlock \in Nat \ {0}
      /\ TotalPhysicalBlocks \in Nat /\ filled \in Nat /\ filled < PagesToFill
      /\ PagesToFill \in Nat
      /\ Open \in Block
      /\ \A u \in Unit : nextPage[Open][u] \in Nat
      /\ 0 \in Unit
  <2>1. Open \in Block
    BY <1>0 DEF IInv, AllocInv
  <2>2. \A u \in Unit : nextPage[Open][u] \in Nat
    BY <2>1, LocationFacts DEF IInv, FlashInv
  <2> QED
    BY <1>0, <2>1, <2>2, LenProperties, PagesToFillIsNat, GeometryAssumption, SMTT(20)
    DEF IInv, AllocInv, StackInv, Unit
<1> DEFINE k == (TotalPhysicalBlocks - 1 - nFreeBlocks) * PagesInBlock
<1>2. k \in Int
  BY <1>1
<1>3. (TotalPhysicalBlocks - 1 - (nFreeBlocks - 1)) * PagesInBlock
        = k + PagesInBlock
  BY <1>1
<1> HIDE DEF k
<1>4. \A u \in Unit : k + nextPage[Open][u] = filled
  BY <1>0 DEF k
<1>5. WriteError(Unit) \in {NoPanic, Shortage}
  BY <1>0, WriteErrorIsShortage
<1>6. CASE WriteError(Unit) # NoPanic
  <2>1. FillError = Shortage
    BY <1>5, <1>6 DEF FillError, FirstError
  <2> QED
    BY <2>1, ShortageKeepsChecks DEF InitWrite, Checked, Shortage, NoPanic
<1>7. CASE WriteError(Unit) = NoPanic
  <2>1. AllocError(Unit) = NoPanic /\ Active(Unit) = Open
    BY <1>7, OpenIsActive DEF WriteError, FirstError, IInv
  <2>2. IsFull(Open) => nFreeBlocks > 0
    BY <2>1, DestinationIsOpen DEF IInv
  <2>3. ~NeedsGC(FreeAfter(Unit))
    <3>1. CASE ~IsFull(Open)
      <4>1. k < PagesToFill
        BY <1>1, <1>2, <1>4
      <4>2. ~NeedsGC(nFreeBlocks)
        BY <1>1, <4>1, FewBlocksTaken DEF k
      <4> QED
        BY <2>1, <3>1, <4>2 DEF FreeAfter
    <3>2. CASE IsFull(Open)
      <4>1. PICK u \in Unit : nextPage[Open][u] = PagesInBlock
        BY <3>2 DEF IsFull
      <4>2. k + PagesInBlock < PagesToFill /\ nFreeBlocks - 1 \in Nat
        BY <1>1, <1>2, <1>4, <2>2, <3>2, <4>1
      <4>3. (TotalPhysicalBlocks - 1 - (nFreeBlocks - 1)) * PagesInBlock
              < PagesToFill
        BY <1>3, <4>2
      <4>4. ~NeedsGC(nFreeBlocks - 1)
        BY <4>2, <4>3, FewBlocksTaken
      <4> QED
        BY <2>1, <3>2, <4>4 DEF FreeAfter
    <3> QED
      BY <3>1, <3>2
  <2>4. FillError = NoPanic
    BY <1>7, <2>3 DEF FillError, FirstError
  <2>5. /\ WriteUnits(l, Unit) /\ filled' = filled + 1
        /\ pc' \in {"ready", "filling"} /\ panic' = panic
    BY <1>0, <2>4 DEF InitWrite, Checked
  <2> DEFINE d == Destination(Unit)
  <2>6. /\ TakeDestination(Unit)
        /\ nextPage' = [nextPage EXCEPT ![d] = [u \in Unit |-> nextPage[d][u] + 1]]
    BY <2>5 DEF WriteUnits, Program
  <2>7. /\ d \in Block /\ Open' = d /\ d \in blocks'
    BY <1>0, <2>1, <2>6, WriteKeepsOpen
  <2>8. FillInv'
    <3>1. \A u \in Unit : nextPage'[d][u] = nextPage[d][u] + 1
      BY <2>6, <2>7 DEF IInv, FlashInv
    <3>2. CASE ~IsFull(Open)
      <4>1. d = Open /\ nFreeBlocks' = nFreeBlocks
        BY <2>1, <2>6, <3>2 DEF Destination, TakeDestination
      <4>2. \A u \in Unit : k + nextPage'[d][u] = filled'
        BY <1>1, <1>2, <1>4, <2>5, <3>1, <4>1
      <4> QED
        BY <2>7, <4>1, <4>2 DEF FillInv, k
    <3>3. CASE IsFull(Open)
      <4>1. PICK u \in Unit : nextPage[Open][u] = PagesInBlock
        BY <3>3 DEF IsFull
      <4>2. k + PagesInBlock = filled
        BY <1>1, <1>2, <1>4, <4>1
      <4>3. nFreeBlocks' = nFreeBlocks - 1
        BY <2>1, <2>6, <3>3 DEF TakeDestination
      <4>4. \A v \in Unit : nextPage[d][v] = 0
        <5>1. d \notin blocks
          <6>1. d = FreeBlock(NextLane(Unit))
            BY <2>1, <3>3 DEF Destination
          <6> QED
            BY <2>2, <3>3, <6>1, FreeIndexIsIndex DEF FreeBlock, IInv, AllocInv
        <5> QED
          BY <2>7, <5>1 DEF IInv, IdleBlank
      <4>5. \A v \in Unit : k + PagesInBlock + nextPage'[d][v] = filled'
        BY <1>1, <1>2, <2>5, <3>1, <4>2, <4>4
      <4>6. (TotalPhysicalBlocks - 1 - nFreeBlocks') * PagesInBlock
              = k + PagesInBlock
        BY <1>3, <4>3
      <4> QED
        BY <2>7, <4>5, <4>6 DEF FillInv
    <3> QED
      BY <3>2, <3>3
  <2>9. VictimsInv'
    BY <2>5 DEF VictimsInv
  <2>10. OpenInv' /\ SanityChecks'
    BY <2>5, <2>7 DEF OpenInv, ChecksInv, SanityChecks
  <2> QED
    BY <2>8, <2>9, <2>10 DEF ChecksInv
<1> QED
  BY <1>6, <1>7

\* The page a host's write put last is valid when a collection starts.
LEMMA HostWriteKeepsChecks ==
  ASSUME IInv, PlainConfig, ChecksInv, NEW l \in LPN,
         NEW units \in (SUBSET Unit) \ {{}}, Write(l, units)
  PROVE  ChecksInv'
<1>1. pc = "ready" /\ Open \in blocks
  BY DEF Write, ChecksInv, OpenInv
<1>2. WriteError(units) \in {NoPanic, Shortage}
  BY <1>1, WriteErrorIsShortage
<1>3. CASE WriteError(units) # NoPanic
  BY <1>2, <1>3, ShortageKeepsChecks DEF Write, Checked
<1>4. CASE WriteError(units) = NoPanic
  <2>1. /\ WriteUnits(l, units) /\ panic' = panic /\ pc' \in {"select", "ready"}
    BY <1>4 DEF Write, Checked
  <2>2. AllocError(units) = NoPanic
    BY <1>4 DEF WriteError, FirstError
  <2> DEFINE owner == [u \in Unit |-> l]
  <2>3. TakeDestination(units)
    BY <2>1 DEF WriteUnits
  <2>4. PICK d \in Block :
          /\ Open' = d /\ d \in blocks'
          /\ \A u \in Unit : nextPage[d][u] \in Page
          /\ Program(d, units, owner, table[l])
    BY <1>1, <2>1, <2>2, <2>3, WriteKeepsOpen DEF WriteUnits
  <2>5. PICK u \in units : owner[u] \in LPN
    OBVIOUS
  <2>6. content'[d][nextPage[d][u]][u] \in LPN
    <3>1. PICK old : Program(d, units, owner, old)
      BY <2>4
    <3> HIDE DEF owner
    <3> QED
      BY <2>4, <2>5, <3>1, ProgramKeepsValid DEF IInv
  <2>7. OpenInv'
    <3>1. nextPage[d][u] \in Page /\ u \in Unit
      BY <2>4
    <3>2. nextPage[d][u] \in ValidPages(Open)'
      BY <2>4, <2>6, <3>1 DEF ValidPages, ValidUnits, IsValid
    <3> QED
      BY <2>4, <3>2 DEF OpenInv
  <2>8. SanityChecks' /\ VictimsInv' /\ FillInv'
    BY <2>1 DEF ChecksInv, SanityChecks, VictimsInv, FillInv
  <2> QED
    BY <2>7, <2>8 DEF ChecksInv
<1> QED
  BY <1>3, <1>4

\* A mapped unit lies in a block in use, where reads and trims look for it.
LEMMA MappedInUse ==
  ASSUME IInv, NEW l \in LPN, NEW u \in Unit, table[l][u] # Unmapped
  PROVE  table[l][u] \in Location /\ table[l][u][1] \in blocks
<1>1. table[l][u] \in Location
  BY DEF IInv, FlashInv
<1>2. PICK b \in Block, p \in Page : table[l][u] = <<b, p>>
  BY <1>1 DEF Location
<1>3. content[b][p][u] = l /\ l # Erased
  BY <1>2, ContentFacts DEF IInv, FlashInv, MappingExact
<1>4. b \in blocks
  BY <1>3 DEF IInv, IdleBlank
<1> QED
  BY <1>1, <1>2, <1>4

LEMMA ReadKeepsChecks ==
  ASSUME IInv, ChecksInv, NEW l \in LPN, NEW units \in SUBSET Unit,
         Read(l, units)
  PROVE  ChecksInv'
<1>1. \A u \in units : table[l][u] \in Location => table[l][u][1] \in blocks
  BY MappedInUse, LocationFacts
<1>2. UNCHANGED vars
  BY <1>1 DEF Read, Checked, vars
<1>3. SanityChecks' /\ FillInv'
  BY <1>2 DEF ChecksInv, SanityChecks, FillInv, Open, vars, flashVars, allocVars
<1>4. VictimsInv' /\ OpenInv'
  BY <1>2 DEF ChecksInv, VictimsInv, OpenInv, Open, ValidPages, ValidUnits,
              IsValid, IsFull, vars, flashVars, allocVars, gcVars
<1> QED
  BY <1>3, <1>4 DEF ChecksInv

\* A page mapped as one unit is mapped as a whole.
LEMMA TrimKeepsChecks ==
  ASSUME IInv, PlainConfig, ChecksInv, NEW l \in LPN, Trim(l)
  PROVE  ChecksInv'
<1>1. \A u \in Unit : table[l][u][1] \in blocks
  <2>1. PICK v \in Unit : table[l][v] # Unmapped
    BY DEF Trim, HasEntry
  <2>2. Unit = {0}
    BY DEF PlainConfig, Unit
  <2>3. \A u \in Unit : table[l][u] # Unmapped
    BY <2>1, <2>2
  <2> QED
    BY <2>3, MappedInUse
<1>2. DiscardError({l}) = NoPanic
  BY <1>1 DEF DiscardError
<1>3. /\ pc = "ready" /\ panic' = panic
      /\ UNCHANGED <<eraseCount, allocVars, pc, filled, gcVars>>
  BY <1>2 DEF Trim, Checked
<1>4. SanityChecks' /\ VictimsInv' /\ FillInv'
  BY <1>3 DEF ChecksInv, SanityChecks, VictimsInv, FillInv
<1>5. OpenInv'
  BY <1>3 DEF ChecksInv, OpenInv, Open, allocVars
<1> QED
  BY <1>4, <1>5 DEF ChecksInv

\* Victims are distinct full blocks.
LEMMA VictimListFacts ==
  ASSUME PlainConfig, NEW list \in VictimLists
  PROVE  \E k : /\ list \in [1 .. k -> Candidates]
                /\ \A i, j \in 1 .. k : list[i] = list[j] => i = j
<1> DEFINE k == Min({BlocksToReclaim, Cardinality(Candidates)})
<1>1. list \in ListsOf(k, Candidates)
  BY DEF VictimLists, PlainConfig, LeastUtilized
<1> QED
  BY <1>1 DEF ListsOf

LEMMA SelectKeepsChecks ==
  ASSUME IInv, IInv', PlainConfig, ChecksInv, SelectVictimBlock
  PROVE  ChecksInv'
<1>1. SelectError = NoPanic
  <2>1. EvictPolicy # "random" /\ EvictPolicy # "d-choice"
    BY DEF PlainConfig
  <2>2. SampleSize = 0
    BY <2>1 DEF SampleSize
  <2> QED
    BY <2>2 DEF SelectError
<1>2. /\ victims' \in VictimLists /\ cursor' = AtStart /\ panic' = panic
      /\ pc' \in {"ready", "copy"} /\ pc = "select"
      /\ UNCHANGED <<flashVars, blocks, lastFreeBlock>>
  BY <1>1 DEF SelectVictimBlock, Checked
<1>3. PICK k : /\ victims' \in [1 .. k -> Candidates]
               /\ \A i, j \in 1 .. k : victims'[i] = victims'[j] => i = j
  BY <1>2, VictimListFacts
<1>4. /\ \A i \in 1 .. Len(victims') : victims'[i] \in Candidates
      /\ \A i, j \in 1 .. Len(victims') : victims'[i] = victims'[j] => i = j
  <2>1. victims' \in Seq(Block)
    BY DEF IInv, StackInv
  <2>2. DOMAIN victims' = 1 .. Len(victims')
    BY <2>1
  <2>3. DOMAIN victims' = 1 .. k
    BY <1>3
  <2> QED
    BY <1>3, <2>2, <2>3
<1>5. OpenInv' /\ Open' = Open
  BY <1>2 DEF ChecksInv, OpenInv, Open
<1>6. VictimsInv'
  <2>1. ValidPages(Open) # {}
    BY <1>2 DEF ChecksInv, OpenInv
  <2>2. \A i \in 1 .. Len(victims') :
          /\ victims'[i] \in blocks' /\ IsFull(victims[i])'
    <3> TAKE i \in 1 .. Len(victims')
    <3>1. victims'[i] \in blocks /\ IsFull(victims'[i])
      BY <1>4 DEF Candidates
    <3> QED
      BY <1>2, <3>1 DEF IsFull, flashVars
  <2>3. ValidPages(Open)' # {}
    BY <1>2, <1>5, <2>1 DEF ValidPages, ValidUnits, IsValid, flashVars
  <2>4. cursor'.victim = 1 /\ cursor'.page = 0
    BY <1>2 DEF AtStart
  <2>5. \A i \in 1 .. Len(victims') : \A p \in ValidPages(victims[i])' : p >= 0
    BY LocationFacts DEF ValidPages
  <2>6. Len(victims') \in Nat /\ \A i \in 1 .. Len(victims') : victims'[i] \in Block
    BY LenProperties, ElementOfSeq DEF IInv, StackInv
  <2>7. \A i \in 1 .. Len(victims') : ~(i < cursor'.victim)
    BY <2>4, <2>6
  <2> QED
    BY <1>2, <1>4, <2>2, <2>3, <2>4, <2>5, <2>6, <2>7 DEF VictimsInv
<1>7. SanityChecks' /\ FillInv'
  BY <1>2 DEF ChecksInv, SanityChecks, FillInv
<1> QED
  BY <1>5, <1>6, <1>7 DEF ChecksInv

\* A copy takes the first page left out of the victim, and puts none into a
\* victim: what is written is not full.
LEMMA CopyKeepsChecks ==
  ASSUME IInv, PlainConfig, ChecksInv, CopyPage
  PROVE  ChecksInv'
<1>1. /\ pc = "copy" /\ PagesLeft # {} /\ Open \in blocks
      /\ cursor.victim \in 1 .. Len(victims)
      /\ Victim = victims[cursor.victim]
      /\ IOUnitInPage # 1
  BY DEF CopyPage, ChecksInv, OpenInv, IInv, StackInv, Victim, PlainConfig
<1>2. PICK V \in Block : V = Victim
  BY <1>1, VictimIsBlock
<1>3. /\ V \in blocks /\ IsFull(V)
      /\ \A q \in ValidPages(V) : q >= cursor.page
  BY <1>1, <1>2 DEF ChecksInv, VictimsInv
<1>4. PagesLeft = ValidPages(V)
  BY <1>1, <1>2, <1>3 DEF PagesLeft, LivePages, LiveUnits, ValidPages
<1>5. PICK p \in Page : p = Min(PagesLeft) /\ \A q \in ValidPages(V) : p <= q
  <2>1. ValidPages(V) \subseteq Page /\ Page \subseteq Nat
    BY LocationFacts DEF ValidPages
  <2> QED
    BY <1>1, <1>4, <2>1, MinNat
<1>6. PICK units \in SUBSET Unit : /\ units = ValidUnits(V, p)
                                   /\ units = LiveUnits(Victim, Min(PagesLeft))
  BY <1>1, <1>2, <1>5 DEF LiveUnits, ValidUnits
<1>7. PICK owner : /\ owner = [u \in Unit |-> Owner(content[V][p][u])]
                   /\ owner = [u \in Unit |->
                                 Owner(content[Victim][Min(PagesLeft)][u])]
  BY <1>2, <1>5
<1>8. PICK old : /\ old = [u \in Unit |-> <<V, p>>]
                 /\ old = [u \in Unit |-> <<Victim, Min(PagesLeft)>>]
  BY <1>2, <1>5
<1>9. \A u \in units : owner[u] \in LPN /\ HasEntry(owner[u])
  <2> TAKE u \in units
  <2>1. u \in Unit /\ content[V][p][u] \in LPN
    BY <1>6 DEF ValidUnits, IsValid
  <2>2. owner[u] = content[V][p][u]
    BY <1>7, <2>1 DEF Owner
  <2>3. table[owner[u]][u] = <<V, p>>
    BY <2>1, <2>2 DEF IInv, FlashInv, MappingExact
  <2>4. <<V, p>> # Unmapped
    BY LocationFacts DEF Location
  <2> QED
    BY <2>1, <2>2, <2>3, <2>4 DEF HasEntry
<1>10. CopyError(units, owner) \in {NoPanic, Shortage}
  <2>1. AllocError(units) \in {NoPanic, Shortage}
    BY <1>1, AllocErrorIsShortage DEF IInv
  <2>2. AllocError(units) = NoPanic
          => ProgramError(Destination(units), units) = NoPanic
    BY NoProgramError DEF IInv
  <2> QED
    BY <1>9, <2>1, <2>2 DEF CopyError, FirstError
<1>11. CASE CopyError(units, owner) # NoPanic
  <2>1. /\ pc' = "panicked" /\ panic' = Shortage
        /\ UNCHANGED <<flashVars, eraseCount, allocVars, filled, gcVars>>
    BY <1>6, <1>7, <1>10, <1>11 DEF CopyPage, Checked
  <2> QED
    BY <2>1, ShortageKeepsChecks
<1>12. CASE CopyError(units, owner) = NoPanic
  <2>1. /\ Program(Destination(units), units, owner, old)
        /\ TakeDestination(units)
        /\ cursor' = [cursor EXCEPT !.page = p + 1]
        /\ UNCHANGED <<eraseCount, pc, filled, victims, panic>>
    BY <1>5, <1>6, <1>7, <1>8, <1>12 DEF CopyPage, Checked
  <2>2. AllocError(units) = NoPanic
    BY <1>12 DEF CopyError, FirstError
  <2>3. PICK d \in Block :
          /\ Program(d, units, owner, old)
          /\ \A u \in Unit : nextPage[d][u] \in Page
          /\ Open' = d /\ blocks' = blocks \cup {d}
          /\ \A b \in blocks : IsFull(b) => b # d
    BY <1>1, <2>1, <2>2, WriteKeepsOpen
  <2>4. /\ \A b \in Block \ {d}, u \in Unit :
             /\ nextPage'[b][u] = nextPage[b][u]
             /\ \A q \in Page :
                  content'[b][q][u] \in LPN => content[b][q][u] \in LPN
        /\ \A u \in Unit : content'[V][p][u] \notin LPN
    <3>1. \A u \in units : old[u] = <<V, p>>
      BY <1>8
    <3>2. V \in Block \ {d}
      BY <1>3, <2>3
    <3>3. /\ \A b \in Block \ {d}, u \in Unit :
               /\ nextPage'[b][u] = nextPage[b][u]
               /\ \A q \in Page :
                    content'[b][q][u] \in LPN => content[b][q][u] \in LPN
          /\ \A b \in Block \ {d}, q \in Page, u \in units :
               old[u] = <<b, q>> => content'[b][q][u] \notin LPN
          /\ \A u \in units : owner[u] \in LPN =>
               content'[d][nextPage[d][u]][u] \in LPN
      <4>1. FlashInv
        BY DEF IInv
      <4> QED
        BY ONLY <2>3, <4>1, ProgramKeepsValid
    <3>4. \A u \in units : content'[V][p][u] \notin LPN
      BY <3>1, <3>2, <3>3, Zenon
    <3>5. \A u \in Unit \ units : content[V][p][u] \notin LPN
      BY <1>6 DEF ValidUnits, IsValid
    <3> QED
      BY <3>2, <3>3, <3>4, <3>5
  <2>5. /\ cursor'.victim = cursor.victim /\ cursor'.page = p + 1
        /\ victims' = victims /\ pc' = "copy"
    BY <1>1, <2>1 DEF IInv, StackInv
  <2>6. ASSUME NEW i \in 1 .. Len(victims)
        PROVE  /\ victims[i] \in blocks' /\ IsFull(victims[i])'
               /\ i < cursor.victim => ValidPages(victims[i])' = {}
               /\ i = cursor.victim =>
                    \A q \in ValidPages(victims[i])' : q >= p + 1
               /\ victims'[i] # Open'
    <3>1. PICK b \in Block : b = victims[i]
      BY ElementOfSeq DEF IInv, StackInv
    <3>2. b \in blocks /\ IsFull(b)
      BY <1>1, <3>1 DEF ChecksInv, VictimsInv
    <3>3. b \in Block \ {d}
      BY <2>3, <3>2
    <3>4. IsFull(victims[i])' /\ ValidPages(victims[i])' \subseteq ValidPages(b)
      BY <2>4, <2>5, <3>1, <3>2, <3>3
      DEF IsFull, ValidPages, ValidUnits, IsValid
    <3>5. b = V => p \notin ValidPages(victims[i])'
      BY <2>4, <2>5, <3>1 DEF ValidPages, ValidUnits, IsValid
    <3>6. i < cursor.victim => ValidPages(b) = {}
      BY <1>1, <3>1 DEF ChecksInv, VictimsInv
    <3>7. i = cursor.victim => \A q \in ValidPages(victims[i])' : q >= p + 1
      <4> SUFFICES ASSUME i = cursor.victim, NEW q \in ValidPages(victims[i])'
                   PROVE  q >= p + 1
        OBVIOUS
      <4>1. b = V
        BY <1>1, <1>2, <3>1
      <4>2. q \in ValidPages(V) /\ q # p
        BY <3>4, <3>5, <4>1
      <4>3. q \in Page /\ p \in Page /\ Page \subseteq Nat
        BY <4>2, LocationFacts DEF ValidPages
      <4>4. p <= q
        BY <1>5, <4>2
      <4> QED
        BY <4>2, <4>3, <4>4
    <3>8. victims'[i] # Open'
      BY <2>3, <2>5, <3>1, <3>3
    <3> QED
      BY <2>3, <3>1, <3>2, <3>4, <3>6, <3>7, <3>8
  <2>7. \A i, j \in 1 .. Len(victims) : victims[i] = victims[j] => i = j
    BY <1>1 DEF ChecksInv, VictimsInv
  <2>8. VictimsInv'
    BY <2>5, <2>6, <2>7 DEF VictimsInv
  <2>9. OpenInv' /\ FillInv' /\ SanityChecks'
    BY <2>1, <2>3, <2>5 DEF OpenInv, FillInv, SanityChecks, ChecksInv
  <2> QED
    BY <2>8, <2>9 DEF ChecksInv
<1> QED
  BY <1>11, <1>12

\* A victim is done with when it holds no valid page.
LEMMA EndVictimKeepsChecks ==
  ASSUME IInv, PlainConfig, ChecksInv, EndVictim
  PROVE  ChecksInv'
<1>1. /\ pc = "copy" /\ PagesLeft = {} /\ Open \in blocks
      /\ cursor.victim \in 1 .. Len(victims)
      /\ Victim = victims[cursor.victim]
      /\ IOUnitInPage # 1
      /\ Len(victims) \in Nat
      /\ \A i \in 1 .. Len(victims) : victims[i] \in Block
  BY LenProperties, ElementOfSeq DEF EndVictim, ChecksInv, OpenInv, IInv,
     StackInv, Victim, PlainConfig
<1>2. /\ Victim \in blocks
      /\ \A q \in ValidPages(Victim) : q >= cursor.page
  BY <1>1 DEF ChecksInv, VictimsInv
<1>3. ValidPages(Victim) = {}
  BY <1>1, <1>2 DEF PagesLeft, LivePages, LiveUnits, ValidPages
<1>4. /\ cursor' = IF LastVictim THEN AtStart ELSE NextVictim
      /\ pc' = IF LastVictim THEN "erase" ELSE pc
      /\ panic' = panic
      /\ UNCHANGED <<flashVars, eraseCount, allocVars, filled, victims>>
  BY <1>2 DEF EndVictim, Checked
<1>5. ASSUME NEW i \in 1 .. Len(victims)
      PROVE  /\ victims[i] \in blocks /\ IsFull(victims[i])
             /\ i < cursor.victim => ValidPages(victims[i]) = {}
             /\ victims[i] = Open => ValidPages(Open) # {}
  BY <1>1 DEF ChecksInv, VictimsInv
<1>6. \A i, j \in 1 .. Len(victims) : victims[i] = victims[j] => i = j
  BY <1>1 DEF ChecksInv, VictimsInv
<1>7. /\ blocks' = blocks /\ victims' = victims /\ Open' = Open
      /\ \A i \in 1 .. Len(victims) :
           /\ IsFull(victims[i])' <=> IsFull(victims[i])
           /\ ValidPages(victims[i])' = ValidPages(victims[i])
      /\ ValidPages(Open)' = ValidPages(Open)
  BY <1>4 DEF IsFull, ValidPages, ValidUnits, IsValid, Open, flashVars, allocVars
<1>8. VictimsInv'
  <2>1. CASE LastVictim
    <3>1. pc' = "erase" /\ cursor.victim = Len(victims)
      BY <1>4, <2>1 DEF LastVictim
    <3>2. \A i \in 1 .. Len(victims) : ValidPages(victims[i]) = {}
      BY <1>1, <1>3, <1>5, <3>1
    <3>3. \A i \in 1 .. Len(victims) : victims[i] # Open
      BY <1>5, <3>2
    <3> QED
      BY <1>5, <1>6, <1>7, <3>1, <3>2, <3>3 DEF VictimsInv
  <2>2. CASE ~LastVictim
    <3>1. pc' = "copy" /\ cursor'.victim = cursor.victim + 1 /\ cursor'.page = 0
      BY <1>1, <1>4, <2>2 DEF NextVictim
    <3>2. \A i \in 1 .. Len(victims) :
            i < cursor.victim + 1 => ValidPages(victims[i]) = {}
      <4> TAKE i \in 1 .. Len(victims)
      <4>1. cursor.victim \in Nat
        BY <1>1
      <4>2. i < cursor.victim + 1 => i < cursor.victim \/ i = cursor.victim
        BY <1>1, <4>1
      <4> QED
        BY <1>1, <1>3, <1>5, <4>2
    <3>3. \A i \in 1 .. Len(victims) : \A q \in ValidPages(victims[i]) : q >= 0
      BY LocationFacts DEF ValidPages
    <3>4. ASSUME NEW i \in 1 .. Len(victims)
          PROVE  /\ victims[i] \in blocks' /\ IsFull(victims[i])'
                 /\ i < cursor'.victim => ValidPages(victims[i])' = {}
                 /\ \A q \in ValidPages(victims[i])' : q >= cursor'.page
                 /\ victims'[i] = Open' => ValidPages(Open)' # {}
      <4>1. /\ IsFull(victims[i])'
            /\ ValidPages(victims[i])' = ValidPages(victims[i])
            /\ ValidPages(Open)' = ValidPages(Open)
        BY <1>5, <1>7
      <4> QED
        BY <1>5, <1>7, <3>1, <3>2, <3>3, <4>1
    <3> QED
      BY <1>6, <1>7, <3>1, <3>4 DEF VictimsInv
  <2> QED
    BY <2>1, <2>2
<1>9. OpenInv' /\ FillInv' /\ SanityChecks'
  BY <1>1, <1>4, <1>7 DEF OpenInv, FillInv, SanityChecks, ChecksInv
<1> QED
  BY <1>8, <1>9 DEF ChecksInv

\* What is erased holds no valid page and is not the open block.
LEMMA EraseKeepsChecks ==
  ASSUME IInv, PlainConfig, ChecksInv, EraseBlock
  PROVE  ChecksInv'
<1>1. /\ pc = "erase" /\ Open \in blocks
      /\ cursor.victim \in 1 .. Len(victims)
      /\ Victim = victims[cursor.victim]
      /\ Len(victims) \in Nat /\ cursor.victim \in Nat
      /\ \A i \in 1 .. Len(victims) : victims[i] \in Block
  BY LenProperties, ElementOfSeq DEF EraseBlock, ChecksInv, OpenInv, IInv,
     StackInv, Victim
<1>2. ASSUME NEW i \in 1 .. Len(victims), i >= cursor.victim
      PROVE  /\ victims[i] \in blocks /\ IsFull(victims[i])
             /\ ValidPages(victims[i]) = {} /\ victims[i] # Open
  BY <1>1, <1>2 DEF ChecksInv, VictimsInv
<1>3. \A i, j \in 1 .. Len(victims) : victims[i] = victims[j] => i = j
  BY <1>1 DEF ChecksInv, VictimsInv
<1>4. Victim \in blocks /\ ValidPages(Victim) = {} /\ Victim # Open
  <2>1. cursor.victim >= cursor.victim
    BY <1>1
  <2> QED
    BY <1>1, <1>2, <2>1
<1>5. EraseError = NoPanic
  BY <1>4 DEF EraseError
<1>6. /\ content' = [content EXCEPT ![Victim] =
                       [p \in Page |-> [u \in Unit |-> Erased]]]
      /\ nextPage' = [nextPage EXCEPT ![Victim] = [u \in Unit |-> 0]]
      /\ blocks' = blocks \ {Victim}
      /\ pc' = IF LastVictim THEN "ready" ELSE pc
      /\ victims' = IF LastVictim THEN <<>> ELSE victims
      /\ cursor' = IF LastVictim THEN AtStart ELSE NextVictim
      /\ lastFreeBlock' = lastFreeBlock /\ panic' = panic
  BY <1>5 DEF EraseBlock, Checked
<1>7. Open' = Open
  BY <1>6 DEF Open
<1>8. VictimsInv'
  <2>1. CASE LastVictim
    BY <1>6, <2>1 DEF VictimsInv
  <2>2. CASE ~LastVictim
    <3>1. /\ pc' = "erase" /\ cursor'.victim = cursor.victim + 1
          /\ victims' = victims
      BY <1>1, <1>6, <2>2 DEF NextVictim
    <3>2. ASSUME NEW i \in 1 .. Len(victims), i >= cursor.victim + 1
          PROVE  /\ victims[i] \in blocks' /\ IsFull(victims[i])'
                 /\ ValidPages(victims[i])' = {} /\ victims'[i] # Open'
      <4>1. i >= cursor.victim /\ i # cursor.victim
        BY <1>1, <3>2
      <4>2. victims[i] # Victim /\ victims[i] \in Block
        BY <1>1, <1>3, <4>1
      <4>3. /\ content'[victims[i]] = content[victims[i]]
            /\ nextPage'[victims[i]] = nextPage[victims[i]]
        BY <1>6, <4>2 DEF IInv, FlashInv
      <4>4. /\ IsFull(victims[i])' <=> IsFull(victims[i])
            /\ ValidPages(victims[i])' = ValidPages(victims[i])
        BY <3>1, <4>3 DEF IsFull, ValidPages, ValidUnits, IsValid
      <4> QED
        BY <1>2, <1>6, <1>7, <3>1, <4>1, <4>2, <4>4
    <3> QED
      BY <1>3, <3>1, <3>2 DEF VictimsInv
  <2> QED
    BY <2>1, <2>2
<1>9. OpenInv' /\ FillInv' /\ SanityChecks'
  BY <1>1, <1>4, <1>6, <1>7 DEF OpenInv, FillInv, SanityChecks, ChecksInv
<1> QED
  BY <1>8, <1>9 DEF ChecksInv

LEMMA InitChecks ==
  ASSUME PlainConfig, Init
  PROVE  ChecksInv
<1>1. /\ PagesInBlock \in Nat /\ TotalPhysicalBlocks \in Nat
      /\ PageCountToMaxPerf = 1
  BY GeometryAssumption DEF PlainConfig
<1>2. Open = 0 /\ Open \in blocks /\ Open \in Block
  BY <1>1, GeometryAssumption DEF Init, Open, Lane, Block
<1>3. /\ pc \in {"filling", "ready"} /\ panic = NoPanic /\ filled = 0
      /\ nFreeBlocks = TotalPhysicalBlocks - 1
      /\ \A u \in Unit : nextPage[Open][u] = 0
  BY <1>1, <1>2 DEF Init
<1>4. FillInv
  <2>1. (TotalPhysicalBlocks - 1 - nFreeBlocks) * PagesInBlock = 0
    BY <1>1, <1>3
  <2> QED
    BY <1>3, <2>1 DEF FillInv
<1>5. VictimsInv /\ OpenInv /\ SanityChecks
  BY <1>2, <1>3 DEF VictimsInv, OpenInv, SanityChecks
<1> QED
  BY <1>4, <1>5 DEF ChecksInv

\* One step for each action; without a range to format there is no Format.
LEMMA StepChecks ==
  ASSUME IInv, IInv', PlainConfig, ChecksInv, [Next]_vars
  PROVE  ChecksInv'
<1>1. ASSUME NEW l \in LPN, InitWrite(l) PROVE ChecksInv'
  BY <1>1, FillKeepsChecks
<1>2. ASSUME NEW l \in LPN, NEW units \in (SUBSET Unit) \ {{}}, Write(l, units)
      PROVE  ChecksInv'
  BY <1>2, HostWriteKeepsChecks
<1>3. ASSUME NEW l \in LPN, NEW units \in (SUBSET Unit) \ {{}}, Read(l, units)
      PROVE  ChecksInv'
  BY <1>3, ReadKeepsChecks
<1>4. ASSUME NEW l \in LPN, Trim(l) PROVE ChecksInv'
  BY <1>4, TrimKeepsChecks
<1>5. ASSUME NEW range \in FormatRanges, Format(range) PROVE ChecksInv'
  BY <1>5 DEF PlainConfig
<1>6. CASE SelectVictimBlock
  BY <1>6, SelectKeepsChecks
<1>7. CASE CopyPage
  BY <1>7, CopyKeepsChecks
<1>8. CASE EndVictim
  BY <1>8, EndVictimKeepsChecks
<1>9. CASE EraseBlock
  BY <1>9, EraseKeepsChecks
<1>10. CASE UNCHANGED vars
  <2>1. SanityChecks' /\ FillInv'
    BY <1>10 DEF ChecksInv, SanityChecks, FillInv, Open, vars, flashVars,
                 allocVars
  <2>2. VictimsInv' /\ OpenInv'
    BY <1>10 DEF ChecksInv, VictimsInv, OpenInv, Open, ValidPages, ValidUnits,
                 IsValid, IsFull, vars, flashVars, allocVars, gcVars
  <2> QED
    BY <2>1, <2>2 DEF ChecksInv
<1> QED
  BY <1>1, <1>2, <1>3, <1>4, <1>5, <1>6, <1>7, <1>8, <1>9, <1>10
  DEF Next, GarbageCollection

\* The sanity checks scattered over the code (a lane's block in use, the page
\* programmed erased, the page copied mapped, the victim in use and without
\* valid pages, no collection while filling) never fail in a configuration of
\* one lane and whole pages whose filling fits: only want of free blocks stops
\* the program.
THEOREM SanityChecksHold ==
  ASSUME PlainConfig
  PROVE  Spec => []SanityChecks
<1>1. Init => ChecksInv
  BY InitChecks
<1>2. IInv /\ IInv' /\ ChecksInv /\ [Next]_vars => ChecksInv'
  BY StepChecks
<1>3. Spec => []IInv
  BY InvariantHolds DEF PlainConfig
<1>4. ChecksInv => SanityChecks
  BY DEF ChecksInv
<1> QED
  BY <1>1, <1>2, <1>3, <1>4, PTL DEF Spec
=============================================================================
