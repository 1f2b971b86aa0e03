----------------------------- MODULE PageMapping -----------------------------
(***************************************************************************)
(* The page-level mapping FTL of SimpleSSD (src/ftl/page_mapping.cc) with  *)
(* the flash blocks it manages (src/ftl/common/block.cc).                  *)
(*                                                                         *)
(* A logical page is mapped unit by unit: unit u of page l lives in unit u *)
(* of some physical page.  The FTL is one synchronous call stack, so an    *)
(* operation is a step that starts in pc = "ready"; the garbage collection *)
(* a write or a format may run is a loop, modelled one iteration per step  *)
(* (select, copy a page, erase a block) with no other operation in between.*)
(* panic() terminates the program: pc = "panicked", with its message.      *)
(* Ticks, DRAM and PAL traffic only carry latency and are left out.        *)
(***************************************************************************)
EXTENDS Integers, Sequences, FiniteSets, FiniteSetsExt, SequencesExt

CONSTANTS
  TotalPhysicalBlocks,   \* param.totalPhysicalBlocks
  TotalLogicalPages,     \* param.totalLogicalBlocks * param.pagesInBlock
  PagesInBlock,          \* param.pagesInBlock
  PageCountToMaxPerf,    \* param.pageCountToMaxPerf: blocks open for writing
  RandomTweak,           \* bRandomTweak: units of a page are mapped one by one
  IOUnitInPage,          \* param.ioUnitInPage
  GCThreshold,           \* FTL_GC_THRESHOLD_RATIO, in percent
  BadBlockThreshold,     \* FTL_BAD_BLOCK_THRESHOLD
  GCMode,                \* FTL_GC_MODE: 0 or 1
  GCReclaimBlocks,       \* FTL_GC_RECLAIM_BLOCK, for mode 0
  GCReclaimThreshold,    \* FTL_GC_RECLAIM_THRESHOLD in percent, for mode 1
  EvictPolicy,           \* "greedy", "cost-benefit", "random" or "d-choice"
  DChoiceParam,          \* FTL_GC_D_CHOICE_PARAM
  FillingMode,           \* FTL_FILLING_MODE: 0, 1 or 2
  PagesToWarmup,         \* nPagesToWarmup
  InvalidPages,          \* nPagesToInvalidate before it is adjusted
  UInt64Range,           \* number of values of an uint64_t
  FormatRanges           \* the sets of logical pages that Format is called with

Block == 0 .. TotalPhysicalBlocks - 1
LPN   == 0 .. TotalLogicalPages - 1
Page  == 0 .. PagesInBlock - 1
\* bitsetSize: without the tweak a page is mapped as one unit.
Unit  == 0 .. (IF RandomTweak THEN IOUnitInPage ELSE 1) - 1
Lane  == 0 .. PageCountToMaxPerf - 1

Location == Block \X Page
Unmapped == <<TotalPhysicalBlocks, PagesInBlock>>   \* the empty mapping

(* A unit holds the valid data of a logical page, or is erased, or stale.  The
   owner of stale data matters only to blocks with one I/O unit per page,
   where garbage collection reads it again (see LiveUnits). *)
Erased   == TotalLogicalPages
Stale(l) == TotalLogicalPages + 1 + (IF IOUnitInPage = 1 THEN l ELSE 0)
Owner(c) == IF c \in LPN THEN c ELSE c - TotalLogicalPages - 1
Content  == LPN \cup {Erased} \cup {Stale(l) : l \in LPN}

\* Block::invalidate(): reset the valid bit.
Invalidated(c) == IF c \in LPN THEN Stale(c) ELSE c

ASSUME GeometryAssumption ==
  /\ TotalPhysicalBlocks \in Nat \ {0}
  /\ TotalLogicalPages \in Nat \ {0}
  /\ PagesInBlock \in Nat \ {0}
  /\ PageCountToMaxPerf \in 1 .. TotalPhysicalBlocks
  /\ TotalLogicalPages % PagesInBlock = 0
  /\ TotalPhysicalBlocks >                          \* else FTL() panics
       TotalLogicalPages \div PagesInBlock + PageCountToMaxPerf
  /\ IOUnitInPage \in Nat \ {0}
  /\ RandomTweak \in BOOLEAN
  /\ FormatRanges \subseteq SUBSET LPN
  /\ IOUnitInPage = 1 => FormatRanges = {}          \* bound of this model

ASSUME ConfigAssumption ==
  /\ GCThreshold \in 0 .. 100
  /\ BadBlockThreshold \in Nat
  /\ GCMode \in {0, 1}
  /\ GCMode = 0 => GCReclaimBlocks \in Nat \ {0}
  /\ GCMode = 1 => GCReclaimThreshold \in GCThreshold .. 100
  /\ EvictPolicy \in {"greedy", "cost-benefit", "random", "d-choice"}
  /\ DChoiceParam \in Nat

VARIABLES
  table,               \* table[l][u]: location of unit u of logical page l
  content,             \* content[b][p][u]: the page whose data it holds, or
                       \*   erased or stale (validBits, erasedBits, LPNs)
  nextPage,            \* nextPage[b][u]: Block::pNextWritePageIndex
  eraseCount,          \* eraseCount[b]: Block::eraseCount
  blocks,              \* keys of the map of blocks in use
  freeBlocks,          \* the list of free blocks, least worn first
  nFreeBlocks,         \* its length, kept by hand
  lastFreeBlock,       \* lastFreeBlock[k]: the block lane k is writing
  lastFreeBlockIndex,  \* the lane of the last write
  lastFreeBlockIOMap,  \* units written since the lane last moved
  bReclaimMore,        \* a lane took a new block since the last selection
  pc,                  \* where the call stack is
  filled,              \* writes made by initialize()
  victims,             \* blocksToReclaim
  cursor,              \* next victim, and its next page, to handle
  panic                \* message of the panic that stopped the program

flashVars == <<table, content, nextPage>>
allocVars == <<blocks, freeBlocks, nFreeBlocks, lastFreeBlock,
               lastFreeBlockIndex, lastFreeBlockIOMap, bReclaimMore>>
gcVars    == <<victims, cursor>>
vars == <<flashVars, eraseCount, allocVars, pc, filled, gcVars, panic>>

NoPanic == "none"
AtStart == [victim |-> 1, page |-> 0]

-----------------------------------------------------------------------------
(* Observers of the state. *)

\* mappingList != table.end(): an entry has a mapped unit as soon as it exists.
HasEntry(l) == \E u \in Unit : table[l][u] # Unmapped

\* getNextWritePageIndex() == pagesInBlock, the maximum over the units.
IsFull(b) == \E u \in Unit : nextPage[b][u] = PagesInBlock

IsValid(b, p, u) == content[b][p][u] \in LPN
ValidUnits(b, p) == {u \in Unit : IsValid(b, p, u)}
ValidPages(b)    == {p \in Page : ValidUnits(b, p) # {}}
ValidPageCountRaw(b) ==
  Cardinality({pu \in Page \X Unit : IsValid(b, pu[1], pu[2])})
DirtyPages(b) ==
  {p \in Page : \E u \in Unit : content[b][p][u] \notin LPN \cup {Erased}}

\* getPageInfo(): a block with one I/O unit per page reports every page valid.
LiveUnits(b, p) == IF IOUnitInPage = 1 THEN Unit ELSE ValidUnits(b, p)
LivePages(b)    == {p \in Page : LiveUnits(b, p) # {}}

\* freeBlockRatio() < gcThreshold
NeedsGC(nFree) == nFree * 100 < TotalPhysicalBlocks * GCThreshold

-----------------------------------------------------------------------------
(* Choosing the block to write: getLastFreeBlock() and getFreeBlock(). *)

Rotates(iomap) == ~RandomTweak \/ lastFreeBlockIOMap \cap iomap # {}
NextLane(iomap) ==
  IF Rotates(iomap) THEN (lastFreeBlockIndex + 1) % PageCountToMaxPerf
                    ELSE lastFreeBlockIndex
Active(iomap) == lastFreeBlock[NextLane(iomap)]

\* Position of the first free block of the lane, or of the first free block.
FreeIndex(lane) ==
  LET same == {i \in 1 .. Len(freeBlocks) :
                 freeBlocks[i] % PageCountToMaxPerf = lane}
  IN  IF same = {} THEN 1 ELSE Min(same)

FreeBlock(lane) == freeBlocks[FreeIndex(lane)]

AllocError(iomap) ==
  CASE Active(iomap) \notin blocks -> "Corrupted"
    [] Active(iomap) \in blocks /\ IsFull(Active(iomap)) /\ nFreeBlocks = 0
         -> "No free block left"
    [] /\ Active(iomap) \in blocks /\ IsFull(Active(iomap)) /\ nFreeBlocks > 0
       /\ FreeBlock(NextLane(iomap)) \in blocks -> "Free block in use"
    [] OTHER -> NoPanic

Destination(iomap) ==
  IF IsFull(Active(iomap)) THEN FreeBlock(NextLane(iomap)) ELSE Active(iomap)

\* Mutant of TakeDestination: getFreeBlock() forgets nFreeBlocks--.
TakeDestinationUncounted(iomap) ==
  /\ lastFreeBlockIndex' = NextLane(iomap)
  /\ lastFreeBlockIOMap' =
       IF Rotates(iomap) THEN iomap ELSE lastFreeBlockIOMap \cup iomap
  /\ IF IsFull(Active(iomap))
     THEN /\ lastFreeBlock' =
               [lastFreeBlock EXCEPT ![NextLane(iomap)] = Destination(iomap)]
          /\ blocks' = blocks \cup {Destination(iomap)}
          /\ freeBlocks' = RemoveAt(freeBlocks, FreeIndex(NextLane(iomap)))
          /\ bReclaimMore' = TRUE
     ELSE UNCHANGED <<lastFreeBlock, blocks, freeBlocks, bReclaimMore>>
  /\ UNCHANGED nFreeBlocks

TakeDestination(iomap) ==
  /\ lastFreeBlockIndex' = NextLane(iomap)
  /\ lastFreeBlockIOMap' =
       IF Rotates(iomap) THEN iomap ELSE lastFreeBlockIOMap \cup iomap
  /\ IF IsFull(Active(iomap))
     THEN /\ lastFreeBlock' =
               [lastFreeBlock EXCEPT ![NextLane(iomap)] = Destination(iomap)]
          /\ blocks' = blocks \cup {Destination(iomap)}
          /\ freeBlocks' = RemoveAt(freeBlocks, FreeIndex(NextLane(iomap)))
          /\ nFreeBlocks' = nFreeBlocks - 1
          /\ bReclaimMore' = TRUE
     ELSE UNCHANGED <<lastFreeBlock, blocks, freeBlocks, nFreeBlocks,
                      bReclaimMore>>

-----------------------------------------------------------------------------
(* Writing units, and where the call stack goes next. *)

\* Run a step that passed its sanity checks, or stop with their message.
Checked(err, step) ==
  IF err = NoPanic
  THEN step /\ panic' = panic
  ELSE /\ pc' = "panicked" /\ panic' = err
       /\ UNCHANGED <<flashVars, eraseCount, allocVars, filled, gcVars>>

FirstError(e1, e2) == IF e1 # NoPanic THEN e1 ELSE e2

\* Block::write(): the next page of unit u of block d must be erased.
ProgramError(d, units) ==
  IF \E u \in units : content[d][nextPage[d][u]][u] # Erased
  THEN "Write to non erased page" ELSE NoPanic

\* Mutants of Program: the old location stays valid; the table is given the
\* page after the one written; one write index serves all units.
ProgramKeepingOld(d, units, owner, old) ==
  /\ table' = [l \in LPN |-> [u \in Unit |->
       IF u \in units /\ owner[u] = l THEN <<d, nextPage[d][u]>>
                                     ELSE table[l][u]]]
  /\ content' = [content EXCEPT ![d] = [p \in Page |-> [u \in Unit |->
       IF u \in units /\ p = nextPage[d][u] THEN owner[u]
                                            ELSE content[d][p][u]]]]
  /\ nextPage' = [nextPage EXCEPT ![d] = [u \in Unit |->
       IF u \in units THEN nextPage[d][u] + 1 ELSE nextPage[d][u]]]

ProgramMappingNext(d, units, owner, old) ==
  /\ table' = [l \in LPN |-> [u \in Unit |->
       IF u \in units /\ owner[u] = l
       THEN <<d, (nextPage[d][u] + 1) % PagesInBlock>> ELSE table[l][u]]]
  /\ content' = [b \in Block |-> [p \in Page |-> [u \in Unit |->
       CASE u \in units /\ b = d /\ p = nextPage[d][u] -> owner[u]
         [] u \in units /\ old[u] = <<b, p>> -> Invalidated(content[b][p][u])
         [] OTHER -> content[b][p][u]]]]
  /\ nextPage' = [nextPage EXCEPT ![d] = [u \in Unit |->
       IF u \in units THEN nextPage[d][u] + 1 ELSE nextPage[d][u]]]

ProgramAdvancingAll(d, units, owner, old) ==
  /\ table' = [l \in LPN |-> [u \in Unit |->
       IF u \in units /\ owner[u] = l THEN <<d, nextPage[d][u]>>
                                     ELSE table[l][u]]]
  /\ content' = [b \in Block |-> [p \in Page |-> [u \in Unit |->
       CASE u \in units /\ b = d /\ p = nextPage[d][u] -> owner[u]
         [] u \in units /\ old[u] = <<b, p>> -> Invalidated(content[b][p][u])
         [] OTHER -> content[b][p][u]]]]
  /\ nextPage' = [nextPage EXCEPT ![d] = [u \in Unit |-> nextPage[d][u] + 1]]

\* Write each unit u of units to the next page of block d as unit u of logical
\* page owner[u], invalidate its previous location old[u] and remap it.
Program(d, units, owner, old) ==
  /\ table' = [l \in LPN |-> [u \in Unit |->
       IF u \in units /\ owner[u] = l THEN <<d, nextPage[d][u]>>
                                     ELSE table[l][u]]]
  /\ content' = [b \in Block |-> [p \in Page |-> [u \in Unit |->
       CASE u \in units /\ b = d /\ p = nextPage[d][u] -> owner[u]
         [] /\ u \in units /\ ~(b = d /\ p = nextPage[d][u])
            /\ old[u] = <<b, p>> -> Invalidated(content[b][p][u])
         [] OTHER -> content[b][p][u]]]]
  /\ nextPage' = [nextPage EXCEPT ![d] = [u \in Unit |->
       IF u \in units THEN nextPage[d][u] + 1 ELSE nextPage[d][u]]]

\* writeInternal() up to its check for garbage collection.
WriteError(units) ==
  FirstError(AllocError(units), ProgramError(Destination(units), units))

WriteUnits(l, units) ==
  /\ Program(Destination(units), units, [u \in Unit |-> l], table[l])
  /\ TakeDestination(units)
  /\ UNCHANGED <<eraseCount, gcVars>>

\* Free blocks left once units are written.
FreeAfter(units) ==
  IF IsFull(Active(units)) THEN nFreeBlocks - 1 ELSE nFreeBlocks

-----------------------------------------------------------------------------
(* initialize(): fill the device before the simulation starts. *)

MaxPagesBeforeGC ==
  (PagesInBlock * (TotalPhysicalBlocks * (100 - GCThreshold)
                     - 100 * PageCountToMaxPerf)) \div 100

\* The adjusted nPagesToInvalidate, an unsigned difference.
PagesToInvalidate ==
  IF PagesToWarmup + InvalidPages > MaxPagesBeforeGC
  THEN (MaxPagesBeforeGC - PagesToWarmup) % UInt64Range
  ELSE InvalidPages

PagesToFill == PagesToWarmup + PagesToInvalidate

\* Mutant of FillTargets: the random overwrites may pick a page never written.
FillTargetsTooWide(i) ==
  CASE i < PagesToWarmup /\ FillingMode \in {0, 1} -> {i}
    [] i >= PagesToWarmup /\ FillingMode = 0 -> {i - PagesToWarmup}
    [] i >= PagesToWarmup /\ FillingMode = 1 -> LPN
    [] FillingMode = 2 -> LPN

\* The pages that write number i of the filling may choose.
FillTargets(i) ==
  CASE i < PagesToWarmup /\ FillingMode \in {0, 1} -> {i}
    [] i >= PagesToWarmup /\ FillingMode = 0 -> {i - PagesToWarmup}
    [] i >= PagesToWarmup /\ FillingMode = 1 -> 0 .. PagesToWarmup - 1
    [] FillingMode = 2 -> LPN

ASSUME FillingAssumption ==
  /\ FillingMode \in {0, 1, 2}
  /\ PagesToWarmup \in 0 .. TotalLogicalPages
  /\ InvalidPages \in 0 .. TotalLogicalPages
  /\ UInt64Range \in Nat \ {0}
  /\ MaxPagesBeforeGC >= 0
  /\ FillingMode = 0 => PagesToInvalidate <= TotalLogicalPages
  /\ FillingMode = 1 /\ PagesToInvalidate > 0 => PagesToWarmup > 0

\* The writes of initialize() cover a whole page and must not start a GC.
FillError ==
  FirstError(WriteError(Unit),
             IF NeedsGC(FreeAfter(Unit))
             THEN "GC triggered while in initialization" ELSE NoPanic)

\* Mutant of InitWrite: one write too many.
InitWritePastEnd(l) ==
  /\ pc = "filling"
  /\ l \in FillTargets(filled)
  /\ Checked(FillError,
       /\ WriteUnits(l, Unit)
       /\ filled' = filled + 1
       /\ pc' = IF filled = PagesToFill THEN "ready" ELSE pc)

InitWrite(l) ==
  /\ pc = "filling"
  /\ l \in FillTargets(filled)
  /\ Checked(FillError,
       /\ WriteUnits(l, Unit)
       /\ filled' = filled + 1
       /\ pc' = IF filled + 1 = PagesToFill THEN "ready" ELSE pc)

-----------------------------------------------------------------------------
(* Host requests. *)

\* write(): an empty request is refused with a warning.  A write that leaves
\* too few free blocks goes on to garbage collection.
Write(l, units) ==
  /\ pc = "ready"
  /\ Checked(WriteError(units),
       /\ WriteUnits(l, units)
       /\ pc' = IF NeedsGC(FreeAfter(units)) THEN "select" ELSE "ready"
       /\ UNCHANGED filled)

\* read(): every mapped unit asked for must lie in a block in use.
Read(l, units) ==
  /\ pc = "ready"
  /\ Checked(IF \E u \in units : /\ table[l][u] \in Location
                                 /\ table[l][u][1] \notin blocks
             THEN "Block is not in use" ELSE NoPanic,
             UNCHANGED <<flashVars, eraseCount, allocVars, pc, filled, gcVars>>)

\* Invalidate every unit of the pages of a set and drop their entries.
Discard(lpns) ==
  /\ table' = [l \in LPN |-> IF l \in lpns THEN [u \in Unit |-> Unmapped]
                                          ELSE table[l]]
  /\ content' = [b \in Block |-> [p \in Page |-> [u \in Unit |->
       IF \E l \in lpns : table[l][u] = <<b, p>>
       THEN Invalidated(content[b][p][u]) ELSE content[b][p][u]]]]
  /\ UNCHANGED nextPage

\* A page written in part still has units mapped to no block.
DiscardError(lpns) ==
  IF \E l \in lpns, u \in Unit : table[l][u][1] \notin blocks
  THEN "Block is not in use (discard)" ELSE NoPanic

\* trimInternal()
Trim(l) ==
  /\ pc = "ready"
  /\ HasEntry(l)
  /\ Checked(DiscardError({l}),
       /\ Discard({l})
       /\ UNCHANGED <<eraseCount, allocVars, pc, filled, gcVars>>)

\* The blocks of a set in ascending order: the one list that has them so.
Ascending(S) ==
  {s \in [1 .. Cardinality(S) -> S] :
     \A i, j \in 1 .. Cardinality(S) : i < j => s[i] < s[j]}

\* The pages of a range that have an entry, and the blocks they use.
Entries(range) == {l \in range : HasEntry(l)}
BlocksOf(lpns) == {table[l][u][1] : l \in lpns, u \in Unit}

\* format(): drop the entries of a range, then reclaim every block they used.
Format(range) ==
  /\ pc = "ready"
  /\ Checked(DiscardError(Entries(range)),
       /\ Discard(Entries(range))
       /\ victims' \in Ascending(BlocksOf(Entries(range)))
       /\ cursor' = AtStart
       /\ pc' = IF BlocksOf(Entries(range)) = {} THEN "ready" ELSE "copy"
       /\ UNCHANGED <<eraseCount, allocVars, filled>>)

-----------------------------------------------------------------------------
(* Garbage collection: selectVictimBlock(), doGarbageCollection(). *)

Candidates == {b \in blocks : IsFull(b)}

\* Mutant of BlocksToReclaim: counts the block just taken as still free.
BlocksToReclaimShort ==
  (TotalPhysicalBlocks * GCThreshold) \div 100 - (nFreeBlocks + 1)

BlocksToReclaim ==
  (IF GCMode = 0
   THEN GCReclaimBlocks
   ELSE (TotalPhysicalBlocks * GCReclaimThreshold) \div 100 - nFreeBlocks)
  + (IF bReclaimMore THEN PageCountToMaxPerf ELSE 0)

\* The lists of k distinct blocks of S.
ListsOf(k, S) ==
  {s \in [1 .. k -> S] : \A i, j \in 1 .. k : s[i] = s[j] => i = j}

\* The lists of the k least utilized blocks of S, in that order; std::sort
\* leaves blocks of the same weight in any order.
LeastUtilized(k, S) ==
  {s \in ListsOf(k, S) :
     /\ \A i, j \in 1 .. k :
          i < j => ValidPageCountRaw(s[i]) <= ValidPageCountRaw(s[j])
     /\ \A b \in S : \/ \E i \in 1 .. k : s[i] = b
                     \/ \A i \in 1 .. k :
                          ValidPageCountRaw(s[i]) <= ValidPageCountRaw(b)}

\* Blocks the random policies sample, retrying until they have that many.
SampleSize ==
  CASE EvictPolicy = "random"   -> BlocksToReclaim
    [] EvictPolicy = "d-choice" -> DChoiceParam * BlocksToReclaim
    [] OTHER -> 0

VictimLists ==
  LET C == Candidates
      k == Min({BlocksToReclaim, Cardinality(C)})
  IN  CASE EvictPolicy = "greedy"       -> LeastUtilized(k, C)
        [] EvictPolicy = "cost-benefit" -> ListsOf(k, C)   \* by age as well
        [] OTHER -> UNION {LeastUtilized(Min({k, SampleSize}), S) :
                             S \in kSubset(SampleSize, C)}

\* With no candidate at all, sampling indexes an empty vector.
SelectError ==
  IF SampleSize > 0 /\ Candidates = {} THEN "vector::at out of range"
  ELSE NoPanic

\* Mutant of SelectVictimBlock: search until there is something to reclaim.
SelectVictimBlockRetrying ==
  /\ pc = "select"
  /\ Checked(SelectError,
       /\ \E list \in VictimLists :
            /\ victims' = list
            /\ pc' = IF list = <<>> THEN "select" ELSE "copy"
       /\ cursor' = AtStart
       /\ bReclaimMore' = FALSE
       /\ UNCHANGED <<flashVars, eraseCount, blocks, freeBlocks, nFreeBlocks,
                      lastFreeBlock, lastFreeBlockIndex, lastFreeBlockIOMap,
                      filled>>)

SelectVictimBlock ==
  /\ pc = "select"
  /\ SampleSize <= Cardinality(Candidates) \/ Candidates = {}
  /\ Checked(SelectError,
       /\ \E list \in VictimLists :
            /\ victims' = list
            /\ pc' = IF list = <<>> THEN "ready" ELSE "copy"
       /\ cursor' = AtStart
       /\ bReclaimMore' = FALSE
       /\ UNCHANGED <<flashVars, eraseCount, blocks, freeBlocks, nFreeBlocks,
                      lastFreeBlock, lastFreeBlockIndex, lastFreeBlockIOMap,
                      filled>>)

Victim     == victims[cursor.victim]
LastVictim == cursor.victim = Len(victims)
NextVictim == [victim |-> cursor.victim + 1, page |-> 0]
\* Mutant of PagesLeft: the last page of a block is never copied.
PagesLeftShort == {p \in LivePages(Victim) :
                     p >= cursor.page /\ p < PagesInBlock - 1}

PagesLeft  == {p \in LivePages(Victim) : p >= cursor.page}

CopyError(units, owner) ==
  FirstError(AllocError(units),
    FirstError(IF \E u \in units : ~HasEntry(owner[u])
               THEN "Invalid mapping table entry" ELSE NoPanic,
               ProgramError(Destination(units), units)))

\* Move the valid units of the victim's next valid page to a free page.
CopyPage ==
  /\ pc = "copy"
  /\ PagesLeft # {}
  /\ LET p     == Min(PagesLeft)
         units == LiveUnits(Victim, p)
         owner == [u \in Unit |-> Owner(content[Victim][p][u])]
     IN  Checked(CopyError(units, owner),
           /\ Program(Destination(units), units, owner,
                      [u \in Unit |-> <<Victim, p>>])
           /\ TakeDestination(units)
           /\ cursor' = [cursor EXCEPT !.page = p + 1]
           /\ UNCHANGED <<eraseCount, pc, filled, victims>>)

\* The victim holds no more valid page: go on to the next one, or to erasing.
EndVictim ==
  /\ pc = "copy"
  /\ PagesLeft = {}
  /\ Checked(IF Victim \notin blocks THEN "Invalid block" ELSE NoPanic,
       /\ cursor' = IF LastVictim THEN AtStart ELSE NextVictim
       /\ pc' = IF LastVictim THEN "erase" ELSE pc
       /\ UNCHANGED <<flashVars, eraseCount, allocVars, filled, victims>>)

EraseError ==
  CASE Victim \notin blocks    -> "No such block"
    [] Victim \in blocks /\ ValidPages(Victim) # {}
         -> "There are valid pages in victim block"
    [] OTHER -> NoPanic

\* Mutant of FreeListPosition: an erased block goes to the front.
FreeListPositionFront(n) == 1

\* Where a block erased n times goes in the free list: behind the last block
\* not more worn.  (On an empty list the search reads the list's sentinel; it
\* ends at the only place there is, whatever it reads.)
FreeListPosition(n) ==
  1 + Max({0} \cup {i \in 1 .. Len(freeBlocks) : eraseCount[freeBlocks[i]] <= n})

\* Mutant of EraseBlock: a block is kept for one erase too many.
EraseBlockLenient ==
  /\ pc = "erase"
  /\ Checked(EraseError,
       LET b == Victim
           n == eraseCount[b] + 1
       IN  /\ content' = [content EXCEPT ![b] =
                            [p \in Page |-> [u \in Unit |-> Erased]]]
           /\ nextPage' = [nextPage EXCEPT ![b] = [u \in Unit |-> 0]]
           /\ eraseCount' = [eraseCount EXCEPT ![b] = n]
           /\ IF n <= BadBlockThreshold
              THEN /\ freeBlocks' = InsertAt(freeBlocks, FreeListPosition(n), b)
                   /\ nFreeBlocks' = nFreeBlocks + 1
              ELSE UNCHANGED <<freeBlocks, nFreeBlocks>>
           /\ blocks' = blocks \ {b}
           /\ pc' = IF LastVictim THEN "ready" ELSE pc
           /\ victims' = IF LastVictim THEN <<>> ELSE victims
           /\ cursor' = IF LastVictim THEN AtStart ELSE NextVictim
           /\ UNCHANGED <<table, lastFreeBlock, lastFreeBlockIndex,
                          lastFreeBlockIOMap, bReclaimMore, filled>>)

\* eraseInternal(): a block erased too often leaves service.
EraseBlock ==
  /\ pc = "erase"
  /\ Checked(EraseError,
       LET b == Victim
           n == eraseCount[b] + 1
       IN  /\ content' = [content EXCEPT ![b] =
                            [p \in Page |-> [u \in Unit |-> Erased]]]
           /\ nextPage' = [nextPage EXCEPT ![b] = [u \in Unit |-> 0]]
           /\ eraseCount' = [eraseCount EXCEPT ![b] = n]
           /\ IF n < BadBlockThreshold
              THEN /\ freeBlocks' = InsertAt(freeBlocks, FreeListPosition(n), b)
                   /\ nFreeBlocks' = nFreeBlocks + 1
              ELSE UNCHANGED <<freeBlocks, nFreeBlocks>>
           /\ blocks' = blocks \ {b}
           /\ pc' = IF LastVictim THEN "ready" ELSE pc
           /\ victims' = IF LastVictim THEN <<>> ELSE victims
           /\ cursor' = IF LastVictim THEN AtStart ELSE NextVictim
           /\ UNCHANGED <<table, lastFreeBlock, lastFreeBlockIndex,
                          lastFreeBlockIOMap, bReclaimMore, filled>>)

-----------------------------------------------------------------------------
(* PageMapping(): every lane gets a block of its own, lane by lane. *)

Init ==
  /\ table = [l \in LPN |-> [u \in Unit |-> Unmapped]]
  /\ content = [b \in Block |-> [p \in Page |-> [u \in Unit |-> Erased]]]
  /\ nextPage = [b \in Block |-> [u \in Unit |-> 0]]
  /\ eraseCount = [b \in Block |-> 0]
  /\ blocks = Lane
  /\ freeBlocks = [i \in 1 .. TotalPhysicalBlocks - PageCountToMaxPerf |->
                     i - 1 + PageCountToMaxPerf]
  /\ nFreeBlocks = TotalPhysicalBlocks - PageCountToMaxPerf
  /\ lastFreeBlock = [k \in Lane |-> k]
  /\ lastFreeBlockIndex = 0
  /\ lastFreeBlockIOMap = {}
  /\ bReclaimMore = FALSE
  /\ pc = IF PagesToFill = 0 THEN "ready" ELSE "filling"
  /\ filled = 0
  /\ victims = <<>>
  /\ cursor = AtStart
  /\ panic = NoPanic

GarbageCollection == SelectVictimBlock \/ CopyPage \/ EndVictim \/ EraseBlock

Next ==
  \/ \E l \in LPN : InitWrite(l)
  \/ \E l \in LPN, units \in (SUBSET Unit) \ {{}} : Write(l, units)
  \/ \E l \in LPN, units \in (SUBSET Unit) \ {{}} : Read(l, units)
  \/ \E l \in LPN : Trim(l)
  \/ \E range \in FormatRanges : Format(range)
  \/ GarbageCollection

\* The call stack never stops between two steps of garbage collection.
Spec == Init /\ [][Next]_vars /\ WF_vars(GarbageCollection)

-----------------------------------------------------------------------------
(* Properties. *)

\* Every variable stays in its range, and a panic is the end of the program.
TypeOK ==
  /\ table \in [LPN -> [Unit -> Location \cup {Unmapped}]]
  /\ content \in [Block -> [Page -> [Unit -> Content]]]
  /\ nextPage \in [Block -> [Unit -> 0 .. PagesInBlock]]
  /\ eraseCount \in [Block -> Nat]
  /\ blocks \subseteq Block
  /\ freeBlocks \in Seq(Block)
  /\ nFreeBlocks \in Nat
  /\ lastFreeBlock \in [Lane -> Block]
  /\ lastFreeBlockIndex \in Lane
  /\ lastFreeBlockIOMap \subseteq Unit
  /\ bReclaimMore \in BOOLEAN
  /\ pc \in {"filling", "ready", "select", "copy", "erase", "panicked"}
  /\ filled \in 0 .. PagesToFill
  /\ victims \in Seq(Block)
  /\ cursor \in [victim : Nat \ {0}, page : 0 .. PagesInBlock]
  /\ panic # NoPanic <=> pc = "panicked"

\* The mapping table and the per-block reverse maps (validBits, LPNs) agree at
\* every step, also in the middle of a collection: a unit holds valid data of a
\* logical page exactly when the table maps the page there.  So no write, copy
\* or trim leaves a second valid copy, loses the only one, or keeps stale data.
MappingExact ==
  \A l \in LPN, u \in Unit, b \in Block, p \in Page :
    table[l][u] = <<b, p>> <=> content[b][p][u] = l

\* A block is in use or free but never both; the hand-kept nFreeBlocks counts
\* the list; and whatever is not in use holds nothing but erased pages.
FreeListSound ==
  /\ nFreeBlocks = Len(freeBlocks)
  /\ \A i, j \in 1 .. Len(freeBlocks) : freeBlocks[i] = freeBlocks[j] => i = j
  /\ \A i \in 1 .. Len(freeBlocks) : freeBlocks[i] \notin blocks
  /\ \A b \in Block \ blocks, u \in Unit :
       /\ nextPage[b][u] = 0
       /\ \A p \in Page : content[b][p][u] = Erased

\* Flash is programmed in order: the erased pages of a unit are exactly those
\* from its next write index on.
ProgramOrder ==
  \A b \in Block, p \in Page, u \in Unit :
    content[b][p][u] = Erased <=> p >= nextPage[b][u]

\* The only way out of service is wear: blocks move between the map, the free
\* list and the lanes many times, and none is dropped on the way.
NoBlockLost ==
  \A b \in Block :
    (b \notin blocks /\ \A i \in 1 .. Len(freeBlocks) : freeBlocks[i] # b)
      <=> eraseCount[b] >= BadBlockThreshold

\* getLastFreeBlock() finds the block of the lane among those in use (the
\* sanity check at page_mapping.cc:366): no lane points to a reclaimed block.
LanesOpen == panic # "Corrupted"

\* The sanity checks scattered over the code never fail: the program can only
\* stop because it ran out of free blocks.
SanityChecks == panic \in {NoPanic, "No free block left"}

\* As long as no block wore out, garbage collection keeps up with the host:
\* when a request returns, the free blocks are back above the threshold.
WornOut == {b \in Block : eraseCount[b] >= BadBlockThreshold}
CollectionKeepsUp == pc = "ready" /\ WornOut = {} => ~NeedsGC(nFreeBlocks)

\* The free list stays sorted by wear, so that a block taken from it is the
\* least worn of those its lane may take.
TakesLeastWorn ==
  \A i \in 1 .. Len(freeBlocks) :
    freeBlocks[i] \notin blocks' \/
    \A j \in 1 .. Len(freeBlocks) :
      freeBlocks[j] % PageCountToMaxPerf = freeBlocks[i] % PageCountToMaxPerf
        => eraseCount[freeBlocks[i]] <= eraseCount[freeBlocks[j]]

WearLevelled == [][TakesLeastWorn]_vars

\* A write that starts garbage collection returns to the host, or the program
\* stops with a message: no collection goes on for ever.
GCTerminates == pc \in {"select", "copy", "erase"} ~> pc \in {"ready", "panicked"}

\* The logical units whose data the table finds.
MappedUnits ==
  UNION {{l} \X {u \in Unit :
                   /\ table[l][u] \in Location
                   /\ content[table[l][u][1]][table[l][u][2]][u] = l} : l \in LPN}

\* Between requests, in the collection one started, or stopped by a panic.
Phase == CASE pc \in {"filling", "ready"} -> "idle"
           [] pc = "panicked" -> "halted"
           [] OTHER -> "busy"

\* What the host can observe is only what it wrote and did not discard: see
\* LogicalSpace.  Garbage collection is invisible.
Abstract == INSTANCE LogicalSpace WITH
  mapped <- MappedUnits, phase <- Phase

ImplementsLogicalSpace == Abstract!Spec

\* Filling reaches its targets, as calculateTotalPages() reports them.
TotalValid   == FoldSet(LAMBDA b, n : n + Cardinality(ValidPages(b)), 0, blocks)
TotalInvalid == FoldSet(LAMBDA b, n : n + Cardinality(DirtyPages(b)), 0, blocks)

\* Sequential filling creates the exact number of valid and of invalid pages it
\* announces, as the comment on step 2 of initialize() promises for mode 1.
FillTargetsMet ==
  [][pc = "filling" /\ pc' # "panicked" /\ FillingMode = 1 =>
       /\ TotalValid'   = Min({filled', PagesToWarmup})
       /\ TotalInvalid' = filled' - Min({filled', PagesToWarmup})]_vars
=============================================================================
