-------------------------------- MODULE Pal --------------------------------
(***************************************************************************)
(* The parallelism abstraction layer (src/pal/): the superpages of the FTL *)
(* are spread over channels, packages, dies and planes, and each operation *)
(* on a page is given its time on the channel (DMA 0, then DMA 1) and on   *)
(* the die, found on time lines that remember what is free before the tick *)
(* from which all is free (src/pal/old/PAL2.cc).                           *)
(*                                                                         *)
(* Times, conflicts and energies that are only counted (PALStatistics, the *)
(* merged time slots, OpTimeStamp) are left out.                           *)
(***************************************************************************)
EXTENDS Integers, Sequences, FiniteSets, FiniteSetsExt, SequencesExt

CONSTANTS
  Size,            \* Channel, Package, Die, Plane, Block, Page: how many of each
  PageAllocation,  \* the order in which a block index is spread
  Superblock,      \* the dimensions that a superblock spans
  MultiPlane,      \* NAND_USE_MULTI_PLANE_OP
  FlashType,       \* NAND_FLASH_TYPE
  Timing,          \* Timing.dma0.read, Timing.lsb.write, Timing.erase, ...
  ChannelKeys,     \* lengths that class the free slots of a channel,
  DieKeys,         \* and of a die
  FlushPeriod, FlushRange

Dimension == {"Channel", "Package", "Die", "Plane"}
Operation == {"read", "write", "erase"}

ASSUME PalAssumption ==
  /\ Size \in [Dimension \cup {"Block", "Page"} -> Nat \ {0}]
  /\ PageAllocation \in [1 .. 4 -> Dimension] /\ IsInjective(PageAllocation)
  /\ Superblock \subseteq Dimension /\ MultiPlane \in BOOLEAN
  /\ FlashType \in {"SLC", "MLC", "TLC"}
  /\ \A t \in {Timing.dma0, Timing.dma1} : t \in [Operation -> Nat \ {0}]
  /\ \A t \in {Timing.lsb, Timing.csb, Timing.msb} : t \in [{"read", "write"} -> Nat \ {0}]
  /\ Timing.erase \in Nat \ {0}
  /\ ChannelKeys \subseteq Nat \ {0} /\ DieKeys \subseteq Nat \ {0}
  /\ FlushRange \in Nat /\ FlushPeriod \in Nat /\ FlushPeriod > FlushRange

VARIABLES
  channel,  \* a time line of each channel: its free slots, its start point
  die,      \* a time line of each die
  written,  \* ghost: <<superblock, page, flag>> of what is written, not erased
  stored,   \* ghost: physical page -> what of it was written there last
  served    \* ghost: the operations, with the times they were given

palVars == <<channel, die, written, stored, served>>

Later(a, b) == IF a < b THEN b ELSE a

-----------------------------------------------------------------------------
(* How long an operation takes (src/pal/old/Latency*.cc). *)

LatencySLC(page, op) == Timing.lsb[op]
LatencyMLC(page, op) == IF page % 2 = 0 THEN Timing.lsb[op] ELSE Timing.msb[op]

GetPageType(page) ==
  IF page <= 5 THEN "lsb" ELSE IF page <= 7 THEN "csb"
  ELSE <<"lsb", "csb", "msb">>[(((page - 8) \div 2) % 3) + 1]
LatencyTLC(page, op) == Timing[GetPageType(page)][op]

GetLatency(page, op) ==
  [dma0 |-> Timing.dma0[op], dma1 |-> Timing.dma1[op],
   mem |-> IF op = "erase" THEN Timing.erase
           ELSE CASE FlashType = "SLC" -> LatencySLC(page, op)
                  [] FlashType = "MLC" -> LatencyMLC(page, op)
                  [] FlashType = "TLC" -> LatencyTLC(page, op)]

-----------------------------------------------------------------------------
(* Superpages and physical addresses (src/pal/pal.cc, src/pal/pal_old.cc). *)

\* The dimensions that an I/O flag, and those that a block index, chooses among.
InFlag(dim) == dim \in Superblock /\ ~(dim = "Plane" /\ MultiPlane)
InBlock(dim) == dim \notin Superblock /\ ~(dim = "Plane" /\ MultiPlane)

Chosen == SelectSeq(PageAllocation, InFlag)
Spread == SelectSeq(PageAllocation, InBlock)

\* The product of the sizes of the first n dimensions.
Below(dims, n) == FoldLeft(LAMBDA p, dim : p * Size[dim], 1, SubSeq(dims, 1, n))
Digit(value, dims, dim) ==
  LET n == SelectInSeq(dims, LAMBDA d : d = dim)
  IN  IF n = 0 THEN 0 ELSE (value \div Below(dims, n - 1)) % Size[dim]

superBlock == Size["Block"] * Below(Spread, Len(Spread))
pageInSuperPage == Below(Chosen, Len(Chosen))
Flag == 0 .. pageInSuperPage - 1

\* Mutant of Address: the dimensions of a superblock divide the block index too.
AddressDividedTwice(block, page, flag) ==
  [dim \in Dimension |-> IF InFlag(dim) THEN Digit(flag, Chosen, dim)
                         ELSE Digit(block, PageAllocation, dim)]
    @@ ("Block" :> block \div Below(PageAllocation, 4) @@ "Page" :> page)

\* Where page "page" of a superblock is, for one position of the I/O flag.
Address(block, page, flag) ==
  [dim \in Dimension |-> Digit(flag, Chosen, dim) + Digit(block, Spread, dim)]
    @@ ("Block" :> block \div Below(Spread, Len(Spread)) @@ "Page" :> page)

\* The addresses of a request, in the order in which they are submitted.
convertCPDPBP(block, page, flags) ==
  LET order == SetToSortSeq(flags, <) IN [i \in DOMAIN order |-> Address(block, page, order[i])]

CPDPBPtoDieIdx(a) == a.Die + Size["Die"] * (a.Package + Size["Package"] * a.Channel)

-----------------------------------------------------------------------------
(* A time line (src/pal/old/PAL2.cc). *)

Slot(first, length) == [first |-> first, last |-> first + length - 1]
SlotLength(s) == s.last - s.first + 1

\* AddFreeSlot(): what is shorter than the smallest class is forgotten.
AddFreeSlot(keys, length, first) ==
  IF \E k \in keys : k <= length THEN {Slot(first, length)} ELSE {}

\* FindFreeTime() and what its callers make of it: the slot that is free at
\* "from" for long enough, else the first later one, else what is free for ever.
FindFreeTime(line, length, from) ==
  LET around == {s \in line.free : s.first <= from /\ s.last >= from + length - 1}
      after == {s \in line.free : s.first > from /\ SlotLength(s) >= length}
      tick == IF around # {} THEN Max({s.first : s \in around})
              ELSE IF after # {} THEN Min({s.first : s \in after})
              ELSE line.start
  IN  [tick |-> tick, from |-> Later(from, tick)]

\* The free time that begins at "tick", and whether a reservation fits into it,
\* as the assertions of InsertFreeSlot() demand.
SlotsAt(line, tick) == {s \in line.free : s.first = tick}
Fits(line, length, from, tick) ==
  /\ from >= tick
  /\ tick = line.start \/ \E s \in SlotsAt(line, tick) : s.last >= from + length - 1

\* Mutant of InsertFreeSlot: the last tick of the reservation is free again.
InsertFreeSlotShort(keys, line, length, from, tick, split) ==
  LET before == AddFreeSlot(keys, from - tick, tick)
      itself == IF split THEN AddFreeSlot(keys, length, from) ELSE {}
      after == UNION {AddFreeSlot(keys, s.last - (from + length - 2), from + length - 1) :
                        s \in SlotsAt(line, tick)}
  IN  IF tick = line.start
      THEN [free |-> line.free \cup before \cup itself, start |-> from + length]
      ELSE [line EXCEPT !.free = (@ \ SlotsAt(line, tick)) \cup before \cup itself \cup after]

\* InsertFreeSlot(): reserve; with "split" the piece stays free, as a slot of its own.
InsertFreeSlot(keys, line, length, from, tick, split) ==
  LET before == AddFreeSlot(keys, from - tick, tick)
      itself == IF split THEN AddFreeSlot(keys, length, from) ELSE {}
      after == UNION {AddFreeSlot(keys, s.last - (from + length - 1), from + length) :
                        s \in SlotsAt(line, tick)}
  IN  IF tick = line.start
      THEN [free |-> line.free \cup before \cup itself, start |-> from + length]
      ELSE [line EXCEPT !.free = (@ \ SlotsAt(line, tick)) \cup before \cup itself \cup after]

FlushAFreeSlot(line, tick) == [line EXCEPT !.free = {s \in @ : s.last >= tick}]

-----------------------------------------------------------------------------
(* TimelineScheduling(): ch and d are the time lines of the channel and of  *)
(* the die, lat the latencies, anti the time kept free before DMA 1.         *)

\* LOOP1: a time that is free on both for DMA 0, on the die until DMA 1.
Loop1(ch, d, lat, arrived) ==
  LET loop[from \in Nat] ==
        LET a == FindFreeTime(ch, lat.dma0, from)
            m == FindFreeTime(d, lat.dma0 + lat.mem, a.from)
        IN  IF m.tick = a.tick \/ FindFreeTime(ch, lat.dma0, m.from).tick = a.tick
            THEN [dma0 |-> a.tick, mem |-> m.tick, from |-> m.from]
            ELSE loop[m.from]
  IN  loop[arrived]

\* Mutant of TotalLatency: what is kept before DMA 1 is not counted.
TotalLatencyBare(lat, anti, dma1From, from) == dma1From + lat.dma1 - from
TotalLatency(lat, anti, dma1From, from) == dma1From + lat.dma1 + anti - from

\* LOOP0: and the die is free until DMA 1 ends.
Loop0(ch, d, lat, anti, arrived) ==
  LET loop[from \in Nat] ==
        LET s == Loop1(ch, d, lat, from)
            t == FindFreeTime(ch, lat.dma1 + anti, s.from + lat.dma0 + lat.mem)
            v == FindFreeTime(d, TotalLatency(lat, anti, t.from, s.from), s.from).tick
        IN  IF v = s.mem THEN s @@ [dma1From |-> t.from] ELSE loop[v]
  IN  loop[arrived]

\* The time lines after the reservations for what LOOP0 found, and the times of
\* the operation.
Reserved(ch, d, lat, anti, s) ==
  LET total == TotalLatency(lat, anti, s.dma1From, s.from)
      ch1 == InsertFreeSlot(ChannelKeys, ch, lat.dma0, s.from, s.dma0, FALSE)
      t == FindFreeTime(ch1, lat.dma1 + anti, s.dma1From)
      ch2 == InsertFreeSlot(ChannelKeys, ch1, lat.dma1, t.from + anti, t.tick, FALSE)
      next == s.from + lat.dma0
      n == FindFreeTime(ch2, 2 * anti, next)
      ch3 == InsertFreeSlot(ChannelKeys, ch2, 2 * anti, next, n.tick, TRUE)
  IN  [ch |-> IF n.from = next THEN ch3 ELSE ch2,
       d |-> InsertFreeSlot(DieKeys, d, total, s.from, s.mem, FALSE),
       DMA0 |-> Slot(s.from, lat.dma0), DMA1 |-> Slot(t.from + anti, lat.dma1),
       MEM |-> Slot(s.from, total),
       fits |-> /\ Fits(ch, lat.dma0, s.from, s.dma0)
                /\ Fits(ch1, lat.dma1, t.from + anti, t.tick)
                /\ Fits(d, total, s.from, s.mem)
                /\ n.from = next => Fits(ch2, 2 * anti, next, n.tick)]

TimelineScheduling(ch, d, lat, anti, arrived) ==
  Reserved(ch, d, lat, anti, Loop0(ch, d, lat, anti, arrived))

\* submit(): one operation on one physical page, on the time lines of st, which
\* are given the reservations r.
Served(st, op, a, arrived, r) ==
  LET di == CPDPBPtoDieIdx(a)
      times == [channel |-> a.Channel, die |-> di, op |-> op, arrived |-> arrived,
                DMA0 |-> r.DMA0, MEM |-> r.MEM, DMA1 |-> r.DMA1, fits |-> r.fits]
  IN  [channel |-> [st.channel EXCEPT ![a.Channel] = r.ch],
       die |-> [st.die EXCEPT ![di] = r.d],
       served |-> Append(st.served, times)]
submit(st, op, a, arrived) ==
  Served(st, op, a, arrived,
         TimelineScheduling(st.channel[a.Channel], st.die[CPDPBPtoDieIdx(a)],
                            GetLatency(a.Page, op), Timing.dma0.read, arrived))

-----------------------------------------------------------------------------
PalInit ==
  /\ channel = [c \in 0 .. Size["Channel"] - 1 |-> [free |-> {}, start |-> 0]]
  /\ die = [i \in 0 .. Size["Channel"] * Size["Package"] * Size["Die"] - 1 |->
              [free |-> {}, start |-> 0]]
  /\ written = {} /\ stored = <<>> /\ served = <<>>

\* A request on a superpage: all its pages arrive at once.
Submit(op, block, page, flags, arrived) ==
  /\ \E st \in {FoldLeft(LAMBDA s, a : submit(s, op, a, arrived),
                         [channel |-> channel, die |-> die, served |-> served],
                         convertCPDPBP(block, page, flags))} :
       channel' = st.channel /\ die' = st.die /\ served' = st.served

\* What the FTL asks for: it programs the pages of a block in their order, and
\* reads what is written.
PagesOf(block, f) == {w \in written : w[1] = block /\ w[3] = f}

read(block, page, flags, arrived) ==
  /\ \A f \in flags : <<block, page, f>> \in written
  /\ Submit("read", block, page, flags, arrived)
  /\ UNCHANGED <<written, stored>>

write(block, page, flags, arrived) ==
  /\ \A f \in flags : Cardinality(PagesOf(block, f)) = page
  /\ Submit("write", block, page, flags, arrived)
  /\ written' = written \cup {<<block, page, f>> : f \in flags}
  /\ LET at == {Address(block, page, f) : f \in flags}
     IN  stored' = [a \in at |-> <<block, page, CHOOSE f \in flags : Address(block, page, f) = a>>]
                     @@ stored

\* Erasing takes all the pages of the physical blocks.
erase(block, arrived) ==
  /\ \E f \in Flag : PagesOf(block, f) # {}
  /\ Submit("erase", block, 0, Flag, arrived)
  /\ written' = written \ {<<block, p, f>> : p \in 0 .. Size["Page"] - 1, f \in Flag}
  /\ LET erased == {[Address(block, 0, f) EXCEPT !["Page"] = p] :
                      p \in 0 .. Size["Page"] - 1, f \in Flag}
     IN  stored' = Restrict(stored, DOMAIN stored \ erased)

\* flushEvent: the free slots of the past are dropped.
FlushFreeSlots(tick) ==
  /\ channel' = [c \in DOMAIN channel |-> FlushAFreeSlot(channel[c], tick - FlushRange)]
  /\ die' = [i \in DOMAIN die |-> FlushAFreeSlot(die[i], tick - FlushRange)]
  /\ UNCHANGED <<written, stored, served>>

-----------------------------------------------------------------------------
(* Properties. *)

Disjoint(s, t) == s.last < t.first \/ t.last < s.first

\* What is held of a channel, and of a die.
OnChannel(x) == {x.DMA0, x.DMA1}

\* Whatever the order in which requests arrive, a channel carries one transfer
\* at a time and a die works for one operation at a time; no slot that is held
\* is still free, nor after the tick from which all is; and the assertions of
\* InsertFreeSlot() hold.
ReservationsApart ==
  \A i \in DOMAIN served : LET x == served[i] IN
    /\ x.fits
    /\ \A s \in OnChannel(x) : /\ s.last < channel[x.channel].start
                              /\ \A t \in channel[x.channel].free : Disjoint(s, t)
    /\ x.MEM.last < die[x.die].start /\ \A t \in die[x.die].free : Disjoint(x.MEM, t)
    /\ \A j \in 1 .. i - 1 : LET y == served[j] IN
         /\ y.channel = x.channel =>
              \A s \in OnChannel(x), t \in OnChannel(y) : Disjoint(s, t)
         /\ y.die = x.die => Disjoint(x.MEM, y.MEM)

\* An operation runs in its order after it arrived (DMA 0, the memory, DMA 1),
\* and "the target die should be free during (DMA0_start ~ DMA1_end)".
DieHeldThroughout ==
  \A i \in DOMAIN served : LET x == served[i] IN
    /\ x.arrived <= x.DMA0.first /\ x.DMA0.last < x.DMA1.first
    /\ x.MEM.first = x.DMA0.first /\ x.MEM.last = x.DMA1.last

\* No two pages of superblocks share a physical page, and erasing a superblock
\* erases nothing of another: what was written and not erased is where a read
\* looks for it.
AddressesApart ==
  \A w \in written : LET a == Address(w[1], w[2], w[3]) IN
    a \in DOMAIN stored /\ stored[a] = w

=============================================================================
