---------------------------- MODULE DataPointer ----------------------------
(***************************************************************************)
(* How the data of an NVMe command is found in the memory of the host      *)
(* (src/hil/nvme/dma.cc): PRP lists and SGL segments, and the transfers    *)
(* that read() and write() make of them.                                   *)
(*                                                                         *)
(* The buffer of a command is a sequence of units numbered from 0; where   *)
(* they lie in memory is abstracted away, so an address is the number of   *)
(* the unit that is there.  What the host writes into its lists is         *)
(* external, as the NVMe specification has it.                             *)
(***************************************************************************)
EXTENDS Integers, Sequences, SequencesExt

CONSTANTS
  PageSize,   \* memoryPageSize, in units
  ListLength  \* PRP entries in a page of a PRP list

ASSUME DataPointerAssumption ==
  /\ PageSize \in Nat \ {0}
  /\ ListLength \in Nat \ {0, 1}

\* A PRP, or a chunk of an SGL: where, how long, whether it is a bit bucket.
Region(addr, size, ignore) == [addr |-> addr, size |-> size, ignore |-> ignore]

Least(a, b) == IF a < b THEN a ELSE b
CeilDiv(a, b) == (a + b - 1) \div b

-----------------------------------------------------------------------------
(* Physical region pages. A data pointer is its size and the offset of the  *)
(* first unit in its page.                                                   *)

PRPPointer(size, offset) ==
  [type |-> "PRP", size |-> size, offset |-> offset, contiguous |-> FALSE]
PRPBase(size) ==
  [type |-> "PRP", size |-> size, offset |-> 0, contiguous |-> TRUE]

\* getPRPSize(): from an address to the end of its page.
getPRPSize(offset) == PageSize - offset

\* The page that follows the first one, as the host wrote it into a list.
HostPage(p, n) == Region(getPRPSize(p.offset) + n * PageSize, PageSize, FALSE)

\* Whether the constructor takes PRP2 for the address of a list.  For less than
\* two pages that begin within a page it does so although the host, which needs
\* one more page only, puts the address of the page there: no such pointer is
\* Understood, and the models that follow do without.
NeedsList(p) ==
  /\ ~p.contiguous
  /\ p.size > PageSize
  /\ p.size <= 2 * PageSize => getPRPSize(p.offset) # PageSize

Understood(p) ==
  NeedsList(p) => CeilDiv(p.size - getPRPSize(p.offset), PageSize) > 1

\* The pages of list number k in the memory of the host: all that is left, if
\* it fits; else the last entry points to the next list.
PagesBefore(k) == k * (ListLength - 1)

\* Mutant of PagesTaken: the page that is not used to its end is forgotten.
PagesTakenWhole(size) == Least(ListLength, size \div PageSize)

\* How many entries of a list getPRPListFromPRP() takes for the rest of the data.
PagesTaken(size) == Least(ListLength, CeilDiv(size, PageSize))

\* getPRPListFromPRP(): if the list does not cover the rest, the entry taken
\* last was the address of the next list.  Its page is counted all the same.
getPRPListFromPRP(p) ==
  LET left(k) == p.size - getPRPSize(p.offset) - k * ListLength * PageSize
      pages(k, n) == [i \in 1 .. n |-> HostPage(p, PagesBefore(k) + i - 1)]
      walk[k \in Nat] ==
        IF ListLength * PageSize < left(k)
        THEN pages(k, ListLength - 1) \o walk[k + 1]
        ELSE pages(k, PagesTaken(left(k)))
  IN walk[0]

\* How many pages of lists it reads, one after the other.
ListReads(p) ==
  LET reads[size \in 1 .. p.size] ==
        IF ListLength * PageSize < size
        THEN 1 + reads[size - ListLength * PageSize] ELSE 1
  IN reads[p.size - getPRPSize(p.offset)]

\* The constructors of PRPList.
PRPList(p) ==
  LET first == Region(0, getPRPSize(p.offset), FALSE) IN
  IF p.contiguous THEN <<Region(0, p.size, FALSE)>>
  ELSE IF NeedsList(p) THEN <<first>> \o getPRPListFromPRP(p)
  ELSE IF p.size <= getPRPSize(p.offset) THEN <<Region(0, p.size, FALSE)>>
  ELSE <<first, HostPage(p, 0)>>

-----------------------------------------------------------------------------
(* Scatter gather lists: a sequence of segments of descriptors.  All but the *)
(* last segment end in the descriptor of the next one.                       *)

DataBlock(length) == [length |-> length, ignore |-> FALSE]
BitBucket(length) == [length |-> length, ignore |-> TRUE]
SGLPointer(segments) == [type |-> "SGL", segments |-> segments]

SGLDescriptors(p) == FlattenSeq(p.segments)

\* parseSGLSegment() on each segment, parseSGLDescriptor() on each descriptor.
SGL(p) ==
  FoldLeft(LAMBDA list, desc :
             LET addr == IF list = <<>> THEN 0 ELSE Last(list).addr + Last(list).size
             IN Append(list, Region(addr, desc.length, desc.ignore)),
           <<>>, SGLDescriptors(p))

-----------------------------------------------------------------------------
(* Transfers. *)

Regions(p) == IF p.type = "PRP" THEN PRPList(p) ELSE SGL(p)

\* What has to be read before initFunction is called; without any, it is called
\* by immediateEvent.  An SGL of one segment with one descriptor holds it in
\* the command.
PointerReads(p) ==
  IF p.type = "PRP" THEN IF NeedsList(p) THEN ListReads(p) ELSE 0
  ELSE IF Len(SGLDescriptors(p)) = 1 THEN 0 ELSE Len(p.segments)

\* A transfer: from or to an address of the host, the place in the buffer of
\* the device, and its size.
Transfer(addr, at, size) ==
  [kind |-> "data", addr |-> addr, at |-> at, size |-> size]

\* read() and write(): the transfers for length units from offset on.  Regions
\* before the offset are passed over; the first one that reaches it begins, the
\* others follow until the length is met, or the list ends.  The first one is
\* not checked for that, so one of no size may follow it.
Transfers(list, offset, length) ==
  LET step(s, r) ==
        CASE s.ended -> s
          [] s.begun /\ ~s.ended ->
               LET size == Least(r.size, length - s.total) IN
               [s EXCEPT !.total = @ + size, !.ended = s.total + size = length,
                         !.out = IF r.ignore THEN @
                                 ELSE Append(@, Transfer(r.addr, s.total, size))]
          [] ~s.begun /\ s.current + r.size > offset ->
               LET skipped == offset - s.current
                   size == Least(r.size - skipped, length)
               IN [s EXCEPT !.begun = TRUE, !.total = size, !.current = @ + r.size,
                            !.out = IF r.ignore THEN @
                                    ELSE Append(@, Transfer(r.addr + skipped, 0, size))]
          [] OTHER -> [s EXCEPT !.current = @ + r.size]
      start == [begun |-> FALSE, ended |-> FALSE, total |-> 0, current |-> 0,
                out |-> <<>>]
  IN FoldLeft(step, start, list).out

\* The units that a transfer moves: pairs of a unit of the buffer of the host
\* and its place in that of the device.
UnitsOf(t) == {<<t.addr + i, t.at + i>> : i \in 0 .. t.size - 1}

\* What a command has to move: every unit, each to its place, but those that
\* the host sends to a bit bucket.
Buckets(p) ==
  IF p.type = "PRP" THEN {}
  ELSE UNION {r.addr .. r.addr + r.size - 1 : r \in {x \in ToSet(SGL(p)) : x.ignore}}
Whole(p, length) == {<<i, i>> : i \in (0 .. length - 1) \ Buckets(p)}
=============================================================================
