-------------------------------- MODULE Icl --------------------------------
(***************************************************************************)
(* The internal cache layer (src/icl/icl.cc): what the HIL asks for is cut *)
(* into one request for each logical page.  The cache itself is in         *)
(* GenericCache.                                                           *)
(***************************************************************************)
EXTENDS Integers, Sequences, SequencesExt

LPNRange(slpn, nlp) == [slpn |-> slpn, nlp |-> nlp]

\* A request for logical pages: it begins at an offset in the first of them.
Request(slpn, nlp, offset, length) ==
  [range |-> LPNRange(slpn, nlp), offset |-> offset, length |-> length]

\* read() and write(): each page takes what is left, up to its end; the offset
\* is for the first page only.
PageRequests(req, logicalPageSize) ==
  LET least(a, b) == IF a < b THEN a ELSE b
      step(s, i) ==
        LET length == least(s.remain, logicalPageSize - s.offset)
        IN [remain |-> s.remain - length, offset |-> 0,
            out |-> Append(s.out, Request(req.range.slpn + i - 1, 1, s.offset, length))]
  IN FoldLeft(step, [remain |-> req.length, offset |-> req.offset, out |-> <<>>],
              [i \in 1 .. req.range.nlp |-> i]).out

\* flush(), trim() and format(): whole pages, whatever the offset and the length.
WholePages(req, logicalPageSize) ==
  [i \in 1 .. req.range.nlp |-> Request(req.range.slpn + i - 1, 1, 0, logicalPageSize)]

\* The units of the device that a request for one page moves.
UnitsIn(piece, logicalPageSize) ==
  LET first == piece.range.slpn * logicalPageSize + piece.offset
  IN first .. first + piece.length - 1
=============================================================================
