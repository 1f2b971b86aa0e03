------------------------------- MODULE MCFlashBackend ---------------------------
EXTENDS FlashBackend

\* A channel of two packages with two dies each; a superblock spans the dies of
\* one package.
MCSize == [Channel |-> 1, Package |-> 2, Die |-> 2, Plane |-> 1, Block |-> 1, Page |-> 2]
MCPageAllocation == <<"Channel", "Die", "Package", "Plane">>
MCSuperblock == {"Die"}
By(r, w, e) == [read |-> r, write |-> w, erase |-> e]
MCTiming ==
  [dma0 |-> By(1, 2, 1), dma1 |-> By(2, 1, 1), lsb |-> [read |-> 1, write |-> 2],
   csb |-> [read |-> 1, write |-> 2], msb |-> [read |-> 2, write |-> 4], erase |-> 5]
=============================================================================
