------------------------------ MODULE MCDmaFifo ------------------------------
EXTENDS DmaFifo

\* Four units for writes; two units and a half for reads.
MCCapacity == [d \in Direction |-> IF d = "write" THEN 8 ELSE 5]
=============================================================================
