---------------------------- MODULE MCNvmeController ----------------------------
EXTENDS NvmeController

\* Two I/O submission queues share a completion queue.
MCCqOf == [q \in SQ |-> IF q = 0 THEN 0 ELSE 1]
\* All queues share an interrupt vector.
MCOneVector == [c \in CQ |-> 0]
MCPriority == [q \in SQ |-> IF q = 1 THEN "medium" ELSE "low"]
=============================================================================
