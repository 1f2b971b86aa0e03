------------------------ MODULE ControllerRegisters ------------------------
(***************************************************************************)
(* The registers through which the host brings an NVMe controller up and   *)
(* shuts it down (writeRegister() of src/hil/nvme/controller.cc): they make*)
(* the admin queues and start the loop that looks at the queues.  What the *)
(* loop fetches, once it runs, is in NvmeController.                       *)
(***************************************************************************)
EXTENDS Integers, Sequences, FiniteSets

CONSTANT Programs  \* what the host writes, each time it brings the controller
                   \*   up: for each admin queue its size, its entries' stride
                   \*   and the halves of its address

Queue == {"SQ", "CQ"}
Half  == {"low", "high"}

ASSUME ControllerRegistersAssumption ==
  /\ Programs # <<>>
  /\ Programs \in Seq([Queue -> [size : Nat \ {0}, stride : Nat \ {0},
                                 base : [Half -> Nat]]])

VARIABLES
  adminQueueAttributes,  \* the size of each admin queue
  adminQueueBase,        \* adminSQueueBaseAddress, adminCQueueBaseAddress
  adminQueueInited,
  adminQueue,            \* ppSQueue[0] and ppCQueue[0]
  csts,                  \* registers.status: RDY and SHST
  shutdownReserved,
  workEvent,             \* it is scheduled
  collecting, handling,  \* rounds of work() that collect commands, handle them
  program,               \* the host: which program it is at, and the registers
  left                   \*   writes it has still to do

registerVars == <<adminQueueAttributes, adminQueueBase, adminQueueInited, adminQueue,
                  csts, shutdownReserved, workEvent, collecting, handling, program, left>>
queueVars == <<adminQueueAttributes, adminQueueBase, adminQueueInited, adminQueue>>
loopVars  == <<csts, shutdownReserved, workEvent, collecting, handling>>
hostVars  == <<program, left>>

NoQueue    == [size |-> 0, stride |-> 0, base |-> [h \in Half |-> 0]]
Bases      == Queue \X Half
Attributes == <<"AQA", "both">>
Enabling   == <<"CC", "EN">>
AllWrites  == Bases \cup {Attributes, Enabling}
Wanted(q)  == Programs[program][q]

RegistersInit ==
  /\ adminQueueAttributes = [q \in Queue |-> 1]
  /\ adminQueueBase = [q \in Queue |-> [h \in Half |-> 0]]
  /\ adminQueueInited = 0
  /\ adminQueue = [q \in Queue |-> NoQueue]
  /\ csts = [rdy |-> FALSE, shst |-> "none"]
  /\ shutdownReserved = FALSE /\ workEvent = FALSE
  /\ collecting = 0 /\ handling = 0
  /\ program = 1 /\ left = AllWrites

-----------------------------------------------------------------------------
(* writeRegister(). *)

WriteAttributes ==
  /\ Attributes \in left
  /\ left' = left \ {Attributes}
  /\ adminQueueAttributes' = [q \in Queue |-> Wanted(q).size]
  /\ UNCHANGED <<adminQueueBase, adminQueueInited, adminQueue, loopVars, program>>

\* Mutant of CreateAdminQueues: the count is not started again.
CreateAdminQueuesOnce(count) ==
  /\ adminQueueInited' = count
  /\ adminQueue' = IF count = 4
                   THEN [q \in Queue |-> [NoQueue EXCEPT !.size = adminQueueAttributes[q]]]
                   ELSE adminQueue

\* The end of writeRegister(): the write that makes it four makes the queues.
CreateAdminQueues(count) ==
  /\ adminQueueInited' = IF count = 4 THEN 0 ELSE count
  /\ adminQueue' = IF count = 4
                   THEN [q \in Queue |-> [NoQueue EXCEPT !.size = adminQueueAttributes[q]]]
                   ELSE adminQueue

\* A write of 4 bytes is one half of an address, one of 8 bytes both.
WriteBase(q, halves) ==
  /\ Attributes \notin left
  /\ {q} \X halves \subseteq left
  /\ left' = left \ ({q} \X halves)
  /\ adminQueueBase' = [adminQueueBase EXCEPT ![q] =
                          [h \in Half |-> IF h \in halves THEN Wanted(q).base[h] ELSE @[h]]]
  /\ CreateAdminQueues(adminQueueInited + Cardinality(halves))
  /\ UNCHANGED <<adminQueueAttributes, loopVars, program>>

\* Every write of the configuration gives the queues their address and stride.
ApplyConfiguration ==
  /\ adminQueue' = [q \in Queue |->
       IF adminQueue[q] = NoQueue THEN NoQueue
       ELSE [adminQueue[q] EXCEPT !.stride = Wanted(q).stride, !.base = adminQueueBase[q]]]
  /\ UNCHANGED <<adminQueueAttributes, adminQueueBase, adminQueueInited>>

Enable ==
  /\ left = {Enabling}
  /\ left' = {}
  /\ ApplyConfiguration
  /\ csts' = [csts EXCEPT !.rdy = TRUE]
  /\ workEvent' = TRUE
  /\ UNCHANGED <<shutdownReserved, collecting, handling, program>>

\* The host goes on to its next program.
Disable ==
  /\ left = {} /\ program < Len(Programs)
  /\ ApplyConfiguration
  /\ csts' = [csts EXCEPT !.rdy = FALSE]
  /\ workEvent' = FALSE
  /\ program' = program + 1 /\ left' = AllWrites
  /\ UNCHANGED <<shutdownReserved, collecting, handling>>

NotifyShutdown ==
  /\ left = {} /\ csts.rdy
  /\ ApplyConfiguration
  /\ csts' = [rdy |-> TRUE, shst |-> "occurring"]
  /\ shutdownReserved' = TRUE
  /\ UNCHANGED <<workEvent, collecting, handling, hostVars>>

-----------------------------------------------------------------------------
(* The loop of work(), with no command in the queues. *)

work ==
  /\ workEvent
  /\ workEvent' = FALSE
  /\ collecting' = IF csts.rdy THEN collecting + 1 ELSE collecting
  /\ UNCHANGED <<queueVars, csts, shutdownReserved, handling, hostVars>>

\* The function that ends the collection acknowledges a shutdown.
Collected ==
  /\ collecting > 0
  /\ collecting' = collecting - 1
  /\ handling' = handling + 1
  /\ workEvent' = (workEvent /\ ~shutdownReserved)
  /\ csts' = IF shutdownReserved THEN [rdy |-> FALSE, shst |-> "complete"] ELSE csts
  /\ shutdownReserved' = FALSE
  /\ UNCHANGED <<queueVars, hostVars>>

\* handleRequest() finds nothing to do and schedules the next round.
Handled ==
  /\ handling > 0
  /\ handling' = handling - 1
  /\ workEvent' = TRUE
  /\ UNCHANGED <<queueVars, csts, shutdownReserved, collecting, hostVars>>

RegistersNext ==
  \/ WriteAttributes
  \/ \E q \in Queue, halves \in {{"low"}, {"high"}, Half} : WriteBase(q, halves)
  \/ Enable \/ Disable \/ NotifyShutdown
  \/ work \/ Collected \/ Handled

-----------------------------------------------------------------------------
\* While the controller shows itself ready, its admin queues are those the host
\* asked for last, and a round of work() is under way or will come: however the
\* host splits its writes, and whenever it disables the controller, enables it
\* again or shuts it down while rounds are in flight.
ReadyToWork ==
  csts.rdy => /\ \A q \in Queue : adminQueue[q] = Wanted(q)
              /\ workEvent \/ collecting + handling > 0
=============================================================================
