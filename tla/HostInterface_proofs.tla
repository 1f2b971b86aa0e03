------------------------ MODULE HostInterface_proofs ------------------------
(***************************************************************************)
(* Proofs about the interfaces to the host, for every set of slots, every  *)
(* set of operations and every number of commands.                         *)
(***************************************************************************)
EXTENDS HostInterface, DataLemmas

-----------------------------------------------------------------------------
(* NVMe: bringing the controller up.                                       *)

QueueState == [size : Nat, stride : Nat, base : [Half -> Nat]]

\* Halves of addresses written since the attributes: what adminQueueInited counts.
Count(b) == IF b \in left THEN 0 ELSE 1
Counted == Count(<<"SQ", "low">>) + Count(<<"SQ", "high">>)
             + Count(<<"CQ", "low">>) + Count(<<"CQ", "high">>)

RegistersTypeOK ==
  /\ program \in 1 .. Len(Programs)
  /\ left \subseteq AllWrites
  /\ adminQueueAttributes \in [Queue -> Nat]
  /\ adminQueueBase \in [Queue -> [Half -> Nat]]
  /\ adminQueue \in [Queue -> QueueState]
  /\ csts \in [rdy : BOOLEAN, shst : {"none", "occurring", "complete"}]
  /\ workEvent \in BOOLEAN
  /\ collecting \in Nat /\ handling \in Nat

\* The host writes the attributes first and enables the controller last.
WritesInOrder ==
  /\ Attributes \in left => left = AllWrites
  /\ left # {} => Enabling \in left

\* What was written so far is what the host wants, and the queues exist, with the
\* right size, from the last half of an address on.
Programmed ==
  /\ adminQueueInited = IF Counted = 4 THEN 0 ELSE Counted
  /\ Attributes \notin left => \A q \in Queue : adminQueueAttributes[q] = Wanted(q).size
  /\ \A q \in Queue, h \in Half :
       <<q, h>> \notin left => adminQueueBase[q][h] = Wanted(q).base[h]
  /\ left \subseteq {Enabling} => \A q \in Queue : adminQueue[q].size = Wanted(q).size
  /\ left = {} => \A q \in Queue : adminQueue[q] = Wanted(q)
  /\ csts.rdy => left = {}

LoopAlive == csts.rdy => workEvent \/ collecting + handling > 0

RegistersInv == RegistersTypeOK /\ WritesInOrder /\ Programmed /\ LoopAlive

\* What the host writes has its type, and no queue it wants is empty.
LEMMA WantedType ==
  ASSUME program \in 1 .. Len(Programs), NEW q \in Queue
  PROVE  Wanted(q) \in QueueState /\ Wanted(q).size # 0
BY ControllerRegistersAssumption DEF Wanted, QueueState

LEMMA RegistersInitInv == RegistersInit => RegistersInv
<1> SUFFICES ASSUME RegistersInit PROVE RegistersInv
  OBVIOUS
<1> USE DEF RegistersInit
<1>1. RegistersTypeOK
  <2>1. program \in 1 .. Len(Programs)
    BY ControllerRegistersAssumption, EmptySeq, LenProperties
  <2>2. /\ left \subseteq AllWrites
        /\ adminQueueAttributes \in [Queue -> Nat]
        /\ adminQueueBase \in [Queue -> [Half -> Nat]]
        /\ collecting \in Nat /\ handling \in Nat
    OBVIOUS
  <2>3. NoQueue \in QueueState
    BY DEF NoQueue, QueueState
  <2>4. adminQueue \in [Queue -> QueueState]
    BY <2>3
  <2>5. csts \in [rdy : BOOLEAN, shst : {"none", "occurring", "complete"}]
    OBVIOUS
  <2>6. workEvent \in BOOLEAN
    BY Zenon
  <2> QED
    BY <2>1, <2>2, <2>4, <2>5, <2>6, Zenon DEF RegistersTypeOK
<1>2. WritesInOrder
  BY DEF WritesInOrder, AllWrites
<1>3. Programmed
  BY DEF Programmed, Counted, Count, AllWrites, Bases, Queue, Half, Enabling, Attributes
<1>4. LoopAlive
  BY DEF LoopAlive
<1> QED
  BY <1>1, <1>2, <1>3, <1>4 DEF RegistersInv

LEMMA WriteAttributesInv == RegistersInv /\ WriteAttributes => RegistersInv'
<1> SUFFICES ASSUME RegistersInv, WriteAttributes PROVE RegistersInv'
  OBVIOUS
<1> USE DEF WriteAttributes, RegistersInv, loopVars, Wanted
<1>1. RegistersTypeOK'
  BY WantedType DEF RegistersTypeOK, QueueState
<1>2. left = AllWrites
  BY DEF WritesInOrder
<1>3. WritesInOrder'
  BY <1>2 DEF WritesInOrder, AllWrites, Attributes, Enabling
<1>4. Programmed'
  BY <1>2 DEF Programmed, Counted, Count, AllWrites, Bases, Queue, Half, Enabling, Attributes
<1>5. LoopAlive'
  BY Zenon DEF LoopAlive
<1> QED
  BY <1>1, <1>3, <1>4, <1>5, Zenon

\* Writing one half of an address, or both: the count goes with the halves, and
\* the queues are made when none is left to write.
LEMMA WriteBaseInv ==
  ASSUME NEW q \in Queue, NEW halves \in {{"low"}, {"high"}, Half},
         RegistersInv, WriteBase(q, halves)
  PROVE  RegistersInv'
<1> USE DEF RegistersInv
<1>c. Cardinality(halves) = IF halves = Half THEN 2 ELSE 1
  <2>1. Cardinality({"low"}) = 1 /\ Cardinality({"high"}) = 1
    BY FS_Singleton
  <2>2. IsFiniteSet({"low"}) /\ {"low"} \cup {"high"} = Half /\ "high" \notin {"low"}
    BY FS_Singleton DEF Half
  <2>3. Cardinality({"low"} \cup {"high"}) = 2
    BY <2>1, <2>2, FS_AddElement
  <2> QED
    BY <2>1, <2>2, <2>3 DEF Half
<1>1. /\ Attributes \notin left /\ {q} \X halves \subseteq left
      /\ left' = left \ ({q} \X halves)
      /\ UNCHANGED <<adminQueueAttributes, loopVars, program>>
      /\ adminQueueBase' = [adminQueueBase EXCEPT ![q] =
                          [h \in Half |-> IF h \in halves THEN Wanted(q).base[h] ELSE @[h]]]
      /\ CreateAdminQueues(adminQueueInited + Cardinality(halves))
  BY DEF WriteBase
<1>2. halves \subseteq Half /\ Wanted(q).base \in [Half -> Nat]
  BY WantedType DEF RegistersTypeOK, QueueState, Half
<1>3. Attributes \notin left' /\ Enabling \in left /\ Enabling \in left'
  <2>1. Enabling \notin {q} \X halves
    BY DEF Enabling, Queue
  <2>2. PICK h \in halves : TRUE
    BY DEF Half
  <2>3. <<q, h>> \in left
    BY <1>1
  <2> QED
    BY <1>1, <2>1, <2>3 DEF WritesInOrder
<1>4. WritesInOrder'
  BY <1>1, <1>3 DEF WritesInOrder
<1>5. Counted \in Nat /\ Counted < 4 /\ adminQueueInited = Counted
  BY <1>1, <1>2 DEF Programmed, Counted, Count, Queue, Half
<1>6. Counted' = Counted + Cardinality(halves)
  BY <1>1, <1>c DEF Counted, Count, Queue, Half
<1>7. Counted' = 4 <=> left' \subseteq {Enabling}
  <2>1. left' \subseteq Bases \cup {Enabling}
    BY <1>1, <1>3 DEF RegistersTypeOK, AllWrites
  <2> QED
    BY <2>1 DEF Counted, Count, Bases, Queue, Half, Enabling
<1>8. adminQueueAttributes' = [r \in Queue |-> Wanted(r)'.size]
  BY <1>1 DEF RegistersTypeOK, Programmed, Wanted
<1>9. /\ adminQueueInited' = IF Counted' = 4 THEN 0 ELSE Counted'
      /\ adminQueue' = IF Counted' = 4
           THEN [r \in Queue |-> [NoQueue EXCEPT !.size = adminQueueAttributes[r]]]
           ELSE adminQueue
  BY <1>1, <1>5, <1>6 DEF CreateAdminQueues
<1>10. \A r \in Queue : [NoQueue EXCEPT !.size = adminQueueAttributes[r]] \in QueueState
  BY DEF NoQueue, QueueState, RegistersTypeOK
<1>11. RegistersTypeOK'
  <2>1. adminQueue' \in [Queue -> QueueState]
    BY <1>9, <1>10 DEF RegistersTypeOK
  <2>2. adminQueueBase' \in [Queue -> [Half -> Nat]]
    BY <1>1, <1>2 DEF RegistersTypeOK
  <2>3. left' \subseteq AllWrites
    BY <1>1 DEF RegistersTypeOK
  <2> QED
    BY <1>1, <2>1, <2>2, <2>3 DEF RegistersTypeOK, loopVars
<1>12. Programmed'
  <2>1. \A r \in Queue, h \in Half :
          <<r, h>> \notin left' => adminQueueBase'[r][h] = Wanted(r)'.base[h]
    BY <1>1, <1>2 DEF Programmed, Wanted, RegistersTypeOK
  <2>2. left' \subseteq {Enabling} => \A r \in Queue : adminQueue'[r].size = Wanted(r)'.size
    <3> SUFFICES ASSUME left' \subseteq {Enabling}, NEW r \in Queue
                 PROVE  adminQueue'[r].size = Wanted(r)'.size
      OBVIOUS
    <3>1. adminQueue'[r] = [NoQueue EXCEPT !.size = adminQueueAttributes[r]]
      BY <1>7, <1>9
    <3>2. adminQueue'[r].size = adminQueueAttributes[r]
      BY <3>1 DEF NoQueue
    <3> QED
      BY <1>1, <1>8, <3>2
  <2>3. left' # {} /\ ~csts'.rdy
    BY <1>1, <1>3 DEF Programmed, loopVars
  <2> QED
    BY <1>8, <1>9, <2>1, <2>2, <2>3 DEF Programmed
<1>13. LoopAlive'
  BY <1>1, Zenon DEF LoopAlive, loopVars
<1> QED
  BY <1>4, <1>11, <1>12, <1>13, Zenon

\* A write of the configuration leaves the queues with what was written last.
LEMMA ApplyConfigurationInv ==
  ASSUME RegistersInv, ApplyConfiguration, left \subseteq {Enabling}
  PROVE  adminQueue' = [q \in Queue |-> Wanted(q)]
<1> USE DEF RegistersInv
<1> SUFFICES ASSUME NEW q \in Queue
             PROVE  IF adminQueue[q] = NoQueue THEN FALSE
                    ELSE [adminQueue[q] EXCEPT !.stride = Wanted(q).stride,
                                               !.base = adminQueueBase[q]] = Wanted(q)
  BY DEF ApplyConfiguration
<1>1. Wanted(q) \in QueueState /\ Wanted(q).size # 0
  BY WantedType DEF RegistersTypeOK
<1>2. adminQueue[q] \in QueueState /\ adminQueue[q].size = Wanted(q).size
  BY DEF Programmed, RegistersTypeOK
<1>3. adminQueue[q] # NoQueue
  BY <1>1, <1>2 DEF NoQueue
<1>4. adminQueueBase[q] = Wanted(q).base
  <2>1. \A h \in Half : <<q, h>> \notin left
    BY DEF Enabling, Half, Queue
  <2>2. /\ \A h \in Half : adminQueueBase[q][h] = Wanted(q).base[h]
        /\ adminQueueBase[q] \in [Half -> Nat]
    BY <2>1 DEF Programmed, RegistersTypeOK
  <2>3. Wanted(q).base \in [Half -> Nat]
    BY <1>1 DEF QueueState
  <2> QED
    BY <2>2, <2>3
<1> QED
  BY <1>1, <1>2, <1>3, <1>4 DEF QueueState

LEMMA EnableInv == RegistersInv /\ Enable => RegistersInv'
<1> SUFFICES ASSUME RegistersInv, Enable PROVE RegistersInv'
  OBVIOUS
<1> USE DEF RegistersInv
<1>1. adminQueue' = [q \in Queue |-> Wanted(q)]
  BY ApplyConfigurationInv DEF Enable
<1>2. /\ left = {Enabling} /\ left' = {} /\ workEvent' = TRUE
      /\ csts' = [csts EXCEPT !.rdy = TRUE]
      /\ UNCHANGED <<adminQueueAttributes, adminQueueBase, adminQueueInited,
                     collecting, handling, program>>
  BY DEF Enable, ApplyConfiguration
<1>3. \A q \in Queue : Wanted(q) \in QueueState
  BY WantedType DEF RegistersTypeOK
<1>4. RegistersTypeOK'
  <2>1. csts' \in [rdy : BOOLEAN, shst : {"none", "occurring", "complete"}]
    BY <1>2 DEF RegistersTypeOK
  <2>2. workEvent' \in BOOLEAN
    BY <1>2, Zenon
  <2> QED
    BY <1>1, <1>2, <1>3, <2>1, <2>2 DEF RegistersTypeOK
<1>5. WritesInOrder'
  BY <1>2 DEF WritesInOrder
<1>6. Programmed'
  <2>1. Counted' = Counted
    BY <1>2 DEF Counted, Count, Enabling
  <2>2. Attributes \notin left /\ \A b \in Bases : b \notin left
    BY <1>2 DEF Attributes, Enabling, Bases, Queue
  <2> QED
    BY <1>1, <1>2, <2>1, <2>2 DEF Programmed, Wanted, Bases
<1>7. LoopAlive'
  BY <1>2, Zenon DEF LoopAlive
<1> QED
  BY <1>4, <1>5, <1>6, <1>7, Zenon

LEMMA DisableInv == RegistersInv /\ Disable => RegistersInv'
<1> SUFFICES ASSUME RegistersInv, Disable PROVE RegistersInv'
  OBVIOUS
<1> USE DEF RegistersInv
<1>1. adminQueue' = [q \in Queue |-> Wanted(q)]
  BY ApplyConfigurationInv DEF Disable
<1>2. /\ left = {} /\ left' = AllWrites /\ workEvent' = FALSE
      /\ program < Len(Programs) /\ program' = program + 1
      /\ csts' = [csts EXCEPT !.rdy = FALSE]
      /\ UNCHANGED <<adminQueueAttributes, adminQueueBase, adminQueueInited,
                     collecting, handling>>
  BY DEF Disable, ApplyConfiguration
<1>3. \A q \in Queue : Wanted(q) \in QueueState
  BY WantedType DEF RegistersTypeOK
<1>4. /\ ~csts'.rdy
      /\ csts' \in [rdy : BOOLEAN, shst : {"none", "occurring", "complete"}]
  <2>1. csts \in [rdy : BOOLEAN, shst : {"none", "occurring", "complete"}]
    BY DEF RegistersTypeOK
  <2> QED
    BY <1>2, <2>1
<1>5. RegistersTypeOK'
  <2>1. csts' \in [rdy : BOOLEAN, shst : {"none", "occurring", "complete"}]
    BY <1>4
  <2>2. workEvent' \in BOOLEAN
    BY <1>2, Zenon
  <2>3. program' \in 1 .. Len(Programs)
    BY <1>2, ControllerRegistersAssumption, LenProperties DEF RegistersTypeOK
  <2> QED
    BY <1>1, <1>2, <1>3, <2>1, <2>2, <2>3 DEF RegistersTypeOK
<1>6. WritesInOrder'
  BY <1>2 DEF WritesInOrder, AllWrites
<1>7. Programmed'
  <2>1. Counted = 4 /\ Counted' = 0
    BY <1>2 DEF Counted, Count, AllWrites, Bases, Queue, Half
  <2>2. Attributes \in left' /\ Enabling \in left' /\ Bases \subseteq left'
    BY <1>2 DEF AllWrites
  <2>3. ~(left' \subseteq {Enabling}) /\ left' # {}
    BY <2>2 DEF Attributes, Enabling
  <2>4. ~csts'.rdy
    BY <1>4
  <2> QED
    BY <1>2, <2>1, <2>2, <2>3, <2>4 DEF Programmed, Bases
<1>8. LoopAlive'
  BY <1>4, Zenon DEF LoopAlive
<1> QED
  BY <1>5, <1>6, <1>7, <1>8, Zenon

LEMMA NotifyShutdownInv == RegistersInv /\ NotifyShutdown => RegistersInv'
<1> SUFFICES ASSUME RegistersInv, NotifyShutdown PROVE RegistersInv'
  OBVIOUS
<1> USE DEF RegistersInv
<1>1. adminQueue' = [q \in Queue |-> Wanted(q)]
  BY ApplyConfigurationInv DEF NotifyShutdown
<1>2. /\ left = {} /\ csts.rdy
      /\ csts' = [rdy |-> TRUE, shst |-> "occurring"]
      /\ UNCHANGED <<adminQueueAttributes, adminQueueBase, adminQueueInited,
                     workEvent, collecting, handling, program, left>>
  BY DEF NotifyShutdown, ApplyConfiguration, hostVars
<1>3. \A q \in Queue : Wanted(q) \in QueueState
  BY WantedType DEF RegistersTypeOK
<1>4. RegistersTypeOK'
  <2>1. csts' \in [rdy : BOOLEAN, shst : {"none", "occurring", "complete"}]
    BY <1>2
  <2>2. workEvent' \in BOOLEAN
    BY <1>2, Zenon DEF RegistersTypeOK
  <2> QED
    BY <1>1, <1>2, <1>3, <2>1, <2>2 DEF RegistersTypeOK
<1>5. WritesInOrder'
  BY <1>2 DEF WritesInOrder
<1>6. Programmed'
  <2>1. Counted' = Counted
    BY <1>2 DEF Counted, Count
  <2> QED
    BY <1>1, <1>2, <2>1 DEF Programmed, Wanted
<1>7. LoopAlive'
  BY <1>2, Zenon DEF LoopAlive
<1> QED
  BY <1>4, <1>5, <1>6, <1>7, Zenon

\* The rounds of work(): one that has begun is followed by the next.
LEMMA RoundInv == RegistersInv /\ (work \/ Collected \/ Handled) => RegistersInv'
<1> SUFFICES ASSUME RegistersInv, work \/ Collected \/ Handled PROVE RegistersInv'
  OBVIOUS
<1> USE DEF RegistersInv
<1>1. UNCHANGED <<adminQueueAttributes, adminQueueBase, adminQueueInited, adminQueue,
                  program, left>>
  BY DEF work, Collected, Handled, queueVars, hostVars
<1>2. csts' = csts \/ csts' = [rdy |-> FALSE, shst |-> "complete"]
  BY DEF work, Collected, Handled
<1>3. RegistersTypeOK'
  <2>1. csts' \in [rdy : BOOLEAN, shst : {"none", "occurring", "complete"}]
    <3>1. csts \in [rdy : BOOLEAN, shst : {"none", "occurring", "complete"}]
      BY DEF RegistersTypeOK
    <3>2. [rdy |-> FALSE, shst |-> "complete"]
            \in [rdy : BOOLEAN, shst : {"none", "occurring", "complete"}]
      OBVIOUS
    <3> QED
      BY <1>2, <3>1, <3>2, Zenon
  <2>2. workEvent' \in BOOLEAN
    BY Zenon DEF RegistersTypeOK, work, Collected, Handled
  <2>3. collecting' \in Nat /\ handling' \in Nat
    BY DEF RegistersTypeOK, work, Collected, Handled
  <2> QED
    BY <1>1, <2>1, <2>2, <2>3 DEF RegistersTypeOK
<1>4. WritesInOrder'
  BY <1>1 DEF WritesInOrder
<1>5. Programmed'
  <2>1. Counted' = Counted
    BY <1>1 DEF Counted, Count
  <2>2. csts'.rdy => csts.rdy
    BY <1>2
  <2> QED
    BY <1>1, <2>1, <2>2 DEF Programmed, Wanted
<1>6. LoopAlive'
  <2>1. CASE work
    <3>1. csts' = csts /\ collecting' = (IF csts.rdy THEN collecting + 1 ELSE collecting)
          /\ handling' = handling
      BY <2>1 DEF work
    <3>2. csts'.rdy => collecting' + handling' > 0
      BY <3>1 DEF RegistersTypeOK
    <3> QED
      BY <3>2, Zenon DEF LoopAlive
  <2>2. CASE Collected
    <3>1. collecting' + handling' > 0
      BY <2>2 DEF Collected, RegistersTypeOK
    <3> QED
      BY <3>1, Zenon DEF LoopAlive
  <2>3. CASE Handled
    BY <2>3, Zenon DEF Handled, LoopAlive
  <2> QED
    BY <2>1, <2>2, <2>3
<1> QED
  BY <1>3, <1>4, <1>5, <1>6, Zenon

LEMMA RegistersStepInv == RegistersInv /\ RegistersNext => RegistersInv'
BY WriteAttributesInv, WriteBaseInv, EnableInv, DisableInv, NotifyShutdownInv, RoundInv
   DEF RegistersNext

LEMMA RegistersStutterInv == RegistersInv /\ UNCHANGED registerVars => RegistersInv'
<1> SUFFICES ASSUME RegistersInv, UNCHANGED registerVars PROVE RegistersInv'
  OBVIOUS
<1>1. Counted' = Counted
  BY DEF registerVars, Counted, Count
<1> QED
  BY <1>1, Zenon DEF registerVars, RegistersInv, RegistersTypeOK, WritesInOrder, Programmed,
                     LoopAlive, Wanted

\* The invariant of the registers holds of the host interface.
LEMMA RegistersInvariantHolds == Spec => []RegistersInv
<1>1. Init => RegistersInv
  BY RegistersInitInv DEF Init
<1>2. RegistersInv /\ [Next]_vars => RegistersInv'
  BY RegistersStepInv, RegistersStutterInv DEF Next, Sata, Ufs, Nvme, vars
<1> QED
  BY <1>1, <1>2, PTL DEF Spec

\* Whatever the order and the widths in which the host writes the addresses of the
\* admin queues, and whenever it disables, enables or shuts down the controller: while
\* CSTS.RDY is set, both admin queues are those the host asked for last, and a round
\* of Controller::work() is scheduled or under way.
THEOREM ReadyToWorkAlways == Spec => []ReadyToWork
<1>1. RegistersInv => ReadyToWork
  BY Zenon DEF RegistersInv, Programmed, LoopAlive, ReadyToWork
<1> QED
  BY <1>1, RegistersInvariantHolds, PTL

\* The bits of a register in which one is set.
LEMMA AscendingSingleton == ASSUME NEW s PROVE Ascending({s}) = <<s>>
<1> DEFINE f == [i \in 1 .. 1 |-> s]
           Q == {q \in [1 .. 1 -> {s}] : \A i, j \in DOMAIN q : i < j => q[i] < q[j]}
<1>1. Cardinality({s}) = 1
  BY FS_Singleton
<1>2. f \in Q
  OBVIOUS
<1>3. Ascending({s}) \in Q
  BY <1>1, <1>2 DEF Ascending
<1>4. \A q \in [1 .. 1 -> {s}] : q = f
  OBVIOUS
<1>5. f = <<s>>
  OBVIOUS
<1> QED
  BY <1>3, <1>4, <1>5

-----------------------------------------------------------------------------
(* UFS: a slot is in one place on its way.                                 *)

UfsStages == {"descriptor", PrdtRead, PrdtWrite, Read, Write, Flush, Job, QueryJob,
              "response", "status"}

InTables(s) == \E t \in tables : t[1] = s
Staged(s)   == stages[s] # <<>>

\* The four places of a slot, each of which excludes the others.
Places ==
  /\ NoDuplicates(ufsRequests) /\ NoDuplicates(ufsResponses)
  /\ \A s \in Slots :
       /\ Occurs(s, ufsRequests) => ~Occurs(s, ufsResponses) /\ ~InTables(s) /\ ~Staged(s)
       /\ Occurs(s, ufsResponses) => ~InTables(s) /\ ~Staged(s)
       /\ InTables(s) => ~Staged(s)
       /\ s \in pendingInterrupt <=> \/ Occurs(s, ufsRequests) \/ Occurs(s, ufsResponses)
                                     \/ InTables(s) \/ Staged(s)

\* The driver has a command on every slot of the doorbell.
Rung == pendingInterrupt = utrldbr /\ \A s \in utrldbr : issued[s] # ""

UfsInv == UfsTypeOK /\ stages \in [Slots -> Seq(UfsStages)] /\ Places /\ Rung

\* What the device does for a command is a sequence of stages, and it is not empty.
LEMMA WorkIsStages ==
  ASSUME NEW op \in UfsOperations
  PROVE  /\ op # ""
         /\ UfsWork[op] \o Epilogue \in Seq(UfsStages)
         /\ UfsWork[op] \o Epilogue # <<>>
<1>1. op \in UfsCommands /\ op # ""
  BY UfsAssumption DEF UfsCommands
<1>2. UfsWork[op] \in Seq(UfsStages)
  <2>1. /\ PrdtRead \in UfsStages /\ PrdtWrite \in UfsStages /\ Read \in UfsStages
        /\ Write \in UfsStages /\ Flush \in UfsStages /\ Job \in UfsStages
        /\ QueryJob \in UfsStages
    BY DEF UfsStages
  <2>2. /\ nop \in Seq(UfsStages) /\ query \in Seq(UfsStages) /\ inquiry \in Seq(UfsStages)
        /\ modeSense \in Seq(UfsStages) /\ readCapacity \in Seq(UfsStages)
        /\ reportLuns \in Seq(UfsStages) /\ unit \in Seq(UfsStages)
        /\ scsiRead \in Seq(UfsStages) /\ scsiWrite \in Seq(UfsStages)
        /\ sync \in Seq(UfsStages)
    BY <2>1, EmptySeq DEF scsiRead, scsiWrite, inquiry, modeSense, readCapacity, reportLuns,
                          sync, unit, query, nop
  <2>3. UfsWork[op] \in {nop, query, inquiry, modeSense, readCapacity, reportLuns, unit,
                         scsiRead, scsiWrite, sync}
    <3>1. /\ UfsWork["nop"] = nop /\ UfsWork["query"] = query
          /\ UfsWork["inquiry"] = inquiry /\ UfsWork["modeSense"] = modeSense
          /\ UfsWork["readCapacity"] = readCapacity /\ UfsWork["reportLuns"] = reportLuns
          /\ UfsWork["unit"] = unit /\ UfsWork["scsiRead"] = scsiRead
          /\ UfsWork["scsiWrite"] = scsiWrite /\ UfsWork["sync"] = sync
      BY DEF UfsWork
    <3> QED
      BY <1>1, <3>1 DEF UfsCommands
  <2> QED
    BY <2>2, <2>3
<1>3. Epilogue \in Seq(UfsStages) /\ Len(Epilogue) = 2
  BY DEF Epilogue, UfsStages
<1>4. /\ UfsWork[op] \o Epilogue \in Seq(UfsStages)
      /\ Len(UfsWork[op] \o Epilogue) = Len(UfsWork[op]) + 2
  <2>1. /\ UfsWork[op] \o Epilogue \in Seq(UfsStages)
        /\ Len(UfsWork[op] \o Epilogue) = Len(UfsWork[op]) + Len(Epilogue)
    BY <1>2, <1>3, ConcatProperties, Zenon
  <2> QED
    BY <1>3, <2>1
<1>5. Len(UfsWork[op]) \in Nat
  BY <1>2, LenProperties
<1>6. Len(UfsWork[op] \o Epilogue) # 0
  BY <1>4, <1>5
<1> QED
  BY <1>1, <1>4, <1>6, EmptySeq

LEMMA UfsInitInv == UfsInit => UfsInv
<1> SUFFICES ASSUME UfsInit PROVE UfsInv
  OBVIOUS
<1>1. UfsTypeOK
  <2>1. ufsLine \in BOOLEAN /\ (completionEvent <=> ufsResponses # <<>>)
    BY Zenon DEF UfsInit
  <2> QED
    <3>1. /\ ufsRequests \in Seq(Slots) /\ ufsResponses \in Seq(Slots)
          /\ transfers \in 0 .. MaxTransfers /\ uics \in 0 .. MaxUIC
          /\ issued \in [Slots -> UfsOperations \cup {""}]
          /\ ufsDriver \in {"idle", "clear", "complete", "again"}
      <4>1. transfers \in 0 .. MaxTransfers /\ uics \in 0 .. MaxUIC
        <5>1. transfers = 0 /\ uics = 0
          BY Zenon DEF UfsInit
        <5> QED
          BY <5>1, UfsAssumption
      <4>2. ufsRequests \in Seq(Slots) /\ ufsResponses \in Seq(Slots)
        BY EmptySeq, Zenon DEF UfsInit
      <4>3. /\ issued \in [Slots -> UfsOperations \cup {""}]
            /\ ufsDriver \in {"idle", "clear", "complete", "again"}
        BY DEF UfsInit
      <4> QED
        BY <4>1, <4>2, <4>3
    <3>2. /\ utrldbr \subseteq Slots /\ pendingInterrupt \subseteq Slots
          /\ is \subseteq {"UTP_TRANSFER_REQ_COMPL", "UIC_COMMAND_COMPL"}
          /\ seen \subseteq {"UTP_TRANSFER_REQ_COMPL", "UIC_COMMAND_COMPL"}
          /\ ufsEvents \subseteq {"work", "request"}
          /\ tables \subseteq Slots \X {"request", "prdt"}
      BY DEF UfsInit
    <3> QED
      BY <2>1, <3>1, <3>2, Zenon DEF UfsTypeOK
<1>2. stages \in [Slots -> Seq(UfsStages)]
  BY EmptySeq DEF UfsInit
<1>3. Places
  <2>1. DOMAIN <<>> = {}
    OBVIOUS
  <2> QED
    BY <2>1 DEF UfsInit, Places, NoDuplicates, Occurs, InTables, Staged
<1>4. Rung
  BY DEF UfsInit, Rung
<1> QED
  BY <1>1, <1>2, <1>3, <1>4 DEF UfsInv

\* Work and request events move the front of the queue to its stages.
LEMMA FetchInv ==
  ASSUME UfsInv, NEW event \in {"work", "request"}, ufsHandleRequest(event)
  PROVE  UfsInv'
<1> USE DEF UfsInv
<1>1. /\ UNCHANGED <<utrldbr, pendingInterrupt, is, ufsLine, ufsResponses,
                     completionEvent, tables, issued, transfers, uics, ufsDriver, seen>>
      /\ ufsEvents' \subseteq ufsEvents \cup {"work", "request"}
  BY DEF ufsHandleRequest, ufsDriverVars
<1>2. CASE ufsRequests = <<>>
  <2>1. UNCHANGED <<ufsRequests, stages>>
    BY <1>2 DEF ufsHandleRequest
  <2>2. UfsTypeOK'
    BY <1>1, <2>1 DEF UfsTypeOK
  <2> QED
    BY <1>1, <2>1, <2>2, Zenon DEF Places, Rung, InTables, Staged
<1>3. CASE ufsRequests # <<>>
  <2> DEFINE h == Head(ufsRequests)
  <2>1. /\ ufsRequests' = Tail(ufsRequests)
        /\ stages' = [stages EXCEPT ![h] = <<"descriptor">>]
    BY <1>3 DEF ufsHandleRequest
  <2>2. /\ Tail(ufsRequests) \in Seq(Slots) /\ NoDuplicates(Tail(ufsRequests))
        /\ h \in Slots /\ Occurs(h, ufsRequests)
        /\ \A x : Occurs(x, Tail(ufsRequests)) <=> Occurs(x, ufsRequests) /\ x # h
    BY <1>3, TailQueue DEF UfsTypeOK, Places
  <2> HIDE DEF h
  <2>3. /\ <<"descriptor">> \in Seq(UfsStages) /\ <<"descriptor">> # <<>>
    BY DEF UfsStages
  <2>4. stages' \in [Slots -> Seq(UfsStages)]
    BY <2>1, <2>2, <2>3
  <2>5. UfsTypeOK'
    BY <1>1, <2>1, <2>2 DEF UfsTypeOK
  <2>6. \A s \in Slots : Staged(s)' <=> Staged(s) \/ s = h
    BY <2>1, <2>2, <2>3 DEF Staged
  <2>7. \A s \in Slots : InTables(s)' <=> InTables(s)
    BY <1>1 DEF InTables
  <2>8. Places'
    BY <1>1, <2>1, <2>2, <2>6, <2>7 DEF Places
  <2>9. Rung'
    BY <1>1, Zenon DEF Rung
  <2> QED
    BY <2>4, <2>5, <2>8, <2>9
<1> QED
  BY <1>2, <1>3

\* The descriptor is read, and the tables are next.
LEMMA ProcessInv ==
  ASSUME UfsInv, NEW s \in Slots, processUTPCommand(s)
  PROVE  UfsInv'
<1> USE DEF UfsInv
<1>1. /\ UNCHANGED <<utrldbr, pendingInterrupt, is, ufsLine, ufsRequests, ufsResponses,
                     completionEvent, ufsEvents, issued, transfers, uics, ufsDriver, seen>>
      /\ stages[s] = <<"descriptor">> /\ stages' = [stages EXCEPT ![s] = <<>>]
  BY DEF processUTPCommand, ufsDriverVars
<1>2. \/ tables' = tables \cup {<<s, "request">>}
      \/ tables' = tables \cup {<<s, "request">>, <<s, "prdt">>}
  BY DEF processUTPCommand
<1>3. stages' \in [Slots -> Seq(UfsStages)]
  BY <1>1, EmptySeq
<1>4. UfsTypeOK'
  <2>1. tables' \subseteq Slots \X {"request", "prdt"}
    <3>1. tables \subseteq Slots \X {"request", "prdt"}
      BY Zenon DEF UfsTypeOK
    <3>2. /\ <<s, "request">> \in Slots \X {"request", "prdt"}
          /\ <<s, "prdt">> \in Slots \X {"request", "prdt"}
      OBVIOUS
    <3> QED
      BY <1>2, <3>1, <3>2
  <2> QED
    BY <1>1, <2>1 DEF UfsTypeOK
<1>5. Staged(s) /\ \A x \in Slots : Staged(x)' <=> Staged(x) /\ x # s
  BY <1>1 DEF Staged
<1>6. \A x \in Slots : InTables(x)' <=> InTables(x) \/ x = s
  <2>1. <<s, "request">>[1] = s /\ <<s, "prdt">>[1] = s
    OBVIOUS
  <2>2. /\ tables \subseteq tables' /\ <<s, "request">> \in tables'
        /\ \A t \in tables' : t \in tables \/ t[1] = s
    BY <1>2, <2>1
  <2> QED
    BY <2>1, <2>2 DEF InTables
<1>7. Places'
  BY <1>1, <1>5, <1>6 DEF Places
<1>8. Rung'
  BY <1>1, Zenon DEF Rung
<1> QED
  BY <1>3, <1>4, <1>7, <1>8

\* A table is read: the other one is still, or the stages are next.
LEMMA TableReadInv ==
  ASSUME UfsInv, NEW s \in Slots, NEW part \in {"request", "prdt"}, TableRead(s, part)
  PROVE  UfsInv'
<1> USE DEF UfsInv
<1>1. /\ UNCHANGED <<utrldbr, pendingInterrupt, is, ufsLine, ufsRequests, ufsResponses,
                     completionEvent, ufsEvents, issued, transfers, uics, ufsDriver, seen>>
      /\ <<s, part>> \in tables /\ tables' = tables \ {<<s, part>>}
  BY DEF TableRead, ufsDriverVars
<1>2. InTables(s) /\ \A x \in Slots : x # s => (InTables(x)' <=> InTables(x))
  BY <1>1 DEF InTables
<1>3. UfsTypeOK'
  BY <1>1 DEF UfsTypeOK
<1>4. Rung'
  BY <1>1, Zenon DEF Rung
<1>5. CASE InTables(s)'
  <2>1. stages' = stages
    BY <1>5 DEF TableRead, InTables
  <2>2. \A x \in Slots : Staged(x)' <=> Staged(x)
    BY <2>1 DEF Staged
  <2>3. Places'
    BY <1>1, <1>2, <1>5, <2>2 DEF Places
  <2> QED
    BY <1>3, <1>4, <2>1, <2>3
<1>6. CASE ~InTables(s)'
  <2>1. stages' = [stages EXCEPT ![s] = UfsWork[issued[s]] \o Epilogue]
    BY <1>6 DEF TableRead, InTables
  <2>2. issued[s] \in UfsOperations
    BY <1>2 DEF Places, Rung, UfsTypeOK
  <2>3. /\ UfsWork[issued[s]] \o Epilogue \in Seq(UfsStages)
        /\ UfsWork[issued[s]] \o Epilogue # <<>>
    BY <2>2, WorkIsStages
  <2>4. stages' \in [Slots -> Seq(UfsStages)]
    BY <2>1, <2>3
  <2>5. \A x \in Slots : Staged(x)' <=> Staged(x) \/ x = s
    BY <2>1, <2>3 DEF Staged
  <2>6. Places'
    BY <1>1, <1>2, <1>6, <2>5 DEF Places
  <2> QED
    BY <1>3, <1>4, <2>4, <2>6
<1> QED
  BY <1>5, <1>6

\* One stage follows another.
LEMMA NextStageInv ==
  ASSUME UfsInv, NEW s \in Slots, NextStage(s)
  PROVE  UfsInv'
<1> USE DEF UfsInv
<1>1. /\ UNCHANGED <<utrldbr, pendingInterrupt, is, ufsLine, ufsRequests, ufsResponses,
                     completionEvent, ufsEvents, tables, issued, transfers, uics,
                     ufsDriver, seen>>
      /\ Len(stages[s]) > 1 /\ stages' = [stages EXCEPT ![s] = Tail(stages[s])]
  BY DEF NextStage, ufsDriverVars
<1>2. /\ stages[s] \in Seq(UfsStages) /\ stages[s] # <<>>
      /\ Tail(stages[s]) \in Seq(UfsStages) /\ Tail(stages[s]) # <<>>
  BY <1>1, TailOfLonger
<1>3. stages' \in [Slots -> Seq(UfsStages)]
  BY <1>1, <1>2
<1>4. UfsTypeOK'
  BY <1>1 DEF UfsTypeOK
<1>5. \A x \in Slots : Staged(x)' <=> Staged(x)
  BY <1>1, <1>2 DEF Staged
<1>6. Places'
  BY <1>1, <1>5 DEF Places, InTables
<1>7. Rung'
  BY <1>1, Zenon DEF Rung
<1> QED
  BY <1>3, <1>4, <1>6, <1>7

\* The last stage ends, and the slot waits for its completion.
LEMMA DescriptorWrittenInv ==
  ASSUME UfsInv, NEW s \in Slots, DescriptorWritten(s)
  PROVE  UfsInv'
<1> USE DEF UfsInv
<1>1. /\ UNCHANGED <<utrldbr, pendingInterrupt, is, ufsLine, ufsRequests, ufsEvents,
                     tables, issued, transfers, uics, ufsDriver, seen>>
      /\ stages[s] = <<"status">> /\ stages' = [stages EXCEPT ![s] = <<>>]
      /\ ufsResponses' = Append(ufsResponses, s)
  BY DEF DescriptorWritten, ufsDriverVars
<1>2. completionEvent'
  BY DEF DescriptorWritten
<1>3. Staged(s) /\ \A x \in Slots : Staged(x)' <=> Staged(x) /\ x # s
  BY <1>1 DEF Staged
<1>4. /\ ufsResponses' \in Seq(Slots) /\ NoDuplicates(ufsResponses') /\ ufsResponses' # <<>>
      /\ \A x : Occurs(x, ufsResponses') <=> Occurs(x, ufsResponses) \/ x = s
  BY <1>1, <1>3, AppendQueue DEF UfsTypeOK, Places
<1>5. stages' \in [Slots -> Seq(UfsStages)]
  BY <1>1, EmptySeq
<1>6. UfsTypeOK'
  <2>1. completionEvent' <=> ufsResponses' # <<>>
    BY <1>2, <1>4
  <2> QED
    BY <1>1, <1>4, <2>1, Zenon DEF UfsTypeOK
<1>7. Places'
  BY <1>1, <1>3, <1>4 DEF Places, InTables
<1>8. Rung'
  BY <1>1, Zenon DEF Rung
<1> QED
  BY <1>5, <1>6, <1>7, <1>8

\* The completion of every slot that waits for it.
LEMMA CompletionInv == UfsInv /\ completion => UfsInv'
<1> SUFFICES ASSUME UfsInv, completion PROVE UfsInv'
  OBVIOUS
<1> USE DEF UfsInv
<1>1. /\ UNCHANGED <<ufsRequests, ufsEvents, tables, stages, issued, transfers, uics,
                     ufsDriver, seen>>
      /\ utrldbr' = utrldbr \ ToSet(ufsResponses)
      /\ pendingInterrupt' = pendingInterrupt \ ToSet(ufsResponses)
      /\ ufsResponses' = <<>> /\ is' = is \cup {"UTP_TRANSFER_REQ_COMPL"}
  BY DEF completion, ufsDriverVars
<1>2. ~completionEvent' /\ ufsLine' \in BOOLEAN
  BY Zenon DEF completion
<1>3. DOMAIN <<>> = {}
  OBVIOUS
<1>4. NoDuplicates(ufsResponses') /\ \A s : ~Occurs(s, ufsResponses')
  BY <1>1, <1>3 DEF Occurs, NoDuplicates
<1>5. \A s : s \in ToSet(ufsResponses) <=> Occurs(s, ufsResponses)
  BY DEF ToSet, Occurs
<1>6. UfsTypeOK'
  <2>1. completionEvent' <=> ufsResponses' # <<>>
    BY <1>1, <1>2
  <2>2. ufsResponses' \in Seq(Slots)
    BY <1>1, EmptySeq
  <2>3. /\ utrldbr' \subseteq Slots /\ pendingInterrupt' \subseteq Slots
        /\ is' \subseteq {"UTP_TRANSFER_REQ_COMPL", "UIC_COMMAND_COMPL"}
    BY <1>1 DEF UfsTypeOK
  <2> QED
    BY <1>1, <1>2, <2>1, <2>2, <2>3, Zenon DEF UfsTypeOK
<1>7. Places'
  BY <1>1, <1>4, <1>5 DEF Places, InTables, Staged
<1>8. Rung'
  BY <1>1 DEF Rung
<1> QED
  BY <1>1, <1>6, <1>7, <1>8

\* The driver rings the doorbell of a slot on which it has no command: the other
\* bits of the doorbell were taken over before.
LEMMA IssueUfsInv ==
  ASSUME UfsInv, NEW s \in Slots, NEW op \in UfsOperations, IssueUfs(s, op)
  PROVE  UfsInv'
<1> USE DEF UfsInv
<1>1. /\ UNCHANGED <<is, ufsLine, ufsResponses, completionEvent, ufsEvents, tables, stages,
                     uics, ufsDriver, seen>>
      /\ transfers < MaxTransfers /\ transfers' = transfers + 1
      /\ issued[s] = "" /\ issued' = [issued EXCEPT ![s] = op]
      /\ utrldbr' = utrldbr \cup {s}
      /\ ufsRequests' = ufsRequests \o NewTransfers(utrldbr')
      /\ pendingInterrupt' = pendingInterrupt \cup utrldbr'
  BY DEF IssueUfs
<1>2. s \notin pendingInterrupt /\ pendingInterrupt = utrldbr /\ ~Occurs(s, ufsRequests)
  BY <1>1 DEF Rung, Places
<1>3. utrldbr' \ pendingInterrupt = {s}
  BY <1>1, <1>2
<1>4. ufsRequests' = Append(ufsRequests, s)
  <2>1. NewTransfers(utrldbr') = <<s>>
    BY <1>3, AscendingSingleton DEF NewTransfers
  <2> QED
    BY <1>1, <2>1, AppendIsConcat DEF UfsTypeOK
<1>5. /\ ufsRequests' \in Seq(Slots) /\ NoDuplicates(ufsRequests')
      /\ \A x : Occurs(x, ufsRequests') <=> Occurs(x, ufsRequests) \/ x = s
  BY <1>2, <1>4, AppendQueue DEF UfsTypeOK, Places
<1>6. op # ""
  BY WorkIsStages
<1>7. UfsTypeOK'
  <2>1. transfers' \in 0 .. MaxTransfers
    <3>1. transfers \in 0 .. MaxTransfers /\ MaxTransfers \in Nat
      BY UfsAssumption, Zenon DEF UfsTypeOK
    <3>2. transfers < MaxTransfers /\ transfers' = transfers + 1
      BY <1>1, Zenon
    <3> QED
      BY <3>1, <3>2
  <2>2. /\ utrldbr' \subseteq Slots /\ pendingInterrupt' \subseteq Slots
        /\ issued' \in [Slots -> UfsOperations \cup {""}]
    BY <1>1 DEF UfsTypeOK
  <2> QED
    BY <1>1, <1>5, <2>1, <2>2, Zenon DEF UfsTypeOK
<1>8. Places'
  BY <1>1, <1>2, <1>5 DEF Places, InTables, Staged
<1>9. Rung'
  BY <1>1, <1>2, <1>6 DEF Rung, UfsTypeOK
<1> QED
  BY <1>1, <1>7, <1>8, <1>9

LEMMA UICCommandInv ==
  ASSUME UfsInv, NEW opcode, UICCommand(opcode)
  PROVE  UfsInv'
<1> USE DEF UfsInv
<1>1. /\ UNCHANGED <<utrldbr, pendingInterrupt, ufsRequests, ufsResponses, completionEvent,
                     tables, stages, issued, transfers, ufsDriver, seen>>
      /\ uics < MaxUIC /\ uics' = uics + 1
      /\ ufsEvents' \subseteq ufsEvents \cup {"work"}
      /\ is' = is \cup {"UIC_COMMAND_COMPL"}
  BY DEF UICCommand
<1>2. ufsLine' \in BOOLEAN
  BY Zenon DEF UICCommand
<1>3. UfsTypeOK'
  <2>1. uics' \in 0 .. MaxUIC
    <3>1. uics \in 0 .. MaxUIC /\ MaxUIC \in Nat
      BY UfsAssumption, Zenon DEF UfsTypeOK
    <3>2. uics < MaxUIC /\ uics' = uics + 1
      BY <1>1, Zenon
    <3> QED
      BY <3>1, <3>2
  <2>2. /\ ufsEvents' \subseteq {"work", "request"}
        /\ is' \subseteq {"UTP_TRANSFER_REQ_COMPL", "UIC_COMMAND_COMPL"}
    BY <1>1 DEF UfsTypeOK
  <2> QED
    BY <1>1, <1>2, <2>1, <2>2, Zenon DEF UfsTypeOK
<1> QED
  BY <1>1, <1>3, Zenon DEF Places, Rung, InTables, Staged

\* The interrupt handler gives back only slots that the doorbell does not hold.
LEMMA UfsHandlerInv == UfsInv /\ UfsHandler => UfsInv'
<1> SUFFICES ASSUME UfsInv, UfsHandler PROVE UfsInv'
  OBVIOUS
<1> USE DEF UfsInv
<1>1. /\ UNCHANGED <<utrldbr, pendingInterrupt, ufsRequests, ufsResponses, completionEvent,
                     ufsEvents, tables, stages, transfers, uics>>
      /\ is' \subseteq is /\ (seen' = seen \/ seen' = is)
      /\ ufsDriver' \in {"idle", "clear", "complete", "again"}
  BY DEF UfsHandler, ReadIS, ClearIS, CompleteUfs
<1>2. \/ issued' = issued
      \/ issued' = [s \in Slots |-> IF s \in utrldbr THEN issued[s] ELSE ""]
  BY DEF UfsHandler, ReadIS, ClearIS, CompleteUfs
<1>3. issued' \in [Slots -> UfsOperations \cup {""}] /\ \A s \in utrldbr : issued'[s] = issued[s]
  BY <1>2 DEF UfsTypeOK
<1>4. ufsLine' \in BOOLEAN
  BY Zenon DEF UfsHandler, ReadIS, ClearIS, CompleteUfs, UfsTypeOK
<1>5. UfsTypeOK'
  <2>1. /\ is' \subseteq {"UTP_TRANSFER_REQ_COMPL", "UIC_COMMAND_COMPL"}
        /\ seen' \subseteq {"UTP_TRANSFER_REQ_COMPL", "UIC_COMMAND_COMPL"}
    BY <1>1 DEF UfsTypeOK
  <2> QED
    BY <1>1, <1>3, <1>4, <2>1, Zenon DEF UfsTypeOK
<1>6. Places'
  BY <1>1, Zenon DEF Places, InTables, Staged
<1>7. Rung'
  BY <1>1, <1>3 DEF Rung
<1> QED
  BY <1>1, <1>5, <1>6, <1>7

LEMMA UfsStepInv == UfsInv /\ UfsNext => UfsInv'
BY FetchInv, ProcessInv, TableReadInv, NextStageInv, DescriptorWrittenInv, CompletionInv,
   IssueUfsInv, UICCommandInv, UfsHandlerInv DEF UfsNext, UfsSlot, UfsHostSteps

LEMMA UfsStutterInv == UfsInv /\ UNCHANGED ufsVars => UfsInv'
<1> SUFFICES ASSUME UfsInv, UNCHANGED ufsVars PROVE UfsInv'
  OBVIOUS
<1>1. UNCHANGED <<utrldbr, pendingInterrupt, is, ufsLine, ufsRequests, ufsResponses,
                  completionEvent, ufsEvents, tables, stages, issued, transfers, uics,
                  ufsDriver, seen>>
  BY DEF ufsVars, ufsDriverVars
<1> QED
  BY <1>1, Zenon DEF UfsInv, UfsTypeOK, Places, Rung, InTables, Staged

\* The invariant of the UFS host controller holds of the host interface.
LEMMA UfsInvariantHolds == Spec => []UfsInv
<1>1. Init => UfsInv
  BY UfsInitInv DEF Init
<1>2. UfsInv /\ [Next]_vars => UfsInv'
  BY UfsStepInv, UfsStutterInv DEF Next, Sata, Ufs, Nvme, vars
<1> QED
  BY <1>1, <1>2, PTL DEF Spec

\* The queues of Host, its doorbell and what it keeps of a command have their types, and
\* a completion event is scheduled as long as lResponseQueue holds a slot.
THEOREM UfsTypeCorrect == Spec => []UfsTypeOK
<1>1. UfsInv => UfsTypeOK
  BY DEF UfsInv
<1> QED
  BY <1>1, UfsInvariantHolds, PTL

\* However many slots are rung one after the other, and however their fetches, table
\* reads, stages and completions interleave with the interrupt handler, pendingInterrupt
\* is the doorbell, and each of its slots is in exactly one place on its way: none is
\* dropped and none runs twice.
THEOREM UfsAlwaysInOnePlace == Spec => []UfsInOnePlace
<1>1. ASSUME UfsInv PROVE UfsInOnePlace
  <2>1. ASSUME NEW s \in Slots
        PROVE  Cardinality({i \in DOMAIN ufsRequests : ufsRequests[i] = s})
                 + Cardinality({i \in DOMAIN ufsResponses : ufsResponses[i] = s})
                 + (IF \E t \in tables : t[1] = s THEN 1 ELSE 0)
                 + (IF stages[s] # <<>> THEN 1 ELSE 0)
               = IF s \in pendingInterrupt THEN 1 ELSE 0
    <3>1. /\ ufsRequests \in Seq(Slots) /\ NoDuplicates(ufsRequests)
          /\ ufsResponses \in Seq(Slots) /\ NoDuplicates(ufsResponses)
      BY <1>1 DEF UfsInv, UfsTypeOK, Places
    <3>2. /\ Cardinality({i \in DOMAIN ufsRequests : ufsRequests[i] = s})
               = IF Occurs(s, ufsRequests) THEN 1 ELSE 0
          /\ Cardinality({i \in DOMAIN ufsResponses : ufsResponses[i] = s})
               = IF Occurs(s, ufsResponses) THEN 1 ELSE 0
      BY <3>1, PlacesInQueue
    <3> QED
      BY <1>1, <3>2 DEF UfsInv, Places, InTables, Staged
  <2> QED
    BY <1>1, <2>1 DEF UfsInv, Rung, UfsInOnePlace
<1> QED
  BY <1>1, UfsInvariantHolds, PTL

-----------------------------------------------------------------------------
(* SATA: a response that waits is announced.                               *)

SataSteps == {prdtRead, prdtWrite, read, write, flush, _readDMADone}
Work      == {q \in Seq(SataSteps) : Len(q) <= 3}
Response  == [fis : {"D2H", "DMA_SETUP", "SDB"}, slotIndex : Slots \cup {0},
              func : Command \cup {NoCommand}]

\* The commands that the adapter and the device know were issued.
Known ==
  /\ Len(commands) <= MaxCommands
  /\ \A c \in ToSet(sataRequests) \cup fetching \cup ncqJobs : c <= Len(commands)
  /\ \A r \in reading : r[1] <= Len(commands)
  /\ \A c \in Command : steps[c] # <<>> => c <= Len(commands)
  /\ \A r \in ToSet(sataResponses) : r.func <= Len(commands)

\* Interrupts are enabled by the time a reset device is up again, and the FIS of a
\* signature is written while it is announced.
Announced ==
  /\ signalling => fisWrites > 0
  /\ deviceInited /\ resets > 0 => irqEnabled
  /\ ResponseWakes

SataInv == SataTypeOK /\ steps \in [Command -> Work] /\ Known /\ Announced

\* The Boolean variables of SataTypeOK, each by itself.
LEMMA SataBooleans ==
  {started, hbaIS, portIS, irqEnabled, sataLine, deviceInited, signalling} \subseteq BOOLEAN
    <=> /\ started \in BOOLEAN /\ hbaIS \in BOOLEAN /\ portIS \in BOOLEAN
        /\ irqEnabled \in BOOLEAN /\ sataLine \in BOOLEAN /\ deviceInited \in BOOLEAN
        /\ signalling \in BOOLEAN
OBVIOUS

LEMMA OperationIsWork ==
  ASSUME NEW op \in Queued \cup Plain
  PROVE  OperationWork[op] \in Work
<1>1. /\ prdtRead \in SataSteps /\ prdtWrite \in SataSteps /\ read \in SataSteps
      /\ write \in SataSteps /\ flush \in SataSteps /\ _readDMADone \in SataSteps
  BY DEF SataSteps
<1>2. /\ readDMA \in Work /\ writeDMA \in Work /\ flushCache \in Work
      /\ identifyDevice \in Work /\ readNCQ \in Work /\ writeNCQ \in Work
      /\ setMode \in Work /\ readVerify \in Work /\ unsupported \in Work
  BY <1>1, EmptySeq DEF Work, readDMA, writeDMA, flushCache, identifyDevice, readNCQ,
                        writeNCQ, setMode, readVerify, unsupported
<1>3. /\ OperationWork["readDMA"] = readDMA /\ OperationWork["writeDMA"] = writeDMA
      /\ OperationWork["flushCache"] = flushCache
      /\ OperationWork["identifyDevice"] = identifyDevice
      /\ OperationWork["setMode"] = setMode /\ OperationWork["readVerify"] = readVerify
      /\ OperationWork["unsupported"] = unsupported
      /\ OperationWork["readNCQ"] = readNCQ /\ OperationWork["writeNCQ"] = writeNCQ
  BY DEF OperationWork
<1> QED
  BY <1>2, <1>3 DEF Queued, Plain

LEMMA SataInitInv == SataInit => SataInv
<1> SUFFICES ASSUME SataInit PROVE SataInv
  OBVIOUS
<1>1. SataTypeOK
  <2>1. {started, hbaIS, portIS, irqEnabled, sataLine, deviceInited, signalling}
          \subseteq BOOLEAN
    BY SataBooleans, Zenon DEF SataInit
  <2>2. /\ sataRequests \in Seq(Command) /\ sataResponses \in Seq(Response)
        /\ commands \in Seq([op : Queued \cup Plain, slot : Slots])
    BY EmptySeq, Zenon DEF SataInit
  <2>3. resets \in 0 .. MaxResets
    <3>1. resets = 0 /\ MaxResets \in Nat
      BY SataAssumption, Zenon DEF SataInit
    <3> QED
      BY <3>1
  <2>4. /\ ci = {} /\ sact = {} /\ sataEvent = "none" /\ fetching = {} /\ reading = {}
        /\ ncqJobs = {} /\ steps = [c \in Command |-> <<>>] /\ answered = {}
        /\ fisWrites = 0 /\ owner = [s \in Slots |-> NoCommand] /\ sataDriver = "idle"
    BY Zenon DEF SataInit
  <2>5. \A c \in Command : Len(steps[c]) <= 3
    BY <2>4, EmptySeq
  <2>6. owner \in [Slots -> Command \cup {NoCommand}] /\ fisWrites \in Nat
    BY <2>4
  <2>7. sataDriver \in {"idle", "booting", "acknowledge", "complete"}
        /\ sataEvent \in {"none", "work", "request"}
    BY <2>4
  <2>8. /\ ci \subseteq Slots \cup {0} /\ sact \subseteq Slots /\ fetching \subseteq Command
        /\ reading \subseteq Command \X {"request", "prdt"} /\ ncqJobs \subseteq Command
        /\ answered \subseteq Command
    BY <2>4
  <2> QED
    BY <2>1, <2>2, <2>3, <2>5, <2>6, <2>7, <2>8, Zenon DEF SataTypeOK, Response
<1>2. steps \in [Command -> Work]
  <2>1. <<>> \in Work
    BY EmptySeq DEF Work
  <2> QED
    BY <2>1, Zenon DEF SataInit
<1>3. Known
  <2>1. /\ commands = <<>> /\ sataRequests = <<>> /\ sataResponses = <<>> /\ fetching = {}
        /\ ncqJobs = {} /\ reading = {} /\ steps = [c \in Command |-> <<>>]
    BY Zenon DEF SataInit
  <2>2. Len(<<>>) = 0 /\ ToSet(<<>>) = {}
    BY EmptySeq DEF ToSet
  <2> QED
    BY <2>1, <2>2, SataAssumption DEF Known
<1>4. Announced
  <2>1. resets = 0 /\ sataResponses = <<>> /\ ~signalling
    BY Zenon DEF SataInit
  <2>2. ~(resets > 0)
    BY <2>1
  <2> QED
    BY <2>1, <2>2, Zenon DEF Announced, ResponseWakes
<1> QED
  BY <1>1, <1>2, <1>3, <1>4 DEF SataInv

\* What an action leaves alone stays announced, and so does what it announces.
LEMMA AnnouncedKept ==
  ASSUME Announced,
         UNCHANGED <<sataResponses, fisWrites, signalling, deviceInited, resets, irqEnabled,
                     sataLine, hbaIS, sataDriver>>
  PROVE  Announced'
BY Zenon DEF Announced, ResponseWakes

LEMMA AnnouncedByWrite ==
  ASSUME Announced, fisWrites' > 0, UNCHANGED <<deviceInited, resets, irqEnabled>>
  PROVE  Announced'
BY Zenon DEF Announced, ResponseWakes

\* A FIS is submitted: it is queued, and one is written.
LEMMA SubmitFacts ==
  ASSUME SataInv, NEW resp \in Response, resp.func <= Len(commands), submitFIS(resp)
  PROVE  /\ sataResponses' \in Seq(Response)
         /\ \A r \in ToSet(sataResponses') : r.func <= Len(commands)
         /\ fisWrites' \in Nat /\ fisWrites' > 0
<1>1. sataResponses \in Seq(Response) /\ fisWrites \in Nat
  BY Zenon DEF SataInv, SataTypeOK, Response
<1>2. sataResponses' = Append(sataResponses, resp) /\ fisWrites' = fisWrites + 1
  BY DEF submitFIS
<1>3. ToSet(sataResponses') = ToSet(sataResponses) \cup {resp}
  BY <1>1, <1>2, AppendSet
<1>4. \A r \in ToSet(sataResponses) : r.func <= Len(commands)
  BY DEF SataInv, Known
<1> QED
  BY <1>1, <1>2, <1>3, <1>4, AppendProperties

\* What is known of a command that was issued.
LEMMA CommandFacts ==
  ASSUME SataInv, NEW c \in Command, c <= Len(commands)
  PROVE  /\ commands[c].op \in Queued \cup Plain /\ commands[c].slot \in Slots
         /\ D2H(c, NoCommand) \in Response /\ D2H(c, c) \in Response
         /\ DMASetup \in Response /\ SetDeviceBits \in Response
         /\ D2H(c, NoCommand).func = NoCommand /\ D2H(c, c).func = c
         /\ DMASetup.func = NoCommand /\ SetDeviceBits.func = NoCommand
         /\ Len(commands) \in Nat /\ NoCommand <= Len(commands)
<1>1. commands \in Seq([op : Queued \cup Plain, slot : Slots])
  BY Zenon DEF SataInv, SataTypeOK
<1>2. Len(commands) \in Nat /\ c \in 1 .. Len(commands)
  BY <1>1, LenProperties DEF Command
<1>3. commands[c] \in [op : Queued \cup Plain, slot : Slots]
  BY <1>1, <1>2, ElementOfSeq
<1> QED
  BY <1>2, <1>3 DEF D2H, DMASetup, SetDeviceBits, Completion, Response, NoCommand

\* The last FIS of a command.
LEMMA AnswerFacts ==
  ASSUME SataInv, NEW c \in Command, c <= Len(commands), Answer(c)
  PROVE  /\ answered' = answered \cup {c} /\ answered' \subseteq Command
         /\ sact' \subseteq Slots
         /\ sataResponses' \in Seq(Response)
         /\ \A r \in ToSet(sataResponses') : r.func <= Len(commands)
         /\ fisWrites' \in Nat /\ fisWrites' > 0
<1>1. /\ commands[c].slot \in Slots
      /\ D2H(c, NoCommand) \in Response /\ D2H(c, NoCommand).func <= Len(commands)
      /\ SetDeviceBits \in Response /\ SetDeviceBits.func <= Len(commands)
  BY CommandFacts
<1>2. sact \subseteq Slots /\ answered \subseteq Command
  BY Zenon DEF SataInv, SataTypeOK
<1>3. \/ submitFIS(SetDeviceBits) /\ sact' = sact \ {commands[c].slot}
      \/ submitFIS(D2H(c, NoCommand)) /\ sact' = sact
  BY DEF Answer
<1>4. answered' = answered \cup {c}
  BY DEF Answer
<1> QED
  BY <1>1, <1>2, <1>3, <1>4, SubmitFacts

\* A request is fetched.
LEMMA SataFetchInv == SataInv /\ handleRequest => SataInv'
<1> SUFFICES ASSUME SataInv, handleRequest PROVE SataInv'
  OBVIOUS
<1>1. /\ UNCHANGED <<ci, sact, started, hbaIS, portIS, irqEnabled, sataLine, deviceInited,
                     sataResponses, reading, ncqJobs, steps, answered, fisWrites, signalling,
                     commands, owner, sataDriver, resets>>
      /\ sataEvent' \in {"none", "work", "request"}
  BY DEF handleRequest, registers, driver
<1>2. /\ sataRequests \in Seq(Command) /\ fetching \subseteq Command
      /\ \A c \in ToSet(sataRequests) : c <= Len(commands)
  BY Zenon DEF SataInv, SataTypeOK, Known
<1>3. /\ sataRequests' \in Seq(Command) /\ fetching' \subseteq Command
      /\ ToSet(sataRequests') \subseteq ToSet(sataRequests)
      /\ fetching' \subseteq fetching \cup ToSet(sataRequests)
  <2>1. CASE sataRequests = <<>>
    BY <1>2, <2>1 DEF handleRequest
  <2>2. CASE sataRequests # <<>>
    BY <1>2, <2>2, HeadTailSet DEF handleRequest
  <2> QED
    BY <2>1, <2>2
<1>4. SataTypeOK'
  BY <1>1, <1>3, Zenon DEF SataInv, SataTypeOK
<1>5. Known'
  BY <1>1, <1>3 DEF SataInv, Known
<1>6. Announced'
  BY <1>1, AnnouncedKept DEF SataInv
<1> QED
  BY <1>1, <1>4, <1>5, <1>6, Zenon DEF SataInv

\* The tables of a command are read, one after the other.
LEMMA SataTablesInv ==
  ASSUME SataInv, NEW c \in Command, NEW part \in {"request", "prdt"},
         submitCommand(c) \/ ReadTable(c, part)
  PROVE  SataInv'
<1>1. /\ UNCHANGED <<ci, sact, started, hbaIS, portIS, irqEnabled, sataLine, deviceInited,
                     sataRequests, sataResponses, sataEvent, ncqJobs, steps, answered,
                     fisWrites, signalling, commands, owner, sataDriver, resets>>
  BY DEF submitCommand, ReadTable, registers, driver
<1>2. /\ fetching' \subseteq fetching
      /\ \/ reading' \subseteq reading
         \/ c \in fetching /\ reading' \subseteq reading \cup {<<c, "request">>, <<c, "prdt">>}
  BY DEF submitCommand, ReadTable
<1>3. fetching \subseteq Command /\ reading \subseteq Command \X {"request", "prdt"}
  BY Zenon DEF SataInv, SataTypeOK
<1>4. /\ fetching' \subseteq Command /\ reading' \subseteq Command \X {"request", "prdt"}
  BY <1>2, <1>3
<1>5. SataTypeOK'
  BY <1>1, <1>4, Zenon DEF SataInv, SataTypeOK
<1>6. Known'
  <2>1. \A r \in reading' : r[1] <= Len(commands)
    BY <1>2 DEF SataInv, Known
  <2> QED
    BY <1>1, <1>2, <2>1 DEF SataInv, Known
<1>7. Announced'
  BY <1>1, AnnouncedKept DEF SataInv
<1> QED
  BY <1>1, <1>5, <1>6, <1>7, Zenon DEF SataInv

\* The operation starts; without any step it is answered at once.
LEMMA SataRequestInv ==
  ASSUME SataInv, NEW c \in Command, NEW part \in {"request", "prdt"}, doRequest(c, part)
  PROVE  SataInv'
<1>1. /\ UNCHANGED <<ci, started, hbaIS, portIS, irqEnabled, sataLine, deviceInited,
                     sataRequests, sataEvent, fetching, signalling, commands, owner,
                     sataDriver, resets>>
      /\ <<c, part>> \in reading /\ reading' \subseteq reading
      /\ ncqJobs' \subseteq ncqJobs \cup {c}
      /\ \/ steps' = steps
         \/ steps' = [steps EXCEPT ![c] = OperationWork[commands[c].op]]
      /\ Answer(c) \/ UNCHANGED <<answered, sataResponses, fisWrites, sact>>
  BY DEF doRequest, driver
<1>2. c <= Len(commands)
  <2>1. <<c, part>>[1] <= Len(commands)
    BY <1>1 DEF SataInv, Known
  <2> QED
    BY <2>1
<1>3. /\ ncqJobs \subseteq Command /\ reading \subseteq Command \X {"request", "prdt"}
      /\ steps \in [Command -> Work] /\ answered \subseteq Command /\ sact \subseteq Slots
      /\ sataResponses \in Seq(Response) /\ fisWrites \in Nat
  BY Zenon DEF SataInv, SataTypeOK, Response
<1>4. /\ ncqJobs' \subseteq Command /\ reading' \subseteq Command \X {"request", "prdt"}
  BY <1>1, <1>3
<1>5. steps' \in [Command -> Work]
  BY <1>1, <1>2, <1>3, CommandFacts, OperationIsWork
<1>6. /\ answered' \subseteq Command /\ sact' \subseteq Slots
      /\ sataResponses' \in Seq(Response) /\ fisWrites' \in Nat
      /\ \A r \in ToSet(sataResponses') : r.func <= Len(commands)
  BY <1>1, <1>2, <1>3, AnswerFacts DEF SataInv, Known
<1>7. SataTypeOK'
  <2>1. \A x \in Command : Len(steps'[x]) <= 3
    BY <1>5 DEF Work
  <2> QED
    BY <1>1, <1>4, <1>6, <2>1, Zenon DEF SataInv, SataTypeOK, Response
<1>8. Known'
  <2>1. \A x \in Command : steps'[x] # <<>> => x <= Len(commands)
    BY <1>1, <1>2, <1>3 DEF SataInv, Known
  <2> QED
    BY <1>1, <1>2, <1>6, <2>1 DEF SataInv, Known
<1>9. Announced'
  BY <1>1, <1>2, AnswerFacts, AnnouncedKept, AnnouncedByWrite DEF SataInv
<1> QED
  BY <1>5, <1>7, <1>8, <1>9 DEF SataInv

\* The command of a queued transfer is accepted.
LEMMA NCQAcceptedInv ==
  ASSUME SataInv, NEW c \in Command, NCQAccepted(c)
  PROVE  SataInv'
<1>1. /\ UNCHANGED <<ci, sact, started, hbaIS, portIS, irqEnabled, sataLine, deviceInited,
                     sataRequests, sataEvent, fetching, reading, steps, answered, signalling,
                     commands, owner, sataDriver, resets>>
      /\ c \in ncqJobs /\ ncqJobs' = ncqJobs \ {c}
      /\ submitFIS(D2H(c, c)) \/ submitFIS(D2H(c, NoCommand))
  BY DEF NCQAccepted, registers, driver
<1>2. c <= Len(commands)
  BY <1>1 DEF SataInv, Known
<1>3. /\ sataResponses' \in Seq(Response) /\ fisWrites' \in Nat /\ fisWrites' > 0
      /\ \A r \in ToSet(sataResponses') : r.func <= Len(commands)
  BY <1>1, <1>2, CommandFacts, SubmitFacts
<1>4. ncqJobs' \subseteq Command
  <2>1. ncqJobs \subseteq Command
    BY Zenon DEF SataInv, SataTypeOK
  <2> QED
    BY <1>1, <2>1
<1>5. SataTypeOK'
  BY <1>1, <1>3, <1>4, Zenon DEF SataInv, SataTypeOK, Response
<1>6. Known'
  BY <1>1, <1>3 DEF SataInv, Known
<1>7. Announced'
  BY <1>1, <1>3, AnnouncedByWrite DEF SataInv
<1> QED
  BY <1>1, <1>5, <1>6, <1>7, Zenon DEF SataInv

\* A step of the work ends; the last one is answered.
LEMMA SataStepInv ==
  ASSUME SataInv, NEW c \in Command, NextStep(c) \/ LastStep(c)
  PROVE  SataInv'
<1>1. /\ UNCHANGED <<ci, started, hbaIS, portIS, irqEnabled, sataLine, deviceInited,
                     sataRequests, sataEvent, fetching, reading, ncqJobs, signalling,
                     commands, owner, sataDriver, resets>>
      /\ \/ Len(steps[c]) > 1 /\ steps' = [steps EXCEPT ![c] = Tail(steps[c])]
         \/ Len(steps[c]) = 1 /\ steps' = [steps EXCEPT ![c] = <<>>]
      /\ \/ Answer(c)
         \/ submitFIS(DMASetup) /\ UNCHANGED <<answered, sact>>
         \/ UNCHANGED <<answered, sataResponses, fisWrites, sact>>
  BY DEF NextStep, LastStep, registers, driver, _readDMASetup
<1>2. /\ steps \in [Command -> Work] /\ answered \subseteq Command /\ sact \subseteq Slots
      /\ sataResponses \in Seq(Response) /\ fisWrites \in Nat
      /\ \A r \in ToSet(sataResponses) : r.func <= Len(commands)
  BY Zenon DEF SataInv, SataTypeOK, Response, Known
<1>3. steps[c] \in Seq(SataSteps) /\ steps[c] # <<>> /\ Len(steps[c]) <= 3
  BY <1>1, <1>2, EmptySeq DEF Work
<1>4. c <= Len(commands)
  BY <1>3 DEF SataInv, Known
<1>5. Tail(steps[c]) \in Work /\ <<>> \in Work
  <2>1. /\ Tail(steps[c]) \in Seq(SataSteps) /\ Len(Tail(steps[c])) = Len(steps[c]) - 1
        /\ Len(steps[c]) \in Nat
    BY <1>3, HeadTailProperties, LenProperties
  <2>2. \A n \in Nat : n <= 3 => n - 1 <= 3
    OBVIOUS
  <2>3. Len(Tail(steps[c])) <= 3
    BY <1>3, <2>1, <2>2, Zenon
  <2> QED
    BY <2>1, <2>3, EmptySeq DEF Work
<1>6. steps' \in [Command -> Work]
  BY <1>1, <1>2, <1>5
<1>7. /\ answered' \subseteq Command /\ sact' \subseteq Slots
      /\ sataResponses' \in Seq(Response) /\ fisWrites' \in Nat
      /\ \A r \in ToSet(sataResponses') : r.func <= Len(commands)
      /\ fisWrites' > 0 \/ UNCHANGED <<sataResponses, fisWrites>>
  BY <1>1, <1>2, <1>4, AnswerFacts, SubmitFacts, CommandFacts
<1>8. SataTypeOK'
  <2>1. \A x \in Command : Len(steps'[x]) <= 3
    BY <1>6 DEF Work
  <2> QED
    BY <1>1, <1>7, <2>1, Zenon DEF SataInv, SataTypeOK, Response
<1>9. Known'
  <2>1. \A x \in Command : steps'[x] # <<>> => x <= Len(commands)
    BY <1>1, <1>2, <1>4 DEF SataInv, Known
  <2> QED
    BY <1>1, <1>7, <2>1 DEF SataInv, Known
<1>10. Announced'
  BY <1>1, <1>7, AnnouncedKept, AnnouncedByWrite DEF SataInv
<1> QED
  BY <1>6, <1>8, <1>9, <1>10 DEF SataInv

\* A FIS is in the memory of the host: the interrupt takes over from the write.
LEMMA FISInv == SataInv /\ SataFISes => SataInv'
<1> SUFFICES ASSUME SataInv, SataFISes PROVE SataInv'
  OBVIOUS
<1>1. /\ UNCHANGED <<ci, sact, started, irqEnabled, deviceInited, sataRequests, sataResponses,
                     sataEvent, fetching, reading, ncqJobs, steps, answered, commands, owner,
                     sataDriver, resets>>
      /\ fisWrites' = fisWrites - 1
  BY DEF SataFISes, FISWritten, SignalWritten, device, driver
<1>2. /\ portIS' /\ hbaIS'
      /\ sataLine' \in BOOLEAN /\ signalling' \in BOOLEAN /\ portIS' \in BOOLEAN
      /\ hbaIS' \in BOOLEAN /\ (irqEnabled => sataLine')
  BY SataBooleans, Zenon DEF SataInv, SataTypeOK, SataFISes, FISWritten, SignalWritten
<1>3. fisWrites' \in Nat /\ (signalling' => fisWrites' > 0)
  <2>1. fisWrites \in Nat /\ (signalling => fisWrites > 0)
    BY Zenon DEF SataInv, SataTypeOK, Announced
  <2>2. CASE FISWritten
    <3>1. fisWrites > (IF signalling THEN 1 ELSE 0) /\ signalling' = signalling
      BY <2>2, Zenon DEF FISWritten
    <3>2. CASE signalling
      <4>1. fisWrites > 1
        BY <3>1, <3>2, Zenon
      <4> QED
        BY <1>1, <2>1, <4>1
    <3>3. CASE ~signalling
      <4>1. fisWrites > 0
        BY <3>1, <3>3, Zenon
      <4>2. fisWrites' \in Nat
        BY <1>1, <2>1, <4>1
      <4> QED
        BY <3>1, <3>3, <4>2, Zenon
    <3> QED
      BY <3>2, <3>3
  <2>3. CASE SignalWritten
    <3>1. signalling /\ ~signalling'
      BY <2>3, Zenon DEF SignalWritten
    <3>2. fisWrites > 0
      BY <2>1, <3>1, Zenon
    <3>3. fisWrites' \in Nat
      BY <1>1, <2>1, <3>2
    <3> QED
      BY <3>1, <3>3, Zenon
  <2> QED
    BY <2>2, <2>3 DEF SataFISes
<1>4. SataTypeOK'
  <2>1. {started, hbaIS, portIS, irqEnabled, sataLine, deviceInited, signalling}'
          \subseteq BOOLEAN
    BY <1>1, <1>2, SataBooleans, Zenon DEF SataInv, SataTypeOK
  <2> QED
    BY <1>1, <1>3, <2>1, Zenon DEF SataInv, SataTypeOK
<1>5. Known'
  BY <1>1, Zenon DEF SataInv, Known
<1>6. Announced'
  BY <1>1, <1>2, <1>3, Zenon DEF SataInv, Announced, ResponseWakes
<1> QED
  BY <1>1, <1>4, <1>5, <1>6, Zenon DEF SataInv

\* What the driver writes to bring the adapter up and to start and stop the port.
LEMMA SataBringUpInv ==
  SataInv /\ (ResetHBA \/ EnableInterrupts \/ StartPort \/ StopPort) => SataInv'
<1> SUFFICES ASSUME SataInv, ResetHBA \/ EnableInterrupts \/ StartPort \/ StopPort
             PROVE  SataInv'
  OBVIOUS
<1>1. /\ UNCHANGED <<ci, sact, sataRequests, sataResponses, fetching, reading, ncqJobs, steps,
                     answered, fisWrites, signalling, commands, owner, sataDriver>>
      /\ sataEvent' \in {"none", "work", "request"}
  BY Zenon DEF ResetHBA, EnableInterrupts, StartPort, StopPort, device, driver, SataInv,
               SataTypeOK
<1>2. /\ started' \in BOOLEAN /\ hbaIS' \in BOOLEAN /\ portIS' \in BOOLEAN
      /\ irqEnabled' \in BOOLEAN /\ sataLine' \in BOOLEAN /\ deviceInited' \in BOOLEAN
  BY SataBooleans, Zenon DEF ResetHBA, EnableInterrupts, StartPort, StopPort, SataInv,
                             SataTypeOK, driver
<1>3. /\ resets' \in 0 .. MaxResets /\ (resets' = resets \/ ResetHBA)
  <2>1. resets \in 0 .. MaxResets /\ MaxResets \in Nat
    BY SataAssumption, Zenon DEF SataInv, SataTypeOK
  <2>2. resets' = resets \/ (resets' = resets + 1 /\ resets < MaxResets /\ ResetHBA)
    BY DEF ResetHBA, EnableInterrupts, StartPort, StopPort, driver
  <2> QED
    BY <2>1, <2>2
<1>4. SataTypeOK'
  <2>1. {started, hbaIS, portIS, irqEnabled, sataLine, deviceInited, signalling}'
          \subseteq BOOLEAN
    BY <1>1, <1>2, SataBooleans, Zenon DEF SataInv, SataTypeOK
  <2> QED
    BY <1>1, <1>3, <2>1, Zenon DEF SataInv, SataTypeOK
<1>5. Known'
  BY <1>1, Zenon DEF SataInv, Known
<1>6. Announced'
  <2>1. CASE ResetHBA
    <3>1. ~irqEnabled' /\ ~deviceInited'
      BY <2>1, Zenon DEF ResetHBA
    <3> QED
      BY <1>1, <3>1, Zenon DEF SataInv, Announced, ResponseWakes
  <2>2. CASE EnableInterrupts
    <3>1. resets > 0 /\ ~irqEnabled /\ irqEnabled' /\ deviceInited' = deviceInited
      BY <2>2, Zenon DEF EnableInterrupts
    <3>2. ~deviceInited'
      BY <3>1, Zenon DEF SataInv, Announced
    <3> QED
      BY <1>1, <3>2, Zenon DEF SataInv, Announced, ResponseWakes
  <2>3. CASE StartPort \/ StopPort
    <3>1. UNCHANGED <<deviceInited, resets, irqEnabled, sataLine, hbaIS>>
      BY <2>3 DEF StartPort, StopPort, driver
    <3> QED
      BY <1>1, <3>1, AnnouncedKept DEF SataInv
  <2> QED
    BY <2>1, <2>2, <2>3
<1> QED
  BY <1>1, <1>4, <1>5, <1>6, Zenon DEF SataInv

\* The device resets and sends its signature.
LEMMA COMRESETInv == SataInv /\ COMRESET => SataInv'
<1> SUFFICES ASSUME SataInv, COMRESET PROVE SataInv'
  OBVIOUS
<1> DEFINE signature == Completion("D2H", 0, NoCommand)
<1>1. /\ UNCHANGED <<ci, sact, started, hbaIS, portIS, irqEnabled, sataLine, sataRequests,
                     sataEvent, fetching, reading, ncqJobs, steps, answered, commands, owner,
                     resets>>
      /\ submitFIS(signature) /\ sataDriver' = "booting"
  BY DEF COMRESET, registers, device, submitFIS
<1>2. irqEnabled /\ signalling' /\ deviceInited' /\ signalling' \in BOOLEAN
        /\ deviceInited' \in BOOLEAN
  BY Zenon DEF COMRESET
<1>3. signature \in Response /\ signature.func <= Len(commands)
  <2>1. Len(commands) \in Nat
    <3>1. commands \in Seq([op : Queued \cup Plain, slot : Slots])
      BY Zenon DEF SataInv, SataTypeOK
    <3> QED
      BY <3>1, LenProperties
  <2> QED
    BY <2>1 DEF Completion, Response, NoCommand
<1> HIDE DEF signature
<1>4. /\ sataResponses' \in Seq(Response) /\ fisWrites' \in Nat /\ fisWrites' > 0
      /\ \A r \in ToSet(sataResponses') : r.func <= Len(commands)
  BY <1>1, <1>3, SubmitFacts
<1>5. SataTypeOK'
  <2>1. {started, hbaIS, portIS, irqEnabled, sataLine, deviceInited, signalling}'
          \subseteq BOOLEAN
    BY <1>1, <1>2, SataBooleans, Zenon DEF SataInv, SataTypeOK
  <2>2. sataDriver' \in {"idle", "booting", "acknowledge", "complete"}
    BY <1>1
  <2> QED
    BY <1>1, <1>4, <2>1, <2>2, Zenon DEF SataInv, SataTypeOK, Response
<1>6. Known'
  BY <1>1, <1>4, Zenon DEF SataInv, Known
<1>7. Announced'
  BY <1>1, <1>2, <1>4, Zenon DEF Announced, ResponseWakes
<1> QED
  BY <1>1, <1>5, <1>6, <1>7, Zenon DEF SataInv

\* The driver issues a command.
LEMMA IssueSataInv ==
  ASSUME SataInv, NEW so \in SataOperations, IssueSata(so[1], so[2])
  PROVE  SataInv'
<1> DEFINE s == so[1]
           op == so[2]
           c == Len(commands) + 1
<1>1. /\ UNCHANGED <<started, hbaIS, portIS, irqEnabled, sataLine, deviceInited,
                     sataResponses, sataEvent, fetching, reading, ncqJobs, steps, answered,
                     fisWrites, signalling, sataDriver, resets>>
      /\ Len(commands) < MaxCommands
      /\ commands' = Append(commands, [op |-> op, slot |-> s])
      /\ owner' = [owner EXCEPT ![s] = c]
      /\ sact' \subseteq sact \cup {s} /\ ci' = ci \cup {s}
      /\ sataRequests' = sataRequests \/ sataRequests' = Append(sataRequests, c)
  BY DEF IssueSata, device
<1>2. s \in Slots /\ op \in Queued \cup Plain /\ MaxCommands \in Nat
  BY SataAssumption
<1>3. /\ commands \in Seq([op : Queued \cup Plain, slot : Slots])
      /\ sataRequests \in Seq(Command) /\ owner \in [Slots -> Command \cup {NoCommand}]
      /\ ci \subseteq Slots \cup {0} /\ sact \subseteq Slots
  BY Zenon DEF SataInv, SataTypeOK
<1> HIDE DEF s, op
<1>4. /\ commands' \in Seq([op : Queued \cup Plain, slot : Slots])
      /\ Len(commands') = Len(commands) + 1 /\ Len(commands) \in Nat
  <2>1. [op |-> op, slot |-> s] \in [op : Queued \cup Plain, slot : Slots]
    BY <1>2
  <2> QED
    BY <1>1, <1>3, <2>1, AppendProperties, LenProperties
<1>5. c \in Command /\ Len(commands') <= MaxCommands
  <2>1. \A n \in Nat : n < MaxCommands => n + 1 \in 1 .. MaxCommands
    BY <1>2
  <2>2. Len(commands) + 1 \in 1 .. MaxCommands
    BY <1>1, <1>4, <2>1, Zenon
  <2> QED
    BY <1>2, <1>4, <2>2 DEF Command
<1> HIDE DEF c
<1>6. /\ sataRequests' \in Seq(Command)
      /\ ToSet(sataRequests') \subseteq ToSet(sataRequests) \cup {c}
  <2>1. CASE sataRequests' = sataRequests
    BY <1>3, <2>1
  <2>2. CASE sataRequests' = Append(sataRequests, c)
    <3>1. /\ Append(sataRequests, c) \in Seq(Command)
          /\ ToSet(Append(sataRequests, c)) = ToSet(sataRequests) \cup {c}
      <4>1. sataRequests \in Seq(Command) /\ c \in Command
        BY <1>3, <1>5, Zenon
      <4> QED
        BY <4>1, AppendSet
    <3> QED
      BY <2>2, <3>1
  <2> QED
    BY <1>1, <2>1, <2>2
<1>7. /\ owner' \in [Slots -> Command \cup {NoCommand}]
      /\ ci' \subseteq Slots \cup {0} /\ sact' \subseteq Slots
  BY <1>1, <1>2, <1>3, <1>5
<1>8. SataTypeOK'
  BY <1>1, <1>4, <1>6, <1>7, Zenon DEF SataInv, SataTypeOK
<1>9. Known'
  <2>1. c <= Len(commands')
    BY <1>4 DEF c
  <2>2. \A n \in Command : n <= Len(commands) => n <= Len(commands')
    BY <1>2, <1>4 DEF Command
  <2>3. /\ ToSet(sataRequests) \subseteq Command /\ fetching \subseteq Command
        /\ ncqJobs \subseteq Command /\ \A r \in reading : r[1] \in Command
    <3>1. /\ fetching \subseteq Command /\ ncqJobs \subseteq Command
          /\ reading \subseteq Command \X {"request", "prdt"}
      BY Zenon DEF SataInv, SataTypeOK
    <3>2. ToSet(sataRequests) \subseteq Command
      BY <1>3, LenProperties, ElementOfSeq DEF ToSet
    <3> QED
      BY <3>1, <3>2
  <2>4. \A r \in ToSet(sataResponses) : r.func <= Len(commands')
    <3>1. sataResponses \in Seq(Response)
      BY Zenon DEF SataInv, SataTypeOK, Response
    <3>2. \A r \in ToSet(sataResponses) : r \in Response
      BY <3>1, LenProperties, ElementOfSeq DEF ToSet
    <3>3. \A r \in ToSet(sataResponses) : r.func \in Int /\ r.func <= Len(commands)
      BY <1>2, <3>2 DEF SataInv, Known, Response, NoCommand, Command
    <3>4. \A n \in Int : n <= Len(commands) => n <= Len(commands')
      BY <1>4
    <3> QED
      BY <3>3, <3>4
  <2>5. \A x \in Command : steps'[x] # <<>> => x <= Len(commands')
    BY <1>1, <2>2 DEF SataInv, Known
  <2>6. \A x \in ToSet(sataRequests') \cup fetching' \cup ncqJobs' : x <= Len(commands')
    BY <1>1, <1>6, <2>1, <2>2, <2>3 DEF SataInv, Known
  <2>7. \A r \in reading' : r[1] <= Len(commands')
    BY <1>1, <2>2, <2>3 DEF SataInv, Known
  <2> QED
    BY <1>1, <1>5, <2>4, <2>5, <2>6, <2>7, Zenon DEF Known
<1>10. Announced'
  BY <1>1, AnnouncedKept DEF SataInv
<1> QED
  BY <1>1, <1>8, <1>9, <1>10, Zenon DEF SataInv

\* The interrupt handler acknowledges the front of the queue: the next response is sent.
LEMMA AcknowledgeInv == SataInv /\ AcknowledgeFIS => SataInv'
<1> SUFFICES ASSUME SataInv, AcknowledgeFIS PROVE SataInv'
  OBVIOUS
<1>1. /\ UNCHANGED <<sact, started, hbaIS, irqEnabled, deviceInited, sataRequests, sataEvent,
                     fetching, reading, ncqJobs, answered, signalling, commands, owner,
                     resets>>
      /\ sataDriver' = "complete"
  BY DEF AcknowledgeFIS
<1>2. portIS' \in BOOLEAN /\ sataLine' \in BOOLEAN
  <2>1. sataLine \in BOOLEAN
    BY SataBooleans, Zenon DEF SataInv, SataTypeOK
  <2>2. sataLine' = sataLine \/ sataLine' = FALSE
    BY DEF AcknowledgeFIS
  <2> QED
    BY <2>1, <2>2, Zenon DEF AcknowledgeFIS
<1>3. /\ sataResponses \in Seq(Response) /\ fisWrites \in Nat /\ ci \subseteq Slots \cup {0}
      /\ steps \in [Command -> Work]
  BY Zenon DEF SataInv, SataTypeOK, Response
<1>4. /\ ci' \subseteq ci /\ sataResponses' \in Seq(Response) /\ fisWrites' \in Nat
      /\ steps' \in [Command -> Work]
      /\ fisWrites' >= fisWrites
      /\ fisWrites' > 0 \/ sataResponses' = <<>>
      /\ \A r \in ToSet(sataResponses') : r.func <= Len(commands)
      /\ \A x \in Command : steps'[x] # <<>> => x <= Len(commands)
  <2>1. CASE sataResponses = <<>>
    BY <1>3, <2>1 DEF AcknowledgeFIS, SataInv, Known
  <2>2. CASE sataResponses # <<>>
    <3> DEFINE front == Head(sataResponses)
               rest == Tail(sataResponses)
               sent == IF rest = <<>> THEN 0 ELSE 1
    <3>1. /\ rest \in Seq(Response) /\ front \in Response
          /\ front \in ToSet(sataResponses) /\ ToSet(rest) \subseteq ToSet(sataResponses)
      BY <1>3, <2>2, HeadTailSet
    <3>2. front.func <= Len(commands) /\ \A r \in ToSet(rest) : r.func <= Len(commands)
      BY <3>1 DEF SataInv, Known
    <3>3. /\ ci' = ci \ {front.slotIndex}
          /\ \/ /\ front.func = NoCommand
                /\ sataResponses' = rest /\ fisWrites' = fisWrites + sent /\ steps' = steps
             \/ /\ front.func # NoCommand
                /\ sataResponses' = Append(rest, DMASetup)
                /\ fisWrites' = fisWrites + sent + 1
                /\ steps' = [steps EXCEPT ![front.func] = writeNCQ]
      BY <2>2 DEF AcknowledgeFIS
    <3>4. sent \in Nat /\ (rest # <<>> => sent = 1)
      OBVIOUS
    <3> HIDE DEF front, rest, sent
    <3>5. CASE front.func = NoCommand
      <4>1. fisWrites' \in Nat /\ fisWrites' >= fisWrites /\ (fisWrites' > 0 \/ rest = <<>>)
        BY <1>3, <3>3, <3>4, <3>5
      <4> QED
        BY <1>3, <3>1, <3>2, <3>3, <3>5, <4>1 DEF SataInv, Known
    <3>6. CASE front.func # NoCommand
      <4>1. front.func \in Command
        BY <3>1, <3>6 DEF Response
      <4>2. DMASetup \in Response /\ DMASetup.func <= Len(commands)
        BY <3>2, <4>1, CommandFacts
      <4>3. sataResponses' \in Seq(Response) /\ ToSet(sataResponses') = ToSet(rest) \cup {DMASetup}
        <5>1. sataResponses' = Append(rest, DMASetup)
          BY <3>3, <3>6
        <5>2. rest \in Seq(Response) /\ DMASetup \in Response
          BY <3>1, <4>2
        <5> QED
          BY <5>1, <5>2, AppendSet, Zenon
      <4>4. fisWrites' \in Nat /\ fisWrites' >= fisWrites /\ fisWrites' > 0
        BY <1>3, <3>3, <3>4, <3>6
      <4>5. writeNCQ \in Work
        <5>1. OperationWork["writeNCQ"] \in Work
          BY OperationIsWork DEF Queued
        <5> QED
          BY <5>1 DEF OperationWork
      <4>6. /\ steps' \in [Command -> Work]
            /\ \A x \in Command : steps'[x] # <<>> => x <= Len(commands)
        BY <1>3, <3>2, <3>3, <3>6, <4>1, <4>5 DEF SataInv, Known
      <4> QED
        BY <3>2, <3>3, <4>2, <4>3, <4>4, <4>6
    <3> QED
      BY <3>5, <3>6
  <2> QED
    BY <2>1, <2>2
<1>5. SataTypeOK'
  <2>1. {started, hbaIS, portIS, irqEnabled, sataLine, deviceInited, signalling}'
          \subseteq BOOLEAN
    BY <1>1, <1>2, SataBooleans, Zenon DEF SataInv, SataTypeOK
  <2>2. \A x \in Command : Len(steps'[x]) <= 3
    BY <1>4 DEF Work
  <2>3. ci' \subseteq Slots \cup {0}
        /\ sataDriver' \in {"idle", "booting", "acknowledge", "complete"}
    BY <1>1, <1>3, <1>4
  <2> QED
    BY <1>1, <1>4, <2>1, <2>2, <2>3, Zenon DEF SataInv, SataTypeOK, Response
<1>6. Known'
  BY <1>1, <1>4, Zenon DEF SataInv, Known
<1>7. Announced'
  <2>1. signalling' => fisWrites' > 0
    <3>1. signalling' => fisWrites > 0
      BY <1>1, Zenon DEF SataInv, Announced
    <3>2. fisWrites > 0 => fisWrites' > 0
      BY <1>3, <1>4
    <3> QED
      BY <3>1, <3>2, Zenon
  <2> QED
    BY <1>1, <1>4, <2>1, Zenon DEF SataInv, Announced, ResponseWakes
<1> QED
  BY <1>4, <1>5, <1>6, <1>7 DEF SataInv

\* The other two steps of the handler.
LEMMA SataHandlerInv == SataInv /\ SataHandler => SataInv'
<1> SUFFICES ASSUME SataInv, EnterHandler \/ CompleteSata PROVE SataInv'
  BY AcknowledgeInv DEF SataHandler
<1>1. /\ UNCHANGED <<ci, sact, started, portIS, irqEnabled, sataLine, deviceInited,
                     sataRequests, sataResponses, sataEvent, fetching, reading, ncqJobs, steps,
                     answered, fisWrites, signalling, commands, resets>>
      /\ \/ sataDriver' = "acknowledge" /\ hbaIS' = FALSE /\ owner' = owner
         \/ /\ sataDriver = "complete" /\ sataDriver' = "idle" /\ hbaIS' = hbaIS
            /\ owner' = [s \in Slots |-> IF s \in ci \cup sact THEN owner[s] ELSE NoCommand]
  BY DEF EnterHandler, CompleteSata, registers, device
<1>2. owner' \in [Slots -> Command \cup {NoCommand}]
  <2>1. owner \in [Slots -> Command \cup {NoCommand}]
    BY Zenon DEF SataInv, SataTypeOK
  <2> QED
    BY <1>1, <2>1
<1>3. sataDriver' \in {"idle", "booting", "acknowledge", "complete"}
  BY <1>1
<1>4. SataTypeOK'
  <2>1. {started, hbaIS, portIS, irqEnabled, sataLine, deviceInited, signalling}'
          \subseteq BOOLEAN
    BY <1>1, SataBooleans, Zenon DEF SataInv, SataTypeOK
  <2> QED
    BY <1>1, <1>2, <1>3, <2>1, Zenon DEF SataInv, SataTypeOK
<1>5. Known'
  BY <1>1, Zenon DEF SataInv, Known
<1>6. Announced'
  <2>1. \/ sataDriver' = "acknowledge"
        \/ sataDriver # "acknowledge" /\ hbaIS' = hbaIS
    BY <1>1
  <2> QED
    BY <1>1, <2>1, Zenon DEF SataInv, Announced, ResponseWakes
<1> QED
  BY <1>1, <1>4, <1>5, <1>6, Zenon DEF SataInv

LEMMA SataNextInv == SataInv /\ SataNext => SataInv'
BY SataFetchInv, SataTablesInv, SataRequestInv, NCQAcceptedInv, SataStepInv, FISInv,
   SataBringUpInv, COMRESETInv, IssueSataInv, SataHandlerInv
   DEF SataNext, SataCommand, SataHost

LEMMA SataStutterInv == SataInv /\ UNCHANGED sataVars => SataInv'
<1> SUFFICES ASSUME SataInv, UNCHANGED sataVars PROVE SataInv'
  OBVIOUS
<1>1. UNCHANGED <<ci, sact, started, hbaIS, portIS, irqEnabled, sataLine, deviceInited,
                  sataRequests, sataResponses, sataEvent, fetching, reading, ncqJobs, steps,
                  answered, fisWrites, signalling, commands, owner, sataDriver, resets>>
  BY DEF sataVars, registers, device, driver
<1> QED
  BY <1>1, Zenon DEF SataInv, SataTypeOK, Known, Announced, ResponseWakes

\* The invariant of the SATA adapter holds of the host interface.
LEMMA SataInvariantHolds == Spec => []SataInv
<1>1. Init => SataInv
  BY SataInitInv DEF Init
<1>2. SataInv /\ [Next]_vars => SataInv'
  BY SataNextInv, SataStutterInv DEF Next, Sata, Ufs, Nvme, vars
<1> QED
  BY <1>1, <1>2, PTL DEF Spec

\* The registers, queues and contexts of the SATA adapter have their types.
THEOREM SataTypeCorrect == Spec => []SataTypeOK
<1>1. SataInv => SataTypeOK
  BY DEF SataInv
<1> QED
  BY <1>1, SataInvariantHolds, PTL

\* Whichever FISes arrive between the steps of the driver's interrupt handler, and
\* although each acknowledgement lowers the interrupt line: a response in lResponseQueue
\* has a FIS on its way to the host, a raised interrupt, or a handler that is about to
\* write PxIS.
THEOREM ResponseAlwaysWakes == Spec => []ResponseWakes
<1>1. SataInv => ResponseWakes
  BY DEF SataInv, Announced
<1> QED
  BY <1>1, SataInvariantHolds, PTL

-----------------------------------------------------------------------------
(* The promise to the driver: a step of either interface is a step of      *)
(* CommandSlots, or no step of it.                                         *)

\* What CommandSlots allows of the slots, from f to g.
Moves(f, g) ==
  \/ g = f
  \/ \E s \in Slots : f[s] = "free" /\ g = [f EXCEPT ![s] = "issued"]
  \/ \E s \in Slots : f[s] = "issued" /\ g = [f EXCEPT ![s] = "worked"]
  \/ \E given \in SUBSET Slots :
       /\ given # {} /\ \A s \in given : f[s] = "worked"
       /\ g = [s \in Slots |-> IF s \in given THEN "free" ELSE f[s]]

\* A slot of UFS is issued from the doorbell on until its descriptor is written.
UfsStateOf(s) == IF issued[s] = "" THEN "free"
                 ELSE IF s \in utrldbr /\ ~Occurs(s, ufsResponses) THEN "issued" ELSE "worked"

LEMMA UfsSlotStates ==
  /\ UfsInv => ufsSlotState = [s \in Slots |-> UfsStateOf(s)]
  /\ UfsInv' => ufsSlotState' = [s \in Slots |-> UfsStateOf(s)']
<1>1. ASSUME UfsInv PROVE ufsSlotState = [s \in Slots |-> UfsStateOf(s)]
  <2>1. \A s \in Slots :
          s \in utrldbr /\ ~Occurs(s, ufsResponses)
            <=> s \in ToSet(ufsRequests) \cup {t[1] : t \in tables} \/ stages[s] # <<>>
    <3>1. \A s \in Slots :
            s \in utrldbr /\ ~Occurs(s, ufsResponses)
              <=> Occurs(s, ufsRequests) \/ InTables(s) \/ Staged(s)
      BY <1>1, Zenon DEF UfsInv, Places, Rung
    <3>2. \A s : s \in ToSet(ufsRequests) <=> Occurs(s, ufsRequests)
      BY Zenon DEF ToSet, Occurs
    <3>3. \A s : s \in {t[1] : t \in tables} <=> InTables(s)
      BY Zenon DEF InTables
    <3> QED
      BY <3>1, <3>2, <3>3, Zenon DEF Staged
  <2> QED
    BY <2>1 DEF ufsSlotState, UfsStateOf
<1>2. ASSUME UfsInv' PROVE ufsSlotState' = [s \in Slots |-> UfsStateOf(s)']
  <2>1. \A s \in Slots :
          s \in utrldbr' /\ ~Occurs(s, ufsResponses')
            <=> s \in ToSet(ufsRequests') \cup {t[1] : t \in tables'} \/ stages'[s] # <<>>
    <3>1. \A s \in Slots :
            s \in utrldbr' /\ ~Occurs(s, ufsResponses')
              <=> Occurs(s, ufsRequests') \/ InTables(s)' \/ Staged(s)'
      BY <1>2, Zenon DEF UfsInv, Places, Rung
    <3>2. \A s : s \in ToSet(ufsRequests') <=> Occurs(s, ufsRequests')
      BY Zenon DEF ToSet, Occurs
    <3>3. \A s : s \in {t[1] : t \in tables'} <=> InTables(s)'
      BY Zenon DEF InTables
    <3> QED
      BY <3>1, <3>2, <3>3, Zenon DEF Staged
  <2> QED
    BY <2>1 DEF ufsSlotState, UfsStateOf
<1> QED
  BY <1>1, <1>2

LEMMA UfsMoves == UfsInv /\ UfsNext => Moves(ufsSlotState, ufsSlotState')
<1> SUFFICES ASSUME UfsInv, UfsNext PROVE Moves(ufsSlotState, ufsSlotState')
  OBVIOUS
<1>1. /\ ufsSlotState = [s \in Slots |-> UfsStateOf(s)]
      /\ ufsSlotState' = [s \in Slots |-> UfsStateOf(s)']
  BY UfsSlotStates, UfsStepInv
<1>2. ASSUME \A s \in Slots : UfsStateOf(s)' = UfsStateOf(s)
      PROVE  Moves(ufsSlotState, ufsSlotState')
  BY <1>1, <1>2 DEF Moves
<1>3. CASE UNCHANGED <<issued, utrldbr, ufsResponses>>
  <2>1. \A s \in Slots : UfsStateOf(s)' = UfsStateOf(s)
    BY <1>3, Zenon DEF UfsStateOf
  <2> QED
    BY <1>2, <2>1
<1>4. CASE completion
  <2>1. /\ issued' = issued /\ utrldbr' = utrldbr \ ToSet(ufsResponses) /\ ufsResponses' = <<>>
    BY <1>4 DEF completion, ufsDriverVars
  <2>2. \A s \in Slots : s \in utrldbr' /\ ~Occurs(s, ufsResponses')
                           <=> s \in utrldbr /\ ~Occurs(s, ufsResponses)
    BY <2>1 DEF Occurs, ToSet
  <2>3. \A s \in Slots : UfsStateOf(s)' = UfsStateOf(s)
    BY <2>1, <2>2, Zenon DEF UfsStateOf
  <2> QED
    BY <1>2, <2>3
<1>5. ASSUME NEW s \in Slots, DescriptorWritten(s) PROVE Moves(ufsSlotState, ufsSlotState')
  <2>1. /\ UNCHANGED <<issued, utrldbr>> /\ stages[s] = <<"status">>
        /\ ufsResponses' = Append(ufsResponses, s)
    BY <1>5 DEF DescriptorWritten, ufsDriverVars
  <2>2. Staged(s) /\ ~Occurs(s, ufsResponses) /\ s \in utrldbr /\ issued[s] # ""
    <3>1. Staged(s)
      BY <2>1 DEF Staged
    <3> QED
      BY <3>1, Zenon DEF UfsInv, Places, Rung
  <2>3. \A x : Occurs(x, ufsResponses') <=> Occurs(x, ufsResponses) \/ x = s
    BY <2>1, <2>2, AppendQueue DEF UfsInv, UfsTypeOK, Places
  <2>4. UfsStateOf(s) = "issued"
    BY <2>2 DEF UfsStateOf
  <2>5. \A x \in Slots : UfsStateOf(x)' = IF x = s THEN "worked" ELSE UfsStateOf(x)
    BY <2>1, <2>2, <2>3 DEF UfsStateOf
  <2> QED
    BY <1>1, <2>4, <2>5 DEF Moves
<1>6. ASSUME NEW s \in Slots, NEW op \in UfsOperations, IssueUfs(s, op)
      PROVE  Moves(ufsSlotState, ufsSlotState')
  <2>1. /\ ufsResponses' = ufsResponses /\ issued[s] = "" /\ issued' = [issued EXCEPT ![s] = op]
        /\ utrldbr' = utrldbr \cup {s}
    BY <1>6 DEF IssueUfs
  <2>2. s \notin utrldbr /\ ~Occurs(s, ufsResponses) /\ op # "" /\ DOMAIN issued = Slots
    BY <2>1, WorkIsStages DEF UfsInv, UfsTypeOK, Rung, Places
  <2>3. UfsStateOf(s) = "free"
    BY <2>1 DEF UfsStateOf
  <2>4. \A x \in Slots : UfsStateOf(x)' = IF x = s THEN "issued" ELSE UfsStateOf(x)
    BY <2>1, <2>2 DEF UfsStateOf
  <2> QED
    BY <1>1, <2>3, <2>4 DEF Moves
<1>7. CASE CompleteUfs
  <2>1. UNCHANGED <<utrldbr, ufsResponses>>
    BY <1>7 DEF CompleteUfs
  <2>2. CASE issued' = issued
    BY <1>3, <2>1, <2>2
  <2>3. CASE issued' = [s \in Slots |-> IF s \in utrldbr THEN issued[s] ELSE ""]
    <3> DEFINE given == {s \in Slots : issued[s] # "" /\ s \notin utrldbr}
    <3>1. \A s \in given : UfsStateOf(s) = "worked"
      BY DEF UfsStateOf
    <3>2. \A s \in Slots : UfsStateOf(s)' = IF s \in given THEN "free" ELSE UfsStateOf(s)
      BY <2>1, <2>3 DEF UfsStateOf
    <3>3. CASE given = {}
      BY <1>2, <3>2, <3>3
    <3>4. CASE given # {}
      <4>1. given \in SUBSET Slots
        OBVIOUS
      <4> HIDE DEF given
      <4>2. \A s \in given : ufsSlotState[s] = "worked"
        BY <1>1, <3>1, <4>1
      <4>3. ufsSlotState' = [s \in Slots |-> IF s \in given THEN "free" ELSE ufsSlotState[s]]
        BY <1>1, <3>2
      <4> QED
        BY <3>4, <4>1, <4>2, <4>3 DEF Moves
    <3> QED
      BY <3>3, <3>4
  <2> QED
    BY <1>7, <2>2, <2>3 DEF CompleteUfs
<1>8. CASE \/ \E event \in {"work", "request"} : ufsHandleRequest(event)
           \/ \E s \in Slots : \/ processUTPCommand(s) \/ NextStage(s)
                               \/ \E part \in {"request", "prdt"} : TableRead(s, part)
           \/ \E opcode \in {"DME_LINKSTARTUP", "DME_GET"} : UICCommand(opcode)
           \/ ReadIS \/ ClearIS
  <2>1. UNCHANGED <<issued, utrldbr, ufsResponses>>
    BY <1>8 DEF ufsHandleRequest, processUTPCommand, NextStage, TableRead, UICCommand, ReadIS,
                ClearIS, ufsDriverVars
  <2> QED
    BY <1>3, <2>1
<1> QED
  BY <1>4, <1>5, <1>6, <1>7, <1>8 DEF UfsNext, UfsSlot, UfsHostSteps, UfsHandler

-----------------------------------------------------------------------------
(* SATA: where a command is, and what the registers show of its slot.      *)

\* A response whose func goes on with a command, and one that clears the bit of a slot.
\* A queued write has one of the first sort, and a slot other than 0 one of the second.
SetsUp(c, q) == \E k \in DOMAIN q : q[k].func = c
Speaks(s, q) == \E k \in DOMAIN q : q[k].slotIndex = s
Apart(q) ==
  \A j, k \in DOMAIN q : j # k =>
    /\ q[j].func = q[k].func => q[j].func = NoCommand
    /\ q[j].slotIndex = q[k].slotIndex => q[j].slotIndex = 0

LEMMA RespondQueue ==
  ASSUME NEW q \in Seq(Response), NEW r \in Response, Apart(q),
         r.func = NoCommand \/ ~SetsUp(r.func, q), r.slotIndex = 0 \/ ~Speaks(r.slotIndex, q)
  PROVE  /\ Append(q, r) \in Seq(Response) /\ Apart(Append(q, r))
         /\ \A c : SetsUp(c, Append(q, r)) <=> SetsUp(c, q) \/ c = r.func
         /\ \A s : Speaks(s, Append(q, r)) <=> Speaks(s, q) \/ s = r.slotIndex
<1> DEFINE a == Append(q, r)
<1>1. /\ Len(q) \in Nat /\ DOMAIN q = 1 .. Len(q) /\ a \in Seq(Response)
      /\ DOMAIN a = 1 .. Len(q) + 1 /\ a[Len(q) + 1] = r
      /\ \A i \in 1 .. Len(q) : a[i] = q[i]
  BY LenProperties, AppendProperties
<1> HIDE DEF a
<1>2. \A i \in DOMAIN a : (i \in DOMAIN q /\ a[i] = q[i]) \/ (i = Len(q) + 1 /\ a[i] = r)
  BY <1>1
<1>3. DOMAIN q \subseteq DOMAIN a /\ Len(q) + 1 \in DOMAIN a /\ \A i \in DOMAIN q : a[i] = q[i]
  BY <1>1
<1>4. \A c : SetsUp(c, a) <=> SetsUp(c, q) \/ c = r.func
  BY <1>1, <1>2, <1>3, Zenon DEF SetsUp
<1>5. \A s : Speaks(s, a) <=> Speaks(s, q) \/ s = r.slotIndex
  BY <1>1, <1>2, <1>3, Zenon DEF Speaks
<1>6. Apart(a)
  <2> SUFFICES ASSUME NEW j \in DOMAIN a, NEW k \in DOMAIN a, j # k
               PROVE  /\ a[j].func = a[k].func => a[j].func = NoCommand
                      /\ a[j].slotIndex = a[k].slotIndex => a[j].slotIndex = 0
    BY DEF Apart
  <2>1. CASE j \in DOMAIN q /\ k \in DOMAIN q
    BY <1>3, <2>1 DEF Apart
  <2>2. CASE j \notin DOMAIN q \/ k \notin DOMAIN q
    BY <1>2, <2>2 DEF SetsUp, Speaks
  <2> QED
    BY <2>1, <2>2
<1> QED
  BY <1>1, <1>4, <1>5, <1>6 DEF a

LEMMA PopQueue ==
  ASSUME NEW q \in Seq(Response), q # <<>>, Apart(q)
  PROVE  /\ Tail(q) \in Seq(Response) /\ Apart(Tail(q)) /\ Head(q) \in Response
         /\ SetsUp(Head(q).func, q) /\ Speaks(Head(q).slotIndex, q)
         /\ \A c : SetsUp(c, Tail(q)) => SetsUp(c, q)
         /\ \A c : c # NoCommand => (SetsUp(c, Tail(q)) <=> SetsUp(c, q) /\ c # Head(q).func)
         /\ \A s : s # 0 => (Speaks(s, Tail(q)) <=> Speaks(s, q) /\ s # Head(q).slotIndex)
<1> DEFINE h == Head(q)
           r == Tail(q)
<1>1. /\ Len(q) \in Nat \ {0} /\ DOMAIN q = 1 .. Len(q)
      /\ h = q[1] /\ h \in Response
      /\ r \in Seq(Response) /\ Len(r) = Len(q) - 1
      /\ \A i \in 1 .. Len(r) : r[i] = q[i + 1]
  BY EmptySeq, LenProperties, HeadTailProperties
<1>2. DOMAIN r = 1 .. Len(q) - 1
  BY <1>1, LenProperties
<1> HIDE DEF h, r
<1>3. \A i \in DOMAIN r : i + 1 \in DOMAIN q /\ i + 1 # 1 /\ r[i] = q[i + 1]
  BY <1>1, <1>2
<1>4. \A i \in DOMAIN q : i # 1 => i - 1 \in DOMAIN r /\ r[i - 1] = q[i]
  BY <1>1, <1>2
<1>5. 1 \in DOMAIN q
  BY <1>1
<1>6. Apart(r)
  <2> SUFFICES ASSUME NEW j \in DOMAIN r, NEW k \in DOMAIN r, j # k
               PROVE  /\ r[j].func = r[k].func => r[j].func = NoCommand
                      /\ r[j].slotIndex = r[k].slotIndex => r[j].slotIndex = 0
    BY DEF Apart
  <2>1. j + 1 # k + 1
    BY <1>2
  <2> QED
    BY <1>3, <2>1 DEF Apart
<1>7. /\ SetsUp(h.func, q) /\ Speaks(h.slotIndex, q)
      /\ \A c : SetsUp(c, r) => SetsUp(c, q)
  BY <1>1, <1>3, <1>5 DEF SetsUp, Speaks
<1>8. ASSUME NEW c, c # NoCommand PROVE SetsUp(c, r) <=> SetsUp(c, q) /\ c # h.func
  <2>1. ASSUME SetsUp(c, r) PROVE SetsUp(c, q) /\ c # h.func
    BY <1>1, <1>3, <1>5, <1>8, <2>1 DEF SetsUp, Apart
  <2>2. ASSUME SetsUp(c, q), c # h.func PROVE SetsUp(c, r)
    BY <1>1, <1>4, <2>2 DEF SetsUp
  <2> QED
    BY <2>1, <2>2
<1>9. ASSUME NEW s, s # 0 PROVE Speaks(s, r) <=> Speaks(s, q) /\ s # h.slotIndex
  <2>1. ASSUME Speaks(s, r) PROVE Speaks(s, q) /\ s # h.slotIndex
    BY <1>1, <1>3, <1>5, <1>9, <2>1 DEF Speaks, Apart
  <2>2. ASSUME Speaks(s, q), s # h.slotIndex PROVE Speaks(s, r)
    BY <1>1, <1>4, <2>2 DEF Speaks
  <2> QED
    BY <2>1, <2>2
<1> QED
  BY <1>1, <1>6, <1>7, <1>8, <1>9 DEF h, r

\* Where a command is on its way, from lRequestQueue to its last FIS.
TablesRead(c) == \E r \in reading : r[1] = c
Early(c) == Occurs(c, sataRequests) \/ c \in fetching \/ TablesRead(c)
Busy(c) == steps[c] # <<>>
Underway(c) ==
  \/ Early(c) \/ SetsUp(c, sataResponses) \/ Busy(c)
  \/ c \in ncqJobs /\ commands[c].op = "writeNCQ"

\* It is in one place; only the job of a queued read runs beside its work.
OneWay(c) ==
  /\ Occurs(c, sataRequests) => c \notin fetching /\ ~TablesRead(c)
  /\ c \in fetching => ~TablesRead(c)
  /\ Early(c) => c \notin ncqJobs /\ ~SetsUp(c, sataResponses) /\ ~Busy(c)
  /\ c \in ncqJobs => /\ commands[c].op \in Queued /\ ~SetsUp(c, sataResponses)
                      /\ Busy(c) => commands[c].op = "readNCQ"
  /\ SetsUp(c, sataResponses) => commands[c].op = "writeNCQ" /\ ~Busy(c)

\* Until its last FIS its slot is its own, and until the D2H FIS that names the slot,
\* the bit of PxCI is set; slot 0 is named by the others, too.
Owned(c) ==
  /\ Underway(c) => c \notin answered /\ owner[commands[c].slot] = c
  /\ Early(c) \/ c \in ncqJobs =>
       \/ commands[c].slot = 0
       \/ /\ owner[commands[c].slot] = c /\ commands[c].slot \in ci
          /\ ~Speaks(commands[c].slot, sataResponses)

\* What is not answered has a bit set in PxSACT when it is queued, in PxCI when it is
\* not: only what is answered is taken for done.
Held(s) ==
  /\ owner[s] # NoCommand => owner[s] <= Len(commands) /\ commands[owner[s]].slot = s
  /\ owner[s] # NoCommand /\ owner[s] \notin answered =>
       \/ commands[owner[s]].op \in Queued /\ s \in sact
       \/ /\ commands[owner[s]].op \in Plain
          /\ s # 0 /\ s \in ci /\ ~Speaks(s, sataResponses)
  /\ s # 0 /\ Speaks(s, sataResponses) => s \in ci /\ owner[s] # NoCommand

SlotsInv ==
  /\ \A c \in answered : c <= Len(commands)
  /\ NoDuplicates(sataRequests) /\ Apart(sataResponses)
  /\ \A c \in Command : c <= Len(commands) => OneWay(c) /\ Owned(c)
  /\ \A s \in Slots : Held(s)

LEMMA SlotsInitInv == SataInit => SlotsInv
<1> SUFFICES ASSUME SataInit PROVE SlotsInv
  OBVIOUS
<1>1. /\ commands = <<>> /\ sataRequests = <<>> /\ sataResponses = <<>> /\ answered = {}
      /\ owner = [s \in Slots |-> NoCommand]
  BY DEF SataInit
<1>2. Len(<<>>) = 0 /\ DOMAIN <<>> = {}
  OBVIOUS
<1>3. \A c \in Command : ~(c <= Len(commands))
  BY <1>1, <1>2, SataAssumption DEF Command
<1>4. NoDuplicates(sataRequests) /\ Apart(sataResponses)
  BY <1>1, <1>2 DEF NoDuplicates, Apart
<1>5. \A s \in Slots : Held(s)
  BY <1>1, <1>2 DEF Held, Speaks
<1> QED
  BY <1>1, <1>3, <1>4, <1>5 DEF SlotsInv

\* What a command that was issued gives to hold on to.
LEMMA SlotFacts ==
  ASSUME SataInv, SlotsInv, NEW c \in Command, c <= Len(commands)
  PROVE  /\ OneWay(c) /\ Owned(c)
         /\ commands[c].slot \in Slots /\ Held(commands[c].slot)
         /\ commands[c].op \in Queued \cup Plain
         /\ c # NoCommand
BY CommandFacts DEF SlotsInv, NoCommand, Command

\* A request is fetched.
LEMMA SlotsFetch == SataInv /\ SlotsInv /\ handleRequest => SlotsInv'
<1> SUFFICES ASSUME SataInv, SlotsInv, handleRequest PROVE SlotsInv'
  OBVIOUS
<1>1. UNCHANGED <<ci, sact, sataResponses, reading, ncqJobs, steps, answered, commands, owner>>
  BY DEF handleRequest, registers, driver
<1>2. CASE sataRequests = <<>>
  <2>1. UNCHANGED <<sataRequests, fetching>>
    BY <1>2 DEF handleRequest
  <2> QED
    BY <1>1, <2>1, Zenon DEF SlotsInv, OneWay, Owned, Held, Underway, Early, TablesRead, Busy
<1>3. CASE sataRequests # <<>>
  <2> DEFINE h == Head(sataRequests)
  <2>1. sataRequests' = Tail(sataRequests) /\ fetching' = fetching \cup {h}
    BY <1>3 DEF handleRequest
  <2>2. /\ NoDuplicates(sataRequests') /\ h \in Command /\ Occurs(h, sataRequests)
        /\ \A x : Occurs(x, sataRequests') <=> Occurs(x, sataRequests) /\ x # h
    <3>1. sataRequests \in Seq(Command) /\ NoDuplicates(sataRequests)
      BY Zenon DEF SataInv, SataTypeOK, SlotsInv
    <3> QED
      BY <1>3, <2>1, <3>1, TailQueue
  <2> HIDE DEF h
  <2>3. \A c : Early(c)' <=> Early(c)
    BY <1>1, <2>1, <2>2 DEF Early, TablesRead
  <2>4. ASSUME NEW c \in Command, c <= Len(commands) PROVE OneWay(c)' /\ Owned(c)'
    <3>1. OneWay(c) /\ Owned(c)
      BY <2>4 DEF SlotsInv
    <3>2. OneWay(c)'
      BY <1>1, <2>1, <2>2, <2>3, <3>1 DEF OneWay, Early, TablesRead, Busy
    <3>3. Owned(c)'
      BY <1>1, <2>3, <3>1, Zenon DEF Owned, Underway, Busy
    <3> QED
      BY <3>2, <3>3
  <2> QED
    BY <1>1, <2>2, <2>4, Zenon DEF SlotsInv, Held
<1> QED
  BY <1>2, <1>3

\* The tables of a command are read, one after the other.
LEMMA SlotsTables ==
  ASSUME SataInv, SlotsInv, NEW c \in Command, NEW part \in {"request", "prdt"},
         submitCommand(c) \/ ReadTable(c, part)
  PROVE  SlotsInv'
<1>1. UNCHANGED <<ci, sact, sataRequests, sataResponses, ncqJobs, steps, answered, commands,
                  owner>>
  BY DEF submitCommand, ReadTable, registers, driver
<1>2. /\ \A x : x \in fetching' => x \in fetching
      /\ \A x : TablesRead(x)' => TablesRead(x) \/ (x = c /\ c \in fetching /\ c \notin fetching')
      /\ \A x : Early(x)' <=> Early(x)
  <2>1. CASE submitCommand(c)
    <3>1. /\ c \in fetching /\ fetching' = fetching \ {c}
          /\ \A r \in reading' : r \in reading \/ r[1] = c
          /\ reading \subseteq reading' /\ <<c, "request">> \in reading'
      BY <2>1 DEF submitCommand
    <3>2. \A x : TablesRead(x)' <=> TablesRead(x) \/ x = c
      BY <3>1 DEF TablesRead
    <3> QED
      BY <1>1, <3>1, <3>2 DEF Early
  <2>2. CASE ReadTable(c, part)
    <3>1. /\ fetching' = fetching /\ reading' = reading \ {<<c, part>>}
          /\ \E other \in reading : other[1] = c /\ other[2] # part
      BY <2>2 DEF ReadTable
    <3>2. PICK other \in reading : other[1] = c /\ other[2] # part
      BY <3>1
    <3>3. other \in reading' /\ <<c, part>>[1] = c
      BY <3>1, <3>2
    <3>4. \A x : TablesRead(x)' <=> TablesRead(x)
      BY <3>1, <3>2, <3>3 DEF TablesRead
    <3> QED
      <4>1. \A x : Occurs(x, sataRequests') <=> Occurs(x, sataRequests)
        BY <1>1
      <4>2. \A x : Early(x)' <=> Early(x)
        BY <3>1, <3>4, <4>1, Zenon DEF Early
      <4> QED
        BY <3>1, <3>4, <4>2
  <2> QED
    BY <2>1, <2>2
<1>3. ASSUME NEW x \in Command, x <= Len(commands) PROVE OneWay(x)' /\ Owned(x)'
  <2>1. OneWay(x) /\ Owned(x)
    BY <1>3 DEF SlotsInv
  <2>2. OneWay(x)'
    BY <1>1, <1>2, <2>1, Zenon DEF OneWay, Busy
  <2>3. Owned(x)'
    BY <1>1, <1>2, <2>1, Zenon DEF Owned, Underway, Busy
  <2> QED
    BY <2>2, <2>3
<1> QED
  BY <1>1, <1>3, Zenon DEF SlotsInv, Held

\* What the last FIS of a command does to the registers and the queue: no command is on
\* its way to the slot any more, and the one that the driver has on it is answered.
LEMMA SlotsAnswer ==
  ASSUME SataInv, SlotsInv, NEW c \in Command, c <= Len(commands), Underway(c),
         ~SetsUp(c, sataResponses), ~Early(c)', ~Busy(c)',
         c \in ncqJobs' => c \in ncqJobs /\ commands[c].op = "readNCQ",
         Answer(c), UNCHANGED <<ci, commands, owner, sataRequests, fetching>>,
         \A x \in Command : x # c => /\ TablesRead(x)' <=> TablesRead(x)
                                     /\ Busy(x)' <=> Busy(x)
                                     /\ x \in ncqJobs' <=> x \in ncqJobs
  PROVE  SlotsInv'
<1> DEFINE s == commands[c].slot
<1>1. /\ OneWay(c) /\ Owned(c) /\ s \in Slots /\ Held(s) /\ c # NoCommand
      /\ commands[c].op \in Queued \cup Plain
  BY SlotFacts
<1>2. c \notin answered /\ owner[s] = c /\ answered' = answered \cup {c}
  BY <1>1 DEF Owned, Answer
<1>3. Apart(sataResponses) /\ sataResponses \in Seq(Response)
  BY Zenon DEF SataInv, SataTypeOK, SlotsInv, Response
<1> DEFINE resp == IF commands[c].op \in Queued THEN SetDeviceBits ELSE D2H(c, NoCommand)
<1>4. /\ resp \in Response /\ resp.func = NoCommand
      /\ resp.slotIndex = 0 \/ (commands[c].op \notin Queued /\ resp.slotIndex = s)
  <2>1. /\ SetDeviceBits \in Response /\ SetDeviceBits.func = NoCommand
        /\ D2H(c, NoCommand) \in Response /\ D2H(c, NoCommand).func = NoCommand
    BY CommandFacts
  <2>2. SetDeviceBits.slotIndex = 0 /\ D2H(c, NoCommand).slotIndex = commands[c].slot
    BY DEF SetDeviceBits, D2H, Completion
  <2>3. CASE commands[c].op \in Queued
    <3>1. resp = SetDeviceBits
      BY <2>3
    <3> HIDE DEF resp
    <3> QED
      BY <2>1, <2>2, <3>1
  <2>4. CASE commands[c].op \notin Queued
    <3>1. resp = D2H(c, NoCommand)
      BY <2>4
    <3> HIDE DEF resp
    <3> QED
      BY <2>1, <2>2, <2>4, <3>1
  <2> QED
    BY <2>3, <2>4
<1>5. /\ sataResponses' = Append(sataResponses, resp)
      /\ sact' = IF commands[c].op \in Queued THEN sact \ {s} ELSE sact
  BY DEF Answer, submitFIS
<1> HIDE DEF s, resp
<1>6. commands[c].op \notin Queued => s # 0 /\ s \in ci /\ ~Speaks(s, sataResponses)
  BY <1>1, <1>2 DEF Held
<1>7. /\ Apart(sataResponses')
      /\ \A x : SetsUp(x, sataResponses') <=> SetsUp(x, sataResponses) \/ x = NoCommand
      /\ \A x : Speaks(x, sataResponses') <=> Speaks(x, sataResponses) \/ x = resp.slotIndex
  <2>1. resp.slotIndex = 0 \/ ~Speaks(resp.slotIndex, sataResponses)
    BY <1>4, <1>6, Zenon
  <2>2. /\ Append(sataResponses, resp) \in Seq(Response) /\ Apart(Append(sataResponses, resp))
        /\ \A x : SetsUp(x, Append(sataResponses, resp)) <=> SetsUp(x, sataResponses) \/ x = resp.func
        /\ \A x : Speaks(x, Append(sataResponses, resp))
                    <=> Speaks(x, sataResponses) \/ x = resp.slotIndex
    BY <1>3, <1>4, <2>1, RespondQueue
  <2> QED
    BY <1>4, <1>5, <2>2
<1>8. ASSUME NEW x \in Command, x <= Len(commands), x # c PROVE OneWay(x)' /\ Owned(x)'
  <2>1. OneWay(x) /\ Owned(x) /\ x # NoCommand
    BY <1>8, SlotFacts
  <2>2. /\ TablesRead(x)' <=> TablesRead(x)
        /\ Busy(x)' <=> Busy(x)
        /\ x \in ncqJobs' <=> x \in ncqJobs
        /\ SetsUp(x, sataResponses') <=> SetsUp(x, sataResponses)
        /\ Early(x)' <=> Early(x)
    <3>1. /\ TablesRead(x)' <=> TablesRead(x)
          /\ Busy(x)' <=> Busy(x)
          /\ x \in ncqJobs' <=> x \in ncqJobs
      BY <1>8, Zenon
    <3>2. SetsUp(x, sataResponses') <=> SetsUp(x, sataResponses)
      BY <1>7, <2>1, Zenon
    <3> QED
      BY <3>1, <3>2, Zenon DEF Early
  <2>3. OneWay(x)'
    BY <2>1, <2>2, Zenon DEF OneWay
  <2>4. Underway(x)' <=> Underway(x)
    BY <2>2, Zenon DEF Underway
  <2>5. Early(x) \/ x \in ncqJobs =>
          \/ commands[x].slot = 0
          \/ ~Speaks(commands[x].slot, sataResponses')
    <3>1. SUFFICES ASSUME Early(x) \/ x \in ncqJobs, commands[x].slot # 0
                   PROVE  ~Speaks(commands[x].slot, sataResponses')
      OBVIOUS
    <3>2. owner[commands[x].slot] = x /\ ~Speaks(commands[x].slot, sataResponses)
      BY <2>1, <3>1 DEF Owned
    <3>3. commands[x].slot # s
      BY <1>2, <1>8, <3>2
    <3> QED
      BY <1>4, <1>7, <3>1, <3>2, <3>3
  <2>6. Owned(x)'
    <3>1. answered' = answered \cup {c} /\ UNCHANGED <<ci, owner, commands>>
      BY <1>2
    <3>2. Underway(x)' => x \notin answered' /\ owner'[commands'[x].slot] = x
      BY <1>8, <2>1, <2>4, <3>1 DEF Owned
    <3> QED
      BY <2>1, <2>2, <2>5, <3>1, <3>2, Zenon DEF Owned
  <2> QED
    BY <2>3, <2>6
<1>9. OneWay(c)' /\ Owned(c)'
  <2>1. ~SetsUp(c, sataResponses')
    BY <1>1, <1>7
  <2>2. ~Underway(c)'
    <3>1. c \in ncqJobs' => commands'[c].op # "writeNCQ"
      OBVIOUS
    <3> QED
      BY <2>1, <3>1, Zenon DEF Underway
  <2>3. Occurs(c, sataRequests') => Early(c)'
    BY DEF Early
  <2>4. c \in fetching' => Early(c)'
    BY DEF Early
  <2>5. OneWay(c)'
    <3>1. c \in ncqJobs' => commands'[c].op \in Queued
      BY DEF Queued
    <3> QED
      BY <2>1, <2>3, <2>4, <3>1, Zenon DEF OneWay
  <2>6. c \in ncqJobs' => \/ commands'[c].slot = 0
                          \/ /\ owner'[commands'[c].slot] = c /\ commands'[c].slot \in ci'
                             /\ ~Speaks(commands'[c].slot, sataResponses')
    <3>1. SUFFICES ASSUME c \in ncqJobs', s # 0
                   PROVE  owner[s] = c /\ s \in ci /\ ~Speaks(s, sataResponses')
      BY DEF s
    <3>2. c \in ncqJobs /\ commands[c].op \in Queued
      BY <3>1 DEF Queued
    <3>3. owner[s] = c /\ s \in ci /\ ~Speaks(s, sataResponses)
      BY <1>1, <3>1, <3>2 DEF Owned, s
    <3>4. resp.slotIndex = 0
      BY <1>4, <3>2
    <3> QED
      BY <1>7, <3>1, <3>3, <3>4
  <2> QED
    BY <2>2, <2>5, <2>6, Zenon DEF Owned
<1>10. ASSUME NEW t \in Slots PROVE Held(t)'
  <2>1. Held(t) /\ UNCHANGED <<ci, owner, commands>>
    BY DEF SlotsInv
  <2>2. CASE t = s
    <3>1. owner'[t] \in answered' /\ owner'[t] # NoCommand /\ owner'[t] <= Len(commands')
      BY <1>1, <1>2, <2>1, <2>2
    <3>2. commands'[owner'[t]].slot = t
      BY <1>2, <2>1, <2>2 DEF s
    <3>3. t # 0 /\ Speaks(t, sataResponses') => t \in ci'
      BY <1>4, <1>6, <1>7, <2>1, <2>2 DEF Held
    <3> QED
      BY <3>1, <3>2, <3>3, Zenon DEF Held
  <2>3. CASE t # s
    <3>1. t # 0 => (Speaks(t, sataResponses') <=> Speaks(t, sataResponses))
      BY <1>4, <1>7, <2>3, Zenon
    <3>2. t \in sact' <=> t \in sact
      BY <1>5, <2>3
    <3>3. owner[t] \notin answered' => owner[t] \notin answered
      BY <1>2
    <3> QED
      BY <2>1, <3>1, <3>2, <3>3, Zenon DEF Held
  <2> QED
    BY <2>2, <2>3
<1>11. \A x \in answered' : x <= Len(commands')
  BY <1>2 DEF SlotsInv
<1>12. NoDuplicates(sataRequests')
  BY Zenon DEF SlotsInv
<1> QED
  BY <1>7, <1>8, <1>9, <1>10, <1>11, <1>12, Zenon DEF SlotsInv

LEMMA OperationWorkFacts ==
  /\ OperationWork["readNCQ"] # <<>> /\ OperationWork["writeNCQ"] # <<>>
  /\ "readNCQ" # "writeNCQ"
BY DEF OperationWork, readNCQ, writeNCQ

\* The operation starts.
LEMMA SlotsRequest ==
  ASSUME SataInv, SlotsInv, NEW c \in Command, NEW part \in {"request", "prdt"},
         doRequest(c, part)
  PROVE  SlotsInv'
<1>1. /\ UNCHANGED <<ci, sataRequests, fetching, commands, owner>>
      /\ <<c, part>> \in reading /\ reading' = reading \ {<<c, part>>}
      /\ \A other \in reading : other[1] = c => other[2] = part
      /\ steps \in [Command -> Work] /\ reading \subseteq Command \X {"request", "prdt"}
  BY Zenon DEF doRequest, driver, SataInv, SataTypeOK
<1>2. TablesRead(c) /\ ~TablesRead(c)' /\ \A x : x # c => (TablesRead(x)' <=> TablesRead(x))
  BY <1>1 DEF TablesRead
<1>3. c <= Len(commands)
  BY <1>2 DEF TablesRead, SataInv, Known
<1>4. OneWay(c) /\ Owned(c) /\ Underway(c)
  BY <1>2, <1>3 DEF SlotsInv, Underway, Early
<1>5. /\ ~Early(c)' /\ ~SetsUp(c, sataResponses) /\ c \notin ncqJobs /\ ~Busy(c)
      /\ \A x : x # c => (Early(x)' <=> Early(x))
  <2>1. /\ ~Occurs(c, sataRequests) /\ c \notin fetching
        /\ ~SetsUp(c, sataResponses) /\ c \notin ncqJobs /\ ~Busy(c)
    BY <1>2, <1>4, Zenon DEF OneWay, Early
  <2>2. \A x : Occurs(x, sataRequests') <=> Occurs(x, sataRequests)
    BY <1>1
  <2>3. fetching' = fetching
    BY <1>1
  <2> QED
    BY <1>2, <2>1, <2>2, <2>3, Zenon DEF Early
<1>6. CASE OperationWork[commands[c].op] = <<>>
  <2>1. Answer(c) /\ commands[c].op \notin Queued
    BY <1>6, OperationWorkFacts DEF doRequest, Queued
  <2>2. /\ ncqJobs' = ncqJobs /\ steps' = [steps EXCEPT ![c] = <<>>]
    BY <1>6, <2>1 DEF doRequest, Queued
  <2>3. ~Busy(c)' /\ \A x \in Command : x # c => (Busy(x)' <=> Busy(x))
    BY <1>1, <2>2 DEF Busy
  <2> QED
    BY <1>1, <1>2, <1>3, <1>4, <1>5, <2>1, <2>2, <2>3, SlotsAnswer
<1>7. CASE OperationWork[commands[c].op] # <<>>
  <2>1. /\ UNCHANGED <<answered, sataResponses, sact>>
        /\ ncqJobs' = IF commands[c].op \in Queued THEN ncqJobs \cup {c} ELSE ncqJobs
        /\ steps' = IF commands[c].op = "writeNCQ" THEN steps
                    ELSE [steps EXCEPT ![c] = OperationWork[commands[c].op]]
    BY <1>7 DEF doRequest
  <2>2. /\ \A x \in Command : x # c => (Busy(x)' <=> Busy(x))
        /\ commands[c].op = "writeNCQ" => ~Busy(c)'
    BY <1>1, <1>5, <2>1 DEF Busy
  <2>3. /\ \A x : x # c => (x \in ncqJobs' <=> x \in ncqJobs)
        /\ c \in ncqJobs' => commands[c].op \in Queued
    BY <1>5, <2>1
  <2>4. ASSUME NEW x \in Command, x <= Len(commands), x # c PROVE OneWay(x)' /\ Owned(x)'
    <3>1. OneWay(x) /\ Owned(x)
      BY <2>4 DEF SlotsInv
    <3>2. /\ Busy(x)' <=> Busy(x)
          /\ Early(x)' <=> Early(x)
          /\ TablesRead(x)' <=> TablesRead(x)
          /\ x \in ncqJobs' <=> x \in ncqJobs
          /\ UNCHANGED <<ci, sataRequests, fetching, commands, owner, sataResponses, answered>>
      BY <1>1, <1>2, <1>5, <2>1, <2>2, <2>3, <2>4
    <3> QED
      BY <3>1, <3>2, Zenon DEF OneWay, Owned, Underway
  <2>5. OneWay(c)'
    <3>1. commands[c].op \in Queued => commands[c].op = "readNCQ" \/ commands[c].op = "writeNCQ"
      BY DEF Queued
    <3>2. /\ ~Early(c)' /\ ~SetsUp(c, sataResponses') /\ commands' = commands
          /\ Occurs(c, sataRequests') => Early(c)'
          /\ c \in fetching' => Early(c)'
      BY <1>1, <1>5, <2>1, Zenon DEF Early
    <3> QED
      BY <2>2, <2>3, <3>1, <3>2, Zenon DEF OneWay
  <2>6. Owned(c)'
    <3>1. /\ c \notin answered /\ owner[commands[c].slot] = c
          /\ \/ commands[c].slot = 0
             \/ commands[c].slot \in ci /\ ~Speaks(commands[c].slot, sataResponses)
      BY <1>2, <1>4, Zenon DEF Owned, Early
    <3>2. UNCHANGED <<ci, commands, owner, sataResponses, answered>>
      BY <1>1, <2>1
    <3> QED
      BY <3>1, <3>2, Zenon DEF Owned
  <2>7. UNCHANGED <<ci, sact, sataRequests, commands, owner, sataResponses, answered>>
    BY <1>1, <2>1
  <2> QED
    BY <2>4, <2>5, <2>6, <2>7, Zenon DEF SlotsInv, Held
<1> QED
  BY <1>6, <1>7

\* A queued command is accepted: the D2H FIS is the one that names its slot.
LEMMA SlotsAccepted ==
  ASSUME SataInv, SlotsInv, NEW c \in Command, NCQAccepted(c)
  PROVE  SlotsInv'
<1> DEFINE s == commands[c].slot
           func == IF commands[c].op = "writeNCQ" THEN c ELSE NoCommand
           resp == D2H(c, func)
<1>1. /\ UNCHANGED <<ci, sact, sataRequests, fetching, reading, steps, answered, commands,
                     owner>>
      /\ c \in ncqJobs /\ ncqJobs' = ncqJobs \ {c} /\ submitFIS(resp)
  BY DEF NCQAccepted, registers, driver
<1>2. c <= Len(commands)
  BY <1>1 DEF SataInv, Known
<1>3. /\ OneWay(c) /\ Owned(c) /\ s \in Slots /\ c # NoCommand
      /\ commands[c].op \in Queued
  BY <1>1, <1>2, SlotFacts DEF OneWay
<1>4. /\ resp \in Response /\ resp.func = func /\ resp.slotIndex = s
  BY <1>2, CommandFacts DEF D2H, Completion
<1>5. func = NoCommand \/ (func = c /\ commands[c].op = "writeNCQ")
  OBVIOUS
<1>6. /\ ~Early(c) /\ ~SetsUp(c, sataResponses)
      /\ commands[c].op = "writeNCQ" => ~Busy(c)
      /\ s = 0 \/ (owner[s] = c /\ s \in ci /\ ~Speaks(s, sataResponses))
  <2>1. "readNCQ" # "writeNCQ"
    OBVIOUS
  <2> QED
    BY <1>1, <1>3, <2>1, Zenon DEF OneWay, Owned
<1>7. sataResponses' = Append(sataResponses, resp)
  BY <1>1 DEF submitFIS
<1> HIDE DEF s, func, resp
<1>8. /\ Apart(sataResponses')
      /\ \A x : SetsUp(x, sataResponses') <=> SetsUp(x, sataResponses) \/ x = func
      /\ \A x : Speaks(x, sataResponses') <=> Speaks(x, sataResponses) \/ x = s
  <2>1. /\ sataResponses \in Seq(Response) /\ Apart(sataResponses)
        /\ resp.func = NoCommand \/ ~SetsUp(resp.func, sataResponses)
        /\ resp.slotIndex = 0 \/ ~Speaks(resp.slotIndex, sataResponses)
    BY <1>4, <1>5, <1>6, Zenon DEF SataInv, SataTypeOK, SlotsInv, Response
  <2>2. /\ Append(sataResponses, resp) \in Seq(Response) /\ Apart(Append(sataResponses, resp))
        /\ \A x : SetsUp(x, Append(sataResponses, resp)) <=> SetsUp(x, sataResponses) \/ x = resp.func
        /\ \A x : Speaks(x, Append(sataResponses, resp))
                    <=> Speaks(x, sataResponses) \/ x = resp.slotIndex
    BY <1>4, <2>1, RespondQueue
  <2> QED
    BY <1>4, <1>7, <2>2
<1>9. \A x : /\ Early(x)' <=> Early(x)
             /\ TablesRead(x)' <=> TablesRead(x)
             /\ Busy(x)' <=> Busy(x)
             /\ x # c => (x \in ncqJobs' <=> x \in ncqJobs)
  BY <1>1 DEF Early, TablesRead, Busy
<1>10. ASSUME NEW x \in Command, x <= Len(commands), x # c PROVE OneWay(x)' /\ Owned(x)'
  <2>1. OneWay(x) /\ Owned(x) /\ x # NoCommand
    BY <1>10, SlotFacts
  <2>2. SetsUp(x, sataResponses') <=> SetsUp(x, sataResponses)
    BY <1>5, <1>8, <1>10, <2>1
  <2>3. UNCHANGED <<ci, sataRequests, fetching, commands, owner, answered>>
    BY <1>1
  <2>4. OneWay(x)'
    BY <1>9, <1>10, <2>1, <2>2, <2>3, Zenon DEF OneWay
  <2>5. Underway(x)' <=> Underway(x)
    BY <1>9, <1>10, <2>2, <2>3, Zenon DEF Underway
  <2>6. Early(x) \/ x \in ncqJobs =>
          \/ commands[x].slot = 0
          \/ ~Speaks(commands[x].slot, sataResponses')
    <3>1. SUFFICES ASSUME Early(x) \/ x \in ncqJobs, commands[x].slot # 0
                   PROVE  ~Speaks(commands[x].slot, sataResponses')
      OBVIOUS
    <3>2. owner[commands[x].slot] = x /\ ~Speaks(commands[x].slot, sataResponses)
      BY <2>1, <3>1 DEF Owned
    <3>3. commands[x].slot # s
      BY <1>6, <1>10, <3>1, <3>2
    <3> QED
      BY <1>8, <3>2, <3>3
  <2> QED
    BY <1>9, <1>10, <2>1, <2>3, <2>4, <2>5, <2>6, Zenon DEF Owned
<1>11. OneWay(c)' /\ Owned(c)'
  <2>1. c \notin ncqJobs' /\ UNCHANGED <<ci, sataRequests, fetching, commands, owner, answered>>
    BY <1>1
  <2>2. ~Early(c)' /\ (Occurs(c, sataRequests') => Early(c)') /\ (c \in fetching' => Early(c)')
    BY <1>6, <1>9, Zenon DEF Early
  <2>3. SetsUp(c, sataResponses') => commands[c].op = "writeNCQ" /\ ~Busy(c)'
    BY <1>3, <1>5, <1>6, <1>8, <1>9
  <2>4. OneWay(c)'
    BY <2>1, <2>2, <2>3, Zenon DEF OneWay
  <2>5. Underway(c)' => Underway(c)
    BY <1>1, <1>9, <2>1, <2>2, <2>3, Zenon DEF Underway
  <2> QED
    BY <1>3, <2>1, <2>2, <2>4, <2>5, Zenon DEF Owned
<1>12. ASSUME NEW t \in Slots PROVE Held(t)'
  <2>1. Held(t) /\ UNCHANGED <<ci, sact, owner, commands, answered>>
    BY <1>1 DEF SlotsInv
  <2>2. CASE t = s
    <3>1. \/ t = 0
          \/ owner[t] = c /\ t \in ci /\ commands[owner[t]].op \in Queued
      BY <1>3, <1>6, <2>2
    <3>2. Queued \cap Plain = {}
      BY DEF Queued, Plain
    <3>3. t # 0 => owner[t] # NoCommand
      BY <1>3, <3>1
    <3> QED
      BY <2>1, <3>1, <3>2, <3>3 DEF Held
  <2>3. CASE t # s
    <3>1. Speaks(t, sataResponses') <=> Speaks(t, sataResponses)
      BY <1>8, <2>3
    <3> QED
      BY <2>1, <3>1, Zenon DEF Held
  <2> QED
    BY <2>2, <2>3
<1>13. UNCHANGED <<sataRequests, commands, answered>>
  BY <1>1
<1> QED
  BY <1>8, <1>10, <1>11, <1>12, <1>13, Zenon DEF SlotsInv

\* A step of the work ends. The transfer of a queued read is announced in between.
LEMMA SlotsSteps ==
  ASSUME SataInv, SlotsInv, NEW c \in Command, NextStep(c) \/ LastStep(c)
  PROVE  SlotsInv'
<1>1. /\ UNCHANGED <<ci, sataRequests, fetching, reading, ncqJobs, commands, owner>>
      /\ steps \in [Command -> Work]
  BY Zenon DEF NextStep, LastStep, registers, driver, SataInv, SataTypeOK
<1>2. /\ \/ Len(steps[c]) > 1 /\ steps' = [steps EXCEPT ![c] = Tail(steps[c])]
         \/ Len(steps[c]) = 1 /\ steps' = [steps EXCEPT ![c] = <<>>]
      /\ \A x \in Command : x # c => (Busy(x)' <=> Busy(x))
  BY <1>1 DEF NextStep, LastStep, Busy
<1>3. Busy(c)
  BY <1>2, EmptySeq DEF Busy
<1>4. c <= Len(commands)
  BY <1>3 DEF Busy, SataInv, Known
<1>5. OneWay(c) /\ Owned(c) /\ Underway(c) /\ ~SetsUp(c, sataResponses) /\ ~Early(c)
      /\ (c \in ncqJobs => commands[c].op = "readNCQ")
  BY <1>3, <1>4, Zenon DEF SlotsInv, Underway, OneWay
<1>6. \A x : /\ Early(x)' <=> Early(x)
             /\ TablesRead(x)' <=> TablesRead(x)
             /\ x \in ncqJobs' <=> x \in ncqJobs
  BY <1>1 DEF Early, TablesRead
<1>7. CASE LastStep(c)
  <2>1. ~Busy(c)' /\ Answer(c)
    BY <1>1, <1>7 DEF LastStep, Busy
  <2> QED
    BY <1>1, <1>2, <1>4, <1>5, <1>6, <2>1, SlotsAnswer
<1>8. CASE NextStep(c)
  <2>1. Busy(c)'
    <3>1. Len(steps[c]) > 1 /\ steps' = [steps EXCEPT ![c] = Tail(steps[c])]
      BY <1>8 DEF NextStep
    <3>2. steps[c] \in Seq(SataSteps)
      BY <1>1 DEF Work
    <3>3. Tail(steps[c]) # <<>>
      BY <3>1, <3>2, TailOfLonger
    <3> QED
      BY <1>1, <3>1, <3>3 DEF Busy
  <2>2. \A x \in Command : Busy(x)' <=> Busy(x)
    BY <1>2, <1>3, <2>1
  <2>3. /\ UNCHANGED <<ci, sact, answered, sataRequests, fetching, commands, owner>>
        /\ sataResponses' = sataResponses \/ sataResponses' = Append(sataResponses, DMASetup)
    BY <1>1, <1>8 DEF NextStep, registers, _readDMASetup, submitFIS
  <2>4. /\ Apart(sataResponses')
        /\ \A x : x # NoCommand => (SetsUp(x, sataResponses') <=> SetsUp(x, sataResponses))
        /\ \A x : x # 0 => (Speaks(x, sataResponses') <=> Speaks(x, sataResponses))
    <3>1. /\ sataResponses \in Seq(Response) /\ Apart(sataResponses) /\ DMASetup \in Response
          /\ DMASetup.func = NoCommand /\ DMASetup.slotIndex = 0
      <4>1. DMASetup \in Response /\ DMASetup.func = NoCommand
        BY <1>4, CommandFacts
      <4>2. DMASetup.slotIndex = 0
        BY DEF DMASetup, Completion
      <4> QED
        BY <4>1, <4>2, Zenon DEF SataInv, SataTypeOK, SlotsInv, Response
    <3>2. /\ Append(sataResponses, DMASetup) \in Seq(Response)
          /\ Apart(Append(sataResponses, DMASetup))
          /\ \A x : SetsUp(x, Append(sataResponses, DMASetup))
                      <=> SetsUp(x, sataResponses) \/ x = NoCommand
          /\ \A x : Speaks(x, Append(sataResponses, DMASetup))
                      <=> Speaks(x, sataResponses) \/ x = 0
      BY <3>1, RespondQueue
    <3> QED
      BY <2>3, <3>1, <3>2, Zenon
  <2>5. ASSUME NEW x \in Command, x <= Len(commands) PROVE OneWay(x)' /\ Owned(x)'
    <3>1. OneWay(x) /\ Owned(x) /\ x # NoCommand
      BY <2>5, SlotFacts
    <3>2. SetsUp(x, sataResponses') <=> SetsUp(x, sataResponses)
      BY <2>4, <3>1
    <3>3. OneWay(x)'
      BY <1>6, <2>2, <2>3, <3>1, <3>2, Zenon DEF OneWay
    <3>4. Underway(x)' <=> Underway(x)
      BY <1>6, <2>2, <2>3, <3>2, Zenon DEF Underway
    <3> QED
      BY <1>6, <2>3, <2>4, <3>1, <3>3, <3>4, Zenon DEF Owned
  <2> QED
    BY <2>3, <2>4, <2>5, Zenon DEF SlotsInv, Held
<1> QED
  BY <1>7, <1>8

\* The front of the queue is acknowledged: it clears the bit of PxCI that it names, and
\* the transfer of a queued write starts if it is what the write waited for.
LEMMA SlotsAcknowledge == SataInv /\ SlotsInv /\ AcknowledgeFIS => SlotsInv'
<1> SUFFICES ASSUME SataInv, SlotsInv, AcknowledgeFIS PROVE SlotsInv'
  OBVIOUS
<1>1. UNCHANGED <<sact, sataRequests, fetching, reading, ncqJobs, answered, commands, owner>>
  BY DEF AcknowledgeFIS
<1>2. CASE sataResponses = <<>>
  <2>1. UNCHANGED <<ci, sataResponses, steps>>
    BY <1>2 DEF AcknowledgeFIS
  <2> QED
    BY <1>1, <2>1, Zenon DEF SlotsInv, OneWay, Owned, Held, Underway, Early, TablesRead, Busy
<1>3. CASE sataResponses # <<>>
  <2> DEFINE front == Head(sataResponses)
             rest == Tail(sataResponses)
  <2>1. /\ sataResponses \in Seq(Response) /\ Apart(sataResponses)
        /\ steps \in [Command -> Work]
    BY Zenon DEF SataInv, SataTypeOK, SlotsInv, Response
  <2>2. /\ rest \in Seq(Response) /\ Apart(rest) /\ front \in Response
        /\ SetsUp(front.func, sataResponses) /\ Speaks(front.slotIndex, sataResponses)
        /\ \A x : x # NoCommand =>
             (SetsUp(x, rest) <=> SetsUp(x, sataResponses) /\ x # front.func)
        /\ \A x : x # 0 =>
             (Speaks(x, rest) <=> Speaks(x, sataResponses) /\ x # front.slotIndex)
    BY <1>3, <2>1, PopQueue
  <2>3. /\ ci' = ci \ {front.slotIndex}
        /\ \/ /\ front.func = NoCommand
              /\ sataResponses' = rest /\ steps' = steps
           \/ /\ front.func # NoCommand
              /\ sataResponses' = Append(rest, DMASetup)
              /\ steps' = [steps EXCEPT ![front.func] = writeNCQ]
    BY <1>3 DEF AcknowledgeFIS
  <2> HIDE DEF front, rest
  <2>4. front.func # NoCommand =>
          /\ front.func \in Command /\ front.func <= Len(commands)
          /\ OneWay(front.func) /\ Owned(front.func)
    <3>1. \E k \in DOMAIN sataResponses : sataResponses[k].func = front.func
      BY <2>2 DEF SetsUp
    <3>2. front.func <= Len(commands)
      BY <3>1 DEF SataInv, Known, ToSet
    <3> QED
      BY <2>2, <3>2 DEF Response, SlotsInv
  <2>5. /\ Apart(sataResponses')
        /\ \A x : x # NoCommand => (SetsUp(x, sataResponses') <=> SetsUp(x, rest))
        /\ \A x : x # 0 => (Speaks(x, sataResponses') <=> Speaks(x, rest))
    <3>1. CASE front.func = NoCommand
      BY <2>2, <2>3, <3>1
    <3>2. CASE front.func # NoCommand
      <4>1. /\ DMASetup \in Response /\ DMASetup.func = NoCommand /\ DMASetup.slotIndex = 0
        <5>1. DMASetup \in Response /\ DMASetup.func = NoCommand
          BY <2>4, <3>2, CommandFacts
        <5>2. DMASetup.slotIndex = 0
          BY DEF DMASetup, Completion
        <5> QED
          BY <5>1, <5>2
      <4>2. /\ Apart(Append(rest, DMASetup))
            /\ \A x : SetsUp(x, Append(rest, DMASetup)) <=> SetsUp(x, rest) \/ x = NoCommand
            /\ \A x : Speaks(x, Append(rest, DMASetup)) <=> Speaks(x, rest) \/ x = 0
        BY <2>2, <4>1, RespondQueue
      <4> QED
        BY <2>3, <3>2, <4>2, Zenon
    <3> QED
      BY <3>1, <3>2
  <2>6. \A x \in Command : Busy(x)' <=> Busy(x) \/ x = front.func
    <3>1. writeNCQ # <<>>
      BY DEF writeNCQ
    <3>2. \A x \in Command : x # NoCommand
      BY DEF Command, NoCommand
    <3> QED
      BY <2>1, <2>3, <2>4, <3>1, <3>2 DEF Busy
  <2>7. \A x : /\ Early(x)' <=> Early(x)
               /\ TablesRead(x)' <=> TablesRead(x)
               /\ x \in ncqJobs' <=> x \in ncqJobs
    BY <1>1 DEF Early, TablesRead
  <2>8. ASSUME NEW x \in Command, x <= Len(commands) PROVE OneWay(x)' /\ Owned(x)'
    <3>1. OneWay(x) /\ Owned(x) /\ x # NoCommand
      BY <2>8, SlotFacts
    <3>2. SetsUp(x, sataResponses') <=> SetsUp(x, sataResponses) /\ x # front.func
      BY <2>2, <2>5, <3>1
    <3>3. x = front.func => /\ SetsUp(x, sataResponses) /\ commands[x].op = "writeNCQ"
                            /\ ~Busy(x) /\ ~Early(x) /\ x \notin ncqJobs
      BY <2>2, <3>1, Zenon DEF OneWay
    <3>4. OneWay(x)'
      <4>1. UNCHANGED <<sataRequests, fetching, commands>>
        BY <1>1
      <4>2. CASE x = front.func
        <5>1. Occurs(x, sataRequests) => Early(x)
          BY DEF Early
        <5>2. x \in fetching => Early(x)
          BY DEF Early
        <5> QED
          BY <2>7, <3>2, <3>3, <4>1, <4>2, <5>1, <5>2, Zenon DEF OneWay
      <4>3. CASE x # front.func
        <5>1. /\ Busy(x)' <=> Busy(x)
              /\ SetsUp(x, sataResponses') <=> SetsUp(x, sataResponses)
          BY <2>6, <3>2, <4>3
        <5> QED
          BY <2>7, <3>1, <4>1, <5>1, Zenon DEF OneWay
      <4> QED
        BY <4>2, <4>3
    <3>5. Underway(x)' <=> Underway(x)
      <4>1. commands' = commands
        BY <1>1
      <4> QED
        BY <2>6, <2>7, <3>2, <3>3, <4>1, Zenon DEF Underway
    <3>6. Early(x) \/ x \in ncqJobs =>
            \/ commands[x].slot = 0
            \/ commands[x].slot \in ci' /\ ~Speaks(commands[x].slot, sataResponses')
      <4>1. SUFFICES ASSUME Early(x) \/ x \in ncqJobs, commands[x].slot # 0
                     PROVE  commands[x].slot \in ci' /\ ~Speaks(commands[x].slot, sataResponses')
        OBVIOUS
      <4>2. commands[x].slot \in ci /\ ~Speaks(commands[x].slot, sataResponses)
        BY <3>1, <4>1, Zenon DEF Owned
      <4>3. commands[x].slot # front.slotIndex
        BY <2>2, <4>2, Zenon
      <4> QED
        BY <2>2, <2>3, <2>5, <4>1, <4>2, <4>3
    <3> QED
      BY <1>1, <2>7, <3>1, <3>4, <3>5, <3>6, Zenon DEF Owned
  <2>9. ASSUME NEW t \in Slots PROVE Held(t)'
    <3>1. Held(t) /\ UNCHANGED <<sact, owner, commands, answered>>
      BY <1>1 DEF SlotsInv
    <3>2. t # 0 => (Speaks(t, sataResponses') <=> Speaks(t, sataResponses) /\ t # front.slotIndex)
      BY <2>2, <2>5
    <3>3. t # 0 /\ t \in ci /\ ~Speaks(t, sataResponses) => t \in ci'
      BY <2>2, <2>3
    <3>4. t # 0 /\ t \in ci /\ t # front.slotIndex => t \in ci'
      BY <2>3
    <3> QED
      BY <3>1, <3>2, <3>3, <3>4, Zenon DEF Held
  <2> QED
    BY <1>1, <2>5, <2>8, <2>9, Zenon DEF SlotsInv
<1> QED
  BY <1>2, <1>3

\* The driver gives back the slots that both registers show clear.
LEMMA SlotsComplete == SataInv /\ SlotsInv /\ CompleteSata => SlotsInv'
<1> SUFFICES ASSUME SataInv, SlotsInv, CompleteSata PROVE SlotsInv'
  OBVIOUS
<1>1. /\ UNCHANGED <<ci, sact, sataRequests, sataResponses, fetching, reading, ncqJobs, steps,
                     answered, commands>>
      /\ owner' = [s \in Slots |-> IF s \in ci \cup sact THEN owner[s] ELSE NoCommand]
  BY DEF CompleteSata, registers, device
<1>2. \A x : /\ Early(x)' <=> Early(x)
             /\ TablesRead(x)' <=> TablesRead(x)
             /\ Busy(x)' <=> Busy(x)
             /\ OneWay(x)' <=> OneWay(x)
             /\ Underway(x)' <=> Underway(x)
  BY <1>1, Zenon DEF Early, TablesRead, Busy, OneWay, Underway
<1>3. ASSUME NEW x \in Command, x <= Len(commands) PROVE OneWay(x)' /\ Owned(x)'
  <2> DEFINE s == commands[x].slot
  <2>1. OneWay(x) /\ Owned(x) /\ s \in Slots /\ Held(s) /\ x # NoCommand
    BY <1>3, SlotFacts
  <2>2. s \in ci \cup sact => owner'[s] = owner[s]
    BY <1>1, <2>1
  <2> HIDE DEF s
  <2>3. Underway(x) => s \in ci \cup sact
    BY <2>1 DEF Owned, Held, s
  <2>4. UNCHANGED <<ci, sataResponses, ncqJobs, commands, answered>>
    BY <1>1
  <2>5. OneWay(x)'
    BY <1>2, <2>1
  <2>6. s \in ci => s \in ci \cup sact
    OBVIOUS
  <2> QED
    BY <1>2, <2>1, <2>2, <2>3, <2>4, <2>5, <2>6, Zenon DEF Owned, s
<1>4. ASSUME NEW t \in Slots PROVE Held(t)'
  <2>1. Held(t) /\ UNCHANGED <<ci, sact, commands, answered, sataResponses>>
    BY <1>1 DEF SlotsInv
  <2>2. owner'[t] = IF t \in ci \cup sact THEN owner[t] ELSE NoCommand
    BY <1>1
  <2> QED
    BY <2>1, <2>2 DEF Held
<1> QED
  BY <1>1, <1>3, <1>4, Zenon DEF SlotsInv

\* The driver uses slot 0 for queued commands only: the responses of other commands
\* name it and would clear its bit in PxCI (the constructor of Completion, hba.cc).
ZeroIsQueued == \A so \in SataOperations : so[1] = 0 => so[2] \in Queued

\* The driver issues a command on a slot that is its own.
LEMMA SlotsIssue ==
  ASSUME SataInv, SlotsInv, ZeroIsQueued, NEW so \in SataOperations, IssueSata(so[1], so[2])
  PROVE  SlotsInv'
<1> DEFINE s == so[1]
           op == so[2]
<1>0. PICK c : c = Len(commands) + 1
  OBVIOUS
<1>1. /\ UNCHANGED <<sataResponses, fetching, reading, ncqJobs, steps, answered>>
      /\ owner[s] = NoCommand
      /\ commands' = Append(commands, [op |-> op, slot |-> s])
      /\ owner' = [owner EXCEPT ![s] = c]
      /\ sact' = IF op \in Queued THEN sact \cup {s} ELSE sact
      /\ ci' = ci \cup {s}
      /\ sataRequests' = sataRequests \/ sataRequests' = Append(sataRequests, c)
  BY <1>0 DEF IssueSata, device
<1>2. s \in Slots /\ op \in Queued \cup Plain /\ (s = 0 => op \in Queued)
  BY SataAssumption DEF ZeroIsQueued
<1>3. /\ commands \in Seq([op : Queued \cup Plain, slot : Slots])
      /\ sataRequests \in Seq(Command) /\ owner \in [Slots -> Command \cup {NoCommand}]
  BY Zenon DEF SataInv, SataTypeOK
<1> HIDE DEF s, op
<1>4. /\ Len(commands') = c /\ Len(commands) \in Nat
      /\ \A x \in 1 .. Len(commands) : commands'[x] = commands[x]
      /\ commands'[c] = [op |-> op, slot |-> s]
  <2>1. [op |-> op, slot |-> s] \in [op : Queued \cup Plain, slot : Slots]
    BY <1>2
  <2> QED
    BY <1>0, <1>1, <1>3, <2>1, AppendProperties, LenProperties
<1>5. c \in Command
  <2>1. commands' \in Seq([op : Queued \cup Plain, slot : Slots]) /\ Len(commands') <= MaxCommands
    BY IssueSataInv, Zenon DEF SataInv, SataTypeOK, Known
  <2> QED
    BY <1>0, <1>4, <2>1, SataAssumption DEF Command
<1>6. /\ \A x \in Command : x <= Len(commands') => (x <= Len(commands) /\ x # c) \/ x = c
      /\ ~(c <= Len(commands))
      /\ \A x \in Command : x <= Len(commands) =>
           /\ x # c /\ x \in 1 .. Len(commands) /\ commands'[x] = commands[x]
           /\ x <= Len(commands')
      /\ commands'[c].op = op /\ commands'[c].slot = s
  <2>1. \A x \in Command : x \in Nat /\ x >= 1
    BY SataAssumption DEF Command
  <2> QED
    BY <1>0, <1>4, <2>1
<1>7. /\ ~Occurs(c, sataRequests) /\ c \notin fetching /\ ~TablesRead(c) /\ c \notin ncqJobs
      /\ ~Busy(c) /\ ~SetsUp(c, sataResponses) /\ c \notin answered
  <2>1. /\ \A x \in ToSet(sataRequests) \cup fetching \cup ncqJobs : x <= Len(commands)
        /\ \A r \in reading : r[1] <= Len(commands)
        /\ \A x \in Command : steps[x] # <<>> => x <= Len(commands)
        /\ \A r \in ToSet(sataResponses) : r.func <= Len(commands)
        /\ \A x \in answered : x <= Len(commands)
    BY Zenon DEF SataInv, Known, SlotsInv
  <2>2. \A x : Occurs(x, sataRequests) => x \in ToSet(sataRequests)
    BY Zenon DEF Occurs, ToSet
  <2>3. \A x : SetsUp(x, sataResponses) => \E r \in ToSet(sataResponses) : r.func = x
    BY Zenon DEF SetsUp, ToSet
  <2> QED
    <3>1. ~Occurs(c, sataRequests) /\ c \notin fetching /\ c \notin ncqJobs
      BY <1>6, <2>1, <2>2
    <3>2. ~TablesRead(c) /\ ~Busy(c)
      BY <1>5, <1>6, <2>1, Zenon DEF TablesRead, Busy
    <3>3. ~SetsUp(c, sataResponses) /\ c \notin answered
      BY <1>6, <2>1, <2>3, Zenon
    <3> QED
      BY <3>1, <3>2, <3>3
<1>8. /\ NoDuplicates(sataRequests')
      /\ \A x : x # c => (Occurs(x, sataRequests') <=> Occurs(x, sataRequests))
  <2>1. NoDuplicates(sataRequests)
    BY DEF SlotsInv
  <2>2. /\ NoDuplicates(Append(sataRequests, c))
        /\ \A x : Occurs(x, Append(sataRequests, c)) <=> Occurs(x, sataRequests) \/ x = c
    BY <1>3, <1>5, <1>7, <2>1, AppendQueue
  <2> QED
    BY <1>1, <2>1, <2>2
<1>9. \A x : /\ x # c => (Early(x)' <=> Early(x))
             /\ TablesRead(x)' <=> TablesRead(x)
             /\ Busy(x)' <=> Busy(x)
  BY <1>1, <1>8, Zenon DEF Early, TablesRead, Busy
<1>10. ASSUME NEW x \in Command, x <= Len(commands) PROVE OneWay(x)' /\ Owned(x)'
  <2>1. /\ OneWay(x) /\ Owned(x) /\ x # c /\ commands'[x] = commands[x]
        /\ commands[x].slot \in Slots /\ x # NoCommand
    BY <1>6, <1>10, SlotFacts
  <2>2. OneWay(x)'
    BY <1>1, <1>8, <1>9, <2>1, Zenon DEF OneWay
  <2>3. Underway(x)' <=> Underway(x)
    BY <1>1, <1>9, <2>1, Zenon DEF Underway
  <2>4. owner[commands[x].slot] = x => owner'[commands[x].slot] = x
    BY <1>1, <1>3, <2>1
  <2>5. commands[x].slot \in ci => commands[x].slot \in ci'
    BY <1>1
  <2> QED
    BY <1>1, <1>9, <2>1, <2>2, <2>3, <2>4, <2>5, Zenon DEF Owned
<1>11. Held(s)
  BY <1>2 DEF SlotsInv
<1>12. s # 0 => ~Speaks(s, sataResponses)
  BY <1>1, <1>11 DEF Held
<1>13. owner'[s] = c /\ s \in ci' /\ (op \in Queued => s \in sact')
  BY <1>1, <1>2, <1>3
<1>14. OneWay(c)' /\ Owned(c)'
  <2>1. UNCHANGED <<fetching, ncqJobs, sataResponses, answered>>
    BY <1>1
  <2>2. OneWay(c)'
    BY <1>7, <1>9, <2>1, Zenon DEF OneWay
  <2>3. commands'[c].slot = s /\ (s = 0 \/ ~Speaks(s, sataResponses'))
    BY <1>6, <1>12, <2>1
  <2> QED
    BY <1>7, <1>13, <2>1, <2>2, <2>3, Zenon DEF Owned
<1>15. ASSUME NEW t \in Slots PROVE Held(t)'
  <2>1. Held(t) /\ UNCHANGED <<sataResponses, answered>>
    BY <1>1 DEF SlotsInv
  <2>2. CASE t = s
    <3>1. owner'[t] = c /\ c <= Len(commands') /\ commands'[c].slot = t /\ commands'[c].op = op
          /\ c # NoCommand
      <4>1. c <= c
        BY <1>0, <1>4
      <4>2. c # NoCommand
        BY <1>5 DEF Command, NoCommand
      <4> QED
        BY <1>4, <1>6, <1>13, <2>2, <4>1, <4>2
    <3>2. \/ op \in Queued /\ t \in sact'
          \/ op \in Plain /\ t # 0 /\ t \in ci' /\ ~Speaks(t, sataResponses')
      BY <1>2, <1>12, <1>13, <2>1, <2>2
    <3>3. t \in ci'
      BY <1>13, <2>2
    <3> QED
      BY <3>1, <3>2, <3>3, Zenon DEF Held
  <2>3. CASE t # s
    <3>1. owner'[t] = owner[t] /\ (t \in sact => t \in sact') /\ (t \in ci => t \in ci')
      BY <1>1, <1>3, <2>3
    <3>2. owner[t] # NoCommand => owner[t] \in Command /\ owner[t] <= Len(commands)
      BY <1>3, <2>1 DEF Held
    <3>3. owner[t] # NoCommand =>
            owner[t] <= Len(commands') /\ commands'[owner[t]] = commands[owner[t]]
      BY <1>6, <3>2
    <3> QED
      BY <2>1, <3>1, <3>3, Zenon DEF Held
  <2> QED
    BY <2>2, <2>3
<1>16. ASSUME NEW x \in answered' PROVE x <= Len(commands')
  <2>1. x \in Command /\ x <= Len(commands)
    <3>1. answered \subseteq Command
      BY Zenon DEF SataInv, SataTypeOK
    <3> QED
      BY <1>1, <3>1 DEF SlotsInv
  <2> QED
    BY <1>6, <2>1
<1>17. Apart(sataResponses')
  BY <1>1, Zenon DEF SlotsInv
<1> QED
  BY <1>6, <1>8, <1>10, <1>14, <1>15, <1>16, <1>17, Zenon DEF SlotsInv

\* The device is up after a reset: its signature names slot 0.
LEMMA SlotsCOMRESET == SataInv /\ SlotsInv /\ COMRESET => SlotsInv'
<1> SUFFICES ASSUME SataInv, SlotsInv, COMRESET PROVE SlotsInv'
  OBVIOUS
<1> DEFINE signature == Completion("D2H", 0, NoCommand)
<1>1. /\ UNCHANGED <<ci, sact, sataRequests, fetching, reading, ncqJobs, steps, answered,
                     commands, owner>>
      /\ sataResponses' = Append(sataResponses, signature)
  BY DEF COMRESET, registers, device
<1>2. /\ sataResponses \in Seq(Response) /\ Apart(sataResponses)
  BY Zenon DEF SataInv, SataTypeOK, SlotsInv, Response
<1>3. signature \in Response /\ signature.func = NoCommand /\ signature.slotIndex = 0
  BY DEF Completion, Response
<1> HIDE DEF signature
<1>4. /\ Apart(sataResponses')
      /\ \A x : SetsUp(x, sataResponses') <=> SetsUp(x, sataResponses) \/ x = NoCommand
      /\ \A x : Speaks(x, sataResponses') <=> Speaks(x, sataResponses) \/ x = 0
  BY <1>1, <1>2, <1>3, RespondQueue
<1>5. \A x : /\ Early(x)' <=> Early(x)
             /\ TablesRead(x)' <=> TablesRead(x)
             /\ Busy(x)' <=> Busy(x)
  BY <1>1, Zenon DEF Early, TablesRead, Busy
<1>6. ASSUME NEW x \in Command, x <= Len(commands) PROVE OneWay(x)' /\ Owned(x)'
  <2>1. OneWay(x) /\ Owned(x) /\ x # NoCommand
    BY <1>6, SlotFacts
  <2>2. SetsUp(x, sataResponses') <=> SetsUp(x, sataResponses)
    BY <1>4, <2>1
  <2>3. OneWay(x)'
    BY <1>1, <1>5, <2>1, <2>2, Zenon DEF OneWay
  <2>4. Underway(x)' <=> Underway(x)
    BY <1>1, <1>5, <2>2, Zenon DEF Underway
  <2> QED
    BY <1>1, <1>4, <1>5, <2>1, <2>3, <2>4, Zenon DEF Owned
<1>7. \A t \in Slots : Held(t)'
  BY <1>1, <1>4, Zenon DEF SlotsInv, Held
<1> QED
  BY <1>1, <1>4, <1>6, <1>7, Zenon DEF SlotsInv

LEMMA SlotsStutter ==
  ASSUME SlotsInv,
         UNCHANGED <<ci, sact, sataRequests, sataResponses, fetching, reading, ncqJobs, steps,
                     answered, commands, owner>>
  PROVE  SlotsInv'
BY Zenon DEF SlotsInv, OneWay, Owned, Held, Underway, Early, TablesRead, Busy

\* The steps that bring the adapter up or down, and the FISes that reach the host.
SataAround ==
  \/ SataFISes \/ ResetHBA \/ EnableInterrupts \/ StartPort \/ StopPort \/ EnterHandler

LEMMA AroundKeeps ==
  SataAround => UNCHANGED <<ci, sact, sataRequests, sataResponses, fetching, reading, ncqJobs,
                            steps, answered, commands, owner>>
<1> SUFFICES ASSUME SataAround
             PROVE  UNCHANGED <<ci, sact, sataRequests, sataResponses, fetching, reading,
                                ncqJobs, steps, answered, commands, owner>>
  OBVIOUS
<1>1. CASE SataFISes
  BY <1>1 DEF SataFISes, FISWritten, SignalWritten, device, driver
<1>2. CASE ResetHBA \/ EnableInterrupts
  BY <1>2 DEF ResetHBA, EnableInterrupts, device, driver
<1>3. CASE StartPort \/ StopPort \/ EnterHandler
  BY <1>3 DEF StartPort, StopPort, EnterHandler, device, driver
<1> QED
  BY <1>1, <1>2, <1>3 DEF SataAround

LEMMA SlotsNext == ZeroIsQueued /\ SataInv /\ SlotsInv /\ SataNext => SlotsInv'
<1> SUFFICES ASSUME ZeroIsQueued, SataInv, SlotsInv, SataNext PROVE SlotsInv'
  OBVIOUS
<1>1. CASE handleRequest \/ AcknowledgeFIS \/ CompleteSata \/ COMRESET
  BY <1>1, SlotsFetch, SlotsAcknowledge, SlotsComplete, SlotsCOMRESET
<1>2. CASE \E c \in Command : SataCommand(c)
  BY <1>2, SlotsTables, SlotsRequest, SlotsAccepted, SlotsSteps DEF SataCommand
<1>3. CASE \E so \in SataOperations : IssueSata(so[1], so[2])
  BY <1>3, SlotsIssue
<1>4. CASE SataAround
  BY <1>4, AroundKeeps, SlotsStutter
<1> QED
  BY <1>1, <1>2, <1>3, <1>4 DEF SataNext, SataHost, SataHandler, SataAround

\* A slot of SATA is worked when the command on it is answered.
SataStateOf(s) == IF owner[s] = NoCommand THEN "free"
                  ELSE IF owner[s] \in answered THEN "worked" ELSE "issued"

\* The last FIS of a command, seen by the driver and the device.
LEMMA AnswerMoves ==
  ASSUME SataInv, SlotsInv, NEW c \in Command, c <= Len(commands), Underway(c), owner' = owner,
         Answer(c)
  PROVE  Moves(sataSlotState, sataSlotState')
<1> DEFINE s == commands[c].slot
<1>1. /\ c \notin answered /\ owner[s] = c /\ s \in Slots /\ c # NoCommand
      /\ answered' = answered \cup {c}
  BY SlotFacts DEF Owned, Answer
<1>2. \A x \in Slots : owner[x] # NoCommand => commands[owner[x]].slot = x
  BY DEF SlotsInv, Held
<1> HIDE DEF s
<1>3. \A x \in Slots : owner[x] = c <=> x = s
  BY <1>1, <1>2 DEF s
<1>4. /\ sataSlotState = [x \in Slots |-> SataStateOf(x)]
      /\ sataSlotState' = [x \in Slots |-> IF x = s THEN "worked" ELSE SataStateOf(x)]
  BY <1>1, <1>3 DEF sataSlotState, SataStateOf
<1>5. SataStateOf(s) = "issued"
  BY <1>1 DEF SataStateOf
<1> QED
  BY <1>1, <1>4, <1>5 DEF Moves

\* The driver issues a command, or takes its slots back.
LEMMA DriverMoves ==
  ASSUME SataInv, SlotsInv,
         CompleteSata \/ \E so \in SataOperations : IssueSata(so[1], so[2])
  PROVE  Moves(sataSlotState, sataSlotState')
<1>1. CASE CompleteSata
  <2> DEFINE given == {s \in Slots : owner[s] # NoCommand /\ s \notin ci \cup sact}
  <2>1. /\ answered' = answered
        /\ owner' = [s \in Slots |-> IF s \in ci \cup sact THEN owner[s] ELSE NoCommand]
    BY <1>1 DEF CompleteSata, device
  <2>2. \A s \in given : owner[s] \in answered
    BY DEF SlotsInv, Held
  <2>3. \A s \in given : SataStateOf(s) = "worked"
    BY <2>2 DEF SataStateOf
  <2>4. /\ sataSlotState = [s \in Slots |-> SataStateOf(s)]
        /\ sataSlotState' = [s \in Slots |-> IF s \in given THEN "free" ELSE SataStateOf(s)]
    BY <2>1 DEF sataSlotState, SataStateOf
  <2>5. given \in SUBSET Slots
    OBVIOUS
  <2> HIDE DEF given
  <2>6. CASE given = {}
    <3>1. sataSlotState' = sataSlotState
      BY <2>4, <2>6
    <3> QED
      BY <3>1 DEF Moves
  <2>7. CASE given # {}
    <3>1. \A s \in given : sataSlotState[s] = "worked"
      BY <2>3, <2>4, <2>5
    <3>2. sataSlotState' = [s \in Slots |-> IF s \in given THEN "free" ELSE sataSlotState[s]]
      BY <2>4
    <3> QED
      BY <2>5, <2>7, <3>1, <3>2 DEF Moves
  <2> QED
    BY <2>6, <2>7
<1>2. ASSUME NEW so \in SataOperations, IssueSata(so[1], so[2])
      PROVE  Moves(sataSlotState, sataSlotState')
  <2>0. PICK c : c = Len(commands) + 1
    OBVIOUS
  <2> DEFINE s == so[1]
  <2>1. /\ answered' = answered /\ owner[s] = NoCommand /\ owner' = [owner EXCEPT ![s] = c]
        /\ s \in Slots
    BY <1>2, <2>0, SataAssumption DEF IssueSata, device
  <2> HIDE DEF s
  <2>2. c \notin answered /\ c # NoCommand
    <3>1. Len(commands) \in Nat
      <4>1. commands \in Seq([op : Queued \cup Plain, slot : Slots])
        BY Zenon DEF SataInv, SataTypeOK
      <4> QED
        BY <4>1, LenProperties
    <3> QED
      BY <2>0, <3>1 DEF SlotsInv, NoCommand
  <2>3. DOMAIN owner = Slots
    BY Zenon DEF SataInv, SataTypeOK
  <2>4. /\ sataSlotState = [x \in Slots |-> SataStateOf(x)]
        /\ sataSlotState' = [x \in Slots |-> IF x = s THEN "issued" ELSE SataStateOf(x)]
    BY <2>1, <2>2, <2>3 DEF sataSlotState, SataStateOf
  <2>5. SataStateOf(s) = "free"
    BY <2>1 DEF SataStateOf
  <2> QED
    BY <2>1, <2>4, <2>5 DEF Moves
<1> QED
  BY <1>1, <1>2

LEMMA SataMoves == SataInv /\ SlotsInv /\ SataNext => Moves(sataSlotState, sataSlotState')
<1> SUFFICES ASSUME SataInv, SlotsInv, SataNext PROVE Moves(sataSlotState, sataSlotState')
  OBVIOUS
<1>1. CASE UNCHANGED <<owner, answered>>
  <2>1. sataSlotState' = sataSlotState
    BY <1>1 DEF sataSlotState
  <2> QED
    BY <2>1 DEF Moves
<1>2. CASE CompleteSata \/ \E so \in SataOperations : IssueSata(so[1], so[2])
  BY <1>2, DriverMoves
<1>3. ASSUME NEW c \in Command, LastStep(c) PROVE Moves(sataSlotState, sataSlotState')
  <2>1. Answer(c) /\ owner' = owner /\ steps[c] # <<>>
    BY <1>3, EmptySeq DEF LastStep, driver
  <2>2. c <= Len(commands) /\ Underway(c)
    BY <2>1 DEF SataInv, Known, Underway, Busy
  <2> QED
    BY <2>1, <2>2, AnswerMoves
<1>4. ASSUME NEW c \in Command, NEW part \in {"request", "prdt"}, doRequest(c, part)
      PROVE  Moves(sataSlotState, sataSlotState')
  <2>1. /\ <<c, part>> \in reading /\ owner' = owner
        /\ Answer(c) \/ answered' = answered
    BY <1>4 DEF doRequest, driver
  <2>2. c <= Len(commands)
    <3>1. <<c, part>>[1] <= Len(commands)
      BY <2>1 DEF SataInv, Known
    <3> QED
      BY <3>1
  <2>3. Underway(c)
    <3>1. <<c, part>>[1] = c
      OBVIOUS
    <3> QED
      BY <2>1, <3>1, Zenon DEF Underway, Early, TablesRead
  <2> QED
    BY <1>1, <2>1, <2>2, <2>3, AnswerMoves
<1>5. CASE \/ SataAround \/ COMRESET \/ handleRequest \/ AcknowledgeFIS
           \/ \E c \in Command : \/ submitCommand(c) \/ NCQAccepted(c) \/ NextStep(c)
                                 \/ \E part \in {"request", "prdt"} : ReadTable(c, part)
  <2>1. ASSUME SataAround \/ COMRESET \/ handleRequest \/ AcknowledgeFIS
        PROVE  UNCHANGED <<owner, answered>>
    <3>1. CASE SataAround
      BY <3>1, AroundKeeps
    <3>2. CASE COMRESET \/ AcknowledgeFIS
      BY <3>2 DEF COMRESET, AcknowledgeFIS, device
    <3>3. CASE handleRequest
      BY <3>3 DEF handleRequest, driver
    <3> QED
      BY <2>1, <3>1, <3>2, <3>3
  <2>2. ASSUME \E c \in Command : \/ submitCommand(c) \/ NCQAccepted(c) \/ NextStep(c)
                                  \/ \E part \in {"request", "prdt"} : ReadTable(c, part)
        PROVE  UNCHANGED <<owner, answered>>
    <3>1. ASSUME NEW c \in Command, submitCommand(c) \/ NCQAccepted(c) \/ NextStep(c)
          PROVE  UNCHANGED <<owner, answered>>
      BY <3>1, Zenon DEF submitCommand, NCQAccepted, NextStep, driver
    <3>2. ASSUME NEW c \in Command, NEW part \in {"request", "prdt"}, ReadTable(c, part)
          PROVE  UNCHANGED <<owner, answered>>
      BY <3>2, Zenon DEF ReadTable, driver
    <3> QED
      BY <2>2, <3>1, <3>2
  <2> QED
    BY <1>1, <1>5, <2>1, <2>2
<1> QED
  BY <1>2, <1>3, <1>4, <1>5 DEF SataNext, SataCommand, SataHost, SataHandler, SataAround

\* Wherever the DMA, the firmware and the layers below take their time, and whatever FISes
\* and completions arrive between the steps of the interrupt handlers: on a free slot the
\* driver issues a command, the device does the last of its work once, and only then do
\* PxCI and PxSACT, or UTRLDBR, show the slot as done to the driver.
THEOREM SlotsImplemented ==
  ASSUME ZeroIsQueued
  PROVE  Spec => Promise!Init /\ [][Promise!Next]_slotState
<1>1. Init => Promise!Init
  <2> SUFFICES ASSUME Init PROVE slotState = [s \in Slots |-> "free"]
    BY DEF Promise!Init
  <2>1. sataSlotState = [s \in Slots |-> "free"]
    <3>1. owner = [s \in Slots |-> NoCommand]
      BY Zenon DEF Init, SataInit
    <3> QED
      BY <3>1 DEF sataSlotState
  <2>2. ufsSlotState = [s \in Slots |-> "free"]
    <3>1. issued = [s \in Slots |-> ""]
      BY Zenon DEF Init, UfsInit
    <3>2. \A s \in Slots : UfsStateOf(s) = "free"
      BY <3>1, Zenon DEF UfsStateOf
    <3>3. ufsSlotState = [s \in Slots |-> UfsStateOf(s)]
      BY UfsInitInv, UfsSlotStates DEF Init
    <3> QED
      BY <3>2, <3>3
  <2> QED
    BY <2>1, <2>2 DEF slotState
<1>2. Init => SlotsInv
  BY SlotsInitInv DEF Init
<1>3. SataInv /\ SlotsInv /\ [Next]_vars => SlotsInv'
  <2> SUFFICES ASSUME SataInv, SlotsInv, [Next]_vars PROVE SlotsInv'
    OBVIOUS
  <2>1. CASE Sata(SataNext)
    BY <2>1, SlotsNext DEF Sata
  <2>2. CASE UNCHANGED sataVars
    BY <2>2, SlotsStutter DEF sataVars, registers, device, driver
  <2> QED
    BY <2>1, <2>2 DEF Next, Ufs, Nvme, vars
<1>4. SataInv /\ SlotsInv /\ UfsInv /\ [Next]_vars => [Promise!Next]_slotState
  <2> SUFFICES ASSUME SataInv, SlotsInv, UfsInv, [Next]_vars
               PROVE  [Promise!Next]_slotState
    OBVIOUS
  <2>1. ASSUME Moves(slotState, slotState') PROVE [Promise!Next]_slotState
    BY <2>1 DEF Moves, Promise!Next, Promise!Issue, Promise!Work, Promise!Complete
  <2>2. CASE Sata(SataNext)
    <3>1. slotState = sataSlotState /\ slotState' = sataSlotState'
      BY <2>2 DEF Sata, slotState
    <3>2. Moves(sataSlotState, sataSlotState')
      BY <2>2, SataMoves DEF Sata
    <3> QED
      BY <2>1, <3>1, <3>2
  <2>3. CASE Ufs(UfsNext)
    <3>1. slotState = ufsSlotState /\ slotState' = ufsSlotState'
      BY <2>3 DEF Ufs, slotState
    <3>2. Moves(ufsSlotState, ufsSlotState')
      BY <2>3, UfsMoves DEF Ufs
    <3> QED
      BY <2>1, <3>1, <3>2
  <2>4. CASE UNCHANGED <<interface, sataVars, ufsVars>>
    <3>1. UNCHANGED <<interface, owner, answered>>
      BY <2>4 DEF sataVars, device, driver
    <3>2. UNCHANGED <<issued, ufsRequests, tables, stages>>
      BY <2>4 DEF ufsVars, ufsDriverVars
    <3>3. sataSlotState' = sataSlotState /\ ufsSlotState' = ufsSlotState
      BY <3>1, <3>2, Zenon DEF sataSlotState, ufsSlotState
    <3>4. slotState' = slotState
      BY <3>1, <3>3, Zenon DEF slotState
    <3> QED
      BY <3>4
  <2> QED
    BY <2>2, <2>3, <2>4 DEF Next, Nvme, vars
<1> QED
  BY <1>1, <1>2, <1>3, <1>4, SataInvariantHolds, UfsInvariantHolds, PTL DEF Spec
=============================================================================
