---------------------------- MODULE CommandSlots ----------------------------
(***************************************************************************)
(* What a host controller interface promises to the driver, whichever      *)
(* interface it is: a command is issued on a free slot, the device does    *)
(* all of its work, and only then the slot is given back to the driver.    *)
(* SataHBA and UfsHost implement it (HostInterface).                       *)
(***************************************************************************)
CONSTANT Slots

VARIABLE slotState

States == {"free", "issued", "worked"}

Init == slotState = [s \in Slots |-> "free"]

\* The driver rings the doorbell of a free slot.
Issue(s) ==
  /\ slotState[s] = "free"
  /\ slotState' = [slotState EXCEPT ![s] = "issued"]

\* The last stage of the work of a command ends.
Work(s) ==
  /\ slotState[s] = "issued"
  /\ slotState' = [slotState EXCEPT ![s] = "worked"]

\* The driver finds the slots done after an interrupt: all of them at once.
Complete(done) ==
  /\ done # {}
  /\ \A s \in done : slotState[s] = "worked"
  /\ slotState' = [s \in Slots |-> IF s \in done THEN "free" ELSE slotState[s]]

Next ==
  \/ \E s \in Slots : Issue(s) \/ Work(s)
  \/ \E done \in SUBSET Slots : Complete(done)

\* Every command issued is worked, and the driver learns of it.
Spec ==
  /\ Init
  /\ [][Next]_slotState
  /\ \A s \in Slots : /\ WF_slotState(Work(s))
                      /\ WF_slotState(\E done \in SUBSET Slots :
                                         s \in done /\ Complete(done))
=============================================================================
