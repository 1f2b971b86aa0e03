--------------------------- MODULE HostInterface ---------------------------
(***************************************************************************)
(* A simulated device has one interface to its host: SATA, UFS or NVMe.    *)
(* The first two promise the driver what CommandSlots says.  Of NVMe, this *)
(* is how the host brings the controller up; its commands are in the       *)
(* modules NvmeController and NvmeDevice.                                  *)
(***************************************************************************)
EXTENDS SataHBA, UfsHost, ControllerRegisters

VARIABLE interface  \* the one the device is built with

vars == <<interface, sataVars, ufsVars, registerVars>>

Init == interface \in {"sata", "ufs", "nvme"} /\ SataInit /\ UfsInit /\ RegistersInit

Sata(A) == interface = "sata" /\ A /\ UNCHANGED <<interface, ufsVars, registerVars>>
Ufs(A) == interface = "ufs" /\ A /\ UNCHANGED <<interface, sataVars, registerVars>>
Nvme(A) == interface = "nvme" /\ A /\ UNCHANGED <<interface, sataVars, ufsVars>>

Next == Sata(SataNext) \/ Ufs(UfsNext) \/ Nvme(RegistersNext)

\* The engine runs every event that is due, the DMA and the layers below finish
\* what they were asked, and the driver handles its interrupts.  Nobody has to
\* issue a command.
Fairness ==
  /\ WF_vars(Sata(handleRequest))
  /\ \A c \in Command : WF_vars(Sata(SataCommand(c)))
  /\ WF_vars(Sata(FISWritten)) /\ WF_vars(Sata(SignalWritten))
  /\ WF_vars(Sata(SataHandler))
  /\ \A event \in {"work", "request"} : WF_vars(Ufs(ufsHandleRequest(event)))
  /\ \A s \in Slots : WF_vars(Ufs(UfsSlot(s)))
  /\ WF_vars(Ufs(completion))
  /\ WF_vars(Ufs(UfsHandler))

Spec == Init /\ [][Next]_vars /\ Fairness

-----------------------------------------------------------------------------
(* Properties. *)

TypeOK == interface \in {"sata", "ufs", "nvme"} /\ SataTypeOK /\ UfsTypeOK

\* SATA and UFS keep the promise to the driver: a slot that the registers
\* show as done did all of its work, and every command issued is worked and
\* given back, whatever the interleaving of its callbacks with those of other
\* commands and with the interrupt handler.
slotState == IF interface = "sata" THEN sataSlotState ELSE ufsSlotState
Promise == INSTANCE CommandSlots
ImplementsSlots == Promise!Spec
=============================================================================
