----------------------------- MODULE NvmeDevice -----------------------------
(***************************************************************************)
(* The subsystem behind the NVMe controller: which of the three it is, the *)
(* configuration decides (controller.cc), and all of them answer the       *)
(* commands that the controller submits.                                   *)
(***************************************************************************)
EXTENDS Subsystem, OpenChannel

CONSTANT Kinds  \* the values of NVME_OCSSD_VERSION the model takes

ASSUME NvmeDeviceAssumption == Kinds \subseteq {"nvm", "ocssd12", "ocssd20"}

VARIABLE kind   \* the class of pSubsystem

deviceVars == <<kind, commandVars, namespaceVars, chunkVars>>

\* The controller makes the subsystem and calls its init().
Init ==
  /\ kind \in Kinds
  /\ CommandInit
  /\ SubsystemInit
  /\ OpenChannelInit

NvmHost(s) == kind = "nvm" /\ SubsystemHost(s) /\ UNCHANGED <<kind, chunkVars>>
NvmStep(s) == kind = "nvm" /\ SubsystemStep(s) /\ UNCHANGED <<kind, chunkVars>>

\* Nothing happens any more once the program has crashed.
OpenChannelHost(s) ==
  /\ ~Crashed
  /\ \/ kind = "ocssd12" /\ Host12(s)
     \/ kind = "ocssd20" /\ Host20(s)
  /\ UNCHANGED <<kind, namespaceVars>>

ChunkStep(s) ==
  /\ kind # "nvm" /\ ~Crashed
  /\ OpenChannelStep(s)
  /\ UNCHANGED <<kind, namespaceVars>>
Flash ==
  /\ kind = "ocssd20" /\ ~Crashed
  /\ FlashJob
  /\ UNCHANGED <<kind, namespaceVars>>

Taken(s) == ~Crashed /\ TakeCompletion(s) /\ UNCHANGED <<kind, namespaceVars, chunkVars>>

Next ==
  \/ \E s \in Slot : \/ NvmHost(s) \/ NvmStep(s) \/ OpenChannelHost(s) \/ ChunkStep(s)
                     \/ Taken(s)
  \/ Flash

\* Every job, transfer and request that is under way ends; the host need not
\* do anything.
Fairness ==
  /\ \A s \in Slot : WF_deviceVars(NvmStep(s) \/ ChunkStep(s))
  /\ WF_deviceVars(Flash)

Spec == Init /\ [][Next]_deviceVars /\ Fairness

-----------------------------------------------------------------------------
\* Every command the host submits is answered in the end, whatever fails on its
\* way: but for a queue creation that the controller refuses, and for the
\* deallocations of an Open-Channel SSD 2.0, each of which crashes the program in
\* the end (eraseInternal() overwrites its DMAContext::context, ocssd.cc:2167),
\* with the commands that are under way by then.
AllAnswered ==
  \A s \in Slot :
    command[s] # NoCommand /\ command[s].stages # <<"refused">>
      ~> command[s].answers > 0 \/ Crashed
=============================================================================
