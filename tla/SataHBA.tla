------------------------------ MODULE SataHBA ------------------------------
(***************************************************************************)
(* The AHCI host bus adapter (src/hil/sata/hba.cc) and the ATA device      *)
(* behind it (src/hil/sata/device.cc).  A command is issued by a bit of    *)
(* PxCI (and of PxSACT when it is queued), waits in lRequestQueue, is      *)
(* fetched by the work events, and runs through a chain of callbacks: the  *)
(* DMA transfers, firmware jobs and requests to the layers below that the  *)
(* device starts one after the other.  It answers by FISes in              *)
(* lResponseQueue; the driver's write of PxIS acknowledges the oldest.     *)
(*                                                                         *)
(* The engine, the DMA and the layers below are the environment: what they *)
(* were asked ends at any time, in any order.  The driver is external: it  *)
(* acts as an AHCI driver does, and its interrupt handler takes three      *)
(* steps, with the adapter running in between.                             *)
(***************************************************************************)
EXTENDS SlotRegister, Sequences, FiniteSets, SequencesExt

CONSTANTS
  SataOperations,  \* pairs of a slot and an operation the driver issues on it
  MaxCommands,     \* bound: commands the driver issues
  MaxResets        \* bound: resets of the adapter by the driver

Queued == {"readNCQ", "writeNCQ"}
Plain == {"readDMA", "writeDMA", "flushCache", "identifyDevice", "setMode",
          "readVerify", "unsupported"}

ASSUME SataAssumption ==
  /\ SataOperations \subseteq Slots \X (Queued \cup Plain)
  /\ MaxCommands \in Nat
  /\ MaxResets \in Nat

Command == 1 .. MaxCommands
NoCommand == 0

VARIABLES
  ci, sact,        \* PxCI, PxSACT: sets of slots
  started,         \* PxCMD.START
  hbaIS, portIS,   \* IS; PxIS: some event bit is set
  irqEnabled,      \* GHC.IRQ_EN and PxIE
  sataLine,        \* the level of the interrupt line
  deviceInited,
  sataRequests,    \* lRequestQueue
  sataResponses,   \* lResponseQueue: FIS, its slotIndex, its func
  sataEvent,       \* which of workEvent and requestEvent is scheduled
  fetching,        \* commands whose header is read, or SUBMIT_COMMAND runs
  reading,         \* reads of command tables and PRDTs under way
  ncqJobs,         \* commands whose READ_NCQ or WRITE_NCQ job is queued
  steps,           \* steps[c]: what is left of the work of a command; the
                   \*   first step is under way
  answered,        \* commands whose last FIS was submitted and whose context
                   \*   was released
  fisWrites,       \* FISes being written to the memory of the host
  signalling,      \* one of them is that of submitSignal()
  commands,        \* the driver: operation and slot of each command issued
  owner,           \* the driver: the command outstanding on a slot
  sataDriver,      \* the driver: where its interrupt handler is
  resets

registers == <<ci, sact, started, hbaIS, portIS, irqEnabled, sataLine>>
device == <<fetching, reading, ncqJobs, steps, answered>>
driver == <<commands, owner, sataDriver, resets>>
sataVars == <<registers, deviceInited, sataRequests, sataResponses, sataEvent,
              device, fisWrites, signalling, driver>>

Outstanding == {s \in Slots : owner[s] # NoCommand}

-----------------------------------------------------------------------------
(* The steps of the device, named for the function that starts them.        *)

prdtRead == "prdtRead"    \* a job, then a transfer from each PRDT entry it takes,
prdtWrite == "prdtWrite"  \*   or to it, joined by a counter
read == "read"            \* a job, then a request to the HIL; with the job that
write == "write"          \*   follows it in some operations
flush == "flush"
_readDMADone == "READ_DMA_DONE"  \* a job

\* The work of each operation: its steps, one after the other.
readDMA == <<read, prdtWrite>>
writeDMA == <<prdtRead, write>>
flushCache == <<flush>>
identifyDevice == <<prdtWrite>>
readNCQ == <<read, prdtWrite, _readDMADone>>
writeNCQ == <<prdtRead, write>>

\* These answer in submitCommand().
setMode == <<>>
readVerify == <<>>
unsupported == <<>>

OperationWork ==
  [readDMA |-> readDMA, writeDMA |-> writeDMA, flushCache |-> flushCache,
   identifyDevice |-> identifyDevice, setMode |-> setMode,
   readVerify |-> readVerify, unsupported |-> unsupported,
   readNCQ |-> readNCQ, writeNCQ |-> writeNCQ]

\* A Completion.  The constructor's slotIndex is 0, and only the D2H FIS of a
\* command changes it: a DMA SETUP or SET DEVICE BITS FIS keeps that 0.
Completion(fis, slotIndex, func) ==
  [fis |-> fis, slotIndex |-> slotIndex, func |-> func]
D2H(c, func) == Completion("D2H", commands[c].slot, func)
DMASetup == Completion("DMA_SETUP", 0, NoCommand)
SetDeviceBits == Completion("SDB", 0, NoCommand)

\* submitFIS(): queue the FIS and send the front of the queue, which may be
\* another one, under way already: submitFISPending is never set.
submitFIS(resp) ==
  /\ sataResponses' = Append(sataResponses, resp)
  /\ fisWrites' = fisWrites + 1

\* The transfer of a queued read is announced when its data is there.
_readDMASetup == submitFIS(DMASetup)

\* The last FIS of a command; that of a queued one resets its PxSACT bit at
\* once.
Answer(c) ==
  /\ answered' = answered \cup {c}
  /\ IF commands[c].op \in Queued
     THEN submitFIS(SetDeviceBits) /\ sact' = sact \ {commands[c].slot}
     ELSE submitFIS(D2H(c, NoCommand)) /\ UNCHANGED sact

-----------------------------------------------------------------------------
(* The adapter and the device. *)

\* work() and handleRequest(): fetch one command.
handleRequest ==
  /\ sataEvent # "none"
  /\ IF sataRequests = <<>>
     THEN UNCHANGED <<sataRequests, fetching>>
     ELSE /\ sataRequests' = Tail(sataRequests)
          /\ fetching' = fetching \cup {Head(sataRequests)}
  /\ sataEvent' = IF Len(sataRequests) > 1 THEN "request" ELSE "work"
  /\ UNCHANGED <<registers, deviceInited, sataResponses, reading, ncqJobs, steps,
                 answered, fisWrites, signalling, driver>>

\* The header is there and the SUBMIT_COMMAND job ran: submitCommand() reads
\* the command table, and the PRDT if the command has one.
submitCommand(c) ==
  /\ c \in fetching
  /\ fetching' = fetching \ {c}
  /\ reading' = reading \cup
       IF commands[c].op \in {"flushCache", "setMode", "readVerify",
                              "unsupported"}
       THEN {<<c, "request">>}
       ELSE {<<c, "request">>, <<c, "prdt">>}
  /\ UNCHANGED <<registers, deviceInited, sataRequests, sataResponses, sataEvent,
                 ncqJobs, steps, answered, fisWrites, signalling, driver>>

\* One of the two reads ends, and the other one is not done: doReqRead and
\* doPRDTRead wait for it.
ReadTable(c, part) ==
  /\ <<c, part>> \in reading
  /\ \E other \in reading : other[1] = c /\ other[2] # part
  /\ reading' = reading \ {<<c, part>>}
  /\ UNCHANGED <<registers, deviceInited, sataRequests, sataResponses, sataEvent,
                 fetching, ncqJobs, steps, answered, fisWrites, signalling,
                 driver>>

\* It was the last one: doRequest starts the operation.
doRequest(c, part) ==
  /\ <<c, part>> \in reading
  /\ \A other \in reading : other[1] = c => other[2] = part
  /\ reading' = reading \ {<<c, part>>}
  /\ LET op == commands[c].op
     IN  /\ ncqJobs' = IF op \in Queued THEN ncqJobs \cup {c} ELSE ncqJobs
         /\ steps' = IF op = "writeNCQ" THEN steps
                     ELSE [steps EXCEPT ![c] = OperationWork[op]]
         /\ IF OperationWork[op] = <<>>
            THEN Answer(c)
            ELSE UNCHANGED <<answered, sataResponses, fisWrites, sact>>
  /\ UNCHANGED <<ci, started, hbaIS, portIS, irqEnabled, sataLine, deviceInited,
                 sataRequests, sataEvent, fetching, signalling, driver>>

\* Mutant of NCQAccepted: the tag is released when the command is accepted.
NCQAcceptedDone(c) ==
  /\ c \in ncqJobs
  /\ ncqJobs' = ncqJobs \ {c}
  /\ submitFIS(D2H(c, IF commands[c].op = "writeNCQ" THEN c ELSE NoCommand))
  /\ sact' = sact \ {commands[c].slot}
  /\ UNCHANGED <<ci, started, hbaIS, portIS, irqEnabled, sataLine, deviceInited,
                 sataRequests, sataEvent, fetching, reading, steps, answered,
                 signalling, driver>>

\* The READ_NCQ or WRITE_NCQ job: the command was accepted.  The transfer of a
\* write is set up when the host acknowledged that.
NCQAccepted(c) ==
  /\ c \in ncqJobs
  /\ ncqJobs' = ncqJobs \ {c}
  /\ submitFIS(D2H(c, IF commands[c].op = "writeNCQ" THEN c ELSE NoCommand))
  /\ UNCHANGED <<registers, deviceInited, sataRequests, sataEvent, fetching,
                 reading, steps, answered, signalling, driver>>

\* A step of the work of a command ends, and it is not the last one.
NextStep(c) ==
  /\ Len(steps[c]) > 1
  /\ steps' = [steps EXCEPT ![c] = Tail(@)]
  /\ IF commands[c].op = "readNCQ" /\ Head(steps[c]) = read
     THEN _readDMASetup
     ELSE UNCHANGED <<sataResponses, fisWrites>>
  /\ UNCHANGED <<registers, deviceInited, sataRequests, sataEvent, fetching,
                 reading, ncqJobs, answered, signalling, driver>>

\* The last one ends.
LastStep(c) ==
  /\ Len(steps[c]) = 1
  /\ steps' = [steps EXCEPT ![c] = <<>>]
  /\ Answer(c)
  /\ UNCHANGED <<ci, started, hbaIS, portIS, irqEnabled, sataLine, deviceInited,
                 sataRequests, sataEvent, fetching, reading, ncqJobs, signalling,
                 driver>>

\* doCompletion of handleResponse(): a FIS is in the memory of the host.
FISWritten ==
  /\ fisWrites > (IF signalling THEN 1 ELSE 0)
  /\ fisWrites' = fisWrites - 1
  /\ portIS' = TRUE
  /\ hbaIS' = TRUE
  /\ sataLine' = (sataLine \/ irqEnabled)
  /\ UNCHANGED <<ci, sact, started, irqEnabled, deviceInited, sataRequests,
                 sataResponses, sataEvent, device, signalling, driver>>

\* doCompletion of submitSignal(): the interrupt is raised in any case.
SignalWritten ==
  /\ signalling
  /\ signalling' = FALSE
  /\ fisWrites' = fisWrites - 1
  /\ portIS' = TRUE
  /\ hbaIS' = TRUE
  /\ sataLine' = TRUE
  /\ UNCHANGED <<ci, sact, started, irqEnabled, deviceInited, sataRequests,
                 sataResponses, sataEvent, device, driver>>

-----------------------------------------------------------------------------
(* What the driver writes to the registers. *)

\* GHC.HR: init().  The queues, and the work under way, survive.
ResetHBA ==
  /\ resets < MaxResets
  /\ Outstanding = {}
  /\ sataDriver = "idle"
  /\ ~signalling
  /\ resets' = resets + 1
  /\ irqEnabled' = FALSE
  /\ hbaIS' = FALSE
  /\ deviceInited' = FALSE
  /\ UNCHANGED <<ci, sact, started, portIS, sataLine, sataRequests, sataResponses,
                 sataEvent, device, fisWrites, signalling, commands, owner,
                 sataDriver>>

\* GHC.IE and PxIE; the write of PxIE looks for a pending interrupt.
EnableInterrupts ==
  /\ resets > 0
  /\ ~irqEnabled
  /\ irqEnabled' = TRUE
  /\ sataLine' = (sataLine \/ (hbaIS /\ portIS))
  /\ UNCHANGED <<ci, sact, started, hbaIS, portIS, deviceInited, sataRequests,
                 sataResponses, sataEvent, device, fisWrites, signalling, driver>>

\* PxSCTL.DET: COMRESET.  The device answers with its signature, which is
\* queued, and written at once, ahead of what the queue holds.  The driver waits
\* for an interrupt.
COMRESET ==
  /\ irqEnabled
  /\ ~deviceInited
  /\ sataDriver = "idle"
  /\ deviceInited' = TRUE
  /\ sataResponses' = Append(sataResponses, Completion("D2H", 0, NoCommand))
  /\ fisWrites' = fisWrites + 1
  /\ signalling' = TRUE
  /\ sataDriver' = "booting"
  /\ UNCHANGED <<registers, sataRequests, sataEvent, device, commands, owner,
                 resets>>

\* PxCMD.START set: the loop of work events starts, if it does not run.
StartPort ==
  /\ resets > 0
  /\ ~started
  /\ started' = TRUE
  /\ sataEvent' = IF sataEvent = "none" THEN "work" ELSE sataEvent
  /\ UNCHANGED <<ci, sact, hbaIS, portIS, irqEnabled, sataLine, deviceInited,
                 sataRequests, sataResponses, device, fisWrites, signalling,
                 driver>>

\* PxCMD.START cleared, with no command outstanding: only the workEvent is
\* descheduled.
StopPort ==
  /\ started
  /\ Outstanding = {}
  /\ started' = FALSE
  /\ sataEvent' = IF sataEvent = "work" THEN "none" ELSE sataEvent
  /\ UNCHANGED <<ci, sact, hbaIS, portIS, irqEnabled, sataLine, deviceInited,
                 sataRequests, sataResponses, device, fisWrites, signalling,
                 driver>>

\* PxSACT for a queued command, then PxCI: processCommand() queues the new
\* bits.  Queued commands run beside each other, another one runs alone.
IssueSata(s, op) ==
  /\ started /\ irqEnabled /\ deviceInited
  /\ sataDriver = "idle"
  /\ Len(commands) < MaxCommands
  /\ owner[s] = NoCommand
  /\ \A t \in Outstanding : {op, commands[owner[t]].op} \subseteq Queued
  /\ LET c == Len(commands) + 1
     IN  /\ commands' = Append(commands, [op |-> op, slot |-> s])
         /\ owner' = [owner EXCEPT ![s] = c]
         /\ sact' = IF op \in Queued THEN sact \cup {s} ELSE sact
         /\ ci' = ci \cup {s}
         /\ sataRequests' = IF s \in ci THEN sataRequests
                            ELSE Append(sataRequests, c)
  /\ UNCHANGED <<started, hbaIS, portIS, irqEnabled, sataLine, deviceInited,
                 sataResponses, sataEvent, device, fisWrites, signalling,
                 sataDriver, resets>>

\* The interrupt handler clears IS ...
EnterHandler ==
  /\ sataDriver \in {"idle", "booting"}
  /\ sataLine
  /\ hbaIS
  /\ hbaIS' = FALSE
  /\ sataDriver' = "acknowledge"
  /\ UNCHANGED <<ci, sact, started, portIS, irqEnabled, sataLine, deviceInited,
                 sataRequests, sataResponses, sataEvent, device, fisWrites,
                 signalling, commands, owner, resets>>

\* Mutant of AcknowledgeFIS: the next response is not sent.
AcknowledgeOnly ==
  /\ sataDriver = "acknowledge"
  /\ sataDriver' = "complete"
  /\ portIS' = FALSE
  /\ IF sataResponses = <<>>
     THEN UNCHANGED <<ci, sataLine, sataResponses, fisWrites, steps>>
     ELSE LET front == Head(sataResponses)
          IN  /\ sataLine' = FALSE
              /\ ci' = ci \ {front.slotIndex}
              /\ IF front.func = NoCommand
                 THEN /\ sataResponses' = Tail(sataResponses)
                      /\ UNCHANGED <<fisWrites, steps>>
                 ELSE /\ sataResponses' = Append(Tail(sataResponses), DMASetup)
                      /\ fisWrites' = fisWrites + 1
                      /\ steps' = [steps EXCEPT ![front.func] = writeNCQ]
  /\ UNCHANGED <<sact, started, hbaIS, irqEnabled, deviceInited, sataRequests,
                 sataEvent, fetching, reading, ncqJobs, answered, signalling,
                 commands, owner, resets>>

\* ... then PxIS.  Whatever it writes clears the bits of every FIS (the mask
\* 0x037FFF50 holds none of them), so interruptCleared() takes the front of the
\* queue for acknowledged: it clears the PxCI bit of its slotIndex, pops it,
\* sends the next one and calls its func.
AcknowledgeFIS ==
  /\ sataDriver = "acknowledge"
  /\ sataDriver' = "complete"
  /\ portIS' = FALSE
  /\ IF sataResponses = <<>>
     THEN UNCHANGED <<ci, sataLine, sataResponses, fisWrites, steps>>
     ELSE LET front == Head(sataResponses)
              rest == Tail(sataResponses)
              sent == IF rest = <<>> THEN 0 ELSE 1
          IN  /\ sataLine' = FALSE
              /\ ci' = ci \ {front.slotIndex}
              /\ IF front.func = NoCommand
                 THEN /\ sataResponses' = rest
                      /\ fisWrites' = fisWrites + sent
                      /\ UNCHANGED steps
                 ELSE \* _writeDMASetup
                      /\ sataResponses' = Append(rest, DMASetup)
                      /\ fisWrites' = fisWrites + sent + 1
                      /\ steps' = [steps EXCEPT ![front.func] = writeNCQ]
  /\ UNCHANGED <<sact, started, hbaIS, irqEnabled, deviceInited, sataRequests,
                 sataEvent, fetching, reading, ncqJobs, answered, signalling,
                 commands, owner, resets>>

\* ... then takes the commands whose bits are clear in both registers for done.
CompleteSata ==
  /\ sataDriver = "complete"
  /\ sataDriver' = "idle"
  /\ owner' = [s \in Slots |-> IF s \in ci \cup sact THEN owner[s] ELSE NoCommand]
  /\ UNCHANGED <<registers, deviceInited, sataRequests, sataResponses, sataEvent,
                 device, fisWrites, signalling, commands, resets>>

-----------------------------------------------------------------------------
\* Power on: the constructor leaves deviceInited uninitialized.
SataInit ==
  /\ ci = {} /\ sact = {} /\ started = FALSE
  /\ hbaIS = FALSE /\ portIS = FALSE /\ irqEnabled = FALSE /\ sataLine = FALSE
  /\ deviceInited \in BOOLEAN
  /\ sataRequests = <<>>
  /\ sataResponses = <<>>
  /\ sataEvent = "none"
  /\ fetching = {} /\ reading = {} /\ ncqJobs = {}
  /\ steps = [c \in Command |-> <<>>]
  /\ answered = {}
  /\ fisWrites = 0
  /\ signalling = FALSE
  /\ commands = <<>>
  /\ owner = [s \in Slots |-> NoCommand]
  /\ sataDriver = "idle"
  /\ resets = 0

SataHost ==
  \/ ResetHBA \/ EnableInterrupts \/ COMRESET \/ StartPort \/ StopPort
  \/ \E so \in SataOperations : IssueSata(so[1], so[2])

\* The steps of one command.
SataCommand(c) ==
  \/ submitCommand(c)
  \/ \E part \in {"request", "prdt"} : ReadTable(c, part) \/ doRequest(c, part)
  \/ NCQAccepted(c)
  \/ NextStep(c)
  \/ LastStep(c)

SataHandler == EnterHandler \/ AcknowledgeFIS \/ CompleteSata

SataFISes == FISWritten \/ SignalWritten

SataNext ==
  \/ handleRequest
  \/ \E c \in Command : SataCommand(c)
  \/ SataFISes
  \/ SataHost
  \/ SataHandler
-----------------------------------------------------------------------------
(* Properties. *)

SataTypeOK ==
  /\ ci \subseteq Slots \cup {0}
  /\ sact \subseteq Slots
  /\ {started, hbaIS, portIS, irqEnabled, sataLine, deviceInited, signalling}
       \subseteq BOOLEAN
  /\ sataRequests \in Seq(Command)
  /\ sataResponses \in Seq([fis : {"D2H", "DMA_SETUP", "SDB"},
                            slotIndex : Slots \cup {0},
                            func : Command \cup {NoCommand}])
  /\ sataEvent \in {"none", "work", "request"}
  /\ fetching \subseteq Command
  /\ reading \subseteq Command \X {"request", "prdt"}
  /\ ncqJobs \subseteq Command
  /\ \A c \in Command : Len(steps[c]) <= 3
  /\ answered \subseteq Command
  /\ fisWrites \in Nat
  /\ commands \in Seq([op : Queued \cup Plain, slot : Slots])
  /\ owner \in [Slots -> Command \cup {NoCommand}]
  /\ sataDriver \in {"idle", "booting", "acknowledge", "complete"}
  /\ resets \in 0 .. MaxResets

\* A response that waits to be acknowledged has a wakeup on its way: a FIS is
\* being written, or the interrupt is up, or the handler is about to write PxIS.
\* The line is lowered at every acknowledgement, FISes are sent more than once
\* and arrive between the steps of the handler, and yet no response is left
\* without an interrupt.
ResponseWakes ==
  sataResponses # <<>> /\ irqEnabled /\ deviceInited
    => \/ fisWrites > 0
       \/ sataLine /\ hbaIS
       \/ sataDriver = "acknowledge"

\* What the driver and the device know of a slot (see CommandSlots).
sataSlotState ==
  [s \in Slots |-> IF owner[s] = NoCommand THEN "free"
                   ELSE IF owner[s] \in answered THEN "worked" ELSE "issued"]

=============================================================================
