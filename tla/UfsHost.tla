------------------------------ MODULE UfsHost ------------------------------
(***************************************************************************)
(* The UFS host controller (src/hil/ufs/host.cc) and the UFS device behind *)
(* it (src/hil/ufs/device.cc).  The driver sets bits of the doorbell       *)
(* UTRLDBR; pendingInterrupt holds the slots taken over from it.  A slot   *)
(* waits in lRequestQueue, is fetched by the work events, runs through a   *)
(* chain of callbacks and ends in lResponseQueue, from where completion()  *)
(* clears its bit in both and raises the interrupt.                        *)
(*                                                                         *)
(* The engine, the DMA and the layers below are the environment: what they *)
(* were asked ends at any time, in any order.  The driver is external.     *)
(***************************************************************************)
EXTENDS SlotRegister, Sequences, FiniteSets, SequencesExt

CONSTANTS
  UfsOperations,  \* the operations the driver issues
  MaxTransfers,   \* bound: commands the driver issues
  MaxUIC          \* bound: UIC commands of the driver

UfsCommands ==
  {"nop", "query", "inquiry", "modeSense", "readCapacity", "reportLuns", "unit",
   "scsiRead", "scsiWrite", "sync"}

ASSUME UfsAssumption ==
  /\ UfsOperations \subseteq UfsCommands
  /\ MaxTransfers \in Nat
  /\ MaxUIC \in Nat

VARIABLES
  utrldbr,           \* the doorbell: a set of slots
  pendingInterrupt,  \* slots whose request was queued and is not complete
  is,                \* interrupt causes set in IS
  ufsLine,           \* generateInterrupt(), clearInterrupt()
  ufsRequests,       \* lRequestQueue
  ufsResponses,      \* lResponseQueue: all are due
  completionEvent,   \* it is scheduled
  ufsEvents,         \* which of workEvent and requestEvent are scheduled
  tables,            \* reads of request UPIUs and PRDTs under way
  stages,            \* stages[s]: what is left to do for a slot; the first
                     \*   stage is under way
  issued,            \* the driver: operation of the slots outstanding, or ""
  transfers,         \* the driver: commands issued so far
  uics,              \* the driver: UIC commands so far
  ufsDriver,         \* the driver: where its interrupt handler is
  seen               \* the driver: the causes it read

ufsDriverVars == <<issued, transfers, uics, ufsDriver, seen>>
ufsVars == <<utrldbr, pendingInterrupt, is, ufsLine, ufsRequests, ufsResponses,
             completionEvent, ufsEvents, tables, stages, ufsDriverVars>>

-----------------------------------------------------------------------------
(* The steps of the device, named for the function that starts them.        *)

PrdtRead == "prdtRead"    \* a job, then a transfer from each PRDT entry it takes,
PrdtWrite == "prdtWrite"  \*   or to it, joined by a counter
Read == "read"            \* a job, then a request to the HIL
Write == "write"
Flush == "flush"
Job == "PROCESS_COMMAND"
QueryJob == "PROCESS_QUERY_COMMAND"

\* The work of each command: its steps, one after the other.
scsiRead == <<Read, PrdtWrite, Job>>   \* READ 6, READ 10
scsiWrite == <<PrdtRead, Write, Job>>  \* WRITE 6, WRITE 10
inquiry == <<PrdtWrite, Job>>
modeSense == <<PrdtWrite, Job>>
readCapacity == <<PrdtWrite, Job>>     \* READ CAPACITY 10, READ CAPACITY 16
reportLuns == <<PrdtWrite, Job>>
sync == <<Flush, Job>>                 \* SYNCHRONIZE CACHE without IMMED

\* VERIFY, TEST UNIT READY, START STOP UNIT and what is not implemented, a
\* transfer of no block, an unknown page: func is called at once.  So it is for
\* SYNCHRONIZE CACHE with IMMED: nothing waits for its flush.
unit == <<Job>>

query == <<QueryJob>>
nop == <<>>

UfsWork ==
  [nop |-> nop, query |-> query, inquiry |-> inquiry, modeSense |-> modeSense,
   readCapacity |-> readCapacity, reportLuns |-> reportLuns, unit |-> unit,
   scsiRead |-> scsiRead, scsiWrite |-> scsiWrite, sync |-> sync]

\* Then the response UPIU is written, then the descriptor with its status.
Epilogue == <<"response", "status">>

\* The bits of a register, from the lowest to the highest.
Ascending(S) ==
  CHOOSE q \in [1 .. Cardinality(S) -> S] :
    \A i, j \in DOMAIN q : i < j => q[i] < q[j]

\* Mutant of NewTransfers: those taken over already are queued again.
AllTransfers(doorbell) == Ascending(doorbell)

\* processUTPTransfer(): the slots of the doorbell not taken over yet, in
\* ascending order.
NewTransfers(doorbell) == Ascending(doorbell \ pendingInterrupt)

-----------------------------------------------------------------------------
(* The controller and the device. *)

\* A work event or a request event: work(), handleRequest().  Fetch one
\* descriptor, and schedule the next event; requestCounter is never reset, so
\* it may be the one or the other.
ufsHandleRequest(event) ==
  /\ event \in ufsEvents
  /\ IF ufsRequests = <<>>
     THEN UNCHANGED <<ufsRequests, stages>>
     ELSE /\ ufsRequests' = Tail(ufsRequests)
          /\ stages' = [stages EXCEPT ![Head(ufsRequests)] = <<"descriptor">>]
  /\ \E next \in IF Len(ufsRequests) > 1 THEN {"work", "request"} ELSE {"work"} :
       ufsEvents' = (ufsEvents \ {event}) \cup {next}
  /\ UNCHANGED <<utrldbr, pendingInterrupt, is, ufsLine, ufsResponses,
                 completionEvent, tables, ufsDriverVars>>

\* The descriptor is there: processUTPCommand() reads the request UPIU, and the
\* PRDT if the command has one.
processUTPCommand(s) ==
  /\ stages[s] = <<"descriptor">>
  /\ stages' = [stages EXCEPT ![s] = <<>>]
  /\ tables' = tables \cup
       IF issued[s] \in {"nop", "query", "unit", "sync"}
       THEN {<<s, "request">>}
       ELSE {<<s, "request">>, <<s, "prdt">>}
  /\ UNCHANGED <<utrldbr, pendingInterrupt, is, ufsLine, ufsRequests,
                 ufsResponses, completionEvent, ufsEvents, ufsDriverVars>>

\* One of the two ends: doReqRead and doPRDTRead wait for the other one, and
\* the last one starts the operation (doRequest, Device::processCommand and
\* Device::processQueryCommand).
TableRead(s, part) ==
  /\ <<s, part>> \in tables
  /\ tables' = tables \ {<<s, part>>}
  /\ IF \E other \in tables' : other[1] = s
     THEN UNCHANGED stages
     ELSE stages' = [stages EXCEPT ![s] = UfsWork[issued[s]] \o Epilogue]
  /\ UNCHANGED <<utrldbr, pendingInterrupt, is, ufsLine, ufsRequests,
                 ufsResponses, completionEvent, ufsEvents, ufsDriverVars>>

\* A stage of the work ends, and it is not the last one.
NextStage(s) ==
  /\ Len(stages[s]) > 1
  /\ stages' = [stages EXCEPT ![s] = Tail(@)]
  /\ UNCHANGED <<utrldbr, pendingInterrupt, is, ufsLine, ufsRequests,
                 ufsResponses, completionEvent, ufsEvents, tables, ufsDriverVars>>

\* doWrite of handleRequest(): the descriptor is written.
DescriptorWritten(s) ==
  /\ stages[s] = <<"status">>
  /\ stages' = [stages EXCEPT ![s] = <<>>]
  /\ ufsResponses' = Append(ufsResponses, s)
  /\ completionEvent' = TRUE
  /\ UNCHANGED <<utrldbr, pendingInterrupt, is, ufsLine, ufsRequests, ufsEvents,
                 tables, ufsDriverVars>>

\* completion(): the requests in the queue are all due.
completion ==
  /\ completionEvent
  /\ completionEvent' = FALSE
  /\ utrldbr' = utrldbr \ ToSet(ufsResponses)
  /\ pendingInterrupt' = pendingInterrupt \ ToSet(ufsResponses)
  /\ ufsResponses' = <<>>
  /\ is' = is \cup {"UTP_TRANSFER_REQ_COMPL"}
  /\ ufsLine' = TRUE
  /\ UNCHANGED <<ufsRequests, ufsEvents, tables, stages, ufsDriverVars>>

-----------------------------------------------------------------------------
(* What the driver writes to the registers. *)

\* UICCMDR: processUIC() runs at once, and DME_LINKSTARTUP schedules the work
\* event.
UICCommand(opcode) ==
  /\ uics < MaxUIC
  /\ ufsDriver = "idle"
  /\ opcode = "DME_GET" => ufsEvents # {}
  /\ uics' = uics + 1
  /\ ufsEvents' = IF opcode = "DME_LINKSTARTUP" THEN ufsEvents \cup {"work"}
                                               ELSE ufsEvents
  /\ is' = is \cup {"UIC_COMMAND_COMPL"}
  /\ ufsLine' = TRUE
  /\ UNCHANGED <<utrldbr, pendingInterrupt, ufsRequests, ufsResponses,
                 completionEvent, tables, stages, issued, transfers, ufsDriver,
                 seen>>

\* UTRLDBR: the write sets bits, and clears none.
IssueUfs(s, op) ==
  /\ ufsEvents # {}
  /\ ufsDriver = "idle"
  /\ transfers < MaxTransfers
  /\ issued[s] = ""
  /\ transfers' = transfers + 1
  /\ issued' = [issued EXCEPT ![s] = op]
  /\ utrldbr' = utrldbr \cup {s}
  /\ ufsRequests' = ufsRequests \o NewTransfers(utrldbr')
  /\ pendingInterrupt' = pendingInterrupt \cup utrldbr'
  /\ UNCHANGED <<is, ufsLine, ufsResponses, completionEvent, ufsEvents, tables,
                 stages, uics, ufsDriver, seen>>

\* The interrupt handler reads IS ...
ReadIS ==
  /\ \/ ufsDriver = "idle" /\ ufsLine
     \/ ufsDriver = "again"
  /\ seen' = is
  /\ ufsDriver' = IF is = {} /\ ufsDriver = "again" THEN "idle" ELSE "clear"
  /\ UNCHANGED <<utrldbr, pendingInterrupt, is, ufsLine, ufsRequests,
                 ufsResponses, completionEvent, ufsEvents, tables, stages, issued,
                 transfers, uics>>

\* ... clears what it saw, which lowers the line whatever IS holds by now ...
ClearIS ==
  /\ ufsDriver = "clear"
  /\ ufsDriver' = "complete"
  /\ is' = is \ seen
  /\ ufsLine' = FALSE
  /\ UNCHANGED <<utrldbr, pendingInterrupt, ufsRequests, ufsResponses,
                 completionEvent, ufsEvents, tables, stages, issued, transfers,
                 uics, seen>>

\* ... takes the slots the doorbell no longer holds for done, and looks again.
CompleteUfs ==
  /\ ufsDriver = "complete"
  /\ ufsDriver' = "again"
  /\ issued' = IF "UTP_TRANSFER_REQ_COMPL" \in seen
               THEN [s \in Slots |-> IF s \in utrldbr THEN issued[s] ELSE ""]
               ELSE issued
  /\ UNCHANGED <<utrldbr, pendingInterrupt, is, ufsLine, ufsRequests,
                 ufsResponses, completionEvent, ufsEvents, tables, stages,
                 transfers, uics, seen>>

-----------------------------------------------------------------------------
UfsInit ==
  /\ utrldbr = {} /\ pendingInterrupt = {}
  /\ is = {} /\ ufsLine = FALSE
  /\ ufsRequests = <<>> /\ ufsResponses = <<>>
  /\ completionEvent = FALSE
  /\ ufsEvents = {}
  /\ tables = {}
  /\ stages = [s \in Slots |-> <<>>]
  /\ issued = [s \in Slots |-> ""]
  /\ transfers = 0 /\ uics = 0
  /\ ufsDriver = "idle"
  /\ seen = {}

UfsHostSteps ==
  \/ \E opcode \in {"DME_LINKSTARTUP", "DME_GET"} : UICCommand(opcode)
  \/ \E s \in Slots, op \in UfsOperations : IssueUfs(s, op)

\* The steps of one slot.
UfsSlot(s) ==
  \/ processUTPCommand(s)
  \/ \E part \in {"request", "prdt"} : TableRead(s, part)
  \/ NextStage(s)
  \/ DescriptorWritten(s)

UfsHandler == ReadIS \/ ClearIS \/ CompleteUfs

UfsNext ==
  \/ \E event \in {"work", "request"} : ufsHandleRequest(event)
  \/ \E s \in Slots : UfsSlot(s)
  \/ completion
  \/ UfsHostSteps
  \/ UfsHandler

-----------------------------------------------------------------------------
(* Properties. *)

\* The completion event is scheduled while there is something to complete.
UfsTypeOK ==
  /\ utrldbr \subseteq Slots
  /\ pendingInterrupt \subseteq Slots
  /\ is \subseteq {"UTP_TRANSFER_REQ_COMPL", "UIC_COMMAND_COMPL"}
  /\ seen \subseteq {"UTP_TRANSFER_REQ_COMPL", "UIC_COMMAND_COMPL"}
  /\ ufsLine \in BOOLEAN
  /\ ufsRequests \in Seq(Slots)
  /\ ufsResponses \in Seq(Slots)
  /\ completionEvent <=> ufsResponses # <<>>
  /\ ufsEvents \subseteq {"work", "request"}
  /\ tables \subseteq Slots \X {"request", "prdt"}
  /\ issued \in [Slots -> UfsOperations \cup {""}]
  /\ transfers \in 0 .. MaxTransfers
  /\ uics \in 0 .. MaxUIC
  /\ ufsDriver \in {"idle", "clear", "complete", "again"}

\* A slot is in pendingInterrupt, and in the doorbell, for as long as it is in
\* exactly one place on its way: lRequestQueue, the reads of its tables, its
\* stages, lResponseQueue.  pendingInterrupt is what keeps a second write of the
\* doorbell, while the bits of other slots are set, from running them twice.
UfsInOnePlace ==
  /\ pendingInterrupt = utrldbr
  /\ \A s \in Slots :
       Cardinality({i \in DOMAIN ufsRequests : ufsRequests[i] = s})
         + Cardinality({i \in DOMAIN ufsResponses : ufsResponses[i] = s})
         + (IF \E t \in tables : t[1] = s THEN 1 ELSE 0)
         + (IF stages[s] # <<>> THEN 1 ELSE 0)
       = IF s \in pendingInterrupt THEN 1 ELSE 0

\* What the driver and the device know of a slot (see CommandSlots).
ufsSlotState ==
  [s \in Slots |->
     CASE issued[s] = "" -> "free"
       [] issued[s] # "" /\ s \in ToSet(ufsRequests) \cup {t[1] : t \in tables}
            -> "issued"
       [] issued[s] # "" /\ stages[s] # <<>> -> "issued"
       [] OTHER -> "worked"]
=============================================================================
