---------------------------- MODULE OpenChannel ----------------------------
(***************************************************************************)
(* The Open-Channel SSDs of revision 1.2 and 2.0 (src/hil/nvme/ocssd.cc):  *)
(* the host places its data on the flash itself.  Revision 2.0 keeps a     *)
(* descriptor of each chunk, and refuses the writes and resets that it     *)
(* does not allow; the flash operations of a command are done later, by    *)
(* jobs of the one core that runs them, in the order they were queued.     *)
(*                                                                         *)
(* The geometry is one group and one parallel unit; an LBA of the command  *)
(* is chunk * ChunkSize + sector.  The host resets several chunks at once  *)
(* only when none is refused and no other reset is outstanding, and begins *)
(* no other until that ends.                                               *)
(***************************************************************************)
EXTENDS NvmeCommand, FiniteSetsExt

CONSTANTS
  Chunks,       \* structure.chunk
  Pages,        \* param.page
  WriteSize,    \* structure.writeSize: LBAs of a page
  Requests20,   \* I/O commands of revision 2.0: an operation and its LBAs
  Requests12    \* commands of revision 1.2: an operation and how many PPAs

ASSUME OpenChannelAssumption ==
  /\ Chunks \in Nat \ {0} /\ Pages \in Nat \ {0} /\ WriteSize \in Nat \ {0}
  /\ \A io \in Requests20 :
       /\ io.op \in {"read", "write", "datasetManagement", "trimIgnored",
                    "vectorChunkRead", "vectorChunkWrite", "vectorChunkReset"}
       /\ io.lbas \in Seq(0 .. Chunks * (Pages * WriteSize) - 1)
  /\ \A io \in Requests12 :
       io.op \in {"deviceIdentification", "getBadBlockTable", "physicalBlockErase",
                 "physicalPageWrite", "physicalPageRead", "readIgnored"}

VARIABLES
  descriptor,  \* descriptor[c]: chunkState and writePointer of a chunk
  flash,       \* flash[c]: its pages in the order they were programmed
  flashJobs,   \* READ_INTERNAL, WRITE_INTERNAL, ERASE_INTERNAL jobs of the core
  badBlocks    \* revision 1.2: blocks the host marked as bad

chunkVars == <<descriptor, flash, flashJobs, badBlocks>>

Chunk == 0 .. Chunks - 1
ChunkSize == Pages * WriteSize

-----------------------------------------------------------------------------
(* Addresses. *)

\* parseLBA(), and the page that convertUnit() takes it to.
parseLBA(lba) ==
  [chunk |-> lba \div ChunkSize, page |-> (lba % ChunkSize) \div WriteSize]

\* The LBAs of a command that is no vector: the loop runs from the first LBA to
\* below the number of LBAs, which it takes for the end.
RangeLBAs(slba, nlb) == [i \in 1 .. (IF nlb > slba THEN nlb - slba ELSE 0) |-> slba + i - 1]

\* convertUnit(): the pages (or chunks) of the LBAs, one after the other; one that
\* is the same as the last on the list is merged with it.
convertUnit20(lbas, block) ==
  LET same(a, b) == a.chunk = b.chunk /\ (block \/ a.page = b.page)
      list[n \in 0 .. Len(lbas)] ==
        IF n = 0 THEN <<>>
        ELSE LET sofar == list[n - 1] IN
             IF sofar # <<>> /\ same(Last(sofar), parseLBA(lbas[n]))
             THEN sofar
             ELSE Append(sofar, parseLBA(lbas[n]))
  IN list[Len(lbas)]

-----------------------------------------------------------------------------
(* Chunks.  Each of these takes the pages of a command and gives the new      *)
(* descriptors, the pages that are left for the flash, and whether there was *)
(* an error.  No page is accepted from the first error on, and those are     *)
(* taken off the list by a mask of 64 bits: the ones it does not reach stay. *)

Resets(op) == op \in {"datasetManagement", "vectorChunkReset"}

MaskBits == 64   \* of idx, which is zero from there on

\* How many pages of the list are accepted.
Accepted(list, bad) == IF bad = {} THEN Len(list) ELSE Min(bad) - 1

Outcome(desc, list, bad) ==
  LET n == Accepted(list, bad) IN
  [desc |-> desc, err |-> bad # {},
   kept |-> IF bad = {} THEN list
            ELSE SubSeq(list, 1, n)
                   \o SubSeq(list, (IF n < MaskBits THEN MaskBits ELSE n) + 1, Len(list))]

\* readInternal(): a chunk is never OFFLINE, so nothing is refused.
readInternal(list) == Outcome(descriptor, list, {})

\* What a write of a page does to the descriptor of its chunk.
Written(page) ==
  [state |-> IF page = Pages - 1 THEN "CLOSED" ELSE "OPEN",
   writePointer |-> (page + 1) * WriteSize]

\* The descriptor of a chunk after the first n pages of a list were written.
AfterWrites(list, n, c) ==
  LET on == {j \in 1 .. n : list[j].chunk = c}
  IN IF on = {} THEN descriptor[c] ELSE Written(list[Max(on)].page)

\* Page i of the list may not be written when those before it were.
WriteRefused(list, i) ==
  LET d == AfterWrites(list, i - 1, list[i].chunk) IN
  \/ d.state = "CLOSED"
  \/ d.state = "OPEN" /\ d.writePointer \div WriteSize > list[i].page

\* Mutant of writeInternal: a refused page is reported, but stays on the list.
writeInternalKeeping(list) ==
  LET bad == {i \in DOMAIN list : WriteRefused(list, i)}
      n == Accepted(list, bad)
  IN [Outcome([c \in Chunk |-> AfterWrites(list, n, c)], list, bad) EXCEPT !.kept = list]

\* writeInternal().
writeInternal(list) ==
  LET bad == {i \in DOMAIN list : WriteRefused(list, i)}
      n == Accepted(list, bad)
  IN Outcome([c \in Chunk |-> AfterWrites(list, n, c)], list, bad)

\* A chunk on the list that is not closed, or no longer, may not be reset.
ResetRefused(list, i) ==
  \/ descriptor[list[i].chunk].state # "CLOSED"
  \/ \E j \in 1 .. i - 1 : list[j].chunk = list[i].chunk

\* Mutant of eraseInternal: a chunk that is still open is freed as well.
eraseInternalOpen(list) ==
  LET bad == {i \in DOMAIN list : ResetRefused(list, i)}
      freed == {list[i].chunk : i \in DOMAIN list}
  IN Outcome([c \in Chunk |-> IF c \in freed THEN [state |-> "FREE", writePointer |-> 0]
                              ELSE descriptor[c]], list, bad)

\* eraseInternal(): a closed chunk that follows an error is free from then on,
\* but its erase is taken off the list.
eraseInternal(list) ==
  LET bad == {i \in DOMAIN list : ResetRefused(list, i)}
      freed == {list[i].chunk : i \in DOMAIN list \ bad}
  IN Outcome([c \in Chunk |-> IF c \in freed THEN [state |-> "FREE", writePointer |-> 0]
                              ELSE descriptor[c]], list, bad)

Internal(op, list) ==
  CASE op \in {"read", "vectorChunkRead"} -> readInternal(list)
    [] op \in {"write", "vectorChunkWrite"} -> writeInternal(list)
    [] Resets(op) -> eraseInternal(list)

-----------------------------------------------------------------------------
(* Commands of revision 2.0. A list of more than one LBA is read from the    *)
(* host first; the pages go to the flash by a job, and a completion is       *)
(* queued for the time the flash is done.                                    *)

List(n) == IF n > 1 THEN <<"list">> ELSE <<>>
OnFlash == <<"flash", "completion">>

read20(p) == PointerStages(p) \o <<"job">> \o OnFlash \o <<"out">>
write20(p) == PointerStages(p) \o <<"job", "in">> \o OnFlash
\* The context it gives eraseInternal() is not the IOContext that this takes it
\* for: what eraseInternal() means for the completion entry overwrites the pointer
\* that the last callback follows, and the program crashes there.
datasetManagement20(p) == PointerStages(p) \o <<"job", "in">> \o OnFlash \o <<"crash">>
\* The write to the host asks for one LBA more than its list has room for, and
\* ends with the list.
vectorChunkRead(p, n) == PointerStages(p) \o <<"job">> \o List(n) \o OnFlash \o <<"out">>
vectorChunkWrite(p, n) == PointerStages(p) \o <<"job">> \o List(n) \o OnFlash \o <<"in">>
trimIgnored == <<>>   \* a hint other than to deallocate: answered with nothing
vectorChunkReset(n) == IF n > 1 THEN <<"list", "job">> \o OnFlash ELSE OnFlash

Stages20(op, p, n) ==
  CASE op = "read" -> read20(p)
    [] op = "write" -> write20(p)
    [] op = "datasetManagement" -> datasetManagement20(p)
    [] op = "vectorChunkRead" -> vectorChunkRead(p, n)
    [] op = "vectorChunkWrite" -> vectorChunkWrite(p, n)
    [] op = "vectorChunkReset" -> vectorChunkReset(n)
    [] op = "trimIgnored" -> trimIgnored

\* What of it needs a data pointer: one page for the ranges to reset.
Pointers20(op, n) ==
  CASE op \in {"vectorChunkReset", "trimIgnored"} -> {NoPointer}
    [] op = "datasetManagement" -> PointersFor(1)
    [] OTHER -> PointersFor(n)

\* The program crashed in the last callback of a deallocation.
Crashed == \E s \in Slot : AtStage(s, {"crash"})

\* A command reaches readInternal(), writeInternal() or eraseInternal(), with
\* its first stage the job for the flash.  The error of a deallocation does not
\* reach its own status (see above).
GoesToFlash(s, r) ==
  /\ \E list \in {convertUnit20(r.arg, Resets(r.op))} : \E o \in {Internal(r.op, list)} :
       /\ command' = [command EXCEPT ![s] =
            Begin([r EXCEPT !.status =
                     IF o.err /\ r.op # "datasetManagement" THEN "error" ELSE @])]
       /\ descriptor' = o.desc
       /\ flashJobs' = Append(flashJobs, [slot |-> s, op |-> r.op, list |-> o.kept])
  /\ UNCHANGED <<flash, badBlocks>>

\* The host keeps to resets that leave no chunk behind (see above).
Several(r) == Resets(r.op) /\ Len(convertUnit20(r.arg, TRUE)) > 1
HostMayReset(lbas) ==
  LET list == convertUnit20(lbas, TRUE) IN
  /\ \A s \in Slot : Resets(command[s].op) => Len(list) <= 1 /\ ~Several(command[s])
  /\ Len(list) > 1 => \A i \in DOMAIN list : ~ResetRefused(list, i)

\* submitCommand() for the I/O commands.
SubmitIO20(s, io) ==
  /\ Free(s) /\ submitted < MaxCommands
  /\ Resets(io.op) => HostMayReset(io.lbas)
  /\ \E p \in Pointers20(io.op, io.nlb) :
       LET r == Command(io.op, io.lbas, p, Stages20(io.op, p, io.nlb)) IN
       IF r.stages # <<>> /\ Head(r.stages) = "flash"
       THEN /\ submitted' = submitted + 1
            /\ GoesToFlash(s, r)
       ELSE Submit(s, Begin(r)) /\ UNCHANGED chunkVars

\* dmaDone, doRead, doWrite: the stage before the flash ends.
ToFlash(s) ==
  /\ \E stage \in {"job", "list", "in"} : \E r \in StageEnded(s, stage) :
       /\ Len(r.stages) > 1 /\ r.stages[2] = "flash"
       /\ GoesToFlash(s, [r EXCEPT !.stages = Tail(@)])
  /\ UNCHANGED submitted

\* The pages of a list are programmed, one after the other.
Programmed(fl, list) ==
  LET after[n \in 0 .. Len(list)] ==
        IF n = 0 THEN fl
        ELSE [after[n - 1] EXCEPT ![list[n].chunk] = Append(@, list[n].page)]
  IN after[Len(list)]

\* What a job makes of the flash.
Done(fl, op, list) ==
  CASE op \in {"read", "vectorChunkRead"} -> fl
    [] op \in {"write", "vectorChunkWrite"} -> Programmed(fl, list)
    [] Resets(op) -> [c \in Chunk |-> IF \E i \in DOMAIN list : list[i].chunk = c
                                     THEN <<>> ELSE fl[c]]

\* doRead, doWrite, doErase: the first job of the core is done, and its
\* completion queued.
FlashJob ==
  /\ flashJobs # <<>>
  /\ LET job == Head(flashJobs) IN
     \E r \in StageEnded(job.slot, "flash") :
       /\ command' = [command EXCEPT ![job.slot] = NextStage(r)]
       /\ flash' = Done(flash, job.op, job.list)
  /\ flashJobs' = Tail(flashJobs)
  /\ UNCHANGED <<descriptor, badBlocks, submitted>>

\* geometry() and getLogPage() write a page to the host.
geometry(p) == PointerStages(p) \o <<"out">>
chunkLog(p) == PointerStages(p) \o <<"out">>

SubmitAdmin20(s) ==
  /\ \E op \in {"geometry", "chunkLog"}, p \in PointersFor(1) :
       Submit(s, Begin(Command(op, <<>>, p,
                               IF op = "geometry" THEN geometry(p) ELSE chunkLog(p))))
  /\ UNCHANGED chunkVars

-----------------------------------------------------------------------------
(* Commands of revision 1.2.  The flash is used in the callback itself, and  *)
(* only the completion is queued; where the host writes is its own affair.   *)

deviceIdentification(p) == PointerStages(p) \o <<"out">>
getBadBlockTable(p) == PointerStages(p) \o <<"out">>
setBadBlockTable == <<"pointer", "in">>
physicalBlockErase(n) ==
  IF n > 1 THEN <<"pointer", "job", "in", "completion">> ELSE <<"job", "completion">>
physicalPageWrite(p, n) == PointerStages(p) \o <<"job">> \o List(n) \o <<"in", "completion">>
physicalPageRead(p, n) == PointerStages(p) \o <<"job">> \o List(n) \o <<"completion", "out">>
readIgnored == <<>>   \* OPCODE_READ: answered with nothing

Stages12(op, p, n) ==
  CASE op = "deviceIdentification" -> deviceIdentification(p)
    [] op = "getBadBlockTable" -> getBadBlockTable(p)
    [] op = "physicalBlockErase" -> physicalBlockErase(n)
    [] op = "physicalPageWrite" -> physicalPageWrite(p, n)
    [] op = "physicalPageRead" -> physicalPageRead(p, n)
    [] op = "readIgnored" -> readIgnored

Pointers12(op, n) ==
  CASE op = "readIgnored" -> {NoPointer}
    [] op = "physicalBlockErase" -> {IF n > 1 THEN PRPBase(1) ELSE NoPointer}
    [] OTHER -> PointersFor(n)

\* submitCommand() of revision 1.2; a bad block table of a PPA outside the
\* device is refused.
Submit12(s, io) ==
  /\ \E p \in Pointers12(io.op, io.nlb) :
       LET r == Command(io.op, <<>>, p, Stages12(io.op, p, io.nlb))
       IN \/ Submit(s, Begin(r))
          \/ /\ io.op = "getBadBlockTable"
             /\ Submit(s, Fail([r EXCEPT !.pointer = NoPointer]))
  /\ UNCHANGED chunkVars

SubmitSetBadBlocks(s, blocks, value) ==
  /\ Submit(s, Begin(Command("setBadBlockTable", [blocks |-> blocks, value |-> value],
                             PRPBase(1), setBadBlockTable)))
  /\ UNCHANGED chunkVars

\* Its dmaDone: a value of zero takes the blocks off the table.
SetBadBlocks(s) ==
  /\ command[s].op = "setBadBlockTable"
  /\ \E r \in StageEnded(s, "in") :
       /\ command' = [command EXCEPT ![s] = NextStage(r)]
       /\ badBlocks' = IF r.arg.value = 0 THEN badBlocks \ r.arg.blocks
                       ELSE badBlocks \cup r.arg.blocks
  /\ UNCHANGED <<submitted, descriptor, flash, flashJobs>>

-----------------------------------------------------------------------------
\* completion(), and every other callback that only leads to the next stage.
OpenChannelCallback(s) ==
  /\ \/ PieceEnds(s)
     \/ GoesOn(s, {"pointer", "completion", "out"})
     \/ /\ command[s].op # "setBadBlockTable"
        /\ \E stage \in {"job", "list", "in"} : \E r \in StageEnded(s, stage) :
             /\ Len(r.stages) > 1 => r.stages[2] # "flash"
             /\ command' = [command EXCEPT ![s] = NextStage(r)]
  /\ UNCHANGED <<submitted, chunkVars>>

OpenChannelInit ==
  /\ descriptor = [c \in Chunk |-> [state |-> "FREE", writePointer |-> 0]]
  /\ flash = [c \in Chunk |-> <<>>]
  /\ flashJobs = <<>>
  /\ badBlocks = {}

Host12(s) ==
  \/ \E io \in Requests12 : Submit12(s, io)
  \/ \E value \in 0 .. 1 : SubmitSetBadBlocks(s, {0, Chunks - 1}, value)

Host20(s) == SubmitAdmin20(s) \/ \E io \in Requests20 : SubmitIO20(s, io)

OpenChannelStep(s) == ToFlash(s) \/ SetBadBlocks(s) \/ OpenChannelCallback(s)

-----------------------------------------------------------------------------
(* Properties. *)

\* What the host is told of a chunk is what its state means (a free chunk has
\* its write pointer at zero, a closed one at its end, an open one between), and
\* when no job waits for the flash it is also what the flash holds.
ChunksSound ==
  \A c \in Chunk :
    LET d == descriptor[c] IN
    /\ d.state = "FREE" <=> d.writePointer = 0
    /\ d.state = "CLOSED" <=> d.writePointer = ChunkSize
    /\ flashJobs = <<>> =>
         d.writePointer = IF flash[c] = <<>> THEN 0 ELSE (Last(flash[c]) + 1) * WriteSize

\* Flash is programmed in the order of its pages, each at most once between two
\* erases, however the commands on a chunk overlap.
FlashInOrder ==
  \A c \in Chunk : \A i, j \in DOMAIN flash[c] : i < j => flash[c][i] < flash[c][j]
=============================================================================
