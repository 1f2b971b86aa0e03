---------------------------- MODULE NvmeCommand ----------------------------
(***************************************************************************)
(* What the subsystems of the NVMe controller have in common: a command    *)
(* runs through a chain of callbacks.  Each of its stages has one or more  *)
(* pieces under way (firmware jobs, transfers of its data, requests to the *)
(* layers below), which the environment ends in any order; when the last   *)
(* one ends, the next stage begins, and after the last stage the command   *)
(* is answered by its RequestFunction.                                     *)
(***************************************************************************)
EXTENDS DataPointer, FiniteSets

CONSTANTS
  Pointers,    \* the data pointers the host uses
  Slot,        \* command slots of the host
  MaxCommands  \* bound: commands the host issues

ASSUME NvmeCommandAssumption ==
  /\ \A p \in Pointers :
       \/ /\ p.type = "PRP" /\ p.size \in Nat \ {0} /\ p.offset \in 0 .. PageSize - 1
          /\ Understood(p)
       \/ p.type = "SGL" /\ p.segments \in Seq(Seq([length : Nat, ignore : BOOLEAN]))
  /\ Slot \subseteq Nat /\ MaxCommands \in Nat

VARIABLES
  command,    \* command[s]: the command on a slot of the host
  submitted   \* commands the host issued

commandVars == <<command, submitted>>

\* Length of the data a pointer describes.
DataLength(p) ==
  IF p.type = "PRP" THEN p.size
  ELSE FoldLeft(LAMBDA n, d : n + d.length, 0, SGLDescriptors(p))

PointersFor(length) == {p \in Pointers : DataLength(p) = length}
NoPointer == [type |-> "none"]

\* What is under way: a transfer, or something else, which moves nothing.
Piece(kind) == [Transfer(0, 0, 0) EXCEPT !.kind = kind]

\* The transfers of a DMA read ("in") or write ("out"); without any, the join
\* ends at once.
DataPieces(p) ==
  LET t == IF p = NoPointer THEN {} ELSE ToSet(Transfers(Regions(p), 0, DataLength(p)))
  IN IF t = {} THEN {Piece("immediate")} ELSE t

\* A command: what the host asked for (op and arg), its data pointer and the
\* transfers it takes, its stages, of which the first is under way, the pieces of
\* that one, the units moved so far, its status, and how often it was answered.
Command(op, arg, pointer, stages) ==
  [op |-> op, arg |-> arg, pointer |-> pointer, data |-> DataPieces(pointer),
   stages |-> stages, under |-> {}, moved |-> {}, status |-> "success", answers |-> 0]
NoCommand == Command("none", <<>>, NoPointer, <<>>)

\* new PRPList or new SGL: reads its lists one after the other, then calls the
\* function it was given, which is a firmware job for some commands.
PointerStages(p) ==
  [i \in 1 .. (IF PointerReads(p) = 0 THEN 1 ELSE PointerReads(p)) |-> "pointer"]

\* The pieces a stage begins with.
Pieces(r) ==
  CASE Head(r.stages) \in {"in", "out"} -> r.data
    [] Head(r.stages) \in {"in, HIL", "out, HIL"} ->
         r.data \cup {Piece("HIL")}
    [] OTHER -> {Piece(Head(r.stages))}

\* Begin the first stage; without one, answer.
Begin(r) ==
  IF r.stages = <<>> THEN [r EXCEPT !.under = {}, !.answers = @ + 1]
  ELSE [r EXCEPT !.under = Pieces(r)]

\* The stage under way ended.
NextStage(r) == Begin([r EXCEPT !.stages = Tail(@)])

\* Mutant of Fail: an error ends the command, but nobody calls its function.
FailSilently(r) == [r EXCEPT !.stages = <<>>, !.under = {}, !.status = "error"]

\* Answer with an error, whatever was left to do.
Fail(r) == Begin([r EXCEPT !.stages = <<>>, !.status = "error"])

\* A piece ends: commonDMAHandler() and the counters of the join in each command.
EndPiece(r, piece) ==
  [r EXCEPT !.under = @ \ {piece}, !.moved = @ \cup UnitsOf(piece)]

\* A piece of the command on slot s ends, and the others go on.
PieceEnds(s) ==
  \E piece \in command[s].under :
    LET r == EndPiece(command[s], piece) IN
    /\ r.under # {}
    /\ command' = [command EXCEPT ![s] = r]

\* The command on slot s when the last piece of its stage ends.
AtStage(s, stages) == command[s].stages # <<>> /\ Head(command[s].stages) \in stages
StageEnded(s, stage) ==
  IF ~AtStage(s, {stage}) THEN {}
  ELSE {r \in {EndPiece(command[s], piece) : piece \in command[s].under} : r.under = {}}

\* The stage ends, and nothing but the next stage follows.
GoesOn(s, stages) ==
  /\ AtStage(s, stages)
  /\ \E r \in StageEnded(s, Head(command[s].stages)) :
       command' = [command EXCEPT ![s] = NextStage(r)]

-----------------------------------------------------------------------------
(* The host. *)

\* The host puts a command on its first free slot: no two slots differ.
Free(s) == command[s] = NoCommand /\ \A t \in Slot : t < s => command[t] # NoCommand
Submit(s, r) ==
  /\ Free(s)
  /\ submitted < MaxCommands
  /\ command' = [command EXCEPT ![s] = r]
  /\ submitted' = submitted + 1

\* The host sees the completion and takes its slot back.
TakeCompletion(s) ==
  /\ command[s].answers > 0
  /\ command' = [command EXCEPT ![s] = NoCommand]
  /\ UNCHANGED submitted

CommandInit == command = [s \in Slot |-> NoCommand] /\ submitted = 0

-----------------------------------------------------------------------------
(* Properties. *)

\* A command is answered once, when nothing of it is under way any more; and if
\* it succeeded, all of its data was moved, each unit to its place: whatever the
\* shape of its data pointer and the order in which its transfers, jobs and
\* requests end.
AnsweredInFull ==
  \A s \in Slot :
    LET r == command[s] IN
    r.answers > 0 =>
      /\ r.answers = 1 /\ r.under = {} /\ r.stages = <<>>
      /\ r.status = "success" /\ r.pointer # NoPointer
           => r.moved = Whole(r.pointer, DataLength(r.pointer))
=============================================================================
