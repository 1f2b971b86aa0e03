---------------------------- MODULE LogicalSpace ----------------------------
(***************************************************************************)
(* What a flash translation layer promises to the layer above it (the      *)
(* interface of src/ftl/abstract_ftl.hh): a logical unit reads as mapped   *)
(* from the write that stores it to the trim or format that discards it,   *)
(* and the work the layer does on its own account changes nothing of that. *)
(***************************************************************************)
EXTENDS Integers

CONSTANTS LPN,    \* logical pages
          Unit    \* units of a page

VARIABLES mapped,   \* the logical units that hold data
          phase     \* "idle", "busy" with internal work, or "halted"

Init == mapped = {} /\ phase = "idle"

Write(l, units) ==
  /\ phase = "idle"
  /\ mapped' = mapped \cup ({l} \X units)
  /\ phase' \in {"idle", "busy"}

Discard(lpns) ==
  /\ phase = "idle"
  /\ mapped' = mapped \ (lpns \X Unit)
  /\ phase' \in {"idle", "busy"}

\* Internal work: garbage collection moves data and maps it all the same.
Collect ==
  /\ phase = "busy"
  /\ phase' \in {"idle", "busy"}
  /\ UNCHANGED mapped

Halt ==
  /\ phase # "halted"
  /\ phase' = "halted"
  /\ UNCHANGED mapped

Next ==
  \/ \E l \in LPN, units \in SUBSET Unit : Write(l, units)
  \/ \E lpns \in SUBSET LPN : Discard(lpns)
  \/ Collect
  \/ Halt

Spec == Init /\ [][Next]_<<mapped, phase>>
=============================================================================
