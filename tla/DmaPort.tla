------------------------------- MODULE DmaPort -------------------------------
(***************************************************************************)
(* What a DMA interface promises (src/sim/dma_interface.hh): in each       *)
(* direction, a request is answered once, after all of its bytes moved,    *)
(* and requests are answered in the order in which they were made.         *)
(***************************************************************************)
EXTENDS Naturals, Sequences

CONSTANTS Direction,
          Size          \* sizes of requests

VARIABLE pending        \* pending[d]: for each request not answered, the
                        \*   bytes it has left to move

Init == pending = [d \in Direction |-> <<>>]

Request(d, size) == pending' = [pending EXCEPT ![d] = Append(@, size)]

Move(d, k, left) == pending' = [pending EXCEPT ![d][k] = left]

Answer(d) ==
  /\ pending[d] # <<>> /\ Head(pending[d]) = 0
  /\ pending' = [pending EXCEPT ![d] = Tail(@)]

Next ==
  \E d \in Direction :
    \/ \E size \in Size : Request(d, size)
    \/ \E k \in DOMAIN pending[d] :
         \E left \in 0 .. pending[d][k] - 1 : Move(d, k, left)
    \/ Answer(d)

Spec == Init /\ [][Next]_pending
=============================================================================
