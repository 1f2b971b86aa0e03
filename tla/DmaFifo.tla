------------------------------- MODULE DmaFifo -------------------------------
(***************************************************************************)
(* The FIFO between a bus and a DMA engine (src/util/fifo.cc).  A write    *)
(* enters the FIFO (insertion), then leaves it by the DMA of the upstream  *)
(* interface (transfer); a read enters by DMA and leaves by insertion into *)
(* the bus below.  Each direction has a queue of requests that wait to     *)
(* enter and a queue of those inside, and its two stages overlap.          *)
(*                                                                         *)
(* Both directions enter alike (Enter).  Latencies are open: an event that *)
(* is scheduled may come at any time, after those its tick is computed     *)
(* from.  Where the code finishes a piece at once or by an event at a      *)
(* later tick, the model has the event: it may come next.                  *)
(***************************************************************************)
EXTENDS Integers, Sequences

CONSTANTS
  Capacity,       \* Capacity[d]: wqSize, rqSize
  TransferUnit,   \* transferUnit
  Size,           \* sizes of the requests that the layers below make
  MaxRequests     \* bound: requests of a behaviour

Direction == {"write", "read"}

\* The constructor panics otherwise.
ASSUME FifoAssumption ==
  /\ TransferUnit \in Nat \ {0}
  /\ Capacity \in [Direction -> Nat]
  /\ \A d \in Direction : TransferUnit <= Capacity[d]
  /\ Size \subseteq Nat
  /\ MaxRequests \in Nat

VARIABLES
  requests,        \* requests[d]: the sizes of all requests so far
  answered,        \* answered[d]: the requests whose function was called
  waitQueue,       \* waitQueue[d]: entries that wait to enter; the first one
                   \*   stays until it is inside
  entering,        \* entering[d]: insertPending of writes, transferPending of
                   \*   reads
  transferQueue,   \* transferQueue[d]: entries in the FIFO
  usage,           \* usage[d]
  beginTransfer,   \* beginTransfer[d]: the event that starts the second stage
                   \*   is scheduled
  leaving,         \* leaving[d], of the first entry in the FIFO: "idle",
                   \*   "busy" in its second stage, "waiting" for the DMA, or
                   \*   "submit": its completion is scheduled
  readCompletion,  \* ids of reads whose DMA ended before their insertion
  counter,         \* id of the next entry that is read
  moved            \* moved[d]: for each request the bytes that DMA moved

vars == <<requests, answered, waitQueue, entering, transferQueue, usage,
          beginTransfer, leaving, readCompletion, counter, moved>>

\* An entry is a piece of a request; last is FALSE when more pieces follow.
FIFOEntry(r, offset, size) ==
  [req |-> r, offset |-> offset, size |-> size, last |-> TRUE, id |-> 0]

\* The space an entry takes: whole transfer units, unless it is less than one.
calcSize(size) ==
  IF size < TransferUnit THEN size
  ELSE ((size + TransferUnit - 1) \div TransferUnit) * TransferUnit

-----------------------------------------------------------------------------
(* insertWrite(), transferRead(): the first waiting entry enters the FIFO. *)

\* It has to wait while another one enters or there is no room.  One that is
\* larger than the FIFO does not: it is split, and its first unit enters.
MustWait(d, entry, busy, used) ==
  /\ busy \/ used + calcSize(entry.size) > Capacity[d]
  /\ calcSize(entry.size) <= Capacity[d]

\* The pieces of an entry: its first unit and the rest, or the entry itself.
Split(d, entry) ==
  IF calcSize(entry.size) <= Capacity[d] THEN <<entry>>
  ELSE <<[entry EXCEPT !.size = TransferUnit, !.last = FALSE],
         [entry EXCEPT !.offset = @ + TransferUnit, !.size = @ - TransferUnit,
                       !.last = TRUE]>>

\* The queues of direction d after the first entry of `waiting` tried to enter;
\* `queue`, `used` and `busy` are what the calling handler left.
Enter(d, waiting, busy, queue, used) ==
  IF waiting = <<>> \/ MustWait(d, Head(waiting), busy, used)
  THEN /\ waitQueue'     = [waitQueue EXCEPT ![d] = waiting]
       /\ entering'      = [entering EXCEPT ![d] = busy]
       /\ transferQueue' = [transferQueue EXCEPT ![d] = queue]
       /\ usage'         = [usage EXCEPT ![d] = used]
       /\ UNCHANGED <<beginTransfer, counter>>
  ELSE LET pieces == Split(d, Head(waiting))
           first  == [pieces[1] EXCEPT !.id = IF d = "read" THEN counter ELSE 0]
       IN  /\ waitQueue'     = [waitQueue EXCEPT
                                  ![d] = <<first>> \o Tail(pieces) \o Tail(waiting)]
           /\ entering'      = [entering EXCEPT ![d] = TRUE]
           /\ transferQueue' = [transferQueue EXCEPT ![d] = Append(queue, first)]
           /\ usage'         = [usage EXCEPT ![d] = used + calcSize(first.size)]
           /\ beginTransfer' = [beginTransfer EXCEPT ![d] = TRUE]
           /\ counter'       = IF d = "read" THEN counter + 1 ELSE counter

\* dmaWrite(), dmaRead(): a request of no size is ignored.
Request(d, size) ==
  /\ Len(requests["write"]) + Len(requests["read"]) < MaxRequests
  /\ requests' = [requests EXCEPT ![d] = Append(@, size)]
  /\ moved' = [moved EXCEPT ![d] = Append(@, 0)]
  /\ IF size = 0
     THEN UNCHANGED <<waitQueue, entering, transferQueue, usage, beginTransfer, counter>>
     ELSE Enter(d, Append(waitQueue[d], FIFOEntry(Len(requests'[d]), 0, size)),
                entering[d], transferQueue[d], usage[d])
  /\ UNCHANGED <<answered, leaving, readCompletion>>

\* DMA of an entry ended.
MovedBy(d, entry) == moved' = [moved EXCEPT ![d][entry.req] = @ + entry.size]

-----------------------------------------------------------------------------
(* The first stage ends, and the next entry may enter. *)

insertWriteDone ==
  /\ entering["write"]
  /\ Enter("write", Tail(waitQueue["write"]), FALSE, transferQueue["write"],
           usage["write"])
  /\ UNCHANGED <<requests, answered, leaving, readCompletion, moved>>

\* A read whose insertion ended already is complete; else it is noted.
transferReadDone ==
  /\ entering["read"]
  /\ LET entry == Head(waitQueue["read"])
     IN  /\ IF leaving["read"] = "waiting" /\ Head(transferQueue["read"]).id = entry.id
            THEN /\ leaving' = [leaving EXCEPT !["read"] = "submit"]
                 /\ UNCHANGED readCompletion
            ELSE /\ readCompletion' = readCompletion \cup {entry.id}
                 /\ UNCHANGED leaving
         /\ MovedBy("read", entry)
  /\ Enter("read", Tail(waitQueue["read"]), FALSE, transferQueue["read"], usage["read"])
  /\ UNCHANGED <<requests, answered>>

-----------------------------------------------------------------------------
(* The second stage of the first entry in the FIFO. *)

\* transferWrite(), insertRead(), called by the event.
BeginTransfer(d) ==
  /\ beginTransfer[d]
  /\ beginTransfer' = [beginTransfer EXCEPT ![d] = FALSE]
  /\ leaving' = [leaving EXCEPT ![d] = IF @ = "idle" THEN "busy" ELSE @]
  /\ UNCHANGED <<requests, answered, waitQueue, entering, transferQueue, usage,
                 readCompletion, counter, moved>>

\* The DMA of a write ended; its completion comes after the end of its insertion.
transferWriteDone ==
  /\ leaving["write"] = "busy"
  /\ leaving' = [leaving EXCEPT !["write"] = "submit"]
  /\ MovedBy("write", Head(transferQueue["write"]))
  /\ UNCHANGED <<requests, answered, waitQueue, entering, transferQueue, usage,
                 beginTransfer, readCompletion, counter>>

\* The insertion of a read ended; it waits for the end of its DMA.
\* Mutant: it does not.
insertReadDoneEarly ==
  /\ leaving["read"] = "busy"
  /\ leaving' = [leaving EXCEPT !["read"] = "submit"]
  /\ readCompletion' = readCompletion \ {Head(transferQueue["read"]).id}
  /\ UNCHANGED <<requests, answered, waitQueue, entering, transferQueue, usage,
                 beginTransfer, counter, moved>>

insertReadDone ==
  /\ leaving["read"] = "busy"
  /\ LET id == Head(transferQueue["read"]).id
     IN  /\ leaving' = [leaving EXCEPT
              !["read"] = IF id \in readCompletion THEN "submit" ELSE "waiting"]
         /\ readCompletion' = readCompletion \ {id}
  /\ UNCHANGED <<requests, answered, waitQueue, entering, transferQueue, usage,
                 beginTransfer, counter, moved>>

\* The entry that enters is the last one in the FIFO.
Inside(d) == ~entering[d] \/ Len(transferQueue[d]) > 1

\* The space that an entry gives back.  Mutant: its size, not rounded.
ReleasedSize(entry) == entry.size
Released(entry) == calcSize(entry.size)

\* The next entry in the FIFO begins its second stage, unless the event will
\* start it.
BeginsNext(d, rest) == rest # <<>> /\ ~beginTransfer[d]

\* The last piece answers its request.
Answers(entry) == entry.last

\* Mutant of DoneNext: only insertWriteDone() and transferReadDone() let the next
\* waiting entry enter.
DoneNextOnly(d) ==
  /\ leaving[d] = "submit"
  /\ d = "write" => Inside(d)
  /\ LET entry == Head(transferQueue[d])
         rest  == Tail(transferQueue[d])
     IN  /\ answered' = IF Answers(entry)
                        THEN [answered EXCEPT ![d] = Append(@, entry.req)]
                        ELSE answered
         /\ leaving' = [leaving EXCEPT
              ![d] = IF BeginsNext(d, rest) THEN "busy" ELSE "idle"]
         /\ transferQueue' = [transferQueue EXCEPT ![d] = rest]
         /\ usage' = [usage EXCEPT ![d] = @ - Released(entry)]
  /\ UNCHANGED <<requests, waitQueue, entering, beginTransfer, readCompletion,
                 counter, moved>>

\* transferWriteDoneNext(), insertReadDoneNext(): answer the request if this was
\* its last piece, begin with the next entry unless the event will, and let the
\* next waiting entry enter.
DoneNext(d) ==
  /\ leaving[d] = "submit"
  /\ d = "write" => Inside(d)
  /\ LET entry == Head(transferQueue[d])
         rest  == Tail(transferQueue[d])
     IN  /\ answered' = IF Answers(entry)
                        THEN [answered EXCEPT ![d] = Append(@, entry.req)]
                        ELSE answered
         /\ leaving' = [leaving EXCEPT
              ![d] = IF BeginsNext(d, rest) THEN "busy" ELSE "idle"]
         /\ Enter(d, waitQueue[d], entering[d], rest, usage[d] - Released(entry))
  /\ UNCHANGED <<requests, readCompletion, moved>>

-----------------------------------------------------------------------------
Init ==
  /\ requests = [d \in Direction |-> <<>>]
  /\ answered = [d \in Direction |-> <<>>]
  /\ waitQueue = [d \in Direction |-> <<>>]
  /\ entering = [d \in Direction |-> FALSE]
  /\ transferQueue = [d \in Direction |-> <<>>]
  /\ usage = [d \in Direction |-> 0]
  /\ beginTransfer = [d \in Direction |-> FALSE]
  /\ leaving = [d \in Direction |-> "idle"]
  /\ readCompletion = {}
  /\ counter = 0
  /\ moved = [d \in Direction |-> <<>>]

Event ==
  \/ insertWriteDone
  \/ transferReadDone
  \/ \E d \in Direction : BeginTransfer(d)
  \/ transferWriteDone
  \/ insertReadDone
  \/ \E d \in Direction : DoneNext(d)

Next == Event \/ \E d \in Direction, size \in Size : Request(d, size)

\* Events that are scheduled come, and the upstream interface ends each DMA.
Fairness ==
  /\ WF_vars(insertWriteDone) /\ WF_vars(transferReadDone)
  /\ WF_vars(transferWriteDone) /\ WF_vars(insertReadDone)
  /\ \A d \in Direction : WF_vars(BeginTransfer(d)) /\ WF_vars(DoneNext(d))

Spec == Init /\ [][Next]_vars /\ Fairness

-----------------------------------------------------------------------------
(* Properties. *)

\* Every member of FIFO::Queue has its type, and an event that would use the
\* first entry of a queue finds one (fifo.cc uses front() unchecked).
TypeOK ==
  \A d \in Direction :
    /\ requests[d] \in Seq(Size) /\ Len(moved[d]) = Len(requests[d])
    /\ answered[d] \in Seq(1 .. MaxRequests)
    /\ usage[d] \in Nat
    /\ leaving[d] \in {"idle", "busy", "waiting", "submit"}
    /\ entering[d] => waitQueue[d] # <<>>
    /\ beginTransfer[d] \/ leaving[d] # "idle" => transferQueue[d] # <<>>
    /\ counter \in Nat /\ readCompletion \subseteq 0 .. counter - 1

\* The space that the entries of a queue take.
Space(queue) ==
  LET space[n \in 0 .. Len(queue)] ==
        IF n = 0 THEN 0 ELSE space[n - 1] + calcSize(queue[n].size)
  IN space[Len(queue)]

\* The usage is what the entries in the FIFO take, whatever was split and in
\* whatever order the stages ended.
UsageExact == \A d \in Direction : usage[d] = Space(transferQueue[d])

\* The requests of some size, in the order in which they were made.
Real(sizes) ==
  LET real[n \in 0 .. Len(sizes)] ==
        IF n = 0 THEN <<>>
        ELSE IF sizes[n] > 0 THEN Append(real[n - 1], n)
        ELSE real[n - 1]
  IN real[Len(sizes)]

\* Requests of some size are answered in the order in which they were made, and
\* none twice, whatever pieces they were split into.
AnsweredInOrder ==
  \A d \in Direction :
    answered[d] = SubSeq(Real(requests[d]), 1, Len(answered[d]))

\* What the layers below see is a DMA interface: in each direction, requests
\* are answered in order, once, and after all of their bytes moved.  What is
\* pending counts the answers; AnsweredInOrder says whose they are.
Unanswered(d) ==
  LET real == Real(requests[d])
  IN  SubSeq(real, Len(answered[d]) + 1, Len(real))
pending == [d \in Direction |->
              LET left == Unanswered(d)
              IN  [k \in DOMAIN left |-> requests[d][left[k]] - moved[d][left[k]]]]
Port == INSTANCE DmaPort WITH pending <- pending, Size <- Size \ {0}
ImplementsPort == Port!Spec /\ []AnsweredInOrder

\* Every request of some size is answered: no entry waits for room, for the end
\* of another or for an event that was not scheduled, for ever.
AllAnswered ==
  \A d \in Direction, r \in 1 .. MaxRequests :
    r \in DOMAIN requests[d] /\ requests[d][r] > 0
      ~> \E k \in DOMAIN answered[d] : answered[d][k] = r
=============================================================================
