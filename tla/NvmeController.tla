----------------------------- MODULE NvmeController -----------------------------
(***************************************************************************)
(* The NVMe controller of SimpleSSD (src/hil/nvme/controller.cc) with its  *)
(* queues (queue.cc) and the queue commands of the subsystem               *)
(* (subsystem.cc): submission queues are fetched by DMA in arbitration     *)
(* order, commands run below and finish in any order, completions are      *)
(* posted by DMA, and interrupts, coalesced or not, tell the host.         *)
(*                                                                         *)
(* The host is the environment.  It keeps the rules of the interface: it   *)
(* has fewer commands outstanding than a queue holds, one of them at most  *)
(* an admin command, uses no queue it asked to delete, and reads           *)
(* completions when an interrupt is pending.  It frees slots by counting   *)
(* its commands, so the head that a completion reports is left out.        *)
(*                                                                         *)
(* The controller polls its queues in a loop of events and firmware jobs.  *)
(* How long those, the DMA transfers and the commands take is open: they   *)
(* may happen in any order that their chaining allows.                     *)
(***************************************************************************)
EXTENDS Integers, Sequences, FiniteSets, FiniteSetsExt, SequencesExt

CONSTANTS
  LastSQ, LastCQ,        \* queues are 0 (admin) to sqsize - 1, cqsize - 1
  SqSize, CqSize,        \* slots of a queue
  CqOf,                  \* CqOf[q]: the completion queue of queue q
  Vector,                \* Vector[c]: the interrupt vector of queue c
  Priority,              \* Priority[q], of an I/O submission queue
  Arbitration,           \* what the host may select in CC.AMS: "round robin",
                         \*   "weighted"
  WrrHigh, WrrMedium,    \* NVME_WRR_HIGH, NVME_WRR_MEDIUM
  MaxRequest,            \* NVME_MAX_REQUEST_COUNT
  Threshold,             \* aggregationThreshold
  AdminOps,              \* admin commands the host uses
  HostDrains,            \* the host deletes a completion queue only when all
                         \*   commands that complete to it are done
  Start,                 \* the slot at which the queues stand at first
  MaxCommands            \* bound: commands of a behaviour

SQ == 0 .. LastSQ
CQ == 0 .. LastCQ
Slot(size) == 0 .. size - 1
Id == 1 .. MaxCommands

ASSUME ControllerAssumption ==
  /\ LastSQ \in Nat /\ LastCQ \in Nat
  /\ SqSize \in Nat \ {0, 1} /\ CqSize \in Nat \ {0, 1}
  /\ CqOf \in [SQ -> CQ]
  /\ \A q \in SQ : CqOf[q] = 0 <=> q = 0
  /\ Priority \in [SQ -> {"urgent", "high", "medium", "low"}]
  /\ Arbitration \subseteq {"round robin", "weighted"}
  /\ WrrHigh \in Nat \ {0} /\ WrrMedium \in Nat \ {0} /\ MaxRequest \in Nat \ {0}
  /\ Threshold \in Nat
  /\ AdminOps \subseteq {"delete SQ", "create SQ", "delete CQ", "create CQ",
                        "abort", "coalesce", "shutdown"}
  /\ HostDrains \in BOOLEAN
  /\ Start \in Slot(SqSize) \cap Slot(CqSize)
  /\ MaxCommands \in Nat

Vectors == {Vector[c] : c \in CQ}

VARIABLES
  cmd,              \* cmd[i]: the i-th command of the host: its submission
                    \*   queue, operation and argument
  sq,               \* sq[q]: exists, head, tail, and ring, the host's memory
  cq,               \* cq[c]: exists, head, tail, phase, and ring
  host,             \* what the host knows: the queues it uses (sqs, cqs), the
                    \*   arbitration it selected (CC.AMS), and by completion
                    \*   queue the slot and the phase of the entry it reads next
  done,             \* commands the host saw complete
  loop,             \* what the controller does next: "work", "collect",
                    \*   "handle" or "stopped"
  requestCounter,
  fetching,         \* DMA reads of submission queue slots in flight
  lSQFIFO,          \* commands fetched
  executing,        \* commands given to the subsystem
  created,          \* those that created a queue and read its PRP list
  lCQFIFO,          \* completions to post
  completionEvent,  \* "off", "now", or "timer": when an aggregation time ends
  posting,          \* calls of completion() whose DMA writes are in flight:
                    \*   the writes left and the vectors to post
  interrupts,       \* pending interrupt vectors
  aggregationMap,   \* by vector: valid, count, pending, and whether the
                    \*   aggregation time is running (nextTime > now)
  status,           \* "ready", "shutdown" in progress, or "complete"
  panic

loopVars == <<loop, requestCounter, fetching, lSQFIFO>>
postVars == <<posting, interrupts>>
vars == <<cmd, sq, cq, host, done, loopVars, executing, created, lCQFIFO,
          completionEvent, postVars, aggregationMap, status, panic>>

NoPanic == "none"
Issued == DOMAIN cmd
\* A queue that was just created; 0 is no command.
NewSQ == [exists |-> TRUE, head |-> 0, tail |-> 0,
          ring |-> [s \in Slot(SqSize) |-> 0]]
NewCQ == [exists |-> TRUE, head |-> 0, tail |-> 0, phase |-> TRUE,
          ring |-> [s \in Slot(CqSize) |-> [id |-> 0, phase |-> FALSE]]]
\* The first entry the host reads in a new queue.
FirstRead == [slot |-> 0, phase |-> TRUE]
NoAggregation == [valid |-> FALSE, running |-> FALSE, count |-> 0,
                  pending |-> FALSE]

-----------------------------------------------------------------------------
(* Queues. *)

\* getItemCount()
ItemCount(head, tail, size) == IF tail >= head THEN tail - head
                                               ELSE (size - head) + tail
SqItems(q) == ItemCount(sq[q].head, sq[q].tail, SqSize)

\* clearInterrupt(): the vector stays pending while any of its queues holds an
\* entry, posted or on its way.
\* Mutant: only the queue whose doorbell rang counts.
clearInterruptOfOne(c, queues) ==
  LET items(d) == ItemCount(queues[d].head, queues[d].tail, CqSize)
  IN  interrupts' = IF items(c) > 0 THEN interrupts \cup {Vector[c]}
                                    ELSE interrupts \ {Vector[c]}

clearInterrupt(c, queues) ==
  LET items(d) == ItemCount(queues[d].head, queues[d].tail, CqSize)
      left == {d \in CQ : /\ queues[d].exists /\ Vector[d] = Vector[c]
                          /\ items(d) > 0}
  IN  interrupts' = IF left # {} THEN interrupts \cup {Vector[c]}
                                 ELSE interrupts \ {Vector[c]}

-----------------------------------------------------------------------------
(* collectSQueue(): the order in which entries are fetched. *)

\* What a collection begins with: the entries left in each queue, those taken by
\* the priority that is served, their order, and whether its pass stops.
Uncollected == [left |-> [q \in SQ |-> SqItems(q)], updated |-> 0, order |-> <<>>,
                stop |-> FALSE]
TakeOne(s, q) == [s EXCEPT !.left[q] = @ - 1, !.order = Append(@, q)]

\* A pass over some of the queues, in turn; it stops when the number of entries
\* taken reaches the quota, if there is one.  The count goes on from pass to pass.
NoQuota == 0
TakeTurn(s, q, queues, quota) ==
  IF s.stop \/ q \notin queues \/ s.left[q] = 0 THEN s
  ELSE [TakeOne(s, q) EXCEPT !.updated = IF @ + 1 = quota THEN 0 ELSE @ + 1,
                             !.stop = s.updated + 1 = quota]
Pass(s, queues, quota) ==
  FoldLeft(LAMBDA t, q : TakeTurn(t, q, queues, quota),
           [s EXCEPT !.stop = FALSE], [k \in 1 .. LastSQ + 1 |-> k - 1])

\* One entry of each queue in turn, until none is left.
RoundRobin(queues) ==
  FoldLeft(LAMBDA s, n : Pass(s, queues, NoQuota), Uncollected,
           [n \in 1 .. SqSize |-> n]).order

\* The pass for low priority takes one entry, of a queue of medium priority.
LowPass(s, medium) ==
  LET ready == {q \in medium : s.left[q] > 0}
  IN  IF ready = {} THEN s ELSE TakeOne(s, Min(ready))

WeightedPass(s, high, medium) ==
  LowPass(Pass(Pass(s, high, WrrHigh), medium, WrrMedium), medium)

WeightedRoundRobin(queues) ==
  LET class(p) == {q \in queues \ {0} : Priority[q] = p}
  IN  [k \in 1 .. SqItems(0) |-> 0] \o RoundRobin(class("urgent"))
      \o FoldLeft(LAMBDA s, n : WeightedPass(s, class("high"), class("medium")),
                  Uncollected, [n \in 1 .. SqSize * LastSQ |-> n]).order

CollectOrder ==
  LET queues == {q \in SQ : sq[q].exists}
  IN  IF host.arbitration = "weighted" THEN WeightedRoundRobin(queues)
                                       ELSE RoundRobin(queues)

\* The DMA reads of the entries, and the head of a queue once they are issued.
Reads(order) ==
  [k \in DOMAIN order |->
     LET q == order[k]
     IN  [sq |-> q,
          slot |-> (sq[q].head + Cardinality({j \in 1 .. k - 1 : order[j] = q}))
                     % SqSize]]
Fetched(order) ==
  [q \in SQ |-> [sq[q] EXCEPT
     !.head = (@ + Cardinality({j \in DOMAIN order : order[j] = q})) % SqSize]]

-----------------------------------------------------------------------------
(* The loop: work(), collectSQueue(), handleRequest(). *)

\* Mutant of WorkEvent: a controller that is shutting down is not ready.
WorkEventStops ==
  /\ loop = "work"
  /\ IF status # "ready"
     THEN loop' = "stopped" /\ UNCHANGED <<fetching, sq>>
     ELSE /\ loop' = "collect"
          /\ fetching' = Reads(CollectOrder)
          /\ sq' = Fetched(CollectOrder)
  /\ UNCHANGED <<cmd, cq, host, done, requestCounter, lSQFIFO, executing, created,
                 lCQFIFO, completionEvent, postVars, aggregationMap, status, panic>>

\* work(): stop when the controller is not ready, else fetch what is queued.
WorkEvent ==
  /\ loop = "work"
  /\ IF status = "complete"
     THEN loop' = "stopped" /\ UNCHANGED <<fetching, sq>>
     ELSE /\ loop' = "collect"
          /\ fetching' = Reads(CollectOrder)
          /\ sq' = Fetched(CollectOrder)
  /\ UNCHANGED <<cmd, cq, host, done, requestCounter, lSQFIFO, executing,
                 created, lCQFIFO, completionEvent, postVars, aggregationMap, status,
                 panic>>

\* checkQueue(): a DMA read ends.
FetchDone ==
  /\ fetching # <<>>
  /\ LET f == Head(fetching)
     IN  lSQFIFO' = Append(lSQFIFO, sq[f.sq].ring[f.slot])
  /\ fetching' = Tail(fetching)
  /\ UNCHANGED <<cmd, sq, cq, host, done, loop, requestCounter, executing,
                 created, lCQFIFO, completionEvent, postVars, aggregationMap, status,
                 panic>>

\* Mutants of QueueFunction: it does not wait for the reads in flight; what was
\* fetched survives the shutdown.
QueueFunctionEarly ==
  /\ loop = "collect"
  /\ loop' = "handle"
  /\ requestCounter' = 0
  /\ status' = IF status = "shutdown" THEN "complete" ELSE status
  /\ lSQFIFO' = IF status = "shutdown" THEN <<>> ELSE lSQFIFO
  /\ UNCHANGED <<cmd, sq, cq, host, done, fetching, executing, created, lCQFIFO,
                 completionEvent, postVars, aggregationMap, panic>>

QueueFunctionKeeps ==
  /\ loop = "collect"
  /\ fetching = <<>>
  /\ loop' = "handle"
  /\ requestCounter' = 0
  /\ status' = IF status = "shutdown" THEN "complete" ELSE status
  /\ UNCHANGED <<cmd, sq, cq, host, done, fetching, lSQFIFO, executing, created,
                 lCQFIFO, completionEvent, postVars, aggregationMap, panic>>

\* Every DMA read of this round ended: acknowledge a shutdown, go on to handle.
QueueFunction ==
  /\ loop = "collect"
  /\ fetching = <<>>
  /\ loop' = "handle"
  /\ requestCounter' = 0
  /\ status' = IF status = "shutdown" THEN "complete" ELSE status
  /\ lSQFIFO' = IF status = "shutdown" THEN <<>> ELSE lSQFIFO
  /\ UNCHANGED <<cmd, sq, cq, host, done, fetching, executing, created, lCQFIFO,
                 completionEvent, postVars, aggregationMap, panic>>

\* handleRequest(): give one command to the subsystem; after MaxRequest of them,
\* or when there is none, look at the queues again.
HandleRequest ==
  /\ loop = "handle"
  /\ IF lSQFIFO = <<>> THEN UNCHANGED <<lSQFIFO, executing>>
     ELSE /\ executing' = executing \cup {Head(lSQFIFO)}
          /\ lSQFIFO' = Tail(lSQFIFO)
  /\ requestCounter' = requestCounter + 1
  /\ loop' = IF lSQFIFO' # <<>> /\ requestCounter' < MaxRequest THEN loop
                                                                ELSE "work"
  /\ UNCHANGED <<cmd, created, sq, cq, host, done, fetching, lCQFIFO, completionEvent,
                 postVars, aggregationMap, status, panic>>

-----------------------------------------------------------------------------
(* Commands in the subsystem. *)

CompletionQueueOf(i) == CqOf[cmd[i].sq]

\* submit(): queue completions, to be posted at once.
submit(entries) ==
  IF \E k \in DOMAIN entries : ~cq[CompletionQueueOf(entries[k])].exists
  THEN panic' = "completion queue not created" /\ UNCHANGED <<lCQFIFO, completionEvent>>
  ELSE /\ lCQFIFO' = lCQFIFO \o entries
       /\ completionEvent' = "now"
       /\ UNCHANGED panic

Executes(i, op) == i \in executing /\ cmd[i].op = op
Finish(i) == executing' = executing \ {i}

\* An I/O command, or the creation of a queue, is complete.
CompleteIO(i) ==
  /\ i \in executing
  /\ cmd[i].op = "io" \/ i \in created
  /\ Finish(i)
  /\ created' = created \ {i}
  /\ submit(<<i>>)
  /\ UNCHANGED <<cmd, sq, cq, host, done, loopVars, postVars, aggregationMap, status>>

\* deleteSQueue(): abort the commands of the queue that wait in lSQFIFO.  The
\* iterator moves once more after each erase, so the entry behind an aborted one
\* is passed over; beyond the end it starts again at the first entry.
AbortAll(q) ==
  LET step(s, k) ==
        IF s.pos > Len(s.fifo) THEN s
        ELSE IF cmd[s.fifo[s.pos]].sq = q
        THEN LET left == RemoveAt(s.fifo, s.pos)
             IN  [fifo |-> left, aborted |-> Append(s.aborted, s.fifo[s.pos]),
                  pos |-> IF s.pos > Len(left) THEN 1 ELSE s.pos + 1]
        ELSE [s EXCEPT !.pos = @ + 1]
      n == Len(lSQFIFO)
  IN  FoldLeft(step, [fifo |-> lSQFIFO, aborted |-> <<>>, pos |-> 1],
               [k \in 1 .. n * (n + 1) |-> k])

DeleteSQ(i) ==
  /\ Executes(i, "delete SQ")
  /\ LET q == cmd[i].arg
     IN  IF sq[q].exists /\ q > 0
         THEN /\ lSQFIFO' = AbortAll(q).fifo
              /\ submit(Append(AbortAll(q).aborted, i))
              /\ sq' = [sq EXCEPT ![q].exists = FALSE]
         ELSE submit(<<i>>) /\ UNCHANGED <<lSQFIFO, sq>>
  /\ Finish(i)
  /\ UNCHANGED <<cmd, created, cq, host, done, loop, requestCounter, fetching,
                 postVars, aggregationMap, status>>

\* createSQueue(): the queue is there at once; the answer comes when its PRP
\* list is read, and never when the queue cannot be created.
CreateSQ(i) ==
  /\ Executes(i, "create SQ") /\ i \notin created
  /\ LET q == cmd[i].arg
     IN  IF ~sq[q].exists /\ cq[CqOf[q]].exists
         THEN /\ sq' = [sq EXCEPT ![q] = NewSQ]
              /\ created' = created \cup {i}
              /\ UNCHANGED executing
         ELSE Finish(i) /\ UNCHANGED <<sq, created>>
  /\ UNCHANGED <<cmd, cq, host, done, loopVars, lCQFIFO, completionEvent,
                 postVars, aggregationMap, status, panic>>

CreateCQ(i) ==
  /\ Executes(i, "create CQ") /\ i \notin created
  /\ LET c == cmd[i].arg
     IN  IF ~cq[c].exists
         THEN /\ cq' = [cq EXCEPT ![c] = NewCQ]
              /\ aggregationMap' = [aggregationMap EXCEPT ![Vector[c]] = NoAggregation]
              /\ created' = created \cup {i}
              /\ UNCHANGED executing
         ELSE Finish(i) /\ UNCHANGED <<cq, aggregationMap, created>>
  /\ UNCHANGED <<cmd, sq, host, done, loopVars, lCQFIFO, completionEvent,
                 postVars, status, panic>>

\* deleteCQueue(): refused while a submission queue uses it; the search goes
\* over as many submission queues as there are completion queues.
DeleteCQ(i) ==
  /\ Executes(i, "delete CQ")
  /\ LET c == cmd[i].arg
         used == \E q \in SQ : /\ q \in 1 .. LastCQ /\ sq[q].exists /\ CqOf[q] = c
         sameIV == \E d \in CQ \ {0, c} : cq[d].exists /\ Vector[d] = Vector[c]
     IN  IF cq[c].exists /\ c > 0 /\ ~used
         THEN /\ cq' = [cq EXCEPT ![c].exists = FALSE]
              /\ aggregationMap' = IF sameIV THEN aggregationMap
                   ELSE [aggregationMap EXCEPT ![Vector[c]] = NoAggregation]
         ELSE UNCHANGED <<cq, aggregationMap>>
  /\ submit(<<i>>)
  /\ Finish(i)
  /\ UNCHANGED <<cmd, created, sq, host, done, loopVars, postVars, status>>

\* abort(): a command that still waits in lSQFIFO completes as aborted.
Abort(i) ==
  /\ Executes(i, "abort")
  /\ LET aborted == cmd[i].arg
         q == cmd[aborted].sq
     IN  IF ~Contains(lSQFIFO, aborted)
         THEN submit(<<i>>) /\ UNCHANGED lSQFIFO
         ELSE IF ~sq[q].exists
         THEN /\ panic' = "head of a deleted queue"
              /\ UNCHANGED <<lSQFIFO, lCQFIFO, completionEvent>>
         ELSE /\ lSQFIFO' = RemoveFirst(lSQFIFO, aborted)
              /\ submit(<<aborted, i>>)
  /\ Finish(i)
  /\ UNCHANGED <<cmd, created, sq, cq, host, done, loop, requestCounter,
                 fetching, postVars, aggregationMap, status>>

\* setCoalescing(): the argument is a vector that a created I/O queue uses.
SetCoalescing(i) ==
  /\ Executes(i, "coalesce")
  /\ LET v == cmd[i].arg
     IN  IF \E c \in CQ \ {0} : cq[c].exists /\ Vector[c] = v
         THEN aggregationMap' = [aggregationMap EXCEPT
                ![v] = [NoAggregation EXCEPT !.valid = ~aggregationMap[v].valid]]
         ELSE UNCHANGED aggregationMap
  /\ submit(<<i>>)
  /\ Finish(i)
  /\ UNCHANGED <<cmd, created, sq, cq, host, done, loopVars, postVars, status>>

-----------------------------------------------------------------------------
(* completion(): post completions and interrupts. *)

\* CQueue::setData(): the tail after an entry is written, and the phase.
\* Mutant: the phase stays when the tail starts again.
SetDataSamePhase(queue) == [queue EXCEPT !.tail = (@ + 1) % CqSize]
SetData(queue) ==
  LET tail == (queue.tail + 1) % CqSize
  IN  [queue EXCEPT !.tail = tail,
                    !.phase = IF tail = 0 THEN ~queue.phase ELSE queue.phase]

\* An interrupt waits while its aggregation time runs and the threshold is not
\* passed; it never does for the admin queue.
Coalesced(a, c) == c > 0 /\ a.valid /\ a.running /\ a.count < Threshold
AfterEntry(a, c) ==
  CASE c = 0 \/ ~a.valid -> a
    [] Coalesced(a, c) -> [a EXCEPT !.count = @ + 1, !.pending = TRUE]
    [] c > 0 /\ a.valid /\ ~Coalesced(a, c) -> [a EXCEPT !.count = 0, !.running = TRUE]

\* One completion: the DMA write of its entry and what it does to the vector.
PostEntry(s, i) ==
  LET c == CompletionQueueOf(i)
      v == Vector[c]
      queue == s.cq[c]
      next  == SetData(queue)
  IN  IF s.panic # NoPanic \/ ~queue.exists
      THEN [s EXCEPT !.panic = "completion queue not created"]
      ELSE [cq |-> [s.cq EXCEPT ![c] = next],
            agg |-> [s.agg EXCEPT ![v] = AfterEntry(@, c)],
            writes |-> Append(s.writes, [cq |-> c, slot |-> queue.tail,
                                         entry |-> [id |-> i, phase |-> queue.phase]]),
            ivs |-> IF Coalesced(s.agg[v], c) THEN s.ivs ELSE s.ivs \cup {v},
            panic |-> IF next.head = next.tail THEN "completion queue overflow"
                                               ELSE NoPanic]

Due(agg) == {v \in Vectors : agg[v].valid /\ agg[v].pending /\ ~agg[v].running}

\* completion() runs when it is scheduled: at once, or when an aggregation time
\* ends.  Vectors that are due go out with the entries; without an entry there
\* is no DMA write whose end would post them.
CompletionEventRuns ==
  \/ completionEvent = "now"
  \/ completionEvent = "timer" /\ Due(aggregationMap) # {}

Completion ==
  /\ CompletionEventRuns
  /\ LET s == FoldLeft(PostEntry, [cq |-> cq, agg |-> aggregationMap,
                                   writes |-> <<>>, ivs |-> {}, panic |-> panic],
                       lCQFIFO)
     IN  /\ panic' = s.panic
         /\ cq' = s.cq
         /\ aggregationMap' = [v \in Vectors |->
              IF v \in Due(s.agg)
              THEN [s.agg[v] EXCEPT !.running = TRUE, !.count = 0, !.pending = FALSE]
              ELSE s.agg[v]]
         /\ posting' = IF s.writes = <<>> THEN posting
              ELSE Append(posting, [writes |-> s.writes, ivs |-> s.ivs \cup Due(s.agg)])
  /\ lCQFIFO' = <<>>
  /\ completionEvent' = "off"
  /\ UNCHANGED <<cmd, sq, host, done, loopVars, executing, created, interrupts, status>>

\* The DMA write of an entry reaches the memory of the host.
PostWrite(k) ==
  /\ k \in DOMAIN posting /\ posting[k].writes # <<>>
  /\ LET w == Head(posting[k].writes)
     IN  cq' = [cq EXCEPT ![w.cq].ring[w.slot] = w.entry]
  /\ posting' = [posting EXCEPT ![k].writes = Tail(@)]
  /\ UNCHANGED <<cmd, sq, host, done, loopVars, executing, created, lCQFIFO,
                 completionEvent, interrupts, aggregationMap, status, panic>>

\* send: all entries are written; post the interrupts.  reserveCompletion().
Send(k) ==
  /\ k \in DOMAIN posting /\ posting[k].writes = <<>>
  /\ interrupts' = interrupts \cup posting[k].ivs
  /\ posting' = RemoveAt(posting, k)
  /\ completionEvent' =
       IF lCQFIFO # <<>> THEN "now"
       ELSE IF \E v \in Vectors : aggregationMap[v].valid /\ aggregationMap[v].pending
       THEN "timer" ELSE completionEvent
  /\ UNCHANGED <<cmd, sq, cq, host, done, loopVars, executing, created, lCQFIFO,
                 aggregationMap, status, panic>>

\* The aggregation time of a vector ends; an event due at once comes first.
AggregationTimeEnds(v) ==
  /\ aggregationMap[v].running
  /\ completionEvent # "now"
  /\ aggregationMap' = [aggregationMap EXCEPT ![v].running = FALSE]
  /\ UNCHANGED <<cmd, sq, cq, host, done, loopVars, executing, created, lCQFIFO,
                 completionEvent, postVars, status, panic>>

-----------------------------------------------------------------------------
(* The host: doorbells and registers it writes. *)

Outstanding(q) == {i \in Issued \ done : cmd[i].sq = q}
OutstandingTo(c) == {i \in Issued \ done : CompletionQueueOf(i) = c}

\* The arguments with which the host may use an admin command.
HostAsks(op) ==
  CASE op = "delete SQ" -> host.sqs \ {0}
    [] op = "create SQ" -> {q \in SQ \ host.sqs : CqOf[q] \in host.cqs /\ Outstanding(q) = {}}
    [] op = "delete CQ" -> {c \in host.cqs \ {0} :
                              /\ \A q \in host.sqs : CqOf[q] # c
                              /\ HostDrains => OutstandingTo(c) = {}}
    [] op = "create CQ" -> CQ \ host.cqs
    [] op = "abort"     -> {i \in Issued \ done : cmd[i].sq \in host.sqs \ {0}}
    [] op = "coalesce"  -> {Vector[c] : c \in host.cqs \ {0}}

\* ringSQTailDoorbell(): a command is in the queue and the host says so.
Submit(q, op, arg) ==
  /\ status = "ready"
  /\ Len(cmd) < MaxCommands
  /\ q \in host.sqs
  /\ Cardinality(Outstanding(q)) < SqSize - 1
  /\ Cardinality(OutstandingTo(CqOf[q])) < CqSize - 1
  /\ cmd' = Append(cmd, [sq |-> q, op |-> op, arg |-> arg])
  /\ sq' = [sq EXCEPT ![q].ring[sq[q].tail] = Len(cmd'),
                      ![q].tail = (@ + 1) % SqSize]
  /\ UNCHANGED <<cq, done, loopVars, executing, created, lCQFIFO, completionEvent,
                 postVars, aggregationMap, status, panic>>

SubmitIO(q) == q # 0 /\ Submit(q, "io", 0) /\ UNCHANGED host

SubmitAdmin(op) ==
  /\ Outstanding(0) = {}
  /\ \E arg \in HostAsks(op) :
       /\ Submit(0, op, arg)
       /\ host' = CASE op = "delete SQ" -> [host EXCEPT !.sqs = @ \ {arg}]
                    [] op = "delete CQ" -> [host EXCEPT !.cqs = @ \ {arg}]
                    [] op \notin {"delete SQ", "delete CQ"} -> host

\* writeRegister(): a shutdown notification.
Shutdown ==
  /\ "shutdown" \in AdminOps
  /\ status = "ready"
  /\ status' = "shutdown"
  /\ UNCHANGED <<cmd, sq, cq, host, done, loopVars, executing, created, lCQFIFO,
                 completionEvent, postVars, aggregationMap, panic>>

\* ringCQHeadDoorbell(): the slots before the new head are free.
\* Mutant: the head stays.
ringCQHeadDoorbellLost(c, head) ==
  /\ UNCHANGED cq
  /\ IF cq[c].exists THEN clearInterrupt(c, cq) ELSE UNCHANGED interrupts

ringCQHeadDoorbell(c, head) ==
  /\ cq' = [cq EXCEPT ![c].head = head]
  /\ IF cq[c].exists THEN clearInterrupt(c, cq') ELSE UNCHANGED interrupts

NextRead(r) ==
  LET slot == (r.slot + 1) % CqSize
  IN  [slot |-> slot, phase |-> IF slot = 0 THEN ~r.phase ELSE r.phase]

\* While an interrupt is pending, the host reads the next entry of a queue if its
\* phase is that of a new one, and rings the doorbell.
HostConsume(c) ==
  /\ c \in host.cqs
  /\ Vector[c] \in interrupts
  /\ LET entry == cq[c].ring[host.reads[c].slot]
         reads == [host.reads EXCEPT ![c] = NextRead(@)]
         command == cmd[entry.id]
     IN  /\ entry.phase = host.reads[c].phase
         /\ done' = done \cup {entry.id}
         /\ host' =
              CASE command.op = "create SQ" ->
                     [host EXCEPT !.reads = reads, !.sqs = @ \cup {command.arg}]
                [] command.op = "create CQ" ->
                     [host EXCEPT !.reads = [reads EXCEPT ![command.arg] = FirstRead],
                                  !.cqs = @ \cup {command.arg}]
                [] command.op \notin {"create SQ", "create CQ"} ->
                     [host EXCEPT !.reads = reads]
         /\ ringCQHeadDoorbell(c, reads[c].slot)
  /\ UNCHANGED <<cmd, sq, loopVars, executing, created, lCQFIFO, completionEvent,
                 posting, aggregationMap, status, panic>>

-----------------------------------------------------------------------------
\* The host created its queues, and Start earlier commands of each are done.
Init ==
  /\ cmd = <<>>
  /\ sq = [q \in SQ |-> [NewSQ EXCEPT !.head = Start, !.tail = Start]]
  /\ cq = [c \in CQ |-> [NewCQ EXCEPT
             !.head = Start, !.tail = Start,
             !.ring = [s \in Slot(CqSize) |-> [id |-> 0, phase |-> s < Start]]]]
  /\ host \in [sqs : {SQ}, cqs : {CQ}, arbitration : Arbitration,
               reads : {[c \in CQ |-> [FirstRead EXCEPT !.slot = Start]]}]
  /\ done = {}
  /\ loop = "work" /\ requestCounter = 0 /\ fetching = <<>> /\ lSQFIFO = <<>>
  /\ executing = {} /\ created = {}
  /\ lCQFIFO = <<>> /\ completionEvent = "off" /\ posting = <<>> /\ interrupts = {}
  /\ aggregationMap = [v \in Vectors |-> NoAggregation]
  /\ status = "ready"
  /\ panic = NoPanic

\* The subsystem takes its next step with a command.
Execute(i) ==
  \/ CompleteIO(i)
  \/ DeleteSQ(i)
  \/ CreateSQ(i)
  \/ DeleteCQ(i)
  \/ CreateCQ(i)
  \/ Abort(i)
  \/ SetCoalescing(i)

Post == \E k \in DOMAIN posting : PostWrite(k) \/ Send(k)

Next ==
  /\ panic = NoPanic
  /\ \/ WorkEvent
     \/ FetchDone
     \/ QueueFunction
     \/ HandleRequest
     \/ \E i \in Id : Execute(i)
     \/ Completion
     \/ Post
     \/ \E v \in Vectors : AggregationTimeEnds(v)
     \/ \E q \in SQ : SubmitIO(q)
     \/ \E op \in AdminOps \ {"shutdown"} : SubmitAdmin(op)
     \/ Shutdown
     \/ \E c \in CQ : HostConsume(c)

\* Every chain of events goes on: the polling loop, each command in the
\* subsystem, completions and their DMA writes, and a host that has an interrupt.
\* The host need not submit anything.  Only WorkEvent leaves "work" and only
\* Completion turns its event off, so the two variables stand for the actions.
Fairness ==
  /\ WF_loop(loop = "work" /\ loop' \in {"collect", "stopped"})
  /\ WF_vars(FetchDone) /\ WF_vars(QueueFunction) /\ WF_vars(HandleRequest)
  /\ \A i \in Id : WF_vars(Execute(i))
  /\ WF_completionEvent(CompletionEventRuns /\ completionEvent' = "off")
  /\ WF_vars(Post)
  /\ \A v \in Vectors : WF_vars(AggregationTimeEnds(v))
  /\ \A c \in CQ : WF_vars(HostConsume(c))

Spec == Init /\ [][Next]_vars /\ Fairness

-----------------------------------------------------------------------------
(* Properties. *)

\* Every variable has its type (the members of controller.hh).
TypeOK ==
  /\ cmd \in Seq([sq : SQ, op : AdminOps \cup {"io"}, arg : Nat])
  /\ \A q \in SQ : /\ sq[q].exists \in BOOLEAN
                   /\ sq[q].head \in Slot(SqSize) /\ sq[q].tail \in Slot(SqSize)
                   /\ sq[q].ring \in [Slot(SqSize) -> Issued \cup {0}]
  /\ \A c \in CQ : /\ cq[c].exists \in BOOLEAN /\ cq[c].phase \in BOOLEAN
                   /\ cq[c].head \in Slot(CqSize) /\ cq[c].tail \in Slot(CqSize)
                   /\ cq[c].ring \in [Slot(CqSize) -> [id : Issued \cup {0}, phase : BOOLEAN]]
  /\ host.sqs \subseteq SQ /\ host.cqs \subseteq CQ
  /\ host.reads \in [CQ -> [slot : Slot(CqSize), phase : BOOLEAN]]
  /\ host.arbitration \in Arbitration
  /\ done \subseteq Issued /\ created \subseteq executing /\ executing \subseteq Issued
  /\ loop \in {"work", "collect", "handle", "stopped"} /\ requestCounter \in 0 .. MaxRequest
  /\ fetching \in Seq([sq : SQ, slot : Slot(SqSize)])
  /\ lSQFIFO \in Seq(Issued) /\ lCQFIFO \in Seq(Issued)
  /\ completionEvent \in {"off", "now", "timer"}
  /\ \A k \in DOMAIN posting : posting[k].ivs \subseteq Vectors
  /\ interrupts \subseteq Vectors
  /\ aggregationMap \in [Vectors -> [valid : BOOLEAN, running : BOOLEAN,
                                     count : 0 .. Threshold, pending : BOOLEAN]]
  /\ status \in {"ready", "shutdown", "complete"}

\* Where a command is on its way from the host through the controller and back:
\* a submission queue, a DMA read, lSQFIFO, the subsystem, lCQFIFO, a DMA write,
\* or an entry of a completion queue that the host has not read.
Places(i) ==
  LET waits(q, n) == /\ sq[q].exists /\ n < SqItems(q)
                     /\ sq[q].ring[(sq[q].head + n) % SqSize] = i
      queued  == {x \in SQ \X Slot(SqSize) : waits(x[1], x[2])}
      written(k) == {n \in DOMAIN posting[k].writes : posting[k].writes[n].entry.id = i}
      writing == UNION {{k} \X written(k) : k \in DOMAIN posting}
      unread(c, s) == cq[c].ring[s].phase =
                        (host.reads[c].phase = (s >= host.reads[c].slot))
      arrived(c, s) == c \in host.cqs /\ cq[c].ring[s].id = i /\ unread(c, s)
      posted  == {x \in CQ \X Slot(CqSize) : arrived(x[1], x[2])}
  IN  UNION {{"queued"} \X queued,
             {"fetching"} \X {k \in DOMAIN fetching :
                                sq[fetching[k].sq].ring[fetching[k].slot] = i},
             {"fifo"} \X {k \in DOMAIN lSQFIFO : lSQFIFO[k] = i},
             {"executing"} \X (executing \cap {i}),
             {"finished"} \X {k \in DOMAIN lCQFIFO : lCQFIFO[k] = i},
             {"writing"} \X writing,
             {"posted"} \X posted}

\* No command is lost or duplicated, whatever queues are deleted and whatever is
\* aborted on the way: until the host sees it complete it is in one place, then
\* in none.  Only a shutdown drops commands (controller.cc:1563).
InOnePlace ==
  \A i \in Issued :
    \/ Cardinality(Places(i)) = 1 /\ i \notin done
    \/ Places(i) = {} /\ (i \in done \/ status = "complete")

\* The controller never meets a queue that is gone or full (controller.cc:1661,
\* 635, 1771 and queue.cc:127).
NeverPanics == panic = NoPanic

\* No queue is deleted while a DMA read for it is in flight, whose end uses the
\* queue (doRead, controller.cc:1631).
NoFetchFromDeleted == \A k \in DOMAIN fetching : sq[fetching[k].sq].exists

\* After the controller reported the shutdown as complete, it gives no command
\* to the subsystem (controller.cc:1555-1564).
AfterShutdown == [][status = "complete" => executing' \subseteq executing]_vars

\* The host sees the end of every command, aborted or not, unless it shuts the
\* controller down.  Coalescing is left out: when the aggregation time ends and
\* there is no entry to post, its interrupt is lost (controller.cc:1818).  So is
\* low priority in weighted arbitration: the loop meant for it tests for medium
\* priority (controller.cc:1513), and it is never fetched.
AllDone ==
  \A i \in Id : i \in Issued ~>
    \/ i \in done
    \/ status # "ready"
    \/ \E j \in Issued : cmd[j].op = "coalesce"
    \/ /\ host.arbitration = "weighted"
       /\ i \in Issued /\ cmd[i].sq # 0 /\ Priority[cmd[i].sq] = "low"

\* A shutdown is acknowledged (registers.status, controller.cc:1558-1559).
ShutdownCompletes == status = "shutdown" ~> status = "complete"
=============================================================================
