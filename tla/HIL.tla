--------------------------------- MODULE HIL ---------------------------------
(***************************************************************************)
(* The path of a host request through the host interface layer             *)
(* (src/hil/hil.cc): a firmware core takes it from its job queue           *)
(* (src/cpu/cpu.cc), the layers below say when it will be finished, and it *)
(* waits in the completion queue for the one completion event.             *)
(*                                                                         *)
(* The event engine (the Simulator interface, src/sim/simulator.hh) is the *)
(* environment: it runs the events due in any order, and moves to the next *)
(* tick when none is left.  An event has one due time; scheduling it again *)
(* replaces that, as updateCompletion() relies on.                         *)
(***************************************************************************)
EXTENDS Integers, Sequences, FiniteSets, FiniteSetsExt, SequencesExt

CONSTANTS
  Requests,        \* the requests of a behaviour
  Core,            \* hilCore; none: requests are served as they are issued
  JobLatency,      \* ticks a core takes for a job
  ServiceLatency,  \* the ticks the layers below may take for a request
  LastIssue        \* bound: the last tick the host issues a request of its own

ASSUME HILAssumption ==
  /\ JobLatency \in Nat
  /\ ServiceLatency \subseteq Nat
  /\ ServiceLatency # {}
  /\ LastIssue \in Nat

Never == -1

VARIABLES
  now,              \* getTick()
  jobs,             \* jobs[c]: the queue of requests of a core
  due,              \* due[c]: when the jobEvent of a core is due; a core is
                    \*   busy while it is
  completionQueue,  \* requests with their finishedAt
  lastScheduled,
  eventAt,          \* when completionEvent is due
  completing,       \* the call stack is in the loop of completion()
  issued, done      \* requests the host issued, and those completed

vars == <<now, jobs, due, completionQueue, lastScheduled, eventAt, completing,
          issued, done>>

Earliest(queue) == Min({e.finishedAt : e \in queue})
isBusy(c) == due[c] # Never

-----------------------------------------------------------------------------
\* Mutant of Scheduled: the event is scheduled once and never moved.
ScheduledOnce(queue) ==
  IF queue # {} /\ eventAt = Never /\ lastScheduled # Earliest(queue)
  THEN [last |-> Earliest(queue), at |-> Earliest(queue)]
  ELSE [last |-> lastScheduled, at |-> eventAt]

\* updateCompletion(): schedule the event for the first request to finish,
\* unless that is what it was scheduled for last.
Scheduled(queue) ==
  IF queue # {} /\ lastScheduled # Earliest(queue)
  THEN [last |-> Earliest(queue), at |-> Earliest(queue)]
  ELSE [last |-> lastScheduled, at |-> eventAt]

updateCompletion(queue) ==
  /\ lastScheduled' = Scheduled(queue).last
  /\ eventAt' = Scheduled(queue).at

\* doRead, doWrite, doFlush ...: serve the request and queue its completion.
Serve(r, latency, queue) ==
  LET after == queue \cup {[id |-> r, finishedAt |-> now + latency]}
  IN  completionQueue' = after /\ updateCompletion(after)

\* leastBusyCPU(): an idle core (the one that worked least: here any), else the
\* last of those with the shortest queue.
LeastBusy(c) ==
  IF \E d \in Core : ~isBusy(d)
  THEN ~isBusy(c)
  ELSE /\ \A d \in Core : Len(jobs[c]) <= Len(jobs[d])
       /\ \A d \in Core : Len(jobs[c]) = Len(jobs[d]) => d <= c

\* submitJob(): queue the job, and start it if the core is idle.
submitJob(c, r) ==
  /\ jobs' = [jobs EXCEPT ![c] = Append(@, r)]
  /\ due' = IF isBusy(c) THEN due ELSE [due EXCEPT ![c] = now + JobLatency]

\* execute(): on a core, or at once if there is none.  queue is the completion
\* queue when it is called.
Issue(r, queue) ==
  /\ r \in Requests \ issued
  /\ issued' = issued \cup {r}
  /\ IF Core = {}
     THEN /\ \E latency \in ServiceLatency : Serve(r, latency, queue)
          /\ UNCHANGED <<jobs, due>>
     ELSE /\ \E c \in Core : LeastBusy(c) /\ submitJob(c, r)
          /\ completionQueue' = queue
          /\ UNCHANGED <<lastScheduled, eventAt>>

-----------------------------------------------------------------------------
\* HIL::read() ... called by the upper layer.
HostIssue(r) ==
  /\ ~completing
  /\ now <= LastIssue
  /\ Issue(r, completionQueue)
  /\ UNCHANGED <<now, completing, done>>

\* jobDone(): run the job, then start the next one.
JobDone(c) ==
  /\ ~completing
  /\ due[c] = now
  /\ \E latency \in ServiceLatency :
       Serve(Head(jobs[c]), latency, completionQueue)
  /\ jobs' = [jobs EXCEPT ![c] = Tail(@)]
  /\ due' = [due EXCEPT ![c] = IF Len(jobs[c]) > 1 THEN now + JobLatency
                                                   ELSE Never]
  /\ UNCHANGED <<now, completing, issued, done>>

\* completion() is called by the engine.
CompletionEvent ==
  /\ ~completing
  /\ eventAt = now
  /\ eventAt' = Never
  /\ completing' = TRUE
  /\ UNCHANGED <<now, jobs, due, completionQueue, lastScheduled, issued, done>>

\* Mutant of EndCompletion: the event is not set for what is left.
EndCompletionUnscheduled ==
  /\ completing
  /\ \A e \in completionQueue : e.finishedAt > now
  /\ completing' = FALSE
  /\ UNCHANGED <<now, jobs, due, completionQueue, lastScheduled, eventAt, issued,
                 done>>

\* Mutant of CompleteOnly: after the callback, the last request is popped.
CompleteOnlyPopsLast(e) ==
  /\ completing
  /\ e \in completionQueue
  /\ e.finishedAt = Earliest(completionQueue)
  /\ e.finishedAt <= now
  /\ done' = done \cup {e.id}
  /\ \E f \in completionQueue :
       /\ \A g \in completionQueue : g.finishedAt <= f.finishedAt
       /\ completionQueue' = completionQueue \ {f}
  /\ UNCHANGED <<now, completing, jobs, due, lastScheduled, eventAt, issued>>

\* One round of its loop: the callback of the request, which may issue another
\* request before this one is popped.
Complete(e) ==
  /\ completing
  /\ e \in completionQueue
  /\ e.finishedAt = Earliest(completionQueue)
  /\ e.finishedAt <= now
  /\ done' = done \cup {e.id}
  /\ UNCHANGED <<now, completing>>

CompleteOnly(e) ==
  /\ Complete(e)
  /\ completionQueue' = completionQueue \ {e}
  /\ UNCHANGED <<jobs, due, lastScheduled, eventAt, issued>>

\* The request is still the top of the queue when updateCompletion() looks.
CompleteAndIssue(e, r) ==
  /\ Complete(e)
  /\ r \in Requests \ issued
  /\ issued' = issued \cup {r}
  /\ IF Core = {}
     THEN /\ \E latency \in ServiceLatency :
               LET after == completionQueue
                            \cup {[id |-> r, finishedAt |-> now + latency]}
               IN  /\ updateCompletion(after)
                   /\ completionQueue' = after \ {e}
          /\ UNCHANGED <<jobs, due>>
     ELSE /\ \E c \in Core : LeastBusy(c) /\ submitJob(c, r)
          /\ completionQueue' = completionQueue \ {e}
          /\ UNCHANGED <<lastScheduled, eventAt>>

EndCompletion ==
  /\ completing
  /\ \A e \in completionQueue : e.finishedAt > now
  /\ completing' = FALSE
  /\ updateCompletion(completionQueue)
  /\ UNCHANGED <<now, jobs, due, completionQueue, issued, done>>

\* The engine: nothing is due at this tick any more.
Tick ==
  /\ ~completing
  /\ eventAt # now
  /\ \A c \in Core : due[c] # now
  /\ now <= LastIssue \/ eventAt # Never \/ \E c \in Core : isBusy(c)
  /\ now' = now + 1
  /\ UNCHANGED <<jobs, due, completionQueue, lastScheduled, eventAt, completing,
                 issued, done>>

Init ==
  /\ now = 0
  /\ jobs = [c \in Core |-> <<>>]
  /\ due = [c \in Core |-> Never]
  /\ completionQueue = {}
  /\ lastScheduled = 0
  /\ eventAt = Never
  /\ completing = FALSE
  /\ issued = {}
  /\ done = {}

Engine ==
  \/ \E c \in Core : JobDone(c)
  \/ CompletionEvent
  \/ \E e \in completionQueue : CompleteOnly(e)
  \/ EndCompletion
  \/ Tick

Next ==
  \/ \E r \in Requests : HostIssue(r)
  \/ \E e \in completionQueue, r \in Requests : CompleteAndIssue(e, r)
  \/ Engine

\* The engine runs as long as there are events; the host need not issue any.
Spec == Init /\ [][Next]_vars /\ WF_vars(Engine)

-----------------------------------------------------------------------------
(* Properties. *)

\* No event is due in the past, and a core is busy while it has jobs.
TypeOK ==
  /\ now \in Nat
  /\ jobs \in [Core -> Seq(Requests)]
  /\ due \in [Core -> {Never} \cup Nat]
  /\ \A c \in Core : /\ due[c] # Never => due[c] >= now
                     /\ due[c] # Never <=> jobs[c] # <<>>
  /\ completionQueue \subseteq [id : Requests, finishedAt : Nat]
  /\ lastScheduled \in Nat
  /\ eventAt \in Nat \cup {Never}
  /\ eventAt # Never => eventAt >= now
  /\ completing \in BOOLEAN
  /\ issued \subseteq Requests
  /\ done \subseteq issued

\* The one event is always set for the first request to finish: no request
\* waits in the queue without the wakeup it needs, although updateCompletion()
\* takes the event for scheduled when it was, once, for that time.
WakeupScheduled ==
  ~completing /\ completionQueue # {} => eventAt = Earliest(completionQueue)

\* A request issued by the host is at every moment in exactly one place: with a
\* core, in the completion queue, or done.
Waiting(r) == {c \in Core : Contains(jobs[c], r)}
InOnePlace ==
  \A r \in issued :
    Cardinality(Waiting(r)) + Cardinality({e \in completionQueue : e.id = r})
      + (IF r \in done THEN 1 ELSE 0) = 1

\* A request completes at the tick the layers below said, never later, however
\* requests that finish earlier or later are queued meanwhile.
OnTime ==
  [][\A e \in completionQueue : e.id \in done' \ done => e.finishedAt = now]_vars

\* Every request of the host completes.
AllComplete == \A r \in Requests : r \in issued ~> r \in done
=============================================================================
