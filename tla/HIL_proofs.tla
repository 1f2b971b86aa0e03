---------------------------- MODULE HIL_proofs ----------------------------
(***************************************************************************)
(* Proofs about the path of a request through the host interface layer,    *)
(* for every set of requests, every number of cores and all latencies.     *)
(***************************************************************************)
EXTENDS HIL, DataLemmas

-----------------------------------------------------------------------------
(* A request is in one place.                                              *)

OnCore(r) == \E c \in Core : Occurs(r, jobs[c])
InQueue(r) == \E e \in completionQueue : e.id = r

\* All of TypeOK but the schedule of the completion event.
RequestTypes ==
  /\ now \in Nat
  /\ jobs \in [Core -> Seq(Requests)]
  /\ due \in [Core -> {Never} \cup Nat]
  /\ \A c \in Core : /\ due[c] # Never => due[c] >= now
                     /\ due[c] # Never <=> jobs[c] # <<>>
  /\ completionQueue \subseteq [id : Requests, finishedAt : Nat]
  /\ completing \in BOOLEAN
  /\ issued \subseteq Requests
  /\ done \subseteq issued

\* The three places of a request, each of which excludes the others.
Places ==
  /\ \A c \in Core : NoDuplicates(jobs[c])
  /\ \A c, d \in Core, r \in Requests : Occurs(r, jobs[c]) /\ Occurs(r, jobs[d]) => c = d
  /\ \A e, f \in completionQueue : e.id = f.id => e = f
  /\ \A r \in Requests : /\ OnCore(r) => ~InQueue(r) /\ r \notin done
                         /\ InQueue(r) => r \notin done
                         /\ r \in issued <=> OnCore(r) \/ InQueue(r) \/ r \in done

RequestInv == RequestTypes /\ Places

LEMMA InitRequestInv == Init => RequestInv
<1> SUFFICES ASSUME Init PROVE RequestInv
  OBVIOUS
<1>1. /\ now = 0 /\ jobs = [c \in Core |-> <<>>] /\ due = [c \in Core |-> Never]
      /\ completionQueue = {} /\ issued = {} /\ done = {} /\ completing \in BOOLEAN
  BY Zenon DEF Init
<1>2. \A c \in Core : jobs[c] = <<>> /\ due[c] = Never
  BY <1>1
<1>3. \A c \in Core : /\ due[c] # Never => due[c] >= now
                      /\ due[c] # Never <=> jobs[c] # <<>>
  BY <1>2
<1>4. jobs \in [Core -> Seq(Requests)] /\ due \in [Core -> {Never} \cup Nat] /\ now \in Nat
  BY <1>1, EmptySeq
<1>5. RequestTypes
  BY <1>1, <1>3, <1>4, Zenon DEF RequestTypes
<1>6. DOMAIN <<>> = {}
  OBVIOUS
<1>7. Places
  BY <1>1, <1>2, <1>6 DEF Places, NoDuplicates, Occurs, OnCore, InQueue
<1> QED
  BY <1>5, <1>7 DEF RequestInv

\* A job joins the queue of a core, and the core is busy from then on.
LEMMA SubmitJobFacts ==
  ASSUME RequestInv, NEW c \in Core, NEW r \in Requests, ~OnCore(r), submitJob(c, r),
         now' = now
  PROVE  /\ jobs' \in [Core -> Seq(Requests)]
         /\ due' \in [Core -> {Never} \cup Nat]
         /\ \A d \in Core : /\ due'[d] # Never => due'[d] >= now
                            /\ due'[d] # Never <=> jobs'[d] # <<>>
         /\ \A d \in Core : NoDuplicates(jobs'[d])
         /\ \A d, e \in Core, x \in Requests :
              Occurs(x, jobs'[d]) /\ Occurs(x, jobs'[e]) => d = e
         /\ \A x \in Requests : OnCore(x)' <=> OnCore(x) \/ x = r
<1>1. /\ jobs' = [jobs EXCEPT ![c] = Append(jobs[c], r)]
      /\ due' = IF isBusy(c) THEN due ELSE [due EXCEPT ![c] = now + JobLatency]
  BY DEF submitJob
<1>2. /\ jobs \in [Core -> Seq(Requests)] /\ due \in [Core -> {Never} \cup Nat] /\ now \in Nat
      /\ \A d \in Core : NoDuplicates(jobs[d])
  BY DEF RequestInv, RequestTypes, Places
<1>3. \A d \in Core : ~Occurs(r, jobs[d])
  BY DEF OnCore
<1>4. /\ Append(jobs[c], r) \in Seq(Requests) /\ NoDuplicates(Append(jobs[c], r))
      /\ Append(jobs[c], r) # <<>>
      /\ \A x : Occurs(x, Append(jobs[c], r)) <=> Occurs(x, jobs[c]) \/ x = r
  BY <1>2, <1>3, AppendQueue
<1>5. /\ jobs' \in [Core -> Seq(Requests)]
      /\ jobs'[c] = Append(jobs[c], r) /\ \A d \in Core \ {c} : jobs'[d] = jobs[d]
  BY <1>1, <1>2, <1>4
<1>6. now + JobLatency \in Nat /\ now + JobLatency # Never /\ now + JobLatency >= now
  BY <1>2, HILAssumption DEF Never
<1>7. /\ due' \in [Core -> {Never} \cup Nat]
      /\ \A d \in Core : /\ due'[d] # Never => due'[d] >= now
                         /\ due'[d] # Never <=> jobs'[d] # <<>>
  BY <1>1, <1>2, <1>4, <1>5, <1>6 DEF RequestInv, RequestTypes, isBusy
<1>8. \A d \in Core : NoDuplicates(jobs'[d])
  BY <1>2, <1>4, <1>5
<1>9. \A x \in Requests, d \in Core :
        Occurs(x, jobs'[d]) <=> Occurs(x, jobs[d]) \/ (x = r /\ d = c)
  BY <1>4, <1>5
<1>10. \A d, e \in Core, x \in Requests :
         Occurs(x, jobs'[d]) /\ Occurs(x, jobs'[e]) => d = e
  BY <1>3, <1>9 DEF RequestInv, Places
<1>11. \A x \in Requests : OnCore(x)' <=> OnCore(x) \/ x = r
  BY <1>9 DEF OnCore
<1> QED
  BY <1>5, <1>7, <1>8, <1>10, <1>11

\* A request joins the completion queue.
LEMMA ServeFacts ==
  ASSUME RequestInv, NEW r \in Requests, ~InQueue(r), NEW latency \in ServiceLatency,
         NEW queue, queue = completionQueue \cup {[id |-> r, finishedAt |-> now + latency]}
  PROVE  /\ queue \subseteq [id : Requests, finishedAt : Nat]
         /\ \A e, f \in queue : e.id = f.id => e = f
         /\ \A x \in Requests : (\E e \in queue : e.id = x) <=> InQueue(x) \/ x = r
<1>1. /\ now \in Nat /\ latency \in Nat /\ completionQueue \subseteq [id : Requests, finishedAt : Nat]
      /\ \A e, f \in completionQueue : e.id = f.id => e = f
  BY HILAssumption DEF RequestInv, RequestTypes, Places
<1>2. now + latency \in Nat
  BY <1>1
<1> DEFINE new == [id |-> r, finishedAt |-> now + latency]
<1>3. new \in [id : Requests, finishedAt : Nat] /\ new.id = r
  BY <1>2
<1>4. queue = completionQueue \cup {new}
  OBVIOUS
<1> HIDE DEF new
<1>5. \A e \in completionQueue : e.id # new.id
  BY <1>3 DEF InQueue
<1> QED
  BY <1>1, <1>3, <1>4, <1>5 DEF InQueue

\* The host issues a request: a core takes it, or it is served at once.
LEMMA HostIssueInv ==
  ASSUME RequestInv, NEW r \in Requests, HostIssue(r)
  PROVE  RequestInv'
<1>1. /\ r \notin issued /\ issued' = issued \cup {r}
      /\ now' = now /\ completing' = completing /\ done' = done
  BY DEF HostIssue, Issue
<1>2. ~OnCore(r) /\ ~InQueue(r) /\ r \notin done
  BY <1>1 DEF RequestInv, Places
<1>3. CASE Core = {}
  <2>1. PICK latency \in ServiceLatency :
          completionQueue' = completionQueue \cup {[id |-> r, finishedAt |-> now + latency]}
    BY <1>3 DEF HostIssue, Issue, Serve
  <2>2. UNCHANGED <<jobs, due>>
    BY <1>3 DEF HostIssue, Issue
  <2>3. /\ completionQueue' \subseteq [id : Requests, finishedAt : Nat]
        /\ \A e, f \in completionQueue' : e.id = f.id => e = f
        /\ \A x \in Requests : InQueue(x)' <=> InQueue(x) \/ x = r
    BY <1>2, <2>1, ServeFacts DEF InQueue
  <2>4. RequestTypes'
    BY <1>1, <2>2, <2>3 DEF RequestInv, RequestTypes
  <2>5. \A x \in Requests : OnCore(x)' <=> OnCore(x)
    BY <2>2 DEF OnCore
  <2>6. Places'
    BY <1>1, <1>2, <2>2, <2>3, <2>5 DEF RequestInv, Places
  <2> QED
    BY <2>4, <2>6 DEF RequestInv
<1>4. CASE Core # {}
  <2>1. PICK c \in Core : submitJob(c, r)
    BY <1>4 DEF HostIssue, Issue
  <2>2. completionQueue' = completionQueue
    BY <1>4 DEF HostIssue, Issue
  <2>3. /\ jobs' \in [Core -> Seq(Requests)]
        /\ due' \in [Core -> {Never} \cup Nat]
        /\ \A d \in Core : /\ due'[d] # Never => due'[d] >= now
                           /\ due'[d] # Never <=> jobs'[d] # <<>>
        /\ \A d \in Core : NoDuplicates(jobs'[d])
        /\ \A d, e \in Core, x \in Requests :
             Occurs(x, jobs'[d]) /\ Occurs(x, jobs'[e]) => d = e
        /\ \A x \in Requests : OnCore(x)' <=> OnCore(x) \/ x = r
    BY <1>1, <1>2, <2>1, SubmitJobFacts
  <2>4. RequestTypes'
    BY <1>1, <2>2, <2>3 DEF RequestInv, RequestTypes
  <2>5. \A x \in Requests : InQueue(x)' <=> InQueue(x)
    BY <2>2 DEF InQueue
  <2>6. Places'
    BY <1>1, <1>2, <2>2, <2>3, <2>5 DEF RequestInv, Places
  <2> QED
    BY <2>4, <2>6 DEF RequestInv
<1> QED
  BY <1>3, <1>4

\* A core serves the first of its jobs.
LEMMA JobDoneInv ==
  ASSUME RequestInv, NEW c \in Core, JobDone(c)
  PROVE  RequestInv'
<1> DEFINE r == Head(jobs[c])
<1>1. /\ due[c] = now /\ now' = now /\ completing' = completing /\ issued' = issued
      /\ done' = done
      /\ jobs' = [jobs EXCEPT ![c] = Tail(jobs[c])]
      /\ due' = [due EXCEPT ![c] = IF Len(jobs[c]) > 1 THEN now + JobLatency ELSE Never]
  BY DEF JobDone
<1>2. /\ now \in Nat /\ now # Never
      /\ jobs \in [Core -> Seq(Requests)] /\ due \in [Core -> {Never} \cup Nat]
      /\ \A d \in Core : /\ due[d] # Never => due[d] >= now
                         /\ due[d] # Never <=> jobs[d] # <<>>
      /\ \A d \in Core : NoDuplicates(jobs[d])
  BY DEF RequestInv, RequestTypes, Places, Never
<1>3. jobs[c] \in Seq(Requests) /\ jobs[c] # <<>>
  BY <1>1, <1>2
<1>4. /\ Tail(jobs[c]) \in Seq(Requests) /\ NoDuplicates(Tail(jobs[c]))
      /\ r \in Requests /\ Occurs(r, jobs[c])
      /\ \A x : Occurs(x, Tail(jobs[c])) <=> Occurs(x, jobs[c]) /\ x # r
  BY <1>2, <1>3, TailQueue
<1>5. OnCore(r) /\ ~InQueue(r) /\ r \notin done
  BY <1>4 DEF OnCore, RequestInv, Places
<1>6. PICK latency \in ServiceLatency :
        completionQueue' = completionQueue \cup {[id |-> r, finishedAt |-> now + latency]}
  BY DEF JobDone, Serve
<1> HIDE DEF r
<1>7. /\ completionQueue' \subseteq [id : Requests, finishedAt : Nat]
      /\ \A e, f \in completionQueue' : e.id = f.id => e = f
      /\ \A x \in Requests : InQueue(x)' <=> InQueue(x) \/ x = r
  <2>1. r \in Requests /\ ~InQueue(r)
    BY <1>4, <1>5
  <2> QED
    BY <1>6, <2>1, ServeFacts DEF InQueue
<1>8. /\ jobs' \in [Core -> Seq(Requests)]
      /\ jobs'[c] = Tail(jobs[c]) /\ \A d \in Core \ {c} : jobs'[d] = jobs[d]
  BY <1>1, <1>2, <1>4
<1>9. Len(jobs[c]) > 1 <=> Tail(jobs[c]) # <<>>
  BY <1>3, TailOfLonger, TailOfOne
<1>10. now + JobLatency \in Nat /\ now + JobLatency # Never /\ now + JobLatency >= now
  BY <1>2, HILAssumption DEF Never
<1>11. /\ due' \in [Core -> {Never} \cup Nat]
       /\ \A d \in Core : /\ due'[d] # Never => due'[d] >= now
                          /\ due'[d] # Never <=> jobs'[d] # <<>>
  BY <1>1, <1>2, <1>8, <1>9, <1>10
<1>12. RequestTypes'
  BY <1>1, <1>7, <1>8, <1>11 DEF RequestInv, RequestTypes
<1>13. \A x \in Requests, d \in Core :
         Occurs(x, jobs'[d]) <=> Occurs(x, jobs[d]) /\ ~(x = r /\ d = c)
  BY <1>4, <1>8
<1>14. \A x \in Requests : OnCore(x)' <=> OnCore(x) /\ x # r
  BY <1>4, <1>13 DEF OnCore, RequestInv, Places
<1>15. \A d \in Core : NoDuplicates(jobs'[d])
  BY <1>2, <1>4, <1>8
<1>16. Places'
  BY <1>1, <1>4, <1>5, <1>7, <1>13, <1>14, <1>15 DEF RequestInv, Places
<1> QED
  BY <1>12, <1>16 DEF RequestInv

\* The loop of completion() calls back the request that finishes first, which may
\* issue another one before it is popped.
LEMMA CompleteInv ==
  ASSUME RequestInv, NEW e \in completionQueue,
         CompleteOnly(e) \/ \E r \in Requests : CompleteAndIssue(e, r)
  PROVE  RequestInv'
<1>1. /\ done' = done \cup {e.id} /\ now' = now /\ completing' = completing
  BY DEF CompleteOnly, CompleteAndIssue, Complete
<1>2. /\ e.id \in Requests /\ InQueue(e.id) /\ ~OnCore(e.id) /\ e.id \notin done
      /\ e.id \in issued
  BY DEF RequestInv, RequestTypes, Places, InQueue
<1>3. CASE CompleteOnly(e)
  <2>1. completionQueue' = completionQueue \ {e} /\ UNCHANGED <<jobs, due, issued>>
    BY <1>3 DEF CompleteOnly
  <2>2. RequestTypes'
    BY <1>1, <1>2, <2>1 DEF RequestInv, RequestTypes
  <2>3. \A x \in Requests : OnCore(x)' <=> OnCore(x)
    BY <2>1 DEF OnCore
  <2>4. \A x \in Requests : InQueue(x)' <=> InQueue(x) /\ x # e.id
    BY <2>1 DEF InQueue, RequestInv, Places
  <2>5. Places'
    BY <1>1, <1>2, <2>1, <2>3, <2>4 DEF RequestInv, Places
  <2> QED
    BY <2>2, <2>5 DEF RequestInv
<1>4. ASSUME NEW r \in Requests, CompleteAndIssue(e, r) PROVE RequestInv'
  <2>1. r \notin issued /\ issued' = issued \cup {r}
    BY <1>4 DEF CompleteAndIssue
  <2>2. ~OnCore(r) /\ ~InQueue(r) /\ r \notin done /\ r # e.id
    BY <1>2, <2>1 DEF RequestInv, Places
  <2>3. CASE Core = {}
    <3>1. PICK latency \in ServiceLatency :
            completionQueue' = (completionQueue
                                  \cup {[id |-> r, finishedAt |-> now + latency]}) \ {e}
      BY <1>4, <2>3 DEF CompleteAndIssue
    <3>2. UNCHANGED <<jobs, due>>
      BY <1>4, <2>3 DEF CompleteAndIssue
    <3>0. PICK after : after = completionQueue
                                \cup {[id |-> r, finishedAt |-> now + latency]}
      OBVIOUS
    <3>3. /\ after \subseteq [id : Requests, finishedAt : Nat]
          /\ \A f, g \in after : f.id = g.id => f = g
          /\ \A x \in Requests : (\E f \in after : f.id = x) <=> InQueue(x) \/ x = r
      <4>1. r \in Requests /\ ~InQueue(r)
        BY <1>4, <2>2
      <4> QED
        <5>1. latency \in ServiceLatency
          BY <3>1
        <5> QED
          BY <3>0, <4>1, <5>1, ServeFacts
    <3>4. completionQueue' = after \ {e} /\ e \in after
      BY <3>0, <3>1
    <3>5. \A x \in Requests : InQueue(x)' <=> (InQueue(x) \/ x = r) /\ x # e.id
      BY <3>3, <3>4 DEF InQueue
    <3>6. RequestTypes'
      BY <1>1, <1>2, <2>1, <3>2, <3>3, <3>4 DEF RequestInv, RequestTypes
    <3>7. \A x \in Requests : OnCore(x)' <=> OnCore(x)
      BY <3>2 DEF OnCore
    <3>8. Places'
      BY <1>1, <1>2, <2>1, <2>2, <3>2, <3>3, <3>4, <3>5, <3>7 DEF RequestInv, Places
    <3> QED
      BY <3>6, <3>8 DEF RequestInv
  <2>4. CASE Core # {}
    <3>1. PICK c \in Core : submitJob(c, r)
      BY <1>4, <2>4 DEF CompleteAndIssue
    <3>2. completionQueue' = completionQueue \ {e}
      BY <1>4, <2>4 DEF CompleteAndIssue
    <3>3. /\ jobs' \in [Core -> Seq(Requests)]
          /\ due' \in [Core -> {Never} \cup Nat]
          /\ \A d \in Core : /\ due'[d] # Never => due'[d] >= now
                             /\ due'[d] # Never <=> jobs'[d] # <<>>
          /\ \A d \in Core : NoDuplicates(jobs'[d])
          /\ \A d, f \in Core, x \in Requests :
               Occurs(x, jobs'[d]) /\ Occurs(x, jobs'[f]) => d = f
          /\ \A x \in Requests : OnCore(x)' <=> OnCore(x) \/ x = r
      BY <1>1, <2>2, <3>1, SubmitJobFacts
    <3>4. RequestTypes'
      BY <1>1, <1>2, <2>1, <3>2, <3>3 DEF RequestInv, RequestTypes
    <3>5. \A x \in Requests : InQueue(x)' <=> InQueue(x) /\ x # e.id
      BY <3>2 DEF InQueue, RequestInv, Places
    <3>6. Places'
      BY <1>1, <1>2, <2>1, <2>2, <3>2, <3>3, <3>5 DEF RequestInv, Places
    <3> QED
      BY <3>4, <3>6 DEF RequestInv
  <2> QED
    BY <2>3, <2>4
<1> QED
  BY <1>3, <1>4

\* The engine moves on, or enters and leaves the loop of completion().
LEMMA EngineInv ==
  RequestInv /\ (CompletionEvent \/ EndCompletion \/ Tick) => RequestInv'
<1> SUFFICES ASSUME RequestInv, CompletionEvent \/ EndCompletion \/ Tick
             PROVE  RequestInv'
  OBVIOUS
<1>1. UNCHANGED <<jobs, due, completionQueue, issued, done>>
  BY DEF CompletionEvent, EndCompletion, Tick
<1>2. completing' \in BOOLEAN
  BY Zenon DEF CompletionEvent, EndCompletion, Tick, RequestInv, RequestTypes
<1>3. /\ now' \in Nat
      /\ \A c \in Core : due[c] # Never => due[c] >= now'
  <2>1. CASE now' = now
    BY <2>1 DEF RequestInv, RequestTypes
  <2>2. CASE Tick
    <3>1. now' = now + 1 /\ \A c \in Core : due[c] # now
      BY <2>2 DEF Tick
    <3>2. /\ now \in Nat /\ due \in [Core -> {Never} \cup Nat]
          /\ \A c \in Core : due[c] # Never => due[c] >= now
      BY DEF RequestInv, RequestTypes
    <3> QED
      BY <3>1, <3>2
  <2> QED
    BY <2>1, <2>2 DEF CompletionEvent, EndCompletion
<1>4. RequestTypes'
  BY <1>1, <1>2, <1>3, Zenon DEF RequestInv, RequestTypes
<1>5. Places'
  BY <1>1, Zenon DEF RequestInv, Places, OnCore, InQueue
<1> QED
  BY <1>4, <1>5 DEF RequestInv

LEMMA RequestStepInv == RequestInv /\ [Next]_vars => RequestInv'
<1>1. RequestInv /\ Next => RequestInv'
  BY HostIssueInv, JobDoneInv, CompleteInv, EngineInv DEF Next, Engine
<1>2. RequestInv /\ UNCHANGED vars => RequestInv'
  BY Zenon DEF vars, RequestInv, RequestTypes, Places, OnCore, InQueue
<1> QED
  BY <1>1, <1>2

LEMMA RequestInvariantHolds == Spec => []RequestInv
BY InitRequestInv, RequestStepInv, PTL DEF Spec

\* However requests are queued with the cores, served, and issued from the callbacks of
\* others: each request that the host issued is with one core, in the completion queue
\* or done, and in no two places.
THEOREM RequestsInOnePlace == Spec => []InOnePlace
<1>1. ASSUME RequestInv PROVE InOnePlace
  <2> SUFFICES ASSUME NEW r \in issued
               PROVE  Cardinality(Waiting(r)) + Cardinality({e \in completionQueue : e.id = r})
                        + (IF r \in done THEN 1 ELSE 0) = 1
    BY DEF InOnePlace
  <2>1. r \in Requests
    BY <1>1 DEF RequestInv, RequestTypes
  <2>2. \A c \in Core : Contains(jobs[c], r) <=> Occurs(r, jobs[c])
    <3>1. jobs \in [Core -> Seq(Requests)]
      BY <1>1 DEF RequestInv, RequestTypes
    <3> QED
      BY <3>1, LenProperties DEF Contains, Occurs
  <2>3. Cardinality(Waiting(r)) = IF OnCore(r) THEN 1 ELSE 0
    <3>1. CASE OnCore(r)
      <4>1. PICK c \in Core : Occurs(r, jobs[c])
        BY <3>1 DEF OnCore
      <4>2. Waiting(r) = {c}
        BY <1>1, <2>1, <2>2, <4>1 DEF Waiting, RequestInv, Places
      <4> QED
        BY <3>1, <4>2, FS_Singleton
    <3>2. CASE ~OnCore(r)
      <4>1. Waiting(r) = {}
        BY <2>2, <3>2 DEF Waiting, OnCore
      <4> QED
        BY <3>2, <4>1, FS_EmptySet
    <3> QED
      BY <3>1, <3>2
  <2>4. Cardinality({e \in completionQueue : e.id = r}) = IF InQueue(r) THEN 1 ELSE 0
    <3>1. CASE InQueue(r)
      <4>1. PICK e \in completionQueue : e.id = r
        BY <3>1 DEF InQueue
      <4>2. {f \in completionQueue : f.id = r} = {e}
        BY <1>1, <4>1 DEF RequestInv, Places
      <4> QED
        BY <3>1, <4>2, FS_Singleton
    <3>2. CASE ~InQueue(r)
      <4>1. {f \in completionQueue : f.id = r} = {}
        BY <3>2 DEF InQueue
      <4> QED
        BY <3>2, <4>1, FS_EmptySet
    <3> QED
      BY <3>1, <3>2
  <2>5. /\ OnCore(r) \/ InQueue(r) \/ r \in done
        /\ OnCore(r) => ~InQueue(r) /\ r \notin done
        /\ InQueue(r) => r \notin done
    BY <1>1, <2>1 DEF RequestInv, Places
  <2> QED
    BY <2>3, <2>4, <2>5
<1> QED
  BY <1>1, RequestInvariantHolds, PTL
-----------------------------------------------------------------------------
(* The one completion event.                                               *)

\* What the schedule of the event amounts to.  Outside the loop of completion() the
\* event is set for the first request to finish; inside, it is not set, and the tick
\* it was last set for is this one: that is why nothing is scheduled for a request
\* that the loop is about to pop.
Schedule ==
  /\ lastScheduled \in Nat
  /\ \A e \in completionQueue : e.finishedAt >= now
  /\ completing => eventAt = Never /\ lastScheduled = now
  /\ ~completing /\ completionQueue = {} => eventAt = Never /\ lastScheduled <= now
  /\ ~completing /\ completionQueue # {} =>
       eventAt = Earliest(completionQueue) /\ lastScheduled = eventAt

ScheduleInv == RequestInv /\ Schedule

\* The time at which the first request of a queue finishes.
LEMMA EarliestFacts ==
  ASSUME NEW queue, queue \subseteq [id : Requests, finishedAt : Nat], queue # {}
  PROVE  /\ Earliest(queue) \in Nat
         /\ \E e \in queue : e.finishedAt = Earliest(queue)
         /\ \A e \in queue : Earliest(queue) <= e.finishedAt
<1> DEFINE S == {e.finishedAt : e \in queue}
<1>1. S \subseteq Nat /\ S # {}
  OBVIOUS
<1>2. Min(S) \in S /\ \A y \in S : Min(S) <= y
  <2> HIDE DEF S
  <2> QED
    BY <1>1, MinNat
<1>3. Earliest(queue) = Min(S)
  BY DEF Earliest
<1>4. Earliest(queue) \in S /\ \A y \in S : Earliest(queue) <= y
  BY <1>2, <1>3, Zenon
<1> QED
  BY <1>1, <1>4

\* A request that takes some time joins a queue for which the event is set.
LEMMA ServeSchedule ==
  ASSUME ScheduleInv, ~completing, now' = now, completing' = completing,
         NEW r \in Requests, ~InQueue(r), NEW latency \in ServiceLatency,
         0 \notin ServiceLatency, Serve(r, latency, completionQueue)
  PROVE  Schedule'
<1> DEFINE new == [id |-> r, finishedAt |-> now + latency]
<1>1. /\ completionQueue' = completionQueue \cup {new}
      /\ lastScheduled' = Scheduled(completionQueue').last
      /\ eventAt' = Scheduled(completionQueue').at
  BY DEF Serve, updateCompletion
<1>2. /\ now \in Nat /\ latency \in Nat /\ latency # 0
      /\ completionQueue \subseteq [id : Requests, finishedAt : Nat]
  BY HILAssumption DEF ScheduleInv, RequestInv, RequestTypes
<1>3. completionQueue' \subseteq [id : Requests, finishedAt : Nat] /\ completionQueue' # {}
  <2>1. now + latency \in Nat
    BY <1>2
  <2>2. new \in [id : Requests, finishedAt : Nat]
    BY <2>1
  <2> HIDE DEF new
  <2> QED
    BY <1>1, <1>2, <2>2
<1>4. /\ Earliest(completionQueue') \in Nat
      /\ \E e \in completionQueue' : e.finishedAt = Earliest(completionQueue')
      /\ \A e \in completionQueue' : Earliest(completionQueue') <= e.finishedAt
  BY <1>3, EarliestFacts
<1>5. new \in completionQueue' /\ new.finishedAt = now + latency /\ now + latency > now
  BY <1>1, <1>2
<1>6. /\ lastScheduled \in Nat /\ \A e \in completionQueue : e.finishedAt >= now
      /\ completionQueue = {} => eventAt = Never /\ lastScheduled <= now
      /\ completionQueue # {} =>
           eventAt = Earliest(completionQueue) /\ lastScheduled = eventAt
  BY DEF ScheduleInv, Schedule
<1> HIDE DEF new
<1>7. \A e \in completionQueue' : e.finishedAt >= now
  BY <1>1, <1>2, <1>5, <1>6
<1>8. lastScheduled' = Earliest(completionQueue') /\ eventAt' = Earliest(completionQueue')
  <2>1. CASE lastScheduled # Earliest(completionQueue')
    BY <1>1, <1>3, <2>1 DEF Scheduled
  <2>2. CASE lastScheduled = Earliest(completionQueue')
    <3>1. lastScheduled' = lastScheduled /\ eventAt' = eventAt
      BY <1>1, <2>2 DEF Scheduled
    <3>2. CASE completionQueue = {}
      <4>1. Earliest(completionQueue') = now + latency
        BY <1>1, <1>4, <1>5, <3>2
      <4> QED
        BY <1>2, <1>6, <2>2, <3>2, <4>1
    <3>3. CASE completionQueue # {}
      BY <1>6, <2>2, <3>1, <3>3
    <3> QED
      BY <3>2, <3>3
  <2> QED
    BY <2>1, <2>2
<1> QED
  BY <1>3, <1>4, <1>7, <1>8 DEF Schedule

\* A request leaves the queue in the loop of completion(); one that its callback issues
\* finds it still there, and the event as it was.
LEMMA CompleteSchedule ==
  ASSUME ScheduleInv, NEW e \in completionQueue,
         CompleteOnly(e) \/ \E r \in Requests : CompleteAndIssue(e, r)
  PROVE  Schedule' /\ e.finishedAt = now /\ done' = done \cup {e.id}
<1>1. /\ completing /\ completing' = completing /\ now' = now /\ done' = done \cup {e.id}
      /\ e.finishedAt = Earliest(completionQueue) /\ e.finishedAt <= now
  BY DEF CompleteOnly, CompleteAndIssue, Complete
<1>2. /\ now \in Nat /\ completionQueue \subseteq [id : Requests, finishedAt : Nat]
      /\ \A f \in completionQueue : f.finishedAt >= now
      /\ eventAt = Never /\ lastScheduled = now
  BY <1>1 DEF ScheduleInv, RequestInv, RequestTypes, Schedule
<1>3. e.finishedAt = now
  BY <1>1, <1>2
<1>4. CASE completionQueue' = completionQueue \ {e} /\ UNCHANGED <<lastScheduled, eventAt>>
  BY <1>1, <1>2, <1>3, <1>4 DEF Schedule
<1>5. ASSUME NEW r \in Requests, CompleteAndIssue(e, r), Core = {}
      PROVE  Schedule'
  <2>1. PICK latency \in ServiceLatency :
          /\ updateCompletion(completionQueue \cup {[id |-> r, finishedAt |-> now + latency]})
          /\ completionQueue' = (completionQueue
                                  \cup {[id |-> r, finishedAt |-> now + latency]}) \ {e}
    BY <1>5 DEF CompleteAndIssue
  <2>2. PICK new : new = [id |-> r, finishedAt |-> now + latency]
    OBVIOUS
  <2>3. PICK after : after = completionQueue \cup {new}
    OBVIOUS
  <2>4. latency \in Nat
    BY <2>1, HILAssumption
  <2>5. new \in [id : Requests, finishedAt : Nat] /\ new.finishedAt >= now
    BY <1>2, <1>5, <2>2, <2>4
  <2>6. /\ after \subseteq [id : Requests, finishedAt : Nat] /\ e \in after
        /\ \A f \in after : f.finishedAt >= now
    BY <1>2, <2>3, <2>5
  <2>7. Earliest(after) = now
    BY <1>2, <1>3, <2>6, EarliestFacts
  <2>8. Scheduled(after) = [last |-> lastScheduled, at |-> eventAt]
    BY <1>2, <2>7 DEF Scheduled
  <2>9. lastScheduled' = lastScheduled /\ eventAt' = eventAt
    BY <2>1, <2>2, <2>3, <2>8 DEF updateCompletion
  <2>10. completionQueue' = after \ {e}
    BY <2>1, <2>2, <2>3
  <2> QED
    BY <1>1, <1>2, <2>6, <2>9, <2>10 DEF Schedule
<1> QED
  BY <1>1, <1>3, <1>4, <1>5 DEF CompleteOnly, CompleteAndIssue

\* The engine enters and leaves the loop of completion(), or moves on to the next tick.
LEMMA EngineSchedule ==
  ScheduleInv /\ (CompletionEvent \/ EndCompletion \/ Tick) => Schedule'
<1> SUFFICES ASSUME ScheduleInv, CompletionEvent \/ EndCompletion \/ Tick
             PROVE  Schedule'
  OBVIOUS
<1>1. /\ now \in Nat /\ completionQueue \subseteq [id : Requests, finishedAt : Nat]
      /\ completing \in BOOLEAN
      /\ lastScheduled \in Nat /\ \A e \in completionQueue : e.finishedAt >= now
      /\ completing => eventAt = Never /\ lastScheduled = now
      /\ ~completing /\ completionQueue = {} => eventAt = Never /\ lastScheduled <= now
      /\ ~completing /\ completionQueue # {} =>
           eventAt = Earliest(completionQueue) /\ lastScheduled = eventAt
  BY DEF ScheduleInv, RequestInv, RequestTypes, Schedule
<1>2. completionQueue # {} =>
        /\ Earliest(completionQueue) \in Nat
        /\ \E e \in completionQueue : e.finishedAt = Earliest(completionQueue)
        /\ \A e \in completionQueue : Earliest(completionQueue) <= e.finishedAt
  BY <1>1, EarliestFacts
<1>3. completionQueue' = completionQueue
  BY DEF CompletionEvent, EndCompletion, Tick
<1>4. CASE CompletionEvent
  <2>1. /\ ~completing /\ eventAt = now /\ eventAt' = Never /\ completing'
        /\ UNCHANGED <<now, lastScheduled>>
    BY <1>4 DEF CompletionEvent
  <2>2. completionQueue # {}
    BY <1>1, <2>1 DEF Never
  <2> QED
    BY <1>1, <1>2, <1>3, <2>1, <2>2 DEF Schedule
<1>5. CASE EndCompletion
  <2>1. /\ completing /\ ~completing' /\ UNCHANGED now
        /\ \A e \in completionQueue : e.finishedAt > now
        /\ lastScheduled' = Scheduled(completionQueue).last
        /\ eventAt' = Scheduled(completionQueue).at
    BY <1>5 DEF EndCompletion, updateCompletion
  <2>2. CASE completionQueue = {}
    <3>1. lastScheduled' = lastScheduled /\ eventAt' = eventAt
      BY <2>1, <2>2 DEF Scheduled
    <3> QED
      BY <1>1, <1>3, <2>1, <2>2, <3>1 DEF Schedule
  <2>3. CASE completionQueue # {}
    <3>1. Earliest(completionQueue) > now
      BY <1>1, <1>2, <2>1, <2>3
    <3>2. lastScheduled' = Earliest(completionQueue) /\ eventAt' = Earliest(completionQueue)
      BY <1>1, <1>2, <2>1, <2>3, <3>1 DEF Scheduled
    <3> QED
      BY <1>1, <1>2, <1>3, <2>1, <2>3, <3>2 DEF Schedule
  <2> QED
    BY <2>2, <2>3
<1>6. CASE Tick
  <2>1. /\ ~completing /\ eventAt # now /\ now' = now + 1
        /\ UNCHANGED <<lastScheduled, eventAt, completing>>
    BY <1>6 DEF Tick
  <2>2. \A e \in completionQueue : e.finishedAt >= now + 1
    BY <1>1, <1>2, <2>1
  <2> QED
    BY <1>1, <1>2, <1>3, <2>1, <2>2 DEF Schedule
<1> QED
  BY <1>4, <1>5, <1>6

LEMMA ScheduleStepInv ==
  ASSUME 0 \notin ServiceLatency, ScheduleInv, [Next]_vars
  PROVE  ScheduleInv'
<1>1. RequestInv'
  BY RequestStepInv DEF ScheduleInv
<1>2. ASSUME NEW r \in Requests, HostIssue(r) PROVE Schedule'
  <2>1. ~completing /\ now' = now /\ completing' = completing /\ r \notin issued
    BY <1>2 DEF HostIssue, Issue
  <2>2. CASE Core = {}
    <3>1. PICK latency \in ServiceLatency : Serve(r, latency, completionQueue)
      BY <1>2, <2>2 DEF HostIssue, Issue
    <3>2. ~InQueue(r)
      BY <1>2, <2>1 DEF ScheduleInv, RequestInv, Places
    <3> QED
      BY <1>2, <2>1, <3>1, <3>2, ServeSchedule
  <2>3. CASE Core # {}
    <3>1. UNCHANGED <<completionQueue, lastScheduled, eventAt>>
      BY <1>2, <2>3 DEF HostIssue, Issue
    <3> QED
      BY <2>1, <3>1, Zenon DEF ScheduleInv, Schedule, Earliest
  <2> QED
    BY <2>2, <2>3
<1>3. ASSUME NEW c \in Core, JobDone(c) PROVE Schedule'
  <2>1. ~completing /\ now' = now /\ completing' = completing /\ due[c] = now
    BY <1>3 DEF JobDone
  <2>2. PICK latency \in ServiceLatency : Serve(Head(jobs[c]), latency, completionQueue)
    BY <1>3 DEF JobDone
  <2>3. Head(jobs[c]) \in Requests /\ ~InQueue(Head(jobs[c]))
    <3>1. /\ jobs \in [Core -> Seq(Requests)] /\ now \in Nat /\ NoDuplicates(jobs[c])
          /\ due[c] # Never => jobs[c] # <<>>
      BY <1>3 DEF ScheduleInv, RequestInv, RequestTypes, Places
    <3>2. jobs[c] \in Seq(Requests) /\ jobs[c] # <<>>
      BY <1>3, <2>1, <3>1 DEF Never
    <3>3. Head(jobs[c]) \in Requests /\ Occurs(Head(jobs[c]), jobs[c])
      BY <3>1, <3>2, TailQueue
    <3> QED
      BY <1>3, <3>3 DEF ScheduleInv, RequestInv, Places, OnCore
  <2> QED
    BY <2>1, <2>2, <2>3, ServeSchedule
<1>4. ASSUME NEW e \in completionQueue,
             CompleteOnly(e) \/ \E r \in Requests : CompleteAndIssue(e, r)
      PROVE  Schedule'
  BY <1>4, CompleteSchedule
<1>5. ASSUME CompletionEvent \/ EndCompletion \/ Tick PROVE Schedule'
  BY <1>5, EngineSchedule
<1>6. ASSUME UNCHANGED vars PROVE Schedule'
  <2>1. UNCHANGED <<now, completionQueue, lastScheduled, eventAt, completing>>
    BY <1>6 DEF vars
  <2> QED
    BY <2>1, Zenon DEF ScheduleInv, Schedule, Earliest
<1>7. Schedule'
  BY <1>2, <1>3, <1>4, <1>5, <1>6 DEF Next, Engine
<1> QED
  BY <1>1, <1>7 DEF ScheduleInv

LEMMA ScheduleInvariantHolds ==
  ASSUME 0 \notin ServiceLatency
  PROVE  Spec => []ScheduleInv
<1>1. Init => ScheduleInv
  BY InitRequestInv DEF Init, ScheduleInv, Schedule
<1>2. ScheduleInv /\ [Next]_vars => ScheduleInv'
  BY ScheduleStepInv
<1> QED
  BY <1>1, <1>2, PTL DEF Spec

\* Types: the queues hold requests of the host, no event is due in the past, a core has
\* an event exactly while it has jobs, and only requests that were issued complete.
THEOREM RequestTypeCorrect ==
  ASSUME 0 \notin ServiceLatency
  PROVE  Spec => []TypeOK
<1>1. ASSUME ScheduleInv PROVE TypeOK
  <2>1. completionQueue # {} =>
        /\ Earliest(completionQueue) \in Nat
        /\ \E e \in completionQueue : e.finishedAt = Earliest(completionQueue)
    BY <1>1, EarliestFacts DEF ScheduleInv, RequestInv, RequestTypes
  <2>2. /\ lastScheduled \in Nat /\ eventAt \in Nat \cup {Never}
        /\ eventAt # Never => eventAt >= now
    BY <1>1, <2>1 DEF ScheduleInv, RequestInv, RequestTypes, Schedule
  <2> QED
    BY <1>1, <2>2, Zenon DEF ScheduleInv, RequestInv, RequestTypes, TypeOK
<1> QED
  BY <1>1, ScheduleInvariantHolds, PTL

\* If every request takes some time, the one completion event is always set for the
\* first request to finish, whatever was queued, popped or issued from a callback since
\* updateCompletion() last looked.
THEOREM WakeupAlwaysScheduled ==
  ASSUME 0 \notin ServiceLatency
  PROVE  Spec => []WakeupScheduled
<1>1. ScheduleInv => WakeupScheduled
  BY DEF ScheduleInv, Schedule, WakeupScheduled
<1> QED
  BY <1>1, ScheduleInvariantHolds, PTL

\* If every request takes some time, none completes at another tick than the one the
\* layers below named.
THEOREM RequestsOnTime ==
  ASSUME 0 \notin ServiceLatency
  PROVE  Spec => OnTime
<1>1. ASSUME ScheduleInv, [Next]_vars
      PROVE  [\A e \in completionQueue : e.id \in done' \ done => e.finishedAt = now]_vars
  <2> SUFFICES ASSUME NEW e \in completionQueue, e.id \in done', e.id \notin done
               PROVE  e.finishedAt = now
    BY DEF vars
  <2>1. PICK f \in completionQueue :
          CompleteOnly(f) \/ \E r \in Requests : CompleteAndIssue(f, r)
    BY <1>1 DEF Next, Engine, HostIssue, JobDone, CompletionEvent, EndCompletion, Tick, vars
  <2>2. f.finishedAt = now /\ done' = done \cup {f.id}
    BY <1>1, <2>1, CompleteSchedule
  <2>3. e = f
    BY <1>1, <2>2 DEF ScheduleInv, RequestInv, Places
  <2> QED
    BY <2>2, <2>3
<1>2. ScheduleInv /\ [Next]_vars
        => [\A e \in completionQueue : e.id \in done' \ done => e.finishedAt = now]_vars
  BY <1>1
<1> QED
  BY <1>2, ScheduleInvariantHolds, PTL DEF Spec, OnTime
=============================================================================
