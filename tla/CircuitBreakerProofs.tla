------------------------ MODULE CircuitBreakerProofs ------------------------
(* Proofs about CircuitBreaker, for any number of callers, requests and    *)
(* drainers and any thresholds.                                            *)
EXTENDS CircuitBreaker, SequenceTheorems, TLAPS

-----------------------------------------------------------------------------
(* Facts about the retry queue.                                            *)

\* Appending to the bounded deque keeps it a sequence of requests.
LEMMA BoundedAppendType ==
    ASSUME NEW q \in Seq(Requests), NEW r \in Requests
    PROVE  BoundedAppend(q, r) \in Seq(Requests)
<1>1. CASE Len(q) < MaxQueueSize
    BY <1>1 DEF BoundedAppend
<1>2. CASE ~(Len(q) < MaxQueueSize)
  <2>1. q # <<>>
    BY <1>2, BreakerAssumption
  <2>2. Tail(q) \in Seq(Requests)
    BY <2>1
  <2> QED
    BY <1>2, <2>2 DEF BoundedAppend
<1> QED
    BY <1>1, <1>2

\* Re-queueing a failed request keeps the queue a sequence of requests.
LEMMA RequeueFailedType ==
    ASSUME NEW q \in Seq(Requests), NEW r \in Requests
    PROVE  RequeueFailed(q, r) \in Seq(Requests)
BY BoundedAppendType DEF RequeueFailed

\* Popping the oldest request keeps the queue variables in their types.
LEMMA PopNextType ==
    ASSUME TypeOK, NEW d \in Drainers, NEW q \in Seq(Requests), PopNext(d, q)
    PROVE  /\ retryQueue' \in Seq(Requests)
           /\ holding' \in [Drainers -> Requests \cup {NoRequest}]
           /\ attempted' \subseteq Requests
<1>1. CASE q = <<>>
    BY <1>1 DEF PopNext, TypeOK
<1>2. CASE q # <<>>
  <2>1. Head(q) \in Requests /\ Tail(q) \in Seq(Requests)
    BY <1>2
  <2> QED
    BY <1>2, <2>1 DEF PopNext, TypeOK
<1> QED
    BY <1>1, <1>2

-----------------------------------------------------------------------------
(* Type correctness and the two bounds of the circuit.                     *)

\* The inductive invariant of the circuit: its types, the failure streak of a
\* CLOSED circuit and the success count of a HALF_OPEN one.
CircuitInv == TypeOK /\ ClosedBelowThreshold /\ ProbingAlwaysAdmits

\* TransitionTo keeps the circuit's invariant for any counts it is given.
LEMMA TransitionToInv ==
    ASSUME NEW new \in States, NEW f \in Nat, NEW s \in Nat,
           TransitionTo(new, f, s)
    PROVE  /\ state' \in States /\ timeoutExpired' \in BOOLEAN
           /\ consecutiveFailures' \in Nat /\ halfOpenSuccesses' \in Nat
           /\ ClosedBelowThreshold' /\ ProbingAlwaysAdmits'
<1>1. timeoutExpired' \in BOOLEAN
    BY Zenon DEF TransitionTo
<1>2. /\ state' = new
      /\ halfOpenSuccesses' = IF new = "HALF_OPEN" THEN 0 ELSE s
      /\ consecutiveFailures' = IF new = "CLOSED" THEN 0 ELSE f
    BY Zenon DEF TransitionTo
<1>3. consecutiveFailures' \in Nat /\ halfOpenSuccesses' \in Nat
    BY <1>2
<1>4. ClosedBelowThreshold' /\ ProbingAlwaysAdmits'
    BY <1>2, BreakerAssumption DEF ClosedBelowThreshold, ProbingAlwaysAdmits
<1> QED
    BY <1>1, <1>2, <1>3, <1>4, Zenon

\* The initial state satisfies the invariant.
LEMMA InitCircuitInv == Init => CircuitInv
<1> SUFFICES ASSUME Init PROVE CircuitInv
    OBVIOUS
<1>1. timeoutExpired \in BOOLEAN
    BY Zenon DEF Init
<1>2. ClosedBelowThreshold /\ ProbingAlwaysAdmits
    BY BreakerAssumption DEF Init, ClosedBelowThreshold, ProbingAlwaysAdmits
<1> QED
    BY <1>1, <1>2 DEF Init, CircuitInv, TypeOK, States

\* Every step keeps the invariant.
LEMMA NextCircuitInv == CircuitInv /\ [Next]_vars => CircuitInv'
<1> SUFFICES ASSUME CircuitInv, [Next]_vars PROVE CircuitInv'
    OBVIOUS
<1> USE DEF CircuitInv
<1>1. CASE TimeoutElapses
    BY <1>1 DEF TimeoutElapses, TypeOK, queueVars, ClosedBelowThreshold, ProbingAlwaysAdmits
<1>2. CASE CacheExpires
    BY <1>2 DEF CacheExpires, TypeOK, circuitVars, queueVars, ClosedBelowThreshold,
       ProbingAlwaysAdmits
<1>3. CASE Reset
  <2>1. timeoutExpired' \in BOOLEAN
    BY <1>3, Zenon DEF Reset
  <2>2. ClosedBelowThreshold' /\ ProbingAlwaysAdmits'
    BY <1>3, BreakerAssumption DEF Reset, ClosedBelowThreshold, ProbingAlwaysAdmits
  <2> QED
    BY <1>3, <2>1, <2>2 DEF Reset, TypeOK, States, queueVars
<1>4. ASSUME NEW c \in Callers, Admit(c) PROVE CircuitInv'
  <2>1. CASE state = "OPEN"
    <3>1. TransitionTo("HALF_OPEN", consecutiveFailures, halfOpenSuccesses)
      BY <1>4, <2>1 DEF Admit
    <3>2. "HALF_OPEN" \in States
      BY DEF States
    <3>3. state' \in States /\ timeoutExpired' \in BOOLEAN
          /\ consecutiveFailures' \in Nat /\ halfOpenSuccesses' \in Nat
          /\ ClosedBelowThreshold' /\ ProbingAlwaysAdmits'
      BY <3>1, <3>2, TransitionToInv DEF TypeOK
    <3> QED
      BY <1>4, <3>3 DEF Admit, TypeOK, queueVars
  <2>2. CASE state # "OPEN"
    BY <1>4, <2>2 DEF Admit, TypeOK, circuitVars, queueVars, ClosedBelowThreshold,
       ProbingAlwaysAdmits
  <2> QED
    BY <2>1, <2>2
<1>5. ASSUME NEW c \in Callers, CallSucceeds(c) PROVE CircuitInv'
  <2>1. state' \in States /\ timeoutExpired' \in BOOLEAN
        /\ consecutiveFailures' \in Nat /\ halfOpenSuccesses' \in Nat
        /\ ClosedBelowThreshold' /\ ProbingAlwaysAdmits'
    <3>1. CASE state = "HALF_OPEN" /\ halfOpenSuccesses + 1 >= HalfOpenRequests
      <4>1. TransitionTo("CLOSED", consecutiveFailures, halfOpenSuccesses + 1)
        BY <1>5, <3>1, BreakerAssumption DEF CallSucceeds, RecordSuccess, TypeOK
      <4> QED
        BY <4>1, TransitionToInv DEF TypeOK, States
    <3>2. CASE state = "HALF_OPEN" /\ halfOpenSuccesses + 1 < HalfOpenRequests
      BY <1>5, <3>2, BreakerAssumption DEF CallSucceeds, RecordSuccess, TypeOK,
         ClosedBelowThreshold, ProbingAlwaysAdmits
    <3>3. CASE state = "CLOSED"
      BY <1>5, <3>3, BreakerAssumption DEF CallSucceeds, RecordSuccess, TypeOK,
         ClosedBelowThreshold, ProbingAlwaysAdmits
    <3>4. CASE state = "OPEN"
      BY <1>5, <3>4 DEF CallSucceeds, RecordSuccess, TypeOK, circuitVars,
         ClosedBelowThreshold, ProbingAlwaysAdmits
    <3> QED
      BY <3>1, <3>2, <3>3, <3>4, BreakerAssumption DEF TypeOK, States
  <2> QED
    BY <1>5, <2>1 DEF CallSucceeds, TypeOK, queueVars
<1>6. ASSUME NEW c \in Callers, CallFails(c) PROVE CircuitInv'
  <2>1. state' \in States /\ timeoutExpired' \in BOOLEAN
        /\ consecutiveFailures' \in Nat /\ halfOpenSuccesses' \in Nat
        /\ ClosedBelowThreshold' /\ ProbingAlwaysAdmits'
    <3>1. CASE \/ state = "HALF_OPEN"
               \/ state = "CLOSED" /\ consecutiveFailures + 1 >= FailureThreshold
      <4>1. TransitionTo("OPEN", consecutiveFailures + 1, halfOpenSuccesses)
        BY <1>6, <3>1 DEF CallFails, RecordFailure
      <4> QED
        BY <4>1, TransitionToInv DEF TypeOK, States
    <3>2. CASE ~ \/ state = "HALF_OPEN"
                 \/ state = "CLOSED" /\ consecutiveFailures + 1 >= FailureThreshold
      BY <1>6, <3>2, BreakerAssumption DEF CallFails, RecordFailure, TypeOK,
         ClosedBelowThreshold, ProbingAlwaysAdmits
    <3> QED
      BY <3>1, <3>2
  <2> QED
    BY <1>6, <2>1 DEF CallFails, TypeOK, queueVars
<1>7. ASSUME NEW c \in Callers, CallCancelled(c) PROVE CircuitInv'
    BY <1>7 DEF CallCancelled, TypeOK, circuitVars, queueVars, ClosedBelowThreshold,
       ProbingAlwaysAdmits
<1>8. ASSUME NEW c \in Callers, RejectWithoutQueue(c) PROVE CircuitInv'
    BY <1>8 DEF RejectWithoutQueue, TypeOK, circuitVars, queueVars,
       ClosedBelowThreshold, ProbingAlwaysAdmits
<1>9. ASSUME NEW c \in Callers, NEW r \in Requests, RejectAndQueue(c, r)
      PROVE  CircuitInv'
    BY <1>9, BoundedAppendType DEF RejectAndQueue, TypeOK, circuitVars,
       ClosedBelowThreshold, ProbingAlwaysAdmits
<1>10. ASSUME NEW d \in Drainers, StartDrain(d) PROVE CircuitInv'
  <2>1. PopNext(d, retryQueue) /\ retryQueue \in Seq(Requests)
    BY <1>10 DEF StartDrain, TypeOK
  <2> QED
    BY <1>10, <2>1, PopNextType DEF StartDrain, TypeOK, circuitVars,
       ClosedBelowThreshold, ProbingAlwaysAdmits
<1>11. ASSUME NEW d \in Drainers, RetrySucceeds(d) PROVE CircuitInv'
  <2>1. PopNext(d, retryQueue) /\ retryQueue \in Seq(Requests)
    BY <1>11 DEF RetrySucceeds, TypeOK
  <2> QED
    BY <1>11, <2>1, PopNextType DEF RetrySucceeds, TypeOK, circuitVars,
       ClosedBelowThreshold, ProbingAlwaysAdmits
<1>12. ASSUME NEW d \in Drainers, RetryFails(d) PROVE CircuitInv'
  <2>1. holding[d] \in Requests
    BY <1>12 DEF RetryFails, TypeOK
  <2>2. RequeueFailed(retryQueue, holding[d]) \in Seq(Requests)
    BY <2>1, RequeueFailedType DEF TypeOK
  <2>3. retryQueue' \in Seq(Requests)
        /\ holding' \in [Drainers -> Requests \cup {NoRequest}]
        /\ attempted' \subseteq Requests
    BY <1>12, <2>2, PopNextType DEF RetryFails
  <2>4. retryCount' \in [Requests -> Nat]
    BY <1>12, <2>1 DEF RetryFails, TypeOK
  <2> QED
    BY <1>12, <2>3, <2>4 DEF RetryFails, TypeOK, circuitVars,
       ClosedBelowThreshold, ProbingAlwaysAdmits
<1>13. ASSUME NEW d \in Drainers, DrainCancelled(d) PROVE CircuitInv'
    BY <1>13 DEF DrainCancelled, TypeOK, circuitVars, ClosedBelowThreshold,
       ProbingAlwaysAdmits
<1>14. CASE UNCHANGED vars
    BY <1>14 DEF vars, TypeOK, circuitVars, queueVars, ClosedBelowThreshold,
       ProbingAlwaysAdmits
<1> QED
    BY <1>1, <1>2, <1>3, <1>4, <1>5, <1>6, <1>7, <1>8, <1>9, <1>10, <1>11, <1>12,
       <1>13, <1>14 DEF Next

\* Every reachable state of the breaker satisfies the invariant.
THEOREM CircuitInvariant == Spec => []CircuitInv
<1>1. Init => CircuitInv
    BY InitCircuitInv
<1>2. CircuitInv /\ [Next]_vars => CircuitInv'
    BY NextCircuitInv
<1> QED
    BY <1>1, <1>2, PTL DEF Spec

\* The breaker's variables keep their types.
THEOREM BreakerTypeCorrect == Spec => []TypeOK
BY CircuitInvariant, PTL DEF CircuitInv

\* A CLOSED circuit's failure streak is below failure_threshold.
THEOREM BreakerTrips == Spec => []ClosedBelowThreshold
BY CircuitInvariant, PTL DEF CircuitInv

\* A HALF_OPEN circuit admits every caller: it cannot get stuck half open
\* with its quota of successes used up.
THEOREM ProbingNeverStuck == Spec => []ProbingAlwaysAdmits
BY CircuitInvariant, PTL DEF CircuitInv

-----------------------------------------------------------------------------
(* The retry queue, as a set of requests: where each of them is.           *)

\* No request is in the queue twice.
Distinct(q) == \A i, j \in 1..Len(q) : q[i] = q[j] => i = j

LEMMA AppendElements ==
    ASSUME NEW q \in Seq(Requests), NEW r \in Requests
    PROVE  /\ Elements(Append(q, r)) = Elements(q) \cup {r}
           /\ Distinct(q) /\ r \notin Elements(q) => Distinct(Append(q, r))
<1>1. /\ Len(Append(q, r)) = Len(q) + 1 /\ Len(q) \in Nat
      /\ \A i \in 1..Len(q) : Append(q, r)[i] = q[i]
      /\ Append(q, r)[Len(q) + 1] = r
    OBVIOUS
<1>2. Elements(Append(q, r)) = Elements(q) \cup {r}
    BY <1>1 DEF Elements
<1>3. ASSUME Distinct(q), r \notin Elements(q)
      PROVE  Distinct(Append(q, r))
    BY <1>1, <1>3 DEF Distinct, Elements
<1> QED
    BY <1>2, <1>3

LEMMA TailElements ==
    ASSUME NEW q \in Seq(Requests), q # <<>>, Distinct(q)
    PROVE  /\ Head(q) \in Elements(q)
           /\ Elements(Tail(q)) = Elements(q) \ {Head(q)}
           /\ Distinct(Tail(q))
<1>1. /\ Len(q) \in Nat /\ Len(q) > 0 /\ Head(q) = q[1]
      /\ Tail(q) \in Seq(Requests) /\ Len(Tail(q)) = Len(q) - 1
      /\ \A i \in 1..Len(Tail(q)) : Tail(q)[i] = q[i + 1]
    OBVIOUS
<1>2. Head(q) \in Elements(q)
    BY <1>1 DEF Elements
<1>3. Distinct(Tail(q))
    BY <1>1 DEF Distinct
<1>4. ASSUME NEW r \in Elements(Tail(q))
      PROVE  r \in Elements(q) /\ r # Head(q)
  <2>1. PICK i \in 1..Len(Tail(q)) : r = Tail(q)[i]
      BY DEF Elements
  <2>2. r = q[i + 1] /\ i + 1 \in 1..Len(q) /\ i + 1 # 1 /\ 1 \in 1..Len(q)
      BY <1>1, <2>1
  <2> QED
      BY <1>1, <2>2 DEF Elements, Distinct
<1>5. ASSUME NEW r \in Elements(q), r # Head(q)
      PROVE  r \in Elements(Tail(q))
  <2>1. PICK i \in 1..Len(q) : r = q[i]
      BY DEF Elements
  <2>2. i - 1 \in 1..Len(Tail(q)) /\ Tail(q)[i - 1] = q[i - 1 + 1]
      BY <1>1, <1>5, <2>1
  <2> QED
      BY <2>1, <2>2 DEF Elements
<1> QED
    BY <1>2, <1>3, <1>4, <1>5

\* What holds of queue q and the drainers' hands h, with the requests a that
\* were accepted, t that were attempted, s that were delivered, and their
\* retry counts n: a request is in one place at most, a request that is in
\* nobody's hands and was never tried is in the queue, and what is in the
\* queue has a retry left.
Placed(q, h, a, t, s, n) ==
    /\ Distinct(q)
    /\ Elements(q) \subseteq a /\ t \subseteq a /\ s \subseteq t
    /\ \A d \in Drainers : h[d] # NoRequest =>
           h[d] \in t /\ h[d] \notin s /\ h[d] \notin Elements(q)
    /\ \A d, e \in Drainers : d # e /\ h[d] # NoRequest => h[d] # h[e]
    /\ s \cap Elements(q) = {}
    /\ a \ t \subseteq Elements(q)
    /\ \A r \in Elements(q) : n[r] < MaxRetries
    /\ \A r \in Requests \ a : n[r] = 0

\* The drainer puts down what it holds.
LEMMA PutDown ==
    ASSUME NEW q, NEW h \in [Drainers -> Requests \cup {NoRequest}],
           NEW a, NEW t, NEW s, NEW n, NEW d \in Drainers, Placed(q, h, a, t, s, n)
    PROVE  Placed(q, [h EXCEPT ![d] = NoRequest], a, t, s, n)
BY DEF Placed

LEMMA Deliver ==
    ASSUME NEW q, NEW h \in [Drainers -> Requests \cup {NoRequest}],
           NEW a, NEW t, NEW s, NEW n, NEW d \in Drainers, Placed(q, h, a, t, s, n),
           h[d] # NoRequest
    PROVE  Placed(q, [h EXCEPT ![d] = NoRequest], a, t, s \cup {h[d]}, n)
BY DEF Placed

\* A failed request goes back only with a retry left, and evicts nothing.
LEMMA Requeue ==
    ASSUME NEW q \in Seq(Requests), NEW h \in [Drainers -> Requests \cup {NoRequest}],
           NEW a, NEW t, NEW s, NEW d \in Drainers, h[d] # NoRequest,
           retryCount \in [Requests -> Nat],
           Placed(q, h, a, t, s, retryCount)
    PROVE  Placed(RequeueFailed(q, h[d]), [h EXCEPT ![d] = NoRequest], a, t, s,
                  [retryCount EXCEPT ![h[d]] = @ + 1])
<1>. DEFINE r == h[d]
            n == [retryCount EXCEPT ![r] = @ + 1]
            g == [h EXCEPT ![d] = NoRequest]
<1>1. /\ r \in Requests /\ r \notin Elements(q) /\ r \in t /\ r \in a /\ r \notin s
      /\ n[r] = retryCount[r] + 1 /\ \A x \in Requests \ {r} : n[x] = retryCount[x]
      /\ Elements(q) \subseteq Requests
    BY DEF Placed, Elements
<1>2. Placed(q, g, a, t, s, n)
  <2>1. \A x \in Elements(q) : n[x] < MaxRetries
      BY <1>1 DEF Placed
  <2>2. \A x \in Requests \ a : n[x] = 0
      BY <1>1 DEF Placed
  <2>3. Placed(q, g, a, t, s, retryCount)
      BY PutDown
  <2> QED
      BY <2>1, <2>2, <2>3, Zenon DEF Placed
<1>3. \A e \in Drainers : g[e] # r
    BY <1>1, BreakerAssumption DEF Placed
<1>. HIDE DEF n, g, r
<1>4. CASE retryCount[r] + 1 < MaxRetries /\ Len(q) < MaxQueueSize
  <2>1. RequeueFailed(q, r) = Append(q, r)
      BY <1>4 DEF RequeueFailed, BoundedAppend
  <2>2. /\ Distinct(Append(q, r))
        /\ Elements(Append(q, r)) = Elements(q) \cup {r}
      BY <1>1, <1>2, AppendElements DEF Placed
  <2>3. Placed(Append(q, r), g, a, t, s, n)
      BY <1>1, <1>2, <1>3, <1>4, <2>2 DEF Placed
  <2> QED
      BY <2>1, <2>3 DEF n, g, r
<1>5. CASE ~(retryCount[r] + 1 < MaxRetries /\ Len(q) < MaxQueueSize)
  <2>1. RequeueFailed(q, r) = q
      BY <1>5 DEF RequeueFailed
  <2> QED
      BY <1>2, <2>1 DEF n, g, r
<1> QED
    BY <1>4, <1>5

\* The next request popped is in one pair of hands.
LEMMA Pop ==
    ASSUME NEW q \in Seq(Requests), NEW h \in [Drainers -> Requests \cup {NoRequest}],
           NEW a, NEW s, NEW n, NEW d \in Drainers,
           holding \in [Drainers -> Requests \cup {NoRequest}],
           h = [holding EXCEPT ![d] = NoRequest],
           Placed(q, h, a, attempted, s, n), PopNext(d, q)
    PROVE  Placed(retryQueue', holding', a, attempted', s, n)
<1>1. CASE q = <<>>
  <2>1. holding' = h /\ retryQueue' = q /\ attempted' = attempted
      BY <1>1 DEF PopNext
  <2> QED
      BY <2>1
<1>2. CASE q # <<>>
  <2>. DEFINE r == Head(q)
  <2>1. /\ holding' = [holding EXCEPT ![d] = r] /\ retryQueue' = Tail(q)
        /\ attempted' = attempted \cup {r}
      BY <1>2 DEF PopNext
  <2>2. /\ r \in Elements(q) /\ Distinct(Tail(q))
        /\ Elements(Tail(q)) = Elements(q) \ {r}
      BY <1>2, TailElements DEF Placed
  <2>. HIDE DEF r
  <2>3. /\ holding'[d] = r
        /\ \A e \in Drainers \ {d} : holding'[e] = h[e]
      BY <2>1
  <2>4. r \in Requests /\ r # NoRequest
      BY <2>2, BreakerAssumption DEF Elements
  <2>5. \A e \in Drainers : h[e] # r
      BY <2>2, <2>4 DEF Placed
  <2> QED
      BY <2>1, <2>2, <2>3, <2>4, <2>5 DEF Placed
<1> QED
    BY <1>1, <1>2

\* The inductive invariant of the queue.
QueueInv == TypeOK /\ Placed(retryQueue, holding, accepted, attempted, delivered, retryCount)

LEMMA NextQueueInv == QueueInv /\ [Next]_vars /\ TypeOK' => QueueInv'
<1> SUFFICES ASSUME QueueInv, [Next]_vars
             PROVE  Placed(retryQueue, holding, accepted, attempted, delivered, retryCount)'
    BY DEF QueueInv
<1>. DEFINE Inv == Placed(retryQueue, holding, accepted, attempted, delivered, retryCount)
<1>0. /\ retryQueue \in Seq(Requests) /\ holding \in [Drainers -> Requests \cup {NoRequest}]
      /\ retryCount \in [Requests -> Nat] /\ Inv
    BY DEF QueueInv, TypeOK
<1>1. CASE UNCHANGED queueVars
    BY <1>0, <1>1 DEF queueVars
<1>2. CASE TimeoutElapses \/ CacheExpires \/ Reset \/ UNCHANGED vars
    BY <1>1, <1>2 DEF TimeoutElapses, CacheExpires, Reset, vars
<1>3. ASSUME NEW c \in Callers,
             \/ Admit(c) \/ CallSucceeds(c) \/ CallFails(c) \/ CallCancelled(c)
             \/ RejectWithoutQueue(c)
      PROVE  Inv'
  <2>1. UNCHANGED queueVars
      BY <1>3, Zenon DEF Admit, CallSucceeds, CallFails, CallCancelled, RejectWithoutQueue
  <2> QED
      BY <1>1, <2>1
<1>4. ASSUME NEW c \in Callers, NEW r \in Requests, RejectAndQueue(c, r)
      PROVE  Inv'
  <2>1. /\ r \notin accepted /\ accepted' = accepted \cup {r}
        /\ retryQueue' = Append(retryQueue, r)
        /\ UNCHANGED <<holding, retryCount, attempted, delivered>>
      BY <1>4 DEF RejectAndQueue, BoundedAppend
  <2>2. /\ Distinct(retryQueue')
        /\ Elements(retryQueue') = Elements(retryQueue) \cup {r}
      BY <1>0, <2>1, AppendElements DEF Placed
  <2>3. retryCount[r] = 0 /\ 0 < MaxRetries
      BY <1>0, <2>1, BreakerAssumption DEF Placed
  <2> QED
      BY <1>0, <2>1, <2>2, <2>3 DEF Placed
<1>5. ASSUME NEW d \in Drainers, StartDrain(d)
      PROVE  Inv'
  <2>1. holding = [holding EXCEPT ![d] = NoRequest] /\ PopNext(d, retryQueue)
        /\ UNCHANGED <<accepted, delivered, retryCount>>
      BY <1>0, <1>5 DEF StartDrain
  <2> QED
      BY <1>0, <2>1, Pop
<1>6. ASSUME NEW d \in Drainers, RetrySucceeds(d)
      PROVE  Inv'
  <2>. DEFINE h == [holding EXCEPT ![d] = NoRequest]
  <2>1. /\ h \in [Drainers -> Requests \cup {NoRequest}]
        /\ delivered' = delivered \cup {holding[d]} /\ PopNext(d, retryQueue)
        /\ UNCHANGED <<accepted, retryCount>> /\ holding[d] # NoRequest
      BY <1>0, <1>6 DEF RetrySucceeds
  <2>2. Placed(retryQueue, h, accepted, attempted, delivered', retryCount)
      BY <1>0, <2>1, Deliver
  <2> QED
      BY <1>0, <2>1, <2>2, Pop
<1>7. ASSUME NEW d \in Drainers, RetryFails(d)
      PROVE  Inv'
  <2>. DEFINE h == [holding EXCEPT ![d] = NoRequest]
              q == RequeueFailed(retryQueue, holding[d])
  <2>1. /\ h \in [Drainers -> Requests \cup {NoRequest}]
        /\ holding[d] \in Requests /\ holding[d] # NoRequest
        /\ retryCount' = [retryCount EXCEPT ![holding[d]] = @ + 1]
        /\ PopNext(d, q) /\ UNCHANGED <<accepted, delivered>>
      BY <1>0, <1>7 DEF RetryFails
  <2>2. Placed(q, h, accepted, attempted, delivered, retryCount')
      BY <1>0, <2>1, Requeue
  <2>3. q \in Seq(Requests)
      BY <1>0, <2>1, RequeueFailedType
  <2>. HIDE DEF q
  <2> QED
      BY <1>0, <2>1, <2>2, <2>3, Pop
<1>8. ASSUME NEW d \in Drainers, DrainCancelled(d)
      PROVE  Inv'
    BY <1>0, <1>8, PutDown DEF DrainCancelled
<1> QED
    BY <1>2, <1>3, <1>4, <1>5, <1>6, <1>7, <1>8 DEF Next

\* Every reachable state of the retry queue satisfies the invariant.
THEOREM QueueInvariant == Spec => []QueueInv
<1>1. Init => QueueInv
  <2> SUFFICES ASSUME Init PROVE QueueInv
      OBVIOUS
  <2>1. TypeOK
      BY InitCircuitInv DEF CircuitInv
  <2>2. Elements(retryQueue) = {} /\ Distinct(retryQueue)
      BY DEF Init, Elements, Distinct
  <2> QED
      BY <2>1, <2>2 DEF Init, QueueInv, Placed
<1>2. QueueInv /\ [Next]_vars /\ TypeOK' => QueueInv'
    BY NextQueueInv
<1> QED
    BY <1>1, <1>2, BreakerTypeCorrect, PTL DEF Spec

\* A request nobody has tried is still queued: no re-queued failure evicts it.
THEOREM UntriedStay == Spec => []UntriedRequestsAreKept
<1>1. QueueInv => UntriedRequestsAreKept
    BY DEF QueueInv, Placed, UntriedRequestsAreKept
<1> QED
    BY <1>1, QueueInvariant, PTL

\* A queued request has a retry left, so no drainer discards it unseen.
THEOREM RetriesAreLeft == Spec => []QueuedHaveRetriesLeft
<1>1. QueueInv => QueuedHaveRetriesLeft
    BY DEF QueueInv, Placed, QueuedHaveRetriesLeft
<1> QED
    BY <1>1, QueueInvariant, PTL

\* What was delivered is in no queue and in no drainer's hands.
THEOREM DeliversOnce == Spec => []DeliveredOnce
<1>1. QueueInv => DeliveredOnce
    BY BreakerAssumption DEF QueueInv, TypeOK, Placed, DeliveredOnce
<1> QED
    BY <1>1, QueueInvariant, PTL

=============================================================================
