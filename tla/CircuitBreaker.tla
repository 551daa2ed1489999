--------------------------- MODULE CircuitBreaker ---------------------------
(***************************************************************************)
(* ServiceCircuitBreaker (circuit_breaker/breaker.py) and the decorator    *)
(* with_service_circuit_breaker (circuit_breaker/decorator.py) that drives *)
(* it.  Every breaker operation runs under one asyncio lock and suspends   *)
(* nowhere inside it, so each is one atomic step; the awaits that let      *)
(* other tasks in are the guarded call itself and the retry handler.       *)
(*                                                                         *)
(* Wall-clock time is abstracted to the two comparisons the code makes:    *)
(* whether an OPEN circuit has been open for timeout_seconds, and whether  *)
(* the cached fallback is older than fallback_ttl_seconds.                 *)
(***************************************************************************)
EXTENDS Integers, Sequences, FiniteSets

CONSTANTS
    Callers,            \* tasks that call the decorated function
    Requests,           \* ids of requests that can be queued for retry
    Drainers,           \* tasks that run process_retry_queue
    FailureThreshold,   \* config.failure_threshold
    HalfOpenRequests,   \* config.half_open_requests
    MaxQueueSize,       \* config.fallback_max_queue_size
    MaxRetries,         \* QueuedRequest.max_retries
    NoRequest,          \* a drainer that holds no request
    MaxFaults           \* bound: calls that fail or are cancelled

\* FallbackStrategy
Strategies == {"FAIL_CLOSED", "CACHED_VALUE", "QUEUE_FOR_RETRY", "BYPASS",
               "DEFAULT_VALUE"}

ASSUME BreakerAssumption ==
    /\ FailureThreshold \in Nat \ {0}
    /\ HalfOpenRequests \in Nat \ {0}
    /\ MaxQueueSize \in Nat \ {0}
    /\ MaxRetries \in Nat \ {0}
    /\ NoRequest \notin Requests
    /\ MaxFaults \in Nat

VARIABLES
    state,                  \* _state
    consecutiveFailures,    \* _consecutive_failures
    halfOpenSuccesses,      \* _half_open_successes
    strategy,               \* config.fallback_strategy, which never changes
    timeoutExpired,         \* now - _last_state_change >= timeout_seconds
    call,                   \* per caller: "idle" or the state that admitted it
    cache,                  \* _fallback_cache: "none", "fresh" or "expired"
    retryQueue,             \* _retry_queue, oldest first
    retryCount,             \* retry_count of each queued request
    holding,                \* request a drainer has popped and is retrying
    accepted,               \* requests queue_for_retry returned True for
    attempted,              \* requests whose handler was started at least once
    delivered,              \* requests whose handler succeeded
    faults                  \* failed and cancelled calls so far

circuitVars == <<state, consecutiveFailures, halfOpenSuccesses, timeoutExpired>>
queueVars   == <<retryQueue, retryCount, holding, accepted, attempted, delivered>>
vars == <<circuitVars, strategy, call, cache, queueVars, faults>>

States == {"CLOSED", "OPEN", "HALF_OPEN"}
Elements(q) == {q[i] : i \in 1..Len(q)}

TypeOK ==
    /\ state \in States
    /\ strategy \in Strategies
    /\ consecutiveFailures \in Nat
    /\ halfOpenSuccesses \in Nat
    /\ timeoutExpired \in BOOLEAN
    /\ call \in [Callers -> {"idle"} \cup States]
    /\ cache \in {"none", "fresh", "expired"}
    /\ retryQueue \in Seq(Requests)
    /\ retryCount \in [Requests -> Nat]
    /\ holding \in [Drainers -> Requests \cup {NoRequest}]
    /\ accepted \subseteq Requests
    /\ attempted \subseteq Requests
    /\ delivered \subseteq Requests
    /\ faults \in Nat

Init ==
    /\ state = "CLOSED"
    /\ strategy \in Strategies
    /\ consecutiveFailures = 0
    /\ halfOpenSuccesses = 0
    /\ timeoutExpired = FALSE
    /\ call = [c \in Callers |-> "idle"]
    /\ cache = "none"
    /\ retryQueue = <<>>
    /\ retryCount = [r \in Requests |-> 0]
    /\ holding = [d \in Drainers |-> NoRequest]
    /\ accepted = {}
    /\ attempted = {}
    /\ delivered = {}
    /\ faults = 0

-----------------------------------------------------------------------------
(* State changes of the circuit.                                           *)

\* _transition_to: successes restart on entering HALF_OPEN, failures on CLOSED.
TransitionTo(new, failures, successes) ==
    /\ state' = new
    /\ timeoutExpired' = FALSE
    /\ halfOpenSuccesses' = IF new = "HALF_OPEN" THEN 0 ELSE successes
    /\ consecutiveFailures' = IF new = "CLOSED" THEN 0 ELSE failures

\* timeout_seconds pass since the circuit opened.
TimeoutElapses ==
    /\ state = "OPEN"
    /\ ~timeoutExpired
    /\ timeoutExpired' = TRUE
    /\ UNCHANGED <<state, consecutiveFailures, halfOpenSuccesses, strategy, call,
                   cache, queueVars, faults>>

\* can_execute() returns True, or admits the first probe of an OPEN circuit.
CanExecute ==
    \/ state = "CLOSED"
    \/ state = "OPEN" /\ timeoutExpired
    \/ state = "HALF_OPEN" /\ halfOpenSuccesses < HalfOpenRequests

\* The wrapper's call is let through and awaits the guarded function.
Admit(c) ==
    /\ call[c] = "idle"
    /\ CanExecute
    /\ IF state = "OPEN"
         THEN TransitionTo("HALF_OPEN", consecutiveFailures, halfOpenSuccesses)
         ELSE UNCHANGED circuitVars
    /\ call' = [call EXCEPT ![c] = state']
    /\ UNCHANGED <<cache, strategy, queueVars, faults>>

\* Mutant of RecordSuccess: a success in CLOSED only works off one failure.
RecordSuccessDecaying ==
    /\ consecutiveFailures' = consecutiveFailures - 1
    /\ UNCHANGED <<state, halfOpenSuccesses, timeoutExpired>>

\* Mutant of RecordSuccess: one success more than half_open_requests closes.
RecordSuccessOffByOne ==
    \/ /\ state = "HALF_OPEN"
       /\ halfOpenSuccesses + 1 > HalfOpenRequests
       /\ TransitionTo("CLOSED", consecutiveFailures, halfOpenSuccesses + 1)
    \/ /\ state = "HALF_OPEN"
       /\ halfOpenSuccesses + 1 <= HalfOpenRequests
       /\ halfOpenSuccesses' = halfOpenSuccesses + 1
       /\ UNCHANGED <<state, consecutiveFailures, timeoutExpired>>
    \/ /\ state = "CLOSED"
       /\ consecutiveFailures' = 0
       /\ UNCHANGED <<state, halfOpenSuccesses, timeoutExpired>>
    \/ /\ state = "OPEN"
       /\ UNCHANGED circuitVars

\* record_success: counts a half-open success, or clears the failure streak.
RecordSuccess ==
    \/ /\ state = "HALF_OPEN"
       /\ halfOpenSuccesses + 1 >= HalfOpenRequests
       /\ TransitionTo("CLOSED", consecutiveFailures, halfOpenSuccesses + 1)
    \/ /\ state = "HALF_OPEN"
       /\ halfOpenSuccesses + 1 < HalfOpenRequests
       /\ halfOpenSuccesses' = halfOpenSuccesses + 1
       /\ UNCHANGED <<state, consecutiveFailures, timeoutExpired>>
    \/ /\ state = "CLOSED"
       /\ consecutiveFailures' = 0
       /\ UNCHANGED <<state, halfOpenSuccesses, timeoutExpired>>
    \/ /\ state = "OPEN"
       /\ UNCHANGED circuitVars

\* Mutant of RecordFailure: one failure more than the threshold trips.
RecordFailureOffByOne ==
    IF \/ state = "HALF_OPEN"
       \/ state = "CLOSED" /\ consecutiveFailures + 1 > FailureThreshold
      THEN TransitionTo("OPEN", consecutiveFailures + 1, halfOpenSuccesses)
      ELSE /\ consecutiveFailures' = consecutiveFailures + 1
           /\ UNCHANGED <<state, halfOpenSuccesses, timeoutExpired>>

\* record_failure: the streak grows in every state, OPEN included.
RecordFailure ==
    IF \/ state = "HALF_OPEN"
       \/ state = "CLOSED" /\ consecutiveFailures + 1 >= FailureThreshold
      THEN TransitionTo("OPEN", consecutiveFailures + 1, halfOpenSuccesses)
      ELSE /\ consecutiveFailures' = consecutiveFailures + 1
           /\ UNCHANGED <<state, halfOpenSuccesses, timeoutExpired>>

\* The guarded function returns: record_success, then cache the result.
CallSucceeds(c) ==
    /\ call[c] # "idle"
    /\ RecordSuccess
    /\ cache' = IF strategy = "CACHED_VALUE" THEN "fresh" ELSE cache
    /\ call' = [call EXCEPT ![c] = "idle"]
    /\ UNCHANGED <<strategy, queueVars, faults>>

\* The guarded function raises: record_failure and re-raise.
CallFails(c) ==
    /\ call[c] # "idle"
    /\ faults < MaxFaults
    /\ RecordFailure
    /\ call' = [call EXCEPT ![c] = "idle"]
    /\ faults' = faults + 1
    /\ UNCHANGED <<cache, strategy, queueVars>>

\* asyncio.CancelledError is no Exception: the call ends unrecorded.
CallCancelled(c) ==
    /\ call[c] # "idle"
    /\ faults < MaxFaults
    /\ call' = [call EXCEPT ![c] = "idle"]
    /\ faults' = faults + 1
    /\ UNCHANGED <<circuitVars, cache, strategy, queueVars>>

\* reset(): back to the initial circuit; calls in flight and the queue stay.
Reset ==
    /\ state' = "CLOSED"
    /\ consecutiveFailures' = 0
    /\ halfOpenSuccesses' = 0
    /\ timeoutExpired' = FALSE
    /\ UNCHANGED <<call, cache, strategy, queueVars, faults>>

-----------------------------------------------------------------------------
(* Fallbacks of a rejected call and the retry queue.                       *)

\* fallback_ttl_seconds pass since the cached value was set.
CacheExpires ==
    /\ cache = "fresh"
    /\ cache' = "expired"
    /\ UNCHANGED <<circuitVars, strategy, call, queueVars, faults>>

\* deque(maxlen = MaxQueueSize).append: at capacity the oldest is evicted.
BoundedAppend(q, r) ==
    Append(IF Len(q) < MaxQueueSize THEN q ELSE Tail(q), r)

\* Rejected, and the strategy leaves the queue alone: an expired cache entry
\* is deleted when it is looked up, everything else raises or returns a value.
RejectWithoutQueue(c) ==
    /\ call[c] = "idle"
    /\ ~CanExecute
    /\ strategy # "QUEUE_FOR_RETRY"
    /\ cache' = IF strategy = "CACHED_VALUE" /\ cache = "expired"
                  THEN "none" ELSE cache
    /\ UNCHANGED <<circuitVars, strategy, call, queueVars, faults>>

\* Rejected under QUEUE_FOR_RETRY: queue_for_retry refuses when full.
RejectAndQueue(c, r) ==
    /\ call[c] = "idle"
    /\ ~CanExecute
    /\ strategy = "QUEUE_FOR_RETRY"
    /\ r \notin accepted
    /\ Len(retryQueue) < MaxQueueSize
    /\ retryQueue' = BoundedAppend(retryQueue, r)
    /\ accepted' = accepted \cup {r}
    /\ UNCHANGED <<circuitVars, strategy, call, cache, retryCount, holding,
                   attempted, delivered, faults>>

\* Mutant of PopNext: the request is left in the queue while it is retried.
PeekNext(d, q) ==
    IF q = <<>>
      THEN /\ holding' = [holding EXCEPT ![d] = NoRequest]
           /\ retryQueue' = q
           /\ attempted' = attempted
      ELSE /\ holding' = [holding EXCEPT ![d] = Head(q)]
           /\ retryQueue' = q
           /\ attempted' = attempted \cup {Head(q)}

\* The while loop of process_retry_queue: pop the oldest and start its
\* handler, or end the call when the queue is empty.
PopNext(d, q) ==
    IF q = <<>>
      THEN /\ holding' = [holding EXCEPT ![d] = NoRequest]
           /\ retryQueue' = q
           /\ attempted' = attempted
      ELSE /\ holding' = [holding EXCEPT ![d] = Head(q)]
           /\ retryQueue' = Tail(q)
           /\ attempted' = attempted \cup {Head(q)}

\* process_retry_queue is called.
StartDrain(d) ==
    /\ holding[d] = NoRequest
    /\ retryQueue # <<>>
    /\ PopNext(d, retryQueue)
    /\ UNCHANGED <<circuitVars, strategy, call, cache, retryCount, accepted,
                   delivered, faults>>

\* The handler returns and the loop goes on.
RetrySucceeds(d) ==
    /\ holding[d] # NoRequest
    /\ delivered' = delivered \cup {holding[d]}
    /\ PopNext(d, retryQueue)
    /\ UNCHANGED <<circuitVars, call, cache, strategy, retryCount, accepted, faults>>

\* Mutant of RequeueFailed: deque(maxlen) is relied on to make room.
RequeueEvicting(q, r) ==
    IF retryCount[r] + 1 < MaxRetries THEN BoundedAppend(q, r) ELSE q

\* Mutant of RequeueFailed: one retry too many is granted.
RequeueOnceMore(q, r) ==
    IF retryCount[r] + 1 <= MaxRetries /\ Len(q) < MaxQueueSize
      THEN BoundedAppend(q, r) ELSE q

\* Where a request goes whose retry failed: back, if it has retries left and
\* there is room; otherwise it is dropped.
RequeueFailed(q, r) ==
    IF retryCount[r] + 1 < MaxRetries /\ Len(q) < MaxQueueSize
      THEN BoundedAppend(q, r) ELSE q

\* The handler raises and the loop goes on.
RetryFails(d) ==
    /\ holding[d] # NoRequest
    /\ retryCount' = [retryCount EXCEPT ![holding[d]] = @ + 1]
    /\ PopNext(d, RequeueFailed(retryQueue, holding[d]))
    /\ UNCHANGED <<circuitVars, call, cache, strategy, accepted, delivered, faults>>

\* The draining task is cancelled inside the handler: the request it popped
\* is neither delivered nor put back.
DrainCancelled(d) ==
    /\ holding[d] # NoRequest
    /\ holding' = [holding EXCEPT ![d] = NoRequest]
    /\ UNCHANGED <<circuitVars, call, cache, strategy, retryQueue, retryCount,
                   accepted, attempted, delivered, faults>>

-----------------------------------------------------------------------------
Next ==
    \/ TimeoutElapses
    \/ CacheExpires
    \/ Reset
    \/ \E c \in Callers :
          \/ Admit(c)
          \/ CallSucceeds(c)
          \/ CallFails(c)
          \/ CallCancelled(c)
          \/ RejectWithoutQueue(c)
          \/ \E r \in Requests : RejectAndQueue(c, r)
    \/ \E d \in Drainers :
          \/ StartDrain(d)
          \/ RetrySucceeds(d)
          \/ RetryFails(d)
          \/ DrainCancelled(d)

Spec == Init /\ [][Next]_vars

\* Time passes, callers keep calling, and a guarded call that neither fails
\* nor is cancelled returns.
Fairness ==
    /\ WF_vars(TimeoutElapses)
    /\ \A c \in Callers : WF_vars(Admit(c)) /\ WF_vars(CallSucceeds(c))

FairSpec == Spec /\ Fairness

-----------------------------------------------------------------------------
(* Properties.                                                             *)

\* While the circuit is CLOSED the failure streak is below the threshold,
\* whatever late results of older calls record_failure has counted since.
ClosedBelowThreshold ==
    state = "CLOSED" => consecutiveFailures < FailureThreshold

\* A HALF_OPEN circuit never turns a caller away: it closes in the same step
\* in which the last probe it needs succeeds, so can_execute never sees the
\* quota used up and the circuit cannot get stuck half open.
ProbingAlwaysAdmits ==
    state = "HALF_OPEN" => halfOpenSuccesses < HalfOpenRequests

\* A queued request that no drainer has tried yet is still in the queue: a
\* re-queued failure never evicts it (the comment in process_retry_queue).
UntriedRequestsAreKept ==
    accepted \ attempted \subseteq Elements(retryQueue)

\* Everything in the queue has a retry left, so the "exceeded max retries"
\* branch at the top of process_retry_queue's loop never discards a request:
\* PopNext need not model it.
QueuedHaveRetriesLeft ==
    \A r \in Elements(retryQueue) : retryCount[r] < MaxRetries

\* A request whose retry succeeded is out of the queue and in nobody's hands,
\* so concurrent drains never run its handler again.
DeliveredOnce ==
    \A r \in delivered :
        /\ r \notin Elements(retryQueue)
        /\ \A d \in Drainers : holding[d] # r

\* Once calls stop failing the circuit ends up CLOSED for good, even if
\* probes were cancelled on the way.
Recovery == <>[](state = "CLOSED")

\* config.py: half_open_requests is the number of "Requests to allow in
\* half-open state".
ProbesWithinQuota ==
    state = "HALF_OPEN" =>
        Cardinality({c \in Callers : call[c] = "HALF_OPEN"}) <= HalfOpenRequests
=============================================================================
