--------------------------- MODULE KafkaProducer ---------------------------
(***************************************************************************)
(* CircuitBreakerKafkaProducer (cb_kafka_producer.py) with its RetryBuffer *)
(* (retry_buffer.py), composed with the circuit breaker it is guarded by.  *)
(*                                                                         *)
(* A task suspends only where it awaits Kafka or a delay: the asyncio      *)
(* locks of the buffer and the breaker surround code without awaits, so    *)
(* nobody ever waits for them.  Each message stands for the send() call    *)
(* that was given it.  Payloads, keys, delays and log lines are left out;  *)
(* the buffer's four counters are represented by the fate of each message. *)
(***************************************************************************)
EXTENDS Naturals, Sequences

CONSTANTS
    Messages,           \* one send() call each
    NoMessage,          \* process() holds no message
    MaxSize,            \* buffer_size
    MaxRetries,         \* BufferedMessage.max_retries
    FailureThreshold,   \* failure_threshold of the producer's breaker
    HalfOpenRequests,   \* half_open_requests of the producer's breaker
    MaxFaults,          \* bound: send() calls that fail or are cancelled
    MaxCloses           \* bound: calls of close()

ASSUME ProducerAssumption ==
    /\ NoMessage \notin Messages
    /\ MaxSize \in Nat \ {0}
    /\ MaxRetries \in Nat \ {0}
    /\ FailureThreshold \in Nat \ {0}
    /\ HalfOpenRequests \in Nat \ {0}
    /\ MaxFaults \in Nat /\ MaxCloses \in Nat

VARIABLES
    \* the breaker
    state, consecutiveFailures, halfOpenSuccesses, timeoutExpired,
    \* the producer
    life,       \* "off", "up" (_initialized), "closing" (inside close) or
                \* "stalled" (_initialized, but the retry loop has ended)
    connected,  \* _producer is not None
    call,       \* per send(): "idle" or the circuit state that admitted it
    faults,     \* send() calls that failed or were cancelled so far
    closes,     \* calls of close() so far
    \* the retry buffer
    buffer,     \* _buffer, oldest first
    tries,      \* retry_count of each message
    drainer,    \* who runs process(): "none", "loop" or "flush"
    held,       \* the message process() has popped
    toRetry,    \* messages_to_retry
    fate        \* how each message was last accounted for

circuitVars == <<state, consecutiveFailures, halfOpenSuccesses, timeoutExpired>>
drainVars   == <<drainer, held, toRetry>>
bufferVars  == <<buffer, tries, drainVars, fate>>
vars == <<circuitVars, life, connected, call, faults, closes, bufferVars>>

\* "queued" counts in buffered_count, "delivered", "failed" and "dropped" in
\* the counters of these names; "sent" is a send() that returned True.
Fates == {"new", "sent", "cancelled", "queued", "delivered", "failed", "dropped"}

\* The breaker, with the send() calls as its callers.  The producer keeps its
\* own buffer and leaves the breaker's retry queue and fallback cache unused.
CB == INSTANCE CircuitBreaker
        WITH Callers <- Messages, Requests <- {}, Drainers <- {},
             MaxQueueSize <- 1, strategy <- "QUEUE_FOR_RETRY",
             NoRequest <- NoMessage, cache <- "none", retryQueue <- <<>>,
             retryCount <- <<>>, holding <- <<>>, accepted <- {},
             attempted <- {}, delivered <- {}

Elements(q) == {q[i] : i \in 1..Len(q)}

TypeOK ==
    /\ state \in CB!States
    /\ consecutiveFailures \in Nat /\ halfOpenSuccesses \in Nat
    /\ timeoutExpired \in BOOLEAN
    /\ life \in {"off", "up", "closing", "stalled"}
    /\ connected \in BOOLEAN
    /\ call \in [Messages -> {"idle"} \cup CB!States]
    /\ faults \in Nat /\ closes \in Nat
    /\ buffer \in Seq(Messages) /\ Len(buffer) <= MaxSize
    /\ tries \in [Messages -> Nat]
    /\ drainer \in {"none", "loop", "flush"}
    /\ held \in Messages \cup {NoMessage}
    /\ toRetry \in Seq(Messages)
    /\ fate \in [Messages -> Fates]

Init ==
    /\ state = "CLOSED" /\ consecutiveFailures = 0
    /\ halfOpenSuccesses = 0 /\ timeoutExpired = FALSE
    /\ life = "off" /\ connected = FALSE
    /\ call = [m \in Messages |-> "idle"]
    /\ faults = 0 /\ closes = 0
    /\ buffer = <<>>
    /\ tries = [m \in Messages |-> 0]
    /\ drainer = "none" /\ held = NoMessage /\ toRetry = <<>>
    /\ fate = [m \in Messages |-> "new"]

-----------------------------------------------------------------------------
(* The producer's life.                                                    *)

\* initialize: Kafka may be out of reach, then only the buffer works.
Initialize ==
    /\ life = "off"
    /\ life' = "up"
    /\ connected' \in BOOLEAN
    /\ UNCHANGED <<circuitVars, call, faults, closes, bufferVars>>

\* Mutant of EndDrain: _processing is not reset in a finally clause.
KeepProcessing ==
    /\ held' = NoMessage /\ toRetry' = <<>>
    /\ UNCHANGED drainer

\* CancelledError leaves process() through its finally clause: what it had
\* popped and what it was going to put back are gone.
EndDrain ==
    /\ drainer' = "none" /\ held' = NoMessage /\ toRetry' = <<>>

\* close, up to its first await: the retry task is cancelled, but not a
\* flush_buffer that runs process().
Close ==
    /\ life \in {"up", "stalled"}
    /\ closes < MaxCloses
    /\ closes' = closes + 1
    /\ life' = "closing"
    /\ \/ drainer = "loop" /\ EndDrain
       \/ drainer # "loop" /\ UNCHANGED drainVars
    /\ UNCHANGED <<circuitVars, connected, call, faults, buffer, tries, fate>>

\* close, after flush and stop of the Kafka client.
Disconnect ==
    /\ life = "closing"
    /\ life' = "off"
    /\ connected' = FALSE
    /\ UNCHANGED <<circuitVars, call, faults, closes, bufferVars>>

\* flush or stop raises, or close is cancelled there: the producer still looks
\* initialized and connected, but nothing runs its retry loop.
DisconnectFails ==
    /\ life = "closing" /\ connected
    /\ life' = "stalled"
    /\ UNCHANGED <<circuitVars, connected, call, faults, closes, bufferVars>>

-----------------------------------------------------------------------------
(* send.                                                                   *)

\* RetryBuffer.add: a full buffer drops its oldest message and counts it.
Add(m) ==
    /\ \/ /\ Len(buffer) < MaxSize
          /\ buffer' = Append(buffer, m)
          /\ fate' = [fate EXCEPT ![m] = "queued"]
       \/ /\ Len(buffer) >= MaxSize
          /\ buffer' = Append(Tail(buffer), m)
          /\ fate' = [fate EXCEPT ![m] = "queued", ![Head(buffer)] = "dropped"]
    /\ UNCHANGED <<tries, drainVars>>

\* A send() call that was not made before; it initializes the producer first.
Ready(m) == life # "off" /\ fate[m] = "new" /\ call[m] = "idle"

\* can_execute() returns True, an OPEN circuit becoming HALF_OPEN.
Admitted ==
    /\ CB!CanExecute
    /\ \/ /\ state = "OPEN"
          /\ CB!TransitionTo("HALF_OPEN", consecutiveFailures, halfOpenSuccesses)
       \/ state # "OPEN" /\ UNCHANGED circuitVars

SendToKafka(m) ==
    /\ Ready(m)
    /\ connected
    /\ Admitted
    /\ call' = [call EXCEPT ![m] = state']
    /\ UNCHANGED <<life, connected, faults, closes, bufferVars>>

\* Mutant of SendRejected: a rejection is reported as a failed call.
SendRejectedAsFailure(m) ==
    /\ Ready(m)
    /\ ~CB!CanExecute
    /\ CB!RecordFailure
    /\ Add(m)
    /\ UNCHANGED <<life, connected, call, faults, closes>>

\* The circuit is open: the message goes to the buffer.
SendRejected(m) ==
    /\ Ready(m)
    /\ ~CB!CanExecute
    /\ Add(m)
    /\ UNCHANGED <<circuitVars, life, connected, call, faults, closes>>

\* Admitted, but there is no Kafka client: the breaker hears of no result.
SendWithoutClient(m) ==
    /\ Ready(m)
    /\ ~connected
    /\ Admitted
    /\ Add(m)
    /\ UNCHANGED <<life, connected, call, faults, closes>>

SendSucceeds(m) ==
    /\ call[m] # "idle"
    /\ CB!RecordSuccess
    /\ call' = [call EXCEPT ![m] = "idle"]
    /\ fate' = [fate EXCEPT ![m] = "sent"]
    /\ UNCHANGED <<life, connected, faults, closes, buffer, tries, drainVars>>

SendFails(m) ==
    /\ call[m] # "idle"
    /\ faults < MaxFaults
    /\ faults' = faults + 1
    /\ CB!RecordFailure
    /\ call' = [call EXCEPT ![m] = "idle"]
    /\ Add(m)
    /\ UNCHANGED <<life, connected, closes>>

\* The caller of send() is cancelled: nothing is recorded or buffered.
SendCancelled(m) ==
    /\ call[m] # "idle"
    /\ faults < MaxFaults
    /\ faults' = faults + 1
    /\ call' = [call EXCEPT ![m] = "idle"]
    /\ fate' = [fate EXCEPT ![m] = "cancelled"]
    /\ UNCHANGED <<circuitVars, life, connected, closes, buffer, tries, drainVars>>

TimeoutElapses ==
    /\ CB!TimeoutElapses
    /\ UNCHANGED <<life, connected, call, closes, bufferVars>>

-----------------------------------------------------------------------------
(* RetryBuffer.process.                                                    *)

\* Mutant of RetriesLeft: one retry too many.
OneMoreRetry(t) == t <= MaxRetries

\* Whether a message whose retry failed may be retried, after t retries.
RetriesLeft(t) == t < MaxRetries

\* Mutant of Newest: the deque is not bounded.
KeepAll(q) == q

\* The newest MaxSize messages: what deque(maxlen) keeps of those appended.
Newest(q) == IF Len(q) <= MaxSize THEN q
             ELSE SubSeq(q, Len(q) - MaxSize + 1, Len(q))

\* Where in retry the messages are that may be retried again.
Retriable(retry, t) == {i \in 1..Len(retry) : RetriesLeft(t[retry[i]])}

\* The loop pops the next message and sleeps; with the buffer empty the
\* failures in retry, retried t times by now, go back in order or are given up.
Continue(retry, t, f) ==
    \/ /\ buffer # <<>>
       /\ held' = Head(buffer) /\ buffer' = Tail(buffer)
       /\ toRetry' = retry /\ fate' = f
       /\ UNCHANGED drainer
    \/ /\ buffer = <<>>
       /\ \E n \in 0..Len(retry) : \E at \in [1..n -> Retriable(retry, t)] :
            /\ \A i, j \in 1..n : i < j => at[i] < at[j]
            /\ Retriable(retry, t) \subseteq {at[i] : i \in 1..n}
            /\ buffer' = Newest([i \in 1..n |-> retry[at[i]]])
       /\ fate' = [m \in Messages |->
                     IF m \in Elements(retry) /\ ~RetriesLeft(t[m])
                       THEN "failed" ELSE f[m]]
       /\ EndDrain

\* process() starts unless it is running (_processing).
StartDrain(by) ==
    /\ drainer = "none"
    /\ buffer # <<>>
    /\ drainer' = by
    /\ held' = Head(buffer) /\ buffer' = Tail(buffer)
    /\ UNCHANGED <<circuitVars, life, connected, call, faults, closes, tries,
                   toRetry, fate>>

\* _retry_loop, every 30 seconds.
LoopDrains == life = "up" /\ state = "CLOSED" /\ connected /\ StartDrain("loop")

\* flush_buffer asks for a client only.
FlushDrains == connected /\ StartDrain("flush")

\* _send_raw returns.
RetrySucceeds ==
    /\ held # NoMessage
    /\ connected
    /\ Continue(toRetry, tries, [fate EXCEPT ![held] = "delivered"])
    /\ UNCHANGED <<circuitVars, life, connected, call, faults, closes, tries>>

\* Mutant of RetryFails: the message stays in the buffer and is put back.
RetryFailsTwice ==
    /\ held # NoMessage
    /\ tries' = [tries EXCEPT ![held] = @ + 1]
    /\ Continue(Append(Append(toRetry, held), held), tries', fate)
    /\ UNCHANGED <<circuitVars, life, connected, call, faults, closes>>

\* _send_raw raises, as it always does without a client.
RetryFails ==
    /\ held # NoMessage
    /\ tries' = [tries EXCEPT ![held] = @ + 1]
    /\ Continue(Append(toRetry, held), tries', fate)
    /\ UNCHANGED <<circuitVars, life, connected, call, faults, closes>>

\* The caller of flush_buffer is cancelled.
FlushCancelled ==
    /\ drainer = "flush"
    /\ EndDrain
    /\ UNCHANGED <<circuitVars, life, connected, call, faults, closes, buffer,
                   tries, fate>>

-----------------------------------------------------------------------------
Next ==
    \/ Initialize \/ Close \/ Disconnect \/ DisconnectFails \/ TimeoutElapses
    \/ \E m \in Messages :
         \/ SendToKafka(m) \/ SendRejected(m) \/ SendWithoutClient(m)
         \/ SendSucceeds(m) \/ SendFails(m) \/ SendCancelled(m)
    \/ LoopDrains \/ FlushDrains
    \/ RetrySucceeds \/ RetryFails \/ FlushCancelled

Spec == Init /\ [][Next]_vars

\* The retry loop wakes up every 30 seconds, a retry of a message returns or
\* raises, and so do the client's flush and stop and a send() that reached Kafka.
\* Nobody need call send().
Fairness ==
    /\ WF_vars(LoopDrains)
    /\ WF_vars(RetrySucceeds \/ RetryFails)
    /\ WF_vars(Disconnect \/ DisconnectFails) /\ WF_vars(TimeoutElapses)
    /\ \A m \in Messages : WF_vars(SendSucceeds(m) \/ SendFails(m))

FairSpec == Spec /\ Fairness

-----------------------------------------------------------------------------
(* Properties.                                                             *)

\* Where a message is that waits for delivery.
Waiting == buffer \o (IF held = NoMessage THEN <<>> ELSE <<held>>) \o toRetry

InPlay(m) == m \in Elements(Waiting)

\* Through drops, drains, failed retries, cancellations and restarts a
\* waiting message is in one place only, and it is one that no counter
\* reports as sent, delivered, failed or dropped.
OneFate ==
    /\ \A i, j \in 1..Len(Waiting) : Waiting[i] = Waiting[j] => i = j
    /\ \A m \in Elements(Waiting) : fate[m] = "queued" /\ call[m] = "idle"

\* No message is tried more than max_retries times.  One in the buffer has a
\* retry left, so the test at the top of process()'s loop never succeeds.
WithinRetryBudget ==
    /\ \A m \in Messages : tries[m] <= MaxRetries
    /\ \A m \in Elements(buffer) : tries[m] < MaxRetries

\* The producer uses its breaker as the decorator does: admission first, one
\* result per admitted call at most, and no result for a rejected one.  It
\* differs only in the admitted calls without a client, which it never reports.
UsesBreaker ==
    /\ CB!Init
    /\ [][CB!Next \/ (Admitted /\ UNCHANGED <<call, faults>>)
         ]_<<circuitVars, call, faults>>

\* While the circuit stays CLOSED, the client connected and the retry loop
\* alive, no message waits for ever: it is delivered, given up or dropped,
\* whatever was cancelled and however often the producer was closed.
WaitEndsWhileClosed ==
    \A m \in Messages :
        InPlay(m) ~>
            (~InPlay(m) \/ state # "CLOSED" \/ ~connected \/ life = "stalled")

-----------------------------------------------------------------------------
(* What the documentation says and the code does not keep.                 *)

\* "Implements bounded buffer": at most max_size messages wait, the ones that
\* process() will put back included.
BufferIsBounded == Len(buffer) + Len(toRetry) <= MaxSize

\* "QUEUE_FOR_RETRY strategy for guaranteed delivery": a buffered message
\* waits until it is delivered or reported as failed or dropped.
QueuedIsWaiting == \A m \in Messages : fate[m] = "queued" => InPlay(m)

\* "messages are buffered for later retry": with a client that stays
\* connected, no message waits for ever.
WaitEnds == \A m \in Messages : InPlay(m) ~> (~InPlay(m) \/ ~connected)

\* The same while the circuit stays CLOSED: a close() that failed has ended the
\* retry loop of a producer that goes on taking messages.
WaitEndsAfterFailedClose ==
    \A m \in Messages :
        InPlay(m) ~> (~InPlay(m) \/ state # "CLOSED" \/ ~connected)

\* "Only process if circuit is closed": the retry loop starts no retry in
\* another state.
LoopRetriesWhileClosed ==
    [][drainer' = "loop" /\ held' # held /\ held' # NoMessage => state = "CLOSED"]_vars
=============================================================================
