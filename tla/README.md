# Enhanced Agent Bus: a TLA+ verification project

The Enhanced Agent Bus is an asyncio service: agents send governed messages,
workflows run durably, people and agents deliberate, versions of a constitution
are activated, and calls to OPA, Redis, Kafka and LLM providers go through
circuit breakers. This directory holds TLA+ models of the parts whose
correctness depends on interleavings, failures and recovery, the TLC
configurations that check them on small instances, and TLAPS proofs, for every
instance, of every safety property those configurations check. Paths below are
relative to the repository.

`PROJECT.json` maps each definition to the lines it models and lists the
components, the runs, the hazards, the findings and the theorems.

## 1. Inventory

| component | state | operations | hard behaviour | what makes it correct |
| --- | --- | --- | --- | --- |
| Circuit breaker (`circuit_breaker/`) | circuit state, failure streak, half-open successes, fallback cache, bounded retry queue | `can_execute`, `record_success`, `record_failure`, `queue_for_retry`, `process_retry_queue`, `reset`, the decorator | results of calls admitted in an earlier state, cancelled calls, concurrent drains, the queue at its limit | trips at the threshold, cannot wedge, recovers, loses nothing untried |
| Durable workflows (`persistence/`, `api/routes/workflows.py`) | instance, step, event and compensation rows in PostgreSQL, Redis result cache, the executor's memory | `start_workflow`, `execute_workflow`, `execute_activity`, `register_compensation`, `cancel_workflow`, `resume_workflow`, replay | process death between any two calls, a call that raises, two requests for one instance, retry after failure | every effect is compensable, COMPLETED means done, compensations newest first and at most once, every run ends |
| Kafka producer (`cb_kafka_producer.py`, `retry_buffer.py`) | the client, the bounded buffer, the retry loop, its breaker | `initialize`, `send`, `close`, `_retry_loop`, `flush_buffer`, `process` | eviction, cancellation in the middle of a drain, a circuit that changes during a drain | a message has one fate, retries are bounded, waiting ends |
| Elections (`deliberation_layer/voting_service.py`, `redis_election_store.py`, `vote_consumer.py`, `timeout_checker.py`) | election JSON with a TTL in Redis, Kafka topic and offsets | create, `cast_vote`, `get_result`, consume a vote event, expire | read-modify-write without a lock, redelivery, expiry racing resolution, a key that expires in between | a decision has the votes for it, no vote lost, one decision |
| Deliberation queue and human review (`deliberation_layer/deliberation_queue.py`, `hitl_manager.py`) | items, votes, monitors, counters, persisted snapshot | enqueue, vote, human decision, timeout, `update_status`, resolve, stop, load | timeout racing a decision, saves in threads, restart | a decision is final and earned, each item is counted once and ends |
| Flywheel runs and saga persistence (`data_flywheel/run_orchestrator.py`, `saga_persistence/`) | saga hash with version and TTL, indexes by state, checkpoints | build, pause, resume, advance, complete, stop, clean up | read-then-pipeline updates, an optimistic check, keys that expire | a run is found by its state, only valid transitions |
| Constitutional version storage (`constitutional/storage_infra/`) | version rows in PostgreSQL, cached versions and active id, lock with a TTL | `save_version`, `get_version`, `get_active_version`, `activate_version` | lock expiring under its holder, calls whose failure is swallowed, a cache filled from an old read | one active version; rows and cache agree |
| Constitutional sagas (`constitutional/activation_saga.py`, `rollback_engine.py`) | amendments, OPA bundle, backup | activate, roll back, detect degradation | compensation on a stale backup | storage, OPA and cache agree |
| Approvals and vote collection (`multi_approver.py`, `vote_collector.py`) | requests, approvals, escalation level | submit, approve, escalate, time out | escalation racing approval | quorum, no self-approval |
| Checkpointing executor (`durable_execution.py`) | SQLite checkpoints, active workflows | execute, resume, cancel | crash around a checkpoint, cancel of a running workflow | no step skipped |
| MACI (`maci/`) | registrations, roles, outputs and their producers | register, record output, validate | registration changing under validation, output history limits | nobody validates its own output |
| LLM failover (`llm_adapters/failover/`) | active provider per tenant, health, hedged requests | failover, recover, hedge | a health change between selection and call | returns to the primary, one winner |
| Agent health (`agent_health/`, `recovery_orchestrator.py`) | health records, healing actions, recovery queue | detect, heal, recover | repeated healing, restarts | bounded restarts |
| Bus core (`bus/`, `registry.py`, `routing_engine.py`) | agents, in-process queue | register, send, receive, start, stop | stop with messages in flight | delivery to registered agents only |
| The rest (API surface, policies, guardrails, verification, adapters, memory, quality, cryptography, monitoring, shims) | see `PROJECT.json` | | little shared protocol state, or pure I/O and numeric heuristics | |

Interactions. The HTTP routes call the workflow executor. The executor calls the
repository and the cache. The Kafka producer drives a circuit breaker and
buffers what the breaker rejects; its retry loop reads the breaker's state and
bypasses it. Votes reach elections over HTTP and over Kafka, and the timeout
checker and readers of the result write the same Redis key. Human decisions
reach the deliberation queue through the review manager while its monitors time
items out. A dataset build, the operator and the cleanup write one saga hash.
The constitutional sagas and the message path call one version storage through
its cache. The first seven rows of the table are modelled.

## 2. Modules

| module | models |
| --- | --- |
| `CircuitBreaker` | `circuit_breaker/breaker.py` and `decorator.py` |
| `DurableWorkflow` | `persistence/executor.py` on `postgres_repository.py`, with `replay.py` and the workflow routes |
| `KafkaProducer` | `cb_kafka_producer.py` and `retry_buffer.py`, composed with an instance of `CircuitBreaker` |
| `VotingRules` | when votes decide an election: the strategies and weights of `voting_service.py` |
| `Ballot` | abstract specification of one election |
| `Election` | the voting service, its Redis store, the Kafka consumer and the timeout checker; implements `Ballot` while operations do not overlap |
| `DeliberationQueue` | `deliberation_queue.py` with its persistence, and `hitl_manager.py` |
| `RunLifecycle` | abstract specification of a stored flywheel run |
| `FlywheelRun` | `run_orchestrator.py` on the Redis backend of `saga_persistence/`; implements `RunLifecycle` up to named races |
| `ConstitutionalStorage` | `constitutional/storage_infra/` |
| `MCDurableWorkflow`, `MCKafkaProducer`, `MCElection`, `MCDeliberationQueue`, `MCFlywheelRun` | the instances TLC checks: symmetry sets and small constants |
| `CircuitBreakerProofs`, `DurableWorkflowProofs`, `KafkaProofs`, `ConstitutionProofs`, `FlywheelProofs`, `QueueProofs` | the TLAPS proofs about the module of the same component |
| `ElectionProofs`, `BallotProofs` | the proofs about an election under any schedule, and about one whose operations do not overlap |

Common conventions. A step is what runs between two awaits; a call to Redis,
PostgreSQL or Kafka is one step, and a Redis pipeline is one transaction. An
asyncio lock whose holder awaits nothing is never contended, so it does not
appear. Time is reduced to the comparisons the code makes (a timeout has elapsed
or has not). Names beginning with `Max` in the constants are bounds of the check,
except `MaxSize`, `MaxRetries`, `MaxQueueSize` and `MaxAttempts`, which are
settings of the code; `Tasks`, `Saves` and `MaxActive` bound what is in progress
at once. Operators commented "Mutant of X" are plausible wrong versions of X;
they are used only to show that a property would notice.

### CircuitBreaker

`state`, `consecutiveFailures`, `halfOpenSuccesses` are the fields of the same
names; `timeoutExpired` is the comparison in `_check_timeout_expiry`, and
`strategy` the fallback strategy of the service, any of the five. `call[c]`
remembers in which state caller `c` was admitted while the guarded function runs.
`Admit`, `CallSucceeds`, `CallFails` and `CallCancelled` are the decorator's paths;
`asyncio.CancelledError` is no `Exception`, so a cancelled call is never recorded.
`RejectAndQueue`, `StartDrain`, `RetrySucceeds`, `RetryFails` and `DrainCancelled`
are `queue_for_retry` and `process_retry_queue`, which releases its lock while a
handler runs. `Reset` is the operator's reset; it leaves calls in flight.

### DurableWorkflow

One workflow instance, executed by several tasks; nothing in the code locks the
instance. `pc[w]` names the repository, cache, activity or handler call that task
`w` makes next, and each such call is one action. Between any two of them
another task may run, the process may die (`Crash`), the server may cancel the
task (`TaskCancelled`), or the call may raise (`CallRaises`); where the
exception goes follows from the `try` block the label is in (`AttemptLabels`,
`WorkflowLabels`, `CompLabels`, `UnguardedLabels`); a `register_compensation` that
raises leaves its handler in memory and no record. An activity takes effect
(`effect`) before it returns (`returned`), so the model has the window in which
work was done and nobody knows. `_record_event` is two calls, `ReadSequence` and
`RecordEvent`; the loser of a race for a sequence number takes `EventCollides`,
whose exception no clause of the executor catches.

`replayed` is the status that `ReplayEngine` would reconstruct from the events
recorded so far. The repository hands it the first 100 of them; since `replayed`
takes the value of every prefix in turn and an activity that is done stays done, what
is said of `replayed` holds for that prefix as well. `Overlap` says whether clients
start or retry a workflow while it runs; the properties that hold for every schedule are checked and proved
without restricting it. `CompLimit` is the LIMIT of `get_compensations`, 100 in
the code and scaled down to 3 in `workflow_serial`, where 4 compensations can
be recorded.

The cache (`workflow_cache`) is outside the repository's source: an entry may
vanish at any time, an invalidation may find nothing or everything, and any call
may raise. The last covers the standalone shim in `_compat/cache`, which has
none of the methods the executor calls.

### KafkaProducer

Each message stands for the `send()` that carries it. `life` and `connected` are
`_initialized` and `_producer`; `buffer`, `held` and `toRetry` are the deque, the
message `process()` popped and its local `messages_to_retry`; `drainer` is
`_processing` together with who runs it. `close()` is `Close`, up to the flush of the
client, and `Disconnect` after it; when the flush or the stop raises
(`DisconnectFails`) the producer goes on looking initialized with its retry loop
cancelled (`life = "stalled"`). The four counters of the buffer appear
as `fate`, how each message was last accounted for. The breaker is
`CB == INSTANCE CircuitBreaker`, with the sends as its callers, and the actions
of the producer use `CB!CanExecute`, `CB!RecordSuccess` and `CB!RecordFailure`;
`UsesBreaker` checks that every step of the producer is a step the breaker's own
specification allows, or the one deviation the code has (an admitted send that
finds no client and reports nothing). What the end of a pass puts back is given by
its positions (`Retriable`), which a proof can reason about, where a filter of the
community modules is recursive.

### VotingRules, Ballot and Election

`record` is the JSON document under the election's key, with the vote of each
agent, and `lease` what its TTL was set from. A `Callers` element is a `cast_vote` call
in progress; any agent may vote again, and differently, since nothing in the
validation forbids it and the store overwrites the earlier vote. `pc[t]` is the call to
Redis or Kafka that a `cast_vote` call, the consumer, the checker or a `get_result`
call is about to make; `cast[t]` is its vote, `seen[t]` the document it read and is
going to write back, `final[t]` the snapshot it resolved.
The store has no transaction: `add_vote`, `update_status` and `save_election` are
separate reads and writes, and each of them may fail unnoticed (`unnoticed`: the
store returns False and the caller goes on), or a task may end in the middle. The
consumer commits the offset after the last event it handled, whatever became of
the ones before. The key expires at the deadline, or later when the default
timeout was written.

`AsBallot` maps a store to `Ballot`: the counted votes are those of the document,
the outcome is its status and result. `overlapped` becomes TRUE when two
operations overlap or an operation outlives the key; up to then `KeepsBallot`
says that the store refines `Ballot`. `ResultIsJustified` needs no such exception.
It speaks of two histories, `said`, the decisions each agent has voted for, and
`earned`, what the votes in the store have come to. A result other than a late DENY
was earned, and the votes beside it would still give it if those who voted both ways
were counted for it. That the votes beside it give it as they are
(`ApprovedByItsVotes`) is false when a vote is changed while the election is closed.

### DeliberationQueue

`status`, `required`, `votes` and `human_decision` are the fields of the tasks;
`monitored` the running `_monitor_task`s. What suspends is waiting for the global
lock (`waiting`, in order) and the save made under it (`holder`). A save runs in
a thread: `stage` takes it from reading the tasks to truncating and writing the
file, `snapshot` is what it read; in each of these stages it may fail, which the code
logs and ignores (`SaveFails`). `update_status` and `resolve_task` set a status
whatever it was (`overruled`); a restart loads what the file holds, without
votes, monitors or the required number of votes.

A reviewer may approve, reject, or send the item on (`under_review`): then it stays
open, and the code counts it as rejected all the same (`escalated`). A caller may be
cancelled where it waits for the lock (`CancelWaiting`): the item keeps its status, but
what the call was going to count is not counted (`lost`), and an item whose enqueueing
was cut short has no monitor (`abandoned`). A caller cancelled during its save leaves
the lock while the thread goes on (`CancelUpdate`).

`tangled` is TRUE while the file cannot be relied on: a save met another one, failed,
or was never made because its caller was cancelled. A save that was alone from its
start to its end (`clean`) makes it FALSE again.

### RunLifecycle and FlywheelRun

`record` is the hash of one run, `indexes` the states under whose index it is
listed, `checkpoint` the latest checkpoint. `pc[t]` is the Redis call that task
`t` makes next, `op[t]` the operation it belongs to, `mine[t]` the run it is going
to save and `old[t]` the hash that call's repository method read. Three histories
name the races: `raced` (a repository call wrote over a hash that had changed
since it read it), `stale` (a save replaced a run other than the one it was made
from, which the optimistic check allows by one version), and `overtaken` (a build
went on with a run that had been paused or had ended). Up to them `KeepsLifecycle`
says that a run refines `RunLifecycle`.

### ConstitutionalStorage

`row` is the status of each version in PostgreSQL, `cached` and `activeId` are the
Redis entries, `lock` says whether the lock key exists. `pc[c]` is the call client
`c` makes next in `op[c]`; `target` and `current` are the variables `version_id`
and `current` of `activate_version`. Any cache read may miss. A call may fail
unnoticed because its manager returns False or None (`FailedQuery`, `FailedFill`,
`FailedSwitch`), may raise past the manager (`Raises`, the lock is released by
`finally`), or the process may end (`Dies`, the key stays until its TTL).
`LockExpires` may also happen under a holder, which is then not told. `lapse`
records the events the service does not repair: such an expiry, an activation cut
short or failed in part, and a superseded version cached as the active one.

## 3. Runs

Runs marked V are expected to violate their property: each states what a comment,
docstring or log message says and the code does not keep, and has a finding in
`PROJECT.json` that quotes it.

| run | bounds | shows |
| --- | --- | --- |
| `breaker_safety` | 3 callers, threshold 2, quota 2, 3 faults; 3 requests, queue of 2, 2 drainers, 2 retries; any strategy; fair | the streak of a CLOSED circuit is below the threshold, HALF_OPEN always admits, untried requests are kept, nothing delivered is retried, queued requests have retries left, the circuit ends CLOSED |
| `workflow_serial` | 2 tasks, 2 steps, 2 runs, 1 cancel, 1 crash, 1 fault, LIMIT 3, no overlap | handlers and records agree: no handler runs twice, and what the first run marks as undone was; newest first; none left within the LIMIT when FAILED; replay reports COMPLETED only for work that was done |
| `workflow_concurrent` | 2 overlapping runs of 2 steps, 1 cancel | effects are compensable, COMPLETED means done |
| `workflow_progress` | 2 overlapping runs of 1 step, 2 attempts, 1 cancel, 1 fault, fair | every run ends, with events that collide and calls that raise |
| `kafka_buffer` | 3 messages, buffer of 2, 2 retries, 3 faults, 2 calls of close that may fail, fair | one fate per message, retries bounded, the breaker is used as its model allows, waiting ends while the circuit is CLOSED and the retry loop alive |
| `election_store` | 2 agents, 2 callers and up to 3 votes, quorum, 2 operations at once, 1 vote event, 1 fault | a result has had the votes for it (or the deadline), and still has but for changed votes, whatever overlaps; without overlap the store refines `Ballot`; answers agree |
| `election_votes_lost` V | the same with 2 vote events | a committed vote event is missing from an open election |
| `queue_decisions` | 2 items, 1 agent, 2 saves at once, any of which may fail, 1 escalation, 1 cancelled caller | the first completion wins, the counters add up but for the escalation and the cancelled call |
| `queue_endings` | 1 item, 2 agents, 2 votes required, 2 saves at once, any of which may fail, 1 cancelled caller, 1 overruling call, 1 restart, fair | an approval has the votes for it through changed votes, the file holds every decision when all is quiet and a save ran alone since the last that did not, every item whose caller was told so ends |
| `flywheel_run` | 2 tasks at once, 4 operations, 2 stages, 1 expiry | a stored run is under the index of its state, under that one only unless calls raced, versions ascend, a checkpoint has its dataset, the run refines `RunLifecycle` up to the named races |
| `constitution` | 2 clients, 2 versions, 1 expiry under a holder, 1 fault, fair | one version is active and named by the cache, an expiry lets one task more into the lock, the lock is always freed |
| `constitution_two_active` V | 2 clients, 2 versions, no fault, no expiry | two versions are active after a read overlapped an activation |

Further formulas in the modules state what the documentation says and the code
does not keep. They have no configuration of their own; each fails when it is
checked with the constants given here.

| formula | constants | because |
| --- | --- | --- |
| `CircuitBreaker!ProbesWithinQuota` | those of `breaker_safety`, threshold 1, quota 1 | `can_execute` counts successes, not admissions (`circuit_breaker/config.py:52`: "Requests to allow in half-open state") |
| `DurableWorkflow!CompletedStepsAreSkipped` | no overlap, `MaxRows = 6`, `MaxRuns = 3`, `MaxCrashes = 2` | the lookup by idempotency key has no ORDER BY and no unique key, and may return an unfinished row of a completed step (`persistence/executor.py:435`) |
| `DurableWorkflow!TerminalIsFinal` | no overlap, 1 run, 1 cancel | the run goes on after it was cancelled and saves its own status |
| `DurableWorkflow!CompensatedWasUndone` | no overlap, 2 runs, 1 crash, LIMIT 4 | a resumed run has no handlers in memory and marks the records all the same (`persistence/executor.py:699`) |
| `DurableWorkflow!CompletedIsInForce` | no overlap, 2 runs, LIMIT 4 | a retry of a compensated workflow finds the COMPLETED rows of steps that were undone |
| `DurableWorkflow!ReplayAgrees` | no overlap, 1 run, 1 cancel | of two tasks that read one sequence number the loser's event is lost (`persistence/replay.py:26`) |
| `KafkaProducer!BufferIsBounded` | 4 messages, buffer 2, threshold 5, 4 faults, no close | `messages_to_retry` has no limit (`retry_buffer.py:61`: "bounded buffer") |
| `KafkaProducer!QueuedIsWaiting` | 2 messages, threshold 2, 2 faults, 1 close | `close()` cancels a drain and what it holds (`cb_kafka_producer.py:60`: "guaranteed delivery") |
| `KafkaProducer!WaitEnds` | 3 messages, threshold 2, quota 1, 2 faults, no close, fair | nothing but a `send()` tries an OPEN circuit again |
| `KafkaProducer!LoopRetriesWhileClosed` | 4 messages, threshold 2, 4 faults | the circuit is tested once per pass (`cb_kafka_producer.py:186`) |
| `KafkaProducer!WaitEndsAfterFailedClose` | those of `kafka_buffer` | `close()` cancels the retry task first; when the flush or stop after it raises, the producer keeps its client and goes on taking messages (`cb_kafka_producer.py:156`) |
| `Election!OverdueIsEscalated` | those of `election_store`, fair | the checker marks an election EXPIRED in one call and saves DENY in a second; when the second fails nobody looks at the election again |
| `Election!DecisionStands` | those of `election_store` | the checker writes EXPIRED over an election closed since it read it |
| `Election!ApprovedByItsVotes` | those of `election_store` | `add_vote` overwrites an agent's vote (`redis_election_store.py:193`) while another task closes the election on the earlier one |
| `DeliberationQueue!LoadedItemEnds` | those of `queue_endings` | a loaded item has no monitor |
| `DeliberationQueue!EachCountedOnce` | those of `queue_decisions` | an escalation is counted as a rejection (`deliberation_queue.py:475`), and a caller cancelled at the lock counts nothing |
| `DeliberationQueue!DecisionsArePersisted` | those of `queue_decisions` | an older snapshot is written last, or a save ends with an exception |
| `FlywheelRun!TerminalIsFinal` | those of `flywheel_run` | the optimistic check accepts one foreign update (`saga_persistence/redis/state.py:51`: "Terminal state") |
| `FlywheelRun!StoredIsTimed` | those of `flywheel_run` | an update of an expired hash creates one without a TTL (`saga_persistence/redis/repository.py:51`: "automatic TTL") |

`HoldersAreBounded` and `OneIsActive` also hold with three clients.

`get_compensations` is documented as "Get all compensations for a workflow"
(`persistence/repository.py:108`) but returns the 100 oldest; the properties about
compensations speak of the ones within that LIMIT (`Reachable`), and the serial
run makes it smaller than the number of records.

Why the bounds are enough for the cases meant: two overlapping tasks are what
every race in these components needs; two steps give an earlier step to compensate
and a later one to fail; a crash and a later run reach every recovery path;
two runs plus a cancel reach every terminal status. `workflow_progress` needs the
overlap, the cancel and the fault together, since a run may end badly where they meet,
and pays for them with one activity and no crash (a crash ends a run at once). It
identifies states by `FutureView` (`MCDurableWorkflow`), which leaves out the
histories, statuses that no condition tells apart and locals that are overwritten
before they are read: two states that agree on it have the same steps ahead. Without
it the state graph is about ten times as large. More messages than the
buffer holds make it evict, and more faults than the threshold lets late
results meet each later state of the circuit. A retry count of 2 distinguishes
the first, the last and an excess retry, and a second `close()` is what ends a
producer whose first one failed. Two agents make the quorum, the denial by
half the weight and the missing vote all occur, and with three votes one of them
changes its mind; one vote event, which may be delivered again, is enough for
`election_store` because its other votes meet it; the rules for more agents,
weights and strategies are in `VotingRules` and do not change the protocol. Four
operations let a run be built, stopped, cleaned up and written again. Two versions
are enough to confuse two; a third client adds only the third holder of an expired
lock.

`CHECK_DEADLOCK FALSE` is set in the workflow, Kafka, election, queue and flywheel
runs, where the bounds let the system come to rest: all work is done. The breaker
and the constitution runs check for deadlock.

Two branches turned out to be unreachable, as the properties that say so explain:
the "exceeded max retries" tests at the top of `process_retry_queue` and of
`RetryBuffer.process` never discard anything (`QueuedHaveRetriesLeft`,
`WithinRetryBudget`), because exhausted requests are not put back.

### Fairness

- Breaker: time passes, callers keep calling, and an admitted call that neither
  fails nor is cancelled returns. Failures and cancellations have no fairness.
- Workflows: the event loop keeps running a task whose awaits return, and
  activities and handlers return, raise or are stopped by their timeout
  (`asyncio.wait_for`). Requests, cancels, crashes and faults have none.
- Kafka: the retry loop wakes up every 30 seconds, retries and the client's flush
  and stop return or raise. Nobody need call `send()` or `flush_buffer()`, which is why
  `WaitEnds` fails.
- Elections: a task's next call to Redis or Kafka is made, the consumer and the
  checker, which are loops, go on, and deadlines and keys expire. Nobody need vote.
- Queue: saves in their threads finish or fail, the lock is passed on, and a monitor
  wakes up and gets the lock in its turn: strongly, because others take and free
  the lock meanwhile. Nobody need vote or decide.
- Constitution: a call that was started ends, and Redis removes an expired key.
  Nobody need call the service.

## 4. Proofs

All theorems hold for every value of the constants that satisfies the module's
`ASSUME`, any number of tasks, steps, messages, items, clients and faults
included. Three theorems about compensations also assume `Overlap = FALSE`; no other
has a hypothesis. Every INVARIANT of the runs, and every PROPERTY that is not a
liveness property, is the conclusion of one of them.

`CircuitBreakerProofs`: `CircuitInv` is `TypeOK` with `ClosedBelowThreshold` and
`ProbingAlwaysAdmits`, which is inductive together: a late result may arrive in any
state, so each of the two bounds must be re-established by `_transition_to` from
the type alone (lemma `TransitionToInv`). From `Spec => []CircuitInv` follow
`BreakerTypeCorrect`, `BreakerTrips` and `ProbingNeverStuck`. The retry queue needs
an invariant of its own (`QueueInv`): a drainer works outside the lock, so what it
holds has to be told from what is queued. `Placed` says that a request is in one
place (once in the queue, or with one drainer, or in none), that what a drainer
holds was tried and not delivered, that what nobody tried is queued, and that what
is queued has a retry left. It rests on lemmas about the elements of the bounded
append and of the tail, and gives `UntriedStay`, `RetriesAreLeft` and `DeliversOnce`.

`DurableWorkflowProofs`: neither `EffectIsCompensable` nor `CompletedMeansDone` is
inductive. The first needs to know that a task about to run an activity holds a
row of its own step and that its compensation is already in the table (`TaskRow`);
the second needs to know on what grounds a task passed each step
(`TaskProgress`): results of its own, a cached result, or a COMPLETED row, and
that cache entries and COMPLETED rows come from activities that returned
(`RowHistory`, `cache` implies `Done`). `WorkflowInv` is the conjunction of these
with `TypeOK`. The proof has one lemma per group of actions, and rests on two
general ones: the facts about a task survive any step that only adds rows,
compensations and results (`GrowsKeepsTask`), so a step has to be examined only
for the task that takes it (`TaskStep`, `QuietStep`). The theorems are
`WorkflowTypeCorrect`, `EffectsAreCompensable` and `CompletionIsEarned`.
`ReplayedCompletionIsEarned` adds to it that a task about to record the completion
has every step done (`Replaying`), because the event is written after the status
and by then another run may have changed everything else. All four hold with
overlapping runs, crashes, raising calls and a cache that forgets.

Compensation is the subject of a second invariant, `SerialInv`, for runs that do not
overlap. `LoopOK` follows `_run_compensations`: its list holds every record within
the LIMIT that is still PENDING, except the one in hand, which is younger than all of
them and may be PENDING until its status is saved; when the list is empty none is
left. `FirstRunOK` says that in the only run so far every recorded compensation has
its handler in memory, `Handled` that a handler was started only for a record no
longer PENDING, `FailedOK` that nothing goes on under a status FAILED. The cancel
route runs beside a run and is the reason why a status is known so seldom; it touches
no compensation (`Settled`), and every other step that does is the step of the one
task that executes (`SoleStep`). The theorems are `HandlersRunOnce`,
`FailedIsFinished` and `CompensationsAreLifo`.

`KafkaProofs`: `KInv` is the type of the rest with `Waits`, where a message can be.
`Shape` says that the buffer, the message `process()` has popped and its local list
are distinct and disjoint; `Marked`, that what is in them is accounted for as queued
and is in no `send()`, and that only what has just failed a retry may have had
`max_retries` of them. `OneFate` alone is not inductive, since a pass that ends puts
its list behind a buffer that has been filled meanwhile, and evicts what does not
fit: lemmas about distinct sequences say what is then where. The theorems are
`TypeCorrect`, `OnePlaceOneFate` and `RetriesAreBounded`. `DrivesBreaker` is the
refinement: each action of the producer is an action of `CircuitBreaker` on the
breaker's variables, or leaves them alone, or is an admission nothing is reported for.

`ElectionProofs`: `EInv` is `TypeOK` with `AllSound`, that every document (the one
in the store, the one each task has read, and the one it is going to save) is
justified, `AllSpoken`, that every vote on its way was cast, and `Placed`, what a task
must hold before the call it is about to make. The documents in the tasks' hands are
the strengthening: a write back puts one of them over whatever is in the store, so the
store alone is not inductive. `Sound` says of a document that each vote in it was cast
by its agent (`said`), that what its votes come to was reached in the store (`earned`),
and that its result was reached there and is still what the votes give once those who
wavered count for it. The last is what survives a vote written beside a result: the
vote was new, then the approvals only grow, or its agent has now voted both ways, then
it counts for the result whatever the document holds; and the rules are monotone in the
set of approvers (lemmas `WeightGrows`, `DecisionsGrow`; that a larger set of agents
does not weigh less is the assumption on `Weight`). A DENY by time needs that the
deadline does not come undone. Every step of a task is an instance of `TaskStep`: only that task's
documents and the store have to be examined. The theorems are `TypeCorrect` and
`ResultsAreJustified`, for every strategy, weighting and required weight, where the
run has two agents of weight 1 and a quorum.

`BallotProofs`: `Alone` says what holds until operations overlap. One task at most is
at work; what it has read is what the store holds (`Knows`); what it is going to
write is the stored document closed as its votes say, or denied after the deadline
(`Brings`); and the store itself is `Consistent`: an open election has no result and a
key that lives as long as it does, and one closed without a result, which a failure
between two calls leaves behind, is still decided by its votes. `EInv /\ Alone` is
inductive, and every step under it is a step of `Ballot` under the mapping of
`AsBallot` or leaves the ballot alone (`NextBallot`, from `BallotSees`, which says
what of a step the ballot sees). The theorems are `ImplementsBallot` and
`AnswersStand`.

`QueueProofs`: `QInv` is the type with three parts. `Kept`, for `PersistedWhenQuiet`,
follows the saves that met no other one from their start: such a save is the only one
in progress, it writes to a file it has truncated, and with no call waiting for the
lock what it has read holds every decision. When it ends, the file does, and with that
the failures before it are made good; one that fails itself proves nothing. `Counted`,
for `StatsAddUp`: the items that ended in a way, with the escalations for the rejected
ones, are as many as are counted, wait in the lock's queue to be, or were lost with
their caller, a statement about cardinalities (items need not be finitely many, those
that ended are).
`DecisionIsEarned` is inductive with the types. The theorems are `TypeCorrect`,
`DecisionsStand` (of every step, by the type alone), `DecisionsAreEarned`,
`EachIsCounted` and `DecisionsAreSaved`.

`FlywheelProofs`: `FInv` adds to `TypeOK`, `FoundByState` and `IndexAgrees`
(`Listed`) what a call holds before it writes back (`Placed`), how the run it is going
to save differs from the one it was made from (`Derived`), and what it knows of the
stored run as long as no call wrote over what it had not read (`Undisturbed`, with
`Knows`). A change of the store that goes forward only leaves that knowledge intact
(`Tame`, lemma `KnowsKept`), so again a step is examined for its own task. The
theorems are `TypeCorrect`, `RunsAreFound`, `IndexesAgree`, `CheckpointIsBuilt`,
`VersionsGoUp` (each write's version is above the stored one) and
`ImplementsLifecycle`, the refinement of `RunLifecycle` up to the named races.

`ConstitutionProofs`: `OneIsActive` speaks of the moments at which nobody is
inside the lock, and is not inductive. `IInv` adds where each client can be
(`Located`), that without a lapse the lock excludes (`Exclusive`), that rows and
cached id agree while nobody is between the two writes of an activation
(`Consistent`), and what an activation knows in its middle (`Underway`): the
version it is about to deactivate is the active one, none is active between its
writes, and then its target is. The crucial step is a reader's `IdFill`, which may
write any version it once read; only when it is no longer active does that count
as a lapse. `HoldersBounded` needs only `Located` and counts who enters and leaves
(lemma `InsideChanges`); it holds with any number of expiries.

The strengthened invariants were checked by TLC on the instances of section 3 before
they were proved. Only model-checked: liveness (`Recovery`, `RunTerminates`,
`WaitEndsWhileClosed`, `ItemEnds`, `LockIsFreed`), which needs fairness and ENABLED
and is out of the prover's reach.

## 5. What is not modelled

- Durable workflows: `create_checkpoint` (no run reads a snapshot back), the
  in-memory repository, tenant scoping, metrics and spans. A retry request for a
  CANCELLED workflow returns it unchanged, as the code does, although the route's
  docstring speaks of "failed or cancelled".
- Workflow events: the LIMIT of 100 of `get_events` (section 2 says why that does
  not matter to `ReplayIsEarned`), and `verify_determinism`.
- Kafka producer: overlapping calls of `initialize`, payloads, keys and delays.
- Circuit breaker: metrics counters and the registry that creates breakers on demand.
- Elections: the process-local elections that replace Redis when it was out of
  reach at creation, `delete_election` and `scan_elections`, audit records, and
  `vote_collector.py`, a second collector with tallies of its own.
- Deliberation queue: averages, messages and metadata; `multi_approver.py`, which
  is a workflow beside it.
- Flywheel runs: `cleanup_old_sagas` with `terminal_only=False`, and
  `advance_flywheel_run_stage` without a step index, which skips
  `update_current_step` and only saves; outside the tests nothing calls either. The
  saga lock and step states, which nothing in `src/` uses for
  runs, the compensation log, and the PostgreSQL backend of the same repository.
- Constitution: amendments and history queries, and the mode without Redis, in
  which `acquire_lock` grants every request. The activation and rollback sagas
  appear as the callers of `activate_version`, with any version as its target;
  their own steps are a fixed sequence over OPA, the audit log and the storage.
- The other components are listed in `PROJECT.json` with the reason.

## 6. Plan

1. Proofs: every safety property of the runs has a theorem. What can still be
   proved is more about the same modules: that a breaker's queue never exceeds its
   size under any drain, `HoldersAreBounded` without counting, and which of the
   formulas of section 3 that the code does not keep hold under a stated extra
   condition (`DecisionStands` of an election without overlap, `DecisionsArePersisted`
   after the last save).
2. `CheckpointExecutor` (`durable_execution.py`): resume and cancel.
3. `Maci`: registration, outputs and validation; self-validation is excluded as
   a theorem.
4. The saga lock of `saga_persistence` with its TTL, and the LLM failover with
   hedged requests.
