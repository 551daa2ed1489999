-------------------------- MODULE DurableWorkflow --------------------------
(***************************************************************************)
(* DurableWorkflowExecutor (persistence/executor.py) on the PostgreSQL     *)
(* repository (persistence/postgres_repository.py), driven by the workflow *)
(* routes (api/routes/workflows.py).                                       *)
(*                                                                         *)
(* One workflow instance, with NumSteps activities that run one after the  *)
(* other, is executed, resumed and cancelled by concurrent tasks (request  *)
(* handlers of one or several server processes).  Nothing locks the        *)
(* instance.  Every repository or cache call is one atomic step, every     *)
(* await between two calls a point where another task runs, the process    *)
(* dies, or the call raises.  pc[w] names the call task w makes next.      *)
(*                                                                         *)
(* Payloads, outputs, timestamps and metrics are left out.  An activity is *)
(* represented by whether it took effect and whether it returned.          *)
(***************************************************************************)
EXTENDS Naturals, FiniteSets

CONSTANTS
    Tasks,          \* request handlers that run the executor
    NumSteps,       \* activities of the workflow
    Compensable,    \* the steps registered with a compensation
    MaxAttempts,    \* executor.max_retries + 1
    CompLimit,      \* LIMIT of get_compensations (100 in the code)
    Overlap,        \* whether a workflow is started or retried while it runs
    MaxRows,        \* bound: step rows and compensation rows
    MaxRuns,        \* bound: calls of execute_workflow
    MaxCancels,     \* bound: calls of cancel_workflow
    MaxCrashes,     \* bound: processes that die, tasks the server cancels
    MaxFaults       \* bound: repository and cache calls that raise

Steps   == 1..NumSteps
RowIds  == 1..MaxRows

ASSUME WorkflowAssumption ==
    /\ NumSteps \in Nat \ {0}
    /\ Compensable \subseteq Steps
    /\ MaxAttempts \in Nat \ {0}
    /\ Overlap \in BOOLEAN
    /\ CompLimit \in Nat /\ MaxRows \in Nat
    /\ MaxRuns \in Nat /\ MaxCancels \in Nat /\ MaxCrashes \in Nat /\ MaxFaults \in Nat

VARIABLES
    \* the database
    status,         \* workflow_instances.status, "NONE" before the insert
    nRows,          \* rows of workflow_steps, numbered as they are created
    rowStep,        \* the step (idempotency_key) of each row
    rowStatus,      \* workflow_steps.status
    nComps,         \* rows of workflow_compensations, in created_at order
    compRow,        \* workflow_compensations.step_id
    compStatus,     \* workflow_compensations.status
    replayed,       \* status ReplayEngine reconstructs from workflow_events
    \* the Redis cache
    cache,          \* steps whose result workflow_cache holds
    \* the tasks
    pc,             \* the call the task makes next
    seq,            \* sequence number got for an event: none, fresh or stale
    ctx,            \* WorkflowContext and local variables of the task's run
    \* the outside world
    effect,         \* rows whose activity took effect
    returned,       \* rows whose activity returned a result
    handlerRuns,    \* how often each compensation's handler was started
    \* bounds
    runs, cancels, crashes, faults

dbVars     == <<status, nRows, rowStep, rowStatus, nComps, compRow, compStatus,
                replayed>>
rowVars    == <<nRows, rowStep, rowStatus>>
compVars   == <<nComps, compRow, compStatus>>
worldVars  == <<effect, returned, handlerRuns>>
boundVars  == <<runs, cancels, crashes, faults>>
vars == <<dbVars, cache, pc, seq, ctx, worldVars, boundVars>>

WorkflowStatus == {"NONE", "PENDING", "RUNNING", "COMPLETED", "FAILED",
                   "CANCELLED", "COMPENSATING", "COMPENSATED"}
StepStatus == {"absent", "PENDING", "EXECUTING", "COMPLETED", "FAILED"}
CompStatus == {"absent", "PENDING", "COMPENSATING", "COMPENSATED",
               "COMPENSATION_FAILED"}

\* Where _record_event is the next call.
EventLabels == {"startedEvent", "stepStartedEvent", "stepCompletedEvent",
                "stepFailedEvent", "completedEvent", "failedEvent",
                "compStartedEvent", "compDoneEvent", "compFailedEvent",
                "cancelledEvent"}

\* Calls inside the try of _run_activity_with_retry's attempt loop.
AttemptLabels == {"checkCancelled", "markExecuting", "stepStartedEvent",
                  "activity", "recheckCancelled", "complete", "cacheResult",
                  "stepCompletedEvent"}

\* Other calls inside the try of execute_workflow.
WorkflowLabels == {"lookupCache", "lookupRow", "refillCache", "insertRow",
                   "register", "failStep", "stepFailedEvent", "succeed",
                   "completedEvent"}

\* Calls inside the try of _run_compensations' loop.
CompLabels == {"compStartedEvent", "markCompensating", "callHandler",
               "handlerRunning", "markCompensated", "compDoneEvent"}

\* Calls no handler of the executor surrounds.
UnguardedLabels == {"insert", "startedEvent", "begin", "saveCancelled",
                    "failedEvent", "saveCompensating", "invalidateCache",
                    "fetchCompensations", "nextCompensation",
                    "markCompFailed", "compFailedEvent", "saveCompensated",
                    "saveFailed", "cancelSave", "cancelledEvent"}

Labels == {"idle"} \cup AttemptLabels \cup WorkflowLabels \cup CompLabels
                   \cup UnguardedLabels

Context == [step     : Nat,             \* the activity execute_activity is at
            row      : Nat,             \* its WorkflowStep
            attempt  : Nat,             \* attempt of _run_activity_with_retry
            err      : {"none", "error", "cancelled"},      \* last_error
            handlers : SUBSET Steps,    \* context._compensation_handlers
            todo     : SUBSET RowIds,   \* PENDING when fetched, not yet handled
            comp     : Nat]             \* the compensation being handled

NoContext == [step |-> 0, row |-> 0, attempt |-> 0, err |-> "none",
              handlers |-> {}, todo |-> {}, comp |-> 0]

TypeOK ==
    /\ status \in WorkflowStatus
    /\ nRows \in 0..MaxRows /\ nComps \in 0..MaxRows
    /\ rowStep \in [RowIds -> Nat]
    /\ rowStatus \in [RowIds -> StepStatus]
    /\ compRow \in [RowIds -> Nat]
    /\ compStatus \in [RowIds -> CompStatus]
    /\ replayed \in WorkflowStatus
    /\ cache \subseteq Steps
    /\ pc \in [Tasks -> Labels]
    /\ seq \in [Tasks -> {"none", "fresh", "stale"}]
    /\ ctx \in [Tasks -> Context]
    /\ effect \subseteq RowIds /\ returned \subseteq RowIds
    /\ handlerRuns \in [RowIds -> Nat]
    /\ runs \in Nat /\ cancels \in Nat /\ crashes \in Nat /\ faults \in Nat

Init ==
    /\ status = "NONE"
    /\ nRows = 0 /\ nComps = 0
    /\ rowStep = [i \in RowIds |-> 0]
    /\ rowStatus = [i \in RowIds |-> "absent"]
    /\ compRow = [i \in RowIds |-> 0]
    /\ compStatus = [i \in RowIds |-> "absent"]
    /\ replayed = "NONE"
    /\ cache = {}
    /\ pc = [w \in Tasks |-> "idle"]
    /\ seq = [w \in Tasks |-> "none"]
    /\ ctx = [w \in Tasks |-> NoContext]
    /\ effect = {} /\ returned = {}
    /\ handlerRuns = [i \in RowIds |-> 0]
    /\ runs = 0 /\ cancels = 0 /\ crashes = 0 /\ faults = 0

\* Task w makes the call at label next, with local state c.
Go(w, label, c) ==
    /\ pc' = [pc EXCEPT ![w] = label]
    /\ ctx' = [ctx EXCEPT ![w] = c]

Goto(w, label) == Go(w, label, ctx[w])
Leave(w) == Go(w, "idle", NoContext)

\* A task that runs execute_workflow or is about to.
Executing(w) == pc[w] \notin {"idle", "cancelSave", "cancelledEvent"}

\* A client calls the create or the retry route.
Request(w) ==
    /\ pc[w] = "idle"
    /\ runs < MaxRuns
    /\ runs' = runs + 1
    /\ Overlap \/ \A v \in Tasks : ~Executing(v)

-----------------------------------------------------------------------------
(* Starting, resuming and cancelling.                                      *)

\* start_workflow reads the instance: an active one is returned (and the
\* route executes it again), otherwise a new one is inserted next.
StartWorkflow(w) ==
    /\ Request(w)
    /\ \/ status \notin {"PENDING", "RUNNING"} /\ Goto(w, "insert")
       \/ status \in {"PENDING", "RUNNING"} /\ Goto(w, "begin")
    /\ UNCHANGED <<dbVars, cache, seq, worldVars, cancels, crashes, faults>>

\* save_workflow of the new instance; UNIQUE(workflow_id, tenant_id) rejects
\* a workflow_id that has an instance, and the task ends with the error.
InsertWorkflow(w) ==
    /\ pc[w] = "insert"
    /\ \/ status = "NONE" /\ status' = "PENDING" /\ Goto(w, "startedEvent")
       \/ status # "NONE" /\ UNCHANGED status /\ Leave(w)
    /\ UNCHANGED <<rowVars, compVars, replayed, cache, seq, worldVars, boundVars>>

\* resume_workflow: a COMPLETED or CANCELLED workflow is returned as it is;
\* every other status, FAILED included, is executed again.
ResumeWorkflow(w) ==
    /\ Request(w)
    /\ status \notin {"NONE", "COMPLETED", "CANCELLED"}
    /\ Goto(w, "begin")
    /\ UNCHANGED <<dbVars, cache, seq, worldVars, cancels, crashes, faults>>

\* cancel_workflow reads the instance and stops unless it is active.
CancelWorkflow(w) ==
    /\ pc[w] = "idle"
    /\ cancels < MaxCancels
    /\ status \in {"PENDING", "RUNNING"}
    /\ cancels' = cancels + 1
    /\ Goto(w, "cancelSave")
    /\ UNCHANGED <<dbVars, cache, seq, worldVars, runs, crashes, faults>>

\* save_workflow: the status is overwritten, whatever it is by now.
SaveStatus(w, here, s) ==
    /\ pc[w] = here
    /\ status' = s
    /\ UNCHANGED <<rowVars, compVars, replayed, cache, seq, worldVars, boundVars>>

CancelSave(w) ==
    SaveStatus(w, "cancelSave", "CANCELLED") /\ Goto(w, "cancelledEvent")

\* execute_workflow saves RUNNING and runs the workflow in a new context.
Begin(w) ==
    /\ SaveStatus(w, "begin", "RUNNING")
    /\ Go(w, "lookupCache", [NoContext EXCEPT !.step = 1])

-----------------------------------------------------------------------------
(* One activity.                                                           *)

\* execute_activity returns: the next activity, or the end of the workflow.
NextStep(w) ==
    Go(w, IF ctx[w].step = NumSteps THEN "succeed" ELSE "lookupCache",
       [NoContext EXCEPT !.step = ctx[w].step + 1, !.handlers = ctx[w].handlers])

\* _get_cached_step_result: a cached result skips the activity.
LookupCache(w) ==
    /\ pc[w] = "lookupCache"
    /\ \/ ctx[w].step \in cache /\ NextStep(w)
       \/ ctx[w].step \notin cache /\ Goto(w, "lookupRow")
    /\ UNCHANGED <<dbVars, cache, seq, worldVars, boundVars>>

\* Mutant of Skips: any row of the step counts as done, whatever its status.
SkipsAnyRow(i) == rowStatus[i] # "absent"

\* The activity of the row's step is skipped.
Skips(i) == rowStatus[i] = "COMPLETED"

\* get_step_by_idempotency_key has no ORDER BY: any row of the step is read.
LookupRow(w) ==
    /\ pc[w] = "lookupRow"
    /\ LET same == {i \in 1..nRows : rowStep[i] = ctx[w].step} IN
         \/ (\E i \in same : Skips(i)) /\ Goto(w, "refillCache")
         \/ (same = {} \/ \E i \in same : ~Skips(i)) /\ Goto(w, "insertRow")
    /\ UNCHANGED <<dbVars, cache, seq, worldVars, boundVars>>

\* The result of the row is put back into the cache and returned.
RefillCache(w) ==
    /\ pc[w] = "refillCache"
    /\ cache' = cache \cup {ctx[w].step}
    /\ NextStep(w)
    /\ UNCHANGED <<dbVars, seq, worldVars, boundVars>>

\* execute_activity saves a new WorkflowStep.
InsertRow(w) ==
    /\ pc[w] = "insertRow"
    /\ nRows < MaxRows
    /\ nRows' = nRows + 1
    /\ rowStep' = [rowStep EXCEPT ![nRows + 1] = ctx[w].step]
    /\ rowStatus' = [rowStatus EXCEPT ![nRows + 1] = "PENDING"]
    /\ Go(w, IF ctx[w].step \in Compensable THEN "register" ELSE "checkCancelled",
          [ctx[w] EXCEPT !.row = nRows + 1, !.attempt = 1])
    /\ UNCHANGED <<status, compVars, replayed, cache, seq, worldVars, boundVars>>

\* Mutant of RegisterCompensation: the handler is kept in the context only.
RegisterInMemory(w) ==
    /\ pc[w] = "register"
    /\ Go(w, "checkCancelled", [ctx[w] EXCEPT !.handlers = @ \cup {ctx[w].step}])
    /\ UNCHANGED <<dbVars, cache, seq, worldVars, boundVars>>

\* Mutant of RegisterCompensation: the record is kept in the database only.
RegisterInTable(w) ==
    /\ pc[w] = "register"
    /\ nComps < MaxRows
    /\ nComps' = nComps + 1
    /\ compRow' = [compRow EXCEPT ![nComps + 1] = ctx[w].row]
    /\ compStatus' = [compStatus EXCEPT ![nComps + 1] = "PENDING"]
    /\ Goto(w, "checkCancelled")
    /\ UNCHANGED <<status, rowVars, replayed, cache, seq, worldVars, boundVars>>

\* register_compensation: the handler in memory, the record in the database.
RegisterCompensation(w) ==
    /\ pc[w] = "register"
    /\ nComps < MaxRows
    /\ nComps' = nComps + 1
    /\ compRow' = [compRow EXCEPT ![nComps + 1] = ctx[w].row]
    /\ compStatus' = [compStatus EXCEPT ![nComps + 1] = "PENDING"]
    /\ Go(w, "checkCancelled", [ctx[w] EXCEPT !.handlers = @ \cup {ctx[w].step}])
    /\ UNCHANGED <<status, rowVars, replayed, cache, seq, worldVars, boundVars>>

\* A workflow found CANCELLED before or after the activity ends the attempts.
StopIfCancelled(w, here, next) ==
    /\ pc[w] = here
    /\ \/ status = "CANCELLED" /\ Go(w, "failStep", [ctx[w] EXCEPT !.err = "cancelled"])
       \/ status # "CANCELLED" /\ Goto(w, next)
    /\ UNCHANGED <<dbVars, cache, seq, worldVars, boundVars>>

CheckCancelled(w)   == StopIfCancelled(w, "checkCancelled", "markExecuting")
RecheckCancelled(w) == StopIfCancelled(w, "recheckCancelled", "complete")

\* save_step: the status of the task's row.
SaveRow(w, here, s, next) ==
    /\ pc[w] = here
    /\ rowStatus' = [rowStatus EXCEPT ![ctx[w].row] = s]
    /\ Goto(w, next)
    /\ UNCHANGED <<status, nRows, rowStep, compVars, replayed, cache, seq,
                   worldVars, boundVars>>

MarkExecuting(w) == SaveRow(w, "markExecuting", "EXECUTING", "stepStartedEvent")
CompleteStep(w)  == SaveRow(w, "complete", "COMPLETED", "cacheResult")
FailStep(w)      == SaveRow(w, "failStep", "FAILED", "stepFailedEvent")

\* The awaited activity takes effect outside the system.
ActivityTakesEffect(w) ==
    /\ pc[w] = "activity"
    /\ ctx[w].row \notin effect
    /\ effect' = effect \cup {ctx[w].row}
    /\ UNCHANGED <<dbVars, cache, pc, seq, ctx, returned, handlerRuns, boundVars>>

ActivityReturns(w) ==
    /\ pc[w] = "activity"
    /\ ctx[w].row \in effect
    /\ returned' = returned \cup {ctx[w].row}
    /\ Goto(w, "recheckCancelled")
    /\ UNCHANGED <<dbVars, cache, seq, effect, handlerRuns, boundVars>>

\* Mutant of RetryOrFail: the attempt is never counted.
RetryForEver(w) == Go(w, "checkCancelled", [ctx[w] EXCEPT !.err = "error"])

\* An error inside the attempt loop: another attempt, or the step fails.
RetryOrFail(w) ==
    \/ /\ ctx[w].attempt < MaxAttempts
       /\ Go(w, "checkCancelled", [ctx[w] EXCEPT !.err = "error", !.attempt = @ + 1])
    \/ /\ ctx[w].attempt >= MaxAttempts
       /\ Go(w, "failStep", [ctx[w] EXCEPT !.err = "error"])

\* The activity raises or times out, before or after it took effect.
ActivityFails(w) ==
    /\ pc[w] = "activity"
    /\ RetryOrFail(w)
    /\ UNCHANGED <<dbVars, cache, seq, worldVars, boundVars>>

\* _complete_step caches the result once the row is COMPLETED.
CacheResult(w) ==
    /\ pc[w] = "cacheResult"
    /\ cache' = cache \cup {ctx[w].step}
    /\ Goto(w, "stepCompletedEvent")
    /\ UNCHANGED <<dbVars, seq, worldVars, boundVars>>

-----------------------------------------------------------------------------
(* The end of a run: _finalize_workflow_success, _cancelled and _failed.   *)

Succeed(w) ==
    SaveStatus(w, "succeed", "COMPLETED") /\ Goto(w, "completedEvent")

SaveCancelled(w) == SaveStatus(w, "saveCancelled", "CANCELLED") /\ Leave(w)

\* Mutant of SaveFailed: a StepStatus is saved as the workflow's status.
SaveStepStatus(w) ==
    SaveStatus(w, "saveFailed", "COMPENSATION_FAILED") /\ Leave(w)

SaveFailed(w) == SaveStatus(w, "saveFailed", "FAILED") /\ Leave(w)

-----------------------------------------------------------------------------
(* _run_compensations.                                                     *)

SaveCompensating(w) ==
    SaveStatus(w, "saveCompensating", "COMPENSATING") /\ Goto(w, "invalidateCache")

SaveCompensated(w) ==
    SaveStatus(w, "saveCompensated", "COMPENSATED") /\ Goto(w, "saveFailed")

\* invalidate_workflow_state: whether the external cache drops the results of
\* the steps as well as the state of the workflow is not known here.
InvalidateCache(w) ==
    /\ pc[w] = "invalidateCache"
    /\ cache' \in {{}, cache}
    /\ Goto(w, "fetchCompensations")
    /\ UNCHANGED <<dbVars, seq, worldVars, boundVars>>

\* get_compensations returns the first CompLimit records by created_at; the
\* loop skips the ones that were not PENDING then.
FetchCompensations(w) ==
    /\ pc[w] = "fetchCompensations"
    /\ LET pending == {i \in 1..nComps : i <= CompLimit /\ compStatus[i] = "PENDING"}
       IN  Go(w, "nextCompensation", [ctx[w] EXCEPT !.todo = pending])
    /\ UNCHANGED <<dbVars, cache, seq, worldVars, boundVars>>

\* Mutant of IsNext: compensations.reverse() is missing.
IsOldest(i, S) == \A j \in S : i <= j

\* Compensations are handled in the reverse of their created_at order.
IsNext(i, S) == \A j \in S : j <= i

NextCompensation(w) ==
    /\ pc[w] = "nextCompensation"
    /\ \/ ctx[w].todo = {} /\ Goto(w, "saveCompensated")
       \/ \E i \in ctx[w].todo :
            /\ IsNext(i, ctx[w].todo)
            /\ Go(w, "compStartedEvent", [ctx[w] EXCEPT !.comp = i, !.todo = @ \ {i}])
    /\ UNCHANGED <<dbVars, cache, seq, worldVars, boundVars>>

\* save_compensation: the status of the compensation being handled.
SaveComp(w, here, s, next) ==
    /\ pc[w] = here
    /\ compStatus' = [compStatus EXCEPT ![ctx[w].comp] = s]
    /\ Goto(w, next)
    /\ UNCHANGED <<status, rowVars, nComps, compRow, replayed, cache, seq,
                   worldVars, boundVars>>

\* Mutant of MarkCompensating: the record stays PENDING while its handler runs.
MarkNothing(w) == SaveComp(w, "markCompensating", "PENDING", "callHandler")

MarkCompensating(w) == SaveComp(w, "markCompensating", "COMPENSATING", "callHandler")
MarkCompensated(w)  == SaveComp(w, "markCompensated", "COMPENSATED", "compDoneEvent")

\* Mutant of MarkCompFailed: the loop ends at the first handler that fails.
StopAtFailure(w) == SaveComp(w, "markCompFailed", "COMPENSATION_FAILED",
                             "saveCompensated")

MarkCompFailed(w) == SaveComp(w, "markCompFailed", "COMPENSATION_FAILED",
                              "compFailedEvent")

\* The handler is looked up in the memory of this run: a compensation an
\* earlier run registered has none unless this run registered its step again.
CallHandler(w) ==
    /\ pc[w] = "callHandler"
    /\ LET c == ctx[w].comp
           known == rowStep[compRow[c]] \in ctx[w].handlers
       IN  /\ Goto(w, IF known THEN "handlerRunning" ELSE "markCompensated")
           /\ handlerRuns' = IF known THEN [handlerRuns EXCEPT ![c] = @ + 1]
                                      ELSE handlerRuns
    /\ UNCHANGED <<dbVars, cache, seq, effect, returned, boundVars>>

HandlerEnds(w) ==
    /\ pc[w] = "handlerRunning"
    /\ \E next \in {"markCompensated", "markCompFailed"} : Goto(w, next)
    /\ UNCHANGED <<dbVars, cache, seq, worldVars, boundVars>>

-----------------------------------------------------------------------------
(* Events: get_next_sequence, then save_event, two statements.             *)

ReadSequence(w) ==
    /\ pc[w] \in EventLabels
    /\ seq[w] = "none"
    /\ seq' = [seq EXCEPT ![w] = "fresh"]
    /\ UNCHANGED <<dbVars, cache, pc, ctx, worldVars, boundVars>>

\* Mutant of Replay: the completion of a step completes the instance.
ReplayAnyCompletion(label) ==
    IF label = "startedEvent" THEN "RUNNING"
    ELSE CASE label \in {"completedEvent", "stepCompletedEvent"} -> "COMPLETED"
           [] label = "failedEvent"    -> "FAILED"
           [] label = "cancelledEvent" -> "CANCELLED"
           [] OTHER                    -> replayed

\* The status replay_workflow gives the instance after one more event; it
\* makes no instance from a history without WORKFLOW_STARTED.
Replay(label) ==
    IF label = "startedEvent" THEN "RUNNING"
    ELSE IF replayed = "NONE" THEN "NONE"
    ELSE CASE label = "completedEvent" -> "COMPLETED"
           [] label = "failedEvent"    -> "FAILED"
           [] label = "cancelledEvent" -> "CANCELLED"
           [] OTHER                    -> replayed

\* What the task does once its event is recorded.  The route may leave a new
\* workflow PENDING (execute_immediately).
AfterEvent(w) ==
    \/ pc[w] = "startedEvent" /\ (Goto(w, "begin") \/ Leave(w))
    \/ pc[w] = "stepStartedEvent" /\ Goto(w, "activity")
    \/ pc[w] = "stepCompletedEvent" /\ NextStep(w)
    \/ /\ pc[w] = "stepFailedEvent"
       /\ Goto(w, IF ctx[w].err = "cancelled" THEN "saveCancelled" ELSE "failedEvent")
    \/ pc[w] = "failedEvent" /\ Goto(w, "saveCompensating")
    \/ pc[w] = "compStartedEvent" /\ Goto(w, "markCompensating")
    \/ pc[w] \in {"compDoneEvent", "compFailedEvent"} /\ Goto(w, "nextCompensation")
    \/ pc[w] \in {"completedEvent", "cancelledEvent"} /\ Leave(w)

\* save_event with the number read; every other number read is now taken.
RecordEvent(w) ==
    /\ pc[w] \in EventLabels
    /\ seq[w] = "fresh"
    /\ seq' = [v \in Tasks |-> IF v = w THEN "none"
                               ELSE IF seq[v] = "fresh" THEN "stale" ELSE seq[v]]
    /\ replayed' = Replay(pc[w])
    /\ AfterEvent(w)
    /\ UNCHANGED <<status, rowVars, compVars, cache, worldVars, boundVars>>

\* UNIQUE(workflow_instance_id, sequence_number) rejects a taken number with
\* an asyncpg error that no except clause of the executor names.
EventCollides(w) ==
    /\ pc[w] \in EventLabels
    /\ seq[w] = "stale"
    /\ seq' = [seq EXCEPT ![w] = "none"]
    /\ Leave(w)
    /\ UNCHANGED <<dbVars, cache, worldVars, boundVars>>

-----------------------------------------------------------------------------
(* Failures of the infrastructure.                                         *)

\* A repository or cache call raises one of the errors the executor names.  The
\* handler that register_compensation keeps in memory is there by then.
CallRaises(w) ==
    /\ pc[w] \notin {"idle", "activity", "handlerRunning", "nextCompensation",
                     "callHandler"}
    /\ faults < MaxFaults
    /\ faults' = faults + 1
    /\ seq' = [seq EXCEPT ![w] = "none"]
    /\ \/ pc[w] \in AttemptLabels /\ RetryOrFail(w)
       \/ pc[w] \in WorkflowLabels \ {"register"} /\ Goto(w, "failedEvent")
       \/ /\ pc[w] = "register"
          /\ Go(w, "failedEvent", [ctx[w] EXCEPT !.handlers = @ \cup {ctx[w].step}])
       \/ pc[w] \in CompLabels /\ Goto(w, "markCompFailed")
       \/ pc[w] \in UnguardedLabels /\ Leave(w)
    /\ UNCHANGED <<dbVars, cache, worldVars, runs, cancels, crashes>>

\* The server cancels the task inside execute_workflow's try: the attempt loop
\* fails the step first, everything else goes straight to the except clause.
TaskCancelled(w) ==
    /\ crashes < MaxCrashes
    /\ crashes' = crashes + 1
    /\ \/ /\ pc[w] \in AttemptLabels
          /\ Go(w, "failStep", [ctx[w] EXCEPT !.err = "cancelled"])
       \/ pc[w] \in WorkflowLabels /\ Goto(w, "saveCancelled")
    /\ seq' = [seq EXCEPT ![w] = "none"]
    /\ UNCHANGED <<dbVars, cache, worldVars, runs, cancels, faults>>

\* The process of the task dies.
Crash(w) ==
    /\ pc[w] # "idle"
    /\ crashes < MaxCrashes
    /\ crashes' = crashes + 1
    /\ seq' = [seq EXCEPT ![w] = "none"]
    /\ Leave(w)
    /\ UNCHANGED <<dbVars, cache, worldVars, runs, cancels, faults>>

\* The cache drops its entry of a step (expiry or eviction).
CacheExpires ==
    /\ \E s \in cache : cache' = cache \ {s}
    /\ UNCHANGED <<dbVars, pc, seq, ctx, worldVars, boundVars>>

-----------------------------------------------------------------------------
\* What the code of a task does by itself once its handler was called.
Progress(w) ==
    \/ InsertWorkflow(w) \/ Begin(w) \/ CancelSave(w)
    \/ LookupCache(w) \/ LookupRow(w) \/ RefillCache(w)
    \/ InsertRow(w) \/ RegisterCompensation(w)
    \/ CheckCancelled(w) \/ MarkExecuting(w)
    \/ ActivityTakesEffect(w) \/ ActivityReturns(w) \/ ActivityFails(w)
    \/ RecheckCancelled(w) \/ CompleteStep(w) \/ CacheResult(w) \/ FailStep(w)
    \/ Succeed(w) \/ SaveCancelled(w)
    \/ SaveCompensating(w) \/ SaveCompensated(w) \/ SaveFailed(w)
    \/ InvalidateCache(w) \/ FetchCompensations(w) \/ NextCompensation(w)
    \/ MarkCompensating(w) \/ CallHandler(w)
    \/ HandlerEnds(w)
    \/ MarkCompensated(w) \/ MarkCompFailed(w)
    \/ ReadSequence(w) \/ RecordEvent(w) \/ EventCollides(w)

Next ==
    \/ \E w \in Tasks :
         \/ StartWorkflow(w) \/ ResumeWorkflow(w) \/ CancelWorkflow(w)
         \/ Progress(w)
         \/ TaskCancelled(w) \/ CallRaises(w) \/ Crash(w)
    \/ CacheExpires

Spec == Init /\ [][Next]_vars

\* The event loop keeps running a task whose awaits return; activities and
\* compensation handlers return, raise or are timed out.
FairSpec == Spec /\ \A w \in Tasks : WF_vars(Progress(w))

-----------------------------------------------------------------------------
(* Properties of every schedule.                                           *)

\* "Register compensation BEFORE executing step": whatever crashes, raises or
\* runs concurrently, an activity that took effect has a durable record.
EffectIsCompensable ==
    \A i \in effect : rowStep[i] \in Compensable =>
        \E c \in 1..nComps : compRow[c] = i

\* The activity of step s returned a result, in some run.
Done(s) == \E i \in returned : rowStep[i] = s

\* A workflow is COMPLETED only when each activity returned a result once,
\* in this run or in an earlier one whose result the cache or a row kept.
CompletedMeansDone == status = "COMPLETED" => \A s \in Steps : Done(s)

\* ReplayEngine reconstructs COMPLETED from the events only when the work was
\* done, whichever events were lost to collisions, crashes and faults.
ReplayIsEarned == replayed = "COMPLETED" => \A s \in Steps : Done(s)

-----------------------------------------------------------------------------
(* Why they hold: the parts of the inductive invariant.                    *)

\* Labels at which execute_activity has the task's row in hand.
RowLabels == AttemptLabels \cup {"register", "failStep", "stepFailedEvent"}

\* Labels at which the workflow function is at activity ctx[w].step.
ActivityLabels == RowLabels \cup {"lookupCache", "lookupRow", "refillCache",
                                   "insertRow"}

\* A task that is past register_compensation has its record in the database.
HasRecord(c) == c.step \in Compensable => \E i \in 1..nComps : compRow[i] = c.row

\* The row and the compensation a task at label with local state c works on.
TaskRow(label, c) ==
    /\ label \in RowLabels => c.row \in 1..nRows /\ rowStep[c.row] = c.step
    /\ label \in AttemptLabels => HasRecord(c)

\* Effects belong to rows that exist, results to effects, COMPLETED to results.
RowHistory ==
    /\ effect \subseteq 1..nRows
    /\ returned \subseteq effect
    /\ \A i \in RowIds : rowStatus[i] = "COMPLETED" => i \in returned

\* How far the workflow function of such a task has come, on what grounds.
TaskProgress(label, c) ==
    /\ label \in ActivityLabels => /\ c.step \in Steps
                                  /\ \A s \in Steps : s < c.step => Done(s)
    /\ label = "refillCache" => Done(c.step)
    /\ label \in {"recheckCancelled", "complete", "cacheResult",
                 "stepCompletedEvent"} => c.row \in returned
    /\ label = "succeed" => \A s \in Steps : Done(s)

WorkflowInv ==
    /\ TypeOK
    /\ RowHistory
    /\ \A w \in Tasks : TaskRow(pc[w], ctx[w])
    /\ EffectIsCompensable
    /\ \A w \in Tasks : TaskProgress(pc[w], ctx[w])
    /\ \A s \in cache : Done(s)
    /\ CompletedMeansDone

-----------------------------------------------------------------------------
(* Properties of a workflow whose runs do not overlap (Overlap = FALSE).   *)

\* Handlers and records agree: across crashes, retries and resumes no handler
\* runs twice, and as long as one run did all of it a compensation recorded as
\* COMPENSATED was carried out.
UndoneAsRecorded ==
    \A c \in RowIds :
      /\ handlerRuns[c] <= 1
      /\ runs = 1 /\ c <= nComps /\ compStatus[c] = "COMPENSATED" => handlerRuns[c] > 0

\* The compensations get_compensations can return: its LIMIT keeps the oldest.
Reachable == {c \in 1..nComps : c <= CompLimit}

\* "Compensations run in LIFO order on failure": when a handler is started,
\* no younger compensation within the LIMIT is still waiting.
LastInFirstOut ==
    [][\A c \in RowIds : handlerRuns'[c] > handlerRuns[c] =>
          \A d \in Reachable : d > c => compStatus[d] # "PENDING"]_vars

\* A workflow reported FAILED has no compensation left to try, except those
\* beyond the LIMIT, which nothing ever reads.
FailedLeavesNothingPending ==
    status = "FAILED" => \A c \in Reachable : compStatus[c] # "PENDING"

-----------------------------------------------------------------------------
(* Progress.                                                               *)

\* Every run of the executor ends, however often activities fail.
RunTerminates == \A w \in Tasks : Executing(w) ~> ~Executing(w)

-----------------------------------------------------------------------------
(* What comments, log messages and tests say and the code does not keep.   *)

\* "Activities already completed will be skipped via idempotency keys"
\* (resume_workflow): no activity starts for a step with a COMPLETED row.
CompletedStepsAreSkipped ==
    [][\A w \in Tasks : pc[w] # "activity" /\ pc'[w] = "activity" =>
          \A i \in 1..nRows : rowStep[i] = ctx[w].step => rowStatus[i] # "COMPLETED"
      ]_vars

\* resume_workflow calls COMPLETED and CANCELLED terminal states.
TerminalIsFinal ==
    [][(status \in {"COMPLETED", "CANCELLED"}) => status' = status]_vars

\* A compensation recorded as COMPENSATED was carried out, also after a resume.
CompensatedWasUndone ==
    \A c \in 1..nComps : compStatus[c] = "COMPENSATED" => handlerRuns[c] > 0

\* A COMPLETED workflow's steps are done and not undone.
CompletedIsInForce ==
    status = "COMPLETED" =>
        \A s \in Steps : \E i \in returned :
            /\ rowStep[i] = s
            /\ \A c \in 1..nComps : compRow[c] = i => handlerRuns[c] = 0

\* ReplayEngine "replays workflow from event history to reconstruct state".
ReplayAgrees ==
    (\A w \in Tasks : pc[w] = "idle") =>
        replayed = IF status = "PENDING" THEN "RUNNING" ELSE status
=============================================================================
