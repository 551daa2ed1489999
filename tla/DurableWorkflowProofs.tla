----------------------- MODULE DurableWorkflowProofs -----------------------
(***************************************************************************)
(* Proofs about DurableWorkflow for any number of tasks, activities,       *)
(* attempts, runs, crashes and faults, with runs that may overlap.         *)
(***************************************************************************)
EXTENDS DurableWorkflow, TLAPS

USE DEF Steps, RowIds

\* The rows and compensation records only grow, as do effects and results.
Grows ==
    /\ nRows <= nRows' /\ nComps <= nComps'
    /\ \A i \in 1..nRows : rowStep'[i] = rowStep[i]
    /\ \A c \in 1..nComps : compRow'[c] = compRow[c]
    /\ returned \subseteq returned'

\* TypeOK without the two variables that a task's move changes.
RestOK ==
    /\ status \in WorkflowStatus
    /\ nRows \in 0..MaxRows /\ nComps \in 0..MaxRows
    /\ rowStep \in [RowIds -> Nat]
    /\ rowStatus \in [RowIds -> StepStatus]
    /\ compRow \in [RowIds -> Nat]
    /\ compStatus \in [RowIds -> CompStatus]
    /\ replayed \in WorkflowStatus
    /\ cache \subseteq Steps
    /\ seq \in [Tasks -> {"none", "fresh", "stale"}]
    /\ effect \subseteq RowIds /\ returned \subseteq RowIds
    /\ handlerRuns \in [RowIds -> Nat]
    /\ runs \in Nat /\ cancels \in Nat /\ crashes \in Nat /\ faults \in Nat

\* The step leaves alone what tasks rely on and saves nothing unfounded.
Sound ==
    /\ RestOK'
    /\ UNCHANGED <<nRows, rowStep, nComps, compRow, effect, returned>>
    /\ \A i \in RowIds : rowStatus'[i] = "COMPLETED" => i \in returned
    /\ \A s \in cache' : Done(s)
    /\ status' = "COMPLETED" => \A s \in Steps : Done(s)

\* A task may be at label with local state c.
TaskOK(label, c) ==
    /\ label \in Labels /\ c \in Context
    /\ TaskRow(label, c)
    /\ TaskProgress(label, c)

\* TypeOK splits into the tasks' control state and everything else.
LEMMA TypeParts ==
    TypeOK <=> RestOK /\ pc \in [Tasks -> Labels] /\ ctx \in [Tasks -> Context]
BY DEF TypeOK, RestOK

\* A task's move keeps TypeOK when the rest keeps its type.
LEMMA GoType ==
    ASSUME TypeOK, RestOK', NEW w \in Tasks, NEW label \in Labels,
           NEW c \in Context, Go(w, label, c)
    PROVE  TypeOK'
<1>1. pc' \in [Tasks -> Labels] /\ ctx' \in [Tasks -> Context]
  BY DEF Go, TypeOK
<1> QED
  BY <1>1 DEF TypeOK, RestOK

\* A result once returned stays returned.
LEMMA DoneGrows ==
    ASSUME TypeOK, RowHistory, Grows, NEW s, Done(s)
    PROVE  Done(s)'
<1>1. PICK i \in returned : rowStep[i] = s
  BY DEF Done
<1>2. i \in 1..nRows
  BY <1>1 DEF RowHistory
<1> QED
  BY <1>1, <1>2 DEF Grows, Done

\* Growth of the tables disturbs no task that does not move.
LEMMA GrowsKeepsTask ==
    ASSUME TypeOK, TypeOK', RowHistory, Grows,
           NEW label \in Labels, NEW c \in Context,
           TaskRow(label, c), TaskProgress(label, c)
    PROVE  /\ TaskRow(label, c)'
           /\ TaskProgress(label, c)'
<1>1. nRows \in Nat /\ nRows' \in Nat /\ nComps \in Nat /\ nComps' \in Nat
  BY DEF TypeOK
<1>2. TaskRow(label, c)'
  <2>1. ASSUME label \in RowLabels
        PROVE  c.row \in 1..nRows' /\ rowStep'[c.row] = c.step
    BY <1>1, <2>1 DEF TaskRow, Grows
  <2>2. ASSUME label \in AttemptLabels, c.step \in Compensable
        PROVE  \E i \in 1..nComps' : compRow'[i] = c.row
    <3>1. PICK i \in 1..nComps : compRow[i] = c.row
      BY <2>2 DEF TaskRow, HasRecord
    <3> QED
      BY <1>1, <3>1 DEF Grows
  <2> QED
    BY <2>1, <2>2 DEF TaskRow, HasRecord
<1>3. TaskProgress(label, c)'
  BY DoneGrows DEF TaskProgress, Grows
<1> QED
  BY <1>2, <1>3

-----------------------------------------------------------------------------
(* Preservation, once per shape of step.                                   *)

\* A step of task w that leaves the other tasks alone and lets the tables
\* grow keeps the invariant if it is right about what it changes.
LEMMA TaskStep ==
    ASSUME WorkflowInv, TypeOK', Grows, NEW w \in Tasks,
           NEW label \in Labels, NEW c \in Context, Go(w, label, c),
           RowHistory', EffectIsCompensable',
           TaskRow(label, c)', TaskProgress(label, c)',
           \A s \in cache' : Done(s)', CompletedMeansDone'
    PROVE  WorkflowInv'
<1>1. ASSUME NEW v \in Tasks
      PROVE  TaskRow(pc[v], ctx[v])' /\ TaskProgress(pc[v], ctx[v])'
  <2>1. CASE v = w
    <3>1. pc'[v] = label /\ ctx'[v] = c
      BY <2>1 DEF Go, WorkflowInv, TypeOK
    <3> QED
      BY <3>1 DEF TaskRow, TaskProgress, HasRecord
  <2>2. CASE v # w
    <3>1. pc'[v] = pc[v] /\ ctx'[v] = ctx[v]
      BY <2>2 DEF Go, WorkflowInv, TypeOK
    <3>2. pc[v] \in Labels /\ ctx[v] \in Context
      BY DEF WorkflowInv, TypeOK
    <3>3. TypeOK /\ RowHistory /\ TaskRow(pc[v], ctx[v]) /\ TaskProgress(pc[v], ctx[v])
      BY DEF WorkflowInv
    <3>4. \A l \in Labels, d \in Context :
            TaskRow(l, d) /\ TaskProgress(l, d) => TaskRow(l, d)' /\ TaskProgress(l, d)'
      BY <3>3, GrowsKeepsTask
    <3> HIDE DEF Grows
    <3>5. \A l, d : l = pc[v] /\ d = ctx[v] => TaskRow(l, d)' /\ TaskProgress(l, d)'
      BY <3>2, <3>3, <3>4
    <3> QED
      BY <3>1, <3>5 DEF TaskRow, TaskProgress, HasRecord
  <2> QED
    BY <2>1, <2>2
<1> QED
  BY <1>1 DEF WorkflowInv

\* A sound step of task w to a place where a task may be.
LEMMA QuietStep ==
    ASSUME WorkflowInv, Sound, NEW w \in Tasks, NEW label, NEW c,
           TaskOK(label, c), Go(w, label, c)
    PROVE  WorkflowInv'
<1>0. label \in Labels /\ c \in Context
  BY DEF TaskOK
<1>1. TypeOK'
  BY <1>0, GoType DEF WorkflowInv, Sound
<1>2. \A s : Done(s)' <=> Done(s)
  BY DEF Sound, Done
<1>3. Grows
  BY DEF Sound, Grows, WorkflowInv, TypeOK
<1>4. RowHistory' /\ EffectIsCompensable'
  BY DEF Sound, WorkflowInv, RowHistory, EffectIsCompensable
<1>5. TaskRow(label, c)' /\ TaskProgress(label, c)'
  BY <1>2 DEF Sound, TaskOK, TaskRow, TaskProgress, HasRecord
<1>6. (\A s \in cache' : Done(s)') /\ CompletedMeansDone'
  BY <1>2 DEF Sound, CompletedMeansDone
<1> QED
  BY <1>0, <1>1, <1>3, <1>4, <1>5, <1>6, TaskStep

\* Steps that write nothing but events, sequence numbers, compensation records
\* and bounds, and statuses other than COMPLETED.
LEMMA Still ==
    ASSUME WorkflowInv, RestOK',
           UNCHANGED <<nRows, rowStep, rowStatus, nComps, compRow, cache, effect,
                       returned>>,
           status' = status \/ status' # "COMPLETED"
    PROVE  Sound
BY DEF Sound, WorkflowInv, RowHistory, CompletedMeansDone

\* Where a task is it may be.
LEMMA TaskIsOK ==
    ASSUME WorkflowInv, NEW w \in Tasks
    PROVE  TaskOK(pc[w], ctx[w])
BY DEF WorkflowInv, TypeOK, TaskOK

\* At labels outside the workflow function nothing is claimed of the locals.
LEMMA FreeLabel ==
    ASSUME NEW label \in Labels \ (ActivityLabels \cup {"succeed"}), NEW c \in Context
    PROVE  TaskOK(label, c)
BY DEF TaskOK, TaskRow, TaskProgress, ActivityLabels, RowLabels, AttemptLabels

\* The empty context is a context.
LEMMA NoContextType == NoContext \in Context
BY DEF NoContext, Context

\* How a task's local state changes.
LEMMA ContextAtStep ==
    ASSUME NEW n \in Nat, NEW h \in SUBSET Steps
    PROVE  /\ [NoContext EXCEPT !.step = n, !.handlers = h] \in Context
           /\ [NoContext EXCEPT !.step = n, !.handlers = h].step = n
BY NoContextType DEF NoContext, Context

\* execute_activity puts its new row into the context.
LEMMA ContextWithRow ==
    ASSUME NEW c \in Context, NEW r \in Nat
    PROVE  LET d == [c EXCEPT !.row = r, !.attempt = 1]
           IN  d \in Context /\ d.step = c.step /\ d.row = r
BY DEF Context

\* _run_activity_with_retry sets last_error and counts the attempt.
LEMMA ContextWithError ==
    ASSUME NEW c \in Context, NEW n \in Nat, NEW e \in {"none", "error", "cancelled"}
    PROVE  /\ LET d == [c EXCEPT !.err = e]
              IN  d \in Context /\ d.step = c.step /\ d.row = c.row
           /\ LET d == [c EXCEPT !.err = e, !.attempt = n]
              IN  d \in Context /\ d.step = c.step /\ d.row = c.row
BY DEF Context

\* register_compensation adds a handler to the context.
LEMMA ContextWithHandler ==
    ASSUME NEW c \in Context, NEW h \in SUBSET Steps
    PROVE  LET d == [c EXCEPT !.handlers = h]
           IN  d \in Context /\ d.step = c.step /\ d.row = c.row
BY DEF Context

\* _run_compensations takes the next record from its list.
LEMMA ContextWithComps ==
    ASSUME NEW c \in Context, NEW i \in Nat, NEW S \in SUBSET RowIds
    PROVE  /\ [c EXCEPT !.todo = S] \in Context
           /\ [c EXCEPT !.comp = i, !.todo = S] \in Context
BY DEF Context

\* Leaving is always right.
LEMMA LeaveStep ==
    ASSUME WorkflowInv, Sound, NEW w \in Tasks, Leave(w)
    PROVE  WorkflowInv'
<1>1. TaskOK("idle", NoContext)
  BY FreeLabel, NoContextType DEF Labels, ActivityLabels, RowLabels, AttemptLabels
<1> QED
  BY <1>1, QuietStep DEF Leave

\* Going on to a label outside the workflow function is always right.
LEMMA FreeStep ==
    ASSUME WorkflowInv, Sound, NEW w \in Tasks,
           NEW label \in Labels \ (ActivityLabels \cup {"succeed"}), Goto(w, label)
    PROVE  WorkflowInv'
<1>1. ctx[w] \in Context
  BY DEF WorkflowInv, TypeOK
<1> QED
  BY <1>1, FreeLabel, QuietStep DEF Goto

\* The next activity may begin once this one is done.
LEMMA NextStepOK ==
    ASSUME WorkflowInv, Sound, NEW w \in Tasks, NextStep(w),
           pc[w] \in ActivityLabels, Done(ctx[w].step)
    PROVE  WorkflowInv'
<1> DEFINE c == [NoContext EXCEPT !.step = ctx[w].step + 1,
                                  !.handlers = ctx[w].handlers]
           label == IF ctx[w].step = NumSteps THEN "succeed" ELSE "lookupCache"
<1>1. /\ ctx[w] \in Context /\ ctx[w].step \in Steps
      /\ \A s \in Steps : s < ctx[w].step => Done(s)
  BY DEF WorkflowInv, TypeOK, TaskProgress
<1>2. c \in Context /\ c.step = ctx[w].step + 1
  <2>1. ctx[w].step + 1 \in Nat /\ ctx[w].handlers \in SUBSET Steps
    BY <1>1, WorkflowAssumption DEF Context
  <2> QED
    BY <2>1, ContextAtStep
<1>3. \A s \in Steps : s < c.step => Done(s)
  BY <1>1, <1>2, WorkflowAssumption
<1>4. CASE ctx[w].step = NumSteps
  <2>1. TaskOK("succeed", c)
    BY <1>1, <1>2, <1>3, <1>4, WorkflowAssumption
    DEF TaskOK, TaskRow, TaskProgress, Labels, WorkflowLabels, ActivityLabels,
        RowLabels, AttemptLabels
  <2> QED
    BY <2>1, <1>4, QuietStep DEF NextStep
<1>5. CASE ctx[w].step # NumSteps
  <2>0. c.step \in Steps
    BY <1>1, <1>2, <1>5, WorkflowAssumption
  <2>1. TaskOK("lookupCache", c)
    BY <1>2, <1>3, <2>0
    DEF TaskOK, TaskRow, TaskProgress, Labels, WorkflowLabels, ActivityLabels,
        RowLabels, AttemptLabels
  <2> QED
    BY <2>1, <1>5, QuietStep DEF NextStep
<1> QED
  BY <1>4, <1>5

\* What a task may do next depends on its label, its step and its row only.
LEMMA SameActivity ==
    ASSUME WorkflowInv, NEW w \in Tasks, pc[w] \in RowLabels,
           NEW d \in Context, d.step = ctx[w].step, d.row = ctx[w].row
    PROVE  /\ TaskOK("failStep", d) /\ TaskOK("stepFailedEvent", d)
           /\ pc[w] \in AttemptLabels =>
                 /\ TaskOK("checkCancelled", d) /\ TaskOK("markExecuting", d)
                 /\ TaskOK("stepStartedEvent", d) /\ TaskOK("activity", d)
           /\ pc[w] \in {"recheckCancelled", "complete", "cacheResult"} =>
                 /\ TaskOK("complete", d) /\ TaskOK("cacheResult", d)
                 /\ TaskOK("stepCompletedEvent", d)
BY TaskIsOK
DEF TaskOK, TaskRow, TaskProgress, HasRecord, Labels, RowLabels, ActivityLabels,
    AttemptLabels, WorkflowLabels

\* What is known of a task that is at an activity.
LEMMA ActivityFacts ==
    ASSUME WorkflowInv, NEW w \in Tasks, pc[w] \in ActivityLabels
    PROVE  /\ RestOK /\ ctx[w] \in Context /\ ctx[w].step \in Steps
           /\ \A s \in Steps : s < ctx[w].step => Done(s)
           /\ pc[w] \in RowLabels => /\ ctx[w].row \in 1..nRows
                                     /\ rowStep[ctx[w].row] = ctx[w].step
<1>1. RestOK /\ TaskOK(pc[w], ctx[w])
  BY TypeParts, TaskIsOK DEF WorkflowInv
<1> QED
  BY <1>1 DEF TaskOK, TaskRow, TaskProgress

\* An error in the attempt loop leads to another attempt or to the failed step.
LEMMA RetryStep ==
    ASSUME WorkflowInv, Sound, NEW w \in Tasks, pc[w] \in AttemptLabels,
           RetryOrFail(w)
    PROVE  WorkflowInv'
<1>1. pc[w] \in RowLabels /\ pc[w] \in ActivityLabels
  BY DEF RowLabels, ActivityLabels
<1>2. ctx[w] \in Context /\ ctx[w].attempt + 1 \in Nat
  <2>1. ctx[w] \in Context
    BY DEF WorkflowInv, TypeOK
  <2>2. ctx[w].attempt \in Nat
    BY <2>1 DEF Context
  <2> QED
    BY <2>1, <2>2
<1>3. CASE Go(w, "checkCancelled",
              [ctx[w] EXCEPT !.err = "error", !.attempt = ctx[w].attempt + 1])
  <2>1. TaskOK("checkCancelled",
               [ctx[w] EXCEPT !.err = "error", !.attempt = ctx[w].attempt + 1])
    BY <1>1, <1>2, ContextWithError, SameActivity
  <2> QED
    BY <1>3, <2>1, QuietStep
<1>4. CASE Go(w, "failStep", [ctx[w] EXCEPT !.err = "error"])
  <2>1. TaskOK("failStep", [ctx[w] EXCEPT !.err = "error"])
    BY <1>1, <1>2, ContextWithError, SameActivity
  <2> QED
    BY <1>4, <2>1, QuietStep
<1> QED
  BY <1>3, <1>4 DEF RetryOrFail

-----------------------------------------------------------------------------
(* Preservation, action by action.                                         *)

\* start_workflow, resume_workflow, cancel_workflow and the saves before the
\* first activity keep the invariant.
LEMMA RequestSteps ==
    ASSUME WorkflowInv, NEW w \in Tasks,
           \/ StartWorkflow(w) \/ ResumeWorkflow(w) \/ CancelWorkflow(w)
           \/ InsertWorkflow(w) \/ CancelSave(w)
    PROVE  WorkflowInv'
<1> USE DEF dbVars, rowVars, compVars, worldVars, boundVars
<1>0. RestOK
  BY TypeParts DEF WorkflowInv
<1>1. CASE StartWorkflow(w) \/ ResumeWorkflow(w)
  <2>0. /\ runs' = runs + 1
        /\ UNCHANGED <<dbVars, cache, seq, worldVars, cancels, crashes, faults>>
    BY <1>1, Zenon DEF StartWorkflow, ResumeWorkflow, Request
  <2>1. Sound
    BY <1>0, <2>0, Still DEF RestOK
  <2>2. Goto(w, "insert") \/ Goto(w, "begin")
    BY <1>1 DEF StartWorkflow, ResumeWorkflow
  <2> QED
    BY <2>1, <2>2, FreeStep DEF Labels, UnguardedLabels, ActivityLabels, RowLabels,
       AttemptLabels
<1>2. CASE CancelWorkflow(w)
  <2>1. Sound
    BY <1>0, <1>2, Still DEF CancelWorkflow, RestOK
  <2> QED
    BY <1>2, <2>1, FreeStep DEF CancelWorkflow, Labels, UnguardedLabels,
       ActivityLabels, RowLabels, AttemptLabels
<1>3. CASE InsertWorkflow(w)
  <2>1. Sound
    BY <1>0, <1>3, Still DEF InsertWorkflow, RestOK, WorkflowStatus
  <2>2. Goto(w, "startedEvent") \/ Leave(w)
    BY <1>3 DEF InsertWorkflow
  <2> QED
    BY <2>1, <2>2, FreeStep, LeaveStep DEF Labels, UnguardedLabels,
       ActivityLabels, RowLabels, AttemptLabels
<1>4. CASE CancelSave(w)
  <2>1. Sound
    BY <1>0, <1>4, Still DEF CancelSave, SaveStatus, RestOK, WorkflowStatus
  <2> QED
    BY <1>4, <2>1, FreeStep DEF CancelSave, Labels, UnguardedLabels,
       ActivityLabels, RowLabels, AttemptLabels
<1> QED
  BY <1>1, <1>2, <1>3, <1>4

\* _get_cached_step_result skips only activities that returned a result.
LEMMA LookupSteps ==
    ASSUME WorkflowInv, NEW w \in Tasks,
           Begin(w) \/ LookupCache(w) \/ LookupRow(w) \/ RefillCache(w)
    PROVE  WorkflowInv'
<1> USE DEF dbVars, rowVars, compVars, worldVars, boundVars
<1>0. RestOK /\ TaskOK(pc[w], ctx[w]) /\ ctx[w] \in Context
  BY TypeParts, TaskIsOK DEF WorkflowInv, TaskOK
<1>1. CASE Begin(w)
  <2>1. Sound
    BY <1>0, <1>1, Still DEF Begin, SaveStatus, RestOK, WorkflowStatus
  <2> DEFINE c == [NoContext EXCEPT !.step = 1]
  <2>2. c \in Context /\ c.step = 1
    BY NoContextType DEF Context, NoContext
  <2>3. TaskOK("lookupCache", c)
    BY <2>2, WorkflowAssumption
    DEF TaskOK, TaskRow, TaskProgress, Labels, RowLabels, ActivityLabels,
        AttemptLabels, WorkflowLabels
  <2> QED
    BY <1>1, <2>1, <2>3, QuietStep DEF Begin
<1>2. CASE LookupCache(w)
  <2>1. Sound
    BY <1>0, <1>2, Still DEF LookupCache, RestOK
  <2>2. CASE ctx[w].step \in cache /\ NextStep(w)
    <3>1. Done(ctx[w].step) /\ pc[w] \in ActivityLabels
      BY <1>2, <2>2 DEF LookupCache, WorkflowInv, ActivityLabels
    <3> QED
      BY <2>1, <2>2, <3>1, NextStepOK
  <2>3. CASE Goto(w, "lookupRow")
    <3>1. TaskOK("lookupRow", ctx[w])
      BY <1>0, <1>2
      DEF LookupCache, TaskOK, TaskRow, TaskProgress, Labels, RowLabels,
          ActivityLabels, AttemptLabels, WorkflowLabels
    <3> QED
      BY <2>1, <2>3, <3>1, QuietStep DEF Goto
  <2> QED
    BY <1>2, <2>2, <2>3 DEF LookupCache
<1>3. CASE LookupRow(w)
  <2>1. Sound
    BY <1>0, <1>3, Still DEF LookupRow, RestOK
  <2>2. CASE /\ \E i \in 1..nRows : rowStep[i] = ctx[w].step /\ Skips(i)
             /\ Goto(w, "refillCache")
    <3>1. PICK i \in 1..nRows : rowStep[i] = ctx[w].step /\ rowStatus[i] = "COMPLETED"
      BY <2>2 DEF Skips
    <3>2. i \in returned
      BY <1>0, <3>1, WorkflowAssumption DEF WorkflowInv, RowHistory, RestOK
    <3>3. Done(ctx[w].step)
      BY <3>1, <3>2 DEF Done
    <3>4. TaskOK("refillCache", ctx[w])
      BY <1>0, <1>3, <3>3
      DEF LookupRow, TaskOK, TaskRow, TaskProgress, Labels, RowLabels,
          ActivityLabels, AttemptLabels, WorkflowLabels
    <3> QED
      BY <2>1, <2>2, <3>4, QuietStep DEF Goto
  <2>3. CASE Goto(w, "insertRow")
    <3>1. TaskOK("insertRow", ctx[w])
      BY <1>0, <1>3
      DEF LookupRow, TaskOK, TaskRow, TaskProgress, Labels, RowLabels,
          ActivityLabels, AttemptLabels, WorkflowLabels
    <3> QED
      BY <2>1, <2>3, <3>1, QuietStep DEF Goto
  <2> QED
    BY <1>3, <2>2, <2>3 DEF LookupRow
<1>4. CASE RefillCache(w)
  <2>1. /\ Done(ctx[w].step) /\ ctx[w].step \in Steps
        /\ pc[w] \in ActivityLabels
    BY <1>0, <1>4 DEF RefillCache, TaskOK, TaskProgress, ActivityLabels
  <2>2. RestOK'
    BY <1>0, <1>4, <2>1 DEF RefillCache, RestOK
  <2>3. Sound
    BY <1>4, <2>1, <2>2
    DEF RefillCache, Sound, WorkflowInv, RowHistory, CompletedMeansDone
  <2> QED
    BY <1>4, <2>1, <2>3, NextStepOK DEF RefillCache
<1> QED
  BY <1>1, <1>2, <1>3, <1>4

\* A new step row is not in use by any other task.
LEMMA InsertRowStep ==
    ASSUME WorkflowInv, NEW w \in Tasks, InsertRow(w)
    PROVE  WorkflowInv'
<1>a. PICK c : c = [ctx[w] EXCEPT !.row = nRows + 1, !.attempt = 1]
  OBVIOUS
<1>b. PICK label : label = IF ctx[w].step \in Compensable THEN "register"
                                                          ELSE "checkCancelled"
  OBVIOUS
<1> USE DEF dbVars, rowVars, compVars, worldVars, boundVars
<1>c. /\ RestOK /\ ctx[w] \in Context /\ ctx[w].step \in Steps
      /\ \A s \in Steps : s < ctx[w].step => Done(s)
  BY ActivityFacts DEF InsertRow, ActivityLabels
<1>d. nRows \in Nat /\ nRows + 1 \in RowIds /\ nRows + 1 \in Nat
  BY <1>c, WorkflowAssumption DEF RestOK, InsertRow
<1>0. /\ RestOK /\ ctx[w] \in Context
      /\ nRows \in Nat /\ nRows + 1 \in RowIds /\ ctx[w].step \in Steps
      /\ \A s \in Steps : s < ctx[w].step => Done(s)
  BY <1>c, <1>d
<1>1. c \in Context /\ c.step = ctx[w].step /\ c.row = nRows + 1
  BY <1>c, <1>d, <1>a, ContextWithRow
<1>2. /\ rowStep'[nRows + 1] = ctx[w].step
      /\ \A i \in 1..nRows : rowStep'[i] = rowStep[i]
  BY <1>0 DEF InsertRow, RestOK
<1>3. RestOK'
  <2>1. nRows' \in 0..MaxRows
    BY <1>0, WorkflowAssumption DEF InsertRow
  <2>2. rowStep' \in [RowIds -> Nat] /\ rowStatus' \in [RowIds -> StepStatus]
    BY <1>0 DEF InsertRow, RestOK, StepStatus
  <2> QED
    BY <1>0, <2>1, <2>2 DEF InsertRow, RestOK
<1>4. label \in Labels
  BY <1>b DEF Labels, WorkflowLabels, AttemptLabels
<1>5. Go(w, label, c)
  BY <1>a, <1>b DEF InsertRow
<1>6. TypeOK'
  BY <1>1, <1>3, <1>4, <1>5, GoType DEF WorkflowInv
<1>7. Grows
  BY <1>0, <1>2 DEF InsertRow, Grows, RestOK
<1>8. RowHistory'
  BY <1>0 DEF InsertRow, RestOK, WorkflowInv, RowHistory
<1>9. EffectIsCompensable'
  BY <1>0, <1>2 DEF InsertRow, WorkflowInv, RowHistory, EffectIsCompensable
<1>10. \A s : Done(s) => Done(s)'
  BY <1>7, DoneGrows DEF WorkflowInv
<1>11. TaskRow(label, c)'
  BY <1>0, <1>b, <1>1, <1>2
  DEF InsertRow, TaskRow, HasRecord, RowLabels, AttemptLabels
<1>12. TaskProgress(label, c)'
  BY <1>0, <1>b, <1>1, <1>10 DEF TaskProgress
<1>13. (\A s \in cache' : Done(s)') /\ CompletedMeansDone'
  BY <1>10 DEF InsertRow, WorkflowInv, CompletedMeansDone
<1> QED
  BY <1>1, <1>4, <1>5, <1>6, <1>7, <1>8, <1>9, <1>11, <1>12, <1>13, TaskStep

\* Once register_compensation has saved the record, the attempts may begin.
LEMMA RegisterStep ==
    ASSUME WorkflowInv, NEW w \in Tasks, RegisterCompensation(w)
    PROVE  WorkflowInv'
<1>a. PICK c : c = [ctx[w] EXCEPT !.handlers = @ \cup {ctx[w].step}]
  OBVIOUS
<1> USE DEF dbVars, rowVars, compVars, worldVars, boundVars
<1>b. /\ RestOK /\ ctx[w] \in Context /\ ctx[w].step \in Steps
      /\ ctx[w].row \in 1..nRows /\ rowStep[ctx[w].row] = ctx[w].step
      /\ \A s \in Steps : s < ctx[w].step => Done(s)
  BY ActivityFacts DEF RegisterCompensation, ActivityLabels, RowLabels
<1>c. nComps \in Nat /\ nComps + 1 \in RowIds /\ ctx[w].row \in Nat
  <2>1. nComps \in 0..MaxRows /\ nComps < MaxRows
    BY <1>b DEF RestOK, RegisterCompensation
  <2>2. ctx[w].row \in Nat
    BY <1>b DEF Context
  <2> QED
    BY <2>1, <2>2, WorkflowAssumption
<1>0. /\ RestOK /\ ctx[w] \in Context
      /\ nComps \in Nat /\ nComps + 1 \in RowIds /\ ctx[w].step \in Steps
      /\ ctx[w].row \in 1..nRows /\ rowStep[ctx[w].row] = ctx[w].step
      /\ \A s \in Steps : s < ctx[w].step => Done(s)
  BY <1>b, <1>c
<1>1. c \in Context /\ c.step = ctx[w].step /\ c.row = ctx[w].row
  <2>1. ctx[w].handlers \cup {ctx[w].step} \in SUBSET Steps
    BY <1>0 DEF Context
  <2> QED
    BY <1>0, <1>a, <2>1, ContextWithHandler
<1>2. /\ compRow'[nComps + 1] = ctx[w].row
      /\ \A i \in 1..nComps : compRow'[i] = compRow[i]
  BY <1>0 DEF RegisterCompensation, RestOK
<1>3. RestOK'
  <2>1. nComps' \in 0..MaxRows
    BY <1>0, WorkflowAssumption DEF RegisterCompensation
  <2>2. compRow' \in [RowIds -> Nat] /\ compStatus' \in [RowIds -> CompStatus]
    BY <1>0, <1>c DEF RegisterCompensation, RestOK, CompStatus
  <2> QED
    BY <1>0, <2>1, <2>2 DEF RegisterCompensation, RestOK
<1>5. Go(w, "checkCancelled", c)
  BY <1>a DEF RegisterCompensation
<1>6. "checkCancelled" \in Labels
  BY DEF Labels, AttemptLabels
<1>7. TypeOK'
  BY <1>1, <1>3, <1>5, <1>6, GoType DEF WorkflowInv
<1>8. Grows
  BY <1>0, <1>2 DEF RegisterCompensation, Grows, RestOK
<1>9. RowHistory'
  BY DEF RegisterCompensation, WorkflowInv, RowHistory
<1>10. EffectIsCompensable'
  BY <1>0, <1>2 DEF RegisterCompensation, WorkflowInv, EffectIsCompensable
<1>11. \A s : Done(s) => Done(s)'
  BY <1>8, DoneGrows DEF WorkflowInv
<1>12. TaskRow("checkCancelled", c)'
  <2>1. nComps + 1 \in 1..nComps'
    BY <1>0 DEF RegisterCompensation
  <2> QED
    BY <1>0, <1>1, <1>2, <2>1 DEF RegisterCompensation, TaskRow, HasRecord
<1>13. TaskProgress("checkCancelled", c)'
  BY <1>0, <1>1, <1>11 DEF TaskProgress
<1>14. (\A s \in cache' : Done(s)') /\ CompletedMeansDone'
  BY <1>11 DEF RegisterCompensation, WorkflowInv, CompletedMeansDone
<1> QED
  BY <1>1, <1>5, <1>6, <1>7, <1>8, <1>9, <1>10, <1>12, <1>13, <1>14, TaskStep

\* The steps of one attempt that leave the outside world alone.
LEMMA AttemptSteps ==
    ASSUME WorkflowInv, NEW w \in Tasks,
           \/ CheckCancelled(w) \/ RecheckCancelled(w) \/ ActivityFails(w)
           \/ MarkExecuting(w) \/ CompleteStep(w) \/ FailStep(w)
           \/ CacheResult(w)
    PROVE  WorkflowInv'
<1> USE DEF dbVars, rowVars, compVars, worldVars, boundVars
<1>0. pc[w] \in RowLabels /\ pc[w] \in ActivityLabels
  BY DEF CheckCancelled, RecheckCancelled, StopIfCancelled, ActivityFails,
     MarkExecuting, CompleteStep, FailStep, SaveRow, CacheResult, RowLabels,
     ActivityLabels, AttemptLabels
<1>1. RestOK /\ ctx[w] \in Context /\ ctx[w].step \in Steps
  BY <1>0, ActivityFacts
<1>2. CASE CheckCancelled(w) \/ RecheckCancelled(w)
  <2>1. Sound
    BY <1>1, <1>2, Still DEF CheckCancelled, RecheckCancelled, StopIfCancelled, RestOK
  <2>2. CASE Go(w, "failStep", [ctx[w] EXCEPT !.err = "cancelled"])
    <3>1. TaskOK("failStep", [ctx[w] EXCEPT !.err = "cancelled"])
      BY <1>0, <1>1, ContextWithError, SameActivity
    <3> QED
      BY <2>1, <2>2, <3>1, QuietStep
  <2>3. CASE CheckCancelled(w) /\ Goto(w, "markExecuting")
    <3>1. TaskOK("markExecuting", ctx[w])
      BY <1>0, <1>1, <2>3, SameActivity
      DEF CheckCancelled, StopIfCancelled, AttemptLabels
    <3> QED
      BY <2>1, <2>3, <3>1, QuietStep DEF Goto
  <2>4. CASE RecheckCancelled(w) /\ Goto(w, "complete")
    <3>1. TaskOK("complete", ctx[w])
      BY <1>0, <1>1, <2>4, SameActivity DEF RecheckCancelled, StopIfCancelled
    <3> QED
      BY <2>1, <2>4, <3>1, QuietStep DEF Goto
  <2> QED
    BY <1>2, <2>2, <2>3, <2>4 DEF CheckCancelled, RecheckCancelled, StopIfCancelled
<1>3. CASE ActivityFails(w)
  <2>1. Sound
    BY <1>1, <1>3, Still DEF ActivityFails, RestOK
  <2>2. pc[w] \in AttemptLabels /\ RetryOrFail(w)
    BY <1>3 DEF ActivityFails, AttemptLabels
  <2> QED
    BY <2>1, <2>2, RetryStep
<1>4. CASE MarkExecuting(w)
  <2>1. Sound
    BY <1>1, <1>4
    DEF MarkExecuting, SaveRow, RestOK, StepStatus, Sound, WorkflowInv, RowHistory,
        CompletedMeansDone
  <2>2. TaskOK("stepStartedEvent", ctx[w])
    BY <1>0, <1>1, <1>4, SameActivity DEF MarkExecuting, SaveRow, AttemptLabels
  <2> QED
    BY <1>4, <2>1, <2>2, QuietStep DEF MarkExecuting, SaveRow, Goto
<1>5. CASE CompleteStep(w)
  <2>0. ctx[w].row \in returned
    BY <1>5 DEF CompleteStep, SaveRow, WorkflowInv, TaskProgress
  <2>1. Sound
    BY <1>1, <1>5, <2>0
    DEF CompleteStep, SaveRow, RestOK, StepStatus, Sound, WorkflowInv, RowHistory,
        CompletedMeansDone
  <2>2. TaskOK("cacheResult", ctx[w])
    BY <1>0, <1>1, <1>5, SameActivity DEF CompleteStep, SaveRow
  <2> QED
    BY <1>5, <2>1, <2>2, QuietStep DEF CompleteStep, SaveRow, Goto
<1>6. CASE FailStep(w)
  <2>1. Sound
    BY <1>1, <1>6
    DEF FailStep, SaveRow, RestOK, StepStatus, Sound, WorkflowInv, RowHistory,
        CompletedMeansDone
  <2>2. TaskOK("stepFailedEvent", ctx[w])
    BY <1>0, <1>1, SameActivity
  <2> QED
    BY <1>6, <2>1, <2>2, QuietStep DEF FailStep, SaveRow, Goto
<1>7. CASE CacheResult(w)
  <2>0. ctx[w].row \in returned /\ rowStep[ctx[w].row] = ctx[w].step
    BY <1>0, <1>7, ActivityFacts DEF CacheResult, WorkflowInv, TaskProgress
  <2>1. Done(ctx[w].step)
    BY <2>0 DEF Done
  <2>2. RestOK'
    BY <1>1, <1>7 DEF CacheResult, RestOK
  <2>3. Sound
    BY <1>7, <2>1, <2>2
    DEF CacheResult, Sound, WorkflowInv, RowHistory, CompletedMeansDone
  <2>4. TaskOK("stepCompletedEvent", ctx[w])
    BY <1>0, <1>1, <1>7, SameActivity DEF CacheResult
  <2> QED
    BY <1>7, <2>3, <2>4, QuietStep DEF CacheResult, Goto
<1> QED
  BY <1>2, <1>3, <1>4, <1>5, <1>6, <1>7

\* The activity takes effect only for a row that has its record.
LEMMA EffectStep ==
    ASSUME WorkflowInv, NEW w \in Tasks, ActivityTakesEffect(w)
    PROVE  WorkflowInv'
<1> USE DEF dbVars, rowVars, compVars, worldVars, boundVars
<1>0. pc[w] = "activity" /\ pc[w] \in AttemptLabels /\ pc[w] \in RowLabels
      /\ pc[w] \in ActivityLabels
  BY DEF ActivityTakesEffect, RowLabels, ActivityLabels, AttemptLabels
<1>1. /\ RestOK /\ ctx[w].row \in 1..nRows /\ rowStep[ctx[w].row] = ctx[w].step
      /\ HasRecord(ctx[w])
  BY <1>0, ActivityFacts DEF WorkflowInv, TaskRow
<1>2. ctx[w].row \in RowIds
  BY <1>1, WorkflowAssumption DEF RestOK
<1>3. TypeOK'
  BY <1>2 DEF ActivityTakesEffect, WorkflowInv, TypeOK
<1>4. RowHistory'
  BY <1>1 DEF ActivityTakesEffect, WorkflowInv, RowHistory
<1>5. EffectIsCompensable'
  BY <1>1 DEF ActivityTakesEffect, WorkflowInv, EffectIsCompensable, HasRecord
<1>6. \A s : Done(s)' <=> Done(s)
  BY DEF ActivityTakesEffect, Done
<1>7. \A v \in Tasks : TaskRow(pc[v], ctx[v])' /\ TaskProgress(pc[v], ctx[v])'
  BY <1>6 DEF ActivityTakesEffect, WorkflowInv, TaskRow, TaskProgress, HasRecord
<1> QED
  BY <1>3, <1>4, <1>5, <1>6, <1>7
  DEF ActivityTakesEffect, WorkflowInv, CompletedMeansDone

\* The activity's result is what makes its step done.
LEMMA ReturnStep ==
    ASSUME WorkflowInv, NEW w \in Tasks, ActivityReturns(w)
    PROVE  WorkflowInv'
<1> USE DEF dbVars, rowVars, compVars, worldVars, boundVars
<1>a. PICK c : c = ctx[w]
  OBVIOUS
<1>0. /\ pc[w] \in ActivityLabels /\ pc[w] \in RowLabels /\ pc[w] \in AttemptLabels
  BY DEF ActivityReturns, RowLabels, ActivityLabels, AttemptLabels
<1>1. /\ RestOK /\ c \in Context /\ c.step \in Steps
      /\ c.row \in 1..nRows /\ rowStep[c.row] = c.step /\ c.row \in effect
      /\ \A s \in Steps : s < c.step => Done(s)
      /\ HasRecord(c)
  BY <1>0, <1>a, ActivityFacts DEF ActivityReturns, WorkflowInv, TaskRow
<1>2. RestOK'
  BY <1>1, <1>a DEF ActivityReturns, RestOK
<1>3. Go(w, "recheckCancelled", c) /\ "recheckCancelled" \in Labels
  BY <1>a DEF ActivityReturns, Goto, Labels, AttemptLabels
<1>4. TypeOK'
  BY <1>1, <1>2, <1>3, GoType DEF WorkflowInv
<1>5. Grows
  BY <1>1 DEF ActivityReturns, Grows, RestOK
<1>6. RowHistory' /\ EffectIsCompensable'
  BY <1>1, <1>a DEF ActivityReturns, WorkflowInv, RowHistory, EffectIsCompensable
<1>7. \A s : Done(s) => Done(s)'
  BY <1>5, DoneGrows DEF WorkflowInv
<1>8. TaskRow("recheckCancelled", c)'
  BY <1>1 DEF ActivityReturns, TaskRow, HasRecord
<1>9. TaskProgress("recheckCancelled", c)'
  BY <1>1, <1>7, <1>a DEF ActivityReturns, TaskProgress
<1>10. (\A s \in cache' : Done(s)') /\ CompletedMeansDone'
  BY <1>7 DEF ActivityReturns, WorkflowInv, CompletedMeansDone
<1> QED
  BY <1>1, <1>3, <1>4, <1>5, <1>6, <1>8, <1>9, <1>10, TaskStep

\* The _finalize_* saves: COMPLETED only after every activity is done.
LEMMA FinishSteps ==
    ASSUME WorkflowInv, NEW w \in Tasks,
           \/ Succeed(w) \/ SaveCancelled(w) \/ SaveFailed(w)
           \/ SaveCompensating(w) \/ SaveCompensated(w) \/ InvalidateCache(w)
    PROVE  WorkflowInv'
<1> USE DEF dbVars, rowVars, compVars, worldVars, boundVars
<1>0. RestOK
  BY TypeParts DEF WorkflowInv
<1>1. CASE Succeed(w)
  <2>1. \A s \in Steps : Done(s)
    BY <1>1 DEF Succeed, SaveStatus, WorkflowInv, TaskProgress
  <2>2. RestOK'
    BY <1>0, <1>1 DEF Succeed, SaveStatus, RestOK, WorkflowStatus
  <2>3. Sound
    BY <1>1, <2>1, <2>2 DEF Succeed, SaveStatus, Sound, WorkflowInv, RowHistory
  <2> QED
    BY <1>1, <2>3, FreeStep
    DEF Succeed, Labels, WorkflowLabels, ActivityLabels, RowLabels, AttemptLabels
<1>2. CASE SaveCancelled(w) \/ SaveFailed(w)
  <2>1. Sound
    BY <1>0, <1>2, Still DEF SaveCancelled, SaveFailed, SaveStatus, RestOK, WorkflowStatus
  <2> QED
    BY <1>2, <2>1, LeaveStep DEF SaveCancelled, SaveFailed
<1>3. CASE SaveCompensating(w) \/ SaveCompensated(w)
  <2>1. Sound
    BY <1>0, <1>3, Still
    DEF SaveCompensating, SaveCompensated, SaveStatus, RestOK, WorkflowStatus
  <2>2. Goto(w, "invalidateCache") \/ Goto(w, "saveFailed")
    BY <1>3 DEF SaveCompensating, SaveCompensated
  <2> QED
    BY <2>1, <2>2, FreeStep
    DEF Labels, UnguardedLabels, ActivityLabels, RowLabels, AttemptLabels
<1>4. CASE InvalidateCache(w)
  <2>1. RestOK'
    BY <1>0, <1>4 DEF InvalidateCache, RestOK
  <2>2. Sound
    BY <1>4, <2>1
    DEF InvalidateCache, Sound, WorkflowInv, RowHistory, CompletedMeansDone
  <2> QED
    BY <1>4, <2>2, FreeStep
    DEF InvalidateCache, Labels, UnguardedLabels, ActivityLabels, RowLabels,
        AttemptLabels
<1> QED
  BY <1>1, <1>2, <1>3, <1>4

\* _run_compensations touches neither rows nor results.
LEMMA CompensationSteps ==
    ASSUME WorkflowInv, NEW w \in Tasks,
           \/ FetchCompensations(w) \/ NextCompensation(w)
           \/ MarkCompensating(w) \/ MarkCompensated(w) \/ MarkCompFailed(w)
           \/ CallHandler(w) \/ HandlerEnds(w)
    PROVE  WorkflowInv'
<1> USE DEF dbVars, rowVars, compVars, worldVars, boundVars
<1>0. RestOK /\ ctx[w] \in Context
  BY TypeParts DEF WorkflowInv
<1>l. {"nextCompensation", "saveCompensated", "compStartedEvent", "callHandler",
       "compDoneEvent", "compFailedEvent", "handlerRunning", "markCompensated",
       "markCompFailed"} \subseteq Labels \ (ActivityLabels \cup {"succeed"})
  BY DEF Labels, UnguardedLabels, CompLabels, ActivityLabels, RowLabels, AttemptLabels
<1>1. CASE FetchCompensations(w)
  <2>1. Sound
    BY <1>0, <1>1, Still DEF FetchCompensations, RestOK
  <2> DEFINE pending == {i \in 1..nComps : i <= CompLimit /\ compStatus[i] = "PENDING"}
  <2>2. pending \in SUBSET RowIds
    BY <1>0, WorkflowAssumption DEF RestOK
  <2>3. TaskOK("nextCompensation", [ctx[w] EXCEPT !.todo = pending])
    BY <1>0, <1>l, <2>2, ContextWithComps, FreeLabel
  <2> QED
    BY <1>1, <2>1, <2>3, QuietStep DEF FetchCompensations
<1>2. CASE NextCompensation(w)
  <2>1. Sound
    BY <1>0, <1>2, Still DEF NextCompensation, RestOK
  <2>2. ASSUME NEW i \in ctx[w].todo,
               Go(w, "compStartedEvent",
                  [ctx[w] EXCEPT !.comp = i, !.todo = ctx[w].todo \ {i}])
        PROVE  WorkflowInv'
    <3>1. i \in Nat /\ ctx[w].todo \ {i} \in SUBSET RowIds
      BY <1>0, WorkflowAssumption DEF Context
    <3>2. TaskOK("compStartedEvent",
                 [ctx[w] EXCEPT !.comp = i, !.todo = ctx[w].todo \ {i}])
      BY <1>0, <1>l, <3>1, ContextWithComps, FreeLabel
    <3> QED
      BY <2>1, <2>2, <3>2, QuietStep
  <2>3. CASE Goto(w, "saveCompensated")
    BY <1>l, <2>1, <2>3, FreeStep
  <2> QED
    BY <1>2, <2>2, <2>3 DEF NextCompensation
<1>3. CASE MarkCompensating(w) \/ MarkCompensated(w) \/ MarkCompFailed(w)
  <2>1. Sound
    BY <1>0, <1>3, Still
    DEF MarkCompensating, MarkCompensated, MarkCompFailed, SaveComp, RestOK, CompStatus
  <2>2. \/ Goto(w, "callHandler") \/ Goto(w, "compDoneEvent")
        \/ Goto(w, "compFailedEvent")
    BY <1>3 DEF MarkCompensating, MarkCompensated, MarkCompFailed, SaveComp
  <2> QED
    BY <1>l, <2>1, <2>2, FreeStep
<1>4. CASE CallHandler(w)
  <2>1. handlerRuns' \in [RowIds -> Nat]
    <3>1. handlerRuns \in [RowIds -> Nat]
      BY <1>0 DEF RestOK
    <3>2. PICK c : c = ctx[w].comp
      OBVIOUS
    <3>3. \/ handlerRuns' = handlerRuns
          \/ handlerRuns' = [handlerRuns EXCEPT ![c] = @ + 1]
      BY <1>4, <3>2, Zenon DEF CallHandler
    <3>4. [handlerRuns EXCEPT ![c] = @ + 1] \in [RowIds -> Nat]
      <4>1. CASE c \in RowIds
        <5>1. handlerRuns[c] + 1 \in Nat
          BY <3>1, <4>1
        <5> QED
          BY <3>1, <5>1, Zenon
      <4>2. CASE c \notin RowIds
        BY <3>1, <4>2
      <4> QED
        BY <4>1, <4>2
    <3> QED
      BY <3>1, <3>3, <3>4
  <2>2. RestOK'
    BY <1>0, <1>4, <2>1 DEF CallHandler, RestOK
  <2>3. Sound
    BY <1>4, <2>2, Still DEF CallHandler
  <2>4. Goto(w, "handlerRunning") \/ Goto(w, "markCompensated")
    BY <1>4 DEF CallHandler
  <2> QED
    BY <1>l, <2>3, <2>4, FreeStep
<1>5. CASE HandlerEnds(w)
  <2>1. Sound
    BY <1>0, <1>5, Still DEF HandlerEnds, RestOK
  <2>2. Goto(w, "markCompensated") \/ Goto(w, "markCompFailed")
    BY <1>5 DEF HandlerEnds
  <2> QED
    BY <1>l, <2>1, <2>2, FreeStep
<1> QED
  BY <1>1, <1>2, <1>3, <1>4, <1>5

\* Reading a sequence number, recording an event and losing a number's race.
LEMMA EventSteps ==
    ASSUME WorkflowInv, NEW w \in Tasks,
           ReadSequence(w) \/ RecordEvent(w) \/ EventCollides(w)
    PROVE  WorkflowInv'
<1> USE DEF dbVars, rowVars, compVars, worldVars, boundVars
<1>0. RestOK /\ ctx[w] \in Context /\ TaskOK(pc[w], ctx[w])
  BY TypeParts, TaskIsOK DEF WorkflowInv
<1>l. {"begin", "saveCancelled", "failedEvent", "saveCompensating",
       "markCompensating", "nextCompensation"}
        \subseteq Labels \ (ActivityLabels \cup {"succeed"})
  BY DEF Labels, UnguardedLabels, CompLabels, ActivityLabels, RowLabels, AttemptLabels
<1>1. CASE ReadSequence(w)
  <2>1. RestOK'
    BY <1>0, <1>1 DEF ReadSequence, RestOK
  <2>2. Sound
    BY <1>1, <2>1, Still DEF ReadSequence
  <2>3. Go(w, pc[w], ctx[w])
    BY <1>1 DEF ReadSequence, Go, WorkflowInv, TypeOK
  <2> QED
    BY <1>0, <2>2, <2>3, QuietStep
<1>2. CASE EventCollides(w)
  <2>1. RestOK'
    BY <1>0, <1>2 DEF EventCollides, RestOK
  <2>2. Sound
    BY <1>2, <2>1, Still DEF EventCollides
  <2> QED
    BY <1>2, <2>2, LeaveStep DEF EventCollides
<1>3. CASE RecordEvent(w)
  <2>1. replayed' \in WorkflowStatus
    BY <1>0, <1>3 DEF RecordEvent, Replay, RestOK, WorkflowStatus
  <2>2. seq' \in [Tasks -> {"none", "fresh", "stale"}]
    BY <1>0, <1>3 DEF RecordEvent, RestOK
  <2>3. RestOK'
    BY <1>0, <1>3, <2>1, <2>2 DEF RecordEvent, RestOK
  <2>4. Sound
    BY <1>3, <2>3, Still DEF RecordEvent
  <2>5. CASE pc[w] = "stepStartedEvent" /\ Goto(w, "activity")
    <3>1. TaskOK("activity", ctx[w])
      BY <1>0, <2>5, SameActivity DEF RowLabels, AttemptLabels
    <3> QED
      BY <2>4, <2>5, <3>1, QuietStep DEF Goto
  <2>6. CASE pc[w] = "stepCompletedEvent" /\ NextStep(w)
    <3>1. pc[w] \in ActivityLabels /\ pc[w] \in RowLabels
      BY <2>6 DEF ActivityLabels, RowLabels, AttemptLabels
    <3>2. ctx[w].row \in returned /\ rowStep[ctx[w].row] = ctx[w].step
      BY <2>6, <3>1, ActivityFacts DEF WorkflowInv, TaskProgress
    <3>3. Done(ctx[w].step)
      BY <3>2 DEF Done
    <3> QED
      BY <2>4, <2>6, <3>1, <3>3, NextStepOK
  <2>7. CASE \/ Goto(w, "begin") \/ Goto(w, "saveCancelled") \/ Goto(w, "failedEvent")
             \/ Goto(w, "saveCompensating") \/ Goto(w, "markCompensating")
             \/ Goto(w, "nextCompensation")
    BY <1>l, <2>4, <2>7, FreeStep
  <2>8. CASE Leave(w)
    BY <2>4, <2>8, LeaveStep
  <2> QED
    BY <1>3, <2>5, <2>6, <2>7, <2>8 DEF RecordEvent, AfterEvent
<1> QED
  BY <1>1, <1>2, <1>3

\* Calls that raise, cancelled tasks and processes that die.
LEMMA FailureSteps ==
    ASSUME WorkflowInv, NEW w \in Tasks,
           CallRaises(w) \/ TaskCancelled(w) \/ Crash(w)
    PROVE  WorkflowInv'
<1> USE DEF dbVars, rowVars, compVars, worldVars, boundVars
<1>0. RestOK /\ ctx[w] \in Context
  BY TypeParts DEF WorkflowInv
<1>l. {"failedEvent", "markCompFailed", "saveCancelled"}
        \subseteq Labels \ (ActivityLabels \cup {"succeed"})
  BY DEF Labels, UnguardedLabels, ActivityLabels, RowLabels, AttemptLabels
<1>1. RestOK'
  BY <1>0 DEF CallRaises, TaskCancelled, Crash, RestOK
<1>2. Sound
  BY <1>1, Still DEF CallRaises, TaskCancelled, Crash
<1>3. CASE Crash(w)
  BY <1>2, <1>3, LeaveStep DEF Crash
<1>4. CASE TaskCancelled(w)
  <2>1. CASE /\ pc[w] \in AttemptLabels
             /\ Go(w, "failStep", [ctx[w] EXCEPT !.err = "cancelled"])
    <3>1. TaskOK("failStep", [ctx[w] EXCEPT !.err = "cancelled"])
      BY <1>0, <2>1, ContextWithError, SameActivity DEF RowLabels
    <3> QED
      BY <1>2, <2>1, <3>1, QuietStep
  <2>2. CASE Goto(w, "saveCancelled")
    BY <1>l, <1>2, <2>2, FreeStep
  <2> QED
    BY <1>4, <2>1, <2>2 DEF TaskCancelled
<1>5. CASE CallRaises(w)
  <2>1. CASE pc[w] \in AttemptLabels /\ RetryOrFail(w)
    BY <1>2, <2>1, RetryStep
  <2>2. CASE Goto(w, "failedEvent") \/ Goto(w, "markCompFailed")
    BY <1>l, <1>2, <2>2, FreeStep
  <2>3. CASE Leave(w)
    BY <1>2, <2>3, LeaveStep
  <2>4. CASE /\ pc[w] = "register"
             /\ Go(w, "failedEvent",
                   [ctx[w] EXCEPT !.handlers = ctx[w].handlers \cup {ctx[w].step}])
    <3>1. pc[w] \in ActivityLabels
      BY <2>4 DEF ActivityLabels, RowLabels
    <3>2. ctx[w].step \in Steps
      BY <3>1, ActivityFacts
    <3>3. ctx[w].handlers \cup {ctx[w].step} \in SUBSET Steps
      BY <1>0, <3>2 DEF Context
    <3>4. [ctx[w] EXCEPT !.handlers = ctx[w].handlers \cup {ctx[w].step}] \in Context
      BY <1>0, <3>3, ContextWithHandler
    <3>5. TaskOK("failedEvent",
                 [ctx[w] EXCEPT !.handlers = ctx[w].handlers \cup {ctx[w].step}])
      BY <1>l, <3>4, FreeLabel
    <3> QED
      BY <1>2, <2>4, <3>5, QuietStep
  <2> QED
    BY <1>5, <2>1, <2>2, <2>3, <2>4 DEF CallRaises
<1> QED
  BY <1>3, <1>4, <1>5

\* An entry the cache drops is only looked up again.
LEMMA ExpiryStep ==
    ASSUME WorkflowInv, CacheExpires
    PROVE  WorkflowInv'
<1> USE DEF dbVars, rowVars, compVars, worldVars, boundVars
<1>1. \A s : Done(s)' <=> Done(s)
  BY DEF CacheExpires, Done
<1>2. TypeOK' /\ cache' \subseteq cache
  BY DEF CacheExpires, WorkflowInv, TypeOK
<1>3. RowHistory' /\ EffectIsCompensable'
  BY DEF CacheExpires, WorkflowInv, RowHistory, EffectIsCompensable
<1>4. \A v \in Tasks : TaskRow(pc[v], ctx[v])' /\ TaskProgress(pc[v], ctx[v])'
  BY <1>1 DEF CacheExpires, WorkflowInv, TaskRow, TaskProgress, HasRecord
<1> QED
  BY <1>1, <1>2, <1>3, <1>4 DEF CacheExpires, WorkflowInv, CompletedMeansDone

\* A step that changes nothing keeps the invariant.
LEMMA StutterStep ==
    ASSUME WorkflowInv, UNCHANGED vars
    PROVE  WorkflowInv'
<1> USE DEF vars, dbVars, rowVars, compVars, worldVars, boundVars
<1>1. \A s : Done(s)' <=> Done(s)
  BY DEF Done
<1>2. \A v \in Tasks : TaskRow(pc[v], ctx[v])' /\ TaskProgress(pc[v], ctx[v])'
  BY <1>1 DEF WorkflowInv, TaskRow, TaskProgress, HasRecord
<1> QED
  BY <1>1, <1>2
  DEF WorkflowInv, TypeOK, RowHistory, EffectIsCompensable, CompletedMeansDone

-----------------------------------------------------------------------------
(* The theorems.                                                           *)

\* The inductive invariant holds in every state the executor can reach.
THEOREM WorkflowInvariant == Spec => []WorkflowInv
<1>1. Init => WorkflowInv
  <2>1. ASSUME Init PROVE TypeOK
    <3>1. \A w \in Tasks : NoContext \in Context
      BY NoContextType
    <3> QED
      BY <2>1, <3>1, WorkflowAssumption
      DEF Init, TypeOK, WorkflowStatus, StepStatus, CompStatus, Labels
  <2>2. ASSUME Init, NEW w \in Tasks
        PROVE  TaskRow(pc[w], ctx[w]) /\ TaskProgress(pc[w], ctx[w])
    BY <2>2
    DEF Init, TaskRow, TaskProgress, RowLabels, ActivityLabels, AttemptLabels
  <2> QED
    BY <2>1, <2>2
    DEF Init, WorkflowInv, RowHistory, EffectIsCompensable, CompletedMeansDone
<1>2. WorkflowInv /\ [Next]_vars => WorkflowInv'
  <2> SUFFICES ASSUME WorkflowInv, [Next]_vars PROVE WorkflowInv'
    OBVIOUS
  <2>1. ASSUME NEW w \in Tasks, Progress(w)
        PROVE  WorkflowInv'
    BY <2>1, RequestSteps, LookupSteps, InsertRowStep, RegisterStep, AttemptSteps,
       EffectStep, ReturnStep, FinishSteps, CompensationSteps, EventSteps
    DEF Progress
  <2>2. ASSUME NEW w \in Tasks,
               StartWorkflow(w) \/ ResumeWorkflow(w) \/ CancelWorkflow(w)
        PROVE  WorkflowInv'
    BY <2>2, RequestSteps
  <2>3. ASSUME NEW w \in Tasks,
               TaskCancelled(w) \/ CallRaises(w) \/ Crash(w)
        PROVE  WorkflowInv'
    BY <2>3, FailureSteps
  <2>4. CASE CacheExpires
    BY <2>4, ExpiryStep
  <2>5. CASE UNCHANGED vars
    BY <2>5, StutterStep
  <2> QED
    BY <2>1, <2>2, <2>3, <2>4, <2>5 DEF Next
<1> QED
  BY <1>1, <1>2, PTL DEF Spec

\* The tables, the cache and every task's local state keep their types.
THEOREM WorkflowTypeCorrect == Spec => []TypeOK
<1>1. WorkflowInv => TypeOK
  BY DEF WorkflowInv
<1> QED
  BY <1>1, WorkflowInvariant, PTL

\* register_compensation precedes the activity: an effect of a compensable
\* activity always has a durable compensation record, whatever crashes,
\* raises, times out, is cancelled or runs at the same time.
THEOREM EffectsAreCompensable == Spec => []EffectIsCompensable
<1>1. WorkflowInv => EffectIsCompensable
  BY DEF WorkflowInv
<1> QED
  BY <1>1, WorkflowInvariant, PTL

\* A workflow is reported COMPLETED only if every activity returned a result,
\* however many runs, cached results and re-read rows it took.
THEOREM CompletionIsEarned == Spec => []CompletedMeansDone
<1>1. WorkflowInv => CompletedMeansDone
  BY DEF WorkflowInv
<1> QED
  BY <1>1, WorkflowInvariant, PTL

-----------------------------------------------------------------------------
(* What the events tell.                                                   *)

\* WORKFLOW_COMPLETED is recorded, and COMPLETED replayed, on the same grounds
\* as the status is saved; between the save and the event the task may wait.
Replaying ==
    /\ ReplayIsEarned
    /\ \A w \in Tasks : pc[w] = "completedEvent" => \A s \in Steps : Done(s)

\* Rows, compensation records and results are never taken back.
LEMMA AlwaysGrows ==
    ASSUME WorkflowInv, [Next]_vars
    PROVE  Grows
<1> USE DEF dbVars, rowVars, compVars, worldVars, boundVars
<1>0. /\ nRows \in Nat /\ nComps \in Nat /\ nRows <= MaxRows /\ nComps <= MaxRows
      /\ rowStep \in [RowIds -> Nat] /\ compRow \in [RowIds -> Nat]
  BY WorkflowAssumption DEF WorkflowInv, TypeOK
<1>1. CASE UNCHANGED <<nRows, rowStep, nComps, compRow, returned>>
  BY <1>0, <1>1 DEF Grows
<1>2. ASSUME NEW w \in Tasks, InsertRow(w)
      PROVE  Grows
  BY <1>0, <1>2 DEF Grows, InsertRow
<1>3. ASSUME NEW w \in Tasks, RegisterCompensation(w)
      PROVE  Grows
  BY <1>0, <1>3 DEF Grows, RegisterCompensation
<1>4. ASSUME NEW w \in Tasks, ActivityReturns(w)
      PROVE  Grows
  BY <1>0, <1>4 DEF Grows, ActivityReturns
<1>5. ASSUME NEW w \in Tasks,
             \/ StartWorkflow(w) \/ ResumeWorkflow(w) \/ CancelWorkflow(w)
             \/ TaskCancelled(w) \/ CallRaises(w) \/ Crash(w)
             \/ InsertWorkflow(w) \/ Begin(w) \/ CancelSave(w)
             \/ LookupCache(w) \/ LookupRow(w) \/ RefillCache(w)
             \/ CheckCancelled(w) \/ RecheckCancelled(w)
      PROVE  Grows
  BY <1>1, <1>5, Zenon
  DEF StartWorkflow, ResumeWorkflow, CancelWorkflow, TaskCancelled, CallRaises, Crash,
      InsertWorkflow, Begin, CancelSave, SaveStatus, LookupCache, LookupRow, RefillCache,
      CheckCancelled, RecheckCancelled, StopIfCancelled
<1>6. ASSUME NEW w \in Tasks,
             \/ MarkExecuting(w) \/ CompleteStep(w) \/ FailStep(w)
             \/ ActivityTakesEffect(w) \/ ActivityFails(w) \/ CacheResult(w)
             \/ Succeed(w) \/ SaveCancelled(w) \/ SaveFailed(w)
             \/ SaveCompensating(w) \/ SaveCompensated(w)
             \/ InvalidateCache(w) \/ FetchCompensations(w) \/ NextCompensation(w)
      PROVE  Grows
  BY <1>1, <1>6, Zenon
  DEF MarkExecuting, CompleteStep, FailStep, SaveRow, ActivityTakesEffect, ActivityFails,
      CacheResult, Succeed, SaveCancelled, SaveFailed, SaveCompensating, SaveCompensated,
      SaveStatus, InvalidateCache, FetchCompensations, NextCompensation
<1>7. ASSUME NEW w \in Tasks,
             \/ MarkCompensating(w) \/ MarkCompensated(w) \/ MarkCompFailed(w)
             \/ CallHandler(w) \/ HandlerEnds(w)
             \/ ReadSequence(w) \/ RecordEvent(w) \/ EventCollides(w)
      PROVE  Grows
  BY <1>1, <1>7, Zenon
  DEF MarkCompensating, MarkCompensated, MarkCompFailed, SaveComp, CallHandler,
      HandlerEnds, ReadSequence, RecordEvent, EventCollides
<1>8. CASE CacheExpires \/ UNCHANGED vars
  BY <1>1, <1>8, Zenon DEF CacheExpires, vars
<1> QED
  BY <1>2, <1>3, <1>4, <1>5, <1>6, <1>7, <1>8, Zenon DEF Next, Progress

\* A task's move to any place but the completion event.
LEMMA NotToEvent ==
    ASSUME WorkflowInv, WorkflowInv', Replaying, Grows, replayed' = replayed,
           NEW w \in Tasks, NEW label, NEW c, Go(w, label, c),
           label # "completedEvent" \/ pc[w] = "completedEvent"
    PROVE  Replaying'
<1>1. \A s : Done(s) => Done(s)'
  BY DoneGrows DEF WorkflowInv
<1>2. ASSUME NEW v \in Tasks, pc'[v] = "completedEvent"
      PROVE  pc[v] = "completedEvent"
  BY <1>2 DEF Go, WorkflowInv, TypeOK
<1>3. ReplayIsEarned'
  BY <1>1 DEF Replaying, ReplayIsEarned
<1>4. \A v \in Tasks : pc'[v] = "completedEvent" => \A s \in Steps : Done(s)'
  BY <1>1, <1>2 DEF Replaying
<1> QED
  BY <1>3, <1>4 DEF Replaying

\* Every step keeps the events earned.
LEMMA ReplayStep ==
    ASSUME WorkflowInv, WorkflowInv', Replaying, [Next]_vars
    PROVE  Replaying'
<1> USE DEF dbVars, rowVars, compVars, worldVars, boundVars
<1>0. Grows /\ \A s : Done(s) => Done(s)'
  BY AlwaysGrows, DoneGrows DEF WorkflowInv
<1>1. CASE UNCHANGED <<pc, replayed>>
  BY <1>0, <1>1 DEF Replaying, ReplayIsEarned
<1>2. ASSUME NEW w \in Tasks, Succeed(w)
      PROVE  Replaying'
  <2>1. \A s \in Steps : Done(s)
    BY <1>2 DEF Succeed, SaveStatus, WorkflowInv, TaskProgress
  <2> QED
    BY <1>0, <2>1 DEF Replaying, ReplayIsEarned
<1>3. ASSUME NEW w \in Tasks, RecordEvent(w)
      PROVE  Replaying'
  <2>1. replayed' = "COMPLETED" => replayed = "COMPLETED" \/ pc[w] = "completedEvent"
    BY <1>3 DEF RecordEvent, Replay
  <2>2. ReplayIsEarned'
    BY <1>0, <2>1 DEF Replaying, ReplayIsEarned
  <2>3. ASSUME NEW v \in Tasks, pc'[v] = "completedEvent"
        PROVE  pc[v] = "completedEvent"
    BY <1>3, <2>3
    DEF RecordEvent, AfterEvent, Go, Goto, Leave, NextStep, WorkflowInv, TypeOK
  <2> QED
    BY <1>0, <2>2, <2>3 DEF Replaying
<1>4. ASSUME NEW w \in Tasks,
             \/ StartWorkflow(w) \/ ResumeWorkflow(w) \/ CancelWorkflow(w)
             \/ TaskCancelled(w) \/ CallRaises(w) \/ Crash(w)
             \/ InsertWorkflow(w) \/ Begin(w) \/ CancelSave(w)
      PROVE  Replaying'
  <2>1. replayed' = replayed
    BY <1>4, Zenon
    DEF StartWorkflow, ResumeWorkflow, CancelWorkflow, TaskCancelled, CallRaises, Crash,
        InsertWorkflow, Begin, CancelSave, SaveStatus
  <2>2. \E label \in Labels \ {"completedEvent"} : \E c : Go(w, label, c)
    BY <1>4
    DEF StartWorkflow, ResumeWorkflow, CancelWorkflow, TaskCancelled, CallRaises, Crash,
        InsertWorkflow, Begin, CancelSave, SaveStatus, RetryOrFail, Goto, Leave,
        Labels, AttemptLabels, WorkflowLabels, UnguardedLabels
  <2> QED
    BY <1>0, <2>1, <2>2, NotToEvent
<1>5. ASSUME NEW w \in Tasks,
             \/ LookupCache(w) \/ LookupRow(w) \/ RefillCache(w)
             \/ InsertRow(w) \/ RegisterCompensation(w)
             \/ CheckCancelled(w) \/ RecheckCancelled(w)
             \/ MarkExecuting(w) \/ CompleteStep(w) \/ FailStep(w)
             \/ ActivityReturns(w) \/ ActivityFails(w) \/ CacheResult(w)
      PROVE  Replaying'
  <2>1. replayed' = replayed
    BY <1>5, Zenon
    DEF LookupCache, LookupRow, RefillCache, InsertRow, RegisterCompensation,
        CheckCancelled, RecheckCancelled, StopIfCancelled, MarkExecuting, CompleteStep,
        FailStep, SaveRow, ActivityReturns, ActivityFails, CacheResult
  <2>2. \E label \in Labels \ {"completedEvent"} : \E c : Go(w, label, c)
    BY <1>5
    DEF LookupCache, LookupRow, RefillCache, InsertRow, RegisterCompensation,
        CheckCancelled, RecheckCancelled, StopIfCancelled, MarkExecuting, CompleteStep,
        FailStep, SaveRow, ActivityReturns, ActivityFails, CacheResult, RetryOrFail,
        NextStep, Goto, Labels, AttemptLabels, WorkflowLabels
  <2> QED
    BY <1>0, <2>1, <2>2, NotToEvent
<1>6. ASSUME NEW w \in Tasks,
             \/ SaveCancelled(w) \/ SaveFailed(w)
             \/ SaveCompensating(w) \/ SaveCompensated(w)
             \/ InvalidateCache(w) \/ FetchCompensations(w) \/ NextCompensation(w)
             \/ MarkCompensating(w) \/ MarkCompensated(w) \/ MarkCompFailed(w)
             \/ CallHandler(w) \/ HandlerEnds(w) \/ EventCollides(w)
      PROVE  Replaying'
  <2>1. replayed' = replayed
    BY <1>6, Zenon
    DEF SaveCancelled, SaveFailed, SaveCompensating, SaveCompensated, SaveStatus,
        InvalidateCache, FetchCompensations, NextCompensation, MarkCompensating,
        MarkCompensated, MarkCompFailed, SaveComp, CallHandler, HandlerEnds, EventCollides
  <2>2. \E label \in Labels \ {"completedEvent"} : \E c : Go(w, label, c)
    BY <1>6
    DEF SaveCancelled, SaveFailed, SaveCompensating, SaveCompensated, SaveStatus,
        InvalidateCache, FetchCompensations, NextCompensation, MarkCompensating,
        MarkCompensated, MarkCompFailed, SaveComp, CallHandler, HandlerEnds,
        EventCollides, Goto, Leave, Labels, CompLabels, UnguardedLabels
  <2> QED
    BY <1>0, <2>1, <2>2, NotToEvent
<1>7. ASSUME NEW w \in Tasks, ActivityTakesEffect(w) \/ ReadSequence(w)
      PROVE  Replaying'
  BY <1>1, <1>7, Zenon DEF ActivityTakesEffect, ReadSequence
<1>8. CASE CacheExpires \/ UNCHANGED vars
  BY <1>1, <1>8, Zenon DEF CacheExpires, vars
<1> QED
  BY <1>2, <1>3, <1>4, <1>5, <1>6, <1>7, <1>8, Zenon DEF Next, Progress

\* ReplayEngine reconstructs COMPLETED only when every activity returned a
\* result, whichever events collide, are lost to faults or come from other runs.
THEOREM ReplayedCompletionIsEarned == Spec => []ReplayIsEarned
<1>1. Init => Replaying
  BY DEF Init, Replaying, ReplayIsEarned
<1>2. WorkflowInv /\ WorkflowInv' /\ Replaying /\ [Next]_vars => Replaying'
  BY ReplayStep
<1>3. Replaying => ReplayIsEarned
  BY DEF Replaying
<1> QED
  BY <1>1, <1>2, <1>3, WorkflowInvariant, PTL DEF Spec

-----------------------------------------------------------------------------
(* Compensation in runs that do not overlap: the inductive invariant.      *)

\* Labels before execute_workflow saves RUNNING, of _run_compensations' loop
\* and of the loop's body; labels outside execute_workflow.
PreRun  == {"insert", "startedEvent", "begin"}
InBody  == CompLabels \cup {"markCompFailed", "compFailedEvent"}
InLoop  == InBody \cup {"nextCompensation"}
Outside == {"idle", "cancelSave", "cancelledEvent"}

Pending(c) == compStatus[c] = "PENDING"

\* The loop has every compensation left to try in its list, youngest last,
\* except the one in hand, which may be PENDING until its status is saved.
LoopOK(label, c) ==
    /\ label \in InLoop =>
         /\ \A d \in c.todo : d \in 1..nComps /\ Pending(d)
         /\ \A d \in Reachable : Pending(d) =>
              \/ d \in c.todo
              \/ d = c.comp /\ label \in {"compStartedEvent", "markCompensating",
                                          "markCompFailed"}
    /\ label \in InBody => c.comp \in 1..nComps /\ \A d \in c.todo : d < c.comp
    /\ label \in {"compStartedEvent", "markCompensating"} => Pending(c.comp)
    /\ label = "callHandler" => ~Pending(c.comp) /\ handlerRuns[c.comp] = 0
    /\ label \in {"saveCompensated", "saveFailed"} => \A d \in Reachable : ~Pending(d)

\* In the only run so far every compensation has its handler in memory.
FirstRunOK(label, c) ==
    runs = 1 =>
      /\ label \in PreRun => nComps = 0
      /\ label \notin PreRun \cup Outside =>
            \A d \in 1..nComps : rowStep[compRow[d]] \in c.handlers
      /\ label \in {"handlerRunning", "markCompensated"} => handlerRuns[c.comp] > 0

\* FAILED is the last thing a run saves: none is under way but one that has
\* not saved RUNNING yet.
FailedOK(label) == status = "FAILED" => label \in Outside \cup {"insert", "begin"}

\* A handler was started only for a record no longer PENDING.
Handled ==
    \A c \in RowIds : handlerRuns[c] > 0 => c <= nComps /\ ~Pending(c)

SerialInv ==
    /\ \A v, w \in Tasks : Executing(v) /\ Executing(w) => v = w
    /\ runs = 0 => nComps = 0 /\ \A w \in Tasks : ~Executing(w)
    /\ \A c \in 1..nComps : compRow[c] \in 1..nRows
    /\ \A w \in Tasks : /\ LoopOK(pc[w], ctx[w])
                        /\ FirstRunOK(pc[w], ctx[w])
                        /\ FailedOK(pc[w])
    /\ Handled
    /\ UndoneAsRecorded
    /\ FailedLeavesNothingPending

\* The step leaves compensations, handlers and runs alone.
Settled ==
    /\ UNCHANGED <<nComps, compRow, compStatus, handlerRuns, runs>>
    /\ nRows' \in Nat /\ nRows <= nRows'
    /\ \A i \in 1..nRows : rowStep'[i] = rowStep[i]

\* Labels of a run between its start and the compensation of its steps.
Plain == Labels \ (PreRun \cup InLoop \cup Outside \cup {"saveCompensated", "saveFailed"})

\* A task outside execute_workflow claims nothing.
LEMMA OutsideOK ==
    ASSUME NEW label \in Outside, NEW c
    PROVE  /\ LoopOK(label, c) /\ FirstRunOK(label, c)
           /\ LoopOK(label, c)' /\ FirstRunOK(label, c)' /\ FailedOK(label)'
BY DEF Outside, LoopOK, FirstRunOK, FailedOK, InLoop, InBody, CompLabels, PreRun

\* The tables' types, in short.
LEMMA CompTypes ==
    ASSUME WorkflowInv
    PROVE  /\ nRows \in Nat /\ nComps \in Nat /\ nRows <= MaxRows /\ nComps <= MaxRows
           /\ MaxRows \in Nat /\ CompLimit \in Nat /\ runs \in Nat
           /\ compStatus \in [RowIds -> CompStatus] /\ compRow \in [RowIds -> Nat]
           /\ rowStep \in [RowIds -> Nat] /\ handlerRuns \in [RowIds -> Nat]
           /\ pc \in [Tasks -> Labels] /\ ctx \in [Tasks -> Context]
BY WorkflowAssumption DEF WorkflowInv, TypeOK

\* Labels of a task that runs execute_workflow are those not outside.
LEMMA ExecutingIs ==
    ASSUME NEW w \in Tasks
    PROVE  /\ Executing(w) <=> pc[w] \notin Outside
           /\ Executing(w)' <=> pc'[w] \notin Outside
BY DEF Executing, Outside

\* What is claimed of a task survives a step that leaves its subjects alone.
LEMMA SettledKeeps ==
    ASSUME WorkflowInv, SerialInv, Settled, NEW label, NEW c
    PROVE  /\ LoopOK(label, c) => LoopOK(label, c)'
           /\ FirstRunOK(label, c) => FirstRunOK(label, c)'
<1>1. LoopOK(label, c) => LoopOK(label, c)'
  BY DEF Settled, LoopOK, Reachable, Pending
<1>2. FirstRunOK(label, c) => FirstRunOK(label, c)'
  BY DEF Settled, FirstRunOK, SerialInv
<1> QED
  BY <1>1, <1>2

\* The same for what is claimed of the tables.
LEMMA SettledTables ==
    ASSUME WorkflowInv, SerialInv, Settled
    PROVE  /\ \A c \in 1..nComps' : compRow'[c] \in 1..nRows'
           /\ Handled' /\ UndoneAsRecorded'
           /\ (status' = "FAILED" => status = "FAILED") => FailedLeavesNothingPending'
<1>1. \A c \in 1..nComps' : compRow'[c] \in 1..nRows'
  BY CompTypes DEF Settled, SerialInv
<1>2. Handled' /\ UndoneAsRecorded'
  BY DEF Settled, SerialInv, Handled, UndoneAsRecorded, Pending
<1>3. (\A c \in Reachable : compStatus[c] # "PENDING") =>
        \A c \in Reachable' : compStatus'[c] # "PENDING"
  BY DEF Settled, Reachable
<1> QED
  BY <1>1, <1>2, <1>3 DEF FailedLeavesNothingPending, SerialInv

\* A settled step of a task, to a place where it may be.
LEMMA SettledStep ==
    ASSUME WorkflowInv, SerialInv, Settled, NEW w \in Tasks, NEW label, NEW c,
           Go(w, label, c), label \in Outside \/ pc[w] \notin Outside,
           LoopOK(label, c), FirstRunOK(label, c),
           status' = "FAILED" => /\ status = "FAILED"
                                 /\ label \in Outside \cup {"insert", "begin"}
    PROVE  SerialInv'
<1>1. /\ pc'[w] = label /\ ctx'[w] = c
      /\ \A v \in Tasks : v # w => pc'[v] = pc[v] /\ ctx'[v] = ctx[v]
  BY CompTypes DEF Go
<1>2. \A v \in Tasks : Executing(v)' => Executing(v)
  BY <1>1, ExecutingIs
<1>3. /\ \A u, v \in Tasks : Executing(u)' /\ Executing(v)' => u = v
      /\ runs' = 0 => nComps' = 0 /\ \A v \in Tasks : ~Executing(v)'
  BY <1>2 DEF SerialInv, Settled
<1>4. ASSUME NEW v \in Tasks
      PROVE  LoopOK(pc[v], ctx[v])' /\ FirstRunOK(pc[v], ctx[v])' /\ FailedOK(pc[v])'
  <2>1. CASE v = w
    <3>1. LoopOK(label, c)' /\ FirstRunOK(label, c)'
      BY SettledKeeps
    <3> QED
      BY <1>1, <2>1, <3>1 DEF LoopOK, FirstRunOK, FailedOK
  <2>2. CASE v # w
    <3>1. \A l, d : l = pc[v] /\ d = ctx[v] => LoopOK(l, d)' /\ FirstRunOK(l, d)'
      BY SettledKeeps DEF SerialInv
    <3>2. FailedOK(pc[v])
      BY DEF SerialInv
    <3> QED
      BY <1>1, <2>2, <3>1, <3>2 DEF LoopOK, FirstRunOK, FailedOK
  <2> QED
    BY <2>1, <2>2
<1>5. FailedLeavesNothingPending'
  BY SettledTables DEF SerialInv
<1> QED
  BY <1>3, <1>4, <1>5, SettledTables DEF SerialInv

\* A settled step that moves no task.
LEMMA RestingStep ==
    ASSUME WorkflowInv, SerialInv, Settled, UNCHANGED <<pc, ctx, status>>
    PROVE  SerialInv'
<1>1. ASSUME NEW v \in Tasks
      PROVE  LoopOK(pc[v], ctx[v])' /\ FirstRunOK(pc[v], ctx[v])' /\ FailedOK(pc[v])'
  <2>1. \A l, d : l = pc[v] /\ d = ctx[v] => LoopOK(l, d)' /\ FirstRunOK(l, d)'
    BY SettledKeeps DEF SerialInv
  <2>2. FailedOK(pc[v])
    BY DEF SerialInv
  <2> QED
    BY <2>1, <2>2 DEF LoopOK, FirstRunOK, FailedOK
<1>2. /\ \A u, v \in Tasks : Executing(u)' /\ Executing(v)' => u = v
      /\ runs' = 0 => nComps' = 0 /\ \A v \in Tasks : ~Executing(v)'
  BY DEF SerialInv, Settled, Executing
<1>3. FailedLeavesNothingPending'
  BY SettledTables DEF SerialInv
<1> QED
  BY <1>1, <1>2, <1>3, SettledTables DEF SerialInv

\* A task that executes is the only one: it may change what others claim.
LEMMA SoleStep ==
    ASSUME WorkflowInv, SerialInv, NEW w \in Tasks, NEW label, NEW c,
           pc[w] \notin Outside, Go(w, label, c), runs' = runs,
           LoopOK(label, c)', FirstRunOK(label, c)', FailedOK(label)',
           \A d \in 1..nComps' : compRow'[d] \in 1..nRows',
           Handled', UndoneAsRecorded', FailedLeavesNothingPending'
    PROVE  SerialInv'
<1>1. /\ pc'[w] = label /\ ctx'[w] = c
      /\ \A v \in Tasks : v # w => pc'[v] = pc[v] /\ ctx'[v] = ctx[v]
  BY CompTypes DEF Go
<1>2. \A v \in Tasks : v # w => pc'[v] \in Outside
  BY <1>1, ExecutingIs DEF SerialInv
<1>3. \A u, v \in Tasks : Executing(u)' /\ Executing(v)' => u = v
  BY <1>2, ExecutingIs
<1>4. runs' # 0
  BY ExecutingIs DEF SerialInv
<1>5. ASSUME NEW v \in Tasks
      PROVE  LoopOK(pc[v], ctx[v])' /\ FirstRunOK(pc[v], ctx[v])' /\ FailedOK(pc[v])'
  <2>1. CASE v = w
    BY <1>1, <2>1 DEF LoopOK, FirstRunOK, FailedOK
  <2>2. CASE v # w
    <3>1. \A l \in Outside : \A d : LoopOK(l, d)' /\ FirstRunOK(l, d)' /\ FailedOK(l)'
      BY OutsideOK
    <3> QED
      BY <1>2, <2>2, <3>1 DEF LoopOK, FirstRunOK, FailedOK
  <2> QED
    BY <2>1, <2>2
<1> QED
  BY <1>3, <1>4, <1>5 DEF SerialInv

\* A step that leaves rows, compensations, handlers and runs alone.
LEMMA SettledIs ==
    ASSUME WorkflowInv,
           UNCHANGED <<nRows, rowStep, nComps, compRow, compStatus, handlerRuns, runs>>
    PROVE  Settled
BY CompTypes DEF Settled

\* A task may always leave.
LEMMA LeaveSerial ==
    ASSUME WorkflowInv, SerialInv, Settled, NEW w \in Tasks, Leave(w),
           status' = status \/ status' # "FAILED"
    PROVE  SerialInv'
<1>1. LoopOK("idle", NoContext) /\ FirstRunOK("idle", NoContext) /\ "idle" \in Outside
  BY OutsideOK DEF Outside
<1> QED
  BY <1>1, SettledStep DEF Leave

\* A run goes on to its next activity, attempt or end with its handlers.
LEMMA PlainStep ==
    ASSUME WorkflowInv, SerialInv, Settled, NEW w \in Tasks, NEW label \in Plain,
           NEW c, Go(w, label, c), ctx[w].handlers \subseteq c.handlers,
           pc[w] \notin PreRun \cup Outside,
           status' = status \/ status' # "FAILED"
    PROVE  SerialInv'
<1>1. label \notin PreRun \cup InLoop \cup Outside \cup {"saveCompensated", "saveFailed"}
  BY DEF Plain
<1>2. LoopOK(label, c)
  BY <1>1 DEF LoopOK, InLoop, InBody, CompLabels
<1>3. FirstRunOK(label, c)
  <2>1. FirstRunOK(pc[w], ctx[w])
    BY DEF SerialInv
  <2>2. label \notin {"handlerRunning", "markCompensated"}
    BY <1>1 DEF InLoop, InBody, CompLabels
  <2> QED
    BY <1>1, <2>1, <2>2 DEF FirstRunOK
<1>4. status # "FAILED"
  BY DEF SerialInv, FailedOK, PreRun
<1> QED
  BY <1>2, <1>3, <1>4, SettledStep

\* Task w moves within the plain part of its run and keeps its handlers.
Goes(w) ==
    \E label \in Plain : \E c : Go(w, label, c) /\ ctx[w].handlers \subseteq c.handlers

\* The labels of the plain part.
LEMMA PlainIs ==
    {"lookupCache", "lookupRow", "refillCache", "insertRow", "register",
     "checkCancelled", "markExecuting", "stepStartedEvent", "activity",
     "recheckCancelled", "complete", "cacheResult", "stepCompletedEvent",
     "failStep", "stepFailedEvent", "succeed", "completedEvent", "failedEvent",
     "saveCancelled", "saveCompensating", "invalidateCache",
     "fetchCompensations"} \subseteq Plain
BY DEF Plain, Labels, AttemptLabels, WorkflowLabels, UnguardedLabels, PreRun, Outside,
   InLoop, InBody, CompLabels

\* The moves of the plain part.
LEMMA GoesPlain ==
    ASSUME WorkflowInv, NEW w \in Tasks
    PROVE  /\ \A label \in Plain : Goto(w, label) => Goes(w)
           /\ NextStep(w) => Goes(w)
           /\ RetryOrFail(w) => Goes(w)
           /\ \A e : Go(w, "failStep", [ctx[w] EXCEPT !.err = e]) => Goes(w)
           /\ \A label \in Plain : \A r :
                Go(w, label, [ctx[w] EXCEPT !.row = r, !.attempt = 1]) => Goes(w)
           /\ \A label \in Plain : \A s :
                Go(w, label, [ctx[w] EXCEPT !.handlers = ctx[w].handlers \cup {s}])
                  => Goes(w)
<1>0. ctx[w] \in Context
  BY CompTypes
<1>1. \A label \in Plain : Goto(w, label) => Goes(w)
  BY DEF Goto, Goes
<1>2. NextStep(w) => Goes(w)
  <2>. DEFINE c == [NoContext EXCEPT !.step = ctx[w].step + 1,
                                     !.handlers = ctx[w].handlers]
  <2>1. c.handlers = ctx[w].handlers
    BY DEF NoContext
  <2>2. NextStep(w) => Go(w, "succeed", c) \/ Go(w, "lookupCache", c)
    BY DEF NextStep
  <2>. HIDE DEF c
  <2>. QED BY <2>1, <2>2, PlainIs DEF Goes
<1>3. \A e : /\ [ctx[w] EXCEPT !.err = e].handlers = ctx[w].handlers
             /\ \A n : [ctx[w] EXCEPT !.err = e, !.attempt = n].handlers = ctx[w].handlers
             /\ \A n : [ctx[w] EXCEPT !.row = e, !.attempt = n].handlers = ctx[w].handlers
  BY <1>0 DEF Context
<1>4. \A e : Go(w, "failStep", [ctx[w] EXCEPT !.err = e]) => Goes(w)
  BY <1>3, PlainIs DEF Goes
<1>5. RetryOrFail(w) => Goes(w)
  BY <1>3, <1>4, PlainIs DEF RetryOrFail, Goes
<1>6. ASSUME NEW label \in Plain, NEW r,
             Go(w, label, [ctx[w] EXCEPT !.row = r, !.attempt = 1])
      PROVE  Goes(w)
  <2>1. [ctx[w] EXCEPT !.row = r, !.attempt = 1].handlers = ctx[w].handlers
    BY <1>3
  <2>. QED BY <1>6, <2>1 DEF Goes
<1>7. ASSUME NEW label \in Plain, NEW s,
             Go(w, label, [ctx[w] EXCEPT !.handlers = ctx[w].handlers \cup {s}])
      PROVE  Goes(w)
  <2>1. [ctx[w] EXCEPT !.handlers = ctx[w].handlers \cup {s}].handlers
          = ctx[w].handlers \cup {s}
    BY <1>0 DEF Context
  <2>. QED BY <1>7, <2>1 DEF Goes
<1> QED
  BY <1>1, <1>2, <1>4, <1>5, <1>6, <1>7

\* The activities and their attempts, up to the end of the workflow function.
LEMMA ActivitySerial ==
    ASSUME WorkflowInv, SerialInv, NEW w \in Tasks,
           \/ LookupCache(w) \/ LookupRow(w) \/ RefillCache(w)
           \/ CheckCancelled(w) \/ RecheckCancelled(w)
           \/ MarkExecuting(w) \/ CompleteStep(w) \/ FailStep(w)
           \/ ActivityReturns(w) \/ ActivityFails(w) \/ CacheResult(w)
           \/ Succeed(w) \/ SaveCompensating(w) \/ InvalidateCache(w)
    PROVE  SerialInv'
<1> USE DEF dbVars, rowVars, compVars, worldVars, boundVars
<1>1. UNCHANGED <<nRows, rowStep, nComps, compRow, compStatus, handlerRuns, runs>>
  BY Zenon
  DEF LookupCache, LookupRow, RefillCache, CheckCancelled, RecheckCancelled,
      StopIfCancelled, MarkExecuting, CompleteStep, FailStep, SaveRow, ActivityReturns,
      ActivityFails, CacheResult, Succeed, SaveCompensating, SaveStatus, InvalidateCache
<1>2. status' = status \/ status' # "FAILED"
  BY DEF LookupCache, LookupRow, RefillCache, CheckCancelled, RecheckCancelled,
      StopIfCancelled, MarkExecuting, CompleteStep, FailStep, SaveRow, ActivityReturns,
      ActivityFails, CacheResult, Succeed, SaveCompensating, SaveStatus, InvalidateCache
<1>3. pc[w] \notin PreRun \cup Outside
  BY DEF LookupCache, LookupRow, RefillCache, CheckCancelled, RecheckCancelled,
      StopIfCancelled, MarkExecuting, CompleteStep, FailStep, SaveRow, ActivityReturns,
      ActivityFails, CacheResult, Succeed, SaveCompensating, SaveStatus, InvalidateCache,
      PreRun, Outside
<1>4. Goes(w)
  BY GoesPlain, PlainIs
  DEF LookupCache, LookupRow, RefillCache, CheckCancelled, RecheckCancelled,
      StopIfCancelled, MarkExecuting, CompleteStep, FailStep, SaveRow, ActivityReturns,
      ActivityFails, CacheResult, Succeed, SaveCompensating, SaveStatus, InvalidateCache
<1> QED
  BY <1>1, <1>2, <1>3, <1>4, SettledIs, PlainStep DEF Goes

\* A row is inserted.
LEMMA InsertRowSerial ==
    ASSUME WorkflowInv, SerialInv, NEW w \in Tasks, InsertRow(w)
    PROVE  SerialInv'
<1> USE DEF dbVars, rowVars, compVars, worldVars, boundVars
<1>1. Settled
  BY CompTypes DEF InsertRow, Settled
<1>2. Goes(w)
  BY GoesPlain, PlainIs DEF InsertRow
<1>3. pc[w] \notin PreRun \cup Outside /\ status' = status
  BY DEF InsertRow, PreRun, Outside
<1> QED
  BY <1>1, <1>2, <1>3, PlainStep DEF Goes

\* A compensation is registered: its handler is in memory, its record PENDING.
LEMMA RegisterSerial ==
    ASSUME WorkflowInv, SerialInv, NEW w \in Tasks, RegisterCompensation(w)
    PROVE  SerialInv'
<1> USE DEF dbVars, rowVars, compVars, worldVars, boundVars
<1>a. PICK c : c = [ctx[w] EXCEPT !.handlers = @ \cup {ctx[w].step}]
  OBVIOUS
<1>b. PICK n : n = nComps + 1
  OBVIOUS
<1>0. /\ ctx[w] \in Context /\ c.handlers = ctx[w].handlers \cup {ctx[w].step}
      /\ pc[w] = "register" /\ n \in RowIds /\ nComps \in Nat
      /\ \A d \in 1..n : d \in RowIds /\ (d # n => d \in 1..nComps)
      /\ \A d \in 1..nComps : d \in RowIds /\ d # n
  BY <1>a, <1>b, CompTypes DEF RegisterCompensation, Context
<1>1. ctx[w].row \in 1..nRows /\ rowStep[ctx[w].row] = ctx[w].step
  BY <1>0, ActivityFacts DEF ActivityLabels, RowLabels
<1>2. /\ nComps' = n /\ compRow'[n] = ctx[w].row /\ compStatus'[n] = "PENDING"
      /\ \A d \in RowIds : d # n => compRow'[d] = compRow[d] /\ compStatus'[d] = compStatus[d]
      /\ Go(w, "checkCancelled", c)
      /\ UNCHANGED <<status, nRows, rowStep, handlerRuns, runs>>
  BY <1>0, <1>a, <1>b, CompTypes DEF RegisterCompensation
<1>3. pc[w] \notin PreRun \cup Outside
  BY <1>0 DEF PreRun, Outside
<1>4. "checkCancelled" \notin PreRun \cup Outside \cup InLoop
  BY DEF PreRun, Outside, InLoop, InBody, CompLabels
<1>5. status # "FAILED"
  BY <1>3 DEF SerialInv, FailedOK, PreRun
<1>6. \A d \in 1..nComps' : compRow'[d] \in 1..nRows'
  <2>1. ASSUME NEW d \in 1..n
        PROVE  compRow'[d] \in 1..nRows
    BY <1>0, <1>1, <1>2, <2>1 DEF SerialInv
  <2>. QED BY <1>2, <2>1
<1>7. LoopOK("checkCancelled", c)'
  BY <1>4 DEF LoopOK, InLoop, InBody
<1>8. FirstRunOK("checkCancelled", c)'
  <2>1. runs = 1 => \A d \in 1..nComps : rowStep[compRow[d]] \in ctx[w].handlers
    BY <1>3 DEF SerialInv, FirstRunOK
  <2>2. ASSUME runs = 1, NEW d \in 1..n
        PROVE  rowStep[compRow'[d]] \in c.handlers
    BY <1>0, <1>1, <1>2, <2>1, <2>2
  <2> QED
    BY <1>2, <1>4, <2>2 DEF FirstRunOK, InLoop, InBody, CompLabels
<1>9. Handled'
  <2>1. ASSUME NEW d \in RowIds, handlerRuns[d] > 0
        PROVE  d \in 1..nComps /\ d # n /\ compStatus[d] # "PENDING"
    BY <1>0, <2>1 DEF SerialInv, Handled, Pending
  <2> QED
    BY <1>0, <1>2, <2>1 DEF Handled, Pending
<1>10. UndoneAsRecorded'
  <2>1. handlerRuns[n] <= 1 /\ \A d \in RowIds : handlerRuns[d] <= 1
    BY <1>0 DEF SerialInv, UndoneAsRecorded
  <2>2. ASSUME NEW d \in RowIds, runs = 1, d <= n, compStatus'[d] = "COMPENSATED"
        PROVE  handlerRuns[d] > 0
    BY <1>0, <1>2, <2>2 DEF SerialInv, UndoneAsRecorded
  <2> QED
    BY <1>2, <2>1, <2>2 DEF UndoneAsRecorded
<1>11. FailedLeavesNothingPending' /\ FailedOK("checkCancelled")'
  BY <1>2, <1>5 DEF FailedLeavesNothingPending, FailedOK
<1> QED
  BY <1>2, <1>3, <1>6, <1>7, <1>8, <1>9, <1>10, <1>11, SoleStep

\* What is claimed of a compensation in hand, from call to call.
LEMMA LoopMoves ==
    ASSUME NEW c, NEW label
    PROVE  /\ label \in CompLabels /\ LoopOK(label, c) => LoopOK("markCompFailed", c)
           /\ LoopOK("compStartedEvent", c) => LoopOK("markCompensating", c)
           /\ LoopOK("handlerRunning", c) => LoopOK("markCompensated", c)
           /\ label \in {"compDoneEvent", "compFailedEvent"} /\ LoopOK(label, c)
                => LoopOK("nextCompensation", c)
           /\ LoopOK("nextCompensation", c) /\ c.todo = {} => LoopOK("saveCompensated", c)
           /\ LoopOK("saveCompensated", c) => LoopOK("saveFailed", c)
BY DEF LoopOK, InLoop, InBody, CompLabels

\* A task in _run_compensations or past it goes on with its handlers.
LEMMA OnwardStep ==
    ASSUME WorkflowInv, SerialInv, Settled, NEW w \in Tasks,
           NEW label \in Labels \ (PreRun \cup Outside \cup {"handlerRunning", "markCompensated"}),
           NEW c, Go(w, label, c), c.handlers = ctx[w].handlers,
           pc[w] \notin PreRun \cup Outside, LoopOK(label, c),
           status' = status \/ status' # "FAILED"
    PROVE  SerialInv'
<1>1. FirstRunOK(pc[w], ctx[w]) /\ status # "FAILED"
  BY DEF SerialInv, FailedOK, PreRun
<1>2. FirstRunOK(label, c)
  BY <1>1 DEF FirstRunOK
<1> QED
  BY <1>1, <1>2, SettledStep

\* A workflow is started or resumed while no run is under way.
LEMMA StartSerial ==
    ASSUME WorkflowInv, SerialInv, Overlap = FALSE, NEW w \in Tasks,
           StartWorkflow(w) \/ ResumeWorkflow(w)
    PROVE  SerialInv'
<1> USE DEF dbVars, rowVars, compVars, worldVars, boundVars
<1>1. /\ \A v \in Tasks : pc[v] \in Outside
      /\ runs' = runs + 1
  BY ExecutingIs DEF StartWorkflow, ResumeWorkflow, Request
<1>2. UNCHANGED <<status, nRows, rowStep, nComps, compRow, compStatus, handlerRuns>>
  BY Zenon DEF StartWorkflow, ResumeWorkflow
<1>3. PICK label \in {"insert", "begin"} : Go(w, label, ctx[w])
  BY DEF StartWorkflow, ResumeWorkflow, Goto
<1>4. /\ pc'[w] = label
      /\ \A v \in Tasks : v # w => pc'[v] \in Outside
  BY <1>1, <1>3, CompTypes DEF Go
<1>5. runs' # 0 /\ (runs' = 1 => nComps' = 0)
  BY <1>1, <1>2, CompTypes DEF SerialInv
<1>6. \A u, v \in Tasks : Executing(u)' /\ Executing(v)' => u = v
  BY <1>4, ExecutingIs
<1>7. ASSUME NEW v \in Tasks
      PROVE  LoopOK(pc[v], ctx[v])' /\ FirstRunOK(pc[v], ctx[v])' /\ FailedOK(pc[v])'
  <2>1. CASE v = w
    BY <1>3, <1>4, <1>5, <2>1
    DEF LoopOK, FirstRunOK, FailedOK, InLoop, InBody, CompLabels, PreRun
  <2>2. CASE v # w
    <3>1. \A l \in Outside : \A d : LoopOK(l, d)' /\ FirstRunOK(l, d)' /\ FailedOK(l)'
      BY OutsideOK
    <3> QED
      BY <1>4, <2>2, <3>1 DEF LoopOK, FirstRunOK, FailedOK
  <2> QED
    BY <2>1, <2>2
<1>8. \A d \in 1..nComps' : compRow'[d] \in 1..nRows'
  BY <1>2 DEF SerialInv
<1>9. Handled' /\ FailedLeavesNothingPending'
  BY <1>2 DEF SerialInv, Handled, Pending, FailedLeavesNothingPending, Reachable
<1>10. UndoneAsRecorded'
  BY <1>2, <1>5 DEF SerialInv, UndoneAsRecorded
<1> QED
  BY <1>5, <1>6, <1>7, <1>8, <1>9, <1>10 DEF SerialInv

\* A workflow is cancelled, or its instance inserted, or its run begins.
LEMMA EntrySerial ==
    ASSUME WorkflowInv, SerialInv, NEW w \in Tasks,
           CancelWorkflow(w) \/ CancelSave(w) \/ InsertWorkflow(w) \/ Begin(w)
    PROVE  SerialInv'
<1> USE DEF dbVars, rowVars, compVars, worldVars, boundVars
<1>1. Settled
  <2>1. UNCHANGED <<nRows, rowStep, nComps, compRow, compStatus, handlerRuns, runs>>
    BY Zenon DEF CancelWorkflow, CancelSave, InsertWorkflow, Begin, SaveStatus
  <2>. QED BY <2>1, SettledIs
<1>2. status' = status \/ status' # "FAILED"
  BY DEF CancelWorkflow, CancelSave, InsertWorkflow, Begin, SaveStatus
<1>3. ASSUME NEW label \in {"cancelSave", "cancelledEvent"}, Goto(w, label)
      PROVE  SerialInv'
  <2>1. label \in Outside
    BY DEF Outside
  <2>2. LoopOK(label, ctx[w]) /\ FirstRunOK(label, ctx[w])
    BY <2>1, OutsideOK
  <2>. QED BY <1>1, <1>2, <1>3, <2>1, <2>2, SettledStep DEF Goto
<1>4. CASE Leave(w)
  BY <1>1, <1>2, <1>4, LeaveSerial
<1>5. CASE pc[w] = "insert" /\ status' = "PENDING" /\ Goto(w, "startedEvent")
  <2>1. LoopOK("startedEvent", ctx[w]) /\ pc[w] \notin Outside
    BY <1>5 DEF LoopOK, InLoop, InBody, CompLabels, Outside
  <2>2. FirstRunOK(pc[w], ctx[w])
    BY DEF SerialInv
  <2>3. FirstRunOK("startedEvent", ctx[w])
    BY <1>5, <2>2 DEF FirstRunOK, PreRun
  <2>. QED BY <1>1, <1>5, <2>1, <2>3, SettledStep DEF Goto
<1>6. CASE Begin(w)
  <2>. DEFINE c == [NoContext EXCEPT !.step = 1]
  <2>1. pc[w] = "begin" /\ status' # "FAILED" /\ Go(w, "lookupCache", c)
    BY <1>6 DEF Begin, SaveStatus
  <2>. HIDE DEF c
  <2>2. LoopOK("lookupCache", c) /\ pc[w] \notin Outside
    BY <2>1 DEF LoopOK, InLoop, InBody, CompLabels, Outside
  <2>3. FirstRunOK(pc[w], ctx[w])
    BY DEF SerialInv
  <2>4. runs = 1 => 1..nComps = {}
    BY <2>1, <2>3 DEF FirstRunOK, PreRun
  <2>5. FirstRunOK("lookupCache", c)
    BY <2>4 DEF FirstRunOK, PreRun
  <2>. QED BY <1>1, <2>1, <2>2, <2>5, SettledStep
<1> QED
  BY <1>3, <1>4, <1>5, <1>6 DEF CancelWorkflow, CancelSave, InsertWorkflow, SaveStatus

\* The list of compensations is fetched, walked and finished.
LEMMA WalkSerial ==
    ASSUME WorkflowInv, SerialInv, NEW w \in Tasks,
           \/ FetchCompensations(w) \/ NextCompensation(w) \/ HandlerEnds(w)
           \/ SaveCompensated(w)
    PROVE  SerialInv'
<1> USE DEF dbVars, rowVars, compVars, worldVars, boundVars
<1>1. Settled
  <2>1. UNCHANGED <<nRows, rowStep, nComps, compRow, compStatus, handlerRuns, runs>>
    BY Zenon DEF FetchCompensations, NextCompensation, HandlerEnds, SaveCompensated,
       SaveStatus
  <2>. QED BY <2>1, SettledIs
<1>2. /\ status' = status \/ status' # "FAILED"
      /\ pc[w] \notin PreRun \cup Outside
  BY DEF FetchCompensations, NextCompensation, HandlerEnds, SaveCompensated, SaveStatus,
     PreRun, Outside
<1>3. ctx[w] \in Context /\ LoopOK(pc[w], ctx[w]) /\ FirstRunOK(pc[w], ctx[w])
  BY CompTypes DEF SerialInv
<1>4. {"nextCompensation", "saveCompensated", "compStartedEvent", "markCompFailed",
       "saveFailed"}
        \subseteq Labels \ (PreRun \cup Outside \cup {"handlerRunning", "markCompensated"})
  BY DEF Labels, UnguardedLabels, CompLabels, PreRun, Outside
<1>5. CASE FetchCompensations(w)
  <2>. DEFINE pending == {i \in 1..nComps : i <= CompLimit /\ compStatus[i] = "PENDING"}
              c == [ctx[w] EXCEPT !.todo = pending]
  <2>1. c.handlers = ctx[w].handlers /\ c.todo = pending
    BY <1>3 DEF Context
  <2>2. Go(w, "nextCompensation", c)
    BY <1>5 DEF FetchCompensations
  <2>. HIDE DEF c
  <2>3. LoopOK("nextCompensation", c)
    BY <2>1 DEF LoopOK, Reachable, Pending, InLoop, InBody, CompLabels
  <2>. QED BY <1>1, <1>2, <1>4, <2>1, <2>2, <2>3, OnwardStep
<1>6. CASE NextCompensation(w)
  <2>0. pc[w] = "nextCompensation" /\ LoopOK("nextCompensation", ctx[w])
    BY <1>3, <1>6 DEF NextCompensation
  <2>1. CASE ctx[w].todo = {} /\ Goto(w, "saveCompensated")
    <3>1. LoopOK("saveCompensated", ctx[w])
      BY <2>0, <2>1, LoopMoves
    <3>. QED BY <1>1, <1>2, <1>4, <2>1, <3>1, OnwardStep DEF Goto
  <2>2. ASSUME NEW i \in ctx[w].todo, IsNext(i, ctx[w].todo),
               Go(w, "compStartedEvent", [ctx[w] EXCEPT !.comp = i, !.todo = @ \ {i}])
        PROVE  SerialInv'
    <3>1. PICK c : c = [ctx[w] EXCEPT !.comp = i, !.todo = @ \ {i}]
      OBVIOUS
    <3>2. /\ c.handlers = ctx[w].handlers /\ c.comp = i
          /\ c.todo = ctx[w].todo \ {i}
      BY <1>3, <3>1 DEF Context
    <3>3. /\ \A d \in ctx[w].todo : d \in 1..nComps /\ Pending(d)
          /\ \A d \in Reachable : Pending(d) => d \in ctx[w].todo
      BY <2>0 DEF LoopOK, InLoop
    <3>4. \A d \in c.todo : d < i
      BY <2>2, <3>2, <3>3, CompTypes DEF IsNext
    <3>5. LoopOK("compStartedEvent", c)
      BY <2>2, <3>2, <3>3, <3>4 DEF LoopOK, InLoop, InBody, CompLabels
    <3>. QED BY <1>1, <1>2, <1>4, <2>2, <3>1, <3>2, <3>5, OnwardStep
  <2>. QED BY <1>6, <2>1, <2>2 DEF NextCompensation
<1>7. CASE HandlerEnds(w)
  <2>0. pc[w] = "handlerRunning"
    BY <1>7 DEF HandlerEnds
  <2>1. LoopOK("markCompensated", ctx[w]) /\ LoopOK("markCompFailed", ctx[w])
    BY <1>3, <2>0, LoopMoves DEF CompLabels
  <2>2. CASE Goto(w, "markCompensated")
    <3>1. FirstRunOK("markCompensated", ctx[w]) /\ status # "FAILED"
      BY <1>2, <1>3, <2>0 DEF FirstRunOK, SerialInv, FailedOK, PreRun, Outside
    <3>2. status' = status /\ pc[w] \notin Outside
      BY <1>2, <1>7 DEF HandlerEnds
    <3>. QED BY <1>1, <2>1, <2>2, <3>1, <3>2, SettledStep DEF Goto
  <2>3. CASE Goto(w, "markCompFailed")
    BY <1>1, <1>2, <1>4, <2>1, <2>3, OnwardStep DEF Goto
  <2>. QED BY <1>7, <2>2, <2>3 DEF HandlerEnds
<1>8. CASE SaveCompensated(w)
  <2>1. LoopOK("saveFailed", ctx[w]) /\ Goto(w, "saveFailed")
    BY <1>3, <1>8, LoopMoves DEF SaveCompensated, SaveStatus
  <2>. QED BY <1>1, <1>2, <1>4, <2>1, OnwardStep DEF Goto
<1> QED
  BY <1>5, <1>6, <1>7, <1>8

\* The status of the compensation in hand is saved.
LEMMA MarkSerial ==
    ASSUME WorkflowInv, SerialInv, NEW w \in Tasks,
           MarkCompensating(w) \/ MarkCompensated(w) \/ MarkCompFailed(w)
    PROVE  SerialInv'
<1> USE DEF dbVars, rowVars, compVars, worldVars, boundVars
<1>1. PICK c : c = ctx[w]
  OBVIOUS
<1>2. PICK s \in {"COMPENSATING", "COMPENSATED", "COMPENSATION_FAILED"},
           next \in {"callHandler", "compDoneEvent", "compFailedEvent"} :
        /\ compStatus' = [compStatus EXCEPT ![c.comp] = s] /\ Go(w, next, c)
        /\ \/ pc[w] = "markCompensating" /\ next = "callHandler" /\ s = "COMPENSATING"
           \/ pc[w] = "markCompensated" /\ next = "compDoneEvent" /\ s = "COMPENSATED"
           \/ /\ pc[w] = "markCompFailed" /\ next = "compFailedEvent"
              /\ s = "COMPENSATION_FAILED"
  BY <1>1 DEF MarkCompensating, MarkCompensated, MarkCompFailed, SaveComp, Goto
<1>3. UNCHANGED <<status, nRows, rowStep, nComps, compRow, handlerRuns, runs>>
  BY Zenon DEF MarkCompensating, MarkCompensated, MarkCompFailed, SaveComp
<1>4. /\ c \in Context /\ LoopOK(pc[w], c) /\ FirstRunOK(pc[w], c) /\ FailedOK(pc[w])
      /\ pc[w] \in InBody /\ pc[w] \notin PreRun \cup Outside
  BY <1>1, <1>2, CompTypes DEF SerialInv, InBody, CompLabels, PreRun, Outside
<1>5. c.comp \in 1..nComps /\ c.comp \in RowIds /\ \A d \in c.todo : d \in 1..nComps /\ d < c.comp
  BY <1>4, CompTypes DEF LoopOK, InLoop
<1>6. /\ \A d \in RowIds : d # c.comp => compStatus'[d] = compStatus[d]
      /\ compStatus'[c.comp] = s /\ s # "PENDING"
  BY <1>2, <1>5, CompTypes
<1>7. \A d \in RowIds : Pending(d)' <=> Pending(d) /\ d # c.comp
  BY <1>6 DEF Pending
<1>8. LoopOK(next, c)'
  <2>1. \A d \in c.todo : d \in 1..nComps /\ Pending(d) /\ d # c.comp /\ d \in RowIds
    BY <1>4, <1>5, CompTypes DEF LoopOK, InLoop
  <2>2. \A d \in Reachable : d \in RowIds /\ (Pending(d) => d \in c.todo \/ d = c.comp)
    BY <1>4, CompTypes DEF LoopOK, InLoop, Reachable
  <2>3. Reachable' = Reachable
    BY <1>3 DEF Reachable
  <2>4. next = "callHandler" => handlerRuns[c.comp] = 0
    <3>1. next = "callHandler" => Pending(c.comp)
      BY <1>2, <1>4 DEF LoopOK
    <3>2. Pending(c.comp) => ~(handlerRuns[c.comp] > 0)
      BY <1>5 DEF SerialInv, Handled
    <3>. QED BY <3>1, <3>2, <1>5, CompTypes
  <2>5. next \notin {"compStartedEvent", "markCompensating", "saveCompensated", "saveFailed"}
    OBVIOUS
  <2>6. /\ \A d \in c.todo : d \in 1..nComps' /\ Pending(d)'
        /\ \A d \in Reachable' : Pending(d)' => d \in c.todo
        /\ c.comp \in 1..nComps' /\ \A d \in c.todo : d < c.comp
        /\ next = "callHandler" => ~Pending(c.comp)' /\ handlerRuns'[c.comp] = 0
    BY <1>3, <1>5, <1>7, <2>1, <2>2, <2>3, <2>4
  <2>. QED BY <2>5, <2>6 DEF LoopOK, Pending
<1>9. FirstRunOK(next, c)'
  BY <1>2, <1>3, <1>4 DEF FirstRunOK, PreRun, Outside
<1>10. FailedOK(next)' /\ status # "FAILED"
  BY <1>3, <1>4 DEF FailedOK, PreRun, Outside
<1>11. \A d \in 1..nComps' : compRow'[d] \in 1..nRows'
  BY <1>3 DEF SerialInv
<1>12. Handled'
  BY <1>3, <1>7 DEF SerialInv, Handled
<1>13. UndoneAsRecorded'
  <2>1. ASSUME runs = 1, compStatus'[c.comp] = "COMPENSATED"
        PROVE  handlerRuns[c.comp] > 0
    BY <1>2, <1>4, <1>6, <2>1 DEF FirstRunOK
  <2>2. ASSUME NEW d \in RowIds, runs = 1, d <= nComps, compStatus'[d] = "COMPENSATED"
        PROVE  handlerRuns[d] > 0
    BY <1>6, <2>1, <2>2 DEF SerialInv, UndoneAsRecorded
  <2>3. \A d \in RowIds : handlerRuns[d] <= 1
    BY DEF SerialInv, UndoneAsRecorded
  <2>. QED BY <1>3, <2>2, <2>3 DEF UndoneAsRecorded
<1>14. FailedLeavesNothingPending'
  BY <1>3, <1>10 DEF FailedLeavesNothingPending
<1> QED
  BY <1>2, <1>3, <1>4, <1>8, <1>9, <1>10, <1>11, <1>12, <1>13, <1>14, SoleStep

\* A handler is started, or the compensation has none in this run's memory.
LEMMA CallSerial ==
    ASSUME WorkflowInv, SerialInv, NEW w \in Tasks, CallHandler(w)
    PROVE  SerialInv'
<1> USE DEF dbVars, rowVars, compVars, worldVars, boundVars
<1>1. PICK c : c = ctx[w]
  OBVIOUS
<1>2. PICK k \in BOOLEAN : k = TRUE <=> rowStep[compRow[c.comp]] \in c.handlers
  OBVIOUS
<1>3. /\ pc[w] = "callHandler"
      /\ k = TRUE => /\ Go(w, "handlerRunning", c)
                     /\ handlerRuns' = [handlerRuns EXCEPT ![c.comp] = @ + 1]
      /\ k = FALSE => Go(w, "markCompensated", c) /\ handlerRuns' = handlerRuns
  BY <1>1, <1>2 DEF CallHandler, Goto
<1>4. UNCHANGED <<status, nRows, rowStep, nComps, compRow, compStatus, runs>>
  BY Zenon DEF CallHandler
<1>5. /\ c \in Context /\ LoopOK("callHandler", c) /\ FirstRunOK("callHandler", c)
      /\ FailedOK("callHandler") /\ pc[w] \notin Outside
  BY <1>1, <1>3, CompTypes DEF SerialInv, Outside
<1>6. /\ c.comp \in 1..nComps /\ c.comp \in RowIds /\ ~Pending(c.comp)
      /\ handlerRuns[c.comp] = 0
  BY <1>5, CompTypes DEF LoopOK, InLoop, InBody, CompLabels
<1>7. runs = 1 => k = TRUE
  BY <1>2, <1>5, <1>6 DEF FirstRunOK, PreRun, Outside
<1>8. /\ \A d \in RowIds : d # c.comp => handlerRuns'[d] = handlerRuns[d]
      /\ handlerRuns'[c.comp] = IF k THEN 1 ELSE 0
  BY <1>3, <1>6, CompTypes
<1>9. PICK label \in {"handlerRunning", "markCompensated"} : Go(w, label, c)
  BY <1>2, <1>3
<1>10. LoopOK(label, c)'
  BY <1>4, <1>5, <1>9 DEF LoopOK, Reachable, Pending, InLoop, InBody, CompLabels
<1>11. FirstRunOK(label, c)'
  BY <1>4, <1>5, <1>7, <1>8 DEF FirstRunOK, PreRun, Outside
<1>12. FailedOK(label)' /\ FailedLeavesNothingPending'
  BY <1>4, <1>5 DEF FailedOK, FailedLeavesNothingPending, Outside
<1>13. \A d \in 1..nComps' : compRow'[d] \in 1..nRows'
  BY <1>4 DEF SerialInv
<1>14. Handled'
  BY <1>4, <1>6, <1>8, CompTypes DEF SerialInv, Handled, Pending
<1>15. UndoneAsRecorded'
  <2>1. \A d \in RowIds : handlerRuns'[d] <= 1
    BY <1>8 DEF SerialInv, UndoneAsRecorded
  <2>2. ASSUME NEW d \in RowIds, runs = 1, d <= nComps, compStatus[d] = "COMPENSATED"
        PROVE  handlerRuns'[d] > 0
    BY <1>7, <1>8, <2>2 DEF SerialInv, UndoneAsRecorded
  <2>. QED BY <1>4, <2>1, <2>2 DEF UndoneAsRecorded
<1> QED
  BY <1>4, <1>5, <1>9, <1>10, <1>11, <1>12, <1>13, <1>14, <1>15, SoleStep

\* A run is reported CANCELLED or FAILED and leaves.
LEMMA ReportSerial ==
    ASSUME WorkflowInv, SerialInv, NEW w \in Tasks, SaveCancelled(w) \/ SaveFailed(w)
    PROVE  SerialInv'
<1> USE DEF dbVars, rowVars, compVars, worldVars, boundVars
<1>1. /\ UNCHANGED <<nRows, rowStep, nComps, compRow, compStatus, handlerRuns, runs>>
      /\ Leave(w)
  BY Zenon DEF SaveCancelled, SaveFailed, SaveStatus
<1>2. CASE SaveCancelled(w)
  <2>1. status' # "FAILED"
    BY <1>2 DEF SaveCancelled, SaveStatus
  <2>. QED BY <1>1, <2>1, SettledIs, LeaveSerial
<1>3. CASE SaveFailed(w)
  <2>1. pc[w] = "saveFailed" /\ pc[w] \notin Outside
    BY <1>3 DEF SaveFailed, SaveStatus, Outside
  <2>2. LoopOK("saveFailed", ctx[w])
    BY <2>1 DEF SerialInv
  <2>3. FailedLeavesNothingPending'
    BY <1>1, <2>2 DEF LoopOK, FailedLeavesNothingPending, Reachable, Pending
  <2>4. /\ \A d \in 1..nComps' : compRow'[d] \in 1..nRows'
        /\ Handled' /\ UndoneAsRecorded'
    BY <1>1, SettledIs, SettledTables
  <2>5. \A d : LoopOK("idle", d)' /\ FirstRunOK("idle", d)' /\ FailedOK("idle")'
    BY OutsideOK DEF Outside
  <2>6. PICK c : c = NoContext
    OBVIOUS
  <2>7. LoopOK("idle", c)' /\ FirstRunOK("idle", c)' /\ FailedOK("idle")'
    BY <2>5
  <2>. QED BY <1>1, <2>1, <2>3, <2>4, <2>6, <2>7, SoleStep DEF Leave
<1> QED
  BY <1>2, <1>3

\* An event is recorded, or its number has been taken.
LEMMA EventSerial ==
    ASSUME WorkflowInv, SerialInv, NEW w \in Tasks, RecordEvent(w) \/ EventCollides(w)
    PROVE  SerialInv'
<1> USE DEF dbVars, rowVars, compVars, worldVars, boundVars
<1>1. /\ UNCHANGED <<nRows, rowStep, nComps, compRow, compStatus, handlerRuns, runs>>
      /\ status' = status
  BY Zenon DEF RecordEvent, EventCollides
<1>2. Settled
  BY <1>1, SettledIs
<1>3. LoopOK(pc[w], ctx[w]) /\ FirstRunOK(pc[w], ctx[w]) /\ FailedOK(pc[w])
  BY DEF SerialInv
<1>4. CASE Leave(w)
  BY <1>1, <1>2, <1>4, LeaveSerial
<1>5. CASE pc[w] = "startedEvent" /\ Goto(w, "begin")
  <2>1. LoopOK("begin", ctx[w]) /\ FirstRunOK("begin", ctx[w]) /\ pc[w] \notin Outside
    BY <1>3, <1>5 DEF LoopOK, FirstRunOK, InLoop, InBody, CompLabels, PreRun, Outside
  <2>. QED BY <1>1, <1>2, <1>5, <2>1, SettledStep DEF Goto
<1>6. CASE /\ pc[w] \in {"stepStartedEvent", "stepCompletedEvent", "stepFailedEvent",
                         "failedEvent"}
           /\ \/ \E label \in {"activity", "saveCancelled", "failedEvent",
                              "saveCompensating"} : Goto(w, label)
              \/ NextStep(w)
  <2>1. Goes(w)
    BY <1>6, GoesPlain, PlainIs
  <2>2. pc[w] \notin PreRun \cup Outside
    BY <1>6 DEF PreRun, Outside
  <2>. QED BY <1>1, <1>2, <2>1, <2>2, PlainStep DEF Goes
<1>7. CASE \/ pc[w] = "compStartedEvent" /\ Goto(w, "markCompensating")
           \/ /\ pc[w] \in {"compDoneEvent", "compFailedEvent"}
              /\ Goto(w, "nextCompensation")
  <2>1. PICK label \in {"markCompensating", "nextCompensation"} :
          Goto(w, label) /\ LoopOK(label, ctx[w])
    BY <1>3, <1>7, LoopMoves
  <2>2. pc[w] \notin PreRun \cup Outside
    BY <1>7 DEF PreRun, Outside
  <2>3. label \in Labels \ (PreRun \cup Outside \cup {"handlerRunning", "markCompensated"})
    BY DEF Labels, CompLabels, UnguardedLabels, PreRun, Outside
  <2>. QED BY <1>1, <1>2, <2>1, <2>2, <2>3, OnwardStep DEF Goto
<1> QED
  BY <1>4, <1>5, <1>6, <1>7 DEF RecordEvent, EventCollides, AfterEvent

\* A call raises, a task is cancelled or its process dies.
LEMMA FailureSerial ==
    ASSUME WorkflowInv, SerialInv, NEW w \in Tasks,
           CallRaises(w) \/ TaskCancelled(w) \/ Crash(w)
    PROVE  SerialInv'
<1> USE DEF dbVars, rowVars, compVars, worldVars, boundVars
<1>1. /\ UNCHANGED <<nRows, rowStep, nComps, compRow, compStatus, handlerRuns, runs>>
      /\ status' = status
  BY Zenon DEF CallRaises, TaskCancelled, Crash
<1>2. Settled
  BY <1>1, SettledIs
<1>3. CASE Leave(w)
  BY <1>1, <1>2, <1>3, LeaveSerial
<1>4. CASE /\ pc[w] \in AttemptLabels \cup WorkflowLabels
           /\ \/ RetryOrFail(w)
              \/ Go(w, "failStep", [ctx[w] EXCEPT !.err = "cancelled"])
              \/ Goto(w, "failedEvent") \/ Goto(w, "saveCancelled")
              \/ Go(w, "failedEvent",
                    [ctx[w] EXCEPT !.handlers = ctx[w].handlers \cup {ctx[w].step}])
  <2>1. Goes(w)
    BY <1>4, GoesPlain, PlainIs
  <2>2. pc[w] \notin PreRun \cup Outside
    BY <1>4 DEF AttemptLabels, WorkflowLabels, PreRun, Outside
  <2>. QED BY <1>1, <1>2, <2>1, <2>2, PlainStep DEF Goes
<1>5. CASE pc[w] \in CompLabels /\ Goto(w, "markCompFailed")
  <2>1. LoopOK("markCompFailed", ctx[w])
    BY <1>5, LoopMoves DEF SerialInv
  <2>2. pc[w] \notin PreRun \cup Outside
    BY <1>5 DEF CompLabels, PreRun, Outside
  <2>3. "markCompFailed"
          \in Labels \ (PreRun \cup Outside \cup {"handlerRunning", "markCompensated"})
    BY DEF Labels, UnguardedLabels, PreRun, Outside
  <2>. QED BY <1>1, <1>2, <1>5, <2>1, <2>2, <2>3, OnwardStep DEF Goto
<1> QED
  BY <1>3, <1>4, <1>5 DEF CallRaises, TaskCancelled, Crash, WorkflowLabels

\* Steps that move no task.
LEMMA RestSerial ==
    ASSUME WorkflowInv, SerialInv,
           \/ \E w \in Tasks : ActivityTakesEffect(w) \/ ReadSequence(w)
           \/ CacheExpires \/ UNCHANGED vars
    PROVE  SerialInv'
<1> USE DEF dbVars, rowVars, compVars, worldVars, boundVars
<1>1. /\ UNCHANGED <<nRows, rowStep, nComps, compRow, compStatus, handlerRuns, runs>>
      /\ UNCHANGED <<pc, ctx, status>>
  BY Zenon DEF ActivityTakesEffect, ReadSequence, CacheExpires, vars
<1> QED
  BY <1>1, SettledIs, RestingStep

\* Without overlapping runs the invariant of compensation holds.
THEOREM SerialInvariant ==
    ASSUME Overlap = FALSE
    PROVE  Spec => []SerialInv
<1>1. Init => SerialInv
  <2>. SUFFICES ASSUME Init PROVE SerialInv
    OBVIOUS
  <2>1. \A v \in Tasks : ~Executing(v) /\ LoopOK(pc[v], ctx[v])
                         /\ FirstRunOK(pc[v], ctx[v]) /\ FailedOK(pc[v])
    BY OutsideOK DEF Init, Executing, FailedOK, Outside
  <2>2. Handled /\ UndoneAsRecorded /\ FailedLeavesNothingPending
    BY DEF Init, Handled, UndoneAsRecorded, FailedLeavesNothingPending
  <2>. QED BY <2>1, <2>2 DEF Init, SerialInv
<1>2. WorkflowInv /\ SerialInv /\ [Next]_vars => SerialInv'
  <2>. SUFFICES ASSUME WorkflowInv, SerialInv, [Next]_vars PROVE SerialInv'
    OBVIOUS
  <2>1. ASSUME NEW w \in Tasks, Progress(w)
        PROVE  SerialInv'
    BY <2>1, EntrySerial, ActivitySerial, InsertRowSerial, RegisterSerial, WalkSerial,
       MarkSerial, CallSerial, ReportSerial, EventSerial, RestSerial
    DEF Progress
  <2>2. ASSUME NEW w \in Tasks,
               \/ StartWorkflow(w) \/ ResumeWorkflow(w) \/ CancelWorkflow(w)
               \/ TaskCancelled(w) \/ CallRaises(w) \/ Crash(w)
        PROVE  SerialInv'
    BY <2>2, StartSerial, EntrySerial, FailureSerial
  <2>. QED BY <2>1, <2>2, RestSerial DEF Next
<1> QED
  BY <1>1, <1>2, WorkflowInvariant, PTL DEF Spec

\* Across crashes, retries and resumes no compensation handler runs twice, and
\* what the only run recorded as COMPENSATED was carried out.
THEOREM HandlersRunOnce ==
    ASSUME Overlap = FALSE
    PROVE  Spec => []UndoneAsRecorded
<1>1. SerialInv => UndoneAsRecorded
  BY DEF SerialInv
<1> QED
  BY <1>1, SerialInvariant, PTL

\* FAILED is saved only when no compensation within the LIMIT is left to try.
THEOREM FailedIsFinished ==
    ASSUME Overlap = FALSE
    PROVE  Spec => []FailedLeavesNothingPending
<1>1. SerialInv => FailedLeavesNothingPending
  BY DEF SerialInv
<1> QED
  BY <1>1, SerialInvariant, PTL

\* Only the handler of the youngest compensation left to try is started.
THEOREM CompensationsAreLifo ==
    ASSUME Overlap = FALSE
    PROVE  Spec => LastInFirstOut
<1>1. WorkflowInv /\ SerialInv /\ [Next]_vars =>
        [\A c \in RowIds : handlerRuns'[c] > handlerRuns[c] =>
           \A d \in Reachable : d > c => compStatus[d] # "PENDING"]_vars
  <2> USE DEF dbVars, rowVars, compVars, worldVars, boundVars
  <2>. SUFFICES ASSUME WorkflowInv, SerialInv, [Next]_vars,
                       NEW c \in RowIds, handlerRuns'[c] > handlerRuns[c],
                       NEW d \in Reachable, d > c
                PROVE  compStatus[d] # "PENDING"
    OBVIOUS
  <2>1. handlerRuns' # handlerRuns
    BY CompTypes
  <2>2. PICK w \in Tasks : CallHandler(w)
    <3>1. ASSUME NEW w \in Tasks,
                 \/ StartWorkflow(w) \/ ResumeWorkflow(w) \/ CancelWorkflow(w)
                 \/ TaskCancelled(w) \/ CallRaises(w) \/ Crash(w)
                 \/ InsertWorkflow(w) \/ Begin(w) \/ CancelSave(w)
                 \/ LookupCache(w) \/ LookupRow(w) \/ RefillCache(w)
                 \/ InsertRow(w) \/ RegisterCompensation(w)
                 \/ CheckCancelled(w) \/ RecheckCancelled(w)
          PROVE  handlerRuns' = handlerRuns
      BY <3>1, Zenon
      DEF StartWorkflow, ResumeWorkflow, CancelWorkflow, TaskCancelled, CallRaises,
          Crash, InsertWorkflow, Begin, CancelSave, SaveStatus, LookupCache, LookupRow,
          RefillCache, InsertRow, RegisterCompensation, CheckCancelled, RecheckCancelled,
          StopIfCancelled
    <3>2. ASSUME NEW w \in Tasks,
                 \/ MarkExecuting(w) \/ CompleteStep(w) \/ FailStep(w)
                 \/ ActivityTakesEffect(w) \/ ActivityReturns(w) \/ ActivityFails(w)
                 \/ CacheResult(w) \/ Succeed(w) \/ SaveCancelled(w) \/ SaveFailed(w)
                 \/ SaveCompensating(w) \/ SaveCompensated(w) \/ InvalidateCache(w)
          PROVE  handlerRuns' = handlerRuns
      BY <3>2, Zenon
      DEF MarkExecuting, CompleteStep, FailStep, SaveRow, ActivityTakesEffect,
          ActivityReturns, ActivityFails, CacheResult, Succeed, SaveCancelled,
          SaveFailed, SaveCompensating, SaveCompensated, SaveStatus, InvalidateCache
    <3>3. ASSUME NEW w \in Tasks,
                 \/ FetchCompensations(w) \/ NextCompensation(w)
                 \/ MarkCompensating(w) \/ MarkCompensated(w) \/ MarkCompFailed(w)
                 \/ HandlerEnds(w) \/ ReadSequence(w) \/ RecordEvent(w)
                 \/ EventCollides(w)
          PROVE  handlerRuns' = handlerRuns
      BY <3>3, Zenon
      DEF FetchCompensations, NextCompensation, MarkCompensating, MarkCompensated,
          MarkCompFailed, SaveComp, HandlerEnds, ReadSequence, RecordEvent, EventCollides
    <3>4. CacheExpires \/ UNCHANGED vars => handlerRuns' = handlerRuns
      BY Zenon DEF CacheExpires, vars
    <3>. QED BY <2>1, <3>1, <3>2, <3>3, <3>4, Zenon DEF Next, Progress
  <2>3. /\ LoopOK("callHandler", ctx[w])
        /\ handlerRuns'[c] > handlerRuns[c] => c = ctx[w].comp
    <3>1. \A e \in RowIds : e # ctx[w].comp => handlerRuns'[e] = handlerRuns[e]
      BY <2>2, CompTypes DEF CallHandler
    <3>. QED BY <2>2, <3>1, CompTypes DEF CallHandler, SerialInv
  <2>4. \A e \in Reachable : Pending(e) => e < c
    BY <2>3 DEF LoopOK, InLoop, InBody, CompLabels
  <2>. QED BY <2>4, CompTypes DEF Pending, Reachable
<1> QED
  BY <1>1, WorkflowInvariant, SerialInvariant, PTL DEF Spec, LastInFirstOut

=============================================================================
