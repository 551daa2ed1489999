------------------------- MODULE MCDurableWorkflow -------------------------
(* The instances of DurableWorkflow that TLC checks: two tasks, so that one *)
(* executes while another executes, resumes or cancels, and two activities. *)
EXTENDS DurableWorkflow, TLC

CONSTANTS t1, t2

MCTasks == {t1, t2}
MCSteps == {1, 2}
TaskSymmetry == Permutations(MCTasks)

(* What the steps to come depend on.  Two states that agree on it have the *)
(* same steps ahead, which reach states that agree again: left out are the *)
(* variables that record history (returned, handlerRuns, replayed), the    *)
(* statuses that no condition of the code tells apart, and the locals of a *)
(* task that its code overwrites before it reads them.                     *)
StatusRead ==
    CASE status \in {"PENDING", "RUNNING"}             -> "ACTIVE"
      [] status \in {"NONE", "COMPLETED", "CANCELLED"} -> status
      [] OTHER                                         -> "RETRYABLE"

LocalsRead(w) ==
    LET Live(S, x) == IF pc[w] \in S THEN x ELSE 0 IN
      <<Live(ActivityLabels, ctx[w].step),
        Live(RowLabels, ctx[w].row),
        pc[w] \in AttemptLabels /\ ctx[w].row \in effect,
        Live(AttemptLabels \cup {"register"}, ctx[w].attempt),
        pc[w] \in {"failStep", "stepFailedEvent"} /\ ctx[w].err = "cancelled",
        Live(CompLabels \cup {"markCompFailed"}, ctx[w].comp),
        ctx[w].handlers, ctx[w].todo>>

FutureView ==
    <<StatusRead, nRows, rowStep, {i \in RowIds : rowStatus[i] = "COMPLETED"},
      nComps, compRow, {i \in RowIds : compStatus[i] = "PENDING"}, cache,
      pc, seq, [w \in Tasks |-> LocalsRead(w)], boundVars>>
=============================================================================
