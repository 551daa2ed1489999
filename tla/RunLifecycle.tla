---------------------------- MODULE RunLifecycle ----------------------------
(***************************************************************************)
(* What a stored flywheel run promises: its state follows the table of     *)
(* valid transitions and a terminal one is final, a dataset is added to a  *)
(* run that is running and not paused, and a run is forgotten when it has  *)
(* ended or when its storage time is over.                                 *)
(***************************************************************************)
EXTENDS Naturals

CONSTANT Steps      \* indexes of the stages of a run

VARIABLES
    phase,      \* the state, or "gone"
    paused,
    dataset,    \* the dataset is built
    step,       \* current_step_index
    expired     \* the storage time is over

vars == <<phase, paused, dataset, step, expired>>

\* VALID_STATE_TRANSITIONS, without compensation, which runs do not use.
Transitions ==
    {<<"INITIALIZED", "RUNNING">>, <<"INITIALIZED", "FAILED">>,
     <<"RUNNING", "COMPLETED">>, <<"RUNNING", "FAILED">>}

Terminal == {"COMPLETED", "FAILED"}

Init ==
    /\ phase = "INITIALIZED" /\ paused = FALSE /\ dataset = FALSE
    /\ step = 0 /\ expired = FALSE

Transition ==
    /\ <<phase, phase'>> \in Transitions
    /\ UNCHANGED <<paused, dataset, step, expired>>

PauseOrResume ==
    /\ phase # "gone"
    /\ paused' = ~paused
    /\ UNCHANGED <<phase, dataset, step, expired>>

Advance ==
    /\ phase # "gone"
    /\ step' \in Steps
    /\ UNCHANGED <<phase, paused, dataset, expired>>

BuildDataset ==
    /\ phase = "RUNNING" /\ ~paused
    /\ dataset' = TRUE
    /\ step' = IF step = 0 THEN 1 ELSE step
    /\ UNCHANGED <<phase, paused, expired>>

Forget ==
    /\ phase \in Terminal \/ expired'
    /\ phase' = "gone" /\ paused' = FALSE /\ dataset' = FALSE /\ step' = 0
    /\ expired' \in {expired, TRUE}

Next == Transition \/ PauseOrResume \/ Advance \/ BuildDataset \/ Forget

Spec == Init /\ [][Next]_vars
=============================================================================
