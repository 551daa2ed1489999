----------------------------- MODULE FlywheelRun -----------------------------
(***************************************************************************)
(* One flywheel run in the Redis saga store: the dataset build of          *)
(* FlywheelRunOrchestrator, the operations an operator calls meanwhile     *)
(* (SagaStateRepository) and the cleanup of old sagas, all of them         *)
(* read-modify-write calls on one hash and on the indexes of sagas by      *)
(* state.                                                                  *)
(*                                                                         *)
(* Each call to Redis is a step; a pipeline is a transaction.  The stage   *)
(* of a run goes with its step index; timestamps, the tenant index,        *)
(* context and metadata are left out.  A run of a flywheel has no steps    *)
(* and no compensations, and nothing of it uses the distributed lock.      *)
(***************************************************************************)
EXTENDS Naturals

CONSTANTS
    Tasks,          \* calls in progress at once
    Steps,          \* indexes of the stages of a run
    NoRun,          \* the hash does not exist
    MaxOps          \* bound: operations started

States == {"INITIALIZED", "RUNNING", "COMPLETED", "FAILED"}

Runs == [named : BOOLEAN, state : States, paused : BOOLEAN, dataset : BOOLEAN,
         step : Steps, version : Nat]

ASSUME RunAssumption ==
    /\ NoRun \notin Runs
    /\ {0, 1} \subseteq Steps /\ Steps \subseteq Nat
    /\ MaxOps \in Nat

VARIABLES
    \* Redis
    record,     \* the hash of the run
    timed,      \* it has a time to live
    indexes,    \* the states under whose index the run is listed
    checkpoint, \* the latest checkpoint: "none", or the dataset of its run
    \* calls
    pc,         \* the call to Redis a task is about to make
    op,         \* the operation it executes
    mine,       \* the run it is going to save
    old,        \* the hash it read in the current repository call
    \* histories
    base,       \* the stored run that mine was made from
    raced,      \* a repository call wrote over what another had just written
    stale,      \* a save replaced a run that was no longer base
    overtaken,  \* a build went on with a run paused or ended since its start
    expired,    \* the time to live has run out
    started     \* operations started, for the bound

redis  == <<record, timed, indexes, checkpoint>>
locals == <<pc, op, mine, old, base>>
past   == <<raced, stale, overtaken, expired>>
vars   == <<redis, locals, past, started>>

Terminal == {"COMPLETED", "FAILED"}

\* VALID_STATE_TRANSITIONS
Valid(from) ==
    CASE from = "INITIALIZED" -> {"RUNNING", "FAILED"}
      [] from = "RUNNING"     -> {"COMPLETED", "FAILED"}
      [] OTHER                -> {}

\* What a write leaves that finds no hash: one without a saga name, which no
\* longer reads as a run of the flywheel.
Fragment == [named |-> FALSE, state |-> "INITIALIZED", paused |-> FALSE,
             dataset |-> FALSE, step |-> 0, version |-> 0]

Stored == IF record = NoRun THEN Fragment ELSE record

\* get_flywheel_run finds the run.
Found == record # NoRun /\ record.named

Ops == {"none", "build", "change", "resume", "complete", "stop", "delete"}

Target(t) == CASE op[t] = "complete" -> "COMPLETED"
               [] op[t] = "stop"     -> "FAILED"
               [] OTHER              -> "RUNNING"

Calls == {"idle", "stateRead", "stateWrite", "reget", "building", "stepCheck",
          "stepWrite", "saveRead", "saveWrite", "checkpointRead",
          "checkpointWrite", "deleteRead", "deleteWrite"}

TypeOK ==
    /\ record \in Runs \cup {NoRun}
    /\ timed \in BOOLEAN
    /\ indexes \subseteq States
    /\ checkpoint \in {"none", "missing", "built"}
    /\ pc \in [Tasks -> Calls] /\ op \in [Tasks -> Ops]
    /\ \A t \in Tasks : pc[t] = "idle" <=> op[t] = "none"
    /\ mine \in [Tasks -> Runs \cup {NoRun}]
    /\ old \in [Tasks -> Runs \cup {NoRun}]
    /\ base \in [Tasks -> Runs \cup {NoRun}]
    /\ raced \in BOOLEAN /\ stale \in BOOLEAN
    /\ overtaken \in BOOLEAN /\ expired \in BOOLEAN
    /\ started \in 0..MaxOps

\* The run as save_flywheel_run created it.
Init ==
    /\ record = [named |-> TRUE, state |-> "INITIALIZED", paused |-> FALSE,
                 dataset |-> FALSE, step |-> 0, version |-> 1]
    /\ timed = TRUE /\ indexes = {"INITIALIZED"} /\ checkpoint = "none"
    /\ pc = [t \in Tasks |-> "idle"] /\ op = [t \in Tasks |-> "none"]
    /\ mine = [t \in Tasks |-> NoRun]
    /\ old = [t \in Tasks |-> NoRun] /\ base = [t \in Tasks |-> NoRun]
    /\ raced = FALSE /\ stale = FALSE /\ overtaken = FALSE /\ expired = FALSE
    /\ started = 0

-----------------------------------------------------------------------------
(* Operations, up to their first read.                                     *)

Goto(t, next) == pc' = [pc EXCEPT ![t] = next]

Keep(t, run) == mine' = [mine EXCEPT ![t] = run] /\ base' = [base EXCEPT ![t] = record]

\* The operation is over, by its result or an exception.
Done(t) ==
    /\ Goto(t, "idle")
    /\ op' = [op EXCEPT ![t] = "none"]
    /\ mine' = [mine EXCEPT ![t] = NoRun]
    /\ old' = [old EXCEPT ![t] = NoRun] /\ base' = [base EXCEPT ![t] = NoRun]

Begin(t, operation, next) ==
    /\ pc[t] = "idle"
    /\ started < MaxOps /\ started' = started + 1
    /\ op' = [op EXCEPT ![t] = operation]
    /\ Goto(t, next)
    /\ UNCHANGED <<redis, old, past>>

\* An operation that makes run of the run it found.
BeginWith(t, operation, next, run) ==
    /\ Found
    /\ Begin(t, operation, next)
    /\ Keep(t, run)

\* Mutant of Build: a paused run is not refused.
BuildPaused(t) ==
    /\ Found /\ record.state \notin Terminal
    /\ LET next == IF record.state = "INITIALIZED" THEN "stateRead" ELSE "building"
       IN  BeginWith(t, "build", next, record)

\* run_dataset_build_step
Build(t) ==
    /\ Found /\ ~record.paused /\ record.state \notin Terminal
    /\ LET next == IF record.state = "INITIALIZED" THEN "stateRead" ELSE "building"
       IN  BeginWith(t, "build", next, record)

\* pause_flywheel_run
Pause(t) == BeginWith(t, "change", "saveRead", [record EXCEPT !.paused = TRUE])

\* resume_flywheel_run, which starts a run that is not.
Resume(t) ==
    \/ /\ Found /\ record.state = "INITIALIZED"
       /\ BeginWith(t, "resume", "stateRead", record)
    \/ /\ Found /\ record.state # "INITIALIZED"
       /\ BeginWith(t, "change", "saveRead", [record EXCEPT !.paused = FALSE])

\* advance_flywheel_run_stage
Advance(t, k) == BeginWith(t, "change", "stepCheck", [record EXCEPT !.step = k])

\* complete_flywheel_run
Complete(t) ==
    /\ Begin(t, "complete", "stateRead")
    /\ UNCHANGED <<mine, base>>

\* stop_flywheel_run
Stop(t) ==
    /\ Begin(t, "stop", "stateRead")
    /\ UNCHANGED <<mine, base>>

\* cleanup_old_sagas: what it finds under the index of a terminal state, in
\* whatever state it then is.
CleanUp(t) ==
    /\ indexes \cap Terminal # {} /\ record # NoRun
    /\ Begin(t, "delete", "deleteRead")
    /\ UNCHANGED <<mine, base>>

-----------------------------------------------------------------------------
(* The calls of the repository.                                            *)

\* Mutant of Reindexed: the run is only added.
ReindexedTwice(t, state) == indexes \cup {state}

\* Mutant of Reindexed: the old index is cleared last, also when it is the new one.
ReindexedFirst(t, state) ==
    (indexes \cup {state}) \ (IF old[t] = NoRun THEN {} ELSE {old[t].state})

\* srem of the state that was read, sadd of the new one.
Reindexed(t, state) ==
    (IF old[t] = NoRun THEN indexes ELSE indexes \ {old[t].state}) \cup {state}

\* update_state, its read: no run or a transition that is not valid ends the
\* operation.
StateRead(t) ==
    /\ pc[t] = "stateRead"
    /\ \/ /\ record = NoRun \/ Target(t) \notin Valid(Stored.state)
          /\ Done(t)
       \/ /\ record # NoRun /\ Target(t) \in Valid(Stored.state)
          /\ Goto(t, "stateWrite")
          /\ old' = [old EXCEPT ![t] = record]
          /\ UNCHANGED <<op, mine, base>>
    /\ UNCHANGED <<redis, past, started>>

\* update_state, its pipeline.
StateWrite(t) ==
    /\ pc[t] = "stateWrite"
    /\ record' = [Stored EXCEPT !.state = Target(t),
                                !.version = (IF old[t].version = 0
                                               THEN 1 ELSE old[t].version) + 1]
    /\ timed' = (timed /\ record # NoRun)
    /\ indexes' = Reindexed(t, Target(t))
    /\ raced' = (raced \/ record # old[t])
    /\ \/ op[t] \in {"build", "resume"} /\ Goto(t, "reget")
            /\ UNCHANGED <<op, mine, old, base>>
       \/ op[t] \notin {"build", "resume"} /\ Done(t)
    /\ UNCHANGED <<checkpoint, stale, overtaken, expired, started>>

\* The run is read again: the build goes on with what it has if it is gone,
\* and does not look again whether it is paused or ended.
Reget(t) ==
    /\ pc[t] = "reget"
    /\ \/ /\ op[t] = "build" /\ Found
          /\ Goto(t, "building") /\ Keep(t, record)
          /\ overtaken' = (overtaken \/ record.paused \/ record.state \in Terminal)
          /\ UNCHANGED <<op, old>>
       \/ /\ op[t] = "build" /\ ~Found
          /\ Goto(t, "building") /\ UNCHANGED <<op, mine, old, base, overtaken>>
       \/ /\ op[t] = "resume" /\ Found
          /\ Goto(t, "saveRead") /\ Keep(t, [record EXCEPT !.paused = FALSE])
          /\ UNCHANGED <<op, old, overtaken>>
       \/ /\ op[t] = "resume" /\ ~Found
          /\ Done(t) /\ UNCHANGED overtaken
    /\ UNCHANGED <<redis, raced, stale, expired, started>>

\* run.step_index moves on from the first stage only.
WithDataset(run) ==
    [run EXCEPT !.dataset = TRUE, !.step = IF run.step = 0 THEN 1 ELSE run.step]

\* Mutant of DatasetBuilt: the checkpoint is taken before the run is saved.
DatasetBuiltUnsaved(t) ==
    /\ pc[t] = "building"
    /\ Goto(t, "checkpointRead")
    /\ mine' = [mine EXCEPT ![t] = WithDataset(mine[t])]
    /\ UNCHANGED <<redis, op, old, base, past, started>>

\* build_snapshot ends.
DatasetBuilt(t) ==
    /\ pc[t] = "building"
    /\ Goto(t, "saveRead")
    /\ mine' = [mine EXCEPT ![t] = WithDataset(mine[t])]
    /\ UNCHANGED <<redis, op, old, base, past, started>>

\* build_snapshot raises: the run is stopped.
BuildFails(t) ==
    /\ pc[t] = "building"
    /\ Goto(t, "stateRead")
    /\ op' = [op EXCEPT ![t] = "stop"]
    /\ UNCHANGED <<redis, mine, old, base, past, started>>

\* update_current_step
StepCheck(t) ==
    /\ pc[t] = "stepCheck"
    /\ \/ record = NoRun /\ Done(t)
       \/ record # NoRun /\ Goto(t, "stepWrite") /\ UNCHANGED <<op, mine, old, base>>
    /\ UNCHANGED <<redis, past, started>>

StepWrite(t) ==
    /\ pc[t] = "stepWrite"
    /\ record' = [Stored EXCEPT !.step = mine[t].step]
    /\ timed' = (timed /\ record # NoRun)
    /\ raced' = (raced \/ record = NoRun)
    /\ base' = [base EXCEPT ![t].step = mine[t].step]
    /\ Goto(t, "saveRead")
    /\ UNCHANGED <<indexes, checkpoint, op, mine, old, stale, overtaken, expired, started>>

\* Mutant of Accepted: the version is not compared.
AcceptedAlways(t) == TRUE

\* The run to save carries the version after the one it was made from, and is
\* accepted over that one or over its own.
Accepted(t) ==
    record = NoRun \/ Stored.version \in {mine[t].version, mine[t].version + 1}

\* save, its read.
SaveRead(t) ==
    /\ pc[t] = "saveRead"
    /\ \/ /\ Accepted(t)
          /\ Goto(t, "saveWrite")
          /\ old' = [old EXCEPT ![t] = record]
          /\ UNCHANGED <<op, mine, base>>
       \/ ~Accepted(t) /\ Done(t)
    /\ UNCHANGED <<redis, past, started>>

\* save, its pipeline.
SaveWrite(t) ==
    /\ pc[t] = "saveWrite"
    /\ record' = [mine[t] EXCEPT !.version = @ + 1]
    /\ timed' = TRUE
    /\ indexes' = Reindexed(t, mine[t].state)
    /\ raced' = (raced \/ record # old[t])
    /\ stale' = (stale \/ record # base[t])
    /\ \/ op[t] = "build" /\ Goto(t, "checkpointRead")
            /\ UNCHANGED <<op, mine, old, base>>
       \/ op[t] # "build" /\ Done(t)
    /\ UNCHANGED <<checkpoint, overtaken, expired, started>>

\* save_flywheel_checkpoint reads the run, and then save_checkpoint writes.
CheckpointRead(t) ==
    /\ pc[t] = "checkpointRead"
    /\ \/ ~Found /\ Done(t)
       \/ /\ Found
          /\ Goto(t, "checkpointWrite")
          /\ old' = [old EXCEPT ![t] = record]
          /\ UNCHANGED <<op, mine, base>>
    /\ UNCHANGED <<redis, past, started>>

CheckpointWrite(t) ==
    /\ pc[t] = "checkpointWrite"
    /\ checkpoint' = IF old[t].dataset THEN "built" ELSE "missing"
    /\ Done(t)
    /\ UNCHANGED <<record, timed, indexes, past, started>>

\* delete
DeleteRead(t) ==
    /\ pc[t] = "deleteRead"
    /\ \/ record = NoRun /\ Done(t)
       \/ /\ record # NoRun
          /\ Goto(t, "deleteWrite")
          /\ old' = [old EXCEPT ![t] = record]
          /\ UNCHANGED <<op, mine, base>>
    /\ UNCHANGED <<redis, past, started>>

DeleteWrite(t) ==
    /\ pc[t] = "deleteWrite"
    /\ record' = NoRun /\ checkpoint' = "none" /\ timed' = FALSE
    /\ indexes' = indexes \ {old[t].state}
    /\ raced' = (raced \/ record # old[t])
    /\ Done(t)
    /\ UNCHANGED <<stale, overtaken, expired, started>>

\* Mutant of Abort: the operation is still counted as under way.
AbortKeepingOp(t) ==
    /\ pc[t] # "idle"
    /\ Goto(t, "idle")
    /\ UNCHANGED <<redis, past, started, op, mine, old, base>>

\* A call raises or its task is cancelled, or the process ends.
Abort(t) ==
    /\ pc[t] # "idle"
    /\ Done(t)
    /\ UNCHANGED <<redis, past, started>>

\* The hash expires; the run stays in the index.  Bound: once, for one that a
\* late save writes again lives as long as the first.
KeyExpires ==
    /\ record # NoRun /\ timed /\ ~expired
    /\ record' = NoRun /\ timed' = FALSE
    /\ expired' = TRUE
    /\ UNCHANGED <<indexes, checkpoint, locals, raced, stale, overtaken, started>>

-----------------------------------------------------------------------------
Operation(t) ==
    \/ Build(t) \/ Pause(t) \/ Resume(t) \/ (\E k \in Steps : Advance(t, k))
    \/ Complete(t) \/ Stop(t) \/ CleanUp(t)

Call(t) ==
    \/ StateRead(t) \/ StateWrite(t) \/ Reget(t) \/ DatasetBuilt(t) \/ BuildFails(t)
    \/ StepCheck(t) \/ StepWrite(t) \/ SaveRead(t) \/ SaveWrite(t)
    \/ CheckpointRead(t) \/ CheckpointWrite(t) \/ DeleteRead(t) \/ DeleteWrite(t)

Next ==
    \/ \E t \in Tasks : Operation(t) \/ Call(t) \/ Abort(t)
    \/ KeyExpires

Spec == Init /\ [][Next]_vars

-----------------------------------------------------------------------------
(* Properties.                                                             *)

\* Through every overlap, a stored run is found by its state: pending and
\* timed-out sagas are looked for in the indexes only.
FoundByState == Found => record.state \in indexes

\* The run is under one index, and under none when it is deleted, as long as
\* no call wrote over what it had not read and the key did not expire.
IndexAgrees ==
    ~raced /\ ~expired =>
        indexes = IF record = NoRun THEN {} ELSE {record.state}

\* Each update raises or keeps the version, also one that a stale save makes:
\* the comparison of versions stays meaningful.
VersionsAscend ==
    [][raced' \/ record = NoRun \/ record' = NoRun
         \/ record'.version >= record.version]_vars

\* The checkpoint dataset_build_completed holds a run that has its dataset.
CheckpointHasDataset ==
    ~raced /\ ~stale => checkpoint # "missing"

Lifecycle ==
    INSTANCE RunLifecycle
      WITH phase <- IF record = NoRun THEN "gone" ELSE record.state,
           paused <- Stored.paused, dataset <- Stored.dataset, step <- Stored.step

\* While no save is stale and no call races another, a run lives as its table
\* of transitions says, over aborted, failed and repeated operations: a build,
\* however long, adds its dataset to a running run that nobody paused.
KeepsLifecycle ==
    /\ Lifecycle!Init
    /\ [][raced' \/ stale' \/ overtaken' \/ Lifecycle!Next]_(Lifecycle!vars)

-----------------------------------------------------------------------------
(* What the documentation says and the code does not keep.                 *)

\* "Terminal state", and a save that "will fail to prevent lost updates" if
\* the version has changed: with every call of the repository undisturbed, a
\* completed or failed run stays so until it is gone.
TerminalIsFinal ==
    [][Found /\ record.state \in Terminal =>
         raced' \/ record' = NoRun \/ record'.state = record.state]_vars

\* "Uses Redis HASH for saga state storage with automatic TTL."
StoredIsTimed == record # NoRun => timed
=============================================================================
