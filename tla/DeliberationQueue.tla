-------------------------- MODULE DeliberationQueue --------------------------
(***************************************************************************)
(* DeliberationQueue (deliberation_layer/deliberation_queue.py) and the    *)
(* HITLManager that puts its items under human review.                     *)
(*                                                                         *)
(* The asyncio tasks suspend only for the global lock and while a save     *)
(* made under it runs; the partition locks surround nothing else that      *)
(* suspends.  A save runs in a thread of its own: it reads the tasks while *)
(* the event loop goes on, truncates the file and writes it, and each of   *)
(* these may fail.  Callers may be cancelled where they wait.  Task ids    *)
(* are not reused.  Messages, metadata and the averages are left out.      *)
(***************************************************************************)
EXTENDS Naturals, Sequences, FiniteSets

CONSTANTS
    Items,          \* task ids
    Agents,         \* voters
    VoteTypes,      \* what they vote, "approve" among others
    RequiredVotes,  \* votes a multi-agent item asks for (5)
    LoadedVotes,    \* DEFAULT_REQUIRED_VOTES, what a loaded item asks for
    Threshold,      \* consensus_threshold in per cent (66)
    Saves,          \* bound: saves in progress at once
    NoSave,         \* the global lock is free, or held without a save
    Empty, Corrupt, \* contents of a file that is no snapshot
    NewStatuses,    \* bound: what update_status sets, any status in the code
    MaxOverrides,   \* bound: calls that overrule an item's status
    MaxEscalations, \* bound: decisions that leave an item under review
    MaxCancels,     \* bound: callers that are cancelled
    MaxRestarts     \* bound: ends of the process

ASSUME QueueAssumption ==
    /\ NewStatuses \subseteq {"pending", "under_review", "consensus_reached",
                              "approved", "rejected", "timed_out"}
    /\ VoteTypes \subseteq {"approve", "reject", "abstain"}
    /\ NoSave \notin Saves
    /\ RequiredVotes \in Nat \ {0} /\ LoadedVotes \in Nat \ {0}
    /\ Threshold \in 1..100
    /\ MaxOverrides \in Nat /\ MaxEscalations \in Nat
    /\ MaxCancels \in Nat /\ MaxRestarts \in Nat

VARIABLES
    \* tasks
    status,     \* of each item; "none": not enqueued, or not loaded
    required,   \* required_votes
    votes,      \* current_votes, at most one of each agent
    human_decision,
    \* the queue
    monitored,  \* items whose _monitor_task runs
    shutdown,   \* _shutdown
    waiting,    \* calls waiting for the global lock, with what they will count
    holder,     \* the save during which the global lock is held
    byMonitor,  \* it is held by a monitor
    stats,      \* the counters approved, rejected and timed_out
    \* persistence
    stage,      \* of each save
    snapshot,   \* what it has read
    file,       \* contents of persistence_path
    \* histories and bounds
    overruled,  \* items whose status was set whatever it was
    loaded,     \* items that came from the file
    lost,       \* decisions whose caller was cancelled before it counted them
    abandoned,  \* items whose caller was cancelled before they had a monitor
    clean,      \* saves that met no other one and no lost call
    tangled,    \* a save met another one, failed or was not made, and no clean
                \* one has been written since
    overrides, escalated, cancels, restarts

taskVars == <<status, required, votes, human_decision>>
lockVars == <<monitored, shutdown, waiting, holder, byMonitor, stats>>
saveVars == <<stage, snapshot, file, clean, tangled>>
pastVars ==
    <<overruled, loaded, lost, abandoned, overrides, escalated, cancels, restarts>>
vars == <<taskVars, lockVars, saveVars, pastVars>>

\* is_complete
Complete == {"approved", "rejected", "timed_out"}
Statuses == {"none", "pending", "under_review", "consensus_reached"} \cup Complete

Snapshots == [Items -> Statuses]
NoVotes == [a \in Agents |-> "none"]
NoTasks == [i \in Items |-> "none"]

\* What a reviewer may decide: an escalation leaves the item under review.
Decisions == {"approved", "rejected", "under_review"}

TypeOK ==
    /\ status \in Snapshots
    /\ required \in [Items -> {0, RequiredVotes, LoadedVotes}]
    /\ votes \in [Items -> [Agents -> VoteTypes \cup {"none"}]]
    /\ human_decision \in [Items -> Decisions \cup {"none"}]
    /\ monitored \subseteq {i \in Items : status[i] # "none"}
    /\ shutdown \in BOOLEAN /\ tangled \in BOOLEAN
    /\ waiting \in Seq([item : Items, as : {"queued", "approved", "rejected"}])
    /\ byMonitor \in BOOLEAN
    /\ holder \in Saves \cup {NoSave}
    /\ holder # NoSave => stage[holder] # "idle"
    /\ stats \in [Complete -> Nat]
    /\ stage \in [Saves -> {"idle", "reading", "read", "opened"}]
    /\ snapshot \in [Saves -> Snapshots]
    /\ file \in Snapshots \cup {Empty, Corrupt}
    /\ overruled \subseteq Items /\ loaded \subseteq Items
    /\ lost \in [Complete -> Nat] /\ abandoned \subseteq Items
    /\ clean \subseteq Saves
    /\ overrides \in 0..MaxOverrides /\ escalated \in 0..MaxEscalations
    /\ cancels \in 0..MaxCancels /\ restarts \in 0..MaxRestarts

Init ==
    /\ status = NoTasks
    /\ required = [i \in Items |-> 0]
    /\ votes = [i \in Items |-> NoVotes]
    /\ human_decision = NoTasks /\ monitored = {} /\ shutdown = FALSE
    /\ waiting = <<>> /\ holder = NoSave /\ byMonitor = FALSE
    /\ stats = [c \in Complete |-> 0]
    /\ stage = [s \in Saves |-> "idle"]
    /\ snapshot = [s \in Saves |-> NoTasks]
    /\ file = Empty
    /\ overruled = {} /\ loaded = {}
    /\ lost = [c \in Complete |-> 0] /\ abandoned = {}
    /\ clean = {} /\ tangled = FALSE
    /\ overrides = 0 /\ escalated = 0 /\ cancels = 0 /\ restarts = 0

Live(i) == status[i] # "none" /\ status[i] \notin Complete

-----------------------------------------------------------------------------
(* Saves and the global lock.                                              *)

Saving == {s \in Saves : stage[s] # "idle"}

\* A save starts in a thread of its own.
StartSave ==
    \E s \in Saves :
      /\ stage[s] = "idle"
      /\ stage' = [stage EXCEPT ![s] = "reading"]
      /\ clean' = IF Saving = {} THEN {s} ELSE {}
      /\ tangled' = (tangled \/ Saving # {})
      /\ UNCHANGED <<snapshot, file>>

\* Mutant of Account: no save is started while another one is in progress.
AccountSavingOnce(call) ==
    /\ \/ /\ call.as = "queued"
          /\ monitored' = IF shutdown THEN monitored ELSE monitored \cup {call.item}
          /\ UNCHANGED stats
       \/ /\ call.as # "queued"
          /\ stats' = [stats EXCEPT ![call.as] = @ + 1]
          /\ UNCHANGED monitored
    /\ IF Saving = {} THEN StartSave ELSE UNCHANGED saveVars

\* What a call does once it has the global lock: an enqueued item gets its
\* monitor, a decision is counted.  Both are then saved.
Account(call) ==
    /\ \/ /\ call.as = "queued"
          /\ monitored' = IF shutdown THEN monitored ELSE monitored \cup {call.item}
          /\ UNCHANGED stats
       \/ /\ call.as # "queued"
          /\ stats' = [stats EXCEPT ![call.as] = @ + 1]
          /\ UNCHANGED monitored
    /\ StartSave

\* A call reaches the global lock and takes it, unless others wait or hold it.
Acquire(call) ==
    \/ /\ holder = NoSave /\ waiting = <<>>
       /\ Account(call)
       /\ UNCHANGED <<shutdown, waiting, holder, byMonitor>>
    \/ /\ holder # NoSave \/ waiting # <<>>
       /\ waiting' = Append(waiting, call)
       /\ UNCHANGED <<monitored, shutdown, holder, byMonitor, stats, saveVars>>

\* The lock is free for the call that waited longest.
PassLock ==
    /\ waiting # <<>>
    /\ holder = NoSave
    /\ waiting' = Tail(waiting)
    /\ Account(Head(waiting))
    /\ UNCHANGED <<taskVars, shutdown, holder, byMonitor, pastVars>>

\* q without its k-th element.
Without(q, k) == [j \in 1..(Len(q) - 1) |-> IF j < k THEN q[j] ELSE q[j + 1]]

\* A caller is cancelled while it waits for the global lock: what it has done to
\* its item stays, but nothing is counted, monitored or saved.
CancelWaiting(k) ==
    /\ cancels < MaxCancels /\ cancels' = cancels + 1
    /\ waiting' = Without(waiting, k)
    /\ \/ /\ waiting[k].as = "queued"
          /\ abandoned' = abandoned \cup {waiting[k].item}
          /\ UNCHANGED lost
       \/ /\ waiting[k].as # "queued"
          /\ lost' = [lost EXCEPT ![waiting[k].as] = @ + 1]
          /\ UNCHANGED abandoned
    /\ clean' = {} /\ tangled' = TRUE
    /\ UNCHANGED <<taskVars, monitored, shutdown, holder, byMonitor, stats, stage,
                   snapshot, file, overruled, loaded, overrides, escalated, restarts>>

\* The caller of update_status is cancelled while its save runs: the lock is
\* free, and the thread goes on.
CancelUpdate ==
    /\ cancels < MaxCancels /\ cancels' = cancels + 1
    /\ holder # NoSave /\ ~byMonitor
    /\ holder' = NoSave
    /\ UNCHANGED <<taskVars, monitored, shutdown, waiting, byMonitor, stats, saveVars,
                   overruled, loaded, lost, abandoned, overrides, escalated, restarts>>

\* A call saves the tasks and keeps the lock until the save is over.
SaveLocked(monitor) ==
    /\ holder = NoSave
    /\ StartSave
    /\ holder' = CHOOSE s \in Saves : stage'[s] # stage[s]
    /\ byMonitor' = monitor

\* The lock is free if it was held for s.
Release(s) ==
    /\ holder' = IF holder = s THEN NoSave ELSE holder
    /\ byMonitor' = (byMonitor /\ holder # s)

\* The thread has read all tasks.
ReadTasks(s) ==
    /\ stage[s] = "reading"
    /\ stage' = [stage EXCEPT ![s] = "read"]
    /\ snapshot' = [snapshot EXCEPT ![s] = status]
    /\ UNCHANGED <<taskVars, lockVars, file, clean, tangled, pastVars>>

\* _save_tasks logs an error and goes on: a task was added while the thread
\* iterated over them, the metadata are no JSON, or the file cannot be opened
\* or written, not even in part.
SaveFails(s) ==
    /\ stage[s] # "idle"
    /\ stage' = [stage EXCEPT ![s] = "idle"]
    /\ snapshot' = [snapshot EXCEPT ![s] = NoTasks]
    /\ \/ UNCHANGED file
       \/ stage[s] = "opened" /\ file' = Corrupt
    /\ Release(s)
    /\ clean' = clean \ {s} /\ tangled' = TRUE
    /\ UNCHANGED <<taskVars, monitored, shutdown, waiting, stats, pastVars>>

\* open(path, "w") truncates the file.
OpenFile(s) ==
    /\ stage[s] = "read"
    /\ stage' = [stage EXCEPT ![s] = "opened"]
    /\ file' = Empty
    /\ UNCHANGED <<taskVars, lockVars, snapshot, clean, tangled, pastVars>>

\* Mutant of WriteFile: the lock is not released.
WriteFileKeepingLock(s) ==
    /\ stage[s] = "opened"
    /\ stage' = [stage EXCEPT ![s] = "idle"]
    /\ snapshot' = [snapshot EXCEPT ![s] = NoTasks]
    /\ file' = snapshot[s]
    /\ clean' = clean \ {s} /\ tangled' = (tangled /\ s \notin clean)
    /\ UNCHANGED <<taskVars, lockVars, pastVars>>

\* The text is written from the start of the file.  One that another save has
\* written since the file was truncated may be longer: its end remains.  A save
\* that met no other one makes up for those that failed before.
WriteFile(s) ==
    /\ stage[s] = "opened"
    /\ stage' = [stage EXCEPT ![s] = "idle"]
    /\ snapshot' = [snapshot EXCEPT ![s] = NoTasks]
    /\ \/ file' = snapshot[s]
       \/ file \notin {Empty, snapshot[s]} /\ file' = Corrupt
    /\ Release(s)
    /\ clean' = clean \ {s} /\ tangled' = (tangled /\ s \notin clean)
    /\ UNCHANGED <<taskVars, monitored, shutdown, waiting, stats, pastVars>>

-----------------------------------------------------------------------------
(* Operations of the queue.                                                *)

\* enqueue_for_deliberation
Enqueue(i, needed) ==
    /\ status[i] = "none"
    /\ status' = [status EXCEPT ![i] = "pending"]
    /\ required' = [required EXCEPT ![i] = needed]
    /\ Acquire([item |-> i, as |-> "queued"])
    /\ UNCHANGED <<votes, human_decision, pastVars>>

\* _check_consensus
Cast(v) == {a \in Agents : v[a] # "none"}

\* Mutant of Consensus: any number of votes will do.
ConsensusOfFew(i, v) ==
    /\ Cardinality(Cast(v)) > 0
    /\ 100 * Cardinality({a \in Agents : v[a] = "approve"})
         >= Threshold * Cardinality(Cast(v))

Consensus(i, v) ==
    /\ required[i] # 0
    /\ Cardinality(Cast(v)) >= required[i]
    /\ 100 * Cardinality({a \in Agents : v[a] = "approve"})
         >= Threshold * Cardinality(Cast(v))

\* submit_agent_vote: a vote replaces the agent's earlier one.
Vote(i, a, choice) ==
    /\ Live(i)
    /\ votes' = [votes EXCEPT ![i][a] = choice]
    /\ \/ /\ Consensus(i, votes'[i])
          /\ status' = [status EXCEPT ![i] = "approved"]
          /\ Acquire([item |-> i, as |-> "approved"])
       \/ /\ ~Consensus(i, votes'[i])
          /\ StartSave
          /\ UNCHANGED <<status, lockVars>>
    /\ UNCHANGED <<required, human_decision, pastVars>>

\* submit_human_decision, through HITLManager.process_approval or the layer's
\* method of that name, which may also escalate: the item stays under review,
\* yet the call counts it as rejected.
Decide(i, decision) ==
    /\ status[i] = "under_review"
    /\ status' = [status EXCEPT ![i] = decision]
    /\ human_decision' = [human_decision EXCEPT ![i] = decision]
    /\ Acquire([item |-> i,
                as |-> IF decision = "approved" THEN "approved" ELSE "rejected"])
    /\ \/ decision # "under_review" /\ UNCHANGED escalated
       \/ /\ decision = "under_review"
          /\ escalated < MaxEscalations /\ escalated' = escalated + 1
    /\ UNCHANGED <<required, votes, overruled, loaded, lost, abandoned, overrides,
                   cancels, restarts>>

\* Mutant of TimeOut: the monitor does not look at the task again once it has
\* the lock.
TimeOutUnchecked(i) ==
    /\ i \in monitored
    /\ monitored' = monitored \ {i}
    /\ status' = [status EXCEPT ![i] = "timed_out"]
    /\ stats' = [stats EXCEPT !["timed_out"] = @ + 1]
    /\ SaveLocked(TRUE)
    /\ UNCHANGED <<required, votes, human_decision, shutdown, waiting, pastVars>>

\* _monitor_task at its timeout: it has the lock until the save is over.
TimeOut(i) ==
    /\ i \in monitored
    /\ Live(i)
    /\ monitored' = monitored \ {i}
    /\ status' = [status EXCEPT ![i] = "timed_out"]
    /\ stats' = [stats EXCEPT !["timed_out"] = @ + 1]
    /\ SaveLocked(TRUE)
    /\ UNCHANGED <<required, votes, human_decision, shutdown, waiting, pastVars>>

\* Mutant of MonitorEnds: the monitor leaves an item to its reviewer.
MonitorEndsUnderReview(i) ==
    /\ i \in monitored
    /\ status[i] \in Complete \cup {"under_review"}
    /\ monitored' = monitored \ {i}
    /\ UNCHANGED <<taskVars, shutdown, waiting, holder, byMonitor, stats, saveVars,
                   pastVars>>

\* The monitor finds the task complete, on its next look or with the lock.
MonitorEnds(i) ==
    /\ i \in monitored
    /\ status[i] \in Complete
    /\ monitored' = monitored \ {i}
    /\ UNCHANGED <<taskVars, shutdown, waiting, holder, byMonitor, stats, saveVars,
                   pastVars>>

\* update_status, which resolve_task calls: any status, whatever it was.
Resolve(i, new) ==
    /\ status[i] # "none"
    /\ overrides < MaxOverrides /\ overrides' = overrides + 1
    /\ status' = [status EXCEPT ![i] = new]
    /\ overruled' = overruled \cup {i}
    /\ SaveLocked(FALSE)
    /\ UNCHANGED <<required, votes, human_decision, monitored, shutdown, waiting, stats,
                   loaded, lost, abandoned, escalated, cancels, restarts>>

\* HITLManager.request_approval: nothing is saved, and the status may have
\* been any.
RequestApproval(i) ==
    /\ Live(i)
    /\ status' = [status EXCEPT ![i] = "under_review"]
    /\ UNCHANGED <<required, votes, human_decision, lockVars, saveVars, pastVars>>

\* The same call for an item that is complete: it is open again.
Reopen(i) ==
    /\ status[i] \in Complete
    /\ overrides < MaxOverrides /\ overrides' = overrides + 1
    /\ status' = [status EXCEPT ![i] = "under_review"]
    /\ overruled' = overruled \cup {i}
    /\ UNCHANGED <<required, votes, human_decision, lockVars, saveVars, loaded,
                   lost, abandoned, escalated, cancels, restarts>>

\* Mutant of Stop: calls that wait for the lock are cancelled, too.
StopDroppingCalls ==
    /\ ~shutdown
    /\ shutdown' = TRUE
    /\ monitored' = {} /\ waiting' = <<>>
    /\ holder' = IF byMonitor THEN NoSave ELSE holder
    /\ byMonitor' = FALSE
    /\ UNCHANGED <<taskVars, stats, saveVars, pastVars>>

\* stop: the monitors are cancelled, and those of later items return at once.
\* One that waits for its save leaves the lock; the thread goes on.
Stop ==
    /\ ~shutdown
    /\ shutdown' = TRUE
    /\ monitored' = {}
    /\ holder' = IF byMonitor THEN NoSave ELSE holder
    /\ byMonitor' = FALSE
    /\ UNCHANGED <<taskVars, waiting, stats, saveVars, pastVars>>

\* The process ends and a new one loads the file: a loaded item has the
\* default number of required votes, no votes, no decision and no monitor.  A
\* file that does not parse is ignored.
Restart ==
    /\ restarts < MaxRestarts /\ restarts' = restarts + 1
    /\ status' = IF file \in {Empty, Corrupt} THEN NoTasks ELSE file
    /\ required' = [i \in Items |-> IF status'[i] = "none" THEN 0 ELSE LoadedVotes]
    /\ votes' = [i \in Items |-> NoVotes]
    /\ human_decision' = NoTasks /\ monitored' = {} /\ shutdown' = FALSE
    /\ waiting' = <<>> /\ holder' = NoSave /\ byMonitor' = FALSE
    /\ stats' = [c \in Complete |-> 0]
    /\ stage' = [s \in Saves |-> "idle"]
    /\ snapshot' = [s \in Saves |-> NoTasks]
    /\ loaded' = {i \in Items : status'[i] # "none"}
    /\ overruled' = overruled \cap loaded'
    /\ lost' = [c \in Complete |-> 0] /\ abandoned' = {}
    /\ overrides' = 0 /\ escalated' = 0 /\ cancels' = 0
    /\ clean' = {} /\ tangled' = FALSE
    /\ UNCHANGED file

-----------------------------------------------------------------------------
Save(s) == ReadTasks(s) \/ OpenFile(s) \/ WriteFile(s) \/ SaveFails(s)

Next ==
    \/ \E i \in Items :
         \/ \E needed \in {0, RequiredVotes} : Enqueue(i, needed)
         \/ \E a \in Agents, choice \in VoteTypes : Vote(i, a, choice)
         \/ \E decision \in Decisions : Decide(i, decision)
         \/ \E new \in NewStatuses : Resolve(i, new)
         \/ TimeOut(i) \/ MonitorEnds(i) \/ RequestApproval(i) \/ Reopen(i)
    \/ PassLock \/ CancelUpdate
    \/ \E k \in 1..Len(waiting) : CancelWaiting(k)
    \/ \E s \in Saves : Save(s)
    \/ Stop \/ Restart

Spec == Init /\ [][Next]_vars

\* A monitor wakes up and gets the lock in its turn, a thread ends, and a call
\* that waits for the lock goes on.  Nobody need vote or decide.
Fairness ==
    /\ \A i \in Items : SF_vars(TimeOut(i)) /\ WF_vars(MonitorEnds(i))
    /\ \A s \in Saves : WF_vars(Save(s))
    /\ SF_vars(PassLock)

FairSpec == Spec /\ Fairness

-----------------------------------------------------------------------------
(* Properties.                                                             *)

\* Of votes, human decisions and the timeout, which use different locks, the
\* first to complete an item wins; only a call that overrules it or a restart
\* changes its status afterwards.
DecisionStands ==
    [][\A i \in Items :
         (status[i] \in Complete /\ status'[i] # status[i]) =>
             (i \in overruled' \/ restarts' # restarts)]_vars

\* An item that nobody overruled is approved by a reviewer or by enough votes
\* as they stand after every change of mind, and rejected by a reviewer only.
DecisionIsEarned ==
    \A i \in Items \ (overruled \cup loaded) :
      /\ status[i] = "rejected" => human_decision[i] = "rejected"
      /\ status[i] = "approved" /\ human_decision[i] # "approved" =>
           LET approvals == Cardinality({a \in Agents : votes[i][a] = "approve"})
           IN  /\ required[i] # 0 /\ Cardinality(Cast(votes[i])) >= required[i]
               /\ 100 * approvals >= Threshold * Cardinality(Cast(votes[i]))

Waiting(as) == Cardinality({k \in 1..Len(waiting) : waiting[k].as = as})

\* The counters add up to the items that ended, each once and under its final
\* status, however long its call waits for the lock, through a stop or a timeout
\* at the same moment.  They differ by the calls cancelled while they waited, and
\* by the escalations, which count as rejections of an item that goes on.
StatsAddUp ==
    overruled \cup loaded = {} =>
      \A c \in Complete :
        stats[c] + Waiting(c) + lost[c] =
          Cardinality({i \in Items : status[i] = c})
            + (IF c = "rejected" THEN escalated ELSE 0)

\* With nothing left to do the file holds every decision, unless a save met
\* another one, failed or was never made, and none was written since that was
\* alone from start to end.
PersistedWhenQuiet ==
    Saving = {} /\ waiting = <<>> /\ ~tangled =>
      \A i \in Items : status[i] \in Complete =>
        file \in Snapshots /\ file[i] = status[i]

\* While the process runs, an item is completed in the end, by its monitor if by
\* nobody else, once its caller has been told that it is enqueued.
ItemEnds ==
    \A i \in Items :
      Live(i) ~> (~Live(i) \/ shutdown \/ i \in overruled \cup loaded \cup abandoned)

-----------------------------------------------------------------------------
(* What the code does not keep.                                            *)

\* An item loaded from the file is completed in the end.
LoadedItemEnds == \A i \in Items : Live(i) ~> (~Live(i) \/ shutdown)

\* Each item is counted once.
EachCountedOnce ==
    overruled \cup loaded = {} =>
      \A c \in Complete :
        stats[c] + Waiting(c) = Cardinality({i \in Items : status[i] = c})

\* With nothing left to do the file holds every decision.
DecisionsArePersisted ==
    Saving = {} /\ waiting = <<>> =>
      \A i \in Items : status[i] \in Complete =>
        file \in Snapshots /\ file[i] = status[i]
=============================================================================
