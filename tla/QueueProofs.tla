---------------------------- MODULE QueueProofs ----------------------------
(***************************************************************************)
(* Proofs about DeliberationQueue, for any items, agents, votes and saves: *)
(* its decisions stand and are earned, each is counted once, and what is   *)
(* decided is in the file when the queue is quiet.                         *)
(***************************************************************************)
EXTENDS DeliberationQueue, FiniteSetTheorems, FunctionTheorems, TLAPS

-----------------------------------------------------------------------------
(* The inductive invariant.                                                *)

Calls == [item : Items, as : {"queued", "approved", "rejected"}]
Stages == {"idle", "reading", "read", "opened"}

TaskTypes ==
    /\ status \in Snapshots
    /\ required \in [Items -> {0, RequiredVotes, LoadedVotes}]
    /\ votes \in [Items -> [Agents -> VoteTypes \cup {"none"}]]
    /\ human_decision \in [Items -> Decisions \cup {"none"}]

\* The task of a call that waits exists.
CallsOK(q, tasks) ==
    /\ q \in Seq(Calls)
    /\ \A k \in 1..Len(q) : tasks[q[k].item] # "none"

LockTypes ==
    /\ monitored \subseteq {i \in Items : status[i] # "none"}
    /\ CallsOK(waiting, status)
    /\ stats \in [Complete -> Nat]

HolderSaves ==
    /\ holder \in Saves \cup {NoSave}
    /\ holder # NoSave => stage[holder] # "idle"

Flags == shutdown \in BOOLEAN /\ tangled \in BOOLEAN /\ byMonitor \in BOOLEAN

SaveTypes ==
    /\ stage \in [Saves -> Stages]
    /\ snapshot \in [Saves -> Snapshots]
    /\ file \in Snapshots \cup {Empty, Corrupt}
    /\ clean \subseteq Saves

PastTypes ==
    /\ overruled \subseteq Items /\ loaded \subseteq Items
    /\ lost \in [Complete -> Nat] /\ abandoned \subseteq Items
    /\ overrides \in 0..MaxOverrides /\ escalated \in 0..MaxEscalations
    /\ cancels \in 0..MaxCancels /\ restarts \in 0..MaxRestarts

Types == TaskTypes /\ LockTypes /\ HolderSaves /\ Flags /\ SaveTypes /\ PastTypes

\* f holds every decision.
Holds(f) ==
    \A i \in Items : status[i] \in Complete => f \in Snapshots /\ f[i] = status[i]

\* A clean save is the only one and writes to an empty file, and with no call
\* waiting, what it has read holds every decision.  Unless tangled, every save is
\* clean, and with none in progress and no call waiting the file holds them.
Kept ==
    /\ \A s \in clean :
         /\ stage[s] # "idle"
         /\ \A t \in Saves : stage[t] # "idle" => t = s
         /\ stage[s] = "opened" => file = Empty
         /\ waiting = <<>> /\ stage[s] \in {"read", "opened"} => Holds(snapshot[s])
    /\ tangled = FALSE =>
         /\ \A s \in Saves : stage[s] # "idle" => s \in clean
         /\ waiting = <<>> /\ (\A s \in Saves : stage[s] = "idle") => Holds(file)

Counting(q, as) == {k \in 1..Len(q) : q[k].as = as}

Ended(tasks, c) == {i \in Items : tasks[i] = c}

Tally(c) == stats[c] + Cardinality(Counting(waiting, c)) + lost[c]

Extra(c) == IF c = "rejected" THEN escalated ELSE 0

CountedAs(c) ==
    /\ IsFiniteSet(Ended(status, c))
    /\ Tally(c) = Cardinality(Ended(status, c)) + Extra(c)

\* As many items have ended in a way, or were escalated, as are counted, wait to
\* be or were lost.
Counted == overruled \cup loaded = {} => \A c \in Complete : CountedAs(c)

QInv == Types /\ Kept /\ Counted /\ DecisionIsEarned

-----------------------------------------------------------------------------
(* Calls and saves.                                                        *)

LEMMA AppendCalls ==
  ASSUME NEW q \in Seq(Calls), NEW call \in Calls, NEW tasks,
         CallsOK(q, tasks), tasks[call.item] # "none"
  PROVE  CallsOK(Append(q, call), tasks)
<1>1. /\ Append(q, call) \in Seq(Calls) /\ Len(Append(q, call)) = Len(q) + 1
      /\ Len(q) \in Nat /\ Append(q, call)[Len(q) + 1] = call
      /\ \A k \in 1..Len(q) : Append(q, call)[k] = q[k]
  OBVIOUS
<1>2. ASSUME NEW k \in 1..Len(Append(q, call))
      PROVE  tasks[Append(q, call)[k].item] # "none"
  <2>1. CASE k \in 1..Len(q)
    BY <1>1, <2>1 DEF CallsOK
  <2>2. CASE k \notin 1..Len(q)
    <3>1. k = Len(q) + 1
      BY <1>1, <2>2
    <3>. QED BY <1>1, <3>1
  <2>. QED BY <2>1, <2>2
<1>. QED BY <1>1, <1>2 DEF CallsOK

LEMMA TailCalls ==
  ASSUME NEW q, q # <<>>, NEW tasks, CallsOK(q, tasks)
  PROVE  /\ CallsOK(Tail(q), tasks)
         /\ Head(q) \in Calls /\ tasks[Head(q).item] # "none"
<1>1. /\ q \in Seq(Calls) /\ Len(q) \in Nat /\ Len(q) > 0
      /\ Head(q) = q[1] /\ Head(q) \in Calls
      /\ Tail(q) \in Seq(Calls) /\ Len(Tail(q)) = Len(q) - 1
      /\ \A k \in 1..Len(Tail(q)) : Tail(q)[k] = q[k + 1]
  BY DEF CallsOK
<1>. QED BY <1>1 DEF CallsOK

LEMMA WithoutIsSeq ==
  ASSUME NEW q \in Seq(Calls), NEW k \in 1..Len(q)
  PROVE  /\ Without(q, k) \in Seq(Calls) /\ Len(Without(q, k)) = Len(q) - 1
         /\ \A j \in 1..(Len(q) - 1) :
              Without(q, k)[j] = IF j < k THEN q[j] ELSE q[j + 1]
<1>1. Len(q) \in Nat /\ Len(q) - 1 \in Nat /\ \A j \in 1..Len(q) : q[j] \in Calls
  OBVIOUS
<1>2. \A j \in 1..(Len(q) - 1) : (IF j < k THEN q[j] ELSE q[j + 1]) \in Calls
  BY <1>1
<1>3. Without(q, k) \in [1..(Len(q) - 1) -> Calls]
  BY <1>2 DEF Without
<1>. QED BY <1>1, <1>3 DEF Without

LEMMA WithoutCalls ==
  ASSUME NEW q, NEW tasks, CallsOK(q, tasks), NEW k \in 1..Len(q)
  PROVE  CallsOK(Without(q, k), tasks)
<1>1. /\ q \in Seq(Calls) /\ Len(q) \in Nat
      /\ \A j \in 1..Len(q) : tasks[q[j].item] # "none"
  BY DEF CallsOK
<1>2. /\ Without(q, k) \in Seq(Calls) /\ Len(Without(q, k)) = Len(q) - 1
      /\ \A j \in 1..(Len(q) - 1) :
           Without(q, k)[j] = IF j < k THEN q[j] ELSE q[j + 1]
  BY <1>1, WithoutIsSeq
<1>. QED BY <1>1, <1>2 DEF CallsOK

\* A call that waits keeps its task as long as tasks are only added.
LEMMA CallsKeep ==
  ASSUME CallsOK(waiting, status), status' \in Snapshots,
         \A i \in Items : status[i] # "none" => status'[i] # "none"
  PROVE  CallsOK(waiting, status')
<1>1. \A k \in 1..Len(waiting) : waiting[k] \in Calls
  <2>1. waiting \in Seq(Calls)
    BY DEF CallsOK
  <2>. QED BY <2>1
<1>2. \A c \in Calls : c.item \in Items
  BY DEF Calls
<1>. QED BY <1>1, <1>2 DEF CallsOK

LEMMA StartSaveTypes ==
  ASSUME SaveTypes, StartSave
  PROVE  /\ SaveTypes' /\ tangled' \in BOOLEAN
         /\ \A s \in Saves : stage[s] # "idle" => stage'[s] # "idle"
<1>1. PICK s \in Saves :
        /\ stage[s] = "idle"
        /\ stage' = [stage EXCEPT ![s] = "reading"]
        /\ clean' = IF Saving = {} THEN {s} ELSE {}
        /\ tangled' = (tangled \/ Saving # {})
        /\ UNCHANGED <<snapshot, file>>
  BY Zenon DEF StartSave
<1>2. tangled' \in BOOLEAN
  BY <1>1, Zenon
<1>3. stage' \in [Saves -> Stages]
      /\ \A t \in Saves : stage[t] # "idle" => stage'[t] # "idle"
  BY <1>1 DEF SaveTypes, Stages
<1>4. clean' \subseteq Saves
  BY <1>1
<1>. QED BY <1>1, <1>2, <1>3, <1>4 DEF SaveTypes

LEMMA AccountTypes ==
  ASSUME SaveTypes, NEW call \in Calls,
         monitored \subseteq {i \in Items : status'[i] # "none"},
         status'[call.item] # "none", stats \in [Complete -> Nat],
         Account(call)
  PROVE  /\ SaveTypes' /\ tangled' \in BOOLEAN
         /\ \A s \in Saves : stage[s] # "idle" => stage'[s] # "idle"
         /\ monitored' \subseteq {i \in Items : status'[i] # "none"}
         /\ stats' \in [Complete -> Nat]
<1>1. StartSave
  BY DEF Account
<1>2. call.item \in Items /\ call.as \in {"queued", "approved", "rejected"}
  BY DEF Calls
<1>3. CASE call.as = "queued"
  BY <1>1, <1>2, <1>3, StartSaveTypes DEF Account
<1>4. CASE call.as # "queued"
  <2>1. call.as \in Complete
    BY <1>2, <1>4 DEF Complete
  <2>2. stats' = [stats EXCEPT ![call.as] = @ + 1] /\ monitored' = monitored
    BY <1>4 DEF Account
  <2>. QED BY <1>1, <2>1, <2>2, StartSaveTypes
<1>. QED BY <1>3, <1>4

\* Tasks are only added, and what a step does to tasks and calls fits.
TasksGrow ==
    /\ status' \in Snapshots
    /\ \A i \in Items : status[i] # "none" => status'[i] # "none"

LEMMA AcquireTypes ==
  ASSUME Types, TasksGrow, NEW call \in Calls, status'[call.item] # "none",
         Acquire(call)
  PROVE  LockTypes' /\ HolderSaves' /\ Flags' /\ SaveTypes'
<1>1. /\ monitored \subseteq {i \in Items : status'[i] # "none"}
      /\ CallsOK(waiting, status') /\ waiting \in Seq(Calls)
      /\ UNCHANGED <<shutdown, holder, byMonitor>>
      /\ SaveTypes /\ stats \in [Complete -> Nat] /\ HolderSaves
  <2>1. monitored \subseteq {i \in Items : status'[i] # "none"}
    BY DEF Types, LockTypes, TasksGrow
  <2>2. CallsOK(waiting, status') /\ waiting \in Seq(Calls)
    BY CallsKeep DEF Types, LockTypes, TasksGrow, CallsOK
  <2>. QED BY <2>1, <2>2 DEF Types, LockTypes, Acquire
<1>2. shutdown' \in BOOLEAN /\ byMonitor' \in BOOLEAN
  BY <1>1, Zenon DEF Types, Flags
<1>3. CASE Account(call) /\ UNCHANGED <<shutdown, waiting, holder, byMonitor>>
  <2>1. /\ SaveTypes' /\ tangled' \in BOOLEAN
        /\ \A s \in Saves : stage[s] # "idle" => stage'[s] # "idle"
        /\ monitored' \subseteq {i \in Items : status'[i] # "none"}
        /\ stats' \in [Complete -> Nat]
    BY <1>1, <1>3, AccountTypes
  <2>2. CallsOK(waiting', status') /\ waiting' = waiting
    BY <1>1, <1>3
  <2>3. LockTypes'
    BY <2>1, <2>2 DEF LockTypes
  <2>4. HolderSaves'
    BY <1>1, <1>3, <2>1 DEF HolderSaves
  <2>5. Flags'
    BY <1>2, <2>1, Zenon DEF Flags
  <2>. QED BY <2>1, <2>3, <2>4, <2>5
<1>4. CASE /\ waiting' = Append(waiting, call)
           /\ UNCHANGED <<monitored, shutdown, holder, byMonitor, stats, saveVars>>
  <2>1. CallsOK(Append(waiting, call), status')
    BY <1>1, AppendCalls
  <2>2. LockTypes'
    BY <1>1, <1>4, <2>1 DEF LockTypes
  <2>3. HolderSaves'
    BY <1>1, <1>4 DEF HolderSaves, saveVars
  <2>4. Flags'
    BY <1>4, Zenon DEF Types, Flags, saveVars
  <2>5. SaveTypes'
    BY <1>1, <1>4 DEF SaveTypes, saveVars
  <2>. QED BY <2>2, <2>3, <2>4, <2>5
<1>. QED BY <1>3, <1>4 DEF Acquire

LEMMA SaveLockedTypes ==
  ASSUME Types, TasksGrow, NEW monitor \in BOOLEAN, SaveLocked(monitor),
         UNCHANGED <<shutdown, waiting>>, monitored' \subseteq monitored,
         stats' \in [Complete -> Nat]
  PROVE  LockTypes' /\ HolderSaves' /\ Flags' /\ SaveTypes'
<1>1. StartSave /\ stage \in [Saves -> Stages] /\ SaveTypes
  BY DEF SaveLocked, Types, SaveTypes
<1>2. SaveTypes' /\ tangled' \in BOOLEAN
  BY <1>1, StartSaveTypes
<1>3. HolderSaves'
  <2>1. PICK s \in Saves :
          /\ stage[s] = "idle" /\ stage' = [stage EXCEPT ![s] = "reading"]
    BY <1>1, Zenon DEF StartSave
  <2>2. \A t \in Saves : stage'[t] # stage[t] <=> t = s
    BY <1>1, <2>1 DEF Stages
  <2>3. holder' \in Saves /\ stage'[holder'] # stage[holder']
    BY <2>1, <2>2 DEF SaveLocked
  <2>4. holder' = s /\ stage'[s] = "reading"
    BY <1>1, <2>1, <2>2, <2>3
  <2>. QED BY <2>1, <2>4 DEF HolderSaves
<1>4. LockTypes'
  <2>1. CallsOK(waiting', status')
    BY CallsKeep DEF Types, LockTypes, TasksGrow
  <2>. QED BY <2>1 DEF Types, LockTypes, TasksGrow
<1>5. Flags'
  BY <1>2, Zenon DEF Types, Flags, SaveLocked
<1>. QED BY <1>2, <1>3, <1>4, <1>5

-----------------------------------------------------------------------------
(* Types.                                                                  *)

LEMMA SetStatus ==
  ASSUME Types, NEW i \in Items, NEW new \in Statuses \ {"none"},
         status' = [status EXCEPT ![i] = new]
  PROVE  TasksGrow /\ status'[i] = new
BY DEF Types, TaskTypes, TasksGrow, Snapshots

LEMMA EnqueueTypes ==
  ASSUME Types, NEW i \in Items, NEW needed \in {0, RequiredVotes}, Enqueue(i, needed)
  PROVE  Types'
<1>1. TasksGrow /\ status'[i] = "pending"
  BY SetStatus DEF Enqueue, Statuses, Complete
<1>. DEFINE call == [item |-> i, as |-> "queued"]
<1>2. call \in Calls /\ call.item = i
  BY DEF Calls
<1>3. Acquire(call) /\ status'[call.item] # "none"
  BY <1>1, <1>2 DEF Enqueue
<1>. HIDE DEF call
<1>4. LockTypes' /\ HolderSaves' /\ Flags' /\ SaveTypes'
  BY <1>1, <1>2, <1>3, AcquireTypes
<1>5. TaskTypes'
  BY <1>1 DEF Types, TaskTypes, TasksGrow, Enqueue
<1>6. PastTypes'
  BY DEF Types, PastTypes, pastVars, Enqueue
<1>. QED BY <1>4, <1>5, <1>6 DEF Types

LEMMA VoteTypesKept ==
  ASSUME Types, NEW i \in Items, NEW a \in Agents, NEW choice \in VoteTypes,
         Vote(i, a, choice)
  PROVE  Types'
<1>1. votes' \in [Items -> [Agents -> VoteTypes \cup {"none"}]]
  BY DEF Vote, Types, TaskTypes
<1>2. PastTypes'
  BY DEF Types, PastTypes, pastVars, Vote
<1>3. stage \in [Saves -> Stages] /\ SaveTypes
  BY DEF Types, SaveTypes
<1>4. CASE /\ status' = [status EXCEPT ![i] = "approved"]
           /\ Acquire([item |-> i, as |-> "approved"])
  <2>. DEFINE call == [item |-> i, as |-> "approved"]
  <2>1. TasksGrow /\ status'[i] = "approved"
    BY <1>4, SetStatus DEF Statuses, Complete
  <2>2. call \in Calls /\ call.item = i
    BY DEF Calls
  <2>3. Acquire(call) /\ status'[call.item] # "none"
    BY <1>4, <2>1, <2>2
  <2>. HIDE DEF call
  <2>4. LockTypes' /\ HolderSaves' /\ Flags' /\ SaveTypes'
    BY <1>3, <2>1, <2>2, <2>3, AcquireTypes
  <2>5. TaskTypes'
    BY <1>1, <2>1 DEF Types, TaskTypes, TasksGrow, Vote
  <2>. QED BY <1>2, <2>4, <2>5 DEF Types
<1>5. CASE StartSave /\ UNCHANGED <<status, lockVars>>
  <2>1. /\ SaveTypes' /\ tangled' \in BOOLEAN
        /\ \A s \in Saves : stage[s] # "idle" => stage'[s] # "idle"
    BY <1>3, <1>5, StartSaveTypes
  <2>2. Flags'
    BY <1>5, <2>1, Zenon DEF Types, Flags, lockVars
  <2>3. LockTypes' /\ HolderSaves'
    BY <1>5, <2>1 DEF Types, LockTypes, HolderSaves, lockVars, CallsOK
  <2>4. TaskTypes'
    BY <1>1, <1>5 DEF Types, TaskTypes, Vote
  <2>. QED BY <1>2, <2>1, <2>2, <2>3, <2>4 DEF Types
<1>. QED BY <1>4, <1>5, Zenon DEF Vote

LEMMA DecideTypes ==
  ASSUME Types, NEW i \in Items, NEW decision \in Decisions, Decide(i, decision)
  PROVE  Types'
<1>. DEFINE call == [item |-> i,
                     as |-> IF decision = "approved" THEN "approved" ELSE "rejected"]
<1>1. TasksGrow /\ status'[i] = decision /\ decision # "none"
  BY SetStatus DEF Decide, Decisions, Statuses, Complete
<1>2. call \in Calls /\ call.item = i
  BY DEF Calls
<1>3. Acquire(call) /\ status'[call.item] # "none"
  BY <1>1, <1>2 DEF Decide
<1>. HIDE DEF call
<1>4. LockTypes' /\ HolderSaves' /\ Flags' /\ SaveTypes'
  BY <1>1, <1>2, <1>3, AcquireTypes
<1>5. TaskTypes'
  BY <1>1 DEF Types, TaskTypes, TasksGrow, Decide
<1>6. PastTypes'
  BY QueueAssumption DEF Types, PastTypes, Decide
<1>. QED BY <1>4, <1>5, <1>6 DEF Types

LEMMA TimeOutTypes ==
  ASSUME Types, NEW i \in Items, TimeOut(i)
  PROVE  Types'
<1>1. TasksGrow
  BY SetStatus DEF TimeOut, Statuses, Complete
<1>2. stats' \in [Complete -> Nat] /\ monitored' \subseteq monitored
  BY DEF Types, LockTypes, TimeOut, Complete
<1>3. SaveLocked(TRUE) /\ UNCHANGED <<shutdown, waiting>>
  BY DEF TimeOut
<1>4. LockTypes' /\ HolderSaves' /\ Flags' /\ SaveTypes'
  BY <1>1, <1>2, <1>3, SaveLockedTypes
<1>5. TaskTypes'
  BY <1>1 DEF Types, TaskTypes, TasksGrow, TimeOut
<1>6. PastTypes'
  BY DEF Types, PastTypes, pastVars, TimeOut
<1>. QED BY <1>4, <1>5, <1>6 DEF Types

LEMMA ResolveTypes ==
  ASSUME Types, NEW i \in Items, NEW new \in NewStatuses, Resolve(i, new)
  PROVE  Types'
<1>1. TasksGrow
  BY QueueAssumption, SetStatus DEF Resolve, Statuses, Complete
<1>2. stats' \in [Complete -> Nat] /\ monitored' \subseteq monitored
  BY DEF Types, LockTypes, Resolve
<1>3. SaveLocked(FALSE) /\ UNCHANGED <<shutdown, waiting>>
  BY DEF Resolve
<1>4. LockTypes' /\ HolderSaves' /\ Flags' /\ SaveTypes'
  BY <1>1, <1>2, <1>3, SaveLockedTypes
<1>5. TaskTypes'
  BY <1>1 DEF Types, TaskTypes, TasksGrow, Resolve
<1>6. PastTypes'
  BY QueueAssumption DEF Types, PastTypes, Resolve
<1>. QED BY <1>4, <1>5, <1>6 DEF Types

LEMMA ReviewTypes ==
  ASSUME Types, NEW i \in Items, RequestApproval(i) \/ Reopen(i)
  PROVE  Types'
<1>1. TasksGrow /\ UNCHANGED <<required, votes, human_decision, lockVars, saveVars>>
  BY SetStatus DEF RequestApproval, Reopen, Statuses, Complete
<1>2. TaskTypes'
  BY <1>1 DEF Types, TaskTypes, TasksGrow
<1>3. LockTypes'
  <2>1. CallsOK(waiting, status')
    BY <1>1, CallsKeep DEF Types, LockTypes, TasksGrow
  <2>. QED BY <1>1, <2>1 DEF Types, LockTypes, TasksGrow, lockVars
<1>4. HolderSaves' /\ SaveTypes'
  BY <1>1 DEF Types, HolderSaves, SaveTypes, lockVars, saveVars
<1>5. Flags'
  BY <1>1, Zenon DEF Types, Flags, lockVars, saveVars
<1>6. PastTypes'
  BY QueueAssumption DEF Types, PastTypes, pastVars, RequestApproval, Reopen
<1>. QED BY <1>2, <1>3, <1>4, <1>5, <1>6 DEF Types

LEMMA PassLockTypes ==
  ASSUME Types, PassLock
  PROVE  Types'
<1>1. /\ UNCHANGED <<taskVars, shutdown, holder, byMonitor, pastVars>>
      /\ waiting # <<>> /\ waiting' = Tail(waiting)
      /\ Account(Head(waiting))
  BY DEF PassLock
<1>2. /\ CallsOK(Tail(waiting), status) /\ Head(waiting) \in Calls
      /\ status[Head(waiting).item] # "none"
  BY <1>1, TailCalls DEF Types, LockTypes
<1>3. /\ SaveTypes /\ stage \in [Saves -> Stages] /\ stats \in [Complete -> Nat]
      /\ status' = status
      /\ monitored \subseteq {j \in Items : status'[j] # "none"}
  BY <1>1 DEF Types, LockTypes, SaveTypes, taskVars
<1>4. /\ SaveTypes' /\ tangled' \in BOOLEAN
      /\ \A s \in Saves : stage[s] # "idle" => stage'[s] # "idle"
      /\ monitored' \subseteq {j \in Items : status'[j] # "none"}
      /\ stats' \in [Complete -> Nat]
  <2>1. status'[Head(waiting).item] # "none"
    BY <1>2, <1>3
  <2>. QED BY <1>1, <1>2, <1>3, <2>1, AccountTypes
<1>5. LockTypes'
  BY <1>1, <1>2, <1>3, <1>4 DEF LockTypes
<1>6. HolderSaves'
  BY <1>1, <1>4 DEF Types, HolderSaves
<1>7. Flags'
  BY <1>1, <1>4, Zenon DEF Types, Flags
<1>8. TaskTypes' /\ PastTypes'
  BY <1>1 DEF Types, TaskTypes, PastTypes, taskVars, pastVars
<1>. QED BY <1>4, <1>5, <1>6, <1>7, <1>8 DEF Types

LEMMA CancelTypes ==
  ASSUME Types, CancelUpdate \/ (\E k \in 1..Len(waiting) : CancelWaiting(k))
  PROVE  Types'
<1>1. UNCHANGED <<taskVars, monitored, shutdown, byMonitor, stats, stage, snapshot, file,
                  overruled, loaded, overrides, escalated, restarts>>
  BY DEF CancelUpdate, CancelWaiting, saveVars
<1>2. CallsOK(waiting', status')
  <2>1. ASSUME NEW k \in 1..Len(waiting), CancelWaiting(k)
        PROVE  waiting' = Without(waiting, k)
    BY <2>1 DEF CancelWaiting
  <2>2. CallsOK(waiting, status) /\ status' = status
    BY <1>1 DEF Types, LockTypes, taskVars
  <2>. QED BY <2>1, <2>2, WithoutCalls DEF CancelUpdate
<1>3. lost' \in [Complete -> Nat] /\ abandoned' \subseteq Items
  <2>1. ASSUME NEW k \in 1..Len(waiting), CancelWaiting(k)
        PROVE  lost' \in [Complete -> Nat] /\ abandoned' \subseteq Items
    <3>1. waiting \in Seq(Calls) /\ lost \in [Complete -> Nat] /\ abandoned \subseteq Items
      BY DEF Types, LockTypes, CallsOK, PastTypes
    <3>2. waiting[k] \in Calls
      BY <3>1
    <3>3. /\ waiting[k].item \in Items
          /\ waiting[k].as # "queued" => waiting[k].as \in Complete
      BY <3>2 DEF Calls, Complete
    <3>4. CASE waiting[k].as = "queued"
      BY <2>1, <3>1, <3>3, <3>4 DEF CancelWaiting
    <3>5. CASE waiting[k].as # "queued"
      <4>1. lost' = [lost EXCEPT ![waiting[k].as] = @ + 1] /\ abandoned' = abandoned
        BY <2>1, <3>5 DEF CancelWaiting
      <4>. QED BY <3>1, <3>3, <3>5, <4>1
    <3>. QED BY <3>4, <3>5
  <2>2. CASE CancelUpdate
    BY <2>2 DEF CancelUpdate, Types, PastTypes
  <2>. QED BY <2>1, <2>2
<1>4. cancels' \in 0..MaxCancels
  BY QueueAssumption DEF Types, PastTypes, CancelUpdate, CancelWaiting
<1>5. holder' \in {holder, NoSave} /\ clean' \in {clean, {}}
  BY DEF CancelUpdate, CancelWaiting, saveVars
<1>6. TaskTypes' /\ PastTypes' /\ LockTypes' /\ SaveTypes' /\ HolderSaves'
  BY <1>1, <1>2, <1>3, <1>4, <1>5 DEF Types, TaskTypes, PastTypes, LockTypes, SaveTypes,
     HolderSaves, taskVars
<1>7. Flags'
  BY <1>1, Zenon DEF Types, Flags, CancelUpdate, CancelWaiting, saveVars
<1>. QED BY <1>6, <1>7 DEF Types

LEMMA SaveKeepsTypes ==
  ASSUME Types, NEW s \in Saves, Save(s)
  PROVE  Types'
<1>1. UNCHANGED <<taskVars, monitored, shutdown, waiting, stats, pastVars>>
  BY DEF Save, ReadTasks, OpenFile, WriteFile, SaveFails, lockVars
<1>2. TaskTypes' /\ LockTypes' /\ PastTypes'
  BY <1>1 DEF Types, TaskTypes, LockTypes, PastTypes, taskVars, pastVars, CallsOK
<1>3. NoTasks \in Snapshots /\ status \in Snapshots
  BY DEF NoTasks, Snapshots, Statuses, Types, TaskTypes
<1>4. SaveTypes'
  BY <1>3 DEF Types, SaveTypes, Stages, Save, ReadTasks, OpenFile, WriteFile, SaveFails
<1>5. HolderSaves'
  BY DEF Types, SaveTypes, HolderSaves, Save, ReadTasks, OpenFile, WriteFile, SaveFails,
     Release, lockVars
<1>6. Flags'
  BY <1>1, Zenon DEF Types, Flags, Save, ReadTasks, OpenFile, WriteFile, SaveFails, Release,
     lockVars
<1>. QED BY <1>2, <1>4, <1>5, <1>6 DEF Types

LEMMA StopTypes ==
  ASSUME Types, Stop \/ (\E i \in Items : MonitorEnds(i))
  PROVE  Types'
<1>1. /\ monitored' \subseteq monitored
      /\ UNCHANGED <<taskVars, waiting, stats, saveVars, pastVars>>
  BY DEF Stop, MonitorEnds
<1>2. TaskTypes' /\ PastTypes' /\ SaveTypes'
  BY <1>1 DEF Types, TaskTypes, PastTypes, SaveTypes, taskVars, pastVars, saveVars
<1>3. LockTypes'
  BY <1>1 DEF Types, LockTypes, taskVars, CallsOK
<1>4. HolderSaves'
  BY <1>1 DEF Types, HolderSaves, saveVars, Stop, MonitorEnds
<1>5. Flags'
  BY <1>1, Zenon DEF Types, Flags, saveVars, Stop, MonitorEnds
<1>. QED BY <1>2, <1>3, <1>4, <1>5 DEF Types

LEMMA RestartTypes ==
  ASSUME Types, Restart
  PROVE  Types'
<1>1. status' \in Snapshots
  BY DEF Restart, Types, SaveTypes, NoTasks, Snapshots, Statuses
<1>2. TaskTypes'
  BY <1>1 DEF Restart, TaskTypes, NoVotes, NoTasks
<1>3. CallsOK(waiting', status')
  BY DEF Restart, CallsOK
<1>4. LockTypes'
  BY <1>3 DEF Restart, LockTypes
<1>5. HolderSaves'
  BY DEF Restart, HolderSaves
<1>6. Flags'
  BY Zenon DEF Restart, Flags
<1>7. SaveTypes'
  BY DEF Restart, Types, SaveTypes, Stages, NoTasks, Snapshots, Statuses
<1>8. PastTypes'
  BY QueueAssumption DEF Restart, Types, PastTypes
<1>. QED BY <1>2, <1>4, <1>5, <1>6, <1>7, <1>8 DEF Types

LEMMA InitTypes == Init => Types
<1>. SUFFICES ASSUME Init PROVE Types
  OBVIOUS
<1>1. TaskTypes
  BY DEF Init, TaskTypes, NoTasks, NoVotes, Snapshots, Statuses, Decisions
<1>2. LockTypes
  BY DEF Init, LockTypes, CallsOK
<1>3. HolderSaves
  BY DEF Init, HolderSaves
<1>4. Flags
  BY Zenon DEF Init, Flags
<1>5. SaveTypes
  BY DEF Init, SaveTypes, Stages, NoTasks, Snapshots, Statuses
<1>6. PastTypes
  BY QueueAssumption DEF Init, PastTypes
<1>. QED BY <1>1, <1>2, <1>3, <1>4, <1>5, <1>6 DEF Types

LEMMA NextTypes == Types /\ [Next]_vars => Types'
<1>. SUFFICES ASSUME Types, [Next]_vars PROVE Types'
  OBVIOUS
<1>1. CASE UNCHANGED vars
  <2>1. UNCHANGED <<taskVars, lockVars, saveVars, pastVars>>
    BY <1>1 DEF vars
  <2>2. Flags'
    BY <2>1, Zenon DEF Types, Flags, lockVars, saveVars
  <2>. QED BY <2>1, <2>2 DEF Types, TaskTypes, LockTypes, HolderSaves, SaveTypes, PastTypes,
         CallsOK, taskVars, lockVars, saveVars, pastVars
<1>. QED BY <1>1, EnqueueTypes, VoteTypesKept, DecideTypes, TimeOutTypes, ResolveTypes,
       ReviewTypes, PassLockTypes, CancelTypes, SaveKeepsTypes, StopTypes, RestartTypes, Zenon DEF Next

-----------------------------------------------------------------------------
(* Decisions.                                                              *)

LEMMA InitEarned == Init => DecisionIsEarned
BY DEF Init, NoTasks, DecisionIsEarned

LEMMA NextEarned ==
  ASSUME Types, DecisionIsEarned, [Next]_vars
  PROVE  DecisionIsEarned'
<1>1. /\ status \in [Items -> Statuses]
      /\ human_decision \in [Items -> Decisions \cup {"none"}]
      /\ votes \in [Items -> [Agents -> VoteTypes \cup {"none"}]]
      /\ required \in [Items -> {0, RequiredVotes, LoadedVotes}]
  BY DEF Types, TaskTypes, Snapshots
<1>. DEFINE Enough(r, v) ==
       /\ r # 0 /\ Cardinality(Cast(v)) >= r
       /\ 100 * Cardinality({a \in Agents : v[a] = "approve"})
            >= Threshold * Cardinality(Cast(v))
     Earned(i) ==
       /\ status[i] = "rejected" => human_decision[i] = "rejected"
       /\ status[i] = "approved" /\ human_decision[i] # "approved" =>
            Enough(required[i], votes[i])
<1>2. DecisionIsEarned <=> \A i \in Items \ (overruled \cup loaded) : Earned(i)
  BY DEF DecisionIsEarned
<1>3. DecisionIsEarned' <=> \A i \in Items \ (overruled' \cup loaded') : Earned(i)'
  BY DEF DecisionIsEarned
<1>4. \A i \in Items : Consensus(i, votes'[i]) <=> Enough(required[i], votes'[i])
  BY DEF Consensus
<1>. HIDE DEF Enough
<1>. SUFFICES ASSUME NEW i \in Items, i \notin overruled' \cup loaded'
              PROVE  Earned(i)'
  BY <1>3
<1>5. ASSUME overruled \subseteq overruled', loaded \subseteq loaded'
      PROVE  Earned(i)
  BY <1>2, <1>5
<1>6. ASSUME NEW j \in Items, NEW needed \in {0, RequiredVotes}, Enqueue(j, needed)
      PROVE  Earned(i)'
  BY <1>1, <1>5, <1>6 DEF Enqueue, pastVars
<1>7. ASSUME NEW j \in Items, NEW a \in Agents, NEW choice \in VoteTypes,
             Vote(j, a, choice)
      PROVE  Earned(i)'
  <2>1. /\ UNCHANGED <<required, human_decision>> /\ Earned(i)
        /\ \/ Consensus(j, votes'[j]) /\ status' = [status EXCEPT ![j] = "approved"]
           \/ status' = status
        /\ votes' = [votes EXCEPT ![j][a] = choice] /\ Live(j)
    BY <1>5, <1>7 DEF Vote, pastVars
  <2>2. CASE i = j
    BY <1>1, <1>4, <2>1, <2>2 DEF Live, Complete
  <2>3. CASE i # j
    BY <1>1, <2>1, <2>3
  <2>. QED BY <2>2, <2>3
<1>8. ASSUME NEW j \in Items, NEW decision \in Decisions, Decide(j, decision)
      PROVE  Earned(i)'
  <2>1. /\ Earned(i) /\ UNCHANGED <<required, votes>>
        /\ status' = [status EXCEPT ![j] = decision]
        /\ human_decision' = [human_decision EXCEPT ![j] = decision]
    BY <1>5, <1>8 DEF Decide
  <2>. QED BY <1>1, <2>1
<1>9. ASSUME NEW j \in Items, NEW new, Resolve(j, new) \/ Reopen(j)
      PROVE  Earned(i)'
  <2>1. Earned(i) /\ i # j /\ UNCHANGED <<required, votes, human_decision>>
    BY <1>5, <1>9 DEF Resolve, Reopen
  <2>2. status'[i] = status[i]
    BY <1>1, <1>9, <2>1 DEF Resolve, Reopen
  <2>. QED BY <2>1, <2>2
<1>10. ASSUME NEW j \in Items, TimeOut(j) \/ MonitorEnds(j) \/ RequestApproval(j)
       PROVE  Earned(i)'
  <2>1. /\ Earned(i) /\ UNCHANGED <<required, votes, human_decision>>
        /\ status' \in {status, [status EXCEPT ![j] = "timed_out"],
                        [status EXCEPT ![j] = "under_review"]}
    BY <1>5, <1>10 DEF TimeOut, MonitorEnds, RequestApproval, pastVars, taskVars
  <2>. QED BY <1>1, <2>1
<1>11. ASSUME UNCHANGED <<taskVars, overruled, loaded>>
       PROVE  Earned(i)'
  BY <1>5, <1>11 DEF taskVars
<1>12. ASSUME Restart
       PROVE  Earned(i)'
  <2>1. status'[i] = "none"
    BY <1>12 DEF Restart
  <2>. QED BY <2>1
<1>13. ASSUME \/ PassLock \/ Stop \/ (\E s \in Saves : Save(s)) \/ UNCHANGED vars
              \/ CancelUpdate \/ (\E k \in 1..Len(waiting) : CancelWaiting(k))
       PROVE  UNCHANGED <<taskVars, overruled, loaded>>
  BY <1>13 DEF PassLock, Stop, Save, ReadTasks, OpenFile, WriteFile, SaveFails,
     CancelUpdate, CancelWaiting, vars, pastVars
<1>. HIDE DEF Earned
<1>. QED BY <1>6, <1>7, <1>8, <1>9, <1>10, <1>11, <1>12, <1>13, Zenon DEF Next

\* A step changes no decision but by overruling it or by a restart.
LEMMA NextStands ==
  ASSUME Types, [Next]_vars, NEW i \in Items,
         status[i] \in Complete, status'[i] # status[i]
  PROVE  i \in overruled' \/ restarts' # restarts
<1>1. status \in [Items -> Statuses] /\ restarts \in Nat
  BY QueueAssumption DEF Types, TaskTypes, Snapshots, PastTypes
<1>2. ASSUME NEW j \in Items, NEW needed, Enqueue(j, needed)
      PROVE  FALSE
  BY <1>1, <1>2 DEF Enqueue, Complete
<1>3. ASSUME NEW j \in Items, NEW a, NEW choice, Vote(j, a, choice)
      PROVE  FALSE
  BY <1>1, <1>3 DEF Vote, Live
<1>4. ASSUME NEW j \in Items, NEW decision, Decide(j, decision)
      PROVE  FALSE
  BY <1>1, <1>4 DEF Decide, Complete
<1>5. ASSUME NEW j \in Items, NEW decision, Resolve(j, decision) \/ Reopen(j)
      PROVE  i \in overruled'
  BY <1>1, <1>5 DEF Resolve, Reopen
<1>6. ASSUME NEW j \in Items, TimeOut(j) \/ RequestApproval(j)
      PROVE  FALSE
  BY <1>1, <1>6 DEF TimeOut, RequestApproval, Live
<1>7. ASSUME NEW j \in Items, MonitorEnds(j)
      PROVE  FALSE
  BY <1>7 DEF MonitorEnds, taskVars
<1>8. ASSUME \/ PassLock \/ Stop \/ (\E s \in Saves : Save(s)) \/ UNCHANGED vars
             \/ CancelUpdate \/ (\E k \in 1..Len(waiting) : CancelWaiting(k))
      PROVE  FALSE
  BY <1>8 DEF PassLock, Stop, Save, ReadTasks, OpenFile, WriteFile, SaveFails,
     CancelUpdate, CancelWaiting, vars, taskVars
<1>9. ASSUME Restart
      PROVE  restarts' # restarts
  BY <1>1, <1>9 DEF Restart
<1>. QED BY <1>2, <1>3, <1>4, <1>5, <1>6, <1>7, <1>8, <1>9, Zenon DEF Next

-----------------------------------------------------------------------------
(* What the file holds.                                                    *)

\* A save that starts is alone, or another one is in progress.
LEMMA StartSaveKept ==
  ASSUME Types, StartSave
  PROVE  Kept'
<1>1. PICK s \in Saves :
        /\ stage[s] = "idle"
        /\ stage' = [stage EXCEPT ![s] = "reading"]
        /\ clean' = IF Saving = {} THEN {s} ELSE {}
        /\ tangled' = (tangled \/ Saving # {})
  BY Zenon DEF StartSave
<1>2. stage \in [Saves -> Stages]
  BY DEF Types, SaveTypes
<1>3. Saving = {} => \A t \in Saves \ {s} : stage'[t] = "idle"
  BY <1>1, <1>2 DEF Saving
<1>4. tangled' = FALSE => Saving = {}
  BY <1>1, Zenon
<1>5. stage'[s] = "reading"
  BY <1>1, <1>2
<1>6. ASSUME NEW t \in clean'
      PROVE  /\ stage'[t] = "reading"
             /\ \A u \in Saves : stage'[u] # "idle" => u = t
  <2>1. Saving = {} /\ t = s
    BY <1>1
  <2>. QED BY <1>3, <1>5, <2>1
<1>7. ASSUME tangled' = FALSE
      PROVE  /\ \A t \in Saves : stage'[t] # "idle" => t \in clean'
             /\ \E t \in Saves : stage'[t] # "idle"
  BY <1>1, <1>3, <1>4, <1>5, <1>7
<1>. QED BY <1>6, <1>7 DEF Kept

\* A call either starts a save or waits; then nothing is promised of the file.
LEMMA AcquireKept ==
  ASSUME Types, Kept, NEW call \in Calls, Acquire(call)
  PROVE  Kept'
<1>1. CASE Account(call)
  BY <1>1, StartSaveKept DEF Account
<1>2. CASE waiting' = Append(waiting, call) /\ UNCHANGED saveVars
  <2>1. waiting \in Seq(Calls)
    BY DEF Types, LockTypes, CallsOK
  <2>2. waiting' # <<>>
    BY <1>2, <2>1
  <2>. QED BY <1>2, <2>2 DEF Kept, saveVars
<1>. QED BY <1>1, <1>2, Zenon DEF Acquire

\* The decisions are the same, and so is what is saved of them.
LEMMA SameDecisionsKept ==
  ASSUME Types, Kept, UNCHANGED <<saveVars, waiting>>,
         \A i \in Items : status'[i] \in Complete => status'[i] = status[i]
  PROVE  Kept'
<1>1. ASSUME NEW f, Holds(f)
      PROVE  \A i \in Items : status'[i] \in Complete => f \in Snapshots /\ f[i] = status'[i]
  BY <1>1 DEF Holds
<1>. QED BY <1>1 DEF Kept, Holds, saveVars

LEMMA SaveKept ==
  ASSUME Types, Kept, NEW s \in Saves, Save(s)
  PROVE  Kept'
<1>1. /\ UNCHANGED <<status, waiting>> /\ clean' \subseteq clean
      /\ stage[s] # "idle" /\ \A t \in Saves \ {s} : stage'[t] = stage[t]
      /\ tangled' = FALSE => tangled = FALSE \/ (WriteFile(s) /\ s \in clean)
  <2>1. stage \in [Saves -> Stages]
    BY DEF Types, SaveTypes
  <2>2. /\ UNCHANGED <<status, waiting>> /\ clean' \subseteq clean
        /\ stage[s] # "idle" /\ \A t \in Saves \ {s} : stage'[t] = stage[t]
    BY <2>1 DEF Save, ReadTasks, OpenFile, WriteFile, SaveFails, taskVars, lockVars
  <2>3. tangled' = FALSE => tangled = FALSE \/ (WriteFile(s) /\ s \in clean)
    BY Zenon DEF Save, ReadTasks, OpenFile, WriteFile, SaveFails, Types, Flags
  <2>. QED BY <2>2, <2>3
<1>2. clean \subseteq {s}
  BY <1>1 DEF Kept
<1>3. CASE s \notin clean
  <2>1. clean' = {} /\ tangled' # FALSE
    BY <1>1, <1>2, <1>3 DEF Kept
  <2>. QED BY <2>1 DEF Kept
<1>4. CASE s \in clean
  <2>1. /\ stage \in [Saves -> Stages] /\ snapshot \in [Saves -> Snapshots]
        /\ status \in Snapshots /\ clean = {s}
        /\ \A t \in Saves \ {s} : stage'[t] = "idle" /\ stage[t] = "idle"
    BY <1>1, <1>2, <1>4 DEF Types, SaveTypes, TaskTypes, Kept
  <2>2. CASE ReadTasks(s)
    <3>1. /\ stage'[s] = "read" /\ snapshot'[s] = status /\ clean' = clean
      BY <2>1, <2>2 DEF ReadTasks
    <3>. QED BY <1>1, <2>1, <3>1 DEF Kept, Holds
  <2>3. CASE OpenFile(s)
    <3>1. /\ stage'[s] = "opened" /\ file' = Empty
          /\ snapshot' = snapshot /\ clean' = clean /\ stage[s] = "read"
      BY <2>1, <2>3 DEF OpenFile
    <3>2. waiting = <<>> => Holds(snapshot[s])
      BY <1>4, <3>1 DEF Kept
    <3>. QED BY <1>1, <2>1, <3>1, <3>2 DEF Kept, Holds
  <2>4. CASE WriteFile(s)
    <3>1. stage[s] = "opened" /\ file = Empty
      BY <1>4, <2>4 DEF WriteFile, Kept
    <3>2. /\ file' = snapshot[s] /\ clean' = {}
          /\ \A t \in Saves : stage'[t] = "idle"
      BY <2>1, <2>4, <3>1 DEF WriteFile
    <3>3. waiting = <<>> => Holds(snapshot[s])
      BY <1>4, <3>1 DEF Kept
    <3>. QED BY <1>1, <3>2, <3>3 DEF Kept, Holds
  <2>5. CASE SaveFails(s)
    <3>1. clean' = {} /\ tangled' = TRUE
      BY <2>1, <2>5 DEF SaveFails
    <3>. QED BY <3>1 DEF Kept
  <2>. QED BY <2>2, <2>3, <2>4, <2>5 DEF Save
<1>. QED BY <1>3, <1>4

LEMMA InitKept == Init => Kept
BY DEF Init, Kept, Holds, NoTasks, Complete

LEMMA NextKept ==
  ASSUME Types, Kept, [Next]_vars
  PROVE  Kept'
<1>1. /\ status \in [Items -> Statuses] /\ stage \in [Saves -> Stages]
  BY DEF Types, TaskTypes, SaveTypes, Snapshots
<1>2. ASSUME NEW i \in Items, NEW as \in {"queued", "approved", "rejected"},
             Acquire([item |-> i, as |-> as])
      PROVE  Kept'
  <2>. DEFINE call == [item |-> i, as |-> as]
  <2>1. call \in Calls /\ Acquire(call)
    BY <1>2 DEF Calls
  <2>. HIDE DEF call
  <2>. QED BY <2>1, AcquireKept
<1>3. ASSUME NEW i \in Items, NEW needed, Enqueue(i, needed)
      PROVE  Kept'
  BY <1>2, <1>3, Zenon DEF Enqueue
<1>4. ASSUME NEW i \in Items, NEW a, NEW choice, Vote(i, a, choice)
      PROVE  Kept'
  <2>1. StartSave \/ Acquire([item |-> i, as |-> "approved"])
    BY <1>4, Zenon DEF Vote
  <2>. QED BY <1>2, <2>1, StartSaveKept
<1>5. ASSUME NEW i \in Items, NEW decision \in Decisions, Decide(i, decision)
      PROVE  Kept'
  <2>. DEFINE as == IF decision = "approved" THEN "approved" ELSE "rejected"
  <2>1. as \in {"queued", "approved", "rejected"} /\ Acquire([item |-> i, as |-> as])
    BY <1>5 DEF Decide
  <2>. HIDE DEF as
  <2>. QED BY <1>2, <2>1
<1>6. ASSUME NEW i \in Items, TimeOut(i) \/ (\E new : Resolve(i, new))
      PROVE  Kept'
  BY <1>6, StartSaveKept, Zenon DEF TimeOut, Resolve, SaveLocked
<1>7. ASSUME NEW i \in Items, MonitorEnds(i) \/ RequestApproval(i) \/ Reopen(i)
      PROVE  Kept'
  <2>1. /\ UNCHANGED <<saveVars, waiting>>
        /\ status' \in {status, [status EXCEPT ![i] = "under_review"]}
    BY <1>7 DEF MonitorEnds, RequestApproval, Reopen, lockVars, taskVars
  <2>2. \A j \in Items : status'[j] \in Complete => status'[j] = status[j]
    BY <1>1, <2>1 DEF Complete
  <2>. QED BY <2>1, <2>2, SameDecisionsKept
<1>8. ASSUME PassLock
      PROVE  Kept'
  BY <1>8, StartSaveKept, Zenon DEF PassLock, Account
<1>9. ASSUME Stop \/ CancelUpdate \/ UNCHANGED vars
      PROVE  Kept'
  <2>1. UNCHANGED <<saveVars, waiting, status>>
    BY <1>9 DEF Stop, CancelUpdate, vars, taskVars, lockVars
  <2>. QED BY <2>1, SameDecisionsKept
<1>10. ASSUME NEW k, CancelWaiting(k)
       PROVE  Kept'
  <2>1. clean' = {} /\ tangled' = TRUE
    BY <1>10 DEF CancelWaiting
  <2>. QED BY <2>1 DEF Kept
<1>11. ASSUME Restart
       PROVE  Kept'
  <2>1. /\ clean' = {} /\ \A s \in Saves : stage'[s] = "idle"
        /\ file' = file /\ file \in Snapshots \cup {Empty, Corrupt}
        /\ status' = IF file \in {Empty, Corrupt} THEN NoTasks ELSE file
    BY <1>11 DEF Restart, Types, SaveTypes
  <2>2. \A i \in Items : status'[i] \in Complete => file' \in Snapshots /\ file'[i] = status'[i]
    BY <2>1 DEF NoTasks, Complete
  <2>. QED BY <2>1, <2>2 DEF Kept, Holds
<1>. QED BY <1>3, <1>4, <1>5, <1>6, <1>7, <1>8, <1>9, <1>10, <1>11, SaveKept, Zenon DEF Next

-----------------------------------------------------------------------------
(* The counters.                                                           *)

Ones(call, c) == IF call.as = c THEN 1 ELSE 0

LEMMA CountingFinite ==
  ASSUME NEW q \in Seq(Calls), NEW c
  PROVE  /\ IsFiniteSet(Counting(q, c)) /\ Cardinality(Counting(q, c)) \in Nat
<1>1. Len(q) \in Nat /\ IsFiniteSet(1..Len(q))
  BY FS_Interval
<1>2. Counting(q, c) \in SUBSET (1..Len(q))
  BY DEF Counting
<1>3. IsFiniteSet(Counting(q, c))
  BY <1>1, <1>2, FS_Subset
<1>. QED BY <1>3, FS_CardinalityType

LEMMA CountingAppend ==
  ASSUME NEW q \in Seq(Calls), NEW call \in Calls, NEW c
  PROVE  Cardinality(Counting(Append(q, call), c))
           = Cardinality(Counting(q, c)) + Ones(call, c)
<1>1. /\ Len(Append(q, call)) = Len(q) + 1 /\ Len(q) \in Nat
      /\ Append(q, call)[Len(q) + 1] = call
      /\ \A k \in 1..Len(q) : Append(q, call)[k] = q[k]
  OBVIOUS
<1>2. \A k : k \in 1..(Len(q) + 1) <=> k \in 1..Len(q) \/ k = Len(q) + 1
  BY <1>1
<1>3. Len(q) + 1 \notin Counting(q, c)
  BY <1>1 DEF Counting
<1>4. CASE call.as = c
  <2>1. Counting(Append(q, call), c) = Counting(q, c) \cup {Len(q) + 1}
    BY <1>1, <1>2, <1>4 DEF Counting
  <2>2. Cardinality(Counting(q, c) \cup {Len(q) + 1}) = Cardinality(Counting(q, c)) + 1
    BY <1>3, CountingFinite, FS_AddElement
  <2>. QED BY <1>4, <2>1, <2>2 DEF Ones
<1>5. CASE call.as # c
  <2>1. Counting(Append(q, call), c) = Counting(q, c)
    BY <1>1, <1>2, <1>5 DEF Counting
  <2>. QED BY <1>5, <2>1, CountingFinite DEF Ones
<1>. QED BY <1>4, <1>5

\* The places without the k-th one: those behind it have moved by one.
LEMMA CountingWithout ==
  ASSUME NEW q \in Seq(Calls), NEW k \in 1..Len(q), NEW c
  PROVE  Cardinality(Counting(q, c)) = Cardinality(Counting(Without(q, k), c)) + Ones(q[k], c)
<1>1. /\ Len(q) \in Nat /\ Without(q, k) \in Seq(Calls)
      /\ Len(Without(q, k)) = Len(q) - 1
      /\ \A j \in 1..(Len(q) - 1) :
           Without(q, k)[j] = IF j < k THEN q[j] ELSE q[j + 1]
  <2>1. Len(q) \in Nat
    OBVIOUS
  <2>. QED BY <2>1, WithoutIsSeq
<1>. DEFINE few == Counting(Without(q, k), c)
            other == Counting(q, c) \ {k}
            place == [j \in few |-> IF j < k THEN j ELSE j + 1]
<1>2. /\ IsFiniteSet(few) /\ IsFiniteSet(Counting(q, c))
      /\ Cardinality(Counting(q, c)) \in Nat /\ Cardinality(few) \in Nat
  BY <1>1, CountingFinite
<1>3. place \in Bijection(few, other)
  <2>1. ASSUME NEW j \in few
        PROVE  j \in Nat /\ (IF j < k THEN j ELSE j + 1) \in other
    <3>1. j \in 1..(Len(q) - 1) /\ Without(q, k)[j].as = c
      BY <1>1 DEF Counting
    <3>2. CASE j < k
      <4>1. j \in 1..Len(q) /\ j # k /\ q[j].as = c
        BY <1>1, <3>1, <3>2
      <4>. QED BY <3>1, <3>2, <4>1 DEF Counting
    <3>3. CASE ~(j < k)
      <4>1. j + 1 \in 1..Len(q) /\ j + 1 # k /\ q[j + 1].as = c
        BY <1>1, <3>1, <3>3
      <4>. QED BY <3>1, <3>3, <4>1 DEF Counting
    <3>. QED BY <3>2, <3>3
  <2>2. ASSUME NEW j \in other
        PROVE  \E h \in few : (IF h < k THEN h ELSE h + 1) = j
    <3>1. j \in 1..Len(q) /\ j # k /\ q[j].as = c
      BY DEF Counting
    <3>2. CASE j < k
      <4>1. j \in 1..(Len(q) - 1) /\ Without(q, k)[j] = q[j]
        BY <1>1, <3>1, <3>2
      <4>. QED BY <1>1, <3>1, <3>2, <4>1 DEF Counting
    <3>3. CASE ~(j < k)
      <4>1. /\ j - 1 \in 1..(Len(q) - 1) /\ ~(j - 1 < k) /\ (j - 1) + 1 = j
        BY <1>1, <3>1, <3>3
      <4>2. Without(q, k)[j - 1] = q[j]
        BY <1>1, <4>1
      <4>3. j - 1 \in few
        BY <1>1, <3>1, <4>1, <4>2 DEF Counting
      <4>. QED BY <4>1, <4>3
    <3>. QED BY <3>2, <3>3
  <2>. HIDE DEF few, other
  <2>3. place \in [few -> other]
    BY <2>1
  <2>4. \A h, j \in few : place[h] = place[j] => h = j
    BY <2>1
  <2>5. \A j \in other : \E h \in few : place[h] = j
    BY <2>2
  <2>. QED BY <2>3, <2>4, <2>5, Fun_IsBij
<1>4. Cardinality(other) = Cardinality(few)
  BY <1>2, <1>3, FS_Bijection, Fun_ExistsBij
<1>5. Cardinality(other) = IF k \in Counting(q, c) THEN Cardinality(Counting(q, c)) - 1
                           ELSE Cardinality(Counting(q, c))
  BY <1>2, FS_RemoveElement
<1>6. k \in Counting(q, c) <=> q[k].as = c
  BY DEF Counting
<1>. QED BY <1>2, <1>4, <1>5, <1>6 DEF Ones

LEMMA CountingTail ==
  ASSUME NEW q \in Seq(Calls), q # <<>>, NEW c
  PROVE  Cardinality(Counting(q, c))
           = Cardinality(Counting(Tail(q), c)) + Ones(Head(q), c)
<1>1. /\ Len(q) \in Nat /\ 1 \in 1..Len(q) /\ Head(q) = q[1]
      /\ Tail(q) \in Seq(Calls) /\ Len(Tail(q)) = Len(q) - 1
      /\ \A j \in 1..(Len(q) - 1) : Tail(q)[j] = q[j + 1]
  OBVIOUS
<1>2. /\ Len(Without(q, 1)) = Len(q) - 1
      /\ \A j \in 1..(Len(q) - 1) : Without(q, 1)[j] = q[j + 1]
  <2>1. /\ Len(Without(q, 1)) = Len(q) - 1
        /\ \A j \in 1..(Len(q) - 1) :
             Without(q, 1)[j] = IF j < 1 THEN q[j] ELSE q[j + 1]
    BY <1>1, WithoutIsSeq
  <2>2. \A j \in 1..(Len(q) - 1) : ~(j < 1)
    BY <1>1
  <2>. QED BY <2>1, <2>2
<1>3. Counting(Tail(q), c) = Counting(Without(q, 1), c)
  BY <1>1, <1>2 DEF Counting
<1>. QED BY <1>1, <1>3, CountingWithout

LEMMA AccountCounts ==
  ASSUME stats \in [Complete -> Nat], NEW call \in Calls, Account(call),
         NEW c \in Complete
  PROVE  stats'[c] = stats[c] + Ones(call, c)
<1>1. call.as \in {"queued", "approved", "rejected"}
  BY DEF Calls
<1>2. CASE call.as = "queued"
  BY <1>2 DEF Account, Ones, Complete
<1>3. CASE call.as # "queued"
  <2>1. stats' = [stats EXCEPT ![call.as] = @ + 1] /\ call.as \in Complete
    BY <1>1, <1>3 DEF Account, Complete
  <2>. QED BY <2>1 DEF Ones
<1>. QED BY <1>2, <1>3

LEMMA TallyTypes ==
  ASSUME Types, NEW c \in Complete
  PROVE  /\ stats \in [Complete -> Nat] /\ lost \in [Complete -> Nat]
         /\ waiting \in Seq(Calls) /\ stats[c] \in Nat /\ lost[c] \in Nat
         /\ Cardinality(Counting(waiting, c)) \in Nat
         /\ Tally(c) \in Nat /\ Extra(c) \in Nat
<1>1. /\ stats \in [Complete -> Nat] /\ lost \in [Complete -> Nat]
      /\ waiting \in Seq(Calls) /\ escalated \in Nat
  BY QueueAssumption DEF Types, LockTypes, CallsOK, PastTypes
<1>2. Cardinality(Counting(waiting, c)) \in Nat
  BY <1>1, CountingFinite
<1>. QED BY <1>1, <1>2 DEF Tally, Extra

LEMMA AcquireCounts ==
  ASSUME Types, NEW call \in Calls, Acquire(call), lost' = lost, NEW c \in Complete
  PROVE  Tally(c)' = Tally(c) + Ones(call, c)
<1>1. /\ stats \in [Complete -> Nat] /\ waiting \in Seq(Calls)
      /\ Ones(call, c) \in Nat /\ stats[c] \in Nat /\ lost[c] \in Nat
      /\ Cardinality(Counting(waiting, c)) \in Nat
  BY TallyTypes DEF Ones
<1>2. CASE Account(call) /\ waiting' = waiting
  <2>1. stats'[c] = stats[c] + Ones(call, c)
    BY <1>1, <1>2, AccountCounts
  <2>. QED BY <1>1, <1>2, <2>1 DEF Tally
<1>3. CASE waiting' = Append(waiting, call) /\ stats' = stats
  <2>1. Cardinality(Counting(waiting', c)) = Cardinality(Counting(waiting, c)) + Ones(call, c)
    BY <1>1, <1>3, CountingAppend
  <2>. QED BY <1>1, <1>3, <2>1 DEF Tally
<1>. QED BY <1>2, <1>3 DEF Acquire

\* A cancelled call is counted among the lost ones.
LEMMA CancelCounts ==
  ASSUME Types, NEW k \in 1..Len(waiting), CancelWaiting(k), NEW c \in Complete
  PROVE  Tally(c)' = Tally(c)
<1>1. /\ stats[c] \in Nat /\ lost[c] \in Nat /\ waiting \in Seq(Calls)
      /\ lost \in [Complete -> Nat] /\ waiting[k] \in Calls
  <2>1. waiting \in Seq(Calls)
    BY TallyTypes
  <2>. QED BY <2>1, TallyTypes
<1>2. waiting' = Without(waiting, k) /\ stats' = stats
  BY DEF CancelWaiting
<1>3. Cardinality(Counting(waiting, c))
        = Cardinality(Counting(waiting', c)) + Ones(waiting[k], c)
  BY <1>1, <1>2, CountingWithout
<1>4. Cardinality(Counting(waiting', c)) \in Nat
  BY <1>1, <1>2, WithoutIsSeq, CountingFinite
<1>5. lost'[c] = lost[c] + Ones(waiting[k], c)
  <2>1. waiting[k].as \in {"queued", "approved", "rejected"}
    BY <1>1 DEF Calls
  <2>2. CASE waiting[k].as = "queued"
    BY <1>1, <2>2 DEF CancelWaiting, Ones, Complete
  <2>3. CASE waiting[k].as # "queued"
    <3>1. /\ lost' = [lost EXCEPT ![waiting[k].as] = @ + 1]
          /\ waiting[k].as \in Complete
      BY <2>1, <2>3 DEF CancelWaiting, Complete
    <3>. QED BY <1>1, <3>1 DEF Ones
  <2>. QED BY <2>2, <2>3
<1>6. Ones(waiting[k], c) \in Nat
  BY DEF Ones
<1>. QED BY <1>1, <1>2, <1>3, <1>4, <1>5, <1>6 DEF Tally

\* An item that ends is one more of those that ended that way.
LEMMA EndsOnce ==
  ASSUME NEW tasks \in [Items -> Statuses], NEW i \in Items, tasks[i] \notin Complete,
         NEW new \in Statuses, NEW c \in Complete, IsFiniteSet(Ended(tasks, c))
  PROVE  /\ IsFiniteSet(Ended([tasks EXCEPT ![i] = new], c))
         /\ Cardinality(Ended([tasks EXCEPT ![i] = new], c))
              = Cardinality(Ended(tasks, c)) + (IF new = c THEN 1 ELSE 0)
<1>. DEFINE more == [tasks EXCEPT ![i] = new]
<1>1. i \notin Ended(tasks, c) /\ Cardinality(Ended(tasks, c)) \in Nat
  BY FS_CardinalityType DEF Ended
<1>2. CASE new = c
  <2>1. Ended(more, c) = Ended(tasks, c) \cup {i}
    BY <1>2 DEF Ended
  <2>. DEFINE few == Ended(tasks, c)
  <2>2. IsFiniteSet(few) /\ i \notin few
    BY <1>1
  <2>. HIDE DEF few
  <2>3. /\ IsFiniteSet(few \cup {i})
        /\ Cardinality(few \cup {i}) = Cardinality(few) + 1
    BY <2>2, FS_AddElement
  <2>. QED BY <1>2, <2>1, <2>3 DEF few
<1>3. CASE new # c
  <2>1. Ended(more, c) = Ended(tasks, c)
    BY <1>1, <1>3 DEF Ended
  <2>. QED BY <1>1, <1>3, <2>1
<1>. QED BY <1>2, <1>3

LEMMA InitCounted == Init => Counted
<1>. SUFFICES ASSUME Init, NEW c \in Complete PROVE CountedAs(c)
  BY DEF Counted
<1>1. /\ Ended(status, c) = {} /\ Counting(waiting, c) = {}
      /\ stats[c] = 0 /\ lost[c] = 0 /\ Extra(c) = 0
  BY DEF Init, NoTasks, Ended, Counting, Complete, Extra
<1>. QED BY <1>1, FS_EmptySet DEF CountedAs, Tally

\* One item takes another status; more are escalated.
LEMMA StatusCounts ==
  ASSUME Types, NEW c \in Complete, CountedAs(c), NEW i \in Items, NEW new \in Statuses,
         status[i] \notin Complete, status' = [status EXCEPT ![i] = new],
         NEW more \in Nat, Extra(c)' = Extra(c) + more,
         Tally(c)' = Tally(c) + more + (IF new = c THEN 1 ELSE 0)
  PROVE  CountedAs(c)'
<1>1. /\ status \in [Items -> Statuses] /\ Tally(c) \in Nat /\ Extra(c) \in Nat
      /\ IsFiniteSet(Ended(status, c)) /\ Cardinality(Ended(status, c)) \in Nat
      /\ Tally(c) = Cardinality(Ended(status, c)) + Extra(c)
  BY TallyTypes, FS_CardinalityType DEF CountedAs, Types, TaskTypes, Snapshots
<1>2. /\ IsFiniteSet(Ended(status', c))
      /\ Cardinality(Ended(status', c))
           = Cardinality(Ended(status, c)) + (IF new = c THEN 1 ELSE 0)
  <2>1. /\ IsFiniteSet(Ended([status EXCEPT ![i] = new], c))
        /\ Cardinality(Ended([status EXCEPT ![i] = new], c))
             = Cardinality(Ended(status, c)) + (IF new = c THEN 1 ELSE 0)
    BY <1>1, EndsOnce, Zenon
  <2>. QED BY <2>1
<1>. QED BY <1>1, <1>2 DEF CountedAs

LEMMA NextCounted ==
  ASSUME Types, Counted, [Next]_vars
  PROVE  Counted'
<1>. SUFFICES ASSUME overruled' \cup loaded' = {}, NEW c \in Complete
              PROVE  CountedAs(c)'
  BY DEF Counted
<1>1. /\ status \in [Items -> Statuses] /\ stats \in [Complete -> Nat]
      /\ waiting \in Seq(Calls) /\ stats[c] \in Nat /\ lost[c] \in Nat
      /\ Cardinality(Counting(waiting, c)) \in Nat
      /\ Tally(c) \in Nat /\ Extra(c) \in Nat
  BY TallyTypes DEF Types, TaskTypes, Snapshots
<1>2. ASSUME overruled \subseteq overruled', loaded \subseteq loaded'
      PROVE  CountedAs(c)
  BY <1>2 DEF Counted
<1>3. ASSUME UNCHANGED <<status, overruled, loaded, escalated>>, Tally(c)' = Tally(c)
      PROVE  CountedAs(c)'
  BY <1>2, <1>3 DEF CountedAs, Extra
<1>4. ASSUME NEW i \in Items, NEW as \in {"queued", "approved", "rejected"},
             Acquire([item |-> i, as |-> as]), lost' = lost
      PROVE  Tally(c)' = Tally(c) + (IF as = c THEN 1 ELSE 0)
  <2>. DEFINE call == [item |-> i, as |-> as]
  <2>1. call \in Calls /\ Ones(call, c) = (IF as = c THEN 1 ELSE 0) /\ Acquire(call)
    BY <1>4 DEF Calls, Ones
  <2>. HIDE DEF call
  <2>. QED BY <1>4, <2>1, AcquireCounts
<1>5. ASSUME NEW i \in Items, NEW needed, Enqueue(i, needed)
      PROVE  CountedAs(c)'
  <2>1. /\ "pending" \in Statuses /\ "pending" # c /\ status[i] \notin Complete
        /\ status' = [status EXCEPT ![i] = "pending"] /\ UNCHANGED pastVars
        /\ Acquire([item |-> i, as |-> "queued"])
    BY <1>5 DEF Enqueue, Statuses, Complete
  <2>2. Tally(c)' = Tally(c)
    <3>1. lost' = lost /\ "queued" # c
      BY <2>1 DEF pastVars, Complete
    <3>2. Tally(c)' = Tally(c) + (IF "queued" = c THEN 1 ELSE 0)
      BY <1>4, <2>1, <3>1
    <3>. QED BY <1>1, <3>1, <3>2
  <2>3. CountedAs(c) /\ Extra(c)' = Extra(c) + 0
    BY <1>1, <1>2, <2>1 DEF pastVars, Extra
  <2>4. Tally(c)' = Tally(c) + 0 + (IF "pending" = c THEN 1 ELSE 0)
    BY <1>1, <2>1, <2>2
  <2>. QED BY <2>1, <2>3, <2>4, StatusCounts
<1>6. ASSUME NEW i \in Items, NEW as \in {"approved", "rejected"},
             Acquire([item |-> i, as |-> as]), UNCHANGED <<overruled, loaded, lost, escalated>>,
             status[i] \notin Complete, status' = [status EXCEPT ![i] = as]
      PROVE  CountedAs(c)'
  <2>1. Tally(c)' = Tally(c) + 0 + (IF as = c THEN 1 ELSE 0)
    <3>1. lost' = lost /\ as \in {"queued", "approved", "rejected"}
      BY <1>6
    <3>2. Tally(c)' = Tally(c) + (IF as = c THEN 1 ELSE 0)
      BY <1>4, <1>6, <3>1
    <3>3. Tally(c) + 0 = Tally(c)
      BY <1>1
    <3>. QED BY <3>2, <3>3
  <2>2. CountedAs(c) /\ as \in Statuses
    BY <1>2, <1>6 DEF Statuses, Complete
  <2>3. Extra(c)' = Extra(c) + 0
    <3>1. Extra(c)' = Extra(c)
      BY <1>6 DEF Extra
    <3>. QED BY <1>1, <3>1
  <2>. QED BY <1>6, <2>1, <2>2, <2>3, StatusCounts
<1>7. ASSUME NEW i \in Items, NEW a, NEW choice, Vote(i, a, choice)
      PROVE  CountedAs(c)'
  <2>1. /\ UNCHANGED pastVars /\ status[i] \notin Complete
        /\ \/ /\ status' = [status EXCEPT ![i] = "approved"]
              /\ Acquire([item |-> i, as |-> "approved"])
           \/ UNCHANGED <<status, lockVars>>
    BY <1>7, Zenon DEF Vote, Live
  <2>2. CASE UNCHANGED <<status, lockVars>>
    BY <1>3, <2>1, <2>2 DEF lockVars, pastVars, Tally
  <2>3. CASE /\ status' = [status EXCEPT ![i] = "approved"]
             /\ Acquire([item |-> i, as |-> "approved"])
    BY <1>6, <2>1, <2>3 DEF pastVars
  <2>. QED BY <2>1, <2>2, <2>3
<1>8. ASSUME NEW i \in Items, NEW decision \in Decisions, Decide(i, decision)
      PROVE  CountedAs(c)'
  <2>1. /\ status[i] \notin Complete /\ status' = [status EXCEPT ![i] = decision]
        /\ UNCHANGED <<overruled, loaded, lost>>
    BY <1>8 DEF Decide, Complete
  <2>2. CASE decision \in {"approved", "rejected"}
    <3>1. Acquire([item |-> i, as |-> decision]) /\ escalated' = escalated
      BY <1>8, <2>2 DEF Decide
    <3>. QED BY <1>6, <2>1, <2>2, <3>1
  <2>3. CASE decision = "under_review"
    <3>1. Acquire([item |-> i, as |-> "rejected"]) /\ escalated' = escalated + 1
      BY <1>8, <2>3 DEF Decide
    <3>. DEFINE more == IF "rejected" = c THEN 1 ELSE 0
    <3>2. Tally(c)' = Tally(c) + more + (IF "under_review" = c THEN 1 ELSE 0)
      <4>1. Tally(c)' = Tally(c) + more
        BY <1>4, <2>1, <3>1
      <4>. QED BY <1>1, <4>1 DEF Complete
    <3>3. Extra(c)' = Extra(c) + more /\ more \in Nat
      <4>1. escalated \in Nat
        BY QueueAssumption DEF Types, PastTypes
      <4>. QED BY <3>1, <4>1 DEF Extra
    <3>4. CountedAs(c) /\ "under_review" \in Statuses
      BY <1>2, <2>1 DEF Statuses
    <3>. HIDE DEF more
    <3>. QED BY <2>1, <2>3, <3>2, <3>3, <3>4, StatusCounts
  <2>. QED BY <2>2, <2>3 DEF Decisions
<1>9. ASSUME NEW i \in Items, TimeOut(i)
      PROVE  CountedAs(c)'
  <2>1. /\ "timed_out" \in Statuses /\ status[i] \notin Complete /\ UNCHANGED pastVars
        /\ status' = [status EXCEPT ![i] = "timed_out"] /\ waiting' = waiting
        /\ stats' = [stats EXCEPT !["timed_out"] = @ + 1]
    BY <1>9 DEF TimeOut, Live, Statuses, Complete
  <2>2. stats'[c] = stats[c] + (IF "timed_out" = c THEN 1 ELSE 0)
    BY <1>1, <2>1
  <2>3. Tally(c)' = Tally(c) + 0 + (IF "timed_out" = c THEN 1 ELSE 0)
    BY <1>1, <2>1, <2>2 DEF Tally, pastVars
  <2>4. CountedAs(c) /\ Extra(c)' = Extra(c) + 0
    BY <1>1, <1>2, <2>1 DEF pastVars, Extra
  <2>. QED BY <2>1, <2>3, <2>4, StatusCounts
<1>10. ASSUME NEW i \in Items, RequestApproval(i)
       PROVE  CountedAs(c)'
  <2>1. /\ "under_review" \in Statuses /\ "under_review" # c
        /\ status[i] \notin Complete /\ UNCHANGED <<pastVars, waiting, stats>>
        /\ status' = [status EXCEPT ![i] = "under_review"]
    BY <1>10 DEF RequestApproval, Live, lockVars, Statuses, Complete
  <2>2. Tally(c)' = Tally(c) + 0 + (IF "under_review" = c THEN 1 ELSE 0)
    BY <1>1, <2>1 DEF Tally, pastVars
  <2>3. CountedAs(c) /\ Extra(c)' = Extra(c) + 0
    BY <1>1, <1>2, <2>1 DEF pastVars, Extra
  <2>. QED BY <2>1, <2>2, <2>3, StatusCounts
<1>11. ASSUME NEW i \in Items, Reopen(i) \/ (\E new : Resolve(i, new))
       PROVE  FALSE
  BY <1>11 DEF Reopen, Resolve
<1>12. ASSUME PassLock
       PROVE  CountedAs(c)'
  <2>1. /\ waiting # <<>> /\ waiting' = Tail(waiting) /\ Head(waiting) \in Calls
        /\ Account(Head(waiting)) /\ UNCHANGED <<status, pastVars>>
    BY <1>1, <1>12 DEF PassLock, taskVars
  <2>2. stats'[c] = stats[c] + Ones(Head(waiting), c)
    BY <1>1, <2>1, AccountCounts
  <2>3. Cardinality(Counting(waiting, c))
          = Cardinality(Counting(waiting', c)) + Ones(Head(waiting), c)
    BY <1>1, <2>1, CountingTail
  <2>4. Cardinality(Counting(waiting', c)) \in Nat /\ Ones(Head(waiting), c) \in Nat
    <3>1. Tail(waiting) \in Seq(Calls) /\ waiting' = Tail(waiting)
      BY <1>1, <2>1
    <3>. QED BY <3>1, CountingFinite DEF Ones
  <2>5. Tally(c)' = Tally(c)
    BY <1>1, <2>1, <2>2, <2>3, <2>4 DEF Tally, pastVars
  <2>. QED BY <1>3, <2>1, <2>5 DEF pastVars
<1>13. ASSUME \/ Stop \/ CancelUpdate \/ (\E i \in Items : MonitorEnds(i))
              \/ (\E s \in Saves : Save(s)) \/ UNCHANGED vars
       PROVE  CountedAs(c)'
  <2>1. UNCHANGED <<status, overruled, loaded, escalated, lost, waiting, stats>>
    BY <1>13 DEF Stop, CancelUpdate, MonitorEnds, Save, ReadTasks, OpenFile, WriteFile,
       SaveFails, vars, taskVars, lockVars, pastVars
  <2>. QED BY <1>3, <2>1 DEF Tally
<1>14. ASSUME NEW k \in 1..Len(waiting), CancelWaiting(k)
       PROVE  CountedAs(c)'
  <2>1. Tally(c)' = Tally(c) /\ UNCHANGED <<status, overruled, loaded, escalated>>
    BY <1>14, CancelCounts DEF CancelWaiting, taskVars
  <2>. QED BY <1>3, <2>1
<1>15. ASSUME Restart
       PROVE  CountedAs(c)'
  <2>1. \A i \in Items : status'[i] = "none"
    BY <1>15 DEF Restart
  <2>2. /\ Ended(status', c) = {} /\ Counting(waiting', c) = {} /\ stats'[c] = 0
        /\ lost'[c] = 0 /\ Extra(c)' = 0
    BY <1>15, <2>1 DEF Restart, Ended, Counting, Complete, Extra
  <2>. QED BY <2>2, FS_EmptySet DEF CountedAs, Tally
<1>. QED BY <1>5, <1>7, <1>8, <1>9, <1>10, <1>11, <1>12, <1>13, <1>14, <1>15, Zenon DEF Next

-----------------------------------------------------------------------------
(* Theorems.                                                               *)

\* The inductive invariant holds of every behaviour.
THEOREM Invariant == Spec => []QInv
<1>1. Init => QInv
  BY InitTypes, InitKept, InitCounted, InitEarned DEF QInv
<1>2. QInv /\ [Next]_vars => QInv'
  BY NextTypes, NextKept, NextCounted, NextEarned DEF QInv
<1>. QED BY <1>1, <1>2, PTL DEF Spec

\* Every variable of the queue keeps its type.
THEOREM TypeCorrect == Spec => []TypeOK
<1>1. QInv => TypeOK
  <2>. SUFFICES ASSUME QInv PROVE TypeOK
    OBVIOUS
  <2>1. shutdown \in BOOLEAN /\ tangled \in BOOLEAN /\ byMonitor \in BOOLEAN
    BY Zenon DEF QInv, Types, Flags
  <2>. QED BY <2>1 DEF QInv, Types, TaskTypes, LockTypes, CallsOK, Calls, HolderSaves,
         SaveTypes, Stages, PastTypes, TypeOK
<1>. QED BY <1>1, Invariant, PTL

\* Votes, reviewers and the timeout decide an item once.
THEOREM DecisionsStand == Spec => DecisionStands
<1>1. QInv /\ [Next]_vars =>
        [\A i \in Items :
           (status[i] \in Complete /\ status'[i] # status[i]) =>
             (i \in overruled' \/ restarts' # restarts)]_vars
  BY NextStands DEF QInv
<1>. QED BY <1>1, Invariant, PTL DEF Spec, DecisionStands

\* Nobody is approved without the votes or a reviewer.
THEOREM DecisionsAreEarned == Spec => []DecisionIsEarned
<1>1. QInv => DecisionIsEarned
  BY DEF QInv
<1>. QED BY <1>1, Invariant, PTL

\* The counters and the calls that wait add up to the items that ended.
THEOREM EachIsCounted == Spec => []StatsAddUp
<1>1. QInv => StatsAddUp
  BY DEF QInv, Counted, CountedAs, Tally, Extra, Counting, Ended, StatsAddUp, Waiting
<1>. QED BY <1>1, Invariant, PTL

\* In a quiet queue whose saves never met, every decision is in the file.
THEOREM DecisionsAreSaved == Spec => []PersistedWhenQuiet
<1>1. QInv => PersistedWhenQuiet
  <2>. SUFFICES ASSUME QInv, Saving = {}, waiting = <<>>, ~tangled
                PROVE  Holds(file)
    BY DEF PersistedWhenQuiet, Holds
  <2>1. tangled = FALSE
    BY Zenon DEF QInv, Types, Flags
  <2>2. \A s \in Saves : stage[s] = "idle"
    BY DEF Saving
  <2>. QED BY <2>1, <2>2 DEF QInv, Kept
<1>. QED BY <1>1, Invariant, PTL

=============================================================================
