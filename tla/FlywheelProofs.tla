--------------------------- MODULE FlywheelProofs ---------------------------
(***************************************************************************)
(* Proofs about FlywheelRun, for any number of calls in progress, stages   *)
(* and operations: what each call holds while others run, and from it that *)
(* the indexes, the versions and the checkpoint are right and that an      *)
(* undisturbed run implements RunLifecycle.                                *)
(***************************************************************************)
EXTENDS FlywheelRun, TLAPS

Docs == Runs \cup {NoRun}

\* The calls an operation goes through.
Places(o) ==
    CASE o = "build"    -> {"stateRead", "stateWrite", "reget", "building", "saveRead",
                            "saveWrite", "checkpointRead", "checkpointWrite"}
      [] o = "change"   -> {"stepCheck", "stepWrite", "saveRead", "saveWrite"}
      [] o = "resume"   -> {"stateRead", "stateWrite", "reget", "saveRead", "saveWrite"}
      [] o = "complete" -> {"stateRead", "stateWrite"}
      [] o = "stop"     -> {"stateRead", "stateWrite"}
      [] o = "delete"   -> {"deleteRead", "deleteWrite"}
      [] OTHER          -> {"idle"}

\* Target, by the operation.
TargetOf(o) == CASE o = "complete" -> "COMPLETED"
                 [] o = "stop"     -> "FAILED"
                 [] OTHER          -> "RUNNING"

\* What a task holds before the call p of its operation o: the run m it is
\* going to save, made from b, and the hash r it has read.
Placed(p, o, m, r, b) ==
    /\ p \in Places(o)
    /\ o \in {"build", "change", "resume"} =>
         /\ m \in Runs /\ m.named = TRUE
         /\ b \in Runs /\ b.named = TRUE
    /\ p \in {"stateWrite", "checkpointWrite", "deleteWrite"} => r \in Runs
    /\ p = "stateWrite" => TargetOf(o) \in Valid(r.state)
    /\ p = "saveWrite" => r = NoRun \/ r.version \in {m.version, m.version + 1}

\* How m differs from the run it was made from.
Derived(p, o, m, b) ==
    o \in {"build", "change", "resume"} =>
      /\ m.state = b.state
      /\ o = "build" =>
           /\ m.paused = b.paused
           /\ p \in {"stateRead", "stateWrite", "reget", "building"} =>
                m.dataset = b.dataset /\ m.step = b.step
           /\ p \notin {"stateRead", "stateWrite", "reget", "building"} =>
                /\ m.dataset = TRUE
                /\ m.step = IF b.step = 0 THEN 1 ELSE b.step
      /\ o # "build" =>
           /\ m.dataset = b.dataset
           /\ m.paused = b.paused \/ m.step = b.step
      /\ p \in {"stepCheck", "stepWrite"} => m.paused = b.paused

\* What a task knows of the stored run, rec, as long as no call wrote over
\* what it had not read; late, if a build was overtaken, and over, if the time
\* to live has run out, it knows less.
Knows(p, o, r, b, rec, late, over) ==
    /\ o = "build" /\ p = "reget" => rec = NoRun \/ rec.state # "INITIALIZED"
    /\ o = "build" /\ p \in {"building", "saveRead", "saveWrite"} =>
         late = TRUE \/ rec = NoRun \/ (b.state = "RUNNING" /\ b.paused = FALSE)
    /\ p = "checkpointRead" => rec = NoRun \/ rec.dataset = TRUE
    /\ p = "checkpointWrite" => r.dataset = TRUE
    /\ o = "delete" => over = TRUE \/ rec = NoRun \/ rec.state \in Terminal

TasksPlaced ==
    \A t \in Tasks : /\ Placed(pc[t], op[t], mine[t], old[t], base[t])
                     /\ Derived(pc[t], op[t], mine[t], base[t])

Undisturbed ==
    raced = FALSE /\ stale = FALSE =>
      /\ record = NoRun \/ record.named = TRUE
      /\ checkpoint # "missing"
      /\ \A t \in Tasks : Knows(pc[t], op[t], old[t], base[t], record, overtaken, expired)

\* IndexAgrees.
Listed ==
    raced = FALSE /\ expired = FALSE =>
        indexes = IF record = NoRun THEN {} ELSE {record.state}

\* The inductive invariant.
FInv == TypeOK /\ FoundByState /\ Listed /\ TasksPlaced /\ Undisturbed

-----------------------------------------------------------------------------
(* A step of one task.                                                     *)

\* TypeOK, but for what the tasks hold.
RestOK ==
    /\ record \in Docs
    /\ timed \in BOOLEAN
    /\ indexes \subseteq States
    /\ checkpoint \in {"none", "missing", "built"}
    /\ raced \in BOOLEAN /\ stale \in BOOLEAN
    /\ overtaken \in BOOLEAN /\ expired \in BOOLEAN
    /\ started \in 0..MaxOps

\* A step leaves t before the call p of operation o, with m, r and b.
Lands(t, p, o, m, r, b) ==
    /\ pc' = [pc EXCEPT ![t] = p] /\ op' = [op EXCEPT ![t] = o]
    /\ mine' = [mine EXCEPT ![t] = m]
    /\ old' = [old EXCEPT ![t] = r] /\ base' = [base EXCEPT ![t] = b]

\* A change of the stored run that undoes nothing of what a task knows.
Tame ==
    \/ record' = record
    \/ record' = NoRun
    \/ /\ record \in Runs /\ record' \in Runs
       /\ record'.named = record.named
       /\ record.state # "INITIALIZED" => record'.state # "INITIALIZED"
       /\ record.state \in Terminal => record'.state \in Terminal
       /\ record.dataset = TRUE => record'.dataset = TRUE

\* Disturbances, overtaken builds and the expiry are remembered.
Remembers ==
    /\ raced = TRUE => raced' = TRUE
    /\ stale = TRUE => stale' = TRUE
    /\ overtaken = TRUE => overtaken' = TRUE
    /\ expired = TRUE => expired' = TRUE

LEMMA KnowsKept ==
  ASSUME NEW p, NEW o, NEW r, NEW b, Tame, Remembers,
         Knows(p, o, r, b, record, overtaken, expired)
  PROVE  Knows(p, o, r, b, record', overtaken', expired')
BY RunAssumption DEF Knows, Tame, Remembers

LEMMA Landing ==
  ASSUME FInv, NEW t \in Tasks, NEW p \in Calls, NEW o \in Ops,
         NEW m \in Docs, NEW r \in Docs, NEW b \in Docs,
         Lands(t, p, o, m, r, b)
  PROVE  /\ pc' \in [Tasks -> Calls] /\ op' \in [Tasks -> Ops]
         /\ mine' \in [Tasks -> Docs] /\ old' \in [Tasks -> Docs]
         /\ base' \in [Tasks -> Docs]
         /\ pc'[t] = p /\ op'[t] = o /\ mine'[t] = m /\ old'[t] = r /\ base'[t] = b
         /\ \A u \in Tasks : u # t =>
              /\ pc'[u] = pc[u] /\ op'[u] = op[u] /\ mine'[u] = mine[u]
              /\ old'[u] = old[u] /\ base'[u] = base[u]
<1>1. /\ pc \in [Tasks -> Calls] /\ op \in [Tasks -> Ops]
      /\ mine \in [Tasks -> Docs] /\ old \in [Tasks -> Docs]
      /\ base \in [Tasks -> Docs]
  BY DEF FInv, TypeOK, Docs
<1>. QED BY <1>1 DEF Lands

LEMMA TaskStep ==
  ASSUME FInv, RestOK', NEW t \in Tasks, NEW p \in Calls, NEW o \in Ops,
         NEW m \in Docs, NEW r \in Docs, NEW b \in Docs,
         Lands(t, p, o, m, r, b), p = "idle" <=> o = "none",
         Placed(p, o, m, r, b), Derived(p, o, m, b),
         FoundByState', Listed', Remembers,
         raced' = FALSE /\ stale' = FALSE =>
           /\ Tame
           /\ record' = NoRun \/ record'.named = TRUE
           /\ checkpoint' # "missing"
           /\ Knows(p, o, r, b, record', overtaken', expired')
  PROVE  FInv'
<1>1. /\ pc' \in [Tasks -> Calls] /\ op' \in [Tasks -> Ops]
      /\ mine' \in [Tasks -> Docs] /\ old' \in [Tasks -> Docs]
      /\ base' \in [Tasks -> Docs]
      /\ pc'[t] = p /\ op'[t] = o /\ mine'[t] = m /\ old'[t] = r /\ base'[t] = b
      /\ \A u \in Tasks : u # t =>
           /\ pc'[u] = pc[u] /\ op'[u] = op[u] /\ mine'[u] = mine[u]
           /\ old'[u] = old[u] /\ base'[u] = base[u]
  BY Landing
<1>2. TypeOK'
  <2>1. \A u \in Tasks : pc'[u] = "idle" <=> op'[u] = "none"
    BY <1>1 DEF FInv, TypeOK
  <2>. QED BY <1>1, <2>1, Zenon DEF TypeOK, RestOK, Docs
<1>3. TasksPlaced'
  <2>. SUFFICES ASSUME NEW u \in Tasks
                PROVE  /\ Placed(pc'[u], op'[u], mine'[u], old'[u], base'[u])
                       /\ Derived(pc'[u], op'[u], mine'[u], base'[u])
    BY DEF TasksPlaced
  <2>1. CASE u = t
    BY <1>1, <2>1
  <2>2. CASE u # t
    BY <1>1, <2>2 DEF FInv, TasksPlaced
  <2>. QED BY <2>1, <2>2
<1>4. Undisturbed'
  <2>. SUFFICES ASSUME raced' = FALSE, stale' = FALSE, NEW u \in Tasks
                PROVE  Knows(pc'[u], op'[u], old'[u], base'[u], record', overtaken', expired')
    BY Zenon DEF Undisturbed
  <2>1. CASE u = t
    BY <1>1, <2>1
  <2>2. CASE u # t
    <3>1. Knows(pc[u], op[u], old[u], base[u], record, overtaken, expired)
      <4>1. raced = FALSE /\ stale = FALSE
        BY Zenon DEF Remembers, FInv, TypeOK
      <4>. QED BY <4>1, Zenon DEF FInv, Undisturbed
    <3>2. Knows(pc[u], op[u], old[u], base[u], record', overtaken', expired')
      BY <3>1, KnowsKept
    <3>. QED BY <1>1, <2>2, <3>2
  <2>. QED BY <2>1, <2>2
<1>. QED BY <1>2, <1>3, <1>4, Zenon DEF FInv

\* What FInv says of one task.
LEMMA TaskFacts ==
  ASSUME FInv, NEW t \in Tasks
  PROVE  /\ pc[t] \in Calls /\ op[t] \in Ops
         /\ mine[t] \in Docs /\ old[t] \in Docs /\ base[t] \in Docs
         /\ pc[t] = "idle" <=> op[t] = "none"
         /\ Placed(pc[t], op[t], mine[t], old[t], base[t])
         /\ Derived(pc[t], op[t], mine[t], base[t])
         /\ pc = [pc EXCEPT ![t] = pc[t]] /\ op = [op EXCEPT ![t] = op[t]]
         /\ mine = [mine EXCEPT ![t] = mine[t]]
         /\ old = [old EXCEPT ![t] = old[t]] /\ base = [base EXCEPT ![t] = base[t]]
         /\ record \in Docs /\ NoRun \in Docs
         /\ started \in Nat /\ started <= MaxOps
<1>1. /\ pc \in [Tasks -> Calls] /\ op \in [Tasks -> Ops]
      /\ mine \in [Tasks -> Docs] /\ old \in [Tasks -> Docs]
      /\ base \in [Tasks -> Docs] /\ record \in Docs
      /\ \A u \in Tasks : pc[u] = "idle" <=> op[u] = "none"
      /\ started \in 0..MaxOps
  BY DEF FInv, TypeOK, Docs
<1>2. /\ Placed(pc[t], op[t], mine[t], old[t], base[t])
      /\ Derived(pc[t], op[t], mine[t], base[t])
  BY DEF FInv, TasksPlaced
<1>3. started \in Nat /\ started <= MaxOps /\ NoRun \in Docs
  BY <1>1, RunAssumption DEF Docs
<1>. QED BY <1>1, <1>2, <1>3

\* A step that changes nothing in Redis, and may find a build overtaken.
LEMMA QuietStep ==
  ASSUME FInv, NEW t \in Tasks, NEW p \in Calls, NEW o \in Ops,
         NEW m \in Docs, NEW r \in Docs, NEW b \in Docs,
         Lands(t, p, o, m, r, b), p = "idle" <=> o = "none",
         Placed(p, o, m, r, b), Derived(p, o, m, b),
         UNCHANGED <<redis, raced, stale, expired>>,
         overtaken' \in BOOLEAN, overtaken = TRUE => overtaken' = TRUE,
         started' \in 0..MaxOps,
         raced = FALSE /\ stale = FALSE => Knows(p, o, r, b, record, overtaken', expired)
  PROVE  FInv'
<1>1. UNCHANGED <<record, timed, indexes, checkpoint, raced, stale, expired>>
  BY DEF redis
<1>2. RestOK'
  BY <1>1, Zenon DEF RestOK, FInv, TypeOK, Docs
<1>3. FoundByState' /\ Listed'
  <2>1. FoundByState'
    BY <1>1 DEF FInv, FoundByState, Found
  <2>2. Listed'
    <3>1. raced' = FALSE /\ expired' = FALSE => raced = FALSE /\ expired = FALSE
      BY <1>1, Zenon
    <3>. QED BY <1>1, <3>1 DEF FInv, Listed
  <2>. QED BY <2>1, <2>2
<1>4. Remembers
  BY <1>1, Zenon DEF Remembers
<1>5. ASSUME raced' = FALSE, stale' = FALSE
      PROVE  /\ Tame
             /\ record' = NoRun \/ record'.named = TRUE
             /\ checkpoint' # "missing"
             /\ Knows(p, o, r, b, record', overtaken', expired')
  <2>1. raced = FALSE /\ stale = FALSE
    BY <1>1, <1>5, Zenon
  <2>2. record' = NoRun \/ record'.named = TRUE
    BY <1>1, <2>1, Zenon DEF FInv, Undisturbed
  <2>3. checkpoint' # "missing"
    BY <1>1, <2>1, Zenon DEF FInv, Undisturbed
  <2>4. Knows(p, o, r, b, record', overtaken', expired')
    BY <1>1, <2>1, Zenon
  <2>. QED BY <1>1, <2>2, <2>3, <2>4, Zenon DEF Tame
<1>. QED BY <1>2, <1>3, <1>4, <1>5, TaskStep

\* A task whose operation is over holds nothing.
LEMMA Idle ==
  ASSUME NEW rec, NEW late, NEW over
  PROVE  /\ Placed("idle", "none", NoRun, NoRun, NoRun)
         /\ Derived("idle", "none", NoRun, NoRun)
         /\ Knows("idle", "none", NoRun, NoRun, rec, late, over)
         /\ "idle" \in Calls /\ "none" \in Ops /\ NoRun \in Docs
BY DEF Placed, Places, Derived, Knows, Calls, Ops, Docs

LEMMA DoneStep ==
  ASSUME FInv, NEW t \in Tasks, Done(t), UNCHANGED <<redis, past, started>>
  PROVE  FInv'
<1>1. Lands(t, "idle", "none", NoRun, NoRun, NoRun)
  BY DEF Done, Goto, Lands
<1>2. overtaken' \in BOOLEAN /\ (overtaken = TRUE => overtaken' = TRUE)
  BY Zenon DEF past, FInv, TypeOK
<1>3. UNCHANGED <<redis, raced, stale, expired>> /\ started' \in 0..MaxOps
  BY DEF past, FInv, TypeOK
<1>4. Knows("idle", "none", NoRun, NoRun, record, overtaken', expired)
  BY Idle
<1>. QED BY <1>1, <1>2, <1>3, <1>4, Idle, QuietStep

-----------------------------------------------------------------------------
(* The steps that change nothing in Redis.                                 *)

\* The start of an operation; it knows nothing yet but what Knows asks for.
LEMMA BeginStep ==
  ASSUME FInv, NEW t \in Tasks, NEW p \in Calls, NEW o \in Ops, o # "none", p # "idle",
         NEW m \in Docs, NEW b \in Docs,
         Begin(t, o, p), mine' = [mine EXCEPT ![t] = m], base' = [base EXCEPT ![t] = b],
         Placed(p, o, m, old[t], b), Derived(p, o, m, b),
         raced = FALSE /\ stale = FALSE => Knows(p, o, old[t], b, record, overtaken, expired)
  PROVE  FInv'
<1>1. /\ pc' = [pc EXCEPT ![t] = p] /\ op' = [op EXCEPT ![t] = o]
      /\ started < MaxOps /\ started' = started + 1
      /\ UNCHANGED <<redis, old, raced, stale, overtaken, expired>>
  BY DEF Begin, Goto, past
<1>2. Lands(t, p, o, m, old[t], b)
  BY <1>1, TaskFacts DEF Lands
<1>3. started' \in 0..MaxOps
  BY <1>1, TaskFacts, RunAssumption
<1>4. overtaken' \in BOOLEAN /\ (overtaken = TRUE => overtaken' = TRUE)
  BY <1>1, Zenon DEF FInv, TypeOK
<1>5. raced = FALSE /\ stale = FALSE => Knows(p, o, old[t], b, record, overtaken', expired)
  BY <1>1, Zenon
<1>6. old[t] \in Docs
  BY TaskFacts
<1>7. UNCHANGED <<redis, raced, stale, expired>>
  BY <1>1
<1>. QED BY <1>2, <1>3, <1>4, <1>5, <1>6, <1>7, QuietStep

LEMMA FoundRun ==
  ASSUME FInv, Found
  PROVE  record \in Runs /\ record.named = TRUE /\ record # NoRun
BY RunAssumption DEF FInv, TypeOK, Found, Runs

LEMMA FInvBuild ==
  ASSUME FInv, NEW t \in Tasks, Build(t)
  PROVE  FInv'
<1>. DEFINE next == IF record.state = "INITIALIZED" THEN "stateRead" ELSE "building"
<1>1. /\ Found /\ record.paused = FALSE /\ record.state \notin Terminal
      /\ BeginWith(t, "build", next, record)
  <2>1. record.paused \in BOOLEAN
    BY FoundRun DEF Build, Runs
  <2>. QED BY <2>1 DEF Build
<1>2. /\ record \in Runs /\ record.named = TRUE /\ record \in Docs
  BY <1>1, FoundRun DEF Docs
<1>3. next \in Calls /\ next # "idle" /\ next \in {"stateRead", "building"}
      /\ "build" \in Ops /\ (next = "building" => record.state = "RUNNING")
  BY <1>1, <1>2 DEF Calls, Ops, Runs, States, Terminal
<1>. HIDE DEF next
<1>4. /\ Placed(next, "build", record, old[t], record)
      /\ Derived(next, "build", record, record)
  BY <1>2, <1>3 DEF Placed, Places, Derived
<1>5. Knows(next, "build", old[t], record, record, overtaken, expired)
  BY <1>1, <1>3 DEF Knows
<1>6. /\ Begin(t, "build", next)
      /\ mine' = [mine EXCEPT ![t] = record] /\ base' = [base EXCEPT ![t] = record]
  BY <1>1 DEF BeginWith, Keep
<1>. QED BY <1>2, <1>3, <1>4, <1>5, <1>6, BeginStep

\* Pause, Advance, and Resume of a run that has started.
LEMMA FInvChange ==
  ASSUME FInv, NEW t \in Tasks,
         Pause(t) \/ Resume(t) \/ \E k \in Steps : Advance(t, k)
  PROVE  FInv'
<1>1. Found
  BY DEF Pause, Resume, Advance, BeginWith
<1>2. record \in Runs /\ record.named = TRUE /\ record \in Docs
  BY <1>1, FoundRun DEF Docs
<1>3. {"saveRead", "stepCheck", "stateRead"} \subseteq Calls /\ {"change", "resume"} \subseteq Ops
  BY DEF Calls, Ops
<1>4. ASSUME NEW v \in BOOLEAN,
             BeginWith(t, "change", "saveRead", [record EXCEPT !.paused = v])
      PROVE  FInv'
  <2>. DEFINE m == [record EXCEPT !.paused = v]
  <2>1. /\ m \in Runs /\ m \in Docs /\ m.named = TRUE /\ m.state = record.state
        /\ m.dataset = record.dataset /\ m.step = record.step
    BY <1>2 DEF Runs, Docs
  <2>2. /\ Begin(t, "change", "saveRead")
        /\ mine' = [mine EXCEPT ![t] = m] /\ base' = [base EXCEPT ![t] = record]
    BY <1>4 DEF BeginWith, Keep
  <2>. HIDE DEF m
  <2>3. /\ Placed("saveRead", "change", m, old[t], record)
        /\ Derived("saveRead", "change", m, record)
        /\ Knows("saveRead", "change", old[t], record, record, overtaken, expired)
    BY <1>2, <2>1 DEF Placed, Places, Derived, Knows
  <2>. QED BY <1>2, <1>3, <2>1, <2>2, <2>3, BeginStep
<1>5. ASSUME NEW k \in Steps, Advance(t, k)
      PROVE  FInv'
  <2>. DEFINE m == [record EXCEPT !.step = k]
  <2>1. /\ m \in Runs /\ m \in Docs /\ m.named = TRUE /\ m.state = record.state
        /\ m.dataset = record.dataset /\ m.paused = record.paused
    BY <1>2 DEF Runs, Docs
  <2>2. /\ Begin(t, "change", "stepCheck")
        /\ mine' = [mine EXCEPT ![t] = m] /\ base' = [base EXCEPT ![t] = record]
    BY <1>5 DEF Advance, BeginWith, Keep
  <2>. HIDE DEF m
  <2>3. /\ Placed("stepCheck", "change", m, old[t], record)
        /\ Derived("stepCheck", "change", m, record)
        /\ Knows("stepCheck", "change", old[t], record, record, overtaken, expired)
    BY <1>2, <2>1 DEF Placed, Places, Derived, Knows
  <2>. QED BY <1>2, <1>3, <2>1, <2>2, <2>3, BeginStep
<1>6. CASE BeginWith(t, "resume", "stateRead", record)
  <2>1. /\ Begin(t, "resume", "stateRead")
        /\ mine' = [mine EXCEPT ![t] = record] /\ base' = [base EXCEPT ![t] = record]
    BY <1>6 DEF BeginWith, Keep
  <2>2. /\ Placed("stateRead", "resume", record, old[t], record)
        /\ Derived("stateRead", "resume", record, record)
        /\ Knows("stateRead", "resume", old[t], record, record, overtaken, expired)
    BY <1>2 DEF Placed, Places, Derived, Knows
  <2>. QED BY <1>2, <1>3, <2>1, <2>2, BeginStep
<1>. QED BY <1>4, <1>5, <1>6 DEF Pause, Resume

\* Complete, Stop and CleanUp, which read nothing before their first call.
LEMMA FInvEnding ==
  ASSUME FInv, NEW t \in Tasks, Complete(t) \/ Stop(t) \/ CleanUp(t)
  PROVE  FInv'
<1>1. mine' = [mine EXCEPT ![t] = mine[t]] /\ base' = [base EXCEPT ![t] = base[t]]
  BY TaskFacts DEF Complete, Stop, CleanUp
<1>2. /\ {"stateRead", "deleteRead"} \subseteq Calls
      /\ {"complete", "stop", "delete"} \subseteq Ops
      /\ mine[t] \in Docs /\ base[t] \in Docs
  BY TaskFacts DEF Calls, Ops
<1>3. ASSUME NEW o \in {"complete", "stop"}, Begin(t, o, "stateRead")
      PROVE  FInv'
  <2>1. /\ Placed("stateRead", o, mine[t], old[t], base[t])
        /\ Derived("stateRead", o, mine[t], base[t])
        /\ Knows("stateRead", o, old[t], base[t], record, overtaken, expired)
    BY DEF Placed, Places, Derived, Knows
  <2>. QED BY <1>1, <1>2, <1>3, <2>1, BeginStep
<1>4. CASE CleanUp(t)
  <2>1. /\ Placed("deleteRead", "delete", mine[t], old[t], base[t])
        /\ Derived("deleteRead", "delete", mine[t], base[t])
    BY DEF Placed, Places, Derived
  <2>2. ASSUME raced = FALSE
        PROVE  Knows("deleteRead", "delete", old[t], base[t], record, overtaken, expired)
    <3>1. indexes \cap Terminal # {} /\ record # NoRun
      BY <1>4 DEF CleanUp
    <3>2. expired = TRUE \/ indexes = {record.state}
      <4>1. expired = TRUE \/ indexes = IF record = NoRun THEN {} ELSE {record.state}
        BY <2>2, Zenon DEF FInv, Listed, TypeOK
      <4>. QED BY <3>1, <4>1
    <3>3. expired = TRUE \/ record.state \in Terminal
      BY <3>1, <3>2
    <3>. QED BY <3>3 DEF Knows
  <2>3. Begin(t, "delete", "deleteRead")
    BY <1>4 DEF CleanUp
  <2>. QED BY <1>1, <1>2, <2>1, <2>2, <2>3, BeginStep
<1>. QED BY <1>3, <1>4 DEF Complete, Stop

\* A read, or the end of a build, after which t is before the call p.
LEMMA ReadStep ==
  ASSUME FInv, NEW t \in Tasks, NEW p \in Calls, p # "idle", pc[t] # "idle",
         NEW m \in Docs, NEW r \in Docs, NEW b \in Docs,
         Goto(t, p), UNCHANGED op, mine' = [mine EXCEPT ![t] = m],
         old' = [old EXCEPT ![t] = r], base' = [base EXCEPT ![t] = b],
         Placed(p, op[t], m, r, b), Derived(p, op[t], m, b),
         UNCHANGED <<redis, raced, stale, expired, started>>,
         overtaken' \in BOOLEAN, overtaken = TRUE => overtaken' = TRUE,
         raced = FALSE /\ stale = FALSE => Knows(p, op[t], r, b, record, overtaken', expired)
  PROVE  FInv'
<1>1. Lands(t, p, op[t], m, r, b)
  BY TaskFacts DEF Lands, Goto
<1>2. op[t] \in Ops /\ op[t] # "none" /\ started' \in 0..MaxOps
  BY TaskFacts DEF FInv, TypeOK
<1>. QED BY <1>1, <1>2, QuietStep

LEMMA OvertakenStays ==
  ASSUME FInv, UNCHANGED overtaken
  PROVE  /\ overtaken' \in BOOLEAN /\ (overtaken = TRUE => overtaken' = TRUE)
         /\ \A p, o, r, b : Knows(p, o, r, b, record, overtaken, expired)
                              => Knows(p, o, r, b, record, overtaken', expired)
BY Zenon DEF FInv, TypeOK

\* What a task knows, in an undisturbed state.
LEMMA TaskKnows ==
  ASSUME FInv, NEW t \in Tasks, raced = FALSE, stale = FALSE
  PROVE  /\ Knows(pc[t], op[t], old[t], base[t], record, overtaken, expired)
         /\ record = NoRun \/ record.named = TRUE
BY Zenon DEF FInv, Undisturbed

LEMMA FInvStateRead ==
  ASSUME FInv, NEW t \in Tasks, StateRead(t)
  PROVE  FInv'
<1>1. CASE Done(t)
  BY <1>1, DoneStep DEF StateRead
<1>2. CASE /\ record # NoRun /\ Target(t) \in Valid(Stored.state)
           /\ Goto(t, "stateWrite")
           /\ old' = [old EXCEPT ![t] = record]
           /\ UNCHANGED <<op, mine, base>>
  <2>1. /\ pc[t] = "stateRead" /\ "stateWrite" \in Calls
        /\ UNCHANGED <<redis, raced, stale, overtaken, expired, started>>
    BY DEF StateRead, Calls, past
  <2>2. record \in Docs /\ record \in Runs /\ Target(t) = TargetOf(op[t])
        /\ Stored.state = record.state
    BY <1>2, TaskFacts DEF Docs, Stored, Target, TargetOf
  <2>3. /\ mine[t] \in Docs /\ base[t] \in Docs /\ op[t] \in Ops
        /\ Placed("stateRead", op[t], mine[t], old[t], base[t])
        /\ Derived("stateRead", op[t], mine[t], base[t])
    BY <2>1, TaskFacts
  <2>4. Placed("stateWrite", op[t], mine[t], record, base[t])
    BY <1>2, <2>2, <2>3 DEF Placed, Places, Ops
  <2>5. Derived("stateWrite", op[t], mine[t], base[t])
    BY <2>3 DEF Derived
  <2>6. Knows("stateWrite", op[t], record, base[t], record, overtaken, expired)
    BY <2>3 DEF Placed, Places, Knows
  <2>7. mine' = [mine EXCEPT ![t] = mine[t]] /\ base' = [base EXCEPT ![t] = base[t]]
    BY <1>2, TaskFacts
  <2>. QED BY <1>2, <2>1, <2>2, <2>3, <2>4, <2>5, <2>6, <2>7, OvertakenStays, ReadStep
<1>. QED BY <1>1, <1>2 DEF StateRead

LEMMA FInvReget ==
  ASSUME FInv, NEW t \in Tasks, Reget(t)
  PROVE  FInv'
<1>1. /\ pc[t] = "reget" /\ {"building", "saveRead"} \subseteq Calls
      /\ UNCHANGED <<redis, raced, stale, expired, started>>
  BY DEF Reget, Calls
<1>2. /\ mine[t] \in Docs /\ old[t] \in Docs /\ base[t] \in Docs /\ record \in Docs
      /\ Placed("reget", op[t], mine[t], old[t], base[t])
      /\ Derived("reget", op[t], mine[t], base[t])
      /\ old = [old EXCEPT ![t] = old[t]] /\ mine = [mine EXCEPT ![t] = mine[t]]
      /\ base = [base EXCEPT ![t] = base[t]]
  BY <1>1, TaskFacts
<1>3. CASE /\ op[t] = "build" /\ Found
           /\ Goto(t, "building") /\ Keep(t, record)
           /\ overtaken' = (overtaken \/ record.paused \/ record.state \in Terminal)
           /\ UNCHANGED <<op, old>>
  <2>1. record \in Runs /\ record.named = TRUE /\ record # NoRun
    BY <1>3, FoundRun
  <2>2. overtaken' \in BOOLEAN /\ (overtaken = TRUE => overtaken' = TRUE)
    BY <1>3
  <2>3. /\ Placed("building", "build", record, old[t], record)
        /\ Derived("building", "build", record, record)
    BY <2>1 DEF Placed, Places, Derived
  <2>4. ASSUME raced = FALSE, stale = FALSE
        PROVE  Knows("building", "build", old[t], record, record, overtaken', expired)
    <3>1. record.state # "INITIALIZED"
      BY <1>1, <1>3, <2>1, <2>4, TaskKnows DEF Knows
    <3>2. record.state \in States /\ record.paused \in BOOLEAN
      BY <2>1 DEF Runs
    <3>3. overtaken' = TRUE \/ (record.paused = FALSE /\ record.state \notin Terminal)
      BY <1>3, <3>2
    <3>4. overtaken' = TRUE \/ (record.state = "RUNNING" /\ record.paused = FALSE)
      BY <3>1, <3>2, <3>3 DEF States, Terminal
    <3>. QED BY <3>4 DEF Knows
  <2>5. mine' = [mine EXCEPT ![t] = record] /\ base' = [base EXCEPT ![t] = record]
    BY <1>3 DEF Keep
  <2>. QED BY <1>1, <1>2, <1>3, <2>2, <2>3, <2>4, <2>5, ReadStep
<1>4. CASE /\ op[t] = "build" /\ ~Found
           /\ Goto(t, "building") /\ UNCHANGED <<op, mine, old, base, overtaken>>
  <2>1. /\ Placed("building", "build", mine[t], old[t], base[t])
        /\ Derived("building", "build", mine[t], base[t])
    BY <1>2, <1>4 DEF Placed, Places, Derived
  <2>2. ASSUME raced = FALSE, stale = FALSE
        PROVE  Knows("building", "build", old[t], base[t], record, overtaken, expired)
    <3>1. record = NoRun
      BY <1>4, <2>2, TaskKnows DEF Found
    <3>. QED BY <3>1 DEF Knows
  <2>. QED BY <1>1, <1>2, <1>4, <2>1, <2>2, OvertakenStays, ReadStep
<1>5. CASE /\ op[t] = "resume" /\ Found
           /\ Goto(t, "saveRead") /\ Keep(t, [record EXCEPT !.paused = FALSE])
           /\ UNCHANGED <<op, old, overtaken>>
  <2>. DEFINE m == [record EXCEPT !.paused = FALSE]
  <2>1. record \in Runs /\ record.named = TRUE /\ record # NoRun
    BY <1>5, FoundRun
  <2>2. /\ m \in Runs /\ m \in Docs /\ m.named = TRUE /\ m.state = record.state
        /\ m.dataset = record.dataset /\ m.step = record.step
    BY <2>1 DEF Runs, Docs
  <2>3. mine' = [mine EXCEPT ![t] = m] /\ base' = [base EXCEPT ![t] = record]
    BY <1>5 DEF Keep
  <2>. HIDE DEF m
  <2>4. /\ Placed("saveRead", "resume", m, old[t], record)
        /\ Derived("saveRead", "resume", m, record)
        /\ Knows("saveRead", "resume", old[t], record, record, overtaken, expired)
    BY <2>1, <2>2 DEF Placed, Places, Derived, Knows
  <2>. QED BY <1>1, <1>2, <1>5, <2>2, <2>3, <2>4, OvertakenStays, ReadStep
<1>6. CASE Done(t) /\ UNCHANGED overtaken
  BY <1>1, <1>6, DoneStep DEF past
<1>. QED BY <1>3, <1>4, <1>5, <1>6 DEF Reget

LEMMA FInvDatasetBuilt ==
  ASSUME FInv, NEW t \in Tasks, DatasetBuilt(t)
  PROVE  FInv'
<1>. DEFINE m == WithDataset(mine[t])
<1>1. /\ pc[t] = "building" /\ "saveRead" \in Calls /\ Goto(t, "saveRead")
      /\ UNCHANGED <<redis, op, old, base, raced, stale, overtaken, expired, started>>
  BY DEF DatasetBuilt, Calls, past
<1>2. /\ old[t] \in Docs /\ base[t] \in Docs /\ op[t] \in Ops
      /\ Placed("building", op[t], mine[t], old[t], base[t])
      /\ Derived("building", op[t], mine[t], base[t])
      /\ old = [old EXCEPT ![t] = old[t]] /\ base = [base EXCEPT ![t] = base[t]]
  BY <1>1, TaskFacts
<1>3. op[t] = "build" /\ mine[t] \in Runs /\ mine[t].named = TRUE
  BY <1>2 DEF Placed, Places, Ops
<1>4. /\ m \in Runs /\ m \in Docs /\ m.named = TRUE /\ m.state = mine[t].state
      /\ m.paused = mine[t].paused /\ m.dataset = TRUE
      /\ m.step = IF mine[t].step = 0 THEN 1 ELSE mine[t].step
  BY <1>3, RunAssumption DEF WithDataset, Runs, Docs
<1>5. mine' = [mine EXCEPT ![t] = m]
  BY DEF DatasetBuilt
<1>. HIDE DEF m
<1>6. /\ Placed("saveRead", op[t], m, old[t], base[t])
      /\ Derived("saveRead", op[t], m, base[t])
  BY <1>2, <1>3, <1>4 DEF Placed, Places, Derived
<1>7. ASSUME raced = FALSE, stale = FALSE
      PROVE  Knows("saveRead", op[t], old[t], base[t], record, overtaken, expired)
  BY <1>1, <1>3, <1>7, TaskKnows DEF Knows
<1>8. old' = [old EXCEPT ![t] = old[t]] /\ base' = [base EXCEPT ![t] = base[t]]
  BY <1>1, <1>2
<1>. QED BY <1>1, <1>2, <1>4, <1>5, <1>6, <1>7, <1>8, OvertakenStays, ReadStep

LEMMA FInvBuildFails ==
  ASSUME FInv, NEW t \in Tasks, BuildFails(t)
  PROVE  FInv'
<1>1. /\ pc[t] = "building" /\ "stateRead" \in Calls /\ "stop" \in Ops
      /\ Goto(t, "stateRead") /\ op' = [op EXCEPT ![t] = "stop"]
      /\ UNCHANGED <<redis, mine, old, base, raced, stale, overtaken, expired, started>>
  BY DEF BuildFails, Calls, Ops, past
<1>2. Lands(t, "stateRead", "stop", mine[t], old[t], base[t])
  BY <1>1, TaskFacts DEF Lands, Goto
<1>3. /\ Placed("stateRead", "stop", mine[t], old[t], base[t])
      /\ Derived("stateRead", "stop", mine[t], base[t])
      /\ Knows("stateRead", "stop", old[t], base[t], record, overtaken, expired)
  BY DEF Placed, Places, Derived, Knows
<1>4. /\ mine[t] \in Docs /\ old[t] \in Docs /\ base[t] \in Docs
      /\ started' \in 0..MaxOps
  BY <1>1, TaskFacts DEF FInv, TypeOK
<1>5. "stateRead" = "idle" <=> "stop" = "none"
  OBVIOUS
<1>. QED BY <1>1, <1>2, <1>3, <1>4, <1>5, OvertakenStays, QuietStep

\* A read that keeps what the task is going to save.
LEMMA PlainRead ==
  ASSUME FInv, NEW t \in Tasks, NEW p \in Calls, p # "idle", pc[t] # "idle",
         NEW r \in Docs, Goto(t, p), old' = [old EXCEPT ![t] = r],
         UNCHANGED <<redis, past, started, op, mine, base>>,
         Placed(p, op[t], mine[t], r, base[t]), Derived(p, op[t], mine[t], base[t]),
         raced = FALSE /\ stale = FALSE => Knows(p, op[t], r, base[t], record, overtaken, expired)
  PROVE  FInv'
<1>1. /\ mine' = [mine EXCEPT ![t] = mine[t]] /\ base' = [base EXCEPT ![t] = base[t]]
      /\ mine[t] \in Docs /\ base[t] \in Docs
  BY TaskFacts
<1>2. UNCHANGED <<redis, raced, stale, overtaken, expired, started>>
  BY DEF past
<1>. QED BY <1>1, <1>2, OvertakenStays, ReadStep

LEMMA FInvStepCheck ==
  ASSUME FInv, NEW t \in Tasks, StepCheck(t)
  PROVE  FInv'
<1>1. CASE Done(t)
  BY <1>1, DoneStep DEF StepCheck
<1>2. CASE record # NoRun /\ Goto(t, "stepWrite") /\ UNCHANGED <<op, mine, old, base>>
  <2>1. /\ pc[t] = "stepCheck" /\ "stepWrite" \in Calls /\ old[t] \in Docs
        /\ old' = [old EXCEPT ![t] = old[t]] /\ op[t] \in Ops
        /\ Placed("stepCheck", op[t], mine[t], old[t], base[t])
        /\ Derived("stepCheck", op[t], mine[t], base[t])
    BY <1>2, TaskFacts DEF StepCheck, Calls
  <2>2. op[t] = "change"
    BY <2>1 DEF Placed, Places, Ops
  <2>3. /\ Placed("stepWrite", op[t], mine[t], old[t], base[t])
        /\ Derived("stepWrite", op[t], mine[t], base[t])
        /\ Knows("stepWrite", op[t], old[t], base[t], record, overtaken, expired)
    BY <2>1, <2>2 DEF Placed, Places, Derived, Knows
  <2>4. UNCHANGED <<redis, past, started, op, mine, base>>
    BY <1>2 DEF StepCheck
  <2>. QED BY <1>2, <2>1, <2>3, <2>4, PlainRead
<1>. QED BY <1>1, <1>2 DEF StepCheck

\* A save is accepted over the version it was made from, or its own.
LEMMA FInvSaveRead ==
  ASSUME FInv, NEW t \in Tasks, SaveRead(t)
  PROVE  FInv'
<1>1. CASE Done(t)
  BY <1>1, DoneStep DEF SaveRead
<1>2. CASE /\ Accepted(t)
           /\ Goto(t, "saveWrite")
           /\ old' = [old EXCEPT ![t] = record]
           /\ UNCHANGED <<op, mine, base>>
  <2>1. /\ pc[t] = "saveRead" /\ "saveWrite" \in Calls /\ record \in Docs /\ op[t] \in Ops
        /\ Placed("saveRead", op[t], mine[t], old[t], base[t])
        /\ Derived("saveRead", op[t], mine[t], base[t])
    BY TaskFacts DEF SaveRead, Calls
  <2>2. record = NoRun \/ record.version \in {mine[t].version, mine[t].version + 1}
    BY <1>2 DEF Accepted, Stored
  <2>3. op[t] \in {"build", "change", "resume"}
    BY <2>1 DEF Placed, Places, Ops
  <2>4. Placed("saveWrite", op[t], mine[t], record, base[t])
    BY <2>1, <2>2, <2>3 DEF Placed, Places
  <2>5. Derived("saveWrite", op[t], mine[t], base[t])
    BY <2>1, <2>3 DEF Derived
  <2>6. ASSUME raced = FALSE, stale = FALSE
        PROVE  Knows("saveWrite", op[t], record, base[t], record, overtaken, expired)
    BY <2>1, <2>3, <2>6, TaskKnows DEF Knows
  <2>7. UNCHANGED <<redis, past, started, op, mine, base>>
    BY <1>2 DEF SaveRead
  <2>. QED BY <1>2, <2>1, <2>4, <2>5, <2>6, <2>7, PlainRead
<1>. QED BY <1>1, <1>2 DEF SaveRead

\* The checkpoint is made of the run as it is read now, which has its dataset.
LEMMA FInvCheckpointRead ==
  ASSUME FInv, NEW t \in Tasks, CheckpointRead(t)
  PROVE  FInv'
<1>1. CASE Done(t)
  BY <1>1, DoneStep DEF CheckpointRead
<1>2. CASE /\ Found
           /\ Goto(t, "checkpointWrite")
           /\ old' = [old EXCEPT ![t] = record]
           /\ UNCHANGED <<op, mine, base>>
  <2>1. /\ pc[t] = "checkpointRead" /\ "checkpointWrite" \in Calls /\ record \in Docs
        /\ Placed("checkpointRead", op[t], mine[t], old[t], base[t])
        /\ Derived("checkpointRead", op[t], mine[t], base[t]) /\ op[t] \in Ops
    BY TaskFacts DEF CheckpointRead, Calls
  <2>2. record \in Runs /\ record # NoRun
    BY <1>2, FoundRun
  <2>3. op[t] = "build"
    BY <2>1 DEF Placed, Places, Ops
  <2>4. /\ Placed("checkpointWrite", op[t], mine[t], record, base[t])
        /\ Derived("checkpointWrite", op[t], mine[t], base[t])
    BY <2>1, <2>2, <2>3 DEF Placed, Places, Derived
  <2>5. ASSUME raced = FALSE, stale = FALSE
        PROVE  Knows("checkpointWrite", op[t], record, base[t], record, overtaken, expired)
    BY <2>1, <2>2, <2>3, <2>5, TaskKnows DEF Knows
  <2>6. UNCHANGED <<redis, past, started, op, mine, base>>
    BY <1>2 DEF CheckpointRead
  <2>. QED BY <1>2, <2>1, <2>4, <2>5, <2>6, PlainRead
<1>. QED BY <1>1, <1>2 DEF CheckpointRead

LEMMA FInvDeleteRead ==
  ASSUME FInv, NEW t \in Tasks, DeleteRead(t)
  PROVE  FInv'
<1>1. CASE Done(t)
  BY <1>1, DoneStep DEF DeleteRead
<1>2. CASE /\ record # NoRun
           /\ Goto(t, "deleteWrite")
           /\ old' = [old EXCEPT ![t] = record]
           /\ UNCHANGED <<op, mine, base>>
  <2>1. /\ pc[t] = "deleteRead" /\ "deleteWrite" \in Calls /\ record \in Docs
        /\ Placed("deleteRead", op[t], mine[t], old[t], base[t]) /\ op[t] \in Ops
    BY TaskFacts DEF DeleteRead, Calls
  <2>2. op[t] = "delete" /\ record \in Runs
    BY <1>2, <2>1 DEF Placed, Places, Ops, Docs
  <2>3. /\ Placed("deleteWrite", op[t], mine[t], record, base[t])
        /\ Derived("deleteWrite", op[t], mine[t], base[t])
    BY <2>2 DEF Placed, Places, Derived
  <2>4. ASSUME raced = FALSE, stale = FALSE
        PROVE  Knows("deleteWrite", op[t], record, base[t], record, overtaken, expired)
    BY <2>1, <2>2, <2>4, TaskKnows DEF Knows
  <2>5. UNCHANGED <<redis, past, started, op, mine, base>>
    BY <1>2 DEF DeleteRead
  <2>. QED BY <1>2, <2>1, <2>3, <2>4, <2>5, PlainRead
<1>. QED BY <1>1, <1>2 DEF DeleteRead

LEMMA FInvAbort ==
  ASSUME FInv, NEW t \in Tasks, Abort(t)
  PROVE  FInv'
BY DoneStep DEF Abort

-----------------------------------------------------------------------------
(* The steps that write.                                                   *)

\* The value of a boolean variable after a write that may disturb others.
LEMMA Disturbs ==
  ASSUME NEW flag \in BOOLEAN, NEW next, NEW cond, next = (flag \/ cond)
  PROVE  /\ next \in BOOLEAN
         /\ flag = TRUE => next = TRUE
         /\ next = FALSE => flag = FALSE /\ ~cond
BY Zenon

LEMMA StateWriteFacts ==
  ASSUME FInv, NEW t \in Tasks, StateWrite(t)
  PROVE  /\ old[t] \in Runs /\ op[t] \in Ops
         /\ Target(t) = TargetOf(op[t]) /\ Target(t) \in Valid(old[t].state)
         /\ Target(t) \in {"RUNNING", "COMPLETED", "FAILED"}
         /\ record' \in Runs /\ record'.state = Target(t)
         /\ record'.version = (IF old[t].version = 0 THEN 1 ELSE old[t].version) + 1
         /\ record \in Runs \cup {NoRun}
         /\ record' # NoRun
         /\ Stored \in Runs
         /\ record'.named = Stored.named /\ record'.dataset = Stored.dataset
         /\ record'.paused = Stored.paused /\ record'.step = Stored.step
<1>1. /\ pc[t] = "stateWrite" /\ op[t] \in Ops
      /\ Placed("stateWrite", op[t], mine[t], old[t], base[t])
  BY TaskFacts DEF StateWrite
<1>2. /\ old[t] \in Runs /\ Target(t) = TargetOf(op[t])
      /\ Target(t) \in Valid(old[t].state)
  BY <1>1 DEF Placed, Target, TargetOf
<1>3. Target(t) \in {"RUNNING", "COMPLETED", "FAILED"}
  BY DEF Target
<1>4. Stored \in Runs /\ record \in Runs \cup {NoRun}
  BY RunAssumption DEF FInv, TypeOK, Stored, Fragment, Runs, States
<1>. DEFINE next == (IF old[t].version = 0 THEN 1 ELSE old[t].version) + 1
            target == Target(t)
<1>5. next \in Nat
  BY <1>2 DEF Runs
<1>6. record' = [Stored EXCEPT !.state = target, !.version = next]
  BY Zenon DEF StateWrite
<1>7. target \in States
  BY <1>3 DEF States
<1>. HIDE DEF next, target
<1>8. /\ record' \in Runs /\ record'.state = target /\ record'.version = next
      /\ record'.named = Stored.named /\ record'.dataset = Stored.dataset
      /\ record'.paused = Stored.paused /\ record'.step = Stored.step
  BY <1>4, <1>5, <1>6, <1>7 DEF Runs
<1>. QED BY <1>1, <1>2, <1>3, <1>4, <1>8, RunAssumption DEF next, target

LEMMA FInvStateWrite ==
  ASSUME FInv, NEW t \in Tasks, StateWrite(t)
  PROVE  FInv'
<1>1. /\ raced' \in BOOLEAN /\ (raced = TRUE => raced' = TRUE)
      /\ (raced' = FALSE => raced = FALSE /\ record = old[t])
  BY Disturbs DEF StateWrite, FInv, TypeOK
<1>2. /\ UNCHANGED <<checkpoint, stale, overtaken, expired, started>>
      /\ indexes' = Reindexed(t, Target(t))
  BY DEF StateWrite
<1>3. RestOK'
  <2>1. timed' \in BOOLEAN
    BY Zenon DEF StateWrite
  <2>2. indexes' \subseteq States
    BY <1>2, StateWriteFacts DEF Reindexed, FInv, TypeOK, States
  <2>3. record' \in Docs
    BY StateWriteFacts DEF Docs
  <2>. QED BY <1>1, <1>2, <2>1, <2>2, <2>3, Zenon DEF RestOK, FInv, TypeOK
<1>4. Remembers
  BY <1>1, <1>2, Zenon DEF Remembers
<1>5. FoundByState'
  BY <1>2, StateWriteFacts DEF FoundByState, Found, Reindexed
<1>6. Listed'
  <2>. SUFFICES ASSUME raced' = FALSE, expired' = FALSE
                PROVE  indexes' = {record'.state}
    BY StateWriteFacts DEF Listed
  <2>1. record = old[t] /\ old[t] \in Runs /\ old[t] # NoRun /\ raced = FALSE /\ expired = FALSE
    BY <1>1, <1>2, StateWriteFacts, RunAssumption, Zenon
  <2>2. indexes = {old[t].state}
    BY <2>1 DEF FInv, Listed
  <2>. QED BY <1>2, <2>1, <2>2, StateWriteFacts DEF Reindexed
<1>7. ASSUME raced' = FALSE, stale' = FALSE
      PROVE  /\ Tame
             /\ record' = NoRun \/ record'.named = TRUE
             /\ checkpoint' # "missing"
  <2>1. raced = FALSE /\ stale = FALSE /\ record = old[t] /\ record \in Runs
        /\ record # NoRun /\ Stored = record
    BY <1>1, <1>2, <1>7, StateWriteFacts, RunAssumption DEF Stored
  <2>2. record.named = TRUE /\ checkpoint # "missing"
    BY <2>1 DEF FInv, Undisturbed
  <2>3. record.state \notin Terminal
    BY <2>1, StateWriteFacts DEF Valid, Terminal
  <2>4. Tame
    BY <2>1, <2>3, StateWriteFacts DEF Tame
  <2>. QED BY <1>2, <2>1, <2>2, <2>4, StateWriteFacts
<1>8. CASE op[t] \in {"build", "resume"} /\ Goto(t, "reget") /\ UNCHANGED <<op, mine, old, base>>
  <2>1. /\ mine[t] \in Docs /\ old[t] \in Docs /\ base[t] \in Docs /\ op[t] \in Ops
        /\ Placed("stateWrite", op[t], mine[t], old[t], base[t])
        /\ Derived("stateWrite", op[t], mine[t], base[t])
        /\ "reget" \in Calls /\ op[t] # "none"
    BY <1>8, TaskFacts DEF StateWrite, Calls
  <2>2. Lands(t, "reget", op[t], mine[t], old[t], base[t])
    BY <1>8, TaskFacts DEF Lands, Goto
  <2>3. /\ Placed("reget", op[t], mine[t], old[t], base[t])
        /\ Derived("reget", op[t], mine[t], base[t])
    BY <1>8, <2>1 DEF Placed, Places, Derived
  <2>4. Knows("reget", op[t], old[t], base[t], record', overtaken', expired')
    BY <1>8, StateWriteFacts DEF Knows
  <2>. QED BY <1>3, <1>4, <1>5, <1>6, <1>7, <2>1, <2>2, <2>3, <2>4, TaskStep
<1>9. CASE Done(t)
  <2>1. Lands(t, "idle", "none", NoRun, NoRun, NoRun)
    BY <1>9 DEF Done, Goto, Lands
  <2>2. Knows("idle", "none", NoRun, NoRun, record', overtaken', expired')
    BY Idle
  <2>. QED BY <1>3, <1>4, <1>5, <1>6, <1>7, <2>1, <2>2, Idle, TaskStep
<1>. QED BY <1>8, <1>9 DEF StateWrite

LEMMA StepWriteFacts ==
  ASSUME FInv, NEW t \in Tasks, StepWrite(t)
  PROVE  /\ op[t] = "change" /\ mine[t] \in Runs /\ base[t] \in Runs
         /\ record' \in Runs /\ record' # NoRun
         /\ record'.step = mine[t].step
         /\ Stored \in Runs
         /\ record'.named = Stored.named /\ record'.state = Stored.state
         /\ record'.paused = Stored.paused /\ record'.dataset = Stored.dataset
         /\ record'.version = Stored.version
<1>1. /\ pc[t] = "stepWrite" /\ op[t] \in Ops
      /\ Placed("stepWrite", op[t], mine[t], old[t], base[t])
  BY TaskFacts DEF StepWrite
<1>2. op[t] = "change" /\ mine[t] \in Runs /\ base[t] \in Runs
  BY <1>1 DEF Placed, Places, Ops
<1>3. Stored \in Runs
  BY RunAssumption DEF FInv, TypeOK, Stored, Fragment, Runs, States
<1>4. record' = [Stored EXCEPT !.step = mine[t].step] /\ mine[t].step \in Steps
  BY <1>2 DEF StepWrite, Runs
<1>5. /\ record' \in Runs
      /\ record'.step = mine[t].step
      /\ record'.named = Stored.named /\ record'.state = Stored.state
      /\ record'.paused = Stored.paused /\ record'.dataset = Stored.dataset
      /\ record'.version = Stored.version
  BY <1>3, <1>4 DEF Runs
<1>. QED BY <1>2, <1>3, <1>5, RunAssumption

LEMMA FInvStepWrite ==
  ASSUME FInv, NEW t \in Tasks, StepWrite(t)
  PROVE  FInv'
<1>. DEFINE b == [base[t] EXCEPT !.step = mine[t].step]
<1>1. /\ raced' \in BOOLEAN /\ (raced = TRUE => raced' = TRUE)
      /\ (raced' = FALSE => raced = FALSE /\ record # NoRun)
  BY Disturbs DEF StepWrite, FInv, TypeOK
<1>2. UNCHANGED <<indexes, checkpoint, op, mine, old, stale, overtaken, expired, started>>
  BY DEF StepWrite
<1>3. RestOK'
  <2>1. timed' \in BOOLEAN
    BY Zenon DEF StepWrite
  <2>2. record' \in Docs
    BY StepWriteFacts DEF Docs
  <2>. QED BY <1>1, <1>2, <2>1, <2>2, Zenon DEF RestOK, FInv, TypeOK
<1>4. Remembers
  BY <1>1, <1>2, Zenon DEF Remembers
<1>5. FoundByState'
  <2>. SUFFICES ASSUME record'.named = TRUE
                PROVE  record'.state \in indexes
    BY <1>2, StepWriteFacts DEF FoundByState, Found, Runs
  <2>1. record # NoRun /\ Stored = record
    BY StepWriteFacts DEF Stored, Fragment
  <2>. QED BY <2>1, StepWriteFacts DEF FInv, FoundByState, Found
<1>6. Listed'
  <2>. SUFFICES ASSUME raced' = FALSE, expired' = FALSE
                PROVE  indexes' = {record'.state}
    BY StepWriteFacts DEF Listed
  <2>1. record # NoRun /\ Stored = record /\ raced = FALSE /\ expired = FALSE
    BY <1>1, <1>2 DEF Stored
  <2>. QED BY <1>2, <2>1, StepWriteFacts DEF FInv, Listed
<1>7. ASSUME raced' = FALSE, stale' = FALSE
      PROVE  /\ Tame
             /\ record' = NoRun \/ record'.named = TRUE
             /\ checkpoint' # "missing"
  <2>1. raced = FALSE /\ stale = FALSE /\ record # NoRun /\ Stored = record
    BY <1>1, <1>2, <1>7 DEF Stored
  <2>2. record.named = TRUE /\ checkpoint # "missing"
    BY <2>1 DEF FInv, Undisturbed
  <2>3. Tame
    BY <2>1, StepWriteFacts DEF Tame
  <2>. QED BY <1>2, <2>1, <2>2, <2>3, StepWriteFacts
<1>8. /\ mine[t] \in Docs /\ old[t] \in Docs /\ "saveRead" \in Calls /\ "change" \in Ops
      /\ op[t] = "change" /\ mine[t] \in Runs /\ base[t] \in Runs
      /\ Placed("stepWrite", op[t], mine[t], old[t], base[t])
      /\ Derived("stepWrite", op[t], mine[t], base[t])
  BY TaskFacts, StepWriteFacts DEF StepWrite, Calls, Ops
<1>9. /\ b \in Runs /\ b \in Docs /\ b.named = base[t].named /\ b.state = base[t].state
      /\ b.dataset = base[t].dataset /\ b.paused = base[t].paused
      /\ b.step = mine[t].step
  BY <1>8 DEF Runs, Docs
<1>10. Lands(t, "saveRead", "change", mine[t], old[t], b)
  BY <1>2, <1>8, TaskFacts DEF StepWrite, Lands, Goto
<1>. HIDE DEF b
<1>11. /\ Placed("saveRead", "change", mine[t], old[t], b)
       /\ Derived("saveRead", "change", mine[t], b)
       /\ Knows("saveRead", "change", old[t], b, record', overtaken', expired')
  BY <1>8, <1>9 DEF Placed, Places, Derived, Knows
<1>12. "saveRead" = "idle" <=> "change" = "none"
  OBVIOUS
<1>. QED BY <1>3, <1>4, <1>5, <1>6, <1>7, <1>8, <1>9, <1>10, <1>11, <1>12, TaskStep

LEMMA SaveWriteFacts ==
  ASSUME FInv, NEW t \in Tasks, SaveWrite(t)
  PROVE  /\ op[t] \in {"build", "change", "resume"}
         /\ mine[t] \in Runs /\ base[t] \in Runs /\ base[t].named = TRUE
         /\ old[t] = NoRun \/ old[t].version \in {mine[t].version, mine[t].version + 1}
         /\ Derived("saveWrite", op[t], mine[t], base[t])
         /\ record' \in Runs /\ record' # NoRun
         /\ record'.named = TRUE /\ record'.state = mine[t].state
         /\ record'.paused = mine[t].paused /\ record'.dataset = mine[t].dataset
         /\ record'.step = mine[t].step /\ record'.version = mine[t].version + 1
<1>1. /\ pc[t] = "saveWrite" /\ op[t] \in Ops
      /\ Placed("saveWrite", op[t], mine[t], old[t], base[t])
      /\ Derived("saveWrite", op[t], mine[t], base[t])
  BY TaskFacts DEF SaveWrite
<1>2. op[t] \in {"build", "change", "resume"}
  BY <1>1 DEF Placed, Places, Ops
<1>3. /\ mine[t] \in Runs /\ mine[t].named = TRUE
      /\ base[t] \in Runs /\ base[t].named = TRUE
      /\ old[t] = NoRun \/ old[t].version \in {mine[t].version, mine[t].version + 1}
  BY <1>1, <1>2 DEF Placed
<1>4. record' = [mine[t] EXCEPT !.version = mine[t].version + 1]
  BY DEF SaveWrite
<1>5. /\ record' \in Runs
      /\ record'.named = TRUE /\ record'.state = mine[t].state
      /\ record'.paused = mine[t].paused /\ record'.dataset = mine[t].dataset
      /\ record'.step = mine[t].step /\ record'.version = mine[t].version + 1
  BY <1>3, <1>4 DEF Runs
<1>. QED BY <1>1, <1>2, <1>3, <1>5, RunAssumption

LEMMA FInvSaveWrite ==
  ASSUME FInv, NEW t \in Tasks, SaveWrite(t)
  PROVE  FInv'
<1>1. /\ raced' \in BOOLEAN /\ (raced = TRUE => raced' = TRUE)
      /\ (raced' = FALSE => raced = FALSE /\ record = old[t])
  BY Disturbs DEF SaveWrite, FInv, TypeOK
<1>2. /\ stale' \in BOOLEAN /\ (stale = TRUE => stale' = TRUE)
      /\ (stale' = FALSE => stale = FALSE /\ record = base[t])
  BY Disturbs DEF SaveWrite, FInv, TypeOK
<1>3. /\ UNCHANGED <<checkpoint, overtaken, expired, started>>
      /\ timed' = TRUE /\ indexes' = Reindexed(t, mine[t].state)
  BY DEF SaveWrite
<1>4. RestOK'
  <2>1. indexes' \subseteq States
    BY <1>3, SaveWriteFacts DEF Reindexed, FInv, TypeOK, Runs
  <2>2. record' \in Docs
    BY SaveWriteFacts DEF Docs
  <2>. QED BY <1>1, <1>2, <1>3, <2>1, <2>2, Zenon DEF RestOK, FInv, TypeOK
<1>5. Remembers
  BY <1>1, <1>2, <1>3, Zenon DEF Remembers
<1>6. FoundByState'
  BY <1>3, SaveWriteFacts DEF FoundByState, Found, Reindexed
<1>7. Listed'
  <2>. SUFFICES ASSUME raced' = FALSE, expired' = FALSE
                PROVE  indexes' = {record'.state}
    BY SaveWriteFacts DEF Listed
  <2>1. record = old[t] /\ raced = FALSE /\ expired = FALSE
    BY <1>1, <1>3
  <2>2. indexes = IF old[t] = NoRun THEN {} ELSE {old[t].state}
    BY <2>1 DEF FInv, Listed
  <2>. QED BY <1>3, <2>2, SaveWriteFacts DEF Reindexed
<1>8. ASSUME raced' = FALSE, stale' = FALSE
      PROVE  /\ Tame
             /\ record' = NoRun \/ record'.named = TRUE
             /\ checkpoint' # "missing"
  <2>1. raced = FALSE /\ stale = FALSE /\ record = base[t]
    BY <1>1, <1>2, <1>8
  <2>2. checkpoint # "missing"
    BY <2>1 DEF FInv, Undisturbed
  <2>3. mine[t].state = base[t].state /\ (base[t].dataset = TRUE => mine[t].dataset = TRUE)
    BY SaveWriteFacts DEF Derived
  <2>4. Tame
    BY <2>1, <2>3, SaveWriteFacts DEF Tame
  <2>. QED BY <1>3, <2>2, <2>4, SaveWriteFacts
<1>9. CASE op[t] = "build" /\ Goto(t, "checkpointRead") /\ UNCHANGED <<op, mine, old, base>>
  <2>1. /\ mine[t] \in Docs /\ old[t] \in Docs /\ base[t] \in Docs /\ op[t] \in Ops
        /\ Placed("saveWrite", op[t], mine[t], old[t], base[t])
        /\ Derived("saveWrite", op[t], mine[t], base[t])
        /\ "checkpointRead" \in Calls /\ op[t] # "none"
    BY <1>9, TaskFacts DEF SaveWrite, Calls
  <2>2. Lands(t, "checkpointRead", op[t], mine[t], old[t], base[t])
    BY <1>9, TaskFacts DEF Lands, Goto
  <2>3. /\ Placed("checkpointRead", op[t], mine[t], old[t], base[t])
        /\ Derived("checkpointRead", op[t], mine[t], base[t])
    BY <1>9, <2>1 DEF Placed, Places, Derived
  <2>4. Knows("checkpointRead", op[t], old[t], base[t], record', overtaken', expired')
    BY <1>9, <2>1, SaveWriteFacts DEF Knows, Derived
  <2>. QED BY <1>4, <1>5, <1>6, <1>7, <1>8, <2>1, <2>2, <2>3, <2>4, TaskStep
<1>10. CASE Done(t)
  <2>1. Lands(t, "idle", "none", NoRun, NoRun, NoRun)
    BY <1>10 DEF Done, Goto, Lands
  <2>2. Knows("idle", "none", NoRun, NoRun, record', overtaken', expired')
    BY Idle
  <2>. QED BY <1>4, <1>5, <1>6, <1>7, <1>8, <2>1, <2>2, Idle, TaskStep
<1>. QED BY <1>9, <1>10 DEF SaveWrite

LEMMA FInvCheckpointWrite ==
  ASSUME FInv, NEW t \in Tasks, CheckpointWrite(t)
  PROVE  FInv'
<1>1. /\ UNCHANGED <<record, timed, indexes, raced, stale, overtaken, expired, started>>
      /\ checkpoint' = IF old[t].dataset THEN "built" ELSE "missing"
  BY DEF CheckpointWrite, past
<1>2. RestOK' /\ Remembers
  <2>1. checkpoint' \in {"none", "missing", "built"}
    BY <1>1
  <2>. QED BY <1>1, <2>1, Zenon DEF RestOK, Remembers, FInv, TypeOK, Docs
<1>3. FoundByState' /\ Listed'
  <2>1. FoundByState'
    BY <1>1 DEF FInv, FoundByState, Found
  <2>2. Listed'
    <3>1. raced' = FALSE /\ expired' = FALSE => raced = FALSE /\ expired = FALSE
      BY <1>1, Zenon
    <3>. QED BY <1>1, <3>1 DEF FInv, Listed
  <2>. QED BY <2>1, <2>2
<1>4. ASSUME raced' = FALSE, stale' = FALSE
      PROVE  /\ Tame
             /\ record' = NoRun \/ record'.named = TRUE
             /\ checkpoint' # "missing"
  <2>1. raced = FALSE /\ stale = FALSE
    BY <1>1, <1>4, Zenon
  <2>2. old[t].dataset = TRUE
    BY <2>1, TaskKnows DEF CheckpointWrite, Knows
  <2>3. record' = NoRun \/ record'.named = TRUE
    BY <1>1, <2>1, Zenon DEF FInv, Undisturbed
  <2>. QED BY <1>1, <2>2, <2>3 DEF Tame
<1>5. Lands(t, "idle", "none", NoRun, NoRun, NoRun)
  BY DEF CheckpointWrite, Done, Goto, Lands
<1>6. Knows("idle", "none", NoRun, NoRun, record', overtaken', expired')
  BY Idle
<1>. QED BY <1>2, <1>3, <1>4, <1>5, <1>6, Idle, TaskStep

LEMMA FInvDeleteWrite ==
  ASSUME FInv, NEW t \in Tasks, DeleteWrite(t)
  PROVE  FInv'
<1>1. /\ raced' \in BOOLEAN /\ (raced = TRUE => raced' = TRUE)
      /\ (raced' = FALSE => raced = FALSE /\ record = old[t])
  BY Disturbs DEF DeleteWrite, FInv, TypeOK
<1>2. /\ UNCHANGED <<stale, overtaken, expired, started>>
      /\ record' = NoRun /\ checkpoint' = "none" /\ timed' = FALSE
      /\ indexes' = indexes \ {old[t].state}
  BY DEF DeleteWrite
<1>3. RestOK' /\ Remembers
  <2>1. indexes' \subseteq States
    BY <1>2 DEF FInv, TypeOK
  <2>2. record' \in Docs
    BY <1>2 DEF Docs
  <2>3. checkpoint' \in {"none", "missing", "built"} /\ timed' \in BOOLEAN
    BY <1>2
  <2>. QED BY <1>1, <1>2, <2>1, <2>2, <2>3, Zenon DEF RestOK, Remembers, FInv, TypeOK
<1>4. FoundByState'
  BY <1>2 DEF FoundByState, Found
<1>5. Listed'
  <2>. SUFFICES ASSUME raced' = FALSE, expired' = FALSE
                PROVE  indexes' = {}
    BY <1>2 DEF Listed
  <2>1. record = old[t] /\ raced = FALSE /\ expired = FALSE
    BY <1>1, <1>2
  <2>2. indexes = IF old[t] = NoRun THEN {} ELSE {old[t].state}
    BY <2>1 DEF FInv, Listed
  <2>. QED BY <1>2, <2>2
<1>6. /\ Tame
      /\ record' = NoRun \/ record'.named = TRUE
      /\ checkpoint' # "missing"
  BY <1>2 DEF Tame
<1>7. Lands(t, "idle", "none", NoRun, NoRun, NoRun)
  BY DEF DeleteWrite, Done, Goto, Lands
<1>8. Knows("idle", "none", NoRun, NoRun, record', overtaken', expired')
  BY Idle
<1>. QED BY <1>3, <1>4, <1>5, <1>6, <1>7, <1>8, Idle, TaskStep

LEMMA FInvKeyExpires ==
  ASSUME FInv, KeyExpires
  PROVE  FInv'
<1>1. /\ record' = NoRun /\ timed' = FALSE /\ expired' = TRUE
      /\ UNCHANGED <<indexes, checkpoint, pc, op, mine, old, base,
                     raced, stale, overtaken, started>>
  BY DEF KeyExpires, locals
<1>2. TypeOK'
  BY <1>1, Zenon DEF FInv, TypeOK
<1>3. FoundByState' /\ Listed'
  BY <1>1 DEF FoundByState, Found, Listed
<1>4. TasksPlaced'
  BY <1>1 DEF FInv, TasksPlaced
<1>5. Undisturbed'
  <2>. SUFFICES ASSUME raced = FALSE, stale = FALSE
                PROVE  /\ checkpoint # "missing"
                       /\ \A t \in Tasks : Knows(pc[t], op[t], old[t], base[t],
                                                 record', overtaken', expired')
    BY <1>1, Zenon DEF Undisturbed
  <2>1. Tame /\ Remembers
    BY <1>1, Zenon DEF Tame, Remembers
  <2>2. /\ checkpoint # "missing"
        /\ \A t \in Tasks : Knows(pc[t], op[t], old[t], base[t], record, overtaken, expired)
    BY Zenon DEF FInv, Undisturbed
  <2>. QED BY <2>1, <2>2, KnowsKept
<1>. QED BY <1>2, <1>3, <1>4, <1>5, Zenon DEF FInv

-----------------------------------------------------------------------------
LEMMA InitFInv == Init => FInv
<1>. SUFFICES ASSUME Init PROVE FInv
  OBVIOUS
<1>1. record \in Runs /\ record # NoRun /\ record.state = "INITIALIZED" /\ record.named = TRUE
  <2>1. record = [named |-> TRUE, state |-> "INITIALIZED", paused |-> FALSE,
                  dataset |-> FALSE, step |-> 0, version |-> 1]
    BY DEF Init
  <2>2. 0 \in Steps /\ 1 \in Nat /\ "INITIALIZED" \in States
    BY RunAssumption DEF States
  <2>3. record \in Runs
    BY <2>1, <2>2 DEF Runs
  <2>. QED BY <2>1, <2>3, RunAssumption
<1>2. TypeOK
  <2>1. /\ pc \in [Tasks -> Calls] /\ op \in [Tasks -> Ops]
        /\ \A t \in Tasks : pc[t] = "idle" <=> op[t] = "none"
    BY DEF Init, Calls, Ops
  <2>2. /\ mine \in [Tasks -> Runs \cup {NoRun}] /\ old \in [Tasks -> Runs \cup {NoRun}]
        /\ base \in [Tasks -> Runs \cup {NoRun}]
    BY DEF Init
  <2>3. indexes \subseteq States /\ checkpoint \in {"none", "missing", "built"}
        /\ started \in 0..MaxOps
    BY RunAssumption DEF Init, States
  <2>4. timed = TRUE /\ raced = FALSE /\ stale = FALSE /\ overtaken = FALSE /\ expired = FALSE
    BY DEF Init
  <2>. QED BY <1>1, <2>1, <2>2, <2>3, <2>4, Zenon DEF TypeOK
<1>3. FoundByState /\ Listed
  BY <1>1 DEF Init, FoundByState, Found, Listed
<1>4. TasksPlaced
  BY Idle DEF Init, TasksPlaced
<1>5. Undisturbed
  <2>1. \A t \in Tasks : Knows(pc[t], op[t], old[t], base[t], record, overtaken, expired)
    BY Idle DEF Init
  <2>. QED BY <1>1, <2>1 DEF Init, Undisturbed
<1>. QED BY <1>2, <1>3, <1>4, <1>5 DEF FInv

LEMMA NextFInv == FInv /\ [Next]_vars => FInv'
<1>. SUFFICES ASSUME FInv, [Next]_vars PROVE FInv'
  OBVIOUS
<1>1. ASSUME NEW t \in Tasks, Operation(t) PROVE FInv'
  BY <1>1, FInvBuild, FInvChange, FInvEnding DEF Operation
<1>2. ASSUME NEW t \in Tasks, Call(t) PROVE FInv'
  BY <1>2, FInvStateRead, FInvStateWrite, FInvReget, FInvDatasetBuilt, FInvBuildFails,
     FInvStepCheck, FInvStepWrite, FInvSaveRead, FInvSaveWrite, FInvCheckpointRead,
     FInvCheckpointWrite, FInvDeleteRead, FInvDeleteWrite DEF Call
<1>3. CASE UNCHANGED vars
  <2>1. UNCHANGED <<record, timed, indexes, checkpoint, pc, op, mine, old, base,
                    raced, stale, overtaken, expired, started>>
    BY <1>3 DEF vars, redis, locals, past
  <2>2. FoundByState' /\ Listed'
    BY <2>1 DEF FInv, FoundByState, Found, Listed
  <2>. QED BY <2>1, <2>2, Zenon DEF FInv, TypeOK, TasksPlaced, Undisturbed
<1>. QED BY <1>1, <1>2, <1>3, FInvAbort, FInvKeyExpires DEF Next

\* The inductive invariant holds of every behaviour.
THEOREM Invariant == Spec => []FInv
BY InitFInv, NextFInv, PTL DEF Spec

\* Every variable keeps its type; only an idle task has no operation.
THEOREM TypeCorrect == Spec => []TypeOK
<1>1. FInv => TypeOK
  BY DEF FInv
<1>. QED BY <1>1, Invariant, PTL

\* Through every overlap of builds, operations and deletions, a stored run is
\* under the index of its state.
THEOREM RunsAreFound == Spec => []FoundByState
<1>1. FInv => FoundByState
  BY DEF FInv
<1>. QED BY <1>1, Invariant, PTL

\* Without a race or an expiry the run is under the index of its state only.
THEOREM IndexesAgree == Spec => []IndexAgrees
<1>1. FInv => IndexAgrees
  BY Zenon DEF FInv, TypeOK, Listed, IndexAgrees
<1>. QED BY <1>1, Invariant, PTL

\* What the checkpoint holds has its dataset, if nothing disturbed its build.
THEOREM CheckpointIsBuilt == Spec => []CheckpointHasDataset
<1>1. FInv => CheckpointHasDataset
  BY Zenon DEF FInv, TypeOK, Undisturbed, CheckpointHasDataset
<1>. QED BY <1>1, Invariant, PTL

-----------------------------------------------------------------------------
(* Steps: versions, and the life of an undisturbed run.                    *)

\* Who changes the stored run.
LEMMA Writers ==
  ASSUME [Next]_vars, record' # record
  PROVE  \/ \E t \in Tasks : StateWrite(t) \/ StepWrite(t) \/ SaveWrite(t) \/ DeleteWrite(t)
         \/ KeyExpires
<1>1. ASSUME NEW t \in Tasks, Operation(t) PROVE UNCHANGED record
  BY <1>1 DEF Operation, Build, Pause, Resume, Advance, Complete, Stop, CleanUp,
     BeginWith, Begin, redis
<1>2. ASSUME NEW t \in Tasks, StateRead(t) \/ Reget(t) \/ DatasetBuilt(t) \/ BuildFails(t)
      PROVE  UNCHANGED record
  BY <1>2, Zenon DEF StateRead, Reget, DatasetBuilt, BuildFails, redis
<1>3. ASSUME NEW t \in Tasks, \/ StepCheck(t) \/ SaveRead(t) \/ CheckpointRead(t)
                              \/ CheckpointWrite(t) \/ DeleteRead(t) \/ Abort(t)
      PROVE  UNCHANGED record
  BY <1>3, Zenon DEF StepCheck, SaveRead, CheckpointRead, CheckpointWrite, DeleteRead,
     Abort, redis
<1>. QED BY <1>1, <1>2, <1>3, Zenon DEF Next, Call, vars, redis

LEMMA Expiring ==
  ASSUME [Next]_vars
  PROVE  UNCHANGED expired \/ KeyExpires
<1>1. ASSUME NEW t \in Tasks, Operation(t) PROVE UNCHANGED expired
  BY <1>1 DEF Operation, Build, Pause, Resume, Advance, Complete, Stop, CleanUp,
     BeginWith, Begin, past
<1>2. ASSUME NEW t \in Tasks, \/ StateRead(t) \/ StateWrite(t) \/ Reget(t)
                              \/ DatasetBuilt(t) \/ BuildFails(t)
      PROVE  UNCHANGED expired
  BY <1>2, Zenon DEF StateRead, StateWrite, Reget, DatasetBuilt, BuildFails, past
<1>3. ASSUME NEW t \in Tasks, \/ StepCheck(t) \/ StepWrite(t) \/ SaveRead(t)
                              \/ SaveWrite(t) \/ CheckpointRead(t) \/ CheckpointWrite(t)
      PROVE  UNCHANGED expired
  BY <1>3, Zenon DEF StepCheck, StepWrite, SaveRead, SaveWrite, CheckpointRead,
     CheckpointWrite, past
<1>4. ASSUME NEW t \in Tasks, DeleteRead(t) \/ DeleteWrite(t) \/ Abort(t)
      PROVE  UNCHANGED expired
  BY <1>4, Zenon DEF DeleteRead, DeleteWrite, Abort, past
<1>. QED BY <1>1, <1>2, <1>3, <1>4, Zenon DEF Next, Call, vars, past

LEMMA Ascends ==
  ASSUME FInv, [Next]_vars
  PROVE  raced' \/ record = NoRun \/ record' = NoRun \/ record'.version >= record.version
<1>. SUFFICES ASSUME ~raced', record # NoRun, record' # NoRun, record' # record
              PROVE  record'.version >= record.version
  <2>1. record # NoRun => record.version \in Nat
    BY DEF FInv, TypeOK, Runs
  <2>. QED BY <2>1
<1>1. record \in Runs /\ Stored = record /\ record.version \in Nat
  BY DEF FInv, TypeOK, Runs, Stored
<1>2. ASSUME NEW t \in Tasks, StateWrite(t)
      PROVE  record'.version >= record.version
  <2>1. record = old[t]
    BY <1>2, Zenon DEF StateWrite
  <2>. QED BY <1>1, <1>2, <2>1, StateWriteFacts
<1>3. ASSUME NEW t \in Tasks, StepWrite(t)
      PROVE  record'.version >= record.version
  BY <1>1, <1>3, StepWriteFacts
<1>4. ASSUME NEW t \in Tasks, SaveWrite(t)
      PROVE  record'.version >= record.version
  <2>1. record = old[t]
    BY <1>4, Zenon DEF SaveWrite
  <2>2. mine[t].version \in Nat
    BY <1>4, SaveWriteFacts DEF Runs
  <2>3. record.version = mine[t].version \/ record.version = mine[t].version + 1
    BY <1>4, <2>1, SaveWriteFacts, Zenon
  <2>4. record'.version = mine[t].version + 1
    BY <1>4, SaveWriteFacts
  <2>. QED BY <2>2, <2>3, <2>4
<1>. QED BY <1>2, <1>3, <1>4, Writers DEF DeleteWrite, KeyExpires

\* Unless a call writes over what it had not read, the version of the stored
\* run never goes down, also when a stale save replaces it.
THEOREM VersionsGoUp == Spec => VersionsAscend
BY Ascends, Invariant, PTL DEF Spec, VersionsAscend

\* The life of a run is a function of record and expired.
LEMMA LifecycleStands ==
  ASSUME UNCHANGED <<record, expired>>
  PROVE  UNCHANGED Lifecycle!vars
BY DEF Lifecycle!vars, Stored

\* A build that nothing disturbed or overtook saves its dataset over a running
\* run that is not paused; any other save pauses, resumes or advances it.
LEMMA SaveWriteLives ==
  ASSUME FInv, NEW t \in Tasks, SaveWrite(t), ~raced', ~stale', ~overtaken'
  PROVE  Lifecycle!Next
<1>1. /\ record = base[t] /\ raced = FALSE /\ stale = FALSE /\ overtaken = FALSE
      /\ UNCHANGED expired /\ pc[t] = "saveWrite"
  BY Zenon DEF SaveWrite, FInv, TypeOK
<1>2. /\ record \in Runs /\ record # NoRun /\ Stored = record
      /\ Derived("saveWrite", op[t], mine[t], record)
      /\ record' \in Runs /\ record' # NoRun /\ Stored' = record'
      /\ record'.state = mine[t].state
      /\ record'.paused = mine[t].paused /\ record'.dataset = mine[t].dataset
      /\ record'.step = mine[t].step
      /\ op[t] \in {"build", "change", "resume"}
  BY <1>1, SaveWriteFacts, RunAssumption DEF Stored
<1>3. /\ record.state \in States /\ record'.step \in Steps
      /\ record.paused \in BOOLEAN /\ record'.paused \in BOOLEAN
      /\ record.state = record'.state
  BY <1>2 DEF Runs, Derived
<1>4. CASE op[t] = "build"
  <2>1. Knows("saveWrite", op[t], old[t], record, record, overtaken, expired)
    BY <1>1, TaskKnows
  <2>2. record.state = "RUNNING" /\ record.paused = FALSE
    BY <1>1, <1>2, <1>4, <2>1 DEF Knows
  <2>3. /\ record'.paused = record.paused /\ record'.dataset = TRUE
        /\ record'.step = IF record.step = 0 THEN 1 ELSE record.step
    BY <1>2, <1>4 DEF Derived
  <2>4. Lifecycle!BuildDataset
    BY <1>1, <1>2, <1>3, <2>2, <2>3 DEF Lifecycle!BuildDataset
  <2>. QED BY <2>4 DEF Lifecycle!Next
<1>5. CASE op[t] # "build"
  <2>1. record'.dataset = record.dataset
    BY <1>2, <1>5 DEF Derived
  <2>2. record'.paused = record.paused \/ record'.step = record.step
    BY <1>2, <1>5 DEF Derived
  <2>3. CASE record'.paused = record.paused
    <3>1. Lifecycle!Advance
      BY <1>1, <1>2, <1>3, <2>1, <2>3 DEF Lifecycle!Advance, States
    <3>. QED BY <3>1 DEF Lifecycle!Next
  <2>4. CASE record'.paused # record.paused /\ record'.step = record.step
    <3>1. record'.paused = ~record.paused
      BY <1>3, <2>4
    <3>2. Lifecycle!PauseOrResume
      BY <1>1, <1>2, <1>3, <2>1, <2>4, <3>1 DEF Lifecycle!PauseOrResume, States
    <3>. QED BY <3>2 DEF Lifecycle!Next
  <2>. QED BY <2>2, <2>3, <2>4
<1>. QED BY <1>4, <1>5

\* A change of state is a transition of the table.
LEMMA StateWriteLives ==
  ASSUME FInv, NEW t \in Tasks, StateWrite(t), ~raced'
  PROVE  Lifecycle!Next
<1>1. record = old[t] /\ UNCHANGED expired
  BY Zenon DEF StateWrite
<1>2. /\ record \in Runs /\ record # NoRun /\ Stored = record
      /\ record' \in Runs /\ record' # NoRun /\ Stored' = record'
      /\ record'.state \in Valid(record.state)
      /\ record'.dataset = record.dataset
      /\ record'.paused = record.paused /\ record'.step = record.step
  BY <1>1, StateWriteFacts, RunAssumption DEF Stored
<1>3. <<record.state, record'.state>> \in Lifecycle!Transitions
  BY <1>2 DEF Valid, Lifecycle!Transitions
<1>4. Lifecycle!Transition
  BY <1>1, <1>2, <1>3 DEF Lifecycle!Transition
<1>. QED BY <1>4 DEF Lifecycle!Next

\* update_current_step moves a run on to its stage.
LEMMA StepWriteLives ==
  ASSUME FInv, NEW t \in Tasks, StepWrite(t), ~raced'
  PROVE  Lifecycle!Next
<1>1. record # NoRun /\ UNCHANGED expired
  BY Zenon DEF StepWrite
<1>2. /\ Stored = record /\ record' \in Runs /\ record' # NoRun /\ Stored' = record'
      /\ record'.state = record.state /\ record'.dataset = record.dataset
      /\ record'.paused = record.paused /\ record'.step \in Steps
      /\ record.state # "gone"
  BY <1>1, StepWriteFacts DEF Stored, Runs, States
<1>3. Lifecycle!Advance
  BY <1>1, <1>2 DEF Lifecycle!Advance
<1>. QED BY <1>3 DEF Lifecycle!Next

\* What the cleanup deletes has ended, or had expired in between.
LEMMA DeleteWriteLives ==
  ASSUME FInv, NEW t \in Tasks, DeleteWrite(t), ~raced', ~stale'
  PROVE  Lifecycle!Next
<1>1. /\ record = old[t] /\ raced = FALSE /\ stale = FALSE /\ UNCHANGED expired
      /\ record' = NoRun /\ pc[t] = "deleteWrite" /\ expired \in BOOLEAN
  BY Zenon DEF DeleteWrite, FInv, TypeOK
<1>2. op[t] = "delete" /\ old[t] \in Runs /\ old[t] # NoRun
  BY <1>1, TaskFacts, RunAssumption DEF Placed, Places, Ops
<1>3. expired = TRUE \/ record.state \in Terminal
  BY <1>1, <1>2, TaskKnows DEF Knows
<1>4. Lifecycle!Forget
  BY <1>1, <1>2, <1>3 DEF Lifecycle!Forget, Lifecycle!Terminal, Terminal, Stored, Fragment
<1>. QED BY <1>4 DEF Lifecycle!Next

LEMMA ExpiryLives ==
  ASSUME KeyExpires
  PROVE  Lifecycle!Next
<1>1. Lifecycle!Forget
  BY DEF KeyExpires, Lifecycle!Forget, Stored, Fragment
<1>. QED BY <1>1 DEF Lifecycle!Next

LEMMA Lives ==
  ASSUME FInv, [Next]_vars
  PROVE  [raced' \/ stale' \/ overtaken' \/ Lifecycle!Next]_(Lifecycle!vars)
<1>. SUFFICES ASSUME ~raced', ~stale', ~overtaken', ~UNCHANGED Lifecycle!vars
              PROVE  Lifecycle!Next
  OBVIOUS
<1>1. CASE record' = record
  <2>1. UNCHANGED expired \/ KeyExpires
    BY Expiring
  <2>. QED BY <1>1, <2>1, LifecycleStands, ExpiryLives
<1>2. CASE record' # record
  BY <1>2, Writers, StateWriteLives, StepWriteLives, SaveWriteLives, DeleteWriteLives,
     ExpiryLives
<1>. QED BY <1>1, <1>2

\* While no save is stale, no call races another and no build is overtaken, a
\* stored run implements RunLifecycle, through aborted and repeated operations.
THEOREM ImplementsLifecycle == Spec => KeepsLifecycle
<1>1. Init => Lifecycle!Init
  <2>. SUFFICES ASSUME Init PROVE Lifecycle!Init
    OBVIOUS
  <2>1. [named |-> TRUE, state |-> "INITIALIZED", paused |-> FALSE,
         dataset |-> FALSE, step |-> 0, version |-> 1] \in Runs
    <3>1. 0 \in Steps /\ 1 \in Nat /\ "INITIALIZED" \in States
      BY RunAssumption DEF States
    <3>. QED BY <3>1 DEF Runs
  <2>2. record # NoRun
    BY <2>1, RunAssumption DEF Init
  <2>. QED BY <2>2 DEF Init, Lifecycle!Init, Stored
<1>. QED BY <1>1, Lives, Invariant, PTL DEF Spec, KeepsLifecycle

=============================================================================
