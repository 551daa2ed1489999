------------------------ MODULE ConstitutionalStorage ------------------------
(***************************************************************************)
(* ConstitutionalStorageService (constitutional/storage_infra): the        *)
(* versions of one tenant's constitution in PostgreSQL, a Redis cache of   *)
(* versions and of the active version's id, and a Redis lock with a TTL    *)
(* around activate_version.  Its callers, the activation and the rollback  *)
(* saga with their compensations, activate any version, old ones included. *)
(*                                                                         *)
(* Every call to Redis or PostgreSQL is a step.  A read of the cache may   *)
(* miss at any time, because the entry expired or the call failed.  Of a   *)
(* cached version the model keeps that it is cached: nobody here looks at  *)
(* the status in it.                                                       *)
(***************************************************************************)
EXTENDS Naturals, FiniteSets

CONSTANTS
    Versions,       \* version ids
    Initial,        \* the version that is active at first
    NoVersion,      \* None
    Clients,        \* tasks that call the service, in any process
    MaxExpiries,    \* bound: expiries of the lock under a holder
    MaxFaults       \* bound: calls that fail, tasks that die

ASSUME StorageAssumption ==
    /\ IsFiniteSet(Clients)
    /\ Initial \in Versions /\ NoVersion \notin Versions
    /\ MaxExpiries \in Nat /\ MaxFaults \in Nat

VARIABLES
    row,            \* PostgreSQL: the status of each version
    cached,         \* Redis: versions with an entry of their own
    activeId,       \* Redis: the cached id of the active version
    lock,           \* Redis: the lock key exists
    pc,             \* the call a client is about to make
    op,             \* the operation it is in
    target,         \* version_id
    current,        \* the active version it found
    inside,         \* clients between acquire_lock and release_lock
    expiries,       \* how often the lock expired under a holder
    lapse,          \* something has happened that the service does not repair
    faults

store  == <<row, cached, activeId>>
locals == <<pc, op, target, current>>
past   == <<inside, expiries, lapse, faults>>
vars   == <<store, lock, locals, past>>

Statuses == {"absent", "approved", "active", "superseded"}

Operations == {"none", "activate", "getActive", "getVersion"}

Calls == {"idle", "acquire", "versionCache", "versionRow", "versionFill",
          "idCache", "activeCache", "activeRow", "activeFill", "idFill",
          "deactivate", "activate", "versionSet", "idSet", "release"}

Active == {v \in Versions : row[v] = "active"}

TypeOK ==
    /\ row \in [Versions -> Statuses]
    /\ cached \subseteq Versions
    /\ activeId \in Versions \cup {NoVersion}
    /\ lock \in BOOLEAN
    /\ pc \in [Clients -> Calls]
    /\ op \in [Clients -> Operations]
    /\ target \in [Clients -> Versions \cup {NoVersion}]
    /\ current \in [Clients -> Versions \cup {NoVersion}]
    /\ \A c \in Clients : pc[c] = "idle" <=> op[c] = "none"
    /\ inside \subseteq Clients
    /\ expiries \in Nat /\ lapse \in BOOLEAN /\ faults \in Nat

Init ==
    /\ row = [v \in Versions |-> IF v = Initial THEN "active" ELSE "absent"]
    /\ cached = {} /\ activeId = NoVersion /\ lock = FALSE
    /\ pc = [c \in Clients |-> "idle"] /\ op = [c \in Clients |-> "none"]
    /\ target = [c \in Clients |-> NoVersion]
    /\ current = [c \in Clients |-> NoVersion]
    /\ inside = {} /\ expiries = 0 /\ lapse = FALSE /\ faults = 0

-----------------------------------------------------------------------------
Goto(c, next) == pc' = [pc EXCEPT ![c] = next]

\* Mutant of Return: c is still counted as in its operation.
ReturnKeepingOp(c) == Goto(c, "idle") /\ UNCHANGED <<op, target, current>>

\* The operation of c is over.
Return(c) ==
    /\ Goto(c, "idle")
    /\ op' = [op EXCEPT ![c] = "none"]
    /\ target' = [target EXCEPT ![c] = NoVersion]
    /\ current' = [current EXCEPT ![c] = NoVersion]

\* activate_version leaves its try block, the others return.
Leave(c) ==
    IF op[c] = "activate"
      THEN Goto(c, "release") /\ UNCHANGED <<op, target, current>>
      ELSE Return(c)

Call(c, operation, v, first) ==
    /\ pc[c] = "idle"
    /\ Goto(c, first)
    /\ op' = [op EXCEPT ![c] = operation]
    /\ target' = [target EXCEPT ![c] = v]
    /\ UNCHANGED <<store, lock, current, past>>

ActivateVersion(c) == \E v \in Versions : Call(c, "activate", v, "acquire")

GetVersion(c) == \E v \in Versions : Call(c, "getVersion", v, "versionCache")

GetActiveVersion(c) == Call(c, "getActive", NoVersion, "idCache")

\* save_version inserts a row.
SaveVersion(v) ==
    /\ row[v] = "absent"
    /\ row' = [row EXCEPT ![v] = "approved"]
    /\ UNCHANGED <<cached, activeId, lock, locals, past>>

-----------------------------------------------------------------------------
(* The lock.                                                               *)

\* Mutant of Acquire: set without nx.
AcquireAlways(c) ==
    /\ pc[c] = "acquire"
    /\ lock' = TRUE
    /\ inside' = inside \cup {c}
    /\ Goto(c, "versionCache") /\ UNCHANGED <<op, target, current>>
    /\ UNCHANGED <<store, expiries, lapse, faults>>

\* set(nx, ex): a lock that is taken makes activate_version return False.
Acquire(c) ==
    /\ pc[c] = "acquire"
    /\ \/ /\ ~lock
          /\ lock' = TRUE
          /\ inside' = inside \cup {c}
          /\ Goto(c, "versionCache") /\ UNCHANGED <<op, target, current>>
       \/ /\ lock
          /\ Return(c)
          /\ UNCHANGED <<lock, inside>>
    /\ UNCHANGED <<store, expiries, lapse, faults>>

\* The call fails, before or after the key was set: False, or an exception.
AcquireFails(c) ==
    /\ pc[c] = "acquire"
    /\ faults < MaxFaults /\ faults' = faults + 1
    /\ lock' \in {lock, TRUE}
    /\ Return(c)
    /\ UNCHANGED <<store, inside, expiries, lapse>>

\* delete, whoever's lock it is by now.
Release(c) ==
    /\ pc[c] = "release"
    /\ lock' = FALSE
    /\ inside' = inside \ {c}
    /\ Return(c)
    /\ UNCHANGED <<store, expiries, lapse, faults>>

\* Mutant of LockExpires: the key is set without ex.
LockLasts == FALSE /\ UNCHANGED vars

\* The key's TTL runs out; bounded only while someone relies on it.
LockExpires ==
    /\ lock
    /\ lock' = FALSE
    /\ IF inside = {}
         THEN UNCHANGED <<expiries, lapse>>
         ELSE /\ expiries < MaxExpiries /\ expiries' = expiries + 1
              /\ lapse' = TRUE
    /\ UNCHANGED <<store, locals, inside, faults>>

-----------------------------------------------------------------------------
(* get_version.                                                            *)

\* Where get_version returns to once it has the version.
GotVersion(c) ==
    IF op[c] = "activate"
      THEN Goto(c, "idCache") /\ UNCHANGED <<op, target, current>>
      ELSE Return(c)

VersionCache(c) ==
    /\ pc[c] = "versionCache"
    /\ \/ target[c] \in cached /\ GotVersion(c)
       \/ Goto(c, "versionRow") /\ UNCHANGED <<op, target, current>>
    /\ UNCHANGED <<store, lock, past>>

\* No such row: None, and activate_version returns False.
VersionRow(c) ==
    /\ pc[c] = "versionRow"
    /\ IF row[target[c]] = "absent"
         THEN Leave(c)
         ELSE Goto(c, "versionFill") /\ UNCHANGED <<op, target, current>>
    /\ UNCHANGED <<store, lock, past>>

VersionFill(c) ==
    /\ pc[c] = "versionFill"
    /\ cached' = cached \cup {target[c]}
    /\ GotVersion(c)
    /\ UNCHANGED <<row, activeId, lock, past>>

-----------------------------------------------------------------------------
(* get_active_version.                                                     *)

\* Where get_active_version returns v to.
GotActive(c, v) ==
    IF op[c] = "activate"
      THEN /\ Goto(c, IF v = NoVersion THEN "activate" ELSE "deactivate")
           /\ current' = [current EXCEPT ![c] = v]
           /\ UNCHANGED <<op, target>>
      ELSE Return(c)

IdCache(c) ==
    /\ pc[c] = "idCache"
    /\ \/ /\ activeId # NoVersion
          /\ Goto(c, "activeCache")
          /\ current' = [current EXCEPT ![c] = activeId]
       \/ Goto(c, "activeRow") /\ UNCHANGED current
    /\ UNCHANGED <<store, lock, op, target, past>>

ActiveCache(c) ==
    /\ pc[c] = "activeCache"
    /\ \/ current[c] \in cached /\ GotActive(c, current[c])
       \/ Goto(c, "activeRow") /\ UNCHANGED <<op, target, current>>
    /\ UNCHANGED <<store, lock, past>>

\* scalar_one_or_none: None without a row, and with several an exception that
\* nothing here catches.
ActiveRow(c) ==
    /\ pc[c] = "activeRow"
    /\ \/ Active = {} /\ GotActive(c, NoVersion)
       \/ Cardinality(Active) > 1 /\ Leave(c)
       \/ \E v \in Active :
            /\ Active = {v}
            /\ Goto(c, "activeFill")
            /\ current' = [current EXCEPT ![c] = v]
            /\ UNCHANGED <<op, target>>
    /\ UNCHANGED <<store, lock, past>>

ActiveFill(c) ==
    /\ pc[c] = "activeFill"
    /\ cached' = cached \cup {current[c]}
    /\ Goto(c, "idFill") /\ UNCHANGED <<op, target, current>>
    /\ UNCHANGED <<row, activeId, lock, past>>

\* A version that was superseded since it was read is cached as the active one.
IdFill(c) ==
    /\ pc[c] = "idFill"
    /\ activeId' = current[c]
    /\ lapse' = (lapse \/ current[c] \notin Active)
    /\ GotActive(c, current[c])
    /\ UNCHANGED <<row, cached, lock, inside, expiries, faults>>

-----------------------------------------------------------------------------
(* activate_version, under the lock.                                       *)

\* Mutant of Deactivate: the row of the version to activate is updated.
DeactivateTarget(c) ==
    /\ pc[c] = "deactivate"
    /\ row' = [row EXCEPT ![target[c]] = "superseded"]
    /\ Goto(c, "activate") /\ UNCHANGED <<op, target, current>>
    /\ UNCHANGED <<cached, activeId, lock, past>>

Deactivate(c) ==
    /\ pc[c] = "deactivate"
    /\ row' = [row EXCEPT ![current[c]] = "superseded"]
    /\ Goto(c, "activate") /\ UNCHANGED <<op, target, current>>
    /\ UNCHANGED <<cached, activeId, lock, past>>

Activate(c) ==
    /\ pc[c] = "activate"
    /\ row' = [row EXCEPT ![target[c]] = "active"]
    /\ Goto(c, "versionSet") /\ UNCHANGED <<op, target, current>>
    /\ UNCHANGED <<cached, activeId, lock, past>>

VersionSet(c) ==
    /\ pc[c] = "versionSet"
    /\ cached' = cached \cup {target[c]}
    /\ Goto(c, "idSet") /\ UNCHANGED <<op, target, current>>
    /\ UNCHANGED <<row, activeId, lock, past>>

IdSet(c) ==
    /\ pc[c] = "idSet"
    /\ activeId' = target[c]
    /\ Goto(c, "release") /\ UNCHANGED <<op, target, current>>
    /\ UNCHANGED <<row, cached, lock, past>>

-----------------------------------------------------------------------------
(* Failures.                                                               *)

\* Where activate_version has switched the rows or the cached id only in part.
Halfway == {"activate", "versionSet", "idSet"}

Fault == faults < MaxFaults /\ faults' = faults + 1

\* A call fails and its manager logs it and returns False or None, which
\* nobody here looks at: the operation goes on.  A query that failed reads as
\* no such version.
FailedQuery(c) ==
    /\ Fault
    /\ \/ pc[c] = "versionRow" /\ Leave(c) /\ UNCHANGED lapse
       \/ /\ pc[c] = "activeRow" /\ GotActive(c, NoVersion)
          /\ lapse' = (lapse \/ op[c] = "activate")
    /\ UNCHANGED <<store, lock, inside, expiries>>

FailedFill(c) ==
    /\ Fault
    /\ \/ pc[c] = "versionFill" /\ GotVersion(c)
       \/ pc[c] = "idFill" /\ GotActive(c, current[c])
       \/ /\ \/ pc[c] = "activeFill" /\ Goto(c, "idFill")
             \/ pc[c] = "versionSet" /\ Goto(c, "idSet")
          /\ UNCHANGED <<op, target, current>>
    /\ UNCHANGED <<store, lock, inside, expiries, lapse>>

FailedSwitch(c) ==
    /\ Fault
    /\ \/ pc[c] = "deactivate" /\ Goto(c, "activate")
       \/ pc[c] = "activate" /\ Goto(c, "versionSet")
       \/ pc[c] = "idSet" /\ Goto(c, "release")
    /\ lapse' = TRUE
    /\ UNCHANGED <<store, lock, op, target, current, inside, expiries>>

\* A call raises what its manager does not catch, or the task is cancelled,
\* before the call takes effect; an effect whose reply is lost is the same
\* state one call later.
Raises(c) ==
    /\ pc[c] \notin {"idle", "acquire", "release"}
    /\ Fault
    /\ Leave(c)
    /\ lapse' = (lapse \/ pc[c] \in Halfway)
    /\ UNCHANGED <<store, lock, inside, expiries>>

\* The process ends, or the release itself fails: the key stays.
Dies(c) ==
    /\ pc[c] \notin {"idle", "acquire"}
    /\ Fault
    /\ Return(c)
    /\ inside' = inside \ {c}
    /\ lapse' = (lapse \/ pc[c] \in Halfway)
    /\ UNCHANGED <<store, lock, expiries>>

-----------------------------------------------------------------------------
Step(c) ==
    \/ Acquire(c) \/ Release(c)
    \/ VersionCache(c) \/ VersionRow(c) \/ VersionFill(c)
    \/ IdCache(c) \/ ActiveCache(c) \/ ActiveRow(c) \/ ActiveFill(c) \/ IdFill(c)
    \/ Deactivate(c) \/ Activate(c) \/ VersionSet(c) \/ IdSet(c)

Next ==
    \/ \E c \in Clients :
         \/ ActivateVersion(c) \/ GetVersion(c) \/ GetActiveVersion(c)
         \/ Step(c)
         \/ AcquireFails(c) \/ Raises(c) \/ Dies(c)
         \/ FailedQuery(c) \/ FailedFill(c) \/ FailedSwitch(c)
    \/ \E v \in Versions : SaveVersion(v)
    \/ LockExpires

Spec == Init /\ [][Next]_vars

\* A call that was started ends, and Redis removes an expired key.  Nobody
\* need call the service.
Fairness == WF_vars(LockExpires) /\ \A c \in Clients : WF_vars(Step(c))

FairSpec == Spec /\ Fairness

-----------------------------------------------------------------------------
(* Properties.                                                             *)

\* release_lock deletes the key whoever holds it, so after one expiry every
\* release lets the next task in beside another; yet each expiry is good for
\* one task more and no more than that.
HoldersAreBounded ==
    Cardinality(inside) <= expiries + (IF lock THEN 1 ELSE 0)

\* Unless the lock expired under its holder, an activation was cut short or
\* half failed, or a version was cached as active after it was superseded,
\* one version is active and the cached id is its, and in the middle of an
\* activation one or none is.
OneIsActive ==
    ~lapse => /\ Cardinality(Active) <= 1
              /\ inside = {} => /\ Active # {}
                               /\ activeId \in Active \cup {NoVersion}

\* Whoever dies, or fails to release it: the lock is free again and again.
LockIsFreed == []<>~lock

-----------------------------------------------------------------------------
(* What the documentation says and the code does not keep.                 *)

\* "Activate a version atomically using distributed locks."
ActivatesAtomically == Cardinality(Active) <= 1
=============================================================================
