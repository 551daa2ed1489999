------------------------- MODULE ConstitutionProofs -------------------------
(***************************************************************************)
(* Proofs about ConstitutionalStorage, for every set of versions and every *)
(* finite set of clients: who is inside the lock, and that one version is  *)
(* active as long as nothing happened that the service does not repair.    *)
(***************************************************************************)
EXTENDS ConstitutionalStorage, FiniteSetTheorems, TLAPS

\* Calls that only activate_version makes.
UnderLock == {"deactivate", "activate", "versionSet", "idSet", "release"}

\* Calls that use the active version that was found.
HasCurrent == {"activeCache", "activeFill", "idFill", "deactivate"}

\* What the place of a client says of the operation it is in.
Located ==
    \A c \in Clients :
      /\ c \in inside <=> op[c] = "activate" /\ pc[c] # "acquire"
      /\ pc[c] \in UnderLock \cup {"acquire"} => op[c] = "activate"
      /\ pc[c] \in {"versionCache", "versionRow", "versionFill"}
           => op[c] \in {"activate", "getVersion"}
      /\ op[c] \in {"activate", "getVersion"} => target[c] \in Versions
      /\ pc[c] \in HasCurrent => current[c] \in Versions

\* Nobody is between the first and the last write of an activation.
Settled == \A c \in inside : pc[c] \notin Halfway

Exclusive == (\A c, d \in inside : c = d) /\ (inside # {} => lock)

\* The rows and the cached id between activations.
Consistent ==
    Settled => /\ \E v \in Versions : Active = {v}
               /\ activeId \in Active \cup {NoVersion}

\* The same in the course of one.
Underway ==
    \A c \in inside :
      /\ pc[c] \in HasCurrent => current[c] \in Active
      /\ pc[c] = "activate" => Active = {}
      /\ pc[c] \in {"versionSet", "idSet"} => Active = {target[c]}

\* The inductive invariant.
IInv ==
    /\ TypeOK /\ Located
    /\ ~lapse => Exclusive /\ Consistent /\ Underway

LEMMA InitIInv == Init => IInv
<1>. SUFFICES ASSUME Init PROVE IInv
  OBVIOUS
<1>1. TypeOK /\ Located /\ Exclusive
  BY StorageAssumption DEF Init, TypeOK, Located, Exclusive, Statuses,
     Operations, Calls, UnderLock, HasCurrent
<1>2. Active = {Initial}
  BY StorageAssumption DEF Init, Active
<1>3. Consistent /\ Underway
  BY <1>2, StorageAssumption DEF Init, Consistent, Underway
<1>. QED BY <1>1, <1>2, <1>3 DEF IInv

LEMMA StartIInv ==
  ASSUME IInv, NEW c \in Clients,
         ActivateVersion(c) \/ GetVersion(c) \/ GetActiveVersion(c)
  PROVE  IInv'
<1>1. TypeOK'
  BY DEF IInv, TypeOK, ActivateVersion, GetVersion, GetActiveVersion, Call, Goto,
     Operations, Calls, store, past
<1>2. Located'
  BY DEF IInv, TypeOK, Located, ActivateVersion, GetVersion, GetActiveVersion, Call, Goto,
     Operations, Calls, store, past, UnderLock, HasCurrent
<1>3. (~lapse => Exclusive /\ Consistent /\ Underway)'
  BY DEF IInv, TypeOK, Located, ActivateVersion, GetVersion, GetActiveVersion, Call, Goto,
     store, past, UnderLock, HasCurrent, Exclusive, Consistent, Underway, Settled, Active,
     Halfway
<1>. QED BY <1>1, <1>2, <1>3 DEF IInv

LEMMA LockIInv ==
  ASSUME IInv, NEW c \in Clients, Acquire(c) \/ AcquireFails(c) \/ Release(c)
  PROVE  IInv'
<1>1. CASE Acquire(c)
  <2>1. TypeOK'
    BY <1>1 DEF IInv, TypeOK, Located, Acquire, Goto, Return, store, UnderLock,
       HasCurrent, Operations, Calls, Statuses
  <2>2. Located'
    BY <1>1 DEF IInv, TypeOK, Located, Acquire, Goto, Return, store, UnderLock,
       HasCurrent, Operations, Calls
  <2>3. (~lapse => Exclusive /\ Consistent /\ Underway)'
    BY <1>1 DEF IInv, TypeOK, Located, Acquire, Goto, Return, store, UnderLock,
       HasCurrent, Exclusive, Consistent, Underway, Settled, Active, Halfway
  <2>. QED BY <2>1, <2>2, <2>3 DEF IInv
<1>2. CASE AcquireFails(c)
  <2>a. lock' = lock \/ lock' = TRUE
    BY <1>2 DEF AcquireFails
  <2>b. lock' \in BOOLEAN
    BY <2>a, Zenon DEF IInv, TypeOK
  <2>1. TypeOK'
    BY <1>2, <2>b DEF IInv, TypeOK, Located, AcquireFails, Goto, Return, store,
       UnderLock, HasCurrent, Operations, Calls, Statuses
  <2>2. Located'
    BY <1>2 DEF IInv, TypeOK, Located, AcquireFails, Goto, Return, store,
       UnderLock, HasCurrent, Operations, Calls
  <2>3. (~lapse => Exclusive /\ Consistent /\ Underway)'
    BY <1>2, <2>a DEF IInv, TypeOK, Located, AcquireFails, Goto, Return, store,
       UnderLock, HasCurrent, Exclusive, Consistent, Underway, Settled, Active,
       Halfway
  <2>. QED BY <2>1, <2>2, <2>3 DEF IInv
<1>3. CASE Release(c)
  <2>1. TypeOK'
    BY <1>3 DEF IInv, TypeOK, Located, Release, Goto, Return, store, UnderLock,
       HasCurrent, Operations, Calls, Statuses
  <2>2. Located'
    BY <1>3 DEF IInv, TypeOK, Located, Release, Goto, Return, store, UnderLock,
       HasCurrent, Operations, Calls
  <2>3. (~lapse => Exclusive /\ Consistent /\ Underway)'
    BY <1>3 DEF IInv, TypeOK, Located, Release, Goto, Return, store, UnderLock,
       HasCurrent, Exclusive, Consistent, Underway, Settled, Active, Halfway
  <2>. QED BY <2>1, <2>2, <2>3 DEF IInv
<1>. QED BY <1>1, <1>2, <1>3

LEMMA VersionIInv ==
  ASSUME IInv, NEW c \in Clients, VersionCache(c) \/ VersionRow(c) \/ VersionFill(c)
  PROVE  IInv'
<1>1. CASE VersionCache(c)
  <2>1. TypeOK'
    BY <1>1 DEF IInv, TypeOK, Located, VersionCache, Goto, Return, GotVersion,
       store, past, UnderLock, HasCurrent, Operations, Calls, Statuses
  <2>2. Located'
    BY <1>1 DEF IInv, TypeOK, Located, VersionCache, Goto, Return, GotVersion,
       store, past, UnderLock, HasCurrent, Operations, Calls
  <2>3. (~lapse => Exclusive /\ Consistent /\ Underway)'
    BY <1>1 DEF IInv, TypeOK, Located, VersionCache, Goto, Return, GotVersion,
       store, past, UnderLock, HasCurrent, Exclusive, Consistent, Underway,
       Settled, Active, Halfway
  <2>. QED BY <2>1, <2>2, <2>3 DEF IInv
<1>2. CASE VersionRow(c)
  <2>1. TypeOK'
    BY <1>2 DEF IInv, TypeOK, Located, VersionRow, Goto, Return, Leave, store,
       past, UnderLock, HasCurrent, Operations, Calls, Statuses
  <2>2. Located'
    BY <1>2 DEF IInv, TypeOK, Located, VersionRow, Goto, Return, Leave, store,
       past, UnderLock, HasCurrent, Operations, Calls
  <2>3. (~lapse => Exclusive /\ Consistent /\ Underway)'
    BY <1>2 DEF IInv, TypeOK, Located, VersionRow, Goto, Return, Leave, store,
       past, UnderLock, HasCurrent, Exclusive, Consistent, Underway, Settled,
       Active, Halfway
  <2>. QED BY <2>1, <2>2, <2>3 DEF IInv
<1>3. CASE VersionFill(c)
  <2>1. TypeOK'
    BY <1>3 DEF IInv, TypeOK, Located, VersionFill, Goto, Return, GotVersion,
       past, UnderLock, HasCurrent, Operations, Calls, Statuses
  <2>2. Located'
    BY <1>3 DEF IInv, TypeOK, Located, VersionFill, Goto, Return, GotVersion,
       past, UnderLock, HasCurrent, Operations, Calls
  <2>3. (~lapse => Exclusive /\ Consistent /\ Underway)'
    BY <1>3 DEF IInv, TypeOK, Located, VersionFill, Goto, Return, GotVersion,
       past, UnderLock, HasCurrent, Exclusive, Consistent, Underway, Settled,
       Active, Halfway
  <2>. QED BY <2>1, <2>2, <2>3 DEF IInv
<1>. QED BY <1>1, <1>2, <1>3

LEMMA ActiveIInv ==
  ASSUME IInv, NEW c \in Clients,
         IdCache(c) \/ ActiveCache(c) \/ ActiveRow(c) \/ ActiveFill(c) \/ IdFill(c)
  PROVE  IInv'
<1>1. CASE IdCache(c)
  <2>1. TypeOK'
    BY <1>1 DEF IInv, TypeOK, Located, IdCache, Goto, store, past, UnderLock,
       HasCurrent, Operations, Calls, Statuses
  <2>2. Located'
    BY <1>1 DEF IInv, TypeOK, Located, IdCache, Goto, store, past, UnderLock,
       HasCurrent, Operations, Calls
  <2>3. (~lapse => Exclusive /\ Consistent /\ Underway)'
    BY <1>1 DEF IInv, TypeOK, Located, IdCache, Goto, store, past, UnderLock,
       HasCurrent, Exclusive, Consistent, Underway, Settled, Active, Halfway
  <2>. QED BY <2>1, <2>2, <2>3 DEF IInv
<1>2. CASE ActiveCache(c)
  <2>1. TypeOK'
    BY <1>2, StorageAssumption DEF IInv, TypeOK, Located, ActiveCache, Goto,
       Return, GotActive, store, past, UnderLock, HasCurrent, Operations, Calls,
       Statuses
  <2>2. Located'
    BY <1>2, StorageAssumption DEF IInv, TypeOK, Located, ActiveCache, Goto,
       Return, GotActive, store, past, UnderLock, HasCurrent, Operations, Calls
  <2>3. (~lapse => Exclusive /\ Consistent /\ Underway)'
    BY <1>2, StorageAssumption DEF IInv, TypeOK, Located, ActiveCache, Goto,
       Return, GotActive, store, past, UnderLock, HasCurrent, Exclusive,
       Consistent, Underway, Settled, Active, Halfway
  <2>. QED BY <2>1, <2>2, <2>3 DEF IInv
<1>3. CASE ActiveRow(c)
  <2>1. CASE Active = {} /\ GotActive(c, NoVersion)
    <3>1. (TypeOK /\ Located)'
      BY <1>3, <2>1, StorageAssumption DEF IInv, TypeOK, Located, ActiveRow,
         Goto, Return, GotActive, store, past, UnderLock, HasCurrent, Operations,
         Calls, Statuses
    <3>2. (~lapse => Exclusive /\ Consistent /\ Underway)'
      BY <1>3, <2>1, StorageAssumption DEF IInv, TypeOK, Located, ActiveRow,
         Goto, Return, GotActive, store, past, UnderLock, HasCurrent, Exclusive,
         Consistent, Underway, Settled, Active, Halfway
    <3>. QED BY <3>1, <3>2 DEF IInv
  <2>2. CASE Leave(c)
    <3>1. (TypeOK /\ Located)'
      BY <1>3, <2>2 DEF IInv, TypeOK, Located, ActiveRow, Goto, Return, Leave,
         store, past, UnderLock, HasCurrent, Operations, Calls, Statuses
    <3>2. (~lapse => Exclusive /\ Consistent /\ Underway)'
      BY <1>3, <2>2 DEF IInv, TypeOK, Located, ActiveRow, Goto, Return, Leave,
         store, past, UnderLock, HasCurrent, Exclusive, Consistent, Underway,
         Settled, Active, Halfway
    <3>. QED BY <3>1, <3>2 DEF IInv
  <2>3. ASSUME NEW v \in Active, Active = {v}, Goto(c, "activeFill"),
               current' = [current EXCEPT ![c] = v], UNCHANGED <<op, target>>
        PROVE  IInv'
    <3>0. v \in Versions
      BY DEF Active
    <3>1. (TypeOK /\ Located)'
      BY <1>3, <2>3, <3>0 DEF IInv, TypeOK, Located, ActiveRow, Goto, store,
         past, UnderLock, HasCurrent, Operations, Calls, Statuses
    <3>2. (~lapse => Exclusive /\ Consistent /\ Underway)'
      BY <1>3, <2>3, <3>0 DEF IInv, TypeOK, Located, ActiveRow, Goto, store,
         past, UnderLock, HasCurrent, Exclusive, Consistent, Underway, Settled,
         Active, Halfway
    <3>. QED BY <3>1, <3>2 DEF IInv
  <2>. QED BY <1>3, <2>1, <2>2, <2>3 DEF ActiveRow
<1>4. CASE ActiveFill(c)
  <2>1. TypeOK'
    BY <1>4 DEF IInv, TypeOK, Located, ActiveFill, Goto, past, UnderLock,
       HasCurrent, Operations, Calls, Statuses
  <2>2. Located'
    BY <1>4 DEF IInv, TypeOK, Located, ActiveFill, Goto, past, UnderLock,
       HasCurrent, Operations, Calls
  <2>3. (~lapse => Exclusive /\ Consistent /\ Underway)'
    BY <1>4 DEF IInv, TypeOK, Located, ActiveFill, Goto, past, UnderLock,
       HasCurrent, Exclusive, Consistent, Underway, Settled, Active, Halfway
  <2>. QED BY <2>1, <2>2, <2>3 DEF IInv
<1>5. CASE IdFill(c)
  <2>1. TypeOK'
    BY <1>5, StorageAssumption DEF IInv, TypeOK, Located, IdFill, Goto, Return,
       GotActive, UnderLock, HasCurrent, Operations, Calls, Statuses
  <2>2. Located'
    BY <1>5, StorageAssumption DEF IInv, TypeOK, Located, IdFill, Goto, Return,
       GotActive, UnderLock, HasCurrent, Operations, Calls
  <2>3. ASSUME ~lapse' PROVE (Exclusive /\ Consistent /\ Underway)'
    <3>1. ~lapse /\ current[c] \in Active
      BY <1>5, <2>3, Zenon DEF IdFill
    <3>. QED BY <1>5, <3>1, StorageAssumption DEF IInv, TypeOK, Located, IdFill,
         Goto, Return, GotActive, UnderLock, HasCurrent, Exclusive, Consistent,
         Underway, Settled, Active, Halfway
  <2>. QED BY <2>1, <2>2, <2>3 DEF IInv
<1>. QED BY <1>1, <1>2, <1>3, <1>4, <1>5

LEMMA SwitchIInv ==
  ASSUME IInv, NEW c \in Clients,
         Deactivate(c) \/ Activate(c) \/ VersionSet(c) \/ IdSet(c)
  PROVE  IInv'
<1>1. CASE Deactivate(c)
  <2>1. TypeOK'
    BY <1>1 DEF IInv, TypeOK, Located, Deactivate, Goto, past, UnderLock,
       HasCurrent, Operations, Calls, Statuses
  <2>2. Located'
    BY <1>1 DEF IInv, TypeOK, Located, Deactivate, Goto, past, UnderLock,
       HasCurrent, Operations, Calls
  <2>3. (~lapse => Exclusive /\ Consistent /\ Underway)'
    BY <1>1 DEF IInv, TypeOK, Located, Deactivate, Goto, past, UnderLock,
       HasCurrent, Exclusive, Consistent, Underway, Settled, Active, Halfway
  <2>. QED BY <2>1, <2>2, <2>3 DEF IInv
<1>2. CASE Activate(c)
  <2>1. TypeOK'
    BY <1>2 DEF IInv, TypeOK, Located, Activate, Goto, past, UnderLock,
       HasCurrent, Operations, Calls, Statuses
  <2>2. Located'
    BY <1>2 DEF IInv, TypeOK, Located, Activate, Goto, past, UnderLock,
       HasCurrent, Operations, Calls
  <2>3. (~lapse => Exclusive /\ Consistent /\ Underway)'
    BY <1>2 DEF IInv, TypeOK, Located, Activate, Goto, past, UnderLock,
       HasCurrent, Exclusive, Consistent, Underway, Settled, Active, Halfway
  <2>. QED BY <2>1, <2>2, <2>3 DEF IInv
<1>3. CASE VersionSet(c)
  <2>1. TypeOK'
    BY <1>3 DEF IInv, TypeOK, Located, VersionSet, Goto, past, UnderLock,
       HasCurrent, Operations, Calls, Statuses
  <2>2. Located'
    BY <1>3 DEF IInv, TypeOK, Located, VersionSet, Goto, past, UnderLock,
       HasCurrent, Operations, Calls
  <2>3. (~lapse => Exclusive /\ Consistent /\ Underway)'
    BY <1>3 DEF IInv, TypeOK, Located, VersionSet, Goto, past, UnderLock,
       HasCurrent, Exclusive, Consistent, Underway, Settled, Active, Halfway
  <2>. QED BY <2>1, <2>2, <2>3 DEF IInv
<1>4. CASE IdSet(c)
  <2>1. TypeOK'
    BY <1>4 DEF IInv, TypeOK, Located, IdSet, Goto, past, UnderLock, HasCurrent,
       Operations, Calls, Statuses
  <2>2. Located'
    BY <1>4 DEF IInv, TypeOK, Located, IdSet, Goto, past, UnderLock, HasCurrent,
       Operations, Calls
  <2>3. (~lapse => Exclusive /\ Consistent /\ Underway)'
    BY <1>4 DEF IInv, TypeOK, Located, IdSet, Goto, past, UnderLock, HasCurrent,
       Exclusive, Consistent, Underway, Settled, Active, Halfway
  <2>. QED BY <2>1, <2>2, <2>3 DEF IInv
<1>. QED BY <1>1, <1>2, <1>3, <1>4

LEMMA FailureIInv ==
  ASSUME IInv, NEW c \in Clients,
         Raises(c) \/ Dies(c) \/ FailedQuery(c) \/ FailedFill(c) \/ FailedSwitch(c)
  PROVE  IInv'
<1>1. CASE FailedQuery(c)
  <2>1. CASE pc[c] = "versionRow" /\ Leave(c) /\ UNCHANGED lapse
    <3>1. (TypeOK /\ Located)'
      BY <1>1, <2>1 DEF IInv, TypeOK, Located, FailedQuery, Goto, Leave, Return,
         Fault, store, UnderLock, HasCurrent, Operations, Calls, Statuses
    <3>2. (~lapse => Exclusive /\ Consistent /\ Underway)'
      BY <1>1, <2>1 DEF IInv, TypeOK, Located, FailedQuery, Goto, Leave, Return,
         store, UnderLock, HasCurrent, Exclusive, Consistent, Underway, Settled,
         Active, Halfway
    <3>. QED BY <3>1, <3>2 DEF IInv
  <2>2. CASE /\ pc[c] = "activeRow" /\ GotActive(c, NoVersion)
             /\ lapse' = (lapse \/ op[c] = "activate")
    <3>1. (TypeOK /\ Located)'
      BY <1>1, <2>2, StorageAssumption DEF IInv, TypeOK, Located, FailedQuery,
         Goto, GotActive, Return, Fault, store, UnderLock, HasCurrent, Operations,
         Calls, Statuses
    <3>2. ASSUME ~lapse' PROVE (Exclusive /\ Consistent /\ Underway)'
      <4>1. ~lapse /\ op[c] # "activate"
        BY <2>2, <3>2, Zenon
      <4>. QED BY <1>1, <2>2, <4>1, StorageAssumption DEF IInv, TypeOK, Located,
           FailedQuery, Goto, GotActive, Return, store, UnderLock, HasCurrent,
           Exclusive, Consistent, Underway, Settled, Active, Halfway
    <3>. QED BY <3>1, <3>2 DEF IInv
  <2>. QED BY <1>1, <2>1, <2>2 DEF FailedQuery
<1>2. CASE FailedFill(c)
  <2>1. CASE pc[c] = "versionFill" /\ GotVersion(c)
    <3>1. (TypeOK /\ Located)'
      BY <1>2, <2>1 DEF IInv, TypeOK, Located, FailedFill, Goto, GotVersion,
         Return, Fault, store, UnderLock, HasCurrent, Operations, Calls, Statuses
    <3>2. (~lapse => Exclusive /\ Consistent /\ Underway)'
      BY <1>2, <2>1 DEF IInv, TypeOK, Located, FailedFill, Goto, GotVersion,
         Return, store, UnderLock, HasCurrent, Exclusive, Consistent, Underway,
         Settled, Active, Halfway
    <3>. QED BY <3>1, <3>2 DEF IInv
  <2>2. CASE pc[c] = "idFill" /\ GotActive(c, current[c])
    <3>1. (TypeOK /\ Located)'
      BY <1>2, <2>2, StorageAssumption DEF IInv, TypeOK, Located, FailedFill,
         Goto, GotActive, Return, Fault, store, UnderLock, HasCurrent, Operations,
         Calls, Statuses
    <3>2. (~lapse => Exclusive /\ Consistent /\ Underway)'
      BY <1>2, <2>2, StorageAssumption DEF IInv, TypeOK, Located, FailedFill,
         Goto, GotActive, Return, store, UnderLock, HasCurrent, Exclusive,
         Consistent, Underway, Settled, Active, Halfway
    <3>. QED BY <3>1, <3>2 DEF IInv
  <2>3. CASE /\ \/ pc[c] = "activeFill" /\ Goto(c, "idFill")
                \/ pc[c] = "versionSet" /\ Goto(c, "idSet")
             /\ UNCHANGED <<op, target, current>>
    <3>1. (TypeOK /\ Located)'
      BY <1>2, <2>3 DEF IInv, TypeOK, Located, FailedFill, Goto, Fault, store,
         UnderLock, HasCurrent, Operations, Calls, Statuses
    <3>2. (~lapse => Exclusive /\ Consistent /\ Underway)'
      BY <1>2, <2>3 DEF IInv, TypeOK, Located, FailedFill, Goto, store,
         UnderLock, HasCurrent, Exclusive, Consistent, Underway, Settled, Active,
         Halfway
    <3>. QED BY <3>1, <3>2 DEF IInv
  <2>. QED BY <1>2, <2>1, <2>2, <2>3 DEF FailedFill
<1>3. CASE FailedSwitch(c)
  <2>1. (TypeOK /\ Located)'
    BY <1>3 DEF IInv, TypeOK, Located, FailedSwitch, Goto, Fault, store,
       UnderLock, HasCurrent, Operations, Calls, Statuses
  <2>. QED BY <1>3, <2>1 DEF IInv, FailedSwitch
<1>4. CASE Raises(c)
  <2>1. TypeOK'
    BY <1>4 DEF IInv, TypeOK, Located, Raises, Goto, Return, Leave, Fault,
       store, UnderLock, HasCurrent, Operations, Calls, Statuses
  <2>2. Located'
    BY <1>4 DEF IInv, TypeOK, Located, Raises, Goto, Return, Leave, Fault,
       store, UnderLock, HasCurrent, Operations, Calls
  <2>3. (~lapse => Exclusive /\ Consistent /\ Underway)'
    BY <1>4 DEF IInv, TypeOK, Located, Raises, Goto, Return, Leave, Fault,
       store, UnderLock, HasCurrent, Exclusive, Consistent, Underway, Settled,
       Active, Halfway
  <2>. QED BY <2>1, <2>2, <2>3 DEF IInv
<1>5. CASE Dies(c)
  <2>1. TypeOK'
    BY <1>5 DEF IInv, TypeOK, Located, Dies, Goto, Return, Fault, store,
       UnderLock, HasCurrent, Operations, Calls, Statuses
  <2>2. Located'
    BY <1>5 DEF IInv, TypeOK, Located, Dies, Goto, Return, Fault, store,
       UnderLock, HasCurrent, Operations, Calls
  <2>3. (~lapse => Exclusive /\ Consistent /\ Underway)'
    BY <1>5 DEF IInv, TypeOK, Located, Dies, Goto, Return, Fault, store,
       UnderLock, HasCurrent, Exclusive, Consistent, Underway, Settled, Active,
       Halfway
  <2>. QED BY <2>1, <2>2, <2>3 DEF IInv
<1>. QED BY <1>1, <1>2, <1>3, <1>4, <1>5

LEMMA OthersIInv ==
  ASSUME IInv, LockExpires \/ \E v \in Versions : SaveVersion(v)
  PROVE  IInv'
<1>1. CASE LockExpires
  <2>a. lapse' = lapse \/ lapse' = TRUE
    BY <1>1 DEF LockExpires
  <2>b. lapse' \in BOOLEAN
    BY <2>a, Zenon DEF IInv, TypeOK
  <2>c. expiries' \in Nat
    BY <1>1 DEF IInv, TypeOK, LockExpires
  <2>1. (TypeOK /\ Located)'
    BY <1>1, <2>b, <2>c DEF IInv, TypeOK, Located, LockExpires, store, locals
  <2>2. ASSUME ~lapse' PROVE (Exclusive /\ Consistent /\ Underway)'
    BY <1>1, <2>2 DEF IInv, TypeOK, LockExpires, store, locals, Exclusive,
       Consistent, Underway, Settled, Active
  <2>. QED BY <2>1, <2>2 DEF IInv
<1>2. ASSUME NEW v \in Versions, SaveVersion(v) PROVE IInv'
  <2>1. Active' = Active
    BY <1>2 DEF SaveVersion, Active, IInv, TypeOK
  <2>2. (TypeOK /\ Located)'
    BY <1>2 DEF IInv, TypeOK, Located, SaveVersion, locals, past, Statuses
  <2>3. (~lapse => Exclusive /\ Consistent /\ Underway)'
    BY <1>2, <2>1 DEF IInv, SaveVersion, locals, past, Exclusive, Consistent,
       Underway, Settled
  <2>. QED BY <2>2, <2>3 DEF IInv
<1>. QED BY <1>1, <1>2

LEMMA NextIInv == IInv /\ [Next]_vars => IInv'
<1>. SUFFICES ASSUME IInv, [Next]_vars PROVE IInv'
  OBVIOUS
<1>1. CASE UNCHANGED vars
  BY <1>1 DEF vars, store, locals, past, IInv, TypeOK, Located, Exclusive,
     Consistent, Underway, Settled, Active
<1>2. CASE Next
  BY <1>2, StartIInv, LockIInv, VersionIInv, ActiveIInv, SwitchIInv, FailureIInv,
     OthersIInv DEF Next, Step
<1>. QED BY <1>1, <1>2

-----------------------------------------------------------------------------
\* Every call leaves each client at a place that fits the operation it is in.
THEOREM TypeCorrect == Spec => []TypeOK
<1>1. IInv => TypeOK
  BY DEF IInv
<1>. QED BY InitIInv, NextIInv, <1>1, PTL DEF Spec

\* One version is active as long as nothing happened that the service does not
\* repair: any number of readers, activations and cached versions leave none
\* active only while an activation is between its two writes, and the cache names
\* the active version when no activation is under way.
THEOREM OneVersionIsActive == Spec => []OneIsActive
<1>1. IInv => OneIsActive
  <2>. SUFFICES ASSUME IInv, ~lapse
                PROVE  /\ Cardinality(Active) <= 1
                       /\ inside = {} => /\ Active # {}
                                        /\ activeId \in Active \cup {NoVersion}
    BY DEF OneIsActive
  <2>1. CASE Settled
    <3>1. PICK v \in Versions : Active = {v}
      BY <2>1 DEF IInv, Consistent
    <3>2. Cardinality(Active) = 1
      BY <3>1, FS_Singleton
    <3>. QED BY <2>1, <3>1, <3>2 DEF IInv, Consistent
  <2>2. CASE ~Settled
    <3>1. PICK c \in inside : pc[c] \in Halfway
      BY <2>2 DEF Settled
    <3>2. Active = {} \/ Active = {target[c]}
      BY <3>1 DEF IInv, Underway, Halfway
    <3>3. Cardinality(Active) = 0 \/ Cardinality(Active) = 1
      BY <3>2, FS_EmptySet, FS_Singleton
    <3>. QED BY <3>1, <3>3
  <2>. QED BY <2>1, <2>2
<1>. QED BY InitIInv, NextIInv, <1>1, PTL DEF Spec

-----------------------------------------------------------------------------
\* Who enters or leaves the lock, one step at a time.
LEMMA InsideChanges ==
  ASSUME IInv, [Next]_vars
  PROVE  \/ inside' = inside /\ expiries' = expiries /\ (lock' = lock \/ lock' = TRUE)
         \/ inside' = inside /\ expiries' = expiries + 1
         \/ inside' = inside /\ expiries' = expiries /\ inside = {}
         \/ \E c \in Clients :
              inside' = inside \cup {c} /\ expiries' = expiries /\ lock = FALSE /\ lock' = TRUE
         \/ \E c \in inside : inside' = inside \ {c} /\ expiries' = expiries
<1>1. CASE UNCHANGED vars
  BY <1>1 DEF vars, past
<1>2. CASE \E c \in Clients : ActivateVersion(c) \/ GetVersion(c) \/ GetActiveVersion(c)
  BY <1>2 DEF ActivateVersion, GetVersion, GetActiveVersion, Call, past
<1>3. ASSUME NEW c \in Clients, Acquire(c)
      PROVE  \/ inside' = inside /\ expiries' = expiries /\ lock' = lock
             \/ /\ inside' = inside \cup {c} /\ expiries' = expiries
                /\ lock = FALSE /\ lock' = TRUE
  BY <1>3 DEF Acquire, IInv, TypeOK
<1>4. ASSUME NEW c \in Clients, AcquireFails(c)
      PROVE  inside' = inside /\ expiries' = expiries /\ (lock' = lock \/ lock' = TRUE)
  BY <1>4 DEF AcquireFails
<1>5. ASSUME NEW c \in Clients, Release(c)
      PROVE  c \in inside /\ inside' = inside \ {c} /\ expiries' = expiries
  BY <1>5 DEF Release, IInv, Located, UnderLock
<1>6. ASSUME NEW c \in Clients, Dies(c)
      PROVE  /\ inside' = inside \ {c} /\ expiries' = expiries
             /\ c \in inside \/ (inside' = inside /\ lock' = lock)
  BY <1>6 DEF Dies
<1>7. ASSUME NEW c \in Clients, Step(c), ~Acquire(c), ~Release(c)
      PROVE  inside' = inside /\ expiries' = expiries /\ lock' = lock
  BY <1>7 DEF Step, past, VersionCache, VersionRow, VersionFill, IdCache,
     ActiveCache, ActiveRow, ActiveFill, IdFill, Deactivate, Activate, VersionSet,
     IdSet
<1>8. ASSUME NEW c \in Clients,
             Raises(c) \/ FailedQuery(c) \/ FailedFill(c) \/ FailedSwitch(c)
      PROVE  inside' = inside /\ expiries' = expiries /\ lock' = lock
  BY <1>8 DEF Raises, FailedQuery, FailedFill, FailedSwitch
<1>9. ASSUME NEW v \in Versions, SaveVersion(v)
      PROVE  inside' = inside /\ expiries' = expiries /\ lock' = lock
  BY <1>9 DEF SaveVersion, past
<1>10. ASSUME LockExpires
       PROVE  \/ inside' = inside /\ expiries' = expiries + 1
              \/ inside' = inside /\ expiries' = expiries /\ inside = {}
  BY <1>10 DEF LockExpires
<1>. QED
  BY <1>1, <1>2, <1>3, <1>4, <1>5, <1>6, <1>7, <1>8, <1>9, <1>10 DEF Next

\* Each expiry of the lock under its holder lets one task more inside.
THEOREM HoldersBounded == Spec => []HoldersAreBounded
<1>. DEFINE Room(l) == IF l THEN 1 ELSE 0
<1>1. Init => HoldersAreBounded
  <2>. SUFFICES ASSUME Init PROVE HoldersAreBounded
    OBVIOUS
  <2>1. Cardinality(inside) = 0
    BY FS_EmptySet DEF Init
  <2>. QED BY <2>1 DEF Init, HoldersAreBounded
<1>2. IInv /\ HoldersAreBounded /\ [Next]_vars => HoldersAreBounded'
  <2>. SUFFICES ASSUME IInv, HoldersAreBounded, [Next]_vars PROVE HoldersAreBounded'
    OBVIOUS
  <2>1. IsFiniteSet(inside) /\ Cardinality(inside) \in Nat
    BY StorageAssumption, FS_Subset, FS_CardinalityType DEF IInv, TypeOK
  <2>2. /\ expiries \in Nat /\ Room(lock) \in 0..1 /\ Room(lock') \in 0..1
        /\ Cardinality(inside) <= expiries + Room(lock)
    BY DEF IInv, TypeOK, HoldersAreBounded
  <2>3. CASE inside' = inside /\ expiries' = expiries /\ (lock' = lock \/ lock' = TRUE)
    BY <2>1, <2>2, <2>3 DEF HoldersAreBounded
  <2>4. CASE inside' = inside /\ expiries' = expiries + 1
    BY <2>1, <2>2, <2>4 DEF HoldersAreBounded
  <2>5. CASE inside' = inside /\ expiries' = expiries /\ inside = {}
    BY <2>2, <2>5, FS_EmptySet DEF HoldersAreBounded
  <2>6. ASSUME NEW c \in Clients, inside' = inside \cup {c}, expiries' = expiries,
               lock = FALSE, lock' = TRUE
        PROVE  HoldersAreBounded'
    <3>1. Cardinality(inside') \in {Cardinality(inside), Cardinality(inside) + 1}
      BY <2>1, <2>6, FS_AddElement
    <3>. QED BY <2>1, <2>2, <2>6, <3>1 DEF HoldersAreBounded
  <2>7. ASSUME NEW c \in inside, inside' = inside \ {c}, expiries' = expiries
        PROVE  HoldersAreBounded'
    <3>1. Cardinality(inside') = Cardinality(inside) - 1
      BY <2>1, <2>7, FS_RemoveElement
    <3>. QED BY <2>1, <2>2, <2>7, <3>1 DEF HoldersAreBounded
  <2>. QED BY <2>3, <2>4, <2>5, <2>6, <2>7, InsideChanges
<1>. QED BY InitIInv, NextIInv, <1>1, <1>2, PTL DEF Spec
=============================================================================
