---------------------------- MODULE BallotProofs ----------------------------
(***************************************************************************)
(* Proofs that an election whose operations do not overlap is a Ballot,    *)
(* for every set of agents, weights and strategy, whatever fails, is       *)
(* repeated or delivered again.                                            *)
(***************************************************************************)
EXTENDS ElectionProofs

-----------------------------------------------------------------------------
(* The inductive invariant.                                                *)

\* What a document comes to.
OutcomeOf(doc) ==
    IF doc = NoElection THEN "gone"
    ELSE CASE doc.status = "OPEN" -> "open"
           [] doc.status = "EXPIRED" -> "DENY"
           [] doc.status = "CLOSED" -> IF doc.result = "none"
                                         THEN Resolution(doc.votes) ELSE doc.result

\* A stored document: while it is open its key lives as long as the election,
\* and closed without a result its votes still decide it.
Consistent(doc, ls) ==
    doc # NoElection =>
      /\ doc.status = "OPEN" => doc.result = "none" /\ ls = "deadline"
      /\ doc.status = "CLOSED" /\ doc.result = "none" => Resolution(doc.votes) # "none"
      /\ doc.status = "EXPIRED" => doc.result \in {"none", "DENY"}

\* The snapshot fd closes the stored document as its votes say, or denies it
\* after its deadline.
Brings(fd, doc, late) ==
    /\ doc # NoElection /\ fd # NoElection /\ fd.votes = doc.votes
    /\ \/ /\ fd.status = "CLOSED" /\ fd.result = Resolution(doc.votes)
          /\ fd.result # "none"
          /\ doc.status = "OPEN" \/ (doc.status = "CLOSED" /\ doc.result = "none")
       \/ /\ fd.status = "EXPIRED" /\ fd.result \in {"none", "DENY"} /\ late = TRUE
          /\ doc.status = "OPEN" \/ doc.status = "EXPIRED"

\* What a task before call c, which nobody disturbs, knows of the store.
Knows(c, sd, fd, doc, late) ==
    /\ c \in {"publish", "addRead", "addWrite"} => doc # NoElection /\ doc.status = "OPEN"
    /\ c = "validate" => doc # NoElection
    /\ c = "resolve" => /\ doc # NoElection
                        /\ doc.status = "OPEN" \/ (doc.status = "CLOSED" /\ doc.result = "none")
    /\ c \in {"statusRead", "statusWrite", "save"} => Brings(fd, doc, late)
    /\ c \in {"addWrite", "statusWrite"} => sd = doc

\* An answer is the outcome of the election, or the election is gone.
Answered(ans, doc) ==
    ans # "none" => doc = NoElection \/ (doc.status # "OPEN" /\ ans = OutcomeOf(doc))

\* Until operations overlap one task at most is at work, and what it read is
\* what the store holds.
Alone ==
    overlapped = FALSE =>
      /\ \A t, u \in Tasks : pc[t] # "idle" /\ pc[u] # "idle" => t = u
      /\ Consistent(record, lease)
      /\ \A t \in Tasks :
           Knows(pc[t], seen[t], final[t], record, deadlinePassed)
      /\ unnoticed = FALSE => Answered(answer, record)

-----------------------------------------------------------------------------
(* Outcomes.                                                               *)

LEMMA OutcomeCases ==
  ASSUME NEW doc
  PROVE  /\ doc = NoElection => OutcomeOf(doc) = "gone"
         /\ doc # NoElection =>
              /\ doc.status = "OPEN" => OutcomeOf(doc) = "open"
              /\ doc.status = "EXPIRED" => OutcomeOf(doc) = "DENY"
              /\ doc.status = "CLOSED" /\ doc.result = "none" =>
                   OutcomeOf(doc) = Resolution(doc.votes)
              /\ doc.status = "CLOSED" /\ doc.result # "none" =>
                   OutcomeOf(doc) = doc.result
BY DEF OutcomeOf

LEMMA DocumentFields ==
  ASSUME NEW doc \in Elections
  PROVE  /\ doc.status \in {"OPEN", "CLOSED", "EXPIRED"}
         /\ doc.result \in {"none", "APPROVE", "DENY"}
         /\ doc.votes \in Votes
BY DEF Elections

\* The outcome the ballot is shown is that of the stored document.
LEMMA OutcomeIs ==
  ASSUME record \in Elections \cup {NoElection}
  PROVE  Outcome = OutcomeOf(record)
<1>1. CASE record = NoElection
  BY <1>1, OutcomeCases DEF Outcome, Open
<1>2. CASE record # NoElection /\ record.status = "OPEN"
  BY <1>2, OutcomeCases DEF Outcome, Open
<1>3. CASE record # NoElection /\ record.status = "EXPIRED"
  BY <1>3, OutcomeCases DEF Outcome, Open
<1>4. CASE record # NoElection /\ record.status = "CLOSED"
  BY <1>4, OutcomeCases DEF Outcome, Open, Verdict
<1>. QED BY <1>1, <1>2, <1>3, <1>4, DocumentFields

-----------------------------------------------------------------------------
(* A step of a task that nobody disturbs.                                  *)

LEMMA AloneStep ==
  ASSUME EInv, Alone, overlapped = FALSE, NEW t \in Tasks, NEW next,
         pc' = [pc EXCEPT ![t] = next],
         pc[t] # "idle" \/ \A u \in Tasks : pc[u] = "idle",
         Consistent(record', lease'),
         Knows(next, seen'[t], final'[t], record', deadlinePassed'),
         unnoticed' = FALSE => Answered(answer', record')
  PROVE  Alone'
<1>1. pc'[t] = next /\ \A u \in Tasks : u # t => pc'[u] = "idle"
  BY DEF EInv, TypeOK, Alone
<1>2. \A u, v \in Tasks : pc'[u] # "idle" /\ pc'[v] # "idle" => u = v
  BY <1>1
<1>3. ASSUME NEW u \in Tasks
      PROVE  Knows(pc'[u], seen'[u], final'[u], record', deadlinePassed')
  <2>1. CASE u = t
    BY <1>1, <2>1
  <2>2. CASE u # t
    <3>1. pc'[u] = "idle"
      BY <1>1, <2>2
    <3>. QED BY <3>1, Zenon DEF Knows
  <2>. QED BY <2>1, <2>2
<1>. QED BY <1>2, <1>3, Zenon DEF Alone

\* What a task knows stays true when the deadline passes.
LEMMA KnowsLater ==
  ASSUME NEW c, NEW sd, NEW fd, NEW doc, NEW late, NEW later,
         late = TRUE => later = TRUE, Knows(c, sd, fd, doc, late)
  PROVE  Knows(c, sd, fd, doc, later)
BY Zenon DEF Knows, Brings

\* No task moves and nothing is stored.
LEMMA StillAlone ==
  ASSUME EInv, Alone, overlapped = FALSE, UNCHANGED <<pc, record, lease>>,
         deadlinePassed = TRUE => deadlinePassed' = TRUE,
         \A t \in Tasks : pc[t] # "idle" => seen'[t] = seen[t] /\ final'[t] = final[t],
         unnoticed' = FALSE => Answered(answer', record')
  PROVE  Alone'
<1>1. /\ \A t, u \in Tasks : pc[t] # "idle" /\ pc[u] # "idle" => t = u
      /\ Consistent(record, lease)
      /\ \A t \in Tasks : Knows(pc[t], seen[t], final[t], record, deadlinePassed)
  BY Zenon DEF Alone
<1>2. ASSUME NEW t \in Tasks
      PROVE  Knows(pc'[t], seen'[t], final'[t], record', deadlinePassed')
  <2>1. CASE pc[t] = "idle"
    <3>1. pc'[t] = "idle"
      BY <2>1
    <3>. QED BY <3>1, Zenon DEF Knows
  <2>2. CASE pc[t] # "idle"
    <3>1. Knows(pc[t], seen[t], final[t], record, deadlinePassed')
      BY <1>1, KnowsLater
    <3>2. /\ pc'[t] = pc[t] /\ seen'[t] = seen[t] /\ final'[t] = final[t]
          /\ record' = record
      BY <2>2
    <3>. QED BY <3>1, <3>2
  <2>. QED BY <2>1, <2>2
<1>3. Consistent(record', lease')
  BY <1>1
<1>4. \A t, u \in Tasks : pc'[t] # "idle" /\ pc'[u] # "idle" => t = u
  BY <1>1
<1>. QED BY <1>2, <1>3, <1>4, Zenon DEF Alone

\* What Alone says while it is about anything.
LEMMA AloneNow ==
  ASSUME EInv, Alone, overlapped = FALSE
  PROVE  /\ Consistent(record, lease)
         /\ \A t \in Tasks : Knows(pc[t], seen[t], final[t], record, deadlinePassed)
         /\ unnoticed = FALSE => Answered(answer, record)
         /\ record \in Elections \cup {NoElection}
         /\ seen \in [Tasks -> Elections \cup {NoElection}]
         /\ final \in [Tasks -> Elections \cup {NoElection}]
         /\ pc \in [Tasks -> Calls]
BY Zenon DEF Alone, EInv, TypeOK

LEMMA BeginAlone ==
  ASSUME EInv, NEW t \in Tasks, NEW next, Begin(t, next), overlapped' = FALSE
  PROVE  /\ overlapped = FALSE /\ \A u \in Tasks : pc[u] = "idle"
         /\ pc' = [pc EXCEPT ![t] = next]
<1>1. overlapped' = (overlapped \/ Busy # {}) /\ pc' = [pc EXCEPT ![t] = next]
  BY Zenon DEF Begin
<1>2. overlapped \in BOOLEAN
  BY Zenon DEF EInv, TypeOK
<1>3. overlapped = FALSE /\ Busy = {}
  BY <1>1, <1>2, Zenon
<1>. QED BY <1>1, <1>3 DEF Busy

LEMMA GotoAlone ==
  ASSUME NEW t, NEW next, Goto(t, next), overlapped' = FALSE
  PROVE  overlapped = FALSE /\ pc' = [pc EXCEPT ![t] = next]
BY Zenon DEF Goto

\* Where a task that knows nothing may be.
LEMMA KnowsNothing ==
  ASSUME NEW c \in {"idle", "reread", "commit", "escalate"},
         NEW sd, NEW fd, NEW doc, NEW late
  PROVE  Knows(c, sd, fd, doc, late)
BY DEF Knows

\* A step that stores nothing and answers nothing, to where nothing is known.
LEMMA RestAlone ==
  ASSUME EInv, Alone, overlapped = FALSE, NEW t \in Tasks,
         NEW next \in {"idle", "reread", "commit", "escalate"},
         pc' = [pc EXCEPT ![t] = next],
         pc[t] # "idle" \/ \A u \in Tasks : pc[u] = "idle",
         UNCHANGED <<record, lease>>, unnoticed' = TRUE \/ UNCHANGED <<answer, unnoticed>>
  PROVE  Alone'
<1>1. Knows(next, seen'[t], final'[t], record', deadlinePassed')
  BY KnowsNothing
<1>2. Consistent(record', lease')
  BY AloneNow
<1>3. unnoticed' = FALSE => Answered(answer', record')
  <2>1. CASE unnoticed' = TRUE
    BY <2>1
  <2>2. CASE UNCHANGED <<answer, unnoticed>>
    <3>1. answer' = answer /\ unnoticed' = unnoticed /\ record' = record
      BY <2>2
    <3>. QED BY <3>1, AloneNow, Zenon
  <2>. QED BY <2>1, <2>2
<1>. QED BY <1>1, <1>2, <1>3, AloneStep

\* A step that stores nothing and answers nothing.
LEMMA CarryAlone ==
  ASSUME EInv, Alone, overlapped = FALSE, NEW t \in Tasks, NEW next,
         pc' = [pc EXCEPT ![t] = next],
         pc[t] # "idle" \/ \A u \in Tasks : pc[u] = "idle",
         UNCHANGED <<record, lease, deadlinePassed, answer, unnoticed>>,
         Knows(next, seen'[t], final'[t], record, deadlinePassed)
  PROVE  Alone'
<1>1. /\ record' = record /\ lease' = lease /\ answer' = answer
      /\ unnoticed' = unnoticed /\ deadlinePassed' = deadlinePassed
  OBVIOUS
<1>2. Consistent(record', lease')
  BY <1>1, AloneNow
<1>3. Knows(next, seen'[t], final'[t], record', deadlinePassed')
  BY <1>1
<1>4. unnoticed' = FALSE => Answered(answer', record')
  BY <1>1, AloneNow, Zenon
<1>. QED BY <1>2, <1>3, <1>4, AloneStep

-----------------------------------------------------------------------------
(* cast_vote.                                                              *)

LEMMA AloneCastVote ==
  ASSUME EInv, Alone, NEW c \in Callers, NEW a \in Agents, NEW decision \in Decisions,
         CastVote(c, a, decision)
  PROVE  Alone'
<1>. SUFFICES ASSUME overlapped' = FALSE PROVE Alone'
  BY DEF Alone
<1>1. /\ Open /\ c \in Tasks
      /\ UNCHANGED <<record, lease, deadlinePassed, answer, unnoticed>>
  BY TaskNames DEF CastVote, store, failures
<1>2. /\ overlapped = FALSE /\ \A u \in Tasks : pc[u] = "idle"
      /\ pc' = [pc EXCEPT ![c] = "publish"]
  BY <1>1, BeginAlone DEF CastVote
<1>3. Knows("publish", seen'[c], final'[c], record, deadlinePassed)
  BY <1>1 DEF Knows, Open
<1>. QED BY <1>1, <1>2, <1>3, CarryAlone

LEMMA AloneValidate ==
  ASSUME EInv, Alone, Validate
  PROVE  Alone'
<1>. SUFFICES ASSUME overlapped' = FALSE PROVE Alone'
  BY DEF Alone
<1>. DEFINE next == IF Open THEN "publish" ELSE "commit"
<1>1. /\ UNCHANGED <<record, lease, deadlinePassed, answer, unnoticed>>
      /\ "consumer" \in Tasks /\ pc["consumer"] # "idle"
      /\ overlapped = FALSE /\ pc' = [pc EXCEPT !["consumer"] = next]
  BY TaskNames, GotoAlone DEF Validate, store, failures
<1>2. Knows(next, seen'["consumer"], final'["consumer"], record, deadlinePassed)
  BY DEF Knows, Open
<1>. HIDE DEF next
<1>. QED BY <1>1, <1>2, CarryAlone

LEMMA AlonePublish ==
  ASSUME EInv, Alone, NEW t \in Tasks, Publish(t) \/ AddRead(t)
  PROVE  Alone'
<1>. SUFFICES ASSUME overlapped' = FALSE PROVE Alone'
  BY DEF Alone
<1>1. /\ UNCHANGED <<record, lease, deadlinePassed, answer, unnoticed>>
      /\ pc[t] \in {"publish", "addRead"}
  BY DEF Publish, AddRead, store, failures
<1>2. overlapped = FALSE
  BY GotoAlone DEF Publish, AddRead
<1>3. record # NoElection /\ record.status = "OPEN" /\ seen \in [Tasks -> Elections \cup {NoElection}]
  BY <1>1, <1>2, AloneNow DEF Knows
<1>4. CASE Publish(t)
  <2>1. pc' = [pc EXCEPT ![t] = "addRead"]
    BY <1>4, GotoAlone DEF Publish
  <2>2. Knows("addRead", seen'[t], final'[t], record, deadlinePassed)
    BY <1>3 DEF Knows
  <2>. QED BY <1>1, <1>2, <2>1, <2>2, CarryAlone
<1>5. CASE AddRead(t)
  <2>1. pc' = [pc EXCEPT ![t] = "addWrite"] /\ seen' = [seen EXCEPT ![t] = record]
    BY <1>3, <1>5, GotoAlone DEF AddRead, Remember
  <2>2. Knows("addWrite", seen'[t], final'[t], record, deadlinePassed)
    BY <1>3, <2>1 DEF Knows
  <2>. QED BY <1>1, <1>2, <2>1, <2>2, CarryAlone
<1>. QED BY <1>4, <1>5

\* The document a vote is added to: it is open still, and was stored all along.
LEMMA AddedTo ==
  ASSUME EInv, Alone, overlapped = FALSE, NEW t \in Tasks, AddWrite(t)
  PROVE  /\ record \in Elections /\ record.status = "OPEN" /\ cast[t] \in Ballots
         /\ record' \in Elections /\ record' # NoElection
         /\ record'.votes = [record.votes EXCEPT ![cast[t].agent] = cast[t].decision]
         /\ record'.status = record.status /\ record'.result = record.result
         /\ lease' = lease /\ UNCHANGED <<deadlinePassed, answer, unnoticed>>
<1>1. /\ record # NoElection /\ record.status = "OPEN" /\ seen[t] = record
      /\ record \in Elections
  BY AloneNow DEF AddWrite, Knows
<1>2. cast[t] \in Ballots
  BY DEF AddWrite, EInv, Placed
<1>3. /\ record' = [record EXCEPT !.votes[cast[t].agent] = cast[t].decision]
      /\ lease' = lease
  BY <1>1 DEF AddWrite, WriteBack
<1>4. /\ record' \in Elections
      /\ record'.votes = [record.votes EXCEPT ![cast[t].agent] = cast[t].decision]
      /\ record'.status = record.status /\ record'.result = record.result
  BY <1>1, <1>2, <1>3 DEF Elections, Votes, Ballots
<1>. QED BY <1>1, <1>2, <1>3, <1>4, ElectionAssumption DEF AddWrite, failures

LEMMA AloneAddWrite ==
  ASSUME EInv, Alone, NEW t \in Tasks, AddWrite(t)
  PROVE  Alone'
<1>. SUFFICES ASSUME overlapped' = FALSE PROVE Alone'
  BY DEF Alone
<1>1. overlapped = FALSE /\ pc' = [pc EXCEPT ![t] = "resolve"] /\ pc[t] # "idle"
  BY GotoAlone DEF AddWrite
<1>2. /\ record # NoElection /\ record.status = "OPEN" /\ record' # NoElection
      /\ record'.status = record.status /\ record'.result = record.result
      /\ lease' = lease /\ UNCHANGED <<answer, unnoticed>>
  BY <1>1, AddedTo, ElectionAssumption
<1>3. Consistent(record', lease')
  BY <1>1, <1>2, AloneNow DEF Consistent
<1>4. Knows("resolve", seen'[t], final'[t], record', deadlinePassed')
  BY <1>2 DEF Knows
<1>5. unnoticed' = FALSE => Answered(answer', record')
  BY <1>1, <1>2, AloneNow DEF Answered
<1>. QED BY <1>1, <1>3, <1>4, <1>5, AloneStep

\* Where a task is that returns.
LEMMA ReturnsTo ==
  ASSUME NEW t \in Tasks, Return(t), overlapped' = FALSE
  PROVE  /\ overlapped = FALSE
         /\ \E next \in {"idle", "reread", "commit", "escalate"} : pc' = [pc EXCEPT ![t] = next]
<1>. DEFINE next == CASE t = "consumer" -> "commit"
                      [] t = "reader" -> "reread"
                      [] OTHER -> "idle"
<1>1. Goto(t, next)
  BY DEF Return
<1>2. next \in {"idle", "reread", "commit", "escalate"}
  OBVIOUS
<1>. HIDE DEF next
<1>. QED BY <1>1, <1>2, GotoAlone

LEMMA AloneResolve ==
  ASSUME EInv, Alone, NEW t \in Tasks, Resolve(t)
  PROVE  Alone'
<1>. SUFFICES ASSUME overlapped' = FALSE PROVE Alone'
  BY DEF Alone
<1>1. /\ UNCHANGED <<record, lease, deadlinePassed, answer, unnoticed>>
      /\ pc[t] = "resolve"
  BY DEF Resolve, store, failures
<1>2. CASE Return(t)
  BY <1>1, <1>2, ReturnsTo, RestAlone
<1>3. CASE /\ Verdict # "none"
           /\ ToWrite(t, [record EXCEPT !.status = "CLOSED", !.result = Verdict])
           /\ Goto(t, "statusRead")
  <2>. DEFINE doc == [record EXCEPT !.status = "CLOSED", !.result = Verdict]
  <2>1. overlapped = FALSE /\ pc' = [pc EXCEPT ![t] = "statusRead"]
    BY <1>3, GotoAlone
  <2>2. /\ record \in Elections /\ record # NoElection
        /\ record.status = "OPEN" \/ (record.status = "CLOSED" /\ record.result = "none")
    BY <1>1, <2>1, AloneNow DEF Knows
  <2>3. Verdict = Resolution(record.votes) /\ final'[t] = doc
    BY <1>3, <2>1, <2>2, AloneNow DEF Verdict, ToWrite
  <2>4. /\ doc \in Elections /\ doc.votes = record.votes
        /\ doc.status = "CLOSED" /\ doc.result = Verdict
    BY <2>2, <2>3, ResolutionIs DEF Elections
  <2>. HIDE DEF doc
  <2>5. Knows("statusRead", seen'[t], final'[t], record, deadlinePassed)
    BY <1>3, <2>2, <2>3, <2>4, ElectionAssumption DEF Knows, Brings
  <2>. QED BY <1>1, <2>1, <2>5, CarryAlone
<1>. QED BY <1>2, <1>3 DEF Resolve

-----------------------------------------------------------------------------
(* A decision is stored.                                                   *)

\* What a task that is about to store a decision knows.
LEMMA Decides ==
  ASSUME EInv, Alone, overlapped = FALSE, NEW t \in Tasks,
         pc[t] \in {"statusRead", "statusWrite", "save"}
  PROVE  /\ Brings(final[t], record, deadlinePassed)
         /\ record \in Elections /\ final[t] \in Elections
         /\ record # NoElection /\ final[t] # NoElection
         /\ pc[t] = "statusWrite" => seen[t] = record
BY AloneNow DEF Knows, Brings

\* A decision brought to a document that has its status already.
LEMMA BringsAgain ==
  ASSUME NEW fd, NEW doc, NEW new, NEW late, Brings(fd, doc, late),
         new # NoElection, new.votes = doc.votes, new.result = doc.result,
         new.status = fd.status, doc.status = "OPEN" => doc.result = "none"
  PROVE  Brings(fd, new, late)
BY DEF Brings

LEMMA AloneStatusRead ==
  ASSUME EInv, Alone, NEW t \in Tasks, StatusRead(t)
  PROVE  Alone'
<1>. SUFFICES ASSUME overlapped' = FALSE PROVE Alone'
  BY DEF Alone
<1>1. pc[t] = "statusRead" /\ UNCHANGED <<record, lease, deadlinePassed, unnoticed>>
  BY DEF StatusRead, store, failures
<1>2. overlapped = FALSE
  BY GotoAlone DEF StatusRead, EndStatus
<1>3. /\ Brings(final[t], record, deadlinePassed) /\ record # NoElection
      /\ seen \in [Tasks -> Elections \cup {NoElection}]
  BY <1>1, <1>2, Decides, AloneNow
<1>4. /\ pc' = [pc EXCEPT ![t] = "statusWrite"] /\ seen' = [seen EXCEPT ![t] = record]
      /\ final' = final /\ answer' = answer
  BY <1>3, GotoAlone DEF StatusRead, Remember
<1>5. Knows("statusWrite", seen'[t], final'[t], record, deadlinePassed)
  BY <1>3, <1>4 DEF Knows
<1>. QED BY <1>1, <1>2, <1>4, <1>5, CarryAlone

\* The document with the new status: the votes decide as before.
LEMMA StatusStored ==
  ASSUME EInv, Alone, overlapped = FALSE, NEW t \in Tasks, StatusWrite(t)
  PROVE  /\ record \in Elections /\ record # NoElection
         /\ record' \in Elections /\ record' # NoElection
         /\ record' = [record EXCEPT !.status = final[t].status]
         /\ record'.votes = record.votes /\ record'.result = record.result
         /\ record'.status = final[t].status
         /\ lease' = lease /\ UNCHANGED <<deadlinePassed, unnoticed>>
         /\ EndStatus(t)
<1>1. /\ Brings(final[t], record, deadlinePassed) /\ record \in Elections
      /\ final[t] \in Elections /\ record # NoElection /\ seen[t] = record
  BY Decides DEF StatusWrite
<1>2. record' = [record EXCEPT !.status = final[t].status] /\ lease' = lease
  BY <1>1 DEF StatusWrite, WriteBack
<1>3. /\ record' \in Elections /\ record'.votes = record.votes
      /\ record'.result = record.result /\ record'.status = final[t].status
  BY <1>1, <1>2 DEF Elections
<1>. QED BY <1>1, <1>2, <1>3, ElectionAssumption DEF StatusWrite, failures

LEMMA AloneStatusWrite ==
  ASSUME EInv, Alone, NEW t \in Tasks, StatusWrite(t)
  PROVE  Alone'
<1>. SUFFICES ASSUME overlapped' = FALSE PROVE Alone'
  BY DEF Alone
<1>1. overlapped = FALSE /\ pc[t] = "statusWrite"
  BY GotoAlone DEF StatusWrite, EndStatus
<1>2. /\ record \in Elections /\ record # NoElection /\ record' # NoElection
      /\ record'.votes = record.votes /\ record'.result = record.result
      /\ record'.status = final[t].status /\ lease' = lease
      /\ deadlinePassed' = deadlinePassed /\ unnoticed' = unnoticed
      /\ EndStatus(t)
  BY <1>1, StatusStored
<1>3. /\ Brings(final[t], record, deadlinePassed)
      /\ Consistent(record, lease)
      /\ unnoticed = FALSE => Answered(answer, record)
      /\ final \in [Tasks -> Elections \cup {NoElection}]
  BY <1>1, Decides, AloneNow
<1>4. Consistent(record', lease')
  BY <1>2, <1>3 DEF Consistent, Brings
<1>5. Brings(final[t], record', deadlinePassed')
  <2>1. record.status = "OPEN" => record.result = "none"
    BY <1>2, <1>3 DEF Consistent
  <2>2. Brings(final[t], record', deadlinePassed)
    BY <1>2, <1>3, <2>1, BringsAgain
  <2>. QED BY <1>2, <2>2
<1>6. CASE MarksOnly(t)
  <2>1. pc' = [pc EXCEPT ![t] = "idle"] /\ answer' = "DENY" /\ record'.status = "EXPIRED"
    <3>1. Goto(t, "idle") /\ answer' = "DENY"
      BY <1>2, <1>6, Zenon DEF EndStatus
    <3>2. final[t].status = "EXPIRED"
      BY <1>6 DEF MarksOnly
    <3>. QED BY <1>2, <3>1, <3>2, GotoAlone
  <2>2. Answered(answer', record')
    BY <1>2, <2>1, OutcomeCases DEF Answered
  <2>3. Knows("idle", seen'[t], final'[t], record', deadlinePassed')
    BY KnowsNothing
  <2>. QED BY <1>1, <1>4, <2>1, <2>2, <2>3, AloneStep
<1>7. CASE ~MarksOnly(t)
  <2>1. pc' = [pc EXCEPT ![t] = "save"] /\ answer' = answer /\ final' = final
    BY <1>2, <1>7, GotoAlone DEF EndStatus, Remember
  <2>2. Knows("save", seen'[t], final'[t], record', deadlinePassed')
    BY <1>5, <2>1 DEF Knows
  <2>3. ASSUME unnoticed' = FALSE PROVE Answered(answer', record')
    <3>1. CASE record.status = "OPEN"
      BY <1>2, <1>3, <2>1, <2>3, <3>1 DEF Answered
    <3>2. CASE record.status # "OPEN"
      <4>1. OutcomeOf(record') = OutcomeOf(record)
        BY <1>2, <1>3, <3>2, OutcomeCases DEF Brings
      <4>2. record'.status # "OPEN"
        BY <1>2, <1>3 DEF Brings
      <4>. QED BY <1>2, <1>3, <2>1, <2>3, <4>1, <4>2 DEF Answered
    <3>. QED BY <3>1, <3>2
  <2>. QED BY <1>1, <1>4, <2>1, <2>2, <2>3, AloneStep
<1>. QED BY <1>6, <1>7

LEMMA AloneSave ==
  ASSUME EInv, Alone, NEW t \in Tasks, Save(t)
  PROVE  Alone'
<1>. SUFFICES ASSUME overlapped' = FALSE PROVE Alone'
  BY DEF Alone
<1>1. /\ pc[t] = "save" /\ record' = final[t] /\ lease' = "default"
      /\ answer' = answer /\ unnoticed' = unnoticed
  BY DEF Save, failures
<1>2. /\ overlapped = FALSE
      /\ \E next \in {"idle", "reread", "commit", "escalate"} : pc' = [pc EXCEPT ![t] = next]
  BY ReturnsTo, GotoAlone DEF Save
<1>3. /\ Brings(final[t], record, deadlinePassed) /\ record # NoElection
      /\ unnoticed = FALSE => Answered(answer, record)
  BY <1>1, <1>2, Decides, AloneNow
<1>4. Consistent(record', lease')
  BY <1>1, <1>3, ResolutionIs DEF Consistent, Brings
<1>5. ASSUME unnoticed' = FALSE PROVE Answered(answer', record')
  <2>1. record'.status # "OPEN" /\ record' # NoElection
    BY <1>1, <1>3 DEF Brings
  <2>2. CASE record.status = "OPEN"
    BY <1>1, <1>3, <1>5, <2>2 DEF Answered
  <2>3. CASE record.status # "OPEN"
    <3>1. OutcomeOf(record') = OutcomeOf(record)
      BY <1>1, <1>3, <2>3, OutcomeCases DEF Brings
    <3>. QED BY <1>1, <1>3, <1>5, <2>1, <3>1 DEF Answered
  <2>. QED BY <2>2, <2>3
<1>6. PICK next \in {"idle", "reread", "commit", "escalate"} : pc' = [pc EXCEPT ![t] = next]
  BY <1>2
<1>7. Knows(next, seen'[t], final'[t], record', deadlinePassed')
  BY KnowsNothing
<1>. QED BY <1>1, <1>2, <1>4, <1>5, <1>6, <1>7, AloneStep

-----------------------------------------------------------------------------
(* The consumer, the checker and the reader.                               *)

LEMMA AloneConsumer ==
  ASSUME EInv, Alone, ConsumeEvent \/ Commit \/ ConsumerRestarts
  PROVE  Alone'
<1>. SUFFICES ASSUME overlapped' = FALSE PROVE Alone'
  BY DEF Alone
<1>1. /\ "consumer" \in Tasks
      /\ UNCHANGED <<record, lease, deadlinePassed, answer, unnoticed>>
  BY TaskNames DEF ConsumeEvent, Commit, ConsumerRestarts, store, failures
<1>2. CASE ConsumeEvent
  <2>1. PICK next \in {"commit", "validate"} :
          /\ Begin("consumer", next)
          /\ next = "validate" => record # NoElection
    BY <1>2 DEF ConsumeEvent, IsNews
  <2>2. Knows(next, seen'["consumer"], final'["consumer"], record, deadlinePassed)
    BY <2>1 DEF Knows
  <2>. QED BY <1>1, <2>1, <2>2, BeginAlone, CarryAlone
<1>3. CASE Commit
  BY <1>1, <1>3, GotoAlone, RestAlone DEF Commit
<1>4. CASE ConsumerRestarts
  <2>1. overlapped = FALSE /\ pc' = [pc EXCEPT !["consumer"] = "idle"]
    BY <1>4, GotoAlone DEF ConsumerRestarts
  <2>2. CASE pc["consumer"] # "idle"
    BY <1>1, <2>1, <2>2, RestAlone
  <2>3. CASE pc["consumer"] = "idle"
    <3>1. pc' = pc
      BY <1>1, <2>1, <2>3, AloneNow
    <3>2. \A t \in Tasks : pc[t] # "idle" => seen'[t] = seen[t] /\ final'[t] = final[t]
      BY <1>4, <2>1, <2>3, AloneNow DEF ConsumerRestarts, Forget
    <3>3. unnoticed' = FALSE => Answered(answer', record')
      BY <1>1, <2>1, AloneNow
    <3>. QED BY <1>1, <2>1, <3>1, <3>2, <3>3, StillAlone
  <2>. QED BY <2>2, <2>3
<1>. QED BY <1>2, <1>3, <1>4

\* The checker or the reader finds the election open after its deadline.
LEMMA AloneExpired ==
  ASSUME EInv, Alone, Check \/ GetExpired
  PROVE  Alone'
<1>. SUFFICES ASSUME overlapped' = FALSE PROVE Alone'
  BY DEF Alone
<1>1. PICK t \in {"checker", "reader"}, result \in {"DENY", record.result} :
        /\ Overdue
        /\ Begin(t, "statusRead")
        /\ ToWrite(t, [record EXCEPT !.status = "EXPIRED", !.result = result])
        /\ UNCHANGED <<record, lease, deadlinePassed, answer, unnoticed>>
  <2>1. CASE Check
    BY <2>1 DEF Check, store, failures
  <2>2. CASE GetExpired
    <3>1. record \in Elections
      BY <2>2 DEF GetExpired, Overdue, Open, EInv, TypeOK
    <3>2. [record EXCEPT !.status = "EXPIRED", !.result = record.result]
            = [record EXCEPT !.status = "EXPIRED"]
      BY <3>1 DEF Elections
    <3>. QED BY <2>2, <3>2 DEF GetExpired, store, failures
  <2>. QED BY <2>1, <2>2
<1>. DEFINE doc == [record EXCEPT !.status = "EXPIRED", !.result = result]
<1>2. /\ t \in Tasks /\ overlapped = FALSE /\ \A u \in Tasks : pc[u] = "idle"
      /\ pc' = [pc EXCEPT ![t] = "statusRead"]
  BY <1>1, TaskNames, BeginAlone
<1>3. /\ record \in Elections /\ record # NoElection /\ record.status = "OPEN"
      /\ record.result = "none" /\ deadlinePassed = TRUE
  <2>1. record # NoElection /\ record.status = "OPEN" /\ deadlinePassed = TRUE
    BY <1>1, Zenon DEF Overdue, Open, EInv, TypeOK
  <2>. QED BY <1>2, <2>1, AloneNow DEF Consistent
<1>4. /\ doc \in Elections /\ doc.votes = record.votes /\ doc.status = "EXPIRED"
      /\ doc.result \in {"none", "DENY"} /\ doc # NoElection
  BY <1>3, ElectionAssumption DEF Elections
<1>5. final'[t] = doc
  BY <1>1, <1>2, AloneNow DEF ToWrite
<1>. HIDE DEF doc
<1>6. Knows("statusRead", seen'[t], final'[t], record, deadlinePassed)
  BY <1>3, <1>4, <1>5 DEF Knows, Brings
<1>. QED BY <1>1, <1>2, <1>6, CarryAlone

LEMMA AloneEscalate ==
  ASSUME EInv, Alone, Escalate
  PROVE  Alone'
<1>. SUFFICES ASSUME overlapped' = FALSE PROVE Alone'
  BY DEF Alone
<1>1. /\ "checker" \in Tasks /\ pc["checker"] # "idle" /\ Goto("checker", "idle")
      /\ UNCHANGED <<record, lease, answer, unnoticed>>
  BY TaskNames DEF Escalate, store, failures
<1>. QED BY <1>1, GotoAlone, RestAlone

\* An answer that is given is the outcome.
LEMMA AnswerIs ==
  ASSUME EInv, Alone, overlapped = FALSE, overlapped' = FALSE,
         GetResult \/ Reread, answer' # answer
  PROVE  /\ record \in Elections /\ record # NoElection /\ record.status # "OPEN"
         /\ answer' = OutcomeOf(record)
<1>1. CASE GetResult
  BY <1>1, AloneNow, OutcomeCases DEF GetResult
<1>2. CASE Reread
  <2>1. record # NoElection /\ record.result # "none" /\ answer' = record.result
    BY <1>2 DEF Reread
  <2>2. record \in Elections /\ Consistent(record, lease)
    BY <2>1, AloneNow
  <2>. QED BY <2>1, <2>2, DocumentFields, OutcomeCases DEF Consistent
<1>. QED BY <1>1, <1>2

LEMMA AloneReader ==
  ASSUME EInv, Alone, GetResult \/ Reread
  PROVE  Alone'
<1>. SUFFICES ASSUME overlapped' = FALSE PROVE Alone'
  BY DEF Alone
<1>1. UNCHANGED <<record, lease, deadlinePassed, unnoticed>> /\ "reader" \in Tasks
  BY TaskNames DEF GetResult, Reread, store, failures
<1>2. overlapped = FALSE
  BY <1>1, GotoAlone, BeginAlone DEF GetResult, Reread, locals
<1>3. unnoticed' = FALSE => Answered(answer', record')
  <2>1. CASE answer' = answer
    BY <1>1, <1>2, <2>1, AloneNow
  <2>2. CASE answer' # answer
    BY <1>1, <1>2, <2>2, AnswerIs DEF Answered
  <2>. QED BY <2>1, <2>2
<1>4. CASE UNCHANGED <<locals, overlapped>>
  BY <1>1, <1>2, <1>3, <1>4, StillAlone DEF locals
<1>5. CASE /\ record.status = "CLOSED" /\ record.result = "none" /\ record # NoElection
           /\ Begin("reader", "resolve") /\ UNCHANGED <<seen, final, answer>>
  <2>1. Knows("resolve", seen'["reader"], final'["reader"], record, deadlinePassed)
    BY <1>5 DEF Knows
  <2>. QED BY <1>1, <1>2, <1>5, <2>1, BeginAlone, CarryAlone
<1>6. CASE Reread
  <2>1. pc' = [pc EXCEPT !["reader"] = "idle"] /\ pc["reader"] # "idle"
    BY <1>6, GotoAlone DEF Reread
  <2>2. Knows("idle", seen'["reader"], final'["reader"], record', deadlinePassed')
    BY KnowsNothing
  <2>3. Consistent(record', lease')
    BY <1>1, <1>2, AloneNow
  <2>. QED BY <1>1, <1>2, <1>3, <2>1, <2>2, <2>3, AloneStep
<1>. QED BY <1>4, <1>5, <1>6 DEF GetResult

-----------------------------------------------------------------------------
(* Time and failures.                                                      *)

LEMMA AloneTime ==
  ASSUME EInv, Alone, DeadlinePasses \/ KeyExpires
  PROVE  Alone'
<1>. SUFFICES ASSUME overlapped' = FALSE PROVE Alone'
  BY DEF Alone
<1>1. CASE DeadlinePasses
  <2>1. /\ UNCHANGED <<record, lease, answer, unnoticed, pc, seen, final, overlapped>>
        /\ deadlinePassed' = TRUE
    BY <1>1 DEF DeadlinePasses, store, locals, failures
  <2>2. unnoticed' = FALSE => Answered(answer', record')
    BY <2>1, AloneNow
  <2>. QED BY <2>1, <2>2, StillAlone
<1>2. CASE KeyExpires
  <2>1. record' = NoElection /\ pc' = pc /\ overlapped' = (overlapped \/ Busy # {})
    BY <1>2 DEF KeyExpires, locals
  <2>2. Busy = {}
    BY <2>1, Zenon
  <2>3. \A t \in Tasks : pc'[t] = "idle"
    BY <2>1, <2>2 DEF Busy
  <2>4. \A t \in Tasks : Knows(pc'[t], seen'[t], final'[t], record', deadlinePassed')
    BY <2>3 DEF Knows
  <2>5. Consistent(record', lease') /\ Answered(answer', record')
    BY <2>1 DEF Consistent, Answered
  <2>. QED BY <2>3, <2>4, <2>5 DEF Alone
<1>. QED BY <1>1, <1>2

LEMMA AloneAbort ==
  ASSUME EInv, Alone, NEW t \in Tasks, Abort(t)
  PROVE  Alone'
<1>. SUFFICES ASSUME overlapped' = FALSE PROVE Alone'
  BY DEF Alone
<1>1. /\ pc[t] # "idle" /\ Goto(t, "idle")
      /\ UNCHANGED <<record, lease, answer, unnoticed>>
  BY DEF Abort, store
<1>. QED BY <1>1, GotoAlone, RestAlone

LEMMA AloneStoreFails ==
  ASSUME EInv, Alone, NEW t \in Tasks, StoreFails(t)
  PROVE  Alone'
<1>. SUFFICES ASSUME overlapped' = FALSE PROVE Alone'
  BY DEF Alone
<1>1. unnoticed' = TRUE /\ UNCHANGED <<record, lease, deadlinePassed>>
  BY DEF StoreFails, store
<1>2. CASE pc[t] \in {"addRead", "addWrite"} /\ Goto(t, "resolve")
  <2>1. overlapped = FALSE /\ pc' = [pc EXCEPT ![t] = "resolve"]
    BY <1>2, GotoAlone
  <2>2. Knows("resolve", seen'[t], final'[t], record', deadlinePassed')
    BY <1>1, <1>2, <2>1, AloneNow DEF Knows
  <2>3. Consistent(record', lease')
    BY <1>1, <2>1, AloneNow
  <2>. QED BY <1>1, <1>2, <2>1, <2>2, <2>3, AloneStep
<1>3. CASE pc[t] \in {"resolve", "save"} /\ Return(t)
  BY <1>1, <1>3, ReturnsTo, RestAlone
<1>4. CASE pc[t] = "save" /\ Goto(t, "escalate")
  BY <1>1, <1>4, GotoAlone, RestAlone
<1>5. CASE pc[t] \in {"statusRead", "statusWrite"} /\ EndStatus(t)
  <2>1. CASE MarksOnly(t)
    <3>1. Goto(t, "idle")
      BY <1>5, <2>1, Zenon DEF EndStatus
    <3>. QED BY <1>1, <1>5, <3>1, GotoAlone, RestAlone
  <2>2. CASE ~MarksOnly(t)
    <3>1. Goto(t, "save") /\ final' = final
      BY <1>5, <2>2, Zenon DEF EndStatus, Remember
    <3>2. overlapped = FALSE /\ pc' = [pc EXCEPT ![t] = "save"]
      BY <3>1, GotoAlone
    <3>3. Knows("save", seen'[t], final'[t], record', deadlinePassed')
      BY <1>1, <1>5, <3>1, <3>2, AloneNow DEF Knows
    <3>4. Consistent(record', lease')
      BY <1>1, <3>2, AloneNow
    <3>. QED BY <1>1, <1>5, <3>2, <3>3, <3>4, AloneStep
  <2>. QED BY <2>1, <2>2
<1>6. CASE pc[t] = "validate" /\ Goto(t, "commit")
  BY <1>1, <1>6, GotoAlone, RestAlone
<1>7. CASE Begin(t, "commit")
  BY <1>1, <1>7, BeginAlone, RestAlone
<1>. QED BY <1>2, <1>3, <1>4, <1>5, <1>6, <1>7 DEF StoreFails

-----------------------------------------------------------------------------
(* The invariant, and the ballot step by step.                             *)

LEMMA InitAlone == Init => Alone
<1>. SUFFICES ASSUME Init PROVE Alone
  OBVIOUS
<1>1. /\ record # NoElection /\ record.status = "OPEN" /\ record.result = "none"
      /\ lease = "deadline" /\ answer = "none" /\ \A t \in Tasks : pc[t] = "idle"
  BY ElectionAssumption DEF Init, Elections, Votes, NoVotes
<1>2. \A t \in Tasks : Knows(pc[t], seen[t], final[t], record, deadlinePassed)
  BY <1>1 DEF Knows
<1>3. Consistent(record, lease) /\ Answered(answer, record)
  BY <1>1 DEF Consistent, Answered
<1>. QED BY <1>1, <1>2, <1>3 DEF Alone

LEMMA NextAlone ==
  ASSUME EInv, Alone, [Next]_vars
  PROVE  Alone'
<1>1. ASSUME UNCHANGED vars PROVE Alone'
  <2>1. UNCHANGED <<record, lease, deadlinePassed, pc, seen, final, answer,
                    overlapped, unnoticed>>
    BY <1>1 DEF vars, store, locals, failures
  <2>. SUFFICES ASSUME overlapped' = FALSE PROVE Alone'
    BY DEF Alone
  <2>2. unnoticed' = FALSE => Answered(answer', record')
    BY <2>1, AloneNow
  <2>. QED BY <2>1, <2>2, StillAlone
<1>2. ASSUME NEW t \in Tasks, Step(t) PROVE Alone'
  BY <1>2, AlonePublish, AloneAddWrite, AloneResolve, AloneStatusRead, AloneStatusWrite,
     AloneSave, Zenon DEF Step
<1>. QED BY <1>1, <1>2, TaskNames, AloneCastVote, AloneValidate, AloneConsumer, AloneExpired,
       AloneEscalate, AloneReader, AloneTime, AloneAbort, AloneStoreFails,
       Zenon DEF Next, Consumer, Checker, Reader

\* The inductive invariant holds of every behaviour.
THEOREM AloneHolds == Spec => [](EInv /\ Alone)
<1>1. Init => EInv /\ Alone
  BY InitEInv, InitAlone
<1>2. EInv /\ Alone /\ [Next]_vars => (EInv /\ Alone)'
  BY NextEInv, NextAlone
<1>. QED BY <1>1, <1>2, PTL DEF Spec

\* Votes that the store holds.
Held(doc) == IF doc = NoElection THEN NoVotes ELSE doc.votes

LEMMA OutcomeBoth ==
  /\ EInv => Outcome = OutcomeOf(record)
  /\ EInv' => Outcome' = OutcomeOf(record')
<1>1. EInv => Outcome = OutcomeOf(record)
  BY OutcomeIs DEF EInv, TypeOK
<1>2. (EInv => Outcome = OutcomeOf(record))'
  BY <1>1, PTL
<1>. QED BY <1>1, <1>2

\* The ballot counts by the same rules.
LEMMA SameRules ==
  ASSUME NEW V
  PROVE  AsBallot!Resolution(V) = Resolution(V)
<1>1. AsBallot!Approves(V) <=> Approves(V)
  BY DEF Approves, AsBallot!Approves, WeightFor, AsBallot!WeightFor, Total, AsBallot!Total
<1>2. AsBallot!Denies(V) <=> Denies(V)
  BY DEF Denies, AsBallot!Denies, WeightFor, AsBallot!WeightFor, Total, AsBallot!Total
<1>. QED BY <1>1, <1>2 DEF Resolution, AsBallot!Resolution

\* The step, as the ballot sees it.
LEMMA BallotSees ==
  ASSUME EInv, EInv',
         \/ /\ UNCHANGED deadlinePassed
            /\ Held(record') = Held(record)
            /\ OutcomeOf(record') = OutcomeOf(record)
         \/ /\ deadlinePassed' = TRUE /\ record' = record
         \/ /\ UNCHANGED deadlinePassed
            /\ OutcomeOf(record) = "open"
            /\ \/ /\ \E a \in Agents, decision \in Decisions :
                       Held(record') = [Held(record) EXCEPT ![a] = decision]
                  /\ OutcomeOf(record') = "open"
               \/ /\ Held(record') = Held(record)
                  /\ Resolution(Held(record)) # "none"
                  /\ OutcomeOf(record') = Resolution(Held(record))
               \/ /\ Held(record') = Held(record)
                  /\ deadlinePassed = TRUE /\ OutcomeOf(record') = "DENY"
         \/ /\ UNCHANGED deadlinePassed
            /\ deadlinePassed = TRUE \/ OutcomeOf(record) # "open"
            /\ record' = NoElection
  PROVE  AsBallot!Next \/ UNCHANGED AsBallot!vars
<1>1. /\ Outcome = OutcomeOf(record)
      /\ Outcome' = OutcomeOf(record')
  BY OutcomeBoth
<1>. DEFINE counted == IF record = NoElection THEN NoVotes ELSE record.votes
<1>2. counted = Held(record) /\ counted' = Held(record')
  BY DEF Held
<1>3. AsBallot!vars = <<counted, Outcome, deadlinePassed>>
      /\ AsBallot!vars' = <<counted', Outcome', deadlinePassed'>>
  BY DEF AsBallot!vars
<1>4. AsBallot!Next <=>
        \/ \E a \in Agents, decision \in Decisions :
             /\ Outcome = "open" /\ counted' = [counted EXCEPT ![a] = decision]
             /\ UNCHANGED <<Outcome, deadlinePassed>>
        \/ /\ Outcome = "open" /\ Resolution(counted) # "none"
           /\ Outcome' = Resolution(counted)
           /\ UNCHANGED <<counted, deadlinePassed>>
        \/ /\ Outcome = "open" /\ deadlinePassed /\ Outcome' = "DENY"
           /\ UNCHANGED <<counted, deadlinePassed>>
        \/ deadlinePassed' = TRUE /\ UNCHANGED <<counted, Outcome>>
        \/ /\ deadlinePassed \/ Outcome # "open"
           /\ Outcome' = "gone" /\ counted' = NoVotes
           /\ UNCHANGED deadlinePassed
  BY SameRules DEF AsBallot!Next, AsBallot!Count, AsBallot!Decide, AsBallot!Expire,
     AsBallot!DeadlinePasses, AsBallot!Forget, AsBallot!NoVotes, NoVotes
<1>5. OutcomeOf(NoElection) = "gone" /\ Held(NoElection) = NoVotes
  BY OutcomeCases DEF Held
<1>. HIDE DEF counted
<1>6. CASE /\ UNCHANGED deadlinePassed
           /\ Held(record') = Held(record)
           /\ OutcomeOf(record') = OutcomeOf(record)
  BY <1>1, <1>2, <1>3, <1>6
<1>7. CASE deadlinePassed' = TRUE /\ record' = record
  BY <1>1, <1>2, <1>4, <1>7
<1>8. CASE /\ UNCHANGED deadlinePassed
           /\ OutcomeOf(record) = "open"
           /\ \/ /\ \E a \in Agents, decision \in Decisions :
                       Held(record') = [Held(record) EXCEPT ![a] = decision]
                 /\ OutcomeOf(record') = "open"
              \/ /\ Held(record') = Held(record)
                 /\ Resolution(Held(record)) # "none"
                 /\ OutcomeOf(record') = Resolution(Held(record))
              \/ /\ Held(record') = Held(record)
                 /\ deadlinePassed = TRUE /\ OutcomeOf(record') = "DENY"
  BY <1>1, <1>2, <1>4, <1>8
<1>9. CASE /\ UNCHANGED deadlinePassed
           /\ deadlinePassed = TRUE \/ OutcomeOf(record) # "open"
           /\ record' = NoElection
  BY <1>1, <1>2, <1>4, <1>5, <1>9
<1>. QED BY <1>6, <1>7, <1>8, <1>9

LEMMA BallotAddWrite ==
  ASSUME EInv, EInv', Alone, overlapped' = FALSE, NEW t \in Tasks, AddWrite(t)
  PROVE  AsBallot!Next \/ UNCHANGED AsBallot!vars
<1>1. overlapped = FALSE
  BY GotoAlone DEF AddWrite
<1>2. /\ record # NoElection /\ record.status = "OPEN" /\ cast[t] \in Ballots /\ record' # NoElection
      /\ record'.votes = [record.votes EXCEPT ![cast[t].agent] = cast[t].decision]
      /\ record'.status = record.status /\ UNCHANGED deadlinePassed
  BY <1>1, AddedTo, ElectionAssumption
<1>3. OutcomeOf(record) = "open" /\ OutcomeOf(record') = "open"
  BY <1>2, OutcomeCases
<1>4. /\ cast[t].agent \in Agents /\ cast[t].decision \in Decisions
      /\ Held(record') = [Held(record) EXCEPT ![cast[t].agent] = cast[t].decision]
  BY <1>2 DEF Held, Ballots
<1>. QED BY <1>2, <1>3, <1>4, BallotSees

LEMMA BallotStatusWrite ==
  ASSUME EInv, EInv', Alone, overlapped' = FALSE, NEW t \in Tasks, StatusWrite(t)
  PROVE  AsBallot!Next \/ UNCHANGED AsBallot!vars
<1>1. overlapped = FALSE /\ pc[t] = "statusWrite"
  BY GotoAlone DEF StatusWrite, EndStatus
<1>2. /\ record # NoElection /\ record' # NoElection
      /\ record'.votes = record.votes /\ record'.result = record.result
      /\ record'.status = final[t].status /\ UNCHANGED deadlinePassed
  BY <1>1, StatusStored
<1>3. /\ Brings(final[t], record, deadlinePassed)
      /\ record.status = "OPEN" => record.result = "none"
  BY <1>1, <1>2, Decides, AloneNow DEF Consistent
<1>4. Held(record') = Held(record) /\ Held(record) = record.votes
  BY <1>2 DEF Held
<1>5. CASE record.status = "OPEN" /\ final[t].status = "CLOSED"
  <2>1. /\ OutcomeOf(record) = "open" /\ Resolution(record.votes) # "none"
        /\ OutcomeOf(record') = Resolution(record.votes)
    BY <1>2, <1>3, <1>5, OutcomeCases DEF Brings
  <2>. QED BY <1>2, <1>4, <2>1, BallotSees
<1>6. CASE record.status = "OPEN" /\ final[t].status = "EXPIRED"
  <2>1. /\ OutcomeOf(record) = "open" /\ OutcomeOf(record') = "DENY"
        /\ deadlinePassed = TRUE
    BY <1>2, <1>3, <1>6, OutcomeCases DEF Brings
  <2>. QED BY <1>2, <1>4, <2>1, BallotSees
<1>7. CASE record.status # "OPEN"
  <2>1. OutcomeOf(record') = OutcomeOf(record)
    BY <1>2, <1>3, <1>7, OutcomeCases DEF Brings
  <2>. QED BY <1>2, <1>4, <2>1, BallotSees
<1>. QED BY <1>3, <1>5, <1>6, <1>7 DEF Brings

LEMMA BallotSave ==
  ASSUME EInv, EInv', Alone, overlapped' = FALSE, NEW t \in Tasks, Save(t)
  PROVE  AsBallot!Next \/ UNCHANGED AsBallot!vars
<1>1. overlapped = FALSE /\ pc[t] = "save"
  BY ReturnsTo, GotoAlone DEF Save
<1>2. /\ record' = final[t] /\ UNCHANGED deadlinePassed
      /\ Brings(final[t], record, deadlinePassed)
  BY <1>1, Decides DEF Save
<1>3. Held(record') = Held(record) /\ Held(record) = record.votes
  BY <1>2 DEF Held, Brings
<1>4. CASE record.status = "OPEN" /\ final[t].status = "CLOSED"
  <2>1. /\ OutcomeOf(record) = "open" /\ Resolution(record.votes) # "none"
        /\ OutcomeOf(record') = Resolution(record.votes)
    BY <1>2, <1>4, OutcomeCases DEF Brings
  <2>. QED BY <1>2, <1>3, <2>1, BallotSees
<1>5. CASE record.status = "OPEN" /\ final[t].status = "EXPIRED"
  <2>1. /\ OutcomeOf(record) = "open" /\ OutcomeOf(record') = "DENY"
        /\ deadlinePassed = TRUE
    BY <1>2, <1>5, OutcomeCases DEF Brings
  <2>. QED BY <1>2, <1>3, <2>1, BallotSees
<1>6. CASE record.status # "OPEN"
  <2>1. OutcomeOf(record') = OutcomeOf(record)
    BY <1>2, <1>6, OutcomeCases DEF Brings
  <2>. QED BY <1>2, <1>3, <2>1, BallotSees
<1>. QED BY <1>2, <1>4, <1>5, <1>6 DEF Brings

LEMMA BallotTime ==
  ASSUME EInv, EInv', Alone, overlapped' = FALSE, DeadlinePasses \/ KeyExpires
  PROVE  AsBallot!Next \/ UNCHANGED AsBallot!vars
<1>1. CASE DeadlinePasses
  BY <1>1, BallotSees DEF DeadlinePasses, store
<1>2. CASE KeyExpires
  <2>1. /\ record' = NoElection /\ record # NoElection
        /\ lease = "default" \/ deadlinePassed
        /\ overlapped' = (overlapped \/ Busy # {}) /\ UNCHANGED deadlinePassed
    BY <1>2, Zenon DEF KeyExpires
  <2>2. overlapped = FALSE
    BY <2>1, Zenon DEF EInv, TypeOK
  <2>3. deadlinePassed \in BOOLEAN
    BY Zenon DEF EInv, TypeOK
  <2>4. CASE lease = "default"
    <3>1. record \in Elections /\ record.status # "OPEN"
      BY <2>1, <2>2, <2>4, AloneNow DEF Consistent
    <3>2. OutcomeOf(record) # "open"
      BY <2>1, <3>1, DocumentFields, OutcomeCases, ResolutionIs
    <3>. QED BY <2>1, <3>2, BallotSees
  <2>5. CASE deadlinePassed = TRUE
    BY <2>1, <2>5, BallotSees
  <2>. QED BY <2>1, <2>3, <2>4, <2>5, Zenon
<1>. QED BY <1>1, <1>2

\* What the ballot does not see.
LEMMA Unseen ==
  ASSUME EInv, EInv', UNCHANGED <<record, deadlinePassed>>
  PROVE  AsBallot!Next \/ UNCHANGED AsBallot!vars
<1>1. record' = record /\ deadlinePassed' = deadlinePassed
  OBVIOUS
<1>. QED BY <1>1, BallotSees

LEMMA NextBallot ==
  ASSUME EInv, EInv', Alone, [Next]_vars, overlapped' = FALSE
  PROVE  AsBallot!Next \/ UNCHANGED AsBallot!vars
<1>1. ASSUME NEW t \in Tasks, Step(t)
      PROVE  \/ AddWrite(t) \/ StatusWrite(t) \/ Save(t)
             \/ UNCHANGED <<record, deadlinePassed>>
  BY <1>1 DEF Step, Publish, AddRead, Resolve, StatusRead, store
<1>2. ASSUME NEW t \in Tasks, Step(t)
      PROVE  AsBallot!Next \/ UNCHANGED AsBallot!vars
  BY <1>1, <1>2, BallotAddWrite, BallotStatusWrite, BallotSave, Unseen
<1>3. ASSUME NEW c \in Callers, NEW a \in Agents, NEW decision \in Decisions,
             CastVote(c, a, decision)
      PROVE  UNCHANGED <<record, deadlinePassed>>
  BY <1>3 DEF CastVote, store
<1>4. ASSUME \/ ConsumeEvent \/ Validate \/ Commit \/ ConsumerRestarts \/ Check \/ Escalate
             \/ GetResult \/ GetExpired \/ Reread \/ UNCHANGED vars
      PROVE  UNCHANGED <<record, deadlinePassed>>
  BY <1>4 DEF ConsumeEvent, Validate, Commit, ConsumerRestarts, Check, Escalate, GetResult,
     GetExpired, Reread, vars, store
<1>5. ASSUME NEW t \in Tasks, Abort(t) \/ StoreFails(t)
      PROVE  UNCHANGED <<record, deadlinePassed>>
  BY <1>5 DEF Abort, StoreFails, store
<1>. QED BY <1>2, <1>3, <1>4, <1>5, BallotTime, Unseen, TaskNames,
       Zenon DEF Next, Consumer, Checker, Reader

\* As long as operations do not overlap, an election is a ballot: no vote is
\* lost or added late, and it is decided once.
THEOREM ImplementsBallot == Spec => KeepsBallot
<1>1. Init => AsBallot!Init
  <2>. SUFFICES ASSUME Init PROVE AsBallot!Init
    OBVIOUS
  <2>1. /\ record \in Elections /\ record # NoElection /\ record.votes = NoVotes
        /\ record.status = "OPEN" /\ deadlinePassed = FALSE
    BY ElectionAssumption DEF Init, Elections, Votes, NoVotes
  <2>2. Outcome = "open"
    BY <2>1, OutcomeIs, OutcomeCases
  <2>. QED BY <2>1, <2>2 DEF AsBallot!Init, AsBallot!NoVotes, NoVotes
<1>2. EInv /\ Alone /\ (EInv /\ Alone)' /\ [Next]_vars =>
        [overlapped' \/ AsBallot!Next]_(AsBallot!vars)
  <2>. SUFFICES ASSUME EInv, Alone, EInv', [Next]_vars
                PROVE  overlapped' \/ AsBallot!Next \/ UNCHANGED AsBallot!vars
    OBVIOUS
  <2>1. overlapped' = TRUE \/ overlapped' = FALSE
    BY Zenon DEF EInv, TypeOK
  <2>. QED BY <2>1, NextBallot, Zenon
<1>. QED BY <1>1, <1>2, AloneHolds, PTL DEF Spec, KeepsBallot

\* get_result does not take back what it said.
THEOREM AnswersStand == Spec => AnswersAgree
<1>1. EInv /\ Alone /\ (EInv /\ Alone)' /\ [Next]_vars =>
        [answer # "none" /\ answer' # answer => overlapped' \/ unnoticed']_vars
  <2>. SUFFICES ASSUME EInv, Alone, EInv', [Next]_vars,
                       answer # "none", answer' # answer
                PROVE  overlapped' \/ unnoticed'
    OBVIOUS
  <2>0. /\ overlapped' = TRUE \/ overlapped' = FALSE
        /\ unnoticed' = TRUE \/ unnoticed' = FALSE
    BY Zenon DEF EInv, TypeOK
  <2>. SUFFICES ASSUME overlapped' = FALSE, unnoticed' = FALSE
                PROVE  FALSE
    BY <2>0, Zenon
  <2>1. ASSUME GetResult \/ Reread
        PROVE  FALSE
    <3>1. overlapped = FALSE /\ unnoticed = FALSE
      BY <2>1, GotoAlone, BeginAlone, TaskNames DEF GetResult, Reread, failures, locals
    <3>2. /\ record # NoElection /\ record.status # "OPEN"
          /\ answer' = OutcomeOf(record)
      BY <2>1, <3>1, AnswerIs
    <3>. QED BY <3>1, <3>2, AloneNow DEF Answered
  <2>2. ASSUME NEW t \in Tasks, StatusRead(t) \/ StatusWrite(t)
        PROVE  FALSE
    <3>1. /\ overlapped = FALSE /\ unnoticed = FALSE
          /\ pc[t] \in {"statusRead", "statusWrite"}
      BY <2>2, GotoAlone DEF StatusRead, StatusWrite, EndStatus, failures
    <3>2. /\ Brings(final[t], record, deadlinePassed) /\ record # NoElection
          /\ Answered(answer, record)
      BY <3>1, Decides, AloneNow
    <3>3. EndStatus(t) /\ MarksOnly(t) /\ answer' = "DENY"
      <4>1. EndStatus(t)
        BY <2>2, <3>2, Zenon DEF StatusRead, StatusWrite
      <4>. QED BY <4>1, Zenon DEF EndStatus
    <3>4. final[t].status = "EXPIRED"
      BY <3>3 DEF MarksOnly
    <3>5. record.status = "EXPIRED"
      BY <3>2, <3>4 DEF Brings, Answered
    <3>. QED BY <3>2, <3>3, <3>5, OutcomeCases DEF Answered
  <2>3. ASSUME NEW t \in Tasks, Step(t)
        PROVE  FALSE
    BY <2>2, <2>3 DEF Step, Publish, AddRead, AddWrite, Resolve, Save
  <2>4. ASSUME NEW c \in Callers, NEW a \in Agents, NEW decision \in Decisions,
               CastVote(c, a, decision)
        PROVE  FALSE
    BY <2>4 DEF CastVote
  <2>5. ASSUME \/ ConsumeEvent \/ Validate \/ Commit \/ ConsumerRestarts \/ Check
               \/ Escalate \/ GetExpired \/ DeadlinePasses \/ KeyExpires \/ UNCHANGED vars
        PROVE  FALSE
    BY <2>5 DEF ConsumeEvent, Validate, Commit, ConsumerRestarts, Check, Escalate,
       GetExpired, DeadlinePasses, KeyExpires, vars
  <2>6. ASSUME NEW t \in Tasks, Abort(t) \/ StoreFails(t)
        PROVE  FALSE
    BY <2>6 DEF Abort, StoreFails
  <2>. QED BY <2>1, <2>3, <2>4, <2>5, <2>6, TaskNames, Zenon DEF Next, Consumer, Checker, Reader
<1>. QED BY <1>1, AloneHolds, PTL DEF Spec, AnswersAgree

=============================================================================
