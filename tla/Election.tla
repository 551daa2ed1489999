------------------------------ MODULE Election ------------------------------
(***************************************************************************)
(* One election of the deliberation layer: VotingService.cast_vote and     *)
(* get_result, the Kafka VoteEventConsumer and the TimeoutChecker, all of  *)
(* them tasks that read and write one JSON document under one Redis key.   *)
(*                                                                         *)
(* Every call to Redis or Kafka is a step of its own: the store has no     *)
(* transaction, an update is a get, a ttl and a setex.  The remaining time *)
(* to live is abstracted to what it was taken from (lease); its rounding   *)
(* to seconds, and the process-local elections kept when Redis was out of  *)
(* reach at creation, are left out.  An agent may vote again, and differ-  *)
(* ently: the document keeps the vote that was written last.               *)
(***************************************************************************)
EXTENDS VotingRules, Sequences, FiniteSets

CONSTANTS
    Callers,        \* the tasks that call cast_vote, one call at a time each
    NoElection,     \* get() found no key
    NoBallot,       \* the task casts no vote
    MaxActive,      \* bound: operations in progress at once
    MaxBallots,     \* bound: calls of cast_vote
    MaxEvents,      \* bound: events published on the vote topic
    MaxFaults       \* bound: tasks that fail or are restarted

Elections == [votes : Votes, status : {"OPEN", "CLOSED", "EXPIRED"},
              result : {"none", "APPROVE", "DENY"}]

\* A vote, and the event that is published for it.
Ballots == [agent : Agents, decision : Decisions]

ASSUME ElectionAssumption ==
    /\ NoElection \notin Elections
    /\ NoBallot \notin Ballots
    /\ Callers \cap {"consumer", "checker", "reader"} = {}
    /\ MaxActive \in Nat /\ MaxBallots \in Nat
    /\ MaxEvents \in Nat /\ MaxFaults \in Nat

VARIABLES
    \* Redis
    record,         \* the document: votes, status, result
    lease,          \* what the key's TTL was set from: the election's own
                    \* timeout ("deadline") or the default one ("default")
    deadlinePassed, \* now > expires_at
    \* Kafka
    topic,          \* vote events, oldest first
    position,       \* the consumer's position in the topic
    committed,      \* the offset it committed
    \* tasks: cast_vote calls, the consumer, the checker, a get_result call
    pc,             \* the call a task is about to make
    cast,           \* the vote it is casting
    seen,           \* the document it is going to write back
    final,          \* the resolved snapshot, or the one that expired
    \* histories and bounds
    said,           \* the decisions each agent has voted for
    earned,         \* what the votes in the store have come to
    ballots,        \* cast_vote calls so far
    answer,         \* the last decision get_result returned
    overlapped,     \* two operations have overlapped
    unnoticed,      \* a call to the store failed and its caller went on
    faults

store  == <<record, lease>>
kafka  == <<topic, position, committed>>
locals == <<pc, cast, seen, final>>
failures == <<unnoticed, faults>>
histories == <<said, earned, ballots>>
vars == <<store, deadlinePassed, kafka, locals, histories, answer,
          overlapped, failures>>

Tasks == Callers \cup {"consumer", "checker", "reader"}

Calls == {"idle", "publish", "validate", "addRead", "addWrite", "resolve",
          "statusRead", "statusWrite", "save", "escalate", "reread", "commit"}

TypeOK ==
    /\ record \in Elections \cup {NoElection}
    /\ lease \in {"deadline", "default"}
    /\ deadlinePassed \in BOOLEAN /\ overlapped \in BOOLEAN
    /\ unnoticed \in BOOLEAN
    /\ topic \in Seq(Ballots)
    /\ position \in 0..Len(topic) /\ committed \in 0..position
    /\ pc \in [Tasks -> Calls]
    /\ cast \in [Tasks -> Ballots \cup {NoBallot}]
    /\ seen \in [Tasks -> Elections \cup {NoElection}]
    /\ final \in [Tasks -> Elections \cup {NoElection}]
    /\ said \in [Agents -> SUBSET Decisions]
    /\ earned \subseteq {"none", "APPROVE", "DENY"}
    /\ ballots \in 0..MaxBallots
    /\ answer \in {"none", "APPROVE", "DENY"}
    /\ faults \in 0..MaxFaults

NoVotes == [a \in Agents |-> "none"]

\* create_election: the key lives as long as the election.
Init ==
    /\ record = [votes |-> NoVotes, status |-> "OPEN", result |-> "none"]
    /\ lease = "deadline"
    /\ deadlinePassed = FALSE
    /\ topic = <<>> /\ position = 0 /\ committed = 0
    /\ pc = [t \in Tasks |-> "idle"]
    /\ cast = [t \in Tasks |-> NoBallot]
    /\ seen = [t \in Tasks |-> NoElection]
    /\ final = [t \in Tasks |-> NoElection]
    /\ said = [a \in Agents |-> {}]
    /\ earned = {Resolution(NoVotes)} /\ ballots = 0
    /\ answer = "none"
    /\ overlapped = FALSE /\ unnoticed = FALSE /\ faults = 0

-----------------------------------------------------------------------------
(* Steps of a task.                                                        *)

Busy == {t \in Tasks : pc[t] # "idle"}

\* A task starts an operation with the call next to follow its first read.
Begin(t, next) ==
    /\ pc[t] = "idle"
    /\ Cardinality(Busy) < MaxActive
    /\ pc' = [pc EXCEPT ![t] = next]
    /\ overlapped' = (overlapped \/ Busy # {})

Goto(t, next) == pc' = [pc EXCEPT ![t] = next] /\ UNCHANGED overlapped

Remember(t, doc) == seen' = [seen EXCEPT ![t] = doc] /\ UNCHANGED <<cast, final>>

ToWrite(t, doc) == final' = [final EXCEPT ![t] = doc] /\ UNCHANGED <<cast, seen>>

\* The operation of t is over.
Forget(t) ==
    /\ cast' = [cast EXCEPT ![t] = NoBallot]
    /\ seen' = [seen EXCEPT ![t] = NoElection]
    /\ final' = [final EXCEPT ![t] = NoElection]

\* ttl and setex: the document keeps the key's remaining time.  When the key
\* is gone by now it gets the default one, unless it went after the ttl.
WriteBack(doc) ==
    /\ record' = doc
    /\ \/ lease' = lease
       \/ record = NoElection /\ lease' = "default"

Open == record # NoElection /\ record.status = "OPEN"

\* What the votes in the store come to.
Verdict == IF record = NoElection THEN "none" ELSE Resolution(record.votes)

-----------------------------------------------------------------------------
(* VotingService.cast_vote, called for an agent or by the consumer.        *)

\* A participant votes, for the first time or again; a call that finds no open
\* election returns False.
CastVote(c, a, decision) ==
    /\ Open
    /\ ballots < MaxBallots /\ ballots' = ballots + 1
    /\ Begin(c, "publish")
    /\ cast' = [cast EXCEPT ![c] = [agent |-> a, decision |-> decision]]
    /\ said' = [said EXCEPT ![a] = @ \cup {decision}]
    /\ UNCHANGED <<store, deadlinePassed, kafka, seen, final, earned, answer,
                   failures>>

\* Mutant of Validate: a vote is added whatever the election's status.
ValidateExistence ==
    /\ pc["consumer"] = "validate"
    /\ Goto("consumer", IF record = NoElection THEN "commit" ELSE "publish")
    /\ UNCHANGED <<store, deadlinePassed, kafka, cast, seen, final, histories,
                   answer, failures>>

\* The same check for the vote of an event: False ends its handling.
Validate ==
    /\ pc["consumer"] = "validate"
    /\ Goto("consumer", IF Open THEN "publish" ELSE "commit")
    /\ UNCHANGED <<store, deadlinePassed, kafka, cast, seen, final, histories,
                   answer, failures>>

\* _publish_vote_event, also by a consumer whose service has a bus: the vote is
\* stored whether or not this succeeds.
Publish(t) ==
    /\ pc[t] = "publish"
    /\ \/ Len(topic) < MaxEvents /\ topic' = Append(topic, cast[t])
       \/ UNCHANGED topic
    /\ Goto(t, "addRead")
    /\ UNCHANGED <<store, deadlinePassed, position, committed, cast, seen,
                   final, histories, answer, failures>>

\* add_vote, its get.  Without an election it returns False, which cast_vote
\* does not tell its caller.
AddRead(t) ==
    /\ pc[t] = "addRead"
    /\ \/ record = NoElection /\ Goto(t, "resolve") /\ UNCHANGED <<cast, seen, final>>
       \/ record # NoElection /\ Goto(t, "addWrite") /\ Remember(t, record)
    /\ UNCHANGED <<store, deadlinePassed, kafka, histories, answer, failures>>

\* add_vote, its ttl and setex: the vote replaces an earlier one of the agent.
AddWrite(t) ==
    /\ pc[t] = "addWrite"
    /\ WriteBack([seen[t] EXCEPT !.votes[cast[t].agent] = cast[t].decision])
    /\ earned' = earned \cup {Resolution(record'.votes)}
    /\ Goto(t, "resolve")
    /\ Remember(t, NoElection)
    /\ UNCHANGED <<deadlinePassed, kafka, said, ballots, answer, failures>>

\* What follows _check_resolution: cast_vote returns True, the consumer
\* commits, get_result reads again.
Return(t) ==
    /\ Goto(t, CASE t = "consumer" -> "commit"
                 [] t = "reader"   -> "reread"
                 [] OTHER          -> "idle")
    /\ Forget(t)

\* Mutant of Resolve: the vote just cast counts even if it was not stored.
ResolveWithOwnVote(t) ==
    /\ pc[t] = "resolve"
    /\ record # NoElection
    /\ LET own == IF cast[t] = NoBallot THEN record.votes
                  ELSE [record.votes EXCEPT ![cast[t].agent] = cast[t].decision]
           r == Resolution(own)
       IN
         \/ /\ r # "none"
            /\ ToWrite(t, [record EXCEPT !.status = "CLOSED", !.result = r])
            /\ Goto(t, "statusRead")
         \/ r = "none" /\ Return(t)
    /\ UNCHANGED <<store, deadlinePassed, kafka, histories, answer, failures>>

\* _check_resolution, which asks for the votes but not for the status.
Resolve(t) ==
    /\ pc[t] = "resolve"
    /\ \/ /\ Verdict # "none"
          /\ ToWrite(t, [record EXCEPT !.status = "CLOSED", !.result = Verdict])
          /\ Goto(t, "statusRead")
       \/ Verdict = "none" /\ Return(t)
    /\ UNCHANGED <<store, deadlinePassed, kafka, histories, answer, failures>>

-----------------------------------------------------------------------------
(* update_election_status and save_election, of a task that resolved the    *)
(* election or found it expired.                                           *)

\* get_result only marks the election as expired, and then answers DENY.
MarksOnly(t) == t = "reader" /\ final[t].status = "EXPIRED"

EndStatus(t) ==
    \/ /\ MarksOnly(t)
       /\ Goto(t, "idle") /\ Forget(t)
       /\ answer' = "DENY"
    \/ /\ ~MarksOnly(t)
       /\ Goto(t, "save")
       /\ Remember(t, NoElection)
       /\ UNCHANGED answer

StatusRead(t) ==
    /\ pc[t] = "statusRead"
    /\ \/ record = NoElection /\ EndStatus(t)
       \/ /\ record # NoElection
          /\ Goto(t, "statusWrite") /\ Remember(t, record)
          /\ UNCHANGED answer
    /\ UNCHANGED <<store, deadlinePassed, kafka, histories, failures>>

StatusWrite(t) ==
    /\ pc[t] = "statusWrite"
    /\ WriteBack([seen[t] EXCEPT !.status = final[t].status])
    /\ EndStatus(t)
    /\ UNCHANGED <<deadlinePassed, kafka, histories, failures>>

\* save_election writes the snapshot over whatever is there, with the default
\* TTL; the checker then publishes its escalation event.
Save(t) ==
    /\ pc[t] = "save"
    /\ record' = final[t] /\ lease' = "default"
    /\ \/ t # "checker" /\ Return(t)
       \/ t = "checker" /\ Goto(t, "escalate") /\ Forget(t)
    /\ UNCHANGED <<deadlinePassed, kafka, histories, answer, failures>>

-----------------------------------------------------------------------------
(* VoteEventConsumer.                                                      *)

\* An agent that has voted already is not counted again, and without an election
\* there is nothing to do.
IsNews(event) == record # NoElection /\ record.votes[event.agent] = "none"

\* The next event.
ConsumeEvent ==
    /\ position < Len(topic)
    /\ position' = position + 1
    /\ LET event == topic[position'] IN
         \/ /\ ~IsNews(event)
            /\ Begin("consumer", "commit")
            /\ UNCHANGED cast
         \/ /\ IsNews(event)
            /\ Begin("consumer", "validate")
            /\ cast' = [cast EXCEPT !["consumer"] = event]
    /\ UNCHANGED <<store, deadlinePassed, topic, committed, seen, final,
                   histories, answer, failures>>

\* commit() without offsets commits everything consumed so far.
Commit ==
    /\ pc["consumer"] = "commit"
    /\ committed' = position
    /\ Goto("consumer", "idle")
    /\ Forget("consumer")
    /\ UNCHANGED <<store, deadlinePassed, topic, position, histories, answer,
                   failures>>

\* Mutant of ConsumerRestarts: the group has no committed offset and reads
\* the topic from its beginning.
ConsumerRewinds ==
    /\ faults < MaxFaults /\ faults' = faults + 1
    /\ position' = 0
    /\ Goto("consumer", "idle") /\ Forget("consumer")
    /\ UNCHANGED <<store, deadlinePassed, topic, committed, histories, answer,
                   unnoticed>>

\* The consumer dies, of an exception its loop does not catch or with its
\* process, and is started again at the committed offset.
ConsumerRestarts ==
    /\ faults < MaxFaults /\ faults' = faults + 1
    /\ position' = committed
    /\ Goto("consumer", "idle") /\ Forget("consumer")
    /\ UNCHANGED <<store, deadlinePassed, topic, committed, histories, answer,
                   unnoticed>>

-----------------------------------------------------------------------------
(* TimeoutChecker and get_result.                                          *)

Overdue == Open /\ deadlinePassed

\* _check_expired_elections finds the election expired.
Check ==
    /\ Overdue
    /\ Begin("checker", "statusRead")
    /\ ToWrite("checker", [record EXCEPT !.status = "EXPIRED", !.result = "DENY"])
    /\ UNCHANGED <<store, deadlinePassed, kafka, histories, answer, failures>>

\* _publish_escalation_event
Escalate ==
    /\ pc["checker"] = "escalate"
    /\ Goto("checker", "idle")
    /\ UNCHANGED <<store, deadlinePassed, kafka, cast, seen, final, histories,
                   answer, failures>>

\* get_result of an election that is not expired, or was found so before: an
\* open one has no result, one closed without a result is resolved again.
GetResult ==
    /\ record # NoElection
    /\ \/ /\ record.status = "EXPIRED"
          /\ answer' = "DENY"
          /\ UNCHANGED <<locals, overlapped>>
       \/ /\ record.status = "CLOSED" /\ record.result # "none"
          /\ answer' = record.result
          /\ UNCHANGED <<locals, overlapped>>
       \/ /\ record.status = "CLOSED" /\ record.result = "none"
          /\ Begin("reader", "resolve")
          /\ UNCHANGED <<cast, seen, final, answer>>
    /\ UNCHANGED <<store, deadlinePassed, kafka, histories, failures>>

\* Mutant of GetExpired: the deadline is checked before the status.
GetOverdue ==
    /\ record # NoElection /\ deadlinePassed
    /\ Begin("reader", "statusRead")
    /\ ToWrite("reader", [record EXCEPT !.status = "EXPIRED"])
    /\ UNCHANGED <<store, deadlinePassed, kafka, histories, answer, failures>>

\* get_result finds the election expired and marks it.
GetExpired ==
    /\ Overdue
    /\ Begin("reader", "statusRead")
    /\ ToWrite("reader", [record EXCEPT !.status = "EXPIRED"])
    /\ UNCHANGED <<store, deadlinePassed, kafka, histories, answer, failures>>

\* The second read of get_result, after the election was resolved again.
Reread ==
    /\ pc["reader"] = "reread"
    /\ Goto("reader", "idle")
    /\ answer' = IF record # NoElection /\ record.result # "none"
                   THEN record.result ELSE answer
    /\ UNCHANGED <<store, deadlinePassed, kafka, cast, seen, final, histories,
                   failures>>

-----------------------------------------------------------------------------
(* Time and failures.                                                      *)

DeadlinePasses ==
    /\ ~deadlinePassed
    /\ deadlinePassed' = TRUE
    /\ UNCHANGED <<store, kafka, locals, histories, answer, overlapped,
                   failures>>

\* The key's TTL runs out, with the deadline or some time after a save.
KeyExpires ==
    /\ record # NoElection
    /\ lease = "default" \/ (lease = "deadline" /\ deadlinePassed)
    /\ record' = NoElection
    /\ overlapped' = (overlapped \/ Busy # {})
    /\ UNCHANGED <<lease, deadlinePassed, kafka, locals, histories, answer,
                   failures>>

\* The store reports a call that failed as no election or as False, and its
\* caller goes on without what it was to read or write.
StoreFails(t) ==
    /\ faults < MaxFaults /\ faults' = faults + 1
    /\ unnoticed' = TRUE
    /\ \/ /\ pc[t] \in {"addRead", "addWrite"}
          /\ Goto(t, "resolve") /\ Remember(t, NoElection)
          /\ UNCHANGED <<position, answer>>
       \/ /\ pc[t] = "resolve" \/ (pc[t] = "save" /\ t # "checker")
          /\ Return(t)
          /\ UNCHANGED <<position, answer>>
       \/ /\ pc[t] = "save" /\ t = "checker"
          /\ Goto(t, "escalate") /\ Forget(t)
          /\ UNCHANGED <<position, answer>>
       \/ /\ pc[t] \in {"statusRead", "statusWrite"}
          /\ EndStatus(t)
          /\ UNCHANGED position
       \/ /\ pc[t] = "validate"
          /\ Goto(t, "commit") /\ Forget(t)
          /\ UNCHANGED <<position, answer>>
       \/ /\ t = "consumer" /\ position < Len(topic)
          /\ Begin(t, "commit")
          /\ position' = position + 1
          /\ UNCHANGED <<cast, seen, final, answer>>
    /\ UNCHANGED <<store, deadlinePassed, topic, committed, histories>>

\* A call to Redis or Kafka raises, or the task is cancelled: cast_vote and
\* get_result raise.  The checker and the consumer go on with their loops, the
\* consumer without a commit, but at the next event.
Abort(t) ==
    /\ pc[t] # "idle"
    /\ faults < MaxFaults /\ faults' = faults + 1
    /\ Goto(t, "idle") /\ Forget(t)
    /\ UNCHANGED <<store, deadlinePassed, kafka, histories, answer,
                   unnoticed>>

-----------------------------------------------------------------------------
Step(t) ==
    \/ Publish(t) \/ AddRead(t) \/ AddWrite(t) \/ Resolve(t)
    \/ StatusRead(t) \/ StatusWrite(t) \/ Save(t)

Consumer == ConsumeEvent \/ Validate \/ Step("consumer") \/ Commit
Checker  == Check \/ Step("checker") \/ Escalate
Reader   == GetResult \/ GetExpired \/ Step("reader") \/ Reread

Next ==
    \/ \E c \in Callers, a \in Agents, decision \in Decisions : CastVote(c, a, decision)
    \/ \E c \in Callers : Step(c)
    \/ Consumer \/ ConsumerRestarts
    \/ Checker \/ Reader
    \/ \E t \in Tasks : Abort(t) \/ StoreFails(t)
    \/ DeadlinePasses \/ KeyExpires

Spec == Init /\ [][Next]_vars

\* The consumer and the checker are loops that never rest for ever, a started
\* call ends, the deadline comes and Redis expires keys.  Nobody need vote or
\* ask for the result.
Fairness ==
    /\ \A c \in Callers : WF_vars(Step(c))
    /\ WF_vars(Consumer) /\ WF_vars(Checker) /\ WF_vars(Step("reader") \/ Reread)
    /\ WF_vars(DeadlinePasses) /\ WF_vars(KeyExpires)

FairSpec == Spec /\ Fairness

-----------------------------------------------------------------------------
(* Properties.                                                             *)

Outcome ==
    CASE record = NoElection -> "gone"
      [] Open -> "open"
      [] record # NoElection /\ record.status = "EXPIRED" -> "DENY"
      [] record # NoElection /\ record.status = "CLOSED" ->
           IF record.result = "none" THEN Verdict ELSE record.result

AsBallot ==
    INSTANCE Ballot
      WITH counted <- IF record = NoElection THEN NoVotes ELSE record.votes,
           outcome <- Outcome, overdue <- deadlinePassed

\* As long as no two operations overlap, and none outlives the key, the store
\* does what a ballot promises through failures, retries, redelivered events
\* and restarts: no vote is lost or added late, and one decision is taken.
KeepsBallot ==
    /\ AsBallot!Init
    /\ [][overlapped' \/ AsBallot!Next]_(AsBallot!vars)

Documents == {record} \cup {seen[t] : t \in Tasks} \cup {final[t] : t \in Tasks}

\* The votes of a document, with those of the agents that voted differently at
\* different times taken for d.
GrantingChanges(votes, d) ==
    [a \in Agents |-> IF \E x, y \in said[a] : x # y THEN d ELSE votes[a]]

\* Whatever overlaps, a document with a result, stored or about to be, has it
\* for a reason: the votes in the store came to it at some time, and those of
\* the document itself still do, but for agents that changed their vote; DENY
\* may be there for the deadline instead.  So nothing is approved by votes that
\* were lost on the way, and only a changed vote can disagree with the result.
ResultIsJustified ==
    \A d \in Documents \ {NoElection} :
      /\ d.result = "APPROVE" =>
           "APPROVE" \in earned /\ Approves(GrantingChanges(d.votes, "APPROVE"))
      /\ d.result = "DENY" =>
           \/ "DENY" \in earned /\ Denies(GrantingChanges(d.votes, "DENY"))
           \/ deadlinePassed

\* get_result does not contradict an earlier answer unless operations
\* overlapped or the store failed unnoticed.
AnswersAgree ==
    [][answer # "none" /\ answer' # answer => overlapped' \/ unnoticed']_vars

-----------------------------------------------------------------------------
(* What the documentation says and the code does not keep.                 *)

\* "Kafka consumer for processing vote events with exactly-once semantics":
\* with every event committed and no task at work, an open election holds the
\* votes that were published.
EventsAreCounted ==
    Open /\ Busy = {} /\ committed = Len(topic) =>
        \A i \in 1..Len(topic) : record.votes[topic[i].agent] # "none"

\* "scans Redis for expired elections, marks them as EXPIRED, sets result=DENY,
\* and publishes escalation events": an election open at its deadline is
\* escalated or, by a vote just in time, still closed.
OverdueIsEscalated ==
    Overdue ~> (pc["checker"] = "escalate" \/ Outcome = "APPROVE")

\* A decision once stored is not replaced by another one.
DecisionStands ==
    [][(Outcome \in {"APPROVE", "DENY"}) => (Outcome' \in {Outcome, "gone"})]_vars

\* An approved election holds the votes for it: one that a changed vote was
\* written into while it was being closed does not.
ApprovedByItsVotes ==
    record # NoElection /\ record.result = "APPROVE" => Approves(record.votes)
=============================================================================
