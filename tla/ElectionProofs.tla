--------------------------- MODULE ElectionProofs ---------------------------
(***************************************************************************)
(* Proofs about Election, for every set of agents, weights, strategy and   *)
(* required weight, and with any number of operations that overlap.        *)
(***************************************************************************)
EXTENDS Election, SequenceTheorems, TLAPS

\* An agent that has voted for more than one decision.
Wavers(sd, a) == \E x, y \in sd[a] : x # y

\* GrantingChanges, with the decisions sd that agents have voted for.
Granting(votes, sd, d) == [a \in Agents |-> IF Wavers(sd, a) THEN d ELSE votes[a]]

\* What a document must satisfy, with what was said, what was earned and the
\* deadline late.  Its votes were cast, and were counted in the store.
Sound(d, sd, er, late) ==
    \/ d = NoElection
    \/ /\ d \in Elections
       /\ \A a \in Agents : d.votes[a] \in sd[a] \cup {"none"}
       /\ Resolution(d.votes) \in er
       /\ d.result = "APPROVE" =>
            "APPROVE" \in er /\ Approves(Granting(d.votes, sd, "APPROVE"))
       /\ d.result = "DENY" =>
            \/ "DENY" \in er /\ Denies(Granting(d.votes, sd, "DENY"))
            \/ late = TRUE

AllSound ==
    /\ Sound(record, said, earned, deadlinePassed)
    /\ \A t \in Tasks : /\ Sound(seen[t], said, earned, deadlinePassed)
                        /\ Sound(final[t], said, earned, deadlinePassed)

\* A vote that was cast.
Spoken(b, sd) == b \in Ballots /\ b.decision \in sd[b.agent]

AllSpoken ==
    /\ \A t \in Tasks : cast[t] = NoBallot \/ Spoken(cast[t], said)
    /\ \A i \in 1..Len(topic) : Spoken(topic[i], said)

\* Where a task can be, and what it holds there.
Placed ==
    /\ pc["checker"] \in {"idle", "statusRead", "statusWrite", "save", "escalate"}
    /\ pc["reader"] \in {"idle", "resolve", "statusRead", "statusWrite", "save", "reread"}
    /\ \A t \in Tasks :
         /\ pc[t] \in {"validate", "publish", "addRead", "addWrite"} => cast[t] \in Ballots
         /\ pc[t] \in {"addWrite", "statusWrite"} => seen[t] \in Elections
         /\ pc[t] \in {"statusRead", "statusWrite", "save"} => final[t] \in Elections

\* The inductive invariant.
EInv == TypeOK /\ Placed /\ AllSound /\ AllSpoken

-----------------------------------------------------------------------------
(* The rules: more votes for a decision never undo it.                     *)

LEMMA WeightGrows ==
  ASSUME NEW d, NEW V, NEW W, \A a \in Agents : V[a] = d => W[a] = d
  PROVE  /\ WeightFor(d, V) \in Nat /\ WeightFor(d, W) \in Nat
         /\ Total \in Nat
         /\ WeightFor(d, V) <= WeightFor(d, W)
<1>. DEFINE A == {a \in Agents : V[a] = d}
            B == {a \in Agents : W[a] = d}
<1>1. A \in SUBSET Agents /\ B \in SUBSET Agents /\ A \subseteq B
  OBVIOUS
<1>2. Weight[A] <= Weight[B] /\ Weight[A] \in Nat /\ Weight[B] \in Nat
  <2>. HIDE DEF A, B
  <2>. QED BY <1>1, RulesAssumption
<1>3. Weight[Agents] \in Nat
  BY RulesAssumption
<1>. QED BY <1>2, <1>3 DEF WeightFor, Total

LEMMA ApprovalGrows ==
  ASSUME NEW V, NEW W, \A a \in Agents : V[a] = "APPROVE" => W[a] = "APPROVE",
         Approves(V)
  PROVE  Approves(W)
<1>1. /\ WeightFor("APPROVE", V) \in Nat /\ WeightFor("APPROVE", W) \in Nat
      /\ Total \in Nat /\ WeightFor("APPROVE", V) <= WeightFor("APPROVE", W)
  BY WeightGrows
<1>2. Required # NoRequirement => Required \in Nat
  BY RulesAssumption
<1>. QED BY <1>1, <1>2 DEF Approves

LEMMA DenialGrows ==
  ASSUME NEW V, NEW W, \A a \in Agents : V[a] = "DENY" => W[a] = "DENY",
         Denies(V)
  PROVE  Denies(W)
<1>1. /\ WeightFor("DENY", V) \in Nat /\ WeightFor("DENY", W) \in Nat
      /\ Total \in Nat /\ WeightFor("DENY", V) <= WeightFor("DENY", W)
  BY WeightGrows
<1>2. Required # NoRequirement => Required \in Nat
  BY RulesAssumption
<1>. QED BY <1>1, <1>2 DEF Denies

\* More was said and earned, and it is no earlier.
Grows(sd, se, er, es, late, later) ==
    /\ \A a \in Agents : sd[a] \subseteq se[a]
    /\ er \subseteq es
    /\ late = TRUE => later = TRUE

\* What a document is sound by is not taken back.
LEMMA SoundLater ==
  ASSUME NEW d, NEW sd, NEW se, NEW er, NEW es, NEW late, NEW later,
         Sound(d, sd, er, late), Grows(sd, se, er, es, late, later)
  PROVE  Sound(d, se, es, later)
<1>. SUFFICES ASSUME d # NoElection PROVE Sound(d, se, es, later)
  BY DEF Sound
<1>. DEFINE G(x) == Granting(d.votes, sd, x)
            H(x) == Granting(d.votes, se, x)
<1>1. \A a \in Agents : Wavers(sd, a) => Wavers(se, a)
  BY DEF Wavers, Grows
<1>2. ASSUME NEW x PROVE \A a \in Agents : G(x)[a] = x => H(x)[a] = x
  BY <1>1 DEF Granting
<1>3. /\ Approves(G("APPROVE")) => Approves(H("APPROVE"))
      /\ Denies(G("DENY")) => Denies(H("DENY"))
  <2>. HIDE DEF G, H
  <2>. QED BY <1>2, ApprovalGrows, DenialGrows
<1>. QED BY <1>3 DEF Sound, Grows

LEMMA SoundVote ==
  ASSUME NEW sd \in [Agents -> SUBSET Decisions], NEW er, NEW late, NEW d \in Elections,
         Sound(d, sd, er, late), NEW b, Spoken(b, sd)
  PROVE  LET e == [d EXCEPT !.votes[b.agent] = b.decision]
         IN  e \in Elections /\ Sound(e, sd, er \cup {Resolution(e.votes)}, late)
<1>. DEFINE e == [d EXCEPT !.votes[b.agent] = b.decision]
            es == er \cup {Resolution(e.votes)}
<1>1. b.agent \in Agents /\ b.decision \in Decisions /\ b.decision \in sd[b.agent]
  BY DEF Spoken, Ballots
<1>2. /\ e \in Elections /\ e.result = d.result
      /\ e.votes = [d.votes EXCEPT ![b.agent] = b.decision]
      /\ d.votes \in [Agents -> Decisions \cup {"none"}]
  BY <1>1 DEF Elections, Votes
<1>3. /\ \A a \in Agents : d.votes[a] \in sd[a] \cup {"none"}
      /\ d.result = "APPROVE" =>
           "APPROVE" \in er /\ Approves(Granting(d.votes, sd, "APPROVE"))
      /\ d.result = "DENY" =>
           \/ "DENY" \in er /\ Denies(Granting(d.votes, sd, "DENY"))
           \/ late = TRUE
  BY ElectionAssumption DEF Sound
<1>4. Resolution(e.votes) \in es /\ er \subseteq es
  OBVIOUS
<1>. HIDE DEF e, es
<1>5. /\ e.votes[b.agent] = b.decision
      /\ \A a \in Agents : a # b.agent => e.votes[a] = d.votes[a]
  BY <1>1, <1>2
<1>6. \A a \in Agents : e.votes[a] \in sd[a] \cup {"none"}
  BY <1>1, <1>3, <1>5
<1>7. ASSUME NEW x \in {"APPROVE", "DENY"}, NEW a \in Agents,
             Granting(d.votes, sd, x)[a] = x
      PROVE  Granting(e.votes, sd, x)[a] = x
  <2>1. CASE Wavers(sd, a)
    BY <2>1 DEF Granting
  <2>2. CASE ~Wavers(sd, a)
    <3>1. d.votes[a] = x
      BY <1>7, <2>2 DEF Granting
    <3>2. x \in sd[a]
      BY <1>3, <3>1
    <3>3. CASE a = b.agent
      <4>1. b.decision = x
        BY <1>1, <2>2, <3>2, <3>3 DEF Wavers
      <4>. QED BY <1>5, <2>2, <3>3, <4>1 DEF Granting
    <3>4. CASE a # b.agent
      BY <1>5, <2>2, <3>1, <3>4 DEF Granting
    <3>. QED BY <3>3, <3>4
  <2>. QED BY <2>1, <2>2
<1>8. /\ Approves(Granting(d.votes, sd, "APPROVE")) => Approves(Granting(e.votes, sd, "APPROVE"))
      /\ Denies(Granting(d.votes, sd, "DENY")) => Denies(Granting(e.votes, sd, "DENY"))
  BY <1>7, ApprovalGrows, DenialGrows
<1>9. Sound(e, sd, es, late)
  BY <1>2, <1>3, <1>4, <1>6, <1>8 DEF Sound
<1>. QED BY <1>2, <1>9 DEF e, es

LEMMA SoundStatus ==
  ASSUME NEW sd, NEW er, NEW late, NEW d \in Elections, Sound(d, sd, er, late),
         NEW s \in {"OPEN", "CLOSED", "EXPIRED"}
  PROVE  LET e == [d EXCEPT !.status = s]
         IN  e \in Elections /\ Sound(e, sd, er, late)
<1>. DEFINE e == [d EXCEPT !.status = s]
<1>1. e \in Elections /\ e.result = d.result /\ e.votes = d.votes
  BY DEF Elections
<1>. HIDE DEF e
<1>2. Sound(e, sd, er, late)
  BY <1>1, ElectionAssumption DEF Sound
<1>. QED BY <1>1, <1>2 DEF e

LEMMA ResolutionIs ==
  ASSUME NEW V
  PROVE  /\ Resolution(V) \in {"none", "APPROVE", "DENY"}
         /\ Resolution(V) = "APPROVE" => Approves(V)
         /\ Resolution(V) = "DENY" => Denies(V)
<1>1. CASE Approves(V)
  BY <1>1 DEF Resolution
<1>2. CASE ~Approves(V) /\ Denies(V)
  BY <1>2 DEF Resolution
<1>3. CASE ~Approves(V) /\ ~Denies(V)
  BY <1>3 DEF Resolution
<1>. QED BY <1>1, <1>2, <1>3

LEMMA SoundResolution ==
  ASSUME NEW sd, NEW er, NEW late, NEW d \in Elections, Sound(d, sd, er, late),
         NEW r, r = Resolution(d.votes), r # "none"
  PROVE  LET e == [d EXCEPT !.status = "CLOSED", !.result = r]
         IN  e \in Elections /\ Sound(e, sd, er, late)
<1>. DEFINE e == [d EXCEPT !.status = "CLOSED", !.result = r]
<1>1. \/ r = "APPROVE" /\ Approves(d.votes)
      \/ r = "DENY" /\ Denies(d.votes)
  BY ResolutionIs
<1>2. e \in Elections /\ e.result = r /\ e.votes = d.votes
  BY <1>1 DEF Elections
<1>. HIDE DEF e
<1>3. r \in er /\ \A a \in Agents : d.votes[a] \in sd[a] \cup {"none"}
  BY ElectionAssumption DEF Sound
<1>4. ASSUME NEW x, NEW a \in Agents, d.votes[a] = x
      PROVE  Granting(d.votes, sd, x)[a] = x
  BY <1>4 DEF Granting
<1>5. /\ Approves(d.votes) => Approves(Granting(d.votes, sd, "APPROVE"))
      /\ Denies(d.votes) => Denies(Granting(d.votes, sd, "DENY"))
  BY <1>4, ApprovalGrows, DenialGrows
<1>6. Sound(e, sd, er, late)
  BY <1>1, <1>2, <1>3, <1>5 DEF Sound
<1>. QED BY <1>2, <1>6 DEF e

LEMMA SoundDenial ==
  ASSUME NEW sd, NEW er, NEW late, NEW d \in Elections, Sound(d, sd, er, late)
  PROVE  LET e == [d EXCEPT !.status = "EXPIRED", !.result = "DENY"]
         IN  e \in Elections /\ Sound(e, sd, er, TRUE)
<1>. DEFINE e == [d EXCEPT !.status = "EXPIRED", !.result = "DENY"]
<1>1. e \in Elections /\ e.result = "DENY" /\ e.votes = d.votes
  BY DEF Elections
<1>. HIDE DEF e
<1>2. Sound(e, sd, er, TRUE)
  BY <1>1, ElectionAssumption DEF Sound
<1>. QED BY <1>1, <1>2 DEF e

-----------------------------------------------------------------------------
LEMMA TaskNames ==
  /\ \A t \in {"consumer", "checker", "reader"} : t \in Tasks /\ t \notin Callers
  /\ Callers \subseteq Tasks
  BY ElectionAssumption DEF Tasks

LEMMA InitEInv == Init => EInv
<1>. SUFFICES ASSUME Init PROVE EInv
  OBVIOUS
<1>1. /\ record \in Elections /\ record.result = "none" /\ record.votes = NoVotes
      /\ said \in [Agents -> SUBSET Decisions]
  BY DEF Init, Elections, Votes, NoVotes
<1>2. \A t \in Tasks : /\ pc[t] = "idle" /\ cast[t] = NoBallot
                       /\ seen[t] = NoElection /\ final[t] = NoElection
  BY DEF Init
<1>3. TypeOK
  <2>1. topic \in Seq(Ballots) /\ Len(topic) = 0 /\ position = 0 /\ committed = 0
    BY DEF Init
  <2>2. /\ pc \in [Tasks -> Calls]
        /\ cast \in [Tasks -> Ballots \cup {NoBallot}]
        /\ seen \in [Tasks -> Elections \cup {NoElection}]
        /\ final \in [Tasks -> Elections \cup {NoElection}]
    BY DEF Init, Calls
  <2>3. faults \in 0..MaxFaults /\ ballots \in 0..MaxBallots
    BY ElectionAssumption DEF Init
  <2>4. deadlinePassed \in BOOLEAN /\ overlapped \in BOOLEAN /\ unnoticed \in BOOLEAN
    BY Zenon DEF Init
  <2>5. /\ lease \in {"deadline", "default"} /\ answer \in {"none", "APPROVE", "DENY"}
        /\ earned \subseteq {"none", "APPROVE", "DENY"}
    BY ResolutionIs DEF Init
  <2>6. position \in 0..Len(topic) /\ committed \in 0..position
    BY <2>1
  <2>7. record \in Elections \cup {NoElection}
    BY <1>1
  <2>. HIDE DEF Init
  <2>. QED BY <1>1, <2>1, <2>2, <2>3, <2>4, <2>5, <2>6, <2>7, Zenon DEF TypeOK
<1>4. Placed
  BY <1>2, TaskNames DEF Placed
<1>5. AllSound
  <2>1. Resolution(NoVotes) \in earned
    BY DEF Init
  <2>2. \A a \in Agents : record.votes[a] \in said[a] \cup {"none"}
    BY <1>1 DEF NoVotes
  <2>. QED BY <1>1, <1>2, <2>1, <2>2 DEF AllSound, Sound
<1>6. AllSpoken
  BY <1>2 DEF AllSpoken, Init
<1>. QED BY <1>3, <1>4, <1>5, <1>6 DEF EInv

-----------------------------------------------------------------------------
(* A step of one task.                                                     *)

\* The invariant, but for the documents and the tasks.
RestOK ==
    /\ lease \in {"deadline", "default"}
    /\ deadlinePassed \in BOOLEAN /\ overlapped \in BOOLEAN
    /\ unnoticed \in BOOLEAN
    /\ topic \in Seq(Ballots)
    /\ \A i \in 1..Len(topic) : Spoken(topic[i], said)
    /\ position \in 0..Len(topic) /\ committed \in 0..position
    /\ said \in [Agents -> SUBSET Decisions]
    /\ earned \subseteq {"none", "APPROVE", "DENY"}
    /\ ballots \in 0..MaxBallots
    /\ answer \in {"none", "APPROVE", "DENY"}
    /\ faults \in 0..MaxFaults

\* A step leaves t before the call next with b, sd and fd in its hands.
Lands(t, next, b, sd, fd) ==
    /\ pc' = [pc EXCEPT ![t] = next]
    /\ cast' = [cast EXCEPT ![t] = b]
    /\ seen' = [seen EXCEPT ![t] = sd]
    /\ final' = [final EXCEPT ![t] = fd]

\* This is where t can be, and what it must hold there.
Fits(t, next, b, sd, fd) ==
    /\ t = "checker" =>
         next \in {"idle", "statusRead", "statusWrite", "save", "escalate"}
    /\ t = "reader" =>
         next \in {"idle", "resolve", "statusRead", "statusWrite", "save", "reread"}
    /\ next \in {"validate", "publish", "addRead", "addWrite"} => b \in Ballots
    /\ next \in {"addWrite", "statusWrite"} => sd \in Elections
    /\ next \in {"statusRead", "statusWrite", "save"} => fd \in Elections

SoundNow(d) == Sound(d, said, earned, deadlinePassed)

SpokenNow(b) == b = NoBallot \/ Spoken(b, said)

LEMMA SoundIsDocument ==
  ASSUME NEW sd, NEW er, NEW late, NEW d, Sound(d, sd, er, late)
  PROVE  d \in Elections \cup {NoElection}
BY DEF Sound

\* A step of t that may add to what was said and earned.
LEMMA GrowStep ==
  ASSUME EInv, RestOK', NEW t \in Tasks, NEW next \in Calls, NEW b, NEW sd, NEW fd,
         Lands(t, next, b, sd, fd), Fits(t, next, b, sd, fd),
         \A a \in Agents : said[a] \subseteq said'[a], earned \subseteq earned',
         UNCHANGED deadlinePassed,
         b = NoBallot \/ Spoken(b, said'),
         Sound(record', said', earned', deadlinePassed'),
         Sound(sd, said', earned', deadlinePassed'),
         Sound(fd, said', earned', deadlinePassed')
  PROVE  EInv'
<1>. DEFINE Docs == Elections \cup {NoElection}
            Votings == Ballots \cup {NoBallot}
<1>1. sd \in Docs /\ fd \in Docs /\ record' \in Docs /\ b \in Votings
  BY SoundIsDocument DEF Spoken
<1>2. /\ pc \in [Tasks -> Calls] /\ cast \in [Tasks -> Votings]
      /\ seen \in [Tasks -> Docs] /\ final \in [Tasks -> Docs]
  BY DEF EInv, TypeOK
<1>3. /\ pc' \in [Tasks -> Calls] /\ cast' \in [Tasks -> Votings]
      /\ seen' \in [Tasks -> Docs] /\ final' \in [Tasks -> Docs]
  <2>. HIDE DEF Docs, Votings
  <2>. QED BY <1>1, <1>2 DEF Lands
<1>4. TypeOK'
  BY <1>1, <1>3, Zenon DEF TypeOK, RestOK
<1>5. /\ pc'[t] = next /\ cast'[t] = b /\ seen'[t] = sd /\ final'[t] = fd
      /\ \A u \in Tasks : u # t => /\ pc'[u] = pc[u] /\ cast'[u] = cast[u]
                                   /\ seen'[u] = seen[u] /\ final'[u] = final[u]
  <2>. HIDE DEF Docs, Votings
  <2>. QED BY <1>2 DEF Lands
<1>6. Placed'
  <2>1. /\ pc'["checker"] \in {"idle", "statusRead", "statusWrite", "save", "escalate"}
        /\ pc'["reader"] \in {"idle", "resolve", "statusRead", "statusWrite", "save", "reread"}
    <3>1. "checker" \in Tasks /\ "reader" \in Tasks
      BY DEF Tasks
    <3>. QED BY <1>5, <3>1, TaskNames DEF Fits, EInv, Placed
  <2>2. ASSUME NEW u \in Tasks
        PROVE  /\ pc'[u] \in {"validate", "publish", "addRead", "addWrite"} => cast'[u] \in Ballots
               /\ pc'[u] \in {"addWrite", "statusWrite"} => seen'[u] \in Elections
               /\ pc'[u] \in {"statusRead", "statusWrite", "save"} => final'[u] \in Elections
    BY <1>5 DEF Fits, EInv, Placed
  <2>. QED BY <2>1, <2>2 DEF Placed
<1>7. AllSound'
  <2>1. ASSUME NEW u \in Tasks
        PROVE  /\ Sound(seen'[u], said', earned', deadlinePassed')
               /\ Sound(final'[u], said', earned', deadlinePassed')
    <3>1. CASE u = t
      BY <1>5, <3>1
    <3>2. CASE u # t
      <4>1. /\ Sound(seen[u], said, earned, deadlinePassed)
            /\ Sound(final[u], said, earned, deadlinePassed)
        BY DEF EInv, AllSound
      <4>2. Grows(said, said', earned, earned', deadlinePassed, deadlinePassed')
        BY Zenon DEF Grows
      <4>3. Sound(seen[u], said', earned', deadlinePassed')
        BY <4>1, <4>2, SoundLater, Zenon
      <4>4. Sound(final[u], said', earned', deadlinePassed')
        BY <4>1, <4>2, SoundLater, Zenon
      <4>. QED BY <1>5, <3>2, <4>3, <4>4
    <3>. QED BY <3>1, <3>2
  <2>. QED BY <2>1, Zenon DEF AllSound
<1>8. AllSpoken'
  <2>1. ASSUME NEW u \in Tasks PROVE cast'[u] = NoBallot \/ Spoken(cast'[u], said')
    <3>1. CASE u = t
      BY <1>5, <3>1
    <3>2. CASE u # t
      <4>1. cast[u] = NoBallot \/ Spoken(cast[u], said)
        BY DEF EInv, AllSpoken
      <4>. QED BY <1>5, <3>2, <4>1 DEF Spoken, Ballots
    <3>. QED BY <3>1, <3>2
  <2>. QED BY <2>1, Zenon DEF AllSpoken, RestOK
<1>. QED BY <1>4, <1>6, <1>7, <1>8, Zenon DEF EInv

\* A step of t that adds nothing to them.
LEMMA TaskStep ==
  ASSUME EInv, RestOK', NEW t \in Tasks, NEW next \in Calls, NEW b, NEW sd, NEW fd,
         Lands(t, next, b, sd, fd), Fits(t, next, b, sd, fd),
         UNCHANGED <<said, earned, deadlinePassed>>,
         SpokenNow(b), SoundNow(record'), SoundNow(sd), SoundNow(fd)
  PROVE  EInv'
<1>1. /\ Sound(record', said', earned', deadlinePassed')
      /\ Sound(sd, said', earned', deadlinePassed')
      /\ Sound(fd, said', earned', deadlinePassed')
      /\ b = NoBallot \/ Spoken(b, said')
  BY Zenon DEF SoundNow, SpokenNow
<1>2. said' = said /\ earned' = earned
  OBVIOUS
<1>. QED BY <1>1, <1>2, GrowStep

\* What EInv says, in the terms of TaskStep.
LEMMA Now ==
  ASSUME EInv
  PROVE  /\ RestOK /\ SoundNow(record) /\ SoundNow(NoElection) /\ SpokenNow(NoBallot)
         /\ \A t \in Tasks : SoundNow(seen[t]) /\ SoundNow(final[t]) /\ SpokenNow(cast[t])
         /\ \A t \in Tasks : /\ cast = [cast EXCEPT ![t] = cast[t]]
                             /\ seen = [seen EXCEPT ![t] = seen[t]]
                             /\ final = [final EXCEPT ![t] = final[t]]
         /\ "consumer" \in Tasks
<1>1. RestOK
  BY Zenon DEF EInv, TypeOK, RestOK, AllSpoken
<1>2. SoundNow(record) /\ \A t \in Tasks : SoundNow(seen[t]) /\ SoundNow(final[t])
  BY Zenon DEF EInv, AllSound, SoundNow
<1>3. SoundNow(NoElection) /\ SpokenNow(NoBallot)
  BY Zenon DEF SoundNow, Sound, SpokenNow
<1>4. \A t \in Tasks : /\ cast = [cast EXCEPT ![t] = cast[t]]
                      /\ seen = [seen EXCEPT ![t] = seen[t]]
                      /\ final = [final EXCEPT ![t] = final[t]]
  BY DEF EInv, TypeOK
<1>5. \A t \in Tasks : SpokenNow(cast[t])
  BY Zenon DEF EInv, AllSpoken, SpokenNow
<1>. QED BY <1>1, <1>2, <1>3, <1>4, <1>5 DEF Tasks

\* A step of t that changes no document.
LEMMA StayStep ==
  ASSUME EInv, RestOK', NEW t \in Tasks, NEW next \in Calls,
         pc' = [pc EXCEPT ![t] = next], Fits(t, next, cast[t], seen[t], final[t]),
         UNCHANGED <<record, cast, seen, final, said, earned, deadlinePassed>>
  PROVE  EInv'
<1>1. Lands(t, next, cast[t], seen[t], final[t])
  BY Now DEF Lands
<1>2. /\ SoundNow(record') /\ SoundNow(seen[t]) /\ SoundNow(final[t])
      /\ SpokenNow(cast[t])
  <2>1. record' = record
    OBVIOUS
  <2>. QED BY <2>1, Now
<1>. QED BY <1>1, <1>2, TaskStep

\* A step after which t holds nothing.
LEMMA ForgetStep ==
  ASSUME EInv, RestOK', NEW t \in Tasks, NEW next \in Calls,
         pc' = [pc EXCEPT ![t] = next], Forget(t), SoundNow(record'),
         next \in {"idle", "resolve", "escalate", "reread", "commit"},
         t = "checker" => next \in {"idle", "escalate"},
         t = "reader" => next \in {"idle", "resolve", "reread"},
         UNCHANGED <<said, earned, deadlinePassed>>
  PROVE  EInv'
<1>1. Lands(t, next, NoBallot, NoElection, NoElection)
  BY DEF Lands, Forget
<1>2. Fits(t, next, NoBallot, NoElection, NoElection)
  BY DEF Fits
<1>. QED BY <1>1, <1>2, Now, TaskStep

\* What the steps of a task leave of RestOK.
LEMMA RestStays ==
  ASSUME EInv, UNCHANGED <<deadlinePassed, kafka, said, earned, ballots>>,
         lease' \in {"deadline", "default"}, overlapped' \in BOOLEAN,
         unnoticed' \in BOOLEAN,
         answer' \in {"none", "APPROVE", "DENY"}, faults' \in 0..MaxFaults
  PROVE  RestOK'
<1>1. deadlinePassed' \in BOOLEAN
  BY Now, Zenon DEF RestOK
<1>2. /\ topic' \in Seq(Ballots) /\ position' \in 0..Len(topic')
      /\ committed' \in 0..position' /\ said' \in [Agents -> SUBSET Decisions]
      /\ earned' \subseteq {"none", "APPROVE", "DENY"} /\ ballots' \in 0..MaxBallots
  BY Now DEF RestOK, kafka
<1>3. \A i \in 1..Len(topic') : Spoken(topic'[i], said')
  <2>1. topic' = topic /\ said' = said
    BY DEF kafka
  <2>. QED BY <2>1, Now DEF RestOK
<1>. QED BY <1>1, <1>2, <1>3, Zenon DEF RestOK

LEMMA RestUnchanged ==
  ASSUME EInv
  PROVE  /\ UNCHANGED lease => lease' \in {"deadline", "default"}
         /\ UNCHANGED overlapped => overlapped' \in BOOLEAN
         /\ UNCHANGED unnoticed => unnoticed' \in BOOLEAN
         /\ UNCHANGED answer => answer' \in {"none", "APPROVE", "DENY"}
         /\ UNCHANGED faults => faults' \in 0..MaxFaults
<1>1. /\ UNCHANGED overlapped => overlapped' \in BOOLEAN
      /\ UNCHANGED unnoticed => unnoticed' \in BOOLEAN
  BY Now, Zenon DEF RestOK
<1>. QED BY <1>1, Now DEF RestOK

\* The consumer's position and offset move, and nothing else of RestOK.
LEMMA RestMoves ==
  ASSUME EInv, UNCHANGED <<deadlinePassed, topic, said, earned, ballots, lease, answer>>,
         position' \in 0..Len(topic), committed' \in 0..position',
         overlapped' \in BOOLEAN, unnoticed' \in BOOLEAN, faults' \in 0..MaxFaults
  PROVE  RestOK'
<1>1. deadlinePassed' \in BOOLEAN
  BY Now, Zenon DEF RestOK
<1>2. /\ topic' \in Seq(Ballots) /\ position' \in 0..Len(topic')
      /\ committed' \in 0..position' /\ said' \in [Agents -> SUBSET Decisions]
      /\ earned' \subseteq {"none", "APPROVE", "DENY"} /\ ballots' \in 0..MaxBallots
      /\ lease' \in {"deadline", "default"} /\ answer' \in {"none", "APPROVE", "DENY"}
  BY Now DEF RestOK
<1>3. \A i \in 1..Len(topic') : Spoken(topic'[i], said')
  <2>1. topic' = topic /\ said' = said
    OBVIOUS
  <2>. QED BY <2>1, Now DEF RestOK
<1>. QED BY <1>1, <1>2, <1>3, Zenon DEF RestOK

LEMMA BeginGoto ==
  ASSUME EInv, NEW t \in Tasks, NEW next \in Calls
  PROVE  /\ Begin(t, next) => /\ pc[t] = "idle" /\ pc' = [pc EXCEPT ![t] = next]
                             /\ overlapped' \in BOOLEAN
         /\ Goto(t, next) => /\ pc' = [pc EXCEPT ![t] = next]
                            /\ overlapped' \in BOOLEAN
<1>1. overlapped \in BOOLEAN
  BY Now DEF RestOK
<1>2. ASSUME Goto(t, next) PROVE overlapped' \in BOOLEAN
  BY <1>1, <1>2, Zenon DEF Goto
<1>3. ASSUME Begin(t, next) PROVE overlapped' \in BOOLEAN
  BY <1>3 DEF Begin
<1>. QED BY <1>2, <1>3 DEF Begin, Goto

-----------------------------------------------------------------------------
(* The actions.                                                            *)

\* A ballot that is cast is spoken, and nothing spoken before is unsaid.
LEMMA EInvCastVote ==
  ASSUME EInv, NEW c \in Callers, NEW a \in Agents, NEW decision \in Decisions,
         CastVote(c, a, decision)
  PROVE  EInv'
<1>. DEFINE b == [agent |-> a, decision |-> decision]
<1>1. c \in Tasks /\ c \notin {"consumer", "checker", "reader"} /\ "publish" \in Calls
  BY TaskNames DEF Calls
<1>2. /\ UNCHANGED <<record, lease, deadlinePassed, topic, position, committed, seen,
                     final, earned, answer, unnoticed, faults>>
      /\ Begin(c, "publish") /\ cast' = [cast EXCEPT ![c] = b]
      /\ said' = [said EXCEPT ![a] = @ \cup {decision}]
      /\ ballots < MaxBallots /\ ballots' = ballots + 1
  BY DEF CastVote, store, kafka, failures
<1>3. pc' = [pc EXCEPT ![c] = "publish"] /\ overlapped' \in BOOLEAN
  BY <1>1, <1>2, BeginGoto
<1>4. b \in Ballots /\ b.agent = a /\ b.decision = decision
  BY DEF Ballots
<1>. HIDE DEF b
<1>5. /\ said' \in [Agents -> SUBSET Decisions] /\ decision \in said'[a]
      /\ \A x \in Agents : said[x] \subseteq said'[x]
  <2>1. said \in [Agents -> SUBSET Decisions]
    BY Now DEF RestOK
  <2>. QED BY <1>2, <2>1
<1>6. RestOK'
  <2>1. deadlinePassed' \in BOOLEAN /\ unnoticed' \in BOOLEAN
    BY <1>2, Now, Zenon DEF RestOK
  <2>2. \A i \in 1..Len(topic') : Spoken(topic'[i], said')
    <3>1. \A i \in 1..Len(topic) : Spoken(topic[i], said)
      BY Now DEF RestOK
    <3>. QED BY <1>2, <1>5, <3>1 DEF Spoken, Ballots
  <2>3. ballots' \in 0..MaxBallots
    BY <1>2, Now, ElectionAssumption DEF RestOK
  <2>4. /\ lease' \in {"deadline", "default"} /\ topic' \in Seq(Ballots)
        /\ position' \in 0..Len(topic') /\ committed' \in 0..position'
        /\ earned' \subseteq {"none", "APPROVE", "DENY"}
        /\ answer' \in {"none", "APPROVE", "DENY"} /\ faults' \in 0..MaxFaults
    BY <1>2, Now DEF RestOK
  <2>. QED BY <1>3, <1>5, <2>1, <2>2, <2>3, <2>4, Zenon DEF RestOK
<1>7. Lands(c, "publish", b, seen[c], final[c])
  BY <1>1, <1>2, <1>3, Now DEF Lands
<1>8. Fits(c, "publish", b, seen[c], final[c])
  BY <1>1, <1>4 DEF Fits
<1>9. Spoken(b, said')
  BY <1>4, <1>5 DEF Spoken
<1>10. ASSUME NEW d, SoundNow(d) PROVE Sound(d, said', earned', deadlinePassed')
  <2>1. earned' = earned /\ deadlinePassed' = deadlinePassed
    BY <1>2
  <2>2. Grows(said, said', earned, earned', deadlinePassed, deadlinePassed')
    BY <1>5, <2>1, Zenon DEF Grows
  <2>. QED BY <1>10, <2>2, SoundLater, Zenon DEF SoundNow
<1>11. /\ Sound(record', said', earned', deadlinePassed')
       /\ Sound(seen[c], said', earned', deadlinePassed')
       /\ Sound(final[c], said', earned', deadlinePassed')
  <2>1. record' = record
    BY <1>2
  <2>. QED BY <1>1, <1>10, <2>1, Now
<1>. QED BY <1>1, <1>2, <1>5, <1>6, <1>7, <1>8, <1>9, <1>11, GrowStep

LEMMA EInvValidate ==
  ASSUME EInv, Validate
  PROVE  EInv'
<1>. DEFINE next == IF Open THEN "publish" ELSE "commit"
<1>1. "consumer" \in Tasks /\ next \in Calls /\ next \in {"publish", "commit"}
  BY TaskNames DEF Calls
<1>2. /\ UNCHANGED <<record, lease, deadlinePassed, kafka, cast, seen, final,
                     said, earned, ballots, answer, unnoticed, faults>>
      /\ Goto("consumer", next) /\ pc["consumer"] = "validate"
  BY DEF Validate, store, histories, failures
<1>. HIDE DEF next
<1>3. pc' = [pc EXCEPT !["consumer"] = next] /\ overlapped' \in BOOLEAN
  BY <1>1, <1>2, BeginGoto
<1>4. RestOK'
  BY <1>2, <1>3, RestStays, RestUnchanged
<1>5. Fits("consumer", next, cast["consumer"], seen["consumer"], final["consumer"])
  BY <1>1, <1>2 DEF Fits, EInv, Placed
<1>. QED BY <1>1, <1>2, <1>3, <1>4, <1>5, StayStep

LEMMA EInvPublish ==
  ASSUME EInv, NEW t \in Tasks, Publish(t)
  PROVE  EInv'
<1>1. "addRead" \in Calls /\ pc[t] = "publish" /\ cast[t] \in Ballots
  BY DEF Calls, Publish, EInv, Placed
<1>2. /\ UNCHANGED <<record, lease, deadlinePassed, position, committed, cast, seen,
                     final, said, earned, ballots, answer, unnoticed, faults>>
      /\ Goto(t, "addRead")
  BY DEF Publish, store, histories, failures
<1>3. pc' = [pc EXCEPT ![t] = "addRead"] /\ overlapped' \in BOOLEAN
  BY <1>1, <1>2, BeginGoto
<1>4. /\ topic' \in Seq(Ballots) /\ Len(topic') >= Len(topic)
      /\ \A i \in 1..Len(topic') : Spoken(topic'[i], said)
  <2>1. topic \in Seq(Ballots) /\ \A i \in 1..Len(topic) : Spoken(topic[i], said)
    BY Now DEF RestOK
  <2>2. Spoken(cast[t], said)
    BY <1>1, Now, ElectionAssumption DEF SpokenNow
  <2>3. CASE topic' = topic
    BY <2>1, <2>3
  <2>4. CASE topic' = Append(topic, cast[t])
    <3>1. /\ topic' \in Seq(Ballots) /\ Len(topic') = Len(topic) + 1
          /\ \A i \in 1..Len(topic) : topic'[i] = topic[i]
          /\ topic'[Len(topic) + 1] = cast[t]
      BY <1>1, <2>1, <2>4
    <3>2. \A i \in 1..Len(topic') : i \in 1..Len(topic) \/ i = Len(topic) + 1
      BY <2>1, <3>1
    <3>. QED BY <2>1, <2>2, <3>1, <3>2
  <2>. QED BY <2>3, <2>4 DEF Publish
<1>5. RestOK'
  <2>1. deadlinePassed' \in BOOLEAN /\ unnoticed' \in BOOLEAN
    BY <1>2, Now, Zenon DEF RestOK
  <2>2. position' \in 0..Len(topic') /\ committed' \in 0..position'
    BY <1>2, <1>4, Now DEF RestOK
  <2>3. \A i \in 1..Len(topic') : Spoken(topic'[i], said')
    <3>1. said' = said
      BY <1>2
    <3>. QED BY <1>4, <3>1
  <2>4. /\ lease' \in {"deadline", "default"} /\ said' \in [Agents -> SUBSET Decisions]
        /\ earned' \subseteq {"none", "APPROVE", "DENY"} /\ ballots' \in 0..MaxBallots
        /\ answer' \in {"none", "APPROVE", "DENY"} /\ faults' \in 0..MaxFaults
    BY <1>2, Now DEF RestOK
  <2>. QED BY <1>3, <1>4, <2>1, <2>2, <2>3, <2>4, Zenon DEF RestOK
<1>6. Fits(t, "addRead", cast[t], seen[t], final[t])
  BY <1>1 DEF Fits, EInv, Placed
<1>. QED BY <1>1, <1>2, <1>3, <1>5, <1>6, StayStep

LEMMA EInvAddRead ==
  ASSUME EInv, NEW t \in Tasks, AddRead(t)
  PROVE  EInv'
<1>1. /\ "resolve" \in Calls /\ "addWrite" \in Calls /\ pc[t] = "addRead"
      /\ t # "checker" /\ t # "reader" /\ cast[t] \in Ballots
  BY DEF Calls, AddRead, EInv, Placed
<1>2. UNCHANGED <<record, lease, deadlinePassed, kafka, said, earned, ballots,
                  answer, unnoticed, faults>>
  BY DEF AddRead, store, histories, failures
<1>3. CASE record = NoElection /\ Goto(t, "resolve") /\ UNCHANGED <<cast, seen, final>>
  <2>1. pc' = [pc EXCEPT ![t] = "resolve"] /\ overlapped' \in BOOLEAN
    BY <1>1, <1>3, BeginGoto
  <2>2. RestOK'
    BY <1>2, <2>1, RestStays, RestUnchanged
  <2>3. Fits(t, "resolve", cast[t], seen[t], final[t])
    BY <1>1 DEF Fits
  <2>. QED BY <1>1, <1>2, <1>3, <2>1, <2>2, <2>3, StayStep
<1>4. CASE record # NoElection /\ Goto(t, "addWrite") /\ Remember(t, record)
  <2>1. pc' = [pc EXCEPT ![t] = "addWrite"] /\ overlapped' \in BOOLEAN
    BY <1>1, <1>4, BeginGoto
  <2>2. RestOK'
    BY <1>2, <2>1, RestStays, RestUnchanged
  <2>3. Lands(t, "addWrite", cast[t], record, final[t])
    BY <1>4, <2>1, Now DEF Lands, Remember
  <2>4. Fits(t, "addWrite", cast[t], record, final[t])
    BY <1>1, <1>4 DEF Fits, EInv, TypeOK
  <2>5. SoundNow(record') /\ SoundNow(record) /\ SoundNow(final[t]) /\ SpokenNow(cast[t])
    BY <1>2, Now
  <2>. QED BY <1>1, <1>2, <2>2, <2>3, <2>4, <2>5, TaskStep
<1>. QED BY <1>3, <1>4 DEF AddRead

LEMMA WriteBackIsSound ==
  ASSUME EInv, NEW doc, SoundNow(doc), WriteBack(doc)
  PROVE  SoundNow(record') /\ lease' \in {"deadline", "default"}
BY Now DEF WriteBack, RestOK

\* A vote that is written makes what its document comes to earned.
LEMMA EInvAddWrite ==
  ASSUME EInv, NEW t \in Tasks, AddWrite(t)
  PROVE  EInv'
<1>. DEFINE doc == [seen[t] EXCEPT !.votes[cast[t].agent] = cast[t].decision]
<1>1. /\ "resolve" \in Calls /\ pc[t] = "addWrite" /\ t # "checker"
      /\ seen[t] \in Elections /\ cast[t] \in Ballots
  BY DEF Calls, AddWrite, EInv, Placed
<1>2. /\ UNCHANGED <<deadlinePassed, kafka, said, ballots, answer, unnoticed, faults>>
      /\ record' = doc /\ lease' \in {"deadline", "default"}
      /\ earned' = earned \cup {Resolution(record'.votes)}
      /\ Goto(t, "resolve") /\ Remember(t, NoElection)
  BY Now DEF AddWrite, WriteBack, RestOK, failures
<1>3. Sound(record', said, earned', deadlinePassed)
  <2>1. Spoken(cast[t], said)
    BY <1>1, Now, ElectionAssumption DEF SpokenNow
  <2>2. Sound(seen[t], said, earned, deadlinePassed) /\ said \in [Agents -> SUBSET Decisions]
    BY Now DEF SoundNow, RestOK
  <2>3. Sound(doc, said, earned \cup {Resolution(doc.votes)}, deadlinePassed)
    BY <1>1, <2>1, <2>2, SoundVote
  <2>. HIDE DEF doc
  <2>4. earned' = earned \cup {Resolution(doc.votes)}
    BY <1>2
  <2>. QED BY <1>2, <2>3, <2>4
<1>. HIDE DEF doc
<1>4. pc' = [pc EXCEPT ![t] = "resolve"] /\ overlapped' \in BOOLEAN
  BY <1>1, <1>2, BeginGoto
<1>5. RestOK'
  <2>1. deadlinePassed' \in BOOLEAN /\ unnoticed' \in BOOLEAN
    BY <1>2, Now, Zenon DEF RestOK
  <2>2. earned' \subseteq {"none", "APPROVE", "DENY"}
    BY <1>2, Now, ResolutionIs DEF RestOK
  <2>3. \A i \in 1..Len(topic') : Spoken(topic'[i], said')
    <3>1. topic' = topic /\ said' = said
      BY <1>2 DEF kafka
    <3>. QED BY <3>1, Now DEF RestOK
  <2>4. /\ topic' \in Seq(Ballots) /\ said' \in [Agents -> SUBSET Decisions]
        /\ position' \in 0..Len(topic') /\ committed' \in 0..position'
        /\ ballots' \in 0..MaxBallots /\ answer' \in {"none", "APPROVE", "DENY"}
        /\ faults' \in 0..MaxFaults
    BY <1>2, Now DEF RestOK, kafka
  <2>. QED BY <1>2, <1>4, <2>1, <2>2, <2>3, <2>4, Zenon DEF RestOK
<1>6. Lands(t, "resolve", cast[t], NoElection, final[t])
  BY <1>2, <1>4, Now DEF Lands, Remember
<1>7. Fits(t, "resolve", cast[t], NoElection, final[t])
  BY <1>1 DEF Fits
<1>8. said' = said /\ deadlinePassed' = deadlinePassed
  BY <1>2
<1>9. /\ Sound(record', said', earned', deadlinePassed')
      /\ Sound(NoElection, said', earned', deadlinePassed')
      /\ Sound(final[t], said', earned', deadlinePassed')
  <2>1. Sound(final[t], said, earned, deadlinePassed)
    BY Now DEF SoundNow
  <2>2. earned \subseteq earned'
    BY <1>2
  <2>3. Sound(final[t], said, earned', deadlinePassed)
    <3>1. Grows(said, said, earned, earned', deadlinePassed, deadlinePassed)
      BY <2>2 DEF Grows
    <3>. QED BY <2>1, <3>1, SoundLater, Zenon
  <2>4. Sound(NoElection, said', earned', deadlinePassed')
    BY DEF Sound
  <2>. QED BY <1>3, <1>8, <2>3, <2>4
<1>10. cast[t] = NoBallot \/ Spoken(cast[t], said')
  BY <1>8, Now DEF SpokenNow
<1>11. earned \subseteq earned' /\ \A a \in Agents : said[a] \subseteq said'[a]
  BY <1>2, <1>8
<1>. QED BY <1>1, <1>5, <1>6, <1>7, <1>8, <1>9, <1>10, <1>11, GrowStep

\* Return, whatever it is the last step of.
LEMMA EInvReturn ==
  ASSUME EInv, NEW t \in Tasks, t # "checker", Return(t),
         UNCHANGED <<deadlinePassed, kafka, said, earned, ballots>>, SoundNow(record'),
         lease' \in {"deadline", "default"}, unnoticed' \in BOOLEAN,
         answer' \in {"none", "APPROVE", "DENY"}, faults' \in 0..MaxFaults
  PROVE  EInv'
<1>. DEFINE next == CASE t = "consumer" -> "commit"
                      [] t = "reader"   -> "reread"
                      [] OTHER          -> "idle"
<1>1. /\ next \in Calls /\ next \in {"commit", "reread", "idle"}
      /\ t = "reader" => next = "reread"
  BY DEF Calls
<1>2. Goto(t, next) /\ Forget(t)
  BY DEF Return
<1>. HIDE DEF next
<1>3. pc' = [pc EXCEPT ![t] = next] /\ overlapped' \in BOOLEAN
  BY <1>1, <1>2, BeginGoto
<1>4. RestOK'
  BY <1>2, <1>3, RestStays
<1>. QED BY <1>1, <1>2, <1>3, <1>4, ForgetStep

LEMMA EInvResolve ==
  ASSUME EInv, NEW t \in Tasks, Resolve(t)
  PROVE  EInv'
<1>1. pc[t] = "resolve" /\ t # "checker" /\ "statusRead" \in Calls
  BY DEF Resolve, EInv, Placed, Calls
<1>2. UNCHANGED <<record, lease, deadlinePassed, kafka, said, earned, ballots, answer,
                  unnoticed, faults>>
  BY DEF Resolve, store, histories, failures
<1>3. CASE Verdict = "none" /\ Return(t)
  <2>1. /\ lease' \in {"deadline", "default"} /\ unnoticed' \in BOOLEAN
        /\ answer' \in {"none", "APPROVE", "DENY"} /\ faults' \in 0..MaxFaults
    BY <1>2, RestUnchanged
  <2>2. SoundNow(record')
    BY <1>2, Now
  <2>. QED BY <1>1, <1>2, <1>3, <2>1, <2>2, EInvReturn
<1>4. CASE /\ Verdict # "none"
           /\ ToWrite(t, [record EXCEPT !.status = "CLOSED", !.result = Verdict])
           /\ Goto(t, "statusRead")
  <2>. DEFINE doc == [record EXCEPT !.status = "CLOSED", !.result = Verdict]
  <2>1. record \in Elections /\ Verdict = Resolution(record.votes)
    BY <1>4 DEF Verdict, EInv, TypeOK
  <2>2. doc \in Elections /\ SoundNow(doc)
    BY <1>4, <2>1, Now, SoundResolution DEF SoundNow
  <2>3. ToWrite(t, doc)
    BY <1>4
  <2>. HIDE DEF doc
  <2>4. pc' = [pc EXCEPT ![t] = "statusRead"] /\ overlapped' \in BOOLEAN
    BY <1>1, <1>4, BeginGoto
  <2>5. RestOK'
    BY <1>2, <1>4, <2>4, RestStays, RestUnchanged
  <2>6. Lands(t, "statusRead", cast[t], seen[t], doc)
    BY <2>3, <2>4, Now DEF Lands, ToWrite
  <2>7. Fits(t, "statusRead", cast[t], seen[t], doc)
    BY <2>2 DEF Fits
  <2>8. SoundNow(record') /\ SoundNow(seen[t]) /\ SpokenNow(cast[t])
    BY <1>2, Now
  <2>. QED BY <1>1, <1>2, <2>2, <2>5, <2>6, <2>7, <2>8, TaskStep
<1>. QED BY <1>3, <1>4 DEF Resolve

\* EndStatus, whatever came before it.
LEMMA EInvEndStatus ==
  ASSUME EInv, NEW t \in Tasks, EndStatus(t), pc[t] \in {"statusRead", "statusWrite"},
         UNCHANGED <<deadlinePassed, kafka, said, earned, ballots>>, SoundNow(record'),
         lease' \in {"deadline", "default"}, unnoticed' \in BOOLEAN,
         faults' \in 0..MaxFaults
  PROVE  EInv'
<1>1. "idle" \in Calls /\ "save" \in Calls /\ final[t] \in Elections
  BY DEF Calls, EInv, Placed
<1>2. CASE MarksOnly(t) /\ Goto(t, "idle") /\ Forget(t) /\ answer' = "DENY"
  <2>1. pc' = [pc EXCEPT ![t] = "idle"] /\ overlapped' \in BOOLEAN
    BY <1>1, <1>2, BeginGoto
  <2>2. RestOK'
    BY <1>2, <2>1, RestStays
  <2>. QED BY <1>1, <1>2, <2>1, <2>2, ForgetStep
<1>3. CASE Goto(t, "save") /\ Remember(t, NoElection) /\ UNCHANGED answer
  <2>1. pc' = [pc EXCEPT ![t] = "save"] /\ overlapped' \in BOOLEAN
    BY <1>1, <1>3, BeginGoto
  <2>2. RestOK'
    BY <1>3, <2>1, RestStays, RestUnchanged
  <2>3. Lands(t, "save", cast[t], NoElection, final[t])
    BY <1>3, <2>1, Now DEF Lands, Remember
  <2>4. Fits(t, "save", cast[t], NoElection, final[t])
    BY <1>1 DEF Fits
  <2>. QED BY <1>1, <2>2, <2>3, <2>4, Now, TaskStep
<1>. QED BY <1>2, <1>3 DEF EndStatus

LEMMA EInvStatusRead ==
  ASSUME EInv, NEW t \in Tasks, StatusRead(t)
  PROVE  EInv'
<1>1. /\ pc[t] = "statusRead" /\ "statusWrite" \in Calls /\ final[t] \in Elections
  BY DEF StatusRead, EInv, Placed, Calls
<1>2. UNCHANGED <<record, lease, deadlinePassed, kafka, said, earned, ballots, unnoticed,
                  faults>>
  BY DEF StatusRead, store, histories, failures
<1>3. SoundNow(record')
  BY <1>2, Now
<1>4. CASE EndStatus(t)
  <2>1. /\ lease' \in {"deadline", "default"} /\ unnoticed' \in BOOLEAN
        /\ faults' \in 0..MaxFaults
    BY <1>2, RestUnchanged
  <2>. QED BY <1>1, <1>2, <1>3, <1>4, <2>1, EInvEndStatus
<1>5. CASE /\ record # NoElection
           /\ Goto(t, "statusWrite") /\ Remember(t, record)
           /\ UNCHANGED answer
  <2>1. pc' = [pc EXCEPT ![t] = "statusWrite"] /\ overlapped' \in BOOLEAN
    BY <1>1, <1>5, BeginGoto
  <2>2. RestOK'
    BY <1>2, <1>5, <2>1, RestStays, RestUnchanged
  <2>3. Lands(t, "statusWrite", cast[t], record, final[t])
    BY <1>5, <2>1, Now DEF Lands, Remember
  <2>4. Fits(t, "statusWrite", cast[t], record, final[t])
    BY <1>1, <1>5 DEF Fits, EInv, TypeOK
  <2>. QED BY <1>1, <1>2, <1>3, <2>2, <2>3, <2>4, Now, TaskStep
<1>. QED BY <1>4, <1>5 DEF StatusRead

LEMMA EInvStatusWrite ==
  ASSUME EInv, NEW t \in Tasks, StatusWrite(t)
  PROVE  EInv'
<1>. DEFINE doc == [seen[t] EXCEPT !.status = final[t].status]
<1>1. pc[t] = "statusWrite" /\ seen[t] \in Elections /\ final[t] \in Elections
  BY DEF StatusWrite, EInv, Placed
<1>2. /\ UNCHANGED <<deadlinePassed, kafka, said, earned, ballots, unnoticed, faults>>
      /\ WriteBack(doc) /\ EndStatus(t)
  BY DEF StatusWrite, histories, failures
<1>3. SoundNow(doc)
  <2>1. final[t].status \in {"OPEN", "CLOSED", "EXPIRED"}
    BY <1>1 DEF Elections
  <2>2. Sound(seen[t], said, earned, deadlinePassed)
    BY Now DEF SoundNow
  <2>. QED BY <1>1, <2>1, <2>2, SoundStatus DEF SoundNow
<1>. HIDE DEF doc
<1>4. SoundNow(record') /\ lease' \in {"deadline", "default"}
  BY <1>2, <1>3, WriteBackIsSound
<1>5. unnoticed' \in BOOLEAN /\ faults' \in 0..MaxFaults
  BY <1>2, RestUnchanged
<1>. QED BY <1>1, <1>2, <1>4, <1>5, EInvEndStatus

LEMMA EInvSave ==
  ASSUME EInv, NEW t \in Tasks, Save(t)
  PROVE  EInv'
<1>1. pc[t] = "save" /\ "escalate" \in Calls
  BY DEF Save, Calls
<1>2. UNCHANGED <<deadlinePassed, kafka, said, earned, ballots, answer, unnoticed, faults>>
  BY DEF Save, histories, failures
<1>3. SoundNow(record') /\ lease' \in {"deadline", "default"}
  BY Now DEF Save
<1>4. CASE t # "checker" /\ Return(t)
  <2>1. /\ unnoticed' \in BOOLEAN /\ answer' \in {"none", "APPROVE", "DENY"}
        /\ faults' \in 0..MaxFaults
    BY <1>2, RestUnchanged
  <2>. QED BY <1>1, <1>2, <1>3, <1>4, <2>1, EInvReturn
<1>5. CASE t = "checker" /\ Goto(t, "escalate") /\ Forget(t)
  <2>1. pc' = [pc EXCEPT ![t] = "escalate"] /\ overlapped' \in BOOLEAN
    BY <1>1, <1>5, BeginGoto
  <2>2. RestOK'
    BY <1>2, <1>3, <1>5, <2>1, RestStays, RestUnchanged
  <2>. QED BY <1>1, <1>2, <1>3, <1>5, <2>1, <2>2, ForgetStep
<1>. QED BY <1>4, <1>5 DEF Save

LEMMA EInvStep ==
  ASSUME EInv, NEW t \in Tasks, Step(t)
  PROVE  EInv'
BY EInvPublish, EInvAddRead, EInvAddWrite, EInvResolve, EInvStatusRead,
   EInvStatusWrite, EInvSave DEF Step

LEMMA FaultsBounded ==
  ASSUME EInv, faults < MaxFaults, faults' = faults + 1
  PROVE  faults' \in 0..MaxFaults
BY Now, ElectionAssumption DEF RestOK

LEMMA EInvConsumeEvent ==
  ASSUME EInv, ConsumeEvent
  PROVE  EInv'
<1>. DEFINE event == topic[position']
<1>1. /\ "consumer" \in Tasks /\ "consumer" # "checker" /\ "consumer" # "reader"
      /\ "commit" \in Calls /\ "validate" \in Calls
  BY TaskNames DEF Calls
<1>2. /\ UNCHANGED <<record, lease, deadlinePassed, topic, committed, seen, final,
                     said, earned, ballots, answer, unnoticed, faults>>
      /\ position < Len(topic) /\ position' = position + 1
  BY DEF ConsumeEvent, store, histories, failures
<1>3. /\ Len(topic) \in Nat /\ position \in 0..Len(topic) /\ committed \in 0..position
      /\ \A i \in 1..Len(topic) : Spoken(topic[i], said)
  BY Now DEF RestOK
<1>4. Spoken(event, said) /\ event \in Ballots
  <2>1. position' \in 1..Len(topic)
    BY <1>2, <1>3
  <2>. QED BY <1>3, <2>1 DEF Spoken
<1>. HIDE DEF event
<1>5. ASSUME overlapped' \in BOOLEAN
      PROVE  RestOK'
  <2>1. position' \in 0..Len(topic) /\ committed' \in 0..position'
    BY <1>2, <1>3
  <2>2. unnoticed' \in BOOLEAN /\ faults' \in 0..MaxFaults
    BY <1>2, RestUnchanged
  <2>. QED BY <1>2, <1>5, <2>1, <2>2, RestMoves
<1>6. CASE Begin("consumer", "commit") /\ UNCHANGED cast
  <2>1. pc' = [pc EXCEPT !["consumer"] = "commit"] /\ overlapped' \in BOOLEAN
    BY <1>1, <1>6, BeginGoto
  <2>2. Fits("consumer", "commit", cast["consumer"], seen["consumer"], final["consumer"])
    BY DEF Fits
  <2>. QED BY <1>1, <1>2, <1>5, <1>6, <2>1, <2>2, StayStep
<1>7. CASE /\ Begin("consumer", "validate")
           /\ cast' = [cast EXCEPT !["consumer"] = event]
  <2>1. pc' = [pc EXCEPT !["consumer"] = "validate"] /\ overlapped' \in BOOLEAN
    BY <1>1, <1>7, BeginGoto
  <2>2. Lands("consumer", "validate", event, seen["consumer"], final["consumer"])
    BY <1>1, <1>2, <1>7, <2>1, Now DEF Lands
  <2>3. Fits("consumer", "validate", event, seen["consumer"], final["consumer"])
    BY <1>4 DEF Fits
  <2>4. SpokenNow(event) /\ SoundNow(record')
    BY <1>2, <1>4, Now DEF SpokenNow
  <2>. QED BY <1>1, <1>2, <1>5, <2>1, <2>2, <2>3, <2>4, Now, TaskStep
<1>. QED BY <1>6, <1>7 DEF ConsumeEvent, event

LEMMA EInvCommit ==
  ASSUME EInv, Commit \/ ConsumerRestarts
  PROVE  EInv'
<1>1. "consumer" \in Tasks /\ "consumer" # "checker" /\ "consumer" # "reader" /\ "idle" \in Calls
  BY TaskNames DEF Calls
<1>2. Len(topic) \in Nat /\ position \in 0..Len(topic) /\ committed \in 0..position
  BY Now DEF RestOK
<1>3. /\ UNCHANGED <<record, lease, deadlinePassed, topic, said, earned, ballots, answer,
                     unnoticed>>
      /\ Goto("consumer", "idle") /\ Forget("consumer")
  BY DEF Commit, ConsumerRestarts, store, histories, failures
<1>4. pc' = [pc EXCEPT !["consumer"] = "idle"] /\ overlapped' \in BOOLEAN
  BY <1>1, <1>3, BeginGoto
<1>5. /\ position' \in 0..Len(topic) /\ committed' \in 0..position'
      /\ faults' \in 0..MaxFaults
  <2>1. CASE Commit
    BY <1>2, <2>1, RestUnchanged DEF Commit, failures
  <2>2. CASE ConsumerRestarts
    BY <1>2, <2>2, FaultsBounded DEF ConsumerRestarts
  <2>. QED BY <2>1, <2>2
<1>6. RestOK'
  BY <1>3, <1>4, <1>5, RestUnchanged, RestMoves
<1>7. SoundNow(record')
  BY <1>3, Now
<1>. QED BY <1>1, <1>3, <1>4, <1>6, <1>7, ForgetStep

\* An operation that begins with the election expired, and the snapshot doc.
LEMMA EInvFoundExpired ==
  ASSUME EInv, NEW t \in {"checker", "reader"}, Begin(t, "statusRead"),
         NEW doc \in Elections, SoundNow(doc), ToWrite(t, doc),
         UNCHANGED <<store, deadlinePassed, kafka, histories, answer, failures>>
  PROVE  EInv'
<1>1. t \in Tasks /\ "statusRead" \in Calls
  BY TaskNames DEF Calls
<1>2. UNCHANGED <<record, lease, deadlinePassed, kafka, said, earned, ballots, answer,
                  unnoticed, faults>>
  BY DEF store, histories, failures
<1>3. pc' = [pc EXCEPT ![t] = "statusRead"] /\ overlapped' \in BOOLEAN
  BY <1>1, BeginGoto
<1>4. RestOK'
  BY <1>2, <1>3, RestStays, RestUnchanged
<1>5. Lands(t, "statusRead", cast[t], seen[t], doc)
  BY <1>1, <1>3, Now DEF Lands, ToWrite
<1>6. Fits(t, "statusRead", cast[t], seen[t], doc)
  BY DEF Fits
<1>7. SoundNow(record') /\ SoundNow(seen[t]) /\ SpokenNow(cast[t])
  BY <1>1, <1>2, Now
<1>. QED BY <1>1, <1>2, <1>4, <1>5, <1>6, <1>7, TaskStep

LEMMA EInvCheck ==
  ASSUME EInv, Check
  PROVE  EInv'
<1>. DEFINE doc == [record EXCEPT !.status = "EXPIRED", !.result = "DENY"]
<1>1. record \in Elections
  BY DEF Check, Overdue, Open, EInv, TypeOK
<1>2. deadlinePassed = TRUE
  BY Now, Zenon DEF Check, Overdue, RestOK
<1>3. doc \in Elections /\ SoundNow(doc)
  BY <1>1, <1>2, Now, SoundDenial DEF SoundNow
<1>4. ToWrite("checker", doc) /\ Begin("checker", "statusRead")
  BY DEF Check
<1>5. UNCHANGED <<store, deadlinePassed, kafka, histories, answer, failures>>
  BY DEF Check
<1>. HIDE DEF doc
<1>. QED BY <1>3, <1>4, <1>5, EInvFoundExpired

LEMMA EInvGetExpired ==
  ASSUME EInv, GetExpired
  PROVE  EInv'
<1>. DEFINE doc == [record EXCEPT !.status = "EXPIRED"]
<1>1. record \in Elections
  BY DEF GetExpired, Overdue, Open, EInv, TypeOK
<1>2. Sound(record, said, earned, deadlinePassed)
  BY Now DEF SoundNow
<1>3. doc \in Elections /\ SoundNow(doc)
  BY <1>1, <1>2, SoundStatus DEF SoundNow
<1>4. ToWrite("reader", doc) /\ Begin("reader", "statusRead")
  BY DEF GetExpired
<1>5. UNCHANGED <<store, deadlinePassed, kafka, histories, answer, failures>>
  BY DEF GetExpired
<1>. HIDE DEF doc
<1>. QED BY <1>3, <1>4, <1>5, EInvFoundExpired

LEMMA EInvEscalate ==
  ASSUME EInv, Escalate
  PROVE  EInv'
<1>1. "checker" \in Tasks /\ "idle" \in Calls
  BY TaskNames DEF Calls
<1>2. /\ UNCHANGED <<record, lease, deadlinePassed, kafka, cast, seen, final, said, earned,
                     ballots, answer, unnoticed, faults>>
      /\ Goto("checker", "idle")
  BY DEF Escalate, store, histories, failures
<1>3. pc' = [pc EXCEPT !["checker"] = "idle"] /\ overlapped' \in BOOLEAN
  BY <1>1, <1>2, BeginGoto
<1>4. RestOK'
  BY <1>2, <1>3, RestStays, RestUnchanged
<1>5. Fits("checker", "idle", cast["checker"], seen["checker"], final["checker"])
  BY DEF Fits
<1>. QED BY <1>1, <1>2, <1>3, <1>4, <1>5, StayStep

LEMMA ResultIsDecision ==
  ASSUME EInv, record # NoElection
  PROVE  record.result \in {"none", "APPROVE", "DENY"}
BY DEF EInv, TypeOK, Elections

\* A step that changes only the answer.
LEMMA EInvAnswer ==
  ASSUME EInv, answer' \in {"none", "APPROVE", "DENY"},
         UNCHANGED <<record, lease, deadlinePassed, kafka, pc, cast, seen, final, said,
                     earned, ballots, overlapped, unnoticed, faults>>
  PROVE  EInv'
<1>1. RestOK'
  BY RestStays, RestUnchanged
<1>2. /\ record' \in Elections \cup {NoElection}
      /\ pc' \in [Tasks -> Calls]
      /\ cast' \in [Tasks -> Ballots \cup {NoBallot}]
      /\ seen' \in [Tasks -> Elections \cup {NoElection}]
      /\ final' \in [Tasks -> Elections \cup {NoElection}]
  BY DEF EInv, TypeOK
<1>3. TypeOK'
  BY <1>1, <1>2, Zenon DEF TypeOK, RestOK
<1>4. Placed'
  BY DEF EInv, Placed
<1>5. AllSound' /\ AllSpoken'
  <2>1. UNCHANGED <<record, cast, seen, final, topic, said, earned, deadlinePassed>>
    BY DEF kafka
  <2>. QED BY <2>1, Zenon DEF EInv, AllSound, AllSpoken
<1>. QED BY <1>3, <1>4, <1>5, Zenon DEF EInv

LEMMA EInvGetResult ==
  ASSUME EInv, GetResult
  PROVE  EInv'
<1>1. /\ UNCHANGED <<record, lease, deadlinePassed, kafka, said, earned, ballots,
                     unnoticed, faults>>
      /\ record # NoElection
  BY DEF GetResult, store, histories, failures
<1>2. CASE /\ answer' = "DENY" \/ answer' = record.result
           /\ UNCHANGED <<locals, overlapped>>
  <2>1. answer' \in {"none", "APPROVE", "DENY"}
    BY <1>1, <1>2, ResultIsDecision
  <2>. QED BY <1>1, <1>2, <2>1, EInvAnswer DEF locals
<1>3. CASE Begin("reader", "resolve") /\ UNCHANGED <<cast, seen, final, answer>>
  <2>1. "reader" \in Tasks /\ "resolve" \in Calls
    BY TaskNames DEF Calls
  <2>2. pc' = [pc EXCEPT !["reader"] = "resolve"] /\ overlapped' \in BOOLEAN
    BY <1>3, <2>1, BeginGoto
  <2>3. RestOK'
    BY <1>1, <1>3, <2>2, RestStays, RestUnchanged
  <2>4. Fits("reader", "resolve", cast["reader"], seen["reader"], final["reader"])
    BY DEF Fits
  <2>. QED BY <1>1, <1>3, <2>1, <2>2, <2>3, <2>4, StayStep
<1>. QED BY <1>2, <1>3 DEF GetResult

LEMMA EInvReread ==
  ASSUME EInv, Reread
  PROVE  EInv'
<1>1. "reader" \in Tasks /\ "idle" \in Calls
  BY TaskNames DEF Calls
<1>2. /\ UNCHANGED <<record, lease, deadlinePassed, kafka, cast, seen, final, said, earned,
                     ballots, unnoticed, faults>>
      /\ Goto("reader", "idle")
  BY DEF Reread, store, histories, failures
<1>3. answer' \in {"none", "APPROVE", "DENY"}
  <2>1. answer \in {"none", "APPROVE", "DENY"}
    BY Now DEF RestOK
  <2>. QED BY <2>1, ResultIsDecision DEF Reread
<1>4. pc' = [pc EXCEPT !["reader"] = "idle"] /\ overlapped' \in BOOLEAN
  BY <1>1, <1>2, BeginGoto
<1>5. RestOK'
  BY <1>2, <1>3, <1>4, RestStays, RestUnchanged
<1>6. Fits("reader", "idle", cast["reader"], seen["reader"], final["reader"])
  BY DEF Fits
<1>. QED BY <1>1, <1>2, <1>4, <1>5, <1>6, StayStep

LEMMA EInvAbort ==
  ASSUME EInv, NEW t \in Tasks, Abort(t)
  PROVE  EInv'
<1>1. /\ UNCHANGED <<record, lease, deadlinePassed, kafka, said, earned, ballots, answer,
                     unnoticed>>
      /\ faults < MaxFaults /\ faults' = faults + 1
      /\ Goto(t, "idle") /\ Forget(t) /\ "idle" \in Calls
  BY DEF Abort, store, histories, Calls
<1>2. faults' \in 0..MaxFaults
  BY <1>1, FaultsBounded
<1>3. pc' = [pc EXCEPT ![t] = "idle"] /\ overlapped' \in BOOLEAN
  BY <1>1, BeginGoto
<1>4. RestOK'
  BY <1>1, <1>2, <1>3, RestStays, RestUnchanged
<1>5. SoundNow(record')
  BY <1>1, Now
<1>. QED BY <1>1, <1>3, <1>4, <1>5, ForgetStep

LEMMA EInvStoreFails ==
  ASSUME EInv, NEW t \in Tasks, StoreFails(t)
  PROVE  EInv'
<1>1. /\ UNCHANGED <<record, lease, deadlinePassed, topic, committed, said, earned, ballots>>
      /\ faults < MaxFaults /\ faults' = faults + 1 /\ unnoticed' = TRUE
      /\ {"resolve", "escalate", "commit"} \subseteq Calls
  BY DEF StoreFails, store, histories, Calls
<1>2. unnoticed' \in BOOLEAN
  BY <1>1, Zenon
<1>3. faults' \in 0..MaxFaults
  BY <1>1, FaultsBounded
<1>4. SoundNow(record') /\ lease' \in {"deadline", "default"}
  BY <1>1, Now, RestUnchanged
<1>5. CASE /\ pc[t] \in {"addRead", "addWrite"}
           /\ Goto(t, "resolve") /\ Remember(t, NoElection)
           /\ UNCHANGED <<position, answer>>
  <2>1. pc' = [pc EXCEPT ![t] = "resolve"] /\ overlapped' \in BOOLEAN
    BY <1>1, <1>5, BeginGoto
  <2>2. RestOK'
    BY <1>1, <1>2, <1>3, <1>4, <1>5, <2>1, RestStays, RestUnchanged DEF kafka
  <2>3. Lands(t, "resolve", cast[t], NoElection, final[t])
    BY <1>5, <2>1, Now DEF Lands, Remember
  <2>4. Fits(t, "resolve", cast[t], NoElection, final[t])
    BY <1>5 DEF Fits, EInv, Placed
  <2>. QED BY <1>1, <1>4, <2>2, <2>3, <2>4, Now, TaskStep
<1>6. CASE /\ pc[t] = "resolve" \/ (pc[t] = "save" /\ t # "checker")
           /\ Return(t)
           /\ UNCHANGED <<position, answer>>
  <2>1. t # "checker"
    BY <1>6 DEF EInv, Placed
  <2>2. answer' \in {"none", "APPROVE", "DENY"}
    BY <1>6, RestUnchanged
  <2>. QED BY <1>1, <1>2, <1>3, <1>4, <1>6, <2>1, <2>2, EInvReturn DEF kafka
<1>7. CASE /\ pc[t] = "save" /\ t = "checker"
           /\ Goto(t, "escalate") /\ Forget(t)
           /\ UNCHANGED <<position, answer>>
  <2>1. pc' = [pc EXCEPT ![t] = "escalate"] /\ overlapped' \in BOOLEAN
    BY <1>1, <1>7, BeginGoto
  <2>2. RestOK'
    BY <1>1, <1>2, <1>3, <1>4, <1>7, <2>1, RestStays, RestUnchanged DEF kafka
  <2>. QED BY <1>1, <1>4, <1>7, <2>1, <2>2, ForgetStep
<1>8. CASE /\ pc[t] \in {"statusRead", "statusWrite"}
           /\ EndStatus(t)
           /\ UNCHANGED position
  BY <1>1, <1>2, <1>3, <1>4, <1>8, EInvEndStatus DEF kafka
<1>9. CASE /\ pc[t] = "validate"
           /\ Goto(t, "commit") /\ Forget(t)
           /\ UNCHANGED <<position, answer>>
  <2>1. pc' = [pc EXCEPT ![t] = "commit"] /\ overlapped' \in BOOLEAN
    BY <1>1, <1>9, BeginGoto
  <2>2. RestOK'
    BY <1>1, <1>2, <1>3, <1>4, <1>9, <2>1, RestStays, RestUnchanged DEF kafka
  <2>3. t # "checker" /\ t # "reader"
    BY <1>9 DEF EInv, Placed
  <2>. QED BY <1>1, <1>4, <1>9, <2>1, <2>2, <2>3, ForgetStep
<1>10. CASE /\ t = "consumer" /\ position < Len(topic)
            /\ Begin(t, "commit")
            /\ position' = position + 1
            /\ UNCHANGED <<cast, seen, final, answer>>
  <2>1. pc' = [pc EXCEPT ![t] = "commit"] /\ overlapped' \in BOOLEAN
    BY <1>1, <1>10, BeginGoto
  <2>2. position' \in 0..Len(topic) /\ committed' \in 0..position'
    <3>1. Len(topic) \in Nat /\ position \in 0..Len(topic) /\ committed \in 0..position
      BY Now DEF RestOK
    <3>. QED BY <1>1, <1>10, <3>1
  <2>3. RestOK'
    BY <1>1, <1>2, <1>3, <1>10, <2>1, <2>2, RestMoves
  <2>4. Fits(t, "commit", cast[t], seen[t], final[t])
    BY <1>10 DEF Fits
  <2>. QED BY <1>1, <1>10, <2>1, <2>3, <2>4, StayStep
<1>. QED BY <1>5, <1>6, <1>7, <1>8, <1>9, <1>10 DEF StoreFails

LEMMA EInvTime ==
  ASSUME EInv, DeadlinePasses \/ KeyExpires
  PROVE  EInv'
<1>1. UNCHANGED <<pc, cast, seen, final, topic, position, committed, said, earned, ballots,
                  answer, lease, unnoticed, faults>>
  BY DEF DeadlinePasses, KeyExpires, store, kafka, locals, histories, failures
<1>2. record' = record \/ record' = NoElection
  BY DEF DeadlinePasses, KeyExpires, store
<1>3. deadlinePassed' \in BOOLEAN /\ overlapped' \in BOOLEAN /\ unnoticed' \in BOOLEAN
  <2>1. CASE DeadlinePasses
    BY <1>1, <2>1, Now, Zenon DEF RestOK, DeadlinePasses
  <2>2. CASE KeyExpires
    <3>1. overlapped' \in BOOLEAN
      BY <2>2 DEF KeyExpires
    <3>. QED BY <1>1, <2>2, <3>1, Now, Zenon DEF RestOK, KeyExpires
  <2>. QED BY <2>1, <2>2
<1>4. TypeOK'
  <2>1. /\ record' \in Elections \cup {NoElection}
        /\ lease' \in {"deadline", "default"}
        /\ topic' \in Seq(Ballots)
        /\ position' \in 0..Len(topic') /\ committed' \in 0..position'
        /\ pc' \in [Tasks -> Calls]
        /\ cast' \in [Tasks -> Ballots \cup {NoBallot}]
        /\ seen' \in [Tasks -> Elections \cup {NoElection}]
        /\ final' \in [Tasks -> Elections \cup {NoElection}]
        /\ said' \in [Agents -> SUBSET Decisions]
        /\ earned' \subseteq {"none", "APPROVE", "DENY"} /\ ballots' \in 0..MaxBallots
        /\ answer' \in {"none", "APPROVE", "DENY"} /\ faults' \in 0..MaxFaults
    BY <1>1, <1>2 DEF EInv, TypeOK
  <2>. QED BY <1>3, <2>1, Zenon DEF TypeOK
<1>5. Placed' /\ AllSpoken'
  BY <1>1 DEF EInv, Placed, AllSpoken
<1>6. AllSound'
  <2>1. deadlinePassed = TRUE => deadlinePassed' = TRUE
    BY Zenon DEF DeadlinePasses, KeyExpires
  <2>2. ASSUME NEW d, SoundNow(d) PROVE Sound(d, said', earned', deadlinePassed')
    <3>1. said' = said /\ earned' = earned
      BY <1>1
    <3>2. Grows(said, said', earned, earned', deadlinePassed, deadlinePassed')
      BY <2>1, <3>1 DEF Grows
    <3>. QED BY <2>2, <3>2, SoundLater, Zenon DEF SoundNow
  <2>3. SoundNow(record') /\ \A t \in Tasks : SoundNow(seen'[t]) /\ SoundNow(final'[t])
    BY <1>1, <1>2, Now
  <2>. QED BY <2>2, <2>3, Zenon DEF AllSound
<1>. QED BY <1>4, <1>5, <1>6, Zenon DEF EInv

-----------------------------------------------------------------------------
(* The theorems.                                                           *)

LEMMA NextEInv == EInv /\ [Next]_vars => EInv'
<1>. SUFFICES ASSUME EInv, [Next]_vars PROVE EInv'
  OBVIOUS
<1>. USE TaskNames
<1>1. CASE UNCHANGED vars
  <2>1. UNCHANGED <<record, lease, deadlinePassed, kafka, pc, cast, seen, final, said, earned,
                    ballots, answer, overlapped, unnoticed, faults>>
    BY <1>1 DEF vars, store, locals, histories, failures
  <2>2. answer' \in {"none", "APPROVE", "DENY"}
    BY <2>1, RestUnchanged
  <2>. QED BY <2>1, <2>2, EInvAnswer
<1>2. ASSUME NEW c \in Callers, NEW a \in Agents, NEW decision \in Decisions,
             CastVote(c, a, decision)
      PROVE  EInv'
  BY <1>2, EInvCastVote
<1>3. ASSUME NEW t \in Tasks, Step(t) PROVE EInv'
  BY <1>3, EInvStep
<1>4. CASE Consumer \/ ConsumerRestarts
  BY <1>4, EInvConsumeEvent, EInvCommit, EInvValidate, EInvStep DEF Consumer
<1>5. CASE Checker
  BY <1>5, EInvCheck, EInvEscalate, EInvStep DEF Checker
<1>6. CASE Reader
  BY <1>6, EInvGetResult, EInvGetExpired, EInvReread, EInvStep DEF Reader
<1>7. ASSUME NEW t \in Tasks, Abort(t) \/ StoreFails(t) PROVE EInv'
  BY <1>7, EInvAbort, EInvStoreFails
<1>8. CASE DeadlinePasses \/ KeyExpires
  BY <1>8, EInvTime
<1>. QED BY <1>1, <1>2, <1>3, <1>4, <1>5, <1>6, <1>7, <1>8 DEF Next

\* EInv holds in every state.
THEOREM InvariantHolds == Spec => []EInv
BY InitEInv, NextEInv, PTL DEF Spec

\* The document, the tasks and the offsets are always of their types: whatever
\* calls of cast_vote, get_result, the consumer and the checker overlap or
\* fail, each of them writes back an election and the consumer's position
\* stays between the committed offset and the end of the topic.
THEOREM TypeCorrect == Spec => []TypeOK
<1>1. EInv => TypeOK
  BY DEF EInv
<1>. QED BY <1>1, InvariantHolds, PTL

\* However the read-modify-write calls of add_vote, update_election_status and
\* save_election overlap and fail, and however often agents change their votes,
\* a document with a result, in the store or about to be written, has it from
\* votes that were in the store together; it still holds them, but for those
\* that were changed since; DENY after the deadline needs no votes.
THEOREM ResultsAreJustified == Spec => []ResultIsJustified
<1>1. EInv => ResultIsJustified
  <2>1. \A votes, x : GrantingChanges(votes, x) = Granting(votes, said, x)
    BY DEF GrantingChanges, Granting, Wavers
  <2>. SUFFICES ASSUME EInv, NEW d \in Documents, d # NoElection
                PROVE  /\ d.result = "APPROVE" =>
                            /\ "APPROVE" \in earned
                            /\ Approves(Granting(d.votes, said, "APPROVE"))
                       /\ d.result = "DENY" =>
                            \/ /\ "DENY" \in earned
                               /\ Denies(Granting(d.votes, said, "DENY"))
                            \/ deadlinePassed
    BY <2>1, Zenon DEF ResultIsJustified
  <2>2. Sound(d, said, earned, deadlinePassed)
    BY Now, Zenon DEF Documents, SoundNow
  <2>. QED BY <2>2, Zenon DEF Sound
<1>. QED BY <1>1, InvariantHolds, PTL
=============================================================================
