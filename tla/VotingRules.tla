---------------------------- MODULE VotingRules ----------------------------
(***************************************************************************)
(* When the votes of an election decide it (voting_service.py).  Weights   *)
(* are natural numbers; Weight gives the total weight of a set of agents,  *)
(* and thirds and halves are compared without division.  A decision other  *)
(* than APPROVE and DENY counts for nothing.                               *)
(***************************************************************************)
EXTENDS Integers

CONSTANTS
    Agents,         \* participants of the election
    Decisions,      \* the decisions votes carry
    Weight,         \* total participant_weights of each set of agents
    Strategy,       \* "QUORUM", "UNANIMOUS" or "SUPER_MAJORITY"
    Required,       \* required_approval_weight of the adaptive quorum, or
    NoRequirement   \* its absence

ASSUME RulesAssumption ==
    /\ Decisions \subseteq {"APPROVE", "DENY", "ABSTAIN"}
    /\ Weight \in [SUBSET Agents -> Nat]
    /\ \A S, T \in SUBSET Agents : S \subseteq T => Weight[S] <= Weight[T]
    /\ Strategy \in {"QUORUM", "UNANIMOUS", "SUPER_MAJORITY"}
    /\ Required \in Nat \cup {NoRequirement}
    /\ NoRequirement \notin Nat

\* The votes of a document: the decision of each agent, or "none".
Votes == [Agents -> Decisions \cup {"none"}]

WeightFor(d, votes) == Weight[{a \in Agents : votes[a] = d}]

Total == Weight[Agents]

Approves(votes) ==
    LET w == WeightFor("APPROVE", votes) IN
    \/ Strategy = "QUORUM" /\ Required = NoRequirement /\ 2 * w > Total
    \/ Strategy = "QUORUM" /\ Required # NoRequirement /\ w >= Required
    \/ Strategy = "UNANIMOUS" /\ w >= Total
    \/ Strategy = "SUPER_MAJORITY" /\ 3 * w >= 2 * Total

Denies(votes) ==
    LET w == WeightFor("DENY", votes) IN
    \/ Strategy = "QUORUM" /\ 2 * w >= Total
    \/ Strategy = "QUORUM" /\ Required # NoRequirement /\ Total - w < Required
    \/ Strategy = "UNANIMOUS" /\ w > 0
    \/ Strategy = "SUPER_MAJORITY" /\ 3 * w > Total

\* _evaluate_strategy_resolution; "none" while the election is not resolved.
Resolution(votes) ==
    CASE Approves(votes) -> "APPROVE"
      [] ~Approves(votes) /\ Denies(votes) -> "DENY"
      [] OTHER -> "none"
=============================================================================
