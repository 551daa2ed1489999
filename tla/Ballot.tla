------------------------------- MODULE Ballot -------------------------------
(***************************************************************************)
(* What one election promises: an agent votes, or changes its vote, while  *)
(* the election is open, no vote is lost, the election is decided once, by *)
(* its votes or by its deadline, and the decision stands until the         *)
(* election is forgotten.                                                  *)
(***************************************************************************)
EXTENDS VotingRules

VARIABLES
    counted,    \* the vote of each agent that counts, or "none"
    outcome,    \* "open", "APPROVE", "DENY" or "gone"
    overdue     \* the deadline has passed

vars == <<counted, outcome, overdue>>

NoVotes == [a \in Agents |-> "none"]

Init == counted = NoVotes /\ outcome = "open" /\ overdue = FALSE

Count(a, decision) ==
    /\ outcome = "open"
    /\ counted' = [counted EXCEPT ![a] = decision]
    /\ UNCHANGED <<outcome, overdue>>

\* The votes decide.
Decide ==
    /\ outcome = "open"
    /\ Resolution(counted) # "none"
    /\ outcome' = Resolution(counted)
    /\ UNCHANGED <<counted, overdue>>

\* Without a decision at the deadline the election is denied.
Expire ==
    /\ outcome = "open" /\ overdue
    /\ outcome' = "DENY"
    /\ UNCHANGED <<counted, overdue>>

DeadlinePasses ==
    /\ overdue' = TRUE
    /\ UNCHANGED <<counted, outcome>>

\* The store keeps an election for a limited time only.
Forget ==
    /\ overdue \/ outcome # "open"
    /\ outcome' = "gone" /\ counted' = NoVotes
    /\ UNCHANGED overdue

Next ==
    \/ \E a \in Agents, decision \in Decisions : Count(a, decision)
    \/ Decide \/ Expire \/ DeadlinePasses \/ Forget

Spec == Init /\ [][Next]_vars
=============================================================================
