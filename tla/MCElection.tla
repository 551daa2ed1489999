----------------------------- MODULE MCElection -----------------------------
(* Instances of Election for TLC.                                          *)
EXTENDS Election, TLC

\* Every participant has weight 1, the default of create_election.
UnitWeight == [S \in SUBSET Agents |-> Cardinality(S)]

\* Participants are interchangeable, and so are the calls of cast_vote.
TaskSymmetry == Permutations(Agents) \cup Permutations(Callers)
=============================================================================
