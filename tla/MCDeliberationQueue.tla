------------------------ MODULE MCDeliberationQueue ------------------------
(* Instances of DeliberationQueue for TLC.                                 *)
EXTENDS DeliberationQueue, TLC

QueueSymmetry ==
    Permutations(Items) \cup Permutations(Agents) \cup Permutations(Saves)
=============================================================================
