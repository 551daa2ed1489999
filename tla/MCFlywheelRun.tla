--------------------------- MODULE MCFlywheelRun ---------------------------
(* Instances of FlywheelRun for TLC.                                       *)
EXTENDS FlywheelRun, TLC

TaskSymmetry == Permutations(Tasks)
=============================================================================
