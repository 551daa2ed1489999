-------------------------- MODULE MCKafkaProducer --------------------------
(* Instances of KafkaProducer for TLC.                                     *)
EXTENDS KafkaProducer, TLC

MessageSymmetry == Permutations(Messages)
=============================================================================
