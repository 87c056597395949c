-------------------------- MODULE MCCheckpointSeal -------------------------
(* Instances of CheckpointSeal for TLC.  Sessions are interchangeable.      *)
EXTENDS CheckpointSeal, TLC

Symmetry == Permutations(Session)
=============================================================================
