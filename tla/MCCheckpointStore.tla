------------------------- MODULE MCCheckpointStore -------------------------
(***************************************************************************)
(* Instances of CheckpointStore for TLC.                                   *)
(***************************************************************************)
EXTENDS CheckpointStore, TLC

CONSTANTS s1, s2, s3

MCSessionIds == {s1, s2, s3}
MCSizes == {1, 2, 3}
MCSymmetry == Permutations(MCSessionIds)
=============================================================================
