------------------------- MODULE MCRotationPipeline -------------------------
(***************************************************************************)
(* Instances of RotationPipeline for TLC: one target, and one rotation or  *)
(* two of it.                                                              *)
(***************************************************************************)
EXTENDS RotationPipeline, TLC

CONSTANTS r1, r2, w1, w2, t1

OneTarget == [r \in Rotations |-> t1]

\* Worker processes run the same code on the same machine image.
WorkerSymmetry == Permutations(Workers)

=============================================================================
