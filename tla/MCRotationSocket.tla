-------------------------- MODULE MCRotationSocket --------------------------
(***************************************************************************)
(* An instance of RotationSocket for TLC: one rotation, one subscriber.    *)
(***************************************************************************)
EXTENDS RotationSocket, TLC

CONSTANTS r1, w1, w2, t1

OneTarget == [r \in Rotations |-> t1]

=============================================================================
