---------------------------- MODULE MCKekProvider ----------------------------
(***************************************************************************)
(* Instances of KekProvider for TLC.                                       *)
(***************************************************************************)
EXTENDS KekProvider, TLC

CONSTANTS p1, p2, A, B, K

None == [v \in KekVersions |-> NoKek]

First == [provider |-> "env", kekVersion |-> 1, kek |-> A, others |-> None]
\* The version raised, the KEK kept.
Relabelled == [First EXCEPT !.kekVersion = 2]
\* A new KEK as version 2, the old one supplied as a legacy key.
NewKek == [provider |-> "env", kekVersion |-> 2, kek |-> B,
           others |-> [None EXCEPT ![1] = A]]
\* A vendor's KMS: one key, then the version raised with the ids of both, then
\* with the new version's id forgotten.
Kms == [provider |-> "kms", kekVersion |-> 1, kek |-> K, others |-> None]
KmsRelabelled == [Kms EXCEPT !.kekVersion = 2, !.others = [v \in KekVersions |-> K]]
KmsForgotten == [KmsRelabelled EXCEPT !.others[2] = NoKek]

KekRaised == {First, NewKek}
AllDeployments == {First, Relabelled, NewKek, Kms, KmsRelabelled, KmsForgotten}

=============================================================================
