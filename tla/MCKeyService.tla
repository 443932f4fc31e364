---------------------------- MODULE MCKeyService ----------------------------
(***************************************************************************)
(* Instances of KeyService for TLC.                                        *)
(***************************************************************************)
EXTENDS KeyService, TLC

CONSTANTS s1, s2, c1, c2, k1, k2, k3, k4

\* One service with two calls, as one route module serving two requests.
SharedOf == c1 :> s1 @@ c2 :> s1

\* Two processes with one call each.
ApartOf == c1 :> s1 @@ c2 :> s2

=============================================================================
