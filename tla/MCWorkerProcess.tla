--------------------------- MODULE MCWorkerProcess ---------------------------
(***************************************************************************)
(* An instance of WorkerProcess for TLC: four calls of start and stop, so  *)
(* that a restarted worker can be stopped again, and a rotation of one     *)
(* batch, which a fault makes two attempts of.                             *)
(***************************************************************************)
EXTENDS WorkerProcess

=============================================================================
