------------------------------ MODULE JobQueue ------------------------------
(***************************************************************************)
(* The BullMQ queue between RotationService and the rotation workers, as   *)
(* rotation.service.js and encryption.rotation.worker.js use it: one job   *)
(* per rotation (jobId = rotation.id), a number of attempts with a backoff *)
(* between them, failed jobs kept.  BullMQ is a library: modelled is what  *)
(* the code configures and relies on.                                      *)
(*                                                                         *)
(* A worker that takes a job holds a token for it and keeps renewing it.   *)
(* When it stops doing so the job counts as stalled: it goes back to       *)
(* waiting, or fails if it has stalled more than MaxStalled times.         *)
(***************************************************************************)
EXTENDS Integers

CONSTANTS
  Rotations,    \* rotation ids, which are the job ids
  Workers,      \* worker processes, each with concurrency 1
  NoWorker,     \* no valid token
  Attempts,     \* config.rotation.attempts
  MaxStalled    \* BullMQ's maxStalledCount, left at its default of 1

ASSUME NoWorkerAssumption == NoWorker \notin Workers
ASSUME AttemptsAssumption == Attempts \in Nat \ {0} /\ MaxStalled \in Nat

VARIABLE job    \* job[r]: the job of rotation r

JobStates == {"none", "waiting", "active", "delayed", "completed", "failed"}

Jobs == [state  : JobStates,
         token  : Workers \cup {NoWorker},   \* who may finish it
         left   : 0..Attempts,               \* attempts left
         stalls : 0..MaxStalled + 1]

NoJob == [state |-> "none", token |-> NoWorker, left |-> 0, stalls |-> 0]

QueueTypeOK == job \in [Rotations -> Jobs]

QueueInit == job = [r \in Rotations |-> NoJob]

Put(r, state, token, left, stalls) ==
  job' = [job EXCEPT ![r] = [state |-> state, token |-> token, left |-> left,
                             stalls |-> stalls]]

\* queue.add: a job with this jobId that is there already is left as it is.
Add(r, attempts) ==
  IF job[r].state = "none" THEN Put(r, "waiting", NoWorker, attempts, 0)
                           ELSE UNCHANGED job

Take(r, w) ==
  /\ job[r].state = "waiting"
  /\ Put(r, "active", w, job[r].left, job[r].stalls)

\* The processor of worker w returned (ok) or threw.  Without its token the
\* worker may not move the job any more.
Settle(r, w, ok) ==
  IF job[r].token # w THEN UNCHANGED job
  ELSE \/ /\ ok
          /\ Put(r, "completed", NoWorker, job[r].left, job[r].stalls)
       \/ /\ ~ok
          /\ Put(r, IF job[r].left > 1 THEN "delayed" ELSE "failed",
                 NoWorker, job[r].left - 1, job[r].stalls)

\* The backoff is over.
Promote(r) ==
  /\ job[r].state = "delayed"
  /\ Put(r, "waiting", NoWorker, job[r].left, job[r].stalls)

\* The token of an active job runs out: its worker is dead, or its event loop
\* or its Redis connection was held up.
ExpireToken(r) == Put(r, "active", NoWorker, job[r].left, job[r].stalls)

\* The stalled-job check of some worker finds it.
Stalled(r) ==
  /\ job[r].state = "active"
  /\ job[r].token = NoWorker
  /\ Put(r, IF job[r].stalls < MaxStalled THEN "waiting" ELSE "failed",
         NoWorker, job[r].left, job[r].stalls + 1)

\* job.remove(): refused while a worker has the job.
Remove(r) ==
  IF job[r].state = "active" THEN UNCHANGED job
                             ELSE job' = [job EXCEPT ![r] = NoJob]

=============================================================================
