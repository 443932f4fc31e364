--------------------------- MODULE RotationSocket ---------------------------
(***************************************************************************)
(* What a subscriber hears of a rotation: reportProgress                   *)
(* (rotation.progress.js), the event stream of the queue, the QueueEvents  *)
(* listener and the rooms of rotation.socket.js, and the notice that       *)
(* rotation.controller sends itself when a cancellation returns.           *)
(*                                                                         *)
(* It adds to RotationPipeline.  The stream is reliable and in order, and  *)
(* the listener reads it some time later; the notice of a cancellation     *)
(* does not go through it.  A room is a broadcast: whoever has not joined  *)
(* hears nothing, and nothing is said twice.                               *)
(***************************************************************************)
EXTENDS RotationPipeline, Sequences

VARIABLES
  stream,    \* the queue's events that the listener has not read yet
  joined,    \* the rotations whose room the subscriber is in
  heard,     \* heard[r]: what the subscriber has heard of rotation r
  unanswered \* history: rotations whose cancelRotation came to nothing after
             \* its UPDATE, and was not announced

socketVars == <<vars, stream, joined, heard, unanswered>>

Ends == {"completed", "failed", "cancelled"}

\* `done` and `percentage` are those of the last progress message; `ends` are
\* the final messages.
Heard == [done : 0..MaxRecords, percentage : 0..100, ends : SUBSET Ends]
Silence == [done |-> 0, percentage |-> 0, ends |-> {}]

Events == [kind : {"progress", "completed", "failed"}, r : Rotations,
           done : 0..MaxRecords, percentage : 0..100]

SocketTypeOK ==
  /\ stream \in Seq(Events)
  /\ joined \in SUBSET Rotations
  /\ heard \in [Rotations -> Heard]
  /\ unanswered \in SUBSET Rotations

SocketInit ==
  /\ Init
  /\ stream = <<>>
  /\ joined = {}
  /\ heard = [r \in Rotations |-> Silence]
  /\ unanswered = {}

-----------------------------------------------------------------------------
(* What a step of the pipeline says.                                       *)

\* The percentage of the counters c, of n records; there may be more than n by
\* now.  Failed ones do not count.  No percentage (null in the code) stands as 0.
SlipPercentage(c, n) ==      \* records passed, not records migrated
  IF n = 0 THEN 0
  ELSE IF c.done + c.failed >= n THEN 100 ELSE ((c.done + c.failed) * 100) \div n
Percentage(c, n) ==
  IF n = 0 THEN 0
  ELSE IF c.done >= n THEN 100 ELSE (c.done * 100) \div n

Event(kind, r, c) == [kind |-> kind, r |-> r, done |-> c.done,
                      percentage |-> Percentage(c, total[r])]

\* The step of worker w reported progress: after a batch, on finding the
\* rotation cancelled, and at the end.
Reported(w) == <<run[w].pc, run'[w].pc>> \in
  {<<"migrate", "check">>, <<"check", "release">>, <<"report", "release">>}

\* The counters it reported: after a batch the new ones.
Reporting(w) == IF run[w].pc = "migrate" THEN run'[w].at ELSE run[w].at

\* The step finished the job of r for good.  An attempt that fails and is to
\* be repeated is no event.
SlipFinished(r) ==               \* every attempt that ends
  job[r].state = "active" /\ job'[r].state # "active"
Finished(r) ==
  job'[r].state # job[r].state /\ job'[r].state \in {"completed", "failed"}

Said ==
  IF \E w \in Workers : Reported(w)
    THEN LET w == CHOOSE w \in Workers : Reported(w)
         IN  <<Event("progress", run[w].r, Reporting(w))>>
  ELSE IF \E r \in Rotations : Finished(r)
    THEN LET r == CHOOSE r \in Rotations : Finished(r)
         IN  <<Event(job'[r].state, r, NoCheckpoint)>>
  ELSE <<>>

\* The room of r is told: a subscriber who has joined it hears.
Hear(r, h) == heard' = IF r \in joined THEN [heard EXCEPT ![r] = h] ELSE heard

\* cancelRotation of r has returned to the controller.
CancelReturned(r) == CancelReread(r)

\* It has thrown, or died, after its UPDATE.
CancelLost(r) == CancelFails(r) /\ cancel[r] # "update" /\ cancel'[r] = "idle"

\* The controller's notice, whatever the row says by now.
SlipNotice(r) == heard[r]     \* left to the service, which has no io
Notice(r) == [heard[r] EXCEPT !.ends = @ \cup {"cancelled"}]

-----------------------------------------------------------------------------

\* What the room and the stream get of a step of the pipeline.
Say ==
  /\ stream' = stream \o Said
  /\ IF \E r \in Rotations : CancelReturned(r)
       THEN LET r == CHOOSE r \in Rotations : CancelReturned(r)
            IN  Hear(r, Notice(r))
       ELSE UNCHANGED heard
  /\ unanswered' = unanswered \cup {r \in Rotations : CancelLost(r)}
  /\ UNCHANGED joined

Step == Next /\ Say

\* A cancellation of a rotation that has ended already: the service does
\* nothing, and the controller sends its notice.
CancelEnded(r) ==
  /\ st[r] \in Terminal
  /\ Hear(r, Notice(r))
  /\ UNCHANGED <<vars, stream, joined, unanswered>>

\* The listener reads one event and passes it on.  "completed" is what the
\* room is told of every job that returned, a cancelled one included.
Listen ==
  /\ stream # <<>>
  /\ LET e == Head(stream) IN
       Hear(e.r, IF e.kind = "progress"
                   THEN [heard[e.r] EXCEPT !.done = e.done,
                                           !.percentage = e.percentage]
                   ELSE [heard[e.r] EXCEPT !.ends = @ \cup {e.kind}])
  /\ stream' = Tail(stream)
  /\ UNCHANGED <<vars, joined, unanswered>>

\* rotation:subscribe, by a client that has got the id: the row exists.
Subscribe(r) ==
  /\ st[r] # "NONE"
  /\ joined' = joined \cup {r}
  /\ UNCHANGED <<vars, stream, heard, unanswered>>

SocketNext ==
  \/ Step
  \/ Listen
  \/ \E r \in Rotations : CancelEnded(r) \/ Subscribe(r)

SocketSpec == SocketInit /\ [][SocketNext]_socketVars

\* The pipeline goes on as before; the listener keeps reading.  Nobody has to
\* subscribe.
SocketFairSpec ==
  /\ SocketSpec
  /\ \A w \in Workers : WF_socketVars(Work(w) /\ Say)
  /\ \A r \in Rotations : WF_socketVars(Continue(r) /\ Say)
  /\ WF_socketVars(Listen)

-----------------------------------------------------------------------------
(* Properties.                                                             *)

\* What a subscriber has heard of processed records never goes back, however
\* often the worker dies and another resumes from the checkpoint.
ProgressNeverGoesBack ==
  [][\A r \in Rotations : heard'[r].done >= heard[r].done]_socketVars

\* What 100 percent is worth to a subscriber: the records left under an older
\* version, those that failed included, are no more than have been inserted
\* since the rotation was counted, and so none where none have been, unless an
\* older rotation has taken some back.
HundredMeansMigrated ==
  \A r \in Rotations \ overtaken :
    LET n == size[TargetOf[r]] IN
      heard[r].percentage = 100
        => Cardinality(Unmigrated(r, 1..n)) <= n - total[r]

\* "Frontend never polls PostgreSQL": whoever is in the room while the job is
\* there hears how it ended, be it by the queue or by the controller.  Nobody
\* tells it when cancelRotation has removed the job and then fails at its last
\* statement.
SubscribersHearTheEnd ==
  \A r \in Rotations :
    r \in joined /\ job[r].state \in {"waiting", "active", "delayed"}
      ~> heard[r].ends # {} \/ (r \in unanswered /\ job[r].state = "none")

\* Nothing is said of a rotation after the queue has said how it ended, unless
\* BullMQ has taken a living worker for a dead one.
TheEndIsLast ==
  \A r \in Rotations :
    /\ \A i, j \in DOMAIN stream :
         i < j /\ stream[i].r = r /\ stream[j].r = r => stream[i].kind = "progress"
    /\ heard[r].ends \cap {"completed", "failed"} # {}
         => \A i \in DOMAIN stream : stream[i].r # r

=============================================================================
