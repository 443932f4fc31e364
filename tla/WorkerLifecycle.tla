--------------------------- MODULE WorkerLifecycle ---------------------------
(***************************************************************************)
(* The EncryptionRotationWorker singleton of one process: configure,       *)
(* start, stop and isRunning of encryption.rotation.worker.js, whose calls *)
(* may overlap.  Each action runs from one await to the next; a call that  *)
(* returns at its first test changes nothing and is no step.               *)
(*                                                                         *)
(* Every start makes an IORedis connection and a BullMQ Worker over it;    *)
(* the k-th of them are number k.  A Worker takes a job at a time, from    *)
(* the moment it exists, and close() waits for the one it has.             *)
(***************************************************************************)
EXTENDS Naturals, Sequences

CONSTANT
  MaxCalls      \* bound: calls of start and stop that get past their test

ASSUME MaxCallsAssumption == MaxCalls \in Nat

VARIABLES
  configured,   \* this._deps is set
  isRunning,    \* this._isRunning
  worker,       \* this._worker: a number, or 0 for null
  connection,   \* this._bullmqConnection, likewise
  made,         \* made[k]: the state of Worker k and of its connection
  calls,        \* calls[c]: the frame of the c-th call
  taken,        \* the Worker whose processor is running, or 0
  orderly       \* history: no call began while another was in flight, and
                \* no start has failed

lifeVars == <<configured, isRunning, worker, connection, made, calls, taken, orderly>>

\* Where a call is suspended, and at the promise of which number.
CallFrames == [pc : {"ready", "close", "quit", "over"}, of : 0..MaxCalls]
SlipNewPair == [worker |-> "open", redis |-> "wait"]        \* lazyConnect
NewPair == [worker |-> "open", redis |-> "open"]

LifeTypeOK ==
  /\ configured \in BOOLEAN
  /\ isRunning \in BOOLEAN
  /\ worker \in 0..Len(made)
  /\ connection \in 0..Len(made)
  /\ made \in Seq([worker : {"open", "closing", "closed"}, redis : {"open", "quit"}])
  /\ calls \in Seq(CallFrames) /\ Len(calls) <= MaxCalls
  /\ taken \in 0..Len(made)
  /\ orderly \in BOOLEAN

LifeInit ==
  /\ configured = FALSE
  /\ isRunning = FALSE
  /\ worker = 0
  /\ connection = 0
  /\ made = <<>>
  /\ calls = <<>>
  /\ taken = 0
  /\ orderly = TRUE

InFlight(c) == c \in DOMAIN calls /\ calls[c].pc # "over"
NoneInFlight == \A c \in DOMAIN calls : ~InFlight(c)
Resumed(c, pc, k) == calls' = [calls EXCEPT ![c] = [pc |-> pc, of |-> k]]

\* A call begins and is suspended at pc; over: it returns at once.
Begun(pc, k) ==
  /\ Len(calls) < MaxCalls
  /\ calls' = Append(calls, [pc |-> pc, of |-> k])
  /\ orderly' = (orderly /\ NoneInFlight)

Configure ==
  /\ ~configured
  /\ configured' = TRUE
  /\ UNCHANGED <<isRunning, worker, connection, made, calls, taken, orderly>>

-----------------------------------------------------------------------------
(* start()                                                                 *)

\* Up to waitUntilReady.  The references to an earlier pair, if there is one
\* still, are overwritten.
StartCall ==
  LET k == Len(made) + 1 IN
  /\ configured
  /\ ~isRunning
  /\ Begun("ready", k)
  /\ made' = Append(made, NewPair)
  /\ worker' = k
  /\ connection' = k
  /\ UNCHANGED <<configured, isRunning, taken>>

Started(c) ==
  /\ calls[c].pc = "ready"
  /\ Resumed(c, "over", 0)
  /\ isRunning' = TRUE
  /\ UNCHANGED <<configured, worker, connection, made, taken, orderly>>

\* waitUntilReady rejects: nothing that start() has made is taken back.
StartFails(c) ==
  /\ calls[c].pc = "ready"
  /\ Resumed(c, "over", 0)
  /\ orderly' = FALSE
  /\ UNCHANGED <<configured, isRunning, worker, connection, made, taken>>

-----------------------------------------------------------------------------
(* stop().  A Slip* definition is the one after it as a plausible mistake  *)
(* would have it; the properties are seen to fail with it, and nothing     *)
(* else refers to it.                                                      *)

\* On to the connection there is by now: quit it, or return.
SlipLeaving(c, k) == Resumed(c, IF k = 0 THEN "over" ELSE "close", k)
Leaving(c, k) == IF k = 0 THEN Resumed(c, "over", 0) ELSE Resumed(c, "quit", k)

StopCall ==
  /\ isRunning
  /\ isRunning' = FALSE
  /\ CASE worker # 0 -> /\ Begun("close", worker)
                        /\ made' = [made EXCEPT ![worker].worker =
                                      IF @ = "open" THEN "closing" ELSE @]
       [] worker = 0 /\ connection # 0 -> Begun("quit", connection) /\ UNCHANGED made
       [] worker = 0 /\ connection = 0 -> Begun("over", 0) /\ UNCHANGED made
  /\ UNCHANGED <<configured, worker, connection, taken>>

\* close() resolves when the Worker's job, if it has one, is over.
SlipDrained(k) == TRUE
Drained(k) == taken # k

Closed(c) ==
  LET k == calls[c].of IN
  /\ calls[c].pc = "close"
  /\ Drained(k)
  /\ made' = [made EXCEPT ![k] = [@ EXCEPT !.worker = "closed"]]
  /\ worker' = 0
  /\ Leaving(c, connection)
  /\ UNCHANGED <<configured, isRunning, connection, taken, orderly>>

\* quit() resolves; for a connection that another stop() has quit it rejects.
Quit(c) ==
  LET k == calls[c].of IN
  /\ calls[c].pc = "quit"
  /\ made' = [made EXCEPT ![k] = [@ EXCEPT !.redis = "quit"]]
  /\ connection' = IF made[k].redis = "open" THEN 0 ELSE connection
  /\ Resumed(c, "over", 0)
  /\ UNCHANGED <<configured, isRunning, worker, taken, orderly>>

Resume(c) == Started(c) \/ Closed(c) \/ Quit(c)
LifeStep ==
  \/ Configure \/ StartCall \/ StopCall
  \/ \E c \in DOMAIN calls : Resume(c) \/ StartFails(c)

-----------------------------------------------------------------------------
(* What a Worker does with its processor.                                  *)

Take(k) ==
  /\ taken = 0
  /\ made[k] = [worker |-> "open", redis |-> "open"]
  /\ taken' = k
  /\ UNCHANGED <<configured, isRunning, worker, connection, made, calls, orderly>>

Finish ==
  /\ taken # 0
  /\ taken' = 0
  /\ UNCHANGED <<configured, isRunning, worker, connection, made, calls, orderly>>

=============================================================================
