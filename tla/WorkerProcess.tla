---------------------------- MODULE WorkerProcess ----------------------------
(***************************************************************************)
(* A worker process: the life of its Worker objects (WorkerLifecycle) and  *)
(* the rotation they work at (RecordMigration).  An attempt at the         *)
(* rotation begins when a Worker takes its job and ends when the Worker's  *)
(* processor returns or throws; one queue holds the one job, so that two   *)
(* Workers of the process never have it at once.                           *)
(***************************************************************************)
EXTENDS RecordMigration, WorkerLifecycle

processVars == <<vars, lifeVars>>

ProcessInit == Init /\ LifeInit

TakeJob == \E k \in DOMAIN made : Take(k) /\ Start
EndJob == End /\ Finish
WorkOn == Work /\ UNCHANGED lifeVars
Meanwhile == Outside /\ UNCHANGED lifeVars
Live == LifeStep /\ UNCHANGED vars

\* Every call has returned: nobody has to make another.
Rest == NoneInFlight /\ UNCHANGED processVars

ProcessNext == TakeJob \/ EndJob \/ WorkOn \/ Meanwhile \/ Live \/ Rest

ProcessSpec == ProcessInit /\ [][ProcessNext]_processVars

\* Promises in flight are settled and the processor goes on; nobody has to
\* start or stop anything.
ProcessFairSpec ==
  /\ ProcessSpec
  /\ WF_processVars(WorkOn)
  /\ WF_processVars((RollBack \/ Activate) /\ Finish)
  /\ \A c \in 1..MaxCalls :
       WF_processVars(InFlight(c) /\ Resume(c) /\ UNCHANGED vars)

-----------------------------------------------------------------------------
(* Properties.                                                             *)

\* "Stopped gracefully": when calls are made one after the other and the starts
\* succeed, isRunning() tells the truth whenever no call is in flight: there is
\* the one Worker and its connection, or there is none of either and no
\* attempt at a rotation is left half way.
IsRunningTellsTheTruth ==
  orderly /\ NoneInFlight =>
    /\ {k \in DOMAIN made : made[k].worker # "closed"}
         = IF isRunning THEN {worker} \ {0} ELSE {}
    /\ {k \in DOMAIN made : made[k].redis = "open"}
         = IF isRunning THEN {connection} \ {0} ELSE {}
    /\ isRunning => worker # 0 /\ connection # 0
    /\ run.pc \in {"fetch", "records", "activate"} => isRunning /\ taken = worker

\* Every start() and stop() returns, a stop() that waits for an attempt at a
\* rotation included.
EveryCallReturns == \A c \in 1..MaxCalls : InFlight(c) ~> ~InFlight(c)

=============================================================================
