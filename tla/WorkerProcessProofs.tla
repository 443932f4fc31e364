------------------------- MODULE WorkerProcessProofs -------------------------
(***************************************************************************)
(* Proofs about WorkerProcess, for any number of calls of start and stop   *)
(* and every rotation of RecordMigration.                                  *)
(*                                                                         *)
(* LifeInv is inductive.  Called in turn, start and stop leave of every    *)
(* earlier Worker nothing but what is closed and quit (Only); a call in    *)
(* flight says what the latest pair looks like (Suspended).  What holds    *)
(* without that condition is that a Worker is never closed over its job    *)
(* (JobHeld), and that an attempt at the rotation and a processor that     *)
(* runs are the same thing (OneAttempt).                                   *)
(***************************************************************************)
EXTENDS WorkerProcess, RecordMigrationProofs, SequenceTheorems

AtWork == {"fetch", "records", "activate"}

\* Of all the pairs ever made, only that of number k is not gone.
Gone == [worker |-> "closed", redis |-> "quit"]
Only(m, k, pair) == \A j \in DOMAIN m : m[j] = IF j = k THEN pair ELSE Gone

MadeByCalls == Len(made) <= Len(calls)
FramesKnown == \A c \in DOMAIN calls :
                 calls[c].pc # "over" => calls[c].of \in DOMAIN made
JobHeld == taken # 0 => made[taken].worker # "closed"
OneAttempt == run.pc \in AtWork <=> taken # 0

InTurn(cs) == \A c, d \in DOMAIN cs :
                cs[c].pc # "over" /\ cs[d].pc # "over" => c = d

\* While no call is in flight.
AtRest ==
  IF isRunning THEN worker # 0 /\ connection = worker /\ Only(made, worker, NewPair)
  ELSE worker = 0 /\ connection = 0 /\ Only(made, 0, NewPair)

\* While the one call in flight, c, is suspended.
Suspended(c) ==
  LET pc == calls[c].pc
      k == calls[c].of
  IN  /\ ~isRunning
      /\ connection = k
      /\ pc \in {"ready", "close"} => worker = k
      /\ pc = "quit" => worker = 0
      /\ pc = "ready" => Only(made, k, NewPair)
      /\ pc = "close" => Only(made, k, [worker |-> "closing", redis |-> "open"])
      /\ pc = "quit" => Only(made, k, [worker |-> "closed", redis |-> "open"])

InOrder ==
  orderly =>
    /\ InTurn(calls)
    /\ NoneInFlight => AtRest
    /\ \A c \in DOMAIN calls : calls[c].pc # "over" => Suspended(c)

LifeInv ==
  /\ LifeTypeOK
  /\ MadeByCalls
  /\ FramesKnown
  /\ JobHeld
  /\ InOrder

-----------------------------------------------------------------------------
(* The calls, and the pairs they make.                                     *)

Pairs == [worker : {"open", "closing", "closed"}, redis : {"open", "quit"}]

LEMMA MadeType ==
  ASSUME LifeTypeOK
  PROVE  /\ made \in Seq(Pairs) /\ Len(made) \in Nat
         /\ DOMAIN made = 1..Len(made)
         /\ \A k \in DOMAIN made : made[k] \in Pairs
<1>1. made \in Seq(Pairs)
  BY DEF LifeTypeOK, Pairs
<1> QED
  BY <1>1, LenProperties, ElementOfSeq

LEMMA CallsType ==
  ASSUME LifeTypeOK
  PROVE  /\ calls \in Seq(CallFrames) /\ Len(calls) \in Nat
         /\ DOMAIN calls = 1..Len(calls)
         /\ \A c \in DOMAIN calls : calls[c] \in CallFrames
<1>1. calls \in Seq(CallFrames)
  BY DEF LifeTypeOK
<1> QED
  BY <1>1, LenProperties, ElementOfSeq

\* One pair is replaced.
LEMMA PairReplaced ==
  ASSUME LifeTypeOK, NEW k \in DOMAIN made, NEW pair \in Pairs,
         made' = [made EXCEPT ![k] = pair]
  PROVE  /\ made' \in Seq(Pairs) /\ Len(made') = Len(made)
         /\ DOMAIN made' = DOMAIN made
         /\ \A j \in DOMAIN made : made'[j] = IF j = k THEN pair ELSE made[j]
<1>1. made \in Seq(Pairs) /\ DOMAIN made = 1..Len(made)
  BY MadeType
<1>2. /\ made' \in Seq(Pairs) /\ Len(made') = Len(made)
      /\ \A j \in 1..Len(made) : made'[j] = IF j = k THEN pair ELSE made[j]
  BY <1>1, ExceptSeq, Zenon
<1> QED
  BY <1>1, <1>2

\* A call goes on to its next await.
LEMMA CallResumed ==
  ASSUME LifeTypeOK, NEW c \in DOMAIN calls,
         NEW pc \in {"ready", "close", "quit", "over"}, NEW k \in 0..MaxCalls,
         Resumed(c, pc, k)
  PROVE  /\ calls' \in Seq(CallFrames) /\ Len(calls') = Len(calls)
         /\ DOMAIN calls' = DOMAIN calls
         /\ calls'[c] = [pc |-> pc, of |-> k]
         /\ \A d \in DOMAIN calls : d # c => calls'[d] = calls[d]
<1> DEFINE frame == [pc |-> pc, of |-> k]
<1>1. calls \in Seq(CallFrames) /\ DOMAIN calls = 1..Len(calls)
  BY CallsType
<1>2. frame \in CallFrames
  BY DEF CallFrames
<1>3. calls' = [calls EXCEPT ![c] = frame]
  BY DEF Resumed
<1> HIDE DEF frame
<1>4. /\ calls' \in Seq(CallFrames) /\ Len(calls') = Len(calls)
      /\ \A j \in 1..Len(calls) : calls'[j] = IF j = c THEN frame ELSE calls[j]
  BY <1>1, <1>2, <1>3, ExceptSeq, Zenon
<1> QED
  BY <1>1, <1>4 DEF frame

\* A call begins.
LEMMA CallBegun ==
  ASSUME LifeTypeOK, NEW pc \in {"ready", "close", "quit", "over"},
         NEW k \in 0..MaxCalls, Begun(pc, k)
  PROVE  /\ calls' \in Seq(CallFrames) /\ Len(calls') = Len(calls) + 1
         /\ Len(calls') <= MaxCalls
         /\ DOMAIN calls' = DOMAIN calls \cup {Len(calls) + 1}
         /\ calls'[Len(calls) + 1] = [pc |-> pc, of |-> k]
         /\ \A d \in DOMAIN calls : calls'[d] = calls[d]
         /\ Len(calls) + 1 \notin DOMAIN calls
<1> DEFINE frame == [pc |-> pc, of |-> k]
<1>1. calls \in Seq(CallFrames) /\ DOMAIN calls = 1..Len(calls) /\ Len(calls) \in Nat
  BY CallsType
<1>2. frame \in CallFrames
  BY DEF CallFrames
<1>3. calls' = Append(calls, frame) /\ Len(calls) < MaxCalls
  BY DEF Begun
<1> HIDE DEF frame
<1>4. /\ calls' \in Seq(CallFrames) /\ Len(calls') = Len(calls) + 1
      /\ \A i \in 1..Len(calls) : calls'[i] = calls[i]
      /\ calls'[Len(calls) + 1] = frame
  BY <1>1, <1>2, <1>3, AppendProperties
<1>5. DOMAIN calls' = 1..Len(calls')
  BY <1>4, LenProperties, Zenon
<1>6. Len(calls') <= MaxCalls
  BY <1>1, <1>3, <1>4, MaxCallsAssumption
<1>7. /\ 1..(Len(calls) + 1) = 1..Len(calls) \cup {Len(calls) + 1}
      /\ Len(calls) + 1 \notin 1..Len(calls)
  BY <1>1
<1> QED
  BY <1>1, <1>4, <1>5, <1>6, <1>7 DEF frame

-----------------------------------------------------------------------------
(* Each step of the singleton.                                             *)

LEMMA LifeInitInv == LifeInit => LifeInv
<1> SUFFICES ASSUME LifeInit PROVE LifeInv
  OBVIOUS
<1>1. /\ made = <<>> /\ calls = <<>> /\ DOMAIN made = {} /\ DOMAIN calls = {}
      /\ Len(made) = 0 /\ Len(calls) = 0
  BY DEF LifeInit
<1>2. LifeTypeOK
  <2>1. made \in Seq(Pairs) /\ calls \in Seq(CallFrames)
    BY <1>1
  <2>2. worker \in 0..Len(made) /\ connection \in 0..Len(made) /\ taken \in 0..Len(made)
    BY <1>1 DEF LifeInit
  <2>3. Len(calls) <= MaxCalls
    BY <1>1, MaxCallsAssumption
  <2> QED
    BY <2>1, <2>2, <2>3 DEF LifeInit, LifeTypeOK, Pairs
<1>3. MadeByCalls /\ FramesKnown /\ JobHeld
  BY <1>1 DEF MadeByCalls, FramesKnown, JobHeld, LifeInit
<1>4. InOrder
  BY <1>1 DEF InOrder, LifeInit, InTurn, AtRest, Only
<1> QED
  BY <1>2, <1>3, <1>4 DEF LifeInv

LEMMA ConfigureInv == LifeInv /\ Configure => LifeInv'
<1> SUFFICES ASSUME LifeInv, Configure PROVE LifeInv'
  OBVIOUS
<1> USE DEF Configure
<1>1. LifeTypeOK'
  BY DEF LifeInv, LifeTypeOK
<1>2. MadeByCalls' /\ FramesKnown' /\ JobHeld'
  BY DEF LifeInv, MadeByCalls, FramesKnown, JobHeld
<1>3. InOrder'
  BY DEF LifeInv, InOrder, NoneInFlight, InFlight, AtRest, Suspended
<1> QED
  BY <1>1, <1>2, <1>3 DEF LifeInv

\* No call is in flight: the one that begins is the only one.
LEMMA InTurnBegun ==
  ASSUME LifeTypeOK, NEW pc \in {"ready", "close", "quit", "over"},
         NEW k \in 0..MaxCalls, Begun(pc, k), orderly'
  PROVE  /\ orderly /\ NoneInFlight
         /\ InTurn(calls')
         /\ \A c \in DOMAIN calls' :
              calls'[c].pc # "over" => calls'[c] = [pc |-> pc, of |-> k]
         /\ pc # "over" => ~NoneInFlight'
<1>1. orderly /\ NoneInFlight
  BY DEF Begun, LifeTypeOK
<1>2. \A d \in DOMAIN calls : calls[d].pc = "over"
  BY <1>1 DEF NoneInFlight, InFlight
<1>3. /\ DOMAIN calls' = DOMAIN calls \cup {Len(calls) + 1}
      /\ calls'[Len(calls) + 1] = [pc |-> pc, of |-> k]
      /\ \A d \in DOMAIN calls : calls'[d] = calls[d]
  BY CallBegun
<1>4. \A d \in DOMAIN calls' : d # Len(calls) + 1 => calls'[d].pc = "over"
  BY <1>2, <1>3
<1>5. InTurn(calls')
  BY <1>4 DEF InTurn
<1>6. pc # "over" => ~NoneInFlight'
  BY <1>3 DEF NoneInFlight, InFlight
<1> QED
  BY <1>1, <1>3, <1>4, <1>5, <1>6

LEMMA StartCallInv == LifeInv /\ StartCall => LifeInv'
<1> SUFFICES ASSUME LifeInv, StartCall PROVE LifeInv'
  OBVIOUS
<1> DEFINE k == Len(made) + 1
<1>1. LifeTypeOK /\ MadeByCalls /\ FramesKnown /\ JobHeld /\ InOrder
  BY DEF LifeInv
<1>2. /\ made \in Seq(Pairs) /\ Len(made) \in Nat /\ DOMAIN made = 1..Len(made)
      /\ Len(calls) \in Nat
  BY <1>1, MadeType, CallsType
<1>3. Begun("ready", k) /\ Len(calls) < MaxCalls
  BY DEF StartCall, Begun
<1>4. k \in 0..MaxCalls /\ k <= Len(calls) + 1
  BY <1>1, <1>2, <1>3, MaxCallsAssumption DEF MadeByCalls
<1>5. NewPair \in Pairs
  BY DEF NewPair, Pairs
<1>6. /\ made' \in Seq(Pairs) /\ Len(made') = k
      /\ \A j \in 1..Len(made) : made'[j] = made[j]
      /\ made'[k] = NewPair
  BY <1>2, <1>5, AppendProperties DEF StartCall
<1>7. DOMAIN made' = DOMAIN made \cup {k} /\ k \notin DOMAIN made /\ k # 0
  BY <1>2, <1>6, LenProperties
<1> HIDE DEF k
<1>8. LifeTypeOK'
  <2>1. calls' \in Seq(CallFrames) /\ Len(calls') <= MaxCalls
    BY <1>1, <1>3, <1>4, CallBegun
  <2>2. orderly' \in BOOLEAN
    BY <1>3 DEF Begun
  <2>3. worker' \in 0..Len(made') /\ connection' \in 0..Len(made')
    BY <1>2, <1>6 DEF StartCall, k
  <2>4. taken' \in 0..Len(made')
    BY <1>1, <1>2, <1>6 DEF LifeTypeOK, StartCall, k
  <2> QED
    BY <1>1, <1>6, <2>1, <2>2, <2>3, <2>4 DEF LifeTypeOK, StartCall, Pairs
<1>9. /\ Len(calls') = Len(calls) + 1
      /\ DOMAIN calls' = DOMAIN calls \cup {Len(calls) + 1}
      /\ calls'[Len(calls) + 1] = [pc |-> "ready", of |-> k]
      /\ \A d \in DOMAIN calls : calls'[d] = calls[d]
  BY <1>1, <1>3, <1>4, CallBegun
<1>10. MadeByCalls' /\ FramesKnown'
  BY <1>1, <1>4, <1>6, <1>7, <1>9 DEF MadeByCalls, FramesKnown
<1>11. JobHeld'
  <2>1. taken' = taken /\ (taken # 0 => taken \in 1..Len(made))
    BY <1>1, <1>2 DEF StartCall, LifeTypeOK
  <2> QED
    BY <1>1, <1>6, <2>1 DEF JobHeld
<1>12. InOrder'
  <2> SUFFICES ASSUME orderly'
               PROVE  /\ InTurn(calls')
                      /\ (NoneInFlight => AtRest)'
                      /\ \A c \in DOMAIN calls' :
                           calls'[c].pc # "over" => Suspended(c)'
    BY DEF InOrder
  <2>1. /\ orderly /\ NoneInFlight /\ InTurn(calls') /\ ~NoneInFlight'
        /\ \A c \in DOMAIN calls' :
             calls'[c].pc # "over" => calls'[c].pc = "ready" /\ calls'[c].of = k
    BY <1>1, <1>3, <1>4, InTurnBegun
  <2>2. ~isRunning /\ AtRest
    BY <1>1, <2>1 DEF InOrder, StartCall
  <2>3. \A j \in DOMAIN made : made[j] = Gone
    BY <1>2, <2>2 DEF AtRest, Only
  <2>4. Only(made', k, NewPair)
    BY <1>2, <1>6, <1>7, <2>3 DEF Only
  <2>5. ~isRunning' /\ connection' = k /\ worker' = k
    BY <2>2 DEF StartCall, k
  <2>6. \A c \in DOMAIN calls' : calls'[c].pc # "over" => Suspended(c)'
    BY <2>1, <2>4, <2>5 DEF Suspended
  <2> QED
    BY <2>1, <2>6
<1> QED
  BY <1>8, <1>9, <1>10, <1>11, <1>12 DEF LifeInv

\* The only call in flight returns, or the one call goes on.
LEMMA InTurnResumed ==
  ASSUME LifeTypeOK, InTurn(calls), NEW c \in DOMAIN calls, calls[c].pc # "over",
         NEW pc \in {"ready", "close", "quit", "over"}, NEW k \in 0..MaxCalls,
         Resumed(c, pc, k)
  PROVE  /\ InTurn(calls')
         /\ \A d \in DOMAIN calls' :
              calls'[d].pc # "over" => d = c /\ calls'[d] = [pc |-> pc, of |-> k]
         /\ pc # "over" => ~NoneInFlight'
<1>1. /\ DOMAIN calls' = DOMAIN calls
      /\ calls'[c] = [pc |-> pc, of |-> k]
      /\ \A d \in DOMAIN calls : d # c => calls'[d] = calls[d]
  BY CallResumed
<1>2. \A d \in DOMAIN calls : d # c => calls[d].pc = "over"
  BY DEF InTurn
<1>3. \A d \in DOMAIN calls' : d # c => calls'[d].pc = "over"
  BY <1>1, <1>2
<1>4. InTurn(calls')
  BY <1>3 DEF InTurn
<1>5. pc # "over" => ~NoneInFlight'
  BY <1>1 DEF NoneInFlight, InFlight
<1> QED
  BY <1>1, <1>3, <1>4, <1>5

\* What every resumption owes: the other frames know what they knew.
LEMMA FramesResumed ==
  ASSUME LifeTypeOK, MadeByCalls, FramesKnown, NEW c \in DOMAIN calls,
         NEW pc \in {"ready", "close", "quit", "over"}, NEW k \in 0..MaxCalls,
         Resumed(c, pc, k), pc # "over" => k \in DOMAIN made,
         DOMAIN made' = DOMAIN made, Len(made') = Len(made)
  PROVE  MadeByCalls' /\ FramesKnown' /\ calls' \in Seq(CallFrames) /\ Len(calls') <= MaxCalls
<1>1. /\ calls' \in Seq(CallFrames) /\ Len(calls') = Len(calls)
      /\ DOMAIN calls' = DOMAIN calls
      /\ calls'[c] = [pc |-> pc, of |-> k]
      /\ \A d \in DOMAIN calls : d # c => calls'[d] = calls[d]
  BY CallResumed
<1>2. MadeByCalls' /\ Len(calls') <= MaxCalls
  BY <1>1 DEF MadeByCalls, LifeTypeOK
<1>3. FramesKnown'
  BY <1>1 DEF FramesKnown
<1> QED
  BY <1>1, <1>2, <1>3

LEMMA StartedInv ==
  ASSUME LifeInv, NEW c \in DOMAIN calls, Started(c) \/ StartFails(c)
  PROVE  LifeInv'
<1>1. LifeTypeOK /\ MadeByCalls /\ FramesKnown /\ JobHeld /\ InOrder
  BY DEF LifeInv
<1>2. /\ calls[c].pc = "ready" /\ Resumed(c, "over", 0)
      /\ UNCHANGED <<configured, worker, connection, made, taken>>
      /\ orderly' => isRunning' = TRUE /\ orderly
      /\ isRunning' \in BOOLEAN /\ orderly' \in BOOLEAN
  <2>1. CASE Started(c)
    BY <1>1, <2>1 DEF Started, LifeTypeOK
  <2>2. CASE StartFails(c)
    BY <1>1, <2>2 DEF StartFails, LifeTypeOK
  <2> QED
    BY <2>1, <2>2
<1>3. 0 \in 0..MaxCalls
  BY MaxCallsAssumption
<1>4. MadeByCalls' /\ FramesKnown' /\ calls' \in Seq(CallFrames) /\ Len(calls') <= MaxCalls
  BY <1>1, <1>2, <1>3, FramesResumed
<1>5. LifeTypeOK'
  BY <1>1, <1>2, <1>4 DEF LifeTypeOK
<1>6. JobHeld'
  BY <1>1, <1>2 DEF JobHeld
<1>7. InOrder'
  <2> SUFFICES ASSUME orderly'
               PROVE  /\ InTurn(calls')
                      /\ (NoneInFlight => AtRest)'
                      /\ \A d \in DOMAIN calls' :
                           calls'[d].pc # "over" => Suspended(d)'
    BY DEF InOrder
  <2>1. InTurn(calls) /\ Suspended(c) /\ isRunning' = TRUE
    BY <1>1, <1>2 DEF InOrder
  <2>2. InTurn(calls') /\ \A d \in DOMAIN calls' : calls'[d].pc = "over"
    <3>1. \A d \in DOMAIN calls' :
            calls'[d].pc # "over" => calls'[d] = [pc |-> "over", of |-> 0]
      BY <1>1, <1>2, <1>3, <2>1, InTurnResumed
    <3>2. InTurn(calls')
      BY <1>1, <1>2, <1>3, <2>1, InTurnResumed
    <3> QED
      BY <3>1, <3>2
  <2>3. /\ connection = calls[c].of /\ worker = calls[c].of
        /\ Only(made, calls[c].of, NewPair) /\ calls[c].of \in DOMAIN made
    BY <1>1, <1>2, <2>1 DEF Suspended, FramesKnown
  <2>4. calls[c].of # 0
    BY <1>1, <2>3, MadeType
  <2>5. AtRest'
    BY <1>2, <2>1, <2>3, <2>4 DEF AtRest
  <2> QED
    BY <2>2, <2>5
<1> QED
  BY <1>4, <1>5, <1>6, <1>7 DEF LifeInv

LEMMA ClosedInv ==
  ASSUME LifeInv, NEW c \in DOMAIN calls, Closed(c)
  PROVE  LifeInv'
<1> DEFINE k == calls[c].of
           pair == [made[k] EXCEPT !.worker = "closed"]
           pc == IF connection = 0 THEN "over" ELSE "quit"
<1>1. LifeTypeOK /\ MadeByCalls /\ FramesKnown /\ JobHeld /\ InOrder
  BY DEF LifeInv
<1>2. /\ calls[c].pc = "close" /\ taken # k
      /\ made' = [made EXCEPT ![k] = pair]
      /\ worker' = 0
      /\ Resumed(c, pc, connection)
      /\ UNCHANGED <<configured, isRunning, connection, taken, orderly>>
  BY DEF Closed, Drained, Leaving
<1>3. k \in DOMAIN made
  BY <1>1, <1>2 DEF FramesKnown
<1>4. /\ DOMAIN made = 1..Len(made) /\ Len(made) \in Nat /\ Len(calls) \in Nat
      /\ made[k] \in Pairs
  BY <1>1, <1>3, MadeType, CallsType
<1>5. pair \in Pairs /\ pair.worker = "closed" /\ pair.redis = made[k].redis
  BY <1>4 DEF Pairs
<1> HIDE DEF pair
<1>6. /\ made' \in Seq(Pairs) /\ Len(made') = Len(made)
      /\ DOMAIN made' = DOMAIN made
      /\ \A j \in DOMAIN made : made'[j] = IF j = k THEN pair ELSE made[j]
  BY <1>1, <1>2, <1>3, <1>5, PairReplaced
<1>7. /\ connection \in 0..MaxCalls /\ pc \in {"ready", "close", "quit", "over"}
      /\ pc # "over" => connection \in DOMAIN made
  BY <1>1, <1>4, MaxCallsAssumption DEF LifeTypeOK, MadeByCalls
<1> HIDE DEF pc, k
<1>8. MadeByCalls' /\ FramesKnown' /\ calls' \in Seq(CallFrames) /\ Len(calls') <= MaxCalls
  BY <1>1, <1>2, <1>6, <1>7, FramesResumed
<1>9. LifeTypeOK'
  BY <1>1, <1>2, <1>4, <1>6, <1>8 DEF LifeTypeOK, Pairs
<1>10. JobHeld'
  <2>1. taken # 0 => taken \in DOMAIN made
    BY <1>1, <1>4 DEF LifeTypeOK
  <2> QED
    BY <1>1, <1>2, <1>6, <2>1 DEF JobHeld
<1>11. InOrder'
  <2> SUFFICES ASSUME orderly
               PROVE  /\ InTurn(calls')
                      /\ (NoneInFlight => AtRest)'
                      /\ \A d \in DOMAIN calls' :
                           calls'[d].pc # "over" => Suspended(d)'
    BY <1>2 DEF InOrder
  <2>1. InTurn(calls) /\ Suspended(c)
    BY <1>1, <1>2 DEF InOrder
  <2>2. /\ ~isRunning /\ connection = k
        /\ Only(made, k, [worker |-> "closing", redis |-> "open"])
    BY <1>2, <2>1 DEF Suspended, k
  <2>3. pc = "quit"
    BY <1>3, <1>4, <2>2 DEF pc
  <2>4. /\ InTurn(calls') /\ ~NoneInFlight'
        /\ \A d \in DOMAIN calls' :
              calls'[d].pc # "over" => calls'[d] = [pc |-> pc, of |-> connection]
    BY <1>1, <1>2, <1>7, <2>1, <2>3, InTurnResumed
  <2>5. pair = [worker |-> "closed", redis |-> "open"]
    BY <1>3, <2>2 DEF Only, pair
  <2>6. Only(made', k, [worker |-> "closed", redis |-> "open"])
    BY <1>6, <2>2, <2>5 DEF Only
  <2>7. \A d \in DOMAIN calls' : calls'[d].pc # "over" => Suspended(d)'
    BY <1>2, <2>2, <2>3, <2>4, <2>6 DEF Suspended
  <2> QED
    BY <2>4, <2>7
<1> QED
  BY <1>8, <1>9, <1>10, <1>11 DEF LifeInv

LEMMA QuitInv ==
  ASSUME LifeInv, NEW c \in DOMAIN calls, Quit(c)
  PROVE  LifeInv'
<1> DEFINE k == calls[c].of
           pair == [made[k] EXCEPT !.redis = "quit"]
<1>1. LifeTypeOK /\ MadeByCalls /\ FramesKnown /\ JobHeld /\ InOrder
  BY DEF LifeInv
<1>2. /\ calls[c].pc = "quit"
      /\ made' = [made EXCEPT ![k] = pair]
      /\ connection' = IF made[k].redis = "open" THEN 0 ELSE connection
      /\ Resumed(c, "over", 0)
      /\ UNCHANGED <<configured, isRunning, worker, taken, orderly>>
  BY DEF Quit
<1>3. k \in DOMAIN made
  BY <1>1, <1>2 DEF FramesKnown
<1>4. /\ DOMAIN made = 1..Len(made) /\ Len(made) \in Nat /\ Len(calls) \in Nat
      /\ made[k] \in Pairs
  BY <1>1, <1>3, MadeType, CallsType
<1>5. pair \in Pairs /\ pair.worker = made[k].worker /\ pair.redis = "quit"
  BY <1>4 DEF Pairs
<1> HIDE DEF pair
<1>6. /\ made' \in Seq(Pairs) /\ Len(made') = Len(made)
      /\ DOMAIN made' = DOMAIN made
      /\ \A j \in DOMAIN made : made'[j] = IF j = k THEN pair ELSE made[j]
  BY <1>1, <1>2, <1>3, <1>5, PairReplaced
<1> HIDE DEF k
<1>7. 0 \in 0..MaxCalls
  BY MaxCallsAssumption
<1>8. MadeByCalls' /\ FramesKnown' /\ calls' \in Seq(CallFrames) /\ Len(calls') <= MaxCalls
  BY <1>1, <1>2, <1>6, <1>7, FramesResumed
<1>9. LifeTypeOK'
  BY <1>1, <1>2, <1>4, <1>6, <1>8 DEF LifeTypeOK, Pairs
<1>10. JobHeld'
  <2>1. taken # 0 => taken \in DOMAIN made
    BY <1>1, <1>4 DEF LifeTypeOK
  <2> QED
    BY <1>1, <1>2, <1>5, <1>6, <2>1 DEF JobHeld
<1>11. InOrder'
  <2> SUFFICES ASSUME orderly
               PROVE  /\ InTurn(calls')
                      /\ (NoneInFlight => AtRest)'
                      /\ \A d \in DOMAIN calls' :
                           calls'[d].pc # "over" => Suspended(d)'
    BY <1>2 DEF InOrder
  <2>1. InTurn(calls) /\ Suspended(c)
    BY <1>1, <1>2 DEF InOrder
  <2>2. /\ ~isRunning /\ worker = 0
        /\ Only(made, k, [worker |-> "closed", redis |-> "open"])
    BY <1>2, <2>1 DEF Suspended, k
  <2>3. \A d \in DOMAIN calls' :
          calls'[d].pc # "over" => calls'[d] = [pc |-> "over", of |-> 0]
    BY <1>1, <1>2, <1>7, <2>1, InTurnResumed
  <2>4. InTurn(calls') /\ \A d \in DOMAIN calls' : calls'[d].pc = "over"
    BY <1>1, <1>2, <1>7, <2>1, <2>3, InTurnResumed
  <2>5. pair = Gone /\ connection' = 0
    BY <1>2, <1>3, <2>2 DEF Only, pair, Gone
  <2>6. Only(made', 0, NewPair)
    BY <1>4, <1>6, <2>2, <2>5 DEF Only
  <2>7. AtRest'
    BY <1>2, <2>2, <2>5, <2>6 DEF AtRest
  <2> QED
    BY <2>4, <2>7
<1> QED
  BY <1>8, <1>9, <1>10, <1>11 DEF LifeInv

\* What stop() does to the pair of the Worker that it closes.
Closing(pair) == [pair EXCEPT !.worker = IF @ = "open" THEN "closing" ELSE @]

LEMMA StopCallInv == LifeInv /\ StopCall => LifeInv'
<1> SUFFICES ASSUME LifeInv, StopCall PROVE LifeInv'
  OBVIOUS
<1>1. LifeTypeOK /\ MadeByCalls /\ FramesKnown /\ JobHeld /\ InOrder
  BY DEF LifeInv
<1>2. /\ DOMAIN made = 1..Len(made) /\ Len(made) \in Nat /\ Len(calls) \in Nat
      /\ made \in Seq(Pairs) /\ \A j \in DOMAIN made : made[j] \in Pairs
  BY <1>1, MadeType, CallsType
<1>3. /\ isRunning /\ isRunning' = FALSE
      /\ UNCHANGED <<configured, worker, connection, taken>>
      /\ worker \in 0..Len(made) /\ connection \in 0..Len(made)
  BY <1>1 DEF StopCall, LifeTypeOK
<1>4. PICK pc \in {"close", "quit", "over"}, k \in 0..Len(made) :
        /\ Begun(pc, k)
        /\ pc # "over" => k # 0
        /\ pc = "close" <=> worker # 0
        /\ pc = "close" =>
             /\ k = worker
             /\ made' = [made EXCEPT ![k] = Closing(made[k])]
        /\ pc # "close" => made' = made
  <2>1. CASE worker # 0
    <3>1. /\ Begun("close", worker)
          /\ made' = [made EXCEPT ![worker].worker =
                        IF @ = "open" THEN "closing" ELSE @]
      BY <2>1 DEF StopCall
    <3>2. made' = [made EXCEPT ![worker] = Closing(made[worker])]
      BY <3>1 DEF Closing
    <3> QED
      BY <1>3, <2>1, <3>1, <3>2
  <2>2. CASE worker = 0 /\ connection # 0
    BY <1>3, <2>2 DEF StopCall
  <2>3. CASE worker = 0 /\ connection = 0
    BY <1>3, <2>3 DEF StopCall
  <2> QED
    BY <2>1, <2>2, <2>3
<1>5. k \in 0..MaxCalls /\ pc \in {"ready", "close", "quit", "over"}
  BY <1>1, <1>2, MaxCallsAssumption DEF MadeByCalls, LifeTypeOK
<1>6. /\ made' \in Seq(Pairs) /\ Len(made') = Len(made) /\ DOMAIN made' = DOMAIN made
      /\ \A j \in DOMAIN made :
           /\ made'[j].redis = made[j].redis
           /\ made'[j].worker = "closed" <=> made[j].worker = "closed"
           /\ j # k \/ pc # "close" => made'[j] = made[j]
      /\ pc = "close" /\ made[k] = NewPair =>
           made'[k] = [worker |-> "closing", redis |-> "open"]
  <2>1. CASE pc # "close"
    BY <1>2, <1>4, <2>1
  <2>2. CASE pc = "close"
    <3> DEFINE pair == Closing(made[k])
    <3>1. k \in DOMAIN made /\ made[k] \in Pairs
      BY <1>2, <1>4, <2>2
    <3>2. /\ pair \in Pairs /\ pair.redis = made[k].redis
          /\ pair.worker = "closed" <=> made[k].worker = "closed"
          /\ made[k] = NewPair => pair = [worker |-> "closing", redis |-> "open"]
      BY <3>1 DEF Pairs, NewPair, Closing
    <3>3. made' = [made EXCEPT ![k] = pair]
      BY <1>4, <2>2
    <3> HIDE DEF pair
    <3>4. /\ made' \in Seq(Pairs) /\ Len(made') = Len(made)
          /\ DOMAIN made' = DOMAIN made
          /\ \A j \in DOMAIN made : made'[j] = IF j = k THEN pair ELSE made[j]
      BY <1>1, <3>1, <3>2, <3>3, PairReplaced
    <3> QED
      BY <2>2, <3>1, <3>2, <3>4
  <2> QED
    BY <2>1, <2>2
<1>7. /\ calls' \in Seq(CallFrames) /\ Len(calls') = Len(calls) + 1
      /\ Len(calls') <= MaxCalls
      /\ DOMAIN calls' = DOMAIN calls \cup {Len(calls) + 1}
      /\ calls'[Len(calls) + 1] = [pc |-> pc, of |-> k]
      /\ \A d \in DOMAIN calls : calls'[d] = calls[d]
  BY <1>1, <1>4, <1>5, CallBegun
<1>8. LifeTypeOK'
  <2>1. orderly' \in BOOLEAN
    BY <1>4 DEF Begun
  <2> QED
    BY <1>1, <1>3, <1>6, <1>7, <2>1 DEF LifeTypeOK, Pairs
<1>9. MadeByCalls'
  BY <1>1, <1>2, <1>6, <1>7 DEF MadeByCalls
<1>10. FramesKnown'
  BY <1>1, <1>2, <1>4, <1>6, <1>7 DEF FramesKnown
<1>11. JobHeld'
  <2>1. taken # 0 => taken \in DOMAIN made
    BY <1>1, <1>2 DEF LifeTypeOK
  <2> QED
    BY <1>1, <1>3, <1>6, <2>1 DEF JobHeld
<1>12. InOrder'
  <2> SUFFICES ASSUME orderly'
               PROVE  /\ InTurn(calls')
                      /\ (NoneInFlight => AtRest)'
                      /\ \A d \in DOMAIN calls' :
                           calls'[d].pc # "over" => Suspended(d)'
    BY DEF InOrder
  <2>1. orderly /\ NoneInFlight
    BY <1>1, <1>4, <1>5, InTurnBegun
  <2>2. worker # 0 /\ connection = worker /\ Only(made, worker, NewPair)
    BY <1>1, <1>3, <2>1 DEF InOrder, AtRest
  <2>3. pc = "close" /\ k = worker
    BY <1>4, <2>2
  <2>4. /\ InTurn(calls') /\ ~NoneInFlight'
        /\ \A d \in DOMAIN calls' :
             calls'[d].pc # "over" => calls'[d] = [pc |-> pc, of |-> k]
    BY <1>1, <1>4, <1>5, <2>3, InTurnBegun
  <2>5. Only(made', k, [worker |-> "closing", redis |-> "open"])
    <3>1. k \in DOMAIN made /\ made[k] = NewPair
      BY <1>2, <1>3, <2>2, <2>3 DEF Only
    <3> QED
      BY <1>6, <2>2, <2>3, <3>1 DEF Only
  <2>6. \A d \in DOMAIN calls' : calls'[d].pc # "over" => Suspended(d)'
    BY <1>3, <2>2, <2>3, <2>4, <2>5 DEF Suspended
  <2> QED
    BY <2>4, <2>6
<1> QED
  BY <1>8, <1>9, <1>10, <1>11, <1>12 DEF LifeInv

LEMMA LifeStepInv == LifeInv /\ LifeStep => LifeInv' /\ taken' = taken
<1> SUFFICES ASSUME LifeInv, LifeStep PROVE LifeInv' /\ taken' = taken
  OBVIOUS
<1>1. CASE Configure
  BY <1>1, ConfigureInv DEF Configure
<1>2. CASE StartCall
  BY <1>2, StartCallInv DEF StartCall
<1>3. CASE StopCall
  BY <1>3, StopCallInv DEF StopCall
<1>4. CASE \E c \in DOMAIN calls : Resume(c) \/ StartFails(c)
  <2>1. PICK c \in DOMAIN calls : Resume(c) \/ StartFails(c)
    BY <1>4
  <2>2. CASE Started(c) \/ StartFails(c)
    BY <2>2, StartedInv DEF Started, StartFails
  <2>3. CASE Closed(c)
    BY <2>3, ClosedInv DEF Closed
  <2>4. CASE Quit(c)
    BY <2>4, QuitInv DEF Quit
  <2> QED
    BY <2>1, <2>2, <2>3, <2>4 DEF Resume
<1> QED
  BY <1>1, <1>2, <1>3, <1>4 DEF LifeStep

\* A Worker that takes or leaves a job does nothing else.
LEMMA TakenInv ==
  ASSUME LifeInv, taken' \in 0..Len(made),
         taken' # 0 => made[taken'].worker # "closed",
         UNCHANGED <<configured, isRunning, worker, connection, made, calls, orderly>>
  PROVE  LifeInv'
<1>1. LifeTypeOK' /\ MadeByCalls' /\ FramesKnown' /\ JobHeld'
  BY DEF LifeInv, LifeTypeOK, MadeByCalls, FramesKnown, JobHeld
<1>2. InOrder'
  BY DEF LifeInv, InOrder, NoneInFlight, InFlight, AtRest, Suspended
<1> QED
  BY <1>1, <1>2 DEF LifeInv

LEMMA LifeStays == LifeInv /\ UNCHANGED lifeVars => LifeInv'
BY TakenInv DEF lifeVars, LifeInv, LifeTypeOK, JobHeld

LEMMA TakeInv ==
  ASSUME LifeInv, NEW k \in DOMAIN made, Take(k)
  PROVE  LifeInv' /\ taken' # 0
<1>1. DOMAIN made = 1..Len(made) /\ Len(made) \in Nat
  BY MadeType DEF LifeInv
<1>2. taken' = k /\ made[k].worker = "open" /\ k \in 1..Len(made)
  BY <1>1 DEF Take
<1> QED
  BY <1>2, TakenInv DEF Take

LEMMA FinishInv == LifeInv /\ Finish => LifeInv' /\ taken' = 0
<1> SUFFICES ASSUME LifeInv, Finish PROVE LifeInv' /\ taken' = 0
  OBVIOUS
<1>1. taken' = 0 /\ Len(made) \in Nat
  BY MadeType DEF Finish, LifeInv
<1> QED
  BY <1>1, TakenInv DEF Finish

-----------------------------------------------------------------------------
(* The process.                                                            *)

\* Whatever start and stop do, what the process does to the records is a
\* behaviour of RecordMigration.
LEMMA ProcessSteps == [ProcessNext]_processVars => [Next]_vars
BY DEF ProcessNext, processVars, vars, TakeJob, EndJob, WorkOn, Meanwhile, Live,
       Rest, Next

LEMMA ProcessMigrates == ProcessSpec => Spec
<1>1. ProcessInit => Init
  BY DEF ProcessInit
<1> QED
  BY <1>1, ProcessSteps, PTL DEF ProcessSpec, Spec

\* Where an attempt stands changes in the steps that begin and end one only.
LEMMA Steady ==
  ASSUME TypeOK, Work
  PROVE  run.pc \in AtWork /\ run'.pc \in AtWork
<1>1. \A b : \A e \in Frames({b}) : e.pc \in PCs
  BY DEF Frames
<1>2. run \in Frames({run.batch})
  BY DEF TypeOK
<1>3. CASE Fetch
  BY <1>2, <1>3 DEF Fetch, Between, AtWork
<1>4. CASE FetchNone
  BY <1>4 DEF FetchNone, Between, AtWork
<1>5. CASE MigrateRecord
  <2>1. PICK i \in Ids :
          /\ run.pc = "records"
          /\ Skip(i) \/ UpdateTable(i) \/ UpdateMemory(i) \/ RecordFails(i) \/ UpdateFails(i)
    BY <1>5 DEF MigrateRecord
  <2>2. run'.pc = run.pc
    BY <1>2, <2>1 DEF Skip, UpdateTable, UpdateMemory, RecordFails, UpdateFails, Frames
  <2> QED
    BY <2>1, <2>2 DEF AtWork
<1>6. CASE Commit
  BY <1>6 DEF Commit, Between, AtWork
<1> QED
  BY <1>3, <1>4, <1>5, <1>6 DEF Work

LEMMA Aside ==
  ASSUME Outside
  PROVE  run'.pc \in AtWork <=> run.pc \in AtWork
<1>1. run' = run \/ (run.pc = "none" /\ run'.pc = "queued")
  <2>1. CASE Insert \/ Reset
    BY <2>1 DEF Insert, Reset
  <2>2. CASE \E i \in DOMAIN rows, f \in EncryptedFields : Store(f, i)
    BY <2>2 DEF Store
  <2>3. CASE CreateRotation
    BY <2>3 DEF CreateRotation, Between
  <2> QED
    BY <2>1, <2>2, <2>3 DEF Outside
<1> QED
  BY <1>1 DEF AtWork

LEMMA AttemptEnds ==
  ASSUME End
  PROVE  run.pc \in AtWork /\ run'.pc \notin AtWork
BY DEF End, RollBack, Interrupt, Activate, Between, AtWork

LEMMA AttemptBegins ==
  ASSUME Start
  PROVE  run.pc \notin AtWork /\ run'.pc \in AtWork
BY DEF Start, Between, AtWork

ProcessInv == LifeInv /\ OneAttempt

LEMMA ProcessInitInv == ProcessInit => ProcessInv
<1> SUFFICES ASSUME ProcessInit PROVE ProcessInv
  OBVIOUS
<1>1. LifeInv
  BY LifeInitInv DEF ProcessInit
<1>2. OneAttempt
  BY DEF ProcessInit, Init, LifeInit, Between, OneAttempt, AtWork
<1> QED
  BY <1>1, <1>2 DEF ProcessInv

LEMMA ProcessNextInv ==
  ASSUME TypeOK, ProcessInv, [ProcessNext]_processVars
  PROVE  ProcessInv'
<1>1. LifeInv /\ OneAttempt
  BY DEF ProcessInv
<1>2. CASE TakeJob
  <2>1. PICK k \in DOMAIN made : Take(k) /\ Start
    BY <1>2 DEF TakeJob
  <2>2. LifeInv' /\ taken' # 0
    BY <1>1, <2>1, TakeInv
  <2>3. run'.pc \in AtWork
    BY <2>1, AttemptBegins
  <2> QED
    BY <2>2, <2>3 DEF ProcessInv, OneAttempt
<1>3. CASE EndJob
  <2>1. LifeInv' /\ taken' = 0
    BY <1>1, <1>3, FinishInv DEF EndJob
  <2>2. run'.pc \notin AtWork
    BY <1>3, AttemptEnds DEF EndJob
  <2> QED
    BY <2>1, <2>2 DEF ProcessInv, OneAttempt
<1>4. CASE WorkOn
  <2>1. run.pc \in AtWork /\ run'.pc \in AtWork
    BY <1>4, Steady DEF WorkOn
  <2>2. taken' = taken
    BY <1>4 DEF WorkOn, lifeVars
  <2>3. LifeInv'
    BY <1>1, <1>4, LifeStays DEF WorkOn
  <2> QED
    BY <1>1, <2>1, <2>2, <2>3 DEF ProcessInv, OneAttempt
<1>5. CASE Meanwhile
  <2>1. run'.pc \in AtWork <=> run.pc \in AtWork
    BY <1>5, Aside DEF Meanwhile
  <2>2. taken' = taken
    BY <1>5 DEF Meanwhile, lifeVars
  <2>3. LifeInv'
    BY <1>1, <1>5, LifeStays DEF Meanwhile
  <2> QED
    BY <1>1, <2>1, <2>2, <2>3 DEF ProcessInv, OneAttempt
<1>6. CASE Live
  <2>1. LifeInv' /\ taken' = taken
    BY <1>1, <1>6, LifeStepInv DEF Live
  <2>2. run' = run
    BY <1>6 DEF Live, vars
  <2> QED
    BY <1>1, <2>1, <2>2 DEF ProcessInv, OneAttempt
<1>7. CASE Rest \/ UNCHANGED processVars
  <2>1. UNCHANGED lifeVars /\ run' = run
    BY <1>7 DEF Rest, processVars, vars
  <2>2. LifeInv' /\ taken' = taken
    BY <1>1, <2>1, LifeStays DEF lifeVars
  <2> QED
    BY <1>1, <2>1, <2>2 DEF ProcessInv, OneAttempt
<1> QED
  BY <1>2, <1>3, <1>4, <1>5, <1>6, <1>7 DEF ProcessNext

LEMMA ProcessInvariance == ProcessSpec => []ProcessInv
<1>1. ProcessInit => ProcessInv
  BY ProcessInitInv
<1>2. TypeOK /\ ProcessInv /\ [ProcessNext]_processVars => ProcessInv'
  BY ProcessNextInv
<1>3. ProcessSpec => []TypeOK
  BY ProcessMigrates, TypeCorrect, PTL
<1> QED
  BY <1>1, <1>2, <1>3, PTL DEF ProcessSpec

-----------------------------------------------------------------------------

\* LifeTypeOK: the singleton's references are to Workers and connections it has
\* made, and no call waits for one that was never made, however start, stop and
\* configure of encryption.rotation.worker.js overlap or fail.
THEOREM SingletonTypeCorrect == ProcessSpec => []LifeTypeOK
<1>1. ProcessInv => LifeTypeOK
  BY DEF ProcessInv, LifeInv
<1> QED
  BY <1>1, ProcessInvariance, PTL

\* IsRunningTellsTheTruth: after start and stop called in turn, any number of
\* times and with the rotation's attempts in between, nothing is left open but
\* what isRunning() admits, and stop() has left no attempt half way.
THEOREM StopsGracefully == ProcessSpec => []IsRunningTellsTheTruth
<1>1. ProcessInv => IsRunningTellsTheTruth
  <2> SUFFICES ASSUME ProcessInv, orderly, NoneInFlight
               PROVE  /\ {k \in DOMAIN made : made[k].worker # "closed"}
                           = IF isRunning THEN {worker} \ {0} ELSE {}
                      /\ {k \in DOMAIN made : made[k].redis = "open"}
                           = IF isRunning THEN {connection} \ {0} ELSE {}
                      /\ isRunning => worker # 0 /\ connection # 0
                      /\ run.pc \in {"fetch", "records", "activate"}
                           => isRunning /\ taken = worker
    BY DEF IsRunningTellsTheTruth
  <2>1. LifeTypeOK /\ JobHeld /\ OneAttempt /\ AtRest
    BY DEF ProcessInv, LifeInv, InOrder
  <2>2. DOMAIN made = 1..Len(made) /\ Len(made) \in Nat
    BY <2>1, MadeType
  <2>3. /\ worker \in 0..Len(made) /\ connection \in 0..Len(made)
        /\ taken \in 0..Len(made) /\ isRunning \in BOOLEAN
    BY <2>1 DEF LifeTypeOK
  <2>4. run.pc \in {"fetch", "records", "activate"} =>
          taken \in DOMAIN made /\ made[taken].worker # "closed"
    BY <2>1, <2>2, <2>3 DEF OneAttempt, AtWork, JobHeld
  <2>5. CASE isRunning
    <3>1. /\ worker \in DOMAIN made /\ connection = worker /\ worker # 0
          /\ \A j \in DOMAIN made : made[j] = IF j = worker THEN NewPair ELSE Gone
      BY <2>1, <2>2, <2>3, <2>5 DEF AtRest, Only
    <3> QED
      BY <2>4, <2>5, <3>1 DEF NewPair, Gone
  <2>6. CASE ~isRunning
    <3>1. \A j \in DOMAIN made : made[j] = Gone
      BY <2>1, <2>2, <2>6 DEF AtRest, Only
    <3> QED
      BY <2>4, <2>6, <3>1 DEF Gone
  <2> QED
    BY <2>3, <2>5, <2>6
<1> QED
  BY <1>1, ProcessInvariance, PTL
=============================================================================
