----------------------- MODULE RotationSocketProofs -----------------------
(***************************************************************************)
(* What a subscriber of a rotation may rely on, for any number of          *)
(* rotations, workers, records and faults.  The pipeline below goes its    *)
(* own way (PipelineUnaffected), so that its invariant holds here too.     *)
(*                                                                         *)
(* HundredIsReliable needs that invariant, the total that createRotation   *)
(* counted, which stands from then on, and the numbers on their way        *)
(* through the stream.  That progress never goes back, and that nothing    *)
(* comes after the end, are promises of a queue that takes no living       *)
(* worker for a dead one: then whoever is at a rotation holds the token of *)
(* its job, is alone with it, and has the counters of its row (Alone).     *)
(***************************************************************************)
EXTENDS RotationSocket, RotationPipelineProofs, SequenceTheorems

-----------------------------------------------------------------------------
(* Steps.                                                                  *)

\* The events a step may append: a report of progress, or an end.
Tells(w, e) ==
  /\ Reported(w)
  /\ e = Event("progress", run[w].r, Reporting(w))
EndsWith(r, e) ==
  /\ Finished(r)
  /\ e = Event(job'[r].state, r, NoCheckpoint)

\* A subscriber hears no number in this step, at most a notice.
OnlyNotices(r) ==
  /\ heard'[r].done = heard[r].done
  /\ heard'[r].percentage = heard[r].percentage
  /\ heard'[r].ends \in {heard[r].ends, heard[r].ends \cup {"cancelled"}}

\* The event e is heard in this step, or nobody is in its room.
Hears(e) ==
  /\ \A q \in Rotations \ {e.r} : heard'[q] = heard[q]
  /\ \/ heard'[e.r] = heard[e.r]
     \/ /\ e.kind = "progress"
        /\ heard'[e.r].done = e.done /\ heard'[e.r].percentage = e.percentage
        /\ heard'[e.r].ends = heard[e.r].ends
     \/ /\ e.kind # "progress"
        /\ heard'[e.r].done = heard[e.r].done
        /\ heard'[e.r].percentage = heard[e.r].percentage
        /\ heard'[e.r].ends = heard[e.r].ends \cup {e.kind}

Appended(e) ==
  /\ Len(stream') = Len(stream) + 1
  /\ \A i \in 1..Len(stream) : stream'[i] = stream[i]
  /\ stream'[Len(stream) + 1] = e
Shifted ==
  /\ stream # <<>> /\ 1 \in 1..Len(stream)
  /\ Len(stream') = Len(stream) - 1
  /\ \A i \in 1..Len(stream') : i + 1 \in 1..Len(stream) /\ stream'[i] = stream[i + 1]

\* The pipeline goes on and its events are appended, or the listener reads one.
Publishes ==
  /\ [Next]_vars
  /\ \A q \in Rotations : OnlyNotices(q)
  /\ \/ stream' = stream
     \/ \E e \in Events : /\ Appended(e)
                          /\ \/ \E w \in Workers : Tells(w, e)
                             \/ \E r \in Rotations : EndsWith(r, e)
Delivers == /\ UNCHANGED vars
            /\ Shifted
            /\ Hears(stream[1])

-----------------------------------------------------------------------------
(* Types, and what an event says.                                          *)

\* 100 percent is said only of counters that have at least n records done.
LEMMA PercentageType ==
  ASSUME NEW c \in Checkpoints, NEW n \in 0..MaxRecords
  PROVE  /\ Percentage(c, n) \in 0..100
         /\ Percentage(c, n) = 100 => c.done >= n
<1>1. c.done \in Nat /\ n \in Nat
  BY SizesAssumption DEF Checkpoints
<1>2. CASE n = 0 \/ c.done >= n
  BY <1>1, <1>2 DEF Percentage
<1>3. CASE n # 0 /\ c.done < n
  <2> DEFINE d == c.done
             q == (d * 100) \div n
  <2>1. n > 0 /\ d * 100 \in Nat /\ d * 100 < n * 100
    BY <1>1, <1>3
  <2>2. q \in Int /\ q * n <= d * 100
    BY <1>1, <2>1
  <2>3. q >= 0
    BY <1>1, <2>1
  <2>4. q < 100
    BY <1>1, <2>1, <2>2
  <2>5. Percentage(c, n) = q
    BY <1>1, <1>3 DEF Percentage
  <2> HIDE DEF q
  <2> QED
    BY <2>2, <2>3, <2>4, <2>5
<1> QED
  BY <1>1, <1>2, <1>3

LEMMA EventType ==
  ASSUME TypeOK, NEW kind \in {"progress", "completed", "failed"},
         NEW r \in Rotations, NEW c \in Checkpoints
  PROVE  /\ Event(kind, r, c) \in Events
         /\ Event(kind, r, c).kind = kind /\ Event(kind, r, c).r = r
         /\ Event(kind, r, c).done = c.done
         /\ Event(kind, r, c).percentage = Percentage(c, total[r])
<1>1. c.done \in 0..MaxRecords /\ total[r] \in 0..MaxRecords
  BY DEF Checkpoints, TypeOK
<1> QED
  BY <1>1, PercentageType DEF Event, Events

LEMMA ToldEvent ==
  ASSUME TypeOK, TypeOK', NEW w \in Workers, NEW e, Tells(w, e)
  PROVE  /\ e \in Events
         /\ Reporting(w) \in Checkpoints
         /\ e.kind = "progress" /\ e.r = run[w].r /\ e.done = Reporting(w).done
         /\ e.percentage = Percentage(Reporting(w), total[run[w].r])
<1>1. run[w].at \in Checkpoints /\ run[w].r \in Rotations
  BY FrameType
<1>2. run'[w].at \in Checkpoints
  BY DEF TypeOK, Frames
<1>3. Reporting(w) \in Checkpoints
  BY <1>1, <1>2 DEF Reporting
<1> QED
  BY <1>1, <1>3, EventType DEF Tells

LEMMA EndEvent ==
  ASSUME TypeOK, NEW r \in Rotations, NEW e, EndsWith(r, e)
  PROVE  /\ e \in Events
         /\ e.kind = job'[r].state /\ e.kind # "progress" /\ e.r = r
<1>1. job'[r].state \in {"completed", "failed"}
  BY DEF EndsWith, Finished
<1> QED
  BY <1>1, EventType, NoCheckpointType DEF EndsWith

LEMMA StreamType ==
  ASSUME SocketTypeOK
  PROVE  /\ Len(stream) \in Nat /\ DOMAIN stream = 1..Len(stream)
         /\ \A i \in 1..Len(stream) : stream[i] \in Events /\ stream[i].r \in Rotations
<1>1. Len(stream) \in Nat /\ DOMAIN stream = 1..Len(stream)
  BY LenProperties DEF SocketTypeOK
<1>2. \A i \in 1..Len(stream) : stream[i] \in Events
  BY ElementOfSeq DEF SocketTypeOK
<1> QED
  BY <1>1, <1>2 DEF Events

LEMMA AppendedType ==
  ASSUME SocketTypeOK, NEW e \in Events, stream' = Append(stream, e)
  PROVE  stream' \in Seq(Events) /\ Appended(e)
BY AppendProperties DEF SocketTypeOK, Appended

LEMMA HearType ==
  ASSUME SocketTypeOK, NEW r \in Rotations, NEW h \in Heard, Hear(r, h)
  PROVE  /\ heard' \in [Rotations -> Heard]
         /\ \A q \in Rotations \ {r} : heard'[q] = heard[q]
         /\ heard'[r] \in {heard[r], h}
BY DEF SocketTypeOK, Hear

LEMMA NoticeHeard ==
  ASSUME SocketTypeOK, NEW r \in Rotations, Hear(r, Notice(r))
  PROVE  /\ heard' \in [Rotations -> Heard]
         /\ \A q \in Rotations : OnlyNotices(q)
<1>1. heard[r] \in Heard
  BY DEF SocketTypeOK
<1>2. /\ Notice(r) \in Heard
      /\ Notice(r).done = heard[r].done
      /\ Notice(r).percentage = heard[r].percentage
      /\ Notice(r).ends = heard[r].ends \cup {"cancelled"}
  BY <1>1 DEF Notice, Heard, Ends
<1> QED
  BY <1>2, HearType DEF OnlyNotices

LEMMA StepPublishes ==
  ASSUME TypeOK, TypeOK', SocketTypeOK, Step
  PROVE  SocketTypeOK' /\ Publishes
<1>1. stream' = stream \o Said
  BY DEF Step, Say
<1>2. /\ stream' \in Seq(Events)
      /\ \/ stream' = stream
         \/ \E e \in Events : /\ Appended(e)
                              /\ \/ \E w \in Workers : Tells(w, e)
                                 \/ \E r \in Rotations : EndsWith(r, e)
  <2>1. CASE \E w \in Workers : Reported(w)
    <3> DEFINE w == CHOOSE w \in Workers : Reported(w)
               e == Event("progress", run[w].r, Reporting(w))
    <3>1. w \in Workers /\ Tells(w, e)
      BY <2>1 DEF Tells
    <3>2. Said = <<e>>
      BY <2>1 DEF Said
    <3> HIDE DEF w, e
    <3>3. e \in Events
      BY <3>1, ToldEvent
    <3>4. stream' = Append(stream, e)
      BY <1>1, <3>2, <3>3, AppendIsConcat DEF SocketTypeOK
    <3> QED
      BY <3>1, <3>3, <3>4, AppendedType
  <2>2. CASE ~(\E w \in Workers : Reported(w)) /\ \E r \in Rotations : Finished(r)
    <3> DEFINE r == CHOOSE r \in Rotations : Finished(r)
               e == Event(job'[r].state, r, NoCheckpoint)
    <3>1. r \in Rotations /\ EndsWith(r, e)
      BY <2>2 DEF EndsWith
    <3>2. Said = <<e>>
      BY <2>2 DEF Said
    <3> HIDE DEF r, e
    <3>3. e \in Events
      BY <3>1, EndEvent
    <3>4. stream' = Append(stream, e)
      BY <1>1, <3>2, <3>3, AppendIsConcat DEF SocketTypeOK
    <3> QED
      BY <3>1, <3>3, <3>4, AppendedType
  <2>3. CASE /\ ~(\E w \in Workers : Reported(w))
             /\ ~(\E r \in Rotations : Finished(r))
    <3>1. Said = <<>>
      BY <2>3 DEF Said
    <3>2. stream' = stream
      BY <1>1, <3>1, ConcatEmptySeq DEF SocketTypeOK
    <3> QED
      BY <3>2 DEF SocketTypeOK
  <2> QED
    BY <2>1, <2>2, <2>3
<1>3. /\ heard' \in [Rotations -> Heard]
      /\ \A q \in Rotations : OnlyNotices(q)
  <2>1. CASE \E r \in Rotations : CancelReturned(r)
    <3> DEFINE r == CHOOSE r \in Rotations : CancelReturned(r)
    <3>1. r \in Rotations /\ Hear(r, Notice(r))
      BY <2>1 DEF Step, Say
    <3> HIDE DEF r
    <3> QED
      BY <3>1, NoticeHeard
  <2>2. CASE ~(\E r \in Rotations : CancelReturned(r))
    <3>1. heard' = heard
      BY <2>2 DEF Step, Say
    <3> QED
      BY <3>1 DEF SocketTypeOK, OnlyNotices
  <2> QED
    BY <2>1, <2>2
<1>4. joined' = joined /\ unanswered' \in SUBSET Rotations /\ Next
  BY DEF Step, Say, SocketTypeOK
<1> QED
  BY <1>2, <1>3, <1>4 DEF SocketTypeOK, Publishes

LEMMA ListenDelivers ==
  ASSUME SocketTypeOK, Listen
  PROVE  SocketTypeOK' /\ Delivers
<1> DEFINE e == Head(stream)
           h == IF e.kind = "progress"
                  THEN [heard[e.r] EXCEPT !.done = e.done, !.percentage = e.percentage]
                  ELSE [heard[e.r] EXCEPT !.ends = @ \cup {e.kind}]
<1>1. /\ stream # <<>> /\ stream' = Tail(stream)
      /\ UNCHANGED <<vars, joined, unanswered>> /\ Hear(e.r, h)
  BY DEF Listen
<1>2. Len(stream) \in Nat \ {0}
  BY <1>1, EmptySeq DEF SocketTypeOK
<1>3. /\ stream' \in Seq(Events)
      /\ Len(stream') = Len(stream) - 1
      /\ \A i \in 1..Len(stream') : stream'[i] = stream[i + 1]
  BY <1>1, HeadTailProperties DEF SocketTypeOK
<1>4. e = stream[1]
  OBVIOUS
<1>5. e \in Events
  BY <1>2, <1>4, StreamType
<1>6. /\ e.r \in Rotations /\ e.done \in 0..MaxRecords /\ e.percentage \in 0..100
      /\ e.kind \in {"progress", "completed", "failed"}
  BY <1>5 DEF Events
<1>7. heard[e.r] \in Heard
  BY <1>6 DEF SocketTypeOK
<1> HIDE DEF e
<1>8. /\ h \in Heard
      /\ e.kind = "progress" => /\ h.done = e.done /\ h.percentage = e.percentage
                                /\ h.ends = heard[e.r].ends
      /\ e.kind # "progress" => /\ h.done = heard[e.r].done
                                /\ h.percentage = heard[e.r].percentage
                                /\ h.ends = heard[e.r].ends \cup {e.kind}
  BY <1>6, <1>7 DEF Heard, Ends
<1> HIDE DEF h
<1>9. /\ heard' \in [Rotations -> Heard]
      /\ \A q \in Rotations \ {e.r} : heard'[q] = heard[q]
      /\ heard'[e.r] \in {heard[e.r], h}
  BY <1>1, <1>6, <1>8, HearType
<1>10. Hears(e)
  BY <1>8, <1>9 DEF Hears
<1>11. Shifted
  BY <1>1, <1>2, <1>3 DEF Shifted
<1> QED
  BY <1>1, <1>3, <1>4, <1>9, <1>10, <1>11 DEF SocketTypeOK, Delivers

LEMMA SocketSteps ==
  ASSUME TypeOK, TypeOK', SocketTypeOK, [SocketNext]_socketVars
  PROVE  SocketTypeOK' /\ (Publishes \/ Delivers)
<1>1. CASE Step
  BY <1>1, StepPublishes
<1>2. CASE Listen
  BY <1>2, ListenDelivers
<1>3. ASSUME NEW r \in Rotations, CancelEnded(r)
      PROVE  SocketTypeOK' /\ Publishes
  <2>1. UNCHANGED <<vars, stream, joined, unanswered>> /\ Hear(r, Notice(r))
    BY <1>3 DEF CancelEnded
  <2> QED
    BY <2>1, NoticeHeard DEF SocketTypeOK, Publishes
<1>4. ASSUME NEW r \in Rotations, Subscribe(r)
      PROVE  SocketTypeOK' /\ Publishes
  BY <1>4 DEF Subscribe, SocketTypeOK, Publishes, OnlyNotices
<1>5. CASE UNCHANGED socketVars
  BY <1>5 DEF socketVars, SocketTypeOK, Publishes, OnlyNotices
<1> QED
  BY <1>1, <1>2, <1>3, <1>4, <1>5 DEF SocketNext

\* Nothing the subscriber does has an effect on the rotations.
LEMMA PipelineUnaffected == SocketSpec => Spec
<1>1. SocketInit => Init
  BY DEF SocketInit
<1>2. ASSUME [SocketNext]_socketVars
      PROVE  [Next]_vars
  BY <1>2 DEF SocketNext, Step, Listen, CancelEnded, Subscribe, socketVars
<1> QED
  BY <1>1, <1>2, PTL DEF SocketSpec, Spec

LEMMA InitSocketType == SocketInit => SocketTypeOK
<1>1. Silence \in Heard
  BY SizesAssumption DEF Silence, Heard
<1> QED
  BY <1>1, EmptySeq DEF SocketInit, SocketTypeOK

\* SocketTypeOK: what is on its way and what has been heard are events and
\* numbers of the rotations, percentages between 0 and 100.
THEOREM SocketTypeCorrect == SocketSpec => []SocketTypeOK
<1>1. SocketInit => SocketTypeOK
  BY InitSocketType
<1>2. ASSUME Inv, Inv', SocketTypeOK, [SocketNext]_socketVars
      PROVE  SocketTypeOK'
  BY <1>2, SocketSteps DEF Inv
<1>3. SocketSpec => []Inv
  BY PipelineUnaffected, Invariance, PTL
<1> QED
  BY <1>1, <1>2, <1>3, PTL DEF SocketSpec

-----------------------------------------------------------------------------
(* 100 percent.  Said of a rotation, or heard, it says for good how many    *)
(* records can be left: no more than there are beyond those counted.       *)

\* What the caller has set for good by the time a worker is at the rotation.
Begins(r) == to[r] # 0 /\ creating[r] \notin Unborn
Leftover(r) == Behind(RecordsOf(r), to[r], 1..SizeOf(r))
Certain(r) ==
  /\ Begins(r)
  /\ r \notin overtaken => Cardinality(Leftover(r)) <= SizeOf(r) - total[r]
HundredSaid(e, r) == e.r = r /\ e.kind = "progress" /\ e.percentage = 100
Hundred ==
  \A r \in Rotations :
    /\ \A i \in 1..Len(stream) : HundredSaid(stream[i], r) => Certain(r)
    /\ heard[r].percentage = 100 => Certain(r)

LEMMA WorkerCreates ==
  ASSUME TypeOK, Created, NEW w \in Workers, WorkerStep(w)
  PROVE  creating' = creating
<1>1. CASE Migrate(w) \/ MigrateUnlucky(w)
  BY <1>1, MigrateCommits DEF Commits, callers
<1>2. CASE ~(Migrate(w) \/ MigrateUnlucky(w))
  BY <1>2 DEF WorkerStep, Work, TakeJob, Load, GetLock, Locked, Check, Report, Mark,
     Complete, MarkFailed, Fetch, Activate, Release, SettleJob, Fail, Crash,
     LeakLock, LoseSession, callers
<1> QED
  BY <1>1, <1>2

\* A rotation's records go on under its version or newer ones, until an older
\* rotation overtakes it, and its total stands.
LEMMA NextSteady ==
  ASSUME TypeOK, Created, [Next]_vars, NEW q \in Rotations, Begins(q)
  PROVE  /\ Begins(q)' /\ total'[q] = total[q] /\ SizeOf(q)' >= SizeOf(q)
         /\ q \notin overtaken' => Steady(q) /\ q \notin overtaken
<1> DEFINE Goes == /\ to'[q] = to[q] /\ creating'[q] \notin Unborn
                   /\ total'[q] = total[q] /\ SizeOf(q)' >= SizeOf(q)
                   /\ q \notin overtaken' => Steady(q) /\ q \notin overtaken
<1>0. SizeOf(q) \in Int /\ creating[q] \notin Unborn
  BY SizeType DEF Begins
<1>1. ASSUME UNCHANGED <<to, total, creating, data, missed, overtaken>>
      PROVE  Goes
  <2>1. Steady(q)
    BY <1>1, StillSteady DEF data
  <2> QED
    BY <1>0, <1>1, <2>1 DEF data, SizeOf
<1>2. ASSUME NEW r \in Rotations, CallerStep(r)
      PROVE  Goes
  <2>1. UNCHANGED <<records, size, missed, overtaken>>
    BY <1>2, CallerData
  <2>2. CASE r = q
    <3>1. ~Mint(r) /\ ~CountRows(r)
      BY <2>2, <1>0 DEF Mint, CountRows, Unborn
    <3>2. UNCHANGED <<to, total>>
      BY <1>2, <3>1, CallerData
    <3>3. creating'[q] \notin Unborn
      <4>1. \/ creating' = creating
            \/ CreateRow(r) \/ Enqueue(r) \/ CreateDies(r)
        BY <1>2, <3>1 DEF CallerStep, Continue, CancelRead, CancelFails,
           CancelUpdate, CancelGetJob, CancelRemove, CancelReread, Queue,
           FalseStall, callers
      <4> QED
        BY <1>0, <2>2, <4>1 DEF CreateRow, Enqueue, CreateDies, Unborn, TypeOK
    <3>4. Steady(q)
      BY <2>1, <3>2, StillSteady
    <3> QED
      BY <1>0, <2>1, <3>2, <3>3, <3>4 DEF SizeOf
  <2>3. CASE r # q
    <3>1. Untouched(q)
      BY <1>2, <2>3, CallerActs
    <3>2. Steady(q)
      BY <2>1, <3>1 DEF Untouched, Steady, NoFurther, RecordsOf
    <3> QED
      BY <1>0, <2>1, <3>1, <3>2 DEF Untouched, SizeOf
  <2> QED
    BY <2>2, <2>3
<1>3. ASSUME NEW w \in Workers, WorkerStep(w)
      PROVE  Goes
  <2>1. creating' = creating
    BY <1>3, WorkerCreates
  <2>2. CASE Migrate(w) \/ MigrateUnlucky(w)
    <3>1. run[w].pc = "migrate" /\ \E bad \in SUBSET run[w].batch : Commits(w, bad)
      BY <2>2, MigrateCommits
    <3>2. UNCHANGED <<to, total, size>>
      BY <3>1 DEF Commits
    <3>3. q \notin overtaken' => Steady(q) /\ q \notin overtaken
      BY <3>1, CommitSteady
    <3> QED
      BY <1>0, <2>1, <3>2, <3>3 DEF SizeOf
  <2>3. CASE ~(Migrate(w) \/ MigrateUnlucky(w))
    BY <1>1, <1>3, <2>1, <2>3, WorkerFrames DEF Matters
  <2> QED
    BY <2>2, <2>3
<1>4. ASSUME NEW t \in Targets,
             PoolDrops(t) \/ Insert(t) \/ (\E i \in Ids : AppWrite(t, i))
      PROVE  Goes
  <2>1. Steady(q)
    BY <1>4, TargetSteady
  <2>2. UNCHANGED <<to, total, creating, overtaken>>
    BY <1>4 DEF PoolDrops, Insert, AppWrite, rows, callers, history
  <2>3. SizeOf(q)' >= SizeOf(q)
    <3>1. size' = size \/ size' = [size EXCEPT ![t] = @ + 1]
      BY <1>4 DEF PoolDrops, Insert, AppWrite, data
    <3>2. TargetOf[q] \in Targets /\ size[TargetOf[q]] \in Int
          /\ size \in [Targets -> 0..MaxRecords]
      BY TargetOfAssumption, SizesAssumption DEF TypeOK
    <3>3. size'[TargetOf[q]] \in {size[TargetOf[q]], size[TargetOf[q]] + 1}
      BY <3>1, <3>2
    <3> QED
      BY <3>2, <3>3 DEF SizeOf
  <2> QED
    BY <1>0, <2>1, <2>2, <2>3
<1>5. ASSUME UNCHANGED vars
      PROVE  Goes
  <2>1. UNCHANGED <<to, total, creating, data, missed, overtaken>>
    BY <1>5 DEF vars, rows, callers, history
  <2> QED
    BY <1>1, <2>1
<1> HIDE DEF Goes
<1>6. Goes
  BY <1>2, <1>3, <1>4, <1>5, NextCases
<1> QED
  BY <1>6 DEF Begins, Goes

\* Records m+1..n can add no more than their number.
LEMMA BehindMore ==
  ASSUME NEW recs, NEW v, NEW n \in 0..MaxRecords, NEW m \in 0..n
  PROVE  Cardinality(Behind(recs, v, 1..n))
           <= Cardinality(Behind(recs, v, 1..m)) + (n - m)
<1> DEFINE all == Behind(recs, v, 1..n)
           some == Behind(recs, v, 1..m)
           new == m + 1..n
<1>1. m \in 0..MaxRecords /\ m \in Nat /\ n \in Nat /\ m <= n
  BY SizesAssumption
<1>2. IsFiniteSet(all) /\ IsFiniteSet(some)
      /\ Cardinality(all) \in Nat /\ Cardinality(some) \in Nat
  BY <1>1, BehindFinite
<1>3. IsFiniteSet(new) /\ Cardinality(new) = n - m
  <2>1. m + 1 \in Int /\ n \in Int
    BY <1>1
  <2>2. /\ IsFiniteSet(new)
        /\ Cardinality(new) = IF m + 1 > n THEN 0 ELSE n - (m + 1) + 1
    BY <2>1, FS_Interval
  <2> HIDE DEF new
  <2>3. (IF m + 1 > n THEN 0 ELSE n - (m + 1) + 1) = n - m
    BY <1>1
  <2> QED
    BY <2>2, <2>3
<1>4. all \subseteq some \cup new
  <2>1. 1..n \subseteq (1..m) \cup new
    BY <1>1
  <2> QED
    BY <2>1 DEF Behind
<1>5. Cardinality(some \cap new) \in Nat
  BY <1>2, FS_Subset, FS_CardinalityType
<1> HIDE DEF all, some, new
<1>6. /\ IsFiniteSet(some \cup new)
      /\ Cardinality(some \cup new)
           = Cardinality(some) + Cardinality(new) - Cardinality(some \cap new)
  BY <1>2, <1>3, FS_Union
<1>7. Cardinality(all) <= Cardinality(some \cup new)
  BY <1>4, <1>6, FS_Subset
<1>8. Cardinality(all) <= Cardinality(some) + (n - m)
  BY <1>1, <1>2, <1>3, <1>5, <1>6, <1>7
<1> QED
  BY <1>8 DEF all, some

LEMMA CertainStays ==
  ASSUME TypeOK, TypeOK', Created, [Next]_vars, NEW q \in Rotations, Certain(q)
  PROVE  Certain(q)'
<1> DEFINE n == SizeOf(q)
           m == SizeOf(q)'
           old == Behind(RecordsOf(q), to[q], 1..n)
           kept == Behind(RecordsOf(q)', to[q], 1..n)
           new == Behind(RecordsOf(q)', to[q], 1..m)
<1>1. Begins(q)' /\ total'[q] = total[q] /\ m >= n
  BY NextSteady DEF Certain
<1>2. n \in 0..MaxRecords /\ m \in 0..MaxRecords /\ total[q] \in Int
  BY SizesAssumption, TargetOfAssumption DEF TypeOK, SizeOf
<1>3. ASSUME q \notin overtaken'
      PROVE  Cardinality(new) <= m - total[q] /\ to'[q] = to[q]
  <2>1. Steady(q) /\ q \notin overtaken
    BY <1>3, NextSteady DEF Certain
  <2>2. Cardinality(old) <= n - total[q]
    BY <2>1 DEF Certain, Leftover
  <2>3. kept \subseteq old
    BY <2>1, BehindShrinks DEF Steady
  <2>4. IsFiniteSet(old) /\ Cardinality(old) \in Nat
    BY <1>2, BehindFinite
  <2>5. Cardinality(kept) <= Cardinality(old) /\ Cardinality(kept) \in Nat
    BY <2>3, <2>4, FS_Subset, FS_CardinalityType
  <2>6. n \in 0..m
    BY <1>1, <1>2, SizesAssumption
  <2>7. Cardinality(new) <= Cardinality(kept) + (m - n) /\ Cardinality(new) \in Nat
    BY <1>2, <2>6, BehindMore, BehindFinite
  <2>8. n \in Int /\ m \in Int
    BY <1>2, SizesAssumption
  <2> HIDE DEF old, kept, new, n, m
  <2>9. Cardinality(new) <= m - total[q]
    BY <1>2, <2>2, <2>4, <2>5, <2>7, <2>8
  <2> QED
    BY <2>1, <2>9 DEF Steady
<1> QED
  BY <1>1, <1>3 DEF Certain, Leftover, RecordsOf

\* Counters that have `counted` records done leave no more behind, among n, than
\* there are beyond those counted.
LEMMA AllDone ==
  ASSUME NEW recs, NEW v, NEW given, NEW c \in Checkpoints, Counts(c),
         Covered(recs, v, given, c), NEW n \in 0..MaxRecords, c.last <= n,
         NEW counted \in 0..MaxRecords, c.done >= counted
  PROVE  Cardinality(Behind(recs, v, 1..n)) <= n - counted
<1> DEFINE rest == Behind(recs, v, 1..n)
           past == Behind(recs, v, 1..c.last)
<1>1. /\ c.last \in Nat /\ c.done \in Nat /\ c.failed \in Nat
      /\ n \in Nat /\ counted \in Nat /\ c.last \in 0..MaxRecords
  BY SizesAssumption DEF Checkpoints
<1>2. Cardinality(rest) \in Nat /\ Cardinality(past) \in Nat
  BY <1>1, BehindFinite
<1>3. Cardinality(rest) <= Cardinality(past) + (n - c.last)
  <2>1. c.last \in 0..n
    BY <1>1
  <2> QED
    BY <2>1, BehindMore
<1>4. Cardinality(past) <= c.failed
  BY DEF Covered
<1> HIDE DEF rest, past
<1>5. c.done + c.failed = c.last
  BY DEF Counts
<1>6. Cardinality(rest) <= n - counted
  BY <1>1, <1>2, <1>3, <1>4, <1>5
<1> QED
  BY <1>6 DEF rest

\* The step of a worker that reports: it stays at its rotation, and the
\* counters are those of its frame, or the ones it has just committed.
LEMMA ReportedStep ==
  ASSUME TypeOK, Created, [Next]_vars, NEW w \in Workers, Reported(w)
  PROVE  /\ WorkerStep(w)
         /\ run[w].pc # "idle" /\ run'[w].r = run[w].r
         /\ \/ /\ run[w].pc \in {"check", "report"}
               /\ Reporting(w) = run[w].at
               /\ UNCHANGED Matters
            \/ /\ run[w].pc = "migrate"
               /\ Reporting(w) = run'[w].at
               /\ ckpt'[run[w].r] = run'[w].at
               /\ \E bad \in SUBSET run[w].batch : Commits(w, bad)
<1>1. /\ <<run[w].pc, run'[w].pc>> \in
           {<<"migrate", "check">>, <<"check", "release">>, <<"report", "release">>}
      /\ run'[w] # run[w]
  BY DEF Reported
<1>2. WorkerStep(w)
  <2>1. ASSUME NEW r \in Rotations, CallerStep(r)
        PROVE  run' = run
    BY <2>1, CallerActs
  <2>2. ASSUME NEW v \in Workers \ {w}, WorkerStep(v)
        PROVE  run'[w] = run[w]
    BY <2>2, WorkerLocks
  <2>3. ASSUME NEW t \in Targets,
               PoolDrops(t) \/ Insert(t) \/ (\E i \in Ids : AppWrite(t, i))
        PROVE  run' = run
    BY <2>3 DEF PoolDrops, Insert, AppWrite
  <2> QED
    BY <1>1, <2>1, <2>2, <2>3, NextCases DEF vars
<1>3. run[w].pc # "idle" /\ run'[w].r = run[w].r
  BY <1>1, <1>2, WorkerActs
<1>4. CASE run[w].pc = "migrate"
  <2>1. run'[w].pc = "check"
    BY <1>1, <1>4
  <2>2. Migrate(w) \/ MigrateUnlucky(w)
    <3>0. ~LeakLock(w) /\ ~LoseSession(w)
      BY <1>1, <1>4 DEF LeakLock, LoseSession
    <3>1. ~Fail(w)
      <4>1. Fail(w) => At(w, "fail")
        BY <1>4, LeaveFrame DEF Fail
      <4> QED
        BY <2>1, <4>1 DEF At
    <3>2. ~Crash(w)
      <4>1. Crash(w) => Frame(w, Idle)
        BY IdleFrame DEF Crash
      <4>2. Idle.pc = "idle"
        BY DEF Idle
      <4> QED
        BY <2>1, <4>1, <4>2 DEF Frame
    <3> QED
      BY <1>2, <1>4, <3>0, <3>1, <3>2 DEF WorkerStep, Work, TakeJob, Load, GetLock, Locked,
         Check, Report, Mark, Complete, MarkFailed, Fetch, Activate, Release, SettleJob
  <2>3. PICK bad \in SUBSET run[w].batch : Commits(w, bad)
    BY <2>2, MigrateCommits
  <2>4. run'[w].at = Counted(run[w].at, run[w].batch, bad)
    <3>1. ~Left(w)
      BY <2>1 DEF Left, Counting, TryPCs
    <3> QED
      BY <2>3, <3>1, CommitFrame
  <2>5. ckpt'[run[w].r] = run'[w].at
    <3>1. run[w].r \in Rotations
      BY FrameType
    <3>2. ckpt' = [ckpt EXCEPT ![run[w].r] = Counted(run[w].at, run[w].batch, bad)]
      BY <2>3 DEF Commits
    <3> QED
      BY <2>4, <3>1, <3>2 DEF TypeOK
  <2> QED
    BY <1>2, <1>3, <1>4, <2>3, <2>5 DEF Reporting
<1>5. CASE run[w].pc \in {"check", "report"}
  <2>1. ~(Migrate(w) \/ MigrateUnlucky(w))
    BY <1>5 DEF Migrate, MigrateUnlucky
  <2>2. UNCHANGED Matters
    BY <1>2, <2>1, WorkerFrames
  <2> QED
    BY <1>2, <1>3, <1>5, <2>2 DEF Reporting
<1> QED
  BY <1>1, <1>4, <1>5

LEMMA SaysHundred ==
  ASSUME Inv, Inv', [Next]_vars, NEW w \in Workers, Reported(w),
         Reporting(w) \in Checkpoints, NEW r \in Rotations, r = run[w].r,
         Percentage(Reporting(w), total[r]) = 100
  PROVE  Certain(r)'
<1>1. /\ total[r] \in 0..MaxRecords /\ SizeOf(r) \in 0..MaxRecords
      /\ SizeOf(r)' \in 0..MaxRecords
  BY TargetOfAssumption DEF Inv, TypeOK, SizeOf
<1>2. Reporting(w).done >= total[r]
  BY <1>1, PercentageType
<1>3. run[w].pc # "idle" /\ TypeOK /\ TypeOK' /\ Created
  BY ReportedStep DEF Inv
<1>4. Begins(r)
  BY <1>3, AtWork DEF Begins
<1>5. CASE run[w].pc \in {"check", "report"} /\ Reporting(w) = run[w].at
  <2>1. ASSUME r \notin overtaken
        PROVE  Cardinality(Leftover(r)) <= SizeOf(r) - total[r]
    <3>1. /\ Covered(RecordsOf(r), to[r], missed[r], run[w].at)
          /\ Counts(run[w].at) /\ run[w].at.last <= SizeOf(r)
      BY <2>1 DEF Inv, Covers, FrameCovered, CountsOK, FrameCounts
    <3> QED
      BY <1>1, <1>2, <1>5, <3>1, AllDone DEF Leftover
  <2>2. Certain(r)
    BY <1>4, <2>1 DEF Certain
  <2> QED
    BY <1>3, <2>2, CertainStays
<1>6. CASE Reporting(w) = run'[w].at /\ ckpt'[r] = run'[w].at
  <2>1. Begins(r)' /\ total'[r] = total[r]
    BY <1>3, <1>4, NextSteady
  <2>2. ASSUME r \notin overtaken'
        PROVE  Cardinality(Leftover(r)') <= SizeOf(r)' - total[r]
    <3>1. /\ Covered(RecordsOf(r)', to'[r], missed'[r], ckpt'[r])
          /\ Counts(ckpt'[r]) /\ ckpt'[r].last <= SizeOf(r)'
      BY <2>2 DEF Inv, Covers, CountsOK, RecordsOf, SizeOf
    <3>2. Cardinality(Behind(RecordsOf(r)', to'[r], 1..SizeOf(r)'))
            <= SizeOf(r)' - total[r]
      BY <1>1, <1>2, <1>6, <3>1, AllDone
    <3> QED
      BY <3>2 DEF Leftover, RecordsOf
  <2> QED
    BY <2>1, <2>2 DEF Certain, Leftover, RecordsOf
<1> QED
  BY <1>3, <1>5, <1>6, ReportedStep

LEMMA NextHundred ==
  ASSUME Inv, Inv', SocketTypeOK, Hundred, [SocketNext]_socketVars
  PROVE  Hundred'
<1>1. TypeOK /\ TypeOK' /\ Created
  BY DEF Inv
<1>2. Len(stream) \in Nat
  BY StreamType
<1>3. ASSUME Publishes, NEW r \in Rotations
      PROVE  /\ \A i \in 1..Len(stream') : HundredSaid(stream'[i], r) => Certain(r)'
             /\ heard'[r].percentage = 100 => Certain(r)'
  <2>1. [Next]_vars /\ OnlyNotices(r)
    BY <1>3 DEF Publishes
  <2>2. Certain(r) => Certain(r)'
    BY <1>1, <2>1, CertainStays
  <2>3. heard'[r].percentage = 100 => Certain(r)'
    BY <2>1, <2>2 DEF Hundred, OnlyNotices
  <2>4. \A i \in 1..Len(stream) : HundredSaid(stream[i], r) => Certain(r)'
    BY <2>2 DEF Hundred
  <2>5. ASSUME NEW e \in Events, Appended(e), HundredSaid(e, r) => Certain(r)'
        PROVE  \A i \in 1..Len(stream') : HundredSaid(stream'[i], r) => Certain(r)'
    BY <1>2, <2>4, <2>5 DEF Appended
  <2>6. ASSUME NEW e \in Events, NEW w \in Workers, Tells(w, e), HundredSaid(e, r)
        PROVE  Certain(r)'
    <3>1. /\ Reporting(w) \in Checkpoints /\ r = run[w].r /\ Reported(w)
          /\ Percentage(Reporting(w), total[r]) = 100
      BY <1>1, <2>6, ToldEvent DEF Tells, HundredSaid
    <3> QED
      BY <2>1, <3>1, SaysHundred
  <2>7. ASSUME NEW e \in Events, NEW q \in Rotations, EndsWith(q, e)
        PROVE  ~HundredSaid(e, r)
    BY <1>1, <2>7, EndEvent DEF HundredSaid
  <2> QED
    BY <1>3, <2>3, <2>4, <2>5, <2>6, <2>7 DEF Publishes
<1>4. ASSUME Delivers, NEW r \in Rotations
      PROVE  /\ \A i \in 1..Len(stream') : HundredSaid(stream'[i], r) => Certain(r)'
             /\ heard'[r].percentage = 100 => Certain(r)'
  <2>1. Certain(r) <=> Certain(r)'
    BY <1>4 DEF Delivers, vars, rows, callers, data, history, Certain, Begins,
       Leftover, RecordsOf, SizeOf
  <2>2. /\ 1 \in 1..Len(stream) /\ Hears(stream[1])
        /\ \A i \in 1..Len(stream') :
             i + 1 \in 1..Len(stream) /\ stream'[i] = stream[i + 1]
    BY <1>4 DEF Delivers, Shifted
  <2>3. \A i \in 1..Len(stream) : HundredSaid(stream[i], r) => Certain(r)
    BY DEF Hundred
  <2>4. heard'[r].percentage = 100
          => heard[r].percentage = 100 \/ HundredSaid(stream[1], r)
    BY <2>2 DEF Hears, HundredSaid
  <2>5. \A i \in 1..Len(stream') : HundredSaid(stream'[i], r) => Certain(r)
    BY <2>2, <2>3
  <2> QED
    BY <2>1, <2>2, <2>3, <2>4, <2>5 DEF Hundred
<1> QED
  BY <1>1, <1>3, <1>4, SocketSteps DEF Hundred

\* HundredMeansMigrated: of a rotation told to be at 100 percent no more records
\* are left under an older version, failed ones included, than the application
\* has inserted since createRotation counted them, with any faults and stalls,
\* until an older rotation of the same target takes records back.  So it is an
\* answer to rely on where the count still stands, and only there.
THEOREM HundredIsReliable == SocketSpec => []HundredMeansMigrated
<1>1. SocketInit => Hundred
  <2>1. ASSUME SocketInit, NEW r \in Rotations
        PROVE  heard[r].percentage # 100 /\ 1..Len(stream) = {}
    BY <2>1, EmptySeq DEF SocketInit, Silence
  <2> QED
    BY <2>1 DEF Hundred
<1>2. SocketSpec => []Inv /\ []SocketTypeOK
  BY PipelineUnaffected, Invariance, SocketTypeCorrect, PTL
<1>3. ASSUME Hundred, NEW r \in Rotations \ overtaken, heard[r].percentage = 100
      PROVE  Cardinality(Unmigrated(r, 1..size[TargetOf[r]]))
               <= size[TargetOf[r]] - total[r]
  <2>1. Cardinality(Leftover(r)) <= SizeOf(r) - total[r]
    BY <1>3 DEF Hundred, Certain
  <2>2. Leftover(r) = Unmigrated(r, 1..size[TargetOf[r]])
    BY DEF Leftover, Unmigrated, Behind, SizeOf
  <2> QED
    BY <2>1, <2>2 DEF SizeOf
<1>4. Hundred => HundredMeansMigrated
  BY <1>3 DEF HundredMeansMigrated
<1> QED
  BY <1>1, <1>2, <1>4, NextHundred, PTL DEF SocketSpec

-----------------------------------------------------------------------------
(* With no false stalls whoever is at a rotation holds the token of its    *)
(* job, and so is the only one there; its counters are those of the row.   *)

Alone == \A w \in Workers : run[w].pc # "idle" => job[run[w].r].token = w
UpToDate ==
  \A w \in Workers : run[w].pc \in Counting => run[w].at = ckpt[run[w].r]
\* There is no job before createRotation has returned.
Enqueued == \A r \in Rotations : creating[r] # "over" => job[r].state = "none"

AloneInv == /\ Alone
            /\ UpToDate
            /\ Enqueued

LEMMA HeldActive ==
  ASSUME TypeOK, JobsOK, Alone, NEW w \in Workers, run[w].pc # "idle"
  PROVE  /\ run[w].r \in Rotations
         /\ job[run[w].r].token = w /\ job[run[w].r].state = "active"
         /\ \A v \in Workers \ {w} : run[v].pc # "idle" => run[v].r # run[w].r
<1>1. run[w].r \in Rotations
  BY FrameType
<1>2. /\ job[run[w].r].token = w
      /\ \A v \in Workers : run[v].pc # "idle" => job[run[v].r].token = v
  BY DEF Alone
<1>3. w # NoWorker
  BY NoWorkerAssumption
<1> QED
  BY <1>1, <1>2, <1>3 DEF JobsOK, JobOK

\* The calls and the queue leave a job alone that a worker holds.
LEMMA HeldKept ==
  ASSUME "stall" \notin Faults, TypeOK, JobsOK, NEW r \in Rotations,
         CallerStep(r), job[r].token # NoWorker
  PROVE  job' = job
<1>1. job[r].state = "active"
  BY DEF JobsOK, JobOK
<1>2. ~Queue(r) /\ ~FalseStall(r)
  BY <1>1 DEF Queue, Promote, Stalled, FalseStall, Fault
<1>3. CASE Enqueue(r) \/ CancelRemove(r)
  BY <1>1, <1>3 DEF Enqueue, Add, CancelRemove, Remove
<1>4. CASE \/ Mint(r) \/ CountRows(r) \/ CreateRow(r) \/ CreateDies(r)
           \/ CancelRead(r) \/ CancelUpdate(r) \/ CancelGetJob(r)
           \/ CancelReread(r) \/ CancelFails(r)
  BY <1>4 DEF Mint, CountRows, CreateRow, CreateDies, CancelRead, CancelUpdate,
              CancelGetJob, CancelReread, CancelFails
<1> QED
  BY <1>2, <1>3, <1>4 DEF CallerStep, Continue

LEMMA WorkerJob ==
  ASSUME TypeOK, Created, NEW w \in Workers, WorkerStep(w), run[w].pc # "idle"
  PROVE  job' = job \/ run'[w].pc = "idle"
<1>1. CASE Migrate(w) \/ MigrateUnlucky(w)
  BY <1>1, MigrateCommits DEF Commits
<1>2. CASE SettleJob(w) \/ Crash(w)
  <2>1. Frame(w, Idle)
    BY <1>2, IdleFrame DEF SettleJob, Crash
  <2>2. Idle.pc = "idle"
    BY DEF Idle
  <2> QED
    BY <2>1, <2>2 DEF Frame
<1>3. CASE ~(Migrate(w) \/ MigrateUnlucky(w) \/ SettleJob(w) \/ Crash(w))
  BY <1>3 DEF WorkerStep, Work, TakeJob, Load, GetLock, Locked, Check, Report, Mark,
     Complete, MarkFailed, Fetch, Activate, Release, Fail, LeakLock, LoseSession
<1> QED
  BY <1>1, <1>2, <1>3

LEMMA TakenJob ==
  ASSUME TypeOK, NEW w \in Workers, WorkerStep(w), run[w].pc = "idle"
  PROVE  /\ UNCHANGED <<ckpt, creating>>
         /\ \E r \in Rotations :
              /\ job[r].state = "waiting" /\ job'[r].token = w
              /\ run'[w].r = r /\ run'[w].pc = "load"
              /\ \A q \in Rotations \ {r} : Untouched(q)
<1>1. PICK r \in Rotations :
        /\ Take(r, w)
        /\ run'[w] = [Idle EXCEPT !.pc = "load", !.r = r]
        /\ \A q \in Rotations \ {r} : Untouched(q)
        /\ job[r].state = "waiting"
  BY TakeActs
<1>2. UNCHANGED <<ckpt, creating>>
  BY TakeActs DEF TakeJob, rows, callers
<1>3. job'[r].token = w
  <2>1. Put(r, "active", w, job[r].left, job[r].stalls)
    BY <1>1 DEF Take
  <2>2. job'[r] = [state |-> "active", token |-> w, left |-> job[r].left,
                   stalls |-> job[r].stalls]
    BY <2>1, PutJob
  <2> QED
    BY <2>2
<1>4. run'[w].r = r /\ run'[w].pc = "load"
  BY <1>1 DEF Idle
<1> QED
  BY <1>1, <1>2, <1>3, <1>4

LEMMA NextAlone ==
  ASSUME "stall" \notin Faults, TypeOK, JobsOK, Created, Alone, [Next]_vars
  PROVE  Alone'
<1>1. CASE UNCHANGED <<run, job>>
  BY <1>1 DEF Alone
<1>2. ASSUME NEW r \in Rotations, CallerStep(r)
      PROVE  Alone'
  <2>1. run' = run /\ \A q \in Rotations \ {r} : Untouched(q)
    BY <1>2, CallerActs
  <2>2. SUFFICES ASSUME NEW w \in Workers, run[w].pc # "idle"
                 PROVE  job'[run[w].r].token = w
    BY <2>1 DEF Alone
  <2>3. run[w].r \in Rotations /\ job[run[w].r].token = w
    BY <2>2, HeldActive
  <2>4. CASE run[w].r = r
    BY <1>2, <2>3, <2>4, HeldKept, NoWorkerAssumption
  <2>5. CASE run[w].r # r
    BY <2>1, <2>3, <2>5 DEF Untouched
  <2> QED
    BY <2>4, <2>5
<1>3. ASSUME NEW w \in Workers, WorkerStep(w), run[w].pc = "idle"
      PROVE  Alone'
  <2>1. PICK r \in Rotations :
          /\ job[r].state = "waiting" /\ job'[r].token = w /\ run'[w].r = r
          /\ \A q \in Rotations \ {r} : Untouched(q)
    BY <1>3, TakenJob
  <2>2. \A v \in Workers \ {w} : run'[v] = run[v]
    BY <1>3, WorkerLocks
  <2>3. \A v \in Workers : run[v].pc # "idle" =>
          run[v].r \in Rotations /\ run[v].r # r /\ job[run[v].r].token = v
    BY <2>1, HeldActive
  <2> QED
    BY <1>3, <2>1, <2>2, <2>3 DEF Alone, Untouched
<1>4. ASSUME NEW w \in Workers, WorkerStep(w), run[w].pc # "idle"
      PROVE  Alone'
  <2>1. /\ \A q \in Rotations \ {run[w].r} : Untouched(q)
        /\ run'[w].pc = "idle" \/ run'[w].r = run[w].r
        /\ \A v \in Workers \ {w} : run'[v] = run[v]
    BY <1>4, WorkerActs
  <2>2. job' = job \/ run'[w].pc = "idle"
    BY <1>4, WorkerJob
  <2>3. \A v \in Workers \ {w} : run[v].pc # "idle" =>
          run[v].r \in Rotations /\ run[v].r # run[w].r /\ job[run[v].r].token = v
    BY <1>4, HeldActive
  <2>4. job[run[w].r].token = w
    BY <1>4, HeldActive
  <2> QED
    BY <2>1, <2>2, <2>3, <2>4 DEF Alone, Untouched
<1>5. ASSUME NEW t \in Targets,
             PoolDrops(t) \/ Insert(t) \/ (\E i \in Ids : AppWrite(t, i))
      PROVE  UNCHANGED <<run, job>>
  BY <1>5 DEF PoolDrops, Insert, AppWrite
<1> QED
  BY <1>1, <1>2, <1>3, <1>4, <1>5, NextCases DEF vars

LEMMA CommittedCheckpoint ==
  ASSUME TypeOK, NEW w \in Workers, NEW bad, Commits(w, bad)
  PROVE  /\ ckpt'[run[w].r] = Counted(run[w].at, run[w].batch, bad)
         /\ \A q \in Rotations \ {run[w].r} : ckpt'[q] = ckpt[q]
<1>1. run[w].r \in Rotations
  BY FrameType
<1>2. ckpt' = [ckpt EXCEPT ![run[w].r] = Counted(run[w].at, run[w].batch, bad)]
  BY DEF Commits
<1> QED
  BY <1>1, <1>2 DEF TypeOK

LEMMA NextUpToDate ==
  ASSUME TypeOK, JobsOK, Created, Alone, UpToDate, [Next]_vars
  PROVE  UpToDate'
<1> USE DEF Counting, TryPCs
<1>1. CASE UNCHANGED <<run, ckpt>>
  BY <1>1 DEF UpToDate
<1>2. ASSUME NEW w \in Workers, WorkerStep(w)
      PROVE  UpToDate'
  <2>1. \A v \in Workers \ {w} : run'[v] = run[v]
    BY <1>2, WorkerLocks
  <2>2. ASSUME NEW v \in Workers \ {w}, run[v].pc \in Counting
        PROVE  run'[v].at = ckpt'[run'[v].r]
    <3>1. run[v].at = ckpt[run[v].r] /\ run[v].pc # "idle"
      BY <2>2 DEF UpToDate
    <3>2. ckpt'[run[v].r] = ckpt[run[v].r]
      <4>1. CASE run[w].pc = "idle"
        BY <1>2, <4>1, TakenJob
      <4>2. CASE run[w].pc # "idle"
        BY <1>2, <3>1, <4>2, WorkerRows, HeldActive DEF Untouched
      <4> QED
        BY <4>1, <4>2
    <3> QED
      BY <2>1, <3>1, <3>2
  <2>3. ASSUME run'[w].pc \in Counting
        PROVE  run'[w].at = ckpt'[run'[w].r]
    <3>1. CASE Migrate(w) \/ MigrateUnlucky(w)
      <4>1. PICK bad \in SUBSET run[w].batch : Commits(w, bad)
        BY <3>1, MigrateCommits
      <4>2. ~Left(w)
        BY <2>3 DEF Left
      <4> QED
        BY <4>1, <4>2, CommitFrame, CommittedCheckpoint
    <3>2. CASE ~(Migrate(w) \/ MigrateUnlucky(w))
      <4>1. /\ ckpt' = ckpt
            /\ \/ Left(w) \/ Begun(w) \/ Kept(w) \/ GotBatch(w) \/ GotNone(w)
               \/ run' = run
        BY <1>2, <3>2, WorkerFrames DEF Matters
      <4> QED
        BY <2>3, <4>1 DEF Left, Begun, Kept, GotBatch, GotNone, UpToDate
    <3> QED
      BY <3>1, <3>2
  <2> QED
    BY <2>1, <2>2, <2>3 DEF UpToDate
<1>3. ASSUME NEW r \in Rotations, CallerStep(r)
      PROVE  UNCHANGED <<run, ckpt>>
  BY <1>3, CallerData
<1>4. ASSUME NEW t \in Targets,
             PoolDrops(t) \/ Insert(t) \/ (\E i \in Ids : AppWrite(t, i))
      PROVE  UNCHANGED <<run, ckpt>>
  BY <1>4 DEF PoolDrops, Insert, AppWrite, rows
<1> QED
  BY <1>1, <1>2, <1>3, <1>4, NextCases DEF vars, rows

LEMMA NextEnqueued ==
  ASSUME TypeOK, JobsOK, Created, Created', Alone, Enqueued, [Next]_vars
  PROVE  Enqueued'
<1>1. CASE UNCHANGED <<creating, job>>
  BY <1>1 DEF Enqueued
<1>2. ASSUME NEW r \in Rotations, CallerStep(r), NEW q \in Rotations,
             creating'[q] # "over"
      PROVE  job'[q].state = "none"
  <2>1. CASE q # r
    BY <1>2, <2>1, CallerActs DEF Untouched, Enqueued
  <2>2. CASE creating'[q] \in Unborn
    BY <2>2 DEF Created, NotBegun
  <2>3. CASE q = r /\ CreateRow(r)
    BY <2>3 DEF CreateRow, Created, NotBegun, Unborn
  <2>4. CASE q = r /\ (Mint(r) \/ CountRows(r) \/ Enqueue(r) \/ CreateDies(r))
    BY <1>2, <2>2, <2>4 DEF Mint, CountRows, Enqueue, CreateDies, Unborn, TypeOK
  <2>5. CASE q = r /\ (\/ CancelRead(r) \/ CancelUpdate(r) \/ CancelGetJob(r)
                       \/ CancelRemove(r) \/ CancelReread(r) \/ CancelFails(r)
                       \/ Queue(r) \/ FalseStall(r))
    <3>1. creating' = creating
      BY <2>5 DEF CancelRead, CancelUpdate, CancelGetJob, CancelRemove, CancelReread,
                  CancelFails, Queue, FalseStall, callers
    <3>2. job[r].state = "none" => job'[r].state = "none"
      BY <2>5 DEF CancelRead, CancelUpdate, CancelGetJob, CancelRemove, CancelReread,
                  CancelFails, Queue, FalseStall, Promote, Stalled, Remove, NoJob, JobsOK, JobOK,
                  TypeOK, QueueTypeOK
    <3> QED
      BY <1>2, <2>5, <3>1, <3>2 DEF Enqueued
  <2> QED
    BY <1>2, <2>1, <2>2, <2>3, <2>4, <2>5 DEF CallerStep, Continue
<1>3. ASSUME NEW w \in Workers, WorkerStep(w)
      PROVE  Enqueued'
  <2>1. PICK r \in Rotations :
          /\ job[r].state \in {"waiting", "active"}
          /\ \A q \in Rotations \ {r} : Untouched(q)
    <3>1. CASE run[w].pc = "idle"
      BY <1>3, <3>1, TakenJob
    <3>2. CASE run[w].pc # "idle"
      BY <1>3, <3>2, WorkerRows, HeldActive
    <3> QED
      BY <3>1, <3>2
  <2>2. creating' = creating
    BY <1>3, WorkerCreates
  <2> QED
    BY <2>1, <2>2 DEF Enqueued, Untouched
<1>4. ASSUME NEW t \in Targets,
             PoolDrops(t) \/ Insert(t) \/ (\E i \in Ids : AppWrite(t, i))
      PROVE  UNCHANGED <<creating, job>>
  BY <1>4 DEF PoolDrops, Insert, AppWrite, callers
<1>5. (\E r \in Rotations : CallerStep(r)) => Enqueued'
  BY <1>2 DEF Enqueued
<1> QED
  BY <1>1, <1>3, <1>4, <1>5, NextCases DEF vars, callers

LEMMA InitAlone == Init => AloneInv
<1>1. Idle.pc = "idle" /\ "idle" \notin Counting
  BY DEF Idle, Counting, TryPCs
<1>2. Init => \A w \in Workers : run[w].pc = "idle"
  BY <1>1 DEF Init
<1>3. Init => \A r \in Rotations : job[r].state = "none"
  <2>1. NoJob.state = "none"
    BY DEF NoJob
  <2>2. Init => job = [r \in Rotations |-> NoJob]
    BY DEF Init, QueueInit
  <2> QED
    BY <2>1, <2>2
<1> QED
  BY <1>1, <1>2, <1>3 DEF AloneInv, Alone, UpToDate, Enqueued

LEMMA AloneInvariance ==
  ASSUME "stall" \notin Faults
  PROVE  Spec => []AloneInv
<1>1. ASSUME Inv, Inv', AloneInv, [Next]_vars
      PROVE  AloneInv'
  BY <1>1, NextAlone, NextUpToDate, NextEnqueued DEF Inv, AloneInv
<1> QED
  BY <1>1, InitAlone, Invariance, PTL DEF Spec

-----------------------------------------------------------------------------
(* The end.  Once a job is over nobody is at its rotation, and nothing     *)
(* makes it a job again.                                                   *)

Over(r) ==
  creating[r] = "over" /\ job[r].state \in {"none", "completed", "failed"}

LEMMA NobodyThere ==
  ASSUME TypeOK, JobsOK, Alone, NEW r \in Rotations, Over(r), NEW w \in Workers,
         run[w].pc # "idle"
  PROVE  run[w].r # r
BY HeldActive DEF Over

LEMMA OverStays ==
  ASSUME TypeOK, JobsOK, Created, Alone, [Next]_vars, NEW q \in Rotations, Over(q)
  PROVE  Over(q)' /\ job'[q].state \in {job[q].state, "none"}
<1>1. ASSUME Untouched(q)
      PROVE  Over(q)' /\ job'[q].state = job[q].state
  BY <1>1 DEF Untouched, Over
<1>2. ASSUME NEW r \in Rotations, CallerStep(r)
      PROVE  Over(q)' /\ job'[q].state \in {job[q].state, "none"}
  <2>1. CASE q # r
    BY <1>1, <1>2, <2>1, CallerActs
  <2>2. CASE q = r
    <3>1. ~(\/ Mint(r) \/ CountRows(r) \/ CreateRow(r) \/ Enqueue(r)
            \/ CreateDies(r))
      BY <2>2 DEF Over, Mint, CountRows, CreateRow, Enqueue, CreateDies
    <3>2. ~Queue(r) /\ ~FalseStall(r)
      BY <2>2 DEF Over, Queue, Promote, Stalled, FalseStall, JobsOK, JobOK
    <3>3. CASE CancelRemove(r)
      <4>1. creating' = creating /\ (job' = job \/ job' = [job EXCEPT ![r] = NoJob])
        BY <3>3 DEF CancelRemove, Remove
      <4>2. job'[r].state \in {job[r].state, "none"}
        BY <4>1 DEF TypeOK, QueueTypeOK, NoJob
      <4> QED
        BY <2>2, <4>1, <4>2 DEF Over
    <3>4. CASE \/ CancelRead(r) \/ CancelUpdate(r) \/ CancelGetJob(r)
               \/ CancelReread(r) \/ CancelFails(r)
      <4>1. UNCHANGED <<creating, job>>
        BY <3>4 DEF CancelRead, CancelUpdate, CancelGetJob, CancelReread, CancelFails
      <4> QED
        BY <4>1 DEF Over
    <3> QED
      BY <1>2, <3>1, <3>2, <3>3, <3>4 DEF CallerStep, Continue
  <2> QED
    BY <2>1, <2>2
<1>3. ASSUME NEW w \in Workers, WorkerStep(w)
      PROVE  Untouched(q)
  <2>1. CASE run[w].pc = "idle"
    <3>1. PICK r \in Rotations :
            job[r].state = "waiting" /\ \A p \in Rotations \ {r} : Untouched(p)
      BY <1>3, <2>1, TakenJob
    <3>2. q # r
      BY <3>1 DEF Over
    <3> QED
      BY <3>1, <3>2
  <2>2. CASE run[w].pc # "idle"
    BY <1>3, <2>2, NobodyThere, WorkerRows
  <2> QED
    BY <2>1, <2>2
<1>4. ASSUME NEW t \in Targets,
             PoolDrops(t) \/ Insert(t) \/ (\E i \in Ids : AppWrite(t, i))
      PROVE  UNCHANGED <<creating, job>>
  BY <1>4 DEF PoolDrops, Insert, AppWrite, callers
<1>5. ASSUME UNCHANGED <<creating, job>>
      PROVE  Over(q)' /\ job'[q].state \in {job[q].state, "none"}
  BY <1>5 DEF Over
<1> QED
  BY <1>1, <1>2, <1>3, <1>4, <1>5, NextCases DEF vars, callers

\* Nothing is said of a rotation that is over, and one whose end is said is over.
LEMMA SaysNoMore ==
  ASSUME TypeOK, TypeOK', JobsOK, Created, Alone, [Next]_vars, NEW q \in Rotations,
         Over(q), NEW e
  PROVE  /\ \A w \in Workers : Tells(w, e) => e.r # q
         /\ \A r \in Rotations : EndsWith(r, e) => e.r # q
<1>1. ASSUME NEW w \in Workers, Tells(w, e)
      PROVE  e.r # q
  <2>1. e.r = run[w].r
    BY <1>1, ToldEvent
  <2>2. run[w].pc # "idle"
    BY <1>1 DEF Tells, Reported
  <2> QED
    BY <2>1, <2>2, NobodyThere
<1>2. ASSUME NEW r \in Rotations, EndsWith(r, e)
      PROVE  e.r # q
  <2>1. e.r = r
    BY <1>2, EndEvent
  <2>2. job'[r].state # job[r].state /\ job'[r].state \in {"completed", "failed"}
    BY <1>2 DEF EndsWith, Finished
  <2>3. job'[q].state \in {job[q].state, "none"}
    BY OverStays
  <2> QED
    BY <2>1, <2>2, <2>3
<1> QED
  BY <1>1, <1>2

LEMMA EndIsOver ==
  ASSUME Enqueued', NEW r \in Rotations, NEW e, EndsWith(r, e)
  PROVE  Over(r)'
<1>1. job'[r].state \in {"completed", "failed"}
  BY DEF EndsWith, Finished
<1> QED
  BY <1>1 DEF Enqueued, Over

EndSaid(e, r) == e.r = r /\ e.kind # "progress"
EndHeard(r) == heard[r].ends \cap {"completed", "failed"} # {}
LastWords ==
  \A r \in Rotations :
    /\ \A i \in 1..Len(stream) :
         EndSaid(stream[i], r) =>
           /\ Over(r)
           /\ \A j \in 1..Len(stream) : i < j => stream[j].r # r
    /\ EndHeard(r) => Over(r) /\ \A j \in 1..Len(stream) : stream[j].r # r

LEMMA NextLastWords ==
  ASSUME Inv, Inv', AloneInv, AloneInv', SocketTypeOK, LastWords,
         [SocketNext]_socketVars
  PROVE  LastWords'
<1>1. /\ TypeOK /\ TypeOK' /\ JobsOK /\ Created /\ Alone /\ Enqueued'
      /\ Len(stream) \in Nat
  BY StreamType DEF Inv, AloneInv
<1>2. ASSUME Publishes, NEW r \in Rotations
      PROVE  /\ \A i \in 1..Len(stream') :
                  EndSaid(stream'[i], r) =>
                    /\ Over(r)'
                    /\ \A j \in 1..Len(stream') : i < j => stream'[j].r # r
             /\ EndHeard(r)' => Over(r)' /\ \A j \in 1..Len(stream') : stream'[j].r # r
  <2>1. [Next]_vars /\ OnlyNotices(r)
    BY <1>2 DEF Publishes
  <2>2. EndHeard(r)' => EndHeard(r)
    BY <2>1 DEF OnlyNotices, EndHeard
  <2>3. Over(r) => Over(r)'
    BY <1>1, <2>1, OverStays
  <2>4. CASE stream' = stream
    BY <2>2, <2>3, <2>4 DEF LastWords
  <2>5. ASSUME NEW e \in Events, Appended(e), Over(r) => e.r # r,
               EndSaid(e, r) => Over(r)'
        PROVE  /\ \A i \in 1..Len(stream') :
                    EndSaid(stream'[i], r) =>
                      /\ Over(r)'
                      /\ \A j \in 1..Len(stream') : i < j => stream'[j].r # r
               /\ EndHeard(r)' => Over(r)' /\ \A j \in 1..Len(stream') : stream'[j].r # r
    <3>1. \A i \in 1..Len(stream) :
            EndSaid(stream[i], r) =>
              /\ Over(r)
              /\ \A j \in 1..Len(stream) : i < j => stream[j].r # r
      BY DEF LastWords
    <3>2. EndHeard(r) => Over(r) /\ \A j \in 1..Len(stream) : stream[j].r # r
      BY DEF LastWords
    <3>3. /\ Len(stream') = Len(stream) + 1
          /\ \A i \in 1..Len(stream) : stream'[i] = stream[i]
          /\ stream'[Len(stream) + 1] = e
      BY <2>5 DEF Appended
    <3> QED
      BY <1>1, <2>2, <2>3, <2>5, <3>1, <3>2, <3>3
  <2>6. ASSUME NEW e \in Events, NEW w \in Workers, Tells(w, e)
        PROVE  (Over(r) => e.r # r) /\ ~EndSaid(e, r)
    BY <1>1, <2>1, <2>6, SaysNoMore, ToldEvent DEF EndSaid
  <2>7. ASSUME NEW e \in Events, NEW q \in Rotations, EndsWith(q, e)
        PROVE  (Over(r) => e.r # r) /\ (EndSaid(e, r) => Over(r)')
    <3>1. Over(r) => e.r # r
      BY <1>1, <2>1, <2>7, SaysNoMore
    <3>2. EndSaid(e, r) => q = r
      BY <1>1, <2>7, EndEvent DEF EndSaid
    <3>3. Over(q)'
      BY <1>1, <2>7, EndIsOver
    <3> QED
      BY <3>1, <3>2, <3>3
  <2> QED
    BY <1>2, <2>4, <2>5, <2>6, <2>7 DEF Publishes
<1>3. ASSUME Delivers, NEW r \in Rotations
      PROVE  /\ \A i \in 1..Len(stream') :
                  EndSaid(stream'[i], r) =>
                    /\ Over(r)'
                    /\ \A j \in 1..Len(stream') : i < j => stream'[j].r # r
             /\ EndHeard(r)' => Over(r)' /\ \A j \in 1..Len(stream') : stream'[j].r # r
  <2>1. Over(r) <=> Over(r)'
    BY <1>3 DEF Delivers, vars, callers, Over
  <2>2. /\ 1 \in 1..Len(stream) /\ Hears(stream[1])
        /\ Len(stream') = Len(stream) - 1
        /\ \A i \in 1..Len(stream') :
             i + 1 \in 1..Len(stream) /\ stream'[i] = stream[i + 1]
    BY <1>3 DEF Delivers, Shifted
  <2>3. \A i \in 1..Len(stream) :
          EndSaid(stream[i], r) =>
            /\ Over(r)
            /\ \A j \in 1..Len(stream) : i < j => stream[j].r # r
    BY DEF LastWords
  <2>4. EndHeard(r) => Over(r) /\ \A j \in 1..Len(stream) : stream[j].r # r
    BY DEF LastWords
  <2>5. EndHeard(r)' => EndHeard(r) \/ EndSaid(stream[1], r)
    BY <2>2 DEF Hears, EndHeard, EndSaid
  <2>6. EndHeard(r)' => Over(r) /\ \A j \in 1..Len(stream) : 1 < j => stream[j].r # r
    BY <2>2, <2>3, <2>4, <2>5
  <2>7. \A j \in 1..Len(stream') : 1 < j + 1
    OBVIOUS
  <2>8. EndHeard(r)' => \A j \in 1..Len(stream') : stream'[j].r # r
    BY <2>2, <2>6, <2>7
  <2>9. \A i \in 1..Len(stream') :
          EndSaid(stream'[i], r) =>
            /\ Over(r)
            /\ \A j \in 1..Len(stream') : i < j => stream'[j].r # r
    <3>1. \A i, j \in 1..Len(stream') : i < j => i + 1 < j + 1
      OBVIOUS
    <3> QED
      BY <2>2, <2>3, <3>1
  <2> QED
    BY <2>1, <2>6, <2>8, <2>9
<1> QED
  BY <1>1, <1>2, <1>3, SocketSteps DEF LastWords

\* TheEndIsLast: after the queue has said how a rotation ended nothing follows,
\* on the way or already heard, with failures, crashes and retries, for any
\* number of attempts and workers.
THEOREM EndsSayNoMore ==
  ASSUME "stall" \notin Faults
  PROVE  SocketSpec => []TheEndIsLast
<1>1. SocketInit => LastWords
  <2>1. ASSUME SocketInit, NEW r \in Rotations
        PROVE  ~EndHeard(r) /\ 1..Len(stream) = {}
    BY <2>1, EmptySeq DEF SocketInit, Silence, EndHeard
  <2> QED
    BY <2>1 DEF LastWords
<1>2. SocketSpec => []Inv /\ []SocketTypeOK /\ []AloneInv
  BY PipelineUnaffected, Invariance, SocketTypeCorrect, AloneInvariance, PTL
<1>3. ASSUME SocketTypeOK, LastWords
      PROVE  TheEndIsLast
  <2>1. DOMAIN stream = 1..Len(stream)
    BY <1>3, StreamType
  <2>2. ASSUME NEW r \in Rotations, NEW i \in DOMAIN stream, NEW j \in DOMAIN stream,
               i < j, stream[i].r = r, stream[j].r = r
        PROVE  stream[i].kind = "progress"
    BY <1>3, <2>1, <2>2 DEF LastWords, EndSaid
  <2>3. ASSUME NEW r \in Rotations, heard[r].ends \cap {"completed", "failed"} # {}
        PROVE  \A i \in DOMAIN stream : stream[i].r # r
    BY <1>3, <2>1, <2>3 DEF LastWords, EndHeard
  <2> QED
    BY <2>2, <2>3 DEF TheEndIsLast
<1> QED
  BY <1>1, <1>2, <1>3, NextLastWords, PTL DEF SocketSpec

-----------------------------------------------------------------------------
(* Progress.  The numbers heard, on their way and in the table are in      *)
(* order, because a worker that goes on starts from the table.             *)

LEMMA CountedGrows ==
  ASSUME NEW at \in Checkpoints, NEW batch \in SUBSET BatchRecords,
         NEW n, Fetched(batch, at.last, n), NEW bad \in SUBSET batch
  PROVE  Counted(at, batch, bad).done >= at.done
<1>1. at.last \in 0..MaxRecords /\ at.done \in Nat /\ at.last \in Nat
  BY SizesAssumption DEF Checkpoints
<1>2. PICK m \in Ids : m > at.last /\ IdsOf(batch) = at.last + 1..m
  BY <1>1, PageLast
<1>3. m \in Nat /\ at.last < m
  BY <1>1, <1>2, SizesAssumption DEF Ids
<1>4. IsFiniteSet(batch)
  BY <1>1, <1>2, <1>3, BatchCardinality DEF Fetched
<1>5. Cardinality(batch \ bad) \in Nat
  BY <1>4, FS_Subset, FS_CardinalityType
<1>6. Counted(at, batch, bad).done = at.done + Cardinality(batch \ bad)
  BY DEF Counted
<1> QED
  BY <1>1, <1>5, <1>6

LEMMA CheckpointType ==
  ASSUME TypeOK, NEW r \in Rotations
  PROVE  ckpt[r] \in Checkpoints /\ ckpt[r].done \in Int
BY SizesAssumption DEF TypeOK, Checkpoints

LEMMA CheckpointsGrow ==
  ASSUME TypeOK, Created, CountsOK, UpToDate, [Next]_vars, NEW q \in Rotations
  PROVE  ckpt'[q].done >= ckpt[q].done
<1>0. ckpt[q].done \in Int
  BY CheckpointType
<1>1. CASE ckpt' = ckpt
  BY <1>0, <1>1
<1>2. ASSUME NEW w \in Workers, Migrate(w) \/ MigrateUnlucky(w)
      PROVE  ckpt'[q].done >= ckpt[q].done
  <2>1. PICK bad \in SUBSET run[w].batch : Commits(w, bad)
    BY <1>2, MigrateCommits
  <2>2. CASE q # run[w].r
    BY <1>0, <2>1, <2>2, CommittedCheckpoint
  <2>3. CASE q = run[w].r
    <3>1. run[w].pc = "migrate"
      BY <1>2, MigrateCommits
    <3>2. /\ run[w].at = ckpt[q]
          /\ Fetched(run[w].batch, run[w].at.last, SizeOf(run[w].r))
      BY <2>3, <3>1 DEF UpToDate, Counting, TryPCs, CountsOK, FrameCounts
    <3>3. run[w].at \in Checkpoints /\ run[w].batch \in SUBSET BatchRecords
      BY FrameType
    <3>4. Counted(run[w].at, run[w].batch, bad).done >= run[w].at.done
      BY <3>2, <3>3, CountedGrows
    <3>5. ckpt'[q] = Counted(run[w].at, run[w].batch, bad)
      BY <2>1, <2>3, CommittedCheckpoint
    <3> QED
      BY <3>2, <3>4, <3>5
  <2> QED
    BY <2>2, <2>3
<1>3. ASSUME NEW w \in Workers, WorkerStep(w), ~(Migrate(w) \/ MigrateUnlucky(w))
      PROVE  ckpt' = ckpt
  BY <1>3, WorkerFrames DEF Matters
<1>4. ASSUME NEW r \in Rotations, CallerStep(r)
      PROVE  ckpt' = ckpt
  BY <1>4, CallerData
<1>5. ASSUME NEW t \in Targets,
             PoolDrops(t) \/ Insert(t) \/ (\E i \in Ids : AppWrite(t, i))
      PROVE  ckpt' = ckpt
  BY <1>5 DEF PoolDrops, Insert, AppWrite, rows
<1> QED
  BY <1>1, <1>2, <1>3, <1>4, <1>5, NextCases DEF vars, rows

\* What is reported is what the table then says.
LEMMA TellsTheTable ==
  ASSUME TypeOK, TypeOK', Created, UpToDate, [Next]_vars, NEW w \in Workers, NEW e,
         Tells(w, e), NEW r \in Rotations, e.r = r
  PROVE  e.done = ckpt'[r].done
<1>1. r = run[w].r /\ e.done = Reporting(w).done /\ Reported(w)
  BY ToldEvent DEF Tells
<1>2. CASE /\ run[w].pc \in {"check", "report"}
           /\ Reporting(w) = run[w].at
           /\ UNCHANGED Matters
  <2>1. run[w].at = ckpt[r]
    BY <1>1, <1>2 DEF UpToDate, Counting, TryPCs
  <2>2. ckpt' = ckpt
    BY <1>2 DEF Matters
  <2> QED
    BY <1>1, <1>2, <2>1, <2>2
<1>3. CASE Reporting(w) = run'[w].at /\ ckpt'[run[w].r] = run'[w].at
  BY <1>1, <1>3
<1> QED
  BY <1>1, <1>2, <1>3, ReportedStep

Told(e, r) == e.r = r /\ e.kind = "progress"
Forward ==
  \A r \in Rotations :
    /\ heard[r].done <= ckpt[r].done
    /\ \A i \in 1..Len(stream) :
         Told(stream[i], r) =>
           /\ heard[r].done <= stream[i].done
           /\ stream[i].done <= ckpt[r].done
           /\ \A j \in 1..Len(stream) :
                i < j /\ Told(stream[j], r) => stream[i].done <= stream[j].done

LEMMA HeardForward ==
  ASSUME SocketTypeOK, Forward, Delivers, NEW r \in Rotations
  PROVE  \/ heard'[r].done = heard[r].done
         \/ /\ Told(stream[1], r) /\ heard'[r].done = stream[1].done
            /\ heard'[r].done >= heard[r].done
<1>1. 1 \in 1..Len(stream) /\ Hears(stream[1])
  BY DEF Delivers, Shifted
<1>2. stream[1] \in Events
  BY <1>1, StreamType
<1>3. stream[1].done \in Int /\ heard[r].done \in Int
  BY <1>2, SizesAssumption DEF Events, SocketTypeOK, Heard
<1>4. Told(stream[1], r) => heard[r].done <= stream[1].done
  BY <1>1 DEF Forward
<1> QED
  BY <1>1, <1>3, <1>4 DEF Hears, Told

LEMMA NextForward ==
  ASSUME Inv, Inv', AloneInv, SocketTypeOK, SocketTypeOK', Forward,
         [SocketNext]_socketVars
  PROVE  Forward'
<1>1. /\ TypeOK /\ TypeOK' /\ Created /\ CountsOK /\ UpToDate
      /\ Len(stream) \in Nat
  BY StreamType DEF Inv, AloneInv
<1>2. \A r \in Rotations :
        /\ ckpt[r].done \in Int /\ ckpt'[r].done \in Int
        /\ heard[r].done \in Int
  BY <1>1, SizesAssumption DEF TypeOK, Checkpoints, SocketTypeOK, Heard
<1>3. \A i \in 1..Len(stream) : stream[i].done \in Int
  BY StreamType, SizesAssumption DEF Events
<1>4. ASSUME Publishes, NEW r \in Rotations
      PROVE  /\ heard'[r].done <= ckpt'[r].done
             /\ \A i \in 1..Len(stream') :
                  Told(stream'[i], r) =>
                    /\ heard'[r].done <= stream'[i].done
                    /\ stream'[i].done <= ckpt'[r].done
                    /\ \A j \in 1..Len(stream') :
                         i < j /\ Told(stream'[j], r)
                           => stream'[i].done <= stream'[j].done
  <2>1. [Next]_vars /\ heard'[r].done = heard[r].done
    BY <1>4 DEF Publishes, OnlyNotices
  <2>2. ckpt'[r].done >= ckpt[r].done
    BY <1>1, <2>1, CheckpointsGrow
  <2>3. /\ heard[r].done <= ckpt'[r].done
        /\ \A i \in 1..Len(stream) :
             Told(stream[i], r) =>
               /\ heard[r].done <= stream[i].done
               /\ stream[i].done <= ckpt'[r].done
               /\ \A j \in 1..Len(stream) :
                    i < j /\ Told(stream[j], r) => stream[i].done <= stream[j].done
    BY <1>2, <1>3, <2>2 DEF Forward
  <2>4. CASE stream' = stream
    BY <2>1, <2>3, <2>4
  <2>5. ASSUME NEW e \in Events, Appended(e), Told(e, r) => e.done = ckpt'[r].done
        PROVE  \A i \in 1..Len(stream') :
                 Told(stream'[i], r) =>
                   /\ heard[r].done <= stream'[i].done
                   /\ stream'[i].done <= ckpt'[r].done
                   /\ \A j \in 1..Len(stream') :
                        i < j /\ Told(stream'[j], r)
                          => stream'[i].done <= stream'[j].done
    <3>1. /\ Len(stream') = Len(stream) + 1
          /\ \A i \in 1..Len(stream) : stream'[i] = stream[i]
          /\ stream'[Len(stream) + 1] = e
      BY <2>5 DEF Appended
    <3>2. SUFFICES ASSUME NEW i \in 1..Len(stream'), Told(stream'[i], r)
                   PROVE  /\ heard[r].done <= stream'[i].done
                          /\ stream'[i].done <= ckpt'[r].done
                          /\ \A j \in 1..Len(stream') :
                               i < j /\ Told(stream'[j], r)
                                 => stream'[i].done <= stream'[j].done
      OBVIOUS
    <3>3. CASE i = Len(stream) + 1
      BY <1>1, <1>2, <2>3, <2>5, <3>1, <3>2, <3>3
    <3>4. CASE i \in 1..Len(stream)
      <4>1. stream'[i] = stream[i] /\ Told(stream[i], r)
        BY <3>1, <3>2, <3>4
      <4>2. /\ heard[r].done <= stream[i].done
            /\ stream[i].done <= ckpt'[r].done
            /\ \A j \in 1..Len(stream) :
                 i < j /\ Told(stream[j], r) => stream[i].done <= stream[j].done
        BY <2>3, <3>4, <4>1
      <4>3. ASSUME NEW j \in 1..Len(stream'), i < j, Told(stream'[j], r)
            PROVE  stream[i].done <= stream'[j].done
        <5>1. CASE j \in 1..Len(stream)
          BY <3>1, <4>2, <4>3, <5>1
        <5>2. CASE j = Len(stream) + 1
          BY <2>5, <3>1, <4>2, <4>3, <5>2
        <5> QED
          BY <1>1, <3>1, <5>1, <5>2
      <4> QED
        BY <4>1, <4>2, <4>3
    <3> QED
      BY <1>1, <3>1, <3>3, <3>4
  <2>6. ASSUME NEW e \in Events, NEW w \in Workers, Tells(w, e), Told(e, r)
        PROVE  e.done = ckpt'[r].done
    BY <1>1, <2>1, <2>6, TellsTheTable DEF Told
  <2>7. ASSUME NEW e \in Events, NEW q \in Rotations, EndsWith(q, e)
        PROVE  ~Told(e, r)
    BY <1>1, <2>7, EndEvent DEF Told
  <2> QED
    BY <1>4, <2>1, <2>3, <2>4, <2>5, <2>6, <2>7 DEF Publishes
<1>5. ASSUME Delivers, NEW r \in Rotations
      PROVE  /\ heard'[r].done <= ckpt'[r].done
             /\ \A i \in 1..Len(stream') :
                  Told(stream'[i], r) =>
                    /\ heard'[r].done <= stream'[i].done
                    /\ stream'[i].done <= ckpt'[r].done
                    /\ \A j \in 1..Len(stream') :
                         i < j /\ Told(stream'[j], r)
                           => stream'[i].done <= stream'[j].done
  <2>1. ckpt' = ckpt
    BY <1>5 DEF Delivers, vars, rows
  <2>2. /\ 1 \in 1..Len(stream)
        /\ Len(stream') = Len(stream) - 1
        /\ \A i \in 1..Len(stream') :
             i + 1 \in 1..Len(stream) /\ stream'[i] = stream[i + 1]
    BY <1>5 DEF Delivers, Shifted
  <2>3. /\ heard[r].done <= ckpt[r].done
        /\ \A i \in 1..Len(stream) :
             Told(stream[i], r) =>
               /\ heard[r].done <= stream[i].done
               /\ stream[i].done <= ckpt[r].done
               /\ \A j \in 1..Len(stream) :
                    i < j /\ Told(stream[j], r) => stream[i].done <= stream[j].done
    BY DEF Forward
  <2>4. \/ heard'[r].done = heard[r].done
        \/ Told(stream[1], r) /\ heard'[r].done = stream[1].done
    BY <1>5, HeardForward
  <2>5. heard'[r].done <= ckpt[r].done
    BY <2>2, <2>3, <2>4
  <2>6. ASSUME NEW i \in 1..Len(stream'), Told(stream'[i], r)
        PROVE  /\ heard'[r].done <= stream'[i].done
               /\ stream'[i].done <= ckpt[r].done
               /\ \A j \in 1..Len(stream') :
                    i < j /\ Told(stream'[j], r) => stream'[i].done <= stream'[j].done
    <3>1. /\ i + 1 \in 1..Len(stream) /\ stream'[i] = stream[i + 1]
          /\ 1 < i + 1 /\ \A j \in 1..Len(stream') : i < j => i + 1 < j + 1
      BY <2>2
    <3>2. heard'[r].done <= stream[i + 1].done
      BY <2>2, <2>3, <2>4, <2>6, <3>1
    <3>3. \A j \in 1..Len(stream') :
            i < j /\ Told(stream'[j], r) => stream'[i].done <= stream'[j].done
      BY <2>2, <2>3, <2>6, <3>1
    <3> QED
      BY <2>3, <2>6, <3>1, <3>2, <3>3
  <2> QED
    BY <2>1, <2>5, <2>6
<1> QED
  BY <1>1, <1>4, <1>5, SocketSteps DEF Forward

\* ProgressNeverGoesBack: however often workers die and others resume from the
\* checkpoint, the number of processed records that a subscriber sees only grows.
THEOREM ProgressGrows ==
  ASSUME "stall" \notin Faults
  PROVE  SocketSpec => ProgressNeverGoesBack
<1>1. SocketInit => Forward
  <2>1. ASSUME SocketInit, NEW r \in Rotations
        PROVE  heard[r].done <= ckpt[r].done /\ 1..Len(stream) = {}
    BY <2>1, EmptySeq DEF SocketInit, Init, Silence, NoCheckpoint
  <2> QED
    BY <2>1 DEF Forward
<1>2. SocketSpec => []Inv /\ []SocketTypeOK /\ []AloneInv
  BY PipelineUnaffected, Invariance, SocketTypeCorrect, AloneInvariance, PTL
<1>3. ASSUME Inv, Inv', SocketTypeOK, Forward, [SocketNext]_socketVars
      PROVE  [\A r \in Rotations : heard'[r].done >= heard[r].done]_socketVars
  <2>1. ASSUME NEW r \in Rotations
        PROVE  heard'[r].done >= heard[r].done
    <3>1. heard[r].done \in Int
      BY <1>3, SizesAssumption DEF SocketTypeOK, Heard
    <3>2. CASE Publishes
      BY <3>1, <3>2 DEF Publishes, OnlyNotices
    <3>3. CASE Delivers
      BY <1>3, <3>1, <3>3, HeardForward
    <3> QED
      BY <1>3, <3>2, <3>3, SocketSteps DEF Inv
  <2> QED
    BY <2>1
<1> QED
  BY <1>1, <1>2, <1>3, NextForward, PTL DEF SocketSpec, ProgressNeverGoesBack

=============================================================================
