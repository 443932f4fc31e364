-------------------------- MODULE KeyServiceProofs --------------------------
(***************************************************************************)
(* Proofs about KeyService, for every set of services, calls and keys,     *)
(* every bound on the versions and every choice of faults.                 *)
(*                                                                         *)
(* Inv is inductive.  It says what a frame or a cache remembers about the  *)
(* table between two awaits, and Grows why that cannot go stale: a row's   *)
(* key never changes, and a version that has been activated stays ACTIVE   *)
(* or RETIRED for ever.                                                    *)
(*                                                                         *)
(* For the refinement of DekTable, KeysNew adds that a key on its way to   *)
(* its row is in no other row and in no other call.                        *)
(***************************************************************************)
EXTENDS KeyService, TLAPS

\* The parts of Inv take the table, st and wr, as parameters, so that a lemma
\* about them applies to the table before a step and to the one after.
Exists(st, v) == st[v] # "ABSENT"
Ever(st, v) == st[v] \in {"ACTIVE", "RETIRED"}

\* An entry that may be encrypted under: of a version once activated, and
\* with the key of its row.
Usable(e, st, wr) == Ever(st, e.ver) /\ wr[e.ver] = e.dek

\* What a frame f knows at the await it is suspended at.
FrameOK(f, st, wr) ==
  /\ f.pc \in {"retire", "locking", "commit", "invalidate", "getDek", "fetch",
               "unwrap", "hit"} => f.ver \in Versions
  /\ f.pc \in {"max", "create"} => f.dek \in Keys
  /\ f.pc \in {"unwrap", "hit"} =>
       f.dek \in Keys /\ Exists(st, f.ver) /\ wr[f.ver] = f.dek
  /\ f.pc \in {"invalidate", "getDek", "fetch", "unwrap", "hit"}
       /\ f.op = "encrypt" => Ever(st, f.ver)
  /\ f.pc = "commit" => f.ver \in f.held
  /\ \A v \in f.held : Exists(st, v)
  /\ \A v \in f.held : v # f.ver => Ever(st, v)

\* A version has key material exactly when it has a row.
RowsWrapped(st, wr) == \A v \in Versions : Exists(st, v) <=> wr[v] # NoKey

CachesUsable == \A s \in Services :
                  cache[s] # NoEntry => Usable(cache[s], status, wrapped)
IssuedUsable == \A e \in issued : Usable(e, status, wrapped)
FramesOK == \A c \in Calls : FrameOK(call[c], status, wrapped)

Inv == /\ TypeOK
       /\ RowsWrapped(status, wrapped)
       /\ CachesUsable
       /\ IssuedUsable
       /\ FramesOK
       /\ ActiveNeverLost

\* How the table may change from (st, wr) to (st2, wr2).
Grows(st, wr, st2, wr2) ==
  \A v \in Versions :
    /\ Exists(st, v) => Exists(st2, v) /\ wr2[v] = wr[v]
    /\ Ever(st, v) => Ever(st2, v)

-----------------------------------------------------------------------------
(* Types.                                                                  *)

LEMMA GoType ==
  ASSUME call \in [Calls -> Frames], NEW c \in Calls,
         NEW pc \in PCs, NEW op \in Ops, NEW ver \in 0..MaxVersion + 1,
         NEW dek \in Keys \cup {NoKey}, Go(c, pc, op, ver, dek)
  PROVE  call' \in [Calls -> Frames]
BY DEF Go, Frames

LEMMA GoInTransactionType ==
  ASSUME call \in [Calls -> Frames], NEW c \in Calls, NEW pc \in PCs,
         NEW todo \in SUBSET Versions, NEW held \in SUBSET Versions,
         GoInTransaction(c, pc, todo, held)
  PROVE  call' \in [Calls -> Frames]
BY DEF GoInTransaction, Frames

LEMMA ReturnType ==
  ASSUME call \in [Calls -> Frames], NEW c \in Calls, Return(c)
  PROVE  call' \in [Calls -> Frames]
<1>1. Idle \in Frames
  BY MaxVersionAssumption DEF Frames, Idle, PCs, Ops
<1> QED
  BY <1>1 DEF Return

LEMMA FrameType ==
  ASSUME TypeOK, NEW c \in Calls
  PROVE  /\ call[c].pc \in PCs /\ call[c].op \in Ops
         /\ call[c].ver \in 0..MaxVersion + 1
         /\ call[c].dek \in Keys \cup {NoKey}
         /\ call[c].todo \in SUBSET Versions
         /\ call[c].held \in SUBSET Versions
         /\ SvcOf[c] \in Services
         /\ cache[SvcOf[c]] \in Entries \cup {NoEntry}
         /\ cache[SvcOf[c]].dek \in Keys \cup {NoKey}
<1>1. call[c] \in Frames
  BY DEF TypeOK
<1>2. cache[SvcOf[c]] \in Entries \cup {NoEntry}
  BY SvcOfAssumption DEF TypeOK
<1>3. cache[SvcOf[c]].dek \in Keys \cup {NoKey}
  BY <1>2 DEF Entries, NoEntry
<1> QED
  BY <1>1, <1>2, <1>3, SvcOfAssumption DEF Frames

LEMMA InitType == Init => TypeOK
<1>1. Idle \in Frames
  BY MaxVersionAssumption DEF Frames, Idle, PCs, Ops
<1> QED
  BY <1>1 DEF Init, TypeOK, Statuses

\* Only the answer of getDek needs more than TypeOK: FramesOK says that it
\* is a real key, of a real version.
LEMMA NextType ==
  ASSUME TypeOK, FramesOK, [Next]_vars
  PROVE  TypeOK'
<1> USE DEF TypeOK
<1>0. CASE UNCHANGED vars
  BY <1>0 DEF vars
<1>1. ASSUME NEW c \in Calls, Start(c)
      PROVE  TypeOK'
  <2>1. CASE EncryptCached(c)
    BY <2>1, SvcOfAssumption DEF EncryptCached
  <2>2. CASE EncryptMiss(c)
    BY <2>2, GoType, MaxVersionAssumption DEF EncryptMiss, PCs, Ops
  <2>3. CASE DecryptStart(c)
    BY <2>3, GoType, MaxVersionAssumption DEF DecryptStart, PCs, Ops, Versions
  <2>4. CASE GenerateStart(c)
    BY <2>4, GoType, MaxVersionAssumption DEF GenerateStart, PCs, Ops, FreshKeys
  <2>5. CASE ActivateStart(c)
    BY <2>5, GoType, MaxVersionAssumption DEF ActivateStart, PCs, Ops, Versions
  <2> QED
    BY <1>1, <2>1, <2>2, <2>3, <2>4, <2>5 DEF Start
<1>2. ASSUME NEW c \in Calls, Continue(c)
      PROVE  TypeOK'
  <2>1. CASE FindActive(c)
    BY <2>1, GoType, MaxVersionAssumption
       DEF FindActive, PCs, Ops, ActiveRows, Versions
  <2>2. CASE FindNoActive(c)
    BY <2>2, GoType, MaxVersionAssumption
       DEF FindNoActive, PCs, Ops, FreshKeys
  <2>3. CASE GetDekHit(c)
    <3>1. call' \in [Calls -> Frames]
      BY <2>3, GoType, FrameType DEF GetDekHit, PCs
    <3> QED
      BY <2>3, <3>1 DEF GetDekHit
  <2>4. CASE GetDekMiss(c)
    <3>1. call' \in [Calls -> Frames]
      BY <2>4, GoType, FrameType DEF GetDekMiss, PCs
    <3> QED
      BY <2>4, <3>1 DEF GetDekMiss
  <2>5. CASE FetchRow(c)
    <3>1. wrapped[call[c].ver] \in Keys \cup {NoKey}
      BY <2>5 DEF FetchRow, Rows
    <3>2. call' \in [Calls -> Frames]
      BY <2>5, <3>1, GoType, FrameType DEF FetchRow, PCs
    <3> QED
      BY <2>5, <3>2 DEF FetchRow
  <2>6. CASE FetchNoRow(c) \/ CreateRefused(c) \/ ActivateNoRow(c) \/ DeadlockVictim(c)
    BY <2>6, ReturnType
       DEF FetchNoRow, CreateRefused, ActivateNoRow, DeadlockVictim
  <2>7. CASE GotDek(c)
    <3>1. call' \in [Calls -> Frames]
      BY <2>7, ReturnType DEF GotDek
    <3>2. [ver |-> call[c].ver, dek |-> call[c].dek] \in Entries
      BY <2>7 DEF GotDek, Entries, FramesOK, FrameOK
    <3> QED
      BY <2>7, <3>1, <3>2 DEF GotDek
  <2>8. CASE ReadMax(c)
    <3>1. PICK m \in 0..MaxVersion :
            Go(c, "create", call[c].op, NextVersion(m), call[c].dek)
      BY <2>8 DEF ReadMax
    <3>2. NextVersion(m) \in 0..MaxVersion + 1
      BY MaxVersionAssumption DEF NextVersion
    <3>3. call' \in [Calls -> Frames]
      BY <3>1, <3>2, GoType, FrameType DEF PCs
    <3> QED
      BY <2>8, <3>3 DEF ReadMax
  <2>9. CASE Create(c)
    BY <2>9, ReturnType, GoType, MaxVersionAssumption
       DEF Create, IndexAdmits, Statuses, PCs, Ops, Frames, Versions
  <2>10. CASE RetireSnapshot(c)
    <3>1. ActiveRows \in SUBSET Versions /\ {} \in SUBSET Versions
      BY DEF ActiveRows
    <3>2. call' \in [Calls -> Frames]
      BY <2>10, <3>1, GoInTransactionType DEF RetireSnapshot, PCs
    <3> QED
      BY <2>10, <3>2 DEF RetireSnapshot
  <2>11. CASE RetireRow(c)
    <3>1. PICK v \in call[c].todo :
            GoInTransaction(c, "locking", call[c].todo \ {v},
                            call[c].held \cup ({v} \cap ActiveRows))
      BY <2>11 DEF RetireRow
    <3>2. /\ call[c].todo \ {v} \in SUBSET Versions
          /\ call[c].held \cup ({v} \cap ActiveRows) \in SUBSET Versions
      BY FrameType DEF ActiveRows
    <3>3. call' \in [Calls -> Frames]
      BY <3>1, <3>2, GoInTransactionType DEF PCs
    <3> QED
      BY <2>11, <3>3 DEF RetireRow
  <2>12. CASE ActivateRow(c)
    <3>1. call[c].held \cup {call[c].ver} \in SUBSET Versions
      BY <2>12, FrameType DEF ActivateRow, Rows
    <3>2. call' \in [Calls -> Frames]
      BY <2>12, <3>1, GoInTransactionType DEF ActivateRow, PCs
    <3> QED
      BY <2>12, <3>2 DEF ActivateRow
  <2>13. CASE Commit(c)
    <3>1. call' \in [Calls -> Frames]
      BY <2>13, GoType, FrameType DEF Commit, PCs
    <3>2. status' \in [Versions -> Statuses]
      BY <2>13 DEF Commit, Committed, Statuses
    <3> QED
      BY <2>13, <3>1, <3>2 DEF Commit
  <2>14. CASE Invalidate(c)
    <3>1. call' \in [Calls -> Frames]
      BY <2>14, GoType, ReturnType, FrameType DEF Invalidate, PCs, Ops
    <3>2. cache' \in [Services -> Entries \cup {NoEntry}]
      BY <2>14 DEF Invalidate
    <3> QED
      BY <2>14, <3>1, <3>2 DEF Invalidate
  <2> QED
    BY <1>2, <2>1, <2>2, <2>3, <2>4, <2>5, <2>6, <2>7, <2>8, <2>9, <2>10,
       <2>11, <2>12, <2>13, <2>14 DEF Continue
<1>3. ASSUME NEW c \in Calls, Fail(c) \/ CreateAckLost(c) \/ CommitAckLost(c)
      PROVE  TypeOK'
  <2>1. CASE Fail(c)
    BY <2>1, ReturnType DEF Fail
  <2>2. CASE CreateAckLost(c)
    BY <2>2, ReturnType DEF CreateAckLost, IndexAdmits, Statuses, Frames
  <2>3. CASE CommitAckLost(c)
    BY <2>3, ReturnType DEF CommitAckLost, Committed, Statuses
  <2> QED
    BY <1>3, <2>1, <2>2, <2>3
<1>4. ASSUME NEW s \in Services, Restart(s)
      PROVE  TypeOK'
  BY <1>4, MaxVersionAssumption DEF Restart, Frames, Idle, PCs, Ops
<1> QED
  BY <1>0, <1>1, <1>2, <1>3, <1>4 DEF Next

-----------------------------------------------------------------------------
(* How a step can disturb Inv.                                             *)

LEMMA FrameStable ==
  ASSUME NEW f \in Frames, NEW st, NEW wr, NEW st2, NEW wr2,
         Grows(st, wr, st2, wr2), FrameOK(f, st, wr)
  PROVE  FrameOK(f, st2, wr2)
BY DEF Grows, FrameOK, Frames

\* Inv survives a step under which the table grows, and that stores nothing
\* in caches, envelopes and frames but what is right for the new table.
LEMMA InvStep ==
  ASSUME Inv, TypeOK', RowsWrapped(status', wrapped'), ActiveNeverLost',
         Grows(status, wrapped, status', wrapped'),
         \A s \in Services : \/ cache'[s] = cache[s]
                             \/ cache'[s] = NoEntry
                             \/ Usable(cache'[s], status', wrapped'),
         \A e \in issued' : e \in issued \/ Usable(e, status', wrapped'),
         \A c \in Calls : \/ call'[c] = call[c]
                          \/ FrameOK(call'[c], status', wrapped')
  PROVE  Inv'
<1>1. \A e \in Entries : Usable(e, status, wrapped) => Usable(e, status', wrapped')
  BY DEF Usable, Grows, Entries, Ever, Exists
<1>2. CachesUsable'
  BY <1>1 DEF Inv, CachesUsable, TypeOK
<1>3. IssuedUsable'
  BY <1>1 DEF Inv, IssuedUsable, TypeOK
<1>4. FramesOK'
  BY FrameStable DEF Inv, FramesOK, TypeOK
<1> QED
  BY <1>2, <1>3, <1>4 DEF Inv

\* The case of a step that leaves table, caches and envelopes alone.
LEMMA QuietStep ==
  ASSUME Inv, TypeOK', UNCHANGED <<status, wrapped, cache, issued>>,
         \A c \in Calls : \/ call'[c] = call[c]
                          \/ FrameOK(call'[c], status, wrapped)
  PROVE  Inv'
<1>1. Grows(status, wrapped, status', wrapped')
  BY DEF Grows
<1>2. RowsWrapped(status', wrapped') /\ ActiveNeverLost'
  BY DEF Inv, ActiveNeverLost, EverActive, ActiveRows
<1> QED
  BY <1>1, <1>2, InvStep

LEMMA IdleOK ==
  ASSUME NEW st, NEW wr
  PROVE  FrameOK(Idle, st, wr)
BY DEF FrameOK, Idle

\* A row is inserted under a version that had none, with a key.
LEMMA MintStep ==
  ASSUME Inv, NEW v \in Versions, NEW k \in Keys, IndexAdmits(v),
         status' = [status EXCEPT ![v] = "PENDING"],
         wrapped' = [wrapped EXCEPT ![v] = k]
  PROVE  /\ Grows(status, wrapped, status', wrapped')
         /\ RowsWrapped(status', wrapped')
         /\ ActiveNeverLost'
<1>1. status[v] = "ABSENT"
  BY DEF IndexAdmits, Rows
<1>2. Grows(status, wrapped, status', wrapped')
  BY <1>1 DEF Inv, TypeOK, Grows, Exists, Ever
<1>3. RowsWrapped(status', wrapped')
  BY NoKeyAssumption DEF Inv, TypeOK, RowsWrapped, Exists
<1>4. ActiveNeverLost'
  BY <1>1 DEF Inv, TypeOK, ActiveNeverLost, EverActive, ActiveRows
<1> QED
  BY <1>2, <1>3, <1>4

\* A transaction commits: its version is ACTIVE now, so no activation is lost,
\* and what it retires had been activated.
LEMMA CommitStep ==
  ASSUME Inv, NEW c \in Calls, call[c].pc = "commit",
         status' = Committed(c), wrapped' = wrapped
  PROVE  /\ Grows(status, wrapped, status', wrapped')
         /\ RowsWrapped(status', wrapped')
         /\ ActiveNeverLost'
         /\ call[c].ver \in Versions /\ status'[call[c].ver] = "ACTIVE"
<1>1. /\ call[c].ver \in Versions /\ call[c].ver \in call[c].held
      /\ \A v \in call[c].held : Exists(status, v)
      /\ \A v \in call[c].held : v # call[c].ver => Ever(status, v)
  BY DEF Inv, FramesOK, FrameOK
<1>2. status'[call[c].ver] = "ACTIVE"
  BY <1>1 DEF Committed
<1>3. Grows(status, wrapped, status', wrapped')
  BY <1>1 DEF Committed, Grows, Exists, Ever
<1>4. RowsWrapped(status', wrapped')
  BY <1>1 DEF Inv, Committed, RowsWrapped, Exists
<1>5. ActiveNeverLost'
  BY <1>1, <1>2 DEF ActiveNeverLost, ActiveRows
<1> QED
  BY <1>1, <1>2, <1>3, <1>4, <1>5

-----------------------------------------------------------------------------
(* Inv is inductive.                                                       *)

LEMMA InitInv == Init => Inv
<1> SUFFICES ASSUME Init PROVE Inv
  OBVIOUS
<1>1. RowsWrapped(status, wrapped)
  BY DEF Init, RowsWrapped, Exists
<1>2. CachesUsable /\ IssuedUsable /\ ActiveNeverLost
  BY DEF Init, CachesUsable, IssuedUsable, ActiveNeverLost, EverActive
<1>3. FramesOK
  BY IdleOK DEF Init, FramesOK
<1> QED
  BY <1>1, <1>2, <1>3, InitType DEF Inv

LEMMA StartInv ==
  ASSUME Inv, TypeOK', NEW c \in Calls, Start(c)
  PROVE  Inv'
<1> USE DEF Inv
<1>1. CASE EncryptCached(c)
  <2>1. cache[SvcOf[c]] \in Entries /\ Usable(cache[SvcOf[c]], status, wrapped)
    BY <1>1, FrameType, SvcOfAssumption DEF EncryptCached, CachesUsable
  <2>2. \A e \in issued' : e \in issued \/ Usable(e, status', wrapped')
    BY <1>1, <2>1 DEF EncryptCached
  <2>3. Grows(status, wrapped, status', wrapped')
    BY <1>1 DEF EncryptCached, Grows
  <2>4. RowsWrapped(status', wrapped') /\ ActiveNeverLost'
    BY <1>1 DEF EncryptCached, ActiveNeverLost, EverActive, ActiveRows
  <2> QED
    BY <1>1, <2>2, <2>3, <2>4, InvStep DEF EncryptCached
<1>2. CASE ~EncryptCached(c)
  <2>1. UNCHANGED <<status, wrapped, cache, issued>>
    BY <1>2 DEF Start, EncryptMiss, DecryptStart, GenerateStart, ActivateStart
  <2>2. FrameOK(call'[c], status, wrapped)
    <3>1. CASE EncryptMiss(c)
      BY <3>1 DEF EncryptMiss, Go, FrameOK, TypeOK
    <3>2. CASE DecryptStart(c)
      BY <3>2 DEF DecryptStart, Go, FrameOK, TypeOK
    <3>3. CASE GenerateStart(c)
      BY <3>3 DEF GenerateStart, FreshKeys, Go, FrameOK, TypeOK
    <3>4. CASE ActivateStart(c)
      BY <3>4 DEF ActivateStart, Go, FrameOK, TypeOK
    <3> QED
      BY <1>2, <3>1, <3>2, <3>3, <3>4 DEF Start
  <2>3. \A d \in Calls \ {c} : call'[d] = call[d]
    BY <1>2 DEF Start, EncryptMiss, DecryptStart, GenerateStart, ActivateStart,
                Go, TypeOK
  <2> QED
    BY <2>1, <2>2, <2>3, QuietStep
<1> QED
  BY <1>1, <1>2

\* Steps of a call that change nothing but its own frame.
Quiet(c) ==
  \/ FindActive(c) \/ FindNoActive(c)
  \/ GetDekHit(c) \/ GetDekMiss(c) \/ FetchRow(c)
  \/ ReadMax(c) \/ RetireSnapshot(c) \/ RetireRow(c) \/ ActivateRow(c)
  \/ FetchNoRow(c) \/ CreateRefused(c) \/ ActivateNoRow(c)
  \/ DeadlockVictim(c) \/ Fail(c)

LEMMA QuietInv ==
  ASSUME Inv, TypeOK', NEW c \in Calls, Quiet(c)
  PROVE  Inv'
<1> DEFINE Ends == \/ FetchNoRow(c) \/ CreateRefused(c) \/ ActivateNoRow(c)
                   \/ DeadlockVictim(c) \/ Fail(c)
<1>0. FrameOK(call[c], status, wrapped) /\ call[c] \in Frames
  BY DEF Inv, FramesOK, TypeOK
<1>1. UNCHANGED <<status, wrapped, cache, issued>>
  BY DEF Quiet, FindActive, FindNoActive, GetDekHit, GetDekMiss, FetchRow,
         ReadMax, RetireSnapshot, RetireRow, ActivateRow, FetchNoRow,
         CreateRefused, ActivateNoRow, DeadlockVictim, Fail
<1>2. \A d \in Calls \ {c} : call'[d] = call[d]
  BY DEF Quiet, FindActive, FindNoActive, GetDekHit, GetDekMiss, FetchRow,
         ReadMax, RetireSnapshot, RetireRow, ActivateRow, FetchNoRow,
         CreateRefused, ActivateNoRow, DeadlockVictim, Fail,
         Go, GoInTransaction, Return, Inv, TypeOK
<1>3. FrameOK(call'[c], status, wrapped)
  <2> USE DEF Inv, TypeOK
  <2>1. CASE FindActive(c)
    BY <2>1 DEF FindActive, ActiveRows, Go, FrameOK, Ever
  <2>2. CASE FindNoActive(c)
    BY <2>2 DEF FindNoActive, FreshKeys, Go, FrameOK
  <2>3. CASE GetDekHit(c)
    <3>1. cache[SvcOf[c]] # NoEntry
      BY <1>0, <2>3 DEF GetDekHit, CacheServes, NoEntry, FrameOK, Versions
    <3>2. /\ cache[SvcOf[c]] \in Entries
          /\ Usable(cache[SvcOf[c]], status, wrapped)
      BY <3>1, FrameType DEF CachesUsable
    <3>3. cache[SvcOf[c]].dek \in Keys /\ cache[SvcOf[c]].ver = call[c].ver
      BY <2>3, <3>2 DEF GetDekHit, CacheServes, Entries
    <3> QED
      BY <1>0, <2>3, <3>2, <3>3
         DEF GetDekHit, Go, FrameOK, Usable, Exists, Ever
  <2>4. CASE GetDekMiss(c)
    BY <1>0, <2>4 DEF GetDekMiss, Go, FrameOK
  <2>5. CASE FetchRow(c)
    BY <1>0, <2>5 DEF FetchRow, Rows, RowsWrapped, Exists, Go, FrameOK
  <2>6. CASE ReadMax(c)
    BY <1>0, <2>6 DEF ReadMax, Go, FrameOK
  <2>7. CASE RetireSnapshot(c)
    BY <1>0, <2>7 DEF RetireSnapshot, GoInTransaction, FrameOK
  <2>8. CASE RetireRow(c)
    BY <1>0, <2>8
       DEF RetireRow, ActiveRows, GoInTransaction, FrameOK, Exists, Ever
  <2>9. CASE ActivateRow(c)
    BY <1>0, <2>9 DEF ActivateRow, Rows, GoInTransaction, FrameOK, Exists
  <2>10. CASE Ends
    <3>1. call'[c] = Idle
      BY <2>10 DEF FetchNoRow, CreateRefused, ActivateNoRow, DeadlockVictim,
                   Fail, Return
    <3> QED
      BY <3>1, IdleOK
  <2> QED
    BY <2>1, <2>2, <2>3, <2>4, <2>5, <2>6, <2>7, <2>8, <2>9, <2>10 DEF Quiet
<1> QED
  BY <1>1, <1>2, <1>3, QuietStep

LEMMA GotDekInv ==
  ASSUME Inv, TypeOK', NEW c \in Calls, GotDek(c)
  PROVE  Inv'
<1> DEFINE e == [ver |-> call[c].ver, dek |-> call[c].dek]
<1>1. call[c].op = "encrypt" => Usable(e, status, wrapped)
  BY DEF GotDek, Inv, FramesOK, FrameOK, Usable
<1>2. Grows(status, wrapped, status', wrapped')
  BY DEF GotDek, Grows
<1>3. RowsWrapped(status', wrapped') /\ ActiveNeverLost'
  BY DEF GotDek, Inv, ActiveNeverLost, EverActive, ActiveRows
<1>4. \A s \in Services :
        cache'[s] = cache[s] \/ Usable(cache'[s], status', wrapped')
  BY <1>1 DEF GotDek, Inv, TypeOK
<1>5. \A x \in issued' : x \in issued \/ Usable(x, status', wrapped')
  BY <1>1 DEF GotDek
<1>6. \A d \in Calls : call'[d] = call[d] \/ FrameOK(call'[d], status', wrapped')
  BY IdleOK DEF GotDek, Return, Inv, TypeOK
<1> QED
  BY <1>2, <1>3, <1>4, <1>5, <1>6, InvStep

LEMMA CreateInv ==
  ASSUME Inv, TypeOK', NEW c \in Calls, Create(c) \/ CreateAckLost(c)
  PROVE  Inv'
<1>1. call[c].dek \in Keys /\ call[c].ver \in Versions
  BY DEF Create, CreateAckLost, IndexAdmits, Inv, FramesOK, FrameOK
<1>2. /\ Grows(status, wrapped, status', wrapped')
      /\ RowsWrapped(status', wrapped')
      /\ ActiveNeverLost'
  BY <1>1, MintStep DEF Create, CreateAckLost
<1>3. UNCHANGED <<cache, issued>>
  BY DEF Create, CreateAckLost
<1>4. FrameOK(call'[c], status', wrapped')
  <2>1. CASE call'[c] = Idle
    BY <2>1, IdleOK
  <2>2. CASE call'[c] # Idle
    BY <1>1, <2>2 DEF Create, CreateAckLost, Return, Go, Inv, TypeOK, FrameOK
  <2> QED
    BY <2>1, <2>2
<1>5. \A d \in Calls \ {c} : call'[d] = call[d]
  BY DEF Create, CreateAckLost, Return, Go, Inv, TypeOK
<1> QED
  BY <1>2, <1>3, <1>4, <1>5, InvStep

LEMMA CommitInv ==
  ASSUME Inv, TypeOK', NEW c \in Calls, Commit(c) \/ CommitAckLost(c)
  PROVE  Inv'
<1>1. /\ Grows(status, wrapped, status', wrapped')
      /\ RowsWrapped(status', wrapped')
      /\ ActiveNeverLost'
      /\ call[c].ver \in Versions /\ status'[call[c].ver] = "ACTIVE"
  BY CommitStep DEF Commit, CommitAckLost
<1>2. UNCHANGED <<cache, issued>>
  BY DEF Commit, CommitAckLost
<1>3. FrameOK(call'[c], status', wrapped')
  <2>1. CASE call'[c] = Idle
    BY <2>1, IdleOK
  <2>2. CASE call'[c] # Idle
    BY <1>1, <2>2
       DEF Commit, CommitAckLost, Return, Go, Inv, TypeOK, FrameOK, Ever
  <2> QED
    BY <2>1, <2>2
<1>4. \A d \in Calls \ {c} : call'[d] = call[d]
  BY DEF Commit, CommitAckLost, Return, Go, Inv, TypeOK
<1> QED
  BY <1>1, <1>2, <1>3, <1>4, InvStep

\* Steps that clear a cache: Invalidate, and the restart of a process.
LEMMA ClearInv ==
  ASSUME Inv, TypeOK', UNCHANGED <<status, wrapped, issued>>,
         \A s \in Services : cache'[s] = cache[s] \/ cache'[s] = NoEntry,
         \A c \in Calls : \/ call'[c] = call[c]
                          \/ FrameOK(call'[c], status, wrapped)
  PROVE  Inv'
<1>1. Grows(status, wrapped, status', wrapped')
  BY DEF Grows
<1>2. RowsWrapped(status', wrapped') /\ ActiveNeverLost'
  BY DEF Inv, ActiveNeverLost, EverActive, ActiveRows
<1> QED
  BY <1>1, <1>2, InvStep

LEMMA InvalidateInv ==
  ASSUME Inv, TypeOK', NEW c \in Calls, Invalidate(c)
  PROVE  Inv'
<1>1. FrameOK(call'[c], status, wrapped)
  <2>1. CASE call[c].op = "encrypt"
    BY <2>1 DEF Invalidate, Go, Inv, TypeOK, FramesOK, FrameOK
  <2>2. CASE call[c].op # "encrypt"
    BY <2>2, IdleOK DEF Invalidate, Return, Inv, TypeOK
  <2> QED
    BY <2>1, <2>2
<1>2. \A d \in Calls \ {c} : call'[d] = call[d]
  BY DEF Invalidate, Return, Go, Inv, TypeOK
<1>3. \A s \in Services : cache'[s] = cache[s] \/ cache'[s] = NoEntry
  BY DEF Invalidate, Inv, TypeOK
<1> QED
  BY <1>1, <1>2, <1>3, ClearInv DEF Invalidate

LEMMA RestartInv ==
  ASSUME Inv, TypeOK', NEW s \in Services, Restart(s)
  PROVE  Inv'
<1>1. \A c \in Calls : call'[c] = call[c] \/ FrameOK(call'[c], status, wrapped)
  BY IdleOK DEF Restart
<1>2. \A r \in Services : cache'[r] = cache[r] \/ cache'[r] = NoEntry
  BY DEF Restart, Inv, TypeOK
<1> QED
  BY <1>1, <1>2, ClearInv DEF Restart

LEMMA NextInv == Inv /\ [Next]_vars => Inv'
<1> SUFFICES ASSUME Inv, [Next]_vars PROVE Inv'
  OBVIOUS
<1>0. TypeOK'
  BY NextType DEF Inv
<1>1. CASE UNCHANGED vars
  BY <1>0, <1>1, ClearInv DEF vars
<1>2. ASSUME NEW c \in Calls, Start(c) PROVE Inv'
  BY <1>0, <1>2, StartInv
<1>3. ASSUME NEW c \in Calls,
             Continue(c) \/ Fail(c) \/ CreateAckLost(c) \/ CommitAckLost(c)
      PROVE  Inv'
  BY <1>0, <1>3, QuietInv, GotDekInv, CreateInv, CommitInv, InvalidateInv
     DEF Continue, Quiet
<1>4. ASSUME NEW s \in Services, Restart(s) PROVE Inv'
  BY <1>0, <1>4, RestartInv
<1> QED
  BY <1>1, <1>2, <1>3, <1>4 DEF Next

LEMMA Invariance == Spec => []Inv
BY InitInv, NextInv, PTL DEF Spec

-----------------------------------------------------------------------------
(* Theorems.                                                               *)

\* Nothing is ever stored where it does not belong: in particular the version
\* a call computes from max('version') is at most one above the bound, and
\* what a cache holds is a real key of a real version.
THEOREM TypeCorrect == Spec => []TypeOK
BY Invariance, PTL DEF Inv

\* Every envelope encrypt() has returned can be decrypted, by every process,
\* whatever has happened to the versions, the caches and the calls since.
THEOREM EnvelopesStayDecryptable == Spec => []EnvelopesDecryptable
<1>1. Inv => EnvelopesDecryptable
  BY DEF Inv, TypeOK, EnvelopesDecryptable, IssuedUsable, CachesUsable, Usable,
         FramesOK, FrameOK, Ever, Rows, Entries
<1> QED
  BY <1>1, Invariance, PTL

\* No envelope is ever made under a version that was not activated first.
THEOREM PendingKeysUnused == Spec => []OnlyActivatedKeysEncrypt
<1>1. Inv => OnlyActivatedKeysEncrypt
  BY DEF Inv, OnlyActivatedKeysEncrypt, IssuedUsable, Usable, Ever, EverActive
<1> QED
  BY <1>1, Invariance, PTL

\* Once a version has been activated, one is ACTIVE at every moment: no
\* interleaving or failure of activations leaves the table without.
THEOREM AnActiveVersionStays == Spec => []ActiveNeverLost
BY Invariance, PTL DEF Inv

\* What one step may do to the table: nothing, one new row, or one commit.
LEMMA TableSteps ==
  ASSUME Inv, [Next]_vars
  PROVE  \/ UNCHANGED <<status, wrapped>>
         \/ \E c \in Calls : Create(c) \/ CreateAckLost(c)
         \/ \E c \in Calls : Commit(c) \/ CommitAckLost(c)
<1>1. ASSUME NEW c \in Calls, Start(c) PROVE UNCHANGED <<status, wrapped>>
  BY <1>1 DEF Start, EncryptCached, EncryptMiss, DecryptStart, GenerateStart,
              ActivateStart
<1>2. ASSUME NEW c \in Calls, Continue(c) \/ Fail(c)
      PROVE  UNCHANGED <<status, wrapped>> \/ Create(c) \/ Commit(c)
  BY <1>2 DEF Continue, FindActive, FindNoActive, GetDekHit, GetDekMiss,
              FetchRow, FetchNoRow, GotDek, ReadMax, CreateRefused,
              RetireSnapshot, RetireRow, ActivateRow, ActivateNoRow,
              Invalidate, DeadlockVictim, Fail
<1>3. ASSUME NEW s \in Services, Restart(s) PROVE UNCHANGED <<status, wrapped>>
  BY <1>3 DEF Restart
<1> QED
  BY <1>1, <1>2, <1>3 DEF Next, vars

\* Rows are never deleted and never re-keyed, and statuses move only along
\* the life cycle that KEY_STATUS describes, and from RETIRED to ACTIVE.
THEOREM RowsStayKept == Spec => RowsAreKept
<1> DEFINE A == \A v \in Rows : /\ wrapped'[v] = wrapped[v]
                                /\ status'[v] # "ABSENT"
                                /\ status'[v] = "PENDING" => status[v] = "PENDING"
                                /\ status'[v] = "RETIRED" => status[v] # "PENDING"
<1>1. Inv /\ [Next]_vars => A
  <2> SUFFICES ASSUME Inv, [Next]_vars PROVE A
    OBVIOUS
  <2>1. CASE UNCHANGED <<status, wrapped>>
    BY <2>1 DEF Rows
  <2>2. ASSUME NEW c \in Calls, Create(c) \/ CreateAckLost(c) PROVE A
    <3>1. IndexAdmits(call[c].ver)
      BY <2>2 DEF Create, CreateAckLost
    <3> QED
      BY <2>2, <3>1 DEF Create, CreateAckLost, IndexAdmits, Rows, Inv, TypeOK
  <2>3. ASSUME NEW c \in Calls, Commit(c) \/ CommitAckLost(c) PROVE A
    <3>1. /\ \A v \in call[c].held : v # call[c].ver => Ever(status, v)
          /\ status' = Committed(c) /\ wrapped' = wrapped
      BY <2>3 DEF Commit, CommitAckLost, Inv, FramesOK, FrameOK
    <3> QED
      BY <3>1 DEF Committed, Rows, Ever
  <2> QED
    BY <2>1, <2>2, <2>3, TableSteps
<1> QED
  BY <1>1, Invariance, PTL DEF Spec, RowsAreKept

-----------------------------------------------------------------------------
(* The service implements DekTable.  Every step is one of the table, or    *)
(* none; but that the key of a new row is in no other needs to be known of *)
(* the keys that calls carry from FreshKeys to their insert.               *)

Minting(f) == f.pc \in {"max", "create"}
KeysNew ==
  \A c \in Calls : Minting(call[c]) =>
    /\ \A v \in Versions : wrapped[v] # call[c].dek
    /\ \A d \in Calls \ {c} : Minting(call[d]) => call[d].dek # call[c].dek

\* Whoever mints after such a step has done so before it, with the same key.
LEMMA NothingNew ==
  ASSUME KeysNew, UNCHANGED wrapped,
         \A c \in Calls : Minting(call'[c]) =>
           Minting(call[c]) /\ call'[c].dek = call[c].dek
  PROVE  KeysNew'
BY DEF KeysNew

LEMMA FreshIsNew ==
  ASSUME Inv, KeysNew, NEW c \in Calls, NEW k \in FreshKeys, NEW op,
         Go(c, "max", op, 0, k), UNCHANGED wrapped
  PROVE  KeysNew'
<1>1. \A d \in Calls \ {c} : call'[d] = call[d]
  BY DEF Go, Inv, TypeOK
<1>2. Minting(call'[c]) /\ call'[c].dek = k
  BY DEF Go, Inv, TypeOK, Minting
<1>3. /\ \A v \in Versions : wrapped[v] # k
      /\ \A d \in Calls : call[d].dek # k
  BY DEF FreshKeys
<1> QED
  BY <1>1, <1>2, <1>3 DEF KeysNew

\* The row of call c is there; c carries its key no longer, and the keys of the
\* others differ from it.
LEMMA InsertedIsNew ==
  ASSUME Inv, KeysNew, NEW c \in Calls, Create(c) \/ CreateAckLost(c)
  PROVE  KeysNew'
<1>1. \A d \in Calls \ {c} : call'[d] = call[d]
  BY DEF Create, CreateAckLost, Go, Return, Inv, TypeOK
<1>2. ~Minting(call'[c])
  BY DEF Create, CreateAckLost, Go, Return, Idle, Inv, TypeOK, Minting
<1>3. \A v \in Versions : wrapped'[v] = wrapped[v] \/ wrapped'[v] = call[c].dek
  BY DEF Create, CreateAckLost, Inv, TypeOK
<1>4. Minting(call[c])
  BY DEF Create, CreateAckLost, Minting
<1> QED
  BY <1>1, <1>2, <1>3, <1>4 DEF KeysNew

\* The remaining steps of a call.
LEMMA OthersMintNothing ==
  ASSUME Inv, NEW c \in Calls, Start(c) \/ Continue(c) \/ Fail(c) \/ CommitAckLost(c),
         ~(GenerateStart(c) \/ FindNoActive(c) \/ Create(c))
  PROVE  /\ UNCHANGED wrapped
         /\ \A d \in Calls : Minting(call'[d]) =>
              Minting(call[d]) /\ call'[d].dek = call[d].dek
<1> USE DEF Inv, TypeOK, Minting, Go, GoInTransaction, Return, Idle
<1>1. CASE Start(c)
  BY <1>1 DEF Start, EncryptCached, EncryptMiss, DecryptStart, ActivateStart
<1>2. CASE FindActive(c) \/ GetDekHit(c) \/ GetDekMiss(c) \/ FetchRow(c)
  BY <1>2 DEF FindActive, GetDekHit, GetDekMiss, FetchRow
<1>3. CASE FetchNoRow(c) \/ GotDek(c) \/ CreateRefused(c) \/ ActivateNoRow(c)
  BY <1>3 DEF FetchNoRow, GotDek, CreateRefused, ActivateNoRow
<1>4. CASE ReadMax(c)
  BY <1>4 DEF ReadMax
<1>5. CASE RetireSnapshot(c) \/ RetireRow(c) \/ ActivateRow(c)
  BY <1>5 DEF RetireSnapshot, RetireRow, ActivateRow
<1>6. CASE Commit(c) \/ Invalidate(c) \/ CommitAckLost(c)
  BY <1>6 DEF Commit, Invalidate, CommitAckLost
<1>7. CASE DeadlockVictim(c) \/ Fail(c)
  BY <1>7 DEF DeadlockVictim, Fail
<1> QED
  BY <1>1, <1>2, <1>3, <1>4, <1>5, <1>6, <1>7 DEF Continue

LEMMA KeysStayNew ==
  ASSUME Inv, KeysNew, [Next]_vars
  PROVE  KeysNew'
<1>1. ASSUME NEW c \in Calls,
             \/ Start(c) \/ Continue(c) \/ Fail(c)
             \/ CreateAckLost(c) \/ CommitAckLost(c)
      PROVE  KeysNew'
  <2>1. CASE GenerateStart(c)
    BY <2>1, FreshIsNew DEF GenerateStart
  <2>2. CASE FindNoActive(c)
    BY <2>2, FreshIsNew DEF FindNoActive
  <2>3. CASE Create(c) \/ CreateAckLost(c)
    BY <2>3, InsertedIsNew
  <2> QED
    BY <1>1, <2>1, <2>2, <2>3, OthersMintNothing, NothingNew
<1>2. ASSUME NEW s \in Services, Restart(s)
      PROVE  KeysNew'
  <2>1. \A c \in Calls : call'[c] = call[c] \/ ~Minting(call'[c])
    BY <1>2 DEF Restart, Idle, Minting
  <2> QED
    BY <1>2, <2>1, NothingNew DEF Restart
<1>3. CASE UNCHANGED vars
  BY <1>3, NothingNew DEF vars
<1> QED
  BY <1>1, <1>2, <1>3 DEF Next

\* An envelope is made under a version that has been activated, with its key.
LEMMA IssueSteps ==
  ASSUME Inv, [Next]_vars
  PROVE  \/ UNCHANGED issued
         \/ \E e \in Entries : /\ issued' = issued \cup {e}
                               /\ Usable(e, status, wrapped)
                               /\ UNCHANGED <<status, wrapped>>
<1>1. ASSUME NEW c \in Calls, EncryptCached(c)
      PROVE  \E e \in Entries : /\ issued' = issued \cup {e}
                                /\ Usable(e, status, wrapped)
                                /\ UNCHANGED <<status, wrapped>>
  <2>1. cache[SvcOf[c]] \in Entries /\ Usable(cache[SvcOf[c]], status, wrapped)
    BY <1>1, FrameType, SvcOfAssumption DEF EncryptCached, CachesUsable, Inv
  <2> QED
    BY <1>1, <2>1 DEF EncryptCached
<1>2. ASSUME NEW c \in Calls, GotDek(c), call[c].op = "encrypt"
      PROVE  \E e \in Entries : /\ issued' = issued \cup {e}
                                /\ Usable(e, status, wrapped)
                                /\ UNCHANGED <<status, wrapped>>
  <2> DEFINE e == [ver |-> call[c].ver, dek |-> call[c].dek]
  <2>1. e \in Entries /\ Usable(e, status, wrapped)
    BY <1>2 DEF GotDek, Inv, FramesOK, FrameOK, Usable, Entries
  <2> QED
    BY <1>2, <2>1 DEF GotDek
<1>3. ASSUME NEW c \in Calls,
             \/ Start(c) \/ Continue(c) \/ Fail(c)
             \/ CreateAckLost(c) \/ CommitAckLost(c),
             ~EncryptCached(c), ~(GotDek(c) /\ call[c].op = "encrypt")
      PROVE  UNCHANGED issued
  BY <1>3 DEF Start, EncryptMiss, DecryptStart, GenerateStart, ActivateStart,
     Continue, FindActive, FindNoActive, GetDekHit, GetDekMiss, FetchRow,
     FetchNoRow, GotDek, ReadMax, Create, CreateRefused, RetireSnapshot,
     RetireRow, ActivateRow, ActivateNoRow, Commit, Invalidate, DeadlockVictim,
     Fail, CreateAckLost, CommitAckLost
<1>4. ASSUME NEW s \in Services, Restart(s)
      PROVE  UNCHANGED issued
  BY <1>4 DEF Restart
<1> QED
  BY <1>1, <1>2, <1>3, <1>4 DEF Next, vars

\* The insert is DekTable's Mint, the commit its Activate: of the rows the
\* transaction holds, those still ACTIVE are the ones that go.
LEMMA InsertMints ==
  ASSUME Inv, KeysNew, NEW c \in Calls, Create(c) \/ CreateAckLost(c)
  PROVE  \E v \in Versions, k \in Keys : Table!Mint(v, k)
<1>1. call[c].ver \in Versions /\ call[c].dek \in Keys
  BY DEF Create, CreateAckLost, IndexAdmits, Inv, FramesOK, FrameOK
<1>2. status[call[c].ver] = "ABSENT"
  BY DEF Create, CreateAckLost, IndexAdmits, Rows
<1>3. \A v \in Versions : wrapped[v] # call[c].dek
  BY DEF Create, CreateAckLost, KeysNew, Minting
<1>4. Table!Mint(call[c].ver, call[c].dek)
  BY <1>2, <1>3 DEF Create, CreateAckLost, Table!Mint, Table!Versions, Versions
<1> QED
  BY <1>1, <1>4

LEMMA CommitActivates ==
  ASSUME Inv, NEW c \in Calls, Commit(c) \/ CommitAckLost(c)
  PROVE  \E v \in Versions, gone \in SUBSET Versions : Table!Activate(v, gone)
<1> DEFINE v == call[c].ver
           gone == {w \in call[c].held \ {v} : status[w] = "ACTIVE"}
<1>1. /\ v \in Versions /\ v \in call[c].held
      /\ status[v] # "ABSENT"
      /\ \A w \in call[c].held \ {v} : status[w] \in {"ACTIVE", "RETIRED"}
  BY DEF Commit, CommitAckLost, Inv, FramesOK, FrameOK, Exists, Ever
<1>2. gone \in SUBSET Versions
  BY FrameType DEF Inv
<1>3. status' = Committed(c) /\ UNCHANGED <<wrapped, issued>>
  BY DEF Commit, CommitAckLost
<1>4. Committed(c) = [w \in Versions |->
                        CASE w = v               -> "ACTIVE"
                          [] w \in gone /\ w # v -> "RETIRED"
                          [] OTHER               -> status[w]]
  BY <1>1 DEF Committed
<1>5. Table!Activate(v, gone)
  BY <1>1, <1>3, <1>4 DEF Table!Activate, Table!Versions, Versions
<1> QED
  BY <1>1, <1>2, <1>5

LEMMA StepsImplement ==
  ASSUME Inv, KeysNew, [Next]_vars
  PROVE  [Table!Next]_(Table!vars)
<1>1. CASE UNCHANGED <<status, wrapped, issued>>
  BY <1>1 DEF Table!vars
<1>2. CASE UNCHANGED <<status, wrapped>> /\ ~UNCHANGED issued
  <2>1. PICK e \in Entries : issued' = issued \cup {e} /\ Usable(e, status, wrapped)
    BY <1>2, IssueSteps
  <2>2. e = [ver |-> e.ver, dek |-> wrapped[e.ver]] /\ e.ver \in Versions
    BY <2>1 DEF Entries, Usable
  <2>3. Table!Issue(e.ver)
    BY <1>2, <2>1, <2>2 DEF Table!Issue, Usable, Ever
  <2> QED
    BY <2>2, <2>3 DEF Table!Next, Table!Versions, Versions
<1>3. CASE \E c \in Calls : Create(c) \/ CreateAckLost(c)
  BY <1>3, InsertMints DEF Table!Next, Table!Versions, Versions
<1>4. CASE \E c \in Calls : Commit(c) \/ CommitAckLost(c)
  BY <1>4, CommitActivates DEF Table!Next, Table!Versions, Versions
<1> QED
  BY <1>1, <1>2, <1>3, <1>4, TableSteps

\* Implements: to the rest of the system generateDek, activateDek, getActiveDek
\* and getDek, with all their awaits, caches, locks, failures and restarts, are
\* the three steps of DekTable.
THEOREM ServiceImplementsTable == Spec => Implements
<1>1. Init => Table!Init
  BY DEF Init, Table!Init, Table!Versions, Versions
<1>2. Init => KeysNew
  BY DEF Init, KeysNew, Minting, Idle
<1>3. Inv /\ KeysNew /\ [Next]_vars => KeysNew'
  BY KeysStayNew
<1>4. Inv /\ KeysNew /\ [Next]_vars => [Table!Next]_(Table!vars)
  BY StepsImplement
<1> QED
  BY <1>1, <1>2, <1>3, <1>4, Invariance, PTL DEF Spec, Implements, Table!Spec

=============================================================================
