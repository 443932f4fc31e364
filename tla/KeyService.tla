----------------------------- MODULE KeyService -----------------------------
(***************************************************************************)
(* app/service/encryption/key.service.js, as every process of the system   *)
(* runs it, over one PostgreSQL table `encryption_keys` (key_type = 'DEK').*)
(*                                                                         *)
(* A service is one KeyService object: it owns an `_activeDekCache`, and   *)
(* nothing tells one service of what another does.  A call is one          *)
(* invocation in flight: a stack of async functions suspended at an await. *)
(* Each action below runs one call from one await to the next, so calls of *)
(* the same service interleave at awaits, and calls of different services  *)
(* anywhere.  PostgreSQL runs at READ COMMITTED, sequelize's default here: *)
(* an UPDATE takes its candidate rows from a snapshot, waits for the lock  *)
(* of each, and looks at its WHERE clause again once it has the lock.      *)
(***************************************************************************)
EXTENDS Integers, FiniteSets

CONSTANTS
  Services,     \* KeyService objects: one per process or route module
  Calls,        \* slots for calls in flight (bound: so many at once)
  SvcOf,        \* the service each call runs in
  Keys,         \* DEK material (bound: so many keys alive at once)
  NoKey,        \* no key material
  MaxVersion,   \* bound: the insert of a higher version is refused
  Faults        \* the faults a behaviour may contain, a subset of FaultKinds

FaultKinds == {"failure", "ackLost", "restart"}

ASSUME SvcOfAssumption == SvcOf \in [Calls -> Services]
ASSUME NoKeyAssumption == NoKey \notin Keys
ASSUME MaxVersionAssumption == MaxVersion \in Nat \ {0}
ASSUME FaultsAssumption == Faults \subseteq FaultKinds

Versions == 1..MaxVersion

VARIABLES
  status,    \* status[v]: committed status of row v, "ABSENT" when no such row
  wrapped,   \* wrapped[v]: the key that unwrapping row v yields
  cache,     \* cache[s]: service s's _activeDekCache
  call,      \* call[c]: the frame of call c
  issued     \* history: the (version, key) pairs encrypt() made envelopes with

vars == <<status, wrapped, cache, call, issued>>

-----------------------------------------------------------------------------
(* Values.  Version 0 in a cached entry stands for the null cache, and in  *)
(* a frame for a local that is not assigned yet.                           *)

Statuses == {"ABSENT", "PENDING", "ACTIVE", "RETIRED"}

Entries == [ver : Versions, dek : Keys]
NoEntry == [ver |-> 0, dek |-> NoKey]

(* Where a call is suspended:                                              *)
(*   find       findOne of the ACTIVE row              (getActiveDek)      *)
(*   max        max('version'), the new key wrapped    (generateDek)       *)
(*   create     the insert of the PENDING row          (generateDek)       *)
(*   retire     first UPDATE, not started              (activateDek)       *)
(*   locking    first UPDATE, waiting for its rows     (activateDek)       *)
(*   commit     both UPDATEs done                      (activateDek)       *)
(*   invalidate committed, cache not yet cleared       (activateDek)       *)
(*   getDek     entry of getDek                                            *)
(*   fetch      findOne by version                     (getDek)            *)
(*   unwrap     provider.unwrapKey                     (getDek)            *)
(*   hit        getDek answered from the cache                             *)
PCs == {"idle", "find", "max", "create", "retire", "locking", "commit",
        "invalidate", "getDek", "fetch", "unwrap", "hit"}

\* What the caller asked for.  "encrypt" is EncryptionService.encrypt, the
\* caller of getActiveDek; "decrypt" the caller of getDek(version).
Ops == {"none", "encrypt", "decrypt", "generate", "activate"}

Frames == [pc   : PCs,
           op   : Ops,
           ver  : 0..MaxVersion + 1,       \* the version in hand
           dek  : Keys \cup {NoKey},       \* the key in hand
           todo : SUBSET Versions,         \* rows the first UPDATE still wants
           held : SUBSET Versions]         \* rows the transaction has written

Idle == [pc |-> "idle", op |-> "none", ver |-> 0, dek |-> NoKey,
         todo |-> {}, held |-> {}]

TypeOK ==
  /\ status \in [Versions -> Statuses]
  /\ wrapped \in [Versions -> Keys \cup {NoKey}]
  /\ cache \in [Services -> Entries \cup {NoEntry}]
  /\ call \in [Calls -> Frames]
  /\ issued \in SUBSET Entries

Init ==
  /\ status = [v \in Versions |-> "ABSENT"]
  /\ wrapped = [v \in Versions |-> NoKey]
  /\ cache = [s \in Services |-> NoEntry]
  /\ call = [c \in Calls |-> Idle]
  /\ issued = {}

-----------------------------------------------------------------------------
(* Helpers.  A Slip* definition is the one after it as a plausible mistake *)
(* would have it; the properties are seen to fail with it, and nothing     *)
(* else refers to it.                                                      *)

Rows == {v \in Versions : status[v] # "ABSENT"}
ActiveRows == {v \in Versions : status[v] = "ACTIVE"}

\* Keys nobody holds.  aesGcm.generateKey() is random: it never returns a key
\* that is in use, and a key everybody has dropped is as good as new.
FreshKeys ==
  {k \in Keys : /\ \A v \in Versions : wrapped[v] # k
                /\ \A s \in Services : cache[s].dek # k
                /\ \A c \in Calls : call[c].dek # k
                /\ \A e \in issued : e.dek # k}

\* max('version') answers m, with 0 for the null of an empty table, and
\* generateDek computes the next version from it.
IsMaxVersion(m) == (m = 0 \/ m \in Rows) /\ \A v \in Rows : v <= m
NextVersion(m) == m + 1

\* The unique index on (key_type, version) lets a row of version v in.
SlipIndexAdmits(v) == v \in Versions
IndexAdmits(v) == v \in Versions \ Rows

\* getDek's look at the cache.
SlipCacheServes(c) == cache[SvcOf[c]] # NoEntry
CacheServes(c) == cache[SvcOf[c]].ver = call[c].ver

\* Row v is write-locked by the transaction of a call other than c.
LockedByOther(c, v) == \E d \in Calls \ {c} : v \in call[d].held

\* What the transaction of call c leaves in the table when it commits.
SlipCommitted(c) ==     \* the two UPDATEs swapped
  [v \in Versions |-> IF v \in call[c].held THEN "RETIRED" ELSE status[v]]
Committed(c) ==
  [v \in Versions |->
     IF v \in call[c].held
       THEN IF v = call[c].ver THEN "ACTIVE" ELSE "RETIRED"
       ELSE status[v]]

\* The call returns, or throws: its frame is gone and, if it had a
\* transaction open, the transaction ends and its row locks with it.
SlipReturn(c) ==        \* the transaction left open
  call' = [call EXCEPT ![c] = [Idle EXCEPT !.held = call[c].held]]
Return(c) == call' = [call EXCEPT ![c] = Idle]

\* The call goes on to the await pc, with no transaction open.
Go(c, pc, op, ver, dek) ==
  call' = [call EXCEPT ![c] = [pc |-> pc, op |-> op, ver |-> ver, dek |-> dek,
                               todo |-> {}, held |-> {}]]

\* The same inside the transaction of activateDek.
GoInTransaction(c, pc, todo, held) ==
  call' = [call EXCEPT ![c] = [pc |-> pc, op |-> call[c].op,
                               ver |-> call[c].ver, dek |-> NoKey,
                               todo |-> todo, held |-> held]]

-----------------------------------------------------------------------------
(* encrypt() and getActiveDek().                                           *)

\* The cache has a DEK: getActiveDek returns it and encrypt() uses it, with
\* no look at the table.
EncryptCached(c) ==
  LET s == SvcOf[c] IN
  /\ call[c].pc = "idle"
  /\ cache[s] # NoEntry
  /\ issued' = issued \cup {cache[s]}
  /\ UNCHANGED <<status, wrapped, cache, call>>

EncryptMiss(c) ==
  /\ call[c].pc = "idle"
  /\ cache[SvcOf[c]] = NoEntry
  /\ Go(c, "find", "encrypt", 0, NoKey)
  /\ UNCHANGED <<status, wrapped, cache, issued>>

\* findOne finds an ACTIVE row: any of them, there is no ORDER BY.
FindActive(c) ==
  /\ call[c].pc = "find"
  /\ \E v \in ActiveRows : Go(c, "getDek", "encrypt", v, NoKey)
  /\ UNCHANGED <<status, wrapped, cache, issued>>

\* No ACTIVE row: _bootstrapFirstDek starts with generateDek.
FindNoActive(c) ==
  /\ call[c].pc = "find"
  /\ ActiveRows = {}
  /\ \E k \in FreshKeys : Go(c, "max", "encrypt", 0, k)
  /\ UNCHANGED <<status, wrapped, cache, issued>>

-----------------------------------------------------------------------------
(* getDek(version).                                                        *)

\* decrypt() of an envelope tagged v, and the rotation worker's calls.
DecryptStart(c) ==
  /\ call[c].pc = "idle"
  /\ \E v \in Versions : Go(c, "getDek", "decrypt", v, NoKey)
  /\ UNCHANGED <<status, wrapped, cache, issued>>

GetDekHit(c) ==
  /\ call[c].pc = "getDek"
  /\ CacheServes(c)
  /\ Go(c, "hit", call[c].op, call[c].ver, cache[SvcOf[c]].dek)
  /\ UNCHANGED <<status, wrapped, cache, issued>>

GetDekMiss(c) ==
  /\ call[c].pc = "getDek"
  /\ ~CacheServes(c)
  /\ Go(c, "fetch", call[c].op, call[c].ver, NoKey)
  /\ UNCHANGED <<status, wrapped, cache, issued>>

FetchRow(c) ==
  LET v == call[c].ver IN
  /\ call[c].pc = "fetch"
  /\ v \in Rows
  /\ Go(c, "unwrap", call[c].op, v, wrapped[v])
  /\ UNCHANGED <<status, wrapped, cache, issued>>

\* "no DEK metadata row for version ..."
FetchNoRow(c) ==
  /\ call[c].pc = "fetch"
  /\ call[c].ver \notin Rows
  /\ Return(c)
  /\ UNCHANGED <<status, wrapped, cache, issued>>

\* getDek's answer is here.  For encrypt() it goes into the cache, whatever
\* has happened to the cache or to the row since, and makes an envelope.
GotDek(c) ==
  LET e == [ver |-> call[c].ver, dek |-> call[c].dek] IN
  /\ call[c].pc \in {"unwrap", "hit"}
  /\ IF call[c].op = "encrypt"
       THEN /\ cache' = [cache EXCEPT ![SvcOf[c]] = e]
            /\ issued' = issued \cup {e}
       ELSE UNCHANGED <<cache, issued>>
  /\ Return(c)
  /\ UNCHANGED <<status, wrapped>>

-----------------------------------------------------------------------------
(* generateDek().                                                          *)

GenerateStart(c) ==
  /\ call[c].pc = "idle"
  /\ \E k \in FreshKeys : Go(c, "max", "generate", 0, k)
  /\ UNCHANGED <<status, wrapped, cache, issued>>

ReadMax(c) ==
  /\ call[c].pc = "max"
  /\ \E m \in 0..MaxVersion :
       /\ IsMaxVersion(m)
       /\ Go(c, "create", call[c].op, NextVersion(m), call[c].dek)
  /\ UNCHANGED <<status, wrapped, cache, issued>>

\* The insert commits at once.  The key itself is scrubbed; a bootstrap goes
\* on to activateDek with the version.
Create(c) ==
  LET v == call[c].ver IN
  /\ call[c].pc = "create"
  /\ IndexAdmits(v)
  /\ status' = [status EXCEPT ![v] = "PENDING"]
  /\ wrapped' = [wrapped EXCEPT ![v] = call[c].dek]
  /\ IF call[c].op = "encrypt" THEN Go(c, "retire", "encrypt", v, NoKey)
                               ELSE Return(c)
  /\ UNCHANGED <<cache, issued>>

\* The index refuses the row: another call has read the same maximum.
\* Versions above the bound MaxVersion are refused too.
CreateRefused(c) ==
  /\ call[c].pc = "create"
  /\ ~IndexAdmits(call[c].ver)
  /\ Return(c)
  /\ UNCHANGED <<status, wrapped, cache, issued>>

-----------------------------------------------------------------------------
(* activateDek(version).                                                   *)

ActivateStart(c) ==
  /\ call[c].pc = "idle"
  /\ \E v \in Versions : Go(c, "retire", "activate", v, NoKey)
  /\ UNCHANGED <<status, wrapped, cache, issued>>

\* The first UPDATE takes its snapshot: the rows committed as ACTIVE.
RetireSnapshot(c) ==
  /\ call[c].pc = "retire"
  /\ GoInTransaction(c, "locking", ActiveRows, {})
  /\ UNCHANGED <<status, wrapped, cache, issued>>

\* It gets the lock of one of them and looks at it again: a row another
\* transaction has retired in the meantime no longer matches.
RetireRow(c) ==
  /\ call[c].pc = "locking"
  /\ \E v \in call[c].todo :
       /\ ~LockedByOther(c, v)
       /\ GoInTransaction(c, "locking", call[c].todo \ {v},
                          call[c].held \cup ({v} \cap ActiveRows))
  /\ UNCHANGED <<status, wrapped, cache, issued>>

\* The second UPDATE, of the row to activate.
ActivateRow(c) ==
  LET v == call[c].ver IN
  /\ call[c].pc = "locking"
  /\ call[c].todo = {}
  /\ v \in Rows
  /\ ~LockedByOther(c, v)
  /\ GoInTransaction(c, "commit", {}, call[c].held \cup {v})
  /\ UNCHANGED <<status, wrapped, cache, issued>>

\* It matched no row: activateDek throws, and the transaction rolls back.
ActivateNoRow(c) ==
  /\ call[c].pc = "locking"
  /\ call[c].todo = {}
  /\ call[c].ver \notin Rows
  /\ Return(c)
  /\ UNCHANGED <<status, wrapped, cache, issued>>

Commit(c) ==
  /\ call[c].pc = "commit"
  /\ status' = Committed(c)
  /\ Go(c, "invalidate", call[c].op, call[c].ver, NoKey)
  /\ UNCHANGED <<wrapped, cache, issued>>

\* _activeDekCache = null; then activateDek returns, to _bootstrapFirstDek
\* and getActiveDek if that is where it came from.
Invalidate(c) ==
  /\ call[c].pc = "invalidate"
  /\ cache' = [cache EXCEPT ![SvcOf[c]] = NoEntry]
  /\ IF call[c].op = "encrypt"
       THEN Go(c, "getDek", "encrypt", call[c].ver, NoKey)
       ELSE Return(c)
  /\ UNCHANGED <<status, wrapped, issued>>

-----------------------------------------------------------------------------
(* Faults.                                                                 *)

\* A statement or a provider call fails: the call throws, and a transaction
\* that is open rolls back.
Fail(c) ==
  /\ "failure" \in Faults
  /\ call[c].pc \in {"find", "max", "create", "retire", "locking", "commit",
                     "fetch", "unwrap"}
  /\ Return(c)
  /\ UNCHANGED <<status, wrapped, cache, issued>>

\* The row is inserted, but the connection dies before the answer: generateDek
\* throws, and its PENDING row stays.
CreateAckLost(c) ==
  LET v == call[c].ver IN
  /\ "ackLost" \in Faults
  /\ call[c].pc = "create"
  /\ IndexAdmits(v)
  /\ status' = [status EXCEPT ![v] = "PENDING"]
  /\ wrapped' = [wrapped EXCEPT ![v] = call[c].dek]
  /\ Return(c)
  /\ UNCHANGED <<cache, issued>>

\* The transaction commits, but the connection dies before the answer:
\* activateDek throws where it stands, before the line that clears the cache.
CommitAckLost(c) ==
  /\ "ackLost" \in Faults
  /\ call[c].pc = "commit"
  /\ status' = Committed(c)
  /\ Return(c)
  /\ UNCHANGED <<wrapped, cache, issued>>

\* The process of service s dies and starts again: cache and calls are gone,
\* PostgreSQL rolls their transactions back.
Restart(s) ==
  /\ "restart" \in Faults
  /\ cache' = [cache EXCEPT ![s] = NoEntry]
  /\ call' = [c \in Calls |-> IF SvcOf[c] = s THEN Idle ELSE call[c]]
  /\ UNCHANGED <<status, wrapped, issued>>

\* Call c waits for a row that call d has locked.
WaitsFor(c, d) ==
  /\ c # d
  /\ call[c].pc = "locking"
  /\ \/ call[c].todo \cap call[d].held # {}
     \/ call[c].todo = {} /\ call[c].ver \in call[d].held

\* Calls that wait for each other in a circle: PostgreSQL's deadlock detector
\* aborts one of the transactions, and its call throws.
DeadlockVictim(c) ==
  /\ \E D \in SUBSET Calls :
       /\ c \in D
       /\ \A d \in D : \E e \in D : WaitsFor(d, e)
  /\ Return(c)
  /\ UNCHANGED <<status, wrapped, cache, issued>>

-----------------------------------------------------------------------------

\* A caller asks for something.
Start(c) ==
  EncryptCached(c) \/ EncryptMiss(c) \/ DecryptStart(c) \/ GenerateStart(c)
    \/ ActivateStart(c)

\* A call goes on from the await it is suspended at.
Continue(c) ==
  \/ FindActive(c) \/ FindNoActive(c)
  \/ GetDekHit(c) \/ GetDekMiss(c) \/ FetchRow(c) \/ FetchNoRow(c) \/ GotDek(c)
  \/ ReadMax(c) \/ Create(c) \/ CreateRefused(c)
  \/ RetireSnapshot(c) \/ RetireRow(c) \/ ActivateRow(c) \/ ActivateNoRow(c)
  \/ Commit(c) \/ Invalidate(c)
  \/ DeadlockVictim(c)

Next ==
  \/ \E c \in Calls : \/ Start(c) \/ Continue(c)
                     \/ Fail(c) \/ CreateAckLost(c) \/ CommitAckLost(c)
  \/ \E s \in Services : Restart(s)

Spec == Init /\ [][Next]_vars

\* A promise in flight is settled: the event loop and the database serve
\* every call, and the lock queue of PostgreSQL is first come, first served,
\* so a waiting call is not passed over for ever (hence the strong fairness).
FairSpec == Spec /\ \A c \in Calls : SF_vars(Continue(c))

-----------------------------------------------------------------------------
(* Properties.                                                             *)

\* Versions that have been activated at some time.
EverActive(v) == status[v] \in {"ACTIVE", "RETIRED"}

\* Every envelope encrypt() has ever returned can be decrypted: its version
\* has a row, and unwrapping that row gives the very key of the ciphertext,
\* however generateDek, the caches, failures and restarts interleave.  Every
\* key a service has cached or is about to use agrees with its row as well.
EnvelopesDecryptable ==
  /\ \A e \in issued : e.ver \in Rows /\ wrapped[e.ver] = e.dek
  /\ \A s \in Services :
       cache[s] # NoEntry => wrapped[cache[s].ver] = cache[s].dek
  /\ \A c \in Calls :
       call[c].pc \in {"unwrap", "hit"} => wrapped[call[c].ver] = call[c].dek

\* No envelope carries a version that is still PENDING: generateDek's comment
\* promises that new writes keep off a version until it is activated.
OnlyActivatedKeysEncrypt == \A e \in issued : EverActive(e.ver)

\* Once some version has been activated there is an ACTIVE one, whatever
\* activations race, fail or die halfway: otherwise the next getActiveDek
\* would take the installation for a fresh one and bootstrap a new key.
ActiveNeverLost == (\E v \in Versions : EverActive(v)) => ActiveRows # {}

\* activateDek: "marks it ACTIVE and retires whatever was ACTIVE before it".
SingleActive == Cardinality(ActiveRows) <= 1

\* "force re-fetch/unwrap of the new active DEK next time": unless one of
\* its calls is just about to clear the cache, a service has cached nothing
\* but an ACTIVE version.
CacheHoldsTheActiveDek ==
  \A s \in Services :
    (\A c \in Calls : SvcOf[c] = s => call[c].pc # "invalidate")
      => cache[s] = NoEntry \/ status[cache[s].ver] = "ACTIVE"

\* A row is never deleted, never gets other key material, and never goes back
\* to PENDING; a PENDING row is never retired without having been ACTIVE.
RowsAreKept ==
  [][\A v \in Rows : /\ wrapped'[v] = wrapped[v]
                     /\ status'[v] # "ABSENT"
                     /\ status'[v] = "PENDING" => status[v] = "PENDING"
                     /\ status'[v] = "RETIRED" => status[v] # "PENDING"]_vars

\* The service implements the DEK table it promises.
Table == INSTANCE DekTable WITH
  Keys <- Keys, NoKey <- NoKey, MaxVersion <- MaxVersion,
  status <- status, wrapped <- wrapped, issued <- issued
Implements == Table!Spec

\* No call waits for ever: not for a row lock another call holds, not for a
\* call that waits for it in turn.
CallsReturn == \A c \in Calls : call[c].pc # "idle" ~> call[c].pc = "idle"

=============================================================================
