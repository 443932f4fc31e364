----------------------------- MODULE KekProvider -----------------------------
(***************************************************************************)
(* Key-encryption keys (KEKs): encryption.config.js, the providers         *)
(* (env.provider.js, kms.provider.js), and KeyService as the one who asks  *)
(* them to wrap and unwrap DEKs, while the operator deploys processes with *)
(* changing environments.                                                  *)
(*                                                                         *)
(* A KEK is 32 bytes of the environment or a key of the vendor's KMS; a    *)
(* wrapped DEK opens under the KEK that wrapped it and throws under any    *)
(* other.  Each call of KeyService is one step here, its interleavings are *)
(* in KeyService; a DEK is the version of its row.                         *)
(***************************************************************************)
EXTENDS Integers

CONSTANTS
  Processes,
  Keks,           \* KEK material, and key ids of a vendor: none is both
  NoKek,
  MaxKekVersion,  \* bound: KEK version labels in use
  Environments,   \* what processes are started with
  MaxVersion      \* bound: DEK versions

KekVersions == 1..MaxKekVersion
Versions == 1..MaxVersion

\* ENCRYPTION_KEK_VERSION, the KEK (or KMS key id) of the environment, and the
\* legacyKeys (or keyIdsByVersion) handed to the provider.
EnvironmentType == [provider : {"env", "kms"}, kekVersion : KekVersions,
                    kek : Keks, others : [KekVersions -> Keks \cup {NoKek}]]

ASSUME NoKekAssumption == NoKek \notin Keks
ASSUME EnvironmentsAssumption == Environments \subseteq EnvironmentType
ASSUME BoundsAssumption == MaxKekVersion \in Nat /\ MaxVersion \in Nat

VARIABLES
  env,      \* env[p]: the environment process p was started with
  row,      \* row[d]: status of DEK version d, and the KEK that wrapped it;
            \* `under`, the KEK version meant, is history: no column has it
  cache,    \* cache[p]: the DEK version p has cached, or 0
  issued,   \* history: the DEK versions envelopes were made with
  past,     \* history: the environments deployed so far
  boots     \* history: the bootstraps so far

vars == <<env, row, cache, issued, past, boots>>

RowType == [status : {"PENDING", "ACTIVE", "RETIRED"},
            kek : Keks, under : KekVersions]
NoRow == [status |-> "ABSENT", kek |-> NoKek, under |-> 0]

TypeOK ==
  /\ env \in [Processes -> Environments]
  /\ row \in [Versions -> RowType \cup {NoRow}]
  /\ cache \in [Processes -> Versions \cup {0}]
  /\ issued \in SUBSET Versions
  /\ past \in SUBSET Environments
  /\ boots \in 0..MaxVersion

\* All processes of the first deployment have the same environment.
Init ==
  /\ \E e \in Environments : env = [p \in Processes |-> e] /\ past = {e}
  /\ row = [d \in Versions |-> NoRow]
  /\ cache = [p \in Processes |-> 0]
  /\ issued = {}
  /\ boots = 0

-----------------------------------------------------------------------------
(* The providers.                                                          *)

\* The KEKs by version a provider is constructed with.
Given(e) == {v \in KekVersions : e.others[v] # NoKek}
Configured(e) == [v \in KekVersions |-> IF v = e.kekVersion THEN e.kek ELSE NoKek]

\* The configured KEK, and the legacyKeys over it.
EnvKeyring(e) ==
  [v \in KekVersions |-> IF v \in Given(e) THEN e.others[v] ELSE Configured(e)[v]]

\* keyIdsByVersion, or the configured key id when there is none.
KmsKeyring(e) == IF Given(e) = {} THEN Configured(e) ELSE e.others

Keyring(e) == IF e.provider = "kms" THEN KmsKeyring(e) ELSE EnvKeyring(e)

\* The KEK that KeyService has the provider wrap with, and unwrap row d with:
\* in both cases the one of the configured version.
ActiveKek(e) == Keyring(e)[e.kekVersion]
WrapKek(p) == ActiveKek(env[p])
SlipUnwrapKek(p, d) ==          \* the version the row was wrapped under
  IF row[d].under = 0 THEN NoKek ELSE Keyring(env[p])[row[d].under]
UnwrapKek(p, d) == WrapKek(p)

\* wrapKey does not throw: the provider has a KEK of the configured version.
SlipWraps(p) == TRUE            \* wraps with nothing instead
Wraps(p) == WrapKek(p) # NoKek

\* unwrapKey returns the DEK of row d, and does not throw.
Opens(p, d) == row[d] # NoRow /\ UnwrapKek(p, d) = row[d].kek

\* getDek(d) returns.
Reads(p, d) == cache[p] = d \/ Opens(p, d)

-----------------------------------------------------------------------------
(* KeyService.                                                             *)

ActiveRows == {d \in Versions : row[d].status = "ACTIVE"}
NextRow(d) == row[d] = NoRow /\ \A u \in Versions : u < d => row[u] # NoRow
Wrapped(p, status) ==
  [status |-> status, kek |-> WrapKek(p), under |-> env[p].kekVersion]

\* encrypt() with a DEK in the cache, or after fetching the ACTIVE one.  When
\* the ACTIVE row does not open it throws.
Encrypt(p) ==
  /\ \E d \in Versions :
       /\ cache[p] = d \/ (cache[p] = 0 /\ d \in ActiveRows /\ Opens(p, d))
       /\ cache' = [cache EXCEPT ![p] = d]
       /\ issued' = issued \cup {d}
  /\ UNCHANGED <<env, row, past, boots>>

SlipLooksFresh(p) == \A d \in ActiveRows : ~Opens(p, d)  \* error taken for no row
LooksFresh(p) == ActiveRows = {}

\* encrypt() of a fresh installation: mint, activate, fetch.
Bootstrap(p) ==
  /\ cache[p] = 0
  /\ LooksFresh(p)
  /\ Wraps(p)
  /\ \E d \in Versions :
       /\ NextRow(d)
       /\ row' = [row EXCEPT ![d] = Wrapped(p, "ACTIVE")]
       /\ cache' = [cache EXCEPT ![p] = d]
       /\ issued' = issued \cup {d}
  /\ boots' = boots + 1
  /\ UNCHANGED <<env, past>>

Generate(p) ==
  /\ Wraps(p)
  /\ \E d \in Versions :
       /\ NextRow(d)
       /\ row' = [row EXCEPT ![d] = Wrapped(p, "PENDING")]
  /\ UNCHANGED <<env, cache, issued, past, boots>>

\* Nothing is unwrapped: any process activates any row.
Activate(p) ==
  /\ \E d \in Versions :
       /\ row[d] # NoRow
       /\ row' = [u \in Versions |->
            IF u = d THEN [row[u] EXCEPT !.status = "ACTIVE"]
            ELSE IF u \in ActiveRows THEN [row[u] EXCEPT !.status = "RETIRED"]
            ELSE row[u]]
  /\ cache' = [cache EXCEPT ![p] = 0]
  /\ UNCHANGED <<env, issued, past, boots>>

\* The operator restarts p, with the same environment or another: the config
\* and the keys are read once, and the cache is empty.
Deploy(p) ==
  /\ \E e \in Environments :
       /\ env' = [env EXCEPT ![p] = e]
       /\ past' = past \cup {e}
  /\ cache' = [cache EXCEPT ![p] = 0]
  /\ UNCHANGED <<row, issued, boots>>

Next ==
  \E p \in Processes :
    Encrypt(p) \/ Bootstrap(p) \/ Generate(p) \/ Activate(p) \/ Deploy(p)

Spec == Init /\ [][Next]_vars

-----------------------------------------------------------------------------
(* Properties.                                                             *)

\* As long as the operator changes version labels and adds keys, but not the
\* KEK that is the active one, every process reads every envelope, in the
\* middle of a rolling deployment too.
SameKekReads ==
  (\A e, f \in past : ActiveKek(e) = ActiveKek(f))
    => \A p \in Processes : \A d \in issued : Reads(p, d)

\* A KEK that does not open the ACTIVE row makes encrypt() throw; it never
\* makes an installation with data look like a fresh one, to be bootstrapped
\* again under that KEK.  (Two first calls that race are KeyService's business.)
BootstrapsOnce == boots <= 1

\* "Supply it via legacyKeys to decrypt data wrapped under that version": a
\* process that was given the KEK of a row, at the version the row was wrapped
\* under, reads that row.
SuppliedKeksOpenTheirRows ==
  \A p \in Processes : \A d \in Versions :
    row[d] # NoRow /\ Keyring(env[p])[row[d].under] = row[d].kek
      => Reads(p, d)

=============================================================================
