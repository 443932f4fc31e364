------------------------------ MODULE DekTable ------------------------------
(***************************************************************************)
(* What the key service promises the rest of the system about data-        *)
(* encryption keys (DEKs), with no word about caches, transactions or      *)
(* processes: the `encryption_keys` table seen as one row per version, and *)
(* the (version, key) pairs some caller has encrypted an envelope under.   *)
(* KeyService implements this specification (see KeyService!Implements).   *)
(*                                                                         *)
(* Several versions may be ACTIVE at once: the code serialises nothing     *)
(* between two activations, so an activation promises only to leave its    *)
(* own version ACTIVE and to retire versions that were.                    *)
(***************************************************************************)
EXTENDS Integers

CONSTANTS
  Keys,         \* DEK material; a member stands for 32 random bytes
  NoKey,        \* the material of a version that has no row
  MaxVersion    \* bound: versions above it are never minted

Versions == 1..MaxVersion
Statuses == {"ABSENT", "PENDING", "ACTIVE", "RETIRED"}

\* An envelope, reduced to what decides whether it can be read back: the
\* keyVersion tag it carries and the key its ciphertext was made with.
Envelopes == [ver : Versions, dek : Keys]

VARIABLES
  status,    \* status[v]: KEY_STATUS of the row of version v, or "ABSENT"
  wrapped,   \* wrapped[v]: the key that unwrapping row v yields
  issued     \* the envelopes written so far

vars == <<status, wrapped, issued>>

TypeOK ==
  /\ status \in [Versions -> Statuses]
  /\ wrapped \in [Versions -> Keys \cup {NoKey}]
  /\ issued \in SUBSET Envelopes

Init ==
  /\ status = [v \in Versions |-> "ABSENT"]
  /\ wrapped = [v \in Versions |-> NoKey]
  /\ issued = {}

\* A new version gets a key no other version has, and waits as PENDING.
Mint(v, k) ==
  /\ status[v] = "ABSENT"
  /\ \A w \in Versions : wrapped[w] # k
  /\ status' = [status EXCEPT ![v] = "PENDING"]
  /\ wrapped' = [wrapped EXCEPT ![v] = k]
  /\ UNCHANGED issued

\* Version v becomes ACTIVE; the ACTIVE versions in gone become RETIRED.
Activate(v, gone) ==
  /\ status[v] # "ABSENT"
  /\ \A w \in gone : status[w] = "ACTIVE"
  /\ status' = [w \in Versions |->
                  CASE w = v                 -> "ACTIVE"
                    [] w \in gone /\ w # v   -> "RETIRED"
                    [] OTHER                 -> status[w]]
  /\ UNCHANGED <<wrapped, issued>>

\* Somebody encrypts: under the row's own key, and under a version that has
\* been activated at some time.
Issue(v) ==
  /\ status[v] \in {"ACTIVE", "RETIRED"}
  /\ issued' = issued \cup {[ver |-> v, dek |-> wrapped[v]]}
  /\ UNCHANGED <<status, wrapped>>

Next ==
  \E v \in Versions :
    \/ \E k \in Keys : Mint(v, k)
    \/ \E gone \in SUBSET Versions : Activate(v, gone)
    \/ Issue(v)

Spec == Init /\ [][Next]_vars

=============================================================================
