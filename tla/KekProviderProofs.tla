-------------------------- MODULE KekProviderProofs --------------------------
(***************************************************************************)
(* The safety of KekProvider, for any number of processes, KEKs, versions  *)
(* and deployments.                                                        *)
(*                                                                         *)
(* That every process can read needs two things of Inv that the property   *)
(* does not say: a row was wrapped with the active KEK of a deployment     *)
(* there has been, and an envelope in circulation, or a DEK in a cache,    *)
(* has its row.  That there is one bootstrap needs that an ACTIVE row is   *)
(* there ever after.                                                       *)
(***************************************************************************)
EXTENDS KekProvider, TLAPS

Deployed == \A p \in Processes : env[p] \in past
RowsWrapped ==
  \A d \in Versions : row[d] # NoRow => \E e \in past : row[d].kek = ActiveKek(e)
HaveRows ==
  /\ \A d \in issued : row[d] # NoRow
  /\ \A p \in Processes : cache[p] # 0 => row[cache[p]] # NoRow
BootedOnce == boots = 0 \/ (boots = 1 /\ ActiveRows # {})

Inv == TypeOK /\ Deployed /\ RowsWrapped /\ HaveRows /\ BootedOnce

LEMMA RowTypes ==
  ASSUME TypeOK, NEW d \in Versions
  PROVE  /\ row[d] \in RowType \cup {NoRow}
         /\ row[d] = NoRow <=> row[d].status = "ABSENT"
<1>1. row[d] \in RowType \cup {NoRow}
  BY DEF TypeOK
<1>2. NoRow.status = "ABSENT" /\ \A x \in RowType : x.status # "ABSENT"
  BY DEF NoRow, RowType
<1> QED
  BY <1>1, <1>2

\* A provider answers with one of the KEKs there are, or with none.
LEMMA KeyringType ==
  ASSUME NEW e \in Environments
  PROVE  /\ e.kekVersion \in KekVersions
         /\ ActiveKek(e) \in Keks \cup {NoKek}
<1>1. /\ e.kekVersion \in KekVersions /\ e.kek \in Keks
      /\ e.others \in [KekVersions -> Keks \cup {NoKek}]
  BY EnvironmentsAssumption DEF EnvironmentType
<1>2. Configured(e) \in [KekVersions -> Keks \cup {NoKek}]
  BY <1>1 DEF Configured
<1>3. EnvKeyring(e) \in [KekVersions -> Keks \cup {NoKek}]
  BY <1>1, <1>2 DEF EnvKeyring
<1>4. KmsKeyring(e) \in [KekVersions -> Keks \cup {NoKek}]
  BY <1>1, <1>2 DEF KmsKeyring
<1> QED
  BY <1>1, <1>3, <1>4 DEF ActiveKek, Keyring

LEMMA WrappedType ==
  ASSUME TypeOK, NEW p \in Processes, Wraps(p),
         NEW status \in {"PENDING", "ACTIVE", "RETIRED"}
  PROVE  /\ Wrapped(p, status) \in RowType
         /\ Wrapped(p, status) # NoRow
         /\ Wrapped(p, status).kek = ActiveKek(env[p])
         /\ Wrapped(p, status).status = status
<1>1. env[p] \in Environments
  BY DEF TypeOK
<1>2. WrapKek(p) \in Keks /\ env[p].kekVersion \in KekVersions
  BY <1>1, KeyringType DEF WrapKek, Wraps
<1>3. /\ Wrapped(p, status) \in RowType
      /\ Wrapped(p, status).kek = WrapKek(p)
      /\ Wrapped(p, status).status = status
  BY <1>2 DEF Wrapped, RowType
<1>4. Wrapped(p, status) # NoRow
  BY <1>3 DEF NoRow
<1> QED
  BY <1>3, <1>4 DEF WrapKek

-----------------------------------------------------------------------------

LEMMA InitInv ==
  ASSUME Init
  PROVE  Inv
<1>1. TypeOK
  BY BoundsAssumption DEF Init, TypeOK
<1>2. Deployed /\ RowsWrapped /\ HaveRows /\ BootedOnce
  BY DEF Init, Deployed, RowsWrapped, HaveRows, BootedOnce
<1> QED
  BY <1>1, <1>2 DEF Inv

\* A new row, wrapped with the KEK of p, where there was none.
LEMMA NewRow ==
  ASSUME Inv, NEW p \in Processes, Wraps(p), NEW d \in Versions, row[d] = NoRow,
         NEW status \in {"PENDING", "ACTIVE", "RETIRED"},
         row' = [row EXCEPT ![d] = Wrapped(p, status)]
  PROVE  /\ row' \in [Versions -> RowType \cup {NoRow}]
         /\ row'[d] # NoRow /\ row'[d].kek = ActiveKek(env[p])
         /\ row'[d].status = status
         /\ \A u \in Versions \ {d} : row'[u] = row[u]
         /\ d \notin ActiveRows
<1>1. TypeOK
  BY DEF Inv
<1>2. d \notin ActiveRows
  BY DEF ActiveRows, NoRow
<1> QED
  BY <1>1, <1>2, WrappedType DEF TypeOK

LEMMA EncryptInv ==
  ASSUME Inv, NEW p \in Processes, Encrypt(p)
  PROVE  Inv'
<1>1. PICK d \in Versions :
        /\ cache[p] = d \/ (cache[p] = 0 /\ d \in ActiveRows /\ Opens(p, d))
        /\ cache' = [cache EXCEPT ![p] = d]
        /\ issued' = issued \cup {d}
  BY DEF Encrypt
<1>2. UNCHANGED <<env, row, past, boots>>
  BY DEF Encrypt
<1>3. d # 0
  BY DEF Versions
<1>4. row[d] # NoRow
  BY <1>1, <1>3 DEF Inv, HaveRows, Opens
<1>5. TypeOK'
  BY <1>1, <1>2 DEF Inv, TypeOK
<1>6. HaveRows'
  BY <1>1, <1>2, <1>4 DEF Inv, HaveRows, TypeOK
<1>7. Deployed' /\ RowsWrapped' /\ BootedOnce'
  BY <1>2 DEF Inv, Deployed, RowsWrapped, BootedOnce, ActiveRows
<1> QED
  BY <1>5, <1>6, <1>7 DEF Inv

LEMMA BootstrapInv ==
  ASSUME Inv, NEW p \in Processes, Bootstrap(p)
  PROVE  Inv'
<1>1. PICK d \in Versions :
        /\ row[d] = NoRow
        /\ row' = [row EXCEPT ![d] = Wrapped(p, "ACTIVE")]
        /\ cache' = [cache EXCEPT ![p] = d]
        /\ issued' = issued \cup {d}
  BY DEF Bootstrap, NextRow
<1>2. UNCHANGED <<env, past>> /\ boots' = boots + 1 /\ ActiveRows = {} /\ Wraps(p)
  BY DEF Bootstrap, LooksFresh
<1>3. /\ row' \in [Versions -> RowType \cup {NoRow}]
      /\ row'[d] # NoRow /\ row'[d].kek = ActiveKek(env[p])
      /\ row'[d].status = "ACTIVE"
      /\ \A u \in Versions \ {d} : row'[u] = row[u]
  BY <1>1, <1>2, NewRow
<1>4. boots' = 1 /\ 1 \in 0..MaxVersion
  BY <1>1, <1>2, BoundsAssumption DEF Inv, BootedOnce, Versions
<1>5. TypeOK'
  BY <1>1, <1>2, <1>3, <1>4 DEF Inv, TypeOK
<1>6. Deployed' /\ RowsWrapped'
  BY <1>1, <1>2, <1>3 DEF Inv, Deployed, RowsWrapped
<1>7. HaveRows'
  BY <1>1, <1>3 DEF Inv, HaveRows, TypeOK
<1>8. BootedOnce'
  BY <1>1, <1>3, <1>4 DEF BootedOnce, ActiveRows
<1> QED
  BY <1>5, <1>6, <1>7, <1>8 DEF Inv

LEMMA GenerateInv ==
  ASSUME Inv, NEW p \in Processes, Generate(p)
  PROVE  Inv'
<1>1. PICK d \in Versions :
        row[d] = NoRow /\ row' = [row EXCEPT ![d] = Wrapped(p, "PENDING")]
  BY DEF Generate, NextRow
<1>2. UNCHANGED <<env, cache, issued, past, boots>> /\ Wraps(p)
  BY DEF Generate
<1>3. /\ row' \in [Versions -> RowType \cup {NoRow}]
      /\ row'[d] # NoRow /\ row'[d].kek = ActiveKek(env[p])
      /\ \A u \in Versions \ {d} : row'[u] = row[u]
      /\ d \notin ActiveRows
  BY <1>1, <1>2, NewRow
<1>4. TypeOK'
  BY <1>2, <1>3 DEF Inv, TypeOK
<1>5. Deployed' /\ RowsWrapped'
  BY <1>2, <1>3 DEF Inv, Deployed, RowsWrapped
<1>6. HaveRows'
  BY <1>2, <1>3 DEF Inv, HaveRows, TypeOK
<1>7. BootedOnce'
  BY <1>2, <1>3 DEF Inv, BootedOnce, ActiveRows
<1> QED
  BY <1>4, <1>5, <1>6, <1>7 DEF Inv

LEMMA ActivateInv ==
  ASSUME Inv, NEW p \in Processes, Activate(p)
  PROVE  Inv'
<1>1. PICK d \in Versions :
        /\ row[d] # NoRow
        /\ row' = [u \in Versions |->
             IF u = d THEN [row[u] EXCEPT !.status = "ACTIVE"]
             ELSE IF u \in ActiveRows THEN [row[u] EXCEPT !.status = "RETIRED"]
             ELSE row[u]]
  BY DEF Activate
<1>2. UNCHANGED <<env, issued, past, boots>> /\ cache' = [cache EXCEPT ![p] = 0]
  BY DEF Activate
<1>3. TypeOK
  BY DEF Inv
<1>4. ASSUME NEW u \in Versions, row[u] # NoRow,
             NEW status \in {"ACTIVE", "RETIRED"}
      PROVE  /\ [row[u] EXCEPT !.status = status] \in RowType
             /\ [row[u] EXCEPT !.status = status].kek = row[u].kek
             /\ [row[u] EXCEPT !.status = status].status = status
  BY <1>3, <1>4, RowTypes DEF RowType
<1>5. \A u \in ActiveRows : row[u] # NoRow
  BY DEF ActiveRows, NoRow
<1>6. \A u \in Versions :
        \/ row'[u] = row[u]
        \/ row[u] # NoRow /\ row'[u] \in RowType /\ row'[u].kek = row[u].kek
  BY <1>1, <1>4, <1>5
<1>7. \A x \in RowType : x # NoRow
  BY DEF RowType, NoRow
<1>8. row' \in [Versions -> RowType \cup {NoRow}]
  <2>1. \A u \in Versions : row'[u] \in RowType \cup {NoRow}
    BY <1>3, <1>6, RowTypes
  <2>2. row' = [u \in Versions |-> row'[u]]
    BY <1>1
  <2> QED
    BY <2>1, <2>2
<1>9. TypeOK'
  BY <1>2, <1>3, <1>8 DEF TypeOK
<1>10. Deployed' /\ RowsWrapped'
  BY <1>2, <1>6 DEF Inv, Deployed, RowsWrapped
<1>11. HaveRows'
  <2>1. \A u \in Versions : row[u] # NoRow => row'[u] # NoRow
    BY <1>6, <1>7
  <2> QED
    BY <1>2, <2>1 DEF Inv, HaveRows, TypeOK
<1>12. BootedOnce'
  <2>1. row'[d].status = "ACTIVE"
    BY <1>1, <1>4
  <2> QED
    BY <1>1, <1>2, <2>1 DEF Inv, BootedOnce, ActiveRows
<1> QED
  BY <1>9, <1>10, <1>11, <1>12 DEF Inv

LEMMA DeployInv ==
  ASSUME Inv, NEW p \in Processes, Deploy(p)
  PROVE  Inv'
<1>1. PICK e \in Environments :
        env' = [env EXCEPT ![p] = e] /\ past' = past \cup {e}
  BY DEF Deploy
<1>2. UNCHANGED <<row, issued, boots>> /\ cache' = [cache EXCEPT ![p] = 0]
  BY DEF Deploy
<1>3. TypeOK'
  BY <1>1, <1>2 DEF Inv, TypeOK
<1>4. Deployed'
  BY <1>1 DEF Inv, Deployed, TypeOK
<1>5. RowsWrapped'
  BY <1>1, <1>2 DEF Inv, RowsWrapped
<1>6. HaveRows' /\ BootedOnce'
  BY <1>2 DEF Inv, HaveRows, BootedOnce, ActiveRows, TypeOK
<1> QED
  BY <1>3, <1>4, <1>5, <1>6 DEF Inv

LEMMA NextInv ==
  ASSUME Inv, [Next]_vars
  PROVE  Inv'
<1>1. CASE UNCHANGED vars
  BY <1>1 DEF vars, Inv, TypeOK, Deployed, RowsWrapped, HaveRows, BootedOnce,
     ActiveRows
<1> QED
  BY <1>1, EncryptInv, BootstrapInv, GenerateInv, ActivateInv, DeployInv DEF Next

LEMMA Invariance == Spec => []Inv
<1>1. Init => Inv
  BY InitInv
<1>2. Inv /\ [Next]_vars => Inv'
  BY NextInv
<1> QED
  BY <1>1, <1>2, PTL DEF Spec

-----------------------------------------------------------------------------

\* TypeOK: every row of encryption_keys was wrapped with a KEK there is, by a
\* provider configured with one; nothing is wrapped with no key.
THEOREM TypeCorrect == Spec => []TypeOK
<1>1. Inv => TypeOK
  BY DEF Inv
<1> QED
  BY <1>1, Invariance, PTL

\* SameKekReads: getDek of KeyService opens every DEK that an envelope was made
\* with, in every process and throughout any sequence of restarts, as long as
\* the environments deployed agree on the active KEK, whatever version labels
\* and further keys they have.
THEOREM SameKekIsEnough == Spec => []SameKekReads
<1>1. ASSUME Inv, \A e, f \in past : ActiveKek(e) = ActiveKek(f),
             NEW p \in Processes, NEW d \in issued
      PROVE  Reads(p, d)
  <2>1. d \in Versions /\ row[d] # NoRow
    BY <1>1 DEF Inv, TypeOK, HaveRows
  <2>2. PICK e \in past : row[d].kek = ActiveKek(e)
    BY <1>1, <2>1 DEF Inv, RowsWrapped
  <2>3. env[p] \in past
    BY <1>1 DEF Inv, Deployed
  <2>4. ActiveKek(env[p]) = row[d].kek
    BY <1>1, <2>2, <2>3
  <2> QED
    BY <2>1, <2>4 DEF Reads, Opens, UnwrapKek, WrapKek
<1>2. Inv => SameKekReads
  BY <1>1 DEF SameKekReads
<1> QED
  BY <1>2, Invariance, PTL

\* BootstrapsOnce: with any number of deployments and KEKs, encrypt() takes an
\* installation for a fresh one at most once; a KEK that does not open the
\* ACTIVE row is an error and never a reason to mint another.
THEOREM OneBootstrap == Spec => []BootstrapsOnce
<1>1. Inv => BootstrapsOnce
  BY DEF Inv, BootedOnce, BootstrapsOnce
<1> QED
  BY <1>1, Invariance, PTL

=============================================================================
