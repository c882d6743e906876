------------------------- MODULE CredentialsProofs -------------------------
(***************************************************************************)
(* The safety of the credential rows, for any number of concurrent         *)
(* imports, keys and credentials in the environment.                       *)
(***************************************************************************)
EXTENDS Credentials, TLAPS

CredentialsNext == RequestNext \/ \E k \in Keys : Restart(k)

\* Nothing is known of an import before its listing.
IdleImportsAreBlank ==
    \A i \in Imports : importing[i] = "idle" => imported[i] = {} /\ touchedSince[i] = {}

\* A row the user owns was there when an import of it was listed, or was saved
\* since.
OwnRowsAreKnown ==
    \A i \in Imports, b \in Brokers :
        importing[i] \in Brokers /\ rows[b] # NoRow /\ rows[b].value = "own"
            => b \in already[i] \union touchedSince[i]

CInv == CredentialsTypeOK /\ IdleImportsAreBlank /\ OwnRowsAreKnown /\ ReportedImportsHappened

USE CredentialsAssumption DEF CInv, credentialVars, importVars, Seal

-----------------------------------------------------------------------------
LEMMA InitCInv == CredentialsInit => CInv
BY DEF CredentialsInit, CredentialsTypeOK, IdleImportsAreBlank, OwnRowsAreKnown,
   ReportedImportsHappened, Brokers

\* A save or a deletion is remembered by every import under way.
LEMMA TouchInv ==
    ASSUME CInv, NEW b \in Brokers, Touch(b), NEW row \in Row \union {NoRow},
           rows' = [rows EXCEPT ![b] = row],
           UNCHANGED <<key, importing, already, imported>>
    PROVE  CInv'
<1>1. \A i \in Imports : touchedSince'[i] = touchedSince[i] \union IF importing[i] = "idle" THEN {} ELSE {b}
  BY DEF Touch
<1>2. CredentialsTypeOK'
  BY DEF CredentialsTypeOK, Touch
<1>3. IdleImportsAreBlank'
  BY <1>1 DEF IdleImportsAreBlank
<1>4. OwnRowsAreKnown'
  BY <1>1 DEF OwnRowsAreKnown, CredentialsTypeOK, Brokers
<1>5. ReportedImportsHappened'
  BY <1>1 DEF ReportedImportsHappened, IdleImportsAreBlank, CredentialsTypeOK
<1> QED
  BY <1>2, <1>3, <1>4, <1>5

LEMMA SaveInv ==
    ASSUME CInv, NEW b \in Brokers, Save(b)
    PROVE  CInv'
<1>1. [value |-> "own", key |-> key] \in Row
  BY DEF Row, CredentialsTypeOK
<1> QED
  BY <1>1, TouchInv DEF Save

LEMMA DeleteInv ==
    ASSUME CInv, NEW b \in Brokers, Delete(b)
    PROVE  CInv'
BY TouchInv DEF Delete

LEMMA ImportListInv ==
    ASSUME CInv, NEW i \in Imports, ImportList(i) \/ ImportListFails(i)
    PROVE  CInv'
BY DEF ImportList, ImportListFails, CredentialsTypeOK, IdleImportsAreBlank, OwnRowsAreKnown,
   ReportedImportsHappened, Brokers, Connected

\* The import takes the next broker: it saves the environment's credentials of
\* one it had not found, or leaves the rows alone.
LEMMA ImportBrokerInv ==
    ASSUME CInv, NEW i \in Imports, ImportBroker(i)
    PROVE  CInv'
<1> DEFINE b == importing[i]
           env == [value |-> "env", key |-> key]
<1>1. b \in Brokers /\ importing' = [importing EXCEPT ![i] = After[b]]
      /\ UNCHANGED <<key, already, touchedSince>>
  BY DEF ImportBroker, AtBroker
<1>2. After[b] \in Brokers \union {"end"}
  BY <1>1 DEF After, Brokers
<1>3. env \in Row
  BY DEF Row, CredentialsTypeOK
<1>4. \/ /\ rows' = [rows EXCEPT ![b] = env]
         /\ imported' \in {imported, [imported EXCEPT ![i] = @ \union {b}]}
      \/ UNCHANGED <<rows, imported>>
  BY DEF ImportBroker
<1>5. CredentialsTypeOK'
  BY <1>1, <1>2, <1>3, <1>4 DEF CredentialsTypeOK
<1>6. IdleImportsAreBlank'
  BY <1>1, <1>2, <1>4 DEF IdleImportsAreBlank, CredentialsTypeOK, Brokers
<1>7. OwnRowsAreKnown'
  BY <1>1, <1>2, <1>4 DEF OwnRowsAreKnown, CredentialsTypeOK, Brokers
<1>8. ReportedImportsHappened'
  <2>1. CASE UNCHANGED <<rows, imported>>
    BY <1>1, <2>1 DEF ReportedImportsHappened
  <2>2. CASE rows' = [rows EXCEPT ![b] = env]
    BY <1>1, <1>3, <1>4, <2>2 DEF ReportedImportsHappened, CredentialsTypeOK
  <2> QED
    BY <1>4, <2>1, <2>2
<1> QED
  BY <1>5, <1>6, <1>7, <1>8

LEMMA ImportAgainInv ==
    ASSUME CInv, NEW i \in Imports, ImportAgain(i)
    PROVE  CInv'
BY DEF ImportAgain, CredentialsTypeOK, IdleImportsAreBlank, OwnRowsAreKnown,
   ReportedImportsHappened, Brokers

LEMMA RestartInv ==
    ASSUME CInv, NEW k \in Keys, Restart(k)
    PROVE  CInv'
BY DEF Restart, CredentialsTypeOK, IdleImportsAreBlank, OwnRowsAreKnown,
   ReportedImportsHappened, Brokers

LEMMA NextCInv == CInv /\ [CredentialsNext]_credentialVars => CInv'
<1> SUFFICES ASSUME CInv, [CredentialsNext]_credentialVars PROVE CInv'
  OBVIOUS
<1>1. CASE UNCHANGED credentialVars
  BY <1>1 DEF CredentialsTypeOK, IdleImportsAreBlank, OwnRowsAreKnown, ReportedImportsHappened
<1>2. CASE CredentialsNext
  BY <1>2, SaveInv, DeleteInv, ImportListInv, ImportBrokerInv, ImportAgainInv, RestartInv
     DEF CredentialsNext, RequestNext
<1> QED
  BY <1>1, <1>2

-----------------------------------------------------------------------------
\* The rows and the imports stay within their types: what is stored is always
\* sealed under a key the gateway has had.
THEOREM CredentialsTypeCorrect == CredentialsSpec => []CredentialsTypeOK
BY InitCInv, NextCInv, PTL DEF CredentialsSpec, CredentialsNext

\* The reply of import-env is true, however many imports, saves and deletions
\* run side by side (credential_handlers.go:118-157).
THEOREM ImportsTruthful == CredentialsSpec => []ReportedImportsHappened
BY InitCInv, NextCInv, PTL DEF CredentialsSpec, CredentialsNext

\* An import overwrites only what was saved after its listing
\* (credential_handlers.go:105-155).
THEOREM OnlyRacingSavesOverwritten == CredentialsSpec => ImportOverwritesOnlyRacingSaves
<1> DEFINE Overwrites(b) == /\ rows[b] # NoRow /\ rows[b].value = "own"
                            /\ rows'[b] # NoRow /\ rows'[b].value = "env"
           Raced(b) == \E i \in Imports : importing[i] = b /\ b \in touchedSince[i]
<1>1. CInv /\ [CredentialsNext]_credentialVars =>
         [\A b \in Brokers :
            rows[b] # NoRow /\ rows[b].value = "own" /\ rows'[b] # NoRow /\ rows'[b].value = "env"
              => \E i \in Imports : importing[i] = b /\ b \in touchedSince[i]]_credentialVars
  <2> SUFFICES ASSUME CInv, CredentialsNext, NEW b \in Brokers, Overwrites(b)
               PROVE  Raced(b)
    OBVIOUS
  <2>1. ASSUME NEW i \in Imports, ImportBroker(i)
        PROVE  Raced(b)
    <3>1. importing[i] = b /\ b \notin already[i]
      BY <2>1 DEF ImportBroker, AtBroker, CredentialsTypeOK
    <3> QED
      BY <3>1 DEF OwnRowsAreKnown
  <2>2. ASSUME NEW c \in Brokers, Save(c) \/ Delete(c)
        PROVE  FALSE
    BY <2>2 DEF Save, Delete, CredentialsTypeOK
  <2>3. ASSUME UNCHANGED rows
        PROVE  FALSE
    BY <2>3
  <2>4. ASSUME NEW i \in Imports, ImportList(i) \/ ImportListFails(i) \/ ImportAgain(i)
        PROVE  UNCHANGED rows
    BY <2>4 DEF ImportList, ImportListFails, ImportAgain
  <2>5. ASSUME NEW k \in Keys, Restart(k)
        PROVE  UNCHANGED rows
    BY <2>5 DEF Restart
  <2> QED
    BY <2>1, <2>2, <2>3, <2>4, <2>5 DEF CredentialsNext, RequestNext
<1> QED
  BY <1>1, InitCInv, NextCInv, PTL DEF CredentialsSpec, CredentialsNext, ImportOverwritesOnlyRacingSaves
=============================================================================
