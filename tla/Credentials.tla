---------------------------- MODULE Credentials ----------------------------
(***************************************************************************)
(* One user's user_broker_credentials rows: the handlers that save, delete *)
(* and import them (internal/httpapi/credential_handlers.go), the store    *)
(* (internal/db/broker_credentials.go) and the encryption key the gateway  *)
(* process was started with. Rows of different users never meet: every     *)
(* statement carries user_id.                                              *)
(***************************************************************************)
EXTENDS FiniteSets, Sequences

CONSTANTS
    Keys,        \* values CREDENTIAL_ENCRYPTION_KEY takes over time
    Imports,     \* concurrent import-env requests
    EnvBrokers,  \* brokers the gateway's environment has credentials for
    NoRow

Brokers == {"alpaca", "oanda", "questrade"}

Row == [value : {"own", "env"}, key : Keys]

ASSUME CredentialsAssumption ==
    /\ EnvBrokers \subseteq Brokers
    /\ NoRow \notin Row

\* The order of handleImportEnvCredentials; "end" is its reply.
After == [alpaca |-> "oanda", oanda |-> "questrade", questrade |-> "end"]

VARIABLES
    key,         \* the running gateway's key
    rows,        \* rows[b]: what is encrypted in b's row, and under which key
    importing,   \* importing[i]: the broker import i is at, "idle" before
                 \* its listing and "end" once it has replied
    already,     \* already[i]: the brokers import i found connected
    imported,    \* imported[i]: the brokers it reports
    touchedSince \* history: brokers the user saved or deleted since import
                 \* i's listing

importVars == <<importing, already, imported, touchedSince>>
credentialVars == <<key, rows, importVars>>

Connected == {b \in Brokers : rows[b] # NoRow}
AtBroker(i) == importing[i] \in Brokers

CredentialsTypeOK ==
    /\ key \in Keys
    /\ rows \in [Brokers -> Row \union {NoRow}]
    /\ importing \in [Imports -> Brokers \union {"idle", "end"}]
    /\ already \in [Imports -> SUBSET Brokers]
    /\ imported \in [Imports -> SUBSET Brokers]
    /\ touchedSince \in [Imports -> SUBSET Brokers]

CredentialsInit ==
    /\ key \in Keys
    /\ rows = [b \in Brokers |-> NoRow]
    /\ importing = [i \in Imports |-> "idle"]
    /\ already = [i \in Imports |-> {}]
    /\ imported = [i \in Imports |-> {}]
    /\ touchedSince = [i \in Imports |-> {}]

-----------------------------------------------------------------------------
\* Box.Encrypt and Box.Decrypt: AES-GCM opens what was sealed with the same key.
Seal(value) == [value |-> value, key |-> key]
Opens(row) == row.key = key

Touch(b) ==
    touchedSince' = [i \in Imports |->
        touchedSince[i] \union IF importing[i] = "idle" THEN {} ELSE {b}]

\* Mutant of Save: the credentials are stored unencrypted.
SavePlaintext(b) ==
    /\ rows' = [rows EXCEPT ![b] = [value |-> "own", key |-> NoRow]]
    /\ Touch(b)
    /\ UNCHANGED <<key, importing, already, imported>>

\* POST /api/v1/broker-credentials; a failed upsert changes nothing.
Save(b) ==
    /\ rows' = [rows EXCEPT ![b] = Seal("own")]
    /\ Touch(b)
    /\ UNCHANGED <<key, importing, already, imported>>

Delete(b) ==
    /\ rows' = [rows EXCEPT ![b] = NoRow]
    /\ Touch(b)
    /\ UNCHANGED <<key, importing, already, imported>>

\* Mutant of ImportList: what the listing returned is not used.
ImportListUnused(i) ==
    /\ importing[i] = "idle"
    /\ importing' = [importing EXCEPT ![i] = "alpaca"]
    /\ UNCHANGED <<key, rows, already, imported, touchedSince>>

\* import-env reads the connected brokers once, up front ...
ImportList(i) ==
    /\ importing[i] = "idle"
    /\ importing' = [importing EXCEPT ![i] = "alpaca"]
    /\ already' = [already EXCEPT ![i] = Connected]
    /\ UNCHANGED <<key, rows, imported, touchedSince>>

\* ... (an error there is a 500) ...
ImportListFails(i) ==
    /\ importing[i] = "idle"
    /\ importing' = [importing EXCEPT ![i] = "end"]
    /\ UNCHANGED <<key, rows, already, imported, touchedSince>>

\* Mutant of ImportBroker: a failed save is reported imported.
ImportBrokerReportsFailures(i) ==
    /\ AtBroker(i)
    /\ importing' = [importing EXCEPT ![i] = After[importing[i]]]
    /\ \/ /\ importing[i] \in EnvBrokers \ already[i]
          /\ rows' \in {rows, [rows EXCEPT ![importing[i]] = Seal("env")]}
          /\ imported' = [imported EXCEPT ![i] = @ \union {importing[i]}]
       \/ UNCHANGED <<rows, imported>>
    /\ UNCHANGED <<key, already, touchedSince>>

\* ... and then takes the brokers one by one, saving the environment's
\* credentials of those it had not found; a failed save, which may have been
\* carried out, is only logged.
ImportBroker(i) ==
    /\ AtBroker(i)
    /\ importing' = [importing EXCEPT ![i] = After[importing[i]]]
    /\ \/ /\ importing[i] \in EnvBrokers \ already[i]
          /\ rows' = [rows EXCEPT ![importing[i]] = Seal("env")]
          /\ imported' \in {imported, [imported EXCEPT ![i] = @ \union {importing[i]}]}
       \/ UNCHANGED <<rows, imported>>
    /\ UNCHANGED <<key, already, touchedSince>>

\* The next import of the same client.
ImportAgain(i) ==
    /\ importing[i] = "end"
    /\ importing' = [importing EXCEPT ![i] = "idle"]
    /\ already' = [already EXCEPT ![i] = {}]
    /\ imported' = [imported EXCEPT ![i] = {}]
    /\ touchedSince' = [touchedSince EXCEPT ![i] = {}]
    /\ UNCHANGED <<key, rows>>

\* The gateway stops, its requests with it, and starts again: with the same
\* key, or with another.
Restart(k) ==
    /\ key' = k
    /\ importing' = [i \in Imports |-> "idle"]
    /\ already' = [i \in Imports |-> {}]
    /\ imported' = [i \in Imports |-> {}]
    /\ touchedSince' = [i \in Imports |-> {}]
    /\ UNCHANGED rows

RequestNext ==
    \/ \E b \in Brokers : Save(b) \/ Delete(b)
    \/ \E i \in Imports :
          ImportList(i) \/ ImportListFails(i) \/ ImportBroker(i) \/ ImportAgain(i)

CredentialsSpec ==
    CredentialsInit /\ [][RequestNext \/ \E k \in Keys : Restart(k)]_credentialVars

-----------------------------------------------------------------------------
\* CredentialStore.Load: the row is there and the gateway's key opens it.
Readable(b) == rows[b] # NoRow /\ Opens(rows[b])

\* A broker is overwritten by the environment's credentials only in one race:
\* the user's own save came after that import's listing. A broker connected
\* before the import began is never touched by it
\* (credential_handlers.go:105-155).
ImportOverwritesOnlyRacingSaves ==
    [][\A b \in Brokers :
          rows[b] # NoRow /\ rows[b].value = "own" /\ rows'[b] # NoRow /\ rows'[b].value = "env"
              => \E i \in Imports : importing[i] = b /\ b \in touchedSince[i]]_credentialVars

\* A broker the reply reports imported really holds the environment's
\* credentials, unless the user has saved or deleted it since: failed saves
\* are left out of the reply one by one (credential_handlers.go:118-157).
ReportedImportsHappened ==
    \A i \in Imports : \A b \in imported[i] \ touchedSince[i] :
        rows[b] # NoRow /\ rows[b].value = "env"
=============================================================================
