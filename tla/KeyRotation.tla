------------------------------- MODULE KeyRotation -------------------------------
(***************************************************************************)
(* The encryption of secrets (src/src/secret-storage.ts): those of the     *)
(* configuration document and the HMAC secrets of ingestion credentials in *)
(* SQLite, and the command that moves both to another key                  *)
(* (src/src/encryption-rotation.ts) while the server runs with the key of  *)
(* its environment.                                                        *)
(*                                                                         *)
(* A secret is known by the key it is encrypted with, Plain being none.    *)
(***************************************************************************)
EXTENDS Naturals

CONSTANTS Keys, Plain,
          Signers,         \* credentials with an HMAC secret
          Nothing,            \* no rotation, no transaction, no credential
          MaxSlips         \* bound on failures and kills

Key == Keys \cup {Plain}
Rotations == [old : Key, new : Keys, secrets : SUBSET Signers, was : Key, copy : Key,
              step : {"secrets", "copy", "begin", "replace", "commit"}]

ASSUME KeyAssumption == Plain \notin Keys /\ Nothing \notin Key \cup Rotations /\ MaxSlips \in Nat

VARIABLES documentKey,   \* config.json
          given,         \* the keys the last rotation that copied the document was given
          secretKey,     \* ingestion_credentials.hmac_secret_encrypted
          isRevoked,     \* ingestion_credentials.revoked_at
          transaction,   \* what an open transaction has written instead
          serverKey,     \* CONFIG_ENCRYPTION_KEY of the server
          rotation,      \* the command under way
          exported,      \* the database of a redacted backup
          slips

stores == <<documentKey, given, secretKey, isRevoked>>
keyVars == <<stores, transaction, serverKey, rotation, exported, slips>>
--------------------------------------------------------------------------------
Encryptions == [Signers -> Keys \cup {Nothing}]
Secured(m) == {s \in Signers : m[s] # Nothing}

KeyTypeOK ==
  /\ documentKey \in Key /\ given \subseteq Key /\ secretKey \in Encryptions /\ isRevoked \in [Signers -> BOOLEAN]
  /\ transaction \in Encryptions \cup {Nothing} /\ serverKey \in Key /\ slips \in 0 .. MaxSlips
  /\ rotation \in Rotations \cup {Nothing} /\ exported \in Encryptions \cup {Nothing}

\* decryptConfigDocument(): plaintext is read with any key.
Reads(k) == documentKey \in {k, Plain}

KeyInit ==
  /\ documentKey \in Key /\ serverKey = documentKey /\ given = {}
  /\ secretKey = [s \in Signers |-> Nothing] /\ isRevoked = [s \in Signers |-> FALSE]
  /\ transaction = Nothing /\ rotation = Nothing /\ exported = Nothing /\ slips = 0

(***************************************************************************)
(* The server, and what operators do to it.                                *)
(***************************************************************************)
\* A start with a key that does not read the document fails. Operators change the key of
\* the deployment between rotations, and only to the one the document is encrypted with,
\* or to their first.
Restart(k) ==
  /\ Reads(k) /\ (documentKey = Plain => serverKey \in {k, Plain}) /\ rotation = Nothing
  /\ serverKey' = k /\ UNCHANGED <<stores, transaction, rotation, exported, slips>>

\* writeConfigFile(): every secret is encrypted again.
SaveDocument ==
  /\ Reads(serverKey) /\ documentKey' = serverKey
  /\ UNCHANGED <<given, secretKey, isRevoked, transaction, serverKey, rotation, exported, slips>>

\* ingestionCredentialService.create(); the transaction of a rotation keeps it out.
CreateCredential(s) ==
  /\ Reads(serverKey) /\ serverKey # Plain /\ secretKey[s] = Nothing /\ transaction = Nothing
  /\ secretKey' = [secretKey EXCEPT ![s] = serverKey]
  /\ UNCHANGED <<documentKey, given, isRevoked, transaction, serverKey, rotation, exported, slips>>

RevokeCredential(s) ==
  /\ Reads(serverKey) /\ secretKey[s] # Nothing /\ transaction = Nothing /\ isRevoked' = [isRevoked EXCEPT ![s] = TRUE]
  /\ UNCHANGED <<documentKey, given, secretKey, transaction, serverKey, rotation, exported, slips>>

\* A redacted backup and its restore: no key is asked for, every credential comes back revoked.
ExportDatabase ==
  /\ exported = Nothing /\ exported' = secretKey
  /\ UNCHANGED <<stores, transaction, serverKey, rotation, slips>>

RestoreDatabase ==
  /\ exported # Nothing /\ rotation = Nothing /\ Reads(serverKey)
  /\ secretKey' = exported /\ isRevoked' = [s \in Signers |-> exported[s] # Nothing] /\ documentKey' = serverKey
  /\ UNCHANGED <<given, transaction, serverKey, rotation, exported, slips>>

(***************************************************************************)
(* rotateEncryptionKey(), with the key of the deployment and a new one.    *)
(***************************************************************************)
Rotate(old, new) ==
  /\ rotation = Nothing /\ old # new /\ Reads(old) /\ (documentKey = Plain => old = serverKey)
  /\ rotation' = [old |-> old, new |-> new, secrets |-> {}, was |-> documentKey, copy |-> documentKey, step |-> "secrets"]
  /\ UNCHANGED <<stores, transaction, serverKey, exported, slips>>

IsAt(step) == rotation # Nothing /\ rotation.step = step
Go(step) == rotation' = [rotation EXCEPT !.step = step]

\* A mutation: secrets that the old key does not read are passed over.
ReadSomeSecrets ==
  /\ IsAt("secrets")
  /\ rotation' = [rotation EXCEPT !.secrets = {s \in Signers : secretKey[s] = rotation.old}, !.step = "copy"]
  /\ UNCHANGED <<stores, transaction, serverKey, exported, slips>>

\* readIngestionSecrets(): one secret under another key, revoked or not, is the end of it.
ReadSecrets ==
  /\ IsAt("secrets")
  /\ rotation' = IF \A s \in Secured(secretKey) : secretKey[s] = rotation.old
                 THEN [rotation EXCEPT !.secrets = Secured(secretKey), !.step = "copy"] ELSE Nothing
  /\ UNCHANGED <<stores, transaction, serverKey, exported, slips>>

CopyDocument ==
  /\ IsAt("copy") /\ given' = {rotation.old, rotation.new}
  /\ rotation' = [rotation EXCEPT !.copy = documentKey, !.step = "begin"]
  /\ UNCHANGED <<documentKey, secretKey, isRevoked, transaction, serverKey, exported, slips>>

UpdateSecrets ==
  /\ IsAt("begin") /\ Go("replace")
  /\ transaction' = IF rotation.secrets = {} THEN Nothing
                    ELSE [s \in Signers |-> IF s \in rotation.secrets THEN rotation.new ELSE secretKey[s]]
  /\ UNCHANGED <<stores, serverKey, exported, slips>>

ReplaceDocument ==
  /\ IsAt("replace") /\ documentKey' = rotation.new /\ Go("commit")
  /\ UNCHANGED <<given, secretKey, isRevoked, transaction, serverKey, exported, slips>>

Commit ==
  /\ IsAt("commit") /\ rotation' = Nothing /\ transaction' = Nothing
  /\ secretKey' = IF transaction = Nothing THEN secretKey ELSE transaction
  /\ UNCHANGED <<documentKey, given, isRevoked, serverKey, exported, slips>>

\* Any step throws: the transaction is rolled back, and a document that has been replaced
\* is put back if it was the commit of a transaction that failed.
FailRotation ==
  /\ rotation # Nothing /\ (IsAt("commit") => transaction # Nothing)
  /\ slips < MaxSlips /\ slips' = slips + 1 /\ rotation' = Nothing /\ transaction' = Nothing
  /\ documentKey' = IF IsAt("commit") THEN rotation.copy ELSE documentKey
  /\ UNCHANGED <<given, secretKey, isRevoked, serverKey, exported>>

KillRotation ==
  /\ rotation # Nothing /\ slips < MaxSlips /\ slips' = slips + 1 /\ rotation' = Nothing /\ transaction' = Nothing
  /\ UNCHANGED <<stores, serverKey, exported>>

KeyNext ==
  \/ \E k \in Key : Restart(k) \/ \E new \in Keys : Rotate(k, new)
  \/ SaveDocument \/ ExportDatabase \/ RestoreDatabase
  \/ \E s \in Signers : CreateCredential(s) \/ RevokeCredential(s)
  \/ ReadSecrets \/ CopyDocument \/ UpdateSecrets \/ ReplaceDocument \/ Commit \/ FailRotation \/ KillRotation

KeySpec == KeyInit /\ [][KeyNext]_keyVars
--------------------------------------------------------------------------------
\* Whatever is killed or created in the middle of rotations, a credential that works is
\* under the key of the document, of the server, or one that the last rotation was given,
\* so that an operator can still go back with the copy it made: no rotation goes on over a
\* secret that it cannot read (src/src/encryption-rotation.ts:57-73 and 102-104).
NoKeyIsBuried ==
  \A s \in Signers : secretKey[s] # Nothing /\ ~isRevoked[s] =>
    secretKey[s] \in {documentKey, serverKey} \cup given

================================================================================
