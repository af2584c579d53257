-------------------------- MODULE CredentialStore --------------------------
(***************************************************************************)
(* The encrypted credential store of pkg/credentials/store.go: a map in    *)
(* memory, the file that saveToDisk replaces atomically, and the key file  *)
(* beside it, which is overwritten in place.                               *)
(*                                                                         *)
(* A ciphertext is its plaintext with the key that opens it.  Every        *)
(* operation holds the lock throughout, so that only a crash can come      *)
(* between the steps of a rotation.  Reads change access statistics only   *)
(* and are left out; encryption is enabled.                                *)
(***************************************************************************)
EXTENDS Integers

CONSTANTS
    CredIds,     \* Credential.ID
    Secrets,     \* plaintext values
    MaxKeys,     \* bound: keys generated, numbered from 1
    MaxRestarts  \* bound: crashes

ASSUME CredAssumption ==
    /\ MaxKeys \in Nat /\ MaxRestarts \in Nat
    /\ Secrets \cap {"none", "unknown", "error"} = {}

VARIABLES
    credentials,  \* Store.credentials: each a ciphertext or None
    expired,      \* the credentials past ExpiresAt
    gcm,          \* the key of Store.gcm
    storeFile,    \* cfg.StorePath
    keyFile,      \* .cred_key: the key in it, Torn or Missing
    rotating,     \* where RotateKey stands: "no", "key" or "save"
    storeUp,      \* "down", "open" or "closed"
    keys,         \* how many keys were generated
    restarts,
    credAcked,        \* history: what the last operation on each credential promised
    interrupted,  \* history: some rotation failed or crashed between its two files
    bootedAfter   \* history: the process started after that

credVars == <<credentials, expired, gcm, storeFile, keyFile, rotating, storeUp, keys, restarts,
              credAcked, interrupted, bootedAfter>>

Missing == -1
Torn == 0

None == [key |-> 0, value |-> "none"]
Ciphertexts == [key : 1..MaxKeys, value : Secrets] \cup {None}

CredTypeOK ==
    /\ credentials \in [CredIds -> Ciphertexts] /\ storeFile \in [CredIds -> Ciphertexts]
    /\ expired \subseteq CredIds
    /\ gcm \in 0..keys /\ (storeUp = "open" => gcm # 0)
    /\ keyFile \in {Missing, Torn} \cup 1..keys
    /\ rotating \in {"no", "key", "save"} /\ storeUp \in {"down", "open", "closed"}
    /\ keys \in 0..MaxKeys /\ restarts \in 0..MaxRestarts
    /\ credAcked \in [CredIds -> Secrets \cup {"none", "unknown"}]
    /\ interrupted \in BOOLEAN /\ bootedAfter \in BOOLEAN

CredInit ==
    /\ credentials = [i \in CredIds |-> None] /\ storeFile = credentials /\ expired = {}
    /\ gcm = 0 /\ keyFile = Missing /\ keys = 0
    /\ rotating = "no" /\ storeUp = "down" /\ restarts = 0
    /\ credAcked = [i \in CredIds |-> "none"] /\ interrupted = FALSE /\ bootedAfter = FALSE

-----------------------------------------------------------------------------
encrypt(v) == [key |-> gcm, value |-> v]

\* decrypt: authenticated, so that another key gives an error.
Decrypts(c, k) == c # None /\ c.key = k

\* What the store answers for i with the ciphertexts cs and the key k.
Answer(cs, k, i) == CASE cs[i] = None -> "none"
                      [] Decrypts(cs[i], k) -> cs[i].value
                      [] OTHER -> "error"

\* No promise is left of what a start did not read.
Forgotten == [i \in CredIds |-> IF credAcked[i] = "none" THEN "none" ELSE "unknown"]

\* getOrCreateEncryptionKey: a key file of the wrong length keeps the store from
\* starting.  One that is missing, or cannot be read, is replaced by a new key.
LoadsKey ==
    \/ keyFile > 0 /\ gcm' = keyFile /\ UNCHANGED <<keys, keyFile>>
    \/ keys < MaxKeys /\ keys' = keys + 1 /\ gcm' = keys' /\ keyFile' = keys'

\* loadFromDisk: when the file cannot be read the store starts without credentials,
\* and its next save replaces the file.
NewStore ==
    /\ storeUp = "down"
    /\ LoadsKey
    /\ credentials' \in {storeFile, [i \in CredIds |-> None]}
    /\ expired' = {i \in expired : credentials'[i] # None}
    /\ credAcked' = IF credentials' = storeFile /\ keyFile' = keyFile THEN credAcked ELSE Forgotten
    /\ storeUp' = "open"
    /\ bootedAfter' = interrupted
    /\ UNCHANGED <<storeFile, rotating, restarts, interrupted>>

\* A new key is not written to its end: the file is empty.
NewStoreCrashes ==
    /\ storeUp = "down" /\ restarts < MaxRestarts
    /\ keyFile' = Torn /\ restarts' = restarts + 1
    /\ credAcked' = Forgotten
    /\ UNCHANGED <<credentials, expired, gcm, storeFile, rotating, storeUp, keys, interrupted, bootedAfter>>

\* saveToDisk of the ciphertexts cs after changing ids, whose operation promises
\* "promise" when it returns no error.  The rename is atomic; a failure is
\* reported, but memory keeps the change.
Saved(cs, ids, promise) ==
    \/ /\ storeFile' = cs
       /\ credAcked' = [i \in CredIds |-> IF i \in ids THEN promise ELSE credAcked[i]]
       /\ UNCHANGED <<storeUp, restarts>>
    \/ /\ credAcked' = [i \in CredIds |-> IF i \in ids THEN "unknown" ELSE credAcked[i]]
       /\ \/ UNCHANGED <<storeFile, storeUp, restarts>>
          \/ /\ restarts < MaxRestarts /\ restarts' = restarts + 1 /\ storeUp' = "down"
             /\ storeFile' \in {cs, storeFile}

Idle == storeUp = "open" /\ rotating = "no"

\* Store and StoreLLMCredential, new or existing; the latter keeps the expiry.
StoreCredential(i, v) ==
    /\ Idle
    /\ credentials' = [credentials EXCEPT ![i] = encrypt(v)]
    /\ expired' \in {expired, expired \ {i}}
    /\ Saved(credentials', {i}, v)
    /\ UNCHANGED <<gcm, keyFile, rotating, keys, interrupted, bootedAfter>>

\* Delete and DeleteLLMCredential.
DeleteCredential(i) ==
    /\ Idle /\ credentials[i] # None
    /\ credentials' = [credentials EXCEPT ![i] = None]
    /\ expired' = expired \ {i}
    /\ Saved(credentials', {i}, "none")
    /\ UNCHANGED <<gcm, keyFile, rotating, keys, interrupted, bootedAfter>>

CleanupExpired ==
    LET gone == {i \in expired : credentials[i] # None}
    IN /\ Idle /\ gone # {}
       /\ credentials' = [i \in CredIds |-> IF i \in gone THEN None ELSE credentials[i]]
       /\ expired' = expired \ gone
       /\ Saved(credentials', gone, "none")
       /\ UNCHANGED <<gcm, keyFile, rotating, keys, interrupted, bootedAfter>>

Expires(i) ==
    /\ Idle /\ credentials[i] # None /\ i \notin expired
    /\ expired' = expired \cup {i}
    /\ UNCHANGED <<credentials, gcm, storeFile, keyFile, rotating, storeUp, keys, restarts, credAcked, interrupted, bootedAfter>>

-----------------------------------------------------------------------------
Reencrypt(ids, k) ==
    [i \in CredIds |-> IF i \in ids THEN [credentials[i] EXCEPT !.key = k] ELSE credentials[i]]

\* RotateKey up to the key file: every credential decrypts with the old key.
RotateBegins ==
    LET stored == {i \in CredIds : credentials[i] # None}
    IN /\ Idle /\ keys < MaxKeys
       /\ \A i \in stored : Decrypts(credentials[i], gcm)
       /\ keys' = keys + 1 /\ gcm' = keys'
       /\ credentials' = Reencrypt(stored, keys')
       /\ rotating' = "key"
       /\ UNCHANGED <<expired, storeFile, keyFile, storeUp, restarts, credAcked, interrupted, bootedAfter>>

\* One does not: the old cipher is restored, those that the loop over the map
\* met before stay encrypted with the key that is now lost.
RotateFails ==
    /\ Idle /\ keys < MaxKeys
    /\ \E i \in CredIds : credentials[i] # None /\ ~Decrypts(credentials[i], gcm)
    /\ keys' = keys + 1
    /\ \E done \in SUBSET {i \in CredIds : Decrypts(credentials[i], gcm)} :
          /\ credentials' = Reencrypt(done, keys')
          /\ credAcked' = [i \in CredIds |-> IF i \in done THEN "unknown" ELSE credAcked[i]]
    /\ UNCHANGED <<expired, gcm, storeFile, keyFile, rotating, storeUp, restarts, interrupted, bootedAfter>>

\* The key file was truncated, perhaps, and not written.
KeyWriteFails ==
    /\ rotating' = "no" /\ interrupted' = TRUE
    /\ keyFile' \in {keyFile, Torn}
    /\ \/ UNCHANGED <<storeUp, restarts>>
       \/ restarts < MaxRestarts /\ restarts' = restarts + 1 /\ storeUp' = "down"
    /\ UNCHANGED gcm

RotateWritesKey ==
    /\ rotating = "key"
    /\ \/ rotating' = "save" /\ keyFile' = gcm /\ UNCHANGED <<gcm, storeUp, restarts, interrupted>>
       \/ KeyWriteFails
    /\ UNCHANGED <<credentials, expired, storeFile, keys, credAcked, bootedAfter>>

\* The new key is on disk before what it opens.
RotateSaves ==
    /\ rotating = "save" /\ rotating' = "no"
    /\ \/ /\ storeFile' = credentials
          /\ UNCHANGED <<storeUp, restarts, interrupted>>
       \/ /\ interrupted' = TRUE
          /\ UNCHANGED storeFile
          /\ \/ UNCHANGED <<storeUp, restarts>>
             \/ restarts < MaxRestarts /\ restarts' = restarts + 1 /\ storeUp' = "down"
    /\ UNCHANGED <<credentials, expired, gcm, keyFile, keys, credAcked, bootedAfter>>

\* Close saves; when that fails the store stays open.
CloseStore ==
    /\ Idle
    /\ storeUp' = "closed" /\ storeFile' = credentials
    /\ UNCHANGED <<credentials, expired, gcm, keyFile, rotating, keys, restarts, credAcked, interrupted, bootedAfter>>

\* A crash between operations, or a stop of the closed store.
StoreStops ==
    /\ storeUp # "down" /\ rotating = "no" /\ restarts < MaxRestarts
    /\ storeUp' = "down" /\ restarts' = restarts + 1
    /\ UNCHANGED <<credentials, expired, gcm, storeFile, keyFile, rotating, keys, credAcked, interrupted, bootedAfter>>

CredNext ==
    \/ NewStore \/ NewStoreCrashes \/ StoreStops \/ CloseStore
    \/ \E i \in CredIds : DeleteCredential(i) \/ Expires(i) \/ \E v \in Secrets : StoreCredential(i, v)
    \/ CleanupExpired
    \/ RotateBegins \/ RotateFails \/ RotateWritesKey \/ RotateSaves

CredSpec == CredInit /\ [][CredNext]_credVars

-----------------------------------------------------------------------------
(* Properties                                                              *)

\* However a rotation ended, the process that ran it still opens every
\* credential that an operation acknowledged since the last start that could not
\* read a file; only a restart between the key file and the credentials file can
\* lose them (RotateKey, store.go:431).
MemoryReadable ==
    storeUp = "open" /\ ~bootedAfter =>
        \A i \in CredIds : credAcked[i] # "unknown" => Answer(credentials, gcm, i) = credAcked[i]

\* Unless a rotation was cut short between its two files, the files hold every
\* change that was acknowledged since a start failed to read one of them, readable
\* with the key beside them (saveToDisk).
DiskReadable ==
    ~interrupted /\ rotating = "no" =>
        \A i \in CredIds : credAcked[i] # "unknown" => Answer(storeFile, keyFile, i) = credAcked[i]

\* A store that closed left on disk what it had in memory, the changes whose own
\* save had failed included (Close).
ClosedIsSaved == storeUp = "closed" => storeFile = credentials
=============================================================================
