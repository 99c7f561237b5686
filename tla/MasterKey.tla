------------------------------ MODULE MasterKey -------------------------------
(***************************************************************************)
(* The key that seals the stored passwords and API keys (ira-store data-   *)
(* bases.rs: from_env, ensure_master_key, migrate_legacy_master_key and    *)
(* the functions that seal with it).  Server, daemon, terminal and bot are *)
(* processes of their own that may all start on a machine without a key:   *)
(* each looks for the file, moves the one of the program's earlier name,   *)
(* or creates one, with a step between any two system calls.               *)
(*                                                                         *)
(* Abstracted: the bytes (a key is a value of Keys), the cipher (a secret  *)
(* opens with the key it was sealed with and no other), the path, which is *)
(* the same for all processes here, and IRA_MASTER_KEY, which is not set.  *)
(***************************************************************************)
CONSTANTS
  Processes,  \* operations that need the key, each one at a time
  Secrets,    \* rows with a password or an API key
  Keys,       \* keys that getrandom may return
  NoKey,      \* no file, or nothing sealed
  Empty       \* the file was created and is not yet written

ASSUME KeyAssumption == NoKey \notin Keys /\ Empty \notin Keys /\ NoKey # Empty

VARIABLES
  file,    \* .ira/master.key
  legacy,  \* .leo/master.key
  pc,      \* per process: the system call it is about to make
  key,     \* per process: the key it generated or read
  sealed   \* per secret: the key it is sealed with, NoKey for plain text

keyVars == <<file, legacy, pc, key, sealed>>

Calls == {"idle", "check", "check legacy", "rename", "look", "create", "write", "read", "have"}

\* The key of this installation.
StoredKey == IF file # NoKey THEN file ELSE legacy

\* decrypt: a text opens with the key that sealed it, and with no other.
Opens(s, k) == sealed[s] = k

\* open_provider_secret: what is not sealed is read as it is.
Readable(s) == sealed[s] = NoKey \/ Opens(s, StoredKey)

KeyInit ==
  /\ file \in Keys \cup {NoKey}
  /\ legacy \in Keys \cup {NoKey}
  /\ pc = [p \in Processes |-> "idle"]
  /\ key = [p \in Processes |-> NoKey]
  /\ sealed \in [Secrets -> {NoKey, StoredKey}]

Moves(p, from, to) == pc[p] = from /\ pc' = [pc EXCEPT ![p] = to]

FromEnv(p) == Moves(p, "idle", "check") /\ UNCHANGED <<file, legacy, key, sealed>>

\* migrate_legacy_master_key, with the first lookup of the file.
CheckKey(p) ==
  /\ Moves(p, "check", IF file # NoKey THEN "look" ELSE "check legacy")
  /\ UNCHANGED <<file, legacy, key, sealed>>

CheckLegacy(p) ==
  /\ Moves(p, "check legacy", IF legacy # NoKey THEN "rename" ELSE "look")
  /\ UNCHANGED <<file, legacy, key, sealed>>

\* rename replaces its target; without a source it fails, and so does the operation.
MoveLegacy(p) ==
  /\ Moves(p, "rename", IF legacy # NoKey THEN "look" ELSE "idle")
  /\ file' = IF legacy # NoKey THEN legacy ELSE file
  /\ legacy' = NoKey
  /\ UNCHANGED <<key, sealed>>

\* ensure_master_key looks a second time.
LookAgain(p) ==
  /\ Moves(p, "look", IF file # NoKey THEN "read" ELSE "create")
  /\ UNCHANGED <<file, legacy, key, sealed>>

\* Mutant: open and truncate whatever is there.
CreateKeyOver(p) ==
  /\ Moves(p, "create", "write")
  /\ file' = Empty
  /\ \E k \in Keys : key' = [key EXCEPT ![p] = k]
  /\ UNCHANGED <<legacy, sealed>>

\* create_new: of several processes one creates the file, the others read it.
CreateKey(p) ==
  \/ /\ file = NoKey
     /\ Moves(p, "create", "write")
     /\ file' = Empty
     /\ \E k \in Keys : key' = [key EXCEPT ![p] = k]
     /\ UNCHANGED <<legacy, sealed>>
  \/ /\ file # NoKey
     /\ Moves(p, "create", "read")
     /\ UNCHANGED <<file, legacy, key, sealed>>

WriteKey(p) ==
  /\ Moves(p, "write", "have")
  /\ file' = key[p]
  /\ UNCHANGED <<legacy, key, sealed>>

\* A file that is not written yet, or never will be, is InvalidStoredKey.
ReadKey(p) ==
  /\ Moves(p, "read", IF file = Empty THEN "idle" ELSE "have")
  /\ key' = [key EXCEPT ![p] = IF file = Empty THEN NoKey ELSE file]
  /\ UNCHANGED <<file, legacy, sealed>>

\* create_ and update_database_connection, write_provider_secret, seal_plaintext_api_keys.
Seal(p) ==
  /\ Moves(p, "have", "idle")
  /\ \E s \in Secrets : sealed' = [sealed EXCEPT ![s] = key[p]]
  /\ UNCHANGED <<file, legacy, key>>

\* A provider without a key, a connection that is deleted.
ClearSecret(s) ==
  /\ sealed[s] # NoKey
  /\ sealed' = [sealed EXCEPT ![s] = NoKey]
  /\ UNCHANGED <<file, legacy, pc, key>>

\* The operation has another use for the key, or its process dies.
AbandonKey(p) ==
  /\ pc[p] # "idle"
  /\ pc' = [pc EXCEPT ![p] = "idle"]
  /\ UNCHANGED <<file, legacy, key, sealed>>

KeyStep(p) ==
  \/ FromEnv(p) \/ CheckKey(p) \/ CheckLegacy(p) \/ MoveLegacy(p) \/ LookAgain(p) \/ CreateKey(p)
  \/ WriteKey(p) \/ ReadKey(p) \/ Seal(p) \/ AbandonKey(p)

KeyNext == (\E p \in Processes : KeyStep(p)) \/ (\E s \in Secrets : ClearSecret(s))

KeySpec == KeyInit /\ [][KeyNext]_keyVars

----------------------------------------------------------------------------
KeyTypeOK ==
  /\ file \in Keys \cup {NoKey, Empty}
  /\ legacy \in Keys \cup {NoKey}
  /\ pc \in [Processes -> Calls]
  /\ key \in [Processes -> Keys \cup {NoKey}]
  /\ sealed \in [Secrets -> Keys \cup {NoKey}]

\* A rename cannot land on a key that exists: while there is a legacy key, a process that
\* may move it has seen no file, and then none can appear, for nobody may create one.
MoveIsSafe ==
  legacy # NoKey =>
    /\ file = NoKey => \A p \in Processes : pc[p] \notin {"look", "create", "write"}
    /\ (\E p \in Processes : pc[p] \in {"check legacy", "rename"}) => file = NoKey

\* Whoever is about to write the key has the file for itself, and nothing is sealed yet.
WriterIsAlone ==
  \A p \in Processes : pc[p] = "write" =>
    /\ file = Empty /\ key[p] \in Keys
    /\ \A q \in Processes : pc[q] = "write" => q = p

ReadersSawAFile == \A p \in Processes : pc[p] = "read" => file # NoKey

HoldersAgree == \A p \in Processes : pc[p] = "have" => key[p] \in Keys /\ key[p] = file

\* Whatever processes start together and wherever they die, every secret is sealed with the
\* one key that all operations will find: none is ever lost to a key that was replaced.
SecretsOpen == \A s \in Secrets : Readable(s)

KeyInv == KeyTypeOK /\ MoveIsSafe /\ WriterIsAlone /\ ReadersSawAFile /\ HoldersAgree /\ SecretsOpen
==============================================================================
