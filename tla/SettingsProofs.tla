--------------------------- MODULE SettingsProofs ---------------------------
(***************************************************************************)
(* The settings and the secrets of the user, for any number of processes,  *)
(* requests, secrets, connections and models.                              *)
(***************************************************************************)
EXTENDS HostServices, MasterKey, ToolboxSync, ModelCatalog, ModelChoice, WellFoundedInduction, TLAPS

(***************************************************************************)
(* Every secret stays readable.  The invariant: a key that could still be  *)
(* moved excludes one that could be created, and the creator has the file  *)
(* for itself until it has written it.                                     *)
(***************************************************************************)

USE KeyAssumption

\* Whatever was there when the first process starts, nothing is sealed with another key.
LEMMA InitKeyInv == KeyInit => KeyInv
BY DEF KeyInit, KeyInv, KeyTypeOK, MoveIsSafe, WriterIsAlone, ReadersSawAFile,
       HoldersAgree, SecretsOpen, Readable, Opens, StoredKey, Calls

\* A step that leaves files and secrets alone, keeps keys, and sends a process to a place
\* its view of the files allows.
LEMMA WalkKeepsInv ==
  ASSUME KeyInv, NEW p \in Processes, NEW to \in Calls,
         UNCHANGED <<file, legacy, key, sealed>>,
         pc' = [pc EXCEPT ![p] = to],
         to \notin {"write", "have"}, to = "read" => file # NoKey,
         legacy # NoKey /\ file = NoKey => to \notin {"look", "create"},
         legacy # NoKey /\ to \in {"check legacy", "rename"} => file = NoKey
  PROVE  KeyInv'
<1>1. KeyTypeOK'
  BY DEF KeyInv, KeyTypeOK
<1>2. MoveIsSafe'
  BY DEF KeyInv, KeyTypeOK, MoveIsSafe
<1>3. WriterIsAlone' /\ ReadersSawAFile' /\ HoldersAgree' /\ SecretsOpen'
  BY DEF KeyInv, KeyTypeOK, WriterIsAlone, ReadersSawAFile, HoldersAgree, SecretsOpen, Readable, Opens, StoredKey
<1> QED BY <1>1, <1>2, <1>3 DEF KeyInv

\* The moved key is the one everything was sealed with, and no other file was there.
LEMMA RenameKeepsInv ==
  ASSUME KeyInv, NEW p \in Processes, MoveLegacy(p)
  PROVE  KeyInv'
<1>1. CASE legacy = NoKey
  <2>1. UNCHANGED <<file, legacy, key, sealed>> /\ pc' = [pc EXCEPT ![p] = "idle"]
    BY <1>1 DEF MoveLegacy, Moves
  <2> QED BY <1>1, <2>1, WalkKeepsInv DEF Calls
<1>2. CASE legacy # NoKey
  <2>1. /\ file = NoKey /\ file' = legacy /\ legacy' = NoKey
        /\ pc' = [pc EXCEPT ![p] = "look"] /\ UNCHANGED <<key, sealed>>
    BY <1>2 DEF MoveLegacy, Moves, KeyInv, MoveIsSafe
  <2>2. \A q \in Processes : pc[q] \notin {"write", "have"}
    BY <2>1 DEF KeyInv, WriterIsAlone, HoldersAgree
  <2>3. KeyTypeOK'
    BY <1>2, <2>1 DEF KeyInv, KeyTypeOK, Calls
  <2>4. \A q \in Processes : pc'[q] \notin {"write", "have"}
    BY <2>1, <2>2 DEF KeyInv, KeyTypeOK
  <2>5. MoveIsSafe' /\ WriterIsAlone' /\ ReadersSawAFile' /\ HoldersAgree'
    BY <1>2, <2>1, <2>4 DEF KeyInv, KeyTypeOK, MoveIsSafe, WriterIsAlone, ReadersSawAFile,
                            HoldersAgree
  <2>6. SecretsOpen'
    BY <1>2, <2>1 DEF KeyInv, KeyTypeOK, SecretsOpen, Readable, Opens, StoredKey
  <2> QED BY <2>3, <2>5, <2>6 DEF KeyInv
<1> QED BY <1>1, <1>2

\* A file is created only where there is no key at all, so nothing was sealed.
LEMMA CreateKeepsInv ==
  ASSUME KeyInv, NEW p \in Processes, CreateKey(p)
  PROVE  KeyInv'
<1>1. CASE file # NoKey
  <2>1. UNCHANGED <<file, legacy, key, sealed>> /\ pc' = [pc EXCEPT ![p] = "read"]
    BY <1>1 DEF CreateKey, Moves
  <2> QED BY <1>1, <2>1, WalkKeepsInv DEF Calls
<1>2. CASE file = NoKey
  <2>1. PICK k \in Keys :
          /\ file' = Empty /\ pc[p] = "create" /\ pc' = [pc EXCEPT ![p] = "write"]
          /\ key' = [key EXCEPT ![p] = k] /\ UNCHANGED <<legacy, sealed>>
    BY <1>2 DEF CreateKey, Moves
  <2>2. legacy = NoKey /\ legacy' = NoKey
    BY <1>2, <2>1 DEF KeyInv, MoveIsSafe
  <2>3. \A q \in Processes : pc[q] \notin {"write", "have"}
    BY <1>2 DEF KeyInv, WriterIsAlone, HoldersAgree
  <2>4. \A s \in Secrets : sealed[s] = NoKey
    BY <1>2, <2>2 DEF KeyInv, SecretsOpen, Readable, Opens, StoredKey
  <2>5. KeyTypeOK'
    BY <2>1 DEF KeyInv, KeyTypeOK, Calls
  <2>6. /\ key'[p] = k
        /\ \A q \in Processes : pc'[q] = "write" => q = p
        /\ \A q \in Processes : pc'[q] # "have"
    BY <2>1, <2>3 DEF KeyInv, KeyTypeOK
  <2>7. MoveIsSafe' /\ WriterIsAlone' /\ ReadersSawAFile' /\ HoldersAgree'
    BY <2>1, <2>2, <2>6 DEF MoveIsSafe, WriterIsAlone, ReadersSawAFile, HoldersAgree
  <2>8. SecretsOpen'
    BY <2>1, <2>4 DEF SecretsOpen, Readable, Opens
  <2> QED BY <2>5, <2>7, <2>8 DEF KeyInv
<1> QED BY <1>1, <1>2

\* Only the creator writes, and while it does nobody holds a key.
LEMMA WriteKeepsInv ==
  ASSUME KeyInv, NEW p \in Processes, WriteKey(p)
  PROVE  KeyInv'
<1>1. /\ pc[p] = "write" /\ pc' = [pc EXCEPT ![p] = "have"]
      /\ file = Empty /\ key[p] \in Keys /\ file' = key[p]
      /\ UNCHANGED <<legacy, key, sealed>>
  BY DEF WriteKey, Moves, KeyInv, WriterIsAlone
<1>2. \A q \in Processes : pc[q] # "have" /\ (pc[q] = "write" => q = p)
  BY <1>1 DEF KeyInv, WriterIsAlone, HoldersAgree
<1>3. KeyTypeOK'
  BY <1>1 DEF KeyInv, KeyTypeOK, Calls
<1>4. /\ \A q \in Processes : pc'[q] # "write"
      /\ \A q \in Processes : pc'[q] = "have" => q = p
      /\ \A q \in Processes : pc'[q] \in {"check legacy", "rename"} => pc[q] = pc'[q]
  BY <1>1, <1>2 DEF KeyInv, KeyTypeOK
<1>5. MoveIsSafe'
  BY <1>1, <1>4 DEF KeyInv, MoveIsSafe
<1>6. WriterIsAlone' /\ ReadersSawAFile' /\ HoldersAgree'
  BY <1>1, <1>4 DEF WriterIsAlone, ReadersSawAFile, HoldersAgree
<1>7. SecretsOpen'
  <2>1. \A s \in Secrets : sealed[s] = NoKey
    BY <1>1 DEF KeyInv, KeyTypeOK, SecretsOpen, Readable, Opens, StoredKey
  <2> QED BY <1>1, <2>1 DEF SecretsOpen, Readable, Opens
<1> QED BY <1>3, <1>5, <1>6, <1>7 DEF KeyInv

\* A reader takes what is in the file, or fails while it is empty.
LEMMA ReadKeepsInv ==
  ASSUME KeyInv, NEW p \in Processes, ReadKey(p)
  PROVE  KeyInv'
<1>0. pc[p] = "read" /\ UNCHANGED <<file, legacy, sealed>>
  BY DEF ReadKey, Moves
<1>2. CASE file = Empty
  <2>1. pc' = [pc EXCEPT ![p] = "idle"] /\ key' = [key EXCEPT ![p] = NoKey]
    BY <1>2 DEF ReadKey, Moves
  <2>2. KeyTypeOK' /\ MoveIsSafe' /\ SecretsOpen'
    BY <1>0, <2>1 DEF KeyInv, KeyTypeOK, MoveIsSafe, SecretsOpen, Readable, Opens, StoredKey, Calls
  <2>3. WriterIsAlone' /\ ReadersSawAFile' /\ HoldersAgree'
    BY <1>0, <1>2, <2>1 DEF KeyInv, KeyTypeOK, WriterIsAlone, ReadersSawAFile, HoldersAgree
  <2> QED BY <2>2, <2>3 DEF KeyInv
<1>3. CASE file # Empty
  <2>1. pc' = [pc EXCEPT ![p] = "have"] /\ key' = [key EXCEPT ![p] = file]
    BY <1>3 DEF ReadKey, Moves
  <2>2. file # NoKey
    BY <1>0 DEF KeyInv, ReadersSawAFile
  <2>3. KeyTypeOK'
    BY <1>0, <1>3, <2>1, <2>2 DEF KeyInv, KeyTypeOK, Calls
  <2>4. WriterIsAlone' /\ ReadersSawAFile' /\ HoldersAgree'
    BY <1>0, <1>3, <2>1, <2>2 DEF KeyInv, KeyTypeOK, WriterIsAlone, ReadersSawAFile, HoldersAgree
  <2>5. MoveIsSafe' /\ SecretsOpen'
    BY <1>0, <2>1 DEF KeyInv, KeyTypeOK, MoveIsSafe, SecretsOpen, Readable, Opens, StoredKey
  <2> QED BY <2>3, <2>4, <2>5 DEF KeyInv
<1> QED BY <1>2, <1>3

\* A secret is sealed with a key that is in the file.
LEMMA SealKeepsInv ==
  ASSUME KeyInv, NEW p \in Processes, Seal(p)
  PROVE  KeyInv'
<1>1. PICK s \in Secrets :
        /\ pc[p] = "have" /\ pc' = [pc EXCEPT ![p] = "idle"]
        /\ sealed' = [sealed EXCEPT ![s] = key[p]]
        /\ UNCHANGED <<file, legacy, key>>
  BY DEF Seal, Moves
<1>2. key[p] \in Keys /\ key[p] = file
  BY <1>1 DEF KeyInv, HoldersAgree
<1>3. KeyTypeOK' /\ SecretsOpen'
  BY <1>1, <1>2 DEF KeyInv, KeyTypeOK, SecretsOpen, Readable, Opens, StoredKey, Calls
<1>4. MoveIsSafe' /\ WriterIsAlone' /\ ReadersSawAFile' /\ HoldersAgree'
  BY <1>1 DEF KeyInv, KeyTypeOK, MoveIsSafe, WriterIsAlone, ReadersSawAFile, HoldersAgree
<1> QED BY <1>3, <1>4 DEF KeyInv

\* One case per action.
LEMMA StepKeepsInv ==
  ASSUME KeyInv, KeyNext
  PROVE  KeyInv'
<1>1. ASSUME NEW p \in Processes, KeyStep(p)
      PROVE  KeyInv'
  <2>1. CASE FromEnv(p)
    BY <2>1, WalkKeepsInv DEF FromEnv, Moves, Calls
  <2>2. CASE CheckKey(p)
    <3>1. CASE file # NoKey
      BY <2>2, <3>1, WalkKeepsInv DEF CheckKey, Moves, Calls
    <3>2. CASE file = NoKey
      BY <2>2, <3>2, WalkKeepsInv DEF CheckKey, Moves, Calls
    <3> QED BY <3>1, <3>2
  <2>3. CASE CheckLegacy(p)
    <3>1. CASE legacy # NoKey
      <4>1. file = NoKey
        BY <2>3, <3>1 DEF CheckLegacy, Moves, KeyInv, MoveIsSafe
      <4> QED BY <2>3, <3>1, <4>1, WalkKeepsInv DEF CheckLegacy, Moves, Calls
    <3>2. CASE legacy = NoKey
      BY <2>3, <3>2, WalkKeepsInv DEF CheckLegacy, Moves, Calls
    <3> QED BY <3>1, <3>2
  <2>4. CASE MoveLegacy(p)
    BY <2>4, RenameKeepsInv
  <2>5. CASE LookAgain(p)
    <3>1. CASE file # NoKey
      BY <2>5, <3>1, WalkKeepsInv DEF LookAgain, Moves, Calls
    <3>2. CASE file = NoKey
      <4>1. legacy = NoKey
        BY <2>5, <3>2 DEF LookAgain, Moves, KeyInv, MoveIsSafe
      <4> QED BY <2>5, <3>2, <4>1, WalkKeepsInv DEF LookAgain, Moves, Calls
    <3> QED BY <3>1, <3>2
  <2>6. CASE CreateKey(p)
    BY <2>6, CreateKeepsInv
  <2>7. CASE WriteKey(p)
    BY <2>7, WriteKeepsInv
  <2>8. CASE ReadKey(p)
    BY <2>8, ReadKeepsInv
  <2>9. CASE Seal(p)
    BY <2>9, SealKeepsInv
  <2>10. CASE AbandonKey(p)
    BY <2>10, WalkKeepsInv DEF AbandonKey, Calls
  <2> QED BY <1>1, <2>1, <2>2, <2>3, <2>4, <2>5, <2>6, <2>7, <2>8, <2>9, <2>10 DEF KeyStep
<1>2. ASSUME NEW s \in Secrets, ClearSecret(s)
      PROVE  KeyInv'
  BY <1>2 DEF ClearSecret, KeyInv, KeyTypeOK, MoveIsSafe, WriterIsAlone, ReadersSawAFile,
              HoldersAgree, SecretsOpen, Readable, Opens, StoredKey
<1> QED BY <1>1, <1>2 DEF KeyNext

\* The inductive invariant of the key file holds throughout.
LEMMA KeyInvIsInvariant == KeySpec => []KeyInv
<1>1. KeyInv /\ [KeyNext]_keyVars => KeyInv'
  <2> SUFFICES ASSUME KeyInv, UNCHANGED keyVars PROVE KeyInv'
    BY StepKeepsInv
  <2> QED BY DEF keyVars, KeyInv, KeyTypeOK, MoveIsSafe, WriterIsAlone, ReadersSawAFile,
                 HoldersAgree, SecretsOpen, Readable, Opens, StoredKey
<1> QED BY InitKeyInv, <1>1, PTL DEF KeySpec

\* No start of several programs, and no death of one between two system calls, leaves a
\* password or an API key sealed with a key that is not the one in the file.
THEOREM SecretsAlwaysOpen == KeySpec => []SecretsOpen
<1>1. KeyInv => SecretsOpen
  BY DEF KeyInv
<1> QED BY KeyInvIsInvariant, <1>1, PTL

HIDE KeyAssumption

(***************************************************************************)
(* The toolbox serves what is shown as working.  The invariant: what the   *)
(* files and the server have is in step with the rows, or the holder of the *)
(* lock has still to bring it there.                                       *)
(***************************************************************************)

Holding == {"test", "answers", "refuses", "wait empty", "render", "passwords", "write",
            "wait names", "mark", "empty"}

CallType == [pc : Holding \union {"idle", "lock", "mark own"},
             op : {"none", "write", "delete", "test", "start"}, own : SUBSET Conns, todo : SUBSET Conns,
             probe : SUBSET Conns, unwritten : SUBSET (Conns \X Nat)]

RowType == [there : BOOLEAN, enabled : BOOLEAN, ok : BOOLEAN, version : Nat]

ToolTypes ==
  /\ rows \in [Conns -> RowType]
  /\ files \in [Conns -> Nat] /\ served \in [Conns -> Nat]
  /\ server \in [Callers -> Servers] /\ lock \in SUBSET Callers
  /\ call \in [Callers -> CallType]
  /\ blind \in BOOLEAN

\* A lock is held by each request in the middle of a sync, and by one alone unless syncs of
\* two processes have overlapped.
ToolLocked ==
  /\ \A k \in Callers : call[k].pc \in Holding <=> k \in lock
  /\ ~blind => \A j, k \in lock : j = k

\* A request that changed a row, or emptied the files, and has yet to sync.
Pending == \E k \in Callers : At(k, "lock")

Current(versions) == \A c \in Conns : versions[c] \in {0, rows[c].version}

\* What a sync has established at each of its steps, unless a change came in between.
Published(k) ==
  /\ call[k].pc \in {"wait empty", "render", "passwords", "write", "wait names"} => Current(files)
  /\ call[k].pc \in {"render", "passwords", "write", "wait names"} => Current(served)
  /\ call[k].pc \in {"passwords", "write"} =>
       /\ \A f \in call[k].unwritten : f[2] = rows[f[1]].version
       /\ \A c \in Active : Rendered(c) \in call[k].unwritten \/ files[c] = rows[c].version
  /\ call[k].pc = "wait names" => \A c \in Active : files[c] = rows[c].version
  /\ call[k].pc = "empty" => Active = {}

AtRest == lock = {} => \A c \in Active : files[c] = rows[c].version /\ served[c] = rows[c].version

ToolInv ==
  /\ ToolTypes /\ ToolLocked
  /\ ~blind /\ ~Pending => AtRest /\ \A k \in Callers : Published(k)

\* Nothing enabled and nobody at work.
LEMMA ToolInitInv == ToolInit => ToolInv
<1> SUFFICES ASSUME ToolInit PROVE ToolInv OBVIOUS
<1>1. ToolTypes
  BY DEF ToolInit, ToolTypes, RowType, CallType, NoRow, NoCall, NoFiles
<1>2. ToolLocked
  BY DEF ToolInit, ToolLocked, NoCall, Holding
<1>3. Active = {} BY DEF ToolInit, Active, Enabled, NoRow
<1>4. AtRest BY <1>3 DEF AtRest
<1>5. \A k \in Callers : Published(k)
  BY DEF ToolInit, Published, NoCall
<1> QED BY <1>1, <1>2, <1>4, <1>5 DEF ToolInv

\* A row stays one when the result of a test is written,
LEMMA SetResultType ==
  ASSUME NEW ids, NEW ok \in BOOLEAN, rows \in [Conns -> RowType]
  PROVE  /\ SetResult(ids, ok) \in [Conns -> RowType]
         /\ \A c \in Conns : /\ SetResult(ids, ok)[c].version = rows[c].version
                             /\ SetResult(ids, ok)[c].enabled = rows[c].enabled
                             /\ SetResult(ids, ok)[c].there = rows[c].there
                             /\ SetResult(ids, ok)[c].ok = rows[c].ok \/ (c \in ids /\ rows[c].there)
                             /\ (c \in ids /\ rows[c].there) => SetResult(ids, ok)[c].ok = ok
<1>1. ASSUME NEW c \in Conns
      PROVE  /\ SetResult(ids, ok)[c] \in RowType
             /\ SetResult(ids, ok)[c].version = rows[c].version
             /\ SetResult(ids, ok)[c].enabled = rows[c].enabled
             /\ SetResult(ids, ok)[c].there = rows[c].there
             /\ SetResult(ids, ok)[c].ok = rows[c].ok \/ (c \in ids /\ rows[c].there)
             /\ (c \in ids /\ rows[c].there) => SetResult(ids, ok)[c].ok = ok
  <2>1. rows[c] \in RowType OBVIOUS
  <2>2. CASE c \in ids /\ rows[c].there
    <3>1. SetResult(ids, ok)[c] = [rows[c] EXCEPT !.ok = ok]
      BY <2>2 DEF SetResult
    <3> QED BY <2>1, <2>2, <3>1 DEF RowType
  <2>3. CASE ~(c \in ids /\ rows[c].there)
    <3>1. SetResult(ids, ok)[c] = rows[c]
      BY <2>3 DEF SetResult
    <3> QED BY <2>1, <2>3, <3>1
  <2> QED BY <2>2, <2>3
<1>2. SetResult(ids, ok) = [c \in Conns |-> SetResult(ids, ok)[c]]
  BY DEF SetResult
<1> QED BY <1>1, <1>2

\* or an update of its owner.
LEMMA UpdatedType ==
  ASSUME NEW row \in RowType, NEW on \in BOOLEAN
  PROVE  Updated(row, on) \in RowType
<1>1. row.version + 1 \in Nat BY DEF RowType
<1>2. Updated(row, on) = [row EXCEPT !.enabled = on, !.ok = FALSE, !.version = row.version + 1]
  BY DEF Updated
<1> QED BY <1>1, <1>2 DEF RowType

\* The types, one handler at a time.
LEMMA ToolTypesStep == ToolTypes /\ [ToolNext]_toolVars => ToolTypes'
<1> SUFFICES ASSUME ToolTypes, [ToolNext]_toolVars PROVE ToolTypes'
  OBVIOUS
<1> USE DEF ToolTypes
<1>r. /\ NoCall \in CallType
      /\ NoFiles \in [Conns -> Nat]
  BY DEF NoCall, CallType, NoFiles
<1>o. ASSUME NEW k \in Callers, NEW op \in {"write", "delete", "test", "start"}, NEW own \in SUBSET Conns,
             Open(k, op, own, "lock")
      PROVE  call' \in [Callers -> CallType]
  <2>1. [NoCall EXCEPT !.pc = "lock", !.op = op, !.own = own] \in CallType
    BY DEF NoCall, CallType
  <2> QED BY <1>o, <2>1 DEF Open
<1>w. ASSUME NEW k \in Callers, NEW op \in {"write", "delete", "test", "start"}, NEW own \in SUBSET Conns,
             Open(k, op, own, "lock"), rows' \in [Conns -> RowType],
             UNCHANGED <<files, served, server, lock, toolFaults, blind>>
      PROVE  ToolTypes'
  BY <1>o, <1>w
<1>g. ASSUME NEW k \in Callers, NEW to \in Holding \union {"mark own"}, Go(k, to)
      PROVE  call' \in [Callers -> CallType]
  <2>1. [call[k] EXCEPT !.pc = to] \in CallType
    BY ZenonT(60) DEF CallType
  <2> QED BY <1>g, <2>1 DEF Go
<1>1. ASSUME NEW k \in Callers, NEW c \in Conns, CreateDatabase(k, c) PROVE ToolTypes'
  <2>1. PICK on \in BOOLEAN :
          rows' = [rows EXCEPT ![c] = [there |-> TRUE, enabled |-> on, ok |-> FALSE, version |-> 1]]
    BY <1>1 DEF CreateDatabase
  <2>2. [there |-> TRUE, enabled |-> on, ok |-> FALSE, version |-> 1] \in RowType
    BY DEF RowType
  <2>3. rows' \in [Conns -> RowType] BY <2>1, <2>2
  <2>4. Open(k, "write", {c}, "lock") /\ UNCHANGED <<files, served, server, lock, toolFaults, blind>>
    BY <1>1 DEF CreateDatabase
  <2> HIDE DEF ToolTypes
  <2> QED BY <1>w, <2>3, <2>4
<1>2. ASSUME NEW k \in Callers, NEW c \in Conns, UpdateDatabase(k, c) PROVE ToolTypes'
  <2>1. PICK on \in BOOLEAN : rows' = [rows EXCEPT ![c] = Updated(rows[c], on)]
    BY <1>2 DEF UpdateDatabase
  <2>2. Updated(rows[c], on) \in RowType
    BY UpdatedType
  <2>3. rows' \in [Conns -> RowType] BY <2>1, <2>2
  <2>4. Open(k, "write", {c}, "lock") /\ UNCHANGED <<files, served, server, lock, toolFaults, blind>>
    BY <1>2 DEF UpdateDatabase
  <2> HIDE DEF ToolTypes
  <2> QED BY <1>w, <2>3, <2>4
<1>3. ASSUME NEW k \in Callers, NEW c \in Conns, DeleteDatabase(k, c) PROVE ToolTypes'
  <2>2. [rows[c] EXCEPT !.there = FALSE, !.enabled = FALSE, !.ok = FALSE] \in RowType
    BY DEF RowType
  <2>3. rows' \in [Conns -> RowType] BY <1>3, <2>2 DEF DeleteDatabase
  <2>4. Open(k, "delete", {}, "lock") /\ UNCHANGED <<files, served, server, lock, toolFaults, blind>>
    BY <1>3 DEF DeleteDatabase
  <2> HIDE DEF ToolTypes
  <2> QED BY <1>w, <2>3, <2>4
<1>4. ASSUME NEW k \in Callers, NEW c \in Conns, TestDatabase(k, c) PROVE ToolTypes'
  <2>3. rows' \in [Conns -> RowType] BY <1>4, SetResultType DEF TestDatabase
  <2>4. Open(k, "test", {}, "lock") /\ UNCHANGED <<files, served, server, lock, toolFaults, blind>>
    BY <1>4 DEF TestDatabase
  <2> HIDE DEF ToolTypes
  <2> QED BY <1>w, <2>3, <2>4
<1>5. ASSUME NEW k \in Callers, StartServices(k) PROVE ToolTypes'
  <2>0. CASE Open(k, "start", {}, "lock") /\ UNCHANGED blind
    BY <1>5, <1>r, <2>0, <1>o DEF StartServices, Emptied
  <2>1. CASE blind' = TRUE /\ UNCHANGED call
    BY <1>5, <1>r, <2>1 DEF StartServices, Emptied
  <2> QED BY <1>5, <2>0, <2>1 DEF StartServices
<1>6. ASSUME NEW k \in Callers, Acquire(k) PROVE ToolTypes'
  <2>1. [call[k] EXCEPT !.pc = "test", !.todo = Enabled] \in CallType
    BY ZenonT(60) DEF CallType, Enabled, Holding
  <2>2. call' \in [Callers -> CallType] BY <1>6, <2>1 DEF Acquire
  <2> QED BY <1>6, <2>2 DEF Acquire
<1>7. ASSUME NEW k \in Callers, Test(k) PROVE ToolTypes'
  <2>1. PICK c \in call[k].todo :
          \/ \E to \in Verdicts :
                call' = [call EXCEPT ![k].pc = to, ![k].todo = @ \ {c}, ![k].probe = {c}]
          \/ Go(k, "mark")
    BY <1>7 DEF Test
  <2>2. c \in Conns /\ call[k] \in CallType BY DEF CallType
  <2>3. ASSUME NEW to \in Verdicts
        PROVE  [call[k] EXCEPT !.pc = to, !.todo = @ \ {c}, !.probe = {c}] \in CallType
    BY <2>2 DEF CallType, Verdicts, Holding
  <2>4. call' \in [Callers -> CallType] BY <2>1, <2>3, <1>g DEF Holding
  <2> QED BY <1>7, <2>4 DEF Test
<1>8. ASSUME NEW k \in Callers, Record(k) PROVE ToolTypes'
  <2>1. rows' \in [Conns -> RowType] BY <1>8, SetResultType DEF Record, At
  <2>2. [call[k] EXCEPT !.pc = "test", !.probe = {}] \in CallType BY ZenonT(60) DEF CallType, Holding
  <2>3. call' \in [Callers -> CallType] BY <1>8, <2>2 DEF Record
  <2> QED BY <1>8, <2>1, <2>3 DEF Record
<1>9. ASSUME NEW k \in Callers, NothingActive(k) PROVE ToolTypes'
  BY <1>9, <1>r DEF NothingActive, Emptied, Return
<1>10. ASSUME NEW k \in Callers, Reset(k) \/ WaitEmpty(k) \/ TimeOut(k) PROVE ToolTypes'
  <2>1. call' \in [Callers -> CallType]
    BY <1>10, <1>g DEF Reset, WaitEmpty, TimeOut, Holding
  <2> QED BY <1>10, <1>r, <2>1 DEF Reset, WaitEmpty, TimeOut, Emptied
<1>11. ASSUME NEW k \in Callers, Render(k) PROVE ToolTypes'
  <2>1. {Rendered(c) : c \in Active} \in SUBSET (Conns \X Nat)
    BY DEF Rendered, Active, Enabled, RowType
  <2>2. [call[k] EXCEPT !.pc = "passwords", !.unwritten = {Rendered(c) : c \in Active}] \in CallType
    BY ZenonT(60), <2>1 DEF CallType, Holding
  <2>3. call' \in [Callers -> CallType] BY <1>11, <2>2 DEF Render
  <2> QED BY <1>11, <2>3 DEF Render
<1>12. ASSUME NEW k \in Callers, Passwords(k) PROVE ToolTypes'
  <2>1. call' \in [Callers -> CallType]
    BY <1>12, <1>g DEF Passwords, Holding
  <2> QED BY <1>12, <1>r, <2>1 DEF Passwords, Emptied
<1>13. ASSUME NEW k \in Callers, WriteFile(k) PROVE ToolTypes'
  <2>1. CASE call[k].unwritten = {}
    <3>1. call' \in [Callers -> CallType] BY <1>13, <1>g, <2>1 DEF WriteFile, Holding
    <3> QED BY <1>13, <2>1, <3>1 DEF WriteFile
  <2>2. CASE call[k].unwritten # {}
    <3>1. PICK f \in call[k].unwritten : /\ files' = [files EXCEPT ![f[1]] = f[2]]
                                         /\ call' = [call EXCEPT ![k].unwritten = @ \ {f}]
      BY <1>13, <2>2 DEF WriteFile
    <3>2. f \in Conns \X Nat BY DEF CallType
    <3>3. [call[k] EXCEPT !.unwritten = @ \ {f}] \in CallType BY ZenonT(60) DEF CallType
    <3>4. call' \in [Callers -> CallType] BY <3>1, <3>3
    <3>5. files' \in [Conns -> Nat] BY <3>1, <3>2
    <3> QED BY <1>13, <3>4, <3>5 DEF WriteFile
  <2> QED BY <2>1, <2>2
<1>14. ASSUME NEW k \in Callers, WaitNames(k) PROVE ToolTypes'
  BY <1>14, <1>r DEF WaitNames, Return
<1>15. ASSUME NEW k \in Callers, MarkAll(k) PROVE ToolTypes'
  <2>1. rows' \in [Conns -> RowType] BY <1>15, SetResultType DEF MarkAll
  <2>2. call' \in [Callers -> CallType] BY <1>15, <1>g DEF MarkAll, Holding
  <2> QED BY <1>15, <2>1, <2>2 DEF MarkAll
<1>16. ASSUME NEW k \in Callers, EmptyToolbox(k) PROVE ToolTypes'
  <2>1. call' \in [Callers -> CallType] BY <1>16, <1>g, <1>r DEF EmptyToolbox, Return
  <2> QED BY <1>16, <1>r, <2>1 DEF EmptyToolbox, Emptied
<1>17. ASSUME NEW k \in Callers, MarkOwn(k) PROVE ToolTypes'
  <2>1. rows' \in [Conns -> RowType] BY <1>17, SetResultType DEF MarkOwn
  <2> QED BY <1>17, <1>r, <2>1 DEF MarkOwn, Return
<1>18. ASSUME NEW k \in Callers, PublishFails(k) \/ ToolFault(k) \/ Drop(k) PROVE ToolTypes'
  <2>1. call' \in [Callers -> CallType]
    <3>1. Go(k, "mark") \/ Go(k, "mark own") \/ Return(k)
      BY <1>18 DEF PublishFails, ToolFault, Drop
    <3> QED BY <1>g, <1>r, <3>1 DEF Return, Holding
  <2> QED BY <1>18, <2>1 DEF PublishFails, ToolFault, Drop
<1>19. CASE ToolCrash
  <2>1. [NoCall EXCEPT !.pc = "lock", !.op = "start"] \in CallType
    BY DEF NoCall, CallType
  <2>2. PICK k \in Callers, dead \in SUBSET Callers :
          /\ lock' = lock \ dead
          /\ call' = [j \in Callers |-> IF j = k THEN [NoCall EXCEPT !.pc = "lock", !.op = "start"]
                                       ELSE IF j \in dead THEN NoCall ELSE call[j]]
    BY <1>19 DEF ToolCrash
  <2>3. call' \in [Callers -> CallType] BY <1>r, <2>1, <2>2
  <2> QED BY <1>19, <1>r, <2>2, <2>3 DEF ToolCrash, Emptied
<1>20. CASE Reload \/ UNCHANGED toolVars
  BY <1>20 DEF Reload, toolVars
<1> QED
  BY <1>1, <1>2, <1>3, <1>4, <1>5, <1>6, <1>7, <1>8, <1>9, <1>10, <1>11, <1>12, <1>13, <1>14,
     <1>15, <1>16, <1>17, <1>18, <1>19, <1>20 DEF ToolNext, Change, Sync
\* One request moves: the lock goes with it.
LEMMA LockMoves ==
  ASSUME ToolTypes, ToolLocked, NEW k \in Callers,
         \A j \in Callers \ {k} : call'[j].pc = call[j].pc,
         \/ /\ lock' = lock /\ (call'[k].pc \in Holding <=> call[k].pc \in Holding)
            /\ ~blind' => ~blind
         \/ lock' = lock \ {k} /\ call'[k].pc \notin Holding /\ (~blind' => ~blind)
         \/ lock' = lock \union {k} /\ call'[k].pc \in Holding /\ (~blind' => lock = {})
  PROVE  ToolLocked'
<1>1. ASSUME NEW j \in Callers PROVE call'[j].pc \in Holding <=> j \in lock'
  <2>1. CASE j = k BY <2>1 DEF ToolLocked
  <2>2. CASE j # k BY <2>2 DEF ToolLocked
  <2> QED BY <2>1, <2>2
<1>2. ~blind' => \A i, j \in lock' : i = j
  BY DEF ToolLocked
<1> QED BY <1>1, <1>2 DEF ToolLocked

\* Every step keeps the lock with who is inside.
LEMMA ToolLockedStep == ToolTypes /\ ToolLocked /\ [ToolNext]_toolVars => ToolLocked'
<1> SUFFICES ASSUME ToolTypes, ToolLocked, [ToolNext]_toolVars PROVE ToolLocked'
  OBVIOUS
<1>p. ASSUME NEW k \in Callers, NEW to, Go(k, to)
      PROVE  call'[k].pc = to /\ \A j \in Callers \ {k} : call'[j] = call[j]
  BY <1>p DEF Go, ToolTypes, CallType
<1>q. ASSUME NEW k \in Callers, Return(k)
      PROVE  call'[k].pc = "idle" /\ \A j \in Callers \ {k} : call'[j] = call[j]
  BY <1>q DEF Return, NoCall, ToolTypes, CallType
<1>1. ASSUME NEW k \in Callers, Change(k) PROVE ToolLocked'
  <2>1. At(k, "idle") /\ lock' = lock
    BY <1>1 DEF Change, CreateDatabase, UpdateDatabase, DeleteDatabase, TestDatabase, StartServices
  <2>b. blind' = blind \/ blind' = TRUE
    BY ZenonT(60), <1>1 DEF Change, CreateDatabase, UpdateDatabase, DeleteDatabase, TestDatabase, StartServices
  <2>2. (\E op, own : Open(k, op, own, "lock")) \/ call' = call
    BY <1>1 DEF Change, CreateDatabase, UpdateDatabase, DeleteDatabase, TestDatabase, StartServices
  <2>3. call'[k].pc \in {"idle", "lock"} /\ \A j \in Callers \ {k} : call'[j] = call[j]
    BY ZenonT(60), <2>1, <2>2 DEF Open, NoCall, At, ToolTypes, CallType
  <2>4. call'[k].pc \notin Holding /\ call[k].pc \notin Holding
    BY <2>1, <2>3 DEF At, Holding
  <2>5. ~blind' => ~blind BY <2>b
  <2> QED BY <2>1, <2>3, <2>4, <2>5, LockMoves
<1>2. ASSUME NEW k \in Callers, Acquire(k) PROVE ToolLocked'
  <2>1. call'[k].pc = "test" /\ \A j \in Callers \ {k} : call'[j] = call[j]
    BY <1>2 DEF Acquire, ToolTypes, CallType
  <2> QED BY <1>2, <2>1, LockMoves DEF Acquire, Holding
<1>3. ASSUME NEW k \in Callers,
             \/ Test(k) \/ Record(k) \/ Reset(k) \/ WaitEmpty(k) \/ Render(k)
             \/ Passwords(k) \/ WriteFile(k) \/ TimeOut(k) \/ MarkAll(k) \/ PublishFails(k)
      PROVE  ToolLocked'
  <2>1. lock' = lock /\ blind' = blind
    BY <1>3 DEF Test, Record, Reset, WaitEmpty, Render, Passwords, WriteFile, TimeOut, MarkAll, PublishFails
  <2>2. call[k].pc \in Holding
    BY <1>3 DEF Test, Record, Reset, WaitEmpty, Render, Passwords, WriteFile, TimeOut, MarkAll,
                PublishFails, Publishing, At, Holding, Verdicts
  <2>3. call'[k].pc \in Holding /\ \A j \in Callers \ {k} : call'[j] = call[j]
    <3>1. CASE Test(k)
      <4>1. CASE \E c \in call[k].todo, to \in Verdicts :
                   call' = [call EXCEPT ![k].pc = to, ![k].todo = @ \ {c}, ![k].probe = {c}]
        <5>1. PICK c \in call[k].todo, to \in Verdicts :
                     call' = [call EXCEPT ![k].pc = to, ![k].todo = @ \ {c}, ![k].probe = {c}]
          BY <4>1
        <5>2. to \in Holding BY DEF Verdicts, Holding
        <5>3. call[k] \in CallType /\ DOMAIN call = Callers BY DEF ToolTypes
        <5>4. call'[k].pc = to /\ \A j \in Callers \ {k} : call'[j] = call[j] BY <5>1, <5>3 DEF CallType
        <5> QED BY <5>2, <5>4
      <4>2. CASE Go(k, "mark")
        BY <1>p, <4>2 DEF Holding
      <4> QED BY <3>1, <4>1, <4>2 DEF Test
    <3>2. CASE Record(k) \/ Render(k)
      BY ZenonT(60), <3>2 DEF Record, Render, Holding, ToolTypes, CallType
    <3>3. CASE Reset(k) \/ WaitEmpty(k) \/ Passwords(k) \/ TimeOut(k) \/ MarkAll(k) \/ PublishFails(k)
      BY <1>p, <3>3 DEF Reset, WaitEmpty, Passwords, TimeOut, MarkAll, PublishFails, Holding
    <3>4. CASE WriteFile(k)
      <4>1. CASE \E f \in call[k].unwritten : call' = [call EXCEPT ![k].unwritten = @ \ {f}]
        <5>1. PICK f \in call[k].unwritten : call' = [call EXCEPT ![k].unwritten = @ \ {f}]
          BY <4>1
        <5>2. call'[k].pc = call[k].pc /\ \A j \in Callers \ {k} : call'[j] = call[j]
          BY <5>1 DEF ToolTypes, CallType
        <5> QED BY <2>2, <5>2
      <4>2. CASE Go(k, "wait names")
        BY <1>p, <4>2 DEF Holding
      <4> QED BY <3>4, <4>1, <4>2 DEF WriteFile
    <3> QED BY SMTT(40), <1>3, <3>1, <3>2, <3>3, <3>4
  <2> QED BY <2>1, <2>2, <2>3, LockMoves
<1>4. ASSUME NEW k \in Callers,
             NothingActive(k) \/ WaitNames(k) \/ EmptyToolbox(k) \/ ToolFault(k) \/ Drop(k)
      PROVE  ToolLocked'
  <2>1. lock' = lock \ {k}
    BY <1>4 DEF NothingActive, WaitNames, EmptyToolbox, ToolFault, Drop
  <2>b. blind' = blind \/ blind' = TRUE
    BY ZenonT(60), <1>4 DEF NothingActive, WaitNames, EmptyToolbox, ToolFault, Drop
  <2>2. Return(k) \/ Go(k, "mark own")
    BY <1>4 DEF NothingActive, WaitNames, EmptyToolbox, ToolFault, Drop
  <2>3. call'[k].pc \notin Holding /\ \A j \in Callers \ {k} : call'[j] = call[j]
    <3>1. CASE Return(k) BY <1>q, <3>1 DEF Holding
    <3>2. CASE Go(k, "mark own")
      <4>1. call'[k].pc = "mark own" /\ \A j \in Callers \ {k} : call'[j] = call[j]
        BY <1>p, <3>2
      <4> QED BY <4>1 DEF Holding
    <3> QED BY <2>2, <3>1, <3>2
  <2> QED BY <2>1, <2>b, <2>3, LockMoves
<1>5. ASSUME NEW k \in Callers, MarkOwn(k) PROVE ToolLocked'
  BY <1>5, <1>q, LockMoves DEF MarkOwn, At, Holding
<1>6. CASE ToolCrash
  <2>1. PICK k \in Callers, dead \in SUBSET Callers :
          /\ k \in dead /\ lock' = lock \ dead
          /\ call' = [j \in Callers |-> IF j = k THEN [NoCall EXCEPT !.pc = "lock", !.op = "start"]
                                       ELSE IF j \in dead THEN NoCall ELSE call[j]]
    BY <1>6 DEF ToolCrash
  <2>2. /\ [NoCall EXCEPT !.pc = "lock", !.op = "start"].pc \notin Holding
        /\ NoCall.pc \notin Holding
    BY DEF NoCall, Holding
  <2>3. ASSUME NEW j \in Callers PROVE call'[j].pc \in Holding <=> j \in lock'
    <3>1. CASE j \in dead
      <4>1. call'[j].pc \notin Holding BY <2>1, <2>2, <3>1
      <4> QED BY <2>1, <3>1, <4>1
    <3>2. CASE j \notin dead
      <4>1. call'[j] = call[j] BY <2>1, <3>2
      <4> QED BY <2>1, <3>2, <4>1 DEF ToolLocked
    <3> QED BY <3>1, <3>2
  <2>4. blind' = blind BY <1>6 DEF ToolCrash
  <2>5. ~blind' => \A i, j \in lock' : i = j BY <2>1, <2>4 DEF ToolLocked
  <2> QED BY <2>3, <2>5 DEF ToolLocked
<1>7. CASE Reload \/ UNCHANGED toolVars
  BY <1>7 DEF Reload, toolVars, ToolLocked
<1> QED BY <1>1, <1>2, <1>3, <1>4, <1>5, <1>6, <1>7 DEF ToolNext, Sync

----------------------------------------------------------------------------
\* Only the holder of the lock has published anything.
LEMMA PublishedByHolder ==
  ASSUME ToolLocked', AtRest', \A k \in Callers : k \in lock' => Published(k)'
  PROVE  AtRest' /\ \A k \in Callers : Published(k)'
<1> SUFFICES ASSUME NEW k \in Callers, k \notin lock' PROVE Published(k)'
  OBVIOUS
<1>1. call'[k].pc \notin Holding BY DEF ToolLocked
<1> QED BY <1>1 DEF Published, Holding

\* A request in the middle of its sync goes on, and nothing is pending that was not before.
LEMMA HolderGoesOn ==
  ASSUME ToolInv, ToolTypes', ToolLocked', NEW k \in Callers, call[k].pc \in Holding,
         lock' = lock, blind' = blind, ~blind', ~Pending',
         \A j \in Callers \ {k} : call'[j] = call[j],
         Published(k) => Published(k)'
  PROVE  AtRest' /\ \A j \in Callers : Published(j)'
<1>1. k \in lock /\ \A j \in lock : j = k BY DEF ToolInv, ToolLocked
<1>2. ~Pending
  BY DEF Pending, At, Holding
<1>3. Published(k)' BY <1>2 DEF ToolInv
<1>4. AtRest' BY <1>1 DEF AtRest
<1>5. \A j \in Callers : j \in lock' => Published(j)' BY <1>1, <1>3
<1> QED BY <1>4, <1>5, PublishedByHolder

\* A sync ends: the lock is free, and what is active is served.
LEMMA HolderLeaves ==
  ASSUME ToolInv, ToolTypes', ToolLocked', NEW k \in Callers, call[k].pc \in Holding,
         lock' = lock \ {k}, blind' = blind, ~blind', ~Pending',
         \A j \in Callers \ {k} : call'[j] = call[j],
         Published(k) => AtRest'
  PROVE  AtRest' /\ \A j \in Callers : Published(j)'
<1>2. ~Pending
  BY DEF Pending, At, Holding
<1>3. AtRest' BY <1>2 DEF ToolInv
<1>4. \A j \in lock : j = k BY DEF ToolInv, ToolLocked
<1>5. \A j \in Callers : j \notin lock' BY <1>4
<1> QED BY <1>3, <1>5, PublishedByHolder

\* Who goes on moves alone.
LEMMA MovesGo ==
  ASSUME ToolTypes, NEW k \in Callers, NEW to, Go(k, to)
  PROVE  /\ call'[k].pc = to /\ call'[k].unwritten = call[k].unwritten
         /\ \A j \in Callers \ {k} : call'[j] = call[j]
BY DEF Go, ToolTypes, CallType

\* So does who answers.
LEMMA MovesReturn ==
  ASSUME ToolTypes, NEW k \in Callers, Return(k)
  PROVE  call'[k].pc = "idle" /\ \A j \in Callers \ {k} : call'[j] = call[j]
BY DEF Return, NoCall, ToolTypes, CallType

\* Every step keeps what the files and the server have in step with the rows, or somebody about to do it.
LEMMA PublishedStep ==
  ToolInv /\ ToolTypes' /\ ToolLocked' /\ [ToolNext]_toolVars
    => (~blind' /\ ~Pending' => AtRest' /\ \A k \in Callers : Published(k)')
<1> SUFFICES ASSUME ToolInv, ToolTypes', ToolLocked', [ToolNext]_toolVars, ~blind', ~Pending'
             PROVE  AtRest' /\ \A k \in Callers : Published(k)'
  OBVIOUS
<1>t. ToolTypes /\ ToolLocked BY DEF ToolInv
<1> DEFINE Goal == AtRest' /\ \A k \in Callers : Published(k)'
<1>1. ASSUME NEW k \in Callers, Change(k) PROVE FALSE
  <2>1. (\E op, own : Open(k, op, own, "lock")) \/ blind'
    BY <1>1 DEF Change, CreateDatabase, UpdateDatabase, DeleteDatabase, TestDatabase, StartServices
  <2>2. ASSUME NEW op, NEW own, Open(k, op, own, "lock") PROVE call'[k].pc = "lock"
    BY <1>t, <2>2 DEF Open, NoCall, ToolTypes
  <2> QED BY <2>1, <2>2 DEF Pending, At
<1>2. ASSUME NEW k \in Callers, Acquire(k) PROVE Goal
  <2>0. /\ call' = [call EXCEPT ![k].pc = "test", ![k].todo = Enabled]
        /\ lock' = lock \union {k} /\ lock = {}
    BY <1>2 DEF Acquire
  <2>a. call[k] \in CallType /\ call \in [Callers -> CallType] BY <1>t DEF ToolTypes
  <2>b. call'[k] = [call[k] EXCEPT !.pc = "test", !.todo = Enabled] BY <2>0, <2>a
  <2>1. call'[k].pc = "test" /\ lock' = {k}
    BY <2>0, <2>a, <2>b DEF CallType
  <2>2. Published(k)'
    BY <2>1 DEF Published
  <2>3. AtRest' BY <2>1 DEF AtRest
  <2> QED BY <2>1, <2>2, <2>3, PublishedByHolder
<1>3. ASSUME NEW k \in Callers, Test(k) \/ Record(k) \/ TimeOut(k) \/ PublishFails(k) PROVE Goal
  <2>1. call'[k].pc \in Verdicts \union {"test", "mark"} /\ \A j \in Callers \ {k} : call'[j] = call[j]
    <3>1. CASE Test(k)
      <4>1. CASE \E c \in call[k].todo, to \in Verdicts :
                   call' = [call EXCEPT ![k].pc = to, ![k].todo = @ \ {c}, ![k].probe = {c}]
        <5>1. PICK c \in call[k].todo, to \in Verdicts :
                     call' = [call EXCEPT ![k].pc = to, ![k].todo = @ \ {c}, ![k].probe = {c}]
          BY <4>1
        <5>2. call'[k].pc = to /\ \A j \in Callers \ {k} : call'[j] = call[j]
          BY <5>1, <1>t DEF ToolTypes, CallType
        <5> QED BY <5>2
      <4>2. CASE Go(k, "mark")
        BY <1>t, <4>2, MovesGo
      <4> QED BY <3>1, <4>1, <4>2 DEF Test
    <3>2. CASE Record(k) BY <3>2, <1>t DEF Record, ToolTypes, CallType
    <3>3. CASE TimeOut(k) \/ PublishFails(k)
      <4>1. Go(k, "mark") BY <3>3 DEF TimeOut, PublishFails
      <4> QED BY <1>t, <4>1, MovesGo
    <3> QED BY SMTT(40), <1>3, <3>1, <3>2, <3>3
  <2>2. call[k].pc \in Holding
    BY ZenonT(60), <1>3 DEF Test, Record, TimeOut, PublishFails, Publishing, At, Holding, Verdicts
  <2>3. lock' = lock
    BY ZenonT(60), <1>3 DEF Test, Record, TimeOut, PublishFails
  <2>4. blind' = blind
    BY <1>3 DEF Test, Record, TimeOut, PublishFails
  <2>5. Published(k)'
    BY <2>1 DEF Published, Verdicts
  <2> QED BY <2>1, <2>2, <2>3, <2>4, <2>5, HolderGoesOn
<1>4. ASSUME NEW k \in Callers, Reset(k) PROVE Goal
  <2>0. At(k, "test") /\ Go(k, "wait empty") /\ files' = NoFiles /\ lock' = lock /\ blind' = blind
    BY <1>4 DEF Reset, Emptied
  <2>1. call'[k].pc = "wait empty" /\ \A j \in Callers \ {k} : call'[j] = call[j]
    BY <1>t, <2>0, MovesGo
  <2>2. Published(k)'
    BY <2>0, <2>1 DEF Published, Current, NoFiles
  <2> QED BY <2>0, <2>1, <2>2, HolderGoesOn DEF At, Holding
<1>5. ASSUME NEW k \in Callers, WaitEmpty(k) PROVE Goal
  <2>0. At(k, "wait empty") /\ served = NoFiles /\ Go(k, "render") /\ UNCHANGED <<rows, files, served, lock, blind>>
    BY <1>5 DEF WaitEmpty
  <2>1. call'[k].pc = "render" /\ \A j \in Callers \ {k} : call'[j] = call[j]
    BY <1>t, <2>0, MovesGo
  <2>2. Published(k) => Published(k)'
    BY <2>0, <2>1 DEF Published, Current, NoFiles, At
  <2> QED BY <2>0, <2>1, <2>2, HolderGoesOn DEF At, Holding
<1>6. ASSUME NEW k \in Callers, Render(k) PROVE Goal
  <2>0. At(k, "render") /\ UNCHANGED <<rows, files, served, lock, blind>>
    BY <1>6 DEF Render
  <2>1. /\ call'[k].pc = "passwords" /\ call'[k].unwritten = {Rendered(c) : c \in Active}
        /\ \A j \in Callers \ {k} : call'[j] = call[j]
    BY <1>t, <1>6 DEF Render, ToolTypes, CallType
  <2>2. Active' = Active /\ \A c \in Conns : Rendered(c)' = Rendered(c)
    BY <2>0 DEF Active, Enabled, Rendered
  <2>3. \A f \in call'[k].unwritten : f[2] = rows'[f[1]].version
    BY <2>0, <2>1 DEF Rendered
  <2>4. \A c \in Active : Rendered(c)' \in call'[k].unwritten
    BY <2>1, <2>2 DEF Active, Enabled
  <2>5. Published(k) => Current(files)' /\ Current(served)'
    BY <2>0 DEF Published, Current, At
  <2>6. Published(k) => Published(k)'
    BY <2>1, <2>2, <2>3, <2>4, <2>5 DEF Published
  <2> QED BY <2>0, <2>1, <2>6, HolderGoesOn DEF At, Holding
<1>7. ASSUME NEW k \in Callers, Passwords(k) PROVE Goal
  <2>0. At(k, "passwords") /\ UNCHANGED <<rows, served, lock, blind>>
    BY <1>7 DEF Passwords
  <2>1. CASE Go(k, "write") /\ UNCHANGED files
    <3>1. /\ call'[k].pc = "write" /\ call'[k].unwritten = call[k].unwritten
          /\ \A j \in Callers \ {k} : call'[j] = call[j]
      BY <1>t, <2>1, MovesGo
    <3>2. Active' = Active /\ \A c \in Conns : Rendered(c)' = Rendered(c)
      BY <2>0 DEF Active, Enabled, Rendered
    <3>3. Active \subseteq Conns BY DEF Active, Enabled
    <3>4. Published(k) => Published(k)'
      BY <2>0, <2>1, <3>1, <3>2, <3>3 DEF Published, Current, At
    <3> QED BY <2>0, <3>1, <3>4, HolderGoesOn DEF At, Holding
  <2>2. CASE Go(k, "mark")
    <3>1. call'[k].pc = "mark" /\ \A j \in Callers \ {k} : call'[j] = call[j]
      BY <1>t, <2>2, MovesGo
    <3>2. Published(k)' BY <3>1 DEF Published
    <3> QED BY <2>0, <3>1, <3>2, HolderGoesOn DEF At, Holding
  <2> QED BY <1>7, <2>1, <2>2 DEF Passwords
<1>8. ASSUME NEW k \in Callers, WriteFile(k) PROVE Goal
  <2>0. At(k, "write") /\ UNCHANGED <<rows, served, lock, blind>>
    BY <1>8 DEF WriteFile
  <2>a. Active' = Active /\ \A c \in Conns : Rendered(c)' = Rendered(c)
    BY <2>0 DEF Active, Enabled, Rendered
  <2>b. Active \subseteq Conns BY DEF Active, Enabled
  <2>1. CASE call[k].unwritten = {}
    <3>0. Go(k, "wait names") /\ UNCHANGED files
      BY <1>8, <2>1 DEF WriteFile
    <3>1. call'[k].pc = "wait names" /\ \A j \in Callers \ {k} : call'[j] = call[j]
      BY <1>t, <3>0, MovesGo
    <3>2. Published(k) => Published(k)'
      BY <2>0, <2>1, <2>a, <2>b, <3>0, <3>1 DEF Published, Current, At
    <3> QED BY <2>0, <3>1, <3>2, HolderGoesOn DEF At, Holding
  <2>2. CASE call[k].unwritten # {}
    <3>0. PICK f \in call[k].unwritten : /\ files' = [files EXCEPT ![f[1]] = f[2]]
                                         /\ call' = [call EXCEPT ![k].unwritten = @ \ {f}]
      BY <1>8, <2>2 DEF WriteFile
    <3>1. /\ call'[k].pc = "write" /\ call'[k].unwritten = call[k].unwritten \ {f}
          /\ \A j \in Callers \ {k} : call'[j] = call[j]
      <4>1. call[k].pc = "write" /\ call \in [Callers -> CallType]
        BY <1>t, <2>0 DEF At, ToolTypes
      <4> QED BY <3>0, <4>1 DEF CallType
    <3>2. f \in Conns \X Nat BY <1>t DEF ToolTypes, CallType
    <3>3. \A c \in Conns : files'[c] = IF c = f[1] THEN f[2] ELSE files[c]
      BY <1>t, <3>0 DEF ToolTypes
    <3>4. ASSUME Published(k) PROVE Published(k)'
      <4>1. f[2] = rows[f[1]].version BY <2>0, <3>4 DEF Published, At
      <4>2. Current(files)' /\ Current(served)'
        BY <2>0, <3>3, <3>4, <4>1 DEF Published, Current, At
      <4>3. \A g \in call'[k].unwritten : g[2] = rows'[g[1]].version
        BY <2>0, <3>1, <3>4 DEF Published, At
      <4>4. ASSUME NEW c \in Active
            PROVE  Rendered(c) \in call'[k].unwritten \/ files'[c] = rows'[c].version
        <5>1. CASE Rendered(c) = f
          <6>1. c = f[1] /\ f[2] = rows[c].version BY <5>1 DEF Rendered
          <6> QED BY <2>0, <2>b, <3>3, <6>1
        <5>2. CASE Rendered(c) # f /\ c = f[1]
          BY <2>0, <2>b, <3>3, <4>1, <5>2
        <5>3. CASE Rendered(c) # f /\ c # f[1]
          BY <2>0, <2>b, <3>1, <3>3, <3>4, <5>3 DEF Published, At
        <5> QED BY <5>1, <5>2, <5>3
      <4> QED BY <2>a, <2>b, <3>1, <4>2, <4>3, <4>4 DEF Published
    <3> QED BY <2>0, <3>1, <3>4, HolderGoesOn DEF At, Holding
  <2> QED BY <2>1, <2>2
<1>9. ASSUME NEW k \in Callers, MarkAll(k) PROVE Goal
  <2>0. At(k, "mark") /\ Go(k, "empty") /\ rows' = SetResult(Enabled, FALSE) /\ UNCHANGED <<lock, blind>>
    BY <1>9 DEF MarkAll
  <2>1. call'[k].pc = "empty" /\ \A j \in Callers \ {k} : call'[j] = call[j]
    BY <1>t, <2>0, MovesGo
  <2>2. Active' = {}
    BY <1>t, <2>0, SetResultType DEF Active, Enabled, ToolTypes
  <2>3. Published(k)' BY <2>1, <2>2 DEF Published
  <2> QED BY <2>0, <2>1, <2>3, HolderGoesOn DEF At, Holding
<1>10. ASSUME NEW k \in Callers, NothingActive(k) \/ WaitNames(k) \/ EmptyToolbox(k) PROVE Goal
  <2>0. call[k].pc \in Holding /\ lock' = lock \ {k}
    BY <1>10 DEF NothingActive, WaitNames, EmptyToolbox, At, Holding
  <2>a. blind' = blind
    BY <1>10 DEF NothingActive, WaitNames, EmptyToolbox
  <2>1. \A j \in Callers \ {k} : call'[j] = call[j]
    <3>1. Return(k) \/ Go(k, "mark own")
      BY <1>10 DEF NothingActive, WaitNames, EmptyToolbox
    <3> QED BY <1>t, <3>1, MovesGo, MovesReturn
  <2>b. Active' = Active
    BY <1>10 DEF NothingActive, WaitNames, EmptyToolbox, Active, Enabled
  <2>2. ASSUME Published(k) PROVE AtRest'
    <3>1. CASE NothingActive(k)
      BY <2>b, <3>1 DEF NothingActive, AtRest
    <3>2. CASE EmptyToolbox(k)
      BY <2>2, <2>b, <3>2 DEF EmptyToolbox, AtRest, Published, At
    <3>3. CASE WaitNames(k)
      <4>1. UNCHANGED <<rows, files, served>> /\ call[k].pc = "wait names"
            /\ \A c \in Active : served[c] # 0
        BY <3>3 DEF WaitNames, At
      <4>2. \A c \in Active : files[c] = rows[c].version /\ served[c] \in {0, rows[c].version}
        BY <2>2, <4>1 DEF Published, Current, Active, Enabled
      <4> QED BY <2>b, <4>1, <4>2 DEF AtRest
    <3> QED BY <1>10, <3>1, <3>2, <3>3
  <2> QED BY <2>0, <2>a, <2>1, <2>2, HolderLeaves
<1>11. ASSUME NEW k \in Callers, MarkOwn(k) PROVE Goal
  <2>0. /\ rows' = SetResult(call[k].own, FALSE) /\ UNCHANGED <<files, served, lock, blind>>
        /\ At(k, "mark own") /\ Return(k)
    BY <1>11 DEF MarkOwn
  <2>1. call'[k].pc = "idle" /\ \A j \in Callers \ {k} : call'[j] = call[j]
    BY <1>t, <2>0, MovesReturn
  <2>2. ~Pending BY <2>0, <2>1 DEF Pending, At
  <2>3. AtRest /\ \A j \in Callers : Published(j)
    BY <2>0, <2>2 DEF ToolInv
  <2>4. /\ \A c \in Conns : rows'[c].version = rows[c].version
        /\ Active' \subseteq Active
    <3>1. \A c \in Conns : /\ rows'[c].version = rows[c].version
                           /\ rows'[c].there = rows[c].there /\ rows'[c].enabled = rows[c].enabled
                           /\ rows'[c].ok => rows[c].ok
      <4> SUFFICES ASSUME NEW c \in Conns
                   PROVE  /\ rows'[c].version = rows[c].version
                          /\ rows'[c].there = rows[c].there /\ rows'[c].enabled = rows[c].enabled
                          /\ rows'[c].ok => rows[c].ok
        OBVIOUS
      <4>1. rows \in [Conns -> RowType] BY <1>t DEF ToolTypes
      <4>2. /\ rows'[c].version = rows[c].version
            /\ rows'[c].there = rows[c].there /\ rows'[c].enabled = rows[c].enabled
        BY <2>0, <4>1, SetResultType
      <4>3. rows'[c].ok = rows[c].ok \/ (c \in call[k].own /\ rows[c].there)
        BY <2>0, <4>1, SetResultType
      <4>4. (c \in call[k].own /\ rows[c].there) => rows'[c].ok = FALSE
        BY <2>0, <4>1, SetResultType
      <4> QED BY <4>2, <4>3, <4>4
    <3> QED BY <3>1 DEF Active, Enabled
  <2>5. AtRest'
    BY <2>0, <2>3, <2>4 DEF AtRest, Active, Enabled
  <2>6. ASSUME NEW j \in Callers, j \in lock' PROVE Published(j)'
    <3>1. j # k /\ call'[j] = call[j]
      BY <1>t, <2>0, <2>1, <2>6 DEF ToolLocked, At, Holding
    <3>2. Active \subseteq Conns BY DEF Active, Enabled
    <3>3. \A c \in Conns : Rendered(c)' = Rendered(c) BY <2>4 DEF Rendered
    <3>4. call[j].unwritten \subseteq Conns \X Nat BY <1>t DEF ToolTypes, CallType
    <3>5. \A f \in call[j].unwritten : rows'[f[1]].version = rows[f[1]].version
      BY <2>4, <3>4
    <3>6. (Current(files) => Current(files)') /\ (Current(served) => Current(served)')
      BY <2>0, <2>4 DEF Current
    <3>7. Published(j) BY <2>3
    <3> QED BY <2>0, <2>4, <3>1, <3>2, <3>3, <3>5, <3>6, <3>7 DEF Published
  <2> QED BY <2>5, <2>6, PublishedByHolder
<1>12. ASSUME NEW k \in Callers, ToolFault(k) \/ Drop(k) PROVE FALSE
  BY <1>12 DEF ToolFault, Drop
<1>13. ASSUME ToolCrash PROVE FALSE
  <2>1. PICK k \in Callers, dead \in SUBSET Callers :
          call' = [j \in Callers |-> IF j = k THEN [NoCall EXCEPT !.pc = "lock", !.op = "start"]
                                    ELSE IF j \in dead THEN NoCall ELSE call[j]]
    BY <1>13 DEF ToolCrash
  <2>2. call'[k] = [NoCall EXCEPT !.pc = "lock", !.op = "start"] BY <2>1
  <2>3. call'[k].pc = "lock" BY <2>2 DEF NoCall
  <2> QED BY <2>3 DEF Pending, At
<1>14. ASSUME Reload \/ UNCHANGED toolVars PROVE Goal
  <2>1. UNCHANGED <<rows, files, lock, call>> /\ served' \in {served, files}
    BY <1>14 DEF Reload, toolVars
  <2>a. blind' = blind
    BY <1>14 DEF Reload, toolVars
  <2>2. AtRest /\ \A j \in Callers : Published(j)
    BY <2>1, <2>a DEF ToolInv, Pending, At
  <2>3. Active' = Active /\ \A c \in Conns : Rendered(c)' = Rendered(c)
    BY <2>1 DEF Active, Enabled, Rendered
  <2>4. AtRest' BY <2>1, <2>2, <2>3 DEF AtRest
  <2>5. ASSUME NEW j \in Callers PROVE Published(j)'
    <3>1. Published(j) BY <2>2
    <3>2. call[j].pc \in {"render", "passwords", "write", "wait names"} => Current(served)'
      BY <2>1, <3>1 DEF Published, Current
    <3>3. Current(files) => Current(files)' BY <2>1 DEF Current
    <3>4. Active \subseteq Conns BY DEF Active, Enabled
    <3> QED BY <2>1, <2>3, <3>1, <3>2, <3>3, <3>4 DEF Published
  <2> QED BY <2>4, <2>5
<1> QED
  BY <1>1, <1>2, <1>3, <1>4, <1>5, <1>6, <1>7, <1>8, <1>9, <1>10, <1>11, <1>12, <1>13, <1>14
     DEF ToolNext, Sync

\* For any connections, requests and processes, and any number of updates and faults: once the
\* last request has answered, what is shown as working is served in its present version, unless
\* since the last sync began a statement failed or a request was dropped with nobody told, or that
\* sync ran beside one of another process.
THEOREM ToolboxServesCurrent == ToolSpec => []ServedIsCurrent
<1>1. ToolInit => ToolInv BY ToolInitInv
<1>2. ToolInv /\ [ToolNext]_toolVars => ToolInv'
  BY ToolTypesStep, ToolLockedStep, PublishedStep DEF ToolInv
<1>3. ToolInv => ServedIsCurrent
  <2> SUFFICES ASSUME ToolInv, \A k \in Callers : At(k, "idle"), ~blind
               PROVE  \A c \in Active : served[c] = rows[c].version
    BY DEF ServedIsCurrent
  <2>1. ~Pending BY DEF Pending, At
  <2>2. lock = {} BY DEF ToolInv, ToolTypes, ToolLocked, At, Holding
  <2> QED BY <2>1, <2>2 DEF ToolInv, AtRest
<1> QED BY <1>1, <1>2, <1>3, PTL DEF ToolSpec

(***************************************************************************)
(* Some model stays active.  The invariant: the active model has a row, or *)
(* the request that deleted it is about to choose another.                 *)
(***************************************************************************)

\* What a request that reached the table holds, of any names and rows.
SyncEdit(e) ==
  \E N, R : e \in [pc : {"insert", "delete", "choose"}, names : SUBSET N, existing : SUBSET R,
                   ours : SUBSET R, missing : SUBSET N, gone : SUBSET R]

PickEdit(e) == \E P : e \in [pc : {"activate", "reactivate"}, pick : P]

CatalogTypes ==
  /\ edit = [c \in Editors |-> edit[c]]
  /\ lastModel \in Nat
  /\ \A c \in Editors : edit[c].pc \in {"insert", "delete", "choose"} => SyncEdit(edit[c])
  /\ \A c \in Editors : edit[c].pc \in {"activate", "reactivate"} => PickEdit(edit[c])

Known(m) == m.id \in Nat /\ 0 < m.id /\ m.id <= lastModel

\* An id is given once: a row that somebody read is the row of the table with its id, if any.
RowsKnown ==
  /\ \A m \in models : Known(m)
  /\ \A m, n \in models : m.id = n.id => m = n
  /\ \A c \in Editors : edit[c].pc \in {"active", "insert", "delete"} =>
       \A m \in edit[c].existing : Known(m) /\ \A n \in models : m.id = n.id => m = n
  /\ \A c \in Editors : edit[c].pc \in {"insert", "delete"} => edit[c].gone \subseteq edit[c].existing

SyncedNames == NamesOf(Of(Synced))

\* The syncs under way work from the same list.  What they inserted of it stays, what they
\* delete is not on it, and who deletes the active model knows that it must choose another.
EditGood(c) ==
  /\ edit[c].pc \in {"existing", "active", "insert", "delete", "choose"} => edit[c].names = listed
  /\ edit[c].pc = "active" => NamesOf(edit[c].existing) \cap listed \subseteq SyncedNames
  /\ edit[c].pc = "insert" => listed \ edit[c].missing \subseteq SyncedNames
  /\ edit[c].pc \in {"delete", "choose"} => listed \subseteq SyncedNames
  /\ edit[c].pc \in {"insert", "delete"} =>
       \A m \in edit[c].gone : m.name \notin listed /\ (m.id = active => edit[c].ours # {})
  /\ edit[c].pc = "reactivate" => \E m \in Of(Synced) : m.id = edit[c].pick /\ m.name \in listed

Repairing(c) ==
  \/ edit[c].pc = "reactivate"
  \/ edit[c].pc \in {"delete", "choose"} /\ edit[c].ours # {}

CatalogGood ==
  /\ listed # {}
  /\ \A c \in Editors : EditGood(c)
  /\ active \in ModelIds \/ \E c \in Editors : Repairing(c)

CatalogInv == CatalogTypes /\ RowsKnown /\ (excused \/ CatalogGood)

\* One model, active, and nobody at work.
LEMMA CatalogInitInv == CatalogInit => CatalogInv
<1> SUFFICES ASSUME CatalogInit PROVE CatalogInv OBVIOUS
<1>1. \A c \in Editors : edit[c].pc = "idle"
  BY DEF CatalogInit, NoEdit
<1>2. CatalogTypes BY <1>1 DEF CatalogInit, CatalogTypes
<1>3. RowsKnown BY <1>1 DEF CatalogInit, RowsKnown, Known
<1>4. \A c \in Editors : EditGood(c) BY <1>1 DEF EditGood
<1>5. active \in ModelIds BY DEF CatalogInit, ModelIds
<1>6. CatalogGood BY <1>4, <1>5 DEF CatalogInit, CatalogGood
<1> QED BY <1>2, <1>3, <1>6 DEF CatalogInv

----------------------------------------------------------------------------
\* One request changes its record, and nobody else's.
Edits(c, e) == edit' = [d \in Editors |-> edit'[d]] /\ edit'[c] = e /\ \A d \in Editors \ {c} : edit'[d] = edit[d]

\* A step of one request leaves the others where they were.
LEMMA EditsStep ==
  ASSUME CatalogTypes, NEW c \in Editors, NEW e, edit' = [edit EXCEPT ![c] = e]
  PROVE  Edits(c, e)
BY DEF CatalogTypes, Edits

\* Types and rows: the record of one request may change, and a row may be added or rows go.
LEMMA TypesKept ==
  ASSUME CatalogTypes, RowsKnown, NEW c \in Editors, NEW e, Edits(c, e),
         lastModel' \in {lastModel, lastModel + 1},
         \A m \in models' : m \in models \/ (m.id = lastModel + 1 /\ lastModel' = lastModel + 1),
         \A m, n \in models' : m.id = lastModel + 1 /\ n.id = lastModel + 1 => m = n,
         e.pc \in {"insert", "delete", "choose"} => SyncEdit(e),
         e.pc \in {"activate", "reactivate"} => PickEdit(e),
         e.pc \in {"active", "insert", "delete"} =>
           \/ \A m \in e.existing : m \in models /\ m \in models'
           \/ edit[c].pc \in {"active", "insert", "delete"} /\ e.existing = edit[c].existing,
         e.pc \in {"insert", "delete"} => e.gone \subseteq e.existing
  PROVE  CatalogTypes' /\ RowsKnown'
<1>1. lastModel \in Nat /\ lastModel' \in Nat /\ lastModel <= lastModel'
  BY DEF CatalogTypes
<1>2. CatalogTypes'
  <2>1. \A d \in Editors : edit'[d] = IF d = c THEN e ELSE edit[d] BY DEF Edits
  <2> QED BY <1>1, <2>1 DEF CatalogTypes, Edits
<1>3. \A m : Known(m) => Known(m)' /\ m.id # lastModel + 1
  BY <1>1 DEF Known
<1>4. \A m \in models' : Known(m)'
  BY <1>1, <1>3 DEF RowsKnown, Known
<1>5. \A m, n \in models' : m.id = n.id => m = n
  BY <1>3 DEF RowsKnown
<1>6. ASSUME NEW d \in Editors, edit'[d].pc \in {"active", "insert", "delete"}, NEW m \in edit'[d].existing
      PROVE  Known(m)' /\ \A n \in models' : m.id = n.id => m = n
  <2>1. CASE m \in models
    BY <1>3, <2>1 DEF RowsKnown
  <2>2. CASE m \notin models
    <3>1. edit[d].pc \in {"active", "insert", "delete"} /\ m \in edit[d].existing
      BY <1>6, <2>2 DEF Edits
    <3>2. Known(m) /\ \A n \in models : m.id = n.id => m = n
      BY <3>1 DEF RowsKnown
    <3> QED BY <1>3, <3>2
  <2> QED BY <2>1, <2>2
<1>7. \A d \in Editors : edit'[d].pc \in {"insert", "delete"} => edit'[d].gone \subseteq edit'[d].existing
  BY DEF RowsKnown, Edits
<1>8. RowsKnown' BY <1>4, <1>5, <1>6, <1>7 DEF RowsKnown
<1> QED BY <1>2, <1>8

\* Of the requests that do not move, what they hold stays good.
LEMMA OthersKept ==
  ASSUME RowsKnown, NEW d \in Editors, edit'[d] = edit[d], EditGood(d), listed' = listed,
         \A m \in Of(Synced) : m.name \in listed => m \in Of(Synced)',
         \/ active' = active \/ active' = 0 \/ d \notin Deciding
         \/ \E m \in models : m.id = active' /\ m.name \in listed
  PROVE  EditGood(d)'
<1>1. SyncedNames \cap listed \subseteq SyncedNames'
  BY DEF SyncedNames, NamesOf
<1>2. edit[d].pc \in {"insert", "delete"} =>
       \A m \in edit[d].gone : m.name \notin listed /\ (m.id = active' => edit[d].ours # {})
  <2> SUFFICES ASSUME edit[d].pc \in {"insert", "delete"}, NEW m \in edit[d].gone, m.id = active'
               PROVE  edit[d].ours # {}
    BY DEF EditGood
  <2>1. Known(m) /\ \A n \in models : m.id = n.id => m = n BY DEF RowsKnown
  <2>2. m.name \notin listed BY DEF EditGood
  <2>3. d \in Deciding BY DEF Deciding
  <2>4. active' # 0 BY <2>1 DEF Known
  <2>5. ~\E n \in models : n.id = active' /\ n.name \in listed BY <2>1, <2>2
  <2>6. active' = active BY <2>3, <2>4, <2>5
  <2> QED BY <2>6 DEF EditGood
<1>3. edit[d].pc = "reactivate" => \E m \in Of(Synced)' : m.id = edit[d].pick /\ m.name \in listed
  BY DEF EditGood
<1> QED BY <1>1, <1>2, <1>3 DEF EditGood, NamesOf

\* A request that is at rest after the step.
LEMMA RestIsGood ==
  ASSUME NEW c \in Editors, edit'[c].pc \in {"idle", "list", "activate"}
  PROVE  EditGood(c)'
BY DEF EditGood

\* Who edits nothing is idle.
LEMMA NoEditPc == NoEdit.pc = "idle"
BY DEF NoEdit
----------------------------------------------------------------------------
\* What is left to show of a step, once types and rows are kept: the rest of the table's
\* promises, for a step that is not excused.
LEMMA GoodIsEnough ==
  ASSUME CatalogInv, CatalogTypes' /\ RowsKnown', excused' \/ (CatalogGood => CatalogGood'), excused => excused'
  PROVE  CatalogInv'
BY DEF CatalogInv

\* The step of one request, when the list stays.
LEMMA GoodKept ==
  ASSUME RowsKnown, CatalogGood, NEW c \in Editors, NEW e, Edits(c, e), listed' = listed,
         \A m \in Of(Synced) : m.name \in listed => m \in Of(Synced)',
         \/ active' = active \/ active' = 0 \/ Deciding = {}
         \/ \E m \in models : m.id = active' /\ m.name \in listed,
         EditGood(c)',
         active' \in ModelIds' \/ Repairing(c)' \/ (active' = active /\ ModelIds \subseteq ModelIds' /\ ~Repairing(c))
           \/ (active' = active /\ active \notin ModelIds /\ ~Repairing(c))
  PROVE  CatalogGood'
<1>1. \A d \in Editors \ {c} : EditGood(d)'
  BY OthersKept DEF Edits, CatalogGood
<1>2. \A d \in Editors : EditGood(d)' BY <1>1
<1>3. \A d \in Editors \ {c} : Repairing(d) => Repairing(d)'
  BY DEF Edits, Repairing
<1>4. active' \in ModelIds' \/ \E d \in Editors : Repairing(d)'
  BY <1>3 DEF CatalogGood
<1> QED BY <1>2, <1>4 DEF CatalogGood

\* The fields of an entry that moves on are those it had, but for its place;
LEMMA SyncEditPc ==
  ASSUME NEW e, SyncEdit(e), NEW to \in {"insert", "delete", "choose"}
  PROVE  LET b == [e EXCEPT !.pc = to] IN
         /\ SyncEdit(b) /\ b.pc = to /\ b.names = e.names /\ b.existing = e.existing /\ b.ours = e.ours
         /\ b.missing = e.missing /\ b.gone = e.gone
<1> DEFINE b == [e EXCEPT !.pc = to]
<1>1. PICK N, R : e \in [pc : {"insert", "delete", "choose"}, names : SUBSET N, existing : SUBSET R,
                   ours : SUBSET R, missing : SUBSET N, gone : SUBSET R]
  BY DEF SyncEdit
<1>2. b \in [pc : {"insert", "delete", "choose"}, names : SUBSET N, existing : SUBSET R,
                   ours : SUBSET R, missing : SUBSET N, gone : SUBSET R]
  BY <1>1
<1>3. b.pc = to /\ b.names = e.names /\ b.existing = e.existing /\ b.ours = e.ours
         /\ b.missing = e.missing /\ b.gone = e.gone
  BY <1>1
<1> QED BY <1>2, <1>3 DEF SyncEdit

\* but for the names still to be inserted;
LEMMA SyncEditMissing ==
  ASSUME NEW e, SyncEdit(e), NEW x, x \subseteq e.missing
  PROVE  LET b == [e EXCEPT !.missing = x] IN
         /\ SyncEdit(b) /\ b.pc = e.pc /\ b.names = e.names /\ b.existing = e.existing /\ b.ours = e.ours
         /\ b.missing = x /\ b.gone = e.gone
<1> DEFINE b == [e EXCEPT !.missing = x]
<1>1. PICK N, R : e \in [pc : {"insert", "delete", "choose"}, names : SUBSET N, existing : SUBSET R,
                   ours : SUBSET R, missing : SUBSET N, gone : SUBSET R]
  BY DEF SyncEdit
<1>2. b \in [pc : {"insert", "delete", "choose"}, names : SUBSET N, existing : SUBSET R,
                   ours : SUBSET R, missing : SUBSET N, gone : SUBSET R]
  BY <1>1
<1>3. b.pc = e.pc /\ b.names = e.names /\ b.existing = e.existing /\ b.ours = e.ours
         /\ b.missing = x /\ b.gone = e.gone
  BY <1>1
<1> QED BY <1>2, <1>3 DEF SyncEdit

\* but for the rows still to be deleted;
LEMMA SyncEditGone ==
  ASSUME NEW e, SyncEdit(e), NEW x, x \subseteq e.gone
  PROVE  LET b == [e EXCEPT !.gone = x] IN
         /\ SyncEdit(b) /\ b.pc = e.pc /\ b.names = e.names /\ b.existing = e.existing /\ b.ours = e.ours
         /\ b.missing = e.missing /\ b.gone = x
<1> DEFINE b == [e EXCEPT !.gone = x]
<1>1. PICK N, R : e \in [pc : {"insert", "delete", "choose"}, names : SUBSET N, existing : SUBSET R,
                   ours : SUBSET R, missing : SUBSET N, gone : SUBSET R]
  BY DEF SyncEdit
<1>2. b \in [pc : {"insert", "delete", "choose"}, names : SUBSET N, existing : SUBSET R,
                   ours : SUBSET R, missing : SUBSET N, gone : SUBSET R]
  BY <1>1
<1>3. b.pc = e.pc /\ b.names = e.names /\ b.existing = e.existing /\ b.ours = e.ours
         /\ b.missing = e.missing /\ b.gone = x
  BY <1>1
<1> QED BY <1>2, <1>3 DEF SyncEdit

\* and the same of a pick.
LEMMA PickEditPc ==
  ASSUME NEW e, PickEdit(e), NEW to
  PROVE  [e EXCEPT !.pc = to].pc = to
BY DEF PickEdit

\* A row is inserted.
LEMMA InsertAdds ==
  ASSUME RowsKnown, CatalogTypes, NEW p, NEW name, InsertModel(p, name)
  PROVE  /\ lastModel' = lastModel + 1 /\ models \subseteq models'
         /\ \A m \in models' : m \in models \/ m.id = lastModel + 1
         /\ \A m, n \in models' : m.id = lastModel + 1 /\ n.id = lastModel + 1 => m = n
         /\ \A q : Of(q) \subseteq Of(q)'
         /\ ModelIds \subseteq ModelIds'
         /\ name \in NamesOf(Of(p))'
<1> DEFINE row == [id |-> lastModel + 1, of |-> p, name |-> name]
<1>1. models' = models \cup {row} /\ lastModel' = lastModel + 1
  BY DEF InsertModel
<1>2. row.id = lastModel + 1 /\ row.of = p /\ row.name = name OBVIOUS
<1> HIDE DEF row
<1>3. \A m \in models : m.id # lastModel + 1
  BY DEF RowsKnown, Known, CatalogTypes
<1>4. row \in Of(p)' BY <1>1, <1>2 DEF Of
<1>5. name \in NamesOf(Of(p))' BY <1>2, <1>4 DEF NamesOf
<1>6. \A q : Of(q) \subseteq Of(q)' BY <1>1 DEF Of
<1>7. ModelIds \subseteq ModelIds' BY <1>1 DEF ModelIds
<1>8. /\ lastModel' = lastModel + 1 /\ models \subseteq models'
      /\ \A m \in models' : m \in models \/ m.id = lastModel + 1
      /\ \A m, n \in models' : m.id = lastModel + 1 /\ n.id = lastModel + 1 => m = n
  BY <1>1, <1>2, <1>3
<1> QED BY <1>5, <1>6, <1>7, <1>8

\* Every statement of a request keeps the invariant: one step per action.
LEMMA CatalogStep == CatalogInv /\ [CatalogNext]_catalogVars => CatalogInv'
<1> SUFFICES ASSUME CatalogInv, [CatalogNext]_catalogVars PROVE CatalogInv'
  OBVIOUS
<1>t. CatalogTypes /\ RowsKnown BY DEF CatalogInv
<1>n. NoEdit.pc = "idle" BY DEF NoEdit
<1>s. ASSUME models' = models
      PROVE  ModelIds' = ModelIds /\ \A p : Of(p)' = Of(p)
  BY <1>s DEF ModelIds, Of
\* The request stays as it is, or ends.
<1>q. ASSUME NEW c \in Editors, NEW e, Edits(c, e), e.pc \in {"idle", "list", "activate", "existing"},
             UNCHANGED <<models, lastModel>>, e.pc = "activate" => PickEdit(e)
      PROVE  CatalogTypes' /\ RowsKnown'
  <2>1. \A m \in models : m.id # lastModel + 1 BY <1>t DEF RowsKnown, Known, CatalogTypes
  <2> QED BY <1>t, <1>q, <2>1, TypesKept
<1>0. ASSUME NEW c \in Editors, edit' = edit PROVE Edits(c, edit[c])
  BY <1>0, <1>t DEF Edits, CatalogTypes
<1>1. ASSUME NEW c \in Editors, NEW p \in Providers, NewModel(c, p) PROVE CatalogInv'
  <2>1. PICK n : InsertModel(p, n) BY <1>1 DEF NewModel
  <2>2. edit[c].pc = "idle" /\ Edits(c, edit[c]) BY <1>1, <1>0 DEF NewModel, Pc
  <2>3. CatalogTypes' /\ RowsKnown'
    BY <1>t, <2>1, <2>2, InsertAdds, TypesKept
  <2>4. active' = active /\ listed' = listed /\ excused' = excused BY <1>1 DEF NewModel
  <2>5. EditGood(c)' BY <2>2, RestIsGood DEF Edits
  <2>6. ~Repairing(c) BY <2>2 DEF Repairing
  <2>7. \A m \in Of(Synced) : m \in Of(Synced)' BY <1>t, <2>1, InsertAdds
  <2>8. ModelIds \subseteq ModelIds' BY <1>t, <2>1, InsertAdds
  <2>9. CatalogGood => CatalogGood' BY <1>t, <2>2, <2>4, <2>5, <2>6, <2>7, <2>8, GoodKept
  <2> QED BY <2>3, <2>4, <2>9, GoodIsEnough
<1>2. ASSUME NEW c \in Editors, DeleteModel(c) \/ DeleteProvider(c) PROVE CatalogInv'
  <2>1. excused' = TRUE /\ edit' = edit /\ lastModel' = lastModel /\ models' \subseteq models /\ edit[c].pc = "idle"
    BY <1>2 DEF DeleteModel, DeleteProvider, Without, Pc
  <2>2. Edits(c, edit[c]) BY <1>0, <2>1
  <2>3. CatalogTypes' /\ RowsKnown'
    <3>1. \A m \in models : m.id # lastModel + 1 BY <1>t DEF RowsKnown, Known, CatalogTypes
    <3> QED BY <1>t, <2>1, <2>2, <3>1, TypesKept
  <2> QED BY <2>1, <2>3, GoodIsEnough
<1>3. ASSUME NEW c \in Editors, ActivateModel(c) PROVE CatalogInv'
  <2>1. edit' = edit /\ UNCHANGED <<models, lastModel, listed>> /\ edit[c].pc = "idle" /\ active' \in ModelIds
    BY <1>3 DEF ActivateModel, Pc
  <2>2. Edits(c, edit[c]) BY <1>0, <2>1
  <2>3. CatalogTypes' /\ RowsKnown' BY <1>q, <2>1, <2>2
  <2>4. excused' = (excused \/ Deciding # {}) BY <1>3 DEF ActivateModel
  <2>5. CASE Deciding # {} BY <2>3, <2>4, <2>5, GoodIsEnough
  <2>6. CASE Deciding = {}
    <3>1. EditGood(c)' BY <2>1, RestIsGood
    <3>2. CatalogGood => CatalogGood' BY <1>s, <1>t, <2>1, <2>2, <2>6, <3>1, GoodKept
    <3> QED BY <2>3, <2>4, <3>2, GoodIsEnough
  <2> QED BY <2>5, <2>6
<1>4. ASSUME NEW c \in Editors, NEW p \in Providers, ActivateProvider(c, p) PROVE CatalogInv'
  <2>1. PICK pick : edit' = [edit EXCEPT ![c] = [pc |-> "activate", pick |-> pick]]
    BY <1>4 DEF ActivateProvider
  <2> DEFINE e == [pc |-> "activate", pick |-> pick]
  <2>2. e.pc = "activate" OBVIOUS
  <2>a. PickEdit(e)
    <3>1. e \in [pc : {"activate", "reactivate"}, pick : {pick}] OBVIOUS
    <3> QED BY <3>1 DEF PickEdit
  <2>3. Edits(c, e) BY <1>t, <2>1, EditsStep
  <2>4. UNCHANGED <<models, lastModel, active, listed, excused>> /\ edit[c].pc = "idle"
    BY <1>4 DEF ActivateProvider, Pc
  <2> HIDE DEF e
  <2>5. CatalogTypes' /\ RowsKnown' BY <1>q, <2>2, <2>a, <2>3, <2>4
  <2>6. EditGood(c)' BY <2>2, <2>3, RestIsGood DEF Edits
  <2>7. ~Repairing(c) BY <2>4 DEF Repairing
  <2>8. CatalogGood => CatalogGood' BY <1>s, <1>t, <2>3, <2>4, <2>6, <2>7, GoodKept
  <2> QED BY <2>4, <2>5, <2>8, GoodIsEnough
<1>5. ASSUME NEW c \in Editors, SetActive(c) PROVE CatalogInv'
  <2>1. edit[c].pc \in {"activate", "reactivate"} /\ PickEdit(edit[c]) /\ UNCHANGED <<models, lastModel, listed>>
    BY <1>5, <1>t DEF SetActive, CatalogTypes
  <2>2. PICK e : Edits(c, e) /\ e.pc \in {"idle", "list"}
    <3>1. CASE Done(c) BY <1>n, <1>t, <3>1, EditsStep DEF Done
    <3>2. CASE Step(c, "list")
      <4> DEFINE e == [edit[c] EXCEPT !.pc = "list"]
      <4>1. e.pc = "list" BY <2>1, PickEditPc
      <4>2. edit' = [edit EXCEPT ![c] = e] BY <3>2 DEF Step
      <4> HIDE DEF e
      <4>3. Edits(c, e) BY <1>t, <4>2, EditsStep
      <4> QED BY <4>1, <4>3
    <3> QED BY <1>5, <3>1, <3>2 DEF SetActive
  <2>3. CatalogTypes' /\ RowsKnown' BY <1>q, <2>1, <2>2
  <2>4. EditGood(c)' BY <2>2, RestIsGood DEF Edits
  <2>5. CASE edit[c].pick \in ModelIds \cup {0}
    <3>1. active' = edit[c].pick
          /\ excused' = (excused \/ edit[c].pick = 0 \/ (edit[c].pc = "activate" /\ Deciding # {}))
      BY <1>5, <2>5 DEF SetActive, Pc
    <3>2. CASE excused' BY <2>3, <3>1, <3>2, GoodIsEnough
    <3>3. CASE ~excused'
      <4>1. edit[c].pick \in ModelIds BY <2>5, <3>1, <3>3
      <4>2. ASSUME CatalogGood PROVE CatalogGood'
        <5>1. Deciding = {} \/ \E m \in models : m.id = active' /\ m.name \in listed
          BY <2>1, <3>1, <3>3, <4>2 DEF CatalogGood, EditGood, Of
        <5>2. active' \in ModelIds' BY <1>s, <2>1, <3>1, <4>1
        <5>3. \A m \in Of(Synced) : m \in Of(Synced)' BY <1>s, <2>1
        <5> QED BY <1>t, <2>1, <2>2, <2>4, <4>2, <5>1, <5>2, <5>3, GoodKept
      <4> QED BY <2>3, <3>1, <4>2, GoodIsEnough
    <3> QED BY <3>2, <3>3
  <2>6. CASE edit[c].pick \notin ModelIds \cup {0}
    <3>1. active' = active /\ excused' = excused BY <1>5, <2>6 DEF SetActive
    <3>2. ASSUME CatalogGood PROVE CatalogGood'
      <4>1. edit[c].pc # "reactivate"
        BY <2>6, <3>2 DEF CatalogGood, EditGood, ModelIds, Of
      <4>2. ~Repairing(c) BY <2>1, <4>1 DEF Repairing
      <4>3. ModelIds' = ModelIds /\ \A m \in Of(Synced) : m \in Of(Synced)' BY <1>s, <2>1
      <4> QED BY <1>t, <2>1, <2>2, <2>4, <3>1, <3>2, <4>2, <4>3, GoodKept
    <3> QED BY <2>3, <3>1, <3>2, GoodIsEnough
  <2> QED BY <2>5, <2>6
<1>6. ASSUME NEW c \in Editors, StartSync(c) \/ ListModels(c) PROVE CatalogInv'
  <2>1. UNCHANGED <<models, lastModel, active, listed, excused>> /\ edit[c].pc \in {"idle", "list"}
    BY <1>6 DEF StartSync, ListModels, Pc
  <2>2. PICK e : /\ Edits(c, e) /\ e.pc \in {"idle", "list", "existing"}
                 /\ e.pc = "existing" => e.names = listed
    <3>1. CASE edit' = [edit EXCEPT ![c] = NoEdit]
      <4>1. Edits(c, NoEdit) BY <1>t, <3>1, EditsStep
      <4> QED BY <1>n, <4>1
    <3>2. CASE edit' = [edit EXCEPT ![c] = [pc |-> "list"]]
      <4> DEFINE e == [pc |-> "list"]
      <4>1. e.pc = "list" OBVIOUS
      <4>2. edit' = [edit EXCEPT ![c] = e] BY <3>2
      <4> HIDE DEF e
      <4>3. Edits(c, e) BY <1>t, <4>2, EditsStep
      <4> QED BY <4>1, <4>3
    <3>3. CASE edit' = [edit EXCEPT ![c] = [pc |-> "existing", names |-> listed]]
      <4> DEFINE e == [pc |-> "existing", names |-> listed]
      <4>1. e.pc = "existing" /\ e.names = listed OBVIOUS
      <4>2. edit' = [edit EXCEPT ![c] = e] BY <3>3
      <4> HIDE DEF e
      <4>3. Edits(c, e) BY <1>t, <4>2, EditsStep
      <4> QED BY <4>1, <4>3
    <3> QED BY <1>6, <3>1, <3>2, <3>3 DEF StartSync, ListModels, Done
  <2>3. CatalogTypes' /\ RowsKnown' BY <1>q, <2>1, <2>2
  <2>4. EditGood(c)' BY <2>1, <2>2 DEF EditGood, Edits
  <2>5. ~Repairing(c) BY <2>1 DEF Repairing
  <2>6. ModelIds' = ModelIds /\ \A m \in Of(Synced) : m \in Of(Synced)' BY <1>s, <2>1
  <2>7. CatalogGood => CatalogGood' BY <1>t, <2>1, <2>2, <2>4, <2>5, <2>6, GoodKept
  <2> QED BY <2>1, <2>3, <2>7, GoodIsEnough
<1>7. ASSUME NEW c \in Editors, ReadExisting(c) PROVE CatalogInv'
  <2> DEFINE e == [pc |-> "active", names |-> edit[c].names, existing |-> Of(Synced)]
  <2>1. UNCHANGED <<models, lastModel, active, listed, excused>> /\ edit[c].pc = "existing"
        /\ edit' = [edit EXCEPT ![c] = e]
    BY <1>7 DEF ReadExisting, Pc
  <2>2. e.pc = "active" /\ e.names = edit[c].names /\ e.existing = Of(Synced) OBVIOUS
  <2> HIDE DEF e
  <2>3. Edits(c, e) BY <1>t, <2>1, EditsStep
  <2>4. CatalogTypes' /\ RowsKnown'
    <3>1. \A m \in e.existing : m \in models /\ m \in models' BY <2>1, <2>2 DEF Of
    <3>2. \A m \in models : m.id # lastModel + 1 BY <1>t DEF RowsKnown, Known, CatalogTypes
    <3> QED BY <1>t, <2>1, <2>2, <2>3, <3>1, <3>2, TypesKept
  <2>5. ~Repairing(c) BY <2>1 DEF Repairing
  <2>6. ModelIds' = ModelIds /\ Of(Synced)' = Of(Synced) BY <1>s, <2>1
  <2>7. ASSUME CatalogGood PROVE CatalogGood'
    <3>1. e.names = listed BY <2>1, <2>2, <2>7 DEF CatalogGood, EditGood
    <3>2. SyncedNames' = NamesOf(e.existing) BY <2>2, <2>6 DEF SyncedNames, NamesOf
    <3>3. edit'[c] = e BY <2>3 DEF Edits
    <3>4. NamesOf(edit[c].existing)' = NamesOf(e.existing) BY <3>3 DEF NamesOf
    <3>5. EditGood(c)' BY <2>1, <2>2, <3>1, <3>2, <3>3, <3>4 DEF EditGood
    <3> QED BY <1>t, <2>1, <2>3, <2>5, <2>6, <2>7, <3>5, GoodKept
  <2> QED BY <2>1, <2>4, <2>7, GoodIsEnough
<1>8. ASSUME NEW c \in Editors, ReadActive(c) PROVE CatalogInv'
  <2> DEFINE e == [pc |-> "insert", names |-> edit[c].names,
                   existing |-> edit[c].existing, ours |-> Ours(c),
                   missing |-> edit[c].names \ NamesOf(edit[c].existing),
                   gone |-> {m \in edit[c].existing : m.name \notin edit[c].names}]
  <2>1. UNCHANGED <<models, lastModel, active, listed, excused>> /\ edit[c].pc = "active"
        /\ edit' = [edit EXCEPT ![c] = e]
    BY <1>8 DEF ReadActive, Pc
  <2>2. /\ e.pc = "insert" /\ e.names = edit[c].names /\ e.existing = edit[c].existing
        /\ e.ours = {m \in edit[c].existing : m.id = active}
        /\ e.missing = edit[c].names \ NamesOf(edit[c].existing)
        /\ e.gone = {m \in edit[c].existing : m.name \notin edit[c].names}
    BY DEF Ours
  <2>a. SyncEdit(e)
    <3>1. e \in [pc : {"insert", "delete", "choose"}, names : SUBSET edit[c].names,
                 existing : SUBSET edit[c].existing, ours : SUBSET edit[c].existing,
                 missing : SUBSET edit[c].names, gone : SUBSET edit[c].existing]
      BY DEF Ours
    <3> QED BY <3>1 DEF SyncEdit
  <2> HIDE DEF e
  <2>3. Edits(c, e) BY <1>t, <2>1, EditsStep
  <2>4. CatalogTypes' /\ RowsKnown'
    <3>1. e.gone \subseteq e.existing BY <2>2
    <3>2. \A m \in models : m.id # lastModel + 1 BY <1>t DEF RowsKnown, Known, CatalogTypes
    <3> QED BY <1>t, <2>1, <2>2, <2>a, <2>3, <3>1, <3>2, TypesKept
  <2>5. ~Repairing(c) BY <2>1 DEF Repairing
  <2>6. ModelIds' = ModelIds /\ Of(Synced)' = Of(Synced) BY <1>s, <2>1
  <2>7. ASSUME CatalogGood PROVE CatalogGood'
    <3>1. edit[c].names = listed /\ NamesOf(edit[c].existing) \cap listed \subseteq SyncedNames
      BY <2>1, <2>7 DEF CatalogGood, EditGood
    <3>2. SyncedNames' = SyncedNames BY <2>6 DEF SyncedNames, NamesOf
    <3>3. edit'[c] = e BY <2>3 DEF Edits
    <3>4. listed \ e.missing \subseteq SyncedNames BY <2>2, <3>1
    <3>5. \A m \in e.gone : m.name \notin listed /\ (m.id = active => e.ours # {}) BY <2>2, <3>1
    <3>6. EditGood(c)' BY <2>1, <2>2, <3>1, <3>2, <3>3, <3>4, <3>5 DEF EditGood
    <3> QED BY <1>t, <2>1, <2>3, <2>5, <2>6, <2>7, <3>6, GoodKept
  <2> QED BY <2>1, <2>4, <2>7, GoodIsEnough
<1>9. ASSUME NEW c \in Editors, InsertMissing(c) PROVE CatalogInv'
  <2>1. UNCHANGED <<active, listed, excused>> /\ edit[c].pc = "insert"
    BY <1>9 DEF InsertMissing, Pc
  <2>a. SyncEdit(edit[c]) /\ edit[c].gone \subseteq edit[c].existing BY <1>t, <2>1 DEF CatalogTypes, RowsKnown
  <2>b. ~Repairing(c) BY <2>1 DEF Repairing
  <2>c. \A m \in models : m.id # lastModel + 1 BY <1>t DEF RowsKnown, Known, CatalogTypes
  <2>2. CASE edit[c].missing = {}
    <3> DEFINE e == [edit[c] EXCEPT !.pc = "delete"]
    <3>1. edit' = [edit EXCEPT ![c] = e] /\ UNCHANGED <<models, lastModel>>
      BY <1>9, <2>2 DEF InsertMissing, Step
    <3>2. /\ SyncEdit(e) /\ e.pc = "delete" /\ e.names = edit[c].names /\ e.existing = edit[c].existing
          /\ e.ours = edit[c].ours /\ e.missing = edit[c].missing /\ e.gone = edit[c].gone
      BY <2>a, SyncEditPc
    <3> HIDE DEF e
    <3>3. Edits(c, e) BY <1>t, <3>1, EditsStep
    <3>4. CatalogTypes' /\ RowsKnown' BY <1>t, <2>1, <2>a, <2>c, <3>1, <3>2, <3>3, TypesKept
    <3>5. ModelIds' = ModelIds /\ Of(Synced)' = Of(Synced) BY <1>s, <3>1
    <3>6. ASSUME CatalogGood PROVE CatalogGood'
      <4>1. SyncedNames' = SyncedNames BY <3>5 DEF SyncedNames, NamesOf
      <4>2. EditGood(c)' BY <2>1, <2>2, <3>2, <3>3, <3>6, <4>1 DEF EditGood, Edits, CatalogGood
      <4> QED BY <1>t, <2>1, <2>b, <3>3, <3>5, <3>6, <4>2, GoodKept
    <3> QED BY <2>1, <3>4, <3>6, GoodIsEnough
  <2>3. CASE edit[c].missing # {} /\ First(edit[c].missing) \in NamesOf(Of(Synced))
    <3>1. edit' = [edit EXCEPT ![c] = NoEdit] /\ UNCHANGED <<models, lastModel>>
      BY <1>9, <2>3 DEF InsertMissing, Done
    <3>3. Edits(c, NoEdit) BY <1>t, <3>1, EditsStep
    <3>4. CatalogTypes' /\ RowsKnown' BY <1>n, <1>q, <3>1, <3>3
    <3>5. ModelIds' = ModelIds /\ Of(Synced)' = Of(Synced) BY <1>s, <3>1
    <3>6. EditGood(c)' BY <1>n, <3>3, RestIsGood DEF Edits
    <3>7. CatalogGood => CatalogGood' BY <1>t, <2>1, <2>b, <3>3, <3>5, <3>6, GoodKept
    <3> QED BY <2>1, <3>4, <3>7, GoodIsEnough
  <2>4. CASE edit[c].missing # {} /\ First(edit[c].missing) \notin NamesOf(Of(Synced))
    <3> DEFINE n == First(edit[c].missing)
               rest == edit[c].missing \ {n}
               e == [edit[c] EXCEPT !.missing = rest]
    <3>1. edit' = [edit EXCEPT ![c] = e] /\ InsertModel(Synced, n)
      BY <1>9, <2>4 DEF InsertMissing
    <3>r. rest \subseteq edit[c].missing /\ \A x \in edit[c].missing : x \in rest \/ x = n OBVIOUS
    <3> HIDE DEF rest, n
    <3>2. /\ SyncEdit(e) /\ e.pc = "insert" /\ e.names = edit[c].names /\ e.existing = edit[c].existing
          /\ e.ours = edit[c].ours /\ e.missing = rest /\ e.gone = edit[c].gone
      BY <2>1, <2>a, <3>r, SyncEditMissing
    <3> HIDE DEF e
    <3>3. Edits(c, e) BY <1>t, <3>1, EditsStep
    <3>4. CatalogTypes' /\ RowsKnown'
      BY <1>t, <2>1, <2>a, <3>1, <3>2, <3>3, InsertAdds, TypesKept
    <3>5. /\ ModelIds \subseteq ModelIds' /\ Of(Synced) \subseteq Of(Synced)'
          /\ n \in NamesOf(Of(Synced))'
      BY <1>t, <3>1, InsertAdds
    <3>6. ASSUME CatalogGood PROVE CatalogGood'
      <4>1. SyncedNames \subseteq SyncedNames' /\ n \in SyncedNames' BY <3>5 DEF SyncedNames, NamesOf
      <4>2. listed \ edit[c].missing \subseteq SyncedNames BY <2>1, <3>6 DEF CatalogGood, EditGood
      <4>3. listed \ rest \subseteq SyncedNames' BY <3>r, <4>1, <4>2
      <4>4. EditGood(c)' BY <2>1, <3>2, <3>3, <3>6, <4>3 DEF EditGood, Edits, CatalogGood
      <4> QED BY <1>t, <2>1, <2>b, <3>3, <3>5, <3>6, <4>4, GoodKept
    <3> QED BY <2>1, <3>4, <3>6, GoodIsEnough
  <2> QED BY <2>2, <2>3, <2>4
<1>10. ASSUME NEW c \in Editors, DeleteGone(c) PROVE CatalogInv'
  <2>1. UNCHANGED <<lastModel, listed, excused>> /\ edit[c].pc = "delete"
    BY <1>10 DEF DeleteGone, Pc
  <2>a. SyncEdit(edit[c]) /\ edit[c].gone \subseteq edit[c].existing BY <1>t, <2>1 DEF CatalogTypes, RowsKnown
  <2>c. \A m \in models : m.id # lastModel + 1 BY <1>t DEF RowsKnown, Known, CatalogTypes
  <2>2. CASE edit[c].gone = {}
    <3> DEFINE e == [edit[c] EXCEPT !.pc = "choose"]
    <3>1. edit' = [edit EXCEPT ![c] = e] /\ UNCHANGED <<models, active>>
      BY <1>10, <2>2 DEF DeleteGone, Step
    <3>2. /\ SyncEdit(e) /\ e.pc = "choose" /\ e.names = edit[c].names /\ e.existing = edit[c].existing
          /\ e.ours = edit[c].ours
      BY <2>a, SyncEditPc
    <3> HIDE DEF e
    <3>3. Edits(c, e) BY <1>t, <3>1, EditsStep
    <3>4. CatalogTypes' /\ RowsKnown' BY <1>t, <2>1, <2>c, <3>1, <3>2, <3>3, TypesKept
    <3>5. ModelIds' = ModelIds /\ Of(Synced)' = Of(Synced) BY <1>s, <3>1
    <3>6. ASSUME CatalogGood PROVE CatalogGood'
      <4>1. SyncedNames' = SyncedNames BY <3>5 DEF SyncedNames, NamesOf
      <4>2. EditGood(c)' BY <2>1, <3>2, <3>3, <3>6, <4>1 DEF EditGood, Edits, CatalogGood
      <4>3. Repairing(c)' \/ ~Repairing(c) BY <2>1, <3>2, <3>3 DEF Repairing, Edits
      <4> QED BY <1>t, <2>1, <3>1, <3>3, <3>5, <3>6, <4>2, <4>3, GoodKept
    <3> QED BY <2>1, <3>4, <3>6, GoodIsEnough
  <2>3. CASE edit[c].gone # {}
    <3>1. PICK m \in edit[c].gone : Without({m}) /\ edit' = [edit EXCEPT ![c].gone = @ \ {m}]
      BY <1>10, <2>3 DEF DeleteGone
    <3> DEFINE rest == edit[c].gone \ {m}
               e == [edit[c] EXCEPT !.gone = rest]
    <3>2. edit' = [edit EXCEPT ![c] = e] BY <3>1
    <3>r. rest \subseteq edit[c].gone OBVIOUS
    <3> HIDE DEF rest
    <3>3. /\ SyncEdit(e) /\ e.pc = "delete" /\ e.names = edit[c].names /\ e.existing = edit[c].existing
          /\ e.ours = edit[c].ours /\ e.gone = rest
      BY <2>1, <2>a, <3>r, SyncEditGone
    <3> HIDE DEF e
    <3>4. Edits(c, e) BY <1>t, <3>2, EditsStep
    <3>5. models' = models \ {m} /\ active' = IF active = m.id THEN 0 ELSE active
      BY <3>1 DEF Without
    <3>6. CatalogTypes' /\ RowsKnown' BY <1>t, <2>1, <2>a, <2>c, <3>3, <3>4, <3>5, <3>r, TypesKept
    <3>7. ASSUME CatalogGood PROVE CatalogGood'
      <4>1. m.name \notin listed /\ (m.id = active => edit[c].ours # {})
        BY <2>1, <3>7 DEF CatalogGood, EditGood
      <4>2. \A x \in Of(Synced) : x.name \in listed => x \in Of(Synced)'
        BY <3>5, <4>1 DEF Of
      <4>3. SyncedNames \cap listed \subseteq SyncedNames' BY <4>2 DEF SyncedNames, NamesOf
      <4>4. \A x \in rest : x.name \notin listed /\ (x.id = active' => edit[c].ours # {})
        <5> SUFFICES ASSUME NEW x \in rest, x.id = active' PROVE edit[c].ours # {}
          BY <2>1, <3>7, <3>r DEF CatalogGood, EditGood
        <5>1. Known(x) BY <1>t, <2>1, <2>a, <3>r DEF RowsKnown
        <5>2. active' = active BY <3>5, <5>1 DEF Known
        <5> QED BY <2>1, <3>7, <3>r, <5>2 DEF CatalogGood, EditGood
      <4>5. EditGood(c)' BY <2>1, <3>3, <3>4, <3>7, <4>3, <4>4 DEF EditGood, Edits, CatalogGood
      <4>6. CASE active = m.id
        <5>1. Repairing(c)' BY <3>3, <3>4, <4>1, <4>6 DEF Repairing, Edits
        <5>2. active' = 0 BY <3>5, <4>6
        <5> QED BY <1>t, <2>1, <3>4, <3>7, <4>2, <4>5, <5>1, <5>2, GoodKept
      <4>7. CASE active # m.id
        <5>1. active' = active BY <3>5, <4>7
        <5>2. Repairing(c)' \/ ~Repairing(c) BY <2>1, <3>3, <3>4 DEF Repairing, Edits
        <5>3. active \in ModelIds => active' \in ModelIds' BY <3>5, <4>7, <5>1 DEF ModelIds
        <5> QED BY <1>t, <2>1, <3>4, <3>7, <4>2, <4>5, <5>1, <5>2, <5>3, GoodKept
      <4> QED BY <4>6, <4>7
    <3> QED BY <2>1, <3>6, <3>7, GoodIsEnough
  <2> QED BY <2>2, <2>3
<1>11. ASSUME NEW c \in Editors, Choose(c) PROVE CatalogInv'
  <2>1. UNCHANGED <<models, lastModel, active, listed, excused>> /\ edit[c].pc = "choose"
    BY <1>11 DEF Choose, Pc
  <2> DEFINE found == {m \in Of(Synced) : m.name \in Preferred(c)}
  <2>2. ModelIds' = ModelIds /\ Of(Synced)' = Of(Synced) BY <1>s, <2>1
  <2>3. CASE edit[c].ours = {} \/ found = {}
    <3>1. edit' = [edit EXCEPT ![c] = NoEdit] BY <1>11, <2>3 DEF Choose, Done
    <3>2. Edits(c, NoEdit) BY <1>t, <3>1, EditsStep
    <3>3. CatalogTypes' /\ RowsKnown' BY <1>n, <1>q, <2>1, <3>2
    <3>4. EditGood(c)' BY <1>n, <3>2, RestIsGood DEF Edits
    <3>5. ASSUME CatalogGood PROVE CatalogGood'
      <4>1. listed # {} /\ edit[c].names = listed /\ listed \subseteq SyncedNames
        BY <2>1, <3>5 DEF CatalogGood, EditGood
      <4>2. Preferred(c) \subseteq listed /\ Preferred(c) # {} BY <4>1 DEF Preferred
      <4>3. found # {} BY <4>1, <4>2 DEF SyncedNames, NamesOf
      <4>4. ~Repairing(c) BY <2>1, <2>3, <4>3 DEF Repairing
      <4> QED BY <1>t, <2>1, <2>2, <3>2, <3>4, <3>5, <4>4, GoodKept
    <3> QED BY <2>1, <3>3, <3>5, GoodIsEnough
  <2>4. CASE ~(edit[c].ours = {} \/ found = {})
    <3>1. PICK m \in found : edit' = [edit EXCEPT ![c] = [pc |-> "reactivate", pick |-> m.id]]
      BY <1>11, <2>4 DEF Choose
    <3> DEFINE e == [pc |-> "reactivate", pick |-> m.id]
    <3>2. e.pc = "reactivate" /\ e.pick = m.id OBVIOUS
    <3>a. PickEdit(e)
      <4>1. e \in [pc : {"activate", "reactivate"}, pick : {m.id}] OBVIOUS
      <4> QED BY <4>1 DEF PickEdit
    <3> HIDE DEF e
    <3>3. Edits(c, e) BY <1>t, <3>1, EditsStep DEF e
    <3>4. CatalogTypes' /\ RowsKnown'
      <4>1. \A x \in models : x.id # lastModel + 1 BY <1>t DEF RowsKnown, Known, CatalogTypes
      <4> QED BY <1>t, <2>1, <3>2, <3>a, <3>3, <4>1, TypesKept
    <3>5. ASSUME CatalogGood PROVE CatalogGood'
      <4>1. edit[c].names = listed BY <2>1, <3>5 DEF CatalogGood, EditGood
      <4>2. m \in Of(Synced) /\ m.name \in listed BY <4>1 DEF Preferred
      <4>3. EditGood(c)' BY <2>1, <2>2, <3>2, <3>3, <4>2 DEF EditGood, Edits
      <4>4. Repairing(c)' BY <3>2, <3>3 DEF Repairing, Edits
      <4> QED BY <1>t, <2>1, <2>2, <3>3, <3>5, <4>3, <4>4, GoodKept
    <3> QED BY <2>1, <3>4, <3>5, GoodIsEnough
  <2> QED BY <2>3, <2>4
<1>12. ASSUME NEW c \in Editors, DbFault(c) PROVE CatalogInv'
  <2>1. excused' /\ UNCHANGED <<models, lastModel>> /\ edit' = [edit EXCEPT ![c] = NoEdit]
    BY <1>12 DEF DbFault, Done
  <2>2. Edits(c, NoEdit) BY <1>t, <2>1, EditsStep
  <2>3. CatalogTypes' /\ RowsKnown' BY <1>n, <1>q, <2>1, <2>2
  <2> QED BY <2>1, <2>3, GoodIsEnough
<1>13. CASE ServerChanges
  <2>1. UNCHANGED <<models, lastModel, active, edit>> /\ excused' = (excused \/ listed' = {} \/ Syncing # {})
    BY <1>13 DEF ServerChanges
  <2>2. CatalogTypes' BY <1>t, <2>1 DEF CatalogTypes
  <2>3. RowsKnown' BY <1>t, <2>1 DEF RowsKnown, Known
  <2>4. ASSUME CatalogGood, ~excused' PROVE CatalogGood'
    <3>1. \A c \in Editors : edit[c].pc = "idle" BY <2>1, <2>4 DEF Syncing, Pc
    <3>2. \A c \in Editors : EditGood(c)' BY <2>1, <3>1, RestIsGood
    <3>3. active \in ModelIds BY <2>4, <3>1 DEF CatalogGood, Repairing
    <3>4. active' \in ModelIds' BY <1>s, <2>1, <3>3
    <3>5. listed' # {} BY <2>1, <2>4
    <3> QED BY <3>2, <3>4, <3>5 DEF CatalogGood
  <2> QED BY <2>1, <2>2, <2>3, <2>4, GoodIsEnough
<1>14. CASE UNCHANGED catalogVars
  <2>1. UNCHANGED <<models, lastModel, active, listed, edit, excused>> BY <1>14 DEF catalogVars
  <2>2. CatalogTypes' BY <1>t, <2>1 DEF CatalogTypes
  <2>3. RowsKnown' BY <1>t, <2>1 DEF RowsKnown, Known
  <2>4. ModelIds' = ModelIds /\ \A p : Of(p)' = Of(p) BY <1>s, <2>1
  <2>5. SyncedNames' = SyncedNames BY <2>4 DEF SyncedNames, NamesOf
  <2>6. ASSUME CatalogGood PROVE CatalogGood'
    <3>1. \A c \in Editors : EditGood(c)' BY <1>t, <2>1, <2>4, <2>6, OthersKept DEF CatalogGood
    <3> QED BY <2>1, <2>4, <2>6, <3>1 DEF CatalogGood, Repairing
  <2> QED BY <2>1, <2>2, <2>3, <2>6, GoodIsEnough
<1> QED
  BY <1>1, <1>2, <1>3, <1>4, <1>5, <1>6, <1>7, <1>8, <1>9, <1>10, <1>11, <1>12, <1>13, <1>14
     DEF CatalogNext, SyncModels, EditModels

\* Whatever the names, the requests and the lists of the server: some model stays active.
THEOREM ModelStaysActive == CatalogSpec => []AModelStaysActive
<1>1. CatalogInit => CatalogInv BY CatalogInitInv
<1>2. CatalogInv /\ [CatalogNext]_catalogVars => CatalogInv' BY CatalogStep
<1>3. CatalogInv => AModelStaysActive
  BY DEF CatalogInv, CatalogGood, AModelStaysActive, Syncing, Pc, Repairing
<1> QED BY <1>1, <1>2, <1>3, PTL DEF CatalogSpec

(***************************************************************************)
(* The prompt the user wrote is kept.  The invariant: who is about to write *)
(* a document has the prompt of the stored one in hand, unless the user    *)
(* wrote it while a request held an older copy.                            *)
(***************************************************************************)

Documents(K, P, M, E) == [kind : K, provider : P, model : M, effort : E, prompt : Nat, web : BOOLEAN]

\* The fields of the file that do not matter here may hold anything.
IsDocument(d) == \E K, P, M, E : d \in Documents(K, P, M, E)

RequestPcs == {"idle", "load", "upsert", "clear", "read", "show", "prefer", "db", "adopt", "answered"}

Requests(O, F, S, A) ==
  [pc : RequestPcs, then : {"show", "prefer"}, op : O, prefs : F, snap : S, touched : BOOLEAN, answer : A]

IsRequest(a) == IsDocument(a.prefs) /\ \E O, F, S, A : a \in Requests(O, F, S, A)

ChoiceTypes ==
  /\ IsDocument(document)
  /\ request = [r \in Asks |-> request[r]]
  /\ \A r \in Asks : IsRequest(request[r])
  /\ written \in Nat

HoldsPrompt(r) == HoldsCopy(request[r]) /\ request[r].pc # "clear"

\* The last prompt is the only one there is.  A request on its way to store it has it; one
\* that is about to take it out of the file has stored it; and while PostgreSQL lacks it,
\* the file has it and so has every request that could write the file back.
PromptInHand == ~crossed =>
  /\ document.prompt \in {0, written}
  /\ \A r \in Asks : HoldsPrompt(r) => request[r].prefs.prompt \in {0, written}
  /\ \A r \in Asks : Is(r, "upsert") => request[r].prefs.prompt = written
  /\ \A r \in Asks : Is(r, "clear") => persona = written
  /\ \/ written = 0 \/ persona = written
     \/ document.prompt = written /\ \A r \in Asks : HoldsPrompt(r) => request[r].prefs.prompt = written

PromptInv == ChoiceTypes /\ PromptInHand

----------------------------------------------------------------------------

\* A choice of provider, model and effort leaves the prompt and the web flag of a document alone.
LEMMA PreferringKeepsPrompt ==
  ASSUME NEW d, IsDocument(d), NEW p, NEW m, NEW e
  PROVE  IsDocument(Preferring(d, p, m, e)) /\ Preferring(d, p, m, e).prompt = d.prompt
<1>1. PICK K, P, M, E : d \in Documents(K, P, M, E) BY DEF IsDocument
<1>2. d \in Documents(K \union {ProviderKind[p]}, P \union {p}, M \union {m}, E \union {e})
  BY <1>1 DEF Documents
<1>3. Preferring(d, p, m, e)
        \in Documents(K \union {ProviderKind[p]}, P \union {p}, M \union {m}, E \union {e})
  BY <1>2 DEF Documents, Preferring
<1>4. Preferring(d, p, m, e).prompt = d.prompt BY <1>1 DEF Documents, Preferring
<1>5. IsDocument(Preferring(d, p, m, e)) BY <1>3 DEF IsDocument
<1> QED BY <1>4, <1>5

\* A document stays one when it takes a provider, a model and an effort,
LEMMA DocumentAdopt ==
  ASSUME NEW d, IsDocument(d), NEW v
  PROVE  /\ IsDocument([d EXCEPT !.kind = v]) /\ [d EXCEPT !.kind = v].prompt = d.prompt
         /\ IsDocument([d EXCEPT !.provider = v]) /\ [d EXCEPT !.provider = v].prompt = d.prompt
         /\ IsDocument([d EXCEPT !.model = v]) /\ [d EXCEPT !.model = v].prompt = d.prompt
<1>1. PICK K, P, M, E : d \in Documents(K, P, M, E) BY DEF IsDocument
<1>2. /\ [d EXCEPT !.kind = v] \in Documents(K \union {v}, P, M, E)
      /\ [d EXCEPT !.provider = v] \in Documents(K, P \union {v}, M, E)
      /\ [d EXCEPT !.model = v] \in Documents(K, P, M \union {v}, E)
  BY <1>1 DEF Documents
<1>3. /\ [d EXCEPT !.kind = v].prompt = d.prompt
      /\ [d EXCEPT !.provider = v].prompt = d.prompt
      /\ [d EXCEPT !.model = v].prompt = d.prompt
  BY <1>1 DEF Documents
<1> QED BY <1>2, <1>3 DEF IsDocument

\* a prompt,
LEMMA DocumentPrompt ==
  ASSUME NEW d, IsDocument(d), NEW n \in Nat
  PROVE  IsDocument([d EXCEPT !.prompt = n]) /\ [d EXCEPT !.prompt = n].prompt = n
<1>1. PICK K, P, M, E : d \in Documents(K, P, M, E) BY DEF IsDocument
<1>3. [d EXCEPT !.prompt = n] \in Documents(K, P, M, E) BY <1>1 DEF Documents
<1>4. [d EXCEPT !.prompt = n].prompt = n BY <1>1 DEF Documents
<1> QED BY <1>3, <1>4 DEF IsDocument

\* or a web flag.
LEMMA DocumentWeb ==
  ASSUME NEW d, IsDocument(d)
  PROVE  IsDocument([d EXCEPT !.web = ~@]) /\ [d EXCEPT !.web = ~@].prompt = d.prompt
<1>1. PICK K, P, M, E : d \in Documents(K, P, M, E) BY DEF IsDocument
<1>2. d.web \in BOOLEAN BY <1>1 DEF Documents
<1>3. [d EXCEPT !.web = ~@] \in Documents(K, P, M, E) BY <1>1, <1>2 DEF Documents
<1>4. [d EXCEPT !.web = ~@].prompt = d.prompt BY <1>1 DEF Documents
<1> QED BY <1>3, <1>4 DEF IsDocument

\* A choice is put into the preferences, the prompt stays.
LEMMA WithKeepsPrompt ==
  ASSUME NEW d, IsDocument(d), NEW c
  PROVE  IsDocument(With(d, c)) /\ With(d, c).prompt = d.prompt
<1>1. CASE c = NoChoice BY <1>1 DEF With
<1>2. CASE c # NoChoice
  <2>1. \E e : With(d, c) = Preferring(d, c.provider, c.model, e)
    BY <1>2 DEF With
  <2> QED BY <2>1, PreferringKeepsPrompt
<1> QED BY <1>1, <1>2

\* Resolution of a name the catalogue lacks does not touch the prompt.
LEMMA ResolvedKeepsPrompt ==
  ASSUME NEW d, IsDocument(d), NEW snap
  PROVE  IsDocument(Resolved(d, snap)) /\ Resolved(d, snap).prompt = d.prompt
BY WithKeepsPrompt DEF Resolved

\* Nobody's request is a request.
LEMMA WaitingIsRequest == IsRequest(Waiting) /\ Waiting.pc = "idle"
<1>1. Unset \in Documents({"none"}, {0}, {"none"}, {"none"})
  BY DEF Unset, Documents
<1>2. IsDocument(Waiting.prefs) BY <1>1 DEF Waiting, IsDocument
<1>3. Waiting \in Requests({ShowOp}, {Unset}, {[rows |-> {}, active |-> NoChoice]}, {NoAnswer})
  BY DEF Waiting, Requests, RequestPcs
<1>4. \E O, F, S, A : Waiting \in Requests(O, F, S, A)
  BY <1>3
<1> QED BY <1>2, <1>4 DEF IsRequest, Waiting

\* What the handlers change of a request.
LEMMA RequestPc ==
  ASSUME NEW a, IsRequest(a), NEW to \in RequestPcs
  PROVE  LET b == [a EXCEPT !.pc = to] IN IsRequest(b) /\ b.pc = to /\ b.prefs = a.prefs
<1> DEFINE b == [a EXCEPT !.pc = to]
<1>1. PICK O, F, S, A : a \in Requests(O, F, S, A) BY DEF IsRequest
<1>2. b \in Requests(O, F, S, A) BY <1>1 DEF Requests
<1>3. b.pc = to /\ b.prefs = a.prefs BY <1>1 DEF Requests
<1>4. \E X, Y, Z, W : b \in Requests(X, Y, Z, W) BY <1>2
<1> QED BY <1>3, <1>4 DEF IsRequest

\* The same of where it goes next,
LEMMA RequestThen ==
  ASSUME NEW a, IsRequest(a), NEW v \in {"show", "prefer"}
  PROVE  LET b == [a EXCEPT !.then = v] IN IsRequest(b) /\ b.pc = a.pc /\ b.prefs = a.prefs
<1> DEFINE b == [a EXCEPT !.then = v]
<1>1. PICK O, F, S, A : a \in Requests(O, F, S, A) BY DEF IsRequest
<1>2. b \in Requests(O, F, S, A) BY <1>1 DEF Requests
<1>3. b.pc = a.pc /\ b.prefs = a.prefs BY <1>1 DEF Requests
<1>4. \E X, Y, Z, W : b \in Requests(X, Y, Z, W) BY <1>2
<1> QED BY <1>3, <1>4 DEF IsRequest

\* of its kind,
LEMMA RequestOp ==
  ASSUME NEW a, IsRequest(a), NEW v
  PROVE  LET b == [a EXCEPT !.op = v] IN IsRequest(b) /\ b.pc = a.pc /\ b.prefs = a.prefs
<1> DEFINE b == [a EXCEPT !.op = v]
<1>1. PICK O, F, S, A : a \in Requests(O, F, S, A) BY DEF IsRequest
<1>2. b \in Requests(O \union {v}, F, S, A) BY <1>1 DEF Requests
<1>3. b.pc = a.pc /\ b.prefs = a.prefs BY <1>1 DEF Requests
<1>4. \E X, Y, Z, W : b \in Requests(X, Y, Z, W) BY <1>2
<1> QED BY <1>3, <1>4 DEF IsRequest

\* of the document in its hand,
LEMMA RequestPrefs ==
  ASSUME NEW a, IsRequest(a), NEW v, IsDocument(v)
  PROVE  LET b == [a EXCEPT !.prefs = v] IN IsRequest(b) /\ b.pc = a.pc /\ b.prefs = v
<1> DEFINE b == [a EXCEPT !.prefs = v]
<1>1. PICK O, F, S, A : a \in Requests(O, F, S, A) BY DEF IsRequest
<1>2. b \in Requests(O, F \union {v}, S, A) BY <1>1 DEF Requests
<1>3. b.pc = a.pc /\ b.prefs = v BY <1>1 DEF Requests
<1>4. \E X, Y, Z, W : b \in Requests(X, Y, Z, W) BY <1>2
<1> QED BY <1>3, <1>4 DEF IsRequest

\* of the one it read before,
LEMMA RequestSnap ==
  ASSUME NEW a, IsRequest(a), NEW v
  PROVE  LET b == [a EXCEPT !.snap = v] IN IsRequest(b) /\ b.pc = a.pc /\ b.prefs = a.prefs
<1> DEFINE b == [a EXCEPT !.snap = v]
<1>1. PICK O, F, S, A : a \in Requests(O, F, S, A) BY DEF IsRequest
<1>2. b \in Requests(O, F, S \union {v}, A) BY <1>1 DEF Requests
<1>3. b.pc = a.pc /\ b.prefs = a.prefs BY <1>1 DEF Requests
<1>4. \E X, Y, Z, W : b \in Requests(X, Y, Z, W) BY <1>2
<1> QED BY <1>3, <1>4 DEF IsRequest

\* of its answer,
LEMMA RequestAnswer ==
  ASSUME NEW a, IsRequest(a), NEW v
  PROVE  LET b == [a EXCEPT !.answer = v] IN IsRequest(b) /\ b.pc = a.pc /\ b.prefs = a.prefs
<1> DEFINE b == [a EXCEPT !.answer = v]
<1>1. PICK O, F, S, A : a \in Requests(O, F, S, A) BY DEF IsRequest
<1>2. b \in Requests(O, F, S, A \union {v}) BY <1>1 DEF Requests
<1>3. b.pc = a.pc /\ b.prefs = a.prefs BY <1>1 DEF Requests
<1>4. \E X, Y, Z, W : b \in Requests(X, Y, Z, W) BY <1>2
<1> QED BY <1>3, <1>4 DEF IsRequest

\* and of whether it wrote.
LEMMA RequestTouched ==
  ASSUME NEW a, IsRequest(a), NEW on \in BOOLEAN
  PROVE  LET b == [a EXCEPT !.touched = on]
         IN IsRequest(b) /\ b.pc = a.pc /\ b.prefs = a.prefs /\ b.then = a.then
<1> DEFINE b == [a EXCEPT !.touched = on]
<1>1. PICK O, F, S, A : a \in Requests(O, F, S, A) BY DEF IsRequest
<1>2. b \in Requests(O, F, S, A) BY <1>1 DEF Requests
<1>3. b.pc = a.pc /\ b.prefs = a.prefs /\ b.then = a.then BY <1>1 DEF Requests
<1>4. \E X, Y, Z, W : b \in Requests(X, Y, Z, W) BY <1>2
<1> QED BY <1>3, <1>4 DEF IsRequest

\* One request becomes a, and the others at most learn that something was written.
Becomes(r, a) ==
  /\ request' = [x \in Asks |-> request'[x]]
  /\ request'[r] = a
  /\ \A x \in Asks \ {r} : IsRequest(request'[x]) /\ request'[x].pc = request[x].pc
                             /\ request'[x].prefs = request[x].prefs /\ request'[x].then = request[x].then

\* A request that goes on becomes one with another place and nothing else.
LEMMA GoesBecomes ==
  ASSUME ChoiceTypes, NEW r \in Asks, NEW a, Goes(r, a)
  PROVE  Becomes(r, a)
BY DEF ChoiceTypes, Goes, Becomes

\* Being marked as overtaken changes nothing the invariant reads.
LEMMA TouchedKeeps ==
  ASSUME NEW a, IsRequest(a)
  PROVE  LET b == [a EXCEPT !.touched = @ \/ a.pc # "idle"]
         IN IsRequest(b) /\ b.pc = a.pc /\ b.prefs = a.prefs /\ b.then = a.then
<1>1. a.touched \in BOOLEAN BY DEF IsRequest, Requests
<1>2. (a.touched \/ a.pc # "idle") \in BOOLEAN BY <1>1
<1>3. [a EXCEPT !.touched = @ \/ a.pc # "idle"] = [a EXCEPT !.touched = (a.touched \/ a.pc # "idle")]
  OBVIOUS
<1> QED BY <1>2, <1>3, RequestTouched

\* Who writes a document into the store goes on, and the others are marked.
LEMMA WritesBecomes ==
  ASSUME ChoiceTypes, NEW r \in Asks, NEW a, Writes(r, a)
  PROVE  Becomes(r, a)
<1>1. \A x \in Asks \ {r} : request'[x] = [request[x] EXCEPT !.touched = @ \/ request[x].pc # "idle"]
  BY DEF Writes
<1>2. \A x \in Asks \ {r} : IsRequest(request'[x]) /\ request'[x].pc = request[x].pc
                             /\ request'[x].prefs = request[x].prefs /\ request'[x].then = request[x].then
  <2> SUFFICES ASSUME NEW x \in Asks \ {r}
               PROVE  IsRequest(request'[x]) /\ request'[x].pc = request[x].pc
                      /\ request'[x].prefs = request[x].prefs /\ request'[x].then = request[x].then
    OBVIOUS
  <2> DEFINE b == [request[x] EXCEPT !.touched = @ \/ request[x].pc # "idle"]
  <2>1. IsRequest(request[x]) BY DEF ChoiceTypes
  <2>2. IsRequest(b) /\ b.pc = request[x].pc /\ b.prefs = request[x].prefs /\ b.then = request[x].then
    BY <2>1, TouchedKeeps
  <2>3. request'[x] = b BY <1>1
  <2> HIDE DEF b
  <2> QED BY <2>2, <2>3
<1>3. request'[r] = a /\ request' = [x \in Asks |-> request'[x]]
  BY DEF Writes
<1> QED BY <1>2, <1>3 DEF Becomes
----------------------------------------------------------------------------

\* Everybody is idle over the first document.
LEMMA PromptInitInv == ChoiceInit => PromptInv
<1> SUFFICES ASSUME ChoiceInit PROVE PromptInv OBVIOUS
<1>1. document \in Documents({"none", ProviderKind[1]}, {0}, {"none", "a"}, {"none"}) /\ document.prompt = 0
  <2>1. Unset \in Documents({"none"}, {0}, {"none"}, {"none"}) BY DEF Unset, Documents
  <2>2. CASE document = Unset BY <2>2 DEF Unset, Documents
  <2>3. CASE document = [Unset EXCEPT !.kind = ProviderKind[1], !.model = "a"]
    <3>1. document = [kind |-> ProviderKind[1], provider |-> 0, model |-> "a", effort |-> "none",
                      prompt |-> 0, web |-> TRUE]
      BY <2>3 DEF Unset
    <3> QED BY <3>1 DEF Documents
  <2> QED BY <2>2, <2>3 DEF ChoiceInit
<1>2. IsDocument(document) BY <1>1 DEF IsDocument
<1>3. ChoiceTypes
  BY <1>2, WaitingIsRequest DEF ChoiceInit, ChoiceTypes
<1>4. PromptInHand
  BY <1>1, WaitingIsRequest DEF ChoiceInit, PromptInHand, HoldsPrompt, HoldsCopy, Is
<1> QED BY <1>3, <1>4 DEF PromptInv

\* A request moves and the prompts stay where they are: in its hands it has what the file or
\* its own preferences had.
LEMMA PromptMoves ==
  ASSUME PromptInv, NEW r \in Asks, NEW a, IsRequest(a), Becomes(r, a),
         written' = written, IsDocument(document'),
         document'.prompt = document.prompt \/ (HoldsPrompt(r) /\ document'.prompt = request[r].prefs.prompt),
         persona' = persona, crossed' = crossed,
         a.pc \in {"upsert", "read", "show", "prefer"} =>
           \/ HoldsPrompt(r) /\ a.prefs.prompt = request[r].prefs.prompt
           \/ a.prefs.prompt = document.prompt,
         a.pc = "upsert" => a.prefs.prompt # 0,
         a.pc # "clear"
  PROVE  PromptInv'
<1>1. ChoiceTypes'
  <2>1. \A x \in Asks : IsRequest(request'[x]) BY DEF Becomes
  <2>2. request' = [x \in Asks |-> request'[x]] BY DEF Becomes
  <2> QED BY <2>1, <2>2 DEF PromptInv, ChoiceTypes
<1> SUFFICES ASSUME ~crossed' PROVE PromptInHand'
  BY <1>1 DEF PromptInv, PromptInHand
<1>2. document'.prompt \in {0, written}
  BY DEF PromptInv, PromptInHand
<1>3. \A x \in Asks \ {r} : request'[x].pc = request[x].pc /\ request'[x].prefs = request[x].prefs
                           /\ request'[x].then = request[x].then
  BY DEF Becomes
<1>4. request'[r] = a BY DEF Becomes
<1>5. a.pc \in {"upsert", "read", "show", "prefer"} => a.prefs.prompt \in {0, written}
  BY DEF PromptInv, PromptInHand
<1>h. /\ \A x \in Asks \ {r} : HoldsPrompt(x)' => HoldsPrompt(x)
      /\ HoldsPrompt(r)' => a.pc \in {"upsert", "read", "show", "prefer"}
  BY <1>3, <1>4 DEF HoldsPrompt, HoldsCopy
<1>6. \A x \in Asks : HoldsPrompt(x)' => request'[x].prefs.prompt \in {0, written'}
  BY <1>3, <1>4, <1>5, <1>h DEF PromptInv, PromptInHand
<1>7. \A x \in Asks : Is(x, "upsert")' => request'[x].prefs.prompt = written'
  BY <1>3, <1>4, <1>5 DEF PromptInv, PromptInHand, Is
<1>8. \A x \in Asks : Is(x, "clear")' => persona' = written'
  BY <1>3, <1>4 DEF PromptInv, PromptInHand, Is
<1>9. ASSUME document.prompt = written, \A x \in Asks : HoldsPrompt(x) => request[x].prefs.prompt = written
      PROVE  document'.prompt = written' /\ \A x \in Asks : HoldsPrompt(x)' => request'[x].prefs.prompt = written'
  <2>1. document'.prompt = written' BY <1>9
  <2>2. a.pc \in {"upsert", "read", "show", "prefer"} => a.prefs.prompt = written
    BY <1>9
  <2> QED BY <1>3, <1>4, <1>9, <1>h, <2>1, <2>2
<1>10. \/ written' = 0 \/ persona' = written'
       \/ document'.prompt = written' /\ \A x \in Asks : HoldsPrompt(x)' => request'[x].prefs.prompt = written'
  BY <1>9 DEF PromptInv, PromptInHand
<1> QED BY <1>2, <1>6, <1>7, <1>8, <1>10 DEF PromptInHand

\* Every step of a request and every write of the file keeps the invariant: one step per action.
LEMMA PromptStep == PromptInv /\ [ChoiceNext]_choiceVars => PromptInv'
<1> SUFFICES ASSUME PromptInv, [ChoiceNext]_choiceVars PROVE PromptInv'
  OBVIOUS
<1>t. ChoiceTypes BY DEF PromptInv
<1>d. IsDocument(document) BY <1>t DEF ChoiceTypes
<1>w. IsRequest(Waiting) /\ Waiting.pc = "idle" BY WaitingIsRequest
<1>1. ASSUME NEW r \in Asks, Begin(r) PROVE PromptInv'
  <2>1. PICK op \in Ops : Goes(r, [Waiting EXCEPT !.pc = "load", !.op = op,
                                             !.then = IF op.kind = "show" THEN "show" ELSE "prefer"])
    BY <1>1 DEF Begin
  <2> DEFINE a == [Waiting EXCEPT !.pc = "load", !.op = op,
                                  !.then = IF op.kind = "show" THEN "show" ELSE "prefer"]
  <2> DEFINE a1 == [Waiting EXCEPT !.pc = "load"]
             a2 == [a1 EXCEPT !.op = op]
             th == IF op.kind = "show" THEN "show" ELSE "prefer"
  <2>a. a = [a2 EXCEPT !.then = th] OBVIOUS
  <2>b. IsRequest(a1) /\ a1.pc = "load" BY <1>w, RequestPc DEF RequestPcs
  <2> HIDE DEF a1
  <2>c. IsRequest(a2) /\ a2.pc = "load" BY <2>b, RequestOp
  <2> HIDE DEF a2
  <2>d. th \in {"show", "prefer"} OBVIOUS
  <2> HIDE DEF th, a
  <2>2. IsRequest(a) /\ a.pc = "load"
    BY <2>a, <2>c, <2>d, RequestThen
  <2> USE DEF a, th
  <2>3. Becomes(r, a) BY <1>t, <2>1, GoesBecomes
  <2>4. written' = written /\ document' = document /\ persona' = persona /\ crossed' = crossed BY <1>1 DEF Begin
  <2> HIDE DEF a
  <2> QED BY <1>d, <2>2, <2>3, <2>4, PromptMoves
<1>2. ASSUME NEW r \in Asks, LoadPreferences(r) PROVE PromptInv'
  <2> DEFINE to == IF document.prompt = 0 THEN "read" ELSE "upsert"
             a == [request[r] EXCEPT !.prefs = document, !.pc = to]
  <2>1. to \in RequestPcs /\ IsRequest(request[r]) BY <1>t DEF RequestPcs, ChoiceTypes
  <2> DEFINE a1 == [request[r] EXCEPT !.prefs = document]
  <2>a. a = [a1 EXCEPT !.pc = to] OBVIOUS
  <2>b. IsRequest(a1) /\ a1.prefs = document BY <1>d, <2>1, RequestPrefs
  <2> HIDE DEF a1, a
  <2>2. IsRequest(a) /\ a.pc = to /\ a.prefs = document
    BY <2>1, <2>a, <2>b, RequestPc
  <2> USE DEF a
  <2>3. Goes(r, a) BY <1>2 DEF LoadPreferences
  <2>4. Becomes(r, a) BY <1>t, <2>3, GoesBecomes
  <2>5. written' = written /\ document' = document /\ persona' = persona /\ crossed' = crossed BY <1>2 DEF LoadPreferences
  <2> HIDE DEF a
  <2> QED BY <1>d, <2>2, <2>4, <2>5, PromptMoves
<1>w1. ASSUME NEW r \in Asks, Fails(r), written' = written, document' = document, persona' = persona /\ crossed' = crossed
       PROVE  PromptInv'
  BY <1>d, <1>t, <1>w, <1>w1, GoesBecomes, PromptMoves DEF Fails
<1>3. ASSUME NEW r \in Asks, Upsert(r) PROVE PromptInv'
  <2>1. written' = written /\ document' = document /\ crossed' = crossed BY <1>3 DEF Upsert
  <2>2. CASE Fails(r) /\ UNCHANGED persona BY <1>w1, <2>1, <2>2
  <2>3. CASE persona' = request[r].prefs.prompt /\ Goes(r, [request[r] EXCEPT !.pc = "clear"])
    <3> DEFINE a == [request[r] EXCEPT !.pc = "clear"]
    <3>1. IsRequest(request[r]) BY <1>t DEF ChoiceTypes
    <3>2. IsRequest(a) /\ a.pc = "clear" BY <3>1, RequestPc DEF RequestPcs
    <3>3. Becomes(r, a) BY <1>t, <2>3, GoesBecomes
    <3> HIDE DEF a
    <3>4. ~crossed => persona' = written BY <1>3, <2>3 DEF Upsert, PromptInv, PromptInHand
    <3>5. \A x \in Asks \ {r} : request'[x].pc = request[x].pc /\ request'[x].prefs = request[x].prefs
                               /\ request'[x].then = request[x].then
      BY <3>3 DEF Becomes
    <3>6. request'[r].pc = "clear" BY <3>2, <3>3 DEF Becomes
    <3>7. ChoiceTypes'
      <4>1. \A x \in Asks : IsRequest(request'[x]) BY <3>2, <3>3 DEF Becomes
      <4>2. request' = [x \in Asks |-> request'[x]] BY <3>3 DEF Becomes
      <4> QED BY <1>t, <2>1, <4>1, <4>2 DEF ChoiceTypes
    <3>8. ~crossed => \A x \in Asks : HoldsPrompt(x)' => request'[x].prefs.prompt \in {0, written}
      BY <3>5, <3>6 DEF HoldsPrompt, HoldsCopy, PromptInv, PromptInHand
    <3>9. ~crossed => \A x \in Asks : Is(x, "upsert")' => request'[x].prefs.prompt = written
      BY <3>5, <3>6 DEF Is, PromptInv, PromptInHand
    <3>10. PromptInHand'
      BY <2>1, <3>4, <3>8, <3>9 DEF PromptInv, PromptInHand
    <3> QED BY <3>7, <3>10 DEF PromptInv
  <2> QED BY <1>3, <2>2, <2>3 DEF Upsert, Upserted
<1>4. ASSUME NEW r \in Asks, ClearPrompt(r) PROVE PromptInv'
  <2> DEFINE q == [request[r].prefs EXCEPT !.prompt = 0]
             a == [request[r] EXCEPT !.pc = "read", !.prefs = q]
  <2>1. IsRequest(request[r]) /\ IsDocument(request[r].prefs) BY <1>t DEF ChoiceTypes, IsRequest
  <2>2. IsDocument(q) /\ q.prompt = 0 BY <2>1, DocumentPrompt
  <2>3. document' = q /\ Writes(r, a) /\ written' = written /\ persona' = persona /\ crossed' = crossed /\ Is(r, "clear")
    BY <1>4 DEF ClearPrompt
  <2> HIDE DEF q
  <2> DEFINE a1 == [request[r] EXCEPT !.pc = "read"]
  <2>a. a = [a1 EXCEPT !.prefs = q] OBVIOUS
  <2>b. IsRequest(a1) /\ a1.pc = "read" BY <2>1, RequestPc DEF RequestPcs
  <2> HIDE DEF a1, a
  <2>4. IsRequest(a) /\ a.pc = "read" /\ a.prefs = q BY <2>2, <2>a, <2>b, RequestPrefs
  <2> USE DEF a
  <2>5. Becomes(r, a) BY <1>t, <2>3, WritesBecomes
  <2> HIDE DEF a
  <2>6. ~crossed => persona = written BY <2>3 DEF PromptInv, PromptInHand
  <2>7. \A x \in Asks \ {r} : request'[x].pc = request[x].pc /\ request'[x].prefs = request[x].prefs
                             /\ request'[x].then = request[x].then
    BY <2>5 DEF Becomes
  <2>8. request'[r].pc = "read" /\ request'[r].prefs.prompt = 0 BY <2>2, <2>4, <2>5 DEF Becomes
  <2>9. ChoiceTypes'
    <3>1. \A x \in Asks : IsRequest(request'[x]) BY <2>4, <2>5 DEF Becomes
    <3>2. request' = [x \in Asks |-> request'[x]] BY <2>5 DEF Becomes
    <3> QED BY <1>t, <2>2, <2>3, <3>1, <3>2 DEF ChoiceTypes
  <2>10. ~crossed => \A x \in Asks : HoldsPrompt(x)' => request'[x].prefs.prompt \in {0, written}
    BY <2>7, <2>8 DEF HoldsPrompt, HoldsCopy, PromptInv, PromptInHand
  <2>11. ~crossed => \A x \in Asks : Is(x, "upsert")' => request'[x].prefs.prompt = written
    BY <2>7, <2>8 DEF Is, PromptInv, PromptInHand
  <2>12. PromptInHand'
    BY <2>2, <2>3, <2>6, <2>10, <2>11 DEF PromptInv, PromptInHand
  <2> QED BY <2>9, <2>12 DEF PromptInv
<1>5. ASSUME NEW r \in Asks, ReadDb(r) PROVE PromptInv'
  <2> DEFINE p == IF request[r].then = "prefer" THEN document ELSE request[r].prefs
             a == [request[r] EXCEPT !.pc = request[r].then, !.snap = Loaded, !.prefs = p]
  <2>1. IsRequest(request[r]) /\ request[r].then \in RequestPcs \ {"upsert", "clear"}
    BY <1>t DEF ChoiceTypes, IsRequest, Requests, RequestPcs
  <2>2. IsDocument(p) BY <1>d, <2>1 DEF IsRequest
  <2>3. Goes(r, a) BY <1>5 DEF ReadDb
  <2>4. \/ p.prompt = document.prompt
        \/ HoldsPrompt(r) /\ p.prompt = request[r].prefs.prompt
    <3>1. request[r].then \in {"show", "prefer"} BY <1>t DEF ChoiceTypes, IsRequest, Requests
    <3>2. Is(r, "read") BY <1>5 DEF ReadDb
    <3>3. request[r].then # "prefer" => HoldsPrompt(r) BY <3>1, <3>2 DEF HoldsPrompt, HoldsCopy, Is
    <3> QED BY <3>3
  <2> HIDE DEF p
  <2> DEFINE a1 == [request[r] EXCEPT !.pc = request[r].then]
             a2 == [a1 EXCEPT !.snap = Loaded]
  <2>a. a = [a2 EXCEPT !.prefs = p] OBVIOUS
  <2>b. IsRequest(a1) /\ a1.pc = request[r].then BY <2>1, RequestPc
  <2> HIDE DEF a1
  <2>c. IsRequest(a2) /\ a2.pc = request[r].then BY <2>b, RequestSnap
  <2> HIDE DEF a2, a
  <2>5. IsRequest(a) /\ a.pc = request[r].then /\ a.prefs = p
    BY <2>2, <2>a, <2>c, RequestPrefs
  <2> USE DEF a
  <2>6. Becomes(r, a) BY <1>t, <2>3, GoesBecomes
  <2>7. written' = written /\ document' = document /\ persona' = persona /\ crossed' = crossed
    BY <1>5 DEF ReadDb
  <2> HIDE DEF a
  <2> QED BY <1>d, <2>1, <2>4, <2>5, <2>6, <2>7, PromptMoves
<1>u. IsDocument(Unset)
  BY WaitingIsRequest DEF IsRequest, Waiting
<1>6. ASSUME NEW r \in Asks, Show(r) PROVE PromptInv'
  <2> DEFINE q == Resolved(request[r].prefs, request[r].snap)
             answer == AnswerOf(request[r].prefs, request[r].snap)
             a == [request[r] EXCEPT !.pc = "answered", !.prefs = Unset, !.answer = answer]
  <2>1. IsRequest(request[r]) /\ IsDocument(request[r].prefs) BY <1>t DEF ChoiceTypes, IsRequest
  <2>2. IsDocument(q) /\ q.prompt = request[r].prefs.prompt BY <2>1, ResolvedKeepsPrompt
  <2>3. (document' = q /\ Writes(r, a)) \/ (Goes(r, a) /\ document' = document)
    BY <1>6 DEF Show
  <2> HIDE DEF q, answer
  <2> DEFINE a1 == [request[r] EXCEPT !.pc = "answered"]
             a2 == [a1 EXCEPT !.prefs = Unset]
  <2>a. a = [a2 EXCEPT !.answer = answer] OBVIOUS
  <2>b. IsRequest(a1) /\ a1.pc = "answered" BY <2>1, RequestPc DEF RequestPcs
  <2> HIDE DEF a1
  <2>c. IsRequest(a2) /\ a2.pc = "answered" BY <1>u, <2>b, RequestPrefs
  <2> HIDE DEF a2, a
  <2>4. IsRequest(a) /\ a.pc = "answered" BY <2>a, <2>c, RequestAnswer
  <2> USE DEF a
  <2>5. Becomes(r, a) BY <1>t, <2>3, GoesBecomes, WritesBecomes
  <2>6. written' = written /\ persona' = persona /\ crossed' = crossed /\ HoldsPrompt(r)
    BY <1>6 DEF Show, HoldsPrompt, HoldsCopy, Is
  <2> HIDE DEF a
  <2>7. IsDocument(document') BY <1>d, <2>2, <2>3
  <2>8. document'.prompt = document.prompt \/ document'.prompt = request[r].prefs.prompt BY <2>2, <2>3
  <2> QED BY <2>4, <2>5, <2>6, <2>7, <2>8, PromptMoves
<1>7. ASSUME NEW r \in Asks, Prefer(r) PROVE PromptInv'
  <2>1. IsRequest(request[r]) /\ IsDocument(request[r].prefs) BY <1>t DEF ChoiceTypes, IsRequest
  <2>2. written' = written /\ persona' = persona /\ crossed' = crossed /\ HoldsPrompt(r)
    BY <1>7 DEF Prefer, HoldsPrompt, HoldsCopy, Is
  <2>3. CASE Goes(r, [request[r] EXCEPT !.pc = "db"]) /\ document' = document
    <3> DEFINE a == [request[r] EXCEPT !.pc = "db"]
    <3>1. IsRequest(a) /\ a.pc = "db" BY <2>1, RequestPc DEF RequestPcs
    <3>2. Becomes(r, a) BY <1>t, <2>3, GoesBecomes
    <3> HIDE DEF a
    <3> QED BY <1>d, <2>2, <2>3, <3>1, <3>2, PromptMoves
  <2>4. CASE \E p, m, e : /\ document' = Preferring(Resolved(request[r].prefs, request[r].snap), p, m, e)
                         /\ Writes(r, [request[r] EXCEPT !.pc = "load", !.then = "show"])
    <3> DEFINE a == [request[r] EXCEPT !.pc = "load", !.then = "show"]
    <3> DEFINE a1 == [request[r] EXCEPT !.pc = "load"]
    <3>a. a = [a1 EXCEPT !.then = "show"] OBVIOUS
    <3>b. IsRequest(a1) /\ a1.pc = "load" BY <2>1, RequestPc DEF RequestPcs
    <3> HIDE DEF a1, a
    <3>1. IsRequest(a) /\ a.pc = "load" BY <3>a, <3>b, RequestThen
    <3> USE DEF a
    <3>2. Becomes(r, a) BY <1>t, <2>4, WritesBecomes
    <3>3. IsDocument(document') /\ document'.prompt = request[r].prefs.prompt
      BY <2>1, <2>4, ResolvedKeepsPrompt, PreferringKeepsPrompt
    <3> HIDE DEF a
    <3> QED BY <2>2, <3>1, <3>2, <3>3, PromptMoves
  <2> QED BY <1>7, <2>3, <2>4 DEF Prefer
<1>8. ASSUME NEW r \in Asks, ApplyDb(r) PROVE PromptInv'
  <2>1. IsRequest(request[r]) BY <1>t DEF ChoiceTypes
  <2>2. written' = written /\ persona' = persona /\ crossed' = crossed /\ document' = document
    BY <1>8 DEF ApplyDb
  <2>3. CASE Fails(r) BY <1>w1, <2>2, <2>3
  <2>4. CASE Goes(r, Waiting)
    BY <1>d, <1>t, <1>w, <2>2, <2>4, GoesBecomes, PromptMoves
  <2>5. CASE \E snap : Writes(r, [request[r] EXCEPT !.pc = "adopt", !.snap = snap])
    <3>1. PICK snap : Writes(r, [request[r] EXCEPT !.pc = "adopt", !.snap = snap])
      BY <2>5
    <3> DEFINE a == [request[r] EXCEPT !.pc = "adopt", !.snap = snap]
    <3> DEFINE a1 == [request[r] EXCEPT !.pc = "adopt"]
    <3>a. a = [a1 EXCEPT !.snap = snap] OBVIOUS
    <3>b. IsRequest(a1) /\ a1.pc = "adopt" BY <2>1, RequestPc DEF RequestPcs
    <3> HIDE DEF a1, a
    <3>2. IsRequest(a) /\ a.pc = "adopt" BY <3>a, <3>b, RequestSnap
    <3> USE DEF a
    <3>3. Becomes(r, a) BY <1>t, <3>1, WritesBecomes
    <3> HIDE DEF a
    <3> QED BY <1>d, <2>2, <3>2, <3>3, PromptMoves
  <2> QED BY <1>8, <2>3, <2>4, <2>5 DEF ApplyDb
<1>9. ASSUME NEW r \in Asks, Adopt(r) PROVE PromptInv'
  <2> DEFINE act == request[r].snap.active
             q == IF act = NoChoice THEN document
                  ELSE [document EXCEPT !.kind = ProviderKind[act.provider], !.provider = act.provider,
                                        !.model = act.model]
             answer == AnswerOf(q, request[r].snap)
             a == [request[r] EXCEPT !.pc = "answered", !.prefs = Unset, !.answer = answer]
  <2>1. IsRequest(request[r]) BY <1>t DEF ChoiceTypes
  <2> DEFINE q1 == [document EXCEPT !.kind = ProviderKind[act.provider]]
             q2 == [q1 EXCEPT !.provider = act.provider]
             q3 == [q2 EXCEPT !.model = act.model]
  <2>d. q \in {document, q3} OBVIOUS
  <2>e. IsDocument(q1) /\ q1.prompt = document.prompt BY <1>d, DocumentAdopt
  <2> HIDE DEF q1
  <2>f. IsDocument(q2) /\ q2.prompt = document.prompt BY <2>e, DocumentAdopt
  <2> HIDE DEF q2
  <2>g. IsDocument(q3) /\ q3.prompt = document.prompt BY <2>f, DocumentAdopt
  <2> HIDE DEF q3, q
  <2>2. IsDocument(q) /\ q.prompt = document.prompt BY <1>d, <2>d, <2>g
  <2> USE DEF q
  <2>3. document' = q /\ Writes(r, a) /\ written' = written /\ persona' = persona /\ crossed' = crossed
    BY <1>9 DEF Adopt
  <2> HIDE DEF q, answer
  <2> DEFINE a1 == [request[r] EXCEPT !.pc = "answered"]
             a2 == [a1 EXCEPT !.prefs = Unset]
  <2>a. a = [a2 EXCEPT !.answer = answer] OBVIOUS
  <2>b. IsRequest(a1) /\ a1.pc = "answered" BY <2>1, RequestPc DEF RequestPcs
  <2> HIDE DEF a1
  <2>c. IsRequest(a2) /\ a2.pc = "answered" BY <1>u, <2>b, RequestPrefs
  <2> HIDE DEF a2, a
  <2>4. IsRequest(a) /\ a.pc = "answered" BY <2>a, <2>c, RequestAnswer
  <2> USE DEF a
  <2>5. Becomes(r, a) BY <1>t, <2>3, WritesBecomes
  <2> HIDE DEF a
  <2> QED BY <2>2, <2>3, <2>4, <2>5, PromptMoves
<1>t1. ASSUME request' = [x \in Asks |-> [request[x] EXCEPT !.touched = @ \/ request[x].pc # "idle"]],
              IsDocument(document'), document'.prompt = document.prompt, written' = written, persona' = persona /\ crossed' = crossed
       PROVE  PromptInv'
  <2>1. ASSUME NEW x \in Asks
        PROVE  /\ IsRequest(request'[x]) /\ request'[x].pc = request[x].pc
               /\ request'[x].prefs = request[x].prefs /\ request'[x].then = request[x].then
    <3> DEFINE b == [request[x] EXCEPT !.touched = @ \/ request[x].pc # "idle"]
    <3>1. IsRequest(request[x]) BY <1>t DEF ChoiceTypes
    <3>2. IsRequest(b) /\ b.pc = request[x].pc /\ b.prefs = request[x].prefs /\ b.then = request[x].then
      BY <3>1, TouchedKeeps
    <3>3. request'[x] = b BY <1>t1
    <3> HIDE DEF b
    <3> QED BY <3>2, <3>3
  <2>2. request' = [x \in Asks |-> request'[x]] BY <1>t1
  <2>3. ChoiceTypes' BY <1>t, <1>t1, <2>1, <2>2 DEF ChoiceTypes
  <2>4. \A x \in Asks : /\ request'[x].pc = request[x].pc /\ request'[x].prefs = request[x].prefs
                        /\ request'[x].then = request[x].then
    BY <2>1
  <2>5. PromptInHand' BY ZenonT(60), <1>t1, <2>4 DEF PromptInv, PromptInHand, HoldsPrompt, HoldsCopy, Is
  <2> QED BY <2>3, <2>5 DEF PromptInv
<1>10. CASE UpdateWebSearch
  BY <1>10, <1>d, <1>t1, DocumentWeb DEF UpdateWebSearch
<1>11. CASE WritePrompt
  <2> DEFINE d == [document EXCEPT !.prompt = written + 1]
  <2>1. written + 1 \in Nat BY <1>t DEF ChoiceTypes
  <2>2. IsDocument(d) /\ d.prompt = written + 1 BY <1>d, <2>1, DocumentPrompt
  <2>3. /\ document' = d /\ written' = written + 1 /\ request' = request
        /\ ~crossed' => \A r \in Asks : ~HoldsCopy(request[r])
    BY <1>11 DEF WritePrompt
  <2> HIDE DEF d
  <2>4. ChoiceTypes' BY <1>t, <2>1, <2>2, <2>3 DEF ChoiceTypes
  <2>5. ASSUME ~crossed', NEW r \in Asks
        PROVE  ~HoldsPrompt(r)' /\ ~Is(r, "upsert")' /\ ~Is(r, "clear")'
    BY <2>3, <2>5 DEF HoldsPrompt, HoldsCopy, Is
  <2>6. PromptInHand' BY <2>2, <2>3, <2>5 DEF PromptInHand
  <2> QED BY <2>4, <2>6 DEF PromptInv
<1>12. CASE DeleteProviderRow
  BY <1>12, <1>d, <1>t1 DEF DeleteProviderRow
<1>13. CASE UNCHANGED choiceVars
  BY <1>13 DEF choiceVars, PromptInv, ChoiceTypes, PromptInHand, HoldsPrompt, HoldsCopy, Is
<1> QED
  BY <1>1, <1>2, <1>3, <1>4, <1>5, <1>6, <1>7, <1>8, <1>9, <1>10, <1>11, <1>12, <1>13 DEF ChoiceNext, AskStep

\* Whatever providers, models, requests, failed statements and prompts, written at any time: the
\* last prompt the user wrote into the file is there or in PostgreSQL, unless a request held an
\* older copy of the file when it was written.
THEOREM PromptKept == ChoiceSpec => []PromptIsKept
<1>1. ChoiceInit => PromptInv BY PromptInitInv
<1>2. PromptInv /\ [ChoiceNext]_choiceVars => PromptInv' BY PromptStep
<1>3. PromptInv => PromptIsKept BY DEF PromptInv, PromptInHand, ChoiceTypes, PromptIsKept
<1> QED BY <1>1, <1>2, <1>3, PTL DEF ChoiceSpec

(***************************************************************************)
(* The choice of a model.  The invariant: as long as nobody overtook a     *)
(* request, what it chose goes from the document it wrote to the document  *)
(* it reads again and from there into its answer, over the providers that  *)
(* there are.                                                              *)
(***************************************************************************)

\* Somebody's request that nobody overtook.
Alone(a) == ~a.touched /\ a.op.kind # "show"

OffersModel(p, m) == \E o \in ToSet(Offered(p)) : o.name = m
OffersEffort(p, m, e) == \E o \in ToSet(Offered(p)) : o.name = m /\ e \in ToSet(o.efforts)

\* A document asks for what a request chose, and it is offered.
Fits(d, op) ==
  /\ d.provider = op.provider /\ d.kind = ProviderKind[op.provider] /\ OffersModel(op.provider, d.model)
  /\ op.kind # "provider" => d.model = op.model
  /\ op.kind = "effort" => d.effort = op.effort

\* An answer can be used, and is what was asked for.
Usable(answer, there) ==
  answer # NoAnswer =>
    /\ answer.provider \in there
    /\ \E o \in ToSet(Offered(answer.provider)) :
         /\ o.name = answer.model
         /\ answer.effort \in ToSet(o.efforts) \/ (o.efforts = <<>> /\ answer.effort = "none")
Fulfils(answer, op) ==
  /\ answer.provider = op.provider
  /\ op.kind # "provider" => answer.model = op.model
  /\ op.kind = "effort" => answer.effort = op.effort

OpGood(op) == op.kind = "effort" => OffersEffort(op.provider, op.model, op.effort)

\* A request under way over a document and the providers: it has seen providers there are, and
\* as long as it is alone what it wrote is in the document, then in its hand, then its answer.
AskGood(a, d, ps) ==
  /\ a.snap.rows \subseteq DOMAIN ProviderKind /\ OpGood(a.op)
  /\ a.pc \in {"prefer", "db", "adopt"} => a.then = "prefer"
  /\ a.pc = "answered" => Usable(a.answer, a.snap.rows)
  /\ Alone(a) /\ a.pc = "prefer" => a.snap.rows \subseteq ps
  /\ Alone(a) /\ a.then = "show" =>
       /\ a.pc = "load" => Fits(d, a.op) /\ a.op.provider \in ps
       /\ a.pc \in {"upsert", "clear", "read", "show"} => Fits(a.prefs, a.op) /\ a.op.provider \in ps
       /\ a.pc = "show" => a.op.provider \in a.snap.rows
       /\ a.pc = "answered" => Fulfils(a.answer, a.op)

StandInv ==
  /\ PromptInv /\ providers \subseteq DOMAIN ProviderKind
  /\ \A r \in Asks : AskGood(request[r], document, providers)

----------------------------------------------------------------------------

\* The first of some providers is one of them.
LEMMA FirstProvider ==
  ASSUME NEW S \in SUBSET (DOMAIN ProviderKind), S # {}
  PROVE  Min(S) \in S
<1>1. S \in SUBSET Nat /\ S # {}
  BY ChoiceAssumption
<1>2. PICK x \in S : \A y \in S : ~ (<<y, x>> \in OpToRel(<, Nat))
  BY <1>1, NatLessThanWellFounded, WFMin
<1>3. \A y \in S : ~(y < x)
  BY <1>1, <1>2 DEF OpToRel
<1>4. \A y \in S : x <= y
  BY <1>1, <1>3
<1>. QED
  BY <1>4 DEF Min

\* The provider of a candidate exists, and is the preferred one if that has the kind.
LEMMA ProviderKnown ==
  ASSUME NEW ps \in SUBSET (DOMAIN ProviderKind), NEW preferred, NEW kind
  PROVE  /\ ProviderFor(ps, preferred, kind) \in ps \cup {0}
         /\ preferred \in ps /\ ProviderKind[preferred] = kind => ProviderFor(ps, preferred, kind) = preferred
<1>. DEFINE alike == {p \in ps : ProviderKind[p] = kind}
            keyed == {p \in alike : kind = "codex" /\ p \in Keyed}
<1>1. alike # {} => Min(alike) \in alike
  BY FirstProvider
<1>2. keyed # {} => Min(keyed) \in keyed
  BY FirstProvider
<1>. QED
  BY <1>1, <1>2 DEF ProviderFor

\* What a provider offers is a sequence of models, each listed once.
LEMMA OfferedFacts ==
  ASSUME NEW p \in DOMAIN ProviderKind
  PROVE  /\ Offered(p) \in Seq(ToSet(Offered(p)))
         /\ \A o \in ToSet(Offered(p)) : o.efforts \in Seq(ToSet(o.efforts))
         /\ \A o, q \in ToSet(Offered(p)) : o.name = q.name => o = q
         /\ Offered(p) # <<>> => Offered(p)[1] \in ToSet(Offered(p))
<1>1. CASE SourceOf[ProviderKind[p]] = "none"
  <2>1. Offered(p) = <<>> /\ ToSet(<<>>) = {}
    BY <1>1 DEF Offered, ToSet
  <2>. QED
    BY <2>1
<1>2. CASE SourceOf[ProviderKind[p]] # "none"
  <2>1. PICK s : s = Offers[SourceOf[ProviderKind[p]]] /\ s = Offered(p)
    BY <1>2 DEF Offered
  <2>2. /\ s \in Seq(ToSet(s))
        /\ \A o \in ToSet(s) : o.efforts \in Seq(ToSet(o.efforts))
        /\ \A o, q \in ToSet(s) : o.name = q.name => o = q
    BY <1>2, <2>1, ChoiceAssumption
  <2>3. s # <<>> => s[1] \in ToSet(s)
    BY <2>2 DEF ToSet
  <2>. QED
    BY <2>1, <2>2, <2>3
<1>. QED
  BY <1>1, <1>2

\* The efforts of a model that is offered.
LEMMA OptionsFacts ==
  ASSUME NEW p \in DOMAIN ProviderKind, NEW o \in ToSet(Offered(p))
  PROVE  /\ Options(p, o.name) = o.efforts
         /\ FirstEffort(p, o.name) \in ToSet(o.efforts) \/ (o.efforts = <<>> /\ FirstEffort(p, o.name) = "none")
<1>1. Options(p, o.name) = o.efforts
  BY OfferedFacts DEF Options
<1>2. o.efforts \in Seq(ToSet(o.efforts))
  BY OfferedFacts
<1>3. o.efforts # <<>> => o.efforts[1] \in ToSet(o.efforts)
  BY <1>2 DEF ToSet
<1>. QED
  BY <1>1, <1>3 DEF FirstEffort

\* What is chosen is offered by a provider that exists.
LEMMA ChosenIsOffered ==
  ASSUME NEW d, NEW snap, snap.rows \subseteq DOMAIN ProviderKind, Chosen(d, snap) # NoChoice
  PROVE  \E p \in snap.rows : \E m : Chosen(d, snap) = Choice(p, m) /\ OffersModel(p, m)
<1>. DEFINE candidates == Candidates(d, snap)
            found == {i \in DOMAIN candidates : Found(candidates[i], snap.rows)}
            offering == {p \in snap.rows : Offered(p) # <<>>}
<1>1. CASE found # {}
  <2>1. DOMAIN candidates = 1..2
    BY DEF Candidates
  <2>2. PICK i \in found : i = Min(found)
    <3>1. \/ 1 \in found /\ \A y \in found : 1 <= y
          \/ found = {2}
      BY <1>1, <2>1
    <3>2. \E x \in found : \A y \in found : x <= y
      BY <3>1
    <3>. QED
      BY <3>2 DEF Min
  <2>3. PICK c : c = candidates[i] /\ Found(c, snap.rows)
    BY <2>2
  <2>4. PICK p : p = ProviderFor(snap.rows, c.provider, c.kind) /\ p # 0 /\ OffersModel(p, c.model)
    BY <2>3 DEF Found, OffersModel
  <2>5. p \in snap.rows
    BY <2>4, ProviderKnown
  <2>6. Chosen(d, snap) = Choice(p, c.model)
    BY <1>1, <2>2, <2>3, <2>4 DEF Chosen
  <2>. QED
    BY <2>4, <2>5, <2>6
<1>2. CASE found = {} /\ offering # {}
  <2>1. PICK p \in offering : p = Min(offering)
    BY <1>2, FirstProvider
  <2>2. Chosen(d, snap) = Choice(p, Offered(p)[1].name)
    BY <1>2, <2>1 DEF Chosen, FirstOf
  <2>3. OffersModel(p, Offered(p)[1].name)
    BY <2>1, OfferedFacts DEF OffersModel
  <2>. QED
    BY <2>1, <2>2, <2>3
<1>3. CASE found = {} /\ offering = {}
  BY <1>3 DEF Chosen
<1>. QED
  BY <1>1, <1>2, <1>3

\* The fields of a document that takes a choice.
LEMMA PreferringFields ==
  ASSUME NEW d, IsDocument(d), NEW p, NEW m, NEW e
  PROVE  /\ Preferring(d, p, m, e).kind = ProviderKind[p] /\ Preferring(d, p, m, e).provider = p
         /\ Preferring(d, p, m, e).model = m /\ Preferring(d, p, m, e).effort = e
<1>1. PICK K, P, M, E : d \in Documents(K, P, M, E)
  BY DEF IsDocument
<1>. QED
  BY <1>1 DEF Documents, Preferring

\* What is told of a model of a provider: both, and an effort the model has.
TellsOf(t, d, p, o) ==
  /\ t.provider = p /\ t.model = o.name
  /\ t.effort \in ToSet(o.efforts) \/ (o.efforts = <<>> /\ t.effort = "none")
  /\ d.effort \in ToSet(o.efforts) => t.effort = d.effort

LEMMA ToldFields ==
  ASSUME NEW d, IsDocument(d), NEW p \in DOMAIN ProviderKind, NEW o \in ToSet(Offered(p))
  PROVE  TellsOf(Told(d, Choice(p, o.name)), d, p, o)
<1>1. PICK c : c = Choice(p, o.name)
  OBVIOUS
<1>2. c.provider = p /\ c.model = o.name
  BY <1>1 DEF Choice
<1>3. c # NoChoice
  <2>1. p # 0
    BY ChoiceAssumption
  <2>2. NoChoice.provider = 0
    BY DEF NoChoice
  <2>. QED
    BY <1>2, <2>1, <2>2
<1>4. PICK e : e = IF d.effort \in ToSet(o.efforts) THEN d.effort ELSE FirstEffort(p, o.name)
  OBVIOUS
<1>5. With(d, c) = Preferring(d, p, o.name, e)
  BY <1>2, <1>3, <1>4, OptionsFacts DEF With
<1>6. With(d, c).effort = e
  BY <1>5, PreferringFields
<1>7. Told(d, c) = [provider |-> p, model |-> o.name, effort |-> e]
  BY <1>2, <1>3, <1>6 DEF Told
<1>. QED
  BY <1>1, <1>4, <1>7, OptionsFacts DEF TellsOf

\* Every answer can be used.
LEMMA AnswerUsable ==
  ASSUME NEW d, IsDocument(d), NEW snap, snap.rows \subseteq DOMAIN ProviderKind
  PROVE  Usable(AnswerOf(d, snap), snap.rows)
<1>1. CASE Chosen(d, snap) = NoChoice
  BY <1>1 DEF AnswerOf, Told, Usable
<1>2. CASE Chosen(d, snap) # NoChoice
  <2>1. PICK p \in snap.rows : \E m : Chosen(d, snap) = Choice(p, m) /\ OffersModel(p, m)
    BY <1>2, ChosenIsOffered
  <2>2. PICK o \in ToSet(Offered(p)) : Chosen(d, snap) = Choice(p, o.name)
    BY <2>1 DEF OffersModel
  <2>3. PICK t : t = Told(d, Choice(p, o.name)) /\ t = AnswerOf(d, snap)
    BY <2>1, <2>2 DEF AnswerOf
  <2>4. /\ t.provider = p /\ t.model = o.name
        /\ t.effort \in ToSet(o.efforts) \/ (o.efforts = <<>> /\ t.effort = "none")
    <3>1. p \in DOMAIN ProviderKind
      OBVIOUS
    <3>2. TellsOf(t, d, p, o)
      BY <2>3, <3>1, ToldFields
    <3>. QED
      BY <3>2 DEF TellsOf
  <2>. QED
    BY <2>3, <2>4 DEF Usable
<1>. QED
  BY <1>1, <1>2

\* A document that fits is answered with what was asked for.
LEMMA FitsIsAnswered ==
  ASSUME NEW d, IsDocument(d), NEW op, OpGood(op), Fits(d, op),
         NEW snap, snap.rows \subseteq DOMAIN ProviderKind, op.provider \in snap.rows
  PROVE  Fulfils(AnswerOf(d, snap), op)
<1>1. PICK o \in ToSet(Offered(op.provider)) : o.name = d.model
  BY DEF Fits, OffersModel
<1>2. PICK c : /\ c = [kind |-> d.kind, provider |-> d.provider, model |-> d.model]
               /\ c = Candidates(d, snap)[1]
  BY DEF Candidates
<1>3. ProviderFor(snap.rows, c.provider, c.kind) = op.provider
  BY <1>2, ProviderKnown DEF Fits
<1>4. op.provider # 0 /\ op.provider \in DOMAIN ProviderKind
  BY ChoiceAssumption
<1>5. Found(c, snap.rows)
  BY <1>1, <1>2, <1>3, <1>4 DEF Found
<1>6. Chosen(d, snap) = Choice(op.provider, o.name)
  <2>. DEFINE candidates == Candidates(d, snap)
              found == {i \in DOMAIN candidates : Found(candidates[i], snap.rows)}
  <2>1. DOMAIN candidates = 1..2
    BY DEF Candidates
  <2>2. 1 \in found /\ \A y \in found : 1 <= y
    BY <1>2, <1>5, <2>1
  <2>3. \A x \in found : (\A y \in found : x <= y) => x = 1
    BY <2>1, <2>2
  <2>4. Min(found) = 1
    BY <2>2, <2>3 DEF Min
  <2>5. candidates[Min(found)] = c /\ found # {}
    BY <1>2, <2>2, <2>4
  <2>6. Chosen(d, snap) = Choice(ProviderFor(snap.rows, c.provider, c.kind), c.model)
    BY <2>5 DEF Chosen
  <2>. QED
    BY <1>1, <1>2, <1>3, <2>6
<1>7. PICK t : t = Told(d, Choice(op.provider, o.name)) /\ t = AnswerOf(d, snap)
  BY <1>6 DEF AnswerOf
<1>8. /\ t.provider = op.provider /\ t.model = o.name
      /\ d.effort \in ToSet(o.efforts) => t.effort = d.effort
  <2>1. TellsOf(t, d, op.provider, o)
    BY <1>4, <1>7, ToldFields
  <2>. QED
    BY <2>1 DEF TellsOf
<1>9. op.kind = "effort" => d.effort \in ToSet(o.efforts)
  <2>. SUFFICES ASSUME op.kind = "effort" PROVE op.effort \in ToSet(o.efforts)
    BY DEF Fits
  <2>1. PICK q \in ToSet(Offered(op.provider)) : q.name = op.model /\ op.effort \in ToSet(q.efforts)
    BY DEF OpGood, OffersEffort
  <2>2. q = o
    BY <1>1, <1>4, <2>1, OfferedFacts DEF Fits
  <2>. QED
    BY <2>1, <2>2
<1>. QED
  BY <1>1, <1>7, <1>8, <1>9 DEF Fulfils, Fits
----------------------------------------------------------------------------

\* A request is its seven fields.
LEMMA RequestFields ==
  ASSUME NEW a, IsRequest(a)
  PROVE  a = [pc |-> a.pc, then |-> a.then, op |-> a.op, prefs |-> a.prefs, snap |-> a.snap,
              touched |-> a.touched, answer |-> a.answer]
BY DEF IsRequest, Requests

\* Nothing is promised to a request that is not under way,
LEMMA WaitingGood ==
  ASSUME NEW d, NEW ps
  PROVE  AskGood(Waiting, d, ps)
BY DEF AskGood, Waiting, ShowOp, Operation, OpGood, Alone

\* nor to one that another overtook.
LEMMA OvertakenGood ==
  ASSUME NEW a, IsRequest(a), NEW d, NEW ps, AskGood(a, d, ps), NEW d2, NEW ps2
  PROVE  AskGood([a EXCEPT !.touched = @ \/ a.pc # "idle"], d2, ps2)
<1>1. PICK b : b = [a EXCEPT !.touched = (a.touched \/ a.pc # "idle")]
  OBVIOUS
<1>2. /\ b.pc = a.pc /\ b.then = a.then /\ b.op = a.op /\ b.snap = a.snap /\ b.answer = a.answer
      /\ b.touched = (a.touched \/ a.pc # "idle")
  BY <1>1, RequestFields
<1>3. Alone(b) => a.pc = "idle"
  BY <1>2 DEF Alone
<1>4. AskGood(b, d2, ps2)
  BY <1>2, <1>3 DEF AskGood
<1>. QED
  BY <1>1, <1>4

\* A request goes on: the others are as they were.
LEMMA GoesStands ==
  ASSUME StandInv, PromptInv', NEW r \in Asks, NEW a, Goes(r, a), AskGood(a, document, providers),
         UNCHANGED <<document, providers>>
  PROVE  StandInv'
<1>1. request'[r] = a /\ \A x \in Asks : x # r => request'[x] = request[x]
  BY DEF Goes, StandInv, PromptInv, ChoiceTypes
<1>2. \A x \in Asks : AskGood(request'[x], document', providers')
  BY <1>1 DEF StandInv
<1>. QED
  BY <1>2 DEF StandInv, AskGood

\* A request writes the document: the others are overtaken.
LEMMA WritesStands ==
  ASSUME StandInv, PromptInv', NEW r \in Asks, NEW a, Writes(r, a), NEW d, document' = d,
         AskGood(a, d, providers), providers' = providers
  PROVE  StandInv'
<1>1. /\ request'[r] = a
      /\ \A x \in Asks : x # r => request'[x] = [request[x] EXCEPT !.touched = @ \/ request[x].pc # "idle"]
  BY DEF Writes
<1>2. ASSUME NEW x \in Asks PROVE AskGood(request'[x], d, providers)
  <2>1. CASE x = r
    BY <1>1, <2>1
  <2>2. CASE x # r
    <3>1. IsRequest(request[x]) /\ AskGood(request[x], document, providers)
      BY DEF StandInv, PromptInv, ChoiceTypes
    <3>2. AskGood([request[x] EXCEPT !.touched = @ \/ request[x].pc # "idle"], d, providers)
      BY <3>1, OvertakenGood
    <3>. QED
      BY <1>1, <2>2, <3>2
  <2>. QED
    BY <2>1, <2>2
<1>3. \A x \in Asks : AskGood(request'[x], document', providers')
  BY <1>2
<1>. QED
  BY <1>3 DEF StandInv, AskGood

\* All are overtaken.
LEMMA AllOvertaken ==
  ASSUME StandInv, PromptInv', providers' \subseteq providers,
         request' = [x \in Asks |-> [request[x] EXCEPT !.touched = @ \/ request[x].pc # "idle"]]
  PROVE  StandInv'
<1>1. ASSUME NEW x \in Asks PROVE AskGood(request'[x], document', providers')
  <2>1. IsRequest(request[x]) /\ AskGood(request[x], document, providers)
    BY DEF StandInv, PromptInv, ChoiceTypes
  <2>2. AskGood([request[x] EXCEPT !.touched = @ \/ request[x].pc # "idle"], document', providers')
    BY <2>1, OvertakenGood
  <2>. QED
    BY <2>2
<1>. QED
  BY <1>1 DEF StandInv, AskGood

\* A request has what StandInv says of it.
LEMMA AtWork ==
  ASSUME StandInv, NEW r \in Asks
  PROVE  /\ IsRequest(request[r]) /\ AskGood(request[r], document, providers)
         /\ IsDocument(request[r].prefs) /\ IsDocument(document)
         /\ request[r].snap.rows \subseteq DOMAIN ProviderKind
BY DEF StandInv, PromptInv, ChoiceTypes, IsRequest, AskGood

\* A request begins: it has seen nothing, and an effort it asks for is one of its model's.
LEMMA BeginStands == ASSUME StandInv, PromptInv', NEW r \in Asks, Begin(r) PROVE StandInv'
<1>1. PICK op \in Ops : Goes(r, [Waiting EXCEPT !.pc = "load", !.op = op,
                                                !.then = IF op.kind = "show" THEN "show" ELSE "prefer"])
  BY DEF Begin
<1>2. PICK a : a = [Waiting EXCEPT !.pc = "load", !.op = op,
                                   !.then = IF op.kind = "show" THEN "show" ELSE "prefer"]
  OBVIOUS
<1>3. /\ a.pc = "load" /\ a.op = op /\ a.then = IF op.kind = "show" THEN "show" ELSE "prefer"
      /\ a.snap.rows = {} /\ ~a.touched
  BY <1>2 DEF Waiting
<1>4. OpGood(op)
  <2>. SUFFICES ASSUME op.kind = "effort" PROVE OffersEffort(op.provider, op.model, op.effort)
    BY DEF OpGood
  <2>1. PICK p \in DOMAIN ProviderKind :
          /\ Offered(p) # <<>>
          /\ \E e \in ToSet(Offered(p)[1].efforts) : op = Operation("effort", p, Offered(p)[1].name, e)
    <3>1. /\ op # ShowOp
          /\ \A p, m : op # Operation("provider", p, "none", "none") /\ op # Operation("model", p, m, "none")
      BY DEF Operation, ShowOp
    <3>. QED
      BY <3>1 DEF Ops
  <2>2. PICK o \in ToSet(Offered(p)) : o = Offered(p)[1]
    BY <2>1, OfferedFacts
  <2>3. PICK e \in ToSet(o.efforts) : op = Operation("effort", p, o.name, e)
    BY <2>1, <2>2
  <2>4. op.provider = p /\ op.model = o.name /\ op.effort = e
    BY <2>3 DEF Operation
  <2>. QED
    BY <2>4 DEF OffersEffort
<1>5. AskGood(a, document, providers)
  BY <1>3, <1>4 DEF AskGood, Alone
<1>. QED
  BY <1>1, <1>2, <1>5, GoesStands DEF Begin

\* The document comes into the hand of the request.
LEMMA LoadStands == ASSUME StandInv, PromptInv', NEW r \in Asks, LoadPreferences(r) PROVE StandInv'
<1>1. PICK to : to = IF document.prompt = 0 THEN "read" ELSE "upsert"
  OBVIOUS
<1>2. PICK a : a = [request[r] EXCEPT !.prefs = document, !.pc = to]
  OBVIOUS
<1>3. /\ a.pc = to /\ a.then = request[r].then /\ a.op = request[r].op /\ a.snap = request[r].snap
      /\ a.touched = request[r].touched /\ a.prefs = document
  BY <1>2, AtWork, RequestFields
<1>4. request[r].pc = "load" /\ to \in {"read", "upsert"}
  BY <1>1 DEF LoadPreferences, Is
<1>5. AskGood(request[r], document, providers)
  BY AtWork
<1>6. AskGood(a, document, providers)
  BY <1>3, <1>4, <1>5 DEF AskGood, Alone
<1>. QED
  BY <1>1, <1>2, <1>6, GoesStands DEF LoadPreferences

\* PostgreSQL has the prompt, or the request has failed.
LEMMA UpsertStands == ASSUME StandInv, PromptInv', NEW r \in Asks, Upsert(r) PROVE StandInv'
<1>1. CASE Goes(r, Waiting)
  BY <1>1, WaitingGood, GoesStands DEF Upsert
<1>2. CASE Goes(r, [request[r] EXCEPT !.pc = "clear"])
  <2>1. PICK a : a = [request[r] EXCEPT !.pc = "clear"]
    OBVIOUS
  <2>2. /\ a.pc = "clear" /\ a.then = request[r].then /\ a.op = request[r].op /\ a.snap = request[r].snap
        /\ a.touched = request[r].touched /\ a.prefs = request[r].prefs
    BY <2>1, AtWork, RequestFields
  <2>3. AskGood(request[r], document, providers) /\ request[r].pc = "upsert"
    BY AtWork DEF Upsert, Is
  <2>4. AskGood(a, document, providers)
    BY <2>2, <2>3 DEF AskGood, Alone
  <2>. QED
    BY <1>2, <2>1, <2>4, GoesStands DEF Upsert
<1>. QED
  BY <1>1, <1>2 DEF Upsert, Upserted, Fails

\* The prompt leaves the document, what it asks for stays.
LEMMA ClearStands == ASSUME StandInv, PromptInv', NEW r \in Asks, ClearPrompt(r) PROVE StandInv'
<1>1. PICK q : q = [request[r].prefs EXCEPT !.prompt = 0]
  OBVIOUS
<1>2. PICK a : a = [request[r] EXCEPT !.pc = "read", !.prefs = q]
  OBVIOUS
<1>3. /\ a.pc = "read" /\ a.then = request[r].then /\ a.op = request[r].op /\ a.snap = request[r].snap
      /\ a.touched = request[r].touched /\ a.prefs = q
  BY <1>2, AtWork, RequestFields
<1>4. /\ q.kind = request[r].prefs.kind /\ q.provider = request[r].prefs.provider
      /\ q.model = request[r].prefs.model /\ q.effort = request[r].prefs.effort
  <2>1. PICK K, P, M, E : request[r].prefs \in Documents(K, P, M, E)
    BY AtWork DEF IsDocument
  <2>. QED
    BY <1>1, <2>1 DEF Documents
<1>5. AskGood(request[r], document, providers) /\ request[r].pc = "clear"
  BY AtWork DEF ClearPrompt, Is
<1>6. Fits(request[r].prefs, a.op) => Fits(q, a.op)
  BY <1>4 DEF Fits
<1>7. AskGood(a, q, providers)
  BY <1>3, <1>5, <1>6 DEF AskGood, Alone
<1>. QED
  BY <1>1, <1>2, <1>7, WritesStands DEF ClearPrompt

\* The providers of a snapshot are those there are.
LEMMA ReadStands == ASSUME StandInv, PromptInv', NEW r \in Asks, ReadDb(r) PROVE StandInv'
<1>1. PICK q : q = IF request[r].then = "prefer" THEN document ELSE request[r].prefs
  OBVIOUS
<1>2. PICK a : a = [request[r] EXCEPT !.pc = request[r].then, !.snap = Loaded, !.prefs = q]
  OBVIOUS
<1>3. /\ a.pc = request[r].then /\ a.then = request[r].then /\ a.op = request[r].op /\ a.snap = Loaded
      /\ a.touched = request[r].touched /\ a.prefs = q
  BY <1>2, AtWork, RequestFields
<1>4. Loaded.rows = providers /\ providers \subseteq DOMAIN ProviderKind
  BY DEF Loaded, StandInv
<1>5. AskGood(request[r], document, providers) /\ request[r].pc = "read" /\ request[r].then \in {"show", "prefer"}
  BY AtWork DEF ReadDb, Is, IsRequest, Requests
<1>6. AskGood(a, document, providers)
  BY <1>1, <1>3, <1>4, <1>5 DEF AskGood, Alone
<1>7. Goes(r, a)
  BY <1>1, <1>2 DEF ReadDb
<1>. QED
  BY <1>6, <1>7, GoesStands DEF ReadDb

\* The answer is resolved from what the request has in its hand.
LEMMA ShowStands == ASSUME StandInv, PromptInv', NEW r \in Asks, Show(r) PROVE StandInv'
<1>1. PICK told : told = AnswerOf(request[r].prefs, request[r].snap)
  OBVIOUS
<1>2. PICK a : a = [request[r] EXCEPT !.pc = "answered", !.prefs = Unset, !.answer = told]
  OBVIOUS
<1>3. /\ a.pc = "answered" /\ a.then = request[r].then /\ a.op = request[r].op /\ a.snap = request[r].snap
      /\ a.touched = request[r].touched /\ a.answer = told
  BY <1>2, AtWork, RequestFields
<1>4. AskGood(request[r], document, providers) /\ request[r].pc = "show"
  BY AtWork DEF Show, Is
<1>5. Usable(told, a.snap.rows)
  BY <1>1, <1>3, AtWork, AnswerUsable
<1>6. ASSUME Alone(a), a.then = "show" PROVE Fulfils(told, a.op)
  <2>1. /\ Fits(request[r].prefs, a.op) /\ a.op.provider \in request[r].snap.rows /\ OpGood(a.op)
        /\ IsDocument(request[r].prefs) /\ request[r].snap.rows \subseteq DOMAIN ProviderKind
    BY <1>3, <1>4, <1>6, AtWork DEF AskGood, Alone
  <2>. QED
    BY <1>1, <2>1, FitsIsAnswered
<1>7. \A d : AskGood(a, d, providers)
  BY <1>3, <1>4, <1>5, <1>6 DEF AskGood
<1>8. PICK q : q = Resolved(request[r].prefs, request[r].snap)
  OBVIOUS
<1>9. \/ document' = q /\ Writes(r, a)
      \/ Goes(r, a) /\ document' = document
  BY <1>1, <1>2, <1>8 DEF Show
<1>10. providers' = providers
  BY ZenonT(60) DEF Show
<1>. QED
  BY <1>7, <1>9, <1>10, GoesStands, WritesStands

\* The choice is in the document, or left to PostgreSQL.
LEMMA PreferStands == ASSUME StandInv, PromptInv', NEW r \in Asks, Prefer(r) PROVE StandInv'
<1>1. PICK op : op = request[r].op
  OBVIOUS
<1>2. PICK m : m = IF op.kind = "provider" THEN Offered(op.provider)[1].name ELSE op.model
  OBVIOUS
<1>3. PICK e : e = IF op.kind = "effort" THEN op.effort ELSE FirstEffort(op.provider, m)
  OBVIOUS
<1>4. PICK d : d = Resolved(request[r].prefs, request[r].snap) /\ IsDocument(d)
  BY AtWork, ResolvedKeepsPrompt
<1>5. PICK q : q = Preferring(d, op.provider, m, e)
  OBVIOUS
<1>6. AskGood(request[r], document, providers) /\ request[r].pc = "prefer" /\ providers' = providers
  BY AtWork DEF Prefer, Is
<1>7. CASE Goes(r, [request[r] EXCEPT !.pc = "db"]) /\ document' = document
  <2>1. PICK a : a = [request[r] EXCEPT !.pc = "db"]
    OBVIOUS
  <2>2. a.pc = "db" /\ a.then = request[r].then /\ a.op = op /\ a.snap = request[r].snap
    BY <1>1, <2>1, AtWork, RequestFields
  <2>3. AskGood(a, document, providers)
    BY <1>1, <1>6, <2>2 DEF AskGood
  <2>. QED
    BY <1>6, <1>7, <2>1, <2>3, GoesStands
<1>8. CASE /\ op.provider \in request[r].snap.rows /\ Offered(op.provider) # <<>>
           /\ op.kind = "provider" \/ \E o \in ToSet(Offered(op.provider)) : o.name = op.model
           /\ document' = q /\ Writes(r, [request[r] EXCEPT !.pc = "load", !.then = "show"])
  <2>1. PICK a : a = [request[r] EXCEPT !.pc = "load", !.then = "show"]
    OBVIOUS
  <2>2. /\ a.pc = "load" /\ a.then = "show" /\ a.op = op /\ a.snap = request[r].snap
        /\ a.touched = request[r].touched
    BY <1>1, <2>1, AtWork, RequestFields
  <2>3. op.provider \in DOMAIN ProviderKind
    BY <1>8, AtWork
  <2>4. OffersModel(op.provider, m)
    BY <1>2, <1>8, <2>3, OfferedFacts DEF OffersModel
  <2>5. q.provider = op.provider /\ q.kind = ProviderKind[op.provider] /\ q.model = m /\ q.effort = e
    BY <1>4, <1>5, PreferringFields
  <2>6. Fits(q, op)
    BY <1>2, <1>3, <2>4, <2>5 DEF Fits
  <2>7. Alone(a) => op.provider \in providers
    <3>1. Alone(a) => Alone(request[r])
      BY <1>1, <2>2 DEF Alone
    <3>2. Alone(request[r]) => request[r].snap.rows \subseteq providers
      BY <1>6 DEF AskGood
    <3>. QED
      BY <1>8, <3>1, <3>2
  <2>8. AskGood(a, q, providers)
    BY <1>1, <1>6, <2>2, <2>6, <2>7 DEF AskGood
  <2>. QED
    BY <1>6, <1>8, <2>1, <2>8, WritesStands
<1>. QED
  BY <1>1, <1>2, <1>3, <1>4, <1>5, <1>7, <1>8 DEF Prefer

\* PostgreSQL's own edit.
LEMMA ApplyStands == ASSUME StandInv, PromptInv', NEW r \in Asks, ApplyDb(r) PROVE StandInv'
<1>1. AskGood(request[r], document, providers) /\ request[r].pc = "db" /\ UNCHANGED <<document, providers>>
  BY AtWork DEF ApplyDb, Is
<1>2. CASE Goes(r, Waiting)
  BY <1>1, <1>2, WaitingGood, GoesStands
<1>3. CASE Writes(r, [request[r] EXCEPT !.pc = "adopt", !.snap = [Loaded EXCEPT !.active = dbActive']])
  <2>0. [Loaded EXCEPT !.active = dbActive'] = [rows |-> providers, active |-> dbActive']
    BY DEF Loaded
  <2>1. PICK s : s = [Loaded EXCEPT !.active = dbActive'] /\ s.rows = providers
    BY <2>0
  <2>2. PICK a : a = [request[r] EXCEPT !.pc = "adopt", !.snap = s]
    OBVIOUS
  <2>3. a.pc = "adopt" /\ a.then = request[r].then /\ a.op = request[r].op /\ a.snap = s
    BY <2>2, AtWork, RequestFields
  <2>4. providers \subseteq DOMAIN ProviderKind /\ request[r].then = "prefer"
    BY <1>1 DEF StandInv, AskGood
  <2>5. AskGood(a, document, providers)
    BY <1>1, <2>1, <2>3, <2>4 DEF AskGood
  <2>6. Writes(r, a)
    BY <1>3, <2>1, <2>2
  <2>. QED
    BY <1>1, <2>5, <2>6, WritesStands
<1>. QED
  BY <1>2, <1>3 DEF ApplyDb, Fails

\* What is active there is answered.
LEMMA AdoptStands == ASSUME StandInv, PromptInv', NEW r \in Asks, Adopt(r) PROVE StandInv'
<1>1. PICK v : v = request[r].snap.active
  OBVIOUS
<1>2. PICK q : q = IF v = NoChoice THEN document
                   ELSE [document EXCEPT !.kind = ProviderKind[v.provider], !.provider = v.provider,
                                         !.model = v.model]
  OBVIOUS
<1>3. /\ document' = q /\ Writes(r, [request[r] EXCEPT !.pc = "answered", !.prefs = Unset,
                                                      !.answer = AnswerOf(q, request[r].snap)])
      /\ providers' = providers
  BY <1>1, <1>2 DEF Adopt
<1>4. IsDocument(q)
  BY <1>3 DEF PromptInv, ChoiceTypes
<1>5. PICK told : told = AnswerOf(q, request[r].snap)
  OBVIOUS
<1>6. PICK a : a = [request[r] EXCEPT !.pc = "answered", !.prefs = Unset, !.answer = told]
  OBVIOUS
<1>7. /\ a.pc = "answered" /\ a.then = request[r].then /\ a.op = request[r].op /\ a.snap = request[r].snap
      /\ a.answer = told
  BY <1>6, AtWork, RequestFields
<1>8. Usable(told, a.snap.rows)
  BY <1>4, <1>5, <1>7, AtWork, AnswerUsable
<1>9. AskGood(request[r], document, providers) /\ request[r].pc = "adopt"
  BY AtWork DEF Adopt, Is
<1>10. AskGood(a, q, providers)
  BY <1>7, <1>8, <1>9 DEF AskGood
<1>. QED
  BY <1>3, <1>5, <1>6, <1>10, WritesStands

\* Every step keeps the invariant.
LEMMA StandStep == StandInv /\ [ChoiceNext]_choiceVars => StandInv'
<1>. SUFFICES ASSUME StandInv, [ChoiceNext]_choiceVars PROVE StandInv'
  OBVIOUS
<1>1. PromptInv'
  BY PromptStep DEF StandInv
<1>2. CASE UNCHANGED choiceVars
  BY <1>1, <1>2 DEF choiceVars, StandInv, AskGood
<1>3. ASSUME NEW r \in Asks, AskStep(r) PROVE StandInv'
  BY <1>1, <1>3, BeginStands, LoadStands, UpsertStands, ClearStands, ReadStands, ShowStands, PreferStands,
     ApplyStands, AdoptStands DEF AskStep
<1>4. CASE UpdateWebSearch
  BY <1>1, <1>4, AllOvertaken DEF UpdateWebSearch
<1>5. CASE DeleteProviderRow
  <2>1. providers' \subseteq providers
    BY <1>5 DEF DeleteProviderRow
  <2>. QED
    BY <1>1, <1>5, <2>1, AllOvertaken DEF DeleteProviderRow
<1>6. CASE WritePrompt
  <2>1. UNCHANGED <<request, providers>> /\ document' = [document EXCEPT !.prompt = written + 1]
    BY <1>6 DEF WritePrompt
  <2>2. PICK K, P, M, E : document \in Documents(K, P, M, E)
    BY DEF StandInv, PromptInv, ChoiceTypes, IsDocument
  <2>3. /\ document'.provider = document.provider /\ document'.kind = document.kind
        /\ document'.model = document.model /\ document'.effort = document.effort
    BY <2>1, <2>2 DEF Documents
  <2>4. \A op : Fits(document, op) => Fits(document', op)
    BY <2>3 DEF Fits
  <2>5. \A r \in Asks : AskGood(request'[r], document', providers')
    BY <2>1, <2>4 DEF StandInv, AskGood
  <2>. QED
    BY <1>1, <2>1, <2>5 DEF StandInv
<1>. QED
  BY <1>2, <1>3, <1>4, <1>5, <1>6 DEF ChoiceNext

\* Who chooses a provider, a model or an effort is answered with it, unless somebody else
\* wrote meanwhile, and every answer can be used (apply_model_preference, apply_models_dev).
THEOREM ChoicesStand == ChoiceSpec => []ChoiceStands
<1>1. ChoiceInit => StandInv
  <2>. SUFFICES ASSUME ChoiceInit PROVE StandInv
    OBVIOUS
  <2>1. PromptInv
    BY PromptInitInv
  <2>2. \A r \in Asks : AskGood(request[r], document, providers)
    BY WaitingGood DEF ChoiceInit
  <2>. QED
    BY <2>1, <2>2 DEF StandInv, ChoiceInit
<1>2. StandInv /\ [ChoiceNext]_choiceVars => StandInv'
  BY StandStep
<1>3. StandInv => ChoiceStands
  <2>. SUFFICES ASSUME StandInv, NEW r \in Asks, Is(r, "answered")
                PROVE  /\ Usable(request[r].answer, request[r].snap.rows)
                       /\ ~request[r].touched /\ request[r].op.kind # "show" /\ request[r].then = "show" =>
                            Fulfils(request[r].answer, request[r].op)
    BY DEF ChoiceStands, Usable, Fulfils
  <2>. QED
    BY AtWork DEF AskGood, Alone, Is
<1>. QED
  BY <1>1, <1>2, <1>3, PTL DEF ChoiceSpec

(***************************************************************************)
(* The marks of the services.  The invariant: while all is calm one        *)
(* request at most saves; it holds what the two files will be, with every  *)
(* pair together, and when none saves both files are whole and hold it.    *)
(***************************************************************************)


\* One item as the files hold it: its peer is the one the catalogue knows, or none yet.
Fitting(i, item) ==
  /\ item \in [autostart : BOOLEAN, port : {DefaultPort} \cup NewPorts, peer : Builtin \cup {NoId}]
  /\ item.peer \in {NoId, DefaultPeer(i)}

\* What one file holds: services in the one, MCP servers in the other.
Sorted(f, items) ==
  /\ items = [i \in DOMAIN items |-> items[i]]
  /\ \A i \in DOMAIN items : KindOf(i) = f /\ Fitting(i, items[i])

\* A configuration: both files.
WellKept(cfg) ==
  /\ cfg = [f \in Files |-> cfg[f]]
  /\ \A f \in Files : Sorted(f, cfg[f])

\* Both of each pair know each other and have the same mark.
Together(cfg, ids) ==
  \A i \in ids : DefaultPeer(i) \in Ids =>
    /\ Slot(cfg, i).autostart = Slot(cfg, DefaultPeer(i)).autostart
    /\ Slot(cfg, i).peer = DefaultPeer(i)

\* Pairs are whole.
Pairs(ids) ==
  /\ ids \subseteq Ids
  /\ \A i \in ids : DefaultPeer(i) \in Ids => DefaultPeer(i) \in ids

\* The two files.
FilesKept ==
  /\ disk = [f \in Files |-> disk[f]]
  /\ \A f \in Files : /\ disk[f] = [state |-> disk[f].state, items |-> disk[f].items]
                      /\ disk[f].state \in {"absent", "torn", "whole"}
                      /\ Sorted(f, disk[f].items)

\* A request, or none.
Asked(r) ==
  \/ r = NoRequest
  \/ /\ r.pc \in {"plan", "edit", "saveServices", "writeServices", "saveMcp", "writeMcp", "publish", "up", "down", "settle"}
     /\ r = [pc |-> r.pc, op |-> r.op, id |-> r.id, port |-> r.port, full |-> r.full, cfg |-> r.cfg, todo |-> r.todo]
     /\ r.port \in {DefaultPort} \cup NewPorts /\ r.full \in BOOLEAN
     /\ r.pc = "edit" => r.op \in {"bootOn", "bootOff", "meta", "port"} /\ r.id \in Ids
     /\ WellKept(r.cfg)

\* Every request is one.
Requested == ask = [c \in HostClients |-> ask[c]] /\ \A c \in HostClients : Asked(ask[c])

\* Nobody saves.
Quiet == ~\E c \in HostClients : Saving(c)

\* At most one request saves.
OneSaver == \A c, d \in HostClients : Saving(c) /\ Saving(d) => c = d

\* Who saves holds the pairs, and what he has written is there.
SaverKnows ==
  \A c \in HostClients : Saving(c) =>
    /\ Together(ask[c].cfg, paired)
    /\ ask[c].pc = "writeServices" => disk["services"].state = "torn"
    /\ ask[c].pc \in {"saveMcp", "writeMcp"} =>
         disk["services"].state = "whole" /\ disk["services"].items = ask[c].cfg["services"]

\* When nobody saves, the files are both there or both not, and hold the pairs.
Rested ==
  Quiet =>
    /\ NoneSaved => paired = {}
    /\ ~NoneSaved => \A f \in Files : disk[f].state = "whole"
    /\ Together(LoadedConfig, paired)

\* The inductive invariant.
HostInv ==
  /\ FilesKept /\ Requested /\ Pairs(paired)
  /\ calm => OneSaver /\ SaverKnows /\ Rested

\* The catalogue is made of pairs that know each other, and every service has one file.
LEMMA CatalogFacts ==
  /\ \A i : KindOf(i) \in Files
  /\ \A i : DefaultPeer(i) \in Builtin \cup {NoId}
  /\ \A i : DefaultPeer(i) # NoId => DefaultPeer(DefaultPeer(i)) = i
  /\ \A i : DefaultPeer(i) # NoId => i # NoId /\ DefaultPeer(i) # i
  /\ NoId \notin Ids
BY HostAssumption DEF KindOf, Files, DefaultPeer, Builtin, NoId

\* Keeping the peer leaves a mark alone, and a peer that is known.
LEMMA KeepFits ==
  ASSUME NEW i, NEW item, Fitting(i, item), NEW full \in BOOLEAN
  PROVE  /\ Fitting(i, KeepPeer(item, i, full))
         /\ KeepPeer(item, i, full).autostart = item.autostart
         /\ full => KeepPeer(item, i, full).peer = DefaultPeer(i)
         /\ item.peer = DefaultPeer(i) => KeepPeer(item, i, full) = item \/ DefaultPeer(i) = NoId
         /\ item.peer = DefaultPeer(i) => KeepPeer(item, i, full).peer = DefaultPeer(i)
<1>1. DefaultPeer(i) \in Builtin \cup {NoId}
  BY CatalogFacts
<1>2. CatalogPeer(i, full) \in {NoId, DefaultPeer(i)} /\ (full => CatalogPeer(i, full) = DefaultPeer(i))
  BY DEF CatalogPeer
<1>3. CASE item.peer = NoId
  <2>1. KeepPeer(item, i, full) = [item EXCEPT !.peer = CatalogPeer(i, full)]
    BY <1>3 DEF KeepPeer
  <2>. QED
    BY <1>1, <1>2, <1>3, <2>1 DEF Fitting
<1>4. CASE item.peer # NoId
  <2>1. KeepPeer(item, i, full) = item
    BY <1>4 DEF KeepPeer
  <2>. QED
    BY <1>4, <2>1 DEF Fitting
<1>. QED
  BY <1>3, <1>4

\* An item that is not in the file.
LEMMA BlankFits == \A i : Fitting(i, BlankItem)
BY DEF Fitting, BlankItem

\* An item that is read is the one of its file.
LEMMA SlotFits ==
  ASSUME NEW cfg, WellKept(cfg), NEW i
  PROVE  Fitting(i, Slot(cfg, i)) /\ ItemOf(cfg, i) = Slot(cfg, i)
<1>1. KindOf(i) \in Files /\ "services" \in Files /\ "mcp" \in Files /\ \A f \in Files : f = "services" \/ f = "mcp"
  BY CatalogFacts DEF Files
<1>2. \A f \in Files : \A j \in DOMAIN cfg[f] : KindOf(j) = f /\ Fitting(j, cfg[f][j])
  BY DEF WellKept, Sorted
<1>3. Fitting(i, Slot(cfg, i))
  BY <1>1, <1>2, BlankFits DEF Slot
<1>4. \A f \in Files : i \in DOMAIN cfg[f] => KindOf(i) = f
  BY <1>2
<1>5. ItemOf(cfg, i) = Slot(cfg, i)
  <2>1. CASE KindOf(i) = "services"
    <3>1. i \notin DOMAIN cfg["mcp"]
      BY <1>1, <1>4, <2>1
    <3>. QED
      BY <2>1, <3>1 DEF ItemOf, Slot
  <2>2. CASE KindOf(i) = "mcp"
    <3>1. i \notin DOMAIN cfg["services"]
      BY <1>1, <1>4, <2>2
    <3>. QED
      BY <2>2, <3>1 DEF ItemOf, Slot
  <2>. QED
    BY <1>1, <2>1, <2>2
<1>. QED
  BY <1>3, <1>5

\* A file without items.
LEMMA NothingKept == ASSUME NEW f PROVE Sorted(f, Nothing)
BY DEF Sorted, Nothing

\* What is loaded without any file.
LEMMA DefaultKept == WellKept(DefaultConfig)
<1>1. ASSUME NEW f \in Files PROVE Sorted(f, DefaultConfig[f])
  <2>1. CASE f = "services"
    <3>1. DefaultConfig[f] = [i \in Ids \cap {"postgres", "toolbox", "ira-gateway"} |-> [BlankItem EXCEPT !.autostart = TRUE]]
      BY <2>1 DEF DefaultConfig, Marked
    <3>2. \A i \in {"postgres", "toolbox", "ira-gateway"} : KindOf(i) = f
      BY <2>1 DEF KindOf
    <3>3. \A i : Fitting(i, [BlankItem EXCEPT !.autostart = TRUE])
      BY DEF Fitting, BlankItem
    <3>. QED
      BY <3>1, <3>2, <3>3 DEF Sorted
  <2>2. CASE f # "services"
    BY <2>2, NothingKept DEF DefaultConfig
  <2>. QED
    BY <2>1, <2>2
<1>. QED
  BY <1>1 DEF WellKept, DefaultConfig

\* What is taken over from an older configuration.
LEMMA SplitKept == WellKept(SplitLegacy)
<1>1. ASSUME NEW f \in Files PROVE Sorted(f, SplitLegacy[f])
  <2>1. SplitLegacy[f] = [i \in {j \in oldMarks : KindOf(j) = f} |->
                            [BlankItem EXCEPT !.autostart = TRUE, !.peer = DefaultPeer(i)]]
    BY DEF SplitLegacy
  <2>2. \A i : Fitting(i, [BlankItem EXCEPT !.autostart = TRUE, !.peer = DefaultPeer(i)])
    BY CatalogFacts DEF Fitting, BlankItem
  <2>. QED
    BY <2>1, <2>2 DEF Sorted
<1>. QED
  BY <1>1 DEF WellKept, SplitLegacy

\* What a request loads is well kept.
LEMMA LoadedKept ==
  ASSUME FilesKept
  PROVE  WellKept(LoadedConfig)
<1>1. ASSUME ~NoneSaved PROVE WellKept(LoadedConfig)
  <2>1. LoadedConfig = [f \in Files |-> ReadJson(disk[f])]
    BY <1>1 DEF LoadedConfig
  <2>2. \A f \in Files : Sorted(f, ReadJson(disk[f]))
    BY NothingKept DEF FilesKept, ReadJson
  <2>. QED
    BY <2>1, <2>2 DEF WellKept
<1>. QED
  BY <1>1, DefaultKept, SplitKept DEF LoadedConfig

\* The services of a unit get the mark and keep their peers, the others stay.
Booted(cfg, unit, on, full, new) ==
  /\ WellKept(new)
  /\ \A i \in unit : Slot(new, i) = KeepPeer([Slot(cfg, i) EXCEPT !.autostart = on], i, full)
  /\ \A i : i \notin unit => Slot(new, i) = Slot(cfg, i)

\* set_boot.
LEMMA BootKept ==
  ASSUME NEW cfg, WellKept(cfg), NEW unit, NEW on \in BOOLEAN, NEW full \in BOOLEAN
  PROVE  Booted(cfg, unit, on, full, SetBootOf(cfg, unit, on, full))
<1>1. PICK new : new = SetBootOf(cfg, unit, on, full)
  OBVIOUS
<1>2. /\ new = [f \in Files |-> new[f]]
      /\ \A f \in Files : new[f] = [i \in DOMAIN cfg[f] \cup {j \in unit : KindOf(j) = f} |->
            IF i \in unit THEN KeepPeer([Slot(cfg, i) EXCEPT !.autostart = on], i, full) ELSE cfg[f][i]]
  BY <1>1 DEF SetBootOf, Files
<1>3. ASSUME NEW i PROVE Fitting(i, KeepPeer([Slot(cfg, i) EXCEPT !.autostart = on], i, full))
  <2>1. PICK item : item = Slot(cfg, i) /\ Fitting(i, item)
    BY SlotFits
  <2>2. Fitting(i, [item EXCEPT !.autostart = on])
    BY <2>1 DEF Fitting
  <2>. QED
    BY <2>1, <2>2, KeepFits
<1>4. \A f \in Files : \A i \in DOMAIN cfg[f] : KindOf(i) = f /\ Fitting(i, cfg[f][i])
  BY DEF WellKept, Sorted
<1>5. ASSUME NEW f \in Files PROVE Sorted(f, new[f])
  <2>1. DOMAIN new[f] = DOMAIN cfg[f] \cup {j \in unit : KindOf(j) = f}
    BY <1>2
  <2>2. new[f] = [i \in DOMAIN new[f] |-> new[f][i]]
    BY <1>2
  <2>3. ASSUME NEW i \in DOMAIN new[f] PROVE KindOf(i) = f /\ Fitting(i, new[f][i])
    <3>1. new[f][i] = IF i \in unit THEN KeepPeer([Slot(cfg, i) EXCEPT !.autostart = on], i, full) ELSE cfg[f][i]
      BY <1>2, <2>1
    <3>. QED
      BY <1>3, <1>4, <2>1, <3>1
  <2>. QED
    BY <2>2, <2>3 DEF Sorted
<1>6. WellKept(new)
  BY <1>2, <1>5 DEF WellKept
<1>7. ASSUME NEW i \in unit PROVE Slot(new, i) = KeepPeer([Slot(cfg, i) EXCEPT !.autostart = on], i, full)
  <2>1. KindOf(i) \in Files
    BY CatalogFacts
  <2>2. i \in DOMAIN new[KindOf(i)] /\ new[KindOf(i)][i] = KeepPeer([Slot(cfg, i) EXCEPT !.autostart = on], i, full)
    BY <1>2, <2>1
  <2>. QED
    BY <2>2 DEF Slot
<1>8. ASSUME NEW i, i \notin unit PROVE Slot(new, i) = Slot(cfg, i)
  <2>1. PICK kind \in Files : kind = KindOf(i)
    BY CatalogFacts
  <2>2. new[kind] = [j \in DOMAIN cfg[kind] \cup {l \in unit : KindOf(l) = kind} |->
            IF j \in unit THEN KeepPeer([Slot(cfg, j) EXCEPT !.autostart = on], j, full) ELSE cfg[kind][j]]
    BY <1>2
  <2>3. i \in DOMAIN new[kind] <=> i \in DOMAIN cfg[kind]
    BY <1>8, <2>2
  <2>4. i \in DOMAIN cfg[kind] => new[kind][i] = cfg[kind][i]
    BY <1>8, <2>2
  <2>. QED
    BY <2>1, <2>3, <2>4 DEF Slot
<1>. QED
  BY <1>1, <1>6, <1>7, <1>8 DEF Booted

\* slot_mut: one item is replaced.
LEMMA WithKept ==
  ASSUME NEW cfg, WellKept(cfg), NEW id, NEW item, Fitting(id, item)
  PROVE  /\ WellKept(WithItem(cfg, id, item))
         /\ Slot(WithItem(cfg, id, item), id) = item
         /\ \A i : i # id => Slot(WithItem(cfg, id, item), i) = Slot(cfg, i)
<1>1. PICK new : new = WithItem(cfg, id, item)
  OBVIOUS
<1>2. PICK kind \in Files : kind = KindOf(id)
  BY CatalogFacts
<1>3. /\ new = [f \in Files |-> new[f]]
      /\ \A f \in Files : f # kind => new[f] = cfg[f]
      /\ new[kind] = [i \in DOMAIN cfg[kind] \cup {id} |-> IF i = id THEN item ELSE cfg[kind][i]]
  BY <1>1, <1>2 DEF WithItem, WellKept
<1>4. \A f \in Files : \A i \in DOMAIN cfg[f] : KindOf(i) = f /\ Fitting(i, cfg[f][i])
  BY DEF WellKept, Sorted
<1>5. Sorted(kind, new[kind])
  <2>1. DOMAIN new[kind] = DOMAIN cfg[kind] \cup {id} /\ new[kind] = [i \in DOMAIN new[kind] |-> new[kind][i]]
    BY <1>3
  <2>2. ASSUME NEW i \in DOMAIN new[kind] PROVE KindOf(i) = kind /\ Fitting(i, new[kind][i])
    <3>1. new[kind][i] = IF i = id THEN item ELSE cfg[kind][i]
      BY <1>3, <2>1
    <3>. QED
      BY <1>2, <1>4, <2>1, <3>1
  <2>. QED
    BY <2>1, <2>2 DEF Sorted
<1>6. WellKept(new)
  <2>1. \A f \in Files : f # kind => Sorted(f, new[f])
    BY <1>3 DEF WellKept
  <2>. QED
    BY <1>3, <1>5, <2>1 DEF WellKept
<1>7. Slot(new, id) = item
  BY <1>2, <1>3 DEF Slot
<1>8. ASSUME NEW i, i # id PROVE Slot(new, i) = Slot(cfg, i)
  <2>1. KindOf(i) \in Files
    BY CatalogFacts
  <2>2. /\ i \in DOMAIN new[KindOf(i)] <=> i \in DOMAIN cfg[KindOf(i)]
        /\ i \in DOMAIN cfg[KindOf(i)] => new[KindOf(i)][i] = cfg[KindOf(i)][i]
    <3>1. CASE KindOf(i) = kind
      BY <1>3, <1>8, <3>1
    <3>2. CASE KindOf(i) # kind
      BY <1>3, <2>1, <3>2
    <3>. QED
      BY <3>1, <3>2
  <2>. QED
    BY <2>2 DEF Slot
<1>. QED
  BY <1>1, <1>6, <1>7, <1>8


\* A unit of a service of the catalogue: itself, and the peer it has.
LEMMA UnitOf ==
  ASSUME NEW cfg, WellKept(cfg), NEW i \in Ids, NEW full \in BOOLEAN
  PROVE  /\ i \in Unit(cfg, i, full)
         /\ \A j \in Unit(cfg, i, full) : j \in Ids /\ (j # i => j = DefaultPeer(i))
         /\ full \/ Slot(cfg, i).peer = DefaultPeer(i) =>
              (DefaultPeer(i) \in Ids => DefaultPeer(i) \in Unit(cfg, i, full))
<1>1. PICK item : item = Slot(cfg, i) /\ Fitting(i, item) /\ ItemOf(cfg, i) = item
  BY SlotFits
<1>2. item.peer \in {NoId, DefaultPeer(i)}
  BY <1>1 DEF Fitting
<1>3. PeerOf(cfg, i, full) = IF item.peer # NoId THEN item.peer ELSE CatalogPeer(i, full)
  BY <1>1 DEF PeerOf
<1>4. PeerOf(cfg, i, full) \in {NoId, DefaultPeer(i)}
  BY <1>2, <1>3 DEF CatalogPeer
<1>5. full \/ item.peer = DefaultPeer(i) => PeerOf(cfg, i, full) = DefaultPeer(i)
  <2>1. CASE item.peer = NoId
    BY <1>3, <2>1 DEF CatalogPeer
  <2>2. CASE item.peer # NoId
    BY <1>2, <1>3, <2>2
  <2>. QED
    BY <2>1, <2>2
<1>6. Unit(cfg, i, full) = {i} \cup ({PeerOf(cfg, i, full)} \cap Ids)
  BY DEF Unit
<1>. QED
  BY <1>1, <1>4, <1>5, <1>6, CatalogFacts

\* A unit of a complete catalogue adds whole pairs.
LEMMA MorePairs ==
  ASSUME NEW cfg, WellKept(cfg), NEW ids, Pairs(ids), NEW id \in Ids, NEW full \in BOOLEAN,
         NEW unit, unit = Unit(cfg, id, full),
         NEW more, more = IF full THEN ids \cup {u \in unit : DefaultPeer(u) # NoId} ELSE ids
  PROVE  Pairs(more)
<1>1. CASE ~full
  BY <1>1
<1>2. CASE full
  <2>1. /\ id \in unit
        /\ \A j \in unit : j \in Ids /\ (j # id => j = DefaultPeer(id))
        /\ DefaultPeer(id) \in Ids => DefaultPeer(id) \in unit
    BY <1>2, UnitOf
  <2>2. more \subseteq Ids
    BY <1>2, <2>1 DEF Pairs
  <2>3. ASSUME NEW i \in unit, DefaultPeer(i) \in Ids PROVE DefaultPeer(i) \in more
    <3>1. DefaultPeer(i) \in unit
      BY <2>1, <2>3, CatalogFacts
    <3>2. DefaultPeer(DefaultPeer(i)) = i /\ i # NoId
      BY <2>3, CatalogFacts
    <3>. QED
      BY <1>2, <3>1, <3>2
  <2>4. ASSUME NEW i \in ids, DefaultPeer(i) \in Ids PROVE DefaultPeer(i) \in more
    BY <1>2, <2>4 DEF Pairs
  <2>. QED
    BY <1>2, <2>2, <2>3, <2>4 DEF Pairs
<1>. QED
  BY <1>1, <1>2

\* Marking a unit keeps the pairs that were marked as pairs, and adds its own when the
\* catalogue is complete.
LEMMA BootTogether ==
  ASSUME NEW cfg, WellKept(cfg), NEW ids, Pairs(ids), Together(cfg, ids),
         NEW id \in Ids, NEW on \in BOOLEAN, NEW full \in BOOLEAN,
         NEW unit, unit = Unit(cfg, id, full),
         NEW new, new = SetBootOf(cfg, unit, on, full),
         NEW more, more = IF full THEN ids \cup {u \in unit : DefaultPeer(u) # NoId} ELSE ids
  PROVE  WellKept(new) /\ Pairs(more) /\ Together(new, more)
<1>1. /\ WellKept(new)
      /\ \A i \in unit : Slot(new, i) = KeepPeer([Slot(cfg, i) EXCEPT !.autostart = on], i, full)
      /\ \A i : i \notin unit => Slot(new, i) = Slot(cfg, i)
  <2>1. Booted(cfg, unit, on, full, SetBootOf(cfg, unit, on, full))
    BY BootKept
  <2>. QED
    BY <2>1 DEF Booted
<1>2. /\ id \in unit
      /\ \A j \in unit : j \in Ids /\ (j # id => j = DefaultPeer(id))
      /\ full \/ Slot(cfg, id).peer = DefaultPeer(id) =>
           (DefaultPeer(id) \in Ids => DefaultPeer(id) \in unit)
  BY UnitOf
<1>3. ASSUME NEW i \in unit
      PROVE  /\ Slot(new, i).autostart = on
             /\ full \/ Slot(cfg, i).peer = DefaultPeer(i) => Slot(new, i).peer = DefaultPeer(i)
  <2>1. PICK item : item = Slot(cfg, i) /\ Fitting(i, item)
    BY SlotFits
  <2>2. PICK marked : marked = [item EXCEPT !.autostart = on] /\ Fitting(i, marked) /\ marked.autostart = on /\ marked.peer = item.peer
    <3>1. /\ Fitting(i, [item EXCEPT !.autostart = on])
          /\ [item EXCEPT !.autostart = on].autostart = on
          /\ [item EXCEPT !.autostart = on].peer = item.peer
      BY <2>1 DEF Fitting
    <3>. QED
      BY <3>1
  <2>3. Slot(new, i) = KeepPeer(marked, i, full)
    BY <1>1, <2>1, <2>2
  <2>4. /\ KeepPeer(marked, i, full).autostart = on
        /\ full => KeepPeer(marked, i, full).peer = DefaultPeer(i)
        /\ marked.peer = DefaultPeer(i) => KeepPeer(marked, i, full).peer = DefaultPeer(i)
    <3>1. Fitting(i, marked) /\ marked.autostart = on
      BY <2>2
    <3>. QED
      BY ONLY <3>1, full \in BOOLEAN, KeepFits
  <2>. QED
    BY <2>1, <2>2, <2>3, <2>4
<1>4. \A i \in ids : DefaultPeer(i) \in Ids =>
        /\ DefaultPeer(i) \in ids
        /\ Slot(cfg, i).autostart = Slot(cfg, DefaultPeer(i)).autostart
        /\ Slot(cfg, i).peer = DefaultPeer(i)
  BY DEF Pairs, Together
<1>5. \A i \in more : i \in ids \/ (i \in unit /\ full)
  OBVIOUS
<1>6. \A i \in unit : i \in more /\ DefaultPeer(i) \in Ids => DefaultPeer(i) \in unit
  <2>. SUFFICES ASSUME NEW i \in unit, i \in more, DefaultPeer(i) \in Ids PROVE DefaultPeer(i) \in unit
    OBVIOUS
  <2>1. CASE i = id
    BY <1>2, <1>4, <1>5, <2>1
  <2>2. CASE i # id
    <3>1. i = DefaultPeer(id) /\ i \in Ids
      BY <1>2, <2>2
    <3>2. DefaultPeer(i) = id
      BY <3>1, CatalogFacts
    <3>. QED
      BY <1>2, <3>2
  <2>. QED
    BY <2>1, <2>2
<1>7. \A i \in more : i \notin unit /\ DefaultPeer(i) \in Ids => DefaultPeer(i) \notin unit
  <2>. SUFFICES ASSUME NEW i \in more, i \notin unit, DefaultPeer(i) \in Ids, DefaultPeer(i) \in unit PROVE FALSE
    OBVIOUS
  <2>1. i \in ids /\ i \in Ids /\ DefaultPeer(i) \in ids
    BY <1>4, <1>5 DEF Pairs
  <2>2. DefaultPeer(i) # NoId /\ DefaultPeer(DefaultPeer(i)) = i
    BY CatalogFacts
  <2>3. CASE DefaultPeer(i) = id
    <3>1. Slot(cfg, id).peer = DefaultPeer(id)
      BY <1>4, <2>1, <2>2, <2>3
    <3>. QED
      BY <1>2, <2>1, <2>2, <2>3, <3>1
  <2>4. CASE DefaultPeer(i) # id
    <3>1. DefaultPeer(i) = DefaultPeer(id)
      BY <1>2, <2>4
    <3>2. i = id
      BY <2>2, <3>1, CatalogFacts
    <3>. QED
      BY <1>2, <3>2
  <2>. QED
    BY <2>3, <2>4
<1>8. Pairs(more)
  BY MorePairs
<1>9. Together(new, more)
  <2>1. ASSUME NEW i \in more, DefaultPeer(i) \in Ids
        PROVE  /\ Slot(new, i).autostart = Slot(new, DefaultPeer(i)).autostart
               /\ Slot(new, i).peer = DefaultPeer(i)
    <3>1. CASE i \in unit
      BY <1>3, <1>4, <1>5, <1>6, <2>1, <3>1
    <3>2. CASE i \notin unit
      BY <1>1, <1>4, <1>5, <1>7, <2>1, <3>2
    <3>. QED
      BY <3>1, <3>2
  <2>. QED
    BY <2>1 DEF Together
<1>. QED
  BY <1>1, <1>8, <1>9

\* A request that sets a port or a text leaves marks and peers of the pairs alone.
LEMMA ItemTogether ==
  ASSUME NEW cfg, WellKept(cfg), NEW ids, Together(cfg, ids), NEW id, NEW item, Fitting(id, item),
         item.autostart = Slot(cfg, id).autostart,
         Slot(cfg, id).peer = DefaultPeer(id) => item.peer = DefaultPeer(id),
         NEW new, new = WithItem(cfg, id, item)
  PROVE  WellKept(new) /\ Together(new, ids)
<1>1. WellKept(new) /\ Slot(new, id) = item /\ \A i : i # id => Slot(new, i) = Slot(cfg, i)
  BY WithKept
<1>2. \A i : Slot(new, i).autostart = Slot(cfg, i).autostart
  BY <1>1
<1>3. \A i : Slot(cfg, i).peer = DefaultPeer(i) => Slot(new, i).peer = DefaultPeer(i)
  BY <1>1
<1>. QED
  BY <1>1, <1>2, <1>3 DEF Together

\* Where a request saves.
Busy == {"saveServices", "writeServices", "saveMcp", "writeMcp"}

\* One request moves.
LEMMA AskedStep ==
  ASSUME Requested, NEW c \in HostClients, NEW r, Asked(r), ask' = [ask EXCEPT ![c] = r]
  PROVE  /\ Requested'
         /\ ask'[c] = r
         /\ \A d \in HostClients : d # c => ask'[d] = ask[d]
<1>1. ask = [d \in HostClients |-> ask[d]] /\ \A d \in HostClients : Asked(ask[d])
  BY DEF Requested
<1>2. ask' = [d \in HostClients |-> IF d = c THEN r ELSE ask[d]]
  BY <1>1
<1>3. ask' = [d \in HostClients |-> ask'[d]] /\ \A d \in HostClients : ask'[d] = r \/ ask'[d] = ask[d]
  BY <1>2
<1>4. ASSUME NEW d \in HostClients PROVE Asked(ask'[d])
  BY <1>1, <1>3
<1>5. Requested'
  BY <1>3, <1>4 DEF Requested, Asked
<1>. QED
  BY <1>2, <1>5

\* A load that takes over an older configuration writes both files as it read them.
LEMMA MigrateKeeps ==
  ASSUME FilesKept, Migrate \/ disk' = disk
  PROVE  /\ FilesKept'
         /\ disk' # disk => NoneSaved /\ ~NoneSaved' /\ \A f \in Files : disk'[f].state = "whole"
<1>1. CASE disk' = disk
  BY <1>1 DEF FilesKept
<1>2. CASE disk' # disk
  <2>1. NoneSaved /\ disk' = [f \in Files |-> [state |-> "whole", items |-> SplitLegacy[f]]]
    BY <1>2 DEF Migrate
  <2>2. \A f \in Files : Sorted(f, SplitLegacy[f])
    BY SplitKept DEF WellKept
  <2>3. PICK now : now = disk'
    OBVIOUS
  <2>4. /\ now = [f \in Files |-> now[f]]
        /\ \A f \in Files : /\ now[f] = [state |-> "whole", items |-> SplitLegacy[f]]
                            /\ now[f].state = "whole" /\ now[f].items = SplitLegacy[f]
    BY <2>1, <2>3
  <2>5. FilesKept'
    BY <2>2, <2>3, <2>4 DEF FilesKept, Sorted
  <2>6. "services" \in Files
    BY DEF Files
  <2>7. ~NoneSaved'
    BY <2>3, <2>4, <2>6 DEF NoneSaved
  <2>. QED
    BY <2>1, <2>3, <2>4, <2>5, <2>7
<1>. QED
  BY <1>1, <1>2

\* A step that edits nothing and saves nothing.
LEMMA FrameKeeps ==
  ASSUME HostInv, Requested', Migrate \/ disk' = disk, UNCHANGED <<paired, oldMarks>>,
         calm' => calm,
         \A c \in HostClients : ask'[c].pc \in Busy => ask'[c] = ask[c],
         calm' => \A c \in HostClients : ask[c].pc \in Busy => ask'[c] = ask[c]
  PROVE  HostInv'
<1>1. FilesKept' /\ (disk' # disk => NoneSaved /\ ~NoneSaved' /\ \A f \in Files : disk'[f].state = "whole")
  BY MigrateKeeps DEF HostInv
<1>2. Pairs(paired)'
  BY DEF HostInv, Pairs
<1>3. ASSUME calm' PROVE OneSaver' /\ SaverKnows' /\ Rested'
  <2>1. OneSaver /\ SaverKnows /\ Rested
    BY <1>3 DEF HostInv
  <2>2. \A c \in HostClients : /\ Saving(c)' => Saving(c) /\ ask'[c] = ask[c]
                               /\ Saving(c) => Saving(c)'
    BY <1>3 DEF Saving, Busy
  <2>3. OneSaver'
    BY <2>1, <2>2 DEF OneSaver
  <2>4. SaverKnows'
    <3>. SUFFICES ASSUME NEW c \in HostClients, Saving(c)'
                  PROVE  /\ Together(ask[c].cfg, paired)
                         /\ ask[c].pc = "writeServices" => disk'["services"].state = "torn"
                         /\ ask[c].pc \in {"saveMcp", "writeMcp"} =>
                              disk'["services"].state = "whole" /\ disk'["services"].items = ask[c].cfg["services"]
      BY <2>2 DEF SaverKnows, Together
    <3>1. /\ Together(ask[c].cfg, paired)
          /\ ask[c].pc = "writeServices" => disk["services"].state = "torn"
          /\ ask[c].pc \in {"saveMcp", "writeMcp"} =>
               disk["services"].state = "whole" /\ disk["services"].items = ask[c].cfg["services"]
      BY <2>1, <2>2 DEF SaverKnows
    <3>2. disk' # disk => disk["services"].state = "absent"
      BY <1>1 DEF NoneSaved, Files
    <3>. QED
      BY <3>1, <3>2
  <2>5. Rested'
    <3>. SUFFICES ASSUME Quiet'
                  PROVE  /\ NoneSaved' => paired = {}
                         /\ ~NoneSaved' => \A f \in Files : disk'[f].state = "whole"
                         /\ Together(LoadedConfig, paired)'
      BY DEF Rested
    <3>1. Quiet
      BY <2>2 DEF Quiet
    <3>2. /\ NoneSaved => paired = {}
          /\ ~NoneSaved => \A f \in Files : disk[f].state = "whole"
          /\ Together(LoadedConfig, paired)
      BY <2>1, <3>1 DEF Rested
    <3>3. CASE disk' = disk
      <4>1. LoadedConfig' = LoadedConfig /\ (NoneSaved' <=> NoneSaved)
        BY <3>3 DEF LoadedConfig, NoneSaved, ReadJson, SplitLegacy
      <4>. QED
        BY <3>2, <3>3, <4>1 DEF Together
    <3>4. CASE disk' # disk
      <4>1. paired = {} /\ paired' = {}
        BY <1>1, <3>2, <3>4
      <4>. QED
        BY <1>1, <3>4, <4>1 DEF Together
    <3>. QED
      BY <3>3, <3>4
  <2>. QED
    BY <2>3, <2>4, <2>5
<1>. QED
  BY <1>1, <1>2, <1>3 DEF HostInv

\* The same of a step of one request.
LEMMA OneKeeps ==
  ASSUME HostInv, NEW c \in HostClients, NEW r, Asked(r), r.pc \notin Busy, ask[c].pc \notin Busy,
         ask' = [ask EXCEPT ![c] = r], Migrate \/ disk' = disk, UNCHANGED <<paired, oldMarks>>, calm' = calm
  PROVE  HostInv'
<1>1. /\ Requested' /\ ask'[c] = r
      /\ \A d \in HostClients : d # c => ask'[d] = ask[d]
  BY AskedStep DEF HostInv
<1>2. \A d \in HostClients : ask'[d].pc \in Busy => ask'[d] = ask[d]
  BY <1>1
<1>3. \A d \in HostClients : ask[d].pc \in Busy => ask'[d] = ask[d]
  BY <1>1
<1>. QED
  BY <1>1, <1>2, <1>3, FrameKeeps

\* A client that asks for nothing.
LEMMA IdleAsked == Asked(NoRequest) /\ NoRequest.pc = "idle" /\ NoRequest.pc \notin Busy
BY DEF Asked, NoRequest, Busy


\* A request that is under way, in its parts.
LEMMA AskedParts ==
  ASSUME HostInv, NEW c \in HostClients, ask[c].pc # "idle"
  PROVE  /\ Asked(ask[c])
         /\ ask[c].port \in {DefaultPort} \cup NewPorts /\ ask[c].full \in BOOLEAN
         /\ ask[c].pc = "edit" => ask[c].op \in {"bootOn", "bootOff", "meta", "port"} /\ ask[c].id \in Ids
         /\ WellKept(ask[c].cfg)
         /\ ask = [d \in HostClients |-> ask[d]]
<1>1. Asked(ask[c]) /\ ask = [d \in HostClients |-> ask[d]]
  BY DEF HostInv, Requested
<1>2. ask[c] # NoRequest
  BY DEF NoRequest
<1>. QED
  BY <1>1, <1>2 DEF Asked

\* Its place, its unit and its configuration are what a step changes.
LEMMA AskedMoves ==
  ASSUME HostInv, NEW c \in HostClients, ask[c].pc # "idle",
         NEW place \in {"plan", "saveServices", "writeServices", "saveMcp", "writeMcp", "publish", "up", "down", "settle"}
  PROVE  /\ Asked([ask[c] EXCEPT !.pc = place])
         /\ \A unit : Asked([ask[c] EXCEPT !.pc = place, !.todo = unit])
         /\ \A cfg : WellKept(cfg) => Asked([ask[c] EXCEPT !.pc = place, !.cfg = cfg])
<1>1. PICK r : r = ask[c]
  OBVIOUS
<1>2. /\ r = [pc |-> r.pc, op |-> r.op, id |-> r.id, port |-> r.port, full |-> r.full, cfg |-> r.cfg, todo |-> r.todo]
      /\ r.port \in {DefaultPort} \cup NewPorts /\ r.full \in BOOLEAN /\ WellKept(r.cfg)
  <2>1. Asked(r) /\ r # NoRequest
    BY <1>1 DEF HostInv, Requested, NoRequest
  <2>. QED
    BY <2>1 DEF Asked
<1>3. PICK s : s = [pc |-> place, op |-> r.op, id |-> r.id, port |-> r.port, full |-> r.full, cfg |-> r.cfg, todo |-> r.todo]
  OBVIOUS
<1>4. [r EXCEPT !.pc = place] = s /\ Asked(s)
  <2>1. [r EXCEPT !.pc = place] = s
    BY <1>2, <1>3
  <2>2. Asked(s)
    BY <1>2, <1>3 DEF Asked
  <2>. QED
    BY <2>1, <2>2
<1>5. ASSUME NEW unit PROVE Asked([r EXCEPT !.pc = place, !.todo = unit])
  <2>1. PICK t : t = [pc |-> place, op |-> r.op, id |-> r.id, port |-> r.port, full |-> r.full, cfg |-> r.cfg, todo |-> unit]
    OBVIOUS
  <2>2. [r EXCEPT !.pc = place, !.todo = unit] = t
    <3>1. [s EXCEPT !.todo = unit] = t
      BY <1>3, <2>1
    <3>2. [r EXCEPT !.pc = place, !.todo = unit] = [[r EXCEPT !.pc = place] EXCEPT !.todo = unit]
      OBVIOUS
    <3>. QED
      BY <1>4, <3>1, <3>2
  <2>3. Asked(t)
    BY <1>2, <2>1 DEF Asked
  <2>. QED
    BY <2>2, <2>3
<1>6. ASSUME NEW cfg, WellKept(cfg) PROVE Asked([r EXCEPT !.pc = place, !.cfg = cfg])
  <2>1. PICK t : t = [pc |-> place, op |-> r.op, id |-> r.id, port |-> r.port, full |-> r.full, cfg |-> cfg, todo |-> r.todo]
    OBVIOUS
  <2>2. [r EXCEPT !.pc = place, !.cfg = cfg] = t
    <3>1. [s EXCEPT !.cfg = cfg] = t
      BY <1>3, <2>1
    <3>2. [r EXCEPT !.pc = place, !.cfg = cfg] = [[r EXCEPT !.pc = place] EXCEPT !.cfg = cfg]
      OBVIOUS
    <3>. QED
      BY <1>4, <3>1, <3>2
  <2>3. Asked(t)
    BY <1>2, <1>6, <2>1 DEF Asked
  <2>. QED
    BY <2>2, <2>3
<1>. QED
  BY <1>1, <1>4, <1>5, <1>6

\* A request begins.
LEMMA RequestKeeps ==
  ASSUME HostInv, NEW c \in HostClients, Request(c)
  PROVE  HostInv'
<1>0. PICK r \in Operations :
        ask' = [ask EXCEPT ![c] =
                 [pc |-> IF r.op \in {"start", "stop", "startMarked"} THEN "plan" ELSE "edit",
                  op |-> r.op, id |-> r.id, port |-> r.port, full |-> ~pool \/ Discovered \/ ~known,
                  cfg |-> DefaultConfig, todo |-> {}]]
  BY DEF Request
<1>1. PICK q :
        /\ q = [pc |-> IF r.op \in {"start", "stop", "startMarked"} THEN "plan" ELSE "edit",
                op |-> r.op, id |-> r.id, port |-> r.port, full |-> ~pool \/ Discovered \/ ~known,
                cfg |-> DefaultConfig, todo |-> {}]
        /\ ask' = [ask EXCEPT ![c] = q]
  BY <1>0
<1>2. WellKept(DefaultConfig)
  BY DefaultKept
<1>3. /\ r.op \in {"start", "stop", "bootOn", "bootOff", "meta", "port", "startMarked"}
      /\ r.port \in {DefaultPort} \cup NewPorts
      /\ r.op \in {"bootOn", "bootOff", "meta", "port"} => r.id \in Ids
  BY DEF Operations
<1>4. Asked(q) /\ q.pc \notin Busy
  <2>1. q = [pc |-> q.pc, op |-> q.op, id |-> q.id, port |-> q.port, full |-> q.full, cfg |-> q.cfg, todo |-> q.todo]
    BY <1>1
  <2>2. q.pc \in {"plan", "edit"} /\ (q.pc = "edit" => q.op \in {"bootOn", "bootOff", "meta", "port"} /\ q.id \in Ids)
    BY <1>1, <1>3
  <2>3. q.port \in {DefaultPort} \cup NewPorts /\ WellKept(q.cfg)
    BY <1>1, <1>2, <1>3
  <2>4. q.full \in BOOLEAN
    <3>1. (~pool \/ Discovered \/ ~known) \in BOOLEAN
      OBVIOUS
    <3>. QED
      BY <1>1, <3>1
  <2>. QED
    BY <2>1, <2>2, <2>3, <2>4 DEF Asked, Busy
<1>5. ask[c].pc \notin Busy /\ UNCHANGED <<disk, paired, oldMarks>> /\ calm' = calm
  BY DEF Request, Here, Busy
<1>. QED
  BY <1>1, <1>4, <1>5, OneKeeps

\* The steps of a request that save nothing.
LEMMA WorkKeeps ==
  ASSUME HostInv, NEW c \in HostClients,
         PublishEnv(c) \/ Plan(c) \/ ComposeUp(c) \/ ComposeStop(c) \/ ComposeFails(c) \/ Settle(c)
  PROVE  HostInv'
<1>1. ask[c].pc \in {"publish", "plan", "up", "down", "settle"} /\ ask[c].pc # "idle" /\ ask[c].pc \notin Busy
  BY DEF PublishEnv, Plan, ComposeUp, ComposeStop, ComposeFails, Settle, Here, Busy
<1>2. (Migrate \/ disk' = disk) /\ UNCHANGED <<paired, oldMarks>> /\ calm' = calm
  BY DEF PublishEnv, Plan, ComposeUp, ComposeStop, ComposeFails, Settle
<1>3. ask = [d \in HostClients |-> ask[d]]
  BY DEF HostInv, Requested
<1>4. ASSUME NEW to \in {"up", "down", "settle"}, NEW unit, Work(c, to, unit) PROVE HostInv'
  <2>1. PICK r : r = [ask[c] EXCEPT !.pc = to, !.todo = unit] /\ Asked(r)
    BY <1>1, AskedMoves, ZenonT(60)
  <2>2. ask' = [ask EXCEPT ![c] = r]
    BY <1>4, <2>1 DEF Work
  <2>3. r.pc = to
    <3>1. ask[c] = [pc |-> ask[c].pc, op |-> ask[c].op, id |-> ask[c].id, port |-> ask[c].port,
                    full |-> ask[c].full, cfg |-> ask[c].cfg, todo |-> ask[c].todo]
      BY <1>1 DEF HostInv, Requested, Asked, NoRequest
    <3>. QED
      BY <2>1, <3>1
  <2>. QED
    BY <1>1, <1>2, <2>1, <2>2, <2>3, OneKeeps, ZenonT(60) DEF Busy
<1>5. CASE PublishEnv(c)
  <2>1. Work(c, "up", {ask[c].id})
    BY <1>5 DEF PublishEnv
  <2>. QED
    BY <1>4, <2>1
<1>6. CASE Plan(c) \/ ComposeUp(c)
  <2>1. \E to \in {"up", "down", "settle"} : \E unit : Work(c, to, unit)
    <3>1. CASE Plan(c)
      BY <3>1, Zenon DEF Plan
    <3>2. CASE ComposeUp(c)
      BY <3>2, Zenon DEF ComposeUp
    <3>. QED
      BY <1>6, <3>1, <3>2
  <2>. QED
    BY <1>4, <2>1
<1>7. CASE ComposeStop(c) \/ ComposeFails(c) \/ Settle(c)
  <2>1. ask' = [ask EXCEPT ![c] = NoRequest]
    BY <1>7 DEF ComposeStop, ComposeFails, Settle, Finish
  <2>. QED
    BY <1>1, <1>2, <2>1, IdleAsked, OneKeeps
<1>. QED
  BY <1>5, <1>6, <1>7

\* A save that fails, a crash, and the age of the catalogue.
LEMMA BreakKeeps ==
  ASSUME HostInv, (\E c \in HostClients : SaveFails(c)) \/ CatalogAges \/ HostCrash \/ Daemon
  PROVE  HostInv'
<1>1. CASE \E c \in HostClients : SaveFails(c)
  <2>1. PICK c \in HostClients : SaveFails(c)
    BY <1>1
  <2>2. ask' = [ask EXCEPT ![c] = NoRequest] /\ ~calm' /\ UNCHANGED <<disk, paired, oldMarks>>
    BY <2>1 DEF SaveFails, Finish
  <2>3. Requested' /\ ask'[c] = NoRequest /\ \A d \in HostClients : d # c => ask'[d] = ask[d]
    BY <2>2, IdleAsked, AskedStep DEF HostInv
  <2>4. \A d \in HostClients : ask'[d].pc \in Busy => ask'[d] = ask[d]
    BY <2>3, IdleAsked
  <2>. QED
    BY <2>2, <2>3, <2>4, FrameKeeps
<1>2. CASE CatalogAges \/ Daemon
  <2>1. UNCHANGED <<disk, paired, oldMarks, ask, calm>>
    BY <1>2 DEF CatalogAges, Daemon
  <2>2. Requested'
    BY <2>1 DEF HostInv, Requested, Asked
  <2>. QED
    BY <2>1, <2>2, FrameKeeps
<1>3. CASE HostCrash
  <2>1. /\ ask' = [c \in HostClients |-> NoRequest] /\ UNCHANGED <<disk, paired, oldMarks>>
        /\ calm' = (calm /\ ~\E c \in HostClients : Saving(c))
    BY <1>3 DEF HostCrash
  <2>2. \A c \in HostClients : ask'[c] = NoRequest /\ ask'[c].pc \notin Busy
    BY <2>1, IdleAsked
  <2>3. Requested'
    <3>1. ask' = [c \in HostClients |-> ask'[c]]
      BY <2>1
    <3>. QED
      BY <2>2, <3>1, IdleAsked DEF Requested, Asked
  <2>4. calm' => calm
    BY <2>1
  <2>5. ASSUME calm', NEW c \in HostClients PROVE ask[c].pc \notin Busy
    BY <2>1, <2>5 DEF Saving, Busy
  <2>. QED
    BY <2>1, <2>2, <2>3, <2>4, <2>5, FrameKeeps
<1>. QED
  BY <1>1, <1>2, <1>3


\* What an edit makes of a configuration that holds the pairs.
LEMMA ItemsGood ==
  ASSUME NEW cfg, WellKept(cfg), NEW ids, Pairs(ids), NEW id \in Ids, NEW full \in BOOLEAN,
         NEW port \in {DefaultPort} \cup NewPorts
  PROVE  /\ WellKept(SetMetaOf(cfg, id, full)) /\ WellKept(SetPortOf(cfg, id, port))
         /\ Together(cfg, ids) => Together(SetMetaOf(cfg, id, full), ids) /\ Together(SetPortOf(cfg, id, port), ids)
<1>1. PICK item : item = Slot(cfg, id) /\ Fitting(id, item)
  BY SlotFits
<1>2. PICK kept : /\ kept = KeepPeer(item, id, full) /\ Fitting(id, kept) /\ kept.autostart = item.autostart
                  /\ item.peer = DefaultPeer(id) => kept.peer = DefaultPeer(id)
  BY <1>1, KeepFits
<1>3. PICK moved : moved = [item EXCEPT !.port = port] /\ Fitting(id, moved) /\ moved.autostart = item.autostart
                   /\ moved.peer = item.peer
  <2>1. /\ Fitting(id, [item EXCEPT !.port = port])
        /\ [item EXCEPT !.port = port].autostart = item.autostart
        /\ [item EXCEPT !.port = port].peer = item.peer
    BY <1>1 DEF Fitting
  <2>. QED
    BY <2>1
<1>4. PICK new : new = WithItem(cfg, id, kept)
  OBVIOUS
<1>5. WellKept(new) /\ (Together(cfg, ids) => Together(new, ids))
  <2>1. WellKept(new)
    BY <1>2, <1>4, WithKept
  <2>2. ASSUME Together(cfg, ids) PROVE Together(new, ids)
    BY <1>1, <1>2, <1>4, <2>2, ItemTogether
  <2>. QED
    BY <2>1, <2>2
<1>6. PICK then : then = WithItem(cfg, id, moved)
  OBVIOUS
<1>7. WellKept(then) /\ (Together(cfg, ids) => Together(then, ids))
  <2>1. WellKept(then)
    BY <1>3, <1>6, WithKept
  <2>2. ASSUME Together(cfg, ids) PROVE Together(then, ids)
    BY <1>1, <1>3, <1>6, <2>2, ItemTogether
  <2>. QED
    BY <2>1, <2>2
<1>8. SetMetaOf(cfg, id, full) = new /\ SetPortOf(cfg, id, port) = then
  BY <1>1, <1>2, <1>3, <1>4, <1>6 DEF SetMetaOf, SetPortOf
<1>. QED
  BY <1>5, <1>7, <1>8

\* A request has changed what it loaded and is about to save it.
LEMMA EditKeeps ==
  ASSUME HostInv, NEW c \in HostClients, Edit(c)
  PROVE  HostInv'
<1>1. PICK loaded : loaded = LoadedConfig /\ WellKept(loaded)
  BY LoadedKept DEF HostInv
<1>2. PICK r : r = ask[c] /\ r.pc = "edit" /\ r.id \in Ids /\ r.full \in BOOLEAN
               /\ r.port \in {DefaultPort} \cup NewPorts /\ r.op \in {"bootOn", "bootOff", "meta", "port"}
  BY AskedParts DEF Edit, Here
<1>3. PICK unit : unit = Unit(loaded, r.id, r.full)
  OBVIOUS
<1>4. PICK more : more = IF r.full THEN paired \cup {u \in unit : DefaultPeer(u) # NoId} ELSE paired
  OBVIOUS
<1>5. PICK cfg :
        /\ cfg = CASE r.op = "bootOn" -> SetBootOf(loaded, unit, TRUE, r.full)
                   [] r.op = "bootOff" -> SetBootOf(loaded, unit, FALSE, r.full)
                   [] r.op = "meta" -> SetMetaOf(loaded, r.id, r.full)
                   [] r.op = "port" -> SetPortOf(loaded, r.id, r.port)
        /\ ask' = [ask EXCEPT ![c].pc = "saveServices", ![c].cfg = cfg]
        /\ paired' = IF r.op \in {"bootOn", "bootOff"} /\ r.full
                       THEN paired \cup {u \in unit : DefaultPeer(u) # NoId} ELSE paired
  BY <1>1, <1>2, <1>3 DEF Edit
<1>6. PICK edited : edited = [ask[c] EXCEPT !.pc = "saveServices", !.cfg = cfg]
  OBVIOUS
<1>7. /\ WellKept(cfg) /\ Pairs(paired')
      /\ Together(loaded, paired) => Together(cfg, paired')
  <2>0. Pairs(paired)
    BY DEF HostInv
  <2>1. CASE r.op = "meta" \/ r.op = "port"
    <3>1. paired' = paired /\ (cfg = SetMetaOf(loaded, r.id, r.full) \/ cfg = SetPortOf(loaded, r.id, r.port))
      BY <1>5, <2>1
    <3>. QED
      BY <1>1, <1>2, <2>0, <3>1, ItemsGood
  <2>2. CASE r.op = "bootOn" \/ r.op = "bootOff"
    <3>1. PICK on \in BOOLEAN : cfg = SetBootOf(loaded, unit, on, r.full)
      BY <1>5, <2>2
    <3>2. paired' = more
      BY <1>4, <1>5, <2>2
    <3>3. Booted(loaded, unit, on, r.full, cfg)
      BY <1>1, <1>2, <3>1, BootKept
    <3>4. WellKept(cfg)
      BY <3>3 DEF Booted
    <3>5. Pairs(more)
      BY <1>1, <1>2, <1>3, <1>4, <2>0, MorePairs
    <3>6. ASSUME Together(loaded, paired) PROVE Together(cfg, more)
      BY <1>1, <1>2, <1>3, <1>4, <2>0, <3>1, <3>6, BootTogether
    <3>. QED
      BY <3>2, <3>4, <3>5, <3>6
  <2>. QED
    BY <1>2, <2>1, <2>2
<1>8. /\ Asked(edited) /\ edited.pc = "saveServices" /\ edited.cfg = cfg
      /\ ask' = [ask EXCEPT ![c] = edited]
  <2>1. ask[c] = [pc |-> ask[c].pc, op |-> ask[c].op, id |-> ask[c].id, port |-> ask[c].port,
                  full |-> ask[c].full, cfg |-> ask[c].cfg, todo |-> ask[c].todo]
        /\ ask = [d \in HostClients |-> ask[d]]
    BY <1>2 DEF HostInv, Requested, Asked, NoRequest
  <2>2. edited.pc = "saveServices" /\ edited.cfg = cfg
    BY <1>6, <2>1
  <2>3. Asked(edited)
    <3>1. Asked([ask[c] EXCEPT !.pc = "saveServices", !.cfg = cfg])
      BY <1>2, <1>7, AskedMoves, ZenonT(60)
    <3>. QED
      BY <1>6, <3>1, SMTT(40)
  <2>4. ask' = [ask EXCEPT ![c] = edited]
    <3>1. ask' = [ask EXCEPT ![c].pc = "saveServices", ![c].cfg = cfg]
      BY <1>5
    <3>2. PICK e : e = [ask[c] EXCEPT !.pc = "saveServices", !.cfg = cfg] /\ e = edited
      BY <1>6
    <3>. QED
      BY ONLY <3>1, <3>2
  <2>. QED
    BY <2>2, <2>3, <2>4
<1>9. Requested' /\ ask'[c] = edited /\ \A d \in HostClients : d # c => ask'[d] = ask[d]
  BY <1>8, AskedStep DEF HostInv
<1>10. FilesKept'
  BY MigrateKeeps DEF Edit, HostInv
<1>11. ASSUME calm' PROVE OneSaver' /\ SaverKnows' /\ Rested'
  <2>1. calm /\ Quiet
    BY <1>11 DEF Edit, Quiet
  <2>2. Together(loaded, paired)
    BY <1>1, <2>1 DEF HostInv, Rested
  <2>3. \A d \in HostClients : Saving(d)' <=> d = c
    BY <1>8, <1>9, <2>1 DEF Quiet, Saving
  <2>4. Together(ask'[c].cfg, paired')
    BY <1>7, <1>8, <1>9, <2>2
  <2>5. OneSaver' /\ Rested'
    BY <2>3 DEF OneSaver, Rested, Quiet
  <2>6. SaverKnows'
    <3>. SUFFICES ASSUME NEW d \in HostClients, d = c
                  PROVE  /\ Together(ask[d].cfg, paired)'
                         /\ ask'[d].pc = "saveServices"
      BY <2>3 DEF SaverKnows
    <3>. QED
      BY <1>8, <1>9, <2>4 DEF Together
  <2>. QED
    BY <2>5, <2>6
<1>12. Pairs(paired)'
  BY <1>7 DEF Pairs
<1>. QED
  BY <1>9, <1>10, <1>11, <1>12 DEF HostInv


\* A save in progress is the only one, as long as all is calm; the files are what the saver
\* says.
LEMMA SaveKeeps ==
  ASSUME HostInv, NEW c \in HostClients, Saving(c), NEW f \in Files, NEW entry, NEW to,
         entry = [state |-> entry.state, items |-> entry.items],
         entry.state \in {"absent", "torn", "whole"}, Sorted(f, entry.items),
         disk' = [disk EXCEPT ![f] = entry],
         to \in {"writeServices", "saveMcp", "writeMcp"},
         to = "writeServices" => f = "services" /\ entry.state = "torn",
         to = "saveMcp" => f = "services" /\ entry.state = "whole" /\ entry.items = ask[c].cfg["services"],
         to = "writeMcp" => f = "mcp" /\ ask[c].pc = "saveMcp",
         Goto(c, to), UNCHANGED <<paired, oldMarks, calm>>
  PROVE  HostInv'
<1>1. ask[c].pc # "idle" /\ f \in Files /\ Files = {"services", "mcp"}
  BY DEF Saving, Files
<1>2. PICK r : r = [ask[c] EXCEPT !.pc = to] /\ Asked(r)
  BY <1>1, AskedMoves, ZenonT(60)
<1>3. ask[c] = [pc |-> ask[c].pc, op |-> ask[c].op, id |-> ask[c].id, port |-> ask[c].port,
                full |-> ask[c].full, cfg |-> ask[c].cfg, todo |-> ask[c].todo]
  BY <1>1 DEF HostInv, Requested, Asked, NoRequest
<1>4. r.pc = to /\ r.cfg = ask[c].cfg
  BY <1>2, <1>3
<1>5. ask' = [ask EXCEPT ![c] = r]
  BY <1>2 DEF Goto
<1>6. Requested' /\ ask'[c] = r /\ \A d \in HostClients : d # c => ask'[d] = ask[d]
  BY <1>2, <1>5, AskedStep DEF HostInv
<1>7. PICK now : now = disk'
  OBVIOUS
<1>8. /\ now = [g \in Files |-> now[g]] /\ now[f] = entry
      /\ \A g \in Files : g # f => now[g] = disk[g]
  BY <1>7 DEF HostInv, FilesKept
<1>9. FilesKept'
  <2>1. ASSUME NEW g \in Files
        PROVE  /\ now[g] = [state |-> now[g].state, items |-> now[g].items]
               /\ now[g].state \in {"absent", "torn", "whole"} /\ Sorted(g, now[g].items)
    BY <1>8 DEF HostInv, FilesKept
  <2>2. disk' = [g \in Files |-> disk'[g]]
    BY <1>7, <1>8
  <2>3. \A g \in Files : /\ disk'[g] = [state |-> disk'[g].state, items |-> disk'[g].items]
                         /\ disk'[g].state \in {"absent", "torn", "whole"} /\ Sorted(g, disk'[g].items)
    BY <1>7, <2>1
  <2>. QED
    BY <2>2, <2>3 DEF FilesKept, Sorted
<1>10. ASSUME calm' PROVE OneSaver' /\ SaverKnows' /\ Rested'
  <2>1. OneSaver /\ SaverKnows /\ calm
    BY <1>10 DEF HostInv
  <2>2. \A d \in HostClients : Saving(d)' <=> d = c
    BY <1>4, <1>6, <2>1 DEF OneSaver, Saving
  <2>3. OneSaver' /\ Rested'
    BY <2>2 DEF OneSaver, Rested, Quiet
  <2>4. /\ Together(ask[c].cfg, paired)
        /\ ask[c].pc \in {"saveMcp", "writeMcp"} =>
             disk["services"].state = "whole" /\ disk["services"].items = ask[c].cfg["services"]
    BY <2>1 DEF SaverKnows
  <2>5. /\ to = "writeServices" => now["services"].state = "torn"
        /\ to \in {"saveMcp", "writeMcp"} =>
             now["services"].state = "whole" /\ now["services"].items = r.cfg["services"]
    BY <1>1, <1>4, <1>8, <2>4
  <2>6. SaverKnows'
    <3>. SUFFICES ASSUME NEW d \in HostClients, d = c
                  PROVE  /\ Together(ask[d].cfg, paired)'
                         /\ ask'[d].pc = "writeServices" => now["services"].state = "torn"
                         /\ ask'[d].pc \in {"saveMcp", "writeMcp"} =>
                              now["services"].state = "whole" /\ now["services"].items = ask'[d].cfg["services"]
      BY <1>7, <2>2 DEF SaverKnows
    <3>1. Together(ask'[d].cfg, paired')
      BY <1>4, <1>6, <2>4
    <3>2. Together(ask[d].cfg, paired)'
      BY <3>1 DEF Together
    <3>. QED
      BY <1>4, <1>6, <2>5, <3>2
  <2>. QED
    BY <2>3, <2>6
<1>11. Pairs(paired)'
  BY DEF HostInv, Pairs
<1>. QED
  BY <1>6, <1>9, <1>10, <1>11 DEF HostInv

\* The second file is whole, and the request goes on or is done: what is loaded next is what
\* was saved.
LEMMA SavedKeeps ==
  ASSUME HostInv, NEW c \in HostClients, ask[c].pc = "writeMcp", NEW r, Asked(r), r.pc \notin Busy,
         ask' = [ask EXCEPT ![c] = r],
         disk' = [disk EXCEPT !["mcp"] = [state |-> "whole", items |-> ask[c].cfg["mcp"]]],
         UNCHANGED <<paired, oldMarks, calm>>
  PROVE  HostInv'
<1>1. /\ Requested' /\ ask'[c] = r /\ \A d \in HostClients : d # c => ask'[d] = ask[d]
      /\ Files = {"services", "mcp"}
  BY AskedStep DEF HostInv, Files
<1>2. PICK cfg : cfg = ask[c].cfg /\ WellKept(cfg)
  BY AskedParts
<1>3. PICK now : now = disk'
  OBVIOUS
<1>4. /\ now = [g \in Files |-> now[g]] /\ now["mcp"] = [state |-> "whole", items |-> cfg["mcp"]]
      /\ now["services"] = disk["services"]
  BY <1>1, <1>2, <1>3 DEF HostInv, FilesKept
<1>5. FilesKept'
  <2>1. /\ now["services"] = [state |-> now["services"].state, items |-> now["services"].items]
        /\ now["services"].state \in {"absent", "torn", "whole"} /\ Sorted("services", now["services"].items)
    BY <1>1, <1>4 DEF HostInv, FilesKept
  <2>2. /\ now["mcp"].state = "whole" /\ now["mcp"].items = cfg["mcp"]
        /\ now["mcp"] = [state |-> now["mcp"].state, items |-> now["mcp"].items]
    BY <1>4
  <2>3. Sorted("mcp", cfg["mcp"])
    BY <1>1, <1>2 DEF WellKept
  <2>4. disk' = [g \in Files |-> disk'[g]]
    BY <1>3, <1>4
  <2>5. \A g \in Files : /\ now[g] = [state |-> now[g].state, items |-> now[g].items]
                         /\ now[g].state \in {"absent", "torn", "whole"} /\ Sorted(g, now[g].items)
    BY <1>1, <2>1, <2>2, <2>3
  <2>6. \A g \in Files : /\ disk'[g] = [state |-> disk'[g].state, items |-> disk'[g].items]
                         /\ disk'[g].state \in {"absent", "torn", "whole"} /\ Sorted(g, disk'[g].items)
    BY <1>3, <2>5
  <2>. QED
    BY <2>4, <2>6 DEF FilesKept, Sorted
<1>6. ASSUME calm' PROVE OneSaver' /\ SaverKnows' /\ Rested'
  <2>1. OneSaver /\ SaverKnows /\ Saving(c)
    BY <1>6 DEF HostInv, Saving
  <2>2. /\ Together(cfg, paired)
        /\ disk["services"].state = "whole" /\ disk["services"].items = cfg["services"]
    BY <1>2, <2>1 DEF SaverKnows
  <2>3. \A d \in HostClients : ~Saving(d)'
    <3>. SUFFICES ASSUME NEW d \in HostClients PROVE ask'[d].pc \notin Busy
      BY DEF Saving, Busy
    <3>1. CASE d = c
      BY <1>1, <3>1
    <3>2. CASE d # c
      BY <1>1, <2>1, <3>2 DEF OneSaver, Saving, Busy
    <3>. QED
      BY <3>1, <3>2
  <2>4. OneSaver' /\ SaverKnows'
    BY <2>3 DEF OneSaver, SaverKnows
  <2>5. \A g \in Files : now[g].state = "whole" /\ ReadJson(now[g]) = cfg[g]
    BY <1>1, <1>4, <2>2 DEF ReadJson
  <2>6. ~NoneSaved'
    BY <1>1, <1>3, <2>5 DEF NoneSaved
  <2>7. LoadedConfig' = cfg
    <3>1. LoadedConfig' = [g \in Files |-> ReadJson(now[g])]
      BY <1>3, <2>6 DEF LoadedConfig, ReadJson
    <3>2. cfg = [g \in Files |-> cfg[g]]
      BY <1>2 DEF WellKept
    <3>. QED
      BY <2>5, <3>1, <3>2
  <2>8. Together(LoadedConfig, paired)'
    <3>1. Together(LoadedConfig', paired')
      BY <2>2, <2>7
    <3>. QED
      BY <3>1 DEF Together
  <2>9. Rested'
    BY <1>3, <2>5, <2>6, <2>8 DEF Rested
  <2>. QED
    BY <2>4, <2>9
<1>7. Pairs(paired)'
  BY DEF HostInv, Pairs
<1>. QED
  BY <1>1, <1>5, <1>6, <1>7 DEF HostInv

\* A file is truncated.
LEMMA TruncateKeeps ==
  ASSUME HostInv, NEW c \in HostClients, NEW f \in Files, Truncate(c, f)
  PROVE  HostInv'
<1>1. PICK entry : entry = [state |-> "torn", items |-> Nothing]
  OBVIOUS
<1>2. /\ entry = [state |-> entry.state, items |-> entry.items] /\ entry.state = "torn"
      /\ Sorted(f, entry.items) /\ disk' = [disk EXCEPT ![f] = entry]
  BY <1>1, NothingKept DEF Truncate
<1>3. /\ f = "services" => ask[c].pc = "saveServices" /\ Goto(c, "writeServices")
      /\ f = "mcp" => ask[c].pc = "saveMcp" /\ Goto(c, "writeMcp")
      /\ UNCHANGED <<paired, oldMarks, calm>>
  BY DEF Truncate, Here, SaveAt, WriteAt
<1>4. CASE f = "services"
  BY <1>2, <1>3, <1>4, SaveKeeps DEF Saving
<1>5. CASE f = "mcp"
  BY <1>2, <1>3, <1>5, SaveKeeps DEF Saving
<1>. QED
  BY <1>4, <1>5 DEF Files

\* A file is written.
LEMMA WriteKeeps ==
  ASSUME HostInv, NEW c \in HostClients, NEW f \in Files, Write(c, f)
  PROVE  HostInv'
<1>1. PICK entry : entry = [state |-> "whole", items |-> ask[c].cfg[f]]
  OBVIOUS
<1>2. ask[c].pc = WriteAt(f) /\ ask[c].pc \in {"writeServices", "writeMcp"}
  BY DEF Write, Here, WriteAt
<1>3. WellKept(ask[c].cfg) /\ ask = [d \in HostClients |-> ask[d]]
  BY <1>2, AskedParts
<1>4. /\ entry = [state |-> entry.state, items |-> entry.items] /\ entry.state = "whole"
      /\ entry.items = ask[c].cfg[f]
      /\ Sorted(f, entry.items) /\ disk' = [disk EXCEPT ![f] = entry]
      /\ UNCHANGED <<paired, oldMarks, calm>>
  BY <1>1, <1>3 DEF Write, WellKept
<1>5. CASE f = "services"
  <2>1. Goto(c, "saveMcp") /\ Saving(c)
    BY <1>2, <1>5 DEF Write, Saving
  <2>. QED
    BY <1>4, <1>5, <2>1, SaveKeeps
<1>6. CASE f = "mcp"
  <2>1. ask[c].pc = "writeMcp"
    BY <1>2, <1>6 DEF WriteAt
  <2>2. PICK r : Asked(r) /\ r.pc \notin Busy /\ ask' = [ask EXCEPT ![c] = r]
    <3>1. CASE Finish(c)
      BY <3>1, IdleAsked DEF Finish
    <3>2. CASE Goto(c, "publish")
      <4>1. PICK q : q = [ask[c] EXCEPT !.pc = "publish"] /\ Asked(q)
        BY <2>1, AskedMoves, ZenonT(60)
      <4>2. ask' = [ask EXCEPT ![c] = q]
        BY <3>2, <4>1 DEF Goto
      <4>3. ask[c] = [pc |-> ask[c].pc, op |-> ask[c].op, id |-> ask[c].id, port |-> ask[c].port,
                      full |-> ask[c].full, cfg |-> ask[c].cfg, todo |-> ask[c].todo]
        BY <2>1 DEF HostInv, Requested, Asked, NoRequest
      <4>4. q.pc \notin Busy
        BY <4>1, <4>3 DEF Busy
      <4>. QED
        BY <4>1, <4>2, <4>4, ZenonT(60)
    <3>. QED
      BY <1>6, <3>1, <3>2 DEF Write
  <2>. QED
    BY <1>1, <1>4, <1>6, <2>1, <2>2, SavedKeeps
<1>. QED
  BY <1>5, <1>6 DEF Files

\* There are no files at first.
LEMMA InitHost == HostInit => HostInv
<1>. SUFFICES ASSUME HostInit PROVE HostInv
  OBVIOUS
<1>1. FilesKept
  <2>1. disk = [f \in Files |-> [state |-> "absent", items |-> Nothing]]
    BY DEF HostInit
  <2>. QED
    BY <2>1, NothingKept DEF FilesKept
<1>2. Requested /\ \A c \in HostClients : ~Saving(c)
  BY IdleAsked DEF HostInit, Requested, Saving, Busy
<1>3. paired = {} /\ NoneSaved
  BY DEF HostInit, NoneSaved
<1>4. OneSaver /\ SaverKnows /\ Rested /\ Pairs(paired)
  BY <1>2, <1>3 DEF OneSaver, SaverKnows, Rested, Pairs, Together
<1>. QED
  BY <1>1, <1>2, <1>4 DEF HostInv

\* Every step keeps the invariant.
LEMMA HostInvHolds == HostSpec => []HostInv
<1>1. ASSUME HostInv, [HostNext]_hostVars PROVE HostInv'
  <2>1. CASE UNCHANGED hostVars
    <3>1. UNCHANGED <<disk, oldMarks, ask, calm, paired>>
      BY <2>1 DEF hostVars
    <3>2. Requested'
      BY <1>1, <3>1 DEF HostInv, Requested, Asked
    <3>. QED
      BY <1>1, <3>1, <3>2, FrameKeeps
  <2>2. ASSUME NEW c \in HostClients, Request(c) \/ Progress(c) PROVE HostInv'
    <3>1. CASE Request(c)
      BY <1>1, <3>1, RequestKeeps
    <3>2. CASE Edit(c)
      BY <1>1, <3>2, EditKeeps
    <3>3. CASE SaveConfig(c)
      <4>1. CASE SaveFails(c)
        BY <1>1, <4>1, BreakKeeps
      <4>2. ASSUME NEW f \in Files, Truncate(c, f) \/ Write(c, f) PROVE HostInv'
        BY <1>1, <4>2, TruncateKeeps, WriteKeeps
      <4>. QED
        BY <3>3, <4>1, <4>2 DEF SaveConfig
    <3>4. CASE PublishEnv(c) \/ Plan(c) \/ ComposeUp(c) \/ ComposeStop(c) \/ ComposeFails(c) \/ Settle(c)
      BY <1>1, <3>4, WorkKeeps
    <3>. QED
      BY <2>2, <3>1, <3>2, <3>3, <3>4 DEF Progress
  <2>3. CASE CatalogAges \/ HostCrash \/ Daemon
    BY <1>1, <2>3, BreakKeeps
  <2>. QED
    BY <1>1, <2>1, <2>2, <2>3 DEF HostNext
<1>. QED
  BY <1>1, InitHost, PTL DEF HostSpec

\* A service and the MCP server that goes with it, once marked for the boot as a pair, have
\* the same mark ever after, unless two saves overlapped or one was cut short (unit, set_boot,
\* set_meta and set_port of host.rs).
THEOREM PairsKept == HostSpec => []PairsMarkedTogether
<1>1. HostInv => PairsMarkedTogether
  <2>. SUFFICES ASSUME HostInv, Quiet, calm, NEW i \in paired, DefaultPeer(i) \in Ids
                PROVE  ItemOf(LoadedConfig, i).autostart = ItemOf(LoadedConfig, DefaultPeer(i)).autostart
    BY DEF PairsMarkedTogether, Quiet
  <2>1. Together(LoadedConfig, paired)
    BY DEF HostInv, Rested
  <2>2. WellKept(LoadedConfig)
    BY LoadedKept DEF HostInv
  <2>3. \A j : ItemOf(LoadedConfig, j) = Slot(LoadedConfig, j)
    BY <2>2, SlotFits
  <2>. QED
    BY <2>1, <2>3 DEF Together
<1>. QED
  BY <1>1, HostInvHolds, PTL

=============================================================================
