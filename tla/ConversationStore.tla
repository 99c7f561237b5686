-------------------------- MODULE ConversationStore --------------------------
(***************************************************************************)
(* The table of conversations (ira-store/src/conversations.rs) under the   *)
(* requests of several desktops and browsers (list_chats ... delete_all_-  *)
(* chats of ira-api), terminals that open the local conversation (ira-tui) *)
(* and daemons that open the one of voice (ira-daemon).                    *)
(*                                                                         *)
(* A request is a sequence of SQL statements without a transaction: each   *)
(* statement is a step, others run in between, and any may fail.  Partial  *)
(* unique indexes allow one live conversation per Telegram chat, and one   *)
(* of voice.  TelegramBot adds the bot's requests over the same table.     *)
(*                                                                         *)
(* Abstracted: messages and titles, ids (the place in the table),          *)
(* which live chat is the most recent (any may be the first of a list).  A *)
(* statement that fails has done nothing.                                  *)
(***************************************************************************)
EXTENDS Naturals, Sequences, FiniteSets

CONSTANTS
  Devices,    \* requests of the API, terminals and daemons, each one at a time
  Chats,      \* Telegram chats
  NoChat,     \* external_id of a conversation of another channel
  MaxLocal,   \* bound: conversations of voice and local ones ever created
  MaxFaults   \* bound: statements that fail

VARIABLES
  convs,    \* the table: a sequence of rows
  active,   \* settings.active_conversation_id, 0 for NULL
  at,       \* per device: the statement it is about to run
  found,    \* per device: the conversation its last query returned, 0 for none
  faults,
  cut,      \* history: a deletion ended before it had left a live chat
  deleted   \* history: the conversations of other channels that a device deleted by id

storeVars == <<convs, active, at, found, faults, cut, deleted>>

Statements == {"idle", "archive", "archive all", "forget active", "list", "activate",
               "create", "read active", "check live", "find voice", "insert voice",
               "find again"}

\* From "archive" on a deletion owes the user a live chat; a plain new chat does not.
Deleting == {"list", "forget active", "activate", "create"}

----------------------------------------------------------------------------
Row(channel, ext) == [channel |-> channel, ext |-> ext, live |-> TRUE]

Of(channel, ext) == {i \in 1..Len(convs) : convs[i].channel = channel /\ convs[i].ext = ext}

Live(channel, ext) == {i \in Of(channel, ext) : convs[i].live}

LiveLocal == Live("local", NoChat)

\* The partial unique indexes of init.sql.
Unique(channel, ext) == channel = "local" \/ Live(channel, ext) = {}

\* create_conversation.
Insert(channel, ext) ==
  /\ channel # "telegram" =>
       Cardinality({i \in 1..Len(convs) : convs[i].channel # "telegram"}) < MaxLocal
  /\ Unique(channel, ext)
  /\ convs' = Append(convs, Row(channel, ext))

Archived(ids) == [i \in 1..Len(convs) |-> [convs[i] EXCEPT !.live = @ /\ i \notin ids]]

\* A query for one row: any of the set, or none.
Query(d, ids) ==
  IF ids = {} THEN found' = [found EXCEPT ![d] = 0]
              ELSE \E i \in ids : found' = [found EXCEPT ![d] = i]

AtStatement(d, here, there) == at[d] = here /\ at' = [at EXCEPT ![d] = there]

StoreInit ==
  /\ convs = <<Row("local", NoChat)>>
  /\ active = 1
  /\ at = [d \in Devices |-> "idle"]
  /\ found = [d \in Devices |-> 0]
  /\ faults = 0
  /\ cut = FALSE /\ deleted = {}

----------------------------------------------------------------------------
\* open_chat: the id of a list that may be old by now, or of any conversation: nothing looks
\* at its channel.
OpenChat(d, i) ==
  /\ at[d] = "idle"
  /\ active' = i
  /\ UNCHANGED <<convs, at, found, faults, cut, deleted>>

\* new_chat, delete_chat, delete_all_chats, ensure_local and ensure_voice begin.
Begin(d) ==
  /\ \E first \in {"create", "archive", "archive all", "read active", "find voice"} :
       AtStatement(d, "idle", first)
  /\ found' = [found EXCEPT ![d] = 0]
  /\ UNCHANGED <<convs, active, faults, cut, deleted>>

----------------------------------------------------------------------------
\* delete_chat: archive (the id may be old too, or of another channel), list, then activate
\* the first of the list or create one.

ArchiveOne(d) ==
  /\ AtStatement(d, "archive", "list")
  /\ \E i \in 1..Len(convs) :
       /\ convs' = Archived({i})
       /\ deleted' = IF convs[i].channel = "local" THEN deleted ELSE deleted \union {i}
  /\ UNCHANGED <<active, found, faults, cut>>

\* Mutant: the list shows archived chats too.
ListEverything(d) ==
  /\ AtStatement(d, "list", "activate")
  /\ Query(d, {i \in 1..Len(convs) : convs[i].channel = "local"})
  /\ UNCHANGED <<convs, active, faults, cut, deleted>>

List(d) ==
  /\ at[d] = "list"
  /\ Query(d, LiveLocal)
  /\ at' = [at EXCEPT ![d] = IF LiveLocal = {} THEN "create" ELSE "activate"]
  /\ UNCHANGED <<convs, active, faults, cut, deleted>>

\* Mutant: the channel is forgotten.
ArchiveEverything(d) ==
  /\ AtStatement(d, "archive all", "forget active")
  /\ convs' = Archived(1..Len(convs))
  /\ UNCHANGED <<active, found, faults, cut, deleted>>

\* delete_all_chats archives the local channel only, then clears the active one.
ArchiveLocal(d) ==
  /\ AtStatement(d, "archive all", "forget active")
  /\ convs' = Archived(LiveLocal)
  /\ UNCHANGED <<active, found, faults, cut, deleted>>

ForgetActive(d) ==
  /\ AtStatement(d, "forget active", "create")
  /\ active' = 0
  /\ UNCHANGED <<convs, found, faults, cut, deleted>>

\* new_local creates, then activates what it created.
NewLocal(d) ==
  /\ AtStatement(d, "create", "activate")
  /\ Insert("local", NoChat)
  /\ found' = [found EXCEPT ![d] = Len(convs')]
  /\ UNCHANGED <<active, faults, cut, deleted>>

SetActive(d) ==
  /\ AtStatement(d, "activate", "idle")
  /\ active' = found[d]
  /\ UNCHANGED <<convs, found, faults, cut, deleted>>

----------------------------------------------------------------------------
\* ensure_local: the active conversation if it is a live local one, or a new one.

ReadActive(d) ==
  /\ AtStatement(d, "read active", "check live")
  /\ found' = [found EXCEPT ![d] = active]
  /\ UNCHANGED <<convs, active, faults, cut, deleted>>

CheckLive(d) ==
  /\ AtStatement(d, "check live", IF found[d] \in LiveLocal THEN "idle" ELSE "create")
  /\ UNCHANGED <<convs, active, found, faults, cut, deleted>>

\* ensure_voice: find it, or insert it, or find the one somebody else inserted.
FindVoice(d, here, otherwise) ==
  /\ at[d] = here
  /\ LET live == Live("voice", NoChat)
     IN /\ Query(d, live)
        /\ at' = [at EXCEPT ![d] = IF live = {} THEN otherwise ELSE "idle"]
  /\ UNCHANGED <<convs, active, faults, cut, deleted>>

InsertVoice(d) ==
  /\ \/ /\ Insert("voice", NoChat)
        /\ at' = [at EXCEPT ![d] = "idle"]
        /\ found' = [found EXCEPT ![d] = Len(convs')]
     \/ /\ ~Unique("voice", NoChat)
        /\ at' = [at EXCEPT ![d] = "find again"]
        /\ UNCHANGED <<convs, found>>
  /\ at[d] = "insert voice"
  /\ UNCHANGED <<active, faults, cut, deleted>>

EnsureVoice(d) ==
  \/ FindVoice(d, "find voice", "insert voice")
  \/ InsertVoice(d)
  \/ FindVoice(d, "find again", "idle")

\* A statement fails: its request ends with the error.
Fault(d) ==
  /\ at[d] # "idle" /\ faults < MaxFaults
  /\ faults' = faults + 1
  /\ cut' = (cut \/ at[d] \in Deleting)
  /\ at' = [at EXCEPT ![d] = "idle"]
  /\ UNCHANGED <<convs, active, found, deleted>>

Statement(d) ==
  \/ ArchiveOne(d) \/ List(d) \/ ArchiveLocal(d) \/ ForgetActive(d)
  \/ NewLocal(d) \/ SetActive(d) \/ ReadActive(d) \/ CheckLive(d) \/ EnsureVoice(d)
  \/ Fault(d)

StoreStep(d) ==
  \/ \E i \in 1..Len(convs) : OpenChat(d, i)
  \/ Begin(d)
  \/ Statement(d)

StoreNext == \E d \in Devices : StoreStep(d)

----------------------------------------------------------------------------
\* However deletions of several devices overlap, when none is under way and none was cut
\* short by a failure there is a live local chat: the last to archive sees that none is
\* left (delete_chat and delete_all_chats archive first, then look).
SomeChatIsLeft ==
  (\A d \in Devices : at[d] \notin Deleting) /\ ~cut => LiveLocal # {}

==============================================================================
