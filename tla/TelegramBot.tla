----------------------------- MODULE TelegramBot -----------------------------
(***************************************************************************)
(* The Telegram bot (ira-telegram): one task that polls for updates and    *)
(* handles them one after the other, over the conversations that the other *)
(* surfaces share (ConversationStore).                                     *)
(*                                                                         *)
(* The offset lives in memory and reaches Telegram with the next poll,     *)
(* which confirms every update below it; Telegram delivers the rest again. *)
(* An error of a handler ends the process, and the container is started    *)
(* again (restart: unless-stopped) with nothing of what it had in memory.  *)
(*                                                                         *)
(* Abstracted: texts, the catalogue that /model, /providers and /system    *)
(* change, the model's turn (ToolLoop), the typing indicator.              *)
(***************************************************************************)
EXTENDS ConversationStore

CONSTANTS
  MaxUpdates,  \* bound: updates users send
  MaxCrashes   \* bound: errors and kills that end the process

Updates == 1..MaxUpdates

\* "skipped": no message, no text or a sender who is not in the allowlist.
UpdateKinds == {"skipped", "group text", "command", "clear", "ask"}

VARIABLES
  sent,       \* the updates users have sent: a sequence of [kind, chat]
  confirmed,  \* Telegram: the last update it will not deliver again
  bot,        \* what the bot is at
  offset,     \* the bot's memory: the offset of the next poll
  batch,      \* the updates of the last poll that are left, the one at hand first
  session,    \* per chat: the conversation of the session, 0 without one
  ending,     \* history, per update: how it was settled
  crashes

botVars == <<sent, confirmed, bot, offset, batch, session, ending, crashes>>

Places == {"poll", "handle", "load session", "route", "archive old", "create new", "reply",
           "append user", "context", "model", "store reply", "store error", "down"}

NoSession == [c \in Chats |-> 0]

BotInit ==
  /\ StoreInit
  /\ sent = <<>>
  /\ confirmed = 0 /\ offset = 0
  /\ bot = "poll" /\ batch = <<>>
  /\ session = NoSession
  /\ ending = [u \in Updates |-> "open"]
  /\ crashes = 0

Update == Head(batch)
Kind == sent[Update].kind
Chat == sent[Update].chat

Goto(here, there) == bot = here /\ bot' = there

\* A user writes.
Send ==
  /\ Len(sent) < MaxUpdates
  /\ \E k \in UpdateKinds, c \in Chats : sent' = Append(sent, [kind |-> k, chat |-> c])
  /\ UNCHANGED <<storeVars, confirmed, bot, offset, batch, session, ending, crashes>>

----------------------------------------------------------------------------
\* get_updates: Telegram confirms what lies below the offset and answers with the rest.
\* The answer may be lost after that.
Upto(n) == IF n - 1 > confirmed THEN n - 1 ELSE confirmed

Unconfirmed == [i \in 1..(Len(sent) - Upto(offset)) |-> Upto(offset) + i]

\* Mutant: the handlers run on tasks of their own, and the loop goes on.
PollAtOnce ==
  /\ bot \in {"poll", "handle"}
  /\ confirmed' = Upto(offset)
  /\ batch' = Unconfirmed /\ bot' = IF batch' = <<>> THEN "poll" ELSE "handle"
  /\ offset' = IF batch' = <<>> THEN offset ELSE Len(sent) + 1
  /\ UNCHANGED <<storeVars, sent, session, ending, crashes>>

Poll ==
  /\ bot = "poll" /\ batch = <<>>
  /\ confirmed' = Upto(offset)
  /\ \/ batch' = Unconfirmed /\ bot' = IF batch' = <<>> THEN "poll" ELSE "handle"
     \/ UNCHANGED <<batch, bot>>
  /\ UNCHANGED <<storeVars, sent, offset, session, ending, crashes>>

\* The update at hand is settled; on to the next of the batch.
Settle(how) ==
  /\ ending' = [ending EXCEPT ![Update] = how]
  /\ batch' = Tail(batch)
  /\ bot' = IF batch' = <<>> THEN "poll" ELSE "handle"

\* The body of the loop up to load_session.  What a stranger or a message without text is
\* told may fail to be sent without consequence.  refresh only reads.
Handle ==
  /\ bot = "handle"
  /\ offset' = IF Update + 1 > offset THEN Update + 1 ELSE offset
  /\ IF Kind = "skipped" THEN Settle("ignored")
                         ELSE bot' = "load session" /\ UNCHANGED <<batch, ending>>
  /\ UNCHANGED <<storeVars, sent, confirmed, session, crashes>>

SessionLoaded(i) == session' = [session EXCEPT ![Chat] = i] /\ Goto("load session", "route")

\* load_session: the session of the chat, with the live conversation of the chat or a new
\* one (ensure_telegram) when there is none.  A failure drops the message with a warning.
LoadSession ==
  /\ bot = "load session"
  /\ \/ /\ session[Chat] # 0 /\ SessionLoaded(session[Chat])
        /\ UNCHANGED <<storeVars, batch, ending>>
     \/ /\ session[Chat] = 0
        /\ \E i \in Live("telegram", Chat) : SessionLoaded(i)
        /\ UNCHANGED <<storeVars, batch, ending>>
     \/ /\ session[Chat] = 0
        /\ Insert("telegram", Chat)
        /\ SessionLoaded(Len(convs'))
        /\ UNCHANGED <<active, at, found, faults, cut, deleted, batch, ending>>
     \/ /\ session[Chat] = 0 /\ faults < MaxFaults
        /\ faults' = faults + 1
        /\ Settle("dropped")
        /\ UNCHANGED <<convs, active, at, found, cut, deleted, session>>
  /\ UNCHANGED <<sent, confirmed, offset, crashes>>

\* on_text and on_command: plain text of a group is ignored, commands answer with a text
\* or change the catalogue, /clear starts a conversation, the rest is for the model.
OnText ==
  /\ bot = "route"
  /\ CASE Kind = "group text" -> Settle("ignored")
       [] Kind = "command" -> Goto("route", "reply") /\ UNCHANGED <<batch, ending>>
       [] Kind = "clear" -> Goto("route", "archive old") /\ UNCHANGED <<batch, ending>>
       [] Kind = "ask" -> bot' \in {"append user", "reply"} /\ UNCHANGED <<batch, ending>>
  /\ UNCHANGED <<storeVars, sent, confirmed, offset, session, crashes>>

\* new_telegram archives the live conversation of the chat, and then creates the next.
ArchiveOld ==
  /\ Goto("archive old", "create new")
  /\ convs' = Archived(Live("telegram", Chat))
  /\ UNCHANGED <<active, at, found, faults, cut, deleted>>
  /\ UNCHANGED <<sent, confirmed, offset, batch, session, ending, crashes>>

CreateNew ==
  /\ Goto("create new", "reply")
  /\ Insert("telegram", Chat)
  /\ session' = [session EXCEPT ![Chat] = Len(convs')]
  /\ UNCHANGED <<active, at, found, faults, cut, deleted>>
  /\ UNCHANGED <<sent, confirmed, offset, batch, ending, crashes>>

\* reply_llm past its checks (no model or no client: OnText goes to "reply").  An error of
\* the model is stored if that works, and told like a reply.
ReplyLlm ==
  /\ \/ Goto("append user", "context")
     \/ Goto("context", "model")
     \/ bot = "model" /\ bot' \in {"store reply", "store error"}
     \/ bot \in {"store reply", "store error"} /\ bot' = "reply"
  /\ UNCHANGED <<storeVars, sent, confirmed, offset, batch, session, ending, crashes>>

\* send_text, every chunk of it.
SendText ==
  /\ bot = "reply"
  /\ Settle("answered")
  /\ UNCHANGED <<storeVars, sent, confirmed, offset, session, crashes>>

\* Any `?` of the loop, or the end of the container.
Crash ==
  /\ bot # "down" /\ crashes < MaxCrashes
  /\ bot' = "down" /\ crashes' = crashes + 1
  /\ UNCHANGED <<storeVars, sent, confirmed, offset, batch, session, ending>>

\* Mutant: the offset is kept on disk.
RestartWithOffset ==
  /\ Goto("down", "poll")
  /\ batch' = <<>> /\ session' = NoSession
  /\ UNCHANGED <<storeVars, sent, confirmed, offset, ending, crashes>>

\* run again from the start.
Restart ==
  /\ Goto("down", "poll")
  /\ offset' = 0 /\ batch' = <<>> /\ session' = NoSession
  /\ UNCHANGED <<storeVars, sent, confirmed, ending, crashes>>

BotStep ==
  \/ Poll \/ Handle \/ LoadSession \/ OnText \/ ArchiveOld \/ CreateNew \/ ReplyLlm
  \/ SendText \/ Restart

\* The bot, and the statements of a request that a device has begun.
BotNext(d) ==
  \/ Send \/ BotStep \/ Crash
  \/ Statement(d) /\ UNCHANGED botVars

\* The bot and all the devices over one table.
BotSpec ==
  BotInit /\ [][Send \/ BotStep \/ Crash \/ (StoreNext /\ UNCHANGED botVars)]_<<storeVars, botVars>>

----------------------------------------------------------------------------
\* An update that Telegram will not deliver again has been settled: answered, ignored by
\* a rule, or dropped because its session could not be loaded (main.rs:169).  A crash may
\* make the bot handle an update twice, never not at all.
ConfirmedWasSettled == \A u \in Updates : u <= confirmed => ending[u] # "open"

\* Between updates, the session of a chat writes to a conversation of that chat, and to the
\* live one unless a device deleted that one by its id (delete_chat looks at no channel, and
\* the bot learns nothing of it): nothing else archives it, and /clear that fails half-way
\* ends the process with the session it has made stale.
SessionIsLive ==
  bot \in {"poll", "handle", "load session", "route"} =>
    \A c \in Chats : session[c] # 0 =>
      /\ session[c] \in Of("telegram", c)
      /\ convs[session[c]].live \/ session[c] \in deleted

\* Every update is settled in the end, once the failures that end the process are over.
BotCatchesUp == \A u \in Updates : Len(sent) >= u ~> ending[u] # "open"

==============================================================================
