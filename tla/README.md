# A verification project for Ira

Ira is a personal assistant: several surfaces (web, desktop, Telegram, terminal, voice)
over shared Rust crates, one PostgreSQL database, and outside services (LLM providers, MCP
servers, a toolbox for databases). This directory holds TLA+ models of the parts where
order, concurrency and failure decide whether Ira is correct, the TLC runs that check them
on small instances, and theorems about them checked by TLAPS.

    tlc -workers 2 -config MC_ChatTurn.cfg MC_ChatTurn.tla     # one run
    tlapm McpProofs.tla                                        # one proof module

`PROJECT.json` lists components, runs, properties, mutants, hazards and theorems, and maps
each definition to the lines it stands for. Paths below are relative to the repository.

## 1. Inventory

### The core: a chat turn

A message goes surface -> `ira-server`, the Tauri shell or the bot -> `ira-api`
(`App::chat`, `App::chat_stream`) -> `ira-tools::chat` (the tool loop) -> provider and
tools, and rows go to `ira-store`.

| Component | State | What is hard | What makes it correct |
|---|---|---|---|
| Tool loop, `crates/ira-tools/src/chat.rs`, `registry.rs` | the request's messages, the round, provisional text | text streamed before the model asks for tools; tools that fail or do not exist; the last allowed round | each request for tools is followed by exactly its results in order; retracted text never stays in the bubble |
| Chat turns, `crates/ira-api/src/lib.rs` 584-593, 1086-1374 | a map of weak lock references per process; the rows in the database | dying locks, dropped handlers, crashes, statements that land late, partial failure of an append, several processes | turns of a conversation are serialized; the model is asked about a settled history; "done" means persisted; every turn ends |
| Stream delivery, `crates/ira-server/src/lib.rs` 385-430, `desktop/src/api.ts` 283-316 | an unbounded and a bounded queue, a relay task, the client's buffer | slow, stalled and leaving clients, chunks cut anywhere, server death | events once and in order; an honest verdict |
| Provider streams, `crates/ira-llm` | the text and the tool calls being assembled | chunks, ids, calls in pieces | what is accepted is what the provider meant |
| Codex credentials, `ira-llm` codex, `ira-store` codex | stored pair of tokens, a lock per manager | refresh tokens that are good for one use, several managers, sign-ins meanwhile | the user stays signed in |

### MCP

| Component | State | What is hard | What makes it correct |
|---|---|---|---|
| Session over stdio, `crates/ira-mcp/src/stdio.rs` | numbers, one-shot senders by number, the stdin lock, a reader task, the child | replies in any order, timeouts against late replies, child death, dropped calls, the child's own requests on the same stdin | a request gets its own answer; lines are whole; nobody waits for ever |
| Session table, `crates/ira-mcp/src/manager.rs`, `crates/ira-tools/src/mcp.rs`, `ira-api` 438-526 | a session and a recorded failure per server, the settings' lock | connect works between separate locks; older configurations in flight; requests dropped half way; a file that others rewrite | a turn is served by the configuration on file: what the settings saved at once unless somebody raced, anything in the end |
| Session over HTTP, `crates/ira-mcp/src/http.rs` | session id, ready flag | several users open it together, the server restarts | a request follows its handshake |
| Files of servers, `crates/ira-mcp/src/config_file.rs`, `ira-tui/src/mcp_cli.rs` | the user's and the project's file, a lock per process | read, change, write beside, rename; the command and other processes' settings | what was saved stays |

### What surfaces share

| Component | State | What is hard | What makes it correct |
|---|---|---|---|
| Conversations, `ira-store/src/conversations.rs`, `ira-api` 1077-1124 | conversations, the active local chat | several statements without a transaction, several devices | some chat is left |
| Facts, `ira-store/src/memories.rs`, `ira-tools/src/memory.rs` | the table memories | find and insert are two statements | a fact is stored once |
| Telegram bot, `ira-telegram` | update offset, a session per chat | failures that end the process, restarts, devices that delete by id | an update is settled, a session is live |
| Start of the database, `ira-store/src/migrate.rs`, `instructions.rs` | recorded versions, instructions, a lock that belongs to a database connection | processes that start together, deaths between statements, an unlock on the wrong connection | nobody is refused; users' texts stay |
| Sign-in, `ira-server/src/web_auth.rs` | recent failures, sessions | a verification slower than the look at the count | guesses are bounded |
| Desktop interface, `desktop/src/App.tsx`, `voice.ts` | bubbles, a run number, the open conversation | late events of an earlier run, frames drawn late | what is shown belongs to the open conversation |
| Terminal interface, `ira-tui` | one form, history, the palette, a turn in the background | what is typed while an answer is under way | each answer follows its question |

### Settings and services

| Component | State | What is hard | What makes it correct |
|---|---|---|---|
| Local services, `ira-api/src/host.rs` | two unlocked files, Docker Compose | pairs of services, files rewritten whole, catalogues of two origins | a pair stays a pair |
| Toolbox, `ira-api` 784-985, `toolbox.rs`, `ira-store/src/databases.rs` | connection rows, published files, a lock per process | each step fails separately, edits and other processes meanwhile, dropped handlers | a connection shown as working is served as it is |
| Master key, `ira-store/src/databases.rs` | a file, its older place, sealed secrets | processes that start together and die | no secret is lost |
| Models, `ira-store/src/lib.rs` | rows of providers and models, which is active | syncs and edits statement by statement | a model stays active |
| Choice of the model, `ira-api/src/preferences.rs`, `models_dev.rs`, `lib.rs` | a file and the database, both rewritten | read, resolve and write around awaits | a choice stands; a prompt is kept |

### Voice

| Component | State | What is hard | What makes it correct |
|---|---|---|---|
| Session and engine, `ira-core` | the session's state and audio, the published state, whether the player played at the last look | a polled end of playback, commands in any state, recordings that are given up | Speaking is left; old audio is never recognized |
| Playback, `ira-audio/src/player.rs` | a queue of commands, a stop flag that two threads write | a stop against queued and playing sounds, a device that fails | stop silences |
| Capture and detection, `ira-audio/src/capture.rs`, `ira-vad` | a bounded queue, counts of frames | frames are lost when it is full | segments open and close where they should |
| Daemon and control, `ira-daemon`, `ira-ipc`, `ira-ctl` | a Unix socket | one connection at a time, no time limit, two daemons | every command ends |
| Import of settings, `ira-daemon/src/main.rs` 287-319 | columns at defaults or not | repeated at each start | what users set stays |

The realtime voice service, the projects service, the tools themselves, `ira-pgjson`,
`ira-code`, `ira-engine`, the site and the deployment keep no state that two steps of this
code contend for; see section 6. The hazards, each at its line, are in `PROJECT.json`.

## 2. The modules

| Module | What it is | Source |
|---|---|---|
| `ReplyStream` | abstract: provisional text is discarded as a whole | - |
| `ToolLoop` | the tool loop; implements `ReplyStream` | `ira-tools/src/chat.rs`, `registry.rs` |
| `SerialChat` | abstract: a conversation is a sequence of whole turns | - |
| `ChatTurn` | turns, locks, processes, appends; implements `SerialChat` | `ira-api/src/lib.rs`, `ira-store/src/conversations.rs`, `ira-server/src/lib.rs` |
| `StreamRelay` | the way of a turn's events to the browser | `ira-server/src/lib.rs`, `desktop/src/api.ts` |
| `StreamAssembly` | four provider protocols cut anywhere, and their parsers | `ira-llm` |
| `CodexAuth` | requests of several managers over one stored pair of tokens | `ira-llm/src/providers/codex`, `ira-store/src/codex.rs` |
| `McpStdio`, `McpManager`, `McpHttp`, `McpFile` | sessions over pipes, their table, sessions over HTTP, the files | `ira-mcp`, `ira-tools/src/mcp.rs`, `ira-api/src/lib.rs`, `ira-tui/src/mcp_cli.rs` |
| `ConversationStore` | the statements of creating, opening, archiving and deleting | `ira-store/src/conversations.rs`, `ira-api/src/lib.rs` |
| `TelegramBot` | EXTENDS it with the bot's task | `ira-telegram` |
| `FactStore` | remember and forget | `ira-store/src/memories.rs`, `ira-tools/src/memory.rs` |
| `Schema` | init, migrations and seeding by processes that start together | `ira-store/src/migrate.rs`, `instructions.rs` |
| `WebAuth` | logins, sessions, routes | `ira-server/src/web_auth.rs`, `lib.rs` |
| `ChatSurface` | the page's conversations, runs, bubbles and voice call | `desktop/src/App.tsx`, `api.ts`, `voice.ts` |
| `Terminal` | the terminal's loop, palette and settings | `ira-tui` |
| `HostServices` | marks, ports and pairs of services | `ira-api/src/host.rs`, `lib.rs` |
| `ToolboxSync` | connections and their publication | `ira-api/src/lib.rs`, `toolbox.rs`, `ira-store/src/databases.rs` |
| `MasterKey` | creation, move and use of the key | `ira-store/src/databases.rs` |
| `ModelCatalog`, `ModelChoice` | the rows of models; the choice among them | `ira-store/src/lib.rs`, `codex.rs`; `ira-api/src/preferences.rs`, `models_dev.rs`, `lib.rs` |
| `AudioPlayer`, `VoiceEngine` | the player; EXTENDS it with the session and its thread | `ira-audio/src/player.rs`; `ira-core` |
| `Hearing`, `Daemon`, `VoiceSettings` | capture and detection; the socket; the import | `ira-audio`, `ira-vad`; `ira-daemon`, `ira-ipc`, `ira-ctl` |
| `ReplyProofs` | theorems about `ToolLoop`, `StreamRelay` | |
| `ChatTurnProofs` | theorems about `ChatTurn` | |
| `StreamProofs` | a theorem about `StreamAssembly` | |
| `VoiceProofs` | theorems about `AudioPlayer`, `VoiceEngine`, `Hearing` | |
| `ClientProofs` | theorems about `ChatSurface`, `Terminal`, `CodexAuth` | |
| `McpProofs` | theorems about `McpStdio`, `McpHttp`, `McpManager` | |
| `SurfaceProofs` | theorems about `ConversationStore`, `TelegramBot`, `FactStore`, `Schema`, `McpFile`, `WebAuth` | |
| `SettingsProofs` | theorems about `HostServices`, `MasterKey`, `ToolboxSync`, `ModelCatalog`, `ModelChoice` | |
| `MC_...` | the instances of the runs | |

Each module declares its bounds as constants named `Max...` (or `PipeSize`, `OutSize`,
`Depth`, `QueueSize`), and a named ASSUME where its constants need one. Definitions called
*mutant* in their comment are not part of the specification: each is the form some
definition would have with a plausible bug, and is used to show that a property notices it.
History variables are named in their comments; they appear in properties only.

### ToolLoop

One turn of `run_stream` (`turn.streaming`) or `run`. `messages` is the request's history
without the system prompt, `events` what the sink received. `Start` is the entry with the
branch without tools (72-83); `Delta`, `ProviderFails`, `Answer` and `RequestTools` are the
outcomes of the provider's response (86-107) with the reset that retracts provisional text
(99-101); `CallTool` is the loop over calls (108-127) with its announcement, the call
through the registry and the result message; `AskAgain` and `GiveUp` are the loop's bound
(85, 128-130). Texts and arguments are abstracted: a fragment is the round that produced
it, a call the round and place it was requested at. `run` shares the actions and has no
sink.

`PairedHistory` is what providers demand of a history with tools.
`ImplementsReply` is the refinement to `ReplyStream`: what the surface shows is the set of
fragments since the last reset, each with its place, and a new attempt never begins over text of an older one.
It notices, for instance, that a reset must be sent before the next round although the
text and the request for tools come in the same response.

### ChatTurn

Any number of turns on conversations of processes that share a database. A lock is named
after the turn that created it. `Lookup` is `conversation_lock` as a whole, because the map
is under a mutex of its own; `Enqueue`/`Acquire` are `lock().await` of a fair mutex;
the rest follows `chat_stream` and `chat` statement by statement at the granularity of
their awaits. An append runs an INSERT and then two updates: stored, nothing stored, or
stored but reported as failed. A streaming turn runs on a task nobody drops; a blocking one
runs in its HTTP handler and is dropped when the client goes (`ClientGone`). `Crash` ends
all turns of a process. A turn that is cut short may leave one statement under way, which
the database runs at any later time (`LateRow`): this is what makes the strays of
`SerialChat` unavoidable.

What the model is asked about (`History`) is the query of `context_messages`: of the rows that are
not errors the last `ContextLimit`. A turn can therefore be cut in half by the limit, or be the
only one left: `SettledContext` says what holds of a history with that limit.

### StreamRelay, StreamAssembly, CodexAuth

`StreamRelay`: the turn's send never waits. The relay task moves one event at a time from
the unbounded to the bounded queue, the body turns an event into a line, the client reads
chunks of any number of half lines. A half line is enough to tell apart a chunk that ends
in a line from one that ends after it. `BreakConnection` drops the body and aborts the relay
(`ChatStreamState::drop`); `ServerDies` takes the turn too.

`StreamAssembly`: `plan` is the reply the provider means, `wire` the tokens on their way (two
halves of each line, so that every cut is possible), `parser` what the client has put
together. The provider sends what its protocol says: fragments by index (OpenAI), blocks
(Claude), whole calls (Ollama), items and a final list (Codex). `AnswerWhole` and `AnswerCut` are answers read as one body: a JSON
document is whole or an error, but the body of Codex is a list of events of which none is required,
so one that ends early is an answer. `KnownGap` names the three cases in which a reply is
accepted that was not meant: the finding below, the calls of a Codex body without text, which are
added twice, and a Codex body that ends early. What a chunk makes of the parser is the
function `Steps`, one `Token` after the other.

`CodexAuth`: a request loads, waits for its manager's lock, loads again, asks the issuer,
stores, uses, and after a refusal refreshes once more. The issuer answers a refresh token
once when it rotates them. A pair lost between the issuer and the store (`lost`) signs the
user out whatever the code does.

### McpStdio, McpManager, McpHttp, McpFile

`McpStdio`: `Register` takes a number and registers the sender; `Lock`, `WriteHead`,
`WriteTail` are `write_json` under the stdin lock, in two writes because the pipe is
bounded and a write may stop in the middle; `Resume`, `Timeout`, `WriteFails` and
`Unregister` are the ends of `request`; the opening request is followed by the
`initialized` notification. The reader task is `Dispatch`, `Refuse`, `IgnoreNote`,
`Unreadable` and `EndOfOutput`. `Drop` is the caller's future being dropped, possible at
any await; `CloseSession` is the session's own drop. The child is the environment.

`McpManager`: `connect` takes a lock for each map operation, so it is a chain of steps
between which others run. Turns and tests load the file and connect; saves and
deletions hold the settings' lock to their end. `GiveUp` and `Abandon` are requests dropped
half way, `Expire` the age of a failure. `Elsewhere` is the file changed without any of this:
by the `ira` command (`mcp_cli.rs`), or by the settings of another process, whose lock and table are
its own. `raced` is a history variable: the file changed, or the settings dropped the session,
while somebody was connecting with an older configuration, or the settings were dropped before they
could. `unseen` is another: the file was written elsewhere while a session waited, and this process
has neither dropped that session nor connected with what the file says now.

`McpHttp`: users who find the table's slot empty open a session of their own; `ensure` is its
check, the handshake, the identifier kept, the notification and the flag, each a step.
`McpFile`: an edit reads, changes, writes all under a second name, and renames. The settings
of one process exclude each other (`Apps` are the processes, `Fellows` who waits for the same lock, `guard`
who holds one); those of another process (server and desktop edit the same file) and the `ira` command
exclude nobody. Where edits of two of them overlap (`overlapped`) one can be lost, so `SavedStays` speaks of all else: levels that hide each other, secrets
left blank, deaths in the middle of a write, writers whose file was renamed by another.

### What surfaces share

`ConversationStore` has one statement of one device per step. A device may open and delete any
conversation by its id, of any channel, as `open_chat` and `delete_chat` do; `deleted` remembers those
of other channels. `TelegramBot` EXTENDS it:
`Poll` hands over the offset and takes a batch, then each update goes through session,
route and answer; an error of a handler ends the process and the container starts it anew.
`FactStore`, `Schema` and `WebAuth` follow the same rule: what another request can see in
between is a step. `Schema` keeps of `init.sql` the four marks that a later start can
tell apart. Its lock belongs to a connection of the holder's pool: the statement that releases it may
run on another connection and release nothing (`Release`), so a process that is done, or has failed,
may still have the lock until that connection is closed (`CloseConnection`); a process that loses the
connection in the middle of its start goes on without the lock (`spoiled`). In `WebAuth` a login looks at the failures, verifies away from the lock, and decides
under it, where it looks again.

`ChatSurface` has one action for each stretch of handler between two awaits; `run` is
`chatRunRef`, `streams` the replies on their way with the frame that is still to be drawn.
`Terminal` has the loop's order: draw, perform what the last key left pending, take a key
or the answer.

### Settings and services

`HostServices` loads and saves each file as a whole in every request; `DefaultPeer` and
`Builtin` are the tables of the source, `SplitLegacy` and `Migrate` the marks an older program
left in `host.json`. `ToolboxSync` runs a sync row by row, from the
tests to the wait for the tools, under the lock of the process that answers the request (`server`);
several processes share rows and files. What the code runs as one block (`Publishing`) is marked and
undone when it fails (`PublishFails`), other failures only release the lock (`ToolFault`), and a
request may be dropped anywhere (`Drop`), also between the row it wrote and the sync. `MasterKey` has a step for each system call.
`ModelCatalog` has a step for each SQL statement. `ModelChoice` has a step for each read or
write of file and database in `snapshot`, the setters and a turn's preparation. The user writes the
prompt into the file at any time; `crossed` remembers that some request held an older copy of the
file then, which it writes back (`HoldsCopy`).

### AudioPlayer, VoiceEngine, Hearing, Daemon, VoiceSettings

`AudioPlayer` is the player alone: `Play`, `StopPlayback` and `DropPlayer` are the handle,
each a write of the flag and a command in the queue; the rest is the thread, which takes a
command, forgets a stop that came before the sound began (`ForgetStop`), looks at the flag
before each frame, and flushes. The device may fail (`MaxDeviceFaults`): the stream does not open
(`OpenFails`), which ends the thread and makes the handle's commands fail (`Enqueue`), or a frame is
refused (`WriteFails`), which ends its sound.

`VoiceEngine` EXTENDS it and adds the engine's loop: all commands (`Listen`, `ForceIdle`,
`Speak`), then one frame or the end of a wait, recognition and the model on the same
thread, and the look at the player (`Poll`). `session` has the state, the length of the
utterance kept and the counters; `slot` is what `status` answers and `said` what observers were
told. The system is the one the daemon builds: its wake word never hits, its synthesis
never fails. One assumption about time is needed, `Paced`: a sound does not begin and end
between two looks, unless recognition or the model keep the thread. The shortest sound is
180 ms long and the loop takes 20 ms.

`Hearing` is the capture thread, its queue and the counts of the detector, whose decision is
compared with a definition over the whole history. In `Daemon` a daemon serves one connection
at a time, takes the socket's path from whoever has it and removes it at its end.
`VoiceSettings` has the statements of the import against the setters.

## 3. The runs

Several runs check instances that share nothing: a variable `subject` picks one in the
initial state, and a behaviour is about that one alone. Its other variables keep one initial
value. Each subject therefore has the state space it would have in a run of its own.

| Run | Question | Instance and why it is enough |
|---|---|---|
| `reply` | Does a turn with tools keep its history and its events, do its events arrive once, in order and with an honest verdict, and does every turn end? | *Loop*: every registry over one MCP tool and one memory tool, an invented name, with and without a sink; 2 rounds, so one precedes the last; 2 calls per response, so one may fail and one follow; 2 fragments, so one may be empty. *Delivery*: a channel of 2 and up to 6 events: the channel fills, the relay waits, and both queues hold events when the connection breaks. *Chats*: two turns on two conversations or on one, one crash; the limit of the history plays no part. |
| `chat_turns` | Is a shared conversation a sequence of whole turns, through failures, cancellations, a crash and late statements? | Three turns: one inside, one waiting, one that looks the lock up while it dies. Each may stream or block. One crash. A history of two messages, so the third turn sees half of a turn, and the second all of it or half. |
| `chat_two_processes` (violation) | Do turns of two processes queue? | Two processes, one turn each: they do not. |
| `mcp` | Does each request over pipes get its own answer and end, are lines whole, is the configuration on file the one that serves, and does a request over HTTP follow its handshake? | *Session*: the opening and two more requests; a stdin of two halves, so a line may stop in the middle; a stdout of one message, so the child waits. *Table*: two users; three configurations, one of which never starts; two edits, here or elsewhere, and two mishaps. *HTTP*: two users, two sessions, a restart. |
| `voice_engine` | Is the end of a sound always noticed, is audio fresh, does a stop cut what plays, are segments of speech right, does each command end? | *Engine*: two commands and one reply, so a sound may play while another is asked for; sounds of two frames; three frames of utterance: a first, a middle and a last; one failure of the device. *Hearing*: thresholds of 2 and 7 frames, so a segment opens, closes and opens again. *Commands*: two daemons and two clients, so one daemon takes the socket with a command waiting at the other. |
| `voice_stop_lost`, `voice_finish_out_of_order` (violation) | Does a stop silence what was asked for before it? Is playback over when the session is told so? | The engine of `voice_engine`: no. |
| `voice_settings_reverted` (violation) | Is a leftover configuration imported once? | Two starts and one save: no. |
| `surfaces` | Do devices, the bot, tools, starting processes, sign-ins and editors of files leave what they share whole? | Two devices and up to 3 chats of theirs; 2 updates and a crash beside one device that deletes all its chats or the bot's, so an update is delivered twice; 3 turns over one fact; 3 starts of 2 processes, 3 versions, one death or lost connection, and a lock left behind at any of them; 2 browsers against a maximum of 2 wrong passwords; 2 MCP servers, 2 edits by two requests of one process, one of another and the command, one halt. |
| `settings` | Do services, databases, the key, the models and the choice stay consistent while requests overlap and fail? | *Services*: two requests at a time, three in all, the pair projects-api/projects-mcp beside PostgreSQL, one failure. *Toolbox*: two connections of two versions and two callers of one process, or one connection and two processes; one failure or dropped request. *Key*: three processes, two keys, two secrets. *Models*: 2 names, 4 rows, 2 changes of the list. *Choice*: two of a kind and one without catalogue, one prompt or edit beside one failure. |
| `clients` | Does the page show what belongs to it, does the terminal keep answers with their questions, is what is assembled what was meant, does the user stay signed in? | *Page*: two chats, two runs, two deltas, or a call beside one run. *Settings* and *talk* of the terminal. *Stream*: four protocols, one text, two calls, one piece each, streamed or in one body. *Credentials*: three requests of two managers, three pairs. |
| `stream_call_lost` (violation) | Is a streamed reply accumulated whole? | Two calls of one tool in an Ollama stream: no. |

Some subjects are narrowed in their MC module, each with a comment there: in `settings` the
catalogue ages only while Compose does not answer, an installation with old marks, or one where saves
overlapped or failed, serves one request less, two processes publish one connection, a model table that
may be empty for a good reason is not continued, and among the choices there is one prompt or one edit
and one request for a particular model; in `voice_engine` a failed device makes one sound less; in
`surfaces` the device beside the bot ends its request where the bot is no longer concerned, and the bot
meets a session that cannot be loaded or an end of its process, not both; in `clients`
a voice call comes beside one run, and after a change that excuses the property a behaviour ends. What
is cut are states in which a property's exception already
holds, or products of independent events.

Deadlock is not checked where everybody may be done: no turn left to run, no request left,
a stream that ended, settings that are left alone. Every action fires in some passing run,
and each property of a passing run is paired in `PROJECT.json` with a mutant that breaks it.

### Exceptions in properties

A history variable excuses a state only for a reason the code's authors would accept or that
a finding or section 5 names:

- `raced` (somebody was connecting with an older configuration when the file changed), `unseen` (the
  file was written elsewhere and this process has not connected since);
- `overtaken` (a load replaced the conversation), `cleared` (the same in the terminal);
- `overlapped` (two programs edit a file: the command, or the settings of two processes);
- `deleted` (a device archived the bot's chat by its id);
- `spoiled` (a first start died inside `init.sql`, an older database was taken for an empty one, or a
  start lost the connection that held its lock);
- `cut` and `excused` (a statement failed or a user asked for it), `lost` (a token pair never reached
  the store);
- `blind` (since the last sync began something failed or was dropped and nobody was told, or that
  sync ran beside one of another process);
- `touched` (another request wrote meanwhile), `crossed` (the prompt was written while a request held
  an older copy of the file);
- `faults` (the audio device failed: `SpeakingIsLeft` is not claimed then).

The property's comment says which.

### Fairness

- `reply`: each started turn takes its next step if it can. The mutex is fair (Tokio's),
  which `Acquire` models. The provider is assumed to answer: no timeout bounds it in the
  code, which is listed as a hazard. Nothing forces clients to send, leave or crash, nor late
  statements to run. A slow reader is no part of this property: the turn sends into a queue without
  a bound and waits for nobody (`Send` in `StreamRelay`).
- `mcp`: tasks run, timers fire and the child keeps reading its stdin. The last is
  needed: a write has no timeout of its own, and behind a pipe that stays full every request waits
  for ever, which this run does not show. The child need not answer, ask or exit. For the
  table, tasks run, failures expire and turns keep coming; edits and mishaps are
  bounded, so "the settings are left alone in the end" is part of the instance.
- `voice_engine`: the engine's and the player's thread run, and recognition and the model
  answer: both are awaited on the engine's thread without a timeout. A daemon that runs goes
  on, and a client that has connected sends its line or dies.
- `surfaces`: the bot's task runs and its container is restarted (`restart: unless-stopped`);
  failures are bounded.

## 4. What is proved

All theorems hold for every value of the constants that the named assumptions admit.

**`ReplyProofs`**. About `ToolLoop` (`ToolLoopAssumption`), `TypeCorrect` is the type invariant.
`HistoryCorrect` is `PairedHistory` and that no result stands without its request. Neither is
inductive: that a request misses results only while its calls run needs the place of the
cursor, so the invariant adds that, while calls run, the messages end with the request and
exactly `cursor - 1` results of `calls`, and that at all other times the last request is
complete. With that, `CallTool` appends the one result that is due and all other actions
append after a complete history or nothing. `RepliesAreProvisional` is the refinement `ImplementsReply`:
each step is a step of `ReplyStream` or a stutter under the mapping of section 2. It needs
`BubbleInv`, that the mapped text is empty wherever the next attempt may begin and that a turn
that does not stream sends nothing.

About `StreamRelay` (`StreamRelayAssumption`), `EventsAreConserved` and `VerdictIsHonest` are
`Conservation` and `HonestVerdict`, for channels of any depth and turns of any length.
The invariant `RelayInv` says what is where (`Kept`): the events the page has acted on, those
whose lines are written and not yet read, and those still behind in the body channel,
the relay's hand and the unbounded queue are together what the turn sent. The second group
is known by its halves: what the client keeps and the wire holds are the two halves of
each of its lines (`WholeOf`), so that a chunk that ends in the middle of a line (`Cutting`)
yields the events of its complete lines and leaves at most one half, which the next chunk
completes. `Spoken` adds that only the last event of an ended turn is a verdict.

**`ChatTurnProofs`** (`ChatTurnAssumption`). `TypeCorrect`; `OneLock`, that turns of a
process on a conversation never hold references to two locks; `Exclusion`, that two of them
are never inside. The invariant is `SharesRegistered`, every reference a turn holds is the
one the map registers for its process and conversation, and `HoldsItsLock`, a turn in its
critical section is the holder of the lock it refers to. The delicate step is
`Lookup`, which forgets locks nobody refers to: a registered lock that a turn still refers
to is alive by definition of `Alive`, so forgetting never separates two users.

About the rows, `Persisted` is `DoneIsPersisted`, for any number of processes: every step of a turn
walks without a row, writes one or stops (`Walks`, `Puts`, `Stops`), and the roles a
turn has written tell where it is (`WritesInOrder`, `RowsAreOwned`).
`Settled`, `WholeTurns` and `Serializes` are `SettledContext`, `TurnsDoNotInterleave` and the
refinement `ImplementsSerial`. They have the hypothesis `OneProcess`, all processes of the model
are one: the lock that serializes turns lives in a process, and `chat_two_processes` shows
what happens with two. There the turn inside a conversation is the only one (`Exclusion`), so its
message is the last of its rows until strays of cut turns follow (`QuestionIsLast`), what was
declared done is there whole (`HistoryIsWhole`), and of two turns with rows the earlier one
is finished (`EarlierIsFinished`). `Settled` holds for any limit: the history is the end of the messages
(`HistoryIsTheEnd`), and no turn has two rows of a role (`PutsOnce`), so a limit between the two rows of a
done turn takes the question and leaves the reply, as the first of the history but for strays.

**`VoiceProofs`**, engine and player (`AudioPlayerAssumption`, `VoiceEngineAssumption`). `TypeCorrect`;
`RecordingsAreFresh`; `ObserversAreTold`; `StopCuts`, that a stop cuts the sound that is
being written. The invariant of the player is that sounds wait in the order they were asked
for and behind the one the thread is at (`InOrder`), and that the sound that was cut has
begun and keeps the flag up while the thread is at it (`CutStands`). That of the session says
what the engine's place tells of the state (`Placed`), which observers may lag behind inside
one turn of the loop. `Paced` is not used: these properties do not depend on time. The device may fail
any number of times.

The detector (`HearingAssumption`). `DetectorAgrees` is `VadAgrees`. One more frame leaves unchanged what
the frames before it open and close, so a segment goes on, or this frame opens one, unless
it closes it (`OneMoreFrame`). `CountsVoiced` and `CountsSilent` say that the two counters are the
length of the run at the end of the frames, the second one only inside a segment.

**`ClientProofs`**, the page (`UiAssumption`). `ViewIsOwn` and `RepliesAreWhole` are `ShownBelongs`
and `ReplyIsWhole`. The invariant is `CurrentReply`: unless a load overtook the user, the reply of
the last run is for the conversation that is shown, and the bubble holds what was flushed of it
(`Assembled`: bubble and pending text together are what has arrived, and nothing is pending at the
end). It is inductive with what keeps runs apart: no stream is of a run to come (`FutureRuns`), who
waits for the server in the last run has sent nothing in it (`CallsWait`), and nothing is sent
without a conversation (`NoTalkYet`). So an answer that replaces the conversation is of a
run without a stream, or the run is over. A stream's own guard (`Heeded`) does the rest.

The terminal (no assumption). `AnswersAreInPlace` is `AnswersFollow`. The invariant is
`OneQuestion`, one question waits at a time and a new conversation is not begun meanwhile
unless it was `cleared`, and `QuestionIsStored`, what the turn in the background answers is
the last thing stored in the open conversation.

The credentials (no assumption about managers or locks). `SignedIn` is `StaysSignedIn`.
The invariant is `NewIsGood`: a refresh token that was given out and is not yet stored is
good and in nobody else's hands, whence spending a stored one never spends one that is
about to be stored; `LoginIsGood` says the same of a sign-in. The refresh lock is not needed
for this: it only spares requests.

**`StreamProofs`** (`AsmAssumption`, the bounds are naturals). `AnswersAreMeant` is
`AcceptedIsMeant`, for a reply of any length in any of the four protocols, cut anywhere. A state of
a parser is `Safe` if a stream that ended in it would be refused or be the whole reply. The
invariant `StreamReads` says that the tokens on their way lead the parser over safe states only
(`Reads`) to one that tells exactly what the provider has sent (`Telling`) and is between two
events unless the provider has closed; when the stream is broken, only that the way is safe.
`ReadsEvent` is the heart: from a parser between two events, the tokens of a framed event are all
safe, whatever the line ends, because the line and the data that are half read change nothing until
the blank line, and a stream that ends with them finds JSON that is cut, or the event itself.
`HearsAll` says what each protocol makes of an event: the calls of OpenAI at their index, the items
of Codex once, those of Ollama by their invented ids. With these, sending appends to the way
(`Sends`), a chunk of any length goes along it (`TakesChunk`), and the end of the stream finds a safe
parser (`EndMeans`), whose calls get their ids (`CompletedMeant`). An answer in one body is meant when
it arrived whole, and one of Codex that was cut is among the gaps (`CutAnswered`). What `Steps` and the two other
recursive functions compute for sequences of any length is proved without an induction
theorem: the least number at which a claim fails (`CountsUp`) exists since the naturals are
well-founded.

**`McpProofs`**, sessions over pipes (`McpStdioAssumption`). `TypeCorrect`; `AnswersAreOwn`, a request
only ever receives the answer to itself; `RegisteredWhileWaiting`, a waiting request is
registered or already answered, and an ended one is not registered. The invariant follows
a number on its whole way: numbers are unique and below the counter (`Numbered`), a
registered sender is under its request's number (`PendingIsOwn`), and whatever is in the
pipes, owed by the child or on its way back bears the number its request was given
(`Traceable`). Uniqueness makes the registered receiver of a reply the request it
is about; late replies to requests that timed out find no sender, and numbers are never used
again. `Answered` adds that a request has at most one message and is unregistered by it.
`LinesAreWhole` is `WholeLines`: who holds the lock of stdin is about to write (`Holding`), and in
the middle of a line its first half is the last thing the child was given (`HeadIsLast`).

Sessions over HTTP (`McpHttpAssumption`). `RequestsFollowTheHandshake` is
`RequestsAfterHandshake`. The invariant is `OwnedAlone`, whoever is in a handshake has a session
nobody else has and that is not in the table, with `SlotIsOpen` and `HeldIsOpen`: what is or was in
the table is ready and was greeted. So the second handshake that a request would make in a session
that is not ready (`http.rs:107`) never happens: sessions enter the table ready.

The session table. `TableServesTheFile` is `ServesTheFile`. The invariant is `ConfigLocked`,
whoever is between the write of the file and the drop of its session holds the settings' lock,
and that the session in the table is of the file (`Fresh`) or that editor is about to drop it
(`Dropping`). A connect that read the file before an edit is `StaleConnect`, which `Fresh`
excludes unless `raced`; a file written elsewhere leaves the session behind it `unseen` until a
connect installs or finds the one of the file, or the settings drop it.

**`SurfaceProofs`**, the bot beside any number of devices (no assumption). `ChatIsLeft`,
`ConfirmedSettled` and `LiveSessions` are `SomeChatIsLeft`, `ConfirmedWasSettled` and
`SessionIsLive`. The invariant has a part for each: `SomebodyLooks`, without a live local chat
some device has yet to look for one or to make one; `BatchIsARun` with `OffsetFollows`, the batch is
what was sent from the update at hand on, without a hole, and everything before it is settled,
so the offset it leaves behind confirms nothing open; `SessionsLive`, that a session in memory is
a row that stands (`Standing`: live, or archived by its id, which is `deleted`), except for the chat whose
`/clear` has just archived it. A statement of a device archives a row of Telegram by its id or not at all
(`StandingKept`, `StandingStays`).

The facts. `FactsSingle` is `FactsAreSingle`: for a fact that no two turns remembered at once there
is no row, or one, or one turn about to insert it (`SingleFact`).

The schema (`SchemaAssumption`). `StartsAreAccepted` and `OwnTextsKept` are `NoStartIsRefused` and
`OwnTextStays`. The invariant is `LockHeld`, who brings the schema up holds the advisory lock, unless a start has
lost the connection that held it (`spoiled`); a lock that is left behind only makes others wait, and
giving it back touches nobody else's (`Released`); `SchemaGrows`, the versions are a prefix of all
versions and what is missing of them is the work of whoever brings them up; and, with or without the
lock, `TextsKept`, a text the user chose is stored, or it is the persona that an
older database kept and nobody has copied yet (`NotCopied`). That a migration takes the least missing
version uses that the naturals are well-founded (`WFMin`).

The files of MCP servers (`FileAssumption`). `ServersStay` is `SavedStays`: a request at work holds
the lock of its process (`GuardHeld`), so until two programs overlap one at most edits (`Alone`), what it read is what was saved,
and the draft it renames is whole (`EditMeant`).

The sign-in (`WebAuthAssumption`). `GuessesLimited` is `GuessesAreBounded`, the history of the wrong
verdicts against what the server remembers: every one of the last window is remembered (`RecentKnown`),
so that the count which a login finds after its verification, below the maximum, leaves room for the
one it adds in each window that still runs; a window that has passed gains none.

**`SettingsProofs`**, the master key (`KeyAssumption`). `SecretsAlwaysOpen`. A process between two system
calls relies on what it saw: `MoveIsSafe` (while a key can still be moved, nobody is past
the place where one is looked for), `WriterIsAlone` (who created the file is the only one, and
nobody holds a key yet), `ReadersSawAFile` and `HoldersAgree` (who holds a key holds the one
in the file). So a key is created only where nothing is sealed, and replaced never.

The toolbox (no assumption). `ToolboxServesCurrent` is `ServedIsCurrent`. As long as a request
waits for a lock nothing is promised, for it will publish anew. When none waits, locks that are free
mean that files and server have the rows' versions (`AtRest`), and while one is held `Published`
says at each place of its holder what is already in step. There is one holder unless `blind`, which is set
when a sync begins beside another process's, and by what fails or is dropped without
anybody being told; the next sync that begins alone lowers it.

The rows of models. `ModelStaysActive` is `AModelStaysActive`. Row numbers are never reused
(`RowsKnown`); the active model has a row, or a request that deletes rows knows that it must choose
another (`Repairing`); and syncs in progress work from the same list, so that none deletes what
another inserted (`EditGood`).

The preferences. `PromptKept` is `PromptIsKept`: who holds a document that it will write back has
the last prompt in it (`PromptInHand`), at any interleaving of requests that each read the file,
wait for PostgreSQL and write the file whole. The user may write at any moment too; what is not
claimed is the prompt written while some request holds an older copy (`crossed`), for that request
writes its copy back: section 5.
`ChoicesStand` (`ChoiceAssumption`) is `ChoiceStands`: what an `Alone` request chose `Fits` the document
it wrote, then the one it reads again, and its provider stays in what it knows of PostgreSQL; the
resolution of a document that fits is what was chosen (`FitsIsAnswered`), and that of any is something
on offer (`ChosenIsOffered`). `Options` by name needs that Models.dev lists a name once.

The services (`HostAssumption`). `PairsKept` is `PairsMarkedTogether`. A configuration is well kept when
each service is in the file of its kind and its peer is the one of the catalogue or none
(`WellKept`). While all is calm at most one request saves (`OneSaver`), what it is about to
save has the pairs together, with their peers noted (`SaverKnows`, `Together`), and when none saves
both files are whole, or neither is there and no pair was marked yet (`Rested`). `BootTogether` is the
heart: a mark set without the peers of the catalogue still reaches both of a pair, because each of
them carries the other's name since the day they were marked.

**Only model-checked.** All liveness (out of the prover's reach) and the properties that the
code violates (section 5). Every safety invariant and action property of a passing run is also proved.

## 5. What the models found

Five sentences of documentation and comments say more than the code does; each has a run that
ends in a violation.

- `docs-app/content/en/http-api.md:86` promises that two surfaces in one conversation
  queue. The lock lives in a process; the server, the desktop application and the
  bot embed `ira-api` or `ira-store` each, over one database (`chat_two_processes`).
- `docs-app/content/en/ipc.md:25` and `ira-ctl` say that `stop` cancels listening or
  playback. The thread lowers the stop flag when it begins a sound (`player.rs:101`), so a
  stop that comes after the sound was asked for and before it begins is forgotten, and the
  sound plays to its end while the session is idle (`voice_stop_lost`).
- `session.rs:77` requires that the engine deliver the end of playback in order. A `speak`
  while a sound plays queues a second one; the end of the first is taken for the end of
  both (`engine.rs:129`), and the second plays while the session is idle
  (`voice_finish_out_of_order`).
- `ira-daemon/src/main.rs:15` says that a leftover `config.toml` is imported once. The
  import is repeated at each start at which four columns are at their defaults, and also
  writes others that a user may have set (`voice_settings_reverted`).
- `ira-llm/src/providers/mod.rs:167` says that a stream is accumulated into the complete
  response. The Ollama parser numbers the calls of each message from 0 and merges by that number,
  so a second message's call of the same tool takes the place of the first (`stream_call_lost`).

Behaviours the models lean on and no property states:

- `docs-app/content/en/http-api.md:71` promises that the error of a failed stream is
  stored. It is not when the turn fails before the user's message is stored, or when the
  error itself cannot be stored.
- The role `memory` that `chat_stream` gives its detached notes is not one the table accepts
  (`deploy/postgres/init.sql:57`), so these rows are always refused and the error dropped.
  `ChatTurn` therefore has no such rows.
- After an unreadable line the reader of an MCP session is gone while the child lives; the
  manager takes the session for alive, and each request waits its whole timeout.
- A request dropped in the middle of a line leaves the half line in stdin; `WholeLines`
  makes this one exception. A dropped request stays registered until its reply comes.
- `delete_chat` and `open_chat` take any id: a chat of Telegram that a device deletes is archived while
  the bot's session still names it, and what follows is written to an archived conversation
  (`SessionIsLive` excuses it by `deleted`).
- `migrate` ignores the result of its unlock, which runs on whichever of the pool's five connections is
  free (`ira-store/src/migrate.rs:49`): the lock may stay with another until it closes, and the next start
  waits for that long. `NoStartIsRefused` claims nothing of when a start comes up.
- The settings' lock and the lock of the toolbox belong to one process. Server and desktop that edit the
  MCP file at once lose one of the edits; two that publish at once may leave an older rendering in the
  Toolbox, shown as working, until the next sync.
- The `ira` command changes the MCP file and drops no session of a running server, which serves the older
  configuration until its next connect.
- A handler dropped between the result of a database test and the sync (`ira-api/src/lib.rs:863`) leaves a
  connection shown as working that was never published.
- `snapshot` reads the file, waits for Models.dev, and writes its copy back: a prompt the user wrote
  meanwhile is lost (`ira-api/src/lib.rs:597-602`).
- The history is the last 80 messages: the oldest turn in it may be a reply without its question.
- A Codex answer that is not streamed is accepted wherever its body ends
  (`ira-llm/src/providers/codex/client.rs:343`); the streaming reader requires `response.completed`.
- When the player's device does not open, nothing is played and the session stays in Speaking until a
  command or an interruption: the engine ignores what `play` returns (`engine.rs:197`, `230`).
- A server deleted while a turn connects to it comes back to the table as an unused
  session (`ServesTheFile` excludes the race by `raced`).
- The comment of `set_service` (`ira-api/src/lib.rs:253`) says that it reconfigures a service.
  A new port is written down, but a container that runs keeps the one it has:
  `up --no-recreate` leaves it as it is.
- `docs-app/content/en/database.md:57` says that stored keys are exported without overwriting
  exported ones; the comment of `apply_secrets_to_env` (`ira-store/src/secrets.rs`) says that
  the database wins.
- `init.sql` records versions 1-4, 11, 13 and 14 only, so the second start of a fresh
  installation runs the others, of which 7 changes an effort a user may have chosen.
- A daemon removes the socket's path at its end, also when a newer daemon has it
  (`ira-daemon/src/main.rs:223`); the newer one then runs unreachable. `ira-ipc` leaves this to
  the caller (`lib.rs:70`). `EveryCommandEnds` allows it: later commands fail at once.

## 6. What is not modelled

Texts, arguments and formats; durations (a timeout may fire whenever somebody waits); SQL
and encryption; the inside of providers, tools and MCP servers. Of the parts with a module,
`PROJECT.json` says in each component's note what is left out: panels and drawing of the
interfaces, the construction of provider requests, discovery and status of services, recipes
of MCP servers, recognition and synthesis (single requests that appear as delays).

Without a module are: the realtime voice service, a pipeline whose order of events is decided
by an external framework (the page's side of a call is in `ChatSurface`); `ira-pgjson`,
`ira-code` and `ira-engine` (conversions, one command, stubs); the projects service (handlers
of one SQL statement each); the tools in `crates/tools` (requests to outside services without
state of their own); the site and the deployment.

## 7. What could follow

- The role of the settings' lock across processes once one exists: `overlapped` would go.
- A module for the installation of MCP recipes, where the presence of `.git` is taken for a
  finished clone (`recipe.rs:122`).
