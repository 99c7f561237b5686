----------------------------- MODULE MC_Surfaces -----------------------------
(***************************************************************************)
(* The surfaces that share a database and the files of MCP servers, and    *)
(* what stands before them: processes that prepare the database as they    *)
(* start, the sign-in, several devices over the local conversations, the   *)
(* bot beside a device that deletes them, the tools over the facts,        *)
(* settings of two processes and the ira command over the files.  A        *)
(* behaviour is one of the six.                                            *)
(*                                                                         *)
(* Three starts of two processes let one find what the other left; two     *)
(* verifications at once overrun a maximum of two; two MCP servers let an  *)
(* edit of one lose the other.                                             *)
(***************************************************************************)
EXTENDS TelegramBot, FactStore, Schema, WebAuth, McpFile

CONSTANT OneDevice  \* the device beside the bot

VARIABLE subject

MCKeys == {Persona, "tools"}

MCInit ==
  /\ subject \in {"devices", "bot", "facts", "schema", "web", "files"}
  /\ BotInit /\ FactInit /\ SchemaInit /\ WebInit /\ FileInit
  /\ subject # "schema" => old = FALSE
  /\ subject # "files" => disk["global"] = Nothing

\* The bot runs beside one request that archives every local conversation, or one of the bot.
MCBegin == subject = "bot" /\ Begin(OneDevice) /\ at'[OneDevice] \in {"archive", "archive all"}

\* What a deletion does next, it does among the devices.
MCDeletion ==
  /\ at[OneDevice] = "archive" => UNCHANGED at \/ deleted' # deleted
  /\ at[OneDevice] = "list" /\ deleted # {} => UNCHANGED at

\* A session that cannot be loaded and an end of the process are met apart.
MCOneFailure == faults' = 0 \/ crashes' = 0

MCNext ==
  \/ /\ subject = "devices" /\ StoreNext
     /\ UNCHANGED <<botVars, factVars, schemaVars, authVars, fileVars, subject>>
  \/ /\ subject = "bot" /\ BotNext(OneDevice) /\ MCDeletion /\ MCOneFailure
     /\ UNCHANGED <<factVars, schemaVars, authVars, fileVars, subject>>
  \/ /\ MCBegin /\ sent = <<>>
     /\ UNCHANGED <<botVars, factVars, schemaVars, authVars, fileVars, subject>>
  \/ /\ subject = "facts" /\ FactNext
     /\ UNCHANGED <<storeVars, botVars, schemaVars, authVars, fileVars, subject>>
  \/ /\ subject = "schema" /\ SchemaNext
     /\ UNCHANGED <<storeVars, botVars, factVars, authVars, fileVars, subject>>
  \/ /\ subject = "web" /\ WebNext
     /\ UNCHANGED <<storeVars, botVars, factVars, schemaVars, fileVars, subject>>
  \/ /\ subject = "files" /\ FileNext
     /\ UNCHANGED <<storeVars, botVars, factVars, schemaVars, authVars, subject>>

MCVars == <<storeVars, botVars, factVars, schemaVars, authVars, fileVars, subject>>

\* The bot's task runs, and its container is restarted.
MCSpec ==
  /\ MCInit /\ [][MCNext]_MCVars
  /\ WF_MCVars(/\ subject = "bot" /\ BotStep
               /\ UNCHANGED <<factVars, schemaVars, authVars, fileVars, subject>>)

==============================================================================
