----------------------------- MODULE VoiceSettings -----------------------------
(***************************************************************************)
(* The voice settings in the database, between the voice daemon, which     *)
(* imports config.toml when it starts (import_toml_if_needed,              *)
(* ira-daemon/src/main.rs), and the users who change them (DbOp,           *)
(* ira-store/src/lib.rs).  Nothing records that an import was done: the    *)
(* columns it looks at are at their defaults, or not.                      *)
(*                                                                         *)
(* Abstracted: values, to who they are of.                                 *)
(***************************************************************************)
EXTENDS Naturals, Sequences

CONSTANTS
  MaxRuns,  \* bound: starts of the daemon
  MaxSaves  \* bound: settings the users change

VARIABLES
  column,   \* the settings: a default, the file's, or a user's own
  toml,     \* the values of config.toml, or of its absence: all defaults
  import,   \* the next statement of the import; 0: none runs
  runs, saves,
  imported, \* history: an import was completed
  own       \* history: the columns that a user has changed since

settingsVars == <<column, toml, import, runs, saves, imported, own>>

Columns == {"devices", "hangover", "barge in", "language", "voice"}

\* The ones that tell whether the user, or an import, has been here.
Marks == {"devices", "hangover", "voice"}

\* One statement each: of the import, and of an operation of the users.
Statements == <<{"devices"}, {"hangover", "barge in"}, {"language"}, {"voice"}>>

\* The settings of a new installation.
Stub == [k \in Columns |-> "default"]

\* FileConfig::load: what the file does not say is at the default; a file that is not there,
\* or cannot be read, says nothing.
FromFile(said) == [k \in Columns |-> IF k \in said THEN "file" ELSE "default"]

Init ==
  /\ column = Stub
  /\ \E said \in SUBSET Columns : toml = FromFile(said)
  /\ import = 0
  /\ runs = 0 /\ saves = 0
  /\ imported = FALSE /\ own = {}

Written(n, to) == column' = [k \in Columns |-> IF k \in Statements[n] THEN to[k] ELSE column[k]]

StillDefault == \A k \in Marks : column[k] = "default"

\* The snapshot decides; once it has, the import runs to its end, or the start fails.
StartDaemon ==
  /\ import = 0 /\ runs < MaxRuns
  /\ runs' = runs + 1
  /\ import' = IF StillDefault THEN 1 ELSE 0
  /\ UNCHANGED <<column, toml, saves, imported, own>>

ImportStatement ==
  /\ import # 0
  /\ Written(import, toml)
  /\ import' = IF import = Len(Statements) THEN 0 ELSE import + 1
  /\ imported' = (imported \/ import = Len(Statements))
  /\ UNCHANGED <<toml, runs, saves, own>>

ImportFails ==
  /\ import # 0 /\ import' = 0
  /\ UNCHANGED <<column, toml, runs, saves, imported, own>>

\* SetVoiceAudio, SetVad, SetSttLanguage and SetVoiceSystem.
Save ==
  /\ saves < MaxSaves /\ saves' = saves + 1
  /\ \E n \in DOMAIN Statements :
       \E to \in [Statements[n] -> {"default", "own"}] :
         /\ Written(n, to)
         /\ own' = IF imported /\ import = 0
                     THEN (own \ Statements[n]) \union {k \in Statements[n] : to[k] = "own"}
                     ELSE own
  /\ UNCHANGED <<toml, import, runs, imported>>

Next == StartDaemon \/ ImportStatement \/ ImportFails \/ Save

Spec == Init /\ [][Next]_settingsVars

\* config.toml is imported once: once it has been, what a user sets stays.
ImportedOnce == \A k \in own : column[k] = "own"

===============================================================================
