----------------------------- MODULE ModelCatalog -----------------------------
(***************************************************************************)
(* The catalogue of models (ira-store/src/lib.rs: apply, sync_ollama_-     *)
(* providers and replace_models; codex.rs: sync_codex_provider).  Edits    *)
(* of several surfaces and syncs with the server that runs the models are  *)
(* sequences of SQL statements without a transaction: each statement is a  *)
(* step, others run in between, and any may fail.                          *)
(*                                                                         *)
(* Abstracted: names (numbers, in the order of ORDER BY name), what a      *)
(* provider has besides its models (key, URL, kind), prompts, voice and    *)
(* tool settings (one UPDATE each of columns nobody else reads here); a    *)
(* renamed provider; and the effort kept in the settings and in the model  *)
(* alike, which ModelChoice resolves.                                      *)
(* External: the list of the server, which changes when it likes.          *)
(***************************************************************************)
EXTENDS Naturals, FiniteSets

CONSTANTS
  Editors,       \* requests, each one at a time
  Synced,        \* the provider whose server lists its models
  Manual,        \* a provider edited by hand
  Names,         \* names of models, positive numbers
  MaxModels,     \* bound: rows ever inserted
  MaxLists,      \* bound: changes of the server's list
  MaxDbFaults    \* bound: statements that fail

VARIABLES
  models,      \* the table: a set of [id, of, name]
  lastModel,   \* the last id given
  active,      \* settings.active_model_id, 0 for NULL
  listed,      \* what the server lists now
  edit,        \* per editor: the statement it is about to run, and what it has read
  lists, dbFaults,
  excused      \* history: a model may be gone for a reason (see AModelStaysActive)

catalogVars == <<models, lastModel, active, listed, edit, lists, dbFaults, excused>>

Providers == {Synced, Manual}
NoEdit == [pc |-> "idle"]

Of(p) == {m \in models : m.of = p}
NamesOf(ms) == {m.name : m \in ms}
ModelIds == {m.id : m \in models}
First(S) == CHOOSE n \in S : \A m \in S : n <= m

CatalogInit ==
  /\ models = {[id |-> 1, of |-> Synced, name |-> First(Names)], [id |-> 2, of |-> Manual, name |-> First(Names)]}
  /\ lastModel = 2
  /\ active \in {1, 2}
  /\ listed = {First(Names)}
  /\ edit = [c \in Editors |-> NoEdit]
  /\ lists = 0 /\ dbFaults = 0 /\ excused = FALSE

Pc(c, pc) == edit[c].pc = pc
Step(c, pc) == edit' = [edit EXCEPT ![c].pc = pc]
Done(c) == edit' = [edit EXCEPT ![c] = NoEdit]
Syncing == {c \in Editors : ~Pc(c, "idle")}
Deciding == {c \in Editors : edit[c].pc \in {"insert", "delete"}}

\* ON DELETE SET NULL.
Without(ms) ==
  /\ models' = models \ ms
  /\ active' = IF active \in {m.id : m \in ms} THEN 0 ELSE active

\* UNIQUE (provider_id, name).
InsertModel(p, name) ==
  /\ lastModel < MaxModels
  /\ models' = models \cup {[id |-> lastModel + 1, of |-> p, name |-> name]}
  /\ lastModel' = lastModel + 1

----------------------------------------------------------------------------
\* apply: the edits.

NewModel(c, p) ==
  /\ Pc(c, "idle")
  /\ \E n \in Names \ NamesOf(Of(p)) : InsertModel(p, n)
  /\ UNCHANGED <<active, listed, edit, lists, dbFaults, excused>>

DeleteModel(c) ==
  /\ Pc(c, "idle")
  /\ \E m \in models : Without({m})
  /\ excused' = TRUE
  /\ UNCHANGED <<lastModel, listed, edit, lists, dbFaults>>

\* DeleteProvider takes its models with it.
DeleteProvider(c) ==
  /\ Pc(c, "idle")
  /\ Without(Of(Manual))
  /\ excused' = TRUE
  /\ UNCHANGED <<lastModel, listed, edit, lists, dbFaults>>

\* ActivateModel: the id of a list that may be old by now; the foreign key refuses it then.
ActivateModel(c) ==
  /\ Pc(c, "idle")
  /\ \E i \in ModelIds : active' = i
  /\ excused' = (excused \/ Deciding # {})
  /\ UNCHANGED <<models, lastModel, listed, edit, lists, dbFaults>>

\* ActivateProvider: its first model by name, or none; then a sync.
ActivateProvider(c, p) ==
  /\ Pc(c, "idle")
  /\ LET ms == Of(p) IN
     edit' = [edit EXCEPT ![c] =
                [pc |-> "activate", pick |-> IF ms = {} THEN 0
                                             ELSE (CHOOSE m \in ms : m.name = First(NamesOf(ms))).id]]
  /\ UNCHANGED <<models, lastModel, active, listed, lists, dbFaults, excused>>

\* set_active, from the edit or from the sync.  A row that is gone is refused.
SetActive(c) ==
  /\ edit[c].pc \in {"activate", "reactivate"}
  /\ LET id == edit[c].pick IN
     IF id \in ModelIds \cup {0}
       THEN /\ active' = id
            /\ IF Pc(c, "activate") THEN Step(c, "list") ELSE Done(c)
            /\ excused' = (excused \/ id = 0 \/ (Pc(c, "activate") /\ Deciding # {}))
       ELSE Done(c) /\ UNCHANGED <<active, excused>>
  /\ UNCHANGED <<models, lastModel, listed, lists, dbFaults>>

----------------------------------------------------------------------------
\* sync_ollama_providers and sync_codex_provider, and replace_models.

StartSync(c) ==
  /\ Pc(c, "idle")
  /\ edit' = [edit EXCEPT ![c] = [pc |-> "list"]]
  /\ UNCHANGED <<models, lastModel, active, listed, lists, dbFaults, excused>>

\* The server answers, or it is skipped.  From here the list may be old.
ListModels(c) ==
  /\ Pc(c, "list")
  /\ \/ edit' = [edit EXCEPT ![c] = [pc |-> "existing", names |-> listed]]
     \/ Done(c)
  /\ UNCHANGED <<models, lastModel, active, listed, lists, dbFaults, excused>>

ReadExisting(c) ==
  /\ Pc(c, "existing")
  /\ edit' = [edit EXCEPT ![c] = [pc |-> "active", names |-> edit[c].names, existing |-> Of(Synced)]]
  /\ UNCHANGED <<models, lastModel, active, listed, lists, dbFaults, excused>>

\* active_was_ours and active_name.
Ours(c) == {m \in edit[c].existing : m.id = active}

ReadActive(c) ==
  /\ Pc(c, "active")
  /\ edit' = [edit EXCEPT ![c] = [pc |-> "insert", names |-> edit[c].names,
                                  existing |-> edit[c].existing, ours |-> Ours(c),
                                  missing |-> edit[c].names \ NamesOf(edit[c].existing),
                                  gone |-> {m \in edit[c].existing : m.name \notin edit[c].names}]]
  /\ UNCHANGED <<models, lastModel, active, listed, lists, dbFaults, excused>>

\* One INSERT after the other; a name that somebody else inserted ends the sync.
InsertMissing(c) ==
  /\ Pc(c, "insert")
  /\ LET e == edit[c] IN
     IF e.missing = {} THEN Step(c, "delete") /\ UNCHANGED <<models, lastModel>>
     ELSE IF First(e.missing) \in NamesOf(Of(Synced)) THEN Done(c) /\ UNCHANGED <<models, lastModel>>
     ELSE /\ InsertModel(Synced, First(e.missing))
          /\ edit' = [edit EXCEPT ![c].missing = @ \ {First(@)}]
  /\ UNCHANGED <<active, listed, lists, dbFaults, excused>>

DeleteGone(c) ==
  /\ Pc(c, "delete")
  /\ IF edit[c].gone = {}
       THEN Step(c, "choose") /\ UNCHANGED <<models, active>>
       ELSE \E m \in edit[c].gone :
              /\ Without({m})
              /\ edit' = [edit EXCEPT ![c].gone = @ \ {m}]
  /\ UNCHANGED <<lastModel, listed, lists, dbFaults, excused>>

\* Mutant: choose among what the catalogue had.
PreferredOld(c) == NamesOf(edit[c].existing)

\* keep, or pick_preferred: the name that was active, or one of the list.
Preferred(c) ==
  LET kept == NamesOf(edit[c].ours) \cap edit[c].names
  IN IF kept # {} THEN kept ELSE edit[c].names

Choose(c) ==
  /\ Pc(c, "choose")
  /\ LET found == {m \in Of(Synced) : m.name \in Preferred(c)} IN
     IF edit[c].ours = {} \/ found = {} THEN Done(c)
     ELSE \E m \in found : edit' = [edit EXCEPT ![c] = [pc |-> "reactivate", pick |-> m.id]]
  /\ UNCHANGED <<models, lastModel, active, listed, lists, dbFaults, excused>>

----------------------------------------------------------------------------
\* A statement fails: its request ends with the error, what was done stays done.
DbFault(c) ==
  /\ ~Pc(c, "idle") /\ dbFaults < MaxDbFaults
  /\ dbFaults' = dbFaults + 1
  /\ Done(c)
  /\ excused' = TRUE
  /\ UNCHANGED <<models, lastModel, active, listed, lists>>

\* External: the user of the server adds or removes a model there.
ServerChanges ==
  /\ lists < MaxLists /\ lists' = lists + 1
  /\ \E names \in SUBSET Names : listed' = names
  /\ excused' = (excused \/ listed' = {} \/ Syncing # {})
  /\ UNCHANGED <<models, lastModel, active, edit, dbFaults>>

SyncModels(c) ==
  \/ StartSync(c) \/ ListModels(c) \/ ReadExisting(c) \/ ReadActive(c)
  \/ InsertMissing(c) \/ DeleteGone(c) \/ Choose(c) \/ SetActive(c)

EditModels(c) ==
  \/ \E p \in Providers : NewModel(c, p) \/ ActivateProvider(c, p)
  \/ DeleteModel(c) \/ DeleteProvider(c) \/ ActivateModel(c)

CatalogNext == (\E c \in Editors : SyncModels(c) \/ EditModels(c) \/ DbFault(c)) \/ ServerChanges

CatalogSpec == CatalogInit /\ [][CatalogNext]_catalogVars

----------------------------------------------------------------------------
\* The assistant is never left without a model: when no request is under way, some model is
\* active, however syncs and edits overlapped and however often the server's list changed,
\* unless a user deleted models or chose a provider without any, a statement failed, or
\* the server's list was empty or changed in the middle of a sync.
AModelStaysActive == Syncing = {} /\ ~excused => active \in ModelIds
==============================================================================
