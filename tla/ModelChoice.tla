----------------------------- MODULE ModelChoice -----------------------------
(***************************************************************************)
(* Which model answers (ira-api: snapshot, apply, apply_model_preference,  *)
(* apply_models_dev, absorb_local_prompt, update_web_search; preferences.rs*)
(* and models_dev.rs).  The choice is kept in config.toml, what exists in  *)
(* PostgreSQL, and what may be chosen comes from Models.dev.  A request    *)
(* reads the file, waits for the other two, and writes the whole of the    *)
(* assistant's table back, while other requests do the same.               *)
(*                                                                         *)
(* Abstracted: names; the file is one record, a snapshot what it says of   *)
(* the choice.  External: Models.dev (a catalogue that stays, with its     *)
(* cache), the user who writes into the file.                              *)
(***************************************************************************)
EXTENDS Naturals, Sequences, SequencesExt

CONSTANTS
  Asks,          \* requests, each one at a time
  ProviderKind,  \* providers (1..n, in their order) and their kinds
  Keyed,         \* the providers with a key
  SourceOf,      \* kinds and their source in Models.dev, "none" if it has none
  Offers,        \* sources and what they offer: sequences of [name, efforts]
  MaxAsks,       \* bound: requests that begin
  MaxWrites,     \* bound: prompts the user writes into the file
  MaxEdits,      \* bound: providers deleted, and changes of the web search
  MaxChoiceFaults  \* bound: statements that fail

\* Models.dev lists a model under its id, once.
ASSUME ChoiceAssumption ==
  /\ Len(ProviderKind) \in Nat \ {0} /\ DOMAIN ProviderKind = 1..Len(ProviderKind)
  /\ \A p \in DOMAIN ProviderKind : SourceOf[ProviderKind[p]] \in DOMAIN Offers \cup {"none"}
  /\ \A s \in DOMAIN Offers :
       /\ Offers[s] \in Seq(ToSet(Offers[s]))
       /\ \A o \in ToSet(Offers[s]) : o.efforts \in Seq(ToSet(o.efforts))
       /\ \A o, q \in ToSet(Offers[s]) : o.name = q.name => o = q

VARIABLES
  document,      \* config.toml: [kind, provider, model, effort, prompt, web]
  persona,       \* the prompt in PostgreSQL, 0 for the one of the installation
  providers,     \* the providers in PostgreSQL
  dbActive,      \* the model that is active there: [provider, model]
  request,       \* per request: [pc, then, op, prefs, snap, touched, answer]
  begun, written, edits, choiceFaults,
  crossed        \* history: the user wrote the last prompt while a request held an older copy

choiceVars == <<document, persona, providers, dbActive, request, begun, written, edits, choiceFaults,
                crossed>>

NoChoice == [provider |-> 0, model |-> "none"]
NoAnswer == [provider |-> 0, model |-> "none", effort |-> "none"]
Operation(kind, p, m, e) == [kind |-> kind, provider |-> p, model |-> m, effort |-> e]
ShowOp == Operation("show", 0, "none", "none")
Unset == [kind |-> "none", provider |-> 0, model |-> "none", effort |-> "none", prompt |-> 0, web |-> TRUE]
Waiting == [pc |-> "idle", then |-> "show", op |-> ShowOp, prefs |-> Unset,
            snap |-> [rows |-> {}, active |-> NoChoice], touched |-> FALSE, answer |-> NoAnswer]

----------------------------------------------------------------------------
\* apply_models_dev.

Offered(p) == IF SourceOf[ProviderKind[p]] = "none" THEN <<>> ELSE Offers[SourceOf[ProviderKind[p]]]
Options(p, m) == (CHOOSE o \in ToSet(Offered(p)) : o.name = m).efforts
FirstEffort(p, m) == IF Options(p, m) = <<>> THEN "none" ELSE Options(p, m)[1]
Choice(p, m) == [provider |-> p, model |-> m]

\* The provider of a candidate: the preferred one, else for Codex one with a key, else the
\* first of its kind.  0 if there is none.
ProviderFor(ps, preferred, kind) ==
  LET alike == {p \in ps : ProviderKind[p] = kind}
      keyed == {p \in alike : kind = "codex" /\ p \in Keyed}
  IN IF preferred \in alike THEN preferred
     ELSE IF keyed # {} THEN Min(keyed)
     ELSE IF alike # {} THEN Min(alike) ELSE 0

\* Mutant: what PostgreSQL has active goes first.
CandidatesDbFirst(prefs, snap) ==
  <<[kind |-> IF snap.active.provider \in snap.rows THEN ProviderKind[snap.active.provider] ELSE "none",
     provider |-> snap.active.provider, model |-> snap.active.model],
    [kind |-> prefs.kind, provider |-> prefs.provider, model |-> prefs.model]>>

\* What the file prefers, then what PostgreSQL has active.
Candidates(prefs, snap) ==
  <<[kind |-> prefs.kind, provider |-> prefs.provider, model |-> prefs.model],
    [kind |-> IF snap.active.provider \in snap.rows THEN ProviderKind[snap.active.provider] ELSE "none",
     provider |-> snap.active.provider, model |-> snap.active.model]>>

\* A candidate is offered; the first model of a provider.
Found(c, ps) ==
  LET p == ProviderFor(ps, c.provider, c.kind)
  IN p # 0 /\ \E o \in ToSet(Offered(p)) : o.name = c.model
FirstOf(p) == Choice(p, Offered(p)[1].name)

\* chosen: the first candidate that is offered, else the first model that any provider offers.
Chosen(prefs, snap) ==
  LET candidates == Candidates(prefs, snap)
      found == {i \in DOMAIN candidates : Found(candidates[i], snap.rows)}
      c == candidates[Min(found)]
      offering == {p \in snap.rows : Offered(p) # <<>>}
  IN IF found # {} THEN Choice(ProviderFor(snap.rows, c.provider, c.kind), c.model)
     ELSE IF offering # {} THEN FirstOf(Min(offering)) ELSE NoChoice

Preferring(prefs, p, m, e) ==
  [prefs EXCEPT !.kind = ProviderKind[p], !.provider = p, !.model = m, !.effort = e]

\* The preferences with a choice; the effort stays if the model has it.
With(prefs, c) ==
  IF c = NoChoice THEN prefs
  ELSE Preferring(prefs, c.provider, c.model,
                  IF prefs.effort \in ToSet(Options(c.provider, c.model)) THEN prefs.effort
                                                                           ELSE FirstEffort(c.provider, c.model))

Resolved(prefs, snap) == With(prefs, Chosen(prefs, snap))

Told(prefs, c) ==
  IF c = NoChoice THEN NoAnswer ELSE [provider |-> c.provider, model |-> c.model, effort |-> With(prefs, c).effort]

AnswerOf(prefs, snap) == Told(prefs, Chosen(prefs, snap))

----------------------------------------------------------------------------
\* The requests.

ChoiceInit ==
  /\ document \in {Unset, [Unset EXCEPT !.kind = ProviderKind[1], !.model = "a"]}
  /\ persona = 0
  /\ providers = DOMAIN ProviderKind
  /\ dbActive \in {Choice(1, "b"), Choice(Len(ProviderKind), "local")}
  /\ request = [r \in Asks |-> Waiting]
  /\ begun = 0 /\ written = 0 /\ edits = 0 /\ choiceFaults = 0 /\ crossed = FALSE

Is(r, pc) == request[r].pc = pc

\* The request goes on; what it wrote meets the others that are under way.
Goes(r, a) == request' = [request EXCEPT ![r] = a]
Writes(r, a) == request' = [x \in Asks |-> IF x = r THEN a ELSE [request[x] EXCEPT !.touched = @ \/ request[x].pc # "idle"]]
Fails(r) ==
  /\ choiceFaults < MaxChoiceFaults /\ choiceFaults' = choiceFaults + 1
  /\ Goes(r, Waiting)

\* A request of the user, from what an earlier snapshot listed.
Ops ==
  {ShowOp}
  \cup {Operation("provider", p, "none", "none") : p \in DOMAIN ProviderKind}
  \cup (UNION {{Operation("model", p, o.name, "none") : o \in ToSet(Offered(p))} : p \in DOMAIN ProviderKind})
  \cup {Operation("model", Len(ProviderKind), "local", "none")}
  \cup (UNION {{Operation("effort", p, Offered(p)[1].name, e) : e \in ToSet(Offered(p)[1].efforts)} :
                 p \in {p \in DOMAIN ProviderKind : Offered(p) # <<>>}})

Begin(r) ==
  /\ request[r].pc \in {"idle", "answered"} /\ begun < MaxAsks /\ begun' = begun + 1
  /\ \E op \in Ops : Goes(r, [Waiting EXCEPT !.pc = "load", !.op = op,
                                             !.then = IF op.kind = "show" THEN "show" ELSE "prefer"])
  /\ UNCHANGED <<document, persona, providers, dbActive, written, edits, choiceFaults, crossed>>

\* preferences_for_turn: load, and take the prompt out of the file.
LoadPreferences(r) ==
  /\ Is(r, "load")
  /\ Goes(r, [request[r] EXCEPT !.prefs = document, !.pc = IF document.prompt = 0 THEN "read" ELSE "upsert"])
  /\ UNCHANGED <<document, persona, providers, dbActive, begun, written, edits, choiceFaults, crossed>>

\* Mutant: the prompt leaves the file although it was not stored.
UpsertAnyway(r) ==
  \/ persona' = request[r].prefs.prompt /\ Goes(r, [request[r] EXCEPT !.pc = "clear"]) /\ UNCHANGED choiceFaults
  \/ choiceFaults < MaxChoiceFaults /\ choiceFaults' = choiceFaults + 1
     /\ Goes(r, [request[r] EXCEPT !.pc = "clear"]) /\ UNCHANGED persona

Upserted(r) ==
  \/ persona' = request[r].prefs.prompt /\ Goes(r, [request[r] EXCEPT !.pc = "clear"]) /\ UNCHANGED choiceFaults
  \/ Fails(r) /\ UNCHANGED persona

Upsert(r) ==
  /\ Is(r, "upsert") /\ Upserted(r)
  /\ UNCHANGED <<document, providers, dbActive, begun, written, edits, crossed>>

ClearPrompt(r) ==
  /\ Is(r, "clear")
  /\ LET q == [request[r].prefs EXCEPT !.prompt = 0] IN
     document' = q /\ Writes(r, [request[r] EXCEPT !.pc = "read", !.prefs = q])
  /\ UNCHANGED <<persona, providers, dbActive, begun, written, edits, choiceFaults, crossed>>

\* db::load: the rows there are, and the one that is active.
Loaded == [rows |-> providers, active |-> dbActive]

\* The catalogue of PostgreSQL; apply_model_preference reads the file again behind it.
ReadDb(r) ==
  /\ Is(r, "read")
  /\ Goes(r, [request[r] EXCEPT !.pc = request[r].then, !.snap = Loaded,
                                !.prefs = IF request[r].then = "prefer" THEN document ELSE @])
  /\ UNCHANGED <<document, persona, providers, dbActive, begun, written, edits, choiceFaults, crossed>>

\* snapshot, when Models.dev is there: what it resolves is written if the file says otherwise.
Show(r) ==
  /\ Is(r, "show")
  /\ LET a == request[r]
         q == Resolved(a.prefs, a.snap)
         done == [a EXCEPT !.pc = "answered", !.prefs = Unset, !.answer = AnswerOf(a.prefs, a.snap)]
     IN IF q # document THEN document' = q /\ Writes(r, done) ELSE Goes(r, done) /\ UNCHANGED document
  /\ UNCHANGED <<persona, providers, dbActive, begun, written, edits, choiceFaults, crossed>>

\* apply_model_preference: the choice is written and shown, or left to the database.
Prefer(r) ==
  /\ Is(r, "prefer")
  /\ LET a == request[r]
         op == a.op
         first == Offered(op.provider)[1].name
         m == IF op.kind = "provider" THEN first ELSE op.model
         known == /\ op.provider \in a.snap.rows /\ Offered(op.provider) # <<>>
                  /\ op.kind = "provider" \/ \E o \in ToSet(Offered(op.provider)) : o.name = op.model
                  /\ Chosen(a.prefs, a.snap) # NoChoice
     IN IF ~known THEN Goes(r, [a EXCEPT !.pc = "db"]) /\ UNCHANGED document
        ELSE LET q == Preferring(Resolved(a.prefs, a.snap), op.provider, m,
                                 IF op.kind = "effort" THEN op.effort ELSE FirstEffort(op.provider, m))
             IN document' = q /\ Writes(r, [a EXCEPT !.pc = "load", !.then = "show"])
  /\ UNCHANGED <<persona, providers, dbActive, begun, written, edits, choiceFaults, crossed>>

\* The database's own edit, for what Models.dev does not offer.
ApplyDb(r) ==
  /\ Is(r, "db")
  /\ LET a == request[r] IN
     \/ /\ a.op.provider \in providers /\ a.op.kind # "effort"
        /\ dbActive' = IF Offered(a.op.provider) = <<>> THEN Choice(a.op.provider, "local") ELSE NoChoice
        /\ Writes(r, [a EXCEPT !.pc = "adopt", !.snap = [Loaded EXCEPT !.active = dbActive']])
        /\ UNCHANGED choiceFaults
     \/ /\ a.op.provider \notin providers \/ a.op.kind = "effort"
        /\ Goes(r, Waiting) /\ UNCHANGED <<dbActive, choiceFaults>>
     \/ Fails(r) /\ UNCHANGED dbActive
  /\ UNCHANGED <<document, persona, providers, begun, written, edits, crossed>>

\* What is active there now is written into the file, and the answer resolved from it.
Adopt(r) ==
  /\ Is(r, "adopt")
  /\ LET a == request[r]
         q == IF a.snap.active = NoChoice THEN document
              ELSE [document EXCEPT !.kind = ProviderKind[a.snap.active.provider], !.provider = a.snap.active.provider,
                                    !.model = a.snap.active.model]
     IN document' = q /\ Writes(r, [a EXCEPT !.pc = "answered", !.prefs = Unset, !.answer = AnswerOf(q, a.snap)])
  /\ UNCHANGED <<persona, providers, dbActive, begun, written, edits, choiceFaults, crossed>>

\* update_web_search: load and save, with nothing to wait for between them.
UpdateWebSearch ==
  /\ edits < MaxEdits /\ edits' = edits + 1
  /\ document' = [document EXCEPT !.web = ~@]
  /\ request' = [x \in Asks |-> [request[x] EXCEPT !.touched = @ \/ request[x].pc # "idle"]]
  /\ UNCHANGED <<persona, providers, dbActive, begun, written, choiceFaults, crossed>>

\* The request writes the whole file back, from what it read before it waited.
HoldsCopy(a) == a.pc \in {"upsert", "clear", "show", "prefer"} \/ (a.pc = "read" /\ a.then = "show")

\* External: the user writes a prompt into the file; a provider is deleted.
WritePrompt ==
  /\ written < MaxWrites
  /\ written' = written + 1 /\ document' = [document EXCEPT !.prompt = written + 1]
  /\ crossed' = \E r \in Asks : HoldsCopy(request[r])
  /\ UNCHANGED <<persona, providers, dbActive, request, begun, edits, choiceFaults>>

DeleteProviderRow ==
  /\ edits < MaxEdits /\ edits' = edits + 1
  /\ \E p \in providers : providers' = providers \ {p} /\ dbActive' = IF dbActive.provider = p THEN NoChoice ELSE dbActive
  /\ request' = [x \in Asks |-> [request[x] EXCEPT !.touched = @ \/ request[x].pc # "idle"]]
  /\ UNCHANGED <<document, persona, begun, written, choiceFaults, crossed>>

AskStep(r) ==
  \/ Begin(r) \/ LoadPreferences(r) \/ Upsert(r) \/ ClearPrompt(r) \/ ReadDb(r) \/ Show(r)
  \/ Prefer(r) \/ ApplyDb(r) \/ Adopt(r)

ChoiceNext == (\E r \in Asks : AskStep(r)) \/ UpdateWebSearch \/ WritePrompt \/ DeleteProviderRow

ChoiceSpec == ChoiceInit /\ [][ChoiceNext]_choiceVars

----------------------------------------------------------------------------
\* Somebody who chooses a model, an effort or a provider is answered with it, unless
\* another request wrote meanwhile: the choice survives being written, read back,
\* compared with what exists and resolved against what is offered.  And whatever was
\* answered can be used.
ChoiceStands ==
  \A r \in Asks : Is(r, "answered") =>
    LET a == request[r] IN
    /\ a.answer # NoAnswer =>
         /\ a.answer.provider \in a.snap.rows
         /\ \E o \in ToSet(Offered(a.answer.provider)) :
              /\ o.name = a.answer.model
              /\ a.answer.effort \in ToSet(o.efforts) \/ (o.efforts = <<>> /\ a.answer.effort = "none")
    /\ ~a.touched /\ a.op.kind # "show" /\ a.then = "show" =>
         /\ a.answer.provider = a.op.provider
         /\ a.op.kind # "provider" => a.answer.model = a.op.model
         /\ a.op.kind = "effort" => a.answer.effort = a.op.effort

\* A prompt that the user wrote into the file is not lost on its way to PostgreSQL: the
\* last one is in the file until it is in PostgreSQL, whatever fails on the way.  Unless a
\* request held an older copy of the file when the user wrote: it writes that copy back after
\* its awaits, without the prompt (snapshot).
PromptIsKept == written > 0 /\ ~crossed => written \in {document.prompt, persona}
==============================================================================
