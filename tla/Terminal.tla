------------------------------ MODULE Terminal ------------------------------
(***************************************************************************)
(* The terminal interface (ira-tui: main.rs run, app.rs, settings.rs,      *)
(* slash.rs).  One loop draws, performs what the last key left pending     *)
(* (a new conversation, a chat turn, an edit of the catalogue) and then    *)
(* takes a key or the answer of the turn in the background.  The catalogue *)
(* it edits is shared with other surfaces, and is read again when the      *)
(* palette opens and after every edit.                                     *)
(*                                                                         *)
(* Abstracted: texts (a line is empty, a message or a command of the       *)
(* palette), drawing and scrolling, and the settings that change no row.   *)
(* External: the database and what the other surfaces do to it.            *)
(***************************************************************************)
EXTENDS Naturals, Sequences, FiniteSets

CONSTANTS
  TermProviders,  \* providers there may be, positive numbers in the order of the list
  TermModels,     \* models a provider may have, positive numbers in the order of the list
  MaxTermTurns,   \* bound: turns, and conversations after the first
  MaxForeign,     \* bound: edits of other surfaces
  MaxTermFaults   \* bound: statements that fail

VARIABLES
  db,        \* the catalogue: [providers, models: a set of <<provider, model>>, active]
  snapshot,  \* the copy of it on the screen
  screen,    \* "chat" or "settings"
  input,     \* the line: "", "text", "/", "/model" or "/providers"
  pick,      \* slash_pick, 0 for None
  slashAt,   \* slash_cursor, from 1
  cursor,    \* settings.cursor, from 1
  edit,      \* settings.edit: the target, or "none"
  replying,
  pending,   \* what the last key left for the loop: [kind, ...]
  history,   \* the turns of this conversation, as the terminal knows them
  stored,    \* per conversation: its messages
  talk,      \* conversation_id
  flying,    \* the turn in the background, 0 for none
  turns, foreign, termFaults,
  cleared    \* history: the conversation was changed during a turn

termVars == <<db, snapshot, screen, input, pick, slashAt, cursor, edit, replying, pending, history,
              stored, talk, flying, turns, foreign, termFaults, cleared>>

None == <<0, 0>>
NothingPending == [kind |-> "none"]
Sorted(S) == CHOOSE s \in [1..Cardinality(S) -> S] : \A i, j \in DOMAIN s : i < j => s[i] < s[j]
ModelsOf(snap, p) == {m \in TermModels : <<p, m>> \in snap.models}
ActiveProvider(snap) == snap.active[1]

Valid(c) ==
  /\ c.providers # {}
  /\ \A m \in c.models : m[1] \in c.providers
  /\ c.active \in c.models \cup {None}
Catalogues == {c \in [providers : SUBSET TermProviders, models : SUBSET (TermProviders \X TermModels),
                      active : (TermProviders \X TermModels) \cup {None}] : Valid(c)}

\* App::from_store, of a conversation without messages.
FromStore(snap) ==
  /\ snapshot = snap
  /\ screen = "chat" /\ input = "" /\ pick = 0 /\ slashAt = 1
  /\ cursor = 2 /\ edit = "none" /\ replying = FALSE /\ pending = NothingPending
  /\ history = <<>>

TermInit ==
  /\ db = [providers |-> {1}, models |-> {<<1, 1>>}, active |-> <<1, 1>>]
  /\ FromStore(db)
  /\ stored = <<<<>>>> /\ talk = 1 /\ flying = 0
  /\ turns = 0 /\ foreign = 0 /\ termFaults = 0 /\ cleared = FALSE

----------------------------------------------------------------------------
\* SettingsState::rows and the cursor on them.

RowOf(kind, id) == [kind |-> kind, id |-> id]
HeaderRow == RowOf("header", None)
Each(kind, p, S) == [i \in 1..Cardinality(S) |-> RowOf(kind, <<p, Sorted(S)[i]>>)]

Rows(snap) ==
  LET p == ActiveProvider(snap) IN
  <<HeaderRow>> \o Each("provider", 0, snap.providers) \o <<RowOf("new provider", None)>>
  \o (IF p = 0 THEN <<HeaderRow, HeaderRow>>
      ELSE <<HeaderRow>> \o Each("model", p, ModelsOf(snap, p))
           \o <<RowOf("new model", <<p, 0>>), HeaderRow, RowOf("option", <<p, 0>>)>>)
  \o <<RowOf("system", None), HeaderRow>>
  \o (IF p = 0 THEN <<>> ELSE <<RowOf("option", <<p, 0>>)>>)
  \o <<RowOf("option", None)>>

SelectableRow(row) == row.kind # "header"

\* move_by and slash::step: the next selectable place from i, going round.
NextFrom(rows, i, up) ==
  LET n == Len(rows)
      At(k) == IF up THEN ((i + n * 2 - 1 - k) % n) + 1 ELSE ((i - 1 + k) % n) + 1
      good == {k \in 1..n : SelectableRow(rows[At(k)])}
  IN IF n = 0 \/ good = {} THEN i ELSE At(CHOOSE k \in good : \A j \in good : k <= j)

\* clamp, after every new snapshot.
Clamp(snap, i) ==
  LET rows == Rows(snap)
      cut == IF i > Len(rows) THEN Len(rows) ELSE i
  IN IF SelectableRow(rows[cut]) THEN cut ELSE NextFrom(rows, cut, FALSE)

\* apply_snapshot.
Apply(snap) == snapshot' = snap /\ cursor' = Clamp(snap, cursor)

----------------------------------------------------------------------------
\* slash::items and the place in them.

SlashOpen == screen = "chat" /\ input \in {"/", "/model", "/providers"}
Section(items) == IF items = <<>> THEN <<>> ELSE <<HeaderRow>> \o items

AllModels(snap) ==
  LET ps == Sorted(snap.providers)
      upto[i \in 0..Len(ps)] ==
        IF i = 0 THEN <<>> ELSE upto[i - 1] \o Each("model", ps[i], ModelsOf(snap, ps[i]))
  IN upto[Len(ps)]

Commands ==
  <<RowOf("list models", None), RowOf("list providers", None), RowOf("config", None),
    RowOf("system", None), RowOf("clear", None)>>
AllProviders(snap) == Each("provider", 0, snap.providers)
PickedModels(snap, p) == Section(Each("model", p, ModelsOf(snap, p)))

Items ==
  IF pick # 0 THEN PickedModels(snapshot, pick)
  ELSE CASE input = "/" -> Commands
         [] input = "/model" -> Section(AllModels(snapshot))
         [] OTHER -> Section(AllProviders(snapshot))

Selectable == {i \in DOMAIN Items : SelectableRow(Items[i])}

ClampSlash ==
  IF Items = <<>> THEN 1
  ELSE IF slashAt \in Selectable THEN slashAt
  ELSE CHOOSE i \in Selectable : \A j \in Selectable : i <= j

----------------------------------------------------------------------------
\* Keys.  A key is taken when nothing is pending.

Key == pending = NothingPending
LeaveToLoop(kind, id) == pending' = [kind |-> kind, id |-> id]

KeepDb == UNCHANGED <<db, foreign, termFaults>>
KeepTalk == UNCHANGED <<replying, history, stored, talk, flying, turns, cleared>>

\* refresh_ollama: the catalogue is read again, unless a statement fails.
ReadAgain == Apply(db) \/ UNCHANGED <<snapshot, cursor>>

\* A character or a paste; the palette reads the catalogue again when it opens.
Type(line) ==
  /\ Key /\ screen = "chat" /\ line # input
  /\ input' = line
  /\ LET opens == ~SlashOpen /\ line \notin {"", "text"} IN
     IF opens THEN ReadAgain ELSE UNCHANGED <<snapshot, cursor>>
  /\ pick' = IF line = "/providers" THEN pick ELSE 0
  /\ UNCHANGED <<screen, slashAt, edit, pending>> /\ KeepDb /\ KeepTalk

Tab ==
  /\ Key /\ ~SlashOpen /\ edit = "none"
  /\ screen' = IF screen = "chat" THEN "settings" ELSE "chat"
  /\ UNCHANGED <<snapshot, input, pick, slashAt, cursor, edit, pending>> /\ KeepDb /\ KeepTalk

SlashMove(up) ==
  /\ Key /\ SlashOpen
  /\ slashAt' = IF Items = <<>> THEN 1 ELSE NextFrom(Items, slashAt, up)
  /\ UNCHANGED <<snapshot, screen, input, pick, cursor, edit, pending>> /\ KeepDb /\ KeepTalk

SlashEsc ==
  /\ Key /\ SlashOpen
  /\ pick' = 0 /\ input' = (IF pick # 0 THEN "/providers" ELSE "")
  /\ slashAt' = IF pick # 0 THEN 1 ELSE slashAt
  /\ UNCHANGED <<snapshot, screen, cursor, edit, pending>> /\ KeepDb /\ KeepTalk

\* apply_slash: what the item under the cursor does.
ApplySlash ==
  /\ Key /\ SlashOpen /\ Items # <<>>
  /\ LET item == Items[ClampSlash] IN
     /\ input' = CASE item.kind = "list models" -> "/model"
                   [] item.kind \in {"list providers", "provider"} -> "/providers"
                   [] OTHER -> ""
     /\ pick' = IF item.kind = "provider" THEN item.id[2] ELSE 0
     /\ slashAt' = 1
     /\ screen' = IF item.kind \in {"config", "system"} THEN "settings" ELSE "chat"
     /\ edit' = IF item.kind = "system" THEN "system" ELSE edit
     /\ CASE item.kind = "model" -> LeaveToLoop("activate model", item.id)
          [] item.kind = "clear" -> LeaveToLoop("new conversation", None)
          [] OTHER -> UNCHANGED pending
     /\ item.kind = "clear" => Len(stored) <= MaxTermTurns
     /\ history' = IF item.kind = "clear" THEN <<>> ELSE history
     /\ cleared' = (cleared \/ (item.kind = "clear" /\ replying))
  /\ UNCHANGED <<snapshot, cursor, replying, stored, talk, flying, turns>> /\ KeepDb

\* Mutant: Enter is heard while a reply is awaited.
CanSubmitAnytime == input = "text"

CanSubmit == input = "text" /\ ~replying

Submit ==
  /\ Key /\ screen = "chat" /\ CanSubmit /\ turns < MaxTermTurns
  /\ input' = ""
  /\ IF snapshot.active = None THEN UNCHANGED <<replying, history, pending, turns>>
     ELSE /\ replying' = TRUE /\ turns' = turns + 1
          /\ history' = Append(history, <<"user", turns + 1>>)
          /\ LeaveToLoop("chat", <<0, turns + 1>>)
  /\ UNCHANGED <<snapshot, screen, pick, slashAt, cursor, edit, stored, talk, flying, cleared>> /\ KeepDb

Browsing == Key /\ screen = "settings" /\ edit = "none"

Move(up) ==
  /\ Browsing
  /\ cursor' = NextFrom(Rows(snapshot), cursor, up)
  /\ UNCHANGED <<snapshot, screen, input, pick, slashAt, edit, pending>> /\ KeepDb /\ KeepTalk

\* The left and right keys on an effort, Enter on a kind or a switch: the next value.
CycleOption(row) == row.kind \in {"model", "option"} /\ LeaveToLoop("set", row.id)

\* activate, start_rename, start_new, delete and cycle_effort on the row under the cursor.
RowKey ==
  /\ Browsing
  /\ LET row == Rows(snapshot)[cursor] IN
     \/ row.kind \in {"provider", "model"} /\ UNCHANGED edit
        /\ \/ LeaveToLoop(IF row.kind = "provider" THEN "activate provider" ELSE "activate model", row.id)
           \/ /\ row.kind = "model" \/ Cardinality(snapshot.providers) > 1
              /\ LeaveToLoop(IF row.kind = "provider" THEN "delete provider" ELSE "delete model", row.id)
     \/ row.kind \in {"new provider", "provider"} /\ edit' = "new provider" /\ UNCHANGED pending
     \/ row.kind \in {"new model", "model"} /\ edit' = "new model" /\ UNCHANGED pending
     \/ CycleOption(row) /\ UNCHANGED edit
     \/ row.kind \in {"option", "system", "provider", "model"} /\ edit' = "value" /\ UNCHANGED pending
  /\ UNCHANGED <<snapshot, screen, input, pick, slashAt, cursor>> /\ KeepDb /\ KeepTalk

\* Enter or Esc in a field: submit_edit, which drops an empty name.
EndEdit ==
  /\ Key /\ screen = "settings" /\ edit # "none"
  /\ edit' = "none"
  /\ \/ UNCHANGED pending
     \/ LeaveToLoop(IF edit \in {"new provider", "new model"} THEN edit ELSE "set", <<ActiveProvider(snapshot), 0>>)
  /\ UNCHANGED <<snapshot, screen, input, pick, slashAt, cursor>> /\ KeepDb /\ KeepTalk

----------------------------------------------------------------------------
\* The loop of run: what is pending is done before the next key.

Say(c, what) == stored' = [stored EXCEPT ![c] = Append(@, what)]

NewConversation ==
  /\ pending.kind = "new conversation"
  /\ pending' = NothingPending
  /\ \/ /\ stored' = Append(stored, <<>>) /\ talk' = Len(stored) + 1 /\ history' = <<>>
        /\ UNCHANGED termFaults
     \/ /\ termFaults < MaxTermFaults /\ termFaults' = termFaults + 1
        /\ UNCHANGED <<stored, talk, history>>
  /\ UNCHANGED <<db, snapshot, screen, input, pick, slashAt, cursor, edit, replying, flying, turns, foreign, cleared>>

\* persist_user_and_context, then the turn in the background; without a client the
\* question stays alone.
StartTurn ==
  /\ pending.kind = "chat"
  /\ pending' = NothingPending
  /\ ReadAgain
  /\ \/ /\ Say(talk, <<"user", pending.id[2]>>)
        /\ \/ flying' = pending.id[2] /\ UNCHANGED replying
           \/ replying' = FALSE /\ UNCHANGED flying
        /\ UNCHANGED termFaults
     \/ /\ termFaults < MaxTermFaults /\ termFaults' = termFaults + 1
        /\ replying' = FALSE /\ UNCHANGED <<stored, flying>>
  /\ UNCHANGED <<db, screen, input, pick, slashAt, edit, history, talk, turns, foreign, cleared>>

\* The answer, or the error in its place, goes to the conversation the terminal is in now.
PersistReply(turn) == Say(talk, <<"reply", turn>>)

\* An error is shown and not remembered.
OnReply(turn) ==
  /\ replying' = FALSE
  /\ \/ history' = Append(history, <<"reply", turn>>)
     \/ UNCHANGED history

TakeReply ==
  /\ Key /\ flying # 0
  /\ flying' = 0
  /\ PersistReply(flying)
  /\ OnReply(flying)
  /\ UNCHANGED <<db, snapshot, screen, input, pick, slashAt, cursor, edit, pending, talk, turns, foreign,
                 termFaults, cleared>>

\* apply: the catalogue after an edit, given that what it names is still there.
Edited(k, id) ==
  LET gone == IF k = "delete provider" THEN {m \in db.models : m[1] = id[2]} ELSE {id}
      Rest(c) == [c EXCEPT !.models = @ \ gone, !.active = IF @ \in gone THEN None ELSE @]
  IN CASE k = "activate model" -> {[db EXCEPT !.active = id]}
       [] k = "activate provider" ->
            {[db EXCEPT !.active = IF ModelsOf(db, id[2]) = {} THEN None ELSE <<id[2], Sorted(ModelsOf(db, id[2]))[1]>>]}
       [] k = "delete model" -> {Rest(db)}
       [] k = "delete provider" -> {[Rest(db) EXCEPT !.providers = @ \ {id[2]}]}
       [] k = "new provider" -> {[db EXCEPT !.providers = @ \cup {p}] : p \in TermProviders}
       [] k = "new model" -> {[db EXCEPT !.models = @ \cup {<<id[1], m>>}] : m \in TermModels}
       [] OTHER -> {db}

EditKinds == {"activate model", "activate provider", "delete model", "delete provider", "new provider",
              "new model", "set"}

\* on_db_err: the error is shown where the conversation is.
Refused == screen' = "chat"

\* DbOp: applied and read again, or refused and shown in the chat.
ApplyEdit ==
  /\ pending.kind \in EditKinds
  /\ pending' = NothingPending
  /\ \/ \E c \in Edited(pending.kind, pending.id) : Valid(c) /\ db' = c /\ Apply(c) /\ UNCHANGED <<screen, termFaults>>
     \/ /\ \/ termFaults < MaxTermFaults /\ termFaults' = termFaults + 1
           \/ (\A c \in Edited(pending.kind, pending.id) : ~Valid(c)) /\ UNCHANGED termFaults
        /\ Refused /\ UNCHANGED <<db, snapshot, cursor>>
  /\ UNCHANGED <<input, pick, slashAt, edit, foreign>> /\ KeepTalk

\* External: another surface edits the catalogue.
Foreign ==
  /\ foreign < MaxForeign /\ foreign' = foreign + 1
  /\ \E c \in Catalogues : db' = c
  /\ UNCHANGED <<snapshot, screen, input, pick, slashAt, cursor, edit, pending, termFaults>> /\ KeepTalk

TermKeys ==
  \/ \E line \in {"", "text", "/", "/model", "/providers"} : Type(line)
  \/ \E up \in BOOLEAN : SlashMove(up) \/ Move(up)
  \/ Tab \/ SlashEsc \/ ApplySlash \/ Submit \/ RowKey \/ EndEdit

TermNext == TermKeys \/ NewConversation \/ StartTurn \/ TakeReply \/ ApplyEdit \/ Foreign

TermSpec == TermInit /\ [][TermNext]_termVars

----------------------------------------------------------------------------
\* What is stored of a conversation is questions, each with at most its own answer behind it,
\* whatever was typed, cleared or refused meanwhile, unless the conversation was
\* changed while an answer was on its way.
AnswersFollow ==
  ~cleared => \A c \in DOMAIN stored : \A i \in DOMAIN stored[c] :
    stored[c][i][1] = "reply" => i > 1 /\ stored[c][i - 1] = <<"user", stored[c][i][2]>>
=============================================================================
