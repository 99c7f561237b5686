-------------------------------- MODULE Schema --------------------------------
(***************************************************************************)
(* How processes that start together prepare the database they share       *)
(* (ira-store/src/migrate.rs), beside users who already edit the           *)
(* assistant's instructions (ira-store/src/instructions.rs).               *)
(*                                                                         *)
(* A start takes an advisory lock, which belongs to one of the connections *)
(* of its pool: the statement that gives it back may run on another, gives *)
(* nothing back then, and its result is ignored.  On a database without    *)
(* providers it runs init.sql one statement at a time, each on its own;    *)
(* otherwise it runs the migrations it does not find recorded, each in a   *)
(* transaction.  Then it seeds the instructions that are missing and seals *)
(* keys.                                                                   *)
(*                                                                         *)
(* Abstracted: the statements, to the four marks of init.sql a later start *)
(* can tell apart; what a migration changes, to whether it can run (one    *)
(* needs the table of settings) and to the instructions the last creates.  *)
(***************************************************************************)
EXTENDS Naturals, FiniteSets

CONSTANTS
  Starters,     \* processes
  NoStarter,
  LastVersion,  \* migrations are numbered 1 .. LastVersion
  Baseline,     \* the ones init.sql records as applied
  Keys,         \* instructions
  Texts,        \* texts users give them
  NoText, DefaultText,
  MaxStarts,    \* bound: starts
  MaxStops      \* bound: statements that fail, deaths, and connections lost by a start

ASSUME SchemaAssumption ==
  /\ LastVersion \in Nat /\ {1, LastVersion} \subseteq Baseline
  /\ Baseline \subseteq 1 .. LastVersion
  /\ NoStarter \notin Starters

VARIABLES
  old,        \* the database was there before init.sql had all its tables
  built,      \* how far init.sql has got: 0 nothing, 1 providers, 2 the table of
              \* settings, 3 its row, 4 the recorded versions
  versions,   \* recorded migrations
  texts,      \* per key: the instruction
  prompt,     \* the text the settings hold for the persona
  mirrors,    \* texts on their way to the settings
  startAt,    \* per process: where its start is
  todo,       \* per process: the statements of init.sql or the migrations left
  migrating,  \* the process that a connection holding the advisory lock belongs to
  starts, stops,
  spoiled,    \* history: a stop left what no later start repairs, or a start lost its lock
  chosen      \* history, per key: the text the user chose last

schemaVars == <<old, built, versions, texts, prompt, mirrors, startAt, todo, migrating, starts,
                stops, spoiled, chosen>>

Persona == "persona"

Versions == 1 .. LastVersion

\* What every part of the program relies on.
WholeSchema == built = 4 \/ (built = 3 /\ versions = Versions)

SchemaInit ==
  /\ old \in BOOLEAN
  /\ \/ ~old /\ built = 0 /\ versions = {} /\ prompt = DefaultText
     \/ old /\ built = 3 /\ versions \in {1 .. v : v \in 0 .. LastVersion - 1} /\ prompt \in Texts
  /\ texts = [k \in Keys |-> NoText] /\ mirrors = {}
  /\ startAt = [p \in Starters |-> "off"]
  /\ todo = [p \in Starters |-> {}]
  /\ migrating = NoStarter
  /\ starts = 0 /\ stops = 0 /\ spoiled = FALSE
  /\ chosen = [k \in Keys |-> IF old /\ k = Persona THEN prompt ELSE NoText]

To(p, here, there) == startAt[p] = here /\ startAt' = [startAt EXCEPT ![p] = there]

\* Mutant: seeds replace what they find.
SeedOver(keys, text) == texts' = [k \in Keys |-> IF k \in keys THEN text ELSE texts[k]]

\* ON CONFLICT DO NOTHING
SeedMissing(keys, text) ==
  texts' = [k \in Keys |-> IF k \in keys /\ texts[k] = NoText THEN text ELSE texts[k]]

----------------------------------------------------------------------------
Start(p) ==
  /\ To(p, startAt[p], "lock") /\ startAt[p] \in {"off", "refused", "stopped"}
  /\ starts < MaxStarts /\ starts' = starts + 1
  /\ UNCHANGED <<built, versions, texts, todo, migrating, stops, spoiled, chosen>>

\* Mutant: nobody waits for the lock.
LockNothing(p) ==
  /\ To(p, "lock", "look")
  /\ migrating' = p
  /\ UNCHANGED <<built, versions, texts, todo, starts, stops, spoiled, chosen>>

\* Another connection of the same process would wait as well.
LockSchema(p) ==
  /\ To(p, "lock", "look")
  /\ migrating = NoStarter /\ migrating' = p
  /\ UNCHANGED <<built, versions, texts, todo, starts, stops, spoiled, chosen>>

\* pg_advisory_unlock, on whichever connection of the pool it gets.
Release(p) == migrating' \in IF migrating = p THEN {p, NoStarter} ELSE {migrating}

Look(p) ==
  /\ startAt[p] = "look"
  /\ IF built = 0
       THEN To(p, "look", "init") /\ todo' = [todo EXCEPT ![p] = 1 .. 4]
       ELSE To(p, "look", "migrate") /\ todo' = [todo EXCEPT ![p] = Versions \ versions]
  /\ UNCHANGED <<built, versions, texts, migrating, starts, stops, spoiled, chosen>>

\* A probe that fails is read as "no providers": init.sql runs over what there is.
LookInVain(p) ==
  /\ To(p, "look", "init") /\ todo' = [todo EXCEPT ![p] = 1 .. 4]
  /\ stops < MaxStops /\ stops' = stops + 1
  /\ UNCHANGED <<built, versions, texts, migrating, starts, spoiled, chosen>>

Least(s) == CHOOSE x \in s : \A y \in s : x <= y

\* Statements of init.sql change nothing they find done, and record as applied what an
\* older database may lack.
InitStatement(p) ==
  /\ startAt[p] = "init" /\ todo[p] # {}
  /\ LET mark == Least(todo[p]) IN
       /\ built' = IF ~old /\ mark > built THEN mark ELSE built
       /\ todo' = [todo EXCEPT ![p] = @ \ {mark}]
       /\ versions' = IF mark = 4 THEN versions \union Baseline ELSE versions
       /\ IF mark = 4 THEN SeedMissing({Persona}, prompt) ELSE UNCHANGED texts
       /\ spoiled' = (spoiled \/ (mark = 4 /\ old /\ ~(Baseline \subseteq versions)))
  /\ UNCHANGED <<startAt, migrating, starts, stops, chosen>>

\* A transaction: what the migration does and its row, or neither.
Migrate(p) ==
  /\ startAt[p] = "migrate" /\ todo[p] # {}
  /\ LET v == Least(todo[p]) IN
       IF v \in versions \/ (v = 1 /\ built < 2)
         THEN /\ startAt' = [startAt EXCEPT ![p] = "refused"]
              /\ Release(p)
              /\ UNCHANGED <<versions, texts, todo>>
         ELSE /\ versions' = versions \union {v}
              /\ todo' = [todo EXCEPT ![p] = @ \ {v}]
              /\ IF v = LastVersion /\ built >= 3
                   THEN SeedMissing({Persona}, prompt) ELSE UNCHANGED texts
              /\ UNCHANGED <<startAt, migrating>>
  /\ UNCHANGED <<built, starts, stops, spoiled, chosen>>

Seed(p) ==
  /\ startAt[p] \in {"init", "migrate"} /\ todo[p] = {}
  /\ To(p, startAt[p], "seal")
  /\ SeedMissing(Keys, DefaultText)
  /\ UNCHANGED <<built, versions, todo, migrating, starts, stops, spoiled, chosen>>

Unlock(p) ==
  /\ To(p, "seal", "up")
  /\ Release(p)
  /\ UNCHANGED <<built, versions, texts, todo, starts, stops, spoiled, chosen>>

\* A statement fails (and the lock is given back, or not), or the process dies (its
\* connections close, and a transaction with them).
Stop(p) ==
  /\ startAt[p] \notin {"off", "refused", "stopped"}
  /\ To(p, startAt[p], "stopped")
  /\ stops < MaxStops /\ stops' = stops + 1
  /\ Release(p)
  /\ spoiled' = (spoiled \/ (startAt[p] = "init" /\ built \in {1, 2}))
  /\ UNCHANGED <<built, versions, texts, todo, starts, chosen>>

Inside(p) == startAt[p] \in {"look", "init", "migrate", "seal"}

\* The pool is dropped, replaces an old connection, or the process ends; for a start at
\* work, its connection is lost.
CloseConnection(p) ==
  /\ migrating = p /\ migrating' = NoStarter
  /\ IF Inside(p)
       THEN stops < MaxStops /\ stops' = stops + 1 /\ spoiled' = TRUE
       ELSE UNCHANGED <<stops, spoiled>>
  /\ UNCHANGED <<built, versions, texts, startAt, todo, starts, chosen>>

----------------------------------------------------------------------------
Served == \E p \in Starters : startAt[p] = "up"

\* upsert_instruction; reset_instruction writes the default text.  The persona is then
\* copied to the settings by a statement of its own.
Upsert(k, t) ==
  /\ Served
  /\ mirrors' = IF k = Persona THEN mirrors \union {t} ELSE mirrors
  /\ texts' = [texts EXCEPT ![k] = t]
  /\ chosen' = [chosen EXCEPT ![k] = t]
  /\ UNCHANGED <<old, built, versions, prompt, startAt, todo, migrating, starts, stops, spoiled>>

MirrorPersona(t) ==
  /\ t \in mirrors
  /\ prompt' = t /\ mirrors' = mirrors \ {t}
  /\ UNCHANGED <<old, built, versions, texts, startAt, todo, migrating, starts, stops, spoiled,
                 chosen>>

Bringing(p) ==
  /\ \/ Start(p) \/ LockSchema(p) \/ Look(p) \/ LookInVain(p) \/ InitStatement(p)
     \/ Migrate(p) \/ Seed(p) \/ Unlock(p) \/ Stop(p) \/ CloseConnection(p)
  /\ UNCHANGED <<old, prompt, mirrors>>

SchemaNext ==
  \/ \E p \in Starters : Bringing(p)
  \/ \E k \in Keys, t \in Texts \union {DefaultText} : Upsert(k, t)
  \/ \E t \in mirrors : MirrorPersona(t)

SchemaSpec == SchemaInit /\ [][SchemaNext]_schemaVars

\* However many processes start together, on an empty or on an older database, and wherever
\* they stop, none is refused by what the others did and each that comes up finds the whole
\* schema; except after a first start that stopped between the first table and the row of
\* settings, on an older database taken for an empty one, and beside a start that lost the
\* connection that held its lock.  That a start comes up is not claimed: it waits for as long
\* as a connection that was not the one to unlock lives.
NoStartIsRefused ==
  ~spoiled => \A p \in Starters :
    /\ startAt[p] # "refused"
    /\ startAt[p] = "up" => WholeSchema

\* What the user wrote is never replaced by a start, also what an older database kept with
\* the settings, and also when two starts are at work because one lost its lock.
OwnTextStays ==
  \A k \in Keys : chosen[k] # NoText /\ texts[k] # NoText => texts[k] = chosen[k]

===============================================================================
