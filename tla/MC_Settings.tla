------------------------------ MODULE MC_Settings ------------------------------
(***************************************************************************)
(* What the server keeps beside its conversations: the services it starts  *)
(* on its machine, the databases it publishes to the Toolbox, the key that *)
(* seals its secrets, the table of models and the choice of the one that   *)
(* answers.  A behaviour is one of the five.                               *)
(***************************************************************************)
EXTENDS HostServices, ToolboxSync, MasterKey, ModelCatalog, ModelChoice, TLC

CONSTANTS a1, a2  \* requests

VARIABLE subject

Kinds == <<"codex", "codex", "ollama">>
Sources == [codex |-> "openai", ollama |-> "none"]
ModelsDev == [openai |-> <<[name |-> "a", efforts |-> <<"low", "high">>], [name |-> "b", efforts |-> <<>>]>>]

\* Requests for one model or effort.
Particular == {r \in Asks : request[r].op.kind \in {"model", "effort"}}

OneServer == \A j, k \in Callers : server[j] = server[k]

MCSettingsInit ==
  /\ subject \in {"services", "toolbox", "key", "models", "choice"}
  /\ HostInit /\ (subject # "services" => oldMarks = {}) /\ ToolInit /\ (subject # "toolbox" => OneServer)
  /\ KeyInit /\ (subject # "key" => file = NoKey /\ legacy = NoKey)
  /\ CatalogInit /\ (subject # "models" => active = 1)
  /\ ChoiceInit /\ (document = Unset <=> dbActive = Choice(1, "b")) /\ (subject # "choice" => document = Unset)

\* The age of the catalogue matters only while Compose does not answer; an installation with
\* an older configuration, or one where saves have overlapped or failed, which the property
\* excuses, serves one request less.
Narrow ==
  /\ docker => ~CatalogAges
  /\ oldMarks # {} \/ ~calm' => asked' < MaxRequests

\* Two processes publish one connection.
Alone == ~OneServer => \E c \in Conns : rows'[c].version = 0

\* A catalogue that may be without a model has nothing more to show. Among the choices there
\* is one prompt or one edit, and one request for a particular model.
MCSettingsNext ==
  \/ subject = "services" /\ HostNext /\ Narrow /\ UNCHANGED <<toolVars, keyVars, catalogVars, choiceVars, subject>>
  \/ subject = "toolbox" /\ ToolNext /\ Alone /\ UNCHANGED <<hostVars, keyVars, catalogVars, choiceVars, subject>>
  \/ subject = "key" /\ KeyNext /\ UNCHANGED <<hostVars, toolVars, catalogVars, choiceVars, subject>>
  \/ subject = "models" /\ ~excused /\ CatalogNext /\ UNCHANGED <<hostVars, toolVars, keyVars, choiceVars, subject>>
  \/ subject = "choice" /\ ChoiceNext /\ UNCHANGED <<hostVars, toolVars, keyVars, catalogVars, subject>>
     /\ written' + edits' <= 1 /\ Cardinality(Particular') <= 1

MCSettingsSpec ==
  MCSettingsInit /\ [][MCSettingsNext]_<<hostVars, toolVars, keyVars, catalogVars, choiceVars, subject>>

\* Requests, connections and processes are interchangeable.
Symmetric == Permutations(Asks) \cup Permutations(Conns) \cup Permutations(Servers)
================================================================================
