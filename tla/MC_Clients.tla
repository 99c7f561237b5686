----------------------------- MODULE MC_Clients ------------------------------
(***************************************************************************)
(* The two ends of a conversation: the page and the terminal the user      *)
(* writes in (its settings and its talk apart), and the client of the      *)
(* provider that answers, with its credentials.  A behaviour is one of the *)
(* five.                                                                   *)
(***************************************************************************)
EXTENDS ChatSurface, Terminal, StreamAssembly, CodexAuth, TLC

CONSTANTS r1, r2, r3  \* the requests

VARIABLE subject

\* Two requests of one client, and one of another.
Managers == [r \in Requests |-> IF r = r3 THEN 2 ELSE 1]

\* The page makes a voice call beside one run, or has two runs and loads twice.
\* In the terminal either the settings are used, beside another surface that edits the
\* catalogue, or the conversation.
MCClientsInit ==
  /\ subject \in {"page", "settings", "talk", "stream", "credentials"}
  /\ IF subject = "page" THEN UiInit ELSE UiInit /\ server.made = 0
  /\ TermInit
  /\ IF subject = "stream" THEN AsmInit
     ELSE AsmInit /\ protocol = "openai" /\ ~crlf /\ plan = [texts |-> 1, calls |-> <<>>]
  /\ IF subject = "credentials" THEN AuthInit ELSE AuthInit /\ rotates

MCTerminal ==
  /\ TermNext /\ ~cleared
  /\ IF subject = "settings" THEN turns' = 0 /\ Len(stored') = 1
     ELSE subject = "talk" /\ screen' = "chat" /\ foreign' = 0 /\ db' = db

MCClientsNext ==
  /\ UNCHANGED subject
  /\ \/ subject = "page" /\ UiNext /\ UNCHANGED <<termVars, asmVars, authVars>>
        /\ (Used' # {} => run' <= 1 /\ loads' = 1)
     \/ MCTerminal /\ UNCHANGED <<uiVars, asmVars, authVars>>
     \/ subject = "stream" /\ AsmNext /\ UNCHANGED <<uiVars, termVars, authVars>>
     \/ subject = "credentials" /\ ~lost /\ AuthNext /\ UNCHANGED <<uiVars, termVars, asmVars>>
        /\ authFaults' + issued' <= MaxIssued /\ Cardinality(refused') <= 1

MCClientsSpec == MCClientsInit /\ [][MCClientsNext]_<<uiVars, termVars, asmVars, authVars, subject>>

\* The requests of one client are interchangeable.
Interchangeable == Permutations({r1, r2})
==============================================================================
