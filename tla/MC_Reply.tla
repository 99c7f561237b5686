------------------------------- MODULE MC_Reply -------------------------------
(***************************************************************************)
(* One reply on its way: the loop of tools that makes it, the queues that  *)
(* carry its events to the browser, and the turns of two conversations     *)
(* around it, which all have to end.  A behaviour is one of the three.     *)
(*                                                                         *)
(* Two tools (an MCP one and a memory one) and a name outside the registry *)
(* are enough for every outcome of a call; two calls per response make     *)
(* order and partial completion visible; two fragments let an empty one    *)
(* follow a visible one.  Two conversations make the map of locks forget   *)
(* one while another is in use.                                            *)
(***************************************************************************)
EXTENDS ToolLoop, StreamRelay

CONSTANTS search, remember_fact, invented, None, Turns, Convs, Procs, MaxCrashes, ContextLimit

VARIABLES subject, req, at, lockOf, registered, holder, waiters, rows, context, told, late, crashes

MCTools == {search, remember_fact}
MCMcpTools == {search}
MCMemoryTools == {remember_fact}

Chat == INSTANCE ChatTurn WITH pc <- at, events <- told, MaxDeltas <- 1

chatVars ==
  <<req, at, lockOf, registered, holder, waiters, rows, context, told, late, crashes>>

Loop(action) == subject = "loop" /\ action /\ UNCHANGED <<relayVars, chatVars, subject>>
Delivery(action) == subject = "delivery" /\ action /\ UNCHANGED <<vars, chatVars, subject>>
Chats(action) == subject = "chats" /\ action /\ UNCHANGED <<vars, relayVars, subject>>

MCReplyInit ==
  /\ subject \in {"loop", "delivery", "chats"}
  /\ Init /\ RelayInit /\ Chat!Init
  /\ subject # "loop" => turn = [registry |-> {}, webSearch |-> FALSE, streaming |-> TRUE]
  /\ subject # "chats" => \A t, u \in Turns : req[t] = req[u] /\ req[t].kind = "stream"
  /\ subject # "chats" => \A t \in Turns : req[t].conv = CHOOSE c \in Convs : TRUE

MCReplyNext == Loop(Next) \/ Delivery(RelayNext) \/ Chats(Chat!Next)

allVars == <<vars, relayVars, chatVars, subject>>

\* As in ChatTurn, every turn that can move does.
MCReplySpec ==
  /\ MCReplyInit /\ [][MCReplyNext]_allVars
  /\ \A t \in Turns : WF_allVars(Chats(Chat!Step(t)))

\* A turn that was started ends, also when others fail, leave or die inside the conversation
\* it waits for.
EveryTurnEnds == Chat!EveryTurnEnds

=============================================================================
