------------------------------- MODULE MC_Mcp ---------------------------------
(***************************************************************************)
(* The MCP servers of the assistant: the table of sessions between turns   *)
(* and settings, one session over stdio, with the opening request and the  *)
(* two that follow it, and sessions over HTTP.  A behaviour is one of the  *)
(* three.                                                                  *)
(*                                                                         *)
(* Two users let a handshake over HTTP meet another, and a request.        *)
(***************************************************************************)
EXTENDS McpStdio, McpManager, McpHttp

CONSTANTS init, a, b

VARIABLE subject

MCCalls == {init, a, b}

\* Only where the table is the subject is a server configured: elsewhere it has nothing to do.
MCMcpInit ==
  /\ subject \in {"session", "table", "http"}
  /\ Init /\ ManagerInit /\ HttpInit
  /\ subject # "table" => file = Absent

MCMcpNext ==
  \/ subject = "session" /\ Next /\ UNCHANGED <<managerVars, httpVars, subject>>
  \/ subject = "table" /\ ManagerNext /\ UNCHANGED <<vars, httpVars, subject>>
  \/ subject = "http" /\ HttpNext /\ UNCHANGED <<vars, managerVars, subject>>

MCMcpSpec ==
  /\ MCMcpInit /\ [][MCMcpNext]_<<vars, managerVars, httpVars, subject>>
  /\ Fairness /\ ManagerFairness
=============================================================================
