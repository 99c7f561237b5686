------------------------------- MODULE McpHttp --------------------------------
(***************************************************************************)
(* A session over HTTP with an MCP server (ira-mcp/src/http.rs), from the  *)
(* handshake to the requests that follow, beside a server that answers as  *)
(* it likes and may restart and forget its sessions.  Several users share  *)
(* the slot of the manager's table (ira-mcp/src/manager.rs): who finds it  *)
(* empty opens a session of its own, and every request takes the session   *)
(* that is there when it is made, each page of a list of tools too.        *)
(*                                                                         *)
(* Abstracted: reuse and recorded failures of a connect (McpManager has    *)
(* them); the contents of requests and results; servers without session    *)
(* identifiers, to whom every request is alike.                            *)
(***************************************************************************)
EXTENDS Naturals

CONSTANTS
  Askers,      \* turns and settings requests
  MaxSessions, \* bound: sessions opened
  MaxIds,      \* bound: sessions the server gives out
  MaxPages,    \* bound: pages of a list of tools
  MaxTrouble   \* bound: restarts, lost and refused requests, dropped slots

ASSUME McpHttpAssumption == {MaxSessions, MaxIds, MaxPages, MaxTrouble} \subseteq Nat

None == 0

VARIABLES
  inSlot,   \* the session of the table
  session,  \* per session: the identifier it sends, and whether it is ready
  opened,   \* sessions opened so far
  issued,   \* identifiers the server has given out
  known,    \* the ones it remembers
  greeted,  \* the ones for whom it has had notifications/initialized
  asker,    \* per user: where it is
  purpose,  \* "connect", "list" or "call"
  using,    \* the session it has
  carries,  \* the identifier it sends next
  pages,    \* pages a list has had
  trouble,
  lenient,  \* history: identifiers whose notification the server refused without a word
  early     \* history: a request arrived before its session's notification

httpVars == <<inSlot, session, opened, issued, known, greeted, asker, purpose, using, carries,
              pages, trouble, lenient, early>>

Sessions == 1 .. MaxSessions

HttpInit ==
  /\ inSlot = None
  /\ session = [s \in Sessions |-> [id |-> None, ready |-> FALSE]]
  /\ opened = 0 /\ issued = 0
  /\ known = {} /\ greeted = {}
  /\ asker = [u \in Askers |-> "idle"]
  /\ purpose = [u \in Askers |-> "call"]
  /\ using = [u \in Askers |-> None]
  /\ carries = [u \in Askers |-> None]
  /\ pages = [u \in Askers |-> 0]
  /\ trouble = 0
  /\ lenient = {} /\ early = FALSE

AskerAt(u, here, there) == asker[u] = here /\ asker' = [asker EXCEPT ![u] = there]

Trouble == trouble < MaxTrouble /\ trouble' = trouble + 1

\* What rpc_raw makes of a reply.  A notification needs no answer: an empty body will do, whatever
\* the status.  A request without a result is an error to its caller.
Replies == [status : {"ok", "accepted", "refused"}, body : {"empty", "result", "error"}]

Outcome(notification, reply) ==
  IF notification /\ (reply.status = "accepted" \/ reply.body = "empty") THEN "fine"
  ELSE IF reply.status = "refused" \/ reply.body = "error" THEN "error"
  ELSE IF reply.body = "result" \/ notification THEN "fine"
  ELSE "error"

\* What a server says to an identifier it knows, and to one it does not, when nothing is wrong.
Expected(id, reply) == IF id \in known THEN reply.status # "refused" /\ reply.body # "error"
                                       ELSE reply.status = "refused"

----------------------------------------------------------------------------
\* Mutant: the session is in the table before its handshake.
ConnectAndInstall(u) ==
  /\ inSlot = None /\ opened < MaxSessions
  /\ AskerAt(u, "idle", "initialize")
  /\ opened' = opened + 1 /\ inSlot' = opened'
  /\ using' = [using EXCEPT ![u] = opened']
  /\ purpose' = [purpose EXCEPT ![u] = "connect"]
  /\ UNCHANGED <<session, issued, known, greeted, carries, pages, trouble, lenient, early>>

OpenHttp(u) ==
  /\ inSlot = None /\ opened < MaxSessions
  /\ AskerAt(u, "idle", "initialize")
  /\ opened' = opened + 1
  /\ using' = [using EXCEPT ![u] = opened']
  /\ purpose' = [purpose EXCEPT ![u] = "connect"]
  /\ UNCHANGED <<inSlot, session, issued, known, greeted, carries, pages, trouble, lenient, early>>

\* call_tool, list_resources and list_prompts ask once, list_tools once for each page.
AskFor(u, what) ==
  /\ what \in {"list", "call"}
  /\ AskerAt(u, "idle", "look up")
  /\ purpose' = [purpose EXCEPT ![u] = what]
  /\ pages' = [pages EXCEPT ![u] = 0]
  /\ UNCHANGED <<inSlot, session, opened, issued, known, greeted, using, carries, trouble, lenient,
                 early>>

\* Without a session in the table the request fails.
FindSession(u) ==
  /\ AskerAt(u, "look up", IF inSlot = None THEN "idle" ELSE "ensure")
  /\ using' = [using EXCEPT ![u] = inSlot]
  /\ UNCHANGED <<inSlot, session, opened, issued, known, greeted, purpose, carries, pages, trouble,
                 lenient, early>>

Ensure(u) ==
  /\ AskerAt(u, "ensure", IF session[using[u]].ready THEN "take" ELSE "initialize")
  /\ UNCHANGED <<inSlot, session, opened, issued, known, greeted, purpose, using, carries, pages,
                 trouble, lenient, early>>

\* The server gives a new identifier.
Initialize(u) ==
  /\ issued < MaxIds
  /\ AskerAt(u, "initialize", "keep")
  /\ issued' = issued + 1 /\ known' = known \union {issued'}
  /\ carries' = [carries EXCEPT ![u] = issued']
  /\ UNCHANGED <<inSlot, session, opened, greeted, purpose, using, pages, trouble, lenient, early>>

KeepId(u) ==
  /\ AskerAt(u, "keep", "notify")
  /\ session' = [session EXCEPT ![using[u]] = [id |-> carries[u], ready |-> FALSE]]
  /\ UNCHANGED <<inSlot, opened, issued, known, greeted, purpose, using, carries, pages, trouble,
                 lenient, early>>

Notify(u) ==
  /\ \E reply \in Replies :
       /\ IF Expected(carries[u], reply) THEN UNCHANGED trouble ELSE Trouble
       /\ AskerAt(u, "notify", IF Outcome(TRUE, reply) = "fine" THEN "ready" ELSE "idle")
       /\ greeted' = IF carries[u] \in known /\ reply.status # "refused"
                       THEN greeted \union {carries[u]} ELSE greeted
       /\ lenient' = IF reply.status = "refused" /\ Outcome(TRUE, reply) = "fine"
                       THEN lenient \union {carries[u]} ELSE lenient
  /\ UNCHANGED <<inSlot, session, opened, issued, known, purpose, using, carries, pages, early>>

\* The session is ready; the one of a connect takes the place of whatever is in the table.
MakeReady(u) ==
  /\ AskerAt(u, "ready", IF purpose[u] = "connect" THEN "idle" ELSE "take")
  /\ session' = [session EXCEPT ![using[u]].ready = TRUE]
  /\ inSlot' = IF purpose[u] = "connect" THEN using[u] ELSE inSlot
  /\ UNCHANGED <<opened, issued, known, greeted, purpose, using, carries, pages, trouble, lenient,
                 early>>

TakeId(u) ==
  /\ AskerAt(u, "take", "send")
  /\ carries' = [carries EXCEPT ![u] = session[using[u]].id]
  /\ UNCHANGED <<inSlot, session, opened, issued, known, greeted, purpose, using, pages, trouble,
                 lenient, early>>

\* A result with a cursor asks for the next page; there is no bound on them in the code.
Send(u) ==
  /\ \E reply \in Replies, more \in BOOLEAN :
       /\ more => /\ Outcome(FALSE, reply) = "fine"
                  /\ purpose[u] = "list" /\ pages[u] < MaxPages
       /\ IF Expected(carries[u], reply) THEN UNCHANGED trouble ELSE Trouble
       /\ AskerAt(u, "send", IF more THEN "look up" ELSE "idle")
       /\ pages' = [pages EXCEPT ![u] = IF more THEN @ + 1 ELSE 0]
  /\ early' = (early \/ carries[u] \in known \ (greeted \union lenient) \/ carries[u] = None)
  /\ UNCHANGED <<inSlot, session, opened, issued, known, greeted, purpose, using, carries, lenient>>

\* A request is lost, refused, or takes too long; or its user goes away.
Fail(u) ==
  /\ asker[u] # "idle"
  /\ AskerAt(u, asker[u], "idle")
  /\ Trouble
  /\ UNCHANGED <<inSlot, session, opened, issued, known, greeted, purpose, using, carries, pages,
                 lenient, early>>

\* disconnect: the settings drop the session while others still use it.
DropSession ==
  /\ inSlot # None /\ inSlot' = None
  /\ Trouble
  /\ UNCHANGED <<session, opened, issued, known, greeted, asker, purpose, using, carries, pages,
                 lenient, early>>

\* Nobody here is told; an HTTP session counts as alive for ever.
ServerRestarts ==
  /\ known # {} /\ known' = {}
  /\ Trouble
  /\ UNCHANGED <<inSlot, session, opened, issued, greeted, asker, purpose, using, carries, pages,
                 lenient, early>>

HttpNext ==
  \/ DropSession \/ ServerRestarts
  \/ \E u \in Askers :
       \/ OpenHttp(u) \/ FindSession(u) \/ Ensure(u) \/ Initialize(u) \/ KeepId(u) \/ Notify(u)
       \/ MakeReady(u) \/ TakeId(u) \/ Send(u) \/ Fail(u)
       \/ \E what \in {"list", "call"} : AskFor(u, what)

HttpSpec == HttpInit /\ [][HttpNext]_httpVars

\* However many open the session at once, and whatever becomes of it, a request reaches the
\* server in a session it gave out and was told is initialized; except where the server refused
\* to be told, without a word.
RequestsAfterHandshake == ~early

===============================================================================
