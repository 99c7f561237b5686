------------------------------ MODULE FactStore ------------------------------
(***************************************************************************)
(* The facts the user asked to remember (ira-store/src/memories.rs), as    *)
(* the tools of concurrent turns use them (ira-tools/src/memory.rs).       *)
(*                                                                         *)
(* remember looks for an equal fact and then inserts; forget searches and  *)
(* then deletes row by row.  There is no unique index and no transaction.  *)
(*                                                                         *)
(* Abstracted: texts (two facts match when they are the same one), the     *)
(* ranking of a search (its best hits are the rows of the fact).           *)
(***************************************************************************)
EXTENDS Naturals, FiniteSets

CONSTANTS
  Agents,    \* turns that run a memory tool
  Facts,
  NoFact,
  MaxRows    \* bound: rows ever inserted

VARIABLES
  rows,      \* the table: the set of [id, fact]
  lastId,
  tool,      \* per agent: the statement it is about to run
  about,     \* per agent: the fact
  hits,      \* per agent: the ids its search returned
  overlap    \* history, per fact: two remember calls of it overlapped

factVars == <<rows, lastId, tool, about, hits, overlap>>

IdsOf(f) == {r.id : r \in {x \in rows : x.fact = f}}

Remembering(f) == {a \in Agents : about[a] = f /\ tool[a] \in {"find", "touch", "insert"}}

Tool(a, here, there) == tool[a] = here /\ tool' = [tool EXCEPT ![a] = there]

FactInit ==
  /\ rows = {} /\ lastId = 0
  /\ tool = [a \in Agents |-> "idle"]
  /\ about = [a \in Agents |-> NoFact]
  /\ hits = [a \in Agents |-> {}]
  /\ overlap = [f \in Facts |-> FALSE]

\* remember_fact with a text that passes normalize.
Remember(a, f) ==
  /\ Tool(a, "idle", "find")
  /\ about' = [about EXCEPT ![a] = f]
  /\ overlap' = [overlap EXCEPT ![f] = @ \/ Remembering(f) # {}]
  /\ UNCHANGED <<rows, lastId, hits>>

\* Mutant: remember inserts without looking.
FindNothing(a) == Tool(a, "find", "insert") /\ UNCHANGED <<rows, lastId, about, hits, overlap>>

FindExact(a) ==
  /\ tool[a] = "find"
  /\ tool' = [tool EXCEPT ![a] = IF IdsOf(about[a]) = {} THEN "insert" ELSE "touch"]
  /\ UNCHANGED <<rows, lastId, about, hits, overlap>>

\* The row gets a new updated_at, if it is still there.
Touch(a) == Tool(a, "touch", "idle") /\ UNCHANGED <<rows, lastId, about, hits, overlap>>

InsertFact(a) ==
  /\ Tool(a, "insert", "idle")
  /\ lastId < MaxRows
  /\ rows' = rows \union {[id |-> lastId + 1, fact |-> about[a]]}
  /\ lastId' = lastId + 1
  /\ UNCHANGED <<about, hits, overlap>>

\* forget_memory by text: every best hit is deleted, one statement each; by id, that row.
Forget(a, f) ==
  /\ Tool(a, "idle", "delete")
  /\ about' = [about EXCEPT ![a] = f]
  /\ hits' = [hits EXCEPT ![a] = IdsOf(f)]
  /\ UNCHANGED <<rows, lastId, overlap>>

ForgetId(a, r) ==
  /\ tool[a] = "idle"
  /\ rows' = rows \ {r}
  /\ UNCHANGED <<lastId, tool, about, hits, overlap>>

Delete(a) ==
  /\ tool[a] = "delete"
  /\ IF hits[a] = {}
       THEN tool' = [tool EXCEPT ![a] = "idle"] /\ UNCHANGED <<rows, hits>>
       ELSE \E i \in hits[a] :
              /\ rows' = {r \in rows : r.id # i}
              /\ hits' = [hits EXCEPT ![a] = @ \ {i}]
              /\ UNCHANGED tool
  /\ UNCHANGED <<lastId, about, overlap>>

FactNext ==
  \E a \in Agents :
    \/ \E f \in Facts : Remember(a, f) \/ Forget(a, f)
    \/ \E r \in rows : ForgetId(a, r)
    \/ FindExact(a) \/ Touch(a) \/ InsertFact(a) \/ Delete(a)

FactSpec == FactInit /\ [][FactNext]_factVars

\* A fact is stored twice only when two turns that remembered it overlapped: one after
\* the other, the second finds the row of the first, whatever is forgotten in between.
FactsAreSingle == \A f \in Facts : Cardinality(IdsOf(f)) > 1 => overlap[f]

==============================================================================
