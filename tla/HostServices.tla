----------------------------- MODULE HostServices -----------------------------
(***************************************************************************)
(* The local services Ira starts and stops with Docker Compose (ira-api    *)
(* host.rs and the requests of lib.rs over it): which service is marked    *)
(* for the boot, on which port it listens, and which MCP server goes with  *)
(* which service.  The marks live in two files, services.json and mcp.json *)
(* of .ira/config, that each request reads whole and writes whole, without *)
(* a lock and without a temporary file.                                    *)
(*                                                                         *)
(* External: Docker Compose (a container keeps the port it was created     *)
(* with; up --no-recreate starts it as it is) and PostgreSQL.  Abstracted: *)
(* names and descriptions, time outs of a command (a failure), the tables  *)
(* of BUILTIN, ports and variables (operators on one service), .env (the   *)
(* port of the URL), containers that publish no port.                      *)
(***************************************************************************)
EXTENDS Naturals

CONSTANTS
  HostClients,  \* requests of the API, each one at a time
  Ids,          \* services of the catalogue: some of Builtin
  LegacyMarks,  \* sets of services an older Ira may have left marked, in host.json
  NewPorts,     \* ports a user may ask for, besides the default one
  MaxRequests,  \* bound: requests
  MaxHostFaults \* bound: commands that fail and crashes of the process

NoId == "none"
Files == {"services", "mcp"}
Builtin == {"postgres", "toolbox", "ira-realtime", "colibri", "projects-api",
            "projects-mcp", "ira-gateway"}

ASSUME HostAssumption == Ids \subseteq Builtin /\ "postgres" \in Ids

VARIABLES
  disk,        \* the two files: "absent", "torn" (truncated or half written), or items
  oldMarks,    \* host.json: the services it marks, {} when there is none
  containers,  \* per service with a port: made, running, and the port it was made with
  docker,      \* Docker Compose answers
  fresh,       \* the catalogue read from Compose is in the cache of the process
  known,       \* the catalogue is in the table host_services
  urlPort,     \* port of DATABASE_URL, in the environment and in .env
  pool,        \* the process is connected to PostgreSQL
  ask,         \* per client: its request
  asked,       \* how many requests there were
  hostFaults,
  calm,        \* history: no two saves overlapped, none was cut short
  paired       \* history: services marked together with their peer

hostVars == <<disk, oldMarks, containers, docker, fresh, known, urlPort, pool, ask, asked, hostFaults, calm, paired>>

----------------------------------------------------------------------------
\* What the catalogue says of one service.

KindOf(id) == IF id = "projects-mcp" THEN "mcp" ELSE "services"
DefaultPeer(id) == CASE id = "projects-api" -> "projects-mcp"
                     [] id = "projects-mcp" -> "projects-api"
                     [] OTHER -> NoId
ViaGateway == {"ira-realtime", "projects-api", "projects-mcp"}
PublishesPort == {"ira-gateway", "postgres", "toolbox", "colibri"}
DefaultPort == 0
WithPort == Ids \cap PublishesPort
SlowOnes == {"projects-api", "projects-mcp", "ira-gateway"}

\* A catalogue read back from the database has lost its peers.
CatalogPeer(id, full) == IF full THEN DefaultPeer(id) ELSE NoId

BlankItem == [autostart |-> FALSE, port |-> DefaultPort, peer |-> NoId]

Nothing == [id \in {} |-> BlankItem]
Marked(ids) == [id \in ids |-> [BlankItem EXCEPT !.autostart = TRUE]]

\* HostConfig::default: used when neither file is there.
DefaultConfig ==
  [file \in Files |-> IF file = "services" THEN Marked(Ids \cap {"postgres", "toolbox", "ira-gateway"})
                                           ELSE Nothing]

\* read_json: a file that cannot be parsed counts as one without items.
ReadJson(file) == IF file.state = "whole" THEN file.items ELSE Nothing

\* split_legacy: the marks of host.json, and the peers it did not know.
SplitLegacy ==
  [file \in Files |->
     [id \in {i \in oldMarks : KindOf(i) = file} |->
        [BlankItem EXCEPT !.autostart = TRUE, !.peer = DefaultPeer(id)]]]

NoneSaved == \A file \in Files : disk[file].state = "absent"

LoadedConfig ==
  IF NoneSaved
    THEN IF oldMarks = {} THEN DefaultConfig ELSE SplitLegacy
    ELSE [file \in Files |-> ReadJson(disk[file])]

\* load_config saves what it took from host.json.  The two files are written in one step
\* here: the boot is the first to load, before there are requests.
Migrate ==
  disk' = IF NoneSaved /\ oldMarks # {}
            THEN [file \in Files |-> [state |-> "whole", items |-> SplitLegacy[file]]]
            ELSE disk

\* HostConfig::item, item and slot_mut.
ItemOf(cfg, id) ==
  IF id \in DOMAIN cfg["services"] THEN cfg["services"][id]
  ELSE IF id \in DOMAIN cfg["mcp"] THEN cfg["mcp"][id] ELSE BlankItem

WithItem(cfg, id, item) ==
  [cfg EXCEPT ![KindOf(id)] =
     [i \in DOMAIN @ \cup {id} |-> IF i = id THEN item ELSE @[i]]]

Slot(cfg, id) == IF id \in DOMAIN cfg[KindOf(id)] THEN cfg[KindOf(id)][id] ELSE BlankItem

PeerOf(cfg, id, full) ==
  IF ItemOf(cfg, id).peer # NoId THEN ItemOf(cfg, id).peer ELSE CatalogPeer(id, full)

\* unit: a service and the peer that starts and stops with it.
Unit(cfg, id, full) == {id} \cup ({PeerOf(cfg, id, full)} \cap Ids)

\* Mutant: the peer is not kept.
ForgetPeer(item, id, full) == item

\* set_boot and set_meta keep the peer the catalogue knows, for the day it does not.
KeepPeer(item, id, full) ==
  IF item.peer = NoId THEN [item EXCEPT !.peer = CatalogPeer(id, full)] ELSE item

SetBootOf(cfg, ids, on, full) ==
  [file \in Files |->
     [i \in DOMAIN cfg[file] \cup {j \in ids : KindOf(j) = file} |->
        IF i \in ids THEN KeepPeer([Slot(cfg, i) EXCEPT !.autostart = on], i, full)
                     ELSE cfg[file][i]]]

SetMetaOf(cfg, id, full) ==
  WithItem(cfg, id, KeepPeer(Slot(cfg, id), id, full))

SetPortOf(cfg, id, port) == WithItem(cfg, id, [Slot(cfg, id) EXCEPT !.port = port])

\* What set_port refuses, and what it does not: a port for a service without one.
TakesPort(id) == id \notin ViaGateway /\ id \in PublishesPort

Operations ==
  [op : {"start", "stop", "bootOn", "bootOff", "meta"}, id : Ids, port : {DefaultPort}]
    \cup [op : {"port"}, id : {i \in Ids : TakesPort(i)}, port : NewPorts]
    \cup [op : {"startMarked"}, id : {NoId}, port : {DefaultPort}]

NoRequest == [pc |-> "idle"]

----------------------------------------------------------------------------
HostInit ==
  /\ disk = [file \in Files |-> [state |-> "absent", items |-> Nothing]]
  /\ containers = [id \in WithPort |-> [made |-> FALSE, runs |-> FALSE, port |-> DefaultPort]]
  /\ oldMarks \in LegacyMarks \cup {{}}
  /\ docker = TRUE /\ fresh = FALSE /\ known = FALSE
  /\ urlPort = DefaultPort /\ pool = FALSE
  /\ ask = [c \in HostClients |-> NoRequest]
  /\ asked = 0 /\ hostFaults = 0 /\ calm = TRUE /\ paired = {}

Goto(c, pc) == ask' = [ask EXCEPT ![c].pc = pc]
Work(c, pc, ids) == ask' = [ask EXCEPT ![c].pc = pc, ![c].todo = ids]
Finish(c) == ask' = [ask EXCEPT ![c] = NoRequest]
Here(c, pc) == ask[c].pc = pc
Saving(c) == ask[c].pc \in {"saveServices", "writeServices", "saveMcp", "writeMcp"}

\* discover_catalog: Compose is asked, and what it says is kept for twenty seconds.
Discovered == pool /\ (fresh \/ docker)

\* service_catalog: from Compose, and then stored; or the stored one; or the built-in one.
Request(c) ==
  /\ Here(c, "idle") /\ asked < MaxRequests
  /\ asked' = asked + 1
  /\ fresh' = (fresh \/ Discovered)
  /\ known' = (known \/ Discovered)
  /\ \E r \in Operations :
       ask' = [ask EXCEPT ![c] =
                 [pc |-> IF r.op \in {"start", "stop", "startMarked"} THEN "plan" ELSE "edit",
                  op |-> r.op, id |-> r.id, port |-> r.port, full |-> ~pool \/ Discovered \/ ~known,
                  cfg |-> DefaultConfig, todo |-> {}]]
  /\ UNCHANGED <<disk, oldMarks, containers, docker, urlPort, pool, hostFaults, calm, paired>>

\* cached_catalog: DISCOVER_TTL has passed.
CatalogAges ==
  /\ fresh /\ fresh' = FALSE
  /\ UNCHANGED <<disk, oldMarks, containers, docker, known, urlPort, pool, ask, asked, hostFaults, calm, paired>>

\* set_boot, set_meta, set_port: load, change, save.
Edit(c) ==
  /\ Here(c, "edit")
  /\ LET r == ask[c]
         cfg == CASE r.op = "bootOn" -> SetBootOf(LoadedConfig, Unit(LoadedConfig, r.id, r.full), TRUE, r.full)
                  [] r.op = "bootOff" -> SetBootOf(LoadedConfig, Unit(LoadedConfig, r.id, r.full), FALSE, r.full)
                  [] r.op = "meta" -> SetMetaOf(LoadedConfig, r.id, r.full)
                  [] r.op = "port" -> SetPortOf(LoadedConfig, r.id, r.port)
     IN /\ ask' = [ask EXCEPT ![c].pc = "saveServices", ![c].cfg = cfg]
        /\ paired' = IF r.op \in {"bootOn", "bootOff"} /\ r.full
                       THEN paired \cup {u \in Unit(LoadedConfig, r.id, r.full) : DefaultPeer(u) # NoId}
                       ELSE paired
  /\ calm' = (calm /\ ~\E o \in HostClients : Saving(o))
  /\ Migrate
  /\ UNCHANGED <<oldMarks, containers, docker, fresh, known, urlPort, pool, asked, hostFaults>>

\* save_config, one file after the other; fs::write truncates and then writes.
SaveAt(file) == IF file = "services" THEN "saveServices" ELSE "saveMcp"
WriteAt(file) == IF file = "services" THEN "writeServices" ELSE "writeMcp"

Truncate(c, file) ==
  /\ Here(c, SaveAt(file))
  /\ disk' = [disk EXCEPT ![file] = [state |-> "torn", items |-> Nothing]]
  /\ Goto(c, WriteAt(file))
  /\ UNCHANGED <<oldMarks, containers, docker, fresh, known, urlPort, pool, asked, hostFaults, calm, paired>>

Write(c, file) ==
  /\ Here(c, WriteAt(file))
  /\ disk' = [disk EXCEPT ![file] = [state |-> "whole", items |-> ask[c].cfg[file]]]
  /\ IF file = "services" THEN Goto(c, "saveMcp")
     ELSE IF ask[c].op = "port" THEN Goto(c, "publish") ELSE Finish(c)
  /\ UNCHANGED <<oldMarks, containers, docker, fresh, known, urlPort, pool, asked, hostFaults, calm, paired>>

SaveFails(c) ==
  /\ ask[c].pc \in {"saveServices", "saveMcp"} /\ hostFaults < MaxHostFaults
  /\ hostFaults' = hostFaults + 1 /\ calm' = FALSE
  /\ Finish(c)
  /\ UNCHANGED <<disk, oldMarks, containers, docker, fresh, known, urlPort, pool, asked, paired>>

SaveConfig(c) ==
  \/ \E file \in Files : Truncate(c, file) \/ Write(c, file)
  \/ SaveFails(c)

\* publish_env: for PostgreSQL the URL of the next connection moves to the port.
PublishEnv(c) ==
  /\ Here(c, "publish")
  /\ urlPort' = IF ask[c].id = "postgres" THEN ask[c].port ELSE urlPort
  /\ Work(c, "up", {ask[c].id})
  /\ UNCHANGED <<disk, oldMarks, containers, docker, fresh, known, pool, asked, hostFaults, calm, paired>>

\* start_one and stop_one: the service and its peer.  start: every marked one and its peer.
Wanted(r) == Unit(LoadedConfig, r.id, r.full)
AllMarked(r) ==
  UNION {Unit(LoadedConfig, i, r.full) : i \in {j \in Ids : ItemOf(LoadedConfig, j).autostart}}

Plan(c) ==
  /\ Here(c, "plan")
  /\ LET r == ask[c]
         ids == IF r.op = "startMarked" THEN AllMarked(r) ELSE Wanted(r)
     IN Work(c, IF ids = {} THEN "settle" ELSE IF r.op = "stop" THEN "down" ELSE "up", ids)
  /\ Migrate
  /\ UNCHANGED <<oldMarks, containers, docker, fresh, known, urlPort, pool, asked, hostFaults, calm, paired>>

\* compose up -d --no-recreate: the quick ones first when the boot starts them all.
\* docker_command loads the files once more for the ports.
ComposeUp(c) ==
  /\ Here(c, "up") /\ docker
  /\ LET todo == ask[c].todo
         fast == IF ask[c].op = "startMarked" /\ todo \ SlowOnes # {} THEN todo \ SlowOnes ELSE todo
     IN /\ containers' = [i \in WithPort |->
             IF i \notin fast THEN containers[i]
             ELSE [made |-> TRUE, runs |-> TRUE,
                   port |-> IF containers[i].made THEN containers[i].port
                                                  ELSE ItemOf(LoadedConfig, i).port]]
        /\ Work(c, IF todo = fast THEN "settle" ELSE "up", todo \ fast)
  /\ UNCHANGED <<disk, oldMarks, docker, fresh, known, urlPort, pool, asked, hostFaults, calm, paired>>

ComposeStop(c) ==
  /\ Here(c, "down") /\ docker
  /\ containers' = [i \in WithPort |-> IF i \in ask[c].todo THEN [containers[i] EXCEPT !.runs = FALSE]
                                                       ELSE containers[i]]
  /\ Finish(c)
  /\ UNCHANGED <<disk, oldMarks, docker, fresh, known, urlPort, pool, asked, hostFaults, calm, paired>>

\* The command fails: the rest of the request is not done, and the answer says so.
ComposeFails(c) ==
  /\ ask[c].pc \in {"up", "down"}
  /\ ~docker \/ hostFaults < MaxHostFaults
  /\ hostFaults' = IF docker THEN hostFaults + 1 ELSE hostFaults
  /\ Finish(c)
  /\ UNCHANGED <<disk, oldMarks, containers, docker, fresh, known, urlPort, pool, asked, calm, paired>>

\* After a start or a new port of PostgreSQL, and after a boot that had PostgreSQL to
\* start: connect to the URL.
BootedDatabase(r) == r.op = "startMarked" /\ ItemOf(LoadedConfig, "postgres").autostart
Reachable == containers["postgres"].runs /\ containers["postgres"].port = urlPort
Settle(c) ==
  /\ Here(c, "settle")
  /\ pool' = IF ask[c].id = "postgres"
                \/ BootedDatabase(ask[c])
               THEN Reachable ELSE pool
  /\ Finish(c)
  /\ UNCHANGED <<disk, oldMarks, containers, docker, fresh, known, urlPort, asked, hostFaults, calm, paired>>

\* The server is killed and started again; Docker stops or comes back.
HostCrash ==
  /\ hostFaults < MaxHostFaults
  /\ hostFaults' = hostFaults + 1
  /\ calm' = (calm /\ ~\E c \in HostClients : Saving(c))
  /\ ask' = [c \in HostClients |-> NoRequest]
  /\ pool' = Reachable /\ fresh' = FALSE
  /\ UNCHANGED <<disk, oldMarks, containers, docker, known, urlPort, asked, paired>>

Daemon ==
  /\ docker' = ~docker /\ hostFaults < MaxHostFaults
  /\ hostFaults' = hostFaults + 1
  /\ UNCHANGED <<disk, oldMarks, containers, fresh, known, urlPort, pool, ask, asked, calm, paired>>

Progress(c) ==
  \/ Edit(c) \/ SaveConfig(c) \/ PublishEnv(c) \/ Plan(c)
  \/ ComposeUp(c) \/ ComposeStop(c) \/ ComposeFails(c) \/ Settle(c)

HostNext == (\E c \in HostClients : Request(c) \/ Progress(c)) \/ CatalogAges \/ HostCrash \/ Daemon

HostSpec == HostInit /\ [][HostNext]_hostVars

----------------------------------------------------------------------------
\* host.rs says that an MCP server and its local service go together: once a pair has been
\* marked for the boot as a pair, it is marked or unmarked as a pair ever after, even by
\* requests that find the catalogue in the database only, without its peers.
PairsMarkedTogether ==
  (~\E c \in HostClients : Saving(c)) /\ calm =>
    \A id \in paired : DefaultPeer(id) \in Ids =>
      ItemOf(LoadedConfig, id).autostart = ItemOf(LoadedConfig, DefaultPeer(id)).autostart

==============================================================================
