------------------------------ MODULE Lifecycle ------------------------------
(***************************************************************************)
(* The operator's commands that put nodes up, take them down and upgrade   *)
(* them: gateway and server up, down and upgrade.  Each of them runs       *)
(* a chain of docker commands on the host over SSH, the server commands    *)
(* also call the gateway's API, and the agent in the server's container    *)
(* starts, joins and serves beside them.  The join is one step here (its   *)
(* detail is JoinProtocol's), and so is a request to the API (Registry's). *)
(***************************************************************************)
EXTENDS Naturals, FiniteSets

CONSTANTS
    MaxCommands,  \* bound on the commands that the operator gives at will
    MaxFaults,    \* bound on lost connections and answers, steps that fail, reboots
    MaxRaces      \* bound on server downs that overtake the agent that they stop

ASSUME LifecycleAssumption == MaxCommands \in Nat /\ MaxFaults \in Nat /\ MaxRaces \in Nat

VARIABLES
    role,      \* of the operator's machine: "empty" or "client"
    cmd,       \* the command that runs
    report,    \* how the last command ended
    commands,  \* commands given at will so far
    gateway,   \* the gateway's container and database
    requests,  \* join requests of servers on the gateway
    rows,      \* servers on the gateway
    issued,    \* join requests so far; they and their rows are numbered
    server,    \* the server's container
    disk,      \* token and node in the server's database (0: none)
    network,   \* the docker network on the server's host
    subnet,    \* its subnet: of the node that joined last, or another one
    agent,     \* the process wireport server start
    faults,    \* faults so far
    races      \* server downs so far that the agent was not yet ended for

operatorVars == <<role, cmd, report, commands>>
tables == <<requests, rows, issued>>
hostVars == <<server, disk, network, subnet, agent>>
vars == <<operatorVars, gateway, tables, hostVars, faults, races>>

Names == {"gatewayUp", "gatewayDown", "gatewayUpgrade", "serverUp", "serverDown", "serverUpgrade"}
Steps == {"list", "check", "run", "token", "join", "new", "install", "wait", "svDown", "detach",
          "removeNetwork", "deregister", "wipe", "stop", "rm", "restart"}
Idle == [name |-> "none", at |-> "none", token |-> 0, since |-> 0, races |-> 0, counted |-> {},
         node |-> 0]

Boxes == {"absent", "running", "stopped"}
NoServer == [box |-> "absent", arg |-> 0, up |-> FALSE, files |-> FALSE, wiped |-> FALSE]
NoData == [token |-> 0, node |-> 0]

NoReport == [of |-> "none", as |-> "none", since |-> 0, races |-> 0, node |-> 0]
Reports == {"none", "failed", "refused", "already", "notRunning", "completed", "joined", "incomplete"}

TypeOK ==
    /\ role \in {"empty", "client"}
    /\ cmd \in [name: Names \cup {"none"}, at: Steps \cup {"none"}, token: 0 .. issued,
                since: 0 .. MaxFaults, races: 0 .. MaxRaces, counted: SUBSET (1 .. issued),
                node: 0 .. issued]
    /\ report \in [of: Names \cup {"none"}, as: Reports, since: 0 .. MaxFaults,
                   races: 0 .. MaxRaces, node: 0 .. issued]
    /\ commands \in 0 .. MaxCommands
    /\ gateway \in [box: Boxes, up: BOOLEAN, data: BOOLEAN, knows: BOOLEAN]
    /\ requests \subseteq 1 .. issued
    /\ rows \subseteq 1 .. issued
    /\ server \in [box: Boxes, arg: 0 .. issued, up: BOOLEAN, files: BOOLEAN, wiped: BOOLEAN]
    /\ disk \in [token: 0 .. issued, node: 0 .. issued]
    /\ network \in {"none", "empty", "attached"}
    /\ subnet \in {"own", "other"}
    /\ agent \in {"off", "join", "serve"}
    /\ faults \in 0 .. MaxFaults
    /\ races \in 0 .. MaxRaces

Fault == faults < MaxFaults /\ faults' = faults + 1 /\ UNCHANGED races

At(name, step) == cmd.name = name /\ cmd.at = step
Goto(step) == cmd' = [cmd EXCEPT !.at = step] /\ UNCHANGED report

(* The command ends.  The faults and races before it began are kept, to     *)
(* tell an undisturbed command.                                             *)
End(as) ==
    /\ cmd' = Idle
    /\ report' = [of |-> cmd.name, as |-> as, since |-> cmd.since, races |-> cmd.races,
                  node |-> cmd.node]

(* The control server answers the operator.                                 *)
Reachable == gateway.box = "running" /\ gateway.up
Answers == Reachable /\ gateway.knows

-----------------------------------------------------------------------------
(* The operator gives a command that executeCommand allows for the role.    *)

Allowed(name) == (name = "gatewayUp") = (role = "empty")

FirstStep(name) ==
    CASE name = "gatewayUp" -> "check"
      [] name = "gatewayDown" -> "list"
      [] name = "serverUp" -> "new"
      [] name = "serverDown" -> "check"
      [] OTHER -> "stop"

Begin(name) ==
    /\ cmd = Idle
    /\ Allowed(name)
    /\ cmd' = [Idle EXCEPT !.name = name, !.at = FirstStep(name), !.since = faults,
                            !.races = races]
    /\ report' = NoReport
    /\ UNCHANGED <<role, gateway, tables, hostVars, faults, races>>

Give(name) ==
    /\ commands < MaxCommands
    /\ commands' = commands + 1
    /\ Begin(name)

(* The containers of the host are on a network with the subnet that the     *)
(* gateway routes to this server.                                           *)
Serving == agent = "serve" /\ disk.node \in rows /\ network = "attached" /\ subnet = "own"
MayServe ==
    /\ server.box = "running" /\ server.up
    /\ IF disk.node = 0 THEN disk.token \in requests
       ELSE disk.node \in rows /\ agent # "join" /\ network # "none" /\ subnet = "own"

(* Afterwards the operator only does what the README says: while the server *)
(* does not get there by itself, take it down and put it up again.  With    *)
(* the gateway away or a stopped container in the way that is no use.       *)
Recover ==
    /\ commands = MaxCommands
    /\ ~Serving /\ ~MayServe
    /\ Answers /\ server.box # "stopped"
    /\ Begin(IF server.box = "running" THEN "serverDown" ELSE "serverUp")
    /\ UNCHANGED commands

(* The SSH connection breaks, or a docker command fails whose failure is    *)
(* reported.  Before the command has connected nothing has happened.        *)
SshFails ==
    /\ cmd # Idle
    /\ Fault
    /\ End("failed")
    /\ UNCHANGED <<role, commands, gateway, tables, hostVars>>

-----------------------------------------------------------------------------
(* gateway up *)

GatewayUpCheck ==
    /\ At("gatewayUp", "check")
    /\ IF gateway.box = "running" THEN End("already") ELSE Goto("run")
    /\ UNCHANGED <<role, commands, gateway, tables, hostVars, faults, races>>

(* docker run: the name is taken as long as a stopped container is there.   *)
(* gateway start finds the rows of an old database, or begins a new one.    *)
GatewayRun ==
    /\ At("gatewayUp", "run")
    /\ IF gateway.box = "absent"
       THEN /\ gateway' = [gateway EXCEPT !.box = "running", !.up = TRUE, !.data = TRUE]
            /\ Goto("token")
       ELSE End("failed") /\ UNCHANGED gateway
    /\ UNCHANGED <<role, commands, tables, hostVars, faults, races>>

(* docker exec wireport client new, in the gateway's container.             *)
CreateClientJoinToken ==
    /\ At("gatewayUp", "token")
    /\ Goto("join")
    /\ UNCHANGED <<role, commands, gateway, tables, hostVars, faults, races>>

(* The operator's machine joins as a client.                                *)
ClientJoin ==
    /\ At("gatewayUp", "join")
    /\ role' = "client"
    /\ gateway' = [gateway EXCEPT !.knows = TRUE]
    /\ End("completed")
    /\ UNCHANGED <<commands, tables, hostVars, faults, races>>

(* The join fails: its result is not looked at.                             *)
ClientJoinFails ==
    /\ At("gatewayUp", "join")
    /\ Fault
    /\ End("completed")
    /\ UNCHANGED <<role, commands, gateway, tables, hostVars>>

-----------------------------------------------------------------------------
(* gateway down *)

(* Mistaken variant: servers are counted but do not stop the teardown. *)
GatewayDownListWarns ==
    /\ At("gatewayDown", "list")
    /\ IF ~Answers THEN End("failed")
       ELSE cmd' = [cmd EXCEPT !.at = "check", !.counted = requests] /\ UNCHANGED report
    /\ UNCHANGED <<role, commands, gateway, tables, hostVars, faults, races>>

(* api.ServerList: not with servers.                                        *)
GatewayDownList ==
    /\ At("gatewayDown", "list")
    /\ CASE ~Answers -> End("failed")
         [] Answers /\ rows # {} -> End("refused")
         [] OTHER -> cmd' = [cmd EXCEPT !.at = "check", !.counted = requests] /\ UNCHANGED report
    /\ UNCHANGED <<role, commands, gateway, tables, hostVars, faults, races>>

GatewayDownCheck ==
    /\ At("gatewayDown", "check")
    /\ IF gateway.box = "running" THEN Goto("svDown") ELSE End("notRunning")
    /\ UNCHANGED <<role, commands, gateway, tables, hostVars, faults, races>>

(* down/gateway.hbs: the services, the data, the container.  wireport       *)
(* gateway down in the container does nothing.                              *)
GatewaySvDown ==
    /\ At("gatewayDown", "svDown")
    /\ gateway' = [gateway EXCEPT !.up = FALSE]
    /\ Goto("wipe")
    /\ UNCHANGED <<role, commands, tables, hostVars, faults, races>>

GatewayWipe ==
    /\ At("gatewayDown", "wipe")
    /\ gateway' = [gateway EXCEPT !.data = FALSE, !.knows = FALSE]
    /\ requests' = {}
    /\ rows' = {}
    /\ Goto("stop")
    /\ UNCHANGED <<role, commands, issued, hostVars, faults, races>>

GatewayStop(name) ==
    /\ At(name, "stop")
    /\ IF gateway.box = "absent" THEN End("failed") /\ UNCHANGED gateway
       ELSE gateway' = [gateway EXCEPT !.box = "stopped", !.up = FALSE] /\ Goto("rm")
    /\ UNCHANGED <<role, commands, tables, hostVars, faults, races>>

(* The nodes table of the operator's machine is emptied.                    *)
DeleteAll == role' = "empty"

(* Mistaken variant: the container is stopped and not removed. *)
GatewayDownKeepsContainer ==
    /\ At("gatewayDown", "rm")
    /\ DeleteAll
    /\ End("completed")
    /\ UNCHANGED <<commands, gateway, tables, hostVars, faults, races>>

(* The container is gone, and the operator's machine is reset.             *)
GatewayDownEnds ==
    /\ At("gatewayDown", "rm")
    /\ gateway' = [gateway EXCEPT !.box = "absent"]
    /\ DeleteAll
    /\ End("completed")
    /\ UNCHANGED <<commands, tables, hostVars, faults, races>>

(* A command of the chain fails, or the finish script of a service kills    *)
(* it: "|| true" hides it, and the machine is reset all the same.           *)
GatewayChainStops ==
    /\ cmd.name = "gatewayDown" /\ cmd.at \in {"svDown", "wipe", "stop", "rm"}
    /\ Fault
    /\ DeleteAll
    /\ End("completed")
    /\ UNCHANGED <<commands, gateway, tables, hostVars>>

(* upgrade/gateway.hbs after docker stop (GatewayStop): rm and run.         *)
GatewayRemove ==
    /\ At("gatewayUpgrade", "rm")
    /\ gateway' = [gateway EXCEPT !.box = "absent"]
    /\ Goto("restart")
    /\ UNCHANGED <<role, commands, tables, hostVars, faults, races>>

GatewayRestart ==
    /\ At("gatewayUpgrade", "restart")
    /\ gateway' = [gateway EXCEPT !.box = "running", !.up = TRUE, !.data = TRUE]
    /\ End("completed")
    /\ UNCHANGED <<role, commands, tables, hostVars, faults, races>>

-----------------------------------------------------------------------------
(* server up *)

(* Mistaken variant: the request is not accounted for. *)
ServerNewUncounted ==
    /\ At("serverUp", "new")
    /\ Answers
    /\ requests' = requests \cup {issued + 1}
    /\ Goto("install")
    /\ UNCHANGED <<role, commands, gateway, rows, issued, hostVars, faults, races>>

(* server new over the API.                                                 *)
ServerNew ==
    /\ At("serverUp", "new")
    /\ IF Answers
       THEN /\ issued' = issued + 1
            /\ requests' = requests \cup {issued + 1}
            /\ cmd' = [cmd EXCEPT !.at = "install", !.token = issued + 1]
            /\ UNCHANGED report
       ELSE End("failed") /\ UNCHANGED <<issued, requests>>
    /\ UNCHANGED <<role, commands, gateway, rows, hostVars, faults, races>>

(* The request is made and the answer lost.                                 *)
ServerNewLost ==
    /\ At("serverUp", "new")
    /\ Answers
    /\ Fault
    /\ issued' = issued + 1
    /\ requests' = requests \cup {issued + 1}
    /\ End("failed")
    /\ UNCHANGED <<role, commands, gateway, rows, hostVars>>

(* InstallWireportServer; entry.sh stores the token.                        *)
InstallWireportServer ==
    /\ At("serverUp", "install")
    /\ CASE server.box = "running" -> Goto("wait") /\ UNCHANGED <<server, disk>>
         [] server.box = "stopped" -> End("failed") /\ UNCHANGED <<server, disk>>
         [] OTHER ->
              /\ server' = [NoServer EXCEPT !.box = "running", !.arg = cmd.token, !.up = TRUE]
              /\ disk' = [disk EXCEPT !.token = cmd.token]
              /\ Goto("wait")
    /\ UNCHANGED <<role, commands, gateway, tables, network, subnet, agent, faults, races>>

(* Mistaken variant: a container that runs is taken for a server that joined. *)
WaitForContainer ==
    /\ At("serverUp", "wait")
    /\ IF server.box = "running" THEN End("joined") ELSE End("failed")
    /\ UNCHANGED <<role, commands, gateway, tables, hostVars, faults, races>>

(* WaitForWireportServerJoined: until the configuration files are there, or *)
(* three minutes have passed.                                               *)
WaitForWireportServerJoined ==
    /\ At("serverUp", "wait")
    /\ CASE server.box # "running" -> End("failed")
         [] server.box = "running" /\ server.files -> End("joined")
         [] OTHER -> End("incomplete")
    /\ UNCHANGED <<role, commands, gateway, tables, hostVars, faults, races>>

-----------------------------------------------------------------------------
(* server down *)

ServerDownCheck ==
    /\ At("serverDown", "check")
    /\ IF server.box = "running"
       THEN cmd' = [cmd EXCEPT !.at = "svDown", !.node = disk.node] /\ UNCHANGED report
       ELSE End("notRunning")
    /\ UNCHANGED <<role, commands, gateway, tables, hostVars, faults, races>>

(* Mistaken variant: the data are removed before wireport server down runs. *)
ServerSvDownThenWipe ==
    /\ At("serverDown", "svDown")
    /\ server' = [server EXCEPT !.up = FALSE]
    /\ Goto("wipe")
    /\ UNCHANGED <<role, commands, gateway, tables, disk, network, subnet, agent, faults, races>>

(* down/server.hbs: the services, wireport server down, the data, the       *)
(* container.                                                               *)
ServerSvDown ==
    /\ At("serverDown", "svDown")
    /\ server' = [server EXCEPT !.up = FALSE]
    /\ Goto("detach")
    /\ UNCHANGED <<role, commands, gateway, tables, disk, network, subnet, agent, faults, races>>

Detached == IF network = "none" THEN "none" ELSE "empty"

(* sv does not wait for the agent: this may be too early.                   *)
Overtakes == IF agent = "off" THEN UNCHANGED races ELSE races < MaxRaces /\ races' = races + 1

(* Mistaken variant: the role error ends wireport server down with a        *)
(* status, and the chain with it.                                           *)
DetachNeedsNode ==
    /\ At("serverDown", "detach")
    /\ Overtakes
    /\ IF disk.node = 0 THEN End("completed") /\ UNCHANGED network
       ELSE network' = Detached /\ Goto("removeNetwork")
    /\ UNCHANGED <<role, commands, gateway, tables, server, disk, subnet, agent, faults>>

(* wireport server down in the container: with a node it detaches every     *)
(* container, without one the role is refused and the chain goes on.        *)
DetachDockerNetwork ==
    /\ At("serverDown", "detach")
    /\ Overtakes
    /\ IF disk.node = 0 THEN Goto("wipe") /\ UNCHANGED network
       ELSE network' = Detached /\ Goto("removeNetwork")
    /\ UNCHANGED <<role, commands, gateway, tables, server, disk, subnet, agent, faults>>

(* Docker keeps a network that has endpoints, with its subnet; the error is *)
(* printed.                                                                 *)
RemoveDockerNetwork ==
    /\ At("serverDown", "removeNetwork")
    /\ network' = IF network = "attached" THEN network ELSE "none"
    /\ subnet' = IF network = "attached" THEN subnet ELSE "own"
    /\ Goto("deregister")
    /\ UNCHANGED <<role, commands, gateway, tables, server, disk, agent, faults, races>>

(* Docker fails before the network is removed; the error is printed.        *)
NetworkStays ==
    /\ cmd.name = "serverDown" /\ cmd.at \in {"detach", "removeNetwork"}
    /\ disk.node # 0
    /\ Fault
    /\ Goto("deregister")
    /\ UNCHANGED <<role, commands, gateway, tables, hostVars>>

(* Mistaken variant: the row is left to the operator. *)
DeregisterSkipped ==
    /\ At("serverDown", "deregister")
    /\ Goto("wipe")
    /\ UNCHANGED <<role, commands, gateway, tables, hostVars, faults, races>>

(* api.ServerRemove; what it returns is printed.                            *)
Deregister ==
    /\ At("serverDown", "deregister")
    /\ rows' = IF Reachable THEN rows \ {disk.node} ELSE rows
    /\ Goto("wipe")
    /\ UNCHANGED <<role, commands, gateway, requests, issued, hostVars, faults, races>>

DeregisterFails ==
    /\ At("serverDown", "deregister")
    /\ Fault
    /\ Goto("wipe")
    /\ UNCHANGED <<role, commands, gateway, tables, hostVars>>

ServerWipe ==
    /\ At("serverDown", "wipe")
    /\ disk' = NoData
    /\ server' = [server EXCEPT !.wiped = TRUE]
    /\ Goto("stop")
    /\ UNCHANGED <<role, commands, gateway, tables, network, subnet, agent, faults, races>>

(* docker stop, also the first step of an upgrade.                          *)
ServerStop(name) ==
    /\ At(name, "stop")
    /\ IF server.box = "absent" THEN End("failed") /\ UNCHANGED <<server, agent>>
       ELSE /\ server' = [server EXCEPT !.box = "stopped", !.up = FALSE]
            /\ agent' = "off"
            /\ Goto("rm")
    /\ UNCHANGED <<role, commands, gateway, tables, disk, network, subnet, faults, races>>

ServerDownEnds ==
    /\ At("serverDown", "rm")
    /\ server' = NoServer
    /\ End("completed")
    /\ UNCHANGED <<role, commands, gateway, tables, disk, network, subnet, agent, faults, races>>

(* As in GatewayChainStops; the command is reported as completed.           *)
ServerChainStops ==
    /\ cmd.name = "serverDown" /\ cmd.at \notin {"check"}
    /\ Fault
    /\ End("completed")
    /\ UNCHANGED <<role, commands, gateway, tables, hostVars>>

ServerRemove ==
    /\ At("serverUpgrade", "rm")
    /\ server' = NoServer
    /\ Goto("restart")
    /\ UNCHANGED <<role, commands, gateway, tables, disk, network, subnet, agent, faults, races>>

(* The new container runs server start, without a token.                    *)
ServerRestart ==
    /\ At("serverUpgrade", "restart")
    /\ server' = [NoServer EXCEPT !.box = "running", !.up = TRUE]
    /\ End("completed")
    /\ UNCHANGED <<role, commands, gateway, tables, disk, network, subnet, agent, faults, races>>

-----------------------------------------------------------------------------
(* The agent *)

(* server start: serve with a node, join with a token; with neither the     *)
(* process ends at once, and runit starts it again.                         *)
AgentBoots ==
    /\ agent = "off"
    /\ server.box = "running" /\ server.up
    /\ \/ disk.node # 0 /\ agent' = "serve" /\ server' = [server EXCEPT !.files = TRUE]
       \/ disk.node = 0 /\ disk.token # 0 /\ agent' = "join" /\ UNCHANGED server
    /\ UNCHANGED <<operatorVars, gateway, tables, disk, network, subnet, faults, races>>

JoinAccepted == agent = "join" /\ Reachable /\ disk.token \in requests
Joined == requests' = requests \ {disk.token} /\ rows' = rows \cup {disk.token}

(* EnsureDockerNetworkExistsAndAttached takes a network that is left, with  *)
(* whatever subnet an earlier node gave it.                                 *)
SubnetOnJoin == subnet' \in {"own"} \cup {s \in {"other"} : network # "none"}

Join ==
    /\ JoinAccepted
    /\ Joined
    /\ disk' = [token |-> 0, node |-> disk.token]
    /\ network' = "attached"
    /\ SubnetOnJoin
    /\ server' = [server EXCEPT !.files = TRUE]
    /\ agent' = "serve"
    /\ UNCHANGED <<operatorVars, gateway, issued, faults, races>>

(* The answer is lost, or the node is saved and the docker network is not   *)
(* made or not attached.                                                    *)
JoinFails ==
    /\ JoinAccepted
    /\ Fault
    /\ Joined
    /\ \/ UNCHANGED <<disk, network, subnet>>
       \/ /\ disk' = [disk EXCEPT !.node = disk.token]
          /\ network' \in {network} \cup {n \in {"empty"} : network = "none"}
          /\ SubnetOnJoin
    /\ UNCHANGED <<operatorVars, gateway, issued, server, agent>>

(* A round of the agent: attach the network to every container.             *)
AgentAttaches ==
    /\ agent = "serve"
    /\ network = "empty"
    /\ network' = "attached"
    /\ UNCHANGED <<operatorVars, gateway, tables, server, disk, subnet, agent, faults, races>>

AgentEnds ==
    /\ agent # "off"
    /\ ~server.up
    /\ agent' = "off"
    /\ UNCHANGED <<operatorVars, gateway, tables, server, disk, network, subnet, faults, races>>

(* The host of the server or of the gateway restarts, and with it the       *)
(* containers that were not stopped: entry.sh runs again.                   *)
RebootServer ==
    /\ server.box = "running"
    /\ Fault
    /\ server' = [server EXCEPT !.up = TRUE]
    /\ disk' = IF server.arg = 0 THEN disk ELSE [disk EXCEPT !.token = server.arg]
    /\ agent' = "off"
    /\ IF cmd.name \in {"serverUp", "serverDown", "serverUpgrade"} /\ cmd.at # "new"
       THEN End("failed") ELSE UNCHANGED <<cmd, report>>
    /\ UNCHANGED <<role, commands, gateway, tables, network, subnet>>

RebootGateway ==
    /\ gateway.box = "running"
    /\ Fault
    /\ gateway' = [gateway EXCEPT !.up = TRUE, !.data = TRUE]
    /\ IF cmd.name \in {"gatewayUp", "gatewayDown", "gatewayUpgrade"}
       THEN End("failed") ELSE UNCHANGED <<cmd, report>>
    /\ UNCHANGED <<role, commands, tables, hostVars>>

-----------------------------------------------------------------------------
(* Two hosts with docker and nothing else.                                  *)
Init ==
    /\ role = "empty"
    /\ cmd = Idle
    /\ report = NoReport
    /\ commands = 0
    /\ gateway = [box |-> "absent", up |-> FALSE, data |-> FALSE, knows |-> FALSE]
    /\ requests = {}
    /\ rows = {}
    /\ issued = 0
    /\ server = NoServer
    /\ disk = NoData
    /\ network = "none"
    /\ subnet = "own"
    /\ agent = "off"
    /\ faults = 0
    /\ races = 0

GatewayCommand ==
    \/ GatewayUpCheck \/ GatewayRun \/ CreateClientJoinToken \/ ClientJoin
    \/ GatewayDownList \/ GatewayDownCheck \/ GatewaySvDown \/ GatewayWipe \/ GatewayDownEnds
    \/ GatewayStop("gatewayDown") \/ GatewayStop("gatewayUpgrade") \/ GatewayRemove \/ GatewayRestart

ServerCommand ==
    \/ ServerNew \/ InstallWireportServer \/ WaitForWireportServerJoined
    \/ ServerDownCheck \/ ServerSvDown \/ DetachDockerNetwork \/ RemoveDockerNetwork \/ Deregister
    \/ ServerWipe \/ ServerDownEnds
    \/ ServerStop("serverDown") \/ ServerStop("serverUpgrade") \/ ServerRemove \/ ServerRestart

AgentStep == AgentBoots \/ Join \/ AgentAttaches \/ AgentEnds

Disturbance ==
    \/ SshFails \/ ClientJoinFails \/ GatewayChainStops \/ ServerNewLost \/ NetworkStays
    \/ DeregisterFails \/ ServerChainStops \/ JoinFails \/ RebootServer \/ RebootGateway

Next ==
    \/ \E name \in Names : Give(name)
    \/ Recover
    \/ GatewayCommand \/ ServerCommand \/ AgentStep \/ Disturbance

(* Commands run to their end, runit and the agent's loop go on, and the     *)
(* operator does not give up.                                               *)
Fairness ==
    /\ WF_vars(\E name \in Names : Give(name))
    /\ WF_vars(Recover)
    /\ WF_vars(GatewayCommand)
    /\ WF_vars(ServerCommand)
    /\ WF_vars(AgentStep)

Spec == Init /\ [][Next]_vars /\ Fairness

-----------------------------------------------------------------------------
(* server.go: "remove all the data and configuration from the server node,  *)
(* deregister the server node from the wireport network".  After a server   *)
(* down that no fault disturbed, container and data are gone and, with the  *)
(* gateway up, the row of a server that had joined.  Its docker network may *)
(* only be left when the command overtook the agent, which attaches it.     *)
CleanDown ==
    report.of = "serverDown" /\ report.as = "completed" /\ report.since = faults =>
        /\ server.box = "absent"
        /\ disk = NoData
        /\ report.node # 0 /\ Reachable => report.node \notin rows
        /\ report.node # 0 /\ report.races = races => network = "none"

(* service.go: "Cannot tear down gateway node with active server nodes".    *)
(* The data of the gateway are wiped only with servers that joined, on a    *)
(* request that was already out, after the servers were counted.            *)
GatewayDownSparesServers ==
    [][gateway.data /\ ~gateway'.data => rows \subseteq cmd.counted]_vars

(* local_server.go: "Server has been successfully installed and connected". *)
(* When server up says so, the server has its node, unless its data were    *)
(* wiped in a container that is still there.                                *)
JoinedReport == report.as = "joined" => disk.node # 0 \/ server.wiped

(* A row whose server does not have it as its node needs a fault, or a      *)
(* server down that overtook a join, so rows that block gateway down do not *)
(* pile up by commands alone.                                               *)
OrphansNeedFaults == Cardinality(rows \ {disk.node}) <= faults + races

(* An operator without access to the gateway that runs, between commands,   *)
(* has met a fault: gateway up and down undo each other.                    *)
LockoutNeedsFault == cmd = Idle /\ gateway.box # "absent" /\ faults = 0 => role = "client"

(* README.md: "tear down the failed server (`wireport server down ...`) and *)
(* bootstrap it again".  As long as the gateway answers the operator and no *)
(* stopped container is left, this gets the server to serve, on a docker    *)
(* network with its own subnet, whatever has gone wrong before.             *)
RecoveryWorks ==
    <>[](role = "client" /\ Answers /\ server.box # "stopped") => <>[]Serving
=============================================================================
