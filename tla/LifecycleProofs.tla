-------------------------- MODULE LifecycleProofs ---------------------------
(***************************************************************************)
(* The operator's commands for any number of commands and faults: what     *)
(* their reports promise, whom gateway down spares, and what it takes to   *)
(* be locked out or to leave an orphaned row behind.                       *)
(***************************************************************************)
EXTENDS Lifecycle, FiniteSetTheorems, TLAPS

(* The types, as sets of the records with numbers up to n.                  *)
Cmds(n) ==
    [name: Names \cup {"none"}, at: Steps \cup {"none"}, token: 0 .. n, since: 0 .. MaxFaults,
     races: 0 .. MaxRaces, counted: SUBSET (1 .. n), node: 0 .. n]
ReportsOf(n) == [of: Names \cup {"none"}, as: Reports, since: 0 .. MaxFaults,
                 races: 0 .. MaxRaces, node: 0 .. n]
Gateways == [box: Boxes, up: BOOLEAN, data: BOOLEAN, knows: BOOLEAN]
Servers(n) == [box: Boxes, arg: 0 .. n, up: BOOLEAN, files: BOOLEAN, wiped: BOOLEAN]
Disks(n) == [token: 0 .. n, node: 0 .. n]

TypeInv ==
    /\ issued \in Nat
    /\ role \in {"empty", "client"}
    /\ cmd \in Cmds(issued)
    /\ report \in ReportsOf(issued)
    /\ commands \in 0 .. MaxCommands
    /\ gateway \in Gateways
    /\ requests \in SUBSET (1 .. issued)
    /\ rows \in SUBSET (1 .. issued)
    /\ server \in Servers(issued)
    /\ disk \in Disks(issued)
    /\ network \in {"none", "empty", "attached"}
    /\ subnet \in {"own", "other"}
    /\ agent \in {"off", "join", "serve"}
    /\ faults \in 0 .. MaxFaults
    /\ races \in 0 .. MaxRaces

(* A command that runs has not reported yet, and began before the faults    *)
(* that it met.                                                             *)
OneAtATime ==
    /\ cmd.name # "none" => report = NoReport
    /\ cmd.since <= faults /\ cmd.races <= races
    /\ report.since <= faults /\ report.races <= races

(* No process without a container that runs, docker rm comes after docker   *)
(* stop, and services that server down has stopped stay down.               *)
AgentInBox ==
    /\ server.box # "running" => agent = "off" /\ ~server.up
    /\ cmd.name \in {"serverDown", "serverUpgrade"} /\ cmd.at = "rm" => server.box # "running"
    /\ cmd.name = "serverDown" /\ cmd.at \in {"detach", "removeNetwork", "deregister", "wipe"} =>
          ~server.up

(* The configuration files come with the node.                              *)
FilesNeedNode == server.files => disk.node # 0 \/ server.wiped

(* An agent that joins although the node is saved has used up its request.  *)
JoinedOnce == agent = "join" /\ disk.node # 0 => disk.token \notin requests

(* From the count of the servers to the wipe only the requests that were    *)
(* out can become rows, and after it there is neither.                      *)
Counted ==
    cmd.name = "gatewayDown" =>
        /\ cmd.at \in {"check", "svDown", "wipe"} => rows \cup requests \subseteq cmd.counted
        /\ cmd.at \in {"stop", "rm"} => rows = {} /\ requests = {}

(* Without a fault, a machine that is no client has no gateway, or is       *)
(* putting it up.                                                           *)
EmptyHasNone ==
    faults = 0 /\ role = "empty" =>
        IF cmd.name = "none" THEN gateway.box = "absent"
        ELSE /\ cmd.name = "gatewayUp"
             /\ cmd.at \in {"check", "run"} => gateway.box = "absent"

(* What an undisturbed server down has done before each of its steps, and   *)
(* what one that has not overtaken the agent has done besides.              *)
DownSoFar ==
    cmd.name = "serverDown" /\ cmd.since = faults =>
        /\ cmd.at \in {"svDown", "detach", "removeNetwork", "deregister", "wipe"} /\ cmd.node # 0 =>
              disk.node = cmd.node
        /\ cmd.at \in {"wipe", "stop", "rm"} /\ cmd.node # 0 /\ Reachable => cmd.node \notin rows
        /\ cmd.at \in {"stop", "rm"} => disk = NoData /\ ~server.up
        /\ cmd.races = races =>
              /\ cmd.at \in {"removeNetwork", "deregister", "wipe", "stop", "rm"} => agent = "off"
              /\ cmd.at = "removeNetwork" => network # "attached"
              /\ cmd.at = "deregister" => network = "none"
              /\ cmd.at \in {"wipe", "stop", "rm"} /\ cmd.node # 0 => network = "none"

(* The row of the server is about to lose its server, and no more faults    *)
(* are needed for that: server down cannot reach the gateway, or is about   *)
(* to wipe the data without having removed the row.                         *)
GatewayOnItsWay ==
    \/ At("gatewayDown", "wipe")
    \/ cmd.name = "gatewayUpgrade" /\ cmd.at \in {"rm", "restart"}

Doomed ==
    \/ disk.node \in rows /\ ~Reachable /\ ~GatewayOnItsWay
    \/ At("serverDown", "wipe") /\ (disk.node \in rows \/ (disk.node = 0 /\ agent = "join"))

NodeBeforeDeregister ==
    cmd.name = "serverDown" /\ cmd.at \in {"removeNetwork", "deregister"} => disk.node # 0

GatewayStillUp == cmd.name = "gatewayDown" /\ cmd.at \in {"check", "svDown"} => Reachable

OrphansPaid == Cardinality(rows \ {disk.node}) + (IF Doomed THEN 1 ELSE 0) <= faults + races

-----------------------------------------------------------------------------
(* Types *)

(* A command that goes on is a command.                                     *)
LEMMA CmdFields ==
    ASSUME NEW n \in Nat, NEW c \in Cmds(n), NEW step \in Steps, NEW s \in SUBSET (1 .. n),
           NEW k \in 0 .. n
    PROVE  /\ [c EXCEPT !.at = step] \in Cmds(n)
           /\ [c EXCEPT !.at = step, !.counted = s] \in Cmds(n)
           /\ [c EXCEPT !.at = step, !.token = k] \in Cmds(n)
           /\ [c EXCEPT !.at = step, !.node = k] \in Cmds(n)
  BY DEF Cmds

(* What the commands set in the record of the gateway keeps it one.         *)
LEMMA GatewayFields ==
    ASSUME NEW g \in Gateways, NEW b \in Boxes, NEW u \in BOOLEAN
    PROVE  /\ [g EXCEPT !.up = u] \in Gateways
           /\ [g EXCEPT !.box = b] \in Gateways
           /\ [g EXCEPT !.knows = u] \in Gateways
           /\ [g EXCEPT !.data = u, !.knows = u] \in Gateways
           /\ [g EXCEPT !.up = u, !.data = u] \in Gateways
           /\ [g EXCEPT !.box = b, !.up = u] \in Gateways
           /\ [g EXCEPT !.box = b, !.up = u, !.data = u] \in Gateways
  BY DEF Gateways

(* The same for the record of the server.                                   *)
LEMMA ServerFields ==
    ASSUME NEW n \in Nat, NEW s \in Servers(n), NEW b \in Boxes, NEW u \in BOOLEAN, NEW a \in 0 .. n
    PROVE  /\ [s EXCEPT !.up = u] \in Servers(n)
           /\ [s EXCEPT !.files = u] \in Servers(n)
           /\ [s EXCEPT !.wiped = u] \in Servers(n)
           /\ [s EXCEPT !.box = b, !.up = u] \in Servers(n)
           /\ [s EXCEPT !.box = b, !.arg = a, !.up = u] \in Servers(n)
  BY DEF Servers

(* The blank records have the types of what they stand for.                 *)
LEMMA Blanks ==
    ASSUME NEW n \in Nat
    PROVE  /\ Idle \in Cmds(n) /\ NoReport \in ReportsOf(n)
           /\ NoServer \in Servers(n) /\ NoData \in Disks(n)
<1>1. Idle \in Cmds(n)
  BY LifecycleAssumption, SMT DEF Idle, Cmds
<1>2. NoReport \in ReportsOf(n)
  BY LifecycleAssumption, SMT DEF NoReport, ReportsOf, Reports
<1>3. NoServer \in Servers(n)
  BY SMT DEF NoServer, Servers, Boxes
<1>4. NoData \in Disks(n)
  BY SMT DEF NoData, Disks
<1> QED BY <1>1, <1>2, <1>3, <1>4

(* A number more does no harm.                                              *)
LEMMA Widen ==
    ASSUME NEW n \in Nat
    PROVE  /\ Cmds(n) \subseteq Cmds(n + 1)
           /\ ReportsOf(n) \subseteq ReportsOf(n + 1)
           /\ Servers(n) \subseteq Servers(n + 1)
           /\ Disks(n) \subseteq Disks(n + 1)
<1>1. Cmds(n) \subseteq Cmds(n + 1)
  BY DEF Cmds
<1>2. ReportsOf(n) \subseteq ReportsOf(n + 1)
  BY DEF ReportsOf
<1>3. Servers(n) \subseteq Servers(n + 1)
  BY DEF Servers
<1>4. Disks(n) \subseteq Disks(n + 1)
  BY DEF Disks
<1> QED BY <1>1, <1>2, <1>3, <1>4

(* The types of the fields, for proofs that do not open the records.        *)
LEMMA Fields ==
    ASSUME TypeInv
    PROVE  /\ cmd.name \in Names \cup {"none"} /\ cmd.at \in Steps \cup {"none"}
           /\ cmd.since \in 0 .. MaxFaults /\ cmd.counted \in SUBSET (1 .. issued)
           /\ cmd.token \in 0 .. issued /\ cmd.node \in 0 .. issued
           /\ report.since \in 0 .. MaxFaults
           /\ cmd.races \in 0 .. MaxRaces /\ report.races \in 0 .. MaxRaces
           /\ disk.token \in 0 .. issued /\ disk.node \in 0 .. issued
           /\ server.arg \in 0 .. issued
           /\ server.box \in Boxes /\ gateway.box \in Boxes
           /\ faults \in Nat /\ races \in Nat
  BY LifecycleAssumption DEF TypeInv, Cmds, ReportsOf, Gateways, Servers, Disks

(* A step to another step of the command keeps the types.                   *)
LEMMA GotoType ==
    ASSUME TypeInv, NEW step \in Steps, Goto(step)
    PROVE  cmd' \in Cmds(issued) /\ report' \in ReportsOf(issued)
<1>1. {} \in SUBSET (1 .. issued) /\ 0 \in 0 .. issued
  BY DEF TypeInv
<1>2. [cmd EXCEPT !.at = step] \in Cmds(issued)
  BY <1>1, CmdFields DEF TypeInv
<1> QED BY <1>2 DEF TypeInv, Goto

(* So does its end.                                                         *)
LEMMA EndType ==
    ASSUME TypeInv, NEW as \in Reports, End(as)
    PROVE  cmd' \in Cmds(issued) /\ report' \in ReportsOf(issued)
<1>1. cmd' \in Cmds(issued)
  BY Blanks DEF TypeInv, End
<1>2. [of |-> cmd.name, as |-> as, since |-> cmd.since, races |-> cmd.races, node |-> cmd.node]
         \in ReportsOf(issued)
  BY Fields DEF ReportsOf
<1> QED BY <1>1, <1>2 DEF End

(* Types through the steps of gateway up, down and upgrade.                 *)
LEMMA GatewayType ==
    ASSUME TypeInv, GatewayCommand
    PROVE  TypeInv'
<1> USE LifecycleAssumption DEF TypeInv, Steps, Boxes, Reports, operatorVars, tables, hostVars,
            At, Fault
<1>1. CASE GatewayUpCheck BY <1>1, GotoType, EndType DEF GatewayUpCheck
<1>2. CASE GatewayRun BY <1>2, GotoType, EndType, GatewayFields DEF GatewayRun
<1>3. CASE CreateClientJoinToken BY <1>3, GotoType DEF CreateClientJoinToken
<1>4. CASE ClientJoin BY <1>4, EndType, GatewayFields DEF ClientJoin
<1>5. CASE GatewayDownList
  <2>1. requests \in SUBSET (1 .. issued) /\ 0 \in 0 .. issued /\ "check" \in Steps
    OBVIOUS
  <2>2. [cmd EXCEPT !.at = "check", !.counted = requests] \in Cmds(issued)
    BY <2>1, CmdFields
  <2>3. cmd' \in Cmds(issued) /\ report' \in ReportsOf(issued)
    <3>1. CASE ~Answers BY <1>5, <3>1, EndType DEF GatewayDownList
    <3>2. CASE Answers /\ rows # {} BY <1>5, <3>2, EndType DEF GatewayDownList
    <3>3. CASE Answers /\ rows = {} BY <1>5, <3>3, <2>2 DEF GatewayDownList
    <3> QED BY <3>1, <3>2, <3>3
  <2> QED BY <1>5, <2>3 DEF GatewayDownList
<1>6. CASE GatewayDownCheck BY <1>6, GotoType, EndType DEF GatewayDownCheck
<1>7. CASE GatewaySvDown BY <1>7, GotoType, GatewayFields DEF GatewaySvDown
<1>8. CASE GatewayWipe BY <1>8, GotoType, GatewayFields DEF GatewayWipe
<1>9. CASE GatewayDownEnds BY <1>9, EndType, GatewayFields DEF GatewayDownEnds, DeleteAll
<1>10. CASE GatewayRemove BY <1>10, GotoType, GatewayFields DEF GatewayRemove
<1>11. CASE GatewayRestart BY <1>11, EndType, GatewayFields DEF GatewayRestart
<1>12. CASE GatewayStop("gatewayDown") BY <1>12, GotoType, EndType, GatewayFields DEF GatewayStop
<1>13. CASE GatewayStop("gatewayUpgrade") BY <1>13, GotoType, EndType, GatewayFields DEF GatewayStop
<1> QED BY <1>1, <1>2, <1>3, <1>4, <1>5, <1>6, <1>7, <1>8, <1>9, <1>10, <1>11, <1>12, <1>13 DEF
    GatewayCommand

(* Types through the steps of server up, down and upgrade.                  *)
LEMMA ServerType ==
    ASSUME TypeInv, ServerCommand
    PROVE  TypeInv'
<1> USE LifecycleAssumption DEF TypeInv, Steps, Boxes, Reports, operatorVars, tables, hostVars,
            At, Fault
<1>1. CASE ServerNew
  <2>1. Cmds(issued) \subseteq Cmds(issued + 1) /\ ReportsOf(issued) \subseteq ReportsOf(issued + 1)
        /\ Servers(issued) \subseteq Servers(issued + 1) /\ Disks(issued) \subseteq Disks(issued + 1)
    BY Widen
  <2>2. 1 .. issued \subseteq 1 .. issued + 1 /\ issued + 1 \in 1 .. issued + 1
    OBVIOUS
  <2>3. CASE Answers
    <3>1. issued' = issued + 1 /\ requests' = requests \cup {issued + 1} /\ report' = report
          /\ cmd' = [cmd EXCEPT !.at = "install", !.token = issued + 1]
      BY <1>1, <2>3 DEF ServerNew
    <3>2. cmd \in Cmds(issued + 1) /\ issued + 1 \in 0 .. issued + 1
          /\ {} \in SUBSET (1 .. issued + 1) /\ issued + 1 \in Nat /\ "install" \in Steps
      BY <2>1
    <3>3. [cmd EXCEPT !.at = "install", !.token = issued + 1] \in Cmds(issued + 1)
      BY <3>2, CmdFields, Zenon
    <3> QED BY <1>1, <2>1, <2>2, <3>1, <3>3 DEF ServerNew
  <2>4. CASE ~Answers
    <3>1. End("failed") /\ UNCHANGED <<issued, requests>>
      BY <1>1, <2>4 DEF ServerNew
    <3> QED BY <1>1, <3>1, EndType DEF ServerNew
  <2> QED BY <2>3, <2>4
<1>2. CASE InstallWireportServer
  <2>1. cmd' \in Cmds(issued) /\ report' \in ReportsOf(issued)
    BY <1>2, GotoType, EndType DEF InstallWireportServer
  <2>2. [NoServer EXCEPT !.box = "running", !.arg = cmd.token, !.up = TRUE] \in Servers(issued)
    BY ServerFields, Blanks, Fields
  <2>3. [disk EXCEPT !.token = cmd.token] \in Disks(issued)
    BY Fields DEF Disks
  <2>4. server' \in Servers(issued) /\ disk' \in Disks(issued)
    BY <1>2, <2>2, <2>3 DEF InstallWireportServer
  <2> QED BY <1>2, <2>1, <2>4 DEF InstallWireportServer
<1>3. CASE WaitForWireportServerJoined BY <1>3, EndType DEF WaitForWireportServerJoined
<1>4. CASE ServerDownCheck
  <2>1. {} \in SUBSET (1 .. issued) /\ disk.node \in 0 .. issued
    BY Fields
  <2>2. [cmd EXCEPT !.at = "svDown", !.node = disk.node] \in Cmds(issued)
    BY <2>1, CmdFields
  <2>3. cmd' \in Cmds(issued) /\ report' \in ReportsOf(issued)
    BY <1>4, <2>2, EndType DEF ServerDownCheck
  <2> QED BY <1>4, <2>3 DEF ServerDownCheck
<1>5. CASE ServerSvDown BY <1>5, GotoType, ServerFields, Blanks, Fields DEF ServerSvDown
<1>6. CASE DetachDockerNetwork BY <1>6, GotoType DEF DetachDockerNetwork, Detached, Overtakes
<1>7. CASE RemoveDockerNetwork BY <1>7, GotoType DEF RemoveDockerNetwork
<1>8. CASE Deregister BY <1>8, GotoType DEF Deregister
<1>9. CASE ServerWipe BY <1>9, GotoType, ServerFields, Blanks, Fields DEF ServerWipe
<1>10. CASE ServerDownEnds BY <1>10, EndType, ServerFields, Blanks, Fields DEF ServerDownEnds
<1>11. CASE ServerRemove BY <1>11, GotoType, ServerFields, Blanks, Fields DEF ServerRemove
<1>12. CASE ServerRestart BY <1>12, EndType, ServerFields, Blanks, Fields DEF ServerRestart
<1>13. CASE ServerStop("serverDown")
  <2>1. cmd' \in Cmds(issued) /\ report' \in ReportsOf(issued)
    BY <1>13, GotoType, EndType DEF ServerStop
  <2>2. [server EXCEPT !.box = "stopped", !.up = FALSE] \in Servers(issued)
    BY ServerFields, Fields
  <2> QED BY <1>13, <2>1, <2>2 DEF ServerStop
<1>14. CASE ServerStop("serverUpgrade")
  <2>1. cmd' \in Cmds(issued) /\ report' \in ReportsOf(issued)
    BY <1>14, GotoType, EndType DEF ServerStop
  <2>2. [server EXCEPT !.box = "stopped", !.up = FALSE] \in Servers(issued)
    BY ServerFields, Fields
  <2> QED BY <1>14, <2>1, <2>2 DEF ServerStop
<1> QED BY <1>1, <1>2, <1>3, <1>4, <1>5, <1>6, <1>7, <1>8, <1>9, <1>10, <1>11, <1>12, <1>13, <1>14
    DEF ServerCommand

(* Types through the steps of the agent.                                    *)
LEMMA AgentType ==
    ASSUME TypeInv, AgentStep
    PROVE  TypeInv'
<1> USE LifecycleAssumption DEF TypeInv, Steps, Boxes, Reports, operatorVars, tables, hostVars,
            At, Fault
<1>1. CASE AgentBoots BY <1>1, ServerFields, Fields DEF AgentBoots
<1>2. CASE Join
  <2>1. disk.token \in 1 .. issued
    BY <1>2 DEF Join, JoinAccepted
  <2>2. [token |-> 0, node |-> disk.token] \in Disks(issued)
    BY <2>1 DEF Disks
  <2>3. [server EXCEPT !.files = TRUE] \in Servers(issued)
    BY ServerFields, Fields
  <2> QED BY <1>2, <2>1, <2>2, <2>3 DEF Join, Joined, SubnetOnJoin
<1>3. CASE AgentAttaches BY <1>3 DEF AgentAttaches
<1>4. CASE AgentEnds BY <1>4 DEF AgentEnds
<1> QED BY <1>1, <1>2, <1>3, <1>4 DEF AgentStep

(* Types through faults.                                                    *)
LEMMA DisturbanceType ==
    ASSUME TypeInv, Disturbance
    PROVE  TypeInv'
<1> USE LifecycleAssumption DEF TypeInv, Steps, Boxes, Reports, operatorVars, tables, hostVars,
            At, Fault
<1>1. CASE SshFails BY <1>1, EndType DEF SshFails
<1>2. CASE ClientJoinFails BY <1>2, EndType DEF ClientJoinFails
<1>3. CASE GatewayChainStops BY <1>3, EndType DEF GatewayChainStops, DeleteAll
<1>4. CASE ServerNewLost
  <2>1. Cmds(issued) \subseteq Cmds(issued + 1) /\ ReportsOf(issued) \subseteq ReportsOf(issued + 1)
        /\ Servers(issued) \subseteq Servers(issued + 1) /\ Disks(issued) \subseteq Disks(issued + 1)
    BY Widen
  <2>2. 1 .. issued \subseteq 1 .. issued + 1 /\ issued + 1 \in 1 .. issued + 1
    OBVIOUS
  <2>3. cmd' \in Cmds(issued) /\ report' \in ReportsOf(issued)
    BY <1>4, EndType DEF ServerNewLost
  <2> QED BY <1>4, <2>1, <2>2, <2>3 DEF ServerNewLost
<1>5. CASE NetworkStays BY <1>5, GotoType DEF NetworkStays
<1>6. CASE DeregisterFails BY <1>6, GotoType DEF DeregisterFails
<1>7. CASE ServerChainStops BY <1>7, EndType DEF ServerChainStops
<1>8. CASE JoinFails
  <2>1. disk.token \in 1 .. issued
    BY <1>8 DEF JoinFails, JoinAccepted, SubnetOnJoin
  <2>2. [disk EXCEPT !.node = disk.token] \in Disks(issued)
    BY <2>1 DEF Disks
  <2>3. disk' \in Disks(issued)
    BY <1>8, <2>2 DEF JoinFails
  <2> QED BY <1>8, <2>1, <2>3 DEF JoinFails, Joined, SubnetOnJoin
<1>9. CASE RebootServer
  <2>1. cmd' \in Cmds(issued) /\ report' \in ReportsOf(issued)
    BY <1>9, EndType DEF RebootServer
  <2>2. [server EXCEPT !.up = TRUE] \in Servers(issued)
    BY ServerFields, Fields
  <2>3. [disk EXCEPT !.token = server.arg] \in Disks(issued)
    BY Fields DEF Disks
  <2> QED BY <1>9, <2>1, <2>2, <2>3 DEF RebootServer
<1>10. CASE RebootGateway
  <2>1. cmd' \in Cmds(issued) /\ report' \in ReportsOf(issued)
    BY <1>10, EndType DEF RebootGateway
  <2>2. [gateway EXCEPT !.up = TRUE, !.data = TRUE] \in Gateways
    BY GatewayFields
  <2> QED BY <1>10, <2>1, <2>2 DEF RebootGateway
<1> QED BY <1>1, <1>2, <1>3, <1>4, <1>5, <1>6, <1>7, <1>8, <1>9, <1>10 DEF Disturbance

(* The operator begins a command.                                           *)
LEMMA BeginFields ==
    ASSUME TypeInv, NEW name \in Names, Begin(name)
    PROVE  /\ cmd'.name = name /\ cmd'.at = FirstStep(name) /\ cmd'.since = faults
           /\ cmd'.races = races
           /\ cmd'.counted = {} /\ cmd'.token = 0 /\ cmd'.node = 0
           /\ cmd.name = "none"
           /\ cmd' \in Cmds(issued)
<1>1. cmd'.name = name /\ cmd'.at = FirstStep(name) /\ cmd'.since = faults /\ cmd'.counted = {}
      /\ cmd'.races = races /\ cmd'.token = 0 /\ cmd'.node = 0
  BY DEF Begin, Idle
<1>2. FirstStep(name) \in Steps
  BY DEF FirstStep, Steps, Names
<1>3. cmd' = [name |-> name, at |-> FirstStep(name), token |-> 0, since |-> faults, races |-> races,
              counted |-> {}, node |-> 0]
  BY DEF Begin, Idle
<1>4. cmd' \in Cmds(issued)
  BY <1>2, <1>3 DEF Cmds, TypeInv
<1>5. cmd.name = "none"
  BY DEF Begin, Idle
<1> QED BY <1>1, <1>4, <1>5

(* Types when the operator begins a command.                                *)
LEMMA OperatorType ==
    ASSUME TypeInv, Recover \/ \E name \in Names : Give(name)
    PROVE  TypeInv'
<1> USE LifecycleAssumption DEF TypeInv, tables, hostVars
<1>1. ASSUME NEW name \in Names, Begin(name), commands' \in 0 .. MaxCommands PROVE TypeInv'
  BY <1>1, BeginFields, Blanks DEF Begin
<1>2. ASSUME NEW name \in Names, Give(name) PROVE TypeInv'
  <2>1. Begin(name) /\ commands' \in 0 .. MaxCommands
    BY <1>2 DEF Give
  <2> QED BY <2>1, <1>1
<1>3. CASE Recover
  <2>1. "serverDown" \in Names /\ "serverUp" \in Names
    BY DEF Names
  <2>2. commands' \in 0 .. MaxCommands
    BY <1>3 DEF Recover
  <2>3. Begin("serverDown") \/ Begin("serverUp")
    BY <1>3 DEF Recover
  <2> QED BY <2>1, <2>2, <2>3, <1>1
<1> QED BY <1>2, <1>3

(* The types hold at first.                                                 *)
LEMMA InitType == Init => TypeInv
<1> SUFFICES ASSUME Init PROVE TypeInv
  OBVIOUS
<1>1. gateway \in Gateways
  BY SMT DEF Init, Gateways, Boxes
<1> QED BY <1>1, Blanks, LifecycleAssumption DEF Init, TypeInv

(* Every step keeps the types.                                              *)
LEMMA NextType == TypeInv /\ [Next]_vars => TypeInv'
<1>1. TypeInv /\ UNCHANGED vars => TypeInv'
  BY DEF vars, operatorVars, tables, hostVars, TypeInv
<1> QED BY <1>1, OperatorType, GatewayType, ServerType, AgentType, DisturbanceType DEF Next

-----------------------------------------------------------------------------
(* What Goto and End do to the command and the report.                      *)
LEMMA GotoFields ==
    ASSUME TypeInv, NEW step, Goto(step)
    PROVE  /\ cmd'.at = step
           /\ cmd'.name = cmd.name /\ cmd'.since = cmd.since /\ cmd'.counted = cmd.counted
           /\ cmd'.token = cmd.token /\ cmd'.node = cmd.node /\ cmd'.races = cmd.races
           /\ report' = report
  BY DEF TypeInv, Cmds, Goto

(* The report is about the command that ends.                               *)
LEMMA EndFields ==
    ASSUME NEW as, End(as)
    PROVE  /\ cmd'.name = "none" /\ cmd'.at = "none" /\ cmd'.since = 0 /\ cmd'.races = 0
           /\ report'.of = cmd.name /\ report'.as = as
           /\ report'.since = cmd.since /\ report'.node = cmd.node /\ report'.races = cmd.races
  BY DEF End, Idle

(* The other ways in which a command goes on.                               *)
LEMMA CountFields ==
    ASSUME TypeInv, NEW step, NEW x, cmd' = [cmd EXCEPT !.at = step, !.counted = x]
    PROVE  /\ cmd'.at = step /\ cmd'.name = cmd.name /\ cmd'.since = cmd.since
           /\ cmd'.counted = x /\ cmd'.node = cmd.node /\ cmd'.races = cmd.races
  BY DEF TypeInv, Cmds

(* A command that gets its token.                                           *)
LEMMA TokenFields ==
    ASSUME TypeInv, NEW step, NEW x, cmd' = [cmd EXCEPT !.at = step, !.token = x]
    PROVE  /\ cmd'.at = step /\ cmd'.name = cmd.name /\ cmd'.since = cmd.since
           /\ cmd'.counted = cmd.counted /\ cmd'.node = cmd.node /\ cmd'.races = cmd.races
  BY DEF TypeInv, Cmds

(* A command that remembers the node of the server.                         *)
LEMMA NodeFields ==
    ASSUME TypeInv, NEW step, NEW x, cmd' = [cmd EXCEPT !.at = step, !.node = x]
    PROVE  /\ cmd'.at = step /\ cmd'.name = cmd.name /\ cmd'.since = cmd.since
           /\ cmd'.counted = cmd.counted /\ cmd'.node = x /\ cmd'.races = cmd.races
  BY DEF TypeInv, Cmds

(* gateway down ends, or has counted: there was no row, and the requests    *)
(* are kept.                                                                *)
LEMMA ListFields ==
    ASSUME TypeInv, GatewayDownList
    PROVE  \/ End("failed") \/ End("refused")
           \/ /\ Answers /\ rows = {}
              /\ cmd'.name = cmd.name /\ cmd'.at = "check" /\ cmd'.since = cmd.since
              /\ cmd'.counted = requests /\ cmd'.node = cmd.node /\ cmd'.races = cmd.races
              /\ report' = report
<1>1. CASE ~Answers BY <1>1 DEF GatewayDownList
<1>2. CASE Answers /\ rows # {} BY <1>2 DEF GatewayDownList
<1>3. CASE Answers /\ rows = {} BY <1>3, CountFields DEF GatewayDownList
<1> QED BY <1>1, <1>2, <1>3

(* server up ends, or has a request with a new number.                      *)
LEMMA NewFields ==
    ASSUME TypeInv, ServerNew
    PROVE  \/ End("failed") /\ UNCHANGED <<issued, requests>>
           \/ /\ cmd'.name = cmd.name /\ cmd'.at = "install" /\ cmd'.since = cmd.since
              /\ cmd'.counted = cmd.counted /\ cmd'.node = cmd.node /\ cmd'.races = cmd.races
              /\ report' = report
              /\ requests' = requests \cup {issued + 1}
              /\ disk.token # issued + 1
<1>1. CASE ~Answers BY <1>1 DEF ServerNew
<1>2. CASE Answers
  <2>1. cmd' = [cmd EXCEPT !.at = "install", !.token = issued + 1] /\ report' = report
        /\ requests' = requests \cup {issued + 1}
    BY <1>2 DEF ServerNew
  <2>2. disk.token # issued + 1
    BY Fields DEF TypeInv
  <2> QED BY <2>1, <2>2, TokenFields
<1> QED BY <1>1, <1>2

(* server down ends, or remembers the node that it takes down.              *)
LEMMA DownCheckFields ==
    ASSUME TypeInv, ServerDownCheck
    PROVE  \/ server.box # "running" /\ End("notRunning")
           \/ /\ server.box = "running"
              /\ cmd'.name = cmd.name /\ cmd'.at = "svDown" /\ cmd'.since = cmd.since
              /\ cmd'.counted = cmd.counted /\ cmd'.node = disk.node /\ cmd'.races = cmd.races
              /\ report' = report
<1>1. CASE server.box = "running" 
  <2>1. cmd' = [cmd EXCEPT !.at = "svDown", !.node = disk.node] /\ report' = report
    BY <1>1 DEF ServerDownCheck
  <2> QED BY <1>1, <2>1, NodeFields
<1>2. CASE server.box # "running" BY <1>2 DEF ServerDownCheck
<1> QED BY <1>1, <1>2

-----------------------------------------------------------------------------
(* The server's container, its files and its node *)

Server ==
    /\ OneAtATime
    /\ AgentInBox
    /\ FilesNeedNode
    /\ JoinedReport
    /\ JoinedOnce

(* The gateway commands do not touch the container of the server.           *)
LEMMA GatewayServer ==
    ASSUME TypeInv, Server, GatewayCommand
    PROVE  Server'
<1> USE LifecycleAssumption, Fields DEF Server, OneAtATime, AgentInBox, FilesNeedNode,
            JoinedReport, JoinedOnce, operatorVars, tables, hostVars, At, Fault
<1>1. CASE GatewayUpCheck BY <1>1, GotoFields, EndFields DEF GatewayUpCheck
<1>2. CASE GatewayRun BY <1>2, GotoFields, EndFields DEF GatewayRun
<1>3. CASE CreateClientJoinToken BY <1>3, GotoFields DEF CreateClientJoinToken
<1>4. CASE ClientJoin BY <1>4, EndFields DEF ClientJoin
<1>5. CASE GatewayDownList BY <1>5, ListFields, EndFields DEF GatewayDownList
<1>6. CASE GatewayDownCheck BY <1>6, GotoFields, EndFields DEF GatewayDownCheck
<1>7. CASE GatewaySvDown BY <1>7, GotoFields DEF GatewaySvDown
<1>8. CASE GatewayWipe BY <1>8, GotoFields DEF GatewayWipe, TypeInv
<1>9. CASE GatewayDownEnds BY <1>9, EndFields DEF GatewayDownEnds, DeleteAll
<1>10. CASE GatewayRemove BY <1>10, GotoFields DEF GatewayRemove
<1>11. CASE GatewayRestart BY <1>11, EndFields DEF GatewayRestart
<1>12. CASE GatewayStop("gatewayDown") BY <1>12, GotoFields, EndFields DEF GatewayStop
<1>13. CASE GatewayStop("gatewayUpgrade") BY <1>13, GotoFields, EndFields DEF GatewayStop
<1> QED BY <1>1, <1>2, <1>3, <1>4, <1>5, <1>6, <1>7, <1>8, <1>9, <1>10, <1>11, <1>12, <1>13 DEF
    GatewayCommand

(* The server commands: data and container go together.                     *)
LEMMA ServerServer ==
    ASSUME TypeInv, Server, ServerCommand
    PROVE  Server'
<1> USE LifecycleAssumption, Fields DEF Server, OneAtATime, AgentInBox, FilesNeedNode,
            JoinedReport, JoinedOnce, operatorVars, tables, hostVars, At, Fault
<1>1. CASE ServerNew BY <1>1, NewFields, EndFields DEF ServerNew
<1>2. CASE InstallWireportServer
  <2>1. CASE server.box = "running" \/ server.box = "stopped"
    BY <1>2, <2>1, GotoFields, EndFields DEF InstallWireportServer
  <2>2. CASE server.box = "absent"
    <3>1. server' = [NoServer EXCEPT !.box = "running", !.arg = cmd.token, !.up = TRUE]
          /\ disk' = [disk EXCEPT !.token = cmd.token] /\ Goto("wait")
      BY <1>2, <2>2 DEF InstallWireportServer
    <3>2. server'.box = "running" /\ ~server'.files
      BY <3>1 DEF NoServer
    <3>3. agent' = "off"
      BY <1>2, <2>2 DEF InstallWireportServer
    <3> QED BY <1>2, <3>1, <3>2, <3>3, GotoFields DEF InstallWireportServer, NoReport
  <2> QED BY <2>1, <2>2 DEF Boxes
<1>3. CASE WaitForWireportServerJoined BY <1>3, EndFields DEF WaitForWireportServerJoined, TypeInv
<1>4. CASE ServerDownCheck BY <1>4, DownCheckFields, EndFields DEF ServerDownCheck
<1>5. CASE ServerSvDown BY <1>5, GotoFields DEF ServerSvDown, TypeInv, Servers
<1>6. CASE DetachDockerNetwork BY <1>6, GotoFields DEF DetachDockerNetwork, Detached, Overtakes, TypeInv
<1>7. CASE RemoveDockerNetwork BY <1>7, GotoFields DEF RemoveDockerNetwork, TypeInv
<1>8. CASE Deregister BY <1>8, GotoFields DEF Deregister, TypeInv
<1>9. CASE ServerWipe BY <1>9, GotoFields DEF ServerWipe, NoData, TypeInv, Servers, Disks
<1>10. CASE ServerDownEnds BY <1>10, EndFields DEF ServerDownEnds, NoServer, TypeInv, Servers
<1>11. CASE ServerRemove BY <1>11, GotoFields DEF ServerRemove, NoServer, NoReport
<1>12. CASE ServerRestart
  <2>1. server'.box = "running" /\ ~server'.files
    BY <1>12 DEF ServerRestart, NoServer
  <2> QED BY <1>12, <2>1, EndFields DEF ServerRestart
<1>13. CASE ServerStop("serverDown")
  <2>1. CASE server.box = "absent" BY <1>13, <2>1, EndFields DEF ServerStop
  <2>2. CASE server.box # "absent"
    <3>1. server' = [server EXCEPT !.box = "stopped", !.up = FALSE] /\ agent' = "off" /\ Goto("rm")
      BY <1>13, <2>2 DEF ServerStop
    <3>2. server'.box = "stopped" /\ ~server'.up /\ server'.files = server.files
          /\ server'.wiped = server.wiped
      BY <3>1 DEF TypeInv, Servers
    <3> QED BY <1>13, <3>1, <3>2, GotoFields DEF ServerStop
  <2> QED BY <2>1, <2>2
<1>14. CASE ServerStop("serverUpgrade")
  <2>1. CASE server.box = "absent" BY <1>14, <2>1, EndFields DEF ServerStop
  <2>2. CASE server.box # "absent"
    <3>1. server' = [server EXCEPT !.box = "stopped", !.up = FALSE] /\ agent' = "off" /\ Goto("rm")
      BY <1>14, <2>2 DEF ServerStop
    <3>2. server'.box = "stopped" /\ ~server'.up /\ server'.files = server.files
          /\ server'.wiped = server.wiped
      BY <3>1 DEF TypeInv, Servers
    <3> QED BY <1>14, <3>1, <3>2, GotoFields DEF ServerStop
  <2> QED BY <2>1, <2>2
<1> QED BY <1>1, <1>2, <1>3, <1>4, <1>5, <1>6, <1>7, <1>8, <1>9, <1>10, <1>11, <1>12, <1>13, <1>14
    DEF ServerCommand

(* The agent writes the files after the node.                               *)
LEMMA AgentServer ==
    ASSUME TypeInv, Server, AgentStep
    PROVE  Server'
<1> USE LifecycleAssumption, Fields DEF Server, OneAtATime, AgentInBox, FilesNeedNode,
            JoinedReport, JoinedOnce, operatorVars, tables, hostVars, At, Fault
<1>1. CASE AgentBoots BY <1>1 DEF AgentBoots, TypeInv, Servers
<1>2. CASE Join BY <1>2 DEF Join, JoinAccepted, Joined, TypeInv, Servers, Disks
<1>3. CASE AgentAttaches BY <1>3 DEF AgentAttaches, TypeInv
<1>4. CASE AgentEnds BY <1>4 DEF AgentEnds, TypeInv
<1> QED BY <1>1, <1>2, <1>3, <1>4 DEF AgentStep

(* Faults: a reboot ends the command that it meets.                         *)
LEMMA DisturbanceServer ==
    ASSUME TypeInv, Server, Disturbance
    PROVE  Server'
<1> USE LifecycleAssumption, Fields DEF Server, OneAtATime, AgentInBox, FilesNeedNode,
            JoinedReport, JoinedOnce, operatorVars, tables, hostVars, At, Fault
<1>1. CASE SshFails BY <1>1, EndFields DEF SshFails, TypeInv
<1>2. CASE ClientJoinFails BY <1>2, EndFields DEF ClientJoinFails, TypeInv
<1>3. CASE GatewayChainStops BY <1>3, EndFields DEF GatewayChainStops, DeleteAll, TypeInv
<1>4. CASE ServerNewLost BY <1>4, EndFields DEF ServerNewLost, TypeInv
<1>5. CASE NetworkStays BY <1>5, GotoFields DEF NetworkStays, TypeInv
<1>6. CASE DeregisterFails BY <1>6, GotoFields DEF DeregisterFails, TypeInv
<1>7. CASE ServerChainStops BY <1>7, EndFields DEF ServerChainStops, TypeInv
<1>8. CASE JoinFails BY <1>8 DEF JoinFails, JoinAccepted, Joined, TypeInv, Disks
<1>9. CASE RebootServer BY <1>9, EndFields DEF RebootServer, TypeInv, Servers, Disks
<1>10. CASE RebootGateway BY <1>10, EndFields DEF RebootGateway, TypeInv
<1> QED BY <1>1, <1>2, <1>3, <1>4, <1>5, <1>6, <1>7, <1>8, <1>9, <1>10 DEF Disturbance

-----------------------------------------------------------------------------
(* The commands for the gateway *)

GatewaySide ==
    /\ Counted
    /\ EmptyHasNone
    /\ GatewayStillUp
    /\ NodeBeforeDeregister

(* The gateway commands: the servers are counted before the wipe, and       *)
(* gateway up ends as client.                                               *)
LEMMA GatewayGateway ==
    ASSUME TypeInv, GatewaySide, GatewayCommand
    PROVE  GatewaySide'
<1> USE LifecycleAssumption, Fields DEF GatewaySide, Counted, EmptyHasNone, GatewayStillUp,
            NodeBeforeDeregister, Reachable, operatorVars, tables, hostVars, At, Fault
<1>1. CASE GatewayUpCheck BY <1>1, GotoFields, EndFields DEF GatewayUpCheck
<1>2. CASE GatewayRun BY <1>2, GotoFields, EndFields DEF GatewayRun, TypeInv, Gateways
<1>3. CASE CreateClientJoinToken BY <1>3, GotoFields DEF CreateClientJoinToken
<1>4. CASE ClientJoin BY <1>4, EndFields DEF ClientJoin, TypeInv, Gateways
<1>5. CASE GatewayDownList BY <1>5, ListFields, EndFields DEF GatewayDownList, Answers
<1>6. CASE GatewayDownCheck BY <1>6, GotoFields, EndFields DEF GatewayDownCheck
<1>7. CASE GatewaySvDown BY <1>7, GotoFields DEF GatewaySvDown, TypeInv, Gateways
<1>8. CASE GatewayWipe BY <1>8, GotoFields DEF GatewayWipe, TypeInv, Gateways
<1>9. CASE GatewayDownEnds BY <1>9, EndFields DEF GatewayDownEnds, DeleteAll, TypeInv, Gateways
<1>10. CASE GatewayRemove BY <1>10, GotoFields DEF GatewayRemove, TypeInv, Gateways
<1>11. CASE GatewayRestart BY <1>11, EndFields DEF GatewayRestart, TypeInv, Gateways
<1>12. CASE GatewayStop("gatewayDown")
  BY <1>12, GotoFields, EndFields DEF GatewayStop, TypeInv, Gateways
<1>13. CASE GatewayStop("gatewayUpgrade")
  BY <1>13, GotoFields, EndFields DEF GatewayStop, TypeInv, Gateways
<1> QED BY <1>1, <1>2, <1>3, <1>4, <1>5, <1>6, <1>7, <1>8, <1>9, <1>10, <1>11, <1>12, <1>13 DEF
    GatewayCommand

(* The server commands make requests only while gateway down does not run.  *)
LEMMA ServerGateway ==
    ASSUME TypeInv, GatewaySide, ServerCommand
    PROVE  GatewaySide'
<1> USE LifecycleAssumption, Fields DEF GatewaySide, Counted, EmptyHasNone, GatewayStillUp,
            NodeBeforeDeregister, Reachable, operatorVars, tables, hostVars, At, Fault
<1>1. CASE ServerNew BY <1>1, NewFields, EndFields DEF ServerNew
<1>2. CASE InstallWireportServer BY <1>2, GotoFields, EndFields DEF InstallWireportServer
<1>3. CASE WaitForWireportServerJoined BY <1>3, EndFields DEF WaitForWireportServerJoined
<1>4. CASE ServerDownCheck BY <1>4, DownCheckFields, EndFields DEF ServerDownCheck
<1>5. CASE ServerSvDown BY <1>5, GotoFields DEF ServerSvDown
<1>6. CASE DetachDockerNetwork BY <1>6, GotoFields DEF DetachDockerNetwork, Detached, Overtakes
<1>7. CASE RemoveDockerNetwork BY <1>7, GotoFields DEF RemoveDockerNetwork
<1>8. CASE Deregister BY <1>8, GotoFields DEF Deregister
<1>9. CASE ServerWipe BY <1>9, GotoFields DEF ServerWipe, NoData
<1>10. CASE ServerDownEnds BY <1>10, EndFields DEF ServerDownEnds
<1>11. CASE ServerRemove BY <1>11, GotoFields DEF ServerRemove
<1>12. CASE ServerRestart BY <1>12, EndFields DEF ServerRestart
<1>13. CASE ServerStop("serverDown") BY <1>13, GotoFields, EndFields DEF ServerStop
<1>14. CASE ServerStop("serverUpgrade") BY <1>14, GotoFields, EndFields DEF ServerStop
<1> QED BY <1>1, <1>2, <1>3, <1>4, <1>5, <1>6, <1>7, <1>8, <1>9, <1>10, <1>11, <1>12, <1>13, <1>14
    DEF ServerCommand

(* A join turns a request that was counted into a row.                      *)
LEMMA AgentGateway ==
    ASSUME TypeInv, GatewaySide, AgentStep
    PROVE  GatewaySide'
<1> USE LifecycleAssumption, Fields DEF GatewaySide, Counted, EmptyHasNone, GatewayStillUp,
            NodeBeforeDeregister, Reachable, operatorVars, tables, hostVars, At, Fault
<1>1. CASE AgentBoots BY <1>1 DEF AgentBoots
<1>2. CASE Join BY <1>2 DEF Join, JoinAccepted, Joined, TypeInv, Disks
<1>3. CASE AgentAttaches BY <1>3 DEF AgentAttaches
<1>4. CASE AgentEnds BY <1>4 DEF AgentEnds
<1> QED BY <1>1, <1>2, <1>3, <1>4 DEF AgentStep

(* Faults: what they break off has not lost count of the servers.           *)
LEMMA DisturbanceGateway ==
    ASSUME TypeInv, GatewaySide, Disturbance
    PROVE  GatewaySide'
<1> USE LifecycleAssumption, Fields DEF GatewaySide, Counted, EmptyHasNone, GatewayStillUp,
            NodeBeforeDeregister, Reachable, operatorVars, tables, hostVars, At, Fault
<1>1. CASE SshFails BY <1>1, EndFields DEF SshFails
<1>2. CASE ClientJoinFails BY <1>2, EndFields DEF ClientJoinFails
<1>3. CASE GatewayChainStops BY <1>3, EndFields DEF GatewayChainStops, DeleteAll
<1>4. CASE ServerNewLost BY <1>4, EndFields DEF ServerNewLost
<1>5. CASE NetworkStays BY <1>5, GotoFields DEF NetworkStays
<1>6. CASE DeregisterFails BY <1>6, GotoFields DEF DeregisterFails
<1>7. CASE ServerChainStops BY <1>7, EndFields DEF ServerChainStops
<1>8. CASE JoinFails BY <1>8 DEF JoinFails, JoinAccepted, Joined, TypeInv, Disks
<1>9. CASE RebootServer BY <1>9, EndFields DEF RebootServer, TypeInv, Disks
<1>10. CASE RebootGateway BY <1>10, EndFields DEF RebootGateway, TypeInv, Gateways
<1> QED BY <1>1, <1>2, <1>3, <1>4, <1>5, <1>6, <1>7, <1>8, <1>9, <1>10 DEF Disturbance

-----------------------------------------------------------------------------
(* An undisturbed server down *)

DownSide == DownSoFar /\ CleanDown

(* The gateway commands begin after the report of server down is gone.      *)
LEMMA GatewayDown ==
    ASSUME TypeInv, Server, DownSide, GatewayCommand
    PROVE  DownSide'
<1> USE LifecycleAssumption, Fields DEF DownSide, DownSoFar, CleanDown, Server, OneAtATime,
            AgentInBox, Reachable, NoReport, operatorVars, tables, hostVars, At, Fault
<1>1. CASE GatewayUpCheck BY <1>1, GotoFields, EndFields DEF GatewayUpCheck
<1>2. CASE GatewayRun BY <1>2, GotoFields, EndFields DEF GatewayRun
<1>3. CASE CreateClientJoinToken BY <1>3, GotoFields DEF CreateClientJoinToken
<1>4. CASE ClientJoin BY <1>4, EndFields DEF ClientJoin
<1>5. CASE GatewayDownList BY <1>5, ListFields, EndFields DEF GatewayDownList
<1>6. CASE GatewayDownCheck BY <1>6, GotoFields, EndFields DEF GatewayDownCheck
<1>7. CASE GatewaySvDown BY <1>7, GotoFields DEF GatewaySvDown
<1>8. CASE GatewayWipe BY <1>8, GotoFields DEF GatewayWipe
<1>9. CASE GatewayDownEnds BY <1>9, EndFields DEF GatewayDownEnds, DeleteAll
<1>10. CASE GatewayRemove BY <1>10, GotoFields DEF GatewayRemove
<1>11. CASE GatewayRestart BY <1>11, EndFields DEF GatewayRestart
<1>12. CASE GatewayStop("gatewayDown") BY <1>12, GotoFields, EndFields DEF GatewayStop
<1>13. CASE GatewayStop("gatewayUpgrade") BY <1>13, GotoFields, EndFields DEF GatewayStop
<1> QED BY <1>1, <1>2, <1>3, <1>4, <1>5, <1>6, <1>7, <1>8, <1>9, <1>10, <1>11, <1>12, <1>13 DEF
    GatewayCommand

(* The steps of server down, one after the other.                           *)
LEMMA ServerDown ==
    ASSUME TypeInv, Server, DownSide, ServerCommand
    PROVE  DownSide'
<1> USE LifecycleAssumption, Fields DEF DownSide, DownSoFar, CleanDown, Server, OneAtATime,
            AgentInBox, Reachable, NoReport, operatorVars, tables, hostVars, At, Fault
<1>1. CASE ServerNew BY <1>1, NewFields, EndFields DEF ServerNew
<1>2. CASE InstallWireportServer BY <1>2, GotoFields, EndFields DEF InstallWireportServer
<1>3. CASE WaitForWireportServerJoined BY <1>3, EndFields DEF WaitForWireportServerJoined
<1>4. CASE ServerDownCheck BY <1>4, DownCheckFields, EndFields DEF ServerDownCheck
<1>5. CASE ServerSvDown BY <1>5, GotoFields DEF ServerSvDown, TypeInv, Servers
<1>6. CASE DetachDockerNetwork BY <1>6, GotoFields DEF DetachDockerNetwork, Detached, Overtakes
<1>7. CASE RemoveDockerNetwork BY <1>7, GotoFields DEF RemoveDockerNetwork, TypeInv
<1>8. CASE Deregister BY <1>8, GotoFields DEF Deregister
<1>9. CASE ServerWipe BY <1>9, GotoFields DEF ServerWipe, TypeInv, Servers
<1>10. CASE ServerDownEnds BY <1>10, EndFields DEF ServerDownEnds, NoServer
<1>11. CASE ServerRemove BY <1>11, GotoFields DEF ServerRemove
<1>12. CASE ServerRestart BY <1>12, EndFields DEF ServerRestart
<1>13. CASE ServerStop("serverDown")
  <2>1. CASE server.box = "absent" BY <1>13, <2>1, EndFields DEF ServerStop
  <2>2. CASE server.box # "absent"
    <3>1. server' = [server EXCEPT !.box = "stopped", !.up = FALSE] /\ agent' = "off" /\ Goto("rm")
      BY <1>13, <2>2 DEF ServerStop
    <3>2. ~server'.up
      BY <3>1 DEF TypeInv, Servers
    <3> QED BY <1>13, <3>1, <3>2, GotoFields DEF ServerStop
  <2> QED BY <2>1, <2>2
<1>14. CASE ServerStop("serverUpgrade")
  BY <1>14, GotoFields, EndFields DEF ServerStop, TypeInv, Servers
<1> QED BY <1>1, <1>2, <1>3, <1>4, <1>5, <1>6, <1>7, <1>8, <1>9, <1>10, <1>11, <1>12, <1>13, <1>14
    DEF ServerCommand

(* The agent is off, or cannot do harm yet.                                 *)
LEMMA AgentDown ==
    ASSUME TypeInv, Server, DownSide, AgentStep
    PROVE  DownSide'
<1> USE LifecycleAssumption, Fields DEF DownSide, DownSoFar, CleanDown, Server, OneAtATime,
            AgentInBox, Reachable, NoReport, operatorVars, tables, hostVars, At, Fault
<1>1. CASE AgentBoots BY <1>1 DEF AgentBoots, TypeInv, Servers
<1>2. CASE Join
  <2>1. agent = "join" /\ disk.token \in requests /\ UNCHANGED <<cmd, report, faults, races>>
    BY <1>2 DEF Join, JoinAccepted
  <2>2. disk.node = 0 /\ disk.token # 0
    BY <2>1 DEF JoinedOnce, TypeInv
  <2>3. disk # NoData
    BY <2>2 DEF NoData
  <2>4. server.box # "absent"
    BY <2>1
  <2>5. CleanDown'
    BY <2>1, <2>4
  <2>6. cmd.name = "serverDown" /\ cmd.since = faults =>
            /\ cmd.at \notin {"stop", "rm"}
            /\ cmd.at \in {"svDown", "detach", "removeNetwork", "deregister", "wipe"} => cmd.node = 0
            /\ cmd.races = races => cmd.at \notin {"removeNetwork", "deregister", "wipe"}
    BY <2>1, <2>2, <2>3
  <2>7. DownSoFar'
    BY <2>1, <2>6
  <2> QED BY <2>5, <2>7
<1>3. CASE AgentAttaches BY <1>3 DEF AgentAttaches
<1>4. CASE AgentEnds BY <1>4 DEF AgentEnds
<1> QED BY <1>1, <1>2, <1>3, <1>4 DEF AgentStep

(* Faults: the command is not undisturbed any more.                         *)
LEMMA DisturbanceDown ==
    ASSUME TypeInv, Server, DownSide, Disturbance
    PROVE  DownSide'
<1> USE LifecycleAssumption, Fields DEF DownSide, DownSoFar, CleanDown, Server, OneAtATime,
            AgentInBox, Reachable, NoReport, operatorVars, tables, hostVars, At, Fault
<1>1. CASE SshFails BY <1>1, EndFields DEF SshFails
<1>2. CASE ClientJoinFails BY <1>2, EndFields DEF ClientJoinFails
<1>3. CASE GatewayChainStops BY <1>3, EndFields DEF GatewayChainStops, DeleteAll
<1>4. CASE ServerNewLost BY <1>4, EndFields DEF ServerNewLost
<1>5. CASE NetworkStays BY <1>5, GotoFields DEF NetworkStays
<1>6. CASE DeregisterFails BY <1>6, GotoFields DEF DeregisterFails
<1>7. CASE ServerChainStops BY <1>7, EndFields DEF ServerChainStops
<1>8. CASE JoinFails BY <1>8 DEF JoinFails, JoinAccepted, Joined
<1>9. CASE RebootServer BY <1>9, EndFields DEF RebootServer
<1>10. CASE RebootGateway BY <1>10, EndFields DEF RebootGateway
<1> QED BY <1>1, <1>2, <1>3, <1>4, <1>5, <1>6, <1>7, <1>8, <1>9, <1>10 DEF Disturbance

-----------------------------------------------------------------------------
(* Orphaned rows and their price *)

Orphans == rows \ {disk.node}
Credit == IF Doomed THEN 1 ELSE 0
Price == faults + races

(* The orphans are finitely many, and one row more is at most one orphan    *)
(* more.                                                                    *)
LEMMA OrphansFinite ==
    ASSUME TypeInv
    PROVE  /\ IsFiniteSet(Orphans) /\ Cardinality(Orphans) \in Nat
           /\ \A x : IsFiniteSet(Orphans \cup {x})
                     /\ Cardinality(Orphans \cup {x}) \in Nat
                     /\ Cardinality(Orphans \cup {x}) <= Cardinality(Orphans) + 1
<1>1. IsFiniteSet(1 .. issued)
  BY FS_Interval DEF TypeInv
<1>2. Orphans \in SUBSET (1 .. issued)
  BY DEF TypeInv, Orphans
<1>3. IsFiniteSet(Orphans)
  BY <1>1, <1>2, FS_Subset
<1>4. Cardinality(Orphans) \in Nat
  BY <1>3, FS_CardinalityType
<1>5. ASSUME NEW x
      PROVE  /\ IsFiniteSet(Orphans \cup {x})
             /\ Cardinality(Orphans \cup {x}) \in {Cardinality(Orphans), Cardinality(Orphans) + 1}
  BY <1>3, FS_AddElement
<1>6. ASSUME NEW x
      PROVE  /\ IsFiniteSet(Orphans \cup {x})
             /\ Cardinality(Orphans \cup {x}) \in Nat
             /\ Cardinality(Orphans \cup {x}) <= Cardinality(Orphans) + 1
  <2>1. ASSUME NEW c \in Nat, NEW d \in {c, c + 1} PROVE d \in Nat /\ d <= c + 1
    BY <2>1
  <2> QED BY <1>4, <1>5, <2>1
<1> QED BY <1>3, <1>4, <1>6

(* A step keeps the account when it makes no orphan and dooms no row, or    *)
(* pays for one of the two with a fault, or makes an orphan of the row that *)
(* was doomed.                                                              *)
LEMMA OrphansStep ==
    ASSUME TypeInv, TypeInv', OrphansPaid, NEW x,
           \/ Orphans' \subseteq Orphans /\ (Doomed' => Doomed) /\ Price' = Price
           \/ Orphans' \subseteq Orphans /\ Price' = Price + 1
           \/ Orphans' \subseteq Orphans \cup {x} /\ (Doomed' => Doomed) /\ Price' = Price + 1
           \/ Orphans' \subseteq Orphans \cup {x} /\ Doomed /\ ~Doomed' /\ Price' = Price
    PROVE  OrphansPaid'
<1> DEFINE c == Cardinality(Orphans)
           d == Cardinality(Orphans')
<1>1. c \in Nat /\ IsFiniteSet(Orphans)
  BY OrphansFinite
<1>2. Orphans' \subseteq Orphans => d <= c /\ d \in Nat
  BY <1>1, FS_Subset, FS_CardinalityType
<1>3. Orphans' \subseteq Orphans \cup {x} => d <= Cardinality(Orphans \cup {x}) /\ d \in Nat
  BY OrphansFinite, FS_Subset, FS_CardinalityType
<1>4. Cardinality(Orphans \cup {x}) \in Nat /\ Cardinality(Orphans \cup {x}) <= c + 1
  BY OrphansFinite
<1>5. d \in Nat
  BY <1>2, <1>3
<1>6. Orphans' \subseteq Orphans \cup {x} => d <= c + 1
  <2> HIDE DEF c, d
  <2> QED BY <1>1, <1>3, <1>4, <1>5
<1>7. Credit \in {0, 1} /\ Credit' \in {0, 1}
  BY DEF Credit
<1>8. /\ (Doomed' => Doomed) => Credit' <= Credit
      /\ Doomed /\ ~Doomed' => Credit' < Credit
  BY DEF Credit
<1>9. Price \in Nat /\ Price' \in Nat
  <2>1. faults \in Nat /\ races \in Nat /\ faults' \in Nat /\ races' \in Nat
    BY LifecycleAssumption DEF TypeInv
  <2>2. ASSUME NEW a \in Nat, NEW b \in Nat PROVE a + b \in Nat
    OBVIOUS
  <2> QED BY <2>1, <2>2, Zenon DEF Price
<1>10. c + Credit <= Price
  BY DEF OrphansPaid, Orphans, Credit, Price
<1>11. d + Credit' <= Price'
  <2> HIDE DEF c, d
  <2>1. \/ d <= c /\ Credit' <= Credit /\ Price' = Price
        \/ d <= c /\ Price' = Price + 1
        \/ d <= c + 1 /\ Credit' <= Credit /\ Price' = Price + 1
        \/ d <= c + 1 /\ Credit' < Credit /\ Price' = Price
    BY <1>2, <1>6, <1>8, Zenon
  <2> DEFINE m == Credit
             n == Credit'
             f == Price
             g == Price'
  <2>2. /\ c \in Nat /\ d \in Nat /\ m \in {0, 1} /\ n \in {0, 1} /\ f \in Nat /\ g \in Nat
        /\ c + m <= f
    BY <1>1, <1>5, <1>7, <1>9, <1>10, Zenon
  <2>3. \/ d <= c /\ n <= m /\ g = f
        \/ d <= c /\ g = f + 1
        \/ d <= c + 1 /\ n <= m /\ g = f + 1
        \/ d <= c + 1 /\ n < m /\ g = f
    BY <2>1, Zenon
  <2>4. d + n <= g
    <3> HIDE DEF m, n, f, g
    <3> QED BY ONLY <2>2, <2>3
  <2> QED BY <2>4, Zenon
<1> QED BY <1>11 DEF OrphansPaid, Orphans, Credit, Price

(* The gateway commands make no orphan: what they stop they start or wipe.  *)
LEMMA GatewayOrphans ==
    ASSUME TypeInv, Server, GatewaySide, GatewayCommand
    PROVE  Orphans' \subseteq Orphans /\ (Doomed' => Doomed) /\ Price' = Price
<1> USE LifecycleAssumption, Fields DEF Orphans, Doomed, Price, GatewayOnItsWay, Reachable, operatorVars,
            tables, hostVars, At, Fault
<1>1. CASE GatewayUpCheck BY <1>1, GotoFields, EndFields DEF GatewayUpCheck
<1>2. CASE GatewayRun BY <1>2, GotoFields, EndFields DEF GatewayRun, TypeInv, Gateways
<1>3. CASE CreateClientJoinToken BY <1>3, GotoFields DEF CreateClientJoinToken
<1>4. CASE ClientJoin BY <1>4, EndFields DEF ClientJoin, TypeInv, Gateways
<1>5. CASE GatewayDownList BY <1>5, ListFields, EndFields DEF GatewayDownList
<1>6. CASE GatewayDownCheck BY <1>6, GotoFields, EndFields DEF GatewayDownCheck
<1>7. CASE GatewaySvDown BY <1>7, GotoFields DEF GatewaySvDown, TypeInv, Gateways
<1>8. CASE GatewayWipe BY <1>8, GotoFields DEF GatewayWipe, TypeInv, Gateways
<1>9. CASE GatewayDownEnds BY <1>9, EndFields DEF GatewayDownEnds, DeleteAll, GatewaySide, Counted
<1>10. CASE GatewayRemove BY <1>10, GotoFields DEF GatewayRemove, TypeInv, Gateways
<1>11. CASE GatewayRestart BY <1>11, EndFields DEF GatewayRestart, TypeInv, Gateways
<1>12. CASE GatewayStop("gatewayDown")
  BY <1>12, GotoFields, EndFields DEF GatewayStop, GatewaySide, Counted
<1>13. CASE GatewayStop("gatewayUpgrade")
  BY <1>13, GotoFields, EndFields DEF GatewayStop, TypeInv, Gateways
<1> QED BY <1>1, <1>2, <1>3, <1>4, <1>5, <1>6, <1>7, <1>8, <1>9, <1>10, <1>11, <1>12, <1>13 DEF
    GatewayCommand

(* The server commands make no orphan, but for the two steps below.         *)
LEMMA ServerOrphans ==
    ASSUME TypeInv, Server, GatewaySide,
           \/ ServerNew \/ InstallWireportServer \/ WaitForWireportServerJoined
           \/ ServerDownCheck \/ ServerSvDown \/ RemoveDockerNetwork \/ Deregister
           \/ ServerDownEnds \/ ServerRemove \/ ServerRestart \/ ServerStop("serverDown")
           \/ ServerStop("serverUpgrade")
    PROVE  Orphans' \subseteq Orphans /\ (Doomed' => Doomed) /\ Price' = Price
<1> USE LifecycleAssumption, Fields DEF Orphans, Doomed, Price, GatewayOnItsWay, Reachable, operatorVars,
            tables, hostVars, At, Fault
<1>1. CASE ServerNew BY <1>1, NewFields, EndFields DEF ServerNew
<1>2. CASE InstallWireportServer
  BY <1>2, GotoFields, EndFields DEF InstallWireportServer, TypeInv, Disks
<1>3. CASE WaitForWireportServerJoined BY <1>3, EndFields DEF WaitForWireportServerJoined
<1>4. CASE ServerDownCheck BY <1>4, DownCheckFields, EndFields DEF ServerDownCheck
<1>5. CASE ServerSvDown BY <1>5, GotoFields DEF ServerSvDown
<1>6. CASE RemoveDockerNetwork BY <1>6, GotoFields DEF RemoveDockerNetwork
<1>7. CASE Deregister BY <1>7, GotoFields DEF Deregister, GatewaySide, NodeBeforeDeregister
<1>8. CASE ServerDownEnds BY <1>8, EndFields DEF ServerDownEnds
<1>9. CASE ServerRemove BY <1>9, GotoFields DEF ServerRemove
<1>10. CASE ServerRestart BY <1>10, EndFields DEF ServerRestart
<1>11. CASE ServerStop("serverDown") BY <1>11, GotoFields, EndFields DEF ServerStop
<1>12. CASE ServerStop("serverUpgrade") BY <1>12, GotoFields, EndFields DEF ServerStop
<1> QED BY <1>1, <1>2, <1>3, <1>4, <1>5, <1>6, <1>7, <1>8, <1>9, <1>10, <1>11, <1>12

(* A join makes the row the node of the server.                             *)
LEMMA AgentOrphans ==
    ASSUME TypeInv, Server, GatewaySide, AgentStep
    PROVE  Orphans' \subseteq Orphans /\ (Doomed' => Doomed) /\ Price' = Price
<1> USE LifecycleAssumption, Fields DEF Orphans, Doomed, Price, GatewayOnItsWay, Reachable, operatorVars,
            tables, hostVars, At, Fault
<1>1. CASE AgentBoots BY <1>1 DEF AgentBoots, Server, AgentInBox
<1>2. CASE Join BY <1>2 DEF Join, JoinAccepted, Joined, Server, JoinedOnce, TypeInv, Disks
<1>3. CASE AgentAttaches BY <1>3 DEF AgentAttaches
<1>4. CASE AgentEnds BY <1>4 DEF AgentEnds
<1> QED BY <1>1, <1>2, <1>3, <1>4 DEF AgentStep

(* Faults pay for what they doom.                                           *)
LEMMA DisturbanceOrphans ==
    ASSUME TypeInv, Server, GatewaySide,
           \/ SshFails \/ ClientJoinFails \/ GatewayChainStops \/ ServerNewLost \/ NetworkStays
           \/ DeregisterFails \/ ServerChainStops \/ RebootServer \/ RebootGateway
    PROVE  Orphans' \subseteq Orphans /\ Price' = Price + 1
<1> USE LifecycleAssumption, Fields DEF Orphans, Doomed, Price, GatewayOnItsWay, Reachable, operatorVars,
            tables, hostVars, At, Fault
<1>1. CASE SshFails BY <1>1, EndFields DEF SshFails
<1>2. CASE ClientJoinFails BY <1>2, EndFields DEF ClientJoinFails
<1>3. CASE GatewayChainStops BY <1>3, EndFields DEF GatewayChainStops, DeleteAll
<1>4. CASE ServerNewLost BY <1>4, EndFields DEF ServerNewLost
<1>5. CASE NetworkStays BY <1>5, GotoFields DEF NetworkStays
<1>6. CASE DeregisterFails BY <1>6, GotoFields DEF DeregisterFails
<1>7. CASE ServerChainStops BY <1>7, EndFields DEF ServerChainStops
<1>8. CASE RebootServer BY <1>8, EndFields DEF RebootServer, TypeInv, Disks
<1>9. CASE RebootGateway BY <1>9, EndFields DEF RebootGateway
<1> QED BY <1>1, <1>2, <1>3, <1>4, <1>5, <1>6, <1>7, <1>8, <1>9

(* A server down that overtakes the agent is a race, which pays for a join  *)
(* that comes after it.                                                     *)
LEMMA DetachOrphans ==
    ASSUME TypeInv, Server, GatewaySide, DetachDockerNetwork
    PROVE  /\ Orphans' \subseteq Orphans
           /\ \/ Price' = Price /\ (Doomed' => Doomed)
              \/ Price' = Price + 1
<1> USE LifecycleAssumption, Fields DEF Orphans, Doomed, Price, GatewayOnItsWay, Reachable, operatorVars,
            tables, hostVars, At, Fault
<1>1. Orphans' \subseteq Orphans
  BY DEF DetachDockerNetwork
<1>2. CASE agent # "off" BY <1>1, <1>2 DEF DetachDockerNetwork, Overtakes
<1>3. CASE agent = "off"
  <2>1. Price' = Price /\ agent' = "off" /\ UNCHANGED <<rows, disk, gateway>>
    BY <1>3 DEF DetachDockerNetwork, Overtakes
  <2>2. \/ disk.node = 0 /\ Goto("wipe")
        \/ disk.node # 0 /\ Goto("removeNetwork")
    BY DEF DetachDockerNetwork
  <2>3. 0 \notin rows
    BY DEF TypeInv
  <2>4. cmd.name = "serverDown" /\ cmd'.name = "serverDown" /\ cmd.at = "detach"
        /\ \/ cmd'.at = "wipe" /\ disk.node = 0
           \/ cmd'.at = "removeNetwork"
    BY <2>2, GotoFields DEF DetachDockerNetwork
  <2> QED BY <1>1, <2>1, <2>3, <2>4
<1> QED BY <1>2, <1>3

(* The row of a server whose data are wiped was removed, or was doomed.     *)
LEMMA WipeOrphans ==
    ASSUME TypeInv, Server, GatewaySide, ServerWipe
    PROVE  \/ Orphans' \subseteq Orphans /\ (Doomed' => Doomed) /\ Price' = Price
           \/ Orphans' \subseteq Orphans \cup {disk.node} /\ Doomed /\ ~Doomed' /\ Price' = Price
<1> USE LifecycleAssumption, Fields DEF Orphans, Doomed, Price, GatewayOnItsWay, Reachable, operatorVars,
            tables, hostVars, At, Fault
<1>1. Price' = Price /\ rows' = rows /\ disk'.node = 0 /\ 0 \notin rows
  BY DEF ServerWipe, NoData, TypeInv
<1>2. cmd'.name = "serverDown" /\ cmd'.at = "stop" /\ At("serverDown", "wipe")
  BY GotoFields DEF ServerWipe
<1>3. ~Doomed'
  BY <1>1, <1>2
<1>4. CASE disk.node \in rows BY <1>1, <1>2, <1>3, <1>4
<1>5. CASE disk.node \notin rows BY <1>1, <1>3, <1>5
<1> QED BY <1>4, <1>5

(* A join whose answer is lost leaves one orphan.                           *)
LEMMA JoinFailsOrphans ==
    ASSUME TypeInv, Server, GatewaySide, JoinFails
    PROVE  Orphans' \subseteq Orphans \cup {disk.token} /\ (Doomed' => Doomed) /\ Price' = Price + 1
<1> USE LifecycleAssumption, Fields DEF Orphans, Doomed, Price, GatewayOnItsWay, Reachable, operatorVars,
            tables, hostVars, At, Fault
<1>1. Price' = Price + 1 /\ rows' = rows \cup {disk.token} /\ Reachable
      /\ UNCHANGED <<cmd, gateway>> /\ agent = "join" /\ disk.token \in requests
  BY DEF JoinFails, JoinAccepted, Joined
<1>2. disk.node = 0
  BY <1>1 DEF Server, JoinedOnce
<1>3. Orphans' \subseteq Orphans \cup {disk.token}
  BY <1>1, <1>2 DEF TypeInv
<1>4. Doomed' => Doomed
  BY <1>1, <1>2
<1> QED BY <1>1, <1>3, <1>4

-----------------------------------------------------------------------------
(* The invariant *)

Inv ==
    /\ TypeInv
    /\ Server
    /\ GatewaySide
    /\ DownSide
    /\ OrphansPaid

(* The invariant holds at first.                                            *)
LEMMA InitInv == Init => Inv
<1> SUFFICES ASSUME Init PROVE Inv
  OBVIOUS
<1>1. TypeInv
  BY InitType
<1>2. cmd.name = "none" /\ cmd.since = 0 /\ cmd.races = 0 /\ report.races = 0
      /\ report.as = "none" /\ report.of = "none" /\ report.since = 0
      /\ server.box = "absent" /\ ~server.up /\ ~server.files
      /\ gateway.box = "absent" /\ disk.node = 0
  BY DEF Init, Idle, NoReport, NoServer, NoData
<1>3. Server
  BY <1>2 DEF Init, Server, OneAtATime, AgentInBox, FilesNeedNode, JoinedReport, JoinedOnce
<1>4. GatewaySide
  BY <1>2 DEF Init, GatewaySide, Counted, EmptyHasNone, GatewayStillUp, NodeBeforeDeregister
<1>5. DownSide
  BY <1>2 DEF DownSide, DownSoFar, CleanDown
<1>6. OrphansPaid
  <2>1. rows \ {disk.node} = {} /\ ~Doomed /\ faults + races = 0
    BY <1>2 DEF Init, Doomed, At
  <2> QED BY <2>1, FS_EmptySet DEF OrphansPaid
<1> QED BY <1>1, <1>3, <1>4, <1>5, <1>6 DEF Inv

(* The operator begins a command: the report is reset, nothing else moves.  *)
LEMMA OperatorInv ==
    ASSUME Inv, Recover \/ \E name \in Names : Give(name)
    PROVE  Inv'
<1> USE DEF Inv
<1>1. TypeInv'
  BY OperatorType
<1>2. PICK name \in Names : Begin(name)
  BY DEF Recover, Give, Names
<1>3. UNCHANGED <<role, gateway, requests, rows, server, disk, network, agent, faults, races>>
      /\ report' = NoReport /\ cmd.name = "none" /\ cmd'.races = races
      /\ cmd'.name = name /\ cmd'.at = FirstStep(name) /\ cmd'.since = faults
      /\ Allowed(name)
  BY <1>2, BeginFields DEF Begin, tables, hostVars
<1>4. FirstStep(name) \in {"check", "list", "new", "stop"}
      /\ (name = "gatewayDown" => FirstStep(name) = "list")
      /\ (name = "serverDown" => FirstStep(name) = "check")
  BY DEF FirstStep, Names
<1>5. Server'
  BY <1>3, <1>4, Fields DEF Server, OneAtATime, AgentInBox, FilesNeedNode, JoinedReport, JoinedOnce,
      NoReport
<1>6. GatewaySide'
  BY <1>3, <1>4 DEF GatewaySide, Counted, EmptyHasNone, GatewayStillUp, NodeBeforeDeregister,
      Reachable, Allowed
<1>7. DownSide'
  BY <1>3, <1>4 DEF DownSide, DownSoFar, CleanDown, NoReport, Reachable
<1>8. OrphansPaid'
  <2>1. Orphans' \subseteq Orphans /\ (Doomed' => Doomed) /\ Price' = Price
    BY <1>3, <1>4 DEF Orphans, Price, Doomed, GatewayOnItsWay, Reachable, At
  <2> QED BY <1>1, <2>1, OrphansStep
<1> QED BY <1>1, <1>5, <1>6, <1>7, <1>8

(* Every step of a command, of the agent and of a fault keeps the           *)
(* invariant.                                                               *)
LEMMA StepInv ==
    ASSUME Inv, GatewayCommand \/ ServerCommand \/ AgentStep \/ Disturbance
    PROVE  Inv'
<1> USE DEF Inv
<1>1. TypeInv'
  BY GatewayType, ServerType, AgentType, DisturbanceType
<1>2. Server'
  BY GatewayServer, ServerServer, AgentServer, DisturbanceServer
<1>3. GatewaySide'
  BY GatewayGateway, ServerGateway, AgentGateway, DisturbanceGateway
<1>4. DownSide'
  BY GatewayDown, ServerDown, AgentDown, DisturbanceDown
<1>5. OrphansPaid'
  <2>1. CASE GatewayCommand BY <1>1, <2>1, GatewayOrphans, OrphansStep
  <2>2. CASE ServerCommand
    <3>1. CASE ServerWipe BY <1>1, <3>1, WipeOrphans, OrphansStep
    <3>2. CASE DetachDockerNetwork BY <1>1, <3>2, DetachOrphans, OrphansStep
    <3>3. CASE ~ServerWipe /\ ~DetachDockerNetwork
      BY <1>1, <2>2, <3>3, ServerOrphans, OrphansStep DEF ServerCommand
    <3> QED BY <3>1, <3>2, <3>3
  <2>3. CASE AgentStep BY <1>1, <2>3, AgentOrphans, OrphansStep
  <2>4. CASE Disturbance
    <3>1. CASE JoinFails BY <1>1, <3>1, JoinFailsOrphans, OrphansStep
    <3>2. CASE ~JoinFails BY <1>1, <2>4, <3>2, DisturbanceOrphans, OrphansStep DEF Disturbance
    <3> QED BY <3>1, <3>2
  <2> QED BY <2>1, <2>2, <2>3, <2>4
<1> QED BY <1>1, <1>2, <1>3, <1>4, <1>5

(* Every step keeps the invariant.                                          *)
LEMMA NextInv == Inv /\ [Next]_vars => Inv'
<1>1. ASSUME Inv, UNCHANGED vars PROVE Inv'
  <2> USE <1>1 DEF vars, operatorVars, tables, hostVars, Inv, Reachable
  <2>1. TypeInv'
    BY NextType
  <2>2. Server'
    BY DEF Server, OneAtATime, AgentInBox, FilesNeedNode, JoinedReport, JoinedOnce
  <2>3. GatewaySide'
    BY DEF GatewaySide, Counted, EmptyHasNone, GatewayStillUp, NodeBeforeDeregister
  <2>4. DownSide'
    BY DEF DownSide, DownSoFar, CleanDown
  <2>5. OrphansPaid'
    BY DEF OrphansPaid, Doomed, GatewayOnItsWay, At
  <2> QED BY <2>1, <2>2, <2>3, <2>4, <2>5
<1> QED BY <1>1, OperatorInv, StepInv DEF Next

(* The invariant that the theorems below are read off. *)
THEOREM InvHolds == Spec => []Inv
  BY InitInv, NextInv, PTL DEF Spec

(* Every variable keeps its type, for any number of join requests.          *)
THEOREM TypesAreKept == Spec => []TypeOK
<1>1. Inv => TypeOK
  BY DEF Inv, TypeInv, TypeOK, Cmds, ReportsOf, Gateways, Servers, Disks
<1> QED BY <1>1, InvHolds, PTL

(* A server down that was not disturbed and says that it has completed has  *)
(* left no container, no data and, of a server that had joined, no docker   *)
(* network and no row on a gateway that answers.                            *)
THEOREM DownIsClean == Spec => []CleanDown
<1>1. Inv => CleanDown
  BY DEF Inv, DownSide
<1> QED BY <1>1, InvHolds, PTL

(* When server up says "connected", the server has its node.                *)
THEOREM JoinedIsTrue == Spec => []JoinedReport
<1>1. Inv => JoinedReport
  BY DEF Inv, Server
<1> QED BY <1>1, InvHolds, PTL

(* Rows without a server never outnumber the faults, however many servers   *)
(* were put up and taken down.                                              *)
THEOREM OrphansArePaid == Spec => []OrphansNeedFaults
<1>1. Inv => OrphansNeedFaults
  <2> SUFFICES ASSUME Inv PROVE Cardinality(rows \ {disk.node}) <= faults + races
    BY DEF OrphansNeedFaults
  <2>1. Cardinality(rows \ {disk.node}) \in Nat
    BY OrphansFinite DEF Inv, Orphans
  <2>2. ASSUME NEW c \in Nat, NEW f \in Nat, c + 1 <= f \/ c + 0 <= f PROVE c <= f
    BY <2>2
  <2>3. faults + races \in Nat
    BY Fields DEF Inv
  <2>4. Cardinality(rows \ {disk.node}) + 1 <= faults + races
        \/ Cardinality(rows \ {disk.node}) + 0 <= faults + races
    BY DEF Inv, OrphansPaid
  <2> QED BY <2>1, <2>2, <2>3, <2>4
<1> QED BY <1>1, InvHolds, PTL

(* Without a fault, the operator of a gateway that is there can use it.     *)
THEOREM NoLockoutWithoutFault == Spec => []LockoutNeedsFault
<1>1. Inv => LockoutNeedsFault
  BY DEF Inv, TypeInv, GatewaySide, EmptyHasNone, LockoutNeedsFault, Idle
<1> QED BY <1>1, InvHolds, PTL

(* Only the wipe of gateway down takes the gateway's data away, and every   *)
(* row that goes with them was a request when the servers were counted.     *)
THEOREM ServersAreSpared == Spec => GatewayDownSparesServers
<1>1. ASSUME Inv, [Next]_vars, gateway.data, ~gateway'.data PROVE rows \subseteq cmd.counted
  <2>1. GatewayWipe
    <3> USE <1>1 DEF Inv, TypeInv, Gateways
    <3>1. gateway' # gateway
      OBVIOUS
    <3>2. CASE GatewayCommand
      BY <3>1, <3>2 DEF GatewayCommand, GatewayUpCheck, GatewayRun, CreateClientJoinToken, ClientJoin,
           GatewayDownList, GatewayDownCheck, GatewaySvDown, GatewayDownEnds, GatewayStop, GatewayRemove,
           GatewayRestart
    <3>3. CASE ServerCommand
      BY <3>1, <3>3 DEF ServerCommand, ServerNew, InstallWireportServer, WaitForWireportServerJoined,
           ServerDownCheck, ServerSvDown, DetachDockerNetwork, RemoveDockerNetwork, Deregister, ServerWipe,
           ServerDownEnds, ServerStop, ServerRemove, ServerRestart
    <3>4. CASE AgentStep
      BY <3>1, <3>4 DEF AgentStep, AgentBoots, Join, AgentAttaches, AgentEnds
    <3>5. CASE Disturbance
      BY <3>1, <3>5 DEF Disturbance, SshFails, ClientJoinFails, GatewayChainStops, ServerNewLost,
          NetworkStays,
           DeregisterFails, ServerChainStops, JoinFails, RebootServer, RebootGateway
    <3>6. CASE Recover \/ \E name \in Names : Give(name)
      BY <3>1, <3>6 DEF Recover, Give, Begin
    <3>7. CASE UNCHANGED vars
      BY <3>1, <3>7 DEF vars
    <3> QED BY <3>2, <3>3, <3>4, <3>5, <3>6, <3>7 DEF Next
  <2> QED BY <1>1, <2>1 DEF GatewayWipe, At, Inv, GatewaySide, Counted
<1>2. Inv /\ [Next]_vars => [gateway.data /\ ~gateway'.data => rows \subseteq cmd.counted]_vars
  BY <1>1
<1> QED BY <1>2, InvHolds, PTL DEF Spec, GatewayDownSparesServers
=============================================================================
