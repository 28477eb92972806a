------------------------------ MODULE Registry ------------------------------
(***************************************************************************)
(* The gateway's registry: the nodes and join_requests tables of its       *)
(* SQLite database, and the WireGuard configuration file it writes from    *)
(* them.  The registry is used at the same time by the HTTP handlers of    *)
(* the control server and by the command line processes started with       *)
(* docker exec; a worker stands for one of either.                         *)
(*                                                                         *)
(* A database transaction is one step: the DSN opens every write           *)
(* transaction with BEGIN IMMEDIATE, so transactions are serialised.       *)
(* Everything between two database calls of a handler may interleave with  *)
(* the other workers, and a handler keeps the copy of the gateway row that *)
(* it read until it writes the whole row back with SaveNode.               *)
(***************************************************************************)
EXTENDS Naturals, FiniteSets

CONSTANTS
    UUID,           \* identifiers uuid.New() may return; they name nodes and join requests
    NoID,           \* "no identifier"
    Workers,        \* HTTP handlers and CLI processes that run at the same time
    LastIP,         \* wgPrivateIPEnd: addresses are 10.0.0.1 .. 10.0.0.LastIP
    PoolSize,       \* number of docker subnets that are handed out automatically
    Forceable,      \* subnets an operator may force with --docker-subnet
    Covers,         \* the addresses of a subnet, by subnet
    MaxFaults       \* bound on handlers that end early and on container restarts

ASSUME RegistryAssumption ==
    /\ NoID \notin UUID
    /\ IsFiniteSet(UUID)
    /\ LastIP \in Nat
    /\ PoolSize \in Nat
    /\ Forceable \subseteq Nat \ {0}
    /\ \A s, t \in 1 .. PoolSize : s # t => Covers[s] \cap Covers[t] = {}
    /\ MaxFaults \in Nat

VARIABLES
    nodes,      \* client and server rows of the nodes table, by id
    gateway,    \* the gateway's row of the nodes table
    requests,   \* the join_requests table
    wgFile,     \* what the last SaveConfigs wrote: wg0.conf and the DNS files
    handed,     \* configurations given out: join responses and printed client configs
    issued,     \* identifiers already used
    boot,       \* how far the gateway container has started
    pc, loc,    \* per worker: the next step and the handler's local variables
    faults      \* faults so far

vars == <<nodes, gateway, requests, wgFile, handed, issued, boot, pc, loc, faults>>

NoIP == 0
NoSubnet == 0
IP == 1 .. LastIP

(* A docker subnet is the text that IPNetMarshable prints for it.  The pool *)
(* is 172.20.0.0/16 .. 172.31.0.0/16, which are apart.  ParseIPNetMarshable *)
(* keeps host bits and takes any mask, so an operator may force a text that *)
(* is none of the pool's and covers addresses of one of them, or all.       *)
Pool == 1 .. PoolSize
Subnet == Pool \cup Forceable

(* A client or server row.  "complete" says that updateNodes has filled in *)
(* its DNS servers and the gateway's endpoint and allowed addresses.       *)
Row == [role: {"none", "server", "client"}, ip: IP \cup {NoIP},
        subnet: Subnet \cup {NoSubnet}, complete: BOOLEAN]
NoRow == [role |-> "none", ip |-> NoIP, subnet |-> NoSubnet, complete |-> FALSE]

(* A peer section: the public key (one per node) and the allowed addresses. *)
Peer == [key: UUID, ip: IP \cup {NoIP}, subnet: Subnet \cup {NoSubnet}]

(* The gateway's row: its address, its generated WireGuard peers and DNS    *)
(* servers, and the names in its certificate bundle.  ip = NoIP: no row.    *)
GatewayRow == [ip: IP \cup {NoIP}, peers: SUBSET Peer, dns: SUBSET (IP \cup {NoIP}),
               certs: SUBSET UUID]
NoGateway == [ip |-> NoIP, peers |-> {}, dns |-> {}, certs |-> {}]

WGConfig == [peers: SUBSET Peer, dns: SUBSET (IP \cup {NoIP})]

Request == [id: UUID, role: {"server", "client"}, subnet: Subnet \cup {NoSubnet}]

Handed == [id: UUID, role: {"server", "client"}, ip: IP \cup {NoIP},
           subnet: Subnet \cup {NoSubnet}, complete: BOOLEAN]

(* Local variables of a handler: the operation, the role and subnet of the *)
(* node or request it makes, the join request it serves, the node it has   *)
(* created, its copy of the gateway row, and the rows it has counted.      *)
Op == {"none", "configure", "gatewayStart", "join", "serverNew", "serverForce", "clientNew", "clientRequest"}
Local == [op: Op, role: {"server", "client"}, subnet: Subnet \cup {NoSubnet},
          req: UUID \cup {NoID}, node: UUID \cup {NoID}, gw: GatewayRow, used: Nat]
NoLocal == [op |-> "none", role |-> "client", subnet |-> NoSubnet,
            req |-> NoID, node |-> NoID, gw |-> NoGateway, used |-> 0]

Label == {"idle", "ensure", "serverRequests", "clients", "admit", "available", "create", "update",
          "read", "configs", "save", "request", "print", "delete"}

TypeOK ==
    /\ nodes \in [UUID -> Row]
    /\ gateway \in GatewayRow
    /\ requests \subseteq Request
    /\ wgFile \in WGConfig
    /\ handed \subseteq Handed
    /\ issued \subseteq UUID
    /\ boot \in {"down", "configuring", "configured", "starting", "up"}
    /\ pc \in [Workers -> Label]
    /\ loc \in [Workers -> Local]
    /\ faults \in 0 .. MaxFaults

-----------------------------------------------------------------------------
(* Queries *)

Members == {n \in UUID : nodes[n].role # "none"}
Servers == {n \in UUID : nodes[n].role = "server"}

(* Rows of the whole nodes table: the gateway's is one of them. *)
GatewayRows == IF gateway.ip = NoIP THEN 0 ELSE 1

(* Mistaken variant: the addresses of the server rows only. *)
UsedIPsOfServers == {nodes[n].ip : n \in Servers} \cup {gateway.ip}

UsedIPs == {nodes[n].ip : n \in Members} \cup {gateway.ip}
FreeIPs == IP \ UsedIPs

(* Subnets are compared as texts. *)
UsedSubnets == {nodes[n].subnet : n \in Servers}
IsDockerSubnetAvailable(s) == s \notin UsedSubnets

(* Lowest free address and lowest free pool subnet. *)
NextAssignableWGPrivateIP(ip) ==
    ip \in FreeIPs /\ \A other \in FreeIPs : ip <= other
NextAssignableDockerSubnet(s) ==
    /\ s \in Pool \ UsedSubnets
    /\ \A other \in Pool \ UsedSubnets : s <= other

(* The rows that the two counters find: the gateway's row counts as one     *)
(* docker subnet although it has none.                                      *)
UsedDockerSubnets == Cardinality(Servers) + GatewayRows
UsedWireguardClients == Cardinality(Members) + GatewayRows

ServerRequests == {r \in requests : r.role = "server"}

-----------------------------------------------------------------------------
(* What updateNodes generates from the rows of the table. *)

PeerOf(n) == [key |-> n, ip |-> nodes[n].ip, subnet |-> nodes[n].subnet]
(* Mistaken variant: clients are left out. *)
GeneratedPeersOfServers == {PeerOf(n) : n \in Servers}

GeneratedPeers == {PeerOf(n) : n \in Members}
GeneratedDNS == {nodes[n].ip : n \in Servers}

(* Mistaken variant: the old peers are kept. *)
updateNodesAppends ==
    /\ gateway' = [gateway EXCEPT !.peers = @ \cup GeneratedPeers, !.dns = GeneratedDNS]
    /\ nodes' = [n \in UUID |-> IF n \in Members THEN [nodes[n] EXCEPT !.complete = TRUE]
                                                 ELSE nodes[n]]

updateNodes ==
    /\ gateway' = [gateway EXCEPT !.peers = GeneratedPeers, !.dns = GeneratedDNS]
    /\ nodes' = [n \in UUID |-> IF n \in Members THEN [nodes[n] EXCEPT !.complete = TRUE]
                                                 ELSE nodes[n]]

Goto(w, label) == pc' = [pc EXCEPT ![w] = label]
Finish(w) ==
    /\ pc' = [pc EXCEPT ![w] = "idle"]
    /\ loc' = [loc EXCEPT ![w] = NoLocal]

-----------------------------------------------------------------------------
(* Start-up of the gateway container.  entry.sh first runs gateway start   *)
(* --configure to its end, successful or not; then runit runs gateway      *)
(* start, which opens the control server before it writes the              *)
(* configuration files.  Both are handlers like the others: commands       *)
(* executed in the container may run beside them.                          *)

(* EnsureGatewayNode looks for the gateway's row.                           *)
GatewayStart(w) ==
    /\ pc[w] = "idle"
    /\ \/ /\ boot = "down"
          /\ boot' = "configuring"
          /\ loc' = [loc EXCEPT ![w].op = "configure"]
       \/ /\ boot = "configured"
          /\ boot' = "starting"
          /\ loc' = [loc EXCEPT ![w].op = "gatewayStart"]
    /\ Goto(w, IF gateway.ip = NoIP THEN "ensure" ELSE "read")
    /\ UNCHANGED <<nodes, gateway, requests, wgFile, handed, issued, faults>>

(* CreateGateway inserts the row; updateNodes follows.                      *)
CreateGateway(w, ip) ==
    /\ pc[w] = "ensure"
    /\ gateway.ip = NoIP
    /\ NextAssignableWGPrivateIP(ip)
    /\ gateway' = [NoGateway EXCEPT !.ip = ip]
    /\ Goto(w, "update")
    /\ UNCHANGED <<nodes, requests, wgFile, handed, issued, boot, loc, faults>>

-----------------------------------------------------------------------------
(* First steps of the handlers. *)

(* Identifiers never run out in the code; in a model with few of them no   *)
(* command starts that might not get one.                                  *)
Active == {w \in Workers : pc[w] # "idle"}
Start(w) ==
    /\ boot # "down"
    /\ gateway.ip # NoIP
    /\ pc[w] = "idle"
    /\ Cardinality(Active) < Cardinality(UUID \ issued)

(* POST /commands/join with a token whose request is in the table.          *)
JoinStart(w) ==
    /\ Start(w)
    /\ boot = "up"
    /\ \E r \in requests :
          loc' = [loc EXCEPT ![w] = [NoLocal EXCEPT !.op = "join", !.role = r.role,
                                                    !.subnet = r.subnet, !.req = r.id]]
    /\ Goto(w, "create")
    /\ UNCHANGED <<nodes, gateway, requests, wgFile, handed, issued, boot, faults>>

(* wireport server new.  Its capacity checks are database reads of their    *)
(* own; a check that fails ends the command.  First the docker subnets in   *)
(* use are counted ...                                                      *)
ServerNew(w) ==
    /\ Start(w)
    /\ \E forced \in Forceable \cup {NoSubnet}, op \in {"serverNew", "serverForce"} :
          loc' = [loc EXCEPT ![w] = [NoLocal EXCEPT !.op = op, !.role = "server",
                                                    !.subnet = forced,
                                                    !.used = UsedDockerSubnets]]
    /\ Goto(w, "serverRequests")
    /\ UNCHANGED <<nodes, gateway, requests, wgFile, handed, issued, boot, faults>>

(* ... then the requests of servers, ...                                    *)
CountServerJoinRequests(w) ==
    /\ pc[w] = "serverRequests"
    /\ IF Cardinality(ServerRequests) + loc[w].used < PoolSize
       THEN Goto(w, "clients") /\ UNCHANGED loc
       ELSE Finish(w)
    /\ UNCHANGED <<nodes, gateway, requests, wgFile, handed, issued, boot, faults>>

(* wireport client new reads its copy of the gateway row first.             *)
ClientNew(w) ==
    /\ Start(w)
    /\ \E op \in {"clientNew", "clientRequest"} :
          loc' = [loc EXCEPT ![w] = [NoLocal EXCEPT !.op = op, !.gw = gateway]]
    /\ Goto(w, "clients")
    /\ UNCHANGED <<nodes, gateway, requests, wgFile, handed, issued, boot, faults>>

(* ... then, for servers and clients, the addresses in use ...              *)
CountWireguardClients(w) ==
    /\ pc[w] = "clients"
    /\ loc' = [loc EXCEPT ![w].used = UsedWireguardClients]
    /\ Goto(w, "admit")
    /\ UNCHANGED <<nodes, gateway, requests, wgFile, handed, issued, boot, faults>>

(* What follows: the node itself (server new --force and client new) or a   *)
(* join request for it.                                                     *)
AfterChecks(op) ==
    CASE op \in {"serverForce", "clientNew"} -> "create"
      [] op = "serverNew" -> "read"
      [] op = "clientRequest" -> "save"

(* Mistaken variant: one request too many. *)
ClientAdmittedOneMore(w) == Cardinality(requests) + loc[w].used <= LastIP

ClientAdmitted(w) == Cardinality(requests) + loc[w].used < LastIP

(* ... and all requests, and last whether a forced subnet is in use.        *)
CountAllRequests(w) ==
    /\ pc[w] = "admit"
    /\ IF ClientAdmitted(w)
       THEN /\ Goto(w, IF loc[w].subnet # NoSubnet THEN "available"
                                                   ELSE AfterChecks(loc[w].op))
            /\ loc' = [loc EXCEPT ![w].used = 0]
       ELSE Finish(w)
    /\ UNCHANGED <<nodes, gateway, requests, wgFile, handed, issued, boot, faults>>

CheckForcedSubnet(w) ==
    /\ pc[w] = "available"
    /\ IF IsDockerSubnetAvailable(loc[w].subnet)
       THEN Goto(w, AfterChecks(loc[w].op)) /\ UNCHANGED loc
       ELSE Finish(w)
    /\ UNCHANGED <<nodes, gateway, requests, wgFile, handed, issued, boot, faults>>

-----------------------------------------------------------------------------
(* Steps the handlers share. *)

(* Mistaken variant: a forced subnet was checked when the request was made. *)
SubnetForUnchecked(w, s) ==
    \/ loc[w].role = "client" /\ s = NoSubnet
    \/ loc[w].role = "server" /\ loc[w].subnet # NoSubnet /\ s = loc[w].subnet
    \/ /\ loc[w].role = "server"
       /\ loc[w].subnet = NoSubnet
       /\ NextAssignableDockerSubnet(s)

(* The subnet a new node gets: none, the forced one, or the next of the pool. *)
SubnetFor(w, s) ==
    \/ loc[w].role = "client" /\ s = NoSubnet
    \/ /\ loc[w].role = "server"
       /\ loc[w].subnet # NoSubnet
       /\ s = loc[w].subnet
       /\ IsDockerSubnetAvailable(s)
    \/ /\ loc[w].role = "server"
       /\ loc[w].subnet = NoSubnet
       /\ NextAssignableDockerSubnet(s)

(* The transaction of CreateServer and CreateClient: the certificate is     *)
(* added to the gateway row as it is in the database, and the row inserted. *)
CreateNode(w, id, ip, s) ==
    /\ pc[w] = "create"
    /\ id \notin issued
    /\ NextAssignableWGPrivateIP(ip)
    /\ SubnetFor(w, s)
    /\ gateway' = [gateway EXCEPT !.certs = @ \cup {id}]
    /\ nodes' = [nodes EXCEPT ![id] = [role |-> loc[w].role, ip |-> ip, subnet |-> s,
                                       complete |-> FALSE]]
    /\ issued' = issued \cup {id}
    /\ loc' = [loc EXCEPT ![w].node = id]
    /\ Goto(w, "update")
    /\ UNCHANGED <<requests, wgFile, handed, boot, faults>>

(* No address or subnet is left: the transaction rolls back, the handler    *)
(* answers with an error and the join request stays.                        *)
CreateRefused(w) ==
    /\ pc[w] = "create"
    /\ \/ FreeIPs = {}
       \/ ~ \E s \in Subnet \cup {NoSubnet} : SubnetFor(w, s)
    /\ Finish(w)
    /\ UNCHANGED <<nodes, gateway, requests, wgFile, handed, issued, boot, faults>>

(* updateNodes, the second transaction of CreateServer and CreateClient.    *)
UpdateNodes(w) ==
    /\ pc[w] = "update"
    /\ updateNodes
    /\ \/ loc[w].op = "serverForce" /\ Finish(w)
       \/ loc[w].op # "serverForce" /\ Goto(w, "read") /\ UNCHANGED loc
    /\ UNCHANGED <<requests, wgFile, handed, issued, boot, faults>>

(* GetGatewayNode / GetCurrentNode: the handler's copy of the gateway row.  *)
(* GatewayStart then opens the control server.                              *)
ReadGateway(w) ==
    /\ pc[w] = "read"
    /\ loc' = [loc EXCEPT ![w].gw = gateway]
    /\ Goto(w, IF loc[w].op = "serverNew" THEN "save" ELSE "configs")
    /\ boot' = IF loc[w].op = "gatewayStart" THEN "up" ELSE boot
    /\ UNCHANGED <<nodes, gateway, requests, wgFile, handed, issued, faults>>

(* SaveConfigs writes the files from the handler's copy.                    *)
SaveConfigs(w) ==
    /\ pc[w] = "configs"
    /\ wgFile' = [peers |-> loc[w].gw.peers, dns |-> loc[w].gw.dns]
    /\ \/ loc[w].op = "join" /\ Goto(w, "save") /\ UNCHANGED <<loc, boot>>
       \/ loc[w].op = "clientNew" /\ Goto(w, "print") /\ UNCHANGED <<loc, boot>>
       \/ loc[w].op = "configure" /\ Finish(w) /\ boot' = "configured"
       \/ loc[w].op = "gatewayStart" /\ Finish(w) /\ UNCHANGED boot
    /\ UNCHANGED <<nodes, gateway, requests, handed, issued, faults>>

(* Mistaken variant: removes the certificate of the node. *)
SaveJoinedRemovesNode(w) ==
    /\ pc[w] = "save"
    /\ loc[w].op = "join"
    /\ gateway' = [loc[w].gw EXCEPT !.certs = @ \ {loc[w].node}]
    /\ Goto(w, "delete")
    /\ UNCHANGED <<nodes, requests, wgFile, handed, issued, boot, loc, faults>>

(* SaveNode after a join: the handler's whole copy of the row goes back,    *)
(* without the certificate of the request.                                  *)
SaveJoined(w) ==
    /\ pc[w] = "save"
    /\ loc[w].op = "join"
    /\ gateway' = [loc[w].gw EXCEPT !.certs = @ \ {loc[w].req}]
    /\ Goto(w, "delete")
    /\ UNCHANGED <<nodes, requests, wgFile, handed, issued, boot, loc, faults>>

(* Mistaken variant: the identifier is not kept for the request. *)
SaveRequesterForgetsID(w, id) ==
    /\ pc[w] = "save"
    /\ loc[w].op # "join"
    /\ id \notin issued
    /\ gateway' = [loc[w].gw EXCEPT !.certs = @ \cup {id}]
    /\ issued' = issued \cup {id}
    /\ Goto(w, "request")
    /\ UNCHANGED <<nodes, requests, wgFile, handed, boot, loc, faults>>

(* SaveNode of server new and client new: the whole copy with a certificate *)
(* for the request that is about to be made.                                *)
SaveRequester(w, id) ==
    /\ pc[w] = "save"
    /\ loc[w].op # "join"
    /\ id \notin issued
    /\ gateway' = [loc[w].gw EXCEPT !.certs = @ \cup {id}]
    /\ issued' = issued \cup {id}
    /\ loc' = [loc EXCEPT ![w].req = id]
    /\ Goto(w, "request")
    /\ UNCHANGED <<nodes, requests, wgFile, handed, boot, faults>>

(* JoinRequestsRepository.Create; the token is printed.                     *)
CreateRequest(w) ==
    /\ pc[w] = "request"
    /\ requests' = requests \cup {[id |-> loc[w].req, role |-> loc[w].role,
                                   subnet |-> loc[w].subnet]}
    /\ Finish(w)
    /\ UNCHANGED <<nodes, gateway, wgFile, handed, issued, boot, faults>>

(* The configuration a handler gives out is the row it read after           *)
(* updateNodes; nothing changes that row before the handler answers.        *)
HandOut(w) ==
    handed' = handed \cup {[id |-> loc[w].node, role |-> loc[w].role,
                            ip |-> nodes[loc[w].node].ip,
                            subnet |-> nodes[loc[w].node].subnet,
                            complete |-> nodes[loc[w].node].complete]}

(* client new without a join request prints the WireGuard configuration.    *)
PrintClient(w) ==
    /\ pc[w] = "print"
    /\ HandOut(w)
    /\ Finish(w)
    /\ UNCHANGED <<nodes, gateway, requests, wgFile, issued, boot, faults>>

(* The join request is deleted and the response sent.                       *)
DeleteRequest(w) ==
    /\ pc[w] = "delete"
    /\ requests' = {r \in requests : r.id # loc[w].req}
    /\ HandOut(w)
    /\ Finish(w)
    /\ UNCHANGED <<nodes, gateway, wgFile, issued, boot, faults>>

-----------------------------------------------------------------------------
(* A joined server removes itself; only its row goes.                       *)
ServerRemove(n) ==
    /\ boot = "up"
    /\ \E h \in handed : h.id = n
    /\ nodes[n].role = "server"
    /\ nodes' = [nodes EXCEPT ![n] = NoRow]
    /\ UNCHANGED <<gateway, requests, wgFile, handed, issued, boot, pc, loc, faults>>

(* A handler returns early: an error of the file system, the database, the  *)
(* restart of WireGuard, or the process was killed.  What is committed      *)
(* stays.  The start-up goes on after a failed configure pass; when gateway *)
(* start itself ends, so does the control server: that is Crash.            *)
Abort(w) ==
    /\ faults < MaxFaults
    /\ pc[w] # "idle"
    /\ loc[w].op # "gatewayStart"
    /\ Finish(w)
    /\ boot' = IF loc[w].op = "configure" THEN "configured" ELSE boot
    /\ faults' = faults + 1
    /\ UNCHANGED <<nodes, gateway, requests, wgFile, handed, issued>>

(* The container restarts: every worker is gone, the database stays.        *)
Crash ==
    /\ faults < MaxFaults
    /\ boot # "down"
    /\ boot' = "down"
    /\ pc' = [w \in Workers |-> "idle"]
    /\ loc' = [w \in Workers |-> NoLocal]
    /\ faults' = faults + 1
    /\ UNCHANGED <<nodes, gateway, requests, wgFile, handed, issued>>

-----------------------------------------------------------------------------
Init ==
    /\ nodes = [n \in UUID |-> NoRow]
    /\ gateway = NoGateway
    /\ requests = {}
    /\ wgFile = [peers |-> {}, dns |-> {}]
    /\ handed = {}
    /\ issued = {}
    /\ boot = "down"
    /\ pc = [w \in Workers |-> "idle"]
    /\ loc = [w \in Workers |-> NoLocal]
    /\ faults = 0

WorkerStep(w) ==
    \/ GatewayStart(w)
    \/ \E ip \in IP : CreateGateway(w, ip)
    \/ JoinStart(w)
    \/ ServerNew(w)
    \/ ClientNew(w)
    \/ CountServerJoinRequests(w)
    \/ CountWireguardClients(w)
    \/ CountAllRequests(w)
    \/ CheckForcedSubnet(w)
    \/ \E id \in UUID, ip \in IP, s \in Subnet \cup {NoSubnet} : CreateNode(w, id, ip, s)
    \/ CreateRefused(w)
    \/ UpdateNodes(w)
    \/ ReadGateway(w)
    \/ SaveConfigs(w)
    \/ SaveJoined(w)
    \/ \E id \in UUID : SaveRequester(w, id)
    \/ CreateRequest(w)
    \/ PrintClient(w)
    \/ DeleteRequest(w)
    \/ Abort(w)

Next ==
    \/ \E w \in Workers : WorkerStep(w)
    \/ \E n \in UUID : ServerRemove(n)
    \/ Crash

Spec == Init /\ [][Next]_vars

-----------------------------------------------------------------------------
(* Properties that hold for any number of concurrent workers. *)

(* Two nodes never get the same WireGuard address, the gateway included:    *)
(* GetNextAssignableWGPrivateIP reads through another connection than the   *)
(* transaction that inserts the row.                                        *)
UniqueAddresses ==
    /\ \A m, n \in Members : m # n => nodes[m].ip # nodes[n].ip
    /\ \A n \in Members : nodes[n].ip \notin {NoIP, gateway.ip}

(* Subnets of two servers: their texts differ, and if both are of the pool  *)
(* they have no address in common.                                          *)
Apart(s, t) ==
    /\ s # t
    /\ s \in Pool /\ t \in Pool => Covers[s] \cap Covers[t] = {}

(* Two servers never get the same docker subnet as the code prints it, and  *)
(* they share addresses only when an operator forced a subnet that is not   *)
(* one of the pool: another spelling of a subnet, or a part of one, passes  *)
(* the check of --docker-subnet.                                            *)
UniqueSubnets ==
    /\ \A m, n \in Servers : m # n => Apart(nodes[m].subnet, nodes[n].subnet)
    /\ \A n \in Servers : nodes[n].subnet # NoSubnet

DistinctPeers(peers) ==
    \A p, q \in peers :
        p # q => /\ p.key # q.key
                 /\ p.ip # q.ip
                 /\ NoSubnet \in {p.subnet, q.subnet} \/ Apart(p.subnet, q.subnet)

(* No two peers of the gateway claim the same WireGuard address, and none   *)
(* of the two claims docker addresses of the other unless one of them has a *)
(* forced subnet outside the pool: neither in the gateway's row nor in the  *)
(* file it last wrote, whatever stale copy of the row a handler wrote back, *)
(* and although addresses of removed servers are given out again: every     *)
(* list of peers is one updateNodes snapshot.                               *)
NoSharedRoutes ==
    /\ DistinctPeers(gateway.peers)
    /\ DistinctPeers(wgFile.peers)

-----------------------------------------------------------------------------
(* Properties of a gateway that serves one command at a time. *)

(* A node that was given its configuration is a peer of the gateway with    *)
(* exactly the address and subnet it was told, in the database and in       *)
(* wg0.conf, across failed handlers and restarts of the container.          *)
HandedIsConnected ==
    boot = "up" =>
        \A h \in handed : nodes[h.id].role # "none" =>
            /\ h.complete
            /\ [key |-> h.id, ip |-> h.ip, subnet |-> h.subnet]
                 \in gateway.peers \cap wgFile.peers

(* The certificate that CreateServer or CreateClient committed for a node   *)
(* stays in the gateway's bundle: nothing writes an older row over it.      *)
CertsKept == \A n \in Members : n \in gateway.certs

(* Requests whose node is not in the table yet. *)
InService ==
    {loc[w].req : w \in {v \in Workers : loc[v].op = "join" /\ loc[v].node # NoID}}
Pending == {r \in requests : r.id \notin InService}

(* The capacity checks of server new and client new keep an address for     *)
(* every join request they let in, and a pool subnet for every server one,  *)
(* as long as no handler fails after it has created the node of a request.  *)
(* A request with a forced subnet may still find that subnet taken.         *)
PendingJoinsFit ==
    faults = 0 =>
        /\ Cardinality(Pending) <= Cardinality(FreeIPs)
        /\ Cardinality({r \in Pending : r.role = "server"})
              <= Cardinality(Pool \ UsedSubnets)

-----------------------------------------------------------------------------
(* What comments of the repository say and the code does not do. *)

(* database/service.go: read-modify-write sequences cannot lose updates     *)
(* under concurrent callers.  With every handler finished, the certificate  *)
(* of every node is still in the gateway's row.                             *)
NoLostUpdate == Active = {} => CertsKept
=============================================================================
