--------------------------- MODULE RegistryProofs ---------------------------
(***************************************************************************)
(* Proofs about Registry for any number of workers, identifiers,           *)
(* addresses and subnets, and any number of faults.                        *)
(***************************************************************************)
EXTENDS Registry, TLAPS, FiniteSetTheorems

(* Which local variables a handler has set when it reaches a step.         *)
LocalsSet ==
    \A w \in Workers :
        /\ pc[w] = "request" => loc[w].req \in UUID
        /\ pc[w] \in {"print", "delete"} => loc[w].node \in UUID
        /\ (pc[w] \in {"update", "configs", "read"}
            /\ loc[w].op \notin {"configure", "gatewayStart", "serverNew"})
              => loc[w].node \in UUID
        /\ pc[w] = "save" /\ loc[w].op = "join" => loc[w].node \in UUID
        /\ pc[w] = "ensure" => loc[w].op \in {"configure", "gatewayStart"}
        /\ pc[w] \in {"serverRequests", "available"} => loc[w].op \in {"serverNew", "serverForce"}
        /\ pc[w] \in {"clients", "admit"} =>
              loc[w].op \in {"serverNew", "serverForce", "clientNew", "clientRequest"}
        /\ loc[w].op \in {"clientNew", "clientRequest"} => loc[w].subnet = NoSubnet

(* Only servers have a docker subnet.                                      *)
ClientsHaveNoSubnet ==
    \A n \in UUID : nodes[n].role = "client" => nodes[n].subnet = NoSubnet

(* Every copy of the gateway row a handler holds is a snapshot as well.    *)
CopiesDistinct == \A w \in Workers : DistinctPeers(loc[w].gw.peers)

(* The steps at which a handler holds a copy that it may write back.       *)
HoldsCopy(label, op) ==
    \/ label \in {"configs", "save"}
    \/ label \in {"clients", "admit"} /\ op \in {"clientNew", "clientRequest"}

(* A handler past its first steps runs on a gateway that has a row, and a  *)
(* copy that it may write back has that row's address.                     *)
CopyAddress ==
    \A w \in Workers :
        /\ pc[w] \notin {"idle", "ensure"} => gateway.ip # NoIP
        /\ HoldsCopy(pc[w], loc[w].op) => loc[w].gw.ip = gateway.ip

(* With the type invariant, the inductive invariant of the registry.       *)
RegistryInv ==
    /\ CopyAddress
    /\ ClientsHaveNoSubnet
    /\ UniqueAddresses
    /\ UniqueSubnets
    /\ NoSharedRoutes
    /\ CopiesDistinct

(* An empty list of peers has no two peers that share a route.             *)
LEMMA NoPeersDistinct == DistinctPeers({})
  BY DEF DistinctPeers

(* The records the handlers start from are of the right type.              *)
LEMMA Blanks ==
    /\ NoRow \in Row
    /\ NoGateway \in GatewayRow
    /\ NoLocal \in Local
    /\ NoLocal.gw.peers = {} /\ NoLocal.op = "none"
    /\ NoGateway.peers = {}
  BY DEF NoRow, Row, NoGateway, GatewayRow, NoLocal, Local, Op

(* The peers that updateNodes generates are typed, and distinct because    *)
(* the rows they come from are.                                            *)
LEMMA GeneratedTyped ==
    ASSUME TypeOK
    PROVE  /\ GeneratedPeers \in SUBSET Peer
           /\ GeneratedDNS \in SUBSET (IP \cup {NoIP})
  BY DEF TypeOK, GeneratedPeers, GeneratedDNS, PeerOf, Peer, Members, Servers, Row

(* Peers made from rows with unique addresses and subnets share no route.   *)
LEMMA GeneratedDistinct ==
    ASSUME TypeOK, ClientsHaveNoSubnet, UniqueAddresses, UniqueSubnets
    PROVE  DistinctPeers(GeneratedPeers)
  <1> SUFFICES ASSUME NEW m \in Members, NEW n \in Members, PeerOf(m) # PeerOf(n)
               PROVE  /\ PeerOf(m).key # PeerOf(n).key
                      /\ PeerOf(m).ip # PeerOf(n).ip
                      /\ \/ NoSubnet \in {PeerOf(m).subnet, PeerOf(n).subnet}
                         \/ Apart(PeerOf(m).subnet, PeerOf(n).subnet)
    BY DEF DistinctPeers, GeneratedPeers
  <1>1. m # n
    OBVIOUS
  <1>2. m \in UUID /\ n \in UUID
    BY DEF Members
  <1>3. nodes[m].ip # nodes[n].ip
    BY <1>1 DEF UniqueAddresses
  <1>4. \/ NoSubnet \in {nodes[m].subnet, nodes[n].subnet}
        \/ Apart(nodes[m].subnet, nodes[n].subnet)
    BY <1>1, <1>2 DEF UniqueSubnets, ClientsHaveNoSubnet, Servers, Members, TypeOK, Row
  <1> QED
    BY <1>1, <1>3, <1>4 DEF PeerOf

-----------------------------------------------------------------------------
(* Typing.  TypeOK is not inductive alone: what a handler writes to the     *)
(* tables comes from its local variables, so LocalsSet goes with it.        *)

TypeInv == TypeOK /\ LocalsSet

(* The empty database is typed.                                             *)
LEMMA TypeInit == Init => TypeInv
  BY RegistryAssumption, Blanks
     DEF Init, TypeInv, TypeOK, LocalsSet, WGConfig, Label

(* The rows that the capacity checks count are finite in number.            *)
LEMMA CountsTyped ==
    UsedDockerSubnets \in Nat /\ UsedWireguardClients \in Nat
  <1>1. Members \subseteq UUID /\ Servers \subseteq UUID
    BY DEF Members, Servers
  <1>2. IsFiniteSet(Members) /\ IsFiniteSet(Servers)
    BY <1>1, FS_Subset, RegistryAssumption
  <1>3. Cardinality(Members) \in Nat /\ Cardinality(Servers) \in Nat
    BY <1>2, FS_CardinalityType
  <1> QED
    BY <1>3 DEF UsedDockerSubnets, UsedWireguardClients, GatewayRows

(* What a handler writes when it ends is typed. *)
LEMMA TypeFinish ==
    ASSUME TypeInv, NEW w \in Workers, Finish(w)
    PROVE  /\ pc' \in [Workers -> Label]
           /\ loc' \in [Workers -> Local]
           /\ LocalsSet'
  BY Blanks DEF TypeInv, TypeOK, LocalsSet, Finish, Label

(* ... and so is what it holds after its first step. *)
LEMMA TypeBegin ==
    ASSUME TypeInv, NEW w \in Workers, NEW l \in Local,
           NEW label \in {"create", "serverRequests", "clients"},
           label = "serverRequests" => l.op \in {"serverNew", "serverForce"},
           label = "clients" => l.op \in {"clientNew", "clientRequest"},
           l.op \in {"clientNew", "clientRequest"} => l.subnet = NoSubnet,
           loc' = [loc EXCEPT ![w] = l],
           Goto(w, label)
    PROVE  /\ pc' \in [Workers -> Label]
           /\ loc' \in [Workers -> Local]
           /\ LocalsSet'
  BY DEF TypeInv, TypeOK, LocalsSet, Goto, Label

(* The configuration that a handler gives out is typed.                     *)
LEMMA TypeHandOut ==
    ASSUME TypeInv, NEW w \in Workers, HandOut(w), loc[w].node \in UUID
    PROVE  handed' \subseteq Handed
  BY DEF TypeInv, TypeOK, HandOut, Handed, Row, Local

(* Every step of a handler keeps the types.                                 *)
LEMMA TypeWorker ==
    ASSUME TypeInv, NEW w \in Workers, WorkerStep(w)
    PROVE  TypeInv'
  <1> USE DEF TypeInv, TypeOK, LocalsSet
  <1>16. CASE GatewayStart(w)
    <2>1. PICK op \in {"configure", "gatewayStart"} :
            loc' = [loc EXCEPT ![w].op = op]
      BY <1>16 DEF GatewayStart
    <2>2. PICK label \in {"ensure", "read"} : Goto(w, label)
      BY <1>16 DEF GatewayStart
    <2>3. loc' \in [Workers -> Local] /\ pc' \in [Workers -> Label]
      BY <2>1, <2>2 DEF Goto, Label, Local, Op
    <2>4. LocalsSet'
      BY <2>1, <2>2 DEF Goto, Local
    <2> QED
      BY <1>16, <2>3, <2>4 DEF GatewayStart
  <1>17. ASSUME NEW ip \in IP, CreateGateway(w, ip) PROVE TypeInv'
    <2>1. gateway' \in GatewayRow
      BY <1>17, Blanks DEF CreateGateway, GatewayRow, NoGateway
    <2> QED
      BY <1>17, <2>1 DEF CreateGateway, Goto, Label
  <1>1. CASE JoinStart(w)
    <2>1. PICK r \in requests :
            loc' = [loc EXCEPT ![w] = [NoLocal EXCEPT !.op = "join", !.role = r.role,
                                                      !.subnet = r.subnet, !.req = r.id]]
      BY <1>1 DEF JoinStart
    <2>2. /\ [NoLocal EXCEPT !.op = "join", !.role = r.role, !.subnet = r.subnet,
                             !.req = r.id] \in Local
          /\ [NoLocal EXCEPT !.op = "join", !.role = r.role, !.subnet = r.subnet,
                             !.req = r.id].op = "join"
      BY Blanks DEF NoLocal, Local, Op, Request
    <2> QED
      BY <1>1, <2>1, <2>2, TypeBegin DEF JoinStart
  <1>2. CASE ServerNew(w)
    <2>1. PICK forced \in Forceable \cup {NoSubnet}, op \in {"serverNew", "serverForce"} :
            loc' = [loc EXCEPT ![w] = [NoLocal EXCEPT !.op = op, !.role = "server",
                                                      !.subnet = forced,
                                                      !.used = UsedDockerSubnets]]
      BY <1>2 DEF ServerNew
    <2>2. UsedDockerSubnets \in Nat
      BY CountsTyped
    <2> HIDE DEF TypeInv, TypeOK, LocalsSet
    <2>3. [NoLocal EXCEPT !.op = op, !.role = "server", !.subnet = forced,
                          !.used = UsedDockerSubnets] \in Local
      BY <2>2, Blanks DEF NoLocal, Local, Op, Subnet
    <2>4. [NoLocal EXCEPT !.op = op, !.role = "server", !.subnet = forced,
                          !.used = UsedDockerSubnets].op = op
      BY DEF NoLocal
    <2>5. /\ pc' \in [Workers -> Label]
          /\ loc' \in [Workers -> Local]
          /\ LocalsSet'
      BY <1>2, <2>1, <2>3, <2>4, TypeBegin DEF ServerNew
    <2> QED
      BY <1>2, <2>5 DEF ServerNew, TypeInv, TypeOK
  <1>3. CASE ClientNew(w)
    <2>1. PICK op \in {"clientNew", "clientRequest"} :
            loc' = [loc EXCEPT ![w] = [NoLocal EXCEPT !.op = op, !.gw = gateway]]
      BY <1>3 DEF ClientNew
    <2>2. /\ [NoLocal EXCEPT !.op = op, !.gw = gateway] \in Local
          /\ [NoLocal EXCEPT !.op = op, !.gw = gateway].op = op
          /\ [NoLocal EXCEPT !.op = op, !.gw = gateway].subnet = NoSubnet
      BY Blanks DEF NoLocal, Local, Op
    <2> QED
      BY <1>3, <2>1, <2>2, TypeBegin DEF ClientNew
  <1>4. CASE CountServerJoinRequests(w)
    <2>1. CASE Finish(w)
      BY <1>4, <2>1, TypeFinish DEF CountServerJoinRequests
    <2>2. CASE Goto(w, "clients") /\ UNCHANGED loc
      BY <1>4, <2>2 DEF CountServerJoinRequests, Goto, Label
    <2> QED
      BY <1>4, <2>1, <2>2 DEF CountServerJoinRequests
  <1>18. CASE CountWireguardClients(w)
    <2>1. UsedWireguardClients \in Nat
      BY CountsTyped
    <2>2. loc' \in [Workers -> Local] /\ pc' \in [Workers -> Label]
      BY <1>18, <2>1 DEF CountWireguardClients, Local, Goto, Label
    <2>3. LocalsSet'
      BY <1>18 DEF CountWireguardClients, Local, Goto
    <2> QED
      BY <1>18, <2>2, <2>3 DEF CountWireguardClients
  <1>19. CASE CountAllRequests(w)
    <2>1. CASE Finish(w)
      BY <1>19, <2>1, TypeFinish DEF CountAllRequests
    <2>2. CASE ~Finish(w)
      <3>1. PICK label \in {"available", "create", "read", "save"} :
              /\ Goto(w, label)
              /\ label = "available" => loc[w].subnet # NoSubnet
              /\ label = "read" => loc[w].op = "serverNew"
              /\ label = "save" => loc[w].op = "clientRequest"
        BY <1>19, <2>2 DEF CountAllRequests, AfterChecks
      <3>2. loc' = [loc EXCEPT ![w].used = 0]
        BY <1>19, <2>2 DEF CountAllRequests
      <3>3. loc' \in [Workers -> Local] /\ pc' \in [Workers -> Label]
        BY <3>1, <3>2 DEF Local, Goto, Label
      <3>4. LocalsSet'
        BY <1>19, <3>1, <3>2 DEF CountAllRequests, Local, Goto
      <3> QED
        BY <1>19, <3>3, <3>4 DEF CountAllRequests
    <2> QED
      BY <2>1, <2>2
  <1>20. CASE CheckForcedSubnet(w)
    <2>1. CASE Finish(w)
      BY <1>20, <2>1, TypeFinish DEF CheckForcedSubnet
    <2>2. CASE Goto(w, AfterChecks(loc[w].op)) /\ UNCHANGED loc
      <3>1. PICK label \in {"create", "read"} :
              Goto(w, label) /\ (label = "read" => loc[w].op = "serverNew")
        BY <1>20, <2>2 DEF CheckForcedSubnet, AfterChecks
      <3> QED
        BY <1>20, <2>2, <3>1 DEF CheckForcedSubnet, Goto, Label
    <2> QED
      BY <1>20, <2>1, <2>2 DEF CheckForcedSubnet
  <1>5. ASSUME NEW id \in UUID, NEW ip \in IP, NEW s \in Subnet \cup {NoSubnet},
               CreateNode(w, id, ip, s)
        PROVE  TypeInv'
    <2>1. nodes' \in [UUID -> Row]
      BY <1>5 DEF CreateNode, Row, Local
    <2>2. gateway' \in GatewayRow
      BY <1>5 DEF CreateNode, GatewayRow
    <2>3. /\ loc' \in [Workers -> Local]
          /\ pc' \in [Workers -> Label]
      BY <1>5 DEF CreateNode, Local, Goto, Label
    <2>4. LocalsSet'
      BY <1>5 DEF CreateNode, Goto, Local
    <2> QED
      BY <1>5, <2>1, <2>2, <2>3, <2>4 DEF CreateNode
  <1>6. CASE CreateRefused(w)
    BY <1>6, TypeFinish DEF CreateRefused
  <1>7. CASE UpdateNodes(w)
    <2>1. nodes' \in [UUID -> Row]
      BY <1>7 DEF UpdateNodes, updateNodes, Row
    <2>2. gateway' \in GatewayRow
      BY <1>7, GeneratedTyped DEF UpdateNodes, updateNodes, GatewayRow
    <2>3. CASE loc[w].op = "serverForce"
      BY <1>7, <2>1, <2>2, <2>3, TypeFinish DEF UpdateNodes
    <2>4. CASE loc[w].op # "serverForce"
      BY <1>7, <2>1, <2>2, <2>4 DEF UpdateNodes, Goto, Label
    <2> QED
      BY <2>3, <2>4
  <1>8. CASE ReadGateway(w)
    BY <1>8 DEF ReadGateway, Goto, Label, Local
  <1>9. CASE SaveConfigs(w)
    <2>1. wgFile' \in WGConfig
      BY <1>9 DEF SaveConfigs, Local, GatewayRow, WGConfig
    <2>2. CASE loc[w].op \in {"join", "clientNew"}
      BY <1>9, <2>1, <2>2 DEF SaveConfigs, Goto, Label
    <2>3. CASE loc[w].op \in {"configure", "gatewayStart"}
      BY <1>9, <2>1, <2>3, TypeFinish DEF SaveConfigs
    <2> QED
      BY <1>9, <2>2, <2>3 DEF SaveConfigs
  <1>10. CASE SaveJoined(w)
    BY <1>10 DEF SaveJoined, Goto, Label, Local, GatewayRow
  <1>11. ASSUME NEW id \in UUID, SaveRequester(w, id)
         PROVE  TypeInv'
    <2>1. gateway' \in GatewayRow
      BY <1>11 DEF SaveRequester, GatewayRow, Local
    <2> QED
      BY <1>11, <2>1 DEF SaveRequester, Goto, Label, Local
  <1>12. CASE CreateRequest(w)
    BY <1>12, TypeFinish DEF CreateRequest, Request, Local
  <1>13. CASE PrintClient(w)
    BY <1>13, TypeFinish, TypeHandOut DEF PrintClient
  <1>14. CASE DeleteRequest(w)
    BY <1>14, TypeFinish, TypeHandOut DEF DeleteRequest
  <1>15. CASE Abort(w)
    BY <1>15, TypeFinish, RegistryAssumption DEF Abort
  <1> QED
    BY <1>1, <1>2, <1>3, <1>4, <1>5, <1>6, <1>7, <1>8, <1>9, <1>10, <1>11, <1>12,
       <1>13, <1>14, <1>15, <1>16, <1>17, <1>18, <1>19, <1>20 DEF WorkerStep

(* ... and so does every step of the system.                                *)
LEMMA TypeStep == TypeInv /\ [Next]_vars => TypeInv'
  <1> SUFFICES ASSUME TypeInv, [Next]_vars PROVE TypeInv'
    OBVIOUS
  <1>1. CASE \E w \in Workers : WorkerStep(w)
    BY <1>1, TypeWorker
  <1>2. ASSUME NEW n \in UUID, ServerRemove(n) PROVE TypeInv'
    BY <1>2, Blanks DEF ServerRemove, TypeInv, TypeOK, LocalsSet
  <1>3. CASE Crash
    BY <1>3, Blanks, RegistryAssumption DEF Crash, TypeInv, TypeOK, LocalsSet, Label
  <1>4. CASE UNCHANGED vars
    BY <1>4 DEF vars, TypeInv, TypeOK, LocalsSet
  <1> QED
    BY <1>1, <1>2, <1>3, <1>4 DEF Next

(* Every table, file and local variable of the registry keeps its type, in  *)
(* every interleaving of handlers, failures and restarts.                   *)
THEOREM RegistryTypes == Spec => []TypeOK
  <1>1. TypeInv => TypeOK
    BY DEF TypeInv
  <1> QED
    BY <1>1, TypeInit, TypeStep, PTL DEF Spec

-----------------------------------------------------------------------------
(* Safety. *)

RowsOK == ClientsHaveNoSubnet /\ UniqueAddresses /\ UniqueSubnets

(* The empty database has no two rows that could share anything.            *)
LEMMA SafeInit == Init => RegistryInv
  <1> SUFFICES ASSUME Init PROVE RegistryInv
    OBVIOUS
  <1>1. Members = {} /\ Servers = {}
    BY DEF Init, Members, Servers, NoRow
  <1>2. ClientsHaveNoSubnet /\ UniqueAddresses /\ UniqueSubnets
    BY <1>1 DEF Init, ClientsHaveNoSubnet, UniqueAddresses, UniqueSubnets, NoRow
  <1>3. NoSharedRoutes /\ CopiesDistinct
    BY NoPeersDistinct, Blanks DEF Init, NoSharedRoutes, CopiesDistinct
  <1> QED
    BY <1>2, <1>3 DEF HoldsCopy, Init, RegistryInv, CopyAddress

(* Steps that leave the rows and the gateway's address alone.               *)
LEMMA RowsKept ==
    ASSUME RowsOK, nodes' = nodes, gateway'.ip = gateway.ip
    PROVE  RowsOK'
  BY DEF RowsOK, ClientsHaveNoSubnet, UniqueAddresses, UniqueSubnets, Members, Servers

(* updateNodes changes no address, subnet or role, and writes a snapshot.   *)
LEMMA SafeUpdate ==
    ASSUME TypeInv, RegistryInv, updateNodes
    PROVE  /\ RowsOK'
           /\ gateway'.ip = gateway.ip
           /\ DistinctPeers(gateway'.peers)
  <1>1. gateway'.ip = gateway.ip /\ gateway'.peers = GeneratedPeers
    BY DEF TypeInv, TypeOK, updateNodes, GatewayRow
  <1>2. DistinctPeers(GeneratedPeers)
    BY GeneratedDistinct DEF TypeInv, RegistryInv
  <1>3. \A n \in UUID : /\ nodes'[n].role = nodes[n].role
                        /\ nodes'[n].ip = nodes[n].ip
                        /\ nodes'[n].subnet = nodes[n].subnet
    BY DEF TypeInv, TypeOK, updateNodes, Row
  <1>4. Members' = Members /\ Servers' = Servers
    BY <1>3 DEF Members, Servers
  <1>5. RowsOK'
    BY <1>1, <1>3, <1>4 DEF RegistryInv, RowsOK, ClientsHaveNoSubnet, UniqueAddresses,
       UniqueSubnets, Members, Servers
  <1> QED
    BY <1>1, <1>2, <1>5

(* Texts that differ are apart, because the subnets of the pool are.        *)
LEMMA TextsApart ==
    ASSUME NEW s, NEW t, s # t
    PROVE  Apart(s, t) /\ Apart(t, s)
  BY RegistryAssumption DEF Apart, Pool

(* A new row gets an address and a subnet that no other row has.            *)
LEMMA SafeCreate ==
    ASSUME TypeInv, RegistryInv, NEW w \in Workers, NEW id \in UUID, NEW ip \in IP,
           NEW s \in Subnet \cup {NoSubnet}, CreateNode(w, id, ip, s)
    PROVE  RowsOK'
  <1>1. \A n \in UUID \ {id} : nodes'[n] = nodes[n]
    BY DEF CreateNode, TypeInv, TypeOK
  <1>2. /\ nodes'[id].role = loc[w].role
        /\ nodes'[id].ip = ip
        /\ nodes'[id].subnet = s
    BY DEF CreateNode, TypeInv, TypeOK
  <1>3. gateway'.ip = gateway.ip
    BY DEF CreateNode, TypeInv, TypeOK, GatewayRow
  <1>4. /\ ip # gateway.ip
        /\ \A n \in Members : nodes[n].ip # ip
        /\ ip # NoIP
    BY RegistryAssumption
       DEF CreateNode, NextAssignableWGPrivateIP, FreeIPs, UsedIPs, IP, NoIP
  <1>5. UniqueAddresses'
    BY <1>1, <1>2, <1>3, <1>4 DEF UniqueAddresses, Members, RegistryInv
  <1>6. \A t \in Subnet : t # NoSubnet
    BY RegistryAssumption DEF Subnet, Pool, NoSubnet
  <1>7. CASE loc[w].role = "client"
    <2>1. s = NoSubnet
      BY <1>7 DEF CreateNode, SubnetFor
    <2>2. Servers' = Servers \ {id}
      BY <1>1, <1>2, <1>7 DEF Servers
    <2> QED
      BY <1>1, <1>2, <1>5, <2>1, <2>2
         DEF RowsOK, ClientsHaveNoSubnet, UniqueSubnets, RegistryInv, Servers
  <1>8. CASE loc[w].role = "server"
    <2>1. s \notin UsedSubnets /\ s # NoSubnet
      BY <1>6, <1>8 DEF CreateNode, SubnetFor, IsDockerSubnetAvailable,
         NextAssignableDockerSubnet, Subnet
    <2>2. \A n \in Servers : Apart(nodes[n].subnet, s) /\ Apart(s, nodes[n].subnet)
      BY <2>1, TextsApart DEF UsedSubnets
    <2> QED
      BY <1>1, <1>2, <1>5, <1>8, <2>1, <2>2
         DEF RowsOK, ClientsHaveNoSubnet, UniqueSubnets, RegistryInv, Servers
  <1> QED
    BY <1>7, <1>8 DEF TypeInv, TypeOK, Local

(* A handler that ends holds an empty copy and stands at "idle".            *)
LEMMA SafeFinish ==
    ASSUME TypeInv, RegistryInv, NEW w \in Workers, Finish(w), gateway'.ip = gateway.ip
    PROVE  CopyAddress' /\ CopiesDistinct'
  <1>1. \A v \in Workers \ {w} : pc'[v] = pc[v] /\ loc'[v] = loc[v]
    BY DEF Finish, TypeInv, TypeOK
  <1>2. pc'[w] = "idle" /\ loc'[w] = NoLocal
    BY DEF Finish, TypeInv, TypeOK
  <1>3. DistinctPeers(loc'[w].gw.peers)
    BY <1>2, Blanks, NoPeersDistinct
  <1> QED
    BY <1>1, <1>2, <1>3 DEF HoldsCopy, RegistryInv, CopyAddress, CopiesDistinct

(* A handler that goes on holds a copy that is a snapshot and, if it may be *)
(* written back, has the gateway's address.                                 *)
LEMMA SafeMove ==
    ASSUME TypeInv, RegistryInv, NEW w \in Workers, NEW label \in Label, Goto(w, label),
           \A v \in Workers \ {w} : loc'[v] = loc[v],
           DistinctPeers(loc'[w].gw.peers),
           HoldsCopy(label, loc'[w].op) => loc'[w].gw.ip = gateway.ip,
           gateway.ip # NoIP, gateway'.ip = gateway.ip
    PROVE  CopyAddress' /\ CopiesDistinct'
  <1>1. /\ \A v \in Workers \ {w} : pc'[v] = pc[v]
        /\ pc'[w] = label
    BY DEF Goto, TypeInv, TypeOK
  <1> QED
    BY <1>1 DEF RegistryInv, CopyAddress, CopiesDistinct

(* Every step of a handler keeps addresses, subnets and routes apart.       *)
LEMMA SafeWorker ==
    ASSUME TypeInv, RegistryInv, NEW w \in Workers, WorkerStep(w)
    PROVE  RegistryInv'
  <1>0. /\ loc \in [Workers -> Local]
        /\ DistinctPeers(loc[w].gw.peers)
        /\ DistinctPeers(gateway.peers)
        /\ DistinctPeers(wgFile.peers)
        /\ RowsOK
    BY DEF TypeInv, TypeOK, RegistryInv, CopiesDistinct, NoSharedRoutes, RowsOK
  <1>16. CASE GatewayStart(w)
    <2>1. nodes' = nodes /\ gateway' = gateway /\ wgFile' = wgFile
      BY <1>16 DEF GatewayStart
    <2>2. /\ \A v \in Workers \ {w} : loc'[v] = loc[v] /\ pc'[v] = pc[v]
          /\ loc'[w].gw = loc[w].gw
          /\ pc'[w] = IF gateway.ip = NoIP THEN "ensure" ELSE "read"
      BY <1>0, <1>16 DEF GatewayStart, Goto, Local, TypeInv, TypeOK
    <2>3. CopyAddress' /\ CopiesDistinct'
      BY <1>0, <2>1, <2>2 DEF HoldsCopy, RegistryInv, CopyAddress, CopiesDistinct
    <2> QED
      BY <1>0, <2>1, <2>3, RowsKept DEF RegistryInv, NoSharedRoutes, RowsOK
  <1>17. ASSUME NEW ip \in IP, CreateGateway(w, ip) PROVE RegistryInv'
    <2>1. gateway'.ip = ip /\ gateway'.peers = {} /\ ip # NoIP
      BY <1>17, RegistryAssumption DEF CreateGateway, NoGateway, IP, NoIP
    <2>2. nodes' = nodes /\ wgFile' = wgFile /\ loc' = loc /\ gateway.ip = NoIP
      BY <1>17 DEF CreateGateway
    <2>3. \A n \in Members : nodes[n].ip # ip
      BY <1>17 DEF CreateGateway, NextAssignableWGPrivateIP, FreeIPs, UsedIPs
    <2>4. RowsOK'
      BY <1>0, <2>1, <2>2, <2>3 DEF RowsOK, ClientsHaveNoSubnet, UniqueAddresses,
         UniqueSubnets, Members, Servers
    <2>5. \A v \in Workers : pc'[v] \in {"idle", "ensure", "update"}
      BY <1>17, <2>2 DEF CreateGateway, Goto, RegistryInv, CopyAddress, TypeInv, TypeOK
    <2>6. CopyAddress' /\ CopiesDistinct'
      BY <2>1, <2>2, <2>5 DEF HoldsCopy, RegistryInv, CopyAddress, CopiesDistinct
    <2> QED
      BY <1>0, <2>1, <2>2, <2>4, <2>6, NoPeersDistinct DEF RegistryInv, NoSharedRoutes, RowsOK
  <1>1. CASE JoinStart(w)
    <2>1. gateway.ip # NoIP /\ nodes' = nodes /\ gateway' = gateway /\ wgFile' = wgFile
      BY <1>1 DEF JoinStart, Start
    <2>2. /\ \A v \in Workers \ {w} : loc'[v] = loc[v]
          /\ loc'[w].gw.peers = {}
      BY <1>0, <1>1 DEF JoinStart, NoLocal, NoGateway
    <2>3. CopyAddress' /\ CopiesDistinct'
      BY <1>1, <2>1, <2>2, SafeMove, NoPeersDistinct DEF HoldsCopy, JoinStart, Label
    <2> QED
      BY <1>0, <2>1, <2>3, RowsKept DEF RegistryInv, NoSharedRoutes, RowsOK
  <1>2. CASE ServerNew(w)
    <2>1. gateway.ip # NoIP /\ nodes' = nodes /\ gateway' = gateway /\ wgFile' = wgFile
      BY <1>2 DEF ServerNew, Start
    <2>2. /\ \A v \in Workers \ {w} : loc'[v] = loc[v]
          /\ loc'[w].gw.peers = {}
      BY <1>0, <1>2 DEF ServerNew, NoLocal, NoGateway
    <2>3. CopyAddress' /\ CopiesDistinct'
      BY <1>2, <2>1, <2>2, SafeMove, NoPeersDistinct DEF ServerNew, Label, HoldsCopy
    <2> QED
      BY <1>0, <2>1, <2>3, RowsKept DEF RegistryInv, NoSharedRoutes, RowsOK
  <1>3. CASE ClientNew(w)
    <2>1. gateway.ip # NoIP /\ nodes' = nodes /\ gateway' = gateway /\ wgFile' = wgFile
      BY <1>3 DEF ClientNew, Start
    <2>2. /\ \A v \in Workers \ {w} : loc'[v] = loc[v]
          /\ loc'[w].gw = gateway
      BY <1>0, <1>3 DEF ClientNew, NoLocal
    <2>3. CopyAddress' /\ CopiesDistinct'
      BY <1>0, <1>3, <2>1, <2>2, SafeMove DEF ClientNew, Label
    <2> QED
      BY <1>0, <2>1, <2>3, RowsKept DEF RegistryInv, NoSharedRoutes, RowsOK
  <1>4. CASE \/ CountServerJoinRequests(w) \/ CountWireguardClients(w)
             \/ CountAllRequests(w) \/ CheckForcedSubnet(w)
    <2>1. gateway.ip # NoIP /\ nodes' = nodes /\ gateway' = gateway /\ wgFile' = wgFile
      BY <1>4 DEF RegistryInv, CopyAddress, CountServerJoinRequests, CountWireguardClients,
         CountAllRequests, CheckForcedSubnet
    <2>2. CASE Finish(w)
      BY <2>1, <2>2, SafeFinish, <1>0, RowsKept DEF RegistryInv, NoSharedRoutes, RowsOK
    <2>3. CASE ~Finish(w)
      <3>1. /\ \A v \in Workers \ {w} : loc'[v] = loc[v]
            /\ loc'[w].gw = loc[w].gw /\ loc'[w].op = loc[w].op
        BY <1>0, <1>4, <2>3 DEF CountServerJoinRequests, CountWireguardClients,
           CountAllRequests, CheckForcedSubnet, Local
      <3>2. PICK label \in Label :
              Goto(w, label) /\ (HoldsCopy(label, loc[w].op) => HoldsCopy(pc[w], loc[w].op))
        <4>1. CASE CountServerJoinRequests(w)
          <5>1. loc[w].op \in {"serverNew", "serverForce"}
            BY <4>1 DEF CountServerJoinRequests, TypeInv, LocalsSet
          <5> QED
            BY <2>3, <4>1, <5>1 DEF CountServerJoinRequests, HoldsCopy, Label
        <4>2. CASE CountWireguardClients(w)
          BY <4>2 DEF CountWireguardClients, HoldsCopy, Label
        <4>3. CASE CountAllRequests(w)
          <5>1. loc[w].op \in {"serverNew", "serverForce", "clientNew", "clientRequest"}
            BY <4>3 DEF CountAllRequests, TypeInv, LocalsSet
          <5> QED
            BY <2>3, <4>3, <5>1 DEF CountAllRequests, AfterChecks, HoldsCopy, Label
        <4>4. CASE CheckForcedSubnet(w)
          <5>1. loc[w].op \in {"serverNew", "serverForce"}
            BY <4>4 DEF CheckForcedSubnet, TypeInv, LocalsSet
          <5> QED
            BY <2>3, <4>4, <5>1 DEF CheckForcedSubnet, AfterChecks, HoldsCopy, Label
        <4> QED
          BY <1>4, <4>1, <4>2, <4>3, <4>4
      <3>3. HoldsCopy(pc[w], loc[w].op) => loc[w].gw.ip = gateway.ip
        BY DEF RegistryInv, CopyAddress
      <3>4. CopyAddress' /\ CopiesDistinct'
        BY <1>0, <2>1, <3>1, <3>2, <3>3, SafeMove
      <3> QED
        BY <1>0, <2>1, <3>4, RowsKept DEF RegistryInv, NoSharedRoutes, RowsOK
    <2> QED
      BY <2>2, <2>3
  <1>5. ASSUME NEW id \in UUID, NEW ip \in IP, NEW s \in Subnet \cup {NoSubnet},
               CreateNode(w, id, ip, s)
        PROVE  RegistryInv'
    <2>1. gateway.ip # NoIP /\ wgFile' = wgFile
      BY <1>5 DEF RegistryInv, CopyAddress, CreateNode
    <2>2. gateway'.ip = gateway.ip /\ gateway'.peers = gateway.peers
      BY <1>5 DEF CreateNode, TypeInv, TypeOK, GatewayRow
    <2>3. /\ \A v \in Workers \ {w} : loc'[v] = loc[v]
          /\ loc'[w].gw = loc[w].gw
      BY <1>0, <1>5 DEF CreateNode, Local
    <2>4. CopyAddress' /\ CopiesDistinct'
      BY <1>0, <1>5, <2>1, <2>2, <2>3, SafeMove DEF HoldsCopy, CreateNode, Label
    <2> QED
      BY <1>0, <1>5, <2>1, <2>2, <2>4, SafeCreate DEF RegistryInv, NoSharedRoutes, RowsOK
  <1>6. CASE CreateRefused(w)
    BY <1>0, <1>6, SafeFinish, RowsKept DEF CreateRefused, RegistryInv, NoSharedRoutes, RowsOK
  <1>7. CASE UpdateNodes(w)
    <2>1. /\ RowsOK'
          /\ gateway'.ip = gateway.ip
          /\ DistinctPeers(gateway'.peers)
      BY <1>7, SafeUpdate DEF UpdateNodes
    <2>2. gateway.ip # NoIP /\ wgFile' = wgFile
      BY <1>7 DEF RegistryInv, CopyAddress, UpdateNodes
    <2>3. ASSUME loc' = loc, Goto(w, "read")
          PROVE  CopyAddress' /\ CopiesDistinct'
      BY <1>0, <2>1, <2>2, <2>3, SafeMove DEF HoldsCopy, Label
    <2>4. CopyAddress' /\ CopiesDistinct'
      BY <1>7, <2>1, <2>2, <2>3, SafeFinish DEF UpdateNodes
    <2> QED
      BY <1>0, <2>1, <2>2, <2>4 DEF RegistryInv, NoSharedRoutes, RowsOK
  <1>8. CASE ReadGateway(w)
    <2>1. gateway.ip # NoIP /\ nodes' = nodes /\ gateway' = gateway /\ wgFile' = wgFile
      BY <1>8 DEF RegistryInv, CopyAddress, ReadGateway
    <2>2. /\ \A v \in Workers \ {w} : loc'[v] = loc[v]
          /\ loc'[w].gw = gateway
      BY <1>0, <1>8 DEF ReadGateway, Local
    <2>3. PICK label \in {"save", "configs"} : Goto(w, label)
      BY <1>8 DEF ReadGateway
    <2>4. CopyAddress' /\ CopiesDistinct'
      BY <1>0, <2>1, <2>2, <2>3, SafeMove DEF Label
    <2> QED
      BY <1>0, <2>1, <2>4, RowsKept DEF RegistryInv, NoSharedRoutes, RowsOK
  <1>9. CASE SaveConfigs(w)
    <2>1. gateway.ip # NoIP /\ nodes' = nodes /\ gateway' = gateway
      BY <1>9 DEF RegistryInv, CopyAddress, SaveConfigs
    <2>2. DistinctPeers(wgFile'.peers)
      BY <1>0, <1>9 DEF SaveConfigs
    <2>3. ASSUME loc' = loc, NEW label \in {"save", "print"}, Goto(w, label)
          PROVE  CopyAddress' /\ CopiesDistinct'
      <3>1. loc[w].gw.ip = gateway.ip
        BY <1>9 DEF HoldsCopy, SaveConfigs, RegistryInv, CopyAddress
      <3> QED
        BY <1>0, <2>1, <2>3, <3>1, SafeMove DEF Label
    <2>4. ASSUME Finish(w)
          PROVE  CopyAddress' /\ CopiesDistinct'
      BY <2>1, <2>4, SafeFinish
    <2>5. CopyAddress' /\ CopiesDistinct'
      BY <1>9, <2>3, <2>4 DEF SaveConfigs
    <2> QED
      BY <1>0, <2>1, <2>2, <2>5, RowsKept DEF RegistryInv, NoSharedRoutes, RowsOK
  <1>10. CASE SaveJoined(w)
    <2>1. gateway.ip # NoIP /\ nodes' = nodes /\ wgFile' = wgFile /\ loc' = loc
      BY <1>10 DEF RegistryInv, CopyAddress, SaveJoined
    <2>2. gateway'.ip = gateway.ip /\ DistinctPeers(gateway'.peers)
      BY <1>0, <1>10 DEF HoldsCopy, SaveJoined, Local, GatewayRow, RegistryInv, CopyAddress
    <2>3. CopyAddress' /\ CopiesDistinct'
      BY <1>0, <1>10, <2>1, <2>2, SafeMove DEF SaveJoined, Label
    <2> QED
      BY <1>0, <2>1, <2>2, <2>3, RowsKept DEF RegistryInv, NoSharedRoutes, RowsOK
  <1>11. ASSUME NEW id \in UUID, SaveRequester(w, id)
         PROVE  RegistryInv'
    <2>1. gateway.ip # NoIP /\ nodes' = nodes /\ wgFile' = wgFile
      BY <1>11 DEF RegistryInv, CopyAddress, SaveRequester
    <2>2. gateway'.ip = gateway.ip /\ DistinctPeers(gateway'.peers)
      BY <1>0, <1>11 DEF HoldsCopy, SaveRequester, Local, GatewayRow, RegistryInv, CopyAddress
    <2>3. /\ \A v \in Workers \ {w} : loc'[v] = loc[v]
          /\ loc'[w].gw = loc[w].gw
      BY <1>0, <1>11 DEF SaveRequester, Local
    <2>4. CopyAddress' /\ CopiesDistinct'
      BY <1>0, <1>11, <2>1, <2>2, <2>3, SafeMove DEF SaveRequester, Label
    <2> QED
      BY <1>0, <2>1, <2>2, <2>4, RowsKept DEF RegistryInv, NoSharedRoutes, RowsOK
  <1>12. CASE CreateRequest(w)
    BY <1>0, <1>12, SafeFinish, RowsKept DEF CreateRequest, RegistryInv, NoSharedRoutes, RowsOK
  <1>13. CASE PrintClient(w)
    BY <1>0, <1>13, SafeFinish, RowsKept DEF PrintClient, RegistryInv, NoSharedRoutes, RowsOK
  <1>14. CASE DeleteRequest(w)
    BY <1>0, <1>14, SafeFinish, RowsKept DEF DeleteRequest, RegistryInv, NoSharedRoutes, RowsOK
  <1>15. CASE Abort(w)
    BY <1>0, <1>15, SafeFinish, RowsKept DEF Abort, RegistryInv, NoSharedRoutes, RowsOK
  <1> QED
    BY <1>1, <1>2, <1>3, <1>4, <1>5, <1>6, <1>7, <1>8, <1>9, <1>10, <1>11, <1>12,
       <1>13, <1>14, <1>15, <1>16, <1>17 DEF WorkerStep

(* ... and so does every step of the system.                                *)
LEMMA SafeStep == TypeInv /\ RegistryInv /\ [Next]_vars => RegistryInv'
  <1> SUFFICES ASSUME TypeInv, RegistryInv, [Next]_vars PROVE RegistryInv'
    OBVIOUS
  <1>1. CASE \E w \in Workers : WorkerStep(w)
    BY <1>1, SafeWorker
  <1>2. ASSUME NEW n \in UUID, ServerRemove(n) PROVE RegistryInv'
    <2>1. /\ \A m \in UUID \ {n} : nodes'[m] = nodes[m]
          /\ nodes'[n] = NoRow
      BY <1>2 DEF ServerRemove, TypeInv, TypeOK
    <2>2. Members' = Members \ {n} /\ Servers' = Servers \ {n}
      BY <2>1 DEF Members, Servers, NoRow
    <2>3. RowsOK'
      BY <1>2, <2>1, <2>2 DEF ServerRemove, RegistryInv, RowsOK, ClientsHaveNoSubnet,
         UniqueAddresses, UniqueSubnets, NoRow
    <2> QED
      BY <1>2, <2>3 DEF ServerRemove, RegistryInv, RowsOK, CopyAddress,
         CopiesDistinct, NoSharedRoutes
  <1>3. CASE Crash
    <2>1. \A w \in Workers : pc'[w] = "idle" /\ loc'[w] = NoLocal
      BY <1>3 DEF Crash
    <2>2. CopyAddress' /\ CopiesDistinct'
      BY <2>1, Blanks, NoPeersDistinct DEF HoldsCopy, CopyAddress, CopiesDistinct
    <2> QED
      BY <1>3, <2>2, RowsKept DEF Crash, RegistryInv, NoSharedRoutes, RowsOK
  <1>4. CASE UNCHANGED vars
    BY <1>4, RowsKept DEF vars, RegistryInv, RowsOK, CopyAddress, CopiesDistinct,
       NoSharedRoutes
  <1> QED
    BY <1>1, <1>2, <1>3, <1>4 DEF Next

(* The inductive invariant of any number of handlers.                       *)
LEMMA RegistrySafe == Spec => [](TypeInv /\ RegistryInv)
  BY TypeInit, TypeStep, SafeInit, SafeStep, PTL DEF Spec

(* No two nodes ever have the same WireGuard address, however many handlers *)
(* create nodes at once and wherever they or the container fail.            *)
THEOREM AddressesAreUnique == Spec => []UniqueAddresses
  <1>1. RegistryInv => UniqueAddresses
    BY DEF RegistryInv
  <1> QED
    BY <1>1, RegistrySafe, PTL

(* No two servers ever have docker subnets of the same text, and they have  *)
(* addresses in common only when an operator forced a subnet that is none   *)
(* of the pool's, however many handlers create servers at once.             *)
THEOREM SubnetsAreUnique == Spec => []UniqueSubnets
  <1>1. RegistryInv => UniqueSubnets
    BY DEF RegistryInv
  <1> QED
    BY <1>1, RegistrySafe, PTL

(* No two peers of the gateway, in its row or in wg0.conf, ever claim the   *)
(* same WireGuard address, or docker addresses of one another unless one of *)
(* them has a forced subnet outside the pool, although handlers write back  *)
(* stale rows.                                                              *)
THEOREM RoutesAreNotShared == Spec => []NoSharedRoutes
  <1>1. RegistryInv => NoSharedRoutes
    BY DEF RegistryInv
  <1> QED
    BY <1>1, RegistrySafe, PTL
=============================================================================
