---------------------- MODULE RegistrySequentialProofs ----------------------
(***************************************************************************)
(* What Registry guarantees when the gateway serves one command at a time, *)
(* for any identifiers, addresses, subnets and faults: a node that was     *)
(* given its configuration is connected, the certificates of the nodes     *)
(* stay in the gateway's bundle, and the requests that were let in fit.    *)
(***************************************************************************)
EXTENDS RegistryProofs

(* The handlers do not overlap.                                            *)
OneAtATime == \A v, w \in Workers : v = w

(* The operations that create a node, and the steps that follow.           *)
NodeOps == {"join", "serverForce", "clientNew"}
MakesNode(w) ==
    /\ loc[w].op \in NodeOps
    /\ pc[w] \in {"update", "read", "configs", "print", "save", "delete"}

(* The operation that a handler performs at each of its steps.             *)
OpFits ==
    \A w \in Workers :
        /\ pc[w] = "create" => loc[w].op \in NodeOps
        /\ pc[w] = "update" => loc[w].op \in NodeOps \cup {"configure", "gatewayStart"}
        /\ pc[w] = "read" =>
              loc[w].op \in {"configure", "gatewayStart", "serverNew", "join", "clientNew"}
        /\ pc[w] = "configs" => loc[w].op \in {"configure", "gatewayStart", "join", "clientNew"}
        /\ pc[w] = "save" => loc[w].op \in {"join", "serverNew", "clientRequest"}
        /\ pc[w] = "request" => loc[w].op \in {"serverNew", "clientRequest"}
        /\ pc[w] = "print" => loc[w].op = "clientNew"
        /\ pc[w] = "delete" => loc[w].op = "join"

(* The copy that a handler may write back is the row of the database.       *)
CopyFresh == \A w \in Workers : HoldsCopy(pc[w], loc[w].op) => loc[w].gw = gateway

(* Identifiers name one thing: a node, or a request.                        *)
TablesIssued ==
    /\ Members \subseteq issued
    /\ \A h \in handed : h.id \in issued
    /\ \A r \in requests : r.id \in issued /\ r.id \notin Members
LocalsIssued ==
    \A w \in Workers : loc[w].req # NoID => loc[w].req \in issued /\ loc[w].req \notin Members

(* Nothing happens before the gateway has its row.                          *)
GatewayFirst == gateway.ip = NoIP => Members = {} /\ handed = {} /\ requests = {}

(* The row of a node that was given its configuration is the one that it    *)
(* was told, and the gateway's row and wg0.conf have its peer.              *)
Connected ==
    \A h \in handed : nodes[h.id].role # "none" =>
        /\ h.complete
        /\ h.ip = nodes[h.id].ip /\ h.subnet = nodes[h.id].subnet
        /\ PeerOf(h.id) \in gateway.peers
        /\ PeerOf(h.id) \in wgFile.peers

(* How far the node of a handler is on its way there.                       *)
NodeMade ==
    \A w \in Workers : MakesNode(w) =>
        LET n == loc[w].node IN
        /\ n \in Members
        /\ \A h \in handed : h.id # n
        /\ pc[w] # "update" => nodes[n].complete /\ PeerOf(n) \in gateway.peers
        /\ pc[w] \in {"print", "save", "delete"} => PeerOf(n) \in wgFile.peers

(* The invariant: what is known of the handler, and what of the tables.     *)
HandlerInv == OpFits /\ CopyFresh /\ LocalsIssued /\ NodeMade
TableInv == TablesIssued /\ GatewayFirst /\ CertsKept /\ Connected
SequentialInv == TypeInv /\ RegistryInv /\ HandlerInv /\ TableInv

-----------------------------------------------------------------------------
(* The step and the local variables that a handler has after each action *)

(* Goto sets the next step.                                                 *)
LEMMA GotoFacts ==
    ASSUME TypeInv, NEW w \in Workers, NEW l, Goto(w, l)
    PROVE  pc'[w] = l
  BY DEF TypeInv, TypeOK, Goto

(* A handler that ends forgets its operation, request and node.             *)
LEMMA FinishFacts ==
    ASSUME TypeInv, NEW w \in Workers, Finish(w)
    PROVE  pc'[w] = "idle" /\ loc'[w].op = "none" /\ loc'[w].req = NoID /\ loc'[w].node = NoID
  BY DEF TypeInv, TypeOK, Finish, NoLocal

(* A copy of local variables with one of them set.                          *)
LEMMA LocalFields ==
    ASSUME NEW l \in Local, NEW x
    PROVE  /\ LET m == [l EXCEPT !.op = x] IN
              m.op = x /\ m.role = l.role /\ m.req = l.req /\ m.node = l.node /\ m.gw = l.gw
           /\ LET m == [l EXCEPT !.node = x] IN
              m.op = l.op /\ m.role = l.role /\ m.req = l.req /\ m.node = x /\ m.gw = l.gw
           /\ LET m == [l EXCEPT !.gw = x] IN
              m.op = l.op /\ m.role = l.role /\ m.req = l.req /\ m.node = l.node /\ m.gw = x
           /\ LET m == [l EXCEPT !.req = x] IN
              m.op = l.op /\ m.role = l.role /\ m.req = x /\ m.node = l.node /\ m.gw = l.gw
           /\ LET m == [l EXCEPT !.used = x] IN
              /\ m.op = l.op /\ m.role = l.role /\ m.req = l.req /\ m.node = l.node /\ m.gw = l.gw
              /\ m.used = x
  BY DEF Local

(* Gateway start looks for the row and has no request or node of its own.   *)
LEMMA GatewayStartFacts ==
    ASSUME TypeInv, NEW w \in Workers, GatewayStart(w)
    PROVE  /\ pc'[w] \in {"ensure", "read"} /\ loc'[w].op \in {"configure", "gatewayStart"}
           /\ loc'[w].req = loc[w].req /\ loc'[w].node = loc[w].node
<1>1. PICK op \in {"configure", "gatewayStart"} : loc' = [loc EXCEPT ![w].op = op]
  BY DEF GatewayStart
<1>2. loc[w] \in Local /\ loc'[w] = [loc[w] EXCEPT !.op = op]
  BY <1>1 DEF TypeInv, TypeOK
<1>3. pc'[w] \in {"ensure", "read"}
  BY GotoFacts DEF GatewayStart
<1> QED BY <1>2, <1>3, LocalFields

(* A join starts with a request of the table.                               *)
LEMMA JoinStartFacts ==
    ASSUME TypeInv, NEW w \in Workers, JoinStart(w)
    PROVE  \E r \in requests :
              /\ pc'[w] = "create" /\ loc'[w].op = "join" /\ loc'[w].node = NoID
              /\ loc'[w].req = r.id /\ loc'[w].role = r.role
<1>1. PICK r \in requests :
          loc' = [loc EXCEPT ![w] = [NoLocal EXCEPT !.op = "join", !.role = r.role,
                                                    !.subnet = r.subnet, !.req = r.id]]
  BY DEF JoinStart
<1>2. pc'[w] = "create"
  BY GotoFacts DEF JoinStart
<1> QED BY <1>1, <1>2 DEF TypeInv, TypeOK, NoLocal

(* Server new starts with its count of the subnets in use.                  *)
LEMMA ServerNewFacts ==
    ASSUME TypeInv, NEW w \in Workers, ServerNew(w)
    PROVE  /\ pc'[w] = "serverRequests" /\ loc'[w].op \in {"serverNew", "serverForce"}
           /\ loc'[w].req = NoID /\ loc'[w].node = NoID
           /\ loc'[w].used = UsedDockerSubnets
<1>1. PICK forced \in Forceable \cup {NoSubnet}, op \in {"serverNew", "serverForce"} :
          loc' = [loc EXCEPT ![w] = [NoLocal EXCEPT !.op = op, !.role = "server",
                                                    !.subnet = forced,
                                                    !.used = UsedDockerSubnets]]
  BY DEF ServerNew
<1>2. pc'[w] = "serverRequests"
  BY GotoFacts DEF ServerNew
<1> QED BY <1>1, <1>2 DEF TypeInv, TypeOK, NoLocal

(* Client new starts with a copy of the row and has its checks ahead.       *)
LEMMA ClientNewFacts ==
    ASSUME TypeInv, NEW w \in Workers, ClientNew(w)
    PROVE  /\ pc'[w] = "clients" /\ loc'[w].op \in {"clientNew", "clientRequest"}
           /\ loc'[w].req = NoID /\ loc'[w].node = NoID /\ loc'[w].role = "client"
           /\ loc'[w].gw = gateway
<1>1. PICK op \in {"clientNew", "clientRequest"} :
          loc' = [loc EXCEPT ![w] = [NoLocal EXCEPT !.op = op, !.gw = gateway]]
  BY DEF ClientNew
<1>2. pc'[w] = "clients"
  BY GotoFacts DEF ClientNew
<1> QED BY <1>1, <1>2 DEF TypeInv, TypeOK, NoLocal

(* The capacity checks, and what a check that passes has found.             *)
Checks(w) ==
    \/ CountServerJoinRequests(w) \/ CountWireguardClients(w)
    \/ CountAllRequests(w) \/ CheckForcedSubnet(w)
Passes(w) ==
    \/ /\ pc[w] = "serverRequests" /\ pc'[w] = "clients"
       /\ loc[w].op \in {"serverNew", "serverForce"}
       /\ Cardinality(ServerRequests) + loc[w].used < PoolSize
    \/ pc[w] = "clients" /\ pc'[w] = "admit" /\ loc'[w].used = UsedWireguardClients
    \/ /\ pc[w] = "admit" /\ ClientAdmitted(w)
       /\ \/ pc'[w] = AfterChecks(loc[w].op)
          \/ pc'[w] = "available" /\ loc[w].op \in {"serverNew", "serverForce"}
    \/ pc[w] = "available" /\ pc'[w] = AfterChecks(loc[w].op)

(* A check ends the command or leaves all but the count as it was.          *)
LEMMA CheckFacts ==
    ASSUME TypeInv, NEW w \in Workers, Checks(w), ~Finish(w)
    PROVE  /\ Passes(w)
           /\ loc'[w].op = loc[w].op /\ loc'[w].role = loc[w].role /\ loc'[w].req = loc[w].req
           /\ loc'[w].node = loc[w].node /\ loc'[w].gw = loc[w].gw
<1>0. loc \in [Workers -> Local] /\ loc[w] \in Local /\ LocalsSet
  BY DEF TypeInv, TypeOK
<1>1. CASE CountServerJoinRequests(w)
  <2>1. /\ pc[w] = "serverRequests" /\ Goto(w, "clients") /\ UNCHANGED loc
        /\ Cardinality(ServerRequests) + loc[w].used < PoolSize
    BY <1>1 DEF CountServerJoinRequests
  <2>2. pc'[w] = "clients" /\ loc[w].op \in {"serverNew", "serverForce"}
    BY <1>0, <2>1, GotoFacts DEF LocalsSet
  <2> QED BY <2>1, <2>2 DEF Passes
<1>2. CASE CountWireguardClients(w)
  <2>1. /\ pc[w] = "clients" /\ Goto(w, "admit")
        /\ loc'[w] = [loc[w] EXCEPT !.used = UsedWireguardClients]
    BY <1>0, <1>2 DEF CountWireguardClients
  <2>2. pc'[w] = "admit"
    BY <2>1, GotoFacts
  <2> QED BY <1>0, <2>1, <2>2, LocalFields DEF Passes
<1>3. CASE CountAllRequests(w)
  <2>1. /\ pc[w] = "admit" /\ ClientAdmitted(w)
        /\ Goto(w, IF loc[w].subnet # NoSubnet THEN "available" ELSE AfterChecks(loc[w].op))
        /\ loc'[w] = [loc[w] EXCEPT !.used = 0]
    BY <1>0, <1>3 DEF CountAllRequests
  <2>2. pc'[w] = IF loc[w].subnet # NoSubnet THEN "available" ELSE AfterChecks(loc[w].op)
    BY <2>1, GotoFacts
  <2>3. loc[w].subnet # NoSubnet => loc[w].op \in {"serverNew", "serverForce"}
    BY <1>0, <2>1 DEF LocalsSet
  <2> QED BY <1>0, <2>1, <2>2, <2>3, LocalFields DEF Passes
<1>4. CASE CheckForcedSubnet(w)
  <2>1. pc[w] = "available" /\ Goto(w, AfterChecks(loc[w].op)) /\ UNCHANGED loc
    BY <1>4 DEF CheckForcedSubnet
  <2>2. pc'[w] = AfterChecks(loc[w].op)
    BY <2>1, GotoFacts
  <2> QED BY <2>1, <2>2 DEF Passes
<1> QED BY <1>1, <1>2, <1>3, <1>4 DEF Checks

(* Where a handler goes from its last check, by its operation.              *)
LEMMA AfterPassing ==
    ASSUME TypeInv, NEW w \in Workers, Checks(w), ~Finish(w)
    PROVE  \/ /\ pc'[w] \in {"clients", "admit"}
              /\ \/ loc[w].op \in {"serverNew", "serverForce"}
                 \/ pc[w] = "clients" /\ loc[w].op \in {"clientNew", "clientRequest"}
           \/ pc'[w] = "available" /\ loc[w].op \in {"serverNew", "serverForce"}
           \/ pc'[w] = "create" /\ loc[w].op \in {"serverForce", "clientNew"}
           \/ pc'[w] = "read" /\ loc[w].op = "serverNew"
           \/ pc'[w] = "save" /\ loc[w].op = "clientRequest" /\ pc[w] = "admit"
<1>1. Passes(w)
  BY CheckFacts
<1>2. /\ pc[w] = "serverRequests" \/ pc[w] = "available" =>
            loc[w].op \in {"serverNew", "serverForce"}
      /\ pc[w] = "clients" \/ pc[w] = "admit" =>
            loc[w].op \in {"serverNew", "serverForce", "clientNew", "clientRequest"}
  BY DEF TypeInv, LocalsSet
<1> QED BY <1>1, <1>2 DEF Passes, AfterChecks

(* The transaction adds one row and one certificate.                        *)
LEMMA CreateNodeFacts ==
    ASSUME TypeInv, NEW w \in Workers, NEW id \in UUID, NEW ip \in IP,
           NEW s \in Subnet \cup {NoSubnet}, CreateNode(w, id, ip, s)
    PROVE  /\ pc'[w] = "update" /\ loc'[w].node = id
           /\ loc'[w].op = loc[w].op /\ loc'[w].req = loc[w].req /\ loc'[w].role = loc[w].role
           /\ \A n \in UUID \ {id} : nodes'[n] = nodes[n]
           /\ nodes'[id].role = loc[w].role /\ loc[w].role # "none"
           /\ gateway'.ip = gateway.ip /\ gateway'.peers = gateway.peers
           /\ gateway'.certs = gateway.certs \cup {id}
<1>1. loc[w] \in Local /\ loc'[w] = [loc[w] EXCEPT !.node = id]
  BY DEF TypeInv, TypeOK, CreateNode
<1>2. pc'[w] = "update"
  BY GotoFacts DEF CreateNode
<1>3. /\ \A n \in UUID \ {id} : nodes'[n] = nodes[n]
      /\ nodes'[id].role = loc[w].role
  BY DEF CreateNode, TypeInv, TypeOK
<1>4. loc[w].role # "none"
  BY DEF TypeInv, TypeOK, Local
<1>5. /\ gateway'.ip = gateway.ip /\ gateway'.peers = gateway.peers
      /\ gateway'.certs = gateway.certs \cup {id}
  BY DEF CreateNode, TypeInv, TypeOK, GatewayRow
<1> QED BY <1>1, <1>2, <1>3, <1>4, <1>5, LocalFields

(* updateNodes completes the rows and generates the peers anew.             *)
LEMMA UpdateNodesFacts ==
    ASSUME TypeInv, NEW w \in Workers, UpdateNodes(w)
    PROVE  /\ \A n \in UUID : /\ nodes'[n].role = nodes[n].role
                              /\ nodes'[n].ip = nodes[n].ip
                              /\ nodes'[n].subnet = nodes[n].subnet
           /\ \A n \in Members : nodes'[n].complete
           /\ gateway'.ip = gateway.ip /\ gateway'.peers = GeneratedPeers
           /\ gateway'.certs = gateway.certs
<1>1. ASSUME NEW n \in UUID
      PROVE  /\ nodes'[n].role = nodes[n].role
             /\ nodes'[n].ip = nodes[n].ip
             /\ nodes'[n].subnet = nodes[n].subnet
             /\ n \in Members => nodes'[n].complete
  BY DEF TypeInv, TypeOK, UpdateNodes, updateNodes, Row
<1>2. /\ gateway'.ip = gateway.ip /\ gateway'.peers = GeneratedPeers
      /\ gateway'.certs = gateway.certs
  BY DEF TypeInv, TypeOK, UpdateNodes, updateNodes, GatewayRow
<1> QED BY <1>1, <1>2 DEF Members

(* The handler has the row as it is.                                        *)
LEMMA ReadGatewayFacts ==
    ASSUME TypeInv, NEW w \in Workers, ReadGateway(w)
    PROVE  /\ pc'[w] = IF loc[w].op = "serverNew" THEN "save" ELSE "configs"
           /\ loc'[w].op = loc[w].op /\ loc'[w].req = loc[w].req /\ loc'[w].node = loc[w].node
           /\ loc'[w].role = loc[w].role /\ loc'[w].gw = gateway
<1>1. loc[w] \in Local /\ loc'[w] = [loc[w] EXCEPT !.gw = gateway]
  BY DEF TypeInv, TypeOK, ReadGateway
<1>2. pc'[w] = IF loc[w].op = "serverNew" THEN "save" ELSE "configs"
  BY GotoFacts DEF ReadGateway
<1> QED BY <1>1, <1>2, LocalFields

(* The copy goes back with the certificate of the request.                  *)
LEMMA SaveRequesterFacts ==
    ASSUME TypeInv, NEW w \in Workers, NEW id \in UUID, SaveRequester(w, id)
    PROVE  /\ pc'[w] = "request" /\ loc'[w].req = id
           /\ loc'[w].op = loc[w].op /\ loc'[w].node = loc[w].node /\ loc'[w].role = loc[w].role
           /\ gateway'.ip = loc[w].gw.ip /\ gateway'.peers = loc[w].gw.peers
           /\ gateway'.certs = loc[w].gw.certs \cup {id}
<1>1. loc[w] \in Local /\ loc'[w] = [loc[w] EXCEPT !.req = id]
  BY DEF TypeInv, TypeOK, SaveRequester
<1>2. pc'[w] = "request"
  BY GotoFacts DEF SaveRequester
<1>3. /\ gateway'.ip = loc[w].gw.ip /\ gateway'.peers = loc[w].gw.peers
      /\ gateway'.certs = loc[w].gw.certs \cup {id}
  BY <1>1 DEF SaveRequester, Local, GatewayRow
<1> QED BY <1>1, <1>2, <1>3, LocalFields

(* The copy goes back without the certificate of the request.               *)
LEMMA SaveJoinedFacts ==
    ASSUME TypeInv, NEW w \in Workers, SaveJoined(w)
    PROVE  /\ pc'[w] = "delete" /\ UNCHANGED loc
           /\ gateway'.ip = loc[w].gw.ip /\ gateway'.peers = loc[w].gw.peers
           /\ gateway'.certs = loc[w].gw.certs \ {loc[w].req}
<1>1. loc[w] \in Local
  BY DEF TypeInv, TypeOK
<1>2. pc'[w] = "delete" /\ UNCHANGED loc
  BY GotoFacts DEF SaveJoined
<1>3. /\ gateway'.ip = loc[w].gw.ip /\ gateway'.peers = loc[w].gw.peers
      /\ gateway'.certs = loc[w].gw.certs \ {loc[w].req}
  BY <1>1 DEF SaveJoined, Local, GatewayRow
<1> QED BY <1>2, <1>3

(* The file gets the peers of the copy.                                     *)
LEMMA SaveConfigsFacts ==
    ASSUME TypeInv, NEW w \in Workers, SaveConfigs(w)
    PROVE  /\ wgFile'.peers = loc[w].gw.peers
           /\ \/ UNCHANGED loc /\ loc[w].op = "join" /\ pc'[w] = "save"
              \/ UNCHANGED loc /\ loc[w].op = "clientNew" /\ pc'[w] = "print"
              \/ loc[w].op \in {"configure", "gatewayStart"} /\ Finish(w)
  BY GotoFacts DEF SaveConfigs

-----------------------------------------------------------------------------
(* Every step keeps the invariant *)

(* The tables are known as they were when a step does not write them.       *)
LEMMA TablesKept ==
    ASSUME TableInv, UNCHANGED <<nodes, gateway, requests, wgFile, handed, issued>>
    PROVE  TableInv'
  BY DEF TableInv, TablesIssued, GatewayFirst, CertsKept, Connected, Members, PeerOf

(* There is nothing to know of a handler that has ended.                    *)
LEMMA HandlerEnds ==
    ASSUME OneAtATime, TypeInv, NEW w \in Workers, Finish(w)
    PROVE  HandlerInv'
<1>1. pc'[w] = "idle" /\ loc'[w].op = "none" /\ loc'[w].req = NoID
  BY FinishFacts
<1>2. OpFits' /\ CopyFresh' /\ LocalsIssued'
  BY <1>1 DEF OneAtATime, OpFits, CopyFresh, HoldsCopy, LocalsIssued
<1>3. NodeMade'
  BY <1>1 DEF OneAtATime, NodeMade, MakesNode, NodeOps
<1> QED BY <1>2, <1>3 DEF HandlerInv

(* The first steps of the handlers change no table.                         *)
LEMMA StartSteps ==
    ASSUME OneAtATime, SequentialInv, NEW w \in Workers,
           GatewayStart(w) \/ JoinStart(w) \/ ServerNew(w) \/ ClientNew(w)
    PROVE  HandlerInv' /\ TableInv'
<1>1. UNCHANGED <<nodes, gateway, requests, wgFile, handed, issued>>
  BY DEF GatewayStart, JoinStart, ServerNew, ClientNew
<1>2. TableInv'
  BY <1>1, TablesKept DEF SequentialInv
<1>3. /\ \/ pc'[w] = "ensure" /\ loc'[w].op \in {"configure", "gatewayStart"}
         \/ pc'[w] = "read" /\ loc'[w].op \in {"configure", "gatewayStart"}
         \/ pc'[w] = "create" /\ loc'[w].op = "join"
         \/ pc'[w] = "serverRequests"
         \/ pc'[w] = "clients" /\ loc'[w].gw = gateway
      /\ loc'[w].req # NoID => loc'[w].req \in issued /\ loc'[w].req \notin Members
  <2>1. CASE GatewayStart(w)
    BY <2>1, GatewayStartFacts DEF SequentialInv, HandlerInv, LocalsIssued
  <2>2. CASE JoinStart(w)
    BY <2>2, JoinStartFacts DEF SequentialInv, TableInv, TablesIssued
  <2>3. CASE ServerNew(w)
    BY <2>3, ServerNewFacts DEF SequentialInv
  <2>4. CASE ClientNew(w)
    BY <2>4, ClientNewFacts DEF SequentialInv
  <2> QED BY <2>1, <2>2, <2>3, <2>4
<1>4. OpFits' /\ CopyFresh'
  BY <1>1, <1>3 DEF OneAtATime, OpFits, CopyFresh, HoldsCopy, NodeOps
<1>5. LocalsIssued'
  BY <1>1, <1>3 DEF OneAtATime, LocalsIssued, Members
<1>6. NodeMade'
  BY <1>3 DEF OneAtATime, NodeMade, MakesNode, NodeOps
<1> QED BY <1>2, <1>4, <1>5, <1>6 DEF HandlerInv

(* The gateway's row comes into empty tables.                               *)
LEMMA CreateGatewayStep ==
    ASSUME OneAtATime, SequentialInv, NEW w \in Workers, NEW ip \in IP, CreateGateway(w, ip)
    PROVE  HandlerInv' /\ TableInv'
<1>1. Members = {} /\ handed = {} /\ requests = {}
  BY DEF CreateGateway, SequentialInv, TableInv, GatewayFirst
<1>2. UNCHANGED <<nodes, requests, wgFile, handed, issued, loc>>
  BY DEF CreateGateway
<1>3. Members' = {}
  BY <1>1, <1>2 DEF Members
<1>4. TableInv'
  BY <1>1, <1>2, <1>3 DEF TableInv, TablesIssued, GatewayFirst, CertsKept, Connected
<1>5. pc'[w] = "update"
  BY GotoFacts DEF CreateGateway, SequentialInv
<1>6. loc[w].op \in {"configure", "gatewayStart"}
  BY DEF CreateGateway, SequentialInv, TypeInv, LocalsSet
<1>7. OpFits' /\ CopyFresh'
  BY <1>2, <1>5, <1>6 DEF OneAtATime, OpFits, CopyFresh, HoldsCopy
<1>8. LocalsIssued'
  BY <1>2, <1>3 DEF SequentialInv, HandlerInv, LocalsIssued
<1>9. NodeMade'
  BY <1>2, <1>6 DEF OneAtATime, NodeMade, MakesNode, NodeOps
<1> QED BY <1>4, <1>7, <1>8, <1>9 DEF HandlerInv

(* The capacity checks change no table.                                     *)
LEMMA ChecksStep ==
    ASSUME OneAtATime, SequentialInv, NEW w \in Workers, Checks(w)
    PROVE  HandlerInv' /\ TableInv'
<1>1. UNCHANGED <<nodes, gateway, requests, wgFile, handed, issued>>
  BY DEF Checks, CountServerJoinRequests, CountWireguardClients, CountAllRequests,
         CheckForcedSubnet
<1>2. TableInv'
  BY <1>1, TablesKept DEF SequentialInv
<1>3. CASE Finish(w)
  BY <1>2, <1>3, HandlerEnds DEF SequentialInv
<1>4. CASE ~Finish(w)
  <2>1. /\ loc'[w].op = loc[w].op /\ loc'[w].req = loc[w].req
        /\ loc'[w].node = loc[w].node /\ loc'[w].gw = loc[w].gw
    BY <1>4, CheckFacts DEF SequentialInv
  <2>2. \/ /\ pc'[w] \in {"clients", "admit"}
           /\ \/ loc[w].op \in {"serverNew", "serverForce"}
              \/ pc[w] = "clients" /\ loc[w].op \in {"clientNew", "clientRequest"}
        \/ pc'[w] = "available" /\ loc[w].op \in {"serverNew", "serverForce"}
        \/ pc'[w] = "create" /\ loc[w].op \in {"serverForce", "clientNew"}
        \/ pc'[w] = "read" /\ loc[w].op = "serverNew"
        \/ pc'[w] = "save" /\ loc[w].op = "clientRequest" /\ pc[w] = "admit"
    BY <1>4, AfterPassing DEF SequentialInv
  <2>3. HoldsCopy(pc'[w], loc[w].op) => HoldsCopy(pc[w], loc[w].op)
    BY <2>2 DEF HoldsCopy
  <2>4. CopyFresh'
    BY <1>1, <2>1, <2>3 DEF OneAtATime, CopyFresh, HoldsCopy, SequentialInv, HandlerInv
  <2>5. OpFits'
    BY <2>1, <2>2 DEF OneAtATime, OpFits, NodeOps
  <2>6. LocalsIssued'
    BY <1>1, <2>1 DEF OneAtATime, SequentialInv, HandlerInv, LocalsIssued, Members
  <2>7. NodeMade'
    BY <2>1, <2>2 DEF OneAtATime, NodeMade, MakesNode, NodeOps
  <2> QED BY <1>2, <2>4, <2>5, <2>6, <2>7 DEF HandlerInv
<1> QED BY <1>3, <1>4

(* A new node has a new identifier, which nobody was told.                  *)
LEMMA CreateNodeStep ==
    ASSUME OneAtATime, SequentialInv, NEW w \in Workers, NEW id \in UUID, NEW ip \in IP,
           NEW s \in Subnet \cup {NoSubnet}, CreateNode(w, id, ip, s)
    PROVE  HandlerInv' /\ TableInv'
<1> USE DEF SequentialInv
<1>1. /\ pc[w] = "create" /\ id \notin issued /\ issued' = issued \cup {id}
      /\ UNCHANGED <<requests, wgFile, handed>>
  BY DEF CreateNode
<1>2. /\ pc'[w] = "update" /\ loc'[w].node = id
      /\ loc'[w].op = loc[w].op /\ loc'[w].req = loc[w].req
      /\ \A n \in UUID \ {id} : nodes'[n] = nodes[n]
      /\ nodes'[id].role # "none"
      /\ gateway'.ip = gateway.ip /\ gateway'.peers = gateway.peers
      /\ gateway'.certs = gateway.certs \cup {id}
  BY CreateNodeFacts
<1>3. Members' = Members \cup {id}
  BY <1>2 DEF Members
<1>4. \A h \in handed : h.id \in UUID /\ h.id # id
  BY <1>1 DEF TypeInv, TypeOK, Handed, TableInv, TablesIssued
<1>5. gateway.ip # NoIP
  BY <1>1 DEF RegistryInv, CopyAddress
<1>6. TablesIssued'
  BY <1>1, <1>3 DEF TableInv, TablesIssued
<1>7. GatewayFirst' /\ CertsKept'
  BY <1>2, <1>3, <1>5 DEF TableInv, GatewayFirst, CertsKept
<1>8. Connected'
  BY <1>1, <1>2, <1>4 DEF TableInv, Connected, PeerOf
<1>9. OpFits' /\ CopyFresh'
  BY <1>1, <1>2 DEF OneAtATime, OpFits, CopyFresh, HoldsCopy, HandlerInv
<1>10. LocalsIssued'
  BY <1>1, <1>2, <1>3 DEF OneAtATime, LocalsIssued, HandlerInv
<1>11. NodeMade'
  BY <1>1, <1>2, <1>3, <1>4 DEF OneAtATime, NodeMade
<1> QED BY <1>6, <1>7, <1>8, <1>9, <1>10, <1>11 DEF HandlerInv, TableInv

(* The generated peers hold every node, and its address is what it was.     *)
LEMMA UpdateNodesStep ==
    ASSUME OneAtATime, SequentialInv, NEW w \in Workers, UpdateNodes(w)
    PROVE  HandlerInv' /\ TableInv'
<1> USE DEF SequentialInv
<1>1. pc[w] = "update" /\ UNCHANGED <<requests, wgFile, handed, issued>>
  BY DEF UpdateNodes
<1>2. /\ \A n \in UUID : /\ nodes'[n].role = nodes[n].role
                         /\ nodes'[n].ip = nodes[n].ip
                         /\ nodes'[n].subnet = nodes[n].subnet
      /\ \A n \in Members : nodes'[n].complete
      /\ gateway'.ip = gateway.ip /\ gateway'.peers = GeneratedPeers
      /\ gateway'.certs = gateway.certs
  BY UpdateNodesFacts
<1>3. Members' = Members /\ \A n \in UUID : PeerOf(n)' = PeerOf(n)
  BY <1>2 DEF Members, PeerOf
<1>4. \A n \in Members : n \in UUID /\ PeerOf(n) \in GeneratedPeers
  BY DEF GeneratedPeers, Members
<1>5. \A h \in handed : h.id \in UUID
  BY DEF TypeInv, TypeOK, Handed
<1>6. TablesIssued' /\ GatewayFirst' /\ CertsKept'
  BY <1>1, <1>2, <1>3 DEF TableInv, TablesIssued, GatewayFirst, CertsKept
<1>7. Connected'
  <2> SUFFICES ASSUME NEW h \in handed, nodes[h.id].role # "none"
               PROVE  /\ h.complete
                      /\ h.ip = nodes'[h.id].ip /\ h.subnet = nodes'[h.id].subnet
                      /\ PeerOf(h.id)' \in gateway'.peers
                      /\ PeerOf(h.id)' \in wgFile'.peers
    BY <1>1, <1>2, <1>5 DEF Connected
  <2>1. h.id \in Members
    BY <1>5 DEF Members
  <2> QED BY <1>1, <1>2, <1>3, <1>4, <1>5, <2>1 DEF TableInv, Connected
<1>8. HandlerInv'
  <2>1. CASE Finish(w)
    BY <2>1, HandlerEnds
  <2>2. CASE loc[w].op # "serverForce" /\ Goto(w, "read") /\ UNCHANGED loc
    <3>1. pc'[w] = "read"
      BY <2>2, GotoFacts
    <3>2. OpFits' /\ CopyFresh'
      BY <1>1, <2>2, <3>1 DEF OneAtATime, OpFits, CopyFresh, HoldsCopy, HandlerInv, NodeOps
    <3>3. LocalsIssued'
      BY <1>1, <1>3, <2>2 DEF LocalsIssued, HandlerInv
    <3>4. NodeMade'
      <4> SUFFICES ASSUME loc[w].op \in NodeOps
                   PROVE  /\ loc[w].node \in Members'
                          /\ \A h \in handed : h.id # loc[w].node
                          /\ nodes'[loc[w].node].complete
                          /\ PeerOf(loc[w].node)' \in gateway'.peers
        BY <1>1, <2>2, <3>1 DEF OneAtATime, NodeMade, MakesNode
      <4>1. loc[w].node \in Members /\ \A h \in handed : h.id # loc[w].node
        BY <1>1 DEF HandlerInv, NodeMade, MakesNode
      <4>2. PeerOf(loc[w].node)' = PeerOf(loc[w].node)
        BY <1>2, <1>4, <2>2, <4>1 DEF PeerOf
      <4> QED BY <1>2, <1>3, <1>4, <4>1, <4>2
    <3> QED BY <3>2, <3>3, <3>4 DEF HandlerInv
  <2> QED BY <2>1, <2>2 DEF UpdateNodes
<1> QED BY <1>6, <1>7, <1>8 DEF TableInv

(* The copy is fresh.                                                       *)
LEMMA ReadGatewayStep ==
    ASSUME OneAtATime, SequentialInv, NEW w \in Workers, ReadGateway(w)
    PROVE  HandlerInv' /\ TableInv'
<1> USE DEF SequentialInv
<1>1. pc[w] = "read" /\ UNCHANGED <<nodes, gateway, requests, wgFile, handed, issued>>
  BY DEF ReadGateway
<1>2. TableInv'
  BY <1>1, TablesKept
<1>3. /\ pc'[w] = IF loc[w].op = "serverNew" THEN "save" ELSE "configs"
      /\ loc'[w].op = loc[w].op /\ loc'[w].req = loc[w].req /\ loc'[w].node = loc[w].node
      /\ loc'[w].gw = gateway
  BY ReadGatewayFacts
<1>4. OpFits' /\ CopyFresh'
  BY <1>1, <1>3 DEF OneAtATime, OpFits, CopyFresh, HoldsCopy, HandlerInv
<1>5. LocalsIssued'
  BY <1>1, <1>3 DEF OneAtATime, LocalsIssued, HandlerInv, Members
<1>6. NodeMade'
  BY <1>1, <1>3 DEF OneAtATime, NodeMade, MakesNode, NodeOps, HandlerInv, Members, PeerOf
<1> QED BY <1>2, <1>4, <1>5, <1>6 DEF HandlerInv

(* The file gets every peer that the row has.                               *)
LEMMA SaveConfigsStep ==
    ASSUME OneAtATime, SequentialInv, NEW w \in Workers, SaveConfigs(w)
    PROVE  HandlerInv' /\ TableInv'
<1> USE DEF SequentialInv
<1>1. pc[w] = "configs" /\ UNCHANGED <<nodes, gateway, requests, handed, issued>>
  BY DEF SaveConfigs
<1>2. wgFile'.peers = gateway.peers /\ loc[w].gw = gateway
  BY <1>1, SaveConfigsFacts DEF HandlerInv, CopyFresh, HoldsCopy
<1>3. TableInv'
  BY <1>1, <1>2 DEF TableInv, TablesIssued, GatewayFirst, CertsKept, Connected, Members, PeerOf
<1>4. CASE Finish(w)
  BY <1>3, <1>4, HandlerEnds
<1>5. CASE /\ UNCHANGED loc
           /\ \/ loc[w].op = "join" /\ pc'[w] = "save"
              \/ loc[w].op = "clientNew" /\ pc'[w] = "print"
  <2>1. OpFits' /\ CopyFresh'
    BY <1>1, <1>2, <1>5 DEF OneAtATime, OpFits, CopyFresh, HoldsCopy
  <2>2. LocalsIssued'
    BY <1>1, <1>5 DEF LocalsIssued, HandlerInv, Members
  <2>3. NodeMade'
    BY <1>1, <1>2, <1>5 DEF OneAtATime, NodeMade, MakesNode, NodeOps, HandlerInv, Members, PeerOf
  <2> QED BY <1>3, <2>1, <2>2, <2>3 DEF HandlerInv
<1> QED BY <1>4, <1>5, SaveConfigsFacts

(* Only the certificate of a request goes, which no node has.               *)
LEMMA SaveJoinedStep ==
    ASSUME OneAtATime, SequentialInv, NEW w \in Workers, SaveJoined(w)
    PROVE  HandlerInv' /\ TableInv'
<1> USE DEF SequentialInv
<1>1. /\ pc[w] = "save" /\ loc[w].op = "join"
      /\ UNCHANGED <<nodes, requests, wgFile, handed, issued>>
  BY DEF SaveJoined
<1>2. loc[w].gw = gateway
  BY <1>1 DEF HandlerInv, CopyFresh, HoldsCopy
<1>3. /\ pc'[w] = "delete" /\ UNCHANGED loc
      /\ gateway'.ip = gateway.ip /\ gateway'.peers = gateway.peers
      /\ gateway'.certs = gateway.certs \ {loc[w].req}
  BY <1>2, SaveJoinedFacts
<1>4. loc[w].req \notin Members
  BY RegistryAssumption DEF HandlerInv, LocalsIssued, Members
<1>5. TableInv'
  BY <1>1, <1>3, <1>4 DEF TableInv, TablesIssued, GatewayFirst, CertsKept, Connected, Members,
                          PeerOf
<1>6. OpFits' /\ CopyFresh'
  BY <1>1, <1>3 DEF OneAtATime, OpFits, CopyFresh, HoldsCopy
<1>7. LocalsIssued'
  BY <1>1, <1>3 DEF LocalsIssued, HandlerInv, Members
<1>8. NodeMade'
  BY <1>1, <1>3 DEF OneAtATime, NodeMade, MakesNode, NodeOps, HandlerInv, Members, PeerOf
<1> QED BY <1>5, <1>6, <1>7, <1>8 DEF HandlerInv

(* The row that goes back is the one of the database.                       *)
LEMMA SaveRequesterStep ==
    ASSUME OneAtATime, SequentialInv, NEW w \in Workers, NEW id \in UUID, SaveRequester(w, id)
    PROVE  HandlerInv' /\ TableInv'
<1> USE DEF SequentialInv
<1>1. /\ pc[w] = "save" /\ loc[w].op # "join" /\ id \notin issued /\ issued' = issued \cup {id}
      /\ UNCHANGED <<nodes, requests, wgFile, handed>>
  BY DEF SaveRequester
<1>2. loc[w].gw = gateway
  BY <1>1 DEF HandlerInv, CopyFresh, HoldsCopy
<1>3. /\ pc'[w] = "request" /\ loc'[w].req = id /\ loc'[w].op = loc[w].op
      /\ gateway'.ip = gateway.ip /\ gateway'.peers = gateway.peers
      /\ gateway'.certs = gateway.certs \cup {id}
  BY <1>2, SaveRequesterFacts
<1>4. id \notin Members
  BY <1>1 DEF TableInv, TablesIssued
<1>5. TableInv'
  BY <1>1, <1>3 DEF TableInv, TablesIssued, GatewayFirst, CertsKept, Connected, Members, PeerOf
<1>6. OpFits' /\ CopyFresh'
  BY <1>1, <1>3 DEF OneAtATime, OpFits, CopyFresh, HoldsCopy, HandlerInv
<1>7. LocalsIssued'
  BY <1>1, <1>3, <1>4 DEF OneAtATime, LocalsIssued, Members
<1>8. NodeMade'
  BY <1>3 DEF OneAtATime, NodeMade, MakesNode
<1> QED BY <1>5, <1>6, <1>7, <1>8 DEF HandlerInv

(* The identifier of a request is not one of a node.                        *)
LEMMA CreateRequestStep ==
    ASSUME OneAtATime, SequentialInv, NEW w \in Workers, CreateRequest(w)
    PROVE  HandlerInv' /\ TableInv'
<1> USE DEF SequentialInv
<1>1. /\ pc[w] = "request" /\ Finish(w)
      /\ UNCHANGED <<nodes, gateway, wgFile, handed, issued>>
      /\ requests' = requests \cup {[id |-> loc[w].req, role |-> loc[w].role,
                                     subnet |-> loc[w].subnet]}
  BY DEF CreateRequest
<1>2. loc[w].req \in issued /\ loc[w].req \notin Members
  <2>1. loc[w].req \in UUID
    BY <1>1 DEF TypeInv, LocalsSet
  <2> QED BY <2>1, RegistryAssumption DEF HandlerInv, LocalsIssued
<1>3. gateway.ip # NoIP
  BY <1>1 DEF RegistryInv, CopyAddress
<1>4. TableInv'
  BY <1>1, <1>2, <1>3 DEF TableInv, TablesIssued, GatewayFirst, CertsKept, Connected, Members,
                          PeerOf
<1> QED BY <1>1, <1>4, HandlerEnds

(* The node that a handler hands out is connected.                          *)
LEMMA HandOutStep ==
    ASSUME OneAtATime, SequentialInv, NEW w \in Workers, PrintClient(w) \/ DeleteRequest(w)
    PROVE  HandlerInv' /\ TableInv'
<1> USE DEF SequentialInv
<1>1. /\ pc[w] \in {"print", "delete"} /\ HandOut(w) /\ Finish(w)
      /\ UNCHANGED <<nodes, gateway, wgFile, issued>> /\ requests' \subseteq requests
  BY DEF PrintClient, DeleteRequest
<1>2. MakesNode(w)
  BY <1>1 DEF MakesNode, NodeOps, HandlerInv, OpFits
<1> DEFINE n == loc[w].node
<1>3. n \in Members /\ nodes[n].complete /\ PeerOf(n) \in gateway.peers
                    /\ PeerOf(n) \in wgFile.peers
  BY <1>1, <1>2 DEF HandlerInv, NodeMade
<1>4. gateway.ip # NoIP
  BY <1>1 DEF RegistryInv, CopyAddress
<1>5. ASSUME NEW h \in handed', h \notin handed
      PROVE  /\ h.id = n /\ h.ip = nodes[n].ip /\ h.subnet = nodes[n].subnet
             /\ h.complete = nodes[n].complete
  BY <1>1, <1>5 DEF HandOut
<1>6. TablesIssued'
  BY <1>1, <1>3, <1>5 DEF TableInv, TablesIssued, Members
<1>7. GatewayFirst' /\ CertsKept'
  BY <1>1, <1>4 DEF TableInv, GatewayFirst, CertsKept, Members
<1>8. Connected'
  <2> SUFFICES ASSUME NEW h \in handed', nodes[h.id].role # "none"
               PROVE  /\ h.complete
                      /\ h.ip = nodes[h.id].ip /\ h.subnet = nodes[h.id].subnet
                      /\ PeerOf(h.id) \in gateway.peers
                      /\ PeerOf(h.id) \in wgFile.peers
    BY <1>1 DEF Connected, PeerOf
  <2>1. CASE h \in handed
    BY <2>1 DEF TableInv, Connected
  <2>2. CASE h \notin handed
    BY <1>3, <1>5, <2>2
  <2> QED BY <2>1, <2>2
<1> QED BY <1>1, <1>6, <1>7, <1>8, HandlerEnds DEF TableInv

(* A server that removes itself is not the node of the handler under way:   *)
(* that one has not been handed out yet.                                    *)
LEMMA ServerRemoveStep ==
    ASSUME SequentialInv, NEW n \in UUID, ServerRemove(n)
    PROVE  HandlerInv' /\ TableInv'
<1> USE DEF SequentialInv
<1>1. /\ UNCHANGED <<gateway, requests, wgFile, handed, issued, pc, loc>>
      /\ \E h \in handed : h.id = n
  BY DEF ServerRemove
<1>2. /\ \A m \in UUID \ {n} : nodes'[m] = nodes[m]
      /\ nodes'[n].role = "none"
  BY DEF ServerRemove, TypeInv, TypeOK, NoRow
<1>3. Members' = Members \ {n}
  BY <1>2 DEF Members
<1>4. \A h \in handed : h.id \in UUID
  BY DEF TypeInv, TypeOK, Handed
<1>5. TablesIssued' /\ GatewayFirst' /\ CertsKept'
  BY <1>1, <1>3 DEF TableInv, TablesIssued, GatewayFirst, CertsKept
<1>6. Connected'
  BY <1>1, <1>2, <1>4 DEF TableInv, Connected, PeerOf
<1>7. OpFits' /\ CopyFresh' /\ LocalsIssued'
  BY <1>1, <1>3 DEF HandlerInv, OpFits, CopyFresh, HoldsCopy, LocalsIssued
<1>8. NodeMade'
  <2> SUFFICES ASSUME NEW w \in Workers, MakesNode(w)
               PROVE  /\ loc[w].node \in Members'
                      /\ \A h \in handed : h.id # loc[w].node
                      /\ pc[w] # "update" => /\ nodes'[loc[w].node].complete
                                             /\ PeerOf(loc[w].node)' \in gateway.peers
                      /\ pc[w] \in {"print", "save", "delete"} =>
                            PeerOf(loc[w].node)' \in wgFile.peers
    BY <1>1 DEF NodeMade, MakesNode
  <2>1. /\ loc[w].node \in Members
        /\ \A h \in handed : h.id # loc[w].node
        /\ pc[w] # "update" => /\ nodes[loc[w].node].complete
                               /\ PeerOf(loc[w].node) \in gateway.peers
        /\ pc[w] \in {"print", "save", "delete"} => PeerOf(loc[w].node) \in wgFile.peers
    BY DEF HandlerInv, NodeMade
  <2>2. loc[w].node \in UUID \ {n}
    BY <1>1, <2>1 DEF Members
  <2>3. nodes'[loc[w].node] = nodes[loc[w].node] /\ PeerOf(loc[w].node)' = PeerOf(loc[w].node)
    BY <1>1, <1>2, <2>2 DEF PeerOf
  <2> QED BY <1>3, <2>1, <2>2, <2>3
<1> QED BY <1>5, <1>6, <1>7, <1>8 DEF HandlerInv, TableInv

(* A handler that ends early leaves the tables.                             *)
LEMMA FaultSteps ==
    ASSUME OneAtATime, SequentialInv, Crash \/ \E w \in Workers : Abort(w) \/ CreateRefused(w)
    PROVE  HandlerInv' /\ TableInv'
<1> USE DEF SequentialInv
<1>1. TableInv'
  BY TablesKept DEF Crash, Abort, CreateRefused
<1>2. ASSUME NEW w \in Workers, Abort(w) \/ CreateRefused(w) PROVE HandlerInv'
  BY <1>2, HandlerEnds DEF Abort, CreateRefused
<1>3. CASE Crash
  <2>1. \A w \in Workers : pc'[w] = "idle" /\ loc'[w].op = "none" /\ loc'[w].req = NoID
    BY <1>3 DEF Crash, NoLocal
  <2>2. OpFits' /\ CopyFresh' /\ LocalsIssued'
    BY <2>1 DEF OpFits, CopyFresh, HoldsCopy, LocalsIssued
  <2>3. NodeMade'
    BY <2>1 DEF NodeMade, MakesNode, NodeOps
  <2> QED BY <1>1, <2>2, <2>3 DEF HandlerInv
<1> QED BY <1>1, <1>2, <1>3

(* Every step keeps the invariant.                                          *)
LEMMA SequentialStep ==
    ASSUME OneAtATime, SequentialInv, [Next]_vars
    PROVE  SequentialInv'
<1>1. TypeInv' /\ RegistryInv'
  BY TypeStep, SafeStep DEF SequentialInv
<1>2. CASE UNCHANGED vars
  <2>1. HandlerInv'
    BY <1>2 DEF vars, SequentialInv, HandlerInv, OpFits, CopyFresh, HoldsCopy, LocalsIssued, NodeMade,
                MakesNode, Members, PeerOf
  <2>2. TableInv'
    BY <1>2, TablesKept DEF vars, SequentialInv
  <2> QED BY <1>1, <2>1, <2>2 DEF SequentialInv
<1>3. HandlerInv' /\ TableInv' => SequentialInv'
  BY <1>1 DEF SequentialInv
<1>4. ASSUME NEW w \in Workers, WorkerStep(w) PROVE SequentialInv'
  BY <1>3, <1>4, StartSteps, CreateGatewayStep, ChecksStep, CreateNodeStep, UpdateNodesStep,
     ReadGatewayStep, SaveConfigsStep, SaveJoinedStep, SaveRequesterStep, CreateRequestStep,
     HandOutStep, FaultSteps DEF WorkerStep, Checks
<1> QED BY <1>2, <1>3, <1>4, ServerRemoveStep, FaultSteps DEF Next

(* The empty database satisfies it.                                         *)
LEMMA SequentialInit == Init => SequentialInv
<1> SUFFICES ASSUME Init PROVE SequentialInv
  OBVIOUS
<1>1. TypeInv /\ RegistryInv
  BY TypeInit, SafeInit
<1>2. Members = {} /\ handed = {} /\ requests = {}
  BY DEF Init, Members, NoRow
<1>3. TableInv
  BY <1>2 DEF TableInv, TablesIssued, GatewayFirst, CertsKept, Connected
<1>4. \A w \in Workers : pc[w] = "idle" /\ loc[w].op = "none" /\ loc[w].req = NoID
  BY DEF Init, NoLocal
<1>5. OpFits /\ CopyFresh /\ LocalsIssued
  BY <1>4 DEF OpFits, CopyFresh, HoldsCopy, LocalsIssued
<1>6. NodeMade
  BY <1>4 DEF NodeMade, MakesNode, NodeOps
<1> QED BY <1>1, <1>3, <1>5, <1>6 DEF SequentialInv, HandlerInv

(* The inductive invariant of a gateway that serves one command at a time.  *)
THEOREM SequentialInvHolds ==
    ASSUME OneAtATime
    PROVE  Spec => []SequentialInv
<1>1. SequentialInv /\ [Next]_vars => SequentialInv'
  BY SequentialStep
<1> QED BY <1>1, SequentialInit, PTL DEF Spec

(* A node that was given its configuration is a peer of the gateway with    *)
(* the address and the subnet that it was told, in the database and in      *)
(* wg0.conf, however many handlers fail and the container restarts.         *)
THEOREM HandedAreConnected ==
    ASSUME OneAtATime
    PROVE  Spec => []HandedIsConnected
<1>1. SequentialInv => HandedIsConnected
  BY DEF SequentialInv, TableInv, Connected, HandedIsConnected, PeerOf
<1> QED BY <1>1, SequentialInvHolds, PTL

(* The certificate of every node stays in the gateway's bundle.             *)
THEOREM CertificatesAreKept ==
    ASSUME OneAtATime
    PROVE  Spec => []CertsKept
<1>1. SequentialInv => CertsKept
  BY DEF SequentialInv, TableInv
<1> QED BY <1>1, SequentialInvHolds, PTL

-----------------------------------------------------------------------------
(* Counting *)

(* A finite set has at least as many elements as its image.                 *)
LEMMA ImageCount ==
    ASSUME NEW S, IsFiniteSet(S), NEW f
    PROVE  /\ IsFiniteSet({f[x] : x \in S})
           /\ Cardinality({f[x] : x \in S}) <= Cardinality(S)
<1> DEFINE T == {f[x] : x \in S}
           g == [x \in S |-> f[x]]
<1>1. g \in Surjection(S, T)
  BY DEF Surjection
<1> HIDE DEF T, g
<1>2. IsFiniteSet(T) /\ Cardinality(T) <= Cardinality(S)
  BY <1>1, FS_Surjection
<1> QED BY <1>2 DEF T

(* At most as many numbers are taken as there are in use.                   *)
LEMMA LeftOver ==
    ASSUME NEW n \in Nat, NEW U, IsFiniteSet(U)
    PROVE  /\ Cardinality((1 .. n) \ U) \in Nat
           /\ Cardinality(U) \in Nat
           /\ n <= Cardinality((1 .. n) \ U) + Cardinality(U)
<1> DEFINE I == 1 .. n
<1>1. IsFiniteSet(I) /\ Cardinality(I) = n
  BY FS_Interval
<1>2. IsFiniteSet(I \ U) /\ IsFiniteSet(I \cap U) /\ IsFiniteSet((I \ U) \cap (I \cap U))
  BY <1>1, FS_Subset
<1>3. Cardinality(I \cap U) <= Cardinality(U)
  BY FS_Intersection
<1>4. Cardinality((I \ U) \cup (I \cap U)) =
          Cardinality(I \ U) + Cardinality(I \cap U) - Cardinality((I \ U) \cap (I \cap U))
  BY <1>2, FS_Union
<1>5. (I \ U) \cup (I \cap U) = I
  OBVIOUS
<1>6. /\ Cardinality(I \ U) \in Nat /\ Cardinality(I \cap U) \in Nat
      /\ Cardinality((I \ U) \cap (I \cap U)) \in Nat /\ Cardinality(U) \in Nat
  BY <1>2, FS_CardinalityType
<1>7. n = Cardinality(I \ U) + Cardinality(I \cap U) - Cardinality((I \ U) \cap (I \cap U))
  BY <1>1, <1>4, <1>5
<1>8. \A a, b, c, u \in Nat : n = a + b - c /\ b <= u => n <= a + u
  OBVIOUS
<1>9. n <= Cardinality(I \ U) + Cardinality(U)
  BY <1>3, <1>6, <1>7, <1>8
<1> QED BY <1>6, <1>9

(* Requests that wait, one that is about to be made or not (c), and the     *)
(* rows that are there fit into m.                                          *)
Fits(waiting, c, rows, g, m) == Cardinality(waiting) + c + Cardinality(rows) + g <= m

(* What fits still fits when there is less of it.                           *)
LEMMA FitsLess ==
    ASSUME NEW P, IsFiniteSet(P), NEW M, IsFiniteSet(M), NEW Q \in SUBSET P,
           NEW N \in SUBSET M, NEW c \in Nat, NEW d \in 0 .. c, NEW g \in Nat, NEW m \in Nat,
           Fits(P, c, M, g, m)
    PROVE  Fits(Q, d, N, g, m)
<1>1. Cardinality(Q) <= Cardinality(P) /\ Cardinality(N) <= Cardinality(M)
  BY FS_Subset
<1>2. IsFiniteSet(Q) /\ IsFiniteSet(N)
  BY FS_Subset
<1>3. /\ Cardinality(P) \in Nat /\ Cardinality(M) \in Nat
      /\ Cardinality(Q) \in Nat /\ Cardinality(N) \in Nat
  BY <1>2, FS_CardinalityType
<1> QED BY <1>1, <1>3 DEF Fits

(* A request comes in the place that was kept for it ...                    *)
LEMMA FitsRequest ==
    ASSUME NEW P, IsFiniteSet(P), NEW M, IsFiniteSet(M), NEW r, NEW g \in Nat, NEW m \in Nat,
           Fits(P, 1, M, g, m)
    PROVE  Fits(P \cup {r}, 0, M, g, m)
<1>1. Cardinality(P) \in Nat /\ Cardinality(M) \in Nat
  BY FS_CardinalityType
<1>2. Cardinality(P \cup {r}) \in {Cardinality(P), Cardinality(P) + 1}
  BY FS_AddElement
<1> QED BY <1>1, <1>2 DEF Fits

(* ... and so does a row,                                                   *)
LEMMA FitsNode ==
    ASSUME NEW P, IsFiniteSet(P), NEW M, IsFiniteSet(M), NEW n, NEW g \in Nat, NEW m \in Nat,
           Fits(P, 1, M, g, m)
    PROVE  Fits(P, 0, M \cup {n}, g, m)
<1>1. Cardinality(P) \in Nat /\ Cardinality(M) \in Nat
  BY FS_CardinalityType
<1>2. Cardinality(M \cup {n}) \in {Cardinality(M), Cardinality(M) + 1}
  BY FS_AddElement
<1> QED BY <1>1, <1>2 DEF Fits

(* or a row comes in the place of the request that it serves.               *)
LEMMA FitsJoin ==
    ASSUME NEW P, IsFiniteSet(P), NEW M, IsFiniteSet(M), NEW n, NEW g \in Nat, NEW m \in Nat,
           NEW r \in P, Fits(P, 0, M, g, m), NEW Q \in SUBSET (P \ {r})
    PROVE  Fits(Q, 0, M \cup {n}, g, m)
<1>1. Cardinality(P) \in Nat /\ Cardinality(M) \in Nat
  BY FS_CardinalityType
<1>2. Cardinality(M \cup {n}) \in {Cardinality(M), Cardinality(M) + 1}
  BY FS_AddElement
<1>3. IsFiniteSet(P \ {r}) /\ Cardinality(P \ {r}) = Cardinality(P) - 1
  BY FS_RemoveElement
<1>4. Cardinality(Q) <= Cardinality(P) - 1 /\ IsFiniteSet(Q)
  BY <1>3, FS_Subset
<1>5. Cardinality(Q) \in Nat
  BY <1>4, FS_CardinalityType
<1> QED BY <1>1, <1>2, <1>4, <1>5 DEF Fits

(* A capacity check that passes keeps a place for one more.                 *)
LEMMA FitsAdmit ==
    ASSUME NEW R, IsFiniteSet(R), NEW M, IsFiniteSet(M), NEW g \in Nat, NEW m \in Nat,
           Cardinality(R) + (Cardinality(M) + g) < m, NEW Q \in SUBSET R
    PROVE  Fits(Q, 1, M, g, m)
<1>1. Cardinality(R) \in Nat /\ Cardinality(M) \in Nat
  BY FS_CardinalityType
<1>2. Cardinality(Q) <= Cardinality(R) /\ IsFiniteSet(Q)
  BY FS_Subset
<1>3. Cardinality(Q) \in Nat
  BY <1>2, FS_CardinalityType
<1> QED BY <1>1, <1>2, <1>3 DEF Fits

(* The gateway's row counts against the addresses, not against the subnets. *)
LEMMA FitsWithoutGateway ==
    ASSUME NEW P, IsFiniteSet(P), NEW M, IsFiniteSet(M), NEW c \in Nat, NEW g \in Nat,
           NEW m \in Nat, Fits(P, c, M, g, m)
    PROVE  Fits(P, c, M, 0, m)
<1>1. Cardinality(P) \in Nat /\ Cardinality(M) \in Nat
  BY FS_CardinalityType
<1> QED BY <1>1 DEF Fits

-----------------------------------------------------------------------------
(* The requests that were let in fit *)

(* A handler that passed the capacity checks and has not yet inserted the   *)
(* row or the request that they were about.                                 *)
Admitted(w) ==
    \/ pc[w] = "create" /\ loc[w].op \in {"serverForce", "clientNew"}
    \/ pc[w] \in {"read", "save", "request"} /\ loc[w].op \in {"serverNew", "clientRequest"}
Coming == IF \E w \in Workers : Admitted(w) THEN 1 ELSE 0
ComingServers == IF \E w \in Workers : Admitted(w) /\ loc[w].role = "server" THEN 1 ELSE 0

PendingServers == {r \in Pending : r.role = "server"}

(* What waits, what is coming and what is there fit into the addresses and  *)
(* the subnets of the pool.                                                 *)
Room ==
    faults = 0 =>
        /\ Fits(Pending, Coming, Members, GatewayRows, LastIP)
        /\ Fits(PendingServers, ComingServers, Servers, 0, PoolSize)

(* A join has its request until its node is there.                          *)
JoinHasRequest ==
    \A w \in Workers : pc[w] = "create" /\ loc[w].op = "join" =>
        \E r \in requests : r.id = loc[w].req /\ r.role = loc[w].role
NodeOnlyMade == \A w \in Workers : loc[w].node # NoID => MakesNode(w)

(* What the checks that a handler has passed found is still so: only        *)
(* servers that leave come between two of its checks.                       *)
Checked ==
    \A w \in Workers :
        /\ pc[w] = "serverRequests" => UsedDockerSubnets <= loc[w].used
        /\ pc[w] \in {"clients", "admit", "available"} /\ loc[w].role = "server" =>
              Cardinality(ServerRequests) + UsedDockerSubnets < PoolSize
        /\ pc[w] = "admit" => UsedWireguardClients <= loc[w].used
        /\ pc[w] = "available" => Cardinality(requests) + UsedWireguardClients < LastIP

ShapeInv == IsFiniteSet(requests) /\ JoinHasRequest /\ NodeOnlyMade /\ Checked
RoomInv == SequentialInv /\ ShapeInv /\ Room

(* The queries when there is one handler.                                   *)
LEMMA AloneComing ==
    ASSUME OneAtATime, NEW w \in Workers
    PROVE  /\ Admitted(w) => Coming = 1
           /\ ~Admitted(w) => Coming = 0 /\ ComingServers = 0
           /\ Admitted(w) /\ loc[w].role = "server" => ComingServers = 1
           /\ loc[w].role # "server" => ComingServers = 0
           /\ Admitted(w)' => Coming' = 1
           /\ ~Admitted(w)' => Coming' = 0 /\ ComingServers' = 0
           /\ Admitted(w)' /\ loc'[w].role = "server" => ComingServers' = 1
           /\ loc'[w].role # "server" => ComingServers' = 0
  BY DEF OneAtATime, Coming, ComingServers

(* The requests that wait when there is one handler.                        *)
LEMMA AlonePending ==
    ASSUME OneAtATime, NEW w \in Workers
    PROVE  /\ loc[w].op = "join" /\ loc[w].node # NoID =>
                Pending = {r \in requests : r.id # loc[w].req}
           /\ loc[w].op # "join" \/ loc[w].node = NoID => Pending = requests
           /\ loc'[w].op = "join" /\ loc'[w].node # NoID =>
                Pending' = {r \in requests' : r.id # loc'[w].req}
           /\ loc'[w].op # "join" \/ loc'[w].node = NoID => Pending' = requests'
  BY DEF OneAtATime, Pending, InService

(* The sets that are counted are finite.                                    *)
LEMMA NumbersAndSets ==
    ASSUME TypeInv, ShapeInv
    PROVE  /\ IsFiniteSet(Members) /\ IsFiniteSet(Servers)
           /\ IsFiniteSet(Pending) /\ IsFiniteSet(PendingServers)
           /\ IsFiniteSet(ServerRequests)
           /\ Coming \in Nat /\ ComingServers \in Nat /\ GatewayRows \in Nat
           /\ LastIP \in Nat /\ PoolSize \in Nat
<1>1. Members \subseteq UUID /\ Servers \subseteq UUID
  BY DEF Members, Servers
<1>2. IsFiniteSet(Members) /\ IsFiniteSet(Servers)
  BY <1>1, FS_Subset, RegistryAssumption
<1>3. Pending \subseteq requests /\ PendingServers \subseteq requests
                                /\ ServerRequests \subseteq requests
  BY DEF Pending, PendingServers, ServerRequests
<1>4. IsFiniteSet(Pending) /\ IsFiniteSet(PendingServers) /\ IsFiniteSet(ServerRequests)
  BY <1>3, FS_Subset DEF ShapeInv
<1> QED BY <1>2, <1>4, RegistryAssumption DEF Coming, ComingServers, GatewayRows

(* A step that adds nothing.                                                *)
LEMMA RoomKept ==
    ASSUME RoomInv, Pending' \subseteq Pending, Members' \subseteq Members,
           Servers' \subseteq Servers, GatewayRows' = GatewayRows, faults' = faults,
           Coming' \in 0 .. Coming, ComingServers' \in 0 .. ComingServers
    PROVE  Room'
<1> SUFFICES ASSUME faults = 0
             PROVE  /\ Fits(Pending', Coming', Members', GatewayRows, LastIP)
                    /\ Fits(PendingServers', ComingServers', Servers', 0, PoolSize)
  BY DEF Room
<1>1. /\ Fits(Pending, Coming, Members, GatewayRows, LastIP)
      /\ Fits(PendingServers, ComingServers, Servers, 0, PoolSize)
  BY DEF RoomInv, Room
<1>2. PendingServers' \subseteq PendingServers
  BY DEF PendingServers
<1>3. /\ IsFiniteSet(Members) /\ IsFiniteSet(Servers)
      /\ IsFiniteSet(Pending) /\ IsFiniteSet(PendingServers)
      /\ Coming \in Nat /\ ComingServers \in Nat /\ GatewayRows \in Nat
      /\ LastIP \in Nat /\ PoolSize \in Nat
  BY NumbersAndSets DEF RoomInv, SequentialInv
<1>4. Fits(Pending', Coming', Members', GatewayRows, LastIP)
  BY <1>1, <1>3, FitsLess
<1>5. Fits(PendingServers', ComingServers', Servers', 0, PoolSize)
  BY <1>1, <1>2, <1>3, FitsLess
<1> QED BY <1>4, <1>5

(* A handler that starts without a capacity check keeps no place.           *)
LEMMA RoomStarts ==
    ASSUME OneAtATime, RoomInv, NEW w \in Workers,
           GatewayStart(w) \/ JoinStart(w) \/ ServerNew(w) \/ ClientNew(w)
    PROVE  ShapeInv' /\ Room'
<1> USE DEF RoomInv, SequentialInv
<1>1. pc[w] = "idle" /\ UNCHANGED <<nodes, gateway, requests, faults>>
  BY DEF GatewayStart, JoinStart, ServerNew, ClientNew, Start
<1>2. loc[w].node = NoID
  BY <1>1 DEF ShapeInv, NodeOnlyMade, MakesNode
<1>3. /\ ~Admitted(w)' /\ loc'[w].node = NoID
      /\ pc'[w] \notin {"admit", "available"}
      /\ pc'[w] = "clients" => loc'[w].role = "client"
      /\ pc'[w] = "serverRequests" => loc'[w].used = UsedDockerSubnets
      /\ pc'[w] = "create" /\ loc'[w].op = "join" =>
            \E r \in requests : r.id = loc'[w].req /\ r.role = loc'[w].role
  <2>1. CASE GatewayStart(w)
    BY <1>2, <2>1, GatewayStartFacts DEF Admitted
  <2>2. CASE JoinStart(w)
    BY <2>2, JoinStartFacts DEF Admitted
  <2>3. CASE ClientNew(w)
    BY <2>3, ClientNewFacts DEF Admitted
  <2>4. CASE ServerNew(w)
    BY <2>4, ServerNewFacts DEF Admitted
  <2> QED BY <2>1, <2>2, <2>3, <2>4
<1>4. ShapeInv'
  <2>1. UsedDockerSubnets' = UsedDockerSubnets /\ UsedDockerSubnets \in Nat
    BY <1>1, CountsTyped DEF UsedDockerSubnets, Servers, GatewayRows
  <2>2. Checked'
    BY <1>3, <2>1 DEF OneAtATime, Checked
  <2> QED BY <1>1, <1>3, <2>2 DEF OneAtATime, ShapeInv, JoinHasRequest, NodeOnlyMade
<1>5. Pending = requests /\ Pending' = requests
  BY <1>1, <1>2, <1>3, AlonePending
<1>6. Coming' = 0 /\ ComingServers' = 0
  BY <1>3, AloneComing
<1>7. Coming' \in 0 .. Coming /\ ComingServers' \in 0 .. ComingServers
  BY <1>6, NumbersAndSets
<1>8. Members' = Members /\ Servers' = Servers /\ GatewayRows' = GatewayRows
  BY <1>1 DEF Members, Servers, GatewayRows
<1> QED BY <1>1, <1>4, <1>5, <1>7, <1>8, RoomKept

(* A handler that has ended serves no request.                              *)
LEMMA RoomEnds ==
    ASSUME OneAtATime, RoomInv, NEW w \in Workers, Finish(w),
           IsFiniteSet(requests'), Pending' = requests' => Room'
    PROVE  ShapeInv' /\ Room'
<1>1. pc'[w] = "idle" /\ loc'[w].node = NoID
  BY FinishFacts DEF RoomInv, SequentialInv
<1>2. ShapeInv'
  BY <1>1 DEF OneAtATime, ShapeInv, JoinHasRequest, NodeOnlyMade, Checked
<1> QED BY <1>1, <1>2, AlonePending

(* A count that was at most another stays below the limit.                  *)
LEMMA StillBelow ==
    ASSUME NEW a \in Nat, NEW b \in Nat, NEW c \in Nat, NEW m \in Nat, b <= c, a + c < m
    PROVE  a + b < m
  OBVIOUS

(* The capacity checks of server new and client new: the last one that      *)
(* passes keeps a place.                                                    *)
LEMMA RoomChecks ==
    ASSUME OneAtATime, RoomInv, NEW w \in Workers, Checks(w)
    PROVE  ShapeInv' /\ Room'
<1> USE DEF RoomInv, SequentialInv
<1>1. /\ pc[w] \in {"serverRequests", "clients", "admit", "available"}
      /\ UNCHANGED <<nodes, gateway, requests, faults>>
  BY DEF Checks, CountServerJoinRequests, CountWireguardClients, CountAllRequests,
         CheckForcedSubnet
<1>2. loc[w].node = NoID /\ ~Admitted(w)
  BY <1>1 DEF ShapeInv, NodeOnlyMade, MakesNode, Admitted
<1>3. Pending = requests
  BY <1>2, AlonePending
<1>4. /\ Members' = Members /\ Servers' = Servers /\ GatewayRows' = GatewayRows
      /\ ServerRequests' = ServerRequests
  BY <1>1 DEF Members, Servers, GatewayRows, ServerRequests
<1>5. CASE Finish(w)
  <2>1. pc'[w] = "idle"
    BY <1>5, FinishFacts
  <2>2. Coming' = 0 /\ ComingServers' = 0
    BY <2>1, AloneComing DEF Admitted
  <2>3. Coming' \in 0 .. Coming /\ ComingServers' \in 0 .. ComingServers
    BY <2>2, NumbersAndSets
  <2>4. Pending' = requests' => Room'
    BY <1>1, <1>3, <1>4, <2>3, RoomKept
  <2> QED BY <1>1, <1>5, <2>4, RoomEnds DEF ShapeInv
<1>6. CASE ~Finish(w)
  <2>1. /\ Passes(w)
        /\ loc'[w].op = loc[w].op /\ loc'[w].role = loc[w].role /\ loc'[w].node = NoID
    BY <1>2, <1>6, CheckFacts
  <2>2. /\ UsedDockerSubnets' = UsedDockerSubnets
        /\ UsedWireguardClients' = UsedWireguardClients
        /\ UsedDockerSubnets \in Nat /\ UsedWireguardClients \in Nat /\ loc[w].used \in Nat
    BY <1>4, CountsTyped DEF UsedDockerSubnets, UsedWireguardClients, TypeInv, TypeOK, Local
  <2>3. /\ IsFiniteSet(Members) /\ IsFiniteSet(Servers)
        /\ IsFiniteSet(requests) /\ IsFiniteSet(ServerRequests)
        /\ GatewayRows \in Nat /\ LastIP \in Nat /\ PoolSize \in Nat
    BY NumbersAndSets DEF ShapeInv
  <2>4. Cardinality(requests) \in Nat /\ Cardinality(ServerRequests) \in Nat
    BY <2>3, FS_CardinalityType
  <2>5. pc[w] = "serverRequests" /\ pc'[w] = "clients" =>
            Cardinality(ServerRequests) + UsedDockerSubnets < PoolSize
    <3> SUFFICES ASSUME pc[w] = "serverRequests", pc'[w] = "clients"
                 PROVE  Cardinality(ServerRequests) + UsedDockerSubnets < PoolSize
      OBVIOUS
    <3>1. /\ UsedDockerSubnets <= loc[w].used
          /\ Cardinality(ServerRequests) + loc[w].used < PoolSize
      BY <2>1 DEF ShapeInv, Checked, Passes
    <3> QED BY <2>2, <2>3, <2>4, <3>1, StillBelow
  <2>6. pc[w] = "admit" => Cardinality(requests) + UsedWireguardClients < LastIP
    <3> SUFFICES ASSUME pc[w] = "admit"
                 PROVE  Cardinality(requests) + UsedWireguardClients < LastIP
      OBVIOUS
    <3>1. /\ UsedWireguardClients <= loc[w].used
          /\ Cardinality(requests) + loc[w].used < LastIP
      BY <2>1 DEF ShapeInv, Checked, Passes, ClientAdmitted
    <3> QED BY <2>2, <2>3, <2>4, <3>1, StillBelow
  <2>7. /\ pc[w] # "serverRequests" /\ loc[w].role = "server" =>
              Cardinality(ServerRequests) + UsedDockerSubnets < PoolSize
        /\ pc[w] = "available" => Cardinality(requests) + UsedWireguardClients < LastIP
    BY <1>1 DEF ShapeInv, Checked
  <2>8. /\ pc'[w] = "serverRequests" => FALSE
        /\ pc'[w] = "clients" => pc[w] = "serverRequests"
        /\ pc'[w] = "admit" => pc[w] = "clients" /\ loc'[w].used = UsedWireguardClients
        /\ pc'[w] = "available" => pc[w] = "admit"
        /\ pc'[w] \notin {"clients", "admit"} => pc[w] \in {"admit", "available"}
        /\ pc'[w] \notin {"clients", "admit", "available"} =>
              \/ pc'[w] = "create" /\ loc[w].op \in {"serverForce", "clientNew"}
              \/ pc'[w] \in {"read", "save"} /\ loc[w].op \in {"serverNew", "clientRequest"}
    <3>1. /\ pc[w] \in {"clients", "admit"} =>
                loc[w].op \in {"serverNew", "serverForce", "clientNew", "clientRequest"}
          /\ pc[w] = "available" => loc[w].op \in {"serverNew", "serverForce"}
      BY DEF TypeInv, LocalsSet
    <3> QED BY <2>1, <3>1 DEF Passes, AfterChecks
  <2>9. Checked'
    <3>1. /\ pc'[w] \in {"clients", "admit", "available"} /\ loc'[w].role = "server" =>
                Cardinality(ServerRequests) + UsedDockerSubnets < PoolSize
          /\ pc'[w] = "available" => Cardinality(requests) + UsedWireguardClients < LastIP
      BY <2>1, <2>5, <2>6, <2>7, <2>8
    <3>2. pc'[w] = "admit" => UsedWireguardClients <= loc'[w].used
      BY <2>2, <2>8
    <3> QED BY <1>1, <1>4, <2>2, <2>8, <3>1, <3>2 DEF OneAtATime, Checked
  <2>10. ShapeInv'
    <3>1. pc'[w] = "create" => loc'[w].op # "join"
      BY <2>1, <2>8
    <3> QED BY <1>1, <2>1, <2>9, <3>1 DEF OneAtATime, ShapeInv, JoinHasRequest, NodeOnlyMade
  <2>11. Pending' = requests
    BY <1>1, <2>1, AlonePending
  <2>12. PendingServers' = PendingServers /\ PendingServers = ServerRequests
    BY <1>3, <2>11 DEF PendingServers, ServerRequests
  <2>13. CASE pc'[w] \in {"clients", "admit", "available"}
    <3>1. ~Admitted(w)'
      BY <2>13 DEF Admitted
    <3>2. Coming' = 0 /\ ComingServers' = 0
      BY <3>1, AloneComing
    <3>3. Coming' \in 0 .. Coming /\ ComingServers' \in 0 .. ComingServers
      BY <3>2, NumbersAndSets
    <3>4. Room'
      BY <1>1, <1>3, <1>4, <2>11, <3>3, RoomKept
    <3> QED BY <2>10, <3>4
  <2>14. CASE pc'[w] \notin {"clients", "admit", "available"}
    <3>1. Admitted(w)'
      BY <2>1, <2>8, <2>14 DEF Admitted
    <3>2. Coming' = 1 /\ (loc[w].role = "server" => ComingServers' = 1)
                      /\ (loc[w].role # "server" => ComingServers' = 0 /\ ComingServers = 0)
      BY <2>1, <3>1, AloneComing
    <3>3. Cardinality(requests) + UsedWireguardClients < LastIP
      BY <2>6, <2>7, <2>8, <2>14
    <3>4. Fits(requests, 1, Members, GatewayRows, LastIP)
      <4>1. Cardinality(requests) + (Cardinality(Members) + GatewayRows) < LastIP
        BY <3>3 DEF UsedWireguardClients
      <4> QED BY <2>3, <4>1, FitsAdmit
    <3>5. CASE loc[w].role = "server"
      <4>1. Cardinality(ServerRequests) + (Cardinality(Servers) + GatewayRows) < PoolSize
        BY <2>7, <2>8, <2>14, <3>5 DEF UsedDockerSubnets
      <4>2. Fits(ServerRequests, 1, Servers, GatewayRows, PoolSize)
        BY <2>3, <4>1, FitsAdmit
      <4>3. Fits(ServerRequests, 1, Servers, 0, PoolSize)
        BY <2>3, <4>2, FitsWithoutGateway
      <4>4. Room'
        BY <1>4, <2>11, <2>12, <3>2, <3>4, <3>5, <4>3 DEF Room
      <4> QED BY <2>10, <4>4
    <3>6. CASE loc[w].role # "server"
      <4>1. Room'
        BY <1>1, <1>4, <2>11, <2>12, <3>2, <3>4, <3>6 DEF Room
      <4> QED BY <2>10, <4>1
    <3> QED BY <3>5, <3>6
  <2> QED BY <2>13, <2>14
<1> QED BY <1>5, <1>6

(* The gateway's row takes the first address of an empty network.           *)
LEMMA RoomCreateGateway ==
    ASSUME OneAtATime, RoomInv, NEW w \in Workers, NEW ip \in IP, CreateGateway(w, ip)
    PROVE  ShapeInv' /\ Room'
<1> USE DEF RoomInv, SequentialInv
<1>1. /\ pc[w] = "ensure" /\ UNCHANGED <<nodes, requests, loc, faults>>
      /\ Members = {} /\ requests = {}
  BY DEF CreateGateway, TableInv, GatewayFirst
<1>2. pc'[w] = "update"
  BY GotoFacts DEF CreateGateway
<1>3. loc[w].node = NoID /\ ~Admitted(w)'
  BY <1>1, <1>2 DEF ShapeInv, NodeOnlyMade, MakesNode, Admitted
<1>4. ShapeInv'
  BY <1>1, <1>2, <1>3 DEF OneAtATime, ShapeInv, JoinHasRequest, NodeOnlyMade, Checked
<1>5. Pending' = {} /\ PendingServers' = {}
  BY <1>1, <1>3, AlonePending DEF PendingServers
<1>6. Members' = {} /\ Servers' = {}
  BY <1>1 DEF Members, Servers
<1>7. Coming' = 0 /\ ComingServers' = 0
  BY <1>3, AloneComing
<1>8. GatewayRows' \in {0, 1}
  BY DEF GatewayRows
<1>9. LastIP \in Nat /\ 1 <= LastIP /\ PoolSize \in Nat
  BY RegistryAssumption DEF IP
<1>10. \A g \in {0, 1} : Fits({}, 0, {}, g, LastIP) /\ Fits({}, 0, {}, 0, PoolSize)
  BY <1>9, FS_EmptySet DEF Fits
<1>11. Room'
  BY <1>5, <1>6, <1>7, <1>8, <1>10 DEF Room
<1> QED BY <1>4, <1>11

(* The row of a node takes the place that was kept for it: by the request   *)
(* that the join serves, or by the handler that passed the checks.          *)
LEMMA RoomCreateNode ==
    ASSUME OneAtATime, RoomInv, NEW w \in Workers, NEW id \in UUID, NEW ip \in IP,
           NEW s \in Subnet \cup {NoSubnet}, CreateNode(w, id, ip, s)
    PROVE  ShapeInv' /\ Room'
<1> USE DEF RoomInv, SequentialInv
<1>1. pc[w] = "create" /\ UNCHANGED <<requests, faults>>
  BY DEF CreateNode
<1>2. /\ pc'[w] = "update" /\ loc'[w].node = id /\ id # NoID
      /\ loc'[w].op = loc[w].op /\ loc'[w].req = loc[w].req /\ loc'[w].role = loc[w].role
      /\ \A n \in UUID \ {id} : nodes'[n] = nodes[n]
      /\ nodes'[id].role = loc[w].role /\ loc[w].role # "none"
      /\ gateway'.ip = gateway.ip
  BY CreateNodeFacts, RegistryAssumption
<1>3. loc[w].op \in NodeOps /\ loc[w].node = NoID
  BY <1>1 DEF HandlerInv, OpFits, ShapeInv, NodeOnlyMade, MakesNode
<1>4. ShapeInv'
  BY <1>1, <1>2, <1>3
     DEF OneAtATime, ShapeInv, JoinHasRequest, NodeOnlyMade, Checked, MakesNode
<1>5. /\ Members' = Members \cup {id}
      /\ loc[w].role = "server" => Servers' = Servers \cup {id}
      /\ loc[w].role # "server" => Servers' \subseteq Servers
      /\ GatewayRows' = GatewayRows
  BY <1>2 DEF Members, Servers, GatewayRows
<1>6. Pending = requests
  BY <1>3, AlonePending
<1>7. Coming' = 0 /\ ComingServers' = 0
  BY <1>2, AloneComing DEF Admitted
<1>8. /\ IsFiniteSet(Members) /\ IsFiniteSet(Servers)
      /\ IsFiniteSet(Pending) /\ IsFiniteSet(PendingServers)
      /\ Coming \in Nat /\ ComingServers \in Nat /\ GatewayRows \in Nat
      /\ LastIP \in Nat /\ PoolSize \in Nat
  BY NumbersAndSets
<1>9. CASE loc[w].op = "join"
  <2>1. PICK r \in requests : r.id = loc[w].req /\ r.role = loc[w].role
    BY <1>1, <1>9 DEF ShapeInv, JoinHasRequest
  <2>2. Pending' = {q \in requests : q.id # loc[w].req}
    BY <1>1, <1>2, <1>9, AlonePending
  <2>3. r \in Pending /\ Pending' \subseteq Pending \ {r}
    BY <1>6, <2>1, <2>2
  <2>4. /\ PendingServers' \subseteq PendingServers
        /\ loc[w].role = "server" =>
              r \in PendingServers /\ PendingServers' \subseteq PendingServers \ {r}
    BY <2>1, <2>3 DEF PendingServers
  <2>5. Coming = 0 /\ ComingServers = 0
    BY <1>9, AloneComing DEF Admitted
  <2> SUFFICES ASSUME faults = 0
               PROVE  /\ Fits(Pending', 0, Members', GatewayRows, LastIP)
                      /\ Fits(PendingServers', 0, Servers', 0, PoolSize)
    BY <1>1, <1>4, <1>5, <1>7 DEF Room
  <2>6. /\ Fits(Pending, 0, Members, GatewayRows, LastIP)
        /\ Fits(PendingServers, 0, Servers, 0, PoolSize)
    BY <2>5 DEF Room
  <2>7. Fits(Pending', 0, Members', GatewayRows, LastIP)
    BY <1>5, <1>8, <2>3, <2>6, FitsJoin
  <2>8. CASE loc[w].role = "server"
    <3>1. /\ r \in PendingServers /\ PendingServers' \in SUBSET (PendingServers \ {r})
          /\ Servers' = Servers \cup {id} /\ 0 \in Nat
      BY <1>5, <2>4, <2>8
    <3>2. Fits(PendingServers', 0, Servers \cup {id}, 0, PoolSize)
      BY <1>8, <2>6, <3>1, FitsJoin
    <3> QED BY <2>7, <3>1, <3>2
  <2>9. CASE loc[w].role # "server"
    <3>1. 0 \in 0 .. 0 /\ 0 \in Nat
      OBVIOUS
    <3>2. Fits(PendingServers', 0, Servers', 0, PoolSize)
      BY <1>5, <1>8, <2>4, <2>6, <2>9, <3>1, FitsLess
    <3> QED BY <2>7, <3>2
  <2> QED BY <2>8, <2>9
<1>10. CASE loc[w].op # "join"
  <2>1. Admitted(w)
    BY <1>1, <1>3, <1>10 DEF Admitted, NodeOps
  <2>2. Pending' = Pending
    BY <1>1, <1>2, <1>6, <1>10, AlonePending
  <2>3. PendingServers' = PendingServers
    BY <2>2 DEF PendingServers
  <2>4. Coming = 1 /\ (loc[w].role = "server" => ComingServers = 1)
    BY <2>1, AloneComing
  <2> SUFFICES ASSUME faults = 0
               PROVE  /\ Fits(Pending, 0, Members', GatewayRows, LastIP)
                      /\ Fits(PendingServers, 0, Servers', 0, PoolSize)
    BY <1>1, <1>4, <1>5, <1>7, <2>2, <2>3 DEF Room
  <2>5. /\ Fits(Pending, 1, Members, GatewayRows, LastIP)
        /\ Fits(PendingServers, ComingServers, Servers, 0, PoolSize)
    BY <2>4 DEF Room
  <2>6. Fits(Pending, 0, Members', GatewayRows, LastIP)
    BY <1>5, <1>8, <2>5, FitsNode
  <2>7. CASE loc[w].role = "server"
    <3>1. Fits(PendingServers, 0, Servers', 0, PoolSize)
      BY <1>5, <1>8, <2>4, <2>5, <2>7, FitsNode
    <3> QED BY <2>6, <3>1
  <2>8. CASE loc[w].role # "server"
    <3>1. 0 \in 0 .. ComingServers /\ 0 \in Nat
      BY <1>8
    <3>2. Fits(PendingServers, 0, Servers', 0, PoolSize)
      BY <1>5, <1>8, <2>5, <2>8, <3>1, FitsLess
    <3> QED BY <2>6, <3>2
  <2> QED BY <2>7, <2>8
<1> QED BY <1>9, <1>10

(* A request takes the place that its handler kept for it.                  *)
LEMMA RoomCreateRequest ==
    ASSUME OneAtATime, RoomInv, NEW w \in Workers, CreateRequest(w)
    PROVE  ShapeInv' /\ Room'
<1> USE DEF RoomInv, SequentialInv
<1> DEFINE r == [id |-> loc[w].req, role |-> loc[w].role, subnet |-> loc[w].subnet]
<1>1. /\ pc[w] = "request" /\ Finish(w) /\ UNCHANGED <<nodes, gateway, faults>>
      /\ requests' = requests \cup {r}
  BY DEF CreateRequest
<1>2. loc[w].op \in {"serverNew", "clientRequest"} /\ Admitted(w)
  BY <1>1 DEF HandlerInv, OpFits, Admitted
<1>3. Pending = requests
  BY <1>2, AlonePending
<1>4. r.role = loc[w].role
  OBVIOUS
<1>5. IsFiniteSet(requests')
  BY <1>1, FS_AddElement DEF ShapeInv
<1>6. pc'[w] = "idle"
  BY <1>1, FinishFacts
<1>7. Coming' = 0 /\ ComingServers' = 0
  BY <1>6, AloneComing DEF Admitted
<1>8. Coming = 1 /\ (loc[w].role = "server" => ComingServers = 1)
  BY <1>2, AloneComing
<1>9. Members' = Members /\ Servers' = Servers /\ GatewayRows' = GatewayRows
  BY <1>1 DEF Members, Servers, GatewayRows
<1>10. /\ IsFiniteSet(Members) /\ IsFiniteSet(Servers)
       /\ IsFiniteSet(Pending) /\ IsFiniteSet(PendingServers)
       /\ ComingServers \in Nat /\ GatewayRows \in Nat
       /\ LastIP \in Nat /\ PoolSize \in Nat
  BY NumbersAndSets
<1>11. ASSUME Pending' = requests' PROVE Room'
  <2> HIDE DEF r
  <2>1. Pending' = Pending \cup {r}
    BY <1>1, <1>3, <1>11
  <2>2. /\ loc[w].role = "server" => PendingServers' = PendingServers \cup {r}
        /\ loc[w].role # "server" => PendingServers' = PendingServers
    BY <1>4, <2>1 DEF PendingServers
  <2> SUFFICES ASSUME faults = 0
               PROVE  /\ Fits(Pending', 0, Members, GatewayRows, LastIP)
                      /\ Fits(PendingServers', 0, Servers, 0, PoolSize)
    BY <1>1, <1>7, <1>9 DEF Room
  <2>3. /\ Fits(Pending, 1, Members, GatewayRows, LastIP)
        /\ Fits(PendingServers, ComingServers, Servers, 0, PoolSize)
    BY <1>8 DEF Room
  <2>4. Fits(Pending', 0, Members, GatewayRows, LastIP)
    BY <1>10, <2>1, <2>3, FitsRequest
  <2>5. CASE loc[w].role = "server"
    <3>1. /\ PendingServers' = PendingServers \cup {r} /\ 0 \in Nat
          /\ Fits(PendingServers, 1, Servers, 0, PoolSize)
      BY <1>8, <2>2, <2>3, <2>5
    <3>2. Fits(PendingServers \cup {r}, 0, Servers, 0, PoolSize)
      BY <1>10, <3>1, FitsRequest
    <3> QED BY <2>4, <3>1, <3>2
  <2>6. CASE loc[w].role # "server"
    <3>1. 0 \in 0 .. ComingServers /\ 0 \in Nat
      BY <1>10
    <3>2. Fits(PendingServers', 0, Servers, 0, PoolSize)
      BY <1>10, <2>2, <2>3, <2>6, <3>1, FitsLess
    <3> QED BY <2>4, <3>2
  <2> QED BY <2>5, <2>6
<1> QED BY <1>1, <1>5, <1>11, RoomEnds

(* The other steps of a handler add nothing.                                *)
LEMMA RoomQuiet ==
    ASSUME OneAtATime, RoomInv, NEW w \in Workers,
           \/ CreateRefused(w) \/ UpdateNodes(w) \/ ReadGateway(w) \/ SaveConfigs(w)
           \/ SaveJoined(w) \/ (\E id \in UUID : SaveRequester(w, id))
           \/ PrintClient(w) \/ DeleteRequest(w)
    PROVE  ShapeInv' /\ Room'
<1> USE DEF RoomInv, SequentialInv
<1>1. /\ requests' \subseteq requests /\ faults' = faults
      /\ Members' = Members /\ Servers' = Servers /\ GatewayRows' = GatewayRows
  <2>1. /\ requests' \subseteq requests /\ faults' = faults
    BY DEF CreateRefused, UpdateNodes, ReadGateway, SaveConfigs, SaveJoined, SaveRequester,
           PrintClient, DeleteRequest
  <2>2. CASE UNCHANGED <<nodes, gateway>>
    BY <2>1, <2>2 DEF Members, Servers, GatewayRows
  <2>3. CASE UpdateNodes(w)
    BY <2>1, <2>3, UpdateNodesFacts DEF Members, Servers, GatewayRows
  <2>4. CASE UNCHANGED nodes /\ gateway'.ip = gateway.ip
    BY <2>1, <2>4 DEF Members, Servers, GatewayRows
  <2>5. CASE SaveJoined(w)
    <3>1. loc[w].gw.ip = gateway.ip
      BY <2>5 DEF SaveJoined, RegistryInv, CopyAddress, HoldsCopy
    <3> QED BY <2>4, <2>5, <3>1, SaveJoinedFacts DEF SaveJoined
  <2>6. ASSUME NEW id \in UUID, SaveRequester(w, id)
        PROVE  UNCHANGED nodes /\ gateway'.ip = gateway.ip
    <3>1. loc[w].gw.ip = gateway.ip
      BY <2>6 DEF SaveRequester, RegistryInv, CopyAddress, HoldsCopy
    <3> QED BY <2>6, <3>1, SaveRequesterFacts DEF SaveRequester
  <2> QED BY <2>1, <2>2, <2>3, <2>4, <2>5, <2>6
          DEF CreateRefused, ReadGateway, SaveConfigs, PrintClient, DeleteRequest
<1>2. IsFiniteSet(requests')
  BY <1>1, FS_Subset DEF ShapeInv
<1>3. Coming \in Nat /\ ComingServers \in Nat
  BY NumbersAndSets
<1>4. CASE Finish(w)
  <2>1. pc'[w] = "idle"
    BY <1>4, FinishFacts
  <2>2. Coming' = 0 /\ ComingServers' = 0
    BY <2>1, AloneComing DEF Admitted
  <2>3. requests' \subseteq Pending
    <3>1. CASE DeleteRequest(w)
      <4>1. requests' = {r \in requests : r.id # loc[w].req}
        BY <3>1 DEF DeleteRequest
      <4>2. \/ Pending = requests
            \/ Pending = {r \in requests : r.id # loc[w].req}
        BY AlonePending
      <4> QED BY <4>1, <4>2
    <3>2. CASE loc[w].op # "join" \/ loc[w].node = NoID
      BY <1>1, <3>2, AlonePending
    <3>3. CASE CreateRefused(w)
      BY <3>2, <3>3 DEF CreateRefused, ShapeInv, NodeOnlyMade, MakesNode
    <3>4. CASE PrintClient(w)
      BY <3>2, <3>4 DEF PrintClient, HandlerInv, OpFits
    <3>5. CASE UpdateNodes(w)
      <4>1. loc[w].op = "serverForce" \/ pc'[w] = "read"
        BY <3>5, GotoFacts DEF UpdateNodes
      <4> QED BY <2>1, <3>2, <4>1
    <3>6. CASE SaveConfigs(w)
      <4>1. loc[w].op # "join" \/ pc'[w] = "save"
        BY <3>6, SaveConfigsFacts
      <4> QED BY <2>1, <3>2, <4>1
    <3>7. CASE ReadGateway(w) \/ SaveJoined(w) \/ \E id \in UUID : SaveRequester(w, id)
      <4>1. pc'[w] # "idle"
        BY <3>7, ReadGatewayFacts, SaveJoinedFacts, SaveRequesterFacts
      <4> QED BY <2>1, <4>1
    <3> QED BY <3>1, <3>3, <3>4, <3>5, <3>6, <3>7
  <2>4. Coming' \in 0 .. Coming /\ ComingServers' \in 0 .. ComingServers
    BY <1>3, <2>2
  <2>5. Pending' = requests' => Room'
    BY <1>1, <2>3, <2>4, RoomKept
  <2> QED BY <1>2, <1>4, <2>5, RoomEnds
<1>5. CASE /\ pc'[w] \in {"read", "configs", "save", "print", "delete", "request"}
           /\ loc'[w].op = loc[w].op /\ loc'[w].node = loc[w].node
           /\ loc'[w].role = loc[w].role
           /\ loc[w].op = "join" => loc'[w].req = loc[w].req
           /\ Admitted(w)' => Admitted(w)
           /\ loc[w].node # NoID => MakesNode(w)'
           /\ requests' = requests
  <2>1. ShapeInv'
    BY <1>2, <1>5 DEF OneAtATime, ShapeInv, JoinHasRequest, NodeOnlyMade, Checked
  <2>2. Pending' = Pending
    BY <1>5, AlonePending
  <2>3. Coming' \in {0, Coming} /\ ComingServers' \in {0, ComingServers}
    BY <1>5, AloneComing
  <2>4. Coming' \in 0 .. Coming /\ ComingServers' \in 0 .. ComingServers
    BY <1>3, <2>3
  <2> QED BY <1>1, <2>1, <2>2, <2>4, RoomKept
<1>6. loc[w].node # NoID => loc[w].op \in NodeOps
  BY DEF ShapeInv, NodeOnlyMade, MakesNode
<1>7. CASE UpdateNodes(w)
  <2>1. CASE loc[w].op # "serverForce" /\ Goto(w, "read") /\ UNCHANGED loc
    <3>1. pc'[w] = "read" /\ requests' = requests /\ pc[w] = "update"
      BY <1>7, <2>1, GotoFacts DEF UpdateNodes
    <3>2. loc[w].op \notin {"serverNew", "clientRequest"}
      BY <3>1 DEF HandlerInv, OpFits, NodeOps
    <3> QED BY <1>5, <1>6, <2>1, <3>1, <3>2 DEF Admitted, MakesNode
  <2> QED BY <1>4, <1>7, <2>1 DEF UpdateNodes
<1>8. CASE ReadGateway(w)
  <2>1. requests' = requests /\ pc[w] = "read"
    BY <1>8 DEF ReadGateway
  <2> QED BY <1>5, <1>6, <1>8, <2>1, ReadGatewayFacts DEF Admitted, MakesNode
<1>9. CASE SaveConfigs(w)
  <2>1. requests' = requests /\ pc[w] = "configs"
    BY <1>9 DEF SaveConfigs
  <2> QED BY <1>4, <1>5, <1>6, <1>9, <2>1, SaveConfigsFacts DEF Admitted, MakesNode
<1>10. CASE SaveJoined(w)
  <2>1. requests' = requests /\ pc[w] = "save" /\ loc[w].op = "join"
    BY <1>10 DEF SaveJoined
  <2> QED BY <1>5, <1>6, <1>10, <2>1, SaveJoinedFacts DEF Admitted, MakesNode
<1>11. ASSUME NEW id \in UUID, SaveRequester(w, id) PROVE ShapeInv' /\ Room'
  <2>1. requests' = requests /\ pc[w] = "save" /\ loc[w].op # "join"
    BY <1>11 DEF SaveRequester
  <2>2. loc[w].op \in {"serverNew", "clientRequest"} /\ loc[w].node = NoID
    BY <1>6, <2>1 DEF HandlerInv, OpFits, NodeOps
  <2> QED BY <1>5, <1>11, <2>1, <2>2, SaveRequesterFacts DEF Admitted
<1> QED BY <1>4, <1>7, <1>8, <1>9, <1>10, <1>11 DEF CreateRefused, PrintClient, DeleteRequest

(* Counts of fewer rows are no larger.                                      *)
LEMMA CountsOrdered ==
    ASSUME NEW a \in Nat, NEW b \in Nat, NEW g \in Nat, a <= b
    PROVE  a + g <= b + g /\ a + g \in Nat /\ b + g \in Nat
  OBVIOUS

(* A server that leaves makes room.                                         *)
LEMMA RoomServerRemove ==
    ASSUME RoomInv, NEW n \in UUID, ServerRemove(n)
    PROVE  ShapeInv' /\ Room'
<1>1. UNCHANGED <<gateway, requests, pc, loc, faults>>
  BY DEF ServerRemove
<1>2. Members' \subseteq Members /\ Servers' \subseteq Servers
  BY DEF ServerRemove, RoomInv, SequentialInv, TypeInv, TypeOK, NoRow, Members, Servers
<1>3. Pending' = Pending /\ GatewayRows' = GatewayRows
  BY <1>1 DEF Pending, InService, GatewayRows
<1>4. Coming' = Coming /\ ComingServers' = ComingServers
  BY <1>1 DEF Coming, ComingServers, Admitted
<1>5. Coming' \in 0 .. Coming /\ ComingServers' \in 0 .. ComingServers
  BY <1>4, NumbersAndSets DEF RoomInv, SequentialInv
<1>6. Checked'
  <2>1. /\ IsFiniteSet(Members) /\ IsFiniteSet(Servers) /\ GatewayRows \in Nat
        /\ IsFiniteSet(requests) /\ IsFiniteSet(ServerRequests)
        /\ LastIP \in Nat /\ PoolSize \in Nat
    BY NumbersAndSets DEF RoomInv, SequentialInv, ShapeInv
  <2>2. /\ Cardinality(Members') <= Cardinality(Members)
        /\ Cardinality(Servers') <= Cardinality(Servers)
        /\ IsFiniteSet(Members') /\ IsFiniteSet(Servers')
    BY <1>2, <2>1, FS_Subset
  <2>3. /\ Cardinality(Members) \in Nat /\ Cardinality(Members') \in Nat
        /\ Cardinality(Servers) \in Nat /\ Cardinality(Servers') \in Nat
        /\ Cardinality(requests) \in Nat /\ Cardinality(ServerRequests) \in Nat
    BY <2>1, <2>2, FS_CardinalityType
  <2>4. /\ UsedDockerSubnets' <= UsedDockerSubnets /\ UsedDockerSubnets' \in Nat
        /\ UsedWireguardClients' <= UsedWireguardClients /\ UsedWireguardClients' \in Nat
        /\ UsedDockerSubnets \in Nat /\ UsedWireguardClients \in Nat
    BY <1>3, <2>1, <2>2, <2>3, CountsOrdered DEF UsedDockerSubnets, UsedWireguardClients
  <2>5. ServerRequests' = ServerRequests
    BY <1>1 DEF ServerRequests
  <2>6. ASSUME NEW w \in Workers PROVE loc[w].used \in Nat
    BY DEF RoomInv, SequentialInv, TypeInv, TypeOK, Local
  <2> SUFFICES ASSUME NEW w \in Workers
               PROVE  /\ pc[w] = "serverRequests" => UsedDockerSubnets' <= loc[w].used
                      /\ pc[w] \in {"clients", "admit", "available"} /\ loc[w].role = "server" =>
                            Cardinality(ServerRequests) + UsedDockerSubnets' < PoolSize
                      /\ pc[w] = "admit" => UsedWireguardClients' <= loc[w].used
                      /\ pc[w] = "available" =>
                            Cardinality(requests) + UsedWireguardClients' < LastIP
    BY <1>1, <2>5 DEF Checked
  <2>7. /\ pc[w] = "serverRequests" => UsedDockerSubnets <= loc[w].used
        /\ pc[w] \in {"clients", "admit", "available"} /\ loc[w].role = "server" =>
              Cardinality(ServerRequests) + UsedDockerSubnets < PoolSize
        /\ pc[w] = "admit" => UsedWireguardClients <= loc[w].used
        /\ pc[w] = "available" => Cardinality(requests) + UsedWireguardClients < LastIP
    BY DEF RoomInv, ShapeInv, Checked
  <2>8. \A a, b, c \in Nat : a <= b /\ b <= c => a <= c
    OBVIOUS
  <2> QED BY <2>1, <2>3, <2>4, <2>6, <2>7, <2>8, StillBelow
<1>7. ShapeInv'
  BY <1>1, <1>6 DEF RoomInv, ShapeInv, JoinHasRequest, NodeOnlyMade, MakesNode
<1> QED BY <1>1, <1>2, <1>3, <1>5, <1>7, RoomKept

(* After a fault nothing is claimed.                                        *)
LEMMA RoomFaults ==
    ASSUME OneAtATime, RoomInv, Crash \/ \E w \in Workers : Abort(w)
    PROVE  ShapeInv' /\ Room'
<1> USE DEF RoomInv, SequentialInv
<1>1. faults' = faults + 1 /\ requests' = requests /\ faults \in Nat
  BY DEF Crash, Abort, TypeInv, TypeOK
<1>2. Room'
  BY <1>1 DEF Room
<1>3. CASE Crash
  <2>1. \A w \in Workers : pc'[w] = "idle" /\ loc'[w].node = NoID
    BY <1>3 DEF Crash, NoLocal
  <2> QED BY <1>1, <1>2, <2>1 DEF ShapeInv, JoinHasRequest, NodeOnlyMade, Checked
<1>4. ASSUME NEW w \in Workers, Abort(w) PROVE ShapeInv'
  BY <1>1, <1>2, <1>4, RoomEnds DEF Abort, ShapeInv
<1> QED BY <1>2, <1>3, <1>4

(* Every step keeps the room.                                               *)
LEMMA RoomStep ==
    ASSUME OneAtATime, RoomInv, [Next]_vars
    PROVE  RoomInv'
<1>1. SequentialInv'
  BY SequentialStep DEF RoomInv
<1>2. CASE UNCHANGED vars
  <2>1. ShapeInv'
    BY <1>2 DEF vars, RoomInv, ShapeInv, JoinHasRequest, NodeOnlyMade, MakesNode, Checked,
                UsedDockerSubnets, UsedWireguardClients, ServerRequests, Servers, Members,
                GatewayRows
  <2>2. Room'
    BY <1>2 DEF vars, RoomInv, Room, Pending, PendingServers, InService, Coming, ComingServers,
                Admitted, Members, Servers, GatewayRows
  <2> QED BY <1>1, <2>1, <2>2 DEF RoomInv
<1>3. ShapeInv' /\ Room' => RoomInv'
  BY <1>1 DEF RoomInv
<1>4. ASSUME NEW w \in Workers, WorkerStep(w) PROVE RoomInv'
  BY <1>3, <1>4, RoomStarts, RoomChecks, RoomCreateGateway, RoomCreateNode,
     RoomCreateRequest, RoomQuiet, RoomFaults DEF WorkerStep, Checks
<1> QED BY <1>2, <1>3, <1>4, RoomServerRemove, RoomFaults DEF Next

(* An empty network has room.                                               *)
LEMMA RoomInit ==
    ASSUME Init PROVE RoomInv
<1>1. SequentialInv
  BY SequentialInit
<1>2. \A w \in Workers : pc[w] = "idle" /\ loc[w].node = NoID
  BY DEF Init, NoLocal
<1>3. ShapeInv
  BY <1>2, FS_EmptySet
     DEF Init, ShapeInv, JoinHasRequest, NodeOnlyMade, Checked
<1>4. /\ Pending = {} /\ PendingServers = {} /\ Members = {} /\ Servers = {}
      /\ GatewayRows = 0
  BY DEF Init, Pending, PendingServers, Members, Servers, GatewayRows, NoRow, NoGateway
<1>5. Coming = 0 /\ ComingServers = 0
  BY <1>2 DEF Coming, ComingServers, Admitted
<1>6. Fits({}, 0, {}, 0, LastIP) /\ Fits({}, 0, {}, 0, PoolSize)
  BY FS_EmptySet, RegistryAssumption DEF Fits
<1>7. Room
  BY <1>4, <1>5, <1>6 DEF Room
<1> QED BY <1>1, <1>3, <1>7 DEF RoomInv

(* The invariant of the capacity checks.                                    *)
THEOREM RoomInvHolds ==
    ASSUME OneAtATime
    PROVE  Spec => []RoomInv
<1>1. RoomInv /\ [Next]_vars => RoomInv'
  BY RoomStep
<1>2. Init => RoomInv
  BY RoomInit
<1> QED BY <1>1, <1>2, PTL DEF Spec

(* The room that is counted is there: every row uses at most one address    *)
(* and one subnet.                                                          *)
LEMMA RoomMeansFree ==
    ASSUME RoomInv PROVE PendingJoinsFit
<1> SUFFICES ASSUME faults = 0
             PROVE  /\ Cardinality(Pending) <= Cardinality(FreeIPs)
                    /\ Cardinality(PendingServers) <= Cardinality(Pool \ UsedSubnets)
  BY DEF PendingJoinsFit, PendingServers
<1>1. /\ Fits(Pending, Coming, Members, GatewayRows, LastIP)
      /\ Fits(PendingServers, ComingServers, Servers, 0, PoolSize)
  BY DEF RoomInv, Room
<1>2. /\ IsFiniteSet(Members) /\ IsFiniteSet(Servers)
      /\ IsFiniteSet(Pending) /\ IsFiniteSet(PendingServers)
      /\ Coming \in Nat /\ ComingServers \in Nat /\ GatewayRows \in Nat
      /\ LastIP \in Nat /\ PoolSize \in Nat
  BY NumbersAndSets DEF RoomInv, SequentialInv
<1>3. /\ Cardinality(Members) \in Nat /\ Cardinality(Servers) \in Nat
      /\ Cardinality(Pending) \in Nat /\ Cardinality(PendingServers) \in Nat
  BY <1>2, FS_CardinalityType
<1>4. Cardinality(Pending) <= Cardinality(FreeIPs)
  <2> DEFINE f == [n \in Members |-> nodes[n].ip]
             used == {f[n] : n \in Members}
  <2>1. IsFiniteSet(used) /\ Cardinality(used) <= Cardinality(Members)
    BY <1>2, ImageCount
  <2>2. used = {nodes[n].ip : n \in Members}
    OBVIOUS
  <2>3. CASE gateway.ip = NoIP
    <3>1. FreeIPs = (1 .. LastIP) \ used
      BY <2>2, <2>3 DEF FreeIPs, UsedIPs, IP, NoIP
    <3> HIDE DEF used
    <3>2. /\ Cardinality(FreeIPs) \in Nat /\ Cardinality(used) \in Nat
          /\ LastIP <= Cardinality(FreeIPs) + Cardinality(used)
      BY <1>2, <2>1, <3>1, LeftOver
    <3> QED BY <1>1, <1>2, <1>3, <2>1, <3>2 DEF Fits
  <2>4. CASE gateway.ip # NoIP
    <3>1. FreeIPs = (1 .. LastIP) \ (used \cup {gateway.ip})
      BY <2>2 DEF FreeIPs, UsedIPs, IP
    <3>2. GatewayRows = 1
      BY <2>4 DEF GatewayRows
    <3> HIDE DEF used
    <3>3. /\ IsFiniteSet(used \cup {gateway.ip})
          /\ Cardinality(used \cup {gateway.ip}) \in {Cardinality(used), Cardinality(used) + 1}
      BY <2>1, FS_AddElement
    <3>4. /\ Cardinality(FreeIPs) \in Nat /\ Cardinality(used) \in Nat
          /\ Cardinality(used \cup {gateway.ip}) \in Nat
          /\ LastIP <= Cardinality(FreeIPs) + Cardinality(used \cup {gateway.ip})
      BY <1>2, <2>1, <3>1, <3>3, LeftOver, FS_CardinalityType
    <3> QED BY <1>1, <1>2, <1>3, <2>1, <3>2, <3>3, <3>4 DEF Fits
  <2> QED BY <2>3, <2>4
<1>5. Cardinality(PendingServers) <= Cardinality(Pool \ UsedSubnets)
  <2> DEFINE f == [n \in Servers |-> nodes[n].subnet]
  <2>1. UsedSubnets = {f[n] : n \in Servers}
    BY DEF UsedSubnets
  <2>2. IsFiniteSet(UsedSubnets) /\ Cardinality(UsedSubnets) <= Cardinality(Servers)
    BY <1>2, <2>1, ImageCount
  <2>3. /\ Cardinality(Pool \ UsedSubnets) \in Nat /\ Cardinality(UsedSubnets) \in Nat
        /\ PoolSize <= Cardinality(Pool \ UsedSubnets) + Cardinality(UsedSubnets)
    BY <1>2, <2>2, LeftOver DEF Pool
  <2> QED BY <1>1, <1>2, <1>3, <2>2, <2>3 DEF Fits
<1> QED BY <1>4, <1>5

(* The capacity checks of server new and client new keep an address for     *)
(* every join request that they let in and a pool subnet for every server   *)
(* one, whatever subnets are forced and however often servers leave.        *)
THEOREM JoinsFit ==
    ASSUME OneAtATime
    PROVE  Spec => []PendingJoinsFit
<1>1. RoomInv => PendingJoinsFit
  BY RoomMeansFree
<1> QED BY <1>1, RoomInvHolds, PTL
=============================================================================
