-------------------------- MODULE ReconcileProofs ---------------------------
(***************************************************************************)
(* Label reconciliation, for any servers, containers, labels, clients and  *)
(* faults: what the agents do, and the requests that they give up on, keep *)
(* the invariant of Services, and an agent touches a publication of        *)
(* someone else only at an address that a label of its server names or     *)
(* once named.                                                             *)
(***************************************************************************)
EXTENDS Reconcile, ServicesProofs

(* What the agents and the clients ask for are requests of Services.        *)
LEMMA RequestTypes ==
    /\ Publications \subseteq Requests /\ Unpublications \subseteq Requests
    /\ ClientCommands \subseteq Publications \cup Unpublications
    /\ \A k \in Keys, a \in Agents :
          [op |-> "unpublish", key |-> k, local |-> None, by |-> a, param |-> None]
             \in Unpublications
    /\ \A r \in Row, a \in Agents :
          [op |-> "publish", key |-> r.key, local |-> r.local, by |-> a, param |-> None]
             \in Publications
<1>1. Publications \subseteq Requests /\ Unpublications \subseteq Requests
  BY DEF Requests
<1>2. ClientCommands \subseteq Publications \cup Unpublications
  BY DEF ClientCommands
<1>3. \A k \in Keys, a \in Agents :
          [op |-> "unpublish", key |-> k, local |-> None, by |-> a, param |-> None]
             \in Unpublications
  BY ReconcileAssumption DEF Unpublications
<1>4. ASSUME NEW r \in Row, NEW a \in Agents
      PROVE  [op |-> "publish", key |-> r.key, local |-> r.local, by |-> a, param |-> None]
                 \in Publications
  <2>1. r.key \in Keys /\ r.local \in Locals /\ a \in Nodes
    BY ReconcileAssumption DEF Row
  <2> QED BY <2>1 DEF Publications
<1> QED BY <1>1, <1>2, <1>3, <1>4

(* A request of an agent is a command of Services with the agent as worker. *)
LEMMA SendStep ==
    ASSUME NEW a \in Agents, NEW c \in Requests, Send(a, c)
    PROVE  [RequestNext]_vars
<1>1. a \in Workers
  BY ReconcileAssumption
<1> QED BY <1>1 DEF Send, RequestNext

(* The lists of an agent.                                                   *)
LEMMA AgentParts ==
    ASSUME ReconcileTypeOK, NEW a \in Agents
    PROVE  /\ agent[a].publishedHere \subseteq Row
           /\ agent[a].toUnpublish \subseteq Keys
           /\ agent[a].toPublish \subseteq Row
  BY DEF ReconcileTypeOK, Agent

(* A request that the agent has given up on goes on as it was, elsewhere.   *)
LEMMA GiveUpFacts ==
    ASSUME Inv, NEW a \in Agents, GiveUp(a)
    PROVE  /\ TypeOK'
           /\ \E w \in Workers \ Agents :
                 /\ a \in Workers /\ pc[w] = "idle"
                 /\ pc'[w] = pc[a] /\ loc'[w] = loc[a]
                 /\ pc'[a] = "idle" /\ ~loc'[a].alone
                 /\ \A v \in Workers \ {a, w} : pc'[v] = pc[v] /\ loc'[v] = loc[v]
<1>1. a \in Workers
  BY ReconcileAssumption
<1>2. PICK w \in Workers \ Agents :
          /\ pc[w] = "idle"
          /\ pc' = [pc EXCEPT ![w] = pc[a], ![a] = "idle"]
          /\ loc' = [loc EXCEPT ![w] = loc[a], ![a] = NoLocal]
  BY DEF GiveUp
<1>3. pc \in [Workers -> Label] /\ loc \in [Workers -> Local] /\ "idle" \in Label
  BY DEF Inv, TypeInv, TypeOK, Label
<1>4. pc' \in [Workers -> Label] /\ loc' \in [Workers -> Local]
  BY <1>1, <1>2, <1>3, NoLocalType
<1>5. TypeOK'
  BY <1>4 DEF GiveUp, Inv, TypeInv, TypeOK
<1>6. /\ pc'[w] = pc[a] /\ loc'[w] = loc[a]
      /\ pc'[a] = "idle" /\ loc'[a] = NoLocal
      /\ \A v \in Workers \ {a, w} : pc'[v] = pc[v] /\ loc'[v] = loc[v]
  BY <1>1, <1>2, <1>3
<1>7. ~NoLocal.alone
  BY DEF NoLocal
<1> QED BY <1>1, <1>2, <1>5, <1>6, <1>7

(* The invariant of Services does not depend on which worker it is that     *)
(* runs a command.                                                          *)
LEMMA GiveUpInv ==
    ASSUME Inv, NEW a \in Agents, GiveUp(a)
    PROVE  Inv'
<1>1. PICK w \in Workers \ Agents :
          /\ a \in Workers /\ pc[w] = "idle"
          /\ pc'[w] = pc[a] /\ loc'[w] = loc[a]
          /\ pc'[a] = "idle" /\ ~loc'[a].alone
          /\ \A v \in Workers \ {a, w} : pc'[v] = pc[v] /\ loc'[v] = loc[v]
  BY GiveUpFacts
<1>2. pc[a] # "idle"
  BY DEF GiveUp
<1>3. UNCHANGED <<table, caddyfile, running, control, listed, settled>>
  BY DEF GiveUp
<1>4. CommandFits'
  BY <1>1 DEF Inv, TypeInv, CommandFits
<1>5. AloneIsFresh'
  <2> SUFFICES ASSUME NEW v \in Workers, loc'[v].alone
               PROVE  /\ \A u \in Workers \ {v} : pc'[u] = "idle"
                      /\ control' \in {"configured", "up"}
                      /\ pc'[v] = "configs" => loc'[v].list = table'
                      /\ pc'[v] = "restart" /\ Renderable(table)' => caddyfile' = Rendered(table)'
    BY DEF AloneIsFresh
  <2>1. CASE v = w
    <3>1. loc[a].alone
      BY <1>1, <2>1
    <3>2. \A u \in Workers \ {a} : pc[u] = "idle"
      BY <1>1, <3>1 DEF Inv, AloneIsFresh
    <3>3. \A u \in Workers \ {w} : pc'[u] = "idle"
      BY <1>1, <3>2
    <3>4. /\ control \in {"configured", "up"}
          /\ pc[a] = "configs" => loc[a].list = table
          /\ pc[a] = "restart" /\ Renderable(table) => caddyfile = Rendered(table)
      BY <1>1, <3>1 DEF Inv, AloneIsFresh
    <3>5. Renderable(table)' = Renderable(table) /\ Rendered(table)' = Rendered(table)
      BY <1>3 DEF Renderable, Rendered, Published, Catalogue!Published
    <3> QED BY <1>1, <1>3, <2>1, <3>3, <3>4, <3>5
  <2>2. CASE v = a
    BY <1>1, <2>2
  <2>3. CASE v \notin {a, w}
    <3>1. loc[v].alone
      BY <1>1, <2>3
    <3>2. pc[a] = "idle"
      BY <1>1, <2>3, <3>1 DEF Inv, AloneIsFresh
    <3> QED BY <1>2, <3>2
  <2> QED BY <2>1, <2>2, <2>3
<1>6. SettledIsFresh'
  <2>1. Renderable(table)' = Renderable(table) /\ Rendered(table)' = Rendered(table)
    BY <1>3 DEF Renderable, Rendered, Published, Catalogue!Published
  <2>2. settled => \A v \in Workers : pc'[v] = "configs" => loc'[v].list = table
    BY <1>1 DEF Inv, SettledIsFresh
  <2> QED BY <1>3, <2>1, <2>2 DEF Inv, SettledIsFresh
<1> QED BY <1>4, <1>5, <1>6, GiveUpFacts DEF Inv, TypeInv

(* Every other step is a step of Services or leaves its variables alone.    *)
LEMMA StepOfServices ==
    ASSUME ReconcileTypeOK, [ReconcileNext]_allVars, \A a \in Agents : ~GiveUp(a)
    PROVE  [RequestNext]_vars
<1>1. CASE UNCHANGED allVars
  BY <1>1 DEF allVars, vars
<1>2. ASSUME NEW a \in Agents, AgentStep(a) PROVE [RequestNext]_vars
  <2>1. CASE ServiceList(a) \/ ListAllContainerLabels(a) \/ Sleep(a)
    BY <2>1 DEF ServiceList, ListAllContainerLabels, Sleep
  <2>2. CASE Unpublish(a)
    <3>1. PICK k \in agent[a].toUnpublish :
            Send(a, [op |-> "unpublish", key |-> k, local |-> None, by |-> a,
                     param |-> None])
      BY <2>2 DEF Unpublish
    <3>2. [op |-> "unpublish", key |-> k, local |-> None, by |-> a, param |-> None]
             \in Requests
      BY RequestTypes, AgentParts
    <3> QED BY <3>1, <3>2, SendStep
  <2>3. CASE Publish(a)
    <3>1. PICK r \in agent[a].toPublish :
            Send(a, [op |-> "publish", key |-> r.key, local |-> r.local, by |-> a,
                     param |-> None])
      BY <2>3 DEF Publish
    <3>2. [op |-> "publish", key |-> r.key, local |-> r.local, by |-> a, param |-> None]
             \in Requests
      BY RequestTypes, AgentParts
    <3> QED BY <3>1, <3>2, SendStep
  <2> QED BY <1>2, <2>1, <2>2, <2>3 DEF AgentStep
<1>3. ASSUME NEW a \in Agents, NEW c \in Containers, SetLabels(a, c) PROVE [RequestNext]_vars
  BY <1>3 DEF SetLabels
<1>4. ASSUME NEW w \in Workers \ Agents, Client(w) PROVE [RequestNext]_vars
  BY <1>4, RequestTypes DEF Client, RequestNext
<1>5. CASE Gateway
  BY <1>5 DEF Gateway, RequestNext
<1> QED BY <1>1, <1>2, <1>3, <1>4, <1>5 DEF ReconcileNext

-----------------------------------------------------------------------------
(* Types *)

(* The record of an agent that waits for its next round is typed.           *)
LEMMA AsleepType == Asleep \in Agent
  BY DEF Asleep, Agent

(* The two lists that an agent computes are typed.                          *)
LEMMA ListTypes ==
    ASSUME ReconcileTypeOK, NEW a \in Agents
    PROVE  /\ filterServicesPublishedByNode(table, a) \subseteq Row
           /\ servicesToUnpublish(a) \subseteq Keys
           /\ servicesToPublish(a) \subseteq Row
<1>1. filterServicesPublishedByNode(table, a) \subseteq Row
  <2>1. \A k \in Published(table) : k \in Keys /\ table[k].local \in Locals
    BY PublishedType DEF ReconcileTypeOK, TypeOK, Publication, Catalogue!Publication
  <2> QED BY <2>1 DEF filterServicesPublishedByNode, Row
<1>2. servicesToUnpublish(a) \subseteq Keys
  BY AgentParts DEF servicesToUnpublish, Row
<1>3. servicesToPublish(a) \subseteq Row
  <2>1. \A c \in Labelled(a) : labels[a][c] \in Choices
    BY DEF Labelled, ReconcileTypeOK
  <2> QED BY <2>1, ReconcileAssumption DEF servicesToPublish, Row
<1> QED BY <1>1, <1>2, <1>3

(* Every step of an agent keeps its record typed.                           *)
LEMMA AgentTypes ==
    ASSUME ReconcileTypeOK, [ReconcileNext]_allVars
    PROVE  /\ agent' \in [Agents -> Agent]
           /\ labels' \in [Agents -> [Containers -> Choices \cup {None}]]
           /\ named' \in [Agents -> SUBSET Keys]
<1>1. CASE UNCHANGED <<labels, agent, named>>
  BY <1>1 DEF ReconcileTypeOK
<1>2. ASSUME NEW a \in Agents, NEW c \in Containers, SetLabels(a, c)
      PROVE  /\ agent' \in [Agents -> Agent]
             /\ labels' \in [Agents -> [Containers -> Choices \cup {None}]]
             /\ named' \in [Agents -> SUBSET Keys]
  <2>1. PICK l \in {choice \in Choices : choice.container = c} \cup {None} :
            /\ labels' = [labels EXCEPT ![a][c] = l]
            /\ named' = [named EXCEPT ![a] = @ \cup {m.public : m \in {n \in {l} \ {None} : Valid(n)}}]
    BY <1>2 DEF SetLabels
  <2>2. {m.public : m \in {n \in {l} \ {None} : Valid(n)}} \subseteq Keys
    BY ReconcileAssumption
  <2>3. named' \in [Agents -> SUBSET Keys]
    BY <2>1, <2>2 DEF ReconcileTypeOK
  <2> QED BY <1>2, <2>1, <2>3 DEF SetLabels, ReconcileTypeOK
<1>3. ASSUME NEW a \in Agents, AgentStep(a)
      PROVE  /\ agent' \in [Agents -> Agent]
             /\ labels' \in [Agents -> [Containers -> Choices \cup {None}]]
             /\ named' \in [Agents -> SUBSET Keys]
  <2>1. UNCHANGED <<labels, named>>
    BY <1>3 DEF AgentStep, ServiceList, ListAllContainerLabels, Unpublish, Publish, Sleep
  <2>2. CASE ServiceList(a)
    <3>1. [Asleep EXCEPT !.at = "labels",
                         !.publishedHere = filterServicesPublishedByNode(table, a)] \in Agent
      BY ListTypes DEF Asleep, Agent
    <3> QED BY <2>1, <2>2, <3>1 DEF ServiceList, ReconcileTypeOK
  <2>3. CASE ListAllContainerLabels(a)
    <3>1. [Asleep EXCEPT !.at = "apply", !.toUnpublish = servicesToUnpublish(a),
                         !.toPublish = servicesToPublish(a)] \in Agent
      BY ListTypes DEF Asleep, Agent
    <3> QED BY <2>1, <2>3, <3>1 DEF ListAllContainerLabels, ReconcileTypeOK
  <2>4. CASE Unpublish(a)
    <3>1. PICK k : agent' = [agent EXCEPT ![a].toUnpublish = @ \ {k}]
      BY <2>4 DEF Unpublish
    <3> QED BY <2>1, <3>1 DEF ReconcileTypeOK, Agent
  <2>5. CASE Publish(a)
    <3>1. PICK r : agent' = [agent EXCEPT ![a].toPublish = @ \ {r}]
      BY <2>5 DEF Publish
    <3> QED BY <2>1, <3>1 DEF ReconcileTypeOK, Agent
  <2>6. CASE Sleep(a)
    BY <2>1, <2>6, AsleepType DEF Sleep, ReconcileTypeOK
  <2> QED BY <1>3, <2>2, <2>3, <2>4, <2>5, <2>6 DEF AgentStep
<1>4. ASSUME NEW w \in Workers \ Agents, Client(w) PROVE UNCHANGED <<labels, agent, named>>
  BY <1>4 DEF Client
<1>5. Gateway => UNCHANGED <<labels, agent, named>>
  BY DEF Gateway
<1>6. ASSUME NEW a \in Agents, GiveUp(a) PROVE UNCHANGED <<labels, agent, named>>
  BY <1>6 DEF GiveUp
<1> QED BY <1>1, <1>2, <1>3, <1>4, <1>5, <1>6 DEF ReconcileNext, allVars

(* The invariant of Services, with the agents' own variables.               *)
ReconcileInv == Inv /\ ReconcileTypeOK

(* The invariant of Services holds beside the agents.                       *)
THEOREM ReconcileInvHolds == ReconcileSpec => []ReconcileInv
<1>1. ReconcileInit => ReconcileInv
  <2> SUFFICES ASSUME ReconcileInit PROVE ReconcileInv
    OBVIOUS
  <2>1. Inv
    BY InitInv DEF ReconcileInit
  <2>2. /\ agent \in [Agents -> Agent] /\ labels \in [Agents -> [Containers -> Choices \cup {None}]]
        /\ named \in [Agents -> SUBSET Keys]
    BY AsleepType DEF ReconcileInit
  <2> QED BY <2>1, <2>2 DEF ReconcileInv, ReconcileTypeOK, Inv, TypeInv
<1>2. ReconcileInv /\ [ReconcileNext]_allVars => ReconcileInv'
  <2> SUFFICES ASSUME ReconcileInv, [ReconcileNext]_allVars PROVE ReconcileInv'
    OBVIOUS
  <2>1. Inv'
    BY StepOfServices, RequestNextInv, GiveUpInv DEF ReconcileInv
  <2>2. /\ agent' \in [Agents -> Agent]
        /\ labels' \in [Agents -> [Containers -> Choices \cup {None}]]
        /\ named' \in [Agents -> SUBSET Keys]
    BY AgentTypes DEF ReconcileInv
  <2> QED BY <2>1, <2>2 DEF ReconcileInv, ReconcileTypeOK, Inv, TypeInv
<1> QED BY <1>1, <1>2, PTL DEF ReconcileSpec

(* The variables of the agents, and those of the gateway beside them, keep  *)
(* their types.                                                             *)
THEOREM ReconcileTypes == ReconcileSpec => []ReconcileTypeOK
<1>1. ReconcileInv => ReconcileTypeOK
  BY DEF ReconcileInv
<1> QED BY <1>1, ReconcileInvHolds, PTL

(* A command that nothing overlapped leaves Caddy with the services of the  *)
(* table when the commands are those of the agents, too, whose publications *)
(* nobody has checked.                                                      *)
THEOREM AgentsAreServed == ReconcileSpec => []UndisturbedIsServed
<1>1. ReconcileInv => UndisturbedIsServed
  BY DEF ReconcileInv, Inv, SettledIsFresh, UndisturbedIsServed
<1> QED BY <1>1, ReconcileInvHolds, PTL

-----------------------------------------------------------------------------
(* Publications of others *)

(* The labels of the containers that an agent heeds, whose local host is    *)
(* the container itself, are remembered.                                    *)
LabelsNamed ==
    \A a \in Agents, c \in Containers :
        (labels[a][c] # None /\ labels[a][c].local.host = c) => labels[a][c].public \in named[a]

(* A row of an agent has an address that its server has named.              *)
RowsNamed == \A k \in Published(table) : table[k].by \in Agents => k \in named[table[k].by]

(* What an agent has listed, and means to send, is about such addresses.    *)
ListsNamed ==
    \A a \in Agents :
        /\ \A r \in agent[a].publishedHere : r.key \in named[a]
        /\ agent[a].toUnpublish \subseteq named[a]
        /\ \A r \in agent[a].toPublish : r.key \in named[a]

(* And so is every request under way, whether its agent still waits or not. *)
RequestNamed(c) ==
    /\ c \in Publications \cup Unpublications
    /\ c.by \in Agents => c.key \in named[c.by]

RequestsNamed == \A w \in Workers : pc[w] # "idle" => RequestNamed(loc[w].command)

NamedInv == LabelsNamed /\ RowsNamed /\ ListsNamed /\ RequestsNamed

(* What a server has named is not forgotten.                                *)
LEMMA NamedGrows ==
    ASSUME ReconcileTypeOK, [ReconcileNext]_allVars
    PROVE  \A a \in Agents : named[a] \subseteq named'[a]
<1>1. CASE UNCHANGED named
  BY <1>1
<1>2. ASSUME NEW a \in Agents, NEW c \in Containers, SetLabels(a, c)
      PROVE  \A b \in Agents : named[b] \subseteq named'[b]
  <2>1. PICK l \in {choice \in Choices : choice.container = c} \cup {None} :
            named' = [named EXCEPT ![a] = @ \cup {m.public : m \in {n \in {l} \ {None} : Valid(n)}}]
    BY <1>2 DEF SetLabels
  <2> QED BY <2>1 DEF ReconcileTypeOK
<1>3. ASSUME NEW a \in Agents, AgentStep(a) PROVE UNCHANGED named
  BY <1>3 DEF AgentStep, ServiceList, ListAllContainerLabels, Unpublish, Publish, Sleep
<1>4. ASSUME NEW a \in Agents, GiveUp(a) PROVE UNCHANGED named
  BY <1>4 DEF GiveUp
<1>5. ASSUME NEW w \in Workers \ Agents, Client(w) PROVE UNCHANGED named
  BY <1>5 DEF Client
<1>6. Gateway => UNCHANGED named
  BY DEF Gateway
<1> QED BY <1>1, <1>2, <1>3, <1>4, <1>5, <1>6 DEF ReconcileNext, allVars

(* The labels that are set are named in the same step.                      *)
LEMMA LabelsNamedStep ==
    ASSUME ReconcileTypeOK, LabelsNamed, [ReconcileNext]_allVars
    PROVE  LabelsNamed'
<1>1. CASE UNCHANGED <<labels, named>>
  BY <1>1 DEF LabelsNamed
<1>2. ASSUME NEW a \in Agents, NEW c \in Containers, SetLabels(a, c)
      PROVE  LabelsNamed'
  <2>1. PICK l \in {choice \in Choices : choice.container = c} \cup {None} :
            /\ labels' = [labels EXCEPT ![a][c] = l]
            /\ named' = [named EXCEPT ![a] = @ \cup {m.public : m \in {n \in {l} \ {None} : Valid(n)}}]
    BY <1>2 DEF SetLabels
  <2>2. l # None /\ l.local.host = c => l.public \in named'[a]
    BY <2>1 DEF Valid, ReconcileTypeOK
  <2>3. \A b \in Agents : named[b] \subseteq named'[b]
    BY NamedGrows
  <2>4. \A b \in Agents, d \in Containers :
            labels'[b][d] = IF b = a /\ d = c THEN l ELSE labels[b][d]
    BY <2>1 DEF ReconcileTypeOK
  <2> QED BY <2>2, <2>3, <2>4 DEF LabelsNamed
<1>3. ASSUME NEW a \in Agents, AgentStep(a) PROVE UNCHANGED <<labels, named>>
  BY <1>3 DEF AgentStep, ServiceList, ListAllContainerLabels, Unpublish, Publish, Sleep
<1>4. ASSUME NEW a \in Agents, GiveUp(a) PROVE UNCHANGED <<labels, named>>
  BY <1>4 DEF GiveUp
<1>5. ASSUME NEW w \in Workers \ Agents, Client(w) PROVE UNCHANGED <<labels, named>>
  BY <1>5 DEF Client
<1>6. Gateway => UNCHANGED <<labels, named>>
  BY DEF Gateway
<1> QED BY <1>1, <1>2, <1>3, <1>4, <1>5, <1>6 DEF ReconcileNext, allVars

(* An address that was named stays so for the rows that do not change.      *)
LEMMA RowsNamedKept ==
    ASSUME RowsNamed, UNCHANGED table, \A a \in Agents : named[a] \subseteq named'[a]
    PROVE  RowsNamed'
  BY DEF RowsNamed, Published, NoPublication, Catalogue!Published, Catalogue!NoPublication

(* What is written to the table was asked for by its publisher.             *)
LEMMA RowsNamedStep ==
    ASSUME ReconcileInv, NamedInv, [ReconcileNext]_allVars
    PROVE  RowsNamed'
<1>1. \A a \in Agents : named[a] \subseteq named'[a]
  BY NamedGrows DEF ReconcileInv
<1>2. ASSUME UNCHANGED table PROVE RowsNamed'
  BY <1>1, <1>2, RowsNamedKept DEF NamedInv
<1>3. ASSUME NEW w \in Workers, pc[w] \in {"create", "update"}, Write(w, NewPublication(w))
      PROVE  RowsNamed'
  <2> DEFINE c == loc[w].command
  <2>1. c \in Publications /\ c.key \in Keys
    BY <1>3, CommandParts DEF ReconcileInv, Inv, TypeInv, CommandFits
  <2>2. c.by \in Agents => c.key \in named'[c.by]
    BY <1>1, <1>3 DEF NamedInv, RequestsNamed, RequestNamed
  <2>3. /\ table'[c.key].by = c.by
        /\ \A k \in Keys \ {c.key} : table'[k] = table[k]
    BY <1>3, <2>1 DEF Write, NewPublication, ReconcileInv, Inv, TypeInv, TypeOK, Table,
                      Catalogue!Table
  <2> QED BY <1>1, <2>2, <2>3 DEF NamedInv, RowsNamed, Published, NoPublication,
             Catalogue!Published, Catalogue!NoPublication
<1>4. ASSUME NEW w \in Workers, Write(w, NoPublication)
      PROVE  RowsNamed'
  <2>1. \A k \in Published(table') : k \in Published(table) /\ table'[k] = table[k]
    BY <1>4 DEF Write, ReconcileInv, Inv, TypeInv, TypeOK, Table, Catalogue!Table, Published,
                NoPublication, Catalogue!Published
  <2> QED BY <1>1, <2>1 DEF NamedInv, RowsNamed
<1>5. ASSUME NEW w \in Workers, ParamStore(w)
      PROVE  FALSE
  <2>1. loc[w].command \in ParamCommands /\ pc[w] # "idle"
    BY <1>5 DEF ParamStore, ReconcileInv, Inv, TypeInv, CommandFits
  <2>2. loc[w].command \in Publications \cup Unpublications
    BY <2>1 DEF NamedInv, RequestsNamed, RequestNamed
  <2> QED BY <2>1, <2>2, CommandParts
<1>6. ASSUME NEW a \in Agents, GiveUp(a) PROVE UNCHANGED table
  BY <1>6 DEF GiveUp
<1>7. CASE [RequestNext]_vars
  BY <1>2, <1>3, <1>4, <1>5, <1>7, TableWrites DEF ReconcileInv
<1> QED BY <1>2, <1>6, <1>7, StepOfServices DEF ReconcileInv

-----------------------------------------------------------------------------
(* What an agent is about to ask for is about addresses that were named.    *)
LEMMA ListsNamedStep ==
    ASSUME ReconcileInv, NamedInv, NEW a \in Agents, AgentStep(a)
    PROVE  ListsNamed'
<1> USE DEF ReconcileInv, ReconcileTypeOK, NamedInv
<1>0. UNCHANGED named
  BY DEF AgentStep, ServiceList, ListAllContainerLabels, Unpublish, Publish, Sleep
<1>1. CASE ServiceList(a)
  <2>1. \A r \in filterServicesPublishedByNode(table, a) : r.key \in named[a]
    BY DEF filterServicesPublishedByNode, RowsNamed
  <2>2. agent'[a] = [Asleep EXCEPT !.at = "labels",
                          !.publishedHere = filterServicesPublishedByNode(table, a)]
    BY <1>1 DEF ServiceList
  <2>3. /\ agent'[a].publishedHere = filterServicesPublishedByNode(table, a)
        /\ agent'[a].toUnpublish = {} /\ agent'[a].toPublish = {}
    BY <2>2 DEF Asleep
  <2>4. \A b \in Agents \ {a} : agent'[b] = agent[b]
    BY <1>1 DEF ServiceList
  <2> QED BY <1>0, <2>1, <2>3, <2>4 DEF ListsNamed
<1>2. CASE ListAllContainerLabels(a)
  <2>1. servicesToUnpublish(a) \subseteq named[a]
    BY DEF servicesToUnpublish, ListsNamed
  <2>2. \A r \in servicesToPublish(a) : r.key \in named[a]
    BY DEF servicesToPublish, Labelled, LabelsNamed
  <2>3. agent'[a] = [Asleep EXCEPT !.at = "apply", !.toUnpublish = servicesToUnpublish(a),
                                   !.toPublish = servicesToPublish(a)]
    BY <1>2 DEF ListAllContainerLabels
  <2>4. /\ agent'[a].publishedHere = {}
        /\ agent'[a].toUnpublish = servicesToUnpublish(a)
        /\ agent'[a].toPublish = servicesToPublish(a)
    BY <2>3 DEF Asleep
  <2>5. \A b \in Agents \ {a} : agent'[b] = agent[b]
    BY <1>2 DEF ListAllContainerLabels
  <2> QED BY <1>0, <2>1, <2>2, <2>4, <2>5 DEF ListsNamed
<1>3. CASE Unpublish(a)
  <2>1. PICK k : agent' = [agent EXCEPT ![a].toUnpublish = @ \ {k}]
    BY <1>3 DEF Unpublish
  <2> QED BY <1>0, <2>1 DEF ListsNamed, Agent
<1>4. CASE Publish(a)
  <2>1. PICK r : agent' = [agent EXCEPT ![a].toPublish = @ \ {r}]
    BY <1>4 DEF Publish
  <2> QED BY <1>0, <2>1 DEF ListsNamed, Agent
<1>5. CASE Sleep(a)
  <2>1. /\ agent'[a] = Asleep
        /\ \A b \in Agents \ {a} : agent'[b] = agent[b]
    BY <1>5 DEF Sleep
  <2> QED BY <1>0, <2>1 DEF ListsNamed, Asleep
<1> QED BY <1>1, <1>2, <1>3, <1>4, <1>5 DEF AgentStep

-----------------------------------------------------------------------------
(* A request under way is the one that it was, or has just started.         *)
LEMMA RequestsKept ==
    ASSUME Inv, \/ \E w \in Workers : CommandStep(w) \/ Abort(w)
                \/ GatewayStep \/ CaddyRun \/ Crash
    PROVE  \A v \in Workers : pc'[v] # "idle" =>
              pc[v] # "idle" /\ loc'[v].command = loc[v].command
<1>1. ASSUME NEW w \in Workers, pc[w] # "idle", Finish(w)
      PROVE  \A v \in Workers : pc'[v] # "idle" =>
                pc[v] # "idle" /\ loc'[v].command = loc[v].command
  BY <1>1, FinishFacts DEF Inv
<1>2. ASSUME NEW w \in Workers, pc[w] # "idle", UNCHANGED loc, NEW l \in Label, Goto(w, l)
      PROVE  \A v \in Workers : pc'[v] # "idle" =>
                pc[v] # "idle" /\ loc'[v].command = loc[v].command
  BY <1>2, GotoFacts DEF Inv
<1>3. ASSUME NEW w \in Workers,
             \/ PublishFind(w) \/ PublishCreate(w) \/ PublishUpdate(w) \/ Delete(w)
             \/ ParamStore(w) \/ SaveConfigs(w) \/ RestartCaddy(w) \/ RestartFails(w)
             \/ Report(w) \/ Abort(w)
      PROVE  \A v \in Workers : pc'[v] # "idle" =>
                pc[v] # "idle" /\ loc'[v].command = loc[v].command
  <2>1. /\ pc[w] # "idle"
        /\ Finish(w) \/ (UNCHANGED loc /\ \E l \in Label : Goto(w, l))
    BY <1>3 DEF PublishFind, PublishCreate, PublishUpdate, Delete, ParamStore, SaveConfigs,
                RestartCaddy, RestartFails, Report, Abort, Write, Label
  <2> QED BY <1>1, <1>2, <2>1
<1>4. ASSUME NEW w \in Workers, ParamFind(w)
      PROVE  \A v \in Workers : pc'[v] # "idle" =>
                pc[v] # "idle" /\ loc'[v].command = loc[v].command
  <2>1. CASE Finish(w)
    BY <1>1, <1>4, <2>1 DEF ParamFind
  <2>2. CASE /\ Goto(w, "store")
             /\ loc' = [loc EXCEPT ![w].row = table[loc[w].command.key]]
    BY <1>4, <2>2, GotoFacts DEF Inv, TypeInv, TypeOK, Label, ParamFind
  <2> QED BY <1>4, <2>1, <2>2 DEF ParamFind
<1>5. ASSUME NEW w \in Workers, GetAll(w)
      PROVE  \A v \in Workers : pc'[v] # "idle" =>
                pc[v] # "idle" /\ loc'[v].command = loc[v].command
  BY <1>5, GotoFacts, ListFields DEF Inv, TypeInv, TypeOK, Label, GetAll
<1>6. CASE GatewayStart
  <2>1. ASSUME NEW v \in Workers PROVE loc'[v].command = loc[v].command
    <3>1. loc[v] \in Local /\ loc'[v] = [loc[v] EXCEPT !.alone = FALSE]
      BY <1>6 DEF Inv, TypeInv, TypeOK, GatewayStart, NobodyAlone
    <3> QED BY <3>1, AloneFields
  <2> QED BY <1>6, <2>1 DEF GatewayStart
<1>7. CASE GatewaySaved \/ CaddyRun
  BY <1>7 DEF GatewaySaved, CaddyRun
<1>8. CASE GatewayFailed
  <2>1. CASE control = "starting"
    BY <1>8, <2>1, ResetFacts DEF Inv, GatewayFailed
  <2>2. CASE control # "starting"
    BY <1>8, <2>2 DEF GatewayFailed
  <2> QED BY <2>1, <2>2
<1>9. CASE Crash
  BY <1>9, ResetFacts DEF Inv, Crash
<1> QED BY <1>3, <1>4, <1>5, <1>6, <1>7, <1>8, <1>9 DEF CommandStep, GatewayStep

(* A command that starts on a named address is one more such command.       *)
LEMMA RequestsNamedStart ==
    ASSUME Inv, RequestsNamed, NEW w \in Workers, NEW c \in Requests, RequestNamed(c),
           Start(w, c), UNCHANGED named
    PROVE  RequestsNamed'
<1>1. loc'[w].command = c
  BY StartFacts DEF Inv
<1>2. \A v \in Workers \ {w} : pc'[v] = pc[v] /\ loc'[v].command = loc[v].command
  BY StartFacts DEF Inv
<1> QED BY <1>1, <1>2 DEF RequestsNamed, RequestNamed

(* What an agent asks for is about addresses that its server has named.     *)
LEMMA RequestsNamedAgent ==
    ASSUME ReconcileInv, NamedInv, NEW a \in Agents, AgentStep(a)
    PROVE  RequestsNamed'
<1>0. UNCHANGED named
  BY DEF AgentStep, ServiceList, ListAllContainerLabels, Unpublish, Publish, Sleep
<1>1. CASE UNCHANGED vars
  BY <1>0, <1>1 DEF vars, NamedInv, RequestsNamed, RequestNamed
<1>2. a \in Workers
  BY ReconcileAssumption
<1>3. ASSUME NEW c \in Publications \cup Unpublications, c.key \in named[a], c.by = a,
             Send(a, c)
      PROVE  RequestsNamed'
  <2>1. RequestNamed(c) /\ c \in Requests
    BY <1>3, RequestTypes DEF RequestNamed
  <2> QED BY <1>0, <1>1, <1>2, <1>3, <2>1, RequestsNamedStart DEF Send, ReconcileInv, NamedInv
<1>4. CASE Unpublish(a)
  <2>1. PICK k \in agent[a].toUnpublish :
            Send(a, [op |-> "unpublish", key |-> k, local |-> None, by |-> a,
                     param |-> None])
    BY <1>4 DEF Unpublish
  <2> DEFINE c == [op |-> "unpublish", key |-> k, local |-> None, by |-> a, param |-> None]
  <2>2. k \in Keys /\ k \in named[a]
    BY AgentParts DEF ReconcileInv, NamedInv, ListsNamed
  <2>3. c \in Unpublications /\ c.key = k /\ c.by = a
    BY <2>2, RequestTypes
  <2>4. Send(a, c)
    BY <2>1
  <2> HIDE DEF c
  <2> QED BY <1>3, <2>2, <2>3, <2>4
<1>5. CASE Publish(a)
  <2>1. PICK r \in agent[a].toPublish :
            Send(a, [op |-> "publish", key |-> r.key, local |-> r.local, by |-> a,
                     param |-> None])
    BY <1>5 DEF Publish
  <2> DEFINE c == [op |-> "publish", key |-> r.key, local |-> r.local, by |-> a,
                   param |-> None]
  <2>2. r \in Row /\ r.key \in named[a]
    BY AgentParts DEF ReconcileInv, NamedInv, ListsNamed
  <2>3. c \in Publications /\ c.key = r.key /\ c.by = a
    BY <2>2, RequestTypes
  <2>4. Send(a, c)
    BY <2>1
  <2> HIDE DEF c
  <2> QED BY <1>3, <2>2, <2>3, <2>4
<1> QED BY <1>1, <1>4, <1>5 DEF AgentStep, ServiceList, ListAllContainerLabels, Sleep

(* A request that its agent has given up on is the same request.            *)
LEMMA RequestsNamedGiveUp ==
    ASSUME Inv, RequestsNamed, NEW a \in Agents, GiveUp(a)
    PROVE  RequestsNamed'
<1>1. PICK w \in Workers \ Agents :
          /\ a \in Workers /\ pc[w] = "idle"
          /\ pc'[w] = pc[a] /\ loc'[w] = loc[a]
          /\ pc'[a] = "idle" /\ ~loc'[a].alone
          /\ \A v \in Workers \ {a, w} : pc'[v] = pc[v] /\ loc'[v] = loc[v]
  BY GiveUpFacts
<1>2. UNCHANGED named
  BY DEF GiveUp
<1> QED BY <1>1, <1>2 DEF RequestsNamed, RequestNamed

(* No step takes the rows, lists or commands of a server beyond the         *)
(* addresses that its labels have named.                                    *)
LEMMA NamedStep ==
    ASSUME ReconcileInv, NamedInv, [ReconcileNext]_allVars
    PROVE  NamedInv'
<1>1. RowsNamed' /\ LabelsNamed'
  BY RowsNamedStep, LabelsNamedStep DEF ReconcileInv, NamedInv
<1>2. \A a \in Agents : named[a] \subseteq named'[a]
  BY NamedGrows DEF ReconcileInv
<1>3. ASSUME NEW a \in Agents, AgentStep(a)
      PROVE  ListsNamed' /\ RequestsNamed'
  BY <1>3, ListsNamedStep, RequestsNamedAgent
<1>4. ASSUME UNCHANGED agent PROVE ListsNamed'
  BY <1>2, <1>4 DEF NamedInv, ListsNamed
<1>5. ASSUME UNCHANGED <<pc, loc>> PROVE RequestsNamed'
  BY <1>2, <1>5 DEF NamedInv, RequestsNamed, RequestNamed
<1>6. ASSUME NEW a \in Agents, NEW c \in Containers, SetLabels(a, c)
      PROVE  ListsNamed' /\ RequestsNamed'
  BY <1>4, <1>5, <1>6 DEF SetLabels, vars
<1>7. ASSUME NEW a \in Agents, GiveUp(a)
      PROVE  ListsNamed' /\ RequestsNamed'
  BY <1>4, <1>7, RequestsNamedGiveUp DEF GiveUp, ReconcileInv, NamedInv
<1>8. ASSUME NEW w \in Workers \ Agents, Client(w)
      PROVE  ListsNamed' /\ RequestsNamed'
  <2>1. PICK c \in ClientCommands : Start(w, c)
    BY <1>8 DEF Client
  <2>2. RequestNamed(c)
    BY DEF ClientCommands, RequestNamed
  <2>3. c \in Requests
    BY RequestTypes
  <2>4. UNCHANGED <<agent, named>>
    BY <1>8 DEF Client
  <2>5. RequestsNamed'
    BY <2>1, <2>2, <2>3, <2>4, RequestsNamedStart DEF ReconcileInv, NamedInv
  <2> QED BY <1>4, <2>4, <2>5
<1>9. ASSUME Gateway
      PROVE  ListsNamed' /\ RequestsNamed'
  <2>1. \A v \in Workers : pc'[v] # "idle" =>
              pc[v] # "idle" /\ loc'[v].command = loc[v].command
    BY <1>9, RequestsKept DEF Gateway, ReconcileInv
  <2>2. UNCHANGED <<agent, named>>
    BY <1>9 DEF Gateway
  <2>3. RequestsNamed'
    BY <2>1, <2>2 DEF NamedInv, RequestsNamed, RequestNamed
  <2> QED BY <1>4, <2>2, <2>3
<1>10. ASSUME UNCHANGED allVars
       PROVE  ListsNamed' /\ RequestsNamed'
  BY <1>4, <1>5, <1>10 DEF allVars
<1> QED BY <1>1, <1>3, <1>6, <1>7, <1>8, <1>9, <1>10 DEF ReconcileNext, NamedInv

(* At first there are neither commands nor rows nor labels.                 *)
LEMMA NamedInit ==
    ASSUME ReconcileInit
    PROVE  NamedInv
<1>1. RowsNamed
  BY DEF ReconcileInit, Init, RowsNamed, Published, EmptyTable, Catalogue!Published,
         Catalogue!EmptyTable
<1>2. ListsNamed
  BY DEF ReconcileInit, ListsNamed, Asleep
<1>3. RequestsNamed /\ LabelsNamed
  BY DEF ReconcileInit, Init, RequestsNamed, LabelsNamed
<1> QED BY <1>1, <1>2, <1>3 DEF NamedInv

(* The agent of a server changes the publication of a client or of another  *)
(* server only at an address that a valid label of its own server names or  *)
(* once named: for any servers, labels and clients, on shared addresses,    *)
(* with lists that have grown stale, and for the requests that go on after  *)
(* the agent has stopped waiting for them.                                  *)
THEOREM ForeignChangedOnlyWhereNamed == ReconcileSpec => ForeignOnlyWhereNamed
<1>1. ReconcileInit => NamedInv
  BY NamedInit
<1>2. ReconcileInv /\ NamedInv /\ [ReconcileNext]_allVars => NamedInv'
  BY NamedStep
<1>3. NamedInv /\ [ReconcileNext]_allVars =>
          [\A w \in Workers, k \in Published(table) :
              (Changes(w, k) /\ loc[w].command.by \in Agents) =>
                  \/ table[k].by = loc[w].command.by
                  \/ k \in named[loc[w].command.by]]_allVars
  BY DEF NamedInv, RequestsNamed, RequestNamed, Changes
<1> QED BY <1>1, <1>2, <1>3, ReconcileInvHolds, PTL DEF ReconcileSpec, ForeignOnlyWhereNamed

(* Every change of the table is one command on one publication, with any    *)
(* number of agents and clients at a time: also when an agent has stopped   *)
(* waiting for a command that goes on.                                      *)
THEOREM TableIsCatalogueBesideAgents == ReconcileSpec => CatalogueSpec
<1>1. ReconcileInit => NamedInv
  BY NamedInit
<1>2. ReconcileInv /\ NamedInv /\ [ReconcileNext]_allVars => NamedInv'
  BY NamedStep
<1>3. ReconcileInit => Catalogue!Init
  BY DEF ReconcileInit, Init, EmptyTable, Catalogue!Init
<1>4. ReconcileInv /\ NamedInv /\ [ReconcileNext]_allVars => [Catalogue!Next]_table
  <2> SUFFICES ASSUME ReconcileInv, NamedInv, [ReconcileNext]_allVars
               PROVE  [Catalogue!Next]_table
    OBVIOUS
  <2>1. CASE \E a \in Agents : GiveUp(a)
    BY <2>1 DEF GiveUp
  <2>2. CASE \A a \in Agents : ~GiveUp(a)
    <3>1. ASSUME NEW w \in Workers PROVE pc[w] # "store"
      <4>1. pc[w] = "store" => loc[w].command \in ParamCommands
        BY DEF ReconcileInv, Inv, TypeInv, CommandFits
      <4>2. pc[w] = "store" => loc[w].command \in Publications \cup Unpublications
        BY DEF NamedInv, RequestsNamed, RequestNamed
      <4>3. loc[w].command \in ParamCommands => loc[w].command.op \in {"paramNew", "paramRemove"}
        BY CommandParts
      <4>4. loc[w].command \in Publications \cup Unpublications =>
                loc[w].command.op \in {"publish", "unpublish"}
        BY CommandParts
      <4> QED BY <4>1, <4>2, <4>3, <4>4
    <3>2. StoreFresh
      BY <3>1 DEF StoreFresh
    <3>3. [RequestNext]_vars
      BY <2>2, StepOfServices DEF ReconcileInv
    <3> QED BY <3>2, <3>3, CatalogueStep DEF ReconcileInv
  <2> QED BY <2>1, <2>2
<1> QED BY <1>1, <1>2, <1>3, <1>4, ReconcileInvHolds, PTL
        DEF ReconcileSpec, CatalogueSpec, Catalogue!Spec
=============================================================================
