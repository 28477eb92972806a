----------------------------- MODULE Reconcile ------------------------------
(***************************************************************************)
(* Publications declared with Docker labels: every server runs an agent    *)
(* that compares the services it has published on the gateway with the     *)
(* labels of its containers every 30 seconds, and sends unpublish and      *)
(* publish requests for the difference.  The requests are commands of      *)
(* module Services, in competition with those of the clients.              *)
(***************************************************************************)
EXTENDS Services

CONSTANTS
    Agents,      \* server agents: workers of the gateway, and publishing nodes
    Containers,  \* container names
    Choices,     \* label pairs an operator may set: [container, local, public]
    ClientKeys   \* public addresses that clients publish by hand

ASSUME ReconcileAssumption ==
    /\ Agents \subseteq Workers \ Console
    /\ Agents \subseteq Nodes
    /\ \A c \in Choices : c.container \in Containers /\ c.local \in Locals /\ c.public \in Keys
    /\ ClientKeys \subseteq Keys

VARIABLES
    labels,  \* per agent and container: its pair of labels, or None
    agent,   \* per agent: the local variables of the reconciliation
    named    \* history: the public addresses that its valid labels have named

allVars == <<table, caddyfile, running, control, listed, pc, loc, scheduled, settled, faults,
             labels, agent, named>>

Row == [key: Keys, local: Locals]

(* publishedHere, servicesToUnpublish and servicesToPublish. *)
Agent == [at: {"sleep", "labels", "apply"}, publishedHere: SUBSET Row,
          toUnpublish: SUBSET Keys, toPublish: SUBSET Row]
Asleep == [at |-> "sleep", publishedHere |-> {}, toUnpublish |-> {}, toPublish |-> {}]

ReconcileTypeOK ==
    /\ TypeOK
    /\ labels \in [Agents -> [Containers -> Choices \cup {None}]]
    /\ agent \in [Agents -> Agent]
    /\ named \in [Agents -> SUBSET Keys]

-----------------------------------------------------------------------------
(* Mistaken variant: every service is taken for one of this node. *)
PublishedByAnyone(t, n) == {[key |-> k, local |-> t[k].local] : k \in Published(t)}

filterServicesPublishedByNode(t, n) ==
    {[key |-> k, local |-> t[k].local] : k \in {j \in Published(t) : t[j].by = n}}

Labelled(a) == {c \in Containers : labels[a][c] # None}

(* Mistaken variants: nothing to do without a labelled container; the local *)
(* hosts.                                                                   *)
servicesToUnpublishUnlessNone(a) ==
    {r.key : r \in {s \in agent[a].publishedHere :
                       Labelled(a) # {} /\ s.local.host \notin Labelled(a)}}
servicesToUnpublishHosts(a) ==
    {r.local : r \in {s \in agent[a].publishedHere : s.local.host \notin Labelled(a)}}

(* Rows of this node whose local host is not a labelled container.          *)
servicesToUnpublish(a) ==
    {r.key : r \in {s \in agent[a].publishedHere : s.local.host \notin Labelled(a)}}

(* Mistaken variant: the local host is not compared with the container. *)
servicesToPublishAnyHost(a) ==
    {[key |-> labels[a][c].public, local |-> labels[a][c].local] :
        c \in {d \in Labelled(a) : \A r \in agent[a].publishedHere : r.local.host # d}}

(* Labelled containers that are not the local host of a row of this node,   *)
(* and whose local label names the container itself.                        *)
servicesToPublish(a) ==
    {[key |-> labels[a][c].public, local |-> labels[a][c].local] :
        c \in {d \in Labelled(a) :
                  /\ labels[a][d].local.host = d
                  /\ \A r \in agent[a].publishedHere : r.local.host # d}}

-----------------------------------------------------------------------------
(* GET the services of the gateway. *)
ServiceList(a) ==
    /\ agent[a].at = "sleep"
    /\ Reachable(a)
    /\ agent' = [agent EXCEPT
                    ![a] = [Asleep EXCEPT
                              !.at = "labels",
                              !.publishedHere = filterServicesPublishedByNode(table, a)]]
    /\ UNCHANGED <<vars, labels, named>>

(* List the labels of the containers, and compare.                          *)
ListAllContainerLabels(a) ==
    /\ agent[a].at = "labels"
    /\ agent' = [agent EXCEPT ![a] = [Asleep EXCEPT !.at = "apply",
                                                    !.toUnpublish = servicesToUnpublish(a),
                                                    !.toPublish = servicesToPublish(a)]]
    /\ UNCHANGED <<vars, labels, named>>

(* A request starts a command on the gateway, or fails and is not repeated. *)
Send(a, command) ==
    \/ Start(a, command)
    \/ pc[a] = "idle" /\ ~Reachable(a) /\ UNCHANGED vars

(* The agent waits 60 seconds for an answer and goes on without it.  The    *)
(* handler knows nothing of that: it goes on, too, as another worker.       *)
GiveUp(a) ==
    /\ pc[a] # "idle"
    /\ \E w \in Workers \ Agents :
          /\ pc[w] = "idle"
          /\ pc' = [pc EXCEPT ![w] = pc[a], ![a] = "idle"]
          /\ loc' = [loc EXCEPT ![w] = loc[a], ![a] = NoLocal]
    /\ UNCHANGED <<table, caddyfile, running, control, listed, settled, faults, scheduled,
                   labels, agent, named>>

(* The requests go out one after the other, the unpublications first.       *)
Unpublish(a) ==
    /\ agent[a].at = "apply"
    /\ \E k \in agent[a].toUnpublish :
          /\ Send(a, [op |-> "unpublish", key |-> k, local |-> None, by |-> a,
                      param |-> None])
          /\ agent' = [agent EXCEPT ![a].toUnpublish = @ \ {k}]
    /\ UNCHANGED <<labels, named>>

Publish(a) ==
    /\ agent[a].at = "apply"
    /\ agent[a].toUnpublish = {}
    /\ \E r \in agent[a].toPublish :
          /\ Send(a, [op |-> "publish", key |-> r.key, local |-> r.local, by |-> a,
                      param |-> None])
          /\ agent' = [agent EXCEPT ![a].toPublish = @ \ {r}]
    /\ UNCHANGED <<labels, named>>

(* Every request is answered: sleep.                                        *)
Sleep(a) ==
    /\ agent[a].at = "apply"
    /\ pc[a] = "idle"
    /\ agent[a].toUnpublish \cup agent[a].toPublish = {}
    /\ agent' = [agent EXCEPT ![a] = Asleep]
    /\ UNCHANGED <<vars, labels, named>>

AgentStep(a) ==
    ServiceList(a) \/ ListAllContainerLabels(a) \/ Unpublish(a) \/ Publish(a) \/ Sleep(a)

-----------------------------------------------------------------------------
(* An operator recreates a container with other labels, or without any.     *)
Valid(l) == l.local.host = l.container

SetLabels(a, c) ==
    /\ \E l \in {choice \in Choices : choice.container = c} \cup {None} :
          /\ l # labels[a][c]
          /\ labels' = [labels EXCEPT ![a][c] = l]
          /\ named' = [named EXCEPT ![a] = @ \cup {m.public : m \in {n \in {l} \ {None} : Valid(n)}}]
    /\ UNCHANGED <<vars, agent>>

(* A client, or an operator on the gateway, publishes and unpublishes by    *)
(* hand; the command line does not publish from a server.                   *)
ClientCommands ==
    {c \in Publications \cup Unpublications :
        /\ c.key \in ClientKeys
        /\ c.by \notin Agents
        /\ c.op = "publish" => CommandLineAccepts(c.key, c.local)}

Client(w) ==
    /\ \E c \in ClientCommands : Start(w, c)
    /\ UNCHANGED <<labels, agent, named>>

(* The steps of Services. *)
Gateway ==
    /\ \/ \E w \in Workers : CommandStep(w) \/ Abort(w)
       \/ GatewayStep
       \/ CaddyRun
       \/ Crash
    /\ UNCHANGED <<labels, agent, named>>

ReconcileInit ==
    /\ Init
    /\ labels = [a \in Agents |-> [c \in Containers |-> None]]
    /\ agent = [a \in Agents |-> Asleep]
    /\ named = [a \in Agents |-> {}]

ReconcileNext ==
    \/ \E a \in Agents : AgentStep(a) \/ GiveUp(a)
    \/ \E a \in Agents, c \in Containers : SetLabels(a, c)
    \/ \E w \in Workers \ Agents : Client(w)
    \/ Gateway

(* Agents loop for ever, the gateway process is restarted when it ends, and *)
(* a command that has begun ends.                                           *)
ReconcileFairness ==
    /\ \A a \in Agents : WF_allVars(AgentStep(a))
    /\ \A w \in Workers : WF_allVars(CommandStep(w) /\ UNCHANGED <<labels, agent, named>>)
    /\ WF_allVars(GatewayStep /\ UNCHANGED <<labels, agent, named>>)
    /\ WF_allVars(CaddyRun /\ UNCHANGED <<labels, agent, named>>)

ReconcileSpec == ReconcileInit /\ [][ReconcileNext]_allVars /\ ReconcileFairness

-----------------------------------------------------------------------------
(* A handler writes the row of an address, whoever waits for its answer.    *)
Changes(w, k) ==
    /\ pc[w] # "idle" /\ pc'[w] = "list"
    /\ loc[w].command.key = k
    /\ table'[k] # table[k]

(* README.md: "Only tunnels defined by labels on containers running on that *)
(* server are managed; publications created manually from a CLIENT are left *)
(* unchanged."  What the code keeps of it: an agent changes a publication   *)
(* of a client or of another server only at an address that a valid label   *)
(* of its own server names or once named.  There it replaces whatever is    *)
(* published, and with a list that has grown stale it may remove it.        *)
ForeignOnlyWhereNamed ==
    [][\A w \in Workers, k \in Published(table) :
          (Changes(w, k) /\ loc[w].command.by \in Agents) =>
              \/ table[k].by = loc[w].command.by
              \/ k \in named[loc[w].command.by]]_allVars

-----------------------------------------------------------------------------
(* The containers whose valid labels name a public address now.             *)
Claims(k) ==
    {claim \in Agents \X Containers :
        LET l == labels[claim[1]][claim[2]] IN l # None /\ Valid(l) /\ l.public = k}
Claimants(k) == {claim[1] : claim \in Claims(k)}

(* Commands of clients on an address are under way. *)
Handled(k) ==
    \E w \in Workers :
        pc[w] # "idle" /\ loc[w].command.key = k /\ loc[w].command.by \notin Agents

(* The addresses that a server has ever named are left to one container.    *)
Undisputed(a, c) == \A k \in named[a] : Claims(k) \subseteq {<<a, c>>} /\ ~Handled(k)

(* A container with valid labels that stay ends up published by its server  *)
(* for good, at the address of its labels or of earlier ones, once no other *)
(* container and no client uses these addresses: through failed requests,   *)
(* requests that go on after the agent has given up on them, restarts of    *)
(* the gateway, and labels that change while the agent compares.            *)
LabelsConverge ==
    \A a \in Agents, l \in Choices :
        (Valid(l) /\ <>[](labels[a][l.container] = l /\ Undisputed(a, l.container)))
            => <>[](\E k \in named[a] : /\ table[k].by = a
                                        /\ table[k].local.host = l.container)

(* Servers that claim one address, and never claimed another one, take it   *)
(* from each other in every round, and an agent that drops its label may    *)
(* take the other's row with it: in the end the address is published, by    *)
(* one that still claims it.                                                *)
ContestedServed ==
    \A k \in Keys, claimants \in (SUBSET Agents) \ {{}} :
        <>[](Claimants(k) = claimants /\ ~Handled(k) /\ \A a \in claimants : named[a] = {k})
            => <>[](k \in Published(table) /\ table[k].by \in claimants)

(* A container that stays without labels ends up without a publication of   *)
(* its server, in the same way.                                             *)
UnlabelledConverge ==
    \A a \in Agents, c \in Containers :
        <>[](labels[a][c] = None)
            => <>[](\A k \in Published(table) : table[k].by = a => table[k].local.host # c)

-----------------------------------------------------------------------------
(* What the documentation says and the code does not do. *)

(* README.md: "after changing `wireport.service.*` labels in your Docker    *)
(* Compose files, recreate the affected stack's containers, then allow up   *)
(* to ~30 seconds for the SERVER agent to reconcile."  The pair of labels   *)
(* that stays is the one that is published in the end.                      *)
ChangedLabelsApplied ==
    \A a \in Agents, l \in Choices :
        (Valid(l) /\ <>[](labels[a][l.container] = l /\ Undisputed(a, l.container)))
            => <>[](table[l.public].by = a /\ table[l.public].local = l.local)
=============================================================================
