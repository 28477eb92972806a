# A TLA+ verification of wireport

wireport connects servers and clients to a gateway over WireGuard and publishes
local services on the gateway with Caddy. This directory holds TLA+ models of
the parts in which several processes share state, the TLC configurations that
check them, and TLAPS proofs of the invariants that matter most. Line numbers
in `PROJECT.json` refer to the sources under `src/`.

## 1. The system

| Part | State | Operations | Talks to |
|---|---|---|---|
| Node registry (`nodes/repository.go`) | `nodes` table: one gateway row, server and client rows; peers, DNS servers and certificate bundle in the gateway row | `CreateGateway`, `CreateServer`, `CreateClient`, `updateNodes`, `SaveNode`, `DeleteServer`, allocators, capacity counters, labels | every handler |
| Join requests (`joinrequests/repository.go`) | `join_requests` table | `Create`, `Get`, `Delete`, counters | join handler, server new, client new |
| Join handler (`commands/routes.go`) | a copy of the gateway row | creates the node, writes files, saves the row, deletes the request, answers | registry, files, restart scheduler |
| Public services (`publicservices`, `commands/local_service.go`) | `public_services` table, Caddyfile, the configuration Caddy runs | publish, unpublish, params new, params remove | Caddy |
| Gateway start (`commands/local_gateway.go`, `entry.sh`, runit) | how far the container has started | configure pass, control server, files | registry, services |
| Server agent (`commands/local_server.go`) | its list of services and labels | reconcile every 30 s | gateway API, Docker |
| Join of a server (`joinrequests/api.go`, `commands/service.go`, `commands/local_join.go`) | token, own row, docker network | attempts with backoff, save, network, files, clean-up | join handler |
| Restart scheduler (`networkapps/service.go`) | a channel of one, a flag, a goroutine | schedule, receive, restart | join handler |
| Labels and docker socket (`nodes/repository.go`, `dockersocket`) | labels in the row and on the server, the socat service of runit | label add, label remove, refresh, publish, unpublish | server agent, runit |
| Lifecycle (`ssh/service.go`, `commands/local_gateway.go`, `commands/local_server.go`, `dockerutils`) | containers and data on two hosts, docker network, role of the operator's machine | gateway and server up, down, upgrade | SSH, Docker, gateway API |
| mTLS, AES, parsing, command line, logging | - | keys; text | - |

The hard behaviour comes from five sources. The control server runs every HTTP
request in a goroutine of its own, and `docker exec wireport ...` runs further
processes on the same SQLite file, so handlers interleave between any two
database statements. Handlers read a row or a list, keep it, and write it, or
a file made from it, some steps later. The container and the handlers can end
between any two steps, while the tables and files stay. A server joins
over a network that loses answers. And the operator's commands are chains of
steps on several machines, some of which hide their failure, beside an agent
and a process supervisor that go on at their own pace.

What makes each part correct: addresses, subnets and routes are never given
out twice; a node that has its configuration is connected; every request that
was let in can be served; a change of the services table is one command on one
row; Caddy ends up with what the table says; publications follow labels;
no request for a restart gets lost; a token is neither lost too early nor
usable too late; labels add up, and the docker socket is open only by its label;
a teardown removes what it says, and a failed server can be taken down and put
up again. The `hazards` of `PROJECT.json` list where each could go wrong.

## 2. Modules

| Module | Models | Checked by | Proofs |
|---|---|---|---|
| `Registry` | node registry, join requests, join handler, server new, client new, gateway start | `MCRegistry` | `RegistryProofs`, `RegistrySequentialProofs` |
| `ServiceCatalogue` | abstract: the services table as a map changed by one command at a time | refined by `Services` | `ServicesProofs` |
| `Services` | services table, Caddyfile, Caddy, gateway start | `MCServices` | `ServicesProofs` |
| `Reconcile` | `Services` with server agents, labels and clients | `MCReconcile` | `ReconcileProofs` |
| `NetworkApps` | the delayed restart of CoreDNS and Caddy | `MCNetworkApps` | `NetworkAppsProofs` |
| `JoinProtocol` | the join of one server, with retries and leftover handlers | `MCJoinProtocol` | `JoinProtocolProofs` |
| `SocketSwitch` | abstract: the docker socket as a switch that a server looks at | refined by `DockerSocket` | `DockerSocketProofs` |
| `DockerSocket` | label transactions, the refresh of the agent, the socat service under runit | `MCDockerSocket` | `DockerSocketProofs` |
| `Lifecycle` | gateway and server up, down and upgrade over SSH, with the agent, the docker network and reboots | `MCLifecycle` | `LifecycleProofs` |

Three modules look at the join: `Registry` from the tables of the gateway with
every handler at once, `JoinProtocol` from one server and its attempts, and
`Lifecycle`, where it is one step among the commands of the operator.

### Registry

`nodes`, `gateway` and `requests` are the tables; `wgFile` is what the last
`SaveConfigs` wrote. Keys and certificates are named by the identifier of
their node or request. A *worker* is an HTTP handler or a process in the
container; `pc` is its next step and `loc` its local variables, among them its
copy of the gateway row (`loc[w].gw`). A write transaction is one step, because
`sqliteDSNImmediate` opens it with `BEGIN IMMEDIATE`; everything between two
database calls may interleave. The steps of a join are

    JoinStart -> CreateNode -> UpdateNodes -> ReadGateway -> SaveConfigs -> SaveJoined -> DeleteRequest

and those of the commands are similar. `server new` and `client new` first make
their capacity checks, and every count is a read of its own:

    ServerNew -> CountServerJoinRequests -> CountWireguardClients -> CountAllRequests -> CheckForcedSubnet

Addresses are `1 .. LastIP`. A docker subnet stands for the *text* that
`IPNetMarshable` prints, because `IsDockerSubnetAvailable` and
`GetNextAssignableDockerSubnet` compare these texts. The pool is `1 .. PoolSize`,
whose members are apart. `Forceable` are the texts an operator may give to
`--docker-subnet`: `ParseIPNetMarshable` keeps host bits and takes any mask, so such a
text may be one of the pool, another spelling of one, a part of one or something
else. `Covers` are the addresses of a text; the code never looks at them, only the
properties do. `Abort` ends one handler early, `Crash` restarts the container; both
are bounded by `MaxFaults`. Configuration text, keys and the TLS handshake are left
out.

### Services and ServiceCatalogue

The table maps a public address (protocol, host, port) to a publication (local
address, publisher, directives). `Save`, `AddParam` and `RemoveParam` are a
lookup followed by a write in another step, as in the repository. A command then
lists the services, writes the Caddyfile, reloads Caddy and reports. The
Caddyfile is the set of entries that `AsCaddyConfigEntry` produces, with the
listener (the host is dropped for layer 4 services and for plain http on
another port of an IP address) and the upstream; `EntryFails` are the cases in
which it returns an error. `SaveConfigs` drops that error and keeps the old file;
`gateway start` insists on a file and ends, and runit starts it again. Joins
appear as commands that write the file and, for a server, schedule a restart.
Caddy itself is external: it takes every file except that it may refuse two
entries on one listener. `settled` and `loc[w].alone` are history variables.

`CatalogueSpec` is the refinement: `table` implements the variable of
`ServiceCatalogue`, and every other variable is a detail.

### Reconcile

Extends `Services`. An agent fetches the list, reads the labels of its
containers in a later step, computes what to unpublish and what to publish,
and sends one request after the other; each request is a command of `Services`
with the agent as its worker. `SetLabels` is the operator who recreates a
container, with another pair of labels or without any. A client publishes by hand at
any time, on addresses that labels may name, too. `GiveUp` is the agent's HTTP client,
which waits a minute for an answer: the agent goes on, and the handler goes on as
another worker. `named` is a history variable: the public addresses that the valid
labels of a server (whose local host is the container itself) have named so far.
`Claimants` are the servers whose labels name one public address now.

### NetworkApps

`Once`, `Send` and the goroutine of `ScheduleNetworkAppsRestart`, one step for
each operation on the channel, the flag and the applications. `unseen` is a
history variable: the handlers whose configuration CoreDNS has not been
restarted for. `HandlerFails` is the early return of the join handler between
the files and the request for a restart. All of the scheduler lives in memory:
`ProcessEnds` is the gateway process that runit starts again, which drops a
pending restart while CoreDNS runs on with its old file (`dropped`), and
`ContainerRestarts` starts CoreDNS too.

### JoinProtocol

One server and one join request. The agent posts, waits, backs off, and pauses
between calls of `Join`. Every attempt occupies a handler of the gateway which
goes on when the agent gives up. A row is a number, in the order of creation.
`Restart` models the container of the server; `entry.sh` stores its token again.

### DockerSocket and SocketSwitch

On the gateway, a *writer* is a label command, which finds the server and then
reads and writes its row in a transaction, or the `updateNodes` of a join, which
writes the whole row. `lock` is the write lock that `BEGIN IMMEDIATE` takes before
the read. `asked` is a history variable: the labels to which the committed
commands amount. On the server, the agent fetches the row, stores the labels and
runs `ReconcileWithLabels`; the scripts `publish/docker-socket.hbs` and
`unpublish/docker-socket.hbs` are one step for each command that runit can
observe: the move of the directory, `sv up` or `sv down`, `pkill`. `Scan` is
`runsvdir`, which finds a directory that came or went only later; `RunsvStarts`
starts the run script, which becomes socat when `wg0` has an address
(`ExecSocat`). That a script gives up is only logged, so it is not a state.

`ImplementsSwitch` is the refinement. The switch is the label in the row (`set`,
`unset`, or `gone` with the row), `seen` is what the last answer said, and the phase is
`on` when socat runs, `off` when the service is neither in its directory nor
supervised, and `armed` in between. The switch has one way out of `off`: after a
look that found the label. Its liveness is part of it: a label that stays set, or
unset, is followed.

### Lifecycle

One operator, one gateway host, one server host. `cmd` is the command that runs
and its next step; `report` is what the operator is told. A container is absent,
running or stopped; its data outlive it (`gateway.data`, `disk`), and so does the
docker network. `gateway.knows` says that the gateway's root certificate is the one
that the operator's certificate comes from. Join requests are numbered, and the
row of a server has the number of its request; `disk.token` and `disk.node` are
the server's own token and row. The steps of `down/*.hbs` and `upgrade/*.hbs` follow
one another as in the `&&` chains. A failure is either reported (`SshFails`, and
the guards that end a command as `failed`), printed and passed over
(`NetworkStays`, `DeregisterFails`), or hidden by `|| true`
(`GatewayChainStops`, `ServerChainStops`), after which the command is reported as
completed. The `finish` scripts kill every process called wireport, the one that
runs `server down` included; that is one of the ways in which a chain stops.
`sv down` does not wait for the agent to end, so `DetachDockerNetwork` may come
while the agent still joins or is in a round. That is an ordinary step, and no
fault; `races` counts how often it happened. A join takes a docker network that is
left on the host as it is: `subnet` says whether it has the subnet of the node that
joined last or another one, and `SubnetOnJoin` leaves that open for a leftover network.
A server serves (`Serving`) when its agent runs, the gateway has its row and the
containers are on a network with its own subnet. `Recover` is the operator who, once the free commands are used up, does what
README.md says: down and up again while the server does not get there by itself.

## 3. Runs

| Run | Instance | Shows |
|---|---|---|
| `registry_concurrent` | 2 workers, 4 identifiers, 3 addresses, two texts to force (a pool subnet and another spelling of it), 1 fault | `TypeOK`, `UniqueAddresses`, `UniqueSubnets`, `NoSharedRoutes` |
| `registry_sequential` | 1 worker, 5 identifiers, 4 addresses, three texts to force (the two, and half of a pool subnet), 2 faults | `HandedIsConnected`, `CertsKept`, `PendingJoinsFit` |
| `registry_lost_update` | 2 workers | violated: `NoLostUpdate` |
| `services_restart` | 1 worker, one address that cannot be rendered, a directive, 2 faults | `TypeOK`, `UndisturbedIsServed`, `ControlReturns`, `CatalogueSpec` |
| `reconcile_converge` | an agent and a client that share an address, labels that move between two addresses on one listener, requests given up on | `ReconcileTypeOK`, `UndisturbedIsServed`, `LabelsConverge`, `UnlabelledConverge`, `ForeignOnlyWhereNamed`, `CatalogueSpec` |
| `reconcile_contest` | two agents that may claim one address, a valid and an invalid pair of labels, 1 fault | `ContestedServed`, `UnlabelledConverge` |
| `reconcile_changed` | one agent, labels that move between two addresses | violated: `ChangedLabelsApplied` |
| `restart_scheduler` | 3 joins at a time, 2 faults | `TypeOK`, `NoRestartLost`, `NeverSkips`, `PicksUp`, `NextJoinHeals` |
| `join_retry` | 3 handlers, 2 attempts a call, 3 faults | `TypeOK`, `TokenUntilStored`, `TokenIsSpent`, `ExtraRowsNeedFaults`, `RequestIsUsed` |
| `join_stuck` | 1 fault | violated: `RetriesJoin` |
| `agent_socket` | 2 labels, 2 writers, 2 faults | `TypeOK`, `NoLabelLost`, `ImplementsSwitch` |
| `lifecycle` | 6 commands at will, 2 faults, 2 server downs that overtake the agent | `TypeOK`, `CleanDown`, `JoinedReport`, `OrphansNeedFaults`, `LockoutNeedsFault`, `GatewayDownSparesServers`, `RecoveryWorks` |

*Bounds.* Two workers are enough for every pair of steps to interleave, and a
lost update needs no third. Three addresses leave room for the gateway and two
nodes, so that the pool runs out, an address of a removed server is used again,
and `CreateRefused` happens; four addresses and five identifiers in the
sequential run fill the network with requests and nodes. One or two faults
cover a failure followed by a failure during the recovery. Identifiers never
run out in the code; `Start` keeps commands from beginning without one. A second
label in `agent_socket` lets one command disturb the label of another. Six commands
are enough for gateway up, server up, gateway down over the server, server down and
up again; two faults and two overtaken agents let a second failure meet what the
first has left. The two commands at a time that the services need are in
`reconcile_converge`, an agent's and a client's; it has no faults, which would take it
beyond a few minutes, and no directives, for which `CatalogueSpec` fails (below). In
`reconcile_contest` every worker is an agent, so no request outlives its agent there,
and in exchange there is a fault. Deadlock is not checked for `Registry`,
where the last identifier ends the model, nor for `Lifecycle`, where an operator who
is locked out or has nothing to recover stops; the other models never stop.

*Fairness.* Weak fairness of the steps of a command, handler or goroutine that
has begun: the Go scheduler runs them and none waits on another one. Weak
fairness of gateway start: runit starts it again. Weak fairness of the agents:
an endless loop with a pause. In `DockerSocket`, weak fairness of a transaction
that holds the lock, of `runsvdir`, `runsv` and of WireGuard. In `Lifecycle`, weak
fairness of the steps of a command and of the agent, and of the operator: the README
tells the operator to take a failed server down and up again, and the property is about one who
does. Clients, label commands, faults and new joins are never fair. The delays of 10
and 30 seconds are not measured.

*What the passing runs say.* With concurrent handlers the allocation of
addresses, subnets and routes is safe. The certificates and peers are only safe
when the gateway serves one command at a time. `PendingJoinsFit` is about a run
without faults: a join that fails after it created its node leaves both the node
and the request. `UndisturbedIsServed` is the strongest statement about Caddy
that concurrency leaves: a command that overlaps another one may reload a file
made from an older list; nor does it say anything about a publication that failed
after its row, or about tables with two services on one listener.
`UniqueSubnets` and `NoSharedRoutes` are about what is printed: two servers never get
the same text, and the addresses behind two texts overlap only if one was forced and
is none of the pool. `LabelsConverge` says that a container whose labels stay ends up
published at an address which its labels name or have named, once nobody else uses
these addresses. `ForeignOnlyWhereNamed` is what the code keeps of the promise that
publications of clients are left alone: an agent touches them only at addresses that
valid labels of its server name or have named. With two claims on one address nobody
wins for good, but `ContestedServed` says that one of them always has it in the end.
A dropped restart is made good by the next join (`NextJoinHeals`) and by nothing
else. `CleanDown` is about a server down that met no fault: one that overtakes the
agent may leave the docker network, and nothing else. With faults or overtaken joins,
`OrphansNeedFaults` bounds the rows that stay, and `RecoveryWorks` says that down and
up again get the server to serve, on a docker network with its own subnet, from every
state in which the gateway answers and no stopped container is left. `LockoutNeedsFault`
and `JoinedReport` say that there is no other way into the states they are about than
the failures and the wiped container that they except. `GatewayDownSparesServers` allows for what the code
leaves open: a server that joins between the count and the wipe, on a request that
was out when the servers were counted.

*What the violations say.* Each refutes a sentence of the repository, quoted
in `findings`: the whole-row `SaveNode` drops certificates; a join whose answer is
lost is refused for ever; labels that are moved to another public address are never
applied, because a container counts as published as soon as any row of its node has
it as local host.

Further limits were met while modelling, and shape the instances and premises above:

* With two commands on directives at a time `CatalogueSpec` fails: `AddParam` writes
  back the whole row it read, and brings back a row deleted in between.
* README.md says that "publications created manually from a CLIENT are left
  unchanged". At an address which a valid label of the server names, the agent replaces
  the publication of a client; and because requests name only the public address, an
  agent whose list has grown stale deletes one that a client has made since. This is
  why `ForeignOnlyWhereNamed` has its second disjunct.
* `--docker-subnet 172.20.0.1/16` or `172.20.0.0/17` is accepted although a server has
  `172.20.0.0/16`: the texts differ, and the routes of the two servers overlap. This is
  why `Apart` is about the addresses of pool subnets only.
* When a publication fails after its row was written, the agent finds the row and
  never repeats the reload of Caddy.
* https on an IP address, which the command line accepts, cannot be rendered; it is
  reported as published and keeps the Caddyfile from being written.
* `DeleteServer` does not regenerate the peers: a removed server stays a peer of
  the gateway until the next join.
* `server up` on a host whose container was wiped and not removed finds the old
  configuration files and reports a server that joined (the exception in
  `JoinedReport`). A container that was stopped and not removed blocks `up`, and
  `down` does not see it (the premise of `RecoveryWorks`).
* A docker network that `server down` leaves behind keeps its subnet, and the next join
  reuses it and succeeds: the containers then have addresses that the gateway does
  not route to this server, until it is taken down and up once more.
* `gateway up` does not look at the result of the operator's own join, and
  `gateway down` resets the operator's machine even when its chain has stopped
  early; either leaves a gateway that its operator has no access to
  (`LockoutNeedsFault`).

## 4. Proofs

TLAPS checks these for every value of the constants that satisfies the named
assumptions (`RegistryAssumption`, `ServicesAssumption`, `NoneAssumption`,
`ReconcileAssumption`, `NetworkAppsAssumption`, `JoinAssumption`, `SocketAssumption`,
`LifecycleAssumption`), so for any number of handlers, nodes, addresses, labels,
attempts, commands and faults. Every safety property of a passing run is a theorem.
Each proof is an inductive invariant, which TLC checked first; below is what it
adds to the property, and why.

| Module | Theorems, with the property of a run that each one states |
|---|---|
| `RegistryProofs` | `RegistryTypes` (`TypeOK`), `AddressesAreUnique` (`UniqueAddresses`), `SubnetsAreUnique` (`UniqueSubnets`), `RoutesAreNotShared` (`NoSharedRoutes`) |
| `RegistrySequentialProofs` | `HandedAreConnected` (`HandedIsConnected`), `CertificatesAreKept` (`CertsKept`), `JoinsFit` (`PendingJoinsFit`) |
| `ServicesProofs` | `TypesAreKept` (`TypeOK`), `SettledIsServed` (`UndisturbedIsServed`), `TableIsCatalogue` (`CatalogueSpec`) |
| `ReconcileProofs` | `ReconcileTypes` (`ReconcileTypeOK`), `AgentsAreServed` (`UndisturbedIsServed`), `ForeignChangedOnlyWhereNamed` (`ForeignOnlyWhereNamed`), `TableIsCatalogueBesideAgents` (`CatalogueSpec`) |
| `NetworkAppsProofs` | `SchedulerTypes` (`TypeOK`), `RestartsAreNotLost` (`NoRestartLost`), `SignalsAreNotSkipped` (`NeverSkips`) |
| `JoinProtocolProofs` | `TypesAreKept` (`TypeOK`), `TokensAreKept` (`TokenUntilStored`), `TokensAreSpent` (`TokenIsSpent`), `ExtraRowsArePaid` (`ExtraRowsNeedFaults`) |
| `DockerSocketProofs` | `TypesAreKept` (`TypeOK`), `NoLabelIsLost` (`NoLabelLost`), `ImplementsSwitchSafety` (the safety of `ImplementsSwitch`) |
| `LifecycleProofs` | `TypesAreKept` (`TypeOK`), `DownIsClean` (`CleanDown`), `JoinedIsTrue` (`JoinedReport`), `OrphansArePaid` (`OrphansNeedFaults`), `NoLockoutWithoutFault` (`LockoutNeedsFault`), `ServersAreSpared` (`GatewayDownSparesServers`) |

* `RegistryProofs`, any number of handlers at a time. The inductive invariant is
  `TypeInv /\ RegistryInv`. `TypeInv` adds `LocalsSet`, which local variables are set
  at which step, because a handler answers with the row of `loc[w].node`.
  `RegistryInv` adds `ClientsHaveNoSubnet`, needed for routes; `CopiesDistinct`,
  because `SaveNode` and `SaveConfigs` write a copy that may be old: every copy must
  itself be a snapshot without shared routes; and `CopyAddress`, because writing a
  copy back must not change the address of the gateway. `GeneratedDistinct` is the
  heart: peers made from rows with unique addresses and subnets that are `Apart` share
  no route. Nothing is assumed of the texts that may be forced; of the pool, that its
  members have no address in common (`RegistryAssumption`), from which `TextsApart`
  concludes that different texts are `Apart`.
* `RegistrySequentialProofs`, under `OneAtATime` (there is one worker), without which
  TLC refutes `CertsKept` (`registry_lost_update`). `CopyFresh` says that the copy
  which a handler may write back is the row of the database. `NodeMade` follows the
  node of a handler from its row to the peers and to the file; `TablesIssued` and
  `LocalsIssued` keep nodes and requests apart, so that `SaveJoined` removes no
  certificate of a node; `Connected` is `HandedIsConnected` without its premise
  `boot = "up"`, and with the row. `JoinsFit` counts: `Room` says that the requests
  that wait, the rows, the gateway and the handler that has passed the capacity checks
  (`Admitted`) fit into the addresses and into the pool. `Checked` says that
  there is still room for what a handler has counted, since between two of its checks
  only servers leave. A check that passes keeps one
  place (`FitsAdmit`), a request or a row comes into it (`FitsRequest`, `FitsNode`), and
  a join exchanges its request for its row (`FitsJoin`, which needs `JoinHasRequest`).
* `ServicesProofs`. The invariant adds `CommandFits` (a handler only reaches the
  steps of its own command), `AloneIsFresh` (the list and the file of a command that
  nothing overlapped are the table) and `SettledIsFresh` (from then until the table
  changes, whoever lists or writes does so from that table, gateway start included).
  It is proved for `RequestNext`, which allows the unchecked publications of agents
  too. `TableIsCatalogue` is the refinement of `ServiceCatalogue`, under `NoRace`: no
  directives, or one command at a time. Both disjuncts are instances of the runs, and
  TLC refutes the refinement without them. It needs `StoreFresh`: a row that is about
  to be stored with other directives is the row that was read. `NoneAssumption` says
  that the model value `None`, a Caddyfile that is not there, is no set of entries.
* `ReconcileProofs`. Every step of `ReconcileSpec` is one of `RequestNext` or leaves the
  gateway alone, so the invariant of `Services` holds beside the agents.
  The one exception is `GiveUp`, which hands a command to another worker; the invariant
  does not depend on who runs a command (`GiveUpInv`).
  `ForeignChangedOnlyWhereNamed` is about any number of servers and clients and has no
  hypothesis on their addresses. `NamedInv` follows an address from the labels
  (`LabelsNamed`) to the request (`RequestsNamed`), the row (`RowsNamed`) and the list that
  the agent makes of the rows (`ListsNamed`), and back to a request. It also shows
  that no command on directives is under way, which is what
  `TableIsCatalogueBesideAgents` needs in place of `NoRace`.
* `NetworkAppsProofs`. The invariant adds that a handler about to send has
  started the goroutine (`SendersStarted`), that only a started goroutine is away
  from its channel (`OnlyStartedRuns`), and that the flag is set only between check
  and clear (`FlagFollowsGoroutine`). A dropped request is safe because the channel
  is full at that moment. A process that ends takes all of this back to its initial
  values (`FreshInv`), and every configuration not yet read becomes a dropped one.
* `JoinProtocolProofs`. The invariant follows the row from the handler that created it
  to the answer and the database of the server: a handler that responds and an answer
  that is held imply that the request is gone (`RowsKnown`, `AnswersSpent`,
  `AnswerToSave`, `JoinedHasRow`). `ExtraRowsArePaid` keeps an account (`Paid`): the
  rows, the handlers that may still create one and the attempt that may still be made
  are together at most one more than the faults.
* `DockerSocketProofs`. `LockHeld`: whoever is about to write holds the lock, the row
  is there, and what was read is still the row. `ScriptForLabel` and `RunsvForProcess`
  are what the steps of the switch need: the publish script only runs for a look that
  found the label, and a process of the service has a `runsv`. The mapping is
  the one of `ImplementsSwitch`; `Switch!Safety` is its specification without the two
  liveness conjuncts.
* `LifecycleProofs`. `DownSoFar` says what an undisturbed `server down` has done before
  each of its steps, and what one that has not overtaken the agent has done besides; `FilesNeedNode` what the files that `server up` looks for stand
  for; `Counted` that only requests that were out can become rows between the count and
  the wipe; `EmptyHasNone` where a machine without access can have a gateway.
  `OrphansNeedFaults` is not inductive: a row can be bound to lose its server
  before it does, as when the gateway is out of reach or the data are about to be
  wiped. `OrphansPaid` counts such a row (`Doomed`) already.

Only model-checked is liveness, which needs fairness and `ENABLED` and is out of the
prover's reach: `PicksUp`, `NextJoinHeals`, `RequestIsUsed`, `ControlReturns`,
`LabelsConverge`, `UnlabelledConverge`, `ContestedServed`, `RecoveryWorks` and the two
liveness conjuncts of `ImplementsSwitch`. The three properties that TLC refutes have no
theorem.

## 5. Not modelled

Cryptography (AES, key and certificate generation, the TLS handshake): its code has no
state of its own, and the models use only who holds which certificate. The text of
configuration files and the pure functions on addresses and strings: of a docker subnet
the models have the text that is printed and the addresses it covers, of every other
address the record of its parts. The status and list commands, which only read. Schema
migration and the repair of labels that are not JSON in old databases. Command line
parsing, prompts, logging, version. Single containers on the docker network: the
network as a whole is absent, empty or attached. Two operators at a time: `Lifecycle`
has one, and what concurrent requests do to the tables is in `Registry`. SQLite itself:
that `BEGIN IMMEDIATE` serialises write transactions is taken from its use in
`database/service.go`.

## 6. Plan

The system's own state is modelled, and the safety properties of all runs are
proved. What is left:

1. The enabling side of the liveness properties as invariants, so that less rests on
   small instances: in `Services`, that a command under way always has a step; in
   `DockerSocket`, that the lock is always given back.
2. `HandedIsConnected` for handlers that overlap without writing a row back, in place
   of `OneAtATime`.
