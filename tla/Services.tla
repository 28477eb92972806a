------------------------------ MODULE Services ------------------------------
(***************************************************************************)
(* Public services on the gateway: the public_services table, the          *)
(* Caddyfile generated from it and the configuration that Caddy runs.      *)
(* Commands arrive as HTTP requests to the control server and as command   *)
(* line processes in the container; a worker stands for one of either.     *)
(* A database statement, the writing of the Caddyfile and a reload of      *)
(* Caddy are one step each; everything between them may interleave.        *)
(***************************************************************************)
EXTENDS Naturals, FiniteSets

CONSTANTS
    Keys,       \* public addresses: [protocol, host, port]
    Locals,     \* local addresses: [protocol, host, port]
    Nodes,      \* nodes that publish
    Params,     \* Caddy directives a publication may carry
    None,       \* no value; also no Caddyfile, and Caddy not running
    IPHosts,    \* hosts that are IP addresses
    GatewayIP,  \* the gateway's public IP address
    AnyHost,    \* 0.0.0.0
    Workers,    \* commands that run at the same time
    Console,    \* the workers that run in the container, without the control server
    MaxFaults   \* bound on commands that end early and on container restarts

ASSUME ServicesAssumption ==
    /\ AnyHost \in IPHosts
    /\ Console \subseteq Workers
    /\ MaxFaults \in Nat

VARIABLES
    table,      \* the public_services table
    caddyfile,  \* entries of the Caddyfile
    running,    \* entries of the configuration that Caddy runs
    control,    \* how far the gateway process has started
    listed,     \* services that the gateway process read when it started
    pc, loc,    \* per worker: the next step and the handler's local variables
    scheduled,  \* a delayed restart of Caddy is due (see NetworkApps)
    settled,    \* history: the last change of the table was made by a command
                \* that nothing overlapped and that reported success
    faults      \* faults so far

vars == <<table, caddyfile, running, control, listed, pc, loc, scheduled, settled, faults>>

Catalogue == INSTANCE ServiceCatalogue
               WITH Keys <- Keys, Locals <- Locals, Nodes <- Nodes, Params <- Params, None <- None,
                    table <- table

Publication == Catalogue!Publication
NoPublication == Catalogue!NoPublication
Table == Catalogue!Table
EmptyTable == Catalogue!EmptyTable
Published(t) == Catalogue!Published(t)

-----------------------------------------------------------------------------
(* Rendering *)

(* The address Caddy listens on.  Layer 4 services and plain http on an IP  *)
(* address with a port of its own listen on every interface: their host is  *)
(* dropped.                                                                 *)
Listener(k) ==
    IF \/ k.protocol \in {"tcp", "udp"}
       \/ k.host = GatewayIP
       \/ k.protocol = "http" /\ k.host \in IPHosts /\ k.port # 80
    THEN [k EXCEPT !.host = AnyHost]
    ELSE k

Upstream(l) == IF l.host = GatewayIP THEN [l EXCEPT !.host = AnyHost] ELSE l

AsCaddyConfigEntry(k, s) ==
    [listen |-> Listener(k), upstream |-> Upstream(s.local), params |-> s.params]

(* The cases in which AsCaddyConfigEntry returns an error.  The gateway's   *)
(* own address has become 0.0.0.0 when https looks for an IP address.       *)
EntryFails(k, s) ==
    \/ s.local.protocol = "udp" /\ k.protocol = "tcp"
    \/ s.local.protocol = "tcp" /\ k.protocol = "udp"
    \/ "" \in {s.local.host, k.host}
    \/ k.protocol = "https" /\ Listener(k).host \in IPHosts

(* GetFormattedCaddyConfig: one failing entry fails the whole file.         *)
Renderable(t) == \A k \in Published(t) : ~EntryFails(k, t[k])
Rendered(t) == {AsCaddyConfigEntry(k, t[k]) : k \in Published(t)}

(* Two publications on one listener: Caddy may refuse the file.             *)
Distinct(t) == \A j, k \in Published(t) : Listener(j) = Listener(k) => j = k
Unambiguous(entries) ==
    \A e, f \in entries : e.listen = f.listen => e = f

Entry == {AsCaddyConfigEntry(k, s) : k \in Keys, s \in Publication}

(* No Caddyfile is not one without entries.                                 *)
ASSUME NoneAssumption == \A entries \in SUBSET Entry : entries # None

-----------------------------------------------------------------------------
(* Commands *)

NoCommand == [op |-> "none", key |-> None, local |-> None, by |-> None, param |-> None]

(* wireport service publish refuses a layer 4 service whose public protocol *)
(* is another one; the publications of a server agent are not checked.      *)
CommandLineAccepts(k, l) == l.protocol \in {"tcp", "udp"} => k.protocol = l.protocol

Publications ==
    {[op |-> "publish", key |-> k, local |-> l, by |-> n, param |-> None] :
        k \in Keys, l \in Locals, n \in Nodes}
(* The request names the public address only; "by" tells who sent it.       *)
Unpublications ==
    {[op |-> "unpublish", key |-> k, local |-> None, by |-> n, param |-> None] :
        k \in Keys, n \in Nodes}
ParamCommands ==
    {[op |-> op, key |-> k, local |-> None, by |-> None, param |-> p] :
        op \in {"paramNew", "paramRemove"}, k \in Keys, p \in Params}

(* The handlers that write the configuration files without a change of the  *)
(* table: joins of servers, and of clients with client new beside them.     *)
Joins == {[NoCommand EXCEPT !.op = op] : op \in {"joinServer", "joinClient"}}

Commands ==
    {c \in Publications : CommandLineAccepts(c.key, c.local)}
        \cup Unpublications \cup ParamCommands \cup Joins

(* Local variables of a handler: the command, the row that AddParam and     *)
(* RemoveParam read, the list of services GetAll returned, and (history)    *)
(* whether nothing has overlapped the command.                              *)
Local == [command: UNION {Publications, Unpublications, ParamCommands, Joins, {NoCommand}},
          row: Publication \cup {NoPublication}, list: Table, alone: BOOLEAN]
NoLocal == [command |-> NoCommand, row |-> NoPublication, list |-> EmptyTable,
            alone |-> FALSE]

Label == {"idle", "find", "create", "update", "delete", "store", "list", "configs",
          "restart", "report"}

TypeOK ==
    /\ table \in Table
    /\ caddyfile \in (SUBSET Entry) \cup {None}
    /\ running \in (SUBSET Entry) \cup {None}
    /\ control \in {"down", "configuring", "configured", "starting", "up"}
    /\ listed \in Table
    /\ pc \in [Workers -> Label]
    /\ loc \in [Workers -> Local]
    /\ scheduled \in BOOLEAN
    /\ settled \in BOOLEAN
    /\ faults \in 0 .. MaxFaults

-----------------------------------------------------------------------------
Goto(w, label) == pc' = [pc EXCEPT ![w] = label]
Finish(w) ==
    /\ pc' = [pc EXCEPT ![w] = "idle"]
    /\ loc' = [loc EXCEPT ![w] = NoLocal]

Quiet == \A w \in Workers : pc[w] = "idle"

(* The control server answers while gateway start runs; a command in the    *)
(* container only needs the container.                                      *)
Reachable(w) == control \in {"starting", "up"} \/ (w \in Console /\ control # "down")

FirstLabel(op) ==
    CASE op \in {"joinServer", "joinClient"} -> "list"
      [] op = "unpublish" -> "delete"
      [] OTHER -> "find"

Start(w, c) ==
    /\ pc[w] = "idle"
    /\ Reachable(w)
    /\ Goto(w, FirstLabel(c.op))
    /\ loc' = [v \in Workers |->
                  IF v = w
                  THEN [NoLocal EXCEPT !.command = c,
                                       !.alone = Quiet /\ control \in {"configured", "up"}]
                  ELSE [loc[v] EXCEPT !.alone = FALSE]]
    /\ UNCHANGED <<table, caddyfile, running, control, listed, settled, faults, scheduled>>

(* Write one row of the table, then list the services.                      *)
Write(w, row) ==
    /\ table' = [table EXCEPT ![loc[w].command.key] = row]
    /\ settled' = FALSE
    /\ Goto(w, "list")

-----------------------------------------------------------------------------
(* service publish: Repository.Save *)

PublishFind(w) ==
    /\ pc[w] = "find"
    /\ loc[w].command.op = "publish"
    /\ Goto(w, IF loc[w].command.key \in Published(table) THEN "update" ELSE "create")
    /\ UNCHANGED <<table, caddyfile, running, control, listed, loc, settled, faults, scheduled>>

(* Mistaken variant: the publisher is not recorded. *)
NewPublicationAnonymous(w) == [local |-> loc[w].command.local, by |-> None, params |-> {}]

(* The row that ServicePublish makes: it has no directives.                 *)
NewPublication(w) ==
    [local |-> loc[w].command.local, by |-> loc[w].command.by, params |-> {}]

(* Create fails when another command has inserted the row since.            *)
PublishCreate(w) ==
    /\ pc[w] = "create"
    /\ \/ /\ loc[w].command.key \notin Published(table)
          /\ Write(w, NewPublication(w))
          /\ UNCHANGED loc
       \/ /\ loc[w].command.key \in Published(table)
          /\ Finish(w)
          /\ UNCHANGED <<table, settled>>
    /\ UNCHANGED <<caddyfile, running, control, listed, faults, scheduled>>

(* gorm's Save updates the row, or inserts it when it is gone.              *)
PublishUpdate(w) ==
    /\ pc[w] = "update"
    /\ Write(w, NewPublication(w))
    /\ UNCHANGED <<caddyfile, running, control, listed, loc, faults, scheduled>>

-----------------------------------------------------------------------------
(* service unpublish *)

(* Mistaken variant: the host is not part of the condition. *)
DeleteOnEveryHost(w) ==
    /\ pc[w] = "delete"
    /\ \/ /\ loc[w].command.key \in Published(table)
          /\ table' = [k \in Keys |->
                          IF /\ k.protocol = loc[w].command.key.protocol
                             /\ k.port = loc[w].command.key.port
                          THEN NoPublication
                          ELSE table[k]]
          /\ settled' = FALSE
          /\ Goto(w, "list")
          /\ UNCHANGED loc
       \/ /\ loc[w].command.key \notin Published(table)
          /\ Finish(w)
          /\ UNCHANGED <<table, settled>>
    /\ UNCHANGED <<caddyfile, running, control, listed, faults, scheduled>>

Delete(w) ==
    /\ pc[w] = "delete"
    /\ \/ /\ loc[w].command.key \in Published(table)
          /\ Write(w, NoPublication)
          /\ UNCHANGED loc
       \/ /\ loc[w].command.key \notin Published(table)
          /\ Finish(w)
          /\ UNCHANGED <<table, settled>>
    /\ UNCHANGED <<caddyfile, running, control, listed, faults, scheduled>>

-----------------------------------------------------------------------------
(* service params new and service params remove: AddParam and RemoveParam   *)
(* read the row, and save the whole row in a statement of its own.          *)

ParamChanges(c, row) ==
    \/ c.op = "paramNew" /\ c.param \notin row.params
    \/ c.op = "paramRemove" /\ c.param \in row.params

(* Mistaken variant: a row that is not there is taken for an empty one. *)
ParamFindUnchecked(w) ==
    LET c == loc[w].command IN
    /\ pc[w] = "find"
    /\ c.op \in {"paramNew", "paramRemove"}
    /\ \/ /\ ParamChanges(c, table[c.key])
          /\ loc' = [loc EXCEPT ![w].row = table[c.key]]
          /\ Goto(w, "store")
       \/ /\ ~ParamChanges(c, table[c.key])
          /\ Finish(w)
    /\ UNCHANGED <<table, caddyfile, running, control, listed, settled, faults, scheduled>>

ParamFind(w) ==
    LET c == loc[w].command IN
    /\ pc[w] = "find"
    /\ c.op \in {"paramNew", "paramRemove"}
    /\ \/ /\ c.key \in Published(table)
          /\ ParamChanges(c, table[c.key])
          /\ loc' = [loc EXCEPT ![w].row = table[c.key]]
          /\ Goto(w, "store")
       \/ /\ c.key \in Published(table) => ~ParamChanges(c, table[c.key])
          /\ Finish(w)
    /\ UNCHANGED <<table, caddyfile, running, control, listed, settled, faults, scheduled>>

ChangedParams(c, row) ==
    IF c.op = "paramNew" THEN row.params \cup {c.param} ELSE row.params \ {c.param}

ParamStore(w) ==
    /\ pc[w] = "store"
    /\ Write(w, [loc[w].row EXCEPT !.params = ChangedParams(loc[w].command, loc[w].row)])
    /\ UNCHANGED <<caddyfile, running, control, listed, loc, faults, scheduled>>

-----------------------------------------------------------------------------
(* What every command does after it has changed the table, and a join after *)
(* it has created its node: see Registry.                                   *)

(* GetGatewayNode and GetAll. *)
GetAll(w) ==
    /\ pc[w] = "list"
    /\ loc' = [loc EXCEPT ![w].list = table]
    /\ Goto(w, "configs")
    /\ UNCHANGED <<table, caddyfile, running, control, listed, settled, faults, scheduled>>

(* Mistaken variant: entries are only ever added to the file. *)
CaddyfileWithAdded(t) ==
    IF ~Renderable(t) THEN caddyfile
    ELSE IF caddyfile = None THEN Rendered(t) ELSE caddyfile \cup Rendered(t)

(* The Caddyfile that SaveConfigs leaves: the error of a service that       *)
(* cannot be rendered is dropped, and the old file stays.                   *)
CaddyfileFrom(t) == IF Renderable(t) THEN Rendered(t) ELSE caddyfile

SaveConfigs(w) ==
    /\ pc[w] = "configs"
    /\ caddyfile' = CaddyfileFrom(loc[w].list)
    /\ \/ loc[w].command \notin Joins /\ Goto(w, "restart") /\ UNCHANGED <<loc, scheduled>>
       \/ /\ loc[w].command \in Joins
          /\ Finish(w)
          /\ scheduled' = (scheduled \/ loc[w].command.op = "joinServer")
    /\ UNCHANGED <<table, running, control, listed, settled, faults>>

(* RestartNetworkApps(false, false, true): caddy reload, if there is a file. *)
RestartCaddy(w) ==
    /\ pc[w] = "restart"
    /\ \/ caddyfile = None /\ UNCHANGED running
       \/ caddyfile # None /\ running # None /\ running' = caddyfile
    /\ settled' = (settled \/ loc[w].alone)
    /\ Goto(w, "report")
    /\ UNCHANGED <<table, caddyfile, control, listed, loc, faults, scheduled>>

(* Caddy does not run, or refuses the file: the command ends with an error. *)
RestartFails(w) ==
    /\ pc[w] = "restart"
    /\ caddyfile # None
    /\ running = None \/ ~Unambiguous(caddyfile)
    /\ Finish(w)
    /\ UNCHANGED <<table, caddyfile, running, control, listed, settled, faults, scheduled>>

(* The restart that the join of a server has scheduled; it may fail too.    *)
ScheduledRestart ==
    /\ scheduled
    /\ scheduled' = FALSE
    /\ \/ running # None /\ caddyfile # None /\ running' = caddyfile
       \/ UNCHANGED running
    /\ UNCHANGED <<table, caddyfile, control, listed, pc, loc, settled, faults>>

(* The success message. *)
Report(w) ==
    /\ pc[w] = "report"
    /\ Finish(w)
    /\ UNCHANGED <<table, caddyfile, running, control, listed, settled, faults, scheduled>>

(* A handler returns early on an error of the database, the file system or  *)
(* Caddy, or its process is killed.                                         *)
Abort(w) ==
    /\ faults < MaxFaults
    /\ pc[w] \notin {"idle", "report"}
    /\ Finish(w)
    /\ faults' = faults + 1
    /\ UNCHANGED <<table, caddyfile, running, control, listed, settled, scheduled>>

-----------------------------------------------------------------------------
(* The container: entry.sh runs gateway start --configure, then runit runs  *)
(* caddy and gateway start, again and again when they end.                  *)

NobodyAlone == [w \in Workers |-> [loc[w] EXCEPT !.alone = FALSE]]

(* GatewayStart: the control server opens and GetAll is called.             *)
GatewayStart ==
    /\ \/ control = "down" /\ control' = "configuring"
       \/ control = "configured" /\ control' = "starting"
    /\ listed' = table
    /\ loc' = NobodyAlone
    /\ UNCHANGED <<table, caddyfile, running, pc, settled, faults, scheduled>>

(* SaveConfigs with configsMustExist.                                       *)
GatewaySaved ==
    /\ control \in {"configuring", "starting"}
    /\ Renderable(listed)
    /\ caddyfile' = Rendered(listed)
    /\ control' = IF control = "configuring" THEN "configured" ELSE "up"
    /\ listed' = EmptyTable
    /\ UNCHANGED <<table, running, pc, loc, settled, faults, scheduled>>

(* Mistaken variant: gateway start waits for its control server to end. *)
GatewayFailedWaits ==
    /\ control \in {"configuring", "starting"}
    /\ ~Renderable(listed)
    /\ control' = IF control = "configuring" THEN "configured" ELSE "starting"
    /\ UNCHANGED <<table, caddyfile, running, listed, pc, loc, settled, faults, scheduled>>

(* The configure pass only prints its error.  When gateway start returns,   *)
(* the finish script of its runit service kills every wireport process.     *)
GatewayFailed ==
    /\ control \in {"configuring", "starting"}
    /\ ~Renderable(listed)
    /\ control' = "configured"
    /\ listed' = EmptyTable
    /\ IF control = "starting"
       THEN /\ pc' = [w \in Workers |-> "idle"]
            /\ loc' = [w \in Workers |-> NoLocal]
            /\ scheduled' = FALSE
       ELSE UNCHANGED <<pc, loc, scheduled>>
    /\ UNCHANGED <<table, caddyfile, running, settled, faults>>

(* caddy run; it may refuse an ambiguous file and be started again.         *)
CaddyRun ==
    /\ control \in {"configured", "starting", "up"}
    /\ running = None
    /\ caddyfile # None
    /\ running' = caddyfile
    /\ UNCHANGED <<table, caddyfile, control, listed, pc, loc, settled, faults, scheduled>>

(* The container restarts; its database and its files stay.                 *)
Crash ==
    /\ faults < MaxFaults
    /\ control # "down"
    /\ control' = "down"
    /\ running' = None
    /\ listed' = EmptyTable
    /\ pc' = [w \in Workers |-> "idle"]
    /\ loc' = [w \in Workers |-> NoLocal]
    /\ scheduled' = FALSE
    /\ faults' = faults + 1
    /\ UNCHANGED <<table, caddyfile, settled>>

-----------------------------------------------------------------------------
Init ==
    /\ table = EmptyTable
    /\ caddyfile = None
    /\ running = None
    /\ control = "down"
    /\ listed = EmptyTable
    /\ pc = [w \in Workers |-> "idle"]
    /\ loc = [w \in Workers |-> NoLocal]
    /\ scheduled = FALSE
    /\ settled = FALSE
    /\ faults = 0

(* The steps of a command that is under way. *)
CommandStep(w) ==
    \/ PublishFind(w)
    \/ PublishCreate(w)
    \/ PublishUpdate(w)
    \/ Delete(w)
    \/ ParamFind(w)
    \/ ParamStore(w)
    \/ GetAll(w)
    \/ SaveConfigs(w)
    \/ RestartCaddy(w)
    \/ RestartFails(w)
    \/ Report(w)

GatewayStep == GatewayStart \/ GatewaySaved \/ GatewayFailed

Next ==
    \/ \E w \in Workers : \/ \E c \in Commands : Start(w, c)
                          \/ CommandStep(w)
                          \/ Abort(w)
    \/ ScheduledRestart
    \/ GatewayStep
    \/ CaddyRun
    \/ Crash

(* runit restarts the gateway process, and a command that has begun ends.   *)
Fairness == WF_vars(GatewayStep) /\ \A w \in Workers : WF_vars(CommandStep(w))

Spec == Init /\ [][Next]_vars /\ Fairness

-----------------------------------------------------------------------------
(* A command that reports success and that neither another command nor a    *)
(* start of the gateway overlapped leaves Caddy with exactly the services   *)
(* of the table, whatever stale files earlier commands, failures, restarts  *)
(* and services that cannot be rendered have left behind: every command     *)
(* regenerates the whole file from the table.                               *)
UndisturbedIsServed ==
    (settled /\ running # None /\ Renderable(table) /\ Distinct(table))
        => running = Rendered(table)

(* Every change of the table is one command on one publication: publish and *)
(* unpublish with any number of commands at a time, the commands on         *)
(* directives when they run one at a time.                                  *)
CatalogueSpec == Catalogue!Spec

(* Once every service can be rendered the gateway process stays up, however *)
(* often it failed to start before: its start is retried with a fresh list. *)
ControlReturns == <>[]Renderable(table) => <>[](control = "up")
=============================================================================
