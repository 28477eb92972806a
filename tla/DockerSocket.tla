---------------------------- MODULE DockerSocket ----------------------------
(***************************************************************************)
(* Labels of a server node, and the docker socket that follows one of      *)
(* them.  On the gateway, label commands and joins read and write the row  *)
(* of the server in transactions.  On the server, every round of the agent *)
(* fetches the row, stores its labels and moves the runit service          *)
(* socat-docker-socket in or out of the service directory; runit and       *)
(* WireGuard decide when socat listens.                                    *)
(***************************************************************************)
EXTENDS Naturals

CONSTANTS
    Labels,                      \* labels in use
    DockerSocketPublishedLabel,  \* the one that publishes the socket
    Writers,                     \* handlers of the gateway that write the row
    None,                        \* no writer
    MaxFaults                    \* bound on failed requests and updates, deaths and restarts

ASSUME SocketAssumption ==
    /\ DockerSocketPublishedLabel \in Labels
    /\ None \notin Writers
    /\ MaxFaults \in Nat

VARIABLES
    registered, \* the row of the server is in the gateway's table
    labels,     \* the labels of that row
    lock,       \* the writer whose transaction is open
    writer,     \* per writer: its command and what its transaction has read
    asked,      \* history: the labels that the committed commands amount to
    at,         \* the agent's next step
    fetched,    \* labels in the last answer to the agent
    stored,     \* labels in the server's own database
    enabled,    \* the service directory is under /etc/service (else service-disabled)
    supervised, \* runsvdir has a runsv for it
    wantUp,     \* that runsv keeps the service up
    process,    \* of the service: "none", "waiting" (run, before wg0 is up), "socat"
    wg0,        \* the WireGuard interface is up
    faults      \* faults so far

gatewayVars == <<registered, labels, lock, writer, asked>>
agentVars == <<at, fetched, stored>>
runitVars == <<supervised, wantUp, process, wg0>>
vars == <<gatewayVars, agentVars, enabled, runitVars, faults>>

Ops == {"add", "remove", "updateNodes"}
Writer == [at: {"idle", "begin", "write"}, op: Ops, label: Labels, read: SUBSET Labels]
Idle == [at |-> "idle", op |-> "updateNodes", label |-> DockerSocketPublishedLabel, read |-> {}]

Step == {"round", "update", "reconcile", "publish", "svUp", "await", "unpublish", "moveAway", "pkill"}

TypeOK ==
    /\ registered \in BOOLEAN
    /\ labels \in SUBSET Labels
    /\ lock \in Writers \cup {None}
    /\ writer \in [Writers -> Writer]
    /\ asked \in SUBSET Labels
    /\ at \in Step
    /\ fetched \in SUBSET Labels
    /\ stored \in SUBSET Labels
    /\ enabled \in BOOLEAN
    /\ supervised \in BOOLEAN
    /\ wantUp \in BOOLEAN
    /\ process \in {"none", "waiting", "socat"}
    /\ wg0 \in BOOLEAN
    /\ faults \in 0 .. MaxFaults

Fault == faults < MaxFaults /\ faults' = faults + 1

-----------------------------------------------------------------------------
(* The gateway: a label command resolves the server by its address and then *)
(* changes the row in a transaction; the join of another node writes every  *)
(* row back.                                                                *)

(* NodeLabelAdd, NodeLabelRemove: GetServerByWGPrivateIP.                   *)
Resolve(w) ==
    /\ writer[w].at = "idle"
    /\ registered
    /\ \E op \in {"add", "remove"}, l \in Labels :
          writer' = [writer EXCEPT ![w] = [Idle EXCEPT !.at = "begin", !.op = op, !.label = l]]
    /\ UNCHANGED <<registered, labels, lock, asked, agentVars, enabled, runitVars, faults>>

UpdateNodes(w) ==
    /\ writer[w].at = "idle"
    /\ writer' = [writer EXCEPT ![w] = [Idle EXCEPT !.at = "begin"]]
    /\ UNCHANGED <<registered, labels, lock, asked, agentVars, enabled, runitVars, faults>>

(* Mistaken variant: the row is read before the transaction begins. *)
BeginDeferred(w) ==
    /\ writer[w].at = "begin"
    /\ IF registered
       THEN writer' = [writer EXCEPT ![w].at = "write", ![w].read = labels]
       ELSE writer' = [writer EXCEPT ![w] = Idle]
    /\ lock' = None
    /\ UNCHANGED <<registered, labels, asked, agentVars, enabled, runitVars, faults>>

(* BEGIN IMMEDIATE takes the write lock; then the row is read.  When the    *)
(* row is gone, the transaction ends at once.                               *)
Begin(w) ==
    /\ writer[w].at = "begin"
    /\ lock = None
    /\ IF registered
       THEN /\ lock' = w
            /\ writer' = [writer EXCEPT ![w].at = "write", ![w].read = labels]
       ELSE /\ lock' = None
            /\ writer' = [writer EXCEPT ![w] = Idle]
    /\ UNCHANGED <<registered, labels, asked, agentVars, enabled, runitVars, faults>>

(* The lock is not free in time: the command fails.                         *)
Busy(w) ==
    /\ writer[w].at = "begin"
    /\ lock # None
    /\ writer' = [writer EXCEPT ![w] = Idle]
    /\ UNCHANGED <<registered, labels, lock, asked, agentVars, enabled, runitVars, faults>>

Apply(op, set, l) ==
    CASE op = "add" -> set \cup {l}
      [] op = "remove" -> set \ {l}
      [] op = "updateNodes" -> set

(* Write the labels, or the whole row, and commit.                          *)
Commit(w) ==
    /\ writer[w].at = "write"
    /\ labels' = Apply(writer[w].op, writer[w].read, writer[w].label)
    /\ asked' = Apply(writer[w].op, asked, writer[w].label)
    /\ lock' = None
    /\ writer' = [writer EXCEPT ![w] = Idle]
    /\ UNCHANGED <<registered, agentVars, enabled, runitVars, faults>>

(* server down: one statement, which needs the lock as well.                *)
DeleteServer ==
    /\ registered
    /\ lock = None
    /\ registered' = FALSE
    /\ labels' = {}
    /\ asked' = {}
    /\ UNCHANGED <<lock, writer, agentVars, enabled, runitVars, faults>>

-----------------------------------------------------------------------------
(* The agent: refreshNodeConfig at the end of a round.                      *)

(* NodeConfig: the row as it is now.                                        *)
NodeConfig ==
    /\ at = "round"
    /\ registered
    /\ fetched' = labels
    /\ at' = "update"
    /\ UNCHANGED <<gatewayVars, stored, enabled, runitVars, faults>>

(* GetByID finds no row: the request fails in every round.                  *)
NodeConfigFails ==
    /\ at = "round"
    /\ ~registered
    /\ UNCHANGED vars

UpdateLabels ==
    /\ at = "update"
    /\ stored' = fetched
    /\ at' = "reconcile"
    /\ UNCHANGED <<gatewayVars, fetched, enabled, runitVars, faults>>

(* The answer is lost or the update fails: again in the next round.         *)
RefreshFails ==
    /\ at \in {"round", "update"}
    /\ Fault
    /\ at' = "round"
    /\ UNCHANGED <<gatewayVars, fetched, stored, enabled, runitVars>>

WantPublished == DockerSocketPublishedLabel \in fetched

ReconcileWithLabels ==
    LET running == process = "socat" IN
    /\ at = "reconcile"
    /\ at' = CASE WantPublished -> IF enabled /\ running THEN "round" ELSE "publish"
               [] OTHER -> IF ~enabled /\ ~running THEN "round" ELSE "unpublish"
    /\ UNCHANGED <<gatewayVars, fetched, stored, enabled, runitVars, faults>>

(* publish/docker-socket.hbs: move the directory in, ...                    *)
MoveIn ==
    /\ at = "publish"
    /\ enabled' = TRUE
    /\ at' = "svUp"
    /\ UNCHANGED <<gatewayVars, fetched, stored, runitVars, faults>>

(* Mistaken variant: runit is left to find the directory by itself. *)
SvUpSkipped ==
    /\ at = "svUp"
    /\ at' = "await"
    /\ UNCHANGED <<gatewayVars, fetched, stored, enabled, runitVars, faults>>

(* ... tell a runsv that is there to start the service, ...                 *)
SvUp ==
    /\ at = "svUp"
    /\ wantUp' = supervised
    /\ at' = "await"
    /\ UNCHANGED <<gatewayVars, fetched, stored, enabled, supervised, process, wg0, faults>>

(* ... and wait for socat up to ten seconds; the result is only logged.     *)
AwaitSocat ==
    /\ at = "await"
    /\ at' = "round"
    /\ UNCHANGED <<gatewayVars, fetched, stored, enabled, runitVars, faults>>

(* unpublish/docker-socket.hbs: sv down ends the process, ...               *)
SvDown ==
    /\ at = "unpublish"
    /\ at' = IF enabled THEN "moveAway" ELSE "pkill"
    /\ IF enabled /\ supervised
       THEN wantUp' = FALSE /\ process' = "none"
       ELSE UNCHANGED <<wantUp, process>>
    /\ UNCHANGED <<gatewayVars, fetched, stored, enabled, supervised, wg0, faults>>

(* ... the directory is moved out, ...                                      *)
MoveAway ==
    /\ at = "moveAway"
    /\ enabled' = FALSE
    /\ at' = "pkill"
    /\ UNCHANGED <<gatewayVars, fetched, stored, runitVars, faults>>

(* Mistaken variant: the killed process is never reaped. *)
PkillZombie ==
    /\ at = "pkill"
    /\ process' = IF process = "socat" THEN "zombie" ELSE process
    /\ at' = "round"
    /\ UNCHANGED <<gatewayVars, fetched, stored, enabled, supervised, wantUp, wg0, faults>>

(* ... and what is called socat is killed; if it is back, that is logged.   *)
Pkill ==
    /\ at = "pkill"
    /\ process' = IF process = "socat" THEN "none" ELSE process
    /\ at' = "round"
    /\ UNCHANGED <<gatewayVars, fetched, stored, enabled, supervised, wantUp, wg0, faults>>

AgentStep ==
    \/ NodeConfig \/ NodeConfigFails \/ UpdateLabels \/ ReconcileWithLabels \/ MoveIn \/ SvUp \/ AwaitSocat
    \/ SvDown \/ MoveAway \/ Pkill

-----------------------------------------------------------------------------
(* runit and WireGuard *)

(* runsvdir looks for service directories that came or went.                *)
Scan ==
    /\ supervised # enabled
    /\ supervised' = enabled
    /\ wantUp' = enabled
    /\ process' = IF enabled THEN process ELSE "none"
    /\ UNCHANGED <<gatewayVars, agentVars, enabled, wg0, faults>>

RunsvStarts ==
    /\ supervised
    /\ wantUp
    /\ process = "none"
    /\ process' = "waiting"
    /\ UNCHANGED <<gatewayVars, agentVars, enabled, supervised, wantUp, wg0, faults>>

(* The run script becomes socat once wg0 has an address.                    *)
ExecSocat ==
    /\ process = "waiting"
    /\ wg0
    /\ process' = "socat"
    /\ UNCHANGED <<gatewayVars, agentVars, enabled, supervised, wantUp, wg0, faults>>

WireguardUp ==
    /\ ~wg0
    /\ wg0' = TRUE
    /\ UNCHANGED <<gatewayVars, agentVars, enabled, supervised, wantUp, process, faults>>

SocatDies ==
    /\ process = "socat"
    /\ Fault
    /\ process' = "none"
    /\ UNCHANGED <<gatewayVars, agentVars, enabled, supervised, wantUp, wg0>>

(* The container restarts: entry.sh moves the service out before runit      *)
(* starts.  The database stays.                                             *)
Restart ==
    /\ Fault
    /\ at' = "round"
    /\ fetched' = {}
    /\ enabled' = FALSE
    /\ supervised' = FALSE
    /\ wantUp' = FALSE
    /\ process' = "none"
    /\ wg0' = FALSE
    /\ UNCHANGED <<gatewayVars, stored>>

-----------------------------------------------------------------------------
(* A server that has joined and started, without labels.                    *)
Init ==
    /\ registered = TRUE
    /\ labels = {}
    /\ lock = None
    /\ writer = [w \in Writers |-> Idle]
    /\ asked = {}
    /\ at = "round"
    /\ fetched = {}
    /\ stored = {}
    /\ enabled = FALSE
    /\ supervised = FALSE
    /\ wantUp = FALSE
    /\ process = "none"
    /\ wg0 = FALSE
    /\ faults = 0

TransactionStep(w) == Begin(w) \/ Busy(w) \/ Commit(w)

Next ==
    \/ \E w \in Writers : Resolve(w) \/ UpdateNodes(w) \/ TransactionStep(w)
    \/ DeleteServer
    \/ AgentStep \/ RefreshFails
    \/ Scan \/ RunsvStarts \/ ExecSocat \/ WireguardUp
    \/ SocatDies \/ Restart

(* A transaction that has begun ends, the agent loops, runsvdir keeps       *)
(* looking, runsv and WireGuard start what they are to start.               *)
Fairness ==
    /\ \A w \in Writers : WF_vars(Commit(w))
    /\ WF_vars(AgentStep)
    /\ WF_vars(Scan)
    /\ WF_vars(RunsvStarts)
    /\ WF_vars(ExecSocat)
    /\ WF_vars(WireguardUp)

Spec == Init /\ [][Next]_vars /\ Fairness

-----------------------------------------------------------------------------
(* database/service.go: "read-modify-write sequences (e.g. label updates)   *)
(* cannot lose updates under concurrent callers".  The row has the labels   *)
(* that the committed commands add up to, whatever commands and joins run   *)
(* at the same time.                                                        *)
NoLabelLost == labels = asked

(* The row, the last look at it and the service, as a switch.               *)
SwitchLabel ==
    CASE ~registered -> "gone"
      [] registered /\ DockerSocketPublishedLabel \in labels -> "set"
      [] OTHER -> "unset"

SwitchPhase ==
    CASE process = "socat" -> "on"
      [] process # "socat" /\ (enabled \/ supervised) -> "armed"
      [] OTHER -> "off"

Switch == INSTANCE SocketSwitch
            WITH label <- SwitchLabel, seen <- WantPublished, phase <- SwitchPhase

(* README.md: "When a SERVER node has the docker-socket-published label,    *)
(* wireport starts a socat gateway".  The detailed specification implements *)
(* the switch: the socket is published only after a round has fetched the   *)
(* label, a restart unpublishes it until the next round, and it follows a   *)
(* label that stays, through scripts that give up, processes that die and   *)
(* runit coming late.                                                       *)
ImplementsSwitch == Switch!Spec
=============================================================================
