---------------------------- MODULE JoinProtocol ----------------------------
(***************************************************************************)
(* A server joins with a stored token: the agent's loop around POST        *)
(* /commands/join with its retries, the handlers on the gateway that serve *)
(* the attempts, and what the agent does with the answer.  An attempt that *)
(* times out leaves its handler running.  The handler's work on the        *)
(* gateway's tables is Registry's; here it is the row it creates and the   *)
(* join request it deletes.                                                *)
(***************************************************************************)
EXTENDS Naturals, FiniteSets

CONSTANTS
    Handlers,    \* handlers of the control server that may be busy at the same time
    None,        \* no handler
    MaxRetries,  \* attempts of one call of Join
    MaxFaults    \* bound on lost answers, failed steps and restarts of the server

ASSUME JoinAssumption ==
    /\ None \notin Handlers
    /\ MaxRetries \in Nat \ {0}
    /\ MaxFaults \in Nat

VARIABLES
    request,    \* the join request is in the gateway's table
    rows,       \* server rows that were created for it
    handler,    \* per handler: its next step and the row it has created
    pc,         \* the agent's next step
    waitsFor,   \* the handler whose answer the agent waits for
    attempt,    \* attempts of the current call of Join
    answer,     \* row in the answer (0: none)
    stored,     \* the current node in the server's own database (0: none)
    token,      \* the token is in the server's database
    network,    \* the docker network exists and is attached
    faults      \* faults so far

gatewayVars == <<request, rows, handler>>
agentVars == <<pc, waitsFor, attempt, answer, stored, token, network>>
vars == <<gatewayVars, agentVars, faults>>

MaxRows == MaxFaults + 1

Handler == [at: {"free", "get", "create", "delete", "respond"}, row: 0 .. MaxRows]
Free == [at |-> "free", row |-> 0]

Step == {"boot", "token", "post", "wait", "backoff", "save", "network", "configs", "cleanup",
         "pause", "start", "serving"}

TypeOK ==
    /\ request \in BOOLEAN
    /\ rows \in 0 .. MaxRows
    /\ handler \in [Handlers -> Handler]
    /\ pc \in Step
    /\ waitsFor \in Handlers \cup {None}
    /\ attempt \in 0 .. MaxRetries
    /\ answer \in 0 .. MaxRows
    /\ stored \in 0 .. MaxRows
    /\ token \in BOOLEAN
    /\ network \in BOOLEAN
    /\ faults \in 0 .. MaxFaults

-----------------------------------------------------------------------------
(* The agent *)

Goto(label) == pc' = label
Fault == faults < MaxFaults /\ faults' = faults + 1

(* executeCommand: a server that has no row of its own yet joins first.     *)
ServerStart ==
    /\ pc = "boot"
    /\ Goto(IF stored = 0 THEN "token" ELSE "start")
    /\ UNCHANGED <<gatewayVars, waitsFor, attempt, answer, stored, token, network, faults>>

(* Mistaken variant: the token is taken out of the table when it is read. *)
GetLastDeletes ==
    /\ pc = "token"
    /\ token
    /\ Goto("post")
    /\ attempt' = 1
    /\ token' = FALSE
    /\ UNCHANGED <<gatewayVars, waitsFor, answer, stored, network, faults>>

(* The stored token, and a new call of Join.                                *)
GetLast ==
    /\ pc = "token"
    /\ token
    /\ Goto("post")
    /\ attempt' = 1
    /\ UNCHANGED <<gatewayVars, waitsFor, answer, stored, token, network, faults>>

(* Mistaken variant: the request is sent again while the agent waits. *)
PostAgain(h) ==
    /\ pc \in {"post", "wait"}
    /\ handler[h] = Free
    /\ handler' = [handler EXCEPT ![h].at = "get"]
    /\ waitsFor' = h
    /\ Goto("wait")
    /\ UNCHANGED <<request, rows, attempt, answer, stored, token, network, faults>>

Post(h) ==
    /\ pc = "post"
    /\ handler[h] = Free
    /\ handler' = [handler EXCEPT ![h].at = "get"]
    /\ waitsFor' = h
    /\ Goto("wait")
    /\ UNCHANGED <<request, rows, attempt, answer, stored, token, network, faults>>

(* The attempt gets no answer: refused, timed out, broken off.  An error    *)
(* that is not retryable ends the call at once.                             *)
NoAnswer ==
    /\ pc \in {"post", "wait"}
    /\ Fault
    /\ \E label \in {"backoff", "pause"} : Goto(label)
    /\ waitsFor' = None
    /\ UNCHANGED <<gatewayVars, attempt, answer, stored, token, network>>

(* Mistaken variants: the agent stays in the call; one attempt too many. *)
BackoffStays ==
    /\ pc = "backoff"
    /\ \/ attempt < MaxRetries /\ attempt' = attempt + 1 /\ Goto("post")
       \/ attempt = MaxRetries /\ UNCHANGED <<attempt, pc>>
    /\ UNCHANGED <<gatewayVars, waitsFor, answer, stored, token, network, faults>>
BackoffOneMore ==
    /\ pc = "backoff"
    /\ \/ attempt <= MaxRetries /\ attempt' = attempt + 1 /\ Goto("post")
       \/ attempt > MaxRetries /\ attempt' = 0 /\ Goto("pause")
    /\ UNCHANGED <<gatewayVars, waitsFor, answer, stored, token, network, faults>>

Backoff ==
    /\ pc = "backoff"
    /\ \/ attempt < MaxRetries /\ attempt' = attempt + 1 /\ Goto("post")
       \/ attempt = MaxRetries /\ attempt' = 0 /\ Goto("pause")
    /\ UNCHANGED <<gatewayVars, waitsFor, answer, stored, token, network, faults>>

(* Join has returned false: again in 30 seconds.                            *)
Pause ==
    /\ pc = "pause"
    /\ Goto("token")
    /\ attempt' = 0
    /\ answer' = 0
    /\ UNCHANGED <<gatewayVars, waitsFor, stored, token, network, faults>>

SaveNode ==
    /\ pc = "save"
    /\ stored' = answer
    /\ Goto("network")
    /\ UNCHANGED <<gatewayVars, waitsFor, attempt, answer, token, network, faults>>

EnsureDockerNetwork ==
    /\ pc = "network"
    /\ network' = TRUE
    /\ Goto("configs")
    /\ UNCHANGED <<gatewayVars, waitsFor, attempt, answer, stored, token, faults>>

SaveConfigs ==
    /\ pc = "configs"
    /\ Goto("cleanup")
    /\ UNCHANGED <<gatewayVars, waitsFor, attempt, answer, stored, token, network, faults>>

(* Saving the row, the docker network or the files fails: Join returns false. *)
StepFails ==
    /\ pc \in {"save", "network", "configs"}
    /\ Fault
    /\ Goto("pause")
    /\ UNCHANGED <<gatewayVars, waitsFor, attempt, answer, stored, token, network>>

(* Join has returned true: the tokens are deleted, and ServerStart is       *)
(* called again.                                                            *)
DeleteTokens ==
    /\ pc = "cleanup"
    /\ token' = FALSE
    /\ attempt' = 0
    /\ answer' = 0
    /\ Goto("boot")
    /\ UNCHANGED <<gatewayVars, waitsFor, stored, network, faults>>

(* The server role's ServerStart writes the files and enters its loop.      *)
Serve ==
    /\ pc = "start"
    /\ Goto("serving")
    /\ UNCHANGED <<gatewayVars, waitsFor, attempt, answer, stored, token, network, faults>>

(* The loop of module Reconcile.                                            *)
ServerLoop ==
    /\ pc = "serving"
    /\ UNCHANGED vars

(* The container restarts; entry.sh stores the token of its command line    *)
(* again.  The docker network stays.                                        *)
Restart ==
    /\ Fault
    /\ Goto("boot")
    /\ waitsFor' = None
    /\ attempt' = 0
    /\ answer' = 0
    /\ token' = TRUE
    /\ UNCHANGED <<gatewayVars, stored, network>>

-----------------------------------------------------------------------------
(* The gateway: the handler of /commands/join *)

Refuse(h) ==
    /\ handler' = [handler EXCEPT ![h] = Free]
    /\ IF waitsFor = h
       THEN Goto("backoff") /\ waitsFor' = None
       ELSE UNCHANGED <<pc, waitsFor>>

(* The token is compared with the request in the table.                     *)
Get(h) ==
    /\ handler[h].at = "get"
    /\ \/ request /\ handler' = [handler EXCEPT ![h].at = "create"] /\ UNCHANGED <<pc, waitsFor>>
       \/ ~request /\ Refuse(h)
    /\ UNCHANGED <<request, rows, attempt, answer, stored, token, network, faults>>

CreateServer(h) ==
    /\ handler[h].at = "create"
    /\ rows' = rows + 1
    /\ handler' = [handler EXCEPT ![h] = [at |-> "delete", row |-> rows + 1]]
    /\ UNCHANGED <<request, agentVars, faults>>

(* Mistaken variant: the request stays. *)
DeleteForgotten(h) ==
    /\ handler[h].at = "delete"
    /\ handler' = [handler EXCEPT ![h].at = "respond"]
    /\ UNCHANGED <<request, rows, agentVars, faults>>

(* Deleting a request that is gone is no error.                             *)
Delete(h) ==
    /\ handler[h].at = "delete"
    /\ request' = FALSE
    /\ handler' = [handler EXCEPT ![h].at = "respond"]
    /\ UNCHANGED <<rows, agentVars, faults>>

(* Nobody hears the answer to an attempt that was given up.                 *)
Respond(h) ==
    /\ handler[h].at = "respond"
    /\ handler' = [handler EXCEPT ![h] = Free]
    /\ IF waitsFor = h
       THEN Goto("save") /\ answer' = handler[h].row /\ waitsFor' = None
       ELSE UNCHANGED <<pc, answer, waitsFor>>
    /\ UNCHANGED <<request, rows, attempt, stored, token, network, faults>>

(* An error on the gateway, before or after the row was created.            *)
HandlerFails(h) ==
    /\ handler[h].at \in {"create", "delete"}
    /\ Fault
    /\ Refuse(h)
    /\ UNCHANGED <<request, rows, attempt, answer, stored, token, network>>

-----------------------------------------------------------------------------
(* server up has created the request and started the container.             *)
Init ==
    /\ request = TRUE
    /\ rows = 0
    /\ handler = [h \in Handlers |-> Free]
    /\ pc = "boot"
    /\ waitsFor = None
    /\ attempt = 0
    /\ answer = 0
    /\ stored = 0
    /\ token = TRUE
    /\ network = FALSE
    /\ faults = 0

AgentStep ==
    \/ ServerStart \/ GetLast \/ Backoff \/ Pause \/ SaveNode \/ EnsureDockerNetwork
    \/ SaveConfigs \/ DeleteTokens \/ Serve \/ ServerLoop
    \/ \E h \in Handlers : Post(h)

HandlerStep(h) == Get(h) \/ CreateServer(h) \/ Delete(h) \/ Respond(h)

Next ==
    \/ AgentStep
    \/ NoAnswer
    \/ StepFails
    \/ Restart
    \/ \E h \in Handlers : HandlerStep(h) \/ HandlerFails(h)

(* The loop of the agent goes on, and a handler that has begun ends.        *)
Fairness == WF_vars(AgentStep) /\ \A h \in Handlers : WF_vars(HandlerStep(h))

Spec == Init /\ [][Next]_vars /\ Fairness

-----------------------------------------------------------------------------
(* A server that has no row of its own can still join: its token outlives   *)
(* every failure and restart until the row is saved.                        *)
TokenUntilStored == stored = 0 => token

(* A server only saves a row once its request is gone: a token that has led *)
(* to a node is refused from then on, whatever attempts were given up.      *)
TokenIsSpent == stored # 0 => ~request

(* Every row beyond the first is the price of a fault: an attempt that was  *)
(* given up, or a handler that failed after it had created the row.         *)
ExtraRowsNeedFaults == rows <= 1 + faults

(* The agent goes on until the gateway has used up the request.             *)
RequestIsUsed == <>[]~request

-----------------------------------------------------------------------------
(* What the repository says and the code does not do. *)

(* join_error.go: "the server container will retry joining automatically    *)
(* - a container restart is not required."  With finitely many faults the   *)
(* server gets into service.                                                *)
RetriesJoin == <>(pc = "serving")
=============================================================================
