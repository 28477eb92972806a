------------------------- MODULE JoinProtocolProofs -------------------------
(***************************************************************************)
(* A join token is neither lost nor used twice by the server it is for,    *)
(* for any number of handlers, retries and faults.  The invariant follows  *)
(* the request and the row from the handler through the answer to the      *)
(* server's own table.                                                     *)
(***************************************************************************)
EXTENDS JoinProtocol, FiniteSetTheorems, TLAPS

(* The part of the types that the argument needs; rows are not bounded.     *)
Shapes ==
    /\ rows \in Nat
    /\ handler \in [Handlers -> [at: {"free", "get", "create", "delete", "respond"}, row: Nat]]
    /\ waitsFor \in Handlers \cup {None}
    /\ answer \in Nat
    /\ stored \in Nat

(* A handler that has created its row knows it, and has deleted the request *)
(* before it responds.                                                      *)
RowsKnown ==
    \A h \in Handlers :
        /\ handler[h].at \in {"delete", "respond"} => handler[h].row # 0
        /\ handler[h].at = "respond" => ~request

(* An answer comes after the deletion, and is not lost before it is saved.  *)
AnswersSpent == answer # 0 => ~request
AnswerToSave == pc = "save" => answer # 0

(* Tokens are only deleted by a server that has its row.                    *)
JoinedHasRow == pc \in {"network", "configs", "cleanup"} => stored # 0

Inv ==
    /\ Shapes
    /\ RowsKnown
    /\ AnswersSpent
    /\ AnswerToSave
    /\ JoinedHasRow
    /\ TokenUntilStored
    /\ TokenIsSpent

(* The invariant holds at first.                                            *)
LEMMA InitInv == Init => Inv
<1> SUFFICES ASSUME Init PROVE Inv
  OBVIOUS
<1>1. Shapes /\ RowsKnown
  BY DEF Init, Shapes, RowsKnown, Free
<1>2. AnswersSpent /\ AnswerToSave /\ JoinedHasRow
  BY DEF Init, AnswersSpent, AnswerToSave, JoinedHasRow
<1>3. TokenUntilStored /\ TokenIsSpent
  BY Zenon DEF Init, TokenUntilStored, TokenIsSpent
<1> QED BY <1>1, <1>2, <1>3 DEF Inv

(* The steps of the agent keep it.                                          *)
LEMMA AgentInv == Inv /\ AgentStep => Inv'
<1> SUFFICES ASSUME Inv, AgentStep PROVE Inv'
  OBVIOUS
<1> USE DEF Inv, Shapes, RowsKnown, AnswersSpent, AnswerToSave, JoinedHasRow, TokenUntilStored,
            TokenIsSpent, gatewayVars, Goto
<1>1. CASE ServerStart BY <1>1 DEF ServerStart
<1>2. CASE GetLast BY <1>2 DEF GetLast
<1>3. CASE Backoff BY <1>3 DEF Backoff
<1>4. CASE Pause BY <1>4 DEF Pause
<1>5. CASE SaveNode BY <1>5 DEF SaveNode
<1>6. CASE EnsureDockerNetwork BY <1>6 DEF EnsureDockerNetwork
<1>7. CASE SaveConfigs BY <1>7 DEF SaveConfigs
<1>8. CASE DeleteTokens BY <1>8 DEF DeleteTokens
<1>9. CASE Serve BY <1>9 DEF Serve
<1>10. CASE ServerLoop BY <1>10 DEF ServerLoop, vars, agentVars
<1>11. ASSUME NEW h \in Handlers, Post(h) PROVE Inv'
  BY <1>11 DEF Post, Free
<1> QED
  BY <1>1, <1>2, <1>3, <1>4, <1>5, <1>6, <1>7, <1>8, <1>9, <1>10, <1>11 DEF AgentStep

(* So do faults of the agent and of the network.                            *)
LEMMA FaultInv == Inv /\ (NoAnswer \/ StepFails \/ Restart) => Inv'
<1> SUFFICES ASSUME Inv, NoAnswer \/ StepFails \/ Restart PROVE Inv'
  OBVIOUS
<1> USE DEF Inv, Shapes, RowsKnown, AnswersSpent, AnswerToSave, JoinedHasRow, TokenUntilStored,
            TokenIsSpent, gatewayVars, Goto
<1>1. CASE NoAnswer BY <1>1 DEF NoAnswer
<1>2. CASE StepFails BY <1>2 DEF StepFails
<1>3. CASE Restart BY <1>3 DEF Restart
<1> QED BY <1>1, <1>2, <1>3

(* So do the handlers, and their faults.                                    *)
LEMMA HandlerInv ==
    ASSUME Inv, NEW h \in Handlers, HandlerStep(h) \/ HandlerFails(h)
    PROVE  Inv'
<1> USE DEF Inv, Shapes, RowsKnown, AnswersSpent, AnswerToSave, JoinedHasRow, TokenUntilStored,
            TokenIsSpent, agentVars, Goto, Free
<1>1. CASE Get(h) BY <1>1 DEF Get, Refuse
<1>2. CASE CreateServer(h) BY <1>2 DEF CreateServer
<1>3. CASE Delete(h) BY <1>3 DEF Delete
<1>4. CASE Respond(h) BY <1>4 DEF Respond
<1>5. CASE HandlerFails(h) BY <1>5 DEF HandlerFails, Refuse
<1> QED BY <1>1, <1>2, <1>3, <1>4, <1>5 DEF HandlerStep

(* Every step keeps the invariant.                                          *)
LEMMA NextInv == Inv /\ [Next]_vars => Inv'
<1>1. Inv /\ UNCHANGED vars => Inv'
  BY DEF vars, gatewayVars, agentVars, Inv, Shapes, RowsKnown, AnswersSpent, AnswerToSave,
         JoinedHasRow, TokenUntilStored, TokenIsSpent
<1> QED BY <1>1, AgentInv, FaultInv, HandlerInv DEF Next

(* The invariant that the two theorems below are read off. *)
THEOREM InvHolds == Spec => []Inv
  BY InitInv, NextInv, PTL DEF Spec

(* A server without a row of its own still has its token, whatever failed   *)
(* and whenever its container restarted.                                    *)
THEOREM TokensAreKept == Spec => []TokenUntilStored
<1>1. Inv => TokenUntilStored
  BY DEF Inv
<1> QED BY <1>1, InvHolds, PTL

(* The gateway has no request left for a server that has saved its row,     *)
(* with any number of attempts given up and handlers still running.         *)
THEOREM TokensAreSpent == Spec => []TokenIsSpent
<1>1. Inv => TokenIsSpent
  BY DEF Inv
<1> QED BY <1>1, InvHolds, PTL

-----------------------------------------------------------------------------
(* Rows are paid for.  While the request is there, every handler that has   *)
(* not created its row yet may still create one, and so may one more that   *)
(* the agent posts as soon as it waits for nobody; once it is gone, only    *)
(* the handlers that are past their look at it may.                         *)
MayCreate ==
    {h \in Handlers : \/ handler[h].at = "create"
                      \/ request /\ handler[h].at = "get"}

MayPost == IF request /\ waitsFor = None THEN 1 ELSE 0

Paid ==
    /\ IsFiniteSet(MayCreate)
    /\ rows + Cardinality(MayCreate) + MayPost <= 1 + faults

(* What the account needs to know of the agent.                             *)
WaitsInWait == waitsFor # None <=> pc = "wait"

Counters ==
    /\ faults \in 0 .. MaxFaults
    /\ attempt \in 0 .. MaxRetries
    /\ pc \in Step

(* No row is known before it was created.                                   *)
KnownRows ==
    /\ \A h \in Handlers : handler[h].row <= rows
    /\ answer <= rows
    /\ stored <= rows

Booleans ==
    /\ request \in BOOLEAN
    /\ token \in BOOLEAN
    /\ network \in BOOLEAN

PaidInv ==
    /\ Inv
    /\ Booleans
    /\ Counters
    /\ WaitsInWait
    /\ KnownRows
    /\ Paid

(* The account is balanced at first: one attempt is free.                   *)
LEMMA InitPaid == Init => PaidInv
<1> SUFFICES ASSUME Init PROVE PaidInv
  OBVIOUS
<1>1. Inv
  BY InitInv
<1>2. Booleans
  BY Zenon DEF Init, Booleans
<1>3. Counters /\ WaitsInWait /\ KnownRows
  BY JoinAssumption DEF Init, Counters, Step, WaitsInWait, KnownRows, Free
<1>4. Paid
  <2>1. MayCreate = {}
    BY DEF Init, MayCreate, Free
  <2>2. IsFiniteSet(MayCreate) /\ Cardinality(MayCreate) = 0
    BY <2>1, FS_EmptySet
  <2> QED BY <2>2 DEF Init, Paid, MayPost
<1> QED BY <1>1, <1>2, <1>3, <1>4 DEF PaidInv

(* Arithmetic of the account: what is spent, and what one fault adds.       *)
LEMMA Account ==
    ASSUME NEW r \in Nat, NEW c \in Nat, NEW d \in Nat, NEW m \in Nat, NEW n \in Nat,
           NEW f \in Nat, NEW g \in Nat,
           r + c + m <= 1 + f, d <= c, n + f <= m + g
    PROVE  r + d + n <= 1 + g
  OBVIOUS

(* A fault adds what one attempt costs.                                     *)
LEMMA OneMore ==
    ASSUME NEW m \in 0 .. 1, NEW n \in 0 .. 1, NEW f \in Nat, NEW g \in Nat, g = f + 1
    PROVE  n + f <= m + g
  OBVIOUS

(* A step that lets no new handler create a row keeps the account, when     *)
(* nobody is let go without a fault.                                        *)
LEMMA FewerCreate ==
    ASSUME Paid, MayCreate' \subseteq MayCreate, rows \in Nat, faults \in Nat, faults' \in Nat,
           rows' = rows,
           MayPost' + faults <= MayPost + faults'
    PROVE  Paid'
<1>1. IsFiniteSet(MayCreate') /\ Cardinality(MayCreate') <= Cardinality(MayCreate)
  BY FS_Subset DEF Paid
<1>2. Cardinality(MayCreate) \in Nat /\ Cardinality(MayCreate') \in Nat
  BY <1>1, FS_CardinalityType DEF Paid
<1>3. MayPost \in Nat /\ MayPost' \in Nat
  BY DEF MayPost
<1>4. rows + Cardinality(MayCreate) + MayPost <= 1 + faults
  BY DEF Paid
<1>5. rows' + Cardinality(MayCreate') + MayPost' <= 1 + faults'
  BY <1>1, <1>2, <1>3, <1>4, Account, Zenon
<1> QED BY <1>1, <1>5 DEF Paid

(* The agent turns its right to post into a handler that may create.        *)
LEMMA AgentPaid == PaidInv /\ AgentStep => PaidInv'
<1> SUFFICES ASSUME PaidInv, AgentStep PROVE PaidInv'
  OBVIOUS
<1>1. Inv'
  BY AgentInv DEF PaidInv
<1>2. ASSUME NEW h \in Handlers, Post(h) PROVE PaidInv'
  <2>1. Booleans' /\ Counters' /\ WaitsInWait' /\ KnownRows'
    BY <1>2, JoinAssumption DEF PaidInv, Inv, Shapes, Post, Goto, Booleans, Counters, Step,
         WaitsInWait, KnownRows, Free
  <2>2. waitsFor = None /\ waitsFor' # None /\ UNCHANGED <<request, rows, faults>>
    BY <1>2, JoinAssumption DEF Post, PaidInv, WaitsInWait
  <2>3. MayCreate' = IF request THEN MayCreate \cup {h} ELSE MayCreate
    BY <1>2 DEF Post, MayCreate, PaidInv, Inv, Shapes, Free
  <2>4. CASE request
    <3>1. h \notin MayCreate
      BY <1>2 DEF Post, Free, MayCreate
    <3>2. IsFiniteSet(MayCreate') /\ Cardinality(MayCreate') = Cardinality(MayCreate) + 1
      BY <2>3, <2>4, <3>1, FS_AddElement DEF PaidInv, Paid
    <3>3. Cardinality(MayCreate) \in Nat
      BY FS_CardinalityType DEF PaidInv, Paid
    <3>4. MayPost = 1 /\ MayPost' = 0
      BY <2>2, <2>4 DEF MayPost
    <3>5. Paid'
      BY <2>2, <3>2, <3>3, <3>4 DEF PaidInv, Paid, Counters, Inv, Shapes
    <3> QED BY <1>1, <2>1, <3>5 DEF PaidInv
  <2>5. CASE ~request
    <3>1. MayPost = 0 /\ MayPost' = 0
      BY <2>2, <2>5 DEF MayPost
    <3>2. Paid'
      BY <2>2, <2>3, <2>5, <3>1 DEF PaidInv, Paid
    <3> QED BY <1>1, <2>1, <3>2 DEF PaidInv
  <2> QED BY <2>4, <2>5
<1>3. CASE \/ ServerStart \/ GetLast \/ Backoff \/ Pause \/ SaveNode \/ EnsureDockerNetwork
           \/ SaveConfigs \/ DeleteTokens \/ Serve \/ ServerLoop
  <2>1. UNCHANGED <<request, rows, handler, waitsFor, faults>>
    BY <1>3 DEF ServerStart, GetLast, Backoff, Pause, SaveNode, EnsureDockerNetwork, SaveConfigs,
                DeleteTokens, Serve, ServerLoop, vars, gatewayVars, agentVars
  <2>2. Paid'
    BY <2>1 DEF PaidInv, Paid, MayCreate, MayPost
  <2>3. (pc = "wait") = (pc' = "wait") /\ pc' \in Step
    BY <1>3 DEF ServerStart, GetLast, Backoff, Pause, SaveNode, EnsureDockerNetwork, SaveConfigs,
                DeleteTokens, Serve, ServerLoop, vars, agentVars, Goto, PaidInv, Counters, Step
  <2>4. attempt' \in 0 .. MaxRetries
    BY <1>3, JoinAssumption DEF ServerStart, GetLast, Backoff, Pause, SaveNode, EnsureDockerNetwork,
                SaveConfigs, DeleteTokens, Serve, ServerLoop, vars, agentVars, PaidInv, Counters
  <2>5. answer' \in {0, answer} /\ stored' \in {stored, answer}
    BY <1>3 DEF ServerStart, GetLast, Backoff, Pause, SaveNode, EnsureDockerNetwork, SaveConfigs,
                DeleteTokens, Serve, ServerLoop, vars, agentVars
  <2>6. token' \in {token, FALSE} /\ network' \in {network, TRUE}
    BY <1>3, Zenon DEF ServerStart, GetLast, Backoff, Pause, SaveNode, EnsureDockerNetwork, SaveConfigs,
                DeleteTokens, Serve, ServerLoop, vars, agentVars
  <2>7. Booleans'
    BY <2>1, <2>6, Zenon DEF PaidInv, Booleans
  <2>8. Counters' /\ WaitsInWait'
    BY <2>1, <2>3, <2>4 DEF PaidInv, Counters, WaitsInWait
  <2>9. KnownRows'
    BY <2>1, <2>5 DEF PaidInv, KnownRows, Inv, Shapes
  <2> QED BY <1>1, <2>2, <2>7, <2>8, <2>9 DEF PaidInv
<1> QED BY <1>2, <1>3 DEF AgentStep

(* A fault of the agent or the network buys the attempt that follows it.    *)
LEMMA FaultPaid == PaidInv /\ (NoAnswer \/ StepFails \/ Restart) => PaidInv'
<1> SUFFICES ASSUME PaidInv, NoAnswer \/ StepFails \/ Restart PROVE PaidInv'
  OBVIOUS
<1>1. Inv'
  BY FaultInv DEF PaidInv
<1>2. Counters' /\ WaitsInWait' /\ KnownRows'
  <2> USE JoinAssumption DEF PaidInv, Inv, Shapes, Counters, Step, WaitsInWait, KnownRows, Fault, Goto,
          gatewayVars
  <2>1. CASE NoAnswer BY <2>1 DEF NoAnswer
  <2>2. CASE StepFails BY <2>2 DEF StepFails
  <2>3. CASE Restart BY <2>3 DEF Restart
  <2> QED BY <2>1, <2>2, <2>3
<1>3. Booleans'
  BY Zenon DEF NoAnswer, StepFails, Restart, gatewayVars, PaidInv, Booleans
<1>4. Paid'
  <2>1. UNCHANGED <<request, rows, handler>> /\ faults' = faults + 1
    BY DEF NoAnswer, StepFails, Restart, gatewayVars, Fault
  <2>2. MayCreate' = MayCreate
    BY <2>1 DEF MayCreate
  <2>3. MayPost \in 0 .. 1 /\ MayPost' \in 0 .. 1
    BY DEF MayPost
  <2>4. rows \in Nat /\ faults \in Nat /\ faults' \in Nat
    BY <2>1, JoinAssumption DEF PaidInv, Inv, Shapes, Counters
  <2>5. MayPost' + faults <= MayPost + faults'
    BY <2>1, <2>3, <2>4, OneMore, Zenon
  <2> QED BY <2>1, <2>2, <2>4, <2>5, FewerCreate DEF PaidInv
<1> QED BY <1>1, <1>2, <1>3, <1>4 DEF PaidInv

(* A handler gives up its turn or turns it into a row.                      *)
LEMMA HandlerPaid ==
    ASSUME PaidInv, NEW h \in Handlers, HandlerStep(h) \/ HandlerFails(h)
    PROVE  PaidInv'
<1>1. Inv'
  BY HandlerInv DEF PaidInv
<1>2. Counters' /\ WaitsInWait' /\ KnownRows'
  <2> USE JoinAssumption DEF PaidInv, Inv, Shapes, Counters, Step, WaitsInWait, KnownRows, Fault, Goto,
          agentVars, Free
  <2>1. CASE Get(h) BY <2>1 DEF Get, Refuse
  <2>2. CASE CreateServer(h) BY <2>2 DEF CreateServer
  <2>3. CASE Delete(h) BY <2>3 DEF Delete
  <2>4. CASE Respond(h) BY <2>4 DEF Respond
  <2>5. CASE HandlerFails(h) BY <2>5 DEF HandlerFails, Refuse
  <2> QED BY <2>1, <2>2, <2>3, <2>4, <2>5 DEF HandlerStep
<1>3. Booleans'
  BY Zenon DEF HandlerStep, Get, CreateServer, Delete, Respond, HandlerFails, agentVars, PaidInv, Booleans
<1>4. Paid'
  <2>1. rows \in Nat /\ faults \in Nat /\ MayPost \in 0 .. 1 /\ MayPost' \in 0 .. 1
    BY DEF PaidInv, Inv, Shapes, Counters, MayPost
  <2>2. CASE Get(h)
    <3>1. MayCreate' \subseteq MayCreate /\ MayPost' = MayPost /\ UNCHANGED <<rows, faults>>
      BY <2>2 DEF Get, Refuse, MayCreate, MayPost, PaidInv, Inv, Shapes, Free
    <3> QED BY <2>1, <3>1, FewerCreate DEF PaidInv
  <2>3. CASE CreateServer(h)
    <3>1. MayCreate' = MayCreate \ {h} /\ h \in MayCreate
      BY <2>3 DEF CreateServer, MayCreate, PaidInv, Inv, Shapes
    <3>2. MayPost' = MayPost /\ rows' = rows + 1 /\ faults' = faults
      BY <2>3 DEF CreateServer, MayPost, agentVars
    <3>3. IsFiniteSet(MayCreate') /\ Cardinality(MayCreate') = Cardinality(MayCreate) - 1
      BY <3>1, FS_RemoveElement DEF PaidInv, Paid
    <3>4. Cardinality(MayCreate) \in Nat
      BY FS_CardinalityType DEF PaidInv, Paid
    <3> QED BY <2>1, <3>2, <3>3, <3>4 DEF PaidInv, Paid
  <2>4. CASE Delete(h)
    <3>1. MayCreate' \subseteq MayCreate /\ UNCHANGED <<rows, faults>>
      BY <2>4 DEF Delete, MayCreate, MayPost, agentVars, PaidInv, Inv, Shapes
    <3>2. MayPost' = 0
      BY <2>4 DEF Delete, MayPost
    <3> QED BY <2>1, <3>1, <3>2, FewerCreate DEF PaidInv
  <2>5. CASE Respond(h)
    <3>1. MayCreate' \subseteq MayCreate /\ MayPost' = 0 /\ UNCHANGED <<rows, faults>>
      BY <2>5 DEF Respond, MayCreate, MayPost, PaidInv, Inv, Shapes, RowsKnown, Free
    <3> QED BY <2>1, <3>1, FewerCreate DEF PaidInv
  <2>6. CASE HandlerFails(h)
    <3>1. MayCreate' \subseteq MayCreate /\ faults' = faults + 1 /\ rows' = rows
      BY <2>6 DEF HandlerFails, Refuse, Fault, MayCreate, PaidInv, Inv, Shapes, Free
    <3>2. faults' \in Nat
      BY <2>1, <3>1
    <3>3. MayPost' + faults <= MayPost + faults'
      BY <2>1, <3>1, <3>2, OneMore, Zenon
    <3> QED BY <2>1, <3>1, <3>2, <3>3, FewerCreate, Zenon DEF PaidInv
  <2> QED BY <2>2, <2>3, <2>4, <2>5, <2>6 DEF HandlerStep
<1> QED BY <1>1, <1>2, <1>3, <1>4 DEF PaidInv

(* Every step keeps the account balanced.                                   *)
LEMMA NextPaid == PaidInv /\ [Next]_vars => PaidInv'
<1>1. PaidInv /\ UNCHANGED vars => PaidInv'
  <2> SUFFICES ASSUME PaidInv, UNCHANGED vars PROVE PaidInv'
    OBVIOUS
  <2>1. Inv'
    BY NextInv DEF PaidInv
  <2> QED
    BY <2>1 DEF vars, gatewayVars, agentVars, PaidInv, Booleans, Counters, WaitsInWait, KnownRows,
                Paid, MayCreate, MayPost
<1> QED BY <1>1, AgentPaid, FaultPaid, HandlerPaid DEF Next

(* The account that the two theorems below are read off. *)
THEOREM PaidInvHolds == Spec => []PaidInv
  BY InitPaid, NextPaid, PTL DEF Spec

(* Every server row beyond the first was paid for by a fault, with any      *)
(* number of handlers that still run for attempts that were given up.       *)
THEOREM ExtraRowsArePaid == Spec => []ExtraRowsNeedFaults
<1>1. PaidInv => ExtraRowsNeedFaults
  <2> SUFFICES ASSUME PaidInv PROVE rows <= 1 + faults
    BY DEF ExtraRowsNeedFaults
  <2>1. Cardinality(MayCreate) \in Nat /\ MayPost \in Nat
    BY FS_CardinalityType DEF PaidInv, Paid, MayPost
  <2> QED BY <2>1 DEF PaidInv, Paid, Counters, Inv, Shapes
<1> QED BY <1>1, PaidInvHolds, PTL

(* Every variable keeps its type; the bound on the rows is the one that     *)
(* their price gives.                                                       *)
THEOREM TypesAreKept == Spec => []TypeOK
<1>1. PaidInv => TypeOK
  <2> SUFFICES ASSUME PaidInv PROVE TypeOK
    OBVIOUS
  <2>1. Cardinality(MayCreate) \in Nat /\ MayPost \in Nat
    BY FS_CardinalityType DEF PaidInv, Paid, MayPost
  <2>2. rows \in 0 .. MaxRows
    BY <2>1, JoinAssumption DEF PaidInv, Paid, Counters, Inv, Shapes, MaxRows
  <2>3. answer \in 0 .. MaxRows /\ stored \in 0 .. MaxRows
    BY <2>2, JoinAssumption DEF PaidInv, KnownRows, Inv, Shapes, MaxRows
  <2>4. handler \in [Handlers -> Handler]
    <3>1. ASSUME NEW h \in Handlers PROVE handler[h] \in Handler
      BY <2>2, JoinAssumption DEF PaidInv, KnownRows, Inv, Shapes, MaxRows, Handler
    <3> QED BY <3>1 DEF PaidInv, Inv, Shapes
  <2> QED BY <2>2, <2>3, <2>4 DEF TypeOK, PaidInv, Booleans, Counters, Inv, Shapes
<1> QED BY <1>1, PaidInvHolds, PTL
=============================================================================
