--------------------------- MODULE ServicesProofs ---------------------------
(***************************************************************************)
(* Public services, for any addresses, nodes and directives, any number of *)
(* commands at a time and any number of faults: a command that nothing     *)
(* overlapped leaves Caddy with the services of the table, and every       *)
(* change of the table is one command on one publication.                  *)
(***************************************************************************)
EXTENDS Services, TLAPS

(* The commands that a handler can be given: those of Commands, and the     *)
(* publications of a server agent, which are not checked.                   *)
Requests == UNION {Publications, Unpublications, ParamCommands, Joins}

RequestNext ==
    \/ \E w \in Workers : \/ \E c \in Requests : Start(w, c)
                          \/ CommandStep(w)
                          \/ Abort(w)
    \/ ScheduledRestart
    \/ GatewayStep
    \/ CaddyRun
    \/ Crash

(* A handler only reaches the steps of its own command.                     *)
CommandFits ==
    \A w \in Workers :
        LET c == loc[w].command IN
        /\ pc[w] = "find" => c \in Publications \cup ParamCommands
        /\ pc[w] \in {"create", "update"} => c \in Publications
        /\ pc[w] = "delete" => c \in Unpublications
        /\ pc[w] = "store" => c \in ParamCommands /\ loc[w].row \in Publication

TypeInv == TypeOK /\ CommandFits

(* While a command is alone, nobody else is under way, the list that it has *)
(* read is the table, and the file that it has written is made of it.       *)
AloneIsFresh ==
    \A w \in Workers : loc[w].alone =>
        /\ \A v \in Workers \ {w} : pc[v] = "idle"
        /\ control \in {"configured", "up"}
        /\ pc[w] = "configs" => loc[w].list = table
        /\ pc[w] = "restart" /\ Renderable(table) => caddyfile = Rendered(table)

(* Once settled, and until the table changes, whoever writes the file makes *)
(* it of the table, and what Caddy runs is the file.                        *)
SettledIsFresh ==
    settled =>
        /\ \A w \in Workers : pc[w] = "configs" => loc[w].list = table
        /\ control \in {"configuring", "starting"} => listed = table
        /\ Renderable(table) =>
              /\ caddyfile = Rendered(table)
              /\ running # None => running = Rendered(table)

Inv ==
    /\ TypeInv
    /\ AloneIsFresh
    /\ SettledIsFresh

-----------------------------------------------------------------------------
(* Types *)

(* The commands have their parts.                                           *)
LEMMA CommandParts ==
    /\ \A c \in Publications : c.op = "publish" /\ c.key \in Keys /\ c.local \in Locals /\ c.by \in Nodes
    /\ \A c \in Unpublications : c.op = "unpublish" /\ c.key \in Keys
    /\ \A c \in ParamCommands :
          c.op \in {"paramNew", "paramRemove"} /\ c.key \in Keys /\ c.param \in Params
    /\ \A c \in Joins : c.op \in {"joinServer", "joinClient"}
<1>1. \A c \in Publications : c.op = "publish" /\ c.key \in Keys /\ c.local \in Locals /\ c.by \in Nodes
  BY DEF Publications
<1>2. \A c \in Unpublications : c.op = "unpublish" /\ c.key \in Keys
  BY DEF Unpublications, NoCommand
<1>3. \A c \in ParamCommands :
          c.op \in {"paramNew", "paramRemove"} /\ c.key \in Keys /\ c.param \in Params
  BY DEF ParamCommands
<1>4. \A c \in Joins : c.op \in {"joinServer", "joinClient"}
  BY DEF Joins, NoCommand
<1> QED BY <1>1, <1>2, <1>3, <1>4

(* An entry of the table is a publication, and a row that is a publication  *)
(* keeps the table one.                                                     *)
LEMMA PublishedType ==
    ASSUME NEW t \in Table, NEW k \in Published(t)
    PROVE  k \in Keys /\ t[k] \in Publication
  BY DEF Table, Published, Publication, NoPublication, Catalogue!Table, Catalogue!Published,
         Catalogue!Publication, Catalogue!NoPublication

(* The table stays one when a row is written or deleted.                    *)
LEMMA TableType ==
    ASSUME NEW t \in Table, NEW k, NEW row \in Publication \cup {NoPublication}
    PROVE  [t EXCEPT ![k] = row] \in Table
  BY DEF Table, Publication, NoPublication, Catalogue!Table

(* The table without rows is one.                                           *)
LEMMA EmptyTableType == EmptyTable \in Table
  BY DEF EmptyTable, Table, NoPublication, Catalogue!EmptyTable, Catalogue!Table

(* What AsCaddyConfigEntry renders is a Caddyfile.                          *)
LEMMA RenderedType ==
    ASSUME NEW t \in Table
    PROVE  Rendered(t) \in SUBSET Entry /\ Rendered(t) # None
<1>1. Rendered(t) \in SUBSET Entry
  BY PublishedType DEF Rendered, Entry
<1> QED BY <1>1, NoneAssumption

(* The local variables of a worker without a command are typed.             *)
LEMMA NoLocalType == NoLocal \in Local
  BY EmptyTableType DEF NoLocal, Local

(* What a handler sets in its local variables keeps them local variables,   *)
(* and leaves the other ones alone.                                         *)
LEMMA RowFields ==
    ASSUME NEW l \in Local, NEW row \in Publication \cup {NoPublication}
    PROVE  LET m == [l EXCEPT !.row = row] IN
           m \in Local /\ m.row = row /\ m.command = l.command /\ m.alone = l.alone
  BY DEF Local

(* A copy of local variables with another list.                             *)
LEMMA ListFields ==
    ASSUME NEW l \in Local, NEW t \in Table
    PROVE  LET m == [l EXCEPT !.list = t] IN
           m \in Local /\ m.list = t /\ m.command = l.command /\ m.row = l.row /\ m.alone = l.alone
  BY DEF Local

(* A copy of local variables that is not alone any more.                    *)
LEMMA AloneFields ==
    ASSUME NEW l \in Local
    PROVE  LET m == [l EXCEPT !.alone = FALSE] IN
           m \in Local /\ ~m.alone /\ m.command = l.command /\ m.row = l.row /\ m.list = l.list
  BY DEF Local

(* Steps of one worker: the others keep their place and their variables.    *)
LEMMA GotoFacts ==
    ASSUME TypeInv, NEW w \in Workers, NEW l \in Label, Goto(w, l)
    PROVE  /\ pc' \in [Workers -> Label]
           /\ pc'[w] = l
           /\ \A v \in Workers \ {w} : pc'[v] = pc[v]
  BY DEF TypeInv, TypeOK, Goto

(* A command that ends leaves its worker idle.                              *)
LEMMA FinishFacts ==
    ASSUME TypeInv, NEW w \in Workers, Finish(w)
    PROVE  /\ pc' \in [Workers -> Label] /\ loc' \in [Workers -> Local]
           /\ pc'[w] = "idle" /\ loc'[w] = NoLocal /\ ~loc'[w].alone
           /\ \A v \in Workers \ {w} : pc'[v] = pc[v] /\ loc'[v] = loc[v]
<1>1. "idle" \in Label
  BY DEF Label
<1>2. ~NoLocal.alone
  BY DEF NoLocal
<1> QED BY <1>1, <1>2, NoLocalType DEF TypeInv, TypeOK, Finish

(* All workers are idle again.                                              *)
LEMMA ResetFacts ==
    ASSUME TypeInv, pc' = [w \in Workers |-> "idle"], loc' = [w \in Workers |-> NoLocal]
    PROVE  /\ pc' \in [Workers -> Label] /\ loc' \in [Workers -> Local]
           /\ \A w \in Workers : pc'[w] = "idle" /\ ~loc'[w].alone
  BY NoLocalType DEF Label, NoLocal

(* The first step and the local variables of a command that starts.         *)
LEMMA StartFacts ==
    ASSUME TypeInv, NEW w \in Workers, NEW c \in Requests, Start(w, c)
    PROVE  /\ pc' \in [Workers -> Label] /\ loc' \in [Workers -> Local]
           /\ pc'[w] = FirstLabel(c.op) /\ loc'[w].command = c
           /\ loc'[w].alone => Quiet /\ control \in {"configured", "up"}
           /\ \A v \in Workers \ {w} :
                 /\ pc'[v] = pc[v] /\ ~loc'[v].alone
                 /\ loc'[v].command = loc[v].command /\ loc'[v].row = loc[v].row
                 /\ loc'[v].list = loc[v].list
<1> DEFINE b == Quiet /\ control \in {"configured", "up"}
           fresh == [NoLocal EXCEPT !.command = c, !.alone = b]
<1>1. FirstLabel(c.op) \in Label
  BY DEF FirstLabel, Label
<1>2. c \in UNION {Publications, Unpublications, ParamCommands, Joins, {NoCommand}}
  BY DEF Requests
<1>3. b \in BOOLEAN
  OBVIOUS
<1>4. fresh.command = c /\ fresh.alone = b /\ fresh \in Local
  <2> HIDE DEF b
  <2> QED BY <1>2, <1>3, EmptyTableType DEF NoLocal, Local
<1>5. /\ loc' \in [Workers -> Local]
      /\ loc'[w] = fresh
      /\ \A v \in Workers \ {w} : loc'[v] = [loc[v] EXCEPT !.alone = FALSE]
  <2>1. ASSUME NEW v \in Workers PROVE [loc[v] EXCEPT !.alone = FALSE] \in Local
    BY AloneFields DEF TypeInv, TypeOK
  <2>2. loc' = [v \in Workers |-> IF v = w THEN fresh ELSE [loc[v] EXCEPT !.alone = FALSE]]
    BY Zenon DEF Start
  <2> HIDE DEF fresh
  <2> QED BY <1>4, <2>1, <2>2
<1>6. ASSUME NEW v \in Workers \ {w}
      PROVE  /\ ~loc'[v].alone
             /\ loc'[v].command = loc[v].command /\ loc'[v].row = loc[v].row
             /\ loc'[v].list = loc[v].list
  <2>1. loc[v] \in Local
    BY DEF TypeInv, TypeOK
  <2> QED BY <1>5, <2>1, AloneFields
<1>7. /\ pc' \in [Workers -> Label] /\ pc'[w] = FirstLabel(c.op)
      /\ \A v \in Workers \ {w} : pc'[v] = pc[v]
  BY <1>1, GotoFacts DEF Start
<1> QED BY <1>4, <1>5, <1>6, <1>7

(* The first step of a command suits it.                                    *)
LEMMA FirstFits ==
    ASSUME NEW c \in Requests
    PROVE  /\ FirstLabel(c.op) \in {"find", "delete", "list"}
           /\ FirstLabel(c.op) = "find" => c \in Publications \cup ParamCommands
           /\ FirstLabel(c.op) = "delete" => c \in Unpublications
<1>1. c \in Publications \/ c \in Unpublications \/ c \in ParamCommands \/ c \in Joins
  BY DEF Requests
<1>2. CASE c \in Publications
  BY <1>2, CommandParts DEF FirstLabel
<1>3. CASE c \in Unpublications
  BY <1>3, CommandParts DEF FirstLabel
<1>4. CASE c \in ParamCommands
  BY <1>4, CommandParts DEF FirstLabel
<1>5. CASE c \in Joins
  BY <1>5, CommandParts DEF FirstLabel
<1> QED BY <1>1, <1>2, <1>3, <1>4, <1>5

(* The rows that the commands write.                                        *)
LEMMA WrittenRows ==
    ASSUME TypeInv, NEW w \in Workers
    PROVE  /\ pc[w] \in {"create", "update"} => NewPublication(w) \in Publication
           /\ pc[w] = "store" =>
                 [loc[w].row EXCEPT !.params = ChangedParams(loc[w].command, loc[w].row)]
                    \in Publication
<1>1. ASSUME pc[w] \in {"create", "update"}
      PROVE  NewPublication(w) \in Publication
  <2>1. loc[w].command \in Publications
    BY <1>1 DEF TypeInv, CommandFits
  <2> QED BY <2>1, CommandParts DEF NewPublication, Publication, Catalogue!Publication
<1>2. ASSUME pc[w] = "store"
      PROVE  [loc[w].row EXCEPT !.params = ChangedParams(loc[w].command, loc[w].row)]
                 \in Publication
  <2>1. loc[w].command \in ParamCommands /\ loc[w].row \in Publication
    BY <1>2 DEF TypeInv, CommandFits
  <2>2. loc[w].command.param \in Params
    BY <2>1, CommandParts
  <2>3. ChangedParams(loc[w].command, loc[w].row) \in SUBSET Params
    BY <2>1, <2>2 DEF ChangedParams, Publication, Catalogue!Publication
  <2> QED BY <2>1, <2>3 DEF Publication, Catalogue!Publication
<1> QED BY <1>1, <1>2

(* A step that leaves the local variables alone: only the worker's own      *)
(* command has to suit its next step.                                       *)
LEMMA FitsAfterGoto ==
    ASSUME TypeInv, NEW w \in Workers, NEW l \in Label, Goto(w, l), UNCHANGED loc,
           l = "find" => loc[w].command \in Publications \cup ParamCommands,
           l \in {"create", "update"} => loc[w].command \in Publications,
           l \notin {"delete", "store"}
    PROVE  CommandFits'
  BY GotoFacts DEF TypeInv, CommandFits

(* A worker that is idle has nothing to fit.                                *)
LEMMA FitsAfterFinish ==
    ASSUME TypeInv, NEW w \in Workers, Finish(w)
    PROVE  CommandFits'
  BY FinishFacts DEF TypeInv, CommandFits

(* After a restart nobody has a command.                                    *)
LEMMA FitsAfterReset ==
    ASSUME TypeInv, pc' = [w \in Workers |-> "idle"], loc' = [w \in Workers |-> NoLocal]
    PROVE  CommandFits'
  BY ResetFacts DEF CommandFits

(* What a write of one row does.                                            *)
LEMMA WriteFacts ==
    ASSUME TypeInv, NEW w \in Workers, NEW row \in Publication \cup {NoPublication},
           Write(w, row)
    PROVE  table' \in Table /\ settled' = FALSE /\ Goto(w, "list") /\ pc' \in [Workers -> Label]
<1>1. "list" \in Label
  BY DEF Label
<1> QED BY <1>1, TableType, GotoFacts DEF Write, TypeInv, TypeOK

(* What SaveConfigs leaves is a Caddyfile or no file.                       *)
LEMMA FileType ==
    ASSUME TypeInv, NEW t \in Table
    PROVE  CaddyfileFrom(t) \in (SUBSET Entry) \cup {None}
  BY RenderedType DEF CaddyfileFrom, TypeInv, TypeOK

-----------------------------------------------------------------------------
(* Every step keeps the types *)

(* The first step of a command keeps the types.                             *)
LEMMA TypeStart ==
    ASSUME TypeInv, NEW w \in Workers, NEW c \in Requests, Start(w, c)
    PROVE  TypeInv'
<1>1. TypeOK'
  BY StartFacts DEF TypeInv, TypeOK, Start
<1>2. CommandFits'
  BY StartFacts, FirstFits DEF TypeInv, CommandFits
<1> QED BY <1>1, <1>2 DEF TypeInv

(* The steps of Save keep the types.                                        *)
LEMMA TypePublish ==
    ASSUME TypeInv, NEW w \in Workers,
           PublishFind(w) \/ PublishCreate(w) \/ PublishUpdate(w)
    PROVE  TypeInv'
<1> USE DEF TypeInv
<1>1. CASE PublishFind(w)
  <2> DEFINE l == IF loc[w].command.key \in Published(table) THEN "update" ELSE "create"
  <2>1. l \in Label /\ l \in {"create", "update"} /\ Goto(w, l) /\ UNCHANGED loc
    BY <1>1 DEF PublishFind, Label
  <2>2. loc[w].command \in Publications
    BY <1>1, CommandParts DEF PublishFind, CommandFits
  <2> HIDE DEF l
  <2>3. CommandFits'
    BY <2>1, <2>2, FitsAfterGoto
  <2>4. pc' \in [Workers -> Label]
    BY <2>1, GotoFacts
  <2>5. TypeOK'
    BY <1>1, <2>4 DEF TypeOK, PublishFind
  <2> QED BY <2>3, <2>5
<1>2. ASSUME NEW row \in Publication, Write(w, row), UNCHANGED loc,
             UNCHANGED <<caddyfile, running, control, listed, faults, scheduled>>
      PROVE  TypeInv'
  <2>1. table' \in Table /\ settled' = FALSE /\ Goto(w, "list") /\ pc' \in [Workers -> Label]
    BY <1>2, WriteFacts
  <2>2. CommandFits'
    BY <1>2, <2>1, FitsAfterGoto DEF Label
  <2>3. TypeOK'
    BY <1>2, <2>1 DEF TypeOK
  <2> QED BY <2>2, <2>3
<1>3. CASE PublishCreate(w)
  <2>1. CASE Write(w, NewPublication(w)) /\ UNCHANGED loc
    BY <1>2, <1>3, <2>1, WrittenRows DEF PublishCreate
  <2>2. CASE Finish(w) /\ UNCHANGED <<table, settled>>
    <3>1. CommandFits'
      BY <2>2, FitsAfterFinish
    <3>2. TypeOK'
      BY <1>3, <2>2, FinishFacts DEF TypeOK, PublishCreate
    <3> QED BY <3>1, <3>2
  <2> QED BY <1>3, <2>1, <2>2 DEF PublishCreate
<1>4. CASE PublishUpdate(w)
  BY <1>2, <1>4, WrittenRows DEF PublishUpdate
<1> QED BY <1>1, <1>3, <1>4

(* The step of Delete keeps the types.                                      *)
LEMMA TypeDelete ==
    ASSUME TypeInv, NEW w \in Workers, Delete(w)
    PROVE  TypeInv'
<1> USE DEF TypeInv
<1>1. CASE Write(w, NoPublication) /\ UNCHANGED loc
  <2>1. table' \in Table /\ settled' = FALSE /\ Goto(w, "list") /\ pc' \in [Workers -> Label]
    BY <1>1, WriteFacts
  <2>2. CommandFits'
    BY <1>1, <2>1, FitsAfterGoto DEF Label
  <2>3. TypeOK'
    BY <1>1, <2>1 DEF TypeOK, Delete
  <2> QED BY <2>2, <2>3
<1>2. CASE Finish(w) /\ UNCHANGED <<table, settled>>
  <2>1. CommandFits'
    BY <1>2, FitsAfterFinish
  <2>2. TypeOK'
    BY <1>2, FinishFacts DEF TypeOK, Delete
  <2> QED BY <2>1, <2>2
<1> QED BY <1>1, <1>2 DEF Delete

(* The steps of AddParam and RemoveParam keep the types.                    *)
LEMMA TypeParam ==
    ASSUME TypeInv, NEW w \in Workers, ParamFind(w) \/ ParamStore(w)
    PROVE  TypeInv'
<1> USE DEF TypeInv
<1> DEFINE c == loc[w].command
<1>1. CASE ParamFind(w) /\ Finish(w)
  <2>1. CommandFits'
    BY <1>1, FitsAfterFinish
  <2>2. TypeOK'
    BY <1>1, FinishFacts DEF TypeOK, ParamFind
  <2> QED BY <2>1, <2>2
<1>2. CASE /\ ParamFind(w) /\ c.key \in Published(table) /\ Goto(w, "store")
           /\ loc' = [loc EXCEPT ![w].row = table[c.key]]
  <2>1. c \in ParamCommands
    BY <1>2, CommandParts DEF ParamFind, CommandFits
  <2>2. table[c.key] \in Publication
    BY <1>2, PublishedType DEF TypeOK
  <2>3. "store" \in Label
    BY DEF Label
  <2>4. /\ pc' \in [Workers -> Label] /\ pc'[w] = "store"
        /\ \A v \in Workers \ {w} : pc'[v] = pc[v]
    BY <1>2, <2>3, GotoFacts
  <2>5. /\ loc' \in [Workers -> Local]
        /\ loc'[w].row \in Publication /\ loc'[w].command = c
        /\ \A v \in Workers \ {w} : loc'[v] = loc[v]
    BY <1>2, <2>2, RowFields DEF TypeOK
  <2>6. CommandFits'
    BY <2>1, <2>4, <2>5 DEF CommandFits
  <2>7. TypeOK'
    BY <1>2, <2>4, <2>5 DEF TypeOK, ParamFind
  <2> QED BY <2>6, <2>7
<1>3. CASE ParamStore(w)
  <2> DEFINE row == [loc[w].row EXCEPT !.params = ChangedParams(loc[w].command, loc[w].row)]
  <2>1. row \in Publication /\ Write(w, row) /\ UNCHANGED loc
    BY <1>3, WrittenRows DEF ParamStore
  <2> HIDE DEF row
  <2>2. table' \in Table /\ settled' = FALSE /\ Goto(w, "list") /\ pc' \in [Workers -> Label]
    BY <2>1, WriteFacts
  <2>3. CommandFits'
    BY <2>1, <2>2, FitsAfterGoto DEF Label
  <2>4. TypeOK'
    BY <1>3, <2>2 DEF TypeOK, ParamStore
  <2> QED BY <2>3, <2>4
<1> QED BY <1>1, <1>2, <1>3 DEF ParamFind

(* Listing the services and writing the Caddyfile keep the types.           *)
LEMMA TypeConfigs ==
    ASSUME TypeInv, NEW w \in Workers, GetAll(w) \/ SaveConfigs(w)
    PROVE  TypeInv'
<1> USE DEF TypeInv
<1>1. CASE GetAll(w)
  <2>1. "configs" \in Label
    BY DEF Label
  <2>2. /\ pc' \in [Workers -> Label] /\ pc'[w] = "configs"
        /\ \A v \in Workers \ {w} : pc'[v] = pc[v]
    BY <1>1, <2>1, GotoFacts DEF GetAll
  <2>3. /\ loc' \in [Workers -> Local]
        /\ \A v \in Workers \ {w} : loc'[v] = loc[v]
    BY <1>1, ListFields DEF TypeOK, GetAll
  <2>4. CommandFits'
    BY <2>2, <2>3 DEF CommandFits
  <2>5. TypeOK'
    BY <1>1, <2>2, <2>3 DEF TypeOK, GetAll
  <2> QED BY <2>4, <2>5
<1>2. CASE SaveConfigs(w)
  <2>1. caddyfile' \in (SUBSET Entry) \cup {None}
    <3>1. loc[w].list \in Table
      BY DEF TypeOK, Local
    <3> QED BY <1>2, <3>1, FileType DEF SaveConfigs
  <2>2. CASE Goto(w, "restart") /\ UNCHANGED <<loc, scheduled>>
    <3>1. "restart" \in Label
      BY DEF Label
    <3>2. pc' \in [Workers -> Label]
      BY <2>2, <3>1, GotoFacts
    <3>3. CommandFits'
      BY <2>2, <3>1, FitsAfterGoto
    <3>4. TypeOK'
      BY <1>2, <2>1, <2>2, <3>2 DEF TypeOK, SaveConfigs
    <3> QED BY <3>3, <3>4
  <2>3. CASE /\ Finish(w)
             /\ scheduled' = (scheduled \/ loc[w].command.op = "joinServer")
    <3>1. CommandFits'
      BY <2>3, FitsAfterFinish
    <3>2. scheduled' \in BOOLEAN
      BY <2>3
    <3>3. TypeOK'
      BY <1>2, <2>1, <2>3, <3>2, FinishFacts DEF TypeOK, SaveConfigs
    <3> QED BY <3>1, <3>3
  <2> QED BY <1>2, <2>2, <2>3 DEF SaveConfigs
<1> QED BY <1>1, <1>2

(* The reload of Caddy keeps the types.                                     *)
LEMMA TypeRestart ==
    ASSUME TypeInv, NEW w \in Workers, RestartCaddy(w)
    PROVE  TypeInv'
<1> USE DEF TypeInv
<1>1. "report" \in Label
  BY DEF Label
<1>2. pc' \in [Workers -> Label]
  BY <1>1, GotoFacts DEF RestartCaddy
<1>3. CommandFits'
  BY <1>1, FitsAfterGoto DEF RestartCaddy
<1>4. settled' \in BOOLEAN
  BY DEF RestartCaddy
<1>5. TypeOK'
  BY <1>2, <1>4 DEF TypeOK, RestartCaddy
<1> QED BY <1>3, <1>5

(* Reports and failures keep the types.                                     *)
LEMMA TypeEnd ==
    ASSUME TypeInv, NEW w \in Workers, RestartFails(w) \/ Report(w) \/ Abort(w)
    PROVE  TypeInv'
<1> USE DEF TypeInv
<1>1. Finish(w)
  BY DEF RestartFails, Report, Abort
<1>2. CommandFits'
  BY <1>1, FitsAfterFinish
<1>3. TypeOK'
  BY <1>1, FinishFacts, ServicesAssumption DEF TypeOK, RestartFails, Report, Abort
<1> QED BY <1>2, <1>3

(* The steps of gateway start keep the types.                               *)
LEMMA TypeGateway ==
    ASSUME TypeInv, GatewayStep
    PROVE  TypeInv'
<1> USE DEF TypeInv
<1>1. CASE GatewayStart
  <2>1. ASSUME NEW v \in Workers
        PROVE  /\ loc'[v] \in Local
               /\ loc'[v].command = loc[v].command /\ loc'[v].row = loc[v].row
    <3>1. loc[v] \in Local /\ loc'[v] = [loc[v] EXCEPT !.alone = FALSE]
      BY <1>1 DEF TypeOK, GatewayStart, NobodyAlone
    <3> QED BY <3>1, AloneFields
  <2>2. loc' \in [Workers -> Local]
    BY <1>1, <2>1 DEF GatewayStart, NobodyAlone
  <2>3. CommandFits'
    BY <1>1, <2>1 DEF CommandFits, GatewayStart
  <2>4. TypeOK'
    BY <1>1, <2>2 DEF TypeOK, GatewayStart
  <2> QED BY <2>3, <2>4
<1>2. CASE GatewaySaved
  <2>1. CommandFits'
    BY <1>2 DEF CommandFits, GatewaySaved
  <2>2. TypeOK'
    BY <1>2, RenderedType, EmptyTableType DEF TypeOK, GatewaySaved
  <2> QED BY <2>1, <2>2
<1>3. CASE GatewayFailed
  <2>1. CASE control = "starting"
    <3>1. CommandFits'
      BY <1>3, <2>1, FitsAfterReset DEF GatewayFailed
    <3>2. TypeOK'
      BY <1>3, <2>1, ResetFacts, EmptyTableType DEF TypeOK, GatewayFailed
    <3> QED BY <3>1, <3>2
  <2>2. CASE control # "starting"
    <3>1. CommandFits'
      BY <1>3, <2>2 DEF CommandFits, GatewayFailed
    <3>2. TypeOK'
      BY <1>3, <2>2, EmptyTableType DEF TypeOK, GatewayFailed
    <3> QED BY <3>1, <3>2
  <2> QED BY <2>1, <2>2
<1> QED BY <1>1, <1>2, <1>3 DEF GatewayStep

(* Restarts of Caddy and of the container keep the types.                   *)
LEMMA TypeContainer ==
    ASSUME TypeInv, ScheduledRestart \/ CaddyRun \/ Crash
    PROVE  TypeInv'
<1> USE DEF TypeInv
<1>1. CASE ScheduledRestart
  BY <1>1 DEF TypeOK, CommandFits, ScheduledRestart
<1>2. CASE CaddyRun
  BY <1>2 DEF TypeOK, CommandFits, CaddyRun
<1>3. CASE Crash
  <2>1. CommandFits'
    BY <1>3, FitsAfterReset DEF Crash
  <2>2. pc' \in [Workers -> Label] /\ loc' \in [Workers -> Local]
    BY <1>3, ResetFacts DEF Crash
  <2>3. faults' \in 0 .. MaxFaults
    BY <1>3, ServicesAssumption DEF TypeOK, Crash
  <2>4. TypeOK'
    BY <1>3, <2>2, <2>3, EmptyTableType DEF TypeOK, Crash
  <2> QED BY <2>1, <2>4
<1> QED BY <1>1, <1>2, <1>3

-----------------------------------------------------------------------------
(* A command that nothing has overlapped works on what the table holds *)

(* While some command is under way, no other one is alone; its step only    *)
(* has to keep what is known of itself.                                     *)
LEMMA AloneAfterOwnStep ==
    ASSUME Inv, NEW w \in Workers, pc[w] # "idle",
           \A v \in Workers \ {w} : pc'[v] = pc[v] /\ loc'[v].alone = loc[v].alone,
           loc'[w].alone =>
              /\ loc[w].alone /\ UNCHANGED control
              /\ pc'[w] = "configs" => loc'[w].list = table'
              /\ pc'[w] = "restart" /\ Renderable(table)' => caddyfile' = Rendered(table)'
    PROVE  AloneIsFresh'
<1>1. \A v \in Workers \ {w} : ~loc[v].alone
  BY DEF Inv, AloneIsFresh
<1> QED BY <1>1 DEF Inv, AloneIsFresh

(* When a command ends, and when all of them do, nobody new is alone.       *)
LEMMA AloneAfterFinish ==
    ASSUME Inv, NEW w \in Workers, pc[w] # "idle", Finish(w)
    PROVE  AloneIsFresh'
  BY FinishFacts, AloneAfterOwnStep DEF Inv

(* After a restart nobody runs alone.                                       *)
LEMMA AloneAfterReset ==
    ASSUME Inv, pc' = [w \in Workers |-> "idle"], loc' = [w \in Workers |-> NoLocal]
    PROVE  AloneIsFresh'
  BY ResetFacts DEF Inv, AloneIsFresh

(* Nor does anybody when a command only goes on to another of its steps.    *)
LEMMA AloneAfterGoto ==
    ASSUME Inv, NEW w \in Workers, pc[w] # "idle", NEW l \in Label \ {"configs", "restart"},
           Goto(w, l), UNCHANGED <<loc, control>>
    PROVE  AloneIsFresh'
  BY GotoFacts, AloneAfterOwnStep DEF Inv

(* A command that starts ends the claim of those that run.                  *)
LEMMA AloneStart ==
    ASSUME Inv, NEW w \in Workers, NEW c \in Requests, Start(w, c)
    PROVE  AloneIsFresh'
<1>1. pc'[w] \notin {"configs", "restart"}
  BY StartFacts, FirstFits DEF Inv
<1>2. \A v \in Workers \ {w} : ~loc'[v].alone
  BY StartFacts DEF Inv
<1>3. loc'[w].alone =>
          control' \in {"configured", "up"} /\ \A v \in Workers \ {w} : pc'[v] = "idle"
  <2>1. loc'[w].alone => Quiet /\ control \in {"configured", "up"}
    BY StartFacts DEF Inv
  <2>2. \A v \in Workers \ {w} : pc'[v] = pc[v]
    BY StartFacts DEF Inv
  <2>3. UNCHANGED control
    BY DEF Start
  <2> QED BY <2>1, <2>2, <2>3 DEF Quiet
<1> QED BY <1>1, <1>2, <1>3 DEF AloneIsFresh

(* A step that writes the table is followed by a list of its own.           *)
LEMMA AloneTable ==
    ASSUME Inv, NEW w \in Workers,
           \/ PublishFind(w) \/ PublishCreate(w) \/ PublishUpdate(w)
           \/ Delete(w) \/ ParamStore(w)
    PROVE  AloneIsFresh'
<1>1. /\ pc[w] # "idle" /\ UNCHANGED control
      /\ \/ Finish(w)
         \/ UNCHANGED loc /\ \E l \in Label \ {"configs", "restart"} : Goto(w, l)
  BY DEF PublishFind, PublishCreate, PublishUpdate, Delete, ParamStore, Write, Label
<1> QED BY <1>1, AloneAfterFinish, AloneAfterGoto

(* Looking for a row changes nothing that was read.                         *)
LEMMA AloneParamFind ==
    ASSUME Inv, NEW w \in Workers, ParamFind(w)
    PROVE  AloneIsFresh'
<1> DEFINE c == loc[w].command
<1>1. CASE Finish(w)
  BY <1>1, AloneAfterFinish DEF ParamFind
<1>2. CASE /\ c.key \in Published(table) /\ Goto(w, "store")
           /\ loc' = [loc EXCEPT ![w].row = table[c.key]]
  <2>1. table[c.key] \in Publication
    BY <1>2, PublishedType DEF Inv, TypeInv, TypeOK
  <2>2. pc'[w] = "store" /\ \A v \in Workers \ {w} : pc'[v] = pc[v]
    BY <1>2, GotoFacts DEF Inv, Label
  <2>3. \A v \in Workers : loc'[v].alone = loc[v].alone
    BY <1>2, <2>1, RowFields DEF Inv, TypeInv, TypeOK
  <2>4. pc[w] # "idle" /\ UNCHANGED control
    BY DEF ParamFind
  <2> QED BY <2>2, <2>3, <2>4, AloneAfterOwnStep
<1> QED BY <1>1, <1>2 DEF ParamFind

(* Whoever runs alone lists the table and writes the file from it.          *)
LEMMA AloneConfigs ==
    ASSUME Inv, NEW w \in Workers, GetAll(w) \/ SaveConfigs(w)
    PROVE  AloneIsFresh'
<1>1. CASE GetAll(w)
  <2>1. pc'[w] = "configs" /\ \A v \in Workers \ {w} : pc'[v] = pc[v]
    BY <1>1, GotoFacts DEF GetAll, Inv, Label
  <2>2. /\ \A v \in Workers : loc'[v].alone = loc[v].alone
        /\ loc'[w].list = table
    BY <1>1, ListFields DEF GetAll, Inv, TypeInv, TypeOK
  <2>3. pc[w] # "idle" /\ UNCHANGED <<control, table>>
    BY <1>1 DEF GetAll
  <2> QED BY <2>1, <2>2, <2>3, AloneAfterOwnStep
<1>2. CASE SaveConfigs(w) /\ Finish(w)
  BY <1>2, AloneAfterFinish DEF SaveConfigs
<1>3. CASE SaveConfigs(w) /\ Goto(w, "restart") /\ UNCHANGED loc
  <2>1. pc'[w] = "restart" /\ \A v \in Workers \ {w} : pc'[v] = pc[v]
    BY <1>3, GotoFacts DEF Inv, Label
  <2>2. pc[w] = "configs" /\ UNCHANGED <<control, table>>
    BY <1>3 DEF SaveConfigs
  <2>3. ASSUME loc[w].alone, Renderable(table)
        PROVE  caddyfile' = Rendered(table)
    BY <1>3, <2>2, <2>3 DEF Inv, AloneIsFresh, SaveConfigs, CaddyfileFrom
  <2> QED BY <1>3, <2>1, <2>2, <2>3, AloneAfterOwnStep
<1> QED BY <1>1, <1>2, <1>3 DEF SaveConfigs

(* The end of a command leaves the others as they were.                     *)
LEMMA AloneEnd ==
    ASSUME Inv, NEW w \in Workers,
           RestartCaddy(w) \/ RestartFails(w) \/ Report(w) \/ Abort(w)
    PROVE  AloneIsFresh'
<1>1. CASE RestartCaddy(w)
  BY <1>1, AloneAfterGoto DEF RestartCaddy, Label
<1>2. CASE RestartFails(w) \/ Report(w) \/ Abort(w)
  BY <1>2, AloneAfterFinish DEF RestartFails, Report, Abort
<1> QED BY <1>1, <1>2

(* A start of the gateway overlaps every command; its other steps are not   *)
(* taken while a command is alone.                                          *)
LEMMA AloneGateway ==
    ASSUME Inv, GatewayStep
    PROVE  AloneIsFresh'
<1>1. CASE GatewayStart
  <2>1. ASSUME NEW v \in Workers PROVE ~loc'[v].alone
    <3>1. loc[v] \in Local /\ loc'[v] = [loc[v] EXCEPT !.alone = FALSE]
      BY <1>1 DEF Inv, TypeInv, TypeOK, GatewayStart, NobodyAlone
    <3> QED BY <3>1, AloneFields
  <2> QED BY <2>1 DEF AloneIsFresh
<1>2. CASE GatewaySaved
  BY <1>2 DEF Inv, AloneIsFresh, GatewaySaved
<1>3. CASE GatewayFailed
  <2>1. CASE control = "starting"
    BY <1>3, <2>1, AloneAfterReset DEF GatewayFailed
  <2>2. CASE control # "starting"
    BY <1>3, <2>2 DEF Inv, AloneIsFresh, GatewayFailed
  <2> QED BY <2>1, <2>2
<1> QED BY <1>1, <1>2, <1>3 DEF GatewayStep

(* Caddy does not disturb a command, and a restart of the container ends    *)
(* it.                                                                      *)
LEMMA AloneContainer ==
    ASSUME Inv, ScheduledRestart \/ CaddyRun \/ Crash
    PROVE  AloneIsFresh'
<1>1. CASE ScheduledRestart \/ CaddyRun
  BY <1>1 DEF Inv, AloneIsFresh, ScheduledRestart, CaddyRun
<1>2. CASE Crash
  BY <1>2, AloneAfterReset DEF Crash
<1> QED BY <1>1, <1>2

-----------------------------------------------------------------------------
(* Once settled, the services stay served *)

(* A step that leaves the table, the file, Caddy and the gateway alone, and *)
(* starts no new list.                                                      *)
LEMMA SettledKept ==
    ASSUME Inv, UNCHANGED <<table, caddyfile, running, control, listed, settled>>,
           \A v \in Workers : pc'[v] = "configs" => pc[v] = "configs" /\ loc'[v].list = loc[v].list
    PROVE  SettledIsFresh'
  BY DEF Inv, SettledIsFresh

(* A command that starts has written nothing yet.                           *)
LEMMA SettledStart ==
    ASSUME Inv, NEW w \in Workers, NEW c \in Requests, Start(w, c)
    PROVE  SettledIsFresh'
<1>1. \A v \in Workers : pc'[v] = "configs" => pc[v] = "configs" /\ loc'[v].list = loc[v].list
  BY StartFacts, FirstFits DEF Inv
<1> QED BY <1>1, SettledKept DEF Start

(* A write to the table ends the settled time.                              *)
LEMMA SettledTable ==
    ASSUME Inv, NEW w \in Workers,
           \/ PublishFind(w) \/ PublishCreate(w) \/ PublishUpdate(w)
           \/ Delete(w) \/ ParamStore(w)
    PROVE  SettledIsFresh'
<1>1. CASE \E row : Write(w, row)
  BY <1>1 DEF Write, SettledIsFresh
<1>2. CASE PublishFind(w)
  <2>1. \A v \in Workers : pc'[v] = "configs" => pc[v] = "configs" /\ loc'[v].list = loc[v].list
    <3>1. PICK l \in Label \ {"configs"} : Goto(w, l)
      BY <1>2 DEF PublishFind, Label
    <3> QED BY <1>2, <3>1, GotoFacts DEF PublishFind, Inv
  <2> QED BY <1>2, <2>1, SettledKept DEF PublishFind
<1>3. CASE /\ Finish(w)
           /\ UNCHANGED <<table, caddyfile, running, control, listed, settled>>
  <2>1. \A v \in Workers : pc'[v] = "configs" => pc[v] = "configs" /\ loc'[v].list = loc[v].list
    BY <1>3, FinishFacts DEF Inv
  <2> QED BY <1>3, <2>1, SettledKept
<1> QED BY <1>1, <1>2, <1>3 DEF PublishCreate, PublishUpdate, Delete, ParamStore

(* Looking for a row does not disturb Caddy.                                *)
LEMMA SettledParamFind ==
    ASSUME Inv, NEW w \in Workers, ParamFind(w)
    PROVE  SettledIsFresh'
<1>1. \A v \in Workers : pc'[v] = "configs" => pc[v] = "configs" /\ loc'[v].list = loc[v].list
  <2>1. CASE Finish(w)
    BY <2>1, FinishFacts DEF Inv
  <2>2. CASE Goto(w, "store") /\ loc' = [loc EXCEPT ![w].row = table[loc[w].command.key]]
    BY <2>2, GotoFacts DEF Inv, TypeInv, TypeOK, Label
  <2> QED BY <2>1, <2>2 DEF ParamFind
<1> QED BY <1>1, SettledKept DEF ParamFind

(* A list is the table, and a file of a settled time is made from it.       *)
LEMMA SettledConfigs ==
    ASSUME Inv, NEW w \in Workers, GetAll(w) \/ SaveConfigs(w)
    PROVE  SettledIsFresh'
<1>1. CASE GetAll(w)
  <2>1. pc'[w] = "configs" /\ \A v \in Workers \ {w} : pc'[v] = pc[v]
    BY <1>1, GotoFacts DEF GetAll, Inv, Label
  <2>2. loc'[w].list = table /\ \A v \in Workers \ {w} : loc'[v] = loc[v]
    BY <1>1, ListFields DEF GetAll, Inv, TypeInv, TypeOK
  <2> QED BY <1>1, <2>1, <2>2 DEF Inv, SettledIsFresh, GetAll
<1>2. CASE SaveConfigs(w)
  <2>1. \A v \in Workers : pc'[v] = "configs" => pc[v] = "configs" /\ loc'[v].list = loc[v].list
    <3>1. CASE Finish(w)
      BY <3>1, FinishFacts DEF Inv
    <3>2. CASE Goto(w, "restart") /\ UNCHANGED loc
      BY <3>2, GotoFacts DEF Inv, Label
    <3> QED BY <1>2, <3>1, <3>2 DEF SaveConfigs
  <2>2. settled /\ Renderable(table) => caddyfile' = Rendered(table)
    BY <1>2 DEF Inv, SettledIsFresh, SaveConfigs, CaddyfileFrom
  <2> QED BY <1>2, <2>1, <2>2 DEF Inv, SettledIsFresh, SaveConfigs
<1> QED BY <1>1, <1>2

(* The step that settles a change: the command was alone, so that the file  *)
(* that Caddy reads is made of the table and nobody holds an older list.    *)
LEMMA SettledRestart ==
    ASSUME Inv, NEW w \in Workers, RestartCaddy(w)
    PROVE  SettledIsFresh'
<1>1. pc'[w] = "report" /\ \A v \in Workers \ {w} : pc'[v] = pc[v]
  BY GotoFacts DEF RestartCaddy, Inv, Label
<1>2. UNCHANGED <<table, caddyfile, control, listed, loc>> /\ pc[w] = "restart"
  BY DEF RestartCaddy
<1>3. \/ caddyfile = None /\ UNCHANGED running
      \/ running' = caddyfile
  BY DEF RestartCaddy
<1>4. CASE settled
  BY <1>1, <1>2, <1>3, <1>4 DEF Inv, SettledIsFresh
<1>5. CASE loc[w].alone
  <2>1. /\ \A v \in Workers : pc'[v] # "configs"
        /\ control \notin {"configuring", "starting"}
    BY <1>1, <1>2, <1>5 DEF Inv, AloneIsFresh
  <2>2. Renderable(table) => caddyfile = Rendered(table) /\ running' = caddyfile
    BY <1>2, <1>3, <1>5, RenderedType DEF Inv, TypeInv, TypeOK, AloneIsFresh
  <2> QED BY <1>2, <2>1, <2>2 DEF SettledIsFresh
<1>6. CASE ~settled /\ ~loc[w].alone
  BY <1>6 DEF RestartCaddy, SettledIsFresh
<1> QED BY <1>4, <1>5, <1>6

(* The end of a command leaves the file and Caddy as they are.              *)
LEMMA SettledEnd ==
    ASSUME Inv, NEW w \in Workers, RestartFails(w) \/ Report(w) \/ Abort(w)
    PROVE  SettledIsFresh'
<1>1. Finish(w) /\ UNCHANGED <<table, caddyfile, running, control, listed, settled>>
  BY DEF RestartFails, Report, Abort
<1>2. \A v \in Workers : pc'[v] = "configs" => pc[v] = "configs" /\ loc'[v].list = loc[v].list
  BY <1>1, FinishFacts DEF Inv
<1> QED BY <1>1, <1>2, SettledKept

(* Gateway start loads a file made from the table.                          *)
LEMMA SettledGateway ==
    ASSUME Inv, GatewayStep
    PROVE  SettledIsFresh'
<1>1. CASE GatewayStart
  <2>1. ASSUME NEW v \in Workers PROVE loc'[v].list = loc[v].list
    <3>1. loc[v] \in Local /\ loc'[v] = [loc[v] EXCEPT !.alone = FALSE]
      BY <1>1 DEF Inv, TypeInv, TypeOK, GatewayStart, NobodyAlone
    <3> QED BY <3>1, AloneFields
  <2> QED BY <1>1, <2>1 DEF Inv, SettledIsFresh, GatewayStart
<1>2. CASE GatewaySaved
  BY <1>2 DEF Inv, SettledIsFresh, GatewaySaved
<1>3. CASE GatewayFailed
  <2>1. CASE control = "starting"
    BY <1>3, <2>1, ResetFacts DEF Inv, SettledIsFresh, GatewayFailed
  <2>2. CASE control # "starting"
    BY <1>3, <2>2 DEF Inv, SettledIsFresh, GatewayFailed
  <2> QED BY <2>1, <2>2
<1> QED BY <1>1, <1>2, <1>3 DEF GatewayStep

(* Caddy starts from the file, and the file outlives the container.         *)
LEMMA SettledContainer ==
    ASSUME Inv, ScheduledRestart \/ CaddyRun \/ Crash
    PROVE  SettledIsFresh'
<1>1. CASE ScheduledRestart \/ CaddyRun
  BY <1>1 DEF Inv, SettledIsFresh, ScheduledRestart, CaddyRun
<1>2. CASE Crash
  BY <1>2, ResetFacts DEF Inv, SettledIsFresh, Crash
<1> QED BY <1>1, <1>2

-----------------------------------------------------------------------------
(* The empty gateway satisfies the invariant.                               *)
LEMMA InitInv == Init => Inv
<1> SUFFICES ASSUME Init PROVE Inv
  OBVIOUS
<1>1. pc \in [Workers -> Label] /\ \A w \in Workers : pc[w] = "idle"
  BY DEF Init, Label
<1>2. loc \in [Workers -> Local] /\ \A w \in Workers : ~loc[w].alone
  BY NoLocalType DEF Init, NoLocal
<1>3. TypeOK
  <2>1. faults \in 0 .. MaxFaults
    BY ServicesAssumption DEF Init
  <2> QED BY <1>1, <1>2, <2>1, EmptyTableType DEF Init, TypeOK
<1>4. CommandFits /\ AloneIsFresh /\ SettledIsFresh
  BY <1>1, <1>2 DEF Init, CommandFits, AloneIsFresh, SettledIsFresh
<1> QED BY <1>3, <1>4 DEF Inv, TypeInv

(* Every step keeps it, whatever requests the agents send.                  *)
LEMMA RequestNextInv == Inv /\ [RequestNext]_vars => Inv'
<1> SUFFICES ASSUME Inv, [RequestNext]_vars PROVE Inv'
  OBVIOUS
<1>1. ASSUME NEW w \in Workers, NEW c \in Requests, Start(w, c) PROVE Inv'
  BY <1>1, TypeStart, AloneStart, SettledStart DEF Inv
<1>2. ASSUME NEW w \in Workers,
             \/ PublishFind(w) \/ PublishCreate(w) \/ PublishUpdate(w)
             \/ Delete(w) \/ ParamStore(w)
      PROVE  Inv'
  BY <1>2, TypePublish, TypeDelete, TypeParam, AloneTable, SettledTable DEF Inv
<1>3. ASSUME NEW w \in Workers, ParamFind(w) PROVE Inv'
  BY <1>3, TypeParam, AloneParamFind, SettledParamFind DEF Inv
<1>4. ASSUME NEW w \in Workers, GetAll(w) \/ SaveConfigs(w) PROVE Inv'
  BY <1>4, TypeConfigs, AloneConfigs, SettledConfigs DEF Inv
<1>5. ASSUME NEW w \in Workers, RestartCaddy(w) PROVE Inv'
  BY <1>5, TypeRestart, AloneEnd, SettledRestart DEF Inv
<1>6. ASSUME NEW w \in Workers, RestartFails(w) \/ Report(w) \/ Abort(w) PROVE Inv'
  BY <1>6, TypeEnd, AloneEnd, SettledEnd DEF Inv
<1>7. CASE GatewayStep
  BY <1>7, TypeGateway, AloneGateway, SettledGateway DEF Inv
<1>8. CASE ScheduledRestart \/ CaddyRun \/ Crash
  BY <1>8, TypeContainer, AloneContainer, SettledContainer DEF Inv
<1>9. CASE UNCHANGED vars
  BY <1>9 DEF vars, Inv, TypeInv, TypeOK, CommandFits, AloneIsFresh, SettledIsFresh
<1> QED BY <1>1, <1>2, <1>3, <1>4, <1>5, <1>6, <1>7, <1>8, <1>9 DEF RequestNext, CommandStep

(* The commands of Services are some of those requests.                     *)
LEMMA NextIsRequestNext == [Next]_vars => [RequestNext]_vars
<1>1. Commands \subseteq Requests
  BY DEF Commands, Requests
<1> QED BY <1>1 DEF Next, RequestNext

(* The inductive invariant holds.                                           *)
THEOREM InvHolds == Spec => []Inv
<1> QED BY InitInv, NextIsRequestNext, RequestNextInv, PTL DEF Spec

(* Every variable, and the local variables of every command under way, keep *)
(* their types.                                                             *)
THEOREM TypesAreKept == Spec => []TypeOK
<1>1. Inv => TypeOK
  BY DEF Inv, TypeInv
<1> QED BY <1>1, InvHolds, PTL

(* A command that nothing overlapped leaves Caddy with the services of the  *)
(* table, for any number of commands, faults and starts of the gateway      *)
(* before it, and they stay served until the table changes.                 *)
THEOREM SettledIsServed == Spec => []UndisturbedIsServed
<1>1. Inv => UndisturbedIsServed
  BY DEF Inv, SettledIsFresh, UndisturbedIsServed
<1> QED BY <1>1, InvHolds, PTL

-----------------------------------------------------------------------------
(* The table is the one of the catalogue *)

(* The condition under which a command on directives writes the row it has  *)
(* read: there are no such commands, or one command runs at a time.         *)
NoRace == Params = {} \/ \A v, w \in Workers : v = w

(* A command about to save a row with another set of directives has read    *)
(* the row that is still in the table, and really changes it.               *)
StoreFresh ==
    \A w \in Workers : pc[w] = "store" =>
        LET c == loc[w].command IN
        /\ c.key \in Published(table)
        /\ loc[w].row = table[c.key]
        /\ ParamChanges(c, loc[w].row)

(* A step that only the handlers' other variables see.                      *)
LEMMA StoreKept ==
    ASSUME StoreFresh, UNCHANGED table,
           \A v \in Workers : pc'[v] = "store" =>
              /\ pc[v] = "store" /\ loc'[v].command = loc[v].command
              /\ loc'[v].row = loc[v].row
    PROVE  StoreFresh'
  BY DEF StoreFresh

(* A write of the table by the only worker: it goes on to list.             *)
LEMMA StoreAfterWrite ==
    ASSUME Inv, \A v, w \in Workers : v = w, NEW w \in Workers, NEW row, Write(w, row)
    PROVE  StoreFresh'
<1>1. pc'[w] = "list"
  BY GotoFacts DEF Inv, Write, Label
<1> QED BY <1>1 DEF StoreFresh

(* A command that has ended is not about to store a row.                    *)
LEMMA StoreAfterFinish ==
    ASSUME Inv, StoreFresh, NEW w \in Workers, Finish(w), UNCHANGED table
    PROVE  StoreFresh'
  BY FinishFacts, StoreKept DEF Inv

(* After a restart nobody is about to store a row.                          *)
LEMMA StoreAfterReset ==
    ASSUME Inv, pc' = [w \in Workers |-> "idle"], loc' = [w \in Workers |-> NoLocal]
    PROVE  StoreFresh'
  BY ResetFacts DEF Inv, StoreFresh

(* A worker that moves on has nothing to store.                             *)
LEMMA StoreAfterGoto ==
    ASSUME Inv, StoreFresh, NEW w \in Workers, NEW l \in Label \ {"store"}, Goto(w, l),
           UNCHANGED <<table, loc>>
    PROVE  StoreFresh'
  BY GotoFacts, StoreKept DEF Inv

(* One command at a time: every step of it keeps the row fresh.             *)
LEMMA StoreCommand ==
    ASSUME Inv, StoreFresh, \A v, w \in Workers : v = w, NEW w \in Workers,
           \/ \E c \in Requests : Start(w, c)
           \/ CommandStep(w)
           \/ Abort(w)
    PROVE  StoreFresh'
<1>1. ASSUME NEW c \in Requests, Start(w, c) PROVE StoreFresh'
  BY <1>1, StartFacts, FirstFits DEF StoreFresh, Inv
<1>2. CASE PublishFind(w)
  BY <1>2, StoreAfterGoto DEF PublishFind, Label
<1>3. CASE PublishCreate(w)
  BY <1>3, StoreAfterWrite, StoreAfterFinish DEF PublishCreate
<1>4. CASE PublishUpdate(w)
  BY <1>4, StoreAfterWrite DEF PublishUpdate
<1>5. CASE Delete(w)
  BY <1>5, StoreAfterWrite, StoreAfterFinish DEF Delete
<1>6. CASE ParamFind(w)
  <2> DEFINE c == loc[w].command
  <2>1. CASE Finish(w)
    BY <1>6, <2>1, StoreAfterFinish DEF ParamFind
  <2>2. CASE /\ c.key \in Published(table) /\ ParamChanges(c, table[c.key])
             /\ loc' = [loc EXCEPT ![w].row = table[c.key]]
    <3>1. table[c.key] \in Publication
      BY <2>2, PublishedType DEF Inv, TypeInv, TypeOK
    <3>2. loc'[w].row = table[c.key] /\ loc'[w].command = c
      BY <2>2, <3>1, RowFields DEF Inv, TypeInv, TypeOK
    <3>3. UNCHANGED table
      BY <1>6 DEF ParamFind
    <3> QED BY <2>2, <3>2, <3>3 DEF StoreFresh
  <2> QED BY <1>6, <2>1, <2>2 DEF ParamFind
<1>7. CASE ParamStore(w)
  BY <1>7, StoreAfterWrite DEF ParamStore
<1>8. CASE GetAll(w)
  <2>1. pc'[w] = "configs"
    BY <1>8, GotoFacts DEF GetAll, Inv, Label
  <2> QED BY <2>1 DEF StoreFresh
<1>9. CASE SaveConfigs(w)
  BY <1>9, StoreAfterGoto, StoreAfterFinish DEF SaveConfigs, Label
<1>10. CASE RestartCaddy(w)
  BY <1>10, StoreAfterGoto DEF RestartCaddy, Label
<1>11. CASE RestartFails(w) \/ Report(w) \/ Abort(w)
  BY <1>11, StoreAfterFinish DEF RestartFails, Report, Abort
<1> QED BY <1>1, <1>2, <1>3, <1>4, <1>5, <1>6, <1>7, <1>8, <1>9, <1>10, <1>11 DEF CommandStep

(* The gateway process and the container do not touch the table.            *)
LEMMA StoreContainer ==
    ASSUME Inv, StoreFresh, ScheduledRestart \/ GatewayStep \/ CaddyRun \/ Crash
    PROVE  StoreFresh'
<1>1. CASE ScheduledRestart \/ CaddyRun \/ GatewaySaved
  BY <1>1, StoreKept DEF ScheduledRestart, CaddyRun, GatewaySaved
<1>2. CASE GatewayStart
  <2>1. ASSUME NEW v \in Workers
        PROVE  loc'[v].command = loc[v].command /\ loc'[v].row = loc[v].row
    <3>1. loc[v] \in Local /\ loc'[v] = [loc[v] EXCEPT !.alone = FALSE]
      BY <1>2 DEF Inv, TypeInv, TypeOK, GatewayStart, NobodyAlone
    <3> QED BY <3>1, AloneFields
  <2> QED BY <1>2, <2>1, StoreKept DEF GatewayStart
<1>3. CASE GatewayFailed
  <2>1. CASE control = "starting"
    BY <1>3, <2>1, StoreAfterReset DEF GatewayFailed
  <2>2. CASE control # "starting"
    BY <1>3, <2>2, StoreKept DEF GatewayFailed
  <2> QED BY <2>1, <2>2
<1>4. CASE Crash
  BY <1>4, StoreAfterReset DEF Crash
<1> QED BY <1>1, <1>2, <1>3, <1>4 DEF GatewayStep

(* Without a race on directives a row is stored as it was read.             *)
LEMMA StoreStep ==
    ASSUME NoRace, Inv, Inv', StoreFresh, [RequestNext]_vars
    PROVE  StoreFresh'
<1>1. CASE Params = {}
  <2>1. ASSUME NEW w \in Workers PROVE pc'[w] # "store"
    <3>1. pc'[w] = "store" => loc'[w].command \in ParamCommands
      BY DEF Inv, TypeInv, CommandFits
    <3> QED BY <1>1, <3>1, CommandParts
  <2> QED BY <2>1 DEF StoreFresh
<1>2. CASE \A v, w \in Workers : v = w
  <2>1. CASE UNCHANGED vars
    BY <2>1, StoreKept DEF vars
  <2> QED BY <1>2, <2>1, StoreCommand, StoreContainer DEF RequestNext
<1> QED BY <1>1, <1>2 DEF NoRace

(* The steps that write the table.                                          *)
LEMMA TableWrites ==
    ASSUME [RequestNext]_vars
    PROVE  \/ UNCHANGED table
           \/ \E w \in Workers :
                 \/ pc[w] \in {"create", "update"} /\ Write(w, NewPublication(w))
                 \/ /\ pc[w] = "delete" /\ loc[w].command.key \in Published(table)
                    /\ Write(w, NoPublication)
                 \/ ParamStore(w)
<1>1. ASSUME NEW w \in Workers,
             \/ \E c \in Requests : Start(w, c)
             \/ PublishFind(w) \/ ParamFind(w) \/ GetAll(w) \/ SaveConfigs(w)
             \/ RestartCaddy(w) \/ RestartFails(w) \/ Report(w) \/ Abort(w)
      PROVE  UNCHANGED table
  BY <1>1 DEF Start, PublishFind, ParamFind, GetAll, SaveConfigs, RestartCaddy, RestartFails,
              Report, Abort
<1>2. ASSUME ScheduledRestart \/ GatewayStep \/ CaddyRun \/ Crash \/ UNCHANGED vars
      PROVE  UNCHANGED table
  BY <1>2 DEF ScheduledRestart, GatewayStep, GatewayStart, GatewaySaved, GatewayFailed,
              CaddyRun, Crash, vars
<1>3. ASSUME NEW w \in Workers, PublishCreate(w) \/ PublishUpdate(w) \/ Delete(w)
      PROVE  \/ UNCHANGED table
             \/ pc[w] \in {"create", "update"} /\ Write(w, NewPublication(w))
             \/ /\ pc[w] = "delete" /\ loc[w].command.key \in Published(table)
                /\ Write(w, NoPublication)
  BY <1>3 DEF PublishCreate, PublishUpdate, Delete
<1> QED BY <1>1, <1>2, <1>3 DEF RequestNext, CommandStep

(* A command maps to the one step of the catalogue in which it writes.      *)
LEMMA CatalogueStep ==
    ASSUME Inv, StoreFresh, [RequestNext]_vars
    PROVE  [Catalogue!Next]_table
<1>1. ASSUME NEW w \in Workers, pc[w] \in {"create", "update"}, Write(w, NewPublication(w))
      PROVE  Catalogue!Next
  <2>1. loc[w].command \in Publications
    BY <1>1 DEF Inv, TypeInv, CommandFits
  <2>2. PICK k \in Keys, l \in Locals, n \in Nodes :
            k = loc[w].command.key /\ l = loc[w].command.local /\ n = loc[w].command.by
    BY <2>1, CommandParts
  <2>3. Catalogue!Publish(k, l, n)
    BY <1>1, <2>2 DEF Write, NewPublication, Catalogue!Publish
  <2> QED BY <2>3 DEF Catalogue!Next
<1>2. ASSUME NEW w \in Workers, pc[w] = "delete", loc[w].command.key \in Published(table),
             Write(w, NoPublication)
      PROVE  Catalogue!Next
  <2>1. loc[w].command.key \in Keys
    BY <1>2 DEF Published, Catalogue!Published
  <2>2. Catalogue!Unpublish(loc[w].command.key)
    BY <1>2 DEF Write, Published, NoPublication, Catalogue!Unpublish
  <2> QED BY <2>1, <2>2 DEF Catalogue!Next
<1>3. ASSUME NEW w \in Workers, ParamStore(w)
      PROVE  Catalogue!Next
  <2> DEFINE c == loc[w].command
  <2>1. c \in ParamCommands
    BY <1>3 DEF ParamStore, Inv, TypeInv, CommandFits
  <2>2. c.op \in {"paramNew", "paramRemove"} /\ c.key \in Keys /\ c.param \in Params
    BY <2>1, CommandParts
  <2>3. c.key \in Published(table) /\ loc[w].row = table[c.key] /\ ParamChanges(c, loc[w].row)
    BY <1>3 DEF ParamStore, StoreFresh
  <2>4. table' = [table EXCEPT ![c.key] =
                     [table[c.key] EXCEPT !.params = ChangedParams(c, table[c.key])]]
    BY <1>3, <2>3 DEF ParamStore, Write
  <2>5. CASE c.op = "paramNew"
    <3>1. Catalogue!AddParam(c.key, c.param)
      BY <2>3, <2>4, <2>5 DEF ParamChanges, ChangedParams, Published, Catalogue!AddParam
    <3> QED BY <2>2, <3>1 DEF Catalogue!Next
  <2>6. CASE c.op = "paramRemove"
    <3>1. Catalogue!RemoveParam(c.key, c.param)
      BY <2>3, <2>4, <2>6 DEF ParamChanges, ChangedParams, Published, Catalogue!RemoveParam
    <3> QED BY <2>2, <3>1 DEF Catalogue!Next
  <2> QED BY <2>2, <2>5, <2>6
<1> QED BY <1>1, <1>2, <1>3, TableWrites

(* Every change of the table is one command on one publication, for any     *)
(* number of publish and unpublish commands at a time, and for the commands *)
(* on directives when commands run one at a time.                           *)
THEOREM TableIsCatalogue ==
    ASSUME NoRace
    PROVE  Spec => CatalogueSpec
<1>1. Init => StoreFresh
  <2> SUFFICES ASSUME Init, NEW w \in Workers PROVE pc[w] # "store"
    BY DEF StoreFresh
  <2> QED BY DEF Init
<1>2. Inv /\ Inv' /\ StoreFresh /\ [Next]_vars => StoreFresh'
  BY StoreStep, NextIsRequestNext
<1>3. Init => Catalogue!Init
  BY DEF Init, EmptyTable, Catalogue!Init
<1>4. Inv /\ StoreFresh /\ [Next]_vars => [Catalogue!Next]_table
  BY CatalogueStep, NextIsRequestNext
<1> QED BY <1>1, <1>2, <1>3, <1>4, InvHolds, PTL DEF Spec, CatalogueSpec, Catalogue!Spec
=============================================================================
