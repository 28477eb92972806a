------------------------- MODULE DockerSocketProofs -------------------------
(***************************************************************************)
(* For any labels, any number of writers and any number of faults: label   *)
(* commands and joins lose no label, and every step of the gateway, the    *)
(* agent, its scripts and runit is a step of the switch of SocketSwitch.   *)
(***************************************************************************)
EXTENDS DockerSocket, TLAPS

(* The write lock: whoever is about to write holds it, and while it is held *)
(* nobody deletes the row and what was read is still the row.               *)
LockHeld ==
    \A w \in Writers : writer[w].at = "write" =>
        /\ lock = w
        /\ registered
        /\ writer[w].read = labels

(* The scripts run for the look that chose them, and a process of the       *)
(* service has a runsv.                                                     *)
ScriptForLabel == at = "publish" => WantPublished
RunsvForProcess == process # "none" => supervised

Inv ==
    /\ TypeOK
    /\ LockHeld
    /\ NoLabelLost
    /\ ScriptForLabel
    /\ RunsvForProcess

(* The invariant holds at first.                                            *)
LEMMA InitInv == Init => Inv
<1> SUFFICES ASSUME Init PROVE Inv
  OBVIOUS
<1> USE SocketAssumption
<1>1. TypeOK
  <2>1. Idle \in Writer
    BY DEF Writer, Idle, Ops
  <2>2. registered \in BOOLEAN /\ enabled \in BOOLEAN /\ supervised \in BOOLEAN
        /\ wantUp \in BOOLEAN /\ wg0 \in BOOLEAN
    BY Zenon DEF Init
  <2> QED BY <2>1, <2>2 DEF Init, TypeOK, Step
<1>2. LockHeld /\ NoLabelLost /\ ScriptForLabel /\ RunsvForProcess
  BY DEF Init, LockHeld, Idle, NoLabelLost, ScriptForLabel, RunsvForProcess
<1> QED BY <1>1, <1>2 DEF Inv

(* What a command makes of a set of labels is a set of labels.              *)
LEMMA ApplyType ==
    ASSUME NEW op \in Ops, NEW set \in SUBSET Labels, NEW l \in Labels
    PROVE  Apply(op, set, l) \in SUBSET Labels
  BY DEF Apply, Ops

(* Steps of the gateway: only these touch the row and the lock.             *)
LEMMA GatewayInv ==
    ASSUME Inv,
           \/ DeleteServer
           \/ \E w \in Writers : Resolve(w) \/ UpdateNodes(w) \/ TransactionStep(w)
    PROVE  Inv'
<1> USE SocketAssumption DEF Inv, TypeOK, LockHeld, NoLabelLost, ScriptForLabel, RunsvForProcess,
            WantPublished, agentVars, runitVars
<1>1. CASE DeleteServer BY <1>1 DEF DeleteServer
<1>2. ASSUME NEW w \in Writers, Resolve(w) PROVE Inv'
  <2>1. PICK op \in {"add", "remove"}, l \in Labels :
            writer' = [writer EXCEPT ![w] = [Idle EXCEPT !.at = "begin", !.op = op, !.label = l]]
    BY <1>2 DEF Resolve
  <2>2. [Idle EXCEPT !.at = "begin", !.op = op, !.label = l] \in Writer
    BY DEF Writer, Ops, Idle
  <2>3. writer' \in [Writers -> Writer]
    BY <2>1, <2>2
  <2>4. \A v \in Writers : writer'[v].at = "write" => writer'[v] = writer[v]
    BY <2>1, <2>3 DEF Idle
  <2> QED BY <1>2, <2>3, <2>4 DEF Resolve
<1>3. ASSUME NEW w \in Writers, UpdateNodes(w) PROVE Inv'
  BY <1>3 DEF UpdateNodes, Writer, Ops, Idle
<1>4. ASSUME NEW w \in Writers, Begin(w) PROVE Inv'
  BY <1>4 DEF Begin, Writer, Ops, Idle
<1>5. ASSUME NEW w \in Writers, Busy(w) PROVE Inv'
  BY <1>5 DEF Busy, Writer, Ops, Idle
<1>6. ASSUME NEW w \in Writers, Commit(w) PROVE Inv'
  <2>1. Apply(writer[w].op, labels, writer[w].label) \in SUBSET Labels
    BY ApplyType DEF Writer
  <2>2. labels' = asked' /\ labels' \in SUBSET Labels
    BY <1>6, <2>1 DEF Commit
  <2>3. \A v \in Writers : writer'[v].at # "write"
    BY <1>6 DEF Commit, Writer, Idle
  <2> QED BY <1>6, <2>2, <2>3 DEF Commit, Writer, Ops, Idle
<1> QED BY <1>1, <1>2, <1>3, <1>4, <1>5, <1>6 DEF TransactionStep

(* Steps of the agent and its scripts: the row is only read.                *)
LEMMA AgentInv ==
    ASSUME Inv, AgentStep \/ RefreshFails
    PROVE  Inv'
<1> USE SocketAssumption DEF Inv, TypeOK, LockHeld, NoLabelLost, ScriptForLabel, RunsvForProcess,
            WantPublished, gatewayVars, runitVars, Step
<1>1. CASE NodeConfig BY <1>1 DEF NodeConfig
<1>2. CASE NodeConfigFails BY <1>2 DEF NodeConfigFails, vars, agentVars
<1>3. CASE UpdateLabels BY <1>3 DEF UpdateLabels
<1>4. CASE ReconcileWithLabels BY <1>4 DEF ReconcileWithLabels
<1>5. CASE MoveIn BY <1>5 DEF MoveIn
<1>6. CASE SvUp BY <1>6 DEF SvUp
<1>7. CASE AwaitSocat BY <1>7 DEF AwaitSocat
<1>8. CASE SvDown BY <1>8 DEF SvDown
<1>9. CASE MoveAway BY <1>9 DEF MoveAway
<1>10. CASE Pkill BY <1>10 DEF Pkill
<1>11. CASE RefreshFails BY <1>11 DEF RefreshFails, Fault
<1> QED
  BY <1>1, <1>2, <1>3, <1>4, <1>5, <1>6, <1>7, <1>8, <1>9, <1>10, <1>11 DEF AgentStep

(* Steps of runit, WireGuard and the container.                             *)
LEMMA RunitInv ==
    ASSUME Inv, Scan \/ RunsvStarts \/ ExecSocat \/ WireguardUp \/ SocatDies \/ Restart
    PROVE  Inv'
<1> USE SocketAssumption DEF Inv, TypeOK, LockHeld, NoLabelLost, ScriptForLabel, RunsvForProcess,
            WantPublished, gatewayVars, agentVars, Step
<1>1. CASE Scan BY <1>1 DEF Scan
<1>2. CASE RunsvStarts BY <1>2 DEF RunsvStarts
<1>3. CASE ExecSocat BY <1>3 DEF ExecSocat
<1>4. CASE WireguardUp BY <1>4 DEF WireguardUp
<1>5. CASE SocatDies BY <1>5 DEF SocatDies, Fault
<1>6. CASE Restart
  <2>1. enabled' \in BOOLEAN /\ supervised' \in BOOLEAN /\ wantUp' \in BOOLEAN /\ wg0' \in BOOLEAN
    BY <1>6, Zenon DEF Restart
  <2> QED BY <1>6, <2>1 DEF Restart, Fault
<1> QED BY <1>1, <1>2, <1>3, <1>4, <1>5, <1>6

(* Every step keeps the invariant.                                          *)
LEMMA NextInv == Inv /\ [Next]_vars => Inv'
<1>1. Inv /\ UNCHANGED vars => Inv'
  BY DEF vars, gatewayVars, agentVars, runitVars, Inv, TypeOK, LockHeld, NoLabelLost,
         ScriptForLabel, RunsvForProcess, WantPublished
<1> QED BY <1>1, GatewayInv, AgentInv, RunitInv DEF Next

(* The invariant that the theorems below are read off. *)
THEOREM InvHolds == Spec => []Inv
  BY InitInv, NextInv, PTL DEF Spec

(* Every variable keeps its type.                                           *)
THEOREM TypesAreKept == Spec => []TypeOK
<1>1. Inv => TypeOK
  BY DEF Inv
<1> QED BY <1>1, InvHolds, PTL

(* However many label commands and joins run at the same time, the row has  *)
(* the labels that the committed commands add up to.                        *)
THEOREM NoLabelIsLost == Spec => []NoLabelLost
<1>1. Inv => NoLabelLost
  BY DEF Inv
<1> QED BY <1>1, InvHolds, PTL

-----------------------------------------------------------------------------
(* The refinement of SocketSwitch, step by step.  The liveness of the       *)
(* switch is left to TLC.                                                   *)

(* Steps of the gateway: a commit or a deletion may flip the switch, the    *)
(* rest does not move it.                                                   *)
LEMMA GatewaySwitch ==
    ASSUME Inv,
           \/ DeleteServer
           \/ \E w \in Writers : Resolve(w) \/ UpdateNodes(w) \/ TransactionStep(w)
    PROVE  [Switch!Next]_(Switch!vars)
<1>1. SwitchPhase' = SwitchPhase /\ WantPublished' = WantPublished
  <2>1. UNCHANGED <<agentVars, enabled, runitVars>>
    BY DEF DeleteServer, Resolve, UpdateNodes, TransactionStep, Begin, Busy, Commit
  <2> QED BY <2>1 DEF agentVars, runitVars, SwitchPhase, WantPublished
<1>2. CASE registered /\ (DeleteServer \/ \E w \in Writers : Commit(w))
  <2>1. SwitchLabel # "gone" /\ SwitchLabel' \in {"set", "unset", "gone"}
    BY <1>2 DEF SwitchLabel
  <2> QED BY <1>1, <2>1 DEF Switch!Next, Switch!Flip
<1>3. CASE UNCHANGED <<registered, labels>>
  BY <1>1, <1>3 DEF Switch!vars, SwitchLabel
<1>4. ASSUME NEW w \in Writers, Commit(w) PROVE registered
  BY <1>4 DEF Commit, Inv, LockHeld
<1>5. DeleteServer => registered
  BY DEF DeleteServer
<1>6. ASSUME NEW w \in Writers, Resolve(w) \/ UpdateNodes(w) \/ Begin(w) \/ Busy(w)
      PROVE  UNCHANGED <<registered, labels>>
  BY <1>6 DEF Resolve, UpdateNodes, Begin, Busy
<1> QED BY <1>2, <1>3, <1>4, <1>5, <1>6 DEF TransactionStep

(* Steps of the agent: the row as fetched is the look at the switch, and    *)
(* only a script that was chosen by a label arms the socket.                *)
LEMMA AgentSwitch ==
    ASSUME Inv, AgentStep \/ RefreshFails
    PROVE  [Switch!Next]_(Switch!vars)
<1>1. SwitchLabel' = SwitchLabel
  BY DEF AgentStep, NodeConfig, NodeConfigFails, UpdateLabels, ReconcileWithLabels, MoveIn, SvUp,
         AwaitSocat, SvDown, MoveAway, Pkill, RefreshFails, vars, gatewayVars, SwitchLabel
<1>2. CASE NodeConfig
  <2>1. SwitchPhase' = SwitchPhase
    BY <1>2 DEF NodeConfig, runitVars, SwitchPhase
  <2>2. SwitchLabel # "gone" /\ WantPublished' = (SwitchLabel = "set")
    BY <1>2 DEF NodeConfig, SwitchLabel, WantPublished
  <2> QED BY <1>1, <2>1, <2>2 DEF Switch!Next, Switch!Look
<1>3. CASE \/ NodeConfigFails \/ UpdateLabels \/ ReconcileWithLabels \/ SvUp \/ AwaitSocat
           \/ RefreshFails
  <2>1. UNCHANGED <<fetched, enabled, supervised, process>>
    BY <1>3 DEF NodeConfigFails, UpdateLabels, ReconcileWithLabels, SvUp, AwaitSocat, RefreshFails,
                vars, agentVars, runitVars
  <2> QED BY <1>1, <2>1 DEF Switch!vars, WantPublished, SwitchPhase
<1>4. CASE MoveIn
  <2>1. WantPublished /\ WantPublished' = WantPublished
    BY <1>4 DEF MoveIn, WantPublished, Inv, ScriptForLabel
  <2>2. \/ SwitchPhase' = SwitchPhase
        \/ SwitchPhase = "off" /\ SwitchPhase' = "armed"
    BY <1>4 DEF MoveIn, runitVars, SwitchPhase
  <2> QED BY <1>1, <2>1, <2>2 DEF Switch!Next, Switch!Arm, Switch!vars
<1>5. CASE SvDown \/ MoveAway \/ Pkill
  <2>1. WantPublished' = WantPublished
    BY <1>5 DEF SvDown, MoveAway, Pkill, WantPublished
  <2>2. \/ SwitchPhase' = SwitchPhase
        \/ SwitchPhase = "on" /\ SwitchPhase' = "armed"
        \/ SwitchPhase # "off" /\ SwitchPhase' = "off"
    BY <1>5 DEF SvDown, MoveAway, Pkill, runitVars, SwitchPhase
  <2> QED BY <1>1, <2>1, <2>2 DEF Switch!Next, Switch!Drop, Switch!Disarm, Switch!vars
<1> QED BY <1>2, <1>3, <1>4, <1>5 DEF AgentStep

(* Steps of runit, WireGuard and the container: a process listens only      *)
(* where a runsv is, and a restart is the power cut of the switch.          *)
LEMMA RunitSwitch ==
    ASSUME Inv, Scan \/ RunsvStarts \/ ExecSocat \/ WireguardUp \/ SocatDies \/ Restart
    PROVE  [Switch!Next]_(Switch!vars)
<1>1. SwitchLabel' = SwitchLabel
  BY DEF Scan, RunsvStarts, ExecSocat, WireguardUp, SocatDies, Restart, gatewayVars, SwitchLabel
<1>2. CASE Scan \/ RunsvStarts \/ ExecSocat \/ WireguardUp \/ SocatDies
  <2>1. WantPublished' = WantPublished
    BY <1>2 DEF Scan, RunsvStarts, ExecSocat, WireguardUp, SocatDies, agentVars, WantPublished
  <2>2. \/ SwitchPhase' = SwitchPhase
        \/ SwitchPhase = "armed" /\ SwitchPhase' = "on"
        \/ SwitchPhase = "on" /\ SwitchPhase' = "armed"
        \/ SwitchPhase # "off" /\ SwitchPhase' = "off"
    <3> USE DEF Inv, TypeOK, RunsvForProcess, SwitchPhase
    <3>1. CASE Scan BY <3>1 DEF Scan
    <3>2. CASE RunsvStarts BY <3>2 DEF RunsvStarts
    <3>3. CASE ExecSocat BY <3>3 DEF ExecSocat
    <3>4. CASE WireguardUp BY <3>4 DEF WireguardUp
    <3>5. CASE SocatDies BY <3>5 DEF SocatDies
    <3> QED BY <1>2, <3>1, <3>2, <3>3, <3>4, <3>5
  <2> QED
    BY <1>1, <2>1, <2>2 DEF Switch!Next, Switch!Listen, Switch!Drop, Switch!Disarm, Switch!vars
<1>3. CASE Restart
  <2>1. SwitchPhase' = "off" /\ WantPublished' = FALSE
    BY <1>3 DEF Restart, SwitchPhase, WantPublished
  <2> QED BY <1>1, <2>1 DEF Switch!Next, Switch!PowerCut
<1> QED BY <1>2, <1>3

(* Every step is a step of the switch.                                      *)
LEMMA NextSwitch == Inv /\ [Next]_vars => [Switch!Next]_(Switch!vars)
<1>1. UNCHANGED vars => UNCHANGED Switch!vars
  BY DEF vars, gatewayVars, agentVars, runitVars, Switch!vars, SwitchLabel, SwitchPhase, WantPublished
<1> QED BY <1>1, GatewaySwitch, AgentSwitch, RunitSwitch DEF Next

(* The gateway, the agent, its scripts and runit only take steps of the     *)
(* switch: the socket is armed only after a round has fetched the label,    *)
(* listens only after it was armed, and a restart turns it off until the    *)
(* next look, whatever writers, scripts and processes do in between.        *)
THEOREM ImplementsSwitchSafety == Spec => Switch!Safety
<1>1. Init => Switch!Init
  BY DEF Init, Switch!Init, SwitchLabel, SwitchPhase, WantPublished
<1> QED BY <1>1, InvHolds, NextSwitch, PTL DEF Spec, Switch!Safety
=============================================================================
