-------------------------- MODULE NetworkAppsProofs -------------------------
(***************************************************************************)
(* The restart scheduler loses no request, for any number of join handlers *)
(* at the same time.  Its invariant needs two more facts: a handler that   *)
(* is about to send has started the goroutine, and the flag is set exactly *)
(* between Check and Clear.                                                *)
(***************************************************************************)
EXTENDS NetworkApps, TLAPS

SendersStarted == \A j \in Joins : pc[j] = "send" => started
OnlyStartedRuns == consumer # "receive" => started
FlagFollowsGoroutine == restarting => consumer \in {"sleep", "caddy", "clear"}

Inv ==
    /\ TypeOK
    /\ SendersStarted
    /\ OnlyStartedRuns
    /\ FlagFollowsGoroutine
    /\ NoRestartLost

(* The invariant holds when the gateway process starts.                     *)
LEMMA InitInv == Init => Inv
<1> SUFFICES ASSUME Init PROVE Inv
  OBVIOUS
<1>1. signal \in 0 .. Capacity /\ faults \in 0 .. MaxFaults
  BY NetworkAppsAssumption DEF Init, Capacity
<1>2. /\ started \in BOOLEAN
      /\ restarting \in BOOLEAN
      /\ FlagFollowsGoroutine
  BY Zenon DEF Init, FlagFollowsGoroutine
<1>3. /\ pc \in [Joins -> {"idle", "schedule", "send"}]
      /\ consumer \in {"receive", "check", "sleep", "caddy", "clear"}
      /\ unseen \subseteq Joins
      /\ dropped \subseteq unseen
      /\ SendersStarted
      /\ OnlyStartedRuns
      /\ NoRestartLost
  BY DEF Init, SendersStarted, OnlyStartedRuns, NoRestartLost
<1> QED BY <1>1, <1>2, <1>3 DEF Inv, TypeOK

(* A new process starts with every part of the invariant that is about its  *)
(* memory.                                                                  *)
LEMMA FreshInv ==
  ASSUME Fresh
  PROVE  /\ (pc \in [Joins -> {"idle", "schedule", "send"}])'
         /\ (started \in BOOLEAN /\ restarting \in BOOLEAN)'
         /\ (signal \in 0 .. Capacity)'
         /\ (consumer \in {"receive", "check", "sleep", "caddy", "clear"})'
         /\ SendersStarted' /\ OnlyStartedRuns' /\ FlagFollowsGoroutine'
<1>1. /\ (started \in BOOLEAN /\ restarting \in BOOLEAN)'
      /\ FlagFollowsGoroutine'
  BY Zenon DEF Fresh, FlagFollowsGoroutine
<1>2. (signal \in 0 .. Capacity)'
  BY DEF Fresh, Capacity
<1>3. /\ (pc \in [Joins -> {"idle", "schedule", "send"}])'
      /\ (consumer \in {"receive", "check", "sleep", "caddy", "clear"})'
      /\ SendersStarted' /\ OnlyStartedRuns'
  BY DEF Fresh, SendersStarted, OnlyStartedRuns
<1> QED BY <1>1, <1>2, <1>3

(* Every step of the handlers, the goroutine and the process keeps it.      *)
LEMMA NextInv == Inv /\ [Next]_vars => Inv'
<1> SUFFICES ASSUME Inv, [Next]_vars PROVE Inv'
  OBVIOUS
<1> USE DEF Inv, TypeOK, Capacity, SendersStarted, OnlyStartedRuns, FlagFollowsGoroutine
<1>1. ASSUME NEW j \in Joins, WriteConfig(j) PROVE Inv'
  BY <1>1 DEF WriteConfig, NoRestartLost, Pending
<1>2. ASSUME NEW j \in Joins, Once(j) PROVE Inv'
  BY <1>2 DEF Once, NoRestartLost, Pending
<1>3. ASSUME NEW j \in Joins, Send(j) PROVE Inv'
  (* The handler leaves a signal in the channel, its own or an older one. *)
  <2>1. signal' > 0 /\ started'
    BY <1>3 DEF Send
  <2>2. NoRestartLost'
    BY <2>1, <1>3 DEF Send, NoRestartLost, Pending
  <2> QED BY <2>2, <1>3 DEF Send
<1>4. CASE Receive
  BY <1>4 DEF Receive, NoRestartLost, Pending
<1>5. CASE Check
  (* The flag is clear here, so the goroutine goes on to the restart. *)
  <2>1. consumer' = "sleep"
    BY <1>5 DEF Check
  <2> QED BY <2>1, <1>5 DEF Check, NoRestartLost, Pending
<1>6. CASE RestartCoreDNS
  BY <1>6 DEF RestartCoreDNS, NoRestartLost, Pending
<1>7. CASE RestartCaddy
  BY <1>7 DEF RestartCaddy, NoRestartLost, Pending
<1>8. CASE Clear
  BY <1>8 DEF Clear, NoRestartLost, Pending
<1>9. ASSUME NEW j \in Joins, HandlerFails(j) PROVE Inv'
  BY <1>9, NetworkAppsAssumption DEF HandlerFails, Fault, NoRestartLost, Pending
<1>10. CASE ProcessEnds
  (* Whatever was unseen counts as dropped from here on. *)
  BY <1>10, FreshInv, NetworkAppsAssumption DEF ProcessEnds, Fault, NoRestartLost, Pending
<1>11. CASE ContainerRestarts
  BY <1>11, FreshInv, NetworkAppsAssumption DEF ContainerRestarts, Fault, NoRestartLost, Pending
<1>12. CASE UNCHANGED vars
  BY <1>12 DEF vars, NoRestartLost, Pending
<1> QED
  BY <1>1, <1>2, <1>3, <1>4, <1>5, <1>6, <1>7, <1>8, <1>9, <1>10, <1>11, <1>12
  DEF Next, Schedule, Goroutine

(* The invariant that the theorems below are read off. *)
THEOREM InvHolds == Spec => []Inv
  BY InitInv, NextInv, PTL DEF Spec

(* The variables of the scheduler keep their types, and the channel holds   *)
(* at most one signal.                                                      *)
THEOREM SchedulerTypes == Spec => []TypeOK
<1>1. Inv => TypeOK
  BY DEF Inv
<1> QED BY <1>1, InvHolds, PTL

(* A configuration that CoreDNS was not restarted for has a restart to      *)
(* come, unless its handler failed or its process ended: dropping a request *)
(* when the channel is full loses nothing.                                  *)
THEOREM RestartsAreNotLost == Spec => []NoRestartLost
<1>1. Inv => NoRestartLost
  BY DEF Inv
<1> QED BY <1>1, InvHolds, PTL

(* The check of isNetworkAppsRestarting never skips a signal.               *)
THEOREM SignalsAreNotSkipped == Spec => []NeverSkips
<1>1. Inv => NeverSkips
  BY DEF Inv, FlagFollowsGoroutine, NeverSkips
<1> QED BY <1>1, InvHolds, PTL
=============================================================================
