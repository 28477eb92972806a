---------------------------- MODULE NetworkApps -----------------------------
(***************************************************************************)
(* ScheduleNetworkAppsRestart: the join of a server writes the DNS         *)
(* configuration and asks for a restart of CoreDNS and Caddy ten seconds   *)
(* later.  The requests go through a channel with room for one to a single *)
(* goroutine, which the first request starts; a request that finds the     *)
(* channel full is dropped.  All of it lives in the memory of the gateway  *)
(* process, which runit starts again when it ends; CoreDNS runs beside it. *)
(***************************************************************************)
EXTENDS Naturals

CONSTANTS
    Joins,     \* join handlers that run at the same time
    MaxFaults  \* bound on handlers that fail and on ends of the process or container

ASSUME NetworkAppsAssumption == MaxFaults \in Nat

VARIABLES
    pc,         \* per handler: "idle", "schedule" (configuration written), "send"
    started,    \* networkAppsRestartOnce has run
    signal,     \* number of values in networkAppsRestartChan
    consumer,   \* what the goroutine does next
    restarting, \* isNetworkAppsRestarting
    unseen,     \* history: handlers whose configuration CoreDNS was not restarted for
    dropped,    \* history: those of them whose handler failed or whose process ended
    faults      \* faults so far

vars == <<pc, started, signal, consumer, restarting, unseen, dropped, faults>>

Capacity == 1

TypeOK ==
    /\ pc \in [Joins -> {"idle", "schedule", "send"}]
    /\ started \in BOOLEAN
    /\ signal \in 0 .. Capacity
    /\ consumer \in {"receive", "check", "sleep", "caddy", "clear"}
    /\ restarting \in BOOLEAN
    /\ unseen \subseteq Joins
    /\ dropped \subseteq unseen
    /\ faults \in 0 .. MaxFaults

Fault == faults < MaxFaults /\ faults' = faults + 1

-----------------------------------------------------------------------------
(* A handler has written its Corefile (see SaveConfigs in Registry).        *)
WriteConfig(j) ==
    /\ pc[j] = "idle"
    /\ pc' = [pc EXCEPT ![j] = "schedule"]
    /\ unseen' = unseen \cup {j}
    /\ dropped' = dropped \ {j}
    /\ UNCHANGED <<started, signal, consumer, restarting, faults>>

(* The certificate is not removed or the row not saved: the handler returns *)
(* before it asks for the restart.                                          *)
HandlerFails(j) ==
    /\ pc[j] = "schedule"
    /\ Fault
    /\ pc' = [pc EXCEPT ![j] = "idle"]
    /\ dropped' = dropped \cup ({j} \cap unseen)
    /\ UNCHANGED <<started, signal, consumer, restarting, unseen>>

(* networkAppsRestartOnce.Do: the first call starts the goroutine.          *)
Once(j) ==
    /\ pc[j] = "schedule"
    /\ pc' = [pc EXCEPT ![j] = "send"]
    /\ started' = TRUE
    /\ UNCHANGED <<signal, consumer, restarting, unseen, dropped, faults>>

(* Mistaken variant: a restart under way is taken for a pending one. *)
SendUnlessRestarting(j) ==
    /\ pc[j] = "send"
    /\ pc' = [pc EXCEPT ![j] = "idle"]
    /\ signal' = IF signal < Capacity /\ ~restarting THEN signal + 1 ELSE signal
    /\ UNCHANGED <<started, consumer, restarting, unseen, dropped, faults>>

(* Mistaken variant: the channel takes every request. *)
SendBeyondCapacity(j) ==
    /\ pc[j] = "send"
    /\ pc' = [pc EXCEPT ![j] = "idle"]
    /\ signal' = signal + 1
    /\ UNCHANGED <<started, consumer, restarting, unseen, dropped, faults>>

(* The non-blocking send.                                                   *)
Send(j) ==
    /\ pc[j] = "send"
    /\ pc' = [pc EXCEPT ![j] = "idle"]
    /\ signal' = IF signal < Capacity THEN signal + 1 ELSE signal
    /\ UNCHANGED <<started, consumer, restarting, unseen, dropped, faults>>

-----------------------------------------------------------------------------
(* The goroutine *)

Receive ==
    /\ started
    /\ consumer = "receive"
    /\ signal > 0
    /\ signal' = signal - 1
    /\ consumer' = "check"
    /\ UNCHANGED <<pc, started, restarting, unseen, dropped, faults>>

(* Mistaken variant: the restart is put off while another request waits. *)
CheckPutsOff ==
    /\ consumer = "check"
    /\ consumer' = IF restarting \/ signal > 0 THEN "receive" ELSE "sleep"
    /\ restarting' = (restarting \/ signal = 0)
    /\ UNCHANGED <<pc, started, signal, unseen, dropped, faults>>

(* Under the mutex: skip when a restart is under way.                       *)
Check ==
    /\ consumer = "check"
    /\ consumer' = IF restarting THEN "receive" ELSE "sleep"
    /\ restarting' = TRUE
    /\ UNCHANGED <<pc, started, signal, unseen, dropped, faults>>

(* The delay is over: RestartNetworkApps(false, true, true) stops CoreDNS,  *)
(* which runit starts again with the Corefile as it is now.                 *)
RestartCoreDNS ==
    /\ consumer = "sleep"
    /\ consumer' = "caddy"
    /\ unseen' = {}
    /\ dropped' = {}
    /\ UNCHANGED <<pc, started, signal, restarting, faults>>

(* Caddy is next; its error is logged.                                      *)
RestartCaddy ==
    /\ consumer = "caddy"
    /\ consumer' = "clear"
    /\ UNCHANGED <<pc, started, signal, restarting, unseen, dropped, faults>>

(* Mistaken variant: the flag is not cleared. *)
ClearForgotten ==
    /\ consumer = "clear"
    /\ consumer' = "receive"
    /\ UNCHANGED <<pc, started, signal, restarting, unseen, dropped, faults>>

Clear ==
    /\ consumer = "clear"
    /\ consumer' = "receive"
    /\ restarting' = FALSE
    /\ UNCHANGED <<pc, started, signal, unseen, dropped, faults>>

-----------------------------------------------------------------------------
(* The process and the container *)

Fresh ==
    /\ pc' = [j \in Joins |-> "idle"]
    /\ started' = FALSE
    /\ signal' = 0
    /\ consumer' = "receive"
    /\ restarting' = FALSE

(* The gateway process ends and runit starts it again.  CoreDNS goes on     *)
(* with the file it has read: gateway start does not restart it.            *)
ProcessEnds ==
    /\ Fault
    /\ Fresh
    /\ dropped' = unseen
    /\ UNCHANGED unseen

(* The container restarts, and CoreDNS with it.                             *)
ContainerRestarts ==
    /\ Fault
    /\ Fresh
    /\ unseen' = {}
    /\ dropped' = {}

Goroutine == Receive \/ Check \/ RestartCoreDNS \/ RestartCaddy \/ Clear

Init ==
    /\ pc = [j \in Joins |-> "idle"]
    /\ started = FALSE
    /\ signal = 0
    /\ consumer = "receive"
    /\ restarting = FALSE
    /\ unseen = {}
    /\ dropped = {}
    /\ faults = 0

Schedule(j) == Once(j) \/ Send(j)

Next ==
    \/ \E j \in Joins : WriteConfig(j) \/ Schedule(j) \/ HandlerFails(j)
    \/ Goroutine
    \/ ProcessEnds \/ ContainerRestarts

(* The Go scheduler runs the goroutine and every handler that has begun.    *)
Fairness == WF_vars(Goroutine) /\ \A j \in Joins : WF_vars(Schedule(j))

Spec == Init /\ [][Next]_vars /\ Fairness

-----------------------------------------------------------------------------
(* No request for a restart is lost but with the process: while CoreDNS has *)
(* not been restarted since a handler wrote its configuration, that handler *)
(* is still in its call, or a signal waits in the channel of a started      *)
(* goroutine, or the goroutine holds one and has not restarted CoreDNS yet, *)
(* or the handler failed or its process ended.  A request that finds the    *)
(* channel full relies on the one in the channel being received later.      *)
Pending(j) ==
    \/ pc[j] # "idle"
    \/ started /\ (signal > 0 \/ consumer \in {"check", "sleep"})
NoRestartLost == \A j \in unseen : Pending(j) \/ j \in dropped

(* The goroutine never finds a restart under way, and no signal is skipped: *)
(* it is the only one that sets the flag, and a new process has a new one.  *)
NeverSkips == consumer = "check" => ~restarting

(* routes.go: "to ensure coredns picks up the new server node".  Every      *)
(* configuration is followed by a restart of CoreDNS that begins later,     *)
(* unless its handler fails or the process ends before.                     *)
PicksUp == \A j \in Joins : j \in unseen ~> (j \notin unseen \/ j \in dropped)

(* A dropped restart is made good by the next join that is served: once a   *)
(* signal is in the channel, a restart follows that reads the whole file,   *)
(* unless the process ends again.                                           *)
NextJoinHeals == started /\ signal > 0 ~> (dropped = {} \/ ~started)
=============================================================================
