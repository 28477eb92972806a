---------------------------- MODULE SocketSwitch ----------------------------
(***************************************************************************)
(* What the label docker-socket-published promises: a switch on the        *)
(* gateway, a server that looks at it from time to time, and a socket that *)
(* is published only after the server has seen the switch on, and that     *)
(* follows a switch that is left alone.                                    *)
(***************************************************************************)
VARIABLES
    label,  \* the switch: "set", "unset", or "gone" with the server's row
    seen,   \* the server saw it set when it looked last
    phase   \* the socket: "off", "armed" (about to be published), "on"

vars == <<label, seen, phase>>

Init == label = "unset" /\ seen = FALSE /\ phase = "off"

(* Somebody sets the switch, clears it, or removes the server for good.     *)
Flip ==
    /\ label # "gone"
    /\ label' \in {"set", "unset", "gone"}
    /\ UNCHANGED <<seen, phase>>

Look ==
    /\ label # "gone"
    /\ seen' = (label = "set")
    /\ UNCHANGED <<label, phase>>

(* The only way out of "off".                                               *)
Arm ==
    /\ phase = "off"
    /\ seen
    /\ phase' = "armed"
    /\ UNCHANGED <<label, seen>>

Listen ==
    /\ phase = "armed"
    /\ phase' = "on"
    /\ UNCHANGED <<label, seen>>

Drop ==
    /\ phase = "on"
    /\ phase' = "armed"
    /\ UNCHANGED <<label, seen>>

Disarm ==
    /\ phase # "off"
    /\ phase' = "off"
    /\ UNCHANGED <<label, seen>>

(* A restart of the server: off, until it has looked again.                 *)
PowerCut ==
    /\ phase' = "off"
    /\ seen' = FALSE
    /\ UNCHANGED label

Next == Flip \/ Look \/ Arm \/ Listen \/ Drop \/ Disarm \/ PowerCut

(* The safety part alone: which steps the switch may take.                  *)
Safety == Init /\ [][Next]_vars

FollowsOn == <>[](label = "set") => <>[](phase = "on")
FollowsOff == <>[](label = "unset") => <>[](phase = "off")

Spec == Safety /\ FollowsOn /\ FollowsOff
=============================================================================
