---------------------------- MODULE MCReconcile -----------------------------
(* Instances of Reconcile for TLC. *)
EXTENDS Reconcile

CONSTANTS s1, s2, c1

Address(protocol, host, port) == [protocol |-> protocol, host |-> host, port |-> port]

(* Two public addresses on one listener, and two local addresses. *)
Web == Address("tcp", "web", 32420)
Wiki == Address("tcp", "wiki", 32420)
App == Address("http", "app", 3000)
Db == Address("http", "db", 3000)
Pair(container, local, public) ==
    [container |-> container, local |-> local, public |-> public]

TwoKeys == {Web, Wiki}
OneKey == {Web}
OneLocal == {App}
TwoLocals == {App, Db}
AppOnly == {"app"}

(* A pair and the one that it is changed to; a pair and one whose local     *)
(* host is not its container.                                               *)
Changed == {Pair("app", App, Web), Pair("app", App, Wiki)}
ValidAndNot == {Pair("app", App, Web), Pair("app", Db, Web)}

OneServer == {s1}
TwoServers == {s1, s2}
ServerAndClient == {s1, c1}
Nobody == {}
=============================================================================
