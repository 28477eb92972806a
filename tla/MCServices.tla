----------------------------- MODULE MCServices -----------------------------
(* An instance of Services for TLC. *)
EXTENDS Services

CONSTANTS w1, n1, p1

Address(protocol, host, port) == [protocol |-> protocol, host |-> host, port |-> port]

(* The second service cannot be rendered. *)
OddKeys == {Address("https", "demo", 443), Address("https", "gateway", 443)}
WebApp == {Address("http", "app", 3000)}

OneNode == {n1}
OneWorker == {w1}
OneParam == {p1}
AddressHosts == {"gateway", "0.0.0.0"}
=============================================================================
