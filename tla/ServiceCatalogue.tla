-------------------------- MODULE ServiceCatalogue --------------------------
(***************************************************************************)
(* What the public_services table promises: a map from public addresses to *)
(* publications in which a command changes one entry in one step.          *)
(***************************************************************************)

CONSTANTS
    Keys,    \* public addresses (protocol, host, port): the primary key
    Locals,  \* local addresses a publication forwards to
    Nodes,   \* nodes that publish
    Params,  \* Caddy directives a publication may carry
    None     \* no value

VARIABLE table

Publication == [local: Locals, by: Nodes, params: SUBSET Params]
NoPublication == [local |-> None, by |-> None, params |-> {}]
Table == [Keys -> Publication \cup {NoPublication}]
EmptyTable == [k \in Keys |-> NoPublication]

Published(t) == {k \in Keys : t[k] # NoPublication}

(* Publishing an address again replaces the publication and its directives. *)
Publish(k, l, n) ==
    table' = [table EXCEPT ![k] = [local |-> l, by |-> n, params |-> {}]]

Unpublish(k) ==
    /\ k \in Published(table)
    /\ table' = [table EXCEPT ![k] = NoPublication]

AddParam(k, p) ==
    /\ k \in Published(table)
    /\ p \notin table[k].params
    /\ table' = [table EXCEPT ![k].params = @ \cup {p}]

RemoveParam(k, p) ==
    /\ k \in Published(table)
    /\ p \in table[k].params
    /\ table' = [table EXCEPT ![k].params = @ \ {p}]

Init == table = EmptyTable

Next ==
    \E k \in Keys :
        \/ \E l \in Locals, n \in Nodes : Publish(k, l, n)
        \/ Unpublish(k)
        \/ \E p \in Params : AddParam(k, p) \/ RemoveParam(k, p)

Spec == Init /\ [][Next]_table
=============================================================================
