---------------------------- MODULE BoundedPool ----------------------------
(***************************************************************************)
(* What every admission mechanism of the system promises: at most Capacity *)
(* clients are inside, and a client that is inside leaves.  asyncio hands  *)
(* a freed place directly to a waiting client, hence HandOver.             *)
(***************************************************************************)
EXTENDS Integers, FiniteSets

CONSTANTS Clients, Capacity

VARIABLE inside

Init == inside = {}

Enter(c) ==
    /\ c \notin inside
    /\ Cardinality(inside) < Capacity
    /\ inside' = inside \cup {c}

Leave(c) ==
    /\ c \in inside
    /\ inside' = inside \ {c}

HandOver(c, d) ==
    /\ c \in inside
    /\ d \in Clients \ inside
    /\ inside' = (inside \ {c}) \cup {d}

Exit(c) == Leave(c) \/ \E d \in Clients : HandOver(c, d)

Next == \E c \in Clients : Enter(c) \/ Exit(c)

Safety == Init /\ [][Next]_inside

Fairness == \A c \in Clients : WF_inside(Exit(c))

Spec == Safety /\ Fairness
=============================================================================
