------------------------------ MODULE Records ------------------------------
(* A record some of whose fields change. *)
Updated(old, new) ==
    [f \in DOMAIN old |-> IF f \in DOMAIN new THEN new[f] ELSE old[f]]
=============================================================================
