----------------------------- MODULE MCRealtime -----------------------------
(* Two processes, two client events and a command.  The processes have     *)
(* names of their own, or, as in containers where both are process 1, one. *)
EXTENDS RealtimeOutbox, TLC

CONSTANTS e1, e2, c1, n1, n2, a, b

MCNamings == {(n1 :> a) @@ (n2 :> b), [n \in Nodes |-> a]}
=============================================================================
