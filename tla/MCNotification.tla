--------------------------- MODULE MCNotification ---------------------------
(***************************************************************************)
(* A small instance of NotificationPipeline: two events, of which one has  *)
(* three devices, two of them sharing a token.                             *)
(***************************************************************************)
EXTENDS NotificationPipeline, TLC

CONSTANTS e1, e2, p1, p2, w1, w2, i1, d1, d2, d3, t1, t2

OneInstance == [w \in Slots |-> i1]
Owners      == [e \in Events |-> IF e = e1 THEN Devices ELSE {}]
SharedToken == [d \in Devices |-> IF d = d3 THEN t2 ELSE t1]
=============================================================================
