----------------------------- MODULE MCGateway -----------------------------
(***************************************************************************)
(* Gateway on small instances: two or three connections, one after the     *)
(* other, and a couple of packets each way.                                *)
(***************************************************************************)
EXTENDS Gateway

TwoUp == [s \in Side |-> IF s = "client" THEN 2 ELSE 1]
ThreeUp == [s \in Side |-> IF s = "client" THEN 3 ELSE 1]
=============================================================================
