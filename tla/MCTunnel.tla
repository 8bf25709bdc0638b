------------------------------ MODULE MCTunnel ------------------------------
(***************************************************************************)
(* Tunnel on a small instance: one byte from the client and two from the   *)
(* service, so that chunks coalesce or not, against a link that holds less *)
(* than one frame and a socket that holds one byte.                        *)
(***************************************************************************)
EXTENDS TunnelInv

OneUpTwoDown == [s \in Side |-> IF s = "connect" THEN 1 ELSE 2]
=============================================================================
