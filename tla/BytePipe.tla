------------------------------ MODULE BytePipe ------------------------------
(***************************************************************************)
(* What the bonded tunnel promises the two applications it connects: a     *)
(* duplex byte pipe that may break.  Each side receives a prefix of what   *)
(* the other side has passed into the pipe, every byte once and in order.  *)
(* A side that ends without an error has passed on everything it was given *)
(* and has received everything that its peer, which has ended too, passed. *)
(***************************************************************************)
EXTENDS Integers, Sequences

CONSTANT Side, Peer(_)

VARIABLES
    given,   \* bytes the application has put in, numbered 1, 2, ...
    passed,  \* of these, bytes that have left this side for good
    got,     \* the bytes that have come out at this side
    status   \* "live", "finished" (no error) or "broken"

pipeVars == <<given, passed, got, status>>

Init ==
    /\ given = [s \in Side |-> 0]
    /\ passed = [s \in Side |-> 0]
    /\ got = [s \in Side |-> <<>>]
    /\ status = [s \in Side |-> "live"]

Give(s) ==
    /\ status[s] = "live"
    /\ given' = [given EXCEPT ![s] = @ + 1]
    /\ UNCHANGED <<passed, got, status>>

Pass(s) ==
    /\ status[s] = "live"
    /\ passed' \in {[passed EXCEPT ![s] = n] : n \in (passed[s] + 1)..given[s]}
    /\ UNCHANGED <<given, got, status>>

\* The next bytes of the peer, and never more than it has passed.
Deliver(s) ==
    /\ status[s] = "live"
    /\ \E n \in 1..(passed[Peer(s)] - Len(got[s])) :
          got' = [got EXCEPT ![s] = @ \o [i \in 1..n |-> Len(@) + i]]
    /\ UNCHANGED <<given, passed, status>>

Finish(s) ==
    /\ status[s] = "live"
    /\ passed[s] = given[s]
    /\ status[Peer(s)] # "live"
    /\ Len(got[s]) = passed[Peer(s)]
    /\ status' = [status EXCEPT ![s] = "finished"]
    /\ UNCHANGED <<given, passed, got>>

Break(s) ==
    /\ status[s] = "live"
    /\ status' = [status EXCEPT ![s] = "broken"]
    /\ UNCHANGED <<given, passed, got>>

Next ==
    \E s \in Side :
        \/ Give(s)
        \/ Pass(s)
        \/ Deliver(s)
        \/ Finish(s)
        \/ Break(s)

Spec == Init /\ [][Next]_pipeVars
=============================================================================
