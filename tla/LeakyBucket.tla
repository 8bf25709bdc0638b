---------------------------- MODULE LeakyBucket -----------------------------
(***************************************************************************)
(* The traffic shaping that the QoS limiter promises: a meter that every   *)
(* admitted byte raises and time lowers at the configured rate, down to    *)
(* zero.  A packet is admitted only if the part of it that can fit in the  *)
(* capacity does.  Over any span of t ticks at most                        *)
(*                                                                         *)
(*    rate * t  +  the larger of the capacity and one packet               *)
(*                                                                         *)
(* bytes are admitted, because that is a bound of the meter (MeterBound).  *)
(***************************************************************************)
EXTENDS Integers

CONSTANTS Rates,       \* rates, in bytes per tick, that may be configured
          BurstTicks,  \* ticks of traffic that may pass at once
          MaxPacket    \* the largest packet

VARIABLES meter, rate, cap

AtMost(a, b) == IF a <= b THEN a ELSE b
AtLeast(a, b) == IF a >= b THEN a ELSE b

Init ==
    /\ rate \in Rates
    /\ cap = rate * BurstTicks
    /\ meter = 0

Drain ==
    /\ meter' = AtLeast(0, meter - rate)
    /\ UNCHANGED <<rate, cap>>

Admit(n) ==
    /\ meter + AtMost(n, cap) <= cap
    /\ meter' = meter + n
    /\ UNCHANGED <<rate, cap>>

Next == Drain \/ \E n \in 1..MaxPacket : Admit(n)

Spec == Init /\ [][Next]_<<meter, rate, cap>>

\* What has been admitted in excess of the rate never exceeds the capacity, or
\* one packet where a packet is larger than the capacity.
MeterBound == meter \in 0..AtLeast(cap, MaxPacket)
=============================================================================
