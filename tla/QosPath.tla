------------------------------ MODULE QosPath ------------------------------
(***************************************************************************)
(* Where a gateway relay meets the traffic shaping of src/src/qos.rs: the  *)
(* two halves of relay_packets look into every packet, remember for a      *)
(* while which addresses the DNS answers among them gave to the names of   *)
(* streaming services, and wait for the limiter before they forward a      *)
(* packet whose address they remember.  The limiter is RateLimiter, with   *)
(* the two halves as its consumers.                                        *)
(*                                                                         *)
(* Packets and what is read in them are those of Snoop.  The far end of a  *)
(* packet is the one that is not in the client's network.                  *)
(***************************************************************************)
EXTENDS Snoop

CONSTANTS Role,        \* the command: "client" (connect) or "server" (serve)
          Packets,     \* the packets that may arrive
          QueueCap,    \* packets waiting in front of either half
          TTL,         \* CLASSIFICATION_TTL, in ticks
          Rates, BurstTicks, MaxPacket   \* of the limiter

VARIABLES
    queue,    \* packets that each half has yet to forward, in order
    remains,  \* per address, ticks until its entry expires; -1 is no entry
    heard,    \* history: per address, what remains of TTL since an answer
              \* last gave it to a streaming service, -1 if none has within TTL
    meter,    \* history: bytes to or from addresses in heard that were let
              \* through in excess of the rate
    rate, burst, tokens, accrued, pc, need, left   \* of the limiter

seenVars == <<remains, heard>>
limVars == <<rate, burst, tokens, accrued, pc, need, left>>
vars == <<queue, seenVars, meter, limVars>>

Half == {"tun_to_agg", "agg_to_tun"}

Limiter == INSTANCE RateLimiter WITH Consumers <- Half

Near == "near"

\* The addresses of streaming services: those that some answer gives to one.
Streaming == UNION {Given(p) : p \in Packets}

Host == {p.far : p \in Packets} \cup Streaming

ASSUME PathAssumption ==
    /\ Role \in {"client", "server"}
    /\ Near \notin Host
    /\ Rates \subseteq Nat
    /\ {BurstTicks, MaxPacket, TTL} \subseteq Nat
    /\ \A p \in Packets : p.len \in 1..MaxPacket
    /\ \A p \in Packets : \A a \in Answers(p) : a.name \in Seq(STRING)
    /\ QueueCap \in Nat \ {0}

TypeOK ==
    /\ Limiter!TypeOK
    /\ queue \in [Half -> Seq(Packets)]
    /\ \A h \in Half : Len(queue[h]) <= QueueCap
    /\ remains \in [Host -> -1..TTL]
    /\ heard \in [Host -> -1..TTL]
    /\ meter \in Nat
    /\ \A h \in Half :
          pc[h] = "wait" => queue[h] # <<>> /\ need[h] = Head(queue[h]).len

Init ==
    /\ Limiter!Init
    /\ queue = [h \in Half |-> <<>>]
    /\ remains = [a \in Host |-> -1]
    /\ heard = [a \in Host |-> -1]
    /\ meter = 0

-----------------------------------------------------------------------------
\* The half that carries packets away from the near end: at the client they
\* come in by the device, at the server by the bonded connection.
Outward(h) == (Role = "client") <=> (h = "tun_to_agg")

Dest(p, h) == IF Outward(h) THEN p.far ELSE Near
Src(p, h) == IF Outward(h) THEN Near ELSE p.far

\* The address by which relay_packets classifies a packet.
LookedUp(p, h) == IF h = "tun_to_agg" THEN Dest(p, h) ELSE Src(p, h)

\* Mutant: an entry is not renewed while it lasts.
ObservedOnce(p) ==
    [a \in Host |-> IF a \in Revealed(p) /\ remains[a] < 0 THEN TTL ELSE remains[a]]

\* The entries once observe_ipv4_packet has seen p: a new answer renews them.
Observed(p) == [a \in Host |-> IF a \in Revealed(p) THEN TTL ELSE remains[a]]

\* The same for the history.
Heard(p) == [a \in Host |-> IF a \in Given(p) THEN TTL ELSE heard[a]]

\* is_classified: the near end never is, for no answer names it.
Classified(entries, a) == a \in Host /\ entries[a] >= 0

\* Whether relay_packets finds p classified, by the entries that include what
\* p itself reveals.
Limited(p, h) == ParsesIpv4(p) /\ Classified(Observed(p), LookedUp(p, h))

-----------------------------------------------------------------------------
Arrive(h) ==
    /\ Len(queue[h]) < QueueCap
    /\ \E p \in Packets : queue' = [queue EXCEPT ![h] = Append(@, p)]
    /\ UNCHANGED <<seenVars, meter, limVars>>

\* Mutant: the wait for the limiter is a task of its own, not awaited.
NeverBusy(h) == TRUE

\* The half has forwarded the last packet and turns to the next.
AtNextPacket(h) == pc[h] = "idle"

\* A packet that is not to be limited is forwarded at once.
Forward(h) ==
    /\ AtNextPacket(h) /\ queue[h] # <<>>
    /\ LET p == Head(queue[h]) IN
          /\ ~Limited(p, h)
          /\ remains' = Observed(p)
          /\ heard' = Heard(p)
          /\ meter' = IF Classified(heard', p.far) THEN meter + p.len ELSE meter
    /\ queue' = [queue EXCEPT ![h] = Tail(@)]
    /\ UNCHANGED limVars

\* The others have to pass the limiter first.
Throttle(h) ==
    /\ AtNextPacket(h) /\ queue[h] # <<>>
    /\ LET p == Head(queue[h]) IN
          /\ Limited(p, h)
          /\ remains' = Observed(p)
          /\ heard' = Heard(p)
          /\ Limiter!Call(h)
          /\ need'[h] = p.len
    /\ UNCHANGED <<queue, meter>>

\* consume returns, and the packet is forwarded.
Pass(h) ==
    /\ Limiter!Admit(h)
    /\ meter' = meter + Head(queue[h]).len
    /\ queue' = [queue EXCEPT ![h] = Tail(@)]
    /\ UNCHANGED seenVars

\* consume goes to sleep.
Doze(h) ==
    /\ Limiter!Sleep(h)
    /\ UNCHANGED <<queue, seenVars, meter>>

Aged(entries) ==
    [a \in Host |-> IF entries[a] < 0 THEN -1 ELSE entries[a] - 1]

\* Time passes for the limiter, the entries and the meter.
Tick ==
    /\ Limiter!Tick
    /\ remains' = Aged(remains)
    /\ heard' = Aged(heard)
    /\ meter' = Limiter!AtLeast(0, meter - rate)
    /\ UNCHANGED queue

Next ==
    \/ Tick
    \/ \E h \in Half :
          \/ Arrive(h)
          \/ Forward(h)
          \/ Throttle(h)
          \/ Pass(h)
          \/ Doze(h)

Spec == Init /\ [][Next]_vars

-----------------------------------------------------------------------------
(***************************************************************************)
(* Properties.                                                             *)
(***************************************************************************)

\* The traffic of the streaming services, both directions together, stays
\* within the configured rate: over any time no more is forwarded, to or from
\* an address that a DNS answer has lately given to such a service, than the
\* rate allows, but for one burst or one packet (relay_packets, Classifier and
\* RateLimiter together).
StreamingBounded == meter <= Limiter!AtLeast(burst, MaxPacket)

\* Only they are limited: a packet is not sent through the limiter unless a DNS
\* answer has lately given its far end to a streaming service
\* (observe_ipv4_packet, is_classified).
OnlyStreamingThrottled ==
    [][\A h \in Half : Throttle(h) => heard'[Head(queue[h]).far] >= 0]_vars

\* What other traffic can lose to the limiter, since a half awaits consume before
\* it turns to the next packet: the half sleeps for a streaming packet only, and
\* however the other half has used the bucket, no single sleep is longer than
\* that packet and the debt of one packet above the burst take to accrue.
OthersHeldBriefly ==
    \A h \in Half : pc[h] = "wait" =>
        LET p == Head(queue[h]) IN
        /\ p.far \in Streaming
        /\ left[h] <= p.len + Limiter!AtLeast(0, MaxPacket - burst)
=============================================================================
