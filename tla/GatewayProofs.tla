--------------------------- MODULE GatewayProofs ----------------------------
(***************************************************************************)
(* Proofs about Gateway, for any number of connections, packets and        *)
(* crashes, and any capacities: the type invariant, that what a relay has  *)
(* read is lost only with its connection, and that the gateway implements  *)
(* PacketPath, from which the two delivery properties follow.              *)
(***************************************************************************)
EXTENDS Gateway, SequenceTheorems, TLAPS

\* Relays exist for the connections that have been established.
RelaysKnown == \A r \in Relay : relay[r] # "none" => r[2] <= conns

GatewayInv ==
    /\ TypeOK
    /\ RelaysKnown

LEMMA Relays ==
    /\ \A s \in Side : Peer(s) \in Side /\ Peer(s) # s /\ Peer(Peer(s)) = s
    /\ \A r \in Relay :
          /\ r[1] \in Side /\ r[2] \in Conn /\ r = <<r[1], r[2]>>
          /\ Other(r) \in Relay /\ Other(r) # r /\ Other(Other(r)) = r
          /\ Other(r)[1] = Peer(r[1]) /\ Other(r)[2] = r[2]
  BY DEF Side, Peer, Relay, Other

LEMMA Bounds ==
    /\ MaxConns \in Nat /\ Conn \subseteq Nat \ {0}
    /\ QueueCap \in Nat \ {0} /\ WireCap \in Nat \ {0}
    /\ \A s \in Side : MaxPackets[s] \in Nat /\ Packet(s) \subseteq Nat \ {0}
  BY GatewayAssumption DEF Conn, Packet

-----------------------------------------------------------------------------
(***************************************************************************)
(* Type correctness.                                                       *)
(***************************************************************************)
LEMMA TypeInit == Init => GatewayInv
<1> SUFFICES ASSUME Init PROVE GatewayInv
  OBVIOUS
<1>1. CtlTypeOK
  BY Bounds DEF Init, CtlTypeOK
<1>2. FlowTypeOK
  BY Bounds DEF Init, FlowTypeOK
<1>3. TunTypeOK
  <2>1. ASSUME NEW s \in Side
        PROVE  /\ made[s] = 0 /\ tunq[s] = <<>> /\ out[s] = <<>>
               /\ via[s] = [p \in Packet(s) |-> 0]
    BY DEF Init
  <2>2. {DOMAIN made, DOMAIN tunq, DOMAIN via, DOMAIN out} = {Side}
    BY DEF Init
  <2>3. ASSUME NEW s \in Side
        PROVE  /\ made[s] \in 0..MaxPackets[s]
               /\ tunq[s] \in Seq(1..made[s]) /\ Len(tunq[s]) <= QueueCap
               /\ out[s] \in Seq(Packet(Peer(s)) \X Conn)
    <3>1. \A S : <<>> \in Seq(S) /\ Len(<<>>) = 0
      BY EmptySeq
    <3>2. 0 \in 0..MaxPackets[s] /\ 0 <= QueueCap
      BY Bounds
    <3> QED
      BY <2>1, <3>1, <3>2, Zenon
  <2>4. \A s \in Side : via[s] \in [Packet(s) -> 0..conns]
    <3>1. 0 \in 0..conns
      BY DEF Init
    <3> QED
      BY <2>1, <3>1, Zenon
  <2> QED
    BY <2>2, <2>3, <2>4 DEF TunTypeOK
<1>4. RelaysKnown
  BY DEF Init, RelaysKnown
<1> QED
  BY <1>1, <1>2, <1>3, <1>4 DEF GatewayInv, TypeOK

\* The loop of the client, a lost link and a restart touch no packet.
LEMMA TypeControl ==
    ASSUME GatewayInv,
           DialFail \/ Wake \/ (\E k \in Conn : LinkLost(k))
               \/ \E s \in Side : Restart(s)
    PROVE  GatewayInv'
<1>1. UNCHANGED <<conns, relay, inbound, flowVars, tunVars, sameKey>>
  BY DEF DialFail, Wake, LinkLost, Restart
<1>2. CtlTypeOK'
  <2>1. proc' \in [Side -> BOOLEAN] /\ client' \in {"dialing", "relay", "backoff"}
    BY DEF GatewayInv, TypeOK, CtlTypeOK, DialFail, Wake, LinkLost, Restart
  <2>2. link' \in [Conn -> {"none", "up", "down"}]
    BY DEF GatewayInv, TypeOK, CtlTypeOK, DialFail, Wake, LinkLost, Restart
  <2> QED
    BY <1>1, <2>1, <2>2 DEF GatewayInv, TypeOK, CtlTypeOK
<1>3. FlowTypeOK'
  BY <1>1 DEF GatewayInv, TypeOK, FlowTypeOK, flowVars
<1>4. TunTypeOK'
  BY <1>1 DEF GatewayInv, TypeOK, TunTypeOK, tunVars
<1>5. RelaysKnown'
  BY <1>1 DEF GatewayInv, RelaysKnown
<1> QED
  BY <1>2, <1>3, <1>4, <1>5 DEF GatewayInv, TypeOK

LEMMA TypeDialOk ==
    ASSUME GatewayInv, DialOk
    PROVE  GatewayInv'
<1>1. /\ conns \in Nat /\ conns < MaxConns /\ conns' = conns + 1
      /\ conns + 1 \in Conn
      /\ relay' = [r \in Relay |-> IF r[2] = conns + 1 THEN "run" ELSE relay[r]]
      /\ UNCHANGED <<proc, inbound, flowVars, tunVars, sameKey>>
  BY Bounds DEF DialOk, GatewayInv, TypeOK, CtlTypeOK, Conn
<1>2. CtlTypeOK'
  <2>1. conns' \in 0..MaxConns
    BY <1>1, Bounds
  <2>2. relay' \in [Relay -> {"none", "run", "closed", "dead"}]
    BY <1>1 DEF GatewayInv, TypeOK, CtlTypeOK
  <2>3. /\ link' \in [Conn -> {"none", "up", "down"}]
        /\ client' \in {"dialing", "relay", "backoff"}
    BY <1>1 DEF DialOk, GatewayInv, TypeOK, CtlTypeOK
  <2> QED
    BY <1>1, <2>1, <2>2, <2>3 DEF GatewayInv, TypeOK, CtlTypeOK
<1>3. FlowTypeOK'
  <2>1. \A r \in Relay : relay'[r] # "run" => relay[r] # "run"
    BY <1>1
  <2> QED
    BY <1>1, <2>1 DEF GatewayInv, TypeOK, FlowTypeOK, flowVars
<1>4. TunTypeOK'
  <2>1. \A s \in Side : via[s] \in [Packet(s) -> 0..(conns + 1)]
    <3>1. 0..conns \subseteq 0..(conns + 1)
      BY <1>1
    <3>2. \A s \in Side : via[s] \in [Packet(s) -> 0..conns]
      BY DEF GatewayInv, TypeOK, TunTypeOK
    <3> QED
      BY <3>1, <3>2
  <2> QED
    BY <1>1, <2>1 DEF GatewayInv, TypeOK, TunTypeOK, tunVars
<1>5. RelaysKnown'
  BY <1>1, Relays, Bounds DEF GatewayInv, RelaysKnown
<1> QED
  BY <1>2, <1>3, <1>4, <1>5 DEF GatewayInv, TypeOK

\* What remains after a relay has failed.
LEMMA FailEffect ==
    ASSUME GatewayInv, NEW r \in Relay, Runs(r), Fail(r)
    PROVE  /\ relay' \in [Relay -> {"none", "run", "closed", "dead"}]
           /\ ~Runs(r)' /\ relay'[r] # "none"
           /\ \A q \in Relay : q # r => relay'[q] = relay[q]
           /\ client' \in {"dialing", "relay", "backoff"}
           /\ {DOMAIN writing', DOMAIN sending'} = {Relay}
           /\ writing'[r] = <<>> /\ sending'[r] = <<>>
           /\ \A q \in Relay : q # r => writing'[q] = writing[q]
           /\ \A q \in Relay : q # r => sending'[q] = sending[q]
           /\ UNCHANGED <<proc, conns, inbound, link, wire, made, via, out, sameKey>>
           /\ DOMAIN tunq' = Side /\ \A s \in Side : tunq'[s] = tunq[s]
<1>1. /\ relay' = [relay EXCEPT ![r] =
                      IF link[r[2]] = "down" THEN "dead" ELSE "closed"]
      /\ relay' \in [Relay -> {"none", "run", "closed", "dead"}]
      /\ \A q \in Relay : q # r => relay'[q] = relay[q]
      /\ relay'[r] \in {"dead", "closed"}
  BY DEF Fail, GatewayInv, TypeOK, CtlTypeOK
<1>2. client' \in {"dialing", "relay", "backoff"}
  BY DEF Fail, AfterRelay, GatewayInv, TypeOK, CtlTypeOK
<1>3. /\ writing' = [writing EXCEPT ![r] = <<>>] /\ DOMAIN writing = Relay
      /\ sending' = [sending EXCEPT ![r] = <<>>] /\ DOMAIN sending = Relay
  BY DEF Fail, GatewayInv, TypeOK, FlowTypeOK
<1>4. tunq' = [tunq EXCEPT ![r[1]] = tunq[r[1]]] /\ DOMAIN tunq = Side
  BY DEF Fail, Unread, GatewayInv, TypeOK, TunTypeOK
<1>5. UNCHANGED <<proc, conns, inbound, link, wire, made, via, out, sameKey>>
  BY DEF Fail
<1> QED
  BY <1>1, <1>2, <1>3, <1>4, <1>5 DEF Runs

LEMMA TypeFail ==
    ASSUME GatewayInv, NEW r \in Relay, Runs(r), Fail(r)
    PROVE  GatewayInv'
<1>1. CtlTypeOK'
  BY FailEffect DEF GatewayInv, TypeOK, CtlTypeOK
<1>2. FlowTypeOK'
  <2>1. \A q \in Relay : /\ writing'[q] \in {writing[q], <<>>}
                         /\ sending'[q] \in {sending[q], <<>>}
                         /\ relay'[q] # "run" => writing'[q] = <<>> /\ sending'[q] = <<>>
    BY FailEffect DEF GatewayInv, TypeOK, FlowTypeOK
  <2>2. {DOMAIN writing', DOMAIN wire', DOMAIN sending'} = {Relay}
    BY FailEffect DEF GatewayInv, TypeOK, FlowTypeOK
  <2>3. wire' = wire
    BY FailEffect
  <2>4. ASSUME NEW q \in Relay
        PROVE  /\ writing'[q] \in Seq(Packet(q[1])) /\ Len(writing'[q]) <= 1
               /\ sending'[q] \in Seq(Packet(Peer(q[1]))) /\ Len(sending'[q]) <= 1
    <3>1. /\ writing[q] \in Seq(Packet(q[1])) /\ Len(writing[q]) <= 1
          /\ sending[q] \in Seq(Packet(Peer(q[1]))) /\ Len(sending[q]) <= 1
      BY DEF GatewayInv, TypeOK, FlowTypeOK
    <3>2. \A S : <<>> \in Seq(S) /\ Len(<<>>) <= 1
      BY EmptySeq
    <3> QED
      BY <2>1, <3>1, <3>2, Zenon
  <2> QED
    BY <2>1, <2>2, <2>3, <2>4 DEF GatewayInv, TypeOK, FlowTypeOK
<1>3. TunTypeOK'
  BY FailEffect DEF GatewayInv, TypeOK, TunTypeOK
<1>4. RelaysKnown'
  BY FailEffect DEF GatewayInv, RelaysKnown, Runs
<1> QED
  BY <1>1, <1>2, <1>3, <1>4 DEF GatewayInv, TypeOK

LEMMA TypeTunRecv ==
    ASSUME GatewayInv, NEW r \in Relay, TunRecv(r)
    PROVE  /\ GatewayInv'
           /\ Head(tunq[r[1]]) \in Packet(r[1])
           /\ r[2] \in 0..conns
<1> DEFINE s == r[1]
           n == Head(tunq[s])
<1>1. /\ s \in Side /\ Runs(r) /\ tunq[s] # <<>>
      /\ made[s] \in 0..MaxPackets[s] /\ tunq[s] \in Seq(1..made[s])
      /\ Len(tunq[s]) <= QueueCap /\ via[s] \in [Packet(s) -> 0..conns]
      /\ writing' = [writing EXCEPT ![r] = <<n>>] /\ DOMAIN writing = Relay
      /\ tunq' = [tunq EXCEPT ![s] = Tail(@)] /\ DOMAIN tunq = Side
      /\ via' = [via EXCEPT ![s][n] = r[2]] /\ DOMAIN via = Side
      /\ UNCHANGED <<wire, sending, made, out, ctlVars, sameKey>>
  BY Relays DEF TunRecv, GatewayInv, TypeOK, FlowTypeOK, TunTypeOK
<1>2. /\ n \in 1..made[s] /\ Tail(tunq[s]) \in Seq(1..made[s])
      /\ Len(Tail(tunq[s])) <= QueueCap
  <2>1. /\ n \in 1..made[s] /\ Tail(tunq[s]) \in Seq(1..made[s])
        /\ Len(Tail(tunq[s])) = Len(tunq[s]) - 1 /\ Len(tunq[s]) \in Nat
    BY <1>1, HeadTailProperties, LenProperties
  <2> QED
    BY <1>1, <2>1, Bounds
<1>3. n \in Packet(s)
  BY SMTT(30), <1>1, <1>2, Bounds DEF Packet
<1>4. r[2] \in 0..conns
  <2>1. r[2] <= conns /\ r[2] \in Nat
    BY <1>1, Relays, Bounds DEF GatewayInv, RelaysKnown, Runs
  <2> QED
    BY <2>1 DEF GatewayInv, TypeOK, CtlTypeOK
<1>5. CtlTypeOK'
  BY <1>1 DEF ctlVars, GatewayInv, TypeOK, CtlTypeOK
<1> HIDE DEF n
<1>6. FlowTypeOK'
  <2>1. <<n>> \in Seq(Packet(s)) /\ Len(<<n>>) <= 1
    BY <1>3
  <2>2. writing'[r] = <<n>> /\ \A q \in Relay : q # r => writing'[q] = writing[q]
    BY <1>1
  <2>3. {DOMAIN writing', DOMAIN wire', DOMAIN sending'} = {Relay}
    BY <1>1 DEF GatewayInv, TypeOK, FlowTypeOK
  <2>4. wire' = wire /\ sending' = sending /\ relay' = relay /\ relay[r] = "run"
    BY <1>1 DEF ctlVars, Runs
  <2>5. ASSUME NEW q \in Relay
        PROVE  /\ writing'[q] \in Seq(Packet(q[1])) /\ Len(writing'[q]) <= 1
               /\ relay'[q] # "run" => writing'[q] = <<>>
    <3>1. CASE q = r
      BY <2>1, <2>2, <2>4, <3>1, Zenon
    <3>2. CASE q # r
      BY <2>2, <2>4, <3>2 DEF GatewayInv, TypeOK, FlowTypeOK
    <3> QED
      BY <3>1, <3>2
  <2> QED
    BY <2>3, <2>4, <2>5 DEF GatewayInv, TypeOK, FlowTypeOK
<1>7. TunTypeOK'
  <2>1. /\ tunq'[s] = Tail(tunq[s]) /\ via'[s] = [via[s] EXCEPT ![n] = r[2]]
        /\ \A q \in Side : q # s => tunq'[q] = tunq[q] /\ via'[q] = via[q]
        /\ DOMAIN tunq' = Side /\ DOMAIN via' = Side
    BY <1>1
  <2>2. via'[s] \in [Packet(s) -> 0..conns]
    BY <1>1, <1>4, <2>1
  <2>3. made' = made /\ out' = out /\ conns' = conns
    BY <1>1 DEF ctlVars
  <2>4. {DOMAIN made', DOMAIN tunq', DOMAIN via', DOMAIN out'} = {Side}
    BY <2>1, <2>3 DEF GatewayInv, TypeOK, TunTypeOK
  <2>5. ASSUME NEW q \in Side
        PROVE  /\ tunq'[q] \in Seq(1..made[q]) /\ Len(tunq'[q]) <= QueueCap
               /\ via'[q] \in [Packet(q) -> 0..conns]
    <3>1. CASE q = s
      BY <1>2, <2>1, <2>2, <3>1
    <3>2. CASE q # s
      BY <2>1, <3>2 DEF GatewayInv, TypeOK, TunTypeOK
    <3> QED
      BY <3>1, <3>2
  <2> QED
    BY <2>3, <2>4, <2>5 DEF GatewayInv, TypeOK, TunTypeOK
<1>8. RelaysKnown'
  BY <1>1 DEF ctlVars, GatewayInv, RelaysKnown
<1> QED
  BY <1>3, <1>4, <1>5, <1>6, <1>7, <1>8 DEF GatewayInv, TypeOK, n

LEMMA TypeWriteFrame ==
    ASSUME GatewayInv, NEW r \in Relay, WriteFrame(r)
    PROVE  GatewayInv'
<1>1. /\ Runs(r) /\ Len(wire[r]) < WireCap
      /\ wire[r] \in Seq(Packet(r[1])) /\ Len(wire[r]) \in Nat
      /\ writing[r] \in Seq(Packet(r[1])) /\ Len(writing[r]) <= 1
      /\ Len(writing[r]) \in Nat
      /\ wire' = [wire EXCEPT ![r] = wire[r] \o writing[r]] /\ DOMAIN wire = Relay
      /\ writing' = [writing EXCEPT ![r] = <<>>] /\ DOMAIN writing = Relay
      /\ UNCHANGED <<sending, tunVars, ctlVars, sameKey>>
  BY LenProperties DEF WriteFrame, Queued, GatewayInv, TypeOK, FlowTypeOK
<1>2. /\ wire[r] \o writing[r] \in Seq(Packet(r[1]))
      /\ Len(wire[r] \o writing[r]) <= WireCap
  BY <1>1, ConcatProperties, Bounds
<1>3. CtlTypeOK' /\ RelaysKnown'
  BY <1>1 DEF ctlVars, GatewayInv, TypeOK, CtlTypeOK, RelaysKnown
<1>4. TunTypeOK'
  BY <1>1 DEF tunVars, ctlVars, GatewayInv, TypeOK, TunTypeOK
<1>5. FlowTypeOK'
  <2>1. /\ wire'[r] = wire[r] \o writing[r] /\ writing'[r] = <<>>
        /\ \A q \in Relay : q # r => wire'[q] = wire[q] /\ writing'[q] = writing[q]
        /\ sending' = sending /\ relay' = relay /\ relay[r] = "run"
    BY <1>1 DEF ctlVars, Runs
  <2>2. {DOMAIN writing', DOMAIN wire', DOMAIN sending'} = {Relay}
    BY <1>1 DEF GatewayInv, TypeOK, FlowTypeOK
  <2>3. \A S : <<>> \in Seq(S) /\ Len(<<>>) <= 1
    BY EmptySeq
  <2>4. ASSUME NEW q \in Relay
        PROVE  /\ writing'[q] \in Seq(Packet(q[1])) /\ Len(writing'[q]) <= 1
               /\ wire'[q] \in Seq(Packet(q[1])) /\ Len(wire'[q]) <= WireCap
               /\ relay'[q] # "run" => writing'[q] = <<>>
    <3>1. CASE q = r
      BY <1>2, <2>1, <2>3, <3>1, Zenon
    <3>2. CASE q # r
      BY <2>1, <3>2 DEF GatewayInv, TypeOK, FlowTypeOK
    <3> QED
      BY <3>1, <3>2
  <2> QED
    BY <2>1, <2>2, <2>4 DEF GatewayInv, TypeOK, FlowTypeOK
<1> QED
  BY <1>3, <1>4, <1>5 DEF GatewayInv, TypeOK

LEMMA TypeReadFrame ==
    ASSUME GatewayInv, NEW r \in Relay, ReadFrame(r)
    PROVE  GatewayInv'
<1> DEFINE o == Other(r)
           n == Head(wire[o])
<1>1. /\ Runs(r) /\ wire[o] # <<>> /\ o \in Relay /\ o[1] = Peer(r[1])
      /\ wire[o] \in Seq(Packet(o[1])) /\ Len(wire[o]) <= WireCap
      /\ wire' = [wire EXCEPT ![o] = Tail(wire[o])] /\ DOMAIN wire = Relay
      /\ sending' = [sending EXCEPT ![r] = <<n>>] /\ DOMAIN sending = Relay
      /\ UNCHANGED <<writing, tunVars, ctlVars, sameKey>>
  BY Relays DEF ReadFrame, ReadsFrames, GatewayInv, TypeOK, FlowTypeOK
<1>2. /\ n \in Packet(o[1]) /\ Tail(wire[o]) \in Seq(Packet(o[1]))
      /\ Len(Tail(wire[o])) <= WireCap
  <2>1. /\ n \in Packet(o[1]) /\ Tail(wire[o]) \in Seq(Packet(o[1]))
        /\ Len(Tail(wire[o])) = Len(wire[o]) - 1 /\ Len(wire[o]) \in Nat
    BY <1>1, HeadTailProperties, LenProperties
  <2> QED
    BY <1>1, <2>1, Bounds
<1> HIDE DEF n, o
<1>3. CtlTypeOK' /\ RelaysKnown'
  BY <1>1 DEF ctlVars, GatewayInv, TypeOK, CtlTypeOK, RelaysKnown
<1>4. TunTypeOK'
  BY <1>1 DEF tunVars, ctlVars, GatewayInv, TypeOK, TunTypeOK
<1>5. FlowTypeOK'
  <2>1. /\ wire'[o] = Tail(wire[o]) /\ sending'[r] = <<n>>
        /\ \A q \in Relay : q # o => wire'[q] = wire[q]
        /\ \A q \in Relay : q # r => sending'[q] = sending[q]
        /\ writing' = writing /\ relay' = relay /\ relay[r] = "run"
    BY <1>1 DEF ctlVars, Runs
  <2>2. {DOMAIN writing', DOMAIN wire', DOMAIN sending'} = {Relay}
    BY <1>1 DEF GatewayInv, TypeOK, FlowTypeOK
  <2>3. <<n>> \in Seq(Packet(Peer(r[1]))) /\ Len(<<n>>) <= 1
    BY <1>1, <1>2
  <2>4. ASSUME NEW q \in Relay
        PROVE  wire'[q] \in Seq(Packet(q[1])) /\ Len(wire'[q]) <= WireCap
    <3>1. CASE q = o
      BY <1>2, <2>1, <3>1, Zenon
    <3>2. CASE q # o
      BY <2>1, <3>2 DEF GatewayInv, TypeOK, FlowTypeOK
    <3> QED
      BY <3>1, <3>2
  <2>5. ASSUME NEW q \in Relay
        PROVE  /\ sending'[q] \in Seq(Packet(Peer(q[1]))) /\ Len(sending'[q]) <= 1
               /\ relay'[q] # "run" => sending'[q] = <<>>
    <3>1. CASE q = r
      BY <2>1, <2>3, <3>1, Zenon
    <3>2. CASE q # r
      BY <2>1, <3>2 DEF GatewayInv, TypeOK, FlowTypeOK
    <3> QED
      BY <3>1, <3>2
  <2> QED
    BY <2>1, <2>2, <2>4, <2>5 DEF GatewayInv, TypeOK, FlowTypeOK
<1> QED
  BY <1>3, <1>4, <1>5 DEF GatewayInv, TypeOK

LEMMA TypeReadEof ==
    ASSUME GatewayInv, NEW r \in Relay, ReadEof(r)
    PROVE  GatewayInv'
<1>1. /\ inbound' = [inbound EXCEPT ![r] = "done"]
      /\ UNCHANGED <<proc, client, conns, relay, link, flowVars, tunVars, sameKey>>
  BY DEF ReadEof
<1>2. CtlTypeOK' /\ RelaysKnown'
  BY <1>1 DEF GatewayInv, TypeOK, CtlTypeOK, RelaysKnown
<1>3. FlowTypeOK'
  BY <1>1 DEF flowVars, GatewayInv, TypeOK, FlowTypeOK
<1>4. TunTypeOK'
  BY <1>1 DEF tunVars, GatewayInv, TypeOK, TunTypeOK
<1> QED
  BY <1>2, <1>3, <1>4 DEF GatewayInv, TypeOK

\* The packet that agg_to_tun holds is the only one.
LEMMA OneHeld ==
    ASSUME GatewayInv, NEW r \in Relay
    PROVE  /\ sending[r] # <<>> => /\ sending[r] = <<sending[r][1]>>
                                  /\ sending[r][1] \in Packet(Peer(r[1]))
           /\ writing[r] # <<>> => /\ writing[r] = <<writing[r][1]>>
                                  /\ writing[r][1] \in Packet(r[1])
<1>1. ASSUME NEW S, NEW q \in Seq(S), Len(q) <= 1, q # <<>>
      PROVE  q = <<q[1]>> /\ q[1] \in S
  <2>1. Len(q) = 1
    <3>1. Len(q) \in Nat \ {0}
      BY <1>1, EmptySeq, Zenon
    <3>2. \A n \in Nat \ {0} : n <= 1 => n = 1
      OBVIOUS
    <3> QED
      BY <1>1, <3>1, <3>2, Zenon
  <2> QED
    BY <2>1, SeqEqual, LenProperties, ElementOfSeq
<1> QED
  BY <1>1 DEF GatewayInv, TypeOK, FlowTypeOK

LEMMA TypeTunSend ==
    ASSUME GatewayInv, NEW r \in Relay, TunSend(r)
    PROVE  GatewayInv'
<1> DEFINE s == r[1]
           T == Packet(Peer(s)) \X Conn
           e == <<sending[r][1], r[2]>>
<1>1. /\ Runs(r) /\ sending[r] # <<>> /\ s \in Side
      /\ out[s] \in Seq(T)
      /\ out' = [out EXCEPT ![s] = Append(out[s], e)] /\ DOMAIN out = Side
      /\ sending' = [sending EXCEPT ![r] = <<>>] /\ DOMAIN sending = Relay
      /\ UNCHANGED <<writing, wire, made, tunq, via, ctlVars, sameKey>>
  BY Relays DEF TunSend, GatewayInv, TypeOK, FlowTypeOK, TunTypeOK
<1>2. e \in T
  BY <1>1, OneHeld, Relays
<1> HIDE DEF T, e
<1>3. Append(out[s], e) \in Seq(T)
  BY <1>1, <1>2, AppendProperties
<1>4. CtlTypeOK' /\ RelaysKnown'
  BY <1>1 DEF ctlVars, GatewayInv, TypeOK, CtlTypeOK, RelaysKnown
<1>5. FlowTypeOK'
  <2>1. /\ sending'[r] = <<>> /\ \A q \in Relay : q # r => sending'[q] = sending[q]
        /\ writing' = writing /\ wire' = wire /\ relay' = relay
    BY <1>1 DEF ctlVars
  <2>2. {DOMAIN writing', DOMAIN wire', DOMAIN sending'} = {Relay}
    BY <1>1 DEF GatewayInv, TypeOK, FlowTypeOK
  <2>3. \A S : <<>> \in Seq(S) /\ Len(<<>>) <= 1
    BY EmptySeq
  <2>4. ASSUME NEW q \in Relay
        PROVE  /\ sending'[q] \in Seq(Packet(Peer(q[1]))) /\ Len(sending'[q]) <= 1
               /\ relay'[q] # "run" => sending'[q] = <<>>
    <3>1. CASE q = r
      BY <2>1, <2>3, <3>1, Zenon
    <3>2. CASE q # r
      BY <2>1, <3>2 DEF GatewayInv, TypeOK, FlowTypeOK
    <3> QED
      BY <3>1, <3>2
  <2> QED
    BY <2>1, <2>2, <2>4 DEF GatewayInv, TypeOK, FlowTypeOK
<1>6. TunTypeOK'
  <2>1. /\ out'[s] = Append(out[s], e)
        /\ \A q \in Side : q # s => out'[q] = out[q]
        /\ made' = made /\ tunq' = tunq /\ via' = via /\ conns' = conns
    BY <1>1 DEF ctlVars
  <2>2. {DOMAIN made', DOMAIN tunq', DOMAIN via', DOMAIN out'} = {Side}
    BY <1>1 DEF GatewayInv, TypeOK, TunTypeOK
  <2>3. ASSUME NEW q \in Side
        PROVE  out'[q] \in Seq(Packet(Peer(q)) \X Conn)
    <3>1. CASE q = s
      BY <1>3, <2>1, <3>1 DEF T
    <3>2. CASE q # s
      BY <2>1, <3>2 DEF GatewayInv, TypeOK, TunTypeOK
    <3> QED
      BY <3>1, <3>2
  <2> QED
    BY <2>1, <2>2, <2>3 DEF GatewayInv, TypeOK, TunTypeOK
<1> QED
  BY <1>4, <1>5, <1>6 DEF GatewayInv, TypeOK

LEMMA TypeRoute ==
    ASSUME GatewayInv, NEW s \in Side, Route(s)
    PROVE  GatewayInv'
<1>1. /\ made[s] < MaxPackets[s] /\ made[s] \in Nat /\ MaxPackets[s] \in Nat
      /\ made' = [made EXCEPT ![s] = made[s] + 1] /\ DOMAIN made = Side
      /\ tunq' = [tunq EXCEPT ![s] = IF Len(tunq[s]) < QueueCap
                                     THEN Append(tunq[s], made[s] + 1)
                                     ELSE tunq[s]] /\ DOMAIN tunq = Side
      /\ tunq[s] \in Seq(1..made[s]) /\ Len(tunq[s]) <= QueueCap
      /\ UNCHANGED <<via, out, flowVars, ctlVars, sameKey>>
  <2>1. /\ made[s] < MaxPackets[s] /\ made[s] \in Nat /\ MaxPackets[s] \in Nat
    <3>1. made[s] \in 0..MaxPackets[s] /\ made[s] < MaxPackets[s]
      BY DEF Route, GatewayInv, TypeOK, TunTypeOK
    <3>2. MaxPackets[s] \in Nat
      BY Bounds
    <3> QED
      BY <3>1, <3>2
  <2>2. /\ tunq[s] \in Seq(1..made[s]) /\ Len(tunq[s]) <= QueueCap
        /\ DOMAIN made = Side /\ DOMAIN tunq = Side
    BY DEF GatewayInv, TypeOK, TunTypeOK
  <2> QED
    BY <2>1, <2>2, Zenon DEF Route
<1>2. /\ made'[s] = made[s] + 1
      /\ \A q \in Side : q # s => made'[q] = made[q] /\ tunq'[q] = tunq[q]
      /\ DOMAIN made' = Side /\ DOMAIN tunq' = Side
  BY <1>1
<1>3. tunq[s] \in Seq(1..(made[s] + 1)) /\ Len(tunq[s]) \in Nat
  <2>1. 1..made[s] \subseteq 1..(made[s] + 1)
    BY <1>1
  <2> QED
    BY <1>1, <2>1, SeqMonotonic, LenProperties
<1>4. tunq'[s] \in Seq(1..(made[s] + 1)) /\ Len(tunq'[s]) <= QueueCap
  <2>1. CASE Len(tunq[s]) < QueueCap
    <3>1. tunq'[s] = Append(tunq[s], made[s] + 1)
      BY <1>1, <2>1
    <3>2. made[s] + 1 \in 1..(made[s] + 1)
      BY <1>1
    <3>3. /\ Append(tunq[s], made[s] + 1) \in Seq(1..(made[s] + 1))
          /\ Len(Append(tunq[s], made[s] + 1)) = Len(tunq[s]) + 1
      BY <1>3, <3>2, AppendProperties
    <3> QED
      BY <1>3, <2>1, <3>1, <3>3, Bounds
  <2>2. CASE ~(Len(tunq[s]) < QueueCap)
    <3>1. tunq'[s] = tunq[s]
      BY <1>1, <2>2
    <3> QED
      BY <1>1, <1>3, <3>1
  <2> QED
    BY <2>1, <2>2
<1>5. CtlTypeOK' /\ RelaysKnown'
  BY <1>1 DEF ctlVars, GatewayInv, TypeOK, CtlTypeOK, RelaysKnown
<1>6. FlowTypeOK'
  BY <1>1 DEF flowVars, ctlVars, GatewayInv, TypeOK, FlowTypeOK
<1>7. TunTypeOK'
  <2>1. via' = via /\ out' = out /\ conns' = conns
    BY <1>1 DEF ctlVars
  <2>2. {DOMAIN made', DOMAIN tunq', DOMAIN via', DOMAIN out'} = {Side}
    BY <1>2, <2>1 DEF GatewayInv, TypeOK, TunTypeOK
  <2>3. ASSUME NEW q \in Side
        PROVE  /\ made'[q] \in 0..MaxPackets[q]
               /\ tunq'[q] \in Seq(1..made'[q]) /\ Len(tunq'[q]) <= QueueCap
    <3>1. CASE q = s
      <4>1. made'[q] \in 0..MaxPackets[q]
        BY <1>1, <1>2, <3>1
      <4> QED
        BY <1>2, <1>4, <3>1, <4>1
    <3>2. CASE q # s
      BY <1>2, <3>2 DEF GatewayInv, TypeOK, TunTypeOK
    <3> QED
      BY <3>1, <3>2
  <2> QED
    BY <2>1, <2>2, <2>3 DEF GatewayInv, TypeOK, TunTypeOK
<1> QED
  BY <1>5, <1>6, <1>7 DEF GatewayInv, TypeOK

\* What remains after a process has been killed.
LEMMA CrashEffect ==
    ASSUME GatewayInv, NEW s \in Side, Crash(s)
    PROVE  /\ \A r \in Relay : relay'[r] = IF r[1] = s /\ Runs(r) THEN "dead"
                                                              ELSE relay[r]
           /\ \A r \in Relay : r[1] = s => writing'[r] = <<>> /\ sending'[r] = <<>>
           /\ \A r \in Relay : r[1] # s => /\ writing'[r] = writing[r]
                                          /\ sending'[r] = sending[r]
           /\ {DOMAIN writing', DOMAIN wire', DOMAIN sending'} = {Relay}
           /\ tunq' = [tunq EXCEPT ![s] = <<>>] /\ DOMAIN tunq = Side
           /\ UNCHANGED <<client, conns, inbound, wire, made, via, out, sameKey>>
  BY DEF Crash, GatewayInv, TypeOK, FlowTypeOK, TunTypeOK

LEMMA TypeCrash ==
    ASSUME GatewayInv, NEW s \in Side, Crash(s)
    PROVE  GatewayInv'
<1>1. CtlTypeOK'
  <2>1. proc' \in [Side -> BOOLEAN]
    BY DEF Crash, GatewayInv, TypeOK, CtlTypeOK
  <2>2. relay' \in [Relay -> {"none", "run", "closed", "dead"}]
    BY DEF Crash, GatewayInv, TypeOK, CtlTypeOK
  <2>3. link' \in [Conn -> {"none", "up", "down"}]
    BY DEF Crash, GatewayInv, TypeOK, CtlTypeOK
  <2>4. UNCHANGED <<client, conns, inbound, sameKey>>
    BY CrashEffect
  <2> QED
    BY <2>1, <2>2, <2>3, <2>4 DEF GatewayInv, TypeOK, CtlTypeOK
<1>2. FlowTypeOK'
  <2>1. \A S : <<>> \in Seq(S) /\ Len(<<>>) <= 1
    BY EmptySeq
  <2>2. ASSUME NEW q \in Relay
        PROVE  /\ writing'[q] \in Seq(Packet(q[1])) /\ Len(writing'[q]) <= 1
               /\ sending'[q] \in Seq(Packet(Peer(q[1]))) /\ Len(sending'[q]) <= 1
               /\ relay'[q] # "run" => writing'[q] = <<>> /\ sending'[q] = <<>>
    <3>1. CASE q[1] = s
      <4>1. writing'[q] = <<>> /\ sending'[q] = <<>>
        BY <3>1, CrashEffect
      <4> QED
        BY <2>1, <4>1, Zenon
    <3>2. CASE q[1] # s
      <4>1. /\ writing'[q] = writing[q] /\ sending'[q] = sending[q]
            /\ relay'[q] = relay[q]
        BY <3>2, CrashEffect
      <4> QED
        BY <4>1 DEF GatewayInv, TypeOK, FlowTypeOK
    <3> QED
      BY <3>1, <3>2
  <2>3. wire' = wire /\ {DOMAIN writing', DOMAIN wire', DOMAIN sending'} = {Relay}
    BY CrashEffect
  <2> QED
    BY <2>2, <2>3 DEF GatewayInv, TypeOK, FlowTypeOK
<1>3. TunTypeOK'
  <2>1. \A S : <<>> \in Seq(S) /\ Len(<<>>) = 0
    BY EmptySeq
  <2>2. made' = made /\ via' = via /\ out' = out /\ conns' = conns
    BY CrashEffect
  <2>3. /\ tunq'[s] = <<>> /\ DOMAIN tunq' = Side
        /\ \A q \in Side : q # s => tunq'[q] = tunq[q]
    BY CrashEffect
  <2>4. {DOMAIN made', DOMAIN tunq', DOMAIN via', DOMAIN out'} = {Side}
    BY <2>2, <2>3 DEF GatewayInv, TypeOK, TunTypeOK
  <2>5. 0 <= QueueCap
    BY Bounds
  <2>6. ASSUME NEW q \in Side
        PROVE  tunq'[q] \in Seq(1..made[q]) /\ Len(tunq'[q]) <= QueueCap
    <3>1. CASE q = s
      BY <2>1, <2>3, <2>5, <3>1, Zenon
    <3>2. CASE q # s
      BY <2>3, <3>2 DEF GatewayInv, TypeOK, TunTypeOK
    <3> QED
      BY <3>1, <3>2
  <2> QED
    BY <2>2, <2>4, <2>6 DEF GatewayInv, TypeOK, TunTypeOK
<1>4. RelaysKnown'
  BY CrashEffect DEF GatewayInv, RelaysKnown, Runs
<1> QED
  BY <1>1, <1>2, <1>3, <1>4 DEF GatewayInv, TypeOK

\* Every way in which a relay ends with an error is Fail.
LEMMA FailSteps ==
    ASSUME NEW r \in Relay,
           WriteErr(r) \/ OpenFails(r) \/ ReadErr(r) \/ StepErr(r)
    PROVE  Runs(r) /\ Fail(r)
  BY DEF WriteErr, OpenFails, ReadErr, StepErr, ReadsFrames

\* The disjuncts of Next, the failures of a relay taken together.
LEMMA StepCases ==
    ASSUME [Next]_vars
    PROVE  \/ UNCHANGED vars
           \/ DialOk
           \/ DialFail \/ Wake \/ (\E k \in Conn : LinkLost(k))
                   \/ \E s \in Side : Restart(s)
           \/ \E r \in Relay :
                 \/ TunRecv(r) \/ WriteFrame(r) \/ ReadFrame(r) \/ ReadEof(r)
                 \/ TunSend(r) \/ (Runs(r) /\ Fail(r))
           \/ \E s \in Side : Route(s) \/ Crash(s)
  BY FailSteps DEF Next, TunToAggStep, AggToTunStep

LEMMA TypeStep == GatewayInv /\ [Next]_vars => GatewayInv'
<1> SUFFICES ASSUME GatewayInv, [Next]_vars PROVE GatewayInv'
  OBVIOUS
<1>1. CASE UNCHANGED vars
  BY <1>1 DEF vars, tunVars, flowVars, ctlVars, GatewayInv, TypeOK, CtlTypeOK,
              FlowTypeOK, TunTypeOK, RelaysKnown
<1> QED
  BY <1>1, StepCases, TypeDialOk, TypeControl, TypeTunRecv, TypeWriteFrame,
     TypeReadFrame, TypeReadEof, TypeTunSend, TypeFail, TypeRoute, TypeCrash

\* The types of the gateway's state, which say among other things that neither
\* device queue nor link holds more than it can and that a relay that has ended
\* holds no packet.
THEOREM GatewayTypes == Spec => []TypeOK
<1>1. GatewayInv => TypeOK
  BY DEF GatewayInv
<1> QED
  BY <1>1, TypeInit, TypeStep, PTL DEF Spec

-----------------------------------------------------------------------------
(***************************************************************************)
(* What a relay has read is lost only with its connection.                 *)
(***************************************************************************)
LEMMA NumbersEmpty == Numbers(<<>>) = {}
  BY DEF Numbers

LEMMA NumbersOne == \A x : Numbers(<<x>>) = {x}
<1> TAKE x
<1>1. Len(<<x>>) = 1 /\ <<x>>[1] = x
  OBVIOUS
<1> QED
  BY <1>1 DEF Numbers

LEMMA NumbersConcat ==
    ASSUME NEW S, NEW q \in Seq(S), NEW t \in Seq(S)
    PROVE  Numbers(q \o t) = Numbers(q) \cup Numbers(t)
<1> DEFINE c == q \o t
<1>1. /\ Len(q) \in Nat /\ Len(t) \in Nat /\ Len(c) = Len(q) + Len(t)
      /\ \A i \in 1..(Len(q) + Len(t)) :
            c[i] = IF i <= Len(q) THEN q[i] ELSE t[i - Len(q)]
  BY ConcatProperties, LenProperties
<1> HIDE DEF c
<1>2. ASSUME NEW x \in Numbers(c) PROVE x \in Numbers(q) \cup Numbers(t)
  <2>1. PICK i \in 1..Len(c) : x = c[i]
    BY DEF Numbers
  <2>2. CASE i <= Len(q)
    <3>1. i \in 1..Len(q) /\ x = q[i]
      BY <1>1, <2>1, <2>2
    <3> QED
      BY <3>1 DEF Numbers
  <2>3. CASE ~(i <= Len(q))
    <3>1. i - Len(q) \in 1..Len(t) /\ x = t[i - Len(q)]
      BY <1>1, <2>1, <2>3
    <3> QED
      BY <3>1 DEF Numbers
  <2> QED
    BY <2>2, <2>3
<1>3. ASSUME NEW i \in 1..Len(q) PROVE q[i] \in Numbers(c)
  <2>1. i \in 1..Len(c) /\ c[i] = q[i]
    BY <1>1
  <2> QED
    BY <2>1 DEF Numbers
<1>4. ASSUME NEW i \in 1..Len(t) PROVE t[i] \in Numbers(c)
  <2>1. i + Len(q) \in 1..Len(c) /\ c[i + Len(q)] = t[i]
    BY <1>1
  <2> QED
    BY <2>1 DEF Numbers
<1>5. \A x \in Numbers(q) \cup Numbers(t) : x \in Numbers(c)
  BY <1>3, <1>4 DEF Numbers
<1> QED
  BY <1>2, <1>5 DEF c

LEMMA NumbersTail ==
    ASSUME NEW S, NEW q \in Seq(S), q # <<>>
    PROVE  Numbers(q) = {Head(q)} \cup Numbers(Tail(q))
<1>1. /\ Len(q) \in Nat \ {0} /\ Len(Tail(q)) = Len(q) - 1 /\ Head(q) = q[1]
      /\ \A i \in 1..Len(Tail(q)) : Tail(q)[i] = q[i + 1]
  BY HeadTailProperties, EmptySeq
<1>2. ASSUME NEW i \in 1..Len(q) PROVE q[i] \in {Head(q)} \cup Numbers(Tail(q))
  <2>1. CASE i = 1
    BY <1>1, <2>1
  <2>2. CASE i # 1
    <3>1. i - 1 \in 1..Len(Tail(q)) /\ Tail(q)[i - 1] = q[i]
      BY <1>1, <2>2
    <3> QED
      BY <3>1 DEF Numbers
  <2> QED
    BY <2>1, <2>2
<1>3. ASSUME NEW i \in 1..Len(Tail(q)) PROVE Tail(q)[i] \in Numbers(q)
  <2>1. i + 1 \in 1..Len(q) /\ Tail(q)[i] = q[i + 1]
    BY <1>1
  <2> QED
    BY <2>1 DEF Numbers
<1>4. Head(q) \in Numbers(q)
  BY <1>1 DEF Numbers
<1>5. \A x \in Numbers(q) : x \in {Head(q)} \cup Numbers(Tail(q))
  BY <1>2 DEF Numbers
<1>6. \A x \in Numbers(Tail(q)) : x \in Numbers(q)
  BY <1>3 DEF Numbers
<1> QED
  BY <1>4, <1>5, <1>6

LEMMA NumbersAppend ==
    ASSUME NEW S, NEW q \in Seq(S), NEW e \in S
    PROVE  Numbers(Append(q, e)) = Numbers(q) \cup {e}
<1>1. Append(q, e) = q \o <<e>> /\ <<e>> \in Seq(S)
  BY AppendIsConcat
<1>2. Numbers(q \o <<e>>) = Numbers(q) \cup Numbers(<<e>>)
  BY <1>1, NumbersConcat, ZenonT(30)
<1>3. Numbers(<<e>>) = {e}
  BY NumbersOne
<1> QED
  BY <1>1, <1>2, <1>3, Zenon

\* The packets on the way from r to its peer.
OnTheWay(r) == Numbers(writing[r]) \cup Numbers(wire[r]) \cup Numbers(sending[Other(r)])

\* The packets that the connection of r has brought to the other side.
Arrived(r) == {p \in Packet(r[1]) : <<p, r[2]>> \in Numbers(out[Peer(r[1])])}

LEMMA LostDef ==
    LostOnlyWithRelay <=>
        \A r \in Relay : \A p \in Packet(r[1]) :
            /\ via[r[1]][p] = r[2]
            /\ Runs(r) /\ Runs(Other(r))
            => p \in OnTheWay(r) \cup Arrived(r)
  BY DEF LostOnlyWithRelay, OnTheWay, Arrived

LEMMA LostInit == Init => LostOnlyWithRelay
  BY LostDef DEF Init, Runs

\* A step in which nothing is read from a device and nothing gets out of the way.
LEMMA LostKept ==
    ASSUME LostOnlyWithRelay, via' = via, \A r \in Relay : Runs(r)' => Runs(r),
           \A r \in Relay : Runs(r)' /\ Runs(Other(r))'
               => /\ OnTheWay(r) \subseteq OnTheWay(r)' \cup Arrived(r)'
                  /\ Arrived(r) \subseteq Arrived(r)'
    PROVE  LostOnlyWithRelay'
<1> SUFFICES ASSUME NEW r \in Relay, NEW p \in Packet(r[1]),
                    via[r[1]][p] = r[2], Runs(r)', Runs(Other(r))'
             PROVE  p \in OnTheWay(r)' \cup Arrived(r)'
  BY DEF LostOnlyWithRelay, OnTheWay, Arrived
<1>1. Runs(r) /\ Runs(Other(r))
  BY Relays
<1>2. p \in OnTheWay(r) \cup Arrived(r)
  BY <1>1, LostDef
<1> QED
  BY <1>2

LEMMA LostTunRecv ==
    ASSUME GatewayInv, LostOnlyWithRelay, NEW q \in Relay, TunRecv(q)
    PROVE  LostOnlyWithRelay'
<1> DEFINE n == Head(tunq[q[1]])
<1>1. /\ Runs(q) /\ writing[q] = <<>> /\ q[1] \in Side
      /\ writing' = [writing EXCEPT ![q] = <<n>>] /\ DOMAIN writing = Relay
      /\ via' = [via EXCEPT ![q[1]][n] = q[2]] /\ DOMAIN via = Side
      /\ via[q[1]] \in [Packet(q[1]) -> 0..conns]
      /\ UNCHANGED <<wire, sending, out, relay>>
  BY Relays DEF TunRecv, ctlVars, GatewayInv, TypeOK, FlowTypeOK, TunTypeOK
<1>2. n \in Packet(q[1])
  BY TypeTunRecv
<1> HIDE DEF n
<1> SUFFICES ASSUME NEW r \in Relay, NEW p \in Packet(r[1]),
                    via'[r[1]][p] = r[2], Runs(r), Runs(Other(r))
             PROVE  p \in OnTheWay(r)' \cup Arrived(r)'
  BY <1>1 DEF LostOnlyWithRelay, OnTheWay, Arrived, Runs
<1>3. Arrived(r)' = Arrived(r)
  BY <1>1 DEF Arrived
<1>4. CASE r[1] = q[1] /\ p = n
  <2>1. via'[q[1]] = [via[q[1]] EXCEPT ![n] = q[2]]
    BY <1>1
  <2>2. r[2] = q[2]
    BY <1>1, <1>2, <1>4, <2>1
  <2>3. r = q
    BY <1>4, <2>2, Relays
  <2>4. Numbers(writing'[r]) = {n}
    BY <1>1, <2>3, NumbersOne
  <2> QED
    BY <1>4, <2>4 DEF OnTheWay
<1>5. CASE ~(r[1] = q[1] /\ p = n)
  <2>1. via'[r[1]][p] = via[r[1]][p]
    BY <1>1, <1>5, Relays
  <2>2. p \in OnTheWay(r) \cup Arrived(r)
    BY <2>1, LostDef
  <2>3. Numbers(writing[r]) \subseteq Numbers(writing'[r])
    BY <1>1, NumbersEmpty
  <2>4. OnTheWay(r) \subseteq OnTheWay(r)'
    BY <1>1, <2>3 DEF OnTheWay
  <2> QED
    BY <1>3, <2>2, <2>4
<1> QED
  BY <1>4, <1>5

LEMMA LostWriteFrame ==
    ASSUME GatewayInv, LostOnlyWithRelay, NEW q \in Relay, WriteFrame(q)
    PROVE  LostOnlyWithRelay'
<1>1. /\ wire[q] \in Seq(Packet(q[1])) /\ writing[q] \in Seq(Packet(q[1]))
      /\ wire' = [wire EXCEPT ![q] = wire[q] \o writing[q]] /\ DOMAIN wire = Relay
      /\ writing' = [writing EXCEPT ![q] = <<>>] /\ DOMAIN writing = Relay
      /\ UNCHANGED <<sending, out, via, relay>>
  BY DEF WriteFrame, Queued, tunVars, ctlVars, GatewayInv, TypeOK, FlowTypeOK
<1>2. Numbers(wire[q] \o writing[q]) = Numbers(wire[q]) \cup Numbers(writing[q])
  BY <1>1, NumbersConcat
<1>3. ASSUME NEW r \in Relay
      PROVE  /\ OnTheWay(r) \subseteq OnTheWay(r)'
             /\ Arrived(r)' = Arrived(r)
  <2>1. Numbers(wire[r]) \cup Numbers(writing[r])
            \subseteq Numbers(wire'[r]) \cup Numbers(writing'[r])
    BY <1>1, <1>2
  <2> QED
    BY <1>1, <2>1 DEF OnTheWay, Arrived
<1> QED
  BY <1>1, <1>3, LostKept DEF Runs

LEMMA LostReadFrame ==
    ASSUME GatewayInv, LostOnlyWithRelay, NEW q \in Relay, ReadFrame(q)
    PROVE  LostOnlyWithRelay'
<1> DEFINE o == Other(q)
           n == Head(wire[o])
<1>1. /\ o \in Relay /\ wire[o] # <<>> /\ wire[o] \in Seq(Packet(o[1]))
      /\ wire' = [wire EXCEPT ![o] = Tail(wire[o])] /\ DOMAIN wire = Relay
      /\ sending[q] = <<>>
      /\ sending' = [sending EXCEPT ![q] = <<n>>] /\ DOMAIN sending = Relay
      /\ UNCHANGED <<writing, out, via, relay>>
  BY Relays DEF ReadFrame, ReadsFrames, tunVars, ctlVars, GatewayInv, TypeOK,
                FlowTypeOK
<1>2. Numbers(wire[o]) = {n} \cup Numbers(Tail(wire[o]))
  BY <1>1, NumbersTail
<1> HIDE DEF n
<1>3. Numbers(sending'[q]) = {n} /\ Numbers(sending[q]) = {}
  BY <1>1, NumbersOne, NumbersEmpty
<1>4. ASSUME NEW r \in Relay
      PROVE  /\ OnTheWay(r) \subseteq OnTheWay(r)'
             /\ Arrived(r)' = Arrived(r)
  <2>1. CASE r = o
    <3>1. Other(r) = q /\ wire'[r] = Tail(wire[o]) /\ writing' = writing
      BY <1>1, <2>1, Relays
    <3> QED
      BY <1>1, <1>2, <1>3, <2>1, <3>1 DEF OnTheWay, Arrived
  <2>2. CASE r # o
    <3>1. Other(r) # q /\ Other(r) \in Relay
      BY <2>2, Relays
    <3>2. wire'[r] = wire[r] /\ sending'[Other(r)] = sending[Other(r)]
      BY <1>1, <2>2, <3>1
    <3> QED
      BY <1>1, <3>2 DEF OnTheWay, Arrived
  <2> QED
    BY <2>1, <2>2
<1> QED
  BY <1>1, <1>4, LostKept DEF Runs

LEMMA LostTunSend ==
    ASSUME GatewayInv, LostOnlyWithRelay, NEW q \in Relay, TunSend(q)
    PROVE  LostOnlyWithRelay'
<1> DEFINE o == Other(q)
           T == Packet(Peer(q[1])) \X Conn
           n == sending[q][1]
           e == <<n, q[2]>>
<1>1. /\ o \in Relay /\ q[1] \in Side /\ Peer(o[1]) = q[1] /\ o[2] = q[2]
      /\ sending[q] = <<n>> /\ n \in Packet(Peer(q[1])) /\ out[q[1]] \in Seq(T)
      /\ out' = [out EXCEPT ![q[1]] = Append(out[q[1]], e)] /\ DOMAIN out = Side
      /\ sending' = [sending EXCEPT ![q] = <<>>] /\ DOMAIN sending = Relay
      /\ UNCHANGED <<writing, wire, via, relay>>
  BY Relays, OneHeld DEF TunSend, ctlVars, GatewayInv, TypeOK, FlowTypeOK, TunTypeOK
<1>2. e \in T
  BY <1>1, Relays
<1> HIDE DEF n, e, T
<1>3. Numbers(Append(out[q[1]], e)) = Numbers(out[q[1]]) \cup {e}
  BY <1>1, <1>2, NumbersAppend
<1>4. ASSUME NEW s \in Side
      PROVE  Numbers(out[s]) \subseteq Numbers(out'[s])
  BY <1>1, <1>3
<1>5. ASSUME NEW r \in Relay
      PROVE  /\ OnTheWay(r) \subseteq OnTheWay(r)' \cup Arrived(r)'
             /\ Arrived(r) \subseteq Arrived(r)'
  <2>1. Arrived(r) \subseteq Arrived(r)'
    BY <1>4, Relays DEF Arrived
  <2>2. CASE r = o
    <3>1. Other(r) = q /\ Numbers(sending[q]) = {n}
      BY <1>1, <2>2, NumbersOne, Relays
    <3>2. e \in Numbers(out'[Peer(r[1])]) /\ e = <<n, r[2]>> /\ n \in Packet(r[1])
      <4>1. e \in Numbers(out'[q[1]])
        BY <1>1, <1>3
      <4>2. r[1] = Peer(q[1])
        BY <2>2, Relays
      <4> QED
        BY <1>1, <2>2, <4>1, <4>2 DEF e
    <3>3. n \in Arrived(r)'
      BY <3>2 DEF Arrived
    <3> QED
      BY <1>1, <2>1, <3>1, <3>3 DEF OnTheWay
  <2>3. CASE r # o
    <3>1. Other(r) # q /\ Other(r) \in Relay
      BY <2>3, Relays
    <3>2. sending'[Other(r)] = sending[Other(r)]
      BY <1>1, <3>1
    <3> QED
      BY <1>1, <2>1, <3>2 DEF OnTheWay
  <2> QED
    BY <2>2, <2>3
<1> QED
  BY <1>1, <1>5, LostKept DEF Runs

LEMMA LostFail ==
    ASSUME GatewayInv, LostOnlyWithRelay, NEW q \in Relay, Runs(q), Fail(q)
    PROVE  LostOnlyWithRelay'
<1>1. ~Runs(q)' /\ via' = via /\ out' = out /\ wire' = wire
  BY FailEffect
<1>2. ASSUME NEW r \in Relay, Runs(r)', Runs(Other(r))'
      PROVE  OnTheWay(r)' = OnTheWay(r) /\ Arrived(r)' = Arrived(r) /\ Runs(r)
  <2>1. r # q /\ Other(r) # q /\ Other(r) \in Relay
    BY <1>1, <1>2, Relays
  <2>2. /\ writing'[r] = writing[r] /\ sending'[Other(r)] = sending[Other(r)]
        /\ relay'[r] = relay[r]
    BY <2>1, FailEffect
  <2> QED
    BY <1>1, <1>2, <2>2 DEF OnTheWay, Arrived, Runs
<1>3. \A r \in Relay : Runs(r)' => Runs(r)
  <2>1. \A r \in Relay : r # q => relay'[r] = relay[r]
    BY FailEffect
  <2> QED
    BY <1>1, <2>1 DEF Runs
<1> QED
  BY <1>1, <1>2, <1>3, LostKept

LEMMA LostCrash ==
    ASSUME GatewayInv, LostOnlyWithRelay, NEW s \in Side, Crash(s)
    PROVE  LostOnlyWithRelay'
<1>1. via' = via
  BY CrashEffect
<1>2. \A r \in Relay : Runs(r)' => Runs(r) /\ r[1] # s
  BY CrashEffect DEF Runs
<1>3. \A r \in Relay : ~(Runs(r)' /\ Runs(Other(r))')
  <2> SUFFICES ASSUME NEW r \in Relay, Runs(r)', Runs(Other(r))' PROVE FALSE
    OBVIOUS
  <2>1. r[1] # s /\ Other(r)[1] # s
    BY <1>2, Relays
  <2> QED
    BY <2>1, Relays DEF Side, Peer
<1> QED
  BY <1>1, <1>2, <1>3, LostKept

LEMMA LostDialOk ==
    ASSUME GatewayInv, LostOnlyWithRelay, DialOk
    PROVE  LostOnlyWithRelay'
<1>1. /\ relay' = [r \in Relay |-> IF r[2] = conns + 1 THEN "run" ELSE relay[r]]
      /\ UNCHANGED <<writing, wire, sending, via, out>> /\ conns \in Nat
  BY Bounds DEF DialOk, flowVars, tunVars, GatewayInv, TypeOK, CtlTypeOK
<1> SUFFICES ASSUME NEW r \in Relay, NEW p \in Packet(r[1]),
                    via[r[1]][p] = r[2], Runs(r)', Runs(Other(r))'
             PROVE  p \in OnTheWay(r) \cup Arrived(r)
  BY <1>1 DEF LostOnlyWithRelay, OnTheWay, Arrived
<1>2. via[r[1]][p] \in 0..conns
  BY Relays DEF GatewayInv, TypeOK, TunTypeOK
<1>3. r[2] # conns + 1 /\ Other(r)[2] # conns + 1
  BY <1>1, <1>2, Relays
<1>4. Runs(r) /\ Runs(Other(r))
  BY <1>1, <1>3, Relays DEF Runs
<1> QED
  BY <1>4, LostDef

LEMMA LostStep == GatewayInv /\ LostOnlyWithRelay /\ [Next]_vars => LostOnlyWithRelay'
<1> SUFFICES ASSUME GatewayInv, LostOnlyWithRelay, [Next]_vars
             PROVE  LostOnlyWithRelay'
  OBVIOUS
<1>1. ASSUME UNCHANGED <<relay, flowVars, via, out>> PROVE LostOnlyWithRelay'
  BY <1>1 DEF flowVars, LostOnlyWithRelay, Runs
<1>2. CASE UNCHANGED vars
  BY <1>1, <1>2 DEF vars, tunVars, ctlVars
<1>3. CASE DialFail \/ Wake \/ (\E k \in Conn : LinkLost(k))
               \/ \E s \in Side : Restart(s)
  BY <1>1, <1>3 DEF DialFail, Wake, LinkLost, Restart, tunVars
<1>4. ASSUME NEW s \in Side, Route(s) PROVE LostOnlyWithRelay'
  BY <1>1, <1>4 DEF Route, ctlVars
<1>5. ASSUME NEW r \in Relay, ReadEof(r) PROVE LostOnlyWithRelay'
  BY <1>1, <1>5 DEF ReadEof, tunVars
<1> QED
  BY <1>2, <1>3, <1>4, <1>5, StepCases, LostDialOk, LostTunRecv, LostWriteFrame,
     LostReadFrame, LostTunSend, LostFail, LostCrash

\* However relays end, side by side or one after the other, and whichever side
\* is killed: a packet that a relay has read from its device is still under way,
\* or has come out, unless one of the two relays of its connection has ended.
THEOREM GatewayLosesWithRelay == Spec => []LostOnlyWithRelay
  BY TypeInit, TypeStep, LostInit, LostStep, PTL DEF Spec

-----------------------------------------------------------------------------
(***************************************************************************)
(* The gateway implements PacketPath.                                      *)
(***************************************************************************)
LEMMA ConcatOne ==
    ASSUME NEW S, NEW x \in S, NEW q \in Seq(S)
    PROVE  /\ <<x>> \o q # <<>>
           /\ Head(<<x>> \o q) = x
           /\ Tail(<<x>> \o q) = q
<1> DEFINE c == <<x>> \o q
<1>1. /\ c \in Seq(S) /\ Len(q) \in Nat /\ Len(c) = Len(q) + 1
      /\ \A i \in 1..(Len(q) + 1) : c[i] = IF i <= 1 THEN x ELSE q[i - 1]
  <2>1. <<x>> \in Seq(S) /\ Len(<<x>>) = 1 /\ <<x>>[1] = x
    OBVIOUS
  <2>2. Len(q) \in Nat
    BY LenProperties
  <2>3. /\ c \in Seq(S) /\ Len(c) = Len(<<x>>) + Len(q)
        /\ \A i \in 1..(Len(<<x>>) + Len(q)) :
              c[i] = IF i <= Len(<<x>>) THEN <<x>>[i] ELSE q[i - Len(<<x>>)]
    BY <2>1, ConcatProperties
  <2>4. \A i \in 1..(Len(q) + 1) : i <= 1 => i = 1
    BY <2>2
  <2> QED
    BY <2>1, <2>2, <2>3, <2>4
<1> HIDE DEF c
<1>2. c # <<>> /\ c[1] = x
  BY <1>1
<1>3. /\ Head(c) = c[1] /\ Tail(c) \in Seq(S) /\ Len(Tail(c)) = Len(q)
      /\ \A i \in 1..Len(q) : Tail(c)[i] = c[i + 1]
  BY <1>1, <1>2, HeadTailProperties
<1>4. \A i \in 1..Len(q) : Tail(c)[i] = q[i]
  BY <1>1, <1>3
<1>5. Tail(c) = q
  BY <1>3, <1>4, SeqEqual
<1> QED
  BY <1>2, <1>3, <1>5 DEF c

\* What is cut from the front and from the back leaves what is between.
LEMMA LeftAfterCut ==
    ASSUME NEW S, NEW a \in Seq(S), NEW w \in Seq(S), NEW b \in Seq(S),
           NEW c \in {a, <<>>}, NEW d \in {b, <<>>}
    PROVE  Path!LeftOf((c \o w) \o d, (a \o w) \o b)
<1> DEFINE t == (c \o w) \o d
           q == (a \o w) \o b
           cut == Len(a) - Len(c)
<1>1. \A X : <<>> \in Seq(X) /\ Len(<<>>) = 0
  BY EmptySeq
<1>2. c \in Seq(S) /\ d \in Seq(S)
  BY <1>1, Zenon
<1>3. /\ Len(a) \in Nat /\ Len(w) \in Nat /\ Len(b) \in Nat
      /\ Len(c) \in Nat /\ Len(d) \in Nat /\ cut \in Nat
      /\ Len(c) \in {0, Len(a)} /\ Len(d) \in {0, Len(b)}
      /\ (Len(c) # 0 => c = a) /\ (Len(d) # 0 => d = b)
  BY <1>1, <1>2, LenProperties
<1>4. /\ (a \o w) \in Seq(S) /\ Len(a \o w) = Len(a) + Len(w)
      /\ \A i \in 1..(Len(a) + Len(w)) :
            (a \o w)[i] = IF i <= Len(a) THEN a[i] ELSE w[i - Len(a)]
  BY ConcatProperties
<1>5. /\ (c \o w) \in Seq(S) /\ Len(c \o w) = Len(c) + Len(w)
      /\ \A i \in 1..(Len(c) + Len(w)) :
            (c \o w)[i] = IF i <= Len(c) THEN c[i] ELSE w[i - Len(c)]
  BY <1>2, ConcatProperties
<1>6. /\ Len(q) = Len(a) + Len(w) + Len(b)
      /\ \A i \in 1..(Len(a) + Len(w) + Len(b)) :
            q[i] = IF i <= Len(a) + Len(w) THEN (a \o w)[i]
                                           ELSE b[i - (Len(a) + Len(w))]
  BY <1>4, ConcatProperties
<1>7. /\ Len(t) = Len(c) + Len(w) + Len(d)
      /\ \A i \in 1..(Len(c) + Len(w) + Len(d)) :
            t[i] = IF i <= Len(c) + Len(w) THEN (c \o w)[i]
                                           ELSE d[i - (Len(c) + Len(w))]
  BY <1>2, <1>5, ConcatProperties
<1> HIDE DEF t, q
<1>8. ASSUME NEW i \in 1..Len(t)
      PROVE  i + cut \in 1..Len(q) /\ t[i] = q[i + cut]
  <2>1. i \in Nat \ {0} /\ i <= Len(t) /\ Len(t) \in Nat
    BY <1>3, <1>7
  <2>2. i + cut \in 1..Len(q)
    BY <1>3, <1>6, <1>7, <2>1
  <2>3. CASE i <= Len(c)
    <3>1. c = a /\ cut = 0
      BY <1>3, <2>1, <2>3
    <3>2. t[i] = c[i]
      BY <1>3, <1>5, <1>7, <2>1, <2>3
    <3>3. q[i] = a[i]
      BY <1>3, <1>4, <1>6, <2>1, <2>3, <3>1
    <3> QED
      BY <2>1, <2>2, <3>1, <3>2, <3>3
  <2>4. CASE ~(i <= Len(c)) /\ i <= Len(c) + Len(w)
    <3>1. t[i] = w[i - Len(c)]
      BY <1>3, <1>5, <1>7, <2>1, <2>4
    <3>2. q[i + cut] = w[i + cut - Len(a)]
      <4>1. ~(i + cut <= Len(a)) /\ i + cut <= Len(a) + Len(w)
        BY <1>3, <2>1, <2>4
      <4>2. q[i + cut] = (a \o w)[i + cut]
        BY <1>3, <1>6, <2>2, <4>1
      <4>3. i + cut \in 1..(Len(a) + Len(w))
        BY <1>3, <2>1, <4>1
      <4> QED
        BY <1>4, <4>1, <4>2, <4>3
    <3> QED
      BY <1>3, <2>1, <2>2, <3>1, <3>2
  <2>5. CASE ~(i <= Len(c) + Len(w))
    <3>1. d = b
      BY <1>3, <1>7, <2>1, <2>5
    <3>2. t[i] = d[i - (Len(c) + Len(w))]
      BY <1>3, <1>7, <2>1, <2>5
    <3>3. q[i + cut] = b[i + cut - (Len(a) + Len(w))]
      BY SMTT(30), <1>3, <1>6, <2>1, <2>2, <2>5
    <3>4. i + cut - (Len(a) + Len(w)) = i - (Len(c) + Len(w))
      BY <1>3, <2>1
    <3> QED
      BY <2>2, <3>1, <3>2, <3>3, <3>4
  <2> QED
    BY <1>3, <2>1, <2>3, <2>4, <2>5
<1> DEFINE place == [i \in 1..Len(t) |-> i + cut]
<1>9. place \in [1..Len(t) -> 1..Len(q)]
  BY <1>8
<1>10. \A i \in 1..Len(t) : /\ t[i] = q[place[i]]
                            /\ \A j \in 1..(i - 1) : place[j] < place[i]
  BY <1>3, <1>7, <1>8
<1>11. Path!LeftOf(t, q)
  BY <1>9, <1>10 DEF Path!LeftOf
<1> QED
  BY <1>11 DEF t, q

-----------------------------------------------------------------------------
Queues == tunq = [s \in Side |-> tunq[s]]

LEMMA QueuesInit == Init => Queues
  BY DEF Init, Queues

LEMMA QueuesStep == GatewayInv /\ Queues /\ [Next]_vars => Queues'
<1> SUFFICES ASSUME GatewayInv, Queues, [Next]_vars PROVE Queues'
  OBVIOUS
<1>1. ASSUME tunq' = tunq PROVE Queues'
  BY <1>1 DEF Queues
<1>2. ASSUME NEW s \in Side, NEW q, tunq' = [tunq EXCEPT ![s] = q] PROVE Queues'
  BY <1>2 DEF Queues
<1>3. ASSUME NEW r \in Relay,
             TunRecv(r) \/ WriteFrame(r) \/ ReadFrame(r) \/ ReadEof(r)
                 \/ TunSend(r) \/ (Runs(r) /\ Fail(r))
      PROVE  Queues'
  BY <1>1, <1>2, <1>3, Relays
     DEF TunRecv, WriteFrame, ReadFrame, ReadEof, TunSend, Fail, tunVars
<1>4. ASSUME NEW s \in Side, Route(s) \/ Crash(s) PROVE Queues'
  BY <1>2, <1>4 DEF Route, Crash
<1>5. CASE UNCHANGED vars \/ DialOk
  BY <1>1, <1>5 DEF DialOk, vars, tunVars
<1>6. CASE DialFail \/ Wake \/ (\E k \in Conn : LinkLost(k))
               \/ \E s \in Side : Restart(s)
  BY <1>1, <1>6 DEF DialFail, Wake, LinkLost, Restart, tunVars
<1> QED
  BY <1>3, <1>4, <1>5, <1>6, StepCases

LEMMA Regroup ==
    \A a, b, c \in Seq(Nat) : (a \o b) \o c = a \o (b \o c)
  BY ConcatAssociative

LEMMA UnderTypes ==
    ASSUME GatewayInv, NEW r \in Relay
    PROVE  /\ sending[Other(r)] \in Seq(Nat) /\ wire[r] \in Seq(Nat)
           /\ writing[r] \in Seq(Nat) /\ Under(r) \in Seq(Nat)
<1>1. Other(r) \in Relay /\ Packet(r[1]) \subseteq Nat /\ Packet(Peer(Other(r)[1])) \subseteq Nat
  BY Relays, Bounds
<1>2. /\ sending[Other(r)] \in Seq(Packet(Peer(Other(r)[1])))
      /\ wire[r] \in Seq(Packet(r[1])) /\ writing[r] \in Seq(Packet(r[1]))
  BY <1>1 DEF GatewayInv, TypeOK, FlowTypeOK
<1>3. /\ sending[Other(r)] \in Seq(Nat) /\ wire[r] \in Seq(Nat)
      /\ writing[r] \in Seq(Nat)
  BY <1>1, <1>2, SeqMonotonic
<1> QED
  BY <1>3, ConcatProperties DEF Under

LEMMA PathLines ==
    /\ Path!Line = Relay /\ Path!Side = Side
    /\ \A s : Path!Peer(s) = Peer(s)
  BY DEF Path!Line, Path!Side, Path!Peer, Relay, Side, Peer

\* How the step of one relay shows in what is under way.
LEMMA LinesChange ==
    ASSUME NEW r \in Relay, NEW q, Under(r)' = q,
           \A o \in Relay : o # r => Under(o)' = Under(o)
    PROVE  Lines' = [Lines EXCEPT ![r] = q]
  BY DEF Lines

LEMMA LinesKept ==
    ASSUME \A o \in Relay : Under(o)' = Under(o)
    PROVE  Lines' = Lines
  BY DEF Lines

LEMMA StandingKept ==
    ASSUME UNCHANGED <<conns, relay>>
    PROVE  Standing' = Standing
  BY DEF Standing, Live, Runs

\* A connection that has a relay is not new.
LEMMA StandingKnown ==
    ASSUME GatewayInv, NEW r \in Relay, relay[r] # "none"
    PROVE  Standing[r[2]] # "new" /\ r[2] \in Conn
<1>1. r[2] \in Conn /\ r[2] <= conns /\ r[2] \in Nat /\ conns \in Nat
  BY Relays, Bounds DEF GatewayInv, TypeOK, CtlTypeOK, RelaysKnown
<1>2. ~(r[2] > conns)
  BY <1>1
<1> QED
  BY <1>1, <1>2 DEF Standing

LEMMA MapsInit == Init => Path!Init
<1> SUFFICES ASSUME Init PROVE Path!Init
  OBVIOUS
<1>1. /\ made = [s \in Side |-> 0] /\ tunq = [s \in Side |-> <<>>]
      /\ out = [s \in Side |-> <<>>]
  BY DEF Init
<1>2. Standing = [k \in Conn |-> "new"]
  <2>1. \A k \in Conn : k > conns
    BY Bounds DEF Init
  <2> QED
    BY <2>1 DEF Standing
<1>3. Lines = [r \in Relay |-> <<>>]
  <2>1. \A r \in Relay : Under(r) = <<>>
    <3>1. <<>> \o <<>> = <<>>
      OBVIOUS
    <3>2. ASSUME NEW r \in Relay
          PROVE  sending[Other(r)] = <<>> /\ wire[r] = <<>> /\ writing[r] = <<>>
      BY Relays DEF Init
    <3> QED
      BY <3>1, <3>2, Zenon DEF Under
  <2> QED
    BY <2>1 DEF Lines
<1> QED
  BY <1>1, <1>2, <1>3, PathLines DEF Path!Init

LEMMA MapsRoute ==
    ASSUME GatewayInv, NEW s \in Side, Route(s)
    PROVE  Path!Enter(s)
<1>1. Standing' = Standing
  BY StandingKept DEF Route, ctlVars
<1>2. Lines' = Lines
  BY DEF Route, flowVars, Lines, Under
<1> QED
  BY <1>1, <1>2 DEF Route, Path!Enter

LEMMA MapsControl ==
    ASSUME UNCHANGED <<conns, relay, flowVars, tunVars>>
    PROVE  UNCHANGED Path!vars
<1>1. Standing' = Standing
  BY StandingKept
<1>2. Lines' = Lines
  BY DEF flowVars, Lines, Under
<1> QED
  BY <1>1, <1>2 DEF tunVars, Path!vars

LEMMA MapsDialOk ==
    ASSUME GatewayInv, DialOk
    PROVE  Path!Connect(conns + 1)
<1>1. /\ conns \in Nat /\ conns + 1 \in Conn /\ conns' = conns + 1
      /\ relay' = [r \in Relay |-> IF r[2] = conns + 1 THEN "run" ELSE relay[r]]
  BY Bounds DEF DialOk, GatewayInv, TypeOK, CtlTypeOK, Conn
<1>2. Lines' = Lines
  BY DEF DialOk, flowVars, Lines, Under
<1>3. Standing[conns + 1] = "new"
  BY <1>1 DEF Standing
<1>4. Standing' = [Standing EXCEPT ![conns + 1] = "live"]
  <2>1. ASSUME NEW k \in Conn
        PROVE  Standing'[k] = IF k = conns + 1 THEN "live" ELSE Standing[k]
    <3>1. k \in Nat /\ <<"client", k>> \in Relay /\ <<"server", k>> \in Relay
      BY Bounds DEF Relay, Side
    <3>2. k = conns + 1 => Live(k)'
      BY <1>1, <3>1 DEF Live, Runs
    <3>3. k # conns + 1 => (Live(k)' <=> Live(k))
      BY <1>1, <3>1 DEF Live, Runs
    <3>4. k # conns + 1 => (k > conns' <=> k > conns)
      BY <1>1, <3>1
    <3>5. k = conns + 1 => ~(k > conns')
      BY <1>1, <3>1
    <3> QED
      BY <3>2, <3>3, <3>4, <3>5 DEF Standing
  <2> QED
    BY <2>1 DEF Standing
<1>5. UNCHANGED <<made, tunq, out>>
  BY DEF DialOk, tunVars
<1> QED
  BY <1>2, <1>3, <1>4, <1>5 DEF Path!Connect

LEMMA MapsTunRecv ==
    ASSUME GatewayInv, NEW r \in Relay, TunRecv(r)
    PROVE  Path!Take(r)
<1> DEFINE n == Head(tunq[r[1]])
           held == sending[Other(r)] \o wire[r]
<1>1. /\ Runs(r) /\ writing[r] = <<>> /\ tunq[r[1]] # <<>>
      /\ writing' = [writing EXCEPT ![r] = <<n>>] /\ DOMAIN writing = Relay
      /\ tunq' = [tunq EXCEPT ![r[1]] = Tail(@)]
      /\ UNCHANGED <<wire, sending, made, out, conns, relay>>
  BY DEF TunRecv, ctlVars, GatewayInv, TypeOK, FlowTypeOK
<1>2. n \in Nat /\ held \in Seq(Nat)
  <2>1. n \in Packet(r[1]) /\ Packet(r[1]) \subseteq Nat
    BY TypeTunRecv, Relays, Bounds
  <2>2. held \in Seq(Nat)
    BY UnderTypes, ConcatProperties
  <2> QED
    BY <2>1, <2>2
<1> HIDE DEF n, held
<1>3. Under(r) = held /\ Under(r)' = Append(held, n)
  <2>1. held \o <<>> = held /\ held \o <<n>> = Append(held, n)
    BY <1>2, ConcatEmptySeq, AppendIsConcat
  <2>2. Under(r) = held \o writing[r] /\ Under(r)' = held \o writing'[r]
    BY <1>1 DEF Under, held
  <2>3. writing'[r] = <<n>>
    BY <1>1
  <2> QED
    BY <1>1, <2>1, <2>2, <2>3, Zenon
<1>4. \A o \in Relay : o # r => Under(o)' = Under(o)
  BY <1>1 DEF Under
<1>5. Lines' = [Lines EXCEPT ![r] = Append(@, n)]
  <2>1. Lines[r] = held
    BY <1>3 DEF Lines
  <2> QED
    BY <1>3, <1>4, <2>1, LinesChange
<1>6. Standing[r[2]] # "new" /\ Standing' = Standing
  BY <1>1, StandingKept, StandingKnown DEF Runs
<1> QED
  BY <1>1, <1>5, <1>6 DEF Path!Take, n

LEMMA MapsWriteFrame ==
    ASSUME GatewayInv, NEW r \in Relay, WriteFrame(r)
    PROVE  UNCHANGED Path!vars
<1> DEFINE a == sending[Other(r)]
<1>1. /\ wire' = [wire EXCEPT ![r] = wire[r] \o writing[r]] /\ DOMAIN wire = Relay
      /\ writing' = [writing EXCEPT ![r] = <<>>] /\ DOMAIN writing = Relay
      /\ UNCHANGED <<sending, made, tunq, out, conns, relay>>
  BY DEF WriteFrame, Queued, tunVars, ctlVars, GatewayInv, TypeOK, FlowTypeOK
<1>2. a \in Seq(Nat) /\ wire[r] \in Seq(Nat) /\ writing[r] \in Seq(Nat)
  BY UnderTypes
<1>3. (a \o (wire[r] \o writing[r])) \o <<>> = (a \o wire[r]) \o writing[r]
  <2>1. a \o (wire[r] \o writing[r]) \in Seq(Nat)
    BY <1>2, ConcatProperties
  <2>2. (a \o wire[r]) \o writing[r] = a \o (wire[r] \o writing[r])
    BY <1>2, Regroup, Zenon
  <2>3. (a \o (wire[r] \o writing[r])) \o <<>> = a \o (wire[r] \o writing[r])
    BY <2>1, ConcatEmptySeq
  <2> QED
    BY <2>2, <2>3, Zenon
<1>4. Under(r)' = Under(r)
  <2>1. wire'[r] = wire[r] \o writing[r] /\ writing'[r] = <<>> /\ sending' = sending
    BY <1>1
  <2> QED
    BY <1>3, <2>1, Zenon DEF Under
<1>5. \A o \in Relay : o # r => Under(o)' = Under(o)
  BY <1>1 DEF Under
<1> QED
  BY <1>1, <1>4, <1>5, LinesKept, StandingKept DEF Path!vars

\* The relay that reads is the peer of the one that wrote.
LEMMA MapsReadFrame ==
    ASSUME GatewayInv, NEW r \in Relay, ReadFrame(r)
    PROVE  UNCHANGED Path!vars
<1> DEFINE o == Other(r)
           n == Head(wire[o])
<1>1. /\ o \in Relay /\ Other(o) = r /\ wire[o] # <<>> /\ sending[r] = <<>>
      /\ wire' = [wire EXCEPT ![o] = Tail(wire[o])] /\ DOMAIN wire = Relay
      /\ sending' = [sending EXCEPT ![r] = <<n>>] /\ DOMAIN sending = Relay
      /\ UNCHANGED <<writing, made, tunq, out, conns, relay>>
  BY Relays DEF ReadFrame, ReadsFrames, tunVars, ctlVars, GatewayInv, TypeOK,
                FlowTypeOK
<1>2. wire[o] \in Seq(Nat)
  BY <1>1, UnderTypes
<1> HIDE DEF o, n
<1>3. <<>> \o wire[o] = wire[o] /\ <<n>> \o Tail(wire[o]) = wire[o]
  <2>1. /\ n \in Nat /\ Tail(wire[o]) \in Seq(Nat) /\ n = wire[o][1]
        /\ Len(wire[o]) \in Nat \ {0} /\ Len(Tail(wire[o])) = Len(wire[o]) - 1
        /\ \A i \in 1..Len(Tail(wire[o])) : Tail(wire[o])[i] = wire[o][i + 1]
    BY <1>1, <1>2, HeadTailProperties, EmptySeq DEF n
  <2>2. /\ <<n>> \in Seq(Nat) /\ Len(<<n>>) = 1 /\ <<n>>[1] = n
    BY <2>1
  <2>3. /\ <<n>> \o Tail(wire[o]) \in Seq(Nat)
        /\ Len(<<n>> \o Tail(wire[o])) = Len(wire[o])
        /\ \A i \in 1..Len(wire[o]) :
              (<<n>> \o Tail(wire[o]))[i]
                  = IF i <= 1 THEN <<n>>[i] ELSE Tail(wire[o])[i - 1]
    <3> DEFINE x == <<n>>
               y == Tail(wire[o])
    <3>1. /\ x \o y \in Seq(Nat) /\ Len(x \o y) = Len(x) + Len(y)
          /\ \A i \in 1..(Len(x) + Len(y)) :
                (x \o y)[i] = IF i <= Len(x) THEN x[i] ELSE y[i - Len(x)]
      BY SMTT(30), <2>1, <2>2, ConcatProperties
    <3> QED
      BY <2>1, <2>2, <3>1
  <2>4. ASSUME NEW i \in 1..Len(wire[o])
        PROVE  (<<n>> \o Tail(wire[o]))[i] = wire[o][i]
    <3>1. CASE i = 1
      <4>1. (<<n>> \o Tail(wire[o]))[1] = <<n>>[1]
        BY <2>1, <2>3
      <4> QED
        BY <2>1, <2>2, <3>1, <4>1
    <3>2. CASE i # 1
      <4>1. i - 1 \in 1..Len(Tail(wire[o])) /\ ~(i <= 1) /\ (i - 1) + 1 = i
        BY <2>1, <3>2
      <4>2. (<<n>> \o Tail(wire[o]))[i] = Tail(wire[o])[i - 1]
        BY <2>3, <4>1
      <4>3. Tail(wire[o])[i - 1] = wire[o][(i - 1) + 1]
        BY <2>1, <4>1
      <4> QED
        BY <4>1, <4>2, <4>3
    <3> QED
      BY <3>1, <3>2
  <2>5. <<n>> \o Tail(wire[o]) = wire[o]
    BY <1>2, <2>3, <2>4, SeqEqual
  <2> QED
    BY <1>2, <2>5, ConcatEmptySeq
<1>4. Under(o)' = Under(o)
  <2>1. wire'[o] = Tail(wire[o]) /\ sending'[r] = <<n>> /\ writing' = writing
    BY <1>1
  <2> QED
    BY <1>1, <1>3, <2>1, Zenon DEF Under
<1>5. ASSUME NEW q \in Relay, q # o PROVE Under(q)' = Under(q)
  <2>1. Other(q) # r /\ Other(q) \in Relay
    BY <1>5, Relays DEF o
  <2>2. wire'[q] = wire[q] /\ sending'[Other(q)] = sending[Other(q)]
    BY <1>1, <1>5, <2>1
  <2> QED
    BY <1>1, <2>2 DEF Under
<1>6. \A q \in Relay : Under(q)' = Under(q)
  BY <1>4, <1>5
<1> QED
  BY <1>1, <1>6, LinesKept, StandingKept DEF Path!vars

LEMMA MapsTunSend ==
    ASSUME GatewayInv, NEW r \in Relay, TunSend(r)
    PROVE  Path!Deliver(Other(r))
<1> DEFINE o == Other(r)
           n == sending[r][1]
           rest == wire[o] \o writing[o]
<1>1. /\ o \in Relay /\ Other(o) = r /\ Peer(o[1]) = r[1] /\ o[2] = r[2]
      /\ sending[r] = <<n>>
      /\ out' = [out EXCEPT ![r[1]] = Append(@, <<n, r[2]>>)]
      /\ sending' = [sending EXCEPT ![r] = <<>>] /\ DOMAIN sending = Relay
      /\ UNCHANGED <<wire, writing, made, tunq, conns, relay>>
  BY Relays, OneHeld DEF TunSend, ctlVars, GatewayInv, TypeOK, FlowTypeOK
<1> DEFINE one == <<n>>
<1> HIDE DEF n
<1>2. /\ n \in Nat /\ wire[o] \in Seq(Nat) /\ writing[o] \in Seq(Nat)
      /\ rest \in Seq(Nat)
  <2>1. sending[r] \in Seq(Nat) /\ wire[o] \in Seq(Nat) /\ writing[o] \in Seq(Nat)
    BY <1>1, UnderTypes
  <2>2. Len(sending[r]) = 1
    BY <1>1
  <2>3. n \in Nat
    <3>1. sending[r][1] \in Nat
      BY <2>1, <2>2, ElementOfSeq
    <3> QED
      BY <3>1 DEF n
  <2> QED
    BY <2>1, <2>3, ConcatProperties
<1> HIDE DEF o
<1>3. /\ (<<n>> \o wire[o]) \o writing[o] = <<n>> \o rest
      /\ (<<>> \o wire[o]) \o writing[o] = rest
  <2>1. one \in Seq(Nat)
    BY <1>2
  <2>2. (<<n>> \o wire[o]) \o writing[o] = <<n>> \o rest
    <3> HIDE DEF one
    <3>1. (one \o wire[o]) \o writing[o] = one \o rest
      BY <1>2, <2>1, Regroup, Zenon
    <3> QED
      BY <3>1 DEF one
  <2>3. <<>> \o wire[o] = wire[o]
    BY <1>2, ConcatEmptySeq
  <2> QED
    BY <2>2, <2>3, Zenon
<1>4. Under(o) = <<n>> \o rest /\ Under(o)' = rest
  <2>1. sending'[r] = <<>> /\ wire' = wire /\ writing' = writing
    BY <1>1
  <2> QED
    BY <1>1, <1>3, <2>1, Zenon DEF Under
<1> HIDE DEF rest
<1>5. Lines[o] # <<>> /\ Head(Lines[o]) = n /\ Tail(Lines[o]) = rest
  <2>1. Lines[o] = <<n>> \o rest
    BY <1>1, <1>4 DEF Lines
  <2>2. <<n>> \o rest # <<>> /\ Head(<<n>> \o rest) = n /\ Tail(<<n>> \o rest) = rest
    BY <1>2, ConcatOne
  <2> QED
    BY <2>1, <2>2, Zenon
<1>6. ASSUME NEW q \in Relay, q # o PROVE Under(q)' = Under(q)
  <2>1. Other(q) # r /\ Other(q) \in Relay
    BY <1>6, Relays DEF o
  <2>2. sending'[Other(q)] = sending[Other(q)]
    BY <1>1, <2>1
  <2> QED
    BY <1>1, <2>2 DEF Under
<1>7. Lines' = [Lines EXCEPT ![o] = rest]
  BY <1>1, <1>4, <1>6, LinesChange
<1>8. Lines' = [Lines EXCEPT ![o] = Tail(@)]
  BY <1>5, <1>7
<1>9. out' = [out EXCEPT ![Path!Peer(o[1])] = Append(@, <<Head(Lines[o]), o[2]>>)]
  BY <1>1, <1>5, PathLines
<1>10. Standing' = Standing
  BY <1>1, StandingKept
<1> QED
  BY <1>1, <1>5, <1>8, <1>9, <1>10 DEF Path!Deliver, o

\* What is left of what is under way when relays end: what they held is lost.
LEMMA UnderLeft ==
    ASSUME GatewayInv, NEW r \in Relay, wire'[r] = wire[r],
           writing'[r] \in {writing[r], <<>>},
           sending'[Other(r)] \in {sending[Other(r)], <<>>}
    PROVE  Under(r)' \in Seq(Nat) /\ Path!LeftOf(Under(r)', Under(r))
<1> DEFINE a == sending[Other(r)]
           b == writing[r]
           w == wire[r]
           c == sending'[Other(r)]
           d == writing'[r]
<1>1. /\ a \in Seq(Nat) /\ w \in Seq(Nat) /\ b \in Seq(Nat)
  BY UnderTypes
<1>2. c \in {a, <<>>} /\ d \in {b, <<>>}
  OBVIOUS
<1>3. Under(r) = (a \o w) \o b /\ Under(r)' = (c \o w) \o d
  BY DEF Under
<1> HIDE DEF a, b, c, d, w
<1>4. Path!LeftOf((c \o w) \o d, (a \o w) \o b)
  BY <1>1, <1>2, LeftAfterCut
<1>5. c \in Seq(Nat) /\ d \in Seq(Nat)
  <2>1. <<>> \in Seq(Nat)
    BY EmptySeq
  <2> QED
    BY <1>1, <1>2, <2>1, Zenon
<1>6. (c \o w) \o d \in Seq(Nat)
  BY <1>1, <1>5, ConcatProperties
<1> QED
  BY <1>3, <1>4, <1>6

LEMMA MapsFail ==
    ASSUME GatewayInv, Queues, NEW r \in Relay, Runs(r), Fail(r)
    PROVE  Path!Break({r[2]})
<1>1. /\ wire' = wire /\ conns' = conns /\ ~Runs(r)'
      /\ UNCHANGED <<made, out>>
      /\ writing'[r] = <<>> /\ sending'[r] = <<>>
      /\ \A q \in Relay : q # r => /\ writing'[q] = writing[q]
                                   /\ sending'[q] = sending[q]
                                   /\ relay'[q] = relay[q]
  BY FailEffect
<1>2. tunq' = tunq
  BY DEF Queues, Fail, Unread
<1>3. Standing[r[2]] # "new" /\ r[2] \in Conn
  BY StandingKnown DEF Runs
<1>4. Standing' = [k \in Conn |-> IF k \in {r[2]} THEN "broken" ELSE Standing[k]]
  <2>1. ASSUME NEW k \in Conn
        PROVE  Standing'[k] = IF k = r[2] THEN "broken" ELSE Standing[k]
    <3>1. CASE k = r[2]
      <4>1. ~(k > conns)
        BY <1>3, <3>1 DEF Standing
      <4>2. ~Live(k)'
        BY <1>1, <3>1, Relays DEF Live, Side
      <4> QED
        BY <1>1, <3>1, <4>1, <4>2 DEF Standing
    <3>2. CASE k # r[2]
      <4>1. /\ <<"client", k>> \in Relay /\ <<"server", k>> \in Relay
            /\ <<"client", k>> # r /\ <<"server", k>> # r
        BY <3>2 DEF Relay, Side
      <4>2. Live(k)' <=> Live(k)
        BY <1>1, <4>1 DEF Live, Runs
      <4> QED
        BY <1>1, <3>2, <4>2 DEF Standing
    <3> QED
      BY <3>1, <3>2
  <2> QED
    BY <2>1 DEF Standing
<1>5. ASSUME NEW q \in Relay
      PROVE  /\ Under(q)' \in Seq(Nat)
             /\ IF q[2] \in {r[2]} THEN Path!LeftOf(Under(q)', Under(q))
                                   ELSE Under(q)' = Under(q)
  <2>1. Other(q) \in Relay
    BY Relays
  <2>2. /\ writing'[q] \in {writing[q], <<>>}
        /\ sending'[Other(q)] \in {sending[Other(q)], <<>>}
    BY <1>1, <2>1
  <2>3. Under(q)' \in Seq(Nat) /\ Path!LeftOf(Under(q)', Under(q))
    BY <1>1, <2>2, UnderLeft
  <2>4. q[2] # r[2] => Under(q)' = Under(q)
    <3>1. q[2] # r[2] => q # r /\ Other(q) # r
      BY Relays
    <3> QED
      BY <1>1, <2>1, <3>1 DEF Under
  <2> QED
    BY <2>3, <2>4
<1>6. /\ Lines' \in [Relay -> Seq(Nat)]
      /\ \A q \in Relay : IF q[2] \in {r[2]} THEN Path!LeftOf(Lines'[q], Lines[q])
                                             ELSE Lines'[q] = Lines[q]
  BY <1>5 DEF Lines
<1> QED
  BY <1>1, <1>2, <1>3, <1>4, <1>6, PathLines DEF Path!Break, Path!Loses

LEMMA MapsCrash ==
    ASSUME GatewayInv, NEW s \in Side, Crash(s)
    PROVE  Path!Crash(s)
<1> DEFINE broken == {k \in Conn : Standing[k] # "new"}
<1>1. /\ UNCHANGED <<wire, conns, made, out>>
      /\ tunq' = [tunq EXCEPT ![s] = <<>>]
      /\ \A q \in Relay : relay'[q] = IF q[1] = s /\ Runs(q) THEN "dead" ELSE relay[q]
      /\ \A q \in Relay : q[1] = s => writing'[q] = <<>> /\ sending'[q] = <<>>
      /\ \A q \in Relay : q[1] # s => writing'[q] = writing[q] /\ sending'[q] = sending[q]
  BY CrashEffect
<1>2. Standing' = [k \in Conn |-> IF k \in broken THEN "broken" ELSE Standing[k]]
  <2>1. ASSUME NEW k \in Conn PROVE ~Live(k)'
    <3>1. <<s, k>> \in Relay /\ <<s, k>>[1] = s
      BY DEF Relay
    <3>2. relay'[<<s, k>>] # "run"
      BY <1>1, <3>1 DEF Runs
    <3> QED
      BY <3>2 DEF Live, Runs, Side
  <2>2. \A k \in Conn : Standing'[k] = IF k > conns THEN "new" ELSE "broken"
    BY <1>1, <2>1 DEF Standing
  <2>3. \A k \in Conn : Standing[k] = "new" <=> k > conns
    BY DEF Standing
  <2> QED
    BY <2>2, <2>3 DEF Standing
<1>3. ASSUME NEW q \in Relay
      PROVE  /\ Under(q)' \in Seq(Nat)
             /\ IF q[2] \in broken THEN Path!LeftOf(Under(q)', Under(q))
                                   ELSE Under(q)' = Under(q)
  <2>1. Other(q) \in Relay /\ q[2] \in Conn /\ Other(q)[2] = q[2]
    BY Relays
  <2>2. /\ writing'[q] \in {writing[q], <<>>}
        /\ sending'[Other(q)] \in {sending[Other(q)], <<>>}
    BY <1>1, <2>1
  <2>3. Under(q)' \in Seq(Nat) /\ Path!LeftOf(Under(q)', Under(q))
    BY <1>1, <2>2, UnderLeft
  <2>4. CASE q[2] \notin broken
    <3>1. relay[q] = "none" /\ relay[Other(q)] = "none"
      BY <2>1, <2>4, StandingKnown
    <3>2. writing[q] = <<>> /\ sending[Other(q)] = <<>>
      BY <2>1, <3>1 DEF GatewayInv, TypeOK, FlowTypeOK
    <3>3. writing'[q] = writing[q] /\ sending'[Other(q)] = sending[Other(q)]
      BY <2>2, <3>2
    <3>4. Under(q)' = Under(q)
      BY <1>1, <3>3 DEF Under
    <3> QED
      BY <2>3, <2>4, <3>4
  <2> QED
    BY <2>3, <2>4
<1>4. /\ Lines' \in [Relay -> Seq(Nat)]
      /\ \A q \in Relay : IF q[2] \in broken THEN Path!LeftOf(Lines'[q], Lines[q])
                                             ELSE Lines'[q] = Lines[q]
  BY <1>3 DEF Lines
<1> QED
  BY <1>1, <1>2, <1>4, PathLines DEF Path!Crash, Path!Loses

LEMMA MapsStep == GatewayInv /\ Queues /\ [Next]_vars => [Path!Next]_Path!vars
<1> SUFFICES ASSUME GatewayInv, Queues, [Next]_vars PROVE [Path!Next]_Path!vars
  OBVIOUS
<1>1. CASE UNCHANGED vars
  BY <1>1, MapsControl DEF vars, ctlVars
<1>2. CASE DialOk
  <2>1. conns + 1 \in Conn
    BY <1>2, Bounds DEF DialOk, GatewayInv, TypeOK, CtlTypeOK, Conn
  <2> QED
    BY <1>2, <2>1, MapsDialOk DEF Path!Next
<1>3. CASE DialFail \/ Wake \/ (\E k \in Conn : LinkLost(k))
               \/ \E s \in Side : Restart(s)
  BY <1>3, MapsControl DEF DialFail, Wake, LinkLost, Restart
<1>4. ASSUME NEW r \in Relay,
             TunRecv(r) \/ WriteFrame(r) \/ ReadFrame(r) \/ ReadEof(r)
                 \/ TunSend(r) \/ (Runs(r) /\ Fail(r))
      PROVE  [Path!Next]_Path!vars
  <2>1. Other(r) \in Relay /\ r[2] \in Conn
    BY Relays
  <2>2. CASE TunRecv(r)
    BY <2>2, MapsTunRecv, PathLines DEF Path!Next
  <2>3. CASE WriteFrame(r) \/ ReadFrame(r)
    BY <2>3, MapsWriteFrame, MapsReadFrame
  <2>4. CASE ReadEof(r)
    BY <2>4, MapsControl DEF ReadEof
  <2>5. CASE TunSend(r)
    BY <2>1, <2>5, MapsTunSend, PathLines DEF Path!Next
  <2>6. CASE Runs(r) /\ Fail(r)
    <3>1. {r[2]} \in SUBSET Conn
      BY <2>1
    <3> QED
      BY <2>6, <3>1, MapsFail DEF Path!Next
  <2> QED
    BY <1>4, <2>2, <2>3, <2>4, <2>5, <2>6
<1>5. ASSUME NEW s \in Side, Route(s) \/ Crash(s) PROVE [Path!Next]_Path!vars
  BY <1>5, MapsRoute, MapsCrash, PathLines DEF Path!Next
<1> QED
  BY <1>1, <1>2, <1>3, <1>4, <1>5, StepCases

\* Every behaviour of the gateway is one of PacketPath, whatever relays, links
\* and processes do: connections carry packets one by one and in order, and a
\* packet is lost only with a connection or a process or for want of room.
THEOREM GatewayPath == Spec => PathSpec
  BY TypeInit, TypeStep, QueuesInit, QueuesStep, MapsInit, MapsStep, PTL
  DEF Spec, PathSpec, Path!Spec

-----------------------------------------------------------------------------
(***************************************************************************)
(* What PacketPath promises, read of the gateway.                          *)
(***************************************************************************)
PathP == INSTANCE PacketPathProofs WITH
    queue <- tunq, line <- Lines, status <- Standing

LEMMA SamePath ==
    /\ Path!Init <=> PathP!Init
    /\ [Path!Next]_Path!vars <=> [PathP!Next]_PathP!vars
<1>1. Path!Side = PathP!Side /\ Path!Line = PathP!Line /\ Path!vars = PathP!vars
  BY DEF Path!Side, PathP!Side, Path!Line, PathP!Line, Path!vars, PathP!vars
<1>2. Path!Init <=> PathP!Init
  BY <1>1 DEF Path!Init, PathP!Init
<1>3. ASSUME NEW b PROVE Path!Loses(b) <=> PathP!Loses(b)
  BY <1>1, Zenon DEF Path!Loses, PathP!Loses, Path!LeftOf, PathP!LeftOf
<1>4. ASSUME NEW s PROVE /\ Path!Enter(s) <=> PathP!Enter(s)
                         /\ Path!Crash(s) <=> PathP!Crash(s)
  BY <1>3, Zenon DEF Path!Enter, PathP!Enter, Path!Crash, PathP!Crash
<1>5. ASSUME NEW k PROVE Path!Connect(k) <=> PathP!Connect(k)
  BY Zenon DEF Path!Connect, PathP!Connect
<1>6. ASSUME NEW l PROVE /\ Path!Take(l) <=> PathP!Take(l)
                         /\ Path!Deliver(l) <=> PathP!Deliver(l)
  BY Zenon DEF Path!Take, PathP!Take, Path!Deliver, PathP!Deliver, Path!Peer,
               PathP!Peer
<1>7. ASSUME NEW b PROVE Path!Break(b) <=> PathP!Break(b)
  BY <1>3, Zenon DEF Path!Break, PathP!Break
<1>8. Path!Next <=> PathP!Next
  <2>1. (\E s \in Path!Side : Path!Enter(s) \/ Path!Crash(s))
            <=> \E s \in PathP!Side : PathP!Enter(s) \/ PathP!Crash(s)
    BY <1>1, <1>4, Zenon
  <2>2. (\E k \in Conn : Path!Connect(k)) <=> \E k \in Conn : PathP!Connect(k)
    BY <1>5, Zenon
  <2>3. (\E l \in Path!Line : Path!Take(l) \/ Path!Deliver(l))
            <=> \E l \in PathP!Line : PathP!Take(l) \/ PathP!Deliver(l)
    BY <1>1, <1>6, Zenon
  <2>4. (\E b \in SUBSET Conn : Path!Break(b))
            <=> \E b \in SUBSET Conn : PathP!Break(b)
    BY <1>7, Zenon
  <2> QED
    BY <2>1, <2>2, <2>3, <2>4, Zenon DEF Path!Next, PathP!Next
<1>9. UNCHANGED Path!vars <=> UNCHANGED PathP!vars
  BY Zenon DEF Path!vars, PathP!vars
<1> QED
  BY <1>2, <1>8, <1>9, Zenon

\* No packet enters a device twice, however many relays read the devices and
\* whatever ends them.
THEOREM GatewayAtMostOnce == Spec => []AtMostOnce
<1>1. PathP!OnceOut => AtMostOnce
  BY PathLines DEF PathP!OnceOut, PathP!Side, AtMostOnce, Side
<1>2. PathSpec => PathP!Spec
  BY SamePath, PTL DEF PathSpec, Path!Spec, PathP!Spec
<1> QED
  BY <1>1, <1>2, GatewayPath, PathP!PathDeliversOnce, PTL

\* The packets of one connection leave it in the order in which they entered.
THEOREM GatewayOrdered == Spec => []OrderedPerConnection
<1>1. PathP!OrderedOut => OrderedPerConnection
  BY DEF PathP!OrderedOut, PathP!Side, OrderedPerConnection, Side
<1>2. PathSpec => PathP!Spec
  BY SamePath, PTL DEF PathSpec, Path!Spec, PathP!Spec
<1> QED
  BY <1>1, <1>2, GatewayPath, PathP!PathDeliversInOrder, PTL
=============================================================================
