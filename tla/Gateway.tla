------------------------------ MODULE Gateway ------------------------------
(***************************************************************************)
(* The TUN gateway (src/src/tun_gateway.rs, and gateway-connect and        *)
(* gateway-serve of src/src/main.rs).                                      *)
(*                                                                         *)
(* Each side owns one TUN device for the life of its process.  The client  *)
(* dials, relays packets until the relay ends, waits and dials again; the  *)
(* server starts one more relay for every connection that reaches it, and  *)
(* all of its relays read the one device.  A relay is two futures joined   *)
(* by try_join!: tun_to_agg, which has no way out but an error, and        *)
(* agg_to_tun, which also ends at the end of the stream.                   *)
(*                                                                         *)
(* A relay is named by its side and its connection.  Packets are numbered  *)
(* in the order in which the kernel routes them into the device of a side. *)
(* One packet is one frame; Tunnel shows what framing does to the bytes.   *)
(***************************************************************************)
EXTENDS Integers, Sequences, FiniteSets

CONSTANTS MaxConns,    \* bound: connections that are ever established
          MaxPackets,  \* [Side -> Nat], bound: packets routed into each device
          QueueCap,    \* packets that a TUN device queues
          WireCap,     \* frames that the bonded link buffers per direction
          MayCrash,    \* bound: sides whose process may be killed and started again
          BadDevice    \* bound: sides whose tun.recv may fail with no packet in hand

Side == {"client", "server"}
Peer(s) == IF s = "client" THEN "server" ELSE "client"

Conn == 1..MaxConns
Relay == Side \X Conn
Other(r) == <<Peer(r[1]), r[2]>>

ASSUME GatewayAssumption ==
    /\ MaxConns \in Nat
    /\ MaxPackets \in [Side -> Nat]
    /\ {QueueCap, WireCap} \subseteq Nat \ {0}
    /\ MayCrash \subseteq Side
    /\ BadDevice \subseteq Side

VARIABLES
    proc,     \* whether the process of a side runs
    client,   \* the loop of run_gateway_connect: dialing, relay or backoff
    conns,    \* connections established so far
    link,     \* the bonded connection of a relay and its peer
    relay,    \* "none", "run", "closed" (returned) or "dead" (cut off)
    inbound,  \* the agg_to_tun future of a relay: "run" or "done"
    writing,  \* the packet that tun_to_agg has read and not yet written
    wire,     \* packets on the bonded link, from a relay to its peer
    sending,  \* the packet that agg_to_tun has read and not yet sent
    made,     \* packets routed into the device of a side
    tunq,     \* of these, the packets queued for whoever reads the device
    via,      \* the connection whose relay has read a packet, 0 if none has
    out,      \* packets sent to the device: number and connection
    sameKey   \* both processes were given the same key

tunVars  == <<made, tunq, via, out>>
flowVars == <<writing, wire, sending>>
ctlVars  == <<proc, client, conns, relay, inbound, link>>
vars == <<tunVars, flowVars, ctlVars, sameKey>>

Packet(s) == 1..MaxPackets[s]

CtlTypeOK ==
    /\ proc \in [Side -> BOOLEAN]
    /\ client \in {"dialing", "relay", "backoff"}
    /\ conns \in 0..MaxConns
    /\ link \in [Conn -> {"none", "up", "down"}]
    /\ relay \in [Relay -> {"none", "run", "closed", "dead"}]
    /\ inbound \in [Relay -> {"run", "done"}]
    /\ sameKey \in BOOLEAN

FlowTypeOK ==
    /\ {DOMAIN writing, DOMAIN wire, DOMAIN sending} = {Relay}
    /\ \A r \in Relay :
          /\ writing[r] \in Seq(Packet(r[1])) /\ Len(writing[r]) <= 1
          /\ wire[r] \in Seq(Packet(r[1])) /\ Len(wire[r]) <= WireCap
          /\ sending[r] \in Seq(Packet(Peer(r[1]))) /\ Len(sending[r]) <= 1
          /\ relay[r] # "run" => writing[r] = <<>> /\ sending[r] = <<>>

TunTypeOK ==
    /\ {DOMAIN made, DOMAIN tunq, DOMAIN via, DOMAIN out} = {Side}
    /\ \A s \in Side :
          /\ made[s] \in 0..MaxPackets[s]
          /\ tunq[s] \in Seq(1..made[s]) /\ Len(tunq[s]) <= QueueCap
          /\ via[s] \in [Packet(s) -> 0..conns]
          /\ out[s] \in Seq(Packet(Peer(s)) \X Conn)

TypeOK ==
    /\ CtlTypeOK
    /\ FlowTypeOK
    /\ TunTypeOK

Init ==
    /\ proc = [s \in Side |-> TRUE]
    /\ client = "dialing"
    /\ conns = 0
    /\ link = [k \in Conn |-> "none"]
    /\ relay = [r \in Relay |-> "none"]
    /\ inbound = [r \in Relay |-> "run"]
    /\ writing = [r \in Relay |-> <<>>]
    /\ wire = [r \in Relay |-> <<>>]
    /\ sending = [r \in Relay |-> <<>>]
    /\ made = [s \in Side |-> 0]
    /\ tunq = [s \in Side |-> <<>>]
    /\ via = [s \in Side |-> [p \in Packet(s) |-> 0]]
    /\ out = [s \in Side |-> <<>>]
    /\ sameKey \in BOOLEAN

-----------------------------------------------------------------------------
(***************************************************************************)
(* The loop of gateway-connect.                                            *)
(***************************************************************************)

\* tcp_connect succeeds: the client relays, and tcp_server of the other side
\* starts a relay of its own, whatever other relays run there.
DialOk ==
    /\ proc["client"] /\ client = "dialing"
    /\ proc["server"]
    /\ conns < MaxConns
    /\ conns' = conns + 1
    /\ client' = "relay"
    /\ link' = [link EXCEPT ![conns + 1] = "up"]
    /\ relay' = [r \in Relay |-> IF r[2] = conns + 1 THEN "run" ELSE relay[r]]
    /\ UNCHANGED <<proc, inbound, flowVars, tunVars, sameKey>>

\* tcp_connect fails.
DialFail ==
    /\ proc["client"] /\ client = "dialing"
    /\ client' = "backoff"
    /\ UNCHANGED <<proc, conns, relay, inbound, link, flowVars, tunVars, sameKey>>

\* The sleep of retry_backoff is over.
Wake ==
    /\ proc["client"] /\ client = "backoff"
    /\ client' = "dialing"
    /\ UNCHANGED <<proc, conns, relay, inbound, link, flowVars, tunVars, sameKey>>

-----------------------------------------------------------------------------
(***************************************************************************)
(* relay_packets.                                                          *)
(***************************************************************************)
Runs(r) == relay[r] = "run"

\* Mutant: an error ends only the half it hits.
StaysInRelay(s) == client

\* The client waits before it dials again; the server has nothing to do.
AfterRelay(s) == IF s = "client" THEN "backoff" ELSE client

\* Mutant: what was being written is queued again.
Requeue(r) == wire[r] \o writing[r] \o tunq[r[1]]

\* The device keeps what no relay has read, and gets nothing back.
Unread(r) == tunq[r[1]]

\* relay_packets returns an error: try_join! drops both futures, with the
\* packets they hold, and the stream.  The peer learns of it by the end of the
\* stream if the link can still carry it.
Fail(r) ==
    /\ relay' = [relay EXCEPT
                    ![r] = IF link[r[2]] = "down" THEN "dead" ELSE "closed"]
    /\ client' = AfterRelay(r[1])
    /\ writing' = [writing EXCEPT ![r] = <<>>]
    /\ sending' = [sending EXCEPT ![r] = <<>>]
    /\ tunq' = [tunq EXCEPT ![r[1]] = Unread(r)]
    /\ UNCHANGED <<proc, conns, inbound, link, wire, made, via, out, sameKey>>

\* tun.recv hands the next packet of the device to one of its readers.
TunRecv(r) ==
    /\ Runs(r) /\ writing[r] = <<>>
    /\ tunq[r[1]] # <<>>
    /\ writing' = [writing EXCEPT ![r] = <<Head(tunq[r[1]])>>]
    /\ tunq' = [tunq EXCEPT ![r[1]] = Tail(@)]
    /\ via' = [via EXCEPT ![r[1]][Head(tunq[r[1]])] = r[2]]
    /\ UNCHANGED <<wire, sending, made, out, ctlVars, sameKey>>

\* Mutant: frames are written by tasks of their own, and overtake each other.
Overtaking(q, packet) == packet \o q

\* The stream keeps the frames in the order in which they are written.
Queued(q, packet) == q \o packet

\* write_frame hands the packet to the link.
WriteFrame(r) ==
    /\ Runs(r) /\ writing[r] # <<>>
    /\ Len(wire[r]) < WireCap
    /\ wire' = [wire EXCEPT ![r] = Queued(@, writing[r])]
    /\ writing' = [writing EXCEPT ![r] = <<>>]
    /\ UNCHANGED <<sending, tunVars, ctlVars, sameKey>>

\* Mutant: a frame that cannot be written is skipped.
WriteErrSkips(r) ==
    /\ Runs(r) /\ writing[r] # <<>>
    /\ link[r[2]] = "down" \/ ~Runs(Other(r))
    /\ writing' = [writing EXCEPT ![r] = <<>>]
    /\ UNCHANGED <<wire, sending, tunVars, ctlVars, sameKey>>

\* write_frame fails: the link is lost, or the peer has dropped its stream.
WriteErr(r) ==
    /\ Runs(r) /\ writing[r] # <<>>
    /\ link[r[2]] = "down" \/ ~Runs(Other(r))
    /\ Fail(r)

\* Mutant: the next frame is read before the last packet has been sent.
ReadsAhead(r) == Runs(r) /\ inbound[r] = "run"

\* agg_to_tun is in read_frame.
ReadsFrames(r) == Runs(r) /\ inbound[r] = "run" /\ sending[r] = <<>>

\* read_frame returns the next packet.
ReadFrame(r) ==
    /\ ReadsFrames(r)
    /\ wire[Other(r)] # <<>>
    /\ sameKey
    /\ sending' = [sending EXCEPT ![r] = <<Head(wire[Other(r)])>>]
    /\ wire' = [wire EXCEPT ![Other(r)] = Tail(@)]
    /\ UNCHANGED <<writing, tunVars, ctlVars, sameKey>>

\* read_frame fails: open rejects a frame sealed with another key.
OpenFails(r) ==
    /\ ReadsFrames(r)
    /\ wire[Other(r)] # <<>>
    /\ ~sameKey
    /\ Fail(r)

\* read_frame fails: the link is lost.
ReadErr(r) ==
    /\ ReadsFrames(r)
    /\ link[r[2]] = "down"
    /\ Fail(r)

\* read_frame returns None: agg_to_tun returns Ok, and try_join! goes on
\* waiting for tun_to_agg.
ReadEof(r) ==
    /\ ReadsFrames(r)
    /\ relay[Other(r)] = "closed" /\ wire[Other(r)] = <<>>
    /\ inbound' = [inbound EXCEPT ![r] = "done"]
    /\ UNCHANGED <<proc, client, conns, relay, link, flowVars, tunVars, sameKey>>

\* tun.send injects the packet.
TunSend(r) ==
    /\ Runs(r) /\ sending[r] # <<>>
    /\ out' = [out EXCEPT ![r[1]] = Append(@, <<sending[r][1], r[2]>>)]
    /\ sending' = [sending EXCEPT ![r] = <<>>]
    /\ UNCHANGED <<writing, wire, made, tunq, via, ctlVars, sameKey>>

\* tun.recv fails, tun.send refuses the packet, or seal fails for the one being
\* written.
StepErr(r) ==
    /\ Runs(r)
    /\ r[1] \in BadDevice \/ sending[r] # <<>> \/ writing[r] # <<>>
    /\ Fail(r)

TunToAggStep(r) == TunRecv(r) \/ WriteFrame(r) \/ WriteErr(r)

AggToTunStep(r) ==
    \/ ReadFrame(r)
    \/ OpenFails(r)
    \/ ReadErr(r)
    \/ ReadEof(r)
    \/ TunSend(r)

-----------------------------------------------------------------------------
(***************************************************************************)
(* The kernel, the links and the processes.                                *)
(***************************************************************************)

\* The kernel routes a packet into the device; a full queue drops it.
Route(s) ==
    /\ proc[s] /\ made[s] < MaxPackets[s]
    /\ made' = [made EXCEPT ![s] = @ + 1]
    /\ tunq' = [tunq EXCEPT ![s] = IF Len(@) < QueueCap
                                   THEN Append(@, made[s] + 1) ELSE @]
    /\ UNCHANGED <<via, out, flowVars, ctlVars, sameKey>>

\* Every physical link of a connection is gone for longer than the bonding
\* layer tolerates.
LinkLost(k) ==
    /\ link[k] = "up"
    /\ link' = [link EXCEPT ![k] = "down"]
    /\ UNCHANGED <<proc, client, conns, relay, inbound, flowVars, tunVars,
                   sameKey>>

\* A process is killed.  Its device and its relays are gone; the peer loses
\* the links of the connections that were in use.
Crash(s) ==
    /\ s \in MayCrash /\ proc[s]
    /\ proc' = [proc EXCEPT ![s] = FALSE]
    /\ relay' = [r \in Relay |->
                    IF r[1] = s /\ Runs(r) THEN "dead" ELSE relay[r]]
    /\ link' = [k \in Conn |->
                    IF relay[<<s, k>>] = "none" THEN link[k] ELSE "down"]
    /\ writing' = [r \in Relay |-> IF r[1] = s THEN <<>> ELSE writing[r]]
    /\ sending' = [r \in Relay |-> IF r[1] = s THEN <<>> ELSE sending[r]]
    /\ tunq' = [tunq EXCEPT ![s] = <<>>]
    /\ UNCHANGED <<client, conns, inbound, wire, made, via, out, sameKey>>

\* It is started again: run_gateway_connect and run_gateway_serve begin anew.
Restart(s) ==
    /\ ~proc[s]
    /\ proc' = [proc EXCEPT ![s] = TRUE]
    /\ client' = IF s = "client" THEN "dialing" ELSE client
    /\ UNCHANGED <<conns, relay, inbound, link, flowVars, tunVars, sameKey>>

Next ==
    \/ DialOk
    \/ DialFail
    \/ Wake
    \/ \E r \in Relay :
          \/ TunToAggStep(r)
          \/ AggToTunStep(r)
          \/ StepErr(r)
    \/ \E k \in Conn : LinkLost(k)
    \/ \E s \in Side :
          \/ Route(s)
          \/ Crash(s)
          \/ Restart(s)

Spec == Init /\ [][Next]_vars

\* tokio runs what can go on and the backoff is finite; nothing is assumed of
\* the kernel's traffic, of the links, or of who restarts a process.
Fairness(s) ==
    \A k \in Conn : /\ WF_vars(TunToAggStep(<<s, k>>))
                    /\ WF_vars(AggToTunStep(<<s, k>>))

\* The client comes back however slow the relays of the server are.
ClientFairSpec == Spec /\ WF_vars(Wake) /\ Fairness("client")

FairSpec == ClientFairSpec /\ Fairness("server")

-----------------------------------------------------------------------------
(***************************************************************************)
(* Properties.                                                             *)
(***************************************************************************)
Numbers(q) == {q[i] : i \in 1..Len(q)}

\* No packet enters a device twice, however connections are lost, replaced
\* and read side by side (relay_packets of two connections share a device).
AtMostOnce ==
    \A s \in Side : \A i, j \in 1..Len(out[s]) :
        out[s][i][1] = out[s][j][1] => i = j

\* Packets of one connection come out in the order in which they went in.
\* Across connections the order is not kept, because the relay of an old
\* connection still delivers while the new one does.
OrderedPerConnection ==
    \A s \in Side : \A i, j \in 1..Len(out[s]) :
        i < j /\ out[s][i][2] = out[s][j][2] => out[s][i][1] < out[s][j][1]

\* A packet that a relay has read is lost only with its connection: unless one
\* of the two relays has ended, it is still under way or it has come out.
LostOnlyWithRelay ==
    \A r \in Relay : \A p \in Packet(r[1]) :
        via[r[1]][p] = r[2] =>
            \/ p \in Numbers(writing[r]) \cup Numbers(wire[r])
                       \cup Numbers(sending[Other(r)])
            \/ <<p, r[2]>> \in Numbers(out[Peer(r[1])])
            \/ ~Runs(r) \/ ~Runs(Other(r))

\* What is under way from a relay to its peer: what the receiving relay holds,
\* what is on the link and what the sending relay holds.
Under(r) == sending[Other(r)] \o wire[r] \o writing[r]

\* A connection is live while both of its relays run.
Live(k) == Runs(<<"client", k>>) /\ Runs(<<"server", k>>)

\* What the path carries, and how its connections stand.
Lines == [r \in Relay |-> Under(r)]
Standing == [k \in Conn |-> IF k > conns THEN "new"
                           ELSE IF Live(k) THEN "live" ELSE "broken"]

\* The gateway implements the packet path.
Path == INSTANCE PacketPath WITH
    queue <- tunq, line <- Lines, status <- Standing

\* What a live connection has taken comes out once and in order; packets are
\* lost only with a connection, with the process that queues them or for want
\* of room, also when connections of several relays read the device side by
\* side and the process is started again (relay_packets, run_gateway_connect).
PathSpec == Path!Spec

\* A relay of the client that has outlived the relay of the server.
Stale(k) ==
    /\ Runs(<<"client", k>>)
    /\ ~Runs(<<"server", k>>)

\* A client whose link is lost is soon dialing again, unattended
\* (run_gateway_connect), unless it had read the end of the stream before.
Redials ==
    \A k \in Conn :
        Runs(<<"client", k>>) /\ link[k] = "down"
            ~> \/ client = "dialing"
               \/ ~proc["client"]
               \/ Runs(<<"client", k>>) /\ inbound[<<"client", k>>] = "done"

\* Packets of the client that its relay on k has to write, or wrote unread.
Unheard(k) == Len(tunq["client"]) + Len(writing[<<"client", k>>])
                  + Len(wire[<<"client", k>>])

\* A client whose server relay has ended finds out by its own traffic: one
\* packet more than the link buffers ends its relay (write_frame fails).
TrafficEndsStale ==
    \A k \in Conn : Stale(k) /\ Unheard(k) > WireCap ~> ~Stale(k)

\* The reconnect loop needs nobody's help: a client whose server relay has
\* ended gives up its own.
StaleEnds == \A k \in Conn : Stale(k) ~> ~Stale(k)

\* The gateway server serves one connection at a time.
SingleRelay == Cardinality({k \in Conn : Runs(<<"server", k>>)}) <= 1
=============================================================================
