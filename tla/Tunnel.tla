------------------------------- MODULE Tunnel -------------------------------
(***************************************************************************)
(* One TCP connection carried by the bonded tunnel (src/src/main.rs, serve *)
(* and connect modes; src/src/framed.rs).                                  *)
(*                                                                         *)
(* The "connect" end accepts a local application, dials the "serve" end    *)
(* and relays; the "serve" end dials the target service and relays.  Each  *)
(* relay is two futures joined by try_join!: to_agg reads the local socket *)
(* and writes frames, to_local reads frames and writes the local socket.   *)
(*                                                                         *)
(* The bytes an application sends are numbered 1, 2, ... so that a lost,   *)
(* repeated or reordered byte is visible at the other end.  A frame that   *)
(* carries bytes lo..hi is a run of cells: HdrCells of length header, then *)
(* BodyCells of sealed payload.  A cell is the unit in which the bonded    *)
(* link moves data, so that every partial read and write of a frame is a   *)
(* state of its own.                                                       *)
(***************************************************************************)
EXTENDS Integers, Sequences

CONSTANTS MaxSend,    \* [Side -> Nat]: bytes each application may send
          ChunkSize,  \* CHUNK_SIZE: the most bytes one local read returns
          HdrCells,   \* cells of the length header
          BodyCells,  \* cells of the sealed payload
          WireCap,    \* cells the bonded link buffers per direction
          LocalCap,   \* bytes the socket buffers towards an application
          GpuSides    \* sides whose seal and open run on a GPU and may fail

Side == {"connect", "serve"}
Peer(s) == IF s = "connect" THEN "serve" ELSE "connect"

FrameCells == HdrCells + BodyCells

ASSUME BoundsAssumption ==
    /\ MaxSend \in [Side -> Nat]
    /\ {ChunkSize, HdrCells, BodyCells, WireCap, LocalCap} \subseteq Nat \ {0}
    /\ GpuSides \subseteq Side

VARIABLES
    app,      \* what the application at each side has done with its socket
    sent,     \* bytes the application has sent
    taken,    \* of these, bytes the relay has read from the socket
    pend,     \* cells of the frame that to_agg is writing
    toAgg,    \* the to_agg future: "run" or "done"
    flushed,  \* last byte of the last frame written completely
    wire,     \* cells on the bonded link, from this side to its peer
    buf,      \* cells to_local has gathered of the frame it is reading
    hold,     \* opened bytes that to_local has yet to write to the socket
    toLocal,  \* the to_local future: "run" or "done"
    recv,     \* bytes the local socket has accepted from the relay
    read,     \* of these, bytes the application has consumed
    phase,    \* the task of the connection at this side
    link,     \* the bonded connection
    sameKey   \* both processes were given the same key

appVars  == <<app, sent, read>>
outVars  == <<taken, pend, flushed>>
inVars   == <<buf, hold, recv>>
ctlVars  == <<toAgg, toLocal, phase>>
vars == <<appVars, outVars, inVars, ctlVars, wire, link, sameKey>>

Cell == [lo : Nat, hi : Nat, part : 1..FrameCells]

TypeOK ==
    /\ app \in [Side -> {"none", "open", "shut", "closed", "reset"}]
    /\ phase \in [Side -> {"idle", "dialing", "relay", "ok", "err", "dead"}]
    /\ toAgg \in [Side -> {"run", "done"}]
    /\ toLocal \in [Side -> {"run", "done"}]
    /\ link \in {"none", "up", "down"}
    /\ sameKey \in BOOLEAN
    /\ sent \in [Side -> Nat]
    /\ taken \in [Side -> Nat] /\ \A s \in Side : taken[s] <= sent[s]
    /\ flushed \in [Side -> Nat]
    /\ read \in [Side -> Nat]
    /\ pend \in [Side -> Seq(Cell)]
    /\ wire \in [Side -> Seq(Cell)]
    /\ buf \in [Side -> Seq(Cell)]
    /\ hold \in [Side -> Seq(Nat)]
    /\ recv \in [Side -> Seq(Nat)]

-----------------------------------------------------------------------------
\* The cells of the frame that write_frame produces for bytes lo..hi.
Frame(lo, hi) ==
    [i \in 1..FrameCells |-> [lo |-> lo, hi |-> hi, part |-> i]]

\* The plaintext bytes lo..hi, in order.
Bytes(lo, hi) == [i \in 1..(hi - lo + 1) |-> lo + i - 1]

\* Authenticated encryption: open accepts exactly the sealed form of one
\* write_frame, under the key that sealed it.
Authentic(cells) ==
    /\ sameKey
    /\ cells = Frame(cells[1].lo, cells[1].hi)

Ended(s) == phase[s] \in {"ok", "err", "dead"}

\* The relay of s returns an error, or its handler does: everything it owns
\* is dropped.  The peer learns of it by end-of-stream if the link is there
\* to carry it ("err"), and not at all otherwise ("dead").
Fail(s) ==
    /\ phase' = [phase EXCEPT ![s] = IF link = "down" THEN "dead" ELSE "err"]
    /\ pend' = [pend EXCEPT ![s] = <<>>]
    /\ buf' = [buf EXCEPT ![s] = <<>>]
    /\ hold' = [hold EXCEPT ![s] = <<>>]
    /\ UNCHANGED <<appVars, taken, flushed, recv, toAgg, toLocal, wire, link,
                   sameKey>>

Init ==
    /\ app = [s \in Side |-> "none"]
    /\ phase = [s \in Side |-> "idle"]
    /\ toAgg = [s \in Side |-> "run"]
    /\ toLocal = [s \in Side |-> "run"]
    /\ link = "none"
    /\ sameKey \in BOOLEAN
    /\ sent = [s \in Side |-> 0]
    /\ taken = [s \in Side |-> 0]
    /\ flushed = [s \in Side |-> 0]
    /\ read = [s \in Side |-> 0]
    /\ pend = [s \in Side |-> <<>>]
    /\ wire = [s \in Side |-> <<>>]
    /\ buf = [s \in Side |-> <<>>]
    /\ hold = [s \in Side |-> <<>>]
    /\ recv = [s \in Side |-> <<>>]

-----------------------------------------------------------------------------
(***************************************************************************)
(* Establishing the connection.                                            *)
(***************************************************************************)

\* An application connects to the listener; run_connect accepts it and spawns
\* the task that dials the remote.
Accept ==
    /\ phase["connect"] = "idle"
    /\ phase' = [phase EXCEPT !["connect"] = "dialing"]
    /\ app' = [app EXCEPT !["connect"] = "open"]
    /\ UNCHANGED <<sent, read, outVars, inVars, toAgg, toLocal, wire, link,
                   sameKey>>

\* tcp_connect succeeds: the connect relay starts, and tcp_server calls the
\* handler of the serve side, which begins to dial the target.
DialOk ==
    /\ phase["connect"] = "dialing"
    /\ phase' = [phase EXCEPT !["connect"] = "relay", !["serve"] = "dialing"]
    /\ link' = "up"
    /\ UNCHANGED <<appVars, outVars, inVars, toAgg, toLocal, wire, sameKey>>

\* tcp_connect fails: the task ends and drops the accepted socket.
DialFail ==
    /\ phase["connect"] = "dialing"
    /\ Fail("connect")

\* handle_serve_connection reaches the target service and starts to relay.
TargetOk ==
    /\ phase["serve"] = "dialing"
    /\ phase' = [phase EXCEPT !["serve"] = "relay"]
    /\ app' = [app EXCEPT !["serve"] = "open"]
    /\ UNCHANGED <<sent, read, outVars, inVars, toAgg, toLocal, wire, link,
                   sameKey>>

\* The target refuses: the handler returns and drops the bonded stream.
TargetFail ==
    /\ phase["serve"] = "dialing"
    /\ Fail("serve")

-----------------------------------------------------------------------------
(***************************************************************************)
(* The to_agg half of relay: local socket to frames.                       *)
(***************************************************************************)
\* Mutant: one loop serves both directions in turn.
ToAggWaits(s) == phase[s] = "relay" /\ toAgg[s] = "run" /\ hold[s] = <<>>

ToAggRuns(s) == phase[s] = "relay" /\ toAgg[s] = "run"

\* Bytes waiting in the local socket for the relay to read.
Avail(s) == sent[s] - taken[s]

\* Mutant: the whole buffer is framed, not its first n bytes.
WholeBuffer(s) == {n \in 1..ChunkSize : Avail(s) > 0}

\* The bytes one read may return: whatever the kernel has, up to the buffer.
ReadSizes(s) == {n \in 1..ChunkSize : n <= Avail(s)}

\* Mutant: the next chunk is framed before the last frame is written out.
LocalReadEager(s) ==
    /\ ToAggRuns(s)
    /\ app[s] # "reset"
    /\ \E n \in ReadSizes(s) :
          /\ taken' = [taken EXCEPT ![s] = @ + n]
          /\ pend' = [pend EXCEPT ![s] = Frame(taken[s] + 1, taken[s] + n)]
    /\ UNCHANGED <<appVars, flushed, inVars, ctlVars, wire, link, sameKey>>

\* local_rd.read returns n > 0 bytes, and write_frame seals them.
LocalRead(s) ==
    /\ ToAggRuns(s)
    /\ pend[s] = <<>>
    /\ app[s] # "reset"
    /\ \E n \in ReadSizes(s) :
          /\ taken' = [taken EXCEPT ![s] = @ + n]
          /\ pend' = [pend EXCEPT ![s] = Frame(taken[s] + 1, taken[s] + n)]
    /\ UNCHANGED <<appVars, flushed, inVars, ctlVars, wire, link, sameKey>>

\* The GPU refuses the chunk: seal returns an error.
SealFails(s) ==
    /\ ToAggRuns(s)
    /\ pend[s] = <<>>
    /\ s \in GpuSides
    /\ app[s] # "reset" /\ Avail(s) > 0
    /\ Fail(s)

\* Mutant: select! instead of try_join!, so that one half ends the relay.
FirstOutcome(s, other) == "ok"

\* A half that breaks out of its loop ends the relay once the other has too:
\* try_join! waits for both.
JoinOutcome(s, other) == IF other[s] = "done" THEN "ok" ELSE phase[s]

\* local_rd.read returns 0: the application has finished sending.  to_agg
\* breaks out of its loop; agg_wr is not shut down.
LocalEof(s) ==
    /\ ToAggRuns(s)
    /\ pend[s] = <<>>
    /\ app[s] \in {"shut", "closed"} /\ Avail(s) = 0
    /\ toAgg' = [toAgg EXCEPT ![s] = "done"]
    /\ phase' = [phase EXCEPT ![s] = JoinOutcome(s, toLocal)]
    /\ UNCHANGED <<appVars, outVars, inVars, toLocal, wire, link, sameKey>>

\* local_rd.read fails on a reset connection.
LocalReadErr(s) ==
    /\ ToAggRuns(s)
    /\ pend[s] = <<>>
    /\ app[s] = "reset"
    /\ Fail(s)

\* write_all hands the link the next cell of the frame.
WriteCell(s) ==
    /\ ToAggRuns(s)
    /\ pend[s] # <<>>
    /\ Len(wire[s]) < WireCap
    /\ wire' = [wire EXCEPT ![s] = Append(@, Head(pend[s]))]
    /\ pend' = [pend EXCEPT ![s] = Tail(@)]
    /\ flushed' = [flushed EXCEPT
                     ![s] = IF Len(pend[s]) = 1 THEN Head(pend[s]).hi ELSE @]
    /\ UNCHANGED <<appVars, taken, inVars, ctlVars, link, sameKey>>

\* write_all fails: the link is lost, or nobody reads at the other end.
WriteErr(s) ==
    /\ ToAggRuns(s)
    /\ pend[s] # <<>>
    /\ link = "down" \/ Ended(Peer(s))
    /\ Fail(s)

ToAggStep(s) ==
    \/ LocalRead(s)
    \/ SealFails(s)
    \/ LocalEof(s)
    \/ LocalReadErr(s)
    \/ WriteCell(s)
    \/ WriteErr(s)

-----------------------------------------------------------------------------
(***************************************************************************)
(* The to_local half of relay: frames to local socket.                     *)
(***************************************************************************)
ToLocalReads(s) ==
    phase[s] = "relay" /\ toLocal[s] = "run" /\ hold[s] = <<>>

\* read_exact takes one more cell of the frame from the link.
ReadCell(s) ==
    /\ ToLocalReads(s)
    /\ Len(buf[s]) < FrameCells
    /\ wire[Peer(s)] # <<>>
    /\ buf' = [buf EXCEPT ![s] = Append(@, Head(wire[Peer(s)]))]
    /\ wire' = [wire EXCEPT ![Peer(s)] = Tail(@)]
    /\ UNCHANGED <<appVars, outVars, hold, recv, ctlVars, link, sameKey>>

\* The frame is complete and authentic: open returns its bytes.
OpenFrame(s) ==
    /\ ToLocalReads(s)
    /\ Len(buf[s]) = FrameCells
    /\ Authentic(buf[s])
    /\ hold' = [hold EXCEPT ![s] = Bytes(buf[s][1].lo, buf[s][1].hi)]
    /\ buf' = [buf EXCEPT ![s] = <<>>]
    /\ UNCHANGED <<appVars, outVars, recv, ctlVars, wire, link, sameKey>>

\* open rejects the frame, or the GPU fails.
OpenFails(s) ==
    /\ ToLocalReads(s)
    /\ Len(buf[s]) = FrameCells
    /\ ~Authentic(buf[s]) \/ s \in GpuSides
    /\ Fail(s)

\* Mutant: end of stream overtakes the data in flight.
EofAtOnce(s) == phase[Peer(s)] \in {"ok", "err"}

\* Mutant: only a relay that returns Ok closes its stream.
EofAfterOk(s) == phase[Peer(s)] = "ok" /\ wire[Peer(s)] = <<>>

\* The peer closed its stream and everything it wrote has been read.
AtEof(s) == phase[Peer(s)] \in {"ok", "err"} /\ wire[Peer(s)] = <<>>

\* End of stream within the header, not only before it, is a clean end:
\* read_frame returns None and to_local breaks.  local_wr is not shut down.
ReadEof(s) ==
    /\ ToLocalReads(s)
    /\ AtEof(s)
    /\ Len(buf[s]) < HdrCells
    /\ toLocal' = [toLocal EXCEPT ![s] = "done"]
    /\ phase' = [phase EXCEPT ![s] = JoinOutcome(s, toAgg)]
    /\ UNCHANGED <<appVars, outVars, inVars, toAgg, wire, link, sameKey>>

\* End of stream within the payload is an error.
ReadEofInBody(s) ==
    /\ ToLocalReads(s)
    /\ AtEof(s)
    /\ Len(buf[s]) \in HdrCells..(FrameCells - 1)
    /\ Fail(s)

\* The link is lost: a read fails, after any part of what was in flight.
ReadErr(s) ==
    /\ ToLocalReads(s)
    /\ link = "down"
    /\ Len(buf[s]) < FrameCells
    /\ Fail(s)

\* The socket towards a live application accepts at most LocalCap bytes ahead
\* of what it has read; one that is already closed accepts and discards.
WriteSizes(s) ==
    {n \in 1..Len(hold[s]) :
        app[s] = "closed" \/ Len(recv[s]) + n <= read[s] + LocalCap}

\* Mutant: the last byte of a short write is written again.
RestRepeats(q, n) == SubSeq(q, n, Len(q))

\* What is left to write of q after its first n bytes.
Rest(q, n) == SubSeq(q, n + 1, Len(q))

\* local_wr.write_all passes on the next n bytes.  Data sent to a closed
\* socket is answered by a reset.
LocalWrite(s) ==
    /\ phase[s] = "relay" /\ hold[s] # <<>>
    /\ app[s] # "reset"
    /\ \E n \in WriteSizes(s) :
          /\ recv' = [recv EXCEPT ![s] = @ \o SubSeq(hold[s], 1, n)]
          /\ hold' = [hold EXCEPT ![s] = Rest(@, n)]
    /\ app' = [app EXCEPT ![s] = IF @ = "closed" THEN "reset" ELSE @]
    /\ UNCHANGED <<sent, read, outVars, buf, ctlVars, wire, link, sameKey>>

\* local_wr.write_all fails on a reset connection.
LocalWriteErr(s) ==
    /\ phase[s] = "relay" /\ hold[s] # <<>>
    /\ app[s] = "reset"
    /\ Fail(s)

ToLocalStep(s) ==
    \/ ReadCell(s)
    \/ OpenFrame(s)
    \/ OpenFails(s)
    \/ ReadEof(s)
    \/ ReadEofInBody(s)
    \/ ReadErr(s)
    \/ LocalWrite(s)
    \/ LocalWriteErr(s)

-----------------------------------------------------------------------------
(***************************************************************************)
(* The applications, the link and the processes.                           *)
(***************************************************************************)
AppAlive(s) == app[s] \in {"open", "shut"}

AppSend(s) ==
    /\ app[s] = "open" /\ ~Ended(s)
    /\ sent[s] < MaxSend[s]
    /\ sent' = [sent EXCEPT ![s] = @ + 1]
    /\ UNCHANGED <<app, read, outVars, inVars, ctlVars, wire, link, sameKey>>

AppRead(s) ==
    /\ AppAlive(s)
    /\ read[s] < Len(recv[s])
    /\ read' = [read EXCEPT ![s] = Len(recv[s])]
    /\ UNCHANGED <<app, sent, outVars, inVars, ctlVars, wire, link, sameKey>>

\* The application finishes sending and still reads (shutdown of its write
\* half), as an HTTP/1.0 client or netcat does.
AppShut(s) ==
    /\ app[s] = "open"
    /\ app' = [app EXCEPT ![s] = "shut"]
    /\ UNCHANGED <<sent, read, outVars, inVars, ctlVars, wire, link, sameKey>>

\* The application closes its socket, or dies: a close with unread data, like
\* an abort, resets the connection.
AppClose(s) ==
    /\ AppAlive(s)
    /\ \E how \in {"closed", "reset"} :
          /\ how = "closed" => read[s] = Len(recv[s])
          /\ app' = [app EXCEPT ![s] = how]
    /\ UNCHANGED <<sent, read, outVars, inVars, ctlVars, wire, link, sameKey>>

\* Every physical link is gone for longer than the bonding layer tolerates.
LinkLost ==
    /\ link = "up"
    /\ link' = "down"
    /\ UNCHANGED <<appVars, outVars, inVars, ctlVars, wire, sameKey>>

\* A process is killed: its sockets close, but nothing tells the peer of it.
Crash(s) ==
    /\ phase[s] \in {"dialing", "relay"}
    /\ phase' = [phase EXCEPT ![s] = "dead"]
    /\ link' = IF link = "up" THEN "down" ELSE link
    /\ pend' = [pend EXCEPT ![s] = <<>>]
    /\ buf' = [buf EXCEPT ![s] = <<>>]
    /\ hold' = [hold EXCEPT ![s] = <<>>]
    /\ UNCHANGED <<appVars, taken, flushed, recv, toAgg, toLocal, wire,
                   sameKey>>

-----------------------------------------------------------------------------
DialStep == DialOk \/ DialFail
TargetStep == TargetOk \/ TargetFail

Next ==
    \/ Accept
    \/ DialStep
    \/ TargetStep
    \/ \E s \in Side :
          \/ ToAggStep(s)
          \/ ToLocalStep(s)
          \/ AppSend(s)
          \/ AppRead(s)
          \/ AppShut(s)
          \/ AppClose(s)
          \/ Crash(s)
    \/ LinkLost

Spec == Init /\ [][Next]_vars

\* tokio polls each future that can go on, the bonding layer moves what is
\* written, dials resolve.  Nothing is assumed of the applications.
RelayFairness ==
    /\ WF_vars(DialStep)
    /\ WF_vars(TargetStep)
    /\ \A s \in Side : WF_vars(ToAggStep(s)) /\ WF_vars(ToLocalStep(s))

\* Only the target service is assumed to read what it is sent.
OneReaderSpec == Spec /\ RelayFairness /\ WF_vars(AppRead("serve"))

\* Both applications read what they are sent.
FairSpec == Spec /\ RelayFairness /\ \A s \in Side : WF_vars(AppRead(s))
-----------------------------------------------------------------------------
(***************************************************************************)
(* Properties.                                                             *)
(***************************************************************************)

\* What an application receives is a prefix of what the other one sent: no
\* byte is lost, repeated, reordered or made up, whatever the sizes of the
\* reads, the partial writes, and the errors that cut frames short (relay,
\* write_frame and read_frame together).
Integrity ==
    \A s \in Side :
        /\ Len(recv[s]) <= sent[Peer(s)]
        /\ \A i \in 1..Len(recv[s]) : recv[s][i] = i

\* The two ends never lose the frame boundaries: under one key, open never
\* rejects a frame, because the FrameCells cells that read_frame gathers are
\* always those of one write_frame, however the writes were cut by the link and
\* whichever relay failed in the middle of a frame.
FramingInSync ==
    \A s \in Side :
        sameKey /\ Len(buf[s]) = FrameCells => Authentic(buf[s])

\* read_frame reports the end of the stream as None, without an error, even in
\* the middle of a length header.  When it does, every frame the peer wrote
\* completely has been handed to the local socket: what is dropped with the
\* partial header is only a frame its sender never finished.
CleanEof ==
    \A s \in Side :
        toLocal[s] = "done" => Len(recv[s]) = flushed[Peer(s)]

\* The tunnel implements the abstract byte pipe: deliveries never run ahead of
\* the frames written completely, and a relay that returns Ok has passed on
\* and received everything.
PipeStatus ==
    [s \in Side |-> IF phase[s] = "ok" THEN "finished"
                   ELSE IF Ended(s) THEN "broken" ELSE "live"]

Pipe == INSTANCE BytePipe WITH
    given  <- sent,
    passed <- flushed,
    got    <- recv,
    status <- PipeStatus

PipeSpec == Pipe!Spec

\* The two directions do not wait for each other: what the client sends
\* reaches the target service even if the client never reads an answer, as
\* long as the service reads and neither relay ends (to_agg and to_local are
\* separate futures).
RequestsGetThrough ==
    \A n \in 1..MaxSend["connect"] :
        sent["connect"] >= n ~>
            Len(recv["serve"]) >= n \/ Ended("connect") \/ Ended("serve")

\* A relay whose bonded link is lost, or whose peer has ended, stops reading
\* frames: it ends, or at least its to_local half does, unless it is stuck in a
\* write to an application that does not read.
EndIsNoticed ==
    \A s \in Side :
        phase[s] = "relay" /\ (link = "down" \/ Ended(Peer(s)))
            ~> \/ Ended(s) \/ toLocal[s] = "done"
               \/ AppAlive(s) /\ read[s] < Len(recv[s])

\* A TCP connection ends when both applications have finished sending; the
\* connection that carries it should end with it.
BothShutEnds ==
    (\A s \in Side : app[s] \in {"shut", "closed"})
        ~> (\A s \in Side : Ended(s))
=============================================================================
