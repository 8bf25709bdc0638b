----------------------------- MODULE TunnelInv -----------------------------
(***************************************************************************)
(* The inductive invariant of Tunnel.  Everything that is under way from s *)
(* to its peer, whether gathered, on the link or still to be written, is   *)
(* one run of consecutive cells of consecutive frames that starts right    *)
(* after what the peer has opened.                                         *)
(***************************************************************************)
EXTENDS Tunnel

Written(s) == buf[Peer(s)] \o wire[s]
Flow(s) == Written(s) \o pend[s]

\* Bytes that the relay of p has opened.
Opened(p) == Len(recv[p]) + Len(hold[p])

\* d is the cell that comes after c.
Follows(c, d) ==
    IF c.part = FrameCells
    THEN d.part = 1 /\ d.lo = c.hi + 1
    ELSE d.part = c.part + 1 /\ d.lo = c.lo /\ d.hi = c.hi

\* q is a run of cells for the bytes after start and up to top.
Chained(q, start, top) ==
    /\ \A i \in 1..Len(q) : q[i].lo <= q[i].hi /\ q[i].hi <= top
    /\ \A i \in 1..(Len(q) - 1) : Follows(q[i], q[i + 1])
    /\ q # <<>> => q[1].part = 1 /\ q[1].lo = start + 1

\* The last byte of the last frame that is complete in q.
LastByte(q, start) ==
    IF q = <<>> THEN start
    ELSE IF q[Len(q)].part = FrameCells THEN q[Len(q)].hi
    ELSE q[Len(q)].lo - 1

\* q ends with the end of a frame.
EndsFrame(q) == q # <<>> => q[Len(q)].part = FrameCells

\* What has been opened at p is 1, 2, ..., in order, and was sent.
Numbered(p) ==
    /\ \A i \in 1..Len(recv[p]) : recv[p][i] = i
    /\ \A i \in 1..Len(hold[p]) : hold[p][i] = Len(recv[p]) + i
    /\ Opened(p) <= taken[Peer(p)]

\* buf starts a frame, pend finishes one.
Aligned(s) ==
    /\ Len(buf[s]) <= FrameCells
    /\ \A i \in 1..Len(buf[s]) :
          buf[s][i] = [lo |-> buf[s][1].lo, hi |-> buf[s][1].hi, part |-> i]
    /\ \A i \in 1..Len(pend[s]) :
          pend[s][i].part = FrameCells - Len(pend[s]) + i

\* What is under way continues what has been opened, up to what s has taken.
Continuous(s) ==
    ~Ended(Peer(s)) =>
        /\ Chained(Flow(s), Opened(Peer(s)), taken[s])
        /\ flushed[s] = LastByte(Written(s), Opened(Peer(s)))
        /\ ~Ended(s) => /\ EndsFrame(Flow(s))
                        /\ LastByte(Flow(s), Opened(Peer(s))) = taken[s]

\* A to_local that is done has handed over all the complete frames, of a peer
\* that writes no more.
DoneIsFinal(s) ==
    toLocal[s] = "done" =>
        /\ Ended(Peer(s))
        /\ hold[s] = <<>>
        /\ Len(recv[s]) = flushed[Peer(s)]

\* The serve side does nothing before the connect side has dialed it.
ServeFollows == phase["connect"] \in {"idle", "dialing"} => phase["serve"] = "idle"

\* Each of the parts that the proof of Integrity, FramingInSync and CleanEof
\* needs together: see TunnelProofs.
StreamInv ==
    /\ ServeFollows
    /\ \A s \in Side :
          Numbered(s) /\ Aligned(s) /\ Continuous(s) /\ DoneIsFinal(s)

\* What s has taken and not written out completely is in the frame that it is
\* writing.
FlushedOrPending(s) ==
    ~Ended(s) =>
        /\ pend[s] = <<>> => flushed[s] = taken[s]
        /\ pend[s] # <<>> => flushed[s] < taken[s]
        /\ \A i \in 1..Len(pend[s]) : pend[s][i].hi = taken[s]

\* A to_agg that is done has passed on all that its application will ever send.
AllPassed(s) ==
    toAgg[s] = "done" =>
        /\ phase[s] \in {"relay", "ok", "err", "dead"}
        /\ ~Ended(s) => /\ pend[s] = <<>> /\ taken[s] = sent[s]
                        /\ app[s] \in {"shut", "closed", "reset"}

\* What the proof of PipeSpec needs besides StreamInv.
PassInv == \A s \in Side : FlushedOrPending(s) /\ AllPassed(s)
=============================================================================
