---------------------------- MODULE TunnelProofs ----------------------------
(***************************************************************************)
(* Proofs about Tunnel, for every amount of data, chunk size, frame size   *)
(* and buffer size: the type invariant; Integrity, FramingInSync and       *)
(* CleanEof from the inductive invariant StreamInv; and, with PassInv,     *)
(* that the tunnel implements the byte pipe (PipeSpec).                    *)
(***************************************************************************)
EXTENDS TunnelInv, SequenceTheorems, WellFoundedInduction, TLAPS

-----------------------------------------------------------------------------
(***************************************************************************)
(* Type correctness.                                                       *)
(***************************************************************************)

\* A frame is a sequence of FrameCells cells.
LEMMA FrameType ==
    ASSUME NEW lo \in Nat, NEW hi \in Nat
    PROVE  /\ Frame(lo, hi) \in Seq(Cell)
           /\ Len(Frame(lo, hi)) = FrameCells
           /\ FrameCells \in Nat \ {0}
           /\ \A i \in 1..FrameCells :
                 Frame(lo, hi)[i] = [lo |-> lo, hi |-> hi, part |-> i]
<1>1. FrameCells \in Nat \ {0}
  BY BoundsAssumption DEF FrameCells
<1>2. \A i \in 1..FrameCells : [lo |-> lo, hi |-> hi, part |-> i] \in Cell
  BY <1>1 DEF Cell
<1>3. Frame(lo, hi) \in Seq(Cell)
  BY <1>1, <1>2, IsASeq DEF Frame
<1> QED
  BY <1>1, <1>3 DEF Frame

\* The bytes of a frame are a sequence of numbers, one after the other.
LEMMA BytesType ==
    ASSUME NEW lo \in Nat, NEW hi \in Nat
    PROVE  /\ Bytes(lo, hi) \in Seq(Nat)
           /\ lo <= hi =>
                /\ Len(Bytes(lo, hi)) = hi - lo + 1
                /\ \A i \in 1..(hi - lo + 1) : Bytes(lo, hi)[i] = lo + i - 1
<1> DEFINE n == IF lo <= hi THEN hi - lo + 1 ELSE 0
<1>1. n \in Nat /\ 1..(hi - lo + 1) = 1..n
  OBVIOUS
<1>2. \A i \in 1..n : lo + i - 1 \in Nat
  BY <1>1
<1> HIDE DEF n
<1>3. [i \in 1..n |-> lo + i - 1] \in Seq(Nat)
  BY <1>1, <1>2, IsASeq
<1> USE DEF n
<1>4. Bytes(lo, hi) = [i \in 1..n |-> lo + i - 1]
  BY <1>1 DEF Bytes
<1> QED
  BY <1>1, <1>3, <1>4

LEMMA TypeInit == Init => TypeOK
  BY BoundsAssumption DEF Init, TypeOK, Side

\* Dropping what a relay owns keeps the types.
LEMMA TypeFail ==
    ASSUME TypeOK, NEW s \in Side, Fail(s)
    PROVE  TypeOK'
  BY DEF TypeOK, Fail, appVars

LEMMA TypeConnect ==
    ASSUME TypeOK, Accept \/ DialStep \/ TargetStep \/ LinkLost
    PROVE  TypeOK'
<1>1. CASE Accept
  BY <1>1 DEF Accept, TypeOK, Side, outVars, inVars
<1>2. CASE DialOk
  BY <1>2 DEF DialOk, TypeOK, Side, appVars, outVars, inVars
<1>3. CASE DialFail
  BY <1>3, TypeFail DEF DialFail, Side
<1>4. CASE TargetOk
  BY <1>4 DEF TargetOk, TypeOK, Side, outVars, inVars
<1>5. CASE TargetFail
  BY <1>5, TypeFail DEF TargetFail, Side
<1>6. CASE LinkLost
  BY <1>6 DEF LinkLost, TypeOK, appVars, outVars, inVars, ctlVars
<1> QED
  BY <1>1, <1>2, <1>3, <1>4, <1>5, <1>6 DEF DialStep, TargetStep

LEMMA TypeToAgg ==
    ASSUME TypeOK, NEW s \in Side, ToAggStep(s)
    PROVE  TypeOK'
<1>1. CASE LocalRead(s)
  <2>1. PICK n \in ReadSizes(s) :
           /\ taken' = [taken EXCEPT ![s] = @ + n]
           /\ pend' = [pend EXCEPT ![s] = Frame(taken[s] + 1, taken[s] + n)]
    BY <1>1 DEF LocalRead
  <2>2. n \in Nat /\ taken[s] + n <= sent[s]
    <3>1. ChunkSize \in Nat
      BY BoundsAssumption
    <3>2. n \in 1..ChunkSize /\ n <= sent[s] - taken[s]
      BY <2>1, Zenon DEF ReadSizes, Avail
    <3>3. taken[s] \in Nat /\ sent[s] \in Nat
      BY DEF TypeOK
    <3> QED
      BY <3>1, <3>2, <3>3
  <2>3. Frame(taken[s] + 1, taken[s] + n) \in Seq(Cell)
    <3>1. taken[s] + 1 \in Nat /\ taken[s] + n \in Nat
      <4>1. taken[s] \in Nat
        BY DEF TypeOK
      <4> QED
        BY <2>2, <4>1
    <3> QED
      BY <3>1, FrameType, Zenon
  <2>4. UNCHANGED <<appVars, flushed, inVars, ctlVars, wire, link, sameKey>>
    BY <1>1 DEF LocalRead
  <2>5. taken' \in [Side -> Nat] /\ \A r \in Side : taken'[r] <= sent[r]
    BY <2>1, <2>2 DEF TypeOK
  <2>6. pend' \in [Side -> Seq(Cell)]
    BY <2>1, <2>3 DEF TypeOK
  <2> QED
    BY <2>4, <2>5, <2>6 DEF TypeOK, appVars, inVars, ctlVars
<1>2. CASE SealFails(s)
  BY <1>2, TypeFail DEF SealFails
<1>3. CASE LocalEof(s)
  BY <1>3 DEF LocalEof, JoinOutcome, TypeOK, appVars, outVars, inVars
<1>4. CASE LocalReadErr(s)
  BY <1>4, TypeFail DEF LocalReadErr
<1>5. CASE WriteCell(s)
  <2>1. pend[s] \in Seq(Cell) /\ pend[s] # <<>> /\ wire[s] \in Seq(Cell)
    BY <1>5 DEF WriteCell, TypeOK
  <2>2. Head(pend[s]) \in Cell /\ Tail(pend[s]) \in Seq(Cell)
    BY <2>1, HeadTailProperties
  <2>3. Append(wire[s], Head(pend[s])) \in Seq(Cell)
    BY <2>1, <2>2, AppendProperties
  <2>4. Head(pend[s]).hi \in Nat
    BY <2>2 DEF Cell
  <2> QED
    BY <1>5, <2>2, <2>3, <2>4 DEF WriteCell, TypeOK, appVars, inVars, ctlVars
<1>6. CASE WriteErr(s)
  BY <1>6, TypeFail DEF WriteErr
<1> QED
  BY <1>1, <1>2, <1>3, <1>4, <1>5, <1>6 DEF ToAggStep

LEMMA TypeToLocal ==
    ASSUME TypeOK, NEW s \in Side, ToLocalStep(s)
    PROVE  TypeOK'
<1>0. Peer(s) \in Side
  BY DEF Peer, Side
<1>1. CASE ReadCell(s)
  <2>1. wire[Peer(s)] \in Seq(Cell) /\ wire[Peer(s)] # <<>>
        /\ buf[s] \in Seq(Cell)
    BY <1>0, <1>1 DEF ReadCell, TypeOK
  <2>2. Head(wire[Peer(s)]) \in Cell /\ Tail(wire[Peer(s)]) \in Seq(Cell)
    BY <2>1, HeadTailProperties
  <2>3. Append(buf[s], Head(wire[Peer(s)])) \in Seq(Cell)
    BY <2>1, <2>2, AppendProperties
  <2> QED
    BY <1>0, <1>1, <2>2, <2>3 DEF ReadCell, TypeOK, appVars, outVars, ctlVars
<1>2. CASE OpenFrame(s)
  <2>1. buf[s] \in Seq(Cell) /\ 1 \in 1..Len(buf[s])
    BY SMTT(30), <1>2, BoundsAssumption DEF OpenFrame, TypeOK, FrameCells
  <2>2. buf[s][1] \in Cell
    BY <2>1, ElementOfSeq
  <2>3. Bytes(buf[s][1].lo, buf[s][1].hi) \in Seq(Nat)
    BY <2>2, BytesType DEF Cell
  <2> QED
    BY <1>2, <2>3 DEF OpenFrame, TypeOK, appVars, outVars, ctlVars
<1>3. CASE OpenFails(s)
  BY <1>3, TypeFail DEF OpenFails
<1>4. CASE ReadEof(s)
  BY <1>4 DEF ReadEof, JoinOutcome, TypeOK, appVars, outVars, inVars
<1>5. CASE ReadEofInBody(s)
  BY <1>5, TypeFail DEF ReadEofInBody
<1>6. CASE ReadErr(s)
  BY <1>6, TypeFail DEF ReadErr
<1>7. CASE LocalWrite(s)
  <2>1. PICK n \in WriteSizes(s) :
           /\ recv' = [recv EXCEPT ![s] = @ \o SubSeq(hold[s], 1, n)]
           /\ hold' = [hold EXCEPT ![s] = Rest(@, n)]
    BY <1>7 DEF LocalWrite
  <2>2. hold[s] \in Seq(Nat) /\ recv[s] \in Seq(Nat) /\ n \in 1..Len(hold[s])
    BY <2>1 DEF WriteSizes, TypeOK
  <2>3. SubSeq(hold[s], 1, n) \in Seq(Nat) /\ Rest(hold[s], n) \in Seq(Nat)
    BY <2>2 DEF Rest
  <2>4. recv[s] \o SubSeq(hold[s], 1, n) \in Seq(Nat)
    BY <2>2, <2>3, ConcatProperties
  <2> QED
    BY <1>7, <2>1, <2>3, <2>4 DEF LocalWrite, TypeOK, outVars, ctlVars
<1>8. CASE LocalWriteErr(s)
  BY <1>8, TypeFail DEF LocalWriteErr
<1> QED
  BY <1>1, <1>2, <1>3, <1>4, <1>5, <1>6, <1>7, <1>8 DEF ToLocalStep

LEMMA TypeApp ==
    ASSUME TypeOK, NEW s \in Side,
           AppSend(s) \/ AppRead(s) \/ AppShut(s) \/ AppClose(s) \/ Crash(s)
    PROVE  TypeOK'
<1>1. CASE AppSend(s)
  BY SMTT(30), <1>1 DEF AppSend, TypeOK, outVars, inVars, ctlVars
<1>2. CASE AppRead(s)
  <2>1. /\ read' = [read EXCEPT ![s] = Len(recv[s])]
        /\ UNCHANGED <<app, sent, outVars, inVars, ctlVars, wire, link, sameKey>>
    BY <1>2 DEF AppRead
  <2>2. Len(recv[s]) \in Nat
    <3>1. recv[s] \in Seq(Nat)
      BY DEF TypeOK
    <3> QED
      BY <3>1
  <2>3. read' \in [Side -> Nat]
    BY <2>1, <2>2 DEF TypeOK
  <2> QED
    BY <2>1, <2>3 DEF TypeOK, outVars, inVars, ctlVars
<1>3. CASE AppShut(s)
  BY <1>3 DEF AppShut, TypeOK, outVars, inVars, ctlVars
<1>4. CASE AppClose(s)
  BY <1>4 DEF AppClose, TypeOK, outVars, inVars, ctlVars
<1>5. CASE Crash(s)
  BY SMTT(30), <1>5 DEF Crash, TypeOK, appVars
<1> QED
  BY <1>1, <1>2, <1>3, <1>4, <1>5

\* Every step of the tunnel keeps the types.
LEMMA TypeStep == TypeOK /\ [Next]_vars => TypeOK'
<1> SUFFICES ASSUME TypeOK, [Next]_vars PROVE TypeOK'
  OBVIOUS
<1>1. CASE UNCHANGED vars
  BY <1>1 DEF vars, TypeOK, appVars, outVars, inVars, ctlVars
<1>2. CASE Next
  BY <1>2, TypeConnect, TypeToAgg, TypeToLocal, TypeApp DEF Next
<1> QED
  BY <1>1, <1>2

\* The variables of Tunnel keep their types, whatever the constants: the state
\* of the two relays, the link and the applications (TypeOK).
THEOREM TypeCorrect == Spec => []TypeOK
  BY TypeInit, TypeStep, PTL DEF Spec

-----------------------------------------------------------------------------
(***************************************************************************)
(* Runs of cells.                                                          *)
(***************************************************************************)

\* The elements of a concatenation.
LEMMA ConcatIndex ==
    ASSUME NEW q \in Seq(Cell), NEW r \in Seq(Cell)
    PROVE  /\ q \o r \in Seq(Cell)
           /\ Len(q) \in Nat /\ Len(r) \in Nat
           /\ Len(q \o r) = Len(q) + Len(r)
           /\ \A i \in 1..Len(q) : (q \o r)[i] = q[i]
           /\ \A i \in 1..Len(r) : (q \o r)[Len(q) + i] = r[i]
<1>1. Len(q) \in Nat /\ Len(r) \in Nat
  OBVIOUS
<1>2. \A i \in 1..Len(r) :
         /\ Len(q) + i \in 1..(Len(q) + Len(r))
         /\ ~(Len(q) + i <= Len(q)) /\ (Len(q) + i) - Len(q) = i
  BY <1>1
<1>3. \A i \in 1..Len(q) : i \in 1..(Len(q) + Len(r)) /\ i <= Len(q)
  BY <1>1
<1> QED
  BY <1>1, <1>2, <1>3, ConcatProperties

\* Cutting off the end of a run leaves a run.
LEMMA ChainPrefix ==
    ASSUME NEW q \in Seq(Cell), NEW r \in Seq(Cell),
           NEW start \in Nat, NEW top \in Nat, Chained(q \o r, start, top)
    PROVE  Chained(q, start, top)
<1>1. /\ Len(q \o r) = Len(q) + Len(r)
      /\ \A i \in 1..Len(q) : (q \o r)[i] = q[i]
      /\ Len(q) \in Nat /\ Len(r) \in Nat
  BY ConcatProperties
<1>2. q # <<>> => Len(q) >= 1 /\ q \o r # <<>>
  BY ConcatProperties, EmptySeq
<1> QED
  BY <1>1, <1>2 DEF Chained

\* The last complete frame after one more cell.
LEMMA LastOfAppend ==
    ASSUME NEW q \in Seq(Cell), NEW c \in Cell,
           NEW start \in Nat, NEW top \in Nat,
           Chained(Append(q, c), start, top)
    PROVE  LastByte(Append(q, c), start) =
             IF c.part = FrameCells THEN c.hi ELSE LastByte(q, start)
<1> DEFINE a == Append(q, c)
<1>1. /\ a \in Seq(Cell) /\ a # <<>> /\ Len(a) = Len(q) + 1
      /\ a[Len(q) + 1] = c
      /\ \A i \in 1..Len(q) : a[i] = q[i]
      /\ Len(q) \in Nat
  BY AppendProperties
<1>2. c.lo \in Nat /\ c.hi \in Nat
  BY DEF Cell
<1> HIDE DEF a
<1>3. LastByte(a, start) = IF c.part = FrameCells THEN c.hi ELSE c.lo - 1
  BY <1>1 DEF LastByte
<1>4. Chained(a, start, top)
  BY DEF a
<1>5. CASE q = <<>>
  <2>1. c.lo = start + 1
    BY <1>1, <1>4, <1>5 DEF Chained
  <2> QED
    BY <1>2, <1>3, <1>5, <2>1 DEF LastByte, a
<1>6. CASE q # <<>>
  <2>1. Len(q) \in 1..(Len(a) - 1) /\ a[Len(q)] = q[Len(q)]
    BY <1>1, <1>6
  <2>2. Follows(q[Len(q)], c)
    BY <1>1, <1>4, <2>1 DEF Chained
  <2>3. q[Len(q)] \in Cell
    BY <2>1, <1>1, ElementOfSeq
  <2>4. q[Len(q)].lo \in Nat /\ q[Len(q)].hi \in Nat
    BY <2>3 DEF Cell
  <2>5. CASE q[Len(q)].part = FrameCells
    <3>1. c.lo - 1 = q[Len(q)].hi /\ LastByte(q, start) = q[Len(q)].hi
      BY <1>2, <1>6, <2>2, <2>4, <2>5 DEF LastByte, Follows
    <3> QED
      BY <1>3, <3>1 DEF a
  <2>6. CASE q[Len(q)].part # FrameCells
    <3>1. c.lo - 1 = LastByte(q, start)
      BY <1>2, <1>6, <2>2, <2>4, <2>6 DEF LastByte, Follows
    <3> QED
      BY <1>3, <3>1 DEF a
  <2> QED
    BY <2>5, <2>6
<1> QED
  BY <1>5, <1>6

\* A frame for the next n bytes continues a run that ends with a whole frame.
LEMMA ChainFrame ==
    ASSUME NEW q \in Seq(Cell), NEW start \in Nat, NEW top \in Nat,
           NEW n \in Nat \ {0}, start <= top, Chained(q, start, top),
           EndsFrame(q), LastByte(q, start) = top
    PROVE  LET r == q \o Frame(top + 1, top + n)
           IN  /\ Chained(r, start, top + n)
               /\ EndsFrame(r)
               /\ LastByte(r, start) = top + n
<1> DEFINE f == Frame(top + 1, top + n)
           r == q \o f
<1>1. /\ f \in Seq(Cell) /\ Len(f) = FrameCells /\ FrameCells \in Nat \ {0}
      /\ \A i \in 1..FrameCells :
            f[i] = [lo |-> top + 1, hi |-> top + n, part |-> i]
  <2>1. top + 1 \in Nat /\ top + n \in Nat
    OBVIOUS
  <2> QED
    BY <2>1, FrameType
<1> HIDE DEF f
<1>2. /\ r \in Seq(Cell) /\ Len(q) \in Nat /\ Len(r) = Len(q) + FrameCells
      /\ \A i \in 1..Len(q) : r[i] = q[i]
      /\ \A i \in 1..FrameCells : r[Len(q) + i] = f[i]
  BY <1>1, ConcatIndex
<1> HIDE DEF r
<1>3. r # <<>>
  BY <1>1, <1>2
<1>4. \A i \in 1..Len(r) : r[i].lo <= r[i].hi /\ r[i].hi <= top + n
  <2> TAKE i \in 1..Len(r)
  <2>1. CASE i \in 1..Len(q)
    <3>1. q[i] \in Cell
      BY <2>1, ElementOfSeq
    <3>2. q[i].hi \in Nat /\ q[i].lo <= q[i].hi /\ q[i].hi <= top
      BY <2>1, <3>1 DEF Chained, Cell
    <3> QED
      BY <1>2, <2>1, <3>2
  <2>2. CASE i \in (Len(q) + 1)..Len(r)
    <3>1. i - Len(q) \in 1..FrameCells /\ Len(q) + (i - Len(q)) = i
      BY <1>1, <1>2, <2>2
    <3>2. r[i] = [lo |-> top + 1, hi |-> top + n, part |-> i - Len(q)]
      BY <1>1, <1>2, <3>1
    <3> QED
      BY <3>2
  <2> QED
    BY <1>2, <2>1, <2>2
<1>5. \A i \in 1..(Len(r) - 1) : Follows(r[i], r[i + 1])
  <2> TAKE i \in 1..(Len(r) - 1)
  <2>1. CASE i < Len(q)
    <3>1. i \in 1..(Len(q) - 1) /\ r[i] = q[i] /\ r[i + 1] = q[i + 1]
      BY <1>2, <2>1
    <3> QED
      BY <3>1 DEF Chained
  <2>2. CASE i = Len(q)
    <3>1. q # <<>> /\ r[i] = q[Len(q)] /\ q[Len(q)].part = FrameCells
      BY <1>2, <2>2 DEF EndsFrame
    <3>2. q[Len(q)].hi = top
      BY <3>1 DEF LastByte
    <3>3. r[i + 1] = [lo |-> top + 1, hi |-> top + n, part |-> 1]
      BY <1>1, <1>2, <2>2
    <3> QED
      BY <3>1, <3>2, <3>3 DEF Follows
  <2>3. CASE i > Len(q)
    <3>0. i \in Nat /\ i <= Len(q) + FrameCells - 1
      BY <1>1, <1>2
    <3>1. /\ i - Len(q) \in 1..FrameCells /\ Len(q) + (i - Len(q)) = i
          /\ i + 1 - Len(q) \in 1..FrameCells
          /\ Len(q) + (i + 1 - Len(q)) = i + 1
      BY <1>1, <1>2, <2>3, <3>0
    <3>2. r[i] = [lo |-> top + 1, hi |-> top + n, part |-> i - Len(q)]
      BY <1>1, <1>2, <3>1
    <3>3. r[i + 1] = [lo |-> top + 1, hi |-> top + n, part |-> i + 1 - Len(q)]
      BY <1>1, <1>2, <3>1
    <3> QED
      BY <1>1, <3>1, <3>2, <3>3 DEF Follows
  <2> QED
    BY <1>2, <2>1, <2>2, <2>3
<1>6. r[1].part = 1 /\ r[1].lo = start + 1
  <2>1. CASE q = <<>>
    <3>1. top = start /\ r[1] = [lo |-> top + 1, hi |-> top + n, part |-> 1]
      BY <1>1, <1>2, <2>1 DEF LastByte
    <3> QED
      BY <3>1
  <2>2. CASE q # <<>>
    BY <1>2, <2>2, EmptySeq DEF Chained
  <2> QED
    BY <2>1, <2>2
<1>7. r[Len(r)] = [lo |-> top + 1, hi |-> top + n, part |-> FrameCells]
  BY <1>1, <1>2
<1>8. /\ Chained(r, start, top + n)
      /\ EndsFrame(r)
      /\ LastByte(r, start) = top + n
  BY <1>3, <1>4, <1>5, <1>6, <1>7 DEF Chained, EndsFrame, LastByte
<1> QED
  BY <1>8 DEF r, f

\* What follows the first frame of a run is a run that follows its bytes.
LEMMA ChainDrop ==
    ASSUME NEW lo \in Nat, NEW hi \in Nat, NEW g \in Seq(Cell),
           NEW start \in Nat, NEW top \in Nat,
           Chained(Frame(lo, hi) \o g, start, top)
    PROVE  /\ lo = start + 1 /\ lo <= hi /\ hi <= top
           /\ Chained(g, hi, top)
           /\ EndsFrame(Frame(lo, hi) \o g) => EndsFrame(g)
           /\ LastByte(Frame(lo, hi) \o g, start) = LastByte(g, hi)
<1> DEFINE f == Frame(lo, hi)
           r == f \o g
<1>1. /\ f \in Seq(Cell) /\ Len(f) = FrameCells /\ FrameCells \in Nat \ {0}
      /\ \A i \in 1..FrameCells : f[i] = [lo |-> lo, hi |-> hi, part |-> i]
  BY FrameType
<1> HIDE DEF f
<1>2. /\ r \in Seq(Cell) /\ Len(g) \in Nat /\ Len(r) = FrameCells + Len(g)
      /\ \A i \in 1..FrameCells : r[i] = f[i]
      /\ \A i \in 1..Len(g) : r[FrameCells + i] = g[i]
  <2>1. /\ r \in Seq(Cell) /\ Len(g) \in Nat /\ Len(r) = Len(f) + Len(g)
        /\ \A i \in 1..Len(f) : r[i] = f[i]
        /\ \A i \in 1..Len(g) : r[Len(f) + i] = g[i]
    BY <1>1, ConcatIndex, Zenon
  <2> QED
    BY <1>1, <2>1, Zenon
<1>3. Chained(r, start, top)
  BY DEF r, f
<1> HIDE DEF r
<1>4. r # <<>> /\ r[1] = [lo |-> lo, hi |-> hi, part |-> 1]
      /\ r[FrameCells] = [lo |-> lo, hi |-> hi, part |-> FrameCells]
  BY <1>1, <1>2
<1>5. lo = start + 1 /\ lo <= hi /\ hi <= top
  BY <1>1, <1>2, <1>3, <1>4 DEF Chained
<1>6. Chained(g, hi, top)
  <2>1. \A i \in 1..Len(g) : g[i].lo <= g[i].hi /\ g[i].hi <= top
    BY <1>1, <1>2, <1>3 DEF Chained
  <2>2. \A i \in 1..(Len(g) - 1) : Follows(g[i], g[i + 1])
    <3> TAKE i \in 1..(Len(g) - 1)
    <3>0. i \in 1..Len(g) /\ i + 1 \in 1..Len(g)
          /\ FrameCells + (i + 1) = (FrameCells + i) + 1
      BY SMTT(30), <1>1, <1>2
    <3>1. FrameCells + i \in 1..(Len(r) - 1)
      <4>1. /\ Len(g) \in Nat /\ Len(r) = FrameCells + Len(g)
            /\ FrameCells \in Nat \ {0}
        BY <1>1, <1>2
      <4> QED
        BY <4>1
    <3>2. r[FrameCells + i] = g[i]
      BY <1>2, <3>0, Zenon
    <3>3. r[(FrameCells + i) + 1] = g[i + 1]
      <4>1. r[FrameCells + (i + 1)] = g[i + 1]
        BY <1>2, <3>0, Zenon
      <4> QED
        BY <3>0, <4>1, Zenon
    <3>4. Follows(r[FrameCells + i], r[(FrameCells + i) + 1])
      BY <1>3, <3>1 DEF Chained
    <3> QED
      BY <3>2, <3>3, <3>4, Zenon
  <2>3. g # <<>> => g[1].part = 1 /\ g[1].lo = hi + 1
    <3> SUFFICES ASSUME g # <<>> PROVE g[1].part = 1 /\ g[1].lo = hi + 1
      OBVIOUS
    <3>1. Len(g) >= 1
      BY EmptySeq
    <3>2. FrameCells \in 1..(Len(r) - 1) /\ r[FrameCells + 1] = g[1]
      BY <1>1, <1>2, <3>1
    <3>3. Follows(r[FrameCells], r[FrameCells + 1])
      BY <1>3, <3>2 DEF Chained
    <3> QED
      BY <1>4, <3>2, <3>3 DEF Follows
  <2> QED
    BY <2>1, <2>2, <2>3 DEF Chained
<1>7. EndsFrame(r) => EndsFrame(g)
  <2> SUFFICES ASSUME EndsFrame(r), g # <<>>
               PROVE  g[Len(g)].part = FrameCells
    BY DEF EndsFrame
  <2>1. Len(g) \in 1..Len(g)
    BY <1>2, EmptySeq
  <2>2. r[Len(r)] = g[Len(g)]
    BY <1>2, <2>1
  <2> QED
    BY <1>4, <2>2 DEF EndsFrame
<1>8. LastByte(r, start) = LastByte(g, hi)
  <2>1. CASE g = <<>>
    <3>1. Len(r) = FrameCells
      BY <1>1, <1>2, <2>1
    <3> QED
      BY <1>4, <2>1, <3>1 DEF LastByte
  <2>2. CASE g # <<>>
    <3>1. Len(g) >= 1 /\ r[Len(r)] = g[Len(g)]
      BY <1>1, <1>2, <2>2, EmptySeq
    <3> QED
      BY <1>4, <2>2, <3>1 DEF LastByte
  <2> QED
    BY <2>1, <2>2
<1> QED
  BY <1>5, <1>6, <1>7, <1>8 DEF r, f

-----------------------------------------------------------------------------
(***************************************************************************)
(* The inductive invariant.                                                *)
(***************************************************************************)

\* Lengths, stated of any sequences.
LEMMA LenSum ==
    /\ \A q, r \in Seq(Nat) : Len(q) + Len(r) \in Nat /\ Len(q) + 0 <= Len(q) + Len(r)
    /\ Len(<<>>) = 0 /\ 0 + 0 = 0
  OBVIOUS

LEMMA Peers ==
    ASSUME NEW s \in Side
    PROVE  /\ Peer(s) \in Side /\ Peer(s) # s /\ Peer(Peer(s)) = s
           /\ \A r \in Side : r = s \/ r = Peer(s)
  BY DEF Peer, Side

\* The parts of a flow are sequences of cells, and so are their concatenations.
LEMMA FlowType ==
    ASSUME TypeOK, NEW s \in Side
    PROVE  /\ buf[s] \in Seq(Cell) /\ buf[Peer(s)] \in Seq(Cell)
           /\ wire[s] \in Seq(Cell) /\ pend[s] \in Seq(Cell)
           /\ Written(s) \in Seq(Cell) /\ Flow(s) \in Seq(Cell)
           /\ recv[s] \in Seq(Nat) /\ hold[s] \in Seq(Nat)
           /\ Opened(s) \in Nat /\ taken[s] \in Nat
<1>1. /\ buf[s] \in Seq(Cell) /\ buf[Peer(s)] \in Seq(Cell)
      /\ wire[s] \in Seq(Cell) /\ pend[s] \in Seq(Cell)
      /\ recv[s] \in Seq(Nat) /\ hold[s] \in Seq(Nat) /\ taken[s] \in Nat
  BY Peers DEF TypeOK
<1>2. Written(s) \in Seq(Cell)
  BY <1>1, ConcatProperties DEF Written
<1>3. Flow(s) \in Seq(Cell)
  BY <1>1, <1>2, ConcatProperties DEF Flow
<1>4. Opened(s) \in Nat
  BY <1>1, LenSum DEF Opened
<1> QED
  BY <1>1, <1>2, <1>3, <1>4

LEMMA StreamInit == Init => StreamInv
<1> SUFFICES ASSUME Init PROVE StreamInv
  OBVIOUS
<1>1. \A s \in Side :
         /\ recv[s] = <<>> /\ hold[s] = <<>> /\ buf[s] = <<>>
         /\ wire[s] = <<>> /\ pend[s] = <<>> /\ taken[s] = 0
         /\ flushed[s] = 0 /\ toLocal[s] = "run"
  BY DEF Init
<1>2. ServeFollows
  BY DEF Init, ServeFollows, Side
<1>3. FrameCells \in Nat \ {0}
  BY BoundsAssumption DEF FrameCells
<1> SUFFICES ASSUME NEW s \in Side
             PROVE  Numbered(s) /\ Aligned(s) /\ Continuous(s) /\ DoneIsFinal(s)
  BY <1>2 DEF StreamInv
<1>4. Peer(s) \in Side
  BY Peers
<1>5. Opened(s) = 0 /\ Opened(Peer(s)) = 0
  <2>1. \A r \in Side : Len(recv[r]) + Len(hold[r]) = 0
    BY <1>1, LenSum, Zenon
  <2> QED
    BY <1>4, <2>1 DEF Opened
<1>6. Numbered(s)
  <2>1. Len(recv[s]) = 0 /\ Len(hold[s]) = 0
    BY <1>1, Zenon, EmptySeq
  <2> QED
    BY <1>1, <1>4, <1>5, <2>1 DEF Numbered
<1>7. Aligned(s)
  <2>1. Len(buf[s]) = 0 /\ Len(pend[s]) = 0
    BY <1>1, Zenon, EmptySeq
  <2> QED
    BY <1>3, <2>1 DEF Aligned
<1>8. Written(s) = <<>> /\ Flow(s) = <<>>
  BY <1>1, <1>4 DEF Written, Flow
<1>9. Continuous(s)
  BY <1>1, <1>5, <1>8 DEF Continuous, Chained, LastByte, EndsFrame
<1>10. DoneIsFinal(s)
  BY <1>1 DEF DoneIsFinal
<1> QED
  BY <1>6, <1>7, <1>9, <1>10

\* A step that moves no data, and after which what has ended has still ended,
\* keeps the invariant.
LEMMA StreamIdle ==
    ASSUME StreamInv, ServeFollows',
           UNCHANGED <<taken, pend, flushed, buf, hold, recv, toLocal, wire>>,
           \A s \in Side : Ended(s) => Ended(s)'
    PROVE  StreamInv'
<1> SUFFICES ASSUME NEW s \in Side
             PROVE  (Numbered(s) /\ Aligned(s) /\ Continuous(s)
                       /\ DoneIsFinal(s))'
  BY DEF StreamInv
<1>1. Numbered(s) /\ Aligned(s) /\ Continuous(s) /\ DoneIsFinal(s)
  BY DEF StreamInv
<1>2. Numbered(s)' /\ Aligned(s)'
  BY <1>1 DEF Numbered, Aligned, Opened
<1>3. /\ Opened(Peer(s))' = Opened(Peer(s)) /\ Written(s)' = Written(s)
      /\ Flow(s)' = Flow(s)
  BY DEF Opened, Written, Flow
<1>4. (Ended(Peer(s)) => Ended(Peer(s))') /\ (Ended(s) => Ended(s)')
  BY Peers
<1>5. Continuous(s)'
  BY <1>1, <1>3, <1>4 DEF Continuous
<1>6. DoneIsFinal(s)'
  BY <1>1, <1>4 DEF DoneIsFinal
<1> QED
  BY <1>2, <1>5, <1>6

\* A relay that ends by an error or a crash drops what it holds.
LEMMA StreamDrop ==
    ASSUME TypeOK, StreamInv, NEW s \in Side, phase[s] # "idle",
           NEW end \in {"err", "dead"}, phase' = [phase EXCEPT ![s] = end],
           pend' = [pend EXCEPT ![s] = <<>>],
           buf' = [buf EXCEPT ![s] = <<>>],
           hold' = [hold EXCEPT ![s] = <<>>],
           UNCHANGED <<taken, flushed, recv, toLocal, wire>>
    PROVE  StreamInv'
<1> DEFINE p == Peer(s)
<1>1. p \in Side /\ p # s /\ Peer(p) = s /\ \A r \in Side : r = s \/ r = p
  BY Peers
<1>2. /\ Ended(s)' /\ (Ended(p)' <=> Ended(p))
      /\ pend'[s] = <<>> /\ buf'[s] = <<>> /\ hold'[s] = <<>>
      /\ pend'[p] = pend[p] /\ buf'[p] = buf[p] /\ hold'[p] = hold[p]
  BY <1>1 DEF TypeOK, Ended
<1>3. ServeFollows'
  BY <1>1, Peers DEF StreamInv, ServeFollows, TypeOK, Side
<1>4. /\ Numbered(s) /\ Aligned(s) /\ Continuous(s) /\ DoneIsFinal(s)
      /\ Numbered(p) /\ Aligned(p) /\ DoneIsFinal(p)
  BY <1>1 DEF StreamInv
<1>5. Opened(p)' = Opened(p) /\ Opened(s)' <= Opened(s)
  <2>1. recv[s] \in Seq(Nat) /\ hold[s] \in Seq(Nat)
    BY DEF TypeOK
  <2> QED
    BY <1>1, <1>2, <2>1 DEF Opened
<1>6. Numbered(s)' /\ Numbered(p)'
  <2>1. Opened(s)' \in Nat /\ Opened(s) \in Nat /\ taken[p] \in Nat
    <3>1. recv'[s] \in Seq(Nat) /\ hold'[s] \in Seq(Nat)
      BY <1>2, FlowType
    <3>3. Opened(s)' \in Nat
      BY <3>1, LenSum DEF Opened
    <3> QED
      BY <1>1, <3>3, FlowType
  <2> QED
    BY <1>1, <1>2, <1>4, <1>5, <2>1 DEF Numbered
<1>7. Aligned(s)' /\ Aligned(p)'
  BY <1>1, <1>2, <1>4, BoundsAssumption DEF Aligned, FrameCells
<1>8. Continuous(p)'
  BY <1>1, <1>2 DEF Continuous
<1>9. Continuous(s)'
  <2> SUFFICES ASSUME ~Ended(p)
               PROVE  /\ Chained(Flow(s)', Opened(p)', taken[s])
                      /\ flushed[s] = LastByte(Written(s)', Opened(p)')
    BY <1>2 DEF Continuous, Chained, LastByte
  <2>1. Written(s)' = Written(s)
    BY <1>1, <1>2 DEF Written
  <2>2. Flow(s)' = Written(s)
    BY <1>2, <2>1, FlowType, ConcatEmptySeq DEF Flow
  <2>3. /\ Chained(Flow(s), Opened(p), taken[s])
        /\ flushed[s] = LastByte(Written(s), Opened(p))
    BY <1>4 DEF Continuous
  <2>4. Chained(Written(s), Opened(p), taken[s])
    BY <1>1, <2>3, FlowType, ChainPrefix DEF Flow
  <2> QED
    BY <1>5, <2>1, <2>2, <2>3, <2>4
<1>10. DoneIsFinal(s)' /\ DoneIsFinal(p)'
  BY <1>1, <1>2, <1>4 DEF DoneIsFinal
<1> QED
  BY <1>1, <1>3, <1>6, <1>7, <1>8, <1>9, <1>10 DEF StreamInv

LEMMA StreamFail ==
    ASSUME TypeOK, StreamInv, NEW s \in Side, phase[s] # "idle", Fail(s)
    PROVE  StreamInv'
<1> DEFINE end == IF link = "down" THEN "dead" ELSE "err"
<1>1. end \in {"err", "dead"} /\ phase' = [phase EXCEPT ![s] = end]
  BY DEF Fail
<1> HIDE DEF end
<1> QED
  BY <1>1, StreamDrop DEF Fail

LEMMA StreamConnect ==
    ASSUME TypeOK, StreamInv, Accept \/ DialStep \/ TargetStep \/ LinkLost
    PROVE  StreamInv'
<1>1. CASE Accept \/ DialOk \/ TargetOk \/ LinkLost
  <2>1. UNCHANGED <<taken, pend, flushed, buf, hold, recv, toLocal, wire>>
    BY <1>1 DEF Accept, DialOk, TargetOk, LinkLost, outVars, inVars, ctlVars
  <2>2. ServeFollows'
    BY <1>1 DEF StreamInv, ServeFollows, TypeOK, Side, Accept, DialOk,
                TargetOk, LinkLost, ctlVars
  <2>3. \A s \in Side : Ended(s) => Ended(s)'
    BY <1>1 DEF StreamInv, ServeFollows, TypeOK, Side, Ended, Accept, DialOk,
                TargetOk, LinkLost, ctlVars
  <2> QED
    BY <2>1, <2>2, <2>3, StreamIdle
<1>2. CASE DialFail
  BY <1>2, StreamFail DEF DialFail, Side
<1>3. CASE TargetFail
  BY <1>3, StreamFail DEF TargetFail, Side
<1> QED
  BY <1>1, <1>2, <1>3 DEF DialStep, TargetStep

LEMMA StreamApp ==
    ASSUME TypeOK, StreamInv, NEW s \in Side,
           AppSend(s) \/ AppRead(s) \/ AppShut(s) \/ AppClose(s) \/ Crash(s)
    PROVE  StreamInv'
<1>1. CASE AppSend(s) \/ AppRead(s) \/ AppShut(s) \/ AppClose(s)
  <2>1. UNCHANGED <<taken, pend, flushed, buf, hold, recv, toLocal, wire,
                    phase>>
    BY <1>1 DEF AppSend, AppRead, AppShut, AppClose, outVars, inVars, ctlVars
  <2> QED
    BY <2>1, StreamIdle DEF StreamInv, ServeFollows, Ended
<1>2. CASE Crash(s)
  BY <1>2, StreamDrop DEF Crash
<1> QED
  BY <1>1, <1>2

\* Moving the head of one sequence to the end of the one before it.
LEMMA MoveHead ==
    ASSUME NEW q \in Seq(Cell), NEW r \in Seq(Cell), r # <<>>
    PROVE  /\ Append(q, Head(r)) \o Tail(r) = q \o r
           /\ Append(q, Head(r)) \in Seq(Cell) /\ Tail(r) \in Seq(Cell)
           /\ Head(r) \in Cell /\ Head(r) = r[1]
           /\ Len(r) \in Nat \ {0} /\ Len(Tail(r)) = Len(r) - 1
           /\ \A i \in 1..(Len(r) - 1) : Tail(r)[i] = r[i + 1]
<1>1. /\ Head(r) \in Cell /\ Tail(r) \in Seq(Cell)
      /\ Len(Tail(r)) = Len(r) - 1
      /\ \A i \in 1..Len(Tail(r)) : Tail(r)[i] = r[i + 1]
      /\ Len(r) \in Nat \ {0} /\ Head(r) = r[1]
  BY HeadTailProperties, EmptySeq
<1>2. /\ Append(q, Head(r)) \in Seq(Cell)
      /\ Append(q, Head(r)) = q \o <<Head(r)>>
      /\ <<Head(r)>> \in Seq(Cell)
  BY <1>1, AppendProperties, AppendIsConcat
<1>3. <<Head(r)>> \o Tail(r) = r
  BY <1>1
<1> QED
  BY <1>1, <1>2, <1>3, ConcatAssociative

\* The same, of the last of three sequences.
LEMMA MoveMiddle ==
    ASSUME NEW b \in Seq(Cell), NEW w \in Seq(Cell), NEW q \in Seq(Cell),
           q # <<>>
    PROVE  /\ b \o Append(w, Head(q)) = Append(b \o w, Head(q))
           /\ Append(b \o w, Head(q)) \o Tail(q) = (b \o w) \o q
           /\ Append(b \o w, Head(q)) \in Seq(Cell)
<1> DEFINE h == Head(q)
<1>1. h \in Cell /\ b \o w \in Seq(Cell)
  BY MoveHead, ConcatProperties
<1>2. Append(b \o w, h) \o Tail(q) = (b \o w) \o q
      /\ Append(b \o w, h) \in Seq(Cell)
  BY <1>1, MoveHead
<1> HIDE DEF h
<1>3. /\ Append(w, h) = w \o <<h>> /\ Append(b \o w, h) = (b \o w) \o <<h>>
      /\ <<h>> \in Seq(Cell)
  BY <1>1, AppendIsConcat
<1>4. (b \o w) \o <<h>> = b \o (w \o <<h>>)
  BY SMTT(30), <1>3, ConcatAssociative
<1> QED
  BY <1>2, <1>3, <1>4 DEF h

\* The flow of r is as it was if nothing it is made of has changed.
LEMMA FlowSame ==
    ASSUME NEW r \in Side, Continuous(r),
           Ended(Peer(r)) => Ended(Peer(r))', Ended(r) => Ended(r)',
           Opened(Peer(r))' = Opened(Peer(r)), Flow(r)' = Flow(r),
           Written(r)' = Written(r), taken'[r] = taken[r],
           flushed'[r] = flushed[r]
    PROVE  Continuous(r)'
  BY DEF Continuous

LEMMA StreamLocalRead ==
    ASSUME TypeOK, StreamInv, NEW s \in Side, LocalRead(s)
    PROVE  StreamInv'
<1> DEFINE p == Peer(s)
<1>1. p \in Side /\ p # s /\ Peer(p) = s /\ \A r \in Side : r = s \/ r = p
  BY Peers
<1>a. PICK n \in ReadSizes(s) :
         /\ taken' = [taken EXCEPT ![s] = @ + n]
         /\ pend' = [pend EXCEPT ![s] = Frame(taken[s] + 1, taken[s] + n)]
  BY DEF LocalRead
<1>2. n \in Nat \ {0}
  BY BoundsAssumption DEF ReadSizes
<1>3. /\ UNCHANGED <<flushed, buf, hold, recv, toLocal, phase, wire>>
      /\ pend[s] = <<>> /\ ~Ended(s)
  BY DEF LocalRead, inVars, ctlVars, ToAggRuns, Ended
<1>4. /\ Numbered(s) /\ Aligned(s) /\ Continuous(s) /\ DoneIsFinal(s)
      /\ Numbered(p) /\ Aligned(p) /\ Continuous(p) /\ DoneIsFinal(p)
      /\ ServeFollows
  BY <1>1 DEF StreamInv
<1>5. /\ taken[s] \in Nat /\ taken[p] \in Nat
      /\ taken'[s] = taken[s] + n /\ taken'[p] = taken[p]
      /\ pend'[s] = Frame(taken[s] + 1, taken[s] + n) /\ pend'[p] = pend[p]
  BY <1>1, <1>a, <1>2 DEF TypeOK
<1>6. \A r \in Side : /\ Opened(r)' = Opened(r) /\ Written(r)' = Written(r)
                      /\ Opened(r) \in Nat /\ (Ended(r)' <=> Ended(r))
  BY <1>3, FlowType DEF Opened, Written, Ended
<1>7. Numbered(s)' /\ Numbered(p)'
  <2>1. Opened(p) <= taken[s] + n
    <3>1. Opened(p) <= taken[s] /\ Opened(p) \in Nat
      BY <1>1, <1>4, <1>6 DEF Numbered
    <3> QED
      BY <1>2, <1>5, <3>1
  <2> QED
    BY <1>1, <1>3, <1>4, <1>5, <1>6, <2>1 DEF Numbered
<1>8. Aligned(s)' /\ Aligned(p)'
  <2>1. /\ Len(pend'[s]) = FrameCells /\ FrameCells \in Nat
        /\ \A i \in 1..FrameCells : pend'[s][i].part = i
    <3>1. taken[s] + 1 \in Nat /\ taken[s] + n \in Nat
      BY <1>2, <1>5
    <3> DEFINE f == Frame(taken[s] + 1, taken[s] + n)
    <3>2. /\ Len(f) = FrameCells /\ FrameCells \in Nat
          /\ \A i \in 1..FrameCells :
                f[i] = [lo |-> taken[s] + 1, hi |-> taken[s] + n, part |-> i]
      BY <3>1, FrameType
    <3> HIDE DEF f
    <3>3. \A i \in 1..FrameCells : f[i].part = i
      BY <3>2
    <3> QED
      BY <1>5, <3>2, <3>3 DEF f
  <2>2. \A i \in 1..FrameCells : FrameCells - FrameCells + i = i
    BY <2>1
  <2> QED
    BY <1>3, <1>4, <1>5, <2>1, <2>2 DEF Aligned
<1>9. Continuous(p)'
  BY <1>1, <1>3, <1>4, <1>5, <1>6, FlowSame DEF Flow
<1>10. Continuous(s)'
  <2> SUFFICES ASSUME ~Ended(p)
               PROVE  /\ Chained(Flow(s)', Opened(p), taken[s] + n)
                      /\ flushed[s] = LastByte(Written(s), Opened(p))
                      /\ EndsFrame(Flow(s)')
                      /\ LastByte(Flow(s)', Opened(p)) = taken[s] + n
    BY <1>1, <1>3, <1>5, <1>6
       DEF Continuous, Chained, EndsFrame, LastByte
  <2>1. Flow(s) = Written(s)
    BY <1>3, FlowType, ConcatEmptySeq DEF Flow
  <2>2. Flow(s)' = Written(s) \o Frame(taken[s] + 1, taken[s] + n)
    BY <1>5, <1>6 DEF Flow
  <2>3. /\ Chained(Written(s), Opened(p), taken[s])
        /\ flushed[s] = LastByte(Written(s), Opened(p))
        /\ EndsFrame(Written(s))
        /\ LastByte(Written(s), Opened(p)) = taken[s]
    BY <1>3, <1>4, <2>1 DEF Continuous
  <2>4. Opened(p) <= taken[s]
    BY <1>1, <1>4 DEF Numbered
  <2> QED
    <3>1. /\ Written(s) \in Seq(Cell) /\ Opened(p) \in Nat
          /\ taken[s] \in Nat
      BY <1>1, FlowType
    <3> DEFINE q == Written(s) \o Frame(taken[s] + 1, taken[s] + n)
    <3>2. /\ Chained(q, Opened(p), taken[s] + n)
          /\ EndsFrame(q)
          /\ LastByte(q, Opened(p)) = taken[s] + n
      BY <1>2, <2>3, <2>4, <3>1, ChainFrame
    <3> QED
      BY <2>2, <2>3, <3>2
<1>11. DoneIsFinal(s)' /\ DoneIsFinal(p)' /\ ServeFollows'
  BY <1>1, <1>3, <1>4, <1>6 DEF DoneIsFinal, ServeFollows
<1> QED
  BY <1>1, <1>7, <1>8, <1>9, <1>10, <1>11 DEF StreamInv

LEMMA StreamWriteCell ==
    ASSUME TypeOK, StreamInv, NEW s \in Side, WriteCell(s)
    PROVE  StreamInv'
<1> DEFINE p == Peer(s)
           h == Head(pend[s])
<1>1. p \in Side /\ p # s /\ Peer(p) = s /\ \A r \in Side : r = s \/ r = p
  BY Peers
<1>2. /\ UNCHANGED <<taken, buf, hold, recv, toLocal, phase>>
      /\ pend[s] # <<>> /\ ~Ended(s)
  BY DEF WriteCell, inVars, ctlVars, ToAggRuns, Ended
<1>3. /\ wire'[s] = Append(wire[s], h) /\ wire'[p] = wire[p]
      /\ pend'[s] = Tail(pend[s]) /\ pend'[p] = pend[p]
      /\ flushed'[s] = (IF Len(pend[s]) = 1 THEN h.hi ELSE flushed[s])
      /\ flushed'[p] = flushed[p]
  BY <1>1 DEF WriteCell, TypeOK
<1>4. /\ Numbered(s) /\ Aligned(s) /\ Continuous(s) /\ DoneIsFinal(s)
      /\ Numbered(p) /\ Aligned(p) /\ Continuous(p) /\ DoneIsFinal(p)
      /\ ServeFollows
  BY <1>1 DEF StreamInv
<1>5. \A r \in Side : Opened(r)' = Opened(r) /\ (Ended(r)' <=> Ended(r))
  BY <1>2 DEF Opened, Ended
<1>6. /\ h \in Cell /\ h = pend[s][1] /\ Tail(pend[s]) \in Seq(Cell)
      /\ Len(pend[s]) \in Nat \ {0} /\ Len(Tail(pend[s])) = Len(pend[s]) - 1
      /\ \A i \in 1..(Len(pend[s]) - 1) : Tail(pend[s])[i] = pend[s][i + 1]
  BY <1>2, FlowType, MoveHead
<1>7. /\ Written(s)' = Append(Written(s), h)
      /\ Append(Written(s), h) \in Seq(Cell)
      /\ Append(Written(s), h) \o Tail(pend[s]) = Flow(s)
  <2>1. /\ buf[p] \in Seq(Cell) /\ wire[s] \in Seq(Cell)
        /\ pend[s] \in Seq(Cell)
    BY FlowType
  <2>2. /\ buf[p] \o Append(wire[s], h) = Append(buf[p] \o wire[s], h)
        /\ Append(buf[p] \o wire[s], h) \o Tail(pend[s])
             = (buf[p] \o wire[s]) \o pend[s]
        /\ Append(buf[p] \o wire[s], h) \in Seq(Cell)
    BY <1>2, <2>1, MoveMiddle
  <2>3. Written(s)' = buf[p] \o Append(wire[s], h)
    BY <1>2, <1>3 DEF Written
  <2> QED
    BY <2>2, <2>3 DEF Written, Flow
<1>8. Flow(s)' = Flow(s)
  BY <1>3, <1>7 DEF Flow
<1> HIDE DEF h
<1>9. Aligned(s)' /\ Aligned(p)'
  <2>1. \A i \in 1..Len(pend'[s]) :
           pend'[s][i].part = FrameCells - Len(pend'[s]) + i
    <3> TAKE i \in 1..Len(pend'[s])
    <3>1. i + 1 \in 1..Len(pend[s]) /\ i \in 1..(Len(pend[s]) - 1)
      BY <1>3, <1>6
    <3>2. pend'[s][i].part = FrameCells - Len(pend[s]) + (i + 1)
      BY <1>3, <1>4, <1>6, <3>1 DEF Aligned
    <3>3. FrameCells \in Nat
      BY BoundsAssumption DEF FrameCells
    <3> QED
      BY <1>3, <1>6, <3>2, <3>3
  <2> QED
    BY <1>2, <1>3, <1>4, <2>1 DEF Aligned
<1>10. Continuous(s)'
  <2> SUFFICES ASSUME ~Ended(p)
               PROVE  flushed'[s] = LastByte(Append(Written(s), h), Opened(p))
    BY <1>1, <1>2, <1>4, <1>5, <1>7, <1>8 DEF Continuous
  <2>1. Chained(Flow(s), Opened(p), taken[s])
        /\ flushed[s] = LastByte(Written(s), Opened(p))
    BY <1>4 DEF Continuous
  <2>2. Opened(p) \in Nat /\ taken[s] \in Nat
    BY <1>1, FlowType
  <2>3. Chained(Append(Written(s), h), Opened(p), taken[s])
    <3>1. Chained(Append(Written(s), h) \o Tail(pend[s]), Opened(p), taken[s])
      BY <1>7, <2>1
    <3> QED
      BY <1>6, <1>7, <2>2, <3>1, ChainPrefix
  <2>4. LastByte(Append(Written(s), h), Opened(p)) =
          IF h.part = FrameCells THEN h.hi ELSE LastByte(Written(s), Opened(p))
    BY <1>1, <1>6, <2>3, FlowType, LastOfAppend
  <2>5. h.part = FrameCells - Len(pend[s]) + 1 /\ FrameCells \in Nat
    BY <1>4, <1>6, BoundsAssumption DEF Aligned, FrameCells
  <2>6. \A m, k \in Nat : m = m - k + 1 <=> k = 1
    OBVIOUS
  <2>7. h.part = FrameCells <=> Len(pend[s]) = 1
    <3>1. FrameCells = FrameCells - Len(pend[s]) + 1 <=> Len(pend[s]) = 1
      BY <1>6, <2>5, <2>6
    <3> QED
      BY <2>5, <3>1
  <2> QED
    BY <1>3, <2>1, <2>4, <2>7
<1>11. Continuous(p)'
  BY <1>1, <1>2, <1>3, <1>4, <1>5, FlowSame DEF Flow, Written
<1>12. Numbered(s)' /\ Numbered(p)' /\ ServeFollows'
  BY <1>1, <1>2, <1>4, <1>5 DEF Numbered, ServeFollows
<1>13. DoneIsFinal(s)' /\ DoneIsFinal(p)'
  BY <1>1, <1>2, <1>3, <1>4, <1>5 DEF DoneIsFinal
<1> QED
  BY <1>1, <1>9, <1>10, <1>11, <1>12, <1>13 DEF StreamInv

LEMMA StreamToAgg ==
    ASSUME TypeOK, StreamInv, NEW s \in Side, ToAggStep(s)
    PROVE  StreamInv'
<1>1. phase[s] = "relay"
  BY DEF ToAggStep, LocalRead, SealFails, LocalEof, LocalReadErr, WriteCell,
         WriteErr, ToAggRuns
<1>2. CASE LocalEof(s)
  <2>1. UNCHANGED <<taken, pend, flushed, buf, hold, recv, toLocal, wire>>
    BY <1>2 DEF LocalEof, outVars, inVars
  <2>2. phase' = [phase EXCEPT ![s] = "ok"] \/ phase' = phase
    BY <1>2 DEF LocalEof, JoinOutcome, TypeOK
  <2>3. ServeFollows' /\ \A r \in Side : Ended(r) => Ended(r)'
    BY <1>1, <2>2 DEF StreamInv, ServeFollows, TypeOK, Side, Ended
  <2> QED
    BY <2>1, <2>3, StreamIdle
<1>3. CASE SealFails(s) \/ LocalReadErr(s) \/ WriteErr(s)
  BY <1>1, <1>3, StreamFail DEF SealFails, LocalReadErr, WriteErr
<1> QED
  BY <1>2, <1>3, StreamLocalRead, StreamWriteCell DEF ToAggStep

\* A cell that continues a partial frame has the next part.
LEMMA NextPart ==
    ASSUME NEW b \in Seq(Cell), NEW c \in Cell, NEW start \in Nat,
           NEW top \in Nat, Chained(Append(b, c), start, top),
           Len(b) < FrameCells,
           \A i \in 1..Len(b) :
              b[i] = [lo |-> b[1].lo, hi |-> b[1].hi, part |-> i]
    PROVE  LET a == Append(b, c)
           IN  /\ Len(a) <= FrameCells
               /\ \A i \in 1..Len(a) :
                     a[i] = [lo |-> a[1].lo, hi |-> a[1].hi, part |-> i]
<1> DEFINE a == Append(b, c)
<1>1. /\ a \in Seq(Cell) /\ a # <<>> /\ Len(a) = Len(b) + 1
      /\ a[Len(b) + 1] = c
      /\ \A i \in 1..Len(b) : a[i] = b[i]
      /\ Len(b) \in Nat
  BY AppendProperties
<1>2. FrameCells \in Nat
  BY BoundsAssumption DEF FrameCells
<1>3. c = [lo |-> c.lo, hi |-> c.hi, part |-> c.part]
  BY DEF Cell
<1>4. Chained(a, start, top)
  OBVIOUS
<1> HIDE DEF a
<1>5. Len(a) <= FrameCells
  BY <1>1, <1>2
<1>6. CASE Len(b) = 0
  <2>1. Len(a) = 1 /\ a[1] = c /\ c.part = 1
    BY <1>1, <1>4, <1>6 DEF Chained
  <2>2. \A i \in 1..Len(a) :
           a[i] = [lo |-> a[1].lo, hi |-> a[1].hi, part |-> i]
    BY <1>3, <2>1
  <2> QED
    BY <1>5, <2>2 DEF a
<1>7. CASE Len(b) # 0
  <2>1. /\ Len(b) \in 1..(Len(a) - 1) /\ 1 \in 1..Len(b) /\ Len(b) \in 1..Len(b)
        /\ a[1] = b[1] /\ a[Len(b)] = b[Len(b)]
    BY <1>1, <1>7
  <2>2. Follows(a[Len(b)], a[Len(b) + 1])
    BY <1>4, <2>1 DEF Chained
  <2>3. b[Len(b)] = [lo |-> b[1].lo, hi |-> b[1].hi, part |-> Len(b)]
    BY <2>1
  <2>4. /\ b[Len(b)].part = Len(b) /\ b[Len(b)].lo = b[1].lo
        /\ b[Len(b)].hi = b[1].hi /\ Len(b) # FrameCells
    BY <2>3, <1>1, <1>2
  <2>5. c.part = Len(b) + 1 /\ c.lo = a[1].lo /\ c.hi = a[1].hi
    BY <1>1, <2>1, <2>2, <2>4 DEF Follows
  <2>6. ASSUME NEW i \in 1..Len(a)
        PROVE  a[i] = [lo |-> a[1].lo, hi |-> a[1].hi, part |-> i]
    <3>1. CASE i \in 1..Len(b)
      BY <1>1, <2>1, <3>1
    <3>2. CASE i = Len(b) + 1
      BY <1>1, <1>3, <2>5, <3>2
    <3> QED
      BY <1>1, <3>1, <3>2
  <2> QED
    BY <1>5, <2>6 DEF a
<1> QED
  BY <1>6, <1>7

LEMMA StreamReadCell ==
    ASSUME TypeOK, StreamInv, NEW s \in Side, ReadCell(s)
    PROVE  StreamInv'
<1> DEFINE p == Peer(s)
           h == Head(wire[p])
<1>1. p \in Side /\ p # s /\ Peer(p) = s /\ \A r \in Side : r = s \/ r = p
  BY Peers
<1>2. /\ UNCHANGED <<taken, pend, flushed, hold, recv, toLocal, phase>>
      /\ wire[p] # <<>> /\ ~Ended(s) /\ Len(buf[s]) < FrameCells
  BY DEF ReadCell, outVars, ctlVars, ToLocalReads, Ended
<1>3. /\ wire'[p] = Tail(wire[p]) /\ wire'[s] = wire[s]
      /\ buf'[s] = Append(buf[s], h) /\ buf'[p] = buf[p]
  BY <1>1 DEF ReadCell, TypeOK
<1>4. /\ Numbered(s) /\ Aligned(s) /\ Continuous(s) /\ DoneIsFinal(s)
      /\ Numbered(p) /\ Aligned(p) /\ Continuous(p) /\ DoneIsFinal(p)
      /\ ServeFollows
  BY <1>1 DEF StreamInv
<1>5. \A r \in Side : Opened(r)' = Opened(r) /\ (Ended(r)' <=> Ended(r))
  BY <1>2 DEF Opened, Ended
<1>6. buf[s] \in Seq(Cell) /\ wire[p] \in Seq(Cell) /\ pend[p] \in Seq(Cell)
      /\ Written(p) \in Seq(Cell) /\ Opened(s) \in Nat /\ taken[p] \in Nat
  BY <1>1, FlowType
<1>7. /\ Append(buf[s], h) \o Tail(wire[p]) = buf[s] \o wire[p]
      /\ Append(buf[s], h) \in Seq(Cell) /\ Tail(wire[p]) \in Seq(Cell)
      /\ h \in Cell
  BY <1>2, <1>6, MoveHead
<1> HIDE DEF h
<1>8. Written(p)' = Written(p) /\ Flow(p)' = Flow(p)
  BY <1>1, <1>2, <1>3, <1>7 DEF Written, Flow
<1>9. Written(s)' = Written(s) /\ Flow(s)' = Flow(s)
  BY <1>1, <1>2, <1>3 DEF Written, Flow
<1>10. Continuous(s)' /\ Continuous(p)'
  BY <1>1, <1>2, <1>4, <1>5, <1>8, <1>9, FlowSame
<1>11. Aligned(s)' /\ Aligned(p)'
  <2>1. Chained(Written(p) \o pend[p], Opened(s), taken[p])
    BY <1>1, <1>2, <1>4 DEF Continuous, Flow
  <2>2. Chained(Written(p), Opened(s), taken[p])
    BY <1>6, <2>1, ChainPrefix
  <2>3. Chained(Append(buf[s], h) \o Tail(wire[p]), Opened(s), taken[p])
    BY <1>1, <1>7, <2>2 DEF Written
  <2>4. Chained(Append(buf[s], h), Opened(s), taken[p])
    BY <1>6, <1>7, <2>3, ChainPrefix
  <2>5. /\ Len(buf'[s]) <= FrameCells
        /\ \A i \in 1..Len(buf'[s]) :
              buf'[s][i] = [lo |-> buf'[s][1].lo, hi |-> buf'[s][1].hi,
                            part |-> i]
    <3>1. \A i \in 1..Len(buf[s]) :
             buf[s][i] = [lo |-> buf[s][1].lo, hi |-> buf[s][1].hi, part |-> i]
      BY <1>4 DEF Aligned
    <3> DEFINE b == buf[s]
               a == Append(b, h)
    <3>2. /\ Len(a) <= FrameCells
          /\ \A i \in 1..Len(a) :
                a[i] = [lo |-> a[1].lo, hi |-> a[1].hi, part |-> i]
      BY <1>2, <1>6, <1>7, <2>4, <3>1, NextPart
    <3> HIDE DEF a
    <3>3. buf'[s] = a
      BY <1>3 DEF a
    <3> QED
      BY <3>2, <3>3
  <2> QED
    BY <1>2, <1>3, <1>4, <2>5 DEF Aligned
<1>12. Numbered(s)' /\ Numbered(p)' /\ ServeFollows'
  BY <1>1, <1>2, <1>4, <1>5 DEF Numbered, ServeFollows
<1>13. DoneIsFinal(s)' /\ DoneIsFinal(p)'
  BY <1>1, <1>2, <1>4, <1>5 DEF DoneIsFinal
<1> QED
  BY <1>1, <1>10, <1>11, <1>12, <1>13 DEF StreamInv

\* Opening a frame numbers its bytes after those opened before.
LEMMA OpenNumbers ==
    ASSUME NEW r \in Seq(Nat), NEW lo \in Nat, NEW hi \in Nat, lo <= hi,
           lo = Len(r) + 1
    PROVE  /\ \A i \in 1..Len(Bytes(lo, hi)) : Bytes(lo, hi)[i] = Len(r) + i
           /\ Len(r) + Len(Bytes(lo, hi)) = hi
<1>1. /\ Len(Bytes(lo, hi)) = hi - lo + 1
      /\ \A i \in 1..(hi - lo + 1) : Bytes(lo, hi)[i] = lo + i - 1
  BY BytesType
<1>2. Len(r) \in Nat
  OBVIOUS
<1>3. Len(r) + (hi - lo + 1) = hi
  BY <1>2
<1>4. \A i \in 1..(hi - lo + 1) : Bytes(lo, hi)[i] = Len(r) + i
  BY <1>1, <1>2
<1> QED
  BY <1>1, <1>3, <1>4

LEMMA StreamOpenFrame ==
    ASSUME TypeOK, StreamInv, NEW s \in Side, OpenFrame(s)
    PROVE  StreamInv'
<1> DEFINE p == Peer(s)
           lo == buf[s][1].lo
           hi == buf[s][1].hi
<1>1. p \in Side /\ p # s /\ Peer(p) = s /\ \A r \in Side : r = s \/ r = p
  BY Peers
<1>2. /\ UNCHANGED <<taken, pend, flushed, wire, recv, toLocal, phase>>
      /\ ~Ended(s) /\ toLocal[s] = "run" /\ hold[s] = <<>>
      /\ Len(buf[s]) = FrameCells /\ buf[s] = Frame(lo, hi)
  BY DEF OpenFrame, outVars, ctlVars, ToLocalReads, Ended, Authentic
<1>3. /\ hold'[s] = Bytes(lo, hi) /\ hold'[p] = hold[p]
      /\ buf'[s] = <<>> /\ buf'[p] = buf[p]
  BY <1>1 DEF OpenFrame, TypeOK
<1>4. /\ Numbered(s) /\ Aligned(s) /\ Continuous(s) /\ DoneIsFinal(s)
      /\ Numbered(p) /\ Aligned(p) /\ Continuous(p) /\ DoneIsFinal(p)
      /\ ServeFollows
  BY <1>1 DEF StreamInv
<1>5. /\ buf[s] \in Seq(Cell) /\ wire[p] \in Seq(Cell)
      /\ pend[p] \in Seq(Cell) /\ Written(p) \in Seq(Cell)
      /\ Opened(s) \in Nat /\ taken[p] \in Nat /\ recv[s] \in Seq(Nat)
  BY <1>1, FlowType
<1>6. lo \in Nat /\ hi \in Nat
  <2>1. 1 \in 1..Len(buf[s])
    BY <1>2, FrameType, BoundsAssumption DEF FrameCells
  <2>2. buf[s][1] \in Cell
    BY <1>5, <2>1, ElementOfSeq
  <2> QED
    BY <2>2 DEF Cell
<1> HIDE DEF lo, hi
<1>7. Opened(s) = Len(recv[s]) /\ Len(recv[s]) \in Nat
  <2>1. \A q \in Seq(Nat) : Len(q) + Len(<<>>) = Len(q) /\ Len(q) \in Nat
    OBVIOUS
  <2> QED
    BY <1>2, <1>5, <2>1 DEF Opened
<1>8. /\ Flow(p) = Frame(lo, hi) \o (wire[p] \o pend[p])
      /\ Written(p) = Frame(lo, hi) \o wire[p]
      /\ Flow(p)' = wire[p] \o pend[p] /\ Written(p)' = wire[p]
      /\ wire[p] \o pend[p] \in Seq(Cell)
  <2>1. (buf[s] \o wire[p]) \o pend[p] = buf[s] \o (wire[p] \o pend[p])
        /\ wire[p] \o pend[p] \in Seq(Cell)
    <3> DEFINE b == buf[s]
               w == wire[p]
               q == pend[p]
    <3>1. b \in Seq(Cell) /\ w \in Seq(Cell) /\ q \in Seq(Cell)
      BY <1>5
    <3> HIDE DEF b, w, q
    <3>2. (b \o w) \o q = b \o (w \o q)
      BY <3>1, ConcatAssociative
    <3>3. w \o q \in Seq(Cell)
      BY <3>1, ConcatProperties
    <3> QED
      BY <3>2, <3>3 DEF b, w, q
  <2>2. Written(p)' = wire[p]
    BY <1>1, <1>2, <1>3, <1>5, ConcatEmptySeq DEF Written
  <2> QED
    BY <1>1, <1>2, <2>1, <2>2 DEF Written, Flow
<1>9. /\ Chained(Flow(p), Opened(s), taken[p])
      /\ flushed[p] = LastByte(Written(p), Opened(s))
      /\ ~Ended(p) => /\ EndsFrame(Flow(p))
                      /\ LastByte(Flow(p), Opened(s)) = taken[p]
  BY <1>1, <1>2, <1>4 DEF Continuous
<1>10. /\ lo = Opened(s) + 1 /\ lo <= hi /\ hi <= taken[p]
       /\ Chained(Flow(p)', hi, taken[p])
       /\ EndsFrame(Flow(p)) => EndsFrame(Flow(p)')
       /\ LastByte(Flow(p), Opened(s)) = LastByte(Flow(p)', hi)
  <2>1. Chained(Frame(lo, hi) \o (wire[p] \o pend[p]), Opened(s), taken[p])
    BY <1>8, <1>9
  <2> DEFINE g == wire[p] \o pend[p]
  <2>2. g \in Seq(Cell)
    BY <1>8
  <2> HIDE DEF g
  <2>3. Chained(Frame(lo, hi) \o g, Opened(s), taken[p])
    BY <2>1 DEF g
  <2>4. /\ lo = Opened(s) + 1 /\ lo <= hi /\ hi <= taken[p]
        /\ Chained(g, hi, taken[p])
        /\ EndsFrame(Frame(lo, hi) \o g) => EndsFrame(g)
        /\ LastByte(Frame(lo, hi) \o g, Opened(s)) = LastByte(g, hi)
    BY SMTT(30), <1>5, <1>6, <2>2, <2>3, ChainDrop
  <2>5. Flow(p) = Frame(lo, hi) \o g /\ Flow(p)' = g
    BY <1>8 DEF g
  <2> QED
    BY <2>4, <2>5
<1>11. LastByte(Written(p), Opened(s)) = LastByte(Written(p)', hi)
  <2>1. Chained(Written(p), Opened(s), taken[p])
    BY <1>5, <1>9, ChainPrefix DEF Flow
  <2>2. Chained(Frame(lo, hi) \o wire[p], Opened(s), taken[p])
    BY <1>8, <2>1
  <2>3. LastByte(Frame(lo, hi) \o wire[p], Opened(s)) = LastByte(wire[p], hi)
    BY <1>5, <1>6, <2>2, ChainDrop
  <2> QED
    BY <1>8, <2>3
<1>12. /\ \A i \in 1..Len(hold'[s]) : hold'[s][i] = Len(recv[s]) + i
       /\ Opened(s)' = hi
  <2>1. /\ \A i \in 1..Len(Bytes(lo, hi)) : Bytes(lo, hi)[i] = Len(recv[s]) + i
        /\ Len(recv[s]) + Len(Bytes(lo, hi)) = hi
    <3>1. lo = Len(recv[s]) + 1 /\ lo <= hi
      BY <1>7, <1>10
    <3>2. recv[s] \in Seq(Nat)
      BY <1>5
    <3> QED
      BY <1>6, <3>1, <3>2, OpenNumbers, ZenonT(30)
  <2> QED
    BY <1>2, <1>3, <2>1 DEF Opened
<1>13. \A r \in Side : Ended(r)' <=> Ended(r)
  BY <1>2 DEF Ended
<1>14. Opened(p)' = Opened(p)
  BY <1>2, <1>3 DEF Opened
<1>15. Numbered(s)' /\ Numbered(p)'
  BY <1>1, <1>2, <1>3, <1>4, <1>10, <1>12, <1>14 DEF Numbered
<1>16. Aligned(s)' /\ Aligned(p)'
  <2>1. Len(buf'[s]) = 0 /\ FrameCells \in Nat
    BY <1>3, FrameType, EmptySeq, BoundsAssumption DEF FrameCells
  <2>2. /\ Len(buf'[s]) <= FrameCells
        /\ \A i \in 1..Len(buf'[s]) : FALSE
    BY <2>1
  <2>3. Aligned(s)'
    BY <1>2, <1>4, <2>2 DEF Aligned
  <2>4. Aligned(p)'
    BY <1>2, <1>3, <1>4 DEF Aligned
  <2> QED
    BY <2>3, <2>4
<1>17. Continuous(p)'
  BY <1>1, <1>2, <1>9, <1>10, <1>11, <1>12, <1>13 DEF Continuous
<1>18. Continuous(s)'
  BY <1>1, <1>2, <1>3, <1>4, <1>13, <1>14, FlowSame DEF Flow, Written
<1>19. DoneIsFinal(s)' /\ DoneIsFinal(p)' /\ ServeFollows'
  BY <1>1, <1>2, <1>3, <1>4, <1>13 DEF DoneIsFinal, ServeFollows
<1> QED
  BY <1>1, <1>15, <1>16, <1>17, <1>18, <1>19 DEF StreamInv

LEMMA StreamReadEof ==
    ASSUME TypeOK, StreamInv, NEW s \in Side, ReadEof(s)
    PROVE  StreamInv'
<1> DEFINE p == Peer(s)
<1>1. p \in Side /\ p # s /\ Peer(p) = s /\ \A r \in Side : r = s \/ r = p
  BY Peers
<1>2. /\ UNCHANGED <<taken, pend, flushed, buf, hold, recv, wire>>
      /\ phase[s] = "relay" /\ hold[s] = <<>> /\ wire[p] = <<>>
      /\ Ended(p) /\ Len(buf[s]) < HdrCells
  BY DEF ReadEof, outVars, inVars, ToLocalReads, AtEof, Ended
<1>3. /\ toLocal'[p] = toLocal[p]
      /\ phase' = [phase EXCEPT ![s] = "ok"] \/ phase' = phase
  BY <1>1 DEF ReadEof, JoinOutcome, TypeOK
<1>4. /\ Numbered(s) /\ Aligned(s) /\ Continuous(s) /\ DoneIsFinal(s)
      /\ Numbered(p) /\ Aligned(p) /\ Continuous(p) /\ DoneIsFinal(p)
      /\ ServeFollows
  BY <1>1 DEF StreamInv
<1>5. (\A r \in Side : Ended(r) => Ended(r)') /\ ServeFollows'
  BY <1>2, <1>3 DEF StreamInv, ServeFollows, TypeOK, Side, Ended
<1>6. \A r \in Side : /\ Opened(r)' = Opened(r) /\ Written(r)' = Written(r)
                      /\ Flow(r)' = Flow(r)
  BY <1>2 DEF Opened, Written, Flow
<1>7. Continuous(s)' /\ Continuous(p)'
  BY <1>1, <1>2, <1>4, <1>5, <1>6, FlowSame
<1>8. /\ Numbered(s)' /\ Numbered(p)' /\ Aligned(s)' /\ Aligned(p)'
  BY <1>1, <1>2, <1>4, <1>6 DEF Numbered, Aligned
<1>9. Len(recv[s]) = flushed[p]
  <2>1. /\ buf[s] \in Seq(Cell) /\ wire[p] \in Seq(Cell)
        /\ pend[p] \in Seq(Cell) /\ Written(p) \in Seq(Cell)
        /\ Opened(s) \in Nat /\ taken[p] \in Nat /\ recv[s] \in Seq(Nat)
    BY <1>1, FlowType
  <2>2. Written(p) = buf[s]
    BY <1>1, <1>2, <2>1, ConcatEmptySeq DEF Written
  <2>3. /\ Chained(Flow(p), Opened(s), taken[p])
        /\ flushed[p] = LastByte(buf[s], Opened(s))
    BY <1>1, <1>2, <1>4, <2>2 DEF Continuous, Ended
  <2>4. Chained(buf[s], Opened(s), taken[p])
    BY <2>1, <2>2, <2>3, ChainPrefix DEF Flow
  <2>5. LastByte(buf[s], Opened(s)) = Opened(s)
    <3>1. CASE buf[s] = <<>>
      BY <3>1 DEF LastByte
    <3>2. CASE buf[s] # <<>>
      <4>1. Len(buf[s]) \in 1..Len(buf[s]) /\ Len(buf[s]) \in Nat
        BY <2>1, <3>2, EmptySeq
      <4>2. /\ buf[s][Len(buf[s])].part = Len(buf[s])
            /\ buf[s][Len(buf[s])].lo = buf[s][1].lo
        <5>1. buf[s][Len(buf[s])] = [lo |-> buf[s][1].lo, hi |-> buf[s][1].hi,
                                     part |-> Len(buf[s])]
          BY <1>4, <4>1 DEF Aligned
        <5> QED
          BY <5>1
      <4>3. Len(buf[s]) # FrameCells
        BY <1>2, <4>1, BoundsAssumption DEF FrameCells
      <4>4. buf[s][1].lo = Opened(s) + 1
        BY <2>4, <3>2 DEF Chained
      <4>5. (Opened(s) + 1) - 1 = Opened(s)
        BY <2>1
      <4> QED
        BY <3>2, <4>2, <4>3, <4>4, <4>5 DEF LastByte
    <3> QED
      BY <3>1, <3>2
  <2>6. Opened(s) = Len(recv[s])
    <3>1. \A q \in Seq(Nat) : Len(q) + Len(<<>>) = Len(q)
      OBVIOUS
    <3> QED
      BY <1>2, <2>1, <3>1 DEF Opened
  <2> QED
    BY <2>3, <2>5, <2>6
<1>10. DoneIsFinal(s)' /\ DoneIsFinal(p)'
  BY <1>1, <1>2, <1>3, <1>4, <1>5, <1>9 DEF DoneIsFinal
<1> QED
  BY <1>1, <1>5, <1>7, <1>8, <1>10 DEF StreamInv

\* Moving the first n opened bytes to the socket keeps the numbering.
LEMMA WriteNumbers ==
    ASSUME NEW r \in Seq(Nat), NEW h \in Seq(Nat), NEW n \in 1..Len(h),
           \A i \in 1..Len(r) : r[i] = i,
           \A i \in 1..Len(h) : h[i] = Len(r) + i
    PROVE  LET r2 == r \o SubSeq(h, 1, n)
               h2 == Rest(h, n)
           IN  /\ \A i \in 1..Len(r2) : r2[i] = i
               /\ \A i \in 1..Len(h2) : h2[i] = Len(r2) + i
               /\ Len(r2) + Len(h2) = Len(r) + Len(h)
<1> DEFINE r2 == r \o SubSeq(h, 1, n)
           h2 == Rest(h, n)
<1>1. /\ SubSeq(h, 1, n) \in Seq(Nat) /\ Len(SubSeq(h, 1, n)) = n
      /\ \A i \in 1..n : SubSeq(h, 1, n)[i] = h[i]
      /\ h2 \in Seq(Nat) /\ Len(h2) = Len(h) - n
      /\ \A i \in 1..(Len(h) - n) : h2[i] = h[n + i]
      /\ Len(r) \in Nat /\ Len(h) \in Nat /\ n \in Nat
  BY SMTT(30) DEF Rest
<1> HIDE DEF h2
<1>2. /\ Len(r2) = Len(r) + n
      /\ \A i \in 1..(Len(r) + n) :
            r2[i] = IF i <= Len(r) THEN r[i] ELSE SubSeq(h, 1, n)[i - Len(r)]
  BY <1>1, ConcatProperties
<1> HIDE DEF r2
<1>3. ASSUME NEW i \in 1..(Len(r) + n)
      PROVE  r2[i] = i
  <2>1. CASE i <= Len(r)
    <3>1. i \in 1..Len(r)
      BY <1>1, <2>1
    <3>2. r2[i] = r[i]
      BY <1>2, <2>1
    <3> QED
      BY <3>1, <3>2
  <2>2. CASE ~(i <= Len(r))
    <3>1. i - Len(r) \in 1..n /\ i - Len(r) \in 1..Len(h)
          /\ Len(r) + (i - Len(r)) = i
      BY <1>1, <2>2
    <3>2. r2[i] = SubSeq(h, 1, n)[i - Len(r)]
      BY <1>2, <2>2
    <3>3. SubSeq(h, 1, n)[i - Len(r)] = h[i - Len(r)]
      BY <1>1, <3>1
    <3>4. h[i - Len(r)] = Len(r) + (i - Len(r))
      BY <3>1
    <3> QED
      BY <3>1, <3>2, <3>3, <3>4
  <2> QED
    BY <2>1, <2>2
<1>4. ASSUME NEW i \in 1..Len(h2)
      PROVE  h2[i] = Len(r2) + i
  <2>1. n + i \in 1..Len(h) /\ i \in 1..(Len(h) - n)
    BY <1>1
  <2>2. h2[i] = Len(r) + (n + i)
    BY <1>1, <2>1
  <2> QED
    BY <1>1, <1>2, <2>1, <2>2
<1>5. Len(r2) + Len(h2) = Len(r) + Len(h)
  BY <1>1, <1>2
<1> QED
  BY <1>2, <1>3, <1>4, <1>5 DEF r2, h2

LEMMA StreamLocalWrite ==
    ASSUME TypeOK, StreamInv, NEW s \in Side, LocalWrite(s)
    PROVE  StreamInv'
<1> DEFINE p == Peer(s)
<1>1. p \in Side /\ p # s /\ Peer(p) = s /\ \A r \in Side : r = s \/ r = p
  BY Peers
<1>2. /\ UNCHANGED <<taken, pend, flushed, buf, wire, toLocal, phase>>
      /\ hold[s] # <<>>
  BY DEF LocalWrite, outVars, ctlVars
<1>3. PICK n \in WriteSizes(s) :
         /\ recv' = [recv EXCEPT ![s] = @ \o SubSeq(hold[s], 1, n)]
         /\ hold' = [hold EXCEPT ![s] = Rest(@, n)]
  BY DEF LocalWrite
<1>4. n \in 1..Len(hold[s])
  BY DEF WriteSizes
<1>5. /\ recv'[s] = recv[s] \o SubSeq(hold[s], 1, n) /\ recv'[p] = recv[p]
      /\ hold'[s] = Rest(hold[s], n) /\ hold'[p] = hold[p]
  BY <1>1, <1>3 DEF TypeOK
<1>6. /\ Numbered(s) /\ Aligned(s) /\ Continuous(s) /\ DoneIsFinal(s)
      /\ Numbered(p) /\ Aligned(p) /\ Continuous(p) /\ DoneIsFinal(p)
      /\ ServeFollows
  BY <1>1 DEF StreamInv
<1>7. /\ \A i \in 1..Len(recv'[s]) : recv'[s][i] = i
      /\ \A i \in 1..Len(hold'[s]) : hold'[s][i] = Len(recv'[s]) + i
      /\ Opened(s)' = Opened(s)
  <2>1. recv[s] \in Seq(Nat) /\ hold[s] \in Seq(Nat)
    BY FlowType
  <2>2. /\ \A i \in 1..Len(recv[s]) : recv[s][i] = i
        /\ \A i \in 1..Len(hold[s]) : hold[s][i] = Len(recv[s]) + i
    BY <1>6 DEF Numbered
  <2> DEFINE r2 == recv[s] \o SubSeq(hold[s], 1, n)
             h2 == Rest(hold[s], n)
  <2>3. /\ \A i \in 1..Len(r2) : r2[i] = i
        /\ \A i \in 1..Len(h2) : h2[i] = Len(r2) + i
        /\ Len(r2) + Len(h2) = Len(recv[s]) + Len(hold[s])
    BY <1>4, <2>1, <2>2, WriteNumbers
  <2>4. recv'[s] = r2 /\ hold'[s] = h2
    BY <1>5
  <2> HIDE DEF r2, h2
  <2> QED
    BY <2>3, <2>4 DEF Opened
<1>8. Opened(p)' = Opened(p) /\ \A r \in Side : Ended(r)' <=> Ended(r)
  BY <1>2, <1>5 DEF Opened, Ended
<1>9. Numbered(s)' /\ Numbered(p)'
  BY <1>1, <1>2, <1>5, <1>6, <1>7, <1>8 DEF Numbered
<1>10. Continuous(s)' /\ Continuous(p)'
  BY <1>1, <1>2, <1>6, <1>7, <1>8, FlowSame DEF Flow, Written
<1>11. Aligned(s)' /\ Aligned(p)' /\ ServeFollows'
  BY <1>1, <1>2, <1>6 DEF Aligned, ServeFollows
<1>12. DoneIsFinal(s)' /\ DoneIsFinal(p)'
  BY <1>1, <1>2, <1>5, <1>6, <1>8 DEF DoneIsFinal
<1> QED
  BY <1>1, <1>9, <1>10, <1>11, <1>12 DEF StreamInv

LEMMA StreamToLocal ==
    ASSUME TypeOK, StreamInv, NEW s \in Side, ToLocalStep(s)
    PROVE  StreamInv'
<1>1. CASE OpenFails(s) \/ ReadEofInBody(s) \/ ReadErr(s) \/ LocalWriteErr(s)
  <2>1. phase[s] = "relay" /\ Fail(s)
    BY <1>1 DEF OpenFails, ReadEofInBody, ReadErr, LocalWriteErr, ToLocalReads
  <2> QED
    BY <2>1, StreamFail
<1> QED
  BY <1>1, StreamReadCell, StreamOpenFrame, StreamReadEof, StreamLocalWrite
     DEF ToLocalStep

LEMMA StreamStep == TypeOK /\ StreamInv /\ [Next]_vars => StreamInv'
<1> SUFFICES ASSUME TypeOK, StreamInv, [Next]_vars PROVE StreamInv'
  OBVIOUS
<1>1. CASE UNCHANGED vars
  <2>1. UNCHANGED <<taken, pend, flushed, buf, hold, recv, toLocal, wire,
                    phase>>
    BY <1>1 DEF vars, outVars, inVars, ctlVars
  <2> QED
    BY <2>1, StreamIdle DEF StreamInv, ServeFollows, Ended
<1>2. CASE Next
  BY <1>2, StreamConnect, StreamToAgg, StreamToLocal, StreamApp DEF Next
<1> QED
  BY <1>1, <1>2

\* What is under way always continues what has been opened (StreamInv).
THEOREM StreamCorrect == Spec => []StreamInv
  BY StreamInit, StreamStep, TypeInit, TypeStep, PTL DEF Spec

-----------------------------------------------------------------------------
(***************************************************************************)
(* The promises to the applications.                                       *)
(***************************************************************************)

LEMMA IntegrityFollows == TypeOK /\ StreamInv => Integrity
<1> SUFFICES ASSUME TypeOK, StreamInv, NEW s \in Side
             PROVE  /\ Len(recv[s]) <= sent[Peer(s)]
                    /\ \A i \in 1..Len(recv[s]) : recv[s][i] = i
  BY DEF Integrity
<1>1. Numbered(s) /\ Peer(s) \in Side
  BY Peers DEF StreamInv
<1>2. Opened(s) <= taken[Peer(s)] /\ taken[Peer(s)] <= sent[Peer(s)]
      /\ taken[Peer(s)] \in Nat /\ sent[Peer(s)] \in Nat
  BY <1>1 DEF TypeOK, Numbered
<1>3. Len(recv[s]) <= Opened(s) /\ Len(recv[s]) \in Nat /\ Opened(s) \in Nat
  <2>1. \A q, r \in Seq(Nat) : /\ Len(q) <= Len(q) + Len(r) /\ Len(q) \in Nat
                               /\ Len(q) + Len(r) \in Nat
    OBVIOUS
  <2> QED
    BY <2>1, FlowType DEF Opened
<1> QED
  BY <1>1, <1>2, <1>3 DEF Numbered

\* The bytes an application receives through the tunnel are a prefix of those
\* the other application sent (Integrity), for all sizes of chunks, frames and
\* buffers and under every failure the model has.
THEOREM TunnelIntegrity == Spec => []Integrity
  BY TypeCorrect, StreamCorrect, IntegrityFollows, PTL

LEMMA FramingFollows == TypeOK /\ StreamInv => FramingInSync
<1> SUFFICES ASSUME TypeOK, StreamInv, NEW s \in Side,
                    sameKey, Len(buf[s]) = FrameCells
             PROVE  buf[s] = Frame(buf[s][1].lo, buf[s][1].hi)
  BY DEF FramingInSync, Authentic
<1> DEFINE lo == buf[s][1].lo
           hi == buf[s][1].hi
<1>1. /\ buf[s] \in Seq(Cell)
      /\ \A i \in 1..FrameCells :
            buf[s][i] = [lo |-> lo, hi |-> hi, part |-> i]
  BY FlowType DEF StreamInv, Aligned
<1>2. FrameCells \in Nat
  BY BoundsAssumption DEF FrameCells
<1> HIDE DEF lo, hi
<1>3. buf[s] = [i \in 1..FrameCells |-> buf[s][i]]
  BY <1>1, <1>2
<1> QED
  BY <1>1, <1>2, <1>3 DEF Frame, lo, hi

\* Under one key no frame is ever rejected: the reader gathers exactly the
\* cells of one write_frame (FramingInSync).
THEOREM TunnelFraming == Spec => []FramingInSync
  BY TypeCorrect, StreamCorrect, FramingFollows, PTL

\* A relay that sees a clean end of stream has delivered every frame that its
\* peer wrote completely (CleanEof).
THEOREM TunnelCleanEof == Spec => []CleanEof
<1>1. StreamInv => CleanEof
  BY DEF StreamInv, DoneIsFinal, CleanEof
<1> QED
  BY <1>1, StreamCorrect, PTL

-----------------------------------------------------------------------------
(***************************************************************************)
(* What a relay that ends without an error has passed on.                  *)
(***************************************************************************)
LEMMA PassInit == Init => PassInv
<1> SUFFICES ASSUME Init, NEW s \in Side PROVE FlushedOrPending(s) /\ AllPassed(s)
  BY DEF PassInv
<1>1. pend[s] = <<>> /\ flushed[s] = 0 /\ taken[s] = 0 /\ toAgg[s] = "run"
  BY DEF Init
<1>2. Len(pend[s]) = 0
  BY <1>1, EmptySeq, Zenon
<1> QED
  BY <1>1, <1>2 DEF FlushedOrPending, AllPassed

\* A step that moves nothing out of s.
LEMMA PassSame ==
    ASSUME NEW s \in Side, FlushedOrPending(s), pend'[s] = pend[s],
           flushed'[s] = flushed[s], taken'[s] = taken[s], Ended(s) => Ended(s)'
    PROVE  FlushedOrPending(s)'
  BY Zenon DEF FlushedOrPending

LEMMA PassIdle ==
    ASSUME PassInv, UNCHANGED <<pend, flushed, taken>>,
           \A s \in Side : (Ended(s) => Ended(s)') /\ AllPassed(s)'
    PROVE  PassInv'
  BY PassSame DEF PassInv

\* A relay ends by an error or a crash.
LEMMA PassDrop ==
    ASSUME TypeOK, PassInv, NEW s \in Side, NEW end \in {"err", "dead"},
           phase' = [phase EXCEPT ![s] = end], pend' = [pend EXCEPT ![s] = <<>>],
           UNCHANGED <<flushed, taken, toAgg, sent, app>>
    PROVE  PassInv'
<1> SUFFICES ASSUME NEW r \in Side PROVE FlushedOrPending(r)' /\ AllPassed(r)'
  BY DEF PassInv
<1>1. FlushedOrPending(r) /\ AllPassed(r)
  BY DEF PassInv
<1>2. CASE r = s
  <2>1. phase'[s] = end /\ Ended(s)'
    BY DEF TypeOK, Ended
  <2> QED
    BY <1>2, <2>1 DEF FlushedOrPending, AllPassed
<1>3. CASE r # s
  <2>1. phase'[r] = phase[r] /\ pend'[r] = pend[r]
    BY <1>3 DEF TypeOK
  <2>2. Ended(r)' <=> Ended(r)
    BY <2>1 DEF Ended
  <2>3. FlushedOrPending(r)'
    BY <1>1, <2>1, <2>2, PassSame
  <2> QED
    BY <1>1, <2>1, <2>2, <2>3 DEF AllPassed
<1> QED
  BY <1>2, <1>3

LEMMA PassFail ==
    ASSUME TypeOK, PassInv, NEW s \in Side, Fail(s)
    PROVE  PassInv'
<1> DEFINE end == IF link = "down" THEN "dead" ELSE "err"
<1>1. end \in {"err", "dead"} /\ phase' = [phase EXCEPT ![s] = end]
  BY DEF Fail
<1> HIDE DEF end
<1> QED
  BY <1>1, PassDrop DEF Fail, appVars

LEMMA PassConnect ==
    ASSUME TypeOK, StreamInv, PassInv, Accept \/ DialStep \/ TargetStep \/ LinkLost
    PROVE  PassInv'
<1>1. CASE Accept \/ DialOk \/ TargetOk \/ LinkLost
  <2>1. UNCHANGED <<pend, flushed, taken, toAgg, sent>>
    BY <1>1 DEF Accept, DialOk, TargetOk, LinkLost, outVars, ctlVars, appVars
  <2>2. \A s \in Side : Ended(s) => Ended(s)'
    BY <1>1 DEF StreamInv, ServeFollows, TypeOK, Side, Ended, Accept, DialOk,
                TargetOk, LinkLost, ctlVars
  <2>3. ASSUME NEW s \in Side PROVE AllPassed(s)'
    <3>1. AllPassed(s)
      BY DEF PassInv
    <3>2. toAgg[s] = "done" => phase'[s] = phase[s] /\ app'[s] = app[s]
      BY <1>1, <3>1 DEF StreamInv, ServeFollows, AllPassed, TypeOK, Side, Accept, DialOk,
                        TargetOk, LinkLost, ctlVars, appVars
    <3> QED
      BY <2>1, <3>1, <3>2 DEF AllPassed, Ended
  <2> QED
    BY <2>1, <2>2, <2>3, PassIdle
<1>2. CASE DialFail
  BY <1>2, PassFail DEF DialFail, Side
<1>3. CASE TargetFail
  BY <1>3, PassFail DEF TargetFail, Side
<1> QED
  BY <1>1, <1>2, <1>3 DEF DialStep, TargetStep

LEMMA PassToAgg ==
    ASSUME TypeOK, PassInv, NEW s \in Side, ToAggStep(s)
    PROVE  PassInv'
<1>1. FlushedOrPending(s) /\ AllPassed(s) /\ taken[s] \in Nat /\ flushed[s] \in Nat
  BY DEF PassInv, TypeOK
<1>2. CASE LocalRead(s)
  <2>1. /\ phase[s] = "relay" /\ toAgg[s] = "run" /\ pend[s] = <<>>
        /\ UNCHANGED <<flushed, toAgg, phase, sent, app>>
    BY <1>2 DEF LocalRead, ToAggRuns, ctlVars, appVars
  <2>2. PICK n \in ReadSizes(s) :
           /\ taken' = [taken EXCEPT ![s] = @ + n]
           /\ pend' = [pend EXCEPT ![s] = Frame(taken[s] + 1, taken[s] + n)]
    BY <1>2 DEF LocalRead
  <2>3. n \in Nat \ {0}
    BY BoundsAssumption DEF ReadSizes
  <2> DEFINE f == Frame(taken[s] + 1, taken[s] + n)
  <2>4. /\ Len(f) = FrameCells /\ FrameCells \in Nat \ {0}
        /\ \A i \in 1..FrameCells :
              f[i] = [lo |-> taken[s] + 1, hi |-> taken[s] + n, part |-> i]
    <3>1. taken[s] + 1 \in Nat /\ taken[s] + n \in Nat
      BY <1>1, <2>3
    <3> QED
      BY <3>1, FrameType
  <2>5. taken'[s] = taken[s] + n /\ pend'[s] = f
    BY <2>2 DEF TypeOK
  <2>6. \A r \in Side : r # s => taken'[r] = taken[r] /\ pend'[r] = pend[r]
    BY <2>2 DEF TypeOK
  <2> HIDE DEF f
  <2>7. FlushedOrPending(s)'
    <3>1. flushed'[s] = taken[s]
      BY <1>1, <2>1 DEF FlushedOrPending, Ended
    <3>2. f # <<>> /\ \A i \in 1..Len(f) : f[i].hi = taken[s] + n
      BY <2>4, EmptySeq
    <3> QED
      BY <1>1, <2>3, <2>5, <3>1, <3>2 DEF FlushedOrPending
  <2>8. ASSUME NEW r \in Side, r # s PROVE FlushedOrPending(r)' /\ AllPassed(r)'
    <3>1. FlushedOrPending(r) /\ AllPassed(r)
      BY DEF PassInv
    <3>2. FlushedOrPending(r)'
      BY <2>1, <2>6, <2>8, <3>1, PassSame DEF Ended
    <3> QED
      BY <2>1, <2>6, <2>8, <3>1, <3>2 DEF AllPassed, Ended
  <2>9. AllPassed(s)'
    BY <2>1 DEF AllPassed
  <2> QED
    BY <2>7, <2>8, <2>9 DEF PassInv
<1>3. CASE SealFails(s)
  BY <1>3, PassFail DEF SealFails
<1>4. CASE LocalEof(s)
  <2>1. /\ phase[s] = "relay" /\ pend[s] = <<>> /\ app[s] \in {"shut", "closed"}
        /\ Avail(s) = 0 /\ toAgg' = [toAgg EXCEPT ![s] = "done"]
        /\ phase' = [phase EXCEPT ![s] = JoinOutcome(s, toLocal)]
        /\ UNCHANGED <<flushed, taken, pend, sent, app>>
    BY <1>4 DEF LocalEof, ToAggRuns, appVars, outVars
  <2>2. /\ toAgg'[s] = "done" /\ phase'[s] \in {"ok", "relay"}
        /\ \A r \in Side : r # s => toAgg'[r] = toAgg[r] /\ phase'[r] = phase[r]
    BY <2>1 DEF TypeOK, JoinOutcome
  <2>3. taken[s] = sent[s]
    <3>1. sent[s] \in Nat /\ sent[s] - taken[s] = 0
      BY <2>1 DEF TypeOK, Avail
    <3> QED
      BY <1>1, <3>1
  <2>4. AllPassed(s)'
    BY <2>1, <2>2, <2>3 DEF AllPassed
  <2>5. ASSUME NEW r \in Side PROVE (Ended(r) => Ended(r)') /\ AllPassed(r)'
    <3>1. CASE r = s
      BY <2>1, <2>4, <3>1 DEF Ended
    <3>2. CASE r # s
      <4>1. AllPassed(r)
        BY DEF PassInv
      <4> QED
        BY <2>1, <2>2, <3>2, <4>1 DEF AllPassed, Ended
    <3> QED
      BY <3>1, <3>2
  <2> QED
    BY <2>1, <2>5, PassIdle
<1>5. CASE LocalReadErr(s)
  BY <1>5, PassFail DEF LocalReadErr
<1>6. CASE WriteCell(s)
  <2>1. /\ phase[s] = "relay" /\ toAgg[s] = "run" /\ pend[s] # <<>>
        /\ pend' = [pend EXCEPT ![s] = Tail(@)]
        /\ flushed' = [flushed EXCEPT
                         ![s] = IF Len(pend[s]) = 1 THEN Head(pend[s]).hi ELSE @]
        /\ UNCHANGED <<taken, toAgg, phase, sent, app>>
    BY <1>6 DEF WriteCell, ToAggRuns, ctlVars, appVars
  <2> DEFINE q == pend[s]
             t == Tail(q)
  <2>2. /\ Len(q) \in Nat \ {0} /\ Len(t) = Len(q) - 1 /\ Head(q) = q[1]
        /\ t \in Seq(Cell) /\ \A i \in 1..(Len(q) - 1) : t[i] = q[i + 1]
    <3>1. q \in Seq(Cell)
      BY DEF TypeOK
    <3> QED
      BY <2>1, <3>1, MoveHead
  <2>3. /\ pend'[s] = t
        /\ flushed'[s] = IF Len(q) = 1 THEN Head(q).hi ELSE flushed[s]
        /\ \A r \in Side : r # s => pend'[r] = pend[r] /\ flushed'[r] = flushed[r]
    BY <2>1 DEF TypeOK
  <2>4. /\ flushed[s] < taken[s] /\ \A i \in 1..Len(q) : q[i].hi = taken[s]
    BY <1>1, <2>1 DEF FlushedOrPending, Ended
  <2> HIDE DEF q, t
  <2>5. Len(t) = 0 <=> t = <<>>
    BY <2>2, EmptySeq
  <2>6. \A i \in 1..Len(t) : t[i].hi = taken[s]
    <3> SUFFICES ASSUME NEW i \in 1..Len(t) PROVE t[i].hi = taken[s]
      OBVIOUS
    <3>1. i \in 1..(Len(q) - 1) /\ i + 1 \in 1..Len(q)
      BY <2>2
    <3> QED
      BY <2>2, <2>4, <3>1
  <2>7. FlushedOrPending(s)'
    <3>1. CASE Len(q) = 1
      <4>1. t = <<>> /\ Len(t) = 0
        BY <2>2, <2>5, <3>1
      <4>2. flushed'[s] = taken[s]
        BY <2>2, <2>3, <2>4, <3>1
      <4> QED
        BY <2>1, <2>3, <4>1, <4>2 DEF FlushedOrPending
    <3>2. CASE Len(q) # 1
      <4>1. t # <<>>
        BY <2>2, <2>5, <3>2
      <4> QED
        BY <2>1, <2>3, <2>4, <2>6, <3>2, <4>1, Zenon DEF FlushedOrPending
    <3> QED
      BY <3>1, <3>2
  <2>8. ASSUME NEW r \in Side, r # s PROVE FlushedOrPending(r)' /\ AllPassed(r)'
    <3>1. FlushedOrPending(r) /\ AllPassed(r)
      BY DEF PassInv
    <3>2. FlushedOrPending(r)'
      BY <2>1, <2>3, <2>8, <3>1, PassSame DEF Ended
    <3> QED
      BY <2>1, <2>3, <2>8, <3>1, <3>2 DEF AllPassed, Ended
  <2>9. AllPassed(s)'
    BY <2>1 DEF AllPassed
  <2> QED
    BY <2>7, <2>8, <2>9 DEF PassInv
<1>7. CASE WriteErr(s)
  BY <1>7, PassFail DEF WriteErr
<1> QED
  BY <1>2, <1>3, <1>4, <1>5, <1>6, <1>7 DEF ToAggStep

LEMMA PassToLocal ==
    ASSUME TypeOK, PassInv, NEW s \in Side, ToLocalStep(s)
    PROVE  PassInv'
<1>1. CASE ReadCell(s) \/ OpenFrame(s) \/ LocalWrite(s)
  <2>1. UNCHANGED <<pend, flushed, taken, toAgg, phase, sent>>
    BY <1>1 DEF ReadCell, OpenFrame, LocalWrite, outVars, ctlVars, appVars
  <2>2. \A r \in Side : app'[r] = app[r] \/ app'[r] = "reset"
    BY <1>1 DEF ReadCell, OpenFrame, LocalWrite, appVars, TypeOK
  <2>3. ASSUME NEW r \in Side PROVE (Ended(r) => Ended(r)') /\ AllPassed(r)'
    <3>1. AllPassed(r)
      BY DEF PassInv
    <3> QED
      BY <2>1, <2>2, <3>1 DEF AllPassed, Ended
  <2> QED
    BY <2>1, <2>3, PassIdle
<1>2. CASE ReadEof(s)
  <2>1. /\ phase[s] = "relay" /\ phase' = [phase EXCEPT ![s] = JoinOutcome(s, toAgg)]
        /\ UNCHANGED <<pend, flushed, taken, toAgg, sent, app>>
    BY <1>2 DEF ReadEof, ToLocalReads, outVars, appVars
  <2>2. /\ phase'[s] \in {"ok", "relay"}
        /\ \A r \in Side : r # s => phase'[r] = phase[r]
    BY <2>1 DEF TypeOK, JoinOutcome
  <2>3. ASSUME NEW r \in Side PROVE (Ended(r) => Ended(r)') /\ AllPassed(r)'
    <3>1. AllPassed(r)
      BY DEF PassInv
    <3>2. CASE r = s
      BY <2>1, <2>2, <3>1, <3>2 DEF AllPassed, Ended
    <3>3. CASE r # s
      BY <2>1, <2>2, <3>1, <3>3 DEF AllPassed, Ended
    <3> QED
      BY <3>2, <3>3
  <2> QED
    BY <2>1, <2>3, PassIdle
<1>3. CASE OpenFails(s) \/ ReadEofInBody(s) \/ ReadErr(s) \/ LocalWriteErr(s)
  BY <1>3, PassFail DEF OpenFails, ReadEofInBody, ReadErr, LocalWriteErr
<1> QED
  BY <1>1, <1>2, <1>3 DEF ToLocalStep

LEMMA PassApp ==
    ASSUME TypeOK, PassInv, NEW s \in Side,
           AppSend(s) \/ AppRead(s) \/ AppShut(s) \/ AppClose(s) \/ Crash(s)
    PROVE  PassInv'
<1>1. CASE AppSend(s) \/ AppRead(s) \/ AppShut(s) \/ AppClose(s)
  <2>1. UNCHANGED <<pend, flushed, taken, toAgg, phase>>
    BY <1>1 DEF AppSend, AppRead, AppShut, AppClose, outVars, ctlVars
  <2>2. app \in [Side -> {"none", "open", "shut", "closed", "reset"}]
        /\ sent \in [Side -> Nat]
    BY DEF TypeOK
  <2>3. \A r \in Side : app[r] \notin {"open", "none"} =>
                           sent'[r] = sent[r] /\ app'[r] \in {"shut", "closed", "reset"}
    <3>1. CASE AppSend(s)
      <4>1. app[s] = "open" /\ app' = app /\ sent' = [sent EXCEPT ![s] = @ + 1]
        BY <3>1 DEF AppSend
      <4> QED
        BY <2>2, <4>1
    <3>2. CASE AppRead(s)
      <4>1. app' = app /\ sent' = sent
        BY <3>2 DEF AppRead
      <4> QED
        BY <2>2, <4>1
    <3>3. CASE AppShut(s)
      <4>1. app' = [app EXCEPT ![s] = "shut"] /\ sent' = sent
        BY <3>3 DEF AppShut
      <4> QED
        BY <2>2, <4>1
    <3>4. CASE AppClose(s)
      <4>1. PICK how \in {"closed", "reset"} : app' = [app EXCEPT ![s] = how]
        BY <3>4 DEF AppClose
      <4>2. sent' = sent
        BY <3>4 DEF AppClose
      <4> QED
        BY <2>2, <4>1, <4>2
    <3> QED
      BY <1>1, <3>1, <3>2, <3>3, <3>4
  <2>4. ASSUME NEW r \in Side PROVE (Ended(r) => Ended(r)') /\ AllPassed(r)'
    <3>1. AllPassed(r)
      BY DEF PassInv
    <3> QED
      BY <2>1, <2>3, <3>1 DEF AllPassed, Ended
  <2> QED
    BY <2>1, <2>4, PassIdle
<1>2. CASE Crash(s)
  BY <1>2, PassDrop DEF Crash, appVars
<1> QED
  BY <1>1, <1>2

LEMMA PassStep == TypeOK /\ StreamInv /\ PassInv /\ [Next]_vars => PassInv'
<1> SUFFICES ASSUME TypeOK, StreamInv, PassInv, [Next]_vars PROVE PassInv'
  OBVIOUS
<1>1. CASE UNCHANGED vars
  <2>1. UNCHANGED <<pend, flushed, taken, toAgg, phase, sent, app>>
    BY <1>1 DEF vars, outVars, ctlVars, appVars
  <2>2. ASSUME NEW r \in Side PROVE (Ended(r) => Ended(r)') /\ AllPassed(r)'
    <3>1. AllPassed(r)
      BY DEF PassInv
    <3> QED
      BY <2>1, <3>1 DEF AllPassed, Ended
  <2> QED
    BY <2>1, <2>2, PassIdle
<1>2. CASE Next
  BY <1>2, PassConnect, PassToAgg, PassToLocal, PassApp DEF Next
<1> QED
  BY <1>1, <1>2

-----------------------------------------------------------------------------
(***************************************************************************)
(* The tunnel implements the byte pipe.                                    *)
(***************************************************************************)

\* A set of numbers that is not empty has a least element.
LEMMA Least ==
    ASSUME NEW T, T \subseteq Nat, T # {}
    PROVE  \E x \in T : \A y \in T : x <= y
<1> DEFINE R == {ss \in Nat \X Nat : ss[1] < ss[2]}
<1>1. R = OpToRel(<, Nat)
  BY Zenon DEF OpToRel
<1>2. IsWellFoundedOn(R, Nat)
  BY <1>1, NatLessThanWellFounded, Zenon
<1>3. \A x, y \in Nat : <<y, x>> \notin R => x <= y
  OBVIOUS
<1> HIDE DEF R
<1>4. \E x \in T : \A y \in T : ~ (<<y, x>> \in R)
  BY <1>2, WFMin
<1> QED
  BY <1>3, <1>4

\* Every cell of a run is of a frame that starts after its start.
LEMMA ChainStarts ==
    ASSUME NEW q \in Seq(Cell), NEW start \in Nat, NEW top \in Nat,
           Chained(q, start, top)
    PROVE  \A i \in 1..Len(q) : q[i].lo >= start + 1
<1> DEFINE T == {i \in 1..Len(q) : ~(q[i].lo >= start + 1)}
<1>1. Len(q) \in Nat
  OBVIOUS
<1>2. \A i \in 1..Len(q) : q[i].lo \in Nat /\ q[i].hi \in Nat
  <2> TAKE i \in 1..Len(q)
  <2>1. q[i] \in Cell
    BY ElementOfSeq
  <2> QED
    BY <2>1 DEF Cell
<1>3. T = {}
  <2> SUFFICES ASSUME T # {} PROVE FALSE
    OBVIOUS
  <2>1. T \subseteq Nat
    BY <1>1
  <2>2. PICK i \in T : \A j \in T : i <= j
    BY <2>1, Least
  <2>3. i \in 1..Len(q) /\ ~(q[i].lo >= start + 1)
    BY <2>2
  <2>4. q # <<>> /\ q[1].lo = start + 1
    <3>1. q # <<>>
      BY <2>3, EmptySeq
    <3> QED
      BY <3>1 DEF Chained
  <2>5. i # 1
    BY <2>3, <2>4
  <2>6. i - 1 \in 1..(Len(q) - 1) /\ (i - 1) + 1 = i /\ i - 1 \in 1..Len(q)
        /\ ~(i <= i - 1)
    BY <1>1, <2>3, <2>5
  <2>7. i - 1 \notin T
    BY <2>2, <2>6
  <2>8. q[i - 1].lo >= start + 1
    BY <2>6, <2>7
  <2>9. Follows(q[i - 1], q[i])
    BY <2>6 DEF Chained
  <2>10. q[i - 1].lo <= q[i - 1].hi
    BY <2>6 DEF Chained
  <2>11. q[i].lo >= q[i - 1].lo
    BY SMTT(30), <1>2, <2>3, <2>6, <2>9, <2>10 DEF Follows
  <2> QED
    BY <1>2, <2>3, <2>6, <2>8, <2>11
<1> QED
  BY <1>3

\* The frames that are complete in a run end after its start.
LEMMA LastAfterStart ==
    ASSUME NEW q \in Seq(Cell), NEW start \in Nat, NEW top \in Nat,
           Chained(q, start, top)
    PROVE  LastByte(q, start) >= start
<1>1. CASE q = <<>>
  BY <1>1 DEF LastByte
<1>2. CASE q # <<>>
  <2>1. Len(q) \in 1..Len(q)
    BY <1>2, EmptySeq
  <2>2. q[Len(q)] \in Cell
    BY <2>1, ElementOfSeq
  <2>3. q[Len(q)].lo \in Nat /\ q[Len(q)].hi \in Nat
    BY <2>2 DEF Cell
  <2>4. q[Len(q)].lo >= start + 1 /\ q[Len(q)].lo <= q[Len(q)].hi
    BY <2>1, ChainStarts DEF Chained
  <2> QED
    BY <1>2, <2>3, <2>4 DEF LastByte
<1> QED
  BY <1>1, <1>2

\* A relay that goes on has opened nothing but frames written completely.
LEMMA OpenedFlushed ==
    ASSUME TypeOK, StreamInv, NEW s \in Side, ~Ended(s)
    PROVE  Opened(s) <= flushed[Peer(s)]
<1> DEFINE p == Peer(s)
<1>1. p \in Side /\ Peer(p) = s
  BY Peers
<1>2. /\ Chained(Flow(p), Opened(s), taken[p])
      /\ flushed[p] = LastByte(Written(p), Opened(s))
  <2>1. Continuous(p)
    BY <1>1 DEF StreamInv
  <2> QED
    BY <1>1, <2>1 DEF Continuous
<1>3. /\ Written(p) \in Seq(Cell) /\ pend[p] \in Seq(Cell) /\ Opened(s) \in Nat
      /\ taken[p] \in Nat
  BY <1>1, FlowType
<1>4. Chained(Written(p), Opened(s), taken[p])
  BY <1>2, <1>3, ChainPrefix DEF Flow
<1>5. LastByte(Written(p), Opened(s)) >= Opened(s)
  BY <1>3, <1>4, LastAfterStart
<1>6. flushed[p] \in Nat
  BY <1>1 DEF TypeOK
<1> QED
  BY <1>2, <1>3, <1>5, <1>6

\* The status of each side.
LEMMA StatusIs ==
    /\ PipeStatus = [s \in Side |-> PipeStatus[s]]
    /\ \A s \in Side :
          /\ PipeStatus[s] = "live" <=> ~Ended(s)
          /\ phase[s] = "ok" => PipeStatus[s] = "finished"
          /\ phase[s] \in {"err", "dead"} => PipeStatus[s] = "broken"
  BY DEF PipeStatus, Ended

LEMMA StatusIsNext ==
    /\ PipeStatus' = [s \in Side |-> PipeStatus'[s]]
    /\ \A s \in Side :
          /\ PipeStatus'[s] = "live" <=> ~Ended(s)'
          /\ phase'[s] = "ok" => PipeStatus'[s] = "finished"
          /\ phase'[s] \in {"err", "dead"} => PipeStatus'[s] = "broken"
          /\ phase'[s] = phase[s] => PipeStatus'[s] = PipeStatus[s]
  BY DEF PipeStatus, Ended

\* Phases that change, but not to an end.
LEMMA StatusSame ==
    ASSUME \A s \in Side : phase'[s] = phase[s] \/ (~Ended(s) /\ ~Ended(s)')
    PROVE  PipeStatus' = PipeStatus
<1>1. \A s \in Side : PipeStatus'[s] = PipeStatus[s]
  BY StatusIs, StatusIsNext
<1> QED
  BY <1>1, StatusIs, StatusIsNext, Zenon

\* A relay that ends.
LEMMA StatusEnds ==
    ASSUME TypeOK, NEW s \in Side, NEW end, phase' = [phase EXCEPT ![s] = end]
    PROVE  /\ end = "ok" => PipeStatus' = [PipeStatus EXCEPT ![s] = "finished"]
           /\ end \in {"err", "dead"} =>
                PipeStatus' = [PipeStatus EXCEPT ![s] = "broken"]
<1>1. phase'[s] = end /\ \A r \in Side : r # s => phase'[r] = phase[r]
  BY DEF TypeOK
<1>2. \A r \in Side : r # s => PipeStatus'[r] = PipeStatus[r]
  BY <1>1, StatusIsNext
<1>3. /\ end = "ok" => PipeStatus'[s] = "finished"
      /\ end \in {"err", "dead"} => PipeStatus'[s] = "broken"
  BY <1>1, StatusIsNext
<1> DEFINE f == PipeStatus
           g == PipeStatus'
<1>4. f = [r \in Side |-> f[r]] /\ g = [r \in Side |-> g[r]]
  BY StatusIs, StatusIsNext
<1>5. \A r \in Side : r # s => g[r] = f[r]
  BY <1>2
<1> HIDE DEF f, g
<1>6. \A v : g[s] = v => g = [f EXCEPT ![s] = v]
  BY <1>4, <1>5
<1> QED
  BY <1>3, <1>6 DEF f, g

LEMMA PipeInit == Init => Pipe!Init
<1> SUFFICES ASSUME Init PROVE Pipe!Init
  OBVIOUS
<1>1. \A s \in Side : PipeStatus[s] = "live"
  BY StatusIs DEF Init, Ended
<1>2. PipeStatus = [s \in Side |-> "live"]
  BY <1>1, StatusIs, Zenon
<1> QED
  BY <1>2 DEF Init, Pipe!Init

\* A step that the byte pipe does not see.
LEMMA PipeIdle ==
    ASSUME UNCHANGED <<sent, flushed, recv>>,
           \A s \in Side : phase'[s] = phase[s] \/ (~Ended(s) /\ ~Ended(s)')
    PROVE  UNCHANGED Pipe!pipeVars
  BY StatusSame DEF Pipe!pipeVars

\* A relay that ends by an error or a crash breaks the pipe at its side.
LEMMA PipeBreak ==
    ASSUME TypeOK, NEW s \in Side, ~Ended(s), NEW end \in {"err", "dead"},
           phase' = [phase EXCEPT ![s] = end],
           UNCHANGED <<sent, flushed, recv>>
    PROVE  Pipe!Next
<1>1. PipeStatus[s] = "live"
  BY StatusIs
<1>2. PipeStatus' = [PipeStatus EXCEPT ![s] = "broken"]
  BY StatusEnds
<1>3. Pipe!Break(s)
  BY <1>1, <1>2 DEF Pipe!Break
<1> QED
  BY <1>3 DEF Pipe!Next

LEMMA PipeFail ==
    ASSUME TypeOK, NEW s \in Side, ~Ended(s), Fail(s)
    PROVE  Pipe!Next
<1> DEFINE end == IF link = "down" THEN "dead" ELSE "err"
<1>1. end \in {"err", "dead"} /\ phase' = [phase EXCEPT ![s] = end]
  BY DEF Fail
<1> HIDE DEF end
<1> QED
  BY <1>1, PipeBreak DEF Fail, appVars

\* A relay whose two halves are done has finished: it has passed on what it was
\* given, and has received what its peer passed.
LEMMA PipeFinish ==
    ASSUME TypeOK, TypeOK', StreamInv', PassInv', NEW s \in Side,
           ~Ended(s), phase' = [phase EXCEPT ![s] = "ok"],
           FlushedOrPending(s), pend[s] = <<>>, taken[s] = sent[s],
           toLocal'[s] = "done", UNCHANGED <<sent, flushed, recv>>
    PROVE  Pipe!Next
<1> DEFINE p == Peer(s)
<1>1. p \in Side /\ p # s
  BY Peers
<1>2. PipeStatus[s] = "live"
  BY StatusIs
<1>3. PipeStatus' = [PipeStatus EXCEPT ![s] = "finished"]
  BY StatusEnds
<1>4. flushed[s] = sent[s]
  BY DEF FlushedOrPending
<1>5. DoneIsFinal(s)'
  BY DEF StreamInv
<1>6. Ended(p)' /\ Len(recv[s]) = flushed[p]
  BY <1>5 DEF DoneIsFinal
<1>7. phase'[p] = phase[p]
  BY <1>1 DEF TypeOK
<1>8. Ended(p)
  BY <1>6, <1>7 DEF Ended
<1>9. PipeStatus[p] # "live"
  BY <1>1, <1>8, StatusIs
<1>10. Pipe!Finish(s)
  BY <1>2, <1>3, <1>4, <1>6, <1>9 DEF Pipe!Finish
<1> QED
  BY <1>10 DEF Pipe!Next

LEMMA PipeConnect ==
    ASSUME TypeOK, StreamInv, Accept \/ DialStep \/ TargetStep \/ LinkLost
    PROVE  [Pipe!Next]_Pipe!pipeVars
<1>1. CASE Accept \/ DialOk \/ TargetOk \/ LinkLost
  <2>1. UNCHANGED <<sent, flushed, recv>>
    BY <1>1 DEF Accept, DialOk, TargetOk, LinkLost, outVars, inVars, appVars
  <2>2. \A s \in Side : phase'[s] = phase[s] \/ (~Ended(s) /\ ~Ended(s)')
    BY <1>1 DEF StreamInv, ServeFollows, TypeOK, Side, Ended, Accept, DialOk,
                TargetOk, LinkLost, ctlVars
  <2> QED
    BY <2>1, <2>2, PipeIdle
<1>2. CASE DialFail
  BY <1>2, PipeFail DEF DialFail, Side, Ended
<1>3. CASE TargetFail
  BY <1>3, PipeFail DEF TargetFail, Side, Ended
<1> QED
  BY <1>1, <1>2, <1>3 DEF DialStep, TargetStep

LEMMA PipeToAgg ==
    ASSUME TypeOK, TypeOK', PassInv, StreamInv', PassInv',
           NEW s \in Side, ToAggStep(s)
    PROVE  [Pipe!Next]_Pipe!pipeVars
<1>1. FlushedOrPending(s) /\ taken[s] \in Nat /\ flushed[s] \in Nat
      /\ sent[s] \in Nat /\ taken[s] <= sent[s]
  BY DEF PassInv, TypeOK
<1>2. phase[s] = "relay" /\ ~Ended(s)
  BY DEF ToAggStep, LocalRead, SealFails, LocalEof, LocalReadErr, WriteCell,
         WriteErr, ToAggRuns, Ended
<1>3. CASE LocalRead(s)
  <2>1. UNCHANGED <<sent, flushed, recv, phase>>
    BY <1>3 DEF LocalRead, appVars, inVars, ctlVars
  <2> QED
    BY <2>1, PipeIdle
<1>4. CASE SealFails(s) \/ LocalReadErr(s) \/ WriteErr(s)
  <2>1. Fail(s)
    BY <1>4 DEF SealFails, LocalReadErr, WriteErr
  <2> QED
    BY <1>2, <2>1, PipeFail
<1>5. CASE LocalEof(s)
  <2>1. /\ pend[s] = <<>> /\ Avail(s) = 0
        /\ phase' = [phase EXCEPT ![s] = JoinOutcome(s, toLocal)]
        /\ UNCHANGED <<sent, flushed, recv, toLocal>>
    BY <1>5 DEF LocalEof, appVars, outVars, inVars
  <2>2. taken[s] = sent[s]
    <3>1. sent[s] - taken[s] = 0
      BY <2>1 DEF Avail
    <3> QED
      BY <1>1, <3>1
  <2>3. CASE toLocal[s] = "done"
    <3>1. phase' = [phase EXCEPT ![s] = "ok"] /\ toLocal'[s] = "done"
      BY <2>1, <2>3 DEF JoinOutcome
    <3> QED
      BY <1>1, <1>2, <2>1, <2>2, <3>1, PipeFinish
  <2>4. CASE toLocal[s] # "done"
    <3>1. \A r \in Side : phase'[r] = phase[r]
      BY <2>1, <2>4 DEF JoinOutcome, TypeOK
    <3> QED
      BY <2>1, <3>1, PipeIdle
  <2> QED
    BY <2>3, <2>4
<1>6. CASE WriteCell(s)
  <2>1. /\ pend[s] # <<>> /\ UNCHANGED <<sent, recv, phase>>
        /\ flushed' = [flushed EXCEPT
                         ![s] = IF Len(pend[s]) = 1 THEN Head(pend[s]).hi ELSE @]
    BY <1>6 DEF WriteCell, appVars, inVars, ctlVars
  <2>2. PipeStatus' = PipeStatus
    BY <2>1, StatusSame
  <2>3. CASE Len(pend[s]) = 1
    <3>1. pend[s] \in Seq(Cell)
      BY DEF TypeOK
    <3>2. Head(pend[s]) = pend[s][1] /\ 1 \in 1..Len(pend[s])
      BY <2>1, <2>3, <3>1
    <3>3. flushed[s] < taken[s] /\ Head(pend[s]).hi = taken[s]
      BY <1>1, <1>2, <2>1, <3>2 DEF FlushedOrPending
    <3>4. taken[s] \in (flushed[s] + 1)..sent[s]
      BY <1>1, <3>3
    <3>5. flushed' = [flushed EXCEPT ![s] = taken[s]]
      BY <2>1, <2>3, <3>3
    <3>6. PipeStatus[s] = "live"
      BY <1>2, StatusIs
    <3>7. Pipe!Pass(s)
      BY <2>1, <2>2, <3>4, <3>5, <3>6 DEF Pipe!Pass
    <3> QED
      BY <3>7 DEF Pipe!Next
  <2>4. CASE Len(pend[s]) # 1
    <3>1. flushed' = flushed
      BY <2>1, <2>4 DEF TypeOK
    <3> QED
      BY <2>1, <3>1, PipeIdle
  <2> QED
    BY <2>3, <2>4
<1> QED
  BY <1>3, <1>4, <1>5, <1>6 DEF ToAggStep

\* The first bytes that to_local holds are the next ones that the socket awaits.
LEMMA NextBytes ==
    ASSUME NEW h \in Seq(Nat), NEW l \in Nat, NEW n \in 1..Len(h),
           \A i \in 1..Len(h) : h[i] = l + i
    PROVE  SubSeq(h, 1, n) = [i \in 1..n |-> l + i]
<1>1. n \in Nat /\ n <= Len(h) /\ Len(h) \in Nat
  OBVIOUS
<1>2. SubSeq(h, 1, n) = [i \in 1..n |-> h[i]]
  BY <1>1
<1>3. \A i \in 1..n : h[i] = l + i
  BY <1>1
<1> QED
  BY <1>2, <1>3

LEMMA PipeLocalWrite ==
    ASSUME TypeOK, StreamInv, NEW s \in Side, LocalWrite(s)
    PROVE  Pipe!Next
<1> DEFINE p == Peer(s)
           l == Len(recv[s])
<1>1. /\ phase[s] = "relay" /\ UNCHANGED <<sent, flushed, phase>>
  BY DEF LocalWrite, outVars, ctlVars
<1>2. PICK n \in WriteSizes(s) :
         recv' = [recv EXCEPT ![s] = @ \o SubSeq(hold[s], 1, n)]
  BY DEF LocalWrite
<1>3. n \in 1..Len(hold[s])
  BY <1>2 DEF WriteSizes
<1>4. hold[s] \in Seq(Nat) /\ l \in Nat /\ Len(hold[s]) \in Nat
  <2>1. hold[s] \in Seq(Nat) /\ recv[s] \in Seq(Nat)
    BY FlowType
  <2> QED
    BY <2>1
<1>5. \A i \in 1..Len(hold[s]) : hold[s][i] = l + i
  BY DEF StreamInv, Numbered
<1>6. SubSeq(hold[s], 1, n) = [i \in 1..n |-> l + i]
  BY <1>3, <1>4, <1>5, NextBytes
<1>7. l + Len(hold[s]) <= flushed[p] /\ flushed[p] \in Nat
  BY <1>1, OpenedFlushed, Peers DEF Ended, Opened, TypeOK
<1>8. n \in 1..(flushed[p] - l)
  <2> DEFINE f == flushed[p]
             m == Len(hold[s])
  <2>1. n \in 1..m /\ m \in Nat /\ l \in Nat /\ f \in Nat /\ l + m <= f
    BY <1>3, <1>4, <1>7
  <2> HIDE DEF f, m, l
  <2>2. n \in 1..(f - l)
    BY <2>1
  <2> QED
    BY <2>2 DEF f
<1>9. PipeStatus[s] = "live" /\ PipeStatus' = PipeStatus
  BY <1>1, StatusIs, StatusSame DEF Ended
<1>10. recv' = [recv EXCEPT ![s] = @ \o [i \in 1..n |-> Len(@) + i]]
  BY <1>2, <1>6
<1>11. Pipe!Deliver(s)
  BY <1>1, <1>8, <1>9, <1>10 DEF Pipe!Deliver
<1> QED
  BY <1>11 DEF Pipe!Next

LEMMA PipeToLocal ==
    ASSUME TypeOK, TypeOK', StreamInv, PassInv, StreamInv', PassInv',
           NEW s \in Side, ToLocalStep(s)
    PROVE  [Pipe!Next]_Pipe!pipeVars
<1>1. phase[s] = "relay" /\ ~Ended(s)
  BY DEF ToLocalStep, ReadCell, OpenFrame, OpenFails, ReadEof, ReadEofInBody,
         ReadErr, LocalWrite, LocalWriteErr, ToLocalReads, Ended
<1>2. CASE ReadCell(s) \/ OpenFrame(s)
  <2>1. UNCHANGED <<sent, flushed, recv, phase>>
    BY <1>2 DEF ReadCell, OpenFrame, appVars, outVars, ctlVars
  <2> QED
    BY <2>1, PipeIdle
<1>3. CASE OpenFails(s) \/ ReadEofInBody(s) \/ ReadErr(s) \/ LocalWriteErr(s)
  <2>1. Fail(s)
    BY <1>3 DEF OpenFails, ReadEofInBody, ReadErr, LocalWriteErr
  <2> QED
    BY <1>1, <2>1, PipeFail
<1>4. CASE ReadEof(s)
  <2>1. /\ toLocal' = [toLocal EXCEPT ![s] = "done"]
        /\ phase' = [phase EXCEPT ![s] = JoinOutcome(s, toAgg)]
        /\ UNCHANGED <<sent, flushed, recv>>
    BY <1>4 DEF ReadEof, appVars, outVars, inVars
  <2>2. CASE toAgg[s] = "done"
    <3>1. phase' = [phase EXCEPT ![s] = "ok"]
      BY <2>1, <2>2 DEF JoinOutcome
    <3>2. pend[s] = <<>> /\ taken[s] = sent[s] /\ FlushedOrPending(s)
      BY <1>1, <2>2 DEF PassInv, AllPassed
    <3>3. toLocal'[s] = "done"
      BY <2>1 DEF TypeOK
    <3> QED
      BY <1>1, <2>1, <3>1, <3>2, <3>3, PipeFinish
  <2>3. CASE toAgg[s] # "done"
    <3>1. \A r \in Side : phase'[r] = phase[r]
      BY <2>1, <2>3 DEF JoinOutcome, TypeOK
    <3> QED
      BY <2>1, <3>1, PipeIdle
  <2> QED
    BY <2>2, <2>3
<1>5. CASE LocalWrite(s)
  BY <1>5, PipeLocalWrite
<1> QED
  BY <1>2, <1>3, <1>4, <1>5 DEF ToLocalStep

LEMMA PipeApp ==
    ASSUME TypeOK, NEW s \in Side,
           AppSend(s) \/ AppRead(s) \/ AppShut(s) \/ AppClose(s) \/ Crash(s)
    PROVE  [Pipe!Next]_Pipe!pipeVars
<1>1. CASE AppSend(s)
  <2>1. /\ ~Ended(s) /\ sent' = [sent EXCEPT ![s] = @ + 1]
        /\ UNCHANGED <<flushed, recv, phase>>
    BY <1>1 DEF AppSend, outVars, inVars, ctlVars
  <2>2. PipeStatus[s] = "live" /\ PipeStatus' = PipeStatus
    BY <2>1, StatusIs, StatusSame
  <2>3. Pipe!Give(s)
    BY <2>1, <2>2 DEF Pipe!Give
  <2> QED
    BY <2>3 DEF Pipe!Next
<1>2. CASE AppRead(s) \/ AppShut(s) \/ AppClose(s)
  <2>1. UNCHANGED <<sent, flushed, recv, phase>>
    BY <1>2 DEF AppRead, AppShut, AppClose, outVars, inVars, ctlVars
  <2> QED
    BY <2>1, PipeIdle
<1>3. CASE Crash(s)
  <2>1. /\ ~Ended(s) /\ phase' = [phase EXCEPT ![s] = "dead"]
        /\ UNCHANGED <<sent, flushed, recv>>
    BY <1>3 DEF Crash, appVars, Ended
  <2> QED
    BY <2>1, PipeBreak
<1> QED
  BY <1>1, <1>2, <1>3

\* Every step of the tunnel is a step of the byte pipe, or none.
LEMMA PipeStep ==
    TypeOK /\ StreamInv /\ PassInv /\ [Next]_vars => [Pipe!Next]_Pipe!pipeVars
<1> SUFFICES ASSUME TypeOK, StreamInv, PassInv, [Next]_vars
             PROVE  [Pipe!Next]_Pipe!pipeVars
  OBVIOUS
<1>1. TypeOK' /\ StreamInv' /\ PassInv'
  BY TypeStep, StreamStep, PassStep
<1>2. CASE UNCHANGED vars
  <2>1. UNCHANGED <<sent, flushed, recv, phase>>
    BY <1>2 DEF vars, appVars, outVars, inVars, ctlVars
  <2> QED
    BY <2>1, PipeIdle
<1>3. CASE Next
  BY <1>1, <1>3, PipeConnect, PipeToAgg, PipeToLocal, PipeApp DEF Next
<1> QED
  BY <1>2, <1>3

\* For every amount of data and every size of chunks, frames and buffers, the
\* tunnel (relay, its two halves and the errors that cut them short) implements
\* the abstract byte pipe (PipeSpec): what is delivered never runs ahead of the
\* frames written completely, and a relay that returns Ok has passed on all it
\* was given and has received all that its peer passed.
THEOREM TunnelPipe == Spec => PipeSpec
<1>1. Spec => [](TypeOK /\ StreamInv)
  BY TypeCorrect, StreamCorrect, PTL
<1>2. Spec => []PassInv
  BY <1>1, PassInit, PassStep, PTL DEF Spec
<1> QED
  BY <1>1, <1>2, PipeInit, PipeStep, PTL DEF Spec, PipeSpec, Pipe!Spec
=============================================================================
