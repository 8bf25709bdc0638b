-------------------------- MODULE PacketPathProofs --------------------------
(***************************************************************************)
(* Proofs about PacketPath, for any set of connections and any capacity:   *)
(* no packet comes out twice, and each connection keeps the order.         *)
(***************************************************************************)
EXTENDS PacketPath, SequenceTheorems, TLAPS

Ascending(q) == \A i, j \in 1..Len(q) : i < j => q[i] < q[j]

PathTypes ==
    /\ made \in [Side -> Nat]
    /\ queue \in [Side -> Seq(Nat)]
    /\ line \in [Line -> Seq(Nat)]
    /\ out \in [Side -> Seq(Nat \X Conn)]

\* Packets are in front of the path in the order of their numbers, and behind
\* everything that a connection has taken.
QueueAhead ==
    \A s \in Side :
        /\ Ascending(queue[s])
        /\ \A p \in Numbers(queue[s]) :
              /\ p \in 0..made[s]
              /\ \A l \in Line : l[1] = s => \A q \in Carried(l) : q < p

\* A packet is taken by one connection.
TakenOnce ==
    \A l \in Line : \A p \in Carried(l) :
        /\ p \in 0..made[l[1]]
        /\ \A m \in Line : m[1] = l[1] /\ p \in Carried(m) => m = l

\* A connection carries packets in order, behind those that have come out.
LineInOrder ==
    \A l \in Line :
        /\ Ascending(line[l])
        /\ \A p \in Delivered(l), q \in Numbers(line[l]) : p < q

PathInv ==
    /\ PathTypes
    /\ QueueAhead
    /\ TakenOnce
    /\ LineInOrder
    /\ OrderedOut

-----------------------------------------------------------------------------
(***************************************************************************)
(* Lemmas about sequences of numbers.                                      *)
(***************************************************************************)

\* The first of an ascending sequence is less than the others.
LEMMA AscendingTail ==
    ASSUME NEW q \in Seq(Nat), q # <<>>, Ascending(q)
    PROVE  /\ Tail(q) \in Seq(Nat) /\ Head(q) \in Nat
           /\ Ascending(Tail(q))
           /\ \A p \in Numbers(Tail(q)) : Head(q) < p
           /\ Numbers(q) = Numbers(Tail(q)) \cup {Head(q)}
<1>1. /\ Tail(q) \in Seq(Nat) /\ Head(q) \in Nat
      /\ Len(q) \in Nat \ {0} /\ Len(Tail(q)) = Len(q) - 1
      /\ \A i \in 1..Len(Tail(q)) : Tail(q)[i] = q[i + 1]
      /\ \A i \in 1..Len(q) : q[i] \in Nat
  BY HeadTailProperties, LenProperties, EmptySeq, ElementOfSeq
<1>2. Head(q) = q[1]
  BY <1>1
<1>3. Ascending(Tail(q))
  BY <1>1 DEF Ascending
<1>4. \A p \in Numbers(Tail(q)) : Head(q) < p
  BY <1>1, <1>2 DEF Ascending, Numbers
<1>5. ASSUME NEW p \in Numbers(q) PROVE p \in Numbers(Tail(q)) \cup {Head(q)}
  <2>1. PICK i \in 1..Len(q) : p = q[i]
    BY DEF Numbers
  <2>2. CASE i = 1
    BY <2>1, <2>2, <1>2
  <2>3. CASE i # 1
    <3>1. i - 1 \in 1..Len(Tail(q)) /\ Tail(q)[i - 1] = q[i]
      BY <1>1, <2>3
    <3> QED
      BY <2>1, <3>1 DEF Numbers
  <2> QED
    BY <2>2, <2>3
<1>6. Numbers(Tail(q)) \cup {Head(q)} \subseteq Numbers(q)
  <2>1. \A i \in 1..Len(Tail(q)) : i + 1 \in 1..Len(q)
    BY <1>1
  <2>2. 1 \in 1..Len(q)
    BY <1>1
  <2> QED
    BY <1>1, <1>2, <2>1, <2>2 DEF Numbers
<1> QED
  BY <1>1, <1>3, <1>4, <1>5, <1>6

\* A number above all others extends an ascending sequence.
LEMMA AscendingAppend ==
    ASSUME NEW q \in Seq(Nat), NEW n \in Nat, Ascending(q),
           \A p \in Numbers(q) : p < n
    PROVE  /\ Append(q, n) \in Seq(Nat)
           /\ Ascending(Append(q, n))
           /\ Numbers(Append(q, n)) = Numbers(q) \cup {n}
<1> DEFINE a == Append(q, n)
<1>1. /\ a \in Seq(Nat) /\ Len(q) \in Nat /\ Len(a) = Len(q) + 1
      /\ \A i \in 1..Len(q) : a[i] = q[i]
      /\ a[Len(q) + 1] = n
      /\ \A i \in 1..Len(q) : q[i] \in Nat
  BY AppendProperties, LenProperties, ElementOfSeq
<1>2. \A i \in 1..Len(q) : q[i] < n
  BY DEF Numbers
<1>3. Numbers(a) = Numbers(q) \cup {n}
  <2>1. 1..Len(a) = 1..Len(q) \cup {Len(q) + 1}
    BY <1>1
  <2> QED
    BY <1>1, <2>1 DEF Numbers
<1>4. Ascending(a)
  <2> HIDE DEF a
  <2> SUFFICES ASSUME NEW i \in 1..Len(a), NEW j \in 1..Len(a), i < j
               PROVE  a[i] < a[j]
    BY DEF Ascending
  <2>1. i \in 1..Len(q)
    BY <1>1
  <2>2. CASE j \in 1..Len(q)
    BY <1>1, <2>1, <2>2 DEF Ascending
  <2>3. CASE j = Len(q) + 1
    BY <1>1, <1>2, <2>1, <2>3
  <2> QED
    BY <1>1, <2>2, <2>3
<1> QED
  BY <1>1, <1>3, <1>4

\* What is left of an ascending sequence is ascending.
LEMMA AscendingLeft ==
    ASSUME NEW q \in Seq(Nat), NEW t \in Seq(Nat), Ascending(q), LeftOf(t, q)
    PROVE  Ascending(t) /\ Numbers(t) \subseteq Numbers(q)
<1>1. PICK place \in [1..Len(t) -> 1..Len(q)] :
         \A i \in 1..Len(t) : /\ t[i] = q[place[i]]
                              /\ \A j \in 1..(i - 1) : place[j] < place[i]
  BY DEF LeftOf
<1>2. Len(t) \in Nat /\ Len(q) \in Nat
  BY LenProperties
<1>3. Ascending(t)
  <2> SUFFICES ASSUME NEW i \in 1..Len(t), NEW j \in 1..Len(t), i < j
               PROVE  t[i] < t[j]
    BY DEF Ascending
  <2>1. i \in 1..(j - 1)
    BY <1>2
  <2>2. place[i] < place[j] /\ place[i] \in 1..Len(q) /\ place[j] \in 1..Len(q)
    BY <1>1, <2>1
  <2> QED
    BY <1>1, <2>2 DEF Ascending
<1>4. Numbers(t) \subseteq Numbers(q)
  <2>1. \A i \in 1..Len(t) : place[i] \in 1..Len(q) /\ t[i] = q[place[i]]
    BY <1>1
  <2> SUFFICES ASSUME NEW x \in Numbers(t) PROVE x \in Numbers(q)
    OBVIOUS
  <2>2. PICK i \in 1..Len(t) : t[i] = x
    BY DEF Numbers
  <2>3. place[i] \in 1..Len(q) /\ q[place[i]] = x
    BY <2>1, <2>2
  <2> QED
    BY <2>3, Zenon DEF Numbers
<1> QED
  BY <1>3, <1>4

\* One more packet has come out, by connection m.
LEMMA OutByAppend ==
    ASSUME NEW S, NEW came \in Seq(S), NEW e \in S, NEW k
    PROVE  \A x : x \in OutBy(Append(came, e), k)
                     <=> x \in OutBy(came, k) \/ (e[2] = k /\ x = e[1])
<1> DEFINE a == Append(came, e)
<1>1. /\ Len(came) \in Nat /\ Len(a) = Len(came) + 1
      /\ \A i \in 1..Len(came) : a[i] = came[i]
      /\ a[Len(came) + 1] = e
  BY AppendProperties, LenProperties
<1>2. 1..Len(a) = 1..Len(came) \cup {Len(came) + 1}
  BY <1>1
<1> HIDE DEF a
<1>3. ASSUME NEW x
      PROVE  x \in OutBy(a, k) <=> x \in OutBy(came, k) \/ (e[2] = k /\ x = e[1])
  <2>1. x \in OutBy(a, k) <=> \E i \in 1..Len(a) : a[i][2] = k /\ a[i][1] = x
    BY DEF OutBy
  <2>2. x \in OutBy(came, k)
            <=> \E i \in 1..Len(came) : came[i][2] = k /\ came[i][1] = x
    BY DEF OutBy
  <2>3. (\E i \in 1..Len(a) : a[i][2] = k /\ a[i][1] = x)
            <=> \/ \E i \in 1..Len(came) : a[i][2] = k /\ a[i][1] = x
                \/ a[Len(came) + 1][2] = k /\ a[Len(came) + 1][1] = x
    BY <1>2, Zenon
  <2>4. (\E i \in 1..Len(came) : a[i][2] = k /\ a[i][1] = x)
            <=> \E i \in 1..Len(came) : came[i][2] = k /\ came[i][1] = x
    BY <1>1, Zenon
  <2> QED
    BY <1>1, <2>1, <2>2, <2>3, <2>4, Zenon
<1> QED
  BY <1>3 DEF a

-----------------------------------------------------------------------------
(***************************************************************************)
(* The invariant.                                                          *)
(***************************************************************************)
LEMMA Sides ==
    /\ \A s \in Side : Peer(s) \in Side /\ Peer(s) # s /\ Peer(Peer(s)) = s
    /\ \A l \in Line : l[1] \in Side /\ l[2] \in Conn /\ l = <<l[1], l[2]>>
  BY DEF Side, Peer, Line

LEMMA PathInit == Init => PathInv
<1> SUFFICES ASSUME Init PROVE PathInv
  OBVIOUS
<1>1. /\ \A s \in Side : Len(queue[s]) = 0 /\ Len(out[s]) = 0
      /\ \A l \in Line : Len(line[l]) = 0
  BY DEF Init
<1>2. \A s \in Side : Numbers(queue[s]) = {} /\ Ascending(queue[s])
  BY <1>1 DEF Numbers, Ascending
<1>3. \A l \in Line : Numbers(line[l]) = {} /\ Ascending(line[l])
  BY <1>1 DEF Numbers, Ascending
<1>4. \A l \in Line : Delivered(l) = {}
  BY <1>1, Sides DEF Delivered, OutBy
<1>5. \A l \in Line : Carried(l) = {}
  BY <1>3, <1>4 DEF Carried
<1>6. PathTypes
  BY DEF Init, PathTypes
<1>7. OrderedOut
  BY <1>1 DEF OrderedOut
<1> QED
  BY <1>2, <1>3, <1>4, <1>5, <1>6, <1>7
     DEF PathInv, QueueAhead, TakenOnce, LineInOrder

\* A step that only takes away, in front of the path or on it.
LEMMA PathLess ==
    ASSUME PathInv, PathTypes', UNCHANGED <<made, out>>,
           \A s \in Side : queue'[s] \in {queue[s], <<>>},
           \A l \in Line : /\ Ascending(line'[l])
                           /\ Numbers(line'[l]) \subseteq Numbers(line[l])
    PROVE  PathInv'
<1>1. \A l \in Line : Delivered(l)' = Delivered(l)
  BY DEF Delivered
<1>2. \A l \in Line : Carried(l)' \subseteq Carried(l)
  BY <1>1 DEF Carried
<1>3. \A s \in Side : /\ Ascending(queue'[s])
                      /\ Numbers(queue'[s]) \subseteq Numbers(queue[s])
  BY DEF PathInv, QueueAhead, Ascending, Numbers
<1>4. QueueAhead'
  <2> SUFFICES ASSUME NEW s \in Side, NEW p \in Numbers(queue'[s])
               PROVE  /\ p \in 0..made[s]
                      /\ \A l \in Line : l[1] = s =>
                            \A q \in Carried(l)' : q < p
    BY <1>3 DEF QueueAhead
  <2> QED
    BY <1>2, <1>3 DEF PathInv, QueueAhead
<1>5. TakenOnce'
  <2> SUFFICES ASSUME NEW l \in Line, NEW p \in Carried(l)'
               PROVE  /\ p \in 0..made[l[1]]
                      /\ \A m \in Line :
                            m[1] = l[1] /\ p \in Carried(m)' => m = l
    BY DEF TakenOnce
  <2> QED
    BY <1>2 DEF PathInv, TakenOnce
<1>6. LineInOrder'
  BY <1>1 DEF PathInv, LineInOrder
<1>7. OrderedOut'
  BY DEF PathInv, OrderedOut
<1> QED
  BY <1>4, <1>5, <1>6, <1>7 DEF PathInv

\* What a loss leaves on the lines.
LEMMA PathLoses ==
    ASSUME PathInv, NEW broken, Loses(broken),
           queue' \in [Side -> Seq(Nat)],
           \A s \in Side : queue'[s] \in {queue[s], <<>>}
    PROVE  PathInv'
<1>1. line' \in [Line -> Seq(Nat)] /\ UNCHANGED <<made, out>>
  BY DEF Loses
<1>2. PathTypes'
  BY <1>1 DEF PathInv, PathTypes
<1>3. ASSUME NEW l \in Line
      PROVE  /\ Ascending(line'[l])
             /\ Numbers(line'[l]) \subseteq Numbers(line[l])
  <2>1. line[l] \in Seq(Nat) /\ line'[l] \in Seq(Nat) /\ Ascending(line[l])
    BY <1>1 DEF PathInv, PathTypes, LineInOrder
  <2>2. CASE line'[l] = line[l]
    BY <2>1, <2>2
  <2>3. CASE LeftOf(line'[l], line[l])
    BY <2>1, <2>3, AscendingLeft
  <2> QED
    BY <2>2, <2>3 DEF Loses
<1> QED
  BY <1>1, <1>2, <1>3, PathLess

LEMMA PathEnter ==
    ASSUME PathInv, NEW s \in Side, Enter(s)
    PROVE  PathInv'
<1>1. /\ made' = [made EXCEPT ![s] = @ + 1] /\ UNCHANGED <<line, out>>
      /\ made[s] \in Nat /\ queue[s] \in Seq(Nat)
      /\ Ascending(queue[s]) /\ \A p \in Numbers(queue[s]) : p \in 0..made[s]
  BY DEF Enter, PathInv, PathTypes, QueueAhead
<1>2. \A l \in Line : Delivered(l)' = Delivered(l) /\ Carried(l)' = Carried(l)
  BY <1>1 DEF Delivered, Carried
<1>4. /\ Append(queue[s], made[s] + 1) \in Seq(Nat)
      /\ Ascending(Append(queue[s], made[s] + 1))
      /\ Numbers(Append(queue[s], made[s] + 1))
             = Numbers(queue[s]) \cup {made[s] + 1}
  <2>1. made[s] + 1 \in Nat /\ \A p \in Numbers(queue[s]) : p < made[s] + 1
    BY <1>1
  <2> QED
    BY <1>1, <2>1, AscendingAppend
<1>5. /\ queue' \in [Side -> Seq(Nat)]
      /\ Ascending(queue'[s])
      /\ Numbers(queue'[s]) \subseteq Numbers(queue[s]) \cup {made[s] + 1}
      /\ \A r \in Side : r # s => queue'[r] = queue[r]
  <2>1. CASE queue' = [queue EXCEPT ![s] = Append(queue[s], made[s] + 1)]
    BY <1>4, <2>1 DEF PathInv, PathTypes
  <2>2. CASE queue' = [queue EXCEPT ![s] = queue[s]]
    BY <1>1, <2>2 DEF PathInv, PathTypes
  <2> QED
    BY <2>1, <2>2 DEF Enter
<1>6. PathTypes'
  <2>1. made' \in [Side -> Nat]
    BY <1>1 DEF PathInv, PathTypes
  <2>2. line' = line /\ out' = out
    BY <1>1
  <2> QED
    BY <1>5, <2>1, <2>2 DEF PathInv, PathTypes
<1>7. \A r \in Side : made[r] \in Nat /\ made[r] <= made'[r] /\ made'[r] \in Nat
  BY <1>1 DEF PathInv, PathTypes
<1>9. QueueAhead'
  <2> SUFFICES ASSUME NEW r \in Side
               PROVE  /\ Ascending(queue'[r])
                      /\ \A p \in Numbers(queue'[r]) :
                            /\ p \in 0..made'[r]
                            /\ \A l \in Line : l[1] = r =>
                                  \A q \in Carried(l) : q < p
    BY <1>2 DEF QueueAhead
  <2>1. CASE r # s
    <3>1. queue'[r] = queue[r] /\ made'[r] \in Nat /\ made[r] <= made'[r]
      BY <1>5, <1>7, <2>1
    <3>2. \A p \in Numbers(queue[r]) : p \in 0..made[r]
      BY DEF PathInv, QueueAhead
    <3>3. \A p \in Numbers(queue[r]) : p \in 0..made'[r]
      BY <1>7, <3>2
    <3> QED
      BY <3>1, <3>3, Zenon DEF PathInv, QueueAhead
  <2>2. CASE r = s
    <3>1. \A l \in Line : l[1] = s => \A q \in Carried(l) : q < made[s] + 1
      BY <1>1 DEF PathInv, TakenOnce
    <3>2. made'[s] = made[s] + 1
      BY <1>1 DEF PathInv, PathTypes
    <3> QED
      BY <1>1, <1>5, <1>7, <2>2, <3>1, <3>2 DEF PathInv, QueueAhead
  <2> QED
    BY <2>1, <2>2
<1>10. TakenOnce'
  BY <1>2, <1>7, Sides DEF PathInv, TakenOnce
<1>11. LineInOrder' /\ OrderedOut'
  BY <1>1, <1>2 DEF PathInv, LineInOrder, OrderedOut
<1> QED
  BY <1>6, <1>9, <1>10, <1>11 DEF PathInv

LEMMA PathTake ==
    ASSUME PathInv, NEW l \in Line, Take(l)
    PROVE  PathInv'
<1> DEFINE s == l[1]
           n == Head(queue[s])
<1>1. /\ s \in Side /\ queue[s] # <<>> /\ queue[s] \in Seq(Nat)
      /\ queue' = [queue EXCEPT ![s] = Tail(queue[s])]
      /\ line' = [line EXCEPT ![l] = Append(line[l], n)]
      /\ UNCHANGED <<made, out>>
  BY Sides DEF Take, PathInv, PathTypes
<1>2. /\ Tail(queue[s]) \in Seq(Nat) /\ n \in Nat /\ Ascending(Tail(queue[s]))
      /\ \A p \in Numbers(Tail(queue[s])) : n < p
      /\ Numbers(queue[s]) = Numbers(Tail(queue[s])) \cup {n}
  <2>1. Ascending(queue[s])
    BY <1>1 DEF PathInv, QueueAhead
  <2> QED
    BY <1>1, <2>1, AscendingTail
<1>3. /\ n \in 0..made[s]
      /\ \A m \in Line : m[1] = s => \A q \in Carried(m) : q < n
  BY <1>1, <1>2 DEF PathInv, QueueAhead
<1>4. /\ Append(line[l], n) \in Seq(Nat) /\ Ascending(Append(line[l], n))
      /\ Numbers(Append(line[l], n)) = Numbers(line[l]) \cup {n}
  <2>1. line[l] \in Seq(Nat) /\ Ascending(line[l])
    BY DEF PathInv, PathTypes, LineInOrder
  <2>2. \A p \in Numbers(line[l]) : p < n
    BY <1>3 DEF Carried
  <2> QED
    BY <1>2, <2>1, <2>2, AscendingAppend
<1> HIDE DEF n
<1>5. PathTypes'
  BY <1>1, <1>2, <1>4 DEF PathInv, PathTypes
<1>6. /\ line'[l] = Append(line[l], n) /\ queue'[s] = Tail(queue[s])
      /\ \A m \in Line : m # l => line'[m] = line[m]
      /\ \A r \in Side : r # s => queue'[r] = queue[r]
  BY <1>1 DEF PathInv, PathTypes
<1>7. \A m \in Line : Delivered(m)' = Delivered(m)
  BY <1>1 DEF Delivered
<1>8. /\ Carried(l)' = Carried(l) \cup {n}
      /\ \A m \in Line : m # l => Carried(m)' = Carried(m)
  BY <1>4, <1>6, <1>7 DEF Carried
<1> HIDE DEF s
<1>9. QueueAhead'
  <2> SUFFICES ASSUME NEW r \in Side
               PROVE  /\ Ascending(queue'[r])
                      /\ \A p \in Numbers(queue'[r]) :
                            /\ p \in 0..made[r]
                            /\ \A m \in Line : m[1] = r =>
                                  \A q \in Carried(m)' : q < p
    BY <1>1 DEF QueueAhead
  <2>1. CASE r # s
    <3>1. \A m \in Line : m[1] = r => Carried(m)' = Carried(m)
      BY <1>8, <2>1 DEF s
    <3> QED
      BY <1>6, <2>1, <3>1 DEF PathInv, QueueAhead
  <2>2. CASE r = s
    <3>1. \A p \in Numbers(queue'[r]) :
             p \in Numbers(queue[r]) /\ n < p
      BY <1>2, <1>6, <2>2
    <3>2. Ascending(queue'[r])
      BY <1>2, <1>6, <2>2
    <3> QED
      BY <1>8, <3>1, <3>2 DEF PathInv, QueueAhead
  <2> QED
    BY <2>1, <2>2
<1>10. TakenOnce'
  <2> SUFFICES ASSUME NEW m \in Line, NEW p \in Carried(m)'
               PROVE  /\ p \in 0..made[m[1]]
                      /\ \A k \in Line :
                            k[1] = m[1] /\ p \in Carried(k)' => k = m
    BY <1>1 DEF TakenOnce
  <2>1. CASE p \in Carried(m)
    <3>1. p \in 0..made[m[1]]
      BY <2>1 DEF PathInv, TakenOnce
    <3>2. ASSUME NEW k \in Line, k[1] = m[1], p \in Carried(k)' PROVE k = m
      <4>1. CASE p \in Carried(k)
        BY <2>1, <3>2, <4>1 DEF PathInv, TakenOnce
      <4>2. CASE p = n /\ k = l
        <5>1. m[1] = s
          BY <3>2, <4>2 DEF s
        <5>2. p < n
          BY <1>3, <2>1, <5>1
        <5> QED
          BY <3>1, <4>2, <5>2
      <4> QED
        BY <1>8, <3>2, <4>1, <4>2
    <3> QED
      BY <3>1, <3>2
  <2>2. CASE p = n /\ m = l
    <3>1. p \in 0..made[m[1]]
      BY <1>3, <2>2 DEF s
    <3>2. ASSUME NEW k \in Line, k[1] = m[1], p \in Carried(k)', k # l
          PROVE  FALSE
      <4>1. p \in Carried(k)
        BY <1>8, <3>2
      <4>2. p < n
        BY <1>3, <2>2, <3>2, <4>1 DEF s
      <4> QED
        BY <1>2, <2>2, <4>2
    <3> QED
      BY <2>2, <3>1, <3>2
  <2> QED
    BY <1>8, <2>1, <2>2
<1>11. LineInOrder'
  <2> SUFFICES ASSUME NEW m \in Line
               PROVE  /\ Ascending(line'[m])
                      /\ \A p \in Delivered(m), q \in Numbers(line'[m]) : p < q
    BY <1>7 DEF LineInOrder
  <2>1. CASE m # l
    BY <1>6, <2>1 DEF PathInv, LineInOrder
  <2>2. CASE m = l
    <3>1. \A p \in Delivered(l) : p < n
      BY <1>3 DEF Carried, s
    <3> QED
      BY <1>4, <1>6, <2>2, <3>1 DEF PathInv, LineInOrder
  <2> QED
    BY <2>1, <2>2
<1>12. OrderedOut'
  BY <1>1 DEF PathInv, OrderedOut
<1> QED
  BY <1>5, <1>9, <1>10, <1>11, <1>12 DEF PathInv

LEMMA PathDeliver ==
    ASSUME PathInv, NEW l \in Line, Deliver(l)
    PROVE  PathInv'
<1> DEFINE d == Peer(l[1])
           n == Head(line[l])
<1>1. /\ d \in Side /\ l[2] \in Conn
      /\ line[l] # <<>> /\ line[l] \in Seq(Nat) /\ Ascending(line[l])
      /\ line' = [line EXCEPT ![l] = Tail(line[l])]
      /\ out[d] \in Seq(Nat \X Conn)
      /\ out' = [out EXCEPT ![d] = Append(out[d], <<n, l[2]>>)]
      /\ UNCHANGED <<made, queue>>
  BY Sides DEF Deliver, PathInv, PathTypes, LineInOrder
<1>2. /\ Tail(line[l]) \in Seq(Nat) /\ n \in Nat /\ Ascending(Tail(line[l]))
      /\ \A p \in Numbers(Tail(line[l])) : n < p
      /\ Numbers(line[l]) = Numbers(Tail(line[l])) \cup {n}
  BY <1>1, AscendingTail
<1> HIDE DEF n, d
<1>3. <<n, l[2]>> \in Nat \X Conn
  BY <1>1, <1>2
<1>4. /\ Append(out[d], <<n, l[2]>>) \in Seq(Nat \X Conn)
      /\ Len(out[d]) \in Nat
      /\ Len(Append(out[d], <<n, l[2]>>)) = Len(out[d]) + 1
      /\ \A i \in 1..Len(out[d]) : Append(out[d], <<n, l[2]>>)[i] = out[d][i]
      /\ Append(out[d], <<n, l[2]>>)[Len(out[d]) + 1] = <<n, l[2]>>
  BY <1>1, <1>3, AppendProperties, LenProperties
<1>5. /\ line'[l] = Tail(line[l]) /\ out'[d] = Append(out[d], <<n, l[2]>>)
      /\ \A m \in Line : m # l => line'[m] = line[m]
      /\ \A r \in Side : r # d => out'[r] = out[r]
  BY <1>1 DEF PathInv, PathTypes
<1>6. PathTypes'
  BY <1>1, <1>2, <1>4 DEF PathInv, PathTypes
<1>7. /\ Delivered(l)' = Delivered(l) \cup {n}
      /\ \A m \in Line : m # l => Delivered(m)' = Delivered(m)
  <2>1. ASSUME NEW m \in Line
        PROVE  Delivered(m)' = IF m = l THEN Delivered(m) \cup {n}
                                        ELSE Delivered(m)
    <3>1. CASE Peer(m[1]) # d
      BY <1>5, <3>1, Sides DEF Delivered, d
    <3>2. CASE Peer(m[1]) = d
      <4>1. OutBy(out'[d], m[2]) = IF m[2] = l[2] THEN OutBy(out[d], m[2]) \cup {n}
                                                ELSE OutBy(out[d], m[2])
        <5> DEFINE e == <<n, l[2]>>
                   T == Nat \X Conn
        <5>1. e \in T /\ out[d] \in Seq(T) /\ out'[d] = Append(out[d], e)
          BY <1>1, <1>3, <1>5
        <5>2. e[1] = n /\ e[2] = l[2]
          OBVIOUS
        <5> HIDE DEF e, T
        <5>3. \A x : x \in OutBy(Append(out[d], e), m[2])
                        <=> x \in OutBy(out[d], m[2]) \/ (e[2] = m[2] /\ x = e[1])
          BY <5>1, OutByAppend
        <5>4. \A x : x \in OutBy(out'[d], m[2])
                        <=> x \in OutBy(out[d], m[2]) \/ (l[2] = m[2] /\ x = n)
          BY <5>1, <5>2, <5>3, Zenon
        <5> QED
          BY <5>4
      <4>2. m[2] = l[2] <=> m = l
        BY <3>2, Sides DEF d
      <4> QED
        BY <3>2, <4>1, <4>2 DEF Delivered
    <3> QED
      BY <3>1, <3>2
  <2> QED
    BY <2>1
<1>8. \A m \in Line : Carried(m)' = Carried(m)
  BY <1>2, <1>5, <1>7 DEF Carried
<1>9. QueueAhead' /\ TakenOnce'
  <2>1. made' = made /\ queue' = queue
    BY <1>1
  <2>2. QueueAhead'
    BY <1>8, <2>1, Zenon DEF PathInv, QueueAhead
  <2>3. TakenOnce'
    <3> SUFFICES ASSUME NEW m \in Line, NEW p \in Carried(m)
                 PROVE  /\ p \in 0..made'[m[1]]
                        /\ \A k \in Line :
                              k[1] = m[1] /\ p \in Carried(k) => k = m
      BY <1>8 DEF TakenOnce
    <3> QED
      BY <2>1 DEF PathInv, TakenOnce
  <2> QED
    BY <2>2, <2>3
<1>10. LineInOrder'
  <2> SUFFICES ASSUME NEW m \in Line
               PROVE  /\ Ascending(line'[m])
                      /\ \A p \in Delivered(m)', q \in Numbers(line'[m]) : p < q
    BY DEF LineInOrder
  <2>1. CASE m # l
    BY <1>5, <1>7, <2>1 DEF PathInv, LineInOrder
  <2>2. CASE m = l
    BY <1>2, <1>5, <1>7, <2>2 DEF PathInv, LineInOrder
  <2> QED
    BY <2>1, <2>2
<1>11. OrderedOut'
  <2> SUFFICES ASSUME NEW s \in Side,
                      NEW i \in 1..Len(out'[s]), NEW j \in 1..Len(out'[s]),
                      i < j, out'[s][i][2] = out'[s][j][2]
               PROVE  out'[s][i][1] < out'[s][j][1]
    BY DEF OrderedOut
  <2>0. s = d => /\ Len(out'[s]) = Len(out[d]) + 1
                 /\ \A h \in 1..Len(out[d]) : out'[s][h] = out[d][h]
                 /\ out'[s][Len(out[d]) + 1] = <<n, l[2]>>
    BY <1>4, <1>5, Zenon
  <2>1. CASE s # d \/ j # Len(out[d]) + 1
    <3>1. CASE s # d
      <4>1. out'[s] = out[s]
        BY <1>5, <3>1
      <4> QED
        BY <4>1 DEF PathInv, OrderedOut
    <3>2. CASE s = d /\ j # Len(out[d]) + 1
      <4>1. i \in 1..Len(out[d]) /\ j \in 1..Len(out[d])
        <5>1. Len(out[d]) \in Nat /\ Len(out'[s]) = Len(out[d]) + 1
          BY <1>4, <2>0, <3>2, Zenon
        <5> QED
          BY <3>2, <5>1
      <4>2. out'[s][i] = out[s][i] /\ out'[s][j] = out[s][j]
        BY <2>0, <3>2, <4>1
      <4> QED
        BY <3>2, <4>1, <4>2 DEF PathInv, OrderedOut
    <3> QED
      BY <2>1, <3>1, <3>2
  <2>2. CASE s = d /\ j = Len(out[d]) + 1
    <3>1. i \in 1..Len(out[d]) /\ out'[s][i] = out[d][i] /\ out'[s][j] = <<n, l[2]>>
      <4>1. i \in 1..Len(out[d])
        BY <1>4, <2>0, <2>2
      <4> QED
        BY <2>0, <2>2, <4>1
    <3>2. out[d][i][1] \in Delivered(l)
      BY <3>1 DEF Delivered, OutBy, d
    <3>3. n \in Numbers(line[l])
      BY <1>2
    <3> QED
      BY <3>1, <3>2, <3>3 DEF PathInv, LineInOrder
  <2> QED
    BY <2>1, <2>2
<1> QED
  BY <1>6, <1>9, <1>10, <1>11 DEF PathInv

LEMMA PathStep == PathInv /\ [Next]_vars => PathInv'
<1> SUFFICES ASSUME PathInv, [Next]_vars PROVE PathInv'
  OBVIOUS
<1>1. ASSUME UNCHANGED <<made, queue, line, out>> PROVE PathInv'
  BY <1>1 DEF PathInv, PathTypes, QueueAhead, TakenOnce, LineInOrder,
              OrderedOut, Carried, Delivered
<1>2. CASE UNCHANGED vars
  BY <1>1, <1>2 DEF vars
<1>3. ASSUME NEW k \in Conn, Connect(k) PROVE PathInv'
  BY <1>1, <1>3 DEF Connect
<1>4. ASSUME NEW broken, Break(broken) PROVE PathInv'
  <2>1. queue' = queue /\ queue \in [Side -> Seq(Nat)]
    BY <1>4 DEF Break, PathInv, PathTypes
  <2> QED
    BY <1>4, <2>1, PathLoses DEF Break
<1>5. ASSUME NEW s \in Side, Crash(s) PROVE PathInv'
  <2>1. queue' = [queue EXCEPT ![s] = <<>>] /\ queue \in [Side -> Seq(Nat)]
    BY <1>5 DEF Crash, PathInv, PathTypes
  <2> QED
    BY <1>5, <2>1, PathLoses DEF Crash
<1> QED
  BY <1>2, <1>3, <1>4, <1>5, PathEnter, PathTake, PathDeliver DEF Next

\* Different packets of one side, also if connections take them side by side.
LEMMA PathOnce == PathInv => OnceOut
<1> SUFFICES ASSUME PathInv, NEW s \in Side,
                    NEW i \in 1..Len(out[s]), NEW j \in 1..Len(out[s]),
                    out[s][i][1] = out[s][j][1]
             PROVE  i = j
  BY DEF OnceOut
<1>1. /\ out[s] \in Seq(Nat \X Conn) /\ Len(out[s]) \in Nat
      /\ out[s][i] \in Nat \X Conn /\ out[s][j] \in Nat \X Conn
  BY ElementOfSeq, LenProperties DEF PathInv, PathTypes
<1> DEFINE l == <<Peer(s), out[s][i][2]>>
           m == <<Peer(s), out[s][j][2]>>
<1>2. /\ l \in Line /\ m \in Line /\ l[1] = m[1]
      /\ Peer(l[1]) = s /\ Peer(m[1]) = s
  BY <1>1, Sides DEF Line
<1>3. out[s][i][1] \in Carried(l) /\ out[s][j][1] \in Carried(m)
  BY <1>2 DEF Carried, Delivered, OutBy
<1>4. l = m
  BY <1>2, <1>3 DEF PathInv, TakenOnce
<1>5. out[s][i][2] = out[s][j][2] /\ out[s][i][1] \in Nat
  BY <1>1, <1>4
<1>6. ~(i < j) /\ ~(j < i)
  BY <1>5 DEF PathInv, OrderedOut
<1> QED
  BY <1>1, <1>6

\* Whatever connections break, are replaced or run side by side, no packet
\* comes out twice.
THEOREM PathDeliversOnce == Spec => []OnceOut
  BY PathInit, PathStep, PathOnce, PTL DEF Spec

\* What one connection has taken comes out in the order in which it was taken.
THEOREM PathDeliversInOrder == Spec => []OrderedOut
<1>1. PathInv => OrderedOut
  BY DEF PathInv
<1> QED
  BY <1>1, PathInit, PathStep, PTL DEF Spec
=============================================================================
