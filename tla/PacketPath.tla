----------------------------- MODULE PacketPath -----------------------------
(***************************************************************************)
(* What the TUN gateway promises to the networks at its two ends: a path   *)
(* for packets over one connection after the other.  Packets queue in      *)
(* front of the path; a live connection takes them one by one and carries  *)
(* them in order.  A packet comes out at most once, by the connection that *)
(* took it.  Nothing that a live connection carries is lost, and nothing   *)
(* that a connection has not taken is lost but with its process or for     *)
(* want of room.                                                           *)
(***************************************************************************)
EXTENDS Integers, Sequences

CONSTANTS Conn,     \* the connections
          QueueCap  \* packets that may queue

Side == {"client", "server"}
Peer(s) == IF s = "client" THEN "server" ELSE "client"

\* One direction of a connection: the side it leads from and the connection.
Line == Side \X Conn

VARIABLES
    made,    \* packets that have reached the path, per side; they are numbered
    queue,   \* of these, the ones in front of the path, in order
    line,    \* the packets that a connection carries in one direction
    status,  \* of a connection: "new", "live" or "broken"
    out      \* packets that have come out at a side: number and connection

vars == <<made, queue, line, status, out>>

Init ==
    /\ made = [s \in Side |-> 0]
    /\ queue = [s \in Side |-> <<>>]
    /\ line = [l \in Line |-> <<>>]
    /\ status = [k \in Conn |-> "new"]
    /\ out = [s \in Side |-> <<>>]

\* A packet reaches the path, and is dropped if there is no room.
Enter(s) ==
    /\ made' = [made EXCEPT ![s] = @ + 1]
    /\ queue' = [queue EXCEPT ![s] = IF Len(@) < QueueCap
                                     THEN Append(@, made[s] + 1) ELSE @]
    /\ UNCHANGED <<line, status, out>>

Connect(k) ==
    /\ status[k] = "new"
    /\ status' = [status EXCEPT ![k] = "live"]
    /\ UNCHANGED <<made, queue, line, out>>

\* A connection takes the next packet.  A broken one still may, until both of
\* its ends have noticed.
Take(l) ==
    /\ status[l[2]] # "new"
    /\ queue[l[1]] # <<>>
    /\ queue' = [queue EXCEPT ![l[1]] = Tail(@)]
    /\ line' = [line EXCEPT ![l] = Append(@, Head(queue[l[1]]))]
    /\ UNCHANGED <<made, status, out>>

\* The packet that was taken first comes out at the other side.
Deliver(l) ==
    /\ line[l] # <<>>
    /\ line' = [line EXCEPT ![l] = Tail(@)]
    /\ out' = [out EXCEPT ![Peer(l[1])] = Append(@, <<Head(line[l]), l[2]>>)]
    /\ UNCHANGED <<made, queue, status>>

\* t is what is left of q when some of it is lost.
LeftOf(t, q) ==
    \E place \in [1..Len(t) -> 1..Len(q)] :
        \A i \in 1..Len(t) :
            /\ t[i] = q[place[i]]
            /\ \A j \in 1..(i - 1) : place[j] < place[i]

\* Connections break, or break further: of what they carry some is lost.
Loses(broken) ==
    /\ status' = [k \in Conn |-> IF k \in broken THEN "broken" ELSE status[k]]
    /\ line' \in [Line -> Seq(Nat)]
    /\ \A l \in Line :
          IF l[2] \in broken THEN LeftOf(line'[l], line[l])
                             ELSE line'[l] = line[l]
    /\ UNCHANGED <<made, out>>

Break(broken) ==
    /\ \A k \in broken : status[k] # "new"
    /\ Loses(broken)
    /\ UNCHANGED queue

\* The process of a side is gone, with its device and all connections.
Crash(s) ==
    /\ Loses({k \in Conn : status[k] # "new"})
    /\ queue' = [queue EXCEPT ![s] = <<>>]

Next ==
    \/ \E s \in Side : Enter(s) \/ Crash(s)
    \/ \E k \in Conn : Connect(k)
    \/ \E l \in Line : Take(l) \/ Deliver(l)
    \/ \E broken \in SUBSET Conn : Break(broken)

Spec == Init /\ [][Next]_vars

-----------------------------------------------------------------------------
Numbers(q) == {q[i] : i \in 1..Len(q)}

\* The numbers of those of came that came out by connection k.
OutBy(came, k) == {came[i][1] : i \in {j \in 1..Len(came) : came[j][2] = k}}

\* The packets that a connection has taken in one direction and that have come
\* out, and these with the ones it still carries.
Delivered(l) == OutBy(out[Peer(l[1])], l[2])

Carried(l) == Numbers(line[l]) \cup Delivered(l)

\* No packet comes out twice.
OnceOut ==
    \A s \in Side : \A i, j \in 1..Len(out[s]) :
        out[s][i][1] = out[s][j][1] => i = j

\* What one connection has carried comes out in order.
OrderedOut ==
    \A s \in Side : \A i, j \in 1..Len(out[s]) :
        i < j /\ out[s][i][2] = out[s][j][2] => out[s][i][1] < out[s][j][1]
=============================================================================
