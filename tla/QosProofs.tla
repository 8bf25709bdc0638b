----------------------------- MODULE QosProofs ------------------------------
(***************************************************************************)
(* Proofs about QosPath, for any packets and suffixes, any rates, queue    *)
(* and TTL: the type invariant, that only streaming services are limited,  *)
(* and, for the relay of the client, that they are limited.                *)
(*                                                                         *)
(* What RateLimiterProofs shows of the limiter is used as it stands.       *)
(***************************************************************************)
EXTENDS QosPath, SequenceTheorems, TLAPS

LimiterP == INSTANCE RateLimiterProofs WITH Consumers <- Half

\* The assumption under which the limiter is proved correct.
LEMMA LimiterFits == Limiter!LimiterAssumption /\ LimiterP!LimiterAssumption
  BY PathAssumption DEF Limiter!LimiterAssumption, LimiterP!LimiterAssumption

\* Limiter and LimiterP are the same module, with and without its proofs.
LEMMA SameLimiter ==
    /\ Limiter!Init <=> LimiterP!Init
    /\ Limiter!TypeOK <=> LimiterP!TypeOK
    /\ Limiter!Tick <=> LimiterP!Tick
    /\ \A h \in Half : /\ Limiter!Call(h) <=> LimiterP!Call(h)
                       /\ Limiter!Admit(h) <=> LimiterP!Admit(h)
                       /\ Limiter!Sleep(h) <=> LimiterP!Sleep(h)
    /\ Limiter!Level = LimiterP!Level
    /\ \A a, b : /\ Limiter!AtMost(a, b) = LimiterP!AtMost(a, b)
                 /\ Limiter!AtLeast(a, b) = LimiterP!AtLeast(a, b)
<1>1. Limiter!Init <=> LimiterP!Init
  BY Zenon DEF Limiter!Init, LimiterP!Init
<1>2. Limiter!TypeOK <=> LimiterP!TypeOK
  BY Zenon DEF Limiter!TypeOK, LimiterP!TypeOK
<1>3. \A a, b : /\ Limiter!AtMost(a, b) = LimiterP!AtMost(a, b)
                /\ Limiter!AtLeast(a, b) = LimiterP!AtLeast(a, b)
  BY Zenon DEF Limiter!AtMost, LimiterP!AtMost, Limiter!AtLeast, LimiterP!AtLeast
<1>4. Limiter!Level = LimiterP!Level
  BY <1>3, Zenon DEF Limiter!Level, LimiterP!Level
<1>5. Limiter!Tick <=> LimiterP!Tick
  BY Zenon DEF Limiter!Tick, LimiterP!Tick, Limiter!AtLeast, LimiterP!AtLeast
<1>6. ASSUME NEW h \in Half
      PROVE  /\ Limiter!Call(h) <=> LimiterP!Call(h)
             /\ Limiter!Admit(h) <=> LimiterP!Admit(h)
             /\ Limiter!Sleep(h) <=> LimiterP!Sleep(h)
  <2>1. Limiter!Call(h) <=> LimiterP!Call(h)
    BY Zenon DEF Limiter!Call, LimiterP!Call
  <2>2. \A n : Limiter!Target(n) = LimiterP!Target(n)
    BY <1>3, Zenon DEF Limiter!Target, LimiterP!Target
  <2>3. Limiter!Runs(h) <=> LimiterP!Runs(h)
    BY Zenon DEF Limiter!Runs, LimiterP!Runs
  <2>4. Limiter!Admit(h) <=> LimiterP!Admit(h)
    BY <1>4, <2>2, <2>3, Zenon
       DEF Limiter!Admit, LimiterP!Admit, Limiter!AccruedAfterRefill,
           LimiterP!AccruedAfterRefill
  <2>5. Limiter!Sleep(h) <=> LimiterP!Sleep(h)
    BY <1>4, <2>2, <2>3, Zenon
       DEF Limiter!Sleep, LimiterP!Sleep, Limiter!AccruedAfterRefill,
           LimiterP!AccruedAfterRefill
  <2> QED
    BY <2>1, <2>4, <2>5
<1> QED
  BY <1>1, <1>2, <1>3, <1>4, <1>5, <1>6, Zenon

-----------------------------------------------------------------------------
(***************************************************************************)
(* Type correctness.                                                       *)
(***************************************************************************)
\* What TypeOK says of the queues, the entries and the meter.
SeenTypes ==
    /\ remains \in [Host -> -1..TTL]
    /\ heard \in [Host -> -1..TTL]
    /\ meter \in Nat

QueueTypes ==
    /\ queue \in [Half -> Seq(Packets)]
    /\ \A h \in Half : Len(queue[h]) <= QueueCap

\* A half in consume asks for the length of the packet it has yet to forward.
AsksForHead ==
    \A h \in Half :
        pc[h] = "wait" => queue[h] # <<>> /\ need[h] = Head(queue[h]).len

QosInv ==
    /\ LimiterP!BucketInv
    /\ QueueTypes
    /\ SeenTypes
    /\ AsksForHead

LEMMA QosTypes == QosInv => TypeOK
<1>1. LimiterP!BucketInv => Limiter!TypeOK
  BY SameLimiter DEF LimiterP!BucketInv
<1> QED
  BY <1>1 DEF QosInv, QueueTypes, SeenTypes, AsksForHead, TypeOK

LEMMA Constants ==
    /\ TTL \in Nat /\ MaxPacket \in Nat /\ QueueCap \in Nat \ {0}
    /\ \A p \in Packets : p.far \in Host /\ p.len \in 1..MaxPacket
    /\ Streaming \subseteq Host
    /\ Near \notin Host
  BY PathAssumption DEF Host

LEMMA QosInit == Init => QosInv
<1> SUFFICES ASSUME Init PROVE QosInv
  OBVIOUS
<1>1. LimiterP!BucketInv
  BY SameLimiter, LimiterFits, LimiterP!BucketInit DEF Init
<1>2. QueueTypes
  <2>1. <<>> \in Seq(Packets) /\ Len(<<>>) <= QueueCap
    BY EmptySeq, Constants
  <2>2. queue = [h \in Half |-> <<>>]
    BY DEF Init
  <2> QED
    BY <2>1, <2>2, Zenon DEF QueueTypes
<1>3. SeenTypes
  BY Constants DEF Init, SeenTypes
<1>4. AsksForHead
  BY DEF Init, Limiter!Init, AsksForHead
<1> QED
  BY <1>1, <1>2, <1>3, <1>4 DEF QosInv

LEMMA ObservedTypes ==
    ASSUME SeenTypes, NEW p
    PROVE  Observed(p) \in [Host -> -1..TTL] /\ Heard(p) \in [Host -> -1..TTL]
  BY Constants DEF SeenTypes, Observed, Heard

\* The packet at the head of a queue, and the queue without it.
LEMMA NextPacket ==
    ASSUME QosInv, NEW h \in Half, queue[h] # <<>>
    PROVE  /\ Head(queue[h]) \in Packets
           /\ Tail(queue[h]) \in Seq(Packets)
           /\ Len(Tail(queue[h])) <= QueueCap
<1>1. queue[h] \in Seq(Packets) /\ Len(queue[h]) <= QueueCap
  BY DEF QosInv, QueueTypes
<1>2. /\ Head(queue[h]) \in Packets /\ Tail(queue[h]) \in Seq(Packets)
      /\ Len(Tail(queue[h])) = Len(queue[h]) - 1 /\ Len(queue[h]) \in Nat
  BY <1>1, HeadTailProperties, LenProperties
<1> QED
  BY <1>1, <1>2, Constants

LEMMA TypesArrive ==
    ASSUME QosInv, NEW h \in Half, Arrive(h)
    PROVE  QosInv'
<1>1. PICK p \in Packets : queue' = [queue EXCEPT ![h] = Append(@, p)]
  BY DEF Arrive
<1>2. /\ UNCHANGED <<remains, heard, meter, limVars>> /\ Len(queue[h]) < QueueCap
      /\ queue \in [Half -> Seq(Packets)]
  BY DEF Arrive, seenVars, QosInv, QueueTypes
<1>3. /\ Append(queue[h], p) \in Seq(Packets)
      /\ Len(Append(queue[h], p)) = Len(queue[h]) + 1 /\ Len(queue[h]) \in Nat
      /\ Append(queue[h], p) # <<>>
      /\ queue[h] # <<>> => Head(Append(queue[h], p)) = Head(queue[h])
  BY <1>2, AppendProperties, LenProperties, HeadTailAppend
<1>4. /\ queue'[h] = Append(queue[h], p)
      /\ \A g \in Half : g # h => queue'[g] = queue[g]
  BY <1>1, <1>2
<1>5. QueueTypes'
  BY <1>1, <1>2, <1>3, <1>4, Constants DEF QosInv, QueueTypes
<1>6. LimiterP!BucketInv'
  BY <1>2 DEF limVars, QosInv, LimiterP!BucketInv, LimiterP!TypeOK,
              LimiterP!DebtBound, LimiterP!AtMost
<1>7. AsksForHead'
  BY <1>2, <1>3, <1>4 DEF limVars, QosInv, AsksForHead
<1>8. SeenTypes'
  BY <1>2 DEF QosInv, SeenTypes
<1> QED
  BY <1>5, <1>6, <1>7, <1>8 DEF QosInv

LEMMA TypesForward ==
    ASSUME QosInv, NEW h \in Half, Forward(h)
    PROVE  QosInv'
<1> DEFINE p == Head(queue[h])
<1>1. /\ pc[h] = "idle" /\ queue[h] # <<>>
      /\ remains' = Observed(p) /\ heard' = Heard(p)
      /\ meter' \in {meter, meter + p.len}
      /\ queue' = [queue EXCEPT ![h] = Tail(@)]
      /\ UNCHANGED limVars /\ queue \in [Half -> Seq(Packets)]
  BY DEF Forward, AtNextPacket, QosInv, QueueTypes
<1>2. p \in Packets /\ p.len \in Nat /\ meter \in Nat
  BY <1>1, NextPacket, Constants DEF QosInv, SeenTypes
<1>3. QueueTypes'
  BY <1>1, NextPacket DEF QosInv, QueueTypes
<1>4. SeenTypes'
  BY <1>1, <1>2, ObservedTypes DEF QosInv, SeenTypes
<1>5. LimiterP!BucketInv'
  BY <1>1 DEF limVars, QosInv, LimiterP!BucketInv, LimiterP!TypeOK,
              LimiterP!DebtBound, LimiterP!AtMost
<1>6. AsksForHead'
  BY <1>1 DEF limVars, QosInv, AsksForHead
<1> QED
  BY <1>3, <1>4, <1>5, <1>6 DEF QosInv

LEMMA TypesThrottle ==
    ASSUME QosInv, NEW h \in Half, Throttle(h)
    PROVE  QosInv'
<1> DEFINE p == Head(queue[h])
<1>1. /\ queue[h] # <<>> /\ remains' = Observed(p) /\ heard' = Heard(p)
      /\ Limiter!Call(h) /\ need'[h] = p.len
      /\ UNCHANGED <<queue, meter>>
  BY DEF Throttle
<1>2. LimiterP!BucketInv'
  BY <1>1, SameLimiter, LimiterFits, LimiterP!BucketCall DEF QosInv
<1>3. \A g \in Half : g # h => pc'[g] = pc[g] /\ need'[g] = need[g]
  BY <1>1 DEF Limiter!Call, QosInv, LimiterP!BucketInv, LimiterP!TypeOK
<1>4. AsksForHead'
  BY <1>1, <1>3 DEF QosInv, AsksForHead
<1>5. SeenTypes'
  BY <1>1, ObservedTypes DEF QosInv, SeenTypes
<1>6. QueueTypes'
  BY <1>1 DEF QosInv, QueueTypes
<1> QED
  BY <1>2, <1>4, <1>5, <1>6 DEF QosInv

LEMMA TypesPass ==
    ASSUME QosInv, NEW h \in Half, Pass(h)
    PROVE  QosInv'
<1>1. /\ Limiter!Admit(h) /\ meter' = meter + Head(queue[h]).len
      /\ queue' = [queue EXCEPT ![h] = Tail(@)] /\ UNCHANGED <<remains, heard>>
      /\ queue \in [Half -> Seq(Packets)]
  BY DEF Pass, seenVars, QosInv, QueueTypes
<1>2. LimiterP!BucketInv'
  BY <1>1, SameLimiter, LimiterFits, LimiterP!BucketAdmit DEF QosInv
<1>3. /\ pc[h] = "wait" /\ pc'[h] = "idle"
      /\ \A g \in Half : g # h => pc'[g] = pc[g] /\ need'[g] = need[g]
  BY <1>1 DEF Limiter!Admit, Limiter!Runs, QosInv, LimiterP!BucketInv,
              LimiterP!TypeOK
<1>4. queue[h] # <<>>
  BY <1>3 DEF QosInv, AsksForHead
<1>5. AsksForHead'
  BY <1>1, <1>3 DEF QosInv, AsksForHead
<1>6. SeenTypes'
  BY SMTT(30), <1>1, <1>4, NextPacket, Constants DEF QosInv, SeenTypes
<1>7. QueueTypes'
  BY <1>1, <1>4, NextPacket DEF QosInv, QueueTypes
<1> QED
  BY <1>2, <1>5, <1>6, <1>7 DEF QosInv

LEMMA TypesDoze ==
    ASSUME QosInv, NEW h \in Half, Doze(h)
    PROVE  QosInv'
<1>1. /\ Limiter!Sleep(h) /\ UNCHANGED <<queue, remains, heard, meter>>
  BY DEF Doze, seenVars
<1>2. LimiterP!BucketInv'
  BY <1>1, SameLimiter, LimiterFits, LimiterP!BucketSleep DEF QosInv
<1>3. need' = need /\ \A g \in Half : pc'[g] = "wait" => pc[g] = "wait"
  BY <1>1 DEF Limiter!Sleep, QosInv, LimiterP!BucketInv, LimiterP!TypeOK
<1> QED
  BY <1>1, <1>2, <1>3 DEF QosInv, QueueTypes, SeenTypes, AsksForHead

LEMMA TypesTick ==
    ASSUME QosInv, Tick
    PROVE  QosInv'
<1>1. /\ Limiter!Tick /\ remains' = Aged(remains) /\ heard' = Aged(heard)
      /\ meter' = Limiter!AtLeast(0, meter - rate) /\ UNCHANGED queue
  BY DEF Tick
<1>2. LimiterP!BucketInv'
  BY <1>1, SameLimiter, LimiterFits, LimiterP!BucketTick DEF QosInv
<1>3. rate \in Nat
  BY DEF QosInv, LimiterP!BucketInv, LimiterP!TypeOK
<1>4. SeenTypes'
  BY <1>1, <1>3, Constants DEF QosInv, SeenTypes, Aged, Limiter!AtLeast
<1>5. AsksForHead'
  BY <1>1 DEF Limiter!Tick, QosInv, AsksForHead
<1> QED
  BY <1>1, <1>2, <1>4, <1>5 DEF QosInv, QueueTypes

LEMMA QosStep == QosInv /\ [Next]_vars => QosInv'
<1> SUFFICES ASSUME QosInv, [Next]_vars PROVE QosInv'
  OBVIOUS
<1>1. CASE UNCHANGED vars
  BY <1>1 DEF vars, seenVars, limVars, QosInv, QueueTypes, SeenTypes,
     AsksForHead, LimiterP!BucketInv, LimiterP!TypeOK, LimiterP!DebtBound,
     LimiterP!AtMost
<1> QED
  BY <1>1, TypesArrive, TypesForward, TypesThrottle, TypesPass, TypesDoze,
     TypesTick DEF Next

\* The types of the relay's state, which say among other things that a half
\* that waits for the limiter asks for the packet at the head of its queue.
THEOREM QosPathTypes == Spec => []TypeOK
  BY QosTypes, QosInit, QosStep, PTL DEF Spec

-----------------------------------------------------------------------------
(***************************************************************************)
(* What is limited is streaming.                                           *)
(***************************************************************************)
\* An entry never outlives what the DNS answers say.
Remembered == \A a \in Host : remains[a] <= heard[a]

\* What the dot in front of the suffix is for: the comparison of the ends of two
\* names finds names of the service's domain only, and no look-alike.
LEMMA NoLookalike ==
    ASSUME NEW name \in Seq(STRING), MatchesSuffix(name)
    PROVE  OfService(name)
<1>1. CASE name \in Suffixes
  <2>1. EndsWith(name, name)
    BY LenProperties DEF EndsWith
  <2> QED
    BY <1>1, <2>1 DEF OfService
<1>2. ASSUME NEW suf \in Suffixes, EndsWith(name, <<".">> \o suf)
      PROVE  OfService(name)
  <2> DEFINE end == <<".">> \o suf
  <2> DEFINE Piece == STRING \cup {"."}
  <2>1. suf \in Seq(Piece) /\ <<".">> \in Seq(Piece) /\ Len(<<".">>) = 1
    <3>1. suf \in Seq(STRING) /\ STRING \subseteq Piece
      BY SuffixAssumption
    <3>2. suf \in Seq(Piece)
      BY <3>1, SeqMonotonic
    <3> QED
      BY <3>2
  <2>2. /\ Len(suf) \in Nat /\ Len(name) \in Nat /\ Len(end) = Len(suf) + 1
        /\ end[1] = "."
        /\ \A i \in 1..Len(suf) : end[i + 1] = suf[i]
    <3>1. Len(suf) \in Nat /\ Len(name) \in Nat /\ Len(end) = 1 + Len(suf)
      BY <2>1, ConcatProperties, LenProperties
    <3>2. ASSUME NEW i \in 1..(1 + Len(suf))
          PROVE  end[i] = IF i <= 1 THEN <<".">>[i] ELSE suf[i - 1]
      BY <2>1, ConcatProperties
    <3> HIDE DEF end
    <3>3. end[1] = "."
      BY <3>1, <3>2
    <3>4. ASSUME NEW i \in 1..Len(suf) PROVE end[i + 1] = suf[i]
      BY <3>1, <3>2
    <3> QED
      BY <3>1, <3>3, <3>4
  <2>3. /\ Len(end) <= Len(name)
        /\ \A i \in 1..Len(end) : name[(Len(name) - Len(end)) + i] = end[i]
    BY <1>2 DEF EndsWith
  <2> HIDE DEF end
  <2>4. name[Len(name) - Len(suf)] = "."
    <3>1. name[(Len(name) - Len(end)) + 1] = end[1]
      BY <2>2, <2>3
    <3>2. (Len(name) - Len(end)) + 1 = Len(name) - Len(suf)
      BY <2>2
    <3> QED
      BY <2>2, <3>1, <3>2
  <2>5. ASSUME NEW i \in 1..Len(suf)
        PROVE  name[(Len(name) - Len(suf)) + i] = suf[i]
    <3>1. /\ i + 1 \in 1..Len(end)
          /\ (Len(name) - Len(end)) + (i + 1) = (Len(name) - Len(suf)) + i
      BY <2>2
    <3> QED
      BY <2>2, <2>3, <3>1
  <2>6. Len(suf) <= Len(name)
    BY <2>2, <2>3
  <2> QED
    BY <2>4, <2>5, <2>6 DEF OfService, EndsWith
<1> QED
  BY <1>1, <1>2 DEF MatchesSuffix

LEMMA RevealedGiven == \A p \in Packets : Revealed(p) \subseteq Given(p)
<1> SUFFICES ASSUME NEW p \in Packets, NEW d \in Revealed(p) PROVE d \in Given(p)
  OBVIOUS
<1>1. /\ p.version = 4 /\ p.proto = "udp" /\ p.port = 53
      /\ \E a \in Answers(p) : a.type = "A" /\ MatchesSuffix(a.name) /\ d = a.data
  BY DEF Revealed, IsDns, ParsesIpv4
<1>2. PICK a \in Answers(p) : a.type = "A" /\ MatchesSuffix(a.name) /\ d = a.data
  BY <1>1
<1>3. OfService(a.name)
  BY <1>2, NoLookalike, PathAssumption
<1> QED
  BY <1>1, <1>2, <1>3 DEF Given

LEMMA ObservedRemembered ==
    ASSUME SeenTypes, Remembered, NEW p \in Packets
    PROVE  \A a \in Host : Observed(p)[a] <= Heard(p)[a]
  BY RevealedGiven, Constants DEF SeenTypes, Remembered, Observed, Heard

\* How the steps change the entries and the history.
LEMMA SeenCases ==
    ASSUME [Next]_vars
    PROVE  \/ UNCHANGED <<remains, heard>>
           \/ remains' = Aged(remains) /\ heard' = Aged(heard)
           \/ \E p \in {Head(queue[h]) : h \in {g \in Half : queue[g] # <<>>}} :
                 remains' = Observed(p) /\ heard' = Heard(p)
<1>1. CASE UNCHANGED vars
  BY <1>1 DEF vars, seenVars
<1>2. CASE Tick
  BY <1>2 DEF Tick
<1>3. ASSUME NEW h \in Half, Arrive(h) \/ Pass(h) \/ Doze(h)
      PROVE  UNCHANGED <<remains, heard>>
  BY <1>3 DEF Arrive, Pass, Doze, seenVars
<1>4. ASSUME NEW h \in Half, Forward(h) \/ Throttle(h)
      PROVE  /\ remains' = Observed(Head(queue[h])) /\ heard' = Heard(Head(queue[h]))
             /\ queue[h] # <<>>
  BY <1>4 DEF Forward, Throttle
<1> QED
  BY <1>1, <1>2, <1>3, <1>4 DEF Next

LEMMA RememberedInit == Init => Remembered
  BY DEF Init, Remembered

LEMMA RememberedStep == QosInv /\ Remembered /\ [Next]_vars => Remembered'
<1> SUFFICES ASSUME QosInv, Remembered, [Next]_vars PROVE Remembered'
  OBVIOUS
<1>1. CASE UNCHANGED <<remains, heard>>
  BY <1>1 DEF Remembered
<1>2. CASE remains' = Aged(remains) /\ heard' = Aged(heard)
  BY <1>2, Constants DEF Aged, Remembered, QosInv, SeenTypes
<1>3. ASSUME NEW p \in Packets, remains' = Observed(p), heard' = Heard(p)
      PROVE  Remembered'
  BY <1>3, ObservedRemembered DEF Remembered, QosInv
<1> QED
  BY <1>1, <1>2, <1>3, SeenCases, NextPacket

\* A packet that is limited has the far end by which it is looked up.
LEMMA LimitedFar ==
    ASSUME NEW p, NEW h \in Half, Limited(p, h)
    PROVE  p.far \in Host /\ Observed(p)[p.far] >= 0
<1>1. LookedUp(p, h) \in {p.far, Near}
  BY DEF LookedUp, Dest, Src
<1>2. LookedUp(p, h) # Near
  BY Constants DEF Limited, Classified
<1> QED
  BY <1>1, <1>2 DEF Limited, Classified

LEMMA ThrottlesStreaming ==
    ASSUME QosInv, Remembered, NEW h \in Half, Throttle(h)
    PROVE  heard'[Head(queue[h]).far] >= 0
<1> DEFINE p == Head(queue[h])
<1>1. Limited(p, h) /\ heard' = Heard(p) /\ queue[h] # <<>>
  BY DEF Throttle
<1>0. p \in Packets
  BY <1>1, NextPacket
<1> HIDE DEF p
<1>2. p.far \in Host /\ Observed(p)[p.far] >= 0
  BY <1>1, LimitedFar
<1>3. Observed(p)[p.far] <= Heard(p)[p.far]
  BY <1>0, <1>2, ObservedRemembered DEF QosInv
<1>4. Observed(p)[p.far] \in Int /\ Heard(p)[p.far] \in Int
  BY <1>2, ObservedTypes, Constants DEF QosInv
<1> QED
  BY <1>1, <1>2, <1>3, <1>4 DEF p

\* Whatever the packets and the answers among them, at the client and at the
\* server: a packet goes through the limiter only if an answer has given its
\* far end to a streaming service within the TTL.
THEOREM QosThrottlesStreaming == Spec => OnlyStreamingThrottled
<1>1. QosInv /\ Remembered
          => \A h \in Half : Throttle(h) => heard'[Head(queue[h]).far] >= 0
  BY ThrottlesStreaming
<1> QED
  BY <1>1, QosInit, QosStep, RememberedInit, RememberedStep, PTL
     DEF Spec, OnlyStreamingThrottled

-----------------------------------------------------------------------------
(***************************************************************************)
(* What the rest of the traffic waits for: a streaming packet, and not     *)
(* longer than the limiter lets one sleep.                                 *)
(***************************************************************************)
HeardStreaming == \A a \in Host : heard[a] >= 0 => a \in Streaming

WaitsForStreaming ==
    \A h \in Half : pc[h] = "wait" => Head(queue[h]).far \in Streaming

HeldInv ==
    /\ LimiterP!SleepBound
    /\ HeardStreaming
    /\ WaitsForStreaming

LEMMA HeldInit == Init => HeldInv
<1> SUFFICES ASSUME Init PROVE HeldInv
  OBVIOUS
<1>1. LimiterP!SleepBound
  BY SameLimiter, LimiterFits, LimiterP!SleepInit DEF Init
<1>2. WaitsForStreaming
  BY DEF Init, Limiter!Init, WaitsForStreaming
<1>3. HeardStreaming
  BY DEF Init, HeardStreaming
<1> QED
  BY <1>1, <1>2, <1>3 DEF HeldInv

LEMMA HeardStep ==
    QosInv /\ HeardStreaming /\ [Next]_vars => HeardStreaming'
<1> SUFFICES ASSUME QosInv, HeardStreaming, [Next]_vars PROVE HeardStreaming'
  OBVIOUS
<1>1. CASE UNCHANGED <<remains, heard>>
  BY <1>1 DEF HeardStreaming
<1>2. CASE remains' = Aged(remains) /\ heard' = Aged(heard)
  BY <1>2, Constants DEF Aged, HeardStreaming, QosInv, SeenTypes
<1>3. ASSUME NEW p \in Packets, heard' = Heard(p)
      PROVE  HeardStreaming'
  BY <1>3, Constants DEF HeardStreaming, QosInv, SeenTypes, Heard, Streaming
<1> QED
  BY <1>1, <1>2, <1>3, SeenCases, NextPacket

\* The sleeps are those of the limiter, at every step of the relay.
LEMMA SleepsStep ==
    QosInv /\ LimiterP!SleepBound /\ [Next]_vars => LimiterP!SleepBound'
<1> SUFFICES ASSUME QosInv, LimiterP!SleepBound, [Next]_vars
             PROVE  LimiterP!SleepBound'
  OBVIOUS
<1>0. LimiterP!BucketInv
  BY DEF QosInv
<1>1. ASSUME UNCHANGED limVars PROVE LimiterP!SleepBound'
  BY <1>1 DEF limVars, LimiterP!SleepBound, LimiterP!AtLeast
<1>2. CASE UNCHANGED vars
  BY <1>1, <1>2 DEF vars
<1>3. CASE Tick
  BY <1>0, <1>3, SameLimiter, LimiterFits, LimiterP!SleepTick DEF Tick
<1>4. ASSUME NEW h \in Half, Arrive(h) \/ Forward(h) PROVE LimiterP!SleepBound'
  BY <1>1, <1>4 DEF Arrive, Forward
<1>5. ASSUME NEW h \in Half, Throttle(h) PROVE LimiterP!SleepBound'
  BY <1>0, <1>5, SameLimiter, LimiterFits, LimiterP!SleepCall DEF Throttle
<1>6. ASSUME NEW h \in Half, Pass(h) PROVE LimiterP!SleepBound'
  BY <1>0, <1>6, SameLimiter, LimiterFits, LimiterP!SleepAdmit DEF Pass
<1>7. ASSUME NEW h \in Half, Doze(h) PROVE LimiterP!SleepBound'
  BY <1>0, <1>7, SameLimiter, LimiterFits, LimiterP!SleepSleep DEF Doze
<1> QED
  BY <1>2, <1>3, <1>4, <1>5, <1>6, <1>7 DEF Next

\* A half starts to wait for a streaming packet, and that packet stays at the
\* head of its queue.
LEMMA WaitsStep ==
    QosInv /\ Remembered /\ HeardStreaming' /\ WaitsForStreaming /\ [Next]_vars
        => WaitsForStreaming'
<1> SUFFICES ASSUME QosInv, Remembered, HeardStreaming', WaitsForStreaming,
                    [Next]_vars, NEW h \in Half, pc'[h] = "wait"
             PROVE  Head(queue'[h]).far \in Streaming
  BY DEF WaitsForStreaming
<1>1. ASSUME pc[h] = "wait", Head(queue'[h]) = Head(queue[h])
      PROVE  Head(queue'[h]).far \in Streaming
  BY <1>1 DEF WaitsForStreaming
<1>0. /\ queue \in [Half -> Seq(Packets)]
      /\ pc[h] = "wait" => queue[h] # <<>>
      /\ pc \in [Half -> {"idle", "wait", "panicked"}]
  BY DEF QosInv, QueueTypes, AsksForHead, LimiterP!BucketInv, LimiterP!TypeOK
<1>2. CASE UNCHANGED vars
  BY <1>1, <1>2 DEF vars, limVars
<1>3. CASE Tick
  BY <1>1, <1>3 DEF Tick, Limiter!Tick
<1>4. ASSUME NEW g \in Half, Arrive(g)
      PROVE  Head(queue'[h]).far \in Streaming
  <2>1. PICK p \in Packets : queue' = [queue EXCEPT ![g] = Append(@, p)]
    BY <1>4 DEF Arrive
  <2>2. pc[h] = "wait"
    BY <1>4 DEF Arrive, limVars
  <2>3. Head(Append(queue[h], p)) = Head(queue[h])
    BY <1>0, <2>2, HeadTailAppend
  <2>4. queue'[h] \in {queue[h], Append(queue[h], p)}
    BY <1>0, <2>1
  <2> QED
    BY <1>1, <2>2, <2>3, <2>4
<1>5. ASSUME NEW g \in Half, Forward(g) \/ Pass(g)
      PROVE  Head(queue'[h]).far \in Streaming
  <2>1. /\ queue' = [queue EXCEPT ![g] = Tail(@)]
        /\ pc' = pc \/ pc' = [pc EXCEPT ![g] = "idle"]
        /\ pc'[g] = "idle"
    BY <1>0, <1>5 DEF Forward, Pass, AtNextPacket, limVars, Limiter!Admit
  <2>2. h # g
    BY <2>1
  <2> QED
    BY <1>0, <1>1, <2>1, <2>2
<1>6. ASSUME NEW g \in Half, Throttle(g)
      PROVE  Head(queue'[h]).far \in Streaming
  <2>1. /\ queue' = queue /\ pc' = [pc EXCEPT ![g] = "wait"] /\ queue[g] # <<>>
        /\ Limited(Head(queue[g]), g)
    BY <1>6 DEF Throttle, Limiter!Call
  <2>2. CASE h # g
    BY <1>0, <1>1, <2>1, <2>2
  <2>3. CASE h = g
    <3> DEFINE p == Head(queue[g])
    <3>1. heard'[p.far] >= 0
      BY <1>6, ThrottlesStreaming
    <3>2. p.far \in Host
      BY <2>1, LimitedFar
    <3> QED
      BY <2>1, <2>3, <3>1, <3>2 DEF HeardStreaming
  <2> QED
    BY <2>2, <2>3
<1>7. ASSUME NEW g \in Half, Doze(g)
      PROVE  Head(queue'[h]).far \in Streaming
  <2>1. queue' = queue /\ (pc' = pc \/ pc' = [pc EXCEPT ![g] = "panicked"])
    BY <1>7 DEF Doze, Limiter!Sleep
  <2> QED
    BY <1>0, <1>1, <2>1
<1> QED
  BY <1>2, <1>3, <1>4, <1>5, <1>6, <1>7 DEF Next

\* At the client and at the server, whatever the packets and however the halves
\* share the limiter: traffic behind a sleeping half waits for a packet of a
\* streaming service, and for no longer at a time than that packet and the debt
\* of one packet above the burst take to accrue.
THEOREM QosHeldBriefly == Spec => []OthersHeldBriefly
<1>1. QosInv /\ HeldInv => OthersHeldBriefly
  <2> SUFFICES ASSUME QosInv, HeldInv, NEW h \in Half, pc[h] = "wait"
               PROVE  /\ Head(queue[h]).far \in Streaming
                      /\ left[h] <= Head(queue[h]).len
                                        + Limiter!AtLeast(0, MaxPacket - burst)
    BY DEF OthersHeldBriefly
  <2>1. need[h] = Head(queue[h]).len
    BY DEF QosInv, AsksForHead
  <2>2. left[h] <= need[h] + LimiterP!AtLeast(0, MaxPacket - burst)
    BY DEF HeldInv, LimiterP!SleepBound
  <2>3. Limiter!AtLeast(0, MaxPacket - burst) = LimiterP!AtLeast(0, MaxPacket - burst)
    BY SameLimiter
  <2> QED
    BY <2>1, <2>2, <2>3 DEF HeldInv, WaitsForStreaming
<1>2. QosInv /\ Remembered /\ HeldInv /\ [Next]_vars => HeldInv'
  BY HeardStep, SleepsStep, WaitsStep DEF HeldInv
<1> QED
  BY <1>1, <1>2, QosInit, QosStep, RememberedInit, RememberedStep, HeldInit, PTL
  DEF Spec

-----------------------------------------------------------------------------
(***************************************************************************)
(* What is streaming is limited: at the client, if the answers name the    *)
(* service itself and not only an alias, and the addresses they give are   *)
(* met in IPv4 packets.                                                    *)
(***************************************************************************)
PlainAnswers ==
    \A p \in Packets : /\ Given(p) \subseteq Revealed(p)
                       /\ p.far \in Streaming => ParsesIpv4(p)

\* Every address of the history has an entry as long as its own.
NoneForgotten ==
    /\ \A a \in Host : heard[a] <= remains[a]
    /\ HeardStreaming

\* The excess of streaming traffic is in the bucket of the limiter.
MeterInBucket == meter <= burst - LimiterP!Level

LEMMA BoundedInit == Init => NoneForgotten /\ MeterInBucket
<1> SUFFICES ASSUME Init PROVE NoneForgotten /\ MeterInBucket
  OBVIOUS
<1>1. LimiterP!BucketInv
  BY QosInit DEF QosInv
<1>2. burst - LimiterP!Level >= 0
  BY <1>1, LimiterFits, LimiterP!LevelRange
<1> QED
  BY <1>2, HeldInit DEF Init, NoneForgotten, HeldInv, MeterInBucket

LEMMA NoneForgottenStep ==
    PlainAnswers /\ QosInv /\ NoneForgotten /\ [Next]_vars => NoneForgotten'
<1> SUFFICES ASSUME PlainAnswers, QosInv, NoneForgotten, [Next]_vars
             PROVE  NoneForgotten'
  OBVIOUS
<1>0. HeardStreaming'
  BY HeardStep DEF NoneForgotten
<1>1. CASE UNCHANGED <<remains, heard>>
  BY <1>0, <1>1 DEF NoneForgotten
<1>2. CASE remains' = Aged(remains) /\ heard' = Aged(heard)
  BY <1>0, <1>2, Constants DEF Aged, NoneForgotten, QosInv, SeenTypes
<1>3. ASSUME NEW p \in Packets, remains' = Observed(p), heard' = Heard(p)
      PROVE  NoneForgotten'
  BY <1>0, <1>3, Constants DEF PlainAnswers, NoneForgotten, QosInv, SeenTypes,
     Observed, Heard
<1> QED
  BY <1>1, <1>2, <1>3, SeenCases, NextPacket

\* At the client both halves look a packet up by its far end.
LEMMA ForwardsOthers ==
    ASSUME Role = "client", PlainAnswers, QosInv, NoneForgotten',
           NEW h \in Half, Forward(h)
    PROVE  meter' = meter
<1> DEFINE p == Head(queue[h])
<1>1. /\ queue[h] # <<>> /\ ~Limited(p, h)
      /\ remains' = Observed(p) /\ heard' = Heard(p)
      /\ meter' = IF Classified(heard', p.far) THEN meter + p.len ELSE meter
  BY DEF Forward
<1>2. p \in Packets
  BY <1>1, NextPacket
<1> HIDE DEF p
<1>3. LookedUp(p, h) = p.far
  BY DEF LookedUp, Dest, Src, Outward, Half
<1>4. ASSUME Classified(heard', p.far) PROVE FALSE
  <2>1. p.far \in Host /\ heard'[p.far] >= 0
    BY <1>4 DEF Classified
  <2>2. heard'[p.far] <= remains'[p.far] /\ p.far \in Streaming
    BY <2>1 DEF NoneForgotten, HeardStreaming
  <2>3. ParsesIpv4(p)
    BY <1>2, <2>2 DEF PlainAnswers
  <2>4. remains'[p.far] \in Int /\ heard'[p.far] \in Int
    BY <1>1, <2>1, ObservedTypes, Constants DEF QosInv
  <2>5. Observed(p)[p.far] >= 0
    BY <1>1, <2>1, <2>2, <2>4
  <2> QED
    BY <1>1, <1>3, <2>1, <2>3, <2>5 DEF Limited, Classified
<1> QED
  BY <1>1, <1>4

LEMMA MeterStep ==
    ASSUME Role = "client", PlainAnswers, QosInv, NoneForgotten, MeterInBucket,
           [Next]_vars
    PROVE  MeterInBucket'
<1> DEFINE lack == burst - LimiterP!Level
<1>0. meter \in Nat /\ lack \in Int /\ rate \in Nat /\ meter <= lack
  BY LimiterFits, LimiterP!LevelRange DEF QosInv, SeenTypes, MeterInBucket
<1>1. ASSUME UNCHANGED <<meter, limVars>> PROVE MeterInBucket'
  BY <1>1 DEF limVars, MeterInBucket, LimiterP!Level, LimiterP!AtMost
<1>2. CASE UNCHANGED vars
  BY <1>1, <1>2 DEF vars
<1>3. CASE Tick
  <2>1. Limiter!Tick /\ meter' = LimiterP!AtLeast(0, meter - rate)
    BY <1>3, SameLimiter DEF Tick
  <2>2. lack' = LimiterP!AtLeast(0, lack - rate)
    BY <2>1, SameLimiter, LimiterFits, LimiterP!LevelTick DEF QosInv
  <2> HIDE DEF lack
  <2>3. meter' <= lack'
    BY <1>0, <2>1, <2>2 DEF LimiterP!AtLeast
  <2> QED
    BY <2>3 DEF MeterInBucket, lack
<1>4. ASSUME NEW h \in Half, Arrive(h) PROVE MeterInBucket'
  BY <1>1, <1>4 DEF Arrive
<1>5. ASSUME NEW h \in Half, Forward(h) PROVE MeterInBucket'
  <2>1. meter' = meter
    BY <1>5, ForwardsOthers, NoneForgottenStep
  <2> QED
    BY <1>1, <1>5, <2>1 DEF Forward
<1>6. ASSUME NEW h \in Half, Throttle(h) \/ Doze(h) PROVE MeterInBucket'
  <2>1. meter' = meter /\ (Limiter!Call(h) \/ Limiter!Sleep(h))
    BY <1>6 DEF Throttle, Doze
  <2>2. LimiterP!Call(h) \/ LimiterP!Sleep(h)
    BY <2>1, SameLimiter
  <2>3. LimiterP!Level' = LimiterP!Level /\ burst' = burst
    BY <2>2, LimiterFits, LimiterP!LevelKept DEF QosInv
  <2> QED
    BY <2>1, <2>3 DEF MeterInBucket
<1>7. ASSUME NEW h \in Half, Pass(h) PROVE MeterInBucket'
  <2>1. Limiter!Admit(h) /\ meter' = meter + Head(queue[h]).len
    BY <1>7 DEF Pass
  <2>2. need[h] = Head(queue[h]).len
    BY <2>1 DEF Limiter!Admit, Limiter!Runs, QosInv, AsksForHead
  <2>3. lack' = lack + need[h] /\ need[h] \in 1..MaxPacket
    BY <2>1, SameLimiter, LimiterFits, LimiterP!LevelAdmit DEF QosInv
  <2> HIDE DEF lack
  <2>4. meter' <= lack'
    BY <1>0, <2>1, <2>2, <2>3, Constants
  <2> QED
    BY <2>4 DEF MeterInBucket, lack
<1> QED
  BY <1>2, <1>3, <1>4, <1>5, <1>6, <1>7 DEF Next

\* With answers of that kind, and both halves of the client's relay sharing the
\* limiter: the traffic of the streaming services stays within the configured
\* rate, but for one burst or one packet.
THEOREM QosBounded ==
    ASSUME Role = "client", PlainAnswers
    PROVE  Spec => []StreamingBounded
<1>1. QosInv /\ MeterInBucket => StreamingBounded
  <2> SUFFICES ASSUME QosInv, MeterInBucket PROVE StreamingBounded
    OBVIOUS
  <2>1. /\ LimiterP!Level \in Int /\ burst \in Nat /\ MaxPacket \in Nat
        /\ LimiterP!AtMost(burst, MaxPacket) - MaxPacket <= LimiterP!Level
    BY LimiterFits, LimiterP!LevelRange DEF QosInv
  <2>2. burst - LimiterP!Level <= Limiter!AtLeast(burst, MaxPacket)
    BY <2>1 DEF LimiterP!AtMost, Limiter!AtLeast
  <2>3. meter \in Nat
    BY DEF QosInv, SeenTypes
  <2> QED
    BY <2>1, <2>2, <2>3 DEF MeterInBucket, StreamingBounded, Limiter!AtLeast
<1>2. QosInv /\ NoneForgotten /\ MeterInBucket /\ [Next]_vars
          => NoneForgotten' /\ MeterInBucket'
  BY NoneForgottenStep, MeterStep
<1> QED
  BY <1>1, <1>2, QosInit, QosStep, BoundedInit, PTL DEF Spec
=============================================================================
