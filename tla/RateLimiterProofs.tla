------------------------- MODULE RateLimiterProofs --------------------------
(***************************************************************************)
(* Proofs about RateLimiter, for any set of consumers, any rates, burst    *)
(* and packet sizes: the debt bound, and that the token bucket implements  *)
(* the leaky bucket.                                                       *)
(***************************************************************************)
EXTENDS RateLimiter, TLAPS

\* The token bucket with its consumers: never above the burst, the debt
\* bounded by one request, and every waiting consumer asks for something.
BucketInv ==
    /\ TypeOK
    /\ tokens <= burst
    /\ DebtBound
    /\ \A c \in Consumers : pc[c] = "wait" => need[c] \in 1..MaxPacket

LEMMA BucketInit == Init => BucketInv
<1> SUFFICES ASSUME Init PROVE BucketInv
  OBVIOUS
<1>1. rate \in Nat /\ burst \in Nat
  BY LimiterAssumption DEF Init
<1>2. TypeOK
  BY <1>1, LimiterAssumption DEF Init, TypeOK
<1>3. DebtBound
  BY <1>1, LimiterAssumption DEF Init, DebtBound, AtMost
<1> QED
  BY <1>1, <1>2, <1>3 DEF Init, BucketInv

\* The level lies between the tokens and the burst.
LEMMA LevelRange ==
    ASSUME BucketInv
    PROVE  /\ Level \in Int /\ tokens <= Level /\ Level <= burst
           /\ tokens \in Int /\ burst \in Nat /\ rate \in Nat
           /\ accrued \in Nat /\ MaxPacket \in Nat
           /\ AtMost(burst, MaxPacket) - MaxPacket <= Level
  BY LimiterAssumption DEF BucketInv, TypeOK, DebtBound, Level, AtMost

LEMMA BucketTick == BucketInv /\ Tick => BucketInv'
<1> SUFFICES ASSUME BucketInv, Tick PROVE BucketInv'
  OBVIOUS
<1>1. /\ accrued' \in Nat /\ UNCHANGED <<rate, burst, tokens, pc, need>>
      /\ rate \in Nat
  BY DEF BucketInv, TypeOK, Tick
<1>2. left' \in [Consumers -> Nat]
  BY <1>1 DEF BucketInv, TypeOK, Tick, AtLeast
<1> QED
  BY <1>1, <1>2 DEF BucketInv, TypeOK, DebtBound, AtMost

LEMMA BucketCall ==
    ASSUME BucketInv, NEW c \in Consumers, Call(c)
    PROVE  BucketInv'
<1>1. PICK n \in 1..MaxPacket : need' = [need EXCEPT ![c] = n]
  BY DEF Call
<1>2. /\ pc' = [pc EXCEPT ![c] = "wait"]
      /\ UNCHANGED <<rate, burst, tokens, accrued, left>>
  BY DEF Call
<1>3. TypeOK'
  BY <1>1, <1>2, LimiterAssumption DEF BucketInv, TypeOK
<1>4. \A d \in Consumers : pc'[d] = "wait" => need'[d] \in 1..MaxPacket
  BY <1>1, <1>2 DEF BucketInv, TypeOK
<1> QED
  BY <1>2, <1>3, <1>4 DEF BucketInv, DebtBound, AtMost

LEMMA BucketAdmit ==
    ASSUME BucketInv, NEW c \in Consumers, Admit(c)
    PROVE  BucketInv'
<1>1. need[c] \in 1..MaxPacket
  BY DEF BucketInv, Admit, Runs
<1>2. /\ tokens' = Level - need[c] /\ accrued' = 0
      /\ Level >= AtMost(need[c], burst)
      /\ pc' = [pc EXCEPT ![c] = "idle"] /\ need' = [need EXCEPT ![c] = 0]
      /\ UNCHANGED <<rate, burst, left>>
  BY DEF Admit, Target, AccruedAfterRefill
<1>3. /\ tokens' \in Int /\ tokens' <= burst
      /\ tokens' >= AtMost(burst, MaxPacket) - MaxPacket
  BY <1>1, <1>2, LevelRange DEF AtMost
<1>4. TypeOK'
  BY <1>2, <1>3, LimiterAssumption DEF BucketInv, TypeOK
<1>5. \A d \in Consumers : pc'[d] = "wait" => need'[d] \in 1..MaxPacket
  BY <1>2 DEF BucketInv, TypeOK
<1> QED
  BY <1>2, <1>3, <1>4, <1>5 DEF BucketInv, DebtBound, AtMost

LEMMA BucketSleep ==
    ASSUME BucketInv, NEW c \in Consumers, Sleep(c)
    PROVE  BucketInv'
<1>1. /\ tokens' = Level /\ accrued' = 0 /\ Level < Target(need[c])
      /\ UNCHANGED <<rate, burst, need>>
  BY DEF Sleep, AccruedAfterRefill
<1>2. /\ pc' \in [Consumers -> {"idle", "wait", "panicked"}]
      /\ \A d \in Consumers : pc'[d] = "wait" => pc[d] = "wait"
  BY DEF Sleep, BucketInv, TypeOK
<1>3. left' \in [Consumers -> Nat]
  <2>1. Target(need[c]) - Level \in Nat
    BY <1>1, LevelRange, LimiterAssumption
       DEF Target, AtMost, BucketInv, TypeOK
  <2> QED
    BY <2>1 DEF Sleep, BucketInv, TypeOK
<1>4. tokens' \in Int /\ tokens' <= burst
      /\ tokens' >= AtMost(burst, MaxPacket) - MaxPacket
  BY <1>1, LevelRange DEF AtMost
<1>5. TypeOK'
  BY <1>1, <1>2, <1>3, <1>4 DEF BucketInv, TypeOK
<1> QED
  BY <1>1, <1>2, <1>4, <1>5 DEF BucketInv, DebtBound, AtMost

LEMMA BucketStep == BucketInv /\ [Next]_vars => BucketInv'
<1> SUFFICES ASSUME BucketInv, [Next]_vars PROVE BucketInv'
  OBVIOUS
<1>1. CASE UNCHANGED vars
  BY <1>1 DEF vars, BucketInv, TypeOK, DebtBound, AtMost
<1>2. CASE Next
  BY <1>2, BucketTick, BucketCall, BucketAdmit, BucketSleep DEF Next
<1> QED
  BY <1>1, <1>2

\* The types of the limiter's state: time owed and sleeps are never negative.
\* The tokens may be.
THEOREM LimiterTypes == Spec => []TypeOK
<1>1. BucketInv => TypeOK
  BY DEF BucketInv
<1> QED
  BY <1>1, BucketInit, BucketStep, PTL DEF Spec

\* The tokens are never below the debt of one largest packet (DebtBound), for
\* any number of consumers that share the limiter.
THEOREM LimiterDebt == Spec => []DebtBound
<1>1. BucketInv => DebtBound
  BY DEF BucketInv
<1> QED
  BY <1>1, BucketInit, BucketStep, PTL DEF Spec

-----------------------------------------------------------------------------
(***************************************************************************)
(* Refinement of the leaky bucket: its meter is what the level lacks to    *)
(* the burst.                                                              *)
(***************************************************************************)

\* How the steps change what the level lacks.
LEMMA LevelTick ==
    ASSUME BucketInv, Tick
    PROVE  /\ burst' - Level' = AtLeast(0, (burst - Level) - rate)
           /\ UNCHANGED <<rate, burst>>
<1>1. /\ accrued' = IF tokens + accrued >= burst
                    THEN accrued ELSE accrued + rate
      /\ tokens' = tokens /\ burst' = burst /\ rate' = rate
  BY DEF Tick
<1> QED
  BY <1>1, LevelRange DEF Level, AtMost, AtLeast

LEMMA LevelKept ==
    ASSUME BucketInv, NEW c \in Consumers, Call(c) \/ Sleep(c)
    PROVE  UNCHANGED <<Level, rate, burst>>
<1>1. CASE Call(c)
  BY <1>1 DEF Call, Level, AtMost
<1>2. CASE Sleep(c)
  <2>1. tokens' = Level /\ accrued' = 0 /\ burst' = burst /\ rate' = rate
    BY <1>2 DEF Sleep, AccruedAfterRefill
  <2>2. Level' = AtMost(Level + 0, burst)
    BY <2>1 DEF Level
  <2>3. Level' = Level
    BY <2>2, LevelRange DEF AtMost
  <2> QED
    BY <2>1, <2>3
<1> QED
  BY <1>1, <1>2

LEMMA LevelAdmit ==
    ASSUME BucketInv, NEW c \in Consumers, Admit(c)
    PROVE  /\ need[c] \in 1..MaxPacket /\ Level >= AtMost(need[c], burst)
           /\ burst' - Level' = (burst - Level) + need[c]
           /\ UNCHANGED <<rate, burst>>
<1>1. /\ need[c] \in 1..MaxPacket /\ tokens' = Level - need[c]
      /\ accrued' = 0 /\ Level >= AtMost(need[c], burst)
      /\ burst' = burst /\ rate' = rate
  BY DEF Admit, AccruedAfterRefill, Target, BucketInv, Runs
<1>2. Level' = AtMost((Level - need[c]) + 0, burst)
  BY <1>1 DEF Level
<1>3. burst' - Level' = (burst - Level) + need[c]
  BY <1>1, <1>2, LevelRange DEF AtMost
<1> QED
  BY <1>1, <1>3

LEMMA ShaperInit == Init => Shaper!Init
<1> SUFFICES ASSUME Init PROVE Shaper!Init
  OBVIOUS
<1>1. rate \in Nat /\ burst \in Nat /\ tokens = burst /\ accrued = 0
  BY LimiterAssumption DEF Init
<1>2. burst - Level = 0
  BY <1>1 DEF Level, AtMost
<1> QED
  BY <1>2 DEF Init, Shaper!Init

LEMMA ShaperStep ==
    BucketInv /\ [Next]_vars => [Shaper!Next]_<<burst - Level, rate, burst>>
<1> SUFFICES ASSUME BucketInv, [Next]_vars
             PROVE  Shaper!Next \/ UNCHANGED <<burst - Level, rate, burst>>
  OBVIOUS
<1>1. CASE UNCHANGED vars
  BY <1>1 DEF vars, Level, AtMost
<1>2. CASE Tick
  <2>1. burst' - Level' = Shaper!AtLeast(0, (burst - Level) - rate)
    BY <1>2, LevelTick DEF AtLeast, Shaper!AtLeast
  <2> QED
    BY <1>2, <2>1, LevelTick DEF Shaper!Next, Shaper!Drain
<1>3. ASSUME NEW c \in Consumers, Call(c) \/ Sleep(c)
      PROVE  UNCHANGED <<burst - Level, rate, burst>>
  BY <1>3, LevelKept
<1>4. ASSUME NEW c \in Consumers, Admit(c)
      PROVE  Shaper!Next
  <2>1. (burst - Level) + Shaper!AtMost(need[c], burst) <= burst
    BY <1>4, LevelAdmit, LevelRange DEF AtMost, Shaper!AtMost
  <2>2. Shaper!Admit(need[c])
    BY <1>4, <2>1, LevelAdmit DEF Shaper!Admit
  <2> QED
    BY <1>4, <2>2, LevelAdmit DEF Shaper!Next
<1> QED
  BY <1>1, <1>2, <1>3, <1>4 DEF Next

\* The token bucket of consume implements the leaky bucket (ShaperSpec): the
\* traffic let through conforms to the configured rate, whichever consumers
\* share the limiter and whenever they wake.
THEOREM LimiterShapes == Spec => ShaperSpec
<1>1. Spec => [][BucketInv /\ [Next]_vars]_vars
  BY BucketInit, BucketStep, PTL DEF Spec
<1> QED
  BY ShaperInit, ShaperStep, BucketInit, BucketStep, PTL
     DEF Spec, ShaperSpec, Shaper!Spec

\* So the excess over the rate is never more than the burst, or one packet.
THEOREM LimiterMeter == Spec => []Shaper!MeterBound
<1>1. BucketInv => Shaper!MeterBound
  BY LevelRange DEF Shaper!MeterBound, Shaper!AtLeast, AtMost
<1> QED
  BY <1>1, BucketInit, BucketStep, PTL DEF Spec

-----------------------------------------------------------------------------
(***************************************************************************)
(* The sleeps: nobody sleeps but in consume, and no sleep is longer than   *)
(* the request and the debt of one packet above the burst take to accrue.  *)
(***************************************************************************)
SleepBound ==
    \A c \in Consumers :
        /\ pc[c] # "wait" => left[c] = 0
        /\ pc[c] = "wait" => left[c] <= need[c] + AtLeast(0, MaxPacket - burst)

LEMMA SleepInit == Init => SleepBound
  BY DEF Init, SleepBound

LEMMA SleepTick == BucketInv /\ SleepBound /\ Tick => SleepBound'
<1> SUFFICES ASSUME BucketInv, SleepBound, Tick, NEW c \in Consumers
             PROVE  /\ pc'[c] # "wait" => left'[c] = 0
                    /\ pc'[c] = "wait" =>
                          left'[c] <= need'[c] + AtLeast(0, MaxPacket' - burst')
  BY DEF SleepBound
<1>1. /\ left'[c] = AtLeast(0, left[c] - rate) /\ left[c] \in Nat /\ rate \in Nat
      /\ UNCHANGED <<burst, pc, need>>
  BY DEF Tick, BucketInv, TypeOK
<1>2. left'[c] \in Nat /\ left'[c] <= left[c]
  BY <1>1 DEF AtLeast
<1>3. /\ AtLeast(0, MaxPacket - burst) \in Nat /\ need[c] \in Nat
      /\ burst \in Nat
  BY LimiterAssumption DEF AtLeast, BucketInv, TypeOK
<1> QED
  BY <1>1, <1>2, <1>3 DEF SleepBound

LEMMA SleepCall ==
    ASSUME BucketInv, SleepBound, NEW c \in Consumers, Call(c)
    PROVE  SleepBound'
<1>1. PICK n \in 1..MaxPacket : need' = [need EXCEPT ![c] = n]
  BY DEF Call
<1>2. /\ pc[c] = "idle" /\ pc' = [pc EXCEPT ![c] = "wait"]
      /\ UNCHANGED <<burst, left>>
  BY DEF Call
<1>3. AtLeast(0, MaxPacket - burst) \in Nat /\ n \in Nat
  BY LimiterAssumption DEF AtLeast, BucketInv, TypeOK
<1>4. ASSUME NEW d \in Consumers, d # c
      PROVE  pc'[d] = pc[d] /\ need'[d] = need[d]
  BY <1>1, <1>2, <1>4 DEF BucketInv, TypeOK
<1>5. need'[c] = n /\ pc'[c] = "wait" /\ left[c] = 0
  BY <1>1, <1>2 DEF SleepBound, BucketInv, TypeOK
<1> QED
  BY <1>2, <1>3, <1>4, <1>5 DEF SleepBound

LEMMA SleepAdmit ==
    ASSUME BucketInv, SleepBound, NEW c \in Consumers, Admit(c)
    PROVE  SleepBound'
<1>1. /\ left[c] = 0 /\ pc' = [pc EXCEPT ![c] = "idle"]
      /\ need' = [need EXCEPT ![c] = 0] /\ UNCHANGED <<burst, left>>
  BY DEF Admit, Runs
<1>2. pc'[c] = "idle" /\ \A d \in Consumers : d # c => pc'[d] = pc[d] /\ need'[d] = need[d]
  BY <1>1 DEF BucketInv, TypeOK
<1> QED
  BY <1>1, <1>2 DEF SleepBound

LEMMA SleepSleep ==
    ASSUME BucketInv, SleepBound, NEW c \in Consumers, Sleep(c)
    PROVE  SleepBound'
<1>1. /\ left[c] = 0 /\ pc[c] = "wait" /\ UNCHANGED <<burst, need>>
      /\ pc' = pc \/ (pc' = [pc EXCEPT ![c] = "panicked"] /\ left' = left)
      /\ left' = left \/ (left' = [left EXCEPT ![c] = Target(need[c]) - Level] /\ pc' = pc)
  BY DEF Sleep, Runs
<1>2. CASE left' = left
  <2>1. \A d \in Consumers : pc'[d] = pc[d] \/ (d = c /\ pc'[d] = "panicked")
    BY <1>1, <1>2 DEF BucketInv, TypeOK
  <2> QED
    BY <1>1, <1>2, <2>1 DEF SleepBound
<1>3. CASE left' = [left EXCEPT ![c] = Target(need[c]) - Level] /\ pc' = pc
  <2>1. /\ left'[c] = Target(need[c]) - Level
        /\ \A d \in Consumers : d # c => left'[d] = left[d]
    BY <1>3 DEF BucketInv, TypeOK
  <2>2. need[c] \in 1..MaxPacket
    BY <1>1 DEF BucketInv
  <2>3. Target(need[c]) - Level <= need[c] + AtLeast(0, MaxPacket - burst)
    BY <2>2, LevelRange DEF Target, AtMost, AtLeast
  <2> QED
    BY <1>1, <1>3, <2>1, <2>3 DEF SleepBound
<1> QED
  BY <1>1, <1>2, <1>3

\* Whoever else uses the bucket, no sleep of consume is longer than the request
\* and the debt of one packet above the burst take to accrue.
THEOREM LimiterSleeps == Spec => []SleepBound
<1>1. BucketInv /\ SleepBound /\ [Next]_vars => SleepBound'
  <2>1. ASSUME BucketInv, SleepBound, UNCHANGED vars PROVE SleepBound'
    BY <2>1 DEF vars, SleepBound, AtLeast
  <2> QED
    BY <2>1, SleepTick, SleepCall, SleepAdmit, SleepSleep DEF Next
<1> QED
  BY <1>1, SleepInit, BucketInit, BucketStep, PTL DEF Spec
=============================================================================
