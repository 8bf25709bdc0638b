---------------------------- MODULE RateLimiter -----------------------------
(***************************************************************************)
(* The token bucket of src/src/qos.rs, shared by every relay future that   *)
(* forwards classified packets.                                            *)
(*                                                                         *)
(* Time is counted in the tokens it is worth: accrued is the refill due    *)
(* for the time since state.last, and left[c] the refill that must still   *)
(* come due before the sleep of c is over.  One Tick is worth rate tokens. *)
(***************************************************************************)
EXTENDS Integers

CONSTANTS Consumers,   \* the futures that call consume
          Rates,       \* rates, in bytes per tick, that may be configured
          BurstTicks,  \* the burst, in ticks: half a second in the code
          MaxPacket    \* the largest packet a consumer may ask for

ASSUME LimiterAssumption ==
    /\ Rates \subseteq Nat
    /\ BurstTicks \in Nat
    /\ MaxPacket \in Nat

VARIABLES
    rate,     \* rate_bytes_per_sec
    burst,    \* burst_bytes
    tokens,   \* state.tokens
    accrued,  \* the refill due since state.last
    pc,       \* "idle", "wait" (in consume) or "panicked"
    need,     \* the bytes that c asks for
    left      \* what remains of the sleep of c

vars == <<rate, burst, tokens, accrued, pc, need, left>>

TypeOK ==
    /\ rate \in Nat
    /\ burst \in Nat
    /\ tokens \in Int
    /\ accrued \in Nat
    /\ pc \in [Consumers -> {"idle", "wait", "panicked"}]
    /\ need \in [Consumers -> 0..MaxPacket]
    /\ left \in [Consumers -> Nat]

AtMost(a, b) == IF a <= b THEN a ELSE b
AtLeast(a, b) == IF a >= b THEN a ELSE b

-----------------------------------------------------------------------------
\* RateLimiter::new: the bucket starts full.  The rate comes from qos.toml,
\* which is not validated: 0 is a rate like any other.
Init ==
    /\ rate \in Rates
    /\ burst = rate * BurstTicks
    /\ tokens = burst
    /\ accrued = 0
    /\ pc = [c \in Consumers |-> "idle"]
    /\ need = [c \in Consumers |-> 0]
    /\ left = [c \in Consumers |-> 0]

\* Mutant: the refill is not capped by the burst.
LevelUncapped == tokens + accrued

\* The tokens after the refill at the start of each turn of the loop.
Level == AtMost(tokens + accrued, burst)

\* Mutant: a request above the burst waits for all of its bytes.
WholeRequest(n) == n

\* Mutant: a request may go into debt whenever there is anything left.
AnyTokens(n) == AtMost(AtMost(n, 1), burst)

\* The tokens that must be there for a request of n bytes to pass.
Target(n) == AtMost(n, burst)

\* Mutant: state.last is moved to when the sleep will be over.
AccruedAhead == 0 - rate

\* What is due for the time since state.last, once it has been set to now.
AccruedAfterRefill == 0

\* A relay future calls consume for a classified packet of n bytes.
Call(c) ==
    /\ pc[c] = "idle"
    /\ pc' = [pc EXCEPT ![c] = "wait"]
    /\ need' \in {[need EXCEPT ![c] = n] : n \in 1..MaxPacket}
    /\ UNCHANGED <<rate, burst, tokens, accrued, left>>

\* c is in consume, and not asleep.
Runs(c) == pc[c] = "wait" /\ left[c] = 0

\* One turn of the loop finds the tokens: they are taken, into debt if the
\* request is above the burst, and consume returns.
Admit(c) ==
    /\ Runs(c)
    /\ Level >= Target(need[c])
    /\ tokens' = Level - need[c]
    /\ accrued' = AccruedAfterRefill
    /\ pc' = [pc EXCEPT ![c] = "idle"]
    /\ need' = [need EXCEPT ![c] = 0]
    /\ UNCHANGED <<rate, burst, left>>

\* One turn of the loop does not: c sleeps for the time that the deficit takes
\* to accrue.  At rate 0 that time is infinite and Duration::from_secs_f64
\* panics.
Sleep(c) ==
    /\ Runs(c)
    /\ Level < Target(need[c])
    /\ tokens' = Level
    /\ accrued' = AccruedAfterRefill
    /\ IF rate = 0
       THEN pc' = [pc EXCEPT ![c] = "panicked"] /\ UNCHANGED left
       ELSE left' = [left EXCEPT ![c] = Target(need[c]) - Level] /\ UNCHANGED pc
    /\ UNCHANGED <<rate, burst, need>>

\* Time passes.  Once the bucket would be full, more of it changes nothing.
Tick ==
    /\ accrued' = IF tokens + accrued >= burst THEN accrued ELSE accrued + rate
    /\ left' = [c \in Consumers |-> AtLeast(0, left[c] - rate)]
    /\ UNCHANGED <<rate, burst, tokens, pc, need>>

Next ==
    \/ Tick
    \/ \E c \in Consumers :
          \/ Call(c)
          \/ Admit(c)
          \/ Sleep(c)

Spec == Init /\ [][Next]_vars

\* Time passes and tokio runs every future whose sleep is over.
FairSpec ==
    /\ Spec
    /\ WF_vars(Tick)
    /\ \A c \in Consumers : WF_vars(Admit(c) \/ Sleep(c))

-----------------------------------------------------------------------------
(***************************************************************************)
(* Properties.                                                             *)
(***************************************************************************)

\* The limiter implements the leaky bucket: whatever the consumers, the sizes
\* of their packets and the moments at which they wake, no more is let through
\* than the configured rate allows (consume).
Shaper == INSTANCE LeakyBucket WITH meter <- burst - Level, cap <- burst

ShaperSpec == Shaper!Spec

\* The debt that a request above the burst leaves behind is bounded by that
\* one request: it is never taken on top of the debt of another.
DebtBound == tokens >= AtMost(burst, MaxPacket) - MaxPacket

\* The consumers cannot all wait for good: as long as one of them is inside
\* consume, requests keep being admitted.
SomeoneIsServed ==
    \/ []<><<\E c \in Consumers : Admit(c)>>_vars
    \/ <>[](\A c \in Consumers : pc[c] # "wait")

\* A call of consume returns if the other consumers leave the limiter alone, also
\* for a request above the burst, and at a rate that is not 0.  Without that
\* condition it may not: others with smaller requests can take the tokens each
\* time before the sleep of a large one is over.
LoneIsServed ==
    \A c \in Consumers :
        <>[](\A d \in Consumers \ {c} : pc[d] # "wait")
            => (pc[c] = "wait" ~> pc[c] # "wait")
=============================================================================
