----------------------------- MODULE GuiProofs -----------------------------
(***************************************************************************)
(* Proofs about Gui, and with it about SpeedTest and History, for any      *)
(* number of tasks, commands, records and events: the types, the button,   *)
(* the list of records, the consent of the users, and the records of the   *)
(* file.                                                                   *)
(***************************************************************************)
EXTENDS Gui, HistoryProofs

-----------------------------------------------------------------------------
(***************************************************************************)
(* The commands.                                                           *)
(***************************************************************************)
\* A command that asks has no consent yet, one that is over none any more.
Unagreed == {"ended", "killed", "panicked", "asking"}

Asking == \A c \in Command : doing[c] \in Unagreed => ~agreed[c]

CommandsInv == SpeedTestTypeOK /\ ConsentFirst /\ Asking

\* A watch with its user's consent ends by itself in this step only if it
\* panics over an interval of 0.
WatchStep ==
    \A c \in Command :
        mode[c] = "watch" /\ agreed[c] /\ doing'[c] \in {"ended", "panicked"}
            => doing[c] = "starting" /\ interval[c] = 0

LEMMA CommandsStart == HistoryInit /\ SpeedTestInit => CommandsInv
  BY SpeedTestAssumption
     DEF HistoryInit, SpeedTestInit, CommandsInv, SpeedTestTypeOK, ConsentFirst,
         Asking, Unagreed, Mode, DefaultMinutes

\* Who appends changes no other writer's stage.
LEMMA StageOfOthers ==
    ASSUME HistoryTypeOK, NEW w \in Writer,
           Open(w) \/ AppendStep(w) \/ AppendCut(w)
    PROVE  /\ \A v \in Writer : v # w => stage'[v] = stage[v]
           /\ Open(w) => stage[w] = "idle" /\ stage'[w] = "opened"
           /\ WriteText(w) => stage[w] = "opened" /\ stage'[w] = "texted"
           /\ WriteNewline(w) => stage[w] = "texted" /\ stage'[w] = "idle"
           /\ AppendCut(w) => stage'[w] = "idle"
<1>1. stage \in [Writer -> {"idle", "opened", "texted"}]
  BY DEF HistoryTypeOK
<1> QED
  BY <1>1 DEF Open, AppendStep, WriteText, WriteNewline, AppendCut

\* What a step of one command has to respect.
LEMMA OneCommand ==
    ASSUME CommandsInv, NEW c \in Command,
           mode' \in [Command -> Mode], agreed' \in [Command -> BOOLEAN],
           interval' \in [Command -> Nat],
           doing' \in [Command -> {"ended", "killed", "panicked", "asking", "starting",
                                  "waiting", "measuring", "appending"}],
           \A d \in Command : d # c =>
               /\ mode'[d] = mode[d] /\ agreed'[d] = agreed[d]
               /\ doing'[d] = doing[d] /\ stage'[d] = stage[d],
           (doing'[c] = "appending") <=> (stage'[c] # "idle"),
           doing'[c] \in {"starting", "waiting", "measuring", "appending"}
               /\ mode'[c] # "manual" => agreed'[c],
           doing'[c] \in Unagreed => ~agreed'[c],
           mode[c] = "watch" /\ agreed[c] /\ doing'[c] \in {"ended", "panicked"}
               => doing[c] = "starting" /\ interval[c] = 0
    PROVE  CommandsInv' /\ WatchStep
<1>1. SpeedTestTypeOK'
  BY DEF CommandsInv, SpeedTestTypeOK
<1>2. ConsentFirst' /\ Asking'
  BY DEF CommandsInv, ConsentFirst, Asking
<1>3. WatchStep
  BY DEF CommandsInv, Asking, Unagreed, WatchStep
<1> QED
  BY <1>1, <1>2, <1>3 DEF CommandsInv

LEMMA CommandStep ==
    ASSUME HistoryTypeOK, CommandsInv, NEW c \in Command, CommandNext(c)
    PROVE  /\ CommandsInv' /\ WatchStep
           /\ Open(c) \/ AppendStep(c) \/ AppendCut(c) \/ UNCHANGED fileVars
<1> DEFINE Doing == {"ended", "killed", "panicked", "asking", "starting",
                     "waiting", "measuring", "appending"}
           Others == \A d \in Command : d # c =>
                         /\ mode'[d] = mode[d] /\ agreed'[d] = agreed[d]
                         /\ doing'[d] = doing[d]
           Types == /\ mode' \in [Command -> Mode] /\ agreed' \in [Command -> BOOLEAN]
                    /\ interval' \in [Command -> Nat]
                    /\ doing' \in [Command -> Doing]
           Stages == \A d \in Command : d # c => stage'[d] = stage[d]
<1>1. /\ mode \in [Command -> Mode] /\ agreed \in [Command -> BOOLEAN]
      /\ interval \in [Command -> Nat]
      /\ doing \in [Command -> Doing]
      /\ (doing[c] = "appending") <=> (stage[c] # "idle")
      /\ doing[c] \in {"starting", "waiting", "measuring", "appending"}
            /\ mode[c] # "manual" => agreed[c]
      /\ doing[c] \in Unagreed => ~agreed[c]
      /\ c \in Writer /\ Command \subseteq Writer
  BY SpeedTestAssumption DEF CommandsInv, SpeedTestTypeOK, ConsentFirst, Asking
<1>2. ASSUME NEW next \in Doing, Does(c, next)
      PROVE  /\ Types /\ Others /\ doing'[c] = next
             /\ mode'[c] = mode[c] /\ agreed'[c] = agreed[c]
  BY <1>1, <1>2 DEF Does
<1>3. ASSUME NEW how \in Doing, Over(c, how)
      PROVE  /\ Types /\ Others /\ doing'[c] = how
             /\ mode'[c] = "run" /\ agreed'[c] = FALSE
  BY <1>1, <1>3 DEF Over, Mode, DefaultMinutes
<1>4. ASSUME UNCHANGED fileVars PROVE Stages /\ stage'[c] = stage[c]
  BY <1>4 DEF fileVars
<1>5. ASSUME Open(c) \/ AppendStep(c) \/ AppendCut(c)
      PROVE  /\ Stages
             /\ Open(c) => stage[c] = "idle" /\ stage'[c] = "opened"
             /\ WriteText(c) => stage[c] = "opened" /\ stage'[c] = "texted"
             /\ WriteNewline(c) => stage[c] = "texted" /\ stage'[c] = "idle"
             /\ AppendCut(c) => stage'[c] = "idle"
  BY <1>1, <1>5, StageOfOthers
<1> DEFINE Ok == /\ (doing'[c] = "appending") <=> (stage'[c] # "idle")
                 /\ doing'[c] \in {"starting", "waiting", "measuring", "appending"}
                        /\ mode'[c] # "manual" => agreed'[c]
                 /\ doing'[c] \in Unagreed => ~agreed'[c]
                 /\ mode[c] = "watch" /\ agreed[c] /\ doing'[c] \in {"ended", "panicked"}
                        => doing[c] = "starting" /\ interval[c] = 0
<1>6. ASSUME Types, Others, Stages, Ok PROVE CommandsInv' /\ WatchStep
  BY <1>6, OneCommand
\* What follows a measurement, whether it is appended or not.
<1>7. ASSUME doing[c] \in {"measuring", "appending"}, AfterMeasurement(c),
             stage'[c] = "idle"
      PROVE  Types /\ Others /\ Ok
  <2>1. CASE mode[c] = "watch"
    <3>1. Does(c, "waiting")
      BY <1>7, <2>1 DEF AfterMeasurement
    <3> QED
      BY <1>1, <1>2, <1>7, <2>1, <3>1 DEF Unagreed
  <2>2. CASE mode[c] # "watch"
    <3>1. Over(c, "ended")
      BY <1>7, <2>2 DEF AfterMeasurement
    <3> QED
      BY <1>1, <1>3, <1>7, <2>2, <3>1 DEF Unagreed
  <2> QED
    BY <2>1, <2>2
<1>8. FirstStep("watch") = "starting" /\ \A m : m # "watch" => FirstStep(m) = "measuring"
  BY DEF FirstStep
<1>10. CASE Launch(c)
  <2>0. interval' \in [Command -> Nat]
    BY <1>1, <1>10, SpeedTestAssumption DEF Launch
  <2>1. PICK m \in {"run", "watch"}, yes \in BOOLEAN :
            /\ mode' = [mode EXCEPT ![c] = m]
            /\ agreed' = [agreed EXCEPT ![c] = yes]
            /\ doing' = [doing EXCEPT ![c] = IF yes THEN FirstStep(m) ELSE "asking"]
            /\ doing[c] = "ended" /\ UNCHANGED fileVars
    BY <1>10 DEF Launch
  <2>2. /\ Types /\ Others
        /\ agreed'[c] = yes
        /\ doing'[c] = IF yes THEN FirstStep(m) ELSE "asking"
    BY <1>1, <1>8, <2>0, <2>1 DEF Mode
  <2>3. Ok
    BY <1>1, <1>4, <1>8, <2>1, <2>2 DEF Unagreed
  <2> QED
    BY <1>4, <1>6, <2>1, <2>2, <2>3
<1>11. CASE Manual(c)
  <2>1. /\ mode' = [mode EXCEPT ![c] = "manual"]
        /\ doing' = [doing EXCEPT ![c] = "appending"]
        /\ agreed' = agreed /\ interval' = interval /\ doing[c] = "ended" /\ Open(c)
    BY <1>11 DEF Manual
  <2>2. Types /\ Others /\ mode'[c] = "manual" /\ doing'[c] = "appending"
    BY <1>1, <2>1 DEF Mode
  <2>3. Ok
    BY <1>5, <2>1, <2>2 DEF Unagreed
  <2> QED
    BY <1>5, <1>6, <2>1, <2>2, <2>3
<1>12. CASE Agree(c)
  <2>1. /\ agreed' = [agreed EXCEPT ![c] = TRUE]
        /\ doing' = [doing EXCEPT ![c] = FirstStep(mode[c])]
        /\ mode' = mode /\ interval' = interval /\ doing[c] = "asking"
        /\ UNCHANGED fileVars
    BY <1>12 DEF Agree
  <2>2. Types /\ Others /\ agreed'[c] /\ doing'[c] \in {"starting", "measuring"}
    BY <1>1, <1>8, <2>1
  <2>3. Ok
    BY <1>1, <1>4, <2>1, <2>2 DEF Unagreed
  <2> QED
    BY <1>4, <1>6, <2>1, <2>2, <2>3
<1>13. CASE Decline(c)
  <2>1. doing[c] = "asking" /\ Over(c, "ended") /\ UNCHANGED fileVars
    BY <1>13 DEF Decline
  <2>2. Types /\ Others /\ Ok
    BY <1>1, <1>3, <1>4, <2>1 DEF Unagreed
  <2> QED
    BY <1>4, <1>6, <2>1, <2>2
<1>14. CASE WatchTick(c)
  <2>1. doing[c] = "waiting" /\ Does(c, "measuring") /\ UNCHANGED fileVars
    BY <1>14 DEF WatchTick
  <2>2. Types /\ Others /\ Ok
    BY <1>1, <1>2, <1>4, <2>1 DEF Unagreed
  <2> QED
    BY <1>4, <1>6, <2>1, <2>2
<1>15. CASE CommandMeasures(c)
  <2>1. doing[c] = "measuring" /\ Does(c, "appending") /\ Open(c)
    BY <1>15 DEF CommandMeasures
  <2>2. Types /\ Others /\ Ok
    BY <1>1, <1>2, <1>5, <2>1 DEF Unagreed
  <2> QED
    BY <1>5, <1>6, <2>1, <2>2
<1>16. CASE CommandFails(c)
  <2>1. doing[c] = "measuring" /\ AfterMeasurement(c) /\ UNCHANGED fileVars
    BY <1>16 DEF CommandFails
  <2>2. Types /\ Others /\ Ok
    BY <1>1, <1>4, <1>7, <2>1 DEF Unagreed
  <2> QED
    BY <1>4, <1>6, <2>1, <2>2
<1>17. CASE CommandAppends(c)
  <2>1. /\ doing[c] = "appending" /\ AppendStep(c)
        /\ IF stage'[c] = "idle" THEN AfterMeasurement(c) ELSE UNCHANGED commandVars
    BY <1>17 DEF CommandAppends
  <2>2. CASE stage'[c] = "idle"
    <3>1. Types /\ Others /\ Ok
      BY <1>7, <2>1, <2>2 DEF Unagreed
    <3> QED
      BY <1>5, <1>6, <2>1, <3>1
  <2>3. CASE stage'[c] # "idle"
    <3>1. UNCHANGED commandVars
      BY <2>1, <2>3
    <3>2. Types /\ Others /\ Ok
      BY <1>1, <2>1, <2>3, <3>1 DEF commandVars, Unagreed
    <3> QED
      BY <1>5, <1>6, <2>1, <3>2
  <2> QED
    BY <2>2, <2>3
<1>18. CASE CommandAppendErr(c)
  <2>1. doing[c] = "appending" /\ AppendCut(c) /\ AfterMeasurement(c)
    BY <1>18 DEF CommandAppendErr
  <2>2. Types /\ Others /\ Ok
    BY <1>5, <1>7, <2>1 DEF Unagreed
  <2> QED
    BY <1>5, <1>6, <2>1, <2>2
<1>19. CASE Kill(c)
  <2>1. /\ IF doing[c] = "appending" THEN AppendCut(c) ELSE UNCHANGED fileVars
        /\ Over(c, IF mode[c] = "watch" THEN "killed" ELSE "ended")
    BY <1>19 DEF Kill
  <2>2. Stages /\ stage'[c] = "idle"
    BY <1>1, <1>4, <1>5, <2>1
  <2>3. PICK how \in {"killed", "ended"} :
            Over(c, how) /\ (how = "ended" => mode[c] # "watch")
    BY <2>1
  <2>4. Types /\ Others /\ Ok
    BY <1>1, <1>3, <2>2, <2>3 DEF Unagreed
  <2> QED
    BY <1>6, <2>1, <2>2, <2>4
<1>20. CASE StartTicker(c)
  <2>1. /\ doing[c] = "starting" /\ UNCHANGED fileVars
        /\ IF interval[c] = 0 THEN Over(c, "panicked") ELSE Does(c, "waiting")
    BY <1>20 DEF StartTicker
  <2>2. CASE interval[c] = 0
    <3>1. Types /\ Others /\ Ok
      BY <1>1, <1>3, <1>4, <2>1, <2>2 DEF Unagreed
    <3> QED
      BY <1>4, <1>6, <2>1, <3>1
  <2>3. CASE interval[c] # 0
    <3>1. Types /\ Others /\ Ok
      BY <1>1, <1>2, <1>4, <2>1, <2>3 DEF Unagreed
    <3> QED
      BY <1>4, <1>6, <2>1, <3>1
  <2> QED
    BY <2>2, <2>3
<1> QED
  BY <1>10, <1>11, <1>12, <1>13, <1>14, <1>15, <1>16, <1>17, <1>18, <1>19,
     <1>20 DEF CommandNext

-----------------------------------------------------------------------------
(***************************************************************************)
(* The list: the records in a sequence, and each of them once.             *)
(***************************************************************************)
Listed(q) == Elements(q) \ {0}

Unique(q) == \A i, j \in 1..Len(q) : q[i] # 0 /\ q[i] = q[j] => i = j

\* What is shown with what the channel will add to it.
WithEvents(s, e) == s \o [i \in 1..Len(e) |-> e[i].record]

LEMMA InListed ==
    ASSUME NEW q, NEW x
    PROVE  x \in Listed(q) <=> x # 0 /\ \E i \in 1..Len(q) : q[i] = x
  BY ZenonT(30) DEF Listed, Elements

\* A sequence read at other places: the same records if no record is left out.
LEMMA SameListed ==
    ASSUME NEW q \in Seq(Nat), NEW p \in Seq(Nat), NEW at \in [1..Len(p) -> 1..Len(q)],
           \A i \in 1..Len(p) : p[i] = q[at[i]],
           \A i, j \in 1..Len(p) : at[i] = at[j] => i = j,
           \A k \in 1..Len(q) : q[k] # 0 => \E i \in 1..Len(p) : at[i] = k
    PROVE  Listed(p) = Listed(q) /\ (Unique(q) => Unique(p))
<1>0. \A i \in 1..Len(p) : at[i] \in 1..Len(q)
  OBVIOUS
<1>1. ASSUME NEW x \in Listed(p) PROVE x \in Listed(q)
  <2>1. PICK i \in 1..Len(p) : p[i] = x /\ x # 0
    BY InListed
  <2>2. q[at[i]] = x
    BY <2>1
  <2> QED
    BY <1>0, <2>1, <2>2, InListed
<1>2. ASSUME NEW x \in Listed(q) PROVE x \in Listed(p)
  <2>1. PICK k \in 1..Len(q) : q[k] = x /\ x # 0
    BY InListed
  <2>2. PICK i \in 1..Len(p) : at[i] = k
    BY <2>1
  <2> QED
    BY <2>1, <2>2, InListed
<1>3. ASSUME Unique(q) PROVE Unique(p)
  <2> SUFFICES ASSUME NEW i \in 1..Len(p), NEW j \in 1..Len(p), p[i] # 0, p[i] = p[j]
               PROVE  i = j
    BY DEF Unique
  <2>1. /\ at[i] \in 1..Len(q) /\ at[j] \in 1..Len(q)
        /\ q[at[i]] # 0 /\ q[at[i]] = q[at[j]]
    BY <1>0
  <2>2. at[i] = at[j]
    BY <1>3, <2>1, Zenon DEF Unique
  <2> QED
    BY <2>2
<1> QED
  BY <1>1, <1>2, <1>3

LEMMA ListedAppend ==
    ASSUME NEW q \in Seq(Nat), NEW r \in Nat
    PROVE  /\ Append(q, r) \in Seq(Nat)
           /\ Listed(Append(q, r)) = Listed(q) \cup ({r} \ {0})
           /\ Unique(q) /\ r \notin Listed(q) => Unique(Append(q, r))
<1> DEFINE a == Append(q, r)
<1>1. /\ a \in Seq(Nat) /\ Len(q) \in Nat /\ Len(a) = Len(q) + 1
      /\ \A i \in 1..Len(q) : a[i] = q[i]
      /\ a[Len(q) + 1] = r /\ Elements(a) = Elements(q) \cup {r}
  BY AppendProperties, LenProperties, ElementsAppend
<1> HIDE DEF a
<1>2. ASSUME Unique(q), r \notin Listed(q) PROVE Unique(a)
  <2> SUFFICES ASSUME NEW i \in 1..Len(a), NEW j \in 1..Len(a), a[i] # 0, a[i] = a[j]
               PROVE  i = j
    BY DEF Unique
  <2>1. \A k \in 1..Len(q) : a[k] # 0 => a[k] # r
    BY <1>1, <1>2 DEF Listed, Elements
  <2>2. (i \in 1..Len(q) \/ i = Len(q) + 1) /\ (j \in 1..Len(q) \/ j = Len(q) + 1)
    BY <1>1
  <2> QED
    BY <1>1, <1>2, <2>1, <2>2 DEF Unique
<1> QED
  BY <1>1, <1>2 DEF a, Listed

LEMMA ListIs ==
    ASSUME NEW s \in Seq(Record), NEW e \in Seq(Event)
    PROVE  /\ WithEvents(s, e) \in Seq(Nat)
           /\ Len(s) \in Nat /\ Len(e) \in Nat
           /\ Len(WithEvents(s, e)) = Len(s) + Len(e)
           /\ \A i \in 1..Len(s) : WithEvents(s, e)[i] = s[i]
           /\ \A i \in 1..Len(e) : WithEvents(s, e)[Len(s) + i] = e[i].record
<1> DEFINE f == [i \in 1..Len(e) |-> e[i].record]
<1>1. \A v \in Event : v.record \in Nat
  BY RecordsPositive DEF Event, Started, Finished
<1>2. Len(e) \in Nat /\ Len(s) \in Nat /\ \A i \in 1..Len(e) : e[i] \in Event
  BY LenProperties, ElementOfSeq
<1>3. f \in [1..Len(e) -> Nat] /\ \A i \in 1..Len(e) : f[i] = e[i].record
  BY <1>1, <1>2
<1> HIDE DEF f
<1>4. f \in Seq(Nat) /\ Len(f) = Len(e)
  <2>1. f \in Seq(Nat)
    BY <1>2, <1>3, SeqDef
  <2>2. DOMAIN f = 1..Len(f) /\ Len(f) \in Nat /\ DOMAIN f = 1..Len(e)
    BY <1>3, <2>1, LenProperties
  <2>3. /\ Len(f) \in 1..Len(f) => Len(f) \in 1..Len(e)
        /\ Len(e) \in 1..Len(e) => Len(e) \in 1..Len(f)
    BY <2>2
  <2>4. ASSUME NEW l \in Nat, NEW n \in Nat, l \in 1..l => l \in 1..n,
               n \in 1..n => n \in 1..l
        PROVE  l = n
    BY <2>4
  <2>5. Len(f) = Len(e)
    BY <1>2, <2>2, <2>3, <2>4
  <2> QED
    BY <2>1, <2>5
<1>5. s \in Seq(Nat)
  <2>1. \A i \in 1..Len(s) : s[i] \in Record
    BY ElementOfSeq
  <2>2. s \in [1..Len(s) -> Nat]
    BY <2>1, RecordsPositive, LenProperties
  <2> QED
    BY <1>2, <2>2, SeqDef
<1>6. /\ s \o f \in Seq(Nat) /\ Len(s \o f) = Len(s) + Len(f)
      /\ \A i \in 1..Len(s) + Len(f) :
            (s \o f)[i] = IF i <= Len(s) THEN s[i] ELSE f[i - Len(s)]
  BY <1>4, <1>5, ConcatProperties
<1>7. WithEvents(s, e) = s \o f
  BY DEF WithEvents, f
<1> DEFINE g == s \o f
<1>8. /\ WithEvents(s, e) = g /\ g \in Seq(Nat) /\ Len(g) = Len(s) + Len(e)
      /\ \A i \in 1..Len(s) + Len(e) : g[i] = IF i <= Len(s) THEN s[i] ELSE f[i - Len(s)]
  BY <1>4, <1>6, <1>7
<1> HIDE DEF g
<1>9. ASSUME NEW i \in 1..Len(s) PROVE g[i] = s[i]
  <2>1. i \in 1..Len(s) + Len(e) /\ i <= Len(s)
    BY <1>2
  <2> QED
    BY <1>8, <2>1
<1>10. ASSUME NEW i \in 1..Len(e) PROVE g[Len(s) + i] = e[i].record
  <2>1. /\ Len(s) + i \in 1..Len(s) + Len(e) /\ ~(Len(s) + i <= Len(s))
        /\ (Len(s) + i) - Len(s) = i
    BY <1>2
  <2> QED
    BY <1>3, <1>8, <2>1
<1> QED
  BY <1>2, <1>8, <1>9, <1>10

\* An event that is sent comes to the end of the list.
LEMMA ListSend ==
    ASSUME NEW s \in Seq(Record), NEW e \in Seq(Event), NEW v \in Event
    PROVE  WithEvents(s, Append(e, v)) = Append(WithEvents(s, e), v.record)
<1> DEFINE a == Append(e, v)
           l == WithEvents(s, e)
           m == WithEvents(s, a)
           n == Append(l, v.record)
<1>1. /\ a \in Seq(Event) /\ Len(e) \in Nat /\ Len(a) = Len(e) + 1
      /\ \A i \in 1..Len(e) : a[i] = e[i]
      /\ a[Len(e) + 1] = v
  BY AppendProperties, LenProperties
<1>2. v.record \in Nat
  BY RecordsPositive DEF Event, Started, Finished
<1> HIDE DEF a
<1>3. /\ l \in Seq(Nat) /\ Len(s) \in Nat /\ Len(l) = Len(s) + Len(e)
      /\ \A i \in 1..Len(s) : l[i] = s[i]
      /\ \A i \in 1..Len(e) : l[Len(s) + i] = e[i].record
  BY ListIs
<1>4. /\ m \in Seq(Nat) /\ Len(m) = Len(s) + Len(a)
      /\ \A i \in 1..Len(s) : m[i] = s[i]
      /\ \A i \in 1..Len(a) : m[Len(s) + i] = a[i].record
  BY <1>1, ListIs
<1> HIDE DEF l, m
<1>5. /\ n \in Seq(Nat) /\ Len(n) = Len(l) + 1
      /\ \A i \in 1..Len(l) : n[i] = l[i]
      /\ n[Len(l) + 1] = v.record
  BY <1>2, <1>3, AppendProperties
<1> HIDE DEF n
<1>6. Len(m) = Len(n)
  BY <1>1, <1>3, <1>4, <1>5
<1>7. ASSUME NEW i \in 1..Len(m) PROVE m[i] = n[i]
  <2>1. CASE i \in 1..Len(s)
    <3>1. i \in 1..Len(l)
      BY <1>1, <1>3, <2>1
    <3> QED
      BY <1>3, <1>4, <1>5, <2>1, <3>1
  <2>2. CASE i \in Len(s) + 1 .. Len(s) + Len(e)
    <3>1. PICK k \in 1..Len(e) : i = Len(s) + k
      <4>1. i - Len(s) \in 1..Len(e) /\ i = Len(s) + (i - Len(s))
        BY <1>1, <1>3, <2>2
      <4> QED
        BY <4>1
    <3>2. k \in 1..Len(a) /\ Len(s) + k \in 1..Len(l)
      BY <1>1, <1>3
    <3>3. m[i] = e[k].record
      BY <1>1, <1>4, <3>1, <3>2
    <3>4. n[i] = e[k].record
      BY <1>3, <1>5, <3>1, <3>2
    <3> QED
      BY <3>3, <3>4
  <2>3. CASE i = Len(s) + (Len(e) + 1)
    <3>1. Len(e) + 1 \in 1..Len(a) /\ i = Len(l) + 1
      BY <1>1, <1>3, <2>3
    <3> QED
      BY <1>1, <1>4, <1>5, <2>3, <3>1
  <2>4. \/ i \in 1..Len(s) \/ i \in Len(s) + 1 .. Len(s) + Len(e)
        \/ i = Len(s) + (Len(e) + 1)
    <3>1. Len(s) \in Nat /\ Len(e) \in Nat /\ i \in 1..(Len(s) + (Len(e) + 1))
      BY <1>1, <1>3, <1>4
    <3>2. ASSUME NEW x \in Nat, NEW y \in Nat, NEW k \in 1..(x + (y + 1))
          PROVE  k \in 1..x \/ k \in x + 1 .. x + y \/ k = x + (y + 1)
      OBVIOUS
    <3> QED
      BY <3>1, <3>2
  <2> QED
    BY <2>1, <2>2, <2>3, <2>4
<1>8. m = n
  BY <1>4, <1>5, <1>6, <1>7, SeqEqual
<1> QED
  BY <1>8 DEF a, l, m, n

\* An event that is handled stays in the list, if it carries a record.
LEMMA ListHandle ==
    ASSUME NEW s \in Seq(Record), NEW e \in Seq(Event), e # <<>>
    PROVE  LET left == Tail(e)
               r == Head(e).record
               kept == IF r = 0 THEN s ELSE Append(s, r)
           IN  /\ left \in Seq(Event) /\ kept \in Seq(Record)
               /\ Listed(WithEvents(kept, left)) = Listed(WithEvents(s, e))
               /\ Unique(WithEvents(s, e)) => Unique(WithEvents(kept, left))
<1> DEFINE d == Tail(e)
           r == Head(e).record
           k == IF r = 0 THEN s ELSE Append(s, r)
           q == WithEvents(s, e)
           p == WithEvents(k, d)
<1>1. /\ Len(e) \in Nat /\ Len(e) >= 1 /\ e[1] = Head(e) /\ d \in Seq(Event)
      /\ Len(d) = Len(e) - 1 /\ \A i \in 1..Len(d) : d[i] = e[i + 1]
      /\ Head(e) \in Event
  BY HeadTailProperties, LenProperties, EmptySeq
<1>2. r \in 0..MaxRecords /\ e[1].record = r
  <2>1. \A v \in Event : v.record \in 0..MaxRecords
    BY HistoryAssumption DEF Event, Started, Finished
  <2> QED
    BY <1>1, <2>1
<1> HIDE DEF r, d
<1>3. k \in Seq(Record) /\ (r = 0 => k = s)
  <2>1. r # 0 => r \in Record
    BY <1>2, HistoryAssumption DEF Record
  <2> QED
    BY <2>1, AppendProperties
<1>4. r # 0 => /\ Len(k) = Len(s) + 1 /\ k[Len(s) + 1] = r
               /\ \A i \in 1..Len(s) : k[i] = s[i]
  BY <1>2, AppendProperties, HistoryAssumption DEF Record
<1> HIDE DEF k
<1>5. /\ q \in Seq(Nat) /\ Len(s) \in Nat /\ Len(q) = Len(s) + Len(e)
      /\ \A i \in 1..Len(s) : q[i] = s[i]
      /\ \A i \in 1..Len(e) : q[Len(s) + i] = e[i].record
  BY ListIs
<1>6. /\ p \in Seq(Nat) /\ Len(k) \in Nat /\ Len(p) = Len(k) + Len(d)
      /\ \A i \in 1..Len(k) : p[i] = k[i]
      /\ \A i \in 1..Len(d) : p[Len(k) + i] = d[i].record
  BY <1>1, <1>3, ListIs
<1> HIDE DEF p, q
<1> DEFINE same == Listed(p) = Listed(q) /\ (Unique(q) => Unique(p))
<1>10. /\ Len(s) \in Nat /\ Len(e) \in Nat /\ Len(d) = Len(e) - 1 /\ Len(k) \in Nat
       /\ Len(q) = Len(s) + Len(e) /\ Len(p) = Len(k) + Len(d) /\ 1 <= Len(e)
  BY <1>1, <1>5, <1>6
<1>7. ASSUME r # 0 PROVE same
  <2>0. /\ Len(k) = Len(s) + 1 /\ k[Len(s) + 1] = r
        /\ \A i \in 1..Len(s) : k[i] = s[i]
    BY <1>4, <1>7
  <2>1. Len(p) = Len(q)
    BY <1>10, <2>0
  <2>2. ASSUME NEW i \in 1..Len(p) PROVE p[i] = q[i]
    <3>1. CASE i \in 1..Len(s)
      <4>1. i \in 1..Len(k)
        BY <1>10, <2>0, <3>1
      <4> QED
        BY <1>5, <1>6, <2>0, <3>1, <4>1
    <3>2. CASE i = Len(s) + 1
      <4>1. i \in 1..Len(k) /\ 1 \in 1..Len(e)
        BY <1>10, <2>0, <3>2
      <4> QED
        BY <1>2, <1>5, <1>6, <2>0, <3>2, <4>1
    <3>3. CASE i \in Len(s) + 2 .. Len(s) + Len(e)
      <4>1. PICK j \in 1..Len(d) : /\ i = Len(k) + j /\ i = Len(s) + (j + 1)
                                  /\ j + 1 \in 1..Len(e)
        <5>1. /\ i - (Len(s) + 1) \in 1..Len(d) /\ i = Len(k) + (i - (Len(s) + 1))
              /\ i = Len(s) + ((i - (Len(s) + 1)) + 1)
              /\ (i - (Len(s) + 1)) + 1 \in 1..Len(e)
          BY <1>10, <2>0, <3>3
        <5> QED
          BY <5>1
      <4>2. p[i] = e[j + 1].record
        BY <1>1, <1>6, <4>1
      <4>3. q[i] = e[j + 1].record
        BY <1>5, <4>1
      <4> QED
        BY <4>2, <4>3
    <3>4. i \in 1..Len(s) \/ i = Len(s) + 1 \/ i \in Len(s) + 2 .. Len(s) + Len(e)
      <4>1. Len(s) \in Nat /\ Len(e) \in Nat /\ i \in 1..(Len(s) + Len(e))
        BY <1>1, <1>5, <2>1
      <4>2. ASSUME NEW x \in Nat, NEW y \in Nat, NEW n \in 1..(x + y)
            PROVE  n \in 1..x \/ n = x + 1 \/ n \in x + 2 .. x + y
        OBVIOUS
      <4> QED
        BY <4>1, <4>2
    <3> QED
      BY <3>1, <3>2, <3>3, <3>4
  <2>3. p = q
    BY <1>5, <1>6, <2>1, <2>2, SeqEqual
  <2> QED
    BY <2>3
<1>8. ASSUME r = 0 PROVE same
  <2>1. Len(k) = Len(s) /\ (\A i \in 1..Len(s) : k[i] = s[i]) /\ Len(p) = Len(q) - 1
    BY <1>1, <1>3, <1>5, <1>6, <1>8
  <2> DEFINE at == [i \in 1..Len(p) |-> IF i <= Len(s) THEN i ELSE i + 1]
  <2>2. Len(p) \in Nat /\ Len(q) = Len(p) + 1 /\ Len(s) <= Len(p)
    BY <1>1, <1>5, <1>6, <2>1
  <2>3. at \in [1..Len(p) -> 1..Len(q)]
    BY SMTT(30), <1>5, <2>2
  <2>4. \A i, j \in 1..Len(p) : at[i] = at[j] => i = j
    BY <1>10, <2>2
  <2>5. ASSUME NEW i \in 1..Len(p) PROVE p[i] = q[at[i]]
    <3>1. CASE i <= Len(s)
      <4>1. at[i] = i /\ i \in 1..Len(s)
        BY <1>5, <3>1
      <4> QED
        BY <1>5, <1>6, <2>1, <4>1
    <3>2. CASE ~(i <= Len(s))
      <4>1. at[i] = i + 1
        BY <3>2
      <4>2. PICK j \in 1..Len(d) : /\ i = Len(k) + j /\ i + 1 = Len(s) + (j + 1)
                                  /\ j + 1 \in 1..Len(e)
        <5>1. /\ i - Len(s) \in 1..Len(d) /\ i = Len(k) + (i - Len(s))
              /\ i + 1 = Len(s) + ((i - Len(s)) + 1)
              /\ (i - Len(s)) + 1 \in 1..Len(e)
          BY <1>10, <2>1, <3>2
        <5> QED
          BY <5>1
      <4>3. p[i] = e[j + 1].record
        BY <1>1, <1>6, <4>2
      <4>4. q[at[i]] = e[j + 1].record
        BY <1>5, <4>1, <4>2
      <4> QED
        BY <4>3, <4>4
    <3> QED
      BY <3>1, <3>2
  <2>6. ASSUME NEW n \in 1..Len(q), q[n] # 0 PROVE \E i \in 1..Len(p) : at[i] = n
    <3>1. n # Len(s) + 1
      <4>1. 1 \in 1..Len(e) /\ q[Len(s) + 1] = e[1].record
        BY SMTT(30), <1>1, <1>5
      <4> QED
        BY <1>2, <1>8, <2>6, <4>1
    <3>2. CASE n <= Len(s)
      <4>1. n \in 1..Len(p) /\ at[n] = n
        BY <1>5, <2>2, <3>2
      <4> QED
        BY <4>1
    <3>3. CASE ~(n <= Len(s))
      <4>1. n - 1 \in 1..Len(p) /\ ~(n - 1 <= Len(s)) /\ (n - 1) + 1 = n
        BY SMTT(30), <1>5, <2>2, <3>1, <3>3
      <4>2. at[n - 1] = n
        BY <4>1
      <4> QED
        BY <4>1, <4>2
    <3> QED
      BY <3>2, <3>3
  <2> HIDE DEF at
  <2> QED
    BY <1>5, <1>6, <2>3, <2>4, <2>5, <2>6, SameListed
<1>9. same
  BY <1>7, <1>8
<1> QED
  BY <1>1, <1>3, <1>9 DEF d, r, k, q, p

-----------------------------------------------------------------------------
(***************************************************************************)
(* The invariant of the window.                                            *)
(***************************************************************************)
\* Only a loop is told to stop.
StopsLoops == \A t \in Task : stop[t] => kind[t] = "auto"

\* A task appends as long as append_history runs for it.
TaskStages == \A t \in Task : (task[t] = "appending") <=> (stage[t] # "idle")

\* What self.measuring is once the channel is empty.
FinallyOn ==
    IF events = <<>> THEN measuring ELSE events[Len(events)].type = "started"

\* The button stays disabled for no measurement but one that still runs.
FinalBusy == FinallyOn => ~Quiet

\* The records that the measurements of the window have saved.
Mine == {s[2] : s \in {s \in saved : s[1] \in Task}}

\* A result to report is a record of its own, saved and not yet sent.
Results ==
    \A t \in Task : result[t] # 0 =>
        /\ task[t] = "reporting" /\ result[t] \in Mine
        /\ result[t] \notin Listed(Reported)
        /\ \A u \in Task : result[u] = result[t] => u = t

\* The list and the results to report are what is saved.
ListInv ==
    /\ \A r \in Mine : r \in Listed(Reported) \/ \E t \in Task : result[t] = r
    /\ Listed(Reported) \subseteq Mine
    /\ Unique(Reported)
    /\ Results

GuiInv ==
    /\ HistoryInv
    /\ CommandsInv
    /\ GuiTypeOK
    /\ StopsLoops
    /\ TaskStages
    /\ FinalBusy
    /\ ListInv

LEMMA GuiStart == Init => GuiInv
<1> SUFFICES ASSUME Init PROVE GuiInv
  OBVIOUS
<1>1. HistoryInv /\ CommandsInv
  BY HistoryStart, CommandsStart DEF Init
<1>2. MaxRecords \in Nat
  BY HistoryAssumption
<1>3. GuiTypeOK /\ StopsLoops /\ TaskStages
  <2>1. \A S : <<>> \in Seq(S)
    BY EmptySeq
  <2>2. events \in Seq(Event) /\ shown \in Seq(Record)
    BY <2>1, Zenon DEF Init
  <2>3. \A t \in Task : stage[t] = "idle" /\ task[t] = "free"
    BY GuiAssumption DEF Init, HistoryInit
  <2>4. GuiTypeOK
    <3>1. /\ task = [t \in Task |-> "free"] /\ kind = [t \in Task |-> "manual"]
          /\ stop = [t \in Task |-> FALSE] /\ result = [t \in Task |-> 0]
          /\ measuring = FALSE /\ auto = FALSE /\ autoTask = "none"
      BY DEF Init
    <3>2. 0 \in 0..MaxRecords
      BY <1>2
    <3>3. /\ result \in [Task -> 0..MaxRecords]
          /\ task \in [Task -> {"free", "waiting", "measuring", "appending", "reporting"}]
          /\ kind \in [Task -> {"manual", "auto"}] /\ stop \in [Task -> BOOLEAN]
          /\ \A t \in Task : kind[t] = "manual" /\ ~stop[t]
      BY <3>1, <3>2
    <3> QED
      BY <2>2, <3>1, <3>3 DEF GuiTypeOK
  <2> QED
    BY <2>3, <2>4 DEF Init, StopsLoops, TaskStages
<1>4. FinalBusy
  BY DEF Init, FinalBusy, FinallyOn
<1>5. ListInv
  <2>1. Len(Reported) = 0 /\ events \in Seq(Event) /\ shown \in Seq(Record)
    <3>1. shown \in Seq(Record) /\ events \in Seq(Event)
      BY <1>3 DEF GuiTypeOK
    <3>2. Len(WithEvents(shown, events)) = Len(shown) + Len(events)
      BY <3>1, ListIs
    <3>3. Len(shown) = 0 /\ Len(events) = 0
      BY DEF Init
    <3>4. Reported = WithEvents(shown, events)
      BY DEF Reported, WithEvents
    <3> QED
      BY <3>1, <3>2, <3>3, <3>4
  <2>2. \A i \in 1..Len(Reported) : FALSE
    BY <2>1
  <2>3. Listed(Reported) = {} /\ Unique(Reported)
    BY <2>2, Zenon DEF Listed, Elements, Unique
  <2>4. Mine = {} /\ \A t \in Task : result[t] = 0
    BY DEF Init, HistoryInit, Mine
  <2> QED
    BY <2>3, <2>4 DEF ListInv, Results
<1> QED
  BY <1>1, <1>3, <1>4, <1>5 DEF GuiInv

-----------------------------------------------------------------------------
(***************************************************************************)
(* The steps: what they do to the tasks, to the button, to the list.       *)
(***************************************************************************)
LEMMA FileStep ==
    ASSUME GuiInv, [Next]_vars
    PROVE  HistoryInv'
<1>1. HistoryNext \/ UNCHANGED fileVars
  <2>1. ASSUME NEW c \in Command, CommandNext(c)
        PROVE  HistoryNext \/ UNCHANGED fileVars
    BY <2>1, CommandStep, SpeedTestAssumption DEF GuiInv, HistoryInv, HistoryNext
  <2>2. Task \subseteq Writer
    BY GuiAssumption
  <2>3. CASE Next
    <3>1. ASSUME NEW t \in Task, Measurement(t) PROVE HistoryNext \/ UNCHANGED fileVars
      BY <2>2, <3>1 DEF Measurement, MeasureOk, MeasureErr, TaskAppend, Report, HistoryNext
    <3>2. ASSUME NEW t \in Task, AutoTick(t) \/ AutoStop(t) PROVE UNCHANGED fileVars
      BY <3>2 DEF AutoTick, AutoStop
    <3>3. ASSUME NEW t \in Task, TaskAppendErr(t) PROVE HistoryNext
      BY <2>2, <3>3 DEF TaskAppendErr, HistoryNext
    <3>4. CASE Click \/ AutoOn \/ AutoOff \/ Drain
      BY <3>4 DEF Click, AutoOn, AutoOff, Drain
    <3>5. CASE Elsewhere
      BY <2>1, <3>5 DEF Elsewhere, HistoryNext
    <3> QED
      BY <2>3, <3>1, <3>2, <3>3, <3>4, <3>5 DEF Next
  <2>4. CASE UNCHANGED vars
    BY <2>4 DEF vars
  <2> QED
    BY <2>3, <2>4
<1> QED
  BY <1>1, HistoryStep DEF GuiInv

LEMMA SameCommands ==
    ASSUME CommandsInv, UNCHANGED commandVars,
           \A c \in Command : stage'[c] = stage[c]
    PROVE  CommandsInv' /\ WatchStep
  BY DEF commandVars, CommandsInv, SpeedTestTypeOK, ConsentFirst, Asking, Unagreed,
         WatchStep

\* The writers of a step, if any, are one task or one command.
LEMMA TasksStep ==
    ASSUME GuiInv, NEW t \in Task, Measurement(t) \/ TaskAppendErr(t)
    PROVE  /\ UNCHANGED commandVars
           /\ \A w \in Writer : w # t => stage'[w] = stage[w]
<1>1. t \in Writer
  BY GuiAssumption
<1>2. CASE Open(t) \/ AppendStep(t) \/ AppendCut(t)
  <2>1. \A w \in Writer : w # t => stage'[w] = stage[w]
    BY <1>1, <1>2, StageOfOthers DEF GuiInv, HistoryInv
  <2> QED
    BY <2>1 DEF Measurement, MeasureOk, MeasureErr, TaskAppend, Report, TaskAppendErr
<1>3. CASE MeasureErr(t) \/ Report(t)
  BY <1>3 DEF MeasureErr, Report, fileVars
<1> QED
  BY <1>2, <1>3 DEF Measurement, MeasureOk, TaskAppend, TaskAppendErr

LEMMA ElsewhereStep ==
    ASSUME GuiInv, Elsewhere
    PROVE  /\ CommandsInv' /\ WatchStep
           /\ UNCHANGED guiVars /\ \A t \in Task : stage'[t] = stage[t]
<1>1. ASSUME NEW c \in Command, CommandNext(c)
      PROVE  CommandsInv' /\ WatchStep /\ \A t \in Task : stage'[t] = stage[t]
  <2>1. /\ CommandsInv' /\ WatchStep
        /\ Open(c) \/ AppendStep(c) \/ AppendCut(c) \/ UNCHANGED fileVars
    BY <1>1, CommandStep DEF GuiInv, HistoryInv
  <2>2. c \in Writer /\ \A t \in Task : t \in Writer /\ t # c
    BY GuiAssumption
  <2>3. \A t \in Task : stage'[t] = stage[t]
    <3>1. CASE Open(c) \/ AppendStep(c) \/ AppendCut(c)
      BY <2>2, <3>1, StageOfOthers DEF GuiInv, HistoryInv
    <3>2. CASE UNCHANGED fileVars
      BY <3>2 DEF fileVars
    <3> QED
      BY <2>1, <3>1, <3>2
  <2> QED
    BY <2>1, <2>3
<1>2. ASSUME PruneStep, UNCHANGED commandVars
      PROVE  CommandsInv' /\ WatchStep /\ stage' = stage
  <2>1. stage' = stage
    BY <1>2 DEF PruneStep, PruneLoad, PruneCopy, PruneRename, PruneCut
  <2> QED
    BY <1>2, <2>1, SameCommands DEF GuiInv
<1> QED
  BY <1>1, <1>2 DEF Elsewhere

LEMMA CommandsKept ==
    ASSUME GuiInv, [Next]_vars
    PROVE  CommandsInv' /\ WatchStep
<1>1. CASE Elsewhere
  BY <1>1, ElsewhereStep
<1>2. ASSUME NEW t \in Task, Measurement(t) \/ TaskAppendErr(t)
      PROVE  CommandsInv' /\ WatchStep
  <2>1. \A c \in Command : c \in Writer /\ c # t
    BY GuiAssumption
  <2>2. UNCHANGED commandVars /\ \A c \in Command : stage'[c] = stage[c]
    BY <1>2, <2>1, TasksStep
  <2> QED
    BY <2>2, SameCommands DEF GuiInv
<1>3. ASSUME UNCHANGED <<fileVars, commandVars>> PROVE CommandsInv' /\ WatchStep
  <2>1. \A c \in Command : stage'[c] = stage[c]
    BY <1>3 DEF fileVars
  <2> QED
    BY <1>3, <2>1, SameCommands DEF GuiInv
<1>4. ASSUME NEW t \in Task, AutoTick(t) \/ AutoStop(t)
      PROVE  UNCHANGED <<fileVars, commandVars>>
  BY <1>4 DEF AutoTick, AutoStop
<1>5. CASE Click \/ AutoOn \/ AutoOff \/ Drain \/ UNCHANGED vars
  <2>1. UNCHANGED <<fileVars, commandVars>>
    BY <1>5 DEF Click, AutoOn, AutoOff, Drain, vars
  <2> QED
    BY <1>3, <2>1
<1> QED
  BY <1>1, <1>2, <1>3, <1>4, <1>5 DEF Next

-----------------------------------------------------------------------------
\* The types of the window, what a loop is told and what its task does.
Window == GuiTypeOK /\ StopsLoops /\ TaskStages

LEMMA EventIs ==
    /\ Started \in Event
    /\ \A r \in 0..MaxRecords : Finished(r) \in Event
    /\ \A v \in Event : v.record \in 0..MaxRecords
    /\ Started.type = "started" /\ Started.record = 0
    /\ \A r : Finished(r).type = "finished" /\ Finished(r).record = r
<1>1. Started.type = "started" /\ Started.record = 0
  BY DEF Started
<1>2. \A r : Finished(r).type = "finished" /\ Finished(r).record = r
  BY DEF Finished
<1>3. Started \in Event /\ \A r \in 0..MaxRecords : Finished(r) \in Event
  BY DEF Event
<1>4. ASSUME NEW v \in Event PROVE v.record \in 0..MaxRecords
  <2>1. v = Started \/ \E r \in 0..MaxRecords : v = Finished(r)
    BY DEF Event
  <2>2. 0 \in 0..MaxRecords
    BY HistoryAssumption
  <2> QED
    BY <1>1, <1>2, <2>1, <2>2
<1> QED
  BY <1>1, <1>2, <1>3, <1>4

LEMMA WindowKept ==
    ASSUME GuiInv, [Next]_vars
    PROVE  Window'
<1> DEFINE Phase == {"free", "waiting", "measuring", "appending", "reporting"}
           SameStages == \A t \in Task : stage'[t] = stage[t]
<1>1. /\ measuring \in BOOLEAN /\ auto \in BOOLEAN /\ autoTask \in Task \cup {"none"}
      /\ task \in [Task -> Phase] /\ kind \in [Task -> {"manual", "auto"}]
      /\ stop \in [Task -> BOOLEAN] /\ result \in [Task -> 0..MaxRecords]
      /\ events \in Seq(Event) /\ shown \in Seq(Record)
      /\ \A t \in Task : task[t] = "free" => kind[t] = "manual" /\ ~stop[t]
      /\ auto => autoTask # "none" /\ kind[autoTask] = "auto" /\ ~stop[autoTask]
      /\ \A t \in Task : stop[t] => kind[t] = "auto"
      /\ \A t \in Task : (task[t] = "appending") <=> (stage[t] # "idle")
  BY DEF GuiInv, GuiTypeOK, StopsLoops, TaskStages
<1>2. ASSUME UNCHANGED fileVars PROVE SameStages
  BY <1>2 DEF fileVars
<1>3. \A v \in Event : Append(events, v) \in Seq(Event)
  BY <1>1, AppendProperties
\* What is left to show of a step that leaves the box and the loops alone.
<1>4. ASSUME UNCHANGED <<auto, autoTask, kind, stop>>, measuring' \in BOOLEAN,
             result' \in [Task -> 0..MaxRecords], events' \in Seq(Event),
             shown' \in Seq(Record), task' \in [Task -> Phase],
             \A t \in Task : task'[t] = "free" => task[t] = "free" \/ kind[t] = "manual",
             \A t \in Task : (task'[t] = "appending") <=> (stage'[t] # "idle")
      PROVE  Window'
  BY <1>1, <1>4 DEF Window, GuiTypeOK, StopsLoops, TaskStages
<1>5. CASE Click
  <2>1. PICK t \in Task : task[t] = "free" /\ task' = [task EXCEPT ![t] = "measuring"]
    BY <1>5 DEF Click
  <2>2. /\ measuring' = TRUE /\ events' = Append(events, Started)
        /\ UNCHANGED <<auto, autoTask, kind, stop, result, shown>> /\ SameStages
    BY <1>2, <1>5 DEF Click
  <2>3. events' \in Seq(Event)
    BY <1>3, <2>2, EventIs
  <2>4. /\ task' \in [Task -> Phase]
        /\ \A u \in Task : task'[u] = "free" => task[u] = "free"
        /\ \A u \in Task : (task'[u] = "appending") <=> (stage'[u] # "idle")
    BY <1>1, <2>1, <2>2
  <2> QED
    BY <1>1, <1>4, <2>2, <2>3, <2>4
<1>6. CASE AutoOn
  <2>1. PICK t \in Task : /\ task[t] = "free" /\ task' = [task EXCEPT ![t] = "waiting"]
                          /\ kind' = [kind EXCEPT ![t] = "auto"] /\ autoTask' = t
    BY <1>6 DEF AutoOn
  <2>2. /\ auto' = TRUE
        /\ UNCHANGED <<measuring, stop, result, events, shown>> /\ SameStages
    BY <1>2, <1>6 DEF AutoOn
  <2>3. GuiTypeOK'
    <3>1. /\ task' \in [Task -> Phase] /\ kind' \in [Task -> {"manual", "auto"}]
          /\ kind'[t] = "auto" /\ task'[t] = "waiting" /\ ~stop[t]
          /\ \A u \in Task : u # t => task'[u] = task[u] /\ kind'[u] = kind[u]
      BY <1>1, <2>1
    <3>2. t # "none"
      BY GuiAssumption
    <3>3. \A u \in Task : task'[u] = "free" => kind'[u] = "manual" /\ ~stop[u]
      BY <1>1, <3>1
    <3> QED
      BY <1>1, <2>1, <2>2, <3>1, <3>2, <3>3 DEF GuiTypeOK
  <2>4. StopsLoops' /\ TaskStages'
    BY <1>1, <2>1, <2>2 DEF StopsLoops, TaskStages
  <2> QED
    BY <2>3, <2>4 DEF Window
<1>7. CASE AutoOff
  <2>1. /\ auto /\ auto' = FALSE /\ stop' = [stop EXCEPT ![autoTask] = TRUE]
        /\ autoTask' = "none"
        /\ UNCHANGED <<measuring, task, kind, result, events, shown>> /\ SameStages
    BY <1>2, <1>7 DEF AutoOff, Signalled
  <2>2. autoTask \in Task
    BY <1>1, <2>1
  <2>3. stop' \in [Task -> BOOLEAN] /\ \A t \in Task : stop'[t] => kind[t] = "auto"
    BY <1>1, <2>1, <2>2
  <2>4. \A t \in Task : task[t] = "free" => ~stop'[t]
    BY <1>1, <2>3
  <2>5. GuiTypeOK'
    BY <1>1, <2>1, <2>3, <2>4 DEF GuiTypeOK
  <2>6. StopsLoops' /\ TaskStages'
    BY <1>1, <2>1, <2>3 DEF StopsLoops, TaskStages
  <2> QED
    BY <2>5, <2>6 DEF Window
<1>8. CASE Drain
  <2>1. /\ events # <<>> /\ measuring' = (Head(events).type = "started")
        /\ shown' = IF Head(events).record = 0 THEN shown
                    ELSE Append(shown, Head(events).record)
        /\ events' = Tail(events)
        /\ UNCHANGED <<auto, autoTask, task, kind, stop, result>> /\ SameStages
    BY <1>2, <1>8 DEF Drain, MeasuringAfter, EventsLeft
  <2>2. events' \in Seq(Event) /\ shown' \in Seq(Record)
    BY <1>1, <2>1, ListHandle
  <2>3. measuring' \in BOOLEAN
    BY <2>1, Zenon
  <2> QED
    BY <1>1, <1>4, <2>1, <2>2, <2>3
<1>9. ASSUME NEW t \in Task, AutoTick(t) PROVE Window'
  <2>1. /\ task[t] = "waiting" /\ task' = [task EXCEPT ![t] = "measuring"]
        /\ events' = Append(events, Started)
        /\ UNCHANGED <<measuring, auto, autoTask, kind, stop, result, shown>> /\ SameStages
    BY <1>2, <1>9 DEF AutoTick
  <2>2. events' \in Seq(Event)
    BY <1>3, <2>1, EventIs
  <2>3. /\ task' \in [Task -> Phase]
        /\ \A u \in Task : task'[u] = "free" => task[u] = "free"
        /\ \A u \in Task : (task'[u] = "appending") <=> (stage'[u] # "idle")
    BY <1>1, <2>1
  <2> QED
    BY <1>1, <1>4, <2>1, <2>2, <2>3
<1>10. ASSUME NEW t \in Task, AutoStop(t) PROVE Window'
  <2>1. /\ task[t] = "waiting" /\ stop[t] /\ task' = [task EXCEPT ![t] = "free"]
        /\ kind' = [kind EXCEPT ![t] = "manual"] /\ stop' = [stop EXCEPT ![t] = FALSE]
        /\ UNCHANGED <<measuring, auto, autoTask, result, events, shown>> /\ SameStages
    BY <1>2, <1>10 DEF AutoStop, StopConsumed
  <2>2. auto => autoTask # t
    BY <1>1, <2>1
  <2>3. GuiTypeOK'
    BY <1>1, <2>1, <2>2 DEF GuiTypeOK
  <2>4. StopsLoops' /\ TaskStages'
    BY <1>1, <2>1 DEF StopsLoops, TaskStages
  <2> QED
    BY <2>3, <2>4 DEF Window
<1>11. ASSUME NEW t \in Task, Measurement(t) \/ TaskAppendErr(t) PROVE Window'
  <2>1. /\ \A u \in Task : u # t => stage'[u] = stage[u]
        /\ t \in Writer
    BY <1>11, TasksStep, GuiAssumption
  <2>2. /\ Open(t) => stage'[t] = "opened"
        /\ WriteText(t) => stage'[t] = "texted"
        /\ WriteNewline(t) => stage'[t] = "idle"
        /\ AppendCut(t) => stage'[t] = "idle"
        /\ UNCHANGED fileVars => stage'[t] = stage[t]
    BY <1>2, <2>1, StageOfOthers DEF GuiInv, HistoryInv, AppendStep
  <2>3. record[t] \in 0..MaxRecords
    <3>1. record \in [Writer -> 0..made] /\ made \in Before..MaxRecords
      BY DEF GuiInv, HistoryInv, HistoryTypeOK
    <3> QED
      BY <2>1, <3>1, HistoryAssumption
  <2>4. CASE MeasureOk(t)
    <3>1. /\ task' = [task EXCEPT ![t] = "appending"] /\ stage'[t] = "opened"
          /\ UNCHANGED <<measuring, auto, autoTask, kind, stop, result, events, shown>>
      BY <2>2, <2>4 DEF MeasureOk
    <3>2. /\ task' \in [Task -> Phase]
          /\ \A u \in Task : task'[u] = "free" => task[u] = "free"
          /\ \A u \in Task : (task'[u] = "appending") <=> (stage'[u] # "idle")
      BY <1>1, <2>1, <3>1
    <3> QED
      BY <1>1, <1>4, <3>1, <3>2
  <2>5. ASSUME task' = [task EXCEPT ![t] = "reporting"], stage'[t] = "idle",
               UNCHANGED <<measuring, auto, autoTask, kind, stop, events, shown>>,
               NEW r \in 0..MaxRecords, result' = [result EXCEPT ![t] = r]
        PROVE  Window'
    <3>1. /\ task' \in [Task -> Phase]
          /\ \A u \in Task : task'[u] = "free" => task[u] = "free"
          /\ \A u \in Task : (task'[u] = "appending") <=> (stage'[u] # "idle")
      BY <1>1, <2>1, <2>5
    <3>2. result' \in [Task -> 0..MaxRecords]
      BY <1>1, <2>5
    <3> QED
      BY <1>1, <1>4, <2>5, <3>1, <3>2
  <2>6. 0 \in 0..MaxRecords
    BY HistoryAssumption
  <2>7. CASE MeasureErr(t)
    <3>1. stage'[t] = "idle"
      BY <1>1, <2>2, <2>7 DEF MeasureErr
    <3> QED
      BY <2>5, <2>6, <2>7, <3>1 DEF MeasureErr
  <2>8. CASE TaskAppendErr(t)
    BY <2>2, <2>5, <2>6, <2>8 DEF TaskAppendErr
  <2>9. CASE TaskAppend(t)
    <3>1. CASE stage'[t] = "idle"
      BY <2>3, <2>5, <2>9, <3>1 DEF TaskAppend
    <3>2. CASE stage'[t] # "idle"
      <4>1. /\ task[t] = "appending"
            /\ UNCHANGED <<task, result, measuring, auto, autoTask, kind, stop, events, shown>>
        BY <2>9, <3>2 DEF TaskAppend
      <4>2. \A u \in Task : (task'[u] = "appending") <=> (stage'[u] # "idle")
        BY <1>1, <2>1, <3>2, <4>1
      <4> QED
        BY <1>1, <1>4, <4>1, <4>2
    <3> QED
      BY <3>1, <3>2
  <2>10. CASE Report(t)
    <3>1. /\ task[t] = "reporting" /\ events' = Append(events, Finished(result[t]))
          /\ task' = [task EXCEPT ![t] = IF kind[t] = "auto" THEN "waiting" ELSE "free"]
          /\ result' = [result EXCEPT ![t] = 0]
          /\ UNCHANGED <<measuring, auto, autoTask, kind, stop, shown>>
          /\ stage'[t] = stage[t]
      BY <2>2, <2>10 DEF Report
    <3>2. events' \in Seq(Event)
      BY <1>1, <1>3, <3>1, EventIs
    <3>3. /\ task' \in [Task -> Phase]
          /\ \A u \in Task : task'[u] = "free" => task[u] = "free" \/ kind[u] = "manual"
          /\ \A u \in Task : (task'[u] = "appending") <=> (stage'[u] # "idle")
      BY <1>1, <2>1, <3>1
    <3>4. result' \in [Task -> 0..MaxRecords]
      BY <1>1, <2>6, <3>1
    <3> QED
      BY <1>1, <1>4, <3>1, <3>2, <3>3, <3>4
  <2> QED
    BY <1>11, <2>4, <2>7, <2>8, <2>9, <2>10 DEF Measurement
<1>12. CASE UNCHANGED guiVars /\ SameStages
  BY <1>1, <1>4, <1>12 DEF guiVars
<1>13. CASE Elsewhere
  BY <1>12, <1>13, ElsewhereStep
<1>14. CASE UNCHANGED vars
  BY <1>2, <1>12, <1>14 DEF vars
<1> QED
  BY <1>5, <1>6, <1>7, <1>8, <1>9, <1>10, <1>11, <1>13, <1>14 DEF Next

-----------------------------------------------------------------------------
LEMMA LastEvent ==
    ASSUME NEW e \in Seq(Event)
    PROVE  /\ \A v \in Event : LET a == Append(e, v) IN a # <<>> /\ a[Len(a)] = v
           /\ e # <<>> =>
                LET d == Tail(e) IN
                IF d = <<>> THEN Head(e) = e[Len(e)] ELSE d[Len(d)] = e[Len(e)]
<1>1. ASSUME NEW v \in Event PROVE LET a == Append(e, v) IN a # <<>> /\ a[Len(a)] = v
  <2> DEFINE a == Append(e, v)
  <2>1. Len(e) \in Nat /\ Len(a) = Len(e) + 1 /\ a[Len(e) + 1] = v
    BY AppendProperties, LenProperties
  <2>2. Len(<<>>) = 0
    OBVIOUS
  <2>3. a # <<>>
    BY <2>1, <2>2
  <2> QED
    BY <2>1, <2>3
<1>2. ASSUME e # <<>>
      PROVE  LET d == Tail(e) IN
             IF d = <<>> THEN Head(e) = e[Len(e)] ELSE d[Len(d)] = e[Len(e)]
  <2> DEFINE d == Tail(e)
  <2>1. /\ Len(e) \in Nat /\ e[1] = Head(e) /\ d \in Seq(Event)
        /\ Len(d) = Len(e) - 1 /\ \A i \in 1..Len(d) : d[i] = e[i + 1]
        /\ Len(d) \in Nat /\ (Len(d) = 0 => d = <<>>)
    <3>1. /\ d \in Seq(Event) /\ Len(d) = Len(e) - 1
          /\ \A i \in 1..Len(d) : d[i] = e[i + 1]
      BY <1>2, HeadTailProperties
    <3>2. Len(e) \in Nat /\ e[1] = Head(e)
      BY <1>2, LenProperties
    <3>3. Len(d) \in Nat /\ (Len(d) = 0 => d = <<>>)
      BY <3>1, LenProperties, EmptySeq
    <3> QED
      BY <3>1, <3>2, <3>3
  <2> HIDE DEF d
  <2>2. d = <<>> => Len(d) = 0
    OBVIOUS
  <2>3. CASE d = <<>>
    BY <2>1, <2>2, <2>3 DEF d
  <2>4. CASE d # <<>>
    <3>1. Len(d) \in 1..Len(d) /\ Len(d) + 1 = Len(e)
      BY <2>1, <2>4
    <3>2. d[Len(d)] = e[Len(e)]
      BY <2>1, <3>1
    <3> QED
      BY <2>4, <3>2 DEF d
  <2> QED
    BY <2>3, <2>4
<1> QED
  BY <1>1, <1>2

LEMMA ButtonKept ==
    ASSUME GuiInv, [Next]_vars
    PROVE  FinalBusy'
<1> DEFINE Phase == {"free", "waiting", "measuring", "appending", "reporting"}
<1>1. /\ task \in [Task -> Phase] /\ events \in Seq(Event) /\ FinalBusy
      /\ result \in [Task -> 0..MaxRecords]
  BY DEF GuiInv, GuiTypeOK
<1>2. \A v \in Event : Append(events, v) # <<>>
                       /\ Append(events, v)[Len(Append(events, v))] = v
  BY <1>1, LastEvent
<1>3. Started \in Event /\ Started.type = "started"
      /\ \A r \in 0..MaxRecords : Finished(r) \in Event /\ Finished(r).type = "finished"
  BY EventIs
\* A measurement that runs goes on running, and what is sent does not matter.
<1>4. ASSUME NEW t \in Task, task'[t] \notin {"free", "waiting"} PROVE FinalBusy'
  BY <1>4 DEF FinalBusy, Quiet
<1>5. ASSUME NEW t \in Task, task[t] \in {"free", "waiting"},
             \A u \in Task : u # t => task'[u] = task[u], UNCHANGED <<measuring, events>>
      PROVE  FinalBusy'
  BY <1>1, <1>5 DEF FinalBusy, FinallyOn, Quiet
<1>6. CASE Click
  <2>1. PICK t \in Task : task' = [task EXCEPT ![t] = "measuring"]
    BY <1>6 DEF Click
  <2> QED
    BY <1>1, <1>4, <2>1
<1>7. CASE AutoOn
  <2>1. PICK t \in Task : task[t] = "free" /\ task' = [task EXCEPT ![t] = "waiting"]
    BY <1>7 DEF AutoOn
  <2> QED
    BY <1>1, <1>5, <1>7, <2>1 DEF AutoOn
<1>8. CASE Drain
  <2>1. /\ events # <<>> /\ measuring' = (Head(events).type = "started")
        /\ events' = Tail(events) /\ task' = task
    BY <1>8 DEF Drain, MeasuringAfter, EventsLeft
  <2>2. IF events' = <<>> THEN Head(events) = events[Len(events)]
                         ELSE events'[Len(events')] = events[Len(events)]
    BY <1>1, <2>1, LastEvent
  <2>3. FinallyOn' <=> FinallyOn
    BY <2>1, <2>2 DEF FinallyOn
  <2> QED
    BY <1>1, <2>1, <2>3 DEF FinalBusy, Quiet
<1>9. ASSUME NEW t \in Task, AutoTick(t) PROVE FinalBusy'
  <2>1. task' = [task EXCEPT ![t] = "measuring"]
    BY <1>9 DEF AutoTick
  <2> QED
    BY <1>1, <1>4, <2>1
<1>10. ASSUME NEW t \in Task, AutoStop(t) PROVE FinalBusy'
  <2>1. /\ task[t] = "waiting" /\ task' = [task EXCEPT ![t] = "free"]
        /\ UNCHANGED <<measuring, events>>
    BY <1>10 DEF AutoStop
  <2> QED
    BY <1>1, <1>5, <2>1
<1>11. ASSUME NEW t \in Task, MeasureOk(t) \/ MeasureErr(t) \/ TaskAppend(t) \/ TaskAppendErr(t)
       PROVE  FinalBusy'
  <2>1. \/ task' = [task EXCEPT ![t] = "appending"]
        \/ task' = [task EXCEPT ![t] = "reporting"]
        \/ task' = task /\ task[t] = "appending"
    BY <1>11 DEF MeasureOk, MeasureErr, TaskAppend, TaskAppendErr
  <2> QED
    BY <1>1, <1>4, <2>1
<1>12. ASSUME NEW t \in Task, Report(t) PROVE FinalBusy'
  <2>1. events' = Append(events, Finished(result[t])) /\ result[t] \in 0..MaxRecords
    BY <1>1, <1>12 DEF Report
  <2>2. events' # <<>> /\ events'[Len(events')].type = "finished"
    BY <1>2, <1>3, <2>1
  <2> QED
    BY <2>2 DEF FinalBusy, FinallyOn
<1>13. ASSUME UNCHANGED <<measuring, events, task>> PROVE FinalBusy'
  BY <1>1, <1>13 DEF FinalBusy, FinallyOn, Quiet
<1>14. CASE AutoOff
  BY <1>13, <1>14 DEF AutoOff
<1>15. CASE Elsewhere
  BY <1>13, <1>15, ElsewhereStep DEF guiVars
<1>16. CASE UNCHANGED vars
  BY <1>13, <1>16 DEF vars, guiVars
<1> QED
  BY <1>6, <1>7, <1>8, <1>9, <1>10, <1>11, <1>12, <1>14, <1>15, <1>16
     DEF Next, Measurement

-----------------------------------------------------------------------------
\* What the window has saved grows with a task that ends its append.
LEMMA MineGrows ==
    ASSUME NEW w, NEW r, saved' = saved \cup {<<w, r>>}
    PROVE  Mine' = Mine \cup IF w \in Task THEN {r} ELSE {}
<1> DEFINE e == <<w, r>>
<1>1. e[1] = w /\ e[2] = r /\ saved' = saved \cup {e}
  OBVIOUS
<1> HIDE DEF e
<1>2. \A x : x \in {s[2] : s \in {s \in saved' : s[1] \in Task}}
             <=> \/ x \in {s[2] : s \in {s \in saved : s[1] \in Task}}
                 \/ w \in Task /\ x = r
  BY <1>1, Zenon
<1> QED
  BY <1>2 DEF Mine

LEMMA SavedByOthers ==
    ASSUME NEW w \in Writer, w \notin Task, Open(w) \/ AppendStep(w) \/ AppendCut(w)
    PROVE  Mine' = Mine
<1>1. CASE WriteNewline(w)
  BY <1>1, MineGrows DEF WriteNewline
<1>2. CASE UNCHANGED saved
  BY <1>2 DEF Mine
<1> QED
  BY <1>1, <1>2 DEF Open, AppendStep, WriteText, AppendCut

\* A step that neither saves nor sends a record.
LEMMA ListKept ==
    ASSUME ListInv, Mine' = Mine, Listed(Reported') = Listed(Reported),
           Unique(Reported'), result' = result,
           \A t \in Task : task[t] = "reporting" => task'[t] = "reporting"
    PROVE  ListInv'
<1>1. Results'
  BY DEF ListInv, Results
<1> QED
  BY <1>1 DEF ListInv

LEMMA ListStep ==
    ASSUME GuiInv, [Next]_vars
    PROVE  ListInv'
<1> DEFINE Phase == {"free", "waiting", "measuring", "appending", "reporting"}
<1>1. /\ task \in [Task -> Phase] /\ events \in Seq(Event) /\ shown \in Seq(Record)
      /\ result \in [Task -> 0..MaxRecords] /\ ListInv /\ Unique(Reported)
      /\ \A t \in Task : task[t] # "reporting" => result[t] = 0
      /\ Task \subseteq Writer
  BY GuiAssumption DEF GuiInv, GuiTypeOK, ListInv, Results
<1>2. Reported = WithEvents(shown, events) /\ Reported' = WithEvents(shown', events')
  BY DEF Reported, WithEvents
<1>3. Reported \in Seq(Nat)
  BY <1>1, <1>2, ListIs
<1>4. saved' = saved => Mine' = Mine
  BY DEF Mine
\* What does not touch the list.
<1>5. ASSUME UNCHANGED <<result, shown, events>>, Mine' = Mine,
             \A t \in Task : task[t] = "reporting" => task'[t] = "reporting"
      PROVE  ListInv'
  <2>1. Reported' = Reported
    BY <1>2, <1>5
  <2> QED
    BY <1>1, <1>5, <2>1, ListKept
\* A started event carries no record.
<1>6. ASSUME UNCHANGED <<result, shown, saved>>, events' = Append(events, Started),
             \A t \in Task : task[t] = "reporting" => task'[t] = "reporting"
      PROVE  ListInv'
  <2>1. Reported' = Append(Reported, 0)
    BY <1>1, <1>2, <1>6, ListSend, EventIs
  <2>2. 0 \in Nat /\ 0 \notin Listed(Reported)
    BY DEF Listed
  <2>3. Listed(Reported') = Listed(Reported) \cup ({0} \ {0}) /\ Unique(Reported')
    BY <1>1, <1>3, <2>1, <2>2, ListedAppend
  <2> QED
    BY <1>1, <1>4, <1>6, <2>3, ListKept
\* A result that is no record, of a task that had none.
<1>7. ASSUME NEW t \in Task, task[t] # "reporting", result' = [result EXCEPT ![t] = 0]
      PROVE  result' = result
  <2>1. result[t] = 0
    BY <1>1, <1>7
  <2> QED
    BY <1>1, <1>7, <2>1
<1>8. CASE Click
  <2>1. PICK t \in Task : task[t] = "free" /\ task' = [task EXCEPT ![t] = "measuring"]
    BY <1>8 DEF Click
  <2>2. \A u \in Task : task[u] = "reporting" => task'[u] = "reporting"
    BY <1>1, <2>1
  <2> QED
    BY <1>6, <1>8, <2>2 DEF Click, fileVars
<1>9. CASE AutoOn
  <2>1. PICK t \in Task : task[t] = "free" /\ task' = [task EXCEPT ![t] = "waiting"]
    BY <1>9 DEF AutoOn
  <2>2. \A u \in Task : task[u] = "reporting" => task'[u] = "reporting"
    BY <1>1, <2>1
  <2> QED
    BY <1>4, <1>5, <1>9, <2>2 DEF AutoOn, fileVars
<1>10. CASE AutoOff
  BY <1>4, <1>5, <1>10 DEF AutoOff, fileVars
<1>11. CASE Drain
  <2>1. /\ events # <<>> /\ events' = Tail(events)
        /\ shown' = IF Head(events).record = 0 THEN shown
                    ELSE Append(shown, Head(events).record)
        /\ UNCHANGED <<task, result, saved>>
    BY <1>11 DEF Drain, EventsLeft, fileVars
  <2>2. Listed(Reported') = Listed(Reported) /\ Unique(Reported')
    BY <1>1, <1>2, <2>1, ListHandle
  <2> QED
    BY <1>1, <1>4, <2>1, <2>2, ListKept
<1>12. ASSUME NEW t \in Task, AutoTick(t) PROVE ListInv'
  <2>1. \A u \in Task : task[u] = "reporting" => task'[u] = "reporting"
    BY <1>1, <1>12 DEF AutoTick
  <2> QED
    BY <1>6, <1>12, <2>1 DEF AutoTick, fileVars
<1>13. ASSUME NEW t \in Task, AutoStop(t) PROVE ListInv'
  <2>1. \A u \in Task : task[u] = "reporting" => task'[u] = "reporting"
    BY <1>1, <1>13 DEF AutoStop
  <2> QED
    BY <1>4, <1>5, <1>13, <2>1 DEF AutoStop, fileVars
<1>14. ASSUME NEW t \in Task, MeasureOk(t) PROVE ListInv'
  <2>1. \A u \in Task : task[u] = "reporting" => task'[u] = "reporting"
    BY <1>1, <1>14 DEF MeasureOk
  <2> QED
    BY <1>4, <1>5, <1>14, <2>1 DEF MeasureOk, Open
<1>15. ASSUME NEW t \in Task, MeasureErr(t) \/ TaskAppendErr(t) PROVE ListInv'
  <2>1. /\ task[t] \in {"measuring", "appending"} /\ UNCHANGED <<shown, events, saved>>
        /\ task' = [task EXCEPT ![t] = "reporting"] /\ result' = [result EXCEPT ![t] = 0]
    BY <1>15 DEF MeasureErr, TaskAppendErr, AppendCut, fileVars
  <2>2. \A u \in Task : task[u] = "reporting" => task'[u] = "reporting"
    BY <1>1, <2>1
  <2>3. result' = result
    BY <1>7, <2>1
  <2> QED
    BY <1>4, <1>5, <2>1, <2>2, <2>3
<1>16. ASSUME NEW t \in Task, TaskAppend(t), WriteText(t) PROVE ListInv'
  <2>1. stage'[t] # "idle"
    BY <1>1, <1>16, StageOfOthers DEF AppendStep, GuiInv, HistoryInv
  <2>2. UNCHANGED <<task, result, events, shown, saved>>
    BY <1>16, <2>1 DEF TaskAppend, WriteText
  <2> QED
    BY <1>4, <1>5, <2>2
<1>17. ASSUME NEW t \in Task, TaskAppend(t), WriteNewline(t) PROVE ListInv'
  <2> DEFINE r == record[t]
  <2>1. stage'[t] = "idle" /\ stage[t] # "idle"
    BY <1>1, <1>17, StageOfOthers DEF AppendStep, GuiInv, HistoryInv
  <2>2. /\ task[t] = "appending" /\ task' = [task EXCEPT ![t] = "reporting"]
        /\ result' = [result EXCEPT ![t] = r] /\ UNCHANGED <<events, shown>>
        /\ saved' = saved \cup {<<t, r>>}
    BY <1>17, <2>1 DEF TaskAppend, WriteNewline
  <2>3. r # 0 /\ \A s \in saved : s[2] # r
    BY <1>1, <2>1 DEF GuiInv, HistoryInv, HistoryTypeOK, AppendedOnce
  <2> HIDE DEF r
  <2>4. Mine' = Mine \cup {r} /\ r \notin Mine
    BY <2>2, <2>3, MineGrows DEF Mine
  <2>5. Reported' = Reported
    BY <1>2, <2>2
  <2>6. /\ result'[t] = r /\ result[t] = 0 /\ task'[t] = "reporting"
        /\ \A u \in Task : u # t => result'[u] = result[u] /\ task'[u] = task[u]
    BY <1>1, <2>2
  <2>7. Results'
    <3> SUFFICES ASSUME NEW u \in Task, result'[u] # 0
                 PROVE  /\ task'[u] = "reporting" /\ result'[u] \in Mine'
                        /\ result'[u] \notin Listed(Reported)
                        /\ \A v \in Task : result'[v] = result'[u] => v = u
      BY <2>5 DEF Results
    <3>1. CASE u = t
      <4>1. \A v \in Task : v # t => result'[v] # r
        BY <1>1, <2>3, <2>4, <2>6 DEF ListInv, Results
      <4>2. r \notin Listed(Reported)
        BY <1>1, <2>4 DEF ListInv
      <4> QED
        BY <2>4, <2>6, <3>1, <4>1, <4>2
    <3>2. CASE u # t
      <4>1. result[u] # 0 /\ result'[u] = result[u] /\ result[u] # r
        BY <1>1, <2>4, <2>6, <3>2 DEF ListInv, Results
      <4> QED
        BY <1>1, <2>4, <2>6, <3>2, <4>1 DEF ListInv, Results
    <3> QED
      BY <3>1, <3>2
  <2>8. \A x \in Mine' : x \in Listed(Reported) \/ \E u \in Task : result'[u] = x
    <3>1. ASSUME NEW u \in Task, result[u] \in Mine PROVE \E v \in Task : result'[v] = result[u]
      <4>1. CASE u = t
        <5>1. \A x \in Mine : x # 0
          BY RecordsPositive DEF Mine, GuiInv, HistoryInv, AppendedOnce
        <5> QED
          BY <2>6, <3>1, <4>1, <5>1
      <4>2. CASE u # t
        BY <2>6, <4>2
      <4> QED
        BY <4>1, <4>2
    <3> QED
      BY <1>1, <2>4, <2>6, <3>1 DEF ListInv
  <2>9. Listed(Reported) \subseteq Mine'
    BY <1>1, <2>4 DEF ListInv
  <2> QED
    BY <1>1, <2>5, <2>7, <2>8, <2>9 DEF ListInv
<1>18. ASSUME NEW t \in Task, Report(t) PROVE ListInv'
  <2> DEFINE r == result[t]
  <2>1. /\ task[t] = "reporting" /\ events' = Append(events, Finished(r))
        /\ task' = [task EXCEPT ![t] = IF kind[t] = "auto" THEN "waiting" ELSE "free"]
        /\ result' = [result EXCEPT ![t] = 0] /\ UNCHANGED <<shown, saved>>
        /\ r \in 0..MaxRecords
    BY <1>1, <1>18 DEF Report, fileVars
  <2>2. r \in Nat
    BY <2>1, HistoryAssumption
  <2>3. /\ result'[t] = 0
        /\ \A u \in Task : u # t => result'[u] = result[u] /\ task'[u] = task[u]
        /\ r # 0 => r \in Mine /\ \A u \in Task : u # t => result[u] # r
        /\ r \notin Listed(Reported)
    <3>1. r # 0 => /\ r \in Mine /\ r \notin Listed(Reported)
                   /\ \A u \in Task : u # t => result[u] # r
      BY <1>1 DEF ListInv, Results
    <3>2. 0 \notin Listed(Reported)
      BY DEF Listed
    <3> QED
      BY <1>1, <2>1, <3>1, <3>2
  <2> HIDE DEF r
  <2>4. Reported' = Append(Reported, r)
    BY <1>1, <1>2, <2>1, ListSend, EventIs
  <2>5. Listed(Reported') = Listed(Reported) \cup ({r} \ {0}) /\ Unique(Reported')
    BY <1>1, <1>3, <2>2, <2>3, <2>4, ListedAppend
  <2>6. Mine' = Mine
    BY <1>4, <2>1
  <2>7. Results'
    <3> SUFFICES ASSUME NEW u \in Task, result'[u] # 0
                 PROVE  /\ task'[u] = "reporting" /\ result'[u] \in Mine'
                        /\ result'[u] \notin Listed(Reported')
                        /\ \A v \in Task : result'[v] = result'[u] => v = u
      BY DEF Results
    <3>1. u # t /\ result'[u] = result[u] /\ task'[u] = task[u] /\ result[u] # r
      BY <2>3
    <3>2. /\ task[u] = "reporting" /\ result[u] \in Mine
          /\ result[u] \notin Listed(Reported)
          /\ \A v \in Task : result[v] = result[u] => v = u
      BY <1>1, <3>1 DEF ListInv, Results
    <3> QED
      BY <2>3, <2>5, <2>6, <3>1, <3>2
  <2>8. \A x \in Mine' : x \in Listed(Reported') \/ \E u \in Task : result'[u] = x
    <3> SUFFICES ASSUME NEW x \in Mine
                 PROVE  x \in Listed(Reported') \/ \E u \in Task : result'[u] = x
      BY <2>6
    <3>1. x # 0
      BY RecordsPositive DEF Mine, GuiInv, HistoryInv, AppendedOnce
    <3>2. CASE \E u \in Task : result[u] = x
      <4>1. PICK u \in Task : result[u] = x
        BY <3>2
      <4> QED
        BY <2>3, <2>5, <3>1, <4>1 DEF r
    <3> QED
      BY <1>1, <2>5, <3>2 DEF ListInv
  <2>9. Listed(Reported') \subseteq Mine'
    BY <1>1, <2>3, <2>5, <2>6 DEF ListInv
  <2> QED
    BY <2>5, <2>7, <2>8, <2>9 DEF ListInv
<1>19. CASE Elsewhere
  <2>1. Mine' = Mine
    <3>1. ASSUME NEW c \in Command, CommandNext(c) PROVE Mine' = Mine
      <4>1. Open(c) \/ AppendStep(c) \/ AppendCut(c) \/ UNCHANGED fileVars
        BY <3>1, CommandStep DEF GuiInv, HistoryInv
      <4>2. c \in Writer /\ c \notin Task
        BY GuiAssumption
      <4> QED
        BY <1>4, <4>1, <4>2, SavedByOthers DEF fileVars
    <3>2. CASE PruneStep
      BY <1>4, <3>2 DEF PruneStep, PruneLoad, PruneCopy, PruneRename, PruneCut
    <3> QED
      BY <1>19, <3>1, <3>2 DEF Elsewhere
  <2> QED
    BY <1>5, <1>19, <2>1 DEF Elsewhere, guiVars
<1>20. CASE UNCHANGED vars
  BY <1>4, <1>5, <1>20 DEF vars, guiVars, fileVars
<1>21. ASSUME NEW t \in Task, TaskAppend(t) PROVE WriteText(t) \/ WriteNewline(t)
  BY <1>21 DEF TaskAppend, AppendStep
<1> QED
  BY <1>8, <1>9, <1>10, <1>11, <1>12, <1>13, <1>14, <1>15, <1>16, <1>17, <1>18,
     <1>19, <1>20, <1>21 DEF Next, Measurement

-----------------------------------------------------------------------------
(***************************************************************************)
(* The theorems.                                                           *)
(***************************************************************************)
LEMMA GuiSafe == Spec => []GuiInv
<1>1. GuiInv /\ [Next]_vars => GuiInv'
  BY FileStep, CommandsKept, WindowKept, ButtonKept, ListStep DEF GuiInv, Window
<1> QED
  BY <1>1, GuiStart, PTL DEF Spec

\* Every variable of the window, of the commands and of the file keeps its type
\* (the state of SpeedtestApp, of its tasks and of append_history).
THEOREM GuiTypes == Spec => []TypeOK
<1>1. GuiInv => TypeOK
  BY DEF GuiInv, HistoryInv, CommandsInv, TypeOK
<1> QED
  BY <1>1, GuiSafe, PTL

\* A record whose append returned Ok is lost only to a prune that is carried
\* through and has found it too old, or has loaded the file before the record was
\* in it, however many writers there are (append_history, prune_older_than).
THEOREM GuiLosesOnlyToPrune == Spec => []LostOnlyToPrune
<1>1. GuiInv => LostOnlyToPrune
  BY DEF GuiInv, HistoryInv
<1> QED
  BY <1>1, GuiSafe, PTL

\* The button is enabled once no measurement runs and the channel is empty, for
\* any number of overlapping measurements (drain_events).
THEOREM GuiButton == Spec => []ButtonComesBack
<1>1. GuiInv => ButtonComesBack
  BY DEF GuiInv, FinalBusy, FinallyOn, ButtonComesBack
<1> QED
  BY <1>1, GuiSafe, PTL

\* The list has every record that the measurements of the window have saved,
\* once (start_measurement, set_auto, drain_events).
THEOREM GuiList == Spec => []ShownIsSaved
<1>1. GuiInv => ShownIsSaved
  BY ZenonT(30) DEF GuiInv, ListInv, ShownIsSaved, Mine, Listed, Elements, Unique
<1> QED
  BY <1>1, GuiSafe, PTL

\* No command measures, or appends what it measured, without the consent of its
\* own user (confirm_mlab_consent).
THEOREM GuiConsent == Spec => []ConsentFirst
<1>1. GuiInv => ConsentFirst
  BY DEF GuiInv, CommandsInv
<1> QED
  BY <1>1, GuiSafe, PTL

\* No failure ends a watch whose user has agreed: the only one that ends by
\* itself had an interval of 0 and never got a ticker (watch).
THEOREM GuiWatch == Spec => WatchGoesOn
<1>1. GuiInv /\ [Next]_vars =>
          [\A c \in Command :
              mode[c] = "watch" /\ agreed[c] /\ doing'[c] \in {"ended", "panicked"}
                  => doing[c] = "starting" /\ interval[c] = 0]_commandVars
  BY CommandsKept DEF WatchStep
<1> QED
  BY <1>1, GuiSafe, PTL DEF Spec, WatchGoesOn
=============================================================================
