--------------------------- MODULE HistoryProofs ----------------------------
(***************************************************************************)
(* Proofs about History, for any number of writers and of records: the     *)
(* type invariant, and that a record is lost only to a prune.  History has *)
(* no specification of its own; what is proved here of its steps is used   *)
(* by GuiProofs, whose steps they are.                                     *)
(***************************************************************************)
EXTENDS History, SequenceTheorems, FiniteSetTheorems, TLAPS

Elements(q) == {q[i] : i \in 1..Len(q)}

LEMMA ElementsAppend ==
    ASSUME NEW S, NEW q \in Seq(S), NEW e \in S
    PROVE  /\ Append(q, e) \in Seq(S)
           /\ Elements(Append(q, e)) = Elements(q) \cup {e}
<1> DEFINE a == Append(q, e)
<1>1. /\ a \in Seq(S) /\ Len(q) \in Nat /\ Len(a) = Len(q) + 1
      /\ \A i \in 1..Len(q) : a[i] = q[i]
      /\ a[Len(q) + 1] = e
  BY AppendProperties, LenProperties
<1> HIDE DEF a
<1>2. ASSUME NEW i \in 1..Len(a) PROVE a[i] \in Elements(q) \cup {e}
  <2>1. i \in 1..Len(q) \/ i = Len(q) + 1
    BY <1>1
  <2> QED
    BY <1>1, <2>1 DEF Elements
<1>3. ASSUME NEW i \in 1..Len(q) PROVE q[i] \in Elements(a)
  <2>1. i \in 1..Len(a) /\ a[i] = q[i]
    BY <1>1
  <2> QED
    BY <2>1 DEF Elements
<1>4. e \in Elements(a)
  <2>1. Len(q) + 1 \in 1..Len(a)
    BY <1>1
  <2> QED
    BY <1>1, <2>1 DEF Elements
<1>5. \A x : x \in Elements(a) <=> x \in Elements(q) \cup {e}
  BY <1>2, <1>3, <1>4 DEF Elements
<1> QED
  BY <1>1, <1>5 DEF a

-----------------------------------------------------------------------------
(***************************************************************************)
(* The lines of the records.                                               *)
(***************************************************************************)
LEMMA Halves ==
    /\ \A n \in Nat : \A i \in 1..(2 * n) : i % 2 = 1 => (i + 1) \div 2 \in 1..n
    /\ \A n \in Nat : \A k \in 1..n :
          /\ 2 * k - 1 \in 1..(2 * n) /\ (2 * k - 1) % 2 = 1
          /\ ((2 * k - 1) + 1) \div 2 = k
  OBVIOUS

LEMMA RecordsPositive == Record \subseteq Nat \ {NL} /\ Before \in Nat /\ MaxRecords \in Nat
  BY HistoryAssumption DEF Record, NL

LEMMA LinesOfRecords ==
    ASSUME NEW q \in Seq(Record)
    PROVE  /\ Lines(q) \in Seq(Record \cup {NL})
           /\ Elements(q) \subseteq Elements(Lines(q)) \ {NL}
<1> DEFINE l == Lines(q)
<1>1. Len(q) \in Nat /\ \A i \in 1..Len(q) : q[i] \in Record
  BY LenProperties, ElementOfSeq
<1>2. ASSUME NEW i \in 1..(2 * Len(q))
      PROVE  (IF i % 2 = 1 THEN q[(i + 1) \div 2] ELSE NL) \in Record \cup {NL}
  BY <1>1, Halves
<1>3. 2 * Len(q) \in Nat
  BY <1>1
<1>4. /\ l \in [1..(2 * Len(q)) -> Record \cup {NL}]
      /\ \A i \in 1..(2 * Len(q)) :
            l[i] = IF i % 2 = 1 THEN q[(i + 1) \div 2] ELSE NL
  BY <1>2 DEF Lines
<1> HIDE DEF l
<1>5. l \in Seq(Record \cup {NL}) /\ Len(l) = 2 * Len(q)
  BY <1>3, <1>4, SeqDef, LenProperties
<1>6. ASSUME NEW k \in 1..Len(q) PROVE q[k] \in Elements(l) \ {NL}
  <2>1. /\ 2 * k - 1 \in 1..(2 * Len(q)) /\ (2 * k - 1) % 2 = 1
        /\ ((2 * k - 1) + 1) \div 2 = k
    BY <1>1, Halves
  <2>2. l[2 * k - 1] = q[k]
    BY <1>4, <2>1
  <2>3. q[k] # NL
    BY <1>1, RecordsPositive
  <2> QED
    BY <1>5, <2>1, <2>2, <2>3 DEF Elements
<1> QED
  BY <1>5, <1>6 DEF Elements, l

-----------------------------------------------------------------------------
(***************************************************************************)
(* The records that a prune keeps.  That any set of places can be put in   *)
(* order is shown by counting the places up to each of them.               *)
(***************************************************************************)
UpTo(P, x) == {y \in P : y <= x}

Count(P) == [x \in P |-> Cardinality(UpTo(P, x))]

LEMMA CountPlaces ==
    ASSUME NEW P, P \subseteq Nat, IsFiniteSet(P)
    PROVE  /\ Count(P) \in Surjection(P, 1..Cardinality(P))
           /\ \A x, y \in P : x < y => Count(P)[x] < Count(P)[y]
<1> DEFINE N == Cardinality(P)
           c == Count(P)
<1>1. N \in Nat /\ IsFiniteSet(1..N) /\ Cardinality(1..N) = N
  BY FS_CardinalityType, FS_Interval
<1>2. ASSUME NEW x \in P
      PROVE  IsFiniteSet(UpTo(P, x)) /\ c[x] = Cardinality(UpTo(P, x)) /\ c[x] \in 1..N
  <2>1. UpTo(P, x) \in SUBSET P /\ x \in UpTo(P, x)
    BY DEF UpTo
  <2>2. IsFiniteSet(UpTo(P, x)) /\ Cardinality(UpTo(P, x)) <= N
    BY <2>1, FS_Subset
  <2>3. Cardinality(UpTo(P, x)) \in Nat /\ Cardinality(UpTo(P, x)) # 0
    BY <2>1, <2>2, FS_CardinalityType, FS_EmptySet
  <2>4. c[x] = Cardinality(UpTo(P, x))
    BY DEF Count
  <2> QED
    BY <1>1, <2>2, <2>3, <2>4
<1>3. ASSUME NEW x \in P, NEW y \in P, x < y PROVE c[x] < c[y]
  <2>1. UpTo(P, x) \in SUBSET UpTo(P, y) /\ UpTo(P, x) # UpTo(P, y)
    <3>1. y \in UpTo(P, y) /\ y \notin UpTo(P, x)
      BY <1>3 DEF UpTo
    <3>2. \A z \in UpTo(P, x) : z \in UpTo(P, y)
      BY <1>3 DEF UpTo
    <3> QED
      BY <3>1, <3>2
  <2>2. /\ Cardinality(UpTo(P, x)) <= Cardinality(UpTo(P, y))
        /\ Cardinality(UpTo(P, x)) # Cardinality(UpTo(P, y))
    BY <1>2, <2>1, FS_Subset
  <2>3. c[x] \in Nat /\ c[y] \in Nat
    BY <1>1, <1>2
  <2> QED
    BY <1>2, <2>2, <2>3
<1>4. c \in Injection(P, 1..N)
  <2>1. c \in [P -> 1..N]
    BY <1>2 DEF Count
  <2>2. ASSUME NEW x \in P, NEW y \in P, c[x] = c[y] PROVE x = y
    <3>1. ~(c[x] < c[y]) /\ ~(c[y] < c[x])
      BY <1>1, <1>2, <2>2
    <3> QED
      BY <1>3, <3>1
  <2> QED
    BY <2>1, <2>2 DEF Injection, IsInjective
<1> HIDE DEF c
<1>5. c \in Surjection(P, 1..N)
  BY <1>1, <1>4, FS_Injection
<1> QED
  BY <1>3, <1>5 DEF c

LEMMA PlacesInOrder ==
    ASSUME NEW P, P \subseteq Nat, IsFiniteSet(P)
    PROVE  /\ InOrder(P) \in [1..Cardinality(P) -> P]
           /\ \A x \in P : \E n \in 1..Cardinality(P) : InOrder(P)[n] = x
<1> DEFINE N == Cardinality(P)
           c == Count(P)
           Ascends(f) == \A i, j \in 1..N : i < j => f[i] < f[j]
           f == [n \in 1..N |-> CHOOSE x \in P : c[x] = n]
           o == InOrder(P)
<1>1. N \in Nat /\ IsFiniteSet(1..N) /\ Cardinality(1..N) = N
  BY FS_CardinalityType, FS_Interval
<1>2. /\ c \in [P -> 1..N] /\ \A n \in 1..N : \E x \in P : c[x] = n
      /\ \A x, y \in P : x < y => c[x] < c[y]
  BY CountPlaces DEF Surjection
<1> HIDE DEF c
<1>3. \A n \in 1..N : f[n] \in P /\ c[f[n]] = n
  BY <1>2
<1>4. f \in [1..N -> P]
  BY <1>3
<1> HIDE DEF f
<1>5. Ascends(f)
  <2> SUFFICES ASSUME NEW i \in 1..N, NEW j \in 1..N, i < j PROVE f[i] < f[j]
    OBVIOUS
  <2>1. f[i] \in Nat /\ f[j] \in Nat
    BY <1>3
  <2>2. ~(f[j] < f[i]) /\ f[i] # f[j]
    <3>1. f[i] \in P /\ f[j] \in P /\ c[f[i]] = i /\ c[f[j]] = j
      BY <1>3
    <3>2. ~(j < i) /\ i # j
      BY <1>1
    <3>3. ~(c[f[j]] < c[f[i]])
      BY <3>1, <3>2
    <3> QED
      BY <1>2, <3>1, <3>2, <3>3
  <2> QED
    BY <2>1, <2>2
<1>6. o \in [1..N -> P] /\ Ascends(o)
  BY <1>4, <1>5 DEF InOrder
<1> HIDE DEF o
<1>7. o \in Injection(1..N, P)
  <2> SUFFICES ASSUME NEW i \in 1..N, NEW j \in 1..N, o[i] = o[j] PROVE i = j
    BY <1>6 DEF Injection, IsInjective
  <2>1. o[i] \in Nat
    BY <1>6
  <2>2. ~(i < j) /\ ~(j < i)
    BY <1>6, <2>1
  <2> QED
    BY <1>1, <2>2
<1>8. o \in Surjection(1..N, P)
  BY <1>1, <1>7, FS_Injection
<1> QED
  BY <1>6, <1>8 DEF Surjection, o

LEMMA KeptRecords ==
    ASSUME file \in Seq(Record \cup {NL})
    PROVE  /\ Kept \in Seq(Record)
           /\ Recorded \ Old \subseteq Elements(Kept)
<1> DEFINE P == {i \in 1..Len(file) : file[i] # NL /\ IsRecent(file[i])}
           N == Cardinality(P)
<1>1. Len(file) \in Nat /\ \A i \in 1..Len(file) : file[i] \in Record \cup {NL}
  BY LenProperties, ElementOfSeq
<1>2. P \subseteq Nat /\ IsFiniteSet(P)
  <2>1. IsFiniteSet(1..Len(file)) /\ P \in SUBSET (1..Len(file))
    BY <1>1, FS_Interval
  <2> QED
    BY <1>1, <2>1, FS_Subset
<1>3. N \in Nat
  BY <1>2, FS_CardinalityType
<1>4. /\ InOrder(P) \in [1..N -> P]
      /\ \A x \in P : \E n \in 1..N : InOrder(P)[n] = x
  BY <1>2, PlacesInOrder
<1>5. Kept = [n \in 1..N |-> file[InOrder(P)[n]]]
  BY DEF Kept
<1>6. \A i \in P : file[i] \in Record
  BY <1>1
<1>7. Kept \in [1..N -> Record]
  BY <1>4, <1>5, <1>6
<1> HIDE DEF P, N
<1>8. Kept \in Seq(Record) /\ Len(Kept) = N
  <2>1. Kept \in Seq(Record)
    BY <1>3, <1>7, SeqDef
  <2>2. DOMAIN Kept = 1..Len(Kept) /\ Len(Kept) \in Nat /\ DOMAIN Kept = 1..N
    BY <1>7, <2>1, LenProperties
  <2>3. /\ Len(Kept) \in 1..Len(Kept) => Len(Kept) \in 1..N
        /\ N \in 1..N => N \in 1..Len(Kept)
    BY <2>2
  <2>4. ASSUME NEW l \in Nat, NEW n \in Nat, l \in 1..l => l \in 1..n,
               n \in 1..n => n \in 1..l
        PROVE  l = n
    BY <2>4
  <2>5. Len(Kept) = N
    BY <1>3, <2>2, <2>3, <2>4
  <2> QED
    BY <2>1, <2>5
<1> USE DEF P
<1>9. ASSUME NEW r \in Recorded \ Old PROVE r \in Elements(Kept)
  <2>1. PICK i \in 1..Len(file) : file[i] = r
    BY DEF Recorded
  <2>2. i \in P
    BY <1>9, <2>1 DEF Recorded, IsRecent
  <2>3. PICK n \in 1..N : InOrder(P)[n] = i
    BY <1>4, <2>2
  <2>4. Kept[n] = r
    BY <1>5, <2>1, <2>3
  <2> QED
    BY <1>8, <2>4 DEF Elements
<1> QED
  BY <1>8, <1>9

-----------------------------------------------------------------------------
(***************************************************************************)
(* The invariant.                                                          *)
(***************************************************************************)
\* A record is made once and appended once.
AppendedOnce ==
    /\ \A s \in saved : s[2] \in 1..made
    /\ \A w \in Writer, s \in saved : record[w] # s[2]
    /\ \A v, w \in Writer : record[v] = record[w] /\ record[v] # 0 => v = w

\* What is not lost when the prune under way is carried through.
Safe == Elements(keep) \cup Old \cup during \cup excused

\* A prune keeps what is not to be lost.
PruneKeeps == pruner # "idle" => \A r \in Due : r \in Safe

\* Of what is being appended while it runs, it has the text, or the record is on
\* its list.
PruneKnows ==
    pruner # "idle" =>
        \A w \in Writer : /\ stage[w] = "opened" => record[w] \in during
                          /\ stage[w] = "texted" => record[w] \in Safe

\* Who has yet to write the text, and has a file open that a prune has
\* replaced, writes it in vain.
ReplacedKnows ==
    \A w \in Writer : ~attached[w] =>
        stage[w] # "idle" /\ (stage[w] = "opened" => record[w] \in excused)

\* A record whose text is written is in the file.
TextInFile ==
    \A w \in Writer : stage[w] = "texted" => record[w] \in Recorded \cup excused

HistoryInv ==
    /\ HistoryTypeOK
    /\ AppendedOnce
    /\ PruneKnows
    /\ ReplacedKnows
    /\ TextInFile
    /\ PruneKeeps
    /\ LostOnlyToPrune

HistoryNext ==
    \/ \E w \in Writer : Open(w) \/ AppendStep(w) \/ AppendCut(w)
    \/ PruneStep

LEMMA HistoryStart == HistoryInit => HistoryInv
<1> SUFFICES ASSUME HistoryInit PROVE HistoryInv
  OBVIOUS
<1> DEFINE q == [i \in 1..Before |-> i]
<1>1. Before \in Nat /\ MaxRecords \in Nat /\ Before <= MaxRecords
  BY HistoryAssumption
<1>2. q \in [1..Before -> Record]
  BY <1>1 DEF Record
<1>3. q \in Seq(Record) /\ \A r \in 1..Before : r \in Elements(q)
  <2>1. q \in Seq(Record)
    BY <1>1, <1>2, SeqDef
  <2>2. DOMAIN q = 1..Len(q) /\ \A i \in 1..Before : q[i] = i
    BY <2>1, LenProperties
  <2> QED
    BY <2>1, <2>2 DEF Elements
<1> HIDE DEF q
<1>4. file \in Seq(Record \cup {NL}) /\ \A r \in 1..Before : r \in Recorded
  <2>1. file = Lines(q)
    BY DEF HistoryInit, q
  <2>2. /\ Lines(q) \in Seq(Record \cup {NL})
        /\ Elements(q) \subseteq Elements(Lines(q)) \ {NL}
    BY <1>3, LinesOfRecords
  <2>3. Recorded = Elements(file) \ {NL}
    BY DEF Recorded, Elements
  <2> QED
    BY <1>3, <2>1, <2>2, <2>3
<1>5. HistoryTypeOK
  <2>1. <<>> \in Seq(Record)
    BY EmptySeq
  <2> QED
    BY <1>1, <1>4, <2>1 DEF HistoryInit, HistoryTypeOK
<1>6. AppendedOnce /\ PruneKnows /\ ReplacedKnows /\ TextInFile /\ PruneKeeps
  BY DEF HistoryInit, AppendedOnce, PruneKnows, ReplacedKnows, TextInFile,
         PruneKeeps
<1>7. LostOnlyToPrune
  BY <1>4 DEF HistoryInit, LostOnlyToPrune, Due
<1> QED
  BY <1>5, <1>6, <1>7 DEF HistoryInv

LEMMA HistoryOpen ==
    ASSUME HistoryInv, NEW w \in Writer, Open(w)
    PROVE  HistoryInv'
<1>1. /\ stage[w] = "idle" /\ made < MaxRecords /\ made' = made + 1
      /\ stage' = [stage EXCEPT ![w] = "opened"]
      /\ record' = [record EXCEPT ![w] = made + 1]
      /\ during' = IF pruner = "idle" THEN during ELSE during \cup {made + 1}
      /\ UNCHANGED <<file, attached, pruner, keep, saved, excused>>
      /\ made \in Nat /\ MaxRecords \in Nat /\ made + 1 \in Record
      /\ made \in Before..MaxRecords
      /\ record \in [Writer -> 0..made]
      /\ stage \in [Writer -> {"idle", "opened", "texted"}]
  BY HistoryAssumption DEF Open, HistoryInv, HistoryTypeOK, Record
<1>2. record'[w] = made + 1 /\ \A v \in Writer : v # w => record'[v] = record[v]
  BY <1>1
<1>3. stage'[w] = "opened" /\ \A v \in Writer : v # w => stage'[v] = stage[v]
  BY <1>1
<1>4. HistoryTypeOK'
  <2>1. record' \in [Writer -> 0..(made + 1)]
    BY <1>1
  <2>2. \A v \in Writer : (record'[v] = 0) <=> (stage'[v] = "idle")
    BY <1>1, <1>2, <1>3 DEF HistoryInv, HistoryTypeOK
  <2>3. stage' \in [Writer -> {"idle", "opened", "texted"}]
    BY <1>1
  <2>4. made' \in Before..MaxRecords /\ during' \subseteq Record
    BY <1>1, HistoryAssumption DEF HistoryInv, HistoryTypeOK
  <2> QED
    BY <1>1, <2>1, <2>2, <2>3, <2>4 DEF HistoryInv, HistoryTypeOK
<1>5. AppendedOnce'
  <2>1. \A s \in saved : s[2] \in 1..made /\ s[2] \in 1..(made + 1) /\ s[2] # made + 1
    BY <1>1 DEF HistoryInv, AppendedOnce
  <2>2. \A v \in Writer : record[v] # made + 1
    BY <1>1
  <2> QED
    BY <1>1, <1>2, <2>1, <2>2 DEF HistoryInv, AppendedOnce
<1>6. PruneKnows' /\ PruneKeeps'
  <2>1. Safe \subseteq Safe'
    BY <1>1 DEF Safe
  <2>2. Due' = Due
    BY <1>1 DEF Due
  <2> QED
    BY <1>1, <1>2, <1>3, <2>1, <2>2 DEF HistoryInv, PruneKnows, PruneKeeps
<1>7. ReplacedKnows'
  <2>1. attached[w]
    BY <1>1 DEF HistoryInv, ReplacedKnows
  <2> QED
    BY <1>1, <1>2, <1>3, <2>1 DEF HistoryInv, ReplacedKnows
<1>8. TextInFile' /\ LostOnlyToPrune'
  BY <1>1, <1>2, <1>3 DEF HistoryInv, TextInFile, LostOnlyToPrune, Due, Recorded
<1> QED
  BY <1>4, <1>5, <1>6, <1>7, <1>8 DEF HistoryInv

\* What a write adds to the file, if it is still the file.
LEMMA WrittenToFile ==
    ASSUME file \in Seq(Record \cup {NL}), NEW w \in Writer,
           NEW token \in Record \cup {NL}, file' = Written(w, token)
    PROVE  /\ file' \in Seq(Record \cup {NL})
           /\ Recorded \subseteq Recorded'
           /\ attached[w] /\ token # NL => token \in Recorded'
<1>1. /\ Append(file, token) \in Seq(Record \cup {NL})
      /\ Elements(Append(file, token)) = Elements(file) \cup {token}
  BY ElementsAppend
<1>2. Recorded = Elements(file) \ {NL} /\ Recorded' = Elements(file') \ {NL}
  BY DEF Recorded, Elements
<1> QED
  BY <1>1, <1>2 DEF Written

LEMMA HistoryWriteText ==
    ASSUME HistoryInv, NEW w \in Writer, WriteText(w)
    PROVE  HistoryInv'
<1>1. /\ stage[w] = "opened" /\ file' = Written(w, record[w])
      /\ stage' = [stage EXCEPT ![w] = "texted"]
      /\ UNCHANGED <<made, record, attached, pruner, keep, saved, during, excused>>
      /\ stage \in [Writer -> {"idle", "opened", "texted"}]
      /\ record[w] \in 0..made /\ record[w] # 0 /\ made \in Before..MaxRecords
  BY DEF WriteText, HistoryInv, HistoryTypeOK
<1>2. record[w] \in Record /\ record[w] # NL
  BY <1>1, RecordsPositive DEF Record, NL
<1>3. /\ file' \in Seq(Record \cup {NL}) /\ Recorded \subseteq Recorded'
      /\ attached[w] => record[w] \in Recorded'
  <2>1. file \in Seq(Record \cup {NL})
    BY DEF HistoryInv, HistoryTypeOK
  <2> QED
    BY <1>1, <1>2, <2>1, WrittenToFile
<1>4. /\ stage' \in [Writer -> {"idle", "opened", "texted"}]
      /\ \A v \in Writer : stage'[v] = "idle" <=> stage[v] = "idle"
      /\ \A v \in Writer : v # w => stage'[v] = stage[v]
  BY <1>1
<1>5. HistoryTypeOK'
  BY <1>1, <1>3, <1>4 DEF HistoryInv, HistoryTypeOK
<1>6. AppendedOnce' /\ PruneKnows' /\ ReplacedKnows' /\ PruneKeeps'
  <2>1. Safe' = Safe /\ Due' = Due /\ during \subseteq Safe
    BY <1>1 DEF Safe, Due
  <2>2. stage'[w] = "texted"
    BY <1>1
  <2> QED
    BY <1>1, <1>4, <2>1, <2>2
       DEF HistoryInv, AppendedOnce, PruneKnows, ReplacedKnows, PruneKeeps
<1>7. TextInFile'
  <2>1. ~attached[w] => record[w] \in excused
    BY <1>1 DEF HistoryInv, ReplacedKnows
  <2> QED
    BY <1>1, <1>3, <1>4, <2>1 DEF HistoryInv, TextInFile
<1>8. LostOnlyToPrune'
  BY <1>1, <1>3 DEF HistoryInv, LostOnlyToPrune, Due
<1> QED
  BY <1>5, <1>6, <1>7, <1>8 DEF HistoryInv

LEMMA HistoryWriteNewline ==
    ASSUME HistoryInv, NEW w \in Writer, WriteNewline(w)
    PROVE  HistoryInv'
<1> DEFINE r == record[w]
<1>1. /\ stage[w] = "texted" /\ file' = Written(w, NL)
      /\ stage' = [stage EXCEPT ![w] = "idle"]
      /\ record' = [record EXCEPT ![w] = 0]
      /\ attached' = [attached EXCEPT ![w] = TRUE]
      /\ saved' = saved \cup {<<w, r>>}
      /\ UNCHANGED <<made, pruner, keep, during, excused>>
      /\ stage \in [Writer -> {"idle", "opened", "texted"}]
      /\ record \in [Writer -> 0..made] /\ attached \in [Writer -> BOOLEAN]
      /\ r \in 1..made /\ made \in Before..MaxRecords
  BY DEF WriteNewline, HistoryInv, HistoryTypeOK
<1>2. r \in Record
  BY <1>1, RecordsPositive DEF Record
<1>3. file' \in Seq(Record \cup {NL}) /\ Recorded \subseteq Recorded'
  <2>1. file \in Seq(Record \cup {NL})
    BY DEF HistoryInv, HistoryTypeOK
  <2> QED
    BY <1>1, <2>1, WrittenToFile
<1>4. /\ stage'[w] = "idle" /\ record'[w] = 0 /\ attached'[w]
      /\ \A v \in Writer : v # w => /\ stage'[v] = stage[v] /\ record'[v] = record[v]
                                    /\ attached'[v] = attached[v]
      /\ stage' \in [Writer -> {"idle", "opened", "texted"}]
      /\ record' \in [Writer -> 0..made] /\ attached' \in [Writer -> BOOLEAN]
  BY <1>1
<1> HIDE DEF r
<1>5. Due' = Due \cup {r}
  <2> DEFINE e == <<w, r>>
  <2>1. e[2] = r /\ saved' = saved \cup {e}
    BY <1>1
  <2> HIDE DEF e
  <2>2. \A x : x \in {s[2] : s \in saved'} <=> x \in {s[2] : s \in saved} \cup {r}
    BY <2>1
  <2>3. {s[2] : s \in saved'} = {s[2] : s \in saved} \cup {r}
    BY <2>2, Zenon
  <2> QED
    BY <2>3 DEF Due
<1>6. HistoryTypeOK'
  <2>1. saved' \subseteq Writer \X Record
    BY <1>1, <1>2 DEF HistoryInv, HistoryTypeOK
  <2>2. \A v \in Writer : (record'[v] = 0) <=> (stage'[v] = "idle")
    BY <1>4 DEF HistoryInv, HistoryTypeOK
  <2> QED
    BY <1>1, <1>3, <1>4, <2>1, <2>2 DEF HistoryInv, HistoryTypeOK
<1>7. AppendedOnce'
  <2>1. ASSUME NEW s \in saved' PROVE s[2] = r \/ s \in saved
    BY <1>1
  <2>2. \A v \in Writer : v # w => record[v] # r
    BY <1>1 DEF HistoryInv, AppendedOnce, r
  <2>3. \A s \in saved' : s[2] \in 1..made' /\ \A v \in Writer : record'[v] # s[2]
    <3>1. 0 \notin 1..made
      BY <1>1
    <3> QED
      BY <1>1, <1>4, <2>1, <2>2, <3>1 DEF HistoryInv, AppendedOnce
  <2> QED
    BY <1>4, <2>3 DEF HistoryInv, AppendedOnce
<1>8. PruneKnows' /\ ReplacedKnows' /\ Safe' = Safe
  BY <1>1, <1>4 DEF HistoryInv, PruneKnows, ReplacedKnows, Safe
<1>9. TextInFile'
  BY <1>1, <1>3, <1>4 DEF HistoryInv, TextInFile
<1>10. PruneKeeps'
  <2>1. pruner # "idle" => r \in Safe
    BY <1>1 DEF HistoryInv, PruneKnows, r
  <2> QED
    BY <1>1, <1>5, <1>8, <2>1 DEF HistoryInv, PruneKeeps
<1>11. LostOnlyToPrune'
  <2>1. r \in Recorded \cup excused
    BY <1>1 DEF HistoryInv, TextInFile, r
  <2> QED
    BY <1>1, <1>3, <1>5, <2>1 DEF HistoryInv, LostOnlyToPrune
<1> QED
  BY <1>6, <1>7, <1>8, <1>9, <1>10, <1>11 DEF HistoryInv

LEMMA HistoryAppendCut ==
    ASSUME HistoryInv, NEW w \in Writer, AppendCut(w)
    PROVE  HistoryInv'
<1>1. /\ stage' = [stage EXCEPT ![w] = "idle"]
      /\ record' = [record EXCEPT ![w] = 0]
      /\ attached' = [attached EXCEPT ![w] = TRUE]
      /\ UNCHANGED <<file, made, pruner, keep, saved, during, excused>>
      /\ stage \in [Writer -> {"idle", "opened", "texted"}]
      /\ record \in [Writer -> 0..made] /\ attached \in [Writer -> BOOLEAN]
      /\ made \in Before..MaxRecords
  BY DEF AppendCut, HistoryInv, HistoryTypeOK
<1>2. /\ stage'[w] = "idle" /\ record'[w] = 0 /\ attached'[w]
      /\ \A v \in Writer : v # w => /\ stage'[v] = stage[v] /\ record'[v] = record[v]
                                    /\ attached'[v] = attached[v]
      /\ stage' \in [Writer -> {"idle", "opened", "texted"}]
      /\ record' \in [Writer -> 0..made] /\ attached' \in [Writer -> BOOLEAN]
  BY <1>1, RecordsPositive, HistoryAssumption
<1>3. HistoryTypeOK'
  <2>1. \A v \in Writer : (record'[v] = 0) <=> (stage'[v] = "idle")
    BY <1>2 DEF HistoryInv, HistoryTypeOK
  <2> QED
    BY <1>1, <1>2, <2>1 DEF HistoryInv, HistoryTypeOK
<1>4. AppendedOnce'
  <2>1. \A s \in saved : s[2] # 0
    BY <1>1, RecordsPositive DEF HistoryInv, AppendedOnce
  <2> QED
    BY <1>1, <1>2, <2>1 DEF HistoryInv, AppendedOnce
<1>5. PruneKnows' /\ ReplacedKnows' /\ TextInFile'
  BY <1>1, <1>2 DEF HistoryInv, PruneKnows, ReplacedKnows, TextInFile, Recorded, Safe
<1>6. PruneKeeps' /\ LostOnlyToPrune'
  BY <1>1 DEF HistoryInv, PruneKeeps, LostOnlyToPrune, Recorded, Safe, Due
<1> QED
  BY <1>3, <1>4, <1>5, <1>6 DEF HistoryInv

LEMMA HistoryPruneLoad ==
    ASSUME HistoryInv, PruneLoad
    PROVE  HistoryInv'
<1> DEFINE W == {w \in Writer : stage[w] = "opened"}
<1>1. /\ pruner' = "asking" /\ keep' = Kept /\ during' = {record[w] : w \in W}
      /\ UNCHANGED <<file, made, stage, record, attached, saved, excused>>
      /\ file \in Seq(Record \cup {NL}) /\ made \in Before..MaxRecords
      /\ record \in [Writer -> 0..made]
  BY DEF PruneLoad, HistoryInv, HistoryTypeOK
<1>2. Kept \in Seq(Record) /\ Recorded \ Old \subseteq Elements(Kept)
  BY <1>1, KeptRecords
<1>3. \A w \in Writer : stage[w] = "opened" => record[w] \in during'
  BY <1>1
<1>4. during' \subseteq Record
  <2>1. ASSUME NEW w \in W PROVE record[w] \in Record
    <3>1. record[w] \in 0..made /\ record[w] # 0
      BY <1>1 DEF HistoryInv, HistoryTypeOK
    <3> QED
      BY <1>1, <3>1, RecordsPositive DEF Record
  <2> QED
    BY <1>1, <2>1
<1>5. HistoryTypeOK'
  BY <1>1, <1>2, <1>4 DEF HistoryInv, HistoryTypeOK
<1>6. Recorded \cup excused \subseteq Safe'
  <2>1. Safe' = Elements(Kept) \cup Old \cup during' \cup excused
    BY <1>1 DEF Safe, Elements
  <2> QED
    BY <1>2, <2>1
<1> HIDE DEF W
<1>7. PruneKnows'
  <2>1. \A w \in Writer : stage[w] = "texted" => record[w] \in Safe'
    BY <1>6 DEF HistoryInv, TextInFile
  <2> QED
    BY <1>1, <1>3, <2>1 DEF PruneKnows
<1>8. AppendedOnce' /\ ReplacedKnows' /\ TextInFile' /\ LostOnlyToPrune'
  BY <1>1 DEF HistoryInv, AppendedOnce, ReplacedKnows, TextInFile, Recorded,
              LostOnlyToPrune, Due
<1>9. PruneKeeps'
  <2>1. Due' = Due /\ \A x \in Due : x \in Safe'
    BY <1>1, <1>6 DEF HistoryInv, LostOnlyToPrune, Due
  <2> QED
    BY <2>1 DEF PruneKeeps
<1> QED
  BY <1>5, <1>7, <1>8, <1>9 DEF HistoryInv

LEMMA HistoryPruneCopy ==
    ASSUME HistoryInv, PruneCopy
    PROVE  HistoryInv'
<1>1. /\ pruner = "asking" /\ pruner' = "copied"
      /\ UNCHANGED <<file, made, stage, record, attached, keep, saved, during, excused>>
  BY DEF PruneCopy
<1> QED
  BY <1>1 DEF HistoryInv, HistoryTypeOK, AppendedOnce, PruneKnows, ReplacedKnows,
              TextInFile, PruneKeeps, LostOnlyToPrune, Recorded, Safe, Due

LEMMA HistoryPruneRename ==
    ASSUME HistoryInv, PruneRename
    PROVE  HistoryInv'
<1>1. /\ pruner = "copied" /\ pruner' = "idle" /\ file' = Lines(keep)
      /\ keep' = <<>> /\ attached' = [w \in Writer |-> stage[w] = "idle"]
      /\ during' = {} /\ excused' = excused \cup Old \cup during
      /\ UNCHANGED <<made, stage, record, saved>>
      /\ keep \in Seq(Record)
  BY DEF PruneRename, HistoryInv, HistoryTypeOK
<1>2. file' \in Seq(Record \cup {NL}) /\ Elements(keep) \subseteq Recorded'
  <2>1. /\ Lines(keep) \in Seq(Record \cup {NL})
        /\ Elements(keep) \subseteq Elements(Lines(keep)) \ {NL}
    BY <1>1, LinesOfRecords
  <2>2. Recorded' = Elements(file') \ {NL}
    BY DEF Recorded, Elements
  <2> QED
    BY <1>1, <2>1, <2>2
<1>3. Safe \subseteq Recorded' \cup excused' /\ during \subseteq excused'
  BY <1>1, <1>2 DEF Safe
<1>4. HistoryTypeOK'
  <2>1. <<>> \in Seq(Record)
    BY EmptySeq
  <2>2. attached' \in [Writer -> BOOLEAN]
    BY <1>1
  <2>3. excused' \subseteq Record
    BY <1>1, HistoryAssumption, RecordsPositive DEF HistoryInv, HistoryTypeOK, Record
  <2> QED
    BY <1>1, <1>2, <2>1, <2>2, <2>3 DEF HistoryInv, HistoryTypeOK
<1>5. AppendedOnce' /\ PruneKnows' /\ PruneKeeps'
  BY <1>1 DEF HistoryInv, AppendedOnce, PruneKnows, PruneKeeps
<1>6. ReplacedKnows' /\ TextInFile'
  BY <1>1, <1>3 DEF HistoryInv, PruneKnows, ReplacedKnows, TextInFile
<1>7. LostOnlyToPrune'
  <2>1. Due' = Due /\ \A x \in Due : x \in Safe
    BY <1>1 DEF HistoryInv, PruneKeeps, Due
  <2> QED
    BY <1>3, <2>1 DEF LostOnlyToPrune
<1> QED
  BY <1>4, <1>5, <1>6, <1>7 DEF HistoryInv

LEMMA HistoryPruneCut ==
    ASSUME HistoryInv, PruneCut
    PROVE  HistoryInv'
<1>1. /\ pruner' = "idle" /\ keep' = <<>> /\ <<>> \in Seq(Record)
      /\ during' = {} /\ {} \subseteq Record
      /\ UNCHANGED <<file, made, stage, record, attached, saved, excused>>
  BY EmptySeq DEF PruneCut
<1> QED
  BY <1>1 DEF HistoryInv, HistoryTypeOK, AppendedOnce, PruneKnows, ReplacedKnows,
              TextInFile, PruneKeeps, LostOnlyToPrune, Recorded, Due

\* A step of whoever appends or prunes, or none.
LEMMA HistoryStep ==
    ASSUME HistoryInv, HistoryNext \/ UNCHANGED fileVars
    PROVE  HistoryInv'
<1>1. CASE HistoryNext
  <2>1. CASE \E w \in Writer : Open(w) \/ AppendStep(w) \/ AppendCut(w)
    BY <2>1, HistoryOpen, HistoryWriteText, HistoryWriteNewline, HistoryAppendCut
       DEF AppendStep
  <2>2. CASE PruneStep
    BY <2>2, HistoryPruneLoad, HistoryPruneCopy, HistoryPruneRename, HistoryPruneCut
       DEF PruneStep
  <2> QED
    BY <1>1, <2>1, <2>2 DEF HistoryNext
<1>2. CASE UNCHANGED fileVars
  BY <1>2 DEF fileVars, HistoryInv, HistoryTypeOK, AppendedOnce, PruneKnows,
              ReplacedKnows, TextInFile, PruneKeeps, LostOnlyToPrune, Recorded, Safe, Due
<1> QED
  BY <1>1, <1>2
=============================================================================
