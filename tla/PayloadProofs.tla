--------------------------- MODULE PayloadProofs ----------------------------
(***************************************************************************)
(* Proofs about Payload, for keys, payloads, words and blocks of any       *)
(* length, any keys, any other texts and any number of frames.             *)
(***************************************************************************)
EXTENDS Payload, SequenceTheorems, FiniteSetTheorems, WellFoundedInduction, TLAPS

-----------------------------------------------------------------------------
(***************************************************************************)
(* Sequences of cells of any kind, known by their length and their places. *)
(***************************************************************************)
Sequence(f) == f \in Seq(ToSet(f))

LEMMA SequenceIs ==
    ASSUME NEW f, Sequence(f)
    PROVE  /\ Len(f) \in Nat /\ DOMAIN f = 1..Len(f)
           /\ f \in Seq(ToSet(f)) /\ \A i \in 1..Len(f) : f[i] \in ToSet(f)
  BY LenProperties, ElementOfSeq DEF Sequence

LEMMA SequenceOf ==
    ASSUME NEW S, NEW f \in Seq(S)
    PROVE  Sequence(f)
<1>1. f \in [1..Len(f) -> S] /\ Len(f) \in Nat
  BY LenProperties
<1>2. f \in [1..Len(f) -> ToSet(f)]
  BY <1>1 DEF ToSet
<1> QED
  BY <1>1, <1>2, SeqDef DEF Sequence

\* Lengths that make the same interval are equal.
LEMMA SameInterval ==
    ASSUME NEW m \in Nat, NEW n \in Nat, 1..m = 1..n
    PROVE  m = n
<1>1. (m \in 1..m => m \in 1..n) /\ (n \in 1..n => n \in 1..m)
  OBVIOUS
<1>2. ASSUME NEW k \in Nat, NEW l \in Nat, k \in 1..k => k \in 1..l,
             l \in 1..l => l \in 1..k
      PROVE  k = l
  BY <1>2
<1> QED
  BY <1>1, <1>2

LEMMA FunctionIs ==
    ASSUME NEW n \in Nat, NEW f, f = [i \in 1..n |-> f[i]]
    PROVE  Sequence(f) /\ Len(f) = n
<1>1. f \in [1..n -> ToSet(f)] /\ DOMAIN f = 1..n
  BY DEF ToSet
<1>2. f \in Seq(ToSet(f))
  BY <1>1, SeqDef
<1>3. Len(f) \in Nat /\ DOMAIN f = 1..Len(f)
  BY <1>2, LenProperties
<1> QED
  BY <1>1, <1>2, <1>3, SameInterval DEF Sequence

LEMMA SameSequence ==
    ASSUME NEW f, NEW g, Sequence(f), Sequence(g), Len(f) = Len(g),
           \A i \in 1..Len(f) : f[i] = g[i]
    PROVE  f = g
<1> DEFINE S == ToSet(f) \cup ToSet(g)
<1>1. f \in Seq(S) /\ g \in Seq(S)
  BY SequenceIs, SeqMonotonic
<1> QED
  BY <1>1, SeqEqual

LEMMA SequenceAppend ==
    ASSUME NEW f, NEW x, Sequence(f)
    PROVE  /\ Sequence(Append(f, x)) /\ Len(Append(f, x)) = Len(f) + 1
           /\ \A i \in 1..Len(f) : Append(f, x)[i] = f[i]
           /\ Append(f, x)[Len(f) + 1] = x
<1> DEFINE S == ToSet(f) \cup {x}
<1>1. f \in Seq(S) /\ x \in S
  BY SequenceIs, SeqMonotonic
<1> HIDE DEF S
<1>2. /\ Append(f, x) \in Seq(S) /\ Len(Append(f, x)) = Len(f) + 1
      /\ \A i \in 1..Len(f) : Append(f, x)[i] = f[i]
      /\ Append(f, x)[Len(f) + 1] = x
  BY <1>1, AppendProperties
<1> QED
  BY <1>2, SequenceOf

LEMMA SequenceConcat ==
    ASSUME NEW f, NEW g, Sequence(f), Sequence(g)
    PROVE  /\ Sequence(f \o g) /\ Len(f \o g) = Len(f) + Len(g)
           /\ \A i \in 1..Len(f) : (f \o g)[i] = f[i]
           /\ \A i \in 1..Len(g) : (f \o g)[Len(f) + i] = g[i]
<1> DEFINE S == ToSet(f) \cup ToSet(g)
           h == f \o g
<1>1. f \in Seq(S) /\ g \in Seq(S)
  BY SequenceIs, SeqMonotonic
<1> HIDE DEF S
<1>2. /\ h \in Seq(S) /\ Len(h) = Len(f) + Len(g)
      /\ \A i \in 1..Len(f) + Len(g) : h[i] = IF i <= Len(f) THEN f[i] ELSE g[i - Len(f)]
      /\ Len(f) \in Nat /\ Len(g) \in Nat
  BY <1>1, ConcatProperties, SequenceIs
<1> HIDE DEF h
<1>3. ASSUME NEW i \in 1..Len(f) PROVE h[i] = f[i]
  <2>1. i \in 1..Len(f) + Len(g) /\ i <= Len(f)
    BY <1>2
  <2> QED
    BY <1>2, <2>1
<1>4. ASSUME NEW i \in 1..Len(g) PROVE h[Len(f) + i] = g[i]
  <2>1. /\ Len(f) + i \in 1..Len(f) + Len(g) /\ ~(Len(f) + i <= Len(f))
        /\ (Len(f) + i) - Len(f) = i
    BY <1>2
  <2> QED
    BY <1>2, <2>1
<1> QED
  BY <1>2, <1>3, <1>4, SequenceOf DEF h

LEMMA SequenceOne ==
    ASSUME NEW x
    PROVE  Sequence(<<x>>) /\ Len(<<x>>) = 1 /\ <<x>>[1] = x
<1>1. <<x>> \in Seq({x})
  OBVIOUS
<1> QED
  BY <1>1, SequenceOf

LEMMA SequencePrepend ==
    ASSUME NEW x, NEW g, Sequence(g)
    PROVE  LET d == <<x>> \o g IN
           /\ Sequence(d) /\ Len(d) = Len(g) + 1 /\ d[1] = x
           /\ \A i \in 1..Len(g) : d[i + 1] = g[i]
<1> DEFINE e == <<x>>
           d == e \o g
<1>0. Sequence(e)
  BY SequenceOne
<1>1. Len(e) = 1 /\ e[1] = x /\ Len(g) \in Nat
  BY SequenceOne, SequenceIs
<1>2. d = <<x>> \o g
  OBVIOUS
<1> HIDE DEF e
<1>3. d = e \o g
  OBVIOUS
<1> HIDE DEF d
<1>4. /\ Sequence(d) /\ Len(d) = Len(e) + Len(g)
      /\ \A i \in 1..Len(e) : d[i] = e[i]
      /\ \A i \in 1..Len(g) : d[Len(e) + i] = g[i]
  BY <1>0, <1>3, SequenceConcat
<1>5. Len(d) = Len(g) + 1 /\ d[1] = x
  BY <1>1, <1>4
<1>6. ASSUME NEW i \in 1..Len(g) PROVE d[i + 1] = g[i]
  <2>1. Len(e) + i = i + 1
    BY <1>1
  <2> QED
    BY <1>4, <2>1
<1> QED
  BY <1>2, <1>4, <1>5, <1>6

LEMMA SequenceEmpty == Sequence(<<>>) /\ Len(<<>>) = 0
  BY EmptySeq, SequenceOf

LEMMA SequencePart ==
    ASSUME NEW f, Sequence(f), NEW m \in 1..2, NEW n \in 0..Len(f), m <= n + 1
    PROVE  /\ Sequence(SubSeq(f, m, n)) /\ Len(SubSeq(f, m, n)) = n + 1 - m
           /\ \A i \in 1..(n + 1 - m) : SubSeq(f, m, n)[i] = f[i + m - 1]
<1> DEFINE S == ToSet(f)
           h == SubSeq(f, m, n)
<1>1. /\ Len(f) \in Nat /\ \A i \in 1..Len(f) : f[i] \in S
  BY SequenceIs
<1>2. m \in Int /\ n \in Int /\ \A i \in m..n : f[i] \in S
  BY <1>1
<1> HIDE DEF S
<1>3. /\ h \in Seq(S) /\ Len(h) = IF m <= n THEN n - m + 1 ELSE 0
      /\ \A i \in 1..(n - m + 1) : h[i] = f[m + i - 1]
  BY <1>2, SubSeqProperties
<1> HIDE DEF h
<1>4. Len(h) = n + 1 - m
  BY <1>1, <1>3
<1>5. ASSUME NEW i \in 1..(n + 1 - m) PROVE h[i] = f[i + m - 1]
  <2>1. i \in 1..(n - m + 1) /\ m + i - 1 = i + m - 1
    BY <1>1
  <2> QED
    BY <1>3, <2>1
<1> QED
  BY <1>3, <1>4, <1>5, SequenceOf DEF h

LEMMA SequenceTail ==
    ASSUME NEW f, Sequence(f), 1 <= Len(f)
    PROVE  /\ Sequence(Tail(f)) /\ Len(Tail(f)) = Len(f) - 1 /\ Head(f) = f[1]
           /\ \A i \in 1..(Len(f) - 1) : Tail(f)[i] = f[i + 1]
<1>1. f # <<>> /\ f \in Seq(ToSet(f))
  BY SequenceIs, SequenceEmpty
<1>2. /\ Tail(f) \in Seq(ToSet(f)) /\ Len(Tail(f)) = Len(f) - 1
      /\ \A i \in 1..Len(Tail(f)) : Tail(f)[i] = f[i + 1]
  BY <1>1, HeadTailProperties
<1>3. Head(f) = f[1]
  BY <1>1
<1> QED
  BY <1>2, <1>3, SequenceOf

Changed(f, i, x) == [f EXCEPT ![i] = x]

LEMMA SequenceExcept ==
    ASSUME NEW f, Sequence(f), NEW i \in 1..Len(f), NEW x
    PROVE  LET h == Changed(f, i, x) IN
           /\ Sequence(h) /\ Len(h) = Len(f) /\ h[i] = x
           /\ \A j \in 1..Len(f) : j # i => h[j] = f[j]
<1> DEFINE S == ToSet(f) \cup {x}
           h == [f EXCEPT ![i] = x]
<1>1. f \in Seq(S) /\ x \in S
  BY SequenceIs, SeqMonotonic
<1> HIDE DEF S
<1>2. /\ h \in Seq(S) /\ Len(h) = Len(f)
      /\ \A j \in 1..Len(f) : h[j] = IF j = i THEN x ELSE f[j]
  BY <1>1, ExceptSeq
<1> HIDE DEF h
<1>3. /\ Sequence(h) /\ h[i] = x
      /\ \A j \in 1..Len(f) : j # i => h[j] = f[j]
  BY <1>2, SequenceOf
<1> QED
  BY <1>2, <1>3 DEF h, Changed

-----------------------------------------------------------------------------
(***************************************************************************)
(* Padding to a multiple.                                                  *)
(***************************************************************************)
LEMMA DivMod ==
    ASSUME NEW n \in Nat \ {0}, NEW x \in Int
    PROVE  /\ x \div n \in Int /\ x % n \in 0..(n - 1)
           /\ x = (n * (x \div n)) + (x % n)
  OBVIOUS

LEMMA SmallMultiple ==
    ASSUME NEW n \in Nat \ {0}, NEW z \in Int, n * z < n, 0 - n < n * z
    PROVE  z = 0
<1>1. z >= 1 => n * z >= n
  OBVIOUS
<1>2. z <= 0 - 1 => n * z <= 0 - n
  OBVIOUS
<1> QED
  BY <1>1, <1>2

\* The two ways of rounding up to a whole block agree.
LEMMA RoundedUp ==
    ASSUME NEW n \in Nat \ {0}, NEW l \in Nat
    PROVE  /\ (0 - l) % n \in Nat
           /\ l + ((0 - l) % n) = n * ((l + n - 1) \div n)
<1> DEFINE p == (0 - l) % n
           q == (0 - l) \div n
           d == (l + n - 1) \div n
           e == (l + n - 1) % n
<1>1. p \in 0..(n - 1) /\ q \in Int /\ 0 - l = (n * q) + p
  BY SMTT(30), DivMod
<1>2. e \in 0..(n - 1) /\ d \in Int /\ l + n - 1 = (n * d) + e
  BY DivMod
<1> HIDE DEF p, q, d, e
<1>3. n * (d + q) = (n * d) + (n * q)
  BY <1>1, <1>2
<1>4. d + q = 0
  BY <1>1, <1>2, <1>3, SmallMultiple
<1>5. n * (d + q) = 0
  BY <1>4
<1>6. p \in Nat /\ l + p = n * d
  BY <1>1, <1>2, <1>3, <1>5
<1> QED
  BY <1>6 DEF p, d

LEMMA PaddedIs ==
    ASSUME NEW n \in Nat \ {0}, NEW f, Sequence(f)
    PROVE  LET p == Padded(f, n) IN
           /\ Sequence(p) /\ Len(p) = n * ((Len(f) + n - 1) \div n) /\ Len(f) <= Len(p)
           /\ \A i \in 1..Len(p) : p[i] = IF i <= Len(f) THEN f[i] ELSE Zero
<1> DEFINE p == Padded(f, n)
           k == (0 - Len(f)) % n
           z == [i \in 1..k |-> Zero]
<1>1. Len(f) \in Nat
  BY SequenceIs
<1>2. k \in Nat /\ Len(f) + k = n * ((Len(f) + n - 1) \div n)
  BY <1>1, RoundedUp
<1>3. p = f \o z
  BY DEF Padded
<1> HIDE DEF k
<1>4. Sequence(z) /\ Len(z) = k /\ \A i \in 1..k : z[i] = Zero
  <2>1. z = [i \in 1..k |-> z[i]] /\ \A i \in 1..k : z[i] = Zero
    OBVIOUS
  <2> HIDE DEF z
  <2> QED
    BY <1>2, <2>1, FunctionIs
<1> HIDE DEF z, p
<1>5. /\ Sequence(p) /\ Len(p) = Len(f) + k
      /\ \A i \in 1..Len(f) : p[i] = f[i]
      /\ \A i \in 1..k : p[Len(f) + i] = z[i]
  BY SMTT(30), <1>3, <1>4, SequenceConcat
<1>6. ASSUME NEW i \in 1..Len(p) PROVE p[i] = IF i <= Len(f) THEN f[i] ELSE Zero
  <2>1. CASE i <= Len(f)
    BY <1>1, <1>5, <2>1
  <2>2. CASE ~(i <= Len(f))
    <3>1. i - Len(f) \in 1..k /\ Len(f) + (i - Len(f)) = i
      BY <1>1, <1>2, <1>5, <2>2
    <3>2. p[Len(f) + (i - Len(f))] = Zero
      BY <1>4, <1>5, <3>1
    <3> QED
      BY <2>2, <3>1, <3>2
  <2> QED
    BY <2>1, <2>2
<1> QED
  BY <1>1, <1>2, <1>5, <1>6 DEF p

-----------------------------------------------------------------------------
(***************************************************************************)
(* Terms: what the bytes are made of.                                      *)
(***************************************************************************)
StreamTerm(k, n, c, o) == <<"stream", k, n, c, o>>
TagTerm(a, b)          == <<"tag", a, b>>
DataTerm(i, j)         == <<"data", i, j>>
HeaderTerm(n)          == <<"deflate", n>>
NonceTerm(i)           == <<"nonce", i>>
CountTerm(n)           == <<"count", n>>
NoiseTerm              == <<"noise">>

NonceOf(i) == {NonceTerm(i)}

LEMMA Terms ==
    /\ \A k, n, c, o : LET t == StreamTerm(k, n, c, o) IN
          t[1] = "stream" /\ t[2] = k /\ t[3] = n /\ t[4] = c /\ t[5] = o
    /\ \A a, b : LET t == TagTerm(a, b) IN t[1] = "tag" /\ t[2] = a /\ t[3] = b
    /\ \A i, j : LET t == DataTerm(i, j) IN t[1] = "data" /\ t[2] = i /\ t[3] = j
    /\ \A n : HeaderTerm(n)[1] = "deflate" /\ HeaderTerm(n)[2] = n
    /\ \A n : NonceTerm(n)[1] = "nonce" /\ NonceTerm(n)[2] = n
    /\ \A n : CountTerm(n)[1] = "count" /\ CountTerm(n)[2] = n
    /\ NoiseTerm[1] = "noise"
  BY DEF StreamTerm, TagTerm, DataTerm, HeaderTerm, NonceTerm, CountTerm, NoiseTerm

LEMMA Bytes ==
    /\ \A k, n, c, o : Stream(k, n, c, o) = {StreamTerm(k, n, c, o)}
    /\ \A a, b : Poly1305(a, b) = {TagTerm(a, b)}
    /\ \A n : Header(n) = {HeaderTerm(n)}
    /\ \A n : Count(n) = {CountTerm(n)}
  BY DEF Stream, Poly1305, Header, Count, StreamTerm, TagTerm, HeaderTerm, CountTerm

LEMMA XorTwice ==
    ASSUME NEW x, NEW y
    PROVE  Xor(Xor(x, y), y) = x
  BY DEF Xor

-----------------------------------------------------------------------------
(***************************************************************************)
(* The two constructions are the same.                                     *)
(***************************************************************************)
LEMMA Sizes ==
    /\ KeyBytes \in Nat \ {0} /\ Word \in Nat \ {0} /\ MacBlock \in Nat \ {0}
    /\ StreamBlock \in Nat \ {0} /\ Lengths \subseteq Nat
  BY PayloadAssumption

LEMMA CipherIs ==
    ASSUME NEW k, NEW n, NEW b, NEW f, Sequence(f)
    PROVE  LET c == ChaCha20(k, n, b, f) IN
           /\ Sequence(c) /\ Len(c) = Len(f)
           /\ \A i \in 1..Len(f) :
                 c[i] = Xor(f[i], Stream(k, n, b + (i - 1) \div StreamBlock,
                                        (i - 1) % StreamBlock))
<1> DEFINE c == ChaCha20(k, n, b, f)
           e(i) == Xor(f[i], Stream(k, n, b + (i - 1) \div StreamBlock,
                                    (i - 1) % StreamBlock))
<1>1. c = [i \in 1..Len(f) |-> e(i)]
  BY DEF ChaCha20
<1> HIDE DEF c, e
<1>2. c = [i \in 1..Len(f) |-> c[i]] /\ \A i \in 1..Len(f) : c[i] = e(i)
  BY <1>1
<1>3. Sequence(c) /\ Len(c) = Len(f)
  BY <1>2, SequenceIs, FunctionIs
<1> QED
  BY <1>2, <1>3 DEF c, e

LEMMA GpuCipher ==
    ASSUME NEW k, NEW n, NEW f, Sequence(f)
    PROVE  GpuChaCha20(k, n, f) = ChaCha20(k, n, 1, f)
<1> DEFINE p == Padded(f, Word)
           c == ChaCha20(k, n, 1, f)
           d == ChaCha20(k, n, 1, p)
           e == SubSeq(d, 1, Len(f))
           byte(i) == Stream(k, n, 1 + (i - 1) \div StreamBlock, (i - 1) % StreamBlock)
<1>1. Len(f) \in Nat
  BY SequenceIs
<1>2. /\ Sequence(p) /\ Len(f) <= Len(p) /\ Len(p) \in Nat
      /\ \A i \in 1..Len(p) : p[i] = IF i <= Len(f) THEN f[i] ELSE Zero
  BY Sizes, PaddedIs, SequenceIs
<1> HIDE DEF p
<1>3. Sequence(c) /\ Len(c) = Len(f) /\ \A i \in 1..Len(f) : c[i] = Xor(f[i], byte(i))
  BY CipherIs
<1>4. Sequence(d) /\ Len(d) = Len(p) /\ \A i \in 1..Len(p) : d[i] = Xor(p[i], byte(i))
  BY <1>2, CipherIs
<1> HIDE DEF c, d, byte
<1>5. Len(f) \in 0..Len(d) /\ 1 \in 1..2 /\ 1 <= Len(f) + 1
  BY <1>1, <1>2, <1>4
<1>6. /\ Sequence(e) /\ Len(e) = Len(f) + 1 - 1
      /\ \A i \in 1..(Len(f) + 1 - 1) : e[i] = d[i + 1 - 1]
  BY <1>4, <1>5, SequencePart
<1> HIDE DEF e
<1>7. Len(f) + 1 - 1 = Len(f) /\ \A i \in 1..Len(f) : i + 1 - 1 = i /\ i \in 1..Len(p) /\ i <= Len(f)
  BY <1>1, <1>2
<1>8. \A i \in 1..Len(f) : e[i] = c[i]
  BY <1>2, <1>3, <1>4, <1>6, <1>7
<1>9. e = c
  BY <1>3, <1>6, <1>7, <1>8, SameSequence
<1> QED
  BY <1>9 DEF GpuChaCha20, CounterBase, e, c, d, p

\* What the crate authenticates.
Padding(f) ==
    [i \in 1..(MacBlock * ((Len(f) + MacBlock - 1) \div MacBlock)) |->
        IF i <= Len(f) THEN f[i] ELSE Zero]

LEMMA PaddingIs ==
    ASSUME NEW f, Sequence(f)
    PROVE  /\ Pad16(f) = Padding(f) /\ Sequence(Padding(f)) /\ Len(f) <= Len(Padding(f))
           /\ \A i \in 1..Len(f) : Padding(f)[i] = f[i]
<1> DEFINE p == Padded(f, MacBlock)
           q == Padding(f)
           s == MacBlock * ((Len(f) + MacBlock - 1) \div MacBlock)
<1>1. /\ Sequence(p) /\ Len(p) = s /\ Len(f) <= Len(p)
      /\ Len(p) \in Nat /\ Len(f) \in Nat
      /\ \A i \in 1..Len(p) : p[i] = IF i <= Len(f) THEN f[i] ELSE Zero
  BY Sizes, PaddedIs, SequenceIs
<1>2. q = [i \in 1..s |-> q[i]] /\ \A i \in 1..s : q[i] = IF i <= Len(f) THEN f[i] ELSE Zero
  BY DEF Padding
<1> HIDE DEF p, q, s
<1>3. Sequence(q) /\ Len(q) = s
  BY <1>1, <1>2, FunctionIs
<1>4. p = q
  BY <1>1, <1>2, <1>3, SameSequence
<1>5. \A i \in 1..Len(f) : i \in 1..s /\ i <= Len(f)
  BY <1>1
<1> QED
  BY <1>1, <1>2, <1>3, <1>4, <1>5 DEF p, q, Pad16

\* All that a tag is made from.
Authenticated(f) == Padding(f) \o <<Count(0), Count(Len(f))>>

LEMMA CrateTagIs ==
    ASSUME NEW k, NEW n, NEW f
    PROVE  CrateTag(k, n, f) = {TagTerm(PolyKey(k, n), Authenticated(f))}
  BY DEF CrateTag, Padding, Authenticated, Poly1305, TagTerm

LEMMA GpuTag ==
    ASSUME NEW k, NEW n, NEW f, Sequence(f)
    PROVE  PolyTag(k, n, f) = CrateTag(k, n, f)
<1>1. Pad16(f) = Padding(f)
  BY PaddingIs
<1> QED
  BY <1>1, CrateTagIs, Zenon DEF PolyTag, Authenticated, Poly1305, TagTerm

LEMMA AuthenticatedIs ==
    ASSUME NEW f, Sequence(f)
    PROVE  LET a == Authenticated(f) IN
           /\ Len(f) \in Nat /\ a[Len(a)] = Count(Len(f))
           /\ \A i \in 1..Len(f) : a[i] = f[i]
<1> DEFINE p == Padding(f)
           e == <<Count(0), Count(Len(f))>>
           a == p \o e
<1>1. /\ Sequence(p) /\ Len(f) <= Len(p) /\ Len(p) \in Nat /\ Len(f) \in Nat
      /\ \A i \in 1..Len(f) : p[i] = f[i]
  BY PaddingIs, SequenceIs
<1>2. Sequence(e) /\ Len(e) = 2 /\ e[2] = Count(Len(f))
  <2>1. e \in Seq({Count(0), Count(Len(f))})
    OBVIOUS
  <2> QED
    BY <2>1, SequenceOf
<1>3. a = Authenticated(f)
  BY DEF Authenticated
<1> HIDE DEF p, e
<1>4. /\ Len(a) = Len(p) + Len(e)
      /\ \A i \in 1..Len(p) : a[i] = p[i]
      /\ \A i \in 1..Len(e) : a[Len(p) + i] = e[i]
  BY <1>1, <1>2, SequenceConcat
<1> HIDE DEF a
<1>5. \A i \in 1..Len(f) : a[i] = f[i]
  BY <1>1, <1>4
<1>6. a[Len(a)] = Count(Len(f))
  BY <1>2, <1>4
<1> QED
  BY <1>1, <1>3, <1>5, <1>6

\* Tags are equal only if keys, nonces and all the bytes are.
LEMMA TagsDiffer ==
    ASSUME NEW k, NEW n, NEW f, Sequence(f), NEW l, NEW m, NEW g, Sequence(g),
           CrateTag(k, n, f) = CrateTag(l, m, g)
    PROVE  k = l /\ n = m /\ f = g
<1> DEFINE a == Authenticated(f)
           b == Authenticated(g)
<1>1. TagTerm(PolyKey(k, n), a) = TagTerm(PolyKey(l, m), b)
  BY CrateTagIs
<1>2. PolyKey(k, n) = PolyKey(l, m) /\ a = b
  <2>1. \A x, y : TagTerm(x, y)[2] = x /\ TagTerm(x, y)[3] = y
    BY Terms
  <2> HIDE DEF a, b
  <2> QED
    BY <1>1, <2>1
<1>3. k = l /\ n = m
  BY <1>2 DEF PolyKey
<1>4. /\ Len(f) \in Nat /\ a[Len(a)] = Count(Len(f)) /\ \A i \in 1..Len(f) : a[i] = f[i]
      /\ Len(g) \in Nat /\ b[Len(b)] = Count(Len(g)) /\ \A i \in 1..Len(g) : b[i] = g[i]
  BY AuthenticatedIs
<1> HIDE DEF a, b
<1>5. CountTerm(Len(f)) = CountTerm(Len(g))
  <2>1. {CountTerm(Len(f))} = {CountTerm(Len(g))}
    BY <1>2, <1>4, Bytes
  <2> QED
    BY <2>1
<1>6. Len(f) = Len(g)
  <2>1. \A c : CountTerm(c)[2] = c
    BY Terms
  <2> QED
    BY <1>5, <2>1
<1>7. f = g
  BY <1>2, <1>4, <1>6, SameSequence
<1> QED
  BY <1>3, <1>7

-----------------------------------------------------------------------------
(***************************************************************************)
(* Frames.                                                                 *)
(***************************************************************************)
\* The payload of n bytes of the frame with number id, its ciphertext, and it.
Data(id, n) == [i \in 1..n |-> {DataTerm(id, i)}]

Cipher(k, id, n) == ChaCha20(k, NonceOf(id), 1, Deflate(Data(id, n)))

SealedFrame(k, id, n) ==
    <<NonceOf(id)>> \o Append(Cipher(k, id, n), CrateTag(k, NonceOf(id), Cipher(k, id, n)))

LEMMA PartsOf ==
    ASSUME NEW f, Sequence(f), Len(f) >= 2
    PROVE  /\ Nonce(f) = f[1] /\ Last(f) = f[Len(f)]
           /\ Sequence(Body(f)) /\ Len(Body(f)) = Len(f) - 2
           /\ \A i \in 1..(Len(f) - 2) : Body(f)[i] = f[i + 1]
<1> DEFINE t == Tail(f)
           b == SubSeq(t, 1, Len(t) - 1)
<1>1. Len(f) \in Nat /\ 1 <= Len(f)
  BY SequenceIs
<1>2. /\ Sequence(t) /\ Len(t) = Len(f) - 1 /\ Head(f) = f[1]
      /\ \A i \in 1..(Len(f) - 1) : t[i] = f[i + 1]
  BY <1>1, SequenceTail
<1> HIDE DEF t
<1>3. Len(t) - 1 \in 0..Len(t) /\ 1 \in 1..2 /\ 1 <= (Len(t) - 1) + 1
  BY <1>1, <1>2
<1>4. /\ Sequence(b) /\ Len(b) = (Len(t) - 1) + 1 - 1
      /\ \A i \in 1..((Len(t) - 1) + 1 - 1) : b[i] = t[i + 1 - 1]
  BY <1>2, <1>3, SequencePart
<1>5. Body(f) = b
  BY DEF Body, Front, t
<1> HIDE DEF b
<1>6. Len(b) = Len(f) - 2
  BY <1>1, <1>2, <1>4
<1>7. ASSUME NEW i \in 1..(Len(f) - 2) PROVE b[i] = f[i + 1]
  <2>1. /\ i \in 1..((Len(t) - 1) + 1 - 1) /\ i \in 1..(Len(f) - 1)
        /\ i + 1 - 1 = i
    BY <1>1, <1>2
  <2> QED
    BY <1>2, <1>4, <2>1
<1> QED
  BY <1>2, <1>4, <1>5, <1>6, <1>7 DEF Nonce, Last

\* A frame is its nonce, its body and its tag.
LEMMA SameParts ==
    ASSUME NEW f, NEW g, Sequence(f), Sequence(g), Len(f) >= 2, Len(g) >= 2,
           Nonce(f) = Nonce(g), Body(f) = Body(g), Last(f) = Last(g)
    PROVE  f = g
<1>1. /\ Nonce(f) = f[1] /\ Last(f) = f[Len(f)] /\ Len(Body(f)) = Len(f) - 2
      /\ \A i \in 1..(Len(f) - 2) : Body(f)[i] = f[i + 1]
      /\ Nonce(g) = g[1] /\ Last(g) = g[Len(g)] /\ Len(Body(g)) = Len(g) - 2
      /\ \A i \in 1..(Len(g) - 2) : Body(g)[i] = g[i + 1]
      /\ Len(f) \in Nat /\ Len(g) \in Nat
  BY PartsOf, SequenceIs
<1>2. Len(f) = Len(g)
  BY <1>1
<1>3. ASSUME NEW i \in 1..Len(f) PROVE f[i] = g[i]
  <2>1. CASE i = 1
    BY <1>1, <2>1
  <2>2. CASE i = Len(f)
    BY <1>1, <1>2, <2>2
  <2>3. CASE i \in 2..(Len(f) - 1)
    <3>1. i - 1 \in 1..(Len(f) - 2) /\ (i - 1) + 1 = i
      BY <1>1, <2>3
    <3>2. f[(i - 1) + 1] = g[(i - 1) + 1]
      BY <1>1, <1>2, <3>1
    <3> QED
      BY <3>1, <3>2
  <2> QED
    BY <1>1, <2>1, <2>2, <2>3
<1> QED
  BY <1>2, <1>3, SameSequence

LEMMA DataIs ==
    ASSUME NEW id, NEW n \in Nat
    PROVE  LET d == Deflate(Data(id, n)) IN
           /\ Sequence(Data(id, n)) /\ Len(Data(id, n)) = n
           /\ Sequence(d) /\ Len(d) = n + 1 /\ d[1] = Header(n)
           /\ \A i \in 1..n : d[i + 1] = {DataTerm(id, i)} /\ Data(id, n)[i] = {DataTerm(id, i)}
<1> DEFINE p == Data(id, n)
           d == Deflate(p)
<1>1. p = [i \in 1..n |-> p[i]] /\ \A i \in 1..n : p[i] = {DataTerm(id, i)}
  BY DEF Data
<1> HIDE DEF p
<1>2. Sequence(p) /\ Len(p) = n
  BY <1>1, FunctionIs
<1>3. d = <<Header(n)>> \o p
  BY <1>2 DEF Deflate
<1> HIDE DEF d
<1>4. /\ Sequence(d) /\ Len(d) = Len(p) + 1 /\ d[1] = Header(n)
      /\ \A i \in 1..Len(p) : d[i + 1] = p[i]
  BY <1>2, <1>3, SequencePrepend
<1>5. Len(d) = n + 1 /\ \A i \in 1..n : d[i + 1] = {DataTerm(id, i)}
  BY <1>1, <1>2, <1>4
<1> QED
  BY <1>1, <1>2, <1>4, <1>5 DEF p, d

LEMMA SealedIs ==
    ASSUME NEW k, NEW id, NEW n \in Nat
    PROVE  LET f == SealedFrame(k, id, n) IN
           /\ Sequence(f) /\ Len(f) = n + 3 /\ f[1] = NonceOf(id)
           /\ Nonce(f) = NonceOf(id) /\ Body(f) = Cipher(k, id, n)
           /\ Last(f) = CrateTag(k, NonceOf(id), Cipher(k, id, n))
           /\ Sequence(Cipher(k, id, n)) /\ Len(Cipher(k, id, n)) = n + 1
<1> DEFINE c == Cipher(k, id, n)
           t == CrateTag(k, NonceOf(id), c)
           a == Append(c, t)
           f == SealedFrame(k, id, n)
<1>1. Sequence(c) /\ Len(c) = n + 1
  BY DataIs, CipherIs DEF Cipher
<1>2. f = <<NonceOf(id)>> \o a
  BY DEF SealedFrame
<1> HIDE DEF c, t
<1>3. /\ Sequence(a) /\ Len(a) = Len(c) + 1
      /\ \A i \in 1..Len(c) : a[i] = c[i]
      /\ a[Len(c) + 1] = t
  BY <1>1, SequenceAppend
<1> HIDE DEF a, f
<1>4. /\ Sequence(f) /\ Len(f) = Len(a) + 1 /\ f[1] = NonceOf(id)
      /\ \A i \in 1..Len(a) : f[i + 1] = a[i]
  BY <1>2, <1>3, SequencePrepend
<1>6. Len(f) = n + 3
  BY <1>1, <1>3, <1>4
<1>7. f[n + 3] = t
  <2>1. n + 2 \in 1..Len(a) /\ (n + 2) + 1 = n + 3 /\ Len(c) + 1 = n + 2
    BY <1>1, <1>3
  <2> QED
    BY <1>3, <1>4, <2>1
<1>8. /\ Nonce(f) = f[1] /\ Last(f) = f[Len(f)]
      /\ Sequence(Body(f)) /\ Len(Body(f)) = Len(f) - 2
      /\ \A i \in 1..(Len(f) - 2) : Body(f)[i] = f[i + 1]
  <2>1. Len(f) >= 2
    BY <1>6
  <2> QED
    BY <1>4, <2>1, PartsOf
<1>9. ASSUME NEW i \in 1..(n + 1) PROVE Body(f)[i] = c[i]
  <2>1. i \in 1..(Len(f) - 2) /\ i \in 1..Len(a) /\ i \in 1..Len(c)
    BY <1>1, <1>3, <1>6
  <2> QED
    BY <1>3, <1>4, <1>8, <2>1
<1>10. Body(f) = c
  <2>1. Len(Body(f)) = n + 1
    BY <1>6, <1>8
  <2> QED
    BY <1>1, <1>8, <1>9, <2>1, SameSequence
<1> QED
  BY <1>1, <1>4, <1>6, <1>7, <1>8, <1>10 DEF c, t, f

\* Each byte of a ciphertext is one of the plaintext under one of the key stream.
LEMMA CipherCells ==
    ASSUME NEW k, NEW id, NEW n \in Nat, NEW i \in 1..(n + 1)
    PROVE  \E t : /\ t[1] \in {"deflate", "data"}
                  /\ Cipher(k, id, n)[i] =
                        {t, StreamTerm(k, NonceOf(id), 1 + (i - 1) \div StreamBlock,
                                       (i - 1) % StreamBlock)}
<1> DEFINE d == Deflate(Data(id, n))
           s == StreamTerm(k, NonceOf(id), 1 + (i - 1) \div StreamBlock, (i - 1) % StreamBlock)
<1>1. /\ Sequence(d) /\ Len(d) = n + 1 /\ d[1] = Header(n)
      /\ \A j \in 1..n : d[j + 1] = {DataTerm(id, j)}
  BY DataIs
<1> HIDE DEF d
<1>2. Cipher(k, id, n)[i] = Xor(d[i], {s})
  <2> DEFINE b == Stream(k, NonceOf(id), 1 + (i - 1) \div StreamBlock, (i - 1) % StreamBlock)
  <2>1. Cipher(k, id, n) = ChaCha20(k, NonceOf(id), 1, d)
    BY DEF Cipher, d
  <2>2. Cipher(k, id, n)[i] = Xor(d[i], b)
    BY <1>1, <2>1, CipherIs
  <2>3. b = {s}
    BY Bytes
  <2> HIDE DEF b, s
  <2> QED
    BY <2>2, <2>3
<1>3. s[1] = "stream"
  BY Terms
<1>4. PICK t : d[i] = {t} /\ t[1] \in {"deflate", "data"}
  <2>1. CASE i = 1
    <3>1. d[i] = {HeaderTerm(n)} /\ HeaderTerm(n)[1] = "deflate"
      BY <1>1, <2>1, Bytes, Terms
    <3> QED
      BY <3>1
  <2>2. CASE i # 1
    <3>1. i - 1 \in 1..n /\ (i - 1) + 1 = i
      BY <2>2
    <3>2. d[(i - 1) + 1] = {DataTerm(id, i - 1)} /\ DataTerm(id, i - 1)[1] = "data"
      BY <1>1, <3>1, Terms
    <3> QED
      BY <3>1, <3>2
  <2> QED
    BY <2>1, <2>2
<1>5. t # s
  BY <1>3, <1>4
<1> HIDE DEF s
<1>6. Xor({t}, {s}) = {t, s}
  BY <1>5 DEF Xor
<1>7. Cipher(k, id, n)[i] = {t, s}
  BY <1>2, <1>4, <1>6
<1> QED
  BY <1>4, <1>7 DEF s

\* Taking the key stream away gives the plaintext, and inflating that the payload.
LEMMA Decrypts ==
    ASSUME NEW k, NEW id, NEW n \in Nat
    PROVE  Inflate(ChaCha20(k, NonceOf(id), 1, Cipher(k, id, n))) = {Data(id, n)}
<1> DEFINE d == Deflate(Data(id, n))
           c == Cipher(k, id, n)
           e == ChaCha20(k, NonceOf(id), 1, c)
           s(i) == Stream(k, NonceOf(id), 1 + (i - 1) \div StreamBlock, (i - 1) % StreamBlock)
<1>1. /\ Sequence(d) /\ Len(d) = n + 1 /\ d[1] = Header(n)
      /\ \A j \in 1..n : d[j + 1] = {DataTerm(id, j)} /\ Data(id, n)[j] = {DataTerm(id, j)}
      /\ Sequence(Data(id, n)) /\ Len(Data(id, n)) = n
  BY DataIs
<1>2. Sequence(c) /\ Len(c) = Len(d) /\ \A i \in 1..Len(d) : c[i] = Xor(d[i], s(i))
  BY <1>1, CipherIs DEF Cipher
<1> HIDE DEF d, c
<1>3. Sequence(e) /\ Len(e) = Len(c) /\ \A i \in 1..Len(c) : e[i] = Xor(c[i], s(i))
  BY <1>2, CipherIs
<1> HIDE DEF e, s
<1>4. \A i \in 1..Len(d) : e[i] = d[i]
  BY <1>2, <1>3, XorTwice
<1>5. e = d
  BY <1>1, <1>2, <1>3, <1>4, SameSequence
<1>6. \A m : Header(n) = Header(m) => m = n
  <2>1. \A m : HeaderTerm(m)[2] = m
    BY Terms
  <2> SUFFICES ASSUME NEW m, Header(n) = Header(m) PROVE m = n
    OBVIOUS
  <2>2. {HeaderTerm(n)} = {HeaderTerm(m)}
    BY Bytes
  <2>3. HeaderTerm(n) = HeaderTerm(m)
    BY <2>2
  <2> QED
    BY <2>1, <2>3
<1>7. Head(d) = Header(n)
  BY <1>1, SequenceTail
<1>8. SubSeq(d, 2, n + 1) = Data(id, n)
  <2> DEFINE p == SubSeq(d, 2, n + 1)
  <2>1. n + 1 \in 0..Len(d) /\ 2 \in 1..2 /\ 2 <= (n + 1) + 1
    BY <1>1
  <2>2. /\ Sequence(p) /\ Len(p) = (n + 1) + 1 - 2
        /\ \A i \in 1..((n + 1) + 1 - 2) : p[i] = d[i + 2 - 1]
    BY <1>1, <2>1, SequencePart
  <2> HIDE DEF p
  <2>3. (n + 1) + 1 - 2 = n /\ \A i \in 1..n : i + 2 - 1 = i + 1
    OBVIOUS
  <2>4. Len(p) = n /\ \A i \in 1..n : p[i] = Data(id, n)[i]
    BY <1>1, <2>2, <2>3
  <2> QED
    BY <1>1, <2>2, <2>4, SameSequence DEF p
<1>9. n \in 0..(Len(d) - 1)
  BY <1>1
<1>10. {m \in 0..(Len(d) - 1) : Head(d) = Header(m)} = {n}
  BY <1>6, <1>7, <1>9
<1>11. Inflate(d) = {SubSeq(d, 2, m + 1) : m \in {n}}
  BY <1>10 DEF Inflate
<1> QED
  BY <1>5, <1>8, <1>11 DEF e, c

\* Both back ends do what the crate does.
LEMMA ProtectedIs ==
    ASSUME NEW s, NEW n, NEW f, Sequence(f)
    PROVE  LET c == ChaCha20(key[s], n, 1, f) IN
           Protected(s, n, f) = Append(c, CrateTag(key[s], n, c))
<1> DEFINE c == ChaCha20(key[s], n, 1, f)
<1>1. GpuChaCha20(key[s], n, f) = c
  BY GpuCipher
<1>2. Sequence(c)
  BY CipherIs
<1> HIDE DEF c
<1>3. PolyTag(key[s], n, c) = CrateTag(key[s], n, c)
  BY <1>2, GpuTag
<1>4. Protected(s, n, f) = Append(c, CrateTag(key[s], n, c))
  <2>1. CASE backend[s] = "gpu"
    BY <1>1, <1>3, <2>1, Zenon DEF Protected
  <2>2. CASE backend[s] # "gpu"
    BY <2>2, Zenon DEF Protected, c
  <2> QED
    BY <2>1, <2>2
<1> QED
  BY <1>4 DEF c

LEMMA VerifiesIs ==
    ASSUME NEW s, NEW f, Sequence(f)
    PROVE  Verifies(s, f) <=>
              Len(f) >= 2 /\ Last(f) = CrateTag(key[s], Nonce(f), Body(f))
<1>1. CASE Len(f) >= 2
  <2>1. Sequence(Body(f))
    BY <1>1, PartsOf
  <2>2. PolyTag(key[s], Nonce(f), Body(f)) = CrateTag(key[s], Nonce(f), Body(f))
    BY <2>1, GpuTag
  <2> QED
    BY <2>2, Zenon DEF Verifies
<1>2. CASE ~(Len(f) >= 2)
  BY <1>2, Zenon DEF Verifies
<1> QED
  BY <1>1, <1>2

LEMMA PlaintextIs ==
    ASSUME NEW s, NEW f, Sequence(f), Len(f) >= 2
    PROVE  Plaintext(s, f) = Inflate(ChaCha20(key[s], Nonce(f), 1, Body(f)))
<1>1. Sequence(Body(f))
  BY PartsOf
<1>2. GpuChaCha20(key[s], Nonce(f), Body(f)) = ChaCha20(key[s], Nonce(f), 1, Body(f))
  BY <1>1, GpuCipher
<1> QED
  BY <1>2, Zenon DEF Plaintext

-----------------------------------------------------------------------------
(***************************************************************************)
(* The inductive invariant.                                                *)
(***************************************************************************)
\* The i-th frame sealed is made with the i-th nonce.
SealedInv ==
    /\ Sequence(sealed)
    /\ \A i \in 1..Len(sealed) :
          \E n \in Lengths :
            sealed[i] = [key |-> sealed[i].key,
                         frame |-> SealedFrame(sealed[i].key, i, n),
                         payload |-> Data(i, n)]

IsTag(x) == \E t \in x : x = {t} /\ t[1] = "tag"

\* When the frames of q are sealed, no frame that travels has a nonce that is
\* still to be drawn, or ends with a tag that none of q ends with.
KnownNonce(q, f) ==
    \A id \in 1..MaxFrames : Len(f) >= 1 /\ f[1] = NonceOf(id) => id <= Len(q)

KnownTag(q, f) ==
    Len(f) >= 2 /\ IsTag(Last(f)) => \E j \in 1..Len(q) : Last(f) = Last(q[j].frame)

Travels(q, c) ==
    c # <<>> => c = <<c[1]>> /\ Sequence(c[1]) /\ KnownNonce(q, c[1]) /\ KnownTag(q, c[1])

TransitInv == \A s \in Side : Travels(sealed, transit[s])

\* The i-th sealed frame is f, sealed under the key of s.
Arrived(s, f, i) ==
    i \in 1..Len(sealed) /\ sealed[i].frame = f /\ sealed[i].key = key[s]

Runs(s) == s \in Side /\ process[s] = "runs"

\* What open has returned, given to a GPU and refused, by processes whose key
\* is known and with nonces that are drawn: no later step makes it wrong.
PastInv ==
    /\ \A o \in opened : Runs(o[1]) /\ \E i \in 1..Len(sealed) :
          Arrived(o[1], o[2], i) /\ sealed[i].payload = o[3]
    /\ \A l \in launched : Runs(l[1]) /\ \E i \in 1..Len(sealed) : Arrived(l[1], l[2], i)
    /\ \A r \in refused : /\ Runs(r[1]) /\ KnownNonce(sealed, r[2])
                          /\ \A i \in 1..Len(sealed) : ~ Arrived(r[1], r[2], i)

ProcessInv ==
    /\ process \in [Side -> {"new", "runs", "refuses", "panics"}]
    /\ key \in [Side -> {<<>>} \cup [1..KeyBytes -> 0..255]]
    /\ backend \in [Side -> {"cpu", "gpu"}]
    /\ DOMAIN transit = Side

PayloadInv == SealedInv /\ TransitInv /\ PastInv /\ ProcessInv

LEMMA FrameIs ==
    ASSUME SealedInv, NEW i \in 1..Len(sealed)
    PROVE  LET f == sealed[i].frame
               k == sealed[i].key IN
           \E n \in Lengths :
             /\ f = SealedFrame(k, i, n) /\ sealed[i].payload = Data(i, n)
             /\ Sequence(f) /\ Len(f) = n + 3 /\ f[1] = NonceOf(i)
             /\ Nonce(f) = NonceOf(i) /\ Body(f) = Cipher(k, i, n)
             /\ Last(f) = CrateTag(k, NonceOf(i), Body(f)) /\ Last(f) = f[Len(f)]
             /\ Sequence(Body(f)) /\ Len(Body(f)) = n + 1
             /\ \A j \in 1..(n + 1) : f[j + 1] = Body(f)[j]
<1> DEFINE f == sealed[i].frame
           k == sealed[i].key
<1>1. PICK n \in Lengths :
         sealed[i] = [key |-> k, frame |-> SealedFrame(k, i, n), payload |-> Data(i, n)]
  BY DEF SealedInv
<1>2. f = SealedFrame(k, i, n) /\ sealed[i].payload = Data(i, n)
  BY <1>1
<1>3. n \in Nat
  BY Sizes
<1> HIDE DEF k
<1>4. /\ Sequence(f) /\ Len(f) = n + 3 /\ f[1] = NonceOf(i)
      /\ Nonce(f) = NonceOf(i) /\ Body(f) = Cipher(k, i, n)
      /\ Last(f) = CrateTag(k, NonceOf(i), Cipher(k, i, n))
      /\ Sequence(Cipher(k, i, n)) /\ Len(Cipher(k, i, n)) = n + 1
  BY <1>2, <1>3, SealedIs
<1> HIDE DEF f
<1>5. Len(f) >= 2 /\ Len(f) - 2 = n + 1
  BY <1>3, <1>4
<1>6. /\ Last(f) = f[Len(f)]
      /\ \A j \in 1..(Len(f) - 2) : Body(f)[j] = f[j + 1]
  BY <1>4, <1>5, PartsOf
<1> QED
  BY <1>2, <1>4, <1>5, <1>6 DEF f, k

\* A byte with two terms is neither a tag nor a nonce.
LEMMA TwoTerms ==
    ASSUME NEW x, NEW a \in x, NEW b \in x, a # b
    PROVE  ~ IsTag(x) /\ \A id : x # NonceOf(id)
<1>1. \A t : x # {t}
  OBVIOUS
<1> QED
  BY <1>1, Zenon DEF IsTag, NonceOf

LEMMA Noisy ==
    ASSUME NEW t, t[1] # "noise"
    PROVE  LET x == Xor({t}, {<<"noise">>}) IN ~ IsTag(x) /\ \A id : x # NonceOf(id)
<1>1. t # NoiseTerm
  BY Terms
<1>2. Xor({t}, {NoiseTerm}) = {t, NoiseTerm}
  BY <1>1 DEF Xor
<1> HIDE DEF NoiseTerm
<1>3. ~ IsTag({t, NoiseTerm}) /\ \A id : {t, NoiseTerm} # NonceOf(id)
  <2>1. t \in {t, NoiseTerm} /\ NoiseTerm \in {t, NoiseTerm}
    OBVIOUS
  <2> QED
    BY <1>1, <2>1, TwoTerms
<1> QED
  BY <1>2, <1>3 DEF NoiseTerm

\* What may happen to a frame on its way leaves it with a nonce and a tag that
\* are known, or with none.
LEMMA KnownIs ==
    ASSUME NEW g, Sequence(g),
           Len(g) >= 1 => \/ \A id : g[1] # NonceOf(id)
                          \/ \E j \in 1..Len(sealed) : g[1] = NonceOf(j),
           Len(g) >= 2 => \/ ~ IsTag(g[Len(g)])
                          \/ \E j \in 1..Len(sealed) : g[Len(g)] = Last(sealed[j].frame)
    PROVE  Sequence(g) /\ KnownNonce(sealed, g) /\ KnownTag(sealed, g)
<1>1. \A id, j : NonceOf(id) = NonceOf(j) => id = j
  <2>1. \A id : NonceTerm(id)[2] = id
    BY Terms
  <2>2. \A id, j : NonceTerm(id) = NonceTerm(j) => id = j
    BY <2>1
  <2> HIDE DEF NonceTerm
  <2> QED
    BY <2>2 DEF NonceOf
<1>2. KnownNonce(sealed, g)
  <2> SUFFICES ASSUME NEW id \in 1..MaxFrames, Len(g) >= 1, g[1] = NonceOf(id)
               PROVE  id <= Len(sealed)
    BY DEF KnownNonce
  <2>1. PICK j \in 1..Len(sealed) : g[1] = NonceOf(j)
    OBVIOUS
  <2>2. id = j
    BY <1>1, <2>1
  <2> QED
    BY <2>1, <2>2
<1>3. KnownTag(sealed, g)
  <2>1. Last(g) = g[Len(g)]
    BY DEF Last
  <2> QED
    BY <2>1, Zenon DEF KnownTag
<1> QED
  BY <1>2, <1>3

LEMMA DamageKnown ==
    ASSUME SealedInv, NEW i \in 1..Len(sealed), NEW g \in Damage(sealed[i].frame)
    PROVE  Sequence(g) /\ KnownNonce(sealed, g) /\ KnownTag(sealed, g)
<1> DEFINE f == sealed[i].frame
           k == sealed[i].key
           x(j) == Xor(f[j], {<<"noise">>})
           A == {[f EXCEPT ![j] = x(j)] : j \in 1..Len(f)}
           B == {[f EXCEPT ![h] = sealed[j].frame[h]] : h \in 1..2, j \in 1..Len(sealed)}
           C == {[f EXCEPT ![Len(f)] = Last(sealed[j].frame)] : j \in 1..Len(sealed)}
           D == {SubSeq(f, 1, n) : n \in {0, 1, Len(f) - 1}}
           E == {Append(f, Zero), Append(f, Last(f))}
<1>1. PICK n \in Lengths :
         /\ Sequence(f) /\ Len(f) = n + 3 /\ f[1] = NonceOf(i)
         /\ Body(f) = Cipher(k, i, n)
         /\ Last(f) = CrateTag(k, NonceOf(i), Body(f)) /\ Last(f) = f[Len(f)]
         /\ \A j \in 1..(n + 1) : f[j + 1] = Body(f)[j]
  BY FrameIs
<1>2. n \in Nat
  BY Sizes
<1>3. \A j \in 1..Len(sealed) : sealed[j].frame[1] = NonceOf(j)
  BY FrameIs
<1>4. g \in A \cup B \cup C \cup D \cup E
  BY SMTT(30) DEF Damage
<1> HIDE DEF A, B, C, D, E, f, k, x
<1>5. 1 \in 1..Len(f) /\ Len(f) \in 1..Len(f) /\ Len(f) # 1 /\ Len(f) # 2 /\ 2 \in 1..Len(f)
  BY <1>1, <1>2
<1>6. CASE g \in A
  <2>1. PICK j \in 1..Len(f) : g = Changed(f, j, x(j))
    BY <1>6 DEF A, Changed
  <2>2. /\ Sequence(g) /\ Len(g) = Len(f) /\ g[j] = x(j)
        /\ \A h \in 1..Len(f) : h # j => g[h] = f[h]
    BY <1>1, <2>1, SequenceExcept
  <2>3. j = 1 => \A id : g[1] # NonceOf(id)
    <3>1. NonceTerm(i)[1] # "noise"
      BY Terms
    <3>2. f[1] = {NonceTerm(i)}
      BY <1>1 DEF NonceOf
    <3>3. \A id : x(1) # NonceOf(id)
      BY <3>1, <3>2, Noisy DEF x
    <3> QED
      BY <2>2, <3>3
  <2>4. j = Len(f) => ~ IsTag(g[Len(f)])
    <3> DEFINE t == TagTerm(PolyKey(k, NonceOf(i)), Authenticated(Body(f)))
    <3>1. t[1] # "noise"
      BY Terms
    <3>2. f[Len(f)] = {t}
      BY <1>1, CrateTagIs
    <3> HIDE DEF t
    <3>3. ~ IsTag(x(Len(f)))
      BY <3>1, <3>2, Noisy DEF x
    <3> QED
      BY <2>2, <3>3
  <2>5. j # 1 => g[1] = NonceOf(i)
    BY <1>1, <1>5, <2>2
  <2>6. j # Len(f) => g[Len(f)] = Last(sealed[i].frame)
    BY <1>1, <1>5, <2>2 DEF f
  <2> QED
    BY <2>2, <2>3, <2>4, <2>5, <2>6, KnownIs
<1>7. CASE g \in B
  <2>1. PICK h \in 1..2, j \in 1..Len(sealed) : g = Changed(f, h, sealed[j].frame[h])
    BY <1>7 DEF B, Changed
  <2>2. h \in 1..Len(f) /\ h # Len(f)
    BY <1>1, <1>2
  <2>3. /\ Sequence(g) /\ Len(g) = Len(f) /\ g[h] = sealed[j].frame[h]
        /\ \A l \in 1..Len(f) : l # h => g[l] = f[l]
    BY <1>1, <2>1, <2>2, SequenceExcept
  <2>4. g[1] = NonceOf(j) \/ g[1] = NonceOf(i)
    BY <1>1, <1>3, <1>5, <2>3
  <2>5. g[Len(f)] = Last(sealed[i].frame)
    BY <1>1, <1>5, <2>2, <2>3 DEF f
  <2> QED
    BY <2>3, <2>4, <2>5, KnownIs
<1>8. CASE g \in C
  <2>1. PICK j \in 1..Len(sealed) : g = Changed(f, Len(f), Last(sealed[j].frame))
    BY <1>8 DEF C, Changed
  <2> DEFINE y == Last(sealed[j].frame)
  <2>2. g = Changed(f, Len(f), y)
    BY <2>1
  <2> HIDE DEF y
  <2>3. /\ Sequence(g) /\ Len(g) = Len(f) /\ g[Len(f)] = y
        /\ \A l \in 1..Len(f) : l # Len(f) => g[l] = f[l]
    BY <1>1, <1>5, <2>2, SequenceExcept
  <2>4. g[1] = NonceOf(i)
    BY <1>1, <1>5, <2>3
  <2>5. g[Len(g)] = Last(sealed[j].frame)
    BY <2>3 DEF y
  <2> QED
    BY <2>3, <2>4, <2>5, KnownIs
<1>9. CASE g \in D
  <2>1. PICK m \in {0, 1, Len(f) - 1} : g = SubSeq(f, 1, m)
    BY <1>9 DEF D
  <2>2. m \in 0..Len(f) /\ 1 \in 1..2 /\ 1 <= m + 1
    BY <1>1, <1>2
  <2>3. /\ Sequence(g) /\ Len(g) = m + 1 - 1
        /\ \A l \in 1..(m + 1 - 1) : g[l] = f[l + 1 - 1]
    BY <1>1, <2>1, <2>2, SequencePart
  <2>4. Len(g) = m /\ \A l \in 1..m : g[l] = f[l]
    <3>1. m + 1 - 1 = m /\ \A l \in 1..m : l + 1 - 1 = l
      BY <2>2
    <3> QED
      BY <2>3, <3>1
  <2>5. Len(g) >= 1 => g[1] = NonceOf(i)
    <3>1. Len(g) >= 1 => 1 \in 1..m
      BY <2>2, <2>4
    <3> QED
      BY <1>1, <2>4, <3>1
  <2>6. Len(g) >= 2 => ~ IsTag(g[Len(g)])
    <3> SUFFICES ASSUME Len(g) >= 2 PROVE ~ IsTag(g[Len(g)])
      OBVIOUS
    <3>1. m = n + 2 /\ n + 2 \in 1..m /\ n + 1 \in 1..(n + 1) /\ (n + 1) + 1 = n + 2
      BY <1>1, <1>2, <2>2, <2>4
    <3>2. g[Len(g)] = Body(f)[n + 1]
      BY <1>1, <2>4, <3>1
    <3>3. PICK t : /\ t[1] \in {"deflate", "data"}
                   /\ Cipher(k, i, n)[n + 1] =
                        {t, StreamTerm(k, NonceOf(i), 1 + ((n + 1) - 1) \div StreamBlock,
                                       ((n + 1) - 1) % StreamBlock)}
      BY <1>2, <3>1, CipherCells
    <3> DEFINE u == StreamTerm(k, NonceOf(i), 1 + ((n + 1) - 1) \div StreamBlock,
                               ((n + 1) - 1) % StreamBlock)
    <3>4. u[1] = "stream"
      BY Terms
    <3>5. g[Len(g)] = {t, u}
      BY <1>1, <3>2, <3>3
    <3> HIDE DEF u
    <3>6. t # u
      BY <3>3, <3>4
    <3>7. t \in g[Len(g)] /\ u \in g[Len(g)]
      BY <3>5
    <3> QED
      BY <3>6, <3>7, TwoTerms
  <2> QED
    BY <2>3, <2>5, <2>6, KnownIs
<1>10. CASE g \in E
  <2>1. PICK y : g = Append(f, y) /\ y \in {Zero, Last(f)}
    BY <1>10 DEF E
  <2>2. /\ Sequence(g) /\ Len(g) = Len(f) + 1 /\ g[Len(f) + 1] = y
        /\ \A l \in 1..Len(f) : g[l] = f[l]
    BY <1>1, <2>1, SequenceAppend
  <2>3. g[1] = NonceOf(i)
    BY <1>1, <1>5, <2>2
  <2>4. ~ IsTag(g[Len(g)]) \/ g[Len(g)] = Last(sealed[i].frame)
    <3>1. ~ IsTag(Zero)
      BY DEF IsTag, Zero
    <3> QED
      BY <2>1, <2>2, <3>1 DEF f
  <2> QED
    BY <2>2, <2>3, <2>4, KnownIs
<1> QED
  BY <1>4, <1>6, <1>7, <1>8, <1>9, <1>10

-----------------------------------------------------------------------------
(***************************************************************************)
(* Keys are keys, whatever the text.                                       *)
(***************************************************************************)
LEMMA DecodeTypes ==
    ASSUME NEW t
    PROVE  /\ DecodeHexKey(t) \in {"runs", "refuses", "panics"}
           /\ DecodeHexKey(t) = "runs" => KeyOf(t) \in [1..KeyBytes -> 0..255]
<1> DEFINE b == TextBytes(t)
<1>1. DecodeHexKey(t) \in {"runs", "refuses", "panics"}
  BY Zenon DEF DecodeHexKey
<1>2. ASSUME DecodeHexKey(t) = "runs" PROVE KeyOf(t) \in [1..KeyBytes -> 0..255]
  <2>1. Bad(b) = {}
    <3> SUFFICES ASSUME Bad(b) # {} PROVE FALSE
      OBVIOUS
    <3> DEFINE first == CHOOSE i \in Bad(b) : \A j \in Bad(b) : i <= j
    <3>1. DecodeHexKey(t) = IF Len(b) # 2 * KeyBytes THEN "refuses"
                            ELSE IF Bad(b) = {} THEN "runs"
                            ELSE IF Cuts(b, first) THEN "panics" ELSE "refuses"
      BY Zenon DEF DecodeHexKey
    <3> HIDE DEF first, b
    <3> QED
      BY <1>2, <3>1
  <2>2. ASSUME NEW i \in 1..KeyBytes
        PROVE  (CHOOSE v \in Decoded(Pair(b, i)) : TRUE) \in 0..255
    <3> DEFINE d == Decoded(Pair(b, i))
    <3>1. d # {}
      BY <2>1 DEF Bad
    <3>2. d \subseteq 0..255
      <4> DEFINE p == Pair(b, i)
                 A == Values(p[1]) \cup (IF p[1] = "+" THEN {0} ELSE {})
                 B == Values(p[2])
      <4>1. A \subseteq 0..15 /\ B \subseteq 0..15
        BY DEF Values
      <4>2. d = {16 * v + w : v \in A, w \in B}
        BY DEF Decoded
      <4> HIDE DEF A, B, d
      <4> SUFFICES ASSUME NEW x \in d PROVE x \in 0..255
        OBVIOUS
      <4>3. PICK v \in A, w \in B : x = 16 * v + w
        BY <4>2
      <4>4. v \in 0..15 /\ w \in 0..15
        BY <4>1
      <4> QED
        BY <4>3, <4>4
    <3> HIDE DEF d
    <3>3. (CHOOSE v \in d : TRUE) \in d
      BY <3>1
    <3>4. (CHOOSE v \in d : TRUE) \in 0..255
      BY <3>2, <3>3
    <3> QED
      BY <3>4 DEF d
  <2> QED
    BY <2>2, Zenon DEF KeyOf
<1> QED
  BY <1>1, <1>2

LEMMA StartIs ==
    ASSUME ProcessInv, NEW s \in Side, Start(s)
    PROVE  /\ process[s] = "new" /\ ProcessInv'
           /\ \A r \in Side : r # s => process'[r] = process[r] /\ key'[r] = key[r]
           /\ UNCHANGED <<text, request, sealed, transit, opened, refused, launched>>
<1> DEFINE d == DecodeHexKey(text[s])
           p == IF d = "runs" /\ request[s] \notin {"cpu", "gpu"} THEN "refuses" ELSE d
<1>1. /\ process[s] = "new" /\ process' = [process EXCEPT ![s] = p]
      /\ IF process'[s] = "runs"
         THEN /\ key' = [key EXCEPT ![s] = KeyOf(text[s])]
              /\ backend' = [backend EXCEPT ![s] = IF s \in GpuWorks THEN request[s] ELSE "cpu"]
         ELSE UNCHANGED <<key, backend>>
      /\ UNCHANGED <<text, request, sealed, transit, opened, refused, launched>>
  BY Zenon DEF Start
<1>2. /\ d \in {"runs", "refuses", "panics"}
      /\ d = "runs" => KeyOf(text[s]) \in [1..KeyBytes -> 0..255]
  BY DecodeTypes
<1> HIDE DEF d
<1>3. /\ p \in {"runs", "refuses", "panics"}
      /\ p = "runs" => d = "runs" /\ request[s] \in {"cpu", "gpu"}
  BY <1>2
<1> HIDE DEF p
<1>4. process' \in [Side -> {"new", "runs", "refuses", "panics"}] /\ process'[s] = p
      /\ \A r \in Side : r # s => process'[r] = process[r]
  BY <1>1, <1>3 DEF ProcessInv
<1>5. /\ key' \in [Side -> {<<>>} \cup [1..KeyBytes -> 0..255]]
      /\ \A r \in Side : r # s => key'[r] = key[r]
  <2> DEFINE K == {<<>>} \cup [1..KeyBytes -> 0..255]
             k == KeyOf(text[s])
  <2>1. key \in [Side -> K]
    BY DEF ProcessInv
  <2>2. process'[s] = "runs" => k \in K
    BY <1>2, <1>3, <1>4
  <2> HIDE DEF K, k
  <2>3. CASE process'[s] = "runs"
    <3>1. key' = [key EXCEPT ![s] = k]
      BY <1>1, <2>3 DEF k
    <3> QED
      BY <2>1, <2>2, <2>3, <3>1 DEF K
  <2>4. CASE process'[s] # "runs"
    BY <1>1, <2>1, <2>4 DEF K
  <2> QED
    BY <2>3, <2>4
<1>6. backend' \in [Side -> {"cpu", "gpu"}]
  <2>1. CASE process'[s] = "runs"
    <3>1. backend' = [backend EXCEPT ![s] = IF s \in GpuWorks THEN request[s] ELSE "cpu"]
      BY <1>1, <2>1
    <3>2. request[s] \in {"cpu", "gpu"}
      BY <1>3, <1>4, <2>1
    <3> QED
      BY <3>1, <3>2 DEF ProcessInv
  <2>2. CASE process'[s] # "runs"
    BY <1>1, <2>2 DEF ProcessInv
  <2> QED
    BY <2>1, <2>2
<1>7. ProcessInv'
  BY <1>1, <1>4, <1>5, <1>6 DEF ProcessInv
<1> QED
  BY <1>1, <1>4, <1>5, <1>7

LEMMA SealIs ==
    ASSUME NEW s \in Side, Seal(s)
    PROVE  LET id == Len(sealed) + 1 IN
           /\ process[s] = "runs" /\ Len(sealed) < MaxFrames
           /\ \E n \in Lengths :
                /\ sealed' = Append(sealed, [key |-> key[s], frame |-> SealedFrame(key[s], id, n),
                                             payload |-> Data(id, n)])
                /\ transit' = [transit EXCEPT ![Peer(s)] = <<SealedFrame(key[s], id, n)>>]
           /\ UNCHANGED <<text, request, process, key, backend, opened, refused, launched>>
<1> DEFINE id == Len(sealed) + 1
           nonce == {<<"nonce", id>>}
           payload(n) == [i \in 1..n |-> {<<"data", id, i>>}]
           frame(n) == <<nonce>> \o Protected(s, nonce, Deflate(payload(n)))
<1>1. PICK n \in Lengths :
         /\ sealed' = Append(sealed, [key |-> key[s], frame |-> frame(n), payload |-> payload(n)])
         /\ transit' = [transit EXCEPT ![Peer(s)] = <<frame(n)>>]
  BY Zenon DEF Seal
<1>2. nonce = NonceOf(id) /\ payload(n) = Data(id, n)
  BY DEF NonceOf, NonceTerm, Data, DataTerm
<1>3. frame(n) = SealedFrame(key[s], id, n)
  <2>1. Sequence(Deflate(Data(id, n)))
    BY Sizes, DataIs
  <2>2. Protected(s, NonceOf(id), Deflate(Data(id, n)))
          = Append(Cipher(key[s], id, n), CrateTag(key[s], NonceOf(id), Cipher(key[s], id, n)))
    BY <2>1, ProtectedIs DEF Cipher
  <2> QED
    BY <1>2, <2>2, Zenon DEF SealedFrame
<1>4. /\ process[s] = "runs" /\ Len(sealed) < MaxFrames
      /\ UNCHANGED <<text, request, process, key, backend, opened, refused, launched>>
  BY Zenon DEF Seal
<1> HIDE DEF frame, payload, nonce
<1> QED
  BY <1>1, <1>2, <1>3, <1>4, Zenon

-----------------------------------------------------------------------------
(***************************************************************************)
(* Each operation keeps the invariant.                                     *)
(***************************************************************************)
\* What is sealed stays so, and new frames have new nonces.
SealedGrows ==
    /\ Len(sealed) \in Nat /\ Len(sealed)' \in Nat /\ Len(sealed) <= Len(sealed)'
    /\ \A i \in 1..Len(sealed) : sealed'[i] = sealed[i]
    /\ \A i \in 1..Len(sealed)' : i \notin 1..Len(sealed) =>
          /\ i \in 1..MaxFrames
          /\ Len(sealed'[i].frame) >= 1 /\ sealed'[i].frame[1] = NonceOf(i)

LEMMA SealGrows ==
    ASSUME SealedInv, NEW s \in Side, Seal(s)
    PROVE  SealedInv' /\ SealedGrows
<1> DEFINE id == Len(sealed) + 1
           e(n) == [key |-> key[s], frame |-> SealedFrame(key[s], id, n), payload |-> Data(id, n)]
<1>1. PICK n \in Lengths : Len(sealed) < MaxFrames /\ sealed' = Append(sealed, e(n))
  BY SealIs
<1>2. n \in Nat /\ Len(sealed) \in Nat /\ Sequence(sealed) /\ MaxFrames \in Nat
  BY Sizes, SequenceIs, PayloadAssumption DEF SealedInv
<1> DEFINE x == e(n)
<1>3. x.key = key[s] /\ x.frame = SealedFrame(key[s], id, n) /\ x.payload = Data(id, n)
      /\ x = [key |-> x.key, frame |-> SealedFrame(x.key, id, n), payload |-> Data(id, n)]
  OBVIOUS
<1>4. sealed' = Append(sealed, x)
  BY <1>1
<1> HIDE DEF e, x
<1>5. /\ Sequence(Append(sealed, x)) /\ Len(Append(sealed, x)) = Len(sealed) + 1
      /\ \A i \in 1..Len(sealed) : Append(sealed, x)[i] = sealed[i]
      /\ Append(sealed, x)[Len(sealed) + 1] = x
  BY <1>2, SequenceAppend
<1>6. /\ Sequence(sealed') /\ Len(sealed') = Len(sealed) + 1
      /\ \A i \in 1..Len(sealed) : sealed'[i] = sealed[i]
      /\ sealed'[Len(sealed) + 1] = x
  BY <1>4, <1>5
<1>7. ASSUME NEW i \in 1..Len(sealed')
      PROVE  \E m \in Lengths :
               sealed'[i] = [key |-> sealed'[i].key,
                             frame |-> SealedFrame(sealed'[i].key, i, m), payload |-> Data(i, m)]
  <2>1. CASE i \in 1..Len(sealed)
    <3>1. PICK m \in Lengths :
             sealed[i] = [key |-> sealed[i].key, frame |-> SealedFrame(sealed[i].key, i, m),
                          payload |-> Data(i, m)]
      BY <2>1, Zenon DEF SealedInv
    <3>2. sealed'[i] = sealed[i]
      BY <1>6, <2>1
    <3> QED
      BY <3>1, <3>2, Zenon
  <2>2. CASE i \notin 1..Len(sealed)
    <3>1. i = id
      BY <1>2, <1>6, <2>2
    <3>2. sealed'[i] = x
      BY <1>6, <3>1
    <3> QED
      BY <1>3, <3>1, <3>2, Zenon
  <2> QED
    BY <2>1, <2>2
<1>8. SealedInv'
  BY <1>6, <1>7, Zenon DEF SealedInv, Sequence
<1>9. ASSUME NEW i \in 1..Len(sealed'), i \notin 1..Len(sealed)
      PROVE  /\ i \in 1..MaxFrames
             /\ Len(sealed'[i].frame) >= 1 /\ sealed'[i].frame[1] = NonceOf(i)
  <2>1. i = id /\ id \in 1..MaxFrames
    BY <1>1, <1>2, <1>6, <1>9
  <2> DEFINE f == SealedFrame(key[s], id, n)
  <2>2. sealed'[i].frame = f
    BY <1>3, <1>6, <2>1
  <2>3. Len(f) = n + 3 /\ f[1] = NonceOf(id)
    BY <1>2, SealedIs
  <2> HIDE DEF f
  <2> QED
    BY <1>2, <2>1, <2>2, <2>3
<1>10. SealedGrows
  BY <1>2, <1>6, <1>9 DEF SealedGrows
<1> QED
  BY <1>8, <1>10

LEMMA SealedSame ==
    ASSUME SealedInv, UNCHANGED sealed
    PROVE  SealedInv' /\ SealedGrows
<1>1. Len(sealed) \in Nat
  BY SequenceIs DEF SealedInv
<1>2. SealedInv'
  BY Zenon DEF SealedInv, Sequence
<1>3. SealedGrows
  BY <1>1 DEF SealedGrows
<1> QED
  BY <1>2, <1>3

LEMMA KnownKept ==
    ASSUME SealedGrows, NEW f
    PROVE  /\ KnownNonce(sealed, f) => KnownNonce(sealed', f)
           /\ KnownTag(sealed, f) => KnownTag(sealed', f)
<1>1. KnownNonce(sealed, f) => KnownNonce(sealed', f)
  BY DEF KnownNonce, SealedGrows
<1>2. ASSUME KnownTag(sealed, f), Len(f) >= 2, IsTag(Last(f))
      PROVE  \E j \in 1..Len(sealed') : Last(f) = Last(sealed'[j].frame)
  <2>1. PICK j \in 1..Len(sealed) : Last(f) = Last(sealed[j].frame)
    BY <1>2, Zenon DEF KnownTag
  <2>2. j \in 1..Len(sealed') /\ sealed'[j] = sealed[j]
    BY <2>1 DEF SealedGrows
  <2> QED
    BY <2>1, <2>2, Zenon
<1> QED
  BY <1>1, <1>2, Zenon DEF KnownTag

\* A frame travels on, or another one that is known takes its place.
LEMMA TransitKept ==
    ASSUME TransitInv, SealedGrows, NEW s \in Side,
           \A r \in Side : r # s => transit'[r] = transit[r],
           \/ transit'[s] = transit[s]
           \/ transit'[s] = <<>>
           \/ \E f : /\ transit'[s] = <<f>> /\ Sequence(f)
                     /\ KnownNonce(sealed', f) /\ KnownTag(sealed', f)
    PROVE  TransitInv'
<1> SUFFICES ASSUME NEW r \in Side PROVE Travels(sealed', transit'[r])
  BY Zenon DEF TransitInv
<1>1. CASE transit'[r] = transit[r]
  <2>1. Travels(sealed, transit[r])
    BY DEF TransitInv
  <2>2. Travels(sealed', transit[r])
    BY <2>1, KnownKept, Zenon DEF Travels
  <2> QED
    BY <1>1, <2>2
<1>2. CASE transit'[r] = <<>>
  BY <1>2, Zenon DEF Travels
<1>3. ASSUME NEW f, transit'[r] = <<f>>, Sequence(f), KnownNonce(sealed', f), KnownTag(sealed', f)
      PROVE  Travels(sealed', transit'[r])
  <2>1. transit'[r][1] = f
    BY <1>3
  <2> QED
    BY <1>3, <2>1, Zenon DEF Travels
<1> QED
  BY <1>1, <1>2, <1>3

\* A frame that verifies is one of those sealed.
LEMMA VerifiedSealed ==
    ASSUME SealedInv, NEW s, NEW f, Sequence(f), KnownTag(sealed, f), Verifies(s, f)
    PROVE  \E i \in 1..Len(sealed) : Arrived(s, f, i)
<1>1. Len(f) >= 2 /\ Last(f) = CrateTag(key[s], Nonce(f), Body(f))
  BY VerifiesIs
<1>2. IsTag(Last(f))
  <2> DEFINE t == TagTerm(PolyKey(key[s], Nonce(f)), Authenticated(Body(f)))
  <2>1. Last(f) = {t} /\ t[1] = "tag"
    BY <1>1, CrateTagIs, Terms
  <2> HIDE DEF t
  <2> QED
    BY <2>1 DEF IsTag
<1>3. PICK i \in 1..Len(sealed) : Last(f) = Last(sealed[i].frame)
  BY <1>1, <1>2 DEF KnownTag
<1> DEFINE g == sealed[i].frame
           k == sealed[i].key
<1>4. PICK n \in Lengths :
         /\ Sequence(g) /\ Len(g) = n + 3 /\ Nonce(g) = NonceOf(i)
         /\ Last(g) = CrateTag(k, NonceOf(i), Body(g)) /\ Sequence(Body(g))
  BY FrameIs
<1>5. Len(g) >= 2
  BY <1>4, Sizes
<1>6. Sequence(Body(f))
  BY <1>1, PartsOf
<1>7. CrateTag(key[s], Nonce(f), Body(f)) = CrateTag(k, NonceOf(i), Body(g))
  BY <1>1, <1>3, <1>4
<1>8. key[s] = k /\ Nonce(f) = NonceOf(i) /\ Body(f) = Body(g)
  BY <1>4, <1>6, <1>7, TagsDiffer
<1>9. f = g
  <2> HIDE DEF g, k
  <2>1. Nonce(f) = Nonce(g) /\ Body(f) = Body(g) /\ Last(f) = Last(g)
    BY <1>3, <1>4, <1>8 DEF g
  <2> QED
    BY <1>1, <1>4, <1>5, <2>1, SameParts
<1> QED
  BY <1>8, <1>9 DEF Arrived

\* A frame that has arrived as it was sealed, under the same key, is opened.
LEMMA ArrivedOpens ==
    ASSUME SealedInv, NEW s, NEW f, NEW i, Arrived(s, f, i)
    PROVE  Verifies(s, f) /\ Plaintext(s, f) = {sealed[i].payload}
<1> DEFINE g == sealed[i].frame
           k == sealed[i].key
<1>1. i \in 1..Len(sealed) /\ g = f /\ k = key[s]
  BY DEF Arrived
<1>2. PICK n \in Lengths :
         /\ sealed[i].payload = Data(i, n)
         /\ Sequence(g) /\ Len(g) = n + 3 /\ Nonce(g) = NonceOf(i)
         /\ Body(g) = Cipher(k, i, n) /\ Last(g) = CrateTag(k, NonceOf(i), Body(g))
  BY <1>1, FrameIs
<1>3. n \in Nat /\ Len(g) >= 2
  BY <1>2, Sizes
<1> HIDE DEF g, k
<1>4. Verifies(s, f)
  BY <1>1, <1>2, <1>3, VerifiesIs
<1>5. Plaintext(s, f) = Inflate(ChaCha20(k, NonceOf(i), 1, Cipher(k, i, n)))
  BY <1>1, <1>2, <1>3, PlaintextIs
<1> QED
  BY <1>2, <1>3, <1>4, <1>5, Decrypts

LEMMA PastKept ==
    ASSUME PastInv, SealedGrows,
           \A r : Runs(r) => Runs(r)' /\ key'[r] = key[r],
           \A o \in opened' : o \in opened \/ (Runs(o[1]) /\ \E i \in 1..Len(sealed) :
              Arrived(o[1], o[2], i) /\ sealed[i].payload = o[3]),
           \A l \in launched' : l \in launched \/ (Runs(l[1]) /\ \E i \in 1..Len(sealed) :
              Arrived(l[1], l[2], i)),
           \A r \in refused' : r \in refused \/ (Runs(r[1]) /\ KnownNonce(sealed, r[2]) /\
              \A i \in 1..Len(sealed) : ~ Arrived(r[1], r[2], i))
    PROVE  PastInv'
<1>1. ASSUME NEW s, NEW f, NEW i \in 1..Len(sealed), Runs(s), Arrived(s, f, i)
      PROVE  i \in 1..Len(sealed') /\ Arrived(s, f, i)' /\ sealed'[i] = sealed[i]
  <2>1. i \in 1..Len(sealed') /\ sealed'[i] = sealed[i]
    BY DEF SealedGrows
  <2> QED
    BY <1>1, <2>1, Zenon DEF Arrived
<1>2. ASSUME NEW o \in opened'
      PROVE  Runs(o[1])' /\ \E i \in 1..Len(sealed') :
                Arrived(o[1], o[2], i)' /\ sealed'[i].payload = o[3]
  <2>1. /\ Runs(o[1])
        /\ \E i \in 1..Len(sealed) : Arrived(o[1], o[2], i) /\ sealed[i].payload = o[3]
    BY <1>2 DEF PastInv
  <2>2. PICK i \in 1..Len(sealed) : Arrived(o[1], o[2], i) /\ sealed[i].payload = o[3]
    BY <2>1
  <2>3. i \in 1..Len(sealed') /\ Arrived(o[1], o[2], i)' /\ sealed'[i] = sealed[i]
    BY <1>1, <2>1, <2>2, Zenon
  <2>4. Runs(o[1])'
    BY <2>1, Zenon
  <2> QED
    BY <2>2, <2>3, <2>4, Zenon
<1>3. ASSUME NEW l \in launched'
      PROVE  Runs(l[1])' /\ \E i \in 1..Len(sealed') : Arrived(l[1], l[2], i)'
  <2>1. Runs(l[1]) /\ \E i \in 1..Len(sealed) : Arrived(l[1], l[2], i)
    BY <1>3 DEF PastInv
  <2>2. PICK i \in 1..Len(sealed) : Arrived(l[1], l[2], i)
    BY <2>1
  <2>3. i \in 1..Len(sealed') /\ Arrived(l[1], l[2], i)'
    BY <1>1, <2>1, <2>2, Zenon
  <2>4. Runs(l[1])'
    BY <2>1, Zenon
  <2> QED
    BY <2>3, <2>4, Zenon
<1>4. ASSUME NEW r \in refused'
      PROVE  /\ Runs(r[1])' /\ KnownNonce(sealed', r[2])
             /\ \A i \in 1..Len(sealed') : ~ Arrived(r[1], r[2], i)'
  <2>1. /\ Runs(r[1]) /\ KnownNonce(sealed, r[2])
        /\ \A i \in 1..Len(sealed) : ~ Arrived(r[1], r[2], i)
    BY <1>4 DEF PastInv
  <2>2. Runs(r[1])' /\ key'[r[1]] = key[r[1]]
    BY <2>1, Zenon
  <2>3. KnownNonce(sealed', r[2])
    BY <2>1, KnownKept
  <2>4. ASSUME NEW i \in 1..Len(sealed'), Arrived(r[1], r[2], i)'
        PROVE  FALSE
    <3>1. sealed'[i].frame = r[2] /\ sealed'[i].key = key'[r[1]]
      BY <2>4, Zenon DEF Arrived
    <3>2. CASE i \in 1..Len(sealed)
      <4>1. sealed'[i] = sealed[i]
        BY <3>2 DEF SealedGrows
      <4> QED
        BY <2>1, <2>2, <3>1, <3>2, <4>1, Zenon DEF Arrived
    <3>3. CASE i \notin 1..Len(sealed)
      <4>1. /\ i \in 1..MaxFrames
            /\ Len(sealed'[i].frame) >= 1 /\ sealed'[i].frame[1] = NonceOf(i)
        BY <3>3 DEF SealedGrows
      <4>2. i <= Len(sealed)
        BY <2>1, <3>1, <4>1 DEF KnownNonce
      <4> QED
        BY <3>3, <4>2 DEF SealedGrows
    <3> QED
      BY <3>2, <3>3
  <2> QED
    BY <2>2, <2>3, <2>4, Zenon
<1> QED
  BY <1>2, <1>3, <1>4, Zenon DEF PastInv, KnownNonce, NonceOf

LEMMA PeerSide ==
    ASSUME NEW s \in Side
    PROVE  Peer(s) \in Side
  BY DEF Side, Peer

LEMMA ProcessKept ==
    ASSUME ProcessInv, UNCHANGED <<process, key, backend>>, DOMAIN transit' = Side
    PROVE  ProcessInv' /\ \A r : Runs(r) => Runs(r)' /\ key'[r] = key[r]
<1>1. ProcessInv'
  BY Zenon DEF ProcessInv
<1>2. ASSUME NEW r, Runs(r) PROVE Runs(r)' /\ key'[r] = key[r]
  BY <1>2 DEF Runs
<1> QED
  BY <1>1, <1>2

\* A frame is taken off its way, and what is done with it is as it should be.
LEMMA TakenKept ==
    ASSUME PayloadInv, NEW s \in Side, transit' = [transit EXCEPT ![s] = <<>>],
           UNCHANGED <<process, key, backend, sealed>>,
           \A o \in opened' : o \in opened \/ (Runs(o[1]) /\ \E i \in 1..Len(sealed) :
              Arrived(o[1], o[2], i) /\ sealed[i].payload = o[3]),
           \A l \in launched' : l \in launched \/ (Runs(l[1]) /\ \E i \in 1..Len(sealed) :
              Arrived(l[1], l[2], i)),
           \A r \in refused' : r \in refused \/ (Runs(r[1]) /\ KnownNonce(sealed, r[2]) /\
              \A i \in 1..Len(sealed) : ~ Arrived(r[1], r[2], i))
    PROVE  PayloadInv'
<1>1. SealedInv' /\ SealedGrows
  BY SealedSame DEF PayloadInv
<1>2. /\ DOMAIN transit' = Side /\ transit'[s] = <<>>
      /\ \A r \in Side : r # s => transit'[r] = transit[r]
  BY DEF PayloadInv, ProcessInv
<1>3. TransitInv'
  BY <1>1, <1>2, TransitKept DEF PayloadInv
<1>4. ProcessInv' /\ \A r : Runs(r) => Runs(r)' /\ key'[r] = key[r]
  BY <1>2, ProcessKept DEF PayloadInv
<1>5. PastInv'
  BY <1>1, <1>4, PastKept DEF PayloadInv
<1> QED
  BY <1>1, <1>3, <1>4, <1>5 DEF PayloadInv

\* The frame that travels to a side.
LEMMA TravelsIs ==
    ASSUME TransitInv, NEW s \in Side, transit[s] # <<>>
    PROVE  LET f == Head(transit[s]) IN
           Sequence(f) /\ KnownNonce(sealed, f) /\ KnownTag(sealed, f)
<1>1. /\ transit[s] = <<transit[s][1]>>
      /\ Sequence(transit[s][1]) /\ KnownNonce(sealed, transit[s][1])
      /\ KnownTag(sealed, transit[s][1])
  BY Zenon DEF TransitInv, Travels
<1>2. \A x : Head(<<x>>) = x
  OBVIOUS
<1>3. Head(transit[s]) = transit[s][1]
  BY <1>1, <1>2, Zenon
<1> QED
  BY <1>1, <1>3, Zenon

LEMMA StartKept ==
    ASSUME PayloadInv, NEW s \in Side, Start(s)
    PROVE  PayloadInv'
<1>1. /\ process[s] = "new" /\ ProcessInv'
      /\ \A r \in Side : r # s => process'[r] = process[r] /\ key'[r] = key[r]
      /\ UNCHANGED <<text, request, sealed, transit, opened, refused, launched>>
  BY StartIs DEF PayloadInv
<1>2. SealedInv' /\ SealedGrows
  BY <1>1, SealedSame DEF PayloadInv
<1>3. TransitInv'
  BY <1>1, <1>2, TransitKept DEF PayloadInv
<1>4. ASSUME NEW r, Runs(r) PROVE Runs(r)' /\ key'[r] = key[r]
  <2>1. r \in Side /\ r # s
    BY <1>1, <1>4 DEF Runs
  <2> QED
    BY <1>1, <1>4, <2>1 DEF Runs
<1>5. PastInv'
  BY <1>1, <1>2, <1>4, PastKept DEF PayloadInv
<1> QED
  BY <1>1, <1>2, <1>3, <1>5 DEF PayloadInv

LEMMA SealKept ==
    ASSUME PayloadInv, NEW s \in Side, Seal(s)
    PROVE  PayloadInv'
<1> DEFINE id == Len(sealed) + 1
<1>1. /\ Len(sealed) < MaxFrames
      /\ UNCHANGED <<text, request, process, key, backend, opened, refused, launched>>
  BY SealIs
<1>2. PICK n \in Lengths :
         /\ sealed' = Append(sealed, [key |-> key[s], frame |-> SealedFrame(key[s], id, n),
                                      payload |-> Data(id, n)])
         /\ transit' = [transit EXCEPT ![Peer(s)] = <<SealedFrame(key[s], id, n)>>]
  BY SealIs
<1> DEFINE f == SealedFrame(key[s], id, n)
<1>3. SealedInv' /\ SealedGrows
  BY SealGrows DEF PayloadInv
<1>4. id \in 1..Len(sealed') /\ sealed'[id].frame = f /\ Len(sealed') = id
  <2> DEFINE x == [key |-> key[s], frame |-> f, payload |-> Data(id, n)]
  <2>1. x.frame = f
    OBVIOUS
  <2>2. sealed' = Append(sealed, x)
    BY <1>2
  <2>3. Sequence(sealed) /\ Len(sealed) \in Nat
    BY SequenceIs DEF PayloadInv, SealedInv
  <2> HIDE DEF x, f
  <2>4. Len(Append(sealed, x)) = Len(sealed) + 1 /\ Append(sealed, x)[Len(sealed) + 1] = x
    BY <2>3, SequenceAppend
  <2> QED
    BY <2>1, <2>2, <2>3, <2>4
<1>5. Sequence(f) /\ KnownNonce(sealed', f) /\ KnownTag(sealed', f)
  <2>1. Sequence(f)
    BY Sizes, SealedIs
  <2>2. f[1] = NonceOf(id)
    BY Sizes, SealedIs
  <2> HIDE DEF f
  <2>3. KnownTag(sealed', f)
    BY <1>4, Zenon DEF KnownTag
  <2>4. \A i : NonceOf(id) = NonceOf(i) => i = id
    <3>1. \A i : NonceTerm(i)[2] = i
      BY Terms
    <3>2. \A i : NonceTerm(id) = NonceTerm(i) => i = id
      BY <3>1
    <3> HIDE DEF NonceTerm
    <3> QED
      BY <3>2 DEF NonceOf
  <2>5. Len(sealed') \in Nat
    BY <1>3 DEF SealedGrows
  <2>6. KnownNonce(sealed', f)
    <3> SUFFICES ASSUME NEW i \in 1..MaxFrames, f[1] = NonceOf(i) PROVE i <= Len(sealed')
      BY DEF KnownNonce
    <3>1. i = id
      BY <2>2, <2>4
    <3> QED
      BY <1>4, <2>5, <3>1
  <2> QED
    BY <2>1, <2>3, <2>6
<1>6. /\ DOMAIN transit' = Side /\ transit'[Peer(s)] = <<f>>
      /\ \A r \in Side : r # Peer(s) => transit'[r] = transit[r]
  BY <1>2, PeerSide DEF PayloadInv, ProcessInv
<1> HIDE DEF f
<1>7. TransitInv'
  BY <1>3, <1>5, <1>6, PeerSide, TransitKept DEF PayloadInv
<1>8. ProcessInv' /\ \A r : Runs(r) => Runs(r)' /\ key'[r] = key[r]
  BY <1>1, <1>6, ProcessKept DEF PayloadInv
<1>9. PastInv'
  BY <1>1, <1>3, <1>8, PastKept DEF PayloadInv
<1> QED
  BY <1>3, <1>7, <1>8, <1>9 DEF PayloadInv

LEMMA CorruptKept ==
    ASSUME PayloadInv, NEW s \in Side, Corrupt(s)
    PROVE  PayloadInv'
<1>1. /\ \E i \in 1..Len(sealed) : \E g \in Damage(sealed[i].frame) :
            transit' = [transit EXCEPT ![s] = <<g>>]
      /\ UNCHANGED <<text, request, process, key, backend, sealed, opened, refused, launched>>
  BY Zenon DEF Corrupt
<1> PICK i \in 1..Len(sealed) : \E g \in Damage(sealed[i].frame) :
            transit' = [transit EXCEPT ![s] = <<g>>]
  BY <1>1
<1>2. PICK g \in Damage(sealed[i].frame) : transit' = [transit EXCEPT ![s] = <<g>>]
  OBVIOUS
<1>3. Sequence(g) /\ KnownNonce(sealed, g) /\ KnownTag(sealed, g)
  BY DamageKnown DEF PayloadInv
<1>4. SealedInv' /\ SealedGrows
  BY <1>1, SealedSame DEF PayloadInv
<1>5. /\ DOMAIN transit' = Side /\ transit'[s] = <<g>>
      /\ \A r \in Side : r # s => transit'[r] = transit[r]
  BY <1>2 DEF PayloadInv, ProcessInv
<1>6. TransitInv'
  <2>1. KnownNonce(sealed', g) /\ KnownTag(sealed', g)
    BY <1>3, <1>4, KnownKept
  <2> QED
    BY <1>3, <1>4, <1>5, <2>1, TransitKept DEF PayloadInv
<1>7. ProcessInv' /\ \A r : Runs(r) => Runs(r)' /\ key'[r] = key[r]
  BY <1>1, <1>5, ProcessKept DEF PayloadInv
<1>8. PastInv'
  BY <1>1, <1>4, <1>7, PastKept DEF PayloadInv
<1> QED
  BY <1>4, <1>6, <1>7, <1>8 DEF PayloadInv

LEMMA OpenKept ==
    ASSUME PayloadInv, NEW s \in Side, Open(s)
    PROVE  PayloadInv'
<1> DEFINE f == Head(transit[s])
           result == IF Verifies(s, f) THEN Plaintext(s, f) ELSE {}
<1>1. /\ process[s] = "runs" /\ transit[s] # <<>>
      /\ opened' = opened \cup {<<s, f, p>> : p \in result}
      /\ refused' = IF result = {} THEN refused \cup {<<s, f>>} ELSE refused
      /\ launched' = IF backend[s] = "gpu" /\ Verifies(s, f)
                     THEN launched \cup {<<s, f>>} ELSE launched
      /\ transit' = [transit EXCEPT ![s] = <<>>]
      /\ UNCHANGED <<text, request, process, key, backend, sealed>>
  BY Zenon DEF Open
<1>2. Sequence(f) /\ KnownNonce(sealed, f) /\ KnownTag(sealed, f)
  BY <1>1, TravelsIs DEF PayloadInv
<1>3. Runs(s)
  BY <1>1 DEF Runs
<1> HIDE DEF f
<1>4. ASSUME Verifies(s, f)
      PROVE  \E i \in 1..Len(sealed) : Arrived(s, f, i) /\ result = {sealed[i].payload}
  <2>1. PICK i \in 1..Len(sealed) : Arrived(s, f, i)
    BY <1>2, <1>4, VerifiedSealed DEF PayloadInv
  <2>2. Plaintext(s, f) = {sealed[i].payload}
    BY <2>1, ArrivedOpens DEF PayloadInv
  <2> QED
    BY <1>4, <2>1, <2>2
<1>5. ASSUME NEW i, Arrived(s, f, i)
      PROVE  result # {}
  <2>1. Verifies(s, f) /\ Plaintext(s, f) = {sealed[i].payload}
    BY <1>5, ArrivedOpens DEF PayloadInv
  <2> QED
    BY <2>1
<1>6. ~ Verifies(s, f) => result = {}
  OBVIOUS
<1> HIDE DEF result
<1>7. ASSUME NEW o \in opened', o \notin opened
      PROVE  Runs(o[1]) /\ \E i \in 1..Len(sealed) :
                Arrived(o[1], o[2], i) /\ sealed[i].payload = o[3]
  <2>1. PICK p \in result : o = <<s, f, p>>
    BY <1>1, <1>7
  <2>2. o[1] = s /\ o[2] = f /\ o[3] = p
    BY <2>1
  <2>3. PICK i \in 1..Len(sealed) : Arrived(s, f, i) /\ result = {sealed[i].payload}
    BY <1>4, <1>6, <2>1
  <2>4. sealed[i].payload = p
    BY <2>1, <2>3
  <2> QED
    BY <1>3, <2>2, <2>3, <2>4, Zenon
<1>8. ASSUME NEW l \in launched', l \notin launched
      PROVE  Runs(l[1]) /\ \E i \in 1..Len(sealed) : Arrived(l[1], l[2], i)
  <2>1. l = <<s, f>> /\ Verifies(s, f)
    BY <1>1, <1>8
  <2>2. l[1] = s /\ l[2] = f
    BY <2>1
  <2> QED
    BY <1>3, <1>4, <2>1, <2>2, Zenon
<1>9. ASSUME NEW r \in refused', r \notin refused
      PROVE  /\ Runs(r[1]) /\ KnownNonce(sealed, r[2])
             /\ \A i \in 1..Len(sealed) : ~ Arrived(r[1], r[2], i)
  <2>1. r = <<s, f>> /\ result = {}
    BY <1>1, <1>9
  <2>2. r[1] = s /\ r[2] = f
    BY <2>1
  <2> QED
    BY <1>2, <1>3, <1>5, <2>1, <2>2, Zenon
<1> QED
  BY <1>1, <1>7, <1>8, <1>9, TakenKept

LEMMA GpuFailsKept ==
    ASSUME PayloadInv, NEW s \in Side, GpuFails(s)
    PROVE  PayloadInv'
<1> DEFINE f == Head(transit[s])
<1>1. /\ process[s] = "runs" /\ transit[s] # <<>> /\ Verifies(s, f)
      /\ launched' = launched \cup {<<s, f>>}
      /\ transit' = [transit EXCEPT ![s] = <<>>]
      /\ UNCHANGED <<text, request, process, key, backend, sealed, opened, refused>>
  BY Zenon DEF GpuFails
<1>2. Sequence(f) /\ KnownNonce(sealed, f) /\ KnownTag(sealed, f)
  BY <1>1, TravelsIs DEF PayloadInv
<1> HIDE DEF f
<1>3. Runs(s) /\ \E i \in 1..Len(sealed) : Arrived(s, f, i)
  BY <1>1, <1>2, VerifiedSealed DEF Runs, PayloadInv
<1>4. ASSUME NEW l \in launched', l \notin launched
      PROVE  Runs(l[1]) /\ \E i \in 1..Len(sealed) : Arrived(l[1], l[2], i)
  <2>1. l = <<s, f>>
    BY <1>1, <1>4
  <2>2. l[1] = s /\ l[2] = f
    BY <2>1
  <2> QED
    BY <1>3, <2>2, Zenon
<1> QED
  BY <1>1, <1>4, TakenKept

LEMMA PayloadInit ==
    ASSUME Init
    PROVE  PayloadInv
<1>1. SealedInv
  BY SequenceEmpty DEF Init, SealedInv
<1>2. TransitInv
  BY DEF Init, TransitInv, Travels
<1>3. PastInv
  BY DEF Init, PastInv
<1>4. ProcessInv
  BY DEF Init, ProcessInv
<1> QED
  BY <1>1, <1>2, <1>3, <1>4 DEF PayloadInv

LEMMA PayloadNext ==
    ASSUME PayloadInv, [Next]_vars
    PROVE  PayloadInv'
<1>1. CASE UNCHANGED vars
  <2>1. UNCHANGED <<process, key, backend, sealed, transit, opened, refused, launched>>
    BY <1>1 DEF vars
  <2>2. SealedInv' /\ SealedGrows
    BY <2>1, SealedSame DEF PayloadInv
  <2>3. TransitInv'
    BY <2>1, Zenon DEF PayloadInv, TransitInv
  <2>4. DOMAIN transit' = Side
    BY <2>1 DEF PayloadInv, ProcessInv
  <2>5. ProcessInv' /\ \A r : Runs(r) => Runs(r)' /\ key'[r] = key[r]
    BY <2>1, <2>4, ProcessKept DEF PayloadInv
  <2>6. PastInv'
    BY <2>1, <2>2, <2>5, PastKept DEF PayloadInv
  <2> QED
    BY <2>2, <2>3, <2>5, <2>6 DEF PayloadInv
<1>2. ASSUME NEW s \in Side, Start(s) \/ Seal(s) \/ Corrupt(s) \/ Open(s) \/ GpuFails(s)
      PROVE  PayloadInv'
  BY <1>2, StartKept, SealKept, CorruptKept, OpenKept, GpuFailsKept
<1> QED
  BY <1>1, <1>2 DEF Next

LEMMA PayloadInvariant == Spec => []PayloadInv
  BY PayloadInit, PayloadNext, PTL DEF Spec

-----------------------------------------------------------------------------
(***************************************************************************)
(* What follows from it.                                                   *)
(***************************************************************************)
\* open returns a payload, and gives data to a GPU, only for a frame sealed
\* under the key of the process that has arrived as it was sealed, and returns
\* what was sealed (seal and open of PayloadAccelerator).
THEOREM PayloadTamper == Spec => []TamperRejected
<1>1. ASSUME PayloadInv PROVE TamperRejected
  <2> DEFINE Sealed(s, f) == {i \in 1..Len(sealed) : sealed[i].frame = f /\ sealed[i].key = key[s]}
  <2>1. \A s, f : \A i \in 1..Len(sealed) : Arrived(s, f, i) => i \in Sealed(s, f)
    BY DEF Arrived
  <2> HIDE DEF Sealed
  <2>2. \A o \in opened : \E i \in Sealed(o[1], o[2]) : sealed[i].payload = o[3]
    BY <1>1, <2>1, Zenon DEF PayloadInv, PastInv
  <2>3. \A l \in launched : Sealed(l[1], l[2]) # {}
    BY <1>1, <2>1 DEF PayloadInv, PastInv
  <2> QED
    BY <2>2, <2>3, Zenon DEF TamperRejected, Sealed
<1> QED
  BY <1>1, PayloadInvariant, PTL

\* A frame that arrives as it was sealed, at a process with the same key, is
\* never refused, whichever back end sealed it and whichever opens it.
THEOREM PayloadInterop == Spec => []Interoperates
<1>1. ASSUME PayloadInv PROVE Interoperates
  BY <1>1, Zenon DEF PayloadInv, PastInv, Interoperates, Arrived
<1> QED
  BY <1>1, PayloadInvariant, PTL

\* The types, and the length of every frame: its payload's, a nonce, a tag and
\* what compression adds, whichever back end made it.
THEOREM PayloadTypes == Spec => []TypeOK
<1>1. ASSUME PayloadInv PROVE TypeOK
  <2>1. \A s \in Side : Len(transit[s]) <= 1
    <3> SUFFICES ASSUME NEW s \in Side PROVE Len(transit[s]) <= 1
      OBVIOUS
    <3>1. transit[s] = <<>> \/ transit[s] = <<transit[s][1]>>
      BY <1>1, Zenon DEF PayloadInv, TransitInv, Travels
    <3>2. \A x : Len(<<x>>) = 1
      BY SequenceOne
    <3>3. Len(transit[s]) \in {0, 1}
      <4>1. Len(transit[s]) = 0 \/ Len(transit[s]) = 1
        BY <3>1, <3>2, SequenceEmpty, Zenon
      <4> QED
        BY <4>1, Zenon
    <3>4. \A n \in {0, 1} : n <= 1
      OBVIOUS
    <3> QED
      BY <3>3, <3>4, Zenon
  <2>2. \A i \in 1..Len(sealed) : Len(sealed[i].frame) = Len(sealed[i].payload) + 3
    <3> SUFFICES ASSUME NEW i \in 1..Len(sealed)
                 PROVE  Len(sealed[i].frame) = Len(sealed[i].payload) + 3
      OBVIOUS
    <3>1. PICK n \in Lengths : sealed[i].payload = Data(i, n) /\ Len(sealed[i].frame) = n + 3
      BY <1>1, FrameIs DEF PayloadInv
    <3>2. Len(Data(i, n)) = n
      BY Sizes, DataIs
    <3> QED
      BY <3>1, <3>2
  <2> QED
    BY <1>1, <2>1, <2>2 DEF PayloadInv, ProcessInv, TypeOK
<1> QED
  BY <1>1, PayloadInvariant, PTL

-----------------------------------------------------------------------------
(***************************************************************************)
(* The key stream.                                                         *)
(***************************************************************************)
\* The byte of the key stream for the i-th byte of the id-th ciphertext.
StreamAt(k, id, i) ==
    StreamTerm(k, NonceOf(id), 1 + (i - 1) \div StreamBlock, (i - 1) % StreamBlock)

StreamsOf(f) == {t \in UNION ToSet(Body(f)) : t[1] = "stream"}

LEMMA StreamIs ==
    ASSUME NEW k, NEW id, NEW i \in Nat \ {0}
    PROVE  LET t == StreamAt(k, id, i) IN
           /\ t[1] = "stream" /\ t[3] = NonceOf(id) /\ t[4] # 0
           /\ i = (StreamBlock * (t[4] - 1)) + t[5] + 1
<1> DEFINE c == (i - 1) \div StreamBlock
           o == (i - 1) % StreamBlock
           t == StreamAt(k, id, i)
<1>1. c \in Int /\ o \in 0..(StreamBlock - 1) /\ i - 1 = (StreamBlock * c) + o
  <2>1. i - 1 \in Int /\ StreamBlock \in Nat \ {0}
    BY Sizes
  <2> DEFINE x == i - 1
  <2>2. x \in Int
    BY <2>1
  <2> HIDE DEF x
  <2>3. /\ x \div StreamBlock \in Int /\ x % StreamBlock \in 0..(StreamBlock - 1)
        /\ x = (StreamBlock * (x \div StreamBlock)) + (x % StreamBlock)
    BY <2>1, <2>2, DivMod
  <2> QED
    BY <2>3 DEF x
<1>2. c >= 0
  <2>1. c <= 0 - 1 => StreamBlock * c <= 0 - StreamBlock
    BY <1>1, Sizes
  <2> QED
    BY <1>1, <2>1, Sizes
<1>3. t = StreamTerm(k, NonceOf(id), 1 + c, o)
  BY DEF StreamAt
<1>4. \A a, b, d, e : LET u == StreamTerm(a, b, d, e) IN
         u[1] = "stream" /\ u[3] = b /\ u[4] = d /\ u[5] = e
  BY Terms
<1> HIDE DEF t, c, o
<1>5. t[1] = "stream" /\ t[3] = NonceOf(id) /\ t[4] = 1 + c /\ t[5] = o
  BY <1>3, <1>4
<1>6. (1 + c) - 1 = c /\ 1 + c # 0
  BY <1>1, <1>2
<1>7. i = (StreamBlock * c) + o + 1
  BY <1>1, Sizes
<1> QED
  BY <1>5, <1>6, <1>7 DEF t

\* A sealed frame uses one byte of the key stream for each of its ciphertext.
LEMMA StreamsAre ==
    ASSUME SealedInv, NEW i \in 1..Len(sealed)
    PROVE  LET f == sealed[i].frame
               k == sealed[i].key
               b == Len(Body(f)) IN
           b \in Nat /\ StreamsOf(f) = {StreamAt(k, i, j) : j \in 1..b}
<1> DEFINE f == sealed[i].frame
           k == sealed[i].key
           b == Len(Body(f))
<1>1. PICK n \in Lengths :
         Sequence(Body(f)) /\ Body(f) = Cipher(k, i, n) /\ Len(Body(f)) = n + 1
  BY FrameIs
<1>2. n \in Nat /\ b = n + 1
  BY <1>1, Sizes
<1> HIDE DEF f, k
<1>3. \A j \in 1..b : \E t : /\ t[1] \in {"deflate", "data"}
                             /\ Body(f)[j] = {t, StreamAt(k, i, j)}
  BY <1>1, <1>2, CipherCells DEF StreamAt
<1>4. DOMAIN Body(f) = 1..b
  BY <1>1, SequenceIs
<1>5. ASSUME NEW t \in StreamsOf(f) PROVE \E j \in 1..b : t = StreamAt(k, i, j)
  <2>1. PICK x \in ToSet(Body(f)) : t \in x /\ t[1] = "stream"
    BY DEF StreamsOf
  <2>2. PICK j \in 1..b : x = Body(f)[j]
    BY <1>4, <2>1 DEF ToSet
  <2>3. PICK u : u[1] \in {"deflate", "data"} /\ x = {u, StreamAt(k, i, j)}
    BY <1>3, <2>2
  <2>4. t # u
    BY <2>1, <2>3
  <2> QED
    BY <2>1, <2>3, <2>4
<1>6. ASSUME NEW j \in 1..b PROVE StreamAt(k, i, j) \in StreamsOf(f)
  <2> DEFINE t == StreamAt(k, i, j)
  <2>1. t[1] = "stream"
    BY StreamIs
  <2>2. t \in Body(f)[j]
    BY <1>3
  <2>3. Body(f)[j] \in ToSet(Body(f))
    BY <1>1, SequenceIs
  <2> HIDE DEF t
  <2>4. t \in StreamsOf(f)
    BY <2>1, <2>2, <2>3 DEF StreamsOf
  <2> QED
    BY <2>4 DEF t
<1>7. StreamsOf(f) = {StreamAt(k, i, j) : j \in 1..b}
  BY <1>5, <1>6
<1> QED
  BY <1>2, <1>7 DEF f, k

\* No byte of the key stream is used twice, and none of block 0.
THEOREM PayloadKeystream == Spec => []KeystreamOnce
<1>1. ASSUME SealedInv, NEW i \in 1..Len(sealed)
      PROVE  LET f == sealed[i].frame IN
             /\ Cardinality(StreamsOf(f)) = Len(Body(f))
             /\ \A t \in StreamsOf(f) : t[4] # 0
             /\ \A j \in 1..(i - 1) : StreamsOf(f) \cap StreamsOf(sealed[j].frame) = {}
  <2> DEFINE f == sealed[i].frame
             k == sealed[i].key
             b == Len(Body(f))
             S == StreamsOf(f)
             at == [j \in 1..b |-> StreamAt(k, i, j)]
  <2>1. b \in Nat /\ S = {StreamAt(k, i, j) : j \in 1..b}
    BY <1>1, StreamsAre
  <2>2. \A j \in 1..b : at[j] = StreamAt(k, i, j)
    OBVIOUS
  <2>3. \A j \in 1..b : /\ at[j][4] # 0 /\ at[j][3] = NonceOf(i)
                        /\ j = (StreamBlock * (at[j][4] - 1)) + at[j][5] + 1
    BY <2>2, StreamIs
  <2>4. at \in [1..b -> S] /\ S = {at[j] : j \in 1..b}
    BY <2>1
  <2> HIDE DEF at, S, b, k, f
  <2>5. at \in Bijection(1..b, S)
    <3>1. \A j, l \in 1..b : at[j] = at[l] => j = l
      BY <2>3
    <3>2. \A t \in S : \E j \in 1..b : at[j] = t
      BY <2>4
    <3> QED
      BY <2>4, <3>1, <3>2 DEF Bijection, Injection, Surjection, IsInjective
  <2>6. Cardinality(S) = b
    <3>1. IsFiniteSet(1..b) /\ Cardinality(1..b) = IF 1 > b THEN 0 ELSE b - 1 + 1
      BY <2>1, FS_Interval
    <3>2. Cardinality(S) = Cardinality(1..b)
      BY <2>5, <3>1, FS_Bijection DEF ExistsBijection
    <3> QED
      BY <2>1, <3>1, <3>2
  <2>7. \A t \in S : t[4] # 0 /\ t[3] = NonceOf(i)
    BY <2>3, <2>4
  <2>8. ASSUME NEW j \in 1..(i - 1), NEW t \in S, t \in StreamsOf(sealed[j].frame)
        PROVE  FALSE
    <3>1. Len(sealed) \in Nat
      BY <1>1, SequenceIs DEF SealedInv
    <3>2. j \in 1..Len(sealed) /\ j # i
      BY <3>1
    <3>3. PICK m : m \in Nat \ {0} /\ t = StreamAt(sealed[j].key, j, m)
      <4> DEFINE g == sealed[j].frame
                 c == Len(Body(g))
      <4>1. c \in Nat /\ StreamsOf(g) = {StreamAt(sealed[j].key, j, m) : m \in 1..c}
        BY <1>1, <3>2, StreamsAre
      <4> HIDE DEF g, c
      <4>2. PICK m \in 1..c : t = StreamAt(sealed[j].key, j, m)
        BY <2>8, <4>1 DEF g
      <4> QED
        BY <4>1, <4>2
    <3>4. NonceOf(i) = NonceOf(j)
      BY <2>7, <3>3, StreamIs
    <3>5. NonceTerm(i) = NonceTerm(j)
      BY <3>4 DEF NonceOf
    <3> QED
      BY <3>2, <3>5 DEF NonceTerm
  <2> QED
    BY <2>6, <2>7, <2>8 DEF S, b, f
<1>2. ASSUME SealedInv PROVE KeystreamOnce
  BY <1>1, <1>2, Zenon DEF KeystreamOnce, StreamsOf
<1> QED
  BY <1>2, PayloadInvariant, PTL DEF PayloadInv

-----------------------------------------------------------------------------
(***************************************************************************)
(* Keys that generate-key has printed.                                     *)
(***************************************************************************)
LEMMA Least ==
    ASSUME NEW T, T \subseteq Nat, T # {}
    PROVE  \E x \in T : \A y \in T : x <= y
<1> DEFINE R == {ss \in Nat \X Nat : ss[1] < ss[2]}
<1>1. R = OpToRel(<, Nat)
  BY Zenon DEF OpToRel
<1>2. IsWellFoundedOn(R, Nat)
  BY <1>1, NatLessThanWellFounded, Zenon
<1>3. \A x, y \in Nat : <<y, x>> \notin R => x <= y
  OBVIOUS
<1> HIDE DEF R
<1>4. \E x \in T : \A y \in T : ~ (<<y, x>> \in R)
  BY <1>2, WFMin
<1> QED
  BY <1>3, <1>4

\* The first i of the cells c.
First(c, i) == [j \in 1..i |-> c[j]]

LEMMA FirstIs ==
    ASSUME NEW c, NEW i \in Nat
    PROVE  /\ Sequence(First(c, i)) /\ Len(First(c, i)) = i
           /\ \A j \in 1..i : First(c, i)[j] = c[j]
<1> DEFINE f == First(c, i)
<1>1. f = [j \in 1..i |-> f[j]] /\ \A j \in 1..i : f[j] = c[j]
  BY DEF First
<1> HIDE DEF f
<1>2. Sequence(f) /\ Len(f) = i
  BY <1>1, FunctionIs
<1> QED
  BY <1>1, <1>2 DEF f

LEMMA FirstNext ==
    ASSUME NEW c, NEW i \in Nat
    PROVE  /\ First(c, 1) = <<c[1]>>
           /\ First(c, i) \o <<c[i + 1]>> = First(c, i + 1)
<1> DEFINE e == <<c[i + 1]>>
           f == First(c, i)
           g == First(c, i + 1)
           d == <<c[1]>>
           h == First(c, 1)
<1>1. Sequence(e) /\ Len(e) = 1 /\ e[1] = c[i + 1]
  BY SequenceOne
<1>2. Sequence(f) /\ Len(f) = i /\ \A j \in 1..i : f[j] = c[j]
  BY FirstIs
<1>3. Sequence(g) /\ Len(g) = i + 1 /\ \A j \in 1..(i + 1) : g[j] = c[j]
  BY FirstIs
<1>4. Sequence(d) /\ Len(d) = 1 /\ d[1] = c[1]
  BY SequenceOne
<1>5. Sequence(h) /\ Len(h) = 1 /\ \A j \in 1..1 : h[j] = c[j]
  BY FirstIs
<1> HIDE DEF d, e, f, g, h
<1> DEFINE a == f \o e
<1>a. a = f \o e
  OBVIOUS
<1> HIDE DEF a
<1>6. /\ Sequence(a) /\ Len(a) = Len(f) + Len(e)
      /\ \A j \in 1..Len(f) : a[j] = f[j]
      /\ \A j \in 1..Len(e) : a[Len(f) + j] = e[j]
  <2>1. Sequence(e) /\ Sequence(f)
    BY <1>1, <1>2
  <2> QED
    BY <1>a, <2>1, SequenceConcat
<1>7. Len(a) = i + 1
  BY <1>1, <1>2, <1>6
<1>8. ASSUME NEW j \in 1..(i + 1) PROVE a[j] = g[j]
  <2>1. ASSUME j \in 1..i PROVE a[j] = g[j]
    BY <1>2, <1>3, <1>6, <2>1
  <2>2. ASSUME j = i + 1 PROVE a[j] = g[j]
    <3>1. 1 \in 1..Len(e) /\ Len(f) + 1 = i + 1
      BY <1>1, <1>2
    <3>2. a[Len(f) + 1] = e[1]
      BY <1>6, <3>1
    <3>3. a[i + 1] = e[1]
      BY <3>1, <3>2
    <3> QED
      BY <1>1, <1>3, <2>2, <3>3
  <2>3. j \in 1..i \/ j = i + 1
    OBVIOUS
  <2> QED
    BY <2>1, <2>2, <2>3
<1>9. a = g
  BY <1>3, <1>6, <1>7, <1>8, SameSequence
<1>10. h = d
  <2>1. \A j \in 1..1 : h[j] = d[j]
    BY <1>4, <1>5
  <2> QED
    BY <1>4, <1>5, <2>1, SameSequence
<1> QED
  BY <1>a, <1>9, <1>10 DEF d, e, f, g, h

\* Putting sequences of one cell each together gives the cells.
LEMMA FlattenOnes ==
    ASSUME NEW n \in Nat \ {0}, NEW c, NEW q, q = [i \in 1..n |-> <<c[i]>>]
    PROVE  FlattenSeq(q) = First(c, n)
<1> DEFINE G(f) == [i \in 1..n |-> IF i = 1 THEN q[i] ELSE f[i-1] \o q[i]]
           w == [i \in 1..n |-> First(c, i)]
           f == CHOOSE g : g = G(g)
<1>1. Len(q) = n
  <2>1. q = [i \in 1..n |-> q[i]]
    OBVIOUS
  <2> QED
    BY <2>1, FunctionIs
<1>2. FlattenSeq(q) = f[n]
  <2>1. FlattenSeq(q) = (CHOOSE g : g = [i \in 1..Len(q) |->
                                IF i = 1 THEN q[i] ELSE g[i-1] \o q[i]])[Len(q)]
    BY <1>1, Zenon DEF FlattenSeq
  <2> QED
    BY <1>1, <2>1, Zenon
<1>3. \A i \in 1..n : q[i] = <<c[i]>>
  OBVIOUS
<1>4. ASSUME NEW i \in 1..n
      PROVE  First(c, i) = IF i = 1 THEN q[i] ELSE First(c, i - 1) \o q[i]
  <2>1. CASE i = 1
    BY <1>3, <2>1, FirstNext
  <2>2. CASE i # 1
    <3>1. i - 1 \in Nat /\ (i - 1) + 1 = i
      BY <2>2
    <3>2. First(c, i - 1) \o <<c[(i - 1) + 1]>> = First(c, (i - 1) + 1)
      BY <3>1, FirstNext
    <3>3. First(c, i - 1) \o q[i] = First(c, i)
      BY <1>3, <3>1, <3>2
    <3> QED
      BY <2>2, <3>3
  <2> QED
    BY <2>1, <2>2
<1> HIDE DEF f
<1>5. w = G(w)
  <2>1. \A i \in 1..n : w[i] = First(c, i)
    OBVIOUS
  <2>2. \A i \in 1..n : i # 1 => i - 1 \in 1..n
    OBVIOUS
  <2>3. \A i \in 1..n : First(c, i) = IF i = 1 THEN q[i] ELSE w[i - 1] \o q[i]
    BY <1>4, <2>1, <2>2
  <2>4. w = [i \in 1..n |-> w[i]]
    OBVIOUS
  <2>5. \A i \in 1..n : w[i] = IF i = 1 THEN q[i] ELSE w[i - 1] \o q[i]
    BY <2>1, <2>3
  <2> HIDE DEF w
  <2>6. [i \in 1..n |-> w[i]] = G(w)
    BY <2>5
  <2> QED
    BY <2>4, <2>6
<1>6. f = G(f)
  BY <1>5, Zenon DEF f
<1>7. \A i \in 1..n : f[i] = IF i = 1 THEN q[i] ELSE f[i-1] \o q[i]
  BY <1>6
<1>8. \A i \in 1..n : f[i] = First(c, i)
  <2> DEFINE T == {i \in 1..n : f[i] # First(c, i)}
  <2> SUFFICES ASSUME T # {} PROVE FALSE
    OBVIOUS
  <2>1. T \subseteq Nat
    OBVIOUS
  <2> HIDE DEF T
  <2>2. PICK i \in T : \A j \in T : i <= j
    BY <2>1, Least
  <2>3. i \in 1..n /\ f[i] # First(c, i)
    BY <2>2 DEF T
  <2>4. i # 1
    BY <1>4, <1>7, <2>3
  <2>5. i - 1 \in 1..n /\ i - 1 \notin T
    BY <2>2, <2>3, <2>4
  <2>6. f[i - 1] = First(c, i - 1)
    BY <2>5 DEF T
  <2>7. f[i] = f[i - 1] \o q[i]
    BY <1>7, <2>3, <2>4
  <2>8. First(c, i) = First(c, i - 1) \o q[i]
    BY <1>4, <2>3, <2>4
  <2> QED
    BY <2>3, <2>6, <2>7, <2>8
<1> QED
  BY <1>2, <1>8

LEMMA Digits ==
    ASSUME NEW D \in {Lower, Upper}, NEW x \in 0..15
    PROVE  /\ Values(D[1 + x]) = {x} /\ Width(D[1 + x]) = 1 /\ D[1 + x] # "+"
<1>1. \A y \in 0..15 : Lower[1 + x] = Lower[1 + y] => x = y
  BY DEF Lower
<1>2. \A y \in 0..15 : Upper[1 + x] = Upper[1 + y] => x = y
  BY DEF Upper, Lower
<1>3. \A y \in 0..15 : Upper[1 + x] = Lower[1 + y] => x = y
  BY DEF Upper, Lower
<1>4. \A y \in 0..15 : Lower[1 + x] = Upper[1 + y] => x = y
  BY DEF Upper, Lower
<1>5. /\ Lower[1 + x] # "+" /\ Lower[1 + x] # "two bytes" /\ Lower[1 + x] # "three bytes"
      /\ Upper[1 + x] # "+" /\ Upper[1 + x] # "two bytes" /\ Upper[1 + x] # "three bytes"
  <2>1. Lower[1 + x] # "+" /\ Lower[1 + x] # "two bytes" /\ Lower[1 + x] # "three bytes"
    <3>1. Lower[1 + x] \in {"0", "1", "2", "3", "4", "5", "6", "7",
                            "8", "9", "a", "b", "c", "d", "e", "f"}
      BY DEF Lower
    <3> HIDE DEF Lower
    <3> QED
      BY <3>1
  <2>2. CASE x \in 0..9
    <3>1. Upper[1 + x] = Lower[1 + x]
      BY <2>2 DEF Upper
    <3> QED
      BY <2>1, <3>1
  <2>3. CASE x \in 10..15
    <3>1. Upper[1 + x] \in {"A", "B", "C", "D", "E", "F"}
      BY <2>3 DEF Upper
    <3> HIDE DEF Upper
    <3> QED
      BY <2>1, <3>1
  <2>4. x \in 0..9 \/ x \in 10..15
    OBVIOUS
  <2> QED
    BY <2>2, <2>3, <2>4, Zenon
<1> HIDE DEF Lower, Upper
<1>6. Width(D[1 + x]) = 1
  BY <1>5, Zenon DEF Width
<1>7. \A y \in 0..15 : D[1 + x] \in {Lower[y + 1], Upper[y + 1]} <=> y = x
  <2> SUFFICES ASSUME NEW y \in 0..15
               PROVE  D[1 + x] \in {Lower[y + 1], Upper[y + 1]} <=> y = x
    OBVIOUS
  <2>1. y + 1 = 1 + y
    OBVIOUS
  <2> QED
    BY <1>1, <1>2, <1>3, <1>4, <2>1
<1>8. Values(D[1 + x]) = {x}
  BY <1>7 DEF Values
<1> QED
  BY <1>5, <1>6, <1>8

LEMMA TextIs ==
    ASSUME NEW k, NEW D
    PROVE  LET t == Text(k, D) IN
           /\ Sequence(t) /\ Len(t) = 2 * KeyBytes
           /\ \A i \in 1..KeyBytes : /\ t[2 * i - 1] = D[1 + k[i] \div 16]
                                     /\ t[2 * i] = D[1 + (k[i] % 16)]
<1> DEFINE t == Text(k, D)
           n == 2 * KeyBytes
           e(i) == D[1 + IF i % 2 = 1 THEN k[(i + 1) \div 2] \div 16 ELSE k[i \div 2] % 16]
<1>1. t = [i \in 1..n |-> e(i)]
  BY Zenon DEF Text
<1>2. n \in Nat
  BY Sizes
<1>3. \A i \in 1..KeyBytes :
        /\ 2 * i - 1 \in 1..n /\ (2 * i - 1) % 2 = 1 /\ ((2 * i - 1) + 1) \div 2 = i
        /\ 2 * i \in 1..n /\ (2 * i) % 2 # 1 /\ (2 * i) \div 2 = i
  BY Sizes
<1>4. ASSUME NEW i \in 1..KeyBytes
      PROVE  e(2 * i - 1) = D[1 + k[i] \div 16] /\ e(2 * i) = D[1 + (k[i] % 16)]
  BY <1>3, Zenon
<1> HIDE DEF t, e, n
<1>5. t = [i \in 1..n |-> t[i]] /\ \A i \in 1..n : t[i] = e(i)
  BY <1>1
<1>6. Sequence(t) /\ Len(t) = n
  BY <1>2, <1>5, FunctionIs
<1>7. ASSUME NEW i \in 1..KeyBytes
      PROVE  t[2 * i - 1] = D[1 + k[i] \div 16] /\ t[2 * i] = D[1 + (k[i] % 16)]
  BY <1>3, <1>4, <1>5, Zenon
<1> QED
  BY <1>6, <1>7 DEF t, n

LEMMA HalfBytes ==
    ASSUME NEW b \in 0..255
    PROVE  b \div 16 \in 0..15 /\ b % 16 \in 0..15 /\ (16 * (b \div 16)) + (b % 16) = b
  OBVIOUS

\* decode_hex_key makes of the text of a key that key.
LEMMA KeyTextIs ==
    ASSUME NEW k \in Keys, NEW D \in {Lower, Upper}
    PROVE  DecodeHexKey(Text(k, D)) = "runs" /\ KeyOf(Text(k, D)) = k
<1> DEFINE t == Text(k, D)
           n == 2 * KeyBytes
           b == TextBytes(t)
<1>1. k \in [1..KeyBytes -> 0..255] /\ KeyBytes \in Nat \ {0} /\ n \in Nat \ {0}
  BY Sizes, PayloadAssumption
<1>2. /\ Sequence(t) /\ Len(t) = n
      /\ \A i \in 1..KeyBytes : /\ t[2 * i - 1] = D[1 + k[i] \div 16]
                                /\ t[2 * i] = D[1 + (k[i] % 16)]
  BY TextIs
<1> HIDE DEF t
<1>3. \A i \in 1..KeyBytes : k[i] \div 16 \in 0..15 /\ k[i] % 16 \in 0..15
                             /\ (16 * (k[i] \div 16)) + (k[i] % 16) = k[i]
  <2> SUFFICES ASSUME NEW i \in 1..KeyBytes
               PROVE  k[i] \div 16 \in 0..15 /\ k[i] % 16 \in 0..15
                      /\ (16 * (k[i] \div 16)) + (k[i] % 16) = k[i]
    OBVIOUS
  <2>1. k[i] \in 0..255
    BY <1>1
  <2> QED
    BY <2>1, HalfBytes
<1>4. ASSUME NEW i \in 1..n PROVE Width(t[i]) = 1
  <2>1. PICK j \in 1..KeyBytes : i = 2 * j - 1 \/ i = 2 * j
    <3>1. i = 2 * ((i + 1) \div 2) - 1 \/ i = 2 * ((i + 1) \div 2)
      OBVIOUS
    <3>2. (i + 1) \div 2 \in 1..KeyBytes
      BY <1>1
    <3> QED
      BY <3>1, <3>2
  <2>2. Width(D[1 + k[j] \div 16]) = 1 /\ Width(D[1 + (k[j] % 16)]) = 1
    BY <1>3, Digits
  <2>3. CASE i = 2 * j - 1
    BY <1>2, <2>2, <2>3, Zenon
  <2>4. CASE i = 2 * j
    BY <1>2, <2>2, <2>4, Zenon
  <2> QED
    BY <2>1, <2>3, <2>4
<1> DEFINE c == [i \in 1..n |-> <<t[i], 1>>]
           q == [i \in 1..n |-> [j \in 1..Width(t[i]) |-> <<t[i], j>>]]
<1>5. b = FlattenSeq(q)
  BY <1>2, Zenon DEF TextBytes
<1>6. \A i \in 1..n : c[i] = <<t[i], 1>>
  OBVIOUS
<1>7. q = [i \in 1..n |-> <<c[i]>>]
  <2>1. ASSUME NEW i \in 1..n PROVE [j \in 1..Width(t[i]) |-> <<t[i], j>>] = <<c[i]>>
    <3> DEFINE x == [j \in 1..1 |-> <<t[i], j>>]
               y == <<c[i]>>
    <3>1. x = [j \in 1..1 |-> x[j]] /\ x[1] = <<t[i], 1>>
      OBVIOUS
    <3>2. Sequence(y) /\ Len(y) = 1 /\ y[1] = c[i]
      BY SequenceOne
    <3>3. x = [j \in 1..Width(t[i]) |-> <<t[i], j>>]
      BY <1>4, Zenon
    <3>4. c[i] = <<t[i], 1>>
      BY <1>6
    <3> HIDE DEF x, y, c
    <3>5. Sequence(x) /\ Len(x) = 1
      BY <3>1, FunctionIs
    <3>6. \A j \in 1..1 : x[j] = y[j]
      BY <3>1, <3>2, <3>4
    <3>7. x = y
      BY <3>2, <3>5, <3>6, SameSequence
    <3> QED
      BY <3>3, <3>7 DEF y
  <2> HIDE DEF c
  <2> QED
    BY <2>1, Zenon
<1> HIDE DEF c, q, b
<1>8. b = First(c, n)
  BY <1>1, <1>5, <1>7, FlattenOnes
<1>9. Len(b) = n /\ \A i \in 1..n : b[i] = <<t[i], 1>>
  <2>1. Len(b) = n /\ \A i \in 1..n : b[i] = c[i]
    BY <1>1, <1>8, FirstIs
  <2> QED
    BY <1>6, <2>1
<1>10. ASSUME NEW i \in 1..KeyBytes
       PROVE  ~ Cuts(b, i) /\ Decoded(Pair(b, i)) = {k[i]}
  <2>1. 2 * i - 1 \in 1..n /\ 2 * i \in 1..n /\ (2 * i < n => 2 * i + 1 \in 1..n)
    BY <1>1
  <2>2. \A x, y : <<x, y>>[1] = x /\ <<x, y>>[2] = y
    OBVIOUS
  <2>3. \A j \in 1..n : b[j][1] = t[j] /\ b[j][2] = 1
    BY <1>9, <2>2
  <2>4. ~ Cuts(b, i)
    BY <1>9, <2>1, <2>3 DEF Cuts
  <2> DEFINE x == k[i] \div 16
             y == k[i] % 16
             p == Pair(b, i)
  <2>5. p[1] = D[1 + x] /\ p[2] = D[1 + y]
    <3>1. p = <<b[2 * i - 1][1], b[2 * i][1]>>
      BY DEF Pair
    <3>2. p[1] = b[2 * i - 1][1] /\ p[2] = b[2 * i][1]
      BY <3>1
    <3> QED
      BY <1>2, <2>1, <2>3, <3>2, Zenon
  <2>6. x \in 0..15 /\ y \in 0..15 /\ 16 * x + y = k[i]
    BY <1>3
  <2> HIDE DEF x, y, p
  <2>7. Values(D[1 + x]) = {x} /\ D[1 + x] # "+" /\ Values(D[1 + y]) = {y}
    BY <2>6, Digits
  <2>8. Decoded(p) = {16 * v + w : v \in Values(p[1]) \cup (IF p[1] = "+" THEN {0} ELSE {}),
                                   w \in Values(p[2])}
    BY DEF Decoded
  <2>9. Decoded(p) = {16 * v + w : v \in {x} \cup {}, w \in {y}}
    BY <2>5, <2>7, <2>8
  <2>10. Decoded(p) = {k[i]}
    BY <2>6, <2>9
  <2> QED
    BY <2>4, <2>10 DEF p
<1>11. Bad(b) = {}
  BY <1>10 DEF Bad
<1>12. DecodeHexKey(t) = "runs"
  BY <1>9, <1>11, Zenon DEF DecodeHexKey, b
<1>13. KeyOf(t) = k
  <2>1. ASSUME NEW i \in 1..KeyBytes
        PROVE  (CHOOSE v \in Decoded(Pair(TextBytes(t), i)) : TRUE) = k[i]
    <3>1. Decoded(Pair(TextBytes(t), i)) = {k[i]}
      BY <1>10 DEF b
    <3>2. \A x : (CHOOSE v \in {x} : TRUE) = x
      OBVIOUS
    <3> QED
      BY <3>1, <3>2
  <2>2. KeyOf(t) = [i \in 1..KeyBytes |-> k[i]]
    BY <2>1, Zenon DEF KeyOf
  <2>3. k = [i \in 1..KeyBytes |-> k[i]]
    BY <1>1
  <2> QED
    BY <2>2, <2>3
<1> QED
  BY <1>12, <1>13 DEF t

\* Two processes that are given what generate-key printed, in any letter case,
\* run with that key: encode_hex and decode_hex_key are inverse.
THEOREM PayloadKeys == Spec => []GeneratedKeyWorks
<1>1. ASSUME Init PROVE GeneratedKeyWorks
  BY <1>1 DEF Init, GeneratedKeyWorks
<1>2. ASSUME PayloadInv, GeneratedKeyWorks, [Next]_vars
      PROVE  GeneratedKeyWorks'
  <2>1. ASSUME UNCHANGED <<text, request, process, key>>
        PROVE  GeneratedKeyWorks'
    BY <1>2, <2>1, Zenon DEF GeneratedKeyWorks
  <2>2. ASSUME NEW s \in Side, Start(s)
        PROVE  GeneratedKeyWorks'
    <3> SUFFICES ASSUME NEW r \in Side, NEW k \in Keys, text'[r] \in KeyTexts(k)
                 PROVE  /\ process'[r] # "panics"
                        /\ process'[r] = "refuses" => request'[r] \notin {"cpu", "gpu"}
                        /\ process'[r] = "runs" => key'[r] = k
      BY Zenon DEF GeneratedKeyWorks
    <3>1. /\ UNCHANGED <<text, request>>
          /\ \A h \in Side : h # s => process'[h] = process[h] /\ key'[h] = key[h]
      BY <1>2, <2>2, StartIs DEF PayloadInv
    <3>2. text[r] \in KeyTexts(k)
      BY <3>1
    <3>3. CASE r # s
      BY <1>2, <3>1, <3>2, <3>3 DEF GeneratedKeyWorks
    <3>4. CASE r = s
      <4> DEFINE d == DecodeHexKey(text[s])
                 kt == KeyOf(text[s])
      <4>1. d = "runs" /\ kt = k
        <5>1. PICK D \in {Lower, Upper} : text[r] = Text(k, D)
          BY <3>2 DEF KeyTexts, EncodeHex
        <5> QED
          BY <3>4, <5>1, KeyTextIs
      <4>2. /\ process' = [process EXCEPT ![s] =
                  IF d = "runs" /\ request[s] \notin {"cpu", "gpu"} THEN "refuses" ELSE d]
            /\ process'[s] = "runs" => key' = [key EXCEPT ![s] = kt]
        BY <2>2, Zenon DEF Start
      <4> HIDE DEF d, kt
      <4>3. DOMAIN process = Side /\ DOMAIN key = Side
        BY <1>2 DEF PayloadInv, ProcessInv
      <4>4. process'[s] = IF request[s] \notin {"cpu", "gpu"} THEN "refuses" ELSE "runs"
        BY <4>1, <4>2, <4>3
      <4>5. process'[s] = "runs" => key'[s] = k
        BY <4>1, <4>2, <4>3
      <4> QED
        BY <3>1, <3>4, <4>4, <4>5
    <3> QED
      BY <3>3, <3>4
  <2>3. ASSUME NEW s \in Side, Seal(s) PROVE UNCHANGED <<text, request, process, key>>
    BY <2>3, SealIs
  <2>4. ASSUME NEW s \in Side, Corrupt(s) \/ Open(s) \/ GpuFails(s)
        PROVE  UNCHANGED <<text, request, process, key>>
    BY <2>4, Zenon DEF Corrupt, Open, GpuFails
  <2>5. UNCHANGED vars => UNCHANGED <<text, request, process, key>>
    BY DEF vars
  <2> QED
    BY <1>2, <2>1, <2>2, <2>3, <2>4, <2>5, Zenon DEF Next
<1> QED
  BY <1>1, <1>2, PayloadInvariant, PTL DEF Spec
=============================================================================
