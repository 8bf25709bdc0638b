------------------------------ MODULE Payload -------------------------------
(***************************************************************************)
(* The key and the payload protection: generate-key, decode_hex_key and    *)
(* the start of a command (src/src/main.rs), and PayloadAccelerator        *)
(* (src/src/accel.rs).  Two processes are started with a key text each;    *)
(* what one seals travels to the other, perhaps damaged, and is opened.    *)
(*                                                                         *)
(* A byte is a set of terms, the exclusive or of which it is: {} is zero.  *)
(* Terms that are not equal stand for values that nobody can make equal:   *)
(* bytes of data and of the key stream, nonces, and tags, which are        *)
(* functions of their one-time key and of what they authenticate.          *)
(***************************************************************************)
EXTENDS Integers, FiniteSets, Sequences, SequencesExt

CONSTANTS KeyBytes,    \* bytes of a key: 32 in the code
          Keys,        \* keys that generate-key may print
          Typos,       \* other texts that may be passed as a key
          Lengths,     \* lengths of payloads
          Word,        \* bytes per word of the GPU kernel: 4
          MacBlock,    \* bytes that Poly1305 input is padded to: 16
          StreamBlock, \* bytes per block of the key stream: 64
          GpuWorks,    \* sides where the GPU device and kernel can be loaded
          MaxFrames    \* bound: frames ever sealed

Side == {"a", "b"}
Peer(s) == IF s = "a" THEN "b" ELSE "a"

ASSUME PayloadAssumption ==
    /\ Keys \subseteq [1..KeyBytes -> 0..255]
    /\ Lengths \subseteq Nat
    /\ {KeyBytes, Word, MacBlock, StreamBlock} \subseteq Nat \ {0}
    /\ GpuWorks \subseteq Side
    /\ MaxFrames \in Nat

VARIABLES
    text,      \* the key text each process is started with
    request,   \* the value of its --accel
    process,   \* "new", "runs", "refuses" (an error) or "panics"
    key,       \* the key it has decoded
    backend,   \* "cpu" or "gpu"
    sealed,    \* history: the frames sealed, with their keys and payloads
    transit,   \* the frame that travels to a side: a sequence of at most one
    opened,    \* history: what open returned, and for which frame
    refused,   \* history: the frames that open refused
    launched   \* history: the frames whose payload a GPU was given to decrypt

vars == <<text, request, process, key, backend, sealed, transit, opened,
          refused, launched>>

-----------------------------------------------------------------------------
(***************************************************************************)
(* Key texts.  A character is one byte of text, or two or three ("2", "3"  *)
(* followed by the name of no digit).                                      *)
(***************************************************************************)
Lower == <<"0", "1", "2", "3", "4", "5", "6", "7",
           "8", "9", "a", "b", "c", "d", "e", "f">>
Upper == [i \in 1..16 |->
            IF i <= 10 THEN Lower[i] ELSE <<"A", "B", "C", "D", "E", "F">>[i - 10]]

Width(c) == CASE c = "two bytes" -> 2 [] c = "three bytes" -> 3 [] OTHER -> 1

\* The values that c may have as a digit: one or none.
Values(c) == {v \in 0..15 : c \in {Lower[v + 1], Upper[v + 1]}}

Text(k, digits) ==
    [i \in 1..(2 * KeyBytes) |->
        digits[1 + IF i % 2 = 1 THEN k[(i + 1) \div 2] \div 16
                                ELSE k[i \div 2] % 16]]

\* encode_hex, as generate-key prints it.
EncodeHex(k) == Text(k, Lower)

\* The bytes of a text: each the character it belongs to, and its place there.
TextBytes(t) == FlattenSeq([i \in 1..Len(t) |-> [j \in 1..Width(t[i]) |-> <<t[i], j>>]])

\* Slicing the text around its i-th pair of bytes cuts a character.
Cuts(bytes, i) ==
    \/ bytes[2 * i - 1][2] # 1
    \/ 2 * i < Len(bytes) /\ bytes[2 * i + 1][2] # 1

\* Mutant: the slices overlap.
PairShifted(bytes, i) == <<bytes[i][1], bytes[i + 1][1]>>

Pair(bytes, i) == <<bytes[2 * i - 1][1], bytes[2 * i][1]>>

\* What from_str_radix may return for a pair: two digits, or a sign and one.
Decoded(pair) ==
    {16 * v + w : v \in Values(pair[1]) \cup (IF pair[1] = "+" THEN {0} ELSE {}),
                  w \in Values(pair[2])}

\* The pairs at which decode_hex_key stops.
Bad(bytes) == {i \in 1..KeyBytes : Cuts(bytes, i) \/ Decoded(Pair(bytes, i)) = {}}

\* decode_hex_key: an error, a panic, or the key.
DecodeHexKey(t) ==
    LET bytes == TextBytes(t) IN
    IF Len(bytes) # 2 * KeyBytes THEN "refuses"
    ELSE IF Bad(bytes) = {} THEN "runs"
    ELSE LET first == CHOOSE i \in Bad(bytes) : \A j \in Bad(bytes) : i <= j
         IN  IF Cuts(bytes, first) THEN "panics" ELSE "refuses"

KeyOf(t) == [i \in 1..KeyBytes |-> CHOOSE v \in Decoded(Pair(TextBytes(t), i)) : TRUE]

-----------------------------------------------------------------------------
(***************************************************************************)
(* The construction of RFC 8439.                                           *)
(***************************************************************************)
Zero == {}
Xor(x, y) == (x \ y) \cup (y \ x)

\* The byte at an offset of a block of the ChaCha20 key stream.
Stream(k, nonce, counter, offset) == {<<"stream", k, nonce, counter, offset>>}

\* ChaCha20 from the block with number base.
ChaCha20(k, nonce, base, data) ==
    [i \in 1..Len(data) |->
        Xor(data[i], Stream(k, nonce, base + (i - 1) \div StreamBlock,
                            (i - 1) % StreamBlock))]

Padded(data, size) ==
    data \o [i \in 1..((0 - Len(data)) % size) |-> Zero]

\* derive_poly1305_key: the start of block 0.
PolyKey(k, nonce) == <<k, nonce, 0>>

Count(n) == {<<"count", n>>}

Poly1305(onetime, data) == {<<"tag", onetime, data>>}

\* The tag of the chacha20poly1305 crate, without additional data.
CrateTag(k, nonce, ct) ==
    LET size == MacBlock * ((Len(ct) + MacBlock - 1) \div MacBlock)
    IN  Poly1305(PolyKey(k, nonce),
                 [i \in 1..size |-> IF i <= Len(ct) THEN ct[i] ELSE Zero]
                     \o <<Count(0), Count(Len(ct))>>)

-----------------------------------------------------------------------------
(***************************************************************************)
(* The construction of the GPU back end.                                   *)
(***************************************************************************)
\* Mutant: block 0, which the one-time key is taken from, is used for data.
CounterFromZero == 0

CounterBase == 1

\* Mutant: the result is not cut to the length of the data.
Untruncated(k, nonce, data) == ChaCha20(k, nonce, CounterBase, Padded(data, Word))

\* gpu_chacha20_encrypt: whole words go to the kernel, and what was added is
\* cut off again.
GpuChaCha20(k, nonce, data) ==
    SubSeq(ChaCha20(k, nonce, CounterBase, Padded(data, Word)), 1, Len(data))

\* Mutant: a full block is added where none is needed.
PadAlways(ct) == Padded(Append(ct, Zero), MacBlock)

Pad16(ct) == Padded(ct, MacBlock)

PolyTag(k, nonce, ct) ==
    Poly1305(PolyKey(k, nonce), Pad16(ct) \o <<Count(0), Count(Len(ct))>>)

-----------------------------------------------------------------------------
(***************************************************************************)
(* A frame is a nonce, a ciphertext and a tag: one cell, bytes, one cell.  *)
(* A compressed payload starts with a cell that tells where it ends; what  *)
(* follows its end is not read.                                            *)
(***************************************************************************)
Header(n) == {<<"deflate", n>>}

Deflate(data) == <<Header(Len(data))>> \o data

\* What may come out: the data, or none for an error.
Inflate(data) == {SubSeq(data, 2, n + 1) :
    n \in {n \in 0..(Len(data) - 1) : Head(data) = Header(n)}}

Nonce(f) == Head(f)
Body(f) == Front(Tail(f))

\* What the back end of a side makes of compressed data.
Protected(s, nonce, data) ==
    LET ct == IF backend[s] = "gpu" THEN GpuChaCha20(key[s], nonce, data)
                                    ELSE ChaCha20(key[s], nonce, 1, data)
    IN  Append(ct, IF backend[s] = "gpu" THEN PolyTag(key[s], nonce, ct)
                                         ELSE CrateTag(key[s], nonce, ct))

\* Mutant: as the GPU back end was at first, which checked no tag.
Unverified(s, f) == Len(f) >= 2 /\ backend[s] = "gpu"

\* The checks of open: the frame is long enough and its tag is right.
Verifies(s, f) ==
    /\ Len(f) >= 2
    /\ Last(f) = IF backend[s] = "gpu" THEN PolyTag(key[s], Nonce(f), Body(f))
                                       ELSE CrateTag(key[s], Nonce(f), Body(f))

\* The payload of a frame whose tag is right: one or none.
Plaintext(s, f) ==
    Inflate(IF backend[s] = "gpu" THEN GpuChaCha20(key[s], Nonce(f), Body(f))
                                  ELSE ChaCha20(key[s], Nonce(f), 1, Body(f)))

-----------------------------------------------------------------------------
KeyTexts(k) == {EncodeHex(k), Text(k, Upper)}

Init ==
    /\ text \in [Side -> Typos \cup UNION {KeyTexts(k) : k \in Keys}]
    /\ request \in [Side -> {"cpu", "gpu", "npu"}]
    /\ process = [s \in Side |-> "new"]
    /\ key = [s \in Side |-> <<>>]
    /\ backend = [s \in Side |-> "cpu"]
    /\ sealed = <<>>
    /\ transit = [s \in Side |-> <<>>]
    /\ opened = {} /\ refused = {} /\ launched = {}

\* A command decodes its key, then reads its --accel, and asks for a GPU only
\* if it is told to; without one it falls back to the CPU.
Start(s) ==
    LET decoded == DecodeHexKey(text[s])
    IN  /\ process[s] = "new"
        /\ process' = [process EXCEPT ![s] =
                IF decoded = "runs" /\ request[s] \notin {"cpu", "gpu"}
                THEN "refuses" ELSE decoded]
        /\ IF process'[s] = "runs"
           THEN /\ key' = [key EXCEPT ![s] = KeyOf(text[s])]
                /\ backend' = [backend EXCEPT ![s] =
                       IF s \in GpuWorks THEN request[s] ELSE "cpu"]
           ELSE UNCHANGED <<key, backend>>
        /\ UNCHANGED <<text, request, sealed, transit, opened, refused, launched>>

\* seal draws a nonce; nonces do not repeat.
Seal(s) ==
    /\ process[s] = "runs" /\ Len(sealed) < MaxFrames /\ transit[Peer(s)] = <<>>
    /\ \E n \in Lengths :
         LET id == Len(sealed) + 1
             nonce == {<<"nonce", id>>}
             payload == [i \in 1..n |-> {<<"data", id, i>>}]
             frame == <<nonce>> \o Protected(s, nonce, Deflate(payload))
         IN  /\ sealed' = Append(sealed,
                    [key |-> key[s], frame |-> frame, payload |-> payload])
             /\ transit' = [transit EXCEPT ![Peer(s)] = <<frame>>]
    /\ UNCHANGED <<text, request, process, key, backend, opened, refused, launched>>

\* One cell is changed, or taken from another frame, or the frame ends early,
\* or late.
Damage(f) ==
    {[f EXCEPT ![i] = Xor(f[i], {<<"noise">>})] : i \in 1..Len(f)}
    \cup {[f EXCEPT ![i] = sealed[j].frame[i]] : i \in 1..2, j \in 1..Len(sealed)}
    \cup {[f EXCEPT ![Len(f)] = Last(sealed[j].frame)] : j \in 1..Len(sealed)}
    \cup {SubSeq(f, 1, n) : n \in {0, 1, Len(f) - 1}}
    \cup {Append(f, Zero), Append(f, Last(f))}

Corrupt(s) ==
    /\ \E i \in 1..Len(sealed) :
         /\ transit[s] = <<sealed[i].frame>>
         /\ \E g \in Damage(sealed[i].frame) : transit' = [transit EXCEPT ![s] = <<g>>]
    /\ UNCHANGED <<text, request, process, key, backend, sealed, opened,
                   refused, launched>>

\* open: the payload is given to a GPU only after the tag has been compared.
Open(s) ==
    /\ process[s] = "runs" /\ transit[s] # <<>>
    /\ LET f == Head(transit[s])
           result == IF Verifies(s, f) THEN Plaintext(s, f) ELSE {}
       IN  /\ opened' = opened \cup {<<s, f, p>> : p \in result}
           /\ refused' = IF result = {} THEN refused \cup {<<s, f>>} ELSE refused
           /\ launched' = IF backend[s] = "gpu" /\ Verifies(s, f)
                          THEN launched \cup {<<s, f>>} ELSE launched
    /\ transit' = [transit EXCEPT ![s] = <<>>]
    /\ UNCHANGED <<text, request, process, key, backend, sealed>>

\* A call of the GPU fails while open decrypts.  (When one fails in seal, no
\* frame is made.)
GpuFails(s) ==
    /\ process[s] = "runs" /\ backend[s] = "gpu" /\ transit[s] # <<>>
    /\ Verifies(s, Head(transit[s]))
    /\ launched' = launched \cup {<<s, Head(transit[s])>>}
    /\ transit' = [transit EXCEPT ![s] = <<>>]
    /\ UNCHANGED <<text, request, process, key, backend, sealed, opened, refused>>

Next == \E s \in Side : Start(s) \/ Seal(s) \/ Corrupt(s) \/ Open(s) \/ GpuFails(s)

Spec == Init /\ [][Next]_vars

-----------------------------------------------------------------------------
\* Types; a frame is longer than its payload by a nonce, a tag and what
\* compression adds, whichever back end made it (gpu_chacha20_encrypt cuts off
\* what it added).
TypeOK ==
    /\ process \in [Side -> {"new", "runs", "refuses", "panics"}]
    /\ key \in [Side -> {<<>>} \cup [1..KeyBytes -> 0..255]]
    /\ backend \in [Side -> {"cpu", "gpu"}]
    /\ \A s \in Side : Len(transit[s]) <= 1
    /\ \A i \in 1..Len(sealed) : Len(sealed[i].frame) = Len(sealed[i].payload) + 3

\* Two processes started with what generate-key printed, in any letter case,
\* run with that key, whatever each has as its back end: encode_hex and
\* decode_hex_key are inverse.
GeneratedKeyWorks ==
    \A s \in Side, k \in Keys :
      text[s] \in KeyTexts(k) =>
        /\ process[s] # "panics"
        /\ process[s] = "refuses" => request[s] \notin {"cpu", "gpu"}
        /\ process[s] = "runs" => key[s] = k

\* open returns a payload, and gives data to a GPU, only for a frame that was
\* sealed under the key of the process and has arrived as it was sealed; and
\* the payload is the one that was sealed.
TamperRejected ==
    LET Sealed(s, f) == {i \in 1..Len(sealed) : sealed[i].frame = f /\ sealed[i].key = key[s]}
    IN  /\ \A o \in opened : \E i \in Sealed(o[1], o[2]) : sealed[i].payload = o[3]
        /\ \A l \in launched : Sealed(l[1], l[2]) # {}

\* A frame that arrives whole at a process with the same key is never refused,
\* whichever of the two back ends sealed it and whichever opens it: the GPU
\* construction is byte for byte that of the chacha20poly1305 crate.
Interoperates ==
    \A r \in refused, i \in 1..Len(sealed) :
      ~ (r[2] = sealed[i].frame /\ key[r[1]] = sealed[i].key)

\* No byte of the key stream hides two bytes of data, and none hides a byte of
\* data that the one-time key of a tag is made of (block 0).
KeystreamOnce ==
    LET Used(i) == UNION ToSet(Body(sealed[i].frame))
        Streams(i) == {t \in Used(i) : t[1] = "stream"}
    IN  \A i \in 1..Len(sealed) :
          /\ Cardinality(Streams(i)) = Len(Body(sealed[i].frame))
          /\ \A t \in Streams(i) : t[4] # 0
          /\ \A j \in 1..(i - 1) : Streams(i) \cap Streams(j) = {}
=============================================================================
