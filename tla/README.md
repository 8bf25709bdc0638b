# RS-LinkFusion in TLA+

RS-LinkFusion carries traffic over several network links bonded into one
connection (by the library aggligator).  These modules model what the program
itself does with that connection, check it with TLC on small instances, and
prove the central properties with TLAPS for instances of every size.  Every
definition is taken from the Rust source; `PROJECT.json` ("map") gives the lines
of each.

## The system

| part | source | state it keeps | operations |
|---|---|---|---|
| TCP tunnel | `main.rs` `run_serve`, `handle_serve_connection`, `run_connect`, `relay` | per carried connection: two sockets, a bonded stream, two futures (`to_agg`, `to_local`) under `try_join!` | accept, dial, read a chunk, write a frame, read a frame, write the chunk, end |
| frames | `framed.rs` | none beyond the partial read or write | `write_frame`, `read_frame` |
| payload protection | `accel.rs` | key, back end | `seal`, `open` |
| TUN gateway | `tun_gateway.rs`, `main.rs` `run_gateway_serve`, `run_gateway_connect` | one device per process; on the client a reconnect loop with one relay at a time, on the server one relay per connection | dial, retry, `relay_packets` (`tun_to_agg`, `agg_to_tun`) |
| limiter | `qos.rs` `RateLimiter` | tokens, time of the last refill | `consume` |
| classifier | `qos.rs` `Classifier` | address -> expiry | `observe_ipv4_packet`, `is_classified` |
| history | `speedtest.rs` | a file of JSON lines | `append_history`, `load_history`, `prune_older_than` |
| measurements | `speedtest.rs`, `main.rs` `run_speedtest_command` | per process: the question for consent, the ticker | `run`, `watch`, `record_manual` |
| window | `gui.rs` | button flag, loop flag and stop sender, channel, list | `start_measurement`, `set_auto`, `drain_events` |
| quality | `quality.rs` | an external policy | `record_round_trip`, `policy` |
| command line | `main.rs` | none | `encode_hex`, `decode_hex_key`, `parse_accel_backend`, dispatch |

How they interact: a relay of the tunnel or of the gateway calls `seal` and
`open` through the frames; both halves of a gateway relay share one classifier
and one limiter, and on `gateway-serve` so do all relays; all relays of a server
share its TUN device; the reconnect loop sees only the return of
`relay_packets`; the window and the speed test commands, in one or in several
processes, share the history file and nothing else.

What is hard here: `try_join!` ends at the first error but waits for both halves
otherwise; end of stream, error and silence mean different things; writes and
reads are partial; an old connection outlives the new one on the server; a
consumer that wakes finds the bucket changed; the history file is shared without
a lock.  `PROJECT.json` ("hazards") lists these at the lines where they bite.

## Modules

    BytePipe <---- Tunnel ---- TunnelInv ---- MCTunnel
   (abstract)                      \---- TunnelProofs
    PacketPath <-- Gateway ---- MCGateway
   (abstract)  \       \---- GatewayProofs
                \---- PacketPathProofs --/
    LeakyBucket <- RateLimiter ---- RateLimiterProofs
   (abstract)          \                     \
    Snoop ------------- QosPath ---- MCQosPath \
                            \------------------ QosProofs
    History ---- SpeedTest ---- Gui
        \---- HistoryProofs ---- GuiProofs (also of SpeedTest)
    Payload ---- MCPayload
        \---- PayloadProofs

**Tunnel** is one TCP connection through `connect` and `serve`.  The bytes an
application sends are numbered, so that any loss, repetition or reordering shows.
A frame is `HdrCells + BodyCells` cells, and `write_all` and `read_exact` move
one cell per step: every partial read and write is a state.  The two halves of
each relay are `ToAggStep` and `ToLocalStep`; `JoinOutcome` and `Fail` are
`try_join!`.  `phase` is the task of the connection: `ok` (relay returned Ok),
`err` (it returned an error; the peer will see the end of the stream) and `dead`
(killed, or cut off from its peer).  `open` accepts what `seal` made under the
same key and nothing else; `sameKey` lets the two processes have different keys,
`GpuSides` lets the GPU calls of a side fail.  Applications may send, read, shut
their write half, close or reset at any time; the link may be lost and either
process killed at any time.  What `open` accepts is what Payload shows of it.

**BytePipe** is what the tunnel promises: a duplex pipe that may break, delivers
prefixes in order, and in which a side that finishes without an error has passed
on and received everything.  `Tunnel!PipeSpec` instantiates it with
`flushed` as the bytes passed.

**TunnelInv** holds the inductive invariants of Tunnel, **TunnelProofs** the
proofs.  Of the other components, the invariants are in the module of the proofs.

**RateLimiter** is the token bucket and any number of futures in `consume`.
Time is measured in the tokens it is worth (`accrued` for `state.last`, `left`
for a sleep), so that no clock grows.  A turn of the loop in `consume` happens
under the mutex and is one step, `Admit` or `Sleep`.  Arithmetic is exact, where
the code uses f64; a negative rate in `qos.toml` is not modelled.  At rate 0 a
consumer that has to wait panics, as `Duration::from_secs_f64` does.

**LeakyBucket** is the shaping it promises: a meter raised by each byte let
through and lowered by time, that admits only below its capacity.

**QosPath** puts the limiter into `relay_packets`: `Throttle`, `Pass` and `Doze`
use the actions of RateLimiter (by INSTANCE), `Observed` is the snooping of DNS
answers and `remains` the classifier's map with the time left to each entry.
`Role` says in which direction each half carries packets.  `heard` and `meter`
are history variables that measure streaming traffic independently of the
classifier's map.  A packet that waits for the limiter stays at the head of the
queue of its half.

**Snoop** says what the classifier reads in a packet: the version of IP, the
protocol, the port, and in a DNS message its answers.  A name is a sequence of
pieces, the dots between its labels among them, and a label may have several:
`notnetflix.com` ends with the pieces of `netflix.com` like `www.netflix.com`,
and only the dot in front of them tells the two apart, as in `matches_suffix`
(lower case, and the dot at the end of a name, are taken for granted).
`Revealed` is what `observe_ipv4_packet` remembers; `Given` is the reference
against which it is measured, the addresses that a DNS answer gives to a
streaming service under whatever alias.  It uses none of the definitions that
model the code: a name is a service's (`OfService`) if its last labels are those
of the service.

**Gateway** is the reconnect loop and the relays of `relay_packets`, named by
side and connection.  A packet is one frame and atomic here (Tunnel shows what
becomes of its bytes).  `inbound` is `agg_to_tun`, which ends with `None`
without ending the relay; `tun_to_agg` ends by an error only.  All relays of a
side read the one `tunq`.  Either process may be killed and started again.
`via` records which connection's relay read a packet, for the properties.
`StepErr` is an error of a relay: from writing a frame or a packet, or, on the
sides of `BadDevice`, from `tun.recv` with no packet in hand.

**PacketPath** is what the gateway promises: packets wait in front of a path, a
live connection takes them one by one and carries them in order, each comes out
at most once, and what is lost is lost with its connection, with its process, or
for want of room.  `Gateway!PathSpec` instantiates it: `line` is what is being
sent to the device, what is on the wire and what is being written, end to end.

**History** has the two writes of `writeln!` and the steps of
`prune_older_than` (load, ask, copy, rename) as separate actions; `attached`
says whether an open file is still the one with that name, since a rename leaves
writers with the old file.  The records made by a run are never old enough to be
pruned; the ones of `Before` may be.  `during` and `excused` are history
variables: the first has the records that a prune, as it loaded the file, could
not have seen, the second those of all prunes that were carried through.  One
prune runs at a time, which is a bound: two would share one `.jsonl.tmp`.

**SpeedTest** extends it by the commands `run`, `watch` and `record-manual`, each
a process that is started, asks for consent unless told `--yes`, measures,
appends, and may be killed at any point, in the middle of an append too.  A
`watch` that has its consent makes a ticker first (`StartTicker`): with
`--interval-minutes 0` that panics.

**Gui** extends that by the window: the user's clicks, the loops, the channel,
and one task per measurement, each a writer of History.

**Payload** has two processes, each started with some text as its key and some
`--accel`, that seal, lose control of, and open frames.  `DecodeHexKey` is
`decode_hex_key` with its error, its panic and its tolerance of a sign.  A byte is
a set of terms and exclusive or is the symmetric difference, so a byte of data
under a byte of key stream is the set of both, and taking the key stream away
gives the data back.  The key stream, the tag and the nonces are terms: equal
only if everything they are made from is equal.  The crate's construction
(`CrateTag`) and the one of the GPU back end (`GpuChaCha20`, `Pad16`, `PolyTag`)
are written down independently.  `Damage` is what may become of a frame.

## Runs

| run | asks | result |
|---|---|---|
| MCTunnel | safety of the tunnel, refinement of BytePipe, progress of requests, notice of a lost link or ended peer | holds |
| MCTunnelShut | does a connection both applications are done with end? | no |
| RateLimiter | refinement of LeakyBucket, debt, progress of consumers | holds |
| MCGateway | delivery across reconnects, reconnecting, refinement of PacketPath | holds |
| MCGatewayIdle | does a client without traffic leave a stale relay? | no |
| MCQosPath | is streaming traffic bounded at `gateway-connect`, and only streaming traffic, and for how long does a sleep hold up the rest? | holds |
| MCQosServer | the same at `gateway-serve` | no |
| MCQosAlias | is streaming bounded behind an alias of another network? | no |
| MCPayload | keys, damaged frames, mixed back ends, reuse of key stream | holds |
| Gui | history, button, list and loops, consent and persistence of commands | holds |
| GuiPrune | does a prune delete old records only? | no |
| GuiLines | is every line one record? | no |

The six runs that answer no are disagreements between the code and its
documentation; `PROJECT.json` ("findings") quotes both.

Bounds, and why they are enough:

- *MCTunnel*: one byte up, two down, chunks of up to two: bytes coalesce into one
  frame or not.  Frames of three cells on a link that holds two, so a frame is
  never on the link whole, and a header of two cells, so the end of the stream may
  come inside it.  Local sockets of one byte make writes partial, and the client's
  socket, the frame in flight and the link can all be full, so that the
  directions would block each other if they shared anything.  *MCTunnelShut* has
  the same bytes with cells and chunks of one.
- *RateLimiter*: bursts of 0, 3 and 6 with packets of 1 to 5: below, equal to and
  above the burst; two consumers, the number of halves of a relay.
- *MCGateway*: two connections, so that one is replaced while the other side still
  has it; a queue and a link of two packets, three packets up: one more than the
  link buffers, which `TrafficEndsStale` needs.  Reading the device may fail on
  the server (`BadDevice`), and on both sides in *MCGatewayIdle*.
- *MCQosPath* and its siblings: packets of 1 and 3 against bursts of 2 and 4, and
  entries that expire after two ticks.  The traffic has an answer with an alias
  within the service, one for a lookalike name, and a datagram of another port
  that reads as an answer.
- *MCPayload*: keys of two bytes, four digits; payloads of 3 and 4, with the
  byte of the compression 4 and 5: exactly a block of the tag and of the key
  stream, and one more, which is also not a whole number of words.  Two frames,
  so that the cells of one can be put into the other.
- *Gui*: two tasks, so that two measurements overlap, and one command; two
  records at the start, one old and one recent, and one that is made; an interval
  of 0 and one of 60 minutes.  A prune may meet the new record at each point of
  its append, and keep the recent one.  `EventCap` limits the events that may be in
  the channel when a measurement starts: a loop waits for it to be empty, a click
  comes in a frame that has just drained it and finds at most one.
  *GuiLines* needs two records that are made, *GuiPrune* one.

Deadlock is not checked in the tunnel, gateway, window and payload runs: applications,
the kernel and users may stop, and bounded numbers of packets, connections and
records run out.

## Fairness

Weak fairness of each future (`ToAggStep`, `ToLocalStep`, `TunToAggStep`,
`AggToTunStep`, the turns of `consume`, a measurement): tokio polls a future that
can go on, and the bonding library moves what is written.  A dial resolves, the
backoff is finite, time passes, the window repaints every 500 ms.  In
MCGateway only the client's relays are fair (`ClientFairSpec`): that the client
comes back depends on nobody else.  Nothing is
assumed of applications (but that the target service reads, in
`OneReaderSpec`), of the kernel's traffic, of when links fail, or of restarts.
`AutoStop` is strongly fair, because `select!` picks among ready branches at
random and a loop looks at its stop signal only between measurements; that a
measurement comes to an end is assumed of the ndt7 client, which `gui.rs` gives
no time limit.

## Proofs

Each theorem holds for every value of the constants that satisfies the
assumption of its component, and rests on an inductive invariant that TLC has
checked, on the instances of the runs, before it was proved.

*TunnelProofs* (`BoundsAssumption`: any sizes and numbers of bytes) proves
`TypeOK`, `Integrity`, `FramingInSync`, `CleanEof` and `PipeSpec`.  None of the
three invariants is inductive: to know that the next byte delivered is the right
one, one must know what is in the frame being gathered, on the link and being
written.  `StreamInv` says it: these together (`Flow`) are one run of consecutive
cells of consecutive frames (`Chained`) that starts right after the last byte
opened and, while both relays live, ends with the last byte taken (`Continuous`);
opened bytes are numbered (`Numbered`), a partial frame begins with a header
(`Aligned`), and a `to_local` that is done has left nothing behind
(`DoneIsFinal`).  There is one lemma per action, over lemmas about chained
sequences (append, cut at the front, replace a prefix).  That the tunnel
implements BytePipe (`TunnelPipe`) needs more.  A delivery must not overtake the
frames written completely: `Continuous` puts the last complete frame of a run at
or after its start (`LastAfterStart`).  A relay that finishes must have passed on
everything: `PassInv` says that what is taken and not written is in the frame
being written, and that a `to_agg` that is done has taken all its application
will ever send.  A finished `to_local` meets `DoneIsFinal`.  Losses and crashes
are `Break`; reads, opened frames and all cells of a frame but the last are
stutters.

*PacketPathProofs* shows of the abstract path, for any set of connections and
any capacity, that no packet comes out twice (`OnceOut`) and each connection
keeps the order (`OrderedOut`).  `PathInv`: the packets in front of the path are
in order and behind all that was ever taken, each is taken by one connection, and
what a connection carries is in order behind what it has delivered.

*GatewayProofs* (`GatewayAssumption`: any numbers of connections, packets and
crashes, any capacities) proves `TypeOK`, `LostOnlyWithRelay` and that Gateway
implements PacketPath (`GatewayPath`), with one lemma per action that names the
step of the path, or none.  `AtMostOnce` and `OrderedPerConnection` are then
theorems about the path, carried over by the refinement.  The inductive invariant
is short: `TypeOK`, and that only established connections have relays
(`RelaysKnown`); everything else that could go wrong is excluded by the path.

*RateLimiterProofs* (`LimiterAssumption`: any consumers, rates, burst and packet
sizes) proves `TypeOK`, `DebtBound`, that RateLimiter implements LeakyBucket
(`LimiterShapes`, with `burst - Level` as the meter), and with it the bound of the
meter (`LimiterMeter`).  The inductive invariant `BucketInv` adds that tokens
never exceed the burst and that whoever waits asks for something: this is what
makes an admission of the bucket one of the meter.  `LimiterSleeps` bounds the
sleeps (`SleepBound`): the level is never below the debt of one packet, so no
deficit is larger than the request and that debt.

*QosProofs* (`PathAssumption`: any packets, suffixes, rates, queues and TTL)
uses the limiter's invariants as they stand.  `OnlyStreamingThrottled` holds for
either role, because no entry of the classifier outlives what DNS answers said
(`Remembered`), and that because `matches_suffix` finds no name outside the
service's domain (`NoLookalike`).  `OthersHeldBriefly` holds for either role too:
a half goes to wait for an address that some answer gave to a service, that
packet stays at the head of its queue (`WaitsForStreaming`), and the limiter
bounds the sleep.  `StreamingBounded` has two hypotheses: `Role = "client"`, and
`PlainAnswers`, which says that the answers reveal whatever addresses they give
and that streaming addresses are those of IPv4.  Without the first MCQosServer,
and without the second MCQosAlias, finds it violated; the instance of MCQosPath
satisfies both.  The argument: no address of the history is forgotten by the
classifier (`NoneForgotten`), a half that waits asks for exactly the packet at its
head (`AsksForHead`), so the meter never exceeds what the bucket lacks
(`MeterInBucket`).

*HistoryProofs* (`HistoryAssumption`: any writers and records) and *GuiProofs*
(`GuiAssumption` and `SpeedTestAssumption`: any tasks, commands and events).
History has no specification of its own; its steps are proved to keep
`HistoryInv`, and Gui's steps are those steps or leave History alone.
`LostOnlyToPrune` needs to know that a record is made and appended once
(`AppendedOnce`), and what a prune under way will spare or excuse (`Safe`: what
it keeps, what it found old, what is in `during`): all that is due
(`PruneKeeps`), and every record being appended, in `during` if its text is not
written yet (`PruneKnows`).  A writer whose file has been replaced under it has
its record excused, or has written the text before (`ReplacedKnows`), and a record
whose text is written is in the file or excused (`TextInFile`).  What `load_history` keeps is a
filtered sequence: that some ordering of its places exists is proved by counting
them.  `ButtonComesBack` follows from `FinalBusy`: what the button will be once
the channel is empty is right already.  `ShownIsSaved` follows from `ListInv`: what
the window's measurements saved is listed, in the channel, or with the one task
that will report it, and nowhere twice.  `ConsentFirst` and `WatchGoesOn` are
proved of the commands; that a watch with an interval of 0 panics is part of the
statement of `WatchGoesOn`, not an assumption.

*PayloadProofs* (`PayloadAssumption`: keys, payloads, words and blocks of any
length, any number of frames) proves `TypeOK`, `TamperRejected`, `Interoperates`,
`KeystreamOnce` and `GeneratedKeyWorks`.  `PayloadInv`: the i-th frame sealed is
made with the i-th nonce (`SealedInv`), a frame that travels carries no nonce that
is still to be drawn and no tag but those of frames sealed so far (`TransitInv`),
and what was opened, launched and refused stays right whatever is sealed later
(`PastInv`).  It rests on lemmas that reduce both back ends to the crate's
construction (`GpuCipher`, and the padding and lengths of the tag), on the tag
being equal only if key, nonce and bytes are, on the key stream being different
at every place of every block, and on the hexadecimal digits of a byte being read
back as that byte.

Model-checked only: the properties of liveness (`RequestsGetThrough`,
`EndIsNoticed`, `LoneIsServed`, `SomeoneIsServed`, `Redials`, `TrafficEndsStale`,
`AutoStops`), which are out of the prover's reach.  Every invariant, action
property and refinement that a passing run checks is also a theorem.

## Not modelled

Two prunes at the same time.  Name and address discovery, the bonding library itself (a stream that may be
lost), creation of the TUN device, the ndt7 client and the detection of
interfaces, drawing, the parsing of arguments and of `qos.toml`, installers.
`quality.rs` is left out because its only effect here is the length of a sleep.
In Payload, the ciphers and the compression are abstract: that they are strong
and correct is assumed of their crates and of the GPU kernel.  Nonces are drawn
at random in the code and do not repeat in the model.

Waiting consumers of the limiter may be overtaken for ever by smaller requests
(each of them finds the tokens first); nothing in the repository promises
otherwise, so only `SomeoneIsServed` and `LoneIsServed` are stated.

Met on the way, without a run of their own:

- `decode_hex_key` takes a sign for a digit (`+f`), and panics on a text of 64
  bytes with a character of several bytes across a pair (`main.rs:535`); Payload
  has both.
- The help of `speedtest watch` says that it asks nothing (`main.rs:212`,
  "確認なし"); it asks once at the start (`speedtest.rs:163`), as the comment
  above it says.  It also says that the command goes on until Ctrl+C: with
  `--interval-minutes 0` it panics (`speedtest.rs:164`) once consent is given.
  SpeedTest follows the code in both.
- `tun_gateway.rs:69-70` says that traffic other than streaming stays unlimited
  while both are exchanged.  Each half awaits `consume` before it takes up the next
  packet, so while it sleeps all packets of its direction wait.  `OthersHeldBriefly`
  says what they wait for and how long a sleep may be; it does not bound how often
  a half sleeps for one packet, when the other half takes the tokens first.
- `record-manual` takes NaN for a number and writes `null`, after which
  `load_history` fails for the whole file.

## Plan

1. Done: Tunnel with BytePipe; RateLimiter with LeakyBucket; Gateway with
   PacketPath; Snoop and QosPath; History, SpeedTest and Gui; Payload.
2. Done: the proofs of all of them, the three refinements included.
3. Left: theorems that no run states yet.  Candidates: a step property of the
   tunnel, that what the socket has accepted is never taken back or renumbered;
   what the shared limiter of `gateway-serve` does bound, where
   `StreamingBounded` fails; that in the file of the history every line but an
   interrupted one is one record when a single process appends.  Besides these,
   shorter proofs where several lemmas share an argument.
