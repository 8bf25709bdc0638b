------------------------------- MODULE Snoop --------------------------------
(***************************************************************************)
(* How src/src/qos.rs reads the packets that pass: which addresses a DNS   *)
(* answer ties to the name of a streaming service.                         *)
(*                                                                         *)
(* A name is the sequence of its pieces, in lower case, with the dots      *)
(* between its labels among them; a label may have several pieces.  A      *)
(* packet has a far end and a length; the version of IP, the protocol and  *)
(* the port of the far end; and, if it is a DNS message, the name that was *)
(* asked and the answers, each with the name it is about, its type and its *)
(* data (an address, or the name that the first one is an alias of).       *)
(***************************************************************************)
EXTENDS Integers, Sequences

CONSTANT Suffixes   \* streaming_suffixes of qos.toml, names like the others

ASSUME SuffixAssumption == Suffixes \subseteq Seq(STRING)

Answer(name, type, data) == [name |-> name, type |-> type, data |-> data]

\* A packet that is no DNS message.
Plain(far, len) ==
    [far |-> far, len |-> len, version |-> 4, proto |-> "tcp", port |-> 443,
     asked |-> <<>>, answers |-> <<>>]

\* A DNS message in a UDP datagram.
Message(far, len, port, asked, answers) ==
    [far |-> far, len |-> len, version |-> 4, proto |-> "udp", port |-> port,
     asked |-> asked, answers |-> answers]

-----------------------------------------------------------------------------
\* ends_with.
EndsWith(name, end) ==
    /\ Len(end) <= Len(name)
    /\ \A i \in 1..Len(end) : name[(Len(name) - Len(end)) + i] = end[i]

\* Mutant: the dot in front of the suffix is forgotten.
MatchesEnd(name) == \E suf \in Suffixes : EndsWith(name, suf)

\* A name is one of the suffixes, or ends with "." and one of them.
MatchesSuffix(name) ==
    \/ name \in Suffixes
    \/ \E suf \in Suffixes : EndsWith(name, <<".">> \o suf)

\* parse_ipv4 takes IPv4 only.
ParsesIpv4(p) == p.version = 4

\* Mutant: any UDP datagram is looked into.
AnyDatagram(p) == ParsesIpv4(p) /\ p.proto = "udp"

\* What observe_ipv4_packet looks into.
IsDns(p) == ParsesIpv4(p) /\ p.proto = "udp" /\ p.port = 53

Answers(p) == {p.answers[i] : i \in 1..Len(p.answers)}

\* The addresses that observe_ipv4_packet remembers: those of the A records
\* whose own name matches.
Revealed(p) ==
    IF IsDns(p)
    THEN {a.data : a \in {a \in Answers(p) : a.type = "A" /\ MatchesSuffix(a.name)}}
    ELSE {}

-----------------------------------------------------------------------------
(***************************************************************************)
(* What a DNS answer says, independently of how the code finds it.         *)
(***************************************************************************)

\* The domain of a service holds its own name and those whose last labels are
\* the labels of that name.
OfService(name) ==
    \E suf \in Suffixes :
        /\ EndsWith(name, suf)
        /\ Len(suf) = Len(name) \/ name[Len(name) - Len(suf)] = "."

\* The addresses that p gives to a streaming service, by whichever alias: an A
\* record answers the name that was asked, and the one it carries.
Given(p) ==
    IF p.version = 4 /\ p.proto = "udp" /\ p.port = 53
    THEN {a.data : a \in {a \in Answers(p) :
                 a.type = "A" /\ (OfService(a.name) \/ OfService(p.asked))}}
    ELSE {}
=============================================================================
