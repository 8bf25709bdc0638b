----------------------------- MODULE MCQosPath -----------------------------
(***************************************************************************)
(* QosPath with one streaming address and one other: data packets of       *)
(* either, the DNS answer that reveals the first, and two messages that    *)
(* must not be taken for such an answer.                                   *)
(***************************************************************************)
EXTENDS QosPath

Service == {<<"netflix", ".", "com">>}

www == <<"www", ".", "netflix", ".", "com">>
cdn == <<"cdn", ".", "netflix", ".", "com">>
lookalike == <<"not", "netflix", ".", "com">>
outside == <<"e1", ".", "akamai", ".", "net">>

AliasWithin ==
    Message("dns", 1, 53, www, <<Answer(www, "CNAME", cdn), Answer(cdn, "A", "video")>>)

AliasOutside ==
    Message("dns", 1, 53, www,
            <<Answer(www, "CNAME", outside), Answer(outside, "A", "video")>>)

Decoys ==
    {Message("dns", 1, 53, lookalike, <<Answer(lookalike, "A", "web")>>),
     Message("web", 1, 443, www, <<Answer(www, "A", "web")>>)}

Data == {Plain("video", 1), Plain("video", 3), Plain("web", 1)}

Traffic == Data \cup Decoys \cup {AliasWithin}
AliasTraffic == Data \cup {AliasOutside}
ShortTraffic == Data \cup {AliasWithin}
=============================================================================
