----------------------------- MODULE MCDhtServer -----------------------------
(***************************************************************************)
(* An instance of DhtServer for TLC.                                       *)
(***************************************************************************)
EXTENDS DhtServer, TLC

CONSTANTS h1, h2, zero, me, n1

Addr(ip, port) == [ip |-> ip, port |-> port]

MCIds == {h1, h2, zero, me, n1}
MCSources == {Addr("a", 1), Addr("lan", 1)}
MCPublicIps == {"a", "b", "c"}
MCIps == MCPublicIps \cup {"lan"}
MCHashArgs == {Bytes(h1), Bytes(h2), Bytes(zero), Bytes("short")}
MCAnnounceArgs ==
    {[info_hash |-> Bytes(h), implied_port |-> Integer(1)] : h \in {h1, h2}}
        \cup {[info_hash |-> Bytes("short"), implied_port |-> Integer(1)],
              [info_hash |-> Bytes(h1), port |-> Integer(0)]}

\* Peers in a list and in one string, with an endpoint that is not public; and
\* nodes only.
MCPeerAnswers ==
    {[id |-> Bytes(n1), values |-> List(<<encode_compact(<<Addr("b", 1)>>), Integer(0),
                                          encode_compact(<<Addr("c", 1)>>)>>)],
     [id |-> Bytes(n1), values |-> encode_compact(<<Addr("lan", 1), Addr("c", 1)>>)],
     [id |-> Bytes(n1), nodes |-> encode_compact(<<>>)]}

Samples(interval, entries) ==
    [id |-> Bytes(n1), interval |-> Integer(interval), num |-> Integer(0),
     samples |-> encode_compact(entries)]
MCSampleAnswers ==
    UNION {{Samples(1, <<h, zero>>), Samples(3, <<h>>), Samples(0, <<h>>)} : h \in {h1, h2}}
        \cup {Samples(1, <<>>)}

HashSymmetry == Permutations({h1, h2})
==============================================================================
