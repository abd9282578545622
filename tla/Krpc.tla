--------------------------------- MODULE Krpc ---------------------------------
(***************************************************************************)
(* KRPC messages: src/bencode.rs, and what src/dht.rs builds from them and *)
(* reads in them.  A datagram is the bencode value that serde_bencode      *)
(* makes of its bytes; a value is a pair of its kind and its content.      *)
(* Byte strings are opaque, except that                                    *)
(*   - a string of the length of an info hash or node id is a member of    *)
(*     Ids, and of no other set,                                           *)
(*   - a string of compact entries is the list of the entries and whether  *)
(*     bytes are left over after the last one.                             *)
(***************************************************************************)
EXTENDS Integers, Sequences, SequencesExt, Selection

CONSTANTS
    Ids,       \* strings of NODE_ID_LEN bytes
    Ips,       \* IPv4 addresses
    PublicIps, \* those for which is_public_ipv4 holds
    NotUtf8    \* a dictionary key that is not UTF-8

\* Endpoints, and strings of them.
MaxPort == 65535
Address == [ip : Ips, port : 0 .. MaxPort]
CompactPeers == [entries : Seq(Address), cut : BOOLEAN]

Bytes(b) == <<"bytes", b>>
Integer(i) == <<"int", i>>
List(s) == <<"list", s>>
Dict(f) == <<"dict", f>>

\* A key that is present with a value of the kind: get_bytes, get_string,
\* get_dict, get_list and the matches! of the readers.
Has(d, key, kind) == key \in DOMAIN d /\ d[key][1] = kind

Without(d, keys) == [k \in DOMAIN d \ keys |-> d[k]]
With(d, e) == [k \in DOMAIN d \cup DOMAIN e |-> IF k \in DOMAIN e THEN e[k] ELSE d[k]]

------------------------------------------------------------------------------
(***************************************************************************)
(* KrpcMessage.                                                            *)
(***************************************************************************)
Reserved == {"t", "y", "q", "a", "r", "e"}
Malformed == [type |-> "malformed"]
NoExtra == [k \in {} |-> 0]

\* The dictionary under key, without the keys that are not UTF-8; empty if
\* there is none.
Body(d, key) == IF Has(d, key, "dict") THEN Without(d[key][2], {NotUtf8}) ELSE NoExtra

collect_extra(d) == Without(d, Reserved \cup {NotUtf8})
insert_extra(d, extra) == With(Without(extra, Reserved), d)

to_bytes(m) ==
    LET head == [t |-> Bytes(m.t)]
    IN  Dict(insert_extra(
            CASE m.type = "query" -> With(head, [y |-> Bytes("q"), q |-> Bytes(m.q), a |-> Dict(m.a)])
              [] m.type = "response" -> With(head, [y |-> Bytes("r"), r |-> Dict(m.r)])
              [] m.type = "error" -> With(head, [y |-> Bytes("e"), e |-> List(<<Integer(m.code), Bytes(m.description)>>)]),
            m.extra))

from_bytes(v) ==
    LET d == v[2]
        framed == v[1] = "dict" /\ Has(d, "t", "bytes") /\ Has(d, "y", "bytes")
        Type(y) == framed /\ d["y"][2] = y
    IN  CASE Type("q") /\ Has(d, "q", "bytes") ->
                [type |-> "query", t |-> d["t"][2], q |-> d["q"][2], a |-> Body(d, "a"),
                 extra |-> collect_extra(d)]
          [] Type("r") ->
                [type |-> "response", t |-> d["t"][2], r |-> Body(d, "r"),
                 extra |-> collect_extra(d)]
          [] Type("e") /\ Has(d, "e", "list") /\ d["e"][2] # <<>> /\ d["e"][2][1][1] = "int" ->
                [type |-> "error", t |-> d["t"][2], code |-> d["e"][2][1][2],
                 description |-> IF Len(d["e"][2]) > 1 /\ d["e"][2][2][1] = "bytes"
                                 THEN d["e"][2][2][2] ELSE "unknown error",
                 extra |-> collect_extra(d)]
          [] OTHER -> Malformed

------------------------------------------------------------------------------
(***************************************************************************)
(* Fields.                                                                 *)
(***************************************************************************)
\* field_id and extract_node_id: a field that is a string of the right length.
HasId(values, key) == Has(values, key, "bytes") /\ values[key][2] \in Ids
field_id(values, key) == values[key][2]

is_public_endpoint(addr) == addr.port # 0 /\ addr.ip \in PublicIps

encode_compact(entries) == Bytes([entries |-> entries, cut |-> FALSE])
decode_compact(b) ==
    IF b.cut THEN <<>>
    ELSE Picked(b.entries, {i \in DOMAIN b.entries : is_public_endpoint(b.entries[i])})

response_message(id, t, values) ==
    [type |-> "response", t |-> t, r |-> With(values, [id |-> Bytes(id)]), extra |-> NoExtra]
error_message(t, text) ==
    [type |-> "error", t |-> t, code |-> 203, description |-> text, extra |-> NoExtra]

\* parse_get_peers_response: the peers; values is a list of strings, in which
\* other things are skipped, or one string.
PeersIn(r) ==
    LET values == r["values"][2]
        strings == IF Has(r, "values", "list")
                   THEN Picked(values, {i \in DOMAIN values : values[i][1] = "bytes"})
                   ELSE IF Has(r, "values", "bytes") THEN <<r["values"]>> ELSE <<>>
    IN  FlattenSeq([i \in DOMAIN strings |-> decode_compact(strings[i][2])])

\* response_has_shape for the methods whose answers are read here.
response_has_shape(r, method) ==
    /\ HasId(r, "id")
    /\ method = "get_peers" => \/ Has(r, "nodes", "bytes")
                               \/ Has(r, "values", "list")
                               \/ Has(r, "values", "bytes")
    /\ method = "sample_infohashes" => /\ Has(r, "interval", "int")
                                       /\ Has(r, "num", "int")
                                       /\ Has(r, "samples", "bytes")

\* parse_sample_infohashes_response succeeds.
SampleIsValid(r, maxInterval, maxSamples) ==
    /\ r["interval"][2] \in 1 .. maxInterval
    /\ r["num"][2] >= 0
    /\ ~r["samples"][2].cut
    /\ Len(r["samples"][2].entries) <= maxSamples
==============================================================================
