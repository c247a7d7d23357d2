----------------------------- MODULE MCContract -----------------------------
(* What the two sides of the protocol have to agree on, but for the         *)
(* connection itself: every message with every pair of its fields away from *)
(* the default, numbers, strings and frames at the edges of their           *)
(* encodings, the header table over any sequence of blocks, what is read    *)
(* page by page, and what the timeline shows of the answers it gets.        *)
EXTENDS WireContract, StoreReaders, TranscriptView

H == INSTANCE Hpack WITH NoHeader <- Garbled
F == INSTANCE GrpcFraming WITH Nothing <- Garbled

CONSTANT HeaderRaces  \* "raise": a peer raises the limit of its table again

ASSUME HeaderAssumption == HeaderRaces \subseteq {"raise"}

VARIABLE case
vars == <<case, readers, viewVars>>

\* The values a field takes besides its default.
Others(kind) ==
    CASE kind \in {"strings", "blobs", "messages"} -> {<<0>>, <<0, 1>>, <<1, 0, 1>>}
      [] kind = "map" -> {<<1>>}
      [] kind \in Packed -> {<<0>>, <<1, 0>>}
      [] kind \in Optional -> {<<0>>, <<1>>}
      [] kind \in {"uint64", "int64"} -> {1, WideValue}
      [] OTHER -> {1}

Changed(table, f, v) == [Blank(table) EXCEPT ![f] = v]
Values(table) ==
    {Blank(table)} \union
    UNION {{[Changed(table, f, v) EXCEPT ![g] = w] : v \in Others(table[f][2]), w \in Others(table[g][2])}
           : f \in DOMAIN table, g \in DOMAIN table}

\* No caller sets both halves of a oneof.
Possible(name, msg) ==
    name = "StreamingRecognizeRequest" => msg.streamingConfig = <<>> \/ msg.audioContent = 0

Upto(S, n) == UNION {[1..m -> S] : m \in 0..n}
Messages == {<<>>, <<1>>, <<0, 1>>, <<1, 0, 1>>}

Cases ==
    \/ \E name \in DOMAIN Written : \E msg \in Values(Written[name]) :
         /\ Possible(name, msg)
         /\ case = [what |-> "message", name |-> name, msg |-> msg]
    \/ \E v \in 0..(Pow(Width) - 1) : case = [what |-> "varint", v |-> v]
    \/ \E prefix \in 2..3, v \in 0..80 : case = [what |-> "integer", prefix |-> prefix, v |-> v]
    \/ \E string \in Upto({"a", "b", "c", "d"}, 3) : case = [what |-> "string", string |-> string]
    \/ \E bits \in [1..H!ByteBits -> {0, 1}] \cup [1..(2 * H!ByteBits) -> {0, 1}] :
         case = [what |-> "bits", bits |-> bits]
    \/ \E text \in Upto({0, 4, 7, 8, 11, 15}, 3) : case = [what |-> "text", text |-> text]
    \/ \E sent \in Upto(Messages, 3) : case = [what |-> "stream", sent |-> sent]
    \/ case = [what |-> "headers", peer |-> [table |-> <<>>, limit |-> H!DefaultLimit],
               decoder |-> H!Fresh, meant |-> <<>>]
    \/ \E reader \in {"list", "trace", "review", "timeline"} : case = [what |-> reader]

\* A peer that compresses by RFC 7541: its table is the newest entries that
\* fit, it names in a block only what the table has, and it may set the limit
\* of its table to anything up to the one of SETTINGS.  Without "raise" it
\* only ever lowers it.
MayLimit(peer) == {n \in 0..H!DefaultLimit : "raise" \in HeaderRaces \/ n <= peer.limit}
Prefix(list, n) == SubSeq(list, 1, n)
TableSize(table) == FoldSeq(LAMBDA h, n : n + H!EntrySize(h), 0, table)
Fitting(table, limit) ==
    Prefix(table, Max({n \in 0..Len(table) : TableSize(Prefix(table, n)) <= limit}))
Known(peer) == H!StaticTable \o peer.table
Values3 == {"", "root", "long"}

Emits(peer) ==
    {[field |-> H!Indexed(i), meant |-> <<Known(peer)[i]>>, peer |-> peer]
       : i \in DOMAIN Known(peer)}
    \cup {[field |-> H!SizeUpdate(n), meant |-> <<>>,
           peer |-> [table |-> Fitting(peer.table, n), limit |-> n]] : n \in MayLimit(peer)}
    \cup {LET name == IF i = 0 THEN "x" ELSE Known(peer)[i].name
              h == H!Header(name, value)
          IN  [field |-> H!Literal(rep, i, name, value), meant |-> <<h>>,
               peer |-> IF rep = "incremental"
                        THEN [peer EXCEPT !.table = Fitting(<<h>> \o @, peer.limit)] ELSE peer]
            : rep \in {"incremental", "without", "never"}, value \in Values3,
              i \in 0..Len(Known(peer))}

Block ==
    /\ case.what = "headers"
    /\ \E e \in Emits(case.peer) :
         case' = [case EXCEPT !.peer = e.peer, !.meant = e.meant,
                              !.decoder = H!Decode(@, <<e.field>>)]
    /\ UNCHANGED <<readers, viewVars>>

Init == Cases /\ ReadersInit /\ ViewInit
Next ==
    \/ Block
    \/ case.what = "list" /\ ListNext /\ UNCHANGED <<case, traceVars, reviewVars, viewVars>>
    \/ case.what = "trace" /\ TraceNext /\ UNCHANGED <<case, listVars, reviewVars, viewVars>>
    \/ case.what = "review" /\ ReviewNext /\ UNCHANGED <<case, listVars, traceVars, viewVars>>
    \/ case.what = "timeline" /\ ViewNext /\ UNCHANGED <<case, readers>>
Spec == Init /\ [][Next]_vars

\* A peer of another version knows a field more or less than this one, or does
\* not pack what this one packs.
Skewed == [number |-> Highest + 1, wire |-> "length", payload |-> 1]
Without(table, f) == [g \in DOMAIN table \ {f} |-> table[g]]
Spread(entries, i) ==
    SubSeq(entries, 1, i - 1)
      \o [j \in 1..Len(entries[i].payload) |->
             [entries[i] EXCEPT !.wire = "varint", !.payload = entries[i].payload[j]]]
      \o SubSeq(entries, i + 1, Len(entries))

\* What one side of the contract serializes, the other side parses to the
\* same message: the two hand-written lists of every message agree on number,
\* type and presence, and an element of a repeated field keeps its place.  So
\* it is with a peer of another version: a field that is new to the reader, or
\* that it does not know yet, leaves the others as they are, wherever it comes.
MessagesAgree ==
    case.what = "message" =>
      LET entries == Serialize(Written[case.name], case.msg)
          table == Read[case.name] IN
      /\ Parse(table, entries) = case.msg
      /\ \A i \in 0..Len(entries) :
           Parse(table, SubSeq(entries, 1, i) \o <<Skewed>> \o SubSeq(entries, i + 1, Len(entries)))
             = case.msg
      /\ \A f \in DOMAIN table :
           LET older == Parse(Without(table, f), entries)
           IN  \A g \in DOMAIN older : older[g] = case.msg[g]
      /\ \A f \in DOMAIN table : table[f][2] \in {"int32s", "int64s"} =>
           \A i \in 1..Len(entries) : entries[i].number = table[f][1] =>
             Parse(table, Spread(entries, i)) = case.msg

VarintIsExact(v) ==
    LET buf == AppendVarint(v)
        signed == ToSigned(v) IN
    /\ ReadVarint(buf) = v
    /\ ToSigned(ReadVarint(AppendVarint(ToUnsigned(signed)))) = signed
    /\ \A n \in 0..(Len(buf) - 1) : ReadVarint(SubSeq(buf, 1, n)) = -1
    /\ ReadVarint([i \in 1..Width |-> [bits |-> 1, more |-> i < Width]]) = -1

IntegerIsExact(prefix, v) ==
    LET octets == H!WriteInteger(prefix, v)
        capacity == H!Mask(prefix) + Pow(H!GroupBits * 3)
    IN  /\ H!ReadInteger(prefix, octets) = IF v < capacity THEN v ELSE -1
        /\ \A n \in 0..(Len(octets.groups) - 1) :
             H!ReadInteger(prefix, [octets EXCEPT !.groups = Prefix(@, n)]) = -1

Stream(sent) == FoldLeft(LAMBDA out, m : out \o F!FrameMessage(m), <<>>, sent)
StreamIsExact(sent) ==
    LET stream == Stream(sent)
        n == Len(stream)
    IN  /\ \A i \in 0..n : \A j \in i..n :
             F!Received(<<SubSeq(stream, 1, i), SubSeq(stream, i + 1, j), SubSeq(stream, j + 1, n)>>)
               = [buffer |-> <<>>, got |-> sent, cancelled |-> FALSE]
        /\ \A k \in 1..Len(sent) :
             LET at == Len(Stream(Prefix(sent, k - 1))) + 1
                 end == F!Received(<<[stream EXCEPT ![at] = 1]>>)
             IN  end.cancelled /\ end.got = Prefix(sent, k - 1)
        /\ F!UnframeMessage(stream) = IF Len(sent) = 1 THEN sent[1] ELSE Garbled
        /\ \A i \in 1..(n - 1) : Len(sent) = 1 => F!UnframeMessage(Prefix(stream, i)) = Garbled

\* What is encoded reads back as it was, and what no writer makes is refused,
\* never misread: a varint or a prefix integer of either sign, cut short or
\* run on past the width; a Huffman string with the padding of another length
\* or EOS in it; the text of an error; a stream of messages, wherever the DATA
\* frames end, and of which one may be compressed; and a unary body with one
\* message too few or too many.
EncodingsAreExact ==
    /\ case.what = "varint" => VarintIsExact(case.v)
    /\ case.what = "integer" => IntegerIsExact(case.prefix, case.v)
    /\ case.what = "string" =>
         H!HuffmanDecode(H!HuffmanEncode(case.string)) = [ok |-> TRUE, out |-> case.string]
    /\ case.what = "bits" =>
         LET read == H!HuffmanDecode(case.bits)
         IN  read.ok => H!HuffmanEncode(read.out) = case.bits
    /\ case.what = "text" =>
         LET raw == F!EncodeGrpcMessage(case.text)
         IN  F!DecodeGrpcMessage(raw) = case.text /\ ToSet(raw) \subseteq F!Plain
    /\ case.what = "stream" => StreamIsExact(case.sent)

\* The decoder's table is the peer's after every block, so an index names what
\* the peer meant, as long as the peer does not raise the limit of its table
\* again (see SizeUpdatesAreTaken); and what this side writes reads back, in any table, without
\* a trace in it, a token with the mark that forbids keeping it
\* (hpack::Decoder, hpack::Encoder).
HeadersAgree ==
    case.what = "headers" =>
      LET d == case.decoder IN
      /\ d.ok /\ d.out = case.meant
      /\ d.table = case.peer.table /\ d.size = TableSize(d.table) /\ d.size <= d.limit
      /\ \A name \in {"path", "x", "authorization"}, value \in Values3 :
           LET block == H!Encode(<<H!Header(name, value)>>)
               read == H!Decode(d, block)
           IN  /\ read.ok /\ read.out = <<H!Header(name, value)>> /\ read.table = d.table
               /\ name = "authorization" => block[1].rep = "never"

\* Hpack.cpp:438-439: only a size update above the value of SETTINGS means that
\* the streams have desynchronised, so one at or below it is taken, whatever
\* the updates before it (hpack::Decoder::decode).
SizeUpdatesAreTaken == case.what = "headers" => case.decoder.ok

\* RivaAsr.cpp:166-167: an audio message with an empty payload is legal and
\* meaningful, a keep-alive, so the flag of the oneof decides whether the
\* audio is on the wire, not its size
\* (riva::StreamingRecognizeRequest::serialize).
KeepAliveGoesOut ==
    case.what = "message" /\ case.name = "StreamingRecognizeRequest" /\ case.msg.streamingConfig = <<>> =>
      LET table == Written[case.name]
          entries == Serialize(table, case.msg)
      IN  \E i \in 1..Len(entries) : entries[i].number = table.audioContent[1]
=============================================================================
