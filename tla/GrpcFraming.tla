---------------------------- MODULE GrpcFraming ----------------------------
(***************************************************************************)
(* Messages in a stream of octets: the frame of a compression flag and a   *)
(* big-endian length that GrpcChannel.cpp and GrpcServer.cpp each write,   *)
(* the client's reassembly of a stream, the server's reading of a unary    *)
(* body, and the percent-encoded text of an error.                         *)
(*                                                                         *)
(* The length has two octets of Base values instead of four of 256; an     *)
(* octet of text is one of sixteen, a hexadecimal digit one of four.       *)
(***************************************************************************)
EXTENDS Integers, Sequences, FiniteSets, SequencesExt

CONSTANT Nothing

Base == 2
HeaderOctets == 3

FrameMessage(message) ==
    <<0, (Len(message) \div Base) % Base, Len(message) % Base>> \o message

DeclaredLength(buffer) == buffer[2] * Base + buffer[3]
Compressed(buffer) == buffer[1] # 0

\* The first whole message of the buffer, when there is one; nobody was told
\* that it may be compressed.
IsBad(buffer) == Len(buffer) >= HeaderOctets /\ Compressed(buffer)
TakeMessage(buffer) ==
    IF Len(buffer) < HeaderOctets
       \/ IsBad(buffer)
       \/ Len(buffer) - HeaderOctets < DeclaredLength(buffer)
    THEN Nothing
    ELSE [message |-> SubSeq(buffer, HeaderOctets + 1, HeaderOctets + DeclaredLength(buffer)),
          rest |-> SubSeq(buffer, HeaderOctets + DeclaredLength(buffer) + 1, Len(buffer))]

\* receive, called for as long as it has a message: what is buffered comes
\* out before the next DATA frame is read, and a bad message cancels the stream.
RECURSIVE TakeAll(_)
TakeAll(stream) ==
    LET taken == TakeMessage(stream.buffer)
    IN  IF taken = Nothing THEN [stream EXCEPT !.cancelled = IsBad(stream.buffer)]
        ELSE TakeAll([stream EXCEPT !.buffer = taken.rest, !.got = Append(@, taken.message)])

Receive(stream, data) ==
    IF stream.cancelled THEN stream ELSE TakeAll([stream EXCEPT !.buffer = @ \o data])
Received(frames) ==
    FoldLeft(Receive, [buffer |-> <<>>, got |-> <<>>, cancelled |-> FALSE], frames)

\* A unary request: one message, no more and no less.
UnframeMessage(body) ==
    IF Len(body) < HeaderOctets \/ Compressed(body)
       \/ Len(body) - HeaderOctets # DeclaredLength(body)
    THEN Nothing
    ELSE SubSeq(body, HeaderOctets + 1, Len(body))

----------------------------------------------------------------------------
(* grpc-message *)

Text == 0..15
Percent == 8
Plain == 4..11              \* printable ASCII, '%' and the digits among it
Digit(n) == 4 + n
IsDigit(ch) == ch \in 4..7
Hex(hi, lo) == 4 * (hi - 4) + (lo - 4)

Escaped(ch) == <<Percent, Digit(ch \div 4), Digit(ch % 4)>>
EncodeGrpcMessage(text) ==
    FoldLeft(LAMBDA out, ch : out \o (IF ch \notin Plain \/ ch = Percent THEN Escaped(ch) ELSE <<ch>>),
             <<>>, text)

\* '%' that no two digits follow stays as it is (toInt would take a sign too,
\* which no encoder writes).
EscapeAt(raw, i) ==
    raw[i] = Percent /\ i + 2 <= Len(raw) /\ IsDigit(raw[i + 1]) /\ IsDigit(raw[i + 2])

RECURSIVE DecodeFrom(_, _)
DecodeFrom(raw, i) ==
    IF i > Len(raw) THEN <<>>
    ELSE IF EscapeAt(raw, i) THEN <<Hex(raw[i + 1], raw[i + 2])>> \o DecodeFrom(raw, i + 3)
    ELSE <<raw[i]>> \o DecodeFrom(raw, i + 1)
DecodeGrpcMessage(raw) == DecodeFrom(raw, 1)
=============================================================================
