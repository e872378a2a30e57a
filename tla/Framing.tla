------------------------------ MODULE Framing -------------------------------
(***************************************************************************)
(* Length-prefixed frames and the reader that takes them apart again       *)
(* (src/ipc/protocol.cpp), shared by the RPC connections and the native    *)
(* messaging relay.                                                        *)
(*                                                                         *)
(* A byte stream is a sequence of cells.  The four bytes of a length       *)
(* prefix are one cell, and a payload is one or more cells of JSON text,   *)
(* so a stream can be cut between any two cells and a reader that has lost *)
(* its place takes text for a length or a length for text, as the code     *)
(* does.                                                                   *)
(***************************************************************************)
EXTENDS Naturals, Sequences

Length(n) == [length |-> n]

Text(message, k) == [text |-> message, at |-> k]

IsLength(cell) == "length" \in DOMAIN cell

\* The document of a message whose JSON is n cells long.
Payload(message, n) == [k \in 1..n |-> Text(message, k)]

\* encode_frame of a payload within the limit; a longer one is refused by the callers.
Frame(payload) == <<Length(Len(payload))>> \o payload

\* Four characters of JSON text, read as a length, are over every limit (0x20202020).
FrameLength(buffer, max_bytes) ==
    IF IsLength(buffer[1]) THEN buffer[1].length ELSE max_bytes + 1

FramingError(buffer, max_bytes) ==
    buffer # <<>> /\ FrameLength(buffer, max_bytes) > max_bytes

HasFrame(buffer, max_bytes) ==
    /\ buffer # <<>>
    /\ FrameLength(buffer, max_bytes) <= max_bytes
    /\ Len(buffer) >= 1 + FrameLength(buffer, max_bytes)

\* The payload decode_frame returns, and what FrameReader::next leaves in buffer_.
FramePayload(buffer) == SubSeq(buffer, 2, 1 + buffer[1].length)

\* The frame is handed out and stays in the buffer.
MutAfterFrame(buffer) == buffer

AfterFrame(buffer) == SubSeq(buffer, 2 + buffer[1].length, Len(buffer))

\* json::parse succeeds on the text of one whole message and on nothing else.
Parses(payload) ==
    /\ payload # <<>>
    /\ ~IsLength(payload[1])
    /\ \A k \in DOMAIN payload : payload[k] = Text(payload[1].text, k)

Parsed(payload) == payload[1].text
=============================================================================
