---------------------------- MODULE H3DataStream ----------------------------
(***************************************************************************)
(* The frames of a request stream: h3zero_parse_data_stream                *)
(* (src/h3zero_common.c) in the loop of its caller                         *)
(* h3zero_process_h3_server_data, which hands it what is left of a chunk   *)
(* until nothing is left and takes the data bytes it finds.                *)
(*                                                                         *)
(* A stream is Length bytes, known by their positions.  Of a byte matters  *)
(* what the varint that starts there would be, its width and its value,    *)
(* and whether a header block that starts there can be decoded.  The bytes *)
(* gathered in frame_header are always the last ones read, so that         *)
(* frame_header_read is enough to know them.                               *)
(***************************************************************************)
EXTENDS Integers, Sequences, SequencesExt

CONSTANTS
  Length,    \* bytes of the stream
  Contents,  \* possible contents: [1..Length -> [width, value, block]]
  MaxBlock   \* 0x10000, the longest header block

ASSUME LengthAssumption == Length \in Nat
ASSUME MaxBlockAssumption == MaxBlock \in Nat
ASSUME ContentsAssumption ==
  Contents \subseteq
    [1..Length -> [width : Nat \ {0}, value : Nat, block : BOOLEAN]]

\* h3zero_frame_type_enum_t
FrameData == 0
FrameHeader == 1
FrameCancelPush == 3
FrameSettings == 4
FrameGoaway == 7
FrameMaxPushId == 13
FrameWebtransport == 65

VARIABLES
  content,              \* what the stream carries
  at, hand,             \* the next byte to parse, the last byte received
  frame_header_read, frame_header_parsed,
  current_frame_type, current_frame_length, current_frame_read,
  header_found, data_found, trailer_found, is_web_transport,
  error,                \* what the connection is closed with, "none" so far
  delivered             \* history: the bytes taken as data, in order

chunkVars == <<content, hand>>
headVars == <<frame_header_read, frame_header_parsed>>
frameVars == <<current_frame_type, current_frame_length, current_frame_read>>
foundVars == <<header_found, data_found, trailer_found, is_web_transport>>
vars == <<chunkVars, at, headVars, frameVars, foundVars, error, delivered>>

Init ==
  /\ content \in Contents
  /\ at = 1 /\ hand = 0
  /\ frame_header_read = 0 /\ frame_header_parsed = FALSE
  /\ current_frame_type = 0 /\ current_frame_length = 0 /\ current_frame_read = 0
  /\ header_found = FALSE /\ data_found = FALSE /\ trailer_found = FALSE
  /\ is_web_transport = FALSE
  /\ error = "none" /\ delivered = <<>>
-----------------------------------------------------------------------------
Smaller(a, b) == IF a < b THEN a ELSE b
Rest == hand - at + 1
Busy == Rest > 0 /\ error = "none"

\* The bytes of frame_header: where they start, where the length starts.
TypeAt == at - frame_header_read
LengthAt == TypeAt + content[TypeAt].width

\* The bytes the type and the length take together.
HeaderBytes == content[TypeAt].width + content[LengthAt].width

DataAllowed == header_found /\ ~trailer_found /\ ~is_web_transport

HeadersAllowed ==
  ~header_found \/ (data_found /\ ~trailer_found /\ ~is_web_transport)

\* What the connection is closed with for a frame of this type and length here.
Verdict(type, length) ==
  CASE type = FrameData /\ ~DataAllowed -> "unexpected"
    [] type = FrameHeader /\ ~HeadersAllowed -> "unexpected"
    [] type = FrameHeader /\ HeadersAllowed /\ length > MaxBlock -> "internal"
    [] type = FrameWebtransport /\ header_found -> "unexpected"
    [] type = FrameSettings -> "unexpected"
    [] type \in {FrameCancelPush, FrameGoaway, FrameMaxPushId} -> "protocol"
    [] OTHER -> "none"
-----------------------------------------------------------------------------
(* The data callback brings the next chunk of the stream.                  *)

Receive ==
  /\ Rest = 0 /\ error = "none"
  /\ \E n \in 1..(Length - hand) : hand' = hand + n
  /\ UNCHANGED <<content, at, headVars, frameVars, foundVars, error, delivered>>
-----------------------------------------------------------------------------
(* One call of h3zero_parse_data_stream with what is left of the chunk.    *)

\* The chunk ends inside the type: nothing is known yet.
PartOfType ==
  /\ Busy /\ ~frame_header_parsed
  /\ hand < LengthAt - 1
  /\ frame_header_read' = frame_header_read + Rest /\ at' = hand + 1
  /\ UNCHANGED <<chunkVars, frame_header_parsed, frameVars, foundVars, error,
                 delivered>>

\* The chunk ends behind the type, before the end of the length.
PartOfHeader ==
  /\ Busy /\ ~frame_header_parsed
  /\ hand >= LengthAt - 1
  /\ hand >= LengthAt => frame_header_read + Rest < HeaderBytes
  /\ current_frame_type' = content[TypeAt].value
  /\ frame_header_read' = frame_header_read + Rest /\ at' = hand + 1
  /\ UNCHANGED <<chunkVars, frame_header_parsed, current_frame_length,
                 current_frame_read, foundVars, error, delivered>>

\* The header is complete, and the frame may not belong here.  A WebTransport
\* header has the session in the place of the length and is all of its frame.
WholeHeader ==
  /\ Busy /\ ~frame_header_parsed
  /\ hand >= LengthAt /\ frame_header_read + Rest >= HeaderBytes
  /\ current_frame_type' = content[TypeAt].value
  /\ current_frame_read' = 0 /\ frame_header_parsed' = TRUE
  /\ frame_header_read' = HeaderBytes /\ at' = TypeAt + HeaderBytes
  /\ error' = Verdict(current_frame_type', content[LengthAt].value)
  /\ IF current_frame_type' = FrameWebtransport /\ error' = "none"
     THEN /\ header_found' = TRUE /\ is_web_transport' = TRUE
          /\ current_frame_length' = 0
     ELSE /\ current_frame_length' = content[LengthAt].value
          /\ UNCHANGED <<header_found, is_web_transport>>
  /\ UNCHANGED <<chunkVars, data_found, trailer_found, delivered>>

InFrame(type) ==
  Busy /\ frame_header_parsed /\ ~is_web_transport /\ current_frame_type = type

\* The bytes of the chunk that belong to the frame.
Available == Smaller(Rest, current_frame_length - current_frame_read)
FrameComplete == current_frame_read + Available >= current_frame_length

\* The frame is over when it is complete.
AfterFrame ==
  IF FrameComplete
  THEN frame_header_parsed' = FALSE /\ frame_header_read' = 0
  ELSE UNCHANGED headVars

\* h3zero_parse_qpack_header_frame takes this block; an empty one it never does.
Decodes(p, length) == length > 0 /\ content[p].block

\* Behind a WebTransport header everything is data.
PassThrough ==
  /\ Busy /\ frame_header_parsed /\ is_web_transport
  /\ at' = hand + 1
  /\ delivered' = delivered \o [i \in 1..Rest |-> at + i - 1]
  /\ UNCHANGED <<chunkVars, headVars, frameVars, foundVars, error>>

\* A header block is gathered; the first complete one is the header, the second
\* the trailer.  There may be no memory for it, and it may not decode.
Headers ==
  /\ InFrame(FrameHeader)
  /\ at' = at + Available /\ current_frame_read' = current_frame_read + Available
  /\ AfterFrame
  /\ IF FrameComplete
     THEN /\ trailer_found' = header_found /\ header_found' = TRUE
          /\ error' = IF Decodes(at' - current_frame_length, current_frame_length)
                      THEN "none" ELSE "frame"
     ELSE UNCHANGED <<header_found, trailer_found, error>>
  /\ UNCHANGED <<chunkVars, current_frame_type, current_frame_length, data_found,
                 is_web_transport, delivered>>

NoMemory ==
  /\ InFrame(FrameHeader) /\ current_frame_read = 0
  /\ error' = "internal"
  /\ UNCHANGED <<chunkVars, at, headVars, frameVars, foundVars, delivered>>

\* Mutated form: the whole chunk is taken, across the end of the frame.
Data_WholeChunk ==
  /\ InFrame(FrameData)
  /\ at' = hand + 1 /\ current_frame_read' = current_frame_read + Rest
  /\ AfterFrame
  /\ data_found' = (data_found \/ FrameComplete)
  /\ delivered' = delivered \o [i \in 1..Rest |-> at + i - 1]
  /\ UNCHANGED <<chunkVars, current_frame_type, current_frame_length,
                 header_found, trailer_found, is_web_transport, error>>

\* Mutated form: an empty frame is never over.
Data_EmptyStays ==
  /\ InFrame(FrameData)
  /\ at' = at + Available /\ current_frame_read' = current_frame_read + Available
  /\ IF FrameComplete /\ current_frame_length > 0
     THEN frame_header_parsed' = FALSE /\ frame_header_read' = 0 /\ data_found' = TRUE
     ELSE UNCHANGED <<headVars, data_found>>
  /\ delivered' = delivered \o [i \in 1..Available |-> at + i - 1]
  /\ UNCHANGED <<chunkVars, current_frame_type, current_frame_length,
                 header_found, trailer_found, is_web_transport, error>>

\* Data goes to the caller, which moves on behind it.
Data ==
  /\ InFrame(FrameData)
  /\ at' = at + Available /\ current_frame_read' = current_frame_read + Available
  /\ AfterFrame
  /\ data_found' = (data_found \/ FrameComplete)
  /\ delivered' = delivered \o [i \in 1..Available |-> at + i - 1]
  /\ UNCHANGED <<chunkVars, current_frame_type, current_frame_length,
                 header_found, trailer_found, is_web_transport, error>>

\* A frame of another type is skipped.
Skip ==
  /\ InFrame(current_frame_type) /\ current_frame_type \notin {FrameData, FrameHeader}
  /\ at' = at + Available /\ current_frame_read' = current_frame_read + Available
  /\ AfterFrame
  /\ UNCHANGED <<chunkVars, current_frame_type, current_frame_length, foundVars,
                 error, delivered>>

Parse ==
  \/ PartOfType \/ PartOfHeader \/ WholeHeader
  \/ PassThrough \/ Headers \/ NoMemory \/ Data \/ Skip
-----------------------------------------------------------------------------
(* The frames of a stream, whatever its chunks.                            *)

Width(p) == IF p <= Length THEN content[p].width ELSE 1
Value(p) == IF p <= Length THEN content[p].value ELSE 0
PayloadAt(q) == q + Width(q) + Width(q + Width(q))
PayloadLength(q) == Value(q + Width(q))

EndOf(q) == PayloadAt(q) + PayloadLength(q)

\* Frames start at the first byte and where another one ends; a WebTransport
\* frame has no end.
Starts[p \in 1..Length] ==
  p = 1 \/ \E q \in 1..(p - 1) : EndOf(q) = p /\ Value(q) # FrameWebtransport /\ Starts[q]

FrameStarts == {p \in 1..Length : Starts[p]}

FramesOf(type, before) ==
  {q \in FrameStarts : q < before /\ Value(q) = type}

\* The order of frames the comments ask for: data between the header and the
\* trailer, WebTransport instead of both, anything unknown anywhere.
InOrder(q) ==
  LET headers == FramesOf(FrameHeader, q)
      data == FramesOf(FrameData, q)
  IN CASE Value(q) = FrameData -> \E h \in headers : headers = {h}
       [] Value(q) = FrameHeader ->
            headers = {} \/ \E h \in headers : headers = {h} /\ data # {}
       [] Value(q) = FrameWebtransport -> headers = {}
       [] OTHER -> Value(q) \notin {FrameSettings, FrameCancelPush, FrameGoaway,
                                    FrameMaxPushId}

\* The frames whose headers have been read, and those of them that are too long
\* or are over and did not decode.
Read == {q \in FrameStarts : PayloadAt(q) <= at}
Broken ==
  {q \in Read : /\ Value(q) = FrameHeader
                /\ \/ PayloadLength(q) > MaxBlock
                   \/ /\ EndOf(q) <= at
                      /\ frame_header_parsed => EndOf(q) < at
                      /\ ~Decodes(PayloadAt(q), PayloadLength(q))}

\* However the stream is cut, its data reaches the application complete and in
\* order: every byte of a DATA frame, or everything behind a WebTransport header,
\* and nothing else.
DataComplete ==
  LET payload(q) == IF Value(q) = FrameWebtransport THEN PayloadAt(q)..(at - 1)
                    ELSE PayloadAt(q)..Smaller(EndOf(q) - 1, at - 1)
      data == UNION {payload(q) : q \in {r \in Read : /\ Value(r) \in {FrameData, FrameWebtransport}
                                                     /\ InOrder(r)}}
  IN /\ {delivered[i] : i \in DOMAIN delivered} = data
     /\ \A i \in 1..(Len(delivered) - 1) : delivered[i] < delivered[i + 1]

\* "Having two frame headers before a data frame is a bug" and "unknown frames
\* can happen at any point in the stream" (h3zero_common.c:639, 640): the
\* connection is closed for a frame out of order, however the stream is cut, and
\* for nothing else but a header block that is too long, broken or finds no memory.
ClosedForDisorder ==
  /\ error = "none" => \A q \in Read : InOrder(q) /\ q \notin Broken
  /\ error \in {"unexpected", "protocol"} => \E q \in Read : ~InOrder(q)
  /\ error = "frame" => Broken # {}
=============================================================================
