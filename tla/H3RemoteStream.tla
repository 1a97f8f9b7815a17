--------------------------- MODULE H3RemoteStream ---------------------------
(***************************************************************************)
(* The streams the peer opens (src/h3zero_common.c): unidirectional ones,  *)
(* which are control, WebTransport or ignored streams, and bidirectional   *)
(* ones, which must be WebTransport streams.  The data callback hands      *)
(* h3zero_process_remote_stream the next chunk of one of them; the steps   *)
(* below are what it does with it.  The settings are shared by all streams *)
(* of the connection.                                                      *)
(*                                                                         *)
(* A stream is a sequence of bytes.  Of a byte matters what the varint     *)
(* that starts there would be and whether settings that start there can    *)
(* be decoded.  The bytes kept in frame_header are always  *)
(* the last ones read.  -1 is the code's UINT64_MAX, a value not known yet.*)
(***************************************************************************)
EXTENDS Integers, Sequences

CONSTANTS
  Unidirs, Bidirs,  \* the peer's streams
  Contents,         \* what they may carry
  Declared,         \* ctx->stream_prefixes: the session ids declared
  MaxContent        \* 0x10000, the longest frame that is kept

Streams == Unidirs \cup Bidirs

ASSUME StreamsAssumption == Unidirs \cap Bidirs = {}
ASSUME ContentsAssumption ==
  \A c \in Contents : /\ DOMAIN c \subseteq Streams
                      /\ \A s \in DOMAIN c :
                           c[s] \in Seq([width : Nat \ {0}, value : Nat, block : BOOLEAN])

\* h3zero_stream_type_enum_t and h3zero_frame_type_enum_t
StreamControl == 0
StreamWebtransport == 84
FrameData == 0
FrameHeader == 1
FrameSettings == 4
FramePushPromise == 5
FrameWebtransport == 65

VARIABLES
  content,           \* what the streams carry that are opened
  settings_received, \* ctx->settings.settings_received
  st,                \* [Streams -> parser state], see Fresh
  at,                \* [Streams -> the next byte to parse]
  cs, hand, call,    \* the call: its stream, its last byte, "data" or "fin";
                     \* call is "none" between calls
  finished,          \* the streams whose FIN has arrived
  rejected,          \* the streams the peer was asked to stop sending on
  data,              \* [Streams -> what the session was given of the stream]
  processed          \* history: the control frames completed, each with its
                     \* stream, first byte and type, and whether the stream
                     \* was rejected by then

callVars == <<cs, hand, call>>
ctxVars == <<content, settings_received>>
vars == <<ctxVars, st, at, callVars, finished, rejected, data, processed>>

Fresh == [stream_type |-> -1, current_frame_type |-> 0, current_frame_length |-> 0,
          current_frame_read |-> 0, current_frame |-> FALSE,
          is_current_frame_ignored |-> FALSE, frame_header_read |-> 0,
          control_stream_id |-> -1, path_callback |-> FALSE]

Init ==
  /\ content \in Contents
  /\ settings_received = FALSE
  /\ st = [s \in Streams |-> Fresh]
  /\ at = [s \in Streams |-> 1]
  /\ cs = (CHOOSE s \in Streams : TRUE) /\ hand = 0 /\ call = "none"
  /\ finished = {} /\ rejected = {}
  /\ data = [s \in Streams |-> [bytes |-> <<>>, fin |-> FALSE]]
  /\ processed = <<>>
-----------------------------------------------------------------------------
(* The data callback, and the ways a call goes on or ends.                 *)

State == st[cs]
Rest == hand - at[cs] + 1

\* picoquic_callback_stream_data or stream_fin with the next bytes of a stream,
\* none with a FIN of its own.
Deliver(s) ==
  /\ call = "none" /\ s \notin finished /\ s \in DOMAIN content
  /\ \E n \in 0..(Len(content[s]) - at[s] + 1) :
       /\ hand' = at[s] + n - 1
       /\ \/ n > 0 /\ call' = "data" /\ UNCHANGED finished
          \/ hand' = Len(content[s]) /\ call' = "fin" /\ finished' = finished \cup {s}
  /\ cs' = s
  /\ UNCHANGED <<ctxVars, st, at, rejected, data, processed>>

\* The parser takes the stream's state to `new' and moves to byte p.
Move(new, p) ==
  /\ st' = [st EXCEPT ![cs] = new]
  /\ at' = [at EXCEPT ![cs] = p]

Continue(new, p) ==
  /\ Move(new, p)
  /\ UNCHANGED <<callVars, rejected>>

\* The rest of the chunk is used up.
Return(new) ==
  /\ Move(new, hand + 1)
  /\ call' = "none" /\ UNCHANGED <<cs, hand, rejected>>

\* The parser gives up, and the peer is asked to stop.
Reject(new) ==
  /\ Move(new, hand + 1)
  /\ rejected' = rejected \cup {cs}
  /\ call' = "none" /\ UNCHANGED <<cs, hand>>

\* h3zero_varint_from_stream: the varint at hand, complete or not.
VarintAt == at[cs] - State.frame_header_read
Varint == content[cs][VarintAt].value
VarintEnd == VarintAt + content[cs][VarintAt].width
VarintComplete == Rest > 0 /\ VarintEnd <= hand + 1
Gather == [State EXCEPT !.frame_header_read = @ + Rest]
Known == [State EXCEPT !.frame_header_read = 0]
-----------------------------------------------------------------------------
(* The type of the stream.                                                 *)

\* h3zero_reset_control_stream_state
ResetFrame(state) ==
  [state EXCEPT !.current_frame_type = -1, !.current_frame_length = -1,
                !.current_frame_read = 0, !.current_frame = FALSE]

TypeUnknown == call # "none" /\ State.stream_type = -1

StreamType ==
  /\ TypeUnknown /\ VarintComplete
  /\ LET new == [Known EXCEPT !.stream_type = Varint]
     IN Continue(IF cs \in Unidirs /\ Varint = StreamControl
                 THEN ResetFrame(new) ELSE new, VarintEnd)
  /\ UNCHANGED <<ctxVars, finished, data, processed>>

UnidirTypeCut ==
  /\ TypeUnknown /\ ~VarintComplete /\ cs \in Unidirs
  /\ Return(Gather)
  /\ UNCHANGED <<ctxVars, finished, data, processed>>

\* Of a bidirectional stream the type of the current frame is looked at here,
\* which is not -1 on these streams, and an unknown type is not a WebTransport
\* stream.
BidirTypeCut ==
  /\ TypeUnknown /\ ~VarintComplete /\ cs \in Bidirs
  /\ Reject(Gather)
  /\ UNCHANGED <<ctxVars, finished, data, processed>>

Webtransport(s) ==
  st[s].stream_type = IF s \in Unidirs THEN StreamWebtransport ELSE FrameWebtransport

\* Push, QPACK and unknown streams are read and ignored.
OtherUnidir ==
  /\ call # "none" /\ cs \in Unidirs
  /\ State.stream_type \notin {-1, StreamControl, StreamWebtransport}
  /\ Return(State)
  /\ UNCHANGED <<ctxVars, finished, data, processed>>

OtherBidir ==
  /\ call # "none" /\ cs \in Bidirs
  /\ State.stream_type \notin {-1, FrameWebtransport}
  /\ Reject(State)
  /\ UNCHANGED <<ctxVars, finished, data, processed>>
-----------------------------------------------------------------------------
(* h3zero_wt_parse_control_stream_id, and what its session is given.       *)

SessionCut ==
  /\ call # "none" /\ Webtransport(cs) /\ State.control_stream_id = -1
  /\ ~VarintComplete
  /\ Return(Gather)
  /\ UNCHANGED <<ctxVars, finished, data, processed>>

\* Mutated form: the session is given nothing of the chunk that ends the header.
SessionFound_DropsRest ==
  /\ call # "none" /\ Webtransport(cs) /\ State.control_stream_id = -1
  /\ VarintComplete
  /\ LET new == [Known EXCEPT !.control_stream_id = Varint,
                              !.path_callback = Varint \in Declared]
     IN IF Varint \in Declared THEN Return(new) ELSE Reject(new)
  /\ UNCHANGED <<ctxVars, finished, data, processed>>

SessionFound ==
  /\ call # "none" /\ Webtransport(cs) /\ State.control_stream_id = -1
  /\ VarintComplete
  /\ LET new == [Known EXCEPT !.control_stream_id = Varint,
                              !.path_callback = Varint \in Declared]
     IN IF Varint \in Declared THEN Continue(new, VarintEnd) ELSE Reject(new)
  /\ UNCHANGED <<ctxVars, finished, data, processed>>

\* h3zero_post_data_or_fin
SessionData ==
  /\ call # "none" /\ Webtransport(cs) /\ State.control_stream_id # -1
  /\ data' = IF State.path_callback
             THEN [data EXCEPT ![cs] =
                     [bytes |-> @.bytes \o [i \in 1..Rest |-> at[cs] + i - 1],
                      fin |-> @.fin \/ call = "fin"]]
             ELSE data
  /\ Return(State)
  /\ UNCHANGED <<ctxVars, finished, processed>>
-----------------------------------------------------------------------------
(* h3zero_parse_control_stream                                             *)

Control == call # "none" /\ cs \in Unidirs /\ State.stream_type = StreamControl

\* Mutated form: the frames of request streams are let through.
FrameAllowed_Any(type) == settings_received # (type = FrameSettings)

FrameAllowed(type) ==
  IF settings_received
  THEN type \notin {FrameSettings, FrameData, FrameHeader, FramePushPromise,
                    FrameWebtransport}
  ELSE type = FrameSettings

FrameType ==
  /\ Control /\ State.current_frame_type = -1 /\ VarintComplete
  /\ LET new == [Known EXCEPT !.current_frame_type = Varint]
     IN IF FrameAllowed(Varint)
        THEN Continue([new EXCEPT !.is_current_frame_ignored =
                                    @ \/ Varint # FrameSettings], VarintEnd)
        ELSE Reject(new)
  /\ UNCHANGED <<ctxVars, finished, data, processed>>

FrameLength ==
  /\ Control /\ State.current_frame_type # -1
  /\ State.current_frame_length = -1 /\ VarintComplete
  /\ Continue([Known EXCEPT !.current_frame_length = Varint], VarintEnd)
  /\ UNCHANGED <<ctxVars, finished, data, processed>>

\* Mutated form: the loop goes on until the type or length is there.
FrameHeaderCut_Waits ==
  /\ Control /\ ~VarintComplete
  /\ \/ State.current_frame_type = -1
     \/ State.current_frame_length = -1
  /\ UNCHANGED vars

\* The chunk ends inside a type or length.
FrameHeaderCut ==
  /\ Control /\ ~VarintComplete
  /\ \/ State.current_frame_type = -1
     \/ State.current_frame_length = -1
  /\ Return(Gather)
  /\ UNCHANGED <<ctxVars, finished, data, processed>>

Smaller(a, b) == IF a < b THEN a ELSE b
Available == Smaller(Rest, State.current_frame_length - State.current_frame_read)
InBody == Control /\ State.current_frame_type # -1 /\ State.current_frame_length # -1
BodyComplete == State.current_frame_read + Available >= State.current_frame_length
Kept == ~State.is_current_frame_ignored /\ State.current_frame_length > State.current_frame_read

\* h3zero_settings_components_decode on settings that start at p: an empty frame
\* has no content, which counts as a failure.
SettingsDecode(p) == State.current_frame_length > 0 /\ content[cs][p].block

\* Mutated form: the bytes of a body that is cut are not counted.
BodyCut_Forgets ==
  /\ InBody /\ ~BodyComplete
  /\ Kept => State.current_frame_length <= MaxContent
  /\ Return([State EXCEPT !.current_frame = Kept])
  /\ UNCHANGED <<ctxVars, finished, data, processed>>

\* The body is not complete yet: h3zero_load_frame_content, _skip_frame_content.
BodyCut ==
  /\ InBody /\ ~BodyComplete
  /\ Kept => State.current_frame_length <= MaxContent
  /\ Return([State EXCEPT !.current_frame_read = @ + Available, !.current_frame = Kept])
  /\ UNCHANGED <<ctxVars, finished, data, processed>>

\* A frame to be kept is too long or finds no memory.
BodyRefused ==
  /\ InBody /\ Kept
  /\ State.current_frame_length > MaxContent \/ ~State.current_frame
  /\ Reject(State)
  /\ UNCHANGED <<ctxVars, finished, data, processed>>

\* The frame is over; settings take effect.
BodyEnds ==
  /\ InBody /\ BodyComplete
  /\ Kept => State.current_frame_length <= MaxContent
  /\ LET p == at[cs] + Available - State.current_frame_length
         settings == State.current_frame_type = FrameSettings
         new == ResetFrame(State)
     IN /\ IF settings /\ ~SettingsDecode(p)
           THEN Reject(new) /\ UNCHANGED processed
           ELSE /\ Continue(new, at[cs] + Available)
                /\ processed' = Append(processed, [stream |-> cs, body |-> p,
                                     type |-> State.current_frame_type,
                                     rejected |-> cs \in rejected])
        /\ settings_received' = (settings_received \/ (settings /\ SettingsDecode(p)))
  /\ UNCHANGED <<content, finished, data>>
-----------------------------------------------------------------------------
Parse ==
  \/ StreamType \/ UnidirTypeCut \/ BidirTypeCut \/ OtherUnidir \/ OtherBidir
  \/ SessionCut \/ SessionFound \/ SessionData
  \/ FrameType \/ FrameLength \/ FrameHeaderCut
  \/ BodyCut \/ BodyRefused \/ BodyEnds

Next == Parse \/ \E s \in Streams : Deliver(s)

Spec == Init /\ [][Next]_vars

\* A call of the callback runs to its end.
FairSpec == Spec /\ WF_vars(Parse)
-----------------------------------------------------------------------------
(* The streams as they are, whatever their chunks.                         *)

Width(s, p) == IF p \in DOMAIN content[s] THEN content[s][p].width ELSE 1
Value(s, p) == IF p \in DOMAIN content[s] THEN content[s][p].value ELSE 0
Session(s) == Value(s, 1 + Width(s, 1))
HeaderEnd(s) == 1 + Width(s, 1) + Width(s, 1 + Width(s, 1))

\* The first byte behind the frame that starts at q, and the bytes where the
\* frames of a control stream start.
FrameBody(s, q) == q + Width(s, q) + Width(s, q + Width(s, q))
FrameEnd(s, q) == FrameBody(s, q) + Value(s, q + Width(s, q))
FrameStarts(s) ==
  LET starts[p \in DOMAIN content[s]] ==
        \/ p = 1 + Width(s, 1)
        \/ \E q \in 1..(p - 1) : FrameEnd(s, q) = p /\ starts[q]
  IN {p \in DOMAIN content[s] : starts[p]}

Between(s) == call = "none" \/ cs # s

\* A WebTransport stream of a declared session is not refused if it is
\* unidirectional, and however a stream is cut that is not refused, the session is
\* given every byte behind the header, in order, and its FIN.
SessionStreamComplete ==
  \A s \in DOMAIN content :
    LET type == IF s \in Unidirs THEN StreamWebtransport ELSE FrameWebtransport
    IN Value(s, 1) = type /\ Session(s) \in Declared =>
         /\ s \in Unidirs => s \notin rejected
         /\ Between(s) /\ s \notin rejected =>
              /\ data[s].bytes = [i \in 1..(at[s] - HeaderEnd(s)) |-> HeaderEnd(s) + i - 1]
              /\ data[s].fin <=> s \in finished /\ at[s] >= HeaderEnd(s)

\* However a control stream is cut, its frames are handled one by one, each once
\* it is complete, until one of them is refused.
FramesHandled ==
  \A s \in Unidirs \cap DOMAIN content : Value(s, 1) = StreamControl /\ s \notin rejected /\ Between(s) =>
    LET mine == {i \in DOMAIN processed : processed[i].stream = s}
        frames == {q \in FrameStarts(s) : FrameEnd(s, q) <= at[s]}
    IN /\ {<<processed[i].body, processed[i].type>> : i \in mine}
            = {<<FrameBody(s, q), Value(s, q)>> : q \in frames}
       /\ \A i, j \in mine : i < j => processed[i].body < processed[j].body

\* "The settings frame must be the first on the control stream"
\* (h3zero_common.c:420): as long as a stream is not refused, none of its frames is
\* handled before settings have been, nor a frame of a request stream ever.
SettingsFirst ==
  \A i \in DOMAIN processed : ~processed[i].rejected =>
    /\ \E j \in 1..i : processed[j].type = FrameSettings
    /\ processed[i].type \notin {FrameData, FrameHeader, FramePushPromise,
                                 FrameWebtransport}

\* Every call of the callback ends.
CallEnds == call # "none" ~> call = "none"
=============================================================================
