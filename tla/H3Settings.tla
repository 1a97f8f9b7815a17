----------------------------- MODULE H3Settings -----------------------------
(***************************************************************************)
(* The settings of HTTP/3 (src/h3zero_common.c): h3zero_settings_encode,   *)
(* which writes the frame with a length it only knows afterwards, and      *)
(* h3zero_settings_decode; and the varints that frames and capsules are    *)
(* made of.                                                                *)
(*                                                                         *)
(* A byte is <<value, width, i>>: the i-th byte of the varint of that      *)
(* value and width.                                                        *)
(***************************************************************************)
EXTENDS Integers, Sequences

\* UINT64_MAX stands outside what a varint can hold, and so does what is read from
\* bytes that were not written together.
UINT64_MAX == 2147483647
Garbage == 2147483646

\* No byte has width 0: an output that did not fit, or an input that is refused.
NULL == <<<<0, 0, 0>>>>
-----------------------------------------------------------------------------
(* Varints                                                                 *)

\* wt_varint_encode, and the library's encoder: the shortest form.
Width(v) ==
  IF v <= 63 THEN 1 ELSE IF v <= 16383 THEN 2 ELSE IF v <= 1073741823 THEN 4 ELSE 8

Wide(v, width) == [i \in 1..width |-> <<v, width, i>>]
Varint(v) == Wide(v, Width(v))

\* wt_varint_decode: whether a whole varint starts at p, its value, and where it ends.
Whole(b, p) == p <= Len(b) /\ p + b[p][2] - 1 <= Len(b)
Value(b, p) == IF SubSeq(b, p, p + b[p][2] - 1) = Wide(b[p][1], b[p][2]) THEN b[p][1] ELSE Garbage
After(b, p) == p + b[p][2]

Put(out, bytes, room) ==
  IF out = NULL \/ Len(out) + Len(bytes) > room THEN NULL ELSE out \o bytes
-----------------------------------------------------------------------------
(* The settings frame                                                      *)

h3zero_frame_settings == 4

\* The last number stands for 0xc671706a: both have eight bytes.
Key == [table_size |-> 1, blocked_streams |-> 7, enable_connect_protocol |-> 8,
        h3_datagram |-> 51, webtransport_max_sessions |-> 1073741824]
Default(name) == IF name \in {"table_size", "blocked_streams"} THEN UINT64_MAX ELSE 0
Bit(name) == name \in {"enable_connect_protocol", "h3_datagram"}

h3zero_settings_component_encode(out, room, settings, name) ==
  IF settings[name] = Default(name) THEN out
  ELSE Put(Put(out, Varint(Key[name]), room), Varint(settings[name]), room)

Components(out, room, s) ==
  LET C(o, name) == h3zero_settings_component_encode(o, room, s, name)
  IN C(C(C(C(C(out, "table_size"), "blocked_streams"), "enable_connect_protocol"),
         "h3_datagram"), "webtransport_max_sessions")

\* Mutated form: the components stay where they were written.
h3zero_settings_encode_NoMove(s, room) ==
  LET head == Put(Put(<<>>, Varint(h3zero_frame_settings), room), Varint(room), room)
      all == Components(head, room, s)
      length == Varint(Len(all) - Len(head))
  IN IF all = NULL THEN NULL
     ELSE Varint(h3zero_frame_settings) \o length \o SubSeq(all, 2 + Len(length), Len(all))

\* Room is kept for the longest length; the components move up behind the real one.
h3zero_settings_encode(s, room) ==
  LET head == Put(Put(<<>>, Varint(h3zero_frame_settings), room), Varint(room), room)
      all == Components(head, room, s)
      length == Varint(Len(all) - Len(head))
  IN IF all = NULL \/ 1 + Len(length) > Len(head) THEN NULL
     ELSE Varint(h3zero_frame_settings) \o length \o SubSeq(all, Len(head) + 1, Len(all))

\* The keys among bytes p.. of b: whatever stands behind a key is its value.
KeyPlaces(b, p) ==
  LET key[q \in 1..(Len(b) + 1)] ==
        \/ q = p
        \/ \E r \in p..(q - 1) :
             Whole(b, r) /\ Whole(b, After(b, r)) /\ After(b, After(b, r)) = q /\ key[r]
  IN {q \in p..(Len(b) + 1) : key[q]}

\* A cut component is refused; the last of several values counts; a setting nobody
\* mentions is 0.
h3zero_settings_components_decode(b, p) ==
  LET keys == KeyPlaces(b, p)
      places(name) == {q \in keys : q <= Len(b) /\ Value(b, q) = Key[name]}
      value(name) == LET q == CHOOSE r \in places(name) : \A o \in places(name) : o <= r
                     IN Value(b, After(b, q))
  IN IF Len(b) + 1 \notin keys THEN NULL
     ELSE [name \in DOMAIN Key |->
             IF places(name) = {} THEN 0
             ELSE IF Bit(name) THEN value(name) % 2 ELSE value(name)]

h3zero_settings_decode(b) ==
  IF b[1] # <<h3zero_frame_settings, 1, 1>> \/ ~Whole(b, 2) THEN NULL
  ELSE LET first == After(b, 2)
       IN IF first + Value(b, 2) - 1 > Len(b) THEN NULL
          ELSE h3zero_settings_components_decode(SubSeq(b, 1, first + Value(b, 2) - 1), first)

\* h3zero_protocol_init: the settings of this program, with and without datagrams.
OwnSettings(datagrams) ==
  [table_size |-> 0, blocked_streams |-> 0, enable_connect_protocol |-> 1,
   h3_datagram |-> datagrams, webtransport_max_sessions |-> datagrams]
=============================================================================
