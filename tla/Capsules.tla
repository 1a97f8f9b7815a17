------------------------------ MODULE Capsules ------------------------------
(***************************************************************************)
(* The signalling of a WebTransport session: the three streams that        *)
(* h3zero_protocol_init begins, and the capsules on the session's own      *)
(* stream (src/pico_webtransport.c, src/h3zero_common.c).                  *)
(*                                                                         *)
(* Of the two readers h3zero_accumulate_capsule takes what arrives chunk   *)
(* by chunk and keeps a capsule until it is whole; picowt_receive_capsule  *)
(* wants a capsule in one piece.  Both are called by an application: the   *)
(* one here releases a capsule that is stored before it goes on, and gives *)
(* up when a call fails.                                                   *)
(***************************************************************************)
EXTENDS H3Settings

CONSTANTS
  Peer,        \* capsules of a peer: [type, tw, lw, value], with the widths it chose
  Closings,    \* messages of picowt_send_close_session_message: [code, msg]
  BufSize,     \* the size of its buffer, 1024
  Others,      \* settings an application may encode
  Rooms,       \* and the buffers it may have for them
  Chunks,      \* the sizes of chunks
  MaxSent      \* bound: the capsules on the stream

ASSUME NumbersAssumption == BufSize \in Nat /\ MaxSent \in Nat /\ Chunks \subseteq Nat \ {0}

\* A varint has one of four widths; a code has four bytes.
Octets == 0..255
CapsuleSet == [type : Nat, tw : {1, 2, 4, 8}, lw : {1, 2, 4, 8}, value : Seq(Octets)]
ASSUME CapsulesAssumption ==
  /\ Peer \subseteq CapsuleSet
  /\ \A m \in Closings : m.code \in Seq(Octets) /\ Len(m.code) = 4 /\ m.msg \in Seq(Octets)

\* Settings: flags, and what a varint can hold; a value that is not announced is
\* UINT64_MAX or 0.
Number == {v \in Nat : v < UINT64_MAX}
SettingsSet ==
  [table_size : Number \cup {UINT64_MAX}, blocked_streams : Number \cup {UINT64_MAX},
   enable_connect_protocol : {0, 1}, h3_datagram : {0, 1}, webtransport_max_sessions : Number]
ASSUME SettingsAssumption == Others \subseteq SettingsSet /\ Rooms \subseteq Nat

\* Types: 0x2843 and 0x78ae.
Close == 10307
Drain == 30894

VARIABLES
  begun,       \* what h3zero_protocol_init did: [own, streams]
  encoded,     \* an application's settings: [settings, room, frame]
  sent, wire,  \* history: the capsules sent; the bytes of the stream
  pos, hand,   \* the bytes read by h3zero_accumulate_capsule, and handed over
  capsule,     \* h3zero_capsule_t
  got,         \* history: the capsules that were stored
  failed,      \* why the reader gave up: "no", "NULL", "memory"
  told         \* what picowt_receive_capsule made of the first bytes of the stream

startVars == <<begun, encoded>>
writeVars == <<sent, wire>>
readVars == <<pos, hand, capsule, got, failed>>
capsulesVars == <<startVars, writeVars, readVars, told>>

\* The parts of header_buffer and capsule_buffer in use; allocated: there is the latter.
Released == [header |-> <<>>, type |-> 0, length |-> 0, is_length_known |-> FALSE,
             allocated |-> FALSE, value |-> <<>>, is_stored |-> FALSE]

CapsulesInit ==
  /\ begun = <<>> /\ encoded = <<>>
  /\ sent = <<>> /\ wire = <<>> /\ pos = 0 /\ hand = 0
  /\ capsule = Released /\ got = <<>> /\ failed = "no" /\ told = <<>>
-----------------------------------------------------------------------------
(* The beginning of the connection                                         *)

\* h3zero_protocol_init: a stream that cannot be written to, or given its priority, ends
\* it; the streams before it are there.  A stream begins with its type; the settings
\* follow on the control stream.
ProtocolInit ==
  /\ begun = <<>> /\ encoded = <<>>
  /\ \E datagrams \in {0, 1}, n \in 0..3 :
       LET frame == h3zero_settings_encode(OwnSettings(datagrams), 255)
           streams == <<Varint(0) \o frame, Varint(2), Varint(3)>>
       IN begun' = [own |-> OwnSettings(datagrams),
                    streams |-> SubSeq(streams, 1, IF frame = NULL THEN 0 ELSE n)]
  /\ UNCHANGED <<encoded, writeVars, readVars, told>>

\* h3zero_settings_encode, called by an application.
Encode ==
  /\ encoded = <<>> /\ begun = <<>>
  /\ \E s \in Others, room \in Rooms :
       encoded' = [settings |-> s, room |-> room, frame |-> h3zero_settings_encode(s, room)]
  /\ UNCHANGED <<begun, writeVars, readVars, told>>
-----------------------------------------------------------------------------
(* The writers                                                             *)

Bytes(values) == [i \in DOMAIN values |-> <<values[i], 1, 1>>]
Capsule(c) == Wide(c.type, c.tw) \o Wide(Len(c.value), c.lw) \o Bytes(c.value)

\* There is a session, and the stream takes the bytes.
Send(c, bytes) ==
  /\ begun # <<>> /\ Len(begun.streams) = 3 /\ begun.own.h3_datagram = 1
  /\ Len(sent) < MaxSent
  /\ sent' = Append(sent, c) /\ wire' = wire \o bytes
  /\ UNCHANGED <<startVars, readVars, told>>

Short(type, value) == [type |-> type, tw |-> Width(type), lw |-> Width(Len(value)), value |-> value]

\* picowt_send_close_session_message: a message that does not fit is not sent at all.
SendClose(m) ==
  LET c == Short(Close, m.code \o m.msg)
      header == Varint(Close) \o Varint(Len(m.code) + Len(m.msg))
  IN /\ BufSize - Len(header) >= Len(m.code) + Len(m.msg)
     /\ Send(c, header \o Bytes(m.code \o m.msg))

\* picowt_send_drain_session_message
SendDrain == Send(Short(Drain, <<>>), Varint(Drain) \o Varint(0))

\* A capsule of a peer, in any width.
PeerCapsule(c) == Send(c, Capsule(c))
-----------------------------------------------------------------------------
(* h3zero_accumulate_capsule                                               *)

InCall == pos < hand
Smaller(a, b) == IF a < b THEN a ELSE b

Deliver(n) ==
  /\ ~InCall /\ failed = "no" /\ hand + n <= Len(wire)
  /\ hand' = hand + n
  /\ UNCHANGED <<startVars, writeVars, pos, capsule, got, failed, told>>

\* Mutated form: a header that a chunk cuts is begun afresh with the next one.
Header_Afresh(upto) == SubSeq(wire, pos + 1, Smaller(hand, pos + upto))

\* The header, grown to `upto' bytes or to the end of the chunk.
Header(upto) ==
  capsule.header \o SubSeq(wire, pos + 1, Smaller(hand, pos + upto - Len(capsule.header)))

\* Type and first byte of the length, then the rest of the length, each as far as the
\* chunk goes.
WithHeader ==
  IF capsule.is_length_known THEN capsule
  ELSE LET typed == Header(Header(1)[1][2] + 1)
           p == After(typed, 1)
           header == IF p <= Len(typed) THEN Header(p + typed[p][2] - 1) ELSE typed
           known == Whole(header, 1) /\ Whole(header, p)
       IN [capsule EXCEPT !.header = header, !.is_length_known = known,
                          !.type = IF Whole(header, 1) THEN Value(header, 1) ELSE 0,
                          !.length = IF known THEN Value(header, p) ELSE 0]

Behind == pos + Len(WithHeader.header) - Len(capsule.header)
Accumulating == InCall /\ ~capsule.is_stored /\ failed = "no"

HeaderCut ==
  /\ Accumulating /\ ~WithHeader.is_length_known
  /\ capsule' = WithHeader /\ pos' = Behind
  /\ UNCHANGED <<startVars, writeVars, hand, got, failed, told>>

\* A capsule of length 0 has no buffer, and neither has one that finds no memory: NULL.
NoBuffer ==
  /\ Accumulating /\ WithHeader.is_length_known /\ ~capsule.allocated
  /\ \/ WithHeader.length = 0 /\ failed' = "NULL"
     \/ WithHeader.length > 0 /\ failed' = "memory"
  /\ capsule' = WithHeader
  /\ UNCHANGED <<startVars, writeVars, pos, hand, got, told>>

\* As much of the value as the chunk has and the capsule wants.
Take ==
  /\ Accumulating /\ WithHeader.is_length_known /\ WithHeader.length > 0
  /\ LET n == Smaller(hand - Behind, WithHeader.length - Len(capsule.value))
         value == capsule.value \o SubSeq(wire, Behind + 1, Behind + n)
     IN /\ capsule' = [WithHeader EXCEPT !.allocated = TRUE, !.value = value,
                         !.is_stored = Len(value) >= WithHeader.length]
        /\ pos' = Behind + n
  /\ UNCHANGED <<startVars, writeVars, hand, got, failed, told>>

\* h3zero_release_capsule, by the application, which has used the capsule then.
Release ==
  /\ capsule.is_stored
  /\ got' = Append(got, [type |-> capsule.type, value |-> capsule.value])
  /\ capsule' = Released
  /\ UNCHANGED <<startVars, writeVars, pos, hand, failed, told>>
-----------------------------------------------------------------------------
(* picowt_receive_capsule                                                  *)

\* picowt_capsule_t as it is cleared: the type is written nowhere in it.
NoCode == Bytes(<<0, 0, 0, 0>>)
NoCapsule == [ret |-> -1, code |-> NoCode, msg |-> <<>>]

\* Mutated form: a value that is cut is taken for a shorter one.
picowt_receive_capsule_Cut(b) ==
  IF ~(Whole(b, 1) /\ Whole(b, After(b, 1))) THEN NoCapsule
  ELSE LET p == After(b, After(b, 1))
           l == Smaller(Value(b, After(b, 1)), Len(b) - p + 1)
       IN IF Value(b, 1) = Close /\ l < 4 THEN NoCapsule
          ELSE [ret |-> 0,
                code |-> IF Value(b, 1) = Close THEN SubSeq(b, p, p + 3) ELSE NoCode,
                msg |-> IF Value(b, 1) = Close THEN SubSeq(b, p + 4, p + l - 1) ELSE <<>>]

\* Only a capsule that closes the session is looked into.
picowt_receive_capsule(b) ==
  IF ~(Whole(b, 1) /\ Whole(b, After(b, 1))) THEN NoCapsule
  ELSE LET p == After(b, After(b, 1))
           l == Value(b, After(b, 1))
       IN IF Len(b) - p + 1 < l \/ (Value(b, 1) = Close /\ l < 4) THEN NoCapsule
          ELSE [ret |-> 0,
                code |-> IF Value(b, 1) = Close THEN SubSeq(b, p, p + 3) ELSE NoCode,
                msg |-> IF Value(b, 1) = Close THEN SubSeq(b, p + 4, p + l - 1) ELSE <<>>]

\* An application that gathered the first n bytes itself.
ReceiveCapsule(n) ==
  /\ hand = 0 /\ told = <<>> /\ n <= Len(wire)
  /\ told' = [n |-> n, is |-> picowt_receive_capsule(SubSeq(wire, 1, n))]
  /\ UNCHANGED <<startVars, writeVars, readVars>>

CapsulesNext ==
  \/ ProtocolInit \/ Encode
  \/ told = <<>> /\ hand = 0 /\ (\/ \E m \in Closings : SendClose(m)
                                 \/ SendDrain
                                 \/ \E c \in Peer : PeerCapsule(c))
  \/ told = <<>> /\ \E n \in Chunks : Deliver(n)
  \/ HeaderCut \/ NoBuffer \/ Take \/ Release
  \/ \E n \in 0..Len(wire) : ReceiveCapsule(n)

CapsulesSpec == CapsulesInit /\ [][CapsulesNext]_capsulesVars
-----------------------------------------------------------------------------
\* What a peer reads: a setting with its default is not sent.
Announced(s) == [name \in DOMAIN s |-> IF s[name] = UINT64_MAX THEN 0 ELSE s[name]]

Understood(frame, s) ==
  /\ h3zero_settings_decode(frame) = Announced(s)
  /\ \A n \in 1..(Len(frame) - 1) : h3zero_settings_decode(SubSeq(frame, 1, n)) = NULL

\* A peer that has the settings frame reads the settings that were encoded, and refuses
\* every beginning of it; the frame stays in its buffer.  It comes on the first stream,
\* behind the type of the control stream: whoever sees another stream begun can rely on
\* it.  A frame is refused only where the room kept for its length makes it too large.
SettingsUnderstood ==
  /\ begun # <<>> =>
       \A i \in DOMAIN begun.streams :
         LET s == begun.streams[1]
         IN s[1] = <<0, 1, 1>> /\ Understood(Tail(s), begun.own)
  /\ encoded # <<>> =>
       IF encoded.frame = NULL
       THEN LET least == h3zero_settings_encode(encoded.settings, 200)
            IN encoded.room < Len(least) + Width(encoded.room)
       ELSE /\ Len(encoded.frame) <= encoded.room
            /\ Understood(encoded.frame, encoded.settings)

Empty == {i \in DOMAIN sent : sent[i].value = <<>>}
Read(c) == [type |-> c.type, value |-> Bytes(c.value)]

\* The capsules of a session are handed on whole, each once and in order, however the
\* bytes are cut and whatever widths their headers have.  The reader gives up at the
\* first capsule without a value (and when there is no memory); short of that, all that
\* arrived whole has been read.
CapsulesRead ==
  /\ LET n == Len(got)
     IN n <= Len(sent) /\ got = [i \in 1..n |-> Read(sent[i])]
  /\ failed = "NULL" => Len(got) + 1 \in Empty
  /\ (pos = Len(wire) /\ failed = "no" /\ ~capsule.is_stored) => Len(got) = Len(sent)

\* A session that is closed with a code and a message is reported with these by
\* picowt_receive_capsule, and nothing is by a part of a capsule or by a close that has
\* no code.  Of any other capsule, and of a close with code 0 and no message, all that is
\* said is that it is whole.
CloseReported ==
  told # <<>> =>
    LET c == sent[1]
        whole == sent # <<>> /\ told.n >= c.tw + c.lw + Len(c.value)
        coded == Len(c.value) >= 4
    IN /\ told.is.ret = 0 <=> whole /\ (c.type = Close => coded)
       /\ Len(told.is.code) = 4
       /\ told.is.code \o told.is.msg =
            IF whole /\ c.type = Close /\ coded THEN Bytes(c.value) ELSE NoCode
=============================================================================
