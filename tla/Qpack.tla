------------------------------- MODULE Qpack -------------------------------
(***************************************************************************)
(* Header blocks (src/h3zero.c): the QPACK integers, the functions that    *)
(* write the blocks of requests and responses into a buffer, and           *)
(* h3zero_parse_qpack_header_frame, which reads a block field by field.    *)
(*                                                                         *)
(* A block is a sequence of bytes.  Of a text only its bytes count: the    *)
(* texts of the static table and the names of headers are constants.       *)
(* Methods and content types are known by their place in the static table. *)
(* A value that may be missing is <<v>> or <<>>.                           *)
(***************************************************************************)
EXTENDS Huffman, FiniteSets

CONSTANTS
  StaticText,    \* the content of entries 1, 15..21 and 44..54 of qpack_static
  HeaderName,    \* the names of the headers the parser knows, and of two others
  Allowed,       \* the value of the header "allow"
  DeHuff,        \* 256, the size of the buffer a Huffman string is decoded into
  PeerBlocks,    \* blocks a peer may send: sequences of fields
  Messages,      \* messages the program writes itself
  Rooms          \* sizes of the buffer it writes them into

Known == {"method", "path", "status", "content-type", "protocol", "origin", "range"}
Strings == {"path", "range", "protocol"}
Kept == Strings \cup {"method", "status", "content-type"}

ASSUME TextAssumption ==
  /\ DOMAIN StaticText = {1} \cup 15..21 \cup 44..54 /\ DOMAIN HeaderName = Known \cup {"scheme", "authority"}
  /\ IsInjective(StaticText) /\ IsInjective(HeaderName)

\* What stands for an output that did not fit: no byte is 256.
NULL == <<256>>

VARIABLES
  sent,       \* who wrote the block, and what it stands for
  block,      \* the block that arrived
  pos,        \* the next byte to read, 0 once the block is refused
  parts,      \* h3zero_header_parts_t
  noMemory    \* history: a string found no memory

vars == <<sent, block, pos, parts, noMemory>>
-----------------------------------------------------------------------------
(* The static table                                                        *)

StatusOf ==
  LET at == <<24, 25, 26, 27, 28, 63, 64, 65, 66, 67, 68, 69, 70, 71>>
      is == <<103, 200, 304, 404, 503, 100, 204, 206, 302, 400, 403, 421, 425, 500>>
  IN [i \in {at[k] : k \in DOMAIN at} |-> is[CHOOSE k \in DOMAIN at : at[k] = i]]

NotSupported == 99

StaticHeader(i) ==
  CASE i = 1 -> "path"
    [] i \in 15..21 -> "method"
    [] i \in DOMAIN StatusOf -> "status"
    [] i \in 44..54 -> "content-type"
    [] i = 55 -> "range"
    [] i = 90 -> "origin"
    [] OTHER -> "other"

\* enum_as_int; the two entries for plain text have the same type.
StaticValue(i) ==
  CASE StaticHeader(i) = "path" -> <<StaticText[i]>>
    [] StaticHeader(i) = "status" -> StatusOf[i]
    [] i = 54 -> 53
    [] OTHER -> i

\* The check lets the index behind the last entry pass: what is read there may
\* look like any entry.
Entries(index) == IF index < 99 THEN {index} ELSE IF index = 99 THEN 0..98 ELSE {}

EntryOf(text, entries) ==
  IF \E i \in entries : StaticText[i] = text
  THEN StaticValue(CHOOSE i \in entries : StaticText[i] = text)
  ELSE NotSupported

h3zero_get_method_by_name(name) == EntryOf(name, 15..21)
h3zero_get_content_type_by_name(name) == EntryOf(name, 44..54)

h3zero_parse_status(content) ==
  IF \A i \in DOMAIN content : content[i] \in 48..57
  THEN FoldLeft(LAMBDA v, d : 10 * v + d - 48, 0, content) ELSE -1
-----------------------------------------------------------------------------
(* Integers with a prefix                                                  *)

Groups[n \in Nat] ==
  IF n < 128 THEN <<n>> ELSE <<128 + (n % 128)>> \o Groups[n \div 128]

\* Mutated form: a value that fills the prefix takes one byte.
h3zero_qpack_int_encode_Fills(prefix, mask, val) ==
  IF val <= mask THEN <<prefix + val>> ELSE <<prefix + mask>> \o Groups[val - mask]

\* h3zero_qpack_code_encode with h3zero_qpack_int_encode
h3zero_qpack_int_encode(prefix, mask, val) ==
  IF val < mask THEN <<prefix + val>> ELSE <<prefix + mask>> \o Groups[val - mask]

\* The integer at b[i]: next is 0 if it is cut or longer than 62 bits.
h3zero_qpack_int_decode(b, i, mask) ==
  LET first == b[i] % (mask + 1)
      ends == {k \in (i + 1)..(i + 9) : k <= Len(b) /\ b[k] < 128}
      last == CHOOSE k \in ends : \A l \in ends : k <= l
  IN CASE i > Len(b) -> [next |-> 0, val |-> 0]
       [] i <= Len(b) /\ first # mask -> [next |-> i + 1, val |-> first]
       [] i <= Len(b) /\ first = mask /\ ends = {} -> [next |-> 0, val |-> mask]
       [] OTHER -> [next |-> last + 1,
                    val |-> mask + FoldRight(LAMBDA d, v : (d % 128) + 128 * v,
                                             SubSeq(b, i + 1, last), 0)]
-----------------------------------------------------------------------------
(* Writing a block into a buffer of a given size                           *)

Fill(out, items, room) ==
  FoldLeft(LAMBDA o, item :
             IF o = NULL \/ item = NULL \/ Len(o) + Len(item) > room
             THEN NULL ELSE o \o item,
           out, items)

Prefix == <<0, 0>>
Code(index) == h3zero_qpack_int_encode(192, 63, index)
Text(v) == h3zero_qpack_int_encode(0, 127, Len(v)) \o v
h3zero_qpack_literal_plus_ref_encode(index, v) ==
  h3zero_qpack_int_encode(80, 15, index) \o Text(v)
h3zero_qpack_literal_plus_name_encode(name, v) ==
  h3zero_qpack_int_encode(32, 7, Len(name)) \o name \o Text(v)

\* The first entry with this content type.
h3zero_encode_content_type(type) == IF type \in 44..53 THEN Code(type) ELSE NULL

\* A field that is written if its value is there.
Optional(index, v) ==
  IF v = <<>> THEN <<>> ELSE <<h3zero_qpack_literal_plus_ref_encode(index, v[1])>>

h3zero_create_connect_header_frame(m, room) ==
  Fill(<<>>,
       <<Prefix, Code(15), Code(23), h3zero_qpack_literal_plus_ref_encode(1, m.path)>>
       \o (IF m.protocol = <<>> THEN <<>>
           ELSE <<h3zero_qpack_literal_plus_name_encode(HeaderName["protocol"],
                                                        m.protocol[1])>>)
       \o Optional(0, m.host) \o Optional(90, m.origin) \o Optional(95, m.agent), room)

h3zero_create_post_header_frame_ex(m, room) ==
  Fill(<<>>,
       <<Prefix, Code(20), Code(23), h3zero_qpack_literal_plus_ref_encode(1, m.path)>>
       \o Optional(0, m.host) \o Optional(55, m.range) \o Optional(95, m.agent)
       \o <<h3zero_encode_content_type(m.type)>>, room)

h3zero_create_request_header_frame_ex(m, room) ==
  Fill(<<>>,
       <<Prefix, Code(17), Code(23), h3zero_qpack_literal_plus_ref_encode(1, m.path)>>
       \o Optional(0, m.host) \o Optional(55, m.range) \o Optional(95, m.agent), room)

h3zero_create_response_header_frame_ex(m, room) ==
  Fill(<<>>,
       <<Prefix, Code(25)>> \o Optional(92, m.agent)
       \o (IF m.type = 0 THEN <<>> ELSE <<h3zero_encode_content_type(m.type)>>), room)

Digits(c) == <<48 + (c \div 100), 48 + ((c \div 10) % 10), 48 + (c % 10)>>

\* Mutated form: the server string is not written behind the status.
h3zero_create_error_frame_NoServer(m, room) ==
  LET ref == Fill(<<>>, <<Prefix, h3zero_qpack_int_encode(80, 15, 27)>>, room)
      literal == IF ref = NULL \/ Len(ref) + 4 > room THEN ref
                 ELSE ref \o <<3>> \o Digits(m.code)
      status == IF m.code = 404 THEN Fill(<<>>, <<Prefix, Code(27)>>, room) ELSE literal
  IN Fill(status,
          IF m.code = 405 THEN <<h3zero_qpack_literal_plus_ref_encode(76, Allowed)>>
          ELSE <<>>, room)

\* A status that is written out is left without its value if there is no room for
\* it, and the function goes on: the server string, if there is one, may not fit.
h3zero_create_error_frame(m, room) ==
  LET ref == Fill(<<>>, <<Prefix, h3zero_qpack_int_encode(80, 15, 27)>>, room)
      literal == IF ref = NULL \/ Len(ref) + 4 > room THEN ref
                 ELSE ref \o <<3>> \o Digits(m.code)
      status == IF m.code = 404 THEN Fill(<<>>, <<Prefix, Code(27)>>, room) ELSE literal
  IN Fill(status,
          Optional(92, m.agent)
          \o (IF m.code = 405 THEN <<h3zero_qpack_literal_plus_ref_encode(76, Allowed)>>
              ELSE <<>>), room)

Varint(v) == IF v < 64 THEN <<v>> ELSE <<64 + (v \div 256), v % 256>>
LengthAnd(v) == Varint(Len(v)) \o v

\* The client's own encoder and the block of picowt_connect: plain literals behind
\* a byte that the parser does not take for one; the client writes no prefix.
h3zero_qpack_enc_header(name, v) == <<0>> \o LengthAnd(name) \o LengthAnd(v)
h3zero_client_create_connect_request(m, room) ==
  Fill(<<>>,
       <<h3zero_qpack_enc_header(HeaderName["method"], StaticText[15]),
         h3zero_qpack_enc_header(HeaderName["protocol"], m.protocol[1]),
         h3zero_qpack_enc_header(HeaderName["scheme"], <<104, 116, 116, 112, 115>>),
         h3zero_qpack_enc_header(HeaderName["path"], m.path),
         h3zero_qpack_enc_header(HeaderName["authority"], m.host[1])>>, room)
qpack_min_status_200(m, room) ==
  Fill(<<>>, <<<<0>>, <<0>>, <<16>>, LengthAnd(HeaderName["status"]),
               LengthAnd(Digits(200))>>, room)

Written(m, room) ==
  CASE m.kind = "connect" -> h3zero_create_connect_header_frame(m, room)
    [] m.kind = "post" -> h3zero_create_post_header_frame_ex(m, room)
    [] m.kind = "request" -> h3zero_create_request_header_frame_ex(m, room)
    [] m.kind = "response" -> h3zero_create_response_header_frame_ex(m, room)
    [] m.kind = "error" -> h3zero_create_error_frame(m, room)
    [] m.kind = "client" -> h3zero_client_create_connect_request(m, room)
    [] m.kind = "picowt" -> qpack_min_status_200(m, room)
-----------------------------------------------------------------------------
(* The blocks of a peer, which may use every form and the Huffman code     *)

PeerField(f) ==
  LET coded(v) == IF f.huffman THEN HuffmanEncode(v) ELSE v
      value == h3zero_qpack_int_encode(IF f.huffman THEN 128 ELSE 0, 127,
                                       Len(coded(f.value))) \o coded(f.value)
      name == coded(f.name)
  IN CASE f.form = "indexed" -> Code(f.index)
       [] f.form = "ref" -> h3zero_qpack_int_encode(80, 15, f.index) \o value
       [] f.form = "name" ->
            h3zero_qpack_int_encode(IF f.huffman THEN 40 ELSE 32, 7, Len(name))
            \o name \o value

PeerBlock(fields) == Prefix \o FlattenSeq([i \in DOMAIN fields |-> PeerField(fields[i])])

None(header) == IF header \in Strings THEN <<>> ELSE 0
NoParts == [h \in Kept |-> None(h)]

\* A block of a peer, all of it or its first bytes, or one of the program's own.
Init ==
  /\ \/ \E fields \in PeerBlocks :
          \E cut \in 0..Len(PeerBlock(fields)) :
            /\ sent = [by |-> "peer", fields |-> fields]
            /\ block = SubSeq(PeerBlock(fields), 1, cut)
     \/ \E m \in Messages, room \in Rooms :
          /\ sent = [by |-> "h3zero", message |-> m, room |-> room]
          /\ block = Written(m, room)
  /\ pos = 1 /\ parts = NoParts /\ noMemory = FALSE
-----------------------------------------------------------------------------
(* h3zero_parse_qpack_header_frame, a field at a time                      *)

Parsing == block # NULL /\ pos > 1 /\ pos <= Len(block)
First == block[pos]

Refuse == pos' = 0 /\ UNCHANGED <<sent, block, parts, noMemory>>

\* Mutated form: the first value of a header stays, another one is ignored.
Store_First(header, value, next) ==
  /\ pos' = next
  /\ parts' = IF header \in Kept /\ parts[header] = None(header)
              THEN [parts EXCEPT ![header] = value] ELSE parts
  /\ UNCHANGED <<sent, block, noMemory>>

\* A header that is kept may come once; the parser goes on at next.
Store(header, value, next) ==
  IF header \in Kept /\ parts[header] # None(header)
  THEN Refuse
  ELSE /\ UNCHANGED <<sent, block>>
       /\ \/ /\ pos' = next
             /\ parts' = IF header \in Kept THEN [parts EXCEPT ![header] = value]
                         ELSE parts
             /\ UNCHANGED noMemory
          \/ /\ header \in Strings
             /\ pos' = 0 /\ noMemory' = TRUE /\ UNCHANGED parts

\* The first byte is 0, the delta base is ignored.
ParsePrefix ==
  /\ block # NULL /\ pos = 1
  /\ pos' = IF block = <<>> \/ block[1] # 0 THEN 0
            ELSE h3zero_qpack_int_decode(block, 2, 127).next
  /\ UNCHANGED <<sent, block, parts, noMemory>>

\* The value of some headers is only taken from a literal.
IndexedHeader(i) ==
  IF StaticHeader(i) \in {"range", "origin"} THEN "other" ELSE StaticHeader(i)

\* An index that is cut short reads as its prefix, and the block is refused.
Indexed ==
  /\ Parsing /\ First >= 192
  /\ LET d == h3zero_qpack_int_decode(block, pos, 63)
     IN IF Entries(d.val) = {} THEN Refuse
        ELSE \E i \in Entries(d.val) : Store(IndexedHeader(i), StaticValue(i), d.next)

\* The text behind a length, as it came if it is no Huffman code.
Decoded(raw, huffman) ==
  IF huffman /\ HuffmanDecode(raw, DeHuff).ok THEN HuffmanDecode(raw, DeHuff).out ELSE raw

Converted(header, text) ==
  CASE header = "method" -> h3zero_get_method_by_name(text)
    [] header = "content-type" -> h3zero_get_content_type_by_name(text)
    [] header = "status" -> h3zero_parse_status(text)
    [] header \in Strings -> <<text>>
    [] OTHER -> 0

h3zero_parse_qpack_header_value(at, header) ==
  LET d == h3zero_qpack_int_decode(block, at, 127)
      next == d.next + d.val
      raw == SubSeq(block, d.next, next - 1)
  IN IF at > Len(block) \/ d.next = 0 \/ next > Len(block) + 1 THEN Refuse
     ELSE Store(header, Converted(header, Decoded(raw, block[at] >= 128)), next)

\* 01N1 and the index of a name.
LiteralPlusRef ==
  /\ Parsing /\ First \in 80..95 \cup 112..127
  /\ LET d == h3zero_qpack_int_decode(block, pos, 15)
     IN IF d.next = 0 \/ Entries(d.val) = {} THEN Refuse
        ELSE \E i \in Entries(d.val) :
               h3zero_parse_qpack_header_value(d.next, StaticHeader(i))

h3zero_get_interesting_header_type(name) ==
  IF \E h \in Known : HeaderName[h] = name
  THEN CHOOSE h \in Known : HeaderName[h] = name ELSE "other"

\* 001NH and a name.
LiteralPlusName ==
  /\ Parsing /\ First \in 32..63
  /\ LET d == h3zero_qpack_int_decode(block, pos, 7)
         next == d.next + d.val
         name == Decoded(SubSeq(block, d.next, next - 1), Bit(First, 4) = 1)
     IN IF d.next = 0 \/ next > Len(block) + 1 THEN Refuse
        ELSE h3zero_parse_qpack_header_value(next, h3zero_get_interesting_header_type(name))

\* No other form is expected.
UnexpectedEncoding ==
  /\ Parsing /\ First \notin 32..63 \cup 80..95 \cup 112..127 \cup 192..255
  /\ Refuse

Next ==
  ParsePrefix \/ Indexed \/ LiteralPlusRef \/ LiteralPlusName \/ UnexpectedEncoding

Spec == Init /\ [][Next]_vars

Refused == pos = 0
Accepted == block # NULL /\ pos = Len(block) + 1 /\ pos > 1
-----------------------------------------------------------------------------
(* What a block says, field by field.                                      *)

\* The header a field sets, and its value; only DeHuff octets of a Huffman string.
Says(f) ==
  LET header == IF f.form = "indexed" THEN IndexedHeader(f.index)
                ELSE IF f.form = "ref" THEN StaticHeader(f.index)
                ELSE h3zero_get_interesting_header_type(f.name)
      text == IF f.huffman /\ Len(f.value) > DeHuff THEN SubSeq(f.value, 1, DeHuff) ELSE f.value
  IN [header |-> header,
      value |-> IF f.form = "indexed" THEN StaticValue(f.index)
                ELSE Converted(header, text)]

\* A value that looks like none is taken for none: a status of 0.
Twice(fields) ==
  \E i, j \in DOMAIN fields :
    /\ i < j /\ Says(fields[i]).header = Says(fields[j]).header
    /\ Says(fields[i]).header \in Kept
    /\ Says(fields[i]).value # None(Says(fields[i]).header)

PartsOf(fields) ==
  [h \in Kept |->
     LET values == {Says(fields[i]).value :
                      i \in {k \in DOMAIN fields : Says(fields[k]).header = h}} \ {None(h)}
     IN IF values = {} THEN None(h) ELSE CHOOSE v \in values : TRUE]

InTable(fields) == \A i \in DOMAIN fields : fields[i].form = "name" \/ fields[i].index < 99

\* The fields of the first bytes, if they end where a field ends.
Heads(fields) ==
  {SubSeq(fields, 1, k) : k \in {n \in 0..Len(fields) :
                                  PeerBlock(SubSeq(fields, 1, n)) = block}}

\* Whatever the form of the fields and wherever a block is cut: it is accepted only
\* if it ends with a field and gives no kept header a second value, and then every
\* value is the one sent (a status of 0, "0" or an empty text, does not count and the
\* next one is taken); what is accepted in full is never refused for another reason than
\* memory.  (h3zero_parse_qpack_header_frame: duplicates, lengths past the end.)
FieldsRead ==
  sent.by = "peer" /\ InTable(sent.fields) =>
    LET heads == Heads(sent.fields)
    IN /\ Accepted => \E fields \in heads : ~Twice(fields) /\ parts = PartsOf(fields)
       /\ Refused /\ ~noMemory => \A fields \in heads : Twice(fields)

\* What the message says.
Expected(m) ==
  CASE m.kind \in {"connect", "client"} ->
         [NoParts EXCEPT !["method"] = 15, !["path"] = <<m.path>>, !["protocol"] = m.protocol]
    [] m.kind = "post" ->
         [NoParts EXCEPT !["method"] = 20, !["path"] = <<m.path>>, !["range"] = m.range,
                         !["content-type"] = m.type]
    [] m.kind = "request" ->
         [NoParts EXCEPT !["method"] = 17, !["path"] = <<m.path>>, !["range"] = m.range]
    [] m.kind = "response" ->
         [NoParts EXCEPT !["status"] = 200, !["content-type"] = m.type]
    [] m.kind \in {"error", "picowt"} -> [NoParts EXCEPT !["status"] = m.code]

\* The status of an error frame alone, without its value.
StatusAlone(m, room) ==
  m.kind = "error" /\ m.agent = <<>> /\ m.code \notin {404, 405} /\ room \in 4..7

\* Whatever the room: a block the program writes is whole and its own parser reads
\* the message back, or there was not room for it and nothing is sent.  One exception
\* is a status alone, which gets out if no server string follows it: that is refused.
\* The blocks of the client and of picowt_connect are in another form and are refused
\* too; only a client's with 45 bytes or more of path and host may be accepted as
\* something else, where the parser's idea of its first field has room to end.
\* (h3zero_create_..., h3zero_client_create_connect_request, qpack_min_status_200)
WrittenIsRead ==
  sent.by = "h3zero" =>
    LET m == sent.message
        alone == StatusAlone(m, sent.room)
    IN /\ block = NULL <=> sent.room < Len(Written(m, 10000)) /\ ~alone
       /\ Refused => noMemory \/ alone \/ m.kind \in {"client", "picowt"}
       /\ Accepted => \/ parts = Expected(m)
                      \/ m.kind = "client" /\ Len(m.path) + Len(m.host[1]) >= 45
=============================================================================
