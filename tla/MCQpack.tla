------------------------------ MODULE MCQpack ------------------------------
(* Blocks of up to two fields of a peer, and the messages of the program.  *)
EXTENDS Qpack

Spelled(length, with) == [i \in 1..length |-> with]

\* Texts as long as those of the source, each of a letter of its own.
Texts ==
  LET methods == <<7, 6, 3, 4, 7, 4, 3>>
      types == <<23, 22, 16, 33, 9, 10, 9, 8, 24, 10, 24>>
  IN [i \in {1} \cup 15..21 \cup 44..54 |->
        CASE i = 1 -> Spelled(1, 47)
          [] i \in 15..21 -> Spelled(methods[i - 14], 50 + i)
          [] i \in 44..54 -> Spelled(types[i - 43], 50 + i)]

\* ":method", which the client's block begins with, as it is.
Names ==
  LET others == [path |-> 5, status |-> 7, protocol |-> 9, origin |-> 6, range |-> 5,
                 scheme |-> 7, authority |-> 10]
      letters == [path |-> 112, status |-> 115, protocol |-> 116, origin |-> 111,
                  range |-> 114, scheme |-> 104, authority |-> 97]
  IN [h \in Known \cup {"scheme", "authority"} |->
        CASE h = "content-type" -> Spelled(12, 99)
          [] h = "method" -> <<58, 109, 101, 116, 104, 111, 100>>
          [] OTHER -> Spelled(others[h], letters[h])]

Agent10 == Spelled(10, 72)
Allow18 == Spelled(18, 71)

F(form, index, name, value, huffman) ==
  [form |-> form, index |-> index, name |-> name, value |-> value, huffman |-> huffman]
Index(i) == F("indexed", i, <<>>, <<>>, FALSE)
Ref(i, v, h) == F("ref", i, <<>>, v, h)
Named(n, v, h) == F("name", 0, n, v, h)

Fields ==
  {Index(i) : i \in {1, 17, 23, 25, 54, 55, 71, 98}}
  \cup {Ref(1, Spelled(n, 97), h) : n \in {0, 1}, h \in BOOLEAN}
  \cup {Ref(17, Texts[20], h) : h \in BOOLEAN}
  \cup {Ref(17, <<65>>, FALSE), Ref(27, <<52, 48, 53>>, FALSE), Ref(27, <<48>>, FALSE),
        Ref(27, <<>>, FALSE), Ref(27, <<65>>, TRUE), Ref(44, Texts[54], TRUE),
        Ref(90, <<97>>, FALSE)}
  \cup {Named(Names["protocol"], <<119, 116>>, h) : h \in BOOLEAN}
  \cup {Named(Names["range"], <<98>>, FALSE), Named(Names["path"], <<>>, TRUE),
        Named(<<120>>, <<121>>, FALSE), Named(<<>>, <<121>>, TRUE)}

\* Every octet in the Huffman code, lengths around those of the prefixes, and the
\* index behind the table.
Alone ==
  {Ref(1, <<c>>, TRUE) : c \in 0..255}
  \cup {Ref(1, Spelled(n, 97), h) : n \in {126, 127, 128, 300}, h \in {FALSE}}
  \cup {Ref(55, Spelled(n, 32), TRUE) : n \in 25..27}
  \cup {Index(99), Index(100)}

Blocks ==
  {<<>>} \cup {<<f>> : f \in Fields \cup Alone} \cup {<<f, g>> : f, g \in Fields}

M(kind, path, protocol, host, origin, range, type, code, agent) ==
  [kind |-> kind, path |-> path, protocol |-> protocol, host |-> host, origin |-> origin,
   range |-> range, type |-> type, code |-> code, agent |-> agent]

Agents == {<<>>, <<Agent10>>}

\* A client's block ends where its first field does, as the parser reads it, if path
\* and host have 45 bytes.
Own ==
  {M("connect", p, pr, h, o, <<>>, 0, 0, a) :
     p \in {<<>>, <<47>>, Spelled(127, 97)}, pr \in {<<>>, <<Spelled(12, 119)>>},
     h \in {<<>>, <<<<97>>>>}, o \in {<<>>, <<<<98>>>>}, a \in Agents}
  \cup {M(k, <<47>>, <<>>, h, <<>>, r, t, 0, a) :
          k \in {"post", "request"}, h \in {<<>>, <<<<97>>>>},
          r \in {<<>>, <<<<98, 99>>>>}, t \in {44, 53}, a \in Agents}
  \cup {M("response", <<>>, <<>>, <<>>, <<>>, <<>>, t, 0, a) :
          t \in {0, 49, 52}, a \in Agents}
  \cup {M("error", <<>>, <<>>, <<>>, <<>>, <<>>, 0, c, a) :
          c \in {404, 405, 501}, a \in Agents}
  \cup {M("client", Spelled(p, 97), <<Spelled(12, 119)>>, <<Spelled(h, 97)>>, <<>>, <<>>,
          0, 0, <<>>) : p \in {1, 20, 25, 40, 41, 65}, h \in {4, 20}}
  \cup {M("picowt", <<>>, <<>>, <<>>, <<>>, <<>>, 0, 200, <<>>)}

SomeRooms == 0..60 \cup {160, 175, 200}
=============================================================================
