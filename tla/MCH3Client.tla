----------------------------- MODULE MCH3Client -----------------------------
(* Streams of a few frames, for model checking.                            *)
EXTENDS H3Client

F(type, width, length) == [type |-> type, width |-> width, length |-> length, block |-> TRUE]

\* Frames that are in order somewhere, and those that never are; type and length
\* take width bytes each.
Good == {F(FrameData, 1, 0), F(FrameData, 1, 2), F(FrameHeader, 1, 1), F(33, 2, 1)}
Bad == {F(FrameHeader, 1, 0), [F(FrameHeader, 1, 1) EXCEPT !.block = FALSE],
        F(FrameHeader, 2, 3), F(FrameSettings, 1, 0), F(FrameGoaway, 1, 0),
        F(FrameWebtransport, 2, 1)}

\* The bytes of a frame.
Bytes(f) ==
  LET plain == [width |-> 1, value |-> 0, block |-> TRUE]
      varint(v) == [i \in 1..f.width |->
                      IF i = 1 THEN [plain EXCEPT !.width = f.width, !.value = v] ELSE plain]
      body == [i \in 1..f.length |-> [plain EXCEPT !.block = f.block]]
  IN varint(f.type) \o varint(f.length) \o body

\* Up to two good frames, the first of two a header, then one of any kind and the
\* beginning of a long frame; and a trailer.
SomeStreams ==
  LET header == F(FrameHeader, 1, 1)
      prefixes == {<<>>} \cup {<<f>> : f \in Good} \cup {<<header, f>> : f \in Good}
                    \cup {<<header, F(FrameData, 1, 0)>>}
      bytes(p) == FlattenSeq([i \in DOMAIN p |-> Bytes(p[i])])
  IN {SubSeq(bytes(p) \o Bytes(f) \o Bytes(F(33, 1, Length)), 1, Length) :
        p \in prefixes, f \in Good \cup Bad}

\* A body to send, a file to write, a callback beside a file, and upgrades that are
\* accepted or refused.
SomeRequests ==
  LET Plain == [path_callback |-> FALSE, to_disk |-> FALSE, post_size |-> 0,
                is_upgrade_requested |-> FALSE, is_success |-> TRUE]
  IN {[Plain EXCEPT !.post_size = 2],
      [Plain EXCEPT !.to_disk = TRUE],
      [Plain EXCEPT !.path_callback = TRUE, !.to_disk = TRUE, !.is_success = FALSE],
      [Plain EXCEPT !.path_callback = TRUE, !.is_upgrade_requested = TRUE],
      [Plain EXCEPT !.path_callback = TRUE, !.is_upgrade_requested = TRUE,
                    !.is_success = FALSE]}
=============================================================================
