-------------------------- MODULE MCH3RemoteStream --------------------------
(* A few short streams from the peer, for model checking: two control      *)
(* streams, or WebTransport and other streams of both kinds.               *)
EXTENDS H3RemoteStream

CONSTANTS u1, u2, b1

V(width, value) ==
  <<[width |-> width, value |-> value, block |-> TRUE]>>
    \o [i \in 1..(width - 1) |-> [width |-> 1, value |-> 0, block |-> TRUE]]
Body(n, ok) == [i \in 1..n |-> [width |-> 1, value |-> 0, block |-> ok]]

\* Cut to six bytes, or filled up with bytes that mean nothing in particular.
Fit(bytes) == SubSeq(bytes \o Body(6, TRUE), 1, 6)

Settings(n, ok) == V(1, FrameSettings) \o V(1, n) \o Body(n, ok)
Goaway == V(1, 7) \o V(2, 1) \o Body(1, TRUE)

Controls ==
  {Fit(V(1, StreamControl) \o b) :
     b \in {Settings(1, TRUE) \o Goaway, Settings(1, TRUE) \o V(1, FrameHeader),
            Settings(1, FALSE), Settings(2, TRUE), Settings(0, TRUE), Settings(3, TRUE)}}
Unidir == {Fit(V(2, StreamWebtransport) \o V(2, 0)), Fit(V(2, StreamWebtransport) \o V(1, 1)),
           Fit(V(1, 2))}
Bidir == {Fit(V(2, FrameWebtransport) \o V(1, 0)), Fit(V(2, FrameWebtransport) \o V(2, 1)),
          Fit(V(1, 9))}

SomeContents ==
  {[s \in {u1, u2} |-> IF s = u1 THEN c1 ELSE c2] : c1 \in Controls, c2 \in Controls}
  \cup {[s \in {u1, b1} |-> IF s = u1 THEN c1 ELSE c2] : c1 \in Unidir, c2 \in Bidir}
=============================================================================
