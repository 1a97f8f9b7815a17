---------------------------- MODULE MCWtReceiver ----------------------------
(* Two streams: one of many contents, one with a single frame.             *)
EXTENDS WtReceiver

V(width, value) == [width |-> width, value |-> value, byte |-> "x"]
Mark(b) == [width |-> 8, value |-> MaxLen + 1, byte |-> b]
X == V(1, 0)

Wide(width, value) == <<V(width, value)>> \o [i \in 1..(width - 1) |-> X]
Header(type, session) == Wide(2, type) \o <<V(1, session)>>
Frame(width, length, stamp) ==
  Wide(width, length) \o Wide(stamp, 3) \o [i \in 1..(length - stamp) |-> X]
Jpeg == <<Mark("FF"), Mark("D8"), X, Mark("FF"), Mark("D9")>>

\* Frames in order, one without payload, one shorter than its time stamp, and bytes
\* with JPEG markers, behind a length that makes no sense.
Bodies ==
  {Frame(1, 3, 1) \o Frame(2, 2, 1) \o Frame(1, 2, 1),
   Frame(1, 1, 1) \o Frame(1, 4, 2) \o <<X>>,
   <<V(1, 1)>> \o Wide(2, 0) \o Jpeg,
   <<V(1, 0), X>> \o Jpeg \o <<X>>}

First2 == Header(UniType, Session) \o Frame(1, 2, 1)

\* The second stream carries a frame while the first has frames in order.
SomeContents ==
  {(1 :> Header(UniType, Session) \o b) @@ (2 :> <<>>) : b \in Bodies}
  \cup {(1 :> Header(UniType, Session) \o Frame(1, 3, 1)) @@ (2 :> First2),
        (1 :> Header(UniType, Session + 1) \o Frame(1, 3, 1)) @@ (2 :> <<>>),
        (1 :> Header(33, Session) \o Frame(1, 3, 1)) @@ (2 :> <<>>)}
=============================================================================
