-------------------------- MODULE MCClientReceiver --------------------------
(* Streams of a few bytes with any content, for model checking.            *)
EXTENDS ClientReceiver

\* Lengths of one and two bytes, frames of none to two bytes; a byte
\* that starts no length reads as the length of an empty frame.
AnyFrames ==
  {c \in [1..Length -> [width : {1, 2}, value : {0, 1, 2}]] :
     \A p \in 1..Length : p \in Boundary(c) \/ c[p] = [width |-> 1, value |-> 0]}
=============================================================================
