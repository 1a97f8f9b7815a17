---------------------------- MODULE MCCapsules ----------------------------
(* Up to two capsules, of this program and of a peer with wider headers.   *)
EXTENDS Capsules

P(type, tw, lw, length) ==
  [type |-> type, tw |-> tw, lw |-> lw, value |-> [i \in 1..length |-> 20 + (i % 40)]]

\* Datagrams, a type nobody knows, closings with and without room for a code.
SomePeer ==
  {P(0, 1, 1, 1), P(0, 1, 2, 0), P(0, 4, 1, 2), P(63, 8, 8, 3), P(Close, 2, 4, 3),
   P(Close, 4, 1, 5), P(0, 1, 2, 64)}

\* The last two lengths fill the buffer, and exceed it.
SomeClosings ==
  {[code |-> <<0, 1, 2, 3>>, msg |-> [i \in 1..n |-> 10 + (i % 30)]] : n \in {0, 1, 60, 72, 73}}

\* Values at the widths of varints.
SomeSettings ==
  {[table_size |-> t, blocked_streams |-> b, enable_connect_protocol |-> e,
    h3_datagram |-> 1 - e, webtransport_max_sessions |-> w] :
     t \in {0, 63, 64, UINT64_MAX}, b \in {0, 16383, 16384, UINT64_MAX}, e \in {0, 1},
     w \in {0, 1, 1073741823, 1073741824}}
=============================================================================
