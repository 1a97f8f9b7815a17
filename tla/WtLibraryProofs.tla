---------------------------- MODULE WtLibraryProofs -------------------------
(***************************************************************************)
(* Proofs about WtPrefixes and WtDatagrams, for any sessions, any number   *)
(* of nodes and declarations, and any number of waiting datagrams; and     *)
(* about Capsules, for any capsules in any number and any chunks, and for  *)
(* any settings and buffers.                                               *)
(***************************************************************************)
EXTENDS WtDatagrams, Capsules, SequenceTheorems, FiniteSetTheorems, TLAPS

\* The list is a sequence of nodes: s is what one meets from the first to the last, and
\* backwards; no prefix is twice in it, and nothing else is alive.
IsList(s) ==
  /\ s \in Seq(Nodes)
  /\ first = IF s = <<>> THEN None ELSE s[1]
  /\ last = IF s = <<>> THEN None ELSE s[Len(s)]
  /\ \A i \in 1..Len(s) :
       /\ next[s[i]] = IF i = Len(s) THEN None ELSE s[i + 1]
       /\ previous[s[i]] = IF i = 1 THEN None ELSE s[i - 1]
  /\ \A i, j \in 1..Len(s) : s[i][1] = s[j][1] => i = j
  /\ \A n \in Nodes : n \in allocated \ Range(deleting) <=> \E i \in 1..Len(s) : s[i] = n

\* Nodes out of memory are blank, and those being deleted are in memory, one for each
\* call.
NodesInv ==
  /\ next \in [Nodes -> Nodes \cup {None}] /\ previous \in [Nodes -> Nodes \cup {None}]
  /\ allocated \subseteq Nodes /\ deleting \in Seq(allocated)
  /\ \A n \in Nodes \ allocated : next[n] = None /\ previous[n] = None
  /\ \A i, j \in 1..Len(deleting) : deleting[i] = deleting[j] => i = j

ListInv == NodesInv /\ \E s \in Seq(Nodes) : IsList(s)

\* The nodes behind n in the list.
From(n) ==
  {m \in allocated :
     \A S \in SUBSET allocated :
       (n # None => n \in S) /\ (\A k \in S : next[k] # None => next[k] \in S) => m \in S}

\* The sessions that are marked are those still to be asked, or still_active holds; at
\* the end of the loops those behind the one that sent before have been asked.
LoopInv ==
  LET marked == {n \in Linked : ready_to_send_datagrams[n]}
      behind == From(next[previous_prefix_ctx])
  IN /\ loop = "none" => marked = {} \/ datagram_ready
     /\ loop \in {"behind", "around"} /\ previous_prefix_ctx # None =>
          /\ previous_prefix_ctx \in Linked
          /\ loop = "behind" => marked \cap behind \subseteq From(prefix_ctx) \/ still_active
          /\ loop = "around" => \/ still_active
                                \/ marked \subseteq From(prefix_ctx) /\ marked \cap behind = {}
     /\ loop = "mark" => marked = {} \/ still_active

PollInv ==
  /\ ready_to_send_datagrams \in [Nodes -> BOOLEAN]
  /\ \A n \in Nodes \ allocated : ~ready_to_send_datagrams[n]
  /\ datagram_ready \in BOOLEAN /\ still_active \in BOOLEAN
  /\ loop \in {"none", "behind", "around", "sent", "recheck", "mark"}
  /\ prefix_ctx \in Linked \cup {None} /\ previous_prefix_ctx \in Linked \cup {None}
  /\ waiting \in [Sessions -> Nat] /\ unheard \subseteq Sessions
  /\ loop # "none" => deleting = <<>> /\ teardown = "no"
  /\ loop = "none" => prefix_ctx = None /\ previous_prefix_ctx = None

\* Only a session in the list has something to send, and none that was not asked is
\* unheard.
WaitingInv ==
  /\ \A p \in Sessions : waiting[p] > 0 => \E n \in Linked : n[1] = p
  /\ \A n \in Linked :
       waiting[n[1]] > 0 /\ n[1] \notin unheard => ready_to_send_datagrams[n]

\* A sequence without its k-th element.
Without(s, k) == [j \in 1..(Len(s) - 1) |-> IF j < k THEN s[j] ELSE s[j + 1]]

IndInv == ListInv /\ PollInv /\ WaitingInv /\ LoopInv
-----------------------------------------------------------------------------
(* Numbers, sequences and nodes                                            *)

\* A set of numbers has a least element.
LEMMA Least ==
  ASSUME NEW S \in SUBSET Nat, S # {}
  PROVE  \E m \in S : \A k \in S : m <= k
<1>1. PICK m \in S : \A k \in S : <<k, m>> \notin OpToRel(<, Nat)
  BY NatLessThanWellFounded, WFMin, Zenon
<1>2. \A k \in S : ~(k < m)
  <2> SUFFICES ASSUME NEW k \in S, k < m PROVE FALSE
    BY Zenon
  <2>1. <<k, m>> \in Nat \X Nat /\ <<k, m>>[1] = k /\ <<k, m>>[2] = m
    OBVIOUS
  <2>2. <<k, m>> \in OpToRel(<, Nat)
    BY <2>1, Zenon DEF OpToRel
  <2> QED
    BY <1>1, <2>2, Zenon
<1> QED
  BY <1>2

\* A function on the first m numbers is a sequence, the first m elements of one are one,
\* and the front of one has all but the last.
LEMMA FunctionIsSeq ==
  ASSUME NEW S, NEW m \in Nat, NEW t \in [1..m -> S]
  PROVE  t \in Seq(S) /\ Len(t) = m
OBVIOUS

LEMMA PrefixOfSeq ==
  ASSUME NEW S, NEW t, NEW m \in Nat, \A i \in 1..m : t[i] \in S
  PROVE  /\ SubSeq(t, 1, m) \in Seq(S) /\ Len(SubSeq(t, 1, m)) = m
         /\ \A i \in 1..m : SubSeq(t, 1, m)[i] = t[i]
<1> DEFINE u == SubSeq(t, 1, m)
<1>1. m \in Int /\ 1 \in Int
  OBVIOUS
<1>2. /\ u \in Seq(S)
      /\ Len(u) = IF 1 <= m THEN m - 1 + 1 ELSE 0
      /\ \A i \in 1..(m - 1 + 1) : u[i] = t[1 + i - 1]
  BY <1>1, SubSeqProperties
<1>3. m - 1 + 1 = m /\ \A i \in 1..m : i \in 1..(m - 1 + 1) /\ 1 + i - 1 = i
  OBVIOUS
<1> HIDE DEF u
<1>4. u \in Seq(S) /\ Len(u) = m
  BY <1>2
<1>5. \A i \in 1..m : u[i] = t[i]
  BY <1>2, <1>3, Zenon
<1> QED
  BY <1>4, <1>5 DEF u

LEMMA FrontOfSeq ==
  ASSUME NEW S, NEW t \in Seq(S), t # <<>>
  PROVE  /\ Front(t) \in Seq(S) /\ Len(Front(t)) = Len(t) - 1
         /\ \A i \in 1..(Len(t) - 1) : Front(t)[i] = t[i]
<1> DEFINE m == Len(t) - 1
<1>1. m \in Nat /\ \A i \in 1..m : t[i] \in S
  OBVIOUS
<1>2. Front(t) = SubSeq(t, 1, m)
  BY DEF Front
<1> HIDE DEF m
<1>3. /\ SubSeq(t, 1, m) \in Seq(S) /\ Len(SubSeq(t, 1, m)) = m
      /\ \A i \in 1..m : SubSeq(t, 1, m)[i] = t[i]
  BY <1>1, PrefixOfSeq
<1>4. Front(t) \in Seq(S) /\ Len(Front(t)) = m /\ \A i \in 1..m : Front(t)[i] = t[i]
  BY <1>2, <1>3, Zenon
<1> QED
  BY <1>4, Zenon DEF m

LEMMA EmptyRange == Range(<<>>) = {}
<1>1. <<>> \in Seq({}) /\ Len(<<>>) = 0
  OBVIOUS
<1>2. Range(<<>>) = {<<>>[i] : i \in 1..Len(<<>>)}
  BY <1>1, RangeEquality
<1> QED
  BY <1>1, <1>2

LEMMA RangeOfAppend ==
  ASSUME NEW S, NEW t \in Seq(S), NEW e \in S
  PROVE  Range(Append(t, e)) = Range(t) \cup {e}
<1> DEFINE u == Append(t, e)
<1>1. u \in Seq(S) /\ Len(u) = Len(t) + 1 /\ u[Len(t) + 1] = e /\ Len(t) \in Nat
      /\ \A i \in 1..Len(t) : u[i] = t[i]
  OBVIOUS
<1> HIDE DEF u
<1>2. Range(u) = {u[i] : i \in 1..Len(u)} /\ Range(t) = {t[i] : i \in 1..Len(t)}
  BY <1>1, RangeEquality
<1>3. \A i : i \in 1..Len(u) <=> i \in 1..Len(t) \/ i = Len(t) + 1
  BY <1>1
<1> QED
  BY <1>1, <1>2, <1>3 DEF u

LEMMA NodeFacts ==
  /\ None \notin Nodes
  /\ \A n \in Nodes : n[1] \in Sessions
  /\ \A p \in Sessions, k \in 1..Copies : <<p, k>> \in Nodes /\ <<p, k>>[1] = p
BY NoneAssumption DEF Nodes

\* What the walk meets is the list.
LEMMA LinkedIsList ==
  ASSUME NodesInv, NEW s, IsList(s)
  PROVE  Linked = {s[i] : i \in 1..Len(s)}
<1> DEFINE R == {s[i] : i \in 1..Len(s)}
<1> USE NodeFacts DEF IsList
<1>1. R \subseteq allocated
  OBVIOUS
<1>2. Linked \subseteq R
  <2>1. first # None => first \in R
    OBVIOUS
  <2>2. ASSUME NEW i \in 1..Len(s), next[s[i]] # None PROVE next[s[i]] \in R
    <3>1. next[s[i]] = s[i + 1] /\ i + 1 \in 1..Len(s)
      BY <2>2
    <3> QED
      BY <3>1
  <2>3. \A m \in R : next[m] # None => next[m] \in R
    BY <2>2
  <2> HIDE DEF R
  <2> QED
    BY <1>1, <2>1, <2>3 DEF Linked
<1>3. R \subseteq Linked
  <2> DEFINE T == {i \in 1..Len(s) : s[i] \notin Linked}
  <2> SUFFICES ASSUME T # {} PROVE FALSE
    OBVIOUS
  <2>1. PICK m \in T : \A k \in T : m <= k
    <3>1. T \in SUBSET Nat
      OBVIOUS
    <3> HIDE DEF T
    <3> QED
      BY <3>1, Least
  <2>2. PICK S \in SUBSET allocated :
          /\ first # None => first \in S
          /\ \A k \in S : next[k] # None => next[k] \in S
          /\ s[m] \notin S
    BY <1>1 DEF Linked
  <2>3. m # 1
    BY <2>2
  <2>4. m - 1 \in 1..Len(s) /\ s[m - 1] \in Linked
    BY <2>1, <2>3
  <2>5. s[m - 1] \in S
    BY <2>2, <2>4 DEF Linked
  <2>6. next[s[m - 1]] = s[m] /\ s[m] # None
    BY <2>4
  <2> QED
    BY <2>2, <2>5, <2>6
<1> QED
  BY <1>2, <1>3

\* h3zero_find_stream_prefix finds the node of a prefix.
LEMMA Find ==
  ASSUME NodesInv, NEW s, IsList(s), NEW p
  PROVE  /\ h3zero_find_stream_prefix(p) = None => \A i \in 1..Len(s) : s[i][1] # p
         /\ h3zero_find_stream_prefix(p) # None =>
              \E i \in 1..Len(s) : s[i] = h3zero_find_stream_prefix(p) /\ s[i][1] = p
<1>1. Linked = {s[i] : i \in 1..Len(s)} /\ None \notin Linked
  BY LinkedIsList, NodeFacts DEF IsList
<1>2. CASE \E n \in Linked : n[1] = p
  <2>1. h3zero_find_stream_prefix(p) = CHOOSE n \in {m \in Linked : m[1] = p} : TRUE
    BY <1>2 DEF h3zero_find_stream_prefix
  <2>2. h3zero_find_stream_prefix(p) \in {m \in Linked : m[1] = p}
    BY <1>2, <2>1
  <2> QED
    BY <1>1, <2>2
<1>3. CASE ~\E n \in Linked : n[1] = p
  BY <1>1, <1>3 DEF h3zero_find_stream_prefix
<1> QED
  BY <1>2, <1>3
-----------------------------------------------------------------------------
(* What the operations do to the list                                      *)

\* The list and the calls in progress, spelt out.
Shape(s) ==
  /\ Len(s) \in Nat /\ s \in Seq(Nodes)
  /\ \A i \in 1..Len(s) : /\ s[i] \in Nodes /\ s[i] # None
                          /\ s[i] \in allocated /\ s[i] \notin Range(deleting)
  /\ \A i, j \in 1..Len(s) : s[i] = s[j] => i = j
  /\ Len(deleting) \in Nat /\ deleting \in Seq(Nodes) /\ deleting \in Seq(allocated)
  /\ Range(deleting) = {deleting[i] : i \in 1..Len(deleting)}
  /\ \A i \in 1..Len(deleting) : deleting[i] \in allocated /\ deleting[i] \in Nodes

LEMMA ListShape ==
  ASSUME NodesInv, NEW s, IsList(s)
  PROVE  Shape(s)
<1>1. deleting \in Seq(Nodes) /\ deleting \in Seq(allocated)
  BY SeqMonotonic DEF NodesInv
<1>2. Range(deleting) = {deleting[i] : i \in 1..Len(deleting)}
  BY <1>1, RangeEquality
<1> QED
  BY <1>1, <1>2, NodeFacts DEF NodesInv, IsList, Shape

\* A declaration puts a new node behind the others.
LEMMA DeclareStep ==
  ASSUME NodesInv, NEW s, IsList(s), NEW p \in Sessions, h3zero_declare_stream_prefix(p)
  PROVE  \E n \in Nodes :
           /\ n \notin allocated /\ n[1] = p /\ allocated' = allocated \cup {n}
           /\ \A i \in 1..Len(s) : s[i][1] # p
           /\ NodesInv' /\ IsList(Append(s, n))'
<1>0. Shape(s)
  BY ListShape
<1> USE <1>0 DEF Shape
<1>1. \A i \in 1..Len(s) : s[i][1] # p
  BY Find DEF h3zero_declare_stream_prefix
<1>2. PICK k \in 1..Copies :
        /\ <<p, k>> \notin allocated /\ allocated' = allocated \cup {<<p, k>>}
        /\ first' = IF last = None THEN <<p, k>> ELSE first
        /\ next' = [m \in Nodes |-> IF m = last THEN <<p, k>> ELSE next[m]]
        /\ previous' = [previous EXCEPT ![<<p, k>>] = last]
        /\ last' = <<p, k>>
  BY DEF h3zero_declare_stream_prefix
<1>3. PICK n \in Nodes : n = <<p, k>> /\ n[1] = p /\ n # None /\ n \notin allocated
  BY <1>2, NodeFacts
<1>4. deleting' = deleting
  BY DEF h3zero_declare_stream_prefix
<1> DEFINE t == Append(s, n)
<1>5. /\ t \in Seq(Nodes) /\ t # <<>> /\ Len(t) = Len(s) + 1 /\ t[Len(s) + 1] = n
      /\ \A i \in 1..Len(s) : t[i] = s[i] /\ s[i] # n /\ s[i] \in Nodes
  <2>1. Len(s) \in Nat /\ s \in Seq(Nodes) /\ \A i \in 1..Len(s) : s[i] # n /\ s[i] \in Nodes
    BY <1>3
  <2> QED
    BY <2>1
<1> HIDE DEF t
<1>6. /\ first = IF s = <<>> THEN None ELSE s[1]
      /\ last = IF s = <<>> THEN None ELSE s[Len(s)]
      /\ s = <<>> <=> Len(s) = 0
  BY DEF IsList
<1>7. /\ last = None <=> s = <<>>
      /\ last # None => /\ last = s[Len(s)] /\ Len(s) \in 1..Len(s)
                        /\ last \in Nodes /\ last \in allocated
  BY <1>6
<1>8. \A i \in 1..Len(s) :
        /\ next[s[i]] = IF i = Len(s) THEN None ELSE s[i + 1]
        /\ previous[s[i]] = IF i = 1 THEN None ELSE s[i - 1]
  BY DEF IsList
<1>9. NodesInv'
  <2> USE DEF NodesInv
  <2>1. deleting' \in Seq(allocated') /\ allocated' \subseteq Nodes
    BY <1>2, <1>3, <1>4, SeqMonotonic
  <2>2. last \in Nodes \cup {None} /\ \A m \in Nodes \ allocated : m # last
    BY <1>7, NodeFacts
  <2>3. /\ next' \in [Nodes -> Nodes \cup {None}] /\ previous' \in [Nodes -> Nodes \cup {None}]
        /\ \A m \in Nodes \ allocated' : next'[m] = None /\ previous'[m] = None
    BY <1>2, <1>3, <2>2
  <2> QED
    BY <1>4, <2>1, <2>3
<1>10. IsList(t)'
  <2>1. first' = t[1] /\ last' = t[Len(t)]
    <3>1. last' = n /\ t[Len(t)] = n /\ first' = IF s = <<>> THEN n ELSE s[1]
      BY <1>2, <1>3, <1>5, <1>6, <1>7
    <3>2. CASE s = <<>>
      <4>1. Len(s) + 1 = 1
        BY <1>6, <3>2
      <4>2. t[1] = n
        BY <1>5, <4>1
      <4> QED
        BY <3>1, <3>2, <4>2, Zenon
    <3>3. CASE s # <<>>
      <4>1. 1 \in 1..Len(s)
        BY <1>6, <3>3
      <4>2. t[1] = s[1]
        BY <1>5, <4>1
      <4> QED
        BY <3>1, <3>3, <4>2, Zenon
    <3> QED
      BY <3>2, <3>3
  <2>2. ASSUME NEW i \in 1..Len(t)
        PROVE  /\ next'[t[i]] = IF i = Len(t) THEN None ELSE t[i + 1]
               /\ previous'[t[i]] = IF i = 1 THEN None ELSE t[i - 1]
    <3>1. CASE i = Len(s) + 1
      <4>1. n # last /\ next[n] = None
        BY <1>3, <1>5, <1>7 DEF NodesInv
      <4>2. next'[n] = None /\ previous'[n] = last
        BY <1>2, <1>3, <4>1 DEF NodesInv
      <4>3. last = IF i = 1 THEN None ELSE t[i - 1]
        BY <1>5, <1>6, <1>7, <3>1
      <4> QED
        BY <1>5, <3>1, <4>2, <4>3
    <3>2. CASE i = Len(s) /\ i \in 1..Len(s)
      <4>1. s[i] = last /\ next'[s[i]] = n /\ previous'[s[i]] = previous[s[i]]
        <5>1. s[i] = last /\ s[i] \in Nodes /\ s[i] # n
          BY <1>5, <1>6, <3>2
        <5> QED
          BY <1>2, <1>3, <5>1 DEF NodesInv
      <4>2. i # 1 => t[i - 1] = s[i - 1]
        BY <1>5, <3>2
      <4>3. i + 1 = Len(t) /\ t[i + 1] = n /\ t[i] = s[i] /\ i # Len(t)
        BY <1>5, <3>2
      <4> QED
        BY <1>8, <3>2, <4>1, <4>2, <4>3
    <3>3. CASE i \in 1..(Len(s) - 1)
      <4>1. i \in 1..Len(s) /\ i # Len(s) /\ i + 1 \in 1..Len(s) /\ s[i] # last
        BY <1>6, <3>3
      <4>2. s[i] \in Nodes /\ s[i] # n
        BY <1>5, <4>1
      <4>3. next'[s[i]] = next[s[i]] /\ previous'[s[i]] = previous[s[i]]
        BY <1>2, <1>3, <4>1, <4>2 DEF NodesInv
      <4>4. t[i + 1] = s[i + 1] /\ t[i] = s[i] /\ i # Len(t)
        BY <1>5, <3>3, <4>1
      <4>5. i # 1 => t[i - 1] = s[i - 1]
        <5>1. i # 1 => i - 1 \in 1..Len(s)
          BY <3>3
        <5> QED
          BY <1>5, <5>1
      <4> QED
        BY <1>8, <4>1, <4>3, <4>4, <4>5
    <3> QED
      BY <1>5, <3>1, <3>2, <3>3
  <2>3. \A i, j \in 1..Len(t) : t[i][1] = t[j][1] => i = j
    <3>1. \A i, j \in 1..Len(s) : s[i][1] = s[j][1] => i = j
      BY DEF IsList
    <3>2. \A i \in 1..Len(t) : i \in 1..Len(s) \/ i = Len(s) + 1
      BY <1>5
    <3>3. t[Len(s) + 1][1] = p /\ \A i \in 1..Len(s) : t[i][1] = s[i][1]
      BY <1>3, <1>5
    <3> QED
      BY <1>1, <3>1, <3>2, <3>3
  <2>4. ASSUME NEW m \in Nodes
        PROVE  m \in allocated' \ Range(deleting') <=> \E i \in 1..Len(t) : t[i] = m
    <3>1. n \notin Range(deleting)
      BY <1>3
    <3>2. (\E i \in 1..Len(t) : t[i] = m) <=> m = n \/ \E i \in 1..Len(s) : s[i] = m
      <4>1. \A i \in 1..Len(t) : i \in 1..Len(s) \/ i = Len(s) + 1
        BY <1>5
      <4>2. \A i \in 1..Len(s) : i \in 1..Len(t)
        BY <1>5
      <4>3. Len(s) + 1 \in 1..Len(t)
        BY <1>5
      <4> QED
        BY <1>5, <4>1, <4>2, <4>3
    <3>3. m \in allocated \ Range(deleting) <=> \E i \in 1..Len(s) : s[i] = m
      BY DEF IsList
    <3> QED
      BY <1>2, <1>3, <1>4, <3>1, <3>2, <3>3
  <2> QED
    BY <1>5, <2>1, <2>2, <2>3, <2>4 DEF IsList
<1> QED
  BY <1>1, <1>2, <1>3, <1>9, <1>10 DEF t

\* Unlinking takes a node out of the list.
LEMMA UnlinkStep ==
  ASSUME NodesInv, NEW s, IsList(s), NEW k \in 1..Len(s), Unlink(s[k]),
         deleting' = Append(deleting, s[k]), UNCHANGED allocated
  PROVE  NodesInv' /\ IsList(Without(s, k))'
<1>0. Shape(s)
  BY ListShape
<1> USE <1>0 DEF Shape
<1> DEFINE t == Without(s, k)
<1> DEFINE n == s[k]
<1>1. /\ t \in Seq(Nodes) /\ Len(t) = Len(s) - 1 /\ (t = <<>> <=> Len(s) = 1)
      /\ \A i \in 1..(Len(s) - 1) : t[i] = IF i < k THEN s[i] ELSE s[i + 1]
  <2>1. \A i \in 1..(Len(s) - 1) : i \in 1..Len(s) /\ i + 1 \in 1..Len(s)
    OBVIOUS
  <2>2. \A i \in 1..(Len(s) - 1) : (IF i < k THEN s[i] ELSE s[i + 1]) \in Nodes
    BY <2>1
  <2>3. Len(s) - 1 \in Nat
    OBVIOUS
  <2>4. t \in [1..(Len(s) - 1) -> Nodes]
    BY <2>2 DEF Without
  <2>5. t \in Seq(Nodes) /\ Len(t) = Len(s) - 1
    BY <2>3, <2>4, FunctionIsSeq
  <2>6. \A i \in 1..(Len(s) - 1) : t[i] = IF i < k THEN s[i] ELSE s[i + 1]
    BY DEF Without
  <2> HIDE DEF t
  <2>7. t = <<>> <=> Len(t) = 0
    BY <2>5
  <2> QED
    BY <2>5, <2>6, <2>7
<1>2. /\ n \in Nodes /\ n \in allocated /\ n \notin Range(deleting)
      /\ next[n] = (IF k = Len(s) THEN None ELSE s[k + 1])
      /\ previous[n] = (IF k = 1 THEN None ELSE s[k - 1])
  BY DEF IsList
<1>3. \A i \in 1..Len(s) : /\ s[i] \in Nodes
                           /\ s[i] = next[n] <=> i = k + 1
                           /\ s[i] = previous[n] <=> i = k - 1
  <2>1. /\ k # Len(s) => k + 1 \in 1..Len(s) /\ next[n] = s[k + 1]
        /\ k # 1 => k - 1 \in 1..Len(s) /\ previous[n] = s[k - 1]
    BY <1>2
  <2> QED
    BY <1>2, <2>1
<1>4. /\ first' = IF previous[n] = None THEN next[n] ELSE first
      /\ next' = [m \in Nodes |-> IF m = previous[n] THEN next[n] ELSE next[m]]
      /\ last' = IF next[n] = None THEN previous[n] ELSE last
      /\ previous' = [m \in Nodes |-> IF m = next[n] THEN previous[n] ELSE previous[m]]
  BY DEF Unlink
<1> HIDE DEF t, n
<1>5. /\ first = IF s = <<>> THEN None ELSE s[1]
      /\ last = IF s = <<>> THEN None ELSE s[Len(s)]
      /\ \A i \in 1..Len(s) :
           /\ next[s[i]] = IF i = Len(s) THEN None ELSE s[i + 1]
           /\ previous[s[i]] = IF i = 1 THEN None ELSE s[i - 1]
      /\ \A i, j \in 1..Len(s) : s[i][1] = s[j][1] => i = j
      /\ \A m \in Nodes : m \in allocated \ Range(deleting) <=> \E i \in 1..Len(s) : s[i] = m
  BY DEF IsList
<1>6. NodesInv'
  <2> USE DEF NodesInv
  <2>1. deleting' \in Seq(allocated') /\ Len(deleting') = Len(deleting) + 1
    BY <1>2 DEF n
  <2>2. \A i \in 1..Len(deleting) : deleting'[i] = deleting[i] /\ deleting[i] # n
    BY <1>2 DEF n
  <2>3. \A i, j \in 1..Len(deleting') : deleting'[i] = deleting'[j] => i = j
    BY <2>1, <2>2 DEF n
  <2>4. /\ next[n] \in allocated \cup {None} /\ previous[n] \in allocated \cup {None}
        /\ next[n] \in Nodes \cup {None} /\ previous[n] \in Nodes \cup {None}
    BY <1>2
  <2>5. /\ next' \in [Nodes -> Nodes \cup {None}] /\ previous' \in [Nodes -> Nodes \cup {None}]
        /\ \A m \in Nodes \ allocated' : next'[m] = None /\ previous'[m] = None
    BY <1>4, <2>4, NodeFacts
  <2> QED
    BY <2>1, <2>3, <2>5
<1>7. IsList(t)'
  <2>1. first' = IF t = <<>> THEN None ELSE t[1]
    <3>1. s # <<>> /\ first = s[1]
      BY <1>5
    <3>2. CASE k = 1
      <4>1. t # <<>> => t[1] = s[2]
        <5>1. t # <<>> => 1 \in 1..(Len(s) - 1)
          BY <1>1
        <5>2. ~(1 < k) /\ 1 + 1 = 2
          BY <3>2
        <5> QED
          BY <1>1, <5>1, <5>2, Zenon
      <4> QED
        BY <1>1, <1>2, <1>4, <3>2, <4>1
    <3>3. CASE k # 1
      <4>1. 1 \in 1..(Len(s) - 1) /\ 1 < k
        BY <3>3
      <4>2. t # <<>> /\ t[1] = s[1]
        BY <1>1, <4>1
      <4>3. previous[n] # None
        BY <1>2, <3>3
      <4> QED
        BY <1>4, <3>1, <4>2, <4>3
    <3> QED
      BY <3>2, <3>3
  <2>2. last' = IF t = <<>> THEN None ELSE t[Len(t)]
    <3>1. s # <<>> /\ last = s[Len(s)]
      BY <1>5
    <3>2. CASE k = Len(s)
      <4>1. t # <<>> => t[Len(t)] = s[k - 1] /\ k # 1
        BY <1>1, <3>2
      <4>2. t = <<>> => k = 1
        BY <1>1, <3>2
      <4> QED
        BY <1>2, <1>4, <3>2, <4>1, <4>2
    <3>3. CASE k # Len(s)
      <4>1. t # <<>> /\ t[Len(t)] = s[Len(s)]
        BY <1>1, <3>3
      <4>2. next[n] # None
        BY <1>2, <3>3
      <4> QED
        BY <1>4, <3>1, <4>1, <4>2
    <3> QED
      BY <3>2, <3>3
  <2>3. ASSUME NEW i \in 1..Len(t)
        PROVE  /\ next'[t[i]] = IF i = Len(t) THEN None ELSE t[i + 1]
               /\ previous'[t[i]] = IF i = 1 THEN None ELSE t[i - 1]
    <3>1. PICK j \in 1..Len(s) : j = (IF i < k THEN i ELSE i + 1) /\ t[i] = s[j]
      BY <1>1
    <3>2. next'[s[j]] = (IF j = k - 1 THEN next[n] ELSE next[s[j]])
      BY <1>3, <1>4
    <3>3. previous'[s[j]] = (IF j = k + 1 THEN previous[n] ELSE previous[s[j]])
      BY <1>3, <1>4
    <3>4. next'[t[i]] = IF i = Len(t) THEN None ELSE t[i + 1]
      <4>1. i + 1 \in 1..Len(t) => t[i + 1] = IF i + 1 < k THEN s[i + 1] ELSE s[i + 2]
        <5>1. i + 1 \in 1..Len(t) => i + 1 \in 1..(Len(s) - 1) /\ (i + 1) + 1 = i + 2
          BY <1>1
        <5> QED
          BY <1>1, <5>1
      <4>2. next[s[j]] = IF j = Len(s) THEN None ELSE s[j + 1]
        BY <1>5
      <4>3. CASE i = Len(t)
        BY <1>1, <1>2, <3>1, <3>2, <4>2, <4>3
      <4>4. CASE i # Len(t) /\ i < k - 1
        BY <1>1, <3>1, <3>2, <4>1, <4>2, <4>4
      <4>5. CASE i # Len(t) /\ i = k - 1
        BY <1>1, <1>2, <3>1, <3>2, <4>1, <4>5
      <4>6. CASE i # Len(t) /\ i > k - 1
        BY <1>1, <3>1, <3>2, <4>1, <4>2, <4>6
      <4> QED
        BY <1>1, <4>3, <4>4, <4>5, <4>6
    <3>5. previous'[t[i]] = IF i = 1 THEN None ELSE t[i - 1]
      <4>1. i - 1 \in 1..Len(t) => t[i - 1] = IF i - 1 < k THEN s[i - 1] ELSE s[i]
        <5>1. i - 1 \in 1..Len(t) => i - 1 \in 1..(Len(s) - 1) /\ (i - 1) + 1 = i
          BY <1>1
        <5> QED
          BY <1>1, <5>1
      <4>2. previous[s[j]] = IF j = 1 THEN None ELSE s[j - 1]
        BY <1>5
      <4>3. CASE i < k
        BY <1>1, <3>1, <3>3, <4>1, <4>2, <4>3
      <4>4. CASE i = k
        BY <1>1, <1>2, <3>1, <3>3, <4>1, <4>4
      <4>5. CASE i > k
        BY <1>1, <3>1, <3>3, <4>1, <4>2, <4>5
      <4> QED
        BY <1>1, <4>3, <4>4, <4>5
    <3> QED
      BY <3>4, <3>5
  <2>4. ASSUME NEW i \in 1..Len(t), NEW j \in 1..Len(t), t[i][1] = t[j][1]
        PROVE  i = j
    <3>1. PICK a \in 1..Len(s) : a = (IF i < k THEN i ELSE i + 1) /\ t[i] = s[a]
      BY <1>1
    <3>2. PICK b \in 1..Len(s) : b = (IF j < k THEN j ELSE j + 1) /\ t[j] = s[b]
      BY <1>1
    <3>3. a = b
      <4>1. s[a][1] = s[b][1]
        BY <2>4, <3>1, <3>2
      <4> QED
        BY <1>5, <4>1
    <3> QED
      BY <1>1, <3>1, <3>2, <3>3
  <2>5. ASSUME NEW m \in Nodes
        PROVE  m \in allocated' \ Range(deleting') <=> \E i \in 1..Len(t) : t[i] = m
    <3>1. Range(deleting') = Range(deleting) \cup {n}
      BY <1>2, RangeOfAppend DEF n
    <3>2. (\E i \in 1..Len(t) : t[i] = m) <=> m # n /\ \E i \in 1..Len(s) : s[i] = m
      <4>1. ASSUME NEW i \in 1..Len(t) PROVE t[i] # n /\ \E j \in 1..Len(s) : s[j] = t[i]
        <5>1. PICK j \in 1..Len(s) : j = (IF i < k THEN i ELSE i + 1) /\ t[i] = s[j]
          BY <1>1
        <5>2. j # k
          BY <5>1
        <5> QED
          BY <5>1, <5>2 DEF n
      <4>2. ASSUME NEW j \in 1..Len(s), s[j] # n PROVE \E i \in 1..Len(t) : t[i] = s[j]
        <5>1. CASE j < k
          <6>1. j \in 1..Len(t) /\ t[j] = s[j]
            BY <1>1, <5>1
          <6> QED
            BY <6>1
        <5>2. CASE j > k
          <6>1. j - 1 \in 1..Len(t) /\ t[j - 1] = s[j]
            BY <1>1, <5>2
          <6> QED
            BY <6>1
        <5> QED
          BY <4>2, <5>1, <5>2 DEF n
      <4>3. (\E i \in 1..Len(t) : t[i] = m) => m # n /\ \E i \in 1..Len(s) : s[i] = m
        BY <4>1
      <4>4. m # n /\ (\E i \in 1..Len(s) : s[i] = m) => \E i \in 1..Len(t) : t[i] = m
        BY <4>2
      <4> QED
        BY <4>3, <4>4
    <3> QED
      BY <1>5, <3>1, <3>2
  <2> QED
    BY <1>1, <2>1, <2>2, <2>3, <2>4, <2>5 DEF IsList
<1> QED
  BY <1>6, <1>7 DEF t

\* Freeing the node of the last call leaves the list alone.
LEMMA FreeStep ==
  ASSUME NodesInv, NEW s, IsList(s), Free
  PROVE  NodesInv' /\ IsList(s)' /\ allocated' = allocated \ {Last(deleting)}
<1>0. Shape(s)
  BY ListShape
<1> USE <1>0 DEF Shape
<1> DEFINE n == Last(deleting)
<1>1. /\ deleting # <<>> /\ allocated' = allocated \ {n} /\ deleting' = Front(deleting)
      /\ next' = [next EXCEPT ![n] = None] /\ previous' = [previous EXCEPT ![n] = None]
      /\ first' = first /\ last' = last
  BY DEF Free
<1>2. /\ n = deleting[Len(deleting)] /\ Len(deleting) \in 1..Len(deleting)
      /\ n \in allocated /\ n \in Nodes
  BY <1>1 DEF Last
<1>3. /\ Len(deleting') = Len(deleting) - 1
      /\ \A i \in 1..Len(deleting') : deleting'[i] = deleting[i] /\ deleting[i] # n
  <2>1. /\ Len(deleting') = Len(deleting) - 1
        /\ \A i \in 1..Len(deleting') : deleting'[i] = deleting[i]
    <3>1. deleting \in Seq(Nodes) /\ deleting # <<>>
      BY <1>1
    <3>2. /\ Len(Front(deleting)) = Len(deleting) - 1
          /\ \A i \in 1..(Len(deleting) - 1) : Front(deleting)[i] = deleting[i]
      BY <3>1, FrontOfSeq
    <3> QED
      BY <1>1, <3>2
  <2>2. \A i \in 1..Len(deleting') : i \in 1..Len(deleting) /\ i # Len(deleting)
    BY <1>2, <2>1
  <2> QED
    BY <1>2, <2>1, <2>2 DEF NodesInv
<1>4. deleting' \in Seq(allocated')
  <2>1. deleting' \in Seq(allocated)
    BY <1>1 DEF Front
  <2>2. \A i \in 1..Len(deleting') : deleting'[i] \in allocated'
    BY <1>1, <1>3
  <2> QED
    BY <2>1, <2>2
<1>5. Range(deleting) = Range(deleting') \cup {n}
  <2>1. deleting \in Seq(Nodes) /\ deleting' \in Seq(Nodes)
    <3>1. allocated' \subseteq Nodes
      BY <1>1 DEF NodesInv
    <3> QED
      BY <1>4, <3>1, SeqMonotonic
  <2> QED
    <3>1. Range(deleting') = {deleting'[i] : i \in 1..Len(deleting')}
      BY <2>1, RangeEquality
    <3>2. \A i \in 1..Len(deleting) : i \in 1..Len(deleting') \/ i = Len(deleting)
      BY <1>3
    <3>3. \A i \in 1..Len(deleting') : i \in 1..Len(deleting)
      BY <1>3
    <3> QED
      BY <1>2, <1>3, <3>1, <3>2, <3>3
<1>6. \A i \in 1..Len(s) : s[i] # n
  BY <1>2, <1>5
<1> HIDE DEF n
<1>7. NodesInv'
  BY <1>1, <1>2, <1>3, <1>4 DEF NodesInv
<1>8. n \notin Range(deleting')
  <2>1. deleting' \in Seq(Nodes)
    <3>1. allocated' \subseteq Nodes
      BY <1>1 DEF NodesInv
    <3> QED
      BY <1>4, <3>1, SeqMonotonic
  <2> QED
    <3>1. Range(deleting') = {deleting'[i] : i \in 1..Len(deleting')}
      BY <2>1, RangeEquality
    <3> QED
      BY <1>3, <3>1
<1>9. IsList(s)'
  <2>1. \A i \in 1..Len(s) : s[i] \in Nodes /\ next'[s[i]] = next[s[i]]
                             /\ previous'[s[i]] = previous[s[i]]
    BY <1>1, <1>6 DEF NodesInv
  <2>2. \A m \in Nodes : m \in allocated' \ Range(deleting') <=> m \in allocated \ Range(deleting)
    BY <1>1, <1>5, <1>8
  <2> QED
    BY <1>1, <2>1, <2>2 DEF IsList
<1> QED
  BY <1>1, <1>7, <1>9 DEF n
-----------------------------------------------------------------------------
(* The same, of the set of the nodes that are linked                       *)

ListMeaning == \A s : NodesInv /\ IsList(s) => Linked = {s[i] : i \in 1..Len(s)}

LEMMA ListMeaningHolds == ListMeaning
BY LinkedIsList DEF ListMeaning

LinkedFacts ==
  /\ None \notin Linked /\ Linked \subseteq allocated /\ allocated \subseteq Nodes
  /\ Linked \cap Range(deleting) = {}
  /\ \A n, m \in Linked : n[1] = m[1] => n = m
  /\ first \in Linked \cup {None} /\ \A n \in Linked : next[n] \in Linked \cup {None}

LEMMA LinkedFactsHold ==
  ASSUME ListInv
  PROVE  LinkedFacts
<1>1. PICK s \in Seq(Nodes) : IsList(s)
  BY DEF ListInv
<1>2. NodesInv /\ Shape(s)
  BY <1>1, ListShape DEF ListInv
<1>3. Linked = {s[i] : i \in 1..Len(s)}
  BY <1>1, <1>2, LinkedIsList
<1>4. \A i \in 1..Len(s) : /\ s[i] # None /\ s[i] \in allocated /\ s[i] \notin Range(deleting)
                           /\ next[s[i]] = IF i = Len(s) THEN None ELSE s[i + 1]
  BY <1>1, <1>2 DEF IsList, Shape
<1>5. \A i \in 1..Len(s) : next[s[i]] \in Linked \cup {None}
  <2>1. \A i \in 1..Len(s) : i # Len(s) => i + 1 \in 1..Len(s)
    BY <1>2 DEF Shape
  <2> QED
    BY <1>3, <1>4, <2>1
<1>6. first \in Linked \cup {None}
  <2>1. s # <<>> => 1 \in 1..Len(s)
    OBVIOUS
  <2> QED
    BY <1>1, <1>3, <2>1 DEF IsList
<1>7. \A i, j \in 1..Len(s) : s[i][1] = s[j][1] => i = j
  BY <1>1 DEF IsList
<1>8. None \notin Linked /\ Linked \subseteq allocated /\ Linked \cap Range(deleting) = {}
  BY <1>3, <1>4
<1>9. \A n, m \in Linked : n[1] = m[1] => n = m
  BY <1>3, <1>7
<1>10. \A n \in Linked : next[n] \in Linked \cup {None}
  BY <1>3, <1>5
<1>11. allocated \subseteq Nodes
  BY <1>2 DEF NodesInv
<1> QED
  BY <1>6, <1>8, <1>9, <1>10, <1>11, Zenon DEF LinkedFacts

\* What is behind None, behind the first node, and behind a node and the next one.
LEMMA FromFacts ==
  ASSUME LinkedFacts
  PROVE  /\ From(None) = {} /\ From(first) = Linked
         /\ \A n \in Linked : From(n) \subseteq {n} \cup From(next[n])
<1>1. From(None) = {}
  <2>1. \A m \in From(None) : m \in {}
    <3>1. {} \in SUBSET allocated
      OBVIOUS
    <3> QED
      BY <3>1 DEF From
  <2> QED
    BY <2>1
<1>2. From(first) = Linked
  BY DEF From, Linked
<1>3. ASSUME NEW n \in Linked, NEW m \in From(n), m # n
      PROVE  m \in From(next[n])
  <2>1. m \in allocated
    BY <1>3 DEF From
  <2>2. SUFFICES ASSUME NEW S \in SUBSET allocated,
                        next[n] # None => next[n] \in S,
                        \A k \in S : next[k] # None => next[k] \in S
                 PROVE  m \in S
    BY <2>1 DEF From
  <2>3. S \cup {n} \in SUBSET allocated /\ n # None
    BY <1>3, <2>2 DEF LinkedFacts
  <2>4. \A k \in S \cup {n} : next[k] # None => next[k] \in S \cup {n}
    BY <2>2
  <2>5. m \in S \cup {n}
    BY <1>3, <2>3, <2>4 DEF From
  <2> QED
    BY <1>3, <2>5
<1> QED
  BY <1>1, <1>2, <1>3

\* What the operations do to the set.
LEMMA DeclareLinked ==
  ASSUME ListInv, NEW p \in Sessions, h3zero_declare_stream_prefix(p)
  PROVE  /\ ListInv'
         /\ \E n \in Nodes \ allocated :
              /\ n[1] = p /\ allocated' = allocated \cup {n} /\ Linked' = Linked \cup {n}
              /\ \A m \in Linked : m[1] # p
<1>1. PICK s \in Seq(Nodes) : NodesInv /\ IsList(s)
  BY DEF ListInv
<1>2. PICK n \in Nodes :
        /\ n \notin allocated /\ n[1] = p /\ allocated' = allocated \cup {n}
        /\ \A i \in 1..Len(s) : s[i][1] # p
        /\ NodesInv' /\ IsList(Append(s, n))'
  BY <1>1, DeclareStep
<1> DEFINE t == Append(s, n)
<1>3. /\ t \in Seq(Nodes) /\ Len(t) = Len(s) + 1 /\ t[Len(s) + 1] = n /\ Len(s) \in Nat
      /\ \A i \in 1..Len(s) : t[i] = s[i]
  OBVIOUS
<1>4. IsList(t)'
  BY <1>2
<1> HIDE DEF t
<1>5. ListMeaning'
  BY ListMeaningHolds, PTL
<1>6. Linked = {s[i] : i \in 1..Len(s)} /\ Linked' = {t[i] : i \in 1..Len(t)}
  BY <1>1, <1>2, <1>4, <1>5, LinkedIsList DEF ListMeaning
<1>7. \A i : i \in 1..Len(t) <=> i \in 1..Len(s) \/ i = Len(s) + 1
  BY <1>3
<1>8. Linked' = Linked \cup {n}
  BY <1>3, <1>6, <1>7
<1> QED
  BY <1>2, <1>3, <1>4, <1>6, <1>8 DEF ListInv

LEMMA DeleteLinked ==
  ASSUME ListInv, NEW p, h3zero_delete_stream_prefix(p)
  PROVE  /\ ListInv'
         /\ \E n \in Linked :
              n[1] = p /\ Linked' = Linked \ {n} /\ Range(deleting') = Range(deleting) \cup {n}
<1>1. PICK s \in Seq(Nodes) : NodesInv /\ IsList(s)
  BY DEF ListInv
<1>2. PICK k \in 1..Len(s) : s[k] = h3zero_find_stream_prefix(p) /\ s[k][1] = p
  BY <1>1, Find DEF h3zero_delete_stream_prefix
<1>3. Unlink(s[k]) /\ deleting' = Append(deleting, s[k]) /\ UNCHANGED allocated
  BY <1>2 DEF h3zero_delete_stream_prefix
<1> DEFINE t == Without(s, k)
<1>4. NodesInv' /\ IsList(t)'
  BY <1>1, <1>3, UnlinkStep
<1>5. Shape(s)
  BY <1>1, ListShape
<1>6. Range(deleting') = Range(deleting) \cup {s[k]}
  BY <1>3, <1>5, RangeOfAppend DEF Shape
<1>7. DOMAIN t = 1..(Len(s) - 1) /\ \A i \in DOMAIN t : t[i] = IF i < k THEN s[i] ELSE s[i + 1]
  BY DEF Without
<1> HIDE DEF t
<1>8. t \in Seq(Nodes) /\ 1..Len(t) = 1..(Len(s) - 1)
  BY <1>4, <1>7 DEF IsList
<1>9. ListMeaning'
  BY ListMeaningHolds, PTL
<1>10. Linked = {s[i] : i \in 1..Len(s)} /\ Linked' = {t[i] : i \in 1..Len(t)}
  BY <1>1, <1>4, <1>9, LinkedIsList DEF ListMeaning
<1>11. ASSUME NEW i \in 1..Len(t) PROVE t[i] \in Linked \ {s[k]}
  <2>1. PICK j \in 1..Len(s) : j = (IF i < k THEN i ELSE i + 1) /\ t[i] = s[j]
    BY <1>7, <1>8
  <2>2. j # k
    BY <2>1
  <2> QED
    BY <1>5, <1>10, <2>1, <2>2 DEF Shape
<1>12. ASSUME NEW j \in 1..Len(s), j # k PROVE s[j] \in Linked'
  <2>1. CASE j < k
    <3>1. j \in 1..Len(t) /\ t[j] = s[j]
      BY <1>5, <1>7, <1>8, <2>1 DEF Shape
    <3> QED
      BY <1>10, <3>1
  <2>2. CASE j > k
    <3>1. j - 1 \in 1..(Len(s) - 1) /\ ~(j - 1 < k) /\ (j - 1) + 1 = j
      BY <1>5, <2>2 DEF Shape
    <3>2. j - 1 \in 1..Len(t) /\ t[j - 1] = s[j]
      BY <1>7, <1>8, <3>1
    <3> QED
      BY <1>10, <3>2
  <2> QED
    BY <1>12, <2>1, <2>2
<1>13. Linked' = Linked \ {s[k]}
  BY <1>10, <1>11, <1>12
<1> QED
  BY <1>2, <1>4, <1>6, <1>8, <1>10, <1>13 DEF ListInv

LEMMA FreeLinked ==
  ASSUME ListInv, Free
  PROVE  ListInv' /\ Linked' = Linked /\ Range(deleting') \subseteq Range(deleting)
<1>1. PICK s \in Seq(Nodes) : NodesInv /\ IsList(s)
  BY DEF ListInv
<1>2. NodesInv' /\ IsList(s)'
  BY <1>1, FreeStep
<1>3. ListMeaning'
  BY ListMeaningHolds, PTL
<1>4. Linked = {s[i] : i \in 1..Len(s)} /\ Linked' = {s[i] : i \in 1..Len(s)}
  BY <1>1, <1>2, <1>3, LinkedIsList DEF ListMeaning
<1>5. Range(deleting') \subseteq Range(deleting)
  <2>1. deleting \in Seq(Nodes) /\ deleting # <<>> /\ deleting' = Front(deleting)
    BY <1>1, ListShape DEF Shape, Free
  <2>2. /\ Front(deleting) \in Seq(Nodes) /\ Len(Front(deleting)) = Len(deleting) - 1
        /\ \A i \in 1..(Len(deleting) - 1) : Front(deleting)[i] = deleting[i]
    BY <2>1, FrontOfSeq
  <2>3. /\ Range(deleting) = {deleting[i] : i \in 1..Len(deleting)}
        /\ Range(Front(deleting)) = {Front(deleting)[i] : i \in 1..Len(Front(deleting))}
    BY <2>1, <2>2, RangeEquality
  <2> QED
    BY <2>1, <2>2, <2>3
<1> QED
  BY <1>1, <1>2, <1>4, <1>5 DEF ListInv

LEMMA SameLinked ==
  ASSUME ListInv, UNCHANGED <<linkVars, allocated, deleting>>
  PROVE  ListInv' /\ Linked' = Linked /\ \A n : From(n)' = From(n)
<1>1. UNCHANGED <<first, last, next, previous, allocated, deleting>>
  BY DEF linkVars
<1>2. ListInv'
  <2>1. NodesInv'
    BY <1>1 DEF ListInv, NodesInv
  <2>2. PICK s \in Seq(Nodes) : IsList(s)
    BY DEF ListInv
  <2>3. IsList(s)'
    BY <1>1, <2>2 DEF IsList
  <2> QED
    BY <2>1, <2>3 DEF ListInv
<1>3. Linked' = Linked
  BY <1>1 DEF Linked
<1>4. \A n : From(n)' = From(n)
  BY <1>1 DEF From
<1> QED
  BY <1>2, <1>3, <1>4
-----------------------------------------------------------------------------
(* The invariant                                                           *)

LEMMA InitInv ==
  ASSUME Init
  PROVE  IndInv
<1> USE DEF Init, PrefixInit
<1>1. IsList(<<>>) /\ NodesInv
  <2>1. deleting \in Seq(Nodes) /\ deleting \in Seq(allocated) /\ Len(deleting) = 0
    OBVIOUS
  <2>2. Range(deleting) = {}
    BY EmptyRange
  <2>3. <<>> \in Seq(Nodes) /\ Len(<<>>) = 0
    OBVIOUS
  <2> QED
    BY <2>1, <2>2, <2>3 DEF IsList, NodesInv
<1>2. ListInv
  BY <1>1 DEF ListInv, IsList
<1>3. Linked = {}
  BY DEF Linked
<1>4. PollInv
  BY DEF PollInv
<1>5. WaitingInv
  BY <1>3 DEF WaitingInv
<1>6. LoopInv
  BY <1>3 DEF LoopInv
<1> QED
  BY <1>2, <1>4, <1>5, <1>6 DEF IndInv

\* The steps that change the list are taken outside of the loops.
LEMMA OutsideLoops ==
  ASSUME IndInv, loop = "none", UNCHANGED pollVars, ListInv', PollInv', WaitingInv',
         datagram_ready' = datagram_ready,
         {n \in Linked' : ready_to_send_datagrams'[n]} \subseteq
           {n \in Linked : ready_to_send_datagrams[n]}
  PROVE  IndInv'
BY DEF IndInv, LoopInv, pollVars

LEMMA DeclareInv ==
  ASSUME IndInv, NEW p \in Sessions, Declare(p)
  PROVE  IndInv'
<1>1. /\ loop = "none" /\ h3zero_declare_stream_prefix(p)
      /\ UNCHANGED <<readyVars, pollVars, waiting, historyVars>>
  BY DEF Declare
<1>2. ListInv'
  BY <1>1, DeclareLinked DEF IndInv
<1>3. PICK n \in Nodes \ allocated :
        /\ n[1] = p /\ allocated' = allocated \cup {n} /\ Linked' = Linked \cup {n}
        /\ \A m \in Linked : m[1] # p
  BY <1>1, DeclareLinked DEF IndInv
<1>4. ~ready_to_send_datagrams[n] /\ ~(waiting[p] > 0)
  BY <1>3 DEF IndInv, PollInv, WaitingInv
<1> USE <1>1 DEF readyVars, pollVars, historyVars
<1>5. PollInv'
  BY <1>3 DEF IndInv, PollInv
<1>6. WaitingInv'
  BY <1>3, <1>4 DEF IndInv, WaitingInv
<1> QED
  BY <1>2, <1>3, <1>4, <1>5, <1>6, OutsideLoops

\* A step of a deletion: the list loses at most the nodes whose deletion begins, and with
\* them go the datagrams.
LEMMA DropInv ==
  ASSUME IndInv, loop = "none", DropWaiting, ListInv', Linked' \subseteq Linked,
         allocated' \subseteq allocated,
         \A n \in Linked \ Linked' : n \in Range(deleting'),
         Range(deleting') \ Range(deleting) \subseteq Nodes
  PROVE  IndInv'
<1> DEFINE gone == {n[1] : n \in Range(deleting') \ Range(deleting)}
<1>1. /\ waiting' = [p \in Sessions |-> IF p \in gone THEN 0 ELSE waiting[p]]
      /\ unheard' = unheard \ gone
      /\ ready_to_send_datagrams' = [n \in Nodes |-> n \in allocated' /\ ready_to_send_datagrams[n]]
      /\ UNCHANGED <<last_datagram_prefix, datagram_ready, pollVars, trouble>>
  BY DEF DropWaiting
<1>2. gone \subseteq Sessions /\ \A n \in Linked \ Linked' : n[1] \in gone
  <2>1. Linked \cap Range(deleting) = {}
    BY LinkedFactsHold DEF IndInv, LinkedFacts
  <2> QED
    BY <2>1, NodeFacts
<1> HIDE DEF gone
<1>3. Linked' \subseteq Nodes /\ Linked' \subseteq allocated'
  BY DEF Linked, ListInv, NodesInv
<1>4. PollInv'
  <2>1. /\ ready_to_send_datagrams' \in [Nodes -> BOOLEAN]
        /\ \A n \in Nodes \ allocated' : ~ready_to_send_datagrams'[n]
    BY <1>1 DEF IndInv, PollInv
  <2>2. waiting' \in [Sessions -> Nat] /\ unheard' \subseteq Sessions
    BY <1>1 DEF IndInv, PollInv
  <2>3. /\ datagram_ready' \in BOOLEAN /\ still_active' \in BOOLEAN /\ loop' = "none"
        /\ prefix_ctx' = None /\ previous_prefix_ctx' = None
    BY <1>1 DEF IndInv, PollInv, pollVars
  <2> QED
    BY <2>1, <2>2, <2>3 DEF PollInv
<1>5. WaitingInv'
  <2>1. ASSUME NEW p \in Sessions, waiting'[p] > 0
        PROVE  \E n \in Linked' : n[1] = p
    <3>1. p \notin gone /\ waiting[p] > 0
      BY <1>1, <2>1
    <3>2. PICK n \in Linked : n[1] = p
      BY <3>1 DEF IndInv, WaitingInv
    <3> QED
      BY <1>2, <3>1, <3>2
  <2>2. ASSUME NEW n \in Linked', waiting'[n[1]] > 0, n[1] \notin unheard'
        PROVE  ready_to_send_datagrams'[n]
    <3>1. n \in Nodes /\ n \in allocated' /\ n \in Linked /\ n[1] \in Sessions
      BY <1>3, NodeFacts
    <3>2. waiting[n[1]] > 0 /\ n[1] \notin unheard
      BY <1>1, <2>2, <3>1
    <3>3. ready_to_send_datagrams[n]
      BY <3>1, <3>2 DEF IndInv, WaitingInv
    <3> QED
      BY <1>1, <3>1, <3>3
  <2> QED
    BY <2>1, <2>2 DEF WaitingInv
<1> QED
  BY <1>1, <1>3, <1>4, <1>5, OutsideLoops

LEMMA DeleteInv ==
  ASSUME IndInv, NEW p, DeleteSession(p) \/ DeleteReturns \/ Teardown
  PROVE  IndInv'
<1>1. loop = "none" /\ DropWaiting
  BY DEF DeleteSession, DeleteReturns, Teardown
<1>2. LinkedFacts
  BY LinkedFactsHold DEF IndInv
<1>3. ASSUME NEW q, h3zero_delete_stream_prefix(q) PROVE IndInv'
  <2>1. ListInv' /\ allocated' = allocated
    BY <1>3, DeleteLinked DEF IndInv, h3zero_delete_stream_prefix
  <2>2. PICK n \in Linked :
          Linked' = Linked \ {n} /\ Range(deleting') = Range(deleting) \cup {n}
    BY <1>3, DeleteLinked DEF IndInv
  <2> QED
    BY <1>1, <1>2, <2>1, <2>2, DropInv DEF LinkedFacts
<1>4. ASSUME UNCHANGED <<linkVars, allocated, deleting>> PROVE IndInv'
  <2>1. ListInv' /\ Linked' = Linked /\ allocated' = allocated /\ Range(deleting') = Range(deleting)
    BY <1>4, SameLinked DEF IndInv
  <2> QED
    BY <1>1, <2>1, DropInv
<1>5. CASE Free
  <2>1. ListInv' /\ Linked' = Linked /\ Range(deleting') \subseteq Range(deleting)
    BY <1>5, FreeLinked DEF IndInv
  <2>2. allocated' \subseteq allocated
    BY <1>5 DEF Free
  <2> QED
    BY <1>1, <2>1, <2>2, DropInv
<1>6. CASE DeleteSession(p)
  BY <1>3, <1>4, <1>6 DEF DeleteSession, Delete, StreamGone
<1>7. CASE Teardown
  BY <1>3, <1>4, <1>7 DEF Teardown, DeleteAll
<1> QED
  BY <1>5, <1>6, <1>7 DEF DeleteReturns

LEMMA ReadyInv ==
  ASSUME IndInv, NEW p \in Sessions, h3zero_set_datagram_ready(p)
  PROVE  IndInv'
<1> DEFINE n == h3zero_find_stream_prefix(p)
<1>1. LinkedFacts
  BY LinkedFactsHold DEF IndInv
<1>2. n \in Linked /\ n \in Nodes /\ n[1] = p
  <2>1. n # None
    BY DEF h3zero_set_datagram_ready
  <2>2. {m \in Linked : m[1] = p} # {} /\ n = CHOOSE m \in {k \in Linked : k[1] = p} : TRUE
    BY <2>1 DEF h3zero_find_stream_prefix
  <2>3. n \in {m \in Linked : m[1] = p}
    BY <2>2
  <2> QED
    BY <1>1, <2>3 DEF LinkedFacts
<1>3. /\ loop = "none" /\ datagram_ready' = TRUE
      /\ waiting' = [waiting EXCEPT ![p] = @ + 1]
      /\ ready_to_send_datagrams' = [ready_to_send_datagrams EXCEPT ![n] = TRUE]
      /\ unheard' = unheard \ {p}
      /\ UNCHANGED <<prefixVars, last_datagram_prefix, pollVars, trouble>>
  BY DEF h3zero_set_datagram_ready
<1> HIDE DEF n
<1>4. ListInv' /\ Linked' = Linked
  BY <1>3, SameLinked DEF IndInv, prefixVars
<1>5. PollInv'
  BY <1>1, <1>2, <1>3, <1>4 DEF IndInv, PollInv, prefixVars, pollVars, LinkedFacts
<1>6. WaitingInv'
  <2>1. \A q \in Sessions : waiting'[q] > 0 => q = p \/ waiting[q] > 0
    BY <1>3 DEF IndInv, PollInv
  <2>2. \A q \in Sessions : waiting'[q] > 0 => \E m \in Linked : m[1] = q
    BY <1>2, <2>1 DEF IndInv, WaitingInv
  <2>3. ASSUME NEW m \in Linked, waiting'[m[1]] > 0, m[1] \notin unheard'
        PROVE  ready_to_send_datagrams'[m]
    <3>1. m \in Nodes /\ m[1] \in Sessions
      BY <1>1, NodeFacts DEF LinkedFacts
    <3>2. CASE m[1] = p
      BY <1>1, <1>2, <1>3, <3>1, <3>2 DEF LinkedFacts, IndInv, PollInv
    <3>3. CASE m[1] # p
      BY <1>2, <1>3, <2>1, <2>3, <3>1, <3>3 DEF IndInv, PollInv, WaitingInv
    <3> QED
      BY <3>2, <3>3
  <2> QED
    BY <1>4, <2>2, <2>3 DEF WaitingInv
<1>7. LoopInv'
  BY <1>3 DEF LoopInv, pollVars
<1> QED
  BY <1>4, <1>5, <1>6, <1>7 DEF IndInv

LEMMA GiveUpInv ==
  ASSUME IndInv, NEW p \in Sessions, GiveUp(p)
  PROVE  IndInv'
<1>1. /\ loop = "none" /\ waiting[p] > 0 /\ waiting' = [waiting EXCEPT ![p] = @ - 1]
      /\ UNCHANGED <<prefixVars, readyVars, pollVars, historyVars>>
  BY DEF GiveUp
<1>2. ListInv' /\ Linked' = Linked
  BY <1>1, SameLinked DEF IndInv, prefixVars
<1>3. PollInv'
  <2>1. waiting' \in [Sessions -> Nat]
    BY <1>1 DEF IndInv, PollInv
  <2> QED
    BY <1>1, <1>2, <2>1 DEF IndInv, PollInv, prefixVars, pollVars, readyVars, historyVars
<1>4. \A q \in Sessions : waiting'[q] > 0 => waiting[q] > 0
  BY <1>1 DEF IndInv, PollInv
<1>5. \A n \in Linked : n[1] \in Sessions
  BY LinkedFactsHold, NodeFacts DEF IndInv, LinkedFacts
<1>6. WaitingInv'
  BY <1>1, <1>2, <1>4, <1>5 DEF IndInv, WaitingInv, readyVars, historyVars
<1> QED
  BY <1>1, <1>2, <1>3, <1>6, OutsideLoops DEF readyVars

\* The steps of the loops leave the list alone.
LEMMA LoopList ==
  ASSUME IndInv, UNCHANGED prefixVars
  PROVE  /\ ListInv' /\ Linked' = Linked /\ \A n : From(n)' = From(n)
         /\ LinkedFacts /\ From(None) = {} /\ From(first) = Linked
         /\ \A n \in Linked : From(n) \subseteq {n} \cup From(next[n])
         /\ UNCHANGED <<first, next, allocated, deleting, teardown>>
<1>1. LinkedFacts
  BY LinkedFactsHold DEF IndInv
<1>2. UNCHANGED <<linkVars, allocated, deleting>>
  BY DEF prefixVars
<1> QED
  BY <1>1, <1>2, SameLinked, FromFacts DEF IndInv, prefixVars, linkVars

\* After the turn of a session that does not send and is not marked any more.
LEMMA TurnInv ==
  ASSUME IndInv, UNCHANGED prefixVars, InTurn, AfterTurn(FALSE), UNCHANGED datagram_ready,
         ready_to_send_datagrams' = [ready_to_send_datagrams EXCEPT ![prefix_ctx] = FALSE]
  PROVE  LoopInv'
<1> DEFINE marked == {n \in Linked : ready_to_send_datagrams[n]}
<1> DEFINE behind == From(next[previous_prefix_ctx])
<1>0. /\ Linked' = Linked /\ LinkedFacts /\ From(None) = {}
      /\ \A n : From(n)' = From(n)
      /\ \A n \in Linked : From(n) \subseteq {n} \cup From(next[n])
      /\ UNCHANGED <<next, deleting, teardown>>
  BY LoopList
<1>1. /\ prefix_ctx \in Linked /\ prefix_ctx \in Nodes /\ loop \in {"behind", "around"}
      /\ previous_prefix_ctx' = previous_prefix_ctx
  BY <1>0 DEF IndInv, PollInv, InTurn, AfterTurn, LinkedFacts
<1>2. still_active' = still_active
  BY <1>1 DEF AfterTurn, IndInv, PollInv
<1>3. marked' = marked \ {prefix_ctx}
  BY <1>0, <1>1 DEF IndInv, PollInv, LinkedFacts
<1>4. behind' = behind
  BY <1>0, <1>1
<1>5. /\ loop' = (IF loop = "around" /\ prefix_ctx = previous_prefix_ctx THEN "mark" ELSE loop)
      /\ prefix_ctx' = IF loop' = loop THEN next[prefix_ctx] ELSE None
  BY DEF AfterTurn
<1>6. From(prefix_ctx) \subseteq {prefix_ctx} \cup From(next[prefix_ctx])
  BY <1>0, <1>1
<1> HIDE DEF marked, behind
<1>7. previous_prefix_ctx # None =>
        /\ previous_prefix_ctx \in Linked
        /\ loop = "behind" => marked \cap behind \subseteq From(prefix_ctx) \/ still_active
        /\ loop = "around" => \/ still_active
                              \/ marked \subseteq From(prefix_ctx) /\ marked \cap behind = {}
  BY <1>1 DEF IndInv, LoopInv, marked, behind
<1>8. CASE loop = "around" /\ prefix_ctx = previous_prefix_ctx
  <2>1. marked' = {} \/ still_active'
    <3>1. From(prefix_ctx) \subseteq {prefix_ctx} \cup behind
      BY <1>6, <1>8 DEF behind
    <3>2. prefix_ctx # None
      BY DEF InTurn
    <3> QED
      BY <1>2, <1>3, <1>7, <1>8, <3>1, <3>2
  <2> QED
    BY <1>5, <1>8, <2>1 DEF LoopInv, marked
<1>9. CASE ~(loop = "around" /\ prefix_ctx = previous_prefix_ctx)
  <2>1. loop' = loop /\ prefix_ctx' = next[prefix_ctx]
    BY <1>5, <1>9
  <2>2. previous_prefix_ctx # None =>
          /\ previous_prefix_ctx' \in Linked'
          /\ loop' = "behind" => marked' \cap behind' \subseteq From(prefix_ctx') \/ still_active'
          /\ loop' = "around" => \/ still_active'
                                 \/ marked' \subseteq From(prefix_ctx') /\ marked' \cap behind' = {}
    BY <1>0, <1>1, <1>2, <1>3, <1>4, <1>6, <1>7, <2>1
  <2> QED
    BY <1>0, <1>1, <2>1, <2>2 DEF LoopInv, marked, behind
<1> QED
  BY <1>8, <1>9

LEMMA TurnPoll ==
  ASSUME IndInv, UNCHANGED prefixVars, InTurn, NEW served \in BOOLEAN, AfterTurn(served),
         NEW ready \in BOOLEAN, Mark(ready), datagram_ready' \in BOOLEAN,
         waiting' \in [Sessions -> Nat], unheard' \subseteq Sessions
  PROVE  PollInv'
<1>0. /\ Linked' = Linked /\ LinkedFacts /\ ListInv
      /\ UNCHANGED <<next, allocated, deleting, teardown>>
  BY LoopList DEF IndInv
<1>1. /\ prefix_ctx \in Linked /\ prefix_ctx \in Nodes /\ prefix_ctx \in allocated
      /\ loop \in {"behind", "around"}
  BY <1>0 DEF IndInv, PollInv, InTurn, LinkedFacts
<1>2. /\ ready_to_send_datagrams' \in [Nodes -> BOOLEAN]
      /\ ready_to_send_datagrams'[prefix_ctx] \in BOOLEAN
      /\ \A n \in Nodes \ allocated' : ~ready_to_send_datagrams'[n]
  BY <1>0, <1>1 DEF Mark, IndInv, PollInv
<1>3. /\ still_active' \in BOOLEAN
      /\ loop' \in {"behind", "around", "mark", "sent"}
      /\ previous_prefix_ctx' = previous_prefix_ctx
      /\ prefix_ctx' = next[prefix_ctx] \/ prefix_ctx' = None
  BY <1>1, <1>2 DEF AfterTurn, IndInv, PollInv
<1>4. next[prefix_ctx] \in Linked \cup {None}
  BY <1>0, <1>1 DEF LinkedFacts
<1> QED
  BY <1>0, <1>1, <1>2, <1>3, <1>4 DEF IndInv, PollInv

LEMMA SilentInv ==
  ASSUME IndInv, NotReady \/ Unasked \/ Silent
  PROVE  IndInv'
<1>1. /\ UNCHANGED <<prefixVars, datagram_ready, waiting>>
      /\ InTurn /\ AfterTurn(FALSE)
      /\ unheard' = IF Unasked THEN unheard \cup {prefix_ctx[1]} ELSE unheard
  <2>1. CASE NotReady
    <3>1. ~Unasked
      BY <2>1 DEF NotReady, Unasked
    <3> QED
      BY <2>1, <3>1 DEF NotReady, readyVars, historyVars
  <2>2. CASE Unasked
    BY <2>2 DEF Unasked
  <2>3. CASE Silent
    <3>1. ~Unasked
      BY <2>3 DEF Silent, Asked, Unasked
    <3> QED
      BY <2>3, <3>1 DEF Silent, Asked, historyVars
  <2> QED
    BY <2>1, <2>2, <2>3
<1>2. /\ ListInv' /\ Linked' = Linked /\ LinkedFacts
      /\ prefix_ctx \in Linked /\ prefix_ctx \in Nodes /\ prefix_ctx[1] \in Sessions
  <2>1. ListInv' /\ Linked' = Linked /\ LinkedFacts
    BY <1>1, LoopList
  <2> QED
    BY <1>1, <2>1, NodeFacts DEF IndInv, PollInv, InTurn, LinkedFacts
<1>3. Mark(FALSE)
  BY <1>2 DEF NotReady, Unasked, Silent, Mark, readyVars, IndInv, PollInv
<1>4. PollInv'
  <2>1. waiting' \in [Sessions -> Nat] /\ unheard' \subseteq Sessions /\ datagram_ready' \in BOOLEAN
    BY <1>1, <1>2 DEF IndInv, PollInv
  <2> QED
    BY <1>1, <1>3, <2>1, TurnPoll
<1>5. LoopInv'
  BY <1>1, <1>3, TurnInv DEF Mark
<1>6. WaitingInv'
  <2>1. \A p \in Sessions : waiting'[p] > 0 => \E n \in Linked' : n[1] = p
    BY <1>1, <1>2 DEF IndInv, WaitingInv
  <2>2. ASSUME NEW n \in Linked, waiting[n[1]] > 0, n[1] \notin unheard'
        PROVE  n # prefix_ctx /\ n \in Nodes /\ ready_to_send_datagrams[n]
    <3>1. n[1] \notin unheard
      BY <1>1, <2>2
    <3>2. ready_to_send_datagrams[n]
      BY <2>2, <3>1 DEF IndInv, WaitingInv
    <3>3. n # prefix_ctx
      <4>1. CASE NotReady
        BY <3>2, <4>1 DEF NotReady
      <4>2. CASE Unasked
        BY <1>1, <2>2, <4>2
      <4>3. CASE Silent
        BY <1>2, <2>2, <4>3 DEF Silent
      <4> QED
        BY <4>1, <4>2, <4>3
    <3> QED
      BY <1>2, <3>2, <3>3 DEF LinkedFacts
  <2>3. \A n \in Linked' : waiting'[n[1]] > 0 /\ n[1] \notin unheard' => ready_to_send_datagrams'[n]
    BY <1>1, <1>2, <1>3, <2>2 DEF Mark, IndInv, PollInv
  <2> QED
    BY <2>1, <2>3 DEF WaitingInv
<1> QED
  BY <1>2, <1>4, <1>5, <1>6 DEF IndInv

LEMMA SentInv ==
  ASSUME IndInv, Sends \/ Refused
  PROVE  IndInv'
<1>1. UNCHANGED <<prefixVars, unheard>> /\ InTurn /\ AfterTurn(TRUE) /\ waiting[prefix_ctx[1]] > 0
  BY DEF Sends, Refused, Asked
<1>2. /\ ListInv' /\ Linked' = Linked /\ LinkedFacts
      /\ prefix_ctx \in Linked /\ prefix_ctx \in Nodes /\ prefix_ctx[1] \in Sessions
  <2>1. ListInv' /\ Linked' = Linked /\ LinkedFacts
    BY <1>1, LoopList
  <2> QED
    BY <1>1, <2>1, NodeFacts DEF IndInv, PollInv, InTurn, LinkedFacts
<1>3. PICK ready \in BOOLEAN :
        /\ Mark(ready) /\ datagram_ready' \in BOOLEAN /\ waiting' \in [Sessions -> Nat]
        /\ \A q \in Sessions \ {prefix_ctx[1]} : waiting'[q] = waiting[q]
        /\ waiting'[prefix_ctx[1]] > 0 => ready
  <2>0. waiting \in [Sessions -> Nat] /\ datagram_ready \in BOOLEAN
    BY DEF IndInv, PollInv
  <2>1. CASE Refused
    BY <1>2, <2>0, <2>1 DEF Refused
  <2>2. CASE Sends
    <3>1. PICK new \in 0..1 :
            /\ waiting' = [waiting EXCEPT ![prefix_ctx[1]] = @ - 1 + new]
            /\ Mark(waiting[prefix_ctx[1]] > 1 \/ new = 1)
            /\ datagram_ready' = (datagram_ready \/ new = 1)
      BY <2>2 DEF Sends
    <3>2. /\ waiting'[prefix_ctx[1]] > 0 => waiting[prefix_ctx[1]] > 1 \/ new = 1
          /\ waiting' \in [Sessions -> Nat]
          /\ \A q \in Sessions \ {prefix_ctx[1]} : waiting'[q] = waiting[q]
      BY <1>1, <1>2, <2>0, <3>1
    <3>3. (waiting[prefix_ctx[1]] > 1 \/ new = 1) \in BOOLEAN /\ datagram_ready' \in BOOLEAN
      BY <2>0, <3>1
    <3> QED
      BY <3>1, <3>2, <3>3, Zenon
  <2> QED
    BY <2>1, <2>2
<1>4. PollInv'
  <2>1. unheard' \subseteq Sessions
    BY <1>1 DEF IndInv, PollInv
  <2> QED
    BY <1>1, <1>3, <2>1, TurnPoll
<1>5. LoopInv'
  <2>1. loop' = "sent"
    BY <1>1 DEF AfterTurn
  <2> QED
    BY <2>1 DEF LoopInv
<1>6. WaitingInv'
  <2>1. \A q \in Sessions : waiting'[q] > 0 => waiting[q] > 0
    BY <1>1, <1>3
  <2>2. \A n \in Linked : n \in Nodes /\ n[1] \in Sessions /\ (n[1] = prefix_ctx[1] => n = prefix_ctx)
    BY <1>2, NodeFacts DEF LinkedFacts
  <2>3. \A q \in Sessions : waiting'[q] > 0 => \E n \in Linked' : n[1] = q
    BY <1>2, <2>1 DEF IndInv, WaitingInv
  <2>4. ASSUME NEW n \in Linked, waiting'[n[1]] > 0, n[1] \notin unheard
        PROVE  ready_to_send_datagrams'[n]
    <3>1. n = prefix_ctx => ready
      BY <1>3, <2>4
    <3>2. ready_to_send_datagrams[n]
      BY <2>1, <2>2, <2>4 DEF IndInv, WaitingInv
    <3> QED
      BY <1>3, <2>2, <3>1, <3>2 DEF Mark, IndInv, PollInv
  <2> QED
    BY <1>1, <1>2, <2>3, <2>4 DEF WaitingInv
<1> QED
  BY <1>2, <1>4, <1>5, <1>6 DEF IndInv

LEMMA PrepareInv ==
  ASSUME IndInv, Prepare
  PROVE  IndInv'
<1>1. /\ UNCHANGED <<prefixVars, readyVars, waiting, unheard>>
      /\ previous_prefix_ctx' = h3zero_find_stream_prefix(last_datagram_prefix)
      /\ prefix_ctx' = IF previous_prefix_ctx' = None THEN None ELSE next[previous_prefix_ctx']
      /\ loop' = "behind" /\ still_active' = FALSE /\ deleting = <<>> /\ teardown = "no"
  BY DEF Prepare
<1>2. /\ ListInv' /\ Linked' = Linked /\ LinkedFacts /\ \A n : From(n)' = From(n)
      /\ UNCHANGED <<next, allocated, deleting, teardown>>
  BY <1>1, LoopList
<1>3. previous_prefix_ctx' \in Linked \cup {None} /\ prefix_ctx' \in Linked \cup {None}
  <2>1. previous_prefix_ctx' \in Linked \cup {None}
    <3> DEFINE found == {n \in Linked : n[1] = last_datagram_prefix}
    <3>1. previous_prefix_ctx' = IF found = {} THEN None ELSE CHOOSE n \in found : TRUE
      BY <1>1 DEF h3zero_find_stream_prefix
    <3>2. found # {} => (CHOOSE n \in found : TRUE) \in found
      BY Zenon
    <3> QED
      BY <3>1, <3>2
  <2> QED
    BY <1>1, <1>2, <2>1 DEF LinkedFacts
<1>4. PollInv'
  BY <1>1, <1>2, <1>3 DEF IndInv, PollInv, readyVars
<1>5. WaitingInv'
  BY <1>1, <1>2 DEF IndInv, WaitingInv, readyVars
<1>6. LoopInv'
  <2>1. previous_prefix_ctx' # None =>
          /\ previous_prefix_ctx' \in Linked' /\ prefix_ctx' = next[previous_prefix_ctx']
          /\ From(prefix_ctx)' = From(next[previous_prefix_ctx])'
    BY <1>1, <1>2, <1>3
  <2> QED
    BY <1>1, <2>1 DEF LoopInv
<1> QED
  BY <1>2, <1>4, <1>5, <1>6 DEF IndInv

LEMMA ListOverInv ==
  ASSUME IndInv, ListOver
  PROVE  IndInv'
<1>1. /\ UNCHANGED <<prefixVars, readyVars, previous_prefix_ctx, still_active, waiting, historyVars>>
      /\ loop \in {"behind", "around"} /\ prefix_ctx = None
      /\ IF loop = "behind" THEN loop' = "around" /\ prefix_ctx' = first
         ELSE loop' = "recheck" /\ UNCHANGED prefix_ctx
  BY DEF ListOver
<1>2. /\ ListInv' /\ Linked' = Linked /\ LinkedFacts /\ (\A n : From(n)' = From(n))
      /\ From(None) = {} /\ From(first) = Linked
      /\ UNCHANGED <<first, next, allocated, deleting, teardown>>
  BY <1>1, LoopList
<1>3. PollInv'
  BY <1>1, <1>2 DEF IndInv, PollInv, readyVars, historyVars, LinkedFacts
<1>4. WaitingInv'
  BY <1>1, <1>2 DEF IndInv, WaitingInv, readyVars, historyVars
<1>5. LoopInv'
  <2>1. CASE loop = "behind"
    <3> DEFINE marked == {n \in Linked : ready_to_send_datagrams[n]}
    <3> DEFINE behind == From(next[previous_prefix_ctx])
    <3>1. marked' = marked /\ behind' = behind /\ From(prefix_ctx)' = Linked
      BY <1>1, <1>2, <2>1 DEF readyVars
    <3>2. marked \subseteq Linked
      OBVIOUS
    <3> HIDE DEF marked, behind
    <3>3. previous_prefix_ctx # None =>
            previous_prefix_ctx \in Linked /\ (marked \cap behind = {} \/ still_active)
      BY <1>1, <1>2, <2>1 DEF IndInv, LoopInv, marked, behind
    <3>4. previous_prefix_ctx' # None =>
            /\ previous_prefix_ctx' \in Linked'
            /\ \/ still_active'
               \/ marked' \subseteq From(prefix_ctx)' /\ marked' \cap behind' = {}
      BY <1>1, <1>2, <3>1, <3>2, <3>3
    <3>5. loop' = "around"
      BY <1>1, <2>1
    <3> QED
      BY <3>4, <3>5 DEF LoopInv, marked, behind
  <2>2. CASE loop = "around"
    <3>1. loop' = "recheck"
      BY <1>1, <2>2
    <3> QED
      BY <3>1 DEF LoopInv
  <2> QED
    BY <1>1, <2>1, <2>2
<1> QED
  BY <1>2, <1>3, <1>4, <1>5 DEF IndInv

LEMMA MarkInv ==
  ASSUME IndInv, MarkConnection
  PROVE  IndInv'
<1>1. /\ loop \in {"sent", "recheck", "mark"} /\ loop' = "none"
      /\ datagram_ready' = (still_active \/ (loop # "mark"
                                              /\ \E n \in Linked : ready_to_send_datagrams[n]))
      /\ prefix_ctx' = None /\ previous_prefix_ctx' = None /\ still_active' = FALSE
      /\ UNCHANGED <<prefixVars, ready_to_send_datagrams, waiting, historyVars>>
  BY DEF MarkConnection
<1>2. /\ ListInv' /\ Linked' = Linked /\ UNCHANGED <<allocated, deleting, teardown>>
  BY <1>1, LoopList
<1>3. datagram_ready' \in BOOLEAN
  BY <1>1 DEF IndInv, PollInv
<1>4. PollInv'
  BY <1>1, <1>2, <1>3 DEF IndInv, PollInv, historyVars
<1>5. WaitingInv'
  BY <1>1, <1>2 DEF IndInv, WaitingInv, historyVars
<1>6. LoopInv'
  <2>1. {n \in Linked : ready_to_send_datagrams[n]} = {} \/ datagram_ready'
    BY <1>1 DEF IndInv, LoopInv
  <2> QED
    BY <1>1, <1>2, <2>1 DEF LoopInv
<1> QED
  BY <1>2, <1>4, <1>5, <1>6 DEF IndInv

LEMMA NextInv ==
  ASSUME IndInv, [Next]_vars
  PROVE  IndInv'
<1>1. CASE UNCHANGED vars
  <2>1. UNCHANGED <<prefixVars, readyVars, pollVars, waiting, historyVars>>
    BY <1>1 DEF vars
  <2>2. /\ ListInv' /\ Linked' = Linked /\ (\A n : From(n)' = From(n))
        /\ UNCHANGED <<next, allocated, deleting, teardown>>
    BY <2>1, LoopList
  <2>3. PollInv' /\ WaitingInv'
    BY <2>1, <2>2 DEF IndInv, PollInv, WaitingInv, readyVars, pollVars, historyVars
  <2>4. LoopInv'
    BY <2>1, <2>2 DEF IndInv, LoopInv, readyVars, pollVars
  <2> QED
    BY <2>2, <2>3, <2>4 DEF IndInv
<1>2. ASSUME NEW p \in Sessions,
             Declare(p) \/ DeleteSession(p) \/ h3zero_set_datagram_ready(p) \/ GiveUp(p)
      PROVE  IndInv'
  BY <1>2, DeclareInv, DeleteInv, ReadyInv, GiveUpInv
<1>3. CASE DeleteReturns \/ Teardown
  BY <1>3, DeleteInv
<1>4. CASE PrepareStep
  BY <1>4, PrepareInv, SilentInv, SentInv, ListOverInv, MarkInv DEF PrepareStep
<1> QED
  BY <1>1, <1>2, <1>3, <1>4 DEF Next

\* The list is one, whatever the application does in its callbacks, and the marks and
\* the datagrams that wait are in step with it.
THEOREM Invariance == Spec => []IndInv
<1>1. Init => IndInv
  BY InitInv
<1>2. IndInv /\ [Next]_vars => IndInv'
  BY NextInv
<1> QED
  BY <1>1, <1>2, PTL DEF Spec

LEMMA ListAgrees ==
  ASSUME ListInv
  PROVE  LinksAgree
<1>1. PICK s \in Seq(Nodes) : IsList(s)
  BY DEF ListInv
<1>2. NodesInv /\ Shape(s)
  BY <1>1, ListShape DEF ListInv
<1>3. Linked = {s[i] : i \in 1..Len(s)}
  BY <1>1, <1>2, LinkedIsList
<1> DEFINE live == allocated \ Range(deleting)
<1>4. live = {s[i] : i \in 1..Len(s)}
  BY <1>1, <1>2 DEF IsList, NodesInv, Shape
<1>5. /\ Linked \cap Range(deleting) = {}
      /\ Range(deleting) \subseteq allocated
      /\ \A i, j \in DOMAIN deleting : deleting[i] = deleting[j] => i = j
  <2>1. Linked \cap Range(deleting) = {} /\ Range(deleting) \subseteq allocated
    BY <1>2, <1>3 DEF Shape
  <2>2. DOMAIN deleting = 1..Len(deleting)
    BY <1>2 DEF Shape
  <2>3. \A i, j \in 1..Len(deleting) : deleting[i] = deleting[j] => i = j
    BY <1>2 DEF NodesInv
  <2> QED
    BY <2>1, <2>2, <2>3
<1> HIDE DEF live
<1>6. /\ Len(s) \in Nat /\ (s = <<>> <=> Len(s) = 0)
      /\ \A i \in 1..Len(s) : s[i] # None /\ s[i] \in live
      /\ first = IF s = <<>> THEN None ELSE s[1]
      /\ last = IF s = <<>> THEN None ELSE s[Len(s)]
      /\ \A i \in 1..Len(s) :
           /\ next[s[i]] = IF i = Len(s) THEN None ELSE s[i + 1]
           /\ previous[s[i]] = IF i = 1 THEN None ELSE s[i - 1]
  BY <1>1, <1>2, <1>4 DEF IsList, Shape
<1>7. /\ first = None <=> last = None
      /\ first # None => first \in live /\ previous[first] = None
      /\ last # None => last \in live /\ next[last] = None
  <2>1. Len(s) # 0 => 1 \in 1..Len(s) /\ Len(s) \in 1..Len(s)
    BY <1>6
  <2> QED
    BY <1>6, <2>1
<1>8. ASSUME NEW i \in 1..Len(s)
      PROVE  /\ next[s[i]] # None => next[s[i]] \in live /\ previous[next[s[i]]] = s[i]
             /\ next[s[i]] = None => s[i] = last
  <2>1. CASE i = Len(s)
    BY <1>6, <2>1
  <2>2. CASE i # Len(s)
    <3>1. i + 1 \in 1..Len(s) /\ i + 1 # 1 /\ (i + 1) - 1 = i
      BY <1>6, <2>2
    <3> QED
      BY <1>6, <2>2, <3>1
  <2> QED
    BY <2>1, <2>2
<1>9. ASSUME NEW i \in 1..Len(s)
      PROVE  /\ previous[s[i]] # None => previous[s[i]] \in live /\ next[previous[s[i]]] = s[i]
             /\ previous[s[i]] = None => s[i] = first
  <2>1. CASE i = 1
    BY <1>6, <2>1
  <2>2. CASE i # 1
    <3>1. i - 1 \in 1..Len(s) /\ i - 1 # Len(s) /\ (i - 1) + 1 = i
      BY <1>6, <2>2
    <3> QED
      BY <1>6, <2>2, <3>1
  <2> QED
    BY <2>1, <2>2
<1> QED
  BY <1>4, <1>5, <1>7, <1>8, <1>9 DEF LinksAgree, live

\* The links agree in both directions and with the ends, lead to live nodes only, and no
\* node is freed twice or while it is linked: for any number of sessions, of nodes and of
\* calls in progress inside each other.
THEOREM LinksAgreeHolds == Spec => []LinksAgree
<1>1. IndInv => LinksAgree
  BY ListAgrees DEF IndInv
<1> QED
  BY <1>1, Invariance, PTL

\* No session that has marked itself is forgotten by the loops, and one that wants to send
\* is marked unless its mark was taken without asking it.
THEOREM ConnectionReadyHolds == Spec => []ConnectionReady
<1>1. IndInv => ConnectionReady
  BY DEF IndInv, LoopInv, WaitingInv, ConnectionReady
<1> QED
  BY <1>1, Invariance, PTL
-----------------------------------------------------------------------------
(* The list implements the table                                           *)

OrderMeaning == \A s : NodesInv /\ IsList(s) => PrefixOrder = [i \in 1..Len(s) |-> s[i][1]]

LEMMA OrderMeaningHolds == OrderMeaning
<1> SUFFICES ASSUME NEW s, NodesInv, IsList(s)
             PROVE  PrefixOrder = [i \in 1..Len(s) |-> s[i][1]]
  BY DEF OrderMeaning
<1>1. Shape(s) /\ Linked = {s[i] : i \in 1..Len(s)}
  BY ListShape, LinkedIsList
<1>2. /\ Len(s) \in Nat /\ s \in [1..Len(s) -> Linked] /\ DOMAIN s = 1..Len(s)
      /\ \A i, j \in 1..Len(s) : s[i] = s[j] => i = j
  BY <1>1 DEF Shape
<1>3. Cardinality(Linked) = Len(s)
  <2>1. s \in Injection(1..Len(s), Linked)
    BY <1>2 DEF Injection, IsInjective
  <2>2. s \in Surjection(1..Len(s), Linked)
    BY <1>1, <1>2 DEF Surjection
  <2>3. s \in Bijection(1..Len(s), Linked)
    BY <2>1, <2>2 DEF Bijection
  <2> QED
    BY <1>2, <2>3, FS_CountingElements DEF ExistsBijection
<1> DEFINE IsWalk(w) == \A i \in DOMAIN w : w[i] = IF i = 1 THEN first ELSE next[w[i - 1]]
<1>4. IsWalk(s)
  <2> SUFFICES ASSUME NEW i \in 1..Len(s)
               PROVE  s[i] = IF i = 1 THEN first ELSE next[s[i - 1]]
    BY <1>2
  <2>1. CASE i = 1
    BY <2>1 DEF IsList
  <2>2. CASE i # 1
    <3>1. i - 1 \in 1..Len(s) /\ i - 1 # Len(s) /\ (i - 1) + 1 = i
      BY <1>2, <2>2
    <3> QED
      BY <2>2, <3>1 DEF IsList
  <2> QED
    BY <2>1, <2>2
<1>5. ASSUME NEW w \in [1..Len(s) -> Linked], IsWalk(w)
      PROVE  w = s
  <2> DEFINE T == {i \in 1..Len(s) : w[i] # s[i]}
  <2>1. T = {}
    <3> SUFFICES ASSUME T # {} PROVE FALSE
      OBVIOUS
    <3>1. T \in SUBSET Nat
      OBVIOUS
    <3> HIDE DEF T
    <3>2. PICK m \in T : \A k \in T : m <= k
      BY <3>1, Least
    <3>3. m \in 1..Len(s) /\ w[m] # s[m]
      BY <3>2 DEF T
    <3>4. w[m] = (IF m = 1 THEN first ELSE next[w[m - 1]])
      BY <1>5, <3>3
    <3>5. s[m] = (IF m = 1 THEN first ELSE next[s[m - 1]])
      BY <1>2, <1>4, <3>3
    <3>6. m # 1
      BY <3>3, <3>4, <3>5
    <3>7. m - 1 \in 1..Len(s) /\ m - 1 < m
      BY <1>2, <3>3, <3>6
    <3>8. m - 1 \notin T
      BY <3>1, <3>2, <3>7
    <3>9. w[m - 1] = s[m - 1]
      BY <3>7, <3>8 DEF T
    <3> QED
      BY <3>3, <3>4, <3>5, <3>6, <3>9
  <2>2. \A i \in 1..Len(s) : w[i] = s[i]
    BY <2>1
  <2> QED
    BY <1>2, <2>2
<1>6. Walk = s
  <2>1. Walk = CHOOSE w \in [1..Len(s) -> Linked] : IsWalk(w)
    BY <1>3 DEF Walk
  <2> HIDE DEF IsWalk
  <2>2. \E w \in [1..Len(s) -> Linked] : IsWalk(w)
    BY <1>2, <1>4
  <2>3. Walk \in [1..Len(s) -> Linked] /\ IsWalk(Walk)
    BY <2>1, <2>2, Zenon
  <2> QED
    BY <1>5, <2>3
<1> QED
  BY <1>2, <1>6 DEF PrefixOrder

\* A declaration appends, a deletion takes out.
LEMMA DeclareOrder ==
  ASSUME ListInv, NEW p \in Sessions, h3zero_declare_stream_prefix(p)
  PROVE  Table!Declare(p)
<1>1. PICK s \in Seq(Nodes) : NodesInv /\ IsList(s) /\ Shape(s)
  BY ListShape DEF ListInv
<1>2. PICK n \in Nodes :
        /\ n[1] = p /\ \A i \in 1..Len(s) : s[i][1] # p
        /\ NodesInv' /\ IsList(Append(s, n))'
  BY <1>1, DeclareStep
<1> DEFINE t == Append(s, n)
<1>3. /\ Len(t) = Len(s) + 1 /\ t[Len(s) + 1] = n /\ Len(s) \in Nat
      /\ \A i \in 1..Len(s) : t[i] = s[i] /\ s[i][1] \in Sessions
  BY <1>1, NodeFacts DEF Shape
<1>4. IsList(t)'
  BY <1>2
<1> HIDE DEF t
<1>5. OrderMeaning /\ OrderMeaning'
  BY OrderMeaningHolds, PTL
<1>6. /\ PrefixOrder = [i \in 1..Len(s) |-> s[i][1]]
      /\ PrefixOrder' = [i \in 1..Len(t) |-> t[i][1]]
  BY <1>1, <1>2, <1>4, <1>5 DEF OrderMeaning
<1> DEFINE u == [i \in 1..Len(s) |-> s[i][1]]
<1> DEFINE v == [i \in 1..Len(t) |-> t[i][1]]
<1>7. v = Append(u, p)
  <2>1. u \in Seq(Sessions) /\ Len(u) = Len(s) /\ \A i \in 1..Len(s) : u[i] = s[i][1]
    BY <1>3, FunctionIsSeq
  <2>2. Len(t) \in Nat /\ \A i \in 1..Len(t) : i \in 1..Len(s) \/ i = Len(s) + 1
    BY <1>3
  <2>3. \A i \in 1..Len(t) : t[i][1] \in Sessions
    BY <1>2, <1>3, <2>2
  <2>4. v \in Seq(Sessions) /\ Len(v) = Len(t) /\ \A i \in 1..Len(t) : v[i] = t[i][1]
    BY <2>2, <2>3, FunctionIsSeq
  <2> HIDE DEF u, v
  <2>5. /\ Append(u, p) \in Seq(Sessions) /\ Len(Append(u, p)) = Len(s) + 1
        /\ \A i \in 1..Len(s) : Append(u, p)[i] = u[i]
        /\ Append(u, p)[Len(s) + 1] = p
    BY <2>1
  <2>6. \A i \in 1..Len(v) : v[i] = Append(u, p)[i]
    BY <1>2, <1>3, <2>1, <2>2, <2>4, <2>5
  <2> QED
    BY <1>3, <2>4, <2>5, <2>6, SeqEqual
<1>8. ~\E i \in DOMAIN u : u[i] = p
  BY <1>2
<1> QED
  BY <1>6, <1>7, <1>8 DEF Table!Declare, Table!Has

LEMMA DeleteOrder ==
  ASSUME ListInv, NEW p, h3zero_delete_stream_prefix(p)
  PROVE  p \in Sessions /\ Table!Delete(p)
<1>1. PICK s \in Seq(Nodes) : NodesInv /\ IsList(s) /\ Shape(s)
  BY ListShape DEF ListInv
<1>2. PICK k \in 1..Len(s) : s[k] = h3zero_find_stream_prefix(p) /\ s[k][1] = p
  BY <1>1, Find DEF h3zero_delete_stream_prefix
<1>3. Unlink(s[k]) /\ deleting' = Append(deleting, s[k]) /\ UNCHANGED allocated
  BY <1>2 DEF h3zero_delete_stream_prefix
<1> DEFINE t == Without(s, k)
<1>4. NodesInv' /\ IsList(t)'
  BY <1>1, <1>3, UnlinkStep
<1>5. DOMAIN t = 1..(Len(s) - 1) /\ \A i \in DOMAIN t : t[i] = IF i < k THEN s[i] ELSE s[i + 1]
  BY DEF Without
<1> HIDE DEF t
<1>6. /\ Len(s) \in Nat /\ t \in Seq(Nodes) /\ 1..Len(t) = 1..(Len(s) - 1)
      /\ \A i \in 1..Len(s) : s[i][1] \in Sessions
  BY <1>1, <1>4, <1>5, NodeFacts DEF IsList, Shape
<1>7. OrderMeaning /\ OrderMeaning'
  BY OrderMeaningHolds, PTL
<1>8. /\ PrefixOrder = [i \in 1..Len(s) |-> s[i][1]]
      /\ PrefixOrder' = [i \in 1..(Len(s) - 1) |-> t[i][1]]
  BY <1>1, <1>4, <1>6, <1>7 DEF OrderMeaning
<1> DEFINE u == [i \in 1..Len(s) |-> s[i][1]]
<1> DEFINE v == [i \in 1..(Len(s) - 1) |-> t[i][1]]
<1>9. Len(u) = Len(s) /\ DOMAIN u = 1..Len(s) /\ u[k] = p
  BY <1>2, <1>6, FunctionIsSeq
<1>10. v = [j \in 1..(Len(u) - 1) |-> IF j < k THEN u[j] ELSE u[j + 1]]
  <2>1. \A j \in 1..(Len(s) - 1) : t[j][1] = IF j < k THEN u[j] ELSE u[j + 1]
    <3>1. \A j \in 1..(Len(s) - 1) : j \in 1..Len(s) /\ j + 1 \in 1..Len(s)
      BY <1>6
    <3> QED
      BY <1>5, <3>1
  <2>2. 1..(Len(u) - 1) = 1..(Len(s) - 1)
    BY <1>9
  <2> HIDE DEF u
  <2> QED
    BY <2>1, <2>2
<1> HIDE DEF u, v
<1>11. PrefixOrder = u /\ PrefixOrder' = v
  BY <1>8 DEF u, v
<1> QED
  BY <1>2, <1>6, <1>9, <1>10, <1>11 DEF Table!Delete

LEMMA FreeOrder ==
  ASSUME ListInv, Free
  PROVE  PrefixOrder' = PrefixOrder
<1>1. PICK s \in Seq(Nodes) : NodesInv /\ IsList(s)
  BY DEF ListInv
<1>2. NodesInv' /\ IsList(s)'
  BY <1>1, FreeStep
<1>3. OrderMeaning /\ OrderMeaning'
  BY OrderMeaningHolds, PTL
<1> QED
  BY <1>1, <1>2, <1>3 DEF OrderMeaning

LEMMA SameOrder ==
  ASSUME ListInv, UNCHANGED <<linkVars, allocated, deleting>>
  PROVE  PrefixOrder' = PrefixOrder
<1>1. Linked' = Linked /\ UNCHANGED <<first, next>>
  BY SameLinked DEF linkVars
<1> QED
  BY <1>1 DEF PrefixOrder, Walk

LEMMA TableStep ==
  ASSUME ListInv, [Next]_vars
  PROVE  [Table!Next]_PrefixOrder
<1>1. ASSUME UNCHANGED prefixVars
      PROVE  UNCHANGED PrefixOrder
  BY <1>1, SameOrder DEF prefixVars
<1>2. ASSUME NEW p \in Sessions, Declare(p)
      PROVE  Table!Declare(p)
  BY <1>2, DeclareOrder DEF Declare
<1>3. ASSUME NEW p \in Sessions, DeleteSession(p)
      PROVE  Table!Delete(p) \/ UNCHANGED PrefixOrder
  BY <1>3, DeleteOrder, SameOrder DEF DeleteSession, Delete, StreamGone
<1>4. CASE DeleteReturns
  BY <1>4, FreeOrder DEF DeleteReturns
<1>5. CASE Teardown
  <2>1. CASE first # None
    <3>1. first[1] \in Sessions /\ Table!Delete(first[1])
      BY <1>5, <2>1, DeleteOrder DEF Teardown, DeleteAll
    <3> QED
      BY <3>1 DEF Table!Next
  <2>2. CASE first = None
    BY <1>5, <2>2, SameOrder DEF Teardown, DeleteAll
  <2> QED
    BY <2>1, <2>2
<1>6. ASSUME NEW p \in Sessions, h3zero_set_datagram_ready(p) \/ GiveUp(p)
      PROVE  UNCHANGED prefixVars
  BY <1>6 DEF h3zero_set_datagram_ready, GiveUp
<1>7. CASE PrepareStep
  <2>1. UNCHANGED prefixVars
    BY <1>7 DEF PrepareStep, Prepare, NotReady, Unasked, Sends, Refused, Silent, ListOver,
                MarkConnection
  <2> QED
    BY <1>1, <2>1
<1>8. CASE UNCHANGED vars
  BY <1>1, <1>8 DEF vars
<1> QED
  BY <1>1, <1>2, <1>3, <1>4, <1>5, <1>6, <1>7, <1>8 DEF Next, Table!Next

\* The list implements the table of prefixes: appended once, taken out alone, in order.
THEOREM TableRefinement == Spec => TableKept
<1>1. Init => Table!Init
  <2> SUFFICES ASSUME Init PROVE PrefixOrder = <<>>
    BY DEF Table!Init
  <2>1. NodesInv /\ IsList(<<>>)
    <3>1. ListInv
      BY InitInv DEF IndInv
    <3>2. PICK s \in Seq(Nodes) : IsList(s)
      BY <3>1 DEF ListInv
    <3>3. allocated = {} /\ s = <<>>
      <4>1. first = None /\ allocated = {}
        BY DEF Init, PrefixInit
      <4>2. s # <<>> => s[1] \in Nodes
        OBVIOUS
      <4> QED
        BY <3>2, <4>1, <4>2, NodeFacts DEF IsList
    <3> QED
      BY <3>1, <3>2, <3>3 DEF ListInv
  <2>2. PrefixOrder = [i \in 1..Len(<<>>) |-> <<>>[i][1]]
    BY <2>1, OrderMeaningHolds DEF OrderMeaning
  <2>3. 1..Len(<<>>) = {}
    OBVIOUS
  <2> QED
    BY <2>2, <2>3
<1>2. IndInv /\ [Next]_vars => [Table!Next]_PrefixOrder
  BY TableStep DEF IndInv
<1> QED
  BY <1>1, <1>2, Invariance, PTL DEF Spec, TableKept, Table!Spec
-----------------------------------------------------------------------------
(***************************************************************************)
(* Capsules.  Each capsule sent has its place in the stream (Places), and  *)
(* the reader is between two capsules, in the header of one or in its      *)
(* value (Reading).                                                        *)
(***************************************************************************)

\* What the bytes of the wire are.
WireBytes == Nat \X Nat \X Nat

\* The i-th byte of a capsule, and its size.
HeadSize(c) == c.tw + c.lw
Size(c) == c.tw + c.lw + Len(c.value)
ByteAt(c, i) ==
  IF i <= c.tw THEN <<c.type, c.tw, i>>
  ELSE IF i <= c.tw + c.lw THEN <<Len(c.value), c.lw, i - c.tw>>
  ELSE <<c.value[i - c.tw - c.lw], 1, 1>>

\* Capsule c stands behind the p-th byte of w.
Stands(c, p, w) ==
  /\ p \in Nat /\ p + Size(c) <= Len(w)
  /\ \A i \in 1..Size(c) : w[p + i] = ByteAt(c, i)

\* The capsules of s stand in w, each at its place.
Places(place, s, w) ==
  /\ place \in [1..(Len(s) + 1) -> Nat] /\ place[1] = 0 /\ place[Len(s) + 1] = Len(w)
  /\ \A i \in 1..Len(s) : place[i + 1] = place[i] + Size(s[i]) /\ Stands(s[i], place[i], w)

\* The bytes of b, as far as they go, are those of a capsule.
Starts(b, c) == b \in Seq(WireBytes) /\ \A i \in 1..Len(b) : i <= Size(c) => b[i] = ByteAt(c, i)
-----------------------------------------------------------------------------
(* Parts of sequences                                                      *)

LEMMA PartOf ==
  ASSUME NEW S, NEW t \in Seq(S), NEW p \in Nat, NEW n \in Nat, p + n <= Len(t)
  PROVE  /\ SubSeq(t, p + 1, p + n) \in Seq(S) /\ Len(SubSeq(t, p + 1, p + n)) = n
         /\ \A i \in 1..n : SubSeq(t, p + 1, p + n)[i] = t[p + i]
<1> DEFINE u == SubSeq(t, p + 1, p + n)
<1>1. p + 1 \in Int /\ p + n \in Int /\ \A i \in (p + 1)..(p + n) : t[i] \in S
  OBVIOUS
<1>2. /\ u \in Seq(S)
      /\ Len(u) = IF p + 1 <= p + n THEN p + n - (p + 1) + 1 ELSE 0
      /\ \A i \in 1..(p + n - (p + 1) + 1) : u[i] = t[p + 1 + i - 1]
  BY <1>1, SubSeqProperties
<1>3. p + n - (p + 1) + 1 = n /\ \A i \in 1..n : p + 1 + i - 1 = p + i
  OBVIOUS
<1> HIDE DEF u
<1>4. u \in Seq(S) /\ Len(u) = n
  BY <1>2
<1>5. \A i \in 1..n : u[i] = t[p + i]
  BY <1>2, <1>3, Zenon
<1> QED
  BY <1>4, <1>5 DEF u

LEMMA FrontPart ==
  ASSUME NEW S, NEW t \in Seq(S), NEW n \in Nat, n <= Len(t)
  PROVE  /\ SubSeq(t, 1, n) \in Seq(S) /\ Len(SubSeq(t, 1, n)) = n
         /\ \A i \in 1..n : SubSeq(t, 1, n)[i] = t[i]
<1>1. 0 \in Nat /\ 0 + 1 = 1 /\ 0 + n = n /\ 0 + n <= Len(t)
  OBVIOUS
<1>2. /\ SubSeq(t, 0 + 1, 0 + n) \in Seq(S) /\ Len(SubSeq(t, 0 + 1, 0 + n)) = n
      /\ \A i \in 1..n : SubSeq(t, 0 + 1, 0 + n)[i] = t[0 + i]
  BY <1>1, PartOf, Zenon
<1>3. /\ SubSeq(t, 1, n) \in Seq(S) /\ Len(SubSeq(t, 1, n)) = n
      /\ \A i \in 1..n : SubSeq(t, 1, n)[i] = t[0 + i]
  BY <1>1, <1>2, Zenon
<1>4. \A i \in 1..n : 0 + i = i
  OBVIOUS
<1> QED
  BY <1>3, <1>4, Zenon

LEMMA NoPart ==
  ASSUME NEW t, NEW p \in Int, NEW n \in Int, n <= p
  PROVE  SubSeq(t, p + 1, n) = <<>>
<1>1. p + 1 \in Int /\ n < p + 1
  OBVIOUS
<1> QED
  BY <1>1, SubSeqEmpty

LEMMA JoinParts ==
  ASSUME NEW S, NEW t \in Seq(S), NEW p \in Nat, NEW n \in Nat, NEW m \in Nat, p + n + m <= Len(t)
  PROVE  SubSeq(t, p + 1, p + n) \o SubSeq(t, p + n + 1, p + n + m) = SubSeq(t, p + 1, p + n + m)
<1>1. /\ p + 1 \in 1..Len(t) + 1
      /\ p + n \in (p + 1) - 1..Len(t)
      /\ p + n + m \in p + n..Len(t)
  OBVIOUS
<1> QED
  BY <1>1, ConcatAdjacentSubSeq, Zenon

\* x is s with t behind it.
Joined(x, s, t) ==
  /\ Len(x) = Len(s) + Len(t)
  /\ \A i \in 1..Len(s) : x[i] = s[i]
  /\ \A i \in 1..Len(t) : x[Len(s) + i] = t[i]

LEMMA ConcatFacts ==
  ASSUME NEW S, NEW s \in Seq(S), NEW t \in Seq(S)
  PROVE  s \o t \in Seq(S) /\ Joined(s \o t, s, t)
<1> DEFINE u == s \o t
           m == Len(s)
           n == Len(t)
<1>1. /\ u \in Seq(S) /\ Len(u) = m + n
      /\ \A i \in 1..(m + n) : u[i] = IF i <= m THEN s[i] ELSE t[i - m]
  BY ConcatProperties
<1>2. m \in Nat /\ n \in Nat
  BY LenProperties
<1> HIDE DEF u, m, n
<1>3. \A i \in 1..m : u[i] = s[i]
  <2> TAKE i \in 1..m
  <2>1. i \in 1..(m + n) /\ i <= m
    BY <1>2
  <2> QED
    BY <1>1, <2>1, Zenon
<1>4. \A i \in 1..n : u[m + i] = t[i]
  <2> TAKE i \in 1..n
  <2> DEFINE k == m + i
  <2>1. k \in 1..(m + n) /\ ~(k <= m) /\ k - m = i
    BY <1>2
  <2> HIDE DEF k
  <2>2. u[k] = t[k - m]
    BY <1>1, <2>1, Zenon
  <2> QED
    BY <2>1, <2>2 DEF k
<1>5. Joined(u, s, t)
  BY <1>1, <1>3, <1>4, Zenon DEF Joined, m, n
<1> QED
  BY <1>1, <1>5 DEF u
-----------------------------------------------------------------------------
(* The bytes of a capsule                                                  *)

LEMMA WideFacts ==
  ASSUME NEW v \in Nat, NEW m \in Nat
  PROVE  /\ Wide(v, m) \in Seq(WireBytes) /\ Len(Wide(v, m)) = m
         /\ \A i \in 1..m : Wide(v, m)[i] = <<v, m, i>>
BY DEF Wide, WireBytes

LEMMA BytesFacts ==
  ASSUME NEW x \in Seq(Octets)
  PROVE  /\ Bytes(x) \in Seq(WireBytes) /\ Len(Bytes(x)) = Len(x)
         /\ \A i \in 1..Len(x) : Bytes(x)[i] = <<x[i], 1, 1>>
<1> DEFINE n == Len(x)
<1>1. n \in Nat /\ DOMAIN x = 1..n
  BY LenProperties
<1>2. Bytes(x) = [i \in 1..n |-> <<x[i], 1, 1>>]
  BY <1>1 DEF Bytes
<1>7. \A i \in 1..n : x[i] \in Octets
  BY ElementOfSeq
<1> HIDE DEF n
<1>8. \A k \in Octets : k \in Nat
  BY DEF Octets
<1>3. \A i \in 1..n : x[i] \in Nat
  BY <1>7, <1>8, Zenon
<1>4. Bytes(x) \in [1..n -> WireBytes]
  BY <1>2, <1>3 DEF WireBytes
<1>5. Bytes(x) \in Seq(WireBytes) /\ Len(Bytes(x)) = n
  BY <1>1, <1>4
<1>6. \A i \in 1..n : Bytes(x)[i] = <<x[i], 1, 1>>
  BY <1>2
<1> QED
  BY <1>5, <1>6 DEF n

LEMMA CapsuleNumbers ==
  ASSUME NEW c \in CapsuleSet
  PROVE  /\ c.type \in Nat /\ c.tw \in Nat \ {0} /\ c.lw \in Nat \ {0}
         /\ c.value \in Seq(Octets) /\ Len(c.value) \in Nat
         /\ HeadSize(c) \in Nat /\ HeadSize(c) = c.tw + c.lw
         /\ Size(c) \in Nat /\ Size(c) = HeadSize(c) + Len(c.value)
<1>1. c.type \in Nat /\ c.tw \in {1, 2, 4, 8} /\ c.lw \in {1, 2, 4, 8} /\ c.value \in Seq(Octets)
  BY Zenon DEF CapsuleSet
<1>2. Len(c.value) \in Nat
  BY <1>1, LenProperties, Zenon
<1>3. c.tw \in Nat \ {0} /\ c.lw \in Nat \ {0}
  BY <1>1
<1>4. HeadSize(c) = c.tw + c.lw /\ Size(c) = c.tw + c.lw + Len(c.value)
  BY DEF HeadSize, Size
<1> QED
  BY <1>1, <1>2, <1>3, <1>4

LEMMA ByteIsOne ==
  ASSUME NEW c \in CapsuleSet, NEW i \in 1..Size(c)
  PROVE  ByteAt(c, i) \in WireBytes
<1>1. CASE i <= c.tw
  BY <1>1, CapsuleNumbers DEF ByteAt, WireBytes
<1>2. CASE ~(i <= c.tw) /\ i <= c.tw + c.lw
  <2>1. i - c.tw \in Nat
    BY <1>2, CapsuleNumbers
  <2> QED
    BY <1>2, <2>1, CapsuleNumbers DEF ByteAt, WireBytes
<1>3. CASE ~(i <= c.tw) /\ ~(i <= c.tw + c.lw)
  <2>1. i - c.tw - c.lw \in 1..Len(c.value)
    BY <1>3, CapsuleNumbers
  <2>2. c.value[i - c.tw - c.lw] \in Nat
    <3>1. c.value[i - c.tw - c.lw] \in Octets
      BY <2>1, CapsuleNumbers, ElementOfSeq, Zenon
    <3> QED
      BY <3>1 DEF Octets
  <2>3. ByteAt(c, i) = <<c.value[i - c.tw - c.lw], 1, 1>>
    BY <1>3 DEF ByteAt
  <2> QED
    BY <2>2, <2>3 DEF WireBytes
<1> QED
  BY <1>1, <1>2, <1>3

\* A capsule is its bytes.
LEMMA CapsuleFacts ==
  ASSUME NEW c \in CapsuleSet
  PROVE  /\ Capsule(c) \in Seq(WireBytes) /\ Len(Capsule(c)) = Size(c)
         /\ \A i \in 1..Size(c) : Capsule(c)[i] = ByteAt(c, i)
<1> DEFINE t == Wide(c.type, c.tw)
           l == Wide(Len(c.value), c.lw)
           v == Bytes(c.value)
<1>0. /\ c.type \in Nat /\ c.tw \in Nat /\ c.lw \in Nat /\ Len(c.value) \in Nat
      /\ c.value \in Seq(Octets)
  BY CapsuleNumbers
<1>1. t \in Seq(WireBytes) /\ Len(t) = c.tw /\ \A i \in 1..c.tw : t[i] = <<c.type, c.tw, i>>
  BY <1>0, WideFacts, Zenon
<1>2. /\ l \in Seq(WireBytes) /\ Len(l) = c.lw
      /\ \A i \in 1..c.lw : l[i] = <<Len(c.value), c.lw, i>>
  BY <1>0, WideFacts, Zenon
<1>3. /\ v \in Seq(WireBytes) /\ Len(v) = Len(c.value)
      /\ \A i \in 1..Len(c.value) : v[i] = <<c.value[i], 1, 1>>
  BY <1>0, BytesFacts, Zenon
<1> HIDE DEF t, l, v
<1> DEFINE w == t \o l
<1> HIDE DEF w
<1>4. Capsule(c) = w \o v
  BY DEF Capsule, t, l, v, w
<1>5. /\ w \in Seq(WireBytes) /\ Len(w) = c.tw + c.lw
      /\ \A i \in 1..c.tw : w[i] = t[i]
      /\ \A i \in 1..c.lw : w[c.tw + i] = l[i]
  <2>1. t \in Seq(WireBytes) /\ l \in Seq(WireBytes) /\ Len(t) = c.tw /\ Len(l) = c.lw
    BY <1>1, <1>2
  <2> QED
    <3>1. /\ w \in Seq(WireBytes) /\ Len(w) = Len(t) + Len(l)
          /\ \A i \in 1..Len(t) : w[i] = t[i]
          /\ \A i \in 1..Len(l) : w[Len(t) + i] = l[i]
      <4>1. w \in Seq(WireBytes) /\ Joined(w, t, l)
        BY <2>1, ConcatFacts DEF w
      <4> QED
        BY <4>1, Zenon DEF Joined
    <3> QED
      BY <2>1, <3>1
<1> DEFINE u == Capsule(c)
<1> HIDE DEF u
<1>6. /\ u \in Seq(WireBytes) /\ Len(u) = c.tw + c.lw + Len(c.value)
      /\ \A i \in 1..(c.tw + c.lw) : u[i] = w[i]
      /\ \A i \in 1..Len(c.value) : u[c.tw + c.lw + i] = v[i]
  <2>1. w \in Seq(WireBytes) /\ v \in Seq(WireBytes) /\ Len(w) = c.tw + c.lw /\ Len(v) = Len(c.value)
    BY <1>3, <1>5
  <2> QED
    <3>1. /\ u \in Seq(WireBytes) /\ Len(u) = Len(w) + Len(v)
          /\ \A i \in 1..Len(w) : u[i] = w[i]
          /\ \A i \in 1..Len(v) : u[Len(w) + i] = v[i]
      <4>1. u \in Seq(WireBytes) /\ Joined(u, w, v)
        BY <1>4, <2>1, ConcatFacts DEF u
      <4> QED
        BY <4>1, Zenon DEF Joined
    <3> QED
      BY <2>1, <3>1, Zenon
<1>7. ASSUME NEW i \in 1..Size(c) PROVE u[i] = ByteAt(c, i)
  <2>1. CASE i <= c.tw
    <3>1. i \in 1..c.tw /\ i \in 1..(c.tw + c.lw)
      BY <2>1, <1>0
    <3>2. u[i] = <<c.type, c.tw, i>>
      BY <3>1, <1>1, <1>5, <1>6, Zenon
    <3> QED
      BY <2>1, <3>2, Zenon DEF ByteAt
  <2>2. CASE ~(i <= c.tw) /\ i <= c.tw + c.lw
    <3> DEFINE j == i - c.tw
    <3>1. j \in 1..c.lw /\ c.tw + j = i /\ i \in 1..(c.tw + c.lw)
      BY <2>2, <1>0
    <3> HIDE DEF j
    <3>2. u[i] = <<Len(c.value), c.lw, j>>
      BY <3>1, <1>2, <1>5, <1>6, Zenon
    <3> QED
      BY <2>2, <3>2, Zenon DEF ByteAt, j
  <2>3. CASE ~(i <= c.tw) /\ ~(i <= c.tw + c.lw)
    <3> DEFINE j == i - c.tw - c.lw
    <3>1. j \in 1..Len(c.value) /\ c.tw + c.lw + j = i
      BY <2>3, <1>0 DEF Size
    <3> HIDE DEF j
    <3>2. u[i] = <<c.value[j], 1, 1>>
      BY <3>1, <1>3, <1>6, Zenon
    <3> QED
      BY <2>3, <3>2, Zenon DEF ByteAt, j
  <2> QED
    BY <2>1, <2>2, <2>3
<1> QED
  BY <1>6, <1>7 DEF Size, u

\* The type is where the capsule starts, the length behind it.
LEMMA TypeRead ==
  ASSUME NEW c \in CapsuleSet, NEW b, Starts(b, c), 1 <= Len(b)
  PROVE  /\ b[1][2] = c.tw /\ After(b, 1) = c.tw + 1
         /\ Whole(b, 1) <=> c.tw <= Len(b)
         /\ c.tw <= Len(b) => Value(b, 1) = c.type
<1>0. c.tw \in Nat \ {0} /\ c.lw \in Nat \ {0} /\ c.type \in Nat /\ Size(c) \in Nat
      /\ c.tw <= Size(c)
  BY CapsuleNumbers
<1>1. b \in Seq(WireBytes) /\ Len(b) \in Nat
  BY LenProperties, Zenon DEF Starts
<1>2. b[1] = <<c.type, c.tw, 1>>
  <2>1. 1 \in 1..Len(b) /\ 1 <= Size(c) /\ 1 <= c.tw
    BY <1>0, <1>1
  <2>2. b[1] = ByteAt(c, 1)
    BY <2>1, Zenon DEF Starts
  <2> QED
    BY <2>1, <2>2, Zenon DEF ByteAt
<1>3. b[1][1] = c.type /\ b[1][2] = c.tw
  BY <1>2
<1>4. After(b, 1) = c.tw + 1 /\ (Whole(b, 1) <=> c.tw <= Len(b)) /\ 1 + c.tw - 1 = c.tw
  BY <1>0, <1>1, <1>3 DEF After, Whole
<1>5. ASSUME c.tw <= Len(b) PROVE Value(b, 1) = c.type
  <2> DEFINE s == SubSeq(b, 1, c.tw)
             w == Wide(c.type, c.tw)
  <2>1. s \in Seq(WireBytes) /\ Len(s) = c.tw /\ \A i \in 1..c.tw : s[i] = b[i]
    <3>1. c.tw \in Nat
      BY <1>0
    <3> QED
      BY <1>1, <1>5, <3>1, FrontPart, Zenon
  <2>2. w \in Seq(WireBytes) /\ Len(w) = c.tw /\ \A i \in 1..c.tw : w[i] = <<c.type, c.tw, i>>
    BY <1>0, WideFacts, Zenon
  <2>3. \A i \in 1..c.tw : b[i] = <<c.type, c.tw, i>>
    <3> TAKE i \in 1..c.tw
    <3>1. i \in 1..Len(b) /\ i <= Size(c) /\ i <= c.tw
      BY <1>0, <1>1, <1>5
    <3> QED
      BY <3>1, Zenon DEF Starts, ByteAt
  <2> HIDE DEF s, w
  <2>4. s = w
    BY <2>1, <2>2, <2>3, SeqEqual, Zenon
  <2> QED
    BY <1>3, <1>4, <2>4, Zenon DEF Value, s, w
<1> QED
  BY <1>3, <1>4, <1>5

LEMMA LengthRead ==
  ASSUME NEW c \in CapsuleSet, NEW b, Starts(b, c), c.tw + 1 <= Len(b)
  PROVE  /\ b[c.tw + 1][2] = c.lw /\ After(b, c.tw + 1) = HeadSize(c) + 1
         /\ Whole(b, c.tw + 1) <=> HeadSize(c) <= Len(b)
         /\ HeadSize(c) <= Len(b) => Value(b, c.tw + 1) = Len(c.value)
<1>0. /\ c.tw \in Nat \ {0} /\ c.lw \in Nat \ {0} /\ Len(c.value) \in Nat /\ Size(c) \in Nat
      /\ HeadSize(c) = c.tw + c.lw /\ HeadSize(c) <= Size(c)
  BY CapsuleNumbers
<1> DEFINE n == Len(c.value)
           p == c.tw + 1
<1>1. b \in Seq(WireBytes) /\ Len(b) \in Nat
  BY LenProperties, Zenon DEF Starts
<1>2. \A i \in 1..c.lw : c.tw + i <= Len(b) => b[c.tw + i] = <<n, c.lw, i>>
  <2> SUFFICES ASSUME NEW i \in 1..c.lw, c.tw + i <= Len(b) PROVE b[c.tw + i] = <<n, c.lw, i>>
    OBVIOUS
  <2> DEFINE j == c.tw + i
  <2>1. /\ j \in 1..Len(b) /\ j <= Size(c) /\ ~(j <= c.tw) /\ j <= c.tw + c.lw
        /\ j - c.tw = i
    BY <1>0, <1>1
  <2> HIDE DEF j
  <2>2. b[j] = ByteAt(c, j)
    BY <2>1, Zenon DEF Starts
  <2>3. b[j] = <<n, c.lw, i>>
    BY <2>1, <2>2, Zenon DEF ByteAt
  <2> QED
    BY <2>3 DEF j
<1>3. b[p] = <<n, c.lw, 1>>
  <2>1. 1 \in 1..c.lw
    BY <1>0
  <2> QED
    BY <1>2, <2>1, Zenon
<1>4. b[p][1] = n /\ b[p][2] = c.lw
  BY <1>3
<1>5. /\ After(b, p) = HeadSize(c) + 1 /\ (Whole(b, p) <=> HeadSize(c) <= Len(b))
      /\ p + c.lw - 1 = c.tw + c.lw
  BY <1>0, <1>1, <1>4 DEF After, Whole
<1>6. ASSUME HeadSize(c) <= Len(b) PROVE Value(b, p) = n
  <2> DEFINE s == SubSeq(b, c.tw + 1, c.tw + c.lw)
             w == Wide(n, c.lw)
  <2>1. s \in Seq(WireBytes) /\ Len(s) = c.lw /\ \A i \in 1..c.lw : s[i] = b[c.tw + i]
    <3>1. c.tw \in Nat /\ c.lw \in Nat /\ c.tw + c.lw <= Len(b)
      BY <1>0, <1>6
    <3> QED
      BY <1>1, <3>1, PartOf, Zenon
  <2>2. w \in Seq(WireBytes) /\ Len(w) = c.lw /\ \A i \in 1..c.lw : w[i] = <<n, c.lw, i>>
    <3>1. n \in Nat /\ c.lw \in Nat
      BY <1>0
    <3> QED
      BY <3>1, WideFacts, Zenon
  <2>3. \A i \in 1..c.lw : b[c.tw + i] = <<n, c.lw, i>>
    <3> TAKE i \in 1..c.lw
    <3>1. c.tw + i <= Len(b)
      BY <1>0, <1>1, <1>6
    <3> QED
      BY <1>2, <3>1, Zenon
  <2> HIDE DEF s, w, n
  <2>4. s = w
    BY <2>1, <2>2, <2>3, SeqEqual, Zenon
  <2> QED
    BY <1>4, <1>5, <2>4, Zenon DEF Value, s, w
<1> QED
  BY <1>4, <1>5, <1>6

\* Where a capsule stands, its value is behind its header.
LEMMA ValuePart ==
  ASSUME NEW c \in CapsuleSet, NEW w \in Seq(WireBytes), NEW p \in Nat, Stands(c, p, w)
  PROVE  SubSeq(w, p + HeadSize(c) + 1, p + HeadSize(c) + Len(c.value)) = Bytes(c.value)
<1> DEFINE n == Len(c.value)
           q == p + HeadSize(c)
<1>0. /\ c.tw \in Nat /\ c.lw \in Nat /\ n \in Nat /\ HeadSize(c) = c.tw + c.lw
      /\ Size(c) = c.tw + c.lw + n /\ c.value \in Seq(Octets) /\ HeadSize(c) \in Nat
  BY CapsuleNumbers
<1>1. q \in Nat /\ q + n <= Len(w)
  BY <1>0 DEF Stands
<1>2. \A i \in 1..n : w[q + i] = <<c.value[i], 1, 1>>
  <2> TAKE i \in 1..n
  <2> DEFINE k == c.tw + c.lw + i
  <2>5. i \in Nat /\ 1 <= i /\ i <= n
    BY <1>0
  <2> HIDE DEF n
  <2>1. k \in 1..Size(c) /\ ~(k <= c.tw) /\ ~(k <= c.tw + c.lw) /\ k - c.tw - c.lw = i
    <3>1. PICK a \in Nat : a = c.tw
      BY <1>0
    <3>2. PICK b \in Nat : b = c.lw
      BY <1>0
    <3>3. Size(c) = a + b + n /\ k = a + b + i /\ n \in Nat
      BY <1>0, <3>1, <3>2
    <3> HIDE DEF k
    <3>4. k \in 1..Size(c) /\ ~(k <= a) /\ ~(k <= a + b) /\ k - a - b = i
      BY <2>5, <3>3
    <3> QED
      BY <3>1, <3>2, <3>4
  <2>4. p + k = q + i
    BY <1>0
  <2> HIDE DEF k, q
  <2>2. w[p + k] = ByteAt(c, k)
    BY <2>1, Zenon DEF Stands
  <2>3. ByteAt(c, k) = <<c.value[i], 1, 1>>
    BY <2>1, Zenon DEF ByteAt
  <2> QED
    BY <2>4, <2>2, <2>3, Zenon
<1> DEFINE s == SubSeq(w, q + 1, q + n)
           v == Bytes(c.value)
<1>3. s \in Seq(WireBytes) /\ Len(s) = n /\ \A i \in 1..n : s[i] = w[q + i]
  <2>1. n \in Nat
    BY <1>0
  <2> HIDE DEF q, n
  <2> QED
    BY <1>1, <2>1, PartOf, Zenon
<1> HIDE DEF q
<1>4. v \in Seq(WireBytes) /\ Len(v) = n /\ \A i \in 1..n : v[i] = <<c.value[i], 1, 1>>
  BY <1>0, BytesFacts, Zenon
<1> HIDE DEF s, v, n
<1>5. s = v
  BY <1>2, <1>3, <1>4, SeqEqual, Zenon
<1> QED
  BY <1>5, Zenon DEF s, v, q, n

\* The beginning of what stands there.
LEMMA BeginningStarts ==
  ASSUME NEW c \in CapsuleSet, NEW w \in Seq(WireBytes), NEW p \in Nat, Stands(c, p, w),
         NEW n \in Nat, p + n <= Len(w)
  PROVE  Starts(SubSeq(w, p + 1, p + n), c)
<1> DEFINE s == SubSeq(w, p + 1, p + n)
<1>1. s \in Seq(WireBytes) /\ Len(s) = n /\ \A i \in 1..n : s[i] = w[p + i]
  BY PartOf, Zenon
<1>2. Size(c) \in Nat
  BY CapsuleNumbers
<1> HIDE DEF s
<1>3. \A i \in 1..n : i <= Size(c) => s[i] = ByteAt(c, i)
  <2> SUFFICES ASSUME NEW i \in 1..n, i <= Size(c) PROVE s[i] = ByteAt(c, i)
    OBVIOUS
  <2>1. i \in 1..Size(c)
    BY <1>2
  <2>2. w[p + i] = ByteAt(c, i)
    BY <2>1, Zenon DEF Stands
  <2> QED
    BY <1>1, <2>2, Zenon
<1> QED
  BY <1>1, <1>3, Zenon DEF Starts, s
-----------------------------------------------------------------------------
(* What is sent                                                            *)

\* A further capsule stands behind the others.
LEMMA PlacesGrow ==
  ASSUME NEW s \in Seq(CapsuleSet), NEW w \in Seq(WireBytes), NEW c \in CapsuleSet,
         NEW place, Places(place, s, w)
  PROVE  \E more : /\ Places(more, Append(s, c), w \o Capsule(c))
                   /\ \A i \in 1..(Len(s) + 1) : more[i] = place[i]
<1> DEFINE n == Len(s)
           m == Len(w)
           more == [i \in 1..(n + 1 + 1) |-> IF i <= n + 1 THEN place[i] ELSE m + Size(c)]
           t == Append(s, c)
           x == w \o Capsule(c)
<1>0. n \in Nat /\ m \in Nat /\ Size(c) \in Nat
  BY LenProperties, CapsuleNumbers
<1>1. /\ t \in Seq(CapsuleSet) /\ Len(t) = n + 1 /\ t[n + 1] = c
      /\ \A i \in 1..n : t[i] = s[i]
  BY AppendProperties
<1>2. /\ x \in Seq(WireBytes) /\ Len(x) = m + Size(c)
      /\ \A i \in 1..m : x[i] = w[i]
      /\ \A i \in 1..Size(c) : x[m + i] = ByteAt(c, i)
  <2> DEFINE b == Capsule(c)
  <2>1. b \in Seq(WireBytes) /\ Len(b) = Size(c) /\ \A i \in 1..Size(c) : b[i] = ByteAt(c, i)
    BY CapsuleFacts, Zenon
  <2> HIDE DEF b
  <2>2. x \in Seq(WireBytes) /\ Joined(x, w, b)
    BY <2>1, ConcatFacts DEF b
  <2> HIDE DEF x, m
  <2>3. Len(x) = Len(w) + Size(c) /\ (\A i \in 1..Len(w) : x[i] = w[i])
        /\ \A i \in 1..Size(c) : x[Len(w) + i] = b[i]
    BY <2>1, <2>2, Zenon DEF Joined
  <2> QED
    BY <2>1, <2>2, <2>3, Zenon DEF m
<1>3. /\ place \in [1..(n + 1) -> Nat] /\ place[1] = 0 /\ place[n + 1] = m
      /\ \A i \in 1..n : place[i + 1] = place[i] + Size(s[i]) /\ Stands(s[i], place[i], w)
  BY Zenon DEF Places
<1> HIDE DEF t, x, m, n
<1>4. /\ more \in [1..(n + 1 + 1) -> Nat] /\ more[n + 1 + 1] = m + Size(c)
      /\ \A i \in 1..(n + 1) : more[i] = place[i]
  BY <1>0, <1>3
<1> HIDE DEF more
<1>5. ASSUME NEW i \in 1..(n + 1)
      PROVE  more[i + 1] = more[i] + Size(t[i]) /\ Stands(t[i], more[i], x)
  <2>1. CASE i = n + 1
    <3>1. n + 1 \in 1..(n + 1)
      BY <1>0
    <3>2. more[n + 1] = m /\ t[n + 1] = c /\ more[n + 1 + 1] = m + Size(c)
      BY <3>1, <1>1, <1>3, <1>4, Zenon
    <3>3. Stands(c, m, x)
      <4>1. m + Size(c) <= Len(x)
        BY <1>0, <1>2
      <4> QED
        BY <1>0, <1>2, <4>1, Zenon DEF Stands
    <3> QED
      BY <2>1, <3>2, <3>3, Zenon
  <2>2. CASE i # n + 1
    <3>1. i \in 1..n /\ i + 1 \in 1..(n + 1)
      BY <1>0, <2>2
    <3>2. /\ more[i] = place[i] /\ more[i + 1] = place[i + 1] /\ t[i] = s[i]
          /\ place[i + 1] = place[i] + Size(s[i]) /\ Stands(s[i], place[i], w)
      BY <3>1, <1>1, <1>3, <1>4, Zenon
    <3>3. Stands(s[i], place[i], x)
      <4> DEFINE p == place[i]
                 d == s[i]
      <4>1. d \in CapsuleSet
        BY <3>1, ElementOfSeq, Zenon DEF n
      <4>2. Size(d) \in Nat
        BY <4>1, CapsuleNumbers
      <4>3. p \in Nat /\ p + Size(d) <= m /\ \A k \in 1..Size(d) : w[p + k] = ByteAt(d, k)
        BY <3>2 DEF Stands, m
      <4> HIDE DEF p, d
      <4>4. p + Size(d) <= Len(x)
        BY <1>0, <1>2, <4>2, <4>3
      <4>5. \A k \in 1..Size(d) : x[p + k] = ByteAt(d, k)
        <5> TAKE k \in 1..Size(d)
        <5>1. p + k \in 1..m
          BY <1>0, <4>2, <4>3
        <5> QED
          BY <1>2, <4>3, <5>1, Zenon
      <4>6. Stands(d, p, x)
        BY <4>3, <4>4, <4>5, Zenon DEF Stands
      <4> QED
        BY <4>6 DEF d, p
    <3> QED
      BY <3>2, <3>3, Zenon
  <2> QED
    BY <2>1, <2>2
<1>6. 1 \in 1..(n + 1) /\ n + 1 = Len(t) /\ more[1] = 0 /\ Len(x) = m + Size(c)
  BY <1>0, <1>1, <1>2, <1>3, <1>4
<1>7. Places(more, t, x)
  BY <1>4, <1>5, <1>6, Zenon DEF Places
<1> QED
  BY <1>4, <1>7, Zenon DEF t, x, n
-----------------------------------------------------------------------------
(* picowt_receive_capsule                                                  *)

\* What is told of the first n bytes of a stream that begins with capsule c.
Reported(r, c, n) ==
  /\ r.ret = 0 <=> n >= Size(c) /\ (c.type = Close => Len(c.value) >= 4)
  /\ Len(r.code) = 4
  /\ r.code \o r.msg = IF r.ret = 0 /\ c.type = Close THEN Bytes(c.value) ELSE NoCode

LEMMA Cleared ==
  NoCode \in Seq(WireBytes) /\ Len(NoCode) = 4 /\ NoCode \o <<>> = NoCode
<1>1. NoCode = [i \in 1..4 |-> <<<<0, 0, 0, 0>>[i], 1, 1>>]
  BY DEF NoCode, Bytes
<1>2. \A i \in 1..4 : <<0, 0, 0, 0>>[i] = 0
  OBVIOUS
<1>3. NoCode = [i \in 1..4 |-> <<0, 1, 1>>]
  BY <1>1, <1>2
<1>4. NoCode \in Seq({<<0, 1, 1>>}) /\ Len(NoCode) = 4
  BY <1>3
<1>5. NoCode \o <<>> = NoCode
  BY <1>4, ConcatEmptySeq
<1>6. <<0, 1, 1>> \in WireBytes
  BY DEF WireBytes
<1> QED
  BY <1>3, <1>4, <1>5, <1>6

LEMMA ReceiverReads ==
  ASSUME NEW c \in CapsuleSet, NEW w \in Seq(WireBytes), Stands(c, 0, w), NEW n \in 0..Len(w)
  PROVE  Reported(picowt_receive_capsule(SubSeq(w, 1, n)), c, n)
<1> DEFINE b == SubSeq(w, 1, n)
           l == Len(c.value)
           h == HeadSize(c)
           r == picowt_receive_capsule(b)
<1>0. n \in Nat /\ n <= Len(w) /\ Len(w) \in Nat
  BY LenProperties
<1>1. /\ c.type \in Nat /\ c.tw \in Nat \ {0} /\ c.lw \in Nat \ {0} /\ l \in Nat /\ h \in Nat
      /\ h = c.tw + c.lw /\ Size(c) = h + l
  BY CapsuleNumbers
<1>2. /\ b \in Seq(WireBytes) /\ Len(b) = n /\ \A i \in 1..n : b[i] = w[i]
      /\ Starts(b, c)
  <2>1. b \in Seq(WireBytes) /\ Len(b) = n /\ \A i \in 1..n : b[i] = w[i]
    BY <1>0, FrontPart, Zenon
  <2>2. 0 \in Nat /\ 0 + n <= Len(w) /\ 0 + 1 = 1 /\ 0 + n = n
    BY <1>0
  <2>3. Starts(SubSeq(w, 0 + 1, 0 + n), c)
    BY <1>0, <2>2, BeginningStarts, Zenon
  <2> QED
    BY <2>1, <2>2, <2>3, Zenon
<1> HIDE DEF b, l, h
<1>3. CASE n < h
  <2>1. ~(Whole(b, 1) /\ Whole(b, After(b, 1)))
    <3>1. CASE n = 0
      BY <1>2, <3>1 DEF Whole
    <3>2. CASE n # 0
      <4>1. 1 <= Len(b)
        BY <1>0, <1>2, <3>2
      <4>2. After(b, 1) = c.tw + 1 /\ (Whole(b, 1) <=> c.tw <= Len(b))
        BY <1>2, <4>1, TypeRead, Zenon
      <4>3. CASE c.tw + 1 <= Len(b)
        <5>1. Whole(b, c.tw + 1) <=> h <= Len(b)
          BY <1>2, <4>3, LengthRead, Zenon DEF h
        <5> QED
          BY <1>0, <1>1, <1>2, <1>3, <4>2, <5>1
      <4>4. CASE ~(c.tw + 1 <= Len(b))
        BY <4>2, <4>4 DEF Whole
      <4> QED
        BY <4>3, <4>4
    <3> QED
      BY <3>1, <3>2
  <2>2. r = NoCapsule
    BY <2>1, Zenon DEF picowt_receive_capsule
  <2>3. r.ret = -1 /\ r.code = NoCode /\ r.msg = <<>>
    BY <2>2 DEF NoCapsule
  <2>4. ~(n >= Size(c))
    BY <1>0, <1>1, <1>3
  <2> HIDE DEF r
  <2>5. Reported(r, c, n)
    BY <2>3, <2>4, Cleared DEF Reported
  <2> QED
    BY <2>5 DEF r, b
<1>4. CASE ~(n < h)
  <2>1. 1 <= Len(b) /\ c.tw <= Len(b) /\ c.tw + 1 <= Len(b) /\ h <= Len(b)
    BY <1>0, <1>1, <1>2, <1>4
  <2>2. Whole(b, 1) /\ After(b, 1) = c.tw + 1 /\ Value(b, 1) = c.type
    BY <1>2, <2>1, TypeRead, Zenon
  <2>3. Whole(b, c.tw + 1) /\ After(b, c.tw + 1) = h + 1 /\ Value(b, c.tw + 1) = l
    BY <1>2, <2>1, LengthRead, Zenon DEF h, l
  <2> DEFINE p == h + 1
             isCut == Len(b) - p + 1 < l \/ (c.type = Close /\ l < 4)
             code == IF c.type = Close THEN SubSeq(b, p, p + 3) ELSE NoCode
             msg == IF c.type = Close THEN SubSeq(b, p + 4, p + l - 1) ELSE <<>>
  <2>4. r = IF isCut THEN NoCapsule ELSE [ret |-> 0, code |-> code, msg |-> msg]
    BY <2>2, <2>3, Zenon DEF picowt_receive_capsule
  <2>5. isCut <=> ~(n >= Size(c) /\ (c.type = Close => l >= 4))
    BY <1>0, <1>1, <1>2
  <2>6. ASSUME ~isCut, c.type = Close PROVE Len(code) = 4 /\ code \o msg = Bytes(c.value)
    <3>1. l - 4 \in Nat /\ 4 \in Nat /\ h + 4 + (l - 4) <= Len(b) /\ h \in Nat
      BY <1>0, <1>1, <1>2, <2>6
    <3>2. /\ p + 3 = h + 4 /\ p + 4 = h + 4 + 1 /\ p + l - 1 = h + 4 + (l - 4)
          /\ h + 4 + (l - 4) = 0 + h + l /\ h + 1 = 0 + h + 1
      <4>1. h \in Nat /\ l \in Nat
        BY <1>1
      <4> QED
        BY <4>1
    <3>3. code = SubSeq(b, h + 1, h + 4) /\ msg = SubSeq(b, h + 4 + 1, h + 4 + (l - 4))
      BY <2>6, <3>2, Zenon
    <3>4. code \o msg = SubSeq(b, h + 1, h + 4 + (l - 4))
      <4> DEFINE f == 4
                 m == l - 4
      <4>1. b \in Seq(WireBytes) /\ m \in Nat /\ f \in Nat /\ h + f + m <= Len(b) /\ h \in Nat
        BY <1>2, <3>1
      <4> HIDE DEF m, f
      <4>2. SubSeq(b, h + 1, h + f) \o SubSeq(b, h + f + 1, h + f + m) = SubSeq(b, h + 1, h + f + m)
        BY <4>1, JoinParts
      <4> QED
        BY <3>3, <4>2, Zenon DEF f, m
    <3>5. Stands(c, 0, b)
      <4>1. 0 + Size(c) <= Len(b) /\ 0 \in Nat
        BY <1>0, <1>1, <1>2, <2>6
      <4>2. \A i \in 1..Size(c) : b[0 + i] = ByteAt(c, i)
        <5> TAKE i \in 1..Size(c)
        <5>1. i \in 1..Len(b) /\ i <= Size(c) /\ 0 + i = i
          BY <1>1, <1>2, <4>1
        <5>2. b[i] = ByteAt(c, i)
          BY <1>2, <5>1, Zenon DEF Starts
        <5> QED
          BY <5>1, <5>2, Zenon
      <4> QED
        BY <4>1, <4>2, Zenon DEF Stands
    <3>6. SubSeq(b, 0 + h + 1, 0 + h + l) = Bytes(c.value)
      <4>1. 0 \in Nat
        OBVIOUS
      <4> QED
        BY <1>2, <3>5, <4>1, ValuePart, Zenon DEF h, l
    <3>7. Len(code) = 4
      <4> DEFINE f == 4
      <4>1. f \in Nat /\ h \in Nat /\ h + f <= Len(b)
        BY <1>2, <3>1
      <4> HIDE DEF f
      <4>2. Len(SubSeq(b, h + 1, h + f)) = f
        BY <1>2, <4>1, PartOf
      <4> HIDE DEF code
      <4> QED
        BY <3>3, <4>2, Zenon DEF f
    <3> QED
      BY <3>2, <3>4, <3>6, <3>7, Zenon
  <2> HIDE DEF isCut, code, msg, r
  <2>7. CASE isCut
    <3>1. r.ret = -1 /\ r.code = NoCode /\ r.msg = <<>>
      BY <2>4, <2>7 DEF NoCapsule
    <3>2. Reported(r, c, n)
      BY <2>5, <2>7, <3>1, Cleared DEF Reported, l
    <3> QED
      BY <3>2 DEF r, b
  <2>8. CASE ~isCut
    <3>1. r.ret = 0 /\ r.code = code /\ r.msg = msg
      BY <2>4, <2>8
    <3>0. c.type # Close => Len(code) = 4 /\ code \o msg = NoCode
      BY Cleared, Zenon DEF code, msg
    <3>2. n >= Size(c) /\ (c.type = Close => l >= 4)
      BY <2>5, <2>8
    <3>3. Reported(r, c, n)
      BY <2>6, <2>8, <3>0, <3>1, <3>2, Zenon DEF Reported, l
    <3> QED
      BY <3>3 DEF r, b
  <2> QED
    BY <2>7, <2>8
<1> QED
  BY <1>0, <1>1, <1>3, <1>4
-----------------------------------------------------------------------------
(* The capsules of a session                                               *)

\* The bytes of the stream are those of the capsules sent.
WireInv ==
  /\ sent \in Seq(CapsuleSet) /\ wire \in Seq(WireBytes)
  /\ \E place : Places(place, sent, wire)

LEMMA WidthIsOne == \A v \in Nat : Width(v) \in {1, 2, 4, 8}
BY SMT DEF Width

LEMMA ShortCapsule ==
  ASSUME NEW type \in Nat, NEW v \in Seq(Octets)
  PROVE  /\ Short(type, v) \in CapsuleSet
         /\ Capsule(Short(type, v)) = Varint(type) \o Varint(Len(v)) \o Bytes(v)
<1>1. Len(v) \in Nat
  BY LenProperties
<1>2. Width(type) \in {1, 2, 4, 8} /\ Width(Len(v)) \in {1, 2, 4, 8}
  BY <1>1, WidthIsOne, Zenon
<1>3. Short(type, v) = [type |-> type, tw |-> Width(type), lw |-> Width(Len(v)), value |-> v]
  BY DEF Short
<1>4. Short(type, v) \in CapsuleSet
  BY <1>2, <1>3 DEF CapsuleSet
<1>5. /\ Short(type, v).type = type /\ Short(type, v).tw = Width(type)
      /\ Short(type, v).lw = Width(Len(v)) /\ Short(type, v).value = v
  BY <1>3
<1> QED
  BY <1>4, <1>5, Zenon DEF Capsule, Varint

\* Whatever is sent is a capsule.
SendsOne(c) == c \in CapsuleSet /\ Send(c, Capsule(c))

LEMMA SendsCapsule ==
  ASSUME \/ \E m \in Closings : SendClose(m)
         \/ SendDrain
         \/ \E c \in Peer : PeerCapsule(c)
  PROVE  \E c : SendsOne(c)
<1>1. ASSUME NEW m \in Closings, SendClose(m) PROVE \E c : SendsOne(c)
  <2> DEFINE v == m.code \o m.msg
             c == Short(Close, v)
  <2>1. m.code \in Seq(Octets) /\ m.msg \in Seq(Octets)
    BY CapsulesAssumption, Zenon
  <2>2. v \in Seq(Octets) /\ Len(v) = Len(m.code) + Len(m.msg)
    BY <2>1, ConcatProperties, Zenon
  <2>3. Close \in Nat
    BY DEF Close
  <2>4. c \in CapsuleSet /\ Capsule(c) = Varint(Close) \o Varint(Len(v)) \o Bytes(v)
    BY <2>2, <2>3, ShortCapsule, Zenon
  <2>5. Send(c, Varint(Close) \o Varint(Len(m.code) + Len(m.msg)) \o Bytes(v))
    BY <1>1, Zenon DEF SendClose
  <2>6. Send(c, Capsule(c))
    BY <2>2, <2>4, <2>5, Zenon
  <2> QED
    BY <2>4, <2>6, Zenon DEF SendsOne
<1>2. CASE SendDrain
  <2> DEFINE c == Short(Drain, <<>>)
             t == Varint(Drain) \o Varint(0)
  <2>1. Drain \in Nat /\ <<>> \in Seq(Octets) /\ Len(<<>>) = 0
    BY DEF Drain
  <2>2. c \in CapsuleSet /\ Capsule(c) = t \o Bytes(<<>>)
    BY <2>1, ShortCapsule, Zenon
  <2>3. Bytes(<<>>) = <<>>
    BY <2>1, BytesFacts, EmptySeq
  <2>4. t \in Seq(WireBytes)
    <3>1. Drain \in Nat /\ 0 \in Nat /\ Width(Drain) \in Nat /\ Width(0) \in Nat
      BY <2>1, WidthIsOne
    <3>2. Varint(Drain) \in Seq(WireBytes) /\ Varint(0) \in Seq(WireBytes)
      BY <3>1, WideFacts, Zenon DEF Varint
    <3> QED
      BY <3>2, ConcatFacts, Zenon
  <2>5. t \o <<>> = t
    BY <2>4, ConcatEmptySeq, Zenon
  <2>6. Send(c, t)
    BY <1>2, Zenon DEF SendDrain
  <2>7. Send(c, Capsule(c))
    BY <2>2, <2>3, <2>5, <2>6, Zenon
  <2> QED
    BY <2>2, <2>7, Zenon DEF SendsOne
<1>3. ASSUME NEW c \in Peer, PeerCapsule(c) PROVE \E d : SendsOne(d)
  <2>1. c \in CapsuleSet
    BY CapsulesAssumption, Zenon
  <2>2. Send(c, Capsule(c))
    BY <1>3 DEF PeerCapsule
  <2> QED
    BY <2>1, <2>2, Zenon DEF SendsOne
<1> QED
  BY <1>1, <1>2, <1>3

\* A step of the specification sends a capsule or leaves the stream as it is.
LEMMA SendsOrNot ==
  ASSUME [CapsulesNext]_capsulesVars
  PROVE  \/ told = <<>> /\ hand = 0 /\ \E c : SendsOne(c)
         \/ UNCHANGED writeVars
<1>1. CASE told = <<>> /\ hand = 0 /\ (\/ \E m \in Closings : SendClose(m)
                                     \/ SendDrain
                                     \/ \E c \in Peer : PeerCapsule(c))
  BY <1>1, SendsCapsule, Zenon
<1>2. CASE ProtocolInit
  BY <1>2 DEF ProtocolInit
<1>3. CASE Encode
  BY <1>3 DEF Encode
<1>4. ASSUME NEW n, Deliver(n) PROVE UNCHANGED writeVars
  BY <1>4 DEF Deliver
<1>5. CASE HeaderCut \/ NoBuffer \/ Take \/ Release
  BY <1>5 DEF HeaderCut, NoBuffer, Take, Release
<1>6. ASSUME NEW n, ReceiveCapsule(n) PROVE UNCHANGED writeVars
  BY <1>6 DEF ReceiveCapsule
<1>7. CASE UNCHANGED capsulesVars
  BY <1>7 DEF capsulesVars, writeVars
<1> QED
  BY <1>1, <1>2, <1>3, <1>4, <1>5, <1>6, <1>7, Zenon DEF CapsulesNext

LEMMA SentStep ==
  ASSUME WireInv, [CapsulesNext]_capsulesVars
  PROVE  WireInv'
<1>1. ASSUME NEW c, SendsOne(c) PROVE WireInv'
  <2>1. c \in CapsuleSet /\ sent' = Append(sent, c) /\ wire' = wire \o Capsule(c)
    BY <1>1 DEF SendsOne, Send
  <2>2. sent' \in Seq(CapsuleSet)
    BY <2>1, AppendProperties, Zenon DEF WireInv
  <2>3. wire' \in Seq(WireBytes)
    BY <2>1, CapsuleFacts, ConcatFacts, Zenon DEF WireInv
  <2>4. PICK place : Places(place, sent, wire)
    BY DEF WireInv
  <2>5. \E more : Places(more, sent', wire')
    BY <2>1, <2>4, PlacesGrow, Zenon DEF WireInv
  <2> QED
    BY <2>2, <2>3, <2>5, Zenon DEF WireInv
<1>2. CASE UNCHANGED writeVars
  BY <1>2 DEF writeVars, WireInv
<1> QED
  BY <1>1, <1>2, SendsOrNot, Zenon

LEMMA ReportStep ==
  ASSUME WireInv, CloseReported, [CapsulesNext]_capsulesVars
  PROVE  CloseReported'
<1>1. ASSUME NEW c, SendsOne(c), told = <<>> PROVE CloseReported'
  BY <1>1 DEF SendsOne, Send, CloseReported
<1>2. ASSUME UNCHANGED writeVars, UNCHANGED told PROVE CloseReported'
  BY <1>2 DEF writeVars, CloseReported
<1>3. ASSUME NEW n \in 0..Len(wire), ReceiveCapsule(n) PROVE CloseReported'
  <2> DEFINE r == picowt_receive_capsule(SubSeq(wire, 1, n))
             c == sent[1]
  <2>1. told' = [n |-> n, is |-> r] /\ sent' = sent
    BY <1>3 DEF ReceiveCapsule, writeVars
  <2>2. sent \in Seq(CapsuleSet) /\ wire \in Seq(WireBytes)
    BY DEF WireInv
  <2>3. PICK place : Places(place, sent, wire)
    BY DEF WireInv
  <2>4. CASE sent = <<>>
    <3>1. wire = <<>>
      <4>1. Len(sent) + 1 = 1
        BY <2>4
      <4>2. Len(wire) = 0
        BY <2>3, <4>1 DEF Places
      <4> QED
        BY <2>2, <4>2
    <3>2. n = 0 /\ SubSeq(wire, 1, n) = <<>>
      <4>1. n = 0
        BY <3>1
      <4>2. 0 + 1 = 1 /\ 0 \in Int /\ 0 <= 0
        OBVIOUS
      <4> QED
        BY <4>1, <4>2, NoPart, Zenon
    <3>3. r = NoCapsule
      <4>1. ~Whole(<<>>, 1)
        BY DEF Whole
      <4> QED
        BY <3>2, <4>1, Zenon DEF picowt_receive_capsule
    <3>4. r.ret # 0 /\ Len(r.code) = 4 /\ r.code \o r.msg = NoCode
      <4>1. r.ret = -1 /\ r.code = NoCode /\ r.msg = <<>>
        BY <3>3 DEF NoCapsule
      <4> HIDE DEF r
      <4> QED
        BY <4>1, Cleared
    <3> HIDE DEF r
    <3> QED
      BY <2>1, <2>4, <3>4 DEF CloseReported
  <2>5. CASE sent # <<>>
    <3>1. 1 \in 1..Len(sent)
      BY <2>2, <2>5
    <3>2. c \in CapsuleSet
      BY <2>2, <3>1, ElementOfSeq, Zenon
    <3>3. Stands(c, 0, wire)
      BY <2>3, <3>1, Zenon DEF Places
    <3>4. Reported(r, c, n)
      BY <2>2, <3>2, <3>3, ReceiverReads, Zenon
    <3>5. n \in Nat /\ Size(c) = c.tw + c.lw + Len(c.value)
      BY DEF Size
    <3> HIDE DEF r
    <3>6. told'.n = n /\ told'.is = r
      BY <2>1
    <3> QED
      BY <2>1, <2>5, <3>4, <3>5, <3>6, Zenon DEF CloseReported, Reported
  <2> QED
    BY <2>4, <2>5
<1>4. CASE ProtocolInit
  BY <1>2, <1>4 DEF ProtocolInit
<1>5. CASE Encode
  BY <1>2, <1>5 DEF Encode
<1>6. ASSUME NEW n, Deliver(n) PROVE CloseReported'
  BY <1>2, <1>6 DEF Deliver
<1>7. CASE HeaderCut \/ NoBuffer \/ Take \/ Release
  BY <1>2, <1>7 DEF HeaderCut, NoBuffer, Take, Release
<1>8. CASE UNCHANGED capsulesVars
  BY <1>2, <1>8 DEF capsulesVars, writeVars
<1>9. CASE told = <<>> /\ hand = 0 /\ (\/ \E m \in Closings : SendClose(m)
                                     \/ SendDrain
                                     \/ \E c \in Peer : PeerCapsule(c))
  BY <1>1, <1>9, SendsCapsule, Zenon
<1> QED
  BY <1>3, <1>4, <1>5, <1>6, <1>7, <1>8, <1>9, Zenon DEF CapsulesNext
-----------------------------------------------------------------------------
(* h3zero_accumulate_capsule                                               *)

\* capsule when k bytes of the header of c, which stands behind base, have been read,
\* and when the header and v bytes of the value have.
Partly(c, base, k) ==
  [header |-> SubSeq(wire, base + 1, base + k), type |-> IF c.tw <= k THEN c.type ELSE 0,
   length |-> 0, is_length_known |-> FALSE, allocated |-> FALSE, value |-> <<>>,
   is_stored |-> FALSE]

Known(c, base, buffer, v, is_stored) ==
  [header |-> SubSeq(wire, base + 1, base + HeadSize(c)), type |-> c.type,
   length |-> Len(c.value), is_length_known |-> TRUE, allocated |-> buffer,
   value |-> SubSeq(wire, base + HeadSize(c) + 1, base + HeadSize(c) + v),
   is_stored |-> is_stored]

Fresh(base) == capsule = Released /\ pos = base
InHeader(c, base) ==
  \E k \in Nat : k < HeadSize(c) /\ pos = base + k /\ capsule = Partly(c, base, k)
InValue(c, base) ==
  \E v \in Nat : /\ v < Len(c.value) /\ pos = base + HeadSize(c) + v
                /\ capsule = Known(c, base, TRUE, v, FALSE)
Stored(c, base) == pos = base + Size(c) /\ capsule = Known(c, base, TRUE, Len(c.value), TRUE)

\* The header, as far as there are bytes.
Upto(base, k, n) == IF n <= k THEN k ELSE Smaller(hand - base, n)

LEMMA HeaderGrown ==
  ASSUME wire \in Seq(WireBytes), NEW base \in Nat, NEW k \in Nat, NEW n \in Nat,
         hand \in Nat, hand <= Len(wire), pos = base + k, pos < hand,
         capsule.header = SubSeq(wire, base + 1, base + k)
  PROVE  /\ Upto(base, k, n) \in Nat /\ k <= Upto(base, k, n) /\ base + Upto(base, k, n) <= hand
         /\ Header(n) = SubSeq(wire, base + 1, base + Upto(base, k, n))
<1> DEFINE m == Upto(base, k, n)
           h == SubSeq(wire, base + 1, base + k)
           e == Smaller(hand, pos + n - Len(h))
<1>0. Len(wire) \in Nat
  BY LenProperties
<1>1. m \in Nat /\ k <= m /\ base + m <= hand
  BY DEF Upto, Smaller
<1>2. h \in Seq(WireBytes) /\ Len(h) = k
  <2>1. base + k <= Len(wire)
    BY <1>0
  <2> QED
    BY <2>1, PartOf, Zenon
<1>3. Header(n) = h \o SubSeq(wire, pos + 1, e)
  BY Zenon DEF Header
<1> HIDE DEF h
<1>4. CASE n <= k
  <2>1. m = k
    BY <1>4 DEF Upto
  <2>2. e \in Int /\ e <= pos /\ pos \in Int
    BY <1>2, <1>4 DEF Smaller
  <2> HIDE DEF e
  <2>3. SubSeq(wire, pos + 1, e) = <<>>
    BY <2>2, NoPart, Zenon
  <2>4. h \o <<>> = h
    BY <1>2, ConcatEmptySeq, Zenon
  <2> QED
    BY <1>1, <1>3, <2>1, <2>3, <2>4, Zenon DEF h
<1>5. CASE ~(n <= k)
  <2> DEFINE d == m - k
  <2>1. e = base + k + d /\ d \in Nat /\ base + k + d <= Len(wire) /\ base + k + d = base + m
    BY <1>0, <1>1, <1>2, <1>5 DEF Upto, Smaller
  <2> HIDE DEF d, e, m
  <2>2. SubSeq(wire, base + 1, base + k) \o SubSeq(wire, base + k + 1, base + k + d)
          = SubSeq(wire, base + 1, base + k + d)
    BY <2>1, JoinParts
  <2>3. Header(n) = SubSeq(wire, base + 1, base + m)
    BY <1>3, <2>1, <2>2, Zenon DEF h
  <2> QED
    BY <1>1, <2>3, Zenon DEF m
<1> QED
  BY <1>4, <1>5

\* Reading on in the header: m bytes of it are known then.
ReadOn(c, base, m) ==
  /\ 1 <= m /\ m <= HeadSize(c) /\ base + m <= hand /\ Behind = base + m
  /\ m < HeadSize(c) => WithHeader = Partly(c, base, m)
  /\ m = HeadSize(c) => WithHeader = Known(c, base, FALSE, 0, FALSE)

\* The fields of r.
Fields(r, h, type, length, known, a, v, st) ==
  r = [header |-> h, type |-> type, length |-> length, is_length_known |-> known,
       allocated |-> a, value |-> v, is_stored |-> st]

LEMMA HeaderStored ==
  ASSUME NEW r, NEW h0, NEW t0, NEW l0, NEW k0, NEW a, NEW v, NEW st,
         NEW h, NEW type, NEW length, NEW known,
         Fields(r, h0, t0, l0, k0, a, v, st)
  PROVE  Fields([r EXCEPT !.header = h, !.is_length_known = known, !.type = type,
                          !.length = length],
                h, type, length, known, a, v, st)
<1>1. PICK r1 : r1 = [r EXCEPT !.header = h]
  OBVIOUS
<1>2. r1 = [header |-> h, type |-> t0, length |-> l0, is_length_known |-> k0,
            allocated |-> a, value |-> v, is_stored |-> st]
  BY <1>1 DEF Fields
<1>3. PICK r2 : r2 = [r1 EXCEPT !.is_length_known = known]
  OBVIOUS
<1>4. r2 = [header |-> h, type |-> t0, length |-> l0, is_length_known |-> known,
            allocated |-> a, value |-> v, is_stored |-> st]
  BY <1>2, <1>3
<1>5. PICK r3 : r3 = [r2 EXCEPT !.type = type]
  OBVIOUS
<1>6. r3 = [header |-> h, type |-> type, length |-> l0, is_length_known |-> known,
            allocated |-> a, value |-> v, is_stored |-> st]
  BY <1>4, <1>5
<1>7. [r3 EXCEPT !.length = length]
        = [header |-> h, type |-> type, length |-> length, is_length_known |-> known,
           allocated |-> a, value |-> v, is_stored |-> st]
  BY <1>6
<1> QED
  BY <1>1, <1>3, <1>5, <1>7, Zenon DEF Fields

LEMMA HeaderRead ==
  ASSUME wire \in Seq(WireBytes), NEW c \in CapsuleSet, NEW base \in Nat, Stands(c, base, wire),
         hand \in Nat, hand <= Len(wire), pos < hand, InHeader(c, base)
  PROVE  \E m \in Nat : ReadOn(c, base, m)
<1> DEFINE hs == HeadSize(c)
           l == Len(c.value)
<1>0. /\ c.type \in Nat /\ c.tw \in Nat \ {0} /\ c.lw \in Nat \ {0} /\ l \in Nat
      /\ hs \in Nat /\ hs = c.tw + c.lw
  BY CapsuleNumbers
<1>1. PICK k \in Nat : k < hs /\ pos = base + k /\ capsule = Partly(c, base, k)
  BY DEF InHeader
<1>2. /\ capsule.header = SubSeq(wire, base + 1, base + k) /\ capsule.is_length_known = FALSE
      /\ capsule.allocated = FALSE /\ capsule.value = <<>> /\ capsule.is_stored = FALSE
      /\ DOMAIN capsule = {"header", "type", "length", "is_length_known", "allocated", "value",
                           "is_stored"}
  BY <1>1 DEF Partly
<1> HIDE DEF hs, l
\* What is read up to the n-th byte begins the capsule.
<1> DEFINE U(n) == Upto(base, k, n)
           H(n) == SubSeq(wire, base + 1, base + U(n))
<1>3. ASSUME NEW n \in Nat
      PROVE  /\ U(n) \in Nat /\ k <= U(n) /\ base + U(n) <= hand /\ Header(n) = H(n)
             /\ Len(H(n)) = U(n) /\ Starts(H(n), c)
  <2>1. U(n) \in Nat /\ k <= U(n) /\ base + U(n) <= hand /\ Header(n) = H(n)
    BY <1>1, <1>2, HeaderGrown, Zenon
  <2> DEFINE u == U(n)
  <2>2. u \in Nat /\ base + u <= Len(wire)
    BY <2>1, LenProperties
  <2> HIDE DEF u
  <2>3. Len(SubSeq(wire, base + 1, base + u)) = u
    BY <2>2, PartOf, Zenon
  <2>4. Starts(SubSeq(wire, base + 1, base + u), c)
    BY <2>2, BeginningStarts, Zenon
  <2> QED
    BY <2>1, <2>3, <2>4 DEF u
<1>4. U(1) >= 1
  BY <1>1 DEF Upto, Smaller
<1>5. Header(1)[1][2] = c.tw
  <2>1. 1 \in Nat
    OBVIOUS
  <2>2. 1 <= Len(H(1)) /\ Starts(H(1), c) /\ Header(1) = H(1)
    BY <1>3, <1>4, <2>1
  <2> HIDE DEF H
  <2> QED
    BY <2>2, TypeRead, Zenon
<1> DEFINE p == c.tw + 1
           typed == H(p)
           header == IF p <= Len(typed) THEN Header(p + typed[p][2] - 1) ELSE typed
           known == Whole(header, 1) /\ Whole(header, p)
<1>6. p \in Nat /\ hs \in Nat
  BY <1>0
<1>7. U(p) \in Nat /\ U(p) >= 1 /\ (~(p <= U(p)) => U(p) = U(hs))
  <2>1. PICK a \in Nat \ {0} : a = c.tw
    BY <1>0
  <2>2. PICK b \in Nat \ {0} : b = c.lw
    BY <1>0
  <2>3. p = a + 1 /\ hs = a + b
    BY <1>0, <2>1, <2>2
  <2> HIDE DEF p
  <2> QED
    BY <1>1, <1>4, <2>3 DEF Upto, Smaller
<1>8. Header(p) = typed /\ Len(typed) = U(p) /\ Starts(typed, c) /\ 1 <= Len(typed)
  BY <1>3, <1>6, <1>7
<1>9. After(typed, 1) = p
  <2> HIDE DEF typed
  <2> QED
    BY <1>8, TypeRead, Zenon
\* Either way the header is what there is of it.
<1> DEFINE m == U(hs)
<1>10. m \in Nat /\ k <= m /\ m <= hs /\ base + m <= hand /\ 1 <= m
  <2>1. m \in Nat /\ k <= m /\ base + m <= hand
    BY <1>3, <1>6
  <2>2. m <= hs /\ 1 <= m
    BY <1>0, <1>1 DEF Upto, Smaller
  <2> QED
    BY <2>1, <2>2
<1>11. header = H(hs)
  <2>1. CASE p <= Len(typed)
    <3>1. typed[p][2] = c.lw
      <4> HIDE DEF typed
      <4> QED
        BY <1>8, <2>1, LengthRead, Zenon
    <3>2. p + c.lw - 1 = hs
      BY <1>0
    <3>3. header = Header(hs)
      BY <2>1, <3>1, <3>2, Zenon
    <3> QED
      BY <1>3, <1>6, <3>3
  <2>2. CASE ~(p <= Len(typed))
    <3>1. U(p) = U(hs)
      BY <1>6, <1>7, <1>8, <2>2
    <3> QED
      BY <2>2, <3>1, Zenon
  <2> QED
    BY <2>1, <2>2
<1>12. Len(header) = m /\ Starts(header, c) /\ header = SubSeq(wire, base + 1, base + m)
  BY <1>3, <1>6, <1>11
<1>13. WithHeader =
         [capsule EXCEPT !.header = header, !.is_length_known = known,
                         !.type = IF Whole(header, 1) THEN Value(header, 1) ELSE 0,
                         !.length = IF known THEN Value(header, p) ELSE 0]
  <2> DEFINE t0 == Header(Header(1)[1][2] + 1)
             p0 == After(t0, 1)
             h0 == IF p0 <= Len(t0) THEN Header(p0 + t0[p0][2] - 1) ELSE t0
             k0 == Whole(h0, 1) /\ Whole(h0, p0)
  <2>1. WithHeader =
          [capsule EXCEPT !.header = h0, !.is_length_known = k0,
                          !.type = IF Whole(h0, 1) THEN Value(h0, 1) ELSE 0,
                          !.length = IF k0 THEN Value(h0, p0) ELSE 0]
    BY <1>2, Zenon DEF WithHeader
  <2>2. t0 = typed
    BY <1>5, <1>8, Zenon
  <2> HIDE DEF t0, typed
  <2>3. p0 = p
    BY <1>9, <2>2, Zenon
  <2> HIDE DEF p0, p
  <2>4. h0 = header
    BY <2>2, <2>3, Zenon
  <2> HIDE DEF h0, header
  <2> QED
    BY <2>1, <2>3, <2>4, Zenon
<1> HIDE DEF header, typed, U, H, p, m
<1>14. (Whole(header, 1) <=> c.tw <= m) /\ (c.tw <= m => Value(header, 1) = c.type)
  BY <1>10, <1>12, TypeRead, Zenon
<1>15. (known <=> m = hs) /\ (m = hs => Value(header, p) = l)
  <2>1. CASE p <= Len(header)
    <3>1. (Whole(header, p) <=> hs <= Len(header)) /\ (hs <= Len(header) => Value(header, p) = l)
      BY <1>12, <2>1, LengthRead, Zenon DEF p, hs, l
    <3> QED
      BY <1>0, <1>10, <1>12, <1>14, <3>1
  <2>2. CASE ~(p <= Len(header))
    <3>1. ~Whole(header, p)
      BY <2>2 DEF Whole
    <3>2. m # hs
      BY <1>0, <1>10, <1>12, <2>2 DEF p
    <3> QED
      BY <3>1, <3>2
  <2> QED
    BY <2>1, <2>2
<1> HIDE DEF known
<1>16. WithHeader =
         [header |-> header, type |-> IF c.tw <= m THEN c.type ELSE 0,
          length |-> IF m = hs THEN l ELSE 0, is_length_known |-> m = hs, allocated |-> FALSE,
          value |-> <<>>, is_stored |-> FALSE]
  <2> DEFINE type == IF c.tw <= m THEN c.type ELSE 0
             length == IF m = hs THEN l ELSE 0
  <2>1. type = IF Whole(header, 1) THEN Value(header, 1) ELSE 0
    BY <1>14
  <2>2. length = IF known THEN Value(header, p) ELSE 0
    BY <1>15
  <2>3. WithHeader = [capsule EXCEPT !.header = header, !.is_length_known = known,
                                     !.type = type, !.length = length]
    BY <1>13, <2>1, <2>2, Zenon
  <2>4. PICK h0, t0, l0 : Fields(capsule, h0, t0, l0, FALSE, FALSE, <<>>, FALSE)
    BY <1>1, Zenon DEF Partly, Fields
  <2> HIDE DEF type, length
  <2>5. WithHeader =
          [header |-> header, type |-> type, length |-> length, is_length_known |-> known,
           allocated |-> FALSE, value |-> <<>>, is_stored |-> FALSE]
    <3>1. Fields(WithHeader, header, type, length, known, FALSE, <<>>, FALSE)
      BY <2>3, <2>4, HeaderStored, Zenon
    <3> QED
      BY <3>1, Zenon DEF Fields
  <2>6. known = (m = hs)
    BY <1>15, Zenon DEF known
  <2> QED
    BY <2>5, <2>6, Zenon DEF type, length
<1>17. Behind = base + m
  <2>1. Len(capsule.header) = k
    <3>1. base + k <= Len(wire)
      BY <1>1, LenProperties
    <3>2. Len(SubSeq(wire, base + 1, base + k)) = k
      BY <3>1, PartOf, Zenon
    <3> QED
      BY <1>2, <3>2, Zenon
  <2>2. Len(WithHeader.header) = m
    BY <1>12, <1>16
  <2> QED
    BY <1>1, <1>10, <2>1, <2>2 DEF Behind
<1>18. m < hs => WithHeader = Partly(c, base, m)
  <2> SUFFICES ASSUME m < hs PROVE WithHeader = Partly(c, base, m)
    OBVIOUS
  <2>1. (m = hs) = FALSE
    BY <1>6, <1>10
  <2> QED
    BY <1>12, <1>16, <2>1, Zenon DEF Partly
<1>19. m = hs => WithHeader = Known(c, base, FALSE, 0, FALSE)
  <2> SUFFICES ASSUME m = hs PROVE WithHeader = Known(c, base, FALSE, 0, FALSE)
    OBVIOUS
  <2>1. (m = hs) = TRUE /\ c.tw <= m
    BY <1>0
  <2>2. SubSeq(wire, base + hs + 1, base + hs + 0) = <<>>
    <3>1. base + hs \in Int /\ base + hs + 0 \in Int /\ base + hs + 0 <= base + hs
      BY <1>6
    <3> QED
      BY <3>1, NoPart, Zenon
  <2> QED
    BY <1>12, <1>16, <2>1, <2>2, Zenon DEF Known, hs, l
<1>20. ReadOn(c, base, m)
  BY <1>10, <1>17, <1>18, <1>19, Zenon DEF ReadOn, hs
<1> QED
  BY <1>10, <1>20

\* Where the reader is when it has read n capsules and the next stands behind base.
ReaderAt(n, base) ==
  \/ Fresh(base)
  \/ /\ n < Len(sent) /\ pos > base
     /\ \/ InHeader(sent[n + 1], base)
        \/ InValue(sent[n + 1], base)
        \/ Stored(sent[n + 1], base)

\* The n capsules handed on are the first n sent; a reader that gave up has its reason in
\* the next, unless there was no memory.
GotSoFar(n) ==
  /\ n <= Len(sent) /\ got = [i \in 1..n |-> Read(sent[i])]
  /\ failed = "NULL" => n + 1 \in Empty

Reading(n, place) ==
  /\ n \in Nat /\ Places(place, sent, wire) /\ GotSoFar(n)
  /\ failed = "no" => ReaderAt(n, place[n + 1])

ReadInv ==
  /\ pos \in Nat /\ hand \in Nat /\ pos <= hand /\ hand <= Len(wire)
  /\ failed # "no" => ~capsule.is_stored
  /\ \E n, place : Reading(n, place)

\* What is sent later does not matter for what was read.
LEMMA SendReads ==
  ASSUME WireInv, ReadInv, NEW c, SendsOne(c), hand = 0
  PROVE  ReadInv'
<1>1. /\ c \in CapsuleSet /\ sent' = Append(sent, c) /\ wire' = wire \o Capsule(c)
      /\ UNCHANGED readVars
  BY DEF SendsOne, Send
<1>2. /\ pos' = pos /\ hand' = hand /\ capsule' = capsule /\ got' = got /\ failed' = failed
  BY <1>1 DEF readVars
<1>3. sent \in Seq(CapsuleSet) /\ wire \in Seq(WireBytes)
  BY DEF WireInv
<1>4. PICK n, place : Reading(n, place)
  BY DEF ReadInv
<1>5. n \in Nat /\ Places(place, sent, wire) /\ GotSoFar(n)
  BY <1>4 DEF Reading
<1>6. PICK more : /\ Places(more, sent', wire')
                  /\ \A i \in 1..(Len(sent) + 1) : more[i] = place[i]
  <2>1. \E more : /\ Places(more, Append(sent, c), wire \o Capsule(c))
                  /\ \A i \in 1..(Len(sent) + 1) : more[i] = place[i]
    BY <1>1, <1>3, <1>5, PlacesGrow
  <2> QED
    BY <1>1, <2>1
<1>7. /\ Len(sent) \in Nat /\ Len(sent') = Len(sent) + 1
      /\ \A i \in 1..Len(sent) : sent'[i] = sent[i]
  BY <1>1, <1>3, AppendProperties
<1>8. n <= Len(sent) /\ n + 1 \in 1..(Len(sent) + 1) /\ \A i \in 1..n : i \in 1..Len(sent)
  BY <1>5, <1>7 DEF GotSoFar
<1>9. GotSoFar(n)'
  <2>1. n <= Len(sent')
    BY <1>5, <1>7, <1>8
  <2>2. got' = [i \in 1..n |-> Read(sent'[i])]
    <3>1. \A i \in 1..n : Read(sent'[i]) = Read(sent[i])
      BY <1>7, <1>8, Zenon
    <3>2. got' = [i \in 1..n |-> Read(sent[i])]
      BY <1>2, <1>5, Zenon DEF GotSoFar
    <3> QED
      BY <3>1, <3>2, Zenon
  <2>3. failed' = "NULL" => n + 1 \in Empty'
    <3> SUFFICES ASSUME failed' = "NULL" PROVE n + 1 \in Empty'
      OBVIOUS
    <3>1. n + 1 \in DOMAIN sent /\ sent[n + 1].value = <<>>
      BY <1>2, <1>5 DEF GotSoFar, Empty
    <3>2. n + 1 \in 1..Len(sent)
      BY <1>3, <3>1
    <3>3. n + 1 \in DOMAIN sent' /\ sent'[n + 1].value = <<>>
      <4>1. sent'[n + 1] = sent[n + 1]
        BY <1>7, <3>2, Zenon
      <4>2. sent' \in Seq(CapsuleSet)
        BY <1>1, <1>3, AppendProperties
      <4>3. n + 1 \in 1..Len(sent')
        BY <1>7, <3>2
      <4> QED
        BY <3>1, <4>1, <4>2, <4>3
    <3> QED
      BY <3>3 DEF Empty
  <2> QED
    BY <2>1, <2>2, <2>3, Zenon DEF GotSoFar
<1>10. failed' = "no" => ReaderAt(n, more[n + 1])'
  <2> SUFFICES ASSUME failed = "no" PROVE ReaderAt(n, more[n + 1])'
    BY <1>2
  <2>1. more[n + 1] = place[n + 1] /\ place[n + 1] \in Nat
    BY <1>5, <1>6, <1>8 DEF Places
  <2>2. pos = 0
    BY DEF ReadInv
  <2>3. Fresh(place[n + 1])
    <3>1. ReaderAt(n, place[n + 1])
      BY <1>4 DEF Reading
    <3>2. ~(pos > place[n + 1])
      BY <2>1, <2>2
    <3> QED
      BY <3>1, <3>2, Zenon DEF ReaderAt
  <2> QED
    BY <1>2, <2>1, <2>3, Zenon DEF ReaderAt, Fresh
<1>11. Reading(n, more)'
  BY <1>5, <1>6, <1>9, <1>10, Zenon DEF Reading
<1>12. 0 <= Len(wire') /\ pos' \in Nat /\ hand' \in Nat /\ pos' <= hand' /\ hand' <= Len(wire')
  <2>1. Capsule(c) \in Seq(WireBytes)
    BY <1>1, CapsuleFacts
  <2>2. wire' \in Seq(WireBytes)
    BY <1>1, <1>3, <2>1, ConcatFacts
  <2>3. Len(wire') \in Nat
    BY <2>2, LenProperties
  <2> QED
    BY <1>2, <2>3 DEF ReadInv
<1>13. failed' # "no" => ~capsule'.is_stored
  BY <1>2 DEF ReadInv
<1> QED
  BY <1>11, <1>12, <1>13, Zenon DEF ReadInv

\* The capsule being read, and that there is one.
LEMMA NextCapsule ==
  ASSUME WireInv, ReadInv, NEW n, NEW place, Reading(n, place), Accumulating
  PROVE  /\ n \in Nat /\ n < Len(sent) /\ n + 1 \in 1..Len(sent)
         /\ sent[n + 1] \in CapsuleSet /\ place[n + 1] \in Nat
         /\ Stands(sent[n + 1], place[n + 1], wire)
         /\ InHeader(sent[n + 1], place[n + 1]) \/ InValue(sent[n + 1], place[n + 1])
<1> DEFINE c == sent[n + 1]
           base == place[n + 1]
<1>1. sent \in Seq(CapsuleSet) /\ wire \in Seq(WireBytes) /\ Len(sent) \in Nat
  BY LenProperties DEF WireInv
<1>2. n \in Nat /\ n <= Len(sent) /\ Places(place, sent, wire)
  BY DEF Reading, GotSoFar
<1>3. /\ pos < hand /\ failed = "no" /\ ~capsule.is_stored /\ pos \in Nat /\ hand \in Nat
      /\ hand <= Len(wire) /\ Len(wire) \in Nat
  BY <1>1, LenProperties DEF Accumulating, InCall, ReadInv
<1>4. ReaderAt(n, base)
  BY <1>3 DEF Reading
<1>5. n < Len(sent)
  <2> SUFFICES ASSUME n = Len(sent) PROVE FALSE
    BY <1>1, <1>2
  <2>1. base = Len(wire)
    BY <1>2 DEF Places
  <2>2. ~(n < Len(sent))
    BY <1>1
  <2>3. pos = base
    BY <1>4, <2>2, Zenon DEF ReaderAt, Fresh
  <2> QED
    BY <1>3, <2>1, <2>3
<1>6. n + 1 \in 1..Len(sent) /\ n + 1 \in 1..(Len(sent) + 1)
  BY <1>1, <1>2, <1>5
<1>7. c \in CapsuleSet
  BY <1>1, <1>6, ElementOfSeq, Zenon
<1>8. base \in Nat /\ Stands(c, base, wire)
  BY <1>2, <1>6 DEF Places
<1>9. CASE Fresh(base)
  <2>1. HeadSize(c) \in Nat /\ 0 < HeadSize(c) /\ ~(c.tw <= 0)
    BY <1>7, CapsuleNumbers
  <2>2. SubSeq(wire, base + 1, base + 0) = <<>>
    <3>1. base \in Int /\ base + 0 \in Int /\ base + 0 <= base
      BY <1>8
    <3> QED
      BY <3>1, NoPart, Zenon
  <2>3. Released = Partly(c, base, 0)
    BY <2>1, <2>2, Zenon DEF Released, Partly
  <2>4. pos = base + 0 /\ capsule = Released /\ 0 \in Nat
    BY <1>8, <1>9 DEF Fresh
  <2> QED
    BY <1>2, <1>5, <1>6, <1>7, <1>8, <2>1, <2>3, <2>4, Zenon DEF InHeader
<1>10. CASE ~Fresh(base)
  <2>1. ~Stored(c, base)
    BY <1>3 DEF Stored, Known
  <2> QED
    BY <1>2, <1>4, <1>5, <1>6, <1>7, <1>8, <1>10, <2>1, Zenon DEF ReaderAt
<1> QED
  BY <1>9, <1>10

\* The reader's place stays the reader's place when the stream does.
LEMMA ReadingKept ==
  ASSUME NEW n, NEW place, Reading(n, place), UNCHANGED writeVars, got' = got,
         failed' = "NULL" => n + 1 \in Empty,
         failed' = "no" => ReaderAt(n, place[n + 1])'
  PROVE  Reading(n, place)'
<1>1. sent' = sent /\ wire' = wire
  BY DEF writeVars
<1>2. Empty' = Empty
  BY <1>1 DEF Empty
<1>3. GotSoFar(n)'
  BY <1>1, <1>2 DEF Reading, GotSoFar
<1> QED
  BY <1>1, <1>3 DEF Reading

\* A step of others.
LEMMA ReadKept ==
  ASSUME ReadInv, UNCHANGED writeVars, UNCHANGED readVars
  PROVE  ReadInv'
<1>1. /\ pos' = pos /\ hand' = hand /\ capsule' = capsule /\ got' = got /\ failed' = failed
      /\ sent' = sent /\ wire' = wire
  BY DEF readVars, writeVars
<1>2. PICK n, place : Reading(n, place)
  BY DEF ReadInv
<1>3. failed' = "no" => ReaderAt(n, place[n + 1])'
  <2>1. failed' = "no" => ReaderAt(n, place[n + 1])
    BY <1>1, <1>2 DEF Reading
  <2> QED
    BY <1>1, <2>1 DEF ReaderAt, Fresh, InHeader, InValue, Stored, Partly, Known
<1>4. failed' = "NULL" => n + 1 \in Empty
  BY <1>1, <1>2 DEF Reading, GotSoFar
<1>5. Reading(n, place)'
  BY <1>1, <1>2, <1>3, <1>4, ReadingKept, Zenon
<1> QED
  BY <1>1, <1>5 DEF ReadInv

LEMMA DeliverReads ==
  ASSUME WireInv, ReadInv, NEW n \in Chunks, Deliver(n)
  PROVE  ReadInv'
<1>1. /\ n \in Nat /\ ~InCall /\ failed = "no" /\ hand + n <= Len(wire) /\ hand' = hand + n
      /\ UNCHANGED writeVars /\ pos' = pos /\ capsule' = capsule /\ got' = got /\ failed' = failed
  BY NumbersAssumption DEF Deliver
<1>2. PICK k, place : Reading(k, place)
  BY DEF ReadInv
<1>3. ReaderAt(k, place[k + 1])'
  <2>1. ReaderAt(k, place[k + 1])
    BY <1>1, <1>2 DEF Reading
  <2>2. sent' = sent /\ wire' = wire
    BY <1>1 DEF writeVars
  <2> QED
    BY <1>1, <2>1, <2>2 DEF ReaderAt, Fresh, InHeader, InValue, Stored, Partly, Known
<1>4. Reading(k, place)'
  BY <1>1, <1>2, <1>3, ReadingKept, Zenon
<1>5. pos' \in Nat /\ hand' \in Nat /\ pos' <= hand' /\ hand' <= Len(wire')
  BY <1>1 DEF ReadInv, writeVars
<1> QED
  BY <1>1, <1>4, <1>5 DEF ReadInv

LEMMA HeaderCutReads ==
  ASSUME WireInv, ReadInv, HeaderCut
  PROVE  ReadInv'
<1>1. /\ Accumulating /\ ~WithHeader.is_length_known /\ capsule' = WithHeader /\ pos' = Behind
      /\ UNCHANGED writeVars /\ hand' = hand /\ got' = got /\ failed' = failed
  BY DEF HeaderCut
<1>2. PICK n, place : Reading(n, place)
  BY DEF ReadInv
<1> DEFINE c == sent[n + 1]
           base == place[n + 1]
<1>3. /\ n \in Nat /\ n < Len(sent) /\ c \in CapsuleSet /\ base \in Nat /\ Stands(c, base, wire)
      /\ InHeader(c, base) \/ InValue(c, base)
  BY <1>1, <1>2, NextCapsule, Zenon
<1>4. /\ wire \in Seq(WireBytes) /\ hand \in Nat /\ pos < hand /\ hand <= Len(wire)
      /\ failed = "no"
  BY <1>1 DEF WireInv, ReadInv, Accumulating, InCall
<1>5. ~InValue(c, base)
  <2> SUFFICES ASSUME InValue(c, base) PROVE FALSE
    OBVIOUS
  <2>1. capsule.is_length_known
    BY DEF InValue, Known
  <2> QED
    BY <1>1, <2>1, Zenon DEF WithHeader
<1>6. PICK m \in Nat : ReadOn(c, base, m)
  BY <1>3, <1>4, <1>5, HeaderRead, Zenon
<1>7. HeadSize(c) \in Nat
  BY <1>3, CapsuleNumbers
<1>8. m # HeadSize(c)
  BY <1>1, <1>6 DEF ReadOn, Known
<1>9. m < HeadSize(c) /\ 1 <= m /\ base + m <= hand /\ Behind = base + m
      /\ WithHeader = Partly(c, base, m)
  BY <1>6, <1>7, <1>8 DEF ReadOn
<1>10. sent' = sent /\ wire' = wire
  BY <1>1 DEF writeVars
<1>11. ReaderAt(n, place[n + 1])'
  <2>1. capsule' = Partly(c, base, m)' /\ pos' = base + m /\ base + m > base
    BY <1>1, <1>3, <1>9, <1>10 DEF Partly
  <2> QED
    BY <1>3, <1>9, <1>10, <2>1, Zenon DEF ReaderAt, InHeader
<1>12. Reading(n, place)'
  BY <1>1, <1>2, <1>4, <1>11, ReadingKept, Zenon
<1>13. pos' \in Nat /\ hand' \in Nat /\ pos' <= hand' /\ hand' <= Len(wire')
  BY <1>1, <1>3, <1>4, <1>9, <1>10
<1> QED
  BY <1>1, <1>4, <1>12, <1>13 DEF ReadInv

LEMMA NoBufferReads ==
  ASSUME WireInv, ReadInv, NoBuffer
  PROVE  ReadInv'
<1>1. /\ Accumulating /\ WithHeader.is_length_known /\ ~capsule.allocated
      /\ failed' = "NULL" => WithHeader.length = 0
      /\ failed' \in {"NULL", "memory"} /\ capsule' = WithHeader
      /\ UNCHANGED writeVars /\ pos' = pos /\ hand' = hand /\ got' = got
  BY DEF NoBuffer
<1>2. PICK n, place : Reading(n, place)
  BY DEF ReadInv
<1> DEFINE c == sent[n + 1]
           base == place[n + 1]
<1>3. /\ n \in Nat /\ n < Len(sent) /\ n + 1 \in 1..Len(sent)
      /\ c \in CapsuleSet /\ base \in Nat /\ Stands(c, base, wire)
      /\ InHeader(c, base) \/ InValue(c, base)
  BY <1>1, <1>2, NextCapsule, Zenon
<1>4. wire \in Seq(WireBytes) /\ hand \in Nat /\ pos < hand /\ hand <= Len(wire)
  BY <1>1 DEF WireInv, ReadInv, Accumulating, InCall
<1>5. ~InValue(c, base)
  BY <1>1 DEF InValue, Known
<1>6. PICK m \in Nat : ReadOn(c, base, m)
  BY <1>3, <1>4, <1>5, HeaderRead, Zenon
<1>7. HeadSize(c) \in Nat /\ c.value \in Seq(Octets)
  BY <1>3, CapsuleNumbers
<1>8. ~(m < HeadSize(c))
  BY <1>1, <1>6 DEF ReadOn, Partly
<1>9. WithHeader = Known(c, base, FALSE, 0, FALSE)
  <2>1. m <= HeadSize(c) /\ (m = HeadSize(c) => WithHeader = Known(c, base, FALSE, 0, FALSE))
    BY <1>6, Zenon DEF ReadOn
  <2>2. m = HeadSize(c)
    BY <1>7, <1>8, <2>1
  <2> QED
    BY <2>1, <2>2, Zenon
<1>10. WithHeader.length = Len(c.value) /\ ~capsule'.is_stored
  BY <1>1, <1>9 DEF Known
<1>11. failed' = "NULL" => n + 1 \in Empty
  <2> SUFFICES ASSUME failed' = "NULL" PROVE n + 1 \in Empty
    OBVIOUS
  <2>1. c.value = <<>>
    BY <1>1, <1>7, <1>10
  <2>2. n + 1 \in DOMAIN sent
    BY <1>3 DEF WireInv
  <2> QED
    BY <2>1, <2>2 DEF Empty
<1>12. Reading(n, place)'
  <2>1. failed' # "no"
    BY <1>1
  <2> QED
    BY <1>1, <1>2, <1>11, <2>1, ReadingKept, Zenon
<1>13. pos' \in Nat /\ hand' \in Nat /\ pos' <= hand' /\ hand' <= Len(wire')
  BY <1>1 DEF ReadInv, writeVars
<1> QED
  BY <1>10, <1>12, <1>13 DEF ReadInv

\* The header is known: v bytes of the value are there.
AtValue(c, base, a, v) ==
  /\ v <= Len(c.value) /\ base + HeadSize(c) + v <= hand
  /\ Behind = base + HeadSize(c) + v /\ WithHeader = Known(c, base, a, v, FALSE)
  /\ capsule.value = SubSeq(wire, base + HeadSize(c) + 1, base + HeadSize(c) + v)

LEMMA ValueNext ==
  ASSUME NEW c \in CapsuleSet, NEW base \in Nat, Stands(c, base, wire), wire \in Seq(WireBytes),
         pos \in Nat, hand \in Nat, pos < hand, hand <= Len(wire), WithHeader.is_length_known,
         InHeader(c, base) \/ InValue(c, base)
  PROVE  \E a, v : v \in Nat /\ AtValue(c, base, a, v)
<1> DEFINE hs == HeadSize(c)
<1>0. hs \in Nat
  BY CapsuleNumbers
<1>1. CASE InHeader(c, base)
  <2>1. PICK m \in Nat : ReadOn(c, base, m)
    BY <1>1, HeaderRead, Zenon
  <2>2. /\ m <= hs /\ base + m <= hand /\ Behind = base + m
        /\ m < hs => WithHeader = Partly(c, base, m)
        /\ m = hs => WithHeader = Known(c, base, FALSE, 0, FALSE)
    BY <2>1, Zenon DEF ReadOn
  <2>3. ~(m < hs)
    BY <2>2 DEF Partly
  <2>4. m = hs
    BY <1>0, <2>2, <2>3
  <2>5. capsule.value = <<>>
    BY <1>1 DEF InHeader, Partly
  <2>6. SubSeq(wire, base + hs + 1, base + hs + 0) = <<>>
    <3>1. base + hs \in Int /\ base + hs + 0 \in Int /\ base + hs + 0 <= base + hs
      BY <1>0
    <3> QED
      BY <3>1, NoPart, Zenon
  <2>7. 0 \in Nat /\ 0 <= Len(c.value) /\ base + hs + 0 = base + m
    BY <1>0, <2>4, CapsuleNumbers
  <2>8. AtValue(c, base, FALSE, 0)
    BY <2>2, <2>4, <2>5, <2>6, <2>7, Zenon DEF AtValue
  <2> QED
    BY <2>7, <2>8
<1>2. CASE InValue(c, base)
  <2>1. PICK v \in Nat : /\ v < Len(c.value) /\ pos = base + hs + v
                        /\ capsule = Known(c, base, TRUE, v, FALSE)
    BY <1>2 DEF InValue
  <2>2. /\ capsule.is_length_known /\ capsule.header = SubSeq(wire, base + 1, base + hs)
        /\ capsule.value = SubSeq(wire, base + hs + 1, base + hs + v)
    BY <2>1 DEF Known
  <2>3. WithHeader = capsule
    BY <2>2, Zenon DEF WithHeader
  <2>4. Len(capsule.header) \in Int
    <3>1. base + hs <= Len(wire)
      BY <1>0, CapsuleNumbers DEF Stands
    <3>2. Len(SubSeq(wire, base + 1, base + hs)) = hs
      BY <1>0, <3>1, PartOf, Zenon
    <3> QED
      BY <1>0, <2>2, <3>2
  <2>5. Behind = pos
    <3>1. Behind = pos + Len(capsule.header) - Len(capsule.header)
      BY <2>3, Zenon DEF Behind
    <3> QED
      BY <2>4, <3>1
  <2>6. v <= Len(c.value) /\ base + hs + v <= hand
    BY <2>1, CapsuleNumbers
  <2>7. AtValue(c, base, TRUE, v)
    BY <2>1, <2>2, <2>3, <2>5, <2>6, Zenon DEF AtValue
  <2> QED
    BY <2>7
<1> QED
  BY <1>1, <1>2

LEMMA ValueStored ==
  ASSUME NEW r, NEW h, NEW type, NEW length, NEW known, NEW a0, NEW v0, NEW st0,
         NEW a, NEW v, NEW st,
         Fields(r, h, type, length, known, a0, v0, st0)
  PROVE  Fields([r EXCEPT !.allocated = a, !.value = v, !.is_stored = st],
                h, type, length, known, a, v, st)
<1>1. PICK r1 : r1 = [r EXCEPT !.allocated = a]
  OBVIOUS
<1>2. r1 = [header |-> h, type |-> type, length |-> length, is_length_known |-> known,
            allocated |-> a, value |-> v0, is_stored |-> st0]
  BY <1>1 DEF Fields
<1>3. PICK r2 : r2 = [r1 EXCEPT !.value = v]
  OBVIOUS
<1>4. r2 = [header |-> h, type |-> type, length |-> length, is_length_known |-> known,
            allocated |-> a, value |-> v, is_stored |-> st0]
  BY <1>2, <1>3
<1>5. [r2 EXCEPT !.is_stored = st]
        = [header |-> h, type |-> type, length |-> length, is_length_known |-> known,
           allocated |-> a, value |-> v, is_stored |-> st]
  BY <1>4
<1> QED
  BY <1>1, <1>3, <1>5, Zenon DEF Fields

LEMMA TakeReads ==
  ASSUME WireInv, ReadInv, Take
  PROVE  ReadInv'
<1>1. /\ Accumulating /\ WithHeader.is_length_known /\ UNCHANGED writeVars
      /\ hand' = hand /\ got' = got /\ failed' = failed
  BY DEF Take
<1>2. PICK n, place : Reading(n, place)
  BY DEF ReadInv
<1> DEFINE c == sent[n + 1]
           base == place[n + 1]
           l == Len(c.value)
           q == base + HeadSize(c)
<1>3. /\ n \in Nat /\ n < Len(sent) /\ c \in CapsuleSet /\ base \in Nat /\ Stands(c, base, wire)
      /\ InHeader(c, base) \/ InValue(c, base)
  BY <1>1, <1>2, NextCapsule, Zenon
<1>4. /\ wire \in Seq(WireBytes) /\ pos \in Nat /\ hand \in Nat /\ pos < hand /\ hand <= Len(wire)
      /\ failed = "no"
  BY <1>1 DEF WireInv, ReadInv, Accumulating, InCall
<1>5. PICK a, v : v \in Nat /\ AtValue(c, base, a, v)
  BY <1>1, <1>3, <1>4, ValueNext, Zenon
<1>6. /\ l \in Nat /\ HeadSize(c) \in Nat \ {0} /\ Size(c) = HeadSize(c) + l
  BY <1>3, CapsuleNumbers
<1>7. Len(wire) \in Nat
  BY <1>4, LenProperties
<1>8. /\ v <= l /\ q + v <= hand /\ Behind = q + v /\ WithHeader = Known(c, base, a, v, FALSE)
      /\ capsule.value = SubSeq(wire, q + 1, q + v) /\ q \in Nat
  BY <1>3, <1>5, <1>6 DEF AtValue
<1>9. WithHeader.length = l
  BY <1>8 DEF Known
<1> HIDE DEF q, l
<1>10. Len(capsule.value) = v
  <2>1. q + v <= Len(wire)
    BY <1>4, <1>5, <1>7, <1>8
  <2>2. Len(SubSeq(wire, q + 1, q + v)) = v
    BY <1>4, <1>5, <1>8, <2>1, PartOf, Zenon
  <2> QED
    BY <1>8, <2>2, Zenon
<1> DEFINE m == Smaller(hand - Behind, WithHeader.length - Len(capsule.value))
           value == capsule.value \o SubSeq(wire, Behind + 1, Behind + m)
           st == Len(value) >= WithHeader.length
<1>11. /\ capsule' = [WithHeader EXCEPT !.allocated = TRUE, !.value = value, !.is_stored = st]
       /\ pos' = Behind + m
  BY Zenon DEF Take
<1>12. /\ m \in Nat /\ v + m \in Nat /\ v + m <= l /\ q + v + m <= hand /\ Behind + m = q + v + m
       /\ q + v + m <= Len(wire)
  <2>1. m = Smaller(hand - (q + v), l - v)
    BY <1>8, <1>9, <1>10, Zenon
  <2> HIDE DEF m
  <2> QED
    BY <1>4, <1>5, <1>6, <1>7, <1>8, <2>1 DEF Smaller
<1> HIDE DEF m
<1>13. PICK k \in Nat : /\ k = v + m /\ k <= l /\ q + k <= hand /\ q + k <= Len(wire)
                        /\ q + v + m = q + k /\ Behind + m = q + k
  BY <1>5, <1>8, <1>12
<1>14. value = SubSeq(wire, q + 1, q + k) /\ Len(value) = k
  <2>1. value = SubSeq(wire, q + 1, q + v) \o SubSeq(wire, q + v + 1, q + v + m)
    BY <1>8, <1>12, Zenon
  <2>2. value = SubSeq(wire, q + 1, q + v + m)
    BY <1>4, <1>5, <1>8, <1>12, <2>1, JoinParts
  <2>3. value = SubSeq(wire, q + 1, q + k)
    BY <1>13, <2>2, Zenon
  <2> HIDE DEF value
  <2>4. Len(SubSeq(wire, q + 1, q + k)) = k
    <3>1. wire \in Seq(WireBytes) /\ q \in Nat /\ k \in Nat /\ q + k <= Len(wire)
      BY <1>4, <1>8, <1>13
    <3> QED
      BY <3>1, PartOf
  <2> QED
    BY <2>3, <2>4, Zenon
<1> HIDE DEF value
<1>15. Fields(WithHeader, SubSeq(wire, base + 1, base + HeadSize(c)), c.type, l, TRUE, a,
              SubSeq(wire, q + 1, q + v), FALSE)
  BY <1>8, Zenon DEF Known, Fields, q, l
<1>16. Fields(capsule', SubSeq(wire, base + 1, base + HeadSize(c)), c.type, l, TRUE, TRUE, value, st)
  BY <1>11, <1>15, ValueStored, Zenon
<1>17. st = (k >= l)
  BY <1>9, <1>14, Zenon
<1> HIDE DEF st
<1>18. capsule' = [header |-> SubSeq(wire, base + 1, base + HeadSize(c)), type |-> c.type,
                   length |-> l, is_length_known |-> TRUE, allocated |-> TRUE,
                   value |-> SubSeq(wire, q + 1, q + k), is_stored |-> k >= l]
  BY <1>14, <1>16, <1>17, Zenon DEF Fields
<1>19. sent' = sent /\ wire' = wire
  BY <1>1 DEF writeVars
<1>20. PICK e \in Nat \ {0} : e = HeadSize(c) /\ q = base + e
  BY <1>6 DEF q
<1>21. pos' = q + k /\ pos' = base + e + k /\ pos' > base /\ Size(c) = e + l
  <2>1. pos' = q + k
    BY <1>11, <1>13, Zenon
  <2>2. base \in Nat
    BY <1>3
  <2>3. Size(c) = e + l
    BY <1>6, <1>20, Zenon
  <2> HIDE DEF base
  <2>4. q + k = base + e + k /\ base + e + k > base
    BY <1>13, <1>20, <2>2
  <2> QED
    BY <2>1, <2>3, <2>4, Zenon
<1>22. ReaderAt(n, place[n + 1])'
  <2>1. CASE k = l
    <3>1. (k >= l) = TRUE
      BY <1>13, <2>1
    <3>2. capsule' = Known(c, base, TRUE, Len(c.value), TRUE)'
      BY <1>18, <1>19, <2>1, <3>1, Zenon DEF Known, q, l
    <3>3. pos' = base + Size(c)
      <4>1. base \in Nat
        BY <1>3
      <4>2. pos' = base + e + l
        BY <1>21, <2>1, Zenon
      <4> HIDE DEF base
      <4>3. base + e + l = base + (e + l)
        BY <1>6, <1>20, <4>1
      <4> QED
        BY <1>21, <4>2, <4>3, Zenon
    <3>4. Stored(c, base)'
      BY <1>19, <3>2, <3>3, Zenon DEF Stored
    <3> QED
      BY <1>3, <1>19, <1>21, <3>4, Zenon DEF ReaderAt
  <2>2. CASE k # l
    <3>1. (k >= l) = FALSE /\ k < l
      BY <1>6, <1>13, <2>2
    <3>2. capsule' = Known(c, base, TRUE, k, FALSE)'
      BY <1>18, <1>19, <3>1, Zenon DEF Known, q, l
    <3>3. k < Len(c.value) /\ pos' = base + HeadSize(c) + k
      BY <1>20, <1>21, <3>1, Zenon DEF l
    <3>4. InValue(c, base)'
      BY <1>13, <1>19, <3>2, <3>3, Zenon DEF InValue
    <3> QED
      BY <1>3, <1>19, <1>21, <3>4, Zenon DEF ReaderAt
  <2> QED
    BY <2>1, <2>2
<1>23. Reading(n, place)'
  BY <1>1, <1>2, <1>4, <1>22, ReadingKept, Zenon
<1>24. pos' \in Nat /\ hand' \in Nat /\ pos' <= hand' /\ hand' <= Len(wire')
  BY <1>1, <1>4, <1>8, <1>13, <1>19, <1>21
<1> QED
  BY <1>1, <1>4, <1>23, <1>24 DEF ReadInv

LEMMA ReleaseReads ==
  ASSUME WireInv, ReadInv, Release
  PROVE  ReadInv'
<1>1. /\ capsule.is_stored /\ got' = Append(got, [type |-> capsule.type, value |-> capsule.value])
      /\ capsule' = Released /\ UNCHANGED writeVars /\ pos' = pos /\ hand' = hand /\ failed' = failed
  BY DEF Release
<1>2. failed = "no"
  BY <1>1 DEF ReadInv
<1>3. PICK n, place : Reading(n, place)
  BY DEF ReadInv
<1> DEFINE c == sent[n + 1]
           base == place[n + 1]
<1>4. /\ n \in Nat /\ Places(place, sent, wire) /\ n <= Len(sent)
      /\ got = [i \in 1..n |-> Read(sent[i])] /\ ReaderAt(n, base)
  BY <1>2, <1>3 DEF Reading, GotSoFar
<1>5. n < Len(sent) /\ Stored(c, base)
  <2>1. ~Fresh(base)
    BY <1>1 DEF Fresh, Released
  <2>2. ~InHeader(c, base) /\ ~InValue(c, base)
    BY <1>1 DEF InHeader, Partly, InValue, Known
  <2> QED
    BY <1>4, <2>1, <2>2, Zenon DEF ReaderAt
<1>6. sent \in Seq(CapsuleSet) /\ wire \in Seq(WireBytes) /\ Len(sent) \in Nat
  BY LenProperties DEF WireInv
<1>7. n + 1 \in 1..Len(sent) /\ n + 1 + 1 \in 1..(Len(sent) + 1)
  BY <1>4, <1>5, <1>6
<1>8. c \in CapsuleSet /\ Stands(c, base, wire) /\ place[n + 1 + 1] = base + Size(c) /\ base \in Nat
  <2>1. c \in CapsuleSet
    BY <1>6, <1>7, ElementOfSeq, Zenon
  <2>2. Stands(c, base, wire) /\ place[n + 1 + 1] = base + Size(c)
    BY <1>4, <1>7, Zenon DEF Places
  <2> QED
    BY <2>1, <2>2 DEF Stands
<1>9. [type |-> capsule.type, value |-> capsule.value] = Read(c)
  <2>1. /\ capsule.type = c.type
        /\ capsule.value = SubSeq(wire, base + HeadSize(c) + 1, base + HeadSize(c) + Len(c.value))
    BY <1>5 DEF Stored, Known
  <2>2. capsule.value = Bytes(c.value)
    BY <1>6, <1>8, <2>1, ValuePart, Zenon
  <2> QED
    BY <2>1, <2>2, Zenon DEF Read
<1>10. got' = [i \in 1..(n + 1) |-> Read(sent[i])]
  <2> DEFINE S == {Read(sent[i]) : i \in 1..(n + 1)}
             f == [i \in 1..n |-> Read(sent[i])]
             g == [i \in 1..(n + 1) |-> Read(sent[i])]
  <2>1. f \in Seq(S) /\ Len(f) = n /\ \A i \in 1..n : f[i] = Read(sent[i])
    <3>1. f \in [1..n -> S] /\ \A i \in 1..n : f[i] = Read(sent[i])
      BY <1>4
    <3> QED
      BY <1>4, <3>1, FunctionIsSeq
  <2>2. g \in Seq(S) /\ Len(g) = n + 1 /\ \A i \in 1..(n + 1) : g[i] = Read(sent[i])
    <3>1. /\ g \in [1..(n + 1) -> S] /\ n + 1 \in Nat
          /\ \A i \in 1..(n + 1) : g[i] = Read(sent[i])
      BY <1>4
    <3> HIDE DEF S, f, g
    <3> QED
      BY <3>1, FunctionIsSeq
  <2>3. Read(c) \in S
    BY <1>4
  <2>4. got' = Append(f, Read(c))
    BY <1>1, <1>4, <1>9, Zenon
  <2> HIDE DEF S, f, g
  <2> DEFINE h == Append(f, Read(c))
  <2>5. h \in Seq(S) /\ Len(h) = n + 1 /\ h[n + 1] = Read(c) /\ \A i \in 1..n : h[i] = f[i]
    BY <2>1, <2>3, AppendProperties
  <2> HIDE DEF h
  <2>6. \A i \in 1..(n + 1) : h[i] = g[i]
    <3> TAKE i \in 1..(n + 1)
    <3>1. CASE i = n + 1
      BY <2>2, <2>5, <3>1, Zenon
    <3>2. CASE i # n + 1
      <4>1. i \in 1..n
        BY <1>4, <3>2
      <4> QED
        BY <2>1, <2>2, <2>5, <4>1, Zenon
    <3> QED
      BY <3>1, <3>2
  <2>7. h = g
    BY <2>2, <2>5, <2>6, SeqEqual, Zenon
  <2> QED
    BY <2>4, <2>7, Zenon DEF h, g
<1>11. sent' = sent /\ wire' = wire
  BY <1>1 DEF writeVars
<1>12. GotSoFar(n + 1)'
  <2>1. n + 1 <= Len(sent)
    BY <1>4, <1>5, <1>6
  <2>2. failed' # "NULL"
    BY <1>1, <1>2
  <2> QED
    BY <1>10, <1>11, <2>1, <2>2, Zenon DEF GotSoFar
<1>13. Fresh(place[n + 1 + 1])'
  BY <1>1, <1>5, <1>8 DEF Fresh, Stored
<1>14. Reading(n + 1, place)'
  <2>1. n + 1 \in Nat
    BY <1>4
  <2>2. ReaderAt(n + 1, place[n + 1 + 1])'
    BY <1>13, Zenon DEF ReaderAt
  <2>3. Places(place, sent', wire')
    BY <1>4, <1>11, Zenon
  <2> QED
    BY <1>12, <2>1, <2>2, <2>3, Zenon DEF Reading
<1>15. ~capsule'.is_stored
  BY <1>1 DEF Released
<1>16. pos' \in Nat /\ hand' \in Nat /\ pos' <= hand' /\ hand' <= Len(wire')
  BY <1>1, <1>11 DEF ReadInv
<1> QED
  BY <1>14, <1>15, <1>16 DEF ReadInv

LEMMA ReadStep ==
  ASSUME WireInv, ReadInv, [CapsulesNext]_capsulesVars
  PROVE  ReadInv'
<1>1. CASE told = <<>> /\ hand = 0 /\ (\/ \E m \in Closings : SendClose(m)
                                     \/ SendDrain
                                     \/ \E c \in Peer : PeerCapsule(c))
  BY <1>1, SendsCapsule, SendReads, Zenon
<1>2. CASE ProtocolInit
  BY <1>2, ReadKept DEF ProtocolInit
<1>3. CASE Encode
  BY <1>3, ReadKept DEF Encode
<1>4. ASSUME NEW n \in Chunks, Deliver(n) PROVE ReadInv'
  BY <1>4, DeliverReads
<1>5. CASE HeaderCut
  BY <1>5, HeaderCutReads
<1>6. CASE NoBuffer
  BY <1>6, NoBufferReads
<1>7. CASE Take
  BY <1>7, TakeReads
<1>8. CASE Release
  BY <1>8, ReleaseReads
<1>9. ASSUME NEW n, ReceiveCapsule(n) PROVE ReadInv'
  BY <1>9, ReadKept DEF ReceiveCapsule
<1>10. CASE UNCHANGED capsulesVars
  BY <1>10, ReadKept DEF capsulesVars
<1> QED
  BY <1>1, <1>2, <1>3, <1>4, <1>5, <1>6, <1>7, <1>8, <1>9, <1>10, Zenon DEF CapsulesNext
-----------------------------------------------------------------------------
(* The theorems                                                            *)

\* What is written, what is read of it, and what is told of a part in one piece.
CapsulesInv == WireInv /\ ReadInv /\ CloseReported

LEMMA CapsulesStart == CapsulesInit => CapsulesInv
<1> SUFFICES ASSUME CapsulesInit PROVE CapsulesInv
  OBVIOUS
<1>1. /\ sent = <<>> /\ wire = <<>> /\ pos = 0 /\ hand = 0 /\ capsule = Released /\ got = <<>>
      /\ failed = "no" /\ told = <<>>
  BY DEF CapsulesInit
<1> DEFINE place == [i \in 1..1 |-> 0]
<1>2. Places(place, sent, wire)
  <2>1. Len(sent) = 0 /\ Len(wire) = 0 /\ Len(sent) + 1 = 1
    BY <1>1
  <2>2. place \in [1..1 -> Nat] /\ place[1] = 0
    OBVIOUS
  <2>3. 1..0 = {}
    OBVIOUS
  <2> HIDE DEF place
  <2> QED
    BY <2>1, <2>2, <2>3, Zenon DEF Places
<1>3. WireInv
  BY <1>1, <1>2 DEF WireInv
<1>4. Reading(0, place)
  <2>1. place[0 + 1] = 0 /\ 0 \in Nat /\ 0 <= Len(sent)
    BY <1>1
  <2>2. GotSoFar(0)
    <3>1. got = [i \in 1..0 |-> Read(sent[i])]
      BY <1>1
    <3> QED
      BY <1>1, <2>1, <3>1 DEF GotSoFar
  <2> HIDE DEF place
  <2>3. ReaderAt(0, place[0 + 1])
    BY <1>1, <2>1, Zenon DEF ReaderAt, Fresh
  <2> QED
    BY <1>2, <2>1, <2>2, <2>3, Zenon DEF Reading
<1>5. ReadInv
  BY <1>1, <1>4 DEF ReadInv
<1>6. CloseReported
  BY <1>1 DEF CloseReported
<1> QED
  BY <1>3, <1>5, <1>6 DEF CapsulesInv

\* What was sent stands in the stream, capsule by capsule, and the reader is where the bytes
\* handed to h3zero_accumulate_capsule leave it: between capsules, in a header, in a value.
THEOREM CapsulesInvariance == CapsulesSpec => []CapsulesInv
<1>1. CapsulesInv /\ [CapsulesNext]_capsulesVars => CapsulesInv'
  BY SentStep, ReadStep, ReportStep, Zenon DEF CapsulesInv
<1> QED
  BY CapsulesStart, <1>1, PTL DEF CapsulesSpec

LEMMA CapsulesMeaning ==
  ASSUME CapsulesInv
  PROVE  CapsulesRead
<1>1. PICK n, place : Reading(n, place)
  BY DEF CapsulesInv, ReadInv
<1>2. /\ n \in Nat /\ n <= Len(sent) /\ got = [i \in 1..n |-> Read(sent[i])]
      /\ failed = "NULL" => n + 1 \in Empty
      /\ Places(place, sent, wire) /\ (failed = "no" => ReaderAt(n, place[n + 1]))
  BY <1>1 DEF Reading, GotSoFar
<1>3. Len(got) = n
  BY <1>2
<1>4. sent \in Seq(CapsuleSet) /\ wire \in Seq(WireBytes) /\ Len(sent) \in Nat /\ Len(wire) \in Nat
  BY LenProperties DEF CapsulesInv, WireInv
<1>5. ASSUME pos = Len(wire), failed = "no", ~capsule.is_stored, n # Len(sent) PROVE FALSE
  <2> DEFINE c == sent[n + 1]
             base == place[n + 1]
  <2>1. n + 1 \in 1..Len(sent)
    BY <1>2, <1>4, <1>5
  <2>2. c \in CapsuleSet
    BY <1>4, <2>1, ElementOfSeq, Zenon
  <2>3. base \in Nat /\ base + Size(c) <= Len(wire)
    BY <1>2, <2>1 DEF Places, Stands
  <2>4. /\ HeadSize(c) \in Nat \ {0} /\ Len(c.value) \in Nat
        /\ Size(c) = HeadSize(c) + Len(c.value)
    <3>1. /\ c.tw \in Nat \ {0} /\ c.lw \in Nat \ {0} /\ HeadSize(c) = c.tw + c.lw
          /\ Len(c.value) \in Nat /\ Size(c) = HeadSize(c) + Len(c.value)
      BY <2>2, CapsuleNumbers, Zenon
    <3> QED
      BY <3>1
  <2>5. CASE Fresh(base)
    BY <1>5, <2>3, <2>4, <2>5 DEF Fresh
  <2>6. CASE InHeader(c, base)
    BY <1>5, <2>3, <2>4, <2>6 DEF InHeader
  <2>7. CASE InValue(c, base)
    BY <1>5, <2>3, <2>4, <2>7 DEF InValue
  <2>8. CASE Stored(c, base)
    BY <1>5, <2>8 DEF Stored, Known
  <2> QED
    BY <1>2, <1>5, <2>5, <2>6, <2>7, <2>8, Zenon DEF ReaderAt
<1> QED
  BY <1>2, <1>3, <1>5 DEF CapsulesRead

\* The capsules of a session are handed on whole, each once and in order, wherever the
\* chunks end and whatever widths their headers have.
THEOREM CapsulesReadHolds == CapsulesSpec => []CapsulesRead
<1>1. CapsulesInv => CapsulesRead
  BY CapsulesMeaning
<1> QED
  BY <1>1, CapsulesInvariance, PTL

\* A close is reported with its code and its message; a capsule that is cut or a close
\* without a code is refused, and any other is reported with code 0 and no message
\* (picowt_receive_capsule).
THEOREM CloseReportedHolds == CapsulesSpec => []CloseReported
<1>1. CapsulesInv => CloseReported
  BY DEF CapsulesInv
<1> QED
  BY <1>1, CapsulesInvariance, PTL
-----------------------------------------------------------------------------
(***************************************************************************)
(* Settings.  A frame is its head and five components, of which some are   *)
(* left out; Offsets says where each stands, Laid that they do.  The keys  *)
(* that h3zero_settings_components_decode meets are those places.          *)
(***************************************************************************)

\* The components of a settings frame, in order.
Component == <<"table_size", "blocked_streams", "enable_connect_protocol", "h3_datagram",
               "webtransport_max_sessions">>
Written(s, i) == s[Component[i]] # Default(Component[i])
PartSize(s, i) ==
  IF Written(s, i) THEN Width(Key[Component[i]]) + Width(s[Component[i]]) ELSE 0

\* The shortest varint of v stands behind the p-th byte of b.
VarintAt(b, p, v) ==
  /\ p \in Nat /\ p + Width(v) <= Len(b)
  /\ \A i \in 1..Width(v) : b[p + i] = <<v, Width(v), i>>

\* Component i stands there.
PartAt(b, p, s, i) ==
  Written(s, i) => /\ VarintAt(b, p, Key[Component[i]])
                   /\ VarintAt(b, p + Width(Key[Component[i]]), s[Component[i]])

\* Where each component stands, behind the first.
Offsets(at, s) ==
  /\ at \in [1..6 -> Nat] /\ at[1] = 0
  /\ \A i \in 1..5 : at[i + 1] = at[i] + PartSize(s, i)

\* All of them stand in b behind its p-th byte, and nothing else.
Laid(b, p, at, s) ==
  /\ b \in Seq(WireBytes) /\ p \in Nat /\ Offsets(at, s) /\ Len(b) = p + at[6]
  /\ \A i \in 1..5 : PartAt(b, p + at[i], s, i)

Step(b, r, q) == Whole(b, r) /\ Whole(b, After(b, r)) /\ After(b, After(b, r)) = q

LEMMA WidthFacts ==
  ASSUME NEW v \in Nat
  PROVE  Width(v) \in {1, 2, 4, 8} /\ Width(v) \in Nat \ {0} /\ Width(v) <= 8
BY DEF Width

LEMMA WidthGrows ==
  ASSUME NEW v \in Nat, NEW w \in Nat, v <= w
  PROVE  Width(v) <= Width(w)
BY DEF Width

LEMMA SettingFacts ==
  ASSUME NEW s \in SettingsSet, NEW i \in 1..5
  PROVE  /\ Key[Component[i]] \in Nat /\ s[Component[i]] \in Nat
         /\ PartSize(s, i) \in Nat /\ PartSize(s, i) <= 16
         /\ ~Written(s, i) => PartSize(s, i) = 0
         /\ Written(s, i) => /\ s[Component[i]] # UINT64_MAX
                             /\ PartSize(s, i) = Width(Key[Component[i]]) + Width(s[Component[i]])
                             /\ PartSize(s, i) > 0
                             /\ Bit(Component[i]) => s[Component[i]] \in {0, 1}
         /\ ~Written(s, i) => s[Component[i]] \in {0, UINT64_MAX}
<1>1. Key[Component[i]] \in Nat /\ s[Component[i]] \in Nat
  BY DEF SettingsSet, Component, Key, Number, UINT64_MAX
<1>2. Written(s, i) => s[Component[i]] # UINT64_MAX
  BY DEF SettingsSet, Component, Written, Default, UINT64_MAX, Number
<1>3. Bit(Component[i]) => s[Component[i]] \in {0, 1}
  BY DEF SettingsSet, Component, Bit
<1>4. ~Written(s, i) => s[Component[i]] \in {0, UINT64_MAX}
  BY DEF Written, Default
<1>5. PartSize(s, i) = IF Written(s, i) THEN Width(Key[Component[i]]) + Width(s[Component[i]]) ELSE 0
  BY DEF PartSize
<1> DEFINE k == Width(Key[Component[i]])
           v == Width(s[Component[i]])
<1>6. k \in Nat \ {0} /\ v \in Nat \ {0} /\ k <= 8 /\ v <= 8
  BY <1>1, WidthFacts
<1> HIDE DEF k, v
<1>7. k + v \in Nat /\ k + v <= 16 /\ k + v > 0
  BY <1>6
<1>8. /\ PartSize(s, i) \in Nat /\ PartSize(s, i) <= 16
      /\ ~Written(s, i) => PartSize(s, i) = 0
      /\ Written(s, i) => PartSize(s, i) = k + v /\ PartSize(s, i) > 0
  BY <1>5, <1>7 DEF k, v
<1> QED
  BY <1>1, <1>2, <1>3, <1>4, <1>8, Zenon DEF k, v

\* There is a place for each component.
LEMMA OffsetsExist ==
  ASSUME NEW s \in SettingsSet
  PROVE  \E at : Offsets(at, s)
<1>1. \A i \in 1..5 : PartSize(s, i) \in Nat
  BY SettingFacts
<1>2. PICK size \in [1..5 -> Nat] : \A i \in 1..5 : size[i] = PartSize(s, i)
  <2>1. [i \in 1..5 |-> PartSize(s, i)] \in [1..5 -> Nat]
    BY <1>1
  <2> QED
    BY <2>1
<1> DEFINE at == [i \in 1..6 |-> IF i = 1 THEN 0 ELSE IF i = 2 THEN size[1]
                    ELSE IF i = 3 THEN size[1] + size[2]
                    ELSE IF i = 4 THEN size[1] + size[2] + size[3]
                    ELSE IF i = 5 THEN size[1] + size[2] + size[3] + size[4]
                    ELSE size[1] + size[2] + size[3] + size[4] + size[5]]
<1>3. size[1] \in Nat /\ size[2] \in Nat /\ size[3] \in Nat /\ size[4] \in Nat /\ size[5] \in Nat
  OBVIOUS
<1>4. at \in [1..6 -> Nat] /\ at[1] = 0
  BY <1>3
<1>5. \A i \in 1..5 : at[i + 1] = at[i] + size[i]
  <2> TAKE i \in 1..5
  <2>1. i = 1 \/ i = 2 \/ i = 3 \/ i = 4 \/ i = 5
    OBVIOUS
  <2> QED
    BY <1>3, <2>1
<1> HIDE DEF at
<1>6. \A i \in 1..5 : at[i + 1] = at[i] + PartSize(s, i)
  BY <1>2, <1>5, Zenon
<1>7. Offsets(at, s)
  BY <1>4, <1>6, Zenon DEF Offsets
<1> QED
  BY <1>7

\* A varint is read where it was written.
LEMMA VarintRead ==
  ASSUME NEW b \in Seq(WireBytes), NEW v \in Nat, NEW p, VarintAt(b, p, v)
  PROVE  /\ Whole(b, p + 1) /\ Value(b, p + 1) = v /\ After(b, p + 1) = p + Width(v) + 1
         /\ p + Width(v) \in Nat
<1> DEFINE n == Width(v)
<1>1. n \in Nat \ {0} /\ p \in Nat /\ Len(b) \in Nat /\ p + n <= Len(b)
  BY WidthFacts, LenProperties DEF VarintAt
<1>2. \A i \in 1..n : b[p + i] = <<v, n, i>>
  BY DEF VarintAt
<1> HIDE DEF n
<1>3. b[p + 1] = <<v, n, 1>>
  <2>1. 1 \in 1..n
    BY <1>1
  <2> QED
    BY <1>2, <2>1, Zenon
<1>4. b[p + 1][1] = v /\ b[p + 1][2] = n
  BY <1>3
<1>5. p + 1 + n - 1 = p + n /\ p + 1 + n = p + n + 1 /\ p + 1 <= Len(b) /\ p + n \in Nat
  BY <1>1
<1>6. SubSeq(b, p + 1, p + n) = Wide(v, n)
  <2>1. /\ SubSeq(b, p + 1, p + n) \in Seq(WireBytes) /\ Len(SubSeq(b, p + 1, p + n)) = n
        /\ \A i \in 1..n : SubSeq(b, p + 1, p + n)[i] = b[p + i]
    BY <1>1, PartOf
  <2>2. Wide(v, n) \in Seq(WireBytes) /\ Len(Wide(v, n)) = n /\ \A i \in 1..n : Wide(v, n)[i] = <<v, n, i>>
    BY <1>1, WideFacts
  <2> QED
    BY <1>2, <2>1, <2>2, SeqEqual, Zenon
<1> QED
  BY <1>1, <1>4, <1>5, <1>6, Zenon DEF Whole, Value, After, n

-----------------------------------------------------------------------------
(* The keys of a frame                                                     *)

\* Keys are the least set with the first place and what stands behind a key's value.
LEMMA KeysAre ==
  ASSUME NEW b, NEW n \in Nat, Len(b) = n, NEW p \in 1..(n + 1), NEW T \in SUBSET (p..(n + 1)),
         \A q \in p..(n + 1) : q \in T <=> q = p \/ \E r \in T : r < q /\ Step(b, r, q)
  PROVE  KeyPlaces(b, p) = T
<1> DEFINE D == 1..(Len(b) + 1)
           Eq(f) == f = [q \in D |->
                           \/ q = p
                           \/ \E r \in p..(q - 1) :
                                Whole(b, r) /\ Whole(b, After(b, r)) /\ After(b, After(b, r)) = q /\ f[r]]
           key == CHOOSE f : Eq(f)
           g == [q \in D |-> q \in T]
<1>1. KeyPlaces(b, p) = {q \in p..(Len(b) + 1) : key[q]}
  BY DEF KeyPlaces
<1>2. \A f : \A q \in D : Eq(f) => f[q] = (q = p \/ \E r \in p..(q - 1) : Step(b, r, q) /\ f[r])
  <2> TAKE f
  <2> TAKE q \in D
  <2> HAVE Eq(f)
  <2>1. f[q] = \/ q = p
               \/ \E r \in p..(q - 1) :
                    Whole(b, r) /\ Whole(b, After(b, r)) /\ After(b, After(b, r)) = q /\ f[r]
    BY Zenon
  <2> QED
    BY <2>1, Zenon DEF Step
<1>3. /\ p \in Nat /\ \A q \in p..(Len(b) + 1) : q \in D
      /\ \A q \in D : \A r \in p..(q - 1) : r \in D /\ r < q /\ r \in p..(Len(b) + 1)
      /\ \A q \in D : q < p => p..(q - 1) = {} /\ q \notin T
  OBVIOUS
<1>4. \A q \in D : q \in T <=> q = p \/ \E r \in p..(q - 1) : Step(b, r, q) /\ r \in T
  <2> TAKE q \in D
  <2>1. CASE q < p
    BY <1>3, <2>1
  <2>2. CASE ~(q < p)
    <3>1. q \in p..(n + 1)
      BY <2>2
    <3>2. \A r \in T : r < q <=> r \in p..(q - 1)
      OBVIOUS
    <3>3. q \in T <=> q = p \/ \E r \in T : r < q /\ Step(b, r, q)
      BY <3>1
    <3> QED
      BY <3>2, <3>3, Zenon
  <2> QED
    BY <2>1, <2>2
<1>5. Eq(g)
  <2>1. ASSUME NEW q \in D
        PROVE  (q \in T) = \/ q = p
                           \/ \E r \in p..(q - 1) :
                                Whole(b, r) /\ Whole(b, After(b, r)) /\ After(b, After(b, r)) = q /\ g[r]
    <3>1. \A r \in p..(q - 1) : g[r] = (r \in T)
      BY <1>3
    <3> HIDE DEF g
    <3> DEFINE B == \E r \in p..(q - 1) :
                      Whole(b, r) /\ Whole(b, After(b, r)) /\ After(b, After(b, r)) = q /\ g[r]
    <3>2. B <=> \E r \in p..(q - 1) : Step(b, r, q) /\ r \in T
      BY <3>1, Zenon DEF Step
    <3> HIDE DEF B
    <3>3. q \in T <=> q = p \/ B
      BY <1>4, <2>1, <3>2, Zenon
    <3>4. (q \in T) = (q = p \/ B)
      BY <3>3
    <3> QED
      BY <3>4 DEF B
  <2> DEFINE h == [q \in D |->
                     \/ q = p
                     \/ \E r \in p..(q - 1) :
                          Whole(b, r) /\ Whole(b, After(b, r)) /\ After(b, After(b, r)) = q /\ g[r]]
  <2>2. \A q \in D : g[q] = h[q]
    BY <2>1, Zenon
  <2>3. g = h
    <3>1. DOMAIN g = D /\ DOMAIN h = D
      OBVIOUS
    <3>2. g = [q \in D |-> g[q]] /\ h = [q \in D |-> h[q]]
      OBVIOUS
    <3> HIDE DEF g, h
    <3> QED
      BY <2>2, <3>2
  <2> QED
    BY <2>3, Zenon
<1>6. Eq(key)
  BY <1>5, Zenon
<1> HIDE DEF key
<1>7. \A q \in D : key[q] <=> q = p \/ \E r \in p..(q - 1) : Step(b, r, q) /\ key[r]
  BY <1>2, <1>6, Zenon
<1>8. \A q \in D : key[q] <=> q \in T
  <2> DEFINE wrong == {q \in D : ~(key[q] <=> q \in T)}
  <2> SUFFICES ASSUME wrong # {} PROVE FALSE
    OBVIOUS
  <2>1. wrong \in SUBSET Nat
    OBVIOUS
  <2>2. PICK q \in wrong : \A r \in wrong : q <= r
    BY <2>1, Least, Zenon
  <2>3. q \in D
    OBVIOUS
  <2>4. \A r \in p..(q - 1) : key[r] <=> r \in T
    <3> TAKE r \in p..(q - 1)
    <3>1. r \in D /\ r < q
      BY <1>3, <2>3
    <3>2. ~(q <= r)
      BY <2>3, <3>1
    <3> QED
      BY <2>2, <3>1, <3>2, Zenon
  <2>5. key[q] <=> q \in T
    BY <1>4, <1>7, <2>3, <2>4, Zenon
  <2> QED
    BY <2>5, Zenon
<1> HIDE DEF D
<1>9. KeyPlaces(b, p) = {q \in p..(n + 1) : q \in T}
  BY <1>1, <1>3, <1>8
<1> QED
  BY <1>9

\* Offsets go up where a component is written, and stay where none is.
Ordered(at, s) ==
  /\ \A i \in 1..6 : at[i] \in Nat /\ at[i] <= at[6]
  /\ \A i \in 1..5 : IF Written(s, i) THEN at[i] < at[i + 1] ELSE at[i + 1] = at[i]
  /\ \A i \in 1..5 : at[i] < at[6] => \E j \in 1..5 : Written(s, j) /\ at[j] = at[i]
  /\ \A i \in 1..6 : at[i] = 0 \/ \E j \in 1..5 : Written(s, j) /\ at[j + 1] = at[i]
  /\ at[1] = 0 /\ at[6] <= 80

LEMMA OffsetsFacts ==
  ASSUME NEW s \in SettingsSet, NEW at, Offsets(at, s)
  PROVE  Ordered(at, s)
<1>1. \A i \in 1..6 : at[i] \in Nat
  BY DEF Offsets
<1>2. /\ at[1] = 0
      /\ at[2] = at[1] + PartSize(s, 1) /\ at[3] = at[2] + PartSize(s, 2)
      /\ at[4] = at[3] + PartSize(s, 3) /\ at[5] = at[4] + PartSize(s, 4)
      /\ at[6] = at[5] + PartSize(s, 5)
  BY DEF Offsets
<1>3. \A i \in 1..5 : /\ PartSize(s, i) \in Nat /\ PartSize(s, i) <= 16
                      /\ ~Written(s, i) => PartSize(s, i) = 0
                      /\ Written(s, i) => PartSize(s, i) > 0
  BY SettingFacts
<1>4. \A i \in 1..6 : at[i] <= at[6]
  <2>1. \A i \in 1..6 : i = 1 \/ i = 2 \/ i = 3 \/ i = 4 \/ i = 5 \/ i = 6
    OBVIOUS
  <2>2. /\ at[1] \in Nat /\ at[2] \in Nat /\ at[3] \in Nat /\ at[4] \in Nat /\ at[5] \in Nat
        /\ at[6] \in Nat
        /\ PartSize(s, 1) \in Nat /\ PartSize(s, 2) \in Nat /\ PartSize(s, 3) \in Nat
        /\ PartSize(s, 4) \in Nat /\ PartSize(s, 5) \in Nat
    BY <1>1, <1>3
  <2>3. at[1] <= at[6] /\ at[2] <= at[6] /\ at[3] <= at[6] /\ at[4] <= at[6] /\ at[5] <= at[6] /\ at[6] <= at[6]
    BY <1>2, <2>2
  <2> QED
    BY <2>1, <2>3, Zenon
<1>5. \A i \in 1..5 : IF Written(s, i) THEN at[i] < at[i + 1] ELSE at[i + 1] = at[i]
  <2> TAKE i \in 1..5
  <2>1. at[i + 1] = at[i] + PartSize(s, i) /\ at[i] \in Nat
    BY <1>1 DEF Offsets
  <2> QED
    BY <1>3, <2>1
<1> DEFINE On(i) == \E j \in 1..5 : Written(s, j) /\ at[j] = at[i]
           Off(i) == \E j \in 1..5 : Written(s, j) /\ at[j + 1] = at[i]
<1>6. \A i \in 1..5 : at[i] < at[6] => On(i)
  <2>1. \A i \in 1..5 : Written(s, i) => On(i)
    BY Zenon
  <2>2. \A i \in 1..4 : ~Written(s, i) => at[i + 1] = at[i] /\ (On(i + 1) => On(i)) /\ i + 1 \in 1..5
    BY <1>5
  <2>3. ~Written(s, 5) => at[5] = at[6]
    BY <1>5
  <2> HIDE DEF On
  <2>4. at[5] < at[6] => On(5)
    BY <1>1, <2>1, <2>3
  <2>5. at[4] < at[6] => On(4)
    BY <1>1, <2>1, <2>2, <2>4
  <2>6. at[3] < at[6] => On(3)
    BY <1>1, <2>1, <2>2, <2>5
  <2>7. at[2] < at[6] => On(2)
    BY <1>1, <2>1, <2>2, <2>6
  <2>8. at[1] < at[6] => On(1)
    BY <1>1, <2>1, <2>2, <2>7
  <2>9. \A i \in 1..5 : i = 1 \/ i = 2 \/ i = 3 \/ i = 4 \/ i = 5
    OBVIOUS
  <2> QED
    BY <2>4, <2>5, <2>6, <2>7, <2>8, <2>9, Zenon
<1>7. \A i \in 1..6 : at[i] = 0 \/ Off(i)
  <2>1. \A i \in 1..5 : Written(s, i) => Off(i + 1)
    BY Zenon
  <2>2. \A i \in 1..5 : ~Written(s, i) => at[i + 1] = at[i] /\ (Off(i) => Off(i + 1))
    BY <1>5
  <2> HIDE DEF Off
  <2>3. at[2] = 0 \/ Off(2)
    BY <1>2, <2>1, <2>2
  <2>4. at[3] = 0 \/ Off(3)
    BY <2>1, <2>2, <2>3
  <2>5. at[4] = 0 \/ Off(4)
    BY <2>1, <2>2, <2>4
  <2>6. at[5] = 0 \/ Off(5)
    BY <2>1, <2>2, <2>5
  <2>7. at[6] = 0 \/ Off(6)
    BY <2>1, <2>2, <2>6
  <2>8. \A i \in 1..6 : i = 1 \/ i = 2 \/ i = 3 \/ i = 4 \/ i = 5 \/ i = 6
    OBVIOUS
  <2> QED
    BY <1>2, <2>3, <2>4, <2>5, <2>6, <2>7, <2>8, Zenon
<1>8. at[6] <= 80
  <2>1. /\ PartSize(s, 1) \in Nat /\ PartSize(s, 2) \in Nat /\ PartSize(s, 3) \in Nat
        /\ PartSize(s, 4) \in Nat /\ PartSize(s, 5) \in Nat
        /\ PartSize(s, 1) <= 16 /\ PartSize(s, 2) <= 16 /\ PartSize(s, 3) <= 16
        /\ PartSize(s, 4) <= 16 /\ PartSize(s, 5) <= 16
    BY <1>3
  <2> QED
    BY <1>2, <2>1
<1> QED
  BY <1>1, <1>2, <1>4, <1>5, <1>6, <1>7, <1>8, Zenon DEF Ordered

\* From q on one reads k and v, up to e.
PairRead(b, q, k, v, e) ==
  /\ Whole(b, q) /\ Value(b, q) = k
  /\ Whole(b, After(b, q)) /\ Value(b, After(b, q)) = v
  /\ After(b, After(b, q)) = e

\* A component is read where it stands.
LEMMA PartRead ==
  ASSUME NEW s \in SettingsSet, NEW b, NEW p, NEW at, Laid(b, p, at, s), NEW i \in 1..5, Written(s, i)
  PROVE  PairRead(b, p + at[i] + 1, Key[Component[i]], s[Component[i]], p + at[i + 1] + 1)
<1> DEFINE k == Key[Component[i]]
           v == s[Component[i]]
           o == p + at[i]
<1>1. k \in Nat /\ v \in Nat /\ PartSize(s, i) = Width(k) + Width(v)
  BY SettingFacts
<1>2. /\ b \in Seq(WireBytes) /\ VarintAt(b, o, k) /\ VarintAt(b, o + Width(k), v)
      /\ at[i + 1] = at[i] + PartSize(s, i) /\ p \in Nat /\ at[i] \in Nat
  <2>1. at \in [1..6 -> Nat] /\ at[i + 1] = at[i] + PartSize(s, i)
    BY DEF Laid, Offsets
  <2>2. at[i] \in Nat
    BY <2>1
  <2> QED
    BY <2>1, <2>2, Zenon DEF Laid, PartAt
<1>3. Whole(b, o + 1) /\ Value(b, o + 1) = k /\ After(b, o + 1) = o + Width(k) + 1
  BY <1>1, <1>2, VarintRead, Zenon
<1>4. /\ Whole(b, o + Width(k) + 1) /\ Value(b, o + Width(k) + 1) = v
      /\ After(b, o + Width(k) + 1) = o + Width(k) + Width(v) + 1
  BY <1>1, <1>2, VarintRead, Zenon
<1>5. o + Width(k) + Width(v) + 1 = p + at[i + 1] + 1
  <2>1. Width(k) \in Nat /\ Width(v) \in Nat
    BY <1>1, WidthFacts
  <2> HIDE DEF k, v
  <2> QED
    BY <1>1, <1>2, <2>1
<1> QED
  BY <1>3, <1>4, <1>5, Zenon DEF PairRead

LEMMA LaidKeys ==
  ASSUME NEW s \in SettingsSet, NEW b, NEW p, NEW at, Laid(b, p, at, s)
  PROVE  KeyPlaces(b, p + 1) = {p + at[i] + 1 : i \in 1..6}
<1> DEFINE n == Len(b)
           T == {p + at[i] + 1 : i \in 1..6}
<1>1. /\ p \in Nat /\ n \in Nat /\ n = p + at[6] /\ Offsets(at, s)
      /\ at \in [1..6 -> Nat] /\ at[1] = 0
  BY LenProperties, Zenon DEF Laid, Offsets
<1>2. /\ \A i \in 1..6 : at[i] \in Nat /\ at[i] <= at[6]
      /\ \A i \in 1..5 : IF Written(s, i) THEN at[i] < at[i + 1] ELSE at[i + 1] = at[i]
      /\ \A i \in 1..5 : at[i] < at[6] => \E j \in 1..5 : Written(s, j) /\ at[j] = at[i]
      /\ \A i \in 1..6 : at[i] = 0 \/ \E j \in 1..5 : Written(s, j) /\ at[j + 1] = at[i]
  <2>1. Ordered(at, s)
    BY <1>1, OffsetsFacts
  <2> QED
    BY <2>1, Zenon DEF Ordered
<1> HIDE DEF n
<1>3. p + 1 \in 1..(n + 1) /\ T \in SUBSET ((p + 1)..(n + 1))
  BY <1>1, <1>2
<1>4. ASSUME NEW q \in (p + 1)..(n + 1), q \in T
      PROVE  q = p + 1 \/ \E r \in T : r < q /\ Step(b, r, q)
  <2>1. PICK i \in 1..6 : q = p + at[i] + 1
    BY <1>4
  <2>2. CASE at[i] = 0
    BY <1>1, <2>1, <2>2
  <2>3. CASE \E j \in 1..5 : Written(s, j) /\ at[j + 1] = at[i]
    <3>1. PICK j \in 1..5 : Written(s, j) /\ at[j + 1] = at[i]
      BY <2>3
    <3> DEFINE r == p + at[j] + 1
    <3>2. Step(b, r, q)
      <4>1. PairRead(b, r, Key[Component[j]], s[Component[j]], p + at[j + 1] + 1)
        BY <3>1, PartRead
      <4> QED
        BY <2>1, <3>1, <4>1, Zenon DEF Step, PairRead
    <3>3. r \in T /\ r < q
      <4>1. at[j] < at[j + 1] /\ at[j] \in Nat /\ at[i] \in Nat /\ j \in 1..6
        BY <1>2, <3>1
      <4> QED
        BY <1>1, <2>1, <3>1, <4>1
    <3> QED
      BY <3>2, <3>3, Zenon
  <2> QED
    BY <1>2, <2>2, <2>3, Zenon
<1>5. ASSUME NEW q \in (p + 1)..(n + 1), NEW r \in T, r < q, Step(b, r, q)
      PROVE  q \in T
  <2>1. PICK i \in 1..6 : r = p + at[i] + 1
    OBVIOUS
  <2>2. at[i] < at[6] /\ i \in 1..5
    <3>1. at[i] < at[6]
      BY <1>1, <1>2, <1>5, <2>1
    <3> QED
      BY <1>2, <3>1
  <2>3. PICK j \in 1..5 : Written(s, j) /\ at[j] = at[i]
    BY <1>2, <2>2, Zenon
  <2>4. r = p + at[j] + 1
    BY <2>1, <2>3, Zenon
  <2>5. After(b, After(b, r)) = p + at[j + 1] + 1
    <3>1. PairRead(b, p + at[j] + 1, Key[Component[j]], s[Component[j]], p + at[j + 1] + 1)
      BY <2>3, PartRead
    <3> QED
      BY <2>4, <3>1, Zenon DEF PairRead
  <2>6. q = p + at[j + 1] + 1 /\ j + 1 \in 1..6
    BY <1>5, <2>5 DEF Step
  <2> QED
    BY <2>6
<1>6. p + 1 \in T
  <2>1. p + at[1] + 1 = p + 1 /\ 1 \in 1..6
    BY <1>1
  <2> QED
    BY <2>1
<1> HIDE DEF T
<1>7. \A q \in (p + 1)..(n + 1) : q \in T <=> q = p + 1 \/ \E r \in T : r < q /\ Step(b, r, q)
  BY <1>4, <1>5, <1>6, Zenon
<1>8. KeyPlaces(b, p + 1) = T
  BY <1>1, <1>3, <1>7, KeysAre, Zenon DEF n
<1> QED
  BY <1>8 DEF T

LEMMA KeysDiffer ==
  ASSUME NEW i \in 1..5, NEW j \in 1..5, Key[Component[i]] = Key[Component[j]]
  PROVE  i = j
BY DEF Key, Component

\* A setting written is decoded, and one that is not is 0.
LEMMA PartDecoded ==
  ASSUME NEW s \in SettingsSet, NEW b, NEW p, NEW at, Laid(b, p, at, s), NEW i \in 1..5
  PROVE  LET places == {q \in KeyPlaces(b, p + 1) : q <= Len(b) /\ Value(b, q) = Key[Component[i]]}
         IN IF Written(s, i)
            THEN places = {p + at[i] + 1}
            ELSE places = {}
<1> DEFINE places == {q \in KeyPlaces(b, p + 1) : q <= Len(b) /\ Value(b, q) = Key[Component[i]]}
<1>1. KeyPlaces(b, p + 1) = {p + at[j] + 1 : j \in 1..6}
  BY LaidKeys
<1>2. /\ p \in Nat /\ Len(b) = p + at[6] /\ Offsets(at, s)
  BY DEF Laid
<1>3. /\ \A j \in 1..6 : at[j] \in Nat /\ at[j] <= at[6]
      /\ \A j \in 1..5 : IF Written(s, j) THEN at[j] < at[j + 1] ELSE at[j + 1] = at[j]
      /\ \A j \in 1..5 : at[j] < at[6] => \E k \in 1..5 : Written(s, k) /\ at[k] = at[j]
  <2>1. Ordered(at, s)
    BY <1>2, OffsetsFacts
  <2> QED
    BY <2>1, Zenon DEF Ordered
<1>4. ASSUME NEW q \in places PROVE Written(s, i) /\ q = p + at[i] + 1
  <2>1. PICK j \in 1..6 : q = p + at[j] + 1
    BY <1>1
  <2>2. at[j] < at[6] /\ j \in 1..5
    <3>1. at[j] < at[6]
      <4>1. q <= Len(b) /\ at[j] \in Nat /\ at[6] \in Nat
        BY <1>3
      <4> QED
        BY <1>2, <2>1, <4>1
    <3> QED
      BY <1>3, <3>1
  <2>3. PICK k \in 1..5 : Written(s, k) /\ at[k] = at[j]
    BY <1>3, <2>2, Zenon
  <2>4. q = p + at[k] + 1
    BY <2>1, <2>3, Zenon
  <2>5. Value(b, q) = Key[Component[k]]
    <3>1. PairRead(b, p + at[k] + 1, Key[Component[k]], s[Component[k]], p + at[k + 1] + 1)
      BY <2>3, PartRead
    <3> QED
      BY <2>4, <3>1, Zenon DEF PairRead
  <2>6. Value(b, q) = Key[Component[i]]
    OBVIOUS
  <2>7. k = i
    BY <2>5, <2>6, KeysDiffer, Zenon
  <2> QED
    BY <2>3, <2>4, <2>7, Zenon
<1>5. ASSUME Written(s, i) PROVE p + at[i] + 1 \in places
  <2> DEFINE q == p + at[i] + 1
  <2>1. Value(b, q) = Key[Component[i]]
    BY <1>5, PartRead DEF PairRead
  <2>2. q \in KeyPlaces(b, p + 1)
    BY <1>1
  <2>3. q <= Len(b)
    <3>1. at[i] < at[i + 1] /\ at[i + 1] <= at[6] /\ at[i] \in Nat /\ at[6] \in Nat /\ at[i + 1] \in Nat
      BY <1>3, <1>5
    <3> QED
      BY <1>2, <3>1
  <2> HIDE DEF q
  <2>4. q \in places
    BY <2>1, <2>2, <2>3
  <2> QED
    BY <2>4 DEF q
<1> HIDE DEF places
<1>6. CASE Written(s, i)
  <2>1. places = {p + at[i] + 1}
    BY <1>4, <1>5, <1>6, Zenon
  <2> QED
    BY <1>6, <2>1, Zenon DEF places
<1>7. CASE ~Written(s, i)
  <2>1. places = {}
    BY <1>4, <1>7, Zenon
  <2> QED
    BY <1>7, <2>1, Zenon DEF places
<1> QED
  BY <1>6, <1>7

\* What is laid out in b is what h3zero_settings_components_decode makes of it.
LEMMA LaidDecoded ==
  ASSUME NEW s \in SettingsSet, NEW b, NEW p, NEW at, Laid(b, p, at, s)
  PROVE  h3zero_settings_components_decode(b, p + 1) = Announced(s)
<1> DEFINE keys == KeyPlaces(b, p + 1)
           places(name) == {q \in keys : q <= Len(b) /\ Value(b, q) = Key[name]}
           value(name) == LET q == CHOOSE r \in places(name) : \A o \in places(name) : o <= r
                          IN Value(b, After(b, q))
           d(name) == IF places(name) = {} THEN 0
                      ELSE IF Bit(name) THEN value(name) % 2 ELSE value(name)
           a(name) == IF s[name] = UINT64_MAX THEN 0 ELSE s[name]
<1>1. Len(b) + 1 \in keys
  <2>1. Len(b) = p + at[6]
    BY DEF Laid
  <2> QED
    BY <2>1, LaidKeys
<1>2. \A i \in 1..5 : d(Component[i]) = a(Component[i])
  <2> TAKE i \in 1..5
  <2> DEFINE name == Component[i]
  <2>1. CASE Written(s, i)
    <3> DEFINE q == p + at[i] + 1
    <3>1. places(name) = {q}
      BY <2>1, PartDecoded
    <3>2. q <= q
      <4>1. p \in Nat /\ at \in [1..6 -> Nat]
        BY DEF Laid, Offsets
      <4> QED
        BY <4>1
    <3> HIDE DEF q
    <3>3. (CHOOSE r \in places(name) : \A o \in places(name) : o <= r) = q
      <4>1. \E r \in places(name) : \A o \in places(name) : o <= r
        BY <3>1, <3>2, Zenon
      <4>2. (CHOOSE r \in places(name) : \A o \in places(name) : o <= r) \in places(name)
        BY <4>1, Zenon
      <4> QED
        BY <3>1, <4>2
    <3>4. value(name) = s[name]
      <4>1. Value(b, After(b, q)) = s[name]
        BY <2>1, PartRead DEF PairRead, q
      <4> QED
        BY <3>3, <4>1, Zenon
    <3>5. s[name] # UINT64_MAX /\ (Bit(name) => s[name] \in {0, 1}) /\ places(name) # {}
      BY <2>1, <3>1, SettingFacts
    <3> HIDE DEF places, value, name
    <3>6. Bit(name) => s[name] % 2 = s[name]
      BY <3>5
    <3> QED
      BY <3>4, <3>5, <3>6, Zenon DEF name
  <2>2. CASE ~Written(s, i)
    <3>1. places(name) = {}
      BY <2>2, PartDecoded
    <3>2. s[name] \in {0, UINT64_MAX}
      BY <2>2, SettingFacts
    <3> HIDE DEF places, value
    <3> QED
      BY <3>1, <3>2
  <2> QED
    BY <2>1, <2>2
<1>3. /\ DOMAIN Key = {Component[i] : i \in 1..5} /\ DOMAIN s = {Component[i] : i \in 1..5}
  BY DEF Key, Component, SettingsSet
<1>4. h3zero_settings_components_decode(b, p + 1) = [name \in DOMAIN Key |-> d(name)]
  BY <1>1 DEF h3zero_settings_components_decode
<1>5. Announced(s) = [name \in DOMAIN s |-> a(name)]
  BY DEF Announced
<1> HIDE DEF d, a
<1>6. \A name \in DOMAIN Key : d(name) = a(name)
  BY <1>2, <1>3
<1>7. DOMAIN s = DOMAIN Key
  BY <1>3, Zenon
<1>8. [name \in DOMAIN Key |-> d(name)] = [name \in DOMAIN Key |-> a(name)]
  BY <1>6
<1> QED
  BY <1>4, <1>5, <1>7, <1>8, Zenon
-----------------------------------------------------------------------------
(* What is written                                                         *)

\* r is out with v behind it.
Grown(r, out, v) ==
  /\ r \in Seq(WireBytes) /\ Len(r) = Len(out) + Width(v)
  /\ \A i \in 1..Len(out) : r[i] = out[i]
  /\ VarintAt(r, Len(out), v)

LEMMA PutVarint ==
  ASSUME NEW out \in Seq(WireBytes), out # NULL, NEW v \in Nat, NEW room \in Nat
  PROVE  IF Len(out) + Width(v) <= room THEN Grown(Put(out, Varint(v), room), out, v)
         ELSE Put(out, Varint(v), room) = NULL
<1> DEFINE n == Width(v)
           r == out \o Varint(v)
           k == Len(out)
<1>1. n \in Nat /\ k \in Nat
  BY WidthFacts, LenProperties
<1>2. /\ Varint(v) \in Seq(WireBytes) /\ Len(Varint(v)) = n
      /\ \A i \in 1..n : Varint(v)[i] = <<v, n, i>>
  <2>1. /\ Wide(v, n) \in Seq(WireBytes) /\ Len(Wide(v, n)) = n
        /\ \A i \in 1..n : Wide(v, n)[i] = <<v, n, i>>
    BY <1>1, WideFacts
  <2> QED
    BY <2>1, Zenon DEF Varint
<1>3. Put(out, Varint(v), room) = IF k + n > room THEN NULL ELSE r
  BY <1>2, Zenon DEF Put
<1>4. r \in Seq(WireBytes) /\ Joined(r, out, Varint(v))
  BY <1>2, ConcatFacts
<1>5. Grown(r, out, v)
  <2>1. /\ Len(r) = k + n /\ \A i \in 1..k : r[i] = out[i]
        /\ \A i \in 1..n : r[k + i] = <<v, n, i>>
    BY <1>2, <1>4, Zenon DEF Joined
  <2>2. k + n <= Len(r)
    BY <1>1, <2>1
  <2>3. VarintAt(r, k, v)
    BY <1>1, <2>1, <2>2, Zenon DEF VarintAt
  <2> QED
    BY <1>4, <2>1, <2>3, Zenon DEF Grown
<1> HIDE DEF r, n, k
<1>6. k + n > room <=> ~(k + n <= room)
  BY <1>1
<1> QED
  BY <1>3, <1>5, <1>6, Zenon DEF n, k

LEMMA NoPut ==
  ASSUME NEW bytes, NEW room
  PROVE  Put(NULL, bytes, room) = NULL
BY DEF Put

LEMMA VarintKept ==
  ASSUME NEW r, NEW out \in Seq(WireBytes), NEW p, NEW v \in Nat, VarintAt(out, p, v),
         Len(r) \in Nat, Len(out) <= Len(r), \A i \in 1..Len(out) : r[i] = out[i]
  PROVE  VarintAt(r, p, v)
<1> DEFINE n == Width(v)
<1>1. p \in Nat /\ p + n <= Len(out) /\ \A i \in 1..n : out[p + i] = <<v, n, i>>
  BY DEF VarintAt
<1>2. n \in Nat /\ Len(out) \in Nat
  BY WidthFacts, LenProperties
<1> HIDE DEF n
<1>3. p + n <= Len(r)
  BY <1>1, <1>2
<1>4. \A i \in 1..n : p + i \in 1..Len(out)
  BY <1>1, <1>2
<1> QED
  BY <1>1, <1>3, <1>4, Zenon DEF VarintAt, n

\* The components before the i-th have been written, if there is room for them.
WrittenUpTo(out, room, h, at, s, i) ==
  IF h + at[i] <= room
  THEN /\ out \in Seq(WireBytes) /\ Len(out) = h + at[i]
       /\ \A j \in 1..5 : j < i => PartAt(out, h + at[j], s, j)
  ELSE out = NULL

LEMMA NotNull ==
  ASSUME NEW out \in Seq(WireBytes), Len(out) >= 2
  PROVE  out # NULL
<1>1. Len(NULL) = 1
  BY DEF NULL
<1> QED
  BY <1>1

LEMMA PartPut ==
  ASSUME NEW s \in SettingsSet, NEW at, Offsets(at, s), NEW room \in Nat, NEW h \in Nat, h >= 2,
         NEW out, NEW i \in 1..5, WrittenUpTo(out, room, h, at, s, i)
  PROVE  WrittenUpTo(h3zero_settings_component_encode(out, room, s, Component[i]), room, h, at, s, i + 1)
<1> DEFINE k == Key[Component[i]]
           v == s[Component[i]]
           mid == Put(out, Varint(k), room)
           r == h3zero_settings_component_encode(out, room, s, Component[i])
<1>1. /\ at[i] \in Nat /\ at[i + 1] \in Nat /\ at[i + 1] = at[i] + PartSize(s, i)
      /\ i + 1 \in 1..6
  BY DEF Offsets
<1>2. /\ k \in Nat /\ v \in Nat /\ PartSize(s, i) \in Nat
      /\ ~Written(s, i) => PartSize(s, i) = 0
      /\ Written(s, i) => PartSize(s, i) = Width(k) + Width(v)
  BY SettingFacts
<1>3. r = IF Written(s, i) THEN Put(mid, Varint(v), room) ELSE out
  BY DEF h3zero_settings_component_encode, Written
<1>4. Width(k) \in Nat /\ Width(v) \in Nat
  BY <1>2, WidthFacts
<1>5. \A j \in 1..5 : j < i + 1 <=> j < i \/ j = i
  OBVIOUS
<1>6. CASE ~Written(s, i)
  <2>1. r = out /\ at[i + 1] = at[i]
    BY <1>1, <1>2, <1>3, <1>6
  <2>2. PartAt(out, h + at[i], s, i)
    BY <1>6 DEF PartAt
  <2> QED
    BY <1>5, <2>1, <2>2, Zenon DEF WrittenUpTo
<1> HIDE DEF r, mid, k, v
<1>7. CASE Written(s, i) /\ ~(h + at[i] <= room)
  <2>1. out = NULL
    BY <1>7 DEF WrittenUpTo
  <2>2. r = NULL
    BY <1>3, <1>7, <2>1, NoPut DEF mid
  <2>3. ~(h + at[i + 1] <= room)
    BY <1>1, <1>2, <1>7
  <2> QED
    BY <2>2, <2>3, Zenon DEF WrittenUpTo, r
<1>8. CASE Written(s, i) /\ h + at[i] <= room
  <2>1. /\ out \in Seq(WireBytes) /\ Len(out) = h + at[i]
        /\ \A j \in 1..5 : j < i => PartAt(out, h + at[j], s, j)
    BY <1>8, Zenon DEF WrittenUpTo
  <2>2. Len(out) >= 2 /\ Len(out) \in Nat
    BY <1>1, <2>1
  <2>3. out # NULL
    BY <2>1, <2>2, NotNull
  <2>4. IF Len(out) + Width(k) <= room THEN Grown(mid, out, k) ELSE mid = NULL
    BY <1>2, <2>1, <2>3, PutVarint DEF mid
  <2>5. at[i + 1] = at[i] + Width(k) + Width(v) /\ r = Put(mid, Varint(v), room)
    BY <1>1, <1>2, <1>3, <1>4, <1>8
  <2>6. /\ h + at[i + 1] = Len(out) + Width(k) + Width(v)
        /\ h + at[i + 1] <= room => Len(out) + Width(k) <= room
    <3>1. PICK a \in Nat, b \in Nat, c \in Nat : a = at[i] /\ b = Width(k) /\ c = Width(v)
      BY <1>1, <1>4, Zenon
    <3>2. at[i + 1] = a + b + c /\ Len(out) = h + a
      BY <2>1, <2>5, <3>1, Zenon
    <3>3. h + (a + b + c) = h + a + b + c /\ (h + (a + b + c) <= room => h + a + b <= room)
      BY <3>1
    <3> QED
      BY <3>1, <3>2, <3>3, Zenon
  <2>7. CASE ~(Len(out) + Width(k) <= room)
    <3>1. r = NULL
      BY <2>4, <2>5, <2>7, NoPut
    <3>2. ~(h + at[i + 1] <= room)
      BY <2>6, <2>7, Zenon
    <3> QED
      BY <3>1, <3>2, Zenon DEF WrittenUpTo, r
  <2>8. CASE Len(out) + Width(k) <= room
    <3>1. /\ mid \in Seq(WireBytes) /\ Len(mid) = Len(out) + Width(k)
          /\ \A j \in 1..Len(out) : mid[j] = out[j]
          /\ VarintAt(mid, Len(out), k)
      BY <2>4, <2>8, Zenon DEF Grown
    <3>2. Len(mid) >= 2
      BY <1>4, <2>2, <3>1
    <3>3. mid # NULL
      BY <3>1, <3>2, NotNull
    <3>4. IF Len(mid) + Width(v) <= room THEN Grown(r, mid, v) ELSE r = NULL
      BY <1>2, <2>5, <3>1, <3>3, PutVarint
    <3>5. h + at[i + 1] = Len(mid) + Width(v)
      BY <2>6, <3>1, Zenon
    <3>6. CASE ~(Len(mid) + Width(v) <= room)
      BY <3>4, <3>5, <3>6, Zenon DEF WrittenUpTo, r
    <3>7. CASE Len(mid) + Width(v) <= room
      <4>1. /\ r \in Seq(WireBytes) /\ Len(r) = Len(mid) + Width(v)
            /\ \A j \in 1..Len(mid) : r[j] = mid[j]
            /\ VarintAt(r, Len(mid), v)
        BY <3>4, <3>7, Zenon DEF Grown
      <4>2. Len(mid) <= Len(r) /\ Len(out) <= Len(r) /\ Len(r) \in Nat
        BY <1>4, <2>2, <3>1, <4>1
      <4>3. \A j \in 1..Len(out) : r[j] = out[j]
        <5>1. \A j \in 1..Len(out) : j \in 1..Len(mid)
          BY <1>4, <2>2, <3>1
        <5> QED
          BY <3>1, <4>1, <5>1, Zenon
      <4>4. VarintAt(r, Len(out), k)
        BY <1>2, <3>1, <4>1, <4>2, VarintKept, Zenon
      <4>5. PartAt(r, h + at[i], s, i)
        BY <2>1, <3>1, <4>1, <4>4, Zenon DEF PartAt, k, v
      <4>6. ASSUME NEW j \in 1..5, PartAt(out, h + at[j], s, j) PROVE PartAt(r, h + at[j], s, j)
        <5>1. Key[Component[j]] \in Nat /\ s[Component[j]] \in Nat
          BY SettingFacts
        <5> QED
          BY <2>1, <4>2, <4>3, <4>6, <5>1, VarintKept, Zenon DEF PartAt
      <4>7. \A j \in 1..5 : j < i + 1 => PartAt(r, h + at[j], s, j)
        BY <1>5, <2>1, <4>5, <4>6, Zenon
      <4> QED
        BY <3>5, <3>7, <4>1, <4>7, Zenon DEF WrittenUpTo, r
    <3> QED
      BY <3>6, <3>7
  <2> QED
    BY <2>7, <2>8
<1> QED
  BY <1>6, <1>7, <1>8

LEMMA AllPut ==
  ASSUME NEW s \in SettingsSet, NEW at, Offsets(at, s), NEW room \in Nat, NEW h \in Nat, h >= 2,
         NEW out, WrittenUpTo(out, room, h, at, s, 1)
  PROVE  WrittenUpTo(Components(out, room, s), room, h, at, s, 6)
<1> DEFINE C(o, i) == h3zero_settings_component_encode(o, room, s, Component[i])
<1>1. ASSUME NEW o, NEW i \in 1..5, WrittenUpTo(o, room, h, at, s, i)
      PROVE  WrittenUpTo(C(o, i), room, h, at, s, i + 1)
  BY <1>1, PartPut
<1>2. Components(out, room, s) = C(C(C(C(C(out, 1), 2), 3), 4), 5)
  BY DEF Components, Component
<1> HIDE DEF C
<1>3. /\ 1 \in 1..5 /\ 2 \in 1..5 /\ 3 \in 1..5 /\ 4 \in 1..5 /\ 5 \in 1..5
      /\ 1 + 1 = 2 /\ 2 + 1 = 3 /\ 3 + 1 = 4 /\ 4 + 1 = 5 /\ 5 + 1 = 6
  OBVIOUS
<1>4. WrittenUpTo(C(out, 1), room, h, at, s, 2)
  BY <1>1, <1>3, Zenon
<1>5. WrittenUpTo(C(C(out, 1), 2), room, h, at, s, 3)
  BY <1>1, <1>3, <1>4, Zenon
<1>6. WrittenUpTo(C(C(C(out, 1), 2), 3), room, h, at, s, 4)
  BY <1>1, <1>3, <1>5, Zenon
<1>7. WrittenUpTo(C(C(C(C(out, 1), 2), 3), 4), room, h, at, s, 5)
  BY <1>1, <1>3, <1>6, Zenon
<1> QED
  BY <1>1, <1>2, <1>3, <1>7, Zenon

\* The head of the frame: its type, and room for its length.
LEMMA HeadPut ==
  ASSUME NEW room \in Nat, NEW s, NEW at, at[1] = 0
  PROVE  /\ 1 + Width(room) \in Nat /\ 1 + Width(room) >= 2
         /\ WrittenUpTo(Put(Put(<<>>, Varint(h3zero_frame_settings), room), Varint(room), room),
                 room, 1 + Width(room), at, s, 1)
<1> DEFINE w == Width(room)
           type == Put(<<>>, Varint(4), room)
           head == Put(type, Varint(room), room)
<1>1. w \in Nat \ {0} /\ Width(4) = 1 /\ 4 \in Nat
  BY WidthFacts DEF Width
<1>2. <<>> \in Seq(WireBytes) /\ Len(<<>>) = 0 /\ <<>> # NULL
  BY DEF NULL
<1> HIDE DEF w
<1>3. IF 1 <= room THEN Grown(type, <<>>, 4) ELSE type = NULL
  <2>1. IF Len(<<>>) + Width(4) <= room THEN Grown(type, <<>>, 4) ELSE type = NULL
    BY <1>1, <1>2, PutVarint
  <2>2. Len(<<>>) + Width(4) = 1
    BY <1>1, <1>2
  <2> QED
    BY <2>1, <2>2, Zenon
<1>4. 1 + w + at[1] = 1 + w
  BY <1>1
<1>5. \A j \in 1..5 : ~(j < 1)
  OBVIOUS
<1> HIDE DEF type
<1>6. CASE ~(1 <= room)
  <2>1. head = NULL
    BY <1>3, <1>6, NoPut
  <2>2. ~(1 + w <= room)
    BY <1>1, <1>6
  <2>3. WrittenUpTo(head, room, 1 + w, at, s, 1)
    BY <1>4, <2>1, <2>2, Zenon DEF WrittenUpTo
  <2> QED
    BY <1>1, <2>3 DEF type, w, h3zero_frame_settings
<1>7. CASE 1 <= room
  <2>1. type \in Seq(WireBytes) /\ Len(type) = 1 /\ type[1] = <<4, 1, 1>>
    <3>1. type \in Seq(WireBytes) /\ Len(type) = Len(<<>>) + Width(4) /\ VarintAt(type, Len(<<>>), 4)
      BY <1>3, <1>7, Zenon DEF Grown
    <3>2. VarintAt(type, 0, 4)
      BY <1>2, <3>1, Zenon
    <3>3. type[0 + 1] = <<4, 1, 1>>
      BY <1>1, <3>2 DEF VarintAt
    <3> QED
      BY <1>1, <1>2, <3>1, <3>3
  <2>2. type # NULL
    BY <2>1 DEF NULL
  <2>3. IF Len(type) + Width(room) <= room THEN Grown(head, type, room) ELSE head = NULL
    BY <2>1, <2>2, PutVarint
  <2> HIDE DEF head
  <2>4. IF 1 + w <= room THEN head \in Seq(WireBytes) /\ Len(head) = 1 + w ELSE head = NULL
    BY <2>1, <2>3, Zenon DEF Grown, w
  <2>5. WrittenUpTo(head, room, 1 + w, at, s, 1)
    BY <1>4, <1>5, <2>4, Zenon DEF WrittenUpTo
  <2> QED
    BY <1>1, <2>5 DEF head, type, w, h3zero_frame_settings
<1> QED
  BY <1>6, <1>7

\* A frame of l bytes behind its head, with the settings s.
FrameOf(f, l, at, s) ==
  /\ f \in Seq(WireBytes) /\ f[1] = <<4, 1, 1>> /\ VarintAt(f, 1, l)
  /\ Laid(f, 1 + Width(l), at, s)

\* What stands behind the h-th byte of b stands behind the g-th of f.
Moved(b, h, f, g, l) ==
  /\ h \in Nat /\ g \in Nat /\ l \in Nat /\ Len(b) = h + l /\ Len(f) = g + l
  /\ \A i \in 1..l : f[g + i] = b[h + i]

LEMMA VarintMoved ==
  ASSUME NEW b, NEW h, NEW f, NEW g, NEW l, Moved(b, h, f, g, l),
         NEW o \in Nat, NEW v \in Nat, VarintAt(b, h + o, v)
  PROVE  VarintAt(f, g + o, v)
<1> USE DEF Moved
<1> DEFINE n == Width(v)
<1>1. h + o + n <= Len(b) /\ \A i \in 1..n : b[h + o + i] = <<v, n, i>>
  BY DEF VarintAt
<1>2. n \in Nat
  BY WidthFacts
<1> HIDE DEF n
<1>3. g + o \in Nat /\ g + o + n <= Len(f)
  BY <1>1, <1>2
<1>4. ASSUME NEW i \in 1..n PROVE f[g + o + i] = <<v, n, i>>
  <2> DEFINE j == o + i
  <2>1. j \in 1..l /\ g + o + i = g + j /\ h + o + i = h + j
    BY <1>1, <1>2
  <2> HIDE DEF j
  <2>2. f[g + j] = b[h + j] /\ b[h + j] = <<v, n, i>>
    BY <1>1, <2>1, Zenon
  <2> QED
    BY <2>1, <2>2, Zenon
<1> QED
  BY <1>3, <1>4, Zenon DEF VarintAt, n

\* The frame is there if the room suffices for the longest head, and no frame otherwise.
LEMMA Encoded ==
  ASSUME NEW s \in SettingsSet, NEW room \in Nat, NEW at, Offsets(at, s)
  PROVE  IF 1 + Width(room) + at[6] <= room
         THEN FrameOf(h3zero_settings_encode(s, room), at[6], at, s)
         ELSE h3zero_settings_encode(s, room) = NULL
<1> DEFINE head == Put(Put(<<>>, Varint(h3zero_frame_settings), room), Varint(room), room)
           all == Components(head, room, s)
           length == Varint(Len(all) - Len(head))
           frame == Varint(h3zero_frame_settings) \o length \o SubSeq(all, Len(head) + 1, Len(all))
           h == 1 + Width(room)
           l == at[6]
<1>1. h3zero_settings_encode(s, room) =
        IF all = NULL \/ 1 + Len(length) > Len(head) THEN NULL ELSE frame
  BY Zenon DEF h3zero_settings_encode
<1>2. at[1] = 0 /\ l \in Nat /\ at[1] \in Nat /\ Ordered(at, s)
  BY OffsetsFacts DEF Offsets
<1>3. h \in Nat /\ h >= 2 /\ WrittenUpTo(head, room, h, at, s, 1)
  BY <1>2, HeadPut
<1> HIDE DEF head, h
<1>4. WrittenUpTo(all, room, h, at, s, 6)
  BY <1>3, AllPut
<1> HIDE DEF all, l
<1>5. CASE ~(h + l <= room)
  <2>1. all = NULL
    BY <1>4, <1>5, Zenon DEF WrittenUpTo, l
  <2> QED
    BY <1>1, <1>5, <2>1, Zenon DEF h, l
<1>6. CASE h + l <= room
  <2>1. /\ all \in Seq(WireBytes) /\ Len(all) = h + l
        /\ \A j \in 1..5 : j < 6 => PartAt(all, h + at[j], s, j)
    BY <1>4, <1>6, Zenon DEF WrittenUpTo, l
  <2>2. Len(head) = h
    <3>1. h + at[1] <= room /\ h + at[1] = h
      BY <1>2, <1>3, <1>6
    <3> QED
      BY <1>3, <3>1, Zenon DEF WrittenUpTo
  <2>3. Len(all) - Len(head) = l /\ Len(all) >= 2 /\ l <= room
    BY <1>2, <1>3, <1>6, <2>1, <2>2
  <2>4. all # NULL
    BY <2>1, <2>3, NotNull
  <2> DEFINE w == Width(l)
             g == 1 + w
             t == Varint(4)
             body == SubSeq(all, h + 1, h + l)
             front == t \o length
  <2>5. w \in Nat \ {0} /\ Width(4) = 1 /\ w <= Width(room)
    <3>1. Width(4) = 1
      BY DEF Width
    <3> QED
      BY <1>2, <2>3, <3>1, WidthFacts, WidthGrows
  <2>6. /\ t \in Seq(WireBytes) /\ Len(t) = 1 /\ t[1] = <<4, 1, 1>>
    <3>1. t = Wide(4, 1)
      BY <2>5, Zenon DEF Varint
    <3>2. 1 \in Nat /\ 4 \in Nat /\ 1 \in 1..1
      OBVIOUS
    <3>3. /\ Wide(4, 1) \in Seq(WireBytes) /\ Len(Wide(4, 1)) = 1
          /\ \A i \in 1..1 : Wide(4, 1)[i] = <<4, 1, i>>
      BY <3>2, WideFacts
    <3> QED
      BY <3>1, <3>2, <3>3, Zenon
  <2>7. /\ length \in Seq(WireBytes) /\ Len(length) = w /\ \A i \in 1..w : length[i] = <<l, w, i>>
    <3>1. length = Wide(l, w) /\ w \in Nat
      BY <2>3, <2>5, Zenon DEF Varint
    <3> HIDE DEF length, w
    <3> QED
      BY <1>2, <3>1, WideFacts
  <2>8. /\ body \in Seq(WireBytes) /\ Len(body) = l /\ \A i \in 1..l : body[i] = all[h + i]
    <3>1. h + l <= Len(all)
      BY <1>2, <1>3, <2>1
    <3> QED
      BY <1>2, <1>3, <2>1, <3>1, PartOf, Zenon
  <2>9. ~(1 + Len(length) > Len(head)) /\ g \in Nat
    <3>1. Len(head) = 1 + Width(room) /\ Width(room) \in Nat
      BY <2>2, WidthFacts DEF h
    <3> HIDE DEF w, length
    <3> QED
      BY <2>5, <2>7, <3>1
  <2>10. frame = front \o body
    BY <2>1, <2>2, Zenon DEF h3zero_frame_settings
  <2> HIDE DEF frame, body, length, t, w, g
  <2>11. front \in Seq(WireBytes) /\ Joined(front, t, length)
    BY <2>6, <2>7, ConcatFacts
  <2> HIDE DEF front
  <2>12. frame \in Seq(WireBytes) /\ Joined(frame, front, body)
    BY <2>8, <2>10, <2>11, ConcatFacts
  <2>13. /\ Len(front) = g /\ front[1] = <<4, 1, 1>>
         /\ \A i \in 1..w : front[1 + i] = <<l, w, i>>
    <3>1. Len(front) = Len(t) + Len(length) /\ front[1] = t[1]
      <4>1. 1 \in 1..Len(t)
        BY <2>6
      <4> QED
        BY <2>11, <4>1, Zenon DEF Joined
    <3>2. \A i \in 1..Len(length) : front[Len(t) + i] = length[i]
      BY <2>11, Zenon DEF Joined
    <3> QED
      BY <2>6, <2>7, <3>1, <3>2, Zenon DEF g
  <2>14. /\ Len(frame) = g + l /\ \A i \in 1..g : frame[i] = front[i]
         /\ \A i \in 1..l : frame[g + i] = all[h + i]
    BY <2>8, <2>12, <2>13, Zenon DEF Joined
  <2>15. frame[1] = <<4, 1, 1>> /\ VarintAt(frame, 1, l)
    <3>1. 1 \in 1..g /\ 1 + w <= Len(frame) /\ \A i \in 1..w : 1 + i \in 1..g
      BY <1>2, <2>5, <2>14 DEF g
    <3>2. \A i \in 1..w : frame[1 + i] = <<l, w, i>>
      BY <2>13, <2>14, <3>1, Zenon
    <3>3. frame[1] = <<4, 1, 1>> /\ 1 \in Nat
      BY <2>13, <2>14, <3>1, Zenon
    <3> QED
      BY <3>1, <3>2, <3>3, Zenon DEF VarintAt, w
  <2> DEFINE moved == Moved(all, h, frame, g, l)
  <2> HIDE DEF moved
  <2>16. moved
    BY <1>2, <1>3, <2>1, <2>9, <2>14, Zenon DEF Moved, moved
  <2>17. ASSUME NEW j \in 1..5 PROVE PartAt(frame, g + at[j], s, j)
    <3>1. PartAt(all, h + at[j], s, j)
      <4>1. j < 6
        OBVIOUS
      <4> QED
        BY <2>1, <4>1, Zenon
    <3>2. /\ Key[Component[j]] \in Nat /\ s[Component[j]] \in Nat
      BY SettingFacts
    <3>3. Width(Key[Component[j]]) \in Nat /\ at[j] \in Nat
      BY <1>2, <3>2, WidthFacts DEF Ordered
    <3> DEFINE k == Width(Key[Component[j]])
               o == at[j]
    <3> HIDE DEF k, o
    <3>4. o \in Nat /\ o + k \in Nat /\ h + o + k = h + (o + k) /\ g + o + k = g + (o + k)
      BY <1>3, <2>9, <3>3 DEF k, o
    <3>5. CASE Written(s, j)
      <4>1. VarintAt(all, h + o, Key[Component[j]]) /\ VarintAt(all, h + (o + k), s[Component[j]])
        BY <3>1, <3>4, <3>5, Zenon DEF PartAt, k, o
      <4>2. VarintAt(frame, g + o, Key[Component[j]])
        BY <2>16, <3>2, <3>4, <4>1, VarintMoved DEF moved
      <4>3. VarintAt(frame, g + (o + k), s[Component[j]])
        BY <2>16, <3>2, <3>4, <4>1, VarintMoved DEF moved
      <4> QED
        BY <3>4, <4>2, <4>3, Zenon DEF PartAt, k, o
    <3>6. CASE ~Written(s, j)
      BY <3>6, Zenon DEF PartAt
    <3> QED
      BY <3>5, <3>6
  <2>18. FrameOf(frame, l, at, s)
    BY <2>9, <2>12, <2>14, <2>15, <2>17, Zenon DEF FrameOf, Laid, g, w, l
  <2> QED
    BY <1>1, <1>6, <2>4, <2>9, <2>18, Zenon DEF h, l
<1> QED
  BY <1>5, <1>6

\* What is written is read; any beginning of it is refused.
LEMMA FrameUnderstood ==
  ASSUME NEW s \in SettingsSet, NEW f, NEW at, Offsets(at, s), FrameOf(f, at[6], at, s)
  PROVE  Understood(f, s)
<1> DEFINE l == at[6]
           w == Width(l)
           p == 1 + w
<1>1. l \in Nat
  BY DEF Offsets
<1>2. /\ f \in Seq(WireBytes) /\ f[1] = <<4, 1, 1>> /\ VarintAt(f, 1, l)
      /\ Laid(f, p, at, s) /\ Len(f) = p + l
  BY DEF FrameOf, Laid
<1>3. w \in Nat \ {0} /\ p \in Nat /\ p >= 2
  BY <1>1, WidthFacts
<1> HIDE DEF l
<1>4. 1 + 1 = 2 /\ p + 1 + l - 1 = p + l /\ Len(f) \in Nat
  BY <1>1, <1>2, <1>3
<1>5. h3zero_settings_decode(f) = Announced(s)
  <2>1. Whole(f, 2) /\ Value(f, 2) = l /\ After(f, 2) = p + 1
    <3>1. Whole(f, 1 + 1) /\ Value(f, 1 + 1) = l /\ After(f, 1 + 1) = 1 + Width(l) + 1
      BY <1>1, <1>2, VarintRead
    <3> QED
      BY <1>4, <3>1, Zenon
  <2>2. SubSeq(f, 1, Len(f)) = f
    <3>1. /\ SubSeq(f, 1, Len(f)) \in Seq(WireBytes) /\ Len(SubSeq(f, 1, Len(f))) = Len(f)
          /\ \A i \in 1..Len(f) : SubSeq(f, 1, Len(f))[i] = f[i]
      <4>1. Len(f) <= Len(f)
        BY <1>4
      <4> QED
        BY <1>2, <1>4, <4>1, FrontPart, Zenon
    <3> QED
      BY <1>2, <3>1, SeqEqual, Zenon
  <2>3. ~(Len(f) > Len(f))
    BY <1>4
  <2>4. h3zero_settings_decode(f) = h3zero_settings_components_decode(f, p + 1)
    BY <1>2, <1>4, <2>1, <2>2, <2>3, Zenon DEF h3zero_settings_decode, h3zero_frame_settings
  <2> HIDE DEF p
  <2> QED
    BY <1>2, <2>4, LaidDecoded
<1>6. ASSUME NEW n \in 1..(Len(f) - 1) PROVE h3zero_settings_decode(SubSeq(f, 1, n)) = NULL
  <2> DEFINE b == SubSeq(f, 1, n)
  <2>1. n \in Nat /\ n < Len(f) /\ n <= Len(f)
    BY <1>4
  <2>2. b \in Seq(WireBytes) /\ Len(b) = n /\ \A i \in 1..n : b[i] = f[i]
    BY <1>2, <2>1, FrontPart
  <2> HIDE DEF b
  <2>3. CASE ~Whole(b, 2)
    BY <2>3, Zenon DEF h3zero_settings_decode, b
  <2>4. CASE Whole(b, 2)
    <3>1. \A i \in 1..w : f[1 + i] = <<l, w, i>>
      BY <1>2, Zenon DEF VarintAt
    <3>2. 2 <= n /\ 2 + b[2][2] - 1 <= n
      BY <2>2, <2>4 DEF Whole
    <3>3. b[2][2] = w
      <4>1. b[2] = f[2] /\ 1 \in 1..w
        BY <1>3, <2>1, <2>2, <3>2
      <4>2. f[2] = <<l, w, 1>>
        BY <1>4, <3>1, <4>1, Zenon
      <4> QED
        BY <4>1, <4>2
    <3>4. 1 + w <= Len(b) /\ \A i \in 1..w : 1 + i \in 1..n
      BY <1>3, <2>1, <2>2, <3>2, <3>3
    <3>5. VarintAt(b, 1, l)
      <4>1. \A i \in 1..w : b[1 + i] = <<l, w, i>>
        BY <2>2, <3>1, <3>4, Zenon
      <4>2. 1 \in Nat
        OBVIOUS
      <4> QED
        BY <3>4, <4>1, <4>2, Zenon DEF VarintAt
    <3>6. Value(b, 2) = l /\ After(b, 2) = p + 1
      <4>1. Value(b, 1 + 1) = l /\ After(b, 1 + 1) = 1 + Width(l) + 1
        BY <1>1, <2>2, <3>5, VarintRead
      <4> QED
        BY <1>4, <4>1, Zenon
    <3>7. p + 1 + l - 1 > Len(b)
      BY <1>2, <1>4, <2>1, <2>2
    <3>8. h3zero_settings_decode(b) = NULL
      BY <3>6, <3>7, Zenon DEF h3zero_settings_decode
    <3> QED
      BY <3>8 DEF b
  <2> QED
    BY <2>3, <2>4
<1> QED
  BY <1>5, <1>6, Zenon DEF Understood

LEMMA FrameSize ==
  ASSUME NEW s \in SettingsSet, NEW f, NEW at, Offsets(at, s), FrameOf(f, at[6], at, s)
  PROVE  /\ Len(f) = 1 + Width(at[6]) + at[6] /\ f # NULL
         /\ at[6] \in Nat /\ at[6] <= 80 /\ Width(at[6]) \in Nat \ {0}
<1>1. at[6] \in Nat /\ at[6] <= 80
  <2>1. Ordered(at, s)
    BY OffsetsFacts
  <2> QED
    BY <2>1 DEF Ordered
<1>2. Len(f) = 1 + Width(at[6]) + at[6]
  BY Zenon DEF FrameOf, Laid
<1>3. f # NULL
  BY DEF FrameOf, NULL
<1>4. Width(at[6]) \in Nat \ {0}
  BY <1>1, WidthFacts
<1> QED
  BY <1>1, <1>2, <1>3, <1>4

\* The settings of h3zero_protocol_init, and those of an application.
LEMMA OwnUnderstood ==
  ASSUME ProtocolInit
  PROVE  SettingsUnderstood'
<1>1. encoded' = <<>>
  BY DEF ProtocolInit
<1>2. PICK d \in {0, 1}, n \in 0..3 :
        LET frame == h3zero_settings_encode(OwnSettings(d), 255)
            opened == <<Varint(0) \o frame, Varint(2), Varint(3)>>
        IN begun' = [own |-> OwnSettings(d),
                     streams |-> SubSeq(opened, 1, IF frame = NULL THEN 0 ELSE n)]
  BY DEF ProtocolInit
<1> DEFINE s == OwnSettings(d)
           frame == h3zero_settings_encode(s, 255)
           opened == <<Varint(0) \o frame, Varint(2), Varint(3)>>
           k == IF frame = NULL THEN 0 ELSE n
<1>3. s \in SettingsSet
  BY DEF OwnSettings, SettingsSet, Number, UINT64_MAX
<1>4. PICK at : Offsets(at, s)
  BY <1>3, OffsetsExist
<1>5. IF 1 + Width(255) + at[6] <= 255 THEN FrameOf(frame, at[6], at, s) ELSE frame = NULL
  <2>1. 255 \in Nat
    OBVIOUS
  <2> HIDE DEF s
  <2> QED
    BY <1>3, <1>4, <2>1, Encoded
<1>6. begun'.own = s /\ begun'.streams = SubSeq(opened, 1, k)
  BY <1>2
<1> HIDE DEF s
<1>7. CASE k = 0
  <2>1. SubSeq(opened, 1, k) = <<>>
    BY <1>7, SubSeqEmpty
  <2>2. DOMAIN begun'.streams = {}
    <3>1. begun'.streams = <<>>
      BY <1>6, <2>1, Zenon
    <3>2. DOMAIN <<>> = {}
      OBVIOUS
    <3> QED
      BY <3>1, <3>2, Zenon
  <2> QED
    BY <1>1, <2>2 DEF SettingsUnderstood
<1>8. CASE k # 0
  <2>1. FrameOf(frame, at[6], at, s) /\ k \in 1..3
    BY <1>5, <1>8
  <2>2. frame \in Seq(WireBytes)
    BY <2>1, Zenon DEF FrameOf
  <2>3. Understood(frame, s)
    BY <1>3, <1>4, <2>1, FrameUnderstood
  <2> HIDE DEF frame
  <2> DEFINE t == Varint(0) \o frame
  <2>4. /\ Varint(0) \in Seq(WireBytes) /\ Len(Varint(0)) = 1 /\ Varint(0)[1] = <<0, 1, 1>>
    <3>1. Width(0) = 1
      BY DEF Width
    <3>2. Varint(0) = Wide(0, 1)
      BY <3>1, Zenon DEF Varint
    <3>3. 1 \in Nat /\ 0 \in Nat /\ 1 \in 1..1
      OBVIOUS
    <3>4. /\ Wide(0, 1) \in Seq(WireBytes) /\ Len(Wide(0, 1)) = 1
          /\ \A i \in 1..1 : Wide(0, 1)[i] = <<0, 1, i>>
      BY <3>3, WideFacts
    <3> QED
      BY <3>2, <3>3, <3>4, Zenon
  <2>5. t \in Seq(WireBytes) /\ Joined(t, Varint(0), frame)
    BY <2>2, <2>4, ConcatFacts
  <2> HIDE DEF t
  <2>6. /\ Len(t) = 1 + Len(frame) /\ t[1] = <<0, 1, 1>> /\ \A i \in 1..Len(frame) : t[1 + i] = frame[i]
    <3>1. 1 \in 1..1
      OBVIOUS
    <3> QED
      BY <2>4, <2>5, <3>1, Zenon DEF Joined
  <2>7. Tail(t) = frame
    <3>1. Len(frame) \in Nat /\ t # <<>>
      BY <2>2, <2>6, LenProperties
    <3>2. /\ Tail(t) \in Seq(WireBytes) /\ Len(Tail(t)) = Len(frame)
          /\ \A i \in 1..Len(frame) : Tail(t)[i] = t[i + 1]
      BY <2>5, <2>6, <3>1
    <3>3. \A i \in 1..Len(frame) : 1 + i = i + 1
      OBVIOUS
    <3>4. \A i \in 1..Len(frame) : Tail(t)[i] = frame[i]
      BY <2>6, <3>2, <3>3, Zenon
    <3> QED
      BY <2>2, <3>2, <3>4, SeqEqual, Zenon
  <2>8. SubSeq(opened, 1, k)[1] = t
    <3>1. opened = <<t, Varint(2), Varint(3)>>
      BY DEF t
    <3>2. SubSeq(<<t, Varint(2), Varint(3)>>, 1, k)[1] = t
      BY <2>1
    <3> QED
      BY <3>1, <3>2, Zenon
  <2>9. begun'.streams[1] = t /\ begun'.own = s
    BY <1>6, <2>8, Zenon
  <2> QED
    BY <1>1, <2>3, <2>6, <2>7, <2>9, Zenon DEF SettingsUnderstood
<1> QED
  BY <1>7, <1>8

LEMMA OthersUnderstood ==
  ASSUME Encode
  PROVE  SettingsUnderstood'
<1>1. begun' = <<>>
  BY DEF Encode
<1>2. PICK s \in Others, room \in Rooms :
        encoded' = [settings |-> s, room |-> room, frame |-> h3zero_settings_encode(s, room)]
  BY DEF Encode
<1>3. s \in SettingsSet /\ room \in Nat /\ 200 \in Nat
  BY SettingsAssumption
<1>4. PICK at : Offsets(at, s)
  BY <1>3, OffsetsExist
<1> DEFINE frame == h3zero_settings_encode(s, room)
           least == h3zero_settings_encode(s, 200)
           l == at[6]
<1>5. IF 1 + Width(room) + l <= room THEN FrameOf(frame, l, at, s) ELSE frame = NULL
  BY <1>3, <1>4, Encoded
<1>6. IF 1 + Width(200) + l <= 200 THEN FrameOf(least, l, at, s) ELSE least = NULL
  BY <1>3, <1>4, Encoded
<1>7. encoded'.settings = s /\ encoded'.room = room /\ encoded'.frame = frame
  BY <1>2
<1> HIDE DEF frame, least
<1>8. Len(least) = 1 + Width(l) + l /\ l \in Nat /\ Width(l) \in Nat \ {0}
  <2>1. l \in Nat /\ l <= 80
    <3>1. Ordered(at, s)
      BY <1>3, <1>4, OffsetsFacts
    <3> QED
      BY <3>1 DEF Ordered
  <2>2. Width(200) = 2
    BY DEF Width
  <2> HIDE DEF l
  <2>3. 1 + Width(200) + l <= 200
    BY <2>1, <2>2
  <2>4. FrameOf(least, l, at, s)
    BY <1>6, <2>3
  <2> QED
    BY <1>3, <1>4, <2>4, FrameSize DEF l
<1>9. CASE 1 + Width(room) + l <= room
  <2>1. FrameOf(frame, l, at, s)
    BY <1>5, <1>9
  <2>2. Understood(frame, s)
    BY <1>3, <1>4, <2>1, FrameUnderstood
  <2>3. Len(frame) = 1 + Width(l) + l /\ frame # NULL
    BY <1>3, <1>4, <2>1, FrameSize
  <2>4. Width(l) <= Width(room) /\ Width(room) \in Nat
    <3>1. Width(room) \in Nat
      BY <1>3, WidthFacts
    <3> HIDE DEF l
    <3>2. l <= room
      BY <1>3, <1>8, <1>9, <3>1
    <3> QED
      BY <1>3, <1>8, <3>1, <3>2, WidthGrows
  <2> HIDE DEF l
  <2>5. Len(frame) <= room
    BY <1>3, <1>8, <1>9, <2>3, <2>4
  <2> QED
    BY <1>1, <1>7, <2>2, <2>3, <2>5, Zenon DEF SettingsUnderstood
<1>10. CASE ~(1 + Width(room) + l <= room)
  <2>1. frame = NULL
    BY <1>5, <1>10
  <2>2. room < Len(least) + Width(room)
    <3>1. Width(room) \in Nat
      BY <1>3, WidthFacts
    <3> HIDE DEF l
    <3> QED
      BY <1>3, <1>8, <1>10, <3>1
  <2> QED
    BY <1>1, <1>7, <2>1, <2>2, Zenon DEF SettingsUnderstood, least
<1> QED
  BY <1>9, <1>10

\* A peer that has the settings frame reads the settings that were encoded, and refuses
\* every beginning of it, for any settings and any buffer (h3zero_settings_encode,
\* h3zero_settings_decode); a frame is refused only where the room kept for its length
\* makes it too large.
THEOREM SettingsUnderstoodHolds == CapsulesSpec => []SettingsUnderstood
<1>1. CapsulesInit => SettingsUnderstood
  BY DEF CapsulesInit, SettingsUnderstood
<1>2. SettingsUnderstood /\ [CapsulesNext]_capsulesVars => SettingsUnderstood'
  <2> SUFFICES ASSUME SettingsUnderstood, [CapsulesNext]_capsulesVars
               PROVE  SettingsUnderstood'
    OBVIOUS
  <2>1. ASSUME UNCHANGED startVars PROVE SettingsUnderstood'
    BY <2>1 DEF SettingsUnderstood, startVars
  <2>2. CASE ProtocolInit
    BY <2>2, OwnUnderstood
  <2>3. CASE Encode
    BY <2>3, OthersUnderstood
  <2>4. CASE told = <<>> /\ hand = 0 /\ (\/ \E m \in Closings : SendClose(m)
                                     \/ SendDrain
                                     \/ \E c \in Peer : PeerCapsule(c))
    BY <2>1, <2>4 DEF SendClose, SendDrain, PeerCapsule, Send
  <2>5. CASE \E n \in Chunks : Deliver(n)
    BY <2>1, <2>5 DEF Deliver
  <2>6. CASE HeaderCut \/ NoBuffer \/ Take \/ Release
    BY <2>1, <2>6 DEF HeaderCut, NoBuffer, Take, Release
  <2>7. CASE \E n \in 0..Len(wire) : ReceiveCapsule(n)
    BY <2>1, <2>7 DEF ReceiveCapsule
  <2>8. CASE UNCHANGED capsulesVars
    BY <2>1, <2>8 DEF capsulesVars, startVars
  <2> QED
    BY <2>2, <2>3, <2>4, <2>5, <2>6, <2>7, <2>8, Zenon DEF CapsulesNext
<1> QED
  BY <1>1, <1>2, PTL DEF CapsulesSpec
=============================================================================
