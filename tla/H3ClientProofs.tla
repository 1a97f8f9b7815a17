--------------------------- MODULE H3ClientProofs ---------------------------
(***************************************************************************)
(* Proofs about H3DataStream and H3Client, for any length and contents of  *)
(* a stream, any cuts, and any request.                                    *)
(***************************************************************************)
EXTENDS H3Client, SequenceTheorems, WellFoundedInduction, TLAPS

\* Where a frame ends the next one starts, within the stream or behind it.
Boundary(c) ==
  c = 1 \/ \E q \in FrameStarts : Value(q) # FrameWebtransport /\ EndOf(q) = c

\* The bytes that the application should get.
IsData(b) ==
  \E q \in FrameStarts :
    /\ Value(q) \in {FrameData, FrameWebtransport} /\ InOrder(q)
    /\ PayloadAt(q) <= b
    /\ Value(q) = FrameWebtransport \/ b < EndOf(q)

ParserType ==
  /\ content \in Contents /\ delivered \in Seq(Nat)
  /\ at \in Nat \ {0} /\ hand \in 0..Length /\ at <= hand + 1
  /\ frame_header_read \in Nat
  /\ current_frame_type \in Nat /\ current_frame_length \in Nat /\ current_frame_read \in Nat
  /\ frame_header_parsed \in BOOLEAN /\ header_found \in BOOLEAN /\ data_found \in BOOLEAN
  /\ trailer_found \in BOOLEAN /\ is_web_transport \in BOOLEAN

\* The parser is in the frame that starts at c: in its header, or in its payload.
At(c) ==
  /\ ~frame_header_parsed => /\ at = c + frame_header_read /\ at < PayloadAt(c)
                             /\ ~is_web_transport
  /\ frame_header_parsed =>
       /\ c \in FrameStarts /\ PayloadAt(c) <= at /\ current_frame_type = Value(c)
       /\ is_web_transport => Value(c) = FrameWebtransport
       /\ ~is_web_transport => /\ current_frame_length = PayloadLength(c)
                               /\ at = PayloadAt(c) + current_frame_read
                               /\ current_frame_read <= current_frame_length

\* What it has found so far is what the frames before c are, and those are as they should
\* be; so is the one at c, as far as its header tells.
Agrees(c) ==
  /\ header_found <=> is_web_transport \/ FramesOf(FrameHeader, c) # {}
  /\ trailer_found <=> \E q, r \in FramesOf(FrameHeader, c) : q # r
  /\ data_found <=> FramesOf(FrameData, c) # {}
  /\ is_web_transport => FramesOf(FrameHeader, c) = {}
  /\ frame_header_parsed => (is_web_transport <=> Value(c) = FrameWebtransport)
  /\ \A q \in FrameStarts : q < c \/ (q = c /\ frame_header_parsed) =>
       InOrder(q) /\ (Value(q) = FrameHeader => PayloadLength(q) <= MaxBlock)
  /\ \A q \in FrameStarts : q < c /\ Value(q) = FrameHeader =>
       Decodes(PayloadAt(q), PayloadLength(q))

DataInv ==
  /\ {delivered[i] : i \in 1..Len(delivered)} = {b \in 1..(at - 1) : IsData(b)}
  /\ \A i \in 1..(Len(delivered) - 1) : delivered[i] < delivered[i + 1]

\* The reason an error gives is there.
ErrorInv ==
  /\ error \in {"unexpected", "protocol"} => \E q \in Read : ~InOrder(q)
  /\ error = "frame" => Broken # {}

FrameInv == \E c \in Nat : Boundary(c) /\ At(c) /\ (error = "none" => Agrees(c))

ParserInv == ParserType /\ FrameInv /\ DataInv /\ ErrorInv
-----------------------------------------------------------------------------
(* The frames of a stream                                                  *)

\* A set of numbers has a least element.
LEMMA Least ==
  ASSUME NEW S \in SUBSET Nat, S # {}
  PROVE  \E m \in S : \A k \in S : m <= k
<1>1. PICK m \in S : \A k \in S : <<k, m>> \notin OpToRel(<, Nat)
  BY NatLessThanWellFounded, WFMin, Zenon
<1>2. \A k \in S : ~(k < m)
  <2> SUFFICES ASSUME NEW k \in S, k < m PROVE FALSE
    BY Zenon
  <2>1. <<k, m>> \in Nat \X Nat /\ <<k, m>>[1] = k /\ <<k, m>>[2] = m
    OBVIOUS
  <2>2. <<k, m>> \in OpToRel(<, Nat)
    BY <2>1, Zenon DEF OpToRel
  <2> QED
    BY <1>1, <2>2, Zenon
<1> QED
  BY <1>2

\* The function by which frames start is the one its equation says: that there is one is
\* seen by taking the least set of positions that its links lead to.
LEMMA StartsEquation ==
  ASSUME Length \in Nat
  PROVE  Starts =
           [p \in 1..Length |->
              p = 1 \/ \E q \in 1..(p - 1) :
                         EndOf(q) = p /\ Value(q) # FrameWebtransport /\ Starts[q]]
<1> DEFINE Link(q, p) == EndOf(q) = p /\ Value(q) # FrameWebtransport
<1> DEFINE Closed(S) == /\ 1 \in 1..Length => 1 \in S
                        /\ \A q \in S : \A p \in 1..Length : q < p /\ Link(q, p) => p \in S
<1> DEFINE D == {p \in 1..Length : \A S \in SUBSET (1..Length) : Closed(S) => p \in S}
<1> DEFINE g == [p \in 1..Length |-> p \in D]
<1> DEFINE Eq(f) == f = [p \in 1..Length |-> p = 1 \/ \E q \in 1..(p - 1) : Link(q, p) /\ f[q]]
<1>0. Starts = CHOOSE f : Eq(f)
  BY DEF Starts
<1> HIDE DEF Link
<1>1. D \in SUBSET (1..Length) /\ Closed(D)
  OBVIOUS
<1>2. ASSUME NEW p \in 1..Length, p \in D, p # 1
      PROVE  \E q \in 1..(p - 1) : q \in D /\ Link(q, p)
  <2> SUFFICES ASSUME \A q \in 1..(p - 1) : q \in D => ~Link(q, p)
               PROVE  FALSE
    OBVIOUS
  <2>1. \A q \in D : q < p => q \in 1..(p - 1)
    OBVIOUS
  <2>2. Closed(D \ {p}) /\ D \ {p} \in SUBSET (1..Length)
    <3> HIDE DEF D
    <3> QED
      BY <1>1, <1>2, <2>1
  <2> QED
    BY <1>2, <2>2
<1>3. ASSUME NEW p \in 1..Length
      PROVE  p \in D <=> (p = 1 \/ \E q \in 1..(p - 1) : Link(q, p) /\ q \in D)
  <2>1. \A q \in 1..(p - 1) : q < p
    OBVIOUS
  <2> HIDE DEF D
  <2> QED
    BY <1>1, <1>2, <2>1
<1> HIDE DEF D
<1>4. Eq(g)
  <2>1. ASSUME NEW p \in 1..Length
        PROVE  (p \in D) = (p = 1 \/ \E q \in 1..(p - 1) : Link(q, p) /\ g[q])
    <3>1. \A q \in 1..(p - 1) : q \in 1..Length
      OBVIOUS
    <3>2. \A q \in 1..(p - 1) : g[q] <=> q \in D
      BY <3>1
    <3> HIDE DEF g
    <3>3. (\E q \in 1..(p - 1) : Link(q, p) /\ q \in D)
            <=> (\E q \in 1..(p - 1) : Link(q, p) /\ g[q])
      BY <3>2
    <3> QED
      BY <1>3, <3>3
  <2> QED
    BY <2>1
<1> HIDE DEF g, Eq
<1>5. Eq(Starts)
  BY <1>0, <1>4
<1> QED
  BY <1>5 DEF Eq, Link

Fits == content \in Contents /\ Length \in Nat

LEMMA FrameFacts ==
  ASSUME Fits
  PROVE  \A q \in Nat \ {0} :
           /\ Width(q) \in Nat \ {0} /\ Value(q) \in Nat
           /\ PayloadAt(q) \in Nat /\ PayloadAt(q) = q + Width(q) + Width(q + Width(q))
           /\ PayloadAt(q) > q + Width(q)
           /\ PayloadLength(q) \in Nat /\ PayloadLength(q) = Value(q + Width(q))
           /\ EndOf(q) \in Nat /\ EndOf(q) = PayloadAt(q) + PayloadLength(q)
           /\ PayloadAt(q) > q + 1 /\ EndOf(q) > q
<1>1. \A q \in Nat \ {0} : Width(q) \in Nat \ {0} /\ Value(q) \in Nat
  BY ContentsAssumption DEF Width, Value, Fits
<1>2. ASSUME NEW q \in Nat \ {0}
      PROVE  /\ PayloadAt(q) \in Nat /\ PayloadAt(q) = q + Width(q) + Width(q + Width(q))
             /\ PayloadLength(q) \in Nat /\ PayloadLength(q) = Value(q + Width(q))
             /\ PayloadAt(q) > q + Width(q) /\ PayloadAt(q) > q + 1
  <2>1. q + Width(q) \in Nat \ {0} /\ Width(q) \in Nat \ {0}
    BY <1>1
  <2>2. Width(q + Width(q)) \in Nat \ {0} /\ Value(q + Width(q)) \in Nat
    BY <1>1, <2>1
  <2> QED
    BY <2>1, <2>2 DEF PayloadAt, PayloadLength
<1> QED
  BY <1>1, <1>2 DEF EndOf

LEMMA StartsFacts ==
  ASSUME Fits
  PROVE  /\ FrameStarts \subseteq 1..Length
         /\ \A p \in 1..Length : p \in FrameStarts <=> Boundary(p)
<1>1. FrameStarts \subseteq 1..Length /\ Length \in Nat
  BY DEF FrameStarts, Fits
<1>2. \A q \in 1..Length : q < EndOf(q)
  BY <1>1, FrameFacts
<1>3. ASSUME NEW p \in 1..Length
      PROVE  p \in FrameStarts <=> Boundary(p)
  <2>1. Starts[p] = (p = 1 \/ \E q \in 1..(p - 1) :
                                EndOf(q) = p /\ Value(q) # FrameWebtransport /\ Starts[q])
    BY <1>1, StartsEquation
  <2>2. \A q \in 1..Length : q \in FrameStarts <=> Starts[q]
    BY DEF FrameStarts
  <2>3. \A q : q \in 1..(p - 1) <=> q \in 1..Length /\ q < p
    BY <1>1
  <2> QED
    BY <1>1, <1>2, <2>1, <2>2, <2>3 DEF Boundary
<1> QED
  BY <1>1, <1>3

LEMMA StartFacts ==
  ASSUME Fits
  PROVE  \A q \in FrameStarts :
           /\ q \in Nat \ {0} /\ q <= Length /\ Boundary(q)
           /\ Width(q) \in Nat \ {0} /\ Value(q) \in Nat
           /\ PayloadAt(q) \in Nat /\ PayloadLength(q) \in Nat /\ EndOf(q) \in Nat
           /\ q + Width(q) < PayloadAt(q) /\ q < PayloadAt(q)
           /\ EndOf(q) = PayloadAt(q) + PayloadLength(q)
           /\ PayloadAt(q) <= EndOf(q) /\ q < EndOf(q)
<1>1. Length \in Nat /\ FrameStarts \subseteq 1..Length
  BY StartsFacts DEF Fits
<1> QED
  BY <1>1, StartsFacts, FrameFacts

\* Frames follow each other, and none follows a WebTransport header.
LEMMA Chain ==
  ASSUME Fits, NEW c \in Nat, Boundary(c), NEW q \in FrameStarts, q < c
  PROVE  Value(q) # FrameWebtransport /\ EndOf(q) <= c
<1> DEFINE Follows(r, p) == p < r => Value(p) # FrameWebtransport /\ EndOf(p) <= r
<1> DEFINE T == {r \in Nat : Boundary(r) /\ \E p \in FrameStarts : ~Follows(r, p)}
<1>1. FrameStarts \subseteq 1..Length /\ Length \in Nat
  BY StartsFacts DEF Fits
<1>2. \A p \in FrameStarts : EndOf(p) \in Nat /\ p < EndOf(p) /\ p \in Nat /\ p >= 1
  BY <1>1, FrameFacts
<1>3. T = {}
  <2> SUFFICES ASSUME T # {} PROVE FALSE
    OBVIOUS
  <2>1. PICK r \in T : \A k \in T : r <= k
    <3>1. T \in SUBSET Nat
      OBVIOUS
    <3> HIDE DEF T
    <3> QED
      BY <3>1, Least
  <2>2. PICK p \in FrameStarts : r \in Nat /\ Boundary(r) /\ ~Follows(r, p)
    OBVIOUS
  <2>3. \A k \in Nat : k < r /\ Boundary(k) => \A m \in FrameStarts : Follows(k, m)
    BY <2>1, <2>2
  <2>4. p < r /\ r # 1
    BY <1>2, <2>2
  <2>5. PICK m \in FrameStarts : Value(m) # FrameWebtransport /\ EndOf(m) = r
    BY <2>2, <2>4 DEF Boundary
  <2>6. m \in Nat /\ m < r /\ Boundary(m) /\ Boundary(p)
    BY <1>1, <1>2, <2>5, StartsFacts
  <2> HIDE DEF T
  <2>7. CASE p = m
    BY <2>2, <2>5, <2>7
  <2>8. CASE p < m
    BY <1>2, <2>2, <2>3, <2>5, <2>6, <2>8
  <2>9. CASE m < p
    BY <1>2, <2>2, <2>3, <2>4, <2>5, <2>6, <2>9
  <2> QED
    BY <1>2, <2>6, <2>7, <2>8, <2>9
<1> QED
  BY <1>3


LEMMA NextFrame ==
  ASSUME Fits, NEW c \in FrameStarts, Value(c) # FrameWebtransport
  PROVE  /\ Boundary(EndOf(c)) /\ EndOf(c) \in Nat /\ c < EndOf(c)
         /\ \A q \in FrameStarts : q < EndOf(c) <=> q < c \/ q = c
<1>1. FrameStarts \subseteq 1..Length
  BY StartsFacts
<1>2. EndOf(c) \in Nat /\ c < EndOf(c) /\ c \in Nat /\ Boundary(EndOf(c))
  BY <1>1, FrameFacts DEF Boundary, Fits
<1>3. ASSUME NEW q \in FrameStarts, c < q
      PROVE  EndOf(c) <= q
  <2>1. q \in Nat /\ Boundary(q)
    BY <1>1, StartsFacts DEF Fits
  <2> QED
    BY <1>3, <2>1, Chain
<1>4. \A q \in FrameStarts : q \in Nat
  BY <1>1 DEF Fits
<1> QED
  BY <1>2, <1>3, <1>4

\* A byte of a frame is data if the frame is of data, and the byte is not of its header.
LEMMA DataOfFrame ==
  ASSUME Fits, NEW c \in FrameStarts, NEW b \in Nat, c <= b,
         Value(c) = FrameWebtransport \/ b < EndOf(c)
  PROVE  IsData(b) <=> /\ Value(c) \in {FrameData, FrameWebtransport} /\ InOrder(c)
                       /\ PayloadAt(c) <= b
<1>1. FrameStarts \subseteq 1..Length /\ Length \in Nat
  BY StartsFacts DEF Fits
<1>2. \A q \in FrameStarts :
        /\ q \in Nat /\ EndOf(q) \in Nat /\ PayloadAt(q) \in Nat /\ q < PayloadAt(q)
        /\ q < EndOf(q) /\ Boundary(q)
  BY <1>1, FrameFacts, StartsFacts
<1>3. ASSUME NEW q \in FrameStarts, PayloadAt(q) <= b,
             Value(q) = FrameWebtransport \/ b < EndOf(q)
      PROVE  q = c
  <2>1. CASE q < c
    <3>1. Value(q) # FrameWebtransport /\ EndOf(q) <= c
      BY <1>2, <2>1, Chain
    <3> QED
      BY <1>2, <1>3, <3>1
  <2>2. CASE c < q
    <3>1. Value(c) # FrameWebtransport /\ EndOf(c) <= q
      BY <1>2, <2>2, Chain
    <3> QED
      BY <1>2, <1>3, <3>1
  <2> QED
    BY <1>2, <2>1, <2>2
<1> QED
  BY <1>3 DEF IsData

\* All this is about what the stream carries, which does not change.
LEMMA ContentFixed ==
  ASSUME Length \in Nat, content' = content
  PROVE  /\ FrameStarts' = FrameStarts
         /\ \A q : /\ Width(q)' = Width(q) /\ Value(q)' = Value(q)
                   /\ PayloadAt(q)' = PayloadAt(q) /\ PayloadLength(q)' = PayloadLength(q)
                   /\ EndOf(q)' = EndOf(q) /\ Boundary(q)' = Boundary(q)
                   /\ InOrder(q)' = InOrder(q) /\ IsData(q)' = IsData(q)
         /\ \A q, n : FramesOf(q, n)' = FramesOf(q, n) /\ Decodes(q, n)' = Decodes(q, n)
<1>1. \A q : Width(q)' = Width(q) /\ Value(q)' = Value(q)
  BY DEF Width, Value
<1>2. \A q : PayloadAt(q)' = PayloadAt(q) /\ PayloadLength(q)' = PayloadLength(q)
  BY <1>1 DEF PayloadAt, PayloadLength
<1>3. \A q : EndOf(q)' = EndOf(q)
  BY <1>2 DEF EndOf
<1>4. FrameStarts' = FrameStarts
  BY DEF FrameStarts, Starts, EndOf, PayloadAt, PayloadLength, Width, Value
<1>5. \A q, n : FramesOf(q, n)' = FramesOf(q, n)
  BY <1>1, <1>4 DEF FramesOf
<1>6. \A q : InOrder(q)' = InOrder(q)
  BY <1>1, <1>5 DEF InOrder
<1>7. \A q, n : Decodes(q, n)' = Decodes(q, n)
  BY DEF Decodes
<1>8. \A q : Boundary(q)' = Boundary(q)
  BY <1>1, <1>3, <1>4 DEF Boundary
<1>9. \A q : IsData(q)' = IsData(q)
  BY <1>1, <1>2, <1>3, <1>4, <1>6 DEF IsData
<1> QED
  BY <1>1, <1>2, <1>3, <1>4, <1>5, <1>6, <1>7, <1>8, <1>9

LEMMA InitParser ==
  ASSUME Init
  PROVE  ParserInv
<1> USE DEF Init
<1>1. Fits
  BY LengthAssumption DEF Fits
<1>2. ParserType
  <2>1. hand \in 0..Length /\ at \in Nat \ {0} /\ at <= hand + 1
    BY LengthAssumption
  <2>2. delivered \in Seq(Nat)
    OBVIOUS
  <2> QED
    BY <2>1, <2>2 DEF ParserType
<1>3. Boundary(1) /\ PayloadAt(1) > 1
  BY <1>1, FrameFacts DEF Boundary
<1>4. At(1)
  BY <1>3 DEF At
<1>5. Agrees(1)
  <2>1. \A q \in FrameStarts : ~(q < 1)
    BY <1>1, StartsFacts
  <2>2. \A type : FramesOf(type, 1) = {}
    BY <2>1 DEF FramesOf
  <2> QED
    BY <2>1, <2>2 DEF Agrees
<1>6. DataInv
  BY DEF DataInv
<1>7. ErrorInv
  BY DEF ErrorInv
<1> QED
  BY <1>2, <1>3, <1>4, <1>5, <1>6, <1>7 DEF ParserInv, FrameInv
-----------------------------------------------------------------------------
(* What is delivered                                                       *)

LEMMA Below ==
  ASSUME NEW a \in Nat, NEW c \in Nat, a <= c, NEW b \in Nat, b \notin a..(c - 1)
  PROVE  b \in 1..(c - 1) <=> b \in 1..(a - 1)
OBVIOUS

\* u is d and the n numbers from a on behind it.
Run(d, a, n, u) ==
  /\ u \in Seq(Nat) /\ Len(u) = Len(d) + n
  /\ \A i \in 1..Len(d) : u[i] = d[i]
  /\ \A i \in 1..n : u[Len(d) + i] = a + i - 1
  /\ {u[i] : i \in 1..Len(u)} = {d[i] : i \in 1..Len(d)} \cup a..(a + n - 1)

LEMMA RunAppended ==
  ASSUME NEW d \in Seq(Nat), NEW a \in Nat \ {0}, NEW n \in Nat, NEW u,
         u = d \o [i \in 1..n |-> a + i - 1]
  PROVE  Run(d, a, n, u)
<1> DEFINE run == [i \in 1..n |-> a + i - 1]
<1>1. run \in Seq(Nat) /\ Len(run) = n /\ \A i \in 1..n : run[i] = a + i - 1
  OBVIOUS
<1> HIDE DEF run
<1>2. u = d \o run
  BY DEF run
<1>3. /\ u \in Seq(Nat) /\ Len(u) = Len(d) + n /\ Len(d) \in Nat
      /\ \A i \in 1..(Len(d) + n) : u[i] = IF i <= Len(d) THEN d[i] ELSE run[i - Len(d)]
  <2>1. /\ d \o run \in Seq(Nat) /\ Len(d \o run) = Len(d) + Len(run)
        /\ \A i \in 1..(Len(d) + Len(run)) :
             (d \o run)[i] = IF i <= Len(d) THEN d[i] ELSE run[i - Len(d)]
    BY <1>1, ConcatProperties
  <2> QED
    BY <1>1, <1>2, <2>1
<1>4. \A i \in 1..Len(d) : u[i] = d[i]
  BY <1>3
<1>5. ASSUME NEW i \in 1..n PROVE u[Len(d) + i] = a + i - 1
  <2>1. Len(d) + i \in 1..(Len(d) + n) /\ ~(Len(d) + i <= Len(d)) /\ Len(d) + i - Len(d) = i
    BY <1>3
  <2> QED
    BY <1>1, <1>3, <2>1
<1>6. ASSUME NEW i \in 1..Len(u)
      PROVE  u[i] \in {d[j] : j \in 1..Len(d)} \cup a..(a + n - 1)
  <2>1. CASE i <= Len(d)
    BY <1>3, <1>4, <2>1
  <2>2. CASE i > Len(d)
    <3>1. i - Len(d) \in 1..n /\ Len(d) + (i - Len(d)) = i
      BY <1>3, <2>2
    <3>2. u[i] = a + (i - Len(d)) - 1
      BY <1>5, <3>1
    <3> QED
      BY <3>1, <3>2
  <2> QED
    BY <1>3, <2>1, <2>2
<1>7. ASSUME NEW b \in a..(a + n - 1) PROVE \E i \in 1..Len(u) : u[i] = b
  <2>1. b - a + 1 \in 1..n /\ a + (b - a + 1) - 1 = b
    OBVIOUS
  <2>2. Len(d) + (b - a + 1) \in 1..Len(u)
    BY <1>3, <2>1
  <2>3. u[Len(d) + (b - a + 1)] = b
    BY <1>5, <2>1
  <2> QED
    BY <2>2, <2>3
<1>8. \A i \in 1..Len(d) : i \in 1..Len(u)
  BY <1>3
<1>9. {u[i] : i \in 1..Len(u)} = {d[i] : i \in 1..Len(d)} \cup a..(a + n - 1)
  <2>1. \A i \in 1..Len(d) : \E j \in 1..Len(u) : u[j] = d[i]
    BY <1>4, <1>8
  <2>2. \A x \in {d[j] : j \in 1..Len(d)} : \E i \in 1..Len(u) : u[i] = x
    BY <2>1
  <2> QED
    BY <1>6, <1>7, <2>2
<1> QED
  BY <1>3, <1>4, <1>5, <1>9 DEF Run

Increasing(d) == \A i \in 1..(Len(d) - 1) : d[i] < d[i + 1]

LEMMA RunIncreases ==
  ASSUME NEW d \in Seq(Nat), Increasing(d), NEW a \in Nat \ {0}, NEW n \in Nat, NEW u,
         Run(d, a, n, u), \A i \in 1..Len(d) : d[i] < a
  PROVE  Increasing(u)
<1>1. Len(d) \in Nat /\ Len(u) = Len(d) + n
  BY DEF Run
<1> SUFFICES ASSUME NEW i \in 1..(Len(u) - 1) PROVE u[i] < u[i + 1]
  BY DEF Increasing
<1>2. CASE i < Len(d)
  <2>1. i \in 1..(Len(d) - 1) /\ i \in 1..Len(d) /\ i + 1 \in 1..Len(d)
    BY <1>1, <1>2
  <2> QED
    BY <2>1 DEF Increasing, Run
<1>3. CASE i = Len(d)
  <2>1. 1 \in 1..n /\ i \in 1..Len(d)
    BY <1>1, <1>3
  <2>2. u[i] = d[i] /\ d[i] \in Nat /\ d[i] < a /\ u[i + 1] = a + 1 - 1
    BY <1>3, <2>1 DEF Run
  <2> QED
    BY <2>2
<1>4. CASE i > Len(d)
  <2> DEFINE j == i - Len(d)
  <2>1. /\ j \in 1..n /\ j + 1 \in 1..n /\ Len(d) + j = i
        /\ Len(d) + (j + 1) = i + 1
    BY <1>1, <1>4
  <2> HIDE DEF j
  <2>2. u[i] = a + j - 1 /\ u[i + 1] = a + (j + 1) - 1
    BY <2>1 DEF Run
  <2> QED
    BY <2>1, <2>2
<1> QED
  BY <1>1, <1>2, <1>3, <1>4

LEMMA NoData ==
  ASSUME ParserType, DataInv, UNCHANGED <<content, delivered>>,
         NEW a \in Nat, at' = a, at <= a, \A b \in at..(a - 1) : ~IsData(b)
  PROVE  DataInv'
<1>1. \A b : IsData(b)' = IsData(b)
  BY ContentFixed, LengthAssumption
<1>2. {b \in 1..(a - 1) : IsData(b)} = {b \in 1..(at - 1) : IsData(b)}
  <2>1. at \in Nat \ {0}
    BY DEF ParserType
  <2>2. ASSUME NEW b \in Nat, IsData(b) PROVE b \in 1..(a - 1) <=> b \in 1..(at - 1)
    BY <2>1, <2>2, Below
  <2>3. \A b : b \in 1..(a - 1) \/ b \in 1..(at - 1) => b \in Nat
    OBVIOUS
  <2> QED
    BY <2>2, <2>3, Zenon
<1> QED
  BY <1>1, <1>2 DEF DataInv

LEMMA NewData ==
  ASSUME ParserType, DataInv, UNCHANGED content, NEW n \in Nat, at' = at + n,
         delivered' = delivered \o [i \in 1..n |-> at + i - 1],
         \A b \in at..(at + n - 1) : IsData(b)
  PROVE  DataInv' /\ delivered' \in Seq(Nat)
<1>1. \A b : IsData(b)' = IsData(b)
  BY ContentFixed, LengthAssumption
<1>2. at \in Nat \ {0} /\ delivered \in Seq(Nat) /\ Len(delivered) \in Nat
  BY DEF ParserType
<1>3. /\ delivered' \in Seq(Nat) /\ Len(delivered') = Len(delivered) + n
      /\ \A i \in 1..Len(delivered) : delivered'[i] = delivered[i]
      /\ \A i \in 1..n : delivered'[Len(delivered) + i] = at + i - 1
      /\ {delivered'[i] : i \in 1..Len(delivered')}
           = {delivered[i] : i \in 1..Len(delivered)} \cup at..(at + n - 1)
  <2>1. Run(delivered, at, n, delivered')
    BY <1>2, RunAppended
  <2> QED
    BY <2>1 DEF Run
<1>4. {b \in 1..(at' - 1) : IsData(b)} = {b \in 1..(at - 1) : IsData(b)} \cup at..(at + n - 1)
  BY <1>2
<1>5. \A i \in 1..Len(delivered) : delivered[i] \in Nat /\ delivered[i] < at
  <2> TAKE i \in 1..Len(delivered)
  <2>1. delivered[i] \in {b \in 1..(at - 1) : IsData(b)}
    BY DEF DataInv
  <2> QED
    BY <1>2, <2>1
<1>6. \A i \in 1..(Len(delivered') - 1) : delivered'[i] < delivered'[i + 1]
  <2>1. Run(delivered, at, n, delivered') /\ Increasing(delivered)
    BY <1>2, RunAppended DEF DataInv, Increasing
  <2> QED
    BY <1>2, <1>5, <2>1, RunIncreases DEF Increasing
<1> QED
  BY <1>1, <1>3, <1>4, <1>6 DEF DataInv
-----------------------------------------------------------------------------
(* The steps of the parser                                                 *)

\* In a frame header, the bytes gathered are the ones of the frame that starts there.
LEMMA InHeader ==
  ASSUME ParserInv, Busy, ~frame_header_parsed
  PROVE  /\ Fits /\ TypeAt \in FrameStarts /\ TypeAt \in Nat /\ Boundary(TypeAt)
         /\ At(TypeAt) /\ Agrees(TypeAt) /\ TypeAt <= at /\ at = TypeAt + frame_header_read
         /\ at < PayloadAt(TypeAt) /\ ~is_web_transport
         /\ content[TypeAt].value = Value(TypeAt) /\ LengthAt = TypeAt + Width(TypeAt)
         /\ LengthAt <= Length =>
              /\ PayloadAt(TypeAt) = TypeAt + HeaderBytes
              /\ content[LengthAt].value = PayloadLength(TypeAt)
<1> DEFINE c == TypeAt
<1>1. Fits /\ Length \in Nat
  BY LengthAssumption DEF Fits, ParserInv, ParserType
<1>2. /\ at \in Nat \ {0} /\ hand \in Nat /\ hand <= Length /\ at <= hand
      /\ frame_header_read \in Nat /\ error = "none"
  BY <1>1 DEF ParserInv, ParserType, Busy, Rest
<1>3. PICK d \in Nat : Boundary(d) /\ At(d) /\ Agrees(d)
  BY <1>2 DEF ParserInv, FrameInv
<1>4. at = d + frame_header_read /\ at < PayloadAt(d) /\ ~is_web_transport
  BY <1>3 DEF At
<1>5. c = d
  BY <1>2, <1>4 DEF TypeAt
<1>6. d # 0
  <2>1. \A q \in FrameStarts : EndOf(q) > 0
    BY <1>1, StartFacts
  <2> QED
    BY <1>3, <2>1 DEF Boundary
<1>7. d \in 1..Length /\ d \in FrameStarts /\ d <= at
  <2>1. d \in 1..Length /\ d <= at
    BY <1>1, <1>2, <1>3, <1>4, <1>6
  <2> QED
    BY <1>1, <1>3, <2>1, StartsFacts
<1>8. content[d].value = Value(d) /\ content[d].width = Width(d)
  BY <1>7 DEF Width, Value
<1>9. LengthAt = d + Width(d)
  BY <1>5, <1>8 DEF LengthAt
<1>10. ASSUME LengthAt <= Length
       PROVE  PayloadAt(d) = d + HeaderBytes /\ content[LengthAt].value = PayloadLength(d)
  <2>1. content[LengthAt].width = Width(LengthAt) /\ content[LengthAt].value = Value(LengthAt)
    BY <1>10 DEF Width, Value
  <2>2. Width(d) \in Nat /\ Width(LengthAt) \in Nat
    BY <1>1, <1>7, <1>9, FrameFacts
  <2> QED
    BY <1>5, <1>7, <1>8, <1>9, <2>1, <2>2 DEF HeaderBytes, PayloadAt, PayloadLength
<1> HIDE DEF c
<1> QED
  BY <1>1, <1>3, <1>4, <1>5, <1>7, <1>8, <1>9, <1>10 DEF c

\* The bytes of a frame header are no data.
LEMMA HeaderData ==
  ASSUME ParserInv, Busy, ~frame_header_parsed, UNCHANGED <<content, delivered>>,
         at' \in Nat, at <= at', at' <= PayloadAt(TypeAt)
  PROVE  DataInv'
<1>1. PICK c \in FrameStarts : c = TypeAt /\ c <= at
  BY InHeader
<1>2. Fits /\ at \in Nat
  BY InHeader DEF ParserInv, ParserType
<1>3. /\ c \in Nat /\ PayloadAt(c) \in Nat /\ EndOf(c) \in Nat /\ PayloadAt(c) <= EndOf(c)
  BY <1>1, <1>2, StartFacts
<1>4. \A b \in at..(at' - 1) : b \in Nat /\ c <= b /\ b < EndOf(c) /\ ~(PayloadAt(c) <= b)
  <2>1. PICK a \in Nat : a = at'
    OBVIOUS
  <2>2. a <= PayloadAt(c) /\ c <= at
    BY <1>1, <2>1
  <2>3. \A b \in at..(a - 1) : b \in Nat /\ c <= b /\ b < EndOf(c) /\ ~(PayloadAt(c) <= b)
    BY <1>2, <1>3, <2>2
  <2> QED
    BY <2>1, <2>3
<1>5. \A b \in at..(at' - 1) : ~IsData(b)
  BY <1>2, <1>4, DataOfFrame
<1> QED
  BY <1>5, NoData DEF ParserInv

LEMMA PartStep ==
  ASSUME ParserInv, PartOfType \/ PartOfHeader
  PROVE  ParserInv'
<1>1. /\ Busy /\ ~frame_header_parsed /\ error = "none"
      /\ frame_header_read' = frame_header_read + Rest /\ at' = hand + 1
      /\ current_frame_type' \in {current_frame_type, content[TypeAt].value}
      /\ UNCHANGED <<content, hand, frame_header_parsed, current_frame_length,
                     current_frame_read, header_found, data_found, trailer_found,
                     is_web_transport, error, delivered>>
  BY DEF PartOfType, PartOfHeader, Busy, chunkVars, foundVars, frameVars
<1>2. PICK c \in FrameStarts :
        /\ c = TypeAt /\ Fits /\ c \in Nat /\ Boundary(c) /\ Agrees(c) /\ c <= at
        /\ at = c + frame_header_read /\ at < PayloadAt(c) /\ ~is_web_transport
        /\ content[c].value = Value(c) /\ LengthAt = c + Width(c)
        /\ LengthAt <= Length => PayloadAt(c) = c + HeaderBytes
  BY <1>1, InHeader
<1>3. /\ at \in Nat \ {0} /\ hand \in Nat /\ hand <= Length /\ Length \in Nat
      /\ frame_header_read \in Nat /\ Rest = hand - at + 1 /\ Rest \in Nat /\ Rest > 0
  BY <1>1, LengthAssumption DEF ParserInv, ParserType, Busy, Rest
<1>4. /\ PayloadAt(c) \in Nat /\ PayloadAt(c) > c + Width(c) /\ Width(c) \in Nat /\ Value(c) \in Nat
  BY <1>2, StartFacts
<1>5. hand + 1 < PayloadAt(c)
  <2>1. CASE hand < LengthAt
    BY <1>2, <1>3, <1>4, <2>1
  <2>2. CASE ~(hand < LengthAt)
    <3>1. LengthAt <= Length /\ frame_header_read + Rest < HeaderBytes
      BY <1>2, <1>3, <1>4, <2>2 DEF PartOfType, PartOfHeader
    <3>2. PayloadAt(c) = c + HeaderBytes
      BY <1>2, <3>1
    <3>3. HeaderBytes = PayloadAt(c) - c
      <4>1. HeaderBytes \in Nat
        <5>1. Width(LengthAt) \in Nat /\ LengthAt \in Nat \ {0}
          BY <1>2, <1>3, <1>4, FrameFacts, StartsFacts, SMTT(30)
        <5>2. content[TypeAt].width = Width(TypeAt) /\ content[LengthAt].width = Width(LengthAt)
          BY <1>2, <3>1, StartsFacts DEF Width
        <5>3. Width(TypeAt) = Width(c) /\ Width(LengthAt) \in Nat /\ Width(c) \in Nat
          BY <1>2, <1>4, <5>1
        <5>4. HeaderBytes = Width(c) + Width(LengthAt)
          BY <5>2, <5>3 DEF HeaderBytes
        <5> QED
          BY <5>3, <5>4
      <4> QED
        BY <1>2, <3>2, <4>1
    <3> QED
      BY <1>2, <1>3, <1>4, <3>1, <3>3
  <2> QED
    BY <2>1, <2>2
<1>6. ParserType'
  <2>1. /\ at' \in Nat \ {0} /\ hand' \in 0..Length /\ at' <= hand' + 1
        /\ frame_header_read' \in Nat
    <3>1. hand + 1 \in Nat \ {0} /\ hand \in 0..Length /\ frame_header_read + Rest \in Nat
      BY <1>3
    <3> QED
      BY <1>1, <1>3, <3>1
  <2>2. current_frame_type' \in Nat
    <3>1. current_frame_type \in Nat /\ content[TypeAt].value \in Nat
      BY <1>2, <1>4 DEF ParserInv, ParserType
    <3> QED
      BY <1>1, <3>1
  <2> QED
    BY <1>1, <2>1, <2>2 DEF ParserInv, ParserType
<1>7. FrameInv'
  <2>1. At(c)'
    <3>1. PayloadAt(c)' = PayloadAt(c)
      BY <1>1, <1>3, ContentFixed
    <3>2. at' = c + frame_header_read' /\ at' < PayloadAt(c)
      BY <1>1, <1>2, <1>3, <1>5
    <3> QED
      BY <1>1, <1>2, <3>1, <3>2 DEF At
  <2>2. Boundary(c)' /\ Agrees(c)'
    <3>1. /\ FrameStarts' = FrameStarts /\ Boundary(c)' = Boundary(c)
          /\ \A q : /\ Value(q)' = Value(q) /\ InOrder(q)' = InOrder(q)
                    /\ PayloadAt(q)' = PayloadAt(q) /\ PayloadLength(q)' = PayloadLength(q)
          /\ \A q, n : FramesOf(q, n)' = FramesOf(q, n) /\ Decodes(q, n)' = Decodes(q, n)
      BY <1>1, <1>3, ContentFixed
    <3> QED
      BY <1>1, <1>2, <3>1 DEF Agrees
  <2> QED
    BY <1>2, <2>1, <2>2 DEF FrameInv
<1>8. DataInv'
  <2>1. at' \in Nat /\ at <= at' /\ at' <= PayloadAt(TypeAt)
    BY <1>1, <1>2, <1>3, <1>4, <1>5
  <2> QED
    BY <1>1, <2>1, HeaderData
<1>9. ErrorInv'
  BY <1>1 DEF ErrorInv
<1> QED
  BY <1>6, <1>7, <1>8, <1>9 DEF ParserInv

\* What the parser says of a frame is right.
LEMMA VerdictRight ==
  ASSUME NEW c \in Nat, Agrees(c), ~frame_header_parsed, ~is_web_transport, Value(c) \in Nat,
         NEW type, type = Value(c), NEW n, PayloadLength(c) = n, n \in Nat
  PROVE  /\ Verdict(type, n) = "none" =>
              InOrder(c) /\ (Value(c) = FrameHeader => PayloadLength(c) <= MaxBlock)
         /\ Verdict(type, n) \in {"unexpected", "protocol"} => ~InOrder(c)
         /\ Verdict(type, n) # "frame"
<1> DEFINE H == FramesOf(FrameHeader, c)
<1> DEFINE D == FramesOf(FrameData, c)
<1>1. /\ header_found <=> H # {}
      /\ trailer_found <=> \E q, r \in H : q # r
      /\ data_found <=> D # {}
  BY DEF Agrees
<1>2. DataAllowed <=> \E h \in H : H = {h}
  <2> HIDE DEF H, D
  <2> QED
    BY <1>1 DEF DataAllowed
<1>3. HeadersAllowed <=> H = {} \/ \E h \in H : H = {h} /\ D # {}
  <2> HIDE DEF H, D
  <2> QED
    BY <1>1 DEF HeadersAllowed
<1>4. InOrder(c) = CASE Value(c) = FrameData -> DataAllowed
                     [] Value(c) = FrameHeader -> HeadersAllowed
                     [] Value(c) = FrameWebtransport -> ~header_found
                     [] OTHER -> Value(c) \notin {FrameSettings, FrameCancelPush, FrameGoaway,
                                                  FrameMaxPushId}
  <2>1. ~header_found <=> H = {}
    BY <1>1
  <2> HIDE DEF H, D
  <2>2. InOrder(c) = CASE Value(c) = FrameData -> \E h \in H : H = {h}
                     [] Value(c) = FrameHeader -> H = {} \/ \E h \in H : H = {h} /\ D # {}
                     [] Value(c) = FrameWebtransport -> H = {}
                     [] OTHER -> Value(c) \notin {FrameSettings, FrameCancelPush, FrameGoaway,
                                                  FrameMaxPushId}
    BY Zenon DEF InOrder, H, D
  <2>3. (DataAllowed = \E h \in H : H = {h}) /\ ((~header_found) = (H = {}))
        /\ (HeadersAllowed = (H = {} \/ \E h \in H : H = {h} /\ D # {}))
    BY <1>2, <1>3, <2>1 DEF DataAllowed, HeadersAllowed
  <2> QED
    BY <2>2, <2>3, Zenon
<1> HIDE DEF H, D
<1> USE DEF FrameData, FrameHeader, FrameWebtransport, FrameSettings, FrameCancelPush,
           FrameGoaway, FrameMaxPushId
<1>5. CASE type = FrameData
  BY <1>4, <1>5 DEF Verdict
<1>6. CASE type = FrameHeader
  BY <1>4, <1>6, MaxBlockAssumption DEF Verdict
<1>7. CASE type = FrameWebtransport
  <2>1. type = 65 /\ Value(c) = 65
    BY <1>7
  <2>2. InOrder(c) <=> ~header_found
    <3>1. InOrder(c) = (FramesOf(FrameHeader, c) = {})
      BY <2>1 DEF InOrder
    <3>2. header_found <=> FramesOf(FrameHeader, c) # {}
      BY <1>1 DEF H
    <3> QED
      BY <3>1, <3>2
  <2>3. header_found => Verdict(type, n) = "unexpected"
    BY <2>1 DEF Verdict
  <2>4. ~header_found => Verdict(type, n) = "none"
    BY <2>1 DEF Verdict
  <2> QED
    BY <2>1, <2>2, <2>3, <2>4
<1>8. CASE type \notin {FrameData, FrameHeader, FrameWebtransport}
  BY <1>4, <1>8 DEF Verdict
<1> QED
  BY <1>5, <1>6, <1>7, <1>8

LEMMA WholeHeaderStep ==
  ASSUME ParserInv, WholeHeader
  PROVE  ParserInv'
<1>1. /\ Busy /\ ~frame_header_parsed /\ error = "none"
      /\ hand >= LengthAt /\ frame_header_read + Rest >= HeaderBytes
      /\ current_frame_type' = content[TypeAt].value
      /\ current_frame_read' = 0 /\ frame_header_parsed' = TRUE
      /\ frame_header_read' = HeaderBytes /\ at' = TypeAt + HeaderBytes
      /\ error' = Verdict(content[TypeAt].value, content[LengthAt].value)
      /\ UNCHANGED <<content, hand, data_found, trailer_found, delivered>>
  BY DEF WholeHeader, Busy, chunkVars
<1>2. PICK c \in FrameStarts :
        /\ c = TypeAt /\ Fits /\ c \in Nat /\ Boundary(c) /\ Agrees(c) /\ c <= at
        /\ at = c + frame_header_read /\ at < PayloadAt(c) /\ ~is_web_transport
        /\ content[c].value = Value(c) /\ LengthAt = c + Width(c)
        /\ LengthAt <= Length => /\ PayloadAt(c) = c + HeaderBytes
                                 /\ content[LengthAt].value = PayloadLength(c)
  BY <1>1, InHeader
<1>3. /\ at \in Nat \ {0} /\ hand \in Nat /\ hand \in 0..Length /\ hand <= Length /\ Length \in Nat
      /\ frame_header_read \in Nat /\ Rest = hand - at + 1 /\ Rest \in Nat /\ Rest > 0
  BY <1>1, LengthAssumption DEF ParserInv, ParserType, Busy, Rest
<1>4. /\ PayloadAt(c) \in Nat /\ PayloadAt(c) > c + Width(c) /\ Width(c) \in Nat /\ Value(c) \in Nat
      /\ PayloadLength(c) \in Nat /\ EndOf(c) = PayloadAt(c) + PayloadLength(c)
  BY <1>2, StartFacts
<1>5. PayloadAt(c) = c + HeaderBytes /\ content[LengthAt].value = PayloadLength(c)
  <2>1. LengthAt <= Length
    BY <1>1, <1>2, <1>3, <1>4
  <2> QED
    BY <1>2, <2>1
<1>6. /\ at' = PayloadAt(c) /\ PayloadAt(c) <= hand + 1 /\ at <= PayloadAt(c)
      /\ HeaderBytes \in Nat
  <2>1. HeaderBytes = content[TypeAt].width + content[LengthAt].width
    BY DEF HeaderBytes
  <2>2. HeaderBytes \in Nat
    <3>1. LengthAt \in 1..Length /\ TypeAt \in 1..Length
      BY <1>1, <1>2, <1>3, <1>4, StartsFacts
    <3>2. content[LengthAt].width \in Nat /\ content[TypeAt].width \in Nat
      BY <1>2, <3>1, ContentsAssumption DEF Fits
    <3> QED
      BY <2>1, <3>2
  <2> QED
    BY <1>1, <1>2, <1>3, <1>4, <1>5, <2>2
<1>7. current_frame_type' = Value(c) /\ error' = Verdict(Value(c), PayloadLength(c))
  BY <1>1, <1>2, <1>5
<1>8. /\ error' = "none" =>
           InOrder(c) /\ (Value(c) = FrameHeader => PayloadLength(c) <= MaxBlock)
      /\ error' \in {"unexpected", "protocol"} => ~InOrder(c)
      /\ error' # "frame"
  BY <1>1, <1>2, <1>4, <1>7, VerdictRight
<1>9. \/ /\ is_web_transport' = TRUE /\ header_found' = TRUE /\ current_frame_length' = 0
         /\ Value(c) = FrameWebtransport /\ error' = "none"
      \/ /\ is_web_transport' = FALSE /\ header_found' = header_found
         /\ current_frame_length' = PayloadLength(c)
         /\ error' = "none" => Value(c) # FrameWebtransport
  <2>1. is_web_transport = FALSE
    BY <1>2 DEF ParserInv, ParserType
  <2>2. CASE current_frame_type' = FrameWebtransport /\ error' = "none"
    BY <1>7, <2>2 DEF WholeHeader
  <2>3. CASE ~(current_frame_type' = FrameWebtransport /\ error' = "none")
    BY <1>5, <1>7, <2>1, <2>3 DEF WholeHeader
  <2> QED
    BY <2>2, <2>3
<1>10. ParserType'
  <2>1. at' \in Nat \ {0} /\ at' <= hand' + 1 /\ hand' \in 0..Length
    <3>1. PayloadAt(c) \in Nat \ {0}
      BY <1>3, <1>4, <1>6
    <3> QED
      BY <1>1, <1>3, <1>6, <3>1
  <2>2. /\ frame_header_read' \in Nat /\ current_frame_type' \in Nat
        /\ current_frame_length' \in Nat /\ current_frame_read' \in Nat
    BY <1>1, <1>4, <1>6, <1>7, <1>9
  <2>3. /\ content' \in Contents /\ delivered' \in Seq(Nat)
        /\ frame_header_parsed' \in BOOLEAN /\ data_found' \in BOOLEAN
        /\ trailer_found' \in BOOLEAN
    BY <1>1 DEF ParserInv, ParserType
  <2>4. header_found' \in BOOLEAN /\ is_web_transport' \in BOOLEAN
    BY <1>9 DEF ParserInv, ParserType
  <2> QED
    BY <2>1, <2>2, <2>3, <2>4 DEF ParserType
<1>11. /\ FrameStarts' = FrameStarts /\ Boundary(c)' = Boundary(c)
       /\ \A q : /\ Value(q)' = Value(q) /\ InOrder(q)' = InOrder(q)
                 /\ PayloadAt(q)' = PayloadAt(q) /\ PayloadLength(q)' = PayloadLength(q)
       /\ \A q, n : FramesOf(q, n)' = FramesOf(q, n) /\ Decodes(q, n)' = Decodes(q, n)
  BY <1>1, <1>3, ContentFixed
<1>12. At(c)'
  <2>1. PICK a \in Nat : a = at' /\ a = PayloadAt(c)
    BY <1>4, <1>6
  <2>2. a = PayloadAt(c) + 0 /\ PayloadAt(c) <= a /\ 0 <= PayloadLength(c)
    BY <1>4, <2>1
  <2> QED
    BY <1>1, <1>7, <1>9, <1>11, <2>1, <2>2 DEF At
<1>13. ASSUME error' = "none"
       PROVE  Agrees(c)'
  <2>1. \A q \in FrameStarts : q < c \/ q = c =>
          InOrder(q) /\ (Value(q) = FrameHeader => PayloadLength(q) <= MaxBlock)
    BY <1>2, <1>8, <1>13 DEF Agrees
  <2>2. Value(c) = FrameWebtransport => FramesOf(FrameHeader, c) = {}
    BY <1>8, <1>13 DEF InOrder, FrameWebtransport, FrameData, FrameHeader
  <2>3. /\ header_found' <=> is_web_transport' \/ FramesOf(FrameHeader, c) # {}
        /\ is_web_transport' => FramesOf(FrameHeader, c) = {}
        /\ is_web_transport' <=> Value(c) = FrameWebtransport
    BY <1>2, <1>9, <1>13, <2>2 DEF Agrees
  <2> QED
    BY <1>1, <1>2, <1>11, <2>1, <2>3 DEF Agrees
<1>14. DataInv'
  <2>1. at' \in Nat /\ at <= at' /\ at' <= PayloadAt(TypeAt)
    BY <1>2, <1>4, <1>6
  <2> QED
    BY <1>1, <2>1, HeaderData
<1>15. ErrorInv'
  <2>1. c \in Read'
    <3>1. PayloadAt(c)' <= at'
      BY <1>4, <1>6, <1>11
    <3> QED
      BY <1>11, <3>1 DEF Read
  <2> QED
    BY <1>8, <1>11, <2>1 DEF ErrorInv
<1> QED
  BY <1>2, <1>10, <1>11, <1>12, <1>13, <1>14, <1>15 DEF ParserInv, FrameInv

\* One frame further, the frame itself counts as one before.
LEMMA OneMore ==
  ASSUME Fits, NEW c \in FrameStarts, Value(c) # FrameWebtransport, NEW type
  PROVE  /\ FramesOf(type, EndOf(c)) =
              IF Value(c) = type THEN FramesOf(type, c) \cup {c} ELSE FramesOf(type, c)
         /\ c \notin FramesOf(type, c)
<1>1. \A q \in FrameStarts : q < EndOf(c) <=> q < c \/ q = c
  BY NextFrame
<1>2. c \in Nat /\ ~(c < c)
  BY StartFacts
<1> QED
  BY <1>1, <1>2 DEF FramesOf

\* A frame that is over leaves its mark.
LEMMA FrameOver ==
  ASSUME Fits, NEW c \in FrameStarts, Agrees(c), frame_header_parsed, ~is_web_transport,
         UNCHANGED <<content, is_web_transport>>, ~frame_header_parsed',
         header_found' <=> header_found \/ Value(c) = FrameHeader,
         trailer_found' <=> trailer_found \/ (header_found /\ Value(c) = FrameHeader),
         data_found' <=> data_found \/ Value(c) = FrameData,
         Value(c) = FrameHeader => Decodes(PayloadAt(c), PayloadLength(c))
  PROVE  Agrees(EndOf(c))'
<1> DEFINE e == EndOf(c)
<1>1. Value(c) # FrameWebtransport /\ InOrder(c) /\ ~is_web_transport'
      /\ (Value(c) = FrameHeader => PayloadLength(c) <= MaxBlock)
  BY DEF Agrees
<1>2. \A q \in FrameStarts : q < e <=> q < c \/ q = c
  BY <1>1, NextFrame
<1>3. /\ FrameStarts' = FrameStarts
      /\ \A q : /\ Value(q)' = Value(q) /\ InOrder(q)' = InOrder(q) /\ EndOf(q)' = EndOf(q)
                /\ PayloadAt(q)' = PayloadAt(q) /\ PayloadLength(q)' = PayloadLength(q)
      /\ \A q, n : FramesOf(q, n)' = FramesOf(q, n) /\ Decodes(q, n)' = Decodes(q, n)
  BY ContentFixed DEF Fits
<1>4. header_found' <=> FramesOf(FrameHeader, e) # {}
  <2>1. header_found <=> FramesOf(FrameHeader, c) # {}
    BY DEF Agrees
  <2> QED
    BY <1>1, <2>1, OneMore
<1>5. trailer_found' <=> \E q, r \in FramesOf(FrameHeader, e) : q # r
  <2>1. /\ header_found <=> FramesOf(FrameHeader, c) # {}
        /\ trailer_found <=> \E q, r \in FramesOf(FrameHeader, c) : q # r
    BY DEF Agrees
  <2>2. CASE Value(c) = FrameHeader
    <3>1. FramesOf(FrameHeader, e) = FramesOf(FrameHeader, c) \cup {c}
          /\ c \notin FramesOf(FrameHeader, c)
      BY <1>1, <2>2, OneMore
    <3> HIDE DEF e
    <3> QED
      BY <2>1, <2>2, <3>1
  <2>3. CASE Value(c) # FrameHeader
    <3>1. FramesOf(FrameHeader, e) = FramesOf(FrameHeader, c)
      BY <1>1, <2>3, OneMore
    <3> HIDE DEF e
    <3> QED
      BY <2>1, <2>3, <3>1
  <2> QED
    BY <2>2, <2>3
<1>6. data_found' <=> FramesOf(FrameData, e) # {}
  <2>1. data_found <=> FramesOf(FrameData, c) # {}
    BY DEF Agrees
  <2> QED
    BY <1>1, <2>1, OneMore
<1>7. /\ \A q \in FrameStarts : q < e =>
           InOrder(q) /\ (Value(q) = FrameHeader => PayloadLength(q) <= MaxBlock)
      /\ \A q \in FrameStarts : q < e /\ Value(q) = FrameHeader =>
           Decodes(PayloadAt(q), PayloadLength(q))
  <2> HIDE DEF e
  <2> QED
    BY <1>1, <1>2 DEF Agrees
<1>8. EndOf(c)' = e
  BY <1>3
<1> HIDE DEF e
<1> QED
  BY <1>1, <1>3, <1>4, <1>5, <1>6, <1>7, <1>8 DEF Agrees

\* A frame that is not over has not left any.
LEMMA FrameGoesOn ==
  ASSUME Length \in Nat, NEW c, Agrees(c),
         UNCHANGED <<content, frame_header_parsed, is_web_transport, header_found,
                     trailer_found, data_found>>
  PROVE  Agrees(c)'
<1>1. /\ FrameStarts' = FrameStarts
      /\ \A q : /\ Value(q)' = Value(q) /\ InOrder(q)' = InOrder(q) /\ EndOf(q)' = EndOf(q)
                /\ PayloadAt(q)' = PayloadAt(q) /\ PayloadLength(q)' = PayloadLength(q)
      /\ \A q, n : FramesOf(q, n)' = FramesOf(q, n) /\ Decodes(q, n)' = Decodes(q, n)
  BY ContentFixed
<1> QED
  BY <1>1 DEF Agrees

\* The parser goes on within a frame, up to its end at most.
LEMMA InPayload ==
  ASSUME ParserInv, Busy, frame_header_parsed, ~is_web_transport,
         NEW c \in FrameStarts, Boundary(c), At(c),
         UNCHANGED <<chunkVars, current_frame_type, current_frame_length, is_web_transport>>,
         at' = at + Available, current_frame_read' = current_frame_read + Available,
         AfterFrame
  PROVE  /\ at' \in Nat \ {0} /\ current_frame_read' \in Nat /\ frame_header_parsed' \in BOOLEAN
         /\ frame_header_read' \in Nat /\ at' <= hand' + 1 /\ Available \in Nat
         /\ at \in Nat \ {0}
         /\ FrameComplete =>
              /\ at' = EndOf(c) /\ ~frame_header_parsed'
              /\ Value(c) # FrameWebtransport => Boundary(EndOf(c))' /\ At(EndOf(c))'
         /\ ~FrameComplete =>
              frame_header_parsed' = frame_header_parsed /\ Boundary(c)' /\ At(c)'
         /\ \A b \in at..(at + Available - 1) :
              b \in Nat /\ c <= b /\ PayloadAt(c) <= b /\ b < EndOf(c)
<1>1. Fits /\ Length \in Nat
  BY LengthAssumption DEF Fits, ParserInv, ParserType
<1>2. /\ at \in Nat \ {0} /\ hand \in Nat /\ hand <= Length /\ at <= hand
      /\ frame_header_read \in Nat /\ current_frame_read \in Nat /\ current_frame_length \in Nat
      /\ frame_header_parsed \in BOOLEAN
  BY <1>1 DEF ParserInv, ParserType, Busy, Rest
<1>3. /\ c \in Nat /\ PayloadAt(c) \in Nat /\ PayloadLength(c) \in Nat /\ EndOf(c) \in Nat
      /\ EndOf(c) = PayloadAt(c) + PayloadLength(c) /\ c < PayloadAt(c) /\ c < EndOf(c)
  BY <1>1, StartFacts
<1>4. /\ current_frame_length = PayloadLength(c)
      /\ at = PayloadAt(c) + current_frame_read /\ current_frame_read <= current_frame_length
      /\ current_frame_type = Value(c)
  BY DEF At
<1>5. /\ Available \in Nat /\ at + Available <= hand + 1
      /\ current_frame_read + Available <= current_frame_length
  BY <1>2, <1>4 DEF Available, Smaller, Rest
<1>6. PICK v \in Nat : v = Available
  BY <1>5
<1>7. /\ v \in Nat /\ at + v \in Nat \ {0} /\ at + v <= hand + 1
      /\ current_frame_read + v \in Nat /\ at + v = PayloadAt(c) + (current_frame_read + v)
      /\ current_frame_read + v <= current_frame_length
      /\ PayloadAt(c) <= at + v
  BY <1>2, <1>3, <1>4, <1>5, <1>6
<1>8. /\ at' \in Nat \ {0} /\ current_frame_read' \in Nat /\ at' <= hand' + 1
      /\ frame_header_parsed' \in BOOLEAN /\ frame_header_read' \in Nat
  <2>1. hand' = hand /\ at' = at + v /\ current_frame_read' = current_frame_read + v
    BY <1>6 DEF chunkVars
  <2>2. \/ frame_header_parsed' = FALSE /\ frame_header_read' = 0
        \/ frame_header_parsed' = frame_header_parsed /\ frame_header_read' = frame_header_read
    BY Zenon DEF AfterFrame, headVars
  <2>3. frame_header_parsed' \in BOOLEAN
    BY <1>2, <2>2, Zenon
  <2>4. frame_header_read' \in {0, frame_header_read}
    BY <2>2, Zenon
  <2>5. frame_header_read' \in Nat
    BY <1>2, <2>4
  <2> QED
    BY <1>7, <2>1, <2>3, <2>5
<1>9. /\ Boundary(c)' /\ PayloadAt(c)' = PayloadAt(c) /\ PayloadLength(c)' = PayloadLength(c)
      /\ Value(c)' = Value(c) /\ FrameStarts' = FrameStarts
      /\ PayloadAt(EndOf(c))' = PayloadAt(EndOf(c)') /\ EndOf(c)' = EndOf(c)
      /\ \A q : PayloadAt(q)' = PayloadAt(q) /\ Boundary(q)' = Boundary(q)
  BY <1>1, ContentFixed DEF chunkVars
<1>10. ASSUME FrameComplete
       PROVE  /\ at' = EndOf(c) /\ ~frame_header_parsed'
              /\ Value(c) # FrameWebtransport => Boundary(EndOf(c))' /\ At(EndOf(c))'
  <2>1. current_frame_read + v = current_frame_length
    BY <1>2, <1>6, <1>7, <1>10 DEF FrameComplete
  <2>2. at + v = EndOf(c)
    BY <1>2, <1>3, <1>4, <1>7, <2>1
  <2>3. at' = EndOf(c) /\ ~frame_header_parsed' /\ frame_header_read' = 0
    BY <1>6, <1>10, <2>2 DEF AfterFrame
  <2>4. ASSUME Value(c) # FrameWebtransport
        PROVE  Boundary(EndOf(c))' /\ At(EndOf(c))'
    <3>1. PICK e \in Nat : e = EndOf(c) /\ e # 0
      BY <1>3
    <3>2. Boundary(e)
      BY <1>1, <2>4, <3>1, NextFrame
    <3>3. e < PayloadAt(e) /\ e = e + 0
      BY <1>1, <3>1, FrameFacts
    <3>4. at' = e + frame_header_read' /\ at' < PayloadAt(e)
      BY <2>3, <3>1, <3>3
    <3>5. At(e)' /\ Boundary(e)'
      BY <1>9, <2>3, <3>2, <3>4 DEF At
    <3> QED
      BY <1>9, <3>1, <3>5
  <2> QED
    BY <2>3, <2>4
<1>11. ASSUME ~FrameComplete
       PROVE  frame_header_parsed' = frame_header_parsed /\ Boundary(c)' /\ At(c)'
  <2>1. frame_header_parsed' = frame_header_parsed
    BY <1>11 DEF AfterFrame, headVars
  <2>2. /\ PayloadAt(c) <= at' /\ at' = PayloadAt(c) + current_frame_read'
        /\ current_frame_read' <= current_frame_length
    BY <1>6, <1>7
  <2>3. At(c)'
    BY <1>4, <1>9, <2>1, <2>2 DEF At
  <2> QED
    BY <1>9, <2>1, <2>3
<1>12. \A b \in at..(at + Available - 1) :
         b \in Nat /\ c <= b /\ PayloadAt(c) <= b /\ b < EndOf(c)
  <2>1. at + v <= EndOf(c) /\ PayloadAt(c) <= at
    BY <1>2, <1>3, <1>4, <1>7
  <2>2. \A b \in at..(at + v - 1) : b \in Nat /\ c <= b /\ PayloadAt(c) <= b /\ b < EndOf(c)
    BY <1>2, <1>3, <1>7, <2>1
  <2> QED
    BY <1>6, <2>2
<1> QED
  BY <1>2, <1>5, <1>8, <1>10, <1>11, <1>12

LEMMA DataStep ==
  ASSUME ParserInv, Data
  PROVE  ParserInv'
<1>1. /\ Busy /\ frame_header_parsed /\ ~is_web_transport /\ error = "none"
      /\ current_frame_type = FrameData
      /\ at' = at + Available /\ current_frame_read' = current_frame_read + Available
      /\ AfterFrame /\ data_found' = (data_found \/ FrameComplete)
      /\ delivered' = delivered \o [i \in 1..Available |-> at + i - 1]
      /\ UNCHANGED <<chunkVars, current_frame_type, current_frame_length,
                     header_found, trailer_found, is_web_transport, error>>
  BY DEF Data, InFrame, Busy
<1>2. Fits /\ Length \in Nat
  BY LengthAssumption DEF Fits, ParserInv, ParserType
<1>3. PICK c \in FrameStarts : c \in Nat /\ Boundary(c) /\ At(c) /\ Agrees(c)
  BY <1>1 DEF ParserInv, FrameInv, At
<1>4. /\ at' \in Nat \ {0} /\ current_frame_read' \in Nat /\ frame_header_parsed' \in BOOLEAN
      /\ frame_header_read' \in Nat /\ at' <= hand' + 1 /\ Available \in Nat
      /\ FrameComplete =>
           /\ at' = EndOf(c) /\ ~frame_header_parsed'
           /\ Value(c) # FrameWebtransport => Boundary(EndOf(c))' /\ At(EndOf(c))'
      /\ ~FrameComplete =>
           frame_header_parsed' = frame_header_parsed /\ Boundary(c)' /\ At(c)'
      /\ \A b \in at..(at + Available - 1) :
           b \in Nat /\ c <= b /\ PayloadAt(c) <= b /\ b < EndOf(c)
  BY <1>1, <1>3, InPayload
<1>5. Value(c) = FrameData /\ Value(c) # FrameWebtransport /\ Value(c) # FrameHeader /\ InOrder(c)
  BY <1>1, <1>3 DEF At, Agrees, FrameData, FrameWebtransport, FrameHeader
<1>6. DataInv' /\ delivered' \in Seq(Nat)
  <2>1. PICK v \in Nat : v = Available
    BY <1>4
  <2>2. \A b \in at..(at + v - 1) : IsData(b)
    BY <1>2, <1>4, <1>5, <2>1, DataOfFrame
  <2>3. at' = at + v /\ delivered' = delivered \o [i \in 1..v |-> at + i - 1] /\ content' = content
    BY <1>1, <2>1 DEF chunkVars
  <2> QED
    BY <2>2, <2>3, NewData DEF ParserInv
<1>7. ParserType'
  <2>1. data_found' \in BOOLEAN
    BY <1>1
  <2> QED
    BY <1>1, <1>4, <1>6, <2>1 DEF ParserInv, ParserType, chunkVars
<1>8. FrameInv'
  <2>1. CASE FrameComplete
    <3>1. data_found' <=> data_found \/ Value(c) = FrameData
      BY <1>1, <1>5, <2>1
    <3>2. Agrees(EndOf(c))'
      BY <1>1, <1>2, <1>3, <1>4, <1>5, <2>1, <3>1, FrameOver DEF chunkVars
    <3>3. PICK e \in Nat : e = EndOf(c)' /\ e = EndOf(c)
      BY <1>1, <1>2, <1>3, StartFacts, ContentFixed DEF chunkVars
    <3> QED
      BY <1>4, <1>5, <2>1, <3>2, <3>3 DEF FrameInv
  <2>2. CASE ~FrameComplete
    <3>1. data_found' = data_found
      BY <1>1, <2>2 DEF ParserInv, ParserType
    <3>2. Agrees(c)'
      BY <1>1, <1>2, <1>3, <1>4, <2>2, <3>1, FrameGoesOn DEF chunkVars
    <3> QED
      BY <1>3, <1>4, <2>2, <3>2 DEF FrameInv
  <2> QED
    BY <2>1, <2>2
<1>9. ErrorInv'
  BY <1>1 DEF ErrorInv
<1> QED
  BY <1>6, <1>7, <1>8, <1>9 DEF ParserInv

LEMMA SkipStep ==
  ASSUME ParserInv, Skip
  PROVE  ParserInv'
<1>1. /\ Busy /\ frame_header_parsed /\ ~is_web_transport /\ error = "none"
      /\ current_frame_type # FrameData /\ current_frame_type # FrameHeader
      /\ at' = at + Available /\ current_frame_read' = current_frame_read + Available
      /\ AfterFrame
      /\ UNCHANGED <<chunkVars, current_frame_type, current_frame_length, foundVars, error,
                     delivered>>
  BY DEF Skip, InFrame, Busy
<1>2. Fits /\ Length \in Nat
  BY LengthAssumption DEF Fits, ParserInv, ParserType
<1>3. PICK c \in FrameStarts : c \in Nat /\ Boundary(c) /\ At(c) /\ Agrees(c)
  BY <1>1 DEF ParserInv, FrameInv, At
<1>4. /\ at' \in Nat \ {0} /\ current_frame_read' \in Nat /\ frame_header_parsed' \in BOOLEAN
      /\ frame_header_read' \in Nat /\ at' <= hand' + 1 /\ Available \in Nat /\ at \in Nat \ {0}
      /\ FrameComplete =>
           /\ at' = EndOf(c) /\ ~frame_header_parsed'
           /\ Value(c) # FrameWebtransport => Boundary(EndOf(c))' /\ At(EndOf(c))'
      /\ ~FrameComplete =>
           frame_header_parsed' = frame_header_parsed /\ Boundary(c)' /\ At(c)'
      /\ \A b \in at..(at + Available - 1) :
           b \in Nat /\ c <= b /\ PayloadAt(c) <= b /\ b < EndOf(c)
  BY <1>1, <1>3, InPayload DEF foundVars
<1>5. Value(c) # FrameData /\ Value(c) # FrameWebtransport /\ Value(c) # FrameHeader
  BY <1>1, <1>3 DEF At, Agrees
<1>6. DataInv'
  <2>1. PICK v \in Nat : v = Available
    BY <1>4
  <2>2. \A b \in at..(at + v - 1) : ~IsData(b)
    BY <1>2, <1>4, <1>5, <2>1, DataOfFrame
  <2>3. PICK a \in Nat : a = at' /\ a = at + v
    BY <1>1, <1>4, <2>1
  <2>4. at <= a /\ \A b \in at..(a - 1) : ~IsData(b)
    BY <1>4, <2>1, <2>2, <2>3
  <2> QED
    BY <1>1, <2>3, <2>4, NoData DEF ParserInv, chunkVars
<1>7. ParserType'
  BY <1>1, <1>4 DEF ParserInv, ParserType, chunkVars, foundVars
<1>8. FrameInv'
  <2>1. CASE FrameComplete
    <3>1. Agrees(EndOf(c))'
      BY <1>1, <1>2, <1>3, <1>4, <1>5, <2>1, FrameOver DEF chunkVars, foundVars
    <3>2. PICK e \in Nat : e = EndOf(c)' /\ e = EndOf(c)
      BY <1>1, <1>2, <1>3, StartFacts, ContentFixed DEF chunkVars
    <3> QED
      BY <1>4, <1>5, <2>1, <3>1, <3>2 DEF FrameInv
  <2>2. CASE ~FrameComplete
    <3>1. Agrees(c)'
      BY <1>1, <1>2, <1>3, <1>4, <2>2, FrameGoesOn DEF chunkVars, foundVars
    <3> QED
      BY <1>3, <1>4, <2>2, <3>1 DEF FrameInv
  <2> QED
    BY <2>1, <2>2
<1>9. ErrorInv'
  BY <1>1 DEF ErrorInv
<1> QED
  BY <1>6, <1>7, <1>8, <1>9 DEF ParserInv

LEMMA HeadersStep ==
  ASSUME ParserInv, Headers
  PROVE  ParserInv'
<1>1. /\ Busy /\ frame_header_parsed /\ ~is_web_transport /\ error = "none"
      /\ current_frame_type = FrameHeader
      /\ at' = at + Available /\ current_frame_read' = current_frame_read + Available
      /\ AfterFrame
      /\ UNCHANGED <<chunkVars, current_frame_type, current_frame_length, data_found,
                     is_web_transport, delivered>>
  BY DEF Headers, InFrame, Busy
<1>2. Fits /\ Length \in Nat
  BY LengthAssumption DEF Fits, ParserInv, ParserType
<1>3. PICK c \in FrameStarts : c \in Nat /\ Boundary(c) /\ At(c) /\ Agrees(c)
  BY <1>1 DEF ParserInv, FrameInv, At
<1>4. /\ at' \in Nat \ {0} /\ current_frame_read' \in Nat /\ frame_header_parsed' \in BOOLEAN
      /\ frame_header_read' \in Nat /\ at' <= hand' + 1 /\ Available \in Nat /\ at \in Nat \ {0}
      /\ FrameComplete =>
           /\ at' = EndOf(c) /\ ~frame_header_parsed'
           /\ Value(c) # FrameWebtransport => Boundary(EndOf(c))' /\ At(EndOf(c))'
      /\ ~FrameComplete =>
           frame_header_parsed' = frame_header_parsed /\ Boundary(c)' /\ At(c)'
      /\ \A b \in at..(at + Available - 1) :
           b \in Nat /\ c <= b /\ PayloadAt(c) <= b /\ b < EndOf(c)
  BY <1>1, <1>3, InPayload
<1>5. /\ Value(c) # FrameData /\ Value(c) # FrameWebtransport /\ Value(c) = FrameHeader
      /\ current_frame_length = PayloadLength(c) /\ InOrder(c)
  BY <1>1, <1>3 DEF At, Agrees, FrameData, FrameWebtransport, FrameHeader
<1>6. DataInv'
  <2>1. PICK v \in Nat : v = Available
    BY <1>4
  <2>2. \A b \in at..(at + v - 1) : ~IsData(b)
    BY <1>2, <1>4, <1>5, <2>1, DataOfFrame
  <2>3. PICK a \in Nat : a = at' /\ a = at + v
    BY <1>1, <1>4, <2>1
  <2>4. at <= a /\ \A b \in at..(a - 1) : ~IsData(b)
    BY <1>4, <2>1, <2>2, <2>3
  <2> QED
    BY <1>1, <2>3, <2>4, NoData DEF ParserInv, chunkVars
<1>7. ~trailer_found
  <2> DEFINE H == FramesOf(FrameHeader, c)
  <2>1. H = {} \/ \E h \in H : H = {h}
    BY <1>5 DEF InOrder, FrameHeader, FrameData
  <2>2. trailer_found <=> \E q, r \in H : q # r
    BY <1>3 DEF Agrees
  <2> HIDE DEF H
  <2> QED
    BY <2>1, <2>2
<1>8. FrameComplete =>
        /\ trailer_found' = header_found /\ header_found' = TRUE
        /\ error' = IF Decodes(at' - current_frame_length, current_frame_length)
                    THEN "none" ELSE "frame"
  BY Zenon DEF Headers
<1>9. ~FrameComplete => UNCHANGED <<header_found, trailer_found, error>>
  BY DEF Headers
<1>10. ParserType'
  <2>1. header_found' \in BOOLEAN /\ trailer_found' \in BOOLEAN
    BY <1>8, <1>9 DEF ParserInv, ParserType
  <2> QED
    BY <1>1, <1>4, <2>1 DEF ParserInv, ParserType, chunkVars
<1>11. CASE FrameComplete
  <2>1. /\ PayloadAt(c) \in Nat /\ PayloadLength(c) \in Nat
        /\ EndOf(c) = PayloadAt(c) + PayloadLength(c) /\ PayloadAt(c) <= EndOf(c)
    BY <1>2, <1>3, StartFacts
  <2>2. at' - current_frame_length = PayloadAt(c)
    <3>1. at' - current_frame_length = EndOf(c) - PayloadLength(c)
      BY <1>4, <1>5, <1>11, Zenon
    <3>2. EndOf(c) - PayloadLength(c) = PayloadAt(c)
      BY <2>1
    <3> QED
      BY <3>1, <3>2, Zenon
  <2>3. error' = IF Decodes(PayloadAt(c), PayloadLength(c)) THEN "none" ELSE "frame"
    BY <1>5, <1>8, <1>11, <2>2, Zenon
  <2>4. FrameInv'
    <3>1. PICK e \in Nat : e = EndOf(c)' /\ e = EndOf(c)
      BY <1>1, <1>2, <1>3, StartFacts, ContentFixed DEF chunkVars
    <3>2. Boundary(e)' /\ At(e)'
      BY <1>4, <1>5, <1>11, <3>1
    <3>3. ASSUME error' = "none" PROVE Agrees(e)'
      <4>1. Decodes(PayloadAt(c), PayloadLength(c))
        BY <2>3, <3>3
      <4>2. /\ header_found' <=> header_found \/ Value(c) = FrameHeader
            /\ trailer_found' <=> trailer_found \/ (header_found /\ Value(c) = FrameHeader)
            /\ data_found' <=> data_found \/ Value(c) = FrameData
        BY <1>1, <1>5, <1>7, <1>8, <1>11
      <4>3. Agrees(EndOf(c))'
        BY <1>1, <1>2, <1>3, <1>4, <1>11, <4>1, <4>2, FrameOver DEF chunkVars
      <4> QED
        BY <3>1, <4>3
    <3> QED
      BY <3>2, <3>3 DEF FrameInv
  <2>5. ErrorInv'
    <3>1. ASSUME error' = "frame" PROVE c \in Broken'
      <4>1. /\ FrameStarts' = FrameStarts
            /\ \A q : /\ Value(q)' = Value(q) /\ EndOf(q)' = EndOf(q)
                      /\ PayloadAt(q)' = PayloadAt(q) /\ PayloadLength(q)' = PayloadLength(q)
            /\ \A q, n : Decodes(q, n)' = Decodes(q, n)
        BY <1>1, <1>2, ContentFixed DEF chunkVars
      <4>2. ~Decodes(PayloadAt(c), PayloadLength(c)) /\ ~frame_header_parsed'
        BY <1>4, <1>11, <2>3, <3>1
      <4>3. PayloadAt(c) <= at' /\ EndOf(c) <= at'
        BY <1>4, <1>11, <2>1
      <4>4. c \in Read'
        BY <1>3, <4>1, <4>3 DEF Read
      <4> QED
        BY <1>5, <4>1, <4>2, <4>3, <4>4 DEF Broken
    <3>2. error' \in {"none", "frame"}
      BY <2>3
    <3> QED
      BY <3>1, <3>2 DEF ErrorInv
  <2> QED
    BY <1>6, <1>10, <2>4, <2>5 DEF ParserInv
<1>12. CASE ~FrameComplete
  <2>1. Agrees(c)'
    BY <1>1, <1>2, <1>3, <1>4, <1>9, <1>12, FrameGoesOn DEF chunkVars
  <2>2. FrameInv'
    BY <1>3, <1>4, <1>12, <2>1 DEF FrameInv
  <2>3. ErrorInv'
    BY <1>1, <1>9, <1>12 DEF ErrorInv
  <2> QED
    BY <1>6, <1>10, <2>2, <2>3 DEF ParserInv
<1> QED
  BY <1>11, <1>12

LEMMA PassStep ==
  ASSUME ParserInv, PassThrough
  PROVE  ParserInv'
<1>1. /\ Busy /\ frame_header_parsed /\ is_web_transport /\ error = "none"
      /\ at' = hand + 1 /\ delivered' = delivered \o [i \in 1..Rest |-> at + i - 1]
      /\ UNCHANGED <<chunkVars, headVars, frameVars, foundVars, error>>
  BY DEF PassThrough, Busy
<1>2. Fits /\ Length \in Nat
  BY LengthAssumption DEF Fits, ParserInv, ParserType
<1>3. PICK c \in FrameStarts : c \in Nat /\ Boundary(c) /\ At(c) /\ Agrees(c)
  BY <1>1 DEF ParserInv, FrameInv, At
<1>4. /\ at \in Nat \ {0} /\ hand \in Nat /\ Rest = hand - at + 1 /\ Rest \in Nat
      /\ PayloadAt(c) \in Nat /\ PayloadAt(c) <= at /\ c < PayloadAt(c) /\ hand \in 0..Length
  BY <1>1, <1>2, <1>3, StartFacts DEF ParserInv, ParserType, Busy, Rest, At
<1>5. Value(c) = FrameWebtransport /\ InOrder(c)
  BY <1>1, <1>3 DEF At, Agrees
<1>6. PICK v \in Nat : v = Rest /\ at + v = hand + 1
  BY <1>4
<1>7. DataInv' /\ delivered' \in Seq(Nat)
  <2>1. \A b \in at..(at + v - 1) : b \in Nat /\ c <= b /\ PayloadAt(c) <= b
    BY <1>3, <1>4
  <2>2. \A b \in at..(at + v - 1) : IsData(b)
    BY <1>2, <1>5, <2>1, DataOfFrame
  <2>3. at' = at + v /\ delivered' = delivered \o [i \in 1..v |-> at + i - 1] /\ content' = content
    BY <1>1, <1>6 DEF chunkVars
  <2> QED
    BY <2>2, <2>3, NewData DEF ParserInv
<1>8. hand + 1 \in Nat \ {0} /\ PayloadAt(c) <= hand + 1
  BY <1>4, <1>6
<1>9. ParserType'
  <2>1. at' \in Nat \ {0} /\ at' <= hand' + 1 /\ hand' \in 0..Length
    BY <1>1, <1>4, <1>8 DEF chunkVars
  <2> QED
    BY <1>1, <1>7, <2>1 DEF ParserInv, ParserType, chunkVars, headVars, frameVars, foundVars
<1>10. FrameInv'
  <2>1. Agrees(c)'
    BY <1>1, <1>2, <1>3, FrameGoesOn DEF chunkVars, headVars, foundVars
  <2>2. At(c)' /\ Boundary(c)'
    <3>1. /\ Boundary(c)' = Boundary(c) /\ PayloadAt(c)' = PayloadAt(c) /\ Value(c)' = Value(c)
          /\ FrameStarts' = FrameStarts
      BY <1>1, <1>2, ContentFixed DEF chunkVars
    <3> QED
      BY <1>1, <1>3, <1>5, <1>8, <3>1 DEF At, headVars, frameVars, foundVars
  <2> QED
    BY <1>3, <2>1, <2>2 DEF FrameInv
<1>11. ErrorInv'
  BY <1>1 DEF ErrorInv
<1> QED
  BY <1>7, <1>9, <1>10, <1>11 DEF ParserInv

\* The parser stays where it is, while bytes come or an error of another kind is found.
LEMMA ParserStays ==
  ASSUME ParserInv, UNCHANGED <<content, parserVars>>, hand' \in 0..Length, hand <= hand',
         error' \notin {"unexpected", "protocol", "frame"} \/ error' = error,
         error' = "none" => error = "none"
  PROVE  ParserInv'
<1> USE DEF parserVars, headVars, frameVars, foundVars
<1>1. Fits /\ Length \in Nat
  BY LengthAssumption DEF Fits, ParserInv, ParserType
<1>2. ParserType'
  <2>1. at' <= hand' + 1 /\ at' \in Nat \ {0}
    <3>1. PICK h \in 0..Length : h = hand'
      OBVIOUS
    <3>2. hand <= h
      BY <3>1
    <3>3. at \in Nat \ {0} /\ hand \in 0..Length /\ at <= hand + 1 /\ at' = at
      BY DEF ParserInv, ParserType
    <3>4. h \in Nat /\ hand \in Nat
      BY <1>1, <3>1, <3>3
    <3>5. at <= h + 1
      BY <3>2, <3>3, <3>4
    <3> QED
      BY <3>1, <3>3, <3>5
  <2> QED
    BY <2>1 DEF ParserInv, ParserType
<1>3. /\ FrameStarts' = FrameStarts
      /\ \A q : /\ Value(q)' = Value(q) /\ EndOf(q)' = EndOf(q) /\ Boundary(q)' = Boundary(q)
                /\ PayloadAt(q)' = PayloadAt(q) /\ PayloadLength(q)' = PayloadLength(q)
                /\ InOrder(q)' = InOrder(q) /\ IsData(q)' = IsData(q)
      /\ \A q, n : Decodes(q, n)' = Decodes(q, n)
  BY <1>1, ContentFixed
<1>4. FrameInv'
  <2>1. PICK c \in Nat : Boundary(c) /\ At(c) /\ (error = "none" => Agrees(c))
    BY DEF ParserInv, FrameInv
  <2>2. error' = "none" => Agrees(c)'
    BY <1>1, <2>1, FrameGoesOn
  <2>3. At(c)' /\ Boundary(c)'
    BY <1>3, <2>1 DEF At
  <2> QED
    BY <2>2, <2>3 DEF FrameInv
<1>5. DataInv'
  BY <1>3 DEF ParserInv, DataInv
<1>6. ErrorInv'
  <2>1. Read' = Read
    BY <1>3 DEF Read
  <2>2. Broken' = Broken
    BY <1>3, <2>1 DEF Broken
  <2> QED
    BY <1>3, <2>1, <2>2 DEF ParserInv, ErrorInv
<1> QED
  BY <1>2, <1>4, <1>5, <1>6 DEF ParserInv

LEMMA ParseStep ==
  ASSUME ParserInv, Parse
  PROVE  ParserInv'
<1>1. CASE NoMemory
  <2>1. UNCHANGED <<content, parserVars>> /\ hand' = hand /\ error' = "internal"
    BY <1>1 DEF NoMemory, chunkVars, parserVars
  <2>2. hand' \in 0..Length /\ hand <= hand' /\ error = "none"
    BY <1>1, <2>1, LengthAssumption DEF ParserInv, ParserType, NoMemory, InFrame, Busy
  <2> QED
    BY <2>1, <2>2, ParserStays
<1> QED
  BY <1>1, PartStep, WholeHeaderStep, PassStep, HeadersStep, DataStep, SkipStep DEF Parse
-----------------------------------------------------------------------------
(* What it comes to                                                        *)

LEMMA DataIsComplete ==
  ASSUME ParserInv
  PROVE  DataComplete
<1> DEFINE Payload(q) == IF Value(q) = FrameWebtransport THEN PayloadAt(q)..(at - 1)
                         ELSE PayloadAt(q)..Smaller(EndOf(q) - 1, at - 1)
<1> DEFINE Sources == {r \in Read : Value(r) \in {FrameData, FrameWebtransport} /\ InOrder(r)}
<1>1. Fits /\ at \in Nat \ {0} /\ delivered \in Seq(Nat) /\ Len(delivered) \in Nat
  BY LengthAssumption DEF Fits, ParserInv, ParserType
<1>2. \A q \in FrameStarts : q \in Nat \ {0} /\ PayloadAt(q) \in Nat /\ EndOf(q) \in Nat
                             /\ q < PayloadAt(q)
  BY <1>1, StartFacts
<1>3. ASSUME NEW q \in FrameStarts, NEW b
      PROVE  b \in Payload(q) <=> /\ b \in 1..(at - 1) /\ PayloadAt(q) <= b
                                  /\ Value(q) = FrameWebtransport \/ b < EndOf(q)
  BY <1>1, <1>2 DEF Smaller
<1>4. ASSUME NEW q \in FrameStarts, NEW b \in 1..(at - 1), PayloadAt(q) <= b
      PROVE  PayloadAt(q) <= at
  BY <1>1, <1>2, <1>4
<1> HIDE DEF Payload
<1>5. UNION {Payload(q) : q \in Sources} = {b \in 1..(at - 1) : IsData(b)}
  <2>1. ASSUME NEW b \in UNION {Payload(q) : q \in Sources}
        PROVE  b \in 1..(at - 1) /\ IsData(b)
    <3>1. PICK q \in Sources : b \in Payload(q)
      OBVIOUS
    <3>2. q \in FrameStarts
      BY DEF Read
    <3> QED
      BY <1>3, <3>1, <3>2 DEF IsData
  <2>2. ASSUME NEW b \in 1..(at - 1), IsData(b)
        PROVE  b \in UNION {Payload(q) : q \in Sources}
    <3>1. PICK q \in FrameStarts :
            /\ Value(q) \in {FrameData, FrameWebtransport} /\ InOrder(q)
            /\ PayloadAt(q) <= b
            /\ Value(q) = FrameWebtransport \/ b < EndOf(q)
      BY <2>2 DEF IsData
    <3>2. q \in Sources /\ b \in Payload(q)
      BY <1>3, <1>4, <3>1 DEF Read
    <3> QED
      BY <3>2
  <2> HIDE DEF Sources
  <2> QED
    BY <2>1, <2>2
<1>6. DOMAIN delivered = 1..Len(delivered)
  BY <1>1
<1> QED
  BY <1>5, <1>6, Zenon DEF DataComplete, DataInv, ParserInv, Payload, Sources

\* The frames whose headers are read are those before the one the parser is in, and that one
\* when its header is read.
LEMMA ReadBefore ==
  ASSUME ParserInv, NEW c \in Nat, Boundary(c), At(c), NEW q \in Read
  PROVE  /\ q \in FrameStarts /\ (q < c \/ (q = c /\ frame_header_parsed))
         /\ q < c => EndOf(q) <= at
<1>1. Fits /\ Length \in Nat /\ at \in Nat \ {0} /\ frame_header_read \in Nat
  BY LengthAssumption DEF Fits, ParserInv, ParserType
<1>2. q \in FrameStarts /\ PayloadAt(q) <= at
  BY DEF Read
<1>3. /\ q \in Nat \ {0} /\ q <= Length /\ PayloadAt(q) \in Nat /\ EndOf(q) \in Nat /\ q < PayloadAt(q)
      /\ Boundary(q)
  BY <1>1, <1>2, StartFacts
<1>4. c # 0
  <2>1. \A r \in FrameStarts : EndOf(r) > 0
    BY <1>1, StartFacts
  <2> QED
    BY <2>1 DEF Boundary
<1>5. /\ PayloadAt(c) \in Nat /\ PayloadAt(c) <= EndOf(c) /\ EndOf(c) \in Nat /\ c < PayloadAt(c)
      /\ PayloadLength(c) \in Nat /\ EndOf(c) = PayloadAt(c) + PayloadLength(c)
  <2>1. c \in Nat \ {0}
    BY <1>4
  <2>2. /\ PayloadAt(c) \in Nat /\ EndOf(c) \in Nat /\ c + 1 < PayloadAt(c)
        /\ PayloadLength(c) \in Nat /\ EndOf(c) = PayloadAt(c) + PayloadLength(c)
    BY <1>1, <2>1, FrameFacts
  <2> QED
    BY <2>2
<1>6. c <= at
  <2>1. CASE frame_header_parsed
    BY <1>1, <1>5, <2>1 DEF At
  <2>2. CASE ~frame_header_parsed
    BY <1>1, <2>2 DEF At
  <2> QED
    BY <2>1, <2>2
<1>7. ASSUME c < q
      PROVE  FALSE
  <2>1. c \in FrameStarts
    <3>1. c \in 1..Length
      BY <1>1, <1>3, <1>4, <1>7
    <3> QED
      BY <1>1, <3>1, StartsFacts
  <2>2. Value(c) # FrameWebtransport /\ EndOf(c) <= q
    BY <1>1, <1>3, <1>7, <2>1, Chain
  <2>3. EndOf(c) < at
    BY <1>1, <1>2, <1>3, <1>5, <2>2
  <2>4. CASE ~frame_header_parsed
    <3>1. at < PayloadAt(c)
      BY <2>4 DEF At
    <3> QED
      BY <1>1, <1>5, <2>3, <3>1
  <2>5. CASE frame_header_parsed
    <3>1. /\ at = PayloadAt(c) + current_frame_read /\ current_frame_length = PayloadLength(c)
          /\ current_frame_read <= current_frame_length
      BY <2>2, <2>5 DEF At
    <3>2. current_frame_read \in Nat
      BY DEF ParserInv, ParserType
    <3> QED
      BY <1>1, <1>5, <2>3, <3>1, <3>2
  <2> QED
    BY <2>4, <2>5
<1>8. q = c => frame_header_parsed
  <2>1. ASSUME q = c, ~frame_header_parsed PROVE FALSE
    <3>1. at < PayloadAt(c)
      BY <2>1 DEF At
    <3> QED
      BY <1>1, <1>2, <1>5, <2>1, <3>1
  <2> QED
    BY <2>1
<1>9. q < c => EndOf(q) <= at
  <2>1. ASSUME q < c PROVE EndOf(q) <= c
    BY <1>1, <1>2, <2>1, Chain
  <2> QED
    BY <1>1, <1>3, <1>6, <2>1
<1> QED
  BY <1>2, <1>3, <1>7, <1>8, <1>9

LEMMA DisorderCloses ==
  ASSUME ParserInv
  PROVE  ClosedForDisorder
<1>1. ASSUME error = "none", NEW q \in Read
      PROVE  InOrder(q) /\ q \notin Broken
  <2>1. PICK c \in Nat : Boundary(c) /\ At(c) /\ Agrees(c)
    BY <1>1 DEF ParserInv, FrameInv
  <2>2. q \in FrameStarts /\ (q < c \/ (q = c /\ frame_header_parsed))
    BY <2>1, ReadBefore
  <2>3. InOrder(q) /\ (Value(q) = FrameHeader => PayloadLength(q) <= MaxBlock)
    BY <2>1, <2>2 DEF Agrees
  <2>4. PayloadLength(q) \in Nat /\ EndOf(q) = PayloadAt(q) + PayloadLength(q)
        /\ PayloadAt(q) \in Nat /\ at \in Nat /\ current_frame_read \in Nat
    BY <2>2, LengthAssumption, StartFacts DEF Fits, ParserInv, ParserType
  <2>5. Value(q) = FrameHeader => ~(PayloadLength(q) > MaxBlock)
    BY <2>3, <2>4, MaxBlockAssumption
  <2>6. CASE q < c
    BY <2>1, <2>2, <2>3, <2>5, <2>6 DEF Agrees, Broken
  <2>7. CASE q = c /\ frame_header_parsed
    <3>1. SUFFICES ASSUME Value(c) = FrameHeader PROVE ~(EndOf(c) < at)
      BY <2>3, <2>5, <2>7 DEF Broken
    <3>2. ~is_web_transport
      BY <2>1, <3>1 DEF At, FrameHeader, FrameWebtransport, Agrees
    <3>3. /\ at = PayloadAt(c) + current_frame_read /\ current_frame_length = PayloadLength(c)
          /\ current_frame_read <= current_frame_length
      BY <2>1, <2>7, <3>2 DEF At
    <3> QED
      BY <2>4, <2>7, <3>3
  <2> QED
    BY <2>2, <2>6, <2>7
<1> QED
  BY <1>1 DEF ClosedForDisorder, ParserInv, ErrorInv
-----------------------------------------------------------------------------
(* The client: its file, what it tells the application, and how it closes.  *)

\* What the file has and what it misses is a part of what was delivered.
Bytes(list) == {list[i] : i \in 1..Len(list)}

FileType ==
  /\ written \in Seq(Nat) /\ Increasing(written)
  /\ Bytes(written) \cup missed \subseteq Bytes(delivered)

\* Why nothing else is missing in the file: what could not be written is remembered in ret
\* until the connection is closed.  Only the flow control, which opens once and for the
\* first long frame of a ready connection, takes a failure back, and by then there has been
\* none.
FileInv ==
  /\ ret \in {0, -1}
  /\ FileType
  /\ request.to_disk /\ file = "none" => delivered = <<>>
  /\ request.to_disk /\ file = "none" /\ inCall => Rest = 0
  /\ request.to_disk /\ ret = 0 /\ error = "none" => Bytes(written) = Bytes(delivered) \ missed
  /\ request.to_disk /\ inCall /\ ret = -1 /\ file # "none" => flow_opened \/ ~ready
  /\ ~inCall /\ ~is_upgraded /\ error = "none" => Rest = 0

Words == {"accepted", "refused", "post_data", "post_fin"}

IsOutcome(what) == what \in {"accepted", "refused"}

\* The application has heard of the answer.
Heard(t) == \E i \in 1..Len(t) : IsOutcome(t[i])

\* What it has heard so far is right, if this is the outcome.
Right(t, outcome) ==
  /\ t \in Seq(Words)
  /\ \A i \in 1..Len(t) :
       /\ IsOutcome(t[i]) => t[i] = outcome
       /\ t[i] = "post_data" =>
            request.is_upgrade_requested /\ \E j \in 1..Len(t) : j < i /\ t[j] = "accepted"

ToldInv ==
  /\ inCall /\ ~header_found => header_required
  /\ is_upgraded => header_found /\ request.is_upgrade_requested /\ Success
  /\ request.path_callback => Right(told, Outcome)
  /\ request.path_callback /\ header_found /\ error = "none" => Heard(told)
  /\ request.path_callback /\ Heard(told) => header_found

OpenInv ==
  ~is_open =>
    /\ ~inCall
    /\ error = "none" => \A q \in Read : Value(q) # FrameWebtransport => EndOf(q) <= at

ClientInv == ParserInv /\ FileInv /\ ToldInv /\ OpenInv

\* What a turn of the parser leaves alone, and what it only adds to.
LEMMA ParseFacts ==
  ASSUME ParserInv, Parse
  PROVE  /\ Rest > 0 /\ error = "none" /\ UNCHANGED <<content, hand>>
         /\ header_found => header_found' /\ is_web_transport' = is_web_transport
         /\ delivered' # delivered =>
              \E n \in Nat : at' = at + n /\ delivered' = delivered \o [i \in 1..n |-> at + i - 1]
<1>1. Rest > 0 /\ error = "none" /\ UNCHANGED <<content, hand>>
  BY DEF Parse, PartOfType, PartOfHeader, WholeHeader, PassThrough, Headers, NoMemory, Data,
         Skip, InFrame, Busy, chunkVars
<1>2. header_found => header_found' /\ is_web_transport' = is_web_transport
  <2>1. CASE WholeHeader
    <3> SUFFICES ASSUME header_found, error' = "none", current_frame_type' = FrameWebtransport
                 PROVE  FALSE
      BY <2>1, Zenon DEF WholeHeader
    <3>1. error' = Verdict(FrameWebtransport, content[LengthAt].value)
      BY <2>1 DEF WholeHeader
    <3>2. Verdict(FrameWebtransport, content[LengthAt].value) = "unexpected"
      BY DEF Verdict, FrameData, FrameHeader, FrameWebtransport, FrameSettings, FrameCancelPush,
             FrameGoaway, FrameMaxPushId
    <3> QED
      BY <3>1, <3>2
  <2> QED
    BY <2>1, Zenon DEF Parse, PartOfType, PartOfHeader, PassThrough, Headers, NoMemory, Data,
                       Skip, foundVars
<1>3. ASSUME delivered' # delivered
      PROVE  \E n \in Nat : at' = at + n /\ delivered' = delivered \o [i \in 1..n |-> at + i - 1]
  <2>1. CASE PassThrough
    <3>1. Rest \in Nat /\ at' = at + Rest
      BY <1>1, <2>1, LengthAssumption DEF Rest, ParserInv, ParserType, PassThrough
    <3> QED
      BY <2>1, <3>1 DEF PassThrough
  <2>2. CASE Data
    <3>1. Available \in Nat
      <4>1. Rest \in Nat /\ ~is_web_transport /\ frame_header_parsed
        BY <1>1, <2>2, LengthAssumption DEF Rest, ParserInv, ParserType, Data, InFrame
      <4>2. current_frame_read \in Nat /\ current_frame_length \in Nat
            /\ current_frame_read <= current_frame_length
        BY <4>1 DEF ParserInv, ParserType, FrameInv, At
      <4> QED
        BY <4>1, <4>2 DEF Available, Smaller
    <3> QED
      BY <2>2, <3>1 DEF Data
  <2> QED
    BY <1>3, <2>1, <2>2 DEF Parse, PartOfType, PartOfHeader, WholeHeader, Headers, NoMemory, Skip
<1> QED
  BY <1>1, <1>2, <1>3

LEMMA ParserOfClient ==
  ASSUME ParserInv, ClientNext
  PROVE  ParserInv'
<1>1. Length \in Nat /\ hand \in 0..Length /\ hand <= hand
  BY LengthAssumption DEF ParserInv, ParserType
<1>2. UNCHANGED vars => ParserInv'
  <2> SUFFICES ASSUME UNCHANGED vars PROVE ParserInv'
    OBVIOUS
  <2>1. UNCHANGED <<content, parserVars, error, hand>>
    BY DEF vars, chunkVars, parserVars
  <2> QED
    BY <1>1, <2>1, ParserStays DEF parserVars
<1>3. CASE Established
  BY <1>2, <1>3 DEF Established
<1>4. CASE Call
  <2>1. CASE Receive
    <3>1. UNCHANGED <<content, parserVars, error>>
      BY <2>1 DEF Receive, parserVars
    <3>2. PICK n \in 1..(Length - hand) : hand' = hand + n
      BY <2>1 DEF Receive
    <3>3. hand + n \in 0..Length /\ hand <= hand + n
      BY <1>1
    <3> QED
      BY <3>1, <3>2, <3>3, ParserStays
  <2> QED
    BY <1>2, <1>4, <2>1 DEF Call
<1>5. CASE Posted
  <2>1. UNCHANGED <<content, parserVars, error>>
    BY <1>5 DEF Posted
  <2>2. PICK n \in 0..(Length - hand) : hand' = hand + n
    BY <1>5 DEF Posted
  <2>3. hand + n \in 0..Length /\ hand <= hand + n
    BY <1>1
  <2> QED
    BY <2>1, <2>2, <2>3, ParserStays
<1>6. CASE Turn
  BY <1>6, ParseStep DEF Turn
<1>7. CASE Return
  <2>1. UNCHANGED <<content, hand, parserVars>>
    BY <1>7 DEF Return, chunkVars
  <2>2. error' = error \/ (error' = "incomplete" /\ error = "none")
    BY <1>7, Zenon DEF Return, EndOfStream
  <2>3. error' \notin {"unexpected", "protocol", "frame"} \/ error' = error
    BY <2>2
  <2>4. error' = "none" => error = "none"
    BY <2>2
  <2> QED
    BY <1>1, <2>1, <2>3, <2>4, ParserStays
<1>8. CASE CallFailed
  BY <1>1, <1>8, ParserStays DEF CallFailed, chunkVars
<1>9. CASE PrepareToSend
  BY <1>2, <1>9 DEF PrepareToSend
<1> QED
  BY <1>3, <1>4, <1>5, <1>6, <1>7, <1>8, <1>9 DEF ClientNext

\* The bytes from a on are new to the file and to what it misses, which a write of the
\* first n of k bytes divides between them.
LEMMA Divided ==
  ASSUME NEW a \in Nat, NEW k \in Nat, NEW n \in 1..k, NEW D, D \subseteq 1..(a - 1),
         NEW M, M \subseteq D
  PROVE  (D \ M) \cup a..(a + n - 1) = (D \cup a..(a + k - 1)) \ (M \cup (a + n)..(a + k - 1))
OBVIOUS

LEMMA FileStays ==
  ASSUME FileType, UNCHANGED <<delivered, fileVars>>
  PROVE  /\ FileType' /\ missed' = missed
         /\ Bytes(written)' = Bytes(written) /\ Bytes(delivered)' = Bytes(delivered)
<1>1. delivered' = delivered /\ written' = written /\ missed' = missed
  BY DEF fileVars
<1>2. Bytes(written)' = Bytes(written) /\ Bytes(delivered)' = Bytes(delivered)
  BY <1>1 DEF Bytes
<1>3. Increasing(written)' = Increasing(written)
  BY <1>1 DEF Increasing
<1> QED
  BY <1>1, <1>2, <1>3 DEF FileType

\* A turn in which data comes, with a file that is open.
LEMMA FileOfData ==
  ASSUME ParserInv, FileInv, Turn, delivered' # delivered
  PROVE  /\ FileType'
         /\ request.to_disk /\ ret' = 0 /\ ret = 0 => Bytes(written)' = Bytes(delivered)' \ missed'
<1>1. /\ error = "none" /\ Take(at' - at) /\ UNCHANGED request
      /\ \E n \in Nat : at' = at + n /\ delivered' = delivered \o [i \in 1..n |-> at + i - 1]
  BY ParseFacts DEF Turn
<1>2. PICK k \in Nat : at' = at + k /\ delivered' = delivered \o [i \in 1..k |-> at + i - 1]
  BY <1>1
<1>3. at \in Nat \ {0} /\ delivered \in Seq(Nat) /\ at' - at = k
  BY <1>2 DEF ParserInv, ParserType
<1>4. Bytes(delivered)' = Bytes(delivered) \cup at..(at + k - 1)
  <2>1. Run(delivered, at, k, delivered')
    BY <1>2, <1>3, RunAppended
  <2> QED
    BY <2>1 DEF Run, Bytes
<1>5. Bytes(delivered) \subseteq 1..(at - 1)
  BY DEF ParserInv, DataInv, Bytes
<1>6. CASE UNCHANGED fileVars
  <2>1. FileType'
    BY <1>4, <1>6 DEF FileInv, FileType, fileVars, Bytes, Increasing
  <2>2. ASSUME request.to_disk, ret' = 0 PROVE ~UNCHANGED fileVars
    <3>1. PICK n \in 1..k : missed' = missed \cup (at + n)..(at + k - 1)
                            /\ written' = written \o [i \in 1..n |-> at + i - 1]
      <4>1. PICK r : r = ret'
        OBVIOUS
      <4>2. r = 0 /\ ~(r = -1)
        BY <2>2, <4>1
      <4> QED
        BY <1>1, <1>3, <2>2, <4>1, <4>2, Zenon DEF Take
    <3>2. written \in Seq(Nat) /\ Len(written) \in Nat
      BY DEF FileInv, FileType
    <3>3. Len(written') = Len(written) + n
      BY <1>3, <3>1, <3>2, RunAppended DEF Run
    <3>4. Len(written') # Len(written)
      BY <3>2, <3>3
    <3> QED
      BY <3>4 DEF fileVars
  <2> QED
    BY <1>6, <2>1, <2>2
<1>7. CASE \E n \in 1..k : /\ written' = written \o [i \in 1..n |-> at + i - 1]
                          /\ missed' = missed \cup (at + n)..(at + k - 1)
  <2>1. PICK n \in 1..k : /\ written' = written \o [i \in 1..n |-> at + i - 1]
                          /\ missed' = missed \cup (at + n)..(at + k - 1)
    BY <1>7
  <2>2. /\ written \in Seq(Nat) /\ Increasing(written) /\ missed \subseteq Bytes(delivered)
        /\ Bytes(written) \subseteq Bytes(delivered)
    BY DEF FileInv, FileType
  <2>3. Run(written, at, n, written')
    <3>1. n \in Nat
      BY <1>2
    <3> QED
      BY <1>3, <2>1, <2>2, <3>1, RunAppended
  <2>4. Bytes(written)' = Bytes(written) \cup at..(at + n - 1) /\ written' \in Seq(Nat)
    BY <2>3 DEF Run, Bytes
  <2>5. Increasing(written)'
    <3>1. \A i \in 1..Len(written) : written[i] < at
      <4> TAKE i \in 1..Len(written)
      <4>1. written[i] \in 1..(at - 1)
        BY <1>5, <2>2 DEF Bytes
      <4> QED
        BY <1>3, <4>1
    <3>2. Increasing(written')
      BY <1>3, <2>2, <2>3, <3>1, RunIncreases
    <3> QED
      BY <3>2 DEF Increasing
  <2>6. FileType'
    <3>1. at..(at + n - 1) \cup (at + n)..(at + k - 1) \subseteq at..(at + k - 1)
      BY <1>3
    <3> QED
      BY <1>4, <2>1, <2>2, <2>4, <2>5, <3>1 DEF FileType
  <2>7. ASSUME request.to_disk, ret = 0
        PROVE  Bytes(written)' = Bytes(delivered)' \ missed'
    <3>1. Bytes(written) = Bytes(delivered) \ missed
      BY <1>1, <2>7 DEF FileInv
    <3> QED
      <4>1. (Bytes(delivered) \ missed) \cup at..(at + n - 1)
              = (Bytes(delivered) \cup at..(at + k - 1)) \ (missed \cup (at + n)..(at + k - 1))
        BY <1>3, <1>5, <2>2, Divided
      <4> QED
        BY <1>4, <2>1, <2>4, <3>1, <4>1
  <2> QED
    BY <2>6, <2>7
<1> QED
  BY <1>1, <1>3, <1>6, <1>7 DEF Take

\* The parser reads nothing between two calls, or while the file of a call is not open.
LEMMA FileOfTurn ==
  ASSUME ParserInv, ParserInv', FileInv, Turn
  PROVE  FileInv'
<1>1. /\ inCall /\ error = "none" /\ Rest > 0 /\ Parse
      /\ UNCHANGED <<request, ready, file, inCall>>
  BY ParseFacts DEF Turn
<1>2. request.to_disk => file # "none"
  <2>1. ~(Rest = 0)
    BY <1>1
  <2> QED
    BY <1>1, <2>1 DEF FileInv
<1>3. ret' \in {0, -1}
  <2>1. CASE delivered' # delivered
    <3>1. FlowResults \subseteq {0, -1} /\ Take(at' - at)
      BY <2>1 DEF Turn, FlowResults, FileInv
    <3> QED
      BY <3>1 DEF Take
  <2>2. CASE delivered' = delivered
    BY <2>2 DEF Turn, FileInv
  <2> QED
    BY <2>1, <2>2
<1>4. FileType'
  <2>1. CASE delivered' # delivered
    BY <2>1, FileOfData
  <2>2. CASE delivered' = delivered
    BY <2>2, FileStays DEF Turn, FileInv
  <2> QED
    BY <2>1, <2>2
<1>5. ASSUME request.to_disk
      PROVE  /\ ret' = 0 => Bytes(written)' = Bytes(delivered)' \ missed'
             /\ ret' = -1 => flow_opened' \/ ~ready
  <2>1. CASE delivered' # delivered
    <3>1. /\ flow_opened' = (flow_opened \/ Opens)
          /\ \E flow \in FlowResults : (flow = 0 /\ ret' = 0) \/ ret' = -1
      BY <1>5, <2>1 DEF Turn, Take
    <3>2. ~ready \/ flow_opened'
      BY <3>1 DEF Opens
    <3>3. ASSUME ret' = 0 PROVE 0 \in FlowResults
      <4>1. PICK r : r = ret'
        OBVIOUS
      <4>2. r = 0 /\ ~(r = -1)
        BY <3>3, <4>1
      <4> QED
        BY <3>1, <4>1, <4>2, Zenon
    <3>4. ASSUME 0 \in FlowResults PROVE ret = 0
      <4>1. CASE Opens /\ current_frame_length' >= LargeFrame
        <5>1. current_frame_length' \in Nat /\ LargeFrame \in Nat
          BY SizesAssumption DEF ParserInv, ParserType
        <5>2. ~(current_frame_length' < LargeFrame)
          <6>1. PICK n \in Nat : n = current_frame_length'
            BY <5>1
          <6> QED
            BY <4>1, <5>1, <6>1
        <5>3. ~flow_opened /\ ready
          BY <4>1, <5>2 DEF Opens
        <5> QED
          BY <1>1, <1>2, <1>5, <5>3 DEF FileInv
      <4>2. CASE ~(Opens /\ current_frame_length' >= LargeFrame)
        BY <3>4, <4>2 DEF FlowResults
      <4> QED
        BY <4>1, <4>2
    <3> QED
      BY <1>5, <2>1, <3>2, <3>3, <3>4, FileOfData
  <2>2. CASE delivered' = delivered
    BY <1>1, <1>2, <1>5, <2>2 DEF Turn, FileInv, fileVars, Bytes
  <2> QED
    BY <2>1, <2>2
<1> QED
  BY <1>1, <1>2, <1>3, <1>4, <1>5 DEF FileInv

LEMMA FileStep ==
  ASSUME ParserInv, ParserInv', FileInv, ClientNext
  PROVE  FileInv'
<1>1. UNCHANGED <<delivered, fileVars>> =>
        /\ FileType' /\ missed' = missed
        /\ Bytes(written)' = Bytes(written) /\ Bytes(delivered)' = Bytes(delivered)
  BY FileStays DEF FileInv
<1>2. CASE Established
  <2>1. UNCHANGED <<delivered, fileVars, at, hand, error, request, file, flow_opened, is_upgraded,
                    inCall, ret>> /\ ~inCall
    BY <1>2 DEF Established, vars, chunkVars, streamVars, callVars
  <2> QED
    BY <1>1, <2>1 DEF FileInv, Rest
<1>3. CASE Call
  <2>1. /\ ~inCall /\ ret = 0 /\ error = "none" /\ Rest = 0
        /\ request.to_disk => Bytes(written) = Bytes(delivered) \ missed
        /\ inCall' = TRUE /\ UNCHANGED <<request, delivered, error, missed>>
    BY <1>3 DEF Call, Idle, FileInv, Receive, vars
  <2>2. CASE request.to_disk /\ file = "none" /\ ret' = 0
    <3>1. /\ delivered = <<>> /\ Bytes(<<>>) = {} /\ missed = {}
          /\ written' = <<>> /\ file' = "open"
      BY <1>3, <2>2 DEF Call, h3zero_client_open_stream_file, FileInv, FileType, Bytes
    <3>2. Bytes(written)' = {} /\ Bytes(delivered)' = {} /\ Increasing(written)'
      BY <2>1, <3>1 DEF Bytes, Increasing
    <3> QED
      BY <2>1, <2>2, <3>1, <3>2 DEF FileInv, FileType
  <2>3. CASE request.to_disk /\ file = "none" /\ ret' # 0
    <3>1. ret' = -1 /\ UNCHANGED <<file, written>>
      BY <1>3, <2>3 DEF Call, h3zero_client_open_stream_file
    <3>2. UNCHANGED vars
      BY <1>3, <3>1 DEF Call
    <3>3. Rest' = 0
      BY <2>1, <3>2 DEF Rest, vars, chunkVars
    <3> QED
      BY <1>1, <2>1, <2>3, <3>1, <3>3 DEF FileInv, fileVars
  <2>4. CASE ~(request.to_disk /\ file = "none")
    <3>1. ret' = 0 /\ UNCHANGED <<file, written>>
      BY <1>3, <2>4 DEF Call, h3zero_client_open_stream_file
    <3> QED
      BY <1>1, <2>1, <2>4, <3>1 DEF FileInv, fileVars
  <2> QED
    BY <2>2, <2>3, <2>4
<1>4. CASE Posted
  <2>1. /\ is_upgraded /\ is_upgraded' /\ ~inCall
        /\ UNCHANGED <<delivered, fileVars, error, request, ready, file, flow_opened, inCall, ret>>
    BY <1>4 DEF Posted, Idle, parserVars, streamVars
  <2> QED
    BY <1>1, <2>1 DEF FileInv
<1>5. CASE Turn
  BY <1>5, FileOfTurn
<1>6. CASE Return
  <2>1. /\ inCall /\ ~inCall' /\ ~Busy
        /\ UNCHANGED <<at, hand, delivered, request, ready, flow_opened, fileVars>>
    BY <1>6 DEF Return, chunkVars, parserVars
  <2>2. \/ UNCHANGED <<ret, error>>
        \/ ret' = 0 /\ error' # "none"
    BY <1>6 DEF Return, EndOfStream
  <2>3. file' = "none" => file = "none"
    BY <1>6 DEF Return, EndOfStream
  <2>4. error' = "none" => Rest' = 0
    <3> SUFFICES ASSUME error' = "none" PROVE Rest' = 0
      OBVIOUS
    <3>1. ~(Rest > 0)
      BY <2>1, <2>2 DEF Busy
    <3>2. Rest = 0
      BY <3>1, LengthAssumption DEF Rest, ParserInv, ParserType
    <3> QED
      BY <2>1, <3>2 DEF Rest
  <2> QED
    BY <1>1, <2>1, <2>2, <2>3, <2>4 DEF FileInv
<1>7. CASE CallFailed
  <2>1. /\ UNCHANGED <<delivered, fileVars, request, file, inCall, ret, at, hand>>
        /\ ~inCall /\ error' = "callback"
    BY <1>7 DEF CallFailed, parserVars, chunkVars, streamVars, callVars
  <2> QED
    BY <1>1, <2>1 DEF FileInv
<1>8. CASE PrepareToSend
  <2>1. /\ ~inCall /\ ret = 0 /\ ret' \in {0, -1}
        /\ UNCHANGED <<at, hand, delivered, error, request, ready, file, flow_opened, is_upgraded,
                       inCall, fileVars>>
    BY <1>8 DEF PrepareToSend, Idle, vars, chunkVars, streamVars
  <2>2. Rest' = Rest
    BY <2>1 DEF Rest
  <2> QED
    BY <1>1, <2>1, <2>2 DEF FileInv
<1> QED
  BY <1>2, <1>3, <1>4, <1>5, <1>6, <1>7, <1>8 DEF ClientNext

LEMMA OpenStep ==
  ASSUME ParserInv, OpenInv, FileInv, ClientNext
  PROVE  OpenInv'
<1>1. ASSUME UNCHANGED <<content, at>>
      PROVE  /\ Read' = Read
             /\ \A q : Value(q)' = Value(q) /\ EndOf(q)' = EndOf(q)
  <2>1. /\ FrameStarts' = FrameStarts
        /\ \A q : Value(q)' = Value(q) /\ EndOf(q)' = EndOf(q) /\ PayloadAt(q)' = PayloadAt(q)
    BY <1>1, LengthAssumption, ContentFixed
  <2> QED
    BY <1>1, <2>1 DEF Read
<1>2. CASE Established
  BY <1>1, <1>2 DEF Established, OpenInv, vars, chunkVars, streamVars, callVars
<1>3. CASE Call
  BY <1>3 DEF Call, OpenInv
<1>4. CASE Posted
  BY <1>1, <1>4 DEF Posted, OpenInv, parserVars, streamVars
<1>5. CASE Turn
  BY <1>5 DEF Turn, OpenInv
<1>6. CASE Return
  <2>1. /\ inCall /\ ~Busy /\ is_open /\ ~inCall'
        /\ UNCHANGED <<content, at>>
    BY <1>6 DEF Return, chunkVars, parserVars, OpenInv
  <2> SUFFICES ASSUME ~is_open', error' = "none", NEW q \in Read, Value(q) # FrameWebtransport
               PROVE  EndOf(q) <= at
    BY <1>1, <2>1 DEF OpenInv
  <2>2. ~Incomplete /\ error = "none"
    BY <1>6, <2>1 DEF Return, EndOfStream
  <2>3. PICK c \in Nat : Boundary(c) /\ At(c) /\ Agrees(c)
    BY <2>2 DEF ParserInv, FrameInv
  <2>4. /\ q \in FrameStarts /\ (q < c \/ (q = c /\ frame_header_parsed))
        /\ q < c => EndOf(q) <= at
    BY <2>3, ReadBefore
  <2>5. CASE q = c /\ frame_header_parsed
    <3>1. ~is_web_transport
      BY <2>3, <2>5 DEF At
    <3>2. /\ current_frame_length = PayloadLength(c) /\ at = PayloadAt(c) + current_frame_read
          /\ current_frame_read <= current_frame_length
      BY <2>3, <2>5, <3>1 DEF At
    <3>3. /\ PayloadAt(c) \in Nat /\ PayloadLength(c) \in Nat /\ current_frame_read \in Nat
          /\ EndOf(c) = PayloadAt(c) + PayloadLength(c)
      BY <2>4, <2>5, LengthAssumption, StartFacts DEF Fits, ParserInv, ParserType
    <3>4. ~(current_frame_read < current_frame_length)
      BY <2>2 DEF Incomplete
    <3> QED
      BY <2>5, <3>2, <3>3, <3>4
  <2> QED
    BY <2>4, <2>5
<1>7. CASE CallFailed
  BY <1>7 DEF CallFailed, OpenInv, streamVars, callVars
<1>8. CASE PrepareToSend
  BY <1>1, <1>8 DEF PrepareToSend, OpenInv, vars, chunkVars, streamVars
<1> QED
  BY <1>2, <1>3, <1>4, <1>5, <1>6, <1>7, <1>8 DEF ClientNext

LEMMA WordFacts ==
  /\ Words = {"accepted", "refused", "post_data", "post_fin"}
  /\ IsOutcome("accepted") /\ IsOutcome("refused")
  /\ ~IsOutcome("post_fin") /\ ~IsOutcome("post_data")
BY DEF Words, IsOutcome

\* The next thing it is told is right as well.
LEMMA TellsRight ==
  ASSUME NEW t, NEW outcome, Right(t, outcome), NEW s \in Words, IsOutcome(s) => s = outcome,
         s = "post_data" => request.is_upgrade_requested /\ outcome = "accepted" /\ Heard(t)
  PROVE  /\ Right(Append(t, s), outcome)
         /\ Heard(Append(t, s)) <=> Heard(t) \/ IsOutcome(s)
<1> DEFINE u == Append(t, s)
<1>1. t \in Seq(Words) /\ Len(t) \in Nat
  BY DEF Right
<1>2. /\ u \in Seq(Words) /\ Len(u) = Len(t) + 1 /\ u[Len(t) + 1] = s
      /\ \A i \in 1..Len(t) : u[i] = t[i]
  BY <1>1
<1> HIDE DEF u
<1>3. /\ \A i \in 1..Len(u) : i \in 1..Len(t) \/ i = Len(t) + 1
      /\ \A i \in 1..Len(t) : i \in 1..Len(u) /\ i < Len(t) + 1
      /\ Len(t) + 1 \in 1..Len(u)
  BY <1>1, <1>2
<1>4. ASSUME NEW i \in 1..Len(u), IsOutcome(u[i]) PROVE u[i] = outcome
  <2>1. CASE i \in 1..Len(t)
    BY <1>2, <1>4, <2>1 DEF Right
  <2>2. CASE i = Len(t) + 1
    BY <1>2, <1>4, <2>2
  <2> QED
    BY <1>3, <2>1, <2>2
<1>5. ASSUME NEW i \in 1..Len(u), u[i] = "post_data"
      PROVE  request.is_upgrade_requested /\ \E j \in 1..Len(u) : j < i /\ u[j] = "accepted"
  <2>1. CASE i \in 1..Len(t)
    <3>1. request.is_upgrade_requested /\ \E j \in 1..Len(t) : j < i /\ t[j] = "accepted"
      BY <1>2, <1>5, <2>1 DEF Right
    <3> QED
      BY <1>2, <1>3, <3>1
  <2>2. CASE i = Len(t) + 1
    <3>1. s = "post_data"
      BY <1>2, <1>5, <2>2
    <3>2. PICK j \in 1..Len(t) : IsOutcome(t[j])
      BY <3>1 DEF Heard
    <3>3. t[j] = "accepted"
      BY <3>1, <3>2 DEF Right
    <3> QED
      BY <1>2, <1>3, <2>2, <3>1, <3>2, <3>3
  <2> QED
    BY <1>3, <2>1, <2>2
<1>6. Heard(u) <=> Heard(t) \/ IsOutcome(s)
  BY <1>2, <1>3 DEF Heard
<1> QED
  BY <1>2, <1>4, <1>5, <1>6 DEF Right, u

LEMMA ToldStep ==
  ASSUME ParserInv, ToldInv, ClientNext
  PROVE  ToldInv'
<1>1. /\ request' = request
      /\ header_found => header_found' /\ is_web_transport' = is_web_transport
  <2>1. CASE Turn
    BY <2>1, ParseFacts DEF Turn
  <2>2. CASE Established \/ Call \/ PrepareToSend
    BY <2>2 DEF Established, Call, Receive, PrepareToSend, vars, foundVars
  <2>3. CASE Posted \/ Return \/ CallFailed
    BY <2>3 DEF Posted, Return, CallFailed, parserVars, foundVars
  <2> QED
    BY <2>1, <2>2, <2>3 DEF ClientNext
<1>2. \A t : Heard(t)' = Heard(t)
  BY DEF Heard
<1>3. header_found => Success' = Success /\ Outcome' = Outcome
  BY <1>1 DEF Success, Outcome
\* The outcome is still open as long as it was not told.
<1>4. request.path_callback => Right(told, Outcome')
  <2>1. CASE header_found
    BY <1>3, <2>1 DEF ToldInv
  <2>2. CASE request.path_callback /\ ~header_found
    BY <2>2, WordFacts DEF ToldInv, Right, Heard
  <2> QED
    BY <2>1, <2>2
<1>5. ASSUME UNCHANGED <<told, header_found, is_upgraded>>, error' = "none" => error = "none",
             inCall' /\ ~header_found => header_required'
      PROVE  ToldInv'
  <2>1. request.path_callback => Right(told, Outcome)'
    BY <1>1, <1>4, <1>5 DEF Right
  <2> QED
    BY <1>1, <1>2, <1>3, <1>5, <2>1 DEF ToldInv
<1>6. CASE Established \/ PrepareToSend
  <2>1. UNCHANGED <<told, header_found, is_upgraded, error, inCall, header_required>>
    BY <1>6 DEF Established, PrepareToSend, vars, foundVars, streamVars, callVars
  <2> QED
    BY <1>5, <2>1 DEF ToldInv
<1>7. CASE Call
  <2>1. UNCHANGED <<told, header_found, is_upgraded, error>>
    BY <1>7 DEF Call, Receive, vars, foundVars
  <2>2. header_required' = ~header_found
    BY <1>7 DEF Call
  <2> QED
    BY <1>5, <2>1, <2>2
<1>8. CASE Posted
  <2>1. /\ is_upgraded /\ error = "none" /\ ~inCall
        /\ UNCHANGED <<header_found, is_upgraded, error, inCall, header_required>>
        /\ told' = Append(told, IF fin' THEN "post_fin" ELSE "post_data")
    BY <1>8 DEF Posted, Idle, parserVars, foundVars, streamVars
  <2>2. header_found /\ request.is_upgrade_requested /\ Success /\ Outcome = "accepted"
    BY <2>1 DEF ToldInv, Outcome
  <2>3. ASSUME request.path_callback PROVE Right(told', Outcome') /\ Heard(told')
    <3>1. /\ "post_fin" \in Words /\ "post_data" \in Words
          /\ ~IsOutcome("post_fin") /\ ~IsOutcome("post_data")
      BY WordFacts
    <3>2. Right(told, Outcome) /\ Heard(told) /\ Outcome' = Outcome
      BY <1>3, <2>1, <2>2, <2>3 DEF ToldInv
    <3>3. Right(Append(told, "post_fin"), Outcome) /\ Heard(Append(told, "post_fin"))
      BY <3>1, <3>2, TellsRight
    <3>4. Right(Append(told, "post_data"), Outcome) /\ Heard(Append(told, "post_data"))
      BY <2>2, <3>1, <3>2, TellsRight
    <3> QED
      BY <2>1, <3>2, <3>3, <3>4
  <2>4. request.path_callback => Right(told, Outcome)'
    BY <1>1, <2>3 DEF Right
  <2> QED
    BY <1>1, <1>2, <1>3, <2>1, <2>2, <2>3, <2>4 DEF ToldInv
<1>9. CASE Turn
  <2>1. /\ inCall /\ error = "none" /\ UNCHANGED <<inCall, header_required>>
        /\ header_found => header_found'
    BY <1>9, ParseFacts DEF Turn
  <2>2. header_found \/ header_required
    BY <2>1 DEF ToldInv
  <2>3. CASE error' = "none" /\ header_required /\ header_found'
    <3>1. /\ is_upgraded' = IF request.is_upgrade_requested THEN Success' ELSE is_upgraded
          /\ told' = IF request.path_callback THEN Append(told, Outcome') ELSE told
      BY <1>9, <2>3 DEF Turn, TellOutcome
    <3>2. ASSUME request.path_callback PROVE Right(told', Outcome') /\ Heard(told')
      <4>1. Outcome' \in Words /\ IsOutcome(Outcome') /\ Outcome' # "post_data"
        <5>1. Outcome' \in {"accepted", "refused"} /\ Outcome' # "post_data"
          BY DEF Outcome
        <5> QED
          BY <5>1, WordFacts DEF IsOutcome
      <4>2. Right(told, Outcome')
        BY <1>4, <3>2
      <4> DEFINE o == Outcome'
      <4> HIDE DEF o
      <4>3. o \in Words /\ IsOutcome(o) /\ o # "post_data" /\ Right(told, o)
        BY <4>1, <4>2 DEF o
      <4>4. Right(Append(told, o), o) /\ Heard(Append(told, o))
        BY <4>3, TellsRight
      <4> QED
        BY <3>1, <3>2, <4>4 DEF o
    <3>3. is_upgraded' => request.is_upgrade_requested /\ Success'
      BY <1>3, <3>1 DEF ToldInv
    <3>4. request.path_callback => Right(told, Outcome)'
      BY <1>1, <3>2 DEF Right
    <3> QED
      BY <1>1, <1>2, <2>1, <2>3, <3>2, <3>3, <3>4 DEF ToldInv
  <2>4. CASE ~(error' = "none" /\ header_required /\ header_found')
    <3>1. UNCHANGED <<is_upgraded, told>>
      BY <1>9, <2>4 DEF Turn, TellOutcome
    <3>2. error' = "none" /\ header_found' => header_found
      BY <2>2, <2>4
    <3>3. request.path_callback => Right(told, Outcome)'
      BY <1>1, <1>4, <3>1 DEF Right
    <3> QED
      BY <1>1, <1>2, <1>3, <2>1, <2>2, <3>1, <3>2, <3>3 DEF ToldInv
  <2> QED
    BY <2>3, <2>4
<1>10. CASE Return
  <2>1. /\ UNCHANGED <<header_found, is_upgraded, header_required>> /\ ~inCall'
        /\ error' = "none" => error = "none"
        /\ told' = told \/ (request.path_callback /\ told' = Append(told, "post_fin"))
    BY <1>10 DEF Return, EndOfStream, parserVars, foundVars
  <2>2. ASSUME request.path_callback
        PROVE  Right(told', Outcome') /\ (Heard(told) <=> Heard(told'))
    <3> DEFINE o == Outcome'
    <3> HIDE DEF o
    <3>1. Right(told, o) /\ "post_fin" \in Words /\ ~IsOutcome("post_fin")
      BY <1>4, <2>2, WordFacts DEF o
    <3>2. Right(Append(told, "post_fin"), o) /\ (Heard(told) <=> Heard(Append(told, "post_fin")))
      BY <3>1, TellsRight
    <3> QED
      BY <2>1, <3>1, <3>2 DEF o
  <2>3. request.path_callback => Right(told, Outcome)'
    BY <1>1, <2>2 DEF Right
  <2> QED
    BY <1>1, <1>2, <1>3, <2>1, <2>2, <2>3 DEF ToldInv
<1>11. CASE CallFailed
  <2>1. UNCHANGED <<told, header_found, is_upgraded, inCall, header_required>> /\ error' = "callback"
    BY <1>11 DEF CallFailed, parserVars, foundVars, streamVars, callVars
  <2> QED
    BY <1>5, <2>1 DEF ToldInv
<1> QED
  BY <1>6, <1>7, <1>8, <1>9, <1>10, <1>11 DEF ClientNext
-----------------------------------------------------------------------------
(* The theorems                                                            *)

LEMMA ClientInvInit ==
  ASSUME ClientInit
  PROVE  ClientInv
<1>1. ParserInv
  BY InitParser DEF ClientInit
<1>2. FileInv
  BY DEF ClientInit, Init, FileInv, FileType, Bytes, Increasing, Rest
<1>3. ToldInv
  <2>1. Right(<<>>, Outcome) /\ ~Heard(<<>>)
    BY DEF Right, Heard
  <2> QED
    BY <2>1 DEF ClientInit, Init, ToldInv
<1>4. OpenInv
  BY DEF ClientInit, OpenInv
<1> QED
  BY <1>1, <1>2, <1>3, <1>4 DEF ClientInv

LEMMA ClientInvStep ==
  ASSUME ClientInv, [ClientNext]_clientVars
  PROVE  ClientInv'
<1>1. CASE ClientNext
  BY <1>1, ParserOfClient, FileStep, ToldStep, OpenStep DEF ClientInv
<1>2. CASE UNCHANGED clientVars
  <2>1. ParserInv'
    <3>1. /\ UNCHANGED <<content, parserVars, error, hand>>
          /\ hand \in 0..Length /\ hand <= hand
      BY <1>2, LengthAssumption DEF clientVars, vars, chunkVars, parserVars, ClientInv, ParserInv,
                                    ParserType
    <3> QED
      BY <3>1, ParserStays DEF ClientInv, parserVars
  <2>2. FileInv'
    <3>1. /\ UNCHANGED <<delivered, fileVars, at, hand, error, request, ready, file, flow_opened,
                         is_upgraded, inCall, ret>>
      BY <1>2 DEF clientVars, vars, chunkVars, streamVars, callVars
    <3> QED
      BY <3>1, FileStays DEF ClientInv, FileInv, Rest
  <2>3. ToldInv'
    <3>1. /\ UNCHANGED <<request, is_web_transport, told>>
          /\ Success' = Success /\ Outcome' = Outcome
      BY <1>2 DEF clientVars, vars, foundVars, Success, Outcome
    <3>2. Right(told, Outcome)' = Right(told, Outcome) /\ Heard(told)' = Heard(told)
      BY <3>1 DEF Right, Heard
    <3> QED
      BY <1>2, <3>1, <3>2 DEF clientVars, vars, foundVars, streamVars, callVars, ClientInv, ToldInv
  <2>4. OpenInv'
    <3>1. /\ FrameStarts' = FrameStarts /\ UNCHANGED <<at, error, is_open, inCall>>
          /\ \A q : Value(q)' = Value(q) /\ EndOf(q)' = EndOf(q) /\ PayloadAt(q)' = PayloadAt(q)
      BY <1>2, LengthAssumption, ContentFixed DEF clientVars, vars, chunkVars, streamVars, callVars
    <3>2. Read' = Read
      BY <3>1 DEF Read
    <3> QED
      BY <3>1, <3>2 DEF ClientInv, OpenInv
  <2> QED
    BY <2>1, <2>2, <2>3, <2>4 DEF ClientInv
<1> QED
  BY <1>1, <1>2

\* The inductive invariant of a request stream and its call: where the parser is, what it has
\* found and delivered, what the file has, and what the application was told.
THEOREM ClientInvariance == ClientSpec => []ClientInv
<1>1. ClientInit => ClientInv
  BY ClientInvInit
<1>2. ClientInv /\ [ClientNext]_clientVars => ClientInv'
  BY ClientInvStep
<1> QED
  BY <1>1, <1>2, PTL DEF ClientSpec

\* However a stream of any length is cut into chunks, the application is given every byte of
\* its data frames and nothing else, once and in order (h3zero_parse_data_stream).
THEOREM DataCompleteHolds == ClientSpec => []DataComplete
<1>1. ClientInv => DataComplete
  BY DataIsComplete DEF ClientInv
<1> QED
  BY <1>1, ClientInvariance, PTL

\* The connection is closed for a frame out of order and for nothing else, and a stream is
\* closed as finished behind a complete frame only (h3zero_process_h3_client_data).
THEOREM ClosedRightlyHolds == ClientSpec => []ClosedRightly
<1>1. ClientInv => ClosedRightly
  BY DisorderCloses DEF ClientInv, OpenInv, ClosedRightly
<1> QED
  BY <1>1, ClientInvariance, PTL

\* The file of a request has every byte that was delivered, once and in order, while the
\* connection goes on, except those a short write left out, however opening the file, the flow
\* control and the writes fail (h3zero_process_h3_client_data).
THEOREM FileCompleteHolds == ClientSpec => []FileComplete
<1>1. ASSUME ClientInv PROVE FileComplete
  <2>1. delivered \in Seq(Nat) /\ written \in Seq(Nat) /\ Increasing(written)
    BY <1>1 DEF ClientInv, ParserInv, ParserType, FileInv, FileType
  <2>2. DOMAIN delivered = 1..Len(delivered) /\ DOMAIN written = 1..Len(written)
    BY <2>1
  <2> QED
    BY <1>1, <2>1, <2>2 DEF ClientInv, FileInv, FileComplete, Bytes, Increasing
<1> QED
  BY <1>1, ClientInvariance, PTL

\* The application hears of the answer, hears only what it is, and is given bytes of an
\* upgraded stream behind an accepted upgrade only (h3zero_process_h3_client_data).
THEOREM OutcomeToldHolds == ClientSpec => []OutcomeTold
<1>1. ASSUME ClientInv, request.path_callback
      PROVE  OutcomeTold
  <2>1. Right(told, Outcome) /\ (header_found /\ error = "none" => Heard(told)) /\ DOMAIN told = 1..Len(told)
    BY <1>1 DEF ClientInv, ToldInv, Right
  <2>2. \A i : IsOutcome(told[i]) <=> told[i] \in {"accepted", "refused"}
    BY DEF IsOutcome
  <2> DEFINE outcomes == {i \in DOMAIN told : told[i] \in {"accepted", "refused"}}
  <2>3. \A i \in outcomes : told[i] = Outcome
    BY <2>1, <2>2 DEF Right
  <2>4. header_found /\ ~inCall /\ error = "none" => outcomes # {}
    BY <2>1, <2>2 DEF Heard
  <2>5. ASSUME NEW i \in DOMAIN told, told[i] = "post_data"
        PROVE  request.is_upgrade_requested /\ \E j \in outcomes : j < i /\ told[j] = "accepted"
    BY <2>1, <2>5 DEF Right
  <2> QED
    BY <2>3, <2>4, <2>5, Zenon DEF OutcomeTold
<1>2. ClientInv => OutcomeTold
  BY <1>1 DEF OutcomeTold
<1> QED
  BY <1>2, ClientInvariance, PTL
=============================================================================
