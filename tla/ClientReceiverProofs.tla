------------------------ MODULE ClientReceiverProofs ------------------------
(***************************************************************************)
(* Proofs about ClientReceiver, for any number of streams of any length    *)
(* and any frames in them.                                                 *)
(***************************************************************************)
EXTENDS ClientReceiver, SequenceTheorems, WellFoundedInduction, TLAPS

Bytes == Streams \X (1..Length)

\* Where the frame whose length is at q ends, and the next length is.
EndOf(c, q) == q + c[q].width + c[q].value

TypeInv ==
  /\ content \in [Streams -> Contents] /\ pos \in [Streams -> 0..Length]
  /\ cs \in Streams /\ at \in Nat \ {0} /\ hand \in Nat
  /\ hand = pos[cs] /\ at <= hand + 1
  /\ frame_size \in Nat /\ buffered \in Seq(Bytes) /\ saved \in Seq(Seq(Bytes))
  /\ frame_size > 0 => Len(buffered) < frame_size

\* The bytes of a stream that client_cb has dealt with.
Seen(s) == IF s = cs THEN at - 1 ELSE pos[s]

\* The stream in hand is in the frame at q: its bytes so far are in the buffer.
InFrame(q) ==
  /\ q \in Boundary(content[cs]) /\ q <= Length
  /\ frame_size = content[cs][q].value
  /\ at = q + content[cs][q].width + Len(buffered)
  /\ \A i \in 1..Len(buffered) : buffered[i] = <<cs, q + content[cs][q].width + i - 1>>

\* A stream is between two frames, but for the one in hand while a frame is read.
FrameInv ==
  /\ \A s \in Streams : s # cs \/ frame_size = 0 => Seen(s) + 1 \in Boundary(content[s])
  /\ frame_size > 0 => \E q \in 1..Length : InFrame(q)

Mine(s) == {i \in DOMAIN saved : saved[i][1][1] = s}

SavedInv ==
  \A s \in Streams :
    /\ {saved[i] : i \in Mine(s)} = {FrameAt(s, q) : q \in Complete(s, Seen(s))}
    /\ \A i, j \in Mine(s) : i < j => saved[i][1][2] < saved[j][1][2]

IndInv == TypeInv /\ (~lost /\ ~mixed => FrameInv /\ SavedInv)
-----------------------------------------------------------------------------
(* The frames of a stream                                                  *)

\* A set of numbers has a least element.
LEMMA Least ==
  ASSUME NEW S \in SUBSET Nat, S # {}
  PROVE  \E m \in S : \A k \in S : m <= k
<1>1. PICK m \in S : \A k \in S : <<k, m>> \notin OpToRel(<, Nat)
  BY NatLessThanWellFounded, WFMin, Zenon
<1>2. \A k \in S : ~(k < m)
  <2> SUFFICES ASSUME NEW k \in S, k < m PROVE FALSE
    BY Zenon
  <2>1. <<k, m>> \in Nat \X Nat /\ <<k, m>>[1] = k /\ <<k, m>>[2] = m
    OBVIOUS
  <2>2. <<k, m>> \in OpToRel(<, Nat)
    BY <2>1, Zenon DEF OpToRel
  <2> QED
    BY <1>1, <2>2, Zenon
<1> QED
  BY <1>2

LEMMA ByteFacts ==
  ASSUME NEW c \in Contents
  PROVE  \A q \in 1..Length :
           /\ c[q].width \in Nat \ {0} /\ c[q].value \in Nat /\ EndOf(c, q) \in Nat
           /\ EndOf(c, q) = q + c[q].width + c[q].value /\ q < EndOf(c, q)
<1>1. \A q \in 1..Length : c[q] \in [width : Nat \ {0}, value : Nat]
  BY ContentsAssumption
<1>2. \A q \in 1..Length : c[q].width \in Nat \ {0} /\ c[q].value \in Nat
  BY <1>1
<1>3. \A q \in 1..Length : q \in Nat
  BY LengthAssumption
<1> QED
  BY <1>2, <1>3 DEF EndOf

\* Frames start where the equation says: the function it defines exists, as is seen by
\* taking the least set of positions that its links lead to.
LEMMA BoundaryFacts ==
  ASSUME NEW c \in Contents
  PROVE  /\ Boundary(c) \subseteq 1..(Length + 1)
         /\ \A p \in 1..(Length + 1) :
              p \in Boundary(c) <=>
                p = 1 \/ \E q \in Boundary(c) : q < p /\ EndOf(c, q) = p
<1> DEFINE n == Length + 1
           Link(q, p) == q + c[q].width + c[q].value = p
           Closed(S) == /\ \A p \in 1..n : p = 1 => p \in S
                        /\ \A q \in S : \A p \in 1..n : q < p /\ Link(q, p) => p \in S
           D == {p \in 1..n : \A S \in SUBSET (1..n) : Closed(S) => p \in S}
           Eq(f) == f = [p \in 1..n |-> p = 1 \/ \E q \in 1..(p - 1) : f[q] /\ Link(q, p)]
           f == CHOOSE h : Eq(h)
           g == [p \in 1..n |-> p \in D]
<1>0. n \in Nat
  BY LengthAssumption
<1>1. Boundary(c) = {p \in 1..n : f[p]}
  BY DEF Boundary
<1>2. \A q, p : Link(q, p) <=> EndOf(c, q) = p
  BY DEF EndOf
<1> HIDE DEF Link, n
<1>3. D \in SUBSET (1..n) /\ Closed(D)
  OBVIOUS
<1>4. ASSUME NEW p \in 1..n, p \in D, p # 1
      PROVE  \E q \in 1..(p - 1) : q \in D /\ Link(q, p)
  <2> SUFFICES ASSUME \A q \in 1..(p - 1) : q \in D => ~Link(q, p)
               PROVE  FALSE
    OBVIOUS
  <2>1. \A q \in D : q < p => q \in 1..(p - 1)
    BY <1>0
  <2>2. Closed(D \ {p}) /\ D \ {p} \in SUBSET (1..n)
    <3> HIDE DEF D
    <3> QED
      BY <1>3, <1>4, <2>1
  <2> QED
    BY <1>4, <2>2
<1>5. ASSUME NEW p \in 1..n
      PROVE  p \in D <=> (p = 1 \/ \E q \in 1..(p - 1) : q \in D /\ Link(q, p))
  <2>1. \A q \in 1..(p - 1) : q < p
    BY <1>0
  <2> HIDE DEF D
  <2> QED
    BY <1>3, <1>4, <2>1
<1> HIDE DEF D
<1>6. Eq(g)
  <2>1. ASSUME NEW p \in 1..n
        PROVE  (p \in D) = (p = 1 \/ \E q \in 1..(p - 1) : g[q] /\ Link(q, p))
    <3>1. \A q \in 1..(p - 1) : q \in 1..n
      BY <1>0
    <3>2. \A q \in 1..(p - 1) : g[q] <=> q \in D
      BY <3>1
    <3> HIDE DEF g
    <3>3. (\E q \in 1..(p - 1) : q \in D /\ Link(q, p))
            <=> (\E q \in 1..(p - 1) : g[q] /\ Link(q, p))
      BY <3>2
    <3> QED
      BY <1>5, <3>3
  <2> QED
    BY <2>1
<1> HIDE DEF g, Eq
<1>7. Eq(f)
  BY <1>6
<1> HIDE DEF f
<1>8. Boundary(c) \subseteq 1..n
  BY <1>1
<1>9. ASSUME NEW p \in 1..n
      PROVE  p \in Boundary(c) <=> p = 1 \/ \E q \in Boundary(c) : q < p /\ EndOf(c, q) = p
  <2>1. f[p] = (p = 1 \/ \E q \in 1..(p - 1) : f[q] /\ Link(q, p))
    BY <1>7 DEF Eq
  <2>2. \A q : q \in 1..(p - 1) <=> q \in 1..n /\ q < p
    BY <1>0
  <2> QED
    BY <1>1, <1>2, <2>1, <2>2
<1> QED
  BY <1>8, <1>9 DEF n

\* Frames follow each other.
LEMMA Chain ==
  ASSUME NEW c \in Contents, NEW r \in Boundary(c)
  PROVE  \A q \in Boundary(c) : q < r => EndOf(c, q) <= r
<1> DEFINE T == {k \in Boundary(c) : \E q \in Boundary(c) : q < k /\ ~(EndOf(c, q) <= k)}
<1>1. /\ Boundary(c) \subseteq 1..(Length + 1) /\ Boundary(c) \subseteq Nat
      /\ \A q \in Boundary(c) : q \in Nat \ {0}
  BY BoundaryFacts, LengthAssumption
<1>2. \A q, k \in Boundary(c) : q < k => q \in 1..Length /\ EndOf(c, q) \in Nat /\ q < EndOf(c, q)
  <2>1. \A q, k \in 1..(Length + 1) : q < k => q \in 1..Length
    BY LengthAssumption
  <2> QED
    BY <1>1, <2>1, ByteFacts
<1>3. T = {}
  <2> SUFFICES ASSUME T # {} PROVE FALSE
    OBVIOUS
  <2>1. PICK k \in T : \A l \in T : k <= l
    <3>1. T \in SUBSET Nat
      BY <1>1
    <3> HIDE DEF T
    <3> QED
      BY <3>1, Least
  <2>2. PICK q \in Boundary(c) : q < k /\ ~(EndOf(c, q) <= k)
    OBVIOUS
  <2>3. k \in Boundary(c) /\ k \in Nat \ {0} /\ q \in Nat \ {0} /\ EndOf(c, q) \in Nat
    BY <1>1, <1>2, <2>2
  <2>4. \A l \in Boundary(c) : l < k => \A p \in Boundary(c) : p < l => EndOf(c, p) <= l
    <3> SUFFICES ASSUME NEW l \in Boundary(c), l < k, NEW p \in Boundary(c), p < l,
                        ~(EndOf(c, p) <= l)
                 PROVE  FALSE
      OBVIOUS
    <3>1. l \in T
      OBVIOUS
    <3>2. k <= l /\ l \in Nat
      BY <1>1, <2>1, <3>1
    <3> QED
      BY <2>3, <3>2
  <2> HIDE DEF T
  <2>5. PICK p \in Boundary(c) : p < k /\ EndOf(c, p) = k
    <3>1. k # 1
      BY <2>2, <2>3
    <3> QED
      BY <1>1, <2>3, <3>1, BoundaryFacts
  <2>6. p \in Nat
    BY <1>1
  <2>7. CASE p = q
    BY <2>2, <2>3, <2>5, <2>7
  <2>8. CASE q < p
    <3>1. EndOf(c, q) <= p
      BY <2>4, <2>5, <2>8
    <3> QED
      BY <2>2, <2>3, <2>5, <2>6, <3>1
  <2>9. CASE p < q
    <3>1. EndOf(c, p) <= q
      BY <2>2, <2>4, <2>9
    <3> QED
      BY <2>2, <2>3, <2>5, <3>1
  <2> QED
    BY <2>3, <2>6, <2>7, <2>8, <2>9
<1> QED
  BY <1>3

\* Behind a frame that fits the stream is a boundary.
LEMMA NextBoundary ==
  ASSUME NEW c \in Contents, NEW q \in Boundary(c), q <= Length, EndOf(c, q) <= Length + 1
  PROVE  EndOf(c, q) \in Boundary(c)
<1>1. q \in 1..Length
  BY BoundaryFacts, LengthAssumption
<1>2. EndOf(c, q) \in 1..(Length + 1) /\ q < EndOf(c, q)
  BY <1>1, ByteFacts, LengthAssumption
<1> QED
  BY <1>2, BoundaryFacts

\* Up to a position in the frame at q the complete frames are those before it.
LEMMA CompleteFacts ==
  ASSUME TypeInv, NEW s \in Streams, NEW q \in Boundary(content[s]), q <= Length,
         NEW last \in 0..Length, q - 1 <= last, last < EndOf(content[s], q)
  PROVE  Complete(s, last) =
           {r \in Boundary(content[s]) :
              /\ r < q /\ content[s][r].value > 0}
           \cup (IF last + 1 = EndOf(content[s], q) /\ content[s][q].value > 0
                 THEN {q} ELSE {})
<1> DEFINE c == content[s]  B == Boundary(content[s])
<1>1. c \in Contents /\ B \subseteq 1..(Length + 1)
  BY BoundaryFacts DEF TypeInv
<1>2. /\ \A r \in B : r \in Nat \ {0} /\ r <= Length + 1
      /\ \A r \in 1..Length : /\ c[r].value \in Nat /\ EndOf(c, r) \in Nat /\ r < EndOf(c, r)
                              /\ EndOf(c, r) = r + c[r].width + c[r].value
      /\ last \in Nat /\ q \in 1..Length /\ Length \in Nat
  BY <1>1, ByteFacts, LengthAssumption
<1>3. ASSUME NEW r \in B, r < q
      PROVE  r \in 1..last /\ r \in 1..Length /\ EndOf(c, r) <= last + 1
  <2>1. EndOf(c, r) <= q
    BY <1>1, <1>3, Chain
  <2>2. r \in 1..Length
    BY <1>2, <1>3
  <2> QED
    BY <1>2, <1>3, <2>1, <2>2
<1>4. ASSUME NEW r \in B, q < r, r <= Length PROVE ~(EndOf(c, r) <= last + 1)
  <2>1. EndOf(c, q) <= r /\ r \in 1..Length
    BY <1>1, <1>2, <1>4, Chain
  <2> QED
    BY <1>2, <2>1
<1>5. EndOf(c, q) <= last + 1 <=> last + 1 = EndOf(c, q)
  BY <1>2
<1>6. last + 1 = EndOf(c, q) => q \in 1..last
  BY <1>2
<1>7. ASSUME NEW r
      PROVE  r \in Complete(s, last) <=>
               /\ r \in B /\ r \in 1..last /\ r \in 1..Length
               /\ c[r].value > 0 /\ EndOf(c, r) <= last + 1
  BY <1>2 DEF Complete, EndOf
<1>8. ASSUME NEW r \in B PROVE r < q \/ r = q \/ q < r
  BY <1>2
<1> HIDE DEF c, B
<1>9. ASSUME NEW r
      PROVE  r \in Complete(s, last) <=>
               \/ r \in B /\ r < q /\ c[r].value > 0
               \/ r = q /\ last + 1 = EndOf(c, q) /\ c[q].value > 0
  <2>1. CASE r \in B /\ r < q
    <3>1. r # q
      BY <1>2, <2>1
    <3> QED
      BY <1>3, <1>7, <2>1, <3>1
  <2>2. CASE r = q
    <3>1. q \in B /\ ~(q < q) /\ q \in 1..Length
      BY <1>2 DEF B
    <3> QED
      BY <1>5, <1>6, <1>7, <2>2, <3>1
  <2>3. CASE r \in B /\ q < r
    <3>1. r # q /\ ~(r < q)
      BY <1>2, <2>3
    <3>2. r \in 1..Length => r <= Length
      BY <1>2
    <3> QED
      BY <1>4, <1>7, <2>3, <3>1, <3>2
  <2>4. CASE r \notin B
    <3>1. r # q
      BY <2>4 DEF B
    <3> QED
      BY <1>7, <2>4, <3>1
  <2> QED
    BY <1>8, <2>1, <2>2, <2>3, <2>4
<1> QED
  BY <1>9 DEF c, B
-----------------------------------------------------------------------------
(* The steps                                                               *)

LEMMA TypeStep ==
  ASSUME TypeInv, Next
  PROVE  TypeInv'
<1>1. /\ content \in [Streams -> Contents] /\ pos \in [Streams -> 0..Length]
      /\ cs \in Streams /\ at \in Nat \ {0} /\ hand \in Nat
      /\ hand = pos[cs] /\ at <= hand + 1
      /\ frame_size \in Nat /\ buffered \in Seq(Bytes) /\ saved \in Seq(Seq(Bytes))
      /\ frame_size > 0 => Len(buffered) < frame_size
      /\ Length \in Nat /\ hand <= Length
  BY LengthAssumption DEF TypeInv
<1>2. InCallback => /\ at \in 1..Length /\ content[cs][at].width \in Nat \ {0}
                    /\ content[cs][at].value \in Nat
  <2>1. InCallback => at \in 1..Length
    BY <1>1 DEF InCallback
  <2> QED
    BY <1>1, <2>1, ByteFacts
<1>3. ASSUME NEW s \in Streams, Deliver(s) PROVE TypeInv'
  <2>1. pos[s] \in Nat /\ pos[s] <= Length
    BY <1>1
  <2>2. PICK n \in 1..(Length - pos[s]) :
          at' = pos[s] + 1 /\ hand' = pos[s] + n /\ pos' = [pos EXCEPT ![s] = pos[s] + n]
    BY <1>3 DEF Deliver
  <2>3. PICK m \in 0..Length : m = pos[s] + n
    BY <1>1, <2>1
  <2>4. hand' = m /\ pos' = [pos EXCEPT ![s] = m]
    BY <2>2, <2>3
  <2>5. pos' \in [Streams -> 0..Length] /\ pos'[s] = m
    BY <1>1, <2>4
  <2>6. at' \in Nat \ {0} /\ at' <= m + 1 /\ m \in Nat
    BY <2>1, <2>2, <2>3
  <2> QED
    BY <1>1, <1>3, <2>4, <2>5, <2>6 DEF Deliver, parserVars, TypeInv
<1>4. ASSUME NEW s \in Streams, Fin(s) PROVE TypeInv'
  BY <1>1, <1>4 DEF Fin, parserVars, TypeInv
<1>5. CASE PartialLength
  BY <1>1, <1>5 DEF PartialLength, parserVars, TypeInv
<1>6. CASE ReadLength
  <2>1. /\ InCallback /\ frame_size' = content[cs][at].value
        /\ at' = at + content[cs][at].width /\ buffered' = <<>>
        /\ hand - at + 1 >= content[cs][at].width
        /\ UNCHANGED <<content, pos, cs, hand, saved>>
    BY <1>6 DEF ReadLength, Here, Rest
  <2>2. at' \in Nat \ {0} /\ at' <= hand + 1
    <3>1. PICK w \in Nat \ {0} : w = content[cs][at].width
      BY <1>2, <2>1
    <3> QED
      BY <1>1, <2>1, <3>1
  <2>3. buffered' \in Seq(Bytes) /\ Len(buffered') = 0
    BY <2>1
  <2>4. frame_size' \in Nat
    BY <1>2, <2>1
  <2> QED
    BY <1>1, <2>1, <2>2, <2>3, <2>4 DEF TypeInv
<1>7. CASE CopyPayload
  <2> DEFINE n == Smaller(Rest, frame_size - Len(buffered))
             more == [i \in 1..n |-> <<cs, at + i - 1>>]
             copy == buffered \o more
  <2>1. /\ InCallback /\ frame_size > 0 /\ at' = at + n
        /\ IF Len(copy) = frame_size
           THEN saved' = Append(saved, copy) /\ frame_size' = 0 /\ buffered' = <<>>
           ELSE buffered' = copy /\ frame_size' = frame_size /\ saved' = saved
        /\ UNCHANGED <<content, pos, cs, hand>>
    BY <1>7 DEF CopyPayload
  <2>2. n \in Nat /\ at + n <= hand + 1 /\ Len(buffered) + n <= frame_size /\ Len(buffered) \in Nat
    <3>1. PICK f \in Nat : f = frame_size
      BY <1>1
    <3>2. PICK b \in Nat : b = Len(buffered)
      BY <1>1
    <3>3. PICK a \in Nat \ {0} : a = at
      BY <1>1
    <3>4. PICK h \in Nat : h = hand
      BY <1>1
    <3>5. f > 0 /\ b < f /\ a <= h
      BY <1>1, <2>1, <3>1, <3>2, <3>3, <3>4 DEF InCallback
    <3>6. n = IF h - a + 1 < f - b THEN h - a + 1 ELSE f - b
      BY <3>1, <3>2, <3>3, <3>4 DEF Smaller, Rest
    <3> HIDE DEF n
    <3>7. n \in Nat /\ a + n <= h + 1 /\ b + n <= f
      BY <3>5, <3>6
    <3> QED
      BY <3>1, <3>2, <3>3, <3>4, <3>7
  <2> HIDE DEF n
  <2>3. more \in Seq(Bytes) /\ Len(more) = n
    <3>1. \A i \in 1..n : <<cs, at + i - 1>> \in Bytes
      BY <1>1, <2>2 DEF Bytes
    <3> QED
      BY <2>2, <3>1
  <2> HIDE DEF more
  <2>4. copy \in Seq(Bytes) /\ Len(copy) = Len(buffered) + n
    BY <1>1, <2>3, ConcatProperties, Zenon
  <2> HIDE DEF copy
  <2>5. /\ frame_size' \in Nat /\ buffered' \in Seq(Bytes) /\ saved' \in Seq(Seq(Bytes))
        /\ frame_size' > 0 => Len(buffered') < frame_size'
    <3>1. CASE Len(copy) = frame_size
      <4>1. Append(saved, copy) \in Seq(Seq(Bytes))
        BY <1>1, <2>4, AppendProperties, Zenon
      <4> QED
        BY <2>1, <3>1, <4>1
    <3>2. CASE Len(copy) # frame_size
      <4>1. Len(copy) < frame_size
        BY <1>1, <2>2, <2>4, <3>2
      <4> QED
        BY <1>1, <2>1, <2>4, <3>2, <4>1
    <3> QED
      BY <3>1, <3>2
  <2>6. at' \in Nat \ {0} /\ at' <= hand + 1
    BY <1>1, <2>1, <2>2
  <2> QED
    BY <1>1, <2>1, <2>5, <2>6 DEF TypeInv
<1>8. CASE CloseEvent \/ Sigint \/ MainLeaves \/ LoopFails \/ Cleanup \/ QuicFree
  BY <1>1, <1>8 DEF CloseEvent, Sigint, MainLeaves, LoopFails, Cleanup, QuicFree, Close, streamVars, parserVars,
                    TypeInv
<1> QED
  BY <1>3, <1>4, <1>5, <1>6, <1>7, <1>8 DEF Next, CallbackStep

\* A step that deals with no byte keeps what is known of the frames.
LEMMA NoByte ==
  ASSUME TypeInv, FrameInv, SavedInv,
         UNCHANGED <<content, saved, frame_size, buffered>>,
         \A s \in Streams : Seen(s)' = Seen(s),
         cs' \in Streams, frame_size > 0 => cs' = cs /\ at' = at
  PROVE  FrameInv' /\ SavedInv'
<1>1. \A s \in Streams : Complete(s, Seen(s))' = Complete(s, Seen(s))
  BY DEF Complete
<1>2. \A s, q : FrameAt(s, q)' = FrameAt(s, q)
  BY DEF FrameAt
<1>3. \A s : Mine(s)' = Mine(s)
  BY DEF Mine
<1>4. SavedInv'
  <2> SUFFICES ASSUME NEW s \in Streams
               PROVE  /\ {saved'[i] : i \in Mine(s)'} =
                           {FrameAt(s, q)' : q \in Complete(s, Seen(s))'}
                      /\ \A i, j \in Mine(s)' : i < j => saved'[i][1][2] < saved'[j][1][2]
    BY DEF SavedInv
  <2>1. {FrameAt(s, q)' : q \in Complete(s, Seen(s))'} = {FrameAt(s, q) : q \in Complete(s, Seen(s))}
    BY <1>1, <1>2
  <2> QED
    BY <1>3, <2>1 DEF SavedInv
<1>5. FrameInv'
  <2>1. CASE frame_size = 0
    BY <2>1 DEF FrameInv
  <2>2. CASE frame_size # 0
    <3>1. frame_size > 0 /\ cs' = cs /\ at' = at
      BY <2>2 DEF TypeInv
    <3>2. \A q : InFrame(q) => InFrame(q)'
      BY <3>1 DEF InFrame
    <3> QED
      BY <3>1, <3>2 DEF FrameInv
  <2> QED
    BY <2>1, <2>2
<1> QED
  BY <1>4, <1>5

LEMMA EventStep ==
  ASSUME IndInv, ~lost', ~mixed',
         \/ \E s \in Streams : Deliver(s)
         \/ CloseEvent \/ Sigint \/ MainLeaves \/ LoopFails \/ Cleanup \/ QuicFree
  PROVE  FrameInv' /\ SavedInv'
<1>1. CASE CloseEvent \/ Sigint \/ MainLeaves \/ LoopFails \/ Cleanup \/ QuicFree
  <2>1. UNCHANGED <<streamVars, frame_size, buffered, saved, lost, mixed>>
    BY <1>1 DEF CloseEvent, Sigint, MainLeaves, LoopFails, Cleanup, QuicFree, Close, parserVars
  <2>2. cs \in Streams /\ TypeInv /\ FrameInv /\ SavedInv
    BY <2>1 DEF IndInv, TypeInv
  <2> QED
    BY <2>1, <2>2, NoByte DEF streamVars, Seen
<1>2. ASSUME NEW s \in Streams, Deliver(s) PROVE FrameInv' /\ SavedInv'
  <2>1. /\ ~InCallback /\ cs' = s /\ at' = pos[s] + 1
        /\ mixed' = (mixed \/ (s # cs /\ frame_size > 0))
        /\ UNCHANGED <<content, parserVars, lost>>
        /\ \A r \in Streams : r # s => pos'[r] = pos[r]
    <3>1. /\ ~InCallback /\ cs' = s /\ at' = pos[s] + 1
          /\ mixed' = (mixed \/ (s # cs /\ frame_size > 0))
          /\ UNCHANGED <<content, parserVars, lost>>
          /\ pos' = [pos EXCEPT ![s] = hand']
      BY <1>2 DEF Deliver
    <3> QED
      BY <3>1 DEF IndInv, TypeInv
  <2>2. at - 1 = pos[cs] /\ cs \in Streams /\ pos[s] + 1 - 1 = pos[s] /\ at \in Nat /\ pos[s] \in Nat
    BY <2>1 DEF InCallback, IndInv, TypeInv
  <2>3. \A r \in Streams : Seen(r)' = Seen(r)
    BY <2>1, <2>2 DEF Seen
  <2>4. frame_size > 0 => cs' = cs /\ at' = at
    <3>1. frame_size > 0 => s = cs
      BY <2>1
    <3> QED
      BY <2>1, <2>2, <3>1
  <2>5. TypeInv /\ FrameInv /\ SavedInv
    BY <2>1 DEF IndInv
  <2> QED
    BY <2>1, <2>3, <2>4, <2>5, NoByte DEF parserVars
<1> QED
  BY <1>1, <1>2

\* A length is read between two frames.
LEMMA LengthStep ==
  ASSUME IndInv, ~lost, ~mixed, ReadLength
  PROVE  FrameInv' /\ SavedInv'
<1> DEFINE c == content[cs]
<1>1. /\ InCallback /\ frame_size = 0 /\ frame_size' = c[at].value
      /\ at' = at + c[at].width /\ buffered' = <<>>
      /\ hand - at + 1 >= c[at].width
      /\ UNCHANGED <<content, pos, cs, hand, saved>>
  BY DEF ReadLength, Here, Rest
<1>2. TypeInv /\ FrameInv /\ SavedInv
  BY DEF IndInv
<1>3. /\ cs \in Streams /\ c \in Contents /\ at \in 1..Length /\ hand \in 0..Length
      /\ Length \in Nat
  BY <1>1, <1>2, LengthAssumption DEF TypeInv, InCallback
<1>4. /\ c[at].width \in Nat \ {0} /\ c[at].value \in Nat /\ EndOf(c, at) \in Nat
      /\ EndOf(c, at) = at + c[at].width + c[at].value
  BY <1>3, ByteFacts
<1>5. PICK q \in 1..Length : q = at
  BY <1>3
<1>6. PICK w \in Nat \ {0} : w = c[q].width
  BY <1>4, <1>5
<1>7. PICK v \in Nat : v = c[q].value
  BY <1>4, <1>5
<1>8. q \in Boundary(c) /\ q <= Length
  <2>1. Seen(cs) + 1 = at
    BY <1>2 DEF Seen, TypeInv
  <2> QED
    BY <1>1, <1>2, <1>3, <1>5, <2>1 DEF FrameInv
<1>9. at' = q + w /\ q + w - 1 \in 0..Length /\ q - 1 \in 0..Length /\ EndOf(c, q) = q + w + v
  <2>1. at' = q + w /\ hand - q + 1 >= w /\ EndOf(c, q) = q + w + v
    BY <1>1, <1>4, <1>5, <1>6, <1>7, Zenon
  <2> QED
    BY <1>3, <2>1
<1>10. Complete(cs, q + w - 1) = Complete(cs, q - 1)
  <2> DEFINE old == {r \in Boundary(c) : r < q /\ c[r].value > 0}
  <2>1. /\ q - 1 <= q - 1 /\ q - 1 <= q + w - 1 /\ q - 1 < EndOf(c, q)
        /\ (q - 1) + 1 # EndOf(c, q)
    BY <1>9
  <2>2. q - 1 < EndOf(c, q) /\ Complete(cs, q - 1) = old
    BY <1>2, <1>3, <1>8, <1>9, <2>1, CompleteFacts
  <2>3. q + w - 1 < EndOf(c, q) /\ ~((q + w - 1) + 1 = EndOf(c, q) /\ c[q].value > 0)
    BY <1>7, <1>9
  <2>4. Complete(cs, q + w - 1) = old
    BY <1>2, <1>3, <1>8, <1>9, <2>1, <2>3, CompleteFacts
  <2> QED
    BY <2>2, <2>4
<1>11. \A s \in Streams : s # cs => Seen(s)' = Seen(s)
  BY <1>1 DEF Seen
<1>12. \A s \in Streams : s = cs => Seen(s)' = q + w - 1 /\ Seen(s) = q - 1
  BY <1>1, <1>5, <1>9 DEF Seen
<1>13. \A s \in Streams : Complete(s, Seen(s))' = Complete(s, Seen(s))
  <2>1. ASSUME NEW s \in Streams PROVE Complete(s, Seen(s))' = Complete(s, Seen(s))
    <3>1. \A last : Complete(s, last)' = Complete(s, last')
      BY <1>1 DEF Complete
    <3>2. Complete(s, Seen(s))' = Complete(s, Seen(s)')
      BY <1>1 DEF Complete
    <3>3. CASE s = cs
      BY <1>10, <1>12, <3>2, <3>3
    <3>4. CASE s # cs
      BY <1>11, <3>2, <3>4
    <3> QED
      BY <3>3, <3>4
  <2> QED
    BY <2>1
<1>14. SavedInv'
  <2> SUFFICES ASSUME NEW s \in Streams
               PROVE  /\ {saved'[i] : i \in Mine(s)'} =
                           {FrameAt(s, r)' : r \in Complete(s, Seen(s))'}
                      /\ \A i, j \in Mine(s)' : i < j => saved'[i][1][2] < saved'[j][1][2]
    BY DEF SavedInv
  <2>1. \A r : FrameAt(s, r)' = FrameAt(s, r)
    BY <1>1 DEF FrameAt
  <2>2. {FrameAt(s, r)' : r \in Complete(s, Seen(s))'} = {FrameAt(s, r) : r \in Complete(s, Seen(s))}
    BY <1>13, <2>1
  <2>3. Mine(s)' = Mine(s)
    BY <1>1 DEF Mine
  <2> QED
    BY <1>1, <1>2, <2>2, <2>3 DEF SavedInv
<1>15. FrameInv'
  <2>1. ASSUME NEW s \in Streams, s # cs PROVE (Seen(s) + 1 \in Boundary(content[s]))'
    BY <1>1, <1>2, <1>11, <2>1 DEF FrameInv
  <2>2. ASSUME frame_size' = 0 PROVE (Seen(cs) + 1 \in Boundary(content[cs]))'
    <3>1. v = 0
      BY <1>1, <1>5, <1>7, <2>2
    <3>2. EndOf(c, q) = q + w /\ EndOf(c, q) <= Length + 1
      BY <1>3, <1>9, <3>1
    <3>3. q + w \in Boundary(c)
      BY <1>3, <1>8, <3>2, NextBoundary
    <3>4. Seen(cs)' = q + w - 1
      BY <1>1, <1>9 DEF Seen
    <3>5. q + w - 1 + 1 = q + w
      BY <1>3
    <3>6. Boundary(content[cs])' = Boundary(c)
      BY <1>1
    <3> QED
      BY <3>3, <3>4, <3>5, <3>6
  <2>3. ASSUME frame_size' > 0 PROVE \E r \in 1..Length : InFrame(r)'
    <3>0. Len(buffered') = 0 /\ 1..Len(buffered') = {}
      BY <1>1
    <3>1. at' = q + c[q].width + Len(buffered')
      <4>1. q + w = q + w + 0
        OBVIOUS
      <4> QED
        BY <1>6, <1>9, <3>0, <4>1, Zenon
    <3>2. InFrame(q)'
      BY <1>1, <1>5, <1>8, <3>0, <3>1 DEF InFrame
    <3> QED
      BY <3>2
  <2> QED
    BY <1>1, <2>1, <2>2, <2>3 DEF FrameInv
<1> QED
  BY <1>14, <1>15

\* What a copy does: the bytes of the frame at q go behind those in the buffer.
Copied(q, n, copy) ==
  /\ InFrame(q) /\ n \in Nat /\ at' = at + n /\ at + n <= hand + 1
  /\ Len(buffered) + n <= frame_size /\ Len(buffered) < frame_size
  /\ copy \in Seq(Bytes) /\ Len(copy) = Len(buffered) + n
  /\ \A i \in 1..Len(copy) : copy[i] = <<cs, q + content[cs][q].width + i - 1>>
  /\ IF Len(copy) = frame_size
     THEN saved' = Append(saved, copy) /\ frame_size' = 0 /\ buffered' = <<>>
     ELSE buffered' = copy /\ frame_size' = frame_size /\ saved' = saved
  /\ UNCHANGED <<content, pos, cs, hand>>

LEMMA CopyFacts ==
  ASSUME IndInv, ~lost, ~mixed, CopyPayload
  PROVE  \E q \in 1..Length : \E n, copy : Copied(q, n, copy)
<1> DEFINE c == content[cs]
           n == Smaller(Rest, frame_size - Len(buffered))
           more == [i \in 1..n |-> <<cs, at + i - 1>>]
           copy == buffered \o more
<1>1. /\ InCallback /\ frame_size > 0 /\ at' = at + n
      /\ IF Len(copy) = frame_size
         THEN saved' = Append(saved, copy) /\ frame_size' = 0 /\ buffered' = <<>>
         ELSE buffered' = copy /\ frame_size' = frame_size /\ saved' = saved
      /\ UNCHANGED <<content, pos, cs, hand>>
  BY DEF CopyPayload
<1>2. TypeInv /\ FrameInv
  BY DEF IndInv
<1>3. PICK q \in 1..Length : InFrame(q)
  BY <1>1, <1>2 DEF FrameInv
<1>4. PICK b \in Nat : b = Len(buffered)
  BY <1>2 DEF TypeInv
<1>5. PICK w \in Nat \ {0} : w = c[q].width
  <2>1. c \in Contents
    BY <1>2 DEF TypeInv
  <2> QED
    BY <2>1, ByteFacts
<1>6. PICK a \in Nat \ {0} : a = at
  BY <1>2 DEF TypeInv
<1>7. PICK h \in Nat : h = hand
  BY <1>2 DEF TypeInv
<1>8. PICK f \in Nat : f = frame_size
  BY <1>2 DEF TypeInv
<1>9. a <= h /\ b < f /\ f > 0 /\ h <= Length /\ Length \in Nat
  BY <1>1, <1>2, <1>4, <1>6, <1>7, <1>8, LengthAssumption DEF TypeInv, InCallback
<1>10. n = IF h - a + 1 < f - b THEN h - a + 1 ELSE f - b
  BY <1>4, <1>6, <1>7, <1>8 DEF Smaller, Rest
<1> HIDE DEF n
<1>11. n \in Nat /\ a + n <= h + 1 /\ b + n <= f
  BY <1>9, <1>10
<1>12. a = q + w + b
  BY <1>3, <1>4, <1>5, <1>6 DEF InFrame
<1>13. more \in Seq(Bytes) /\ Len(more) = n
  <2>1. \A i \in 1..n : at + i - 1 \in 1..Length
    BY <1>6, <1>9, <1>11
  <2>2. \A i \in 1..n : <<cs, at + i - 1>> \in Bytes
    BY <1>2, <2>1 DEF Bytes, TypeInv
  <2> QED
    BY <1>11, <2>2
<1>14. \A i \in 1..n : more[i] = <<cs, a + i - 1>>
  BY <1>6
<1> HIDE DEF more
<1>15. buffered \in Seq(Bytes)
  BY <1>2 DEF TypeInv
<1>16. copy \in Seq(Bytes) /\ Len(copy) = b + n
  BY <1>4, <1>13, <1>15, ConcatProperties, Zenon
<1>17. \A i \in 1..(b + n) : copy[i] = IF i <= b THEN buffered[i] ELSE more[i - b]
  BY <1>4, <1>13, <1>15, ConcatProperties, Zenon
<1> HIDE DEF copy
<1>18. ASSUME NEW i \in 1..Len(copy) PROVE copy[i] = <<cs, q + w + i - 1>>
  <2>1. i \in 1..(b + n)
    BY <1>16
  <2>2. CASE i <= b
    <3>1. i \in 1..b
      BY <2>1, <2>2
    <3>2. buffered[i] = <<cs, q + w + i - 1>>
      BY <1>3, <1>4, <1>5, <3>1 DEF InFrame
    <3> QED
      BY <1>17, <2>1, <2>2, <3>2
  <2>3. CASE ~(i <= b)
    <3>1. i - b \in 1..n /\ a + (i - b) - 1 = q + w + i - 1
      BY <1>11, <1>12, <2>1, <2>3
    <3>2. copy[i] = <<cs, a + (i - b) - 1>>
      BY <1>14, <1>17, <2>1, <2>3, <3>1
    <3> QED
      BY <3>1, <3>2
  <2> QED
    BY <2>2, <2>3
<1>19. Copied(q, n, copy)
  <2>1. at + n <= hand + 1 /\ Len(buffered) + n <= frame_size /\ Len(buffered) < frame_size
    BY <1>4, <1>6, <1>7, <1>8, <1>9, <1>11
  <2>2. Len(copy) = Len(buffered) + n
    BY <1>4, <1>16
  <2> QED
    BY <1>1, <1>3, <1>5, <1>11, <1>16, <1>18, <2>1, <2>2 DEF Copied
<1> QED
  BY <1>19, Zenon

\* Where a copy gets to.
LEMMA CopyEnds ==
  ASSUME TypeInv, NEW q \in 1..Length, NEW n, NEW copy, Copied(q, n, copy)
  PROVE  /\ cs \in Streams /\ cs' = cs /\ content' = content /\ q \in Boundary(content[cs])
         /\ \A s \in Streams : s # cs => Seen(s)' = Seen(s)
         /\ Seen(cs) \in 0..Length /\ at' - 1 \in 0..Length /\ Seen(cs)' = at' - 1
         /\ q - 1 <= Seen(cs) /\ Seen(cs) + 1 < EndOf(content[cs], q)
         /\ q - 1 <= at' - 1 /\ at' - 1 < EndOf(content[cs], q)
         /\ at' = EndOf(content[cs], q) <=> Len(copy) = frame_size
         /\ content[cs][q].value > 0
<1> DEFINE c == content[cs]
<1>1. /\ c \in Contents /\ cs \in Streams /\ cs' = cs /\ content' = content /\ pos' = pos
      /\ q \in Boundary(c)
  BY DEF TypeInv, Copied, InFrame
<1>2. PICK w \in Nat \ {0} : w = c[q].width
  BY <1>1, ByteFacts
<1>3. PICK v \in Nat : v = c[q].value /\ EndOf(c, q) = q + w + v
  BY <1>1, <1>2, ByteFacts
<1>4. PICK b \in Nat : b = Len(buffered)
  BY DEF TypeInv
<1>5. PICK a \in Nat \ {0} : a = at /\ a = q + w + b
  BY <1>2, <1>4 DEF TypeInv, Copied, InFrame
<1>6. PICK h \in Nat : h = hand /\ h <= Length
  BY LengthAssumption DEF TypeInv
<1>7. PICK d : d = at'
  OBVIOUS
<1>8. /\ n \in Nat /\ d = a + n /\ a + n <= h + 1 /\ b + n <= v /\ b < v
      /\ Len(copy) = b + n /\ frame_size = v
  BY <1>3, <1>4, <1>5, <1>6, <1>7 DEF Copied, InFrame
<1>9. \A s \in Streams : s # cs => Seen(s)' = Seen(s)
  BY <1>1 DEF Seen
<1>10. Seen(cs) = a - 1 /\ Seen(cs)' = d - 1
  BY <1>1, <1>5, <1>7 DEF Seen
<1>11. /\ a - 1 \in 0..Length /\ d - 1 \in 0..Length /\ q - 1 <= a - 1 /\ a < q + w + v
       /\ q - 1 <= d - 1 /\ d - 1 < q + w + v /\ (d = q + w + v <=> b + n = v)
       /\ (a - 1) + 1 = a /\ v > 0
  BY <1>5, <1>6, <1>8, LengthAssumption
<1>12. /\ Seen(cs) \in 0..Length /\ q - 1 <= Seen(cs) /\ Seen(cs) + 1 < EndOf(c, q)
  BY <1>3, <1>10, <1>11, Zenon
<1> QED
  BY <1>1, <1>3, <1>7, <1>8, <1>9, <1>10, <1>11, <1>12

LEMMA CopyStep ==
  ASSUME IndInv, ~lost, ~mixed, NEW q \in 1..Length, NEW n, NEW copy, Copied(q, n, copy)
  PROVE  FrameInv' /\ SavedInv'
<1> DEFINE c == content[cs]
           old == {r \in Boundary(c) : r < q /\ c[r].value > 0}
<1>1. TypeInv /\ FrameInv /\ SavedInv
  BY DEF IndInv
<1>2. /\ cs \in Streams /\ cs' = cs /\ content' = content /\ q \in Boundary(c)
      /\ \A s \in Streams : s # cs => Seen(s)' = Seen(s)
      /\ Seen(cs) \in 0..Length /\ at' - 1 \in 0..Length /\ Seen(cs)' = at' - 1
      /\ q - 1 <= Seen(cs) /\ Seen(cs) + 1 < EndOf(c, q)
      /\ q - 1 <= at' - 1 /\ at' - 1 < EndOf(c, q)
      /\ at' = EndOf(c, q) <=> Len(copy) = frame_size
      /\ c[q].value > 0
  BY <1>1, CopyEnds
<1>3. /\ c \in Contents /\ q <= Length /\ q \in Nat \ {0} /\ Length \in Nat
      /\ EndOf(c, q) \in Nat /\ c[q].width \in Nat \ {0} /\ c[q].value \in Nat
      /\ frame_size = c[q].value /\ EndOf(c, q) = q + c[q].width + c[q].value
  <2>1. c \in Contents /\ Length \in Nat /\ q <= Length /\ q \in Nat \ {0}
    BY <1>1, LengthAssumption DEF TypeInv
  <2> QED
    BY <2>1, ByteFacts DEF Copied, InFrame
<1>4. Complete(cs, Seen(cs)) = old
  <2>1. Seen(cs) < EndOf(c, q) /\ Seen(cs) + 1 # EndOf(c, q)
    BY <1>2, <1>3
  <2> QED
    BY <1>1, <1>2, <1>3, <2>1, CompleteFacts
<1>5. PICK e \in 0..Length : e = at' - 1 /\ (e + 1 = EndOf(c, q) <=> Len(copy) = frame_size)
  <2>1. PICK d : d = at'
    OBVIOUS
  <2>2. d - 1 \in 0..Length /\ (d = EndOf(c, q) <=> Len(copy) = frame_size)
    BY <1>2, <2>1
  <2>3. d - 1 + 1 = EndOf(c, q) <=> d = EndOf(c, q)
    <3>1. at' \in Nat
      BY <1>1 DEF Copied, TypeInv
    <3> QED
      BY <1>3, <2>1, <3>1
  <2> QED
    BY <2>1, <2>2, <2>3
<1>6. Complete(cs, e) = old \cup (IF Len(copy) = frame_size THEN {q} ELSE {})
  <2>1. q - 1 <= e /\ e < EndOf(c, q)
    BY <1>2, <1>5
  <2> QED
    BY <1>1, <1>2, <1>3, <1>5, <2>1, CompleteFacts
<1>7. \A s, r : FrameAt(s, r)' = FrameAt(s, r)
  BY <1>2 DEF FrameAt
<1>8. \A s \in Streams : Complete(s, Seen(s))' =
         IF s = cs THEN Complete(cs, e) ELSE Complete(s, Seen(s))
  <2>1. ASSUME NEW s \in Streams
        PROVE  Complete(s, Seen(s))' = IF s = cs THEN Complete(cs, e) ELSE Complete(s, Seen(s))
    <3>1. Complete(s, Seen(s))' = Complete(s, Seen(s)')
      BY <1>2 DEF Complete
    <3>2. s = cs => Seen(s)' = e
      BY <1>2, <1>5 DEF Seen
    <3> QED
      BY <1>2, <3>1, <3>2
  <2> QED
    BY <2>1
<1>9. CASE Len(copy) # frame_size
  <2>1. UNCHANGED <<saved, frame_size>> /\ buffered' = copy
    BY <1>9 DEF Copied
  <2>2. \A s \in Streams : Complete(s, Seen(s))' = Complete(s, Seen(s))
    BY <1>4, <1>6, <1>8, <1>9
  <2>3. SavedInv'
    <3> SUFFICES ASSUME NEW s \in Streams
                 PROVE  /\ {saved'[i] : i \in Mine(s)'} =
                             {FrameAt(s, r)' : r \in Complete(s, Seen(s))'}
                        /\ \A i, j \in Mine(s)' : i < j => saved'[i][1][2] < saved'[j][1][2]
      BY DEF SavedInv
    <3>1. {FrameAt(s, r)' : r \in Complete(s, Seen(s))'} = {FrameAt(s, r) : r \in Complete(s, Seen(s))}
      BY <1>7, <2>2
    <3>2. Mine(s)' = Mine(s)
      BY <2>1 DEF Mine
    <3> QED
      BY <1>1, <2>1, <3>1, <3>2 DEF SavedInv
  <2>4. InFrame(q)'
    <3>1. at' = q + c[q].width + Len(copy)
      <4>1. PICK b \in Nat : b = Len(buffered)
        BY <1>1 DEF TypeInv
      <4>2. PICK w \in Nat : w = c[q].width
        BY <1>3
      <4>3. at' = at + n /\ at = q + w + b /\ Len(copy) = b + n /\ n \in Nat
        BY <4>1, <4>2 DEF Copied, InFrame
      <4>4. q + w + b + n = q + w + (b + n)
        BY <4>3
      <4> QED
        BY <4>2, <4>3, <4>4, Zenon
    <3>2. \A i \in 1..Len(copy) : copy[i] = <<cs, q + c[q].width + i - 1>>
      BY DEF Copied
    <3> QED
      BY <1>2, <1>3, <2>1, <3>1, <3>2 DEF InFrame
  <2>5. FrameInv'
    <3>1. frame_size' # 0
      BY <1>2, <1>3, <2>1
    <3>2. \A s \in Streams : s # cs => (Seen(s) + 1 \in Boundary(content[s]))'
      BY <1>1, <1>2 DEF FrameInv
    <3> QED
      BY <1>2, <2>4, <3>1, <3>2 DEF FrameInv
  <2> QED
    BY <2>3, <2>5
<1>10. CASE Len(copy) = frame_size
  <2>1. saved' = Append(saved, copy) /\ frame_size' = 0
    BY <1>10 DEF Copied
  <2>2. copy = FrameAt(cs, q)
    <3>1. copy = [i \in 1..Len(copy) |-> copy[i]]
      BY DEF Copied
    <3>2. \A i \in 1..Len(copy) : copy[i] = <<cs, q + c[q].width + i - 1>>
      BY DEF Copied
    <3> QED
      BY <1>3, <1>10, <3>1, <3>2 DEF FrameAt
  <2>3. copy[1] = <<cs, q + c[q].width>>
    <3>1. 1 \in 1..Len(copy)
      BY <1>2, <1>3, <1>10
    <3>2. copy[1] = <<cs, q + c[q].width + 1 - 1>>
      BY <3>1 DEF Copied
    <3>3. q + c[q].width + 1 - 1 = q + c[q].width
      BY <1>3
    <3> QED
      BY <3>2, <3>3
  <2>4. PICK l \in Nat : /\ l = Len(saved) /\ DOMAIN saved = 1..l /\ DOMAIN saved' = 1..(l + 1)
                         /\ saved'[l + 1] = copy /\ \A i \in 1..l : saved'[i] = saved[i]
    <3>1. saved \in Seq(Seq(Bytes)) /\ copy \in Seq(Bytes)
      BY <1>1 DEF TypeInv, Copied
    <3> QED
      BY <2>1, <3>1
  <2>5. \A i : i \in 1..(l + 1) <=> i \in 1..l \/ i = l + 1
    OBVIOUS
  <2>6. \A i \in 1..l : i < l + 1 /\ ~(l + 1 < i) /\ i # l + 1
    OBVIOUS
  <2>7. \A s \in Streams : /\ Mine(s) \subseteq 1..l
                           /\ Mine(s)' = IF s = cs THEN Mine(s) \cup {l + 1} ELSE Mine(s)
    <3>1. copy[1][1] = cs
      BY <2>3
    <3> QED
      BY <2>4, <2>5, <2>6, <3>1, Zenon DEF Mine
  <2>8. ASSUME NEW s \in Streams, s # cs
        PROVE  /\ {saved'[i] : i \in Mine(s)'} =
                    {FrameAt(s, r)' : r \in Complete(s, Seen(s))'}
               /\ \A i, j \in Mine(s)' : i < j => saved'[i][1][2] < saved'[j][1][2]
    <3>1. {FrameAt(s, r)' : r \in Complete(s, Seen(s))'} = {FrameAt(s, r) : r \in Complete(s, Seen(s))}
      BY <1>7, <1>8, <2>8
    <3>2. Mine(s)' = Mine(s) /\ \A i \in Mine(s) : saved'[i] = saved[i]
      BY <2>4, <2>7, <2>8
    <3>3. {saved'[i] : i \in Mine(s)'} = {saved[i] : i \in Mine(s)}
      BY <3>2
    <3> QED
      BY <1>1, <3>1, <3>2, <3>3 DEF SavedInv
  <2>9. ASSUME NEW s \in Streams, s = cs
        PROVE  /\ {saved'[i] : i \in Mine(s)'} =
                    {FrameAt(s, r)' : r \in Complete(s, Seen(s))'}
               /\ \A i, j \in Mine(s)' : i < j => saved'[i][1][2] < saved'[j][1][2]
    <3>1. Complete(s, Seen(s)) = old /\ Complete(s, Seen(s))' = old \cup {q}
      BY <1>4, <1>6, <1>8, <1>10, <2>9
    <3>2. {FrameAt(s, r)' : r \in Complete(s, Seen(s))'} = {FrameAt(s, r) : r \in old} \cup {copy}
      BY <1>7, <2>2, <2>9, <3>1
    <3>3. Mine(s)' = Mine(s) \cup {l + 1} /\ \A i \in Mine(s) : saved'[i] = saved[i]
      BY <2>4, <2>7, <2>9
    <3>4. {saved'[i] : i \in Mine(s)'} = {saved[i] : i \in Mine(s)} \cup {copy}
      BY <2>4, <3>3
    <3>5. {saved[i] : i \in Mine(s)} = {FrameAt(s, r) : r \in old}
      BY <1>1, <3>1 DEF SavedInv
    <3>6. ASSUME NEW i \in Mine(s) PROVE saved[i][1][2] < copy[1][2]
      <4>1. PICK r \in old : saved[i] = FrameAt(s, r)
        BY <3>5
      <4>2. r \in 1..Length
        BY <1>3, BoundaryFacts
      <4>3. /\ c[r].width \in Nat \ {0} /\ c[r].value \in Nat /\ c[r].value > 0
            /\ EndOf(c, r) = r + c[r].width + c[r].value /\ EndOf(c, r) <= q /\ r \in Nat
        <5>1. EndOf(c, r) <= q
          BY <1>2, <1>3, Chain
        <5>2. /\ c[r].width \in Nat \ {0} /\ c[r].value \in Nat
              /\ EndOf(c, r) = r + c[r].width + c[r].value
          BY <1>3, <4>2, ByteFacts
        <5> QED
          BY <4>2, <5>1, <5>2
      <4>4. saved[i][1] = <<s, r + c[r].width + 1 - 1>>
        <5>1. 1 \in 1..c[r].value
          BY <4>3
        <5> QED
          BY <2>9, <4>1, <5>1 DEF FrameAt
      <4>5. r + c[r].width + 1 - 1 < q + c[q].width
        BY <1>3, <4>3
      <4> QED
        BY <2>3, <4>4, <4>5
    <3>7. \A i, j \in Mine(s)' : i < j => saved'[i][1][2] < saved'[j][1][2]
      <4> SUFFICES ASSUME NEW i \in Mine(s)', NEW j \in Mine(s)', i < j
                   PROVE  saved'[i][1][2] < saved'[j][1][2]
        OBVIOUS
      <4>1. i \in Mine(s) /\ (j \in Mine(s) \/ j = l + 1)
        <5>1. ~(l + 1 < l + 1)
          OBVIOUS
        <5> QED
          BY <2>6, <2>7, <3>3, <5>1
      <4>2. CASE j \in Mine(s)
        BY <1>1, <3>3, <4>1, <4>2 DEF SavedInv
      <4>3. CASE j = l + 1
        BY <2>4, <3>3, <3>6, <4>1, <4>3
      <4> QED
        BY <4>1, <4>2, <4>3
    <3> QED
      BY <3>2, <3>4, <3>5, <3>7
  <2>10. SavedInv'
    BY <2>8, <2>9 DEF SavedInv
  <2>11. FrameInv'
    <3>1. \A s \in Streams : s # cs => (Seen(s) + 1 \in Boundary(content[s]))'
      BY <1>1, <1>2 DEF FrameInv
    <3>2. e + 1 \in Boundary(c)
      <4>1. e + 1 = EndOf(c, q) /\ EndOf(c, q) <= Length + 1
        BY <1>3, <1>5, <1>10
      <4> QED
        BY <1>2, <1>3, <4>1, NextBoundary
    <3>3. \A s \in Streams : s = cs => (Seen(s) + 1 \in Boundary(content[s]))'
      BY <1>2, <1>5, <3>2 DEF Seen
    <3> QED
      BY <2>1, <3>1, <3>3 DEF FrameInv
  <2> QED
    BY <2>10, <2>11
<1> QED
  BY <1>9, <1>10
-----------------------------------------------------------------------------
LEMMA IndInit == Init => IndInv
<1> SUFFICES ASSUME Init PROVE IndInv
  OBVIOUS
<1>1. TypeInv
  BY LengthAssumption DEF Init, TypeInv
<1>2. \A s \in Streams : Seen(s) = 0
  BY DEF Init, Seen
<1>3. ASSUME NEW s \in Streams PROVE 1 \in Boundary(content[s]) /\ Complete(s, 0) = {}
  <2>1. content[s] \in Contents /\ 1 \in 1..(Length + 1)
    BY LengthAssumption DEF Init
  <2> QED
    BY <2>1, BoundaryFacts DEF Complete
<1>4. FrameInv
  BY <1>2, <1>3 DEF Init, FrameInv
<1>5. SavedInv
  <2>1. \A s : Mine(s) = {}
    BY DEF Init, Mine
  <2> QED
    BY <1>2, <1>3, <2>1 DEF SavedInv
<1> QED
  BY <1>1, <1>4, <1>5 DEF IndInv

LEMMA IndStep == IndInv /\ [Next]_vars => IndInv'
<1> SUFFICES ASSUME IndInv, [Next]_vars PROVE IndInv'
  OBVIOUS
<1>1. CASE Next
  <2>1. TypeInv'
    BY <1>1, TypeStep DEF IndInv
  <2>2. ASSUME ~lost', ~mixed' PROVE FrameInv' /\ SavedInv'
    <3>1. CASE \/ \E s \in Streams : Deliver(s)
               \/ CloseEvent \/ Sigint \/ MainLeaves \/ LoopFails \/ Cleanup \/ QuicFree
      BY <2>2, <3>1, EventStep
    <3>2. CASE (\E s \in Streams : Fin(s)) \/ PartialLength
      BY <2>2, <3>2 DEF Fin, PartialLength
    <3>3. CASE ReadLength
      <4>1. ~lost /\ ~mixed
        BY <2>2, <3>3 DEF ReadLength
      <4> QED
        BY <3>3, <4>1, LengthStep
    <3>4. CASE CopyPayload
      <4>1. ~lost /\ ~mixed
        BY <2>2, <3>4 DEF CopyPayload
      <4> QED
        BY <3>4, <4>1, CopyFacts, CopyStep, Zenon
    <3> QED
      BY <1>1, <3>1, <3>2, <3>3, <3>4 DEF Next, CallbackStep
  <2> QED
    BY <2>1, <2>2 DEF IndInv
<1>2. CASE UNCHANGED vars
  <2>1. /\ UNCHANGED <<content, pos, cs, at, hand, frame_size, buffered, saved>>
        /\ UNCHANGED <<lost, mixed>>
    BY <1>2 DEF vars, streamVars, parserVars
  <2>2. TypeInv'
    BY <2>1 DEF IndInv, TypeInv
  <2>3. \A s : Seen(s)' = Seen(s)
    BY <2>1 DEF Seen
  <2>4. cs' \in Streams
    BY <2>1 DEF IndInv, TypeInv
  <2>5. ASSUME ~lost', ~mixed' PROVE FrameInv' /\ SavedInv'
    <3>1. TypeInv /\ FrameInv /\ SavedInv
      BY <2>1, <2>5 DEF IndInv
    <3> QED
      BY <2>1, <2>3, <2>4, <3>1, NoByte
  <2> QED
    BY <2>2, <2>5 DEF IndInv
<1> QED
  BY <1>1, <1>2

\* Where the one parser of all streams is, and what was saved.
THEOREM Invariance == Spec => []IndInv
BY IndInit, IndStep, PTL DEF Spec

\* The frames saved do not depend on the chunks, but for the three cases named.
THEOREM ChunksDoNotMatterHolds == Spec => []ChunksDoNotMatter
<1>1. IndInv => ChunksDoNotMatter
  <2> SUFFICES ASSUME IndInv, ~lost, ~mixed, NEW s \in Streams
               PROVE  /\ {saved[i] : i \in Mine(s)} =
                           {FrameAt(s, q) : q \in Complete(s, Parsed(s))}
                      /\ \A i, j \in Mine(s) : i < j => saved[i][1][2] < saved[j][1][2]
    BY DEF ChunksDoNotMatter, Mine
  <2>1. Parsed(s) = Seen(s)
    BY DEF IndInv, TypeInv, Parsed, Seen, InCallback
  <2> QED
    BY <2>1 DEF IndInv, SavedInv
<1> QED
  BY <1>1, Invariance, PTL
=============================================================================
