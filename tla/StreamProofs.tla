---------------------------- MODULE StreamProofs ----------------------------
(***************************************************************************)
(* Proofs about the streams of frames, at both ends:                       *)
(*  - WtReceiver, the client that cuts them into frames, for any number of *)
(*    streams, any contents, any chunks and any limits;                    *)
(*  - PathBinding, the server that opens one for every path, for any set   *)
(*    of paths, any MAX_PATHS and any round-trip times.                    *)
(* The two share no state; a module stands for one of them at a time.      *)
(***************************************************************************)
EXTENDS PathBinding, WtReceiver, SequenceTheorems, WellFoundedInduction, TLAPS

-----------------------------------------------------------------------------
(* WtReceiver: what its proofs speak of                                    *)

ByteRecords == [width : Nat \ {0}, value : Nat, byte : {"FF", "D8", "D9", "x"}]

\* The bytes of a stream, and the frames made of them.
Of(s) == {s} \X Nat
Frames(s) == Seq(Of(s)) \ {<<>>}

States(s) == [header_ok : BOOLEAN, buf : Seq(Of(s)), cap : Nat, cur_len : Nat, pts_len : Nat,
              use_len_framing : BOOLEAN]

\* payload_need of a state: what is gathered of a frame is no more than its payload, and
\* fits its buffer.
NeedOf(r) == IF r.cur_len > r.pts_len THEN r.cur_len - r.pts_len ELSE 0
Framed(r) == r.use_len_framing => Len(r.buf) <= NeedOf(r)
Fits(r) == Len(r.buf) <= r.cap /\ (r.use_len_framing => NeedOf(r) <= r.cap)

TypeInv ==
  /\ content \in [Streams -> Seq(ByteRecords)]
  /\ pos \in [Streams -> Nat] /\ \A s \in Streams : pos[s] <= Len(content[s])
  /\ cs \in Streams /\ at \in Nat \ {0} /\ hand \in Nat /\ hand = pos[cs] /\ at <= hand + 1
  /\ st = [s \in Streams |-> st[s]] /\ \A s \in Streams : st[s] \in States(s) /\ Framed(st[s])
  /\ handed \in Seq(UNION {Frames(s) : s \in Streams}) /\ saved \in Nat
  /\ bare \in [Streams -> SUBSET Nat]
  /\ odd \subseteq Streams /\ outgrown \subseteq Streams /\ g_running \in BOOLEAN

\* A turn of the loop: the state of the stream becomes r, and frames are saved.
TurnTo(r, frames) ==
  /\ InCall /\ UNCHANGED <<content, pos, cs, hand>>
  /\ at' \in Nat \ {0} /\ at' <= hand + 1
  /\ r \in States(cs) /\ Framed(r) /\ st' = [st EXCEPT ![cs] = r]
  /\ frames \in Seq(Frames(cs)) /\ handed' = handed \o frames /\ saved' \in Nat
  /\ \E b \in SUBSET Nat : bare' = [bare EXCEPT ![cs] = b]
  /\ odd \subseteq odd' /\ odd' \subseteq odd \cup {cs}
  /\ g_running' \in BOOLEAN /\ (g_running' => g_running)
  /\ outgrown' \subseteq outgrown \cup {cs} /\ outgrown \subseteq outgrown' \cup {cs}
  /\ cs \notin outgrown' => Fits(r)

\* A set of numbers has a least element.
LEMMA Least ==
  ASSUME NEW S \in SUBSET Nat, S # {}
  PROVE  \E m \in S : \A k \in S : m <= k
<1>1. PICK m \in S : \A k \in S : <<k, m>> \notin OpToRel(<, Nat)
  BY NatLessThanWellFounded, WFMin, Zenon
<1>2. \A k \in S : ~(k < m)
  <2> SUFFICES ASSUME NEW k \in S, k < m PROVE FALSE
    BY Zenon
  <2>1. <<k, m>> \in Nat \X Nat /\ <<k, m>>[1] = k /\ <<k, m>>[2] = m
    OBVIOUS
  <2>2. <<k, m>> \in OpToRel(<, Nat)
    BY <2>1, Zenon DEF OpToRel
  <2> QED
    BY <1>1, <2>2, Zenon
<1> QED
  BY <1>2
-----------------------------------------------------------------------------
(* extract_jpegs                                                           *)

LEMMA FirstFacts ==
  ASSUME NEW S \in SUBSET Nat, S # {}
  PROVE  First(S) \in S
<1>1. \E i \in S : \A j \in S : i <= j
  BY Least
<1> QED
  BY <1>1 DEF First

\* A part of a sequence.
LEMMA PartFacts ==
  ASSUME NEW B, NEW buf \in Seq(B), NEW i \in 1..(Len(buf) + 1), NEW j \in (i - 1)..Len(buf)
  PROVE  SubSeq(buf, i, j) \in Seq(B) /\ Len(SubSeq(buf, i, j)) = j - i + 1
BY SubSeqProperties

\* What is found consists of bytes of the buffer, and what is left is no longer than it.
LEMMA ExtractFacts ==
  ASSUME NEW B, NEW buf \in Seq(B)
  PROVE  /\ extract_jpegs(buf).rest \in Seq(B) /\ Len(extract_jpegs(buf).rest) <= Len(buf)
         /\ extract_jpegs(buf).frames \in Seq(Seq(B) \ {<<>>})
<1> DEFINE begins(p) == {i \in p..Len(buf) : Marker(buf, i, "D8")}
           ends(p) == {i \in (First(begins(p)) + 2)..Len(buf) : Marker(buf, i, "D9")}
           stop(p) == begins(p) = {} \/ ends(p) = {}
           next(p) == First(ends(p)) + 2
           kept(p) == SubSeq(buf, IF Len(buf) - p + 1 > Kept THEN Len(buf) - Kept + 1 ELSE p,
                             Len(buf))
           tail(p) == SubSeq(buf, First(begins(p)), Len(buf))
           left(p) == IF begins(p) = {} THEN kept(p) ELSE tail(p)
           jpeg(p) == SubSeq(buf, First(begins(p)), First(ends(p)) + 1)
           Body(f, p) ==
             CASE begins(p) = {} -> [rest |-> kept(p), frames |-> <<>>]
               [] begins(p) # {} /\ ends(p) = {} -> [rest |-> tail(p), frames |-> <<>>]
               [] OTHER -> [rest |-> f[next(p)].rest, frames |-> <<jpeg(p)>> \o f[next(p)].frames]
           Eq(f) == f = [p \in 1..(Len(buf) + 1) |-> Body(f, p)]
           from == CHOOSE f : Eq(f)
<1>1. PICK n \in Nat : n = Len(buf)
  OBVIOUS
<1>2. extract_jpegs(buf) = from[1]
  BY DEF extract_jpegs
<1>3. Kept \in Nat
  BY NumbersAssumption
<1>4. ASSUME NEW p \in 1..(n + 1), begins(p) = {} PROVE kept(p) \in Seq(B) /\ Len(kept(p)) <= n
  <2> DEFINE i == IF n - p + 1 > Kept THEN n - Kept + 1 ELSE p
  <2>1. i \in 1..(n + 1) /\ n \in (i - 1)..n /\ n - i + 1 <= n
    BY <1>3
  <2> HIDE DEF i
  <2>2. SubSeq(buf, i, n) \in Seq(B) /\ Len(SubSeq(buf, i, n)) = n - i + 1
    BY <1>1, <2>1, PartFacts
  <2>3. kept(p) = SubSeq(buf, i, n)
    BY <1>1 DEF i
  <2> QED
    BY <2>1, <2>2, <2>3
<1>5. ASSUME NEW p \in 1..(n + 1), begins(p) # {}
      PROVE  First(begins(p)) \in p..n
  <2>1. begins(p) \in SUBSET Nat /\ begins(p) \subseteq p..n
    BY <1>1
  <2> QED
    BY <1>5, <2>1, FirstFacts
<1>6. ASSUME NEW p \in 1..(n + 1), begins(p) # {}
      PROVE  tail(p) \in Seq(B) /\ Len(tail(p)) <= n
  <2>1. PICK i \in p..n : i = First(begins(p))
    BY <1>5, <1>6
  <2>2. i \in 1..(n + 1) /\ n \in (i - 1)..n /\ n - i + 1 <= n
    BY <2>1
  <2>3. SubSeq(buf, i, n) \in Seq(B) /\ Len(SubSeq(buf, i, n)) = n - i + 1
    BY <1>1, <2>2, PartFacts
  <2> QED
    BY <1>1, <2>1, <2>2, <2>3
<1>7. ASSUME NEW p \in 1..(n + 1), ~stop(p)
      PROVE  jpeg(p) \in Seq(B) \ {<<>>} /\ next(p) \in 1..(n + 1) /\ next(p) > p
  <2>1. PICK i \in p..n : i = First(begins(p))
    BY <1>5, <1>7
  <2>2. ends(p) \in SUBSET Nat /\ \A k \in ends(p) : k \in (i + 2)..n /\ k + 1 <= n
    <3>1. \A k : Marker(buf, k, "D9") => k + 1 <= n
      BY <1>1 DEF Marker
    <3>2. ends(p) = {k \in (i + 2)..n : Marker(buf, k, "D9")}
      BY <1>1, <2>1
    <3>3. \A k \in (i + 2)..n : k \in Nat
      BY <2>1
    <3> HIDE DEF ends
    <3> QED
      BY <3>1, <3>2, <3>3
  <2>3. PICK e \in (i + 2)..n : e = First(ends(p)) /\ e + 1 <= n
    BY <1>7, <2>2, FirstFacts
  <2>4. i \in 1..(n + 1) /\ e + 1 \in (i - 1)..n /\ (e + 1) - i + 1 > 0
    BY <2>1, <2>3
  <2>5. SubSeq(buf, i, e + 1) \in Seq(B) /\ Len(SubSeq(buf, i, e + 1)) = (e + 1) - i + 1
    BY <1>1, <2>4, PartFacts
  <2>6. SubSeq(buf, i, e + 1) # <<>>
    <3>1. PICK s : s = SubSeq(buf, i, e + 1)
      OBVIOUS
    <3>2. Len(s) > 0
      BY <2>4, <2>5, <3>1, Zenon
    <3>3. s # <<>>
      BY <3>2
    <3> QED
      BY <3>1, <3>3, Zenon
  <2>7. e + 2 \in 1..(n + 1) /\ e + 2 > p
    BY <2>1, <2>3
  <2> HIDE DEF begins, ends
  <2> QED
    BY <2>1, <2>3, <2>5, <2>6, <2>7
<1>8. \A f, p : Body(f, p) = IF stop(p) THEN [rest |-> left(p), frames |-> <<>>]
                            ELSE [rest |-> f[next(p)].rest, frames |-> <<jpeg(p)>> \o f[next(p)].frames]
  <2> HIDE DEF begins, ends, kept, tail, jpeg, next
  <2> QED
    OBVIOUS
<1>9. ASSUME NEW p \in 1..(n + 1), stop(p) PROVE left(p) \in Seq(B) /\ Len(left(p)) <= n
  BY <1>4, <1>6
<1> HIDE DEF begins, ends, stop, next, kept, tail, left, jpeg, Body
<1> DEFINE Solves(f, j) == \A p \in 1..(n + 1) : n + 1 < p + j => f[p] = Body(f, p)
           D == 1..(n + 1)
           J == {j \in 0..(n + 1) : ~ \E f : f = [p \in D |-> f[p]] /\ Solves(f, j)}
<1>10. J = {}
  <2> SUFFICES ASSUME J # {} PROVE FALSE
    OBVIOUS
  <2>1. PICK j \in J : \A k \in J : j <= k
    <3>1. J \in SUBSET Nat
      OBVIOUS
    <3> HIDE DEF J
    <3> QED
      BY <3>1, Least
  <2>2. j # 0
    <3> SUFFICES ASSUME j = 0 PROVE FALSE
      OBVIOUS
    <3>1. Solves([p \in D |-> 0], 0)
      OBVIOUS
    <3> QED
      BY <2>1, <3>1
  <2>3. j - 1 \in 0..(n + 1) /\ j - 1 \notin J
    <3>1. j \in 0..(n + 1)
      OBVIOUS
    <3> HIDE DEF J
    <3> QED
      BY <2>1, <2>2, <3>1
  <2>4. PICK f : f = [p \in D |-> f[p]] /\ Solves(f, j - 1)
    BY <2>3
  <2> DEFINE k == n + 2 - j
             g == [p \in D |-> IF p = k THEN Body(f, k) ELSE f[p]]
  <2>5. k \in D
    BY <2>2
  <2>6. \A p \in D : n + 1 < p + j <=> p = k \/ n + 1 < p + (j - 1)
    BY <2>1, <2>2
  <2>7. \A p \in D : n + 1 < p + (j - 1) => p > k
    BY <2>1, <2>2
  <2> HIDE DEF k
  <2>8. ASSUME NEW p \in D, p = k \/ p > k PROVE Body(g, p) = Body(f, p)
    <3>1. CASE stop(p)
      BY <1>8, <3>1
    <3>2. CASE ~stop(p)
      <4>1. next(p) \in D /\ next(p) # k
        BY <1>7, <2>5, <2>8, <3>2
      <4>2. g[next(p)] = f[next(p)]
        BY <4>1
      <4> HIDE DEF g
      <4> QED
        BY <1>8, <3>2, <4>2
    <3> QED
      BY <3>1, <3>2
  <2>9. Solves(g, j)
    <3> SUFFICES ASSUME NEW p \in D, n + 1 < p + j PROVE g[p] = Body(g, p)
      OBVIOUS
    <3>1. CASE p = k
      <4>1. g[p] = Body(f, k)
        BY <3>1
      <4> HIDE DEF g
      <4> QED
        BY <2>8, <3>1, <4>1
    <3>2. CASE p # k
      <4>1. n + 1 < p + (j - 1) /\ p > k
        BY <2>6, <2>7, <3>2
      <4>2. g[p] = f[p]
        BY <3>2
      <4> HIDE DEF g
      <4> QED
        BY <2>4, <2>8, <4>1, <4>2
    <3> QED
      BY <3>1, <3>2
  <2>10. g = [p \in D |-> g[p]]
    OBVIOUS
  <2> HIDE DEF g, Solves
  <2> QED
    BY <2>1, <2>9, <2>10
<1>11. Eq(from)
  <2>1. n + 1 \in 0..(n + 1)
    OBVIOUS
  <2>2. PICK f : f = [p \in D |-> f[p]] /\ Solves(f, n + 1)
    BY <1>10, <2>1
  <2>3. \A p \in D : n + 1 < p + (n + 1)
    OBVIOUS
  <2>4. Eq(f)
    BY <1>1, <2>2, <2>3
  <2> HIDE DEF Eq
  <2> QED
    BY <2>4
<1> HIDE DEF from
<1>12. \A p \in D : from[p] = Body(from, p)
  BY <1>1, <1>11
<1> DEFINE Good(r) == r.rest \in Seq(B) /\ Len(r.rest) <= n /\ r.frames \in Seq(Seq(B) \ {<<>>})
           K == {j \in 0..n : ~Good(from[n + 1 - j])}
<1>13. K = {}
  <2> SUFFICES ASSUME K # {} PROVE FALSE
    OBVIOUS
  <2>1. PICK j \in K : \A k \in K : j <= k
    <3>1. K \in SUBSET Nat
      OBVIOUS
    <3> HIDE DEF K
    <3> QED
      BY <3>1, Least
  <2>2. PICK p \in D : p = n + 1 - j
    OBVIOUS
  <2>3. ~Good(from[p])
    BY <2>2
  <2>4. CASE stop(p)
    <3>1. from[p] = [rest |-> left(p), frames |-> <<>>]
      BY <1>8, <1>12, <2>4
    <3>2. <<>> \in Seq(Seq(B) \ {<<>>})
      OBVIOUS
    <3> QED
      BY <1>9, <2>3, <2>4, <3>1, <3>2
  <2>5. CASE ~stop(p)
    <3>1. PICK q \in D : q = next(p) /\ q > p
      BY <1>7, <2>5
    <3>2. n + 1 - q \in 0..n /\ n + 1 - q < j /\ n + 1 - (n + 1 - q) = q /\ j \in Nat
      BY <2>2, <3>1
    <3>3. n + 1 - q \notin K
      <4> HIDE DEF K
      <4> QED
        BY <2>1, <3>2
    <3>4. Good(from[q])
      BY <3>2, <3>3
    <3>5. from[p] = [rest |-> from[q].rest, frames |-> <<jpeg(p)>> \o from[q].frames]
      BY <1>8, <1>12, <2>5, <3>1
    <3>6. jpeg(p) \in Seq(B) \ {<<>>}
      BY <1>7, <2>5
    <3>7. <<jpeg(p)>> \o from[q].frames \in Seq(Seq(B) \ {<<>>})
      <4>1. PICK F : F = Seq(B) \ {<<>>}
        OBVIOUS
      <4>2. <<jpeg(p)>> \in Seq(F) /\ from[q].frames \in Seq(F)
        BY <3>4, <3>6, <4>1
      <4> QED
        BY <4>1, <4>2, ConcatProperties, Zenon
    <3>8. Good(from[p])
      BY <3>4, <3>5, <3>7
    <3> QED
      BY <2>3, <3>8
  <2> QED
    BY <2>4, <2>5
<1>14. Good(from[1])
  <2>1. n \in 0..n /\ n + 1 - n = 1
    OBVIOUS
  <2> HIDE DEF Good
  <2> QED
    BY <1>13, <2>1
<1> QED
  BY <1>1, <1>2, <1>14
-----------------------------------------------------------------------------
(* The types, and what fits                                                *)

LEMMA Here1 ==
  ASSUME TypeInv, InCall
  PROVE  /\ cs \in Streams /\ content[cs] \in Seq(ByteRecords) /\ st[cs] \in States(cs)
         /\ hand \in Nat /\ hand <= Len(content[cs]) /\ at \in 1..hand
         /\ \A p \in 1..hand : Here(p).width \in Nat \ {0} /\ Here(p).value \in Nat
<1>1. /\ cs \in Streams /\ content[cs] \in Seq(ByteRecords) /\ st[cs] \in States(cs)
      /\ hand \in Nat /\ hand <= Len(content[cs]) /\ at \in Nat \ {0} /\ at <= hand
  BY DEF TypeInv, InCall
<1>2. ASSUME NEW p \in 1..hand PROVE Here(p).width \in Nat \ {0} /\ Here(p).value \in Nat
  <2>1. p \in 1..Len(content[cs])
    BY <1>1
  <2>2. content[cs][p] \in ByteRecords
    BY <1>1, <2>1, ElementOfSeq, Zenon
  <2> QED
    BY <2>2 DEF Here, ByteRecords
<1> QED
  BY <1>1, <1>2

LEMMA WholeFacts ==
  ASSUME TypeInv, InCall, NEW p \in Nat \ {0}, Whole(p)
  PROVE  p \in 1..hand /\ Here(p).width \in Nat \ {0} /\ p + Here(p).width \in Nat \ {0}
         /\ p + Here(p).width <= hand + 1 /\ Here(p).value \in Nat
<1>1. p \in 1..hand /\ hand \in Nat
  BY Here1 DEF Whole
<1>2. Here(p).width \in Nat \ {0} /\ Here(p).value \in Nat
  BY <1>1, Here1
<1>3. p + Here(p).width - 1 <= hand
  BY DEF Whole
<1> QED
  BY <1>1, <1>2, <1>3

LEMMA NewType ==
  ASSUME NEW s, NEW c \in Nat
  PROVE  /\ [New EXCEPT !.header_ok = TRUE, !.cap = c] \in States(s)
         /\ Fits([New EXCEPT !.header_ok = TRUE, !.cap = c])
         /\ Framed([New EXCEPT !.header_ok = TRUE, !.cap = c])
         /\ New \in States(s) /\ Fits(New) /\ Framed(New)
<1>1. FirstCap \in Nat /\ <<>> \in Seq(Of(s)) /\ Len(<<>>) = 0
  BY NumbersAssumption
<1> DEFINE r == [New EXCEPT !.header_ok = TRUE, !.cap = c]
<1>2. New \in States(s) /\ New.buf = <<>> /\ New.use_len_framing = FALSE
  BY <1>1 DEF New, States
<1>3. r \in States(s) /\ r.buf = <<>> /\ r.cap = c /\ r.use_len_framing = FALSE
  BY <1>2 DEF States
<1> HIDE DEF r
<1>4. Fits(r) /\ Framed(r)
  BY <1>1, <1>3 DEF Fits, Framed
<1>5. Fits(New) /\ Framed(New)
  BY <1>1 DEF Fits, Framed, New
<1> QED
  BY <1>2, <1>3, <1>4, <1>5 DEF r

LEMMA SameTurn ==
  ASSUME TypeInv, BufferFits
  PROVE  /\ st[cs] \in States(cs) /\ Framed(st[cs]) /\ st = [st EXCEPT ![cs] = st[cs]]
         /\ <<>> \in Seq(Frames(cs)) /\ handed \o <<>> = handed
         /\ bare[cs] \in SUBSET Nat /\ bare = [bare EXCEPT ![cs] = bare[cs]]
         /\ saved \in Nat /\ (cs \notin outgrown => Fits(st[cs]))
<1>1. st[cs] \in States(cs) /\ Framed(st[cs]) /\ cs \in Streams /\ st = [s \in Streams |-> st[s]]
  BY DEF TypeInv
<1>2. handed \o <<>> = handed
  BY ConcatEmptySeq DEF TypeInv
<1>3. cs \notin outgrown => Fits(st[cs])
  BY <1>1 DEF BufferFits, Fits, Need, NeedOf
<1>4. bare[cs] \in SUBSET Nat /\ bare = [bare EXCEPT ![cs] = bare[cs]] /\ saved \in Nat
  BY <1>1 DEF TypeInv
<1> QED
  BY <1>1, <1>2, <1>3, <1>4

\* The bytes of the chunk from at on, behind those in the buffer.
LEMMA MoreBytes ==
  ASSUME TypeInv, InCall, NEW n \in Nat, n <= Rest
  PROVE  LET more == [i \in 1..n |-> <<cs, at + i - 1>>]
         IN /\ st[cs].buf \o more \in Seq(Of(cs)) /\ Len(st[cs].buf) \in Nat
            /\ Len(st[cs].buf \o more) = Len(st[cs].buf) + n
            /\ \A i \in 1..(Len(st[cs].buf) + n) :
                 (st[cs].buf \o more)[i] =
                    IF i <= Len(st[cs].buf) THEN st[cs].buf[i]
                    ELSE <<cs, at + (i - Len(st[cs].buf)) - 1>>
<1> DEFINE more == [i \in 1..n |-> <<cs, at + i - 1>>]
<1>1. at \in Nat \ {0} /\ st[cs].buf \in Seq(Of(cs))
  BY Here1 DEF States, TypeInv
<1>2. \A i \in 1..n : at + i - 1 \in Nat
  BY <1>1
<1>3. more \in Seq(Of(cs)) /\ Len(more) = n
  BY <1>2 DEF Of
<1>4. \A i \in 1..n : more[i] = <<cs, at + i - 1>>
  OBVIOUS
<1> HIDE DEF more
<1>5. PICK b : b = st[cs].buf
  OBVIOUS
<1>6. /\ b \o more \in Seq(Of(cs)) /\ Len(b \o more) = Len(b) + n
      /\ \A i \in 1..(Len(b) + n) : (b \o more)[i] = IF i <= Len(b) THEN b[i] ELSE more[i - Len(b)]
  <2>1. b \in Seq(Of(cs))
    BY <1>1, <1>5
  <2>2. /\ b \o more \in Seq(Of(cs)) /\ Len(b \o more) = Len(b) + Len(more)
        /\ \A i \in 1..(Len(b) + Len(more)) :
             (b \o more)[i] = IF i <= Len(b) THEN b[i] ELSE more[i - Len(b)]
    BY <1>3, <2>1, ConcatProperties, Zenon
  <2> QED
    BY <1>3, <2>2, Zenon
<1>7. PICK l \in Nat : l = Len(b)
  BY <1>1, <1>5
<1>8. \A i \in 1..(l + n) : ~(i <= l) => i - l \in 1..n
  BY <1>7
<1>9. \A i \in 1..(l + n) : (b \o more)[i] = IF i <= l THEN b[i] ELSE <<cs, at + (i - l) - 1>>
  BY <1>4, <1>6, <1>7, <1>8
<1> QED
  BY <1>5, <1>6, <1>7, <1>9 DEF more

LEMMA DropTurn ==
  ASSUME TypeInv, InCall, Drop
  PROVE  /\ at' \in Nat \ {0} /\ at' <= hand + 1 /\ odd \subseteq odd'
         /\ odd' \subseteq odd \cup {cs}
BY DEF TypeInv, Drop

LEMMA TurnNoStream ==
  ASSUME TypeInv, BufferFits, NoStream
  PROVE  TurnTo(st[cs], <<>>)
BY SameTurn DEF NoStream, TurnTo, chunkVars, frameVars, TypeInv

LEMMA TurnHeader ==
  ASSUME TypeInv, BufferFits, WtHeader
  PROVE  \E r : TurnTo(r, <<>>)
<1> DEFINE sid == at + Here(at).width
<1>1. InCall /\ UNCHANGED <<content, pos, cs, hand, saved, handed, g_running, bare, outgrown>>
  BY DEF WtHeader, chunkVars, frameVars
<1>2. CASE Drop /\ UNCHANGED st
  BY <1>1, <1>2, SameTurn, DropTurn DEF TurnTo, TypeInv
<1>3. CASE /\ Whole(at) /\ Whole(sid) /\ at' = sid + Here(sid).width
           /\ st' = [st EXCEPT ![cs] = [New EXCEPT !.header_ok = TRUE, !.cap = st[cs].cap]]
           /\ UNCHANGED odd
  <2> DEFINE r == [New EXCEPT !.header_ok = TRUE, !.cap = st[cs].cap]
  <2>1. st[cs].cap \in Nat
    BY <1>1, Here1 DEF States
  <2>2. r \in States(cs) /\ Fits(r) /\ Framed(r)
    BY <2>1, NewType
  <2>3. sid \in Nat \ {0}
    BY <1>1, <1>3, WholeFacts DEF TypeInv
  <2>4. at' \in Nat \ {0} /\ at' <= hand + 1
    BY <1>1, <1>3, <2>3, WholeFacts
  <2> HIDE DEF r
  <2>5. st' = [st EXCEPT ![cs] = r]
    BY <1>3 DEF r
  <2> QED
    BY <1>1, <1>3, <2>2, <2>4, <2>5, SameTurn DEF TurnTo, TypeInv
<1> QED
  BY <1>2, <1>3 DEF WtHeader

LEMMA TurnCut ==
  ASSUME TypeInv, BufferFits, CutLength
  PROVE  TurnTo(st[cs], <<>>)
BY SameTurn, DropTurn DEF CutLength, Detecting, TurnTo, chunkVars, frameVars, TypeInv

LEMMA TurnAdopt ==
  ASSUME TypeInv, BufferFits, AdoptLength
  PROVE  \E r : TurnTo(r, <<>>)
<1> DEFINE stamp == at + Here(at).width
           pts == IF Whole(stamp) THEN Here(stamp).width ELSE 0
           need == IF Here(at).value > pts THEN Here(at).value - pts ELSE 0
           adopted == [st[cs] EXCEPT !.cur_len = Here(at).value, !.buf = <<>>,
                                     !.pts_len = pts, !.use_len_framing = need > 0]
           grown == [adopted EXCEPT !.cap = IF need > @ THEN need ELSE @]
<1>1. InCall /\ Whole(at) /\ UNCHANGED <<content, pos, cs, hand, saved, handed, g_running>>
  BY DEF AdoptLength, Detecting, chunkVars, frameVars
<1>2. stamp \in Nat \ {0} /\ stamp <= hand + 1 /\ hand \in Nat /\ Here(at).value \in Nat
  BY <1>1, WholeFacts DEF TypeInv
<1>3. pts \in Nat /\ stamp + pts \in Nat \ {0} /\ stamp + pts <= hand + 1
  <2>1. CASE Whole(stamp)
    <3>1. pts = Here(stamp).width
      BY <2>1
    <3> HIDE DEF stamp, pts
    <3> QED
      BY <1>1, <1>2, <2>1, <3>1, WholeFacts
  <2>2. CASE ~Whole(stamp)
    <3>1. pts = 0
      BY <2>2
    <3> HIDE DEF stamp, pts
    <3> QED
      BY <1>2, <3>1
  <2> QED
    BY <2>1, <2>2
<1>4. st[cs] \in States(cs)
  BY <1>1, Here1
<1> HIDE DEF stamp, pts
<1>5. PICK v \in Nat : v = Here(at).value
  BY <1>2
<1>6. need \in Nat
  BY <1>3, <1>5
<1>7. adopted \in States(cs) /\ grown \in States(cs)
  <2>1. <<>> \in Seq(Of(cs))
    OBVIOUS
  <2>2. PICK c \in Nat : c = st[cs].cap
    BY <1>4 DEF States
  <2>3. PICK m \in Nat : m = need
    BY <1>6
  <2>4. (IF m > c THEN m ELSE c) \in Nat /\ (m > 0) \in BOOLEAN
    OBVIOUS
  <2> HIDE DEF need
  <2>5. /\ DOMAIN adopted = DOMAIN st[cs]
        /\ adopted.header_ok = st[cs].header_ok /\ adopted.buf = <<>> /\ adopted.cap = c
        /\ adopted.cur_len = v /\ adopted.pts_len = pts /\ adopted.use_len_framing = (m > 0)
    BY <1>4, <1>5, <2>2, <2>3 DEF States
  <2>6. adopted \in States(cs)
    BY <1>3, <1>4, <1>5, <2>1, <2>2, <2>3, <2>4 DEF States
  <2>7. grown = [adopted EXCEPT !.cap = IF m > c THEN m ELSE c]
    BY <1>4, <2>2, <2>3 DEF States
  <2> HIDE DEF adopted, grown
  <2>8. \A k \in Nat : [adopted EXCEPT !.cap = k] \in States(cs)
    BY <2>6 DEF States
  <2> QED
    BY <2>4, <2>6, <2>7, <2>8
<1>8. Fits(grown) /\ Framed(grown) /\ Framed(adopted)
  <2>1. PICK c \in Nat : c = st[cs].cap
    BY <1>4 DEF States
  <2>2. /\ grown.buf = <<>> /\ grown.cap = IF need > c THEN need ELSE c
        /\ grown.cur_len = v /\ grown.pts_len = pts
    BY <1>4, <1>5, <2>1 DEF States
  <2>3. NeedOf(grown) = need
    BY <1>5, <2>2 DEF NeedOf
  <2>6. adopted.buf = <<>> /\ adopted.cur_len = v /\ adopted.pts_len = pts
    BY <1>4, <1>5 DEF States
  <2>7. NeedOf(adopted) = need
    BY <1>5, <2>6 DEF NeedOf
  <2>4. need <= (IF need > c THEN need ELSE c) /\ 0 <= (IF need > c THEN need ELSE c) /\ 0 <= need
    BY <1>6, <2>1
  <2> HIDE DEF need, grown, adopted
  <2>5. Len(grown.buf) = 0 /\ Len(adopted.buf) = 0
    BY <2>2, <2>6
  <2> QED
    BY <2>2, <2>3, <2>4, <2>5, <2>7 DEF Fits, Framed
<1>12. PICK b \in SUBSET Nat : bare' = [bare EXCEPT ![cs] = b]
  <2>1. bare' = [bare EXCEPT ![cs] = IF pts = 0 THEN @ \cup {at} ELSE @]
    BY DEF AdoptLength, stamp, pts
  <2>2. bare' = [bare EXCEPT ![cs] = IF pts = 0 THEN bare[cs] \cup {at} ELSE bare[cs]]
    BY <2>1
  <2>3. bare[cs] \subseteq Nat /\ at \in Nat
    BY DEF TypeInv
  <2> QED
    BY <2>2, <2>3
<1>9. CASE /\ at' = stamp + pts /\ st' = [st EXCEPT ![cs] = grown]
           /\ odd' = (IF need = 0 THEN odd \cup {cs} ELSE odd)
           /\ UNCHANGED outgrown
  <2>1. odd \subseteq odd' /\ odd' \subseteq odd \cup {cs}
    BY <1>9
  <2> HIDE DEF need, adopted, grown
  <2>2. TurnTo(grown, <<>>)
    BY <1>1, <1>3, <1>7, <1>8, <1>9, <1>12, <2>1, SameTurn DEF TurnTo, TypeInv
  <2> QED
    BY <2>2
<1>10. CASE Drop /\ outgrown' = outgrown \cup {cs} /\ st' = [st EXCEPT ![cs] = adopted]
  <2> HIDE DEF need, adopted, grown
  <2>1. TurnTo(adopted, <<>>)
    BY <1>1, <1>7, <1>8, <1>10, <1>12, SameTurn, DropTurn DEF TurnTo, TypeInv
  <2> QED
    BY <2>1
<1> QED
  BY <1>9, <1>10 DEF AdoptLength, stamp, pts

LEMMA TurnOver ==
  ASSUME TypeInv, BufferFits, FrameOver
  PROVE  TurnTo([st[cs] EXCEPT !.use_len_framing = FALSE], <<>>)
<1> DEFINE r == [st[cs] EXCEPT !.use_len_framing = FALSE]
<1>1. InCall /\ UNCHANGED <<content, pos, cs, hand, at, saved, handed, g_running, bare, odd,
                            outgrown>>
  BY DEF FrameOver, chunkVars, frameVars
<1>2. r \in States(cs) /\ r.buf = st[cs].buf /\ r.cap = st[cs].cap /\ ~r.use_len_framing
  BY <1>1, Here1 DEF States
<1>3. Framed(r) /\ (cs \notin outgrown => Fits(r))
  <2> HIDE DEF r
  <2> QED
    BY <1>2, SameTurn DEF Fits, Framed
<1>4. st' = [st EXCEPT ![cs] = r]
  BY DEF FrameOver
<1> HIDE DEF r
<1>5. TurnTo(r, <<>>)
  BY <1>1, <1>2, <1>3, <1>4, SameTurn DEF TurnTo, TypeInv
<1> QED
  BY <1>5 DEF r

LEMMA SaveFacts ==
  ASSUME TypeInv, NEW frames, Save(frames)
  PROVE  /\ handed' = handed \o frames /\ saved' \in Nat
         /\ g_running' \in BOOLEAN /\ (g_running' => g_running)
<1>1. saved \in Nat /\ g_running \in BOOLEAN
  BY DEF TypeInv
<1>2. PICK n \in 0..Len(frames) : saved' = saved + n
  BY DEF Save
<1>3. n \in Nat
  OBVIOUS
<1>4. g_running' \in BOOLEAN /\ (g_running' => g_running)
  BY <1>1 DEF Save
<1> QED
  BY <1>1, <1>2, <1>3, <1>4 DEF Save

LEMMA TurnPayload ==
  ASSUME TypeInv, BufferFits, Payload
  PROVE  \E r, frames : TurnTo(r, frames)
<1> DEFINE n == Smaller(Rest, Need(cs) - Len(st[cs].buf))
           buf == st[cs].buf \o [i \in 1..n |-> <<cs, at + i - 1>>]
           last == MaxFrames > 0 /\ saved' >= MaxFrames
           over == [st[cs] EXCEPT !.buf = <<>>, !.cur_len = 0, !.pts_len = 0]
           full == [st[cs] EXCEPT !.buf = buf]
<1>1. /\ InCall /\ UNCHANGED <<content, pos, cs, hand, bare, odd>>
      /\ st[cs].use_len_framing /\ Need(cs) > 0 /\ Need(cs) = NeedOf(st[cs])
  BY DEF Payload, Framing, chunkVars, Need, NeedOf
<1>2. st[cs] \in States(cs) /\ at \in Nat \ {0} /\ hand \in Nat /\ at <= hand /\ Framed(st[cs])
  BY <1>1, Here1, SameTurn
<1>3. PICK need \in Nat, l \in Nat : need = Need(cs) /\ l = Len(st[cs].buf) /\ l <= need /\ need > 0
  <2>1. st[cs].cur_len \in Nat /\ st[cs].pts_len \in Nat /\ st[cs].buf \in Seq(Of(cs))
    BY <1>2 DEF States
  <2>2. Need(cs) \in Nat
    BY <2>1 DEF Need
  <2> QED
    BY <1>1, <1>2, <2>1, <2>2 DEF Framed
<1>4. n \in Nat /\ n <= Rest /\ l + n <= need /\ at + n \in Nat \ {0} /\ at + n <= hand + 1
  <2>1. PICK r \in Nat : r = Rest /\ r = hand - at + 1 /\ r > 0
    BY <1>2 DEF Rest
  <2>2. n = IF r < need - l THEN r ELSE need - l
    BY <1>3, <2>1 DEF Smaller
  <2>3. PICK k \in Nat : k = (IF r < need - l THEN r ELSE need - l) /\ k <= r /\ l + k <= need
    BY <1>3, <2>1
  <2>4. at + k \in Nat \ {0} /\ at + k <= hand + 1
    BY <1>2, <2>1, <2>3
  <2> HIDE DEF n
  <2> QED
    BY <2>1, <2>2, <2>3, <2>4
<1>5. buf \in Seq(Of(cs)) /\ Len(buf) = l + n
  <2> HIDE DEF n
  <2> QED
    BY <1>1, <1>3, <1>4, MoreBytes
<1> HIDE DEF n, buf
<1>6. /\ full \in States(cs) /\ Framed(full)
      /\ cs \notin outgrown => Fits(full)
  <2>1. full \in States(cs)
    BY <1>2, <1>5 DEF States
  <2>2. /\ full.buf = buf /\ full.cap = st[cs].cap /\ full.cur_len = st[cs].cur_len
        /\ full.pts_len = st[cs].pts_len /\ full.use_len_framing
    BY <1>1, <1>2 DEF States
  <2> HIDE DEF full
  <2>3. NeedOf(full) = need
    BY <1>1, <1>3, <2>2 DEF NeedOf
  <2>4. PICK c \in Nat : c = st[cs].cap
    BY <1>2 DEF States
  <2>5. cs \notin outgrown => need <= c
    BY <1>1, <1>3, <2>4, SameTurn DEF Fits
  <2>6. cs \notin outgrown => l + n <= c
    BY <1>3, <1>4, <2>4, <2>5
  <2> QED
    BY <1>4, <1>5, <2>1, <2>2, <2>3, <2>4, <2>5, <2>6 DEF Fits, Framed
<1>7. over \in States(cs) /\ Framed(over) /\ Fits(over)
  <2>1. <<>> \in Seq(Of(cs)) /\ Len(<<>>) = 0
    OBVIOUS
  <2>2. over \in States(cs)
    BY <1>2, <2>1 DEF States
  <2>3. over.buf = <<>> /\ over.cap \in Nat /\ over.cur_len = 0 /\ over.pts_len = 0
    BY <1>2 DEF States
  <2> HIDE DEF over
  <2> QED
    BY <2>1, <2>2, <2>3 DEF Fits, Framed, NeedOf
<1>9. CASE /\ Len(buf) < Need(cs) /\ st' = [st EXCEPT ![cs].buf = buf] /\ at' = at + n
           /\ UNCHANGED <<frameVars, outgrown>>
  <2>1. st' = [st EXCEPT ![cs] = full]
    BY <1>9
  <2>2. UNCHANGED <<saved, handed, g_running, outgrown>>
    BY <1>9 DEF frameVars
  <2>3. TurnTo(full, <<>>)
    <3> HIDE DEF full
    <3> QED
      BY <1>1, <1>4, <1>6, <1>9, <2>1, <2>2, SameTurn DEF TurnTo, TypeInv
  <2> QED
    BY <2>3
<1>10. CASE /\ Len(buf) >= Need(cs) /\ Save(<<buf>>)
            /\ at' = (IF last THEN hand + 1 ELSE at + n)
            /\ st' = [st EXCEPT ![cs] = IF last THEN full ELSE over]
            /\ outgrown' = (IF last THEN outgrown ELSE outgrown \ {cs})
  <2>1. PICK r : r = IF last THEN full ELSE over
    OBVIOUS
  <2> HIDE DEF last, full, over
  <2>2. /\ r \in States(cs) /\ Framed(r) /\ st' = [st EXCEPT ![cs] = r]
        /\ cs \notin outgrown' => Fits(r)
        /\ outgrown' \subseteq outgrown \cup {cs} /\ outgrown \subseteq outgrown' \cup {cs}
    BY <1>6, <1>7, <1>10, <2>1
  <2>3. at' \in Nat \ {0} /\ at' <= hand + 1
    BY <1>2, <1>4, <1>10
  <2>4. <<buf>> \in Seq(Frames(cs))
    <3>1. Len(buf) > 0
      BY <1>3, <1>4, <1>5, <1>10
    <3>2. buf # <<>>
      BY <3>1
    <3>3. buf \in Frames(cs)
      BY <1>5, <3>2 DEF Frames
    <3> QED
      BY <3>3
  <2>5. /\ handed' = handed \o <<buf>> /\ saved' \in Nat
        /\ g_running' \in BOOLEAN /\ (g_running' => g_running)
    BY <1>10, SaveFacts
  <2>6. TurnTo(r, <<buf>>)
    BY <1>1, <1>10, <2>2, <2>3, <2>4, <2>5, SameTurn DEF TurnTo, TypeInv
  <2> QED
    BY <2>6
<1>11. st' = [st EXCEPT ![cs] = IF last THEN [@ EXCEPT !.buf = buf]
                               ELSE [@ EXCEPT !.buf = <<>>, !.cur_len = 0, !.pts_len = 0]]
        => st' = [st EXCEPT ![cs] = IF last THEN full ELSE over]
  OBVIOUS
<1> QED
  BY <1>9, <1>10, <1>11 DEF Payload, n, buf

LEMMA TurnAccumulate ==
  ASSUME TypeInv, BufferFits, Accumulate
  PROVE  \E r, frames : TurnTo(r, frames)
<1> DEFINE n == Rest
           buf == st[cs].buf \o [i \in 1..Rest |-> <<cs, at + i - 1>>]
           found == extract_jpegs(buf)
           grown == [st[cs] EXCEPT !.buf = found.rest,
                                   !.cap = IF Len(buf) > @ THEN Len(buf) ELSE @]
<1>1. /\ InCall /\ UNCHANGED <<content, pos, cs, hand, bare, outgrown>>
      /\ ~st[cs].use_len_framing /\ Drop
  BY DEF Accumulate, Framing, chunkVars
<1>2. st[cs] \in States(cs) /\ at \in Nat \ {0} /\ hand \in Nat /\ at <= hand
  BY <1>1, Here1
<1>3. Rest \in Nat /\ Rest <= Rest
  BY <1>2 DEF Rest
<1>4. buf \in Seq(Of(cs))
  BY <1>1, <1>3, MoreBytes
<1> HIDE DEF buf
<1>5. PICK l \in Nat, c \in Nat : l = Len(buf) /\ c = st[cs].cap
  BY <1>2, <1>4 DEF States
<1>6. /\ found.rest \in Seq(Of(cs)) /\ Len(found.rest) <= l /\ found.frames \in Seq(Frames(cs))
  <2>1. PICK B : B = Of(cs)
    OBVIOUS
  <2>2. buf \in Seq(B)
    BY <1>4, <2>1
  <2>3. /\ extract_jpegs(buf).rest \in Seq(B) /\ Len(extract_jpegs(buf).rest) <= Len(buf)
        /\ extract_jpegs(buf).frames \in Seq(Seq(B) \ {<<>>})
    BY <2>2, ExtractFacts
  <2> QED
    BY <1>5, <2>1, <2>3 DEF Frames
<1> HIDE DEF found
<1>7. grown \in States(cs) /\ Framed(grown) /\ Fits(grown)
  <2>1. grown = [st[cs] EXCEPT !.buf = found.rest, !.cap = IF l > c THEN l ELSE c]
    BY <1>2, <1>5 DEF States
  <2>2. PICK k \in Nat : k = (IF l > c THEN l ELSE c) /\ l <= k
    BY <1>5
  <2>3. grown \in States(cs)
    BY <1>2, <1>6, <2>1, <2>2 DEF States
  <2>4. grown.buf = found.rest /\ grown.cap = k /\ ~grown.use_len_framing
    BY <1>1, <1>2, <2>1, <2>2 DEF States
  <2> HIDE DEF grown
  <2>5. PICK m \in Nat : m = Len(found.rest) /\ m <= l
    BY <1>6
  <2> QED
    BY <2>2, <2>3, <2>4, <2>5 DEF Fits, Framed
<1>8. CASE /\ st' = [st EXCEPT ![cs].buf = found.rest,
                               ![cs].cap = IF Len(buf) > @ THEN Len(buf) ELSE @]
           /\ Save(found.frames)
  <2>1. st' = [st EXCEPT ![cs] = grown]
    <3>1. cs \in DOMAIN st
      BY DEF TypeInv
    <3> QED
      BY <1>2, <1>8, <3>1 DEF States
  <2> HIDE DEF grown
  <2>2. /\ handed' = handed \o found.frames /\ saved' \in Nat
        /\ g_running' \in BOOLEAN /\ (g_running' => g_running)
    BY <1>8, SaveFacts
  <2>3. TurnTo(grown, found.frames)
    BY <1>1, <1>6, <1>7, <1>8, <2>1, <2>2, DropTurn, SameTurn DEF TurnTo, TypeInv
  <2> QED
    BY <2>3
<1>9. CASE UNCHANGED <<st, frameVars>>
  <2>1. TurnTo(st[cs], <<>>)
    BY <1>1, <1>9, SameTurn, DropTurn DEF TurnTo, TypeInv, frameVars
  <2> QED
    BY <2>1
<1> QED
  BY <1>8, <1>9 DEF Accumulate, buf, found

\* Every turn of the loop is one.
LEMMA Turns ==
  ASSUME TypeInv, BufferFits, CallStep
  PROVE  \E r, frames : TurnTo(r, frames)
BY TurnNoStream, TurnHeader, TurnCut, TurnAdopt, TurnOver, TurnPayload, TurnAccumulate
   DEF CallStep

LEMMA TurnType ==
  ASSUME TypeInv, BufferFits, NEW r, NEW frames, TurnTo(r, frames)
  PROVE  TypeInv' /\ BufferFits'
<1>1. /\ content' = content /\ pos' = pos /\ cs' = cs /\ hand' = hand /\ cs \in Streams
      /\ at' \in Nat \ {0} /\ at' <= hand + 1 /\ r \in States(cs) /\ Framed(r)
      /\ st' = [st EXCEPT ![cs] = r] /\ st = [s \in Streams |-> st[s]]
      /\ frames \in Seq(Frames(cs)) /\ handed' = handed \o frames
      /\ saved' \in Nat /\ (cs \notin outgrown' => Fits(r))
  BY DEF TurnTo, TypeInv
<1>2. /\ st' = [s \in Streams |-> st'[s]]
      /\ \A s \in Streams : st'[s] = IF s = cs THEN r ELSE st[s]
  BY <1>1
<1>3. \A s \in Streams : st'[s] \in States(s) /\ Framed(st'[s])
  BY <1>1, <1>2 DEF TypeInv
<1>4. handed' \in Seq(UNION {Frames(s) : s \in Streams})
  <2>1. PICK F : F = UNION {Frames(s) : s \in Streams}
    OBVIOUS
  <2>2. handed \in Seq(F)
    BY <2>1 DEF TypeInv
  <2>3. Frames(cs) \subseteq F
    BY <1>1, <2>1
  <2>4. frames \in Seq(F)
    BY <1>1, <2>3
  <2>5. handed \o frames \in Seq(F)
    BY <2>2, <2>4, ConcatProperties, Zenon
  <2> QED
    BY <1>1, <2>1, <2>5
<1>5. /\ odd' \subseteq Streams /\ outgrown' \subseteq Streams /\ g_running' \in BOOLEAN
      /\ bare' \in [Streams -> SUBSET Nat]
  BY DEF TurnTo, TypeInv
<1>6. TypeInv'
  BY <1>1, <1>2, <1>3, <1>4, <1>5 DEF TypeInv
<1>7. BufferFits'
  <2> SUFFICES ASSUME NEW s \in Streams \ outgrown'
               PROVE  /\ Len(st'[s].buf) <= st'[s].cap
                      /\ st'[s].use_len_framing =>
                           NeedOf(st'[s]) <= st'[s].cap /\ Len(st'[s].buf) <= NeedOf(st'[s])
    BY DEF BufferFits, Need, NeedOf
  <2>1. Fits(st'[s])
    <3>1. CASE s = cs
      BY <1>1, <1>2, <3>1
    <3>2. CASE s # cs
      <4>1. s \notin outgrown
        BY <3>2 DEF TurnTo
      <4> QED
        BY <1>1, <1>2, <3>2, <4>1 DEF BufferFits, Fits, Need, NeedOf
    <3> QED
      BY <3>1, <3>2
  <2> QED
    BY <1>3, <2>1 DEF Fits, Framed
<1> QED
  BY <1>6, <1>7

LEMMA DeliverType ==
  ASSUME TypeInv, NEW s \in Streams, Deliver(s)
  PROVE  TypeInv'
<1>1. PICK n \in 1..(Len(content[s]) - pos[s]) : hand' = pos[s] + n /\ pos' = [pos EXCEPT ![s] = hand']
  BY DEF Deliver
<1>2. content[s] \in Seq(ByteRecords) /\ pos[s] \in Nat /\ pos \in [Streams -> Nat]
  BY DEF TypeInv
<1>3. PICK l \in Nat, p \in Nat : l = Len(content[s]) /\ p = pos[s]
  BY <1>2
<1>4. hand' \in Nat /\ hand' <= l /\ p + 1 \in Nat \ {0} /\ p + 1 <= hand' + 1
  <2>1. n \in Nat /\ p + n \in Nat /\ p + n <= l /\ p + 1 <= p + n + 1
    BY <1>3
  <2>2. PICK h \in Nat : h = p + n
    BY <2>1
  <2>3. hand' = h
    BY <1>1, <1>3, <2>2
  <2> QED
    BY <2>1, <2>2, <2>3
<1>5. /\ pos' \in [Streams -> Nat] /\ pos'[s] = hand'
      /\ \A q \in Streams : q # s => pos'[q] = pos[q]
  BY <1>1, <1>2, <1>4
<1>6. \A q \in Streams : pos'[q] <= Len(content[q])
  BY <1>3, <1>4, <1>5 DEF TypeInv
<1>7. /\ cs' = s /\ at' = p + 1
      /\ UNCHANGED <<content, st, saved, handed, g_running, bare, odd, outgrown>>
  BY <1>3 DEF Deliver, frameVars
<1> QED
  BY <1>4, <1>5, <1>6, <1>7 DEF TypeInv

LEMMA TypeStep ==
  ASSUME TypeInv, BufferFits, [ReceiverNext]_receiverVars
  PROVE  TypeInv' /\ BufferFits'
<1>1. CASE CallStep
  BY <1>1, Turns, TurnType
<1>2. CASE Connect
  <2>1. UNCHANGED <<content, pos, cs, hand, at, st, saved, handed, g_running, bare, odd, outgrown>>
    BY <1>2 DEF Connect, chunkVars, frameVars
  <2> QED
    BY <2>1 DEF TypeInv, BufferFits, Need
<1>3. ASSUME NEW s \in Streams, Deliver(s) PROVE TypeInv' /\ BufferFits'
  BY <1>3, DeliverType DEF Deliver, BufferFits, Need
<1>4. CASE UNCHANGED receiverVars
  BY <1>4 DEF TypeInv, BufferFits, Need, receiverVars, chunkVars, frameVars
<1> QED
  BY <1>1, <1>2, <1>3, <1>4 DEF ReceiverNext

LEMMA TypeInit ==
  ASSUME ReceiverInit
  PROVE  TypeInv /\ BufferFits
<1>1. /\ content \in [Streams -> Seq(ByteRecords)] /\ pos = [s \in Streams |-> 0]
      /\ cs \in Streams /\ at = 1 /\ hand = 0 /\ st = [s \in Streams |-> New]
      /\ saved = 0 /\ handed = <<>> /\ g_running = TRUE
      /\ bare = [s \in Streams |-> {}] /\ odd = {} /\ outgrown = {}
  BY ContentsAssumption DEF ReceiverInit, ByteRecords
<1>2. \A s \in Streams : st[s] \in States(s) /\ Framed(st[s]) /\ Fits(st[s]) /\ st[s] = New
  BY <1>1, NewType
<1>3. \A s \in Streams : pos[s] <= Len(content[s])
  <2>1. \A s \in Streams : Len(content[s]) \in Nat /\ pos[s] = 0
    BY <1>1
  <2> QED
    BY <2>1
<1>4. TypeInv
  <2>1. pos \in [Streams -> Nat] /\ pos[cs] = 0 /\ st = [s \in Streams |-> st[s]]
    BY <1>1
  <2>2. /\ handed \in Seq(UNION {Frames(s) : s \in Streams}) /\ saved \in Nat
        /\ bare \in [Streams -> SUBSET Nat]
    BY <1>1
  <2>3. at \in Nat \ {0} /\ hand \in Nat /\ at <= hand + 1
    BY <1>1
  <2> QED
    BY <1>1, <1>2, <1>3, <2>1, <2>2, <2>3 DEF TypeInv
<1>5. BufferFits
  BY <1>2 DEF BufferFits, Fits, Framed, Need, NeedOf
<1> QED
  BY <1>4, <1>5

\* The bytes gathered fit their buffer, and so do those a frame announces, whatever the
\* streams carry and in what chunks, on every stream but those in a frame for which their
\* own buffer could not grow (wt_handle_stream_data).
THEOREM BufferFitsHolds == ReceiverSpec => []BufferFits
<1>1. ReceiverInit => TypeInv /\ BufferFits
  BY TypeInit
<1>2. (TypeInv /\ BufferFits) /\ [ReceiverNext]_receiverVars => (TypeInv /\ BufferFits)'
  BY TypeStep
<1> QED
  BY <1>1, <1>2, PTL DEF ReceiverSpec
-----------------------------------------------------------------------------
(* The frames of a stream                                                  *)

\* Where the frame whose length is at q ends, and the next length is.
EndOf(c, q) == q + c[q].width + c[q].value

\* The header of the stream is there.
Headed(c) == HeaderEnd(c) \in Nat /\ HeaderEnd(c) <= Len(c)

LEMMA ByteFacts ==
  ASSUME NEW c \in Seq(ByteRecords)
  PROVE  /\ Len(c) \in Nat
         /\ \A q \in 1..Len(c) :
              /\ c[q].width \in Nat \ {0} /\ c[q].value \in Nat /\ EndOf(c, q) \in Nat
              /\ EndOf(c, q) = q + c[q].width + c[q].value /\ q < EndOf(c, q)
<1>1. \A q \in 1..Len(c) : c[q] \in ByteRecords
  BY ElementOfSeq, Zenon
<1>2. \A q \in 1..Len(c) : c[q].width \in Nat \ {0} /\ c[q].value \in Nat
  BY <1>1 DEF ByteRecords
<1>3. PICK n \in Nat : n = Len(c)
  OBVIOUS
<1>4. \A q \in 1..n : q \in Nat
  OBVIOUS
<1> QED
  BY <1>2, <1>3, <1>4 DEF EndOf

\* Frames start where the equation says: the function it defines exists, as is seen by
\* taking the least set of positions that its links lead to.
LEMMA BoundaryFacts ==
  ASSUME NEW c \in Seq(ByteRecords)
  PROVE  /\ Boundary(c) \subseteq 1..(Len(c) + 1)
         /\ \A p \in 1..(Len(c) + 1) :
              p \in Boundary(c) <=>
                p = HeaderEnd(c) + 1 \/ \E q \in Boundary(c) : q < p /\ EndOf(c, q) = p
<1> DEFINE n == Len(c) + 1
           h == HeaderEnd(c) + 1
           Link(q, p) == q + c[q].width + c[q].value = p
           Closed(S) == /\ \A p \in 1..n : p = h => p \in S
                        /\ \A q \in S : \A p \in 1..n : q < p /\ Link(q, p) => p \in S
           D == {p \in 1..n : \A S \in SUBSET (1..n) : Closed(S) => p \in S}
           Eq(f) == f = [p \in 1..n |-> p = h \/ \E q \in 1..(p - 1) : f[q] /\ Link(q, p)]
           f == CHOOSE g : Eq(g)
           g == [p \in 1..n |-> p \in D]
<1>0. n \in Nat
  BY ByteFacts
<1>1. Boundary(c) = {p \in 1..n : f[p]}
  BY DEF Boundary
<1>2. \A q, p : Link(q, p) <=> EndOf(c, q) = p
  BY DEF EndOf
<1> HIDE DEF Link, n, h
<1>3. D \in SUBSET (1..n) /\ Closed(D)
  OBVIOUS
<1>4. ASSUME NEW p \in 1..n, p \in D, p # h
      PROVE  \E q \in 1..(p - 1) : q \in D /\ Link(q, p)
  <2> SUFFICES ASSUME \A q \in 1..(p - 1) : q \in D => ~Link(q, p)
               PROVE  FALSE
    OBVIOUS
  <2>1. \A q \in D : q < p => q \in 1..(p - 1)
    BY <1>0
  <2>2. Closed(D \ {p}) /\ D \ {p} \in SUBSET (1..n)
    <3> HIDE DEF D
    <3> QED
      BY <1>3, <1>4, <2>1
  <2> QED
    BY <1>4, <2>2
<1>5. ASSUME NEW p \in 1..n
      PROVE  p \in D <=> (p = h \/ \E q \in 1..(p - 1) : q \in D /\ Link(q, p))
  <2>1. \A q \in 1..(p - 1) : q < p
    BY <1>0
  <2> HIDE DEF D
  <2> QED
    BY <1>3, <1>4, <2>1
<1> HIDE DEF D
<1>6. Eq(g)
  <2>1. ASSUME NEW p \in 1..n
        PROVE  (p \in D) = (p = h \/ \E q \in 1..(p - 1) : g[q] /\ Link(q, p))
    <3>1. \A q \in 1..(p - 1) : q \in 1..n
      BY <1>0
    <3>2. \A q \in 1..(p - 1) : g[q] <=> q \in D
      BY <3>1
    <3> HIDE DEF g
    <3>3. (\E q \in 1..(p - 1) : q \in D /\ Link(q, p))
            <=> (\E q \in 1..(p - 1) : g[q] /\ Link(q, p))
      BY <3>2
    <3> QED
      BY <1>5, <3>3
  <2> QED
    BY <2>1
<1> HIDE DEF g, Eq
<1>7. Eq(f)
  BY <1>6
<1> HIDE DEF f
<1>8. Boundary(c) \subseteq 1..n
  BY <1>1
<1>9. ASSUME NEW p \in 1..n
      PROVE  p \in Boundary(c) <=> p = h \/ \E q \in Boundary(c) : q < p /\ EndOf(c, q) = p
  <2>1. f[p] = (p = h \/ \E q \in 1..(p - 1) : f[q] /\ Link(q, p))
    BY <1>7 DEF Eq
  <2>2. \A q : q \in 1..(p - 1) <=> q \in 1..n /\ q < p
    BY <1>0
  <2> QED
    BY <1>1, <1>2, <2>1, <2>2
<1> QED
  BY <1>8, <1>9 DEF n, h

\* The first of them is behind the header.
LEMMA BoundaryLeast ==
  ASSUME NEW c \in Seq(ByteRecords), Headed(c)
  PROVE  HeaderEnd(c) + 1 \in Boundary(c) /\ \A k \in Boundary(c) : HeaderEnd(c) + 1 <= k
<1> DEFINE T == {k \in Boundary(c) : ~(HeaderEnd(c) + 1 <= k)}
<1>1. PICK h \in Nat, n \in Nat : h = HeaderEnd(c) + 1 /\ n = Len(c) /\ h \in 1..(n + 1)
  BY ByteFacts DEF Headed
<1>2. Boundary(c) \subseteq 1..(n + 1) /\ Boundary(c) \subseteq Nat
  BY <1>1, BoundaryFacts
<1>3. T = {}
  <2> SUFFICES ASSUME T # {} PROVE FALSE
    OBVIOUS
  <2>1. PICK k \in T : \A l \in T : k <= l
    <3>1. T \in SUBSET Nat
      BY <1>2
    <3> HIDE DEF T
    <3> QED
      BY <3>1, Least
  <2>2. k \in Boundary(c) /\ k \in 1..(n + 1) /\ ~(h <= k)
    BY <1>1, <1>2
  <2>3. PICK q \in Boundary(c) : q < k
    BY <1>1, <2>2, BoundaryFacts
  <2>4. q \in T
    BY <1>1, <1>2, <2>2, <2>3
  <2>5. k <= q /\ q \in Nat
    BY <1>2, <2>1, <2>4
  <2> QED
    BY <2>2, <2>3, <2>5
<1> QED
  BY <1>1, <1>3, BoundaryFacts

\* Frames follow each other.
LEMMA Chain ==
  ASSUME NEW c \in Seq(ByteRecords), Headed(c), NEW r \in Boundary(c)
  PROVE  \A q \in Boundary(c) : q < r => EndOf(c, q) <= r
<1> DEFINE T == {k \in Boundary(c) : \E q \in Boundary(c) : q < k /\ ~(EndOf(c, q) <= k)}
<1>0. PICK n \in Nat : n = Len(c)
  BY ByteFacts
<1>1. /\ Boundary(c) \subseteq 1..(n + 1) /\ Boundary(c) \subseteq Nat
      /\ \A q \in Boundary(c) : q \in Nat \ {0}
  BY <1>0, BoundaryFacts
<1>2. \A q, k \in Boundary(c) : q < k => q \in 1..n /\ EndOf(c, q) \in Nat /\ q < EndOf(c, q)
  <2>1. \A q, k \in 1..(n + 1) : q < k => q \in 1..n
    OBVIOUS
  <2> QED
    BY <1>0, <1>1, <2>1, ByteFacts
<1>3. T = {}
  <2> SUFFICES ASSUME T # {} PROVE FALSE
    OBVIOUS
  <2>1. PICK k \in T : \A l \in T : k <= l
    <3>1. T \in SUBSET Nat
      BY <1>1
    <3> HIDE DEF T
    <3> QED
      BY <3>1, Least
  <2>2. PICK q \in Boundary(c) : q < k /\ ~(EndOf(c, q) <= k)
    OBVIOUS
  <2>3. k \in Boundary(c) /\ k \in Nat \ {0} /\ q \in Nat \ {0} /\ EndOf(c, q) \in Nat
    BY <1>1, <1>2, <2>2
  <2>4. \A l \in Boundary(c) : l < k => \A p \in Boundary(c) : p < l => EndOf(c, p) <= l
    <3> SUFFICES ASSUME NEW l \in Boundary(c), l < k, NEW p \in Boundary(c), p < l,
                        ~(EndOf(c, p) <= l)
                 PROVE  FALSE
      OBVIOUS
    <3>1. l \in T
      OBVIOUS
    <3>2. k <= l /\ l \in Nat
      BY <1>1, <2>1, <3>1
    <3> QED
      BY <2>3, <3>2
  <2> HIDE DEF T
  <2>5. PICK p \in Boundary(c) : p < k /\ EndOf(c, p) = k
    <3>1. PICK h \in Nat : h = HeaderEnd(c) + 1 /\ h <= q
      BY BoundaryLeast DEF Headed
    <3>2. k # h /\ k \in 1..(n + 1)
      BY <1>1, <2>2, <2>3, <3>1
    <3> QED
      BY <1>0, <2>3, <3>1, <3>2, BoundaryFacts
  <2>6. p \in Nat
    BY <1>1
  <2>7. CASE p = q
    BY <2>2, <2>3, <2>5, <2>7
  <2>8. CASE q < p
    <3>1. EndOf(c, q) <= p
      BY <2>4, <2>5, <2>8
    <3> QED
      BY <2>2, <2>3, <2>5, <2>6, <3>1
  <2>9. CASE p < q
    <3>1. EndOf(c, p) <= q
      BY <2>2, <2>4, <2>9
    <3> QED
      BY <2>2, <2>3, <2>5, <3>1
  <2> QED
    BY <2>3, <2>6, <2>7, <2>8, <2>9
<1> QED
  BY <1>3

\* Behind a frame that fits the stream is a boundary.
LEMMA NextBoundary ==
  ASSUME NEW c \in Seq(ByteRecords), NEW q \in Boundary(c), q <= Len(c),
         EndOf(c, q) <= Len(c) + 1
  PROVE  EndOf(c, q) \in Boundary(c)
<1>0. PICK n \in Nat : n = Len(c)
  BY ByteFacts
<1>1. q \in 1..n
  BY <1>0, BoundaryFacts
<1>2. EndOf(c, q) \in 1..(n + 1) /\ q < EndOf(c, q)
  BY <1>0, <1>1, ByteFacts
<1> QED
  BY <1>0, <1>2, BoundaryFacts

\* The payload of the frame at q, behind its time stamp, and the complete frames up to a
\* position.
PtsOf(c, q, bs) == IF q \in bs THEN 0 ELSE c[q + c[q].width].width
FirstOf(c, q, bs) ==
  LET stamp == q + c[q].width IN IF q \in bs THEN stamp ELSE stamp + c[stamp].width
FrameIn(s, c, q, bs) ==
  [i \in 1..(q + c[q].width + c[q].value - FirstOf(c, q, bs)) |-> <<s, FirstOf(c, q, bs) + i - 1>>]
CompleteIn(c, last) == {q \in Boundary(c) \cap 1..last : EndOf(c, q) <= last + 1}

\* Up to a position in the frame at q the complete frames are those before it.
LEMMA CompleteFacts ==
  ASSUME NEW c \in Seq(ByteRecords), Headed(c), NEW q \in Boundary(c), q <= Len(c),
         NEW last \in Nat, q - 1 <= last, last < EndOf(c, q)
  PROVE  CompleteIn(c, last) =
           {r \in Boundary(c) : r < q} \cup (IF last + 1 = EndOf(c, q) THEN {q} ELSE {})
<1>0. PICK n \in Nat : n = Len(c)
  BY ByteFacts
<1> DEFINE B == Boundary(c)
<1>1. B \subseteq 1..(n + 1)
  BY <1>0, BoundaryFacts
<1>2. /\ \A r \in B : r \in Nat \ {0} /\ r <= n + 1
      /\ \A r \in 1..n : EndOf(c, r) \in Nat /\ r < EndOf(c, r)
      /\ q \in 1..n
  BY <1>0, <1>1, ByteFacts
<1>3. ASSUME NEW r \in B, r < q
      PROVE  r \in 1..last /\ r \in 1..n /\ EndOf(c, r) <= last + 1
  <2>1. EndOf(c, r) <= q
    BY <1>1, <1>3, Chain
  <2>2. r \in 1..n
    BY <1>2, <1>3
  <2> QED
    BY <1>2, <1>3, <2>1, <2>2
<1>4. ASSUME NEW r \in B, q < r, r \in 1..last PROVE ~(EndOf(c, r) <= last + 1)
  <2>1. EndOf(c, q) <= r
    BY <1>1, <1>2, <1>4, Chain
  <2> QED
    BY <1>2, <1>4, <2>1
<1>5. EndOf(c, q) <= last + 1 <=> last + 1 = EndOf(c, q)
  BY <1>2
<1>6. last + 1 = EndOf(c, q) => q \in 1..last
  BY <1>2
<1>7. ASSUME NEW r
      PROVE  r \in CompleteIn(c, last) <=>
               r \in B /\ r \in 1..last /\ EndOf(c, r) <= last + 1
  BY DEF CompleteIn
<1>8. ASSUME NEW r \in B PROVE r < q \/ r = q \/ q < r
  BY <1>2
<1> HIDE DEF B
<1>9. ASSUME NEW r
      PROVE  r \in CompleteIn(c, last) <=>
               (r \in B /\ r < q) \/ (r = q /\ last + 1 = EndOf(c, q))
  <2>1. CASE r \in B /\ r < q
    <3>1. r # q
      BY <1>2, <2>1
    <3> QED
      BY <1>3, <1>7, <2>1, <3>1
  <2>2. CASE r = q
    <3>1. q \in B /\ ~(q < q)
      BY <1>2 DEF B
    <3> QED
      BY <1>5, <1>6, <1>7, <2>2, <3>1
  <2>3. CASE r \in B /\ q < r
    <3>1. r # q /\ ~(r < q)
      BY <1>2, <2>3
    <3> QED
      BY <1>4, <1>7, <2>3, <3>1
  <2>4. CASE r \notin B
    <3>1. r # q
      BY <2>4 DEF B
    <3> QED
      BY <1>7, <2>4, <3>1
  <2> QED
    BY <1>8, <2>1, <2>2, <2>3, <2>4
<1> QED
  BY <1>9 DEF B
-----------------------------------------------------------------------------
(* What holds of a stream s with content c, whose state is x, when its     *)
(* bytes up to last were dealt with and the frames in f are handed.         *)

MineIn(s, f) == {i \in DOMAIN f : f[i][1][1] = s}
Numbered(f) == \A i \in DOMAIN f : f[i][1][2] \in Nat

\* b has the first bytes of the payload of the frame at q.
Holds(s, c, q, b, bs) == \A i \in 1..Len(b) : b[i] = <<s, FirstOf(c, q, bs) + i - 1>>

\* The frame at q is being read: its bytes so far are in the buffer.
InFrame(s, c, q, x, last, f, bs) ==
  /\ q \in Boundary(c) /\ q \in 1..Len(c) /\ PtsOf(c, q, bs) \in Nat
  /\ x.cur_len = c[q].value /\ x.pts_len = PtsOf(c, q, bs) /\ x.cur_len > x.pts_len
  /\ last + 1 = FirstOf(c, q, bs) + Len(x.buf) /\ Len(x.buf) < NeedOf(x)
  /\ Holds(s, c, q, x.buf, bs)
  /\ \A i \in MineIn(s, f) : f[i][1][2] < q

\* Between two frames the next length is next.
Between(s, c, x, last, f) ==
  x.buf = <<>> /\ last + 1 \in Boundary(c) /\ \A i \in MineIn(s, f) : f[i][1][2] <= last

SavedIn(s, c, last, f, bs) ==
  /\ {f[i] : i \in MineIn(s, f)} = {FrameIn(s, c, q, bs) : q \in CompleteIn(c, last)}
  /\ \A i, j \in MineIn(s, f) : i < j => f[i][1][2] < f[j][1][2]

\* The lengths without a time stamp are behind.
Past(last, bs) == bs \subseteq 1..last

Good(s, c, x, last, f, bs) ==
  /\ Past(last, bs)
  /\ ~x.header_ok => last = 0 /\ MineIn(s, f) = {}
  /\ x.header_ok =>
       /\ Headed(c) /\ SavedIn(s, c, last, f, bs)
       /\ x.cur_len = 0 => Between(s, c, x, last, f)
       /\ x.cur_len > 0 => x.use_len_framing /\ \E q : InFrame(s, c, q, x, last, f, bs)

\* b has n more bytes of s, those behind last, than the buffer of x.
Behind(s, x, last, n, b) ==
  /\ b \in Seq(Of(s)) /\ Len(b) = Len(x.buf) + n
  /\ \A i \in 1..(Len(x.buf) + n) :
       b[i] = IF i <= Len(x.buf) THEN x.buf[i] ELSE <<s, last + 1 + (i - Len(x.buf)) - 1>>

LEMMA InFrameFacts ==
  ASSUME NEW s, NEW c \in Seq(ByteRecords), NEW x \in States(s), NEW q, NEW last, NEW f, NEW bs,
         InFrame(s, c, q, x, last, f, bs)
  PROVE  /\ q \in Nat \ {0} /\ q <= Len(c) /\ FirstOf(c, q, bs) \in Nat /\ q < FirstOf(c, q, bs)
         /\ NeedOf(x) \in Nat \ {0} /\ EndOf(c, q) = FirstOf(c, q, bs) + NeedOf(x)
         /\ Len(x.buf) \in Nat /\ x.buf \in Seq(Of(s))
<1>1. PICK n \in Nat : n = Len(c)
  BY ByteFacts
<1>2. q \in 1..n
  BY <1>1 DEF InFrame
<1>3. PICK w \in Nat \ {0}, v \in Nat : w = c[q].width /\ v = c[q].value
  BY <1>1, <1>2, ByteFacts
<1>4. PICK pts \in Nat : pts = PtsOf(c, q, bs)
  BY DEF InFrame
<1>5. x.cur_len = v /\ x.pts_len = pts /\ v > pts
  BY <1>2, <1>3, <1>4 DEF InFrame
<1>6. NeedOf(x) = v - pts
  BY <1>5 DEF NeedOf
<1>7. EndOf(c, q) = q + w + v /\ FirstOf(c, q, bs) = q + w + pts
  BY <1>2, <1>3, <1>4 DEF EndOf, FirstOf, PtsOf
<1>8. x.buf \in Seq(Of(s))
  BY DEF States
<1> QED
  BY <1>1, <1>2, <1>5, <1>6, <1>7, <1>8

\* While the frame at q is read, the complete frames are those before it.
LEMMA CompleteBefore ==
  ASSUME NEW s, NEW c \in Seq(ByteRecords), Headed(c), NEW x \in States(s), NEW q,
         NEW last \in Nat, NEW f, NEW bs, InFrame(s, c, q, x, last, f, bs)
  PROVE  CompleteIn(c, last) = {r \in Boundary(c) : r < q}
<1>1. PICK first \in Nat, need \in Nat \ {0}, l \in Nat :
        first = FirstOf(c, q, bs) /\ need = NeedOf(x) /\ l = Len(x.buf)
  BY InFrameFacts
<1>2. q \in Nat \ {0} /\ q <= Len(c) /\ q < first /\ EndOf(c, q) = first + need
  BY <1>1, InFrameFacts
<1>3. q \in Boundary(c) /\ last + 1 = first + l /\ l < need
  BY <1>1 DEF InFrame
<1>4. q - 1 <= last /\ last < first + need /\ last + 1 # first + need
  BY <1>2, <1>3
<1>5. CompleteIn(c, last) = {r \in Boundary(c) : r < q} \cup {}
  BY <1>2, <1>3, <1>4, CompleteFacts
<1> QED
  BY <1>5

\* The header is there.
LEMMA GoodHeader ==
  ASSUME NEW s, NEW c \in Seq(ByteRecords), Headed(c), NEW f, NEW bs, bs = {}, MineIn(s, f) = {},
         NEW x, x.header_ok, x.buf = <<>>, x.cur_len = 0
  PROVE  Good(s, c, x, HeaderEnd(c), f, bs)
<1>1. PICK h \in Nat : h = HeaderEnd(c)
  BY DEF Headed
<1>2. h + 1 \in Boundary(c) /\ \A k \in Boundary(c) : h + 1 <= k
  BY <1>1, BoundaryLeast
<1>3. CompleteIn(c, h) = {}
  BY <1>2 DEF CompleteIn
<1>4. SavedIn(s, c, h, f, bs)
  BY <1>3 DEF SavedIn
<1>5. Between(s, c, x, h, f)
  BY <1>2 DEF Between
<1> QED
  BY <1>1, <1>4, <1>5 DEF Good, Past

\* Behind last a length is there, and a time stamp unless the frame is one of those without,
\* up to past; y is the state then, and bs has the lengths without a time stamp before.
ReadLength(s, c, last, y, past, bs) ==
  \E q \in 1..Len(c), pts \in Nat :
    /\ q = last + 1 /\ pts = PtsOf(c, q, bs)
    /\ c[q].value > pts /\ past + 1 = q + c[q].width + pts
    /\ y \in States(s) /\ y.header_ok /\ y.buf = <<>> /\ y.cur_len = c[q].value
    /\ y.pts_len = pts /\ y.use_len_framing

\* A length read does not change what the frames before it are.
LEMMA BareFacts ==
  ASSUME NEW s, NEW c, NEW last, NEW f, NEW bs, NEW more, SavedIn(s, c, last, f, bs),
         last \in Nat, more \subseteq {last + 1}
  PROVE  SavedIn(s, c, last, f, bs \cup more)
<1>1. \A q \in CompleteIn(c, last) : q \in 1..last
  BY DEF CompleteIn
<1>2. \A q \in CompleteIn(c, last) : q # last + 1
  BY <1>1
<1>3. \A q \in CompleteIn(c, last) : q \in bs \cup more <=> q \in bs
  BY <1>2
<1>4. \A q \in CompleteIn(c, last) : FirstOf(c, q, bs \cup more) = FirstOf(c, q, bs)
  BY <1>3 DEF FirstOf
<1>5. \A q \in CompleteIn(c, last) : FrameIn(s, c, q, bs \cup more) = FrameIn(s, c, q, bs)
  BY <1>4 DEF FrameIn
<1>6. {FrameIn(s, c, q, bs \cup more) : q \in CompleteIn(c, last)}
        = {FrameIn(s, c, q, bs) : q \in CompleteIn(c, last)}
  BY <1>5
<1> QED
  BY <1>6 DEF SavedIn

LEMMA GoodAdopt ==
  ASSUME NEW s, NEW c \in Seq(ByteRecords), NEW f, Numbered(f), NEW x, NEW last \in Nat,
         NEW old, Good(s, c, x, last, f, old), x.header_ok, x.cur_len = 0,
         NEW more, more \subseteq {last + 1}, NEW bs, bs = old \cup more,
         NEW y, NEW past \in Nat, ReadLength(s, c, last, y, past, bs)
  PROVE  Good(s, c, y, past, f, bs)
<1>0. PICK q \in 1..Len(c), pts \in Nat :
        /\ q = last + 1 /\ pts = PtsOf(c, q, bs)
        /\ c[q].value > pts /\ past + 1 = q + c[q].width + pts
        /\ y \in States(s) /\ y.header_ok /\ y.buf = <<>> /\ y.cur_len = c[q].value
        /\ y.pts_len = pts /\ y.use_len_framing
  BY DEF ReadLength
<1>1. Headed(c) /\ SavedIn(s, c, last, f, bs) /\ Between(s, c, x, last, f)
  BY BareFacts DEF Good
<1>2. InFrame(s, c, q, y, past, f, bs)
  <2>1. q \in Boundary(c)
    BY <1>0, <1>1 DEF Between
  <2>2. PICK v \in Nat : v = c[q].value
    BY ByteFacts
  <2>3. Len(y.buf) = 0
    BY <1>0
  <2>4. NeedOf(y) = v - pts /\ v > pts
    BY <1>0, <2>2 DEF NeedOf
  <2>5. past + 1 = FirstOf(c, q, bs) + 0
    <3>1. c[q].width \in Nat
      BY ByteFacts
    <3>2. FirstOf(c, q, bs) = q + c[q].width + pts
      BY <1>0, <3>1 DEF FirstOf, PtsOf
    <3> QED
      BY <1>0, <3>1, <3>2
  <2>6. \A i \in MineIn(s, f) : f[i][1][2] < q
    <3> SUFFICES ASSUME NEW i \in MineIn(s, f) PROVE f[i][1][2] < q
      OBVIOUS
    <3>1. f[i][1][2] <= last /\ f[i][1][2] \in Nat
      BY <1>1 DEF Between, Numbered, MineIn
    <3>2. q = last + 1
      BY <1>0
    <3> QED
      BY <3>1, <3>2
  <2>7. 0 < v - pts
    BY <2>2, <2>4
  <2> QED
    BY <1>0, <2>1, <2>2, <2>3, <2>4, <2>5, <2>6, <2>7 DEF InFrame, Holds
<1>3. q < EndOf(c, q) /\ q \in Boundary(c) /\ q <= Len(c) /\ EndOf(c, q) \in Nat
  BY <1>2, ByteFacts DEF InFrame
<1>4. last < EndOf(c, q) /\ last + 1 # EndOf(c, q) /\ q - 1 <= last
  <2>1. q = last + 1
    BY <1>0
  <2> QED
    BY <1>3, <2>1
<1>5. CompleteIn(c, past) = CompleteIn(c, last)
  <2>1. CompleteIn(c, last) = {r \in Boundary(c) : r < q} \cup {}
    BY <1>1, <1>3, <1>4, CompleteFacts
  <2>2. CompleteIn(c, past) = {r \in Boundary(c) : r < q}
    BY <1>0, <1>1, <1>2, CompleteBefore
  <2> QED
    BY <2>1, <2>2
<1>6. SavedIn(s, c, past, f, bs)
  BY <1>1, <1>5 DEF SavedIn
<1>7. y.cur_len # 0
  BY <1>0, ByteFacts
<1>8. Past(past, bs)
  <2>1. c[q].width \in Nat \ {0}
    BY ByteFacts
  <2>2. last + 1 <= past /\ 1..last \subseteq 1..past /\ last + 1 \in 1..past
    BY <1>0, <2>1
  <2> QED
    BY <2>2 DEF Past, Good
<1> QED
  BY <1>0, <1>1, <1>2, <1>6, <1>7, <1>8 DEF Good

\* More bytes of the frame, behind those in the buffer, are still bytes of it.
LEMMA MoreOfFrame ==
  ASSUME NEW s, NEW c \in Seq(ByteRecords), NEW f, NEW bs, NEW x \in States(s), NEW last \in Nat, NEW q,
         InFrame(s, c, q, x, last, f, bs),
         NEW n \in Nat, NEW b, Behind(s, x, last, n, b)
  PROVE  Holds(s, c, q, b, bs)
<1>1. PICK l \in Nat, first \in Nat : l = Len(x.buf) /\ first = FirstOf(c, q, bs)
  BY InFrameFacts
<1>2. last + 1 = first + l /\ \A i \in 1..l : x.buf[i] = <<s, first + i - 1>>
  BY <1>1 DEF InFrame, Holds
<1>3. /\ Len(b) = l + n
      /\ \A i \in 1..(l + n) :
           b[i] = IF i <= l THEN x.buf[i] ELSE <<s, last + 1 + (i - l) - 1>>
  BY <1>1 DEF Behind
<1>4. \A i \in 1..(l + n) : (i <= l => i \in 1..l) /\ last + 1 + (i - l) - 1 = first + i - 1
  BY <1>2
<1>5. ASSUME NEW i \in 1..(l + n) PROVE b[i] = <<s, first + i - 1>>
  <2>1. CASE i <= l
    <3>1. b[i] = x.buf[i] /\ i \in 1..l
      BY <1>3, <1>4, <2>1
    <3> QED
      BY <1>2, <3>1
  <2>2. CASE ~(i <= l)
    BY <1>3, <1>4, <2>2
  <2> QED
    BY <2>1, <2>2
<1> QED
  BY <1>1, <1>3, <1>5 DEF Holds

LEMMA EndOfMore ==
  ASSUME NEW s, NEW c \in Seq(ByteRecords), NEW f, NEW bs, NEW x \in States(s), NEW last \in Nat, NEW q,
         InFrame(s, c, q, x, last, f, bs), NEW n \in Nat, NEW b, Behind(s, x, last, n, b)
  PROVE  last + n + 1 = FirstOf(c, q, bs) + Len(b)
<1>1. PICK l \in Nat, first \in Nat : l = Len(x.buf) /\ first = FirstOf(c, q, bs)
  BY InFrameFacts
<1>2. last + 1 = first + l
  BY <1>1 DEF InFrame
<1>3. Len(b) = l + n
  BY <1>1 DEF Behind
<1>4. last + n + 1 = first + (l + n)
  BY <1>2
<1> QED
  BY <1>1, <1>3, <1>4

\* A part of the payload.
LEMMA GoodPart ==
  ASSUME NEW s, NEW c \in Seq(ByteRecords), NEW f, NEW bs, NEW x \in States(s), NEW last \in Nat,
         Good(s, c, x, last, f, bs), x.header_ok, x.cur_len # 0,
         NEW n \in Nat, NEW b, Behind(s, x, last, n, b), Len(b) < NeedOf(x)
  PROVE  Good(s, c, [x EXCEPT !.buf = b], last + n, f, bs)
<1> DEFINE y == [x EXCEPT !.buf = b]
<1>1. x.cur_len > 0
  BY DEF States
<1>2. Headed(c) /\ SavedIn(s, c, last, f, bs) /\ x.use_len_framing
  BY <1>1 DEF Good
<1>3. PICK q : InFrame(s, c, q, x, last, f, bs)
  BY <1>1 DEF Good
<1>4. PICK past \in Nat : past = last + n
  OBVIOUS
<1>5. /\ y.header_ok = x.header_ok /\ y.buf = b /\ y.cur_len = x.cur_len
      /\ y.pts_len = x.pts_len /\ y.use_len_framing = x.use_len_framing
  BY DEF States
<1>6. y \in States(s)
  BY DEF States, Behind
<1> HIDE DEF y
<1>7. NeedOf(y) = NeedOf(x)
  BY <1>5 DEF NeedOf
<1>8. Holds(s, c, q, b, bs)
  BY <1>3, MoreOfFrame
<1>9. past + 1 = FirstOf(c, q, bs) + Len(b)
  BY <1>3, <1>4, EndOfMore
<1>10. InFrame(s, c, q, y, past, f, bs)
  BY <1>3, <1>5, <1>7, <1>8, <1>9 DEF InFrame
<1>11. CompleteIn(c, past) = CompleteIn(c, last)
  <2>1. CompleteIn(c, last) = {r \in Boundary(c) : r < q}
    BY <1>2, <1>3, CompleteBefore
  <2>2. CompleteIn(c, past) = {r \in Boundary(c) : r < q}
    BY <1>2, <1>6, <1>10, CompleteBefore
  <2> QED
    BY <2>1, <2>2
<1>12. SavedIn(s, c, past, f, bs)
  BY <1>2, <1>11 DEF SavedIn
<1>14. Past(past, bs)
  BY <1>4 DEF Good, Past
<1>13. Good(s, c, y, past, f, bs)
  BY <1>1, <1>2, <1>5, <1>10, <1>12, <1>14 DEF Good
<1> QED
  BY <1>4, <1>13 DEF y

\* The frames in g are those in f, and b.
OneMore(s, f, g, b) ==
  \E k \in Nat :
    /\ MineIn(s, g) = MineIn(s, f) \cup {k + 1} /\ g[k + 1] = b
    /\ \A i \in MineIn(s, f) : i \in 1..k /\ g[i] = f[i]

LEMMA MineMore ==
  ASSUME NEW s, NEW F, NEW f \in Seq(F), NEW b, b[1][1] = s
  PROVE  OneMore(s, f, f \o <<b>>, b)
<1>1. f \o <<b>> = Append(f, b)
  OBVIOUS
<1>2. PICK g : g = f \o <<b>>
  OBVIOUS
<1>3. PICK n \in Nat : n = Len(f) /\ DOMAIN f = 1..n
  OBVIOUS
<1>4. DOMAIN g = 1..(n + 1) /\ g[n + 1] = b /\ \A i \in 1..n : g[i] = f[i]
  <2>1. Append(f, b) \in Seq(F \cup {b})
    OBVIOUS
  <2> QED
    BY <1>1, <1>2, <1>3, <2>1
<1>5. \A i : i \in 1..(n + 1) <=> i \in 1..n \/ i = n + 1
  OBVIOUS
<1>6. MineIn(s, g) = MineIn(s, f) \cup {n + 1}
  BY <1>3, <1>4, <1>5 DEF MineIn
<1>7. \A i \in MineIn(s, f) : i \in 1..n /\ g[i] = f[i]
  BY <1>3, <1>4 DEF MineIn
<1> QED
  BY <1>2, <1>4, <1>6, <1>7 DEF OneMore

\* The payload in b is complete, within the stream.
Filled(c, x, past, b) == Len(b) = NeedOf(x) /\ past <= Len(c)

\* The rest of the payload.
LEMMA GoodFrame ==
  ASSUME NEW s, NEW c \in Seq(ByteRecords), NEW F, NEW f \in Seq(F), NEW bs, Numbered(f),
         NEW x \in States(s), NEW last \in Nat,
         Good(s, c, x, last, f, bs), x.header_ok, x.cur_len # 0,
         NEW n \in Nat, NEW b, Behind(s, x, last, n, b), Filled(c, x, last + n, b)
  PROVE  Good(s, c, [x EXCEPT !.buf = <<>>, !.cur_len = 0, !.pts_len = 0], last + n, f \o <<b>>, bs)
<1> DEFINE y == [x EXCEPT !.buf = <<>>, !.cur_len = 0, !.pts_len = 0]
<1>1. x.cur_len > 0
  BY DEF States
<1>2. Headed(c) /\ SavedIn(s, c, last, f, bs)
  BY DEF Good
<1>3. PICK q : InFrame(s, c, q, x, last, f, bs)
  BY <1>1 DEF Good
<1>0. Holds(s, c, q, b, bs)
  BY <1>3, MoreOfFrame
<1>4. PICK first \in Nat, need \in Nat \ {0}, past \in Nat :
        first = FirstOf(c, q, bs) /\ need = NeedOf(x) /\ past = last + n
  BY <1>3, InFrameFacts
<1>5. /\ q \in Nat \ {0} /\ q <= Len(c) /\ q < first /\ EndOf(c, q) = first + need
      /\ q \in Boundary(c) /\ Len(b) = need /\ past + 1 = first + need /\ past <= Len(c)
  <2>1. past + 1 = first + need
    BY <1>3, <1>4, EndOfMore DEF Filled
  <2>2. q \in Boundary(c)
    BY <1>3 DEF InFrame
  <2> QED
    BY <1>3, <1>4, <2>1, <2>2, InFrameFacts DEF Filled
<1>6. y.header_ok = x.header_ok /\ y.buf = <<>> /\ y.cur_len = 0
  BY DEF States
<1> HIDE DEF y
<1>7. \A i \in 1..Len(b) : b[i] = <<s, first + i - 1>>
  BY <1>0, <1>4 DEF Holds
<1>8. b = FrameIn(s, c, q, bs)
  <2>1. Len(b) = need /\ q + c[q].width + c[q].value - FirstOf(c, q, bs) = need
    <3>1. Len(b) = need /\ q \in 1..Len(c) /\ EndOf(c, q) = first + need /\ q \in Nat
      BY <1>5, ByteFacts
    <3>2. PICK w \in Nat, v \in Nat : w = c[q].width /\ v = c[q].value
      BY <3>1, ByteFacts
    <3>3. q + w + v = first + need
      BY <3>1, <3>2 DEF EndOf
    <3>4. q + w + v - first = need
      BY <3>1, <3>3
    <3> QED
      BY <1>4, <3>1, <3>2, <3>4
  <2>2. b = [i \in 1..need |-> b[i]]
    <3>1. b \in Seq(Of(s))
      BY DEF Behind
    <3> QED
      BY <2>1, <3>1
  <2> QED
    BY <1>4, <1>7, <2>1, <2>2 DEF FrameIn
<1>9. b[1] = <<s, first>> /\ b[1][1] = s /\ b[1][2] = first
  <2>1. 1 \in 1..Len(b) /\ first + 1 - 1 = first
    BY <1>5
  <2> QED
    BY <1>7, <2>1
<1>10. CompleteIn(c, past) = CompleteIn(c, last) \cup {q}
  <2>1. CompleteIn(c, last) = {r \in Boundary(c) : r < q}
    BY <1>2, <1>3, CompleteBefore
  <2>2. q - 1 <= past /\ past < EndOf(c, q) /\ past + 1 = EndOf(c, q)
    BY <1>5
  <2>3. CompleteIn(c, past) = {r \in Boundary(c) : r < q} \cup {q}
    BY <1>2, <1>5, <2>2, CompleteFacts
  <2> QED
    BY <2>1, <2>3
<1>11. OneMore(s, f, f \o <<b>>, b)
  BY <1>9, MineMore
<1>12. PICK g : g = f \o <<b>>
  OBVIOUS
<1>13. PICK k \in Nat :
         /\ MineIn(s, g) = MineIn(s, f) \cup {k + 1} /\ g[k + 1] = b
         /\ \A i \in MineIn(s, f) : i \in 1..k /\ g[i] = f[i]
  BY <1>11, <1>12 DEF OneMore
<1>14. \A i \in MineIn(s, f) : g[i][1][2] \in Nat /\ g[i][1][2] < q
  <2>1. \A i \in MineIn(s, f) : f[i][1][2] \in Nat
    BY DEF MineIn, Numbered
  <2>2. \A i \in MineIn(s, f) : f[i][1][2] < q
    BY <1>3 DEF InFrame
  <2> QED
    BY <1>13, <2>1, <2>2
<1>15. {g[i] : i \in MineIn(s, g)} = {FrameIn(s, c, r, bs) : r \in CompleteIn(c, past)}
  <2>1. {g[i] : i \in MineIn(s, g)} = {f[i] : i \in MineIn(s, f)} \cup {b}
    BY <1>13
  <2>2. {FrameIn(s, c, r, bs) : r \in CompleteIn(c, past)}
          = {FrameIn(s, c, r, bs) : r \in CompleteIn(c, last)} \cup {FrameIn(s, c, q, bs)}
    BY <1>10
  <2> QED
    BY <1>2, <1>8, <2>1, <2>2 DEF SavedIn
<1>16. \A i, j \in MineIn(s, g) : i < j => g[i][1][2] < g[j][1][2]
  <2> SUFFICES ASSUME NEW i \in MineIn(s, g), NEW j \in MineIn(s, g), i < j
               PROVE  g[i][1][2] < g[j][1][2]
    OBVIOUS
  <2>1. i \in MineIn(s, f)
    <3>1. \A m \in MineIn(s, f) : m \in 1..k
      BY <1>13
    <3> QED
      BY <1>13, <3>1
  <2>2. CASE j \in MineIn(s, f)
    <3>1. f[i][1][2] < f[j][1][2]
      BY <1>2, <2>1, <2>2 DEF SavedIn
    <3> QED
      BY <1>13, <2>1, <2>2, <3>1
  <2>3. CASE j = k + 1
    <3>1. g[j][1][2] = first
      BY <1>9, <1>13, <2>3
    <3>2. PICK a \in Nat : a = g[i][1][2] /\ a < q
      BY <1>14, <2>1
    <3>3. q \in Nat /\ q < first
      BY <1>5
    <3>4. a < first
      BY <3>2, <3>3
    <3> QED
      BY <3>1, <3>2, <3>4
  <2> QED
    BY <1>13, <2>2, <2>3
<1>17. \A i \in MineIn(s, g) : g[i][1][2] <= past
  <2> SUFFICES ASSUME NEW i \in MineIn(s, g) PROVE g[i][1][2] <= past
    OBVIOUS
  <2>1. q \in Nat /\ q <= past /\ first <= past
    BY <1>5
  <2>2. CASE i \in MineIn(s, f)
    <3>1. PICK a \in Nat : a = g[i][1][2] /\ a < q
      BY <1>14, <2>2
    <3>2. a <= past
      BY <2>1, <3>1
    <3> QED
      BY <3>1, <3>2
  <2>3. CASE i = k + 1
    BY <1>9, <1>13, <2>1, <2>3
  <2> QED
    BY <1>13, <2>2, <2>3
<1>18. past + 1 \in Boundary(c)
  <2>1. EndOf(c, q) <= Len(c) + 1
    BY <1>5, ByteFacts
  <2> QED
    BY <1>5, <2>1, NextBoundary
<1>19. Between(s, c, y, past, g) /\ SavedIn(s, c, past, g, bs)
  BY <1>6, <1>15, <1>16, <1>17, <1>18 DEF Between, SavedIn
<1>21. Past(past, bs)
  BY <1>4 DEF Good, Past
<1>20. Good(s, c, y, past, g, bs)
  BY <1>2, <1>6, <1>19, <1>21 DEF Good
<1> QED
  BY <1>4, <1>12, <1>20 DEF y
-----------------------------------------------------------------------------
(* The frames saved                                                         *)

\* The bytes of a stream that the client has dealt with.
Seen(s) == IF s = cs THEN at - 1 ELSE pos[s]

StreamsInv ==
  g_running => \A s \in Streams \ odd : Good(s, content[s], st[s], Seen(s), handed, bare[s])

ReceiverInv == TypeInv /\ BufferFits /\ StreamsInv

AllFrames == UNION {Frames(s) : s \in Streams}

LEMMA FirstByte ==
  ASSUME NEW s, NEW b \in Frames(s)
  PROVE  b[1][1] = s /\ b[1][2] \in Nat
<1>1. b \in Seq(Of(s)) /\ b # <<>>
  BY DEF Frames
<1>2. Len(b) # 0 /\ Len(b) \in Nat
  BY <1>1
<1>3. 1 \in 1..Len(b)
  BY <1>2
<1>4. b[1] \in Of(s)
  BY <1>1, <1>3, ElementOfSeq, Zenon
<1> QED
  BY <1>4 DEF Of

LEMMA SavedFacts ==
  ASSUME TypeInv
  PROVE  handed \in Seq(AllFrames) /\ Numbered(handed)
<1>1. handed \in Seq(AllFrames)
  BY DEF TypeInv, AllFrames
<1>2. ASSUME NEW i \in DOMAIN handed PROVE handed[i][1][2] \in Nat
  <2>1. handed[i] \in AllFrames
    BY <1>1
  <2>2. PICK s \in Streams : handed[i] \in Frames(s)
    BY <2>1 DEF AllFrames
  <2> QED
    BY <2>2, FirstByte
<1> QED
  BY <1>1, <1>2 DEF Numbered

\* Frames of another stream leave those of a stream as they are.
SameMine(s, f, g) == MineIn(s, g) = MineIn(s, f) /\ \A i \in MineIn(s, f) : g[i] = f[i]

LEMMA OtherFrames ==
  ASSUME NEW F, NEW f \in Seq(F), NEW s, NEW z, s # z, NEW frames \in Seq(Frames(z))
  PROVE  SameMine(s, f, f \o frames)
<1>0. PICK g : g = f \o frames
  OBVIOUS
<1>1. PICK k \in Nat, n \in Nat : k = Len(f) /\ n = Len(frames)
  OBVIOUS
<1>2. /\ DOMAIN f = 1..k /\ DOMAIN g = 1..(k + n)
      /\ \A i \in 1..(k + n) : g[i] = IF i <= k THEN f[i] ELSE frames[i - k]
  BY <1>0, <1>1
<1>3. \A i \in 1..(k + n) : (i <= k <=> i \in 1..k) /\ (~(i <= k) => i - k \in 1..n)
  OBVIOUS
<1>4. \A i \in 1..k : i \in 1..(k + n) /\ i <= k
  OBVIOUS
<1>5. \A j \in 1..n : frames[j] \in Frames(z)
  BY <1>1, ElementOfSeq, Zenon
<1>6. ASSUME NEW i \in 1..(k + n), ~(i <= k) PROVE g[i][1][1] # s
  <2>1. g[i] = frames[i - k] /\ frames[i - k] \in Frames(z)
    BY <1>2, <1>3, <1>5, <1>6
  <2> QED
    BY <2>1, FirstByte
<1>7. \A i \in 1..k : g[i] = f[i]
  BY <1>2, <1>4
<1>8. \A i : i \in MineIn(s, g) <=> i \in MineIn(s, f)
  BY <1>2, <1>3, <1>4, <1>6, <1>7 DEF MineIn
<1>9. MineIn(s, g) = MineIn(s, f) /\ \A i \in MineIn(s, f) : g[i] = f[i]
  BY <1>2, <1>7, <1>8 DEF MineIn
<1> QED
  BY <1>0, <1>9 DEF SameMine

LEMMA GoodSame ==
  ASSUME NEW s, NEW c, NEW x, NEW last, NEW f, NEW g, NEW bs,
         Good(s, c, x, last, f, bs), SameMine(s, f, g)
  PROVE  Good(s, c, x, last, g, bs)
<1>1. MineIn(s, g) = MineIn(s, f) /\ \A i \in MineIn(s, f) : g[i] = f[i]
  BY DEF SameMine
<1>2. SavedIn(s, c, last, f, bs) => SavedIn(s, c, last, g, bs)
  BY <1>1 DEF SavedIn
<1>3. Between(s, c, x, last, f) => Between(s, c, x, last, g)
  BY <1>1 DEF Between
<1>4. \A q : InFrame(s, c, q, x, last, f, bs) => InFrame(s, c, q, x, last, g, bs)
  BY <1>1 DEF InFrame
<1> QED
  BY <1>1, <1>2, <1>3, <1>4 DEF Good

\* The stream in hand, before a turn of the loop that keeps it even.
LEMMA InHand ==
  ASSUME ReceiverInv, InCall, g_running, cs \notin odd
  PROVE  /\ Good(cs, content[cs], st[cs], at - 1, handed, bare[cs])
         /\ cs \in Streams /\ content[cs] \in Seq(ByteRecords) /\ st[cs] \in States(cs)
         /\ at - 1 \in Nat /\ hand \in Nat /\ at \in 1..hand /\ hand <= Len(content[cs])
         /\ handed \in Seq(AllFrames) /\ Numbered(handed)
<1>1. TypeInv
  BY DEF ReceiverInv
<1>2. /\ cs \in Streams /\ content[cs] \in Seq(ByteRecords) /\ st[cs] \in States(cs)
      /\ hand \in Nat /\ at \in 1..hand /\ hand <= Len(content[cs])
  BY <1>1, Here1
<1>3. Good(cs, content[cs], st[cs], Seen(cs), handed, bare[cs])
  BY <1>2 DEF ReceiverInv, StreamsInv
<1>4. Good(cs, content[cs], st[cs], at - 1, handed, bare[cs])
  BY <1>3 DEF Seen
<1> QED
  BY <1>1, <1>2, <1>4, SavedFacts

\* What holds of it after the turn.
HandKept == cs \notin odd' /\ g_running' => Good(cs, content[cs], st'[cs], at' - 1, handed', bare'[cs])

LEMMA HandDrop ==
  ASSUME Drop
  PROVE  HandKept
BY DEF Drop, HandKept

LEMMA HandHeader ==
  ASSUME ReceiverInv, WtHeader
  PROVE  HandKept
<1> DEFINE sid == at + Here(at).width
           r == [New EXCEPT !.header_ok = TRUE, !.cap = st[cs].cap]
<1>1. InCall /\ ~st[cs].header_ok /\ UNCHANGED <<content, pos, cs, hand, handed, g_running, bare>>
  BY DEF WtHeader, chunkVars, frameVars
<1>2. CASE Drop
  BY <1>2, HandDrop
<1>3. CASE /\ Whole(at) /\ Whole(sid) /\ at' = sid + Here(sid).width
           /\ st' = [st EXCEPT ![cs] = r] /\ UNCHANGED odd
  <2> SUFFICES ASSUME cs \notin odd', g_running'
               PROVE  Good(cs, content[cs], st'[cs], at' - 1, handed', bare'[cs])
    BY DEF HandKept
  <2>1. PICK c \in Seq(ByteRecords) : c = content[cs]
    BY <1>1, <1>3, InHand
  <2>2. /\ Good(cs, c, st[cs], at - 1, handed, bare[cs]) /\ hand \in Nat /\ hand <= Len(c) /\ at \in 1..hand
        /\ st[cs] \in States(cs)
    BY <1>1, <1>3, <2>1, InHand
  <2>3. at - 1 = 0 /\ MineIn(cs, handed) = {}
    BY <1>1, <2>2 DEF Good
  <2>4. at = 1
    BY <2>2, <2>3
  <2> HIDE DEF r
  <2>5. r.header_ok /\ r.buf = <<>> /\ r.cur_len = 0 /\ st'[cs] = r
    <3>1. st[cs].cap \in Nat
      BY <2>2 DEF States
    <3>2. r.header_ok /\ r.buf = <<>> /\ r.cur_len = 0
      BY DEF New, r
    <3> QED
      BY <1>1, <1>3, <3>2, Here1 DEF TypeInv, ReceiverInv
  <2>6. HeaderEnd(c) \in Nat /\ HeaderEnd(c) <= Len(c) /\ at' - 1 = HeaderEnd(c)
    <3>1. sid = 1 + c[1].width /\ at' = sid + c[sid].width
      BY <1>3, <2>1, <2>4 DEF Here
    <3>2. /\ sid \in Nat \ {0} /\ c[1].width \in Nat \ {0}
      BY <1>1, <1>3, <2>1, <2>2, <2>4, WholeFacts DEF ReceiverInv, Here
    <3>3. /\ c[sid].width \in Nat \ {0} /\ sid + c[sid].width <= hand + 1
      <4> HIDE DEF sid
      <4> QED
        BY <1>1, <1>3, <2>1, <3>2, WholeFacts DEF ReceiverInv, Here
    <3> HIDE DEF sid
    <3>4. HeaderEnd(c) = c[1].width + c[sid].width
      BY <3>1 DEF HeaderEnd
    <3>5. PICK v \in Nat, w \in Nat, l \in Nat : v = c[1].width /\ w = c[sid].width /\ l = Len(c)
      BY <3>2, <3>3, ByteFacts
    <3>6. 1 + v + w <= hand + 1 /\ hand <= l /\ hand \in Nat
      BY <2>2, <3>1, <3>3, <3>5
    <3>7. PICK u \in Nat : u = v + w /\ u <= l /\ (1 + v) + w - 1 = u
      BY <3>6
    <3>8. HeaderEnd(c) = u /\ Len(c) = l /\ at' = (1 + v) + w
      BY <3>1, <3>4, <3>5, <3>7
    <3> QED
      BY <3>7, <3>8
  <2>7. Good(cs, c, r, HeaderEnd(c), handed, bare[cs])
    <3>1. bare[cs] = {}
      BY <2>2, <2>3 DEF Good, Past
    <3> QED
      BY <2>3, <2>5, <2>6, <3>1, GoodHeader DEF Headed
  <2> QED
    BY <1>1, <2>1, <2>5, <2>6, <2>7
<1> QED
  BY <1>2, <1>3 DEF WtHeader

LEMMA HandAdopt ==
  ASSUME ReceiverInv, AdoptLength
  PROVE  HandKept
<1> DEFINE stamp == at + Here(at).width
           pts == IF Whole(stamp) THEN Here(stamp).width ELSE 0
           need == IF Here(at).value > pts THEN Here(at).value - pts ELSE 0
           adopted == [st[cs] EXCEPT !.cur_len = Here(at).value, !.buf = <<>>,
                                     !.pts_len = pts, !.use_len_framing = need > 0]
           grown == [adopted EXCEPT !.cap = IF need > @ THEN need ELSE @]
<1>1. /\ InCall /\ st[cs].header_ok /\ st[cs].cur_len = 0 /\ Whole(at)
      /\ UNCHANGED <<content, pos, cs, hand, handed, g_running>>
  BY DEF AdoptLength, Detecting, chunkVars, frameVars
<1>2. CASE Drop
  BY <1>2, HandDrop
<1>3. CASE /\ at' = stamp + pts /\ st' = [st EXCEPT ![cs] = grown]
           /\ odd' = (IF need = 0 THEN odd \cup {cs} ELSE odd)
  <2> SUFFICES ASSUME cs \notin odd', g_running'
               PROVE  Good(cs, content[cs], st'[cs], at' - 1, handed', bare'[cs])
    BY DEF HandKept
  <2>1. cs \notin odd /\ need # 0
    BY <1>3
  <2>2. PICK c \in Seq(ByteRecords) : c = content[cs]
    BY <1>1, <2>1, InHand
  <2>3. /\ Good(cs, c, st[cs], at - 1, handed, bare[cs]) /\ hand \in Nat /\ hand <= Len(c)
        /\ at \in 1..hand /\ st[cs] \in States(cs) /\ Numbered(handed) /\ at - 1 \in Nat
    BY <1>1, <2>1, <2>2, InHand
  <2>4. /\ stamp = at + c[at].width /\ stamp \in Nat \ {0} /\ stamp <= hand + 1
        /\ c[at].value \in Nat /\ c[at].value = Here(at).value
    BY <1>1, <2>2, <2>3, WholeFacts DEF ReceiverInv, Here
  <2>5. pts \in Nat /\ (pts # 0 => pts = c[stamp].width)
    <3>1. CASE Whole(stamp)
      <4>1. pts = Here(stamp).width
        BY <3>1
      <4> HIDE DEF stamp, pts, need
      <4> QED
        BY <1>1, <2>2, <2>4, <3>1, <4>1, WholeFacts DEF ReceiverInv, Here
    <3>2. CASE ~Whole(stamp)
      <4>1. pts = 0
        BY <3>2
      <4> HIDE DEF stamp, pts, need
      <4> QED
        BY <4>1
    <3> QED
      BY <3>1, <3>2
  <2>16. bare' = [bare EXCEPT ![cs] = IF pts = 0 THEN @ \cup {at} ELSE @]
    BY DEF AdoptLength, stamp, pts
  <2> HIDE DEF stamp, pts
  <2>6. c[at].value > pts /\ need > 0
    BY <2>1, <2>4, <2>5
  <2> HIDE DEF need
  <2>7. /\ grown.header_ok /\ grown.buf = <<>> /\ grown.cur_len = c[at].value
        /\ grown.pts_len = pts /\ grown.use_len_framing
    BY <1>1, <2>3, <2>4, <2>6 DEF States
  <2>8. st'[cs] = grown
    BY <1>1, <1>3, Here1 DEF ReceiverInv, TypeInv
  <2> HIDE DEF adopted, grown
  <2>9. grown \in States(cs)
    <3>1. \E r : TurnTo(r, <<>>)
      BY TurnAdopt DEF ReceiverInv
    <3>2. \E r : r \in States(cs) /\ st' = [st EXCEPT ![cs] = r]
      BY <3>1 DEF TurnTo
    <3> QED
      BY <1>1, <2>8, <3>2, Here1 DEF ReceiverInv, TypeInv
  <2>10. at \in 1..Len(c) /\ at = (at - 1) + 1
    BY <2>3, ByteFacts
  <2>11. PICK past \in Nat : past + 1 = stamp + pts /\ past = stamp + pts - 1
    <3>1. stamp \in Nat \ {0} /\ pts \in Nat
      BY <2>4, <2>5
    <3> QED
      BY <3>1
  <2>13. PICK last \in Nat : last = at - 1 /\ at = last + 1
    BY <2>3
  <2>17. PICK more : more = IF pts = 0 THEN {at} ELSE {}
    OBVIOUS
  <2>18. bare'[cs] = bare[cs] \cup more /\ more \subseteq {last + 1}
    <3>1. cs \in DOMAIN bare
      BY <1>1, Here1 DEF ReceiverInv, TypeInv
    <3>2. bare'[cs] = IF pts = 0 THEN bare[cs] \cup {at} ELSE bare[cs]
      BY <2>16, <3>1
    <3> QED
      BY <2>13, <2>17, <3>2
  <2>19. pts = PtsOf(c, at, bare'[cs])
    <3>1. CASE pts = 0 /\ at \in bare'[cs]
      BY <3>1 DEF PtsOf
    <3>2. CASE pts # 0 /\ at \notin bare[cs]
      <4>1. at \notin bare'[cs]
        BY <2>17, <2>18, <3>2
      <4> QED
        BY <2>4, <2>5, <3>2, <4>1 DEF PtsOf
    <3>3. pts = 0 => at \in bare'[cs]
      BY <2>17, <2>18
    <3>4. at \notin bare[cs]
      BY <2>3, <2>13 DEF Good, Past
    <3> QED
      BY <3>1, <3>2, <3>3, <3>4
  <2>12. ReadLength(cs, c, last, grown, past, bare'[cs])
    <3>1. past + 1 = at + c[at].width + pts
      BY <2>4, <2>11
    <3> QED
      BY <2>5, <2>6, <2>7, <2>9, <2>10, <2>13, <2>19, <3>1 DEF ReadLength
  <2>15. Good(cs, c, grown, past, handed, bare'[cs])
    <3>1. Good(cs, c, st[cs], last, handed, bare[cs])
      BY <2>3, <2>13
    <3> QED
      BY <1>1, <2>3, <2>12, <2>18, <3>1, GoodAdopt
  <2>20. at' - 1 = past
    BY <1>3, <2>11
  <2> QED
    BY <1>1, <2>2, <2>8, <2>15, <2>20
<1> QED
  BY <1>2, <1>3 DEF AdoptLength, stamp, pts

LEMMA HandOver ==
  ASSUME ReceiverInv, FrameOver
  PROVE  HandKept
<1> DEFINE r == [st[cs] EXCEPT !.use_len_framing = FALSE]
<1>1. /\ InCall /\ st[cs].header_ok /\ Need(cs) = 0 /\ Need(cs) = NeedOf(st[cs])
      /\ UNCHANGED <<content, pos, cs, hand, at, handed, g_running, bare, odd>>
  BY DEF FrameOver, chunkVars, frameVars, Need, NeedOf
<1> SUFFICES ASSUME cs \notin odd', g_running'
             PROVE  Good(cs, content[cs], st'[cs], at' - 1, handed', bare'[cs])
  BY DEF HandKept
<1>2. PICK c \in Seq(ByteRecords) : c = content[cs]
  BY <1>1, InHand
<1>3. /\ Good(cs, c, st[cs], at - 1, handed, bare[cs]) /\ st[cs] \in States(cs) /\ at - 1 \in Nat
  BY <1>1, <1>2, InHand
<1>4. /\ Headed(c) /\ SavedIn(cs, c, at - 1, handed, bare[cs])
      /\ st[cs].cur_len = 0 => Between(cs, c, st[cs], at - 1, handed)
      /\ st[cs].cur_len > 0 => \E q : InFrame(cs, c, q, st[cs], at - 1, handed, bare[cs])
  BY <1>1, <1>3 DEF Good
<1>5. st[cs].cur_len = 0
  <2> SUFFICES ASSUME st[cs].cur_len # 0 PROVE FALSE
    OBVIOUS
  <2>1. st[cs].cur_len > 0
    BY <1>3 DEF States
  <2>2. PICK q : InFrame(cs, c, q, st[cs], at - 1, handed, bare[cs])
    BY <1>4, <2>1
  <2>3. NeedOf(st[cs]) \in Nat \ {0}
    BY <1>3, <2>2, InFrameFacts
  <2> QED
    BY <1>1, <2>3
<1>6. /\ r.header_ok = st[cs].header_ok /\ r.buf = st[cs].buf /\ r.cur_len = st[cs].cur_len
  BY <1>3 DEF States
<1>7. st'[cs] = r
  BY <1>1, Here1 DEF FrameOver, ReceiverInv, TypeInv
<1> HIDE DEF r
<1>8. Good(cs, c, r, at - 1, handed, bare[cs])
  BY <1>1, <1>3, <1>4, <1>5, <1>6 DEF Good, Between
<1> QED
  BY <1>1, <1>2, <1>7, <1>8

LEMMA HandPayload ==
  ASSUME ReceiverInv, Payload
  PROVE  HandKept
<1> DEFINE n == Smaller(Rest, Need(cs) - Len(st[cs].buf))
           buf == st[cs].buf \o [i \in 1..n |-> <<cs, at + i - 1>>]
           last == MaxFrames > 0 /\ saved' >= MaxFrames
           over == [st[cs] EXCEPT !.buf = <<>>, !.cur_len = 0, !.pts_len = 0]
           part == [st[cs] EXCEPT !.buf = buf]
<1>1. /\ InCall /\ UNCHANGED <<content, pos, cs, hand, bare, odd>>
      /\ st[cs].header_ok /\ st[cs].use_len_framing /\ Need(cs) > 0 /\ Need(cs) = NeedOf(st[cs])
  BY DEF Payload, Framing, chunkVars, Need, NeedOf
<1> SUFFICES ASSUME cs \notin odd', g_running'
             PROVE  Good(cs, content[cs], st'[cs], at' - 1, handed', bare'[cs])
  BY DEF HandKept
<1>2. g_running /\ cs \notin odd
  BY <1>1 DEF Payload, Save, frameVars
<1>3. PICK c \in Seq(ByteRecords) : c = content[cs]
  BY <1>1, <1>2, InHand
<1>4. /\ Good(cs, c, st[cs], at - 1, handed, bare[cs]) /\ st[cs] \in States(cs)
      /\ at - 1 \in Nat /\ hand \in Nat /\ at \in 1..hand /\ hand <= Len(c)
      /\ handed \in Seq(AllFrames) /\ Numbered(handed) /\ cs \in Streams
  BY <1>1, <1>2, <1>3, InHand
<1>5. Framed(st[cs])
  BY <1>4 DEF ReceiverInv, TypeInv
<1>6. PICK need \in Nat, l \in Nat : need = Need(cs) /\ l = Len(st[cs].buf) /\ l <= need /\ need > 0
  <2>1. st[cs].cur_len \in Nat /\ st[cs].pts_len \in Nat /\ st[cs].buf \in Seq(Of(cs))
    BY <1>4 DEF States
  <2>2. Need(cs) \in Nat
    BY <2>1 DEF Need
  <2> QED
    BY <1>1, <1>5, <2>1, <2>2 DEF Framed
<1>7. PICK k \in Nat : k = n /\ k <= Rest /\ l + k <= need /\ at - 1 + k <= hand
                       /\ at + k - 1 = (at - 1) + k
  <2>1. PICK r \in Nat : r = Rest /\ r = hand - at + 1 /\ r > 0
    BY <1>4 DEF Rest
  <2>2. n = IF r < need - l THEN r ELSE need - l
    BY <1>6, <2>1 DEF Smaller
  <2>3. PICK k \in Nat : k = (IF r < need - l THEN r ELSE need - l) /\ k <= r /\ l + k <= need
    BY <1>6, <2>1
  <2>4. at - 1 + k <= hand /\ at + k - 1 = (at - 1) + k
    BY <1>4, <2>1, <2>3
  <2> HIDE DEF n
  <2> QED
    BY <2>1, <2>2, <2>3, <2>4
<1> HIDE DEF n
<1>8. /\ buf \in Seq(Of(cs)) /\ Len(buf) = Len(st[cs].buf) + k
      /\ \A i \in 1..(Len(st[cs].buf) + k) :
           buf[i] = IF i <= Len(st[cs].buf) THEN st[cs].buf[i]
                    ELSE <<cs, at + (i - Len(st[cs].buf)) - 1>>
  BY <1>1, <1>7, MoreBytes DEF ReceiverInv
<1> HIDE DEF buf
<1>9. Behind(cs, st[cs], at - 1, k, buf)
  <2>1. at = at - 1 + 1
    BY <1>4
  <2> QED
    BY <1>8, <2>1 DEF Behind
<1>10. st[cs].cur_len # 0
  BY <1>1, <1>4 DEF NeedOf, States
<1>11. PICK p \in Nat : p = at - 1
  BY <1>4
<1>12. PICK e \in Nat : e = at + k /\ e - 1 = p + k
  <2>1. at = p + 1
    BY <1>4, <1>11
  <2>2. at + k \in Nat /\ (at + k) - 1 = p + k
    BY <2>1
  <2> QED
    BY <2>2
<1>13. CASE /\ Len(buf) < Need(cs) /\ st' = [st EXCEPT ![cs].buf = buf] /\ at' = at + n
            /\ UNCHANGED frameVars
  <2>1. st'[cs] = part
    BY <1>4, <1>13 DEF ReceiverInv, TypeInv
  <2>2. handed' = handed
    BY <1>13 DEF frameVars
  <2>3. Good(cs, c, part, p + k, handed, bare[cs])
    <3>1. Len(buf) < NeedOf(st[cs])
      BY <1>1, <1>13
    <3>2. Good(cs, c, st[cs], p, handed, bare[cs]) /\ Behind(cs, st[cs], p, k, buf)
      BY <1>4, <1>9, <1>11
    <3> QED
      BY <1>1, <1>4, <1>10, <3>1, <3>2, GoodPart
  <2>4. at' - 1 = p + k
    <3>1. at' = e
      BY <1>7, <1>12, <1>13
    <3> QED
      BY <1>12, <3>1
  <2> HIDE DEF part
  <2> QED
    BY <1>1, <1>3, <2>1, <2>2, <2>3, <2>4
<1>14. CASE /\ Len(buf) >= Need(cs) /\ Save(<<buf>>)
            /\ at' = (IF last THEN hand + 1 ELSE at + n)
            /\ st' = [st EXCEPT ![cs] = IF last THEN part ELSE over]
  <2>1. handed' = handed \o <<buf>> /\ saved' \in Nat
    BY <1>14, SaveFacts DEF ReceiverInv
  <2>2. ~last
    <3>1. MaxFrames = 0 \/ saved' < MaxFrames
      BY <1>14 DEF Save
    <3>2. MaxFrames \in Nat
      BY NumbersAssumption
    <3> QED
      BY <2>1, <3>1, <3>2
  <2> HIDE DEF last
  <2>3. st'[cs] = over /\ at' = at + n
    BY <1>4, <1>14, <2>2 DEF ReceiverInv, TypeInv
  <2>4. Filled(c, st[cs], p + k, buf)
    <3>1. Len(buf) = l + k /\ NeedOf(st[cs]) = need
      BY <1>1, <1>6, <1>8
    <3>2. ~(l + k < need)
      BY <1>6, <1>14, <3>1
    <3>3. l + k = need
      BY <1>7, <3>2
    <3>4. p + k <= Len(c)
      <4>1. PICK m \in Nat : m = Len(c)
        BY ByteFacts
      <4>2. p + k <= hand /\ hand <= m /\ hand \in Nat
        BY <1>4, <1>7, <1>11, <4>1
      <4> QED
        BY <4>1, <4>2
    <3> QED
      BY <3>1, <3>3, <3>4 DEF Filled
  <2>5. Good(cs, c, over, p + k, handed \o <<buf>>, bare[cs])
    <3>1. Good(cs, c, st[cs], p, handed, bare[cs]) /\ Behind(cs, st[cs], p, k, buf)
      BY <1>4, <1>9, <1>11
    <3> QED
      BY <1>1, <1>4, <1>10, <2>4, <3>1, GoodFrame
  <2>6. at' - 1 = p + k
    <3>1. at' = e
      BY <1>7, <1>12, <2>3
    <3> QED
      BY <1>12, <3>1
  <2> HIDE DEF over
  <2> QED
    BY <1>1, <1>3, <2>1, <2>3, <2>5, <2>6
<1>15. st' = [st EXCEPT ![cs] = IF last THEN [@ EXCEPT !.buf = buf]
                               ELSE [@ EXCEPT !.buf = <<>>, !.cur_len = 0, !.pts_len = 0]]
        => st' = [st EXCEPT ![cs] = IF last THEN part ELSE over]
  OBVIOUS
<1> QED
  BY <1>13, <1>14, <1>15 DEF Payload, n, buf

\* A turn of the loop does nothing to the other streams.
LEMMA OthersKept ==
  ASSUME ReceiverInv, NEW r, NEW frames, TurnTo(r, frames), g_running',
         NEW s \in Streams, s # cs, s \notin odd'
  PROVE  Good(s, content'[s], st'[s], pos'[s], handed', bare'[s])
<1>1. /\ content' = content /\ pos' = pos /\ st' = [st EXCEPT ![cs] = r] /\ g_running
      /\ frames \in Seq(Frames(cs)) /\ handed' = handed \o frames /\ s \notin odd
      /\ \E b \in SUBSET Nat : bare' = [bare EXCEPT ![cs] = b]
  BY DEF TurnTo
<1>2. st'[s] = st[s] /\ bare'[s] = bare[s]
  BY <1>1 DEF ReceiverInv, TypeInv
<1>3. Good(s, content[s], st[s], pos[s], handed, bare[s])
  BY <1>1 DEF ReceiverInv, StreamsInv, Seen
<1>4. handed \in Seq(AllFrames)
  BY SavedFacts DEF ReceiverInv
<1>5. SameMine(s, handed, handed \o frames)
  BY <1>1, <1>4, OtherFrames
<1>6. Good(s, content[s], st[s], pos[s], handed \o frames, bare[s])
  BY <1>3, <1>5, GoodSame
<1> QED
  BY <1>1, <1>2, <1>6

LEMMA TurnKeeps ==
  ASSUME ReceiverInv, CallStep
  PROVE  StreamsInv'
<1>1. PICK r, frames : TurnTo(r, frames)
  BY Turns DEF ReceiverInv
<1>2. cs' = cs /\ content' = content /\ pos' = pos
  BY <1>1 DEF TurnTo
<1>3. HandKept
  <2>1. CASE NoStream
    BY <2>1 DEF NoStream, HandKept
  <2>2. CASE WtHeader
    BY <2>2, HandHeader
  <2>3. CASE CutLength
    BY <2>3, HandDrop DEF CutLength
  <2>4. CASE AdoptLength
    BY <2>4, HandAdopt
  <2>5. CASE FrameOver
    BY <2>5, HandOver
  <2>6. CASE Payload
    BY <2>6, HandPayload
  <2>7. CASE Accumulate
    BY <2>7, HandDrop DEF Accumulate
  <2> QED
    BY <2>1, <2>2, <2>3, <2>4, <2>5, <2>6, <2>7 DEF CallStep
<1>4. ASSUME g_running', NEW s \in Streams, s \notin odd'
      PROVE  Good(s, content'[s], st'[s], IF s = cs' THEN at' - 1 ELSE pos'[s], handed', bare'[s])
  <2>1. CASE s = cs
    BY <1>2, <1>3, <1>4, <2>1 DEF HandKept
  <2>2. CASE s # cs
    BY <1>1, <1>2, <1>4, <2>2, OthersKept
  <2> QED
    BY <2>1, <2>2
<1> QED
  BY <1>4 DEF StreamsInv, Seen

\* Between two calls a new chunk changes nothing.
LEMMA DeliverKeeps ==
  ASSUME ReceiverInv, NEW z \in Streams, Deliver(z)
  PROVE  StreamsInv'
<1>1. /\ ~InCall /\ cs' = z /\ at' = pos[z] + 1 /\ pos \in [Streams -> Nat]
      /\ UNCHANGED <<content, st, handed, g_running, bare, odd>>
      /\ \A s \in Streams : s # z => pos'[s] = pos[s]
  BY DEF Deliver, ReceiverInv, TypeInv, frameVars
<1>2. at - 1 = pos[cs]
  <2>1. at \in Nat \ {0} /\ hand \in Nat /\ hand = pos[cs] /\ at <= hand + 1 /\ ~(at <= hand)
    BY <1>1 DEF ReceiverInv, TypeInv, InCall
  <2>2. at - 1 = hand
    BY <2>1
  <2> QED
    BY <2>1, <2>2
<1>3. at' - 1 = pos[z]
  <2>1. PICK p \in Nat : p = pos[z]
    BY <1>1
  <2>2. p + 1 - 1 = p
    OBVIOUS
  <2> QED
    BY <1>1, <2>1, <2>2
<1>4. ASSUME g_running', NEW s \in Streams, s \notin odd'
      PROVE  Good(s, content'[s], st'[s], IF s = cs' THEN at' - 1 ELSE pos'[s], handed', bare'[s])
  <2>1. Good(s, content[s], st[s], pos[s], handed, bare[s])
    BY <1>1, <1>2, <1>4 DEF ReceiverInv, StreamsInv, Seen
  <2>2. (IF s = cs' THEN at' - 1 ELSE pos'[s]) = pos[s]
    BY <1>1, <1>3
  <2> QED
    BY <1>1, <2>1, <2>2
<1> QED
  BY <1>4 DEF StreamsInv, Seen

LEMMA ReceiverStep ==
  ASSUME ReceiverInv, [ReceiverNext]_receiverVars
  PROVE  ReceiverInv'
<1>1. TypeInv' /\ BufferFits'
  BY TypeStep DEF ReceiverInv
<1>2. CASE CallStep
  BY <1>1, <1>2, TurnKeeps DEF ReceiverInv
<1>3. CASE Connect \/ UNCHANGED receiverVars
  <2>1. UNCHANGED <<content, pos, cs, at, st, handed, g_running, bare, odd>>
    BY <1>3 DEF Connect, chunkVars, frameVars, receiverVars
  <2>2. StreamsInv'
    BY <2>1 DEF ReceiverInv, StreamsInv, Seen
  <2> QED
    BY <1>1, <2>2 DEF ReceiverInv
<1>4. ASSUME NEW s \in Streams, Deliver(s) PROVE ReceiverInv'
  BY <1>1, <1>4, DeliverKeeps DEF ReceiverInv
<1> QED
  BY <1>2, <1>3, <1>4 DEF ReceiverNext

LEMMA ReceiverStart ==
  ASSUME ReceiverInit
  PROVE  ReceiverInv
<1>1. TypeInv /\ BufferFits
  BY TypeInit
<1>2. /\ pos = [s \in Streams |-> 0] /\ at = 1 /\ st = [s \in Streams |-> New] /\ handed = <<>>
      /\ bare = [s \in Streams |-> {}]
  BY DEF ReceiverInit
<1>3. ASSUME NEW s \in Streams PROVE Good(s, content[s], st[s], Seen(s), handed, bare[s])
  <2>1. Seen(s) = 0
    BY <1>2 DEF Seen
  <2>2. ~st[s].header_ok
    BY <1>2 DEF New
  <2>3. MineIn(s, handed) = {}
    BY <1>2 DEF MineIn
  <2>4. bare[s] = {}
    BY <1>2
  <2> QED
    BY <2>1, <2>2, <2>3, <2>4 DEF Good, Past
<1> QED
  BY <1>1, <1>3 DEF ReceiverInv, StreamsInv

LEMMA ReceiverSaves ==
  ASSUME ReceiverInv
  PROVE  FramesSaved
<1> SUFFICES ASSUME g_running, NEW s \in Streams \ odd, st[s].header_ok
             PROVE  LET mine == {i \in DOMAIN handed : handed[i][1][1] = s}
                    IN /\ {handed[i] : i \in mine} = {FrameAt(s, q) : q \in Complete(s, Parsed(s))}
                       /\ \A i, j \in mine : i < j => handed[i][1][2] < handed[j][1][2]
  BY DEF FramesSaved
<1>1. Good(s, content[s], st[s], Seen(s), handed, bare[s])
  BY DEF ReceiverInv, StreamsInv
<1>2. SavedIn(s, content[s], Seen(s), handed, bare[s])
  BY <1>1 DEF Good
<1>3. Seen(s) = Parsed(s)
  BY DEF Seen, Parsed, ReceiverInv, TypeInv, InCall
<1>4. Complete(s, Parsed(s)) = CompleteIn(content[s], Parsed(s))
  BY DEF Complete, CompleteIn, EndOf
<1>5. ASSUME NEW q PROVE FrameAt(s, q) = FrameIn(s, content[s], q, bare[s])
  <2>1. PICK c : c = content[s]
    OBVIOUS
  <2>2. FrameAt(s, q) = [i \in 1..(q + c[q].width + c[q].value - FirstOf(c, q, bare[s])) |->
                           <<s, FirstOf(c, q, bare[s]) + i - 1>>]
    BY <2>1 DEF FrameAt, FirstOf
  <2>3. FrameIn(s, c, q, bare[s]) = [i \in 1..(q + c[q].width + c[q].value - FirstOf(c, q, bare[s])) |->
                              <<s, FirstOf(c, q, bare[s]) + i - 1>>]
    BY DEF FrameIn
  <2> QED
    BY <2>1, <2>2, <2>3, Zenon
<1> QED
  BY <1>2, <1>3, <1>4, <1>5 DEF SavedIn, MineIn

\* As long as the header and the lengths of a stream come whole and make sense, each of its
\* complete frames goes to save_frame once and in order, however its payload is cut into
\* chunks, whatever arrives on other streams in between and whichever files cannot be
\* opened (wt_handle_stream_data, save_frame).
THEOREM FramesSavedHolds == ReceiverSpec => []FramesSaved
<1>1. ReceiverInit => ReceiverInv
  BY ReceiverStart
<1>2. ReceiverInv /\ [ReceiverNext]_receiverVars => ReceiverInv'
  BY ReceiverStep
<1>3. ReceiverInv => FramesSaved
  BY ReceiverSaves
<1> QED
  BY <1>1, <1>2, <1>3, PTL DEF ReceiverSpec
-----------------------------------------------------------------------------
(* PathBinding                                                             *)

\* Every stream that was opened is the stream of some index.
NoStreamLost == \A s \in 1..Len(pinned) : \E i \in Idx : bind[i] = s

PathInv ==
  /\ TypeOK
  /\ BoundToItsPath
  /\ NoStreamLost
  /\ EveryStreamFinished
-----------------------------------------------------------------------------
USE NoPathAssumption, PathsAssumption, RttAssumption DEF Idx, Paths

\* What ensure_stream_for_path does to the streams and their bindings: nothing
\* or a new stream, pinned to the path and bound to the index.
LEMMA EnsureStep ==
  ASSUME TypeOK, BoundToItsPath, NoStreamLost,
         NEW i \in Idx, Ensure(i),
         UNCHANGED <<nb_paths, path, removed>>
  PROVE  /\ pinned' \in Seq(Uids) /\ bind' \in [Idx -> 0..Len(pinned')]
         /\ Len(pinned) <= Len(pinned')
         /\ BoundToItsPath' /\ NoStreamLost'
<1>1. CASE UNCHANGED bindVars
  BY <1>1 DEF bindVars, TypeOK, BoundToItsPath, NoStreamLost
<1>2. CASE /\ bind[i] = 0 /\ i \in Paths /\ path[i] \in verified
           /\ pinned' = Append(pinned, path[i])
           /\ bind' = [bind EXCEPT ![i] = Len(pinned) + 1]
  <2>1. /\ pinned' \in Seq(Uids) /\ Len(pinned') = Len(pinned) + 1
        /\ pinned'[Len(pinned) + 1] = path[i]
        /\ \A s \in 1..Len(pinned) : pinned'[s] = pinned[s]
    BY <1>2 DEF TypeOK
  <2>2. \A j \in Idx : bind'[j] = IF j = i THEN Len(pinned) + 1 ELSE bind[j]
    BY <1>2 DEF TypeOK
  <2>3. bind' \in [Idx -> 0..Len(pinned')]
    BY <1>2, <2>1, <2>2 DEF TypeOK
  <2>4. BoundToItsPath'
    BY <1>2, <2>1, <2>2 DEF TypeOK, BoundToItsPath
  <2>5. NoStreamLost'
    <3> SUFFICES ASSUME NEW s \in 1..Len(pinned') PROVE \E j \in Idx : bind'[j] = s
      BY DEF NoStreamLost
    <3>1. CASE s = Len(pinned) + 1
      BY <2>2, <3>1
    <3>2. CASE s \in 1..Len(pinned)
      <4>1. PICK j \in Idx : bind[j] = s
        BY <3>2 DEF NoStreamLost
      <4>2. j # i
        BY <1>2, <3>2, <4>1
      <4> QED
        BY <2>2, <4>1, <4>2
    <3> QED
      BY <2>1, <3>1, <3>2 DEF TypeOK
  <2>6. pinned' \in Seq(Uids) /\ Len(pinned) <= Len(pinned')
    <3>1. Len(pinned) \in Nat
      BY DEF TypeOK
    <3> QED
      BY <2>1, <3>1
  <2> QED
    BY <2>3, <2>4, <2>5, <2>6
<1> QED
  BY <1>1, <1>2 DEF Ensure

\* Every step keeps the invariant.
LEMMA PathStep == PathInv /\ [Next]_vars => PathInv'
<1> SUFFICES ASSUME PathInv, [Next]_vars PROVE PathInv'
  OBVIOUS
<1> USE DEF PathInv
<1>1. CASE NetInit
  <2>1. PICK i \in Paths : PickSendPath(i) /\ last_send' = i /\ Ensure(i)
                            /\ cur_idx' \in {cur_idx, i} /\ send_idx' \in {send_idx, i}
    BY <1>1 DEF NetInit
  <2>2. i \in Idx
    BY DEF TypeOK
  <2>3. UNCHANGED <<envVars, probeDue, finished, is_sending>>
    BY <1>1 DEF NetInit, envVars
  <2>4. /\ pinned' \in Seq(Uids) /\ bind' \in [Idx -> 0..Len(pinned')]
        /\ Len(pinned) <= Len(pinned')
        /\ BoundToItsPath' /\ NoStreamLost'
    BY <2>1, <2>2, <2>3, EnsureStep DEF envVars
  <2>5. netPc' \in {"head", "pop"}
    BY <1>1 DEF NetInit
  <2>6. TypeOK'
    <3>1. finished' \subseteq 1..Len(pinned')
      BY <2>3, <2>4 DEF TypeOK
    <3>2. /\ last_send' \in Idx /\ cur_idx' \in Idx /\ send_idx' \in Idx
          /\ netPc' \in {"head", "pop"}
      BY <2>1, <2>2, <2>5 DEF TypeOK
    <3>3. UNCHANGED <<nb_paths, path, known, verified, demoted, rtt, removed,
                      probeDue, is_sending>>
      BY <2>3 DEF envVars
    <3> QED
      BY <2>4, <3>1, <3>2, <3>3 DEF TypeOK
  <2> QED
    BY <2>4, <2>5, <2>6 DEF EveryStreamFinished
<1>2. CASE NetPick
  <2>1. PICK i \in Paths : PickSendPath(i) /\ last_send' = i /\ Ensure(i)
                            /\ cur_idx' \in {cur_idx, i} /\ send_idx' \in {send_idx, i}
    BY <1>2 DEF NetPick
  <2>2. i \in Idx
    BY DEF TypeOK
  <2>3. UNCHANGED <<envVars, probeDue, finished, is_sending>>
    BY <1>2 DEF NetPick, envVars
  <2>4. /\ pinned' \in Seq(Uids) /\ bind' \in [Idx -> 0..Len(pinned')]
        /\ Len(pinned) <= Len(pinned')
        /\ BoundToItsPath' /\ NoStreamLost'
    BY <2>1, <2>2, <2>3, EnsureStep DEF envVars
  <2>5. netPc' \in {"head", "pop"}
    BY <1>2 DEF NetPick
  <2>6. TypeOK'
    <3>1. finished' \subseteq 1..Len(pinned')
      BY <2>3, <2>4 DEF TypeOK
    <3>2. /\ last_send' \in Idx /\ cur_idx' \in Idx /\ send_idx' \in Idx
          /\ netPc' \in {"head", "pop"}
      BY <2>1, <2>2, <2>5 DEF TypeOK
    <3>3. UNCHANGED <<nb_paths, path, known, verified, demoted, rtt, removed,
                      probeDue, is_sending>>
      BY <2>3 DEF envVars
    <3> QED
      BY <2>4, <3>1, <3>2, <3>3 DEF TypeOK
  <2> QED
    BY <2>4, <2>5, <2>6 DEF EveryStreamFinished
<1>3. CASE NetProbe
  <2>1. PickProbePath \in Idx
    BY <1>3 DEF NetProbe, TypeOK, PickProbePath
  <2>2. /\ Ensure(PickProbePath) /\ netPc' = "pick"
        /\ UNCHANGED <<envVars, last_send, send_idx, cur_idx, finished, is_sending>>
    BY <1>3 DEF NetProbe, envVars, algoVars
  <2>3. probeDue' \in BOOLEAN
    BY <1>3, Zenon DEF NetProbe
  <2>4. /\ pinned' \in Seq(Uids) /\ bind' \in [Idx -> 0..Len(pinned')]
        /\ Len(pinned) <= Len(pinned')
        /\ BoundToItsPath' /\ NoStreamLost'
    BY <2>1, <2>2, EnsureStep DEF envVars
  <2>5. TypeOK'
    <3>1. finished' \subseteq 1..Len(pinned')
      BY <2>2, <2>4 DEF TypeOK
    <3>2. UNCHANGED <<nb_paths, path, known, verified, demoted, rtt, removed,
                      last_send, send_idx, cur_idx, is_sending>>
      BY <2>2 DEF envVars, algoVars
    <3> QED
      BY <2>2, <2>3, <2>4, <3>1, <3>2 DEF TypeOK
  <2> QED
    BY <2>2, <2>4, <2>5 DEF EveryStreamFinished
<1>4. CASE NetIdle
  <2>1. cur_idx \in Idx
    BY DEF TypeOK
  <2>2. /\ Ensure(cur_idx) /\ netPc' = "head"
        /\ UNCHANGED <<envVars, algoVars, send_idx, cur_idx, finished, is_sending>>
    BY <1>4 DEF NetIdle, envVars, algoVars
  <2>3. probeDue' \in BOOLEAN
    BY <1>4 DEF NetIdle, algoVars, TypeOK
  <2>4. /\ pinned' \in Seq(Uids) /\ bind' \in [Idx -> 0..Len(pinned')]
        /\ Len(pinned) <= Len(pinned')
        /\ BoundToItsPath' /\ NoStreamLost'
    BY <2>1, <2>2, EnsureStep DEF envVars
  <2>5. TypeOK'
    <3>1. finished' \subseteq 1..Len(pinned')
      BY <2>2, <2>4 DEF TypeOK
    <3>2. UNCHANGED <<nb_paths, path, known, verified, demoted, rtt, removed,
                      last_send, send_idx, cur_idx, is_sending>>
      BY <2>2 DEF envVars, algoVars
    <3> QED
      BY <2>2, <2>3, <2>4, <3>1, <3>2 DEF TypeOK
  <2> QED
    BY <2>2, <2>4, <2>5 DEF EveryStreamFinished
<1>5. CASE NetFinish
  <2>1. finished' \subseteq 1..Len(pinned)
    BY <1>5 DEF NetFinish, TypeOK
  <2>2. ASSUME ~removed PROVE finished' = 1..Len(pinned)
    <3>1. \A s \in 1..Len(pinned) : \E j \in Paths : bind[j] # 0 /\ bind[j] = s
      BY <2>2 DEF NoStreamLost, BoundToItsPath
    <3> QED
      BY <1>5, <2>1, <3>1 DEF NetFinish
  <2>3. UNCHANGED <<envVars, algoVars, bindVars, send_idx, cur_idx, is_sending>> /\ netPc' = "done"
    BY <1>5 DEF NetFinish
  <2>4. TypeOK'
    BY <2>1, <2>3 DEF TypeOK, envVars, algoVars, bindVars
  <2> QED
    BY <2>2, <2>3, <2>4 DEF BoundToItsPath, NoStreamLost,
       EveryStreamFinished, envVars, bindVars
<1>6. CASE NetHead
  <2>2. TypeOK'
    BY <1>6 DEF NetHead, TypeOK, envVars, algoVars, bindVars, netVars, threadVars
  <2> QED
    BY <1>6, <2>2 DEF NetHead, BoundToItsPath, NoStreamLost,
       EveryStreamFinished, envVars, algoVars, bindVars, netVars, threadVars
<1>7. CASE NetNoProbe
  <2>2. TypeOK'
    BY <1>7 DEF NetNoProbe, TypeOK, envVars, algoVars, bindVars, netVars, threadVars
  <2> QED
    BY <1>7, <2>2 DEF NetNoProbe, BoundToItsPath, NoStreamLost,
       EveryStreamFinished, envVars, algoVars, bindVars, netVars, threadVars
<1>8. CASE NetSend
  <2>2. TypeOK'
    BY <1>8 DEF NetSend, TypeOK, envVars, algoVars, bindVars, netVars, threadVars
  <2> QED
    BY <1>8, <2>2 DEF NetSend, BoundToItsPath, NoStreamLost,
       EveryStreamFinished, envVars, algoVars, bindVars, netVars, threadVars
<1>9. CASE NetSendFails
  <2>1. is_sending' \in BOOLEAN
    BY <1>9, Zenon DEF NetSendFails
  <2>2. TypeOK'
    BY <1>9, <2>1 DEF NetSendFails, TypeOK, envVars, algoVars, bindVars, netVars, threadVars
  <2> QED
    BY <1>9, <2>2 DEF NetSendFails, BoundToItsPath, NoStreamLost,
       EveryStreamFinished, envVars, algoVars, bindVars, netVars, threadVars
<1>10. CASE ProbeTimer
  <2>1. probeDue' \in BOOLEAN
    BY <1>10, Zenon DEF ProbeTimer
  <2>2. TypeOK'
    BY <1>10, <2>1 DEF ProbeTimer, TypeOK, envVars, algoVars, bindVars, netVars, threadVars
  <2> QED
    BY <1>10, <2>2 DEF ProbeTimer, BoundToItsPath, NoStreamLost,
       EveryStreamFinished, envVars, algoVars, bindVars, netVars, threadVars
<1>11. CASE Stop
  <2>1. is_sending' \in BOOLEAN
    BY <1>11, Zenon DEF Stop
  <2>2. TypeOK'
    BY <1>11, <2>1 DEF Stop, TypeOK, envVars, algoVars, bindVars, netVars, threadVars
  <2> QED
    BY <1>11, <2>2 DEF Stop, BoundToItsPath, NoStreamLost,
       EveryStreamFinished, envVars, algoVars, bindVars, netVars, threadVars
<1>12. ASSUME NEW u \in Uids, AddPath(u) PROVE PathInv'
  <2>1. path' \in [Idx -> Uids \cup {NoPath}]
    BY <1>12 DEF AddPath, TypeOK
  <2>2. nb_paths' \in 1..MaxPaths /\ known' \subseteq Uids
    BY <1>12, PathsAssumption DEF AddPath, TypeOK
  <2>3. TypeOK'
    BY <1>12, <2>1, <2>2 DEF AddPath, TypeOK, threadVars, algoVars, bindVars, netVars
  <2>4. UNCHANGED <<bind, pinned, removed>>
    BY <1>12 DEF AddPath, threadVars, algoVars, bindVars, netVars
  <2>5. BoundToItsPath'
    <3>1. \A i \in Paths : i # nb_paths /\ i \in Paths'
      BY <1>12 DEF AddPath, TypeOK
    <3>2. \A i \in Paths : path'[i] = path[i]
      BY <1>12, <3>1 DEF AddPath, TypeOK
    <3> QED
      BY <2>4, <3>1, <3>2 DEF BoundToItsPath
  <2>7. NoStreamLost'
    BY <2>4 DEF NoStreamLost
  <2>6. EveryStreamFinished'
    BY <1>12 DEF AddPath, EveryStreamFinished, threadVars, bindVars, netVars
  <2> QED
    BY <2>3, <2>5, <2>6, <2>7
<1>13. ASSUME NEW u \in Uids, Verify(u) PROVE PathInv'
  <2>3. TypeOK'
    BY <1>13 DEF Verify, TypeOK, threadVars, algoVars, bindVars, netVars
  <2> QED
    BY <1>13, <2>3 DEF Verify, TypeOK, BoundToItsPath, NoStreamLost,
       EveryStreamFinished, threadVars, algoVars, bindVars, netVars
<1>14. ASSUME NEW u \in Uids, Demote(u) PROVE PathInv'
  <2>3. TypeOK'
    BY <1>14 DEF Demote, TypeOK, threadVars, algoVars, bindVars, netVars
  <2> QED
    BY <1>14, <2>3 DEF Demote, TypeOK, BoundToItsPath, NoStreamLost,
       EveryStreamFinished, threadVars, algoVars, bindVars, netVars
<1>15. ASSUME NEW u \in Uids, MeasureRtt(u) PROVE PathInv'
  <2>3. TypeOK'
    BY <1>15 DEF MeasureRtt, TypeOK, threadVars, algoVars, bindVars, netVars
  <2> QED
    BY <1>15, <2>3 DEF MeasureRtt, TypeOK, BoundToItsPath, NoStreamLost,
       EveryStreamFinished, threadVars, algoVars, bindVars, netVars
<1>16. ASSUME NEW k \in Paths, RemovePath(k) PROVE PathInv'
  <2>1. removed'
    BY <1>16, Zenon DEF RemovePath
  <2>2. removed' \in BOOLEAN
    BY <1>16, Zenon DEF RemovePath
  <2>3. TypeOK'
    BY <1>16, <2>1, <2>2 DEF RemovePath, TypeOK, threadVars, algoVars, bindVars, netVars
  <2> QED
    BY <1>16, <2>3, <2>1 DEF RemovePath, TypeOK, BoundToItsPath, NoStreamLost,
       EveryStreamFinished, threadVars, algoVars, bindVars, netVars
<1>17. CASE UNCHANGED vars
  BY <1>17 DEF vars, TypeOK, BoundToItsPath, NoStreamLost,
     EveryStreamFinished, envVars, algoVars, bindVars, netVars, threadVars
<1> QED
  BY <1>1, <1>2, <1>3, <1>4, <1>5, <1>6, <1>7, <1>8, <1>9, <1>10, <1>11,
     <1>12, <1>13, <1>14, <1>15, <1>16, <1>17 DEF Next, NetStep, EnvStep

\* The network thread starts in a state of the invariant.
LEMMA InitInd == Init => PathInv
<1> SUFFICES ASSUME Init PROVE PathInv
  OBVIOUS
<1>1. PICK u \in Uids : /\ path = [i \in Idx |-> IF i = 0 THEN u ELSE NoPath]
                        /\ known = {u} /\ verified \in SUBSET {u}
  BY DEF Init
<1>2. removed \in BOOLEAN /\ probeDue \in BOOLEAN /\ is_sending \in BOOLEAN
  BY Zenon DEF Init
<1>3. pinned \in Seq(Uids) /\ Len(pinned) = 0
  BY DEF Init
<1>4. TypeOK
  BY <1>1, <1>2, <1>3 DEF Init, TypeOK
<1> QED
  BY <1>3, <1>4 DEF Init, PathInv, BoundToItsPath, NoStreamLost,
     EveryStreamFinished

\* The invariant holds in every state.
THEOREM IndInvariant == Spec => []PathInv
BY InitInd, PathStep, PTL DEF Spec

\* The stream of a path index is pinned to the path at this index, as long as no
\* path was removed (ensure_stream_for_path).
THEOREM BoundToItsPathHolds == Spec => []BoundToItsPath
<1>1. PathInv => BoundToItsPath
  BY DEF PathInv
<1> QED
  BY <1>1, IndInvariant, PTL

\* When the network thread is gone every stream it opened was given its FIN, as
\* long as no path was removed (finish_all_bindings).
THEOREM EveryStreamFinishedHolds == Spec => []EveryStreamFinished
<1>1. PathInv => EveryStreamFinished
  BY DEF PathInv
<1> QED
  BY <1>1, IndInvariant, PTL
=============================================================================
