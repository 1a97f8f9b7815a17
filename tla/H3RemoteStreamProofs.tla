------------------------ MODULE H3RemoteStreamProofs ------------------------
(***************************************************************************)
(* Proofs about H3RemoteStream, for any streams, contents, cuts and        *)
(* interleavings of their chunks.                                          *)
(***************************************************************************)
EXTENDS H3RemoteStream, SequenceTheorems, WellFoundedInduction, TLAPS

\* What a stream s carries is a sequence of bytes.
Carries(s) ==
  /\ s \in DOMAIN content /\ s \in Streams
  /\ content[s] \in Seq([width : Nat \ {0}, value : Nat, block : BOOLEAN])

\* Where a frame of a control stream starts, or would start behind its end.
Boundary(s, c) == c = 1 + Width(s, 1) \/ \E q \in FrameStarts(s) : FrameEnd(s, q) = c

StateRecords ==
  [stream_type : Int, current_frame_type : Int, current_frame_length : Int,
   current_frame_read : Nat, current_frame : BOOLEAN, is_current_frame_ignored : BOOLEAN,
   frame_header_read : Nat, control_stream_id : Int, path_callback : BOOLEAN]

\* The bytes gathered are the first ones of the varint at v, and more are missing.
Gathering(s, v) == at[s] = v + st[s].frame_header_read /\ at[s] < v + Width(s, v)

\* The control stream s is in the frame that starts at c: in its type, in its length, or
\* in its body, which is over in the middle of a call only.
ControlAt(s, c) ==
  /\ st[s].current_frame_type = -1 =>
       st[s].current_frame_length = -1 /\ st[s].current_frame_read = 0 /\ Gathering(s, c)
  /\ st[s].current_frame_type # -1 => st[s].current_frame_type = Value(s, c)
  /\ st[s].current_frame_type # -1 /\ st[s].current_frame_length = -1 =>
       st[s].current_frame_read = 0 /\ Gathering(s, c + Width(s, c))
  /\ st[s].current_frame_type # -1 /\ st[s].current_frame_length # -1 =>
       /\ st[s].current_frame_length = Value(s, c + Width(s, c))
       /\ st[s].frame_header_read = 0
       /\ at[s] = FrameBody(s, c) + st[s].current_frame_read
       /\ st[s].current_frame_read <= st[s].current_frame_length
       /\ Between(s) => st[s].current_frame_read < st[s].current_frame_length

Mine(s) == {i \in 1..Len(processed) : processed[i].stream = s}

IsOf(i, s, q) == processed[i].body = FrameBody(s, q) /\ processed[i].type = Value(s, q)

\* What was handled of s are the frames before c, in order.
HandledUpTo(s, c) ==
  /\ \A i \in Mine(s) : \E q \in FrameStarts(s) : q < c /\ IsOf(i, s, q)
  /\ \A q \in FrameStarts(s) : q < c => \E i \in Mine(s) : IsOf(i, s, q)
  /\ \A i, j \in Mine(s) : i < j => processed[i].body < processed[j].body

Requests == {FrameData, FrameHeader, FramePushPromise, FrameWebtransport}

\* A frame that has begun is of settings, or settings were there before.
Allowed(s) ==
  st[s].current_frame_type \notin {-1, FrameSettings} =>
    settings_received /\ st[s].current_frame_type \notin Requests

NothingYet == [bytes |-> <<>>, fin |-> FALSE]

\* The session of s is not known yet, or it has what came so far.
SessionAt(s) ==
  /\ st[s].control_stream_id = -1 => Gathering(s, 1 + Width(s, 1)) /\ data[s] = NothingYet
  /\ st[s].control_stream_id # -1 =>
       /\ st[s].path_callback /\ HeaderEnd(s) <= at[s]
       /\ data[s].bytes = [i \in 1..(at[s] - HeaderEnd(s)) |-> HeaderEnd(s) + i - 1]
       /\ data[s].fin <=> s \in finished /\ Between(s)

\* A stream that was not refused.
StreamInv(s) ==
  /\ st[s] \in StateRecords /\ at[s] \in 1..(Len(content[s]) + 1)
  /\ ~Between(s) => at[s] <= hand + 1 /\ hand \in 0..Len(content[s])
  /\ st[s].stream_type = -1 =>
       /\ Gathering(s, 1) /\ st[s].control_stream_id = -1 /\ data[s] = NothingYet
       /\ Mine(s) = {}
  /\ st[s].stream_type # -1 => st[s].stream_type = Value(s, 1)
  /\ Webtransport(s) => SessionAt(s)
  /\ s \in Unidirs /\ st[s].stream_type = StreamControl =>
       Allowed(s) /\ \E c \in Nat : Boundary(s, c) /\ ControlAt(s, c) /\ HandledUpTo(s, c)

\* What a session's stream that is never refused is.
OfSession(s) ==
  s \in Unidirs /\ Value(s, 1) = StreamWebtransport /\ Session(s) \in Declared

TypeInv ==
  /\ content \in Contents
  /\ st = [s \in Streams |-> st[s]] /\ at = [s \in Streams |-> at[s]]
  /\ data = [s \in Streams |-> data[s]]
  /\ \E S : processed \in Seq(S)

CallInv ==
  /\ call \in {"none", "data", "fin"}
  /\ call # "none" => cs \in DOMAIN content /\ (cs \in finished <=> call = "fin")

SettingsInv ==
  /\ settings_received => \E j \in 1..Len(processed) : processed[j].type = FrameSettings
  /\ \A i \in 1..Len(processed) : ~processed[i].rejected =>
       /\ \E j \in 1..i : processed[j].type = FrameSettings
       /\ processed[i].type \notin Requests

IndInv ==
  /\ TypeInv /\ CallInv /\ SettingsInv
  /\ \A s \in DOMAIN content : OfSession(s) => s \notin rejected
  /\ \A s \in (DOMAIN content) \ rejected : StreamInv(s)
-----------------------------------------------------------------------------
(* The frames of a control stream                                          *)

\* A set of numbers has a least element.
LEMMA Least ==
  ASSUME NEW S \in SUBSET Nat, S # {}
  PROVE  \E m \in S : \A k \in S : m <= k
<1>1. PICK m \in S : \A k \in S : <<k, m>> \notin OpToRel(<, Nat)
  BY NatLessThanWellFounded, WFMin, Zenon
<1>2. \A k \in S : ~(k < m)
  <2> SUFFICES ASSUME NEW k \in S, k < m PROVE FALSE
    BY Zenon
  <2>1. <<k, m>> \in Nat \X Nat /\ <<k, m>>[1] = k /\ <<k, m>>[2] = m
    OBVIOUS
  <2>2. <<k, m>> \in OpToRel(<, Nat)
    BY <2>1, Zenon DEF OpToRel
  <2> QED
    BY <1>1, <2>2, Zenon
<1> QED
  BY <1>2

LEMMA ByteFacts ==
  ASSUME NEW s, Carries(s)
  PROVE  \A q \in Nat \ {0} :
           /\ Width(s, q) \in Nat \ {0} /\ Value(s, q) \in Nat
           /\ FrameBody(s, q) \in Nat /\ FrameEnd(s, q) \in Nat
           /\ FrameBody(s, q) = q + Width(s, q) + Width(s, q + Width(s, q))
           /\ FrameEnd(s, q) = FrameBody(s, q) + Value(s, q + Width(s, q))
           /\ q + Width(s, q) < FrameBody(s, q) /\ FrameBody(s, q) <= FrameEnd(s, q)
           /\ q < FrameEnd(s, q)
<1>1. \A q \in Nat : Width(s, q) \in Nat \ {0} /\ Value(s, q) \in Nat
  <2>1. \A q \in DOMAIN content[s] :
          content[s][q] \in [width : Nat \ {0}, value : Nat, block : BOOLEAN]
    <3> DEFINE Byte == [width : Nat \ {0}, value : Nat, block : BOOLEAN]
    <3>1. PICK b \in Seq(Byte) : b = content[s]
      BY DEF Carries
    <3> HIDE DEF Byte
    <3>2. \A q \in DOMAIN b : b[q] \in Byte
      OBVIOUS
    <3> QED
      BY <3>1, <3>2 DEF Byte
  <2>2. \A q \in DOMAIN content[s] : content[s][q].width \in Nat \ {0}
    BY <2>1
  <2>3. \A q \in DOMAIN content[s] : content[s][q].value \in Nat
    BY <2>1
  <2> QED
    BY <2>2, <2>3 DEF Width, Value
<1>2. ASSUME NEW q \in Nat \ {0}
      PROVE  /\ FrameBody(s, q) \in Nat /\ FrameEnd(s, q) \in Nat
             /\ FrameBody(s, q) = q + Width(s, q) + Width(s, q + Width(s, q))
             /\ FrameEnd(s, q) = FrameBody(s, q) + Value(s, q + Width(s, q))
             /\ q + Width(s, q) < FrameBody(s, q) /\ FrameBody(s, q) <= FrameEnd(s, q)
             /\ q < FrameEnd(s, q)
  <2>1. Width(s, q) \in Nat \ {0} /\ q + Width(s, q) \in Nat
    BY <1>1
  <2>2. Width(s, q + Width(s, q)) \in Nat \ {0} /\ Value(s, q + Width(s, q)) \in Nat
    BY <1>1, <2>1
  <2> QED
    BY <2>1, <2>2 DEF FrameBody, FrameEnd
<1> QED
  BY <1>1, <1>2

\* Frames start where the equation says: the function it defines exists, as is seen by taking
\* the least set of positions that its links lead to.
LEMMA StartsFacts ==
  ASSUME NEW s, Carries(s), NEW n \in Nat, n = Len(content[s])
  PROVE  /\ FrameStarts(s) \subseteq 1..n
         /\ \A p \in 1..n : p \in FrameStarts(s) <=> Boundary(s, p)
<1> DEFINE Link(q, p) == FrameEnd(s, q) = p
<1> DEFINE First(p) == p = 1 + Width(s, 1)
<1> DEFINE Closed(S) == /\ \A p \in 1..n : First(p) => p \in S
                        /\ \A q \in S : \A p \in 1..n : q < p /\ Link(q, p) => p \in S
<1> DEFINE D == {p \in 1..n : \A S \in SUBSET (1..n) : Closed(S) => p \in S}
<1> DEFINE Eq(f) == f = [p \in 1..n |-> First(p) \/ \E q \in 1..(p - 1) : Link(q, p) /\ f[q]]
<1> DEFINE f == CHOOSE h : Eq(h)
<1> DEFINE g == [p \in 1..n |-> p \in D]
<1>1. FrameStarts(s) = {p \in 1..n : f[p]}
  <2>1. DOMAIN content[s] = 1..n
    BY DEF Carries
  <2> QED
    BY <2>1 DEF FrameStarts
<1>2. \A q \in 1..n : q < FrameEnd(s, q)
  BY ByteFacts
<1> HIDE DEF Link, First
<1>3. D \in SUBSET (1..n) /\ Closed(D)
  OBVIOUS
<1>4. ASSUME NEW p \in 1..n, p \in D, ~First(p)
      PROVE  \E q \in 1..(p - 1) : q \in D /\ Link(q, p)
  <2> SUFFICES ASSUME \A q \in 1..(p - 1) : q \in D => ~Link(q, p)
               PROVE  FALSE
    OBVIOUS
  <2>1. \A q \in D : q < p => q \in 1..(p - 1)
    OBVIOUS
  <2>2. Closed(D \ {p}) /\ D \ {p} \in SUBSET (1..n)
    <3> HIDE DEF D
    <3> QED
      BY <1>3, <1>4, <2>1
  <2> QED
    BY <1>4, <2>2
<1>5. ASSUME NEW p \in 1..n
      PROVE  p \in D <=> (First(p) \/ \E q \in 1..(p - 1) : Link(q, p) /\ q \in D)
  <2>1. \A q \in 1..(p - 1) : q < p
    OBVIOUS
  <2> HIDE DEF D
  <2> QED
    BY <1>3, <1>4, <2>1
<1> HIDE DEF D
<1>6. Eq(g)
  <2>1. ASSUME NEW p \in 1..n
        PROVE  (p \in D) = (First(p) \/ \E q \in 1..(p - 1) : Link(q, p) /\ g[q])
    <3>1. \A q \in 1..(p - 1) : q \in 1..n
      OBVIOUS
    <3>2. \A q \in 1..(p - 1) : g[q] <=> q \in D
      BY <3>1
    <3> HIDE DEF g
    <3>3. (\E q \in 1..(p - 1) : Link(q, p) /\ q \in D)
            <=> (\E q \in 1..(p - 1) : Link(q, p) /\ g[q])
      BY <3>2
    <3> QED
      BY <1>5, <3>3
  <2> QED
    BY <2>1
<1> HIDE DEF g, Eq
<1>7. Eq(f)
  BY <1>6
<1> HIDE DEF f
<1>8. FrameStarts(s) \subseteq 1..n
  BY <1>1
<1>9. ASSUME NEW p \in 1..n
      PROVE  p \in FrameStarts(s) <=> Boundary(s, p)
  <2>1. f[p] = (First(p) \/ \E q \in 1..(p - 1) : Link(q, p) /\ f[q])
    BY <1>7 DEF Eq
  <2>2. \A q \in 1..n : q \in FrameStarts(s) <=> f[q]
    BY <1>1
  <2>3. \A q : q \in 1..(p - 1) <=> q \in 1..n /\ q < p
    OBVIOUS
  <2> QED
    BY <1>2, <1>8, <2>1, <2>2, <2>3 DEF Boundary, Link, First
<1> QED
  BY <1>8, <1>9

LEMMA StartFacts ==
  ASSUME NEW s, Carries(s)
  PROVE  /\ Width(s, 1) \in Nat \ {0}
         /\ \A q \in FrameStarts(s) :
              /\ q \in Nat \ {0} /\ q <= Len(content[s]) /\ Boundary(s, q)
              /\ FrameBody(s, q) \in Nat /\ FrameEnd(s, q) \in Nat
              /\ q < FrameBody(s, q) /\ FrameBody(s, q) <= FrameEnd(s, q) /\ q < FrameEnd(s, q)
<1>1. PICK n \in Nat : n = Len(content[s])
  BY DEF Carries
<1>2. FrameStarts(s) \subseteq 1..n /\ \A p \in 1..n : p \in FrameStarts(s) <=> Boundary(s, p)
  BY <1>1, StartsFacts
<1>3. ASSUME NEW q \in FrameStarts(s)
      PROVE  /\ q \in Nat \ {0} /\ q <= Len(content[s]) /\ Boundary(s, q)
             /\ FrameBody(s, q) \in Nat /\ FrameEnd(s, q) \in Nat
             /\ q < FrameBody(s, q) /\ FrameBody(s, q) <= FrameEnd(s, q) /\ q < FrameEnd(s, q)
  <2>1. q \in Nat \ {0} /\ q <= n /\ Boundary(s, q)
    BY <1>2
  <2>2. /\ Width(s, q) \in Nat \ {0} /\ FrameBody(s, q) \in Nat /\ FrameEnd(s, q) \in Nat
        /\ q + Width(s, q) < FrameBody(s, q) /\ FrameBody(s, q) <= FrameEnd(s, q)
        /\ q < FrameEnd(s, q)
    BY <2>1, ByteFacts
  <2> QED
    BY <1>1, <2>1, <2>2
<1> QED
  BY <1>3, ByteFacts

\* Frames follow each other, behind the type of the stream.
LEMMA Chain ==
  ASSUME NEW s, Carries(s), NEW c \in Nat, Boundary(s, c)
  PROVE  /\ 1 + Width(s, 1) <= c
         /\ \A q \in FrameStarts(s) : q < c => FrameEnd(s, q) <= c
<1> DEFINE first == 1 + Width(s, 1)
<1> DEFINE T == {r \in Nat : /\ Boundary(s, r)
                             /\ \/ r < first
                                \/ \E p \in FrameStarts(s) : p < r /\ ~(FrameEnd(s, p) <= r)}
<1>1. \A p \in FrameStarts(s) : FrameEnd(s, p) \in Nat /\ p < FrameEnd(s, p) /\ p \in Nat /\ Boundary(s, p)
  BY StartFacts
<1>2. first \in Nat
  BY StartFacts
<1>3. T = {}
  <2> SUFFICES ASSUME T # {} PROVE FALSE
    OBVIOUS
  <2>1. PICK r \in T : \A k \in T : r <= k
    <3>1. T \in SUBSET Nat
      OBVIOUS
    <3> HIDE DEF T
    <3> QED
      BY <3>1, Least
  <2>2. /\ r \in Nat /\ Boundary(s, r)
        /\ r < first \/ \E p \in FrameStarts(s) : p < r /\ ~(FrameEnd(s, p) <= r)
    OBVIOUS
  <2>3. ASSUME NEW k \in Nat, k < r, Boundary(s, k)
        PROVE  ~(k < first) /\ \A p \in FrameStarts(s) : p < k => FrameEnd(s, p) <= k
    BY <2>1, <2>2, <2>3
  <2> HIDE DEF T, first
  <2>4. CASE r = first
    <3>1. PICK p \in FrameStarts(s) : p < r
      BY <1>2, <2>2, <2>4
    <3>2. ~(p < first)
      BY <1>1, <2>3, <3>1
    <3> QED
      BY <1>1, <1>2, <2>4, <3>1, <3>2
  <2>5. CASE r # first
    <3>1. PICK m \in FrameStarts(s) : FrameEnd(s, m) = r
      BY <2>2, <2>5 DEF Boundary, first
    <3>2. m \in Nat /\ m < r /\ Boundary(s, m)
      BY <1>1, <3>1
    <3>3. ~(r < first)
      BY <1>2, <2>2, <2>3, <3>2
    <3>4. PICK p \in FrameStarts(s) : p < r /\ ~(FrameEnd(s, p) <= r)
      BY <2>2, <3>3
    <3>5. CASE p = m
      BY <2>2, <3>1, <3>4, <3>5
    <3>6. CASE p < m
      BY <1>1, <2>2, <2>3, <3>1, <3>2, <3>4, <3>6
    <3>7. CASE m < p
      BY <1>1, <2>2, <2>3, <3>1, <3>2, <3>4, <3>7
    <3> QED
      BY <1>1, <3>2, <3>5, <3>6, <3>7
  <2> QED
    BY <2>4, <2>5
<1>4. ~(c < first) /\ \A q \in FrameStarts(s) : q < c => FrameEnd(s, q) <= c
  BY <1>3
<1> QED
  BY <1>2, <1>4

LEMMA NextFrame ==
  ASSUME NEW s, Carries(s), NEW c \in FrameStarts(s)
  PROVE  /\ Boundary(s, FrameEnd(s, c)) /\ FrameEnd(s, c) \in Nat /\ c < FrameEnd(s, c)
         /\ \A q \in FrameStarts(s) : q < FrameEnd(s, c) <=> q < c \/ q = c
<1>1. \A q \in FrameStarts(s) : FrameEnd(s, q) \in Nat /\ q < FrameEnd(s, q) /\ q \in Nat /\ Boundary(s, q)
  BY StartFacts
<1>2. Boundary(s, FrameEnd(s, c))
  BY DEF Boundary
<1>3. ASSUME NEW q \in FrameStarts(s), c < q
      PROVE  FrameEnd(s, c) <= q
  BY <1>1, <1>3, Chain
<1> QED
  BY <1>1, <1>2, <1>3

\* All this is about what the streams carry, which does not change.
LEMMA ContentFixed ==
  ASSUME content' = content
  PROVE  \A s : /\ FrameStarts(s)' = FrameStarts(s) /\ Carries(s)' = Carries(s)
                /\ Session(s)' = Session(s) /\ HeaderEnd(s)' = HeaderEnd(s)
                /\ \A q : /\ Width(s, q)' = Width(s, q) /\ Value(s, q)' = Value(s, q)
                          /\ FrameBody(s, q)' = FrameBody(s, q)
                          /\ FrameEnd(s, q)' = FrameEnd(s, q) /\ Boundary(s, q)' = Boundary(s, q)
<1> TAKE s
<1>1. \A q : Width(s, q)' = Width(s, q) /\ Value(s, q)' = Value(s, q)
  BY DEF Width, Value
<1>2. \A q : FrameBody(s, q)' = FrameBody(s, q)
  BY <1>1 DEF FrameBody
<1>3. \A q : FrameEnd(s, q)' = FrameEnd(s, q)
  BY <1>1, <1>2 DEF FrameEnd
<1>4. FrameStarts(s)' = FrameStarts(s)
  BY DEF FrameStarts, FrameEnd, FrameBody, Width, Value
<1>5. \A q : Boundary(s, q)' = Boundary(s, q)
  BY <1>1, <1>3, <1>4 DEF Boundary
<1>6. Session(s)' = Session(s) /\ HeaderEnd(s)' = HeaderEnd(s)
  BY <1>1 DEF Session, HeaderEnd
<1>7. Carries(s)' = Carries(s)
  BY DEF Carries
<1> QED
  BY <1>1, <1>2, <1>3, <1>4, <1>5, <1>6, <1>7
-----------------------------------------------------------------------------
(* What a step leaves alone                                                *)

\* What has been handled stays, and at most one more frame of the stream t is added.
Grows(t) ==
  \/ processed' = processed
  \/ /\ Len(processed') = Len(processed) + 1
     /\ \A i \in 1..Len(processed) : processed'[i] = processed[i]
     /\ processed'[Len(processed) + 1].stream = t

LEMMA MineStays ==
  ASSUME Len(processed) \in Nat, NEW t, Grows(t), NEW s, s # t
  PROVE  /\ Mine(s)' = Mine(s)
         /\ \A i \in Mine(s) : processed'[i] = processed[i]
<1>1. CASE processed' = processed
  BY <1>1 DEF Mine
<1>2. CASE processed' # processed
  <2>1. PICK n \in Nat : n = Len(processed) /\ Len(processed') = n + 1
    BY <1>2 DEF Grows
  <2>2. \A i : i \in 1..(n + 1) <=> i \in 1..n \/ i = n + 1
    OBVIOUS
  <2>3. /\ \A i \in 1..n : processed'[i] = processed[i]
        /\ processed'[n + 1].stream = t
    BY <1>2, <2>1 DEF Grows
  <2> QED
    BY <2>1, <2>2, <2>3 DEF Mine
<1> QED
  BY <1>1, <1>2

\* A stream that the step is not about.
LEMMA OtherStream ==
  ASSUME Len(processed) \in Nat, content' = content, NEW t, Grows(t), NEW s, s # t, StreamInv(s),
         st'[s] = st[s], at'[s] = at[s], data'[s] = data[s],
         s \in finished' <=> s \in finished, Between(s), Between(s)',
         settings_received => settings_received'
  PROVE  StreamInv(s)'
<1>1. /\ FrameStarts(s)' = FrameStarts(s) /\ HeaderEnd(s)' = HeaderEnd(s)
      /\ \A q : /\ Width(s, q)' = Width(s, q) /\ Value(s, q)' = Value(s, q)
                /\ FrameBody(s, q)' = FrameBody(s, q) /\ Boundary(s, q)' = Boundary(s, q)
  BY ContentFixed
<1>2. Mine(s)' = Mine(s) /\ \A i \in Mine(s) : processed'[i] = processed[i]
  BY MineStays
<1>3. \A v : Gathering(s, v)' <=> Gathering(s, v)
  BY <1>1 DEF Gathering
<1>4. \A c : ControlAt(s, c) => ControlAt(s, c)'
  BY <1>1, <1>3 DEF ControlAt
<1>5. \A c : HandledUpTo(s, c) => HandledUpTo(s, c)'
  BY <1>1, <1>2 DEF HandledUpTo, IsOf
<1>6. Allowed(s) => Allowed(s)'
  BY DEF Allowed
<1>7. SessionAt(s) => SessionAt(s)'
  BY <1>1, <1>3 DEF SessionAt
<1>8. Webtransport(s)' <=> Webtransport(s)
  BY DEF Webtransport
<1> QED
  BY <1>1, <1>2, <1>3, <1>4, <1>5, <1>6, <1>7, <1>8 DEF StreamInv

\* A call is about the stream cs; it goes on, or it is over.
LEMMA CallStep ==
  ASSUME IndInv, call # "none", NEW s, s = cs, NEW new, NEW p, Move(new, p),
         UNCHANGED <<content, cs, finished>>, call' \in {call, "none"},
         rejected' = rejected \/ (rejected' = rejected \cup {s} /\ ~OfSession(s)),
         Grows(s), \E S : processed' \in Seq(S), SettingsInv',
         settings_received => settings_received',
         data' = [data EXCEPT ![s] = data'[s]],
         s \notin rejected' => StreamInv(s)'
  PROVE  IndInv'
<1>1. s \in Streams /\ s \in DOMAIN content
  BY ContentsAssumption DEF IndInv, CallInv, TypeInv
<1>2. Len(processed) \in Nat
  BY DEF IndInv, TypeInv
<1>3. /\ st' = [st EXCEPT ![s] = new] /\ at' = [at EXCEPT ![s] = p]
  BY DEF Move
<1>4. TypeInv'
  BY <1>1, <1>3 DEF IndInv, TypeInv
<1>5. CallInv'
  BY DEF IndInv, CallInv
<1>6. \A r \in DOMAIN content' : OfSession(r)' => r \notin rejected'
  <2>1. \A r : OfSession(r)' <=> OfSession(r)
    BY ContentFixed DEF OfSession
  <2> QED
    BY <2>1 DEF IndInv
<1>7. ASSUME NEW r \in (DOMAIN content') \ rejected'
      PROVE  StreamInv(r)'
  <2>1. CASE r = s
    BY <1>7, <2>1
  <2>2. CASE r # s
    <3>1. r \in Streams /\ r \in (DOMAIN content) \ rejected
      BY ContentsAssumption DEF IndInv, TypeInv
    <3>2. st'[r] = st[r] /\ at'[r] = at[r] /\ data'[r] = data[r]
      <4>1. /\ st = [x \in Streams |-> st[x]] /\ at = [x \in Streams |-> at[x]]
            /\ data = [x \in Streams |-> data[x]]
        BY DEF IndInv, TypeInv
      <4> QED
        BY <1>3, <2>2, <3>1, <4>1
    <3>3. Between(r) /\ Between(r)'
      BY <2>2 DEF Between
    <3> QED
      BY <1>2, <2>2, <3>1, <3>2, <3>3, OtherStream DEF IndInv
  <2> QED
    BY <2>1, <2>2
<1> QED
  BY <1>4, <1>5, <1>6, <1>7 DEF IndInv

LEMMA CallFacts ==
  ASSUME IndInv, call # "none", NEW s, s = cs, s \notin rejected
  PROVE  /\ s \in Streams /\ s \in DOMAIN content /\ Carries(s) /\ StreamInv(s)
         /\ State = st[s] /\ st[s] \in StateRecords
         /\ at[s] \in Nat \ {0} /\ hand \in Nat /\ hand <= Len(content[s]) /\ at[s] <= hand + 1
         /\ Len(content[s]) \in Nat /\ hand + 1 \in 1..(Len(content[s]) + 1)
         /\ Rest \in Nat /\ Rest = hand - at[s] + 1 /\ Len(processed) \in Nat
         /\ ~Between(s) /\ (s \in finished <=> call = "fin")
<1>1. s \in DOMAIN content /\ s \in Streams /\ Carries(s) /\ StreamInv(s)
      /\ (s \in finished <=> call = "fin")
  BY ContentsAssumption DEF IndInv, CallInv, TypeInv, Carries
<1>2. Len(content[s]) \in Nat
  <2>1. PICK n \in Nat : n = Len(content[s])
    BY <1>1 DEF Carries
  <2> QED
    BY <2>1
<1>3. ~Between(s)
  BY DEF Between
<1>4. Len(processed) \in Nat
  BY DEF IndInv, TypeInv
<1>5. /\ at[s] \in 1..(Len(content[s]) + 1) /\ at[s] <= hand + 1 /\ hand \in 0..Len(content[s])
      /\ st[s] \in StateRecords
  BY <1>1, <1>3 DEF StreamInv
<1>6. Rest = hand - at[s] + 1 /\ State = st[s]
  BY DEF Rest, State
<1> QED
  BY <1>1, <1>2, <1>3, <1>4, <1>5, <1>6

\* The varint at hand is the one its bytes have been gathered for.
LEMMA VarintFacts ==
  ASSUME IndInv, call # "none", NEW s, s = cs, s \notin rejected,
         NEW v \in Nat \ {0}, Gathering(s, v)
  PROVE  /\ Width(s, v) \in Nat \ {0} /\ Value(s, v) \in Nat
         /\ VarintComplete =>
              Varint = Value(s, v) /\ VarintEnd = v + Width(s, v) /\ v + Width(s, v) <= hand + 1
         /\ ~VarintComplete => hand + 1 < v + Width(s, v)
         /\ st[s].frame_header_read \in Nat /\ hand + 1 = v + (st[s].frame_header_read + Rest)
<1>1. /\ State = st[s] /\ at[s] \in Nat \ {0} /\ hand \in Nat /\ hand <= Len(content[s])
      /\ Rest = hand - at[s] + 1 /\ Rest \in Nat /\ Carries(s) /\ st[s] \in StateRecords
      /\ Len(content[s]) \in Nat
  BY CallFacts
<1>2. PICK m \in Nat : m = st[s].frame_header_read
  BY <1>1 DEF StateRecords
<1>3. at[s] = v + m /\ at[s] < v + Width(s, v)
  BY <1>2 DEF Gathering
<1>4. VarintAt = v
  BY <1>1, <1>2, <1>3 DEF VarintAt
<1>5. Width(s, v) \in Nat \ {0} /\ Value(s, v) \in Nat
  BY <1>1, ByteFacts
<1>6. ASSUME Rest > 0
      PROVE  Varint = Value(s, v) /\ VarintEnd = v + Width(s, v)
  <2>1. v \in 1..Len(content[s])
    BY <1>1, <1>3, <1>6
  <2>2. v \in DOMAIN content[s]
    <3>1. DOMAIN content[s] = 1..Len(content[s])
      BY <1>1 DEF Carries
    <3> QED
      BY <2>1, <3>1
  <2> QED
    BY <1>4, <2>2 DEF Varint, VarintEnd, Width, Value
<1>7. VarintComplete <=> Rest > 0 /\ VarintEnd <= hand + 1
  BY DEF VarintComplete
<1>8. VarintComplete =>
        Varint = Value(s, v) /\ VarintEnd = v + Width(s, v) /\ v + Width(s, v) <= hand + 1
  BY <1>6, <1>7
<1>9. ~VarintComplete => hand + 1 < v + Width(s, v)
  <2>1. CASE Rest > 0
    BY <1>1, <1>5, <1>6, <1>7, <2>1
  <2>2. CASE ~(Rest > 0)
    BY <1>1, <1>3, <1>5, <2>2
  <2> QED
    BY <2>1, <2>2
<1>10. hand + 1 = v + (m + Rest)
  BY <1>1, <1>3
<1> QED
  BY <1>2, <1>5, <1>8, <1>9, <1>10

LEMMA Moved ==
  ASSUME IndInv, call # "none", NEW s, s = cs, NEW new, NEW p, Move(new, p)
  PROVE  st'[s] = new /\ at'[s] = p
<1>1. s \in Streams
  BY ContentsAssumption DEF IndInv, CallInv, TypeInv
<1>2. st = [x \in Streams |-> st[x]] /\ at = [x \in Streams |-> at[x]]
  BY DEF IndInv, TypeInv
<1> QED
  BY <1>1, <1>2 DEF Move

\* A step that changes no more than the parser's state of its stream.
LEMMA QuietStep ==
  ASSUME IndInv, call # "none", NEW s, s = cs, NEW new, NEW p, Move(new, p),
         UNCHANGED <<ctxVars, cs, finished, data, processed>>, call' \in {call, "none"},
         rejected' = rejected \/ (rejected' = rejected \cup {s} /\ ~OfSession(s)),
         s \notin rejected' => StreamInv(s)'
  PROVE  IndInv'
<1>1. UNCHANGED <<content, cs, finished>> /\ (settings_received => settings_received')
  BY DEF ctxVars
<1>2. Grows(s)
  BY DEF Grows
<1>3. \E S : processed' \in Seq(S)
  BY DEF IndInv, TypeInv
<1>4. SettingsInv'
  BY DEF IndInv, SettingsInv, ctxVars
<1>5. data' = [data EXCEPT ![s] = data'[s]]
  BY DEF IndInv, TypeInv
<1> QED
  BY <1>1, <1>2, <1>3, <1>4, <1>5, CallStep

LEMMA RejectStep ==
  ASSUME IndInv, call # "none", NEW new, Reject(new), cs \in rejected \/ ~OfSession(cs),
         UNCHANGED <<ctxVars, finished, data, processed>>
  PROVE  IndInv'
<1>1. PICK s : s = cs
  OBVIOUS
<1>2. /\ Move(new, hand + 1) /\ call' = "none" /\ cs' = cs /\ rejected' = rejected \cup {s}
  BY <1>1 DEF Reject
<1>3. rejected' = rejected \/ (rejected' = rejected \cup {s} /\ ~OfSession(s))
  <2>1. CASE cs \in rejected
    BY <1>1, <1>2, <2>1
  <2>2. CASE ~OfSession(cs)
    BY <1>1, <1>2, <2>2
  <2> QED
    BY <2>1, <2>2
<1> QED
  BY <1>1, <1>2, <1>3, QuietStep

LEMMA GoOnStep ==
  ASSUME IndInv, call # "none", NEW s, s = cs, NEW new, NEW p, Continue(new, p),
         UNCHANGED <<ctxVars, finished, data, processed>>, s \notin rejected => StreamInv(s)'
  PROVE  IndInv'
<1>1. Move(new, p) /\ UNCHANGED <<cs, call, rejected>>
  BY DEF Continue, callVars
<1> QED
  BY <1>1, QuietStep

LEMMA ReturnStep ==
  ASSUME IndInv, call # "none", NEW s, s = cs, NEW new, Return(new),
         UNCHANGED <<ctxVars, finished, data, processed>>, s \notin rejected => StreamInv(s)'
  PROVE  IndInv'
<1>1. Move(new, hand + 1) /\ UNCHANGED <<cs, rejected>> /\ call' = "none"
  BY DEF Return
<1> QED
  BY <1>1, QuietStep

\* What the stream carries and what was handled of it stays.
LEMMA SameStream ==
  ASSUME content' = content, processed' = processed, NEW s
  PROVE  /\ Len(content[s])' = Len(content[s]) /\ Mine(s)' = Mine(s)
         /\ HeaderEnd(s)' = HeaderEnd(s) /\ Session(s)' = Session(s)
         /\ \A q : /\ Width(s, q)' = Width(s, q) /\ Value(s, q)' = Value(s, q)
                   /\ FrameBody(s, q)' = FrameBody(s, q) /\ FrameEnd(s, q)' = FrameEnd(s, q)
                   /\ Boundary(s, q)' = Boundary(s, q)
         /\ \A c : HandledUpTo(s, c)' = HandledUpTo(s, c)
<1>1. /\ FrameStarts(s)' = FrameStarts(s) /\ HeaderEnd(s)' = HeaderEnd(s)
      /\ Session(s)' = Session(s)
      /\ \A q : /\ Width(s, q)' = Width(s, q) /\ Value(s, q)' = Value(s, q)
                /\ FrameBody(s, q)' = FrameBody(s, q) /\ FrameEnd(s, q)' = FrameEnd(s, q)
                /\ Boundary(s, q)' = Boundary(s, q)
  BY ContentFixed
<1>2. Mine(s)' = Mine(s)
  BY DEF Mine
<1>3. \A c : HandledUpTo(s, c)' = HandledUpTo(s, c)
  BY <1>1, <1>2 DEF HandledUpTo, IsOf
<1> QED
  BY <1>1, <1>2, <1>3
-----------------------------------------------------------------------------
(* The type of the stream                                                  *)

\* More bytes of a varint that is not complete.
LEMMA GatherMore ==
  ASSUME IndInv, call # "none", NEW s, s = cs, s \notin rejected, ~VarintComplete,
         NEW v \in Nat \ {0}, Gathering(s, v), Move(Gather, hand + 1), content' = content
  PROVE  /\ Gathering(s, v)' /\ st'[s] \in StateRecords /\ at'[s] = hand + 1
         /\ st'[s] = [st[s] EXCEPT !.frame_header_read = st'[s].frame_header_read]
<1>1. st'[s] = Gather /\ at'[s] = hand + 1
  BY Moved
<1>2. State = st[s] /\ st[s] \in StateRecords /\ Rest \in Nat
  BY CallFacts
<1>3. PICK m \in Nat : m = st[s].frame_header_read + Rest
  BY <1>2 DEF StateRecords
<1>4. Gather = [st[s] EXCEPT !.frame_header_read = m]
  BY <1>2, <1>3 DEF Gather
<1>5. hand + 1 = v + m /\ hand + 1 < v + Width(s, v)
  BY <1>3, VarintFacts
<1>6. st'[s] \in StateRecords /\ st'[s].frame_header_read = m
  BY <1>1, <1>2, <1>4 DEF StateRecords
<1>7. Width(s, v)' = Width(s, v)
  BY ContentFixed
<1>8. Gathering(s, v)'
  BY <1>1, <1>5, <1>6, <1>7 DEF Gathering
<1> QED
  BY <1>1, <1>4, <1>6, <1>8

LEMMA UnidirTypeCutStep ==
  ASSUME IndInv, UnidirTypeCut
  PROVE  IndInv'
<1>1. PICK s : s = cs
  OBVIOUS
<1>2. /\ call # "none" /\ State.stream_type = -1 /\ ~VarintComplete /\ s \in Unidirs
      /\ Return(Gather) /\ Move(Gather, hand + 1) /\ call' = "none"
      /\ UNCHANGED <<ctxVars, finished, data, processed>>
  BY <1>1 DEF UnidirTypeCut, TypeUnknown, Return
<1>3. ASSUME s \notin rejected
      PROVE  StreamInv(s)'
  <2>1. /\ StreamInv(s) /\ State = st[s] /\ hand + 1 \in 1..(Len(content[s]) + 1)
        /\ Carries(s)
    BY <1>1, <1>2, <1>3, CallFacts
  <2>2. Gathering(s, 1) /\ st[s].control_stream_id = -1 /\ data[s] = NothingYet /\ Mine(s) = {}
        /\ st[s].stream_type = -1
    BY <1>2, <2>1 DEF StreamInv
  <2>3. /\ Gathering(s, 1)' /\ st'[s] \in StateRecords /\ at'[s] = hand + 1
        /\ st'[s] = [st[s] EXCEPT !.frame_header_read = st'[s].frame_header_read]
    BY <1>1, <1>2, <1>3, <2>2, GatherMore DEF ctxVars
  <2>4. st'[s].stream_type = -1 /\ st'[s].control_stream_id = -1
    <3>1. PICK x \in StateRecords : x = st[s]
      BY <1>1, <1>2, <1>3, CallFacts
    <3> QED
      BY <2>2, <2>3, <3>1 DEF StateRecords
  <2>5. Len(content[s])' = Len(content[s]) /\ Mine(s)' = Mine(s)
    BY <1>2, SameStream DEF ctxVars
  <2>6. Between(s)'
    BY <1>2 DEF Between
  <2>7. ~Webtransport(s)' /\ st'[s].stream_type # StreamControl
    BY <2>4 DEF Webtransport, StreamWebtransport, FrameWebtransport, StreamControl
  <2> QED
    BY <1>2, <2>1, <2>2, <2>3, <2>4, <2>5, <2>6, <2>7 DEF StreamInv
<1> QED
  BY <1>1, <1>2, <1>3, ReturnStep

LEMMA ResetFacts ==
  ASSUME NEW t \in StateRecords
  PROVE  /\ ResetFrame(t) \in StateRecords
         /\ ResetFrame(t).current_frame_type = -1 /\ ResetFrame(t).current_frame_length = -1
         /\ ResetFrame(t).current_frame_read = 0
         /\ ResetFrame(t).stream_type = t.stream_type
         /\ ResetFrame(t).frame_header_read = t.frame_header_read
         /\ ResetFrame(t).control_stream_id = t.control_stream_id
         /\ ResetFrame(t).path_callback = t.path_callback
<1>1. PICK y : y = ResetFrame(t)
  OBVIOUS
<1>2. y = [t EXCEPT !.current_frame_type = -1, !.current_frame_length = -1,
                    !.current_frame_read = 0, !.current_frame = FALSE]
  BY <1>1 DEF ResetFrame
<1>3. y \in StateRecords
  <2>1. PICK a : a = [t EXCEPT !.current_frame_type = -1]
    OBVIOUS
  <2>2. PICK b : b = [a EXCEPT !.current_frame_length = -1]
    OBVIOUS
  <2>3. PICK c : c = [b EXCEPT !.current_frame_read = 0]
    OBVIOUS
  <2>4. a \in StateRecords
    BY <2>1 DEF StateRecords
  <2>5. b \in StateRecords
    BY <2>2, <2>4 DEF StateRecords
  <2>6. c \in StateRecords
    BY <2>3, <2>5 DEF StateRecords
  <2>7. y = [c EXCEPT !.current_frame = FALSE]
    BY <1>2, <2>1, <2>2, <2>3
  <2> QED
    BY <2>6, <2>7 DEF StateRecords
<1>4. /\ y.current_frame_type = -1 /\ y.current_frame_length = -1
      /\ y.current_frame_read = 0
  BY <1>2 DEF StateRecords
<1>5. /\ y.stream_type = t.stream_type /\ y.frame_header_read = t.frame_header_read
      /\ y.control_stream_id = t.control_stream_id /\ y.path_callback = t.path_callback
  BY <1>2 DEF StateRecords
<1> QED
  BY <1>1, <1>3, <1>4, <1>5

LEMMA StreamTypeStep ==
  ASSUME IndInv, StreamType
  PROVE  IndInv'
<1>1. PICK s : s = cs
  OBVIOUS
<1> DEFINE typed == [Known EXCEPT !.stream_type = Varint]
<1> DEFINE new == IF s \in Unidirs /\ Varint = StreamControl THEN ResetFrame(typed) ELSE typed
<1>2. /\ call # "none" /\ State.stream_type = -1 /\ VarintComplete
      /\ Continue(new, VarintEnd) /\ Move(new, VarintEnd) /\ UNCHANGED <<callVars, rejected>>
      /\ UNCHANGED <<ctxVars, finished, data, processed>>
  BY <1>1 DEF StreamType, TypeUnknown, Continue
<1>3. ASSUME s \notin rejected
      PROVE  StreamInv(s)'
  <2>1. /\ StreamInv(s) /\ State = st[s] /\ hand + 1 \in 1..(Len(content[s]) + 1)
        /\ Carries(s) /\ ~Between(s) /\ hand \in Nat /\ hand <= Len(content[s])
        /\ Len(content[s]) \in Nat
    BY <1>1, <1>2, <1>3, CallFacts
  <2>2. /\ Gathering(s, 1) /\ st[s].control_stream_id = -1 /\ data[s] = NothingYet
        /\ Mine(s) = {} /\ st[s].stream_type = -1
    BY <1>2, <2>1 DEF StreamInv
  <2>3. PICK x \in StateRecords : x = st[s]
    BY <1>1, <1>2, <1>3, CallFacts
  <2>4. PICK v \in Nat : v = Value(s, 1) /\ v = Varint
    BY <1>1, <1>2, <1>3, <2>2, VarintFacts
  <2>5. PICK e \in Nat : /\ e = VarintEnd /\ e = 1 + Width(s, 1) /\ e <= hand + 1 /\ 1 <= e
                         /\ e < e + Width(s, e)
    <3>1. Width(s, 1) \in Nat \ {0} /\ VarintEnd = 1 + Width(s, 1) /\ 1 + Width(s, 1) <= hand + 1
      BY <1>1, <1>2, <1>3, <2>2, VarintFacts
    <3>2. Width(s, 1 + Width(s, 1)) \in Nat \ {0}
      BY <2>1, <3>1, ByteFacts
    <3> QED
      BY <3>1, <3>2
  <2>6. st'[s] = new /\ at'[s] = e
    BY <1>1, <1>2, <2>5, Moved
  <2>7. PICK y \in StateRecords :
          /\ y = st'[s] /\ y.stream_type = v /\ y.frame_header_read = 0
          /\ y.control_stream_id = -1
          /\ s \in Unidirs /\ v = StreamControl =>
               /\ y.current_frame_type = -1 /\ y.current_frame_length = -1
               /\ y.current_frame_read = 0
    <3>1. typed = [x EXCEPT !.frame_header_read = 0, !.stream_type = v]
      BY <2>1, <2>3, <2>4 DEF Known
    <3>2. PICK t \in StateRecords :
            /\ t = typed /\ t.stream_type = v /\ t.frame_header_read = 0
            /\ t.control_stream_id = -1
      <4>1. PICK t : t = [x EXCEPT !.frame_header_read = 0, !.stream_type = v]
        OBVIOUS
      <4>2. x.control_stream_id = -1
        BY <2>2, <2>3
      <4> HIDE DEF new, typed
      <4>3. t \in StateRecords
        <5>1. PICK a : a = [x EXCEPT !.frame_header_read = 0]
          OBVIOUS
        <5>2. a \in StateRecords
          BY <5>1 DEF StateRecords
        <5>3. t = [a EXCEPT !.stream_type = v]
          BY <4>1, <5>1
        <5> QED
          BY <5>2, <5>3 DEF StateRecords
      <4>4. t.stream_type = v /\ t.frame_header_read = 0 /\ t.control_stream_id = -1
        BY <4>1, <4>2 DEF StateRecords
      <4> QED
        BY <3>1, <4>1, <4>3, <4>4
    <3>3. CASE s \in Unidirs /\ v = StreamControl
      <4>1. st'[s] = ResetFrame(t)
        BY <2>4, <2>6, <3>2, <3>3
      <4>2. PICK y : y = ResetFrame(t)
        OBVIOUS
      <4>3. /\ y \in StateRecords /\ y.stream_type = t.stream_type
            /\ y.frame_header_read = t.frame_header_read
            /\ y.control_stream_id = t.control_stream_id
            /\ y.current_frame_type = -1 /\ y.current_frame_length = -1
            /\ y.current_frame_read = 0
        BY <3>2, <4>2, ResetFacts
      <4> HIDE DEF new, typed
      <4> QED
        BY <3>2, <4>1, <4>2, <4>3
    <3>4. CASE ~(s \in Unidirs /\ v = StreamControl)
      <4>1. st'[s] = t
        BY <2>4, <2>6, <3>2, <3>4
      <4> QED
        BY <3>2, <3>4, <4>1
    <3> QED
      BY <3>3, <3>4
  <2> HIDE DEF new, typed
  <2>8. /\ Len(content[s])' = Len(content[s]) /\ Mine(s)' = Mine(s)
        /\ \A q : Width(s, q)' = Width(s, q) /\ Value(s, q)' = Value(s, q)
                  /\ Boundary(s, q)' = Boundary(s, q)
        /\ \A c : HandledUpTo(s, c)' = HandledUpTo(s, c)
    BY <1>2, SameStream DEF ctxVars
  <2>9. Gathering(s, e)'
    BY <2>5, <2>6, <2>7, <2>8 DEF Gathering
  <2>10. SessionAt(s)'
    <3>1. Gathering(s, 1 + Width(s, 1))'
      BY <2>5, <2>8, <2>9
    <3> QED
      BY <1>2, <2>2, <2>7, <3>1 DEF SessionAt, NothingYet
  <2>11. ASSUME s \in Unidirs, v = StreamControl
         PROVE  Allowed(s)' /\ \E c \in Nat : Boundary(s, c)' /\ ControlAt(s, c)' /\ HandledUpTo(s, c)'
    <3>1. Allowed(s)'
      BY <2>7, <2>11 DEF Allowed
    <3>2. ControlAt(s, e)'
      BY <2>7, <2>9, <2>11 DEF ControlAt
    <3>3. Boundary(s, e)
      BY <2>5 DEF Boundary
    <3>4. HandledUpTo(s, e)
      <4>1. \A q \in FrameStarts(s) : ~(q < e)
        <5>1. \A q \in FrameStarts(s) : q \in Nat /\ Boundary(s, q)
          BY <2>1, StartFacts
        <5>2. \A q \in FrameStarts(s) : e <= q
          BY <2>1, <2>5, <5>1, Chain
        <5> QED
          BY <5>1, <5>2
      <4> QED
        BY <2>2, <4>1 DEF HandledUpTo
    <3> QED
      BY <2>8, <3>1, <3>2, <3>3, <3>4
  <2>12. at'[s] \in 1..(Len(content[s])' + 1) /\ at'[s] <= hand' + 1
         /\ hand' \in 0..Len(content[s])'
    <3>1. e \in 1..(Len(content[s]) + 1) /\ e <= hand + 1 /\ hand \in 0..Len(content[s])
      BY <2>1, <2>5
    <3> QED
      BY <1>2, <2>6, <2>8, <3>1 DEF callVars
  <2>13. y.stream_type # -1 /\ y.stream_type = Value(s, 1)'
    BY <2>4, <2>7, <2>8
  <2> QED
    BY <2>7, <2>10, <2>11, <2>12, <2>13 DEF StreamInv
<1> HIDE DEF new
<1> QED
  BY <1>1, <1>2, <1>3, GoOnStep

LEMMA BidirTypeCutStep ==
  ASSUME IndInv, BidirTypeCut
  PROVE  IndInv'
<1>1. call # "none" /\ cs \in Bidirs /\ Reject(Gather)
      /\ UNCHANGED <<ctxVars, finished, data, processed>>
  BY DEF BidirTypeCut, TypeUnknown
<1>2. ~OfSession(cs)
  BY <1>1, StreamsAssumption DEF OfSession
<1> QED
  BY <1>1, <1>2, RejectStep

LEMMA OtherBidirStep ==
  ASSUME IndInv, OtherBidir
  PROVE  IndInv'
<1>1. call # "none" /\ cs \in Bidirs /\ Reject(State)
      /\ UNCHANGED <<ctxVars, finished, data, processed>>
  BY DEF OtherBidir
<1>2. ~OfSession(cs)
  BY <1>1, StreamsAssumption DEF OfSession
<1> QED
  BY <1>1, <1>2, RejectStep

LEMMA OtherUnidirStep ==
  ASSUME IndInv, OtherUnidir
  PROVE  IndInv'
<1>1. PICK s : s = cs
  OBVIOUS
<1>2. /\ call # "none" /\ s \in Unidirs
      /\ State.stream_type \notin {-1, StreamControl, StreamWebtransport}
      /\ Return(State) /\ Move(State, hand + 1) /\ call' = "none"
      /\ UNCHANGED <<ctxVars, finished, data, processed>>
  BY <1>1 DEF OtherUnidir, Return
<1>3. ASSUME s \notin rejected
      PROVE  StreamInv(s)'
  <2>1. /\ StreamInv(s) /\ State = st[s] /\ hand + 1 \in 1..(Len(content[s]) + 1)
        /\ st[s] \in StateRecords
    BY <1>1, <1>2, <1>3, CallFacts
  <2>2. st'[s] = st[s] /\ at'[s] = hand + 1
    BY <1>1, <1>2, <2>1, Moved
  <2>3. st[s].stream_type = Value(s, 1) /\ st[s].stream_type # -1
    BY <1>2, <2>1 DEF StreamInv
  <2>4. Len(content[s])' = Len(content[s]) /\ Value(s, 1)' = Value(s, 1)
    BY <1>2, SameStream DEF ctxVars
  <2>5. Between(s)'
    BY <1>2 DEF Between
  <2>6. ~Webtransport(s)' /\ st'[s].stream_type # StreamControl
    BY <1>2, <2>1, <2>2 DEF Webtransport
  <2> QED
    BY <1>2, <2>1, <2>2, <2>3, <2>4, <2>5, <2>6 DEF StreamInv
<1> QED
  BY <1>1, <1>2, <1>3, ReturnStep
-----------------------------------------------------------------------------
(* WebTransport streams                                                    *)

\* Of a session's stream no more than its session has to be seen.
LEMMA SessionStream ==
  ASSUME NEW s, st'[s].stream_type # -1, st'[s].stream_type = Value(s, 1)', Webtransport(s)',
         st'[s] \in StateRecords, at'[s] \in 1..(Len(content[s])' + 1),
         Between(s)' \/ (at'[s] <= hand' + 1 /\ hand' \in 0..Len(content[s])'), SessionAt(s)'
  PROVE  StreamInv(s)'
<1>1. ~(s \in Unidirs /\ st'[s].stream_type = StreamControl)
  BY DEF Webtransport, StreamControl, StreamWebtransport
<1> QED
  BY <1>1 DEF StreamInv

LEMMA WebtransportFacts ==
  ASSUME IndInv, call # "none", NEW s, s = cs, s \notin rejected, Webtransport(s)
  PROVE  /\ SessionAt(s) /\ st[s].stream_type # -1 /\ st[s].stream_type = Value(s, 1)
         /\ 1 + Width(s, 1) \in Nat \ {0}
         /\ HeaderEnd(s) = 1 + Width(s, 1) + Width(s, 1 + Width(s, 1)) /\ HeaderEnd(s) \in Nat \ {0}
<1>1. StreamInv(s) /\ Carries(s)
  BY CallFacts
<1>2. st[s].stream_type # -1
  BY DEF Webtransport, StreamWebtransport, FrameWebtransport
<1>3. Width(s, 1) \in Nat \ {0} /\ 1 + Width(s, 1) \in Nat \ {0}
  BY <1>1, ByteFacts
<1>4. Width(s, 1 + Width(s, 1)) \in Nat \ {0}
  BY <1>1, <1>3, ByteFacts
<1> QED
  BY <1>1, <1>2, <1>3, <1>4 DEF StreamInv, HeaderEnd

LEMMA SessionCutStep ==
  ASSUME IndInv, SessionCut
  PROVE  IndInv'
<1>1. PICK s : s = cs
  OBVIOUS
<1>2. /\ call # "none" /\ Webtransport(s) /\ State.control_stream_id = -1 /\ ~VarintComplete
      /\ Return(Gather) /\ Move(Gather, hand + 1) /\ call' = "none"
      /\ UNCHANGED <<ctxVars, finished, data, processed>>
  BY <1>1 DEF SessionCut, Return
<1>3. ASSUME s \notin rejected
      PROVE  StreamInv(s)'
  <2>1. /\ State = st[s] /\ hand + 1 \in 1..(Len(content[s]) + 1) /\ st[s] \in StateRecords
    BY <1>1, <1>2, <1>3, CallFacts
  <2>2. /\ SessionAt(s) /\ st[s].stream_type # -1 /\ st[s].stream_type = Value(s, 1)
        /\ 1 + Width(s, 1) \in Nat \ {0}
    BY <1>1, <1>2, <1>3, WebtransportFacts
  <2>3. Gathering(s, 1 + Width(s, 1)) /\ data[s] = NothingYet
    BY <1>2, <2>1, <2>2 DEF SessionAt
  <2>4. PICK v \in Nat \ {0} : v = 1 + Width(s, 1)
    BY <2>2
  <2>5. /\ Gathering(s, v)' /\ st'[s] \in StateRecords /\ at'[s] = hand + 1
        /\ st'[s] = [st[s] EXCEPT !.frame_header_read = st'[s].frame_header_read]
    BY <1>1, <1>2, <1>3, <2>3, <2>4, GatherMore DEF ctxVars
  <2>6. st'[s].stream_type = st[s].stream_type /\ st'[s].control_stream_id = -1
    <3>1. PICK x \in StateRecords : x = st[s]
      BY <2>1
    <3> QED
      BY <1>2, <2>1, <2>5, <3>1 DEF StateRecords
  <2>7. Len(content[s])' = Len(content[s]) /\ \A q : Width(s, q)' = Width(s, q) /\ Value(s, q)' = Value(s, q)
    BY <1>2, SameStream DEF ctxVars
  <2>8. Between(s)' /\ Webtransport(s)'
    BY <1>2, <2>6 DEF Between, Webtransport
  <2>9. SessionAt(s)'
    <3>1. Gathering(s, 1 + Width(s, 1))'
      BY <2>4, <2>5, <2>7
    <3> QED
      BY <1>2, <2>3, <2>6, <3>1 DEF SessionAt, NothingYet
  <2>10. /\ st'[s].stream_type # -1 /\ st'[s].stream_type = Value(s, 1)'
         /\ at'[s] \in 1..(Len(content[s])' + 1)
    BY <2>1, <2>2, <2>5, <2>6, <2>7
  <2> QED
    BY <2>5, <2>8, <2>9, <2>10, SessionStream
<1> QED
  BY <1>1, <1>2, <1>3, ReturnStep

LEMMA SessionFoundStep ==
  ASSUME IndInv, SessionFound
  PROVE  IndInv'
<1>1. PICK s : s = cs
  OBVIOUS
<1> DEFINE new == [Known EXCEPT !.control_stream_id = Varint,
                                !.path_callback = Varint \in Declared]
<1>2. /\ call # "none" /\ Webtransport(s) /\ State.control_stream_id = -1 /\ VarintComplete
      /\ UNCHANGED <<ctxVars, finished, data, processed>>
  BY <1>1 DEF SessionFound
<1>3. IF Varint \in Declared THEN Continue(new, VarintEnd) ELSE Reject(new)
  BY DEF SessionFound
<1> HIDE DEF new
<1>4. ASSUME s \notin rejected
      PROVE  /\ Varint = Session(s) /\ VarintEnd = HeaderEnd(s) /\ Value(s, 1) = st[s].stream_type
             /\ data[s] = NothingYet /\ Varint \in Nat /\ HeaderEnd(s) <= hand + 1
  <2>1. /\ State = st[s] /\ st[s] \in StateRecords
    BY <1>1, <1>2, <1>4, CallFacts
  <2>2. /\ SessionAt(s) /\ st[s].stream_type = Value(s, 1) /\ 1 + Width(s, 1) \in Nat \ {0}
        /\ HeaderEnd(s) = 1 + Width(s, 1) + Width(s, 1 + Width(s, 1))
    BY <1>1, <1>2, <1>4, WebtransportFacts
  <2>3. PICK v \in Nat \ {0} : v = 1 + Width(s, 1)
    BY <2>2
  <2>4. Gathering(s, v) /\ data[s] = NothingYet
    BY <1>2, <2>1, <2>2, <2>3 DEF SessionAt
  <2>5. Varint = Value(s, v) /\ VarintEnd = v + Width(s, v) /\ Value(s, v) \in Nat
        /\ v + Width(s, v) <= hand + 1
    BY <1>1, <1>2, <1>4, <2>4, VarintFacts
  <2> QED
    BY <2>2, <2>3, <2>4, <2>5 DEF Session
<1>5. CASE Varint \notin Declared
  <2>1. Reject(new)
    BY <1>3, <1>5
  <2>2. cs \in rejected \/ ~OfSession(cs)
    BY <1>1, <1>4, <1>5 DEF OfSession
  <2> QED
    BY <1>2, <2>1, <2>2, RejectStep
<1>6. CASE Varint \in Declared
  <2>1. Continue(new, VarintEnd) /\ Move(new, VarintEnd) /\ UNCHANGED <<callVars, rejected>>
    BY <1>3, <1>6 DEF Continue
  <2>2. ASSUME s \notin rejected
        PROVE  StreamInv(s)'
    <3>1. /\ State = st[s] /\ ~Between(s) /\ hand \in Nat /\ hand <= Len(content[s])
          /\ Len(content[s]) \in Nat
      BY <1>1, <1>2, <2>2, CallFacts
    <3>2. PICK x \in StateRecords : x = st[s]
      BY <1>1, <1>2, <2>2, CallFacts
    <3>3. PICK v \in Nat : v = Varint
      BY <1>4, <2>2
    <3>4. PICK e \in Nat : e = HeaderEnd(s) /\ e = VarintEnd /\ e <= hand + 1 /\ 1 <= e
      <4>1. HeaderEnd(s) \in Nat \ {0}
        BY <1>1, <1>2, <2>2, WebtransportFacts
      <4> QED
        BY <1>4, <2>2, <4>1
    <3>5. PICK y : y = st'[s] /\ y = new /\ at'[s] = e
      BY <1>1, <1>2, <2>1, <3>4, Moved
    <3>6. y = [x EXCEPT !.frame_header_read = 0, !.control_stream_id = v, !.path_callback = TRUE]
      BY <1>6, <3>1, <3>2, <3>3, <3>5 DEF new, Known
    <3>7. y \in StateRecords
      <4>1. PICK a : a = [x EXCEPT !.frame_header_read = 0]
        OBVIOUS
      <4>2. PICK b : b = [a EXCEPT !.control_stream_id = v]
        OBVIOUS
      <4>3. y = [b EXCEPT !.path_callback = TRUE]
        BY <3>6, <4>1, <4>2
      <4>4. a \in StateRecords
        BY <4>1 DEF StateRecords
      <4>5. b \in StateRecords
        BY <4>2, <4>4 DEF StateRecords
      <4> QED
        BY <4>3, <4>5 DEF StateRecords
    <3>8. y.stream_type = x.stream_type /\ y.control_stream_id = v /\ y.path_callback = TRUE
      BY <3>6 DEF StateRecords
    <3>9. x.stream_type = Value(s, 1) /\ x.stream_type # -1
      BY <1>1, <1>2, <2>2, <3>2, WebtransportFacts
    <3>10. /\ Len(content[s])' = Len(content[s]) /\ HeaderEnd(s)' = HeaderEnd(s)
           /\ Value(s, 1)' = Value(s, 1)
      BY <1>2, SameStream DEF ctxVars
    <3>11. ~Between(s)'
      BY <2>1, <3>1 DEF Between, callVars
    <3>12. Webtransport(s)'
      BY <1>2, <3>2, <3>5, <3>8 DEF Webtransport
    <3>13. SessionAt(s)'
      <4>1. data'[s] = NothingYet
        BY <1>2, <1>4, <2>2
      <4>2. <<>> = [i \in 1..(e - e) |-> e + i - 1]
        OBVIOUS
      <4>3. /\ HeaderEnd(s)' = e /\ at'[s] = e /\ st'[s].control_stream_id # -1
            /\ st'[s].path_callback = TRUE
        <5>1. v # -1
          BY <3>3
        <5> QED
          BY <3>4, <3>5, <3>8, <3>10, <5>1, Zenon
      <4>4. data'[s].bytes = <<>> /\ data'[s].fin = FALSE
        BY <4>1 DEF NothingYet
      <4>5. data'[s].bytes = [i \in 1..(at'[s] - HeaderEnd(s)') |-> HeaderEnd(s)' + i - 1]
        BY <4>2, <4>3, <4>4
      <4> QED
        BY <3>4, <3>11, <4>3, <4>4, <4>5 DEF SessionAt
    <3>14. at'[s] \in 1..(Len(content[s])' + 1) /\ at'[s] <= hand' + 1 /\ hand' \in 0..Len(content[s])'
      <4>1. e \in 1..(Len(content[s]) + 1) /\ hand \in 0..Len(content[s])
        BY <3>1, <3>4
      <4> QED
        BY <2>1, <3>4, <3>5, <3>10, <4>1 DEF callVars
    <3>15. st'[s].stream_type # -1 /\ st'[s].stream_type = Value(s, 1)' /\ st'[s] \in StateRecords
      BY <3>5, <3>7, <3>8, <3>9, <3>10
    <3> QED
      BY <3>12, <3>13, <3>14, <3>15, SessionStream
  <2> QED
    BY <1>1, <1>2, <2>1, <2>2, GoOnStep
<1> QED
  BY <1>5, <1>6

\* The bytes of a chunk follow those before it.
LEMMA ChunkFollows ==
  ASSUME NEW h \in Nat, NEW a \in Nat, NEW n \in Nat, h <= a
  PROVE  [i \in 1..(a - h) |-> h + i - 1] \o [i \in 1..n |-> a + i - 1]
           = [i \in 1..(a + n - h) |-> h + i - 1]
<1> DEFINE u == [i \in 1..(a - h) |-> h + i - 1]
<1> DEFINE v == [i \in 1..n |-> a + i - 1]
<1> DEFINE w == [i \in 1..(a + n - h) |-> h + i - 1]
<1>1. PICK m \in Nat : m = a - h
  OBVIOUS
<1>2. u \in Seq(Int) /\ Len(u) = m /\ \A i \in 1..m : u[i] = h + i - 1
  BY <1>1
<1>3. v \in Seq(Int) /\ Len(v) = n /\ \A i \in 1..n : v[i] = a + i - 1
  OBVIOUS
<1>4. w \in Seq(Int) /\ Len(w) = m + n /\ \A i \in 1..(m + n) : w[i] = h + i - 1
  BY <1>1
<1> HIDE DEF u, v, w
<1>5. /\ u \o v \in Seq(Int) /\ Len(u \o v) = m + n
      /\ \A i \in 1..m : (u \o v)[i] = u[i]
      /\ \A i \in (m + 1)..(m + n) : (u \o v)[i] = v[i - m]
  BY <1>2, <1>3, SMTT(30)
<1>6. ASSUME NEW i \in 1..(m + n)
      PROVE  (u \o v)[i] = w[i]
  <2>1. CASE i <= m
    BY <1>2, <1>4, <1>5, <2>1
  <2>2. CASE m < i
    <3>1. i - m \in 1..n /\ i \in (m + 1)..(m + n)
      BY <2>2
    <3>2. v[i - m] = a + (i - m) - 1
      BY <1>3, <3>1
    <3> QED
      BY <1>1, <1>4, <1>5, <3>1, <3>2, SMTT(30)
  <2>3. i <= m \/ m < i
    OBVIOUS
  <2> QED
    BY <2>1, <2>2, <2>3, Zenon
<1> QED
  BY <1>4, <1>5, <1>6, SeqEqual DEF u, v, w

LEMMA SessionDataStep ==
  ASSUME IndInv, SessionData
  PROVE  IndInv'
<1>1. PICK s : s = cs
  OBVIOUS
<1>2. /\ call # "none" /\ Webtransport(s) /\ State.control_stream_id # -1
      /\ Return(State) /\ Move(State, hand + 1) /\ call' = "none" /\ UNCHANGED <<cs, rejected>>
      /\ UNCHANGED <<ctxVars, finished, processed>>
  BY <1>1 DEF SessionData, Return
<1>3. s \in Streams
  BY <1>1, <1>2, ContentsAssumption DEF IndInv, CallInv, TypeInv
<1>4. PICK d : data' = [data EXCEPT ![s] = d]
               /\ (State.path_callback =>
                     d = [bytes |-> data[s].bytes \o [i \in 1..Rest |-> at[s] + i - 1],
                          fin |-> data[s].fin \/ call = "fin"])
  <2>1. CASE State.path_callback
    BY <1>1, <2>1 DEF SessionData
  <2>2. CASE ~State.path_callback
    <3>1. data' = [data EXCEPT ![s] = data[s]]
      BY <1>3, <2>2 DEF SessionData, IndInv, TypeInv
    <3> QED
      BY <2>2, <3>1
  <2> QED
    BY <2>1, <2>2
<1>5. data' = [data EXCEPT ![s] = data'[s]] /\ data'[s] = d
  BY <1>3, <1>4 DEF IndInv, TypeInv
<1>6. ASSUME s \notin rejected
      PROVE  StreamInv(s)'
  <2>1. /\ State = st[s] /\ st[s] \in StateRecords /\ at[s] \in Nat \ {0} /\ hand \in Nat
        /\ at[s] <= hand + 1 /\ hand + 1 \in 1..(Len(content[s]) + 1) /\ Rest \in Nat
        /\ Rest = hand - at[s] + 1 /\ ~Between(s) /\ (s \in finished <=> call = "fin")
    BY <1>1, <1>2, <1>6, CallFacts
  <2>2. SessionAt(s) /\ st[s].stream_type # -1 /\ st[s].stream_type = Value(s, 1)
        /\ HeaderEnd(s) \in Nat \ {0}
    BY <1>1, <1>2, <1>6, WebtransportFacts
  <2>3. /\ st[s].path_callback /\ HeaderEnd(s) <= at[s]
        /\ data[s].bytes = [i \in 1..(at[s] - HeaderEnd(s)) |-> HeaderEnd(s) + i - 1]
        /\ ~data[s].fin
    BY <1>2, <2>1, <2>2 DEF SessionAt
  <2>4. st'[s] = st[s] /\ at'[s] = hand + 1
    BY <1>1, <1>2, <2>1, Moved
  <2>5. PICK h \in Nat : h = HeaderEnd(s)
    BY <2>2
  <2>6. PICK a \in Nat : a = at[s]
    BY <2>1
  <2>7. PICK n \in Nat : n = Rest
    BY <2>1
  <2>8. h <= a /\ hand + 1 = a + n /\ h <= a + n
    BY <2>1, <2>3, <2>5, <2>6, <2>7
  <2>9. d = [bytes |-> data[s].bytes \o [i \in 1..n |-> a + i - 1],
             fin |-> data[s].fin \/ call = "fin"]
    BY <1>4, <2>1, <2>3, <2>6, <2>7
  <2>10. d.bytes = [i \in 1..(a + n - h) |-> h + i - 1]
    <3>1. d.bytes = [i \in 1..(a - h) |-> h + i - 1] \o [i \in 1..n |-> a + i - 1]
      BY <2>3, <2>5, <2>6, <2>9
    <3> QED
      BY <2>8, <3>1, ChunkFollows
  <2>11. d.fin <=> s \in finished
    BY <2>1, <2>3, <2>9
  <2>12. /\ Len(content[s])' = Len(content[s]) /\ HeaderEnd(s)' = HeaderEnd(s)
         /\ Value(s, 1)' = Value(s, 1)
    BY <1>2, SameStream DEF ctxVars
  <2>13. Between(s)' /\ Webtransport(s)'
    BY <1>2, <2>4 DEF Between, Webtransport
  <2>14. SessionAt(s)'
    <3>1. at'[s] = a + n /\ HeaderEnd(s)' = h /\ data'[s] = d
      BY <1>5, <2>4, <2>5, <2>8, <2>12
    <3>2. data'[s].bytes = [i \in 1..(at'[s] - HeaderEnd(s)') |-> HeaderEnd(s)' + i - 1]
      BY <2>10, <3>1
    <3>3. data'[s].fin <=> s \in finished'
      BY <1>2, <2>11, <3>1
    <3>4. HeaderEnd(s)' <= at'[s]
      BY <2>8, <3>1
    <3>5. st'[s].control_stream_id # -1 /\ st'[s].path_callback
      BY <1>2, <2>1, <2>3, <2>4
    <3> QED
      BY <2>13, <3>2, <3>3, <3>4, <3>5 DEF SessionAt
  <2>15. /\ st'[s].stream_type # -1 /\ st'[s].stream_type = Value(s, 1)'
         /\ at'[s] \in 1..(Len(content[s])' + 1) /\ st'[s] \in StateRecords
    BY <2>1, <2>2, <2>4, <2>12
  <2> QED
    BY <2>13, <2>14, <2>15, SessionStream
<1>7. /\ content' = content /\ Grows(s) /\ \E S : processed' \in Seq(S)
      /\ (settings_received => settings_received')
  BY <1>2 DEF ctxVars, Grows, IndInv, TypeInv
<1>8. SettingsInv'
  BY <1>2 DEF IndInv, SettingsInv, ctxVars
<1> QED
  BY <1>1, <1>2, <1>5, <1>6, <1>7, <1>8, CallStep
-----------------------------------------------------------------------------
(* Control streams                                                         *)

LEMMA ControlStream ==
  ASSUME NEW s, s \in Unidirs, st'[s].stream_type = StreamControl, Value(s, 1)' = StreamControl,
         st'[s] \in StateRecords, at'[s] \in 1..(Len(content[s])' + 1),
         Between(s)' \/ (at'[s] <= hand' + 1 /\ hand' \in 0..Len(content[s])'),
         Allowed(s)', NEW c \in Nat, Boundary(s, c)', ControlAt(s, c)', HandledUpTo(s, c)'
  PROVE  StreamInv(s)'
<1>1. ~Webtransport(s)' /\ st'[s].stream_type # -1
  BY DEF Webtransport, StreamControl, StreamWebtransport
<1> QED
  BY <1>1 DEF StreamInv

\* Where the call is in its frame.
LEMMA ControlFacts ==
  ASSUME IndInv, NEW s, s = cs, Control, s \notin rejected
  PROVE  /\ call # "none" /\ s \in Unidirs /\ st[s].stream_type = StreamControl
         /\ Value(s, 1) = StreamControl /\ Allowed(s) /\ ~OfSession(s)
         /\ \E c \in Nat \ {0} :
              /\ Boundary(s, c) /\ ControlAt(s, c) /\ HandledUpTo(s, c)
              /\ c + Width(s, c) \in Nat \ {0}
              /\ FrameBody(s, c) = c + Width(s, c) + Width(s, c + Width(s, c))
              /\ FrameBody(s, c) \in Nat
<1>1. /\ call # "none" /\ s \in Unidirs /\ State.stream_type = StreamControl
  BY DEF Control
<1>2. StreamInv(s) /\ State = st[s] /\ Carries(s)
  BY <1>1, CallFacts
<1>3. /\ st[s].stream_type = StreamControl /\ Value(s, 1) = StreamControl /\ Allowed(s)
  BY <1>1, <1>2 DEF StreamInv, StreamControl
<1>4. ~OfSession(s)
  BY <1>3 DEF OfSession, StreamControl, StreamWebtransport
<1>5. PICK c \in Nat : Boundary(s, c) /\ ControlAt(s, c) /\ HandledUpTo(s, c)
  BY <1>1, <1>2, <1>3 DEF StreamInv
<1>6. c \in Nat \ {0}
  <2>1. 1 + Width(s, 1) <= c /\ Width(s, 1) \in Nat \ {0}
    BY <1>2, <1>5, Chain, ByteFacts
  <2> QED
    BY <2>1
<1>7. /\ Width(s, c) \in Nat \ {0} /\ FrameBody(s, c) \in Nat
      /\ FrameBody(s, c) = c + Width(s, c) + Width(s, c + Width(s, c))
  BY <1>2, <1>6, ByteFacts
<1>8. c + Width(s, c) \in Nat \ {0}
  BY <1>6, <1>7
<1> QED
  BY <1>1, <1>3, <1>4, <1>5, <1>6, <1>7, <1>8

LEMMA FrameTypeStep ==
  ASSUME IndInv, FrameType
  PROVE  IndInv'
<1>1. PICK s : s = cs
  OBVIOUS
<1> DEFINE known == [Known EXCEPT !.current_frame_type = Varint]
<1> DEFINE new == [known EXCEPT !.is_current_frame_ignored = @ \/ Varint # FrameSettings]
<1>2. /\ Control /\ State.current_frame_type = -1 /\ VarintComplete
      /\ UNCHANGED <<ctxVars, finished, data, processed>>
      /\ IF FrameAllowed(Varint) THEN Continue(new, VarintEnd) ELSE Reject(known)
  BY DEF FrameType
<1> HIDE DEF new, known
<1>3. CASE ~FrameAllowed(Varint)
  <2>1. Reject(known) /\ call # "none"
    BY <1>2, <1>3 DEF Control
  <2>2. cs \in rejected \/ ~OfSession(cs)
    BY <1>1, <1>2, ControlFacts
  <2> QED
    BY <1>2, <2>1, <2>2, RejectStep
<1>4. CASE FrameAllowed(Varint)
  <2>1. /\ Continue(new, VarintEnd) /\ Move(new, VarintEnd) /\ UNCHANGED <<callVars, rejected>>
        /\ call # "none"
    BY <1>2, <1>4 DEF Continue, Control
  <2>2. ASSUME s \notin rejected
        PROVE  StreamInv(s)'
    <3>1. /\ State = st[s] /\ ~Between(s) /\ hand \in Nat /\ hand <= Len(content[s])
          /\ Len(content[s]) \in Nat /\ Carries(s)
      BY <1>1, <2>1, <2>2, CallFacts
    <3>2. PICK x \in StateRecords : x = st[s]
      BY <1>1, <2>1, <2>2, CallFacts
    <3>3. PICK c \in Nat \ {0} :
              /\ Boundary(s, c) /\ ControlAt(s, c) /\ HandledUpTo(s, c)
              /\ c + Width(s, c) \in Nat \ {0}
      BY <1>1, <1>2, <2>2, ControlFacts
    <3>4. /\ s \in Unidirs /\ x.stream_type = StreamControl /\ Value(s, 1) = StreamControl
      BY <1>1, <1>2, <2>2, <3>2, ControlFacts
    <3>5. /\ x.current_frame_type = -1 /\ x.current_frame_length = -1
          /\ x.current_frame_read = 0 /\ Gathering(s, c)
      BY <1>2, <3>1, <3>2, <3>3 DEF ControlAt
    <3>6. PICK v \in Nat : v = Varint /\ v = Value(s, c)
      BY <1>1, <1>2, <2>1, <2>2, <3>5, VarintFacts
    <3>7. PICK e \in Nat \ {0} : e = c + Width(s, c) /\ e = VarintEnd /\ e <= hand + 1
      BY <1>1, <1>2, <2>1, <2>2, <3>3, <3>5, VarintFacts
    <3>8. e < e + Width(s, e)
      <4>1. Width(s, e) \in Nat \ {0}
        BY <3>1, ByteFacts
      <4> QED
        BY <4>1
    <3>9. PICK y : y = st'[s] /\ y = new /\ at'[s] = e
      BY <1>1, <2>1, <3>7, Moved
    <3>10. PICK b : b = (x.is_current_frame_ignored \/ v # FrameSettings)
      OBVIOUS
    <3>11. PICK a1 : a1 = [x EXCEPT !.frame_header_read = 0]
      OBVIOUS
    <3>12. PICK a2 : a2 = [a1 EXCEPT !.current_frame_type = v]
      OBVIOUS
    <3>13. a1 \in StateRecords
      BY <3>11 DEF StateRecords
    <3>14. a2 \in StateRecords
      BY <3>12, <3>13 DEF StateRecords
    <3>15. y = [a2 EXCEPT !.is_current_frame_ignored = b]
      <4>1. a2.is_current_frame_ignored = x.is_current_frame_ignored
        BY <3>11, <3>12 DEF StateRecords
      <4>2. a2 = known
        BY <3>1, <3>2, <3>6, <3>11, <3>12 DEF known, Known
      <4> QED
        BY <3>6, <3>9, <3>10, <4>1, <4>2 DEF new
    <3>16. y \in StateRecords
      <4>1. b \in BOOLEAN
        BY <3>10
      <4> QED
        BY <3>14, <3>15, <4>1 DEF StateRecords
    <3>17. /\ y.stream_type = x.stream_type /\ y.current_frame_type = v /\ y.frame_header_read = 0
           /\ y.current_frame_length = x.current_frame_length
           /\ y.current_frame_read = x.current_frame_read
      <4>1. /\ y.stream_type = a2.stream_type /\ y.current_frame_type = a2.current_frame_type
            /\ y.frame_header_read = a2.frame_header_read
            /\ y.current_frame_length = a2.current_frame_length
            /\ y.current_frame_read = a2.current_frame_read
        BY <3>14, <3>15 DEF StateRecords
      <4>2. /\ a2.stream_type = x.stream_type /\ a2.current_frame_type = v
            /\ a2.frame_header_read = 0
            /\ a2.current_frame_length = x.current_frame_length
            /\ a2.current_frame_read = x.current_frame_read
        BY <3>11, <3>12 DEF StateRecords
      <4> QED
        BY <4>1, <4>2
    <3>18. /\ Len(content[s])' = Len(content[s]) /\ Boundary(s, c)' = Boundary(s, c)
           /\ HandledUpTo(s, c)' = HandledUpTo(s, c)
           /\ Value(s, 1)' = Value(s, 1) /\ Value(s, c)' = Value(s, c)
           /\ Width(s, c)' = Width(s, c) /\ Width(s, e)' = Width(s, e)
      BY <1>2, SameStream DEF ctxVars
    <3>19. Gathering(s, c + Width(s, c))'
      <4>1. Gathering(s, e)'
        BY <3>8, <3>9, <3>17, <3>18 DEF Gathering
      <4> QED
        BY <3>7, <3>18, <4>1
    <3>20. ControlAt(s, c)'
      <4>1. v # -1
        BY <3>6
      <4> QED
        BY <3>5, <3>6, <3>9, <3>17, <3>18, <3>19, <4>1 DEF ControlAt
    <3>21. Allowed(s)'
      <4>1. v # FrameSettings => settings_received /\ v \notin Requests
        BY <1>4, <3>6 DEF FrameAllowed, Requests
      <4> QED
        BY <1>2, <3>9, <3>17, <4>1 DEF Allowed, ctxVars
    <3>22. at'[s] \in 1..(Len(content[s])' + 1) /\ at'[s] <= hand' + 1 /\ hand' \in 0..Len(content[s])'
      <4>1. e \in 1..(Len(content[s]) + 1) /\ hand \in 0..Len(content[s])
        BY <3>1, <3>7
      <4> QED
        BY <2>1, <3>7, <3>9, <3>18, <4>1 DEF callVars
    <3>23. /\ st'[s].stream_type = StreamControl /\ Value(s, 1)' = StreamControl
           /\ st'[s] \in StateRecords /\ Boundary(s, c)' /\ HandledUpTo(s, c)'
      BY <3>3, <3>4, <3>9, <3>16, <3>17, <3>18
    <3> QED
      BY <3>4, <3>20, <3>21, <3>22, <3>23, ControlStream
  <2> QED
    BY <1>1, <1>2, <2>1, <2>2, GoOnStep
<1> QED
  BY <1>3, <1>4

LEMMA FrameLengthStep ==
  ASSUME IndInv, FrameLength
  PROVE  IndInv'
<1>1. PICK s : s = cs
  OBVIOUS
<1> DEFINE new == [Known EXCEPT !.current_frame_length = Varint]
<1>2. /\ Control /\ State.current_frame_type # -1 /\ State.current_frame_length = -1
      /\ VarintComplete /\ Continue(new, VarintEnd)
      /\ UNCHANGED <<ctxVars, finished, data, processed>>
  BY DEF FrameLength
<1> HIDE DEF new
<1>3. Move(new, VarintEnd) /\ UNCHANGED <<callVars, rejected>> /\ call # "none"
  BY <1>2 DEF Continue, Control
<1>4. ASSUME s \notin rejected
      PROVE  StreamInv(s)'
  <2>1. /\ State = st[s] /\ ~Between(s) /\ hand \in Nat /\ hand <= Len(content[s])
        /\ Len(content[s]) \in Nat /\ Carries(s)
    BY <1>1, <1>3, <1>4, CallFacts
  <2>2. PICK x \in StateRecords : x = st[s]
    BY <1>1, <1>3, <1>4, CallFacts
  <2>3. PICK c \in Nat \ {0} :
            /\ Boundary(s, c) /\ ControlAt(s, c) /\ HandledUpTo(s, c)
            /\ c + Width(s, c) \in Nat \ {0}
            /\ FrameBody(s, c) = c + Width(s, c) + Width(s, c + Width(s, c))
            /\ FrameBody(s, c) \in Nat
    BY <1>1, <1>2, <1>4, ControlFacts
  <2>4. /\ s \in Unidirs /\ x.stream_type = StreamControl /\ Value(s, 1) = StreamControl
        /\ Allowed(s)
    BY <1>1, <1>2, <1>4, <2>2, ControlFacts
  <2>5. PICK l \in Nat \ {0} : l = c + Width(s, c)
    BY <2>3
  <2>6. /\ x.current_frame_type # -1 /\ x.current_frame_type = Value(s, c)
        /\ x.current_frame_read = 0 /\ Gathering(s, l)
    BY <1>2, <2>1, <2>2, <2>3, <2>5 DEF ControlAt
  <2>7. PICK v \in Nat : v = Varint /\ v = Value(s, l)
    BY <1>1, <1>2, <1>3, <1>4, <2>6, VarintFacts
  <2>8. PICK e \in Nat \ {0} : e = FrameBody(s, c) /\ e = VarintEnd /\ e <= hand + 1
    <3>1. /\ VarintEnd = l + Width(s, l) /\ l + Width(s, l) <= hand + 1
          /\ Width(s, l) \in Nat \ {0}
      BY <1>1, <1>2, <1>3, <1>4, <2>6, VarintFacts
    <3>2. FrameBody(s, c) = l + Width(s, l)
      BY <2>3, <2>5
    <3> QED
      BY <3>1, <3>2
  <2>9. PICK y : y = st'[s] /\ y = new /\ at'[s] = e
    BY <1>1, <1>3, <2>8, Moved
  <2>10. PICK a : a = [x EXCEPT !.frame_header_read = 0]
    OBVIOUS
  <2>11. a \in StateRecords
    BY <2>10 DEF StateRecords
  <2>12. y = [a EXCEPT !.current_frame_length = v]
    BY <2>1, <2>2, <2>7, <2>9, <2>10 DEF new, Known
  <2>13. y \in StateRecords
    BY <2>11, <2>12 DEF StateRecords
  <2>14. /\ y.stream_type = x.stream_type /\ y.current_frame_type = x.current_frame_type
         /\ y.frame_header_read = 0 /\ y.current_frame_length = v
         /\ y.current_frame_read = x.current_frame_read
    BY <2>10, <2>12 DEF StateRecords
  <2>15. /\ Len(content[s])' = Len(content[s]) /\ Boundary(s, c)' = Boundary(s, c)
         /\ HandledUpTo(s, c)' = HandledUpTo(s, c) /\ FrameBody(s, c)' = FrameBody(s, c)
         /\ Value(s, 1)' = Value(s, 1) /\ Value(s, c)' = Value(s, c)
         /\ Width(s, c)' = Width(s, c) /\ Value(s, l)' = Value(s, l)
    BY <1>2, SameStream DEF ctxVars
  <2>16. ~Between(s)'
    BY <1>3, <2>1 DEF Between, callVars
  <2>17. ControlAt(s, c)'
    <3>1. v # -1 /\ 0 <= v /\ e = e + 0
      BY <2>7
    <3>2. Value(s, c + Width(s, c))' = v
      BY <2>5, <2>7, <2>15
    <3>3. /\ st'[s].current_frame_length = v /\ st'[s].current_frame_read = 0
          /\ st'[s].frame_header_read = 0 /\ at'[s] = e /\ FrameBody(s, c)' = e
          /\ st'[s].current_frame_type # -1 /\ st'[s].current_frame_type = Value(s, c)'
      BY <2>6, <2>8, <2>9, <2>14, <2>15
    <3>4. at'[s] = FrameBody(s, c)' + st'[s].current_frame_read
          /\ st'[s].current_frame_read <= st'[s].current_frame_length
      BY <3>1, <3>3
    <3> QED
      BY <2>16, <3>1, <3>2, <3>3, <3>4, Zenon DEF ControlAt
  <2>18. Allowed(s)'
    BY <1>2, <2>2, <2>4, <2>9, <2>14 DEF Allowed, ctxVars
  <2>19. at'[s] \in 1..(Len(content[s])' + 1) /\ at'[s] <= hand' + 1 /\ hand' \in 0..Len(content[s])'
    <3>1. e \in 1..(Len(content[s]) + 1) /\ hand \in 0..Len(content[s])
      BY <2>1, <2>8
    <3> QED
      BY <1>3, <2>8, <2>9, <2>15, <3>1 DEF callVars
  <2>20. /\ st'[s].stream_type = StreamControl /\ Value(s, 1)' = StreamControl
         /\ st'[s] \in StateRecords /\ Boundary(s, c)' /\ HandledUpTo(s, c)'
    BY <2>3, <2>4, <2>9, <2>13, <2>14, <2>15
  <2> QED
    BY <2>4, <2>17, <2>18, <2>19, <2>20, ControlStream
<1> QED
  BY <1>1, <1>2, <1>3, <1>4, GoOnStep

LEMMA FrameHeaderCutStep ==
  ASSUME IndInv, FrameHeaderCut
  PROVE  IndInv'
<1>1. PICK s : s = cs
  OBVIOUS
<1>2. /\ Control /\ ~VarintComplete /\ Return(Gather) /\ Move(Gather, hand + 1)
      /\ State.current_frame_type = -1 \/ State.current_frame_length = -1
      /\ UNCHANGED <<ctxVars, finished, data, processed>> /\ call' = "none" /\ call # "none"
  BY DEF FrameHeaderCut, Return, Control
<1>3. ASSUME s \notin rejected
      PROVE  StreamInv(s)'
  <2>1. /\ State = st[s] /\ hand + 1 \in 1..(Len(content[s]) + 1)
    BY <1>1, <1>2, <1>3, CallFacts
  <2>2. PICK x \in StateRecords : x = st[s]
    BY <1>1, <1>2, <1>3, CallFacts
  <2>3. PICK c \in Nat \ {0} :
            /\ Boundary(s, c) /\ ControlAt(s, c) /\ HandledUpTo(s, c)
            /\ c + Width(s, c) \in Nat \ {0}
    BY <1>1, <1>2, <1>3, ControlFacts
  <2>4. /\ s \in Unidirs /\ x.stream_type = StreamControl /\ Value(s, 1) = StreamControl
        /\ Allowed(s)
    BY <1>1, <1>2, <1>3, <2>2, ControlFacts
  <2>5. x.current_frame_length = -1 /\ x.current_frame_read = 0
    BY <1>2, <2>1, <2>2, <2>3 DEF ControlAt
  <2>6. PICK v \in Nat \ {0} : /\ Gathering(s, v)
                               /\ v = IF x.current_frame_type = -1 THEN c ELSE c + Width(s, c)
    <3>1. CASE x.current_frame_type = -1
      <4>1. Gathering(s, c)
        BY <2>2, <2>3, <3>1 DEF ControlAt
      <4> QED
        BY <3>1, <4>1
    <3>2. CASE x.current_frame_type # -1
      <4>1. Gathering(s, c + Width(s, c))
        BY <2>2, <2>3, <2>5, <3>2 DEF ControlAt
      <4> QED
        BY <2>3, <3>2, <4>1
    <3> QED
      BY <3>1, <3>2
  <2>7. /\ Gathering(s, v)' /\ st'[s] \in StateRecords /\ at'[s] = hand + 1
        /\ st'[s] = [st[s] EXCEPT !.frame_header_read = st'[s].frame_header_read]
    BY <1>1, <1>2, <1>3, <2>6, GatherMore DEF ctxVars
  <2>8. PICK y \in StateRecords : y = st'[s]
    BY <2>7
  <2>9. /\ y.stream_type = x.stream_type /\ y.current_frame_type = x.current_frame_type
        /\ y.current_frame_length = x.current_frame_length
        /\ y.current_frame_read = x.current_frame_read
    <3>1. y = [x EXCEPT !.frame_header_read = y.frame_header_read]
      BY <2>2, <2>7, <2>8
    <3> QED
      BY <3>1 DEF StateRecords
  <2>10. /\ Len(content[s])' = Len(content[s]) /\ Boundary(s, c)' = Boundary(s, c)
         /\ HandledUpTo(s, c)' = HandledUpTo(s, c) /\ Value(s, 1)' = Value(s, 1)
         /\ Value(s, c)' = Value(s, c) /\ Width(s, c)' = Width(s, c)
    BY <1>2, SameStream DEF ctxVars
  <2>11. ControlAt(s, c)'
    <3>1. x.current_frame_type # -1 => x.current_frame_type = Value(s, c)'
      BY <2>2, <2>3, <2>10 DEF ControlAt
    <3>2. y.current_frame_type = -1 => Gathering(s, c)'
      BY <2>6, <2>7, <2>9
    <3>3. y.current_frame_type # -1 => Gathering(s, c + Width(s, c))'
      BY <2>6, <2>7, <2>9, <2>10
    <3> QED
      BY <2>5, <2>8, <2>9, <3>1, <3>2, <3>3 DEF ControlAt
  <2>12. Allowed(s)'
    BY <1>2, <2>2, <2>4, <2>8, <2>9 DEF Allowed, ctxVars
  <2>13. Between(s)'
    BY <1>2 DEF Between
  <2>14. /\ st'[s].stream_type = StreamControl /\ Value(s, 1)' = StreamControl
         /\ Boundary(s, c)' /\ HandledUpTo(s, c)' /\ at'[s] \in 1..(Len(content[s])' + 1)
    BY <2>1, <2>3, <2>4, <2>7, <2>8, <2>9, <2>10
  <2> QED
    BY <2>4, <2>7, <2>11, <2>12, <2>13, <2>14, ControlStream
<1> QED
  BY <1>1, <1>2, <1>3, ReturnStep

\* The call has a bytes, of n at hand, of the body that is l bytes long, behind r others.
BodyAt(s, c, l, r, a, n) ==
  /\ Boundary(s, c) /\ HandledUpTo(s, c) /\ st[s].current_frame_type = Value(s, c)
  /\ l = st[s].current_frame_length /\ l = Value(s, c + Width(s, c))
  /\ r = st[s].current_frame_read /\ r <= l /\ a = Available /\ n = Rest
  /\ at[s] = FrameBody(s, c) + r /\ r + a <= l
  /\ hand + 1 = at[s] + n /\ a <= n
  /\ BodyComplete <=> r + a = l
  /\ ~BodyComplete => a = n
  /\ st[s].frame_header_read = 0 /\ FrameBody(s, c) \in Nat \ {0}

\* How much of the body of its frame a call has.
LEMMA BodyFacts ==
  ASSUME IndInv, NEW s, s = cs, InBody, s \notin rejected
  PROVE  \E c \in Nat \ {0}, l \in Nat, r \in Nat, a \in Nat, n \in Nat :
           BodyAt(s, c, l, r, a, n)
<1>1. Control /\ State.current_frame_type # -1 /\ State.current_frame_length # -1
  BY DEF InBody
<1>2. PICK c \in Nat \ {0} :
          /\ Boundary(s, c) /\ ControlAt(s, c) /\ HandledUpTo(s, c)
          /\ c + Width(s, c) \in Nat \ {0} /\ FrameBody(s, c) \in Nat
  BY <1>1, ControlFacts
<1>3. call # "none"
  BY <1>1 DEF Control
<1>4. /\ State = st[s] /\ at[s] \in Nat \ {0} /\ hand \in Nat /\ at[s] <= hand + 1 /\ Rest \in Nat
      /\ Rest = hand - at[s] + 1 /\ Carries(s)
  BY <1>3, CallFacts
<1>5. PICK x \in StateRecords : x = st[s]
  BY <1>3, CallFacts
<1>6. /\ x.current_frame_type = Value(s, c) /\ x.current_frame_length = Value(s, c + Width(s, c))
      /\ x.frame_header_read = 0 /\ at[s] = FrameBody(s, c) + x.current_frame_read
      /\ x.current_frame_read <= x.current_frame_length
  BY <1>1, <1>2, <1>4, <1>5 DEF ControlAt
<1>7. PICK l \in Nat : l = x.current_frame_length
  BY <1>2, <1>4, <1>6, ByteFacts
<1>8. PICK r \in Nat : r = x.current_frame_read
  BY DEF StateRecords
<1>9. PICK n \in Nat : n = Rest
  BY <1>4
<1>10. Available = IF n < l - r THEN n ELSE l - r
  BY <1>4, <1>5, <1>7, <1>8, <1>9 DEF Available, Smaller
<1>11. PICK a \in Nat : /\ a = Available /\ a <= n /\ r + a <= l
                        /\ r + a # l => a = n
  BY <1>6, <1>7, <1>8, <1>10
<1>12. BodyComplete <=> r + a = l
  <2>1. BodyComplete <=> r + a >= l
    BY <1>4, <1>5, <1>7, <1>8, <1>11 DEF BodyComplete
  <2> QED
    BY <1>11, <2>1
<1>13. hand + 1 = at[s] + n
  BY <1>4, <1>9
<1>14. FrameBody(s, c) \in Nat \ {0}
  <2>1. c + Width(s, c) < FrameBody(s, c)
    BY <1>2, <1>4, ByteFacts
  <2> QED
    BY <1>2, <2>1
<1> QED
  BY <1>2, <1>5, <1>6, <1>7, <1>8, <1>9, <1>11, <1>12, <1>13, <1>14 DEF BodyAt

LEMMA BodyRefusedStep ==
  ASSUME IndInv, BodyRefused
  PROVE  IndInv'
<1>1. /\ Control /\ call # "none" /\ Reject(State) /\ UNCHANGED <<ctxVars, finished, data, processed>>
  BY DEF BodyRefused, InBody, Control
<1>2. cs \in rejected \/ ~OfSession(cs)
  BY <1>1, ControlFacts
<1> QED
  BY <1>1, <1>2, RejectStep

LEMMA BodyCutStep ==
  ASSUME IndInv, BodyCut
  PROVE  IndInv'
<1>1. PICK s : s = cs
  OBVIOUS
<1> DEFINE new == [State EXCEPT !.current_frame_read = @ + Available, !.current_frame = Kept]
<1>2. /\ InBody /\ ~BodyComplete /\ Return(new)
      /\ UNCHANGED <<ctxVars, finished, data, processed>>
  BY DEF BodyCut
<1> HIDE DEF new
<1>3. Move(new, hand + 1) /\ call' = "none" /\ call # "none" /\ Control
      /\ State.current_frame_type # -1 /\ State.current_frame_length # -1
  BY <1>2 DEF Return, InBody, Control
<1>4. ASSUME s \notin rejected
      PROVE  StreamInv(s)'
  <2>1. /\ State = st[s] /\ hand + 1 \in 1..(Len(content[s]) + 1)
    BY <1>1, <1>3, <1>4, CallFacts
  <2>2. PICK x \in StateRecords : x = st[s]
    BY <1>1, <1>3, <1>4, CallFacts
  <2>0. PICK c \in Nat \ {0}, l \in Nat, r \in Nat, a \in Nat, n \in Nat :
             BodyAt(s, c, l, r, a, n)
    BY <1>1, <1>2, <1>4, BodyFacts
  <2>3. /\ Boundary(s, c) /\ HandledUpTo(s, c) /\ st[s].current_frame_type = Value(s, c)
        /\ l = st[s].current_frame_length /\ l = Value(s, c + Width(s, c))
        /\ r = st[s].current_frame_read /\ r <= l /\ a = Available /\ n = Rest
        /\ at[s] = FrameBody(s, c) + r /\ r + a <= l
        /\ hand + 1 = at[s] + n /\ a <= n
        /\ BodyComplete <=> r + a = l
        /\ ~BodyComplete => a = n
        /\ st[s].frame_header_read = 0 /\ FrameBody(s, c) \in Nat \ {0}
    BY <2>0 DEF BodyAt
  <2>4. /\ s \in Unidirs /\ x.stream_type = StreamControl /\ Value(s, 1) = StreamControl
        /\ Allowed(s)
    BY <1>1, <1>3, <1>4, <2>2, ControlFacts
  <2>5. PICK m \in Nat : m = r + a /\ m < l /\ hand + 1 = FrameBody(s, c) + m
    BY <1>2, <2>3
  <2>6. PICK k : k = Kept
    OBVIOUS
  <2>7. k \in BOOLEAN
    BY <2>6 DEF Kept
  <2>8. PICK y : y = st'[s] /\ y = new /\ at'[s] = hand + 1
    BY <1>1, <1>3, Moved
  <2>9. PICK b : b = [x EXCEPT !.current_frame_read = m]
    OBVIOUS
  <2>10. b \in StateRecords
    BY <2>9 DEF StateRecords
  <2>11. y = [b EXCEPT !.current_frame = k]
    <3>1. x.current_frame_read + Available = m
      BY <2>2, <2>3, <2>5
    <3>2. new = [x EXCEPT !.current_frame_read = x.current_frame_read + Available, !.current_frame = k]
      BY <2>1, <2>2, <2>6 DEF new, StateRecords
    <3> QED
      BY <2>8, <2>9, <3>1, <3>2
  <2>12. y \in StateRecords
    BY <2>7, <2>10, <2>11 DEF StateRecords
  <2>13. /\ y.stream_type = x.stream_type /\ y.current_frame_type = x.current_frame_type
         /\ y.frame_header_read = x.frame_header_read /\ y.current_frame_read = m
         /\ y.current_frame_length = x.current_frame_length
    BY <2>9, <2>11 DEF StateRecords
  <2>14. /\ Len(content[s])' = Len(content[s]) /\ Boundary(s, c)' = Boundary(s, c)
         /\ HandledUpTo(s, c)' = HandledUpTo(s, c) /\ FrameBody(s, c)' = FrameBody(s, c)
         /\ Value(s, 1)' = Value(s, 1) /\ Value(s, c)' = Value(s, c)
         /\ Width(s, c)' = Width(s, c)
         /\ Value(s, c + Width(s, c))' = Value(s, c + Width(s, c))
    BY <1>2, SameStream DEF ctxVars
  <2>15. ControlAt(s, c)'
    <3>1. /\ st'[s].current_frame_type # -1 /\ st'[s].current_frame_type = Value(s, c)'
          /\ st'[s].current_frame_length # -1 /\ st'[s].frame_header_read = 0
          /\ st'[s].current_frame_length = Value(s, c + Width(s, c))'
      BY <1>3, <2>1, <2>2, <2>3, <2>8, <2>13, <2>14
    <3>2. /\ at'[s] = FrameBody(s, c)' + st'[s].current_frame_read
          /\ st'[s].current_frame_read < st'[s].current_frame_length
      BY <2>2, <2>3, <2>5, <2>8, <2>13, <2>14
    <3>3. m <= l /\ st'[s].current_frame_read = m /\ st'[s].current_frame_length = l
      BY <2>2, <2>3, <2>5, <2>8, <2>13
    <3>4. st'[s].current_frame_read <= st'[s].current_frame_length
      BY <3>3
    <3> QED
      BY <3>1, <3>2, <3>4, Zenon DEF ControlAt
  <2>16. Allowed(s)'
    BY <1>2, <2>2, <2>4, <2>8, <2>13 DEF Allowed, ctxVars
  <2>17. Between(s)'
    BY <1>3 DEF Between
  <2>18. /\ st'[s].stream_type = StreamControl /\ Value(s, 1)' = StreamControl
         /\ Boundary(s, c)' /\ HandledUpTo(s, c)' /\ at'[s] \in 1..(Len(content[s])' + 1)
         /\ st'[s] \in StateRecords
    BY <2>1, <2>3, <2>4, <2>8, <2>12, <2>13, <2>14
  <2> QED
    BY <2>4, <2>15, <2>16, <2>17, <2>18, ControlStream
<1> QED
  BY <1>1, <1>2, <1>3, <1>4, ReturnStep

\* The frame at c has been handled too.
LEMMA OneMoreHandled ==
  ASSUME NEW s, Carries(s), NEW S, processed \in Seq(S), NEW rec, processed' = Append(processed, rec),
         content' = content, NEW c \in FrameStarts(s), HandledUpTo(s, c),
         rec.stream = s, rec.body = FrameBody(s, c), rec.type = Value(s, c)
  PROVE  HandledUpTo(s, FrameEnd(s, c))'
<1>1. PICK n \in Nat : n = Len(processed)
  OBVIOUS
<1>2. /\ Len(processed') = n + 1 /\ processed'[n + 1] = rec
      /\ \A i \in 1..n : processed'[i] = processed[i]
  BY <1>1
<1>3. \A i : i \in 1..(n + 1) <=> i \in 1..n \/ i = n + 1
  OBVIOUS
<1>4. \A i : i \in Mine(s)' <=> i \in Mine(s) \/ i = n + 1
  <2>1. \A i : i \in Mine(s) <=> i \in 1..n /\ processed[i].stream = s
    BY <1>1 DEF Mine
  <2>2. \A i : i \in Mine(s)' <=> i \in 1..(n + 1) /\ processed'[i].stream = s
    BY <1>2 DEF Mine
  <2> QED
    BY <1>2, <1>3, <2>1, <2>2
<1>5. Mine(s) \subseteq 1..n
  BY <1>1 DEF Mine
<1>6. PICK e \in Nat : /\ e = FrameEnd(s, c) /\ c < e
                       /\ \A q \in FrameStarts(s) : q < e <=> (q < c \/ q = c)
  BY NextFrame
<1>7. /\ FrameStarts(s)' = FrameStarts(s)
      /\ \A q : FrameBody(s, q)' = FrameBody(s, q) /\ Value(s, q)' = Value(s, q)
                /\ FrameEnd(s, q)' = FrameEnd(s, q)
  BY ContentFixed
<1>8. \A i \in Mine(s) : \A q : IsOf(i, s, q)' <=> IsOf(i, s, q)
  BY <1>2, <1>5, <1>7 DEF IsOf
<1>9. IsOf(n + 1, s, c)'
  BY <1>2, <1>7 DEF IsOf
<1>10. ASSUME NEW i \in Mine(s)'
       PROVE  \E q \in FrameStarts(s)' : q < e /\ IsOf(i, s, q)'
  <2>1. CASE i \in Mine(s)
    <3>1. PICK q \in FrameStarts(s) : q < c /\ IsOf(i, s, q)
      BY <2>1 DEF HandledUpTo
    <3>2. q < e
      BY <1>6, <3>1
    <3> QED
      BY <1>7, <1>8, <2>1, <3>1, <3>2
  <2>2. CASE i = n + 1
    BY <1>6, <1>7, <1>9, <2>2
  <2> QED
    BY <1>4, <2>1, <2>2
<1>11. ASSUME NEW q \in FrameStarts(s)', q < e
       PROVE  \E i \in Mine(s)' : IsOf(i, s, q)'
  <2>1. q < c \/ q = c
    BY <1>6, <1>7, <1>11
  <2>2. CASE q < c
    <3>1. PICK i \in Mine(s) : IsOf(i, s, q)
      BY <1>7, <2>2 DEF HandledUpTo
    <3> QED
      BY <1>4, <1>8, <3>1
  <2>3. CASE q = c
    BY <1>4, <1>9, <2>3
  <2> QED
    BY <2>1, <2>2, <2>3
<1>12. ASSUME NEW i \in Mine(s)', NEW j \in Mine(s)', i < j
       PROVE  processed'[i].body < processed'[j].body
  <2>1. i \in 1..(n + 1) /\ j \in 1..(n + 1)
    BY <1>3, <1>4, <1>5
  <2>2. i # n + 1 /\ i \in Mine(s)
    BY <1>4, <1>12, <2>1
  <2>3. CASE j \in Mine(s)
    BY <1>2, <1>5, <1>12, <2>2, <2>3 DEF HandledUpTo
  <2>4. CASE j = n + 1
    <3>1. PICK q \in FrameStarts(s) : q < c /\ IsOf(i, s, q)
      BY <2>2 DEF HandledUpTo
    <3>2. processed'[i].body = FrameBody(s, q) /\ processed'[j].body = FrameBody(s, c)
      BY <1>2, <1>5, <2>2, <2>4, <3>1 DEF IsOf
    <3>3. /\ FrameBody(s, q) \in Nat /\ FrameEnd(s, q) \in Nat /\ FrameBody(s, q) <= FrameEnd(s, q)
          /\ c \in Nat /\ Boundary(s, c) /\ FrameBody(s, c) \in Nat /\ c < FrameBody(s, c)
      BY StartFacts
    <3>4. FrameEnd(s, q) <= c
      BY <3>1, <3>3, Chain
    <3>5. FrameBody(s, q) < FrameBody(s, c)
      BY <3>3, <3>4
    <3> QED
      BY <3>2, <3>5
  <2> QED
    BY <1>4, <2>3, <2>4
<1>13. FrameEnd(s, c)' = e
  BY <1>6, <1>7
<1> QED
  BY <1>10, <1>11, <1>12, <1>13 DEF HandledUpTo

\* The stream whose frame is over and not refused.
LEMMA FrameOver ==
  ASSUME IndInv, NEW s, s = cs, s \notin rejected, InBody, BodyComplete, NEW S, processed \in Seq(S),
         NEW rec, rec.stream = s, rec.body = at[s] + Available - State.current_frame_length,
         rec.type = State.current_frame_type, processed' = Append(processed, rec),
         Continue(ResetFrame(State), at[s] + Available), content' = content
  PROVE  StreamInv(s)'
<1>1. /\ call # "none" /\ Control /\ Move(ResetFrame(State), at[s] + Available)
      /\ UNCHANGED <<callVars, rejected>>
  BY DEF InBody, Control, Continue
<1>2. /\ State = st[s] /\ ~Between(s) /\ hand \in Nat /\ hand <= Len(content[s])
      /\ Len(content[s]) \in Nat /\ Carries(s)
  BY <1>1, CallFacts
<1>3. PICK x \in StateRecords : x = st[s]
  BY <1>1, CallFacts
<1>4. PICK c \in Nat \ {0}, l \in Nat, r \in Nat, a \in Nat, n \in Nat :
         BodyAt(s, c, l, r, a, n)
  BY BodyFacts
<1>5. /\ Boundary(s, c) /\ HandledUpTo(s, c) /\ x.current_frame_type = Value(s, c)
      /\ l = x.current_frame_length /\ l = Value(s, c + Width(s, c)) /\ x.frame_header_read = 0
      /\ at[s] = FrameBody(s, c) + r /\ r + a = l /\ a = Available
      /\ hand + 1 = at[s] + n /\ a <= n /\ FrameBody(s, c) \in Nat \ {0}
  BY <1>3, <1>4 DEF BodyAt
<1>6. /\ s \in Unidirs /\ x.stream_type = StreamControl /\ Value(s, 1) = StreamControl
  BY <1>1, <1>3, ControlFacts
<1>7. PICK b \in Nat \ {0} : b = FrameBody(s, c) /\ c < b
  <2>1. Width(s, c) \in Nat \ {0} /\ c + Width(s, c) < FrameBody(s, c)
    BY <1>2, ByteFacts
  <2>2. c < FrameBody(s, c)
    BY <1>5, <2>1
  <2> QED
    BY <1>5, <2>2
<1>8. PICK e \in Nat \ {0} : /\ e = FrameEnd(s, c) /\ e = at[s] + Available /\ e <= hand + 1
                             /\ rec.body = b
  <2>1. FrameEnd(s, c) = b + l
    BY <1>2, <1>5, <1>7, ByteFacts
  <2>2. at[s] + Available = b + l
    <3>1. at[s] + Available = (b + r) + a
      BY <1>5, <1>7
    <3> QED
      BY <1>5, <3>1
  <2>4. b + l <= hand + 1
    <3>1. hand + 1 = (b + r) + n
      BY <1>5, <1>7
    <3> QED
      BY <1>2, <1>5, <3>1
  <2>3. PICK z : z = at[s] + Available /\ rec.body = z - l
    BY <1>2, <1>3, <1>5, SMTT(30)
  <2>5. PICK e \in Nat \ {0} : e = b + l /\ e - l = b
    OBVIOUS
  <2>6. rec.body = e - l
    <3>1. z = e
      BY <2>2, <2>3, <2>5
    <3> QED
      BY <2>3, <3>1, Zenon
  <2> QED
    BY <2>1, <2>2, <2>4, <2>5, <2>6, Zenon
<1>9. c \in FrameStarts(s) /\ c < e
  <2>1. PICK m \in Nat : m = Len(content[s])
    BY <1>2
  <2>2. c \in 1..m
    BY <1>2, <1>5, <1>7, <2>1, SMTT(30)
  <2>3. c \in FrameStarts(s)
    BY <1>2, <1>5, <2>1, <2>2, StartsFacts
  <2>4. c < FrameEnd(s, c)
    BY <1>2, ByteFacts
  <2> QED
    BY <1>8, <2>3, <2>4
<1>10. Boundary(s, e)
  <2>1. Boundary(s, FrameEnd(s, c))
    BY <1>2, <1>9, NextFrame
  <2> QED
    BY <1>8, <2>1
<1>11. rec.type = Value(s, c)
  BY <1>2, <1>3, <1>5
<1>12. HandledUpTo(s, e)'
  <2>1. HandledUpTo(s, FrameEnd(s, c))'
    BY <1>2, <1>5, <1>7, <1>8, <1>9, <1>11, OneMoreHandled
  <2>2. FrameEnd(s, c)' = FrameEnd(s, c)
    BY ContentFixed
  <2> QED
    BY <1>8, <2>1, <2>2
<1>13. PICK y \in StateRecords : y = ResetFrame(x)
  BY ResetFacts
<1>14. /\ y.current_frame_type = -1 /\ y.current_frame_length = -1 /\ y.current_frame_read = 0
       /\ y.stream_type = x.stream_type /\ y.frame_header_read = x.frame_header_read
  BY <1>13, ResetFacts
<1>15. st'[s] = y /\ at'[s] = e
  BY <1>1, <1>2, <1>3, <1>8, <1>13, Moved
<1>16. /\ Len(content[s])' = Len(content[s]) /\ Boundary(s, e)' = Boundary(s, e)
       /\ Value(s, 1)' = Value(s, 1) /\ Width(s, e)' = Width(s, e)
  <2>1. Len(content[s])' = Len(content[s])
    OBVIOUS
  <2> QED
    BY <2>1, ContentFixed
<1>17. ControlAt(s, e)'
  <2>1. e < e + Width(s, e) /\ e = e + 0
    <3>1. Width(s, e) \in Nat \ {0}
      BY <1>2, ByteFacts
    <3> QED
      BY <3>1
  <2>2. Gathering(s, e)'
    BY <1>5, <1>14, <1>15, <1>16, <2>1 DEF Gathering
  <2> QED
    BY <1>14, <1>15, <2>2 DEF ControlAt
<1>18. Allowed(s)'
  BY <1>14, <1>15 DEF Allowed
<1>19. at'[s] \in 1..(Len(content[s])' + 1) /\ at'[s] <= hand' + 1 /\ hand' \in 0..Len(content[s])'
  <2>1. e \in 1..(Len(content[s]) + 1) /\ hand \in 0..Len(content[s])
    BY <1>2, <1>8
  <2> QED
    BY <1>1, <1>8, <1>15, <1>16, <2>1 DEF callVars
<1>20. /\ st'[s].stream_type = StreamControl /\ Value(s, 1)' = StreamControl
       /\ st'[s] \in StateRecords /\ Boundary(s, e)'
  BY <1>6, <1>10, <1>14, <1>15, <1>16
<1> QED
  BY <1>6, <1>12, <1>17, <1>18, <1>19, <1>20, ControlStream

LEMMA BodyEndsStep ==
  ASSUME IndInv, BodyEnds
  PROVE  IndInv'
<1>1. PICK s : s = cs
  OBVIOUS
<1>2. PICK p : p = at[s] + Available - State.current_frame_length
  OBVIOUS
<1>3. PICK settings : settings = (State.current_frame_type = FrameSettings)
  OBVIOUS
<1> DEFINE new == ResetFrame(State)
<1> DEFINE rec == [stream |-> s, body |-> p, type |-> State.current_frame_type,
                   rejected |-> s \in rejected]
<1>4. /\ InBody /\ BodyComplete /\ UNCHANGED <<content, finished, data>>
      /\ settings_received' = (settings_received \/ (settings /\ SettingsDecode(p)))
      /\ IF settings /\ ~SettingsDecode(p)
         THEN Reject(new) /\ UNCHANGED processed
         ELSE Continue(new, at[s] + Available) /\ processed' = Append(processed, rec)
  BY <1>1, <1>2, <1>3 DEF BodyEnds
<1> HIDE DEF new, rec
<1>5. call # "none" /\ Control
  BY <1>4 DEF InBody, Control
<1>6. data' = [data EXCEPT ![s] = data'[s]]
  BY <1>4 DEF IndInv, TypeInv
<1>7. settings_received => settings_received'
  BY <1>4
<1>8. PICK S : processed \in Seq(S)
  BY DEF IndInv, TypeInv
<1>9. CASE settings /\ ~SettingsDecode(p)
  <2>1. /\ Move(new, hand + 1) /\ call' = "none" /\ cs' = cs /\ rejected' = rejected \cup {s}
        /\ processed' = processed
    BY <1>1, <1>4, <1>9 DEF Reject
  <2>2. rejected' = rejected \/ (rejected' = rejected \cup {s} /\ ~OfSession(s))
    <3>1. CASE s \in rejected
      BY <2>1, <3>1
    <3>2. CASE s \notin rejected
      BY <1>1, <1>5, <2>1, <3>2, ControlFacts
    <3> QED
      BY <3>1, <3>2
  <2>3. settings_received' => settings_received
    BY <1>4, <1>9
  <2>4. SettingsInv'
    BY <2>1, <2>3 DEF IndInv, SettingsInv
  <2>5. Grows(s) /\ \E T : processed' \in Seq(T)
    BY <1>8, <2>1 DEF Grows
  <2> QED
    BY <1>1, <1>4, <1>5, <1>6, <1>7, <2>1, <2>2, <2>4, <2>5, CallStep
<1>10. CASE ~(settings /\ ~SettingsDecode(p))
  <2>1. /\ Continue(new, at[s] + Available) /\ processed' = Append(processed, rec)
        /\ Move(new, at[s] + Available) /\ UNCHANGED <<call, cs, rejected>>
    BY <1>4, <1>10 DEF Continue, callVars
  <2>2. PICK n \in Nat : n = Len(processed)
    BY <1>8
  <2>3. /\ Len(processed') = n + 1 /\ processed'[n + 1] = rec
        /\ \A i \in 1..n : processed'[i] = processed[i]
    BY <1>8, <2>1, <2>2
  <2>4. /\ rec.stream = s /\ rec.body = p /\ rec.type = State.current_frame_type
        /\ rec.rejected = (s \in rejected)
    BY DEF rec
  <2>5. Grows(s)
    BY <2>2, <2>3, <2>4 DEF Grows
  <2>6. processed' \in Seq(S \cup {rec})
    <3>1. processed \in Seq(S \cup {rec})
      BY <1>8
    <3> QED
      BY <2>1, <3>1
  <2>7. s \notin rejected => StreamInv(s)'
    <3> SUFFICES ASSUME s \notin rejected PROVE StreamInv(s)'
      OBVIOUS
    <3> QED
      BY <1>1, <1>2, <1>4, <1>8, <2>1, <2>4, FrameOver DEF new
  <2>8. s \notin rejected =>
          /\ State.current_frame_type # FrameSettings => settings_received
          /\ State.current_frame_type \notin Requests
    <3> SUFFICES ASSUME s \notin rejected
                 PROVE  /\ State.current_frame_type # FrameSettings => settings_received
                        /\ State.current_frame_type \notin Requests
      OBVIOUS
    <3>1. Allowed(s) /\ State = st[s]
      BY <1>1, <1>5, ControlFacts, CallFacts
    <3>2. State.current_frame_type # -1
      BY <1>4 DEF InBody
    <3>3. FrameSettings \notin Requests
      BY DEF Requests, FrameSettings, FrameData, FrameHeader, FramePushPromise, FrameWebtransport
    <3> QED
      BY <3>1, <3>2, <3>3 DEF Allowed
  <2>9. \A i : i \in 1..(n + 1) <=> i \in 1..n \/ i = n + 1
    OBVIOUS
  <2>10. settings_received => \E j \in 1..n : processed[j].type = FrameSettings
    BY <2>2 DEF IndInv, SettingsInv
  <2>11. SettingsInv'
    <3>1. settings_received' => \E j \in 1..(n + 1) : processed'[j].type = FrameSettings
      BY <1>3, <1>4, <2>3, <2>4, <2>9, <2>10
    <3>2. ASSUME NEW i \in 1..(n + 1), ~processed'[i].rejected
          PROVE  /\ \E j \in 1..i : processed'[j].type = FrameSettings
                 /\ processed'[i].type \notin Requests
      <4>1. CASE i \in 1..n
        <5>1. processed'[i] = processed[i]
          BY <2>3, <4>1
        <5>2. /\ \E j \in 1..i : processed[j].type = FrameSettings
              /\ processed[i].type \notin Requests
          BY <2>2, <3>2, <4>1, <5>1 DEF IndInv, SettingsInv
        <5>3. \A j \in 1..i : j \in 1..n
          BY <4>1
        <5> QED
          BY <2>3, <5>1, <5>2, <5>3
      <4>2. CASE i = n + 1
        <5>1. s \notin rejected /\ processed'[i].type = State.current_frame_type
          BY <2>3, <2>4, <3>2, <4>2
        <5>2. \E j \in 1..(n + 1) : processed'[j].type = FrameSettings
          BY <2>3, <2>8, <2>9, <2>10, <4>2, <5>1
        <5> QED
          BY <2>8, <4>2, <5>1, <5>2
      <4> QED
        BY <2>9, <4>1, <4>2
    <3> QED
      BY <2>3, <3>1, <3>2 DEF SettingsInv
  <2> QED
    BY <1>1, <1>4, <1>5, <1>6, <1>7, <2>1, <2>5, <2>6, <2>7, <2>11, CallStep
<1> QED
  BY <1>9, <1>10
-----------------------------------------------------------------------------
(* The invariant                                                           *)

LEMMA DeliverStep ==
  ASSUME IndInv, NEW s, Deliver(s)
  PROVE  IndInv'
<1>1. /\ call = "none" /\ s \notin finished /\ s \in DOMAIN content /\ cs' = s
      /\ UNCHANGED <<content, settings_received, st, at, rejected, data, processed>>
  BY DEF Deliver, ctxVars
<1>2. PICK n \in 0..(Len(content[s]) - at[s] + 1) :
        /\ hand' = at[s] + n - 1
        /\ \/ call' = "data" /\ finished' = finished
           \/ call' = "fin" /\ finished' = finished \cup {s}
  BY DEF Deliver
<1>3. TypeInv'
  BY <1>1 DEF IndInv, TypeInv
<1>4. CallInv'
  BY <1>1, <1>2 DEF CallInv
<1>5. SettingsInv'
  BY <1>1 DEF IndInv, SettingsInv
<1>6. \A r \in DOMAIN content' : OfSession(r)' => r \notin rejected'
  <2>1. \A r : OfSession(r)' <=> OfSession(r)
    BY <1>1, ContentFixed DEF OfSession
  <2> QED
    BY <1>1, <2>1 DEF IndInv
<1>7. ASSUME NEW r \in (DOMAIN content') \ rejected'
      PROVE  StreamInv(r)'
  <2>1. StreamInv(r) /\ Between(r)
    BY <1>1, <1>7 DEF IndInv, Between
  <2>2. CASE r # s
    <3>1. Len(processed) \in Nat
      BY DEF IndInv, TypeInv
    <3>2. Grows(s) /\ Between(r)' /\ (r \in finished' <=> r \in finished)
      BY <1>1, <1>2, <2>2 DEF Grows, Between
    <3> QED
      BY <1>1, <2>1, <2>2, <3>1, <3>2, OtherStream
  <2>3. CASE r = s
    <3>1. ~Between(s)'
      BY <1>1, <1>2 DEF Between
    <3>2. at[s] <= hand' + 1 /\ hand' \in 0..Len(content[s])
      <4>1. PICK m \in Nat : m = Len(content[s])
        <5>1. content[s] \in Seq([width : Nat \ {0}, value : Nat, block : BOOLEAN])
          BY <1>1, ContentsAssumption DEF IndInv, TypeInv
        <5>2. PICK k : k = Len(content[s])
          OBVIOUS
        <5> QED
          BY <5>1, <5>2
      <4>2. PICK a \in Nat \ {0} : a = at[s] /\ a <= m + 1
        BY <2>1, <2>3, <4>1 DEF StreamInv
      <4>3. n \in Nat /\ n <= m - a + 1
        BY <4>1, <4>2
      <4>4. PICK h \in Nat : h = a + n - 1 /\ h <= m /\ a <= h + 1
        BY <4>3
      <4> QED
        BY <1>2, <4>1, <4>2, <4>4
    <3>3. /\ Len(content[s])' = Len(content[s]) /\ Mine(s)' = Mine(s)
          /\ HeaderEnd(s)' = HeaderEnd(s)
          /\ \A q : /\ Width(s, q)' = Width(s, q) /\ Value(s, q)' = Value(s, q)
                    /\ FrameBody(s, q)' = FrameBody(s, q) /\ Boundary(s, q)' = Boundary(s, q)
          /\ \A c : HandledUpTo(s, c)' = HandledUpTo(s, c)
      BY <1>1, SameStream
    <3>4. \A v : Gathering(s, v)' <=> Gathering(s, v)
      BY <1>1, <3>3 DEF Gathering
    <3>5. \A c : ControlAt(s, c) => ControlAt(s, c)'
      BY <1>1, <3>1, <3>3, <3>4, Zenon DEF ControlAt
    <3>6. Allowed(s)' <=> Allowed(s)
      BY <1>1 DEF Allowed
    <3>7. SessionAt(s) => SessionAt(s)'
      BY <1>1, <3>1, <3>3, <3>4 DEF SessionAt
    <3>8. Webtransport(s)' <=> Webtransport(s)
      BY <1>1 DEF Webtransport
    <3> QED
      BY <1>1, <2>1, <2>3, <3>2, <3>3, <3>4, <3>5, <3>6, <3>7, <3>8 DEF StreamInv
  <2> QED
    BY <2>2, <2>3
<1> QED
  BY <1>3, <1>4, <1>5, <1>6, <1>7 DEF IndInv

LEMMA InitInv == Init => IndInv
<1> SUFFICES ASSUME Init PROVE IndInv
  OBVIOUS
<1>1. TypeInv
  BY DEF Init, TypeInv
<1>2. CallInv /\ SettingsInv
  BY DEF Init, CallInv, SettingsInv
<1>3. \A s \in DOMAIN content : OfSession(s) => s \notin rejected
  BY DEF Init
<1>4. ASSUME NEW s \in (DOMAIN content) \ rejected
      PROVE  StreamInv(s)
  <2>1. s \in Streams /\ Carries(s)
    BY ContentsAssumption DEF Init, Carries
  <2>2. PICK n \in Nat : n = Len(content[s])
    BY <2>1 DEF Carries
  <2>3. st[s] = Fresh /\ at[s] = 1 /\ data[s] = NothingYet /\ Between(s)
    BY <2>1 DEF Init, NothingYet, Between
  <2>4. Fresh \in StateRecords
    BY DEF Fresh, StateRecords
  <2>5. /\ Fresh.stream_type = -1 /\ Fresh.control_stream_id = -1
        /\ Fresh.frame_header_read = 0
    BY DEF Fresh
  <2>6. Gathering(s, 1)
    <3>1. Width(s, 1) \in Nat \ {0}
      BY <2>1, ByteFacts
    <3> QED
      BY <2>3, <2>5, <3>1 DEF Gathering
  <2>7. Mine(s) = {}
    BY DEF Init, Mine
  <2>8. ~Webtransport(s) /\ st[s].stream_type # StreamControl
    BY <2>3, <2>5 DEF Webtransport, StreamWebtransport, FrameWebtransport, StreamControl
  <2>9. at[s] \in 1..(Len(content[s]) + 1)
    BY <2>2, <2>3
  <2> QED
    BY <2>3, <2>4, <2>5, <2>6, <2>7, <2>8, <2>9 DEF StreamInv
<1> QED
  BY <1>1, <1>2, <1>3, <1>4 DEF IndInv

LEMMA StutterStep ==
  ASSUME IndInv, UNCHANGED vars
  PROVE  IndInv'
<1>1. UNCHANGED <<content, settings_received, st, at, cs, hand, call, finished, rejected, data,
                  processed>>
  BY DEF vars, ctxVars, callVars
<1>2. \A s : /\ FrameStarts(s)' = FrameStarts(s) /\ HeaderEnd(s)' = HeaderEnd(s)
             /\ Session(s)' = Session(s)
             /\ \A q : /\ Width(s, q)' = Width(s, q) /\ Value(s, q)' = Value(s, q)
                       /\ FrameBody(s, q)' = FrameBody(s, q) /\ Boundary(s, q)' = Boundary(s, q)
  BY <1>1, ContentFixed
<1>3. TypeInv' /\ CallInv' /\ SettingsInv'
  BY <1>1 DEF IndInv, TypeInv, CallInv, SettingsInv
<1>4. \A s : OfSession(s)' <=> OfSession(s)
  BY <1>2 DEF OfSession
<1>5. ASSUME NEW s \in (DOMAIN content) \ rejected
      PROVE  StreamInv(s)'
  <2>1. StreamInv(s)
    BY DEF IndInv
  <2>2. \A v : Gathering(s, v)' <=> Gathering(s, v)
    BY <1>1, <1>2 DEF Gathering
  <2>3. Between(s)' <=> Between(s)
    BY <1>1 DEF Between
  <2>4. \A c : ControlAt(s, c) => ControlAt(s, c)'
    BY <1>1, <1>2, <2>2, <2>3 DEF ControlAt
  <2>5. Mine(s)' = Mine(s) /\ Len(content[s])' = Len(content[s])
        /\ \A c : HandledUpTo(s, c)' = HandledUpTo(s, c)
    BY <1>1, SameStream
  <2>6. /\ Allowed(s)' <=> Allowed(s)
        /\ Webtransport(s)' <=> Webtransport(s)
    BY <1>1 DEF Allowed, Webtransport
  <2>7. SessionAt(s) => SessionAt(s)'
    BY <1>1, <1>2, <2>2, <2>3 DEF SessionAt
  <2> QED
    BY <1>1, <1>2, <2>1, <2>2, <2>3, <2>4, <2>5, <2>6, <2>7 DEF StreamInv
<1> QED
  BY <1>1, <1>3, <1>4, <1>5 DEF IndInv

\* Whatever the streams carry and however they are cut and interleaved, every stream that was
\* not refused is where its bytes say, and what was handled of it is what it carried so far.
THEOREM Invariance == Spec => []IndInv
<1>1. Init => IndInv
  BY InitInv
<1>2. IndInv /\ [Next]_vars => IndInv'
  <2> SUFFICES ASSUME IndInv, [Next]_vars PROVE IndInv'
    OBVIOUS
  <2>1. CASE UNCHANGED vars
    BY <2>1, StutterStep
  <2>2. CASE \E s \in Streams : Deliver(s)
    BY <2>2, DeliverStep
  <2>3. CASE Parse
    <3>1. StreamType => IndInv'
      BY StreamTypeStep
    <3>2. UnidirTypeCut \/ BidirTypeCut \/ OtherUnidir \/ OtherBidir => IndInv'
      BY UnidirTypeCutStep, BidirTypeCutStep, OtherUnidirStep, OtherBidirStep
    <3>3. SessionCut \/ SessionFound \/ SessionData => IndInv'
      BY SessionCutStep, SessionFoundStep, SessionDataStep
    <3>4. FrameType \/ FrameLength \/ FrameHeaderCut => IndInv'
      BY FrameTypeStep, FrameLengthStep, FrameHeaderCutStep
    <3>5. BodyCut \/ BodyRefused \/ BodyEnds => IndInv'
      BY BodyCutStep, BodyRefusedStep, BodyEndsStep
    <3> QED
      BY <2>3, <3>1, <3>2, <3>3, <3>4, <3>5 DEF Parse
  <2> QED
    BY <2>1, <2>2, <2>3 DEF Next
<1> QED
  BY <1>1, <1>2, PTL DEF Spec
-----------------------------------------------------------------------------
(* What it says of the settings, of sessions and of frames                 *)

\* "The settings frame must be the first on the control stream" (h3zero_common.c:420),
\* however many control streams the peer opens.
THEOREM SettingsFirstHolds == Spec => []SettingsFirst
<1>1. IndInv => SettingsFirst
  <2> SUFFICES ASSUME IndInv PROVE SettingsFirst
    OBVIOUS
  <2>1. DOMAIN processed = 1..Len(processed)
    BY DEF IndInv, TypeInv
  <2> QED
    BY <2>1 DEF SettingsFirst, IndInv, SettingsInv, Requests
<1> QED
  BY <1>1, Invariance, PTL

LEMMA SessionAlways == IndInv => SessionStreamComplete
<1> SUFFICES ASSUME IndInv PROVE SessionStreamComplete
  OBVIOUS
<1> SUFFICES ASSUME NEW s \in DOMAIN content,
                    Value(s, 1) = IF s \in Unidirs THEN StreamWebtransport ELSE FrameWebtransport,
                    Session(s) \in Declared
             PROVE  /\ s \in Unidirs => s \notin rejected
                    /\ Between(s) /\ s \notin rejected =>
                         /\ data[s].bytes = [i \in 1..(at[s] - HeaderEnd(s)) |-> HeaderEnd(s) + i - 1]
                         /\ data[s].fin <=> s \in finished /\ at[s] >= HeaderEnd(s)
  BY DEF SessionStreamComplete
<1>1. s \in Unidirs => s \notin rejected
  BY DEF IndInv, OfSession
<1>2. ASSUME Between(s), s \notin rejected
      PROVE  /\ data[s].bytes = [i \in 1..(at[s] - HeaderEnd(s)) |-> HeaderEnd(s) + i - 1]
             /\ data[s].fin <=> s \in finished /\ at[s] >= HeaderEnd(s)
  <2>1. StreamInv(s) /\ Carries(s)
    BY <1>2, ContentsAssumption DEF IndInv, TypeInv, Carries
  <2>2. Width(s, 1) \in Nat \ {0} /\ 1 + Width(s, 1) \in Nat \ {0}
    <3>1. Width(s, 1) \in Nat \ {0}
      BY <2>1, ByteFacts
    <3> QED
      BY <3>1
  <2>3. Width(s, 1 + Width(s, 1)) \in Nat \ {0}
    BY <2>1, <2>2, ByteFacts
  <2>4. PICK h \in Nat : h = HeaderEnd(s) /\ 1 + Width(s, 1) < h
                         /\ h = 1 + Width(s, 1) + Width(s, 1 + Width(s, 1))
    BY <2>2, <2>3 DEF HeaderEnd
  <2>5. PICK a \in Nat : a = at[s]
    <3>1. Len(content[s]) \in Nat
      <4>1. PICK n \in Nat : n = Len(content[s])
        BY <2>1 DEF Carries
      <4> QED
        BY <4>1
    <3> QED
      BY <2>1, <3>1 DEF StreamInv
  <2>6. ASSUME data[s] = NothingYet, a < h
        PROVE  /\ data[s].bytes = [i \in 1..(a - h) |-> h + i - 1]
               /\ data[s].fin <=> s \in finished /\ a >= h
    <3>1. <<>> = [i \in 1..(a - h) |-> h + i - 1]
      BY <2>6
    <3>2. data[s].bytes = <<>> /\ data[s].fin = FALSE
      BY <2>6 DEF NothingYet
    <3>3. ~(a >= h)
      BY <2>6
    <3> QED
      BY <3>1, <3>2, <3>3
  <2>7. CASE st[s].stream_type = -1
    <3>1. Gathering(s, 1) /\ data[s] = NothingYet
      BY <2>1, <2>7 DEF StreamInv
    <3>2. a < h
      BY <2>2, <2>4, <2>5, <3>1 DEF Gathering
    <3> QED
      BY <2>4, <2>5, <2>6, <3>1, <3>2
  <2>8. CASE st[s].stream_type # -1
    <3>1. Webtransport(s)
      BY <2>1, <2>8 DEF StreamInv, Webtransport
    <3>2. SessionAt(s)
      BY <2>1, <3>1 DEF StreamInv
    <3>3. CASE st[s].control_stream_id = -1
      <4>1. Gathering(s, 1 + Width(s, 1)) /\ data[s] = NothingYet
        BY <3>2, <3>3 DEF SessionAt
      <4>2. a < h
        BY <2>4, <2>5, <4>1 DEF Gathering
      <4> QED
        BY <2>4, <2>5, <2>6, <4>1, <4>2
    <3>4. CASE st[s].control_stream_id # -1
      <4>1. /\ h <= a /\ data[s].bytes = [i \in 1..(a - h) |-> h + i - 1]
            /\ data[s].fin <=> s \in finished
        BY <1>2, <2>4, <2>5, <3>2, <3>4 DEF SessionAt
      <4>2. a >= h
        BY <4>1
      <4> QED
        BY <2>4, <2>5, <4>1, <4>2, Zenon
    <3> QED
      BY <3>3, <3>4
  <2> QED
    BY <2>7, <2>8
<1> QED
  BY <1>1, <1>2

\* However a stream of a declared session is cut, the session has been given every byte
\* behind its header, and its FIN.
THEOREM SessionStreamCompleteHolds == Spec => []SessionStreamComplete
BY Invariance, SessionAlways, PTL

\* Between calls a control stream is inside a frame.
LEMMA InsideFrame ==
  ASSUME NEW s, Carries(s), st[s] \in StateRecords, NEW a \in Nat, a = at[s], Between(s),
         NEW c \in Nat \ {0}, ControlAt(s, c)
  PROVE  c <= a /\ a < FrameEnd(s, c)
<1>1. PICK x \in StateRecords : x = st[s]
  OBVIOUS
<1>2. x.frame_header_read \in Nat /\ x.current_frame_read \in Nat /\ x.current_frame_length \in Int
  BY DEF StateRecords
<1>3. PICK w \in Nat : w = c + Width(s, c) /\ c < w
  <2>1. Width(s, c) \in Nat \ {0}
    BY ByteFacts
  <2> QED
    BY <2>1
<1>4. PICK b \in Nat : b = FrameBody(s, c) /\ w < b /\ b = w + Width(s, w)
  <2>1. /\ FrameBody(s, c) \in Nat /\ c + Width(s, c) < FrameBody(s, c)
        /\ FrameBody(s, c) = c + Width(s, c) + Width(s, c + Width(s, c))
    BY ByteFacts
  <2> QED
    BY <1>3, <2>1
<1>5. PICK l \in Nat : l = Value(s, w) /\ FrameEnd(s, c) = b + l
  <2>1. FrameEnd(s, c) = FrameBody(s, c) + Value(s, c + Width(s, c))
    BY ByteFacts
  <2>2. Value(s, w) \in Nat
    BY <1>3, ByteFacts
  <2> QED
    BY <1>3, <1>4, <2>1, <2>2
<1>6. CASE x.current_frame_type = -1
  <2>1. Gathering(s, c)
    BY <1>1, <1>6 DEF ControlAt
  <2>2. a = c + x.frame_header_read /\ a < w
    BY <1>1, <1>3, <2>1 DEF Gathering
  <2> QED
    BY <1>2, <1>4, <1>5, <2>2
<1>7. CASE x.current_frame_type # -1 /\ x.current_frame_length = -1
  <2>1. Gathering(s, w)
    BY <1>1, <1>3, <1>7 DEF ControlAt
  <2>2. a = w + x.frame_header_read /\ a < b
    BY <1>1, <1>4, <2>1 DEF Gathering
  <2> QED
    BY <1>2, <1>3, <1>5, <2>2
<1>8. CASE x.current_frame_type # -1 /\ x.current_frame_length # -1
  <2>1. /\ x.current_frame_length = l /\ a = b + x.current_frame_read
        /\ x.current_frame_read < x.current_frame_length
    BY <1>1, <1>3, <1>4, <1>5, <1>8 DEF ControlAt
  <2> QED
    BY <1>2, <1>3, <1>4, <1>5, <2>1
<1> QED
  BY <1>6, <1>7, <1>8

LEMMA FramesAlways == IndInv => FramesHandled
<1> SUFFICES ASSUME IndInv, NEW s \in Unidirs \cap DOMAIN content,
                    Value(s, 1) = StreamControl, s \notin rejected, Between(s)
             PROVE  LET mine == {i \in DOMAIN processed : processed[i].stream = s}
                        frames == {q \in FrameStarts(s) : FrameEnd(s, q) <= at[s]}
                    IN /\ {<<processed[i].body, processed[i].type>> : i \in mine}
                            = {<<FrameBody(s, q), Value(s, q)>> : q \in frames}
                       /\ \A i, j \in mine : i < j => processed[i].body < processed[j].body
  BY DEF FramesHandled
<1> DEFINE mine == {i \in DOMAIN processed : processed[i].stream = s}
<1> DEFINE frames == {q \in FrameStarts(s) : FrameEnd(s, q) <= at[s]}
<1>1. StreamInv(s) /\ Carries(s)
  BY ContentsAssumption DEF IndInv, TypeInv, Carries
<1>2. mine = Mine(s)
  <2>1. DOMAIN processed = 1..Len(processed)
    BY DEF IndInv, TypeInv
  <2> QED
    BY <2>1 DEF Mine
<1>3. PICK n \in Nat : n = Len(content[s])
  BY <1>1 DEF Carries
<1>4. PICK a \in Nat : a = at[s]
  BY <1>1, <1>3 DEF StreamInv
<1>5. \A q \in FrameStarts(s) :
        /\ q \in Nat \ {0} /\ q <= n /\ Boundary(s, q) /\ FrameEnd(s, q) \in Nat /\ q < FrameEnd(s, q)
  BY <1>1, <1>3, StartFacts
<1>6. CASE st[s].stream_type = -1
  <2>1. Mine(s) = {} /\ Gathering(s, 1)
    BY <1>1, <1>6 DEF StreamInv
  <2>2. a < 1 + Width(s, 1) /\ Width(s, 1) \in Nat \ {0}
    BY <1>1, <1>4, <2>1, ByteFacts DEF Gathering
  <2>3. ASSUME NEW q \in FrameStarts(s)
        PROVE  ~(FrameEnd(s, q) <= a)
    <3>1. 1 + Width(s, 1) <= q
      BY <1>1, <1>5, Chain
    <3> QED
      BY <1>5, <2>2, <3>1
  <2>4. frames = {}
    BY <1>4, <2>3
  <2> QED
    BY <1>2, <2>1, <2>4
<1>7. CASE st[s].stream_type # -1
  <2>1. PICK c \in Nat : Boundary(s, c) /\ ControlAt(s, c) /\ HandledUpTo(s, c)
    BY <1>1, <1>7 DEF StreamInv
  <2>2. c \in Nat \ {0}
    <3>1. 1 + Width(s, 1) <= c /\ Width(s, 1) \in Nat \ {0}
      BY <1>1, <2>1, Chain, ByteFacts
    <3> QED
      BY <3>1
  <2>3. c <= a /\ a < FrameEnd(s, c)
    <3>1. st[s] \in StateRecords
      BY <1>1 DEF StreamInv
    <3> QED
      BY <1>1, <1>4, <2>1, <2>2, <3>1, InsideFrame
  <2>4. ASSUME NEW q \in FrameStarts(s)
        PROVE  FrameEnd(s, q) <= a <=> q < c
    <3>1. CASE q < c
      <4>1. FrameEnd(s, q) <= c
        BY <1>1, <2>1, <3>1, Chain
      <4> QED
        BY <1>5, <2>3, <3>1, <4>1
    <3>2. CASE q = c
      BY <1>5, <2>3, <3>2
    <3>3. CASE c < q
      <4>1. c \in 1..n
        BY <1>5, <2>2, <3>3
      <4>2. c \in FrameStarts(s)
        BY <1>1, <1>3, <2>1, <4>1, StartsFacts
      <4>3. FrameEnd(s, c) <= q
        BY <1>1, <1>5, <3>3, <4>2, Chain
      <4> QED
        BY <1>5, <2>3, <3>3, <4>2, <4>3
    <3> QED
      BY <1>5, <2>2, <3>1, <3>2, <3>3
  <2>5. frames = {q \in FrameStarts(s) : q < c}
    BY <1>4, <2>4
  <2>6. {<<processed[i].body, processed[i].type>> : i \in Mine(s)}
          = {<<FrameBody(s, q), Value(s, q)>> : q \in {q \in FrameStarts(s) : q < c}}
    <3>1. /\ \A i \in Mine(s) : \E q \in FrameStarts(s) : q < c /\ IsOf(i, s, q)
          /\ \A q \in FrameStarts(s) : q < c => \E i \in Mine(s) : IsOf(i, s, q)
      BY <2>1 DEF HandledUpTo
    <3> QED
      BY <3>1, Zenon DEF IsOf
  <2>7. \A i, j \in Mine(s) : i < j => processed[i].body < processed[j].body
    BY <2>1 DEF HandledUpTo
  <2> QED
    BY <1>2, <2>5, <2>6, <2>7
<1> QED
  BY <1>6, <1>7

\* However a control stream is cut, as long as it is not refused its complete frames have
\* been handled, each as it is and in order, and nothing else has.
THEOREM FramesHandledHolds == Spec => []FramesHandled
BY Invariance, FramesAlways, PTL
=============================================================================
