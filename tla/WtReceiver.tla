----------------------------- MODULE WtReceiver -----------------------------
(***************************************************************************)
(* The WebTransport client (client/wt_client.c, client/wt_callback.c):     *)
(* client_cb sends three control messages when the session is there, and   *)
(* hands the bytes of the server's streams to wt_handle_stream_data, which *)
(* cuts them into frames.                                                  *)
(*                                                                         *)
(* The bytes of a stream are known by their positions.  Of a byte matters  *)
(* what a varint that starts there would be, its width and its value, and  *)
(* its part in the markers of a JPEG: FF D8 begins it, FF D9 ends it.      *)
(* A call has the bytes at..hand of stream cs; a turn of its loop is a     *)
(* step.                                                                   *)
(***************************************************************************)
EXTENDS Naturals, Sequences, SequencesExt, FiniteSets

CONSTANTS
  Streams,      \* the streams the server opens
  Contents,     \* what they may carry: [Streams -> Seq([width, value, byte])]
  Session,      \* the id of the CONNECT stream
  MaxLen,       \* WT_MAX_FRAME_LEN
  FirstCap,     \* the size of a new buffer
  Kept,         \* 64 KiB: what is kept of bytes without a JPEG
  MaxFrames,    \* --max-frames, 0: no limit
  MaxCut        \* bound: how many control messages cannot be queued in full

ASSUME NumbersAssumption ==
  {Session, MaxLen, FirstCap, Kept, MaxFrames, MaxCut} \subseteq Nat
ASSUME ContentsAssumption ==
  Contents \subseteq
    [Streams -> Seq([width : Nat \ {0}, value : Nat, byte : {"FF", "D8", "D9", "x"}])]

UniType == 84   \* 0x54

VARIABLES
  content, pos,       \* what each stream carries, and how much was handed over
  cs, at, hand,       \* the chunk in hand
  st,                 \* wt_stream_t of each stream; buf has the first got bytes
  session_ctrl_id,    \* of the application, 0 until the session is there
  control,            \* the control streams: what was queued on each of them
  saved, g_running,   \* app->saved, the files written; the packet loop goes on
  handed,             \* history: the frames given to save_frame
  bare,               \* history: the lengths without a time stamp, by stream
  odd,                \* history: streams whose frames were not cut by length
  outgrown            \* history: streams in a frame their buffer could not grow for

chunkVars == <<content, pos, cs, hand>>
sessionVars == <<session_ctrl_id, control>>
frameVars == <<saved, handed, g_running>>
receiverVars == <<chunkVars, at, st, sessionVars, frameVars, bare, odd, outgrown>>

New == [header_ok |-> FALSE, buf |-> <<>>, cap |-> FirstCap, cur_len |-> 0,
        pts_len |-> 0, use_len_framing |-> FALSE]

ReceiverInit ==
  /\ content \in Contents /\ pos = [s \in Streams |-> 0]
  /\ cs \in Streams /\ at = 1 /\ hand = 0
  /\ st = [s \in Streams |-> New]
  /\ session_ctrl_id = 0 /\ control = <<>>
  /\ saved = 0 /\ handed = <<>> /\ g_running = TRUE
  /\ bare = [s \in Streams |-> {}] /\ odd = {} /\ outgrown = {}
-----------------------------------------------------------------------------
(* client_cb                                                               *)

InCall == at <= hand

\* send_wt_control: the parts of a message are queued one after the other on a stream
\* of its own, until one cannot be.
send_wt_control(message) == {SubSeq(message, 1, n) : n \in 0..Len(message)}

\* The end of stream comes with the last part.
Message(code, payload) ==
  <<[part |-> "header", fin |-> FALSE], [part |-> code, fin |-> ~payload]>>
    \o (IF payload THEN <<[part |-> "payload", fin |-> TRUE]>> ELSE <<>>)

\* client_cb, the session accepted: a message that fails altogether opens no stream,
\* and the next one is tried all the same.
Connect ==
  /\ session_ctrl_id = 0 /\ control = <<>> /\ ~InCall
  /\ session_ctrl_id' = Session
  /\ \E start \in send_wt_control(Message("start", FALSE)),
        fps \in send_wt_control(Message("fps", TRUE)),
        bitrate \in send_wt_control(Message("bitrate", TRUE)) :
       LET sent == <<start, fps, bitrate>>
       IN /\ Cardinality({i \in 1..3 : sent[i] = <<>> \/ ~Last(sent[i]).fin}) <= MaxCut
          /\ control' = SelectSeq(sent, LAMBDA m : m # <<>>)
  /\ UNCHANGED <<chunkVars, at, st, frameVars, bare, odd, outgrown>>

\* post_data and post_fin, with bytes; main's loop has ended when the limit was reached,
\* but the event in progress still brings what the packet held.
Deliver(s) ==
  /\ ~InCall /\ cs' = s /\ at' = pos[s] + 1
  /\ \E n \in 1..(Len(content[s]) - pos[s]) :
       /\ hand' = pos[s] + n /\ pos' = [pos EXCEPT ![s] = hand']
  /\ UNCHANGED <<content, st, sessionVars, frameVars, bare, odd, outgrown>>

\* get_stream finds no memory for a new stream: the chunk is lost.
NoStream ==
  /\ InCall /\ st[cs] = New
  /\ at' = hand + 1 /\ odd' = odd \cup {cs}
  /\ UNCHANGED <<chunkVars, st, sessionVars, frameVars, bare, outgrown>>
-----------------------------------------------------------------------------
(* wt_handle_stream_data: the turns of its loop                            *)

Rest == hand - at + 1
Here(p) == content[cs][p]
Smaller(a, b) == IF a < b THEN a ELSE b
Whole(p) == p <= hand /\ p + Here(p).width - 1 <= hand

\* The rest of the chunk is dropped.
Drop == at' = hand + 1 /\ odd' = odd \cup {cs}

\* The header of the stream; the rest of the chunk is dropped if the header is cut by
\* its end or is not that of a stream of the session.
WtHeader ==
  /\ InCall /\ ~st[cs].header_ok
  /\ LET sid == at + Here(at).width
     IN IF /\ Whole(at) /\ Whole(sid)
           /\ Here(at).value = UniType /\ Here(sid).value = session_ctrl_id
        THEN /\ at' = sid + Here(sid).width
             /\ st' = [st EXCEPT ![cs] = [New EXCEPT !.header_ok = TRUE, !.cap = st[cs].cap]]
             /\ UNCHANGED odd
        ELSE Drop /\ UNCHANGED st
  /\ UNCHANGED <<chunkVars, sessionVars, frameVars, bare, outgrown>>

Framing == st[cs].use_len_framing
Detecting == InCall /\ st[cs].header_ok /\ ~Framing /\ st[cs].cur_len = 0

\* The length of the next frame is cut by the end of the chunk.
CutLength ==
  /\ Detecting /\ ~Whole(at)
  /\ Drop
  /\ UNCHANGED <<chunkVars, st, sessionVars, frameVars, bare, outgrown>>

\* payload_need
Need(s) == IF st[s].cur_len > st[s].pts_len THEN st[s].cur_len - st[s].pts_len ELSE 0

\* Mutated form: the buffer grows for the first frame only.
AdoptLength_GrowOnce ==
  /\ Detecting /\ Whole(at) /\ Here(at).value \in 1..MaxLen
  /\ LET stamp == at + Here(at).width
         pts == IF Whole(stamp) THEN Here(stamp).width ELSE 0
         need == IF Here(at).value > pts THEN Here(at).value - pts ELSE 0
     IN /\ at' = stamp + pts
        /\ st' = [st EXCEPT ![cs] =
                    [@ EXCEPT !.cur_len = Here(at).value, !.buf = <<>>, !.pts_len = pts,
                              !.use_len_framing = need > 0,
                              !.cap = IF handed = <<>> /\ need > @ THEN need ELSE @]]
        /\ bare' = [bare EXCEPT ![cs] = IF pts = 0 THEN @ \cup {at} ELSE @]
        /\ odd' = IF need = 0 THEN odd \cup {cs} ELSE odd
  /\ UNCHANGED <<chunkVars, sessionVars, frameVars, outgrown>>

\* A length.  The varint behind it is the time stamp, if the chunk has it in full; if
\* not, the frame has none.  What follows is the payload then.  The buffer grows to its
\* size; when it cannot, the length is kept all the same, and the call fails.  In a
\* frame that is no longer than its time stamp JPEGs are looked for, from here on.
AdoptLength ==
  /\ Detecting /\ Whole(at) /\ Here(at).value \in 1..MaxLen
  /\ LET stamp == at + Here(at).width
         pts == IF Whole(stamp) THEN Here(stamp).width ELSE 0
         need == IF Here(at).value > pts THEN Here(at).value - pts ELSE 0
         adopted == [st[cs] EXCEPT !.cur_len = Here(at).value, !.buf = <<>>,
                                   !.pts_len = pts, !.use_len_framing = need > 0]
     IN /\ bare' = [bare EXCEPT ![cs] = IF pts = 0 THEN @ \cup {at} ELSE @]
        /\ \/ /\ at' = stamp + pts
              /\ st' = [st EXCEPT ![cs] = [adopted EXCEPT !.cap = IF need > @ THEN need ELSE @]]
              /\ odd' = IF need = 0 THEN odd \cup {cs} ELSE odd
              /\ UNCHANGED outgrown
           \/ /\ need > st[cs].cap
              /\ Drop /\ outgrown' = outgrown \cup {cs}
              /\ st' = [st EXCEPT ![cs] = adopted]
  /\ UNCHANGED <<chunkVars, sessionVars, frameVars>>

\* save_frame for each of them: it counts those whose file can be opened.  Whether all
\* of a frame could be written is not looked at.  Enough files end the run.
Save(frames) ==
  /\ handed' = handed \o frames
  /\ \E n \in 0..Len(frames) : saved' = saved + n
  /\ g_running' = (g_running /\ (MaxFrames = 0 \/ saved' < MaxFrames))

\* Behind a frame that is over the next length is read.
FrameOver ==
  /\ InCall /\ st[cs].header_ok /\ Framing /\ Need(cs) = 0
  /\ st' = [st EXCEPT ![cs].use_len_framing = FALSE]
  /\ UNCHANGED <<chunkVars, at, sessionVars, frameVars, bare, odd, outgrown>>

\* Mutated form: a call takes the rest of its chunk, however much the frame needs.
Payload_WholeChunk ==
  /\ InCall /\ st[cs].header_ok /\ Framing /\ Need(cs) > 0
  /\ LET buf == st[cs].buf \o [i \in 1..Rest |-> <<cs, at + i - 1>>]
     IN /\ at' = hand + 1
        /\ IF Len(buf) < Need(cs)
           THEN st' = [st EXCEPT ![cs].buf = buf] /\ UNCHANGED frameVars
           ELSE /\ Save(<<buf>>)
                /\ st' = [st EXCEPT ![cs] =
                            [@ EXCEPT !.buf = <<>>, !.cur_len = 0, !.pts_len = 0]]
  /\ UNCHANGED <<chunkVars, sessionVars, bare, odd, outgrown>>

\* Payload, as much as the frame still needs.  A complete frame is saved; when there are
\* enough files then, the call ends and the frame stays in the buffer.
Payload ==
  /\ InCall /\ st[cs].header_ok /\ Framing /\ Need(cs) > 0
  /\ LET n == Smaller(Rest, Need(cs) - Len(st[cs].buf))
         buf == st[cs].buf \o [i \in 1..n |-> <<cs, at + i - 1>>]
         last == MaxFrames > 0 /\ saved' >= MaxFrames
     IN \/ /\ Len(buf) < Need(cs)
           /\ st' = [st EXCEPT ![cs].buf = buf] /\ at' = at + n
           /\ UNCHANGED <<frameVars, outgrown>>
        \/ /\ Len(buf) >= Need(cs)
           /\ Save(<<buf>>)
           /\ at' = IF last THEN hand + 1 ELSE at + n
           /\ st' = [st EXCEPT ![cs] =
                       IF last THEN [@ EXCEPT !.buf = buf]
                       ELSE [@ EXCEPT !.buf = <<>>, !.cur_len = 0, !.pts_len = 0]]
           /\ outgrown' = IF last THEN outgrown ELSE outgrown \ {cs}
  /\ UNCHANGED <<chunkVars, sessionVars, bare, odd>>

\* extract_jpegs: the JPEGs in a buffer, and what is left of it.  from[p]: the bytes from p
\* on; the last Kept of them are left when no JPEG begins there.
Marker(buf, i, low) ==
  LET byte(k) == content[buf[k][1]][buf[k][2]].byte
  IN i + 1 <= Len(buf) /\ byte(i) = "FF" /\ byte(i + 1) = low

First(S) == CHOOSE i \in S : \A j \in S : i <= j

extract_jpegs(buf) ==
  LET begins(p) == {i \in p..Len(buf) : Marker(buf, i, "D8")}
      ends(p) == {i \in (First(begins(p)) + 2)..Len(buf) : Marker(buf, i, "D9")}
      from[p \in 1..(Len(buf) + 1)] ==
        CASE begins(p) = {} ->
               [rest |-> SubSeq(buf, IF Len(buf) - p + 1 > Kept THEN Len(buf) - Kept + 1 ELSE p,
                                Len(buf)),
                frames |-> <<>>]
          [] begins(p) # {} /\ ends(p) = {} ->
               [rest |-> SubSeq(buf, First(begins(p)), Len(buf)), frames |-> <<>>]
          [] OTHER ->
               LET after == from[First(ends(p)) + 2]
               IN [rest |-> after.rest,
                   frames |-> <<SubSeq(buf, First(begins(p)), First(ends(p)) + 1)>> \o after.frames]
  IN from[1]

\* The whole chunk is looked through for JPEGs: when a length makes no sense, for this
\* chunk; when a frame was shorter than its time stamp, for good.
Accumulate ==
  /\ InCall /\ st[cs].header_ok /\ ~Framing
  /\ st[cs].cur_len = 0 => Whole(at) /\ Here(at).value \notin 1..MaxLen
  /\ LET buf == st[cs].buf \o [i \in 1..Rest |-> <<cs, at + i - 1>>]
         found == extract_jpegs(buf)
     IN \/ /\ st' = [st EXCEPT ![cs].buf = found.rest,
                               ![cs].cap = IF Len(buf) > @ THEN Len(buf) ELSE @]
           /\ Save(found.frames)
        \/ Len(buf) > st[cs].cap /\ UNCHANGED <<st, frameVars>>
  /\ Drop
  /\ UNCHANGED <<chunkVars, sessionVars, bare, outgrown>>

CallStep ==
  \/ NoStream \/ WtHeader \/ CutLength \/ AdoptLength \/ FrameOver \/ Payload
  \/ Accumulate

ReceiverNext == CallStep \/ Connect \/ \E s \in Streams : Deliver(s)

ReceiverSpec == ReceiverInit /\ [][ReceiverNext]_receiverVars
-----------------------------------------------------------------------------
(* The frames of a stream, whatever its chunks.                            *)

HeaderEnd(c) == c[1].width + c[1 + c[1].width].width

\* The positions where the length of a frame is, or would be behind the stream.
Boundary(c) ==
  LET b[p \in 1..(Len(c) + 1)] ==
        \/ p = HeaderEnd(c) + 1
        \/ \E q \in 1..(p - 1) : b[q] /\ q + c[q].width + c[q].value = p
  IN {p \in 1..(Len(c) + 1) : b[p]}

\* The lengths of stream s whose frames end at or before a position.
Complete(s, last) ==
  {q \in Boundary(content[s]) \cap 1..last :
     q + content[s][q].width + content[s][q].value <= last + 1}

\* The payload of the frame whose length is at q: behind the varint that follows the
\* length, if that was taken for a time stamp.
FrameAt(s, q) ==
  LET stamp == q + content[s][q].width
      first == IF q \in bare[s] THEN stamp ELSE stamp + content[s][stamp].width
  IN [i \in 1..(stamp + content[s][q].value - first) |-> <<s, first + i - 1>>]

Parsed(s) == IF s = cs /\ InCall THEN at - 1 ELSE pos[s]

\* As long as the header and the lengths of a stream come whole and make sense, each of
\* its complete frames goes to save_frame exactly once and in order, however the payload
\* is cut, whatever arrives on other streams in between and whichever files cannot be
\* opened.  A frame begins behind the varint that follows its length when the chunk with
\* the length has all of it, and with this varint when not: the code takes whatever is
\* there for a time stamp.  (Until the limit: a call on the last stream saves its last
\* frame again.)
FramesSaved ==
  g_running =>
    \A s \in Streams \ odd :
      st[s].header_ok =>
        LET mine == {i \in DOMAIN handed : handed[i][1][1] = s}
        IN /\ {handed[i] : i \in mine} = {FrameAt(s, q) : q \in Complete(s, Parsed(s))}
           /\ \A i, j \in mine : i < j => handed[i][1][2] < handed[j][1][2]

\* The bytes gathered fit their buffer, and so do those a frame announces, on every stream
\* but those in a frame for which their buffer could not grow: there the length is kept
\* and the buffer is too small for it.  The next frame of such a stream fits again, and a
\* stream whose memory never failed is not touched by the failures of others.
BufferFits ==
  \A s \in Streams \ outgrown :
    /\ Len(st[s].buf) <= st[s].cap
    /\ st[s].use_len_framing => Need(s) <= st[s].cap /\ Len(st[s].buf) <= Need(s)
=============================================================================
