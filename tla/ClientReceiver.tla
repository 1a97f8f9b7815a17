--------------------------- MODULE ClientReceiver ---------------------------
(***************************************************************************)
(* The client program (client/client_main.c): client_cb cuts the data of   *)
(* the server's streams into frames, and main runs the packet loop until   *)
(* it is told to stop.                                                     *)
(*                                                                         *)
(* A stream is Length bytes, known by their positions.  Of a byte only     *)
(* matters what a variable-length integer that starts there would be: its  *)
(* width and its value.  A call of client_cb has a chunk of one stream,    *)
(* the bytes at..hand of stream cs; every turn of its loop is a step.      *)
(* There is one parser state for all streams of the connection.            *)
(***************************************************************************)
EXTENDS Naturals, Sequences, FiniteSets

CONSTANTS
  Streams,     \* the streams the server sends on
  Length,      \* bytes of each stream
  Contents,    \* possible contents: [1..Length -> [width, value]]
  MaxFrames    \* --max-frames, 0: no limit

ASSUME LengthAssumption == Length \in Nat
ASSUME MaxFramesAssumption == MaxFrames \in Nat
ASSUME ContentsAssumption ==
  Contents \subseteq [1..Length -> [width : Nat \ {0}, value : Nat]]

VARIABLES
  content,                    \* what each stream carries
  pos,                        \* bytes of each stream handed to client_cb so far
  cs, at, hand,               \* the chunk in hand: bytes at..hand of stream cs
  frame_size,                 \* app->frame_size, 0 between frames
  buffered,                   \* app->frame_buffer up to app->received_size
  allocated, buffer_size,     \* app->frame_buffer # NULL, app->buffer_size
  saved,                      \* the frames counted; whether the file of a frame
                              \* could be opened and written is not looked at
  g_running, exit_flag,       \* the two global flags
  closing,                    \* the connection is disconnecting or later
  mainPc,                     \* "loop", "cleanup", "free" or "end"
  lost,                       \* history: bytes of a stream were skipped
  mixed                       \* history: a stream was switched inside a frame

streamVars == <<content, pos, cs, at, hand>>
parserVars == <<frame_size, buffered, allocated, buffer_size, saved>>
procVars == <<g_running, exit_flag, closing, mainPc>>
vars == <<streamVars, parserVars, procVars, lost, mixed>>

Init ==
  /\ content \in [Streams -> Contents]
  /\ pos = [s \in Streams |-> 0]
  /\ cs \in Streams /\ at = 1 /\ hand = 0
  /\ frame_size = 0 /\ buffered = <<>> /\ saved = <<>>
  /\ allocated = FALSE /\ buffer_size = 0
  /\ g_running = TRUE /\ exit_flag = FALSE /\ closing = FALSE /\ mainPc = "loop"
  /\ lost = FALSE /\ mixed = FALSE
-----------------------------------------------------------------------------
(* client_cb                                                               *)

InCallback == at <= hand
Rest == hand - at + 1
Here == content[cs][at]

\* picoquic_callback_stream_data: a call with the next bytes of a stream.
Deliver(s) ==
  /\ ~InCallback /\ ~closing /\ mainPc = "loop"
  /\ \E n \in 1..(Length - pos[s]) :
       /\ at' = pos[s] + 1 /\ hand' = pos[s] + n
       /\ pos' = [pos EXCEPT ![s] = hand']
  /\ cs' = s
  /\ mixed' = (mixed \/ (s # cs /\ frame_size > 0))
  /\ UNCHANGED <<content, parserVars, procVars, lost>>

\* picoquic_callback_stream_fin: the last bytes of the stream may come with this
\* event, which looks at none of them.
Fin(s) ==
  /\ ~InCallback /\ ~closing /\ mainPc = "loop" /\ pos[s] < Length
  /\ pos' = [pos EXCEPT ![s] = Length] /\ cs' = s
  /\ at' = Length + 1 /\ hand' = Length
  /\ lost' = TRUE
  /\ mixed' = (mixed \/ (s # cs /\ frame_size > 0))
  /\ UNCHANGED <<content, parserVars, procVars>>

\* Mutated form: the length is read again until it is there.
PartialLength_Retry ==
  /\ InCallback /\ frame_size = 0 /\ Rest < Here.width
  /\ UNCHANGED vars

\* The chunk ends inside the length of a frame: the loop is left and the bytes
\* are gone.
PartialLength ==
  /\ InCallback /\ frame_size = 0 /\ Rest < Here.width
  /\ at' = hand + 1 /\ lost' = TRUE
  /\ UNCHANGED <<content, pos, cs, hand, parserVars, procVars, mixed>>

\* A length: the buffer grows if it is too small, unless there is no memory.
ReadLength ==
  /\ InCallback /\ frame_size = 0 /\ Rest >= Here.width
  /\ frame_size' = Here.value
  /\ at' = at + Here.width
  /\ buffered' = <<>>
  /\ IF frame_size' > buffer_size
     THEN \/ allocated' = TRUE /\ buffer_size' = frame_size'
          \/ allocated' = FALSE /\ buffer_size' = 0
     ELSE UNCHANGED <<allocated, buffer_size>>
  /\ UNCHANGED <<content, pos, cs, hand, saved, procVars, lost, mixed>>

Smaller(a, b) == IF a < b THEN a ELSE b

\* Mutated form: the rest of the chunk is copied, however much the frame needs.
CopyPayload_WholeChunk ==
  /\ InCallback /\ frame_size > 0 /\ allocated
  /\ LET copy == buffered \o [i \in 1..Rest |-> <<cs, at + i - 1>>]
     IN IF Len(copy) >= frame_size
        THEN saved' = Append(saved, copy) /\ frame_size' = 0 /\ buffered' = <<>>
        ELSE buffered' = copy /\ UNCHANGED <<frame_size, saved>>
  /\ at' = hand + 1
  /\ UNCHANGED <<content, pos, cs, hand, allocated, buffer_size, procVars, lost,
                 mixed>>

\* Payload bytes are copied, as many as the chunk has and the frame still needs;
\* a complete frame is saved, and the last one asked for closes the connection.
\* The loop goes on with what is left of the chunk even then.
CopyPayload ==
  /\ InCallback /\ frame_size > 0 /\ allocated
  /\ LET n == Smaller(Rest, frame_size - Len(buffered))
         copy == buffered \o [i \in 1..n |-> <<cs, at + i - 1>>]
     IN /\ at' = at + n
        /\ IF Len(copy) = frame_size
           THEN /\ saved' = Append(saved, copy)
                /\ frame_size' = 0 /\ buffered' = <<>>
           ELSE /\ buffered' = copy
                /\ UNCHANGED <<frame_size, saved>>
  /\ LET last == MaxFrames > 0 /\ saved' # saved /\ Len(saved') >= MaxFrames
     IN /\ g_running' = (g_running /\ ~last)
        /\ closing' = (closing \/ last)
  /\ UNCHANGED <<content, pos, cs, hand, allocated, buffer_size, exit_flag,
                 mainPc, lost, mixed>>

\* picoquic_callback_close or application_close: a buffer that is there is freed.
Close == closing' = TRUE /\ g_running' = FALSE /\ allocated' = FALSE

CloseEvent ==
  /\ ~InCallback /\ mainPc = "loop" /\ (~closing \/ allocated \/ g_running)
  /\ Close
  /\ UNCHANGED <<streamVars, frame_size, buffered, buffer_size, saved, exit_flag,
                 mainPc, lost, mixed>>

CallbackStep == PartialLength \/ ReadLength \/ CopyPayload
-----------------------------------------------------------------------------
(* main and the signal handler                                             *)

\* handle_sigint sets a flag that nothing reads.
Sigint ==
  /\ mainPc # "end" /\ ~exit_flag
  /\ exit_flag' = TRUE
  /\ UNCHANGED <<streamVars, parserVars, g_running, closing, mainPc, lost, mixed>>

\* The packet loop has returned and the condition of main's loop is false.
MainLeaves ==
  /\ mainPc = "loop" /\ ~InCallback /\ (~g_running \/ closing)
  /\ mainPc' = "cleanup"
  /\ UNCHANGED <<streamVars, parserVars, g_running, exit_flag, closing, lost,
                 mixed>>

\* The packet loop failed.
LoopFails ==
  /\ mainPc = "loop" /\ ~InCallback
  /\ mainPc' = "cleanup"
  /\ UNCHANGED <<streamVars, parserVars, g_running, exit_flag, closing, lost,
                 mixed>>

\* The frame buffer is freed; app->frame_buffer goes on pointing at it.
Cleanup ==
  /\ mainPc = "cleanup"
  /\ mainPc' = "free"
  /\ UNCHANGED <<streamVars, parserVars, g_running, exit_flag, closing, lost,
                 mixed>>

\* picoquic_free: a connection that is not disconnected yet gets its close event,
\* which frees a buffer the pointer still names once more.
QuicFree ==
  /\ mainPc = "free"
  /\ mainPc' = "end"
  /\ Close \/ UNCHANGED <<closing, g_running, allocated>>
  /\ UNCHANGED <<streamVars, frame_size, buffered, buffer_size, saved, exit_flag,
                 lost, mixed>>

Next ==
  \/ CallbackStep
  \/ \E s \in Streams : Deliver(s) \/ Fin(s)
  \/ CloseEvent \/ Sigint \/ MainLeaves \/ LoopFails \/ Cleanup
  \/ QuicFree

Spec == Init /\ [][Next]_vars

\* The process runs: a callback that can go on does, and main leaves its loop
\* and cleans up when it can.
FairSpec == Spec /\ WF_vars(CallbackStep) /\ WF_vars(MainLeaves)
                 /\ WF_vars(Cleanup) /\ WF_vars(QuicFree)
-----------------------------------------------------------------------------
(* The frames of a stream, whatever its chunks.                            *)

\* The positions where a length starts, or would start behind the stream.
Boundary(c) ==
  LET b[p \in 1..(Length + 1)] ==
        \/ p = 1
        \/ \E q \in 1..(p - 1) : b[q] /\ q + c[q].width + c[q].value = p
  IN {p \in 1..(Length + 1) : b[p]}

\* The lengths of stream s whose frames end at or before a position.
Complete(s, last) ==
  {q \in Boundary(content[s]) \cap 1..last :
     /\ content[s][q].value > 0
     /\ q + content[s][q].width + content[s][q].value <= last + 1}

FrameAt(s, q) ==
  [i \in 1..content[s][q].value |-> <<s, q + content[s][q].width + i - 1>>]

\* client_cb has seen every byte of stream s up to here.
Parsed(s) == IF s = cs THEN (IF InCallback THEN at - 1 ELSE pos[s]) ELSE pos[s]

\* As long as no byte is skipped (in a chunk that ends inside a length, or that
\* came with the end of its stream) and no stream is switched inside a
\* frame, the frames counted are exactly the complete frames of the streams, each once
\* and those of a stream in order, however their bytes were cut into chunks.
ChunksDoNotMatter ==
  ~lost /\ ~mixed =>
    \A s \in Streams :
      LET mine == {i \in DOMAIN saved : saved[i][1][1] = s}
      IN /\ {saved[i] : i \in mine} = {FrameAt(s, q) : q \in Complete(s, Parsed(s))}
         /\ \A i, j \in mine : i < j => saved[i][1][2] < saved[j][1][2]

\* A call of client_cb returns, unless there is no buffer for a frame.
CallbackReturns == InCallback ~> (~InCallback \/ ~allocated)
=============================================================================
