----------------------------- MODULE FrameBuffer -----------------------------
(***************************************************************************)
(* The double buffer of src/quic_server.c and the two threads that share   *)
(* it.  camera_thread_func captures a JPEG into frame_buffer[active_idx]   *)
(* and publishes it by swapping active_idx and ready_idx; pop_ready_frame  *)
(* lets network_thread_func claim frame_buffer[ready_idx], which it then   *)
(* sends chunk by chunk without the lock.                                  *)
(*                                                                         *)
(* Every critical section of fb_lock is one step.  What happens outside    *)
(* the lock (the memcpy into the active buffer, the sending of the claimed *)
(* buffer) takes one step per chunk of MTU_CHUNK_BYTES.  A chunk of a      *)
(* buffer holds the number of the frame whose bytes were last copied       *)
(* there, so that a frame sent from two captures shows.                    *)
(*                                                                         *)
(* The module is about one pair of threads at a time: a new session starts *)
(* when the previous pair has exited.  Session treats the sessions that    *)
(* overlap.                                                                *)
(***************************************************************************)
EXTENDS Integers, Sequences

CONSTANTS
  MaxChunks,    \* chunks of the longest JPEG (FRAME_BUFFER_BYTES / MTU_CHUNK_BYTES)
  MaxFrames,    \* ctx->max_frames
  MaxCaptures   \* bound on the captures that succeed

ASSUME ChunksAssumption == MaxChunks \in Nat \ {0}
ASSUME FramesAssumption == MaxFrames \in Nat
ASSUME CapturesAssumption == MaxCaptures \in Nat

VARIABLES
  is_sending,    \* ctx->is_sending, polled by both threads
  disconnecting, \* the connection state is picoquic_state_disconnecting or later
  active_idx,    \* the buffer the camera writes
  ready_idx,     \* the buffer the network thread claims
  has_frame,     \* [Bufs -> BOOLEAN]
  ready_size,    \* [Bufs -> chunks of the published frame]
  buf,           \* [Bufs -> [Chunks -> frame whose bytes the chunk holds]]
  camPc,         \* where the camera thread is
  backlog,       \* backlog_start_us # 0
  jpegSize,      \* chunks of the JPEG being copied
  copied,        \* chunks of it copied so far
  netPc,         \* where the network thread is
  fb_idx,        \* the buffer the network thread claimed
  fb_sz,         \* and the size it was announced with
  wire,          \* the frame numbers of the chunks sent for it
  frame_count,   \* ctx->frame_count
  captured,      \* history: frames published so far
  frameOf,       \* history: the frame published in a buffer
  stale,         \* history: that frame was published in an earlier session
  cur,           \* history: the frame claimed last
  curStale,      \* history: whether it came from an earlier session
  dropped        \* history: a ready frame was discarded since the last claim

slotVars == <<active_idx, ready_idx, has_frame, ready_size, frameOf, stale>>
camVars  == <<camPc, backlog, jpegSize, copied>>
netVars  == <<netPc, fb_idx, fb_sz, wire, frame_count, cur, curStale>>
vars == <<is_sending, disconnecting, slotVars, buf, camVars, netVars,
          captured, dropped>>

Bufs == {0, 1}
Chunks == 1..MaxChunks

Init ==
  /\ is_sending = TRUE /\ disconnecting = FALSE
  /\ active_idx = 0 /\ ready_idx = 1
  /\ has_frame = [b \in Bufs |-> FALSE]
  /\ ready_size = [b \in Bufs |-> 0]
  /\ buf = [b \in Bufs |-> [c \in Chunks |-> 0]]
  /\ camPc = "head" /\ backlog = FALSE /\ jpegSize = 0 /\ copied = 0
  /\ netPc = "head" /\ fb_idx = 0 /\ fb_sz = 0 /\ wire = <<>>
  /\ frame_count = 0 /\ captured = 0
  /\ frameOf = [b \in Bufs |-> 0] /\ stale = [b \in Bufs |-> FALSE]
  /\ cur = 0 /\ curStale = FALSE /\ dropped = FALSE
-----------------------------------------------------------------------------
(* The camera thread.                                                      *)

\* Mutated form: the loop without its backlog watch.
CamHead_NoWatch ==
  /\ camPc = "head"
  /\ camPc' = IF is_sending THEN "capture" ELSE "done"
  /\ UNCHANGED <<is_sending, disconnecting, slotVars, buf, backlog, jpegSize,
                 copied, netVars, captured, dropped>>

\* Mutated form: a loop that does not look at the flag.
CamHead_Forever ==
  /\ camPc = "head"
  /\ camPc' = "observe"
  /\ UNCHANGED <<is_sending, disconnecting, slotVars, buf, backlog, jpegSize,
                 copied, netVars, captured, dropped>>

\* while (ctx->is_sending)
CamHead ==
  /\ camPc = "head"
  /\ camPc' = IF is_sending THEN "observe" ELSE "done"
  /\ UNCHANGED <<is_sending, disconnecting, slotVars, buf, backlog, jpegSize,
                 copied, netVars, captured, dropped>>

\* No frame is waiting: the backlog clock is reset and a capture follows.
CamNoBacklog ==
  /\ camPc = "observe" /\ ~has_frame[ready_idx]
  /\ camPc' = "capture" /\ backlog' = FALSE
  /\ UNCHANGED <<is_sending, disconnecting, slotVars, buf, jpegSize, copied,
                 netVars, captured, dropped>>

\* A frame is waiting.  The first time the clock starts, and less than
\* MAX_BACKLOG_DELAY_US has passed; later either answer is possible, and when
\* the delay has passed the camera goes on to take the lock a second time.
CamBacklog ==
  /\ camPc = "observe" /\ has_frame[ready_idx]
  /\ \E expired \in IF backlog THEN BOOLEAN ELSE {FALSE} :
       camPc' = IF expired THEN "drop" ELSE "head"
  /\ backlog' = TRUE
  /\ UNCHANGED <<is_sending, disconnecting, slotVars, buf, jpegSize, copied,
                 netVars, captured, dropped>>

\* The old frame is discarded.  The network thread may have claimed it since
\* the camera saw it, and then there is nothing to discard.
CamDrop ==
  /\ camPc = "drop"
  /\ has_frame' = [has_frame EXCEPT ![ready_idx] = FALSE]
  /\ ready_size' = [ready_size EXCEPT ![ready_idx] = 0]
  /\ backlog' = FALSE /\ camPc' = "capture"
  /\ dropped' = (dropped \/ has_frame[ready_idx])
  /\ UNCHANGED <<is_sending, disconnecting, active_idx, ready_idx, frameOf,
                 stale, buf, jpegSize, copied, netVars, captured>>

\* camera_capture_jpeg fails before it touches the buffer.
CamCaptureFails ==
  /\ camPc = "capture"
  /\ camPc' = "head"
  /\ UNCHANGED <<is_sending, disconnecting, slotVars, buf, backlog, jpegSize,
                 copied, netVars, captured, dropped>>

\* camera_capture_jpeg has a JPEG that fits and starts to copy it.
CamCapture ==
  /\ camPc = "capture" /\ captured < MaxCaptures
  /\ jpegSize' \in Chunks
  /\ copied' = 0 /\ camPc' = "copy"
  /\ UNCHANGED <<is_sending, disconnecting, slotVars, buf, backlog, netVars,
                 captured, dropped>>

\* One chunk of the memcpy into frame_buffer[active_idx].
CamCopy ==
  /\ camPc = "copy"
  /\ copied' = copied + 1
  /\ buf' = [buf EXCEPT ![active_idx][copied + 1] = captured + 1]
  /\ camPc' = IF copied' = jpegSize THEN "publish" ELSE "copy"
  /\ UNCHANGED <<is_sending, disconnecting, slotVars, backlog, jpegSize,
                 netVars, captured, dropped>>

\* Mutated form: the frame is announced but the buffers keep their roles.
CamPublish_NoSwap ==
  /\ camPc = "publish"
  /\ ready_size' = [ready_size EXCEPT ![active_idx] = jpegSize]
  /\ has_frame' = [has_frame EXCEPT ![active_idx] = TRUE]
  /\ camPc' = "head"
  /\ captured' = captured + 1
  /\ frameOf' = [frameOf EXCEPT ![active_idx] = captured + 1]
  /\ stale' = [stale EXCEPT ![active_idx] = FALSE]
  /\ UNCHANGED <<is_sending, disconnecting, active_idx, ready_idx, buf, backlog,
                 jpegSize, copied, netVars, dropped>>

\* The frame is announced and the buffers change roles.
CamPublish ==
  /\ camPc = "publish"
  /\ ready_size' = [ready_size EXCEPT ![active_idx] = jpegSize]
  /\ has_frame' = [has_frame EXCEPT ![active_idx] = TRUE]
  /\ active_idx' = ready_idx /\ ready_idx' = active_idx
  /\ camPc' = "head"
  /\ captured' = captured + 1
  /\ frameOf' = [frameOf EXCEPT ![active_idx] = captured + 1]
  /\ stale' = [stale EXCEPT ![active_idx] = FALSE]
  /\ UNCHANGED <<is_sending, disconnecting, buf, backlog, jpegSize, copied,
                 netVars, dropped>>

CamStep ==
  \/ CamHead \/ CamNoBacklog \/ CamBacklog \/ CamDrop
  \/ CamCaptureFails \/ CamCapture \/ CamCopy \/ CamPublish
-----------------------------------------------------------------------------
(* The network thread, as far as frames go.  What it does for its paths    *)
(* and streams between the loop head and the pop is in PathBinding.        *)

\* while (ctx->is_sending), and the break on a connection that is going away.
NetHead ==
  /\ netPc = "head"
  /\ netPc' = IF is_sending /\ ~disconnecting THEN "pop" ELSE "done"
  /\ UNCHANGED <<is_sending, disconnecting, slotVars, buf, camVars, fb_idx,
                 fb_sz, wire, frame_count, cur, curStale, captured, dropped>>

\* The break at the end of the loop body, after max_frames frames.
AfterBody(count) == IF count >= MaxFrames THEN "done" ELSE "head"

FrameReady == has_frame[ready_idx] /\ ready_size[ready_idx] > 0

\* Mutated form: a pop that does not mark the slot empty.
NetPop_KeepsFrame ==
  /\ netPc = "pop" /\ FrameReady
  /\ fb_idx' = ready_idx /\ fb_sz' = ready_size[ready_idx]
  /\ netPc' = "length" /\ wire' = <<>>
  /\ cur' = frameOf[ready_idx] /\ curStale' = stale[ready_idx]
  /\ dropped' = FALSE
  /\ UNCHANGED <<is_sending, disconnecting, slotVars, buf, camVars,
                 frame_count, captured>>

\* pop_ready_frame finds a frame and claims it.
NetPop ==
  /\ netPc = "pop" /\ FrameReady
  /\ fb_idx' = ready_idx /\ fb_sz' = ready_size[ready_idx]
  /\ has_frame' = [has_frame EXCEPT ![ready_idx] = FALSE]
  /\ ready_size' = [ready_size EXCEPT ![ready_idx] = 0]
  /\ netPc' = "length" /\ wire' = <<>>
  /\ cur' = frameOf[ready_idx] /\ curStale' = stale[ready_idx]
  /\ dropped' = FALSE
  /\ UNCHANGED <<is_sending, disconnecting, active_idx, ready_idx, frameOf,
                 stale, buf, camVars, frame_count, captured>>

\* pop_ready_frame finds nothing: keep-alive or sleep, then the loop's end.
NetIdle ==
  /\ netPc = "pop" /\ ~FrameReady
  /\ netPc' = AfterBody(frame_count)
  /\ UNCHANGED <<is_sending, disconnecting, slotVars, buf, camVars, fb_idx,
                 fb_sz, wire, frame_count, cur, curStale, captured, dropped>>

\* The length goes out ahead of the payload; a failure ends the session.
NetSendLength ==
  /\ netPc = "length"
  /\ \/ netPc' = "payload" /\ UNCHANGED is_sending
     \/ netPc' = "done" /\ is_sending' = FALSE
  /\ UNCHANGED <<disconnecting, slotVars, buf, camVars, fb_idx, fb_sz, wire,
                 frame_count, cur, curStale, captured, dropped>>

\* One chunk of the payload is read from the claimed buffer and sent.
NetSendChunk ==
  /\ netPc = "payload" /\ Len(wire) < fb_sz /\ is_sending
  /\ wire' = Append(wire, buf[fb_idx][Len(wire) + 1])
  /\ UNCHANGED <<is_sending, disconnecting, slotVars, buf, camVars, netPc,
                 fb_idx, fb_sz, frame_count, cur, curStale, captured, dropped>>

\* The loop over the payload ends: everything is sent or the flag is down.
\* The frame counts either way.
NetFrameSent ==
  /\ netPc = "payload" /\ (Len(wire) = fb_sz \/ ~is_sending)
  /\ frame_count' = frame_count + 1
  /\ netPc' = AfterBody(frame_count')
  /\ UNCHANGED <<is_sending, disconnecting, slotVars, buf, camVars, fb_idx,
                 fb_sz, wire, cur, curStale, captured, dropped>>

\* A chunk cannot be sent: the flag goes down and the payload loop ends.
NetChunkFails ==
  /\ netPc = "payload" /\ Len(wire) < fb_sz /\ is_sending
  /\ is_sending' = FALSE
  /\ frame_count' = frame_count + 1
  /\ netPc' = AfterBody(frame_count')
  /\ UNCHANGED <<disconnecting, slotVars, buf, camVars, fb_idx, fb_sz, wire,
                 cur, curStale, captured, dropped>>

NetStep ==
  \/ NetHead \/ NetPop \/ NetIdle \/ NetSendLength \/ NetSendChunk
  \/ NetFrameSent \/ NetChunkFails
-----------------------------------------------------------------------------
(* The packet loop, which runs the callbacks.                              *)

\* camera_wt_callback on close, stop_sending or stream_reset.
StopEvent ==
  /\ is_sending
  /\ is_sending' = FALSE
  /\ UNCHANGED <<disconnecting, slotVars, buf, camVars, netVars, captured,
                 dropped>>

\* The connection starts to close; camera_wt_callback ignores the event that
\* says so (application_close, stateless_reset) and the flag stays up.
Disconnect ==
  /\ ~disconnecting
  /\ disconnecting' = TRUE
  /\ UNCHANGED <<is_sending, slotVars, buf, camVars, netVars, captured,
                 dropped>>

\* camera_path_callback on a CONNECT, the previous pair of threads being gone:
\* a new pair starts.  The buffers are left as the previous session left them.
Connect ==
  /\ ~is_sending /\ camPc = "done" /\ netPc = "done"
  /\ is_sending' = TRUE /\ disconnecting' = FALSE /\ frame_count' = 0
  /\ camPc' = "head" /\ backlog' = FALSE
  /\ netPc' = "head"
  /\ stale' = [b \in Bufs |-> TRUE]
  /\ UNCHANGED <<active_idx, ready_idx, has_frame, ready_size, frameOf, buf,
                 jpegSize, copied, fb_idx, fb_sz, wire, cur, curStale,
                 captured, dropped>>

LoopStep == StopEvent \/ Disconnect \/ Connect

Next == CamStep \/ NetStep \/ LoopStep

Spec == Init /\ [][Next]_vars

\* Both threads are scheduled by the operating system and never wait for more
\* than a lock that is released or a call that returns.
FairSpec == Spec /\ WF_vars(CamStep) /\ WF_vars(NetStep)
-----------------------------------------------------------------------------
TypeOK ==
  /\ is_sending \in BOOLEAN /\ disconnecting \in BOOLEAN
  /\ active_idx \in Bufs /\ ready_idx \in Bufs
  /\ has_frame \in [Bufs -> BOOLEAN]
  /\ ready_size \in [Bufs -> 0..MaxChunks]
  /\ buf \in [Bufs -> [Chunks -> Nat]]
  /\ camPc \in {"head", "observe", "drop", "capture", "copy", "publish", "done"}
  /\ backlog \in BOOLEAN
  /\ jpegSize \in 0..MaxChunks /\ copied \in 0..MaxChunks
  /\ netPc \in {"head", "pop", "length", "payload", "done"}
  /\ fb_idx \in Bufs /\ fb_sz \in 0..MaxChunks
  /\ wire \in Seq(Nat)
  /\ frame_count \in Nat /\ captured \in Nat /\ cur \in Nat
  /\ frameOf \in [Bufs -> Nat] /\ stale \in [Bufs -> BOOLEAN]
  /\ curStale \in BOOLEAN /\ dropped \in BOOLEAN

Holding == netPc \in {"length", "payload"}
Writing == camPc \in {"copy", "publish"}

\* A frame can only be torn, and the camera can only write the buffer that is
\* being sent, after the camera discarded a newer frame while this one was on
\* its way: a network thread that takes less than MAX_BACKLOG_DELAY_US per frame
\* always sends whole frames.
TearNeedsDrop ==
  Holding /\ ~dropped =>
    /\ \A i \in DOMAIN wire : wire[i] = cur
    /\ Writing => active_idx # fb_idx

\* The buffers survive a session, and so may one frame of an earlier session:
\* it can only be the first that the new session sends.
StaleFrameFirst == Holding /\ curStale => frame_count = 0

\* A published frame is complete: the buffer it is claimed from holds its bytes
\* in every chunk its announced size covers.
ReadyFrameWhole ==
  \A b \in Bufs : has_frame[b] =>
    /\ b = ready_idx /\ ready_size[b] > 0
    /\ \A c \in 1..ready_size[b] : buf[b][c] = frameOf[b]

\* The double buffer implements the mailbox: frames are claimed in the order
\* of their capture, none twice, none overwritten while it waits.
Mailbox == INSTANCE FrameMailbox WITH
             produced <- captured,
             slot <- IF has_frame[ready_idx] THEN frameOf[ready_idx] ELSE 0,
             taken <- cur
MailboxSpec == Mailbox!Spec

\* Once the flag is down both threads exit by themselves.
StopLeadsToExit == ~is_sending ~> (camPc = "done" /\ netPc = "done")
=============================================================================
