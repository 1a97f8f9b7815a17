# mQUIC: specification and proofs

mQUIC streams JPEG frames from a camera to a client over QUIC and WebTransport,
on as many network paths as the connection has.  This directory holds TLA+
models of its own code (about 10 000 lines of C and C++), the TLC runs that
check them on small instances, and TLAPS proofs of their main safety properties.
Paths below are relative to the repository; `PROJECT.json` says for every
definition which lines it models.

Contents: [the system](#1-the-system), [what can go wrong](#2-what-can-go-wrong),
[modules](#3-modules), [runs](#4-runs), [fairness](#5-fairness),
[proofs](#6-proofs), [divergences](#7-where-the-code-and-its-comments-differ),
[limits](#8-what-is-not-modelled), [plan](#9-plan).

## 1. The system

| Component | Source | State | Operations |
|---|---|---|---|
| Double buffer and its threads | `src/quic_server.c` 200-385, `src/camera.cpp` | two buffers, `active_idx`, `ready_idx`, `has_frame`, `ready_size`, under `fb_lock`; backlog clock | `camera_thread_func`: capture, drop after 200 ms, publish; `pop_ready_frame`; sending of length and payload |
| Session life cycle | `src/quic_server.c` 386-581 | `is_sending`, `cnx`, the two thread handles, `mp.bind` | `camera_path_callback` (CONNECT), `camera_wt_callback` (close, stop_sending, reset), `run_server`'s end |
| Paths and streams | `src/quic_server.c` 140-194, 285-380, `src/path_algo.c` | `mp.bind` by path index, `last_send`, `next_probe_us` | choice of the path by round-trip time, probes, `ensure_stream_for_path`, `finish_all_bindings` |
| Client program | `client/client_main.c` | one parser state (`frame_size`, `received_size`, `frame_buffer`), `g_running`, `exit_flag` | `client_cb`, `handle_sigint`, the loop of `main` |
| WebTransport client | `client/wt_client.c`, `client/wt_callback.c` | a list of streams, each with header and framing state | `wt_handle_stream_data`, `extract_jpegs`, `send_wt_control`, `client_cb` |
| Client HTTP/3 helpers | `client/h3zero_client.c`, `client/h3zero_qpack.c` | none | the CONNECT request |
| WebTransport library | `src/pico_webtransport.c` | session streams | `picowt_connect`, local streams, capsules |
| HTTP/3 request streams | `src/h3zero_common.c` 646-815, 1013-1412 | per stream: parser state, header flags, `path_callback`, `is_upgraded` | `h3zero_parse_data_stream`, server and client data, the request |
| HTTP/3 control and remote streams | `src/h3zero_common.c` 366-613, 868-907 | `settings`, prefixes, parser states | settings, session ids, hand-over to a session |
| Datagrams and capsules | `src/h3zero_common.c` 162-263, 1622-1793, 1914-2111 | the list of prefixes, ready flags, last session served; a capsule in parts | declare and delete prefixes, round robin, coding of settings, accumulation |
| HTTP/3 encoding | `src/h3zero.c` | none | variable-length and QPACK integers, header blocks, Huffman |
| Logger, entry points, trust anchors, pacing | `src/logger.c`, `main.c`, `client/tls_trust.c`, ... | files, clocks | output only |
| QUIC stack | picoquic, an external submodule | connections, paths, streams | calls the callbacks, carries the data |

How they interact.  The packet loop (one thread) runs every callback: HTTP/3
parses the request stream, hands a CONNECT to `camera_path_callback`, which
answers 200 and starts a camera thread and a network thread; from then on
the connection's callback is `camera_wt_callback`.  The two threads share the
double buffer and, with the packet loop, one `streamer_context_t`, of which only the
buffer has a lock.  The network thread also calls the stack (reads `cnx->path`,
opens streams, queues data) while the packet loop works on the same connection.
On the other side `client_cb` gets chunks of streams, cut anywhere, and writes
frames to disk.

What makes each part correct:

- double buffer: a frame is sent at most once, in order, whole, and with its own
  size; a frame that waits is not overwritten;
- session: the flag, the threads and the connection agree with each other; a stop
  ends both threads; nothing is freed under a running thread;
- paths: a stream carries the frames of the one path it is pinned to, starts with
  its header and ends with a FIN;
- every parser: what it delivers depends on the bytes of a stream, not on where the
  transport cuts them, and every call returns.

## 2. What can go wrong

`PROJECT.json` lists the hazards line by line.  Seven kinds carry the project:

1. *Data raced past its lock.*  The claimed buffer is read, and the active one
   written, without the lock.
2. *A flag polled by several owners.*  `is_sending` is set by a CONNECT, cleared by
   events and failures, and polled by threads of this and of earlier sessions.
3. *Names that move.*  Bindings go by path index, which shifts when a path is
   removed; `ctx->cnx` outlives its connection.
4. *Chunks.*  Varints, headers and bodies are cut by the transport; each parser keeps
   a partial state between calls, and each does it in its own way.
5. *State shared by streams*: the settings of the connection, and the one parser of
   the client for all its streams.
6. *Calls into the application*, which calls back: a prefix is deleted while a callback
   about it runs, a session marks itself while it is asked for a datagram.
7. *Widths.*  Prefix integers, varints, a length written before it is known, buffers
   that are just too small, and a hand-made decoding tree of 512 numbers.

`PROJECT.json` lists the hazards that weigh most; section 7 has the rest.

## 3. Modules

| Module | Models | Abstraction |
|---|---|---|
| `FrameMailbox` | what the double buffer promises: a mailbox for one frame | frames are numbers |
| `FrameBuffer` | both threads on the double buffer, a session after another | a critical section is a step; memcpy and sending take a step per chunk; a chunk holds the number of the frame it was copied from |
| `OneSession` | what the server promises its clients: one camera session at a time | threads, flags and paths are left out; an overlap ends the promise |
| `Session` | CONNECTs, closes, threads and shutdown for several connections | threads of all generations live side by side; frames and paths are left out |
| `PathBinding` | the choice of paths, their streams, and the stack's changes to paths | a stream is its number; round-trip times are 1..`MaxRtt` |
| `ClientReceiver` | `client_cb`, `main`'s loop and the signal | a byte is the varint that would start there |
| `H3DataStream` | `h3zero_parse_data_stream`, the parser of request streams: operators and steps for those who call it | the same; a header block decodes or not |
| `H3Client` | the client's request streams on top of it: `h3zero_process_h3_client_data`, the request's body | what the response says is a constant of the request |
| `H3RemoteStream` | control streams and WebTransport streams of the peer | the same; a settings block decodes or not |
| `H3Request` | `h3zero_process_h3_server_data` and `h3zero_process_request_frame` with `camera_path_callback` as the handler | what a call of the parser yields is a piece: a header, data, ... |
| `WtReceiver` | `client_cb` of the WebTransport client and `wt_handle_stream_data` | a byte is known by its position, and what varint or JPEG marker starts there |
| `PrefixTable` | what declaring and deleting prefixes promises: a table without duplicates | prefixes are model values |
| `WtPrefixes` | the doubly linked list of prefixes, its deletions and the callbacks in them | calls in progress are a stack |
| `WtDatagrams` | the round robin over the sessions that have datagrams (EXTENDS `WtPrefixes`) | a datagram is a count; a turn of a loop is a step |
| `H3Settings` | varints and the settings frame: pure operators | a byte is a part of a varint of some value and width |
| `Capsules` | `h3zero_protocol_init`, the capsules of a session, their two readers (EXTENDS `H3Settings`) | the same |
| `Huffman` | the decoding tree of `h3zero_qpack_huffman_*` and the code it is for | the numbers are those of the source |
| `Qpack` | the writers of header blocks and their parser (EXTENDS `Huffman`) | blocks are byte sequences; texts are constants with their real lengths |
| `FrameBufferProofs`, `SessionProofs`, `StreamProofs`, `H3RequestProofs`, `ClientReceiverProofs`, `H3ClientProofs`, `H3RemoteStreamProofs`, `WtLibraryProofs` | the theorems: in `StreamProofs` those of `PathBinding`, on the streams a server sends frames on, and of `WtReceiver`, on those a client reads them from; in `H3ClientProofs` also those of `H3DataStream`, in `WtLibraryProofs` those of `WtPrefixes`, `WtDatagrams`, `Capsules` and `H3Settings` | |
| `MC*` | instances for TLC | |

State and actions bear the names of the code: `active_idx`, `has_frame`,
`ready_size`, `is_sending`, `bind`, `current_frame_read` are its variables and
fields.  `camPc` and `netPc` say where a thread is; a value stands for a stretch
of code without a step of its own (`"observe"`: about to take the lock;
`"payload"`: in the loop over the chunks).  Variables marked *history* are not in
the code: they remember what a property speaks of, and no guard reads them.

Definitions called `X_Something`, marked *mutated form*, are no part of a
specification: each is `X` with a plausible bug, and shows that the
property paired with it in `PROJECT.json` notices.

**FrameBuffer.**  `CamHead`, `CamNoBacklog`/`CamBacklog`, `CamDrop`, `CamCapture`,
`CamCopy` and `CamPublish` are the loop of `camera_thread_func`.  Looking at the
backlog and dropping the frame are two steps, because the lock is released in
between.  `NetPop` is `pop_ready_frame`; `NetSendLength`, `NetSendChunk`,
`NetFrameSent` and `NetChunkFails` are the sending.  `Connect` starts the next
session and leaves the buffers as they were, as the code does.

**Session.**  A pair of threads is a generation.  `TakeOver` is the part of
`camera_path_callback` every outcome has (the context points to the new connection,
`quic_server.c:439`); `StartThreads` and `ConnectOnly` are its ends.  `NetStart`
to `NetFinish` are the network thread as far as it touches the context.  `LoopEnds`,
`TestFlag`, `JoinCamera`, `JoinNetwork` and `Cleanup` are the end of `run_server`.
`OneSession` is what a client may expect of all this as long as no CONNECT arrives
before the threads of the last session are gone (`clash`): the session is streaming
while `is_sending` is up and stopping while it is down and a thread is left, and its
owner is `cnx`.

**PathBinding.**  `PickSendPath` and `PickProbePath` are `path_algo.c`, `Ensure`
is `ensure_stream_for_path`.  `AddPath`, `Verify`, `Demote`, `RemovePath` and
`MeasureRtt` are the stack, modelled from what this code reads of it.

**ClientReceiver.**  `Deliver` is a call of `client_cb` with a chunk, and every
turn of its loop is `ReadLength`, `PartialLength` or `CopyPayload`.  `Fin` brings
bytes to the one event that does not look at them.  `Cleanup` and `QuicFree` are the end of
`main`: the buffer is freed, the pointer to it stays, and `picoquic_free` may bring one
more close event.

**H3DataStream, H3Client.**  `Receive` is a call with a chunk; a step of `Parse` is a
call of `h3zero_parse_data_stream`, which returns after each piece of a frame.  `Turn` of
`H3Client` is what `h3zero_process_h3_client_data` makes of each: it tells the
application the outcome (`TellOutcome`), opens the file, opens the flow control
(`FlowResults`), writes, each of which may fail, and a write may also be short (`Take`,
with the history `missed`); `EndOfStream` and `Return` end the call, and
`CallFailed` is the stack, which closes the connection then.  `PrepareToSend` is the body
of the request.

**WtReceiver.**  `Connect` is the acceptance of the session with its three control
messages.  `Deliver` is a call with a chunk, each other action a turn of the loop:
`WtHeader`, `AdoptLength` or `CutLength`, `Payload`, `FrameOver`, and `Accumulate`, where
JPEGs are looked for.  `Save` is `save_frame`, whose file may not open: `handed` has the
frames it was given, `saved` counts those with a file.  `bare` has the lengths behind which
no time stamp was taken, `outgrown` the streams in a frame their buffer could not grow for.

**WtPrefixes, WtDatagrams.**  `h3zero_delete_stream_prefix` unlinks the node and enters
the application; `Free` is the rest of the call.  In between the application may declare
and delete again.  `Prepare` to `MarkConnection` are `h3zero_callback_prepare_datagram`:
`loop` says which of its loops runs, and `Unasked`, `Sends`, `Refused` and `Silent` are
what may come of a session that is ready.

**H3Settings, Capsules.**  Bytes are `<<value, width, i>>`, so that a reader at a wrong
place reads nothing it could take for a number that was written.  `HeaderCut`, `NoBuffer`
and `Take` are the ends of a call of `h3zero_accumulate_capsule`.

**Huffman, Qpack.**  Every writer is an operator that yields a block or `NULL`; `Indexed`,
`LiteralPlusRef`, `LiteralPlusName` and `UnexpectedEncoding` are the branches of
`h3zero_parse_qpack_header_frame`, a field a step.  The reference the decoding tree is
checked against, octet by octet, is the code of RFC 7541, appendix B, built from its code
lengths (`OctetsOf`, `Codes`) and not from the tree.

**H3RemoteStream.**  `Deliver` is a call of the data callback, the steps of
`Parse` the stages of the parsers: the stream type, then the session id and the
data behind it (WebTransport), or type, length and body of frames (control).
After `Reject`, which is `picoquic_stop_sending`, data in flight still arrives and
meets the state the parser gave up in.

**H3Request.**  `Deliver` is a call with some pieces of a request and perhaps the FIN,
the `Turn` actions are the turns of its loop, one kind of piece each (`TurnBroken` is a
header block that is counted before its decoding fails), and the end of the
call is one of the actions from `NotProcessed` to `ConnectRefused`, one for each outcome.
`StreamReset` and `CnxClosed` come between calls.  Once a CONNECT has reached
`camera_path_callback` the connection is `Session`'s (`wt`), and `OneConnect` is what
`Session` takes for granted: one CONNECT per connection.

## 4. Runs

| Run | Question | Instance | Result |
|---|---|---|---|
| `frame_buffer` | Is the double buffer a mailbox, are published frames whole, when can a frame be torn, and do the threads exit? | `MaxChunks` 2, `MaxFrames` 3, `MaxCaptures` 4 | `TearNeedsDrop`, `StaleFrameFirst`, `ReadyFrameWhole`, `MailboxSpec`, `StopLeadsToExit` hold |
| `session` | Do flag, threads, connection and bindings agree; does a quiet stop end all threads? | 2 connections, `MaxGen` 2 | `FlagMeansCamera`, `FlagMeansConnection`, `JoinedCleanup`, `OneSessionSpec`, `QuietStop` hold |
| `session_exit` | Does a stop end the threads that run? | the same | `StoppedThreadsExit` is violated |
| `path_binding` | Do streams stay with their paths, and get their FIN? | 3 path ids, `MaxPaths` 2, `MaxRtt` 2, symmetric ids | `BoundToItsPath`, `EveryStreamFinished` hold |
| `client_receiver` | Do the saved frames depend on the chunks? | 2 streams of 3 bytes with any contents, `MaxFrames` 2 | `ChunksDoNotMatter`, `CallbackReturns` hold |
| `wt_receiver` | The same for the WebTransport client, with headers, optional time stamps, JPEG markers and files that may not open; does what is gathered fit its buffer, whatever memory fails? | 2 streams, seven contents, `MaxFrames` 3, buffers of 1 at first | `FramesSaved`, `BufferFits` hold |
| `h3_remote` | The same for the streams the peer opens: control streams, which share the settings, and WebTransport streams | 2 streams, any two of a list of contents | `FramesHandled`, `SettingsFirst`, `SessionStreamComplete`, `CallEnds` hold |
| `h3_request` | Is the handler called, and every request answered, once and at the right time? | 2 streams, requests of every method with up to four pieces, undecodable header blocks among them | `PostSequence`, `OneConnect`, `EndDealtWith`, `AnsweredOnce` hold |
| `h3_client` | Does the client deliver, write, tell and close according to the frames of a response alone, when opening, writing and flow control may fail and writes be cut short? | responses of 9 bytes, up to three frames; six kinds of request | `DataComplete`, `FileComplete`, `ClosedRightly`, `OutcomeTold`, `CallReturns` hold |
| `wt_sessions` | Is the list of prefixes a table, is no session forgotten or starved, does a teardown end? | 3 sessions, 3 declarations, 2 nodes of a prefix, one waiting datagram each, one trouble | `LinksAgree`, `ConnectionReady`, `TableKept`, `NoStarvation`, `TeardownEnds` hold |
| `capsules` | Does a peer read the settings that were encoded; are capsules handed on whole; is a close reported as it was sent, and nothing of it by other capsules? | 128 settings into 10 rooms; 2 of 13 capsules, chunks of 5 sizes | `SettingsUnderstood`, `CapsulesRead`, `CloseReported` hold |
| `qpack` | Does the parser read what was written, by a peer or by the program? | blocks of up to two of 27 fields, every octet in the Huffman code, every own message with and without its optional fields into rooms up to 200 | `FieldsRead`, `WrittenIsRead` hold |

Why the bounds are enough.

- *FrameBuffer*: a frame of one chunk and one of two make a tear and a wrong
  size visible; it takes three captures to tear a frame (one being sent, one
  dropped, one written), and a fourth lets the buffers go round twice.  Three
  frames sent reach `max_frames` and a further session.
- *Session*: everything said is about two connections or two generations: the old
  and the new.
- *PathBinding*: two indices and three ids let a path be removed, another move up
  and a third come after it.  Two round-trip times give a tie and an order.
- *H3Request*: a second stream is enough for a second CONNECT, and no action
  touches two streams; two pieces of data make a first and a later one, together or
  in calls of their own.
- *WtPrefixes*: three nodes are a first, a middle and a last one; the second node of a
  prefix is its next life while the first is being freed.
- *WtDatagrams*: with three sessions one can be asked before, one behind the session that
  sent last.  One waiting datagram is enough, because a session that sends may have a new
  one at once (`new`), so that a session can send for ever.
- *Capsules*: the lengths of capsules and settings lie on both sides of the widths of
  varints (63/64, 16383/16384, 2^30); messages fill a buffer of 80 bytes (the code's 1024)
  and exceed it by one.  A second capsule shows whether the first left anything behind.
- *Qpack*: a field's effect on a later one shows with two fields; integers go through all
  their forms, at each of the masks.
- *Parsers*: varints of one and two bytes can be cut, and a stream of two or three
  short frames has every boundary there is: inside a type, between type and length,
  inside a body, between frames.  The contents are all (client) or a chosen
  list of legal and illegal streams (HTTP/3); the cuts are all of them.

Deadlock is checked in the runs of `FrameBuffer` and `PathBinding`; the others end by
design (the server or client is gone, or all bytes have been delivered), so their cfgs
turn the check off.

## 5. Fairness

Threads are scheduled: `CamStep` and `NetStep` of `FrameBuffer`, and in `Session` the
steps of each generation, are weakly fair.  A thread waits only for a lock that is
held for a few assignments, or in a call or sleep that returns.  A callback is
a loop in one thread, so the steps of a parser are weakly fair too.  Nothing is
assumed of clients, of the network, of `camera_capture_jpeg`, which may fail for ever, or of
the packet loop, which need not deliver an event; only a connection that is marked as
ready is asked for a datagram sooner or later.

## 6. Proofs

For every value of the constants TLAPS proves:

- `FrameBufferProofs`: `TypeCorrect`, `TearNeedsDropHolds`, `ReadyFrameWholeHolds`,
  `StaleFrameFirstHolds`, and `MailboxRefinement`: `FrameBuffer` implements
  `FrameMailbox`;
- `SessionProofs`: `TypeCorrect`, `FlagMeansCameraHolds`, `FlagMeansConnectionHolds`,
  `JoinedCleanupHolds`, and `OneSessionRefinement`: `Session` implements `OneSession`;
- `StreamProofs`: `BoundToItsPathHolds`, `EveryStreamFinishedHolds` of `PathBinding`;
  `BufferFitsHolds`, `FramesSavedHolds` of `WtReceiver`;
- `H3RequestProofs`: `TypeCorrect`, `OneConnectHolds`, `EndDealtWithHolds`,
  `AnsweredOnceHolds`, `PostSequenceHolds`;
- `ClientReceiverProofs`: `Invariance`, `ChunksDoNotMatterHolds`;
- `H3ClientProofs`: `ClientInvariance`, `DataCompleteHolds`, `ClosedRightlyHolds`,
  `FileCompleteHolds`, `OutcomeToldHolds`;
- `H3RemoteStreamProofs`: `Invariance`, `SettingsFirstHolds`, `SessionStreamCompleteHolds`,
  `FramesHandledHolds`;
- `WtLibraryProofs`: `Invariance`, `LinksAgreeHolds`, `ConnectionReadyHolds`, and
  `TableRefinement`: the list of prefixes implements `PrefixTable`; `CapsulesInvariance`,
  `CapsulesReadHolds`, `CloseReportedHolds`, `SettingsUnderstoodHolds` of `Capsules`.

The assumptions are the named ones of the modules: sizes and bounds are natural
numbers (positive where an array needs an element), the null values are not
elements of the sets they are null for, and what a stream carries are bytes with the width
and the value of the varint that would start there; capsules are octets behind a type and
a length in any of the four widths of a varint, and the code of a close has four bytes
(`CapsulesAssumption`); settings are flags and counts that a varint can hold, or the
value that stands for none (`SettingsAssumption`).  One says more:
`RequestsAssumption` of `H3Request` keeps to the pieces the parser can yield, data
only behind a header (`h3zero_common.c:702`) and, behind the header of a WebTransport
stream, no method (709, 720).

The theorems are about the specifications without fairness; those with it, which the
runs use for liveness, imply them.

The arguments.

- *FrameBuffer.*  None of the properties is inductive.  `IndInv` adds that the two
  indices differ and only `ready_idx` can hold a frame (`RolesInv`), that the bytes
  copied so far are those of the frame being captured (`CopyInv`), that a waiting
  frame is whole and newer than the one claimed (`ReadyInv`), that a claimed frame stays
  whole while no newer one was dropped, because its buffer is the ready one or a
  newer frame waits there, and then the camera does not capture (`ClaimInv`), and that a frame of an earlier
  session can only be the first (`StaleInv`).  The refinement maps publish, pop
  and drop to `Put`, `Take` and `Discard`, and everything else to a stutter;
  that `Put` finds the mailbox empty is where `IndInv` is needed.
- *Session.*  `FlagMeansCamera` needs that the flag goes up only with a new camera
  (`FlagMeansCamera` is itself inductive with `TypeOK`); `ConnectionInv` ties `cnx` to
  `wt`; `OwnershipInv` says that without a clash only the newest generation sends
  and its binding is on `cnx` or none; `JoinInv` follows the two joins.  The refinement
  maps a CONNECT that starts a thread to `Begin`, what lowers the flag to `Stop`, the
  exit of the last thread to `End`, and everything else but sending to a stutter.  That
  the flag is not up when the last thread goes needs `FlagMeansCamera`, and that the
  stream is the owner's needs `OwnershipInv`; a step that sets `clash` is `Overlap`.
- *PathBinding.*  `NoStreamLost` says every stream opened is still in the binding of
  some index, without which the FIN of `EveryStreamFinished` could not be counted.
- *H3Request.*  `OneConnect` follows from `Taken`: a handler that saw a CONNECT has the
  connection, and then no call of HTTP/3 is running.  `EndDealtWith` needs `Completed`: a
  call with the FIN that skips the answer has handed the end to the handler.
  `AnsweredOnce` needs `AnswerEnds`: what was answered is finished, ended or a session, so
  that a stream of the call is empty or takes nothing more (`FirstAnswer`).

  `PostSequence` has an invariant of its own, `PostInv`, which says of each POST what is
  known of it: its header is found exactly if a piece before `at` was one, `post_received`
  exactly if a piece was data, and the calls its handler got are those due for these pieces
  (`Due`), in order.  A call that carries a POST never skips the processing of its end.
- *ClientReceiver.*  While nothing was skipped or mixed, every stream but the one in hand
  stands at a boundary of its frames (`FrameInv`); the one in hand may be inside a frame,
  and then the buffer holds the bytes of it that came before (`InFrame`).  `SavedInv` is
  the property, with the bytes seen in place of the chunks.  The lemma `Chain` is what
  makes it go through: two lengths in a row have no boundary between them.
- *WtReceiver.*  A turn of the loop changes no stream but the one in hand (`TurnTo`), so
  each action is followed for that one stream.  `TypeInv` has to say that what is
  gathered of a frame by length is never more than the frame (`Framed`), also after
  memory ran out: otherwise the next turn would go back in the chunk.  `BufferFits` rests
  on it, and, for JPEG markers, on what `extract_jpegs` leaves (`ExtractFacts`: the frames
  are not empty and the rest is no longer than its buffer).  For `FramesSaved`,
  `StreamsInv` says of each stream with whole headers where it stands: its header is
  to come, the next length is next (`Between`), or the buffer holds the bytes of the
  payload so far (`InFrame`); and that the frames before were handed over (`SavedIn`).  `Chain`
  has here the same part as in `ClientReceiver`.
- *H3Client.*  `ParserInv` is about `h3zero_parse_data_stream` alone: the parser is in the
  frame of a boundary (`At`), what it has found agrees with the frames before (`Agrees`),
  it delivered the bytes of data frames so far (`DataInv`), and an error has its reason in
  the stream (`ErrorInv`).  `FileInv`, `ToldInv` and `OpenInv` are about the caller: a
  failed write stays in `ret` until the connection is closed, the header is required until
  it is found, and the outcome is told in the turn that finds it.  `FileInv` had to say
  when `FlowResults` may take a failure back: only before there was one; and that what short
  writes left out was delivered and is not in the file.
- *H3RemoteStream.*  `StreamInv` says of each stream that was not refused where it is: a
  varint is being gathered (`Gathering`), the session has what came so far (`SessionAt`),
  or a control stream is in the frame of a boundary (`ControlAt`) and the frames before were
  handled (`HandledUpTo`).  A stream of a declared session is never refused.
  `SettingsInv` relates the settings, which all streams share, to the frames handled.
- *WtPrefixes, WtDatagrams.*  `IsList` says that the nodes linked are a sequence, read
  forwards and backwards, without a prefix twice, and that everything else in memory is
  being deleted, one node for each call of `h3zero_delete_stream_prefix`.
  `LinksAgree` and the refinement follow.  `LoopInv` is what makes
  `ConnectionReady` true across the loops of a poll: a marked session is still to be asked,
  or `still_active` holds.
- *Capsules.*  `WireInv` gives each capsule sent its place in the stream (`Places`) and
  says which bytes stand there (`ByteAt`); a place is added with each capsule, so no
  induction is needed.  `ReadInv` says of the reader that it stands between two capsules
  (`Fresh`), in the header of one (`InHeader`), in its value (`InValue`) or behind it
  (`Stored`), and that its fields are a function of the place (`Partly`, `Known`).
  `HeaderRead` is the core: what is gathered of a header is its beginning, wherever the
  chunks end, because the first byte of a varint tells how many belong to it.  It is also
  what keeps `picowt_receive_capsule` from reading a number that is cut.
- *Settings.*  `Encoded` follows the five components of `h3zero_settings_encode` with the
  invariant `WrittenUpTo`, moves them behind the real length (`VarintMoved`), and says when the
  room suffices.  `KeysAre` finds the keys of a frame as the places where components were
  laid (`Laid`), and `LaidDecoded` reads the values there.

Some proofs speak of boundaries, which are defined by recursion along the stream, or of
`extract_jpegs`, which goes on behind each JPEG.  They use the least counterexample in place of an induction (lemma `Least`, from
`WellFoundedInduction`), and get the equation of the recursive function from
its least fixed point, a set.

Only model-checked:

- the liveness properties (`StopLeadsToExit`, `QuietStop`, `CallbackReturns`,
  `CallReturns`, `CallEnds`, `NoStarvation`, `TeardownEnds`), which need `ENABLED`;
- `FieldsRead` and `WrittenIsRead`: what the parser of header blocks makes of what a writer
  wrote, byte by byte, by induction over the data.

## 7. Where the code and its comments differ

Checked, with a counterexample from TLC:

- *Threads revived* (`session_exit`).  A CONNECT between the lowering of the flag
  and the threads' next look raises it again, and two pairs run on one context.

In the models, without a run of their own.  The server:

- when sending takes longer than 200 ms and a newer frame waits, the camera drops that
  frame and captures into the buffer that is still being sent (`quic_server.c:250`):
  `TearNeedsDrop` says that nothing else tears a frame;
- if no stream could be opened for a path, the frame is written to stream id 0 (319);
- `h3zero_common.c:557` tests `current_frame_type` where `stream_type` was read, so a
  bidirectional WebTransport stream is refused if its first chunk ends inside the type;
- a CONNECT is answered by `camera_path_callback` and by its caller, with two header
  frames in a row, which the parser of `h3zero_common.c` takes for a bug (639);
- `run_server` joins the threads only if the flag is still up (`quic_server.c:571`); after
  a close event it is down, and the camera and the buffers are freed while threads may
  run; `JoinedCleanup` is about the shutdowns that join;
- a CONNECT whose stream has had data is a duplicate, whose -1 is overwritten
  (`h3zero_common.c:1112`), so that a header frame without a block and a FIN go out;
- a reset of a stream without a handler makes the server's callback return 1
  (1226), which the stack takes for an error of the connection;
- after a parse error the request is still processed, because `picoquic_close`
  returns 0 (1244), also one whose header block cannot be decoded, since `header_found` is
  set before (775-783, 1311-1314): it is answered with what was decoded of it;
- frames go out without a time stamp (`quic_server.c:328-352`), but the WebTransport client
  takes the varint behind a length for one if it has come in full with the length
  (`wt_client.c:294-297`): it then saves the JPEG without the bytes of this varint, eight
  as a JPEG begins with FF.  `FramesSaved` says which bytes are saved, not that they are
  the server's frame;

The client program:

- `main` frees the frame buffer without clearing the pointer (`client_main.c:306-308`), and
  a close event out of `picoquic_free` frees it again (149-152);
- it saves more than `--max-frames` frames if a chunk holds more
  (`client_main.c:139`), and nothing reads the flag of its signal handler (319);
- a frame length cut by a chunk is lost (`client_main.c:95`), as are bytes that come
  with a FIN (146), and all streams share one parser (88): `ChunksDoNotMatter` names
  these three as its conditions;
- a client whose buffer could not be allocated, or was freed by a close
  event, spins in its callback (`client_main.c:111`); `CallbackReturns` excludes it;

HTTP/3 and paths:

- two control streams can both have their SETTINGS handled (`h3zero_common.c:449`,
  "There should be just one setting frames." at 421), and an empty SETTINGS frame,
  for which no buffer is allocated, is an error (496);
- a probe of an unverified path writes nothing (`quic_server.c:309`, against
  `path_algo.c:84`);
- the end of a control stream does not close the connection (423 says it does);
- a stream copies the callback of its session's prefix (532) and keeps it when the prefix
  is deleted;
- on the client the outcome of a request is told again on every turn behind the header in
  the same call (1340); bytes behind an accepted upgrade go through the frame parser if
  they share its chunk and raw to the application if they do not (1455); with a callback
  a FIN does not check that the frame was complete, and without one a FIN inside a frame
  header goes unnoticed (1393).  Nothing in the repository sets `is_open` or
  `is_upgrade_requested`; the model's requests do.  A request without a file name on a
  connection with `no_disk` = 0 would write to a NULL file (1374): the model has none;
- a short write counts as success (1374, `fwrite(...) > 0`): the rest of the piece is missing
  in the file and the connection goes on.  `FileComplete` leaves out these bytes only;
- the header of a WebTransport stream has no status, so that it tells an application
  "refused" (1350-1358).

The WebTransport client:

- a stream header or a frame length cut by a chunk drops the rest of the chunk
  (`wt_client.c:262`): `FramesSaved` leaves such streams out;
- a time stamp counts only if it is whole in the chunk of its length; a frame shorter than
  its time stamp turns to JPEG markers for good, although the comment in line 41 says that
  framing by length, once detected, stays;
- the call that reaches the limit of frames returns without resetting the frame, so a
  further call on the stream saves it again; when a buffer cannot grow the length stays
  adopted, and the bytes of that frame do not fit (302): `BufferFits` leaves out the stream
  while it is in that frame;
- a frame whose file cannot be opened is lost and does not count towards the limit (155),
  and whether `fwrite` took all of it is not looked at: `FramesSaved` says what is given to
  `save_frame`.

Prefixes and datagrams:

- an application that deletes its own prefix from the datagram callback frees the node the
  loop goes on with (`h3zero_common.c:1744`), and one that marks another session, already
  polled, is overruled when nothing is sent (1772, against the comment in 1716).  The
  model's application does neither;
- a session that is not asked because there is hardly room loses its mark (1703, 1713):
  the history variable `unheard` names those;
- sessions declared and deleted for ever can keep another from its turn, because new ones
  come behind the last sender; `MaxDeclared` bounds this.  An application that declares a
  prefix in every callback of a teardown keeps it from ending; the model's does not;
- `last_datagram_prefix` starts as 0, which may be a session (`Zero`).

Capsules and header blocks:

- `h3zero_accumulate_capsule` resets some fields behind a stored capsule, but neither
  `is_length_known` nor `value_read` (2035-2042), so the next capsule is only read well
  after `h3zero_release_capsule`.  The model's application releases;
- it refuses a capsule without a value (2093), such as the one that
  `picowt_send_drain_session_message` writes: `CapsulesRead` says so;
- `picowt_receive_capsule` never says which capsule it read (`pico_webtransport.c:191-208`
  writes a code and a message only): a close with code 0 and no message looks like any
  other capsule that is whole, drains among them.  `CloseReported` is about what it does say;
- an index equal to the number of entries passes the check of `h3zero.c:566`
  (`s_index > h3zero_qpack_nb_static`), and a Huffman string of more than 256 octets is
  cut instead of refused;
- a status of value 0 ("0" or an empty text) passes for none, so that a second `:status` is
  accepted and counts (`h3zero.c:456`, 591), against the comment "Duplicate" there; a status
  of more than nine digits overflows an `int` (371) and is not among the fields of the run;
- without a server string, an error frame whose buffer has less than four bytes left gets
  out with a status that has no value (985-994); the parser refuses it.  No caller here
  leaves the string out;
- the client's header block begins with a byte and plain varints that no form of the
  parser is made for (`h3zero_qpack.c:40`), and so does `picowt_connect`'s: `WrittenIsRead`
  says for which blocks writer and parser agree.  Behind the client's `00 07` the text
  ":method" reads as a literal with the Huffman name "me" and a value of 116 bytes ("t"):
  with 45 bytes of path and host the block ends there and is accepted, as a request without
  method and path; with more, it depends on the bytes behind.

## 8. What is not modelled

- The *QUIC stack*: external.  A connection closes and is freed in its own time,
  streams deliver their bytes in order and in chunks of any size, an empty FIN comes
  with a pointer that is not null (with a null pointer the parsers of remote streams
  would take it for a refusal), data may follow a `picoquic_stop_sending`.
- *Races inside a step.*  `Session` and `PathBinding` let the stack act between any two
  steps of the network thread, but not within one: between picking a path and
  opening its stream `cnx->path` could shift as well.
- *Calls into the stack from two threads* at once: whatever they break in the stack is
  outside these sources.
- *Camera, JPEG coding, TLS, trust anchors, logging, command lines.*  Capturing is an action
  that fails or yields a frame of some size.
- *Prefixes* of WebTransport sessions are a constant of `H3RemoteStream`, and none is
  declared in `H3Request`: nothing in the server declares one.  `WtPrefixes` has their
  declaration and deletion.
- *The arrival of a datagram* finds a prefix and calls the application; nothing changes.
- *Later data of an answer* (the echo of a GET): `H3Request` sends the header only.
- *The applications* of prefixes, datagrams and capsules are not in the repository; the
  models have one that does what the interface allows, with the exceptions of section 7.
- `src/client/h3zero.c` and the other copies in `src/client` and `quic_server.c.orig`
  are compiled into no target.
- `PROJECT.json` gives the status of every component.

## 9. Plan

Done, with proofs: `FrameMailbox`, `FrameBuffer`, `OneSession`, `Session`, `PathBinding`, `H3Request`,
`ClientReceiver`, `WtReceiver`, `H3DataStream`, `H3Client`, `H3RemoteStream`,
`PrefixTable`, `WtPrefixes`, `WtDatagrams`, `H3Settings`, `Capsules`.  Done, with TLC:
`Huffman`, `Qpack`.

Next: lemmas about the parts of `Qpack` that do not recurse (prefix integers, the choice of
a table entry), as far as they go without induction over data.
