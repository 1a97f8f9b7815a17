------------------------------ MODULE H3Client ------------------------------
(***************************************************************************)
(* A request of the client (src/h3zero_common.c): its answer, which        *)
(* h3zero_process_h3_client_data takes out of the frames that the parser   *)
(* of H3DataStream finds, writes to a file and tells the application of,   *)
(* and its body, which h3zero_callback_prepare_to_send sends.              *)
(*                                                                         *)
(* Nothing in this repository opens such a stream: what the application    *)
(* chooses (a callback, a file, a request to upgrade) is in the initial    *)
(* states.  A call of h3zero_callback_data is Call, a Turn for each call   *)
(* of the parser, and Return; an error it returns makes the stack close    *)
(* the connection (external).                                              *)
(***************************************************************************)
EXTENDS H3DataStream

CONSTANTS
  LargeFrame,    \* 0x100000: the flow control opens for frames from this length on
  Requests,      \* what the application may ask for, and how it is answered
  MaxSpace       \* bound: the most room there is for bytes of a request's body

ASSUME SizesAssumption == {LargeFrame, MaxSpace} \subseteq Nat
ASSUME RequestsAssumption ==
  Requests \subseteq [path_callback : BOOLEAN, to_disk : BOOLEAN, post_size : Nat,
                      is_upgrade_requested : BOOLEAN, is_success : BOOLEAN]

VARIABLES
  request,                  \* there is a callback; no_disk is 0 and there is a path;
                            \* the length of the body; an upgrade is asked for; the
                            \* status in the header of the answer is 2xx
  ready,                    \* the connection is established
  is_open, is_upgraded, file, flow_opened,   \* of the stream context
  inCall, fin, header_required, ret,         \* the call in progress
  post_sent, sent_fin,      \* the body of the request
  told, written, missed     \* history: the callbacks, the bytes in the file, those that
                            \* short writes left out of it

callVars == <<inCall, fin, header_required, ret>>
streamVars == <<is_open, is_upgraded, file, flow_opened>>
postVars == <<post_sent, sent_fin>>
fileVars == <<written, missed>>
clientVars == <<vars, request, ready, streamVars, callVars, postVars, told,
                fileVars>>
parserVars == <<at, headVars, frameVars, foundVars, delivered>>

ClientInit ==
  /\ Init
  /\ request \in Requests /\ ready = FALSE
  /\ is_open = TRUE /\ is_upgraded = FALSE /\ file = "none" /\ flow_opened = FALSE
  /\ inCall = FALSE /\ fin = FALSE /\ header_required = FALSE /\ ret = 0
  /\ post_sent = 0 /\ sent_fin = FALSE
  /\ told = <<>> /\ written = <<>> /\ missed = {}
-----------------------------------------------------------------------------
\* The connection is established: early data is over.
Established ==
  /\ ~inCall /\ ~ready /\ ready' = TRUE
  /\ UNCHANGED <<vars, request, streamVars, callVars, postVars, told, fileVars>>

Idle == ~inCall /\ ret = 0 /\ error = "none" /\ ~fin

\* Mutated form: the file is opened anew by every call.
h3zero_client_open_stream_file_Again ==
  IF request.to_disk
  THEN \/ file' = "open" /\ ret' = 0 /\ written' = <<>>
       \/ UNCHANGED <<file, written>> /\ ret' = -1
  ELSE UNCHANGED <<file, written>> /\ ret' = 0

\* The file is opened by the first call; it may not open.
h3zero_client_open_stream_file ==
  IF request.to_disk /\ file = "none"
  THEN \/ file' = "open" /\ ret' = 0 /\ written' = <<>>
       \/ UNCHANGED <<file, written>> /\ ret' = -1
  ELSE UNCHANGED <<file, written>> /\ ret' = 0

\* The stack brings bytes, the end of the stream, or both.  A chunk is not parsed
\* when the file does not open.
Call ==
  /\ Idle /\ is_open /\ ~is_upgraded
  /\ inCall' = TRUE /\ header_required' = ~header_found
  /\ h3zero_client_open_stream_file
  /\ \/ /\ ret' = 0 /\ Receive
        /\ fin' \in BOOLEAN
     \/ /\ ret' = 0 => Rest = 0
        /\ fin' = TRUE /\ UNCHANGED vars
     \/ ret' = -1 /\ fin' = FALSE /\ UNCHANGED vars
  /\ UNCHANGED <<request, ready, is_open, is_upgraded, flow_opened, postVars, told,
                 missed>>

\* Behind an accepted upgrade the application has the bytes as they come: they are not
\* parsed.
Posted ==
  /\ Idle /\ is_upgraded
  /\ fin' \in BOOLEAN
  /\ \E n \in 0..(Length - hand) : (n > 0 \/ fin') /\ hand' = hand + n
  /\ told' = Append(told, IF fin' THEN "post_fin" ELSE "post_data")
  /\ UNCHANGED <<content, parserVars, error, request, ready, streamVars, inCall,
                 header_required, ret, postVars, fileVars>>

\* The application hears of the answer with the header, and again with every turn
\* of that call behind it.  The header of a WebTransport stream has no status, which
\* is no success.
Success == request.is_success /\ ~is_web_transport
Outcome == IF Success THEN "accepted" ELSE "refused"

\* Mutated form: any header is good news.
TellOutcome_Always ==
  IF header_required /\ header_found'
  THEN /\ is_upgraded' = (is_upgraded \/ request.is_upgrade_requested)
       /\ told' = IF request.path_callback THEN Append(told, "accepted") ELSE told
  ELSE UNCHANGED <<is_upgraded, told>>

TellOutcome ==
  IF header_required /\ header_found'
  THEN /\ is_upgraded' = IF request.is_upgrade_requested THEN Success' ELSE is_upgraded
       /\ told' = IF request.path_callback THEN Append(told, Outcome') ELSE told
  ELSE UNCHANGED <<is_upgraded, told>>

\* A long frame opens the flow control, once the connection is established; that
\* may fail.
Opens == ~flow_opened /\ (current_frame_length' < LargeFrame \/ ready)
FlowResults == IF Opens /\ current_frame_length' >= LargeFrame THEN {0, -1} ELSE {ret}

\* Data goes to the file, unless the file or an earlier step of the call failed.  A
\* write that takes any bytes at all counts as done.
Take(available_data) ==
  /\ flow_opened' = (flow_opened \/ Opens)
  /\ \E flow \in FlowResults :
       \/ /\ request.to_disk /\ flow = 0 /\ ret' = 0
          /\ \E n \in 1..available_data :
               /\ written' = written \o [i \in 1..n |-> at + i - 1]
               /\ missed' = missed \cup (at + n)..(at + available_data - 1)
       \/ request.to_disk /\ ret' = -1 /\ UNCHANGED fileVars
       \/ ~request.to_disk /\ ret' = flow /\ UNCHANGED fileVars

\* A turn of the loop; it goes on when the data could not be written, and ends when
\* the parser finds an error.
Turn ==
  /\ inCall /\ Parse
  /\ UNCHANGED <<request, ready, is_open, file, inCall, fin, header_required,
                 postVars>>
  /\ IF error' = "none" THEN TellOutcome ELSE UNCHANGED <<is_upgraded, told>>
  /\ IF delivered' # delivered
     THEN Take(at' - at)
     ELSE UNCHANGED <<flow_opened, ret, fileVars>>

\* Mutated form: the last byte of a frame is not missed.
Incomplete_OffByOne == current_frame_read + 1 < current_frame_length

\* The last frame that has begun is not over.
Incomplete == current_frame_read < current_frame_length

\* The end of the stream goes to the callback; without one the stream is closed, with
\* its file, or the connection if a frame is not complete.
EndOfStream ==
  CASE request.path_callback ->
         told' = Append(told, "post_fin") /\ UNCHANGED <<is_open, file, ret, error>>
    [] ~request.path_callback /\ Incomplete ->
         /\ error' = IF error = "none" THEN "incomplete" ELSE error
         /\ ret' = 0 /\ UNCHANGED <<is_open, file, told>>
    [] OTHER ->
         /\ is_open' = FALSE /\ file' = IF file = "open" THEN "closed" ELSE file
         /\ UNCHANGED <<ret, told, error>>

\* The call ends.  The stack closes the connection if it failed.
Return ==
  /\ inCall /\ ~Busy
  /\ \/ fin /\ EndOfStream
     \/ ~fin /\ UNCHANGED <<is_open, file, ret, told, error>>
  /\ inCall' = FALSE
  /\ UNCHANGED <<chunkVars, parserVars, request, ready, is_upgraded, flow_opened,
                 fin, header_required, postVars, fileVars>>

CallFailed ==
  /\ ~inCall /\ ret # 0 /\ error = "none"
  /\ error' = "callback"
  /\ UNCHANGED <<chunkVars, parserVars, request, ready, streamVars, callVars,
                 postVars, told, fileVars>>
-----------------------------------------------------------------------------
(* The body of the request                                                 *)

\* The stack asks for bytes as long as there are some left; there may be no buffer
\* for them.
PrepareToSend ==
  /\ Idle /\ ~request.path_callback /\ ~sent_fin /\ post_sent < request.post_size
  /\ \/ \E space \in 0..MaxSpace :
          LET available == Smaller(space, request.post_size - post_sent)
          IN /\ post_sent' = post_sent + available
             /\ sent_fin' = (request.post_size - post_sent <= space)
             /\ UNCHANGED ret
     \/ ret' = -1 /\ UNCHANGED <<post_sent, sent_fin>>
  /\ UNCHANGED <<vars, request, ready, streamVars, inCall, fin, header_required,
                 told, fileVars>>
-----------------------------------------------------------------------------
ClientNext ==
  \/ Established \/ Call \/ Posted \/ Turn \/ Return \/ CallFailed \/ PrepareToSend

\* A call runs to its end, and the stack acts on what it returns.
ClientSpec ==
  ClientInit /\ [][ClientNext]_clientVars /\ WF_clientVars(Turn \/ Return \/ CallFailed)
-----------------------------------------------------------------------------
\* Whenever a call has returned and the connection has not been given up, the file of
\* a request has every byte of its data, once and in order, but for those of writes
\* that were cut short: data that could not be written at all, or for which the flow
\* control or the file could not be opened, costs the connection.
FileComplete ==
  LET bytes(list) == {list[i] : i \in DOMAIN list}
  IN request.to_disk /\ ~inCall /\ ret = 0 /\ error = "none" =>
       /\ bytes(written) = bytes(delivered) \ missed
       /\ \A i \in 1..(Len(written) - 1) : written[i] < written[i + 1]

\* The connection is closed for disorder and nothing else (ClosedForDisorder), and a
\* stream is closed as finished behind a complete frame only: never with a frame whose
\* header was read and whose payload is still missing.
ClosedRightly ==
  /\ ClosedForDisorder
  /\ ~is_open /\ error = "none" =>
       \A q \in Read : Value(q) # FrameWebtransport => EndOf(q) <= at

\* The application hears of the answer as soon as it is there, hears what the answer
\* is however often it is told, and is given bytes of the stream itself only behind
\* an accepted upgrade.
OutcomeTold ==
  LET outcomes == {i \in DOMAIN told : told[i] \in {"accepted", "refused"}}
  IN request.path_callback =>
       /\ \A i \in outcomes : told[i] = Outcome
       /\ header_found /\ ~inCall /\ error = "none" => outcomes # {}
       /\ \A i \in DOMAIN told : told[i] = "post_data" =>
            request.is_upgrade_requested /\ \E j \in outcomes : j < i /\ told[j] = "accepted"

\* A call returns, and the application is not called twice at once: no frame, empty
\* ones included, keeps the loop of a call going, whatever failed in it.
CallReturns == inCall ~> ~inCall
=============================================================================
