------------------------------ MODULE H3Request ------------------------------
(***************************************************************************)
(* Requests on the server: h3zero_process_h3_server_data calls the parser  *)
(* of H3DataStream in a loop and acts on the pieces it finds, and          *)
(* h3zero_process_request_frame answers (src/h3zero_common.c).  The one    *)
(* path in the server's table is /camera with camera_path_callback         *)
(* (src/quic_server.c), which reacts to a CONNECT only and then takes the  *)
(* whole connection: its events go to camera_wt_callback from then on.     *)
(*                                                                         *)
(* A piece is what one call of the parser yields: the "header" block,      *)
(* some "data", the header of a "webtransport" stream, an "other" frame    *)
(* that is skipped, a "broken" block that is counted as a header before    *)
(* its decoding fails, or another "error": for these two the connection is *)
(* closed.  The method and the path are what was decoded, up to the error  *)
(* in a broken block.  Bytes that complete no piece are a call without one.*)
(***************************************************************************)
EXTENDS Naturals, Sequences

CONSTANTS
  Streams,   \* the request streams of a connection
  Requests   \* [method, camera: the path is /camera, pieces]

Methods == {"get", "post", "connect", "unknown"}
Pieces == {"header", "data", "webtransport", "other", "broken", "error"}

ASSUME StreamsAssumption == Streams # {}
\* The parser refuses data that come before a header, and behind the header of a
\* WebTransport stream it looks for no other: such a stream has no method.
ASSUME RequestsAssumption ==
  /\ Requests \subseteq [method : Methods, camera : BOOLEAN, pieces : Seq(Pieces)]
  /\ \A r \in Requests : \A p \in DOMAIN r.pieces :
       /\ r.pieces[p] = "data" =>
            \E q \in 1..(p - 1) : r.pieces[q] \in {"header", "webtransport"}
       /\ r.pieces[p] = "webtransport" => r.method = "unknown"

VARIABLES
  request,          \* [Streams -> Requests]
  at,               \* [Streams -> the next piece]
  header_found, is_web_transport, post_received, is_upgraded, path_callback,
                    \* the streams of which this holds
  cs, hand, call,   \* the call: its stream, last piece, "data" or "fin"
  process_complete,
  wt,               \* the callback of the connection is camera_wt_callback
  closed,           \* the connection was closed
  reset,            \* the streams that were reset, by either side
  finished,         \* the streams whose FIN the server has dealt with
  out,              \* [Streams -> what was sent: "headers", "data", "fin"]
  calls             \* history: [Streams -> the handler's calls, <<event, piece>>]

cnxVars == <<request, wt, closed, finished>>
callVars == <<cs, hand, call>>
headerVars == <<header_found, is_web_transport>>
vars == <<cnxVars, callVars, headerVars, at, post_received, is_upgraded,
          path_callback, process_complete, reset, out, calls>>

Init ==
  /\ request \in [Streams -> Requests]
  /\ at = [s \in Streams |-> 1]
  /\ header_found = {} /\ is_web_transport = {} /\ post_received = {}
  /\ is_upgraded = {} /\ path_callback = {}
  /\ cs = (CHOOSE s \in Streams : TRUE) /\ hand = 0 /\ call = "none"
  /\ process_complete = FALSE /\ wt = FALSE /\ closed = FALSE
  /\ reset = {} /\ finished = {}
  /\ out = [s \in Streams |-> <<>>] /\ calls = [s \in Streams |-> <<>>]

Method == request[cs].method
IsPost == cs \in header_found /\ Method = "post"
Called(s, list) == calls' = [calls EXCEPT ![s] = @ \o list]
-----------------------------------------------------------------------------
(* h3zero_process_h3_server_data                                           *)

\* A call with the next pieces, as many as the bytes complete, and maybe the FIN.
Deliver(s) ==
  /\ call = "none" /\ ~wt /\ ~closed /\ s \notin finished
  /\ hand' \in (at[s] - 1)..Len(request[s].pieces)
  /\ \/ call' = "data"
     \/ call' = "fin" /\ hand' = Len(request[s].pieces)
  /\ cs' = s /\ process_complete' = FALSE
  /\ UNCHANGED <<cnxVars, headerVars, at, post_received, is_upgraded,
                 path_callback, reset, out, calls>>

\* The peer resets the stream or asks for that: the handler is told, and without
\* one h3zero_client_close_stream returns 1 if it knows the stream, which the
\* stack takes for an error.
StreamReset(s) ==
  /\ call = "none" /\ ~wt /\ ~closed /\ s \notin reset
  /\ reset' = reset \cup {s}
  /\ IF s \in path_callback
     THEN Called(s, <<<<"reset", 0>>>>) /\ UNCHANGED closed
     ELSE closed' \in BOOLEAN /\ UNCHANGED calls
  /\ UNCHANGED <<request, wt, finished, callVars, headerVars, at, post_received,
                 is_upgraded, path_callback, process_complete, out>>

\* The connection closes: the handlers are told that their streams are freed.
CnxClosed ==
  /\ call = "none" /\ ~wt /\ ~closed
  /\ closed' = TRUE
  /\ calls' = [s \in Streams |->
                IF s \in path_callback THEN Append(calls[s], <<"free", 0>>) ELSE calls[s]]
  /\ UNCHANGED <<request, wt, finished, callVars, headerVars, at, post_received,
                 is_upgraded, path_callback, process_complete, reset, out>>

\* The loop goes on as long as the call has pieces.
InTurn(piece) ==
  /\ call # "none" /\ at[cs] <= hand
  /\ request[cs].pieces[at[cs]] = piece
  /\ at' = [at EXCEPT ![cs] = @ + 1]
  /\ UNCHANGED <<request, wt, finished, cs, call, is_upgraded, out>>

Turn(piece) == InTurn(piece) /\ UNCHANGED <<closed, hand>>

\* The loop ends, but picoquic_close returns 0 and the call goes on.
TurnError ==
  /\ InTurn("error")
  /\ hand' = at[cs] /\ closed' = TRUE
  /\ UNCHANGED <<headerVars, post_received, path_callback, process_complete,
                 reset, calls>>

\* The same for a block that cannot be decoded, but with the header found: the
\* request is processed, by the method decoded so far.
TurnBroken ==
  /\ InTurn("broken")
  /\ hand' = at[cs] /\ closed' = TRUE
  /\ header_found' = header_found \cup {cs}
  /\ UNCHANGED <<is_web_transport, post_received, path_callback,
                 process_complete, reset, calls>>

TurnHeader ==
  /\ Turn("header")
  /\ header_found' = header_found \cup {cs}
  /\ UNCHANGED <<is_web_transport, post_received, path_callback,
                 process_complete, reset, calls>>

TurnWebtransport ==
  /\ Turn("webtransport")
  /\ header_found' = header_found \cup {cs}
  /\ is_web_transport' = is_web_transport \cup {cs}
  /\ UNCHANGED <<post_received, path_callback, process_complete,
                 reset, calls>>

TurnOther ==
  /\ Turn("other")
  /\ UNCHANGED <<headerVars, post_received, path_callback, process_complete,
                 reset, calls>>

\* Data of a WebTransport stream need the prefix of a session.  Nothing in the
\* server declares one, so the stream is reset.
TurnWebtransportData ==
  /\ Turn("data") /\ cs \in is_web_transport
  /\ reset' = reset \cup {cs}
  /\ post_received' = post_received \cup {cs}
  /\ UNCHANGED <<headerVars, path_callback, process_complete, calls>>

\* Mutated form: the handler is called anew for every piece.
Begins_Always == request[cs].camera

\* The handler is told of the request with its first data.
Begins ==
  cs \in header_found /\ request[cs].camera /\ cs \notin post_received

Begin == IF Begins THEN <<<<"post", 0>>>> ELSE <<>>

\* Data of a request go to the handler, if there is one.  A request that is no
\* POST is not answered by this call then, and its FIN goes to the handler.
TurnData ==
  /\ Turn("data") /\ cs \notin is_web_transport
  /\ path_callback' = IF Begins THEN path_callback \cup {cs} ELSE path_callback
  /\ LET handler == cs \in path_callback'
         event == IF call = "fin" /\ ~IsPost THEN "post_fin" ELSE "post_data"
     IN /\ Called(cs, Begin \o (IF handler THEN <<<<event, at[cs]>>>> ELSE <<>>))
        /\ process_complete' = (process_complete \/ (handler /\ ~IsPost))
        /\ post_received' = IF handler /\ ~IsPost THEN post_received
                            ELSE post_received \cup {cs}
  /\ UNCHANGED <<headerVars, reset>>
-----------------------------------------------------------------------------
(* The end of the call, and h3zero_process_request_frame.                  *)

LoopOver == call # "none" /\ at[cs] > hand

Return ==
  /\ call' = "none"
  /\ finished' = IF call = "fin" THEN finished \cup {cs} ELSE finished
  /\ UNCHANGED <<request, cs, hand, at, headerVars, post_received,
                 process_complete>>

Ended(s) == \E i \in DOMAIN out[s] : out[s][i] = "fin"

\* The stack takes these frames, or it does not, surely not behind a FIN: then
\* the stream is reset, and if that fails too the connection closes.
Answer(frames) ==
  \/ /\ ~Ended(cs) /\ cs \notin reset
     /\ out' = [out EXCEPT ![cs] = @ \o frames]
     /\ UNCHANGED <<closed, reset>>
  \/ reset' = reset \cup {cs} /\ closed' \in {closed, TRUE} /\ UNCHANGED out

\* Mutated form: the request is answered whether it is complete or not.
Processed_Early == cs \notin is_web_transport /\ ~process_complete

Processed ==
  /\ cs \notin is_web_transport /\ ~process_complete
  /\ call = "fin" \/ (cs \in header_found /\ Method = "connect")

NotProcessed ==
  /\ LoopOver /\ ~Processed
  /\ Return
  /\ UNCHANGED <<wt, closed, is_upgraded, path_callback, reset, out, calls>>

\* Mutated form: nothing is done about a request without a header.
EndsWithoutHeader_Silent ==
  /\ LoopOver /\ Processed /\ cs \notin header_found
  /\ Return
  /\ UNCHANGED <<wt, closed, is_upgraded, path_callback, reset, out, calls>>

\* The FIN comes before the header.
EndsWithoutHeader ==
  /\ LoopOver /\ Processed /\ cs \notin header_found
  /\ Return
  /\ reset' = reset \cup {cs}
  /\ UNCHANGED <<wt, closed, is_upgraded, path_callback, out, calls>>

Process(method) ==
  LoopOver /\ Processed /\ cs \in header_found /\ Method = method /\ Return

\* A page, an echo that is sent later, or 404.
ProcessGet ==
  /\ Process("get")
  /\ \E frames \in {<<"headers", "data", "fin">>, <<"headers", "data">>,
                    <<"headers", "fin">>} : Answer(frames)
  /\ UNCHANGED <<wt, is_upgraded, path_callback, calls>>

ProcessPost ==
  /\ Process("post")
  /\ path_callback' = IF Begins THEN path_callback \cup {cs} ELSE path_callback
  /\ Called(cs, Begin \o (IF cs \in path_callback' THEN <<<<"post_fin", 0>>>> ELSE <<>>))
  /\ Answer(IF cs \in path_callback' THEN <<"headers", "fin">>
            ELSE <<"headers", "data", "fin">>)
  /\ UNCHANGED <<wt, is_upgraded>>

ProcessUnknown ==
  /\ Process("unknown")
  /\ Answer(<<"headers", "fin">>)
  /\ UNCHANGED <<wt, is_upgraded, path_callback, calls>>

\* No such path.
ConnectNotFound ==
  /\ Process("connect") /\ cs \notin path_callback /\ ~request[cs].camera
  /\ Answer(<<"headers", "fin">>)
  /\ UNCHANGED <<wt, is_upgraded, path_callback, calls>>

\* The stream has a handler.  The return value for a duplicate request is
\* overwritten, and a header frame without a block goes out.
ConnectDuplicate ==
  /\ Process("connect") /\ cs \in path_callback
  /\ Answer(IF cs \in is_upgraded THEN <<"headers">> ELSE <<"headers", "fin">>)
  /\ UNCHANGED <<wt, is_upgraded, path_callback, calls>>

ConnectHandler ==
  /\ Process("connect") /\ cs \notin path_callback /\ request[cs].camera
  /\ path_callback' = path_callback \cup {cs}
  /\ Called(cs, <<<<"connect", 0>>>>)

\* camera_path_callback takes the connection, sends its own 200 and starts the
\* threads; then the request is answered.
ConnectAccepted ==
  /\ ConnectHandler
  /\ wt' = TRUE /\ is_upgraded' = is_upgraded \cup {cs}
  /\ Answer(<<"headers", "headers">>)

\* Mutated form: the connection is taken only with success.
ConnectRefused_KeepsConnection ==
  /\ ConnectHandler
  /\ \/ Answer(<<"headers", "headers", "fin">>)
     \/ Answer(<<"headers", "fin">>)
  /\ UNCHANGED <<wt, is_upgraded>>

\* The 200 cannot be sent or the threads not be created: 501, but the
\* connection is taken all the same.
ConnectRefused ==
  /\ ConnectHandler
  /\ wt' = TRUE
  /\ \/ Answer(<<"headers", "headers", "fin">>)
     \/ Answer(<<"headers", "fin">>)
  /\ UNCHANGED is_upgraded
-----------------------------------------------------------------------------
CallStep ==
  \/ TurnHeader \/ TurnWebtransport \/ TurnOther \/ TurnError \/ TurnBroken
  \/ TurnWebtransportData \/ TurnData
  \/ NotProcessed \/ EndsWithoutHeader
  \/ ProcessGet \/ ProcessPost \/ ProcessUnknown
  \/ ConnectNotFound \/ ConnectDuplicate \/ ConnectAccepted \/ ConnectRefused

Next ==
  \/ CallStep \/ CnxClosed
  \/ \E s \in Streams : Deliver(s) \/ StreamReset(s)

Spec == Init /\ [][Next]_vars
Frames == {"headers", "data", "fin"}
Events == {"connect", "post", "post_data", "post_fin", "reset", "free"}

TypeOK ==
  /\ request \in [Streams -> Requests]
  /\ at \in [Streams -> Nat \ {0}]
  /\ header_found \subseteq Streams /\ is_web_transport \subseteq Streams
  /\ post_received \subseteq Streams /\ is_upgraded \subseteq Streams
  /\ path_callback \subseteq Streams
  /\ cs \in Streams /\ hand \in Nat /\ call \in {"none", "data", "fin"}
  /\ process_complete \in BOOLEAN /\ wt \in BOOLEAN /\ closed \in BOOLEAN
  /\ reset \subseteq Streams /\ finished \subseteq Streams
  /\ out \in [Streams -> Seq(Frames)]
  /\ calls \in [Streams -> Seq(Events \X Nat)]

-----------------------------------------------------------------------------
HandlerSaw(s, event) == \E i \in DOMAIN calls[s] : calls[s][i][1] = event

\* The pieces of data of a stream that have come.
Data(s) == {p \in 1..(at[s] - 1) : request[s].pieces[p] = "data"}

\* What the handler is told of a request, and the order of that.
Reports(list) == {c \in {list[i] : i \in DOMAIN list} : c[1] \notin {"reset", "free"}}

Before(c, d) ==
  \/ c[1] = "post" /\ d[1] # "post"
  \/ c[1] = "post_data" /\ d[1] = "post_data" /\ c[2] < d[2]
  \/ c[1] = "post_data" /\ d[1] = "post_fin"

InOrder(list) ==
  \A i, j \in DOMAIN list :
    i < j /\ list[i] \in Reports(list) /\ list[j] \in Reports(list) => Before(list[i], list[j])

\* What it is to be told of a POST.
Due(s) ==
  (IF Data(s) # {} \/ s \in finished THEN {<<"post", 0>>} ELSE {})
  \cup {<<"post_data", p>> : p \in Data(s)}
  \cup (IF s \in finished THEN {<<"post_fin", 0>>} ELSE {})

\* However the data of a POST to a handler's path are spread over calls, and
\* whenever the peer resets the stream or the connection closes, the handler is
\* told of the request once, before the data, gets every piece once and in order,
\* and the end once, behind them.
PostSequence ==
  \A s \in Streams : request[s].method = "post" /\ request[s].camera /\ s \in header_found =>
    Reports(calls[s]) = Due(s) /\ InOrder(calls[s])

\* A connection gives its CONNECT to camera_path_callback at most once, which is
\* what Session takes for granted.
OneConnect ==
  \A s, r \in Streams :
    HandlerSaw(s, "connect") /\ HandlerSaw(r, "connect") => s = r

\* The end of a request is never lost: the request was answered, its stream reset
\* or the end handed to the handler.
EndDealtWith ==
  \A s \in finished \ is_web_transport :
    out[s] # <<>> \/ s \in reset \/ HandlerSaw(s, "post_fin")

\* Only a CONNECT that reached the handler is answered with more than one header
\* frame, and no answer precedes the end of its request except a CONNECT's.
AnsweredOnce ==
  \A s \in Streams :
    /\ \A i, j \in DOMAIN out[s] :
         i # j /\ out[s][i] = "headers" /\ out[s][j] = "headers" => HandlerSaw(s, "connect")
    /\ out[s] # <<>> => s \in finished \/ request[s].method = "connect"
=============================================================================
