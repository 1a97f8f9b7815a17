--------------------------- MODULE H3RequestProofs ---------------------------
(***************************************************************************)
(* Proofs about H3Request, for any streams and any requests.               *)
(***************************************************************************)
EXTENDS H3Request, TLAPS

\* What the handler saw of a CONNECT took the connection, and an upgraded stream
\* is one it saw.  During a call h3zero still has the connection.
Taken ==
  /\ \A s \in Streams : HandlerSaw(s, "connect") => wt
  /\ \A s \in is_upgraded : HandlerSaw(s, "connect")
  /\ call # "none" => ~wt /\ cs \notin finished

\* A request that the handler completes with the FIN has had its end.
Completed == call = "fin" /\ process_complete => HandlerSaw(cs, "post_fin")

\* What is answered is over, unless it is a session.
AnswerEnds ==
  \A s \in Streams :
    out[s] # <<>> => s \in finished \/ Ended(s) \/ HandlerSaw(s, "connect")

IndInv ==
  TypeOK /\ Taken /\ Completed /\ AnswerEnds /\ OneConnect /\ EndDealtWith /\ AnsweredOnce

HandlerCalls == Events \X Nat

\* Some call of this list is of this event.
Has(list, event) == \E i \in DOMAIN list : list[i][1] = event
-----------------------------------------------------------------------------
\* The elements of two sequences put together.
LEMMA Concat ==
  ASSUME NEW C, NEW a \in Seq(C), NEW b \in Seq(C)
  PROVE  /\ a \o b \in Seq(C)
         /\ DOMAIN a = 1..Len(a) /\ DOMAIN b = 1..Len(b)
         /\ DOMAIN (a \o b) = 1..(Len(a) + Len(b))
         /\ Len(a) \in Nat /\ Len(b) \in Nat
         /\ \A i \in 1..Len(a) : (a \o b)[i] = a[i]
         /\ \A i \in 1..Len(b) : (a \o b)[Len(a) + i] = b[i]
         /\ \A i \in 1..(Len(a) + Len(b)) :
              i \notin 1..Len(a) =>
                i - Len(a) \in 1..Len(b) /\ (a \o b)[i] = b[i - Len(a)]
  OBVIOUS

\* Two lists of calls together have the events of both.
LEMMA HasConcat ==
  ASSUME NEW a \in Seq(HandlerCalls), NEW b \in Seq(HandlerCalls), NEW e
  PROVE  a \o b \in Seq(HandlerCalls) /\ (Has(a \o b, e) <=> Has(a, e) \/ Has(b, e))
<1> DEFINE c == a \o b
<1>1. /\ c \in Seq(HandlerCalls)
      /\ DOMAIN a = 1..Len(a) /\ DOMAIN b = 1..Len(b)
      /\ DOMAIN c = 1..(Len(a) + Len(b))
      /\ Len(a) \in Nat /\ Len(b) \in Nat
      /\ \A i \in 1..Len(a) : c[i] = a[i]
      /\ \A i \in 1..Len(b) : c[Len(a) + i] = b[i]
      /\ \A i \in 1..(Len(a) + Len(b)) :
           i \notin 1..Len(a) => i - Len(a) \in 1..Len(b) /\ c[i] = b[i - Len(a)]
  BY Concat
<1> HIDE DEF c
<1>2. ASSUME NEW i \in 1..Len(a), a[i][1] = e PROVE Has(c, e)
  <2>1. i \in 1..(Len(a) + Len(b))
    BY <1>1
  <2> QED
    BY <1>1, <1>2, <2>1 DEF Has
<1>3. ASSUME NEW i \in 1..Len(b), b[i][1] = e PROVE Has(c, e)
  <2>1. Len(a) + i \in 1..(Len(a) + Len(b))
    BY <1>1
  <2> QED
    BY <1>1, <1>3, <2>1 DEF Has
<1>4. ASSUME NEW i \in 1..(Len(a) + Len(b)), c[i][1] = e
      PROVE  Has(a, e) \/ Has(b, e)
  <2>1. CASE i \in 1..Len(a)
    BY <1>1, <1>4, <2>1 DEF Has
  <2>2. CASE i \notin 1..Len(a)
    BY <1>1, <1>4, <2>2 DEF Has
  <2> QED
    BY <2>1, <2>2
<1>5. Has(c, e) <=> Has(a, e) \/ Has(b, e)
  BY <1>1, <1>2, <1>3, <1>4 DEF Has
<1> QED
  BY <1>1, <1>5 DEF c

\* A list of one call, and the empty one.
LEMMA OneCall ==
  ASSUME NEW event \in Events, NEW n \in Nat
  PROVE  /\ <<<<event, n>>>> \in Seq(HandlerCalls)
         /\ \A e : Has(<<<<event, n>>>>, e) <=> e = event
BY DEF Has, HandlerCalls

LEMMA NoCall == <<>> \in Seq(HandlerCalls) /\ \A e : ~Has(<<>>, e)
BY DEF Has

\* What more calls of a handler do to the history.
LEMMA CalledStep ==
  ASSUME TypeOK, NEW s \in Streams, NEW list \in Seq(HandlerCalls), Called(s, list)
  PROVE  /\ calls' \in [Streams -> Seq(HandlerCalls)]
         /\ \A r \in Streams : \A e :
              HandlerSaw(r, e)' <=> HandlerSaw(r, e) \/ (r = s /\ Has(list, e))
<1>1. calls \in [Streams -> Seq(HandlerCalls)]
  BY DEF TypeOK, HandlerCalls
<1>2. /\ calls' = [r \in Streams |-> IF r = s THEN calls[s] \o list ELSE calls[r]]
      /\ calls'[s] = calls[s] \o list
      /\ \A r \in Streams : r # s => calls'[r] = calls[r]
  BY <1>1 DEF Called
<1>3. /\ calls'[s] \in Seq(HandlerCalls)
      /\ \A e : Has(calls'[s], e) <=> Has(calls[s], e) \/ Has(list, e)
  BY <1>1, <1>2, HasConcat
<1>4. calls' \in [Streams -> Seq(HandlerCalls)]
  <2>1. \A r \in Streams :
          (IF r = s THEN calls[s] \o list ELSE calls[r]) \in Seq(HandlerCalls)
    BY <1>1, <1>2, <1>3
  <2> QED
    BY <1>2, <2>1
<1>5. ASSUME NEW r \in Streams, NEW e
      PROVE  HandlerSaw(r, e)' <=> HandlerSaw(r, e) \/ (r = s /\ Has(list, e))
  <2>1. /\ HandlerSaw(r, e)' <=> Has(calls'[r], e)
        /\ HandlerSaw(r, e) <=> Has(calls[r], e)
    BY DEF HandlerSaw, Has
  <2>2. CASE r = s
    BY <1>3, <2>1, <2>2, Zenon
  <2>3. CASE r # s
    BY <1>2, <2>1, <2>3, Zenon
  <2> QED
    BY <2>2, <2>3
<1> QED
  BY <1>4, <1>5

\* What an answer does to the stream of the call.
LEMMA AnswerStep ==
  ASSUME TypeOK, NEW frames \in Seq(Frames), frames # <<>>, Answer(frames)
  PROVE  /\ out' \in [Streams -> Seq(Frames)] /\ reset' \subseteq Streams
         /\ closed' \in BOOLEAN
         /\ reset \subseteq reset' /\ (out'[cs] # <<>> \/ cs \in reset')
         /\ \A s \in Streams : s # cs => out'[s] = out[s]
         /\ \/ out' = out
            \/ ~Ended(cs) /\ out'[cs] = out[cs] \o frames
<1>1. cs \in Streams /\ reset \subseteq Streams /\ out \in [Streams -> Seq(Frames)]
  BY DEF TypeOK
<1>2. closed' \in BOOLEAN
  BY Zenon DEF Answer, TypeOK
<1>3. CASE ~Ended(cs) /\ out' = [out EXCEPT ![cs] = @ \o frames] /\ UNCHANGED reset
  <2>1. out[cs] \o frames \in Seq(Frames) /\ out[cs] \o frames # <<>>
    <3> DEFINE a == out[cs]
    <3>1. a \in Seq(Frames)
      BY <1>1
    <3> HIDE DEF a
    <3>2. a \o frames \in Seq(Frames) /\ Len(a \o frames) = Len(a) + Len(frames)
      BY <3>1
    <3>3. Len(frames) \in Nat \ {0} /\ Len(a) \in Nat
      BY <3>1
    <3>4. a \o frames # <<>>
      BY <3>2, <3>3
    <3> QED
      BY <3>2, <3>4 DEF a
  <2>2. /\ out' = [s \in Streams |-> IF s = cs THEN out[cs] \o frames ELSE out[s]]
        /\ out'[cs] = out[cs] \o frames
        /\ \A s \in Streams : s # cs => out'[s] = out[s]
    BY <1>1, <1>3
  <2>3. \A s \in Streams :
          (IF s = cs THEN out[cs] \o frames ELSE out[s]) \in Seq(Frames)
    BY <1>1, <2>1
  <2>4. out' \in [Streams -> Seq(Frames)]
    BY <2>2, <2>3
  <2> QED
    BY <1>1, <1>2, <1>3, <2>1, <2>2, <2>4
<1>4. CASE reset' = reset \cup {cs} /\ UNCHANGED out
  BY <1>1, <1>2, <1>4
<1> QED
  BY <1>3, <1>4 DEF Answer
-----------------------------------------------------------------------------
\* Steps that answer nothing and call nobody for a CONNECT keep the invariant.
LEMMA QuietStep ==
  ASSUME IndInv, TypeOK',
         UNCHANGED <<out, wt, is_upgraded, finished, request>>,
         reset \subseteq reset', is_web_transport \subseteq is_web_transport',
         \A r \in Streams : HandlerSaw(r, "connect")' <=> HandlerSaw(r, "connect"),
         \A r \in Streams : HandlerSaw(r, "post_fin") => HandlerSaw(r, "post_fin")',
         call' # "none" => ~wt /\ cs' \notin finished,
         Completed'
  PROVE  IndInv'
<1>1. Taken'
  BY DEF IndInv, Taken, TypeOK
<1>2. AnswerEnds'
  BY DEF IndInv, AnswerEnds, Ended
<1>3. OneConnect'
  BY DEF IndInv, OneConnect
<1>4. EndDealtWith'
  BY DEF IndInv, EndDealtWith, TypeOK
<1>5. AnsweredOnce'
  BY DEF IndInv, AnsweredOnce
<1> QED
  BY <1>1, <1>2, <1>3, <1>4, <1>5 DEF IndInv

TwoHeaders(s) ==
  \E i, j \in DOMAIN out[s] : i # j /\ out[s][i] = "headers" /\ out[s][j] = "headers"

\* The step that ends a call keeps the invariant if it deals with its end and
\* answers once.
LEMMA ReturnStep ==
  ASSUME IndInv, TypeOK', call # "none", Return,
         reset \subseteq reset',
         \A r \in Streams, e \in Events : HandlerSaw(r, e) => HandlerSaw(r, e)',
         \A r \in Streams :
           HandlerSaw(r, "connect")' => HandlerSaw(r, "connect") \/ (r = cs /\ wt'),
         is_upgraded' \subseteq is_upgraded \cup {cs},
         cs \in is_upgraded' => HandlerSaw(cs, "connect")',
         wt => wt',
         \A r \in Streams : r # cs => out'[r] = out[r],
         out'[cs] # <<>> =>
           /\ call = "fin" \/ Ended(cs)' \/ HandlerSaw(cs, "connect")'
           /\ call = "fin" \/ Method = "connect",
         TwoHeaders(cs)' => HandlerSaw(cs, "connect")',
         call = "fin" /\ cs \notin is_web_transport =>
           out'[cs] # <<>> \/ cs \in reset' \/ HandlerSaw(cs, "post_fin")'
  PROVE  IndInv'
<1>1. /\ call' = "none" /\ cs' = cs /\ cs \in Streams
      /\ finished' = IF call = "fin" THEN finished \cup {cs} ELSE finished
      /\ UNCHANGED <<request, is_web_transport>>
  BY DEF Return, IndInv, TypeOK, headerVars
<1>2. ~wt /\ cs \notin finished /\ \A s \in Streams : ~HandlerSaw(s, "connect")
  BY DEF IndInv, Taken
<1>3. Taken'
  BY <1>1, <1>2 DEF IndInv, Taken, TypeOK, Events
<1>4. Completed'
  BY <1>1 DEF Completed
<1>5. ASSUME NEW s \in Streams, out'[s] # <<>>
      PROVE  s \in finished' \/ Ended(s)' \/ HandlerSaw(s, "connect")'
  <2>1. CASE s = cs
    BY <1>1, <1>5, <2>1
  <2>2. CASE s # cs
    <3>1. out[s] # <<>> /\ Ended(s)' = Ended(s)
      BY <1>5, <2>2 DEF Ended
    <3>2. s \in finished \/ Ended(s) \/ HandlerSaw(s, "connect")
      BY <3>1 DEF IndInv, AnswerEnds
    <3> QED
      BY <1>1, <3>1, <3>2 DEF Events
  <2> QED
    BY <2>1, <2>2
<1>6. AnswerEnds'
  BY <1>5 DEF AnswerEnds
<1>7. OneConnect'
  BY <1>2 DEF OneConnect
<1>8. EndDealtWith'
  <2> SUFFICES ASSUME NEW s \in finished' \ is_web_transport'
               PROVE  out'[s] # <<>> \/ s \in reset' \/ HandlerSaw(s, "post_fin")'
    BY DEF EndDealtWith
  <2>1. CASE s = cs
    BY <1>1, <1>2, <2>1
  <2>2. CASE s # cs
    <3>1. s \in finished \ is_web_transport /\ s \in Streams
      BY <1>1, <2>2 DEF IndInv, TypeOK
    <3>2. out[s] # <<>> \/ s \in reset \/ HandlerSaw(s, "post_fin")
      BY <3>1 DEF IndInv, EndDealtWith
    <3> QED
      BY <2>2, <3>1, <3>2 DEF Events
  <2> QED
    BY <2>1, <2>2
<1>9. AnsweredOnce'
  <2> SUFFICES ASSUME NEW s \in Streams
               PROVE  /\ \A i, j \in DOMAIN out'[s] :
                           i # j /\ out'[s][i] = "headers" /\ out'[s][j] = "headers"
                             => HandlerSaw(s, "connect")'
                      /\ out'[s] # <<>> => s \in finished' \/ request[s].method = "connect"
    BY <1>1 DEF AnsweredOnce
  <2>1. CASE s = cs
    BY <1>1, <2>1 DEF TwoHeaders, Method
  <2>2. CASE s # cs
    BY <1>1, <2>2 DEF IndInv, AnsweredOnce, Events
  <2> QED
    BY <2>1, <2>2
<1> QED
  BY <1>3, <1>4, <1>6, <1>7, <1>8, <1>9 DEF IndInv

\* During a call nothing was sent on its stream, or that was ended.
LEMMA FirstAnswer ==
  ASSUME IndInv, call # "none", NEW frames \in Seq(Frames), frames # <<>>, Answer(frames)
  PROVE  /\ ~HandlerSaw(cs, "connect") /\ ~TwoHeaders(cs)
         /\ \/ out' = out /\ (out[cs] # <<>> => Ended(cs))
            \/ out'[cs] = frames
<1>1. cs \in Streams /\ ~wt /\ cs \notin finished
  BY DEF IndInv, TypeOK, Taken
<1>2. ~HandlerSaw(cs, "connect")
  BY <1>1 DEF IndInv, Taken
<1>3. ~TwoHeaders(cs)
  BY <1>1, <1>2 DEF IndInv, AnsweredOnce, TwoHeaders
<1>4. out[cs] # <<>> => Ended(cs)
  BY <1>1, <1>2 DEF IndInv, AnswerEnds
<1>5. out' = out \/ (~Ended(cs) /\ out'[cs] = out[cs] \o frames)
  BY AnswerStep DEF IndInv
<1>6. CASE ~Ended(cs) /\ out'[cs] = out[cs] \o frames
  <2>1. out[cs] = <<>>
    BY <1>4, <1>6
  <2>2. <<>> \o frames = frames
    OBVIOUS
  <2> QED
    BY <1>2, <1>3, <1>6, <2>1, <2>2
<1> QED
  BY <1>2, <1>3, <1>4, <1>5, <1>6

\* The answers with one header frame.
OneHeader(frames) ==
  /\ frames \in Seq(Frames) /\ frames # <<>>
  /\ ~\E i, j \in DOMAIN frames : i # j /\ frames[i] = "headers" /\ frames[j] = "headers"

LEMMA OneHeaderAnswers ==
  /\ OneHeader(<<"headers">>)
  /\ OneHeader(<<"headers", "fin">>)
  /\ OneHeader(<<"headers", "data">>)
  /\ OneHeader(<<"headers", "data", "fin">>)
  /\ \A frames \in {<<"headers", "fin">>, <<"headers", "data", "fin">>} :
       \E i \in DOMAIN frames : frames[i] = "fin"
BY DEF OneHeader, Frames

\* An answer with one header frame to a request the handler was not called for.
LEMMA AnswerKeeps ==
  ASSUME IndInv, LoopOver, Processed, Return, NEW frames, OneHeader(frames), Answer(frames),
         call = "fin" \/ \E i \in DOMAIN frames : frames[i] = "fin",
         request' = request, wt' = wt, is_upgraded' = is_upgraded,
         path_callback' \subseteq Streams,
         calls' \in [Streams -> Seq(HandlerCalls)],
         \A r \in Streams, e \in Events : HandlerSaw(r, e) => HandlerSaw(r, e)',
         \A r \in Streams : HandlerSaw(r, "connect")' => HandlerSaw(r, "connect")
  PROVE  IndInv'
<1>1. call # "none" /\ frames \in Seq(Frames) /\ frames # <<>>
  BY DEF LoopOver, OneHeader
<1>2. /\ out' \in [Streams -> Seq(Frames)] /\ reset' \subseteq Streams
      /\ closed' \in BOOLEAN
      /\ reset \subseteq reset' /\ (out'[cs] # <<>> \/ cs \in reset')
      /\ \A s \in Streams : s # cs => out'[s] = out[s]
  BY <1>1, AnswerStep DEF IndInv
<1>3. /\ ~HandlerSaw(cs, "connect") /\ ~TwoHeaders(cs)
      /\ \/ out' = out /\ (out[cs] # <<>> => Ended(cs))
         \/ out'[cs] = frames
  BY <1>1, FirstAnswer
<1>4. cs \in Streams /\ cs' = cs
  BY DEF IndInv, TypeOK, Return
<1>5. TypeOK'
  <2>1. /\ request' = request /\ cs' = cs /\ hand' = hand /\ at' = at
        /\ header_found' = header_found /\ is_web_transport' = is_web_transport
        /\ post_received' = post_received /\ process_complete' = process_complete
        /\ wt' = wt /\ is_upgraded' = is_upgraded /\ call' = "none"
        /\ finished' = IF call = "fin" THEN finished \cup {cs} ELSE finished
    BY DEF Return, headerVars
  <2>2. process_complete' \in BOOLEAN /\ wt' \in BOOLEAN
    BY <2>1, Zenon DEF IndInv, TypeOK
  <2>3. finished' \subseteq Streams
    BY <1>4, <2>1 DEF IndInv, TypeOK
  <2> QED
    BY <1>2, <2>1, <2>2, <2>3 DEF IndInv, TypeOK, HandlerCalls
<1>6. call = "fin" \/ Method = "connect"
  BY DEF Processed
<1>7. out'[cs] # <<>> => call = "fin" \/ Ended(cs)'
  BY <1>3, <1>4 DEF Ended
<1>8. ~TwoHeaders(cs)'
  BY <1>3, <1>4 DEF TwoHeaders, OneHeader
<1>9. ~HandlerSaw(cs, "connect")'
  BY <1>3, <1>4
<1>10. cs \notin is_upgraded'
  BY <1>3 DEF IndInv, Taken
<1> QED
  BY <1>1, <1>2, <1>3, <1>5, <1>6, <1>7, <1>8, <1>9, <1>10, ReturnStep

\* The handler is told of a request without being called for a CONNECT.
LEMMA BeginCalls ==
  /\ Begin \in Seq(HandlerCalls)
  /\ ~Has(Begin, "connect") /\ ~Has(Begin, "post_fin")
BY OneCall, NoCall DEF Begin, Events
-----------------------------------------------------------------------------
\* Events between the calls.
LEMMA EventStep ==
  ASSUME IndInv, NEW s \in Streams, Deliver(s) \/ StreamReset(s) \/ CnxClosed
  PROVE  IndInv'
<1>1. CASE Deliver(s)
  <2>1. /\ UNCHANGED <<cnxVars, headerVars, at, post_received, is_upgraded,
                       path_callback, reset, out, calls>>
        /\ cs' = s /\ process_complete' = FALSE /\ call' \in {"data", "fin"}
        /\ ~wt /\ s \notin finished
        /\ hand' \in (at[s] - 1)..Len(request[s].pieces)
    BY <1>1 DEF Deliver
  <2>2. hand' \in Nat
    <3>1. at[s] \in Nat \ {0}
      BY DEF IndInv, TypeOK
    <3> QED
      BY <2>1, <3>1
  <2>3. wt' \in BOOLEAN /\ closed' \in BOOLEAN /\ process_complete' \in BOOLEAN
    BY <2>1, Zenon DEF IndInv, TypeOK, cnxVars
  <2>4. TypeOK'
    BY <2>1, <2>2, <2>3 DEF IndInv, TypeOK, cnxVars, headerVars
  <2>5. Completed'
    BY <2>1 DEF Completed
  <2>6. \A r \in Streams, e \in Events : HandlerSaw(r, e)' <=> HandlerSaw(r, e)
    BY <2>1 DEF HandlerSaw
  <2> QED
    BY <2>1, <2>4, <2>5, <2>6, QuietStep DEF cnxVars, headerVars, Events
<1>2. CASE StreamReset(s)
  <2>1. /\ UNCHANGED <<request, wt, finished, callVars, headerVars, at, post_received,
                       is_upgraded, path_callback, process_complete, out>>
        /\ reset' = reset \cup {s} /\ call = "none"
    BY <1>2 DEF StreamReset
  <2>2. closed' \in BOOLEAN
    BY <1>2, Zenon DEF StreamReset, IndInv, TypeOK
  <2>3. calls' = calls \/ Called(s, <<<<"reset", 0>>>>)
    BY <1>2 DEF StreamReset
  <2>4. /\ calls' \in [Streams -> Seq(HandlerCalls)]
        /\ \A r \in Streams, e \in {"connect", "post_fin"} :
             HandlerSaw(r, e)' <=> HandlerSaw(r, e)
    <3>1. CASE calls' = calls
      BY <3>1 DEF HandlerSaw, HandlerCalls, IndInv, TypeOK
    <3>2. CASE Called(s, <<<<"reset", 0>>>>)
      <4>1. /\ <<<<"reset", 0>>>> \in Seq(HandlerCalls)
            /\ \A e \in {"connect", "post_fin"} : ~Has(<<<<"reset", 0>>>>, e)
        BY OneCall DEF Events
      <4> QED
        BY <3>2, <4>1, CalledStep DEF IndInv
    <3> QED
      BY <2>3, <3>1, <3>2
  <2>5. wt' \in BOOLEAN /\ process_complete' \in BOOLEAN
    BY <2>1, Zenon DEF IndInv, TypeOK
  <2>6. TypeOK'
    BY <2>1, <2>2, <2>4, <2>5 DEF IndInv, TypeOK, callVars, headerVars, HandlerCalls
  <2>7. Completed'
    BY <2>1 DEF Completed, callVars
  <2> QED
    BY <2>1, <2>4, <2>6, <2>7, QuietStep DEF callVars, headerVars
<1>3. CASE CnxClosed
  <2>1. /\ UNCHANGED <<request, wt, finished, callVars, headerVars, at, post_received,
                       is_upgraded, path_callback, process_complete, reset, out>>
        /\ closed' = TRUE /\ call = "none"
        /\ calls' = [r \in Streams |-> IF r \in path_callback
                                       THEN Append(calls[r], <<"free", 0>>) ELSE calls[r]]
    BY <1>3 DEF CnxClosed
  <2>2. ASSUME NEW r \in Streams
        PROVE  /\ calls'[r] \in Seq(HandlerCalls)
               /\ \A e \in {"connect", "post_fin"} : HandlerSaw(r, e)' <=> HandlerSaw(r, e)
    <3>1. calls[r] \in Seq(HandlerCalls)
      BY DEF IndInv, TypeOK, HandlerCalls
    <3>2. CASE r \in path_callback
      <4>1. calls'[r] = calls[r] \o <<<<"free", 0>>>>
        BY <2>1, <3>1, <3>2
      <4>2. /\ <<<<"free", 0>>>> \in Seq(HandlerCalls)
            /\ \A e \in {"connect", "post_fin"} : ~Has(<<<<"free", 0>>>>, e)
        BY OneCall DEF Events
      <4>3. /\ calls'[r] \in Seq(HandlerCalls)
            /\ \A e \in {"connect", "post_fin"} : Has(calls'[r], e) <=> Has(calls[r], e)
        <5> DEFINE a == calls[r]  b == <<<<"free", 0>>>>
        <5>1. a \in Seq(HandlerCalls) /\ b \in Seq(HandlerCalls)
          BY <3>1, <4>2
        <5>2. \A e \in {"connect", "post_fin"} : ~Has(b, e)
          BY <4>2
        <5>3. calls'[r] = a \o b
          BY <4>1
        <5> HIDE DEF a, b
        <5>4. /\ a \o b \in Seq(HandlerCalls)
              /\ \A e : Has(a \o b, e) <=> Has(a, e) \/ Has(b, e)
          BY <5>1, HasConcat
        <5>5. \A e \in {"connect", "post_fin"} : Has(calls'[r], e) <=> Has(a, e)
          BY <5>2, <5>3, <5>4, Zenon
        <5> QED
          BY <5>3, <5>4, <5>5 DEF a
      <4> QED
        BY <4>3 DEF HandlerSaw, Has
    <3>3. CASE r \notin path_callback
      BY <2>1, <3>1, <3>3 DEF HandlerSaw
    <3> QED
      BY <3>2, <3>3
  <2>3. calls' \in [Streams -> Seq(HandlerCalls)]
    BY <2>1, <2>2
  <2>4. wt' \in BOOLEAN /\ process_complete' \in BOOLEAN /\ closed' \in BOOLEAN
    BY <2>1, Zenon DEF IndInv, TypeOK
  <2>5. TypeOK'
    BY <2>1, <2>3, <2>4 DEF IndInv, TypeOK, callVars, headerVars, HandlerCalls
  <2>6. Completed'
    BY <2>1 DEF Completed, callVars
  <2> QED
    BY <2>1, <2>2, <2>5, <2>6, QuietStep DEF callVars, headerVars
<1> QED
  BY <1>1, <1>2, <1>3

\* One turn of the loop.
LEMMA TurnStep ==
  ASSUME IndInv,
         \/ TurnHeader \/ TurnWebtransport \/ TurnOther \/ TurnError \/ TurnBroken
         \/ TurnWebtransportData \/ TurnData
  PROVE  IndInv'
<1>1. /\ UNCHANGED <<request, wt, finished, cs, call, is_upgraded, out>>
      /\ at' = [at EXCEPT ![cs] = @ + 1] /\ call # "none"
  BY DEF TurnHeader, TurnWebtransport, TurnOther, TurnError, TurnBroken,
              TurnWebtransportData,
         TurnData, Turn, InTurn
<1>2. cs \in Streams /\ at \in [Streams -> Nat \ {0}] /\ at[cs] \in Nat
  BY DEF IndInv, TypeOK
<1>3. at' \in [Streams -> Nat \ {0}]
  BY <1>1, <1>2
<1>4. hand' \in Nat
  BY <1>2 DEF TurnHeader, TurnWebtransport, TurnOther, TurnError, TurnBroken,
              TurnWebtransportData,
              TurnData, Turn, IndInv, TypeOK
<1>5. closed' \in BOOLEAN /\ wt' \in BOOLEAN
  BY <1>1, Zenon DEF TurnHeader, TurnWebtransport, TurnOther, TurnError, TurnBroken,
                     TurnWebtransportData, TurnData, Turn, IndInv, TypeOK
<1>6. CASE /\ calls' = calls /\ process_complete' = process_complete
           /\ header_found' \subseteq header_found \cup {cs}
           /\ is_web_transport' \subseteq is_web_transport \cup {cs}
           /\ is_web_transport \subseteq is_web_transport'
           /\ post_received' \subseteq post_received \cup {cs}
           /\ path_callback' = path_callback
           /\ reset' \subseteq reset \cup {cs} /\ reset \subseteq reset'
  <2>1. process_complete' \in BOOLEAN
    BY <1>6, Zenon DEF IndInv, TypeOK
  <2>2. \A r \in Streams, e \in Events : HandlerSaw(r, e)' <=> HandlerSaw(r, e)
    BY <1>6 DEF HandlerSaw
  <2>3. TypeOK'
    BY <1>1, <1>2, <1>3, <1>4, <1>5, <1>6, <2>1 DEF IndInv, TypeOK
  <2>4. Completed'
    BY <1>1, <1>2, <1>6, <2>2 DEF IndInv, Completed, Events
  <2>5. call' # "none" => ~wt /\ cs' \notin finished
    BY <1>1 DEF IndInv, Taken
  <2> QED
    BY <1>1, <1>6, <2>2, <2>3, <2>4, <2>5, QuietStep DEF Events
<1>7. CASE TurnData
  <2> DEFINE event == IF call = "fin" /\ ~IsPost THEN "post_fin" ELSE "post_data"
             piece == IF cs \in path_callback' THEN <<<<event, at[cs]>>>> ELSE <<>>
             list == Begin \o piece
  <2>1. /\ Called(cs, list)
        /\ process_complete' = (process_complete \/ (cs \in path_callback' /\ ~IsPost))
        /\ path_callback' \subseteq path_callback \cup {cs}
        /\ post_received' \subseteq post_received \cup {cs}
        /\ UNCHANGED <<headerVars, reset>>
    BY <1>7 DEF TurnData
  <2>2. /\ piece \in Seq(HandlerCalls) /\ ~Has(piece, "connect")
        /\ cs \in path_callback' /\ call = "fin" /\ ~IsPost => Has(piece, "post_fin")
    <3>1. event \in Events /\ event # "connect"
      BY DEF Events
    <3>2. CASE cs \in path_callback'
      <4>1. /\ <<<<event, at[cs]>>>> \in Seq(HandlerCalls)
            /\ \A e : Has(<<<<event, at[cs]>>>>, e) <=> e = event
        BY <1>2, <3>1, OneCall
      <4> QED
        BY <3>1, <3>2, <4>1
    <3>3. CASE cs \notin path_callback'
      BY <3>3, NoCall
    <3> QED
      BY <3>2, <3>3
  <2> HIDE DEF piece
  <2>3. /\ list \in Seq(HandlerCalls)
        /\ \A e : Has(list, e) <=> Has(Begin, e) \/ Has(piece, e)
    BY <2>2, BeginCalls, HasConcat
  <2>4. /\ ~Has(list, "connect")
        /\ cs \in path_callback' /\ call = "fin" /\ ~IsPost => Has(list, "post_fin")
    BY <2>2, <2>3, BeginCalls, Zenon
  <2> HIDE DEF list
  <2>5. /\ calls' \in [Streams -> Seq(HandlerCalls)]
        /\ \A r \in Streams : \A e :
              HandlerSaw(r, e)' <=> HandlerSaw(r, e) \/ (r = cs /\ Has(list, e))
    BY <1>2, <2>1, <2>3, CalledStep DEF IndInv
  <2>6. process_complete' \in BOOLEAN
    BY <2>1
  <2>7. TypeOK'
    BY <1>1, <1>2, <1>3, <1>4, <1>5, <2>1, <2>5, <2>6
       DEF IndInv, TypeOK, headerVars, HandlerCalls
  <2>8. Completed'
    BY <1>1, <1>2, <2>1, <2>4, <2>5 DEF IndInv, Completed
  <2>9. call' # "none" => ~wt /\ cs' \notin finished
    BY <1>1 DEF IndInv, Taken
  <2>10. /\ \A r \in Streams : HandlerSaw(r, "connect")' <=> HandlerSaw(r, "connect")
         /\ \A r \in Streams : HandlerSaw(r, "post_fin") => HandlerSaw(r, "post_fin")'
    BY <2>4, <2>5
  <2> QED
    BY <1>1, <2>1, <2>7, <2>8, <2>9, <2>10, QuietStep DEF headerVars
<1>8. TurnData \/ (/\ calls' = calls /\ process_complete' = process_complete
           /\ header_found' \subseteq header_found \cup {cs}
           /\ is_web_transport' \subseteq is_web_transport \cup {cs}
           /\ is_web_transport \subseteq is_web_transport'
           /\ post_received' \subseteq post_received \cup {cs}
           /\ path_callback' = path_callback
           /\ reset' \subseteq reset \cup {cs} /\ reset \subseteq reset')
  BY DEF TurnHeader, TurnWebtransport, TurnOther, TurnError, TurnBroken,
         TurnWebtransportData, headerVars
<1> QED
  BY <1>6, <1>7, <1>8

\* The end of a call that answers nothing.
LEMMA SilentReturn ==
  ASSUME IndInv, NotProcessed \/ EndsWithoutHeader
  PROVE  IndInv'
<1>1. /\ LoopOver /\ Return /\ reset \subseteq reset' /\ reset' \subseteq reset \cup {cs}
      /\ UNCHANGED <<wt, closed, is_upgraded, path_callback, out, calls>>
      /\ ~Processed \/ cs \in reset'
  BY DEF NotProcessed, EndsWithoutHeader
<1>2. /\ UNCHANGED <<request, cs, hand, at, headerVars, post_received, process_complete>>
      /\ call' = "none" /\ cs \in Streams
      /\ finished' = IF call = "fin" THEN finished \cup {cs} ELSE finished
      /\ call # "none"
  BY <1>1 DEF Return, LoopOver, IndInv, TypeOK
<1>3. process_complete' \in BOOLEAN /\ wt' \in BOOLEAN /\ closed' \in BOOLEAN
  BY <1>1, <1>2, Zenon DEF IndInv, TypeOK
<1>4. TypeOK'
  BY <1>1, <1>2, <1>3 DEF IndInv, TypeOK, headerVars
<1>5. \A r \in Streams, e \in Events : HandlerSaw(r, e)' <=> HandlerSaw(r, e)
  BY <1>1 DEF HandlerSaw
<1>6. ~wt /\ cs \notin finished /\ ~HandlerSaw(cs, "connect")
  BY <1>2 DEF IndInv, Taken
<1>7. out'[cs] = <<>> \/ Ended(cs)'
  BY <1>1, <1>2, <1>6 DEF IndInv, AnswerEnds, Ended
<1>8. out'[cs] # <<>> => call = "fin" \/ Method = "connect"
  BY <1>1, <1>2, <1>6 DEF IndInv, AnsweredOnce, Method
<1>9. ~TwoHeaders(cs)'
  BY <1>1, <1>2, <1>6 DEF IndInv, AnsweredOnce, TwoHeaders
<1>10. call = "fin" /\ cs \notin is_web_transport => cs \in reset' \/ HandlerSaw(cs, "post_fin")'
  BY <1>1, <1>2, <1>5 DEF Processed, IndInv, Completed, Events
<1>11. cs \notin is_upgraded'
  BY <1>1, <1>6 DEF IndInv, Taken
<1> QED
  BY <1>1, <1>2, <1>4, <1>5, <1>7, <1>8, <1>9, <1>10, <1>11, ReturnStep DEF Events

\* The answers to requests that are no CONNECT to the handler.
LEMMA PlainAnswer ==
  ASSUME IndInv,
         ProcessGet \/ ProcessUnknown \/ ConnectNotFound \/ ConnectDuplicate
  PROVE  IndInv'
<1>1. /\ LoopOver /\ Processed /\ Return
      /\ UNCHANGED <<wt, is_upgraded, path_callback, calls>>
  BY DEF ProcessGet, ProcessUnknown, ConnectNotFound, ConnectDuplicate, Process
<1>2. request' = request /\ cs \in Streams /\ call # "none"
  BY <1>1 DEF Return, LoopOver, IndInv, TypeOK
<1>3. cs \notin is_upgraded
  BY <1>2 DEF IndInv, Taken
<1>4. \A r \in Streams, e \in Events : HandlerSaw(r, e)' <=> HandlerSaw(r, e)
  BY <1>1 DEF HandlerSaw
<1>5. path_callback' \subseteq Streams /\ calls' \in [Streams -> Seq(HandlerCalls)]
  BY <1>1 DEF IndInv, TypeOK, HandlerCalls
<1>6. PICK frames \in {<<"headers", "data", "fin">>, <<"headers", "data">>, <<"headers", "fin">>} :
        /\ Answer(frames)
        /\ call = "fin" \/ frames = <<"headers", "fin">>
  <2>1. CASE ProcessGet \/ ProcessUnknown
    <3>1. call = "fin"
      BY <2>1 DEF ProcessGet, ProcessUnknown, Process, Processed
    <3> QED
      BY <2>1, <3>1 DEF ProcessGet, ProcessUnknown
  <2>2. CASE ConnectNotFound \/ ConnectDuplicate
    BY <1>3, <2>2 DEF ConnectNotFound, ConnectDuplicate
  <2> QED
    BY <2>1, <2>2
<1>7. OneHeader(frames) /\ (call = "fin" \/ \E i \in DOMAIN frames : frames[i] = "fin")
  BY <1>6, OneHeaderAnswers, Zenon
<1> QED
  BY <1>1, <1>2, <1>4, <1>5, <1>6, <1>7, AnswerKeeps, Zenon DEF Events

LEMMA PostAnswer ==
  ASSUME IndInv, ProcessPost
  PROVE  IndInv'
<1> DEFINE end == IF cs \in path_callback' THEN <<<<"post_fin", 0>>>> ELSE <<>>
           list == Begin \o end
           frames == IF cs \in path_callback' THEN <<"headers", "fin">>
                     ELSE <<"headers", "data", "fin">>
<1>1. /\ LoopOver /\ Processed /\ Return /\ Answer(frames) /\ Called(cs, list)
      /\ UNCHANGED <<wt, is_upgraded>> /\ path_callback' \subseteq path_callback \cup {cs}
  BY DEF ProcessPost, Process
<1>2. request' = request /\ cs \in Streams
  BY <1>1 DEF Return, LoopOver, IndInv, TypeOK
<1>3. OneHeader(frames) /\ (call = "fin" \/ \E i \in DOMAIN frames : frames[i] = "fin")
  BY OneHeaderAnswers
<1>4. end \in Seq(HandlerCalls) /\ ~Has(end, "connect")
  BY OneCall, NoCall DEF Events
<1> HIDE DEF end, frames
<1>5. list \in Seq(HandlerCalls) /\ ~Has(list, "connect")
  BY <1>4, BeginCalls, HasConcat
<1> HIDE DEF list
<1>6. /\ calls' \in [Streams -> Seq(HandlerCalls)]
      /\ \A r \in Streams : \A e :
           HandlerSaw(r, e)' <=> HandlerSaw(r, e) \/ (r = cs /\ Has(list, e))
  BY <1>1, <1>2, <1>5, CalledStep DEF IndInv
<1>7. path_callback' \subseteq Streams
  BY <1>1, <1>2 DEF IndInv, TypeOK
<1> QED
  BY <1>1, <1>2, <1>3, <1>5, <1>6, <1>7, AnswerKeeps

\* A CONNECT that reaches the handler.
LEMMA ConnectStep ==
  ASSUME IndInv, ConnectAccepted \/ ConnectRefused
  PROVE  IndInv'
<1>1. /\ LoopOver /\ Return /\ Method = "connect" /\ wt' = TRUE
      /\ is_upgraded \subseteq is_upgraded' /\ is_upgraded' \subseteq is_upgraded \cup {cs}
      /\ path_callback' = path_callback \cup {cs}
      /\ Called(cs, <<<<"connect", 0>>>>)
  BY DEF ConnectAccepted, ConnectRefused, ConnectHandler, Process
<1>2. PICK frames \in {<<"headers", "headers">>, <<"headers", "headers", "fin">>,
                       <<"headers", "fin">>} : Answer(frames)
  BY DEF ConnectAccepted, ConnectRefused
<1>3. frames \in Seq(Frames) /\ frames # <<>>
  <2>1. /\ <<"headers", "headers">> \in Seq(Frames)
        /\ <<"headers", "headers", "fin">> \in Seq(Frames)
        /\ <<"headers", "fin">> \in Seq(Frames)
    BY DEF Frames
  <2>2. /\ <<"headers", "headers">> # <<>>
        /\ <<"headers", "headers", "fin">> # <<>>
        /\ <<"headers", "fin">> # <<>>
    OBVIOUS
  <2> QED
    BY <1>2, <2>1, <2>2, Zenon
<1>4. /\ UNCHANGED <<request, cs, hand, at, headerVars, post_received, process_complete>>
      /\ call' = "none" /\ cs \in Streams
      /\ finished' = IF call = "fin" THEN finished \cup {cs} ELSE finished
      /\ call # "none"
  BY <1>1 DEF Return, LoopOver, IndInv, TypeOK
<1>5. /\ out' \in [Streams -> Seq(Frames)] /\ reset' \subseteq Streams
      /\ closed' \in BOOLEAN
      /\ reset \subseteq reset' /\ (out'[cs] # <<>> \/ cs \in reset')
      /\ \A s \in Streams : s # cs => out'[s] = out[s]
  BY <1>2, <1>3, AnswerStep DEF IndInv
<1>6. /\ calls' \in [Streams -> Seq(HandlerCalls)]
      /\ \A r \in Streams : \A e :
           HandlerSaw(r, e)' <=> HandlerSaw(r, e) \/ (r = cs /\ e = "connect")
  <2>1. /\ <<<<"connect", 0>>>> \in Seq(HandlerCalls)
        /\ \A e : Has(<<<<"connect", 0>>>>, e) <=> e = "connect"
    BY OneCall DEF Events
  <2> QED
    BY <1>1, <1>4, <2>1, CalledStep, Zenon DEF IndInv
<1>7. process_complete' \in BOOLEAN
  BY <1>4, Zenon DEF IndInv, TypeOK
<1>8. TypeOK'
  BY <1>1, <1>4, <1>5, <1>6, <1>7 DEF IndInv, TypeOK, headerVars, HandlerCalls
<1>9. HandlerSaw(cs, "connect")'
  BY <1>4, <1>6
<1> QED
  BY <1>1, <1>4, <1>5, <1>6, <1>8, <1>9, ReturnStep
-----------------------------------------------------------------------------
LEMMA IndInit == Init => IndInv
<1> SUFFICES ASSUME Init PROVE IndInv
  OBVIOUS
<1>1. \A s \in Streams, e \in Events : ~HandlerSaw(s, e) /\ out[s] = <<>>
  BY DEF Init, HandlerSaw
<1>2. cs \in Streams
  BY StreamsAssumption DEF Init
<1>3. TypeOK
  <2>1. /\ out \in [Streams -> Seq(Frames)]
        /\ calls \in [Streams -> Seq(Events \X Nat)]
    BY NoCall DEF Init, HandlerCalls
  <2>2. process_complete \in BOOLEAN /\ wt \in BOOLEAN /\ closed \in BOOLEAN
    BY DEF Init
  <2> QED
    BY <1>2, <2>1, <2>2 DEF Init, TypeOK
<1> QED
  BY <1>1, <1>3 DEF Init, IndInv, Taken, Completed, AnswerEnds, OneConnect, EndDealtWith,
                    AnsweredOnce, Events

LEMMA IndStep == IndInv /\ [Next]_vars => IndInv'
<1> SUFFICES ASSUME IndInv, [Next]_vars PROVE IndInv'
  OBVIOUS
<1>1. CASE CallStep
  BY <1>1, TurnStep, SilentReturn, PlainAnswer, PostAnswer, ConnectStep DEF CallStep
<1>2. CASE CnxClosed \/ \E s \in Streams : Deliver(s) \/ StreamReset(s)
  BY <1>2, EventStep, StreamsAssumption
<1>3. CASE UNCHANGED vars
  BY <1>3 DEF vars, cnxVars, callVars, headerVars, IndInv, TypeOK, Taken, Completed,
              AnswerEnds, OneConnect, EndDealtWith, AnsweredOnce, HandlerSaw, Ended
<1> QED
  BY <1>1, <1>2, <1>3 DEF Next

\* The invariant holds in every state.
THEOREM Invariant == Spec => []IndInv
BY IndInit, IndStep, PTL DEF Spec

\* The requests, the answers and the handler's history keep their types.
THEOREM TypeCorrect == Spec => []TypeOK
<1>1. IndInv => TypeOK
  BY DEF IndInv
<1> QED
  BY <1>1, Invariant, PTL

\* camera_path_callback gets at most one CONNECT of a connection.
THEOREM OneConnectHolds == Spec => []OneConnect
<1>1. IndInv => OneConnect
  BY DEF IndInv
<1> QED
  BY <1>1, Invariant, PTL

\* The end of every request is answered, handed to the handler or refused.
THEOREM EndDealtWithHolds == Spec => []EndDealtWith
<1>1. IndInv => EndDealtWith
  BY DEF IndInv
<1> QED
  BY <1>1, Invariant, PTL

\* No request is answered twice or before its end, but for a CONNECT that reached
\* the handler.
THEOREM AnsweredOnceHolds == Spec => []AnsweredOnce
<1>1. IndInv => AnsweredOnce
  BY DEF IndInv
<1> QED
  BY <1>1, Invariant, PTL
-----------------------------------------------------------------------------
(* The calls a handler gets for a POST.                                    *)

Posts == {s \in Streams : request[s].method = "post" /\ request[s].camera}

\* What is known of the request, and what its handler was told.
PostStream(s) ==
  /\ s \notin is_web_transport
  /\ s \in header_found <=> \E p \in 1..(at[s] - 1) : request[s].pieces[p] \in {"header", "broken"}
  /\ s \in post_received <=> Data(s) # {}
  /\ s \in post_received => s \in path_callback
  /\ Reports(calls[s]) = IF s \in header_found THEN Due(s) ELSE {}
  /\ InOrder(calls[s])

PostInv ==
  /\ call # "none" => hand <= Len(request[cs].pieces)
  /\ call # "none" /\ cs \in Posts => ~process_complete
  /\ \A s \in Posts : PostStream(s)

\* Two lists of calls, one behind the other: both are reported, and in order if the
\* first is before the second.
LEMMA ReportsConcat ==
  ASSUME NEW a \in Seq(HandlerCalls), NEW b \in Seq(HandlerCalls), InOrder(a), InOrder(b),
         \A c \in Reports(a), d \in Reports(b) : Before(c, d)
  PROVE  /\ a \o b \in Seq(HandlerCalls)
         /\ Reports(a \o b) = Reports(a) \cup Reports(b)
         /\ InOrder(a \o b)
<1> DEFINE c == a \o b
<1>1. /\ c \in Seq(HandlerCalls)
      /\ DOMAIN a = 1..Len(a) /\ DOMAIN b = 1..Len(b)
      /\ DOMAIN c = 1..(Len(a) + Len(b))
      /\ Len(a) \in Nat /\ Len(b) \in Nat
      /\ \A i \in 1..Len(a) : c[i] = a[i]
      /\ \A i \in 1..Len(b) : c[Len(a) + i] = b[i]
      /\ \A i \in 1..(Len(a) + Len(b)) :
           i \notin 1..Len(a) => i - Len(a) \in 1..Len(b) /\ c[i] = b[i - Len(a)]
  BY Concat
<1> HIDE DEF c
<1>2. \A i \in 1..Len(a) : i \in DOMAIN c
  BY <1>1
<1>3. \A i \in 1..Len(b) : Len(a) + i \in DOMAIN c
  BY <1>1
<1>4. {c[i] : i \in DOMAIN c} = {a[i] : i \in DOMAIN a} \cup {b[i] : i \in DOMAIN b}
  <2>1. ASSUME NEW i \in DOMAIN c
        PROVE  c[i] \in {a[j] : j \in DOMAIN a} \cup {b[j] : j \in DOMAIN b}
    BY <1>1
  <2>2. ASSUME NEW i \in DOMAIN a PROVE a[i] \in {c[j] : j \in DOMAIN c}
    BY <1>1, <1>2
  <2>3. ASSUME NEW i \in DOMAIN b PROVE b[i] \in {c[j] : j \in DOMAIN c}
    BY <1>1, <1>3
  <2> QED
    BY <2>1, <2>2, <2>3
<1>5. Reports(c) = Reports(a) \cup Reports(b)
  BY <1>4, Zenon DEF Reports
<1>6. \A i \in DOMAIN a : a[i] \in Reports(c) => a[i] \in Reports(a)
  BY DEF Reports
<1>7. \A i \in DOMAIN b : b[i] \in Reports(c) => b[i] \in Reports(b)
  BY DEF Reports
<1>8. ASSUME NEW i \in DOMAIN c, NEW j \in DOMAIN c, i < j,
             c[i] \in Reports(c), c[j] \in Reports(c)
      PROVE  Before(c[i], c[j])
  <2>1. CASE i \in DOMAIN a /\ j \in DOMAIN a
    <3>1. c[i] = a[i] /\ c[j] = a[j]
      BY <1>1, <2>1
    <3> QED
      BY <1>6, <1>8, <2>1, <3>1 DEF InOrder
  <2>2. CASE i \in DOMAIN a /\ j \notin DOMAIN a
    <3>1. c[i] = a[i] /\ \E k \in DOMAIN b : c[j] = b[k]
      BY <1>1, <2>2
    <3> QED
      BY <1>6, <1>7, <1>8, <2>2, <3>1
  <2>3. CASE i \notin DOMAIN a
    <3>1. j \notin DOMAIN a
      BY <1>1, <1>8, <2>3
    <3>2. PICK k \in DOMAIN b : k = i - Len(a) /\ c[i] = b[k]
      BY <1>1, <2>3
    <3>3. PICK l \in DOMAIN b : l = j - Len(a) /\ c[j] = b[l]
      BY <1>1, <3>1
    <3>4. k < l
      BY <1>1, <1>8, <3>2, <3>3
    <3> QED
      BY <1>7, <1>8, <3>2, <3>3, <3>4 DEF InOrder
  <2> QED
    BY <2>1, <2>2, <2>3
<1>9. InOrder(c)
  BY <1>8 DEF InOrder
<1> QED
  BY <1>1, <1>5, <1>9 DEF c

\* Lists of no call and of one.
LEMMA ReportsOne ==
  ASSUME NEW event \in Events, NEW n \in Nat
  PROVE  /\ <<<<event, n>>>> \in Seq(HandlerCalls)
         /\ Reports(<<<<event, n>>>>) =
              IF event \in {"reset", "free"} THEN {} ELSE {<<event, n>>}
         /\ InOrder(<<<<event, n>>>>)
<1> DEFINE one == <<<<event, n>>>>
<1>1. one \in Seq(HandlerCalls) /\ DOMAIN one = {1} /\ one[1] = <<event, n>>
  BY DEF HandlerCalls
<1>2. <<event, n>>[1] = event
  OBVIOUS
<1> HIDE DEF one
<1>3. {one[i] : i \in DOMAIN one} = {<<event, n>>}
  <2>1. \A c : c \in {one[i] : i \in DOMAIN one} <=> c = one[1]
    BY <1>1, Zenon
  <2> QED
    BY <1>1, <2>1
<1>4. Reports(one) = IF event \in {"reset", "free"} THEN {} ELSE {<<event, n>>}
  BY <1>2, <1>3, Zenon DEF Reports
<1>5. InOrder(one)
  BY <1>1 DEF InOrder
<1> QED
  BY <1>1, <1>4, <1>5 DEF one

LEMMA ReportsNone ==
  <<>> \in Seq(HandlerCalls) /\ Reports(<<>>) = {} /\ InOrder(<<>>)
BY DEF Reports, InOrder

\* More calls of a handler, behind those it had.
LEMMA CalledReports ==
  ASSUME TypeOK, NEW s \in Streams, NEW list \in Seq(HandlerCalls), Called(s, list),
         InOrder(calls[s]), InOrder(list),
         \A c \in Reports(calls[s]), d \in Reports(list) : Before(c, d)
  PROVE  /\ Reports(calls'[s]) = Reports(calls[s]) \cup Reports(list)
         /\ InOrder(calls'[s])
         /\ \A r \in Streams : r # s => calls'[r] = calls[r]
<1>1. calls \in [Streams -> Seq(HandlerCalls)]
  BY DEF TypeOK, HandlerCalls
<1>2. /\ calls'[s] = calls[s] \o list
      /\ \A r \in Streams : r # s => calls'[r] = calls[r]
  BY <1>1 DEF Called
<1>3. calls[s] \in Seq(HandlerCalls)
  BY <1>1
<1> QED
  BY <1>2, <1>3, ReportsConcat, Zenon
-----------------------------------------------------------------------------
\* A step that says nothing about a request.
LEMMA SameStream ==
  ASSUME NEW s \in Posts, PostStream(s), request' = request, at'[s] = at[s],
         Reports(calls'[s]) = Reports(calls[s]), InOrder(calls'[s]),
         s \in is_web_transport' <=> s \in is_web_transport,
         s \in header_found' <=> s \in header_found,
         s \in post_received' <=> s \in post_received,
         s \in path_callback => s \in path_callback',
         s \in finished' /\ s \in header_found <=> s \in finished /\ s \in header_found
  PROVE  PostStream(s)'
<1>1. Data(s)' = Data(s)
  BY DEF Data
<1>2. s \in header_found => Due(s)' = Due(s)
  BY <1>1 DEF Due
<1> QED
  BY <1>1, <1>2 DEF PostStream

LEMMA PostEvent ==
  ASSUME IndInv, PostInv, NEW r \in Streams, Deliver(r) \/ StreamReset(r) \/ CnxClosed
  PROVE  PostInv'
<1>1. request' = request /\ at' = at /\ header_found' = header_found
      /\ is_web_transport' = is_web_transport /\ post_received' = post_received
      /\ path_callback' = path_callback /\ finished' = finished
  BY DEF Deliver, StreamReset, CnxClosed, cnxVars, headerVars
<1>2. calls \in [Streams -> Seq(HandlerCalls)]
  BY DEF IndInv, TypeOK, HandlerCalls
<1>3. ASSUME NEW s \in Posts
      PROVE  Reports(calls'[s]) = Reports(calls[s]) /\ InOrder(calls'[s])
  <2>1. s \in Streams /\ InOrder(calls[s]) /\ calls[s] \in Seq(HandlerCalls)
    BY <1>2 DEF Posts, PostInv, PostStream
  <2>2. CASE calls' = calls
    BY <2>1, <2>2
  <2>3. ASSUME NEW event \in {"reset", "free"}, calls'[s] = calls[s] \o <<<<event, 0>>>>
        PROVE  Reports(calls'[s]) = Reports(calls[s]) /\ InOrder(calls'[s])
    <3>1. /\ <<<<event, 0>>>> \in Seq(HandlerCalls) /\ InOrder(<<<<event, 0>>>>)
          /\ Reports(<<<<event, 0>>>>) = {}
      BY ReportsOne DEF Events
    <3>2. \A c \in Reports(calls[s]), d \in Reports(<<<<event, 0>>>>) : Before(c, d)
      BY <3>1
    <3> HIDE DEF Posts
    <3>3. /\ Reports(calls[s] \o <<<<event, 0>>>>) =
               Reports(calls[s]) \cup Reports(<<<<event, 0>>>>)
          /\ InOrder(calls[s] \o <<<<event, 0>>>>)
      BY <2>1, <3>1, <3>2, ReportsConcat, Zenon
    <3> QED
      BY <2>3, <3>1, <3>3
  <2>4. CASE StreamReset(r)
    <3>1. CASE Called(r, <<<<"reset", 0>>>>)
      <4>1. CASE s = r
        BY <1>2, <2>1, <2>3, <3>1, <4>1 DEF Called
      <4>2. CASE s # r
        BY <1>2, <2>1, <3>1, <4>2 DEF Called
      <4> QED
        BY <4>1, <4>2
    <3> QED
      BY <2>2, <2>4, <3>1 DEF StreamReset
  <2>5. CASE CnxClosed
    <3>1. calls'[s] = IF s \in path_callback THEN Append(calls[s], <<"free", 0>>) ELSE calls[s]
      BY <2>1, <2>5 DEF CnxClosed
    <3>2. Append(calls[s], <<"free", 0>>) = calls[s] \o <<<<"free", 0>>>>
      BY <2>1
    <3> QED
      BY <2>1, <2>3, <3>1, <3>2
  <2>6. CASE Deliver(r)
    BY <2>2, <2>6 DEF Deliver
  <2> QED
    BY <2>4, <2>5, <2>6
<1>4. Posts' = Posts /\ \A s \in Posts : PostStream(s)'
  BY <1>1, <1>3, SameStream DEF PostInv, Posts
<1>5. call' # "none" => hand' <= Len(request'[cs'].pieces)
  <2>1. CASE Deliver(r)
    <3>1. at[r] \in Nat \ {0} /\ request[r].pieces \in Seq(Pieces)
      BY RequestsAssumption DEF IndInv, TypeOK
    <3>2. /\ hand' \in (at[r] - 1)..Len(request[r].pieces) /\ cs' = r
          /\ Len(request[r].pieces) \in Nat
      BY <2>1, <3>1 DEF Deliver
    <3> QED
      BY <1>1, <3>1, <3>2
  <2>2. CASE StreamReset(r) \/ CnxClosed
    BY <1>1, <2>2 DEF StreamReset, CnxClosed, callVars
  <2> QED
    BY <2>1, <2>2
<1>6. call' # "none" => ~process_complete'
  BY DEF Deliver, StreamReset, CnxClosed, callVars
<1> QED
  BY <1>4, <1>5, <1>6 DEF PostInv

\* What the assumption about requests says of a POST whose piece is next.
LEMMA NextPiece ==
  ASSUME IndInv, PostInv, call # "none", cs \in Posts, at[cs] <= hand
  PROVE  /\ at[cs] \in Nat \ {0} /\ at[cs] \in DOMAIN request[cs].pieces
         /\ request[cs].pieces[at[cs]] # "webtransport"
         /\ request[cs].pieces[at[cs]] = "data" => cs \in header_found
         /\ cs \notin is_web_transport /\ cs \notin finished
<1>1. cs \in Streams /\ at[cs] \in Nat \ {0} /\ hand \in Nat
      /\ request[cs] \in Requests /\ request[cs].pieces \in Seq(Pieces)
      /\ request[cs].method = "post"
  BY RequestsAssumption DEF IndInv, TypeOK, Posts
<1>2. hand <= Len(request[cs].pieces) /\ Len(request[cs].pieces) \in Nat
  BY <1>1 DEF PostInv
<1>3. at[cs] \in DOMAIN request[cs].pieces
  BY <1>1, <1>2
<1>4. \A p \in DOMAIN request[cs].pieces : request[cs].pieces[p] # "webtransport"
  BY <1>1, RequestsAssumption
<1>5. ASSUME request[cs].pieces[at[cs]] = "data" PROVE cs \in header_found
  <2>1. PICK q \in 1..(at[cs] - 1) : request[cs].pieces[q] \in {"header", "webtransport"}
    BY <1>1, <1>3, <1>5, RequestsAssumption
  <2>2. q \in DOMAIN request[cs].pieces
    BY <1>1, <1>2, <2>1
  <2>3. request[cs].pieces[q] = "header"
    BY <1>4, <2>1, <2>2
  <2> QED
    BY <2>3 DEF PostInv, PostStream
<1> QED
  BY <1>1, <1>3, <1>4, <1>5 DEF PostInv, PostStream, IndInv, Taken

\* A turn of the loop over a POST's piece that is no data.
LEMMA PlainPiece ==
  ASSUME IndInv, PostInv, cs \in Posts, TurnHeader \/ TurnOther \/ TurnError \/ TurnBroken
  PROVE  PostStream(cs)'
<1> DEFINE a == at[cs]  P == request[cs].pieces
<1>1. /\ call # "none" /\ a <= hand /\ at' = [at EXCEPT ![cs] = @ + 1]
      /\ UNCHANGED <<request, finished, cs, is_web_transport, post_received,
                     path_callback, calls>>
      /\ \/ P[a] \in {"header", "broken"} /\ header_found' = header_found \cup {cs}
         \/ P[a] \notin {"header", "broken", "data"} /\ header_found' = header_found
  BY DEF TurnHeader, TurnOther, TurnError, TurnBroken, Turn, InTurn, headerVars
<1>2. a \in Nat \ {0} /\ cs \notin finished
  BY <1>1, NextPiece
<1>3. at'[cs] = a + 1
  BY <1>1, <1>2 DEF IndInv, TypeOK, Posts
<1> DEFINE b == at'[cs]
<1>4. \A p : p \in 1..(b - 1) <=> p \in 1..(a - 1) \/ p = a
  BY <1>2, <1>3
<1>5. Data(cs)' = Data(cs)
  BY <1>1, <1>4 DEF Data
<1>6. Due(cs)' = Due(cs)
  BY <1>1, <1>5 DEF Due
<1>7. PostStream(cs)
  BY DEF PostInv
<1>8. cs \in header_found' <=> \E p \in 1..(b - 1) : P[p] \in {"header", "broken"}
  BY <1>1, <1>4, <1>7 DEF PostStream
<1>9. Reports(calls[cs]) = IF cs \in header_found' THEN Due(cs) ELSE {}
  <2>1. CASE cs \in header_found
    BY <1>1, <1>7, <2>1 DEF PostStream
  <2>2. CASE cs \notin header_found
    <3>1. Data(cs) = {}
      <4> SUFFICES ASSUME NEW p \in Data(cs) PROVE FALSE
        OBVIOUS
      <4>1. p \in 1..(a - 1) /\ P[p] = "data"
        BY DEF Data
      <4>2. P \in Seq(Pieces) /\ a \in DOMAIN P /\ request[cs] \in Requests
        BY <1>1, NextPiece, RequestsAssumption DEF IndInv, TypeOK, Posts
      <4>3. p \in DOMAIN P
        BY <1>2, <4>1, <4>2
      <4>4. PICK q \in 1..(p - 1) : P[q] \in {"header", "webtransport"}
        BY <4>1, <4>2, <4>3, RequestsAssumption
      <4>5. q \in 1..(a - 1) /\ q \in DOMAIN P
        BY <1>2, <4>1, <4>2, <4>3, <4>4
      <4>6. P[q] # "webtransport"
        BY <4>2, <4>5, RequestsAssumption DEF Posts
      <4> QED
        BY <1>7, <2>2, <4>4, <4>5, <4>6 DEF PostStream
    <3>2. Due(cs) = {}
      BY <1>2, <3>1 DEF Due
    <3> QED
      BY <1>7, <2>2, <3>2 DEF PostStream
  <2> QED
    BY <2>1, <2>2
<1> QED
  BY <1>1, <1>5, <1>6, <1>7, <1>8, <1>9 DEF PostStream

\* What the handler of a POST was told before a call is over is no end.
LEMMA BeforeEnd ==
  ASSUME NEW s \in Streams, cs = s, IndInv, PostInv, call # "none", s \in Posts, s \in header_found
  PROVE  /\ Reports(calls[s]) = (IF Data(s) # {} THEN {<<"post", 0>>} ELSE {})
                                  \cup {<<"post_data", p>> : p \in Data(s)}
         /\ InOrder(calls[s]) /\ s \notin finished
BY DEF PostInv, PostStream, Due, IndInv, Taken

\* What one more call of the handler, and the call that begins a POST, add.
LEMMA CalledPost ==
  ASSUME IndInv, PostInv, call # "none", cs \in Posts, cs \in header_found,
         NEW event \in {"post_data", "post_fin"}, NEW n \in Nat,
         event = "post_data" => \A p \in Data(cs) : p < n,
         Called(cs, Begin \o <<<<event, n>>>>)
  PROVE  /\ Reports(calls'[cs]) =
              {<<"post", 0>>} \cup {<<"post_data", p>> : p \in Data(cs)} \cup {<<event, n>>}
         /\ InOrder(calls'[cs])
         /\ \A r \in Streams : r # cs => calls'[r] = calls[r]
<1> DEFINE one == <<<<event, n>>>>
           list == Begin \o one
           told == Reports(calls[cs])
<1>1. cs \in Streams /\ request[cs].camera /\ TypeOK
  BY DEF Posts, IndInv
<1>2. /\ told = (IF Data(cs) # {} THEN {<<"post", 0>>} ELSE {})
                  \cup {<<"post_data", p>> : p \in Data(cs)}
      /\ InOrder(calls[cs])
  BY <1>1, BeforeEnd
<1>3. one \in Seq(HandlerCalls) /\ Reports(one) = {<<event, n>>} /\ InOrder(one)
  BY ReportsOne DEF Events
<1>4. Begins <=> Data(cs) = {}
  BY <1>1 DEF Begins, PostInv, PostStream
<1>5. /\ Begin \in Seq(HandlerCalls) /\ InOrder(Begin)
      /\ Reports(Begin) = IF Data(cs) = {} THEN {<<"post", 0>>} ELSE {}
  <2>1. CASE Data(cs) = {}
    BY <1>4, <2>1, ReportsOne DEF Begin, Events
  <2>2. CASE Data(cs) # {}
    BY <1>4, <2>2, ReportsNone DEF Begin
  <2> QED
    BY <2>1, <2>2
<1>6. \A c \in Reports(Begin), d \in Reports(one) : Before(c, d)
  BY <1>3, <1>5 DEF Before
<1> HIDE DEF one
<1>7. /\ list \in Seq(HandlerCalls) /\ InOrder(list)
      /\ Reports(list) = Reports(Begin) \cup Reports(one)
  BY <1>3, <1>5, <1>6, ReportsConcat
<1> HIDE DEF list
<1>8. \A c \in told, d \in Reports(list) : Before(c, d)
  <2>1. ASSUME NEW c \in told, NEW d \in Reports(list) PROVE Before(c, d)
    <3>1. Data(cs) # {}
      BY <1>2
    <3>2. d = <<event, n>>
      BY <1>3, <1>5, <1>7, <3>1
    <3>3. c = <<"post", 0>> \/ \E p \in Data(cs) : c = <<"post_data", p>>
      BY <1>2
    <3> QED
      BY <3>2, <3>3 DEF Before
  <2> QED
    BY <2>1
<1>9. /\ Reports(calls'[cs]) = told \cup Reports(list)
      /\ InOrder(calls'[cs])
      /\ \A r \in Streams : r # cs => calls'[r] = calls[r]
  <2>1. Called(cs, list)
    BY DEF list, one
  <2> HIDE DEF told
  <2>2. \A c \in Reports(calls[cs]), d \in Reports(list) : Before(c, d)
    BY <1>8 DEF told
  <2> QED
    BY <1>1, <1>2, <1>7, <2>1, <2>2, CalledReports DEF told
<1>10. told \cup Reports(list) =
         {<<"post", 0>>} \cup {<<"post_data", p>> : p \in Data(cs)} \cup {<<event, n>>}
  BY <1>2, <1>3, <1>5, <1>7
<1> QED
  BY <1>9, <1>10

\* A turn of the loop over a POST's data.
LEMMA DataPiece ==
  ASSUME IndInv, PostInv, cs \in Posts, TurnData
  PROVE  /\ PostStream(cs)' /\ process_complete' = process_complete
         /\ \A r \in Streams : r # cs => calls'[r] = calls[r]
<1> DEFINE a == at[cs]  P == request[cs].pieces
<1>1. /\ call # "none" /\ a <= hand /\ at' = [at EXCEPT ![cs] = @ + 1] /\ P[a] = "data"
      /\ UNCHANGED <<request, finished, cs, headerVars>>
  BY DEF TurnData, Turn, InTurn
<1>2. a \in Nat \ {0} /\ cs \notin finished /\ cs \in header_found
  BY <1>1, NextPiece
<1>3. at'[cs] = a + 1
  BY <1>1, <1>2 DEF IndInv, TypeOK, Posts
<1> DEFINE b == at'[cs]
<1>4. \A p : p \in 1..(b - 1) <=> p \in 1..(a - 1) \/ p = a
  BY <1>2, <1>3
<1>5. Data(cs)' = Data(cs) \cup {a} /\ \A p \in Data(cs) : p < a
  <2>1. Data(cs)' = Data(cs) \cup {a}
    BY <1>1, <1>4 DEF Data
  <2>2. \A p \in Data(cs) : p < a
    BY <1>2 DEF Data
  <2> QED
    BY <2>1, <2>2
<1>6. PostStream(cs) /\ IsPost
  BY <1>2 DEF PostInv, IsPost, Method, Posts
<1>7. cs \in path_callback' /\ post_received' = post_received \cup {cs}
      /\ process_complete' = process_complete
  <2>1. cs \in path_callback'
    BY <1>2, <1>6 DEF TurnData, Begins, PostStream, Posts
  <2>2. process_complete \in BOOLEAN
    BY Zenon DEF IndInv, TypeOK
  <2> QED
    BY <1>6, <2>1, <2>2 DEF TurnData
<1>8. Called(cs, Begin \o <<<<"post_data", a>>>>)
  BY <1>6, <1>7 DEF TurnData
<1>9. /\ Reports(calls'[cs]) =
           {<<"post", 0>>} \cup {<<"post_data", p>> : p \in Data(cs)} \cup {<<"post_data", a>>}
      /\ InOrder(calls'[cs])
      /\ \A r \in Streams : r # cs => calls'[r] = calls[r]
  BY <1>1, <1>2, <1>5, <1>8, CalledPost
<1>10. Due(cs)' = {<<"post", 0>>} \cup {<<"post_data", p>> : p \in Data(cs)} \cup {<<"post_data", a>>}
  BY <1>1, <1>2, <1>5 DEF Due
<1>11. \E p \in 1..(b - 1) : P[p] \in {"header", "broken"}
  BY <1>2, <1>4, <1>6 DEF PostStream
<1> QED
  BY <1>1, <1>2, <1>5, <1>6, <1>7, <1>9, <1>10, <1>11 DEF PostStream, headerVars

\* The end of a call with a POST.
LEMMA PostEnd ==
  ASSUME IndInv, PostInv, cs \in Posts, LoopOver, Return,
         NotProcessed \/ EndsWithoutHeader \/ ProcessPost
  PROVE  PostStream(cs)' /\ \A r \in Streams : r # cs => calls'[r] = calls[r]
<1>1. /\ UNCHANGED <<request, cs, at, headerVars, post_received, process_complete>>
      /\ finished' = IF call = "fin" THEN finished \cup {cs} ELSE finished
      /\ call # "none"
  BY DEF Return, LoopOver
<1>2. PostStream(cs) /\ ~process_complete /\ request[cs].method = "post" /\ request[cs].camera
      /\ cs \in Streams
  BY <1>1 DEF PostInv, Posts
<1>3. CASE NotProcessed \/ EndsWithoutHeader
  <2>1. calls' = calls /\ path_callback' = path_callback
    BY <1>3 DEF NotProcessed, EndsWithoutHeader
  <2>2. call # "fin" \/ cs \notin header_found
    BY <1>2, <1>3 DEF NotProcessed, EndsWithoutHeader, Processed, PostStream
  <2>3. cs \in finished' /\ cs \in header_found <=> cs \in finished /\ cs \in header_found
    BY <1>1, <2>2
  <2>4. InOrder(calls[cs])
    BY <1>2 DEF PostStream
  <2>5. PostStream(cs)'
    <3>1. /\ at'[cs] = at[cs] /\ calls'[cs] = calls[cs] /\ is_web_transport' = is_web_transport
          /\ header_found' = header_found
      BY <1>1, <2>1 DEF headerVars
    <3> QED
      BY <1>1, <1>2, <2>1, <2>3, <2>4, <3>1, SameStream
  <2> QED
    BY <2>1, <2>5
<1>4. CASE ProcessPost
  <2>1. cs \in header_found /\ call = "fin"
    BY <1>2, <1>4 DEF ProcessPost, Process, Processed, Method
  <2>2. cs \in path_callback'
    BY <1>2, <1>4, <2>1 DEF ProcessPost, Begins, PostStream
  <2>3. Called(cs, Begin \o <<<<"post_fin", 0>>>>)
    BY <1>4, <2>2 DEF ProcessPost
  <2>4. /\ Reports(calls'[cs]) =
             {<<"post", 0>>} \cup {<<"post_data", p>> : p \in Data(cs)} \cup {<<"post_fin", 0>>}
        /\ InOrder(calls'[cs])
        /\ \A r \in Streams : r # cs => calls'[r] = calls[r]
    BY <1>1, <2>1, <2>3, CalledPost
  <2>5. Data(cs)' = Data(cs) /\ cs \in finished'
    BY <1>1, <2>1 DEF Data
  <2>6. Due(cs)' =
          {<<"post", 0>>} \cup {<<"post_data", p>> : p \in Data(cs)} \cup {<<"post_fin", 0>>}
    BY <1>1, <2>5 DEF Due
  <2> QED
    BY <1>1, <1>2, <2>1, <2>2, <2>4, <2>5, <2>6 DEF PostStream, headerVars
<1> QED
  BY <1>3, <1>4

\* What a step of a call may change: its own stream.
OwnStream ==
  /\ request' = request /\ cs' = cs
  /\ \A s \in Streams \ {cs} :
       /\ at'[s] = at[s] /\ calls'[s] = calls[s]
       /\ s \in is_web_transport' <=> s \in is_web_transport
       /\ s \in header_found' <=> s \in header_found
       /\ s \in post_received' <=> s \in post_received
       /\ s \in path_callback => s \in path_callback'
       /\ s \in finished' <=> s \in finished

LEMMA OwnStreamStep ==
  ASSUME IndInv, PostInv, CallStep
  PROVE  OwnStream
<1>1. cs \in Streams /\ at \in [Streams -> Nat \ {0}] /\ calls \in [Streams -> Seq(HandlerCalls)]
  BY DEF IndInv, TypeOK, HandlerCalls
<1>2. \A list : Called(cs, list) => \A s \in Streams \ {cs} : calls'[s] = calls[s]
  BY <1>1 DEF Called
<1>3. CASE TurnHeader \/ TurnWebtransport \/ TurnOther \/ TurnError \/ TurnBroken \/ TurnWebtransportData
  BY <1>1, <1>3 DEF TurnHeader, TurnWebtransport, TurnOther, TurnError, TurnBroken,
              TurnWebtransportData,
                    Turn, InTurn, OwnStream, headerVars
<1>4. CASE TurnData
  BY <1>1, <1>2, <1>4 DEF TurnData, Turn, InTurn, OwnStream, headerVars
<1>5. ASSUME Return, calls' = calls \/ \E list : Called(cs, list),
             path_callback \subseteq path_callback'
      PROVE  OwnStream
  BY <1>1, <1>2, <1>5 DEF Return, OwnStream, headerVars
<1>6. CASE NotProcessed \/ EndsWithoutHeader \/ ProcessGet \/ ProcessUnknown
           \/ ConnectNotFound \/ ConnectDuplicate
  BY <1>5, <1>6 DEF NotProcessed, EndsWithoutHeader, ProcessGet, ProcessUnknown,
                    ConnectNotFound, ConnectDuplicate, Process
<1>7. CASE ProcessPost
  BY <1>5, <1>7 DEF ProcessPost, Process
<1>8. CASE ConnectAccepted \/ ConnectRefused
  BY <1>5, <1>8 DEF ConnectAccepted, ConnectRefused, ConnectHandler, Process
<1> QED
  BY <1>3, <1>4, <1>6, <1>7, <1>8 DEF CallStep

\* A step of a call whose request is a POST.
LEMMA OwnPost ==
  ASSUME IndInv, PostInv, CallStep, cs \in Posts
  PROVE  PostStream(cs)' /\ (call' # "none" => ~process_complete')
<1>1. request[cs].method = "post" /\ request[cs].camera
  BY DEF Posts
<1>2. call # "none"
  BY DEF CallStep, TurnHeader, TurnWebtransport, TurnOther, TurnError, TurnBroken,
              TurnWebtransportData,
         TurnData, Turn, InTurn, NotProcessed, EndsWithoutHeader, ProcessGet, ProcessPost,
         ProcessUnknown, ConnectNotFound, ConnectDuplicate, ConnectAccepted, ConnectRefused,
         ConnectHandler, Process, LoopOver
<1>3. ~process_complete
  BY <1>2 DEF PostInv
<1>4. CASE TurnHeader \/ TurnOther \/ TurnError \/ TurnBroken
  <2>1. process_complete' = process_complete
    BY <1>4 DEF TurnHeader, TurnOther, TurnError, TurnBroken
  <2> QED
    BY <1>3, <1>4, <2>1, PlainPiece
<1>5. CASE TurnWebtransport \/ TurnWebtransportData
  BY <1>5, NextPiece DEF TurnWebtransport, TurnWebtransportData, Turn, InTurn
<1>6. CASE TurnData
  BY <1>3, <1>6, DataPiece
<1>7. CASE NotProcessed \/ EndsWithoutHeader \/ ProcessPost
  <2>1. LoopOver /\ Return
    BY <1>7 DEF NotProcessed, EndsWithoutHeader, ProcessPost, Process
  <2>2. call' = "none"
    BY <2>1 DEF Return
  <2> QED
    BY <1>7, <2>1, <2>2, PostEnd
<1>8. ~(ProcessGet \/ ProcessUnknown \/ ConnectNotFound \/ ConnectDuplicate
        \/ ConnectAccepted \/ ConnectRefused)
  BY <1>1 DEF ProcessGet, ProcessUnknown, ConnectNotFound, ConnectDuplicate, ConnectAccepted,
              ConnectRefused, ConnectHandler, Process, Method
<1> QED
  BY <1>4, <1>5, <1>6, <1>7, <1>8 DEF CallStep

LEMMA PostCall ==
  ASSUME IndInv, PostInv, CallStep
  PROVE  PostInv'
<1>1. OwnStream
  BY OwnStreamStep
<1>2. Posts' = Posts
  BY <1>1 DEF OwnStream, Posts
<1>3. ASSUME NEW s \in Posts, s # cs PROVE PostStream(s)'
  <2>1. s \in Streams \ {cs} /\ PostStream(s) /\ InOrder(calls[s])
    BY <1>3 DEF Posts, PostInv, PostStream
  <2>2. InOrder(calls'[s]) /\ Reports(calls'[s]) = Reports(calls[s])
    BY <1>1, <2>1 DEF OwnStream
  <2> QED
    BY <1>1, <2>1, <2>2, SameStream DEF OwnStream
<1>4. ASSUME NEW s \in Posts PROVE PostStream(s)'
  <2>1. CASE s = cs
    <3>1. PostStream(cs)' /\ cs' = s
      BY <1>1, <2>1, OwnPost DEF OwnStream
    <3> QED
      BY <3>1 DEF PostStream, Due, Data
  <2> QED
    BY <1>3, <2>1
<1>5. call' # "none" => hand' <= Len(request'[cs'].pieces)
  <2>1. CASE call' # "none"
    <3>1. hand' = hand \/ (hand' = at[cs] /\ at[cs] <= hand)
      BY <2>1 DEF CallStep, TurnHeader, TurnWebtransport, TurnOther, TurnError, TurnBroken,
                  TurnWebtransportData, TurnData, Turn, InTurn, NotProcessed,
                  EndsWithoutHeader, ProcessGet, ProcessPost, ProcessUnknown,
                  ConnectNotFound, ConnectDuplicate, ConnectAccepted, ConnectRefused,
                  ConnectHandler, Process, Return
    <3>2. call # "none"
      BY <2>1 DEF CallStep, TurnHeader, TurnWebtransport, TurnOther, TurnError, TurnBroken,
                  TurnWebtransportData, TurnData, Turn, InTurn, NotProcessed,
                  EndsWithoutHeader, ProcessGet, ProcessPost, ProcessUnknown,
                  ConnectNotFound, ConnectDuplicate, ConnectAccepted, ConnectRefused,
                  ConnectHandler, Process, Return
    <3>3. hand \in Nat /\ at[cs] \in Nat /\ request[cs].pieces \in Seq(Pieces)
      BY RequestsAssumption DEF IndInv, TypeOK
    <3>4. hand <= Len(request[cs].pieces) /\ Len(request[cs].pieces) \in Nat
      BY <3>2, <3>3 DEF PostInv
    <3>5. hand' <= Len(request[cs].pieces)
      <4> DEFINE n == Len(request[cs].pieces)
      <4> HIDE DEF n
      <4>1. PICK h : h = hand'
        OBVIOUS
      <4> QED
        BY <3>1, <3>3, <3>4 DEF n
    <3> QED
      BY <1>1, <3>5 DEF OwnStream
  <2> QED
    BY <2>1
<1>6. call' # "none" /\ cs' \in Posts => ~process_complete'
  BY <1>1, OwnPost DEF OwnStream
<1> QED
  BY <1>2, <1>4, <1>5, <1>6 DEF PostInv

LEMMA PostInit == Init => PostInv
<1> SUFFICES ASSUME Init PROVE PostInv
  OBVIOUS
<1>1. ASSUME NEW s \in Posts PROVE PostStream(s)
  <2>1. at[s] = 1 /\ calls[s] = <<>>
    BY DEF Init, Posts
  <2>2. 1..(at[s] - 1) = {}
    BY <2>1
  <2>3. Data(s) = {}
    BY <2>2 DEF Data
  <2> QED
    BY <2>1, <2>2, <2>3, ReportsNone DEF Init, PostStream
<1> QED
  BY <1>1 DEF Init, PostInv

LEMMA PostStep == IndInv /\ PostInv /\ [Next]_vars => PostInv'
<1> SUFFICES ASSUME IndInv, PostInv, [Next]_vars PROVE PostInv'
  OBVIOUS
<1>1. CASE CallStep
  BY <1>1, PostCall
<1>2. CASE CnxClosed \/ \E s \in Streams : Deliver(s) \/ StreamReset(s)
  BY <1>2, PostEvent, StreamsAssumption
<1>3. CASE UNCHANGED vars
  <2>1. /\ request' = request /\ at' = at /\ calls' = calls /\ header_found' = header_found
        /\ is_web_transport' = is_web_transport /\ post_received' = post_received
        /\ path_callback' = path_callback /\ finished' = finished
        /\ call' = call /\ hand' = hand /\ cs' = cs /\ process_complete' = process_complete
    BY <1>3 DEF vars, cnxVars, callVars, headerVars
  <2>2. Posts' = Posts
    BY <2>1 DEF Posts
  <2>3. ASSUME NEW s \in Posts PROVE PostStream(s)'
    <3>1. PostStream(s)
      BY DEF PostInv
    <3>2. Reports(calls'[s]) = Reports(calls[s]) /\ InOrder(calls'[s])
      BY <2>1, <3>1 DEF PostStream
    <3> QED
      BY <2>1, <3>1, <3>2, SameStream
  <2> QED
    BY <2>1, <2>2, <2>3 DEF PostInv
<1> QED
  BY <1>1, <1>2, <1>3 DEF Next

\* What is known of each POST of h3zero_process_h3_server_data, and the calls its handler
\* got, agree with the pieces of it that were taken.
THEOREM PostInvariant == Spec => []PostInv
<1>1. Init => PostInv
  BY PostInit
<1>2. IndInv /\ PostInv /\ [Next]_vars => PostInv'
  BY PostStep
<1> QED
  BY <1>1, <1>2, Invariant, PTL DEF Spec

\* The handler of a POST is told of it once, gets every piece in order and the end
\* once, however the data come.
THEOREM PostSequenceHolds == Spec => []PostSequence
<1>1. PostInv => PostSequence
  BY DEF PostInv, PostSequence, PostStream, Posts
<1> QED
  BY <1>1, PostInvariant, PTL
=============================================================================
