---------------------------- MODULE WtDatagrams ----------------------------
(***************************************************************************)
(* The datagrams of the sessions of a connection (src/h3zero_common.c).    *)
(* An application that has one marks its session and the connection as     *)
(* ready; the stack asks h3zero_callback_prepare_datagram as long as the   *)
(* connection is, and that asks the sessions that are, in turn, behind the *)
(* one that sent last, until one sends.                                    *)
(*                                                                         *)
(* A turn of its loops is a step, with all the application does in its     *)
(* callback: it sends a datagram or does not, has another one now or not,  *)
(* and may mark its own session.  It marks no other session and deletes    *)
(* none from there.                                                        *)
(***************************************************************************)
EXTENDS WtPrefixes

CONSTANTS
  MaxWaiting,  \* bound: the datagrams that wait in an application
  MaxTrouble,  \* bound: how often there is no buffer, or no room for one
  Zero         \* the session whose control stream is stream 0, or None

ASSUME DatagramBoundsAssumption == {MaxWaiting, MaxTrouble} \subseteq Nat
ASSUME ZeroAssumption == Zero \in Sessions \cup {None}

VARIABLES
  ready_to_send_datagrams,   \* of each node
  last_datagram_prefix,      \* a prefix, or None
  datagram_ready,            \* the connection is marked: the stack will ask
  loop,                      \* where h3zero_callback_prepare_datagram is
  prefix_ctx, previous_prefix_ctx, still_active, tight,   \* in it
  waiting,                   \* the datagrams each session wants to send
  trouble,                   \* history: for the bound
  unheard                    \* history: sessions whose mark was taken without asking them

pollVars == <<loop, prefix_ctx, previous_prefix_ctx, still_active, tight>>
readyVars == <<ready_to_send_datagrams, last_datagram_prefix, datagram_ready>>
historyVars == <<trouble, unheard>>
vars == <<prefixVars, readyVars, pollVars, waiting, historyVars>>

Init ==
  /\ PrefixInit
  /\ ready_to_send_datagrams = [n \in Nodes |-> FALSE]
  /\ last_datagram_prefix = Zero
  /\ datagram_ready = FALSE
  /\ loop = "none" /\ prefix_ctx = None /\ previous_prefix_ctx = None
  /\ still_active = FALSE /\ tight = FALSE
  /\ waiting = [p \in Sessions |-> 0]
  /\ trouble = 0 /\ unheard = {}
-----------------------------------------------------------------------------
(* The table of the sessions, outside of the loops                         *)

\* A new node is not ready.
Declare(p) ==
  /\ loop = "none" /\ h3zero_declare_stream_prefix(p)
  /\ UNCHANGED <<readyVars, pollVars, waiting, historyVars>>

\* With its session the application drops what it had to send.
DropWaiting ==
  /\ LET gone == {n[1] : n \in Range(deleting') \ Range(deleting)}
     IN /\ waiting' = [p \in Sessions |-> IF p \in gone THEN 0 ELSE waiting[p]]
        /\ unheard' = unheard \ gone
  /\ ready_to_send_datagrams' =
       [n \in Nodes |-> n \in allocated' /\ ready_to_send_datagrams[n]]
  /\ UNCHANGED <<last_datagram_prefix, datagram_ready, pollVars, trouble>>

DeleteSession(p) == loop = "none" /\ (Delete(p) \/ StreamGone(p)) /\ DropWaiting
DeleteReturns == loop = "none" /\ Free /\ DropWaiting
Teardown == loop = "none" /\ DeleteAll /\ DropWaiting

\* The application has a datagram: h3zero_set_datagram_ready.
h3zero_set_datagram_ready(p) ==
  LET n == h3zero_find_stream_prefix(p)
  IN /\ loop = "none" /\ AppRuns /\ n # None /\ waiting[p] < MaxWaiting
     /\ waiting' = [waiting EXCEPT ![p] = @ + 1]
     /\ ready_to_send_datagrams' = [ready_to_send_datagrams EXCEPT ![n] = TRUE]
     /\ datagram_ready' = TRUE
     /\ unheard' = unheard \ {p}
     /\ UNCHANGED <<prefixVars, last_datagram_prefix, pollVars, trouble>>

\* It gives one up.
GiveUp(p) ==
  /\ loop = "none" /\ AppRuns /\ waiting[p] > 0
  /\ waiting' = [waiting EXCEPT ![p] = @ - 1]
  /\ UNCHANGED <<prefixVars, readyVars, pollVars, historyVars>>
-----------------------------------------------------------------------------
(* h3zero_callback_prepare_datagram                                        *)

\* Mutated form: the sessions are always asked from the first one.
Prepare_FromFirst ==
  /\ loop = "none" /\ deleting = <<>> /\ teardown = "no" /\ datagram_ready
  /\ previous_prefix_ctx' = None /\ prefix_ctx' = None
  /\ loop' = "behind" /\ still_active' = FALSE /\ tight' = FALSE
  /\ UNCHANGED <<prefixVars, readyVars, waiting, trouble, unheard>>

\* The stack asks, with room for a datagram or hardly any.
Prepare ==
  /\ loop = "none" /\ deleting = <<>> /\ teardown = "no" /\ datagram_ready
  /\ previous_prefix_ctx' = h3zero_find_stream_prefix(last_datagram_prefix)
  /\ prefix_ctx' = IF previous_prefix_ctx' = None THEN None ELSE next[previous_prefix_ctx']
  /\ loop' = "behind" /\ still_active' = FALSE
  /\ \/ tight' = FALSE /\ UNCHANGED trouble
     \/ tight' = TRUE /\ trouble < MaxTrouble /\ trouble' = trouble + 1
  /\ UNCHANGED <<prefixVars, readyVars, waiting, unheard>>

\* The turn of a session that is asked ends: the loops end with the first that sends,
\* and the second one with the session that sent before.
AfterTurn(data_sent) ==
  /\ still_active' = (still_active \/ ready_to_send_datagrams'[prefix_ctx])
  /\ loop' = CASE data_sent -> "sent"
               [] ~data_sent /\ loop = "around" /\ prefix_ctx = previous_prefix_ctx -> "mark"
               [] OTHER -> loop
  /\ prefix_ctx' = IF loop' = loop THEN next[prefix_ctx] ELSE None
  /\ UNCHANGED previous_prefix_ctx

InTurn == loop \in {"behind", "around"} /\ prefix_ctx # None

\* A session that is not ready is passed over.
NotReady ==
  /\ InTurn /\ ~ready_to_send_datagrams[prefix_ctx]
  /\ UNCHANGED <<prefixVars, readyVars, tight, waiting, historyVars>>
  /\ AfterTurn(FALSE)

Mark(ready) == ready_to_send_datagrams' = [ready_to_send_datagrams EXCEPT ![prefix_ctx] = ready]

\* A session that is ready is not asked when the room is not more than its id takes;
\* its mark is gone.
Unasked ==
  /\ InTurn /\ ready_to_send_datagrams[prefix_ctx] /\ tight
  /\ Mark(FALSE) /\ AfterTurn(FALSE)
  /\ unheard' = unheard \cup {prefix_ctx[1]}
  /\ UNCHANGED <<prefixVars, last_datagram_prefix, datagram_ready, tight, waiting,
                 trouble>>

Asked == InTurn /\ ready_to_send_datagrams[prefix_ctx] /\ ~tight

\* It sends one, says whether it has more, and may mark itself besides for a new one.
Sends ==
  /\ Asked
  /\ LET p == prefix_ctx[1]
     IN /\ waiting[p] > 0
        /\ \E new \in 0..1 :
             /\ waiting' = [waiting EXCEPT ![p] = @ - 1 + new]
             /\ Mark(waiting[p] > 1 \/ new = 1)
             /\ datagram_ready' = (datagram_ready \/ new = 1)
        /\ last_datagram_prefix' = p
  /\ AfterTurn(TRUE)
  /\ UNCHANGED <<prefixVars, tight, trouble, unheard>>

\* There is no buffer for its datagram; the call ends as if there were.
Refused ==
  /\ Asked /\ waiting[prefix_ctx[1]] > 0 /\ trouble < MaxTrouble
  /\ trouble' = trouble + 1
  /\ Mark(TRUE) /\ AfterTurn(TRUE)
  /\ last_datagram_prefix' = prefix_ctx[1]
  /\ UNCHANGED <<prefixVars, datagram_ready, tight, waiting, unheard>>

\* It has none any more.
Silent ==
  /\ Asked /\ waiting[prefix_ctx[1]] = 0
  /\ Mark(FALSE) /\ AfterTurn(FALSE)
  /\ UNCHANGED <<prefixVars, last_datagram_prefix, datagram_ready, tight, waiting,
                 historyVars>>

\* The list is over: the second loop begins with the first session, and behind the
\* second all of them are checked again.
ListOver ==
  /\ loop \in {"behind", "around"} /\ prefix_ctx = None
  /\ IF loop = "behind" THEN loop' = "around" /\ prefix_ctx' = first
     ELSE loop' = "recheck" /\ UNCHANGED prefix_ctx
  /\ UNCHANGED <<prefixVars, readyVars, previous_prefix_ctx, still_active, tight, waiting,
                 historyVars>>

\* Mutated form: the sessions that were not asked are not looked at.
MarkConnection_NoRecheck ==
  /\ loop \in {"sent", "recheck", "mark"} /\ loop' = "none"
  /\ datagram_ready' = still_active
  /\ prefix_ctx' = None /\ previous_prefix_ctx' = None /\ still_active' = FALSE
  /\ tight' = FALSE
  /\ UNCHANGED <<prefixVars, ready_to_send_datagrams, last_datagram_prefix, waiting,
                 historyVars>>

\* The connection stays ready if a session is.
MarkConnection ==
  /\ loop \in {"sent", "recheck", "mark"} /\ loop' = "none"
  /\ datagram_ready' = (still_active \/ (loop # "mark"
                                          /\ \E n \in Linked : ready_to_send_datagrams[n]))
  /\ prefix_ctx' = None /\ previous_prefix_ctx' = None /\ still_active' = FALSE
  /\ tight' = FALSE
  /\ UNCHANGED <<prefixVars, ready_to_send_datagrams, last_datagram_prefix, waiting,
                 historyVars>>
-----------------------------------------------------------------------------
PrepareStep ==
  \/ Prepare \/ NotReady \/ Unasked \/ Sends \/ Refused \/ Silent \/ ListOver
  \/ MarkConnection

Next ==
  \/ PrepareStep \/ DeleteReturns \/ Teardown
  \/ \E p \in Sessions :
       Declare(p) \/ DeleteSession(p) \/ h3zero_set_datagram_ready(p) \/ GiveUp(p)

\* The stack asks when the connection is ready, calls return, and a teardown goes on.
Spec ==
  /\ Init /\ [][Next]_vars
  /\ WF_vars(PrepareStep)
  /\ WF_vars(DeleteReturns) /\ WF_vars(Teardown /\ teardown = "running")
-----------------------------------------------------------------------------
\* A session that has marked itself is not forgotten: outside of the loops the
\* connection is ready if one of its sessions is, whichever of them were asked in the
\* last call; and a session that wants to send is marked, unless its mark was taken
\* without asking it, whatever it marked while it was asked.
ConnectionReady ==
  /\ loop = "none" /\ (\E n \in Linked : ready_to_send_datagrams[n]) => datagram_ready
  /\ \A n \in Linked :
       waiting[n[1]] > 0 /\ n[1] \notin unheard => ready_to_send_datagrams[n]

\* No session starves: one that wants to send gets its turn, or gives up, however the
\* others send, unless its mark was taken without asking it.
NoStarvation ==
  \A p \in Sessions :
    waiting[p] > 0 /\ p \notin unheard
      ~> \/ loop = "sent" /\ last_datagram_prefix = p
         \/ waiting[p] = 0 \/ p \in unheard

\* A teardown ends, whatever the application deletes in its callbacks.
TeardownEnds == teardown = "running" ~> teardown = "done"
=============================================================================
