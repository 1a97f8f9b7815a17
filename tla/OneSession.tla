----------------------------- MODULE OneSession -----------------------------
(***************************************************************************)
(* What src/quic_server.c promises its clients: one camera session at a    *)
(* time.  A session has one owner from its beginning to its end, frame     *)
(* data goes to the owner only, and a session that stops never streams     *)
(* again.  The promise ends when a CONNECT overlaps with a session that    *)
(* is not over.                                                            *)
(***************************************************************************)
CONSTANTS
  Cnxs,  \* the connections
  None   \* no connection

VARIABLES
  phase,   \* "idle", "streaming" or "stopping"
  owner,   \* the connection of the session, None when there is none
  sent,    \* the last frame data, <<connection, stream's connection>>
  overlap  \* a CONNECT came before the last session was over

sessionVars == <<phase, owner, sent, overlap>>

Init == phase = "idle" /\ owner = None /\ sent = <<None, None>> /\ overlap = FALSE

\* A session begins with its threads, or already stops when one is missing.
Begin(c) ==
  /\ phase = "idle"
  /\ phase' \in {"streaming", "stopping"} /\ owner' = c
  /\ UNCHANGED sent

\* Frame data for the owner, on a stream of its own or a path without one; what
\* was begun when the session stopped is still sent.
Send ==
  /\ phase # "idle"
  /\ sent' \in {owner} \X {owner, None}
  /\ UNCHANGED <<phase, owner>>

\* The owner leaves, another connection closes, sending fails or the server ends.
Stop ==
  /\ phase = "streaming" /\ phase' = "stopping"
  /\ UNCHANGED <<owner, sent>>

\* The last thread of the session is gone.
End ==
  /\ phase = "stopping" /\ phase' = "idle" /\ owner' = None
  /\ UNCHANGED sent

\* Nothing is promised of sessions that overlap, nor afterwards.
Overlap == overlap' = TRUE

Next ==
  \/ UNCHANGED overlap /\ ((\E c \in Cnxs : Begin(c)) \/ Send \/ Stop \/ End)
  \/ Overlap

Spec == Init /\ [][Next]_sessionVars
=============================================================================
