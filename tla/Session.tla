------------------------------- MODULE Session -------------------------------
(***************************************************************************)
(* The life of a camera session on the server (src/quic_server.c): the     *)
(* packet loop of run_server delivers CONNECT requests and closing events  *)
(* of several connections to camera_path_callback and camera_wt_callback,  *)
(* which share one streamer_context_t with the camera and network threads  *)
(* they start and stop; when the loop ends run_server tears everything     *)
(* down.                                                                   *)
(*                                                                         *)
(* A pair of threads started by one CONNECT is a generation.  Nothing      *)
(* keeps an old generation from running on when a new one starts, so the   *)
(* threads of all generations act on the same context here.  A connection  *)
(* gives CONNECT to camera_path_callback at most once: from then on its    *)
(* callback is camera_wt_callback.  Frames are left to FrameBuffer, paths  *)
(* to PathBinding; a binding is only the connection its stream lives on.   *)
(***************************************************************************)
EXTENDS Naturals

CONSTANTS
  Cnxs,    \* the connections that reach the server
  None,    \* a null pointer
  MaxGen   \* bound on the pairs of threads the server tries to start

ASSUME NoneAssumption == None \notin Cnxs
ASSUME MaxGenAssumption == MaxGen \in Nat

VARIABLES
  is_sending,  \* ctx->is_sending
  cnx,         \* ctx->cnx
  cstate,      \* [Cnxs -> "open", "closing", "closed" or "deleted"]
  wt,          \* the connections whose callback is camera_wt_callback
  gen,         \* generations so far; ctx->camera_thread and ctx->network_thread
               \* are the threads of generation gen
  cam, net,    \* where the threads of each generation are
  bindOf,      \* the connection of the stream in ctx->mp.bind, None: not ready
  mainPc,      \* where run_server is
  sent,        \* history: the last frame data, <<connection, stream's connection>>
  clash,       \* history: a CONNECT arrived before the last session was over
  joined       \* history: run_server joined the threads

ctxVars == <<is_sending, cnx, bindOf>>
cnxVars == <<cstate, wt>>
thrVars == <<gen, cam, net>>
vars == <<ctxVars, cnxVars, thrVars, mainPc, sent, clash, joined>>

Gens == 1..MaxGen
NetLive == {"start", "head", "ensure", "length", "payload", "fin"}
SessionOver == \A g \in Gens : cam[g] # "alive" /\ net[g] \notin NetLive

Init ==
  /\ is_sending = FALSE /\ cnx = None /\ bindOf = None
  /\ cstate = [c \in Cnxs |-> "open"] /\ wt = {}
  /\ gen = 0
  /\ cam = [g \in Gens |-> "none"] /\ net = [g \in Gens |-> "none"]
  /\ mainPc = "loop"
  /\ sent = <<None, None>> /\ clash = FALSE /\ joined = FALSE
-----------------------------------------------------------------------------
(* camera_path_callback, run by the packet loop on a CONNECT.  Whatever    *)
(* happens next, the context now points to this connection.                *)

TakeOver(c) ==
  /\ mainPc = "loop" /\ cstate[c] = "open" /\ c \notin wt
  /\ cnx' = c /\ wt' = wt \cup {c}
  /\ clash' = (clash \/ is_sending \/ ~SessionOver)
  /\ UNCHANGED <<cstate, bindOf, mainPc, sent, joined>>

\* The 200 response cannot be sent, or a session is already running.
ConnectOnly(c) ==
  /\ TakeOver(c)
  /\ UNCHANGED <<is_sending, thrVars>>

\* Mutated form: a camera thread that cannot be created leaves the flag up.
StartThreads_FlagStaysUp(c) ==
  /\ TakeOver(c) /\ ~is_sending /\ gen < MaxGen
  /\ gen' = gen + 1
  /\ \/ /\ cam' = [cam EXCEPT ![gen'] = "alive"]
        /\ net' = [net EXCEPT ![gen'] = "start"]
     \/ UNCHANGED <<cam, net>>
  /\ is_sending' = TRUE

\* A new pair of threads; when either cannot be created the flag goes down
\* again, and a camera thread that already runs is left to notice.
StartThreads(c) ==
  /\ TakeOver(c) /\ ~is_sending /\ gen < MaxGen
  /\ gen' = gen + 1
  /\ \/ /\ cam' = [cam EXCEPT ![gen'] = "alive"]
        /\ net' = [net EXCEPT ![gen'] = "start"]
        /\ is_sending' = TRUE
     \/ /\ cam' = [cam EXCEPT ![gen'] = "alive"]
        /\ UNCHANGED <<net, is_sending>>
     \/ UNCHANGED <<cam, net, is_sending>>
-----------------------------------------------------------------------------
(* Events of a connection.                                                 *)

\* The connection starts to close, with an event camera_wt_callback ignores.
ApplicationClose(c) ==
  /\ mainPc = "loop" /\ cstate[c] = "open"
  /\ cstate' = [cstate EXCEPT ![c] = "closing"]
  /\ UNCHANGED <<ctxVars, wt, thrVars, mainPc, sent, clash, joined>>

\* Mutated form: picoquic_callback_close without its case in the callback.
Close_Ignored(c) ==
  /\ mainPc = "loop" /\ cstate[c] \in {"open", "closing"}
  /\ cstate' = [cstate EXCEPT ![c] = "closed"]
  /\ UNCHANGED <<ctxVars, wt, thrVars, mainPc, sent, clash, joined>>

\* picoquic_callback_close: the flag goes down, whichever connection closed.
Close(c) ==
  /\ mainPc = "loop" /\ cstate[c] \in {"open", "closing"}
  /\ cstate' = [cstate EXCEPT ![c] = "closed"]
  /\ is_sending' = (is_sending /\ c \notin wt)
  /\ UNCHANGED <<cnx, bindOf, wt, thrVars, mainPc, sent, clash, joined>>

\* stop_sending or stream_reset on one of the connection's streams.
StreamReset(c) ==
  /\ mainPc = "loop" /\ cstate[c] = "open" /\ c \in wt /\ is_sending
  /\ is_sending' = FALSE
  /\ UNCHANGED <<cnx, bindOf, cnxVars, thrVars, mainPc, sent, clash, joined>>

\* The stack frees a closed connection; ctx->cnx may still point to it.
DeleteCnx(c) ==
  /\ mainPc = "loop" /\ cstate[c] = "closed"
  /\ cstate' = [cstate EXCEPT ![c] = "deleted"]
  /\ UNCHANGED <<ctxVars, wt, thrVars, mainPc, sent, clash, joined>>
-----------------------------------------------------------------------------
(* The threads of generation g.                                            *)

\* camera_thread_func finds the flag down.
CamExit(g) ==
  /\ cam[g] = "alive" /\ ~is_sending
  /\ cam' = [cam EXCEPT ![g] = "done"]
  /\ UNCHANGED <<ctxVars, cnxVars, gen, net, mainPc, sent, clash, joined>>

Goto(g, pc) == net' = [net EXCEPT ![g] = pc]

\* Mutated form: the bindings of the previous session are kept.
NetStart_KeepsBindings(g) ==
  /\ net[g] = "start"
  /\ bindOf' \in IF bindOf = None THEN {None, cnx} ELSE {bindOf}
  /\ Goto(g, "head")
  /\ UNCHANGED <<is_sending, cnx, cnxVars, gen, cam, mainPc, sent, clash, joined>>

\* The start of network_thread_func: all bindings are cleared, then the first
\* path gets a stream on the current connection, unless it is not yet verified.
NetStart(g) ==
  /\ net[g] = "start"
  /\ bindOf' \in {None, cnx}
  /\ Goto(g, "head")
  /\ UNCHANGED <<is_sending, cnx, cnxVars, gen, cam, mainPc, sent, clash, joined>>

\* Mutated form: a loop that only watches the connection.
NetHead_NoFlag(g) ==
  /\ net[g] = "head"
  /\ \E closing \in IF cstate[cnx] = "deleted" THEN BOOLEAN
                    ELSE {cstate[cnx] # "open"} :
       Goto(g, IF ~closing THEN "ensure" ELSE "fin")
  /\ UNCHANGED <<ctxVars, cnxVars, gen, cam, mainPc, sent, clash, joined>>

\* The head of the loop.  What the state of a freed connection reads as is
\* anybody's guess.
NetHead(g) ==
  /\ net[g] = "head"
  /\ \E closing \in IF cstate[cnx] = "deleted" THEN BOOLEAN
                    ELSE {cstate[cnx] # "open"} :
       Goto(g, IF is_sending /\ ~closing THEN "ensure" ELSE "fin")
  /\ UNCHANGED <<ctxVars, cnxVars, gen, cam, mainPc, sent, clash, joined>>

\* The path of this iteration gets a stream if it has none and can have one;
\* then a frame is claimed, or there is none to send.
NetEnsure(g) ==
  /\ net[g] = "ensure"
  /\ bindOf' \in IF bindOf = None THEN {None, cnx} ELSE {bindOf}
  /\ \/ Goto(g, "length") \/ Goto(g, "head")
  /\ UNCHANGED <<is_sending, cnx, cnxVars, gen, cam, mainPc, sent, clash, joined>>

\* The length of the frame goes out on the connection the context points to
\* now, on the stream the binding names.  A failure lowers the flag.
NetLength(g) ==
  /\ net[g] = "length"
  /\ \/ /\ Goto(g, "payload") /\ sent' = <<cnx, bindOf>>
        /\ UNCHANGED is_sending
     \/ /\ Goto(g, "fin") /\ is_sending' = FALSE
        /\ UNCHANGED sent
  /\ UNCHANGED <<cnx, bindOf, cnxVars, gen, cam, mainPc, clash, joined>>

\* The payload, unless the flag went down; a failure lowers the flag.  Then
\* the next iteration, or the end after max_frames frames.
NetPayload(g) ==
  /\ net[g] = "payload"
  /\ \/ /\ is_sending /\ sent' = <<cnx, bindOf>>
        /\ UNCHANGED is_sending
     \/ /\ is_sending' = FALSE
        /\ UNCHANGED sent
  /\ \/ Goto(g, "head") \/ Goto(g, "fin")
  /\ UNCHANGED <<cnx, bindOf, cnxVars, gen, cam, mainPc, clash, joined>>

\* finish_all_bindings and the end of the thread; the flag is left as it is.
NetFinish(g) ==
  /\ net[g] = "fin"
  /\ Goto(g, "done")
  /\ UNCHANGED <<ctxVars, cnxVars, gen, cam, mainPc, sent, clash, joined>>

NetStep(g) == \/ NetStart(g) \/ NetHead(g) \/ NetEnsure(g) \/ NetLength(g)
              \/ NetPayload(g) \/ NetFinish(g)
-----------------------------------------------------------------------------
(* The end of run_server.                                                  *)

\* The packet loop returns and picoquic_free deletes every connection; for the
\* open ones the stack may still deliver picoquic_callback_close.
LoopEnds ==
  /\ mainPc = "loop"
  /\ mainPc' = "freed"
  /\ cstate' = [c \in Cnxs |-> "deleted"]
  /\ \/ UNCHANGED is_sending
     \/ is_sending' = (is_sending /\ \A c \in wt : cstate[c] \in {"closed", "deleted"})
  /\ UNCHANGED <<cnx, bindOf, wt, thrVars, sent, clash, joined>>

\* if (ctx.is_sending): the flag goes down and the threads are joined, the
\* camera thread first.  Otherwise nobody waits for them.
TestFlag ==
  /\ mainPc = "freed"
  /\ mainPc' = IF is_sending THEN "joinCamera" ELSE "cleanup"
  /\ is_sending' = FALSE
  /\ UNCHANGED <<cnx, bindOf, cnxVars, thrVars, sent, clash, joined>>

JoinCamera ==
  /\ mainPc = "joinCamera" /\ cam[gen] = "done"
  /\ mainPc' = "joinNetwork"
  /\ UNCHANGED <<ctxVars, cnxVars, thrVars, sent, clash, joined>>

\* Mutated form: the network thread is not waited for.
JoinNetwork_NoWait ==
  /\ mainPc = "joinNetwork"
  /\ mainPc' = "cleanup" /\ joined' = TRUE
  /\ UNCHANGED <<ctxVars, cnxVars, thrVars, sent, clash>>

JoinNetwork ==
  /\ mainPc = "joinNetwork" /\ net[gen] = "done"
  /\ mainPc' = "cleanup" /\ joined' = TRUE
  /\ UNCHANGED <<ctxVars, cnxVars, thrVars, sent, clash>>

\* The camera, the lock and the frame buffers are destroyed.
Cleanup ==
  /\ mainPc = "cleanup"
  /\ mainPc' = "end"
  /\ UNCHANGED <<ctxVars, cnxVars, thrVars, sent, clash, joined>>

MainStep == LoopEnds \/ TestFlag \/ JoinCamera \/ JoinNetwork \/ Cleanup

LoopStep == \E c \in Cnxs :
  \/ (ConnectOnly(c) \/ StartThreads(c))
  \/ ApplicationClose(c) \/ Close(c) \/ StreamReset(c) \/ DeleteCnx(c)

Next == MainStep \/ LoopStep \/ \E g \in Gens : CamExit(g) \/ NetStep(g)

Spec == Init /\ [][Next]_vars

\* The threads run: each polls its flag again and again, and a step it can take
\* it takes.  Nothing is assumed of clients or of the packet loop.
FairSpec == Spec /\ \A g \in Gens : WF_vars(CamExit(g)) /\ WF_vars(NetStep(g))
-----------------------------------------------------------------------------
TypeOK ==
  /\ is_sending \in BOOLEAN /\ clash \in BOOLEAN /\ joined \in BOOLEAN
  /\ cnx \in Cnxs \cup {None} /\ bindOf \in Cnxs \cup {None}
  /\ cstate \in [Cnxs -> {"open", "closing", "closed", "deleted"}]
  /\ wt \subseteq Cnxs
  /\ gen \in 0..MaxGen
  /\ cam \in [Gens -> {"none", "alive", "done"}]
  /\ net \in [Gens -> NetLive \cup {"none", "done"}]
  /\ mainPc \in {"loop", "freed", "joinCamera", "joinNetwork", "cleanup", "end"}
  /\ sent \in (Cnxs \cup {None}) \X (Cnxs \cup {None})

\* While the flag is up the newest camera thread runs: a CONNECT that finds the
\* flag up starts no thread (quic_server.c:456), so a flag without a camera would
\* leave every later client without frames.
FlagMeansCamera == is_sending => gen > 0 /\ cam[gen] = "alive"

\* While the flag is up and the loop runs, the connection the network thread
\* uses exists: ctx->cnx is dangling only once the flag is down, that is, for the
\* rest of one iteration of the network loop.
FlagMeansConnection ==
  is_sending /\ mainPc = "loop" => cnx # None /\ cstate[cnx] \in {"open", "closing"}

\* As long as every CONNECT finds the previous session over there is one session
\* at a time: frame data only goes to the connection that began the session, on
\* streams of its own (the bindings of the previous connection are never used on
\* the next), and a session whose flag went down never streams again.
Phase == IF SessionOver THEN "idle" ELSE IF is_sending THEN "streaming" ELSE "stopping"
Owner == IF SessionOver THEN None ELSE cnx

Abstract == INSTANCE OneSession WITH
  phase <- Phase, owner <- Owner, overlap <- clash

OneSessionSpec == Abstract!Spec

\* A shutdown that joined the threads frees the buffers with no thread left, if
\* every CONNECT found the previous session over.
JoinedCleanup == mainPc = "end" /\ joined /\ ~clash => SessionOver

\* If the flag is down for good, every thread of every generation exits.
QuietStop == <>[]~is_sending => <>[]SessionOver

\* A thread that runs when the flag is down exits: "is_sending 플래그를 통해
\* 스레드들이 스스로 종료되도록 유도합니다" (quic_server.c:413).  Not kept: a CONNECT
\* raises the flag again before the threads look.
StoppedThreadsExit ==
  \A g \in Gens : (cam[g] = "alive" /\ ~is_sending) ~> cam[g] = "done"
=============================================================================
