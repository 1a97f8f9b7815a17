----------------------------- MODULE PathBinding -----------------------------
(***************************************************************************)
(* The paths and streams of the network thread (src/quic_server.c with     *)
(* src/path_algo.c): the path for the next frame is picked by round-trip   *)
(* time, other paths are probed, and every path the thread uses gets a     *)
(* unidirectional stream with a WebTransport header that is pinned to it.  *)
(* Meanwhile the packet loop adds, verifies, demotes and removes paths and *)
(* measures their round-trip times.                                        *)
(*                                                                         *)
(* The code knows a path by its index in cnx->path; when a path is removed *)
(* the ones behind it move up.  A stream is known by its number, counted   *)
(* from 1 in the order of opening; 0 is the sid of a binding that is not   *)
(* ready, which on the wire is the id of the first client stream.          *)
(***************************************************************************)
EXTENDS Integers, Sequences

CONSTANTS
  Uids,      \* the unique_path_id values of the connection
  NoPath,    \* no path
  MaxPaths,  \* MAX_PATHS, at least the number of paths of a connection
  MaxRtt     \* round-trip times are 1..MaxRtt, after the fallbacks for 0

ASSUME NoPathAssumption == NoPath \notin Uids
ASSUME PathsAssumption == MaxPaths \in Nat \ {0}
ASSUME RttAssumption == MaxRtt \in Nat \ {0}

VARIABLES
  nb_paths, path,     \* cnx->nb_paths, cnx->path: [Idx -> Uids or NoPath]
  known,              \* the path ids used so far
  verified, demoted,  \* the paths that are verified, demoted
  rtt,                \* [Uids -> 1..MaxRtt]
  last_send,          \* algo->last_send
  probeDue,           \* now >= algo->next_probe_us
  bind,               \* ctx->mp.bind: [Idx -> sid], 0 when not ready
  pinned,             \* the streams opened, each with the path it is pinned to
  finished,           \* the streams a FIN was asked for
  netPc, send_idx, cur_idx,  \* the network thread
  is_sending,         \* ctx->is_sending and the connection is not closing
  removed             \* history: a path was removed

envVars == <<nb_paths, path, known, verified, demoted, rtt, removed>>
algoVars == <<last_send, probeDue>>
bindVars == <<bind, pinned>>
netVars == <<netPc, send_idx, cur_idx>>
vars == <<envVars, algoVars, bindVars, netVars, finished, is_sending>>

Idx == 0..(MaxPaths - 1)
Paths == 0..(nb_paths - 1)

Init ==
  /\ \E u \in Uids : /\ path = [i \in Idx |-> IF i = 0 THEN u ELSE NoPath]
                     /\ known = {u}
                     /\ verified \in SUBSET {u}
  /\ nb_paths = 1 /\ demoted = {} /\ rtt \in [Uids -> 1..MaxRtt]
  /\ removed = FALSE
  /\ last_send = -1 /\ probeDue = TRUE
  /\ bind = [i \in Idx |-> 0] /\ pinned = <<>> /\ finished = {}
  /\ netPc = "init" /\ send_idx = 0 /\ cur_idx = 0
  /\ is_sending = TRUE
-----------------------------------------------------------------------------
(* path_algo.c                                                             *)

Sendable(i) == path[i] \in verified \ demoted

\* path_algo_pick_send_path: the first of the fastest sendable paths, and path 0
\* when there is none.
PickSendPath(i) ==
  IF \E j \in Paths : Sendable(j)
  THEN /\ i \in Paths /\ Sendable(i)
       /\ \A j \in Paths : Sendable(j) =>
            /\ rtt[path[i]] <= rtt[path[j]]
            /\ j < i => rtt[path[i]] < rtt[path[j]]
  ELSE i = 0

\* path_algo_pick_probe_path, when it is due: the path after the last one sent
\* on, whatever its state.
PickProbePath ==
  IF last_send = -1 THEN 0 ELSE (last_send + 1) % nb_paths
-----------------------------------------------------------------------------
(* ensure_stream_for_path                                                  *)

\* Mutated form: a binding that exists is not looked for.
Ensure_NoReadyTest(i) ==
  \/ /\ i \in Paths /\ path[i] \in verified
     /\ pinned' = Append(pinned, path[i])
     /\ bind' = [bind EXCEPT ![i] = Len(pinned) + 1]
     /\ Len(pinned) < 4
  \/ UNCHANGED bindVars

\* Mutated form: the stream is pinned to the path sent on last.
Ensure_WrongPath(i) ==
  \/ /\ bind[i] = 0 /\ i \in Paths /\ path[i] \in verified
     /\ pinned' = Append(pinned, path[IF last_send \in Paths THEN last_send ELSE i])
     /\ bind' = [bind EXCEPT ![i] = Len(pinned) + 1]
  \/ UNCHANGED bindVars

\* A ready binding is kept.  Otherwise a stream is opened, its header sent and
\* the stream pinned, if the path is verified and the stack takes the header.
Ensure(i) ==
  \/ /\ bind[i] = 0 /\ i \in Paths /\ path[i] \in verified
     /\ pinned' = Append(pinned, path[i])
     /\ bind' = [bind EXCEPT ![i] = Len(pinned) + 1]
  \/ UNCHANGED bindVars
-----------------------------------------------------------------------------
(* network_thread_func                                                     *)

\* Up to the loop: the algorithm starts afresh and a first path is bound.
NetInit ==
  /\ netPc = "init"
  /\ \E i \in Paths : PickSendPath(i) /\ last_send' = i /\ cur_idx' = i /\ Ensure(i)
  /\ netPc' = "head"
  /\ UNCHANGED <<envVars, probeDue, send_idx, finished, is_sending>>

NetHead ==
  /\ netPc = "head"
  /\ netPc' = IF is_sending THEN "probe" ELSE "finish"
  /\ UNCHANGED <<envVars, algoVars, bindVars, send_idx, cur_idx, finished,
                 is_sending>>

\* A probe is due and there is another path: it gets its stream, and an empty
\* write to it if it has one.
NetProbe ==
  /\ netPc = "probe" /\ probeDue /\ nb_paths > 1
  /\ probeDue' = FALSE
  /\ Ensure(PickProbePath)
  /\ netPc' = "pick"
  /\ UNCHANGED <<envVars, last_send, send_idx, cur_idx, finished, is_sending>>

NetNoProbe ==
  /\ netPc = "probe" /\ ~(probeDue /\ nb_paths > 1)
  /\ netPc' = "pick"
  /\ UNCHANGED <<envVars, algoVars, bindVars, send_idx, cur_idx, finished,
                 is_sending>>

\* The path of this iteration.  Whether it got a stream is not looked at.
NetPick ==
  /\ netPc = "pick"
  /\ \E i \in Paths : PickSendPath(i) /\ last_send' = i /\ send_idx' = i /\ Ensure(i)
  /\ netPc' = "pop"
  /\ UNCHANGED <<envVars, probeDue, cur_idx, finished, is_sending>>

\* A frame is there: it goes to the stream of the binding, to stream 0 if there is none.
NetSend ==
  /\ netPc = "pop"
  /\ last_send' = send_idx /\ cur_idx' = send_idx
  /\ netPc' = "head"
  /\ UNCHANGED <<envVars, probeDue, bindVars, send_idx, finished, is_sending>>

\* The stack refuses the data: the session ends.
NetSendFails ==
  /\ netPc = "pop"
  /\ is_sending' = FALSE /\ netPc' = "finish"
  /\ UNCHANGED <<envVars, algoVars, bindVars, send_idx, cur_idx, finished>>

\* No frame; after a second of it a keep-alive on the current path, which needs
\* a stream for that.
NetIdle ==
  /\ netPc = "pop"
  /\ Ensure(cur_idx)
  /\ netPc' = "head"
  /\ UNCHANGED <<envVars, algoVars, send_idx, cur_idx, finished, is_sending>>

\* Mutated form: the last path is forgotten.
NetFinish_OffByOne ==
  /\ netPc = "finish"
  /\ finished' = {bind[i] : i \in {j \in Paths : j < nb_paths - 1 /\ bind[j] # 0}}
  /\ netPc' = "done"
  /\ UNCHANGED <<envVars, algoVars, bindVars, send_idx, cur_idx, is_sending>>

\* finish_all_bindings: a FIN on every stream bound to an index below nb_paths.
NetFinish ==
  /\ netPc = "finish"
  /\ finished' = {bind[i] : i \in {j \in Paths : bind[j] # 0}}
  /\ netPc' = "done"
  /\ UNCHANGED <<envVars, algoVars, bindVars, send_idx, cur_idx, is_sending>>

NetStep == \/ NetInit \/ NetHead \/ NetProbe \/ NetNoProbe \/ NetPick \/ NetSend
           \/ NetSendFails \/ NetIdle \/ NetFinish
-----------------------------------------------------------------------------
(* The packet loop and time.                                               *)

threadVars == <<algoVars, bindVars, netVars, finished>>

AddPath(u) ==
  /\ u \notin known /\ nb_paths < MaxPaths
  /\ path' = [path EXCEPT ![nb_paths] = u]
  /\ nb_paths' = nb_paths + 1 /\ known' = known \cup {u}
  /\ UNCHANGED <<verified, demoted, rtt, removed, threadVars, is_sending>>

Verify(u) ==
  /\ u \in known \ verified
  /\ verified' = verified \cup {u}
  /\ UNCHANGED <<nb_paths, path, known, demoted, rtt, removed, threadVars,
                 is_sending>>

Demote(u) ==
  /\ u \in known \ demoted
  /\ demoted' = demoted \cup {u}
  /\ UNCHANGED <<nb_paths, path, known, verified, rtt, removed, threadVars,
                 is_sending>>

\* A demoted path is deleted and the paths behind it move up.
RemovePath(k) ==
  /\ nb_paths > 1 /\ path[k] \in demoted
  /\ path' = [i \in Idx |-> IF i < k THEN path[i]
                            ELSE IF i + 1 \in Idx THEN path[i + 1] ELSE NoPath]
  /\ nb_paths' = nb_paths - 1 /\ removed' = TRUE
  /\ UNCHANGED <<known, verified, demoted, rtt, threadVars, is_sending>>

MeasureRtt(u) ==
  /\ \E r \in 1..MaxRtt : rtt' = [rtt EXCEPT ![u] = r]
  /\ UNCHANGED <<nb_paths, path, known, verified, demoted, removed, threadVars,
                 is_sending>>

\* 250 ms have passed since the last probe.
ProbeTimer ==
  /\ ~probeDue
  /\ probeDue' = TRUE
  /\ UNCHANGED <<envVars, last_send, bindVars, netVars, finished, is_sending>>

\* The session is stopped, the connection closes, or max_frames are sent.
Stop ==
  /\ is_sending
  /\ is_sending' = FALSE
  /\ UNCHANGED <<envVars, threadVars>>

EnvStep ==
  \/ \E u \in Uids : AddPath(u) \/ Verify(u) \/ Demote(u) \/ MeasureRtt(u)
  \/ \E k \in Paths : RemovePath(k)
  \/ ProbeTimer \/ Stop

Next == NetStep \/ EnvStep

Spec == Init /\ [][Next]_vars
-----------------------------------------------------------------------------
TypeOK ==
  /\ nb_paths \in 1..MaxPaths
  /\ path \in [Idx -> Uids \cup {NoPath}]
  /\ known \subseteq Uids /\ verified \subseteq Uids /\ demoted \subseteq Uids
  /\ rtt \in [Uids -> 1..MaxRtt]
  /\ last_send \in Idx \cup {-1} /\ send_idx \in Idx /\ cur_idx \in Idx
  /\ pinned \in Seq(Uids)
  /\ bind \in [Idx -> 0..Len(pinned)]
  /\ finished \subseteq 1..Len(pinned)
  /\ netPc \in {"init", "head", "probe", "pick", "pop", "finish", "done"}
  /\ probeDue \in BOOLEAN /\ is_sending \in BOOLEAN /\ removed \in BOOLEAN

\* As long as no path is removed, the stream of an index is pinned to the path
\* that is at this index now (ensure_stream_for_path binds by index, the stack
\* pins by unique id): a frame for a path uses its own stream, or stream 0 without one.
BoundToItsPath ==
  ~removed => \A i \in Idx : bind[i] # 0 => i \in Paths /\ pinned[bind[i]] = path[i]

\* When the network thread is gone, every stream it opened was given its FIN, as
\* long as no path was removed (finish_all_bindings stops at nb_paths).
EveryStreamFinished ==
  netPc = "done" /\ ~removed => finished = 1..Len(pinned)
=============================================================================
