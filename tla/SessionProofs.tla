---------------------------- MODULE SessionProofs ----------------------------
(***************************************************************************)
(* Proofs about Session, for any set of connections and any number of      *)
(* generations of threads.                                                 *)
(***************************************************************************)
EXTENDS Session, TLAPS

\* The context points to a connection that called back, and while the flag is
\* up that connection is not closed; closing it therefore lowers the flag.
ConnectionInv ==
  /\ gen > 0 => cnx # None
  /\ is_sending /\ mainPc = "loop" =>
       cnx \in wt /\ cstate[cnx] \in {"open", "closing"}

\* Without a clash only the newest generation can be alive, and once its
\* network thread has cleared the bindings they belong to its connection.
OwnershipInv ==
  ~clash =>
    /\ \A g \in Gens : g # gen => cam[g] # "alive" /\ net[g] \notin NetLive
    /\ gen > 0 /\ net[gen] \in NetLive \ {"start"} => bindOf \in {None, cnx}

\* What run_server has waited for.
JoinInv ==
  /\ mainPc \in {"joinCamera", "joinNetwork"} => gen > 0
  /\ mainPc = "joinNetwork" => cam[gen] = "done"
  /\ mainPc = "loop" => ~joined
  /\ joined => gen > 0 /\ cam[gen] = "done" /\ net[gen] = "done"

IndInv ==
  TypeOK /\ FlagMeansCamera /\ ConnectionInv /\ OwnershipInv /\ JoinInv
-----------------------------------------------------------------------------
USE NoneAssumption, MaxGenAssumption DEF Gens, NetLive

\* The server starts in a state of the invariant.
LEMMA InitInd == Init => IndInv
<1> SUFFICES ASSUME Init PROVE IndInv
  OBVIOUS
<1> USE DEF Init
<1>1. is_sending \in BOOLEAN /\ clash \in BOOLEAN /\ joined \in BOOLEAN
  BY Zenon
<1>2. TypeOK
  BY <1>1 DEF TypeOK
<1> QED
  BY <1>2 DEF IndInv, FlagMeansCamera, ConnectionInv, OwnershipInv, JoinInv

\* Every step keeps the invariant.
LEMMA IndStep == IndInv /\ [Next]_vars => IndInv'
<1> SUFFICES ASSUME IndInv, [Next]_vars PROVE IndInv'
  OBVIOUS
<1> USE DEF IndInv
<1>1. ASSUME NEW c \in Cnxs, ConnectOnly(c) PROVE IndInv'
  <2>1. clash' \in BOOLEAN
    BY <1>1, Zenon DEF TypeOK, ConnectOnly, TakeOver, ctxVars, cnxVars, thrVars
  <2>2. TypeOK'
    BY <1>1, <2>1 DEF TypeOK, ConnectOnly, TakeOver, ctxVars, cnxVars, thrVars
  <2>3. FlagMeansCamera'
    BY <1>1, <2>2 DEF TypeOK, FlagMeansCamera, ConnectOnly, TakeOver, ctxVars, cnxVars, thrVars
  <2>4. ConnectionInv'
    BY <1>1, <2>2 DEF TypeOK, ConnectionInv, ConnectOnly, TakeOver, ctxVars, cnxVars, thrVars
  <2>5. OwnershipInv'
    <3>1. ~clash' => ~clash /\ SessionOver
      BY <1>1, Zenon DEF ConnectOnly, TakeOver
    <3> QED
      BY <1>1, <2>2, <3>1
      DEF TypeOK, OwnershipInv, SessionOver, ConnectOnly, TakeOver, thrVars
  <2>6. JoinInv'
    BY <1>1, <2>2 DEF TypeOK, JoinInv, ConnectOnly, TakeOver, ctxVars, cnxVars, thrVars
  <2> QED
    BY <2>2, <2>3, <2>4, <2>5, <2>6
<1>2. ASSUME NEW c \in Cnxs, StartThreads(c) PROVE IndInv'
  <2>1. clash' \in BOOLEAN
    BY <1>2, Zenon DEF TypeOK, StartThreads, TakeOver, ctxVars, cnxVars, thrVars
  <2>2. is_sending' \in BOOLEAN
    BY <1>2, Zenon DEF TypeOK, StartThreads, TakeOver, ctxVars, cnxVars, thrVars
  <2>3. TypeOK'
    BY <1>2, <2>1, <2>2, SMTT(30) DEF TypeOK, StartThreads, TakeOver, ctxVars, cnxVars, thrVars
  <2>4. FlagMeansCamera'
    <3>1. gen' = gen + 1 /\ gen' \in Gens
      BY <1>2 DEF StartThreads, TypeOK
    <3>2. is_sending' => cam' = [cam EXCEPT ![gen'] = "alive"]
      BY <1>2, Zenon DEF StartThreads
    <3>3. is_sending' => cam'[gen'] = "alive"
      BY <3>1, <3>2 DEF TypeOK
    <3> QED
      BY <3>1, <3>3 DEF FlagMeansCamera
  <2>5. ConnectionInv'
    BY <1>2, <2>3 DEF TypeOK, ConnectionInv, StartThreads, TakeOver, ctxVars, cnxVars, thrVars
  <2>6. OwnershipInv'
    <3>1. ~clash' => ~clash /\ SessionOver
      BY <1>2, Zenon DEF StartThreads, TakeOver
    <3>2. gen' = gen + 1 /\ gen' \in Gens
      BY <1>2 DEF StartThreads, TypeOK
    <3>3. /\ \A g \in Gens : g # gen' => cam'[g] = cam[g] /\ net'[g] = net[g]
          /\ net'[gen'] \in {"start", net[gen']}
      BY <1>2, <3>2 DEF StartThreads, TypeOK
    <3>4. sent' = sent
      BY <1>2 DEF StartThreads, TakeOver
    <3> QED
      BY <3>1, <3>2, <3>3, <3>4 DEF OwnershipInv, SessionOver
  <2>7. JoinInv'
    BY <1>2, <2>3 DEF TypeOK, JoinInv, StartThreads, TakeOver, ctxVars, cnxVars, thrVars
  <2> QED
    BY <2>3, <2>4, <2>5, <2>6, <2>7
<1>3. ASSUME NEW c \in Cnxs, ApplicationClose(c) PROVE IndInv'
  <2>1. TypeOK'
    BY <1>3 DEF TypeOK, ApplicationClose, ctxVars, cnxVars, thrVars
  <2>2. FlagMeansCamera'
    BY <1>3, <2>1 DEF TypeOK, FlagMeansCamera, ApplicationClose, ctxVars, cnxVars, thrVars
  <2>3. ConnectionInv'
    BY <1>3, <2>1 DEF TypeOK, ConnectionInv, ApplicationClose, ctxVars, cnxVars, thrVars
  <2>4. OwnershipInv'
    BY <1>3, <2>1 DEF TypeOK, OwnershipInv, ApplicationClose, ctxVars, cnxVars, thrVars
  <2>5. JoinInv'
    BY <1>3, <2>1 DEF TypeOK, JoinInv, ApplicationClose, ctxVars, cnxVars, thrVars
  <2> QED
    BY <2>1, <2>2, <2>3, <2>4, <2>5
<1>4. ASSUME NEW c \in Cnxs, Close(c) PROVE IndInv'
  <2>1. is_sending' \in BOOLEAN
    BY <1>4, Zenon DEF TypeOK, Close, ctxVars, cnxVars, thrVars
  <2>2. TypeOK'
    BY <1>4, <2>1 DEF TypeOK, Close, ctxVars, cnxVars, thrVars
  <2>3. FlagMeansCamera'
    BY <1>4, <2>2 DEF TypeOK, FlagMeansCamera, Close, ctxVars, cnxVars, thrVars
  <2>4. ConnectionInv'
    <3>1. gen' = gen /\ cnx' = cnx /\ wt' = wt /\ mainPc' = mainPc
      BY <1>4 DEF Close, thrVars
    <3>2. is_sending' => is_sending /\ c \notin wt
      BY <1>4, Zenon DEF Close
    <3>3. \A d \in Cnxs : d # c => cstate'[d] = cstate[d]
      BY <1>4 DEF Close, TypeOK
    <3>4. wt \subseteq Cnxs
      BY DEF TypeOK
    <3> QED
      BY <3>1, <3>2, <3>3, <3>4 DEF ConnectionInv
  <2>5. OwnershipInv'
    BY <1>4, <2>2 DEF TypeOK, OwnershipInv, Close, ctxVars, cnxVars, thrVars
  <2>6. JoinInv'
    BY <1>4, <2>2 DEF TypeOK, JoinInv, Close, ctxVars, cnxVars, thrVars
  <2> QED
    BY <2>2, <2>3, <2>4, <2>5, <2>6
<1>5. ASSUME NEW c \in Cnxs, StreamReset(c) PROVE IndInv'
  <2>1. is_sending' \in BOOLEAN
    BY <1>5, Zenon DEF TypeOK, StreamReset, ctxVars, cnxVars, thrVars
  <2>2. TypeOK'
    BY <1>5, <2>1 DEF TypeOK, StreamReset, ctxVars, cnxVars, thrVars
  <2>3. FlagMeansCamera'
    BY <1>5, <2>2 DEF TypeOK, FlagMeansCamera, StreamReset, ctxVars, cnxVars, thrVars
  <2>4. ConnectionInv'
    BY <1>5, <2>2 DEF TypeOK, ConnectionInv, StreamReset, ctxVars, cnxVars, thrVars
  <2>5. OwnershipInv'
    BY <1>5, <2>2 DEF TypeOK, OwnershipInv, StreamReset, ctxVars, cnxVars, thrVars
  <2>6. JoinInv'
    BY <1>5, <2>2 DEF TypeOK, JoinInv, StreamReset, ctxVars, cnxVars, thrVars
  <2> QED
    BY <2>2, <2>3, <2>4, <2>5, <2>6
<1>6. ASSUME NEW c \in Cnxs, DeleteCnx(c) PROVE IndInv'
  <2>1. TypeOK'
    BY <1>6 DEF TypeOK, DeleteCnx, ctxVars, cnxVars, thrVars
  <2>2. FlagMeansCamera'
    BY <1>6, <2>1 DEF TypeOK, FlagMeansCamera, DeleteCnx, ctxVars, cnxVars, thrVars
  <2>3. ConnectionInv'
    BY <1>6, <2>1 DEF TypeOK, ConnectionInv, DeleteCnx, ctxVars, cnxVars, thrVars
  <2>4. OwnershipInv'
    BY <1>6, <2>1 DEF TypeOK, OwnershipInv, DeleteCnx, ctxVars, cnxVars, thrVars
  <2>5. JoinInv'
    BY <1>6, <2>1 DEF TypeOK, JoinInv, DeleteCnx, ctxVars, cnxVars, thrVars
  <2> QED
    BY <2>1, <2>2, <2>3, <2>4, <2>5
<1>7. ASSUME NEW g \in Gens, CamExit(g) PROVE IndInv'
  <2>1. TypeOK'
    BY <1>7 DEF TypeOK, CamExit, ctxVars, cnxVars, thrVars
  <2>2. FlagMeansCamera'
    BY <1>7, <2>1 DEF TypeOK, FlagMeansCamera, CamExit, ctxVars, cnxVars, thrVars
  <2>3. ConnectionInv'
    BY <1>7, <2>1 DEF TypeOK, ConnectionInv, CamExit, ctxVars, cnxVars, thrVars
  <2>4. OwnershipInv'
    BY <1>7, <2>1 DEF TypeOK, OwnershipInv, CamExit, ctxVars, cnxVars, thrVars
  <2>5. JoinInv'
    BY <1>7, <2>1 DEF TypeOK, JoinInv, CamExit, ctxVars, cnxVars, thrVars
  <2> QED
    BY <2>1, <2>2, <2>3, <2>4, <2>5
<1>8. ASSUME NEW g \in Gens, NetStart(g) PROVE IndInv'
  <2>1. TypeOK'
    BY <1>8 DEF TypeOK, NetStart, Goto, ctxVars, cnxVars, thrVars
  <2>2. FlagMeansCamera'
    BY <1>8, <2>1 DEF TypeOK, FlagMeansCamera, NetStart, Goto, ctxVars, cnxVars, thrVars
  <2>3. ConnectionInv'
    BY <1>8, <2>1 DEF TypeOK, ConnectionInv, NetStart, Goto, ctxVars, cnxVars, thrVars
  <2>4. OwnershipInv'
    BY <1>8, <2>1 DEF TypeOK, OwnershipInv, NetStart, Goto, ctxVars, cnxVars, thrVars
  <2>5. JoinInv'
    BY <1>8, <2>1 DEF TypeOK, JoinInv, NetStart, Goto, ctxVars, cnxVars, thrVars
  <2> QED
    BY <2>1, <2>2, <2>3, <2>4, <2>5
<1>9. ASSUME NEW g \in Gens, NetHead(g) PROVE IndInv'
  <2>1. TypeOK'
    BY <1>9 DEF TypeOK, NetHead, Goto, ctxVars, cnxVars, thrVars
  <2>2. FlagMeansCamera'
    BY <1>9, <2>1 DEF TypeOK, FlagMeansCamera, NetHead, Goto, ctxVars, cnxVars, thrVars
  <2>3. ConnectionInv'
    BY <1>9, <2>1 DEF TypeOK, ConnectionInv, NetHead, Goto, ctxVars, cnxVars, thrVars
  <2>4. OwnershipInv'
    BY <1>9, <2>1 DEF TypeOK, OwnershipInv, NetHead, Goto, ctxVars, cnxVars, thrVars
  <2>5. JoinInv'
    BY <1>9, <2>1 DEF TypeOK, JoinInv, NetHead, Goto, ctxVars, cnxVars, thrVars
  <2> QED
    BY <2>1, <2>2, <2>3, <2>4, <2>5
<1>10. ASSUME NEW g \in Gens, NetEnsure(g) PROVE IndInv'
  <2>1. TypeOK'
    BY <1>10 DEF TypeOK, NetEnsure, Goto, ctxVars, cnxVars, thrVars
  <2>2. FlagMeansCamera'
    BY <1>10, <2>1 DEF TypeOK, FlagMeansCamera, NetEnsure, Goto, ctxVars, cnxVars, thrVars
  <2>3. ConnectionInv'
    BY <1>10, <2>1 DEF TypeOK, ConnectionInv, NetEnsure, Goto, ctxVars, cnxVars, thrVars
  <2>4. OwnershipInv'
    BY <1>10, <2>1 DEF TypeOK, OwnershipInv, NetEnsure, Goto, ctxVars, cnxVars, thrVars
  <2>5. JoinInv'
    BY <1>10, <2>1 DEF TypeOK, JoinInv, NetEnsure, Goto, ctxVars, cnxVars, thrVars
  <2> QED
    BY <2>1, <2>2, <2>3, <2>4, <2>5
<1>11. ASSUME NEW g \in Gens, NetLength(g) PROVE IndInv'
  <2>1. is_sending' \in BOOLEAN
    BY <1>11, Zenon DEF TypeOK, NetLength, Goto, ctxVars, cnxVars, thrVars
  <2>2. TypeOK'
    <3>1. sent' \in (Cnxs \cup {None}) \X (Cnxs \cup {None})
      <4>1. sent' = <<cnx, bindOf>> \/ sent' = sent
        BY <1>11, Zenon DEF NetLength
      <4>2. <<cnx, bindOf>> \in (Cnxs \cup {None}) \X (Cnxs \cup {None})
        BY DEF TypeOK
      <4> QED
        BY <4>1, <4>2 DEF TypeOK
    <3>2. net' \in [Gens -> NetLive \cup {"none", "done"}]
      BY <1>11 DEF TypeOK, NetLength, Goto
    <3> QED
      BY <1>11, <2>1, <3>1, <3>2 DEF TypeOK, NetLength, ctxVars, cnxVars, thrVars
  <2>3. FlagMeansCamera'
    BY <1>11, <2>2 DEF TypeOK, FlagMeansCamera, NetLength, Goto, ctxVars, cnxVars, thrVars
  <2>4. ConnectionInv'
    BY <1>11, <2>2 DEF TypeOK, ConnectionInv, NetLength, Goto, ctxVars, cnxVars, thrVars
  <2>5. OwnershipInv'
    BY <1>11, <2>2 DEF TypeOK, OwnershipInv, NetLength, Goto, ctxVars, cnxVars, thrVars
  <2>6. JoinInv'
    BY <1>11, <2>2 DEF TypeOK, JoinInv, NetLength, Goto, ctxVars, cnxVars, thrVars
  <2> QED
    BY <2>2, <2>3, <2>4, <2>5, <2>6
<1>12. ASSUME NEW g \in Gens, NetPayload(g) PROVE IndInv'
  <2>1. is_sending' \in BOOLEAN
    BY <1>12, Zenon DEF TypeOK, NetPayload, Goto, ctxVars, cnxVars, thrVars
  <2>2. TypeOK'
    BY <1>12, <2>1 DEF TypeOK, NetPayload, Goto, ctxVars, cnxVars, thrVars
  <2>3. FlagMeansCamera'
    BY <1>12, <2>2 DEF TypeOK, FlagMeansCamera, NetPayload, Goto, ctxVars, cnxVars, thrVars
  <2>4. ConnectionInv'
    BY <1>12, <2>2 DEF TypeOK, ConnectionInv, NetPayload, Goto, ctxVars, cnxVars, thrVars
  <2>5. OwnershipInv'
    BY <1>12, <2>2 DEF TypeOK, OwnershipInv, NetPayload, Goto, ctxVars, cnxVars, thrVars
  <2>6. JoinInv'
    BY <1>12, <2>2 DEF TypeOK, JoinInv, NetPayload, Goto, ctxVars, cnxVars, thrVars
  <2> QED
    BY <2>2, <2>3, <2>4, <2>5, <2>6
<1>13. ASSUME NEW g \in Gens, NetFinish(g) PROVE IndInv'
  <2>1. TypeOK'
    BY <1>13 DEF TypeOK, NetFinish, Goto, ctxVars, cnxVars, thrVars
  <2>2. FlagMeansCamera'
    BY <1>13, <2>1 DEF TypeOK, FlagMeansCamera, NetFinish, Goto, ctxVars, cnxVars, thrVars
  <2>3. ConnectionInv'
    BY <1>13, <2>1 DEF TypeOK, ConnectionInv, NetFinish, Goto, ctxVars, cnxVars, thrVars
  <2>4. OwnershipInv'
    BY <1>13, <2>1 DEF TypeOK, OwnershipInv, NetFinish, Goto, ctxVars, cnxVars, thrVars
  <2>5. JoinInv'
    BY <1>13, <2>1 DEF TypeOK, JoinInv, NetFinish, Goto, ctxVars, cnxVars, thrVars
  <2> QED
    BY <2>1, <2>2, <2>3, <2>4, <2>5
<1>14. CASE LoopEnds
  <2>1. is_sending' \in BOOLEAN
    BY <1>14, Zenon DEF TypeOK, LoopEnds, ctxVars, cnxVars, thrVars
  <2>2. TypeOK'
    BY <1>14, <2>1 DEF TypeOK, LoopEnds, ctxVars, cnxVars, thrVars
  <2>3. FlagMeansCamera'
    BY <1>14, <2>2 DEF TypeOK, FlagMeansCamera, LoopEnds, ctxVars, cnxVars, thrVars
  <2>4. ConnectionInv'
    BY <1>14, <2>2 DEF TypeOK, ConnectionInv, LoopEnds, ctxVars, cnxVars, thrVars
  <2>5. OwnershipInv'
    BY <1>14, <2>2 DEF TypeOK, OwnershipInv, LoopEnds, ctxVars, cnxVars, thrVars
  <2>6. JoinInv'
    BY <1>14, <2>2 DEF TypeOK, JoinInv, LoopEnds, ctxVars, cnxVars, thrVars
  <2> QED
    BY <2>2, <2>3, <2>4, <2>5, <2>6
<1>15. CASE TestFlag
  <2>1. is_sending' \in BOOLEAN
    BY <1>15, Zenon DEF TypeOK, TestFlag, ctxVars, cnxVars, thrVars
  <2>2. TypeOK'
    BY <1>15, <2>1 DEF TypeOK, TestFlag, ctxVars, cnxVars, thrVars
  <2>3. FlagMeansCamera'
    BY <1>15, <2>2 DEF TypeOK, FlagMeansCamera, TestFlag, ctxVars, cnxVars, thrVars
  <2>4. ConnectionInv'
    BY <1>15, <2>2 DEF TypeOK, ConnectionInv, TestFlag, ctxVars, cnxVars, thrVars
  <2>5. OwnershipInv'
    BY <1>15, <2>2 DEF TypeOK, OwnershipInv, TestFlag, ctxVars, cnxVars, thrVars
  <2>6. JoinInv'
    BY <1>15, <2>2 DEF TypeOK, JoinInv, TestFlag, FlagMeansCamera, ctxVars, cnxVars, thrVars
  <2> QED
    BY <2>2, <2>3, <2>4, <2>5, <2>6
<1>16. CASE JoinCamera
  <2>1. TypeOK'
    BY <1>16 DEF TypeOK, JoinCamera, ctxVars, cnxVars, thrVars
  <2>2. FlagMeansCamera'
    BY <1>16, <2>1 DEF TypeOK, FlagMeansCamera, JoinCamera, ctxVars, cnxVars, thrVars
  <2>3. ConnectionInv'
    BY <1>16, <2>1 DEF TypeOK, ConnectionInv, JoinCamera, ctxVars, cnxVars, thrVars
  <2>4. OwnershipInv'
    BY <1>16, <2>1 DEF TypeOK, OwnershipInv, JoinCamera, ctxVars, cnxVars, thrVars
  <2>5. JoinInv'
    BY <1>16, <2>1 DEF TypeOK, JoinInv, JoinCamera, ctxVars, cnxVars, thrVars
  <2> QED
    BY <2>1, <2>2, <2>3, <2>4, <2>5
<1>17. CASE JoinNetwork
  <2>1. joined' \in BOOLEAN
    BY <1>17, Zenon DEF TypeOK, JoinNetwork, ctxVars, cnxVars, thrVars
  <2>2. TypeOK'
    BY <1>17, <2>1 DEF TypeOK, JoinNetwork, ctxVars, cnxVars, thrVars
  <2>3. FlagMeansCamera'
    BY <1>17, <2>2 DEF TypeOK, FlagMeansCamera, JoinNetwork, ctxVars, cnxVars, thrVars
  <2>4. ConnectionInv'
    BY <1>17, <2>2 DEF TypeOK, ConnectionInv, JoinNetwork, ctxVars, cnxVars, thrVars
  <2>5. OwnershipInv'
    BY <1>17, <2>2 DEF TypeOK, OwnershipInv, JoinNetwork, ctxVars, cnxVars, thrVars
  <2>6. JoinInv'
    BY <1>17, <2>2 DEF TypeOK, JoinInv, JoinNetwork, ctxVars, cnxVars, thrVars
  <2> QED
    BY <2>2, <2>3, <2>4, <2>5, <2>6
<1>18. CASE Cleanup
  <2>1. TypeOK'
    BY <1>18 DEF TypeOK, Cleanup, ctxVars, cnxVars, thrVars
  <2>2. FlagMeansCamera'
    BY <1>18, <2>1 DEF TypeOK, FlagMeansCamera, Cleanup, ctxVars, cnxVars, thrVars
  <2>3. ConnectionInv'
    BY <1>18, <2>1 DEF TypeOK, ConnectionInv, Cleanup, ctxVars, cnxVars, thrVars
  <2>4. OwnershipInv'
    BY <1>18, <2>1 DEF TypeOK, OwnershipInv, Cleanup, ctxVars, cnxVars, thrVars
  <2>5. JoinInv'
    BY <1>18, <2>1 DEF TypeOK, JoinInv, Cleanup, ctxVars, cnxVars, thrVars
  <2> QED
    BY <2>1, <2>2, <2>3, <2>4, <2>5
<1>19. CASE UNCHANGED vars
  BY <1>19 DEF TypeOK, FlagMeansCamera, ConnectionInv, OwnershipInv, JoinInv, vars,
    ctxVars, cnxVars, thrVars
<1> QED
  BY <1>1, <1>2, <1>3, <1>4, <1>5, <1>6, <1>7, <1>8, <1>9, <1>10, <1>11,
     <1>12, <1>13, <1>14, <1>15, <1>16, <1>17, <1>18, <1>19 DEF Next,
     MainStep, LoopStep, NetStep

\* The invariant holds in every state of the server.
THEOREM IndInvariant == Spec => []IndInv
BY InitInd, IndStep, PTL DEF Spec

\* The types are right in every state.
THEOREM TypeCorrect == Spec => []TypeOK
<1>1. IndInv => TypeOK
  BY DEF IndInv
<1> QED
  BY <1>1, IndInvariant, PTL

\* The flag is up only while the newest camera thread runs: camera_path_callback
\* and camera_thread_func agree on who feeds the session.
THEOREM FlagMeansCameraHolds == Spec => []FlagMeansCamera
<1>1. IndInv => FlagMeansCamera
  BY DEF IndInv
<1> QED
  BY <1>1, IndInvariant, PTL

\* The flag is up only while the context points to a live connection
\* (camera_path_callback, camera_wt_callback).
THEOREM FlagMeansConnectionHolds == Spec => []FlagMeansConnection
<1>1. IndInv => FlagMeansConnection
  BY DEF IndInv, TypeOK, ConnectionInv, FlagMeansConnection
<1> QED
  BY <1>1, IndInvariant, PTL

\* A shutdown of run_server that joined leaves no thread behind, if sessions did
\* not clash.
THEOREM JoinedCleanupHolds == Spec => []JoinedCleanup
<1>1. IndInv => JoinedCleanup
  BY DEF IndInv, TypeOK, OwnershipInv, JoinInv, JoinedCleanup, SessionOver
<1> QED
  BY <1>1, IndInvariant, PTL
-----------------------------------------------------------------------------
(* One session at a time                                                   *)

\* While the flag is up there is a session.
LEMMA FlagMeansSession == TypeOK /\ FlagMeansCamera => (is_sending => ~SessionOver)
BY DEF TypeOK, FlagMeansCamera, SessionOver

\* A step that moves no thread to its end, raises no flag, takes no connection over and
\* sends nothing is, to the abstract session, its stop or nothing.
LEMMA StopOrStutter ==
  ASSUME is_sending \in BOOLEAN, is_sending' => is_sending,
         SessionOver' <=> SessionOver, cnx' = cnx, sent' = sent, clash' = clash
  PROVE  [Abstract!Next]_(Abstract!sessionVars)
<1>1. Owner' = Owner
  BY Zenon DEF Owner
<1>2. Phase' = Phase \/ (Phase = "streaming" /\ Phase' = "stopping")
  <2>1. CASE SessionOver
    <3>1. Phase = "idle"
      BY <2>1, Zenon DEF Phase
    <3>2. Phase' = "idle"
      BY <2>1, Zenon DEF Phase
    <3> QED
      BY <3>1, <3>2
  <2>2. CASE ~SessionOver /\ is_sending'
    <3>1. Phase = "streaming"
      BY <2>2, Zenon DEF Phase
    <3>2. Phase' = "streaming"
      BY <2>2, Zenon DEF Phase
    <3> QED
      BY <3>1, <3>2
  <2>3. CASE ~SessionOver /\ ~is_sending'
    BY <2>3, Zenon DEF Phase
  <2> QED
    BY <2>1, <2>2, <2>3
<1>3. CASE Phase' = Phase
  BY <1>1, <1>3 DEF Abstract!sessionVars
<1>4. CASE Phase = "streaming" /\ Phase' = "stopping"
  BY <1>1, <1>4 DEF Abstract!Next, Abstract!Stop
<1> QED
  BY <1>2, <1>3, <1>4

\* A step that ends a thread ends the session, when the flag is down and no other thread
\* is left.
LEMMA EndOrStutter ==
  ASSUME is_sending \in BOOLEAN, is_sending' = is_sending, is_sending => ~SessionOver',
         ~SessionOver, cnx' = cnx, sent' = sent, clash' = clash
  PROVE  [Abstract!Next]_(Abstract!sessionVars)
<1>1. CASE SessionOver'
  <2>1. Phase = "stopping" /\ Phase' = "idle" /\ Owner' = None
    BY <1>1, Zenon DEF Phase, Owner
  <2> QED
    BY <2>1 DEF Abstract!Next, Abstract!End
<1>2. CASE ~SessionOver'
  BY <1>2, StopOrStutter
<1> QED
  BY <1>1, <1>2

\* Where the threads stay where they are a session goes on, or there still is none.
LEMMA SameThreads == UNCHANGED <<cam, net>> => (SessionOver' <=> SessionOver)
BY DEF SessionOver

\* A network thread that has not come to its end before and after a step keeps the
\* session.
LEMMA NetMoves ==
  ASSUME TypeOK, NEW g \in Gens, net[g] \in NetLive, NEW pc \in NetLive, Goto(g, pc)
  PROVE  ~SessionOver /\ ~SessionOver'
BY DEF TypeOK, Goto, SessionOver

\* Every step of the server is one of the abstract session, or none.
LEMMA SessionStep == IndInv /\ IndInv' /\ [Next]_vars => [Abstract!Next]_(Abstract!sessionVars)
<1> SUFFICES ASSUME IndInv, IndInv', [Next]_vars
             PROVE  [Abstract!Next]_(Abstract!sessionVars)
  OBVIOUS
<1>1. /\ TypeOK /\ gen \in 0..MaxGen /\ is_sending \in BOOLEAN /\ clash \in BOOLEAN
      /\ clash' \in BOOLEAN
  BY DEF IndInv, TypeOK
<1>2. /\ is_sending => ~SessionOver
      /\ is_sending' => ~SessionOver'
  <2>1. TypeOK /\ FlagMeansCamera /\ TypeOK' /\ FlagMeansCamera'
    BY DEF IndInv
  <2>2. is_sending => ~SessionOver
    BY <2>1, FlagMeansSession
  <2>3. is_sending' => ~SessionOver'
    BY <2>1 DEF TypeOK, FlagMeansCamera, SessionOver
  <2> QED
    BY <2>2, <2>3
<1>3. CASE clash'
  BY <1>1, <1>3 DEF Abstract!Next, Abstract!Overlap
<1>4. ASSUME ~clash', NEW c \in Cnxs, ConnectOnly(c) PROVE [Abstract!Next]_(Abstract!sessionVars)
  <2>1. ~clash /\ SessionOver /\ sent' = sent /\ UNCHANGED <<cam, net>>
    BY <1>4, Zenon DEF ConnectOnly, TakeOver, thrVars
  <2>2. SessionOver'
    BY <2>1, SameThreads
  <2>3. Phase = "idle" /\ Phase' = "idle" /\ Owner = None /\ Owner' = None
    BY <2>1, <2>2, Zenon DEF Phase, Owner
  <2>4. clash' = clash
    BY <1>1, <1>4, <2>1
  <2> QED
    BY <2>1, <2>3, <2>4 DEF Abstract!sessionVars
<1>5. ASSUME ~clash', NEW c \in Cnxs, StartThreads(c) PROVE [Abstract!Next]_(Abstract!sessionVars)
  <2>1. ~clash /\ SessionOver /\ sent' = sent /\ cnx' = c
    BY <1>5, Zenon DEF StartThreads, TakeOver
  <2>2. Phase = "idle" /\ Owner = None
    BY <2>1, Zenon DEF Phase, Owner
  <2>3. clash' = clash
    BY <1>1, <1>5, <2>1
  <2>4. CASE SessionOver'
    <3>1. Phase' = "idle" /\ Owner' = None
      BY <2>4, Zenon DEF Phase, Owner
    <3> QED
      BY <2>1, <2>2, <2>3, <3>1 DEF Abstract!sessionVars
  <2>5. CASE ~SessionOver'
    <3>1. Phase' \in {"streaming", "stopping"} /\ Owner' = c
      BY <2>1, <2>5, Zenon DEF Phase, Owner
    <3> QED
      BY <2>1, <2>2, <2>3, <3>1 DEF Abstract!Next, Abstract!Begin
  <2> QED
    BY <2>4, <2>5
<1>6. ASSUME NEW c \in Cnxs, ApplicationClose(c) \/ Close(c) \/ StreamReset(c) \/ DeleteCnx(c)
      PROVE  [Abstract!Next]_(Abstract!sessionVars)
  <2>1. UNCHANGED <<cam, net, cnx, sent, clash>>
    BY <1>6 DEF ApplicationClose, Close, StreamReset, DeleteCnx, ctxVars, thrVars
  <2>2. is_sending' => is_sending
    BY <1>6, Zenon DEF ApplicationClose, Close, StreamReset, DeleteCnx, ctxVars
  <2> QED
    BY <1>1, <2>1, <2>2, SameThreads, StopOrStutter
<1>7. ASSUME MainStep PROVE [Abstract!Next]_(Abstract!sessionVars)
  <2>1. UNCHANGED <<cam, net, cnx, sent, clash>>
    BY <1>7, Zenon DEF MainStep, LoopEnds, TestFlag, JoinCamera, JoinNetwork, Cleanup, ctxVars, thrVars
  <2>2. is_sending' => is_sending
    BY <1>7, Zenon DEF MainStep, LoopEnds, TestFlag, JoinCamera, JoinNetwork, Cleanup, ctxVars
  <2> QED
    BY <1>1, <2>1, <2>2, SameThreads, StopOrStutter
<1>8. ASSUME NEW g \in Gens, CamExit(g) \/ NetFinish(g) PROVE [Abstract!Next]_(Abstract!sessionVars)
  <2>1. UNCHANGED <<is_sending, cnx, sent, clash>>
    BY <1>8 DEF CamExit, NetFinish, ctxVars
  <2>2. ~SessionOver
    BY <1>8 DEF CamExit, NetFinish, SessionOver
  <2> QED
    BY <1>1, <1>2, <2>1, <2>2, EndOrStutter
<1>9. ASSUME NEW g \in Gens, NetStart(g) \/ NetHead(g) \/ NetEnsure(g)
      PROVE  [Abstract!Next]_(Abstract!sessionVars)
  <2>1. UNCHANGED <<is_sending, cnx, sent, clash>>
    BY <1>9 DEF NetStart, NetHead, NetEnsure, ctxVars
  <2>2. net[g] \in NetLive /\ \E pc \in NetLive : Goto(g, pc)
    BY <1>9 DEF NetStart, NetHead, NetEnsure
  <2>3. ~SessionOver /\ ~SessionOver'
    BY <1>1, <2>2, NetMoves
  <2> QED
    BY <1>1, <2>1, <2>3, StopOrStutter
<1>10. ASSUME ~clash', NEW g \in Gens, NetLength(g) \/ NetPayload(g)
       PROVE  [Abstract!Next]_(Abstract!sessionVars)
  <2>1. cnx' = cnx /\ clash' = clash
    BY <1>10 DEF NetLength, NetPayload
  <2>2. net[g] \in {"length", "payload"} /\ \E pc \in NetLive : Goto(g, pc)
    BY <1>10 DEF NetLength, NetPayload
  <2>3. ~SessionOver /\ ~SessionOver'
    BY <1>1, <2>2, NetMoves
  <2>4. \/ sent' = sent /\ (is_sending' => is_sending)
        \/ sent' = <<cnx, bindOf>> /\ is_sending' = is_sending
    BY <1>10, Zenon DEF NetLength, NetPayload
  <2>5. CASE sent' = sent /\ (is_sending' => is_sending)
    BY <1>1, <2>1, <2>3, <2>5, StopOrStutter
  <2>6. CASE sent' = <<cnx, bindOf>> /\ is_sending' = is_sending
    <3>1. bindOf \in {None, cnx}
      BY <1>10, <2>1, <2>2 DEF IndInv, TypeOK, OwnershipInv
    <3>2. Owner = cnx /\ Owner' = cnx /\ Phase' = Phase /\ Phase # "idle"
      BY <2>1, <2>3, <2>6, Zenon DEF Owner, Phase
    <3> QED
      BY <2>1, <2>6, <3>1, <3>2 DEF Abstract!Next, Abstract!Send
  <2> QED
    BY <2>4, <2>5, <2>6
<1>11. CASE UNCHANGED vars
  <2>1. UNCHANGED <<is_sending, cnx, cam, net, sent, clash>>
    BY <1>11 DEF vars, ctxVars, thrVars
  <2> QED
    BY <1>1, <2>1, SameThreads, StopOrStutter
<1> QED
  BY <1>3, <1>4, <1>5, <1>6, <1>7, <1>8, <1>9, <1>10, <1>11 DEF Next, LoopStep, NetStep

\* As long as sessions do not overlap the server has one session at a time: it implements
\* OneSession (network_thread_func clears ctx->mp.bind when it starts, and
\* camera_path_callback starts threads only while is_sending is down).
THEOREM OneSessionRefinement == Spec => OneSessionSpec
<1>1. Init => Abstract!Init
  BY DEF Init, Abstract!Init, Phase, Owner, SessionOver
<1> QED
  BY <1>1, IndInvariant, SessionStep, PTL DEF Spec, OneSessionSpec, Abstract!Spec
=============================================================================
