-------------------------- MODULE FrameBufferProofs --------------------------
(***************************************************************************)
(* Proofs about FrameBuffer, for JPEGs of any size, any max_frames and any *)
(* number of captures.                                                     *)
(***************************************************************************)
EXTENDS FrameBuffer, TLAPS

Capturing == camPc \in {"capture", "copy", "publish"}

\* The buffers have different roles, a waiting frame is in the ready buffer, and
\* the camera only captures while none waits.
RolesInv ==
  /\ active_idx # ready_idx
  /\ ~has_frame[active_idx]
  /\ Capturing => ~has_frame[ready_idx]

\* The part of the JPEG copied so far is in the active buffer.
CopyInv ==
  /\ camPc = "copy" => copied < jpegSize
  /\ camPc = "publish" => copied = jpegSize /\ jpegSize > 0
  /\ Writing => \A c \in 1..copied : buf[active_idx][c] = captured + 1

\* The waiting frame is whole and newer than every frame claimed before.
ReadyInv ==
  /\ has_frame[ready_idx] =>
       /\ ready_size[ready_idx] > 0
       /\ \A c \in 1..ready_size[ready_idx] : buf[ready_idx][c] = frameOf[ready_idx]
       /\ frameOf[ready_idx] = captured
       /\ cur < captured
  /\ cur <= captured

\* The claimed frame stays intact until a newer frame is discarded: either its
\* buffer is still the ready one, which the camera does not write, or a newer
\* frame waits, which keeps the camera from capturing.
ClaimInv ==
  /\ netPc = "payload" => Len(wire) <= fb_sz
  /\ netPc = "length" => wire = <<>>
  /\ Holding /\ ~dropped =>
       /\ \A c \in 1..fb_sz : buf[fb_idx][c] = cur
       /\ \A i \in 1..Len(wire) : wire[i] = cur
       /\ fb_idx = ready_idx \/ has_frame[ready_idx]

\* A frame of an earlier session waits only until the first claim.
StaleInv ==
  /\ has_frame[ready_idx] /\ stale[ready_idx] => frame_count = 0 /\ ~Holding
  /\ Holding /\ curStale => frame_count = 0

IndInv == TypeOK /\ RolesInv /\ CopyInv /\ ReadyInv /\ ClaimInv /\ StaleInv
-----------------------------------------------------------------------------
USE ChunksAssumption, FramesAssumption, CapturesAssumption DEF Bufs, Chunks

\* Where the next step of the network thread is after a loop body.
LEMMA AfterBodyType == \A n \in Nat : AfterBody(n) \in {"head", "done"}
BY DEF AfterBody

\* Every step keeps the types of the thread-shared and local state.
LEMMA TypeStep == TypeOK /\ RolesInv /\ CopyInv /\ [Next]_vars => TypeOK'
<1> SUFFICES ASSUME TypeOK, RolesInv, CopyInv, [Next]_vars PROVE TypeOK'
  OBVIOUS
<1> USE DEF TypeOK
<1>1. CASE CamHead
  BY <1>1 DEF CamHead, slotVars, camVars, netVars
<1>2. CASE CamNoBacklog
  BY <1>2 DEF CamNoBacklog, slotVars, camVars, netVars
<1>3. CASE CamBacklog
  BY <1>3 DEF CamBacklog, slotVars, camVars, netVars
<1>4. CASE CamDrop
  <2>1. has_frame' \in [Bufs -> BOOLEAN]
    BY <1>4, Zenon DEF CamDrop
  <2>2. dropped' \in BOOLEAN
    BY <1>4, Zenon DEF CamDrop
  <2>3. ready_size' \in [Bufs -> 0..MaxChunks]
    BY <1>4 DEF CamDrop
  <2> QED
    BY <1>4, <2>1, <2>2, <2>3 DEF CamDrop, netVars
<1>5. CASE CamCaptureFails
  BY <1>5 DEF CamCaptureFails, slotVars, camVars, netVars
<1>6. CASE CamCapture
  BY <1>6 DEF CamCapture, slotVars, camVars, netVars
<1>7. CASE CamCopy
  BY <1>7 DEF CamCopy, CopyInv, slotVars, camVars, netVars
<1>8. CASE CamPublish
  <2>1. has_frame' \in [Bufs -> BOOLEAN]
    BY <1>8, Zenon DEF CamPublish
  <2>2. stale' \in [Bufs -> BOOLEAN]
    BY <1>8, Zenon DEF CamPublish
  <2>3. ready_size' \in [Bufs -> 0..MaxChunks] /\ frameOf' \in [Bufs -> Nat]
    BY <1>8 DEF CamPublish
  <2> QED
    BY <1>8, <2>1, <2>2, <2>3 DEF CamPublish, netVars
<1>9. CASE NetHead
  BY <1>9 DEF NetHead, slotVars, camVars, netVars
<1>10. CASE NetPop
  <2>1. has_frame' \in [Bufs -> BOOLEAN]
    BY <1>10, Zenon DEF NetPop
  <2>2. dropped' \in BOOLEAN
    BY <1>10, Zenon DEF NetPop
  <2>3. curStale' \in BOOLEAN
    BY <1>10, Zenon DEF NetPop
  <2> QED
    BY <1>10, <2>1, <2>2, <2>3, SMTT(30) DEF NetPop, slotVars, camVars, netVars
<1>11. CASE NetIdle
  BY <1>11 DEF NetIdle, AfterBody, slotVars, camVars, netVars
<1>12. CASE NetSendLength
  <2>1. is_sending' \in BOOLEAN
    BY <1>12, Zenon DEF NetSendLength
  <2> QED
    BY <1>12, <2>1 DEF NetSendLength, slotVars, camVars, netVars
<1>13. CASE NetSendChunk
  <2>1. Len(wire) + 1 \in Chunks
    BY <1>13 DEF NetSendChunk
  <2>2. wire' \in Seq(Nat)
    BY <1>13, <2>1, SMTT(30) DEF NetSendChunk
  <2> QED
    BY <1>13, <2>2 DEF NetSendChunk, slotVars, camVars
<1>14. CASE NetFrameSent
  BY <1>14 DEF NetFrameSent, AfterBody, slotVars, camVars, netVars
<1>15. CASE NetChunkFails
  <2>1. is_sending' \in BOOLEAN
    BY <1>15, Zenon DEF NetChunkFails
  <2> QED
    BY <1>15, <2>1 DEF NetChunkFails, AfterBody, slotVars, camVars, netVars
<1>16. CASE StopEvent
  <2>1. is_sending' \in BOOLEAN
    BY <1>16, Zenon DEF StopEvent
  <2> QED
    BY <1>16, <2>1 DEF StopEvent, slotVars, camVars, netVars
<1>17. CASE Disconnect
  BY <1>17 DEF Disconnect, slotVars, camVars, netVars
<1>18. CASE Connect
  BY <1>18 DEF Connect, slotVars, camVars, netVars
<1>19. CASE UNCHANGED vars
  BY <1>19 DEF vars, slotVars, camVars, netVars
<1> QED
  BY <1>1, <1>2, <1>3, <1>4, <1>5, <1>6, <1>7, <1>8, <1>9, <1>10, <1>11, <1>12, <1>13, <1>14, <1>15, <1>16, <1>17, <1>18, <1>19 DEF Next, CamStep, NetStep, LoopStep

\* Every step keeps the invariant.
LEMMA IndStep == IndInv /\ [Next]_vars => IndInv'
<1> SUFFICES ASSUME IndInv, [Next]_vars PROVE IndInv'
  OBVIOUS
<1>0. TypeOK'
  BY TypeStep DEF IndInv
<1> USE DEF IndInv, TypeOK, RolesInv, CopyInv, ReadyInv, ClaimInv, StaleInv,
            Holding, Writing, Capturing
<1>1. CASE CamHead
  BY <1>0, <1>1 DEF CamHead, slotVars, camVars, netVars
<1>2. CASE CamNoBacklog
  BY <1>0, <1>2 DEF CamNoBacklog, slotVars, camVars, netVars
<1>3. CASE CamBacklog
  BY <1>0, <1>3 DEF CamBacklog, slotVars, camVars, netVars
<1>4. CASE CamDrop
  BY <1>0, <1>4 DEF CamDrop, slotVars, camVars, netVars
<1>5. CASE CamCaptureFails
  BY <1>0, <1>5 DEF CamCaptureFails, slotVars, camVars, netVars
<1>6. CASE CamCapture
  <2>1. RolesInv'
    BY <1>6 DEF CamCapture, slotVars
  <2>2. CopyInv'
    BY <1>6 DEF CamCapture, slotVars
  <2>3. ReadyInv' /\ ClaimInv' /\ StaleInv'
    BY <1>6 DEF CamCapture, slotVars, netVars
  <2> QED
    BY <1>0, <2>1, <2>2, <2>3
<1>7. CASE CamCopy
  <2>1. copied + 1 \in Chunks
    BY <1>7 DEF CamCopy
  <2>2. \A b \in Bufs, c \in Chunks : buf'[b][c] =
          IF b = active_idx /\ c = copied + 1 THEN captured + 1 ELSE buf[b][c]
    BY <1>7, <2>1 DEF CamCopy
  <2>3. RolesInv' /\ StaleInv'
    BY <1>7 DEF CamCopy, slotVars, netVars
  <2>4. CopyInv'
    <3>1. \A c \in 1..copied' : buf'[active_idx'][c] = captured' + 1
      <4> SUFFICES ASSUME NEW c \in 1..copied'
                   PROVE  buf'[active_idx'][c] = captured' + 1
        OBVIOUS
      <4>1. c \in Chunks /\ (c = copied + 1 \/ c \in 1..copied)
        BY <1>7, <2>1, SMTT(30) DEF CamCopy
      <4>2. active_idx' = active_idx /\ captured' = captured
        BY <1>7 DEF CamCopy, slotVars
      <4>3. c \in 1..copied => buf[active_idx][c] = captured + 1
        BY <1>7 DEF CamCopy
      <4>4. buf'[active_idx][c] = captured + 1
        BY <2>2, <4>1, <4>3
      <4> QED
        BY <4>2, <4>4
    <3>2. camPc' = "copy" => copied' < jpegSize'
      BY <1>7 DEF CamCopy
    <3>3. camPc' = "publish" => copied' = jpegSize' /\ jpegSize' > 0
      BY <1>7 DEF CamCopy
    <3> QED
      BY <3>1, <3>2, <3>3
  <2>5. ReadyInv'
    BY <1>0, <1>7, <2>2 DEF CamCopy, slotVars, netVars
  <2>6. ClaimInv'
    BY <1>0, <1>7, <2>2 DEF CamCopy, slotVars, netVars
  <2> QED
    BY <1>0, <2>3, <2>4, <2>5, <2>6
<1>8. CASE CamPublish
  <2>1. has_frame'[active_idx] /\ ~has_frame'[ready_idx]
    BY <1>8 DEF CamPublish
  <2>2. /\ ready_size'[active_idx] = jpegSize
        /\ frameOf'[active_idx] = captured + 1
        /\ ~stale'[active_idx]
    BY <1>8 DEF CamPublish
  <2>3. RolesInv'
    BY <1>8, <2>1 DEF CamPublish
  <2>4. CopyInv'
    BY <1>8 DEF CamPublish
  <2>5. ReadyInv'
    BY <1>8, <2>2 DEF CamPublish, netVars
  <2>6. ClaimInv'
    BY <1>8, <2>1 DEF CamPublish, netVars
  <2>7. StaleInv'
    BY <1>8, <2>2 DEF CamPublish, netVars
  <2> QED
    BY <1>0, <2>3, <2>4, <2>5, <2>6, <2>7
<1>9. CASE NetHead
  BY <1>0, <1>9 DEF NetHead, slotVars, camVars, netVars
<1>10. CASE NetPop
  BY <1>0, <1>10 DEF NetPop, FrameReady, slotVars, camVars, netVars
<1>11. CASE NetIdle
  BY <1>0, <1>11 DEF NetIdle, AfterBody, FrameReady, slotVars, camVars, netVars
<1>12. CASE NetSendLength
  BY <1>0, <1>12 DEF NetSendLength, slotVars, camVars, netVars
<1>13. CASE NetSendChunk
  <2>1. RolesInv' /\ CopyInv' /\ ReadyInv' /\ StaleInv'
    BY <1>13 DEF NetSendChunk, slotVars, camVars
  <2>2. Len(wire) + 1 \in Chunks
    BY <1>13 DEF NetSendChunk
  <2>3. /\ Len(wire') = Len(wire) + 1
        /\ wire'[Len(wire) + 1] = buf[fb_idx][Len(wire) + 1]
        /\ \A i \in 1..Len(wire) : wire'[i] = wire[i]
    BY <1>13, <2>2 DEF NetSendChunk
  <2>4. ClaimInv'
    <3>1. Len(wire') <= fb_sz' /\ netPc' # "length"
      BY <1>13, <2>3 DEF NetSendChunk
    <3>2. ASSUME ~dropped
          PROVE  \A i \in 1..Len(wire') : wire'[i] = cur'
      <4>1. wire'[Len(wire) + 1] = cur
        BY <1>13, <2>3, <3>2 DEF NetSendChunk
      <4>2. \A i \in 1..Len(wire) : wire'[i] = cur
        BY <1>13, <2>3, <3>2 DEF NetSendChunk
      <4>3. \A i \in 1..Len(wire') : i \in 1..Len(wire) \/ i = Len(wire) + 1
        BY <2>3
      <4>4. cur' = cur
        BY <1>13 DEF NetSendChunk
      <4> QED
        BY <4>1, <4>2, <4>3, <4>4
    <3> QED
      BY <1>13, <3>1, <3>2 DEF NetSendChunk, slotVars
  <2> QED
    BY <1>0, <2>1, <2>4
<1>14. CASE NetFrameSent
  BY <1>0, <1>14 DEF NetFrameSent, AfterBody, slotVars, camVars, netVars
<1>15. CASE NetChunkFails
  BY <1>0, <1>15 DEF NetChunkFails, AfterBody, slotVars, camVars, netVars
<1>16. CASE StopEvent
  BY <1>0, <1>16 DEF StopEvent, slotVars, camVars, netVars
<1>17. CASE Disconnect
  BY <1>0, <1>17 DEF Disconnect, slotVars, camVars, netVars
<1>18. CASE Connect
  BY <1>0, <1>18 DEF Connect, slotVars, camVars, netVars
<1>19. CASE UNCHANGED vars
  BY <1>0, <1>19 DEF vars, slotVars, camVars, netVars
<1> QED
  BY <1>1, <1>2, <1>3, <1>4, <1>5, <1>6, <1>7, <1>8, <1>9, <1>10, <1>11, <1>12, <1>13, <1>14, <1>15, <1>16, <1>17, <1>18, <1>19 DEF Next, CamStep, NetStep, LoopStep

LEMMA InitInd == Init => IndInv
<1> SUFFICES ASSUME Init PROVE IndInv
  OBVIOUS
<1> USE DEF Init
<1>1. TypeOK
  <2>1. is_sending \in BOOLEAN /\ disconnecting \in BOOLEAN /\ backlog \in BOOLEAN
        /\ curStale \in BOOLEAN /\ dropped \in BOOLEAN
    BY Zenon
  <2>2. has_frame \in [Bufs -> BOOLEAN] /\ stale \in [Bufs -> BOOLEAN]
    BY Zenon
  <2> QED
    BY <2>1, <2>2 DEF TypeOK
<1>2. RolesInv /\ CopyInv
  BY DEF RolesInv, CopyInv, Writing, Capturing
<1>3. ReadyInv /\ ClaimInv /\ StaleInv
  BY DEF ReadyInv, ClaimInv, StaleInv, Holding
<1> QED
  BY <1>1, <1>2, <1>3 DEF IndInv

\* The invariant holds in every state of the double buffer.
THEOREM IndInvariant == Spec => []IndInv
BY InitInd, IndStep, PTL DEF Spec

\* The types are right in every state.
THEOREM TypeCorrect == Spec => []TypeOK
<1>1. IndInv => TypeOK
  BY DEF IndInv
<1> QED
  BY <1>1, IndInvariant, PTL

\* A frame is torn only after a newer frame was discarded while it was being
\* sent (camera_thread_func and network_thread_func).
THEOREM TearNeedsDropHolds == Spec => []TearNeedsDrop
<1>1. IndInv => TearNeedsDrop
  BY DEF IndInv, TypeOK, RolesInv, ClaimInv, TearNeedsDrop, Holding, Writing,
         Capturing
<1> QED
  BY <1>1, IndInvariant, PTL

\* A frame that waits is whole (camera_thread_func publishes after the copy).
THEOREM ReadyFrameWholeHolds == Spec => []ReadyFrameWhole
<1>1. IndInv => ReadyFrameWhole
  BY DEF IndInv, TypeOK, RolesInv, ReadyInv, ReadyFrameWhole
<1> QED
  BY <1>1, IndInvariant, PTL

\* Only the first frame of a session can come from an earlier session.
THEOREM StaleFrameFirstHolds == Spec => []StaleFrameFirst
<1>1. IndInv => StaleFrameFirst
  BY DEF IndInv, StaleInv, StaleFrameFirst
<1> QED
  BY <1>1, IndInvariant, PTL

\* What the mailbox holds: the frame that waits in the ready buffer, or 0.
Waiting == IF has_frame[ready_idx] THEN frameOf[ready_idx] ELSE 0

\* Every step of the double buffer is a step of the mailbox or changes nothing
\* in it: a publish puts, a pop takes, a drop discards what is still there.
LEMMA MailboxStep ==
  IndInv /\ [Next]_vars => [Mailbox!Next]_(Mailbox!mailboxVars)
<1> SUFFICES ASSUME IndInv, [Next]_vars
             PROVE  Mailbox!Next \/ UNCHANGED <<captured, Waiting, cur>>
  BY DEF Mailbox!mailboxVars, Waiting
<1>1. CASE CamPublish
  <2>1. Waiting = 0
    BY <1>1 DEF CamPublish, IndInv, RolesInv, Capturing, Waiting
  <2>2. has_frame'[ready_idx'] /\ frameOf'[ready_idx'] = captured + 1
    BY <1>1 DEF CamPublish, IndInv, TypeOK
  <2>3. Waiting' = captured'
    BY <1>1, <2>2 DEF CamPublish, Waiting
  <2> QED
    BY <1>1, <2>1, <2>3
    DEF CamPublish, netVars, Mailbox!Next, Mailbox!Put, Waiting
<1>2. CASE NetPop
  <2>1. Waiting # 0 /\ Waiting = frameOf[ready_idx]
    BY <1>2 DEF NetPop, FrameReady, IndInv, TypeOK, ReadyInv, Waiting
  <2>2. Waiting' = 0
    BY <1>2 DEF NetPop, IndInv, TypeOK, Waiting
  <2> QED
    BY <1>2, <2>1, <2>2 DEF NetPop, Mailbox!Next, Mailbox!Take, Waiting
<1>3. CASE CamDrop
  <2>1. Waiting' = 0
    BY <1>3 DEF CamDrop, IndInv, TypeOK, Waiting
  <2>2. UNCHANGED <<captured, cur>>
    BY <1>3 DEF CamDrop, netVars
  <2> QED
    BY <2>1, <2>2 DEF Mailbox!Next, Mailbox!Discard, Waiting
<1>4. CASE \/ CamHead \/ CamNoBacklog \/ CamBacklog \/ CamCaptureFails
           \/ CamCapture \/ CamCopy
  BY <1>4 DEF CamHead, CamNoBacklog, CamBacklog, CamCaptureFails, CamCapture,
              CamCopy, slotVars, netVars, Waiting
<1>5. CASE \/ NetHead \/ NetIdle \/ NetSendLength \/ NetSendChunk
           \/ NetFrameSent \/ NetChunkFails
  BY <1>5 DEF NetHead, NetIdle, NetSendLength, NetSendChunk, NetFrameSent,
              NetChunkFails, slotVars, Waiting
<1>6. CASE StopEvent \/ Disconnect \/ Connect \/ UNCHANGED vars
  BY <1>6 DEF StopEvent, Disconnect, Connect, vars, slotVars, netVars, Waiting
<1> QED
  BY <1>1, <1>2, <1>3, <1>4, <1>5, <1>6 DEF Next, CamStep, NetStep, LoopStep

\* The double buffer implements the one-frame mailbox.
THEOREM MailboxRefinement == Spec => MailboxSpec
<1>1. Init => Mailbox!Init
  BY DEF Init, Mailbox!Init
<1> QED
  BY <1>1, IndInvariant, MailboxStep, PTL DEF Spec, MailboxSpec, Mailbox!Spec
=============================================================================
