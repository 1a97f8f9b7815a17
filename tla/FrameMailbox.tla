---------------------------- MODULE FrameMailbox ----------------------------
(***************************************************************************)
(* What the double buffer of src/quic_server.c promises the two threads    *)
(* that share it: a mailbox for one frame.  The camera thread puts frames  *)
(* into an empty mailbox, the network thread takes the frame out, and the  *)
(* camera thread may throw away a frame that nobody took.  Frames are      *)
(* numbered from 1 in the order of their capture; 0 stands for no frame.   *)
(***************************************************************************)
EXTENDS Naturals

VARIABLES
  produced,  \* frames put into the mailbox so far
  slot,      \* the frame in the mailbox, 0 when it is empty
  taken      \* the frame taken last, 0 before the first

mailboxVars == <<produced, slot, taken>>

Init ==
  /\ produced = 0
  /\ slot = 0
  /\ taken = 0

\* A new frame goes into an empty mailbox: a frame is never overwritten.
Put ==
  /\ slot = 0
  /\ produced' = produced + 1
  /\ slot' = produced'
  /\ UNCHANGED taken

\* The frame leaves the mailbox with the taker, once.
Take ==
  /\ slot # 0
  /\ taken' = slot
  /\ slot' = 0
  /\ UNCHANGED produced

\* A frame that waited too long is thrown away.
Discard ==
  /\ slot # 0
  /\ slot' = 0
  /\ UNCHANGED <<produced, taken>>

Next == Put \/ Take \/ Discard

Spec == Init /\ [][Next]_mailboxVars
=============================================================================
