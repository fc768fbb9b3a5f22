---------------------------- MODULE FrameMailbox ----------------------------
(***************************************************************************)
(* What the frame path promises the user of the display: a mailbox that    *)
(* holds one frame.  A commit replaces what was in it; the display catches *)
(* up band by band, in its own time, and may skip frames.  It never goes   *)
(* back to an older frame, and never shows one that was not committed.     *)
(***************************************************************************)
EXTENDS Integers

CONSTANTS Bands, MaxFrames
VARIABLES newest, shown

BandSet == 1..Bands

Init == newest = 0 /\ shown = [b \in BandSet |-> 0]

\* A commit with a framebuffer.
Submit ==
  /\ newest < MaxFrames
  /\ newest' = newest + 1
  /\ UNCHANGED shown

\* A rectangle reaches the display.
Refresh(b) ==
  /\ \E v \in shown[b]..newest : shown' = [shown EXCEPT ![b] = v]
  /\ UNCHANGED newest

Next == Submit \/ \E b \in BandSet : Refresh(b)
Spec == Init /\ [][Next]_<<newest, shown>>
=============================================================================
