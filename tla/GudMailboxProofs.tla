-------------------------- MODULE GudMailboxProofs --------------------------
(***************************************************************************)
(* GudFlush implements FrameMailbox, shows the newest frame when it rests,  *)
(* and frees the device last: for every number of framebuffers, bands and   *)
(* commits.  The first two are theorems of a driver whose async_flush is    *)
(* switched on at any time, but off only while the frame path is idle: a    *)
(* switch to synchronous lets a queued frame be sent after a newer one.     *)
(***************************************************************************)
EXTENDS GudFlushProofs

-----------------------------------------------------------------------------
(* The mailbox.                                                             *)

\* async_flush is switched off only while the frame path is idle.
Untoggled == "toggle" \notin Env

\* Every band of the shadow buffer, or of the display, is of the newest frame.
Copied    == \A b \in BandSet : pix[b] = frame
Delivered == \A b \in BandSet : display[b] = frame

\* No frame comes from the future.
AgeInv ==
  /\ \A b \in BandSet : pix[b] \in 0..frame /\ display[b] \in 0..frame
  /\ pc["commit"] = "copy" => \A b \in BandSet : b < band["commit"] => pix[b] = frame

\* Which of the two ways a commit goes, and that the other one is not in use.
WayInv ==
  /\ pc["commit"] \in {"enter", "copy", "queue", "drop"} => asyncFlush
  /\ ~disconnected /\ (~asyncFlush \/ pc["commit"] \in {"lock", "send"}) =>
       asyncFb = NoFb /\ pc["worker"] \notin {"lock", "send"}

\* A retained framebuffer has somebody who will take it.
WakeInv ==
  /\ canceler = "usb" => disconnected
  /\ canceler = "commit" => pc["commit"] = "wait"
  /\ asyncFb # NoFb /\ ~disconnected =>
       pending \/ pc["worker"] = "take" \/ pc["commit"] \in {"queue", "wait", "free"}

\* What is still to be sent is at least as new as what is shown.
OrderInv ==
  ~disconnected /\ (asyncFb # NoFb \/ pc["worker"] \in {"lock", "send"}) =>
    \A b \in BandSet : display[b] <= pix[b]

\* A commit that has done its part leaves its frame to the worker or on the
\* display, band by band.
Sent(t) == \A b \in BandSet : b < band[t] => display[b] = frame
OnItsWay ==
  \/ pc["worker"] = "lock" /\ Copied
  \/ pc["worker"] = "send" /\ Copied /\ Sent("worker")
  \/ pc["worker"] \notin {"lock", "send"} /\ ret["worker"] # "ok"
  \/ Delivered
NewestInv ==
  /\ pc["commit"] = "send" => Sent("commit")
  /\ pc["commit"] \in {"queue", "drop", "complete", "close", "idle"}
     /\ planeFb # NoFb /\ ret["commit"] = "ok" /\ ~disconnected =>
       IF asyncFb # NoFb THEN Copied ELSE OnItsWay

MailInv == AgeInv /\ WayInv /\ WakeInv /\ OrderInv /\ NewestInv

\* A connected sender reads what it was given: no dangling pointer.
LEMMA SourceIs ==
  ASSUME SlotInv, NEW t \in Senders, At(t, "send"), ~disconnected, NEW b
  PROVE  Source(t, b) = IF t = "commit" THEN frame ELSE pix[b]
  BY DEF SlotInv, Source, Senders, At

\* A frame that the queue refuses leaves the buffer alone; a new buffer is blank.
LEMMA EnterCases ==
  ASSUME LocalType, QueueEnter
  PROVE  \/ /\ Go("commit", "complete") /\ ret'["commit"] # "ok"
            /\ UNCHANGED <<pix, band>>
         \/ /\ Go("commit", "copy") /\ UNCHANGED ret
            /\ band' = [band EXCEPT !["commit"] = 1]
            /\ \/ UNCHANGED pix
               \/ shadow = 0 /\ pix' = [b \in BandSet |-> 0]
  BY DEF QueueEnter, Refuse, Fail, WrongSize, LocalType, Senders

\* Copies and transfers carry versions no newer than the newest.
LEMMA NextAge ==
  ASSUME RefInv, SlotInv, AgeInv, [Next]_vars
  PROVE  AgeInv'
<1> USE DEF RefInv, TypeOK, PcType, LocalType, Threads, Stoppers, Senders, NoOne, At, Go, drmVars, lifeVars, linkVars, slotVars, workVars, localVars, AgeInv, CountType, SlotType, DisplayType, Version, BandSet
<1>1. ASSUME NEW f \in Fbs, AddFb(f) \/ RmFb(f) PROVE AgeInv'
  BY <1>1 DEF AddFb, RmFb, Get, Put
<1>2. ASSUME NEW f \in Fbs, NEW mode \in BOOLEAN, NEW on \in BOOLEAN, Commit(f, mode, on) PROVE AgeInv'
  BY <1>2 DEF Commit, UpdateStage, Fail
<1>3. ASSUME NEW c \in BOOLEAN, CommitOff(c) PROVE AgeInv'
  BY <1>3 DEF CommitOff, Fail
<1>4. ASSUME OpenAgain \/ UNCHANGED vars PROVE AgeInv'
  BY <1>4 DEF OpenAgain, vars
<1>5. ASSUME ToggleAsync PROVE AgeInv'
  BY <1>5 DEF ToggleAsync
<1>6. ASSUME PowerStep PROVE AgeInv'
  BY <1>6 DEF PowerStep, Disconnect, Suspend, Resume
<1>7. ASSUME PipeOff \/ PrepareUpdate PROVE AgeInv'
  BY <1>7 DEF PipeOff, PrepareUpdate, UpdateStage, Fail
<1>8. ASSUME CompleteCommit \/ LastClose PROVE AgeInv'
  BY <1>8 DEF CompleteCommit, LastClose, UnloadEntry
<1>9. ASSUME QueueEnter PROVE AgeInv'
  <2>1. UNCHANGED <<frame, display>>
    BY <1>9 DEF QueueEnter
  <2>2. UNCHANGED pix \/ pix' = [b \in BandSet |-> 0]
    BY <1>9, EnterCases
  <2>3. pc'["commit"] = "copy" => band'["commit"] = 1
    BY <1>9, EnterCases
  <2>4. \A b \in BandSet : pix'[b] \in 0..frame' /\ display'[b] \in 0..frame'
    BY <2>1, <2>2, FlushAssumption, SMTT(30) DEF FlushAssumption
  <2> QED  BY <2>3, <2>4, FlushAssumption DEF FlushAssumption
<1>10. ASSUME CopyBand PROVE AgeInv'
  BY <1>10 DEF CopyBand
<1>11. ASSUME RetainFb PROVE AgeInv'
  BY <1>11 DEF RetainFb
<1>12. ASSUME QueueWork \/ DropOldFb PROVE AgeInv'
  BY <1>12 DEF QueueWork, DropOldFb, Queueable
<1>13. ASSUME NEW t \in Senders, LockLink(t) PROVE AgeInv'
  BY <1>13 DEF LockLink
<1>14. ASSUME NEW t \in Senders, SendBand(t) PROVE AgeInv'
  <2>1. Source(t, band[t]) \in 0..frame /\ band[t] \in BandSet
    BY <1>14, SourceIs, FlushAssumption DEF SendBand, SendFailed, BandSet, FlushAssumption
  <2>2. UNCHANGED <<frame, pix>> /\ (display' = display \/ display' = [display EXCEPT ![band[t]] = Source(t, band[t])])
    BY <1>14 DEF SendBand, SendFailed
  <2>3. \A b \in BandSet : pix'[b] \in 0..frame' /\ display'[b] \in 0..frame'
    BY <2>1, <2>2
  <2>4. pc'["commit"] = "copy" => pc["commit"] = "copy" /\ band'["commit"] = band["commit"]
    BY <1>14 DEF SendBand, SendFailed, AfterSend
  <2> QED  BY <2>2, <2>3, <2>4
<1>15. ASSUME NEW t \in Senders, SendFailed(t) PROVE AgeInv'
  <2>1. Source(t, band[t]) \in 0..frame /\ band[t] \in BandSet
    BY <1>15, SourceIs, FlushAssumption DEF SendBand, SendFailed, BandSet, FlushAssumption
  <2>2. UNCHANGED <<frame, pix>> /\ (display' = display \/ display' = [display EXCEPT ![band[t]] = Source(t, band[t])])
    BY <1>15 DEF SendBand, SendFailed
  <2>3. \A b \in BandSet : pix'[b] \in 0..frame' /\ display'[b] \in 0..frame'
    BY <2>1, <2>2
  <2>4. pc'["commit"] = "copy" => pc["commit"] = "copy" /\ band'["commit"] = band["commit"]
    BY <1>15 DEF SendBand, SendFailed, AfterSend
  <2> QED  BY <2>2, <2>3, <2>4
<1>16. ASSUME NEW t \in Senders, SendRefused(t) \/ SendDone(t) PROVE AgeInv'
  BY <1>16 DEF SendRefused, SendDone, Fail, Unlock, AfterSend
<1>17. ASSUME WorkerStart \/ WorkerUnref PROVE AgeInv'
  BY <1>17 DEF WorkerStart, WorkerUnref
<1>18. ASSUME WorkerTake PROVE AgeInv'
  BY <1>18 DEF WorkerTake, Fail
<1>19. ASSUME NEW t \in Stoppers, FreeShadow(t) PROVE AgeInv'
  <2>1. pix' = [b \in BandSet |-> 0] /\ UNCHANGED <<frame, display, band>>
    BY <1>19 DEF FreeShadow
  <2>2. pc'["commit"] = "copy" => pc["commit"] = "copy" /\ t = "usb"
    BY <1>19 DEF FreeShadow
  <2>3. t = "usb" => pc["commit"] # "copy" \/ damageLock = "commit"
    BY DEF SlotInv
  <2>4. pc'["commit"] # "copy"
    BY <1>19, <2>2, <2>3 DEF FreeShadow
  <2>5. \A b \in BandSet : pix'[b] \in 0..frame' /\ display'[b] \in 0..frame'
    BY <2>1, FlushAssumption DEF FlushAssumption
  <2> QED  BY <2>4, <2>5
<1>20. ASSUME NEW t \in Stoppers, CancelGrab(t) \/ CancelWait(t) PROVE AgeInv'
  BY <1>20 DEF CancelGrab, CancelWait, WorkerDone
<1>21. ASSUME NEW t \in Stoppers, AsyncStop(t) \/ PutTaken(t) \/ FreeDevice(t) PROVE AgeInv'
  BY <1>21 DEF AsyncStop, PutTaken, FreeDevice, LocalRefs, CancelLabels
<1>22. ASSUME Unplug PROVE AgeInv'
  BY <1>22 DEF Unplug, UnloadEntry
<1>23. CASE CommitStep
  BY <1>7, <1>8, <1>9, <1>10, <1>11, <1>12, <1>13, <1>14, <1>15, <1>16, <1>19, <1>20, <1>21, <1>23
  DEF CommitStep, SendStep, CancelStep
<1>24. CASE WorkerStep \/ UsbStep
  BY <1>17, <1>18, <1>13, <1>14, <1>15, <1>16, <1>19, <1>20, <1>21, <1>22, <1>24
  DEF WorkerStep, UsbStep, SendStep, CancelStep
<1>25. CASE UserStep
  BY <1>1, <1>2, <1>3, <1>4, <1>5, <1>25 DEF UserStep
<1> QED
  BY <1>4, <1>6, <1>23, <1>24, <1>25 DEF Next, Gone

\* The two ways exclude each other.
LEMMA NextWay ==
  ASSUME Untoggled, RefInv, SlotInv, WayInv, WakeInv, [Next]_vars
  PROVE  WayInv'
<1> USE DEF RefInv, TypeOK, PcType, LocalType, Threads, Stoppers, Senders, NoOne, At, Go, drmVars, lifeVars, linkVars, slotVars, workVars, localVars, WayInv, LinkType, SlotType
<1>1. ASSUME NEW f \in Fbs, AddFb(f) \/ RmFb(f) PROVE WayInv'
  BY <1>1 DEF AddFb, RmFb, Get, Put
<1>2. ASSUME NEW f \in Fbs, NEW mode \in BOOLEAN, NEW on \in BOOLEAN, Commit(f, mode, on) PROVE WayInv'
  BY <1>2 DEF Commit, UpdateStage, Fail
<1>3. ASSUME NEW c \in BOOLEAN, CommitOff(c) PROVE WayInv'
  BY <1>3 DEF CommitOff, Fail
<1>4. ASSUME OpenAgain \/ UNCHANGED vars PROVE WayInv'
  BY <1>4 DEF OpenAgain, vars
<1>5. ASSUME ToggleAsync PROVE WayInv'
  BY <1>5 DEF ToggleAsync, WakeInv, Untoggled, WorkType
<1>6. ASSUME PowerStep PROVE WayInv'
  BY <1>6 DEF PowerStep, Disconnect, Suspend, Resume
<1>7. ASSUME PipeOff \/ PrepareUpdate PROVE WayInv'
  BY <1>7 DEF PipeOff, PrepareUpdate, UpdateStage, Fail
<1>8. ASSUME CompleteCommit \/ LastClose PROVE WayInv'
  BY <1>8 DEF CompleteCommit, LastClose, UnloadEntry
<1>9. ASSUME QueueEnter PROVE WayInv'
  BY <1>9 DEF QueueEnter, Refuse, Fail
<1>10. ASSUME CopyBand PROVE WayInv'
  BY <1>10 DEF CopyBand
<1>11. ASSUME RetainFb PROVE WayInv'
  BY <1>11 DEF RetainFb
<1>12. ASSUME QueueWork \/ DropOldFb PROVE WayInv'
  BY <1>12 DEF QueueWork, DropOldFb, Queueable
<1>13. ASSUME NEW t \in Senders, LockLink(t) PROVE WayInv'
  BY <1>13 DEF LockLink
<1>14. ASSUME NEW t \in Senders, SendBand(t) PROVE WayInv'
  BY <1>14 DEF SendBand, Source
<1>15. ASSUME NEW t \in Senders, SendFailed(t) PROVE WayInv'
  BY <1>15 DEF SendFailed, Source, Fail, Unlock, AfterSend
<1>16. ASSUME NEW t \in Senders, SendRefused(t) \/ SendDone(t) PROVE WayInv'
  BY <1>16 DEF SendRefused, SendDone, Fail, Unlock, AfterSend
<1>17. ASSUME WorkerStart \/ WorkerUnref PROVE WayInv'
  BY <1>17 DEF WorkerStart, WorkerUnref
<1>18. ASSUME WorkerTake PROVE WayInv'
  BY <1>18 DEF WorkerTake, Fail
<1>19. ASSUME NEW t \in Stoppers, FreeShadow(t) PROVE WayInv'
  BY <1>19 DEF FreeShadow
<1>20. ASSUME NEW t \in Stoppers, CancelGrab(t) \/ CancelWait(t) PROVE WayInv'
  BY <1>20 DEF CancelGrab, CancelWait, WorkerDone
<1>21. ASSUME NEW t \in Stoppers, AsyncStop(t) \/ PutTaken(t) \/ FreeDevice(t) PROVE WayInv'
  BY <1>21 DEF AsyncStop, PutTaken, FreeDevice, LocalRefs, CancelLabels
<1>22. ASSUME Unplug PROVE WayInv'
  BY <1>22 DEF Unplug, UnloadEntry
<1>23. CASE CommitStep
  BY <1>7, <1>8, <1>9, <1>10, <1>11, <1>12, <1>13, <1>14, <1>15, <1>16, <1>19, <1>20, <1>21, <1>23
  DEF CommitStep, SendStep, CancelStep
<1>24. CASE WorkerStep \/ UsbStep
  BY <1>17, <1>18, <1>13, <1>14, <1>15, <1>16, <1>19, <1>20, <1>21, <1>22, <1>24
  DEF WorkerStep, UsbStep, SendStep, CancelStep
<1>25. CASE UserStep
  BY <1>1, <1>2, <1>3, <1>4, <1>5, <1>25 DEF UserStep
<1> QED
  BY <1>4, <1>6, <1>23, <1>24, <1>25 DEF Next, Gone

\* A retained framebuffer is never left without a work item, nor a canceller in charge.
LEMMA NextWake ==
  ASSUME RefInv, SlotInv, WakeInv, [Next]_vars
  PROVE  WakeInv'
<1> USE DEF RefInv, TypeOK, PcType, LocalType, Threads, Stoppers, Senders, NoOne, At, Go, drmVars, lifeVars, linkVars, slotVars, workVars, localVars, WakeInv, SlotInv, LinkType, SlotType, WorkType
<1>1. ASSUME NEW f \in Fbs, AddFb(f) \/ RmFb(f) PROVE WakeInv'
  BY <1>1 DEF AddFb, RmFb, Get, Put
<1>2. ASSUME NEW f \in Fbs, NEW mode \in BOOLEAN, NEW on \in BOOLEAN, Commit(f, mode, on) PROVE WakeInv'
  BY <1>2 DEF Commit, UpdateStage, Fail
<1>3. ASSUME NEW c \in BOOLEAN, CommitOff(c) PROVE WakeInv'
  BY <1>3 DEF CommitOff, Fail
<1>4. ASSUME OpenAgain \/ UNCHANGED vars PROVE WakeInv'
  BY <1>4 DEF OpenAgain, vars
<1>5. ASSUME ToggleAsync PROVE WakeInv'
  BY <1>5 DEF ToggleAsync
<1>6. ASSUME PowerStep PROVE WakeInv'
  BY <1>6 DEF PowerStep, Disconnect, Suspend, Resume
<1>7. ASSUME PipeOff \/ PrepareUpdate PROVE WakeInv'
  BY <1>7 DEF PipeOff, PrepareUpdate, UpdateStage, Fail
<1>8. ASSUME CompleteCommit \/ LastClose PROVE WakeInv'
  BY <1>8 DEF CompleteCommit, LastClose, UnloadEntry
<1>9. ASSUME QueueEnter PROVE WakeInv'
  BY <1>9 DEF QueueEnter, Refuse, Fail
<1>10. ASSUME CopyBand PROVE WakeInv'
  BY <1>10 DEF CopyBand
<1>11. ASSUME RetainFb PROVE WakeInv'
  BY <1>11 DEF RetainFb
<1>12. ASSUME QueueWork \/ DropOldFb PROVE WakeInv'
  BY <1>12 DEF QueueWork, DropOldFb, Queueable
<1>13. ASSUME NEW t \in Senders, LockLink(t) PROVE WakeInv'
  BY <1>13 DEF LockLink
<1>14. ASSUME NEW t \in Senders, SendBand(t) PROVE WakeInv'
  BY <1>14 DEF SendBand, Source
<1>15. ASSUME NEW t \in Senders, SendFailed(t) PROVE WakeInv'
  BY <1>15 DEF SendFailed, Source, Fail, Unlock, AfterSend
<1>16. ASSUME NEW t \in Senders, SendRefused(t) \/ SendDone(t) PROVE WakeInv'
  BY <1>16 DEF SendRefused, SendDone, Fail, Unlock, AfterSend
<1>17. ASSUME WorkerStart \/ WorkerUnref PROVE WakeInv'
  BY <1>17 DEF WorkerStart, WorkerUnref
<1>18. ASSUME WorkerTake PROVE WakeInv'
  BY <1>18 DEF WorkerTake, Fail
<1>19. ASSUME NEW t \in Stoppers, FreeShadow(t) PROVE WakeInv'
  BY <1>19 DEF FreeShadow
<1>20. ASSUME NEW t \in Stoppers, CancelGrab(t) \/ CancelWait(t) PROVE WakeInv'
  BY <1>20 DEF CancelGrab, CancelWait, WorkerDone
<1>21. ASSUME NEW t \in Stoppers, AsyncStop(t) \/ PutTaken(t) \/ FreeDevice(t) PROVE WakeInv'
  BY <1>21 DEF AsyncStop, PutTaken, FreeDevice, LocalRefs, CancelLabels
<1>22. ASSUME Unplug PROVE WakeInv'
  BY <1>22 DEF Unplug, UnloadEntry
<1>23. CASE CommitStep
  BY <1>7, <1>8, <1>9, <1>10, <1>11, <1>12, <1>13, <1>14, <1>15, <1>16, <1>19, <1>20, <1>21, <1>23
  DEF CommitStep, SendStep, CancelStep
<1>24. CASE WorkerStep \/ UsbStep
  BY <1>17, <1>18, <1>13, <1>14, <1>15, <1>16, <1>19, <1>20, <1>21, <1>22, <1>24
  DEF WorkerStep, UsbStep, SendStep, CancelStep
<1>25. CASE UserStep
  BY <1>1, <1>2, <1>3, <1>4, <1>5, <1>25 DEF UserStep
<1> QED
  BY <1>4, <1>6, <1>23, <1>24, <1>25 DEF Next, Gone

\* What is queued or being sent stays at least as new as what is shown.
LEMMA NextOrder ==
  ASSUME RefInv, SlotInv, AgeInv, WayInv, OrderInv, [Next]_vars
  PROVE  OrderInv'
<1> USE DEF RefInv, TypeOK, PcType, LocalType, Threads, Stoppers, Senders, NoOne, At, Go, drmVars, lifeVars, linkVars, slotVars, workVars, localVars, OrderInv, SlotType, DisplayType
<1>1. ASSUME NEW f \in Fbs, AddFb(f) \/ RmFb(f) PROVE OrderInv'
  BY <1>1 DEF AddFb, RmFb, Get, Put
<1>2. ASSUME NEW f \in Fbs, NEW mode \in BOOLEAN, NEW on \in BOOLEAN, Commit(f, mode, on) PROVE OrderInv'
  BY <1>2 DEF Commit, UpdateStage, Fail
<1>3. ASSUME NEW c \in BOOLEAN, CommitOff(c) PROVE OrderInv'
  BY <1>3 DEF CommitOff, Fail
<1>4. ASSUME OpenAgain \/ UNCHANGED vars PROVE OrderInv'
  BY <1>4 DEF OpenAgain, vars
<1>5. ASSUME ToggleAsync PROVE OrderInv'
  BY <1>5 DEF ToggleAsync
<1>6. ASSUME PowerStep PROVE OrderInv'
  BY <1>6 DEF PowerStep, Disconnect, Suspend, Resume
<1>7. ASSUME PipeOff \/ PrepareUpdate PROVE OrderInv'
  BY <1>7 DEF PipeOff, PrepareUpdate, UpdateStage, Fail
<1>8. ASSUME CompleteCommit \/ LastClose PROVE OrderInv'
  BY <1>8 DEF CompleteCommit, LastClose, UnloadEntry
<1>9. ASSUME QueueEnter PROVE OrderInv'
  <2>1. UNCHANGED <<display, asyncFb, disconnected>> /\ pc'["worker"] = pc["worker"]
    BY <1>9 DEF QueueEnter, Refuse
  <2>2. UNCHANGED pix \/ shadow = 0
    BY <1>9, EnterCases
  <2>3. shadow = 0 => asyncFb = NoFb /\ (pc["worker"] \in {"lock", "send"} => disconnected)
    BY DEF SlotInv
  <2> QED  BY <2>1, <2>2, <2>3
<1>10. ASSUME CopyBand PROVE OrderInv'
  <2>1. UNCHANGED <<display, asyncFb, disconnected, pc>> /\ pix' = [pix EXCEPT ![band["commit"]] = frame]
    BY <1>10 DEF CopyBand
  <2>2. \A b \in BandSet : display[b] <= frame
    BY FlushAssumption DEF AgeInv, CountType, Version, FlushAssumption
  <2> QED  BY <2>1, <2>2
<1>11. ASSUME RetainFb PROVE OrderInv'
  <2>1. UNCHANGED <<display, pix>> /\ pc["commit"] = "copy" /\ band["commit"] = Bands + 1
    BY <1>11 DEF RetainFb
  <2>2. \A b \in BandSet : pix[b] = frame /\ display[b] <= frame
    BY <2>1, FlushAssumption DEF AgeInv, CountType, Version, BandSet, FlushAssumption
  <2>3. frame \in Nat
    BY FlushAssumption DEF CountType, Version, FlushAssumption
  <2> QED  BY <2>1, <2>2, <2>3
<1>12. ASSUME QueueWork \/ DropOldFb PROVE OrderInv'
  BY <1>12 DEF QueueWork, DropOldFb, Queueable
<1>13. ASSUME NEW t \in Senders, LockLink(t) PROVE OrderInv'
  BY <1>13 DEF LockLink
<1>14. ASSUME NEW t \in Senders, SendBand(t) PROVE OrderInv'
  <2>1. Source(t, band[t]) = (IF t = "commit" THEN frame ELSE pix[band[t]]) /\ band[t] \in BandSet
    BY <1>14, SourceIs, FlushAssumption DEF SendBand, SendFailed, BandSet, FlushAssumption
  <2>2. UNCHANGED <<pix, asyncFb, disconnected>>
        /\ (display' = display \/ display' = [display EXCEPT ![band[t]] = Source(t, band[t])])
    BY <1>14 DEF SendBand, SendFailed
  <2>3. pc'["worker"] \in {"lock", "send"} => pc'["worker"] = pc["worker"]
    BY <1>14 DEF SendBand, SendFailed, AfterSend
  <2>4. CASE t = "commit"
    BY <1>14, <2>2, <2>3, <2>4 DEF WayInv, SendBand, SendFailed
  <2>5. CASE t = "worker"
    <3>1. \A b \in BandSet : pix[b] <= pix[b]
      BY DEF AgeInv
    <3>2. ~disconnected => \A b \in BandSet : display[b] <= pix[b]
      BY <1>14, <2>5 DEF SendBand, SendFailed
    <3> QED  BY <2>1, <2>2, <2>5, <3>1, <3>2
  <2> QED  BY <2>4, <2>5
<1>15. ASSUME NEW t \in Senders, SendFailed(t) PROVE OrderInv'
  <2>1. Source(t, band[t]) = (IF t = "commit" THEN frame ELSE pix[band[t]]) /\ band[t] \in BandSet
    BY <1>15, SourceIs, FlushAssumption DEF SendBand, SendFailed, BandSet, FlushAssumption
  <2>2. UNCHANGED <<pix, asyncFb, disconnected>>
        /\ (display' = display \/ display' = [display EXCEPT ![band[t]] = Source(t, band[t])])
    BY <1>15 DEF SendBand, SendFailed
  <2>3. pc'["worker"] \in {"lock", "send"} => pc'["worker"] = pc["worker"]
    BY <1>15 DEF SendBand, SendFailed, AfterSend
  <2>4. CASE t = "commit"
    BY <1>15, <2>2, <2>3, <2>4 DEF WayInv, SendBand, SendFailed
  <2>5. CASE t = "worker"
    <3>1. \A b \in BandSet : pix[b] <= pix[b]
      BY DEF AgeInv
    <3>2. ~disconnected => \A b \in BandSet : display[b] <= pix[b]
      BY <1>15, <2>5 DEF SendBand, SendFailed
    <3> QED  BY <2>1, <2>2, <2>5, <3>1, <3>2
  <2> QED  BY <2>4, <2>5
<1>16. ASSUME NEW t \in Senders, SendRefused(t) \/ SendDone(t) PROVE OrderInv'
  BY <1>16 DEF SendRefused, SendDone, Fail, Unlock, AfterSend
<1>17. ASSUME WorkerStart \/ WorkerUnref PROVE OrderInv'
  BY <1>17 DEF WorkerStart, WorkerUnref
<1>18. ASSUME WorkerTake PROVE OrderInv'
  BY <1>18 DEF WorkerTake, Fail
<1>19. ASSUME NEW t \in Stoppers, FreeShadow(t) PROVE OrderInv'
  <2>1. asyncFb' = NoFb /\ UNCHANGED <<display, disconnected>> /\ pc'["worker"] = pc["worker"]
    BY <1>19 DEF FreeShadow
  <2>2. t = "usb" => disconnected
    BY <1>19 DEF FreeShadow, SlotInv
  <2>3. t = "commit" => pc["worker"] = "idle"
    BY <1>19 DEF FreeShadow, SlotInv
  <2> QED  BY <2>1, <2>2, <2>3
<1>20. ASSUME NEW t \in Stoppers, CancelGrab(t) \/ CancelWait(t) PROVE OrderInv'
  BY <1>20 DEF CancelGrab, CancelWait, WorkerDone
<1>21. ASSUME NEW t \in Stoppers, AsyncStop(t) \/ PutTaken(t) \/ FreeDevice(t) PROVE OrderInv'
  BY <1>21 DEF AsyncStop, PutTaken, FreeDevice, LocalRefs, CancelLabels
<1>22. ASSUME Unplug PROVE OrderInv'
  BY <1>22 DEF Unplug, UnloadEntry
<1>23. CASE CommitStep
  BY <1>7, <1>8, <1>9, <1>10, <1>11, <1>12, <1>13, <1>14, <1>15, <1>16, <1>19, <1>20, <1>21, <1>23
  DEF CommitStep, SendStep, CancelStep
<1>24. CASE WorkerStep \/ UsbStep
  BY <1>17, <1>18, <1>13, <1>14, <1>15, <1>16, <1>19, <1>20, <1>21, <1>22, <1>24
  DEF WorkerStep, UsbStep, SendStep, CancelStep
<1>25. CASE UserStep
  BY <1>1, <1>2, <1>3, <1>4, <1>5, <1>25 DEF UserStep
<1> QED
  BY <1>4, <1>6, <1>23, <1>24, <1>25 DEF Next, Gone

\* A commit that has done its part leaves its frame behind it.
LEMMA NextNewest ==
  ASSUME RefInv, SlotInv, AgeInv, WayInv, WakeInv, OrderInv, NewestInv, [Next]_vars
  PROVE  NewestInv'
<1> USE DEF RefInv, TypeOK, PcType, LocalType, Threads, Stoppers, Senders, NoOne, At, Go, drmVars, lifeVars, linkVars, slotVars, workVars, localVars, NewestInv, OnItsWay, Copied, Delivered, Sent, SlotType
<1>1. ASSUME NEW f \in Fbs, AddFb(f) \/ RmFb(f) PROVE NewestInv'
  BY <1>1 DEF AddFb, RmFb, Get, Put
<1>2. ASSUME NEW f \in Fbs, NEW mode \in BOOLEAN, NEW on \in BOOLEAN, Commit(f, mode, on) PROVE NewestInv'
  BY <1>2 DEF Commit, UpdateStage, Fail
<1>3. ASSUME NEW c \in BOOLEAN, CommitOff(c) PROVE NewestInv'
  BY <1>3 DEF CommitOff, Fail
<1>4. ASSUME OpenAgain \/ UNCHANGED vars PROVE NewestInv'
  BY <1>4 DEF OpenAgain, vars
<1>5. ASSUME ToggleAsync PROVE NewestInv'
  BY <1>5 DEF ToggleAsync
<1>6. ASSUME PowerStep PROVE NewestInv'
  BY <1>6 DEF PowerStep, Disconnect, Suspend, Resume
<1>7. ASSUME PipeOff \/ PrepareUpdate PROVE NewestInv'
  BY <1>7 DEF PipeOff, PrepareUpdate, UpdateStage, Fail
<1>8. ASSUME CompleteCommit \/ LastClose PROVE NewestInv'
  BY <1>8 DEF CompleteCommit, LastClose, UnloadEntry
<1>9. ASSUME QueueEnter PROVE NewestInv'
  <2>1. pc' = [pc EXCEPT !["commit"] = "copy"] \/ (pc' = [pc EXCEPT !["commit"] = "complete"] /\ ret'["commit"] # "ok")
    BY <1>9, EnterCases
  <2> QED  BY <2>1
<1>10. ASSUME CopyBand PROVE NewestInv'
  BY <1>10 DEF CopyBand
<1>11. ASSUME RetainFb PROVE NewestInv'
  <2>1. \A b \in BandSet : pix[b] = frame
    BY <1>11, FlushAssumption DEF RetainFb, AgeInv, BandSet, FlushAssumption
  <2>2. UNCHANGED <<frame, pix>> /\ asyncFb' # NoFb /\ pc' = [pc EXCEPT !["commit"] = "queue"]
    BY <1>11 DEF RetainFb, LocalRefs, UpdateLabels
  <2> QED  BY <2>1, <2>2
<1>12. ASSUME QueueWork \/ DropOldFb PROVE NewestInv'
  BY <1>12 DEF QueueWork, DropOldFb, Queueable
<1>13. ASSUME NEW t \in Senders, LockLink(t) PROVE NewestInv'
  <2>1. pc' = [pc EXCEPT ![t] = "send"] /\ band' = [band EXCEPT ![t] = 1] /\ pc[t] = "lock"
        /\ UNCHANGED <<frame, display, pix, ret, planeFb, asyncFb, disconnected>>
    BY <1>13 DEF LockLink
  <2>2. \A b \in BandSet : ~(b < 1)
    BY FlushAssumption DEF BandSet, FlushAssumption
  <2> QED  BY <2>1, <2>2
<1>14. ASSUME NEW t \in Senders, SendBand(t) PROVE NewestInv'
  <2>1. pc[t] = "send" /\ ~disconnected /\ band[t] \in BandSet
    BY <1>14, FlushAssumption DEF SendBand, BandSet, FlushAssumption
  <2>2. band' = [band EXCEPT ![t] = band[t] + 1]
        /\ UNCHANGED <<frame, pc, pix, ret, planeFb, asyncFb, disconnected>>
    BY <1>14 DEF SendBand
  <2>3. Source(t, band[t]) = IF t = "commit" THEN frame ELSE pix[band[t]]
    BY <2>1, SourceIs
  <2>4. display' = [display EXCEPT ![band[t]] = IF t = "commit" THEN frame ELSE pix[band[t]]]
    BY <1>14, <2>3 DEF SendBand
  <2>5. \A b \in BandSet : b < band[t] + 1 => b < band[t] \/ b = band[t]
    BY <2>1, FlushAssumption DEF BandSet, FlushAssumption
  <2>6. CASE t = "commit"
    <3>1. Sent("commit")
      BY <2>1, <2>6
    <3>2. ASSUME NEW b \in BandSet, b < band["commit"] + 1 PROVE display'[b] = frame
      BY <2>1, <2>4, <2>5, <2>6, <3>1, <3>2 DEF DisplayType
    <3>3. band'["commit"] = band["commit"] + 1
      BY <2>2, <2>6
    <3>4. Sent("commit")'
      BY <2>2, <3>2, <3>3
    <3> QED  BY <2>1, <2>2, <2>6, <3>4
  <2>7. CASE t = "worker"
    <3>1. pc["commit"] # "send"
      BY <2>1, <2>7 DEF WayInv
    <3>2. \A b \in BandSet : display[b] <= pix[b] /\ pix[b] \in 0..frame
      BY <2>1, <2>7 DEF OrderInv, AgeInv
    <3>3. ASSUME Delivered PROVE Delivered'
      <4>1. pix[band["worker"]] = frame
        BY <2>1, <2>7, <3>2, <3>3, FlushAssumption DEF CountType, Version, FlushAssumption
      <4> QED  BY <2>2, <2>4, <2>7, <3>3, <4>1 DEF DisplayType
    <3>4. ASSUME Copied, Sent("worker") PROVE Copied' /\ Sent("worker")'
      <4>1. ASSUME NEW b \in BandSet, b < band["worker"] + 1 PROVE display'[b] = frame
        BY <2>1, <2>4, <2>5, <2>7, <3>4, <4>1 DEF DisplayType
      <4>2. band'["worker"] = band["worker"] + 1
        BY <2>2, <2>7
      <4> QED  BY <2>2, <3>4, <4>1, <4>2
    <3>5. OnItsWay => OnItsWay'
      BY <2>1, <2>2, <2>7, <3>3, <3>4
    <3> QED  BY <2>2, <2>7, <3>1, <3>5
  <2> QED  BY <2>6, <2>7
<1>15. ASSUME NEW t \in Senders, SendFailed(t) PROVE NewestInv'
  <2>1. ret' = [ret EXCEPT ![t] = "EIO"] /\ pc[t] = "send" /\ ~disconnected
        /\ pc' = [pc EXCEPT ![t] = IF t = "worker" THEN "unref" ELSE "complete"]
        /\ UNCHANGED <<frame, pix, planeFb, asyncFb, disconnected, band>>
    BY <1>15 DEF SendFailed, Fail, AfterSend
  <2>2. CASE t = "commit"
    BY <2>1, <2>2
  <2>3. CASE t = "worker"
    <3>1. pc["commit"] # "send"
      BY <2>1, <2>3 DEF WayInv
    <3>2. OnItsWay'
      BY <2>1, <2>3
    <3>3. pix' = pix /\ frame' = frame
      BY <2>1
    <3> QED  BY <2>1, <2>3, <3>1, <3>2, <3>3
  <2> QED  BY <2>2, <2>3
<1>16. ASSUME NEW t \in Senders, SendRefused(t) \/ SendDone(t) PROVE NewestInv'
  <2>1. pc[t] = "send" /\ pc' = [pc EXCEPT ![t] = IF t = "worker" THEN "unref" ELSE "complete"]
        /\ UNCHANGED <<frame, pix, display, planeFb, asyncFb, disconnected, band>>
    BY <1>16 DEF SendRefused, SendDone, AfterSend
  <2>2. CASE SendRefused(t)
    <3>1. ret' = [ret EXCEPT ![t] = IF disconnected THEN "ENODEV" ELSE "EHOSTUNREACH"]
      BY <2>2 DEF SendRefused, Fail
    <3> QED  BY <2>1, <3>1 DEF WayInv
  <2>3. CASE SendDone(t)
    <3>1. ret' = ret /\ band[t] = Bands + 1
      BY <2>3 DEF SendDone
    <3>2. Sent(t) => Delivered
      BY <3>1, FlushAssumption DEF BandSet, FlushAssumption
    <3> QED  BY <2>1, <3>1, <3>2 DEF WayInv
  <2> QED  BY <1>16, <2>2, <2>3
<1>17. ASSUME WorkerStart \/ WorkerUnref PROVE NewestInv'
  BY <1>17 DEF WorkerStart, WorkerUnref
<1>18. ASSUME WorkerTake PROVE NewestInv'
  BY <1>18 DEF WorkerTake, Fail
<1>19. ASSUME NEW t \in Stoppers, FreeShadow(t) PROVE NewestInv'
  <2>1. pc' = [pc EXCEPT ![t] = "put"] /\ UNCHANGED <<frame, display, ret, band, planeFb, disconnected>>
    BY <1>19 DEF FreeShadow
  <2>2. t = "usb" => disconnected
    BY <1>19 DEF FreeShadow, SlotInv
  <2>3. CASE t = "commit"
    BY <2>1, <2>3
  <2>4. CASE t = "usb"
    BY <2>1, <2>2, <2>4 DEF WayInv
  <2> QED  BY <2>3, <2>4
<1>20. ASSUME NEW t \in Stoppers, CancelGrab(t) \/ CancelWait(t) PROVE NewestInv'
  BY <1>20 DEF CancelGrab, CancelWait, WorkerDone
<1>21. ASSUME NEW t \in Stoppers, AsyncStop(t) \/ PutTaken(t) \/ FreeDevice(t) PROVE NewestInv'
  BY <1>21 DEF AsyncStop, PutTaken, FreeDevice, LocalRefs, CancelLabels
<1>22. ASSUME Unplug PROVE NewestInv'
  BY <1>22 DEF Unplug, UnloadEntry
<1>23. CASE CommitStep
  BY <1>7, <1>8, <1>9, <1>10, <1>11, <1>12, <1>13, <1>14, <1>15, <1>16, <1>19, <1>20, <1>21, <1>23
  DEF CommitStep, SendStep, CancelStep
<1>24. CASE WorkerStep \/ UsbStep
  BY <1>17, <1>18, <1>13, <1>14, <1>15, <1>16, <1>19, <1>20, <1>21, <1>22, <1>24
  DEF WorkerStep, UsbStep, SendStep, CancelStep
<1>25. CASE UserStep
  BY <1>1, <1>2, <1>3, <1>4, <1>5, <1>25 DEF UserStep
<1> QED
  BY <1>4, <1>6, <1>23, <1>24, <1>25 DEF Next, Gone

\* The shadow buffer's invariant, in every state.
LEMMA SlotAlways == Spec => []SlotInv
<1>1. Init => SlotInv
  BY DEF Init, SlotInv, Threads, NoOne
<1> QED
  BY <1>1, RefInvariant, NextSlot, PTL DEF Spec

\* Initially nothing is shown and nothing is on its way.
LEMMA MailInit == Init => MailInv
<1> SUFFICES ASSUME Init PROVE MailInv
  OBVIOUS
<1>1. AgeInv
  BY FlushAssumption DEF Init, AgeInv, Threads, FlushAssumption
<1>2. WayInv /\ WakeInv /\ OrderInv /\ NewestInv
  BY DEF Init, WayInv, WakeInv, OrderInv, NewestInv, Threads, NoOne
<1> QED  BY <1>1, <1>2 DEF MailInv

\* The mailbox's invariant, in every state.
LEMMA MailAlways ==
  ASSUME Untoggled
  PROVE  Spec => []MailInv
<1>1. RefInv /\ SlotInv /\ MailInv /\ [Next]_vars => MailInv'
  BY NextAge, NextWay, NextWake, NextOrder, NextNewest DEF MailInv
<1> QED
  BY <1>1, MailInit, RefInvariant, SlotAlways, PTL DEF Spec

\* A rectangle that is sent, or fails on its way, changes one band, to a
\* version between the one shown and the newest.
LEMMA SendRefines ==
  ASSUME RefInv, SlotInv, MailInv, NEW t \in Senders, SendBand(t) \/ SendFailed(t)
  PROVE  [Mailbox!Next]_<<frame, display>>
<1>1. /\ At(t, "send") /\ ~disconnected /\ frame' = frame
      /\ UNCHANGED display \/ display' = [display EXCEPT ![band[t]] = Source(t, band[t])]
  BY DEF SendBand, SendFailed
<1>2. band[t] \in BandSet
  BY FlushAssumption
  DEF SendBand, SendFailed, RefInv, TypeOK, LocalType, BandSet, FlushAssumption
<1>3. Source(t, band[t]) = IF t = "commit" THEN frame ELSE pix[band[t]]
  BY <1>1, SourceIs
<1>4. pix[band[t]] \in 0..frame /\ display[band[t]] \in 0..frame /\ frame \in Nat
  BY <1>2, FlushAssumption
  DEF MailInv, AgeInv, RefInv, TypeOK, CountType, Version, FlushAssumption
<1>5. t = "worker" => display[band[t]] <= pix[band[t]]
  BY <1>1, <1>2 DEF MailInv, OrderInv, At
<1>6. Source(t, band[t]) \in display[band[t]]..frame
  BY <1>3, <1>4, <1>5 DEF Senders
<1>7. CASE display' = [display EXCEPT ![band[t]] = Source(t, band[t])]
  <2>1. Mailbox!Refresh(band[t])
    BY <1>1, <1>6, <1>7 DEF Mailbox!Refresh
  <2> QED  BY <1>2, <2>1 DEF Mailbox!Next, Mailbox!BandSet, BandSet
<1> QED  BY <1>1, <1>7

\* Every step of the frame path is a step of the mailbox, or none.
LEMMA StepRefines ==
  ASSUME RefInv, SlotInv, MailInv, [Next]_vars
  PROVE  [Mailbox!Next]_<<frame, display>>
<1> USE DEF drmVars, localVars
<1>1. ASSUME NEW f \in Fbs, NEW mode \in BOOLEAN, NEW on \in BOOLEAN, Commit(f, mode, on)
      PROVE  Mailbox!Next
  BY <1>1 DEF Commit, Mailbox!Next, Mailbox!Submit
<1>2. CASE UserStep
  BY <1>1, <1>2 DEF UserStep, AddFb, RmFb, CommitOff, OpenAgain, ToggleAsync
<1>3. CASE PowerStep \/ UNCHANGED vars
  BY <1>3 DEF PowerStep, Disconnect, Suspend, Resume, vars
<1>4. ASSUME NEW t \in Senders, SendStep(t) PROVE [Mailbox!Next]_<<frame, display>>
  BY <1>4, SendRefines DEF SendStep, LockLink, SendRefused, SendDone
<1>5. ASSUME NEW t \in Stoppers, CancelStep(t) PROVE UNCHANGED <<frame, display>>
  BY <1>5 DEF CancelStep, AsyncStop, CancelGrab, CancelWait, FreeShadow, PutTaken,
              FreeDevice
<1>6. CASE CommitStep
  <2>1. CASE SendStep("commit") \/ CancelStep("commit")
    BY <1>4, <1>5, <2>1 DEF Senders, Stoppers
  <2>2. CASE PipeOff \/ PrepareUpdate \/ CompleteCommit \/ LastClose
    BY <2>2 DEF PipeOff, PrepareUpdate, CompleteCommit, LastClose
  <2>3. CASE QueueEnter \/ CopyBand \/ RetainFb \/ QueueWork \/ DropOldFb
    BY <2>3 DEF QueueEnter, CopyBand, RetainFb, QueueWork, DropOldFb
  <2> QED  BY <1>6, <2>1, <2>2, <2>3 DEF CommitStep
<1>7. CASE WorkerStep \/ UsbStep
  BY <1>4, <1>5, <1>7
  DEF WorkerStep, UsbStep, WorkerStart, WorkerTake, WorkerUnref, Unplug, Senders, Stoppers
<1> QED
  BY <1>2, <1>3, <1>6, <1>7 DEF Next, Gone

\* The frame path, seen by what it shows, is a mailbox: whatever the worker,
\* the shadow buffer and its tearing copies, failed transfers, cancelled work
\* and disconnects do, no band of the display ever goes back to an older frame
\* (gud_pipe_update, gud_fb_queue_damage, gud_flush_work).
THEOREM ImplementsMailbox ==
  ASSUME Untoggled
  PROVE  Spec => MailboxSpec
<1>1. Init => Mailbox!Init
  BY DEF Init, Mailbox!Init, Mailbox!BandSet, BandSet
<1> QED
  BY <1>1, StepRefines, RefInvariant, SlotAlways, MailAlways, PTL
  DEF Spec, MailboxSpec, Mailbox!Spec

\* No wakeup is lost and no old frame is left behind: when nothing runs and
\* nothing has failed, every band shows the last commit.
THEOREM RestShowsNewest ==
  ASSUME Untoggled
  PROVE  Spec => []NewestAtRest
<1>1. WakeInv /\ NewestInv => NewestAtRest
  BY DEF WakeInv, NewestInv, OnItsWay, Delivered, NewestAtRest, AtRest, At
<1> QED
  BY <1>1, MailAlways, PTL DEF MailInv

-----------------------------------------------------------------------------
(* Unload.                                                                  *)

Unloading(t) ==
  \/ pc[t] = "kfree"
  \/ pc[t] \in CancelLabels /\ then[t] = "kfree"

\* Who may still be inside the driver.
OwnerInv ==
  /\ closing => pc["commit"] # "idle" /\ planeFb = NoFb
  /\ pc["commit"] = "close" => closing
  /\ ~open => /\ ~closing /\ fbs = {} /\ planeFb = NoFb /\ prevFb = NoFb
              /\ pc["commit"] \in {"idle", "done"} \/ Unloading("commit")
  /\ unplugged => pc["usb"] = "done" \/ Unloading("usb")
  /\ ~unplugged => pc["usb"] # "done" /\ pc["commit"] # "done"
  /\ \A t \in Stoppers : Unloading(t) => /\ unplugged /\ ~open
                                         /\ \A u \in Stoppers \ {t} : pc[u] \in {"idle", "done"}

\* What the thread that unloads has stopped and freed so far.
StageInv ==
  /\ \A t \in Stoppers : Unloading(t) =>
       /\ pc[t] \in {"wait", "free", "put", "kfree"} => ~pending
       /\ pc[t] \in {"free", "put", "kfree"} => pc["worker"] = "idle"
       /\ pc[t] \in {"put", "kfree"} => asyncFb = NoFb /\ shadow = 0
  /\ freed => /\ ~open /\ unplugged /\ pc["worker"] = "idle" /\ ~pending
              /\ \A t \in Stoppers : pc[t] \in {"idle", "done"}
              /\ asyncFb = NoFb /\ shadow = 0

UnloadInv == OwnerInv /\ StageInv

\* Who unloads is the last inside the driver.
LEMMA NextOwner ==
  ASSUME RefInv, SlotInv, OwnerInv, [Next]_vars
  PROVE  OwnerInv'
<1> USE DEF RefInv, TypeOK, PcType, LocalType, Threads, Stoppers, Senders, NoOne, At, Go, drmVars, lifeVars, linkVars, slotVars, workVars, localVars, OwnerInv, Unloading, LocalRefs, CancelLabels, LifeType, DrmType
<1>1. ASSUME NEW f \in Fbs, AddFb(f) \/ RmFb(f) PROVE OwnerInv'
  BY <1>1 DEF AddFb, RmFb, Get, Put
<1>2. ASSUME NEW f \in Fbs, NEW mode \in BOOLEAN, NEW on \in BOOLEAN, Commit(f, mode, on) PROVE OwnerInv'
  BY <1>2 DEF Commit, UpdateStage, Fail
<1>3. ASSUME NEW c \in BOOLEAN, CommitOff(c) PROVE OwnerInv'
  BY <1>3 DEF CommitOff, Fail
<1>4. ASSUME OpenAgain \/ UNCHANGED vars PROVE OwnerInv'
  BY <1>4 DEF OpenAgain, vars
<1>5. ASSUME ToggleAsync PROVE OwnerInv'
  BY <1>5 DEF ToggleAsync
<1>6. ASSUME PowerStep PROVE OwnerInv'
  BY <1>6 DEF PowerStep, Disconnect, Suspend, Resume
<1>7. ASSUME PipeOff \/ PrepareUpdate PROVE OwnerInv'
  BY <1>7 DEF PipeOff, PrepareUpdate, UpdateStage, Fail
<1>8. ASSUME CompleteCommit \/ LastClose PROVE OwnerInv'
  BY <1>8 DEF CompleteCommit, LastClose, UnloadEntry
<1>9. ASSUME QueueEnter PROVE OwnerInv'
  BY <1>9 DEF QueueEnter, Refuse, Fail
<1>10. ASSUME CopyBand PROVE OwnerInv'
  BY <1>10 DEF CopyBand
<1>11. ASSUME RetainFb PROVE OwnerInv'
  BY <1>11 DEF RetainFb
<1>12. ASSUME QueueWork \/ DropOldFb PROVE OwnerInv'
  BY <1>12 DEF QueueWork, DropOldFb, Queueable
<1>13. ASSUME NEW t \in Senders, LockLink(t) PROVE OwnerInv'
  BY <1>13 DEF LockLink
<1>14. ASSUME NEW t \in Senders, SendBand(t) PROVE OwnerInv'
  BY <1>14 DEF SendBand, Source
<1>15. ASSUME NEW t \in Senders, SendFailed(t) PROVE OwnerInv'
  BY <1>15 DEF SendFailed, Source, Fail, Unlock, AfterSend
<1>16. ASSUME NEW t \in Senders, SendRefused(t) \/ SendDone(t) PROVE OwnerInv'
  BY <1>16 DEF SendRefused, SendDone, Fail, Unlock, AfterSend
<1>17. ASSUME WorkerStart \/ WorkerUnref PROVE OwnerInv'
  BY <1>17 DEF WorkerStart, WorkerUnref
<1>18. ASSUME WorkerTake PROVE OwnerInv'
  BY <1>18 DEF WorkerTake, Fail
<1>19. ASSUME NEW t \in Stoppers, FreeShadow(t) PROVE OwnerInv'
  BY <1>19 DEF FreeShadow
<1>20. ASSUME NEW t \in Stoppers, CancelGrab(t) \/ CancelWait(t) PROVE OwnerInv'
  BY <1>20 DEF CancelGrab, CancelWait, WorkerDone
<1>21. ASSUME NEW t \in Stoppers, AsyncStop(t) \/ PutTaken(t) \/ FreeDevice(t) PROVE OwnerInv'
  BY <1>21 DEF AsyncStop, PutTaken, FreeDevice
<1>22. ASSUME Unplug PROVE OwnerInv'
  BY <1>22 DEF Unplug, UnloadEntry
<1>23. CASE CommitStep
  BY <1>7, <1>8, <1>9, <1>10, <1>11, <1>12, <1>13, <1>14, <1>15, <1>16, <1>19, <1>20, <1>21, <1>23
  DEF CommitStep, SendStep, CancelStep
<1>24. CASE WorkerStep \/ UsbStep
  BY <1>17, <1>18, <1>13, <1>14, <1>15, <1>16, <1>19, <1>20, <1>21, <1>22, <1>24
  DEF WorkerStep, UsbStep, SendStep, CancelStep
<1>25. CASE UserStep
  BY <1>1, <1>2, <1>3, <1>4, <1>5, <1>25 DEF UserStep
<1> QED
  BY <1>4, <1>6, <1>23, <1>24, <1>25 DEF Next, Gone

\* What unload has stopped stays stopped.
LEMMA NextStage ==
  ASSUME RefInv, SlotInv, OwnerInv, StageInv, [Next]_vars
  PROVE  StageInv'
<1> USE DEF RefInv, TypeOK, PcType, LocalType, Threads, Stoppers, Senders, NoOne, At, Go, drmVars, lifeVars, linkVars, slotVars, workVars, localVars, StageInv, Unloading, LocalRefs, CancelLabels
<1>1. ASSUME NEW f \in Fbs, AddFb(f) \/ RmFb(f) PROVE StageInv'
  BY <1>1 DEF AddFb, RmFb, Get, Put
<1>2. ASSUME NEW f \in Fbs, NEW mode \in BOOLEAN, NEW on \in BOOLEAN, Commit(f, mode, on) PROVE StageInv'
  BY <1>2 DEF Commit, UpdateStage, Fail
<1>3. ASSUME NEW c \in BOOLEAN, CommitOff(c) PROVE StageInv'
  BY <1>3 DEF CommitOff, Fail
<1>4. ASSUME OpenAgain \/ UNCHANGED vars PROVE StageInv'
  BY <1>4 DEF OpenAgain, vars
<1>5. ASSUME ToggleAsync PROVE StageInv'
  BY <1>5 DEF ToggleAsync
<1>6. ASSUME PowerStep PROVE StageInv'
  BY <1>6 DEF PowerStep, Disconnect, Suspend, Resume, OwnerInv
<1>7. ASSUME PipeOff \/ PrepareUpdate PROVE StageInv'
  BY <1>7 DEF PipeOff, PrepareUpdate, UpdateStage, Fail
<1>8. ASSUME CompleteCommit \/ LastClose PROVE StageInv'
  BY <1>8 DEF CompleteCommit, LastClose, UnloadEntry
<1>9. ASSUME QueueEnter PROVE StageInv'
  BY <1>9 DEF QueueEnter, Refuse, Fail, OwnerInv
<1>10. ASSUME CopyBand PROVE StageInv'
  BY <1>10 DEF CopyBand
<1>11. ASSUME RetainFb PROVE StageInv'
  BY <1>11 DEF RetainFb, OwnerInv
<1>12. ASSUME QueueWork \/ DropOldFb PROVE StageInv'
  BY <1>12 DEF QueueWork, DropOldFb, Queueable, OwnerInv
<1>13. ASSUME NEW t \in Senders, LockLink(t) PROVE StageInv'
  BY <1>13 DEF LockLink
<1>14. ASSUME NEW t \in Senders, SendBand(t) PROVE StageInv'
  BY <1>14 DEF SendBand, Source
<1>15. ASSUME NEW t \in Senders, SendFailed(t) PROVE StageInv'
  BY <1>15 DEF SendFailed, Source, Fail, Unlock, AfterSend
<1>16. ASSUME NEW t \in Senders, SendRefused(t) \/ SendDone(t) PROVE StageInv'
  BY <1>16 DEF SendRefused, SendDone, Fail, Unlock, AfterSend
<1>17. ASSUME WorkerStart \/ WorkerUnref PROVE StageInv'
  BY <1>17 DEF WorkerStart, WorkerUnref
<1>18. ASSUME WorkerTake PROVE StageInv'
  BY <1>18 DEF WorkerTake, Fail
<1>19. ASSUME NEW t \in Stoppers, FreeShadow(t) PROVE StageInv'
  BY <1>19 DEF FreeShadow
<1>20. ASSUME NEW t \in Stoppers, CancelGrab(t) \/ CancelWait(t) PROVE StageInv'
  BY <1>20 DEF CancelGrab, CancelWait, WorkerDone
<1>21. ASSUME NEW t \in Stoppers, AsyncStop(t) \/ PutTaken(t) \/ FreeDevice(t) PROVE StageInv'
  BY <1>21 DEF AsyncStop, PutTaken, FreeDevice, OwnerInv
<1>22. ASSUME Unplug PROVE StageInv'
  BY <1>22 DEF Unplug, UnloadEntry
<1>23. CASE CommitStep
  BY <1>7, <1>8, <1>9, <1>10, <1>11, <1>12, <1>13, <1>14, <1>15, <1>16, <1>19, <1>20, <1>21, <1>23
  DEF CommitStep, SendStep, CancelStep
<1>24. CASE WorkerStep \/ UsbStep
  BY <1>17, <1>18, <1>13, <1>14, <1>15, <1>16, <1>19, <1>20, <1>21, <1>22, <1>24
  DEF WorkerStep, UsbStep, SendStep, CancelStep
<1>25. CASE UserStep
  BY <1>1, <1>2, <1>3, <1>4, <1>5, <1>25 DEF UserStep
<1> QED
  BY <1>4, <1>6, <1>23, <1>24, <1>25 DEF Next, Gone

\* gud_drm_unload, from the hub thread or from the last close, is the last to
\* use the device: the work item rests, both stoppers are out, and no reference
\* to a framebuffer is left.
THEOREM DeviceIsFreedLast == Spec => []UnloadIsLast
<1>1. Init => UnloadInv
  BY DEF Init, UnloadInv, OwnerInv, StageInv, Unloading, CancelLabels, Threads,
         Stoppers
<1>2. RefInv /\ SlotInv /\ UnloadInv /\ [Next]_vars => UnloadInv'
  BY NextOwner, NextStage DEF UnloadInv
<1>3. RefInv /\ UnloadInv => UnloadIsLast
  <2> SUFFICES ASSUME RefInv, UnloadInv, freed PROVE UnloadIsLast
    BY DEF UnloadIsLast
  <2>1. /\ pc["worker"] = "idle" /\ ~pending /\ asyncFb = NoFb /\ shadow = 0
        /\ \A t \in Stoppers : pc[t] \in {"idle", "done"}
        /\ fbs = {} /\ planeFb = NoFb /\ prevFb = NoFb
    BY DEF UnloadInv, StageInv, OwnerInv
  <2>2. \A t \in Threads : held[t] = NoFb
    BY <2>1 DEF RefInv, LocalRefs, Threads, Stoppers
  <2>3. \A f \in Fbs : refs[f] = 0
    BY <2>1, <2>2, FlushAssumption
    DEF RefInv, RefsBalance, Holders, One, Threads, FlushAssumption
  <2> QED  BY <2>1, <2>3 DEF UnloadIsLast, At
<1> QED
  BY <1>1, <1>2, <1>3, RefInvariant, SlotAlways, PTL DEF Spec
=============================================================================
