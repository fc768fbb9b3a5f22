--------------------------- MODULE GudFlushProofs ---------------------------
(***************************************************************************)
(* Theorems about GudFlush, for every number of framebuffers, bands and    *)
(* commits and for every set of environment events.                        *)
(*                                                                         *)
(* The type invariant is not inductive alone: that a reference count never *)
(* becomes negative follows from its being the number of holders, which in *)
(* turn needs to know where a thread's local pointers are in use.          *)
(***************************************************************************)
EXTENDS GudFlush, TLAPS

CancelLabels == {"stop", "cancel", "wait", "free", "put"}

\* Where the commit thread updates the device from planeFb.
UpdateLabels == {"prepare", "enter", "copy", "lock", "send"}

\* A thread owns a reference through a local only where the code reads it, and
\* a commit has no replaced state to release while it is idle.
LocalRefs ==
  /\ held["commit"] # NoFb => pc["commit"] \in {"queue", "drop", "put"}
  /\ held["usb"] # NoFb => pc["usb"] = "put"
  /\ held["worker"] # NoFb => pc["worker"] \in {"lock", "send", "unref"}
  /\ pc["commit"] \in {"idle", "close"} => prevFb = NoFb
  /\ pc["commit"] \in CancelLabels => then["commit"] \in {"off", "kfree"}
  /\ pc["usb"] \in CancelLabels => then["usb"] \in {"unplug", "kfree"}
  /\ pc["commit"] \in UpdateLabels => planeFb # NoFb

RefInv == TypeOK /\ RefsBalance /\ LocalRefs

-----------------------------------------------------------------------------
(* Lemmas on parts of the state that a step leaves alone.                  *)

LEMMA SameTypes ==
  ASSUME TypeOK
  PROVE  /\ UNCHANGED <<frame, refs>> => CountType'
         /\ UNCHANGED drmVars => DrmType'
         /\ UNCHANGED lifeVars => LifeType'
         /\ UNCHANGED <<linkVars, asyncFlush, stopping, lock, damageLock>>
              => LinkType'
         /\ UNCHANGED slotVars => SlotType'
         /\ UNCHANGED workVars => WorkType'
         /\ UNCHANGED <<pc, then>> => PcType'
         /\ UNCHANGED localVars => LocalType'
         /\ UNCHANGED display => DisplayType'
  BY DEF TypeOK, CountType, DrmType, LifeType, LinkType, SlotType, WorkType,
         PcType, LocalType, DisplayType, drmVars, lifeVars, linkVars, slotVars,
         workVars, localVars

holderVars == <<refs, fbs, planeFb, prevFb, asyncFb, held>>

LEMMA SameHolders == RefsBalance /\ UNCHANGED holderVars => RefsBalance'
  BY DEF RefsBalance, Holders, One, holderVars

\* What has a holder has a positive count.
LEMMA HolderCounts ==
  ASSUME TypeOK, RefsBalance, NEW f \in Fbs
  PROVE  /\ f \in fbs => refs[f] - 1 \in Nat
         /\ prevFb = f => refs[f] - 1 \in Nat
         /\ \A t \in Threads : held[t] = f => refs[f] - 1 \in Nat
  BY DEF TypeOK, CountType, RefsBalance, Holders, One, Threads

\* Releasing a pointer of which the count includes a holder keeps counts natural.
LEMMA PutType ==
  ASSUME refs \in [Fbs -> Nat], NEW p \in FbPtr, Put(p),
         p \in Fbs => refs[p] - 1 \in Nat
  PROVE  refs' \in [Fbs -> Nat]
  BY DEF Put, FbPtr

\* Going to a label keeps the positions well-typed.
LEMMA GoType ==
  ASSUME PcType, NEW t \in Threads, NEW l \in Labels, Go(t, l)
  PROVE  pc' \in [Threads -> Labels]
  BY DEF PcType, Go

-----------------------------------------------------------------------------
(* The initial states.                                                     *)

LEMMA InitRefInv == Init => RefInv
<1> SUFFICES ASSUME Init PROVE RefInv
  OBVIOUS
<1> USE FlushAssumption DEF FlushAssumption, Init
<1>1. CountType
  BY DEF CountType, Version
<1>1b. LifeType /\ WorkType
  BY DEF LifeType, WorkType
<1>1a. DrmType
  BY DEF DrmType, FbPtr
<1>2. LinkType
  BY DEF LinkType
<1>3. SlotType
  BY DEF SlotType, FbPtr, Version
<1>4. PcType
  BY DEF PcType, Threads, Labels
<1>5. held \in [Threads -> FbPtr] /\ wbuf \in Version
  BY DEF FbPtr, Version
<1>6. band \in [Senders -> 1..(Bands + 1)]
  OBVIOUS
<1>7. ret \in [Senders -> Results]
  BY DEF Results
<1>8. DisplayType
  BY DEF DisplayType, Version
<1>9. RefsBalance
  BY DEF RefsBalance, Holders, One, Threads
<1>10. LocalRefs
  BY DEF LocalRefs, Threads, CancelLabels, UpdateLabels
<1> QED
  BY <1>1, <1>1a, <1>1b, <1>2, <1>3, <1>4, <1>5, <1>6, <1>7, <1>8, <1>9, <1>10
  DEF RefInv, TypeOK, LocalType

-----------------------------------------------------------------------------
(* Types.                                                                  *)

LEMMA UserTypes == RefInv /\ UserStep => TypeOK'
<1> SUFFICES ASSUME RefInv, UserStep PROVE TypeOK'
  OBVIOUS
<1> USE SameTypes DEF RefInv, TypeOK
<1>1. ASSUME NEW f \in Fbs, AddFb(f) PROVE TypeOK'
  BY <1>1 DEF AddFb, CountType, DrmType, Get
<1>2. ASSUME NEW f \in Fbs, RmFb(f) PROVE TypeOK'
  <2>1. CountType'
    BY <1>2, HolderCounts, PutType DEF RmFb, CountType, FbPtr
  <2> QED
    BY <1>2, <2>1 DEF RmFb, DrmType
<1>3. ASSUME NEW f \in Fbs, NEW mode \in BOOLEAN, NEW on \in BOOLEAN,
             Commit(f, mode, on)
      PROVE  TypeOK'
  <2>1. CountType'
    BY <1>3, FlushAssumption DEF FlushAssumption, Commit, CountType, Get, Version
  <2>2. DrmType'
    BY <1>3 DEF Commit, DrmType, FbPtr
  <2>3. PcType'
    BY <1>3 DEF Commit, PcType, Go, UpdateStage, Threads, Stoppers, Labels
  <2>4. LocalType'
    BY <1>3 DEF Commit, LocalType, Fail, Senders, Results
  <2> QED
    BY <1>3, <2>1, <2>2, <2>3, <2>4 DEF Commit
<1>4. ASSUME NEW c \in BOOLEAN, CommitOff(c) PROVE TypeOK'
  <2>1. DrmType' /\ LifeType'
    BY <1>4 DEF CommitOff, DrmType, LifeType, FbPtr
  <2>2. PcType'
    BY <1>4 DEF CommitOff, PcType, Go, Threads, Stoppers, Labels
  <2>3. LocalType'
    BY <1>4 DEF CommitOff, LocalType, Fail, Senders, Results
  <2> QED
    BY <1>4, <2>1, <2>2, <2>3 DEF CommitOff
<1>5. CASE OpenAgain
  BY <1>5 DEF OpenAgain, LifeType
<1>6. CASE ToggleAsync
  BY <1>6 DEF ToggleAsync, LinkType, linkVars
<1> QED
  BY <1>1, <1>2, <1>3, <1>4, <1>5, <1>6 DEF UserStep

LEMMA PowerTypes == RefInv /\ PowerStep => TypeOK'
<1> SUFFICES ASSUME RefInv, PowerStep PROVE TypeOK'
  OBVIOUS
<1> USE SameTypes DEF RefInv, TypeOK
<1>1. CASE Disconnect
  BY <1>1 DEF Disconnect, LinkType, PcType, Go, Threads, Stoppers, Labels
<1>2. CASE Suspend
  BY <1>2 DEF Suspend, LinkType
<1>3. CASE Resume
  BY <1>3 DEF Resume, LinkType
<1> QED
  BY <1>1, <1>2, <1>3 DEF PowerStep

LEMMA SendTypes == ASSUME RefInv, NEW t \in Senders, SendStep(t) PROVE TypeOK'
<1> USE SameTypes DEF RefInv, TypeOK
<1>1. t \in Threads /\ AfterSend(t) \in Labels /\ "send" \in Labels
  BY DEF Senders, Threads, AfterSend, Labels
<1>2. ASSUME NEW b \in BandSet PROVE Source(t, b) \in Version \cup {Garbage}
  BY FlushAssumption DEF FlushAssumption, Source, CountType, SlotType
<1>3. CASE LockLink(t)
  <2>1. LinkType'
    BY <1>3 DEF LockLink, LinkType, linkVars
  <2>2. LocalType'
    BY <1>3, FlushAssumption DEF FlushAssumption, LockLink, LocalType
  <2>3. PcType'
    BY <1>1, <1>3, GoType DEF LockLink, PcType
  <2> QED
    BY <1>3, <2>1, <2>2, <2>3 DEF LockLink
<1>4. CASE SendRefused(t)
  <2>1. LinkType'
    BY <1>4 DEF SendRefused, Unlock, LinkType, linkVars
  <2>2. LocalType'
    BY <1>4 DEF SendRefused, LocalType, Fail, Results
  <2>3. PcType'
    BY <1>1, <1>4, GoType DEF SendRefused, PcType
  <2> QED
    BY <1>4, <2>1, <2>2, <2>3 DEF SendRefused
<1>5. CASE SendBand(t)
  <2>1. band[t] \in BandSet
    BY <1>5, FlushAssumption DEF FlushAssumption, SendBand, LocalType, BandSet
  <2>2. DisplayType'
    BY <1>2, <1>5, <2>1 DEF SendBand, DisplayType
  <2>3. LocalType'
    BY <1>5, FlushAssumption DEF FlushAssumption, SendBand, LocalType
  <2> QED
    BY <1>5, <2>2, <2>3 DEF SendBand
<1>6. CASE SendFailed(t)
  <2>1. band[t] \in BandSet
    BY <1>6, FlushAssumption DEF FlushAssumption, SendFailed, LocalType, BandSet
  <2>2. DisplayType'
    BY <1>2, <1>6, <2>1 DEF SendFailed, DisplayType
  <2>3. LinkType'
    BY <1>6 DEF SendFailed, Unlock, LinkType, linkVars
  <2>4. LocalType'
    BY <1>6 DEF SendFailed, LocalType, Fail, Results
  <2>5. PcType'
    BY <1>1, <1>6, GoType DEF SendFailed, PcType
  <2> QED
    BY <1>6, <2>2, <2>3, <2>4, <2>5 DEF SendFailed
<1>7. CASE SendDone(t)
  <2>1. LinkType'
    BY <1>7 DEF SendDone, Unlock, LinkType, linkVars
  <2>2. PcType'
    BY <1>1, <1>7, GoType DEF SendDone, PcType
  <2> QED
    BY <1>7, <2>1, <2>2 DEF SendDone
<1> QED
  BY <1>3, <1>4, <1>5, <1>6, <1>7 DEF SendStep

LEMMA CancelTypes == ASSUME RefInv, NEW t \in Stoppers, CancelStep(t) PROVE TypeOK'
<1> USE SameTypes DEF RefInv, TypeOK
<1>1. /\ t \in Threads
      /\ {"cancel", "wait", "free", "put", "done"} \subseteq Labels
  BY DEF Stoppers, Threads, Labels
<1>2. CASE AsyncStop(t)
  <2>1. LinkType'
    BY <1>2 DEF AsyncStop, LinkType, linkVars
  <2> QED
    BY <1>1, <1>2, <2>1, GoType DEF AsyncStop, PcType
<1>3. CASE CancelGrab(t)
  BY <1>1, <1>3, GoType DEF CancelGrab, PcType, WorkType
<1>4. CASE CancelWait(t)
  BY <1>1, <1>4, GoType DEF CancelWait, PcType, WorkType
<1>5. CASE FreeShadow(t)
  <2>1. SlotType'
    BY <1>5, FlushAssumption DEF FlushAssumption, FreeShadow, SlotType, FbPtr, Version
  <2>2. LocalType'
    BY <1>1, <1>5 DEF FreeShadow, LocalType, SlotType
  <2> QED
    BY <1>1, <1>5, <2>1, <2>2, GoType DEF FreeShadow, PcType
<1>6. CASE PutTaken(t)
  <2>1. CountType'
    BY <1>1, <1>6, HolderCounts, PutType DEF PutTaken, CountType, LocalType
  <2>2. LocalType'
    BY <1>1, <1>6 DEF PutTaken, LocalType, FbPtr
  <2>3. PcType'
    BY <1>1, <1>6, GoType DEF PutTaken, PcType
  <2> QED
    BY <1>6, <2>1, <2>2, <2>3 DEF PutTaken
<1>7. CASE FreeDevice(t)
  BY <1>1, <1>7, GoType DEF FreeDevice, PcType, LifeType
<1> QED
  BY <1>2, <1>3, <1>4, <1>5, <1>6, <1>7 DEF CancelStep

LEMMA CommitTypes == RefInv /\ CommitStep => TypeOK'
<1> SUFFICES ASSUME RefInv, CommitStep PROVE TypeOK'
  OBVIOUS
<1> USE SameTypes DEF RefInv, TypeOK
<1>1. /\ "commit" \in Threads /\ "commit" \in Senders /\ "commit" \in Stoppers
      /\ {"complete", "prepare", "close", "idle", "copy", "queue", "drop",
          "stop", "kfree", UpdateStage} \subseteq Labels
  BY DEF Threads, Senders, Stoppers, Labels, UpdateStage
<1>2. {"ENODEV", "EHOSTUNREACH", "EIO", "ENOMEM", "EINVAL"} \subseteq Results
  BY DEF Results
<1>3. CASE PipeOff
  BY <1>1, <1>3, GoType DEF PipeOff, PcType
<1>4. CASE PrepareUpdate
  <2>1. PcType'
    BY <1>1, <1>4, GoType DEF PrepareUpdate, PcType
  <2>2. LocalType'
    BY <1>1, <1>2, <1>4 DEF PrepareUpdate, LocalType, Fail
  <2> QED
    BY <1>4, <2>1, <2>2 DEF PrepareUpdate
<1>5. CASE CompleteCommit
  <2>1. CountType'
    BY <1>5, HolderCounts, PutType DEF CompleteCommit, CountType, DrmType
  <2>2. DrmType'
    BY <1>5 DEF CompleteCommit, DrmType, FbPtr
  <2>3. PcType'
    BY <1>1, <1>5, GoType DEF CompleteCommit, PcType
  <2> QED
    BY <1>5, <2>1, <2>2, <2>3 DEF CompleteCommit
<1>6. CASE LastClose
  <2>1. CountType'
    BY <1>6, HolderCounts DEF LastClose, CountType
  <2>2. DrmType' /\ LifeType'
    BY <1>6 DEF LastClose, DrmType, LifeType
  <2>3. PcType'
    BY <1>1, <1>6, GoType DEF LastClose, UnloadEntry, PcType
  <2> QED
    BY <1>6, <2>1, <2>2, <2>3 DEF LastClose
<1>7. CASE QueueEnter
  <2>1. LinkType'
    BY <1>7 DEF QueueEnter, Refuse, LinkType, linkVars
  <2>2. planeFb \in Fbs => Len[planeFb] \in Nat
    BY FlushAssumption DEF FlushAssumption
  <2>3. planeFb \in Fbs => SlotType'
    BY <1>7, <2>2, FlushAssumption
    DEF FlushAssumption, QueueEnter, Refuse, SlotType, CountType, Version
  <2>4. LocalType'
    BY <1>1, <1>2, <1>7, FlushAssumption
    DEF FlushAssumption, QueueEnter, Refuse, LocalType, Fail
  <2>5. PcType'
    BY <1>1, <1>7, GoType DEF QueueEnter, Refuse, PcType
  <2>6. planeFb \in Fbs
    BY <1>7 DEF QueueEnter, Refuse, LocalRefs, UpdateLabels, At, DrmType, FbPtr
  <2> QED
    BY <1>7, <2>1, <2>3, <2>4, <2>5, <2>6 DEF QueueEnter, Refuse
<1>8. CASE CopyBand
  <2>1. SlotType'
    BY <1>8 DEF CopyBand, SlotType, CountType
  <2>2. LocalType'
    BY <1>1, <1>8, FlushAssumption DEF FlushAssumption, CopyBand, LocalType
  <2> QED
    BY <1>8, <2>1, <2>2 DEF CopyBand
<1>9. CASE RetainFb
  <2>1. CountType'
    BY <1>9 DEF RetainFb, RetainRef, Get, CountType, DrmType
  <2>2. SlotType' /\ LocalType'
    BY <1>1, <1>9 DEF RetainFb, SlotType, LocalType, DrmType
  <2>3. LinkType'
    BY <1>9 DEF RetainFb, LinkType, linkVars
  <2>4. PcType'
    BY <1>1, <1>9, GoType DEF RetainFb, PcType
  <2> QED
    BY <1>9, <2>1, <2>2, <2>3, <2>4 DEF RetainFb
<1>10. CASE QueueWork
  BY <1>1, <1>10, GoType DEF QueueWork, Queueable, PcType, WorkType
<1>11. CASE DropOldFb
  <2>1. CountType'
    BY <1>1, <1>11, HolderCounts, PutType DEF DropOldFb, OldFb, CountType, LocalType
  <2>2. LocalType'
    BY <1>1, <1>11 DEF DropOldFb, LocalType, FbPtr
  <2>3. PcType'
    BY <1>1, <1>11, GoType DEF DropOldFb, PcType
  <2> QED
    BY <1>11, <2>1, <2>2, <2>3 DEF DropOldFb
<1>12. CASE SendStep("commit")
  BY <1>1, <1>12, SendTypes
<1>13. CASE CancelStep("commit")
  BY <1>1, <1>13, CancelTypes
<1> QED
  BY <1>3, <1>4, <1>5, <1>6, <1>7, <1>8, <1>9, <1>10, <1>11, <1>12, <1>13
  DEF CommitStep

LEMMA WorkerTypes == RefInv /\ WorkerStep => TypeOK'
<1> SUFFICES ASSUME RefInv, WorkerStep PROVE TypeOK'
  OBVIOUS
<1> USE SameTypes DEF RefInv, TypeOK
<1>1. /\ "worker" \in Threads /\ "worker" \in Senders
      /\ {"idle", "take", "lock"} \subseteq Labels
  BY DEF Threads, Senders, Labels
<1>2. CASE WorkerStart
  BY <1>1, <1>2, GoType DEF WorkerStart, PcType, WorkType
<1>3. CASE WorkerTake
  <2>1. SlotType'
    BY <1>3 DEF WorkerTake, SlotType, FbPtr
  <2>2. LocalType'
    BY <1>1, <1>3 DEF WorkerTake, LocalType, SlotType, Fail, Results
  <2>3. PcType'
    BY <1>1, <1>3, GoType DEF WorkerTake, PcType
  <2> QED
    BY <1>3, <2>1, <2>2, <2>3 DEF WorkerTake
<1>4. CASE SendStep("worker")
  BY <1>1, <1>4, SendTypes
<1>5. CASE WorkerUnref
  <2>1. CountType'
    BY <1>1, <1>5, HolderCounts, PutType DEF WorkerUnref, CountType, LocalType
  <2>2. LocalType'
    BY <1>1, <1>5, FlushAssumption
    DEF FlushAssumption, WorkerUnref, LocalType, FbPtr, Version
  <2>3. PcType'
    BY <1>1, <1>5, GoType DEF WorkerUnref, PcType
  <2> QED
    BY <1>5, <2>1, <2>2, <2>3 DEF WorkerUnref
<1> QED
  BY <1>2, <1>3, <1>4, <1>5 DEF WorkerStep

LEMMA UsbTypes == RefInv /\ UsbStep => TypeOK'
<1> SUFFICES ASSUME RefInv, UsbStep PROVE TypeOK'
  OBVIOUS
<1>1. CASE Unplug
  <2>1. PcType'
    BY <1>1 DEF RefInv, TypeOK, Unplug, UnloadEntry, PcType, Go, Threads,
                Stoppers, Labels
  <2> QED
    BY <1>1, <2>1, SameTypes DEF RefInv, TypeOK, Unplug, LifeType
<1>2. CASE CancelStep("usb")
  BY <1>2, CancelTypes DEF Stoppers
<1> QED
  BY <1>1, <1>2 DEF UsbStep

LEMMA NextTypes == RefInv /\ [Next]_vars => TypeOK'
<1>1. RefInv /\ UNCHANGED vars => TypeOK'
  BY SameTypes DEF RefInv, TypeOK, vars
<1> QED
  BY <1>1, UserTypes, PowerTypes, CommitTypes, WorkerTypes, UsbTypes DEF Next, Gone
-----------------------------------------------------------------------------
(* The reference balance.                                                  *)

LEMMA NextBalance == RefInv /\ [Next]_vars => RefsBalance'
<1> SUFFICES ASSUME RefInv, [Next]_vars PROVE RefsBalance'
  OBVIOUS
<1> USE SameHolders DEF RefInv, holderVars, drmVars, slotVars, localVars
<1>1. ASSUME NEW f \in Fbs, AddFb(f), NEW g \in Fbs
      PROVE  (refs[g] = Holders(g))'
  <2>1. UNCHANGED <<planeFb, prevFb, asyncFb, held>>
    BY <1>1 DEF AddFb
  <2>2. refs'[g] = IF g = f THEN refs[g] + 1 ELSE refs[g]
    BY <1>1, FlushAssumption DEF FlushAssumption, AddFb, Get, TypeOK, CountType
  <2>3. One(g \in fbs)' = IF g = f THEN One(g \in fbs) + 1 ELSE One(g \in fbs)
    BY <1>1 DEF AddFb, One
  <2> QED
    BY <2>1, <2>2, <2>3 DEF RefsBalance, Holders, One
<1>2. ASSUME NEW f \in Fbs, RmFb(f), NEW g \in Fbs
      PROVE  (refs[g] = Holders(g))'
  <2>1. UNCHANGED <<planeFb, prevFb, asyncFb, held>>
    BY <1>2 DEF RmFb
  <2>2. refs'[g] = IF g = f THEN refs[g] - 1 ELSE refs[g]
    BY <1>2, FlushAssumption DEF FlushAssumption, RmFb, Put, TypeOK, CountType
  <2>3. One(g \in fbs)' = IF g = f THEN One(g \in fbs) - 1 ELSE One(g \in fbs)
    BY <1>2 DEF RmFb, One
  <2> QED
    BY <2>1, <2>2, <2>3 DEF RefsBalance, Holders, One
<1>3. ASSUME NEW f \in Fbs, NEW mode \in BOOLEAN, NEW on \in BOOLEAN,
             Commit(f, mode, on)
      PROVE  RefsBalance'
  <2>1. prevFb = NoFb
    BY <1>3 DEF Commit, At, LocalRefs
  <2>2. /\ planeFb' = f /\ prevFb' = planeFb /\ fbs' = fbs
        /\ asyncFb' = asyncFb /\ held' = held
        /\ refs' = [refs EXCEPT ![f] = @ + 1]
    BY <1>3, FlushAssumption DEF FlushAssumption, Commit, Get
  <2> QED
    BY <2>1, <2>2, FlushAssumption
    DEF FlushAssumption, TypeOK, CountType, RefsBalance, Holders, One
<1>4. ASSUME NEW c \in BOOLEAN, CommitOff(c) PROVE RefsBalance'
  <2>1. prevFb = NoFb
    BY <1>4 DEF CommitOff, At, LocalRefs
  <2>2. /\ planeFb' = NoFb /\ prevFb' = planeFb
        /\ UNCHANGED <<fbs, refs, asyncFb, held>>
    BY <1>4 DEF CommitOff
  <2> QED
    BY <2>1, <2>2, FlushAssumption
    DEF FlushAssumption, RefsBalance, Holders, One
<1>5. CASE CompleteCommit
  BY <1>5, FlushAssumption
  DEF FlushAssumption, CompleteCommit, Put, TypeOK, CountType, RefsBalance,
      Holders, One
<1>6. CASE LastClose
  BY <1>6 DEF LastClose, TypeOK, CountType, RefsBalance, Holders, One
<1>7. CASE RetainFb
  <2>1. held["commit"] = NoFb
    BY <1>7 DEF RetainFb, At, LocalRefs
  <2>2. CASE planeFb = asyncFb
    BY <1>7, <2>2 DEF RetainFb
  <2>3. CASE planeFb # asyncFb
    <3>1. /\ UNCHANGED <<fbs, planeFb, prevFb>>
          /\ asyncFb' = planeFb
          /\ held' = [held EXCEPT !["commit"] = asyncFb]
          /\ refs' = IF planeFb = NoFb THEN refs
                     ELSE [refs EXCEPT ![planeFb] = @ + 1]
      BY <1>7, <2>3 DEF RetainFb, RetainRef, Get
    <3> QED
      BY <2>1, <2>3, <3>1, FlushAssumption
      DEF FlushAssumption, TypeOK, CountType, LocalType, Threads, RefsBalance,
          Holders, One
  <2> QED
    BY <2>2, <2>3
<1>8. CASE DropOldFb
  BY <1>8, FlushAssumption
  DEF FlushAssumption, DropOldFb, OldFb, Put, TypeOK, CountType, LocalType,
      Threads, RefsBalance, Holders, One
<1>9. CASE WorkerTake
  <2>1. held["worker"] = NoFb
    BY <1>9 DEF WorkerTake, At, LocalRefs
  <2>2. CASE asyncFb = NoFb
    BY <1>9, <2>2 DEF WorkerTake
  <2>3. CASE asyncFb # NoFb
    <3>1. /\ UNCHANGED <<fbs, planeFb, prevFb, refs>>
          /\ asyncFb' = NoFb /\ held' = [held EXCEPT !["worker"] = asyncFb]
      BY <1>9, <2>3 DEF WorkerTake
    <3> QED
      BY <2>1, <3>1, FlushAssumption
      DEF FlushAssumption, TypeOK, LocalType, Threads, RefsBalance, Holders, One
  <2> QED
    BY <2>2, <2>3
<1>10. CASE WorkerUnref
  BY <1>10, FlushAssumption
  DEF FlushAssumption, WorkerUnref, Put, TypeOK, CountType, LocalType, Threads,
      RefsBalance, Holders, One
<1>11. ASSUME NEW t \in Stoppers, FreeShadow(t) PROVE RefsBalance'
  <2>1. held[t] = NoFb
    BY <1>11 DEF FreeShadow, At, LocalRefs, Stoppers
  <2>2. /\ UNCHANGED <<fbs, planeFb, prevFb, refs>>
        /\ asyncFb' = NoFb /\ held' = [held EXCEPT ![t] = asyncFb]
    BY <1>11 DEF FreeShadow
  <2> QED
    BY <2>1, <2>2, FlushAssumption
    DEF FlushAssumption, TypeOK, LocalType, Threads, Stoppers, RefsBalance,
        Holders, One
<1>12. ASSUME NEW t \in Stoppers, PutTaken(t) PROVE RefsBalance'
  <2>1. /\ UNCHANGED <<fbs, planeFb, prevFb, asyncFb>>
        /\ held' = [held EXCEPT ![t] = NoFb]
        /\ refs' = IF held[t] = NoFb THEN refs
                   ELSE [refs EXCEPT ![held[t]] = @ - 1]
    BY <1>12 DEF PutTaken, Put
  <2>2. SUFFICES ASSUME NEW f \in Fbs PROVE (refs[f] = Holders(f))'
    BY DEF RefsBalance
  <2>3. refs[f] = Holders(f)
    BY DEF RefsBalance
  <2> QED
    BY <2>1, <2>3, FlushAssumption
    DEF FlushAssumption, TypeOK, CountType, LocalType, Threads, Stoppers,
        Holders, One
<1>13. CASE OpenAgain \/ ToggleAsync \/ PowerStep \/ UNCHANGED vars
  BY <1>13 DEF OpenAgain, ToggleAsync, PowerStep, Disconnect, Suspend, Resume, vars
<1>14. CASE PipeOff \/ PrepareUpdate \/ QueueEnter \/ CopyBand \/ QueueWork
  BY <1>14 DEF PipeOff, PrepareUpdate, QueueEnter, Refuse, CopyBand, QueueWork
<1>15. ASSUME NEW t \in Senders, SendStep(t) PROVE RefsBalance'
  BY <1>15 DEF SendStep, LockLink, SendRefused, SendBand, SendFailed, SendDone
<1>16. CASE WorkerStart \/ Unplug
  BY <1>16 DEF WorkerStart, Unplug
<1>17. ASSUME NEW t \in Stoppers,
              \/ AsyncStop(t) \/ CancelGrab(t) \/ CancelWait(t) \/ FreeDevice(t)
       PROVE  RefsBalance'
  BY <1>17 DEF AsyncStop, CancelGrab, CancelWait, FreeDevice
<1>18. ASSUME NEW t \in Stoppers, CancelStep(t) PROVE RefsBalance'
  BY <1>11, <1>12, <1>17, <1>18 DEF CancelStep
<1>19. CASE CommitStep
  BY <1>5, <1>6, <1>7, <1>8, <1>14, <1>15, <1>18, <1>19
  DEF CommitStep, Senders, Stoppers
<1>20. CASE WorkerStep \/ UsbStep
  BY <1>9, <1>10, <1>15, <1>16, <1>18, <1>20
  DEF WorkerStep, UsbStep, Senders, Stoppers
<1>21. CASE UserStep
  BY <1>1, <1>2, <1>3, <1>4, <1>13, <1>21 DEF UserStep, RefsBalance
<1> QED
  BY <1>13, <1>19, <1>20, <1>21 DEF Next, Gone

-----------------------------------------------------------------------------
(* The uses of locals.                                                     *)

LEMMA NextLocals == RefInv /\ [Next]_vars => LocalRefs'
<1> SUFFICES ASSUME RefInv, [Next]_vars PROVE LocalRefs'
  OBVIOUS
<1> USE DEF RefInv, TypeOK, PcType, LocalType, Threads, Stoppers, Senders,
            LocalRefs, CancelLabels, UpdateLabels, At, Go,
            drmVars, localVars
<1>1. ASSUME NEW f \in Fbs, AddFb(f) \/ RmFb(f) PROVE LocalRefs'
  BY <1>1 DEF AddFb, RmFb
<1>2. ASSUME NEW f \in Fbs, NEW mode \in BOOLEAN, NEW on \in BOOLEAN,
             Commit(f, mode, on)
      PROVE  LocalRefs'
  BY <1>2, FlushAssumption DEF FlushAssumption, Commit, UpdateStage
<1>3. ASSUME NEW c \in BOOLEAN, CommitOff(c) PROVE LocalRefs'
  BY <1>3 DEF CommitOff
<1>4. CASE OpenAgain \/ ToggleAsync \/ UNCHANGED vars
  BY <1>4 DEF OpenAgain, ToggleAsync, vars
<1>5. CASE PowerStep
  BY <1>5 DEF PowerStep, Disconnect, Suspend, Resume
<1>6. CASE PipeOff \/ PrepareUpdate \/ CompleteCommit
  BY <1>6 DEF PipeOff, PrepareUpdate, CompleteCommit, UpdateStage
<1>7. CASE LastClose
  BY <1>7 DEF LastClose, UnloadEntry
<1>8. CASE QueueEnter
  BY <1>8 DEF QueueEnter, Refuse
<1>9. CASE CopyBand \/ RetainFb \/ QueueWork \/ DropOldFb
  BY <1>9 DEF CopyBand, RetainFb, QueueWork, DropOldFb
<1>10. ASSUME NEW t \in Senders, SendStep(t) PROVE LocalRefs'
  BY <1>10 DEF SendStep, LockLink, SendRefused, SendBand, SendFailed, SendDone,
               AfterSend
<1>11. CASE WorkerStart \/ WorkerTake \/ WorkerUnref
  BY <1>11 DEF WorkerStart, WorkerTake, WorkerUnref
<1>12. ASSUME NEW t \in Stoppers, CancelStep(t) PROVE LocalRefs'
  BY <1>12 DEF CancelStep, AsyncStop, CancelGrab, CancelWait, FreeShadow,
               PutTaken, FreeDevice
<1>13. CASE Unplug
  BY <1>13 DEF Unplug, UnloadEntry
<1>14. CASE CommitStep
  BY <1>6, <1>7, <1>8, <1>9, <1>10, <1>12, <1>14 DEF CommitStep
<1>15. CASE WorkerStep \/ UsbStep
  BY <1>10, <1>11, <1>12, <1>13, <1>15 DEF WorkerStep, UsbStep
<1>16. CASE UserStep
  BY <1>1, <1>2, <1>3, <1>4, <1>16 DEF UserStep
<1> QED
  BY <1>4, <1>5, <1>14, <1>15, <1>16 DEF Next, Gone

-----------------------------------------------------------------------------
(* The theorems.                                                           *)

LEMMA RefInvariant == Spec => []RefInv
<1>1. RefInv /\ [Next]_vars => RefInv'
  BY NextTypes, NextBalance, NextLocals DEF RefInv
<1> QED
  BY <1>1, InitRefInv, PTL DEF Spec

\* Every reachable state of the frame path is well-typed; in particular no
\* reference count goes below zero.
THEOREM TypeCorrect == Spec => []TypeOK
  BY RefInvariant, PTL DEF RefInv

\* In every interleaving of commits, the flush worker, disconnect and unload a
\* framebuffer's count is the number of its holders: gud_fb_queue_damage,
\* gud_flush_work and gud_async_cancel neither leak nor over-release one.
THEOREM FramebuffersBalance == Spec => []RefsBalance
  BY RefInvariant, PTL DEF RefInv
-----------------------------------------------------------------------------
(* gud->lock against disconnect.                                           *)

LinkInv ==
  /\ \A t \in Senders : pc[t] = "send" <=> lock = t
  /\ DisconnectWaits

LEMMA NextLink == RefInv /\ LinkInv /\ [Next]_vars => LinkInv'
<1> SUFFICES ASSUME RefInv, LinkInv, [Next]_vars PROVE LinkInv'
  OBVIOUS
<1> USE DEF RefInv, TypeOK, PcType, LocalType, LinkType, Threads, Stoppers,
            Senders, NoOne, LinkInv, DisconnectWaits, At, Go, linkVars, localVars
<1>1. CASE UserStep
  BY <1>1 DEF UserStep, AddFb, RmFb, Commit, CommitOff, OpenAgain, ToggleAsync,
              UpdateStage
<1>2. CASE Disconnect
  BY <1>2 DEF Disconnect, LinkIdle
<1>3. CASE Suspend \/ Resume
  BY <1>3 DEF Suspend, Resume
<1>4. CASE PipeOff \/ PrepareUpdate \/ CompleteCommit \/ LastClose
  BY <1>4 DEF PipeOff, PrepareUpdate, CompleteCommit, LastClose, UpdateStage,
              UnloadEntry
<1>5. CASE QueueEnter \/ CopyBand \/ RetainFb \/ QueueWork \/ DropOldFb
  BY <1>5 DEF QueueEnter, Refuse, CopyBand, RetainFb, QueueWork, DropOldFb
<1>6. ASSUME NEW t \in Senders, SendStep(t) PROVE LinkInv'
  <2>1. CASE LockLink(t)
    BY <1>6, <2>1 DEF LockLink
  <2>2. CASE SendBand(t)
    BY <1>6, <2>2 DEF SendBand
  <2>3. CASE SendRefused(t) \/ SendFailed(t) \/ SendDone(t)
    BY <1>6, <2>3 DEF SendRefused, SendFailed, SendDone, Unlock, AfterSend
  <2> QED
    BY <1>6, <2>1, <2>2, <2>3 DEF SendStep
<1>7. CASE WorkerStart \/ WorkerTake \/ WorkerUnref
  BY <1>7 DEF WorkerStart, WorkerTake, WorkerUnref
<1>8. ASSUME NEW t \in Stoppers, CancelStep(t) PROVE LinkInv'
  BY <1>8 DEF CancelStep, AsyncStop, CancelGrab, CancelWait, FreeShadow,
              PutTaken, FreeDevice, LocalRefs, CancelLabels
<1>9. CASE Unplug
  BY <1>9 DEF Unplug, UnloadEntry
<1>10. CASE UNCHANGED vars
  BY <1>10 DEF vars
<1> QED
  BY <1>1, <1>2, <1>3, <1>4, <1>5, <1>6, <1>7, <1>8, <1>9, <1>10
  DEF Next, Gone, PowerStep, CommitStep, WorkerStep, UsbStep

\* gud_disconnect waits for the frame in flight: once disconnected is set no
\* sender is between two rectangles, so no USB transfer follows it.
THEOREM DisconnectIsOrdered == Spec => []DisconnectWaits
<1>1. Init => LinkInv
  BY DEF Init, LinkInv, DisconnectWaits, Threads, Senders, NoOne
<1> QED
  BY <1>1, RefInvariant, NextLink, PTL DEF Spec, LinkInv

-----------------------------------------------------------------------------
(* Frames are sent as FrameSender says.                                     *)

\* What becomes of a sender's frame.
LEMMA OutcomeOf ==
  ASSUME LocalType, NEW t \in Senders, NEW e, ret' = [ret EXCEPT ![t] = e]
  PROVE  Outcome' = [Outcome EXCEPT ![t] = IF e = "ok" THEN "ok" ELSE "error"]
  BY DEF LocalType, Outcome

\* What a thread does that is not sending leaves the frame of another one alone.
LEMMA Aside ==
  ASSUME RefInv, LinkInv, NEW t \in Senders, pc[t] # "send",
         lock' = lock, disconnected' = disconnected,
         \A u \in Senders : u # t => band'[u] = band[u],
         ret' = ret \/ \E e \in Results : Fail(t, e)
  PROVE  [Sender!Next]_(Sender!vars)
<1>1. LocalType /\ lock \in Senders \cup {NoOne} /\ lock # t
  BY DEF RefInv, TypeOK, LinkType, LinkInv
<1>2. SentBands' = SentBands
  BY <1>1 DEF SentBands, NoOne
<1>3. CASE ret' = ret
  BY <1>2, <1>3 DEF Outcome, Sender!vars
<1>4. CASE ret' # ret
  <2>1. \E r \in Sender!Results : Outcome' = [Outcome EXCEPT ![t] = r]
    BY <1>1, <1>4, OutcomeOf DEF Fail, Sender!Results
  <2>2. \E r \in Sender!Results : Sender!Prepare(t, r)
    BY <1>1, <1>2, <2>1 DEF Sender!Prepare
  <2> QED  BY <2>2 DEF Sender!Next
<1> QED  BY <1>3, <1>4

\* A sender begins, goes on by a band, and ends: in the middle only by an error.
LEMMA SendingIsSender ==
  ASSUME RefInv, LinkInv, NEW t \in Senders, SendStep(t)
  PROVE  [Sender!Next]_(Sender!vars)
<1> USE DEF At, Go, linkVars, localVars
<1>1. /\ LocalType /\ lock \in Senders \cup {NoOne} /\ NoOne \notin Senders
      /\ Bands \in Nat \ {0} /\ band[t] \in 1..(Bands + 1)
  BY FlushAssumption DEF RefInv, TypeOK, LinkType, LocalType, Senders, NoOne
<1>2. CASE LockLink(t)
  <2>1. lock = "none" /\ lock' = t /\ SentBands = {} /\ SentBands' = {}
    BY <1>1, <1>2 DEF LockLink, SentBands, LocalType, NoOne
  <2>2. UNCHANGED <<ret, disconnected>>
    BY <1>2 DEF LockLink
  <2>3. Outcome' = Outcome
    BY <2>2 DEF Outcome
  <2>4. Sender!Start(t)
    BY <1>1, <2>1, <2>2, <2>3 DEF Sender!Start, NoOne
  <2> QED  BY <2>4 DEF Sender!Next
<1>3. ASSUME ~LockLink(t) PROVE lock = t /\ t # "none"
  BY <1>1, <1>3 DEF SendStep, SendBand, SendRefused, SendFailed, SendDone, LinkInv, NoOne
<1>4. CASE SendBand(t)
  <2>1. /\ lock' = lock /\ ~disconnected /\ disconnected' = disconnected /\ ret' = ret
        /\ band[t] <= Bands /\ band' = [band EXCEPT ![t] = @ + 1] /\ lock = t
    BY <1>4, <1>3 DEF SendBand, LockLink
  <2>2. band'[t] = band[t] + 1
    BY <2>1 DEF RefInv, TypeOK, LocalType
  <2>3. SentBands = 0..(band[t] - 2) /\ SentBands' = 0..(band[t] - 1)
    BY <1>1, <2>1, <2>2 DEF SentBands
  <2>4. Sender!Arrive
    BY <1>1, <2>1, <2>3 DEF Sender!Arrive, Outcome, NoOne
  <2> QED  BY <2>4 DEF Sender!Next
<1>5. ASSUME SendRefused(t) \/ SendFailed(t)
      PROVE  \E r \in Sender!Results : Sender!End(r)
  <2>1. /\ lock = t /\ t # "none" /\ lock' = "none" /\ disconnected' = disconnected
        /\ \E e \in Results \ {"ok"} : Fail(t, e)
    BY <1>1, <1>5 DEF SendRefused, SendFailed, Unlock, LinkInv, NoOne, Results
  <2>2. Outcome' = [Outcome EXCEPT ![t] = "error"] /\ SentBands' = {}
    BY <1>1, <2>1, OutcomeOf DEF Fail, SentBands, NoOne
  <2> QED  BY <1>1, <2>1, <2>2 DEF Sender!End, Sender!Nobody, Sender!Results, NoOne
<1>6. ASSUME SendDone(t)
      PROVE  \E r \in Sender!Results : Sender!End(r)
  <2>1. /\ lock = t /\ t # "none" /\ lock' = "none" /\ disconnected' = disconnected
        /\ ret' = ret /\ band[t] = Bands + 1
    BY <1>1, <1>6 DEF SendDone, Unlock, LinkInv, NoOne
  <2>2. Outcome' = [Outcome EXCEPT ![t] = Outcome[t]] /\ Outcome[t] \in Sender!Results
    BY <2>1 DEF Outcome, Sender!Results
  <2>3. SentBands = 0..(Bands - 1) /\ SentBands' = {}
    BY <1>1, <2>1 DEF SentBands, NoOne
  <2>4. Sender!End(Outcome[t])
    BY <1>1, <2>1, <2>2, <2>3 DEF Sender!End, Sender!Nobody, NoOne
  <2> QED  BY <2>2, <2>4
<1> QED  BY <1>2, <1>4, <1>5, <1>6 DEF SendStep, Sender!Next

\* Every step of the frame path is one of a frame sender, or none.
LEMMA SenderStep ==
  ASSUME RefInv, LinkInv, [Next]_vars
  PROVE  [Sender!Next]_(Sender!vars)
<1> USE DEF At, Go, linkVars, localVars
<1>1. {"commit", "worker"} = Senders /\ "commit" # "worker"
  BY DEF Senders
<1>2. CASE UserStep
  <2>1. pc["commit"] # "send" \/ UNCHANGED <<lock, disconnected, band, ret>>
    BY <1>2 DEF UserStep, AddFb, RmFb, Commit, CommitOff, OpenAgain, ToggleAsync
  <2>2. UNCHANGED <<lock, disconnected, band>> /\ (ret' = ret \/ Fail("commit", "ok"))
    BY <1>2 DEF UserStep, AddFb, RmFb, Commit, CommitOff, OpenAgain, ToggleAsync
  <2>3. "ok" \in Results
    BY DEF Results
  <2>4. CASE UNCHANGED <<lock, disconnected, band, ret>>
    BY <2>4 DEF Sender!vars, SentBands, Outcome
  <2> QED  BY <1>1, <2>1, <2>2, <2>3, <2>4, Aside
<1>3. CASE Disconnect
  <2>1. lock = "none" /\ lock' = lock /\ disconnected' = TRUE /\ UNCHANGED <<band, ret>>
    BY <1>3 DEF Disconnect, LinkIdle, NoOne
  <2>2. Sender!Leave
    BY <2>1 DEF Sender!Leave, SentBands, Outcome
  <2> QED  BY <2>2 DEF Sender!Next
<1>4. CASE Suspend \/ Resume \/ UNCHANGED vars
  <2>1. UNCHANGED <<lock, disconnected, band, ret>>
    BY <1>4 DEF Suspend, Resume, vars
  <2> QED  BY <2>1 DEF Sender!vars, SentBands, Outcome
<1>5. ASSUME \/ PipeOff \/ PrepareUpdate \/ CompleteCommit \/ LastClose
             \/ QueueEnter \/ CopyBand \/ RetainFb \/ QueueWork \/ DropOldFb
      PROVE  [Sender!Next]_(Sender!vars)
  <2>1. pc["commit"] # "send" /\ lock' = lock /\ disconnected' = disconnected
    BY <1>5 DEF PipeOff, PrepareUpdate, CompleteCommit, LastClose, QueueEnter, CopyBand,
                RetainFb, QueueWork, DropOldFb
  <2>2. band'["worker"] = band["worker"]
    <3>1. band \in [Senders -> 1..(Bands + 1)]
      BY DEF RefInv, TypeOK, LocalType
    <3>2. band' = band \/ \E b : band' = [band EXCEPT !["commit"] = b]
      BY <1>5 DEF PipeOff, PrepareUpdate, CompleteCommit, LastClose, QueueEnter,
                  CopyBand, RetainFb, QueueWork, DropOldFb
    <3> QED  BY <1>1, <3>1, <3>2
  <2>3. ret' = ret \/ \E e \in Results : Fail("commit", e)
    BY <1>5 DEF PipeOff, PrepareUpdate, CompleteCommit, LastClose, QueueEnter, CopyBand,
                RetainFb, QueueWork, DropOldFb, Refuse, Results
  <2> QED  BY <1>1, <2>1, <2>2, <2>3, Aside
<1>6. ASSUME WorkerStart \/ WorkerTake \/ WorkerUnref
      PROVE  [Sender!Next]_(Sender!vars)
  <2>1. pc["worker"] # "send" /\ UNCHANGED <<lock, disconnected, band>>
    BY <1>6 DEF WorkerStart, WorkerTake, WorkerUnref
  <2>2. ret' = ret \/ Fail("worker", "ok")
    BY <1>6 DEF WorkerStart, WorkerTake, WorkerUnref
  <2> QED  BY <1>1, <2>1, <2>2, Aside DEF Results
<1>7. ASSUME NEW t \in Stoppers, CancelStep(t) PROVE UNCHANGED Sender!vars
  <2>1. UNCHANGED <<lock, disconnected, band, ret>>
    BY <1>7 DEF CancelStep, AsyncStop, CancelGrab, CancelWait, FreeShadow, PutTaken,
                FreeDevice
  <2> QED  BY <2>1 DEF Sender!vars, SentBands, Outcome
<1>8. CASE UsbStep
  <2>1. CASE Unplug
    <3>1. UNCHANGED <<lock, disconnected, band, ret>>
      BY <2>1 DEF Unplug
    <3> QED  BY <3>1 DEF Sender!vars, SentBands, Outcome
  <2> QED  BY <1>7, <1>8, <2>1 DEF UsbStep, Stoppers
<1>9. CASE CommitStep
  BY <1>5, <1>7, <1>9, SendingIsSender DEF CommitStep, Senders, Stoppers
<1>10. CASE WorkerStep
  BY <1>6, <1>10, SendingIsSender DEF WorkerStep, Senders
<1> QED
  BY <1>2, <1>3, <1>4, <1>8, <1>9, <1>10 DEF Next, Gone, PowerStep

\* The loop over the bands (gud_pipe_transfer_xdisp_buffer under gud->lock)
\* implements FrameSender: whatever commits, worker, cancellation, suspend and
\* disconnect do, bands of two frames do not mix, a frame that ends without an
\* error is complete, and no band follows gud_disconnect.
THEOREM SendsFrames == Spec => SenderSpec
<1>1. Init => LinkInv /\ Sender!Init
  BY DEF Init, LinkInv, DisconnectWaits, Threads, Senders, NoOne, Sender!Init,
         SentBands, Outcome
<1> QED
  BY <1>1, RefInvariant, NextLink, SenderStep, PTL DEF Spec, SenderSpec, Sender!Spec

-----------------------------------------------------------------------------
(* The lifetime of the shadow buffer.                                      *)

\* What keeps the worker's pointer good: the buffer exists whenever a
\* framebuffer is retained; the commit thread frees it only after it waited
\* for the worker; and the usb thread frees it only after disconnected is set.
SlotInv ==
  /\ pc["usb"] # "idle" => disconnected
  /\ planeFb # NoFb => frame >= 1
  /\ asyncFb # NoFb => shadow # 0 /\ shadowLen = Len[asyncFb]
  /\ pc["commit"] = "copy" <=> damageLock = "commit"
  /\ pc["commit"] = "copy" => shadow # 0 /\ shadowLen = Len[planeFb]
  /\ pc["worker"] \in {"lock", "send"} /\ ~disconnected =>
       wbuf # 0 /\ wbuf = shadow /\ shadowLen = Len[held["worker"]]
  /\ pc["commit"] = "wait" => ~pending
  /\ pc["commit"] = "free" => ~pending /\ pc["worker"] = "idle"

LEMMA QueueEnterCases ==
  ASSUME QueueEnter
  PROVE  \/ /\ Go("commit", "complete")
            /\ UNCHANGED <<damageLock, shadow, shadowLen>>
         \/ /\ Go("commit", "copy") /\ damageLock' = "commit"
            /\ shadow # 0 /\ shadowLen = Len[planeFb]
            /\ UNCHANGED <<shadow, shadowLen>>
         \/ /\ Go("commit", "copy") /\ damageLock' = "commit"
            /\ shadow = 0 /\ shadow' = frame /\ shadowLen' = Len[planeFb]
<1>1. CASE stopping \/ (shadow = 0 /\ Fail("commit", "ENOMEM"))
           \/ (shadow # 0 /\ WrongSize(planeFb))
  BY <1>1 DEF QueueEnter, Refuse
<1>2. CASE ~stopping /\ (shadow # 0 => ~WrongSize(planeFb))
  <2>1. CASE shadow = 0
    BY <1>2, <2>1 DEF QueueEnter, Refuse
  <2>2. CASE shadow # 0
    BY <1>2, <2>2 DEF QueueEnter, Refuse, WrongSize
  <2> QED
    BY <2>1, <2>2
<1> QED
  BY <1>1, <1>2

LEMMA NextSlot == RefInv /\ SlotInv /\ [Next]_vars => SlotInv'
<1> SUFFICES ASSUME RefInv, SlotInv, [Next]_vars PROVE SlotInv'
  OBVIOUS
<1> USE DEF RefInv, TypeOK, PcType, LocalType, Threads, Stoppers, Senders,
            NoOne, SlotInv, At, Go, drmVars, linkVars, slotVars, workVars,
            localVars
<1>1. ASSUME NEW f \in Fbs, AddFb(f) \/ RmFb(f) PROVE SlotInv'
  BY <1>1 DEF AddFb, RmFb
<1>2. ASSUME NEW f \in Fbs, NEW mode \in BOOLEAN, NEW on \in BOOLEAN,
             Commit(f, mode, on)
      PROVE  SlotInv'
  BY <1>2 DEF Commit, UpdateStage, CountType, Version
<1>3. ASSUME NEW c \in BOOLEAN, CommitOff(c) PROVE SlotInv'
  BY <1>3 DEF CommitOff
<1>4. CASE OpenAgain \/ ToggleAsync \/ UNCHANGED vars
  BY <1>4 DEF OpenAgain, ToggleAsync, vars
<1>5. CASE PowerStep
  BY <1>5 DEF PowerStep, Disconnect, Suspend, Resume
<1>6. CASE PipeOff \/ PrepareUpdate \/ CompleteCommit \/ LastClose
  BY <1>6 DEF PipeOff, PrepareUpdate, CompleteCommit, LastClose, UpdateStage,
              UnloadEntry
<1>7. CASE QueueEnter
  <2>1. planeFb # NoFb /\ frame # 0
    BY <1>7 DEF QueueEnter, Refuse, LocalRefs, UpdateLabels, CountType, Version
  <2>2. /\ pc["commit"] = "enter" /\ damageLock = NoOne
        /\ UNCHANGED <<frame, planeFb, disconnected, asyncFb, pending, held, wbuf>>
    BY <1>7 DEF QueueEnter, Refuse
  <2>3. CASE pc' = [pc EXCEPT !["commit"] = "complete"]
             /\ UNCHANGED <<damageLock, shadow, shadowLen>>
    BY <2>2, <2>3
  <2>4. CASE pc' = [pc EXCEPT !["commit"] = "copy"] /\ damageLock' = "commit"
             /\ shadow # 0 /\ shadowLen = Len[planeFb]
             /\ UNCHANGED <<shadow, shadowLen>>
    BY <2>2, <2>4
  <2>5. CASE pc' = [pc EXCEPT !["commit"] = "copy"] /\ damageLock' = "commit"
             /\ shadow = 0 /\ shadow' = frame /\ shadowLen' = Len[planeFb]
    BY <2>1, <2>2, <2>5
  <2> QED
    BY <1>7, <2>3, <2>4, <2>5, QueueEnterCases
<1>8. CASE CopyBand \/ QueueWork \/ DropOldFb
  BY <1>8 DEF CopyBand, QueueWork, DropOldFb
<1>9. CASE RetainFb
  BY <1>9 DEF RetainFb
<1>10. ASSUME NEW t \in Senders, SendStep(t) PROVE SlotInv'
  BY <1>10 DEF SendStep, LockLink, SendRefused, SendBand, SendFailed, SendDone,
               AfterSend
<1>11. CASE WorkerStart \/ WorkerUnref
  BY <1>11 DEF WorkerStart, WorkerUnref
<1>12. CASE WorkerTake
  BY <1>12 DEF WorkerTake
<1>13. ASSUME NEW t \in Stoppers, CancelStep(t) PROVE SlotInv'
  <2>1. CASE FreeShadow(t)
    BY <1>13, <2>1 DEF FreeShadow
  <2>2. CASE CancelGrab(t) \/ CancelWait(t)
    BY <1>13, <2>2 DEF CancelGrab, CancelWait, WorkerDone
  <2>3. CASE AsyncStop(t) \/ PutTaken(t) \/ FreeDevice(t)
    BY <1>13, <2>3 DEF AsyncStop, PutTaken, FreeDevice, LocalRefs, CancelLabels
  <2> QED
    BY <1>13, <2>1, <2>2, <2>3 DEF CancelStep
<1>14. CASE Unplug
  BY <1>14 DEF Unplug, UnloadEntry
<1>15. CASE CommitStep
  BY <1>6, <1>7, <1>8, <1>9, <1>10, <1>13, <1>15 DEF CommitStep
<1>16. CASE WorkerStep \/ UsbStep
  BY <1>10, <1>11, <1>12, <1>13, <1>14, <1>16 DEF WorkerStep, UsbStep
<1>17. CASE UserStep
  BY <1>1, <1>2, <1>3, <1>4, <1>17 DEF UserStep
<1> QED
  BY <1>4, <1>5, <1>15, <1>16, <1>17 DEF Next, Gone

\* The worker never reads through a dangling or NULL shadow_buf, nor past its
\* end, although gud_async_cancel may free it after the worker took the pointer.
THEOREM ShadowReadsAreSafe == Spec => []SafeReads
<1>1. Init => SlotInv
  BY DEF Init, SlotInv, Threads, NoOne
<1>2. SlotInv => SafeReads
  BY DEF SlotInv, SafeReads, At
<1> QED
  BY <1>1, <1>2, RefInvariant, NextSlot, PTL DEF Spec
=============================================================================
