------------------------------ MODULE GudFlush ------------------------------
(***************************************************************************)
(* The frame path of the host driver (backport-4.9, full-update variant):  *)
(* how a DRM commit hands a framebuffer to the display, either by sending  *)
(* it over USB before the commit completes or, with async_flush, by        *)
(* copying it to a shadow buffer that a work item sends later; and how     *)
(* mode disable, USB disconnect and DRM unload stop that work item and     *)
(* free what it uses.                                                      *)
(*                                                                         *)
(* Three threads run: "commit", the serialized commit tail of the only     *)
(* CRTC and the file operations around it; "worker", gud_flush_work on     *)
(* system_long_wq; and "usb", gud_disconnect and what it calls.  A step is *)
(* a critical section of gud->lock or damage_lock, one rectangle of a      *)
(* frame, or the code between two of these.                                *)
(*                                                                         *)
(* Pixels are abstracted to versions: commit number v draws v in every     *)
(* band of its framebuffer, a band being the rows of one rectangle.        *)
(***************************************************************************)
EXTENDS Integers, FiniteSets

CONSTANTS
  Fbs,        \* framebuffer objects that user space creates
  NoFb,       \* the NULL framebuffer pointer
  Len,        \* Len[f]: bytes in a frame of framebuffer f
  Bands,      \* rectangles a frame is split into
  MaxFrames,  \* bound: commits that carry a framebuffer
  Env         \* events of the environment this instance includes

Events == {"unplug", "usbError", "allocFail", "suspend", "toggle", "quietToggle", "close"}

ASSUME FlushAssumption ==
  /\ NoFb \notin Fbs
  /\ Len \in [Fbs -> Nat \ {0}]
  /\ Bands \in Nat \ {0}
  /\ MaxFrames \in Nat \ {0}
  /\ Env \subseteq Events

Threads  == {"commit", "worker", "usb"}
Senders  == {"commit", "worker"}       \* callers of gud_pipe_transfer_xdisp_buffer
Stoppers == {"commit", "usb"}          \* callers of gud_async_cancel
NoOne    == "none"                     \* nobody holds the mutex
FbPtr    == Fbs \cup {NoFb}
BandSet  == 1..Bands
Version  == 0..MaxFrames               \* 0: blank
Garbage  == -1                         \* read through a dangling pointer
Results  == {"ok", "ENODEV", "ENOMEM", "EINVAL", "EIO", "EHOSTUNREACH"}
Labels   == {"idle", "cancel", "wait", "free", "put", "off", "prepare",
             "enter", "copy", "queue", "drop", "lock", "send", "complete",
             "close", "take", "unref", "stop", "unplug", "kfree", "done"}

VARIABLES
  frame,        \* commits with a framebuffer so far: the newest version
  planeFb,      \* pipe->plane.state->fb
  prevFb,       \* framebuffer of the state being replaced by a commit
  active,       \* crtc->state->active
  modeChanged,  \* crtc->state->mode_changed of the running commit
  fbs,          \* framebuffers with a user-space handle
  refs,         \* reference count of each framebuffer
  open,         \* drm->open_count # 0
  closing,      \* the last close is running (drm_global_mutex held)
  unplugged,    \* the DRM device is marked unplugged
  freed,        \* gud_drm_unload has freed struct gud_device
  asyncFlush,   \* module parameter async_flush
  lock,         \* owner of gud->lock
  disconnected, \* gud->disconnected
  suspended,    \* gud->pm_suspended (PM-test variant)
  damageLock,   \* owner of gud->damage_lock
  stopping,     \* gud->async_stopping
  asyncFb,      \* gud->async_fb
  shadow,       \* gud->shadow_buf: 0 for NULL, else the version that allocated it
  shadowLen,    \* gud->shadow_buf_size
  pix,          \* contents of the live shadow buffer
  pending,      \* async_work is queued
  canceler,     \* thread inside cancel_work_sync
  pc, then,     \* each thread's position; where gud_async_cancel returns to
  held,         \* framebuffer whose reference the thread holds in a local
  band,         \* loop position of a copy or transfer
  wbuf,         \* the worker's local shadow_buf
  ret,          \* result of the thread's last update or flush
  display       \* version the device shows in each band

drmVars   == <<planeFb, prevFb, active, modeChanged, fbs>>
lifeVars  == <<open, closing, unplugged, freed>>
linkVars  == <<disconnected, suspended>>
slotVars  == <<asyncFb, shadow, shadowLen, pix>>
workVars  == <<pending, canceler>>
localVars == <<held, band, wbuf, ret>>
vars == <<frame, drmVars, refs, lifeVars, asyncFlush, lock, linkVars,
          damageLock, stopping, slotVars, workVars, pc, then, localVars,
          display>>

Init ==
  /\ frame = 0
  /\ planeFb = NoFb /\ prevFb = NoFb /\ active = FALSE /\ modeChanged = FALSE
  /\ fbs = {} /\ refs = [f \in Fbs |-> 0]
  /\ open = TRUE /\ closing = FALSE /\ unplugged = FALSE /\ freed = FALSE
  /\ asyncFlush \in BOOLEAN
  /\ lock = NoOne /\ disconnected = FALSE /\ suspended = FALSE
  /\ damageLock = NoOne /\ stopping = FALSE
  /\ asyncFb = NoFb /\ shadow = 0 /\ shadowLen = 0
  /\ pix = [b \in BandSet |-> 0]
  /\ pending = FALSE /\ canceler = NoOne
  /\ pc = [t \in Threads |-> "idle"]
  /\ then = [t \in Stoppers |-> "idle"]
  /\ held = [t \in Threads |-> NoFb]
  /\ band = [t \in Senders |-> 1]
  /\ wbuf = 0
  /\ ret = [t \in Senders |-> "ok"]
  /\ display = [b \in BandSet |-> 0]

-----------------------------------------------------------------------------
At(t, l)   == pc[t] = l
Go(t, l)   == pc' = [pc EXCEPT ![t] = l]
Fail(t, e) == ret' = [ret EXCEPT ![t] = e]

\* drm_framebuffer_reference / _unreference; a NULL pointer is left alone.
Get(f) == refs' = IF f = NoFb THEN refs ELSE [refs EXCEPT ![f] = @ + 1]
Put(f) == refs' = IF f = NoFb THEN refs ELSE [refs EXCEPT ![f] = @ - 1]

-----------------------------------------------------------------------------
(* User space: framebuffers, commits, open and close.                      *)

\* gud_fb_create: the handle holds the first reference.
AddFb(f) ==
  /\ open /\ ~closing /\ At("commit", "idle")
  /\ f \notin fbs /\ refs[f] = 0
  /\ fbs' = fbs \cup {f}
  /\ Get(f)
  /\ UNCHANGED <<frame, planeFb, prevFb, active, modeChanged, lifeVars,
                 asyncFlush, lock, linkVars, damageLock, stopping, slotVars,
                 workVars, pc, then, localVars, display>>

\* Removing a framebuffer that no plane shows drops the handle's reference.
RmFb(f) ==
  /\ At("commit", "idle") /\ f \in fbs /\ planeFb # f
  /\ fbs' = fbs \ {f}
  /\ Put(f)
  /\ UNCHANGED <<frame, planeFb, prevFb, active, modeChanged, lifeVars,
                 asyncFlush, lock, linkVars, damageLock, stopping, slotVars,
                 workVars, pc, then, localVars, display>>

\* Where gud_pipe_update goes when no error has happened: queue or send.
UpdateStage == IF asyncFlush THEN "enter" ELSE "lock"

\* An atomic commit that shows framebuffer f.  gud_pipe_check refuses it once
\* disconnected and, on a mode change, asks the device first (under gud->lock).
\* The commit tail calls gud_pipe_disable when the old state was active and
\* the mode or the active flag changes.
Commit(f, mode, on) ==
  /\ At("commit", "idle") /\ open /\ frame < MaxFrames
  /\ f \in fbs /\ ~disconnected
  /\ planeFb = NoFb => mode /\ on
  /\ mode => lock = NoOne /\ ~suspended
  /\ frame' = frame + 1
  /\ planeFb' = f /\ prevFb' = planeFb
  /\ active' = on /\ modeChanged' = mode
  /\ Get(f)
  /\ Fail("commit", "ok")
  /\ IF mode \/ on # active
     THEN IF active
          THEN Go("commit", "cancel") /\ then' = [then EXCEPT !["commit"] = "off"]
          ELSE Go("commit", "prepare") /\ UNCHANGED then
     ELSE Go("commit", UpdateStage) /\ UNCHANGED then
  /\ UNCHANGED <<fbs, lifeVars, asyncFlush, lock, linkVars, damageLock,
                 stopping, slotVars, workVars, held, band, wbuf, display>>

\* A commit that takes the framebuffer off the plane, as the last close (c)
\* also does; gud_pipe_disable runs only if the CRTC was active.
CommitOff(c) ==
  /\ At("commit", "idle") /\ open
  /\ c => "close" \in Env
  /\ c \/ planeFb # NoFb
  /\ closing' = c
  /\ planeFb' = NoFb /\ prevFb' = planeFb
  /\ active' = FALSE /\ modeChanged' = FALSE
  /\ Fail("commit", "ok")
  /\ IF active
     THEN Go("commit", "cancel") /\ then' = [then EXCEPT !["commit"] = "off"]
     ELSE Go("commit", "complete") /\ UNCHANGED then
  /\ UNCHANGED <<frame, fbs, refs, open, unplugged, freed, asyncFlush, lock,
                 linkVars, damageLock, stopping, slotVars, workVars, held,
                 band, wbuf, display>>

\* The USB half of gud_pipe_disable, then the update half of the commit.
PipeOff ==
  /\ At("commit", "off") /\ lock = NoOne
  /\ Go("commit", IF planeFb = NoFb THEN "complete" ELSE "prepare")
  /\ UNCHANGED <<frame, drmVars, refs, lifeVars, asyncFlush, lock, linkVars,
                 damageLock, stopping, slotVars, workVars, then, localVars,
                 display>>

\* gud_pipe_prepare_update: three requests under gud->lock.
PrepareUpdate ==
  /\ At("commit", "prepare") /\ lock = NoOne
  /\ \/ disconnected /\ Fail("commit", "ENODEV") /\ Go("commit", "complete")
     \/ ~disconnected /\ suspended
        /\ Fail("commit", "EHOSTUNREACH") /\ Go("commit", "complete")
     \/ ~disconnected /\ ~suspended /\ "usbError" \in Env
        /\ Fail("commit", "EIO") /\ Go("commit", "complete")
     \/ ~disconnected /\ ~suspended
        /\ Go("commit", UpdateStage) /\ UNCHANGED ret
  /\ UNCHANGED <<frame, drmVars, refs, lifeVars, asyncFlush, lock, linkVars,
                 damageLock, stopping, slotVars, workVars, then, held, band,
                 wbuf, display>>

\* The end of gud_pipe_update sends the vblank event; the DRM core then
\* releases the replaced state and its framebuffer.
CompleteCommit ==
  /\ At("commit", "complete")
  /\ Put(prevFb) /\ prevFb' = NoFb
  /\ Go("commit", IF closing THEN "close" ELSE "idle")
  /\ UNCHANGED <<frame, planeFb, active, modeChanged, fbs, lifeVars,
                 asyncFlush, lock, linkVars, damageLock, stopping, slotVars,
                 workVars, then, localVars, display>>

\* gud_drm_unload starts by stopping the work item a second time: a commit may
\* have queued it after the disconnect cancelled it.
UnloadEntryMutant == "kfree"
UnloadEntry == "stop"

\* drm_release of the last file drops every handle and, if the device is
\* unplugged, calls gud_drm_unload.
LastClose ==
  /\ At("commit", "close")
  /\ refs' = [f \in Fbs |-> IF f \in fbs THEN refs[f] - 1 ELSE refs[f]]
  /\ fbs' = {}
  /\ open' = FALSE /\ closing' = FALSE
  /\ IF unplugged
     THEN Go("commit", UnloadEntry) /\ then' = [then EXCEPT !["commit"] = "kfree"]
     ELSE Go("commit", "idle") /\ UNCHANGED then
  /\ UNCHANGED <<frame, planeFb, prevFb, active, modeChanged, unplugged, freed,
                 asyncFlush, lock, linkVars, damageLock, stopping, slotVars,
                 workVars, localVars, display>>

\* drm_open refuses an unplugged device.
OpenAgain ==
  /\ ~open /\ ~unplugged
  /\ open' = TRUE
  /\ UNCHANGED <<frame, drmVars, refs, closing, unplugged, freed, asyncFlush,
                 lock, linkVars, damageLock, stopping, slotVars, workVars, pc,
                 then, localVars, display>>

-----------------------------------------------------------------------------
(* gud_fb_queue_damage, on the commit thread.                              *)

\* The comparison that refuses a frame of another size than the shadow buffer.
WrongSize(f) == shadowLen # Len[f]

\* Every refusal releases damage_lock.
RefuseMutant(err) ==
  damageLock' = "commit" /\ Fail("commit", err) /\ Go("commit", "complete")
Refuse(err) ==
  UNCHANGED damageLock /\ Fail("commit", err) /\ Go("commit", "complete")

\* Enters damage_lock; leaves it at once with an error, or goes on to copy.
QueueEnter ==
  /\ At("commit", "enter") /\ damageLock = NoOne
  /\ \/ /\ \/ stopping /\ Refuse("ENODEV")
           \/ ~stopping /\ shadow = 0 /\ "allocFail" \in Env /\ Refuse("ENOMEM")
           \/ ~stopping /\ shadow # 0 /\ WrongSize(planeFb) /\ Refuse("EINVAL")
        /\ UNCHANGED <<shadow, shadowLen, pix, band>>
     \/ /\ ~stopping /\ (shadow # 0 => ~WrongSize(planeFb))
        /\ damageLock' = "commit"
        /\ IF shadow = 0
           THEN /\ shadow' = frame /\ shadowLen' = Len[planeFb]
                /\ pix' = [b \in BandSet |-> 0]
           ELSE UNCHANGED <<shadow, shadowLen, pix>>
        /\ band' = [band EXCEPT !["commit"] = 1]
        /\ Go("commit", "copy") /\ UNCHANGED ret
  /\ UNCHANGED <<frame, drmVars, refs, lifeVars, asyncFlush, lock, linkVars,
                 stopping, asyncFb, workVars, then, held, wbuf, display>>

\* One band of the memcpy into the shadow buffer.
CopyBand ==
  /\ At("commit", "copy") /\ band["commit"] <= Bands
  /\ pix' = [pix EXCEPT ![band["commit"]] = frame]
  /\ band' = [band EXCEPT !["commit"] = @ + 1]
  /\ UNCHANGED <<frame, drmVars, refs, lifeVars, asyncFlush, lock, linkVars,
                 damageLock, stopping, asyncFb, shadow, shadowLen, workVars,
                 pc, then, held, wbuf, ret, display>>

\* async_fb owns a reference of its own.
RetainRefMutant == UNCHANGED refs
RetainRef == Get(planeFb)

\* The new framebuffer replaces the retained one; damage_lock is released.
RetainFb ==
  /\ At("commit", "copy") /\ band["commit"] = Bands + 1
  /\ IF planeFb # asyncFb
     THEN /\ held' = [held EXCEPT !["commit"] = asyncFb]
          /\ RetainRef
          /\ asyncFb' = planeFb
     ELSE UNCHANGED <<held, refs, asyncFb>>
  /\ damageLock' = NoOne
  /\ Go("commit", "queue")
  /\ UNCHANGED <<frame, drmVars, lifeVars, asyncFlush, lock, linkVars,
                 stopping, shadow, shadowLen, pix, workVars, then, band, wbuf,
                 ret, display>>

\* queue_work leaves a work item alone that is being cancelled; one that is
\* running is queued to run once more.
QueueableMutant == canceler = NoOne /\ At("worker", "idle")
Queueable == canceler = NoOne

\* queue_work, outside damage_lock.
QueueWork ==
  /\ At("commit", "queue")
  /\ pending' = (pending \/ Queueable)
  /\ Go("commit", "drop")
  /\ UNCHANGED <<frame, drmVars, refs, lifeVars, asyncFlush, lock, linkVars,
                 damageLock, stopping, slotVars, canceler, then, localVars,
                 display>>

\* The framebuffer that the new one replaced is released.
OldFbMutant == NoFb
OldFb == held["commit"]

DropOldFb ==
  /\ At("commit", "drop")
  /\ Put(OldFb) /\ held' = [held EXCEPT !["commit"] = NoFb]
  /\ Go("commit", "complete")
  /\ UNCHANGED <<frame, drmVars, lifeVars, asyncFlush, lock, linkVars,
                 damageLock, stopping, slotVars, workVars, then, band, wbuf,
                 ret, display>>

-----------------------------------------------------------------------------
(* gud_pipe_transfer_xdisp_buffer: the sender holds gud->lock for a frame. *)

LockLink(t) ==
  /\ At(t, "lock") /\ lock = NoOne
  /\ lock' = t
  /\ band' = [band EXCEPT ![t] = 1]
  /\ Go(t, "send")
  /\ UNCHANGED <<frame, drmVars, refs, lifeVars, asyncFlush, linkVars,
                 damageLock, stopping, slotVars, workVars, then, held, wbuf,
                 ret, display>>

\* Every way out of the loop releases gud->lock.
UnlockMutant == UNCHANGED lock
Unlock == lock' = NoOne

\* Where the sender returns to.
AfterSend(t) == IF t = "worker" THEN "unref" ELSE "complete"

\* What a sender reads for a band: the worker reads the shadow buffer it took
\* the pointer of, the commit thread the committed framebuffer.
Source(t, b) == IF t = "commit" THEN frame
                ELSE IF wbuf # 0 /\ wbuf = shadow THEN pix[b]
                ELSE Garbage

\* The loop refuses to go on when disconnected or suspended.
SendRefused(t) ==
  /\ At(t, "send") /\ band[t] <= Bands
  /\ disconnected \/ suspended
  /\ Fail(t, IF disconnected THEN "ENODEV" ELSE "EHOSTUNREACH")
  /\ Unlock
  /\ Go(t, AfterSend(t))
  /\ UNCHANGED <<frame, drmVars, refs, lifeVars, asyncFlush, linkVars,
                 damageLock, stopping, slotVars, workVars, then, held, band,
                 wbuf, display>>

SendBand(t) ==
  /\ At(t, "send") /\ band[t] <= Bands
  /\ ~disconnected /\ ~suspended
  /\ display' = [display EXCEPT ![band[t]] = Source(t, band[t])]
  /\ band' = [band EXCEPT ![t] = @ + 1]
  /\ UNCHANGED <<frame, drmVars, refs, lifeVars, asyncFlush, lock, linkVars,
                 damageLock, stopping, slotVars, workVars, pc, then, held,
                 wbuf, ret>>

\* SET_BUFFER or the bulk transfer fails: the frame is abandoned.  After a
\* bulk timeout the device may have taken the rectangle all the same.
SendFailed(t) ==
  /\ At(t, "send") /\ band[t] <= Bands
  /\ ~disconnected /\ ~suspended /\ "usbError" \in Env
  /\ \/ UNCHANGED display
     \/ display' = [display EXCEPT ![band[t]] = Source(t, band[t])]
  /\ Fail(t, "EIO")
  /\ Unlock
  /\ Go(t, AfterSend(t))
  /\ UNCHANGED <<frame, drmVars, refs, lifeVars, asyncFlush, linkVars,
                 damageLock, stopping, slotVars, workVars, then, held, band,
                 wbuf>>

SendDone(t) ==
  /\ At(t, "send") /\ band[t] = Bands + 1
  /\ Unlock
  /\ Go(t, AfterSend(t))
  /\ UNCHANGED <<frame, drmVars, refs, lifeVars, asyncFlush, linkVars,
                 damageLock, stopping, slotVars, workVars, then, localVars,
                 display>>

-----------------------------------------------------------------------------
(* gud_flush_work.                                                         *)

WorkerStart ==
  /\ At("worker", "idle") /\ pending
  /\ pending' = FALSE
  /\ Go("worker", "take")
  /\ UNCHANGED <<frame, drmVars, refs, lifeVars, asyncFlush, lock, linkVars,
                 damageLock, stopping, slotVars, canceler, then, localVars,
                 display>>

WorkerTake ==
  /\ At("worker", "take") /\ damageLock = NoOne
  /\ IF asyncFb = NoFb
     THEN Go("worker", "idle") /\ UNCHANGED <<held, asyncFb, wbuf, ret>>
     ELSE /\ held' = [held EXCEPT !["worker"] = asyncFb]
          /\ asyncFb' = NoFb
          /\ wbuf' = shadow
          /\ Fail("worker", "ok")
          /\ Go("worker", "lock")
  /\ UNCHANGED <<frame, drmVars, refs, lifeVars, asyncFlush, lock, linkVars,
                 damageLock, stopping, shadow, shadowLen, pix, workVars, then,
                 band, display>>

WorkerUnref ==
  /\ At("worker", "unref")
  /\ Put(held["worker"]) /\ held' = [held EXCEPT !["worker"] = NoFb]
  /\ wbuf' = 0
  /\ Go("worker", "idle")
  /\ UNCHANGED <<frame, drmVars, lifeVars, asyncFlush, lock, linkVars,
                 damageLock, stopping, slotVars, workVars, then, band, ret,
                 display>>

-----------------------------------------------------------------------------
(* gud_async_stop and gud_async_cancel.                                    *)

AsyncStop(t) ==
  /\ At(t, "stop") /\ damageLock = NoOne
  /\ stopping' = TRUE
  /\ Go(t, "cancel")
  /\ UNCHANGED <<frame, drmVars, refs, lifeVars, asyncFlush, lock, linkVars,
                 damageLock, slotVars, workVars, then, localVars, display>>

\* cancel_work_sync takes the work item off the queue, one canceller at a time,
CancelGrab(t) ==
  /\ At(t, "cancel") /\ canceler = NoOne
  /\ canceler' = t /\ pending' = FALSE
  /\ Go(t, "wait")
  /\ UNCHANGED <<frame, drmVars, refs, lifeVars, asyncFlush, lock, linkVars,
                 damageLock, stopping, slotVars, then, localVars, display>>

\* ... and returns when a running instance has finished.
WorkerDoneMutant == TRUE
WorkerDone == At("worker", "idle")

CancelWait(t) ==
  /\ At(t, "wait") /\ WorkerDone
  /\ canceler' = NoOne
  /\ Go(t, "free")
  /\ UNCHANGED <<frame, drmVars, refs, lifeVars, asyncFlush, lock, linkVars,
                 damageLock, stopping, slotVars, pending, then, localVars,
                 display>>

FreeShadow(t) ==
  /\ At(t, "free") /\ damageLock = NoOne
  /\ held' = [held EXCEPT ![t] = asyncFb]
  /\ asyncFb' = NoFb /\ shadow' = 0 /\ shadowLen' = 0
  /\ pix' = [b \in BandSet |-> 0]
  /\ Go(t, "put")
  /\ UNCHANGED <<frame, drmVars, refs, lifeVars, asyncFlush, lock, linkVars,
                 damageLock, stopping, workVars, then, band, wbuf, ret,
                 display>>

PutTaken(t) ==
  /\ At(t, "put")
  /\ Put(held[t]) /\ held' = [held EXCEPT ![t] = NoFb]
  /\ Go(t, then[t])
  /\ UNCHANGED <<frame, drmVars, lifeVars, asyncFlush, lock, linkVars,
                 damageLock, stopping, slotVars, workVars, then, band, wbuf,
                 ret, display>>

-----------------------------------------------------------------------------
(* USB disconnect, DRM unplug and unload; power management; sysfs.         *)

\* gud_disconnect waits for gud->lock before it sets disconnected.
LinkIdleMutant == TRUE
LinkIdle == lock = NoOne

Disconnect ==
  /\ "unplug" \in Env /\ At("usb", "idle") /\ LinkIdle
  /\ disconnected' = TRUE
  /\ Go("usb", "stop") /\ then' = [then EXCEPT !["usb"] = "unplug"]
  /\ UNCHANGED <<frame, drmVars, refs, lifeVars, asyncFlush, lock, suspended,
                 damageLock, stopping, slotVars, workVars, localVars, display>>

\* drm_unplug_dev unloads the driver unless a file is still open; it and the
\* last close exclude each other by drm_global_mutex.
Unplug ==
  /\ At("usb", "unplug") /\ ~closing
  /\ unplugged' = TRUE
  /\ IF open THEN Go("usb", "done") /\ UNCHANGED then
             ELSE Go("usb", UnloadEntry) /\ then' = [then EXCEPT !["usb"] = "kfree"]
  /\ UNCHANGED <<frame, drmVars, refs, open, closing, freed, asyncFlush, lock,
                 linkVars, damageLock, stopping, slotVars, workVars, localVars,
                 display>>

\* The end of gud_drm_unload.
FreeDevice(t) ==
  /\ At(t, "kfree")
  /\ freed' = TRUE
  /\ Go(t, "done")
  /\ UNCHANGED <<frame, drmVars, refs, open, closing, unplugged, asyncFlush,
                 lock, linkVars, damageLock, stopping, slotVars, workVars,
                 then, localVars, display>>

\* gud_suspend: a trylock that fails returns -EBUSY and changes nothing.
Suspend ==
  /\ "suspend" \in Env /\ At("usb", "idle") /\ lock = NoOne /\ ~suspended
  /\ suspended' = TRUE
  /\ UNCHANGED <<frame, drmVars, refs, lifeVars, asyncFlush, lock,
                 disconnected, damageLock, stopping, slotVars, workVars, pc,
                 then, localVars, display>>

Resume ==
  /\ At("usb", "idle") /\ lock = NoOne /\ suspended
  /\ suspended' = FALSE
  /\ UNCHANGED <<frame, drmVars, refs, lifeVars, asyncFlush, lock,
                 disconnected, damageLock, stopping, slotVars, workVars, pc,
                 then, localVars, display>>

\* async_flush has mode 0644: root may write it at any time.  An instance with
\* "quietToggle" leaves out only the switch to synchronous while a queued frame
\* may still follow.
ToggleAsync ==
  /\ ~freed
  /\ \/ "toggle" \in Env
     \/ /\ "quietToggle" \in Env
        /\ asyncFlush => ~pending /\ At("commit", "idle") /\ At("worker", "idle")
  /\ asyncFlush' = ~asyncFlush
  /\ UNCHANGED <<frame, drmVars, refs, lifeVars, lock, linkVars, damageLock,
                 stopping, slotVars, workVars, pc, then, localVars, display>>

\* Nothing is left to do once the device is gone.
Gone == freed /\ UNCHANGED vars

-----------------------------------------------------------------------------
SendStep(t) ==
  LockLink(t) \/ SendRefused(t) \/ SendBand(t) \/ SendFailed(t) \/ SendDone(t)

CancelStep(t) ==
  \/ AsyncStop(t) \/ CancelGrab(t) \/ CancelWait(t)
  \/ FreeShadow(t) \/ PutTaken(t) \/ FreeDevice(t)

CommitStep ==
  \/ PipeOff \/ PrepareUpdate \/ CompleteCommit \/ LastClose
  \/ QueueEnter \/ CopyBand \/ RetainFb \/ QueueWork \/ DropOldFb
  \/ SendStep("commit") \/ CancelStep("commit")

WorkerStep == WorkerStart \/ WorkerTake \/ SendStep("worker") \/ WorkerUnref

UsbStep == Unplug \/ CancelStep("usb")

UserStep ==
  \/ \E f \in Fbs : AddFb(f) \/ RmFb(f)
  \/ \E f \in Fbs, mode, on \in BOOLEAN : Commit(f, mode, on)
  \/ \E c \in BOOLEAN : CommitOff(c)
  \/ OpenAgain \/ ToggleAsync

PowerStep == Disconnect \/ Suspend \/ Resume

Next == UserStep \/ PowerStep \/ CommitStep \/ WorkerStep \/ UsbStep \/ Gone

\* A started commit, a queued work item and a started disconnect go on: each is
\* kernel code that runs, and every USB transfer it makes has a time limit.
Fairness == WF_vars(CommitStep) /\ WF_vars(WorkerStep) /\ WF_vars(UsbStep)

Spec     == Init /\ [][Next]_vars
FairSpec == Spec /\ Fairness
-----------------------------------------------------------------------------
(* Properties.                                                             *)

\* Every variable has its type.
CountType == frame \in Version /\ refs \in [Fbs -> Nat]
DrmType ==
  /\ planeFb \in FbPtr /\ prevFb \in FbPtr
  /\ active \in BOOLEAN /\ modeChanged \in BOOLEAN
  /\ fbs \in SUBSET Fbs
LifeType ==
  /\ open \in BOOLEAN /\ closing \in BOOLEAN
  /\ unplugged \in BOOLEAN /\ freed \in BOOLEAN
LinkType ==
  /\ disconnected \in BOOLEAN /\ suspended \in BOOLEAN
  /\ asyncFlush \in BOOLEAN /\ stopping \in BOOLEAN
  /\ lock \in Senders \cup {NoOne} /\ damageLock \in {"commit", NoOne}
SlotType ==
  /\ asyncFb \in FbPtr /\ shadow \in Version /\ shadowLen \in Nat
  /\ pix \in [BandSet -> Version]
WorkType == pending \in BOOLEAN /\ canceler \in Stoppers \cup {NoOne}
PcType   == pc \in [Threads -> Labels] /\ then \in [Stoppers -> Labels]
LocalType ==
  /\ held \in [Threads -> FbPtr]
  /\ band \in [Senders -> 1..(Bands + 1)]
  /\ wbuf \in Version
  /\ ret \in [Senders -> Results]
DisplayType == display \in [BandSet -> Version \cup {Garbage}]
TypeOK == /\ CountType /\ DrmType /\ LifeType /\ LinkType /\ SlotType
          /\ WorkType /\ PcType /\ LocalType /\ DisplayType

\* Holders of references to f: its handle and each pointer that owns one.
One(b) == IF b THEN 1 ELSE 0
Holders(f) ==
  One(f \in fbs) + One(planeFb = f) + One(prevFb = f) + One(asyncFb = f)
  + One(held["commit"] = f) + One(held["worker"] = f) + One(held["usb"] = f)

\* A framebuffer's count is the number of its holders: the retained and the
\* dropped references of gud_fb_queue_damage, gud_flush_work and
\* gud_async_cancel balance in every interleaving, so that none is leaked and
\* none is freed while the worker uses it.
RefsBalance == \A f \in Fbs : refs[f] = Holders(f)

\* The worker reads through its local shadow_buf only while that buffer is
\* allocated and as long as the frame: gud_async_cancel may free it after the
\* worker took the pointer, and only disconnected then keeps the worker off it.
SafeReads ==
  At("worker", "send") /\ ~disconnected =>
    /\ wbuf # 0 /\ wbuf = shadow
    /\ shadowLen = Len[held["worker"]]

\* Once gud_drm_unload has freed the device no thread is inside the driver, no
\* work item is queued, and the driver holds no framebuffer.
UnloadIsLast ==
  freed =>
    /\ At("worker", "idle") /\ ~pending
    /\ \A t \in Stoppers : pc[t] \in {"idle", "done"}
    /\ asyncFb = NoFb /\ shadow = 0
    /\ \A f \in Fbs : refs[f] = 0

\* gud_disconnect waits for the frame in flight: after it has set disconnected,
\* no sender is between two rectangles.
DisconnectWaits ==
  disconnected => \A t \in Senders : At(t, "send") => band[t] = 1

\* Nothing is running that would still change the display.
AtRest == At("commit", "idle") /\ At("worker", "idle") /\ ~pending

\* At rest a connected display shows, in every band, the newest framebuffer
\* committed, unless an error stopped it: coalescing, tearing by a copy that
\* overtakes the worker, and cancelled work never leave an old or mixed frame.
NewestAtRest ==
  AtRest /\ planeFb # NoFb /\ ~disconnected
         /\ ret["commit"] = "ok" /\ ret["worker"] = "ok"
    => \A b \in BandSet : display[b] = frame

\* A started commit completes (and sends its event) whatever the worker and
\* disconnect do: cancel_work_sync under no lock, and no lock held for ever.
CommitCompletes == ~At("commit", "idle") ~> pc["commit"] \in {"idle", "done"}

\* Commit v ends without error in a frame on the plane.
Accepted(v) ==
  /\ At("commit", "complete") /\ planeFb # NoFb
  /\ frame = v /\ ret["commit"] = "ok"

\* A commit that completed without error is shown by every band, it or a newer
\* one, unless the worker fails, the device goes, or a mode disable or the
\* last close cancels it.
Shown(v) ==
  \/ \A b \in BandSet : display[b] >= v
  \/ disconnected \/ ret["worker"] # "ok" \/ canceler = "commit"
CommitShown == \A v \in 1..MaxFrames : Accepted(v) ~> Shown(v)

\* A frame that an update hands to gud_fb_queue_damage is shown, or a newer one,
\* also when the shadow buffer cannot be allocated: the update falls back to the
\* synchronous transfer then.
HandedOver(v) == At("commit", "enter") /\ frame = v
FallbackShows == \A v \in 1..MaxFrames : HandedOver(v) ~> Shown(v)

\* A device that is unplugged and closed is freed.
UnplugFrees == unplugged /\ ~open ~> freed

\* The frame path as the mailbox it promises to be: see FrameMailbox.
Mailbox == INSTANCE FrameMailbox WITH newest <- frame, shown <- display
MailboxSpec == Mailbox!Spec

\* Frames are sent band by band as FrameSender says, which GudTransfer, where a
\* band is made, sent and retried, implements as well: nobody else's band comes
\* in between, a frame without an error is complete, and no band follows after
\* gud_disconnect has marked the device.
SentBands == IF lock = NoOne THEN {} ELSE 0..(band[lock] - 2)
Outcome == [t \in Senders |-> IF ret[t] = "ok" THEN "ok" ELSE "error"]
Sender == INSTANCE FrameSender WITH
  owner <- lock, rows <- IF lock = NoOne THEN 0 ELSE Bands, got <- SentBands,
  result <- Outcome, gone <- disconnected
SenderSpec == Sender!Spec
=============================================================================
