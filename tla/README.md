# A TLA+ verification of the GUD USB display stack

GUD (Generic USB Display) shows a Linux desktop on a display that hangs off
another Linux machine's USB gadget port.  This repository carries both ends: a
host driver backported to Linux 4.9 (`backport-4.9/`) and, as kernel patches,
the gadget driver (`buildroot/external/linux-patches/gud_gadget/`).  This
directory holds TLA+ models of that code, the TLC configurations that check
them, and TLAPS proofs about them.

## The system

| component | source | state | operations |
|---|---|---|---|
| host frame path | `backport-4.9/gud_pipe.c` | `async_fb`, `shadow_buf`, `async_stopping`, work item, `gud->lock`, `damage_lock` | `gud_pipe_check/disable/update`, `gud_fb_queue_damage`, `gud_flush_work`, `gud_pipe_transfer_xdisp_buffer`, `gud_async_cancel/stop` |
| host requests | `gud_pipe.c`, `gud_transfer_retry.h`, `gud_protocol.h` | one URB, one coherent bulk buffer | `gud_usb_set`, `gud_usb_bulk_write`, busy and `-EAGAIN` retries |
| frame layout | `gud_frame_layout.h`, planner in `gud_pipe.c` | none | `gud_format_frame_layout`, range check, split in rectangles |
| host lifecycle | `gud_drv.c`, `gud_internal.h` | `disconnected`, `pm_suspended`, `struct gud_device` itself | probe and its unwinding, disconnect, unload, suspend, resume |
| reconnect monitor | `gud_reconnect.c` | one slot (`hcd`, `portnum`), counters, a delayed work item | `arm`, `cancel`, `work`, `exit` |
| host GEM | `gud_gem_4_9.c`, `gud_fb_create/destroy` | references, page array and kernel mapping of a buffer object | create, get_pages, vmap, fault, mmap, free |
| host connector | `gud_connector.c` | mode list | detect, get_modes |
| gadget function | patch 0005 (`f_gud.c`) | `ctrl_pending`, `status_pending`, `bulk_pending`, `disable_pending`, `host_timeout`, `errno` | setup, completions, worker, set_alt, disable, bind, unbind |
| gadget display | patches 0001-0004, 0006 (`gud_gadget.c`) | `buffer`, `buffer_check`, `check_ok`, `set_buffer_*`, `usecnt` | state check and commit, SET_BUFFER, write, disable, client unregister |

How they interact.  A DRM commit calls the frame path, which either sends the
frame itself or queues a copy for the work item; both sides send through
`gud_pipe_transfer_xdisp_buffer`, one SET_BUFFER control request and one bulk
transfer per rectangle, under `gud->lock`.  `gud_disconnect` (USB hub thread)
sets `disconnected` under the same lock, stops the work item, arms the
reconnect monitor and unplugs the DRM device; `gud_drm_unload` frees the device
then, or at the last close.  On the gadget, `f_gud_setup` (interrupt) and
`f_gud_worker` (process) hand requests over in flags under a spinlock; the
worker calls the gadget display code.

## What is hard here

`PROJECT.json` lists each hazard at its line.  In short: a work item that
outlives the lock its data was read under; cancelling that work item from
three places; references that move between pointers guarded by different
locks; a disconnect at any instant of a frame; a gadget whose interrupt side
and worker side disagree about which request is being answered; timeouts on
the host that race completions on the gadget; a one-slot monitor re-armed while
it is being cancelled; sizes at the edge of 32 bits.

## Modules

| module | models | status |
|---|---|---|
| `GudFlush` | the frame path of the host: commit, damage queue, work item, transfer loop, disconnect, unload, suspend | done |
| `FrameMailbox` | what the frame path promises: a one-frame mailbox; `GudFlush` refines it | done |
| `FrameSender` | what sending frames promises, in rows or in bands; `GudFlush` and `GudTransfer` both refine it | done |
| `GudFlushProofs` | theorems about `GudFlush`, and that it refines `FrameSender` | done |
| `GudMailboxProofs` | that `GudFlush` refines `FrameMailbox`, and theorems about rest and unload | done |
| `FrameLayout` | the arithmetic of frames, buffer objects, framebuffers and rectangles | done |
| `FrameLayoutProofs` | theorems about `FrameLayout` | done |
| `GudTransfer` | how one frame is sent: rectangles, SET_BUFFER, the URB, retries, timeout; both builds and the probe payload; extends `FrameLayout` | done |
| `GudTransferProofs` | theorems about `GudTransfer`, and that it refines `FrameSender` | done |
| `GudGem` | buffer objects, framebuffers and mappings; extends `FrameLayout` | done |
| `GudGemProofs` | theorems about `GudGem` | done |
| `GudDevice` | probe and its error labels, users of the node and the connector, disconnect, unload | done |
| `GudDeviceProofs` | theorems about `GudDevice` | done |
| `GudReconnect` | the reconnect monitor | done |
| `PortMonitor` | what the monitor promises of its recovery signal; `GudReconnect` refines it | done |
| `GudReconnectProofs` | theorems about `GudReconnect`, and that it refines `PortMonitor` | done |
| `GudFunction` | the USB function of the gadget (`f_gud.c`) and the requests and bulk transfers of a host that may give up on them | done |
| `RequestServer` | what a host may rely on: requests executed in order, at most once, and answered truly; `GudFunction` refines it | done |
| `GudFunctionProofs` | theorems about `GudFunction`, and that it refines `RequestServer` | done |
| `MCGudFlush`, `MCGudTransfer`, `MCGudGem`, `MCGudDevice`, `MCGudReconnect`, `MCGudFunction` | instances for TLC | done |

The modules overlap where components meet.  `GudFlush` sends a rectangle in one
step that succeeds or fails; `GudTransfer` is that step, and the loop around it,
at the detail of single calls of the USB core, with its senders' order left
open.  That the first may stand for the second is what `FrameSender` is for: both
implement it, `GudFlush` counting a frame in bands and `GudTransfer` in rows, so
that a frame which ends well is complete, frames do not mix, and nothing
arrives after the disconnect, in either.  `GudFunction` is the other end of the cable.  `GudDevice` knows of the
frame path only when it is stopped; `GudFlush` has the instants of a frame at
which the device may go.

### `GudFlush`

Three threads, each with a program counter: `commit` (the serialized commit
tail of the only CRTC, and the file operations around it), `worker`
(`gud_flush_work` on `system_long_wq`) and `usb` (the hub thread in
`gud_disconnect`).  A step is one critical section of `gud->lock` or
`damage_lock`, one rectangle of a frame, or the code between two of these.

| code | actions |
|---|---|
| `gud_pipe_check`, atomic helpers | `Commit`, `CommitOff` |
| `gud_pipe_disable` | `CancelGrab` ... `PutTaken`, then `PipeOff` |
| `gud_pipe_prepare_update` | `PrepareUpdate` |
| `gud_fb_queue_damage` | `QueueEnter`, `CopyBand`, `RetainFb`, `QueueWork`, `DropOldFb` |
| `gud_pipe_transfer_xdisp_buffer` | `LockLink`, `SendRefused`, `SendBand`, `SendFailed`, `SendDone` |
| `gud_flush_work` | `WorkerStart`, `WorkerTake`, the send actions, `WorkerUnref` |
| `gud_async_stop`, `gud_async_cancel` | `AsyncStop`, `CancelGrab`, `CancelWait`, `FreeShadow`, `PutTaken` |
| `gud_disconnect`, `drm_unplug_dev`, `drm_release`, `gud_drm_unload` | `Disconnect`, `Unplug`, `LastClose`, `FreeDevice` |
| `gud_suspend`, `gud_resume` | `Suspend`, `Resume` |

Pixels are versions: commit number *v* draws *v* into every band (the rows of
one rectangle).  `shadow` is the version that allocated the live buffer, so
that the worker's stale pointer `wbuf` can be told from a buffer allocated
later; a read through a stale pointer yields `Garbage`.  The DRM core and the
workqueue are not under `src/`; their parts (reference counts, who may run with
whom, what `queue_work` does while an item is being cancelled) are modelled as
the driver uses them.

### `FrameLayout`

Operators, without state.  A check the code makes before a multiplication is a
conjunct with the type's largest value (`U32Max`, `SizeMax`) as a constant, so
that TLC can use words of six bits and the proofs any width.  A product the code
does not check wraps: the u32 product in `gud_pipe_check` (`PitchOk`) and the
two size_t products in `gud_xdisp_buffers_init` (`XdispLine`, `XdispCapacity`).
`DumbOk`/`DumbSize` are `gud_gem_dumb_create`, `FbOk` is `gud_fb_create`,
`XdispOk` is `gud_xdisp_buffers_init`, `Rows` is the planner in the loops of
`gud_pipe_transfer*`.

### `GudTransfer`

Senders (a commit, the flush worker) with a program counter, the URB's
completion, the hub thread and whoever writes the probe parameter.  A step is a
call of the USB core, the copy of a rectangle to the coherent buffer, or what
the sender computes between two of these.  A rectangle records who sends it, its
rows and lengths; `drawn` (history) counts how often the gadget received each
row.

| code | actions |
|---|---|
| `gud_pipe_transfer`, `gud_pipe_transfer_xdisp` | `BeginFrame`, `BeginRefused`, `Finish` |
| `gud_pipe_transfer_xdisp_probe` | `BeginProbe`, then the send actions |
| the rectangle loop of both builds | `Lock`, `LastRect`, `NextRect`, `SetBuffer`, `SetBufferFails`, `Advance` |
| `gud_usb_bulk_write` | `Submit`, `SubmitFails`, `Completed`, `Timeout`, `Kill` |
| `gud_bulk_complete` | `Complete` |
| `gud_xdisp_lz4_compress_limited` | `Compressed` |

The probe payload is a test path that takes no lock, so the device may be
marked between its SET_BUFFER and its payload (its pause is there for that).
The model assumes what the test needs anyway: who runs it sends nothing else,
and does not change the parameter during a frame.

### `GudGem`

The threads of one process share a file of the DRM node and run one ioctl at a
time each; a step is a read or a write of the object that others may read.
Page arrays and kernel mappings are numbered, so that an array that was
overwritten or freed can be told from the current one.

| code | actions |
|---|---|
| `gud_gem_dumb_create`, `gud_gem_create` | `Create`, `CreateHandle`, `CreateReturn` |
| `gud_gem_get_pages` | `CheckPages`, `GetPages`, `TestPages` |
| `gud_gem_dumb_map_offset`, `gud_drm_gem_mmap` | `MapOffset`, `MapUnref`, `Mmap`, `Munmap` |
| `gud_fb_create`, `gud_fb_destroy` | `AddFb`, `AddFbChecked`, `PutFb` |
| `gud_gem_vmap` and the transfer that reads through it | `Commit`, `Check`, `CheckVaddr`, `Vmap`, `Read`, `Swap` |
| `gud_gem_free_object` | the last `Put` |

### `GudDevice`

`gud_probe`, `gud_xdisp_buffers_init`, `gud_drm_init` and `gud_pipe_init` are
straight lines that acquire things, and so are their error labels and
`gud_drm_unload`.  They are given as tables of what a line takes or drops and
where it goes, one for each function and one for its labels: `GudProbe` and
`ProbeUnwind`, `BuffersInit` and `BuffersUnwind`, `DrmInit` and `DrmUnwind`,
`PipeInit` and `PipeUnwind`.  `Probe` and `Unwind` join them, and `ProbeStep`,
`ProbeFails`, `UnwindStep` walk the result; `Unload` is walked by `UnloadStep`.
The one error label of `gud_pipe_init` stands twice in `PipeUnwind`, for what
there is of the mode configuration when it is reached.  Users open and close the node and ask for modes (`GetConnector`,
`Detect`, `AllocModes`, `LockModes`, `ModesAnswer`, `AddModes`); `Ioctl` stands
for any other use of the device.  `Disconnect`, `Mark`, `StopAndArm`, `Unplug`
are `gud_disconnect`.  `drm_global_mutex` makes open, close and the end of
`drm_unplug_dev` atomic.  `gud_drm_fini` is called by nobody.

### `GudReconnect`

Each device's probe and disconnect are serial (the device lock), but devices,
the delayed work item and module exit interleave freely.  `slot` is the pair
(`hcd`, `portnum`); `held[t]` is the local variable through which a thread
drops a reference after it has left the spinlock.  `Disconnect`+`Arm` or
`ArmRefused` are `gud_reconnect_arm`, `Probe`+`CancelTake`/`CancelNothing`,
`Grab`, `Wait`, `Put` are `gud_reconnect_cancel`, `ExitTake` and the same three
are `gud_reconnect_exit`, `WorkStart`, `PollNothing`, `Poll`, `Report` are
`gud_reconnect_work`.  A poll reads the true state of the port or fails to read
it.  `down` and `quiet` are history variables; no guard reads them.  In
`PortMonitor` the work item's locals are the signal on its way, and the monitor is
closed when `gud_reconnect_exit` has returned.

### `GudFunction`

The host makes one request at a time, as `gud->lock` makes it do; `step` is its
place in `gud_usb_set` and `gud_pipe_transfer_xdisp_buffer`.  The gadget is
three contexts: the setup handler and the completions (interrupts) and
`f_gud_worker`, whose steps (`work`) are its critical sections and its calls of
the display code.  Values that a property must trace carry the number of the
request they belong to: `errno` and the status carry whose result they are,
`bufOf`, `bulkQ`, `payload` and `rect` which request filled them.

| code | actions |
|---|---|
| `gud_usb_set` | `NewRequest`, `Stall`, `GiveUp`, `ReadStatus` |
| SET_BUFFER and bulk in `gud_pipe_transfer_xdisp_buffer` | `UseStatus`, `BulkDone`, `BulkTimeout`, `Proceed` |
| `f_gud_setup` | `SetupRefuse`, `SetupGet`, `SetupSet` and `SetupReturn` (it drops the lock between them), `AskStatus` |
| `f_gud_ctrl_req_complete`, `f_gud_bulk_complete` | `OutData`, `BulkReceived` |
| `f_gud_worker` | `WorkStart`, `WorkRead`, `WorkDisable`, `WorkDisabled`, `WorkWrite`, `WorkWritten`, `WorkCheck`, `WorkSetBuffer`, `WorkAnswer` |
| `f_gud_disable`, `f_gud_set_alt` | `Disable`, `SetAlt` |

The UDC driver and the USB core are not under `src/`: a new SETUP packet ends
what endpoint 0 was doing, and `usb_ep_queue` refuses a disabled endpoint with
whichever error the UDC driver uses.  A request that is queued already is
refused by the UDC drivers that look, and queued anew by others (`QueueBulk`).
`StatusOnStall` tells the two kinds of host apart: the upstream driver and
`tests/gud` ask for the status of a stalled request, `gud_pipe.c` does not.
The gadget modelled is the kernel driver this repository patches in; the
user-space gadget the roadmap mentions lives in another repository.

`gud_pipe.c` takes the stall by which the function refuses a busy SET_BUFFER for
a failure of the frame: `gud_usb_set` returns before it asks for the status, so
its busy retry is only reached by a status of the worker (`AfterStatus`).

After a bulk transfer that the host gave up on, `bulk_req` may stay queued.  On a
UDC driver that looks, every later SET_BUFFER is then refused until the next
`set_alt`, and the code has no other way out; on another, the request is queued
twice, which the code does not mean to do either.  `RequeueNeedsTimeout` says that
nothing else leads there.  That SET_BUFFER changes the length of the queued request
first is left out: if the request cannot be queued nobody sends a payload for it.

`torn` is a history variable: a reset took a request from the hands of the worker
(`InHand`: the worker has seen it, and not answered it).  `CalmSpec` is the
specification without such resets.  Every other reset, at any other instant and
any number of them, belongs to it.

## What the runs check

| run | shows |
|---|---|
| `FlushSafety` | references, the shadow buffer's life, the order of disconnect and unload; `MailboxSpec` (the display never goes back to an older frame), `SenderSpec` and `NewestAtRest`, on a link that fails, sleeps and goes away, with failing allocations |
| `FlushFallback` | violation of `FallbackShows`: a frame whose shadow buffer cannot be allocated is dropped |
| `FlushLive` | `CommitCompletes`, `UnplugFrees` and `CommitShown` under fairness: an accepted commit, or a newer one, is shown, so no wakeup is lost |
| `Transfer` | rectangles, payloads and requests belong together, every row is sent once, the completion handler's context lives, every frame ends; `SenderSpec` |
| `Gem` | references balance under failing allocations, page arrays and mappings live as long as they are used and no longer, a frame lies within its mapping |
| `Device` | probe undoes what it did, users are served to the end of their ioctl, no request follows the mark, an unplugged device is freed |
| `Reconnect` | references, finality of exit, `MonitorSpec` (what a signal stands for, and when none may come), and `PollingEnds` under fairness: a monitor that is polled gives up its slot, or somebody is cancelling the work item |
| `ReconnectStuck` | violation of `MonitorEnds`: an armed monitor whose poll was removed never ends |
| `FunctionSafety` | whose status, control data, payload and rectangle each side uses, while the host gives up on any transfer and the bus is reset; `RequestSpec`: requests are executed in order, at most once, and answered to their host |
| `FunctionLive` | `RequestEnds` under fairness (no request needs a timeout to end, unless a reset tore one) and `DisableIsFinal`, with a reset of the bus at any instant |
| `FunctionLost` | violation of `StatusIsOwn`, once resets may tear a request |
| `GemPages` | violation of `NothingLeaks`, once two ioctls may ask for the pages of one object |

`FlushSafety` keeps `async_flush` at either value; `FlushLive` also switches it
(event `quietToggle`): on at any time, in the middle of a synchronous commit
included, but off only while no flush is queued and nobody sends, see the
observations below.  `CommitShown` excepts the failures that `Shown` names.

`FunctionSafety` checks `CalmSpec`, and `RequestEnds` asks for nothing once a request
was torn, since `FunctionLost` shows what such a reset does.  `Gem` lets one ioctl at a time ask for the pages of an object
(`Overlap` = FALSE), since `GemPages` shows what two do.

Four runs show a disagreement between the code and what the repository says of
it; `PROJECT.json` quotes the lines.

* `FlushFallback`: a failed allocation of the shadow buffer does not fall back to
  a synchronous transfer, as `backport-4.9/tests/test-xdisp-async-contract.sh:31`
  says: `ret` stays `-ENOMEM`, and `if (!ret)` (`gud_pipe.c:1387`) skips the
  transfer.  The frame is dropped, and nothing sends it later.
* `ReconnectStuck`: `gud_reconnect_cancel` leaves its lock before it cancels the
  work item all devices share, and so can remove the item that another device's
  disconnect has just scheduled.  The slot then stays occupied for ever.
* `FunctionLost`: `set_alt` and `disable` forget a request that the worker still
  executes.  Its result is then reported for the first request after the reset,
  which itself is never executed.
* `GemPages`: `gud_gem_get_pages` tests `obj->pages` and sets it without a lock.
  Two ioctls may both get an array; the first is overwritten and never put.

### Observations

What no run is about, though most of it is in the models:

* A mode change does not always quiesce the worker: the cancel sits in
  `gud_pipe_disable`, which an inactive CRTC does not run.  Turn the CRTC off
  while keeping its framebuffer (which queues a flush), then change the mode.
* A synchronous commit neither cancels nor waits for a queued flush: when
  `async_flush` is cleared while one is queued (event `toggle`), the older frame
  is sent after the newer, and `NewestAtRest` and `CommitShown` fail.
* `f_gud_worker` ends an abandoned request by storing its result in `errno`, over
  the `-EBUSY` of a request refused meanwhile: the host that asks why it was
  stalled reads OK.
* A dumb buffer of RGB565 with an odd width gets a padded pitch, which
  `gud_pipe_check` refuses (`PitchOk`): it can be created but never shown.
* `gud_connector_get_modes` sends its request also while the device is suspended
  (`pm_suspended`); only `gud_usb_set` and the transfer loop look at it.
* On a host with words of 32 bits, the bytes of a line of `max_width` pixels may
  wrap in `gud_xdisp_buffers_init`: probe then accepts a device whose buffers
  hold no row of that width, and its frames are refused later
  (`FramesAreSendable` has the condition that excludes this).
* `gud->intf` is borrowed (`gud_drv.c:184`): probe takes a reference on the USB
  device but none on the interface, and ioctls that end after `gud_disconnect`
  still follow the pointer (`gud_pipe.c:294`, `gud_connector.c:15`, `:30`), before
  they look at `disconnected`.

### Bounds

`GudFlush`: `MaxFrames` (2 or 3 commits with a framebuffer) bounds the versions.
Two are needed for a coalesced frame and for a frame that overtakes another;
the third makes a commit arrive while one frame is in flight and another is
queued.  `Bands` = 2 is the least for a frame torn between rectangles; the
liveness run uses 1, since where in a frame the sender is does not matter to
it.  Three framebuffers, of which one has another length, occur in
`FlushSafety` for the size check; two are enough for liveness.  `Env` names the
events an instance includes; it is a parameter because a run about order must
not contain the event (`toggle`) that breaks it.
`FlushFallback` needs one band, two framebuffers and two commits, the second of
which could still heal the loss of the first; nothing but an allocation fails.
`GudTransfer`: words of six bits and frames of two or three rows make every kind
of rectangle occur: all rows at once (18 bytes in a buffer of 20), several
rectangles with a shorter last one, a line as long as the buffer (12 bytes), a
row that does not fit, a frame without a layout.  One device is refused by probe,
one gets its capacity from a product that wraps (3 * 7 * 4 = 84, in six bits 20).  Three frames (`MaxFrames`) are one that fails, one that waits for the
lock meanwhile and one after it; `MaxRetries` = 1 stands for the code's limit of
`-EAGAIN` retries.
`GudGem`: two threads and two objects (a commit may swap them), one mapping per
object; the sizes in `MCGudGem` overflow, fit, have padded rows and an offset.
`GudDevice`: two users, three opens (`MaxOpens`): one user may come back while
the other is still inside.
`GudReconnect`: `StablePolls` = 2 and `MaxPolls` = 4 keep the relation of the
code's 15 and 6000 (several stable polls, fewer than all).  Three devices, two of
them behind one root port, and two controllers give every collision on the
slot: same port, other port of the same work item, exit.  Two devices are enough
for `ReconnectStuck`.
`GudFunction`: `MaxRequests` = 4 is enough for a request the host gave up on
(one in the worker, one refused), a SET_BUFFER with a payload in flight and one
that follows it, with a reset before, between or after; for liveness, three.
`MaxRetries` = 1 or 2 stands for the 100 busy retries: one that is repeated, and the
last one.
Framebuffers, devices and ports are not declared symmetric: the instances are
small and the liveness runs could not use it.

Deadlock is checked in every run.  The end of an execution is an explicit
stuttering step (`Gone`, `Unloaded`, `Sent`, `Over`), so any other stop is reported: a lock that
is never released, a canceller and a worker that wait for each other.

### Fairness

`WF` of the commit tail, the work item and the hub thread, as one action each
(`CommitStep`, `WorkerStep`, `UsbStep`): all are kernel threads that the
scheduler runs, and each USB transfer they make has a timeout, so a rectangle
ends, by `SendBand` or `SendFailed`.  Weak fairness is enough since a mutex
they wait for is held for one frame only.  `WF` of the polls, of exit and of each
device's call in `GudReconnect`: the timer expires and the threads run.  In
`GudFunction`, `WF` of `HostStep` (a transfer that can go on does) and of
`WorkStep`; giving up has no fairness, so that a request must end without it.
In `GudTransfer`, `WF` of each sender: control messages and the wait for the URB
have timeouts; a completion has no fairness.  In `GudDevice`, `WF` of the hub
thread, of unload and of each user inside an ioctl, and `SF` of each user's
`Close`: a process closes its file at some time even if it keeps asking for
modes, which disables the close again and again.
Other acts of user space and the environment (commits, opens, plug and unplug,
suspend, toggles, attach, detach, resets) have no fairness.

## What is proved

TLAPS checks these for every set of framebuffers, devices, ports, controllers
and users, every finite set of threads and buffer objects, every word width,
every number of rectangles and every bound.  The only assumptions are
`FlushAssumption`, `ReconnectAssumption`, `LayoutAssumption`,
`TransferAssumption`, `GemAssumption`, `DeviceAssumption` and
`FunctionAssumption`, which say what the constants are (TLC evaluates them), and
the conditions `CalmSpec`, `Untoggled` and `~Overlap` where they are named.  Each of
the three excludes just what the code is known not to handle (`FunctionLost`,
Observations, `GemPages`).

Four components implement an abstract specification, one of them two; each is
shown step by step:

| abstract | detailed | theorem |
|---|---|---|
| `FrameMailbox` | `GudFlush` | `GudMailboxProofs!ImplementsMailbox`, under `Untoggled` |
| `FrameSender` | `GudFlush` | `GudFlushProofs!SendsFrames` |
| `FrameSender` | `GudTransfer` | `GudTransferProofs!SendsFrames` |
| `PortMonitor` | `GudReconnect` | `GudReconnectProofs!MonitorIsPortMonitor` |
| `RequestServer` | `GudFunction` | `GudFunctionProofs!RequestsAreServed`, under `CalmSpec` and for the host of `gud_pipe.c` |

`GudFlushProofs`:
* `TypeCorrect`, `FramebuffersBalance`.  The balance of references is not
  inductive alone: where a thread may hold a reference depends on where it is.
  `RefInv` adds to `TypeOK` and `RefsBalance` the conjunct `LocalRefs`: a local
  is empty outside the code that owns it, so that taking a pointer into a local
  never overwrites a reference.
* `DisconnectIsOrdered`, from `LinkInv`: a sender between two rectangles owns
  `gud->lock`, and nobody sets `disconnected` without it.
* `SendsFrames`: each step is a step of `FrameSender` or none.  The bands before
  `band[lock]` are those that have arrived; `LinkInv` gives that no band follows
  the disconnect, and a commit or worker beside the link only changes its own
  result (`Aside`).
* `ShadowReadsAreSafe`, from `SlotInv`: the worker past its take and the holder
  of a cancel exclude each other unless `disconnected` is set, and `async_fb` is
  only retained when its length is that of the shadow buffer.

`GudMailboxProofs`:
* `ImplementsMailbox`: the frame path implements `FrameMailbox`, under
  `Untoggled`: `async_flush` is switched off only while the frame path is idle
  (and on at any time). The heart of the argument is `OrderInv`: while a
  framebuffer is retained or the worker sends, each band of the shadow buffer is
  at least as new as the same band of the display, so that no transfer takes the
  display back, torn as the buffer may be. `WayInv` says which of the two ways a
  commit goes, `AgeInv` that nothing is newer than the last commit.
* `RestShowsNewest`, under `Untoggled`, from `WakeInv` (a framebuffer that is
  retained has somebody who will take it: no wakeup is lost) and `NewestInv` (the
  last commit is in the shadow buffer, on its way, or shown, band by band).
* `DeviceIsFreedLast`, whatever `Env` is, from `OwnerInv` (one of the two stoppers
  unloads, and only when the file is closed and the device unplugged) and
  `StageInv` (what the unload has stopped and freed at each of its steps).

`GudReconnectProofs`:
* `TypeCorrect`, `HcdReferencesBalance`, from `RefInv`.  Here the balance is a
  cardinality, so the lemmas `CountAdd`, `CountDrop`, `GetRef`, `PutRef`,
  `GiveRef` and `TakeRef` say what each hand-over does to it; every action is
  one of these.  `PollsLeft` (an occupied slot has polls left) keeps the
  counters in range.
* `ExitQuiesces`, `UnloadLeaksNothing`, from `ExitInv`: once `stopping` is set
  no arm is accepted, so what exit waited for cannot return.
* `CancelHolds` and `SignalIsEarned`, from `SlotInv`.
* `MonitorIsPortMonitor`: these facts are the guards of `PortMonitor`'s steps, and
  the proof pairs each action with the step it is.  `ReportInv` adds that a signal
  on its way is the outcome of the poll that is being reported.

`FrameLayoutProofs` (about operators, for words of any width):
* `LayoutDoesNotWrap`, `DumbObjectHoldsItsRows`: no product that the code has
  checked wraps, and a dumb buffer holds the rows of the pitch it returns.
* `FrameLiesInObject`: what `gud_fb_create` and `gud_pipe_check` accept passes the
  range check before a transfer.
* `RowsFit`, `FramesAreSendable`: the split of a frame makes progress in whole rows
  that fit in the buffer and end with the frame, and the buffers that probe
  accepts hold a row of every mode, also when the bytes of the largest frame wrap,
  as long as those of a line of `max_width` fit in a word.  `Quotient` and
  `Remainder` are the division they rest on.

`GudTransferProofs`:
* `TypeCorrect`, which bounds every rectangle by its frame and by both buffers,
  `EachRowIsDrawnOnce`, `PayloadFollowsRequest`, `ContextOutlivesUrb`, from one
  invariant: one sender at a time is between `Lock` and `Finish` (`LockInv`), the
  buffer and the last SET_BUFFER are the sender's rectangle (`BulkInv`), the URB
  is in flight only while its sender waits for it (`UrbInv`), and the rows the
  gadget has received are those above the sender's position, plus those of a
  rectangle that has completed (`RowInv`, `DrawnInv`).  `RowsFit` is what moves the
  position from row to row.
* `SendsFrames`: the rows drawn are a prefix of the frame (`FirstRows`, from
  `DrawnInv`), so each completion is an `Arrive`, every way to the end of a frame an
  `End` (`EndSends`), and what happens beside the lock changes nothing that is sent
  (`GoesOn`, `OwnKept`).  `HeldInv` is the converse of `LockInv`, and says that a
  rectangle is only on its way while the device is not marked.

`GudGemProofs`:
* `TypeCorrect`, `ReferencesBalance`, `FrameIsMapped`, whatever ioctls meet.  Counts
  are cardinalities of sets of threads; the lemmas about them say what the step of
  one thread does.  `PlaceInv` says where two threads can meet: an object that is
  being created belongs to its creator alone.  `FbInv` keeps what a framebuffer
  was checked for until it is read, and `FrameLiesInObject` does the rest.
* `PagesOutliveUse`, `MemoryIsReleased`, under `~Overlap`: one ioctl at a time asks
  for the pages of an object, without which `GemPages` shows an array lost.
  `PageObj` says what `obj->pages` may be (an array, nothing, or an error code that
  its thread has not yet tested), `PlaceHas` what each place of an ioctl relies
  on, and `OwnInv` that every array and mapping is that of exactly one object.

`GudDeviceProofs`:
* `TypeCorrect`, `NothingIsLost`, `UsersAreServed`, `MessagesEndBeforeMark`, all
  from `DeviceInv`.  What probe and unload still hold is a function of where
  they are, so the invariant has one row per place (`AtHub`, `AtFini`); the
  lemmas `ProbeTable`, `UnwindTable` and `UnloadTable` show that each step leads
  from a row to the row of its target, and from them `NothingIsLost` is the last
  row of each.  Users are inside only between the registration and the unload,
  and `gud->lock` belongs to the one that is sending a message: this is what the
  hub thread relies on when it sets `disconnected`.

`GudFunctionProofs`:
* `TypeCorrect` and `ResetDisables` (of `DisableIsFinal`), whatever the bus does.
* `StatusBelongs`, `RequestDataIsStable` and `RequeueOnlyAfterGivingUp`, of `CalmSpec`
  and for every host: timeouts at any instant, and every reset except those that
  tear a request, which `FunctionLost` shows to break them.
* `PayloadIsExpected` and `PayloadGoesToItsRect`, of `CalmSpec` and for the host of
  `gud_pipe.c`, which does not ask why it was stalled (`~StatusOnStall`).
* `RequestsAreServed`, under the same conditions: setup handler, worker and host
  together implement `RequestServer`.
  The invariant says what each combination of the function's flags means:
  `ctrl_pending` is set while the worker has the request (`WorkInv`), a status
  that is awaited or delivered is that of the last request accepted (`AskInv`,
  `StatusInv`), nothing is in the worker's hands while the function is down
  (`DownInv`), a request that is about to be executed is newer than the last one
  executed, or was refused busy (`FreshInv`, `StallInv`), and a `bulk_req` that is
  queued belongs to the last SET_BUFFER that succeeded (`BulkInv`) unless the host
  gave up once (`PatientInv`).

Every safety property that the passing runs check, refinements included, is so
proved.  Only
model-checked: liveness (`CommitCompletes`, `UnplugFrees`, `CommitShown`,
`PollingEnds`, `TransferEnds`, `DeviceFreed` and `RequestEnds`), which the prover
cannot reach under fairness.

## What is not modelled

* Pixel formats, conversion and compression (`xrgb8888` conversions, LZ4):
  data, not control.  The vendored codec and the LZ4 build variant stay out.
* The contents of mode lists and EDID; `GudDevice` has the messages that fetch
  them, since these need the device.
* The frame path of the build without asynchronous flush is only in
  `GudTransfer` (its rectangles and its bulk transfer), not in `GudFlush`.
* The gadget's display code (`gud_gadget.c`) beyond what `GudFunction` needs of
  it, and the DRM client helpers of patches 0001 to 0003, which belong to the
  kernel.
* Bind and unbind of the USB function.
* The interface `gud->intf` points to, which the USB core owns (see Observations).
* Host test programs, shell harnesses, benchmarks and recorded evidence.

## Plan

Done: `GudFlush` with `FrameMailbox`, `GudReconnect` with `PortMonitor`,
`FrameLayout`, `GudTransfer`, `FrameSender`, `GudGem`, `GudDevice` and `GudFunction`
with `RequestServer`, and their proofs.  Left:

1. `GudDisplay`: `gud_gadget.c` under its own locks: state check and commit,
   the flush worker, controller and display enable, client unregister (which
   waits for what it has just prevented).
2. Bind, unbind and the `-EAGAIN` retry in `GudFunction`.
3. Proofs: an abstract life of the device (usable, marked, gone) that `GudDevice`
   implements.
