----------------------------- MODULE GudDevice -----------------------------
(***************************************************************************)
(* The life of a device on the host: gud_probe acquires one resource after *)
(* the other, or unwinds what it has acquired; processes open the DRM node *)
(* and ask for modes; gud_disconnect takes the device away under them; and *)
(* gud_drm_unload frees it, then or at the last close.                     *)
(*                                                                         *)
(* Probe and disconnect run in the hub thread, one after the other; users  *)
(* run beside it.  The paths of probe, of its error labels and of unload   *)
(* are straight lines, given as tables: what a step takes or drops, and    *)
(* where it goes.  A step is one such line, or a critical section.         *)
(***************************************************************************)
EXTENDS Integers

CONSTANTS
  Users,     \* threads that use the DRM node, each with a file of its own
  MaxOpens   \* bound: how often the node is opened

ASSUME DeviceAssumption == "none" \notin Users /\ MaxOpens \in Nat

Buffers   == {"workmem", "scratch", "bulk", "urb"}
ModeConfig == {"config", "connector", "pipe"}
Resources == {"gud", "usb", "drm", "node"} \cup Buffers \cup ModeConfig

VARIABLES
  xdisp,         \* GUD_XDISP_FULL_UPDATE
  hub,           \* the hub thread: a row of one of the tables, or a place below
  held,          \* what has been acquired and not yet given up
  lost,          \* history: something was given up that was not held
  intfdata,      \* the interface knows its gud_device
  lock,          \* gud_device.lock
  disconnected,  \* gud_device.disconnected
  unplugged,     \* drm_device.unplugged
  opens,         \* bound: opens so far
  user,          \* a user's place
  fini           \* who runs gud_drm_unload, and its row

vars == <<xdisp, hub, held, lost, intfdata, lock, disconnected, unplugged, opens,
          user, fini>>

Row(set, next, fail) == [set |-> set, next |-> next, fail |-> fail]
Join(s, t) == [x \in DOMAIN s \cup DOMAIN t |-> IF x \in DOMAIN s THEN s[x] ELSE t[x]]

\* What gud_probe and the functions it calls do: a row takes its resources, or
\* fails and goes to an error label ("" if it cannot fail).
GudProbe ==
  [gud        |-> Row({"gud"}, "usb", "failed"),
   usb        |-> Row({"usb"}, "endpoint", ""),
   endpoint   |-> Row({}, "descriptor", "err_put_usb"),
   descriptor |-> Row({}, IF xdisp THEN "workmem" ELSE "drm", "err_put_usb")]

BuffersInit ==
  [workmem |-> Row({"workmem"}, "scratch", "err_put_usb"),
   scratch |-> Row({"scratch"}, "bulk", "err_workmem"),
   bulk    |-> Row({"bulk"}, "urb", "err_scratch"),
   urb     |-> Row({"urb"}, "drm", "err_bulk")]

DrmInit ==
  [drm      |-> Row({"drm"}, "config", "err_free_xdisp"),
   register |-> Row({"node"}, "intfdata", "err_mode_config")]

PipeInit ==
  [config    |-> Row({"config"}, "connector", ""),
   connector |-> Row({"connector"}, "pipe", "err_connector"),
   pipe      |-> Row({"pipe"}, "register", "err_pipe")]

Probe == Join(Join(GudProbe, BuffersInit), Join(DrmInit, PipeInit))

\* Their error labels, from the innermost.
BuffersUnwind ==
  [err_bulk    |-> Row({"bulk"}, "err_scratch", ""),
   err_scratch |-> Row({"scratch"}, "err_workmem", ""),
   err_workmem |-> Row({"workmem"}, "err_put_usb", "")]

\* Mutant of PipeUnwind: gud_drm_init cleans up what gud_pipe_init has cleaned up.
PipeUnwindMutant ==
  [err_connector |-> Row({"config"}, "err_mode_config", ""),
   err_pipe      |-> Row({"config", "connector"}, "err_mode_config", "")]

\* One label, which cleans up what there is of the mode configuration.
PipeUnwind ==
  [err_connector |-> Row({"config"}, "err_unref", ""),
   err_pipe      |-> Row({"config", "connector"}, "err_unref", "")]

DrmUnwind ==
  [err_mode_config |-> Row(ModeConfig, "err_unref", ""),
   err_unref       |-> Row({"drm"}, "err_free_xdisp", "")]

ProbeUnwind ==
  [err_free_xdisp |-> Row(IF xdisp THEN Buffers ELSE {}, "err_put_usb", ""),
   err_put_usb    |-> Row({"usb", "gud"}, "failed", "")]

Unwind == Join(Join(BuffersUnwind, PipeUnwind), Join(DrmUnwind, ProbeUnwind))

\* drm_put_dev: the node goes, gud_drm_unload frees the rest, drm_dev_unref.
Unload ==
  [u_node    |-> Row({}, "u_config", ""),
   u_config  |-> Row(ModeConfig, "u_buffers", ""),
   u_buffers |-> Row(IF xdisp THEN Buffers ELSE {}, "u_usb", ""),
   u_usb     |-> Row({"usb", "gud"}, "u_drm", ""),
   u_drm     |-> Row({"drm"}, "done", "")]

UserPlaces == {"out", "in", "fill", "alloc", "wait", "message", "add", "ioctl"}
HubPlaces  == DOMAIN Probe \cup DOMAIN Unwind \cup
  {"failed", "intfdata", "cancel", "bound", "mark", "stop", "unplug", "gone"}

Init ==
  /\ xdisp \in BOOLEAN /\ hub = "gud" /\ held = {} /\ lost = FALSE
  /\ intfdata = FALSE /\ lock = "none" /\ disconnected = FALSE /\ unplugged = FALSE
  /\ opens = 0 /\ user = [u \in Users |-> "out"] /\ fini = "none"

Drop(set) == held' = held \ set /\ lost' = (lost \/ ~(set \subseteq held))

-----------------------------------------------------------------------------
(* Probe.                                                                   *)

ProbeStep ==
  /\ hub \in DOMAIN Probe
  /\ held' = held \cup Probe[hub].set /\ hub' = Probe[hub].next
  /\ UNCHANGED <<xdisp, lost, intfdata, lock, disconnected, unplugged, opens, user, fini>>

ProbeFails ==
  /\ hub \in DOMAIN Probe /\ Probe[hub].fail # ""
  /\ hub' = Probe[hub].fail
  /\ UNCHANGED <<xdisp, held, lost, intfdata, lock, disconnected, unplugged, opens, user, fini>>

UnwindStep ==
  /\ hub \in DOMAIN Unwind
  /\ Drop(Unwind[hub].set) /\ hub' = Unwind[hub].next
  /\ UNCHANGED <<xdisp, intfdata, lock, disconnected, unplugged, opens, user, fini>>

\* The node is registered already when the interface learns of its device.
SetIntfdata ==
  /\ hub = "intfdata" /\ hub' = "cancel" /\ intfdata' = TRUE
  /\ UNCHANGED <<xdisp, held, lost, lock, disconnected, unplugged, opens, user, fini>>

\* gud_reconnect_cancel(gud->usb)
ReconnectCancel ==
  /\ hub = "cancel" /\ hub' = "bound"
  /\ UNCHANGED <<xdisp, held, lost, intfdata, lock, disconnected, unplugged, opens, user, fini>>

-----------------------------------------------------------------------------
(* Users.  drm_global_mutex keeps open and release out of each other, of    *)
(* drm_dev_register and of drm_unplug_dev; fini is set while it is held.    *)

GoUser(u, place) == user' = [user EXCEPT ![u] = place]
HubVars == <<xdisp, hub, intfdata, unplugged, disconnected>>
OtherVars == <<HubVars, held, lost, opens, fini>>

Open(u) ==
  /\ user[u] = "out" /\ "node" \in held /\ ~unplugged /\ fini = "none"
  /\ opens < MaxOpens /\ opens' = opens + 1
  /\ GoUser(u, "in")
  /\ UNCHANGED <<HubVars, held, lost, lock, fini>>

\* drm_ioctl refuses an unplugged device.  GETCONNECTOR runs under
\* mode_config.mutex; "ioctl" stands for any other use of the device.
Ioctl(u) ==
  /\ user[u] = "in" /\ ~unplugged
  /\ GoUser(u, "ioctl") /\ UNCHANGED <<OtherVars, lock>>

IoctlEnds(u) ==
  /\ user[u] = "ioctl" /\ GoUser(u, "in") /\ UNCHANGED <<OtherVars, lock>>

Filling == {"fill", "alloc", "wait", "message", "add"}
GetConnector(u) ==
  /\ user[u] = "in" /\ ~unplugged /\ \A v \in Users : user[v] \notin Filling
  /\ GoUser(u, "fill") /\ UNCHANGED <<OtherVars, lock>>

\* gud_connector_detect: a disconnected device has no modes to fill in.
Detect(u) ==
  /\ user[u] = "fill" /\ lock = "none"
  /\ GoUser(u, IF disconnected THEN "in" ELSE "alloc")
  /\ UNCHANGED <<OtherVars, lock>>

\* gud_connector_get_modes
AllocModes(u) ==
  /\ user[u] = "alloc" /\ (GoUser(u, "wait") \/ GoUser(u, "in"))
  /\ UNCHANGED <<OtherVars, lock>>

\* Mutant of LockModes: the return for a disconnected device keeps the lock.
LockModesMutant(u) ==
  /\ user[u] = "wait" /\ lock = "none" /\ lock' = u
  /\ GoUser(u, IF disconnected THEN "in" ELSE "message")
  /\ UNCHANGED OtherVars

LockModes(u) ==
  /\ user[u] = "wait" /\ lock = "none"
  /\ IF disconnected THEN GoUser(u, "in") /\ UNCHANGED lock
                     ELSE GoUser(u, "message") /\ lock' = u
  /\ UNCHANGED OtherVars

\* The answer is a whole number of modes, or the result is none.
ModesAnswer(u) ==
  /\ user[u] = "message" /\ lock' = "none"
  /\ GoUser(u, "add") \/ GoUser(u, "in")
  /\ UNCHANGED OtherVars

AddModes(u) ==
  /\ user[u] = "add" /\ GoUser(u, "in") /\ UNCHANGED <<OtherVars, lock>>

\* Mutant of Close: it leaves the device to gud_disconnect.
CloseMutant(u) ==
  /\ user[u] = "in" /\ fini = "none" /\ GoUser(u, "out")
  /\ UNCHANGED <<OtherVars, lock>>

\* drm_release: the last close of an unplugged device unloads it.
Close(u) ==
  /\ user[u] = "in" /\ fini = "none" /\ GoUser(u, "out")
  /\ fini' = IF unplugged /\ \A v \in Users \ {u} : user[v] = "out" THEN "u_node" ELSE fini
  /\ UNCHANGED <<HubVars, held, lost, lock, opens>>

-----------------------------------------------------------------------------
(* Disconnect and unload.                                                   *)

\* The hub thread finds the device gone; the interface forgets it.
Disconnect ==
  /\ hub = "bound" /\ intfdata /\ intfdata' = FALSE /\ hub' = "mark"
  /\ UNCHANGED <<xdisp, held, lost, lock, disconnected, unplugged, opens, user, fini>>

\* Mutant of Mark: it does not take the lock.
MarkMutant ==
  /\ hub = "mark" /\ disconnected' = TRUE /\ hub' = "stop"
  /\ UNCHANGED <<xdisp, held, lost, intfdata, lock, unplugged, opens, user, fini>>

Mark ==
  /\ hub = "mark" /\ lock = "none" /\ disconnected' = TRUE /\ hub' = "stop"
  /\ UNCHANGED <<xdisp, held, lost, intfdata, lock, unplugged, opens, user, fini>>

\* gud_async_stop, gud_reconnect_arm, then drm_unplug_dev removes the node.
StopAndArm ==
  /\ hub = "stop" /\ hub' = "unplug" /\ held' = held \ {"node"}
  /\ UNCHANGED <<xdisp, lost, intfdata, lock, disconnected, unplugged, opens, user, fini>>

\* Mutant of Unplug: the device is unloaded although it is open.
UnplugMutant ==
  /\ hub = "unplug" /\ fini = "none" /\ unplugged' = TRUE /\ hub' = "gone"
  /\ fini' = "u_node"
  /\ UNCHANGED <<xdisp, held, lost, intfdata, lock, disconnected, opens, user>>

\* Under drm_global_mutex it marks the device, and unloads one nobody has open.
Unplug ==
  /\ hub = "unplug" /\ fini = "none" /\ unplugged' = TRUE /\ hub' = "gone"
  /\ fini' = IF \A u \in Users : user[u] = "out" THEN "u_node" ELSE fini
  /\ UNCHANGED <<xdisp, held, lost, intfdata, lock, disconnected, opens, user>>

UnloadStep ==
  /\ fini \in DOMAIN Unload
  /\ Drop(Unload[fini].set) /\ fini' = Unload[fini].next
  /\ UNCHANGED <<xdisp, hub, intfdata, lock, disconnected, unplugged, opens, user>>

\* The device never came, or it is gone and nobody has it open.
Over == /\ hub = "failed" \/ (hub = "gone" /\ \A u \in Users : user[u] = "out")
        /\ UNCHANGED vars

UserStep(u) ==
  \/ IoctlEnds(u) \/ Detect(u) \/ AllocModes(u) \/ LockModes(u)
  \/ ModesAnswer(u) \/ AddModes(u)
HubStep ==
  \/ ProbeStep \/ ProbeFails \/ UnwindStep \/ SetIntfdata \/ ReconnectCancel
  \/ Mark \/ StopAndArm \/ Unplug

Next ==
  \/ HubStep \/ Disconnect \/ UnloadStep \/ Over
  \/ \E u \in Users : UserStep(u) \/ Open(u) \/ Ioctl(u) \/ GetConnector(u) \/ Close(u)

Spec == Init /\ [][Next]_vars

\* Threads run; control messages time out; a user that has the device open
\* closes it at some time, but may open it, or ask it for modes, again.
FairSpec ==
  /\ Spec /\ WF_vars(HubStep) /\ WF_vars(UnloadStep)
  /\ \A u \in Users : WF_vars(UserStep(u)) /\ SF_vars(Close(u))

-----------------------------------------------------------------------------
\* The values the variables take; the lock is held while a request is made, and
\* every return of gud_connector_get_modes releases it.
TypeOK ==
  /\ xdisp \in BOOLEAN /\ hub \in HubPlaces /\ held \subseteq Resources
  /\ lost \in BOOLEAN /\ intfdata \in BOOLEAN
  /\ disconnected \in BOOLEAN /\ unplugged \in BOOLEAN
  /\ lock \in Users \cup {"none"} /\ \A u \in Users : lock = u <=> user[u] = "message"
  /\ opens \in 0..MaxOpens
  /\ user \in [Users -> UserPlaces]
  /\ fini \in DOMAIN Unload \cup {"none", "done"}

\* Whatever step of probe fails, its error labels give up what was acquired, and
\* nothing twice (the labels of three functions follow each other, and two of
\* them clean up the mode configuration); unload gives up what probe acquired.
NothingLeaks ==
  /\ ~lost
  /\ hub = "failed" \/ fini = "done" => held = {}

\* A process inside an ioctl finds the device, its mode objects and its transfer
\* buffers allocated, however far probe or disconnect has got.
UsersServed ==
  \A u \in Users : user[u] \notin {"out", "in"} =>
    {"gud", "usb", "drm"} \cup ModeConfig \cup (IF xdisp THEN Buffers ELSE {}) \subseteq held

\* A request for modes is never on the wire once gud_disconnect has marked the
\* device: it and the mark exclude each other by the lock.
NoMessageAfterMark == \A u \in Users : disconnected => user[u] # "message"

\* A device that was unplugged is freed when the last process has closed it.
DeviceFreed == (hub = "mark") ~> (held = {} /\ fini = "done")
=============================================================================
