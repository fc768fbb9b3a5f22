---------------------------- MODULE GudReconnect ----------------------------
(***************************************************************************)
(* The root-port monitor of the host driver (gud_reconnect.c).  When a     *)
(* display is disconnected, gud_reconnect_arm puts its root port into the  *)
(* only slot and starts a delayed work item that polls the port's status:  *)
(* once the port was seen empty and then connected for StablePolls polls   *)
(* in a row, a uevent tells user space to recover the port.  A probe of a  *)
(* device at that port cancels the monitor; module exit stops it for good. *)
(*                                                                         *)
(* The calls come from different threads: each device's probe and          *)
(* disconnect are serial (the device lock), but devices at different hubs, *)
(* the work item and module exit run side by side.  A step is a critical   *)
(* section of the monitor's lock, or the code between two of these.        *)
(***************************************************************************)
EXTENDS Integers, FiniteSets

CONSTANTS
  Devices,      \* GUD devices
  Ports, Root,  \* root ports, and the root port that a device is behind
  Hcds, HcdOf,  \* host controllers, and the controller of a root port
  NoPort, NoHcd,
  StablePolls,  \* GUD_RECONNECT_STABLE_POLLS
  MaxPolls      \* GUD_RECONNECT_MAX_POLLS

ASSUME ReconnectAssumption ==
  /\ IsFiniteSet(Devices) /\ {"worker", "exit"} \cap Devices = {}
  /\ Root \in [Devices -> Ports] /\ NoPort \notin Ports
  /\ HcdOf \in [Ports -> Hcds] /\ NoHcd \notin Hcds
  /\ StablePolls \in Nat \ {0} /\ MaxPolls \in Nat \ {0}

Cancellers == Devices \cup {"exit"}
Threads    == Cancellers \cup {"worker"}
NoOne      == "none"
Outcomes   == {"none", "notify", "timeout"}
Labels     == {"idle", "arm", "cancel", "grab", "wait", "put", "poll",
               "report", "deregister", "done"}

VARIABLES
  connected,  \* what the status register of each root port says
  bound,      \* devices between their probe and their disconnect
  slot,       \* the monitored root port (hcd and portnum), or NoPort
  polls, stable, detached, stopping,   \* the other monitor fields
  queued,     \* the delayed work item is pending
  canceler,   \* thread inside cancel_delayed_work_sync
  refs,       \* references to each hcd that this driver owns
  held,       \* hcd whose reference a thread holds in a local variable
  outcome, reported,  \* the work item's locals notify/timeout, finished_port
  pc,
  down,       \* history: the monitored port was empty since it was armed
  quiet       \* history: ports whose monitor was cancelled, and not armed since

portVars    == <<connected, bound>>
monitorVars == <<slot, polls, stable, detached, stopping>>
workVars    == <<queued, canceler>>
localVars   == <<outcome, reported>>
history     == <<down, quiet>>
vars == <<portVars, monitorVars, workVars, refs, held, localVars, pc, history>>

Init ==
  /\ connected = [p \in Ports |-> FALSE] /\ bound = {}
  /\ slot = NoPort /\ polls = 0 /\ stable = 0
  /\ detached = FALSE /\ stopping = FALSE
  /\ queued = FALSE /\ canceler = NoOne
  /\ refs = [h \in Hcds |-> 0] /\ held = [t \in Threads |-> NoHcd]
  /\ outcome = "none" /\ reported = NoPort
  /\ pc = [t \in Threads |-> "idle"]
  /\ down = FALSE /\ quiet = {}

-----------------------------------------------------------------------------
At(t, l)   == pc[t] = l
Go(t, l)   == pc' = [pc EXCEPT ![t] = l]
Hold(t, h) == held' = [held EXCEPT ![t] = h]

SlotHcd == IF slot = NoPort THEN NoHcd ELSE HcdOf[slot]

\* usb_get_hcd and usb_put_hcd.
GetHcd(h) == refs' = [refs EXCEPT ![h] = @ + 1]
PutHcd(h) == refs' = [refs EXCEPT ![h] = @ - 1]

\* schedule_delayed_work: nothing happens while the work item is cancelled.
Schedule == queued' = (queued \/ canceler = NoOne)

-----------------------------------------------------------------------------
(* The port, and the driver core that binds and unbinds devices.           *)

Attach(p) ==
  /\ ~connected[p]
  /\ connected' = [connected EXCEPT ![p] = TRUE]
  /\ UNCHANGED <<bound, monitorVars, workVars, refs, held, localVars, pc, history>>

Detach(p) ==
  /\ connected[p]
  /\ connected' = [connected EXCEPT ![p] = FALSE]
  /\ down' = (down \/ slot = p)
  /\ UNCHANGED <<bound, monitorVars, workVars, refs, held, localVars, pc, quiet>>

\* gud_probe ends with gud_reconnect_cancel.
Probe(d) ==
  /\ At(d, "idle") /\ d \notin bound /\ connected[Root[d]]
  /\ pc["exit"] \notin {"deregister", "done"}
  /\ bound' = bound \cup {d}
  /\ Go(d, "cancel")
  /\ UNCHANGED <<connected, monitorVars, workVars, refs, held, localVars, history>>

\* gud_disconnect calls gud_reconnect_arm, which takes a reference first.
Disconnect(d) ==
  /\ At(d, "idle") /\ d \in bound
  /\ bound' = bound \ {d}
  /\ GetHcd(HcdOf[Root[d]]) /\ Hold(d, HcdOf[Root[d]])
  /\ Go(d, "arm")
  /\ UNCHANGED <<connected, monitorVars, workVars, localVars, history>>

-----------------------------------------------------------------------------
(* gud_reconnect_arm.                                                      *)

OccupiedMutant == slot # NoPort
Occupied == stopping \/ slot # NoPort

\* A new monitor starts without what the last one saw.
ResetDetached == detached' = FALSE
ResetPollsMutant == UNCHANGED polls
ResetPolls == polls' = 0

\* The reference taken above is dropped again if the slot is not free.
RefusedMutant(d) == Go(d, "idle") /\ Hold(d, NoHcd)
Refused(d) == Go(d, "put") /\ UNCHANGED held

ArmRefused(d) ==
  /\ At(d, "arm") /\ Occupied
  /\ Refused(d)
  /\ UNCHANGED <<portVars, monitorVars, workVars, refs, localVars, history>>

Arm(d) ==
  /\ At(d, "arm") /\ ~Occupied
  /\ slot' = Root[d] /\ Hold(d, NoHcd)     \* the slot owns the reference now
  /\ ResetPolls /\ stable' = 0 /\ ResetDetached
  /\ Schedule
  /\ Go(d, "idle")
  /\ down' = ~connected[Root[d]] /\ quiet' = quiet \ {Root[d]}
  /\ UNCHANGED <<portVars, stopping, canceler, refs, localVars>>

-----------------------------------------------------------------------------
(* gud_reconnect_cancel and gud_reconnect_exit.                            *)

CancelNothing(d) ==
  /\ At(d, "cancel") /\ slot # Root[d]
  /\ Go(d, "idle")
  /\ UNCHANGED <<portVars, monitorVars, workVars, refs, held, localVars, history>>

CancelTake(d) ==
  /\ At(d, "cancel") /\ slot = Root[d]
  /\ slot' = NoPort /\ Hold(d, SlotHcd)
  /\ Go(d, "grab")
  /\ UNCHANGED <<portVars, polls, stable, detached, stopping, workVars, refs,
                 localVars, history>>

ExitTake ==
  /\ At("exit", "idle")
  /\ stopping' = TRUE
  /\ slot' = NoPort /\ Hold("exit", SlotHcd)
  /\ Go("exit", "grab")
  /\ UNCHANGED <<portVars, polls, stable, detached, workVars, refs, localVars,
                 history>>

\* cancel_delayed_work_sync stops the timer and takes the work item off its
\* queue, one canceller at a time, and waits for a running instance.
Grab(t) ==
  /\ At(t, "grab") /\ canceler = NoOne
  /\ canceler' = t /\ queued' = FALSE
  /\ Go(t, "wait")
  /\ UNCHANGED <<portVars, monitorVars, refs, held, localVars, history>>

SyncedMutant == TRUE
Synced == At("worker", "idle")

Wait(t) ==
  /\ At(t, "wait") /\ Synced
  /\ canceler' = NoOne
  /\ Go(t, "put")
  /\ quiet' = IF t = "exit" \/ slot = Root[t] THEN quiet ELSE quiet \cup {Root[t]}
  /\ UNCHANGED <<portVars, monitorVars, queued, refs, held, localVars, down>>

\* Both, and a refused arm, end by dropping the reference, if there is one.
Put(t) ==
  /\ At(t, "put")
  /\ IF held[t] = NoHcd THEN UNCHANGED refs ELSE PutHcd(held[t])
  /\ Hold(t, NoHcd)
  /\ Go(t, IF t = "exit" THEN "deregister" ELSE "idle")
  /\ UNCHANGED <<portVars, monitorVars, workVars, localVars, history>>

\* usb_deregister returns when no device is bound any more.
Deregister ==
  /\ At("exit", "deregister")
  /\ bound = {} /\ \A d \in Devices : At(d, "idle")
  /\ Go("exit", "done")
  /\ UNCHANGED <<portVars, monitorVars, workVars, refs, held, localVars, history>>

-----------------------------------------------------------------------------
(* gud_reconnect_work.                                                     *)

WorkStart ==
  /\ At("worker", "idle") /\ queued
  /\ queued' = FALSE
  /\ Go("worker", "poll")
  /\ UNCHANGED <<portVars, monitorVars, canceler, refs, held, localVars, history>>

\* The slot was emptied before the work item got the lock.
PollNothing ==
  /\ At("worker", "poll") /\ (slot = NoPort \/ stopping)
  /\ Go("worker", "idle")
  /\ UNCHANGED <<portVars, monitorVars, workVars, refs, held, localVars, history>>

\* How the counters follow a poll: read is FALSE if the status cannot be read.
Observe(read) ==
  /\ polls' = polls + 1
  /\ detached' = (detached \/ (read /\ ~connected[slot]))
  /\ stable' = IF read /\ connected[slot] /\ detached THEN stable + 1 ELSE 0

\* Whether the monitor is finished by this poll, and how.
Result == IF stable' >= StablePolls THEN "notify"
          ELSE IF polls' >= MaxPolls THEN "timeout" ELSE "none"

\* The poll goes on as long as the slot is taken, also when the status could
\* not be read.
AgainMutant(read) == IF read THEN Schedule ELSE UNCHANGED queued
Again(read) == Schedule

Poll(read) ==
  /\ At("worker", "poll") /\ slot # NoPort /\ ~stopping
  /\ Observe(read)
  /\ IF Result = "none"
     THEN /\ Again(read) /\ Go("worker", "idle")
          /\ UNCHANGED <<slot, held, localVars>>
     ELSE /\ outcome' = Result /\ reported' = slot
          /\ slot' = NoPort /\ Hold("worker", SlotHcd)
          /\ Go("worker", "report") /\ UNCHANGED queued
  /\ UNCHANGED <<portVars, stopping, canceler, refs, history>>

\* The uevent or the warning, outside the lock.
Report ==
  /\ At("worker", "report")
  /\ PutHcd(held["worker"]) /\ Hold("worker", NoHcd)
  /\ outcome' = "none" /\ reported' = NoPort
  /\ Go("worker", "idle")
  /\ UNCHANGED <<portVars, monitorVars, workVars, history>>

\* Nothing is left once the module is gone.
Unloaded == At("exit", "done") /\ UNCHANGED vars

-----------------------------------------------------------------------------
CancelStep(t) == Grab(t) \/ Wait(t) \/ Put(t)

CallStep(d) ==
  \/ ArmRefused(d) \/ Arm(d) \/ CancelNothing(d) \/ CancelTake(d) \/ CancelStep(d)

WorkStep == WorkStart \/ PollNothing \/ (\E read \in BOOLEAN : Poll(read)) \/ Report

ExitStep == CancelStep("exit") \/ Deregister

Next ==
  \/ \E p \in Ports : Attach(p) \/ Detach(p)
  \/ \E d \in Devices : Probe(d) \/ Disconnect(d) \/ CallStep(d)
  \/ WorkStep \/ ExitTake \/ ExitStep \/ Unloaded

Spec == Init /\ [][Next]_vars

\* Kernel threads run, and the timer expires.
Fairness ==
  /\ WF_vars(WorkStep) /\ WF_vars(ExitStep)
  /\ \A d \in Devices : WF_vars(CallStep(d))

FairSpec == Spec /\ Fairness
-----------------------------------------------------------------------------
(* Properties.                                                             *)

\* Every variable has its type; the counters stay within their limits.
PortType == connected \in [Ports -> BOOLEAN] /\ bound \subseteq Devices
MonitorType ==
  /\ slot \in Ports \cup {NoPort}
  /\ polls \in 0..MaxPolls /\ stable \in 0..StablePolls
  /\ detached \in BOOLEAN /\ stopping \in BOOLEAN
WorkType == queued \in BOOLEAN /\ canceler \in Cancellers \cup {NoOne}
RefType  == refs \in [Hcds -> Nat] /\ held \in [Threads -> Hcds \cup {NoHcd}]
LocalType ==
  /\ outcome \in Outcomes /\ reported \in Ports \cup {NoPort}
  /\ pc \in [Threads -> Labels]
HistoryType == down \in BOOLEAN /\ quiet \subseteq Ports
TypeOK == /\ PortType /\ MonitorType /\ WorkType /\ RefType /\ LocalType
          /\ HistoryType

Holders(h) == {t \in Threads : held[t] = h}

\* The driver's references to a host controller are those of the slot and of
\* the locals: arm, cancel, exit and the work item hand them over in any
\* order without losing one, or dropping one twice.
HcdRefsBalance ==
  \A h \in Hcds :
    refs[h] = Cardinality(Holders(h)) + IF SlotHcd = h THEN 1 ELSE 0

\* No recovery signal is about to be sent for a port whose monitor a probe has
\* cancelled, and that no disconnect has armed since.
CancelIsFinal == At("worker", "report") /\ outcome = "notify" => reported \notin quiet

\* A recovery signal is only sent for a port that was empty after it was
\* armed: a driver unbound from a device that stays plugged in sends none.
SignalNeedsDetach == detached /\ slot # NoPort => down

\* After gud_reconnect_exit nothing of the monitor is left that could run when
\* the module's code is gone, however late a disconnect tries to arm it.
ExitIsFinal ==
  pc["exit"] \in {"deregister", "done"} =>
    slot = NoPort /\ ~queued /\ At("worker", "idle")

\* usb_deregister leaves no reference behind: the slot and the locals that
\* HcdRefsBalance counts are empty by then.
NoLeakAtUnload == At("exit", "done") => \A h \in Hcds : refs[h] = 0

\* An armed monitor ends: with a signal, with the timeout, or cancelled.
MonitorEnds == slot # NoPort ~> slot = NoPort

\* A monitor that is polling ends, also when the port cannot be read, unless the
\* one work item of all devices is cancelled when the slot is taken again.
PollingEnds ==
  slot # NoPort /\ (queued \/ At("worker", "poll"))
    ~> slot = NoPort \/ canceler # NoOne

\* The slot, the work item and their callers keep what PortMonitor promises: a
\* signal is sent for a port that was seen empty since its disconnect armed it
\* and is connected again, never for one whose monitor a probe has cancelled,
\* and nothing is armed or sent once gud_reconnect_exit has returned.
Monitor == INSTANCE PortMonitor WITH
  armed <- slot, seen <- down, signal <- IF outcome = "notify" THEN reported ELSE NoPort,
  closed <- pc["exit"] \in {"deregister", "done"}
MonitorSpec == Monitor!Spec
=============================================================================
