---------------------------- MODULE PortMonitor ----------------------------
(***************************************************************************)
(* What user space is promised of the recovery signal for root ports.  At  *)
(* most one port is armed.  A signal is sent for a port that was armed,    *)
(* was empty since then and is connected again.  Once the monitor of a     *)
(* port was cancelled no signal for it is on its way, until the port is    *)
(* armed again.  And a monitor that was closed does nothing any more.      *)
(***************************************************************************)
CONSTANTS Ports, NoPort

VARIABLES
  connected,  \* the status of each root port
  armed,      \* the port that is monitored, or NoPort
  seen,       \* it was empty since it was armed
  signal,     \* the port a signal is being sent for, or NoPort
  quiet,      \* ports whose monitor was cancelled, and not armed since
  closed      \* the monitor was closed

vars == <<connected, armed, seen, signal, quiet, closed>>

Init ==
  /\ connected = [p \in Ports |-> FALSE]
  /\ armed = NoPort /\ seen = FALSE /\ signal = NoPort
  /\ quiet = {} /\ closed = FALSE

Attach(p) ==
  /\ ~connected[p] /\ connected' = [connected EXCEPT ![p] = TRUE]
  /\ UNCHANGED <<armed, seen, signal, quiet, closed>>

Detach(p) ==
  /\ connected[p] /\ connected' = [connected EXCEPT ![p] = FALSE]
  /\ seen' = (seen \/ armed = p)
  /\ UNCHANGED <<armed, signal, quiet, closed>>

Arm(p) ==
  /\ armed = NoPort /\ ~closed
  /\ armed' = p /\ seen' = ~connected[p] /\ quiet' = quiet \ {p}
  /\ UNCHANGED <<connected, signal, closed>>

\* Cancelled, closed or expired.
Disarm ==
  /\ armed' = NoPort
  /\ UNCHANGED <<connected, seen, signal, quiet, closed>>

Signal ==
  /\ signal = NoPort /\ ~closed
  /\ armed # NoPort /\ seen /\ connected[armed]
  /\ signal' = armed /\ armed' = NoPort
  /\ UNCHANGED <<connected, seen, quiet, closed>>

Sent ==
  /\ signal # NoPort /\ signal' = NoPort
  /\ UNCHANGED <<connected, armed, seen, quiet, closed>>

\* A cancellation returns: no signal for the port is on its way.
Cancelled(p) ==
  /\ p \notin {armed, signal} /\ quiet' = quiet \cup {p}
  /\ UNCHANGED <<connected, armed, seen, signal, closed>>

Close ==
  /\ armed = NoPort /\ signal = NoPort /\ closed' = TRUE
  /\ UNCHANGED <<connected, armed, seen, signal, quiet>>

Next ==
  \/ \E p \in Ports : Attach(p) \/ Detach(p) \/ Arm(p) \/ Cancelled(p)
  \/ Disarm \/ Signal \/ Sent \/ Close

Spec == Init /\ [][Next]_vars
=============================================================================
