---------------------------- MODULE FrameSender ----------------------------
(***************************************************************************)
(* Sending a frame, as both models of it promise: one sender owns the      *)
(* link at a time, the rows of its frame reach the display in order, a     *)
(* frame without an error has arrived whole, and once the device has left  *)
(* nothing arrives any more.  A row stands for what a model counts in:     *)
(* rows of pixels, or the bands of rows that are sent at once.             *)
(***************************************************************************)
EXTENDS Integers

CONSTANT Senders

VARIABLES
  owner,   \* who sends a frame, or "none"
  rows,    \* the rows of its frame
  got,     \* those that have arrived
  result,  \* of each sender: whether its frame ended in an error
  gone     \* the device has left

vars == <<owner, rows, got, result, gone>>
Results == {"ok", "error"}
Nobody == owner' = "none" /\ rows' = 0 /\ got' = {}

Init ==
  /\ owner = "none" /\ rows = 0 /\ got = {}
  /\ result = [t \in Senders |-> "ok"] /\ gone = FALSE

Start(t) ==
  /\ owner = "none" /\ owner' = t
  /\ rows' \in Nat \ {0} /\ got' = {}
  /\ UNCHANGED <<result, gone>>

\* Some rows arrive, the next ones of the frame.
Arrive ==
  /\ owner # "none" /\ ~gone
  /\ \E k \in 1..rows : got' = 0..(k - 1)
  /\ got \subseteq got'
  /\ UNCHANGED <<owner, rows, result, gone>>

End(r) ==
  /\ owner # "none" /\ Nobody
  /\ r = "ok" => got = 0..(rows - 1)
  /\ result' = [result EXCEPT ![owner] = r]
  /\ UNCHANGED gone

\* What a sender does outside of the link: it prepares a frame, or fails to.
Prepare(t, r) ==
  /\ t # owner
  /\ result' = [result EXCEPT ![t] = r]
  /\ UNCHANGED <<owner, rows, got, gone>>

\* The device leaves when nobody sends.
Leave ==
  /\ owner = "none" /\ gone' = TRUE
  /\ UNCHANGED <<owner, rows, got, result>>

Next ==
  \/ \E t \in Senders : Start(t)
  \/ \E t \in Senders, r \in Results : Prepare(t, r)
  \/ \E r \in Results : End(r)
  \/ Arrive \/ Leave

Spec == Init /\ [][Next]_vars
=============================================================================
