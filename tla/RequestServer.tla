--------------------------- MODULE RequestServer ---------------------------
(***************************************************************************)
(* What a host may rely on when it sends numbered requests to the gadget.  *)
(* They are executed in order and at most once, a request that found the   *)
(* gadget busy excepted, and a host that is told a result is told that of  *)
(* its newest request, after it was executed.  A request may get lost.     *)
(***************************************************************************)
EXTENDS Integers

CONSTANT Errnos

VARIABLES
  asked,  \* requests made so far
  done,   \* the result of the request that was executed last
  told    \* the result that the host has read last

vars == <<asked, done, told>>

Init == asked = 0 /\ done = [of |-> 0, err |-> "ok"] /\ told = done

Ask ==
  /\ asked' = asked + 1
  /\ UNCHANGED <<done, told>>

\* Request r may be executed: it was not, or the gadget was busy.
MayExecute(r) == r > done.of \/ (r = done.of /\ done.err = "busy")

Execute ==
  /\ \E r \in 1..asked, e \in Errnos :
       MayExecute(r) /\ done' = [of |-> r, err |-> e]
  /\ UNCHANGED <<asked, told>>

Tell ==
  /\ done.of = asked /\ told' = done
  /\ UNCHANGED <<asked, done>>

Next == Ask \/ Execute \/ Tell

Spec == Init /\ [][Next]_vars
=============================================================================
