---------------------------- MODULE MCGudFunction ----------------------------
(* Instances of GudFunction for TLC: which events the environment may cause. *)
EXTENDS GudFunction

\* Only the bus is reset.
OnlyReset == {"reset"}
=============================================================================
