---------------------------- MODULE MCGudDevice ----------------------------
(* Instances of GudDevice for TLC. *)
EXTENDS GudDevice
=============================================================================
