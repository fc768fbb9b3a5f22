--------------------------- MODULE MCGudReconnect ---------------------------
(* Instances of GudReconnect for TLC: a single device, two devices behind   *)
(* root ports of two controllers, and a third that shares the first port.   *)
EXTENDS GudReconnect, TLC

CONSTANTS d1, d2, d3, p1, p2, h1, h2

OneRoot   == d1 :> p1
TwoRoot   == d1 :> p1 @@ d2 :> p2
ThreeRoot == d1 :> p1 @@ d2 :> p2 @@ d3 :> p1
OneHcd    == p1 :> h1
TwoHcd    == p1 :> h1 @@ p2 :> h2
=============================================================================
