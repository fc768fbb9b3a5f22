---------------------------- MODULE MCGudFlush ----------------------------
(* Instances of GudFlush for TLC: two framebuffers of one size, or three of *)
(* which one has another size.                                              *)
EXTENDS GudFlush, TLC

CONSTANTS f1, f2, f3

TwoFbs   == {f1, f2}
ThreeFbs == {f1, f2, f3}
OneSize  == [f \in TwoFbs |-> 1]
TwoSize  == f1 :> 1 @@ f2 :> 1 @@ f3 :> 2
=============================================================================
