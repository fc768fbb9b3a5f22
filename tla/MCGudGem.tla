------------------------------ MODULE MCGudGem ------------------------------
(* Instances of GudGem for TLC: objects that fit in an address space, and not; *)
(* framebuffers with an offset, larger than their object, and with padded rows. *)
EXTENDS GudGem

Dumb(w, h, f) == [width |-> w, height |-> h, format |-> f]
Fb(w, h, f, p, o) == [width |-> w, height |-> h, format |-> f, pitch |-> p, offset |-> o]

MCDumb == {Dumb(3, 2, "rgb565"), Dumb(2, 15, "rgb565")}
MCFbs == {Fb(3, 2, "rgb565", 8, 0), Fb(3, 2, "rgb565", 6, 4), Fb(2, 2, "xrgb8888", 8, 8)}
=============================================================================
