--------------------------- MODULE MCGudTransfer ---------------------------
(* Instances of GudTransfer for TLC: devices of both builds, and frames that *)
(* take one rectangle, several, a shorter last one, or cannot be sent.       *)
EXTENDS GudTransfer

Sizes(plain, b, w, h, z) == [plain |-> plain, buffer |-> b, width |-> w, height |-> h,
                             lz4 |-> z]
Fb(w, h, f) == [width |-> w, height |-> h, format |-> f]

\* The third is refused; the bytes of the last one's largest frame wrap to 20.
MCDevices == {Sizes(FALSE, 12, 3, 3, TRUE), Sizes(TRUE, 16, 3, 3, TRUE),
              Sizes(FALSE, 10, 3, 3, TRUE), Sizes(FALSE, 40, 3, 7, FALSE)}

\* A rectangle of 12 bytes holds two rows of the first frame and one of the
\* second; the third has no layout and the fourth no row that fits.
MCFrames == {Fb(3, 3, "rgb565"), Fb(3, 2, "xrgb8888"), Fb(6, 3, "xrgb8888"),
             Fb(6, 2, "xrgb8888")}
=============================================================================
