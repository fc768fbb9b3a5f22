---------------------------- MODULE FrameLayout ----------------------------
(***************************************************************************)
(* The arithmetic of frames: how many bytes a frame has, which buffer      *)
(* objects and framebuffers the driver accepts, and how many rows of a     *)
(* frame one rectangle holds.  Sizes are in bytes.  A check that the code  *)
(* makes before it multiplies is kept, with the width of the type it       *)
(* protects; a product that no check protects wraps.                       *)
(***************************************************************************)
EXTENDS Integers

CONSTANTS
  U32Max,     \* the largest u32
  SizeMax,    \* the largest size_t
  PageSize

ASSUME LayoutAssumption ==
  /\ U32Max \in Nat \ {0} /\ SizeMax \in Nat /\ U32Max <= SizeMax
  /\ PageSize \in Nat \ {0}

Least(a, b) == IF a < b THEN a ELSE b
RoundUp(n, unit) == ((n + unit - 1) \div unit) * unit

BytesPerPixel == [rgb565 |-> 2, xrgb8888 |-> 4]
Formats == DOMAIN BytesPerPixel

Line(w, f) == w * BytesPerPixel[f]

\* gud_format_frame_layout returns a length, and no error.
LayoutOk(w, h, f) ==
  /\ f \in Formats /\ w > 0 /\ h > 0
  /\ w <= SizeMax \div BytesPerPixel[f]
  /\ h <= SizeMax \div Line(w, f)
  /\ h * Line(w, f) <= U32Max

\* gud_validate_framebuffer_range: a frame lies within the mapping.
RangeOk(offset, length, mapped) ==
  offset <= mapped /\ length <= mapped - offset

\* gud_gem_dumb_create: the pitch it returns, when it accepts the arguments,
\* and the size of the object.
DumbPitch(w, f) == RoundUp(Line(w, f), 4)

\* Mutant of DumbOk: the size is not checked before it is rounded to pages.
DumbOkMutant(w, h, f) ==
  /\ w > 0 /\ h > 0
  /\ w <= U32Max \div BytesPerPixel[f] /\ h <= SizeMax \div DumbPitch(w, f)

DumbOk(w, h, f) ==
  /\ w > 0 /\ h > 0
  /\ w <= U32Max \div BytesPerPixel[f]
  /\ h <= SizeMax \div DumbPitch(w, f)
  /\ DumbPitch(w, f) * h <= SizeMax - (PageSize - 1)
DumbSize(w, h, f) == RoundUp(DumbPitch(w, f) * h, PageSize)

\* Mutant of FbOk: the last row is forgotten.
FbOkMutant(fb, size) ==
  /\ fb.width > 0 /\ fb.height > 0 /\ fb.format \in Formats
  /\ fb.pitch >= Line(fb.width, fb.format)
  /\ fb.offset + (fb.height - 1) * fb.pitch <= size

\* gud_fb_create accepts a framebuffer on an object of this size.
FbOk(fb, size) ==
  /\ fb.width > 0 /\ fb.height > 0 /\ fb.format \in Formats
  /\ Line(fb.width, fb.format) <= U32Max
  /\ fb.pitch >= Line(fb.width, fb.format)
  /\ fb.offset + (fb.height - 1) * fb.pitch + Line(fb.width, fb.format) <= size

\* gud_pipe_check accepts its pitch: rows are not padded.
PitchOk(fb) == fb.pitch = Line(fb.width, fb.format) % (U32Max + 1)

\* Bytes that a rectangle may have: what gud_xdisp_buffers_init allocates, and
\* what gud_pipe_transfer of the plain build does.  The bytes of a line and of a
\* frame of the largest mode are products that no check protects.
XdispLine(d) == (d.width * 4) % (SizeMax + 1)
XdispCapacity(d) == Least(d.buffer, (d.width * d.height * 4) % (SizeMax + 1))

\* It accepts the device; a buffer of no bytes cannot be allocated.
XdispOk(d, limit) ==
  /\ d.buffer > 0 /\ d.buffer <= limit
  /\ XdispLine(d) <= d.buffer
  /\ XdispLine(d) <= XdispCapacity(d)
  /\ XdispCapacity(d) > 0
PlainCapacity(d, chunk) == Least(d.buffer, chunk)

\* Mutant of Rows: the rows that remain do not limit the rectangle.
RowsMutant(offset, length, line, capacity) == Least(capacity, length) \div line

\* Rows of a rectangle that starts at this offset.
Rows(offset, length, line, capacity) ==
  Least((length - offset) \div line, Least(capacity, length) \div line)
=============================================================================
