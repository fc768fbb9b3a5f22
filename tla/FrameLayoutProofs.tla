-------------------------- MODULE FrameLayoutProofs --------------------------
(***************************************************************************)
(* Theorems about the arithmetic of frames, for every size of frame, word  *)
(* and page.                                                               *)
(***************************************************************************)
EXTENDS FrameLayout, TLAPS

-----------------------------------------------------------------------------
(* Division and rounding.                                                   *)

\* A quotient and its divisor.
LEMMA Quotient ==
  ASSUME NEW x \in Nat, NEW y \in Nat, y > 0
  PROVE  x \div y \in Nat /\ (x \div y) * y <= x /\ x < (x \div y + 1) * y
  OBVIOUS

\* A product stays within a bound if a factor stays within the quotient.
LEMMA Within ==
  ASSUME NEW h \in Nat, NEW y \in Nat, y > 0, NEW n \in Nat, h <= n \div y
  PROVE  h * y <= n
<1>1. n \div y \in Nat /\ (n \div y) * y <= n
  BY Quotient
<1>2. h * y <= (n \div y) * y
  BY <1>1
<1> QED  BY <1>1, <1>2

\* RoundUp returns the next multiple of its unit.
LEMMA RoundedUp ==
  ASSUME NEW n \in Nat, NEW u \in Nat, u > 0
  PROVE  RoundUp(n, u) \in Nat /\ n <= RoundUp(n, u) /\ RoundUp(n, u) <= n + u - 1
<1> DEFINE q == (n + u - 1) \div u
<1>1. n + u - 1 \in Nat
  OBVIOUS
<1>2. q \in Nat /\ q * u <= n + u - 1 /\ n + u - 1 < (q + 1) * u
  BY <1>1, Quotient
<1>3. (q + 1) * u = q * u + u /\ q * u \in Nat
  BY <1>2
<1> HIDE DEF q
<1>4. n <= q * u
  BY <1>2, <1>3
<1> QED  BY <1>2, <1>3, <1>4 DEF RoundUp, q

-----------------------------------------------------------------------------
(* Frames.                                                                  *)

\* A row of a frame in a format the driver knows has bytes.
LEMMA LineType ==
  ASSUME NEW w \in Nat, NEW f \in Formats
  PROVE  Line(w, f) \in Nat /\ Line(w, f) <= 4 * w /\ (w > 0 => Line(w, f) > 0)
  BY DEF Line, Formats, BytesPerPixel

\* A residue is the number itself if the number is small enough.
LEMMA Residue ==
  ASSUME NEW a \in Nat, NEW n \in Nat, a <= n
  PROVE  a % (n + 1) = a
  OBVIOUS

\* A product that wraps is a natural number still.
LEMMA Remainder ==
  ASSUME NEW a \in Nat, NEW n \in Nat
  PROVE  a % (n + 1) \in 0..n
  OBVIOUS

\* gud_format_frame_layout: no product it has checked wraps, neither as size_t
\* nor when it is sent to the gadget as a u32.
THEOREM LayoutDoesNotWrap ==
  ASSUME NEW w \in Nat, NEW h \in Nat, NEW f, LayoutOk(w, h, f)
  PROVE  /\ Line(w, f) \in 1..SizeMax
         /\ h * Line(w, f) \in 1..U32Max
<1>1. f \in Formats /\ BytesPerPixel[f] \in {2, 4} /\ w > 0 /\ h > 0
  BY DEF LayoutOk, Formats, BytesPerPixel
<1>2. Line(w, f) \in Nat /\ Line(w, f) > 0
  BY <1>1, LineType
<1>3. Line(w, f) <= SizeMax
  BY <1>1, Within, LayoutAssumption DEF LayoutOk, Line
<1>4. h * Line(w, f) \in Nat /\ h * Line(w, f) > 0
  BY <1>1, <1>2
<1> QED  BY <1>2, <1>3, <1>4, LayoutAssumption DEF LayoutOk

\* gud_gem_dumb_create: no product or rounding wraps, and the object that it
\* makes holds all rows of the pitch it returns.
THEOREM DumbObjectHoldsItsRows ==
  ASSUME NEW w \in Nat, NEW h \in Nat, NEW f \in Formats, DumbOk(w, h, f)
  PROVE  /\ Line(w, f) <= DumbPitch(w, f)
         /\ h * DumbPitch(w, f) <= DumbSize(w, h, f)
         /\ DumbSize(w, h, f) \in 1..SizeMax
<1>1. Line(w, f) \in Nat /\ Line(w, f) > 0
  BY LineType DEF DumbOk
<1>2. DumbPitch(w, f) \in Nat /\ Line(w, f) <= DumbPitch(w, f)
  <2>1. 4 \in Nat /\ 4 > 0
    OBVIOUS
  <2>2. RoundUp(Line(w, f), 4) \in Nat /\ Line(w, f) <= RoundUp(Line(w, f), 4)
    BY <1>1, <2>1, RoundedUp, Zenon
  <2> QED  BY <2>2 DEF DumbPitch
<1> DEFINE n == DumbPitch(w, f) * h
<1>3. n \in Nat /\ n > 0 /\ n <= SizeMax - (PageSize - 1) /\ n = h * DumbPitch(w, f)
  BY <1>1, <1>2 DEF DumbOk
<1>4. DumbSize(w, h, f) = RoundUp(n, PageSize)
  BY DEF DumbSize
<1> HIDE DEF n
<1>5. /\ RoundUp(n, PageSize) \in Nat /\ n <= RoundUp(n, PageSize)
      /\ RoundUp(n, PageSize) <= n + PageSize - 1
  <2>1. PageSize \in Nat /\ PageSize > 0
    BY LayoutAssumption
  <2> QED  BY <1>3, <2>1, RoundedUp, Zenon
<1> QED  BY <1>2, <1>3, <1>4, <1>5, LayoutAssumption

\* A framebuffer that gud_fb_create and gud_pipe_check have accepted lies within
\* its object: the range check before a transfer cannot fail, and no row of a
\* frame is read outside the kernel mapping.
THEOREM FrameLiesInObject ==
  ASSUME NEW fb, NEW size \in Nat,
         {fb.width, fb.height, fb.pitch, fb.offset} \subseteq Nat,
         FbOk(fb, size), PitchOk(fb)
  PROVE  RangeOk(fb.offset, fb.height * Line(fb.width, fb.format), size)
<1> DEFINE line == Line(fb.width, fb.format)
<1>1. line \in Nat /\ line <= U32Max
  BY LineType DEF FbOk
<1>2. line % (U32Max + 1) = line
  BY <1>1, Residue, LayoutAssumption
<1>3. fb.pitch = line
  BY <1>2 DEF PitchOk
<1>4. fb.offset + (fb.height - 1) * line + line <= size
  BY <1>3 DEF FbOk
<1> HIDE DEF line
<1>5. fb.height \in Nat /\ fb.offset \in Nat /\ fb.height > 0
  BY DEF FbOk
<1>6. (fb.height - 1) * line + line = fb.height * line /\ fb.height * line \in Nat
  BY <1>1, <1>5
<1>7. fb.offset + fb.height * line <= size
  BY <1>1, <1>4, <1>5, <1>6
<1>8. RangeOk(fb.offset, fb.height * line, size)
  BY <1>5, <1>6, <1>7 DEF RangeOk
<1> QED  BY <1>8 DEF line

\* The transfer loop: a rectangle that starts at a row of the frame has at least
\* one row, fits in the buffer, ends within the frame and at a row of it.  So the
\* loop makes progress, never writes past its buffer and never sends a part of a
\* row.
THEOREM RowsFit ==
  ASSUME NEW line \in Nat, line > 0, NEW y \in Nat, NEW h \in Nat, y < h,
         NEW capacity \in Nat, line <= capacity
  PROVE  LET n == Rows(y * line, h * line, line, capacity)
         IN  /\ n \in 1..(h - y) /\ n * line <= capacity
             /\ y * line + n * line = (y + n) * line
<1> DEFINE room == (h * line - y * line) \div line
           fit == Least(capacity, h * line) \div line
<1>1. h * line - y * line = (h - y) * line /\ h - y \in Nat
  OBVIOUS
<1>2. room = h - y
  <2>1. (h - y) * line \in Nat
    BY <1>1
  <2>2. room \in Nat /\ room * line <= (h - y) * line /\ (h - y) * line < (room + 1) * line
    BY <1>1, <2>1, Quotient
  <2>3. room <= h - y /\ h - y < room + 1
    BY <1>1, <2>2
  <2> QED  BY <1>1, <2>2, <2>3
<1>3. Least(capacity, h * line) \in Nat /\ Least(capacity, h * line) <= capacity
      /\ line <= Least(capacity, h * line)
  <2>1. h * line \in Nat /\ line <= h * line
    BY h >= 1
  <2> QED  BY <2>1 DEF Least
<1>4. fit \in Nat /\ fit * line <= Least(capacity, h * line)
      /\ Least(capacity, h * line) < (fit + 1) * line
  BY <1>3, Quotient
<1> HIDE DEF room, fit
<1>5. fit >= 1 /\ fit * line <= capacity
  BY <1>3, <1>4
<1> DEFINE n == Least(room, fit)
<1>6. Rows(y * line, h * line, line, capacity) = n
  BY DEF Rows, room, fit
<1>7. n \in 1..(h - y) /\ n <= fit
  BY <1>1, <1>2, <1>4, <1>5 DEF Least
<1> HIDE DEF n
<1>8. n * line <= fit * line
  BY <1>4, <1>7
<1>9. n * line <= capacity
  BY <1>4, <1>5, <1>7, <1>8
<1>10. y * line + n * line = (y + n) * line
  BY <1>7
<1> QED  BY <1>6, <1>7, <1>9, <1>10

\* A device that gud_xdisp_buffers_init accepts can be sent every frame of its
\* size, in either format: a row always fits in a rectangle, also when the bytes
\* of the largest frame wrap.  A line of the largest mode must not wrap itself:
\* max_width is a u32, so with words of 64 bits it cannot.
THEOREM FramesAreSendable ==
  ASSUME NEW d, {d.buffer, d.width, d.height} \subseteq Nat, NEW limit \in Nat,
         d.width <= SizeMax \div 4, XdispOk(d, limit),
         NEW w \in Nat, w <= d.width, NEW f \in Formats
  PROVE  Line(w, f) <= XdispCapacity(d)
<1>1. Line(w, f) \in Nat /\ Line(w, f) <= 4 * w
  BY LineType
<1>2. d.width * 4 \in Nat /\ d.width * 4 <= SizeMax
  BY Within, LayoutAssumption
<1>3. XdispLine(d) = d.width * 4
  BY <1>2, Residue, LayoutAssumption DEF XdispLine
<1>4. d.width * 4 <= XdispCapacity(d)
  BY <1>3 DEF XdispOk
<1>5. XdispCapacity(d) \in Nat
  <2>1. d.width * d.height * 4 \in Nat
    OBVIOUS
  <2>2. (d.width * d.height * 4) % (SizeMax + 1) \in Nat
    BY <2>1, Remainder, LayoutAssumption
  <2> QED  BY <2>2 DEF XdispCapacity, Least
<1> QED  BY <1>1, <1>4, <1>5
=============================================================================
