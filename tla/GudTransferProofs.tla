------------------------- MODULE GudTransferProofs -------------------------
(***************************************************************************)
(* Theorems about GudTransfer, for every set of senders, devices and        *)
(* framebuffers and every bound.                                            *)
(***************************************************************************)
EXTENDS GudTransfer, FrameLayoutProofs

-----------------------------------------------------------------------------
(* The inductive invariant.                                                 *)

\* What a buffer or a SET_BUFFER request may describe.
Rects(limit) ==
  {r \in [by : Senders \cup {"none"}, y : Nat, rows : Nat, source : Nat, payload : Nat] :
     r # Nothing => /\ r.by \in Senders /\ r.rows > 0
                    /\ r.payload \in 1..r.source /\ r.source <= limit}

TypeInv ==
  /\ dev \in Devices /\ frames \in 0..MaxFrames
  /\ pc \in [Senders -> Places] /\ probing \in [Senders -> BOOLEAN]
  /\ frame \in [Senders -> Frames \cup {NoFrame}] /\ offset \in [Senders -> Nat]
  /\ rect \in [Senders -> Rects(dev.buffer)] /\ tries \in [Senders -> 0..MaxRetries]
  /\ ret \in [Senders -> {"ok", "error"}] /\ drawn \in [Senders -> [DOMAIN Undrawn -> Nat]]
  /\ lock \in Senders \cup {"none"}
  /\ disconnected \in BOOLEAN /\ gone \in BOOLEAN /\ bounce \in BOOLEAN
  /\ bulk \in Rects(dev.buffer) /\ asked \in Rects(dev.buffer)
  /\ urb \in [by : Senders \cup {"none"}, length : Nat, active : BOOLEAN]
  /\ ctx \in [Senders -> [done : BOOLEAN, ok : BOOLEAN, full : BOOLEAN]]
  /\ probeLength \in ProbeLengths \cup {0}

Active(t) == pc[t] \notin {"idle", "lock"}
Sending == {"set", "submit", "wait", "kill", "next"}

\* One sender is between lock and unlock, or runs a probe while the others rest.
LockInv ==
  \A t \in Senders :
    /\ Active(t) /\ ~probing[t] => lock = t
    /\ probing[t] => pc[t] \in Sending \cup {"end"} /\ \A u \in Others(t) : Idle(u)

\* The buffer and the URB exist while somebody sends.
BounceInv ==
  /\ dev.plain => \A t \in Senders : Idle(t) \/ (t = "commit" /\ bounce)
  /\ ~dev.plain => bounce

\* What is in the buffer, and what the gadget was asked to expect.
BulkInv ==
  \A t \in Senders :
    /\ pc[t] \in Sending => bulk = rect[t] /\ rect[t].by = t
    /\ pc[t] \in Sending \ {"set"} => asked = rect[t]

\* Whom the URB in flight belongs to.
UrbInv ==
  /\ urb.active => /\ urb.by \in Senders /\ pc[urb.by] \in {"wait", "kill"}
                   /\ urb.length = rect[urb.by].payload
  /\ \A t \in Senders : pc[t] \in {"wait", "kill"} /\ ctx[t].done => ~urb.active

\* Where a sender is in its frame.
LineAt(t) == LineOf(frame[t])
Row(t) == offset[t] \div LineAt(t)

RowAt(t) ==
  /\ Idle(t) => frame[t] = NoFrame
  /\ ~Idle(t) => /\ frame[t] \in Frames
                 /\ LayoutOk(frame[t].width, frame[t].height, frame[t].format)
                 /\ probing[t] \/ LineAt(t) <= Capacity
                 /\ Row(t) \in 0..frame[t].height
                 /\ offset[t] = Row(t) * LineAt(t)
  /\ Idle(t) \/ pc[t] = "lock" \/ probing[t] => offset[t] = 0
  /\ pc[t] \in Sending => /\ rect[t].y = Row(t)
                          /\ rect[t].rows \in 1..(frame[t].height - Row(t))
                          /\ rect[t].source = rect[t].rows * LineAt(t)
RowInv == \A t \in Senders : RowAt(t)

\* How many rows of its frame have reached the gadget.
Arrived(t) ==
  pc[t] = "next" \/ (pc[t] \in {"wait", "kill"} /\ ctx[t].done /\ ctx[t].full)
Received(t) == IF Arrived(t) THEN Row(t) + rect[t].rows ELSE Row(t)
UpTo(n) == [y \in DOMAIN Undrawn |-> IF y < n THEN 1 ELSE 0]

DrawnAt(t) ==
  /\ Idle(t) \/ probing[t] => drawn[t] = UpTo(0)
  /\ ~Idle(t) /\ ~probing[t] /\ pc[t] # "end" => drawn[t] = UpTo(Received(t))
  /\ pc[t] = "end" /\ ~probing[t] =>
       /\ \E n \in Nat : drawn[t] = UpTo(n)
       /\ ret[t] = "ok" => drawn[t] = UpTo(frame[t].height)
DrawnInv == \A t \in Senders : DrawnAt(t)

-----------------------------------------------------------------------------
(* One sender at a time.                                                    *)

\* A sender that is active is the only one.
LEMMA OneSender ==
  ASSUME TypeInv, LockInv, NEW t \in Senders, NEW u \in Senders, Active(t), Active(u)
  PROVE  t = u
  BY TransferAssumption DEF TypeInv, LockInv, Active, Idle, Others

\* Lock, probe and unlock keep the senders apart.
LEMMA LockStep ==
  ASSUME TypeInv, LockInv, [Next]_vars
  PROVE  LockInv'
<1>1. ASSUME NEW t \in Senders, Lock(t) PROVE LockInv'
  BY <1>1, TransferAssumption DEF Lock, Goto, TypeInv, LockInv, Active, Idle,
     Others, Places, Sending, vars, jobVars, rectVars, linkVars
<1>2. ASSUME NEW t \in Senders, LastRect(t) PROVE LockInv'
  BY <1>2, TransferAssumption DEF LastRect, Ends, Goto, TypeInv, LockInv, Active,
     Idle, Others, Places, Sending, vars, jobVars, rectVars, linkVars
<1>3. ASSUME NEW t \in Senders, NextRect(t) PROVE LockInv'
  <2>1. pc' = [pc EXCEPT ![t] = "set"] \/ pc' = [pc EXCEPT ![t] = "end"]
    BY <1>3 DEF NextRect, Goto, Ends
  <2>2. lock' = lock /\ probing' = probing /\ pc[t] = "rect"
    BY <1>3 DEF NextRect, jobVars
  <2> QED  BY <2>1, <2>2 DEF TypeInv, LockInv, Active, Idle, Others, Sending
<1>4. ASSUME NEW t \in Senders, SetBuffer(t) PROVE LockInv'
  BY <1>4, TransferAssumption DEF SetBuffer, Goto, TypeInv, LockInv, Active, Idle,
     Others, Places, Sending, vars, jobVars, rectVars, linkVars
<1>5. ASSUME NEW t \in Senders, SetBufferFails(t) PROVE LockInv'
  BY <1>5, TransferAssumption DEF SetBufferFails, Ends, Goto, TypeInv, LockInv,
     Active, Idle, Others, Places, Sending, vars, jobVars, rectVars, linkVars
<1>6. ASSUME NEW t \in Senders, Submit(t) PROVE LockInv'
  BY <1>6, TransferAssumption DEF Submit, Filled, Waiting, Goto, TypeInv, LockInv,
     Active, Idle, Others, Places, Sending, vars, jobVars, rectVars, linkVars
<1>7. ASSUME NEW t \in Senders, SubmitFails(t) PROVE LockInv'
  <2>1. pc' = [pc EXCEPT ![t] = "submit"] \/ pc' = [pc EXCEPT ![t] = "end"]
    BY <1>7 DEF SubmitFails, Retry, Goto, Ends
  <2>2. lock' = lock /\ probing' = probing /\ pc[t] = "submit"
    BY <1>7 DEF SubmitFails, jobVars
  <2> QED  BY <2>1, <2>2, ZenonT(60) DEF TypeInv, LockInv, Active, Idle, Others, Sending
<1>8. ASSUME NEW t \in Senders, Completed(t) PROVE LockInv'
  BY <1>8, TransferAssumption DEF Completed, Retry, Again, Ends, Goto, TypeInv,
     LockInv, Active, Idle, Others, Places, Sending, vars, jobVars, rectVars,
     linkVars
<1>9. ASSUME NEW t \in Senders, Timeout(t) PROVE LockInv'
  BY <1>9, TransferAssumption DEF Timeout, Goto, TypeInv, LockInv, Active, Idle,
     Others, Places, Sending, vars, jobVars, rectVars, linkVars
<1>10. ASSUME NEW t \in Senders, Kill(t) PROVE LockInv'
  BY <1>10, TransferAssumption DEF Kill, Ends, Goto, TypeInv, LockInv, Active, Idle,
     Others, Places, Sending, vars, jobVars, rectVars, linkVars
<1>11. ASSUME NEW t \in Senders, Advance(t) PROVE LockInv'
  BY <1>11, TransferAssumption DEF Advance, Goto, TypeInv, LockInv, Active, Idle,
     Others, Places, Sending, vars, jobVars, rectVars, linkVars
<1>12. ASSUME NEW t \in Senders, Finish(t) PROVE LockInv'
  BY <1>12, TransferAssumption DEF Finish, Waiting, Goto, TypeInv, LockInv, Active,
     Idle, Others, Places, Sending, vars, jobVars, rectVars, linkVars
<1>13. ASSUME NEW t \in Senders, NEW f \in Frames, BeginRefused(t, f) PROVE LockInv'
  BY <1>13, TransferAssumption DEF BeginRefused, Begin, Goto, TypeInv, LockInv,
     Active, Idle, Others, Places, Sending, vars, jobVars, rectVars, linkVars
<1>14. ASSUME NEW t \in Senders, NEW f \in Frames, BeginFrame(t, f) PROVE LockInv'
  BY <1>14, TransferAssumption DEF BeginFrame, Begin, NoUrb, Goto, TypeInv, LockInv,
     Active, Idle, Others, Places, Sending, vars, jobVars, rectVars, linkVars
<1>15. ASSUME NEW t \in Senders, NEW f \in Frames, BeginProbe(t, f) PROVE LockInv'
  BY <1>15, TransferAssumption DEF BeginProbe, Begin, Goto, TypeInv, LockInv,
     Active, Idle, Others, Places, Sending, vars, jobVars, rectVars, linkVars
<1>16. ASSUME NEW ok \in BOOLEAN, NEW full \in BOOLEAN, Complete(ok, full) PROVE LockInv'
  BY <1>16, TransferAssumption DEF Complete, Goto, TypeInv, LockInv, Active, Idle,
     Others, Places, Sending, vars, jobVars, rectVars, linkVars
<1>17. ASSUME Disconnect PROVE LockInv'
  BY <1>17, TransferAssumption DEF Disconnect, Goto, TypeInv, LockInv, Active, Idle,
     Others, Places, Sending, vars, jobVars, rectVars, linkVars
<1>18. ASSUME DisableEndpoints PROVE LockInv'
  BY <1>18, TransferAssumption DEF DisableEndpoints, Goto, TypeInv, LockInv, Active,
     Idle, Others, Places, Sending, vars, jobVars, rectVars, linkVars
<1>19. ASSUME NEW n \in ProbeLengths \cup {0}, SetProbe(n) PROVE LockInv'
  BY <1>19, TransferAssumption DEF SetProbe, Goto, TypeInv, LockInv, Active, Idle,
     Others, Places, Sending, vars, jobVars, rectVars, linkVars
<1>20. CASE UNCHANGED vars
  BY <1>20 DEF Goto, TypeInv, LockInv, Active, Idle, Others, Places, Sending, vars,
     jobVars, rectVars, linkVars
<1> QED  BY <1>1, <1>2, <1>3, <1>4, <1>5, <1>6, <1>7, <1>8, <1>9, <1>10,
          <1>11, <1>12, <1>13, <1>14, <1>15, <1>16, <1>17, <1>18,
          <1>19, <1>20 DEF Next, Steps, Sent

\* The buffer is allocated before a frame and freed after it.
LEMMA BounceStep ==
  ASSUME TypeInv, BounceInv, [Next]_vars
  PROVE  BounceInv'
<1>1. ASSUME NEW t \in Senders, Lock(t) PROVE BounceInv'
  BY <1>1, TransferAssumption DEF Lock, Goto, TypeInv, BounceInv, Idle, vars,
     jobVars, rectVars, linkVars
<1>2. ASSUME NEW t \in Senders, LastRect(t) PROVE BounceInv'
  BY <1>2, TransferAssumption DEF LastRect, Ends, Goto, TypeInv, BounceInv, Idle,
     vars, jobVars, rectVars, linkVars
<1>3. ASSUME NEW t \in Senders, NextRect(t) PROVE BounceInv'
  BY <1>3, TransferAssumption DEF NextRect, Ends, Goto, TypeInv, BounceInv, Idle,
     vars, jobVars, rectVars, linkVars
<1>4. ASSUME NEW t \in Senders, SetBuffer(t) PROVE BounceInv'
  BY <1>4, TransferAssumption DEF SetBuffer, Goto, TypeInv, BounceInv, Idle, vars,
     jobVars, rectVars, linkVars
<1>5. ASSUME NEW t \in Senders, SetBufferFails(t) PROVE BounceInv'
  BY <1>5, TransferAssumption DEF SetBufferFails, Ends, Goto, TypeInv, BounceInv,
     Idle, vars, jobVars, rectVars, linkVars
<1>6. ASSUME NEW t \in Senders, Submit(t) PROVE BounceInv'
  BY <1>6, TransferAssumption DEF Submit, Filled, Waiting, Goto, TypeInv, BounceInv,
     Idle, vars, jobVars, rectVars, linkVars
<1>7. ASSUME NEW t \in Senders, SubmitFails(t) PROVE BounceInv'
  BY <1>7, TransferAssumption DEF SubmitFails, Filled, Retry, Again, Ends, Goto,
     TypeInv, BounceInv, Idle, vars, jobVars, rectVars, linkVars
<1>8. ASSUME NEW t \in Senders, Completed(t) PROVE BounceInv'
  BY <1>8, TransferAssumption DEF Completed, Retry, Again, Ends, Goto, TypeInv,
     BounceInv, Idle, vars, jobVars, rectVars, linkVars
<1>9. ASSUME NEW t \in Senders, Timeout(t) PROVE BounceInv'
  BY <1>9, TransferAssumption DEF Timeout, Goto, TypeInv, BounceInv, Idle, vars,
     jobVars, rectVars, linkVars
<1>10. ASSUME NEW t \in Senders, Kill(t) PROVE BounceInv'
  BY <1>10, TransferAssumption DEF Kill, Ends, Goto, TypeInv, BounceInv, Idle, vars,
     jobVars, rectVars, linkVars
<1>11. ASSUME NEW t \in Senders, Advance(t) PROVE BounceInv'
  BY <1>11, TransferAssumption DEF Advance, Goto, TypeInv, BounceInv, Idle, vars,
     jobVars, rectVars, linkVars
<1>12. ASSUME NEW t \in Senders, Finish(t) PROVE BounceInv'
  BY <1>12, TransferAssumption DEF Finish, Waiting, Goto, TypeInv, BounceInv, Idle,
     vars, jobVars, rectVars, linkVars
<1>13. ASSUME NEW t \in Senders, NEW f \in Frames, BeginRefused(t, f) PROVE BounceInv'
  BY <1>13, TransferAssumption DEF BeginRefused, Begin, Goto, TypeInv, BounceInv,
     Idle, vars, jobVars, rectVars, linkVars
<1>14. ASSUME NEW t \in Senders, NEW f \in Frames, BeginFrame(t, f) PROVE BounceInv'
  BY <1>14, TransferAssumption DEF BeginFrame, Begin, NoUrb, Goto, TypeInv,
     BounceInv, Idle, vars, jobVars, rectVars, linkVars
<1>15. ASSUME NEW t \in Senders, NEW f \in Frames, BeginProbe(t, f) PROVE BounceInv'
  BY <1>15, TransferAssumption DEF BeginProbe, Begin, Goto, TypeInv, BounceInv,
     Idle, vars, jobVars, rectVars, linkVars
<1>16. ASSUME NEW ok \in BOOLEAN, NEW full \in BOOLEAN, Complete(ok, full) PROVE BounceInv'
  BY <1>16, TransferAssumption DEF Complete, Goto, TypeInv, BounceInv, Idle, vars,
     jobVars, rectVars, linkVars
<1>17. ASSUME Disconnect PROVE BounceInv'
  BY <1>17, TransferAssumption DEF Disconnect, Goto, TypeInv, BounceInv, Idle, vars,
     jobVars, rectVars, linkVars
<1>18. ASSUME DisableEndpoints PROVE BounceInv'
  BY <1>18, TransferAssumption DEF DisableEndpoints, Goto, TypeInv, BounceInv, Idle,
     vars, jobVars, rectVars, linkVars
<1>19. ASSUME NEW n \in ProbeLengths \cup {0}, SetProbe(n) PROVE BounceInv'
  BY <1>19, TransferAssumption DEF SetProbe, Goto, TypeInv, BounceInv, Idle, vars,
     jobVars, rectVars, linkVars
<1>20. CASE UNCHANGED vars
  BY <1>20 DEF Goto, TypeInv, BounceInv, Idle, vars, jobVars, rectVars, linkVars
<1> QED  BY <1>1, <1>2, <1>3, <1>4, <1>5, <1>6, <1>7, <1>8, <1>9, <1>10,
          <1>11, <1>12, <1>13, <1>14, <1>15, <1>16, <1>17, <1>18,
          <1>19, <1>20 DEF Next, Steps, Sent

-----------------------------------------------------------------------------
(* Sizes.                                                                   *)

\* A product divided by one factor is the other.
LEMMA Exactly ==
  ASSUME NEW k \in Nat, NEW n \in Nat, n > 0
  PROVE  (k * n) \div n = k
<1> DEFINE q == (k * n) \div n
<1>1. k * n \in Nat
  OBVIOUS
<1>2. q \in Nat /\ q * n <= k * n /\ k * n < (q + 1) * n
  BY <1>1, Quotient
<1> HIDE DEF q
<1>3. q <= k /\ k < q + 1
  BY <1>2
<1>4. q = k
  BY <1>2, <1>3
<1> QED  BY <1>4 DEF q

\* More rows have more bytes.
LEMMA Grows ==
  ASSUME NEW a \in Nat, NEW b \in Nat, a < b, NEW n \in Nat, n > 0
  PROVE  a * n < b * n
<1>1. (a + 1) * n <= b * n
  OBVIOUS
<1> QED  BY <1>1

\* A number of bytes that is a number of whole rows.
LEMMA WholeRows ==
  ASSUME NEW x \in Nat, NEW y \in Nat, y > 0, x % y = 0
  PROVE  (x \div y) * y = x
  OBVIOUS

\* The sizes of a device are natural numbers, and a rectangle fits in its buffer.
LEMMA CapacityType ==
  ASSUME dev \in Devices
  PROVE  Capacity \in Nat /\ Capacity <= dev.buffer /\ dev.buffer \in Nat
<1>1. dev.buffer \in Nat /\ dev.width * dev.height * 4 \in Nat /\ Chunk \in Nat
  BY TransferAssumption
<1>2. (dev.width * dev.height * 4) % (SizeMax + 1) \in Nat
  BY <1>1, Remainder, LayoutAssumption
<1> QED  BY <1>1, <1>2 DEF Capacity, PlainCapacity, XdispCapacity, Least

\* A frame that has a layout has rows of some bytes.
LEMMA LineIsSome ==
  ASSUME NEW f \in Frames, LayoutOk(f.width, f.height, f.format)
  PROVE  /\ LineOf(f) \in Nat /\ LineOf(f) > 0
         /\ f.height \in Nat /\ f.height > 0
  BY TransferAssumption, LineType DEF LayoutOk, LineOf

\* What NextRect makes: one row or more of those that are left, not larger than
\* the buffer; and it is never refused.
LEMMA RectMade ==
  ASSUME TypeInv, LockInv, RowInv, NEW t \in Senders, NextRect(t)
  PROVE  \E n \in Nat, p \in Nat :
           /\ n \in 1..(frame[t].height - Row(t))
           /\ p \in 1..(n * LineAt(t)) /\ n * LineAt(t) \in Nat /\ n * LineAt(t) <= dev.buffer
           /\ bulk' = [by |-> t, y |-> Row(t), rows |-> n,
                       source |-> n * LineAt(t), payload |-> p]
           /\ rect' = [rect EXCEPT ![t] = bulk']
           /\ pc' = [pc EXCEPT ![t] = "set"] /\ ret' = ret
<1> DEFINE line == LineAt(t)
           k == Row(t)
           h == frame[t].height
           n == Rows(offset[t], Length(frame[t]), LineOf(frame[t]), Capacity)
<1>1. /\ pc[t] = "rect" /\ ~probing[t] /\ frame[t] \in Frames
      /\ offset[t] < Length(frame[t])
  BY DEF NextRect, LockInv, RowInv, RowAt, Sending, Idle, TypeInv
<1>2. /\ LayoutOk(frame[t].width, frame[t].height, frame[t].format)
      /\ line <= Capacity /\ k \in 0..h /\ offset[t] = k * line
  BY <1>1 DEF RowInv, RowAt, Idle
<1>3. line \in Nat /\ line > 0 /\ h \in Nat /\ Length(frame[t]) = h * line
  BY <1>1, <1>2, LineIsSome DEF LineAt, Length
<1>4. Capacity \in Nat /\ Capacity <= dev.buffer /\ dev.buffer \in Nat
  BY CapacityType DEF TypeInv
<1> HIDE DEF line, k, h
<1>5. k \in Nat /\ k < h
  BY <1>1, <1>2, <1>3
<1>6. n = Rows(k * line, h * line, line, Capacity)
  BY <1>2, <1>3 DEF line, LineAt
<1>7. n \in 1..(h - k) /\ n * line <= Capacity
  BY <1>2, <1>3, <1>4, <1>5, <1>6, RowsFit
<1> HIDE DEF n
<1>8. n \in Nat /\ n * line \in Nat /\ n * line >= 1
  BY <1>3, <1>5, <1>7
<1>9. (n * line) \div line = n
  BY <1>3, <1>8, Exactly
<1>10. PICK c \in Compressed(n * line) :
         /\ bulk' = RectOf(t, n * line, c) /\ rect' = [rect EXCEPT ![t] = bulk']
         /\ pc' = [pc EXCEPT ![t] = "set"] /\ ret' = ret
  BY <1>4, <1>7, <1>8 DEF NextRect, Goto, n, line, LineAt
<1> DEFINE p == IF c > 0 /\ c < n * line THEN c ELSE n * line
<1>11. p \in 1..(n * line)
  BY <1>8 DEF Compressed
<1>12. bulk' = [by |-> t, y |-> k, rows |-> n, source |-> n * line, payload |-> p]
  BY <1>9, <1>10 DEF RectOf, k, Row, line, LineAt
<1> HIDE DEF p
<1>13. p \in Nat /\ n * line <= dev.buffer
  BY <1>4, <1>7, <1>8, <1>11
<1> QED  BY <1>7, <1>8, <1>10, <1>11, <1>12, <1>13 DEF line, k, h

\* What BeginProbe makes: whole rows from the top of the frame.
LEMMA ProbeMade ==
  ASSUME TypeInv, NEW t \in Senders, NEW f \in Frames, BeginProbe(t, f)
  PROVE  \E n \in Nat :
           /\ LayoutOk(f.width, f.height, f.format)
           /\ n \in 1..f.height /\ n * LineOf(f) \in Nat
           /\ n * LineOf(f) >= 1 /\ n * LineOf(f) <= dev.buffer
           /\ bulk' = [by |-> t, y |-> 0, rows |-> n,
                       source |-> n * LineOf(f), payload |-> n * LineOf(f)]
           /\ rect' = [rect EXCEPT ![t] = bulk']
<1> DEFINE n == probeLength \div LineOf(f)
<1>1. /\ LayoutOk(f.width, f.height, f.format) /\ probeLength <= Capacity
      /\ probeLength % LineOf(f) = 0 /\ n \in 1..f.height
      /\ probeLength \in Nat /\ probeLength > 0
  BY TransferAssumption DEF BeginProbe, ProbeOk, TypeInv
<1>2. LineOf(f) \in Nat /\ LineOf(f) > 0 /\ f.height \in Nat
  BY <1>1, LineIsSome
<1>3. n * LineOf(f) = probeLength
  BY <1>1, <1>2, WholeRows
<1>4. probeLength <= dev.buffer
  BY <1>1, CapacityType DEF TypeInv
<1>5. bulk' = [by |-> t, y |-> 0, rows |-> n,
              source |-> probeLength, payload |-> probeLength]
      /\ rect' = [rect EXCEPT ![t] = bulk']
  BY DEF BeginProbe
<1> HIDE DEF n
<1> QED  BY <1>1, <1>2, <1>3, <1>4, <1>5

-----------------------------------------------------------------------------
(* The buffer and the URB.                                                  *)

\* Only the active sender writes the buffer and asks.
LEMMA BulkStep ==
  ASSUME TypeInv, LockInv, RowInv, BulkInv, [Next]_vars
  PROVE  BulkInv'
<1>1. ASSUME NEW t \in Senders, Lock(t) PROVE BulkInv'
  BY <1>1, OneSender DEF Lock, Goto, TypeInv, BulkInv, Active, Sending, Places,
     vars, jobVars, rectVars, linkVars
<1>2. ASSUME NEW t \in Senders, LastRect(t) PROVE BulkInv'
  BY <1>2, OneSender DEF LastRect, Ends, Goto, TypeInv, BulkInv, Active, Sending,
     Places, vars, jobVars, rectVars, linkVars
<1>3. ASSUME NEW t \in Senders, NextRect(t) PROVE BulkInv'
  <2>1. PICK n \in Nat, p \in Nat :
         /\ bulk' = [by |-> t, y |-> Row(t), rows |-> n,
                     source |-> n * LineAt(t), payload |-> p]
         /\ rect' = [rect EXCEPT ![t] = bulk'] /\ pc' = [pc EXCEPT ![t] = "set"]
    BY <1>3, RectMade
  <2>2. bulk'.by = t /\ asked' = asked /\ pc[t] = "rect"
    BY <1>3, <2>1 DEF NextRect
  <2> QED  BY <2>1, <2>2, OneSender DEF TypeInv, BulkInv, Active, Sending
<1>4. ASSUME NEW t \in Senders, SetBuffer(t) PROVE BulkInv'
  BY <1>4, OneSender DEF SetBuffer, Goto, TypeInv, BulkInv, Active, Sending, Places,
     vars, jobVars, rectVars, linkVars
<1>5. ASSUME NEW t \in Senders, SetBufferFails(t) PROVE BulkInv'
  BY <1>5, OneSender DEF SetBufferFails, Ends, Goto, TypeInv, BulkInv, Active,
     Sending, Places, vars, jobVars, rectVars, linkVars
<1>6. ASSUME NEW t \in Senders, Submit(t) PROVE BulkInv'
  BY <1>6, OneSender DEF Submit, Filled, Waiting, Goto, TypeInv, BulkInv, Active,
     Sending, Places, vars, jobVars, rectVars, linkVars
<1>7. ASSUME NEW t \in Senders, SubmitFails(t) PROVE BulkInv'
  BY <1>7, OneSender DEF SubmitFails, Filled, Retry, Again, Ends, Goto, TypeInv,
     BulkInv, Active, Sending, Places, vars, jobVars, rectVars, linkVars
<1>8. ASSUME NEW t \in Senders, Completed(t) PROVE BulkInv'
  BY <1>8, OneSender DEF Completed, Retry, Again, Ends, Goto, TypeInv, BulkInv,
     Active, Sending, Places, vars, jobVars, rectVars, linkVars
<1>9. ASSUME NEW t \in Senders, Timeout(t) PROVE BulkInv'
  BY <1>9, OneSender DEF Timeout, Goto, TypeInv, BulkInv, Active, Sending, Places,
     vars, jobVars, rectVars, linkVars
<1>10. ASSUME NEW t \in Senders, Kill(t) PROVE BulkInv'
  BY <1>10, OneSender DEF Kill, Ends, Goto, TypeInv, BulkInv, Active, Sending,
     Places, vars, jobVars, rectVars, linkVars
<1>11. ASSUME NEW t \in Senders, Advance(t) PROVE BulkInv'
  BY <1>11, OneSender DEF Advance, Goto, TypeInv, BulkInv, Active, Sending, Places,
     vars, jobVars, rectVars, linkVars
<1>12. ASSUME NEW t \in Senders, Finish(t) PROVE BulkInv'
  BY <1>12, OneSender DEF Finish, Waiting, Goto, TypeInv, BulkInv, Active, Sending,
     Places, vars, jobVars, rectVars, linkVars
<1>13. ASSUME NEW t \in Senders, NEW f \in Frames, BeginRefused(t, f) PROVE BulkInv'
  BY <1>13, OneSender DEF BeginRefused, Begin, Goto, TypeInv, BulkInv, Active,
     Sending, Places, vars, jobVars, rectVars, linkVars
<1>14. ASSUME NEW t \in Senders, NEW f \in Frames, BeginFrame(t, f) PROVE BulkInv'
  BY <1>14, OneSender DEF BeginFrame, Begin, NoUrb, Goto, TypeInv, BulkInv, Active,
     Sending, Places, vars, jobVars, rectVars, linkVars
<1>15. ASSUME NEW t \in Senders, NEW f \in Frames, BeginProbe(t, f) PROVE BulkInv'
  BY <1>15, OneSender DEF BeginProbe, Begin, Goto, TypeInv, BulkInv, Active,
     Sending, Places, Idle, Others, vars, jobVars, rectVars, linkVars
<1>16. ASSUME NEW ok \in BOOLEAN, NEW full \in BOOLEAN, Complete(ok, full) PROVE BulkInv'
  BY <1>16, OneSender DEF Complete, Goto, TypeInv, BulkInv, Active, Sending, Places,
     vars, jobVars, rectVars, linkVars
<1>17. ASSUME Disconnect PROVE BulkInv'
  BY <1>17, OneSender DEF Disconnect, Goto, TypeInv, BulkInv, Active, Sending,
     Places, vars, jobVars, rectVars, linkVars
<1>18. ASSUME DisableEndpoints PROVE BulkInv'
  BY <1>18, OneSender DEF DisableEndpoints, Goto, TypeInv, BulkInv, Active, Sending,
     Places, vars, jobVars, rectVars, linkVars
<1>19. ASSUME NEW n \in ProbeLengths \cup {0}, SetProbe(n) PROVE BulkInv'
  BY <1>19, OneSender DEF SetProbe, Goto, TypeInv, BulkInv, Active, Sending, Places,
     vars, jobVars, rectVars, linkVars
<1>20. CASE UNCHANGED vars
  BY <1>20 DEF Goto, TypeInv, BulkInv, Active, Sending, Places, vars, jobVars,
     rectVars, linkVars
<1> QED  BY <1>1, <1>2, <1>3, <1>4, <1>5, <1>6, <1>7, <1>8, <1>9, <1>10,
          <1>11, <1>12, <1>13, <1>14, <1>15, <1>16, <1>17, <1>18,
          <1>19, <1>20 DEF Next, Steps, Sent

\* The URB is in flight only while its sender waits for it.
LEMMA UrbStep ==
  ASSUME TypeInv, LockInv, UrbInv, [Next]_vars
  PROVE  UrbInv'
<1>1. ASSUME NEW t \in Senders, Lock(t) PROVE UrbInv'
  BY <1>1, OneSender DEF Lock, Goto, TypeInv, UrbInv, Active, Places, vars, jobVars,
     rectVars, linkVars
<1>2. ASSUME NEW t \in Senders, LastRect(t) PROVE UrbInv'
  BY <1>2, OneSender DEF LastRect, Ends, Goto, TypeInv, UrbInv, Active, Places,
     vars, jobVars, rectVars, linkVars
<1>3. ASSUME NEW t \in Senders, NextRect(t) PROVE UrbInv'
  BY <1>3, OneSender DEF NextRect, Ends, Goto, TypeInv, UrbInv, Active, Places,
     vars, jobVars, rectVars, linkVars
<1>4. ASSUME NEW t \in Senders, SetBuffer(t) PROVE UrbInv'
  BY <1>4, OneSender DEF SetBuffer, Goto, TypeInv, UrbInv, Active, Places, vars,
     jobVars, rectVars, linkVars
<1>5. ASSUME NEW t \in Senders, SetBufferFails(t) PROVE UrbInv'
  BY <1>5, OneSender DEF SetBufferFails, Ends, Goto, TypeInv, UrbInv, Active,
     Places, vars, jobVars, rectVars, linkVars
<1>6. ASSUME NEW t \in Senders, Submit(t) PROVE UrbInv'
  BY <1>6, OneSender DEF Submit, Filled, Waiting, Goto, TypeInv, UrbInv, Active,
     Places, vars, jobVars, rectVars, linkVars
<1>7. ASSUME NEW t \in Senders, SubmitFails(t) PROVE UrbInv'
  BY <1>7, OneSender DEF SubmitFails, Filled, Retry, Again, Ends, Goto, TypeInv,
     UrbInv, Active, Places, vars, jobVars, rectVars, linkVars
<1>8. ASSUME NEW t \in Senders, Completed(t) PROVE UrbInv'
  BY <1>8, OneSender DEF Completed, Retry, Again, Ends, Goto, TypeInv, UrbInv,
     Active, Places, vars, jobVars, rectVars, linkVars
<1>9. ASSUME NEW t \in Senders, Timeout(t) PROVE UrbInv'
  BY <1>9, OneSender DEF Timeout, Goto, TypeInv, UrbInv, Active, Places, vars,
     jobVars, rectVars, linkVars
<1>10. ASSUME NEW t \in Senders, Kill(t) PROVE UrbInv'
  BY <1>10, OneSender DEF Kill, Ends, Goto, TypeInv, UrbInv, Active, Places, vars,
     jobVars, rectVars, linkVars
<1>11. ASSUME NEW t \in Senders, Advance(t) PROVE UrbInv'
  BY <1>11, OneSender DEF Advance, Goto, TypeInv, UrbInv, Active, Places, vars,
     jobVars, rectVars, linkVars
<1>12. ASSUME NEW t \in Senders, Finish(t) PROVE UrbInv'
  BY <1>12, OneSender DEF Finish, Waiting, Goto, TypeInv, UrbInv, Active, Places,
     vars, jobVars, rectVars, linkVars
<1>13. ASSUME NEW t \in Senders, NEW f \in Frames, BeginRefused(t, f) PROVE UrbInv'
  BY <1>13, OneSender DEF BeginRefused, Begin, Goto, TypeInv, UrbInv, Active,
     Places, vars, jobVars, rectVars, linkVars
<1>14. ASSUME NEW t \in Senders, NEW f \in Frames, BeginFrame(t, f) PROVE UrbInv'
  BY <1>14, OneSender DEF BeginFrame, Begin, NoUrb, Goto, TypeInv, UrbInv, Active,
     Places, Idle, Others, vars, jobVars, rectVars, linkVars
<1>15. ASSUME NEW t \in Senders, NEW f \in Frames, BeginProbe(t, f) PROVE UrbInv'
  BY <1>15, OneSender DEF BeginProbe, Begin, Goto, TypeInv, UrbInv, Active, Places,
     Idle, Others, vars, jobVars, rectVars, linkVars
<1>16. ASSUME NEW ok \in BOOLEAN, NEW full \in BOOLEAN, Complete(ok, full) PROVE UrbInv'
  BY <1>16, OneSender DEF Complete, Goto, TypeInv, UrbInv, Active, Places, vars,
     jobVars, rectVars, linkVars
<1>17. ASSUME Disconnect PROVE UrbInv'
  BY <1>17, OneSender DEF Disconnect, Goto, TypeInv, UrbInv, Active, Places, vars,
     jobVars, rectVars, linkVars
<1>18. ASSUME DisableEndpoints PROVE UrbInv'
  BY <1>18, OneSender DEF DisableEndpoints, Goto, TypeInv, UrbInv, Active, Places,
     vars, jobVars, rectVars, linkVars
<1>19. ASSUME NEW n \in ProbeLengths \cup {0}, SetProbe(n) PROVE UrbInv'
  BY <1>19, OneSender DEF SetProbe, Goto, TypeInv, UrbInv, Active, Places, vars,
     jobVars, rectVars, linkVars
<1>20. CASE UNCHANGED vars
  BY <1>20 DEF Goto, TypeInv, UrbInv, Active, Places, vars, jobVars, rectVars, linkVars
<1> QED  BY <1>1, <1>2, <1>3, <1>4, <1>5, <1>6, <1>7, <1>8, <1>9, <1>10,
          <1>11, <1>12, <1>13, <1>14, <1>15, <1>16, <1>17, <1>18,
          <1>19, <1>20 DEF Next, Steps, Sent

-----------------------------------------------------------------------------
(* Types.                                                                   *)

\* No row of a frame is drawn at first.
LEMMA UndrawnType ==
  /\ \A y \in DOMAIN Undrawn : y \in Nat
  /\ Undrawn = UpTo(0) /\ Undrawn \in [DOMAIN Undrawn -> Nat]
<1>1. \A y \in DOMAIN Undrawn : y \in Int /\ y >= 0
  BY DEF Undrawn
<1>2. Undrawn = [y \in DOMAIN Undrawn |-> 0]
  BY DEF Undrawn
<1> QED  BY <1>1, <1>2 DEF UpTo

\* Steps keep the types.
LEMMA TypeStep ==
  ASSUME TypeInv, LockInv, RowInv, [Next]_vars
  PROVE  TypeInv'
<1>1. ASSUME NEW t \in Senders, Lock(t) PROVE TypeInv'
  BY <1>1, TransferAssumption DEF Lock, Goto, TypeInv, Places, Rects, vars, jobVars,
     rectVars, linkVars
<1>2. ASSUME NEW t \in Senders, LastRect(t) PROVE TypeInv'
  BY <1>2, TransferAssumption DEF LastRect, Ends, Goto, TypeInv, Places, Rects,
     vars, jobVars, rectVars, linkVars
<1>3. ASSUME NEW t \in Senders, NextRect(t) PROVE TypeInv'
  <2>1. bulk' \in Rects(dev.buffer)
        /\ rect' = [rect EXCEPT ![t] = bulk']
        /\ pc' = [pc EXCEPT ![t] = "set"] /\ ret' = ret
    <3>1. PICK n \in Nat, p \in Nat :
            /\ n \in 1..(frame[t].height - Row(t))
            /\ p \in 1..(n * LineAt(t)) /\ n * LineAt(t) \in Nat /\ n * LineAt(t) <= dev.buffer
            /\ bulk' = [by |-> t, y |-> Row(t), rows |-> n,
                        source |-> n * LineAt(t), payload |-> p]
            /\ rect' = [rect EXCEPT ![t] = bulk']
            /\ pc' = [pc EXCEPT ![t] = "set"] /\ ret' = ret
      BY <1>3, RectMade
    <3>2. Row(t) \in Nat /\ n > 0 /\ p <= n * LineAt(t)
      BY <1>3, <3>1 DEF NextRect, RowInv, RowAt, Idle
    <3> QED  BY <3>1, <3>2 DEF Rects
  <2>2. UNCHANGED <<jobVars, offset, drawn, probeLength, linkVars, tries, lock, asked,
                    urb, ctx>>
    BY <1>3 DEF NextRect
  <2> QED  BY <2>1, <2>2 DEF Goto, TypeInv, Places, vars, jobVars, rectVars, linkVars
<1>4. ASSUME NEW t \in Senders, SetBuffer(t) PROVE TypeInv'
  BY <1>4, TransferAssumption DEF SetBuffer, Goto, TypeInv, Places, Rects, vars,
     jobVars, rectVars, linkVars
<1>5. ASSUME NEW t \in Senders, SetBufferFails(t) PROVE TypeInv'
  BY <1>5, TransferAssumption DEF SetBufferFails, Ends, Goto, TypeInv, Places,
     Rects, vars, jobVars, rectVars, linkVars
<1>6. ASSUME NEW t \in Senders, Submit(t) PROVE TypeInv'
  BY <1>6, TransferAssumption DEF Submit, Filled, Waiting, Goto, TypeInv, Places,
     Rects, vars, jobVars, rectVars, linkVars
<1>7. ASSUME NEW t \in Senders, SubmitFails(t) PROVE TypeInv'
  <2>1. urb' \in [by : Senders \cup {"none"}, length : Nat, active : BOOLEAN]
    <3>1. rect[t].payload \in Nat /\ urb.active \in BOOLEAN
      BY DEF TypeInv, Rects
    <3> QED  BY <1>7, <3>1 DEF SubmitFails, Filled
  <2>2. pc' \in [Senders -> Places] /\ ret' \in [Senders -> {"ok", "error"}]
    BY <1>7 DEF SubmitFails, Retry, Ends, Goto, TypeInv, Places
  <2>3. tries' \in [Senders -> 0..MaxRetries]
    <3>1. \/ tries[t] < MaxRetries /\ tries' = [tries EXCEPT ![t] = tries[t] + 1]
          \/ tries' = tries
      BY <1>7 DEF SubmitFails, Retry, Again, Goto, Ends
    <3>2. tries \in [Senders -> 0..MaxRetries] /\ MaxRetries \in Nat
      BY TransferAssumption DEF TypeInv
    <3>3. CASE tries[t] < MaxRetries /\ tries' = [tries EXCEPT ![t] = tries[t] + 1]
      <4>1. tries[t] + 1 \in 0..MaxRetries
        BY <3>2, <3>3
      <4> QED  BY <3>2, <3>3, <4>1
    <3> QED  BY <3>1, <3>2, <3>3
  <2>4. UNCHANGED <<jobVars, rectVars, probeLength, linkVars, lock, bulk, asked, ctx>>
    BY <1>7 DEF SubmitFails
  <2> QED  BY <2>1, <2>2, <2>3, <2>4 DEF TypeInv, jobVars, rectVars, linkVars
<1>8. ASSUME NEW t \in Senders, Completed(t) PROVE TypeInv'
  <2>1. pc' \in [Senders -> Places] /\ ret' \in [Senders -> {"ok", "error"}]
    BY <1>8 DEF Completed, Retry, Ends, Goto, TypeInv, Places
  <2>2. tries' \in [Senders -> 0..MaxRetries]
    BY <1>8, TransferAssumption DEF Completed, Retry, Again, Goto, TypeInv
  <2>3. UNCHANGED <<jobVars, rectVars, probeLength, linkVars, lock, bulk, asked, urb, ctx>>
    BY <1>8 DEF Completed
  <2> QED  BY <2>1, <2>2, <2>3 DEF TypeInv, jobVars, rectVars, linkVars
<1>9. ASSUME NEW t \in Senders, Timeout(t) PROVE TypeInv'
  BY <1>9, TransferAssumption DEF Timeout, Goto, TypeInv, Places, Rects, vars,
     jobVars, rectVars, linkVars
<1>10. ASSUME NEW t \in Senders, Kill(t) PROVE TypeInv'
  BY <1>10, TransferAssumption, ZenonT(60) DEF Kill, Ends, Goto, TypeInv, Places, Rects, vars,
     jobVars, rectVars, linkVars
<1>11. ASSUME NEW t \in Senders, Advance(t) PROVE TypeInv'
  <2>1. rect[t].source \in Nat
    BY DEF TypeInv, Rects
  <2>2. offset' \in [Senders -> Nat] /\ pc' \in [Senders -> Places]
    <3>1. offset' = offset \/ offset' = [offset EXCEPT ![t] = offset[t] + rect[t].source]
      <4>1. CASE probing[t]
        BY <1>11, <4>1 DEF Advance, Goto
      <4>2. CASE ~probing[t]
        BY <1>11, <4>2 DEF Advance, Goto
      <4> QED  BY <4>1, <4>2
    <3>2. \E l \in Places : pc' = [pc EXCEPT ![t] = l]
      BY <1>11 DEF Advance, Goto, Places
    <3> QED  BY <2>1, <3>1, <3>2 DEF TypeInv
  <2>3. UNCHANGED <<jobVars, rect, drawn, probeLength, linkVars, tries, ret, lock, bulk,
                    asked, urb, ctx>>
    BY <1>11 DEF Advance
  <2> QED  BY <2>2, <2>3 DEF TypeInv, jobVars, linkVars
<1>12. ASSUME NEW t \in Senders, Finish(t) PROVE TypeInv'
  <2>1. /\ rect' \in [Senders -> Rects(dev.buffer)]
        /\ frame' \in [Senders -> Frames \cup {NoFrame}] /\ offset' \in [Senders -> Nat]
    BY <1>12 DEF Finish, TypeInv, Rects, Nothing
  <2>2. /\ pc' \in [Senders -> Places] /\ probing' \in [Senders -> BOOLEAN]
        /\ tries' \in [Senders -> 0..MaxRetries] /\ ret' \in [Senders -> {"ok", "error"}]
        /\ ctx' \in [Senders -> [done : BOOLEAN, ok : BOOLEAN, full : BOOLEAN]]
    BY <1>12, TransferAssumption DEF Finish, Goto, TypeInv, Places, Waiting
  <2>3. drawn' \in [Senders -> [DOMAIN Undrawn -> Nat]]
    BY <1>12, UndrawnType DEF Finish, TypeInv
  <2>4. lock' \in Senders \cup {"none"} /\ bounce' \in BOOLEAN
    BY <1>12 DEF Finish, TypeInv
  <2>5. UNCHANGED <<dev, frames, probeLength, linkVars, bulk, asked, urb>>
    BY <1>12 DEF Finish
  <2> QED  BY <2>1, <2>2, <2>3, <2>4, <2>5 DEF TypeInv, linkVars
<1>13. ASSUME NEW t \in Senders, NEW f \in Frames, BeginRefused(t, f) PROVE TypeInv'
  BY <1>13, TransferAssumption DEF BeginRefused, Begin, Goto, TypeInv, Places,
     Rects, vars, jobVars, rectVars, linkVars
<1>14. ASSUME NEW t \in Senders, NEW f \in Frames, BeginFrame(t, f) PROVE TypeInv'
  BY <1>14, TransferAssumption DEF BeginFrame, Begin, NoUrb, Goto, TypeInv, Places,
     Rects, vars, jobVars, rectVars, linkVars
<1>15. ASSUME NEW t \in Senders, NEW f \in Frames, BeginProbe(t, f) PROVE TypeInv'
  <2>1. bulk' \in Rects(dev.buffer) /\ rect' = [rect EXCEPT ![t] = bulk']
    <3>1. PICK n \in Nat :
            /\ n \in 1..f.height /\ n * LineOf(f) \in Nat
            /\ n * LineOf(f) >= 1 /\ n * LineOf(f) <= dev.buffer
            /\ bulk' = [by |-> t, y |-> 0, rows |-> n,
                        source |-> n * LineOf(f), payload |-> n * LineOf(f)]
            /\ rect' = [rect EXCEPT ![t] = bulk']
      BY <1>15, ProbeMade
    <3>2. n > 0
      BY <3>1
    <3> QED  BY <3>1, <3>2 DEF Rects
  <2>2. /\ pc' \in [Senders -> Places] /\ probing' \in [Senders -> BOOLEAN]
        /\ frame' \in [Senders -> Frames \cup {NoFrame}] /\ frames' \in 0..MaxFrames
    BY <1>15, TransferAssumption DEF BeginProbe, Begin, Goto, TypeInv, Places
  <2>3. /\ UNCHANGED <<dev, offset, drawn, probeLength, linkVars, ret, tries, lock,
                       asked, ctx>>
        /\ UNCHANGED <<bounce, urb>>
    BY <1>15 DEF BeginProbe, Begin
  <2> QED  BY <2>1, <2>2, <2>3 DEF TypeInv, linkVars
<1>16. ASSUME NEW ok \in BOOLEAN, NEW full \in BOOLEAN, Complete(ok, full) PROVE TypeInv'
  <2>1. drawn' \in [Senders -> [DOMAIN Undrawn -> Nat]]
    <3> DEFINE rows == asked.y..(asked.y + asked.rows - 1)
               new == [y \in DOMAIN drawn[urb.by] |->
                         IF y \in rows THEN drawn[urb.by][y] + 1 ELSE drawn[urb.by][y]]
    <3>1. drawn' = drawn \/ drawn' = [drawn EXCEPT ![urb.by] = new]
      BY <1>16 DEF Complete, Draw
    <3>2. drawn \in [Senders -> [DOMAIN Undrawn -> Nat]]
      BY DEF TypeInv
    <3>3. CASE urb.by \in Senders
      <4>1. drawn[urb.by] \in [DOMAIN Undrawn -> Nat]
        BY <3>2, <3>3
      <4> HIDE DEF rows
      <4>2. new \in [DOMAIN Undrawn -> Nat]
        BY <4>1
      <4> HIDE DEF new
      <4> QED  BY <3>1, <3>2, <4>2
    <3>4. CASE urb.by \notin Senders
      BY <3>1, <3>2, <3>4
    <3> QED  BY <3>3, <3>4
  <2>2. ctx' \in [Senders -> [done : BOOLEAN, ok : BOOLEAN, full : BOOLEAN]]
    BY <1>16 DEF Complete, TypeInv
  <2>3. urb' \in [by : Senders \cup {"none"}, length : Nat, active : BOOLEAN]
    BY <1>16 DEF Complete, TypeInv
  <2>4. UNCHANGED <<jobVars, offset, rect, probeLength, linkVars, pc, tries, ret, lock,
                    bulk, asked>>
    BY <1>16 DEF Complete
  <2> QED  BY <2>1, <2>2, <2>3, <2>4 DEF TypeInv, jobVars, linkVars
<1>17. ASSUME Disconnect PROVE TypeInv'
  BY <1>17, TransferAssumption DEF Disconnect, Goto, TypeInv, Places, Rects, vars,
     jobVars, rectVars, linkVars
<1>18. ASSUME DisableEndpoints PROVE TypeInv'
  BY <1>18, TransferAssumption DEF DisableEndpoints, Goto, TypeInv, Places, Rects,
     vars, jobVars, rectVars, linkVars
<1>19. ASSUME NEW n \in ProbeLengths \cup {0}, SetProbe(n) PROVE TypeInv'
  BY <1>19, TransferAssumption DEF SetProbe, Goto, TypeInv, Places, Rects, vars,
     jobVars, rectVars, linkVars
<1>20. CASE UNCHANGED vars
  BY <1>20 DEF Goto, TypeInv, Places, Rects, vars, jobVars, rectVars, linkVars
<1> QED  BY <1>1, <1>2, <1>3, <1>4, <1>5, <1>6, <1>7, <1>8, <1>9, <1>10,
          <1>11, <1>12, <1>13, <1>14, <1>15, <1>16, <1>17, <1>18,
          <1>19, <1>20 DEF Next, Steps, Sent

-----------------------------------------------------------------------------
(* Rows.                                                                    *)

\* What a sender's rows depend on has not changed.
SameFrame(u) ==
  /\ dev' = dev /\ frame'[u] = frame[u] /\ offset'[u] = offset[u]
  /\ rect'[u] = rect[u] /\ probing'[u] = probing[u]
  /\ (pc'[u] = "idle" <=> pc[u] = "idle")
SameRow(u) ==
  /\ SameFrame(u)
  /\ pc'[u] = "lock" => pc[u] = "lock"
  /\ pc'[u] \in Sending => pc[u] \in Sending

\* Then its rows are as before.
LEMMA RowKept ==
  ASSUME NEW u \in Senders, RowAt(u), SameRow(u)
  PROVE  RowAt(u)'
<1>1. Row(u)' = Row(u) /\ LineAt(u)' = LineAt(u) /\ Capacity' = Capacity
  BY DEF SameRow, SameFrame, Row, LineAt, Capacity
<1> QED  BY <1>1 DEF SameRow, SameFrame, RowAt, Idle

\* A sender goes through its frame by rows.
LEMMA RowStep ==
  ASSUME TypeInv, LockInv, RowInv, [Next]_vars
  PROVE  RowInv'
<1>1. ASSUME NEW t \in Senders, Lock(t) PROVE RowInv'
  <2>1. ASSUME NEW u \in Senders PROVE SameRow(u)
    BY <1>1 DEF Lock, Goto, TypeInv, SameRow, SameFrame, Idle, Sending, vars,
       jobVars, rectVars, linkVars
  <2> QED  BY <2>1, RowKept DEF RowInv
<1>2. ASSUME NEW t \in Senders, LastRect(t) PROVE RowInv'
  <2>1. ASSUME NEW u \in Senders PROVE SameRow(u)
    BY <1>2 DEF LastRect, Ends, Goto, TypeInv, SameRow, SameFrame, Idle, Sending,
       vars, jobVars, rectVars, linkVars
  <2> QED  BY <2>1, RowKept DEF RowInv
<1>3. ASSUME NEW t \in Senders, NextRect(t) PROVE RowInv'
  <2>1. PICK n \in Nat, p \in Nat :
         /\ n \in 1..(frame[t].height - Row(t))
         /\ bulk' = [by |-> t, y |-> Row(t), rows |-> n,
                     source |-> n * LineAt(t), payload |-> p]
         /\ rect' = [rect EXCEPT ![t] = bulk'] /\ pc' = [pc EXCEPT ![t] = "set"]
    BY <1>3, RectMade
  <2>2. /\ pc[t] = "rect" /\ dev' = dev /\ frame' = frame /\ offset' = offset
        /\ probing' = probing
    BY <1>3 DEF NextRect, jobVars
  <2>3. ASSUME NEW u \in Senders, u # t PROVE SameRow(u)
    <3>1. pc'[u] = pc[u] /\ rect'[u] = rect[u]
      BY <2>1, <2>3 DEF TypeInv
    <3> QED  BY <2>2, <3>1 DEF SameRow, SameFrame
  <2>4. RowAt(t)'
    <3>1. Row(t)' = Row(t) /\ LineAt(t)' = LineAt(t) /\ Capacity' = Capacity
      BY <2>2 DEF Row, LineAt, Capacity
    <3>2. rect'[t] = bulk' /\ pc'[t] = "set"
      BY <2>1 DEF TypeInv
    <3> QED  BY <2>1, <2>2, <3>1, <3>2 DEF RowInv, RowAt, Idle
  <2> QED  BY <2>3, <2>4, RowKept DEF RowInv
<1>4. ASSUME NEW t \in Senders, SetBuffer(t) PROVE RowInv'
  <2>1. ASSUME NEW u \in Senders PROVE SameRow(u)
    BY <1>4 DEF SetBuffer, Goto, TypeInv, SameRow, SameFrame, Idle, Sending, vars,
       jobVars, rectVars, linkVars
  <2> QED  BY <2>1, RowKept DEF RowInv
<1>5. ASSUME NEW t \in Senders, SetBufferFails(t) PROVE RowInv'
  <2>1. ASSUME NEW u \in Senders PROVE SameRow(u)
    BY <1>5 DEF SetBufferFails, Ends, Goto, TypeInv, SameRow, SameFrame, Idle,
       Sending, vars, jobVars, rectVars, linkVars
  <2> QED  BY <2>1, RowKept DEF RowInv
<1>6. ASSUME NEW t \in Senders, Submit(t) PROVE RowInv'
  <2>1. ASSUME NEW u \in Senders PROVE SameRow(u)
    BY <1>6 DEF Submit, Filled, Waiting, Goto, TypeInv, SameRow, SameFrame, Idle,
       Sending, vars, jobVars, rectVars, linkVars
  <2> QED  BY <2>1, RowKept DEF RowInv
<1>7. ASSUME NEW t \in Senders, SubmitFails(t) PROVE RowInv'
  <2>1. ASSUME NEW u \in Senders PROVE SameRow(u)
    BY <1>7 DEF SubmitFails, Filled, Retry, Again, Ends, Goto, TypeInv, SameRow,
       SameFrame, Idle, Sending, vars, jobVars, rectVars, linkVars
  <2> QED  BY <2>1, RowKept DEF RowInv
<1>8. ASSUME NEW t \in Senders, Completed(t) PROVE RowInv'
  <2>1. ASSUME NEW u \in Senders PROVE SameRow(u)
    BY <1>8 DEF Completed, Retry, Again, Ends, Goto, TypeInv, SameRow, SameFrame,
       Idle, Sending, vars, jobVars, rectVars, linkVars
  <2> QED  BY <2>1, RowKept DEF RowInv
<1>9. ASSUME NEW t \in Senders, Timeout(t) PROVE RowInv'
  <2>1. ASSUME NEW u \in Senders PROVE SameRow(u)
    BY <1>9 DEF Timeout, Goto, TypeInv, SameRow, SameFrame, Idle, Sending, vars,
       jobVars, rectVars, linkVars
  <2> QED  BY <2>1, RowKept DEF RowInv
<1>10. ASSUME NEW t \in Senders, Kill(t) PROVE RowInv'
  <2>1. ASSUME NEW u \in Senders PROVE SameRow(u)
    BY <1>10 DEF Kill, Ends, Goto, TypeInv, SameRow, SameFrame, Idle, Sending, vars,
       jobVars, rectVars, linkVars
  <2> QED  BY <2>1, RowKept DEF RowInv
<1>11. ASSUME NEW t \in Senders, Advance(t) PROVE RowInv'
  <2>1. ASSUME NEW u \in Senders, u # t PROVE SameRow(u)
    <3>1. pc'[u] = pc[u] /\ probing'[u] = probing[u] /\ dev' = dev
      BY <1>11, <2>1 DEF Advance, Goto, TypeInv, vars, jobVars, rectVars, linkVars
    <3>2. frame'[u] = frame[u] /\ offset'[u] = offset[u] /\ rect'[u] = rect[u]
      BY <1>11, <2>1 DEF Advance, TypeInv, vars, jobVars, rectVars, linkVars
    <3> QED  BY <3>1, <3>2 DEF SameRow, SameFrame
  <2>2. RowAt(t)'
    <3>1. CASE probing[t]
      <4>1. /\ frame' = frame /\ offset' = offset /\ rect' = rect /\ dev' = dev
            /\ probing' = probing /\ pc' = [pc EXCEPT ![t] = "end"] /\ pc[t] = "next"
        BY <1>11, <3>1 DEF Advance, Goto, jobVars
      <4>2. SameRow(t)
        BY <4>1 DEF TypeInv, SameRow, SameFrame, Idle, Sending
      <4> QED  BY <4>2, RowKept DEF RowInv
    <3>2. CASE ~probing[t]
      <4>1. /\ frame' = frame /\ rect' = rect /\ dev' = dev /\ probing' = probing
            /\ offset'[t] = offset[t] + rect[t].source /\ pc'[t] = "rect" /\ pc[t] = "next"
        BY <1>11, <3>2 DEF Advance, Goto, jobVars, TypeInv
      <4>2. /\ frame[t] \in Frames /\ LineAt(t) <= Capacity
            /\ LayoutOk(frame[t].width, frame[t].height, frame[t].format)
            /\ Row(t) \in 0..frame[t].height /\ offset[t] = Row(t) * LineAt(t)
            /\ rect[t].rows \in 1..(frame[t].height - Row(t))
            /\ rect[t].source = rect[t].rows * LineAt(t)
        BY <3>2, <4>1 DEF RowInv, RowAt, Idle, Sending
      <4>3. /\ LineAt(t) \in Nat /\ LineAt(t) > 0 /\ frame[t].height \in Nat
        BY <4>2, LineIsSome DEF LineAt
      <4>4. /\ LineAt(t)' = LineAt(t) /\ Capacity' = Capacity
        BY <4>1 DEF LineAt, Capacity
      <4>5. offset'[t] = (Row(t) + rect[t].rows) * LineAt(t)
        BY <4>1, <4>2, <4>3
      <4>6. Row(t)' = Row(t) + rect[t].rows
        <5>1. Row(t) + rect[t].rows \in Nat
          BY <4>2, <4>3
        <5> QED  BY <4>3, <4>4, <4>5, <5>1, Exactly DEF Row
      <4>7. Row(t)' \in 0..frame[t].height
        BY <4>2, <4>3, <4>6
      <4> QED  BY <3>2, <4>1, <4>2, <4>4, <4>5, <4>6, <4>7 DEF RowAt, Idle, Sending
    <3> QED  BY <3>1, <3>2
  <2> QED  BY <2>1, <2>2, RowKept DEF RowInv
<1>12. ASSUME NEW t \in Senders, Finish(t) PROVE RowInv'
  <2>1. ASSUME NEW u \in Senders, u # t PROVE SameRow(u)
    <3>1. pc'[u] = pc[u] /\ probing'[u] = probing[u] /\ dev' = dev
      BY <1>12, <2>1 DEF Finish, Waiting, Goto, TypeInv, vars, jobVars, rectVars,
         linkVars
    <3>2. frame'[u] = frame[u] /\ offset'[u] = offset[u] /\ rect'[u] = rect[u]
      BY <1>12, <2>1 DEF Finish, Waiting, TypeInv, vars, jobVars, rectVars, linkVars
    <3> QED  BY <3>1, <3>2 DEF SameRow, SameFrame
  <2>2. RowAt(t)'
    <3>1. frame'[t] = NoFrame /\ offset'[t] = 0 /\ pc'[t] = "idle"
      BY <1>12 DEF Finish, Goto, TypeInv
    <3> QED  BY <3>1 DEF RowAt, Idle, Sending
  <2> QED  BY <2>1, <2>2, RowKept DEF RowInv
<1>13. ASSUME NEW t \in Senders, NEW f \in Frames, BeginRefused(t, f) PROVE RowInv'
  <2>1. ASSUME NEW u \in Senders PROVE SameRow(u)
    BY <1>13 DEF BeginRefused, Begin, Goto, TypeInv, SameRow, SameFrame, Idle,
       Sending, vars, jobVars, rectVars, linkVars
  <2> QED  BY <2>1, RowKept DEF RowInv
<1>14. ASSUME NEW t \in Senders, NEW f \in Frames, BeginFrame(t, f) PROVE RowInv'
  <2>1. ASSUME NEW u \in Senders, u # t PROVE SameRow(u)
    <3>1. pc'[u] = pc[u] /\ probing'[u] = probing[u] /\ dev' = dev
      BY <1>14, <2>1 DEF BeginFrame, Begin, NoUrb, Goto, TypeInv, vars, jobVars,
         rectVars, linkVars
    <3>2. frame'[u] = frame[u] /\ offset'[u] = offset[u] /\ rect'[u] = rect[u]
      BY <1>14, <2>1 DEF BeginFrame, Begin, NoUrb, TypeInv, vars, jobVars, rectVars,
         linkVars
    <3> QED  BY <3>1, <3>2 DEF SameRow, SameFrame
  <2>2. RowAt(t)'
    <3>1. /\ frame'[t] = f /\ offset'[t] = 0 /\ pc'[t] = "lock" /\ dev' = dev
          /\ LayoutOk(f.width, f.height, f.format) /\ LineOf(f) <= Capacity
      BY <1>14 DEF BeginFrame, Begin, Goto, Sendable, TypeInv, RowInv, RowAt, Idle
    <3>2. /\ LineOf(f) \in Nat /\ LineOf(f) > 0 /\ f.height \in Nat
      BY <3>1, LineIsSome
    <3>3. LineAt(t)' = LineOf(f) /\ Capacity' = Capacity /\ 0 * LineOf(f) = 0
      BY <3>1, <3>2 DEF LineAt, Capacity
    <3>4. Row(t)' = 0
      BY <3>1, <3>2, <3>3, Exactly DEF Row
    <3> QED  BY <3>1, <3>2, <3>3, <3>4 DEF RowAt, Idle, Sending
  <2> QED  BY <2>1, <2>2, RowKept DEF RowInv
<1>15. ASSUME NEW t \in Senders, NEW f \in Frames, BeginProbe(t, f) PROVE RowInv'
  <2>1. ASSUME NEW u \in Senders, u # t PROVE SameRow(u)
    <3>1. pc'[u] = pc[u] /\ probing'[u] = probing[u] /\ dev' = dev
      BY <1>15, <2>1 DEF BeginProbe, Begin, Goto, TypeInv, vars, jobVars, rectVars,
         linkVars
    <3>2. frame'[u] = frame[u] /\ offset'[u] = offset[u] /\ rect'[u] = rect[u]
      BY <1>15, <2>1 DEF BeginProbe, Begin, TypeInv, vars, jobVars, rectVars, linkVars
    <3> QED  BY <3>1, <3>2 DEF SameRow, SameFrame
  <2>2. RowAt(t)'
    <3>1. /\ frame'[t] = f /\ offset'[t] = 0 /\ pc'[t] = "set" /\ dev' = dev
          /\ probing'[t] = TRUE
      BY <1>15 DEF BeginProbe, Begin, Goto, TypeInv, RowInv, RowAt, Idle
    <3>2. PICK n \in Nat :
            /\ LayoutOk(f.width, f.height, f.format)
            /\ n \in 1..f.height
            /\ bulk' = [by |-> t, y |-> 0, rows |-> n,
                        source |-> n * LineOf(f), payload |-> n * LineOf(f)]
            /\ rect' = [rect EXCEPT ![t] = bulk']
      BY <1>15, ProbeMade
    <3>3. /\ LineOf(f) \in Nat /\ LineOf(f) > 0 /\ f.height \in Nat
      BY <3>2, LineIsSome
    <3>4. LineAt(t)' = LineOf(f) /\ 0 * LineOf(f) = 0 /\ rect'[t] = bulk'
      BY <3>1, <3>2, <3>3 DEF LineAt, TypeInv
    <3>5. Row(t)' = 0
      BY <3>1, <3>3, <3>4, Exactly DEF Row
    <3> QED  BY <3>1, <3>2, <3>3, <3>4, <3>5 DEF RowAt, Idle, Sending
  <2> QED  BY <2>1, <2>2, RowKept DEF RowInv
<1>16. ASSUME NEW ok \in BOOLEAN, NEW full \in BOOLEAN, Complete(ok, full) PROVE RowInv'
  <2>1. ASSUME NEW u \in Senders PROVE SameRow(u)
    BY <1>16 DEF Complete, Goto, TypeInv, SameRow, SameFrame, Idle, Sending, vars,
       jobVars, rectVars, linkVars
  <2> QED  BY <2>1, RowKept DEF RowInv
<1>17. ASSUME Disconnect PROVE RowInv'
  <2>1. ASSUME NEW u \in Senders PROVE SameRow(u)
    BY <1>17 DEF Disconnect, Goto, TypeInv, SameRow, SameFrame, Idle, Sending, vars,
       jobVars, rectVars, linkVars
  <2> QED  BY <2>1, RowKept DEF RowInv
<1>18. ASSUME DisableEndpoints PROVE RowInv'
  <2>1. ASSUME NEW u \in Senders PROVE SameRow(u)
    BY <1>18 DEF DisableEndpoints, Goto, TypeInv, SameRow, SameFrame, Idle, Sending,
       vars, jobVars, rectVars, linkVars
  <2> QED  BY <2>1, RowKept DEF RowInv
<1>19. ASSUME NEW n \in ProbeLengths \cup {0}, SetProbe(n) PROVE RowInv'
  <2>1. ASSUME NEW u \in Senders PROVE SameRow(u)
    BY <1>19 DEF SetProbe, Goto, TypeInv, SameRow, SameFrame, Idle, Sending, vars,
       jobVars, rectVars, linkVars
  <2> QED  BY <2>1, RowKept DEF RowInv
<1>20. CASE UNCHANGED vars
  <2>1. ASSUME NEW u \in Senders PROVE SameRow(u)
    BY <1>20 DEF SameRow, SameFrame, Idle, vars, jobVars, rectVars, linkVars
  <2> QED  BY <2>1, RowKept DEF RowInv
<1> QED  BY <1>1, <1>2, <1>3, <1>4, <1>5, <1>6, <1>7, <1>8, <1>9, <1>10,
          <1>11, <1>12, <1>13, <1>14, <1>15, <1>16, <1>17, <1>18,
          <1>19, <1>20 DEF Next, Steps, Sent

\* A sender for which nothing has changed that its drawn rows depend on.
SameDrawn(u) ==
  /\ frame'[u] = frame[u] /\ offset'[u] = offset[u] /\ rect'[u] = rect[u]
  /\ probing'[u] = probing[u] /\ drawn'[u] = drawn[u]
  /\ (pc'[u] = "idle" <=> pc[u] = "idle")
  /\ (pc'[u] = "end" <=> pc[u] = "end") /\ ret'[u] = ret[u]
  /\ Arrived(u)' <=> Arrived(u)

\* Then what was drawn is as before.
LEMMA DrawnKept ==
  ASSUME NEW u \in Senders, DrawnAt(u), SameDrawn(u)
  PROVE  DrawnAt(u)'
<1>1. Row(u)' = Row(u)
  BY DEF SameDrawn, Row, LineAt
<1>2. Received(u)' = Received(u)
  BY <1>1 DEF SameDrawn, Received
<1> QED  BY <1>2 DEF SameDrawn, DrawnAt, Idle, UpTo

\* A sender that gives up: what it has drawn stays.
GivesUp(u) ==
  /\ probing'[u] = probing[u] /\ drawn'[u] = drawn[u]
  /\ ~Idle(u) /\ pc[u] # "end" /\ pc'[u] = "end" /\ ret'[u] = "error"

\* Then it has drawn some rows from the top.
LEMMA DrawnGivenUp ==
  ASSUME TypeInv, NEW u \in Senders, RowAt(u), DrawnAt(u), GivesUp(u)
  PROVE  DrawnAt(u)'
<1>1. Received(u) \in Nat
  BY DEF Received, RowAt, GivesUp, Arrived, Sending, TypeInv, Rects
<1> QED  BY <1>1 DEF GivesUp, DrawnAt, Idle, UpTo

\* The gadget gets each row in its turn.
LEMMA DrawnStep ==
  ASSUME TypeInv, LockInv, BulkInv, UrbInv, RowInv, DrawnInv, [Next]_vars
  PROVE  DrawnInv'
<1>1. ASSUME NEW t \in Senders, Lock(t) PROVE DrawnInv'
  <2>1. ASSUME NEW u \in Senders PROVE SameDrawn(u)
    BY <1>1 DEF Lock, Goto, TypeInv, SameDrawn, Arrived, vars, jobVars, rectVars,
       linkVars
  <2> QED  BY <2>1, DrawnKept DEF DrawnInv
<1>2. ASSUME NEW t \in Senders, LastRect(t) PROVE DrawnInv'
  <2>1. ASSUME NEW u \in Senders, u # t PROVE SameDrawn(u)
    <3>1. /\ pc'[u] = pc[u] /\ probing'[u] = probing[u] /\ ret'[u] = ret[u]
          /\ ctx'[u] = ctx[u]
      BY <1>2, <2>1 DEF LastRect, Ends, Goto, TypeInv, vars, jobVars, rectVars, linkVars
    <3>2. /\ frame'[u] = frame[u] /\ offset'[u] = offset[u] /\ rect'[u] = rect[u]
          /\ drawn'[u] = drawn[u]
      BY <1>2, <2>1 DEF LastRect, Ends, TypeInv, vars, jobVars, rectVars, linkVars
    <3> QED  BY <3>1, <3>2 DEF SameDrawn, Arrived
  <2>2. DrawnAt(t)'
    <3>1. /\ pc[t] = "rect" /\ pc'[t] = "end" /\ probing' = probing /\ drawn' = drawn
          /\ frame' = frame /\ (ret'[t] = "ok" => offset[t] >= Length(frame[t]))
      BY <1>2 DEF LastRect, Ends, Goto, TypeInv, jobVars, rectVars
    <3>2. CASE probing[t]
      BY <3>1, <3>2 DEF LockInv, Sending
    <3>3. CASE ~probing[t]
      <4>1. /\ frame[t] \in Frames /\ Row(t) \in 0..frame[t].height
            /\ LayoutOk(frame[t].width, frame[t].height, frame[t].format)
            /\ offset[t] = Row(t) * LineAt(t)
        BY <3>1 DEF RowInv, RowAt, Idle
      <4>2. /\ LineAt(t) \in Nat /\ LineAt(t) > 0 /\ frame[t].height \in Nat
            /\ Length(frame[t]) = frame[t].height * LineAt(t)
        BY <4>1, LineIsSome DEF LineAt, Length
      <4>3. ret'[t] = "ok" => Row(t) = frame[t].height
        <5>1. Row(t) < frame[t].height => Row(t) * LineAt(t) < frame[t].height * LineAt(t)
          BY <4>1, <4>2, Grows
        <5>2. Row(t) * LineAt(t) \in Nat /\ frame[t].height * LineAt(t) \in Nat
          BY <4>1, <4>2
        <5> QED  BY <3>1, <4>1, <4>2, <5>1, <5>2
      <4>4. Row(t) \in Nat /\ drawn[t] = UpTo(Row(t))
        BY <3>1, <3>3, <4>1, <4>2 DEF DrawnInv, DrawnAt, Received, Arrived, Idle
      <4> QED  BY <3>1, <3>3, <4>3, <4>4 DEF DrawnAt, Idle, UpTo
    <3> QED  BY <3>2, <3>3
  <2> QED  BY <2>1, <2>2, DrawnKept DEF DrawnInv
<1>3. ASSUME NEW t \in Senders, NextRect(t) PROVE DrawnInv'
  <2>1. /\ rect' = [rect EXCEPT ![t] = bulk'] /\ pc' = [pc EXCEPT ![t] = "set"]
        /\ ret' = ret
    BY <1>3, RectMade
  <2>2. /\ pc[t] = "rect" /\ frame' = frame /\ offset' = offset /\ ctx' = ctx
        /\ probing' = probing /\ drawn' = drawn
    BY <1>3 DEF NextRect, jobVars
  <2>3. ASSUME NEW u \in Senders, u # t PROVE SameDrawn(u)
    <3>1. pc'[u] = pc[u] /\ rect'[u] = rect[u]
      BY <2>1, <2>3 DEF TypeInv
    <3> QED  BY <2>1, <2>2, <3>1 DEF SameDrawn, Arrived
  <2>4. DrawnAt(t)'
    <3>1. Row(t)' = Row(t) /\ pc'[t] = "set"
      BY <2>1, <2>2 DEF Row, LineAt, TypeInv
    <3>2. Received(t) = Row(t) /\ Received(t)' = Row(t)
      BY <2>2, <3>1 DEF Received, Arrived
    <3> QED  BY <2>2, <3>1, <3>2 DEF DrawnInv, DrawnAt, Idle
  <2> QED  BY <2>3, <2>4, DrawnKept DEF DrawnInv
<1>4. ASSUME NEW t \in Senders, SetBuffer(t) PROVE DrawnInv'
  <2>1. ASSUME NEW u \in Senders PROVE SameDrawn(u)
    BY <1>4 DEF SetBuffer, Goto, TypeInv, SameDrawn, Arrived, vars, jobVars,
       rectVars, linkVars
  <2> QED  BY <2>1, DrawnKept DEF DrawnInv
<1>5. ASSUME NEW t \in Senders, SetBufferFails(t) PROVE DrawnInv'
  <2>1. ASSUME NEW u \in Senders, u # t PROVE SameDrawn(u)
    <3>1. /\ pc'[u] = pc[u] /\ probing'[u] = probing[u] /\ ret'[u] = ret[u]
          /\ ctx'[u] = ctx[u]
      BY <1>5, <2>1 DEF SetBufferFails, Ends, Goto, TypeInv, vars, jobVars,
         rectVars, linkVars
    <3>2. /\ frame'[u] = frame[u] /\ offset'[u] = offset[u] /\ rect'[u] = rect[u]
          /\ drawn'[u] = drawn[u]
      BY <1>5, <2>1 DEF SetBufferFails, Ends, TypeInv, vars, jobVars, rectVars, linkVars
    <3> QED  BY <3>1, <3>2 DEF SameDrawn, Arrived
  <2>2. DrawnAt(t)'
    <3>1. GivesUp(t)
      BY <1>5 DEF SetBufferFails, Ends, Goto, TypeInv, GivesUp, Idle, vars, jobVars,
         rectVars, linkVars
    <3> QED  BY <3>1, DrawnGivenUp DEF RowInv, DrawnInv
  <2> QED  BY <2>1, <2>2, DrawnKept DEF DrawnInv
<1>6. ASSUME NEW t \in Senders, Submit(t) PROVE DrawnInv'
  <2>1. ASSUME NEW u \in Senders, u # t PROVE SameDrawn(u)
    <3>1. /\ pc'[u] = pc[u] /\ probing'[u] = probing[u] /\ ret'[u] = ret[u]
          /\ ctx'[u] = ctx[u]
      BY <1>6, <2>1 DEF Submit, Filled, Waiting, Goto, TypeInv, vars, jobVars,
         rectVars, linkVars
    <3>2. /\ frame'[u] = frame[u] /\ offset'[u] = offset[u] /\ rect'[u] = rect[u]
          /\ drawn'[u] = drawn[u]
      BY <1>6, <2>1 DEF Submit, Filled, Waiting, TypeInv, vars, jobVars, rectVars,
         linkVars
    <3> QED  BY <3>1, <3>2 DEF SameDrawn, Arrived
  <2>2. DrawnAt(t)'
    <3>1. SameDrawn(t)
      BY <1>6 DEF Submit, Filled, Waiting, Goto, TypeInv, SameDrawn, Arrived, vars,
         jobVars, rectVars, linkVars
    <3> QED  BY <3>1, DrawnKept DEF DrawnInv
  <2> QED  BY <2>1, <2>2, DrawnKept DEF DrawnInv
<1>7. ASSUME NEW t \in Senders, SubmitFails(t) PROVE DrawnInv'
  <2>1. ASSUME NEW u \in Senders, u # t PROVE SameDrawn(u)
    <3>1. /\ pc'[u] = pc[u] /\ probing'[u] = probing[u] /\ ret'[u] = ret[u]
          /\ ctx'[u] = ctx[u]
      BY <1>7, <2>1 DEF SubmitFails, Filled, Retry, Again, Ends, Goto, TypeInv,
         vars, jobVars, rectVars, linkVars
    <3>2. /\ frame'[u] = frame[u] /\ offset'[u] = offset[u] /\ rect'[u] = rect[u]
          /\ drawn'[u] = drawn[u]
      BY <1>7, <2>1 DEF SubmitFails, Filled, Retry, Again, Ends, TypeInv, vars,
         jobVars, rectVars, linkVars
    <3> QED  BY <3>1, <3>2 DEF SameDrawn, Arrived
  <2>2. DrawnAt(t)'
    <3>1. CASE Retry(t)
      <4>1. SameDrawn(t)
        BY <1>7, <3>1 DEF SubmitFails, Filled, Retry, Again, Ends, Goto, TypeInv,
           SameDrawn, Arrived, vars, jobVars, rectVars, linkVars
      <4> QED  BY <4>1, DrawnKept DEF DrawnInv
    <3>2. CASE Ends(t, "error")
      <4>1. GivesUp(t)
        BY <1>7, <3>2 DEF SubmitFails, Ends, Goto, TypeInv, GivesUp, Idle, vars,
           jobVars, rectVars, linkVars
      <4> QED  BY <4>1, DrawnGivenUp DEF RowInv, DrawnInv
    <3> QED  BY <1>7, <3>1, <3>2 DEF SubmitFails
  <2> QED  BY <2>1, <2>2, DrawnKept DEF DrawnInv
<1>8. ASSUME NEW t \in Senders, Completed(t) PROVE DrawnInv'
  <2>1. ASSUME NEW u \in Senders, u # t PROVE SameDrawn(u)
    <3>1. /\ pc'[u] = pc[u] /\ probing'[u] = probing[u] /\ ret'[u] = ret[u]
          /\ ctx'[u] = ctx[u]
      BY <1>8, <2>1 DEF Completed, Retry, Again, Ends, Goto, TypeInv, vars, jobVars,
         rectVars, linkVars
    <3>2. /\ frame'[u] = frame[u] /\ offset'[u] = offset[u] /\ rect'[u] = rect[u]
          /\ drawn'[u] = drawn[u]
      BY <1>8, <2>1 DEF Completed, Retry, Again, Ends, TypeInv, vars, jobVars,
         rectVars, linkVars
    <3> QED  BY <3>1, <3>2 DEF SameDrawn, Arrived
  <2>2. DrawnAt(t)'
    <3>1. CASE ctx[t].ok /\ ctx[t].full
      <4>1. SameDrawn(t)
        BY <1>8, <3>1 DEF Completed, Goto, TypeInv, SameDrawn, Arrived, vars,
           jobVars, rectVars, linkVars
      <4> QED  BY <4>1, DrawnKept DEF DrawnInv
    <3>2. CASE ~ctx[t].full /\ Retry(t)
      <4>1. SameDrawn(t)
        BY <1>8, <3>2 DEF Completed, Retry, Goto, TypeInv, SameDrawn, Arrived, vars,
           jobVars, rectVars, linkVars
      <4> QED  BY <4>1, DrawnKept DEF DrawnInv
    <3>3. CASE Ends(t, "error")
      <4>1. GivesUp(t)
        BY <1>8, <3>3 DEF Completed, Ends, Goto, TypeInv, GivesUp, Idle, vars,
           jobVars, rectVars, linkVars
      <4> QED  BY <4>1, DrawnGivenUp DEF RowInv, DrawnInv
    <3> QED  BY <1>8, <3>1, <3>2, <3>3 DEF Completed
  <2> QED  BY <2>1, <2>2, DrawnKept DEF DrawnInv
<1>9. ASSUME NEW t \in Senders, Timeout(t) PROVE DrawnInv'
  <2>1. ASSUME NEW u \in Senders PROVE SameDrawn(u)
    BY <1>9 DEF Timeout, Goto, TypeInv, SameDrawn, Arrived, vars, jobVars, rectVars,
       linkVars
  <2> QED  BY <2>1, DrawnKept DEF DrawnInv
<1>10. ASSUME NEW t \in Senders, Kill(t) PROVE DrawnInv'
  <2>1. ASSUME NEW u \in Senders, u # t PROVE SameDrawn(u)
    <3>1. /\ pc'[u] = pc[u] /\ probing'[u] = probing[u] /\ ret'[u] = ret[u]
          /\ ctx'[u] = ctx[u]
      BY <1>10, <2>1 DEF Kill, Ends, Goto, TypeInv, vars, jobVars, rectVars, linkVars
    <3>2. /\ frame'[u] = frame[u] /\ offset'[u] = offset[u] /\ rect'[u] = rect[u]
          /\ drawn'[u] = drawn[u]
      BY <1>10, <2>1 DEF Kill, Ends, TypeInv, vars, jobVars, rectVars, linkVars
    <3> QED  BY <3>1, <3>2 DEF SameDrawn, Arrived
  <2>2. DrawnAt(t)'
    <3>1. GivesUp(t)
      BY <1>10 DEF Kill, Ends, Goto, TypeInv, GivesUp, Idle, vars, jobVars,
         rectVars, linkVars
    <3> QED  BY <3>1, DrawnGivenUp DEF RowInv, DrawnInv
  <2> QED  BY <2>1, <2>2, DrawnKept DEF DrawnInv
<1>11. ASSUME NEW t \in Senders, Advance(t) PROVE DrawnInv'
  <2>1. ASSUME NEW u \in Senders, u # t PROVE SameDrawn(u)
    <3>1. /\ pc'[u] = pc[u] /\ probing'[u] = probing[u] /\ ret'[u] = ret[u]
          /\ ctx'[u] = ctx[u]
      BY <1>11, <2>1 DEF Advance, Goto, TypeInv, vars, jobVars, rectVars, linkVars
    <3>2. /\ frame'[u] = frame[u] /\ offset'[u] = offset[u] /\ rect'[u] = rect[u]
          /\ drawn'[u] = drawn[u]
      BY <1>11, <2>1 DEF Advance, TypeInv, vars, jobVars, rectVars, linkVars
    <3> QED  BY <3>1, <3>2 DEF SameDrawn, Arrived
  <2>2. DrawnAt(t)'
    <3>1. CASE probing[t]
      <4>1. pc[t] = "next" /\ pc'[t] = "end" /\ probing' = probing /\ drawn' = drawn
        BY <1>11, <3>1 DEF Advance, Goto, TypeInv, jobVars
      <4> QED  BY <3>1, <4>1 DEF DrawnInv, DrawnAt, Idle
    <3>2. CASE ~probing[t]
      <4>1. /\ frame' = frame /\ drawn' = drawn /\ probing' = probing
            /\ offset'[t] = offset[t] + rect[t].source /\ pc'[t] = "rect" /\ pc[t] = "next"
        BY <1>11, <3>2 DEF Advance, Goto, jobVars, TypeInv
      <4>2. /\ frame[t] \in Frames /\ Row(t) \in 0..frame[t].height
            /\ LayoutOk(frame[t].width, frame[t].height, frame[t].format)
            /\ offset[t] = Row(t) * LineAt(t)
            /\ rect[t].rows \in 1..(frame[t].height - Row(t))
            /\ rect[t].source = rect[t].rows * LineAt(t)
        BY <4>1 DEF RowInv, RowAt, Idle, Sending
      <4>3. /\ LineAt(t) \in Nat /\ LineAt(t) > 0 /\ frame[t].height \in Nat
        BY <4>2, LineIsSome DEF LineAt
      <4>4. LineAt(t)' = LineAt(t)
        BY <4>1 DEF LineAt
      <4>5. offset'[t] = (Row(t) + rect[t].rows) * LineAt(t) /\ Row(t) + rect[t].rows \in Nat
        BY <4>1, <4>2, <4>3
      <4>6. Row(t)' = Row(t) + rect[t].rows
        BY <4>3, <4>4, <4>5, Exactly DEF Row
      <4>7. Received(t)' = Received(t)
        BY <4>1, <4>6 DEF Received, Arrived
      <4> QED  BY <3>2, <4>1, <4>7 DEF DrawnInv, DrawnAt, Idle
    <3> QED  BY <3>1, <3>2
  <2> QED  BY <2>1, <2>2, DrawnKept DEF DrawnInv
<1>12. ASSUME NEW t \in Senders, Finish(t) PROVE DrawnInv'
  <2>1. ASSUME NEW u \in Senders, u # t PROVE SameDrawn(u)
    <3>1. /\ pc'[u] = pc[u] /\ probing'[u] = probing[u] /\ ret'[u] = ret[u]
          /\ ctx'[u] = ctx[u]
      BY <1>12, <2>1 DEF Finish, Waiting, Goto, TypeInv, vars, jobVars, rectVars,
         linkVars
    <3>2. /\ frame'[u] = frame[u] /\ offset'[u] = offset[u] /\ rect'[u] = rect[u]
          /\ drawn'[u] = drawn[u]
      BY <1>12, <2>1 DEF Finish, Waiting, TypeInv, vars, jobVars, rectVars, linkVars
    <3> QED  BY <3>1, <3>2 DEF SameDrawn, Arrived
  <2>2. DrawnAt(t)'
    <3>1. drawn'[t] = Undrawn /\ pc'[t] = "idle"
      BY <1>12 DEF Finish, Goto, TypeInv
    <3> QED  BY <3>1, UndrawnType DEF DrawnAt, Idle, UpTo
  <2> QED  BY <2>1, <2>2, DrawnKept DEF DrawnInv
<1>13. ASSUME NEW t \in Senders, NEW f \in Frames, BeginRefused(t, f) PROVE DrawnInv'
  <2>1. ASSUME NEW u \in Senders PROVE SameDrawn(u)
    BY <1>13 DEF BeginRefused, Begin, Goto, TypeInv, SameDrawn, Arrived, vars,
       jobVars, rectVars, linkVars
  <2> QED  BY <2>1, DrawnKept DEF DrawnInv
<1>14. ASSUME NEW t \in Senders, NEW f \in Frames, BeginFrame(t, f) PROVE DrawnInv'
  <2>1. ASSUME NEW u \in Senders, u # t PROVE SameDrawn(u)
    <3>1. /\ pc'[u] = pc[u] /\ probing'[u] = probing[u] /\ ret'[u] = ret[u]
          /\ ctx'[u] = ctx[u]
      BY <1>14, <2>1 DEF BeginFrame, Begin, NoUrb, Goto, TypeInv, vars, jobVars,
         rectVars, linkVars
    <3>2. /\ frame'[u] = frame[u] /\ offset'[u] = offset[u] /\ rect'[u] = rect[u]
          /\ drawn'[u] = drawn[u]
      BY <1>14, <2>1 DEF BeginFrame, Begin, NoUrb, TypeInv, vars, jobVars, rectVars,
         linkVars
    <3> QED  BY <3>1, <3>2 DEF SameDrawn, Arrived
  <2>2. DrawnAt(t)'
    <3>1. /\ frame'[t] = f /\ offset'[t] = 0 /\ pc'[t] = "lock" /\ pc[t] = "idle"
          /\ drawn' = drawn /\ LayoutOk(f.width, f.height, f.format)
      BY <1>14 DEF BeginFrame, Begin, Goto, Sendable, TypeInv, RowInv, RowAt, Idle
    <3>2. /\ LineOf(f) \in Nat /\ LineOf(f) > 0 /\ 0 * LineOf(f) = 0
      BY <3>1, LineIsSome
    <3>3. Row(t)' = 0
      BY <3>1, <3>2, Exactly DEF Row, LineAt
    <3>4. Received(t)' = 0
      BY <3>1, <3>3 DEF Received, Arrived
    <3> QED  BY <3>1, <3>4 DEF DrawnInv, DrawnAt, Idle
  <2> QED  BY <2>1, <2>2, DrawnKept DEF DrawnInv
<1>15. ASSUME NEW t \in Senders, NEW f \in Frames, BeginProbe(t, f) PROVE DrawnInv'
  <2>1. ASSUME NEW u \in Senders, u # t PROVE SameDrawn(u)
    <3>1. /\ pc'[u] = pc[u] /\ probing'[u] = probing[u] /\ ret'[u] = ret[u]
          /\ ctx'[u] = ctx[u]
      BY <1>15, <2>1 DEF BeginProbe, Begin, Goto, TypeInv, vars, jobVars, rectVars,
         linkVars
    <3>2. /\ frame'[u] = frame[u] /\ offset'[u] = offset[u] /\ rect'[u] = rect[u]
          /\ drawn'[u] = drawn[u]
      BY <1>15, <2>1 DEF BeginProbe, Begin, TypeInv, vars, jobVars, rectVars, linkVars
    <3> QED  BY <3>1, <3>2 DEF SameDrawn, Arrived
  <2>2. DrawnAt(t)'
    <3>1. pc[t] = "idle" /\ pc'[t] = "set" /\ probing'[t] = TRUE /\ drawn' = drawn
      BY <1>15 DEF BeginProbe, Begin, Goto, TypeInv, Idle
    <3> QED  BY <3>1 DEF DrawnInv, DrawnAt, Idle
  <2> QED  BY <2>1, <2>2, DrawnKept DEF DrawnInv
<1>16. ASSUME NEW ok \in BOOLEAN, NEW full \in BOOLEAN, Complete(ok, full) PROVE DrawnInv'
  <2>1. PICK t \in Senders :
          /\ t = urb.by /\ pc[t] \in {"wait", "kill"} /\ ~ctx[t].done
          /\ asked = rect[t] /\ asked.by = t
    BY <1>16 DEF Complete, UrbInv, BulkInv, Sending
  <2>2. /\ frame' = frame /\ offset' = offset /\ rect' = rect /\ pc' = pc /\ ret' = ret
        /\ probing' = probing
        /\ ctx' = [ctx EXCEPT ![t] = [done |-> TRUE, ok |-> ok, full |-> full]]
    BY <1>16, <2>1 DEF Complete, jobVars
  <2> DEFINE rows == asked.y..(asked.y + asked.rows - 1)
             new == [y \in DOMAIN drawn[t] |->
                       IF y \in rows THEN drawn[t][y] + 1 ELSE drawn[t][y]]
  <2>3. /\ full /\ ~probing[t] => drawn' = [drawn EXCEPT ![t] = new]
        /\ ~full \/ probing[t] => drawn' = drawn
    BY <1>16, <2>1 DEF Complete, Draw
  <2> HIDE DEF new
  <2>4. ASSUME NEW u \in Senders, u # t PROVE SameDrawn(u)
    <3>1. drawn'[u] = drawn[u] /\ ctx'[u] = ctx[u]
      BY <2>1, <2>2, <2>3, <2>4 DEF TypeInv
    <3> QED  BY <2>2, <3>1 DEF SameDrawn, Arrived
  <2>5. DrawnAt(t)'
    <3>1. CASE probing[t]
      BY <2>1, <2>2, <2>3, <3>1 DEF DrawnInv, DrawnAt, Idle
    <3>2. CASE ~probing[t] /\ ~full
      <4>1. ctx'[t].full = FALSE
        BY <2>1, <2>2, <3>2 DEF TypeInv
      <4>2. SameDrawn(t)
        BY <2>1, <2>2, <2>3, <3>2, <4>1 DEF SameDrawn, Arrived
      <4> QED  BY <2>1, <4>2, DrawnKept DEF DrawnInv
    <3>3. CASE ~probing[t] /\ full
      <4>1. /\ Row(t) \in Nat /\ rect[t].y = Row(t) /\ rect[t].rows \in Nat
        BY <2>1 DEF RowInv, RowAt, Idle, Sending, TypeInv, Rects
      <4>2. drawn[t] = UpTo(Row(t))
        BY <2>1, <3>3 DEF DrawnInv, DrawnAt, Received, Arrived, Idle
      <4>3. drawn'[t] = new
        BY <2>1, <2>3, <3>3 DEF TypeInv
      <4>4. new = UpTo(Row(t) + rect[t].rows)
        <5>1. \A y \in DOMAIN Undrawn : y \in Nat
          BY UndrawnType
        <5>2. new = [y \in DOMAIN Undrawn |->
                       IF y \in rows THEN UpTo(Row(t))[y] + 1 ELSE UpTo(Row(t))[y]]
          BY <4>2 DEF new, UpTo
        <5>3. \A y \in DOMAIN Undrawn : y \in rows <=> y >= Row(t) /\ y < Row(t) + rect[t].rows
          BY <2>1, <4>1, <5>1
        <5> HIDE DEF rows
        <5> QED  BY <4>1, <5>1, <5>2, <5>3 DEF UpTo
      <4>5. /\ ctx'[t].done /\ ctx'[t].full
        BY <2>1, <2>2, <3>3 DEF TypeInv
      <4>6. Row(t)' = Row(t)
        BY <2>2 DEF Row, LineAt
      <4>7. Received(t)' = Row(t) + rect[t].rows
        BY <2>1, <2>2, <4>5, <4>6 DEF Received, Arrived
      <4> QED  BY <2>1, <2>2, <3>3, <4>3, <4>4, <4>7 DEF DrawnAt, Idle
    <3> QED  BY <3>1, <3>2, <3>3
  <2> QED  BY <2>1, <2>4, <2>5, DrawnKept DEF DrawnInv
<1>17. ASSUME Disconnect PROVE DrawnInv'
  <2>1. ASSUME NEW u \in Senders PROVE SameDrawn(u)
    BY <1>17 DEF Disconnect, Goto, TypeInv, SameDrawn, Arrived, vars, jobVars,
       rectVars, linkVars
  <2> QED  BY <2>1, DrawnKept DEF DrawnInv
<1>18. ASSUME DisableEndpoints PROVE DrawnInv'
  <2>1. ASSUME NEW u \in Senders PROVE SameDrawn(u)
    BY <1>18 DEF DisableEndpoints, Goto, TypeInv, SameDrawn, Arrived, vars, jobVars,
       rectVars, linkVars
  <2> QED  BY <2>1, DrawnKept DEF DrawnInv
<1>19. ASSUME NEW n \in ProbeLengths \cup {0}, SetProbe(n) PROVE DrawnInv'
  <2>1. ASSUME NEW u \in Senders PROVE SameDrawn(u)
    BY <1>19 DEF SetProbe, Goto, TypeInv, SameDrawn, Arrived, vars, jobVars,
       rectVars, linkVars
  <2> QED  BY <2>1, DrawnKept DEF DrawnInv
<1>20. CASE UNCHANGED vars
  <2>1. ASSUME NEW u \in Senders PROVE SameDrawn(u)
    BY <1>20 DEF SameDrawn, Arrived, vars, jobVars, rectVars, linkVars
  <2> QED  BY <2>1, DrawnKept DEF DrawnInv
<1> QED  BY <1>1, <1>2, <1>3, <1>4, <1>5, <1>6, <1>7, <1>8, <1>9, <1>10,
          <1>11, <1>12, <1>13, <1>14, <1>15, <1>16, <1>17, <1>18,
          <1>19, <1>20 DEF Next, Steps, Sent

-----------------------------------------------------------------------------
(* The theorems.                                                            *)

Inv == TypeInv /\ LockInv /\ BounceInv /\ BulkInv /\ UrbInv /\ RowInv /\ DrawnInv

\* It holds at first,
LEMMA InvInit == Init => Inv
<1> SUFFICES ASSUME Init PROVE Inv
  OBVIOUS
<1>1. TypeInv
  <2>1. /\ dev \in Devices /\ frames \in 0..MaxFrames /\ probeLength \in ProbeLengths \cup {0}
        /\ disconnected \in BOOLEAN /\ gone \in BOOLEAN /\ lock \in Senders \cup {"none"}
    <3>1. dev \in Devices /\ frames = 0 /\ probeLength = 0 /\ lock = "none"
      BY DEF Init
    <3>2. disconnected \in BOOLEAN /\ gone \in BOOLEAN
      BY DEF Init
    <3> QED  BY <3>1, <3>2, TransferAssumption
  <2>2. /\ pc \in [Senders -> Places] /\ probing \in [Senders -> BOOLEAN]
        /\ frame \in [Senders -> Frames \cup {NoFrame}] /\ offset \in [Senders -> Nat]
        /\ tries \in [Senders -> 0..MaxRetries] /\ ret \in [Senders -> {"ok", "error"}]
    BY TransferAssumption DEF Init, Places
  <2>3. /\ rect \in [Senders -> Rects(dev.buffer)] /\ bulk \in Rects(dev.buffer)
        /\ asked \in Rects(dev.buffer)
    BY DEF Init, Rects, Nothing
  <2>4. drawn \in [Senders -> [DOMAIN Undrawn -> Nat]]
    BY UndrawnType DEF Init
  <2>5. /\ urb \in [by : Senders \cup {"none"}, length : Nat, active : BOOLEAN]
        /\ ctx \in [Senders -> [done : BOOLEAN, ok : BOOLEAN, full : BOOLEAN]]
    BY DEF Init, NoUrb, Waiting
  <2>6. bounce \in BOOLEAN
    BY DEF Init
  <2> QED  BY <2>1, <2>2, <2>3, <2>4, <2>5, <2>6 DEF TypeInv
<1>2. LockInv /\ BulkInv
  BY DEF Init, LockInv, BulkInv, Active, Sending
<1>3. BounceInv
  BY DEF Init, BounceInv, Idle
<1>4. UrbInv
  BY DEF Init, UrbInv, NoUrb
<1>5. RowInv
  BY DEF Init, RowInv, RowAt, Idle, Sending
<1>6. DrawnInv
  BY UndrawnType DEF Init, DrawnInv, DrawnAt, Idle
<1> QED  BY <1>1, <1>2, <1>3, <1>4, <1>5, <1>6 DEF Inv

\* every step keeps it,
LEMMA InvStep == Inv /\ [Next]_vars => Inv'
  BY TypeStep, LockStep, BounceStep, BulkStep, UrbStep, RowStep, DrawnStep DEF Inv

\* and so it always holds.
LEMMA Invariance == Spec => []Inv
  BY InvInit, InvStep, PTL DEF Spec

\* Types, and the sizes that matter: a rectangle has rows, lies within its frame
\* and fits in the buffer of either side; the loop of gud_pipe_transfer never
\* passes the end of the frame.
THEOREM TypeCorrect == Spec => []TypeOK
<1>1. ASSUME Inv PROVE TypeOK
  <2>1. \A t \in Senders : offset[t] \in 0..Length(frame[t])
    <3> SUFFICES ASSUME NEW t \in Senders PROVE offset[t] \in 0..Length(frame[t])
      OBVIOUS
    <3>1. CASE Idle(t)
      BY <1>1, <3>1 DEF Inv, RowInv, RowAt, NoFrame, Length, LineOf, Line, BytesPerPixel
    <3>2. CASE ~Idle(t)
      <4>1. /\ frame[t] \in Frames /\ Row(t) \in 0..frame[t].height
            /\ LayoutOk(frame[t].width, frame[t].height, frame[t].format)
            /\ offset[t] = Row(t) * LineAt(t)
        BY <1>1, <3>2 DEF Inv, RowInv, RowAt
      <4>2. /\ LineAt(t) \in Nat /\ LineAt(t) > 0 /\ frame[t].height \in Nat
            /\ Length(frame[t]) = frame[t].height * LineAt(t)
        BY <4>1, LineIsSome DEF LineAt, Length
      <4>3. Row(t) * LineAt(t) <= frame[t].height * LineAt(t)
        BY <4>1, <4>2
      <4> QED  BY <4>1, <4>2, <4>3
    <3> QED  BY <3>1, <3>2
  <2>2. \A r \in {bulk, asked} \cup {rect[t] : t \in Senders} :
          r # Nothing => /\ r.by \in Senders /\ r.rows > 0
                         /\ r.payload \in 1..r.source /\ r.source <= dev.buffer
    <3>1. \A r \in {bulk, asked} \cup {rect[t] : t \in Senders} : r \in Rects(dev.buffer)
      BY <1>1 DEF Inv, TypeInv
    <3> QED  BY <3>1 DEF Rects
  <2>3. \A t \in Senders : pc[t] \in {"set", "submit", "wait", "kill", "next"} =>
          /\ rect[t].y + rect[t].rows <= frame[t].height
          /\ rect[t].source = rect[t].rows * LineOf(frame[t])
    <3> SUFFICES ASSUME NEW t \in Senders, pc[t] \in Sending
                 PROVE  /\ rect[t].y + rect[t].rows <= frame[t].height
                        /\ rect[t].source = rect[t].rows * LineOf(frame[t])
      BY DEF Sending
    <3>1. /\ frame[t] \in Frames /\ Row(t) \in 0..frame[t].height /\ rect[t].y = Row(t)
          /\ LayoutOk(frame[t].width, frame[t].height, frame[t].format)
          /\ rect[t].rows \in 1..(frame[t].height - Row(t))
          /\ rect[t].source = rect[t].rows * LineOf(frame[t])
      BY <1>1 DEF Inv, RowInv, RowAt, Sending, Idle, LineAt
    <3>2. frame[t].height \in Nat
      BY <3>1, LineIsSome
    <3> QED  BY <3>1, <3>2
  <2>4. \A t \in Senders :
          /\ frame[t] \in Frames \cup {NoFrame} /\ tries[t] \in 0..MaxRetries
          /\ ret[t] \in {"ok", "error"} /\ ctx[t] \in [{"done", "ok", "full"} -> BOOLEAN]
    BY <1>1 DEF Inv, TypeInv
  <2>5. /\ urb.by \in Senders \cup {"none"} /\ urb.active \in BOOLEAN
    BY <1>1 DEF Inv, TypeInv
  <2> QED  BY <1>1, <2>1, <2>2, <2>3, <2>4, <2>5 DEF Inv, TypeInv, TypeOK
<1> QED  BY <1>1, Invariance, PTL

\* A frame reaches the gadget row by row, each row once, whatever -EAGAIN,
\* timeouts and late completions there are (gud_pipe_transfer_xdisp_buffer,
\* gud_pipe_transfer of the plain build, gud_usb_bulk_write).
THEOREM EachRowIsDrawnOnce == Spec => []EachRowOnce
<1>1. ASSUME Inv PROVE EachRowOnce
  <2> SUFFICES ASSUME NEW t \in Senders, NEW y \in DOMAIN drawn[t]
               PROVE  /\ drawn[t][y] <= 1
                      /\ pc[t] = "end" /\ ret[t] = "ok" /\ ~probing[t] =>
                           (drawn[t][y] = 1) = (y < frame[t].height)
    BY DEF EachRowOnce
  <2>1. \E n : drawn[t] = UpTo(n)
    BY <1>1 DEF Inv, DrawnInv, DrawnAt
  <2>2. y \in DOMAIN Undrawn /\ y \in Nat
    BY <2>1, UndrawnType DEF UpTo
  <2>3. drawn[t][y] \in {0, 1}
    BY <2>1, <2>2 DEF UpTo
  <2>4. ASSUME pc[t] = "end", ret[t] = "ok", ~probing[t]
        PROVE  (drawn[t][y] = 1) = (y < frame[t].height)
    <3>1. drawn[t] = UpTo(frame[t].height)
      BY <1>1, <2>4 DEF Inv, DrawnInv, DrawnAt
    <3> QED  BY <2>2, <3>1 DEF UpTo
  <2> QED  BY <2>3, <2>4
<1> QED  BY <1>1, Invariance, PTL

\* What the URB carries is the rectangle of the last SET_BUFFER: gud->lock is
\* held from one to the other, and a probe runs alone.
THEOREM PayloadFollowsRequest == Spec => []PayloadIsAsked
<1>1. ASSUME Inv PROVE PayloadIsAsked
  BY <1>1 DEF Inv, UrbInv, BulkInv, Sending, PayloadIsAsked
<1> QED  BY <1>1, Invariance, PTL

\* gud_bulk_complete finds the context of its sender on a stack that is still in
\* use, and its buffer allocated: usb_kill_urb waits for it.
THEOREM ContextOutlivesUrb == Spec => []ContextLives
<1>1. ASSUME Inv PROVE ContextLives
  <2> SUFFICES ASSUME urb.active PROVE pc[urb.by] \in {"wait", "kill"} /\ bounce
    BY DEF ContextLives
  <2>1. urb.by \in Senders /\ pc[urb.by] \in {"wait", "kill"}
    BY <1>1 DEF Inv, UrbInv
  <2>2. dev.plain \in BOOLEAN
    BY <1>1, TransferAssumption DEF Inv, TypeInv
  <2> QED  BY <1>1, <2>1, <2>2 DEF Inv, BounceInv, Idle
<1> QED  BY <1>1, Invariance, PTL

-----------------------------------------------------------------------------
(* Frames are sent as FrameSender says.                                     *)

\* Whoever holds the lock is in the loop over the rectangles, and it has seen
\* the device connected since it took a rectangle.
HeldInv ==
  lock # "none" => /\ Active(lock) /\ ~probing[lock]
                   /\ disconnected => pc[lock] \in {"rect", "end"}

\* A sender that moves on under the lock, or beside it, leaves it held.
LEMMA HeldMove ==
  ASSUME TypeInv, HeldInv, UNCHANGED <<lock, probing, disconnected>>,
         NEW t \in Senders, NEW l, pc' = [pc EXCEPT ![t] = l],
         l \in Sending \cup {"rect", "end"}, l \in Sending => pc[t] \in Sending \/ ~disconnected
  PROVE  HeldInv'
<1> SUFFICES ASSUME lock # "none"
             PROVE  /\ pc'[lock] \notin {"idle", "lock"} /\ ~probing[lock]
                    /\ disconnected => pc'[lock] \in {"rect", "end"}
  BY DEF HeldInv, Active
<1>1. lock \in Senders /\ Active(lock) /\ ~probing[lock]
  BY DEF TypeInv, HeldInv
<1>2. CASE lock = t
  <2>1. pc'[lock] = l
    BY <1>1, <1>2 DEF TypeInv
  <2> QED  BY <1>1, <1>2, <2>1 DEF HeldInv, Sending
<1>3. CASE lock # t
  <2>1. pc'[lock] = pc[lock]
    BY <1>1, <1>3 DEF TypeInv
  <2> QED  BY <1>1, <2>1 DEF HeldInv, Active
<1> QED  BY <1>2, <1>3

\* A sender that begins, or is beside the lock, does not disturb who holds it.
LEMMA HeldAside ==
  ASSUME TypeInv, HeldInv, NEW t \in Senders, t # lock, UNCHANGED <<lock, disconnected>>,
         NEW l, pc' = [pc EXCEPT ![t] = l], NEW b, probing' = [probing EXCEPT ![t] = b]
  PROVE  HeldInv'
  BY DEF TypeInv, HeldInv, Active

\* Every step keeps the lock with a sender in the loop.
LEMMA HeldStep ==
  ASSUME TypeInv, LockInv, HeldInv, [Next]_vars
  PROVE  HeldInv'
<1>1. ASSUME NEW t \in Senders, Lock(t) PROVE HeldInv'
  <2>1. lock' = t /\ pc'[t] = "rect" /\ ~probing'[t]
    BY <1>1 DEF Lock, Goto, TypeInv, LockInv, jobVars, Sending
  <2> QED  BY <2>1 DEF HeldInv, Active
<1>2. ASSUME NEW t \in Senders,
             LastRect(t) \/ NextRect(t) \/ SetBuffer(t) \/ SetBufferFails(t)
      PROVE  HeldInv'
  <2>1. /\ UNCHANGED <<lock, probing, disconnected>>
        /\ \E l \in Sending \cup {"rect", "end"} :
             /\ pc' = [pc EXCEPT ![t] = l]
             /\ l \in Sending => pc[t] \in Sending \/ ~disconnected
    BY <1>2 DEF LastRect, NextRect, SetBuffer, SetBufferFails, Ends, Goto, jobVars,
                linkVars, Sending
  <2> QED  BY <2>1, HeldMove
<1>3. ASSUME NEW t \in Senders, Submit(t) \/ SubmitFails(t) \/ Completed(t)
      PROVE  HeldInv'
  <2>1. /\ UNCHANGED <<lock, probing, disconnected>>
        /\ \E l \in Sending \cup {"rect", "end"} :
             pc' = [pc EXCEPT ![t] = l] /\ pc[t] \in Sending
    BY <1>3 DEF Submit, SubmitFails, Completed, Retry, Ends, Goto, jobVars, linkVars,
                Sending
  <2> QED  BY <2>1, HeldMove
<1>4. ASSUME NEW t \in Senders, Timeout(t) \/ Kill(t) \/ Advance(t)
      PROVE  HeldInv'
  <2>1. /\ UNCHANGED <<lock, probing, disconnected>>
        /\ \E l \in Sending \cup {"rect", "end"} :
             pc' = [pc EXCEPT ![t] = l] /\ pc[t] \in Sending
    BY <1>4 DEF Timeout, Kill, Advance, Ends, Goto, jobVars, linkVars, Sending
  <2> QED  BY <2>1, HeldMove
<1>5. ASSUME NEW t \in Senders, Finish(t) PROVE HeldInv'
  <2>1. CASE probing[t]
    <3>1. t # lock
      BY <2>1, TransferAssumption DEF HeldInv
    <3> QED  BY <1>5, <2>1, <3>1, HeldAside DEF Finish, Goto, linkVars
  <2>2. CASE ~probing[t]
    BY <1>5, <2>2 DEF Finish, HeldInv
  <2> QED  BY <2>1, <2>2
<1>6. ASSUME NEW t \in Senders, NEW f \in Frames, BeginFrame(t, f) \/ BeginProbe(t, f)
      PROVE  HeldInv'
  <2>1. /\ Idle(t) /\ UNCHANGED <<lock, disconnected>>
        /\ \E l : pc' = [pc EXCEPT ![t] = l]
        /\ probing' = probing \/ probing' = [probing EXCEPT ![t] = TRUE]
    BY <1>6 DEF BeginFrame, BeginProbe, Begin, Goto, linkVars
  <2>2. \E b : probing' = [probing EXCEPT ![t] = b]
    <3>1. probing = [probing EXCEPT ![t] = probing[t]]
      BY DEF TypeInv
    <3> QED  BY <2>1, <3>1
  <2>3. t # lock
    BY <2>1, TransferAssumption DEF HeldInv, Idle, Active
  <2> QED  BY <2>1, <2>2, <2>3, HeldAside
<1>7. CASE Disconnect
  BY <1>7 DEF Disconnect, HeldInv
<1>8. ASSUME \/ \E t \in Senders, f \in Frames : BeginRefused(t, f)
             \/ \E ok, full \in BOOLEAN : Complete(ok, full)
             \/ DisableEndpoints \/ \E n \in ProbeLengths \cup {0} : SetProbe(n)
             \/ UNCHANGED vars
      PROVE  HeldInv'
  <2>1. UNCHANGED <<pc, probing, lock, disconnected>>
    BY <1>8 DEF BeginRefused, Begin, Complete, DisableEndpoints, SetProbe, vars, jobVars,
                linkVars
  <2> QED  BY <2>1 DEF HeldInv, Active
<1> QED  BY <1>1, <1>2, <1>3, <1>4, <1>5, <1>6, <1>7, <1>8 DEF Next, Steps, Sent

\* The rows that have arrived are the first ones.
LEMMA FirstRows ==
  ASSUME NEW f \in Frames, NEW n \in 0..f.height
  PROVE  {y \in DOMAIN UpTo(n) : UpTo(n)[y] > 0} = 0..(n - 1)
<1>1. PICK g \in Frames : \A h \in Frames : h.height <= g.height
  BY TransferAssumption
<1> DEFINE m == CHOOSE h \in Heights : \A k \in Heights : k <= h
<1>2. m \in Heights /\ \A k \in Heights : k <= m
  <2>1. \E h \in Heights : \A k \in Heights : k <= h
    BY <1>1 DEF Heights
  <2> QED  BY <2>1
<1>3. m \in Nat /\ f.height \in Nat /\ f.height <= m
  BY <1>2, TransferAssumption DEF Heights
<1>4. DOMAIN Undrawn = 0..m
  BY DEF Undrawn
<1> HIDE DEF m
<1> QED  BY <1>3, <1>4 DEF UpTo

\* What is sent: the rows of the owner's frame, and those that have arrived.
LEMMA OwnerSends ==
  ASSUME Inv, HeldInv, NEW t \in Senders, lock = t, pc[t] # "end"
  PROVE  /\ Owner = t /\ OwnRows = frame[t].height /\ OwnRows \in Nat \ {0}
         /\ Received(t) \in 0..OwnRows /\ OwnDrawn = 0..(Received(t) - 1)
         /\ ~probing[t]
<1>1. Owner = t /\ OwnRows = frame[t].height
  BY TransferAssumption DEF Owner, OwnRows
<1>2. pc[t] \notin {"idle", "lock", "end"} /\ ~probing[t]
  BY TransferAssumption DEF HeldInv, Active
<1>3. frame[t] \in Frames /\ frame[t].height \in Nat \ {0} /\ Row(t) \in 0..frame[t].height
  BY <1>2, LineIsSome DEF Inv, RowInv, RowAt, Idle
<1>4. Received(t) \in 0..frame[t].height
  BY <1>3 DEF Inv, RowInv, RowAt, Received, Arrived, Sending
<1>5. drawn[t] = UpTo(Received(t))
  BY <1>2 DEF Inv, DrawnInv, DrawnAt, Idle
<1>6. OwnDrawn = 0..(Received(t) - 1)
  BY <1>1, <1>3, <1>4, <1>5, FirstRows, TransferAssumption DEF OwnDrawn
<1> QED  BY <1>1, <1>2, <1>3, <1>4, <1>6

\* A step that leaves the owner's frame alone changes nothing that is sent.
LEMMA OwnKept ==
  ASSUME Owner' = Owner, Owner # "none" => /\ frame'[Owner] = frame[Owner]
                                           /\ drawn'[Owner] = drawn[Owner]
  PROVE  UNCHANGED <<Owner, OwnRows, OwnDrawn>>
  BY DEF OwnRows, OwnDrawn

\* The end of a frame, with or without an error.
LEMMA EndSends ==
  ASSUME Inv, Inv', HeldInv, NEW t \in Senders, NEW r \in {"ok", "error"}, Ends(t, r),
         pc[t] \notin {"idle", "lock", "end"},
         UNCHANGED <<lock, frame, drawn, probing, disconnected>>
  PROVE  Sender!Next
<1>1. ret' = [ret EXCEPT ![t] = r] /\ pc' = [pc EXCEPT ![t] = "end"]
  BY DEF Ends, Goto
<1>2. pc'[t] = "end" /\ ret'[t] = r
  BY <1>1 DEF Inv, TypeInv
<1>3. CASE lock = t
  <2>1. Owner = t /\ OwnRows = frame[t].height /\ ~probing[t] /\ frame[t] \in Frames
    BY <1>3, OwnerSends DEF Inv, RowInv, RowAt, Idle
  <2>2. Owner' = "none" /\ OwnRows' = 0 /\ OwnDrawn' = {}
    BY <1>2, <1>3, TransferAssumption DEF Owner, OwnRows, OwnDrawn
  <2>3. r = "ok" => OwnDrawn = 0..(OwnRows - 1)
    <3>1. r = "ok" => drawn[t] = UpTo(frame[t].height)
      BY <1>2, <2>1 DEF Inv, DrawnInv, DrawnAt
    <3>2. frame[t].height \in Nat
      BY <2>1, TransferAssumption
    <3>3. r = "ok" => {y \in DOMAIN drawn[t] : drawn[t][y] > 0} = 0..(frame[t].height - 1)
      BY <2>1, <3>1, <3>2, FirstRows
    <3> QED  BY <2>1, <3>3, TransferAssumption DEF OwnDrawn
  <2>4. Sender!End(r)
    BY <1>1, <2>1, <2>2, <2>3, TransferAssumption DEF Sender!End, Sender!Nobody
  <2> QED  BY <2>4 DEF Sender!Next, Sender!Results
<1>4. CASE lock # t
  <2>1. Owner' = Owner /\ Owner # t
    BY <1>1, <1>4, TransferAssumption DEF Owner, Inv, TypeInv
  <2>2. UNCHANGED <<Owner, OwnRows, OwnDrawn>>
    BY <2>1, OwnKept
  <2>3. Sender!Prepare(t, r)
    BY <1>1, <2>1, <2>2 DEF Sender!Prepare
  <2> QED  BY <2>3 DEF Sender!Next, Sender!Results
<1> QED  BY <1>3, <1>4

\* A sender that goes on, and neither begins to send nor ends its frame.
LEMMA GoesOn ==
  ASSUME Inv, HeldInv, NEW t \in Senders, NEW l, pc' = [pc EXCEPT ![t] = l],
         lock = t => pc[t] # "end" /\ l # "end",
         UNCHANGED <<lock, ret, disconnected>>,
         lock = t \/ lock \in Senders \ {t} =>
           frame'[lock] = frame[lock] /\ drawn'[lock] = drawn[lock]
  PROVE  UNCHANGED Sender!vars
<1>1. Owner' = Owner
  BY TransferAssumption DEF Owner, Inv, TypeInv
<1>2. Owner # "none" => lock = Owner /\ lock \in Senders
  BY DEF Owner, Inv, TypeInv
<1>3. UNCHANGED <<Owner, OwnRows, OwnDrawn>>
  BY <1>1, <1>2, OwnKept
<1> QED  BY <1>3 DEF Sender!vars

\* Every step of the loop, of a probe or of the rest of the world is one of a
\* frame sender, or none.
LEMMA SendStep ==
  ASSUME Inv, Inv', HeldInv, HeldInv', [Next]_vars
  PROVE  [Sender!Next]_(Sender!vars)
<1>1. ASSUME NEW t \in Senders, Lock(t) PROVE Sender!Next
  <2>1. /\ lock = "none" /\ lock' = t /\ pc[t] = "lock" /\ pc'[t] = "rect"
        /\ UNCHANGED <<frame, offset, drawn, probing, ret, disconnected>>
    BY <1>1 DEF Lock, Goto, Inv, TypeInv, jobVars, rectVars, linkVars
  <2>2. /\ Owner = "none" /\ OwnRows = 0 /\ OwnDrawn = {} /\ Owner' = t
        /\ OwnRows' = frame[t].height /\ t # "none"
        /\ OwnDrawn' = {y \in DOMAIN drawn[t] : drawn[t][y] > 0}
    BY <2>1, TransferAssumption DEF Owner, OwnRows, OwnDrawn
  <2>3. frame[t] \in Frames /\ frame[t].height \in Nat \ {0} /\ offset[t] = 0
    BY <2>1, LineIsSome DEF Inv, RowInv, RowAt, Idle
  <2>4. drawn[t] = UpTo(0)
    <3>1. LineAt(t) \in Nat /\ LineAt(t) > 0
      BY <2>1, LineIsSome DEF Inv, RowInv, RowAt, Idle, LineAt
    <3>2. Row(t) = 0
      BY <2>3, <3>1 DEF Row
    <3>3. Received(t) = 0
      BY <2>1, <3>2 DEF Received, Arrived
    <3> QED  BY <2>1, <3>3 DEF Inv, DrawnInv, DrawnAt, Idle
  <2>5. OwnDrawn' = {}
    BY <2>2, <2>3, <2>4, FirstRows
  <2>6. Sender!Start(t)
    BY <2>1, <2>2, <2>3, <2>5 DEF Sender!Start
  <2> QED  BY <2>6 DEF Sender!Next
<1>2. ASSUME NEW t \in Senders, LastRect(t) \/ SetBufferFails(t) \/ Kill(t)
      PROVE  Sender!Next
  <2>1. /\ \E r \in {"ok", "error"} : Ends(t, r)
        /\ pc[t] \notin {"idle", "lock", "end"}
        /\ UNCHANGED <<lock, frame, drawn, probing, disconnected>>
    BY <1>2 DEF LastRect, SetBufferFails, Kill, jobVars, rectVars, linkVars
  <2> QED  BY <2>1, EndSends
<1>3. ASSUME NEW t \in Senders, NextRect(t) PROVE [Sender!Next]_(Sender!vars)
  <2>1. /\ pc[t] = "rect" /\ UNCHANGED <<lock, frame, drawn, probing, disconnected>>
        /\ Ends(t, "error") \/ (pc' = [pc EXCEPT ![t] = "set"] /\ ret' = ret)
    BY <1>3 DEF NextRect, Goto, jobVars, rectVars, linkVars
  <2> QED  BY <2>1, EndSends, GoesOn
<1>4. ASSUME NEW t \in Senders, SetBuffer(t) \/ Submit(t) \/ Timeout(t)
      PROVE  UNCHANGED Sender!vars
  <2>1. /\ pc[t] # "end" /\ UNCHANGED <<lock, frame, drawn, ret, disconnected>>
        /\ \E l : pc' = [pc EXCEPT ![t] = l] /\ l # "end"
    BY <1>4 DEF SetBuffer, Submit, Timeout, Goto, jobVars, rectVars, linkVars
  <2> QED  BY <2>1, GoesOn
<1>5. ASSUME NEW t \in Senders, SubmitFails(t) \/ Completed(t)
      PROVE  [Sender!Next]_(Sender!vars)
  <2>1. /\ pc[t] \in {"submit", "wait"}
        /\ UNCHANGED <<lock, frame, drawn, probing, disconnected>>
        /\ \/ Ends(t, "error")
           \/ (\E l : pc' = [pc EXCEPT ![t] = l] /\ l # "end") /\ ret' = ret
    BY <1>5 DEF SubmitFails, Completed, Retry, Goto, jobVars, rectVars, linkVars
  <2> QED  BY <2>1, EndSends, GoesOn
<1>6. ASSUME NEW t \in Senders, Advance(t) PROVE UNCHANGED Sender!vars
  <2>1. /\ pc[t] = "next" /\ UNCHANGED <<lock, frame, drawn, ret, disconnected>>
        /\ \E l : pc' = [pc EXCEPT ![t] = l] /\ (l # "end" \/ probing[t])
    BY <1>6 DEF Advance, Goto, jobVars, rectVars, linkVars
  <2>2. lock = t => ~probing[t]
    BY TransferAssumption DEF HeldInv
  <2> QED  BY <2>1, <2>2, GoesOn
<1>7. ASSUME NEW t \in Senders, Finish(t) PROVE Sender!Next
  <2>1. /\ pc[t] = "end" /\ pc' = [pc EXCEPT ![t] = "idle"] /\ disconnected' = disconnected
        /\ ret' = [ret EXCEPT ![t] = "ok"] /\ lock' = IF probing[t] THEN lock ELSE "none"
        /\ frame' = [frame EXCEPT ![t] = NoFrame] /\ drawn' = [drawn EXCEPT ![t] = Undrawn]
    BY <1>7 DEF Finish, Goto, linkVars
  <2>2. Owner # t /\ (Owner # "none" => Owner \in Senders)
    BY <2>1, TransferAssumption DEF Owner, Inv, TypeInv
  <2>3. Owner' = Owner
    <3>1. CASE probing[t]
      <4>1. lock' = lock /\ lock # t
        BY <2>1, <3>1, TransferAssumption DEF HeldInv
      <4> QED  BY <2>1, <4>1 DEF Owner, Inv, TypeInv
    <3>2. CASE ~probing[t]
      <4>1. lock = t /\ lock' = "none"
        BY <2>1, <3>2 DEF Inv, LockInv, Active
      <4> QED  BY <2>1, <4>1 DEF Owner
    <3> QED  BY <3>1, <3>2
  <2>4. UNCHANGED <<Owner, OwnRows, OwnDrawn>>
    <3>1. Owner # "none" => frame'[Owner] = frame[Owner] /\ drawn'[Owner] = drawn[Owner]
      BY <2>1, <2>2 DEF Inv, TypeInv
    <3> QED  BY <2>3, <3>1, OwnKept
  <2>5. Sender!Prepare(t, "ok")
    BY <2>1, <2>2, <2>4 DEF Sender!Prepare
  <2> QED  BY <2>5 DEF Sender!Next, Sender!Results
<1>8. ASSUME NEW t \in Senders, NEW f \in Frames, BeginFrame(t, f) \/ BeginProbe(t, f)
      PROVE  UNCHANGED Sender!vars
  <2>1. /\ Idle(t) /\ UNCHANGED <<lock, drawn, ret, disconnected>>
        /\ \E l : pc' = [pc EXCEPT ![t] = l]
        /\ frame' = [frame EXCEPT ![t] = f]
    BY <1>8 DEF BeginFrame, BeginProbe, Begin, Goto, linkVars
  <2>2. t # lock
    BY <2>1, TransferAssumption DEF HeldInv, Idle, Active
  <2>3. lock \in Senders \ {t} => frame'[lock] = frame[lock]
    BY <2>1 DEF Inv, TypeInv
  <2> QED  BY <2>1, <2>2, <2>3, GoesOn
<1>9. ASSUME NEW ok \in BOOLEAN, NEW full \in BOOLEAN, Complete(ok, full)
      PROVE  [Sender!Next]_(Sender!vars)
  <2> SUFFICES ASSUME NEW t \in Senders, t = urb.by
               PROVE  [Sender!Next]_(Sender!vars)
    BY <1>9 DEF Complete, Inv, UrbInv
  <2>1. /\ pc[t] \in {"wait", "kill"}
        /\ UNCHANGED <<pc, lock, probing, frame, offset, rect, ret, disconnected>>
        /\ drawn' = drawn \/ (~probing[t] /\ \E d : drawn' = [drawn EXCEPT ![t] = d])
    BY <1>9 DEF Complete, Draw, Inv, UrbInv, jobVars, linkVars
  <2>2. Owner' = Owner
    BY <2>1 DEF Owner
  <2>3. CASE drawn' = drawn
    BY <2>1, <2>2, <2>3, OwnKept DEF Sender!vars
  <2>4. CASE drawn' # drawn
    <3>1. lock = t /\ ~disconnected
      BY <2>1, <2>4, TransferAssumption DEF Inv, LockInv, Active, HeldInv
    <3>2. /\ Owner = t /\ OwnRows = frame[t].height /\ ~probing[t]
          /\ Received(t) \in 0..OwnRows /\ OwnDrawn = 0..(Received(t) - 1)
      BY <2>1, <3>1, OwnerSends
    <3>3. Row(t)' = Row(t) /\ Row(t) \in Nat
      BY <2>1 DEF Row, LineAt, Inv, RowInv, RowAt, Idle
    <3>4. PICK n \in 1..OwnRows : /\ drawn'[t] = UpTo(n) /\ Received(t) <= n
      <4>1. rect[t].rows \in 1..(frame[t].height - Row(t))
        BY <2>1 DEF Inv, RowInv, RowAt, Sending
      <4>2. ctx'[t].done /\ ctx'[t].full
        BY <1>9, <2>1, <2>4 DEF Complete, Draw, Inv, TypeInv
      <4>3. drawn'[t] = UpTo(Row(t) + rect[t].rows)
        <5>1. drawn'[t] = UpTo(Received(t)')
          BY <2>1, <3>2 DEF Inv, DrawnInv, DrawnAt, Idle
        <5>2. Received(t)' = Row(t) + rect[t].rows
          BY <2>1, <3>3, <4>2 DEF Received, Arrived
        <5> QED  BY <5>1, <5>2
      <4>4. frame[t].height \in Nat
        BY <2>1, LineIsSome DEF Inv, RowInv, RowAt, Idle
      <4>5. Received(t) <= Row(t) + rect[t].rows /\ Row(t) + rect[t].rows \in 1..OwnRows
        BY <3>2, <3>3, <4>1, <4>4 DEF Received
      <4> QED  BY <4>3, <4>5
    <3>5. OwnDrawn' = 0..(n - 1)
      <4>1. frame[t] \in Frames /\ n \in 0..frame[t].height
        BY <2>1, <3>2, <3>4 DEF Inv, RowInv, RowAt, Idle
      <4>2. {y \in DOMAIN drawn'[t] : drawn'[t][y] > 0} = 0..(n - 1)
        BY <3>4, <4>1, FirstRows
      <4> QED  BY <2>1, <2>2, <3>2, <4>2, TransferAssumption DEF OwnDrawn
    <3>6. OwnRows' = OwnRows
      BY <2>1, <2>2, <3>2 DEF OwnRows
    <3>7. OwnDrawn \subseteq OwnDrawn'
      BY <3>2, <3>4, <3>5
    <3>8. Sender!Arrive
      BY <2>1, <2>2, <3>1, <3>2, <3>4, <3>5, <3>6, <3>7, TransferAssumption
      DEF Sender!Arrive
    <3> QED  BY <3>8 DEF Sender!Next
  <2> QED  BY <2>3, <2>4
<1>10. CASE Disconnect
  <2>1. /\ lock = "none" /\ disconnected' = TRUE
        /\ UNCHANGED <<lock, ret, frame, drawn, pc>>
    BY <1>10 DEF Disconnect, jobVars, rectVars
  <2>2. Owner = "none" /\ UNCHANGED <<Owner, OwnRows, OwnDrawn>>
    BY <2>1 DEF Owner, OwnRows, OwnDrawn
  <2>3. Sender!Leave
    BY <2>1, <2>2 DEF Sender!Leave
  <2> QED  BY <2>3 DEF Sender!Next
<1>11. ASSUME \/ \E t \in Senders, f \in Frames : BeginRefused(t, f)
              \/ DisableEndpoints \/ \E n \in ProbeLengths \cup {0} : SetProbe(n)
              \/ UNCHANGED vars
       PROVE  UNCHANGED Sender!vars
  <2>1. UNCHANGED <<pc, lock, ret, frame, drawn, disconnected>>
    BY <1>11 DEF BeginRefused, Begin, DisableEndpoints, SetProbe, vars, jobVars,
                 rectVars, linkVars
  <2> QED  BY <2>1 DEF Sender!vars, Owner, OwnRows, OwnDrawn
<1> QED
  BY <1>1, <1>2, <1>3, <1>4, <1>5, <1>6, <1>7, <1>8, <1>9, <1>10, <1>11
  DEF Next, Steps, Sent

\* The loop over the rectangles implements FrameSender: under gud->lock the rows
\* of one frame arrive in order, whatever -EAGAIN, timeouts, late completions and
\* failures there are; a frame that ends without an error is complete; and
\* nothing arrives once gud_disconnect has marked the device.
THEOREM SendsFrames == Spec => SenderSpec
<1>1. Init => HeldInv /\ Sender!Init
  BY DEF Init, HeldInv, Sender!Init, Owner, OwnRows, OwnDrawn
<1>2. Spec => []HeldInv
  <2>1. Inv => TypeInv /\ LockInv
    BY DEF Inv
  <2> QED  BY <1>1, <2>1, Invariance, HeldStep, PTL DEF Spec
<1> QED
  BY <1>1, <1>2, Invariance, SendStep, PTL DEF Spec, SenderSpec, Sender!Spec
=============================================================================
