---------------------------- MODULE GudTransfer ----------------------------
(***************************************************************************)
(* How the host sends a frame: it cuts the frame into rectangles of        *)
(* complete rows, and for each of them compresses and copies the rows,     *)
(* names the rectangle with SET_BUFFER and writes it with one URB.  Both   *)
(* builds of gud_pipe.c are modelled, and the test path that sends one     *)
(* payload of a chosen length (xdisp_probe_payload_length).                *)
(*                                                                         *)
(* Threads: senders (a commit, the flush worker), the URB's completion,    *)
(* the hub thread in gud_disconnect, and whoever writes module parameters. *)
(* A step is a call of the USB core, the copy of a rectangle, or what the  *)
(* sender computes between two of these.  Content is abstracted to the     *)
(* rectangle it was copied from.                                           *)
(***************************************************************************)
EXTENDS FrameLayout

CONSTANTS
  Senders,      \* threads that send: in the plain build only "commit"
  Devices,      \* what a descriptor may say: [plain, buffer, width, height, lz4]
  Frames,       \* framebuffers: [width, height, format]
  PayloadLimit, \* GUD_XDISP_MAX_PAYLOAD_LIMIT
  Chunk,        \* GUD_BULK_CHUNK_SIZE
  MaxRetries,   \* GUD_BULK_EAGAIN_RETRIES
  ProbeLengths, \* values written to xdisp_probe_payload_length
  MaxFrames     \* bound: frames sent

ASSUME TransferAssumption ==
  /\ "commit" \in Senders /\ "none" \notin Senders
  /\ \A d \in Devices : /\ d.plain \in BOOLEAN /\ d.lz4 \in BOOLEAN
                        /\ {d.buffer, d.width, d.height} \subseteq Nat \ {0}
  /\ \A f \in Frames : f.width \in Nat /\ f.height \in Nat /\ f.format \in Formats
  /\ \E f \in Frames : \A g \in Frames : g.height <= f.height  \* it is a u32
  /\ {PayloadLimit, Chunk} \subseteq Nat \ {0}
  /\ {MaxRetries, MaxFrames} \subseteq Nat /\ ProbeLengths \subseteq Nat \ {0}

VARIABLES
  dev,           \* the device that was probed, and the build
  frames,        \* frames begun
  pc, probing,   \* a sender's position; it runs gud_pipe_transfer_xdisp_probe
  frame, offset, \* fb and offset
  rect, tries,   \* the rectangle it sends, and retries
  ret,           \* how its last frame ended
  drawn,         \* history: how often the gadget received each row of it
  lock,          \* gud_device.lock
  disconnected,  \* gud_device.disconnected
  gone,          \* the USB core has disabled the endpoints
  bounce,        \* the coherent buffer and the URB are allocated
  bulk,          \* what was copied to the coherent buffer
  asked,         \* the rectangle of the last SET_BUFFER that the gadget accepted
  urb,           \* the URB
  ctx,           \* a sender's gud_bulk_context
  probeLength    \* xdisp_probe_payload_length

jobVars  == <<dev, frames, probing, frame, bounce>>
rectVars == <<offset, rect, drawn>>
linkVars == <<disconnected, gone>>
vars == <<jobVars, rectVars, probeLength, linkVars, pc, tries, ret, lock, bulk,
          asked, urb, ctx>>

Nothing == [by |-> "none", y |-> 0, rows |-> 0, source |-> 0, payload |-> 0]
NoFrame == [width |-> 0, height |-> 0, format |-> "rgb565"]
NoUrb == [by |-> "none", length |-> 0, active |-> FALSE]
Waiting == [done |-> FALSE, ok |-> FALSE, full |-> FALSE]
Heights == {f.height : f \in Frames}
Undrawn == [y \in 0..(CHOOSE h \in Heights : \A g \in Heights : g <= h) |-> 0]

Capacity == IF dev.plain THEN PlainCapacity(dev, Chunk) ELSE XdispCapacity(dev)
LineOf(f) == Line(f.width, f.format)
Length(f) == f.height * LineOf(f)

Init ==
  /\ dev \in {d \in Devices : d.plain \/ XdispOk(d, PayloadLimit)}
  /\ frames = 0
  /\ pc = [t \in Senders |-> "idle"] /\ probing = [t \in Senders |-> FALSE]
  /\ frame = [t \in Senders |-> NoFrame] /\ offset = [t \in Senders |-> 0]
  /\ rect = [t \in Senders |-> Nothing] /\ tries = [t \in Senders |-> 0]
  /\ ret = [t \in Senders |-> "ok"] /\ drawn = [t \in Senders |-> Undrawn]
  /\ lock = "none" /\ disconnected = FALSE /\ gone = FALSE
  /\ bounce = ~dev.plain
  /\ bulk = Nothing /\ asked = Nothing /\ urb = NoUrb
  /\ ctx = [t \in Senders |-> Waiting]
  /\ probeLength = 0

Goto(t, label) == pc' = [pc EXCEPT ![t] = label]
Ends(t, result) == Goto(t, "end") /\ ret' = [ret EXCEPT ![t] = result]
Others(t) == Senders \ {t}
Idle(t) == pc[t] = "idle"

-----------------------------------------------------------------------------
(* Beginning a frame.                                                       *)

Begin(t, f) ==
  /\ Idle(t) /\ frames < MaxFrames
  /\ dev.plain => t = "commit"
  /\ frames' = frames + 1
  /\ UNCHANGED <<dev, offset, drawn, probeLength, linkVars, ret, tries, lock, asked, ctx>>

\* The frame has a layout, and a row of it fits in a rectangle.
Sendable(f) == LayoutOk(f.width, f.height, f.format) /\ LineOf(f) <= Capacity

\* Whole rows of zeroes, as many as the parameter asks for.
ProbeOk(f) ==
  /\ LayoutOk(f.width, f.height, f.format)
  /\ probeLength <= Capacity /\ probeLength % LineOf(f) = 0
  /\ probeLength \div LineOf(f) \in 1..f.height

\* gud_pipe_transfer refuses the frame, or (plain) cannot allocate its buffer.
BeginRefused(t, f) ==
  /\ Begin(t, f)
  /\ IF probeLength # 0 /\ ~dev.plain THEN ~ProbeOk(f) ELSE dev.plain \/ ~Sendable(f)
  /\ UNCHANGED <<pc, frame, probing, rect, bulk, bounce, urb>>

BeginFrame(t, f) ==
  /\ Begin(t, f) /\ (probeLength = 0 \/ dev.plain) /\ Sendable(f)
  /\ \A u \in Others(t) : ~probing[u]
  /\ Goto(t, "lock") /\ frame' = [frame EXCEPT ![t] = f]
  /\ bounce' = TRUE /\ urb' = IF dev.plain THEN NoUrb ELSE urb
  /\ UNCHANGED <<probing, rect, bulk>>

\* gud_pipe_transfer_xdisp_probe: it takes no lock, so that the device may be
\* marked between its SET_BUFFER and its payload.  Whoever runs this test sends
\* nothing else until it is over.
BeginProbe(t, f) ==
  /\ Begin(t, f) /\ ~dev.plain /\ probeLength # 0 /\ ProbeOk(f)
  /\ \A u \in Others(t) : Idle(u)
  /\ Goto(t, "set") /\ frame' = [frame EXCEPT ![t] = f]
  /\ probing' = [probing EXCEPT ![t] = TRUE]
  /\ bulk' = [by |-> t, y |-> 0, rows |-> probeLength \div LineOf(f),
              source |-> probeLength, payload |-> probeLength]
  /\ rect' = [rect EXCEPT ![t] = bulk']
  /\ UNCHANGED <<bounce, urb>>

-----------------------------------------------------------------------------
(* The loop over the rectangles of a frame, under the lock.                 *)

\* Mutant of Lock: the senders do not exclude each other.
LockMutant(t) ==
  /\ pc[t] = "lock"
  /\ lock' = t /\ Goto(t, "rect")
  /\ UNCHANGED <<jobVars, rectVars, probeLength, linkVars, tries, ret, bulk, asked, urb, ctx>>

Lock(t) ==
  /\ pc[t] = "lock" /\ lock = "none"
  /\ lock' = t /\ Goto(t, "rect")
  /\ UNCHANGED <<jobVars, rectVars, probeLength, linkVars, tries, ret, bulk, asked, urb, ctx>>

\* The loop ends: the frame is sent, or the device is gone or asleep (whether it
\* sleeps is left open: gud_pm_submission_allowed).
LastRect(t) ==
  /\ pc[t] = "rect"
  /\ Ends(t, IF offset[t] >= Length(frame[t]) THEN "ok" ELSE "error")
  /\ UNCHANGED <<jobVars, rectVars, probeLength, linkVars, tries, lock, bulk, asked, urb, ctx>>

\* What gud_xdisp_lz4_compress_limited may make of n bytes: it fails, or
\* returns at most n bytes (here the extremes).
Compressed(n) == IF dev.lz4 /\ ~dev.plain THEN {0, 1, n - 1, n} ELSE {0}

RectOf(t, n, c) ==
  [by |-> t, y |-> offset[t] \div LineOf(frame[t]), rows |-> n \div LineOf(frame[t]),
   source |-> n, payload |-> IF c > 0 /\ c < n THEN c ELSE n]

\* The next rectangle is compressed and copied to the coherent buffer.
NextRect(t) ==
  /\ pc[t] = "rect" /\ offset[t] < Length(frame[t]) /\ ~disconnected
  /\ LET f == frame[t]
         n == Rows(offset[t], Length(f), LineOf(f), Capacity) * LineOf(f)
     IN  \E c \in Compressed(n) :
           IF n \in 1..Capacity
           THEN /\ bulk' = RectOf(t, n, c) /\ rect' = [rect EXCEPT ![t] = bulk']
                /\ Goto(t, "set") /\ UNCHANGED ret
           ELSE Ends(t, "error") /\ UNCHANGED <<bulk, rect>>
  /\ UNCHANGED <<jobVars, offset, drawn, probeLength, linkVars, tries, lock, asked, urb, ctx>>

\* gud_usb_set with its busy retries: the gadget accepts SET_BUFFER, or not.
SetBuffer(t) ==
  /\ pc[t] = "set" /\ ~disconnected /\ ~gone
  /\ asked' = rect[t] /\ tries' = [tries EXCEPT ![t] = 0] /\ Goto(t, "submit")
  /\ UNCHANGED <<jobVars, rectVars, probeLength, linkVars, ret, lock, bulk, urb, ctx>>

SetBufferFails(t) ==
  /\ pc[t] = "set" /\ Ends(t, "error")
  /\ UNCHANGED <<jobVars, rectVars, probeLength, linkVars, tries, lock, bulk, asked, urb, ctx>>

-----------------------------------------------------------------------------
(* gud_usb_bulk_write.                                                      *)

Filled(t) == [by |-> t, length |-> rect[t].payload, active |-> TRUE]

Submit(t) ==
  /\ pc[t] = "submit" /\ ~urb.active /\ ~gone
  /\ urb' = Filled(t) /\ ctx' = [ctx EXCEPT ![t] = Waiting]
  /\ Goto(t, "wait")
  /\ UNCHANGED <<jobVars, rectVars, probeLength, linkVars, tries, ret, lock, bulk, asked>>

\* The senders of a frame try again after -EAGAIN, a probe does not.
Again(t) == ~probing[t] /\ tries[t] < MaxRetries

Retry(t) ==
  /\ Again(t)
  /\ Goto(t, "submit") /\ tries' = [tries EXCEPT ![t] = @ + 1] /\ UNCHANGED ret

\* usb_submit_urb fails, with -EAGAIN or another error.
SubmitFails(t) ==
  /\ pc[t] = "submit"
  /\ urb' = [Filled(t) EXCEPT !.active = urb.active]
  /\ Retry(t) \/ (Ends(t, "error") /\ UNCHANGED tries)
  /\ UNCHANGED <<jobVars, rectVars, probeLength, linkVars, lock, bulk, asked, ctx>>

\* The gadget draws the payload in the rectangle it was asked for.
Draw(full) ==
  drawn' = IF full /\ asked.by \in Senders /\ ~probing[urb.by]
           THEN [drawn EXCEPT ![urb.by] =
                   [y \in DOMAIN @ |-> IF y \in asked.y..(asked.y + asked.rows - 1)
                                       THEN @[y] + 1 ELSE @[y]]]
           ELSE drawn

\* gud_bulk_complete, in interrupt context.
Complete(ok, full) ==
  /\ urb.active /\ (ok => ~gone)
  /\ urb' = [urb EXCEPT !.active = FALSE]
  /\ ctx' = [ctx EXCEPT ![urb.by] = [done |-> TRUE, ok |-> ok, full |-> full]]
  /\ Draw(full)
  /\ UNCHANGED <<jobVars, offset, rect, probeLength, linkVars, pc, tries, ret, lock,
                 bulk, asked>>

\* The sender finds the URB completed; an URB that ends with -EAGAIN has sent
\* nothing.
Completed(t) ==
  /\ pc[t] = "wait" /\ ctx[t].done
  /\ IF ctx[t].ok /\ ctx[t].full THEN Goto(t, "next") /\ UNCHANGED <<ret, tries>>
     ELSE \/ ~ctx[t].ok /\ ~ctx[t].full /\ Retry(t)
          \/ Ends(t, "error") /\ UNCHANGED tries
  /\ UNCHANGED <<jobVars, rectVars, probeLength, linkVars, lock, bulk, asked, urb, ctx>>

\* Mutant of Timeout: the wait for the URB has none.
TimeoutMutant(t) ==
  /\ pc[t] = "wait" /\ ~ctx[t].done /\ gone
  /\ Goto(t, "kill")
  /\ UNCHANGED <<jobVars, rectVars, probeLength, linkVars, tries, ret, lock, bulk, asked, urb, ctx>>

\* The wait times out; the completion may still come before usb_kill_urb.
Timeout(t) ==
  /\ pc[t] = "wait" /\ ~ctx[t].done
  /\ Goto(t, "kill")
  /\ UNCHANGED <<jobVars, rectVars, probeLength, linkVars, tries, ret, lock, bulk, asked, urb, ctx>>

\* Mutant of Kill: usb_unlink_urb, which does not wait.
KillMutant(t) ==
  /\ pc[t] = "kill"
  /\ Ends(t, "error")
  /\ UNCHANGED <<jobVars, rectVars, probeLength, linkVars, tries, lock, bulk, asked, urb, ctx>>

\* usb_kill_urb returns when the completion has run; the result is -ETIMEDOUT.
Kill(t) ==
  /\ pc[t] = "kill"
  /\ urb' = [urb EXCEPT !.active = FALSE]
  /\ Ends(t, "error")
  /\ UNCHANGED <<jobVars, rectVars, probeLength, linkVars, tries, lock, bulk, asked, ctx>>

\* Mutant of Advance: the offset grows by what was sent, not by what it stands for.
AdvanceMutant(t) ==
  /\ pc[t] = "next"
  /\ IF probing[t] THEN Goto(t, "end") /\ UNCHANGED offset
     ELSE Goto(t, "rect") /\ offset' = [offset EXCEPT ![t] = @ + rect[t].payload]
  /\ UNCHANGED <<jobVars, rect, drawn, probeLength, linkVars, tries, ret, lock, bulk,
                 asked, urb, ctx>>

\* All of the payload has been sent.
Advance(t) ==
  /\ pc[t] = "next"
  /\ IF probing[t] THEN Goto(t, "end") /\ UNCHANGED offset
     ELSE Goto(t, "rect") /\ offset' = [offset EXCEPT ![t] = @ + rect[t].source]
  /\ UNCHANGED <<jobVars, rect, drawn, probeLength, linkVars, tries, ret, lock, bulk,
                 asked, urb, ctx>>

\* The lock is released; the plain build frees its buffer and its URB.  The
\* locals of the call are gone.
Finish(t) ==
  /\ pc[t] = "end" /\ Goto(t, "idle")
  /\ probing' = [probing EXCEPT ![t] = FALSE]
  /\ lock' = IF probing[t] THEN lock ELSE "none"
  /\ bounce' = ~dev.plain
  /\ frame' = [frame EXCEPT ![t] = NoFrame] /\ offset' = [offset EXCEPT ![t] = 0]
  /\ rect' = [rect EXCEPT ![t] = Nothing] /\ drawn' = [drawn EXCEPT ![t] = Undrawn]
  /\ tries' = [tries EXCEPT ![t] = 0] /\ ctx' = [ctx EXCEPT ![t] = Waiting]
  /\ ret' = [ret EXCEPT ![t] = "ok"]
  /\ UNCHANGED <<dev, frames, probeLength, linkVars, bulk, asked, urb>>

-----------------------------------------------------------------------------
(* The rest of the world.                                                   *)

\* gud_disconnect: under the lock it marks the device.
Disconnect ==
  /\ ~disconnected /\ lock = "none"
  /\ disconnected' = TRUE
  /\ UNCHANGED <<jobVars, rectVars, probeLength, gone, pc, tries, ret, lock, bulk, asked, urb, ctx>>

\* The USB core disables the endpoints after gud_disconnect has returned.
DisableEndpoints ==
  /\ disconnected /\ ~gone /\ gone' = TRUE
  /\ UNCHANGED <<jobVars, rectVars, probeLength, disconnected, pc, tries, ret, lock,
                 bulk, asked, urb, ctx>>

\* Someone writes the parameter of the test path.
SetProbe(n) ==
  /\ \A t \in Senders : Idle(t)
  /\ n # probeLength /\ probeLength' = n
  /\ UNCHANGED <<jobVars, rectVars, linkVars, pc, tries, ret, lock, bulk, asked, urb, ctx>>

Steps(t) ==
  \/ Lock(t) \/ LastRect(t) \/ NextRect(t) \/ SetBuffer(t) \/ SetBufferFails(t)
  \/ Submit(t) \/ SubmitFails(t) \/ Completed(t) \/ Timeout(t) \/ Kill(t)
  \/ Advance(t) \/ Finish(t)

\* Nothing more can happen within the bounds.
Sent == /\ gone /\ frames = MaxFrames /\ \A t \in Senders : Idle(t)
        /\ UNCHANGED vars

Next ==
  \/ \E t \in Senders : Steps(t)
  \/ \E t \in Senders, f \in Frames :
       BeginRefused(t, f) \/ BeginFrame(t, f) \/ BeginProbe(t, f)
  \/ \E ok, full \in BOOLEAN : Complete(ok, full)
  \/ Disconnect \/ DisableEndpoints
  \/ \E n \in ProbeLengths \cup {0} : SetProbe(n)
  \/ Sent

Spec == Init /\ [][Next]_vars

\* A sender that can take a step takes one: the bulk wait has a timeout, so do
\* control messages.  Completions, disconnects and commits need not come.
FairSpec == Spec /\ \A t \in Senders : WF_vars(Steps(t))

-----------------------------------------------------------------------------
Places == {"idle", "lock", "rect", "set", "submit", "wait", "kill", "next", "end"}

\* The values the variables take; a rectangle lies within its frame and fits in
\* the coherent buffer and in the buffer the gadget offered (gud_pipe.c:630-643
\* and 1133-1154 compute the rows).
TypeOK ==
  /\ dev \in Devices /\ frames \in 0..MaxFrames
  /\ pc \in [Senders -> Places] /\ probing \in [Senders -> BOOLEAN]
  /\ \A t \in Senders : /\ frame[t] \in Frames \cup {NoFrame}
                        /\ tries[t] \in 0..MaxRetries /\ ret[t] \in {"ok", "error"}
                        /\ offset[t] \in 0..Length(frame[t])
                        /\ ctx[t] \in [{"done", "ok", "full"} -> BOOLEAN]
  /\ \A r \in {bulk, asked} \cup {rect[t] : t \in Senders} :
       r # Nothing => /\ r.by \in Senders /\ r.rows > 0
                      /\ r.payload \in 1..r.source /\ r.source <= dev.buffer
  /\ \A t \in Senders : pc[t] \in {"set", "submit", "wait", "kill", "next"} =>
       /\ rect[t].y + rect[t].rows <= frame[t].height
       /\ rect[t].source = rect[t].rows * LineOf(frame[t])
  /\ lock \in Senders \cup {"none"}
  /\ disconnected \in BOOLEAN /\ gone \in BOOLEAN /\ bounce \in BOOLEAN
  /\ urb.by \in Senders \cup {"none"} /\ urb.active \in BOOLEAN
  /\ probeLength \in ProbeLengths \cup {0}

\* A frame that was sent without an error has reached the gadget row by row,
\* each row once; a frame that failed has sent no row twice, also after -EAGAIN
\* and after an URB that completes while it is being killed.
EachRowOnce ==
  \A t \in Senders : \A y \in DOMAIN drawn[t] :
    /\ drawn[t][y] <= 1
    /\ pc[t] = "end" /\ ret[t] = "ok" /\ ~probing[t] =>
         (drawn[t][y] = 1) = (y < frame[t].height)

\* While the URB is in flight the coherent buffer holds the rectangle that the
\* gadget was last asked to expect, and the URB has the length announced for it:
\* one sender's SET_BUFFER is never followed by another one's payload.
PayloadIsAsked ==
  urb.active => /\ bulk = asked /\ asked.by = urb.by
                /\ urb.length = asked.payload

\* The completion handler writes to a gud_bulk_context on the stack of a sender
\* that still waits for it, and to a buffer that is still allocated.
ContextLives ==
  urb.active => pc[urb.by] \in {"wait", "kill"} /\ bounce

\* Every frame that was begun ends, whatever the device does: the wait for the
\* URB has a timeout, retries are bounded, and the lock is released.
TransferEnds == \A t \in Senders : (~Idle(t)) ~> Idle(t)

\* The frames are sent as FrameSender says: the rows of a frame that is sent
\* under the lock reach the gadget in order, all of them if it ends without an
\* error, and gud_disconnect does not return while one is under way.
Owner == IF lock = "none" THEN "none" ELSE IF pc[lock] = "end" THEN "none" ELSE lock
OwnRows == IF Owner = "none" THEN 0 ELSE frame[Owner].height
OwnDrawn == IF Owner = "none" THEN {}
            ELSE {y \in DOMAIN drawn[Owner] : drawn[Owner][y] > 0}
Sender == INSTANCE FrameSender WITH
  owner <- Owner, rows <- OwnRows, got <- OwnDrawn, result <- ret, gone <- disconnected
SenderSpec == Sender!Spec
=============================================================================
