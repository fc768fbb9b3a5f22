---------------------------- MODULE GudFunction ----------------------------
(***************************************************************************)
(* The USB function of the gadget (f_gud.c, patch 0005) and the host that  *)
(* talks to it.  The host sends a SET request and asks for its status; the *)
(* function's setup handler accepts or refuses the request in interrupt    *)
(* context, and its worker executes an accepted one and answers a status   *)
(* request that is waiting.  After a SET_BUFFER the host sends a payload,  *)
(* which the worker writes to the rectangle that SET_BUFFER named.         *)
(*                                                                         *)
(* The host may give up on a request, and the bus may be reset, at any     *)
(* time; the worker is not told.  A step is a critical section of the      *)
(* function's lock, one call of the worker to the display code, or a stage *)
(* of a USB transfer.  Requests are numbered; 0 stands for none.           *)
(* The promise that this keeps to the host is module RequestServer.        *)
(***************************************************************************)
EXTENDS Integers

CONSTANTS
  MaxRequests,    \* bound: requests that the host makes
  MaxRetries,     \* GUD_SET_BUFFER_BUSY_RETRIES
  StatusOnStall,  \* the host asks for the status of a stalled request: the
                  \* hosts of patch 0002 and of tests/gud do, gud_pipe.c not
  Env             \* events of the environment this instance includes

Events == {"outTimeout", "statusTimeout", "bulkTimeout", "reset"}

ASSUME FunctionAssumption ==
  /\ MaxRequests \in Nat \ {0} /\ MaxRetries \in Nat
  /\ StatusOnStall \in BOOLEAN
  /\ Env \subseteq Events

Request == 0..MaxRequests
Kinds   == {"check", "buffer", "get"}  \* STATE_CHECK, SET_BUFFER, any GET
Errnos  == {"ok", "busy", "failed", "shutdown"}
Result  == [of : Request, err : Errnos]
Steps   == {"idle", "setup", "out", "ask", "wait", "got", "bulk", "end"}
WorkSteps == {"idle", "read", "disable", "disabled", "write", "written",
              "ctrl", "answer"}

VARIABLES
  step, n, kinds,  \* the host: its position, its newest request, their kinds
  stalled,         \* the request was stalled when it was made last
  retries,         \* set_buffer_retries
  answer,          \* the status that the host has read, and whose it was
  gaveUp,          \* history: the host has given up on a transfer
  configured,      \* set_alt was called last, and not disable
  torn,            \* history: a reset has torn a request from the worker's hands
  irq,             \* f_gud_setup has dropped the lock to queue ctrl_req
  ep0,             \* what endpoint 0 waits for
  ctrlPending, statusPending, bulkPending, disablePending, hostTimeout,
  errno, request, statusBuf,  \* fields of struct f_gud
  bufOf,           \* request whose data is in ctrl_req->buf
  bulkQ,           \* SET_BUFFER that bulk_req is queued for
  payload,         \* payload in bulk_req->buf
  rect,            \* SET_BUFFER that set_buffer_rect was taken from
  pipe,            \* the display has a buffer
  queued, work,    \* the work item: pending, and its position
  wctrl, wreq, wret  \* locals of f_gud_worker

hostVars == <<step, n, kinds, stalled, retries, answer, gaveUp>>
flagVars == <<ctrlPending, statusPending, bulkPending, disablePending, hostTimeout>>
usbVars  == <<configured, torn, irq, ep0, statusBuf>>
dataVars == <<errno, request, bufOf, bulkQ, payload, rect, pipe>>
workVars == <<work, wctrl, wreq, wret>>
vars == <<hostVars, flagVars, usbVars, dataVars, queued, workVars>>

Reply(r, e) == [of |-> r, err |-> e]
NoReply == Reply(0, "ok")

Init ==
  /\ step = "idle" /\ n = 0 /\ kinds = [r \in 1..MaxRequests |-> "check"]
  /\ stalled = FALSE /\ retries = 0
  /\ answer = NoReply /\ gaveUp = FALSE
  /\ configured = TRUE /\ torn = FALSE /\ irq = FALSE
  /\ ep0 = "none" /\ statusBuf = NoReply
  /\ ctrlPending = FALSE /\ statusPending = FALSE /\ bulkPending = FALSE
  /\ disablePending = FALSE /\ hostTimeout = FALSE
  /\ errno = NoReply /\ request = 0 /\ bufOf = 0
  /\ bulkQ = 0 /\ payload = 0 /\ rect = 0 /\ pipe = FALSE
  /\ queued = FALSE /\ work = "idle" /\ wctrl = FALSE
  /\ wreq = 0 /\ wret = NoReply

-----------------------------------------------------------------------------
(* The host makes its requests one at a time, under gud->lock.             *)

NewRequest(k) ==
  /\ step = "idle" /\ configured /\ n < MaxRequests
  /\ n' = n + 1 /\ kinds' = [kinds EXCEPT ![n + 1] = k]
  /\ step' = "setup"
  /\ stalled' = FALSE /\ retries' = 0
  /\ UNCHANGED <<answer, gaveUp, flagVars, usbVars, dataVars, queued, workVars>>

\* What the host does when the function stalls its request.
Stall ==
  /\ step' = IF StatusOnStall /\ step # "ask" THEN "ask" ELSE "end"
  /\ stalled' = TRUE
  /\ UNCHANGED <<n, kinds, retries, answer, gaveUp>>

\* The worker still works on a request that the host gave up on.
BusyMutant == statusPending
Busy == statusPending \/ ctrlPending

\* f_gud_setup refuses a request, also a GET_STATUS.  Every SETUP packet ends
\* what endpoint 0 was waiting for before; the error with which ctrl_req then
\* completes is in errno only until the setup handler overwrites it.
SetupRefuse ==
  /\ step \in {"setup", "ask"} /\ ~irq
  /\ IF step = "ask" THEN statusPending ELSE Busy
  /\ statusPending' = FALSE
  /\ hostTimeout' = (hostTimeout \/ statusPending)
  /\ errno' = Reply(n, "busy") /\ ep0' = "none"
  /\ Stall
  /\ UNCHANGED <<ctrlPending, bulkPending, disablePending, configured, torn, irq,
                 statusBuf, request, bufOf, bulkQ, payload, rect, pipe,
                 queued, workVars>>

\* f_gud_setup answers a GET request itself.
SetupGet(e) ==
  /\ step = "setup" /\ ~irq /\ ~Busy /\ kinds[n] = "get"
  /\ errno' = Reply(n, e) /\ ep0' = "none"
  /\ IF e = "ok" THEN step' = "end" /\ UNCHANGED <<n, kinds, stalled, retries, answer, gaveUp>>
                 ELSE Stall
  /\ UNCHANGED <<flagVars, configured, torn, irq, statusBuf, request, bufOf,
                 bulkQ, payload, rect, pipe, queued, workVars>>

\* f_gud_setup accepts a SET request; it drops the lock to queue ctrl_req.
SetupSet ==
  /\ step = "setup" /\ ~irq /\ ~Busy /\ kinds[n] # "get"
  /\ hostTimeout' = FALSE
  /\ request' = n /\ errno' = NoReply
  /\ ep0' = "out" /\ irq' = TRUE
  /\ step' = "out" /\ stalled' = FALSE
  /\ UNCHANGED <<n, kinds, retries, answer, gaveUp,
                 ctrlPending, statusPending, bulkPending, disablePending,
                 configured, torn, statusBuf, bufOf, bulkQ, payload, rect, pipe,
                 queued, workVars>>

\* f_gud_ctrl_req_complete: at once, or when the data arrives.
OutData ==
  /\ step = "out" /\ ep0 = "out"
  /\ ctrlPending' = TRUE /\ bufOf' = n /\ queued' = TRUE
  /\ ep0' = "ack"
  /\ UNCHANGED <<hostVars, statusPending, bulkPending, disablePending,
                 hostTimeout, configured, torn, irq, statusBuf, errno, request,
                 bulkQ, payload, rect, pipe, workVars>>

\* f_gud_setup takes the lock again: an error that was set meanwhile stalls.
SetupReturn ==
  /\ irq
  /\ irq' = FALSE
  /\ IF errno.err = "ok" THEN UNCHANGED <<ep0, hostVars>>
                         ELSE ep0' = "none" /\ Stall
  /\ UNCHANGED <<flagVars, configured, torn, statusBuf, dataVars, queued, workVars>>

\* The status stage of the SET request.
OutDone ==
  /\ step = "out" /\ ep0 = "ack" /\ ~irq
  /\ ep0' = "none" /\ step' = "ask"
  /\ UNCHANGED <<n, kinds, stalled, retries, answer, gaveUp, flagVars,
                 configured, torn, irq, statusBuf, dataVars, queued, workVars>>

\* f_gud_setup for GET_STATUS: while the worker is not done it leaves a note.
DelayStatusMutant == ctrlPending /\ hostTimeout
DelayStatus == ctrlPending /\ ~hostTimeout

AskStatus ==
  /\ step = "ask" /\ ~irq /\ ~statusPending
  /\ IF DelayStatus
     THEN statusPending' = TRUE /\ ep0' = "none" /\ UNCHANGED statusBuf
     ELSE ep0' = "status" /\ statusBuf' = errno /\ UNCHANGED statusPending
  /\ errno' = NoReply
  /\ step' = "wait"
  /\ UNCHANGED <<n, kinds, stalled, retries, answer, gaveUp,
                 ctrlPending, bulkPending, disablePending, hostTimeout,
                 configured, torn, irq, request, bufOf, bulkQ, payload, rect, pipe,
                 queued, workVars>>

ReadStatus ==
  /\ step = "wait" /\ ep0 = "status"
  /\ answer' = statusBuf /\ ep0' = "none"
  /\ step' = "got"
  /\ UNCHANGED <<n, kinds, stalled, retries, gaveUp, flagVars,
                 configured, torn, irq, statusBuf, dataVars, queued, workVars>>

\* gud_set_buffer_should_retry.
ShouldRetryMutant == kinds[n] = "buffer" /\ answer.err = "busy" /\ retries <= MaxRetries
ShouldRetry == kinds[n] = "buffer" /\ answer.err = "busy" /\ retries < MaxRetries

\* What the host does with a status.
AfterStatusMutant == IF kinds[n] = "buffer" THEN "bulk" ELSE "end"
NoBulkMutant == IF ShouldRetry THEN "setup" ELSE "end"
AfterStatus ==
  IF ShouldRetry THEN "setup"
  ELSE IF kinds[n] = "buffer" /\ answer.err = "ok" THEN "bulk" ELSE "end"

UseStatus ==
  /\ step = "got"
  /\ step' = AfterStatus
  /\ retries' = IF ShouldRetry THEN retries + 1 ELSE retries
  /\ UNCHANGED <<n, kinds, stalled, answer, gaveUp, flagVars, usbVars,
                 dataVars, queued, workVars>>

\* The host goes on to its next request.
Proceed ==
  /\ step = "end" /\ step' = "idle"
  /\ UNCHANGED <<n, kinds, stalled, retries, answer, gaveUp, flagVars,
                 usbVars, dataVars, queued, workVars>>

\* A control transfer times out, in the data stage or waiting for the status.
GiveUp ==
  /\ \/ step = "out" /\ "outTimeout" \in Env
     \/ step = "wait" /\ "statusTimeout" \in Env
  /\ ~irq
  /\ step' = "end" /\ gaveUp' = TRUE
  /\ UNCHANGED <<n, kinds, stalled, retries, answer, flagVars, usbVars,
                 dataVars, queued, workVars>>

-----------------------------------------------------------------------------
(* The bulk transfer.                                                      *)

\* f_gud_bulk_complete.
BulkReceived ==
  /\ bulkQ # 0
  /\ bulkQ' = 0 /\ payload' = n
  /\ bulkPending' = TRUE /\ queued' = TRUE

BulkDone ==
  /\ step = "bulk" /\ BulkReceived
  /\ step' = "end"
  /\ UNCHANGED <<n, kinds, stalled, retries, answer, gaveUp,
                 ctrlPending, statusPending, disablePending, hostTimeout,
                 usbVars, errno, request, bufOf, rect, pipe, workVars>>

\* gud_usb_bulk_write gives up: the function may have received all or too
\* little, and its request stays queued for the rest.
BulkTimeout ==
  /\ step = "bulk" /\ "bulkTimeout" \in Env
  /\ \/ BulkReceived
     \/ UNCHANGED <<bulkQ, payload, bulkPending, queued>>
  /\ step' = "end" /\ gaveUp' = TRUE
  /\ UNCHANGED <<n, kinds, stalled, retries, answer, ctrlPending,
                 statusPending, disablePending, hostTimeout, usbVars, errno,
                 request, bufOf, rect, pipe, workVars>>

-----------------------------------------------------------------------------
(* f_gud_worker.                                                           *)

WorkStart ==
  /\ work = "idle" /\ queued
  /\ queued' = FALSE /\ work' = "read"
  /\ UNCHANGED <<hostVars, flagVars, usbVars, dataVars, wctrl, wreq, wret>>

\* A payload is written before the next request is executed.
TaskMutant ==
  IF disablePending THEN "disable"
  ELSE IF ctrlPending THEN "ctrl" ELSE IF bulkPending THEN "write" ELSE "idle"
Task ==
  IF disablePending THEN "disable"
  ELSE IF bulkPending THEN "write" ELSE IF ctrlPending THEN "ctrl" ELSE "idle"

WorkRead ==
  /\ work = "read"
  /\ wreq' = request /\ wctrl' = ctrlPending
  /\ work' = Task
  /\ UNCHANGED <<hostVars, flagVars, usbVars, dataVars, queued, wret>>

\* gud_gadget_disable_pipe deletes the buffers.
WorkDisable ==
  /\ work = "disable"
  /\ pipe' = FALSE
  /\ work' = "disabled"
  /\ UNCHANGED <<hostVars, flagVars, usbVars, errno, request, bufOf, bulkQ,
                 payload, rect, queued, wctrl, wreq, wret>>

WorkDisabled ==
  /\ work = "disabled"
  /\ disablePending' = FALSE /\ work' = "idle"
  /\ UNCHANGED <<hostVars, ctrlPending, statusPending, bulkPending,
                 hostTimeout, usbVars, dataVars, queued, wctrl, wreq, wret>>

\* gud_gadget_write_buffer copies the payload to the rectangle.
WorkWrite ==
  /\ work = "write" /\ work' = "written"
  /\ UNCHANGED <<hostVars, flagVars, usbVars, dataVars, queued, wctrl, wreq, wret>>

WorkWritten ==
  /\ work = "written"
  /\ bulkPending' = FALSE
  /\ work' = IF wctrl THEN "ctrl" ELSE "idle"
  /\ UNCHANGED <<hostVars, ctrlPending, statusPending, disablePending,
                 hostTimeout, usbVars, dataVars, queued, wctrl, wreq, wret>>

\* gud_gadget_req_set_state_check.  It may fail before it has deleted the old
\* buffer, after that, or when it has the new one.
WorkCheck(ok) ==
  /\ work = "ctrl" /\ kinds[wreq] = "check"
  /\ pipe' \in IF ok THEN {TRUE} ELSE BOOLEAN
  /\ wret' = Reply(wreq, IF ok THEN "ok" ELSE "failed")
  /\ work' = "answer"
  /\ UNCHANGED <<hostVars, flagVars, usbVars, errno, request, bufOf, bulkQ,
                 payload, rect, queued, wctrl, wreq>>

\* usb_ep_queue of bulk_req, for request r.  It fails when the endpoint is disabled.
\* When bulk_req is queued already, which the code does not test, some controllers'
\* drivers fail with an error of their own, and others queue it anew.
QueueBulk(r, e) ==
  \/ configured /\ bulkQ' = r /\ wret' = Reply(wreq, "ok")
  \/ /\ ~configured \/ bulkQ # 0
     /\ UNCHANGED bulkQ /\ wret' = Reply(wreq, e)

\* f_gud_ctrl_req_set_buffer: the rectangle is taken first.  The length of bulk_req
\* is left out: if bulk_req then cannot be queued nobody sends a payload for it.
WorkSetBuffer(e) ==
  /\ work = "ctrl" /\ kinds[wreq] = "buffer"
  /\ IF pipe THEN rect' = bufOf /\ QueueBulk(bufOf, e)
     ELSE UNCHANGED <<rect, bulkQ>> /\ wret' = Reply(wreq, "failed")
  /\ work' = "answer"
  /\ UNCHANGED <<hostVars, flagVars, usbVars, errno, request, bufOf, payload,
                 pipe, queued, wctrl, wreq>>

\* The result goes to the host that waits for it, or is kept for it.
AnswerMutant == errno' = wret /\ UNCHANGED <<statusPending, ep0, statusBuf>>
Answer ==
  IF statusPending
  THEN statusPending' = FALSE /\ ep0' = "status" /\ statusBuf' = wret /\ UNCHANGED errno
  ELSE errno' = wret /\ UNCHANGED <<statusPending, ep0, statusBuf>>

WorkAnswer ==
  /\ work = "answer"
  /\ ctrlPending' = FALSE /\ Answer
  /\ work' = "idle"
  /\ UNCHANGED <<hostVars, bulkPending, disablePending, hostTimeout, configured, torn,
                 irq, request, bufOf, bulkQ, payload, rect, pipe, queued,
                 wctrl, wreq, wret>>

-----------------------------------------------------------------------------
(* Reset of the bus, and a new configuration.                              *)

\* The worker is told to disable the pipe.
TellWorkerMutant == UNCHANGED queued
TellWorker == queued' = TRUE

\* A request that the worker has seen and not yet answered.
InHand == work \in {"ctrl", "answer"} \/ (work \in {"write", "written"} /\ wctrl)

\* f_gud_disable; the host's transfer fails.
Disable ==
  /\ "reset" \in Env /\ configured /\ ~irq
  /\ configured' = FALSE /\ torn' = (torn \/ InHand)
  /\ bulkQ' = 0 /\ ep0' = "none"
  /\ ctrlPending' = FALSE /\ bulkPending' = FALSE /\ statusPending' = FALSE
  /\ disablePending' = TRUE
  /\ errno' = Reply(0, "shutdown")
  /\ TellWorker
  /\ step' = IF step = "idle" THEN step ELSE "end"
  /\ UNCHANGED <<n, kinds, stalled, retries, answer, gaveUp,
                 hostTimeout, irq, statusBuf, request, bufOf, payload, rect,
                 pipe, workVars>>

\* f_gud_set_alt, after a reset.
SetAlt ==
  /\ ~configured
  /\ configured' = TRUE /\ bulkQ' = 0
  /\ ctrlPending' = FALSE /\ bulkPending' = FALSE /\ disablePending' = FALSE
  /\ UNCHANGED <<torn, hostVars, statusPending, hostTimeout, irq, ep0, statusBuf,
                 errno, request, bufOf, payload, rect, pipe, queued, workVars>>

\* The host has made its last request.
Finished == step = "idle" /\ n = MaxRequests /\ UNCHANGED vars

-----------------------------------------------------------------------------
HostStep ==
  \/ SetupRefuse \/ (\E e \in {"ok", "failed"} : SetupGet(e)) \/ SetupSet
  \/ OutData \/ SetupReturn \/ OutDone
  \/ AskStatus \/ ReadStatus \/ UseStatus \/ Proceed \/ BulkDone

WorkStep ==
  \/ WorkStart \/ WorkRead \/ WorkDisable \/ WorkDisabled
  \/ WorkWrite \/ WorkWritten
  \/ (\E ok \in BOOLEAN : WorkCheck(ok))
  \/ (\E e \in {"busy", "failed"} : WorkSetBuffer(e)) \/ WorkAnswer

Next ==
  \/ \E k \in Kinds : NewRequest(k)
  \/ HostStep \/ WorkStep
  \/ GiveUp \/ BulkTimeout \/ Disable \/ SetAlt \/ Finished

Spec == Init /\ [][Next]_vars

\* The host may give up and the bus may be reset, but no reset tears a request
\* from the worker's hands.
CalmSpec == Init /\ [][Next /\ ~torn']_vars

\* A transfer that can go on does, and the worker runs; nobody has to give up.
FairSpec == Spec /\ WF_vars(HostStep) /\ WF_vars(WorkStep)
-----------------------------------------------------------------------------
(* Properties.                                                             *)

\* Every variable has its type.
TypeOK ==
  /\ step \in Steps /\ n \in Request /\ kinds \in [1..MaxRequests -> Kinds]
  /\ stalled \in BOOLEAN /\ gaveUp \in BOOLEAN
  /\ retries \in 0..MaxRetries /\ answer \in Result
  /\ configured \in BOOLEAN /\ torn \in BOOLEAN /\ irq \in BOOLEAN
  /\ ep0 \in {"none", "out", "ack", "status"} /\ statusBuf \in Result
  /\ ctrlPending \in BOOLEAN /\ statusPending \in BOOLEAN /\ bulkPending \in BOOLEAN
  /\ disablePending \in BOOLEAN /\ hostTimeout \in BOOLEAN
  /\ errno \in Result
  /\ {request, bufOf, bulkQ, payload, rect, wreq} \subseteq Request
  /\ pipe \in BOOLEAN /\ queued \in BOOLEAN /\ wctrl \in BOOLEAN
  /\ work \in WorkSteps /\ wret \in Result

\* The status that the host reads of a request that was not stalled is the
\* result of that request, executed by the worker: not of one that the host
\* gave up on earlier, and not one that was never executed.
StatusIsOwn == step = "got" /\ ~stalled => answer.of = n

\* The worker reads ctrl_req->buf outside the lock; the data in it is that of
\* the request it executes.
BufferIsStable == work = "ctrl" => bufOf = wreq

\* When the host starts a bulk transfer the function waits for it, and the
\* rectangle is the one that belongs to it.
BulkIsExpected == step = "bulk" => bulkQ = n /\ rect = n

\* A payload is written to the rectangle it was sent for, although the worker
\* takes the rectangle from a field that the next SET_BUFFER overwrites.
PayloadFitsRect == work = "write" => payload = rect

\* A SET_BUFFER finds bulk_req queued already only if the host has given up.
RequeueNeedsTimeout ==
  work = "ctrl" /\ kinds[wreq] = "buffer" /\ bulkQ # 0 => gaveUp

\* When the device is not configured and its worker at rest, the display's
\* buffers are gone, whatever the worker was doing during the reset.
DisableIsFinal == ~configured /\ work = "idle" /\ ~queued => ~pipe

\* Unless a reset has torn a request from the worker's hands no request of the
\* host needs a timeout to end: no status and no posted bulk request is lost
\* between setup handler and worker, nor because of earlier resets.
RequestEnds == step # "idle" ~> step = "idle" \/ torn

\* Setup handler and worker serve the host's requests as RequestServer says:
\* each is executed at most once, in order, and only after "busy" again, and
\* the host is told the result of its own request, although it gives up and
\* asks anew while the worker is at the old one.
Server == INSTANCE RequestServer WITH asked <- n, done <- wret, told <- answer
RequestSpec == Server!Spec
=============================================================================
