------------------------- MODULE GudFunctionProofs -------------------------
(***************************************************************************)
(* Theorems about GudFunction, for every number of requests and every set  *)
(* of events.  Types and what a reset leaves behind hold whatever the      *)
(* environment does.  Whose status, data and rectangle are used is proved  *)
(* for CalmSpec, where timeouts and resets happen at any time but for a    *)
(* reset while the worker has a request in its hands, which breaks it.     *)
(* Where the payload and the promise of RequestServer are concerned the    *)
(* host is that of gud_pipe.c, which does not ask for the status of a      *)
(* request that was stalled.                                               *)
(***************************************************************************)
EXTENDS GudFunction, TLAPS

-----------------------------------------------------------------------------
(* Types, and a reset.                                                      *)

\* Results are made of requests and error numbers.
LEMMA Replies ==
  /\ \A r \in Request : \A e \in {"ok", "busy", "failed", "shutdown"} : Reply(r, e) \in Result
  /\ NoReply \in Result /\ 0 \in Request
  BY FunctionAssumption DEF Reply, NoReply, Result, Request, Errnos

\* TypeOK in two parts: what is a Boolean, and what is not.
Flags ==
  /\ stalled \in BOOLEAN /\ gaveUp \in BOOLEAN /\ configured \in BOOLEAN
  /\ torn \in BOOLEAN /\ irq \in BOOLEAN /\ ctrlPending \in BOOLEAN
  /\ statusPending \in BOOLEAN /\ bulkPending \in BOOLEAN /\ disablePending \in BOOLEAN
  /\ hostTimeout \in BOOLEAN /\ pipe \in BOOLEAN /\ queued \in BOOLEAN
  /\ wctrl \in BOOLEAN
Values ==
  /\ step \in Steps /\ n \in Request /\ kinds \in [1..MaxRequests -> Kinds]
  /\ retries \in 0..MaxRetries /\ answer \in Result /\ statusBuf \in Result
  /\ ep0 \in {"none", "out", "ack", "status"} /\ errno \in Result
  /\ {request, bufOf, bulkQ, payload, rect, wreq} \subseteq Request
  /\ work \in WorkSteps /\ wret \in Result

\* They are.
LEMMA TypeParts == TypeOK <=> Flags /\ Values
<1>1. TypeOK => Flags
  BY DEF TypeOK, Flags
<1>2. TypeOK => Values
  BY DEF TypeOK, Values
<1>3. Flags /\ Values => TypeOK
  BY DEF TypeOK, Flags, Values
<1> QED  BY <1>1, <1>2, <1>3

\* Initially everything is at rest.
LEMMA TypeInit == Init => TypeOK
<1> SUFFICES ASSUME Init PROVE TypeOK
  OBVIOUS
<1>1. Values
  BY FunctionAssumption, Replies DEF Init, Values, Steps, WorkSteps, Kinds
<1>2. Flags
  BY DEF Init, Flags
<1> QED  BY <1>1, <1>2, TypeParts

\* Steps keep the Booleans.
LEMMA FlagsStep ==
  ASSUME Flags, [Next]_vars
  PROVE  Flags'
<1> USE DEF Flags, vars, hostVars, flagVars, usbVars, dataVars, workVars
<1>1. ASSUME NEW k \in Kinds, NewRequest(k) PROVE Flags'
  BY <1>1 DEF NewRequest
<1>2. ASSUME SetupRefuse PROVE Flags'
  BY <1>2 DEF SetupRefuse, Stall, Busy
<1>3. ASSUME NEW e \in {"ok", "failed"}, SetupGet(e) PROVE Flags'
  BY <1>3 DEF SetupGet, Stall, Busy
<1>4. ASSUME SetupSet PROVE Flags'
  BY <1>4 DEF SetupSet, Busy
<1>5. ASSUME OutData PROVE Flags'
  BY <1>5 DEF OutData
<1>6. ASSUME SetupReturn PROVE Flags'
  BY <1>6 DEF SetupReturn, Stall
<1>7. ASSUME OutDone PROVE Flags'
  BY <1>7 DEF OutDone
<1>8. ASSUME AskStatus PROVE Flags'
  BY <1>8 DEF AskStatus, DelayStatus
<1>9. ASSUME ReadStatus PROVE Flags'
  BY <1>9 DEF ReadStatus
<1>10. ASSUME UseStatus PROVE Flags'
  BY <1>10 DEF UseStatus, AfterStatus, ShouldRetry
<1>11. ASSUME Proceed PROVE Flags'
  BY <1>11 DEF Proceed
<1>12. ASSUME BulkDone PROVE Flags'
  BY <1>12 DEF BulkDone, BulkReceived
<1>13. ASSUME WorkStart PROVE Flags'
  BY <1>13, ZenonT(60) DEF WorkStart
<1>14. ASSUME WorkRead PROVE Flags'
  BY <1>14 DEF WorkRead, Task
<1>15. ASSUME WorkDisable PROVE Flags'
  BY <1>15, ZenonT(60) DEF WorkDisable
<1>16. ASSUME WorkDisabled PROVE Flags'
  BY <1>16, ZenonT(60) DEF WorkDisabled
<1>17. ASSUME WorkWrite PROVE Flags'
  BY <1>17 DEF WorkWrite
<1>18. ASSUME WorkWritten PROVE Flags'
  BY <1>18, ZenonT(60) DEF WorkWritten
<1>19. ASSUME NEW ok \in BOOLEAN, WorkCheck(ok) PROVE Flags'
  BY <1>19, ZenonT(60) DEF WorkCheck
<1>20. ASSUME NEW e \in {"busy", "failed"}, WorkSetBuffer(e) PROVE Flags'
  BY <1>20 DEF WorkSetBuffer, QueueBulk
<1>21. ASSUME WorkAnswer PROVE Flags'
  BY <1>21, ZenonT(60) DEF WorkAnswer, Answer
<1>22. ASSUME GiveUp PROVE Flags'
  BY <1>22 DEF GiveUp
<1>23. ASSUME BulkTimeout PROVE Flags'
  BY <1>23, ZenonT(60) DEF BulkTimeout, BulkReceived
<1>24. ASSUME Disable PROVE Flags'
  BY <1>24 DEF Disable, TellWorker
<1>25. ASSUME SetAlt PROVE Flags'
  BY <1>25 DEF SetAlt
<1>26. CASE UNCHANGED vars
  BY <1>26
<1> QED  BY <1>1, <1>2, <1>3, <1>4, <1>5, <1>6, <1>7, <1>8, <1>9, <1>10, <1>11,
   <1>12, <1>13, <1>14, <1>15, <1>16, <1>17, <1>18, <1>19, <1>20, <1>21, <1>22,
   <1>23, <1>24, <1>25, <1>26 DEF Next, HostStep, WorkStep, Finished

\* Steps keep the other types.
LEMMA ValuesStep ==
  ASSUME Values, [Next]_vars
  PROVE  Values'
<1> USE Replies, FunctionAssumption DEF Values, Steps, WorkSteps, Kinds, vars,
   hostVars, flagVars, usbVars, dataVars, workVars
<1>1. ASSUME NEW k \in Kinds, NewRequest(k) PROVE Values'
  <2>1. n + 1 \in Request /\ 0 \in 0..MaxRetries
    BY <1>1, FunctionAssumption DEF NewRequest, Values, Request
  <2>2. kinds' \in [1..MaxRequests -> Kinds]
    BY <1>1 DEF NewRequest, Values
  <2> QED  BY <1>1, <2>1, <2>2 DEF NewRequest, Values, Steps, vars, hostVars,
     flagVars, usbVars, dataVars, workVars
<1>2. ASSUME SetupRefuse PROVE Values'
  BY <1>2 DEF SetupRefuse, Stall, Busy
<1>3. ASSUME NEW e \in {"ok", "failed"}, SetupGet(e) PROVE Values'
  BY <1>3 DEF SetupGet, Stall, Busy
<1>4. ASSUME SetupSet PROVE Values'
  BY <1>4 DEF SetupSet, Busy
<1>5. ASSUME OutData PROVE Values'
  BY <1>5 DEF OutData
<1>6. ASSUME SetupReturn PROVE Values'
  BY <1>6 DEF SetupReturn, Stall
<1>7. ASSUME OutDone PROVE Values'
  BY <1>7 DEF OutDone
<1>8. ASSUME AskStatus PROVE Values'
  BY <1>8 DEF AskStatus, DelayStatus
<1>9. ASSUME ReadStatus PROVE Values'
  BY <1>9 DEF ReadStatus
<1>10. ASSUME UseStatus PROVE Values'
  BY <1>10 DEF UseStatus, AfterStatus, ShouldRetry
<1>11. ASSUME Proceed PROVE Values'
  BY <1>11 DEF Proceed
<1>12. ASSUME BulkDone PROVE Values'
  BY <1>12 DEF BulkDone, BulkReceived
<1>13. ASSUME WorkStart PROVE Values'
  BY <1>13 DEF WorkStart
<1>14. ASSUME WorkRead PROVE Values'
  BY <1>14 DEF WorkRead, Task
<1>15. ASSUME WorkDisable PROVE Values'
  BY <1>15 DEF WorkDisable
<1>16. ASSUME WorkDisabled PROVE Values'
  BY <1>16 DEF WorkDisabled
<1>17. ASSUME WorkWrite PROVE Values'
  BY <1>17 DEF WorkWrite
<1>18. ASSUME WorkWritten PROVE Values'
  BY <1>18 DEF WorkWritten
<1>19. ASSUME NEW ok \in BOOLEAN, WorkCheck(ok) PROVE Values'
  BY <1>19 DEF WorkCheck
<1>20. ASSUME NEW e \in {"busy", "failed"}, WorkSetBuffer(e) PROVE Values'
  BY <1>20 DEF WorkSetBuffer, QueueBulk
<1>21. ASSUME WorkAnswer PROVE Values'
  BY <1>21 DEF WorkAnswer, Answer
<1>22. ASSUME GiveUp PROVE Values'
  BY <1>22 DEF GiveUp
<1>23. ASSUME BulkTimeout PROVE Values'
  BY <1>23 DEF BulkTimeout, BulkReceived
<1>24. ASSUME Disable PROVE Values'
  BY <1>24 DEF Disable, TellWorker
<1>25. ASSUME SetAlt PROVE Values'
  BY <1>25 DEF SetAlt
<1>26. CASE UNCHANGED vars
  BY <1>26
<1> QED  BY <1>1, <1>2, <1>3, <1>4, <1>5, <1>6, <1>7, <1>8, <1>9, <1>10, <1>11,
   <1>12, <1>13, <1>14, <1>15, <1>16, <1>17, <1>18, <1>19, <1>20, <1>21, <1>22,
   <1>23, <1>24, <1>25, <1>26 DEF Next, HostStep, WorkStep, Finished

\* While the device is not configured no request is under way, and the worker
\* has still to disable the display's pipe, or has nothing to do but that.
ResetInv ==
  /\ work = "disabled" => ~pipe
  /\ irq => step = "out"
  /\ ~configured =>
       /\ step \in {"idle", "end"} /\ ~ctrlPending /\ ~bulkPending
       /\ \/ disablePending /\ (queued \/ work \in {"read", "disable"})
          \/ ~pipe /\ work \in {"idle", "read", "disable", "disabled"}

\* The worker disables the pipe after a reset, wherever it was.
LEMMA ResetStep ==
  ASSUME TypeOK, ResetInv, [Next]_vars
  PROVE  ResetInv'
<1> USE DEF TypeOK, ResetInv, vars, hostVars, flagVars, usbVars, dataVars,
   workVars
<1>1. ASSUME NEW k \in Kinds, NewRequest(k) PROVE ResetInv'
  BY <1>1 DEF NewRequest
<1>2. ASSUME SetupRefuse PROVE ResetInv'
  BY <1>2 DEF SetupRefuse, Stall, Busy
<1>3. ASSUME NEW e \in {"ok", "failed"}, SetupGet(e) PROVE ResetInv'
  BY <1>3 DEF SetupGet, Stall, Busy
<1>4. ASSUME SetupSet PROVE ResetInv'
  BY <1>4 DEF SetupSet, Busy
<1>5. ASSUME OutData PROVE ResetInv'
  BY <1>5 DEF OutData
<1>6. ASSUME SetupReturn PROVE ResetInv'
  BY <1>6 DEF SetupReturn, Stall
<1>7. ASSUME OutDone PROVE ResetInv'
  BY <1>7 DEF OutDone
<1>8. ASSUME AskStatus PROVE ResetInv'
  BY <1>8 DEF AskStatus, DelayStatus
<1>9. ASSUME ReadStatus PROVE ResetInv'
  BY <1>9 DEF ReadStatus
<1>10. ASSUME UseStatus PROVE ResetInv'
  BY <1>10 DEF UseStatus, AfterStatus, ShouldRetry
<1>11. ASSUME Proceed PROVE ResetInv'
  BY <1>11 DEF Proceed
<1>12. ASSUME BulkDone PROVE ResetInv'
  BY <1>12 DEF BulkDone, BulkReceived
<1>13. ASSUME WorkStart PROVE ResetInv'
  BY <1>13 DEF WorkStart
<1>14. ASSUME WorkRead PROVE ResetInv'
  BY <1>14 DEF WorkRead, Task
<1>15. ASSUME WorkDisable PROVE ResetInv'
  BY <1>15 DEF WorkDisable
<1>16. ASSUME WorkDisabled PROVE ResetInv'
  BY <1>16 DEF WorkDisabled
<1>17. ASSUME WorkWrite PROVE ResetInv'
  BY <1>17 DEF WorkWrite
<1>18. ASSUME WorkWritten PROVE ResetInv'
  BY <1>18 DEF WorkWritten
<1>19. ASSUME NEW ok \in BOOLEAN, WorkCheck(ok) PROVE ResetInv'
  BY <1>19 DEF WorkCheck
<1>20. ASSUME NEW e \in {"busy", "failed"}, WorkSetBuffer(e) PROVE ResetInv'
  BY <1>20 DEF WorkSetBuffer, QueueBulk
<1>21. ASSUME WorkAnswer PROVE ResetInv'
  BY <1>21 DEF WorkAnswer, Answer
<1>22. ASSUME GiveUp PROVE ResetInv'
  BY <1>22 DEF GiveUp
<1>23. ASSUME BulkTimeout PROVE ResetInv'
  BY <1>23 DEF BulkTimeout, BulkReceived
<1>24. ASSUME Disable PROVE ResetInv'
  BY <1>24 DEF Disable, TellWorker
<1>25. ASSUME SetAlt PROVE ResetInv'
  BY <1>25 DEF SetAlt
<1>26. CASE UNCHANGED vars
  BY <1>26
<1> QED  BY <1>1, <1>2, <1>3, <1>4, <1>5, <1>6, <1>7, <1>8, <1>9, <1>10, <1>11,
   <1>12, <1>13, <1>14, <1>15, <1>16, <1>17, <1>18, <1>19, <1>20, <1>21, <1>22,
   <1>23, <1>24, <1>25, <1>26 DEF Next, HostStep, WorkStep, Finished

-----------------------------------------------------------------------------
(* Requests and results, while no reset tears a request from the worker.   *)

\* The host of gud_pipe.c does not ask for the status of a stalled request.
StallInv == stalled => step \in {"idle", "end"}

\* A reset that is calm leaves no request and no transfer behind.
DownInv ==
  ~configured =>
    /\ step \in {"idle", "end"} /\ ~ctrlPending /\ ~bulkPending /\ ~statusPending
    /\ bulkQ = 0 /\ ep0 = "none" /\ ~irq /\ ~InHand

\* An accepted request, up to its status.
Acked == (step = "out" /\ ep0 = "ack") \/ step = "ask"
Ready == step = "wait" /\ ep0 = "status"

\* What the host's position says of the function.
AskInv ==
  /\ request <= n
  /\ irq => step = "out"
  /\ step = "out" => ~stalled /\ ep0 \in {"out", "ack"}
  /\ ~stalled /\ step \in {"out", "ask", "wait"} => request = n
  /\ ~stalled /\ step \in {"out", "ask"} => ~hostTimeout /\ ~statusPending
  /\ step = "out" /\ ep0 = "out" => ~ctrlPending
  /\ step = "out" /\ (ep0 = "out" \/ ctrlPending) => errno.err = "ok"
  /\ ~stalled /\ (step \in {"got", "bulk"} \/ Ready) => ~ctrlPending
  /\ ~stalled /\ step = "wait" /\ ctrlPending => statusPending
  /\ Ready => ~statusPending

\* What the worker's position says: from its read to its answer the request
\* stays the one it has read.
WorkInv ==
  /\ ctrlPending => bufOf = request
  /\ InHand => ctrlPending /\ wreq = request
  /\ work = "answer" => wret.of = wreq

\* The worker's last result travels to the host, whose newest request it is of.
Told(r) == r = wret /\ r.of = n
StatusInv ==
  ~stalled =>
    /\ Acked /\ ~ctrlPending => Told(errno)
    /\ Ready => Told(statusBuf)
    /\ step = "got" => Told(answer)

\* What is asked for was not executed yet, or found the gadget busy.
Fresh(r) == r > wret.of \/ (r = wret.of /\ wret.err = "busy")
FreshInv ==
  /\ wret.of <= n
  /\ wret.of = 0 => wret.err # "busy"
  /\ step = "setup" \/ (step = "out" /\ ep0 = "out") => Fresh(n)
  /\ ctrlPending /\ work # "answer" => Fresh(request)
  /\ ctrlPending /\ step = "setup" => request < n

\* Where a SET_BUFFER succeeded, bulk_req and the rectangle are its own.
Posted(r) == bulkQ = r /\ rect = r
BulkInv ==
  /\ work = "answer" /\ kinds[wreq] = "buffer" /\ wret.err = "ok" => Posted(wreq)
  /\ Acked /\ ~ctrlPending /\ kinds[n] = "buffer" /\ errno.err = "ok" => Posted(n)
  /\ Ready /\ kinds[n] = "buffer" /\ statusBuf.err = "ok" => Posted(n)
  /\ step = "got" /\ kinds[n] = "buffer" /\ answer.err = "ok" => Posted(n)
  /\ step = "bulk" => Posted(n)
  /\ work \in {"ctrl", "answer"} => ~bulkPending
  /\ bulkPending \/ work = "write" => payload = rect

\* A host that has never given up comes to the payload of what it has posted.
PatientInv ==
  ~gaveUp =>
    /\ ctrlPending => ~stalled /\ step \in {"out", "ask", "wait"}
    /\ statusPending => step = "wait"
    /\ bulkQ # 0 =>
         /\ bulkQ = n /\ kinds[n] = "buffer"
         /\ \/ work = "answer" /\ wret.err = "ok"
            \/ Acked /\ ~ctrlPending /\ errno.err = "ok"
            \/ Ready /\ statusBuf.err = "ok"
            \/ step = "got" /\ answer.err = "ok"
            \/ step = "bulk"

\* The bus may be reset while the worker has nothing in its hands.
LEMMA DownStep ==
  ASSUME TypeOK, ResetInv, DownInv, [Next /\ ~torn']_vars
  PROVE  DownInv'
<1> USE DEF TypeOK, ResetInv, DownInv, InHand, vars, hostVars, flagVars,
   usbVars, dataVars, workVars
<1>1. ASSUME NEW k \in Kinds, NewRequest(k) PROVE DownInv'
  BY <1>1 DEF NewRequest
<1>2. ASSUME SetupRefuse PROVE DownInv'
  BY <1>2 DEF SetupRefuse, Stall, Busy
<1>3. ASSUME NEW e \in {"ok", "failed"}, SetupGet(e) PROVE DownInv'
  BY <1>3 DEF SetupGet, Stall, Busy
<1>4. ASSUME SetupSet PROVE DownInv'
  BY <1>4 DEF SetupSet, Busy
<1>5. ASSUME OutData PROVE DownInv'
  BY <1>5 DEF OutData
<1>6. ASSUME SetupReturn PROVE DownInv'
  BY <1>6 DEF SetupReturn, Stall
<1>7. ASSUME OutDone PROVE DownInv'
  BY <1>7 DEF OutDone
<1>8. ASSUME AskStatus PROVE DownInv'
  BY <1>8 DEF AskStatus, DelayStatus
<1>9. ASSUME ReadStatus PROVE DownInv'
  BY <1>9 DEF ReadStatus
<1>10. ASSUME UseStatus PROVE DownInv'
  BY <1>10 DEF UseStatus, AfterStatus, ShouldRetry
<1>11. ASSUME Proceed PROVE DownInv'
  BY <1>11 DEF Proceed
<1>12. ASSUME BulkDone PROVE DownInv'
  BY <1>12 DEF BulkDone, BulkReceived
<1>13. ASSUME WorkStart PROVE DownInv'
  BY <1>13 DEF WorkStart
<1>14. ASSUME WorkRead PROVE DownInv'
  BY <1>14 DEF WorkRead, Task
<1>15. ASSUME WorkDisable PROVE DownInv'
  BY <1>15 DEF WorkDisable
<1>16. ASSUME WorkDisabled PROVE DownInv'
  BY <1>16 DEF WorkDisabled
<1>17. ASSUME WorkWrite PROVE DownInv'
  BY <1>17 DEF WorkWrite
<1>18. ASSUME WorkWritten PROVE DownInv'
  BY <1>18 DEF WorkWritten
<1>19. ASSUME NEW ok \in BOOLEAN, WorkCheck(ok) PROVE DownInv'
  BY <1>19 DEF WorkCheck
<1>20. ASSUME NEW e \in {"busy", "failed"}, WorkSetBuffer(e) PROVE DownInv'
  BY <1>20 DEF WorkSetBuffer, QueueBulk
<1>21. ASSUME WorkAnswer PROVE DownInv'
  BY <1>21 DEF WorkAnswer, Answer
<1>22. ASSUME GiveUp PROVE DownInv'
  BY <1>22 DEF GiveUp
<1>23. ASSUME BulkTimeout PROVE DownInv'
  BY <1>23 DEF BulkTimeout, BulkReceived
<1>24. ASSUME Disable, ~torn' PROVE DownInv'
  BY <1>24 DEF Disable, TellWorker
<1>25. ASSUME SetAlt PROVE DownInv'
  BY <1>25 DEF SetAlt
<1>26. CASE UNCHANGED vars
  BY <1>26
<1> QED  BY <1>1, <1>2, <1>3, <1>4, <1>5, <1>6, <1>7, <1>8, <1>9, <1>10, <1>11,
   <1>12, <1>13, <1>14, <1>15, <1>16, <1>17, <1>18, <1>19, <1>20, <1>21, <1>22,
   <1>23, <1>24, <1>25, <1>26 DEF Next, HostStep, WorkStep, Finished

\* The handler and the worker keep what the host relies on.
LEMMA AskStep ==
  ASSUME TypeOK, DownInv, AskInv, WorkInv, [Next /\ ~torn']_vars
  PROVE  AskInv'
<1> USE DEF TypeOK, DownInv, InHand, AskInv, WorkInv, Ready, Request, Reply,
   NoReply, vars, hostVars, flagVars, usbVars, dataVars, workVars
<1>1. ASSUME NEW k \in Kinds, NewRequest(k) PROVE AskInv'
  BY <1>1 DEF NewRequest
<1>2. ASSUME SetupRefuse PROVE AskInv'
  BY <1>2 DEF SetupRefuse, Stall, Busy
<1>3. ASSUME NEW e \in {"ok", "failed"}, SetupGet(e) PROVE AskInv'
  BY <1>3 DEF SetupGet, Stall, Busy
<1>4. ASSUME SetupSet PROVE AskInv'
  BY <1>4 DEF SetupSet, Busy
<1>5. ASSUME OutData PROVE AskInv'
  BY <1>5 DEF OutData
<1>6. ASSUME SetupReturn PROVE AskInv'
  BY <1>6 DEF SetupReturn, Stall
<1>7. ASSUME OutDone PROVE AskInv'
  BY <1>7 DEF OutDone
<1>8. ASSUME AskStatus PROVE AskInv'
  BY <1>8 DEF AskStatus, DelayStatus
<1>9. ASSUME ReadStatus PROVE AskInv'
  BY <1>9 DEF ReadStatus
<1>10. ASSUME UseStatus PROVE AskInv'
  BY <1>10 DEF UseStatus, AfterStatus, ShouldRetry
<1>11. ASSUME Proceed PROVE AskInv'
  BY <1>11 DEF Proceed
<1>12. ASSUME BulkDone PROVE AskInv'
  BY <1>12 DEF BulkDone, BulkReceived
<1>13. ASSUME WorkStart PROVE AskInv'
  BY <1>13 DEF WorkStart
<1>14. ASSUME WorkRead PROVE AskInv'
  BY <1>14 DEF WorkRead, Task
<1>15. ASSUME WorkDisable PROVE AskInv'
  BY <1>15 DEF WorkDisable
<1>16. ASSUME WorkDisabled PROVE AskInv'
  BY <1>16 DEF WorkDisabled
<1>17. ASSUME WorkWrite PROVE AskInv'
  BY <1>17 DEF WorkWrite
<1>18. ASSUME WorkWritten PROVE AskInv'
  BY <1>18 DEF WorkWritten
<1>19. ASSUME NEW ok \in BOOLEAN, WorkCheck(ok) PROVE AskInv'
  BY <1>19 DEF WorkCheck
<1>20. ASSUME NEW e \in {"busy", "failed"}, WorkSetBuffer(e) PROVE AskInv'
  BY <1>20 DEF WorkSetBuffer, QueueBulk
<1>21. ASSUME WorkAnswer PROVE AskInv'
  BY <1>21 DEF WorkAnswer, Answer
<1>22. ASSUME GiveUp PROVE AskInv'
  BY <1>22 DEF GiveUp
<1>23. ASSUME BulkTimeout PROVE AskInv'
  BY <1>23 DEF BulkTimeout, BulkReceived
<1>24. ASSUME Disable, ~torn' PROVE AskInv'
  BY <1>24 DEF Disable, TellWorker
<1>25. ASSUME SetAlt PROVE AskInv'
  BY <1>25 DEF SetAlt
<1>26. CASE UNCHANGED vars
  BY <1>26
<1> QED  BY <1>1, <1>2, <1>3, <1>4, <1>5, <1>6, <1>7, <1>8, <1>9, <1>10, <1>11,
   <1>12, <1>13, <1>14, <1>15, <1>16, <1>17, <1>18, <1>19, <1>20, <1>21, <1>22,
   <1>23, <1>24, <1>25, <1>26 DEF Next, HostStep, WorkStep, Finished

\* The setup handler leaves a request alone while the worker has it.
LEMMA WorkStepKeeps ==
  ASSUME TypeOK, DownInv, AskInv, WorkInv, [Next /\ ~torn']_vars
  PROVE  WorkInv'
<1> USE DEF TypeOK, DownInv, InHand, AskInv, WorkInv, Ready, Reply, vars,
   hostVars, flagVars, usbVars, dataVars, workVars
<1>1. ASSUME NEW k \in Kinds, NewRequest(k) PROVE WorkInv'
  BY <1>1 DEF NewRequest
<1>2. ASSUME SetupRefuse PROVE WorkInv'
  BY <1>2 DEF SetupRefuse, Stall, Busy
<1>3. ASSUME NEW e \in {"ok", "failed"}, SetupGet(e) PROVE WorkInv'
  BY <1>3 DEF SetupGet, Stall, Busy
<1>4. ASSUME SetupSet PROVE WorkInv'
  BY <1>4 DEF SetupSet, Busy
<1>5. ASSUME OutData PROVE WorkInv'
  BY <1>5 DEF OutData
<1>6. ASSUME SetupReturn PROVE WorkInv'
  BY <1>6 DEF SetupReturn, Stall
<1>7. ASSUME OutDone PROVE WorkInv'
  BY <1>7 DEF OutDone
<1>8. ASSUME AskStatus PROVE WorkInv'
  BY <1>8 DEF AskStatus, DelayStatus
<1>9. ASSUME ReadStatus PROVE WorkInv'
  BY <1>9 DEF ReadStatus
<1>10. ASSUME UseStatus PROVE WorkInv'
  BY <1>10 DEF UseStatus, AfterStatus, ShouldRetry
<1>11. ASSUME Proceed PROVE WorkInv'
  BY <1>11 DEF Proceed
<1>12. ASSUME BulkDone PROVE WorkInv'
  BY <1>12 DEF BulkDone, BulkReceived
<1>13. ASSUME WorkStart PROVE WorkInv'
  BY <1>13 DEF WorkStart
<1>14. ASSUME WorkRead PROVE WorkInv'
  BY <1>14 DEF WorkRead, Task
<1>15. ASSUME WorkDisable PROVE WorkInv'
  BY <1>15 DEF WorkDisable
<1>16. ASSUME WorkDisabled PROVE WorkInv'
  BY <1>16 DEF WorkDisabled
<1>17. ASSUME WorkWrite PROVE WorkInv'
  BY <1>17 DEF WorkWrite
<1>18. ASSUME WorkWritten PROVE WorkInv'
  BY <1>18 DEF WorkWritten
<1>19. ASSUME NEW ok \in BOOLEAN, WorkCheck(ok) PROVE WorkInv'
  BY <1>19 DEF WorkCheck
<1>20. ASSUME NEW e \in {"busy", "failed"}, WorkSetBuffer(e) PROVE WorkInv'
  BY <1>20 DEF WorkSetBuffer, QueueBulk
<1>21. ASSUME WorkAnswer PROVE WorkInv'
  BY <1>21 DEF WorkAnswer, Answer
<1>22. ASSUME GiveUp PROVE WorkInv'
  BY <1>22 DEF GiveUp
<1>23. ASSUME BulkTimeout PROVE WorkInv'
  BY <1>23 DEF BulkTimeout, BulkReceived
<1>24. ASSUME Disable, ~torn' PROVE WorkInv'
  BY <1>24 DEF Disable, TellWorker
<1>25. ASSUME SetAlt PROVE WorkInv'
  BY <1>25 DEF SetAlt
<1>26. CASE UNCHANGED vars
  BY <1>26
<1> QED  BY <1>1, <1>2, <1>3, <1>4, <1>5, <1>6, <1>7, <1>8, <1>9, <1>10, <1>11,
   <1>12, <1>13, <1>14, <1>15, <1>16, <1>17, <1>18, <1>19, <1>20, <1>21, <1>22,
   <1>23, <1>24, <1>25, <1>26 DEF Next, HostStep, WorkStep, Finished

\* A result is handed on as it is.
LEMMA StatusStep ==
  ASSUME TypeOK, DownInv, AskInv, WorkInv, StatusInv, [Next /\ ~torn']_vars
  PROVE  StatusInv'
<1> USE DEF TypeOK, DownInv, InHand, AskInv, WorkInv, StatusInv, Told, Acked,
   Ready, Reply, NoReply, vars, hostVars, flagVars, usbVars, dataVars, workVars
<1>1. ASSUME NEW k \in Kinds, NewRequest(k) PROVE StatusInv'
  BY <1>1 DEF NewRequest
<1>2. ASSUME SetupRefuse PROVE StatusInv'
  BY <1>2 DEF SetupRefuse, Stall, Busy
<1>3. ASSUME NEW e \in {"ok", "failed"}, SetupGet(e) PROVE StatusInv'
  BY <1>3 DEF SetupGet, Stall, Busy
<1>4. ASSUME SetupSet PROVE StatusInv'
  BY <1>4 DEF SetupSet, Busy
<1>5. ASSUME OutData PROVE StatusInv'
  BY <1>5 DEF OutData
<1>6. ASSUME SetupReturn PROVE StatusInv'
  BY <1>6 DEF SetupReturn, Stall
<1>7. ASSUME OutDone PROVE StatusInv'
  BY <1>7 DEF OutDone
<1>8. ASSUME AskStatus PROVE StatusInv'
  BY <1>8 DEF AskStatus, DelayStatus
<1>9. ASSUME ReadStatus PROVE StatusInv'
  BY <1>9 DEF ReadStatus
<1>10. ASSUME UseStatus PROVE StatusInv'
  BY <1>10 DEF UseStatus, AfterStatus, ShouldRetry
<1>11. ASSUME Proceed PROVE StatusInv'
  BY <1>11 DEF Proceed
<1>12. ASSUME BulkDone PROVE StatusInv'
  BY <1>12 DEF BulkDone, BulkReceived
<1>13. ASSUME WorkStart PROVE StatusInv'
  BY <1>13 DEF WorkStart
<1>14. ASSUME WorkRead PROVE StatusInv'
  BY <1>14 DEF WorkRead, Task
<1>15. ASSUME WorkDisable PROVE StatusInv'
  BY <1>15 DEF WorkDisable
<1>16. ASSUME WorkDisabled PROVE StatusInv'
  BY <1>16 DEF WorkDisabled
<1>17. ASSUME WorkWrite PROVE StatusInv'
  BY <1>17 DEF WorkWrite
<1>18. ASSUME WorkWritten PROVE StatusInv'
  BY <1>18 DEF WorkWritten
<1>19. ASSUME NEW ok \in BOOLEAN, WorkCheck(ok) PROVE StatusInv'
  BY <1>19 DEF WorkCheck
<1>20. ASSUME NEW e \in {"busy", "failed"}, WorkSetBuffer(e) PROVE StatusInv'
  BY <1>20 DEF WorkSetBuffer, QueueBulk
<1>21. ASSUME WorkAnswer PROVE StatusInv'
  BY <1>21 DEF WorkAnswer, Answer
<1>22. ASSUME GiveUp PROVE StatusInv'
  BY <1>22 DEF GiveUp
<1>23. ASSUME BulkTimeout PROVE StatusInv'
  BY <1>23 DEF BulkTimeout, BulkReceived
<1>24. ASSUME Disable, ~torn' PROVE StatusInv'
  BY <1>24 DEF Disable, TellWorker
<1>25. ASSUME SetAlt PROVE StatusInv'
  BY <1>25 DEF SetAlt
<1>26. CASE UNCHANGED vars
  BY <1>26
<1> QED  BY <1>1, <1>2, <1>3, <1>4, <1>5, <1>6, <1>7, <1>8, <1>9, <1>10, <1>11,
   <1>12, <1>13, <1>14, <1>15, <1>16, <1>17, <1>18, <1>19, <1>20, <1>21, <1>22,
   <1>23, <1>24, <1>25, <1>26 DEF Next, HostStep, WorkStep, Finished

\* Only a request whose result was "busy" is made again.
LEMMA FreshStep ==
  ASSUME ~StatusOnStall, TypeOK, DownInv, AskInv, WorkInv, StatusInv, StallInv, FreshInv, [Next /\ ~torn']_vars
  PROVE  FreshInv'
<1> USE DEF TypeOK, DownInv, InHand, AskInv, WorkInv, StatusInv, StallInv, Told,
   Acked, Ready, FreshInv, Fresh, Request, Result, Reply, NoReply, vars,
   hostVars, flagVars, usbVars, dataVars, workVars
<1>1. ASSUME NEW k \in Kinds, NewRequest(k) PROVE FreshInv'
  BY <1>1 DEF NewRequest
<1>2. ASSUME SetupRefuse PROVE FreshInv'
  BY <1>2 DEF SetupRefuse, Stall, Busy
<1>3. ASSUME NEW e \in {"ok", "failed"}, SetupGet(e) PROVE FreshInv'
  BY <1>3 DEF SetupGet, Stall, Busy
<1>4. ASSUME SetupSet PROVE FreshInv'
  BY <1>4 DEF SetupSet, Busy
<1>5. ASSUME OutData PROVE FreshInv'
  BY <1>5 DEF OutData
<1>6. ASSUME SetupReturn PROVE FreshInv'
  BY <1>6 DEF SetupReturn, Stall
<1>7. ASSUME OutDone PROVE FreshInv'
  BY <1>7 DEF OutDone
<1>8. ASSUME AskStatus PROVE FreshInv'
  BY <1>8 DEF AskStatus, DelayStatus
<1>9. ASSUME ReadStatus PROVE FreshInv'
  BY <1>9 DEF ReadStatus
<1>10. ASSUME UseStatus PROVE FreshInv'
  BY <1>10 DEF UseStatus, AfterStatus, ShouldRetry
<1>11. ASSUME Proceed PROVE FreshInv'
  BY <1>11 DEF Proceed
<1>12. ASSUME BulkDone PROVE FreshInv'
  BY <1>12 DEF BulkDone, BulkReceived
<1>13. ASSUME WorkStart PROVE FreshInv'
  BY <1>13 DEF WorkStart
<1>14. ASSUME WorkRead PROVE FreshInv'
  BY <1>14 DEF WorkRead, Task
<1>15. ASSUME WorkDisable PROVE FreshInv'
  BY <1>15 DEF WorkDisable
<1>16. ASSUME WorkDisabled PROVE FreshInv'
  BY <1>16 DEF WorkDisabled
<1>17. ASSUME WorkWrite PROVE FreshInv'
  BY <1>17 DEF WorkWrite
<1>18. ASSUME WorkWritten PROVE FreshInv'
  BY <1>18 DEF WorkWritten
<1>19. ASSUME NEW ok \in BOOLEAN, WorkCheck(ok) PROVE FreshInv'
  BY <1>19 DEF WorkCheck
<1>20. ASSUME NEW e \in {"busy", "failed"}, WorkSetBuffer(e) PROVE FreshInv'
  BY <1>20 DEF WorkSetBuffer, QueueBulk
<1>21. ASSUME WorkAnswer PROVE FreshInv'
  BY <1>21 DEF WorkAnswer, Answer
<1>22. ASSUME GiveUp PROVE FreshInv'
  BY <1>22 DEF GiveUp
<1>23. ASSUME BulkTimeout PROVE FreshInv'
  BY <1>23 DEF BulkTimeout, BulkReceived
<1>24. ASSUME Disable, ~torn' PROVE FreshInv'
  BY <1>24 DEF Disable, TellWorker
<1>25. ASSUME SetAlt PROVE FreshInv'
  BY <1>25 DEF SetAlt
<1>26. CASE UNCHANGED vars
  BY <1>26
<1> QED  BY <1>1, <1>2, <1>3, <1>4, <1>5, <1>6, <1>7, <1>8, <1>9, <1>10, <1>11,
   <1>12, <1>13, <1>14, <1>15, <1>16, <1>17, <1>18, <1>19, <1>20, <1>21, <1>22,
   <1>23, <1>24, <1>25, <1>26 DEF Next, HostStep, WorkStep, Finished

\* The host of gud_pipe.c leaves a stalled request at that.
LEMMA StallStep ==
  ASSUME ~StatusOnStall, TypeOK, AskInv, StallInv, [Next /\ ~torn']_vars
  PROVE  StallInv'
<1> USE DEF StallInv, AskInv, vars, hostVars, flagVars, usbVars, dataVars,
   workVars
<1>1. ASSUME NEW k \in Kinds, NewRequest(k) PROVE StallInv'
  BY <1>1 DEF NewRequest
<1>2. ASSUME SetupRefuse PROVE StallInv'
  BY <1>2 DEF SetupRefuse, Stall, Busy
<1>3. ASSUME NEW e \in {"ok", "failed"}, SetupGet(e) PROVE StallInv'
  BY <1>3 DEF SetupGet, Stall, Busy
<1>4. ASSUME SetupSet PROVE StallInv'
  BY <1>4 DEF SetupSet, Busy
<1>5. ASSUME OutData PROVE StallInv'
  BY <1>5 DEF OutData
<1>6. ASSUME SetupReturn PROVE StallInv'
  BY <1>6 DEF SetupReturn, Stall
<1>7. ASSUME OutDone PROVE StallInv'
  BY <1>7 DEF OutDone
<1>8. ASSUME AskStatus PROVE StallInv'
  BY <1>8 DEF AskStatus, DelayStatus
<1>9. ASSUME ReadStatus PROVE StallInv'
  BY <1>9 DEF ReadStatus
<1>10. ASSUME UseStatus PROVE StallInv'
  BY <1>10 DEF UseStatus, AfterStatus, ShouldRetry
<1>11. ASSUME Proceed PROVE StallInv'
  BY <1>11 DEF Proceed
<1>12. ASSUME BulkDone PROVE StallInv'
  BY <1>12 DEF BulkDone, BulkReceived
<1>13. ASSUME WorkStart PROVE StallInv'
  BY <1>13 DEF WorkStart
<1>14. ASSUME WorkRead PROVE StallInv'
  BY <1>14 DEF WorkRead, Task
<1>15. ASSUME WorkDisable PROVE StallInv'
  BY <1>15 DEF WorkDisable
<1>16. ASSUME WorkDisabled PROVE StallInv'
  BY <1>16 DEF WorkDisabled
<1>17. ASSUME WorkWrite PROVE StallInv'
  BY <1>17 DEF WorkWrite
<1>18. ASSUME WorkWritten PROVE StallInv'
  BY <1>18 DEF WorkWritten
<1>19. ASSUME NEW ok \in BOOLEAN, WorkCheck(ok) PROVE StallInv'
  BY <1>19 DEF WorkCheck
<1>20. ASSUME NEW e \in {"busy", "failed"}, WorkSetBuffer(e) PROVE StallInv'
  BY <1>20 DEF WorkSetBuffer, QueueBulk
<1>21. ASSUME WorkAnswer PROVE StallInv'
  BY <1>21 DEF WorkAnswer, Answer
<1>22. ASSUME GiveUp PROVE StallInv'
  BY <1>22 DEF GiveUp
<1>23. ASSUME BulkTimeout PROVE StallInv'
  BY <1>23 DEF BulkTimeout, BulkReceived
<1>24. ASSUME Disable, ~torn' PROVE StallInv'
  BY <1>24 DEF Disable, TellWorker
<1>25. ASSUME SetAlt PROVE StallInv'
  BY <1>25 DEF SetAlt
<1>26. CASE UNCHANGED vars
  BY <1>26
<1> QED  BY <1>1, <1>2, <1>3, <1>4, <1>5, <1>6, <1>7, <1>8, <1>9, <1>10, <1>11,
   <1>12, <1>13, <1>14, <1>15, <1>16, <1>17, <1>18, <1>19, <1>20, <1>21, <1>22,
   <1>23, <1>24, <1>25, <1>26 DEF Next, HostStep, WorkStep, Finished

\* A result without an error is that of a SET_BUFFER that was posted.
LEMMA BulkStep ==
  ASSUME ~StatusOnStall, TypeOK, DownInv, AskInv, WorkInv, StallInv, BulkInv, [Next /\ ~torn']_vars
  PROVE  BulkInv'
<1> USE DEF TypeOK, DownInv, InHand, AskInv, WorkInv, StallInv, BulkInv, Posted,
   Acked, Ready, Request, Result, Reply, NoReply, vars, hostVars, flagVars,
   usbVars, dataVars, workVars
<1>1. ASSUME NEW k \in Kinds, NewRequest(k) PROVE BulkInv'
  BY <1>1 DEF NewRequest
<1>2. ASSUME SetupRefuse PROVE BulkInv'
  BY <1>2 DEF SetupRefuse, Stall, Busy
<1>3. ASSUME NEW e \in {"ok", "failed"}, SetupGet(e) PROVE BulkInv'
  BY <1>3 DEF SetupGet, Stall, Busy
<1>4. ASSUME SetupSet PROVE BulkInv'
  BY <1>4 DEF SetupSet, Busy
<1>5. ASSUME OutData PROVE BulkInv'
  BY <1>5 DEF OutData
<1>6. ASSUME SetupReturn PROVE BulkInv'
  BY <1>6 DEF SetupReturn, Stall
<1>7. ASSUME OutDone PROVE BulkInv'
  BY <1>7 DEF OutDone
<1>8. ASSUME AskStatus PROVE BulkInv'
  BY <1>8 DEF AskStatus, DelayStatus
<1>9. ASSUME ReadStatus PROVE BulkInv'
  BY <1>9 DEF ReadStatus
<1>10. ASSUME UseStatus PROVE BulkInv'
  BY <1>10 DEF UseStatus, AfterStatus, ShouldRetry
<1>11. ASSUME Proceed PROVE BulkInv'
  BY <1>11 DEF Proceed
<1>12. ASSUME BulkDone PROVE BulkInv'
  BY <1>12 DEF BulkDone, BulkReceived
<1>13. ASSUME WorkStart PROVE BulkInv'
  BY <1>13 DEF WorkStart
<1>14. ASSUME WorkRead PROVE BulkInv'
  BY <1>14 DEF WorkRead, Task
<1>15. ASSUME WorkDisable PROVE BulkInv'
  BY <1>15 DEF WorkDisable
<1>16. ASSUME WorkDisabled PROVE BulkInv'
  BY <1>16 DEF WorkDisabled
<1>17. ASSUME WorkWrite PROVE BulkInv'
  BY <1>17 DEF WorkWrite
<1>18. ASSUME WorkWritten PROVE BulkInv'
  BY <1>18 DEF WorkWritten
<1>19. ASSUME NEW ok \in BOOLEAN, WorkCheck(ok) PROVE BulkInv'
  BY <1>19 DEF WorkCheck
<1>20. ASSUME NEW e \in {"busy", "failed"}, WorkSetBuffer(e) PROVE BulkInv'
  BY <1>20 DEF WorkSetBuffer, QueueBulk
<1>21. ASSUME WorkAnswer PROVE BulkInv'
  BY <1>21 DEF WorkAnswer, Answer
<1>22. ASSUME GiveUp PROVE BulkInv'
  BY <1>22 DEF GiveUp
<1>23. ASSUME BulkTimeout PROVE BulkInv'
  BY <1>23 DEF BulkTimeout, BulkReceived
<1>24. ASSUME Disable, ~torn' PROVE BulkInv'
  BY <1>24 DEF Disable, TellWorker
<1>25. ASSUME SetAlt PROVE BulkInv'
  BY <1>25 DEF SetAlt
<1>26. CASE UNCHANGED vars
  BY <1>26
<1> QED  BY <1>1, <1>2, <1>3, <1>4, <1>5, <1>6, <1>7, <1>8, <1>9, <1>10, <1>11,
   <1>12, <1>13, <1>14, <1>15, <1>16, <1>17, <1>18, <1>19, <1>20, <1>21, <1>22,
   <1>23, <1>24, <1>25, <1>26 DEF Next, HostStep, WorkStep, Finished

\* A host that waits uses what it has posted.
LEMMA PatientStep ==
  ASSUME TypeOK, DownInv, AskInv, WorkInv, PatientInv, [Next /\ ~torn']_vars
  PROVE  PatientInv'
<1> USE DEF TypeOK, DownInv, InHand, AskInv, WorkInv, PatientInv, Acked, Ready,
   Request, Result, Reply, NoReply, vars, hostVars, flagVars, usbVars, dataVars,
   workVars
<1>1. ASSUME NEW k \in Kinds, NewRequest(k) PROVE PatientInv'
  BY <1>1 DEF NewRequest
<1>2. ASSUME SetupRefuse PROVE PatientInv'
  BY <1>2 DEF SetupRefuse, Stall, Busy
<1>3. ASSUME NEW e \in {"ok", "failed"}, SetupGet(e) PROVE PatientInv'
  BY <1>3 DEF SetupGet, Stall, Busy
<1>4. ASSUME SetupSet PROVE PatientInv'
  BY <1>4 DEF SetupSet, Busy
<1>5. ASSUME OutData PROVE PatientInv'
  BY <1>5 DEF OutData
<1>6. ASSUME SetupReturn PROVE PatientInv'
  BY <1>6 DEF SetupReturn, Stall
<1>7. ASSUME OutDone PROVE PatientInv'
  BY <1>7 DEF OutDone
<1>8. ASSUME AskStatus PROVE PatientInv'
  BY <1>8 DEF AskStatus, DelayStatus
<1>9. ASSUME ReadStatus PROVE PatientInv'
  BY <1>9 DEF ReadStatus
<1>10. ASSUME UseStatus PROVE PatientInv'
  BY <1>10 DEF UseStatus, AfterStatus, ShouldRetry
<1>11. ASSUME Proceed PROVE PatientInv'
  BY <1>11 DEF Proceed
<1>12. ASSUME BulkDone PROVE PatientInv'
  BY <1>12 DEF BulkDone, BulkReceived
<1>13. ASSUME WorkStart PROVE PatientInv'
  BY <1>13 DEF WorkStart
<1>14. ASSUME WorkRead PROVE PatientInv'
  BY <1>14 DEF WorkRead, Task
<1>15. ASSUME WorkDisable PROVE PatientInv'
  BY <1>15 DEF WorkDisable
<1>16. ASSUME WorkDisabled PROVE PatientInv'
  BY <1>16 DEF WorkDisabled
<1>17. ASSUME WorkWrite PROVE PatientInv'
  BY <1>17 DEF WorkWrite
<1>18. ASSUME WorkWritten PROVE PatientInv'
  BY <1>18 DEF WorkWritten
<1>19. ASSUME NEW ok \in BOOLEAN, WorkCheck(ok) PROVE PatientInv'
  BY <1>19 DEF WorkCheck
<1>20. ASSUME NEW e \in {"busy", "failed"}, WorkSetBuffer(e) PROVE PatientInv'
  BY <1>20 DEF WorkSetBuffer, QueueBulk
<1>21. ASSUME WorkAnswer PROVE PatientInv'
  BY <1>21 DEF WorkAnswer, Answer
<1>22. ASSUME GiveUp PROVE PatientInv'
  BY <1>22 DEF GiveUp
<1>23. ASSUME BulkTimeout PROVE PatientInv'
  BY <1>23 DEF BulkTimeout, BulkReceived
<1>24. ASSUME Disable, ~torn' PROVE PatientInv'
  BY <1>24 DEF Disable, TellWorker
<1>25. ASSUME SetAlt PROVE PatientInv'
  BY <1>25 DEF SetAlt
<1>26. CASE UNCHANGED vars
  BY <1>26
<1> QED  BY <1>1, <1>2, <1>3, <1>4, <1>5, <1>6, <1>7, <1>8, <1>9, <1>10, <1>11,
   <1>12, <1>13, <1>14, <1>15, <1>16, <1>17, <1>18, <1>19, <1>20, <1>21, <1>22,
   <1>23, <1>24, <1>25, <1>26 DEF Next, HostStep, WorkStep, Finished

-----------------------------------------------------------------------------
(* The theorems.                                                            *)

\* Types are kept, and so is what a reset leaves behind,
LEMMA TypeStep ==
  ASSUME TypeOK, [Next]_vars
  PROVE  TypeOK'
<1>1. Flags' /\ Values'
  BY TypeParts, FlagsStep, ValuesStep
<1>2. Flags' /\ Values' => TypeOK'
  BY TypeParts, PTL
<1> QED  BY <1>1, <1>2

LEMMA Always == Spec => [](TypeOK /\ ResetInv)
<1>1. Init => TypeOK /\ ResetInv
  BY TypeInit DEF Init, ResetInv
<1>2. TypeOK /\ ResetInv /\ [Next]_vars => (TypeOK /\ ResetInv)'
  BY TypeStep, ResetStep
<1> QED  BY <1>1, <1>2, PTL DEF Spec

Inv == TypeOK /\ ResetInv /\ DownInv /\ AskInv /\ WorkInv /\ StatusInv /\ PatientInv

\* and if no reset tears a request from the worker, also whose data is whose.
LEMMA AlwaysCalm == CalmSpec => []Inv
<1>1. Init => Inv
  <2>1. Init => TypeOK /\ ResetInv /\ DownInv
    BY TypeInit DEF Init, ResetInv, DownInv
  <2>2. Init => AskInv /\ WorkInv
    BY DEF Init, AskInv, WorkInv, Ready, InHand
  <2>3. Init => StatusInv /\ PatientInv
    BY DEF Init, StatusInv, PatientInv, Acked, Ready
  <2> QED  BY <2>1, <2>2, <2>3 DEF Inv
<1>2. Inv /\ [Next /\ ~torn']_vars => Inv'
  <2> SUFFICES ASSUME Inv, [Next /\ ~torn']_vars PROVE Inv'
    OBVIOUS
  <2>1. TypeOK /\ ResetInv /\ DownInv /\ AskInv /\ WorkInv /\ StatusInv /\ PatientInv
    BY DEF Inv
  <2>2. TypeOK' /\ ResetInv'
    BY <2>1, TypeStep, ResetStep
  <2>3. DownInv' /\ AskInv' /\ WorkInv' /\ StatusInv' /\ PatientInv'
    BY <2>1, DownStep, AskStep, WorkStepKeeps, StatusStep, PatientStep
  <2> QED  BY <2>2, <2>3 DEF Inv
<1> QED  BY <1>1, <1>2, PTL DEF CalmSpec

Inv2 == Inv /\ StallInv /\ FreshInv /\ BulkInv

\* With the host of gud_pipe.c, also what becomes of each request.
LEMMA AlwaysServed ==
  ASSUME ~StatusOnStall
  PROVE  CalmSpec => []Inv2
<1>1. Init => StallInv /\ FreshInv
  BY DEF Init, StallInv, FreshInv, NoReply, Reply
<1>2. Init => BulkInv
  BY DEF Init, BulkInv, Acked, Ready
<1>3. Inv /\ StallInv /\ FreshInv /\ BulkInv /\ [Next /\ ~torn']_vars
        => StallInv' /\ FreshInv' /\ BulkInv'
  BY StallStep, FreshStep, BulkStep DEF Inv
<1> QED  BY <1>1, <1>2, <1>3, AlwaysCalm, PTL DEF CalmSpec, Inv2

\* Every variable has its type, whatever the host and the bus do.
THEOREM TypeCorrect == Spec => []TypeOK
  BY Always, PTL

\* f_gud_disable and f_gud_worker: once the worker rests after a reset the
\* display has no buffer, wherever the worker was when the reset came, and after
\* any number of resets.
THEOREM ResetDisables == Spec => []DisableIsFinal
<1>1. ResetInv => DisableIsFinal
  BY DEF ResetInv, DisableIsFinal
<1> QED  BY <1>1, Always, PTL

\* f_gud_setup refuses a request while the worker has another one, or a status
\* is awaited; so no status is that of a request the host gave up on.
THEOREM StatusBelongs == CalmSpec => []StatusIsOwn
<1>1. Inv => StatusIsOwn
  BY DEF Inv, StatusInv, Told, StatusIsOwn
<1> QED  BY <1>1, AlwaysCalm, PTL

\* ctrl_req->buf is not written while the worker reads it without the lock.
THEOREM RequestDataIsStable == CalmSpec => []BufferIsStable
<1>1. Inv => BufferIsStable
  BY DEF Inv, WorkInv, InHand, BufferIsStable
<1> QED  BY <1>1, AlwaysCalm, PTL

\* The refusal of bulk_req (-EBUSY), which the host's retries are for, is only
\* met by a host that gave up earlier.
THEOREM RequeueOnlyAfterGivingUp == CalmSpec => []RequeueNeedsTimeout
<1>1. Inv => RequeueNeedsTimeout
  BY DEF Inv, AskInv, WorkInv, InHand, PatientInv, Acked, Ready, RequeueNeedsTimeout
<1> QED  BY <1>1, AlwaysCalm, PTL

\* A status without an error is a promise: bulk_req is queued for this request
\* and its rectangle is in place when the host sends the payload.
THEOREM PayloadIsExpected ==
  ASSUME ~StatusOnStall
  PROVE  CalmSpec => []BulkIsExpected
<1>1. Inv2 => BulkIsExpected
  BY DEF Inv2, BulkInv, Posted, BulkIsExpected
<1> QED  BY <1>1, AlwaysServed, PTL

\* gud_gadget_write_buffer writes a payload to the rectangle that was announced
\* for it: the worker writes before it executes the next SET_BUFFER.
THEOREM PayloadGoesToItsRect ==
  ASSUME ~StatusOnStall
  PROVE  CalmSpec => []PayloadFitsRect
<1>1. Inv2 => PayloadFitsRect
  BY DEF Inv2, BulkInv, PayloadFitsRect
<1> QED  BY <1>1, AlwaysServed, PTL

\* Setup handler and worker implement RequestServer: each request is executed
\* at most once, in order, and the host is told the result of its own.
THEOREM RequestsAreServed ==
  ASSUME ~StatusOnStall
  PROVE  CalmSpec => RequestSpec
<1>1. Init => Server!Init
  BY DEF Init, Server!Init, Reply, NoReply
<1>2. ASSUME Inv2, [Next /\ ~torn']_vars PROVE [Server!Next]_(Server!vars)
  <2> USE DEF vars, hostVars, flagVars, usbVars, dataVars, workVars, Server!vars
  <2>1. TypeOK /\ AskInv /\ WorkInv /\ StatusInv /\ StallInv /\ FreshInv
    BY <1>2 DEF Inv2, Inv
  <2>2. ASSUME NEW k \in Kinds, NewRequest(k) PROVE Server!Ask
    BY <2>2 DEF NewRequest, Server!Ask
  <2>3. ASSUME ReadStatus PROVE Server!Tell
    BY <2>1, <2>3 DEF ReadStatus, Server!Tell, StatusInv, StallInv, Told, Ready
  <2>4. ASSUME NEW e \in Errnos, work = "ctrl", wret' = Reply(wreq, e),
               UNCHANGED <<n, answer>>
        PROVE  Server!Execute
    <3>1. Fresh(wreq) /\ wreq <= n
      BY <2>1, <2>4 DEF InHand, WorkInv, AskInv, FreshInv
    <3>2. wreq \in Nat /\ wret.of \in Nat /\ n \in Nat
      BY <2>1, FunctionAssumption DEF TypeOK, Request, Result
    <3>3. Server!MayExecute(wreq)
      BY <3>1, <3>2 DEF Server!MayExecute, Fresh
    <3>4. wreq \in 1..n
      BY <2>1, <3>1, <3>2 DEF FreshInv, Fresh
    <3> QED  BY <2>4, <3>3, <3>4 DEF Server!Execute, Reply
  <2>5. ASSUME NEW ok \in BOOLEAN, WorkCheck(ok) PROVE Server!Execute
    <3>1. (IF ok THEN "ok" ELSE "failed") \in Errnos
      BY DEF Errnos
    <3> QED  BY <2>4, <2>5, <3>1 DEF WorkCheck
  <2>6. ASSUME NEW e \in {"busy", "failed"}, WorkSetBuffer(e) PROVE Server!Execute
    <3>1. \E r \in Errnos : wret' = Reply(wreq, r)
      BY <2>6 DEF WorkSetBuffer, QueueBulk, Errnos
    <3> QED  BY <2>4, <2>6, <3>1 DEF WorkSetBuffer
  <2>7. ASSUME HostStep PROVE [Server!Next]_(Server!vars)
    BY <2>3, <2>7 DEF HostStep, Server!Next, SetupRefuse, Stall, SetupGet, SetupSet,
       OutData, SetupReturn, OutDone, AskStatus, UseStatus, Proceed, BulkDone
  <2>8. ASSUME WorkStep PROVE [Server!Next]_(Server!vars)
    BY <2>5, <2>6, <2>8 DEF WorkStep, Server!Next, WorkStart, WorkRead, WorkDisable,
       WorkDisabled, WorkWrite, WorkWritten, WorkAnswer
  <2> QED  BY <1>2, <2>2, <2>7, <2>8 DEF Next, Server!Next, GiveUp, BulkTimeout,
           Disable, SetAlt, Finished
<1> QED  BY <1>1, <1>2, AlwaysServed, PTL DEF CalmSpec, RequestSpec, Server!Spec
=============================================================================
