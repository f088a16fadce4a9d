-------------------------- MODULE MCDurableWrite ---------------------------
(***************************************************************************)
(* Small instances of DurableWrite.  A tick is a tenth of a second.        *)
(***************************************************************************)
EXTENDS DurableWrite

Closes(stc, sch) == [stc |-> stc, sch |-> sch]
Deadlines(start, status) ==
  [op \in Ops |-> Closes(IF op = "write_status" THEN status ELSE start, None)]

\* One budget above the margin, one at it; and a worker without the plugin.
MCHandles == {[deadline |-> Deadlines(13, 10), bound |-> TRUE],
              [deadline |-> Deadlines(13, 10), bound |-> FALSE]}

Retry(initial, maximum, attempts) ==
  [initial |-> initial, maximum |-> maximum, attempts |-> attempts]
MCPolicy == [op \in Ops |-> IF op = "write_status" THEN Retry(2, 3, 2) ELSE Retry(2, 3, 1)]

Api(code, hint) == [Plain("api") EXCEPT !.code = code, !.retry_after = hint]
MCServerErrors == {Api("INTERNAL_ERROR", None), Api("RATE_LIMITED", 1), Api("UNAUTHORIZED", None),
                   Api("MAX_RETRIES_EXCEEDED", None)}

Wait(interval, cap, max_wait) ==
  [poll_interval |-> interval, max_poll_interval |-> cap, max_wait |-> max_wait]
MCWaits == {Wait(0, 4, 3), Wait(2, 3, 9), Wait(6, 3, 8), Wait(2, 4, 0)}

\* What ClientFirst of DurableWriteProofs asks of the constants.
ASSUME InTime == StartsInTime /\ \A h \in Handles, op \in Ops : h.deadline[op].sch = None
============================================================================
