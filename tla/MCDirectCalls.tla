--------------------------- MODULE MCDirectCalls ---------------------------
(***************************************************************************)
(* Small instances of DirectCalls.  A tick is a tenth of a second.         *)
(***************************************************************************)
EXTENDS DirectCalls

Closes(stc, sch) == [stc |-> stc, sch |-> sch]
Same(stc, sch) == [deadline |-> [op \in Ops |-> Closes(stc, sch)], bound |-> TRUE]

\* What the facade sets: start_to_close alone, around and under the margin.
FacadeHandles == {Same(stc, None) : stc \in {6, 9, 10, 11, 12, 15}}
ShortHandle == {Same(2, None)}

\* What a workflow may set that names the activities itself, and a worker that
\* registered them without the plugin.
OwnHandles == {Same(None, 6), Same(5, 8), Same(0, 7),
               [Same(5, None) EXCEPT !.bound = FALSE]}
ScheduleToCloseOnly == {Same(None, 6)}
AllHandles == FacadeHandles \cup OwnHandles

Retry(initial, maximum, attempts) ==
  [initial |-> initial, maximum |-> maximum, attempts |-> attempts]
MCPolicy == [op \in Ops |-> IF op \in WriteOps THEN Retry(1, 2, 1) ELSE Retry(1, 2, 2)]
OptInPolicy == [op \in Ops |-> Retry(1, 2, 2)]

Api(code, hint) == [Plain("api") EXCEPT !.code = code, !.retry_after = hint]
MCServerErrors == {Api("INTERNAL_ERROR", None), Api("RATE_LIMITED", 1), Api("UNAUTHORIZED", None)}
OneServerError == {Api("INTERNAL_ERROR", None)}

\* What ClientFirst of DirectCallsProofs asks of the constants.
ASSUME InTime == StartsInTime
============================================================================
