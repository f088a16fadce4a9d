----------------------------- MODULE PollRules -----------------------------
(***************************************************************************)
(* What write_durable computes between two awaits: the reading of a status *)
(* and the growth of the poll interval.                                    *)
(***************************************************************************)
EXTENDS Naturals

\* Mutant: a status this release does not know fails the write.
Interpreted_UnknownIsFatal(status) ==
  CASE status = "completed" -> "completed"
    [] status = "not_found" -> "XmemoryWriteNotFound"
    [] status = "queued"    -> ""
    [] OTHER                -> "XmemoryWriteFailed"

\* Mutant: an unfinished status is returned to the caller.
Interpreted_ReturnsAny(status) ==
  CASE status = "failed"    -> "XmemoryWriteFailed"
    [] status = "not_found" -> "XmemoryWriteNotFound"
    [] OTHER                -> status

\* _interpret_status: "" keeps polling.
Interpreted(status) ==
  CASE status = "completed" -> "completed"
    [] status = "failed"    -> "XmemoryWriteFailed"
    [] status = "not_found" -> "XmemoryWriteNotFound"
    [] OTHER                -> ""

Shorter(a, b) == IF a < b THEN a ELSE b

\* timedelta * 1.5 rounds a half to even.
Grown(delay) ==
  (3 * delay) \div 2 + (IF (3 * delay) % 4 = 3 THEN 1 ELSE 0)
============================================================================
