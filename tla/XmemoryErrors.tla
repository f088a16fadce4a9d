--------------------------- MODULE XmemoryErrors ---------------------------
(***************************************************************************)
(* errors.py: what a client-raised exception becomes when it leaves an     *)
(* activity, that is a stable error type, a retryability verdict and an    *)
(* optional retry hint.                                                    *)
(*                                                                         *)
(* An exception is a record of the attributes the mapping reads.  Messages *)
(* are left out: they are fixed per type.                                  *)
(***************************************************************************)
EXTENDS Optional, Integers, FiniteSetsExt

CONSTANTS
  Unparsable,  (* a retry hint int() rejects: a word, a list, nan          *)
  Infinite     (* a retry hint int() overflows on: the float inf           *)

ASSUME Sentinels ==
  /\ None \notin Int /\ Unparsable \notin Int /\ Infinite \notin Int
  /\ None # Unparsable /\ None # Infinite /\ Unparsable # Infinite
  /\ None \notin STRING

(***************************************************************************)
(* kind "api" is an exception with the shape of XmemoryAPIError.           *)
(***************************************************************************)
Kinds == {"api", "transport", "input", "other"}
Hints == Int \cup {None, Unparsable, Infinite}
ExceptionType ==
  [ kind: Kinds, code: STRING \cup {None}, status: Int \cup {None},
    quota: STRING \cup {None}, retry_after: Hints, details_retry: Hints ]

Plain(kind) == [kind |-> kind, code |-> None, status |-> None, quota |-> None,
                retry_after |-> None, details_retry |-> None]

RETRYABLE_CODES   == {"INTERNAL_ERROR", "SERVICE_UNAVAILABLE"}
AUTH_CODES        == {"UNAUTHORIZED", "FORBIDDEN"}
BAD_REQUEST_CODES == {"VALIDATION_ERROR", "INVALID_INPUT", "ALREADY_EXISTS", "CONFLICT"}
EXHAUSTED_CODES   == {"MAX_RETRIES_EXCEEDED"}
SCHEMA_CODES ==
  {"stale_proposal_version", "stale_schema_version", "dependency_closure_failed",
   "destructive_confirmation_required", "non_additive_change_requires_plan",
   "migration_not_found", "instance_not_initialised"}

NON_RETRYABLE_TYPES ==
  {"XmemoryMonthlyQuotaExceeded", "XmemoryQuotaExceeded", "XmemoryAuthFailed",
   "XmemoryNotFound", "XmemoryBadRequest", "XmemorySchemaRejected",
   "XmemoryWriteFailed", "XmemoryWriteNotFound", "XmemoryWriteTimeout",
   "XmemoryNotBound", "XmemoryNoDeadline"}
RETRYABLE_TYPES ==
  {"XmemoryUnavailable", "XmemoryServerError", "XmemoryRateLimited",
   "XmemoryDailyQuotaExceeded", "XmemoryUnknown"}
ErrorTypes == NON_RETRYABLE_TYPES \cup RETRYABLE_TYPES

\* Retry hints are clamped to this many seconds.
MAX_RETRY_DELAY_SECONDS == 3600

Verdict(type, retryable) == [type |-> type, retryable |-> retryable]

QuotaVerdict(exc) ==
  CASE exc.quota = "daily_quota_exceeded"   -> Verdict("XmemoryDailyQuotaExceeded", TRUE)
    [] exc.quota = "monthly_quota_exceeded" -> Verdict("XmemoryMonthlyQuotaExceeded", FALSE)
    [] OTHER                                -> Verdict("XmemoryQuotaExceeded", FALSE)

\* Mutant: 404 taken for a record that is not visible yet.
VerdictFromStatus_Retry404(status) ==
  IF status = 404 THEN Verdict("XmemoryNotFound", TRUE)
                  ELSE Verdict("XmemoryServerError", TRUE)

VerdictFromStatus(status) ==
  CASE status = None          -> Verdict("XmemoryUnavailable", TRUE)
    [] status = 408           -> Verdict("XmemoryServerError", TRUE)
    [] status \in Int /\ status >= 500
                              -> Verdict("XmemoryServerError", TRUE)
    [] status = 429           -> Verdict("XmemoryRateLimited", TRUE)
    [] status \in {401, 403}  -> Verdict("XmemoryAuthFailed", FALSE)
    [] status = 404           -> Verdict("XmemoryNotFound", FALSE)
    [] status \in (400..499) \ {401, 403, 404, 408, 429}
                              -> Verdict("XmemoryBadRequest", FALSE)
    [] OTHER                  -> Verdict("XmemoryUnknown", TRUE)

VerdictFromCode(exc) ==
  CASE exc.code = "QUOTA_EXCEEDED"      -> QuotaVerdict(exc)
    [] exc.code = "RATE_LIMITED"        -> Verdict("XmemoryRateLimited", TRUE)
    [] exc.code \in RETRYABLE_CODES     -> Verdict("XmemoryServerError", TRUE)
    [] exc.code \in AUTH_CODES          -> Verdict("XmemoryAuthFailed", FALSE)
    [] exc.code = "NOT_FOUND"           -> Verdict("XmemoryNotFound", FALSE)
    [] exc.code \in BAD_REQUEST_CODES   -> Verdict("XmemoryBadRequest", FALSE)
    [] exc.code \in EXHAUSTED_CODES     -> Verdict("XmemoryWriteFailed", FALSE)
    [] exc.code \in SCHEMA_CODES        -> Verdict("XmemorySchemaRejected", FALSE)
    [] OTHER                            -> Verdict("XmemoryUnknown", TRUE)

ClientSideVerdict(kind) ==
  CASE kind = "transport" -> Verdict("XmemoryUnavailable", TRUE)
    [] kind = "input"     -> Verdict("XmemoryBadRequest", FALSE)
    [] OTHER              -> Verdict("XmemoryUnknown", TRUE)

\* Mutant: the bare status is asked before the code.
VerdictOf_StatusFirst(exc) ==
  CASE exc.kind # "api" -> ClientSideVerdict(exc.kind)
    [] exc.kind = "api" /\ exc.status # None -> VerdictFromStatus(exc.status)
    [] OTHER -> VerdictFromCode(exc)

VerdictOf(exc) ==
  CASE exc.kind # "api" -> ClientSideVerdict(exc.kind)
    [] exc.kind = "api" /\ exc.code # None -> VerdictFromCode(exc)
    [] OTHER -> VerdictFromStatus(exc.status)

\* The attribute wins over details; 0 is a hint of its own, not a missing one.
Hint(exc) == IF exc.retry_after # None THEN exc.retry_after ELSE exc.details_retry

\* Mutant: the hint is passed on without the clamp.
RetryDelay_Unclamped(exc) ==
  IF Hint(exc) \in Int /\ Hint(exc) > 0 THEN Hint(exc) ELSE None

RetryDelay(exc) ==
  CASE Hint(exc) \in {None, Unparsable}           -> None
    [] Hint(exc) \in Int /\ Hint(exc) <= 0        -> None
    [] OTHER                 -> Min({Hint(exc), MAX_RETRY_DELAY_SECONDS})

(***************************************************************************)
(* An ApplicationError as Temporal sees it.  Any other exception type that *)
(* leaves an activity reaches Temporal as a retryable failure named after  *)
(* its class: int(inf) raises OverflowError, which _retry_delay does not   *)
(* catch, whatever the verdict was.                                        *)
(***************************************************************************)
Failure(type, retryable, delay) ==
  [type |-> type, non_retryable |-> ~retryable,
   delay |-> IF retryable THEN delay ELSE None]

Escapes(exc) == exc.kind = "api" /\ Hint(exc) = Infinite

\* Mutant: a transport failure leaves the activity as it was raised.
ToApplicationError_TransportUncaught(exc) ==
  IF exc.kind = "transport"
  THEN Failure("ConnectError", TRUE, None)
  ELSE Failure(VerdictOf(exc).type, VerdictOf(exc).retryable, RetryDelay(exc))

ToApplicationError(exc) ==
  IF Escapes(exc)
  THEN Failure("OverflowError", TRUE, None)
  ELSE Failure(VerdictOf(exc).type, VerdictOf(exc).retryable,
               IF exc.kind = "api" THEN RetryDelay(exc) ELSE None)
============================================================================
