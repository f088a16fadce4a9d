--------------------------- MODULE ErrorMapping ----------------------------
(***************************************************************************)
(* One call of to_application_error: an activity caught an exception of    *)
(* the client and turns it into the failure Temporal records.              *)
(***************************************************************************)
EXTENDS XmemoryErrors

CONSTANT Exceptions   (* the exceptions a client may raise *)

ASSUME ExceptionsAssumption == Exceptions \subseteq ExceptionType

VARIABLES
  exc,      (* the exception caught                           *)
  failure   (* what was raised instead, Unmapped until then   *)

Unmapped == Failure("", TRUE, None)

Caught == exc \in Exceptions /\ failure = Unmapped

Map == /\ failure = Unmapped
       /\ failure' = ToApplicationError(exc)
       /\ UNCHANGED exc

MappingSpec == Caught /\ [][Map]_<<exc, failure>>

Mapped == failure # Unmapped

(***************************************************************************)
(* The public NON_RETRYABLE_TYPES tuple and the verdicts agree in both     *)
(* directions: a failure carries non_retryable exactly when its type is    *)
(* listed, so a RetryPolicy built from the tuple neither retries a final   *)
(* error nor gives up on a transient one.                                  *)
(***************************************************************************)
ListingMatchesVerdict ==
  Mapped => (failure.non_retryable <=> failure.type \in NON_RETRYABLE_TYPES)

(***************************************************************************)
(* next_retry_delay is present only on a retryable failure, is the server's*)
(* own hint whenever that hint is plausible, and never stalls the next     *)
(* attempt for more than MAX_RETRY_DELAY_SECONDS.                          *)
(***************************************************************************)
HonoursHint ==
  /\ failure.delay # None =>
       /\ ~failure.non_retryable
       /\ failure.delay \in 1..MAX_RETRY_DELAY_SECONDS
  /\ Mapped /\ ~failure.non_retryable /\ exc.kind = "api" =>
       (Hint(exc) \in 1..MAX_RETRY_DELAY_SECONDS => failure.delay = Hint(exc))

(***************************************************************************)
(* The code decides, never the bare HTTP status: with a code present the   *)
(* failure is the one the same error without a status would give, and a    *)
(* code this release does not know is never fatal whatever status, quota   *)
(* kind or retry hint comes with it.                                       *)
(***************************************************************************)
KnownCodes == {"QUOTA_EXCEEDED", "RATE_LIMITED", "NOT_FOUND"} \cup RETRYABLE_CODES
              \cup AUTH_CODES \cup BAD_REQUEST_CODES \cup EXHAUSTED_CODES \cup SCHEMA_CODES

CodeDecides ==
  Mapped /\ exc.kind = "api" /\ exc.code # None =>
    /\ failure = ToApplicationError([exc EXCEPT !.status = None])
    /\ exc.code \notin KnownCodes => ~failure.non_retryable

(***************************************************************************)
(* activities.py says that every client error is sanitized into an         *)
(* ApplicationError, so the only types Temporal sees are the public ones.  *)
(***************************************************************************)
EveryErrorSanitized == Mapped => failure.type \in ErrorTypes
============================================================================
