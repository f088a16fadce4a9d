--------------------------- MODULE MCErrorMapping --------------------------
(***************************************************************************)
(* A bounded set of exceptions for ErrorMapping: every code the module     *)
(* names and one it does not, statuses on both sides of every boundary of  *)
(* _verdict_from_status, hints on both sides of the clamp.                 *)
(***************************************************************************)
EXTENDS ErrorMapping

Codes == KnownCodes \cup {"SOMETHING_NEW", None}
Statuses == {None, 200, 399, 400, 401, 403, 404, 408, 409, 429, 499, 500, 503}
Quotas == {None, "daily_quota_exceeded", "monthly_quota_exceeded", "hourly"}
FiniteHints == {None, Unparsable, -1, 0, 1, 3600, 3601}

ApiErrors(hints) ==
  [ kind: {"api"}, code: Codes, status: Statuses, quota: Quotas,
    retry_after: hints, details_retry: {None, 0, 30} ]
ClientSideErrors == {Plain(kind) : kind \in {"transport", "input", "other"}}

FiniteHintErrors == ApiErrors(FiniteHints) \cup ClientSideErrors
AnyErrors == ApiErrors(FiniteHints \cup {Infinite}) \cup ClientSideErrors
============================================================================
