--------------------------- MODULE XmemoryLemmas ---------------------------
(***************************************************************************)
(* Facts about the operators every component is built from: the error      *)
(* mapping of errors.py, for every exception a client can raise, and the   *)
(* client budget of config.py, for every deadline and every margin.        *)
(***************************************************************************)
EXTENDS XmemoryErrors, XmemoryBudgets, TLAPS

(***************************************************************************)
(* The error mapping.                                                      *)
(***************************************************************************)
VerdictType == [type: ErrorTypes, retryable: BOOLEAN]
FailureType == [type: ErrorTypes \cup {"OverflowError"}, non_retryable: BOOLEAN,
                delay: Nat \cup {None}]

\* A verdict that is final exactly when its type is listed, and not one of the
\* types a handler raises before it calls the client.
Verdicts ==
  {v \in VerdictType : /\ v.retryable <=> v.type \notin NON_RETRYABLE_TYPES
                       /\ v.type \notin {"XmemoryNotBound", "XmemoryNoDeadline"}}

LEMMA ListedVerdicts ==
  /\ \A type \in {"XmemoryUnavailable", "XmemoryServerError", "XmemoryRateLimited",
                  "XmemoryDailyQuotaExceeded", "XmemoryUnknown"} : Verdict(type, TRUE) \in Verdicts
  /\ \A type \in {"XmemoryMonthlyQuotaExceeded", "XmemoryQuotaExceeded", "XmemoryAuthFailed",
                  "XmemoryNotFound", "XmemoryBadRequest", "XmemorySchemaRejected",
                  "XmemoryWriteFailed"} : Verdict(type, FALSE) \in Verdicts
BY DEF Verdict, Verdicts, VerdictType, ErrorTypes, RETRYABLE_TYPES, NON_RETRYABLE_TYPES

LEMMA VerdictConsistent ==
  ASSUME NEW exc \in ExceptionType
  PROVE  VerdictOf(exc) \in Verdicts
<1>1. VerdictFromStatus(exc.status) \in Verdicts
  BY ListedVerdicts, ZenonT(60) DEF VerdictFromStatus
<1>2. QuotaVerdict(exc) \in Verdicts
  BY ListedVerdicts DEF QuotaVerdict
<1>3. VerdictFromCode(exc) \in Verdicts
  BY <1>2, ListedVerdicts DEF VerdictFromCode
<1>4. ClientSideVerdict(exc.kind) \in Verdicts
  BY ListedVerdicts DEF ClientSideVerdict
<1> QED
  BY <1>1, <1>3, <1>4 DEF VerdictOf

LEMMA MinOfTwo ==
  ASSUME NEW a \in Int, NEW b \in Int
  PROVE  Min({a, b}) = IF a <= b THEN a ELSE b
BY DEF Min

LEMMA DelayBounded ==
  ASSUME NEW exc \in ExceptionType, ~Escapes(exc), exc.kind = "api"
  PROVE  RetryDelay(exc) \in (1..MAX_RETRY_DELAY_SECONDS) \cup {None}
<1>1. Hint(exc) \in Int \cup {None, Unparsable}
  BY DEF Hint, Hints, ExceptionType, Escapes
<1>2. CASE Hint(exc) \in {None, Unparsable}
  BY <1>2 DEF RetryDelay
<1>3. CASE Hint(exc) \in Int /\ Hint(exc) <= 0
  BY <1>3, Sentinels DEF RetryDelay
<1>4. CASE Hint(exc) \in Int /\ Hint(exc) > 0
  <2>1. Hint(exc) \notin {None, Unparsable}
    BY <1>4, Sentinels
  <2>2. RetryDelay(exc) = Min({Hint(exc), MAX_RETRY_DELAY_SECONDS})
    BY <1>4, <2>1 DEF RetryDelay
  <2>3. RetryDelay(exc) = IF Hint(exc) <= 3600 THEN Hint(exc) ELSE 3600
    BY <1>4, <2>2, MinOfTwo DEF MAX_RETRY_DELAY_SECONDS
  <2>4. RetryDelay(exc) \in 1..3600
    BY <1>4, <2>3
  <2> QED
    BY <2>4 DEF MAX_RETRY_DELAY_SECONDS
<1> QED
  BY <1>1, <1>2, <1>3, <1>4

LEMMA ErrorTyped ==
  ASSUME NEW exc \in ExceptionType
  PROVE  ToApplicationError(exc) \in FailureType
<1>1. CASE Escapes(exc)
  BY <1>1 DEF ToApplicationError, Failure, FailureType
<1>2. CASE ~Escapes(exc)
  <2>1. VerdictOf(exc).type \in ErrorTypes /\ VerdictOf(exc).retryable \in BOOLEAN
    BY VerdictConsistent DEF Verdicts, VerdictType
  <2>2. exc.kind = "api" => RetryDelay(exc) \in Nat \cup {None}
    <3>1. \A n \in 1..MAX_RETRY_DELAY_SECONDS : n \in Nat
      BY DEF MAX_RETRY_DELAY_SECONDS
    <3> QED
      BY <3>1, <1>2, DelayBounded
  <2> QED
    BY <1>2, <2>1, <2>2 DEF ToApplicationError, Failure, FailureType
<1> QED
  BY <1>1, <1>2

\* What the client raises is never taken for a handler's refusal.
LEMMA ErrorNoRefusal ==
  ASSUME NEW exc \in ExceptionType
  PROVE  ToApplicationError(exc).type \notin {"XmemoryNotBound", "XmemoryNoDeadline"}
<1>1. VerdictOf(exc).type \notin {"XmemoryNotBound", "XmemoryNoDeadline"}
  BY VerdictConsistent DEF Verdicts
<1> QED
  BY <1>1 DEF ToApplicationError, Failure

(***************************************************************************)
(* The client budget.                                                      *)
(***************************************************************************)
\* Max, of FiniteSetsExt, on the two numbers ClientTimeout compares.
LEMMA MaxOfTwo ==
  ASSUME NEW a \in Int, NEW b \in Int
  PROVE  Max({a, b}) = IF a >= b THEN a ELSE b
BY DEF Max

\* A budget never comes out negative, whatever the deadline.
LEMMA ClientTimeoutTyped ==
  ASSUME NEW budget \in Nat, NEW margin \in Nat
  PROVE  ClientTimeout(budget, margin) \in Nat
<1>1. CASE budget <= margin
  <2>1. (budget * 8) \div 10 \in Int
    OBVIOUS
  <2> QED
    BY <1>1, <2>1, TenthAssumption, MaxOfTwo DEF ClientTimeout
<1>2. CASE budget > margin
  BY <1>2 DEF ClientTimeout
<1> QED
  BY <1>1, <1>2

(***************************************************************************)
(* The promise of client_timeout_seconds, with the conditions it needs: a  *)
(* positive margin, and a deadline above the client's floor of a tenth of  *)
(* a second.  The client then ends strictly before the deadline.           *)
(***************************************************************************)
THEOREM ClientBelowDeadline ==
  ASSUME NEW budget \in Nat, NEW margin \in Nat \ {0}, budget > Tenth
  PROVE  ClientTimeout(budget, margin) \in 1..(budget - 1)
<1>1. CASE budget <= margin
  <2>1. (budget * 8) \div 10 \in Int /\ (budget * 8) \div 10 < budget
    BY TenthAssumption
  <2> QED
    BY <1>1, <2>1, TenthAssumption, MaxOfTwo DEF ClientTimeout
<1>2. CASE budget > margin
  BY <1>2 DEF ClientTimeout
<1> QED
  BY <1>1, <1>2
=============================================================================
