--------------------------- MODULE BoundaryProofs --------------------------
(***************************************************************************)
(* What leaves an activity: the failure the error mapping makes of whatever*)
(* the client raises, and the projection the handler makes of whatever it  *)
(* answers; and what enters the client call, whatever the caller asked for.*)
(***************************************************************************)
EXTENDS ErrorMapping, Payloads, XmemoryLemmas

(***************************************************************************)
(* Errors.                                                                 *)
(***************************************************************************)
MappedOrNot == exc \in ExceptionType /\ failure \in {Unmapped, ToApplicationError(exc)}

LEMMA MappedInvariant == MappingSpec => []MappedOrNot
<1>1. Caught => MappedOrNot
  BY ExceptionsAssumption DEF Caught, MappedOrNot
<1>2. MappedOrNot /\ [Map]_<<exc, failure>> => MappedOrNot'
  BY DEF MappedOrNot, Map
<1> QED
  BY <1>1, <1>2, PTL DEF MappingSpec

(***************************************************************************)
(* For every set of exceptions the client may raise: a failure Temporal    *)
(* will not retry is exactly one whose type the package lists as such.     *)
(***************************************************************************)
THEOREM ListingSound == MappingSpec => []ListingMatchesVerdict
<1>1. MappedOrNot => ListingMatchesVerdict
  <2> SUFFICES ASSUME MappedOrNot, Mapped
               PROVE  failure.non_retryable <=> failure.type \in NON_RETRYABLE_TYPES
    BY DEF ListingMatchesVerdict
  <2>1. failure = ToApplicationError(exc) /\ exc \in ExceptionType
    BY DEF MappedOrNot, Mapped
  <2>2. CASE Escapes(exc)
    BY <2>1, <2>2 DEF ToApplicationError, Failure, NON_RETRYABLE_TYPES
  <2>3. CASE ~Escapes(exc)
    BY <2>1, <2>3, VerdictConsistent
    DEF ToApplicationError, Failure, Verdicts, VerdictType
  <2> QED
    BY <2>2, <2>3
<1> QED
  BY <1>1, MappedInvariant, PTL

LEMMA PlausibleHintKept ==
  ASSUME NEW e \in ExceptionType, Hint(e) \in 1..MAX_RETRY_DELAY_SECONDS
  PROVE  RetryDelay(e) = Hint(e)
<1>1. Hint(e) \in Int /\ Hint(e) > 0 /\ Hint(e) <= 3600
  <2>1. \A n \in 1..MAX_RETRY_DELAY_SECONDS : n \in Int /\ n > 0 /\ n <= 3600
    BY DEF MAX_RETRY_DELAY_SECONDS
  <2> QED
    BY <2>1
<1>2. Hint(e) \notin {None, Unparsable}
  BY <1>1, Sentinels
<1>3. RetryDelay(e) = Min({Hint(e), MAX_RETRY_DELAY_SECONDS})
  BY <1>1, <1>2 DEF RetryDelay
<1> QED
  BY <1>1, <1>3, MinOfTwo DEF MAX_RETRY_DELAY_SECONDS

(***************************************************************************)
(* For every set of exceptions: a retry delay is only ever set on a        *)
(* retryable failure, lies in 1..MAX_RETRY_DELAY_SECONDS, and is the       *)
(* server's own hint whenever that hint is in this range.                  *)
(***************************************************************************)
THEOREM HintSound == MappingSpec => []HonoursHint
<1>1. MappedOrNot => HonoursHint
  <2> SUFFICES ASSUME MappedOrNot PROVE HonoursHint
    OBVIOUS
  <2>1. CASE failure = Unmapped
    BY <2>1 DEF HonoursHint, Mapped, Unmapped, Failure
  <2>2. CASE failure = ToApplicationError(exc) /\ Escapes(exc)
    <3>1. failure.delay = None
      BY <2>2 DEF ToApplicationError, Failure
    <3>2. Hint(exc) \notin 1..MAX_RETRY_DELAY_SECONDS
      BY <2>2, Sentinels DEF Escapes
    <3> QED
      BY <3>1, <3>2 DEF HonoursHint
  <2>3. CASE failure = ToApplicationError(exc) /\ ~Escapes(exc)
    <3>1. exc \in ExceptionType
      BY DEF MappedOrNot
    <3>2. failure.delay =
            IF failure.non_retryable \/ exc.kind # "api" THEN None ELSE RetryDelay(exc)
      BY <2>3 DEF ToApplicationError, Failure
    <3>3. failure.delay # None =>
            ~failure.non_retryable /\ failure.delay \in 1..MAX_RETRY_DELAY_SECONDS
      BY <2>3, <3>1, <3>2, DelayBounded
    <3>4. ~failure.non_retryable /\ exc.kind = "api" =>
            (Hint(exc) \in 1..MAX_RETRY_DELAY_SECONDS => failure.delay = Hint(exc))
      BY <3>1, <3>2, PlausibleHintKept
    <3> QED
      BY <3>3, <3>4 DEF HonoursHint
  <2> QED
    BY <2>1, <2>2, <2>3 DEF MappedOrNot
<1> QED
  BY <1>1, MappedInvariant, PTL

(***************************************************************************)
(* The code decides: the same error without its HTTP status becomes the    *)
(* same failure.                                                           *)
(***************************************************************************)
LEMMA StatusUnread ==
  ASSUME NEW e \in ExceptionType, e.kind = "api", e.code # None
  PROVE  ToApplicationError(e) = ToApplicationError([e EXCEPT !.status = None])
<1> DEFINE bare == [e EXCEPT !.status = None]
<1>1. /\ bare.kind = e.kind /\ bare.code = e.code /\ bare.quota = e.quota
      /\ bare.retry_after = e.retry_after /\ bare.details_retry = e.details_retry
  BY DEF ExceptionType
<1> HIDE DEF bare
<1>2. Hint(bare) = Hint(e)
  BY <1>1 DEF Hint
<1>3. RetryDelay(bare) = RetryDelay(e) /\ (Escapes(bare) <=> Escapes(e))
  BY <1>1, <1>2 DEF RetryDelay, Escapes
<1>4. QuotaVerdict(bare) = QuotaVerdict(e)
  BY <1>1 DEF QuotaVerdict
<1>5. VerdictFromCode(bare) = VerdictFromCode(e)
  BY <1>1, <1>4 DEF VerdictFromCode
<1>6. VerdictOf(bare) = VerdictFromCode(bare) /\ VerdictOf(e) = VerdictFromCode(e)
  BY <1>1 DEF VerdictOf
<1>7. ToApplicationError(bare) = ToApplicationError(e)
  BY <1>1, <1>3, <1>5, <1>6 DEF ToApplicationError
<1> QED
  BY <1>7 DEF bare

LEMMA UnknownCodeRetried ==
  ASSUME NEW e \in ExceptionType, e.kind = "api", e.code # None, e.code \notin KnownCodes
  PROVE  ~ToApplicationError(e).non_retryable
<1>1. VerdictFromCode(e) = Verdict("XmemoryUnknown", TRUE)
  BY DEF VerdictFromCode, KnownCodes
<1>2. VerdictOf(e).retryable
  BY <1>1 DEF VerdictOf, Verdict
<1> QED
  BY <1>2 DEF ToApplicationError, Failure

(***************************************************************************)
(* For every exception with a code, whatever status, quota kind or hint    *)
(* comes with it: the code alone decides what the failure is, and one this *)
(* release does not know is never fatal.                                   *)
(***************************************************************************)
THEOREM CodesDecide == MappingSpec => []CodeDecides
<1>1. MappedOrNot => CodeDecides
  BY StatusUnread, UnknownCodeRetried DEF MappedOrNot, Mapped, CodeDecides
<1> QED
  BY <1>1, MappedInvariant, PTL

(***************************************************************************)
(* Payloads.  The inductive invariant: what crosses a boundary is a        *)
(* function of the request and of the answer, and stays what it was.       *)
(***************************************************************************)
Crossed ==
  /\ op \in Ops /\ request \in Requests[op]
  /\ payload \in {None, Input}
  /\ sent \in {None, Kwargs(Input)}
  /\ response # None => response \in Responses[op]
  /\ output # None => response # None /\ output = Projection(response)

LEMMA CrossedInvariant == Spec => []Crossed
<1>1. Init => Crossed
  BY Zenon DEF Init, Crossed
<1>2. Crossed /\ [Next]_vars => Crossed'
  <2> SUFFICES ASSUME Crossed, [Next]_vars PROVE Crossed'
    OBVIOUS
  <2>1. op' = op /\ request' = request
    BY DEF Next, vars, Schedule, Send, Answer, Project, Ended
  <2>2. Input' = Input
    BY <2>1 DEF Input, Defaults
  <2>3. Kwargs(Input)' = Kwargs(Input)
    BY <2>1, <2>2 DEF Kwargs
  <2>4. Projection(response)' = Projection(response')
    BY <2>1 DEF Projection
  <2>5. CASE Schedule
    BY <2>1, <2>2, <2>3, <2>5 DEF Crossed, Schedule, Projection
  <2>6. CASE Send
    BY <2>1, <2>2, <2>3, <2>4, <2>6 DEF Crossed, Send
  <2>7. CASE Answer
    BY <2>1, <2>2, <2>3, <2>4, <2>7 DEF Crossed, Answer
  <2>8. CASE Project
    BY <2>1, <2>2, <2>3, <2>4, <2>8 DEF Crossed, Project
  <2>9. CASE UNCHANGED vars
    BY <2>1, <2>2, <2>3, <2>4, <2>9 DEF Crossed, vars
  <2> QED
    BY <2>5, <2>6, <2>7, <2>8, <2>9 DEF Next, Ended
<1> QED
  BY <1>1, <1>2, PTL DEF Spec

(***************************************************************************)
(* The projections, on every model a client may answer with.               *)
(***************************************************************************)
LEMMA GetTyped ==
  ASSUME NEW S, NEW default \in S, NEW model, NEW attribute, model[attribute] \in Attribute(S)
  PROVE  Get(model, attribute, default) \in S
BY DEF Get, Attribute

LEMMA Blank == "" \in Ids
BY Zenon DEF Ids

LEMMA IdTyped ==
  ASSUME NEW model, NEW attribute, model[attribute] \in Attribute(Values)
  PROVE  Get(model, attribute, "") \in Ids
<1> DEFINE blank == ""
<1>1. blank \in Ids
  BY Blank
<1>2. model[attribute] \in Attribute(Ids)
  BY DEF Attribute, Ids
<1> HIDE DEF blank
<1>3. Get(model, attribute, blank) \in Ids
  BY <1>1, <1>2, GetTyped
<1> QED
  BY <1>3, Zenon DEF blank

LEMMA NullableTyped ==
  ASSUME NEW S, NEW model, NEW attribute, model[attribute] \in Attribute(Nullable(S))
  PROVE  Get(model, attribute, None) \in Nullable(S)
BY GetTyped DEF Nullable

LEMMA SubAnswerTyped ==
  ASSUME NEW item \in Items
  PROVE  SubAnswer(item) \in [sub_query: Ids, reader_result: Nullable(Values),
                              error: Nullable(Values)]
<1>1. /\ item["sub_query"] \in Attribute(Values)
      /\ item["reader_result"] \in Attribute(Nullable(Values))
      /\ item["error"] \in Attribute(Nullable(Values))
  BY DEF Items
<1> DEFINE query == Get(item, "sub_query", "")
<1>2. query \in Ids
  BY <1>1, IdTyped, Zenon
<1>3. Get(item, "reader_result", None) \in Nullable(Values)
      /\ Get(item, "error", None) \in Nullable(Values)
  BY <1>1, NullableTyped
<1>4. SubAnswer(item) = [sub_query |-> query, reader_result |-> Get(item, "reader_result", None),
                         error |-> Get(item, "error", None)]
  BY Zenon DEF SubAnswer
<1> HIDE DEF query
<1> QED
  BY <1>2, <1>3, <1>4

LEMMA ReadTyped ==
  ASSUME NEW model \in Models("read")
  PROVE  ProjectRead(model) \in
           [reader_result: Nullable(Values), trace_id: Nullable(Values),
            sub_answers: Seq([sub_query: Ids, reader_result: Nullable(Values),
                              error: Nullable(Values)])]
<1> DEFINE Sub == [sub_query: Ids, reader_result: Nullable(Values), error: Nullable(Values)]
           raw == Get(model, "reader_results", None)
           subs == IF raw = None THEN << >> ELSE [i \in DOMAIN raw |-> SubAnswer(raw[i])]
<1>1. /\ model["reader_result"] \in Attribute(Nullable(Values))
      /\ model["trace_id"] \in Attribute(Nullable(Values))
      /\ model["reader_results"] \in Attribute(Nullable(Seq(Items)))
  BY DEF Models
<1>2. raw \in Nullable(Seq(Items))
  BY <1>1, NullableTyped
<1>3. subs \in Seq(Sub)
  <2>1. CASE raw = None
    BY <2>1
  <2>2. CASE raw # None
    <3>1. raw \in Seq(Items)
      BY <1>2, <2>2 DEF Nullable
    <3>2. \A i \in 1..Len(raw) : SubAnswer(raw[i]) \in Sub
      BY <3>1, SubAnswerTyped
    <3>3. Len(raw) \in Nat /\ DOMAIN raw = 1..Len(raw)
      BY <3>1
    <3> HIDE DEF raw, Sub
    <3> QED
      BY <2>2, <3>2, <3>3
  <2> QED
    BY <2>1, <2>2
<1>4. /\ Get(model, "reader_result", None) \in Nullable(Values)
      /\ Get(model, "trace_id", None) \in Nullable(Values)
  BY <1>1, NullableTyped
<1>5. ProjectRead(model) =
        [reader_result |-> Get(model, "reader_result", None), sub_answers |-> subs,
         trace_id |-> Get(model, "trace_id", None)]
  BY DEF ProjectRead
<1> HIDE DEF subs
<1> QED
  BY <1>3, <1>4, <1>5

LEMMA WriteTyped ==
  ASSUME NEW model \in Models("write")
  PROVE  ProjectWrite(model) \in
           [write_id: Ids, trace_id: Nullable(Values), changes: Nullable(Values)]
<1>1. /\ model["write_id"] \in Attribute(Values)
      /\ model["trace_id"] \in Attribute(Nullable(Values))
      /\ model["changes"] \in Attribute(Nullable(Values))
  BY DEF Models
<1> DEFINE id == Get(model, "write_id", "")
<1>2. id \in Ids
  BY <1>1, IdTyped, Zenon
<1>3. ProjectWrite(model) = [write_id |-> id, trace_id |-> Get(model, "trace_id", None),
                             changes |-> Get(model, "changes", None)]
  BY Zenon DEF ProjectWrite
<1> HIDE DEF id
<1> QED
  BY <1>1, <1>2, <1>3, NullableTyped

LEMMA WriteStartTyped ==
  ASSUME NEW model \in Models("write_start")
  PROVE  ProjectWriteStart(model) \in [write_id: Ids]
<1>1. model["write_id"] \in Attribute(Values)
  BY DEF Models
<1> DEFINE id == Get(model, "write_id", "")
<1>2. id \in Ids
  BY <1>1, IdTyped, Zenon
<1>3. ProjectWriteStart(model) = [write_id |-> id]
  BY Zenon DEF ProjectWriteStart
<1> HIDE DEF id
<1> QED
  BY <1>2, <1>3

LEMMA PlainStatusTyped ==
  ASSUME NEW model, model["write_status"] \in Attribute(Nullable(Statuses))
  PROVE  PlainStatus(model) \in PlainStatuses
<1>1. CASE Get(model, "write_status", None) = None
  <2>1. PlainStatus(model) = Status(FALSE, "")
    BY <1>1, Zenon DEF PlainStatus
  <2> QED
    BY <2>1, Blank, Zenon DEF PlainStatuses
<1>2. CASE Get(model, "write_status", None) # None
  <2>1. model["write_status"] \in Statuses
    BY <1>2 DEF Get, Attribute, Nullable
  <2>2. model["write_status"].value \in Ids
    BY <2>1 DEF Statuses, Ids
  <2>3. PlainStatus(model) = Status(FALSE, model["write_status"].value)
    BY <1>2, Zenon DEF PlainStatus
  <2> QED
    BY <2>2, <2>3, Zenon DEF PlainStatuses
<1> QED
  BY <1>1, <1>2

LEMMA WriteStatusTyped ==
  ASSUME NEW model \in Models("write_status")
  PROVE  ProjectWriteStatus(model) \in
           [write_id: Ids, write_status: PlainStatuses, error_detail: Nullable(Values),
            completed_at: Nullable(Times), changes: Nullable(Values)]
<1>1. /\ model["write_id"] \in Attribute(Values)
      /\ model["write_status"] \in Attribute(Nullable(Statuses))
      /\ model["error_detail"] \in Attribute(Nullable(Values))
      /\ model["completed_at"] \in Attribute(Nullable(Values))
      /\ model["changes"] \in Attribute(Nullable(Values))
      /\ model["result"] \in Attribute(Nullable(Values))
  BY DEF Models
<1> DEFINE id == Get(model, "write_id", "")
           at == IsoFormat(Get(model, "completed_at", None))
           changes == Or(Get(model, "changes", None), Get(model, "result", None))
<1>2. id \in Ids
  BY <1>1, IdTyped, Zenon
<1>3. at \in Nullable(Times)
  <2>1. Get(model, "completed_at", None) \in Nullable(Values)
    BY <1>1, NullableTyped
  <2> QED
    BY <2>1 DEF IsoFormat, Nullable, Times
<1>4. changes \in Nullable(Values)
  <2>1. /\ Get(model, "changes", None) \in Nullable(Values)
        /\ Get(model, "result", None) \in Nullable(Values)
    BY <1>1, NullableTyped
  <2> QED
    BY <2>1, Zenon DEF Or
<1>5. PlainStatus(model) \in PlainStatuses /\ Get(model, "error_detail", None) \in Nullable(Values)
  BY <1>1, PlainStatusTyped, NullableTyped
<1>6. ProjectWriteStatus(model) =
        [write_id |-> id, write_status |-> PlainStatus(model),
         error_detail |-> Get(model, "error_detail", None), completed_at |-> at,
         changes |-> changes]
  BY Zenon DEF ProjectWriteStatus
<1> HIDE DEF id, at, changes
<1> QED
  BY <1>2, <1>3, <1>4, <1>5, <1>6

(***************************************************************************)
(* For every model a client may answer with, of any release: what history  *)
(* records has every field, none of which stands for a missing attribute;  *)
(* its status is no member of an enum and its time is formatted.           *)
(***************************************************************************)
THEOREM OutputsPlain == Spec => []TypeOK
<1>1. Crossed => TypeOK
  <2> SUFFICES ASSUME Crossed, output # None PROVE output \in Outputs
    BY DEF TypeOK
  <2>1. op \in Ops /\ response \in Models(op) /\ output = Projection(response)
    BY ResponsesAssumption DEF Crossed
  <2>2. CASE op = "read"
    BY <2>1, <2>2, ReadTyped DEF Projection, Outputs
  <2>3. CASE op = "write"
    BY <2>1, <2>3, WriteTyped DEF Projection, Outputs
  <2>4. CASE op = "write_start"
    BY <2>1, <2>4, WriteStartTyped DEF Projection, Outputs
  <2>5. CASE op = "write_status"
    BY <2>1, <2>5, WriteStatusTyped DEF Projection, Outputs
  <2> QED
    BY <2>1, <2>2, <2>3, <2>4, <2>5 DEF Ops
<1> QED
  BY <1>1, CrossedInvariant, PTL

(***************************************************************************)
(* For every model a client may answer with: the loop decides on the       *)
(* recorded status as it would on the client's own.                        *)
(***************************************************************************)
THEOREM FatesKept == Spec => []FateKept
<1>1. Crossed => FateKept
  <2> SUFFICES ASSUME Crossed, op = "write_status", output # None
               PROVE  Interpreted(output.write_status.value) =
                        IF response["write_status"] \in {Missing, None} THEN ""
                        ELSE Interpreted(response["write_status"].value)
    BY Zenon DEF FateKept
  <2>1. output.write_status = PlainStatus(response)
    <3>1. output = ProjectWriteStatus(response)
      BY DEF Crossed, Projection
    <3> DEFINE id == Get(response, "write_id", "")
               at == IsoFormat(Get(response, "completed_at", None))
               changes == Or(Get(response, "changes", None), Get(response, "result", None))
    <3>2. output = [write_id |-> id, write_status |-> PlainStatus(response),
                    error_detail |-> Get(response, "error_detail", None), completed_at |-> at,
                    changes |-> changes]
      BY <3>1, Zenon DEF ProjectWriteStatus
    <3> HIDE DEF id, at, changes
    <3> QED
      BY <3>2
  <2>2. CASE response["write_status"] \in {Missing, None}
    <3>1. Get(response, "write_status", None) = None
      BY <2>2 DEF Get
    <3>2. PlainStatus(response) = Status(FALSE, "")
      BY <3>1, Zenon DEF PlainStatus
    <3>3. Status(FALSE, "").value = ""
      BY Zenon DEF Status
    <3>4. Interpreted("") = ""
      BY Zenon DEF Interpreted
    <3> QED
      BY <2>1, <2>2, <3>2, <3>3, <3>4, Zenon
  <2>3. CASE response["write_status"] \notin {Missing, None}
    <3>1. Get(response, "write_status", None) # None
      BY <2>3 DEF Get
    <3>2. PlainStatus(response) = Status(FALSE, response["write_status"].value)
      BY <3>1, Zenon DEF PlainStatus
    <3>3. PlainStatus(response).value = response["write_status"].value
      BY <3>2 DEF Status
    <3> QED
      BY <2>1, <2>3, <3>3, Zenon
  <2> QED
    BY <2>2, <2>3
<1> QED
  BY <1>1, CrossedInvariant, PTL

(***************************************************************************)
(* What the facade makes of a request, and the handler of that.            *)
(***************************************************************************)
LEMMA MeantIsGiven ==
  ASSUME NEW option \in Options, Meant(option)
  PROVE  Input[option] = request[option] /\ Input[option] # None
BY DEF Meant, Input

LEMMA GivenIsMeant ==
  ASSUME NEW option \in Options \ {"extraction_logic"}, Input[option] # None
  PROVE  Meant(option)
<1>1. Defaults(option) = None
  BY Zenon DEF Defaults
<1>2. request[option] \notin {Omitted, None}
  BY <1>1 DEF Input
<1> QED
  BY <1>2, Zenon DEF Meant

LEMMA LogicChosen ==
  /\ Logic(Input) # None
  /\ Meant("extraction_logic") => Logic(Input) = request["extraction_logic"]
<1>1. "extraction_logic" \in Options
  BY DEF Options
<1>2. Logic(Input) # None
  BY LogicAssumption, Zenon DEF Logic
<1>3. ASSUME Meant("extraction_logic") PROVE Logic(Input) = request["extraction_logic"]
  <2>1. Input["extraction_logic"] = request["extraction_logic"]
    BY <1>1, <1>3, MeantIsGiven
  <2>2. Input["extraction_logic"] \notin {None, ""}
    BY <1>3, <2>1, Zenon DEF Meant
  <2> QED
    BY <2>1, <2>2, Zenon DEF Logic
<1> QED
  BY <1>2, <1>3

\* What WriteKwargs sends of an extraction.
Chosen == [Input EXCEPT !["extraction_logic"] = Logic(Input)]

LEMMA ChosenIs ==
  /\ "extraction_logic" \in Given(Chosen, WriteOptions)
  /\ \A option \in WriteOptions : Meant(option) =>
       option \in Given(Chosen, WriteOptions) /\ Chosen[option] = request[option]
  /\ \A option \in Given(Chosen, WriteOptions) : Meant(option) \/ option = "extraction_logic"
<1>1. Chosen["extraction_logic"] = Logic(Input)
      /\ \A option \in Options \ {"extraction_logic"} : Chosen[option] = Input[option]
  BY DEF Chosen, Input, Options
<1>2. WriteOptions \subseteq Options /\ "extraction_logic" \in WriteOptions
  BY DEF WriteOptions, Options, ReadOptions
<1>3. "extraction_logic" \in Given(Chosen, WriteOptions)
  BY <1>1, <1>2, LogicChosen DEF Given
<1>4. ASSUME NEW option \in WriteOptions, Meant(option)
      PROVE  option \in Given(Chosen, WriteOptions) /\ Chosen[option] = request[option]
  <2>1. CASE option = "extraction_logic"
    BY <1>1, <1>3, <1>4, <2>1, LogicChosen
  <2>2. CASE option # "extraction_logic"
    BY <1>1, <1>2, <1>4, <2>2, MeantIsGiven DEF Given
  <2> QED
    BY <2>1, <2>2
<1>5. ASSUME NEW option \in Given(Chosen, WriteOptions), option # "extraction_logic"
      PROVE  Meant(option)
  <2>1. option \in Options \ {"extraction_logic"} /\ Chosen[option] # None
    BY <1>2, <1>5 DEF Given
  <2> QED
    BY <1>1, <2>1, GivenIsMeant
<1> QED
  BY <1>3, <1>4, <1>5

\* The mapping made of a ReadScope says of every object what the object says.
LEMMA ScopeSaid ==
  ASSUME NEW scope \in Scopes
  PROVE  SaysScope(PlainScope(scope), scope)
<1> DEFINE objects == [i \in DOMAIN scope.objects |->
                         [type |-> scope.objects[i].type, key |-> scope.objects[i].key]]
<1>1. /\ DOMAIN scope = {"class", "objects", "relations_scope"}
      /\ scope.objects \in Seq(ScopeObjects)
  BY DEF Scopes
<1>2. PlainScope(scope) = [objects |-> objects, relations_scope |-> scope.relations_scope]
  BY Zenon DEF PlainScope
<1>3. /\ DOMAIN PlainScope(scope) = {"objects", "relations_scope"}
      /\ PlainScope(scope).objects = objects
      /\ PlainScope(scope).relations_scope = scope.relations_scope
  <2> HIDE DEF objects
  <2> QED
    BY <1>2
<1>4. DOMAIN PlainScope(scope) = DOMAIN scope \ {"class"}
  BY <1>1, <1>3
<1>5. DOMAIN objects = DOMAIN scope.objects
  OBVIOUS
<1>6. ASSUME NEW i \in DOMAIN scope.objects
      PROVE  SaysObject(objects[i], scope.objects[i])
  <2>1. objects[i] = [type |-> scope.objects[i].type, key |-> scope.objects[i].key]
    BY <1>6
  <2>2. scope.objects[i] \in ScopeObjects
    BY <1>1
  <2>3. DOMAIN scope.objects[i] = {"class", "type", "key"}
    BY <2>2 DEF ScopeObjects, ScopeObject
  <2> HIDE DEF objects
  <2> QED
    BY <2>1, <2>3 DEF SaysObject
<1>7. \A field \in DOMAIN PlainScope(scope) \ {"objects"} :
        PlainScope(scope)[field] = scope[field]
  BY <1>3
<1> HIDE DEF objects
<1> QED
  BY <1>3, <1>4, <1>5, <1>6, <1>7, Zenon DEF SaysScope

(***************************************************************************)
(* For every request, every default extraction logic: what reaches the     *)
(* client call is what the caller asked for, falsy values included, and    *)
(* nothing else but an extraction logic; a scope of any length arrives as  *)
(* a plain mapping that has every field of every object, and the relations.*)
(***************************************************************************)
THEOREM RequestsKept == Spec => []RequestKept
<1> DEFINE Kept ==
      IF Meant("structured_mutations")
      THEN DOMAIN sent = {"structured_mutations"} /\ Arrived("structured_mutations")
      ELSE /\ \A option \in Options : Meant(option) => Arrived(option)
           /\ \A option \in DOMAIN sent : Meant(option) \/ option = "extraction_logic"
           /\ "extraction_logic" \in DOMAIN sent <=> op \in {"write", "write_start"}
<1>1. Crossed => RequestKept
  <2> SUFFICES ASSUME Crossed, sent # None PROVE Kept
    BY DEF RequestKept
  <2>1. sent = Kwargs(Input) /\ op \in Ops
    BY DEF Crossed
  <2>2. \A option \in Options \ Takes(op) : ~Meant(option)
    BY RequestsAssumption DEF Crossed, Meant
  <2>3. CASE op = "read"
    <3>1. sent = [option \in Given(Input, ReadOptions) |->
                    IF option = "scope" THEN PlainScope(Input["scope"]) ELSE Input[option]]
      BY <2>1, <2>3, Zenon DEF Kwargs, ReadKwargs
    <3>2. ReadOptions \subseteq Options \ {"extraction_logic"} /\ Takes(op) = ReadOptions
          /\ "structured_mutations" \in Options \ ReadOptions
      BY <2>3 DEF Options, ReadOptions, Takes
    <3>3. DOMAIN sent = Given(Input, ReadOptions)
      BY <3>1
    <3>4. ASSUME NEW option \in Options, Meant(option)
          PROVE  Arrived(option)
      <4>1. option \in ReadOptions
        BY <2>2, <3>2, <3>4
      <4>2. option \in Given(Input, ReadOptions) /\ Input[option] = request[option]
        BY <3>4, <4>1, MeantIsGiven DEF Given
      <4>3. CASE option = "scope"
        <5>1. request["scope"] \in Scopes
          BY <2>1, <3>4, <4>3, RequestsAssumption DEF Crossed, Meant
        <5>2. sent["scope"] = PlainScope(request["scope"])
          BY <3>1, <4>2, <4>3
        <5> QED
          BY <3>3, <4>2, <4>3, <5>1, <5>2, ScopeSaid, Zenon DEF Arrived
      <4>4. CASE option # "scope"
        <5>1. sent[option] = request[option]
          BY <3>1, <4>2, <4>4
        <5> QED
          BY <3>3, <4>2, <4>4, <5>1, Zenon DEF Arrived
      <4> QED
        BY <4>3, <4>4
    <3>5. ASSUME NEW option \in DOMAIN sent
          PROVE  Meant(option) /\ option # "extraction_logic"
      BY <3>2, <3>3, GivenIsMeant DEF Given
    <3> QED
      BY <2>2, <2>3, <3>2, <3>4, <3>5
  <2>4. CASE op \in {"write", "write_start"} /\ Meant("structured_mutations")
    <3>1. "structured_mutations" \in Options
      BY DEF Options
    <3>2. Input["structured_mutations"] = request["structured_mutations"]
          /\ Input["structured_mutations"] # None
      BY <2>4, <3>1, MeantIsGiven
    <3>3. Kwargs(Input) = WriteKwargs(Input)
      BY <2>4 DEF Kwargs
    <3>4. WriteKwargs(Input) = [option \in {"structured_mutations"} |-> Input[option]]
      BY <3>2 DEF WriteKwargs
    <3>5. DOMAIN sent = {"structured_mutations"}
          /\ sent["structured_mutations"] = request["structured_mutations"]
      BY <2>1, <3>2, <3>3, <3>4
    <3> QED
      BY <2>4, <3>5 DEF Arrived
  <2>5. CASE op \in {"write", "write_start"} /\ ~Meant("structured_mutations")
    <3>1. "structured_mutations" \in Options \ {"extraction_logic"}
      BY DEF Options
    <3>2. Input["structured_mutations"] = None
      BY <2>5, <3>1, GivenIsMeant
    <3>3. Kwargs(Input) = WriteKwargs(Input) /\ Takes(op) = WriteOptions
      BY <2>5 DEF Kwargs, Takes
    <3>4. WriteKwargs(Input) = [option \in Given(Chosen, WriteOptions) |-> Chosen[option]]
      BY <3>2 DEF WriteKwargs, Chosen
    <3>5. DOMAIN sent = Given(Chosen, WriteOptions)
          /\ \A option \in DOMAIN sent : sent[option] = Chosen[option]
      BY <2>1, <3>3, <3>4
    <3>6. ASSUME NEW option \in Options, Meant(option)
          PROVE  Arrived(option)
      <4>1. option \in WriteOptions /\ option # "scope"
        BY <2>2, <3>3, <3>6 DEF WriteOptions, ReadOptions
      <4>2. option \in DOMAIN sent /\ sent[option] = request[option]
        BY <3>5, <3>6, <4>1, ChosenIs
      <4> QED
        BY <4>1, <4>2 DEF Arrived
    <3> QED
      BY <2>5, <3>5, <3>6, ChosenIs
  <2>6. CASE op = "write_status"
    <3>1. sent = [option \in {} |-> None] /\ Takes(op) = {}
      BY <2>1, <2>6 DEF Kwargs, Takes
    <3>2. "structured_mutations" \in Options /\ DOMAIN sent = {}
      BY <3>1 DEF Options
    <3> QED
      BY <2>2, <2>6, <3>1, <3>2
  <2> QED
    BY <2>1, <2>3, <2>4, <2>5, <2>6 DEF Ops
<1> QED
  BY <1>1, CrossedInvariant, PTL
============================================================================
