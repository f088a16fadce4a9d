------------------------------ MODULE Payloads ------------------------------
(***************************************************************************)
(* What crosses the two boundaries of an activity: the facade's request,   *)
(* the keyword arguments the handler makes of it, the model the installed  *)
(* client answers with, and the projection that is recorded in history.    *)
(*                                                                         *)
(* A value is one of a few names; "" and "false" and "empty" are falsy.    *)
(* An instance of a dataclass has the fields of its class and the class    *)
(* itself; a plain mapping has fields only.                                *)
(***************************************************************************)
EXTENDS PollRules, Optional, Sequences

CONSTANTS
  Missing,        (* an attribute this release of the client does not carry  *)
  Omitted,        (* an argument the caller left out                         *)
  DefaultLogic,   (* XmemoryConfig.default_extraction_logic                  *)
  Requests,       (* the calls of the facade, and of the interceptor         *)
  Values,         (* what a field of a model or of a scope may hold          *)
  Responses       (* the models the client may answer with, per operation    *)

Ops == {"read", "write", "write_start", "write_status"}
Options == {"read_mode", "scope", "read_id", "extraction_logic", "diff_engine",
            "structured_mutations"}
ReadOptions == {"read_mode", "scope", "read_id"}
WriteOptions == Options \ ReadOptions

\* The signatures: an option an operation does not take is left out.
Takes(o) ==
  CASE o = "read"                     -> ReadOptions
    [] o \in {"write", "write_start"} -> WriteOptions
    [] o = "write_status"             -> {}

(***************************************************************************)
(* The dataclasses of a scope: the records a read may touch, in order, and *)
(* whether the relations among them are part of it.                        *)
(***************************************************************************)
ScopeObject(type, key) == [class |-> "ScopeObject", type |-> type, key |-> key]
ReadScope(objects, relations) ==
  [class |-> "ReadScope", objects |-> objects, relations_scope |-> relations]
ScopeObjects == {ScopeObject(type, key) : type \in Values, key \in Values}
Scopes == [class: {"ReadScope"}, objects: Seq(ScopeObjects), relations_scope: Values]

(***************************************************************************)
(* The client's models: any attribute may be one this release lacks.  A    *)
(* status is a member of the client's enum or a plain string.  The client  *)
(* declares write_id and sub_query as strings: they may be missing, but    *)
(* are never None.  What is passed on as it is (changes, result, a         *)
(* reader_result) is taken for plain data.                                 *)
(***************************************************************************)
Nullable(values) == values \cup {None}
Attribute(values) == values \cup {Missing}
Status(enum, value) == [enum |-> enum, value |-> value]
Statuses == [enum: BOOLEAN, value: Values]
Items == [sub_query: Attribute(Values), reader_result: Attribute(Nullable(Values)),
          error: Attribute(Nullable(Values))]
Models(o) ==
  CASE o = "read" ->
         [reader_result: Attribute(Nullable(Values)), trace_id: Attribute(Nullable(Values)),
          reader_results: Attribute(Nullable(Seq(Items)))]
    [] o = "write" ->
         [write_id: Attribute(Values), trace_id: Attribute(Nullable(Values)),
          changes: Attribute(Nullable(Values))]
    [] o = "write_start" -> [write_id: Attribute(Values)]
    [] o = "write_status" ->
         [write_id: Attribute(Values), write_status: Attribute(Nullable(Statuses)),
          error_detail: Attribute(Nullable(Values)), completed_at: Attribute(Nullable(Values)),
          changes: Attribute(Nullable(Values)), result: Attribute(Nullable(Values))]

ASSUME LogicAssumption == DefaultLogic # None
ASSUME MissingAssumption == Missing \notin Nullable(Values) \cup {""}
ASSUME RequestsAssumption ==
  \A o \in Ops : \A r \in Requests[o] :
    /\ \A option \in Options \ Takes(o) : r[option] = Omitted
    /\ r["scope"] \in {Omitted, None} \cup Scopes
ASSUME ResponsesAssumption == \A o \in Ops : Responses[o] \subseteq Models(o)

VARIABLES
  op,         (* the operation                                               *)
  request,    (* the options of its caller                                   *)
  payload,    (* the input recorded with the activity, None before it        *)
  sent,       (* the keyword arguments of the client call, None before it    *)
  response,   (* the client's answer, None before it                         *)
  output      (* what the handler returned, None before it                   *)

vars == <<op, request, payload, sent, response, output>>

Init ==
  /\ op \in Ops
  /\ request \in Requests[op]
  /\ payload = None /\ sent = None /\ response = None /\ output = None

(***************************************************************************)
(* The request: facade, payload, keyword arguments.                        *)
(***************************************************************************)
\* write_async_start asks for "deep" where its caller says nothing.
Defaults(option) ==
  IF op = "write_start" /\ option = "extraction_logic" THEN "deep" ELSE None

Input == [option \in Options |->
            IF request[option] = Omitted THEN Defaults(option) ELSE request[option]]

Schedule ==
  /\ payload = None
  /\ payload' = Input
  /\ UNCHANGED <<op, request, sent, response, output>>

Given(input, options) == {option \in options : input[option] # None}

\* Mutant: the conversion knows the objects only.
PlainScope_ObjectsOnly(scope) ==
  [objects |-> [i \in DOMAIN scope.objects |->
                  [type |-> scope.objects[i].type, key |-> scope.objects[i].key]]]

\* The client makes its own ReadScope of a plain mapping.
PlainScope(scope) ==
  [ objects |-> [i \in DOMAIN scope.objects |->
                   [type |-> scope.objects[i].type, key |-> scope.objects[i].key]],
    relations_scope |-> scope.relations_scope ]

ReadKwargs(input) ==
  [option \in Given(input, ReadOptions) |->
     IF option = "scope" THEN PlainScope(input["scope"]) ELSE input[option]]

Logic(input) ==
  IF input["extraction_logic"] \in {None, ""} THEN DefaultLogic ELSE input["extraction_logic"]

\* Mutations are applied as they are: nothing is extracted from the text.
WriteKwargs(input) ==
  LET chosen == [input EXCEPT !["extraction_logic"] = Logic(input)]
  IN IF input["structured_mutations"] # None
     THEN [option \in {"structured_mutations"} |-> input[option]]
     ELSE [option \in Given(chosen, WriteOptions) |-> chosen[option]]

Kwargs(input) ==
  CASE op = "read"                     -> ReadKwargs(input)
    [] op \in {"write", "write_start"} -> WriteKwargs(input)
    [] op = "write_status"             -> [option \in {} |-> None]

Send ==
  /\ payload # None /\ sent = None
  /\ sent' = Kwargs(payload)
  /\ UNCHANGED <<op, request, payload, response, output>>

Answer ==
  /\ sent # None /\ response = None
  /\ response' \in Responses[op]
  /\ UNCHANGED <<op, request, payload, sent, output>>

(***************************************************************************)
(* The projections; a sub-answer degrades field by field, as the answer    *)
(* does.                                                                   *)
(***************************************************************************)
Get(model, attribute, default) ==
  IF model[attribute] = Missing THEN default ELSE model[attribute]
Or(value, other) == IF value \in {None, "", "empty"} THEN other ELSE value

SubAnswer(item) ==
  [ sub_query     |-> Get(item, "sub_query", ""),
    reader_result |-> Get(item, "reader_result", None),
    error         |-> Get(item, "error", None) ]

ProjectRead(model) ==
  LET raw == Get(model, "reader_results", None)
  IN [ reader_result |-> Get(model, "reader_result", None),
       sub_answers   |-> IF raw = None THEN <<>> ELSE [i \in DOMAIN raw |-> SubAnswer(raw[i])],
       trace_id      |-> Get(model, "trace_id", None) ]

ProjectWrite(model) ==
  [ write_id |-> Get(model, "write_id", ""), trace_id |-> Get(model, "trace_id", None),
    changes  |-> Get(model, "changes", None) ]

ProjectWriteStart(model) == [write_id |-> Get(model, "write_id", "")]

\* Mutant: the member of the client's enum is recorded as it is.
PlainStatus_KeepsEnum(model) ==
  IF Get(model, "write_status", None) = None THEN Status(FALSE, "") ELSE model["write_status"]

\* Mutant: an answer without a status is taken for a write that is gone.
PlainStatus_MissingIsGone(model) ==
  IF Get(model, "write_status", None) = None THEN Status(FALSE, "not_found")
  ELSE Status(FALSE, model["write_status"].value)

\* `getattr(status, "value", status) or ""`
PlainStatus(model) ==
  IF Get(model, "write_status", None) = None THEN Status(FALSE, "")
  ELSE Status(FALSE, model["write_status"].value)

IsoFormat(time) == IF time = None THEN None ELSE [iso |-> time]

ProjectWriteStatus(model) ==
  [ write_id     |-> Get(model, "write_id", ""),
    write_status |-> PlainStatus(model),
    error_detail |-> Get(model, "error_detail", None),
    completed_at |-> IsoFormat(Get(model, "completed_at", None)),
    changes      |-> Or(Get(model, "changes", None), Get(model, "result", None)) ]

Projection(model) ==
  CASE op = "read"         -> ProjectRead(model)
    [] op = "write"        -> ProjectWrite(model)
    [] op = "write_start"  -> ProjectWriteStart(model)
    [] op = "write_status" -> ProjectWriteStatus(model)

Project ==
  /\ response # None /\ output = None
  /\ output' = Projection(response)
  /\ UNCHANGED <<op, request, payload, sent, response>>

Ended == output # None /\ UNCHANGED vars

Next == Schedule \/ Send \/ Answer \/ Project \/ Ended

Spec == Init /\ [][Next]_vars

(***************************************************************************)
(* The dataclasses of dto.py: whatever attributes the installed client's   *)
(* models lack, what is recorded has every field and nothing that says     *)
(* Missing, its status is a plain string and its time is formatted.        *)
(***************************************************************************)
Ids == Values \cup {""}
PlainStatuses == {Status(FALSE, value) : value \in Ids}
Times == [iso: Values]
Outputs ==
  CASE op = "read" ->
         [reader_result: Nullable(Values), trace_id: Nullable(Values),
          sub_answers: Seq([sub_query: Ids, reader_result: Nullable(Values),
                            error: Nullable(Values)])]
    [] op = "write" -> [write_id: Ids, trace_id: Nullable(Values), changes: Nullable(Values)]
    [] op = "write_start" -> [write_id: Ids]
    [] op = "write_status" ->
         [write_id: Ids, write_status: PlainStatuses, error_detail: Nullable(Values),
          completed_at: Nullable(Times), changes: Nullable(Values)]
TypeOK == output # None => output \in Outputs

(***************************************************************************)
(* Every option its caller gave reaches the client: a scope as a plain     *)
(* mapping, free of the dataclasses, that names the same objects in the    *)
(* same order by every field they have, under the same relations_scope;    *)
(* any other option as it was given, a FALSE or an empty list included.    *)
(* Nothing the caller left out is sent but an extraction logic; and a      *)
(* structured write, even an empty one, never asks for an extraction,      *)
(* while every other write says which one it wants.  An empty extraction   *)
(* logic is none.                                                          *)
(***************************************************************************)
Meant(option) ==
  /\ request[option] \notin {Omitted, None}
  /\ option = "extraction_logic" => request[option] # ""
SaysObject(plain, object) ==
  /\ DOMAIN plain = DOMAIN object \ {"class"}
  /\ \A field \in DOMAIN plain : plain[field] = object[field]
SaysScope(plain, scope) ==
  /\ DOMAIN plain = DOMAIN scope \ {"class"}
  /\ DOMAIN plain.objects = DOMAIN scope.objects
  /\ \A i \in DOMAIN scope.objects : SaysObject(plain.objects[i], scope.objects[i])
  /\ \A field \in DOMAIN plain \ {"objects"} : plain[field] = scope[field]
Arrived(option) ==
  /\ option \in DOMAIN sent
  /\ IF option = "scope" THEN SaysScope(sent["scope"], request["scope"])
                         ELSE sent[option] = request[option]
RequestKept ==
  sent # None =>
    IF Meant("structured_mutations")
    THEN DOMAIN sent = {"structured_mutations"} /\ Arrived("structured_mutations")
    ELSE /\ \A option \in Options : Meant(option) => Arrived(option)
         /\ \A option \in DOMAIN sent : Meant(option) \/ option = "extraction_logic"
         /\ "extraction_logic" \in DOMAIN sent <=> op \in {"write", "write_start"}

(***************************************************************************)
(* The loop that reads the recorded status decides as it would on the      *)
(* client's own, member of an enum or plain string; an answer that names no*)
(* status decides nothing.                                                 *)
(***************************************************************************)
FateKept ==
  op = "write_status" /\ output # None =>
    Interpreted(output.write_status.value) =
      IF response["write_status"] \in {Missing, None} THEN ""
      ELSE Interpreted(response["write_status"].value)
=============================================================================
