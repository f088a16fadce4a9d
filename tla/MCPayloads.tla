----------------------------- MODULE MCPayloads -----------------------------
(***************************************************************************)
(* Small instances of Payloads: every option given, left out and falsy,    *)
(* scopes of up to two objects in either order, and models with any of     *)
(* their attributes missing, or None where the client allows it.           *)
(***************************************************************************)
EXTENDS Payloads

Person == ScopeObject("person", "id")
Unkeyed == ScopeObject("city", "empty")
ScopeChoices ==
  {Omitted, None} \cup
  {ReadScope(objects, relations) :
     objects \in {<<>>, <<Unkeyed>>, <<Person, Unkeyed>>, <<Unkeyed, Person>>},
     relations \in {"no_relations", "all_relations"}}

Choices(option) ==
  CASE option = "extraction_logic"     -> {Omitted, None, "", "fast", "deep"}
    [] option = "diff_engine"          -> {Omitted, None, "false", "true"}
    [] option = "structured_mutations" -> {Omitted, None, "empty", "some"}
    [] option = "scope"                -> ScopeChoices
    [] OTHER                           -> {Omitted, None, "", "given"}

NoOptions == [option \in Options |-> Omitted]
Reads ==
  {[NoOptions EXCEPT !["read_mode"] = mode, !["scope"] = scope, !["read_id"] = id] :
     mode \in Choices("read_mode"), scope \in Choices("scope"), id \in Choices("read_id")}
Writes ==
  {[NoOptions EXCEPT !["extraction_logic"] = logic, !["diff_engine"] = engine,
                     !["structured_mutations"] = mutations] :
     logic \in Choices("extraction_logic"), engine \in Choices("diff_engine"),
     mutations \in Choices("structured_mutations")}

MCRequests ==
  [o \in Ops |-> CASE o = "read"                     -> Reads
                   [] o \in {"write", "write_start"} -> Writes
                   [] o = "write_status"             -> {NoOptions}]
MCValues == {"answer", "query", "error", "id", "trace", "changes", "empty", "detail", "time",
             "queued", "completed", "failed", "not_found", "newer",
             "person", "city", "no_relations", "all_relations"}

Absent == {Missing, None}
MCItems == [sub_query: {Missing, "query"}, reader_result: Absent \cup {"answer"},
            error: Absent \cup {"error"}]
MCResponses ==
  [o \in Ops |->
     CASE o = "read" ->
            [reader_result: Absent \cup {"answer"}, trace_id: {Missing, "trace"},
             reader_results: Absent \cup {<<>>} \cup {<<item>> : item \in MCItems}]
       [] o = "write" ->
            [write_id: {Missing, "id"}, trace_id: Absent \cup {"trace"},
             changes: Absent \cup {"empty", "changes"}]
       [] o = "write_start" -> [write_id: {Missing, "id"}]
       [] o = "write_status" ->
            [write_id: {Missing, "id"}, error_detail: Absent \cup {"detail"},
             completed_at: Absent \cup {"time"}, changes: Absent \cup {"empty", "changes"},
             result: {Missing, "changes"},
             write_status: Absent \cup {Status(enum, value) : enum \in BOOLEAN, value \in
               {"queued", "completed", "failed", "not_found", "newer"}}]]
=============================================================================
