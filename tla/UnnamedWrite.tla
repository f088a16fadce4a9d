---------------------------- MODULE UnnamedWrite ----------------------------
(***************************************************************************)
(* write_durable with a client whose answer carries no write_id, which the *)
(* projections of dto.py turn into the empty id: 0 here, an id no POST has.*)
(* A poll of it finds nothing.                                             *)
(***************************************************************************)
EXTENDS DurableWrite

Answering == act.phase = "running" /\ call.open /\ call.reply = None

\* project_write_start: `getattr(result, "write_id", "")`
AnswerUnnamed ==
  /\ Answering /\ act.op = "write_start" /\ posts[call.post] \in JobStatus
  /\ call' = [call EXCEPT !.reply = Pending]
  /\ UNCHANGED <<handle, up, crashes, act, posts, args, wf>>

AnswerNothingFound ==
  /\ Answering /\ act.op = "write_status" /\ act.id = 0
  /\ call' = [call EXCEPT !.reply = [Pending EXCEPT !.status = "not_found"]]
  /\ UNCHANGED <<handle, up, crashes, act, posts, args, wf>>

UnnamedSpec == Init /\ [][Next \/ AnswerUnnamed \/ AnswerNothingFound]_vars /\ Fairness

(***************************************************************************)
(* workflow_api.py, of XmemoryWriteNotFound: a not_found here means the    *)
(* write is genuinely gone.                                                *)
(***************************************************************************)
NotFoundIsGone ==
  wf.outcome = Outcome("loop", "XmemoryWriteNotFound") =>
    \A n \in Accepted : posts[n] = "not_found"
=============================================================================
