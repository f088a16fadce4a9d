---------------------------- MODULE DirectCalls ----------------------------
(***************************************************************************)
(* A workflow that awaits the facade's other methods one after another:    *)
(* read, write, write_async_start, and write_status on an id it was given. *)
(***************************************************************************)
EXTENDS XmemoryActivities

CONSTANT MaxCalls   (* bound: calls the workflow makes *)

ASSUME MaxCallsAssumption == MaxCalls \in Nat
\* WorkflowXmemory has one write_retry_policy for both.
ASSUME SharedWritePolicy == Policy["write_start"] = Policy["write"]

VARIABLE log   (* the calls that have returned, in order *)

vars == <<activityVars, log>>

Init == ActivitiesInit /\ log = << >>

WriteIds == {log[i].result.id : i \in {j \in DOMAIN log : log[j].op = "write_start"}} \ {0}

Issue(op, id) ==
  /\ up /\ act.phase = "idle" /\ Len(log) < MaxCalls
  /\ act' = Scheduled(op, id)
  /\ UNCHANGED <<handle, up, crashes, call, posts, log>>

Call == \/ \E op \in Ops \ {"write_status"} : Issue(op, 0)
        \/ \E id \in WriteIds : Issue("write_status", id)

\* Mutants: a failed write, or read, is made again by the workflow.
Repeated(ops) ==
  /\ up /\ act.phase = "done" /\ act.op \in ops /\ act.result.error # ""
  /\ act' = Scheduled(act.op, act.id)
  /\ UNCHANGED <<handle, up, crashes, call, posts, log>>
Return_RepeatsWrites == Repeated(WriteOps)
Return_RepeatsReads == Repeated({"read"})

Return ==
  /\ up /\ act.phase = "done"
  /\ log' = Append(log, [op |-> act.op, id |-> act.id, result |-> act.result])
  /\ act' = NoActivity
  /\ UNCHANGED <<handle, up, crashes, call, posts>>

Tick ==
  /\ NothingDue
  /\ \E t \in ActivityTimers : t \notin {None, 0}
  /\ Elapse
  /\ UNCHANGED <<handle, up, crashes, posts, log>>

\* The workflow has made its calls.
Ended == Len(log) = MaxCalls /\ UNCHANGED vars

Next ==
  \/ Call \/ Return \/ Tick \/ Ended
  \/ ActivityStep /\ UNCHANGED log

Fairness == ActivityFairness /\ WF_vars(Tick) /\ WF_vars(Return)

Spec == Init /\ [][Next]_vars /\ Fairness

(***************************************************************************)
(* Types of the calls made and of the activity under way.                  *)
(***************************************************************************)
TypeOK ==
  /\ ActivityTypeOK
  /\ log \in Seq([op: Ops, id: Nat, result: ResultType])

\* The write calls made, but for those the handler refused.
Refusals == {"XmemoryNotBound", "XmemoryNoDeadline"}
Writes == {i \in DOMAIN log : log[i].op \in WriteOps /\ log[i].result.error \notin Refusals}
Succeeded(op) == {i \in DOMAIN log : log[i].op = op /\ log[i].result.error = ""}

(***************************************************************************)
(* Over any sequence of calls the server is sent no more write POSTs than  *)
(* the write policy, which write and write_async_start share, grants the   *)
(* write calls made: a read, a poll, a refused call, a crash or a late     *)
(* answer never sends one, and under the default each write call sends at  *)
(* most one.                                                               *)
(***************************************************************************)
WritesMade == Cardinality(Writes) + (IF act.phase # "idle" /\ act.op \in WriteOps THEN 1 ELSE 0)
AtMostOncePerWrite == Len(posts) <= Policy["write"].attempts * WritesMade

(***************************************************************************)
(* A call that succeeds did its work: each write that returned has a job of*)
(* its own that is applied, and each write_async_start that returned has an*)
(* accepted job of its own, also when answers of other attempts were lost. *)
(***************************************************************************)
SuccessIsReal ==
  /\ Cardinality({n \in DOMAIN posts : posts[n] = "completed"}) >= Cardinality(Succeeded("write"))
  /\ \A i, j \in Succeeded("write_start") :
       /\ posts[log[i].result.id] \in JobStatus
       /\ log[i].result.id = log[j].result.id => i = j

(***************************************************************************)
(* Temporal never abandons an attempt whose client still waits, where only *)
(* a start_to_close is set, as the facade does.                            *)
(***************************************************************************)
Outlived == act.phase = "running" /\ call.open /\ act.left = 0
ClientGivesUpFirst == Outlived => handle.deadline[act.op].sch # None

(***************************************************************************)
(* README and tests/test_activities.py: at whatever deadline Temporal      *)
(* assigned, the client gives up first.                                    *)
(***************************************************************************)
ClientFirstAtAnyDeadline == ~Outlived

(***************************************************************************)
(* Every call returns or raises: no crash, silent server or chain of       *)
(* retries keeps the workflow waiting for ever.                            *)
(***************************************************************************)
EveryCallReturns == act.phase = "queued" ~> act.phase = "idle"
============================================================================
