------------------------- MODULE XmemoryActivities -------------------------
(***************************************************************************)
(* One xmemory activity at a time, as the workflow facade schedules it:    *)
(* Temporal's record of it, the worker that runs the handler of            *)
(* activities.py, the client call the handler awaits, and the xmemory      *)
(* server that call reaches.  The modules that EXTEND this one add the     *)
(* workflow code that schedules activities and reads their results.        *)
(*                                                                         *)
(* Time is discrete and kept in countdown timers: every timer is what is   *)
(* left of the duration it was set to.                                     *)
(***************************************************************************)
EXTENDS XmemoryErrors, XmemoryBudgets, Sequences

CONSTANTS
  Margin,        (* XmemoryConfig.client_margin_seconds, in ticks            *)
  Latency,       (* bound: ticks by which the worker's clock for an attempt  *)
                 (* may trail Temporal's (dispatch, a busy event loop)       *)
  Policy,        (* RetryPolicy of each operation                            *)
  Handles,       (* the handles and workers a run starts with                *)
  ServerErrors,  (* the exceptions the client may raise on an answer         *)
  MaxCrashes     (* bound: crashes of the worker                             *)

WriteOps == {"write", "write_start"}
Ops == WriteOps \cup {"read", "write_status"}

PolicyType == [initial: Nat, maximum: Nat, attempts: Nat \ {0}]
CloseTimeouts == [stc: Nat \cup {None}, sch: Nat \cup {None}]
HandleType == [deadline: [Ops -> CloseTimeouts], bound: BOOLEAN]

ASSUME ActivitiesAssumption ==
  /\ Margin \in Nat /\ Latency \in Nat /\ MaxCrashes \in Nat
  /\ Policy \in [Ops -> PolicyType]
  /\ Handles \subseteq HandleType
  /\ ServerErrors \subseteq ExceptionType

VARIABLES
  handle,    (* start_to_close (stc) and schedule_to_close (sch) of each     *)
             (* operation; whether the worker bound a client                 *)
  up,        (* the worker runs                                              *)
  crashes,   (* how often it crashed                                         *)
  act,       (* Temporal's record of the current activity                    *)
  call,      (* the handler's client call: lost with the worker              *)
  posts      (* every write POST sent, in order, and what became of it       *)

activityVars == <<handle, up, crashes, act, call, posts>>

(***************************************************************************)
(* A POST is "sent" until the server accepts it and from then on carries   *)
(* its job's status; its position is the write id.  "indexing" stands for  *)
(* every status this release does not know.                                *)
(***************************************************************************)
Final == {"completed", "failed", "not_found"}
JobStatus == {"queued", "indexing"} \cup Final

Pending == [error |-> "", id |-> 0, status |-> ""]
Failed(type) == [Pending EXCEPT !.error = type]
NoCall == [open |-> FALSE, client |-> 0, post |-> 0, reply |-> None]
NoActivity == [op |-> "read", id |-> 0, phase |-> "idle", attempt |-> 0, wait |-> 0,
               interval |-> 0, left |-> 0, total |-> None, cancelled |-> FALSE,
               result |-> Pending]

ActivitiesInit ==
  /\ handle \in Handles
  /\ up = TRUE /\ crashes = 0
  /\ act = NoActivity /\ call = NoCall /\ posts = <<>>

(***************************************************************************)
(* Temporal: scheduling, retries and timeouts.                             *)
(***************************************************************************)
Scheduled(op, id) ==
  [op |-> op, id |-> id, phase |-> "queued", attempt |-> 1, wait |-> 0,
   interval |-> Policy[op].initial, left |-> 0,
   total |-> handle.deadline[op].sch, cancelled |-> FALSE, result |-> Pending]

Backoff(f) == IF f.delay = None THEN act.interval ELSE f.delay * Second

MayRetry(f) ==
  /\ ~f.non_retryable /\ ~act.cancelled
  /\ act.attempt < Policy[act.op].attempts
  /\ act.total # None => Backoff(f) < act.total

\* An attempt ended with failure f: the next one is queued, or f is final.
Settled(f) ==
  IF MayRetry(f)
  THEN [act EXCEPT !.phase = "queued", !.attempt = @ + 1, !.wait = Backoff(f),
                   !.interval = Min({2 * @, Policy[act.op].maximum}), !.left = 0]
  ELSE [act EXCEPT !.phase = "done", !.result = Failed(f.type), !.left = 0]

\* The activity after its workflow was cancelled (TRY_CANCEL, the default): one
\* that waits ends; a running handler never heartbeats, so it hears nothing.
Cancelled ==
  CASE act.phase = "queued"  -> [act EXCEPT !.phase = "done", !.cancelled = TRUE,
                                            !.result = Failed("Cancelled")]
    [] act.phase = "running" -> [act EXCEPT !.cancelled = TRUE]
    [] OTHER                 -> act

AttemptTimesOut ==
  /\ act.phase = "running" /\ act.left = 0 /\ act.total # 0
  /\ act' = Settled(Failure("StartToClose", TRUE, None))
  /\ call' = NoCall
  /\ UNCHANGED <<handle, up, crashes, posts>>

TotalTimesOut ==
  /\ act.phase \in {"queued", "running"} /\ act.total = 0
  /\ act' = Settled(Failure("ScheduleToClose", FALSE, None))
  /\ call' = NoCall
  /\ UNCHANGED <<handle, up, crashes, posts>>

(***************************************************************************)
(* The worker: XmemoryActivities.read, write, write_start, write_status.   *)
(***************************************************************************)
\* `info.start_to_close_timeout or info.schedule_to_close_timeout`
Budget(op) ==
  LET deadline == handle.deadline[op]
  IN IF deadline.stc \in {None, 0} THEN deadline.sch ELSE deadline.stc

\* What the handler raises before it calls the client.
Refusal(op) ==
  CASE ~handle.bound       -> "XmemoryNotBound"
    [] handle.bound /\ Budget(op) = None -> "XmemoryNoDeadline"
    [] OTHER               -> ""

Startable == up /\ act.phase = "queued" /\ act.wait = 0 /\ act.total # 0

\* Mutant: the refused task is queued again, for some other worker.
Refuse_Requeues ==
  /\ Startable /\ Refusal(act.op) # ""
  /\ act' = [act EXCEPT !.wait = act.interval]
  /\ UNCHANGED <<handle, up, crashes, call, posts>>

Refuse ==
  /\ Startable /\ Refusal(act.op) # ""
  /\ act' = Settled(Failure(Refusal(act.op), FALSE, None))
  /\ UNCHANGED <<handle, up, crashes, call, posts>>

\* What Temporal grants the attempt that starts now.
Granted ==
  Min({t \in {handle.deadline[act.op].stc, act.total} : t # None /\ t > 0})

\* Where a start_to_close alone is set, a bound worker starts its attempts within
\* what the client's budget leaves of it: the margin, or a fifth of the deadline.
StartsInTime ==
  \A h \in Handles, op \in Ops :
    LET stc == h.deadline[op].stc
    IN h.bound /\ h.deadline[op].sch = None /\ stc \notin {None, 0}
         => IF stc > Margin THEN Latency < Margin
                            ELSE 5 * Latency < stc /\ Tenth + Latency < stc

\* `lag` is what Temporal's clock has counted when the handler's starts.
Begin(lag) ==
  /\ Startable /\ Refusal(act.op) = "" /\ lag < Granted
  /\ act' = [act EXCEPT !.phase = "running", !.left = Granted - lag,
                        !.total = IF @ = None THEN None ELSE @ - lag]
  /\ call' = [open |-> TRUE, client |-> ClientTimeout(Budget(act.op), Margin),
              post |-> IF act.op \in WriteOps THEN Len(posts) + 1 ELSE 0,
              reply |-> None]
  /\ posts' = IF act.op \in WriteOps THEN Append(posts, "sent") ELSE posts
  /\ UNCHANGED <<handle, up, crashes>>

Awaiting == up /\ act.phase = "running" /\ call.open

\* The client returned: the handler projects the answer.
Receive ==
  /\ Awaiting /\ call.reply # None
  /\ act' = [act EXCEPT !.phase = "done", !.result = call.reply, !.left = 0]
  /\ call' = NoCall
  /\ UNCHANGED <<handle, up, crashes, posts>>

\* Mutant: a call that timed out is taken to have worked.
Raise_TimeoutSucceeds(exc) ==
  /\ Awaiting
  /\ act' = IF exc.kind = "transport"
            THEN [act EXCEPT !.phase = "done", !.result = Pending, !.left = 0]
            ELSE Settled(ToApplicationError(exc))
  /\ call' = NoCall
  /\ UNCHANGED <<handle, up, crashes, posts>>

\* The client raised: the handler raises to_application_error of it.
Raise(exc) ==
  /\ Awaiting
  /\ act' = Settled(ToApplicationError(exc))
  /\ call' = NoCall
  /\ UNCHANGED <<handle, up, crashes, posts>>

ClientTimesOut == call.client = 0 /\ Raise(Plain("transport"))

Crash ==
  /\ up /\ crashes < MaxCrashes
  /\ up' = FALSE /\ crashes' = crashes + 1 /\ call' = NoCall
  /\ UNCHANGED <<handle, act, posts>>

Restart ==
  /\ ~up /\ up' = TRUE
  /\ UNCHANGED <<handle, crashes, act, call, posts>>

(***************************************************************************)
(* The server: it may accept a POST whose caller is gone, and never has to *)
(* answer.  It is external code, taken at what the comments of             *)
(* workflow_api.py rely on: write_async is transactional.                  *)
(***************************************************************************)
Enqueue(n) ==
  /\ posts[n] = "sent"
  /\ posts' = [posts EXCEPT ![n] = "queued"]
  /\ UNCHANGED <<handle, up, crashes, act, call>>

Progress(n, status) ==
  /\ posts[n] \in {"queued", "indexing"} /\ status \in JobStatus \ {"queued", posts[n]}
  /\ posts' = [posts EXCEPT ![n] = status]
  /\ UNCHANGED <<handle, up, crashes, act, call>>

\* What the server can say now; the client may receive it much later.
Replies ==
  CASE act.op = "read"         -> {Pending}
    [] act.op = "write"        -> {Pending : n \in {call.post} \cap {m \in DOMAIN posts : posts[m] = "completed"}}
    [] act.op = "write_start"  -> {[Pending EXCEPT !.id = n] :
                                     n \in {call.post} \cap {m \in DOMAIN posts : posts[m] \in JobStatus}}
    [] act.op = "write_status" -> {[Pending EXCEPT !.id = n, !.status = posts[n]] :
                                     n \in {act.id} \cap DOMAIN posts}

Answer ==
  /\ act.phase = "running" /\ call.open /\ call.reply = None
  /\ \E reply \in Replies : call' = [call EXCEPT !.reply = reply]
  /\ UNCHANGED <<handle, up, crashes, act, posts>>

ServerError == \E exc \in ServerErrors : call.reply = None /\ Raise(exc)

(***************************************************************************)
(* Time.  A due timeout of a running attempt fires before time goes on;    *)
(* a workflow timer or a queued attempt may be late.                       *)
(***************************************************************************)
Down(t) == IF t \in {None, 0} THEN t ELSE t - 1

NothingDue ==
  act.phase = "running" => act.left > 0 /\ (call.open => call.client > 0)

ActivityTimers ==
  CASE act.phase = "queued"  -> {act.wait, act.total}
    [] act.phase = "running" -> {act.left}
    [] OTHER                 -> {}

Elapse ==
  /\ act' = IF act.phase \in {"queued", "running"}
            THEN [act EXCEPT !.wait = Down(@), !.left = Down(@), !.total = Down(@)]
            ELSE act
  /\ call' = [call EXCEPT !.client = Down(@)]

ActivityStep ==
  \/ Refuse \/ Receive \/ ClientTimesOut \/ ServerError
  \/ \E lag \in 0..Latency : Begin(lag)
  \/ AttemptTimesOut \/ TotalTimesOut
  \/ Crash \/ Restart \/ Answer
  \/ \E n \in DOMAIN posts :
       Enqueue(n) \/ \E status \in JobStatus : Progress(n, status)

ActivityFairness ==
  /\ WF_activityVars(Refuse) /\ WF_activityVars(\E lag \in 0..Latency : Begin(lag))
  /\ WF_activityVars(Receive) /\ WF_activityVars(ClientTimesOut)
  /\ WF_activityVars(AttemptTimesOut) /\ WF_activityVars(TotalTimesOut)
  /\ WF_activityVars(Restart)

(***************************************************************************)
(* Shapes, for the type invariants of the modules that extend this one.    *)
(***************************************************************************)
FailureNames == ErrorTypes \cup {"OverflowError", "StartToClose", "ScheduleToClose", "Cancelled"}
ResultType == [error: {""} \cup FailureNames, id: Nat, status: {""} \cup JobStatus]
ActivityType ==
  [op: Ops, id: Nat, phase: {"idle", "queued", "running", "done"}, attempt: Nat,
   wait: Nat, interval: Nat, left: Nat, total: Nat \cup {None}, cancelled: BOOLEAN,
   result: ResultType]
CallType == [open: BOOLEAN, client: Nat, post: Nat, reply: ResultType \cup {None}]
ActivityTypeOK ==
  /\ handle \in HandleType /\ up \in BOOLEAN /\ crashes \in 0..MaxCrashes
  /\ act \in ActivityType /\ call \in CallType
  /\ posts \in Seq({"sent"} \cup JobStatus)
============================================================================
