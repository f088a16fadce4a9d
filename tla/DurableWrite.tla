--------------------------- MODULE DurableWrite ----------------------------
(***************************************************************************)
(* WorkflowXmemory.write_durable: one activity enqueues the write, then a  *)
(* loop of status polls and durable timers watches the job until it is     *)
(* final or max_wait leaves no room for another poll.                      *)
(***************************************************************************)
EXTENDS XmemoryActivities, PollRules

CONSTANT Waits   (* the poll_interval, max_poll_interval, max_wait a caller passes *)

WaitType == [poll_interval: Nat, max_poll_interval: Nat, max_wait: Nat]
ASSUME WaitsAssumption == Waits \subseteq WaitType

VARIABLES
  args,   (* the arguments of this call                                    *)
  wf      (* the call: where it is, its locals, and how it ended           *)

vars == <<activityVars, args, wf>>

OutcomeType == [by: {"", "activity", "loop", "caller"}, type: {"", "completed"} \cup FailureNames]
DurableType ==
  [pc: {"enqueue", "starting", "polling", "sleeping", "done"}, id: Nat,
   delay: Nat, left: Nat, timer: Nat, outcome: OutcomeType]

\* `left` is deadline - workflow.now(), `timer` what is left of workflow.sleep.
\* An outcome of the "activity" surfaced as an ActivityError, one of the
\* "loop" was returned or raised by write_durable itself, and "caller" is the
\* cancellation of the workflow that called it.
Running == [by |-> "", type |-> ""]
Outcome(by, type) == [by |-> by, type |-> type]

Init ==
  /\ ActivitiesInit
  /\ args \in Waits
  /\ wf = [pc |-> "enqueue", id |-> 0, delay |-> 0, left |-> 0, timer |-> 0,
           outcome |-> Running]

Schedule(op, id) ==
  /\ up
  /\ act' = Scheduled(op, id)
  /\ UNCHANGED <<handle, up, crashes, call, posts, args>>

Finish(outcome) ==
  /\ wf' = [wf EXCEPT !.pc = "done", !.outcome = outcome]
  /\ UNCHANGED <<activityVars, args>>

\* write_async_start
Start ==
  /\ wf.pc = "enqueue"
  /\ Schedule("write_start", 0)
  /\ wf' = [wf EXCEPT !.pc = "starting"]

Returned == up /\ act.phase = "done"

\* Mutant: a failed enqueue is tried again by the workflow.
ActivityFails_Reenqueues ==
  /\ wf.pc = "starting" /\ Returned /\ act.result.error # ""
  /\ Schedule("write_start", 0)
  /\ UNCHANGED wf

ActivityFails ==
  /\ wf.pc \in {"starting", "polling"} /\ Returned /\ act.result.error # ""
  /\ Finish(Outcome("activity", act.result.error))

\* The id is known: the deadline is fixed and the first poll scheduled at once.
Started ==
  /\ wf.pc = "starting" /\ Returned /\ act.result.error = ""
  /\ Schedule("write_status", act.result.id)
  /\ wf' = [wf EXCEPT !.pc = "polling", !.id = act.result.id,
                      !.delay = args.poll_interval, !.left = args.max_wait]

Polled == wf.pc = "polling" /\ Returned /\ act.result.error = ""

Terminal ==
  /\ Polled /\ Interpreted(act.result.status) # ""
  /\ Finish(Outcome("loop", Interpreted(act.result.status)))

NoRoom == wf.delay >= wf.left

\* Mutant: an unfinished job is reported as failed.
WriteTimeout_IsFailure ==
  /\ Polled /\ Interpreted(act.result.status) = "" /\ NoRoom
  /\ Finish(Outcome("loop", "XmemoryWriteFailed"))

\* `workflow.now() + delay >= deadline`
WriteTimeout ==
  /\ Polled /\ Interpreted(act.result.status) = "" /\ NoRoom
  /\ Finish(Outcome("loop", "XmemoryWriteTimeout"))

Sleep ==
  /\ Polled /\ Interpreted(act.result.status) = "" /\ ~NoRoom
  /\ wf' = [wf EXCEPT !.pc = "sleeping", !.timer = wf.delay]
  /\ UNCHANGED <<activityVars, args>>

\* Mutant: the growing delay is not capped.
NextDelay_Uncapped(delay) == Grown(delay)

NextDelay(delay) == Min({Grown(delay), args.max_poll_interval})

\* Mutant: a wake-up that comes late gives up without a last look.
Wake_ChecksDeadline ==
  /\ wf.pc = "sleeping" /\ wf.timer = 0
  /\ \/ wf.left > 0 /\ Schedule("write_status", wf.id)
        /\ wf' = [wf EXCEPT !.pc = "polling", !.delay = NextDelay(@)]
     \/ wf.left = 0 /\ Finish(Outcome("loop", "XmemoryWriteTimeout"))

\* Mutant: every poll is granted max_wait anew.
Wake_RestartsDeadline ==
  /\ wf.pc = "sleeping" /\ wf.timer = 0
  /\ Schedule("write_status", wf.id)
  /\ wf' = [wf EXCEPT !.pc = "polling", !.delay = NextDelay(@), !.left = args.max_wait]

Wake ==
  /\ wf.pc = "sleeping" /\ wf.timer = 0
  /\ Schedule("write_status", wf.id)
  /\ wf' = [wf EXCEPT !.pc = "polling", !.delay = NextDelay(@)]

Await == wf.pc \in {"starting", "polling", "sleeping"}

\* Mutant: the activity is abandoned, and Temporal goes on with it.
Cancel_Abandons ==
  /\ up /\ Await
  /\ Finish(Outcome("caller", "Cancelled"))

\* The cancellation is raised at the await it finds write_durable in, which
\* catches nothing: the awaited activity is asked to end, the job is left alone.
Cancel ==
  /\ up /\ Await
  /\ wf' = [wf EXCEPT !.pc = "done", !.outcome = Outcome("caller", "Cancelled")]
  /\ act' = Cancelled
  /\ UNCHANGED <<handle, up, crashes, call, posts, args>>

Tick ==
  /\ NothingDue
  /\ \E t \in ActivityTimers \cup {wf.left, wf.timer} : t \notin {None, 0}
  /\ wf.pc = "done" => act.phase = "running"
  /\ Elapse
  /\ wf' = [wf EXCEPT !.left = Down(@), !.timer = Down(@)]
  /\ UNCHANGED <<handle, up, crashes, posts, args>>

WorkflowStep == Start \/ ActivityFails \/ Started \/ Terminal \/ WriteTimeout \/ Sleep \/ Wake

\* The call has ended; a late POST or a job may still move on the server.
Ended == wf.pc = "done" /\ UNCHANGED vars

Next ==
  \/ WorkflowStep \/ Cancel
  \/ ActivityStep /\ UNCHANGED <<args, wf>>
  \/ Tick
  \/ Ended

\* Nothing is assumed of the server, not even that it ever answers, and a
\* cancellation need not come.
Fairness ==
  /\ ActivityFairness
  /\ WF_vars(Tick) /\ WF_vars(WorkflowStep)

Spec == Init /\ [][Next]_vars /\ Fairness

(***************************************************************************)
(* Types of the state of write_durable and of the activity it awaits.      *)
(***************************************************************************)
TypeOK == ActivityTypeOK /\ args \in Waits /\ wf \in DurableType

(***************************************************************************)
(* The extraction is not deterministic, so a second POST of the same write *)
(* may fork the record.  Whatever the crashes, timeouts, late answers and  *)
(* polls, write_durable POSTs at most once per attempt its write policy    *)
(* grants: once under the default.                                         *)
(***************************************************************************)
AtMostOnce == Len(posts) <= Policy["write_start"].attempts

(***************************************************************************)
(* An outcome write_durable computes from a status is the fate the job has *)
(* on the server, although that status was read before a delivery, a crash *)
(* or a retry; and giving up is only possible on a write that was accepted.*)
(***************************************************************************)
TruthfulOutcome ==
  wf.outcome.by = "loop" =>
    /\ wf.id \in DOMAIN posts /\ posts[wf.id] \in JobStatus
    /\ wf.outcome.type # "XmemoryWriteTimeout" =>
         wf.outcome.type = Interpreted(posts[wf.id])

(***************************************************************************)
(* Temporal never abandons an attempt whose client still waits: the budget *)
(* _client_timeout derives ends first, at every deadline of the handle and *)
(* however late within Latency the handler started.                        *)
(***************************************************************************)
ClientGivesUpFirst == act.phase = "running" /\ call.open => act.left > 0

(***************************************************************************)
(* XmemoryWriteTimeout is raised at most one poll interval before max_wait *)
(* is over, however the interval has grown.                                *)
(***************************************************************************)
TimeoutWithinOneInterval ==
  wf.outcome = Outcome("loop", "XmemoryWriteTimeout") =>
    wf.left <= Max({args.poll_interval, args.max_poll_interval})

(***************************************************************************)
(* A call that goes to sleep always looks again: if the job is final by    *)
(* the time it sleeps, its fate is what the call reports (or the poll      *)
(* itself fails), however late the worker wakes up.                        *)
(***************************************************************************)
CompletionNotMissed ==
  (wf.pc = "sleeping" /\ posts[wf.id] \in Final)
    ~> (wf.pc = "done" /\ (\/ wf.outcome.by \in {"activity", "caller"}
                           \/ wf.outcome.type = Interpreted(posts[wf.id])))

(***************************************************************************)
(* Once the call has ended, and in particular once it was cancelled with   *)
(* its enqueue or its poll waiting, between attempts or running, no further*)
(* write is POSTed and no further client call is made for it.              *)
(***************************************************************************)
QuietAfterEnd ==
  [][wf.pc = "done" => Len(posts') = Len(posts) /\ (call'.open => call.open)]_vars

(***************************************************************************)
(* write_durable returns or raises even if the server never answers, never *)
(* finishes the job, or reports statuses nobody knows.                     *)
(***************************************************************************)
Terminates == <>(wf.pc = "done")

(***************************************************************************)
(* write_durable implements MemoryWrite: the jobs are the POSTs the server *)
(* accepted, and a failed activity or a cancellation leaves the caller     *)
(* without the fate, or without knowing whether the write was accepted.    *)
(***************************************************************************)
Accepted == {n \in DOMAIN posts : posts[n] \in JobStatus}
LoopPromise(type) ==
  CASE type = "completed"            -> "completed"
    [] type = "XmemoryWriteFailed"   -> "failed"
    [] type = "XmemoryWriteNotFound" -> "not_found"
    [] type = "XmemoryWriteTimeout"  -> "gave_up"
    [] OTHER                         -> type
Promised ==
  CASE wf.outcome.by = ""     -> "open"
    [] wf.outcome.by = "loop" -> LoopPromise(wf.outcome.type)
    [] OTHER                  -> IF wf.id = 0 THEN "unknown" ELSE "gave_up"

Promise == INSTANCE MemoryWrite WITH
  MaxJobs <- Policy["write_start"].attempts,
  jobs    <- [n \in Accepted |-> posts[n]],
  outcome <- Promised
ImplementsMemoryWrite == Promise!Spec

(***************************************************************************)
(* write_durable implements WriteLoop too, the loop that DurableReplay     *)
(* implements on workers that lose its locals: whatever the activities, the*)
(* server and the clock do, it polls, sleeps and gives up when that loop   *)
(* does.                                                                   *)
(***************************************************************************)
LoopOutcome ==
  CASE wf.outcome.by = "activity" -> "raised"
    [] wf.outcome.by = "caller"   -> "cancelled"
    [] OTHER                      -> wf.outcome.type

Loop == INSTANCE WriteLoop WITH
  pc      <- IF wf.pc = "enqueue" THEN "new" ELSE wf.pc,
  delay   <- wf.delay,
  left    <- wf.left,
  timer   <- IF wf.pc = "sleeping" THEN wf.timer ELSE 0,
  outcome <- LoopOutcome
ImplementsWriteLoop == Loop!Spec
============================================================================
