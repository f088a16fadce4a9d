------------------------ MODULE DurableWriteProofs ------------------------
(***************************************************************************)
(* write_durable, for every argument, retry policy, deadline, server error *)
(* and number of crashes.                                                  *)
(***************************************************************************)
EXTENDS DurableWrite, XmemoryActivitiesProofs

(***************************************************************************)
(* The inductive invariant: where the call is says which activity it waits *)
(* for, how many POSTs that activity can have sent, and what is known of   *)
(* the job.                                                                *)
(***************************************************************************)
Located ==
  /\ wf.pc = "enqueue" <=> act.phase = "idle"
  /\ wf.pc = "starting" => act.op = "write_start"
  /\ wf.pc = "polling" => act.op = "write_status" /\ act.id = wf.id
  /\ wf.pc = "sleeping" => act.phase = "done"
  /\ wf.pc = "done" => act.phase = "done" \/ (act.phase = "running" /\ act.cancelled)

Attempts == Policy["write_start"].attempts
Counted ==
  /\ wf.pc = "enqueue" => Len(posts) = 0
  /\ wf.pc = "starting" =>
       /\ act.attempt <= Attempts
       /\ Len(posts) <= IF act.phase = "queued" THEN act.attempt - 1 ELSE act.attempt
  /\ Len(posts) <= Attempts

Known ==
  wf.pc \in {"polling", "sleeping"} => wf.id \in DOMAIN posts /\ posts[wf.id] \in JobStatus

Reported ==
  /\ wf.pc # "done" => wf.outcome.by = ""
  /\ wf.outcome.by = "loop" =>
       /\ wf.id \in DOMAIN posts /\ posts[wf.id] \in JobStatus
       /\ wf.outcome.type # "XmemoryWriteTimeout" =>
            posts[wf.id] \in Final /\ wf.outcome.type = Interpreted(posts[wf.id])

WfTyped == args \in Waits /\ wf \in DurableType

IInv == ActivityInv /\ WfTyped /\ Located /\ Counted /\ Known /\ Reported

LEMMA AttemptsPositive == Attempts \in Nat /\ Attempts >= 1
<1>1. "write_start" \in Ops
  BY DEF Ops, WriteOps
<1>2. Policy["write_start"] \in PolicyType
  BY <1>1, ActivitiesAssumption
<1> QED
  BY <1>2 DEF PolicyType, Attempts

LEMMA InitIInv == Init => IInv
<1> SUFFICES ASSUME Init PROVE IInv
  OBVIOUS
<1>1. ActivityInv
  BY InitActivityInv DEF Init
<1>2. act.phase = "idle" /\ posts = << >>
  BY DEF Init, ActivitiesInit, NoActivity
<1>3. wf.pc = "enqueue" /\ wf.outcome.by = "" /\ WfTyped
  BY DEF Init, WfTyped, DurableType, OutcomeType, Running
<1>4. Len(posts) = 0
  BY <1>2
<1>5. Located /\ Known /\ Reported
  BY <1>2, <1>3 DEF Located, Known, Reported
<1>6. Counted
  <2>1. Len(posts) <= Attempts
    BY <1>4, AttemptsPositive
  <2>2. wf.pc # "starting"
    BY <1>3
  <2> QED
    BY <1>4, <2>1, <2>2 DEF Counted
<1> QED
  BY <1>1, <1>3, <1>5, <1>6 DEF IInv

(***************************************************************************)
(* Steps of the activity: the call only waits.                             *)
(***************************************************************************)
LEMMA ActivityKeepsIInv ==
  ASSUME IInv, ActivityStep, UNCHANGED <<args, wf>>
  PROVE  IInv'
<1>1. ActivityInv' /\ StepEffect
  BY StepPreserves DEF IInv
<1>2. WfTyped'
  BY DEF IInv, WfTyped
<1>3. Located'
  <2>1. act'.phase \in {"idle", "queued", "running", "done"}
    BY <1>1 DEF ActivityInv, ActivityTypeOK, ActivityType
  <2> QED
    BY <1>1, <2>1 DEF IInv, Located, StepEffect
<1>4. Known'
  BY <1>1 DEF IInv, Known, StepEffect, PostsKept
<1>5. Reported'
  BY <1>1 DEF IInv, Reported, StepEffect, PostsKept
<1>6. Counted'
  <2>1. Len(posts) \in Nat /\ Len(posts') \in Nat /\ act.attempt \in Nat
    BY <1>1 DEF IInv, ActivityInv, ActivityTypeOK, ActivityType
  <2>2. act.phase \in {"idle", "queued", "running", "done"}
    BY DEF IInv, ActivityInv, ActivityTypeOK, ActivityType
  <2>3. CASE wf.pc = "starting"
    <3>1. act.op = "write_start" /\ act.op \in WriteOps
      BY <2>3 DEF IInv, Located, WriteOps
    <3> QED
      BY <1>1, <2>1, <2>2, <2>3, <3>1, AttemptsPositive DEF IInv, Counted, StepEffect, Attempts
  <2>4. CASE wf.pc # "starting"
    <3>1. act.phase = "queued" => act.op \notin WriteOps
      BY <2>4 DEF IInv, Located, WriteOps, WfTyped, DurableType
    <3>2. Len(posts') = Len(posts)
      BY <1>1, <3>1 DEF StepEffect
    <3> QED
      BY <2>4, <3>2 DEF IInv, Counted
  <2> QED
    BY <2>3, <2>4
<1> QED
  BY <1>1, <1>2, <1>3, <1>4, <1>5, <1>6 DEF IInv

(***************************************************************************)
(* Steps of write_durable.                                                 *)
(***************************************************************************)
LEMMA StartKeepsIInv == ASSUME IInv, Start PROVE IInv'
<1>1. /\ wf.pc = "enqueue" /\ act.phase = "idle" /\ act' = Scheduled("write_start", 0)
      /\ UNCHANGED <<handle, up, crashes, call, posts, args>>
      /\ wf' = [wf EXCEPT !.pc = "starting"]
  BY DEF Start, Schedule, IInv, Located
<1>2. "write_start" \in Ops /\ "write_start" # "write_status"
  BY DEF Ops, WriteOps
<1>3. ActivityInv' /\ act'.op = "write_start" /\ act'.phase = "queued" /\ act'.attempt = 1
  BY <1>1, <1>2, SchedulePreserves DEF IInv
<1>4. WfTyped' /\ wf'.pc = "starting" /\ wf'.id = wf.id /\ wf'.outcome = wf.outcome
  BY <1>1 DEF IInv, WfTyped, DurableType
<1>5. Located' /\ Known'
  BY <1>3, <1>4 DEF Located, Known
<1>6. Counted'
  <2>1. Len(posts') = 0
    BY <1>1 DEF IInv, Counted
  <2> QED
    BY <1>3, <1>4, <2>1, AttemptsPositive DEF Counted
<1>7. Reported'
  BY <1>1, <1>4 DEF IInv, Reported
<1> QED
  BY <1>3, <1>4, <1>5, <1>6, <1>7 DEF IInv

\* The call ends with an activity's failure or an outcome of its own.
LEMMA FinishKeepsIInv ==
  ASSUME IInv, act.phase = "done", NEW o \in OutcomeType, Finish(o),
         o.by = "loop" =>
           /\ wf.id \in DOMAIN posts /\ posts[wf.id] \in JobStatus
           /\ o.type # "XmemoryWriteTimeout" =>
                posts[wf.id] \in Final /\ o.type = Interpreted(posts[wf.id])
  PROVE  IInv'
<1>1. wf' = [wf EXCEPT !.pc = "done", !.outcome = o] /\ UNCHANGED <<activityVars, args>>
  BY DEF Finish
<1>2. UNCHANGED <<handle, up, crashes, act, call, posts, args>>
  BY <1>1 DEF activityVars
<1>3. WfTyped' /\ wf'.pc = "done" /\ wf'.id = wf.id /\ wf'.outcome = o
  BY <1>1, <1>2 DEF IInv, WfTyped, DurableType
<1>4. ActivityInv'
  BY <1>2 DEF IInv, ActivityInv, ActivityTypeOK, TotalTracked, PollsAccepted, CallOnlyRunning,
      AnswersTrue, TrueAnswer
<1>5. Located' /\ Known'
  BY <1>2, <1>3 DEF Located, Known
<1>6. Counted'
  BY <1>2, <1>3 DEF IInv, Counted
<1>7. Reported'
  BY <1>2, <1>3 DEF Reported
<1> QED
  BY <1>3, <1>4, <1>5, <1>6, <1>7 DEF IInv

LEMMA ActivityFailsKeepsIInv == ASSUME IInv, ActivityFails PROVE IInv'
<1>1. act.phase = "done" /\ act.result.error # "" /\ Finish(Outcome("activity", act.result.error))
  BY DEF ActivityFails, Returned
<1>2. act.result.error \in FailureNames
  BY <1>1 DEF IInv, ActivityInv, ActivityTypeOK, ActivityType, ResultType
<1>3. Outcome("activity", act.result.error) \in OutcomeType
  BY <1>2 DEF Outcome, OutcomeType
<1>4. Outcome("activity", act.result.error).by # "loop"
  BY DEF Outcome
<1> QED
  BY <1>1, <1>3, <1>4, FinishKeepsIInv

\* What a poll that returned has established.
LEMMA PolledFacts ==
  ASSUME IInv, Polled
  PROVE  /\ act.phase = "done" /\ wf.id \in DOMAIN posts /\ posts[wf.id] \in JobStatus
         /\ act.result.status \in JobStatus
         /\ act.result.status \in Final => posts[wf.id] = act.result.status
<1>1. act.phase = "done" /\ act.result.error = "" /\ wf.pc = "polling"
  BY DEF Polled, Returned
<1>2. TrueAnswer(act.result) /\ act.op = "write_status" /\ act.id = wf.id
  BY <1>1 DEF IInv, ActivityInv, AnswersTrue, Located
<1> QED
  BY <1>1, <1>2 DEF TrueAnswer, IInv, Known

LEMMA InterpretedFacts ==
  ASSUME NEW status
  PROVE  /\ Interpreted(status) \in {"", "completed", "XmemoryWriteFailed", "XmemoryWriteNotFound"}
         /\ Interpreted(status) # "" => status \in Final
BY DEF Interpreted, Final

LEMMA LoopTypes ==
  {"", "completed", "XmemoryWriteFailed", "XmemoryWriteNotFound", "XmemoryWriteTimeout"}
    \subseteq {"", "completed"} \cup FailureNames
BY DEF FailureNames, ErrorTypes, NON_RETRYABLE_TYPES

LEMMA TerminalKeepsIInv == ASSUME IInv, Terminal PROVE IInv'
<1> DEFINE o == Outcome("loop", Interpreted(act.result.status))
<1>1. Polled /\ Interpreted(act.result.status) # "" /\ Finish(o)
  BY DEF Terminal
<1>2. /\ act.phase = "done" /\ wf.id \in DOMAIN posts /\ posts[wf.id] \in JobStatus
      /\ posts[wf.id] = act.result.status /\ act.result.status \in Final
  BY <1>1, PolledFacts, InterpretedFacts
<1>3. o \in OutcomeType /\ o.type = Interpreted(posts[wf.id])
  BY <1>2, InterpretedFacts, LoopTypes DEF Outcome, OutcomeType
<1> HIDE DEF o
<1> QED
  BY <1>1, <1>2, <1>3, FinishKeepsIInv

LEMMA WriteTimeoutKeepsIInv == ASSUME IInv, WriteTimeout PROVE IInv'
<1> DEFINE o == Outcome("loop", "XmemoryWriteTimeout")
<1>1. Polled /\ Finish(o)
  BY DEF WriteTimeout
<1>2. o \in OutcomeType /\ o.type = "XmemoryWriteTimeout"
  BY LoopTypes DEF Outcome, OutcomeType
<1> HIDE DEF o
<1> QED
  BY <1>1, <1>2, PolledFacts, FinishKeepsIInv

\* Started and Wake schedule a poll of an accepted write.
LEMMA PollKeepsIInv ==
  ASSUME IInv, act.phase = "done", NEW id \in Nat, Schedule("write_status", id),
         id \in DOMAIN posts, posts[id] \in JobStatus,
         wf.pc # "done",
         wf' \in DurableType, wf'.pc = "polling", wf'.id = id, wf'.outcome = wf.outcome
  PROVE  IInv'
<1>1. act' = Scheduled("write_status", id) /\ UNCHANGED <<handle, up, crashes, call, posts, args>>
  BY DEF Schedule
<1>2. "write_status" \in Ops
  BY DEF Ops
<1>3. ActivityInv' /\ act'.op = "write_status" /\ act'.id = id /\ act'.phase = "queued"
  BY <1>1, <1>2, SchedulePreserves DEF IInv
<1>4. WfTyped' /\ Located' /\ Known' /\ Reported'
  BY <1>1, <1>3 DEF IInv, WfTyped, Located, Known, Reported
<1>5. Counted'
  BY <1>1 DEF IInv, Counted
<1> QED
  BY <1>3, <1>4, <1>5 DEF IInv

LEMMA WaitsTyped ==
  ASSUME IInv
  PROVE  args.poll_interval \in Nat /\ args.max_poll_interval \in Nat /\ args.max_wait \in Nat
BY WaitsAssumption DEF IInv, WfTyped, WaitType

LEMMA NextDelayTyped ==
  ASSUME IInv, NEW delay \in Nat
  PROVE  NextDelay(delay) \in Nat
<1>1. Grown(delay) \in Nat
  BY DEF Grown
<1>2. args.max_poll_interval \in Nat
  BY WaitsTyped
<1> QED
  BY <1>1, <1>2, MinOfTwo DEF NextDelay

LEMMA StartedKeepsIInv == ASSUME IInv, Started PROVE IInv'
<1> DEFINE id == act.result.id
<1>1. /\ wf.pc = "starting" /\ act.phase = "done" /\ act.result.error = ""
      /\ Schedule("write_status", id)
      /\ wf' = [wf EXCEPT !.pc = "polling", !.id = id, !.delay = args.poll_interval,
                          !.left = args.max_wait]
  BY DEF Started, Returned
<1>2. id \in Nat
  BY DEF IInv, ActivityInv, ActivityTypeOK, ActivityType, ResultType
<1>3. id \in DOMAIN posts /\ posts[id] \in JobStatus
  BY <1>1 DEF IInv, ActivityInv, AnswersTrue, TrueAnswer, Located
<1> HIDE DEF id
<1>4. wf' \in DurableType /\ wf'.pc = "polling" /\ wf'.id = id /\ wf'.outcome = wf.outcome
  BY <1>1, <1>2, WaitsTyped DEF IInv, WfTyped, DurableType
<1> QED
  BY <1>1, <1>2, <1>3, <1>4, PollKeepsIInv

LEMMA WakeKeepsIInv == ASSUME IInv, Wake PROVE IInv'
<1>1. /\ wf.pc = "sleeping" /\ Schedule("write_status", wf.id)
      /\ wf' = [wf EXCEPT !.pc = "polling", !.delay = NextDelay(wf.delay)]
  BY DEF Wake
<1>2. wf \in DurableType /\ wf.id \in Nat /\ wf.delay \in Nat
  BY DEF IInv, WfTyped, DurableType
<1>3. NextDelay(wf.delay) \in Nat
  BY <1>2, NextDelayTyped
<1>4. wf' \in DurableType /\ wf'.pc = "polling" /\ wf'.id = wf.id /\ wf'.outcome = wf.outcome
  BY <1>1, <1>2, <1>3 DEF DurableType
<1>5. act.phase = "done" /\ wf.id \in DOMAIN posts /\ posts[wf.id] \in JobStatus
  BY <1>1 DEF IInv, Located, Known
<1> QED
  BY <1>1, <1>2, <1>4, <1>5, PollKeepsIInv

LEMMA SleepKeepsIInv == ASSUME IInv, Sleep PROVE IInv'
<1>1. /\ Polled /\ wf' = [wf EXCEPT !.pc = "sleeping", !.timer = wf.delay]
      /\ UNCHANGED <<handle, up, crashes, act, call, posts, args>>
  BY DEF Sleep, activityVars
<1>2. WfTyped' /\ wf'.pc = "sleeping" /\ wf'.id = wf.id /\ wf'.outcome = wf.outcome
  BY <1>1 DEF IInv, WfTyped, DurableType
<1>3. act.phase = "done" /\ wf.id \in DOMAIN posts /\ posts[wf.id] \in JobStatus
  BY <1>1, PolledFacts
<1>4. ActivityInv'
  BY <1>1 DEF IInv, ActivityInv, ActivityTypeOK, TotalTracked, PollsAccepted, CallOnlyRunning,
      AnswersTrue, TrueAnswer
<1>5. Located' /\ Known' /\ Reported'
  <2>1. wf.outcome.by = ""
    BY <1>1 DEF Polled, IInv, Reported
  <2> QED
    BY <1>1, <1>2, <1>3, <2>1 DEF Located, Known, Reported
<1>6. Counted'
  BY <1>1, <1>2 DEF IInv, Counted
<1> QED
  BY <1>2, <1>4, <1>5, <1>6 DEF IInv

LEMMA CancelKeepsIInv == ASSUME IInv, Cancel PROVE IInv'
<1> DEFINE o == Outcome("caller", "Cancelled")
<1>1. /\ wf.pc \in {"starting", "polling", "sleeping"} /\ act' = Cancelled
      /\ wf' = [wf EXCEPT !.pc = "done", !.outcome = o]
      /\ UNCHANGED <<handle, up, crashes, call, posts, args>>
  BY DEF Cancel, Await
<1>2. o \in OutcomeType /\ o.by = "caller"
  BY DEF Outcome, OutcomeType, FailureNames
<1> HIDE DEF o
<1>3. WfTyped' /\ wf'.pc = "done" /\ wf'.outcome = o
  BY <1>1, <1>2 DEF IInv, WfTyped, DurableType
<1>4. act.phase # "idle"
  BY <1>1 DEF IInv, Located
<1>5. ActivityInv' /\ (act'.phase = "done" \/ (act'.phase = "running" /\ act'.cancelled))
  BY <1>1, <1>4, CancelPreserves DEF IInv
<1>6. Located' /\ Known' /\ Reported'
  BY <1>2, <1>3, <1>5 DEF Located, Known, Reported
<1>7. Counted'
  BY <1>1, <1>3 DEF IInv, Counted
<1> QED
  BY <1>3, <1>5, <1>6, <1>7 DEF IInv

LEMMA TickKeepsIInv == ASSUME IInv, Tick PROVE IInv'
<1>1. /\ Elapse /\ UNCHANGED <<handle, up, crashes, posts, args>>
      /\ wf' = [wf EXCEPT !.left = Down(wf.left), !.timer = Down(wf.timer)]
  BY DEF Tick
<1>2. /\ ActivityInv' /\ act'.op = act.op /\ act'.id = act.id /\ act'.phase = act.phase
      /\ act'.attempt = act.attempt /\ act'.cancelled = act.cancelled
  BY <1>1, ElapsePreserves DEF IInv
<1>3. wf.left \in Nat /\ wf.timer \in Nat
  BY DEF IInv, WfTyped, DurableType
<1>4. Down(wf.left) \in Nat /\ Down(wf.timer) \in Nat
  BY <1>3, DownTyped
<1>5. WfTyped' /\ wf'.pc = wf.pc /\ wf'.id = wf.id /\ wf'.outcome = wf.outcome
  BY <1>1, <1>4 DEF IInv, WfTyped, DurableType
<1>6. Located' /\ Known' /\ Reported' /\ Counted'
  BY <1>1, <1>2, <1>5 DEF IInv, Located, Known, Reported, Counted
<1> QED
  BY <1>2, <1>5, <1>6 DEF IInv

LEMMA NextKeepsIInv == IInv /\ [Next]_vars => IInv'
<1> SUFFICES ASSUME IInv, [Next]_vars PROVE IInv'
  OBVIOUS
<1>1. CASE WorkflowStep
  BY <1>1, StartKeepsIInv, ActivityFailsKeepsIInv, StartedKeepsIInv, TerminalKeepsIInv,
     WriteTimeoutKeepsIInv, SleepKeepsIInv, WakeKeepsIInv DEF WorkflowStep
<1>5. CASE Cancel
  BY <1>5, CancelKeepsIInv
<1>2. CASE ActivityStep /\ UNCHANGED <<args, wf>>
  BY <1>2, ActivityKeepsIInv
<1>3. CASE Tick
  BY <1>3, TickKeepsIInv
<1>4. CASE UNCHANGED vars
  <2>1. UNCHANGED <<handle, up, crashes, act, call, posts, args, wf>>
    BY <1>4 DEF vars, activityVars
  <2>2. ActivityInv'
    BY <2>1 DEF IInv, ActivityInv, ActivityTypeOK, TotalTracked, PollsAccepted, CallOnlyRunning,
        AnswersTrue, TrueAnswer
  <2>3. WfTyped' /\ Located' /\ Counted'
    BY <2>1 DEF IInv, WfTyped, Located, Counted
  <2>4. Known' /\ Reported'
    BY <2>1 DEF IInv, Known, Reported
  <2> QED
    BY <2>2, <2>3, <2>4 DEF IInv
<1> QED
  BY <1>1, <1>2, <1>3, <1>4, <1>5 DEF Next, Ended

LEMMA IInvInvariant == Spec => []IInv
  BY InitIInv, NextKeepsIInv, PTL DEF Spec

(***************************************************************************)
(* The types of write_durable's state, at every value of the constants.    *)
(***************************************************************************)
THEOREM TypesCorrect == Spec => []TypeOK
<1>1. IInv => TypeOK
  BY DEF IInv, ActivityInv, WfTyped, TypeOK
<1> QED
  BY <1>1, IInvInvariant, PTL

(***************************************************************************)
(* write_durable never POSTs more often than the write policy has attempts *)
(* and, under the default policy of one attempt, never more than once:     *)
(* whatever the server answers, however long it takes, however often the   *)
(* worker crashes and however long the loop polls.                         *)
(***************************************************************************)
THEOREM WritesAtMostOnce == Spec => []AtMostOnce
<1>1. IInv => AtMostOnce
  BY DEF IInv, Counted, Attempts, AtMostOnce
<1> QED
  BY <1>1, IInvInvariant, PTL

(***************************************************************************)
(* What write_durable returns or raises from a polled status is the fate   *)
(* of the job it enqueued, at every value of the constants.                *)
(***************************************************************************)
THEOREM OutcomesTrue == Spec => []TruthfulOutcome
<1>1. IInv => TruthfulOutcome
  BY DEF IInv, Reported, TruthfulOutcome
<1> QED
  BY <1>1, IInvInvariant, PTL
LEMMA EndedStepQuiet ==
  ASSUME IInv, [Next]_vars, wf.pc = "done"
  PROVE  Len(posts') = Len(posts) /\ (call'.open => call.open)
<1>1. act.phase # "queued"
  BY DEF IInv, Located
<1>2. CASE ActivityStep
  <2>1. StepEffect
    BY <1>2, StepPreserves DEF IInv
  <2>2. Len(posts') = Len(posts)
    BY <1>1, <2>1 DEF StepEffect
  <2>3. ~Refuse /\ ~\E lag \in 0..Latency : Begin(lag)
    BY <1>1 DEF Refuse, Begin, Startable
  <2>4. CASE Answer
    <3>1. call \in CallType /\ call.open
      BY <2>4 DEF Answer, IInv, ActivityInv, ActivityTypeOK
    <3> QED
      BY <2>2, <3>1
  <2>5. CASE call' = NoCall \/ UNCHANGED call
    BY <2>2, <2>5 DEF NoCall
  <2>6. Answer \/ call' = NoCall \/ UNCHANGED call
    BY <1>2, <2>3 DEF ActivityStep, Receive, ClientTimesOut, ServerError, Raise,
        AttemptTimesOut, TotalTimesOut, Crash, Restart, Enqueue, Progress
  <2> QED
    BY <2>4, <2>5, <2>6
<1>3. CASE Tick
  <2>1. call \in CallType
    BY DEF IInv, ActivityInv, ActivityTypeOK
  <2> QED
    BY <1>3, <2>1 DEF Tick, Elapse, CallType
<1>4. CASE UNCHANGED vars
  BY <1>4 DEF vars, activityVars
<1>5. ~WorkflowStep /\ ~Cancel
  BY DEF WorkflowStep, Cancel, Await, Start, ActivityFails, Started, Terminal, WriteTimeout, Sleep,
      Wake, Polled
<1> QED
  BY <1>2, <1>3, <1>4, <1>5 DEF Next, Ended

(***************************************************************************)
(* An ended call, cancelled or not, sends nothing more: no POST and no     *)
(* client call begins, whatever Temporal and the worker still do with its  *)
(* activity.                                                               *)
(***************************************************************************)
THEOREM EndedCallsQuiet == Spec => QuietAfterEnd
<1>1. IInv /\ [Next]_vars =>
        [wf.pc = "done" => Len(posts') = Len(posts) /\ (call'.open => call.open)]_vars
  BY EndedStepQuiet
<1> QED
  BY <1>1, IInvInvariant, PTL DEF Spec, QuietAfterEnd

(***************************************************************************)
(* What bounds the overshoot of max_wait: the delay the loop goes by.      *)
(***************************************************************************)
LongestDelay == Max({args.poll_interval, args.max_poll_interval})
IntervalBounded == wf.pc \in {"polling", "sleeping"} => wf.delay <= LongestDelay
PacedInv == IntervalBounded /\ TimeoutWithinOneInterval

LEMMA LongestDelayBounds ==
  ASSUME IInv
  PROVE  /\ LongestDelay \in Nat
         /\ args.poll_interval <= LongestDelay /\ args.max_poll_interval <= LongestDelay
BY WaitsTyped, MaxOfTwo DEF LongestDelay

LEMMA NextDelayCapped ==
  ASSUME IInv, NEW delay \in Nat
  PROVE  NextDelay(delay) <= LongestDelay
<1>1. Grown(delay) \in Nat
  BY DEF Grown
<1>2. NextDelay(delay) <= args.max_poll_interval /\ NextDelay(delay) \in Nat
  BY <1>1, WaitsTyped, MinOfTwo DEF NextDelay
<1> QED
  BY <1>2, WaitsTyped, LongestDelayBounds

\* While the call runs it has not given up.
LEMMA RunningPaced ==
  ASSUME IInv', wf'.pc # "done", IntervalBounded'
  PROVE  PacedInv'
<1>1. wf'.outcome.by = ""
  BY DEF IInv, Reported
<1>2. Outcome("loop", "XmemoryWriteTimeout").by # ""
  BY DEF Outcome
<1> QED
  BY <1>1, <1>2 DEF PacedInv, TimeoutWithinOneInterval

\* A call that ends otherwise than by giving up.
LEMMA EndedPaced ==
  ASSUME wf'.pc = "done", wf'.outcome.by # "loop" \/ wf'.outcome.type # "XmemoryWriteTimeout"
  PROVE  PacedInv'
<1>1. Outcome("loop", "XmemoryWriteTimeout").by = "loop"
      /\ Outcome("loop", "XmemoryWriteTimeout").type = "XmemoryWriteTimeout"
  BY DEF Outcome
<1> QED
  BY <1>1 DEF PacedInv, IntervalBounded, TimeoutWithinOneInterval

\* Time goes on, or nothing of the call changes.
LEMMA LaterPaced ==
  ASSUME IInv, PacedInv, args' = args, wf'.pc = wf.pc, wf'.delay = wf.delay,
         wf'.outcome = wf.outcome, wf'.left = wf.left \/ wf'.left = Down(wf.left)
  PROVE  PacedInv'
<1>1. LongestDelay' = LongestDelay /\ LongestDelay \in Nat /\ wf.left \in Nat
  BY LongestDelayBounds DEF LongestDelay, IInv, WfTyped, DurableType
<1>2. wf'.left \in Nat /\ wf'.left <= wf.left
  BY <1>1, Sentinels DEF Down
<1>3. wf.left <= LongestDelay => wf'.left <= LongestDelay
  BY <1>1, <1>2
<1> QED
  BY <1>1, <1>3 DEF PacedInv, IntervalBounded, TimeoutWithinOneInterval, LongestDelay

LEMMA NextKeepsPaced == IInv /\ PacedInv /\ [Next]_vars => PacedInv'
<1> SUFFICES ASSUME IInv, PacedInv, [Next]_vars PROVE PacedInv'
  OBVIOUS
<1>1. IInv' /\ wf \in DurableType /\ wf.delay \in Nat /\ wf.left \in Nat
  BY NextKeepsIInv DEF IInv, WfTyped, DurableType
<1>2. CASE Start
  <2>1. wf'.pc = "starting"
    BY <1>1, <1>2 DEF Start, DurableType
  <2> QED
    BY <1>1, <2>1, RunningPaced DEF IntervalBounded
<1>3. CASE ActivityFails
  <2>1. wf'.pc = "done" /\ wf'.outcome = Outcome("activity", act.result.error)
    BY <1>1, <1>3 DEF ActivityFails, Finish, DurableType
  <2>2. wf'.outcome.by # "loop"
    BY <2>1 DEF Outcome
  <2> QED
    BY <2>1, <2>2, EndedPaced
<1>4. CASE Started
  <2>1. wf'.pc = "polling" /\ wf'.delay = args.poll_interval /\ args' = args
    BY <1>1, <1>4 DEF Started, Schedule, DurableType
  <2>2. IntervalBounded'
    BY <2>1, LongestDelayBounds DEF IntervalBounded, LongestDelay
  <2> QED
    BY <1>1, <2>1, <2>2, RunningPaced
<1>5. CASE Terminal
  <2>1. wf'.pc = "done" /\ wf'.outcome = Outcome("loop", Interpreted(act.result.status))
    BY <1>1, <1>5 DEF Terminal, Finish, DurableType
  <2>2. Interpreted(act.result.status) # "XmemoryWriteTimeout"
    BY DEF Interpreted
  <2>3. wf'.outcome.type # "XmemoryWriteTimeout"
    BY <2>1, <2>2 DEF Outcome
  <2> QED
    BY <2>1, <2>3, EndedPaced
<1>6. CASE WriteTimeout
  <2>1. wf'.pc = "done" /\ wf'.left = wf.left /\ args' = args /\ wf.pc = "polling"
        /\ wf.delay >= wf.left
    BY <1>1, <1>6 DEF WriteTimeout, Polled, NoRoom, Finish, DurableType
  <2>2. wf.delay <= LongestDelay /\ LongestDelay \in Nat
    BY <2>1, LongestDelayBounds DEF PacedInv, IntervalBounded
  <2>3. wf'.left <= LongestDelay /\ LongestDelay' = LongestDelay
    BY <1>1, <2>1, <2>2 DEF LongestDelay
  <2> QED
    BY <2>1, <2>3 DEF PacedInv, IntervalBounded, TimeoutWithinOneInterval, LongestDelay
<1>7. CASE Sleep
  <2>1. wf'.pc = "sleeping" /\ wf'.delay = wf.delay /\ args' = args /\ wf.pc = "polling"
    BY <1>1, <1>7 DEF Sleep, Polled, DurableType
  <2>2. IntervalBounded'
    BY <2>1 DEF PacedInv, IntervalBounded, LongestDelay
  <2> QED
    BY <1>1, <2>1, <2>2, RunningPaced
<1>8. CASE Wake
  <2>1. wf'.pc = "polling" /\ wf'.delay = NextDelay(wf.delay) /\ args' = args
    BY <1>1, <1>8 DEF Wake, Schedule, DurableType
  <2>2. IntervalBounded'
    BY <1>1, <2>1, NextDelayCapped DEF IntervalBounded, LongestDelay
  <2> QED
    BY <1>1, <2>1, <2>2, RunningPaced
<1>9. CASE Cancel
  <2>1. wf'.pc = "done" /\ wf'.outcome = Outcome("caller", "Cancelled")
    BY <1>1, <1>9 DEF Cancel, DurableType
  <2>2. wf'.outcome.by # "loop"
    BY <2>1 DEF Outcome
  <2> QED
    BY <2>1, <2>2, EndedPaced
<1>10. CASE Tick
  <2>1. args' = args /\ wf'.pc = wf.pc /\ wf'.delay = wf.delay /\ wf'.outcome = wf.outcome
        /\ wf'.left = Down(wf.left)
    BY <1>1, <1>10 DEF Tick, DurableType
  <2> QED
    BY <2>1, LaterPaced
<1>11. CASE UNCHANGED <<args, wf>>
  BY <1>11, LaterPaced
<1> QED
  BY <1>2, <1>3, <1>4, <1>5, <1>6, <1>7, <1>8, <1>9, <1>10, <1>11
     DEF Next, WorkflowStep, Ended, vars

(***************************************************************************)
(* XmemoryWriteTimeout comes at most one interval before max_wait is over, *)
(* for every poll_interval, max_poll_interval and max_wait, however long   *)
(* the polls took and however late the worker woke up.                     *)
(***************************************************************************)
THEOREM TimeoutsInTime == Spec => []TimeoutWithinOneInterval
<1>1. Init => PacedInv
  <2> SUFFICES ASSUME Init PROVE PacedInv
    OBVIOUS
  <2>1. wf.pc = "enqueue" /\ wf.outcome.by # "loop"
    BY DEF Init, Running
  <2>2. Outcome("loop", "XmemoryWriteTimeout").by = "loop"
    BY DEF Outcome
  <2> QED
    BY <2>1, <2>2 DEF PacedInv, IntervalBounded, TimeoutWithinOneInterval
<1>2. PacedInv => TimeoutWithinOneInterval
  BY DEF PacedInv
<1> QED
  BY IInvInvariant, <1>1, NextKeepsPaced, <1>2, PTL DEF Spec

(***************************************************************************)
(* The client of every attempt ends before Temporal does.                  *)
(***************************************************************************)
LEMMA NextKeepsAhead ==
  ASSUME StartsInTime, ActivityInv, AheadInv, [Next]_vars
  PROVE  AheadInv'
<1>1. CASE \E op, id : Schedule(op, id)
  <2>1. act'.phase = "queued" /\ handle' = handle
    BY <1>1 DEF Schedule, Scheduled
  <2> QED
    BY <2>1 DEF AheadInv, Ahead
<1>2. CASE UNCHANGED <<handle, act, call>>
  BY <1>2 DEF AheadInv, Ahead
<1>3. CASE Start \/ Started \/ Wake
  BY <1>1, <1>3 DEF Start, Started, Wake
<1>4. CASE ActivityFails \/ Terminal \/ WriteTimeout \/ Sleep \/ UNCHANGED vars
  BY <1>2, <1>4 DEF ActivityFails, Terminal, WriteTimeout, Sleep, Finish, vars, activityVars
<1>5. CASE Cancel
  <2>1. act' = Cancelled /\ UNCHANGED <<handle, call>>
    BY <1>5 DEF Cancel
  <2>2. act'.phase = "running" => act.phase = "running" /\ act'.left = act.left /\ act'.op = act.op
    BY <2>1 DEF Cancelled, ActivityInv, ActivityTypeOK, ActivityType
  <2> QED
    BY <2>1, <2>2 DEF AheadInv, Ahead
<1>6. CASE Tick
  BY <1>6, ElapseKeepsAhead DEF Tick
<1>7. CASE ActivityStep
  BY <1>7, StepKeepsAhead
<1> QED
  BY <1>3, <1>4, <1>5, <1>6, <1>7 DEF Next, WorkflowStep, Ended

(***************************************************************************)
(* Under a handle that sets start_to_close alone, as the facade does, and  *)
(* attempts that start in time, Temporal never abandons an attempt of      *)
(* write_durable whose client still waits.                                 *)
(***************************************************************************)
THEOREM ClientFirst ==
  ASSUME StartsInTime, \A h \in Handles, op \in Ops : h.deadline[op].sch = None
  PROVE  Spec => []ClientGivesUpFirst
<1>1. Init => AheadInv
  BY DEF Init, ActivitiesInit, NoActivity, AheadInv, Ahead
<1>2. IInv /\ AheadInv /\ [Next]_vars => AheadInv'
  BY NextKeepsAhead DEF IInv
<1>3. IInv /\ AheadInv => ClientGivesUpFirst
  <2> SUFFICES ASSUME IInv, AheadInv, act.phase = "running", call.open
               PROVE  act.left > 0
    BY DEF ClientGivesUpFirst
  <2>1. act.op \in Ops /\ act.left \in Nat /\ call.client \in Nat
    BY DEF IInv, ActivityInv, ActivityTypeOK, ActivityType, CallType
  <2>2. call.client < act.left
    BY <2>1 DEF AheadInv, Ahead
  <2> QED
    BY <2>1, <2>2
<1> QED
  BY IInvInvariant, <1>1, <1>2, <1>3, PTL DEF Spec

(***************************************************************************)
(* The refinement: write_durable keeps the promise of MemoryWrite, each of *)
(* its steps being a step of the promise or none at all.                   *)
(***************************************************************************)
\* The two facts IInv lacks: how a call under way looks to its caller, and that
\* it knows an id only once the enqueue returned.
Undecided ==
  /\ wf.pc # "done" => wf.outcome = Running
  /\ wf.pc \in {"enqueue", "starting"} => wf.id = 0

RInv == IInv /\ Undecided

LEMMA UndecidedKept == RInv /\ [Next]_vars => Undecided'
<1> SUFFICES ASSUME RInv, [Next]_vars PROVE Undecided'
  OBVIOUS
<1>1. wf \in DurableType
  BY DEF RInv, IInv, WfTyped
<1>2. CASE UNCHANGED wf
  BY <1>2 DEF RInv, Undecided
<1>3. CASE Start
  BY <1>1, <1>3 DEF Start, RInv, Undecided, DurableType
<1>4. CASE Started \/ Sleep \/ Wake
  BY <1>1, <1>4 DEF Started, Sleep, Wake, Polled, RInv, Undecided, DurableType
<1>5. CASE Cancel \/ \E outcome : Finish(outcome)
  BY <1>1, <1>5 DEF Cancel, Finish, Undecided, DurableType
<1>6. CASE Tick
  BY <1>1, <1>6 DEF Tick, RInv, Undecided, DurableType
<1>7. UNCHANGED vars => UNCHANGED wf
  BY DEF vars
<1> QED
  BY <1>2, <1>3, <1>4, <1>5, <1>6, <1>7
     DEF Next, WorkflowStep, ActivityFails, Terminal, WriteTimeout, Ended

LEMMA RInvInvariant == Spec => []RInv
<1>1. Init => Undecided
  BY DEF Init, Undecided
<1>2. RInv /\ [Next]_vars => RInv'
  BY UndecidedKept, NextKeepsIInv DEF RInv
<1> QED
  BY <1>1, <1>2, InitIInv, PTL DEF Spec, RInv

(***************************************************************************)
(* The jobs the promise sees.                                              *)
(***************************************************************************)
Jobs == [n \in Accepted |-> posts[n]]

\* A POST the server has yet to accept leaves room for its job.
LEMMA RoomForJob ==
  ASSUME RInv, NEW n \in DOMAIN posts, posts[n] = "sent"
  PROVE  n \in 1..Attempts /\ n \notin Accepted
<1>1. posts \in Seq({"sent"} \cup JobStatus) /\ Len(posts) <= Attempts
  BY DEF RInv, IInv, Counted, ActivityInv, ActivityTypeOK
<1>2. n \in 1..Attempts
  BY <1>1, AttemptsPositive
<1>3. n \notin Accepted
  BY DEF Accepted, JobStatus, Final
<1> QED
  BY <1>2, <1>3

LEMMA JobsKept == ASSUME UNCHANGED posts PROVE Accepted' = Accepted /\ Jobs' = Jobs
BY DEF Accepted, Jobs

\* The server moves a POST n to a status of its job.
LEMMA JobMoves ==
  ASSUME RInv, NEW n \in DOMAIN posts, NEW status \in JobStatus,
         posts' = [posts EXCEPT ![n] = status]
  PROVE  /\ Accepted' = Accepted \cup {n}
         /\ Jobs' = [m \in Accepted \cup {n} |-> IF m = n THEN status ELSE Jobs[m]]
<1>1. posts \in Seq({"sent"} \cup JobStatus)
  BY DEF RInv, IInv, ActivityInv, ActivityTypeOK
<1>2. DOMAIN posts' = DOMAIN posts
  BY <1>1
<1>3. \A m \in DOMAIN posts : posts'[m] = IF m = n THEN status ELSE posts[m]
  BY <1>1
<1>4. Accepted' = Accepted \cup {n}
  BY <1>2, <1>3 DEF Accepted
<1>5. \A m \in Accepted \cup {n} : posts'[m] = IF m = n THEN status ELSE Jobs[m]
  BY <1>3 DEF Accepted, Jobs
<1> QED
  BY <1>4, <1>5 DEF Jobs

LEMMA PostKeepsJobs ==
  ASSUME RInv, posts' = Append(posts, "sent")
  PROVE  Accepted' = Accepted /\ Jobs' = Jobs
<1>1. posts \in Seq({"sent"} \cup JobStatus)
  BY DEF RInv, IInv, ActivityInv, ActivityTypeOK
<1>2. /\ DOMAIN posts' = DOMAIN posts \cup {Len(posts) + 1}
      /\ \A n \in DOMAIN posts : posts'[n] = posts[n]
      /\ posts'[Len(posts) + 1] = "sent"
  BY <1>1
<1>3. "sent" \notin JobStatus
  BY DEF JobStatus, Final
<1>4. Accepted' = Accepted
  BY <1>2, <1>3 DEF Accepted
<1>5. \A n \in Accepted : posts'[n] = posts[n]
  BY <1>2 DEF Accepted
<1> QED
  BY <1>4, <1>5 DEF Jobs

(***************************************************************************)
(* The steps.                                                              *)
(***************************************************************************)
Stutters == Jobs' = Jobs /\ Promised' = Promised

LEMMA StutterAllowed == Stutters => UNCHANGED Promise!vars
BY DEF Stutters, Promise!vars, Jobs

LEMMA RunningBy == Running.by = ""
BY DEF Running

LEMMA PromisedOpen == wf.outcome = Running => Promised = "open"
<1> SUFFICES ASSUME wf.outcome = Running PROVE Promised = "open"
  OBVIOUS
<1>1. wf.outcome.by = ""
  BY RunningBy
<1> QED
  BY <1>1 DEF Promised

LEMMA ServerStep ==
  ASSUME RInv, ActivityStep, UNCHANGED wf
  PROVE  Stutters \/ Promise!Next
<1>1. Promised' = Promised
  BY DEF Promised
<1>2. CASE UNCHANGED posts
  BY <1>1, <1>2, JobsKept DEF Stutters
<1>3. CASE posts' = Append(posts, "sent")
  BY <1>1, <1>3, PostKeepsJobs DEF Stutters
<1>4. ASSUME NEW n \in DOMAIN posts, Enqueue(n) PROVE Promise!Next
  <2>1. posts[n] = "sent" /\ posts' = [posts EXCEPT ![n] = "queued"] /\ "queued" \in JobStatus
    BY <1>4 DEF Enqueue, JobStatus
  <2>2. n \in 1..Attempts /\ n \notin Accepted
    BY <2>1, RoomForJob
  <2>3. Jobs' = [m \in Accepted \cup {n} |-> IF m = n THEN "queued" ELSE Jobs[m]]
    BY <2>1, JobMoves
  <2>4. DOMAIN Jobs = Accepted
    BY DEF Jobs
  <2>5. Promise!Accept(n)
    BY <1>1, <2>2, <2>3, <2>4 DEF Promise!Accept, Jobs, Attempts
  <2> QED
    BY <2>2, <2>5 DEF Promise!Next, Attempts
<1>5. ASSUME NEW n \in DOMAIN posts, NEW status \in JobStatus, Progress(n, status)
      PROVE  Promise!Next
  <2>1. /\ posts[n] \in {"queued", "indexing"} /\ posts' = [posts EXCEPT ![n] = status]
        /\ status \in Promise!Fates \cup {"indexing"}
    BY <1>5 DEF Progress, JobStatus, Final, Promise!Fates
  <2>2. n \in Accepted /\ Jobs[n] = posts[n]
    BY <2>1 DEF Accepted, JobStatus, Jobs
  <2>3. Accepted \cup {n} = Accepted
    BY <2>2
  <2>4. Jobs' = [m \in Accepted |-> IF m = n THEN status ELSE Jobs[m]]
    BY <2>1, <2>3, JobMoves
  <2>5. DOMAIN Jobs = Accepted
    BY DEF Jobs
  <2>6. Jobs' = [Jobs EXCEPT ![n] = status]
    BY <2>2, <2>4, <2>5
  <2>7. Jobs[n] \notin Promise!Fates
    BY <2>1, <2>2 DEF Promise!Fates
  <2>8. Promise!Advance(n)
    BY <1>1, <2>1, <2>6, <2>7 DEF Promise!Advance, Jobs
  <2> QED
    BY <2>2, <2>5, <2>8 DEF Promise!Next, Jobs
<1> QED
  BY <1>2, <1>3, <1>4, <1>5 DEF ActivityStep, Refuse, Receive, ClientTimesOut, ServerError, Raise,
     Begin, AttemptTimesOut, TotalTimesOut, Crash, Restart, Answer

\* A call ends with no fate known, on a job that was accepted if it has an id.
LEMMA EndsUnknowing ==
  ASSUME RInv, wf.pc # "done", UNCHANGED posts, wf.pc \in {"starting", "polling", "sleeping"},
         Promised' = (IF wf.id = 0 THEN "unknown" ELSE "gave_up")
  PROVE  Promise!Report
<1>1. Promised = "open" /\ Jobs' = Jobs
  BY PromisedOpen, JobsKept DEF RInv, Undecided
<1>2. CASE wf.id = 0
  BY <1>1, <1>2 DEF Promise!Report, Promise!Open, Promise!Unknown, Jobs
<1>3. CASE wf.id # 0
  <2>1. wf.id \in DOMAIN Jobs
    BY <1>3 DEF RInv, Undecided, IInv, Known, Accepted, Jobs
  <2> QED
    BY <1>1, <1>3, <2>1 DEF Promise!Report, Promise!Open, Promise!GaveUp, Jobs
<1> QED
  BY <1>2, <1>3

\* A call ends with what it read in a status.
LEMMA EndsOnStatus ==
  ASSUME RInv, Terminal \/ WriteTimeout
  PROVE  Promise!Report
<1>0. wf \in DurableType
  BY DEF RInv, IInv, WfTyped
<1>1. wf.pc = "polling" /\ act.phase = "done" /\ act.result.error = ""
  BY DEF Terminal, WriteTimeout, Polled, Returned
<1>2. act.op = "write_status" /\ act.id = wf.id /\ wf.id \in Accepted
  BY <1>1 DEF RInv, IInv, Located, Known, Accepted
<1>3. act.result.status \in Final => posts[wf.id] = act.result.status
  BY <1>1, <1>2 DEF RInv, IInv, ActivityInv, AnswersTrue, TrueAnswer
<1>4. Promised = "open"
  BY <1>1, PromisedOpen DEF RInv, Undecided
<1>5. wf.id \in DOMAIN Jobs /\ Jobs[wf.id] = posts[wf.id]
  BY <1>2 DEF Jobs
<1>6. CASE Terminal
  <2> DEFINE type == Interpreted(act.result.status)
  <2>1. type # "" /\ Finish(Outcome("loop", type))
    BY <1>6 DEF Terminal
  <2>2. wf'.outcome.by = "loop" /\ wf'.outcome.type = type /\ UNCHANGED posts
    BY <1>0, <2>1 DEF Finish, Outcome, DurableType, activityVars
  <2>3. act.result.status \in Final /\ Promised' = act.result.status
    BY <2>1, <2>2 DEF Interpreted, Final, Promised, LoopPromise
  <2>4. Promised' = Jobs[wf.id] /\ Promised' \in Promise!Fates
    BY <1>3, <1>5, <2>3 DEF Final, Promise!Fates
  <2> QED
    BY <1>4, <1>5, <2>2, <2>4, JobsKept DEF Promise!Report, Promise!Open, Jobs
<1>7. CASE WriteTimeout
  <2>1. wf'.outcome.by = "loop" /\ wf'.outcome.type = "XmemoryWriteTimeout" /\ UNCHANGED posts
    BY <1>0, <1>7 DEF WriteTimeout, Finish, Outcome, DurableType, activityVars
  <2>2. Promised' = "gave_up"
    BY <2>1 DEF Promised, LoopPromise
  <2> QED
    BY <1>4, <1>5, <2>1, <2>2, JobsKept DEF Promise!Report, Promise!Open, Promise!GaveUp, Jobs
<1> QED
  BY <1>6, <1>7

LEMMA StepRefines == RInv /\ [Next]_vars => [Promise!Next]_(Promise!vars)
<1> SUFFICES ASSUME RInv, [Next]_vars PROVE Stutters \/ Promise!Next
  BY StutterAllowed
<1>1. wf \in DurableType
  BY DEF RInv, IInv, WfTyped
<1>2. CASE Start \/ Started \/ Sleep \/ Wake \/ Tick
  <2>1. UNCHANGED posts /\ wf'.outcome = wf.outcome
    BY <1>1, <1>2 DEF Start, Started, Sleep, Wake, Schedule, Tick, DurableType, activityVars
  <2>2. CASE Tick
    <3>1. wf'.id = wf.id
      BY <1>1, <2>2 DEF Tick, DurableType
    <3> QED
      BY <2>1, <3>1, JobsKept DEF Stutters, Promised
  <2>3. CASE ~Tick
    <3>1. wf.pc # "done"
      BY <1>2, <2>3 DEF Start, Started, Sleep, Wake, Polled
    <3>2. wf.outcome = Running /\ wf'.outcome = Running
      BY <2>1, <3>1 DEF RInv, Undecided
    <3>3. wf.outcome.by = "" /\ wf'.outcome.by = ""
      BY <3>2, RunningBy
    <3>4. Promised = "open" /\ Promised' = "open"
      BY <3>3 DEF Promised
    <3> QED
      BY <2>1, <3>4, JobsKept DEF Stutters
  <2> QED
    BY <2>2, <2>3
<1>3. CASE ActivityFails
  <2>1. /\ wf.pc \in {"starting", "polling"}
        /\ wf'.id = wf.id /\ wf'.outcome.by = "activity" /\ UNCHANGED posts
    BY <1>1, <1>3 DEF ActivityFails, Finish, Outcome, DurableType, activityVars
  <2>2. Promised' = IF wf.id = 0 THEN "unknown" ELSE "gave_up"
    BY <2>1 DEF Promised
  <2> QED
    BY <2>1, <2>2, EndsUnknowing DEF Promise!Next
<1>4. CASE Cancel
  <2>1. /\ wf.pc \in {"starting", "polling", "sleeping"}
        /\ wf'.id = wf.id /\ wf'.outcome.by = "caller" /\ UNCHANGED posts
    BY <1>1, <1>4 DEF Cancel, Await, Outcome, DurableType
  <2>2. Promised' = IF wf.id = 0 THEN "unknown" ELSE "gave_up"
    BY <2>1 DEF Promised
  <2> QED
    BY <2>1, <2>2, EndsUnknowing DEF Promise!Next
<1>5. CASE Terminal \/ WriteTimeout
  BY <1>5, EndsOnStatus DEF Promise!Next
<1>6. CASE ActivityStep /\ UNCHANGED <<args, wf>>
  BY <1>6, ServerStep
<1>7. CASE UNCHANGED vars
  <2>1. UNCHANGED <<posts, wf>>
    BY <1>7 DEF vars, activityVars
  <2> QED
    BY <2>1, JobsKept DEF Stutters, Promised
<1> QED
  BY <1>2, <1>3, <1>4, <1>5, <1>6, <1>7 DEF Next, WorkflowStep, Ended

(***************************************************************************)
(* write_durable implements its promise: one job per attempt the policy    *)
(* grants at the most, one outcome, and no fate reported that is not the   *)
(* fate of a job, over all crashes, retries, late answers, polls and       *)
(* cancellations.                                                          *)
(***************************************************************************)
THEOREM KeepsPromise == Spec => ImplementsMemoryWrite
<1>1. Init => Promise!Init
  <2> SUFFICES ASSUME Init PROVE Promise!Init
    OBVIOUS
  <2>1. posts = << >> /\ wf.outcome = Running
    BY DEF Init, ActivitiesInit
  <2>2. Accepted = {}
    BY <2>1 DEF Accepted
  <2> QED
    BY <2>1, <2>2, PromisedOpen DEF Promise!Init, Promise!Open
<1> QED
  BY <1>1, StepRefines, RInvInvariant, PTL DEF Spec, ImplementsMemoryWrite, Promise!Spec

(***************************************************************************)
(* The refinement of WriteLoop: only the call's own steps and the passing  *)
(* of time are seen by it.                                                 *)
(***************************************************************************)
LoopTimer == IF wf.pc = "sleeping" THEN wf.timer ELSE 0

LEMMA DownIs == ASSUME NEW t \in Nat PROVE Down(t) = IF 1 < t THEN t - 1 ELSE 0
BY Sentinels DEF Down

LEMMA LoopOutcomeOpen == wf.outcome = Running => LoopOutcome = Running.type
BY RunningBy DEF LoopOutcome

LEMMA LoopEnds ==
  ASSUME wf \in DurableType, NEW outcome, NEW type, UNCHANGED args,
         wf' = [wf EXCEPT !.pc = "done", !.outcome = outcome],
         LoopOutcome' = type
  PROVE  Loop!Ends(type)
<1>1. wf'.pc = "done" /\ wf'.delay = wf.delay /\ wf'.left = wf.left
  BY DEF DurableType
<1> QED
  BY <1>1 DEF Loop!Ends

LEMMA TickPasses == ASSUME RInv, Tick PROVE [Loop!Next]_(Loop!vars)
<1>1. wf \in DurableType /\ args' = args
      /\ wf' = [wf EXCEPT !.left = Down(@), !.timer = Down(@)]
  BY DEF Tick, RInv, IInv, WfTyped
<1>2. /\ wf'.pc = wf.pc /\ wf'.delay = wf.delay /\ wf'.outcome = wf.outcome
      /\ wf'.left = Down(wf.left) /\ wf'.timer = Down(wf.timer)
      /\ wf.left \in Nat /\ wf.timer \in Nat /\ wf.delay \in Nat
  BY <1>1 DEF DurableType
<1>3. LoopOutcome' = LoopOutcome
  BY <1>2 DEF LoopOutcome
<1>4. /\ wf'.left = IF 1 < wf.left THEN wf.left - 1 ELSE 0
      /\ LoopTimer' = IF 1 < LoopTimer THEN LoopTimer - 1 ELSE 0
      /\ LoopTimer \in Nat
  BY <1>2, DownIs DEF LoopTimer
<1>5. CASE wf.left + LoopTimer = 0
  <2>1. wf'.left = wf.left /\ LoopTimer' = LoopTimer
    BY <1>2, <1>4, <1>5
  <2> QED
    BY <1>1, <1>2, <1>3, <2>1 DEF Loop!vars, LoopTimer
<1>6. CASE wf.left + LoopTimer # 0
  <2>1. 1 \in 1..(wf.left + LoopTimer)
    BY <1>2, <1>4, <1>6
  <2>2. Loop!TimePasses
    BY <1>1, <1>2, <1>3, <1>4, <2>1 DEF Loop!TimePasses, Loop!After, LoopTimer
  <2> QED
    BY <2>2 DEF Loop!Next
<1> QED
  BY <1>5, <1>6

LEMMA StepLoops == RInv /\ [Next]_vars => [Loop!Next]_(Loop!vars)
<1> SUFFICES ASSUME RInv, [Next]_vars PROVE [Loop!Next]_(Loop!vars)
  OBVIOUS
<1>1. wf \in DurableType /\ args \in Waits
  BY DEF RInv, IInv, WfTyped
<1>2. wf.pc # "done" => wf.outcome = Running
  BY DEF RInv, Undecided
<1>3. ASSUME wf.outcome = Running, wf'.outcome = Running PROVE LoopOutcome' = LoopOutcome
  BY <1>3, RunningBy DEF LoopOutcome
<1>4. CASE UNCHANGED <<args, wf>>
  BY <1>4 DEF Loop!vars, LoopOutcome
<1>5. CASE Tick
  BY <1>5, TickPasses
<1>6. CASE Start
  <2>1. args' = args /\ wf.pc = "enqueue" /\ wf' = [wf EXCEPT !.pc = "starting"]
    BY <1>6 DEF Start, Schedule
  <2>2. wf'.pc = "starting" /\ wf'.delay = wf.delay /\ wf'.left = wf.left
        /\ wf'.outcome = wf.outcome
    BY <1>1, <2>1 DEF DurableType
  <2>3. LoopOutcome' = LoopOutcome
    BY <1>2, <1>3, <2>1, <2>2
  <2> QED
    BY <2>1, <2>2, <2>3 DEF Loop!Enqueue, Loop!Next
<1>7. CASE Started
  <2>1. args' = args /\ wf.pc = "starting"
        /\ wf' = [wf EXCEPT !.pc = "polling", !.id = act.result.id,
                            !.delay = args.poll_interval, !.left = args.max_wait]
    BY <1>7 DEF Started, Schedule
  <2>2. wf'.pc = "polling" /\ wf'.delay = args.poll_interval /\ wf'.left = args.max_wait
        /\ wf'.outcome = wf.outcome
    BY <1>1, <2>1 DEF DurableType
  <2>3. LoopOutcome' = LoopOutcome
    BY <1>2, <1>3, <2>1, <2>2
  <2> QED
    BY <2>1, <2>2, <2>3 DEF Loop!Enqueued, Loop!Next
<1>8. CASE Sleep
  <2>1. args' = args /\ wf.pc = "polling" /\ ~(wf.delay >= wf.left)
        /\ wf' = [wf EXCEPT !.pc = "sleeping", !.timer = wf.delay]
    BY <1>8 DEF Sleep, Polled, NoRoom
  <2>2. wf'.pc = "sleeping" /\ wf'.delay = wf.delay /\ wf'.left = wf.left
        /\ wf'.timer = wf.delay /\ wf'.outcome = wf.outcome
        /\ wf.delay \in Nat /\ wf.left \in Nat
    BY <1>1, <2>1 DEF DurableType
  <2>3. LoopOutcome' = LoopOutcome
    BY <1>2, <1>3, <2>1, <2>2
  <2>4. wf.delay < wf.left
    BY <2>1, <2>2
  <2> QED
    BY <2>1, <2>2, <2>3, <2>4 DEF Loop!Sleep, Loop!Next
<1>9. CASE Wake
  <2>1. args' = args /\ wf.pc = "sleeping" /\ wf.timer = 0
        /\ wf' = [wf EXCEPT !.pc = "polling", !.delay = NextDelay(@)]
    BY <1>9 DEF Wake, Schedule
  <2>2. wf'.pc = "polling" /\ wf'.delay = NextDelay(wf.delay) /\ wf'.left = wf.left
        /\ wf'.outcome = wf.outcome /\ wf.delay \in Nat
    BY <1>1, <2>1 DEF DurableType
  <2>3. LoopOutcome' = LoopOutcome
    BY <1>2, <1>3, <2>1, <2>2
  <2>4. NextDelay(wf.delay) = Loop!Shorter(Loop!Grown(wf.delay), args.max_poll_interval)
    <3>1. Loop!Grown(wf.delay) = Grown(wf.delay)
      BY DEF Loop!Grown, Grown
    <3>2. Grown(wf.delay) \in Nat /\ args.max_poll_interval \in Nat
      BY <2>2, WaitsTyped DEF Grown, RInv
    <3>3. NextDelay(wf.delay) =
            IF Grown(wf.delay) <= args.max_poll_interval THEN Grown(wf.delay)
            ELSE args.max_poll_interval
      BY <3>2, MinOfTwo DEF NextDelay
    <3> QED
      BY <3>1, <3>2, <3>3 DEF Loop!Shorter
  <2> QED
    BY <2>1, <2>2, <2>3, <2>4 DEF Loop!Wake, Loop!Next
<1>10. CASE ActivityFails
  <2>1. args' = args /\ wf.pc \in {"starting", "polling"}
        /\ wf' = [wf EXCEPT !.pc = "done", !.outcome = Outcome("activity", act.result.error)]
    BY <1>10 DEF ActivityFails, Finish
  <2>2. wf'.outcome.by = "activity"
    BY <1>1, <2>1 DEF DurableType, Outcome
  <2>3. LoopOutcome' = "raised"
    BY <2>2 DEF LoopOutcome
  <2>4. Loop!Ends("raised")
    BY <1>1, <2>1, <2>3, LoopEnds
  <2> QED
    BY <2>1, <2>4 DEF Loop!Interrupted, Loop!Next
<1>11. CASE Cancel
  <2>1. args' = args /\ wf.pc \in {"starting", "polling", "sleeping"}
        /\ wf' = [wf EXCEPT !.pc = "done", !.outcome = Outcome("caller", "Cancelled")]
    BY <1>11 DEF Cancel, Await
  <2>2. wf'.outcome.by = "caller"
    BY <1>1, <2>1 DEF DurableType, Outcome
  <2>3. LoopOutcome' = "cancelled"
    BY <2>2 DEF LoopOutcome
  <2>4. Loop!Ends("cancelled")
    BY <1>1, <2>1, <2>3, LoopEnds
  <2> QED
    BY <2>1, <2>4 DEF Loop!Interrupted, Loop!Next
<1>12. ASSUME NEW type, args' = args,
              wf' = [wf EXCEPT !.pc = "done", !.outcome = Outcome("loop", type)]
       PROVE  Loop!Ends(type)
  <2>1. wf'.outcome.by = "loop" /\ wf'.outcome.type = type
    BY <1>1, <1>12 DEF DurableType, Outcome
  <2>2. LoopOutcome' = type
    BY <2>1 DEF LoopOutcome
  <2> QED
    BY <1>1, <1>12, <2>2, LoopEnds
<1>13. CASE Terminal
  <2> DEFINE type == Interpreted(act.result.status)
  <2>1. args' = args /\ wf.pc = "polling" /\ type # ""
        /\ wf' = [wf EXCEPT !.pc = "done", !.outcome = Outcome("loop", type)]
    BY <1>13 DEF Terminal, Polled, Finish
  <2>2. type \in {"completed", "XmemoryWriteFailed", "XmemoryWriteNotFound"}
    BY <2>1, Zenon DEF Interpreted
  <2> HIDE DEF type
  <2>3. Loop!Ends(type)
    BY <1>12, <2>1
  <2> QED
    BY <2>1, <2>2, <2>3 DEF Loop!Report, Loop!Next
<1>14. CASE WriteTimeout
  <2>1. args' = args /\ wf.pc = "polling" /\ wf.delay >= wf.left
        /\ wf' = [wf EXCEPT !.pc = "done", !.outcome = Outcome("loop", "XmemoryWriteTimeout")]
    BY <1>14 DEF WriteTimeout, Polled, NoRoom, Finish
  <2>2. Loop!Ends("XmemoryWriteTimeout")
    BY <1>12, <2>1
  <2> QED
    BY <2>1, <2>2 DEF Loop!GiveUp, Loop!Next
<1>15. UNCHANGED vars => UNCHANGED <<args, wf>>
  BY DEF vars
<1> QED
  BY <1>4, <1>5, <1>6, <1>7, <1>8, <1>9, <1>10, <1>11, <1>13, <1>14, <1>15
     DEF Next, WorkflowStep, Ended

(***************************************************************************)
(* For every policy, deadline, interval, cap and max_wait, over all        *)
(* crashes, retries, late answers and cancellations: write_durable is the  *)
(* loop that its replay implements, too.                                   *)
(***************************************************************************)
THEOREM KeepsLoop == Spec => ImplementsWriteLoop
<1>1. Init => Loop!Init
  <2> SUFFICES ASSUME Init PROVE Loop!Init
    OBVIOUS
  <2>1. /\ args \in Waits /\ wf.pc = "enqueue" /\ wf.delay = 0 /\ wf.left = 0
        /\ wf.outcome = Running
    BY DEF Init
  <2>2. LoopOutcome = Running.type /\ Running.type = ""
    BY <2>1, LoopOutcomeOpen DEF Running
  <2>3. LoopOutcome = ""
    BY <2>2, Zenon
  <2> QED
    BY <2>1, <2>3, Zenon DEF Loop!Init
<1> QED
  BY <1>1, StepLoops, RInvInvariant, PTL DEF Spec, ImplementsWriteLoop, Loop!Spec
============================================================================
