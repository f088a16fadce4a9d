------------------------- MODULE DirectCallsProofs -------------------------
(***************************************************************************)
(* The facade's direct calls, for any number of them, every retry policy,  *)
(* deadline, server error and number of crashes.                           *)
(***************************************************************************)
EXTENDS DirectCalls, XmemoryActivitiesProofs, FiniteSetTheorems

(***************************************************************************)
(* The inductive invariant, in two layers.  The first counts POSTs: the    *)
(* calls that returned have used up at most their attempts, and the one    *)
(* under way those it began, none of them if its handler refuses it.       *)
(***************************************************************************)
Entry == [op: Ops, id: Nat, result: ResultType]
Logged == log \in Seq(Entry)

Attempted ==
  act.phase # "idle" =>
    /\ act.attempt <= Policy[act.op].attempts
    /\ Refusal(act.op) # "" => act.phase # "running"
    /\ act.phase = "done" /\ act.result.error \in Refusals => Refusal(act.op) # ""
    /\ act.result.error # "" => act.result.id = 0

SendsIn(phase, posting, attempt) ==
  IF phase = "idle" \/ ~posting THEN 0
  ELSE IF phase = "queued" THEN attempt - 1 ELSE attempt
Posting == act.op \in WriteOps /\ Refusal(act.op) = ""
Sends == SendsIn(act.phase, Posting, act.attempt)

Grant == Policy["write"].attempts
Counted == Len(posts) <= Grant * Cardinality(Writes) + Sends

Accepts(id) == id \in DOMAIN posts /\ posts[id] \in JobStatus
Enqueued(entry) ==
  entry.op = "write_start" /\ (entry.result.error = "" \/ entry.result.id # 0)
StartsKnown == \A i \in DOMAIN log : Enqueued(log[i]) => Accepts(log[i].result.id)

CountInv == ActivityInv /\ Logged /\ Attempted /\ Counted /\ StartsKnown

(***************************************************************************)
(* The facts about the log.                                                *)
(***************************************************************************)
LEMMA GrantTyped ==
  /\ Grant \in Nat /\ Grant >= 1
  /\ \A op \in WriteOps : Policy[op].attempts = Grant
  /\ \A op \in Ops : Policy[op].attempts \in Nat /\ Policy[op].attempts >= 1
<1>1. \A op \in Ops : Policy[op] \in PolicyType
  BY ActivitiesAssumption
<1>2. \A op \in Ops : Policy[op].attempts \in Nat /\ Policy[op].attempts >= 1
  BY <1>1 DEF PolicyType
<1>3. "write" \in Ops /\ WriteOps = {"write", "write_start"}
  BY DEF Ops, WriteOps
<1> QED
  BY <1>2, <1>3, SharedWritePolicy DEF Grant

LEMMA LogFinite ==
  ASSUME Logged
  PROVE  /\ IsFiniteSet(DOMAIN log) /\ Len(log) \in Nat /\ DOMAIN log = 1..Len(log)
         /\ IsFiniteSet(Writes) /\ Cardinality(Writes) \in Nat
         /\ \A op : IsFiniteSet(Succeeded(op)) /\ Cardinality(Succeeded(op)) \in Nat
<1>1. Len(log) \in Nat /\ DOMAIN log = 1..Len(log)
  BY DEF Logged
<1>2. IsFiniteSet(DOMAIN log)
  BY <1>1, FS_Interval
<1>3. Writes \in SUBSET DOMAIN log /\ \A op : Succeeded(op) \in SUBSET DOMAIN log
  BY DEF Writes, Succeeded
<1> QED
  BY <1>1, <1>2, <1>3, FS_Subset, FS_CardinalityType

LEMMA LogAppended ==
  ASSUME Logged, NEW e \in Entry, log' = Append(log, e)
  PROVE  /\ Logged' /\ DOMAIN log' = DOMAIN log \cup {Len(log) + 1}
         /\ Len(log) + 1 \notin DOMAIN log
         /\ log'[Len(log) + 1] = e /\ \A i \in DOMAIN log : log'[i] = log[i]
BY DEF Logged

LEMMA AddOne ==
  ASSUME NEW S, IsFiniteSet(S), NEW x, x \notin S
  PROVE  IsFiniteSet(S \cup {x}) /\ Cardinality(S \cup {x}) = Cardinality(S) + 1
BY FS_AddElement

\* The write calls that returned, after one more call did.
LEMMA WritesAppended ==
  ASSUME Logged, NEW e \in Entry, log' = Append(log, e)
  PROVE  Cardinality(Writes') =
           Cardinality(Writes) + (IF e.op \in WriteOps /\ e.result.error \notin Refusals THEN 1 ELSE 0)
<1>1. /\ DOMAIN log' = DOMAIN log \cup {Len(log) + 1} /\ Len(log) + 1 \notin DOMAIN log
      /\ log'[Len(log) + 1] = e /\ \A i \in DOMAIN log : log'[i] = log[i]
  BY LogAppended
<1>2. Len(log) + 1 \notin Writes
  BY <1>1 DEF Writes
<1>3. CASE e.op \in WriteOps /\ e.result.error \notin Refusals
  <2>1. Writes' = Writes \cup {Len(log) + 1}
    BY <1>1, <1>3 DEF Writes
  <2> QED
    BY <1>2, <1>3, <2>1, AddOne, LogFinite
<1>4. CASE ~(e.op \in WriteOps /\ e.result.error \notin Refusals)
  <2>1. Writes' = Writes
    BY <1>1, <1>4 DEF Writes
  <2> QED
    BY <1>4, <2>1, LogFinite
<1> QED
  BY <1>3, <1>4

(***************************************************************************)
(* Steps of the activity.                                                  *)
(***************************************************************************)
LEMMA RefusalsNamed == \A op \in Ops : Refusal(op) # "" => Refusal(op) \in Refusals
BY DEF Refusal, Refusals

LEMMA SettledResult ==
  ASSUME ActivityInv, NEW f \in AnyFailure
  PROVE  Settled(f).result = act.result \/ Settled(f).result = Failed(f.type)
<1>1. act \in ActivityType
  BY DEF ActivityInv, ActivityTypeOK
<1> QED
  BY <1>1 DEF Settled, ActivityType

\* What an attempt that fails leaves behind.
LEMMA FailureReported ==
  ASSUME CountInv, NEW f \in AnyFailure, act' = Settled(f), act.phase \in {"queued", "running"}
  PROVE  /\ act'.result.error # "" => act'.result.id = 0
         /\ act'.phase = "done" => act'.result.error = f.type
<1>1. act \in ActivityType
  BY DEF CountInv, ActivityInv, ActivityTypeOK
<1>2. Failed(f.type).id = 0 /\ Failed(f.type).error = f.type
  BY DEF Failed, Pending
<1>3. act'.result = act.result \/ act'.result = Failed(f.type)
  BY SettledResult DEF CountInv
<1>4. act'.phase = "done" => act'.result = Failed(f.type)
  BY <1>1 DEF Settled, ActivityType
<1>5. act.result.error # "" => act.result.id = 0
  BY DEF CountInv, Attempted
<1>6. CASE act'.result = act.result
  BY <1>2, <1>4, <1>5, <1>6
<1>7. CASE act'.result = Failed(f.type)
  BY <1>2, <1>7
<1> QED
  BY <1>3, <1>6, <1>7

\* A handler that refuses is not running, and a handler that calls does not refuse.
LEMMA RefusalKept ==
  ASSUME CountInv, ActivityStep, act.phase # "idle"
  PROVE  /\ Refusal(act.op) # "" => act'.phase # "running" /\ Len(posts') = Len(posts)
         /\ act'.phase = "done" /\ act'.result.error \in Refusals => Refusal(act.op) # ""
         /\ act'.result.error # "" => act'.result.id = 0
<1>1. act \in ActivityType /\ act.op \in Ops /\ StepEffect
  BY StepPreserves DEF CountInv, ActivityInv, ActivityTypeOK, ActivityType
<1>2. "" \notin Refusals
  BY DEF Refusals
<1>3. CASE act' = act /\ Len(posts') = Len(posts)
  BY <1>3 DEF CountInv, Attempted
<1>4. CASE Refuse
  <2>1. Failure(Refusal(act.op), FALSE, None) \in AnyFailure
        /\ Failure(Refusal(act.op), FALSE, None).non_retryable
    BY <1>1, <1>4, FailuresTyped DEF Refuse, Failure
  <2>2. act' = Settled(Failure(Refusal(act.op), FALSE, None)) /\ act.phase = "queued"
        /\ Refusal(act.op) # "" /\ UNCHANGED posts
    BY <1>4 DEF Refuse, Startable
  <2>3. act'.phase # "running"
    BY <2>1, <2>2, SettledTyped DEF CountInv, ActivityInv
  <2> QED
    BY <2>1, <2>2, <2>3, FailureReported
<1>5. CASE \E lag \in 0..Latency : Begin(lag)
  <2>1. Refusal(act.op) = "" /\ act.phase = "queued"
        /\ act'.phase = "running" /\ act'.result = act.result
    BY <1>1, <1>5 DEF Begin, Startable, ActivityType
  <2> QED
    BY <2>1 DEF CountInv, Attempted
<1>6. CASE Receive
  <2>1. act.phase = "running" /\ act'.phase = "done" /\ act'.result = call.reply
        /\ call.reply # None /\ UNCHANGED posts
    BY <1>1, <1>6 DEF Receive, Awaiting, ActivityType
  <2>2. act'.result.error = ""
    BY <2>1 DEF CountInv, ActivityInv, AnswersTrue, TrueAnswer
  <2> QED
    BY <1>2, <2>1, <2>2
<1>7. ASSUME NEW f \in AnyFailure, act' = Settled(f), f.type \notin Refusals, UNCHANGED posts,
             act.phase = "running" \/ f.non_retryable, act.phase \in {"queued", "running"}
      PROVE  /\ Refusal(act.op) # "" => act'.phase # "running" /\ Len(posts') = Len(posts)
             /\ act'.phase = "done" /\ act'.result.error \in Refusals => Refusal(act.op) # ""
             /\ act'.result.error # "" => act'.result.id = 0
  <2>1. act'.phase # "running"
    BY <1>7, SettledTyped DEF CountInv, ActivityInv
  <2> QED
    BY <1>7, <2>1, FailureReported
<1>8. ASSUME NEW exc \in ExceptionType, Raise(exc)
      PROVE  /\ Refusal(act.op) # "" => act'.phase # "running" /\ Len(posts') = Len(posts)
             /\ act'.phase = "done" /\ act'.result.error \in Refusals => Refusal(act.op) # ""
             /\ act'.result.error # "" => act'.result.id = 0
  <2>1. /\ ToApplicationError(exc) \in AnyFailure /\ ToApplicationError(exc).type \notin Refusals
        /\ act' = Settled(ToApplicationError(exc)) /\ act.phase = "running" /\ UNCHANGED posts
    BY <1>8, FailuresTyped, ErrorNoRefusal DEF Raise, Awaiting, Refusals
  <2> QED
    BY <1>7, <2>1
<1>9. CASE ClientTimesOut \/ ServerError
  <2>1. Plain("transport") \in ExceptionType
    BY DEF Plain, ExceptionType, Kinds, Hints
  <2> QED
    BY <1>8, <1>9, <2>1, ActivitiesAssumption DEF ClientTimesOut, ServerError
<1>10. CASE AttemptTimesOut
  <2> DEFINE f == Failure("StartToClose", TRUE, None)
  <2>1. f \in AnyFailure /\ f.type \notin Refusals
    BY FailuresTyped DEF FailureNames, Failure, Refusals
  <2>2. act' = Settled(f) /\ act.phase = "running" /\ UNCHANGED posts
    BY <1>10 DEF AttemptTimesOut
  <2> HIDE DEF f
  <2> QED
    BY <1>7, <2>1, <2>2
<1>11. CASE TotalTimesOut
  <2> DEFINE f == Failure("ScheduleToClose", FALSE, None)
  <2>1. f \in AnyFailure /\ f.type \notin Refusals /\ f.non_retryable
    BY FailuresTyped DEF FailureNames, Failure, Refusals
  <2>2. act' = Settled(f) /\ act.phase \in {"queued", "running"} /\ UNCHANGED posts
    BY <1>11 DEF TotalTimesOut
  <2> HIDE DEF f
  <2> QED
    BY <1>7, <2>1, <2>2
<1>12. ASSUME NEW n \in DOMAIN posts, NEW s, posts' = [posts EXCEPT ![n] = s], act' = act
       PROVE  act' = act /\ Len(posts') = Len(posts)
  <2>1. posts \in Seq({"sent"} \cup JobStatus)
    BY DEF CountInv, ActivityInv, ActivityTypeOK
  <2> QED
    BY <1>12, <2>1
<1>13. CASE Crash \/ Restart \/ Answer \/ \E n \in DOMAIN posts :
              Enqueue(n) \/ \E status \in JobStatus : Progress(n, status)
  <2>1. act' = act /\ Len(posts') = Len(posts)
    BY <1>12, <1>13 DEF Crash, Restart, Answer, Enqueue, Progress
  <2> QED
    BY <1>3, <2>1
<1> QED
  BY <1>4, <1>5, <1>6, <1>9, <1>10, <1>11, <1>13 DEF ActivityStep

\* Every POST of a step is one the attempt that begins may send.
LEMMA SendsStep ==
  ASSUME NEW q, NEW p, NEW w \in BOOLEAN,
         NEW j \in Nat, NEW k \in Nat, NEW m \in Nat, NEW n \in Nat,
         p = "idle" <=> q = "idle",
         \/ k = j /\ n = m /\ (p = "queued" => q = "queued")
         \/ q = "queued" /\ p = "running" /\ k = j /\ n \in {m, m + 1}
         \/ q = "running" /\ p = "queued" /\ k = j + 1 /\ n = m,
         ~w \/ q = "idle" => n = m
  PROVE  /\ n - m <= SendsIn(p, w, k) - SendsIn(q, w, j)
         /\ SendsIn(p, w, k) \in Int /\ SendsIn(q, w, j) \in Int
<1>1. CASE q = "idle" \/ ~w
  BY <1>1 DEF SendsIn
<1>2. CASE q # "idle" /\ w
  BY <1>2 DEF SendsIn
<1> QED
  BY <1>1, <1>2

LEMMA ActivityKeepsCount ==
  ASSUME CountInv, ActivityStep, UNCHANGED log
  PROVE  CountInv'
<1>1. ActivityInv' /\ StepEffect
  BY StepPreserves DEF CountInv
<1>2. Logged' /\ Cardinality(Writes') = Cardinality(Writes)
  BY DEF CountInv, Logged, Writes
<1>3. StartsKnown'
  BY <1>1 DEF CountInv, StartsKnown, Enqueued, Accepts, StepEffect, PostsKept
<1>4. act.phase = "idle" <=> act'.phase = "idle"
  BY <1>1 DEF StepEffect
<1>5. handle' = handle
  BY DEF ActivityStep, Refuse, Receive, ClientTimesOut, ServerError, Raise, Begin, AttemptTimesOut,
     TotalTimesOut, Crash, Restart, Answer, Enqueue, Progress
<1>6. act'.op = act.op /\ Refusal(act.op)' = Refusal(act.op)
  BY <1>1, <1>5 DEF StepEffect, Refusal, Budget
<1>7. act.op \in Ops /\ act.attempt \in Nat /\ Policy[act.op].attempts \in Nat
      /\ Len(posts) \in Nat /\ Len(posts') \in Nat
      /\ act.phase \in {"idle", "queued", "running", "done"}
  BY <1>1, GrantTyped DEF CountInv, ActivityInv, ActivityTypeOK, ActivityType
<1>8. Attempted'
  <2>1. CASE act.phase = "idle"
    BY <1>4, <2>1 DEF Attempted
  <2>2. CASE act.phase # "idle"
    <3>1. act.attempt <= Policy[act.op].attempts
      BY <2>2 DEF CountInv, Attempted
    <3>2. \/ act'.attempt = act.attempt
          \/ act'.attempt = act.attempt + 1 /\ act.attempt < Policy[act.op].attempts
      BY <1>1 DEF StepEffect
    <3>3. act'.attempt <= Policy[act.op].attempts
      BY <1>7, <3>1, <3>2
    <3> QED
      BY <1>6, <2>2, <3>3, RefusalKept DEF Attempted
  <2> QED
    BY <2>1, <2>2
<1>9. Len(posts') - Len(posts) <= Sends' - Sends /\ Sends \in Int /\ Sends' \in Int
  <2>1. act'.attempt \in Nat
    BY <1>1 DEF ActivityInv, ActivityTypeOK, ActivityType
  <2> PICK w \in BOOLEAN : w = Posting
    BY DEF Posting
  <2>2. PICK q, p : q = act.phase /\ p = act'.phase /\ w = Posting
    OBVIOUS
  <2>3. Posting' = Posting
    BY <1>6 DEF Posting
  <2>4. PICK j \in Nat, k \in Nat, m \in Nat, n \in Nat :
          j = act.attempt /\ k = act'.attempt /\ m = Len(posts) /\ n = Len(posts')
    BY <1>7, <2>1
  <2>5. /\ p = "idle" <=> q = "idle"
        /\ \/ k = j /\ n = m /\ (p = "queued" => q = "queued")
           \/ q = "queued" /\ p = "running" /\ k = j /\ n \in {m, m + 1}
           \/ q = "running" /\ p = "queued" /\ k = j + 1 /\ n = m
    BY <1>1, <2>2, <2>4 DEF StepEffect
  <2>6. ~w \/ q = "idle" => n = m
    <3>1. q # "idle" /\ Refusal(act.op) # "" => n = m
      BY <2>2, <2>4, RefusalKept
    <3>2. q = "idle" \/ act.op \notin WriteOps => n = m
      BY <1>1, <2>2, <2>4 DEF StepEffect
    <3> QED
      BY <2>2, <3>1, <3>2 DEF Posting
  <2>7. /\ n - m <= SendsIn(p, w, k) - SendsIn(q, w, j)
        /\ SendsIn(p, w, k) \in Int /\ SendsIn(q, w, j) \in Int
    BY <2>5, <2>6, SendsStep
  <2>8. Sends = SendsIn(q, w, j) /\ Sends' = SendsIn(p, w, k)
    BY <2>2, <2>3, <2>4 DEF Sends
  <2> QED
    BY <2>4, <2>7, <2>8
<1>10. Counted'
  <2>1. Grant * Cardinality(Writes) \in Int
    BY GrantTyped, LogFinite DEF CountInv
  <2>2. Len(posts) <= Grant * Cardinality(Writes) + Sends
    BY DEF CountInv, Counted
  <2>3. Len(posts') <= Grant * Cardinality(Writes) + Sends'
    BY <1>7, <1>9, <2>1, <2>2
  <2> QED
    BY <1>2, <2>3 DEF Counted, Grant
<1> QED
  BY <1>1, <1>2, <1>3, <1>8, <1>10 DEF CountInv

(***************************************************************************)
(* Steps of the workflow.                                                  *)
(***************************************************************************)
LEMMA InitCount == Init => CountInv
<1> SUFFICES ASSUME Init PROVE CountInv
  OBVIOUS
<1>1. ActivityInv
  BY InitActivityInv DEF Init
<1>2. act.phase = "idle" /\ Len(posts) = 0
  BY DEF Init, ActivitiesInit, NoActivity
<1>3. Logged /\ log = << >> /\ StartsKnown
  BY DEF Init, Logged, StartsKnown
<1>4. Attempted
  BY <1>2 DEF Attempted
<1>5. Sends = 0
  BY <1>2 DEF Sends, SendsIn
<1>6. Counted
  <2>1. Cardinality(Writes) \in Nat /\ Grant \in Nat
    BY <1>3, LogFinite, GrantTyped
  <2>2. Grant * Cardinality(Writes) >= 0
    BY <2>1
  <2> QED
    BY <1>2, <1>5, <2>1, <2>2 DEF Counted
<1> QED
  BY <1>1, <1>3, <1>4, <1>6 DEF CountInv

LEMMA IssueKeepsCount ==
  ASSUME CountInv, NEW op \in Ops, NEW id \in Nat, Issue(op, id),
         op = "write_status" => Accepts(id)
  PROVE  CountInv'
<1>1. act.phase = "idle" /\ act' = Scheduled(op, id)
      /\ UNCHANGED <<handle, up, crashes, call, posts>> /\ UNCHANGED log
  BY DEF Issue
<1>2. ActivityInv' /\ act'.op = op /\ act'.phase = "queued" /\ act'.attempt = 1
  BY <1>1, SchedulePreserves DEF CountInv, Accepts
<1>3. act'.result.error = ""
  BY <1>1 DEF Scheduled, Pending
<1>4. Logged' /\ Cardinality(Writes') = Cardinality(Writes) /\ StartsKnown'
  BY <1>1 DEF CountInv, Logged, Writes, StartsKnown, Enqueued, Accepts
<1>5. Attempted'
  BY <1>2, <1>3, GrantTyped DEF Attempted
<1>6. Sends = 0 /\ Sends' = 0
  BY <1>1, <1>2 DEF Sends, SendsIn
<1>7. Counted'
  BY <1>1, <1>4, <1>6 DEF CountInv, Counted, Grant
<1> QED
  BY <1>2, <1>4, <1>5, <1>7 DEF CountInv

LEMMA CallKeepsCount ==
  ASSUME CountInv, Call
  PROVE  CountInv'
<1>1. CASE \E op \in Ops \ {"write_status"} : Issue(op, 0)
  BY <1>1, IssueKeepsCount
<1>2. CASE \E id \in WriteIds : Issue("write_status", id)
  <2>1. PICK id \in WriteIds : Issue("write_status", id)
    BY <1>2
  <2>2. PICK i \in DOMAIN log : log[i].op = "write_start" /\ id = log[i].result.id /\ id # 0
    BY <2>1 DEF WriteIds
  <2>3. Accepts(id)
    BY <2>2 DEF CountInv, StartsKnown, Enqueued
  <2>4. id \in Nat /\ "write_status" \in Ops
    BY <2>3 DEF Accepts, CountInv, ActivityInv, ActivityTypeOK, Ops
  <2> QED
    BY <2>1, <2>3, <2>4, IssueKeepsCount
<1> QED
  BY <1>1, <1>2 DEF Call

LEMMA IdleInv ==
  ASSUME ActivityInv, act.phase = "done", act' = NoActivity,
         UNCHANGED <<handle, up, crashes, call, posts>>
  PROVE  ActivityInv' /\ act'.phase = "idle"
<1>1. act' \in ActivityType /\ act'.phase = "idle"
  BY NoneTyped DEF NoActivity
<1>2. call = NoCall /\ NoCall.reply = None
  BY DEF ActivityInv, CallOnlyRunning, NoCall
<1>3. ActivityTypeOK'
  BY <1>1 DEF ActivityInv, ActivityTypeOK
<1>4. TotalTracked' /\ PollsAccepted' /\ CallOnlyRunning' /\ AnswersTrue'
  BY <1>1, <1>2 DEF TotalTracked, PollsAccepted, CallOnlyRunning, AnswersTrue
<1> QED
  BY <1>1, <1>3, <1>4 DEF ActivityInv

\* The call that returned: what its result says of the server.
LEMMA ReturnedCall ==
  ASSUME CountInv, Return
  PROVE  \E e \in Entry :
           /\ e.op = act.op /\ e.result = act.result /\ log' = Append(log, e)
           /\ Enqueued(e) => Accepts(e.result.id)
<1> DEFINE e == [op |-> act.op, id |-> act.id, result |-> act.result]
<1>1. act.phase = "done" /\ log' = Append(log, e)
  BY DEF Return
<1>2. e \in Entry
  BY DEF CountInv, ActivityInv, ActivityTypeOK, ActivityType, Entry
<1>3. act.result.error # "" => act.result.id = 0
  BY <1>1 DEF CountInv, Attempted
<1>4. act.result.error = "" /\ act.op = "write_start" => Accepts(act.result.id)
  BY <1>1 DEF CountInv, ActivityInv, AnswersTrue, TrueAnswer, Accepts
<1>5. Enqueued(e) => Accepts(e.result.id)
  BY <1>3, <1>4 DEF Enqueued
<1>6. e.op = act.op /\ e.result = act.result
  OBVIOUS
<1> HIDE DEF e
<1> QED
  BY <1>1, <1>2, <1>5, <1>6

LEMMA OneMore ==
  ASSUME NEW g \in Nat, NEW c \in Nat
  PROVE  g * (c + 1) = g * c + g /\ g * c \in Nat /\ g * (c + 0) = g * c
OBVIOUS

\* What the call under way may have sent, a write call is granted.
LEMMA SendsGranted ==
  ASSUME CountInv
  PROVE  Sends \in Int /\ Sends <= (IF act.phase # "idle" /\ Posting THEN Grant ELSE 0)
<1>1. act.attempt \in Nat /\ act.op \in Ops
  BY DEF CountInv, ActivityInv, ActivityTypeOK, ActivityType
<1>2. CASE act.phase = "idle" \/ ~Posting
  BY <1>2 DEF Sends, SendsIn
<1>3. CASE act.phase # "idle" /\ Posting
  <2>1. act.attempt <= Grant /\ Grant \in Nat
    BY <1>3, GrantTyped DEF CountInv, Attempted, Posting
  <2> QED
    BY <1>1, <1>3, <2>1 DEF Sends, SendsIn
<1> QED
  BY <1>2, <1>3

LEMMA ReturnKeepsCount ==
  ASSUME CountInv, Return
  PROVE  CountInv'
<1>1. PICK e \in Entry : /\ e.op = act.op /\ e.result = act.result /\ log' = Append(log, e)
                         /\ Enqueued(e) => Accepts(e.result.id)
  BY ReturnedCall
<1>2. act.phase = "done" /\ act' = NoActivity /\ UNCHANGED <<handle, up, crashes, call, posts>>
  BY DEF Return
<1>3. ActivityInv' /\ act'.phase = "idle"
  BY <1>2, IdleInv DEF CountInv
<1>4. /\ Logged' /\ DOMAIN log' = DOMAIN log \cup {Len(log) + 1}
      /\ log'[Len(log) + 1] = e /\ \A i \in DOMAIN log : log'[i] = log[i]
  BY <1>1, LogAppended DEF CountInv
<1>5. StartsKnown'
  BY <1>1, <1>2, <1>4 DEF CountInv, StartsKnown, Accepts
<1>6. Attempted'
  BY <1>3 DEF Attempted
<1>7. Counted'
  <2>1. PICK c \in Nat : c = Cardinality(Writes)
    BY LogFinite DEF CountInv
  <2>2. PICK m \in Nat : m = Len(posts)
    BY DEF CountInv, ActivityInv, ActivityTypeOK
  <2>3. m <= Grant * c + Sends /\ Grant \in Nat
    BY <2>1, <2>2, GrantTyped DEF CountInv, Counted
  <2>4. Sends' = 0
    BY <1>3 DEF Sends, SendsIn
  <2>5. CASE Posting
    <3>1. act.result.error \notin Refusals
      BY <1>2, <2>5 DEF CountInv, Attempted, Posting
    <3>2. Cardinality(Writes') = c + 1
      BY <1>1, <2>1, <2>5, <3>1, WritesAppended DEF CountInv, Posting
    <3>3. m <= Grant * c + Grant
      BY <2>3, <2>5, SendsGranted, OneMore
    <3>4. m <= Grant * (c + 1) + 0
      BY <2>3, <3>3, OneMore
    <3> QED
      BY <1>2, <2>2, <2>4, <3>2, <3>4 DEF Counted, Grant
  <2>6. CASE ~Posting
    <3>1. m <= Grant * c
      BY <2>3, <2>6, SendsGranted, OneMore
    <3>2. Cardinality(Writes') \in {c, c + 1}
      BY <1>1, <2>1, WritesAppended DEF CountInv
    <3>3. m <= Grant * (c + 1) + 0 /\ m <= Grant * c + 0
      BY <2>3, <3>1, OneMore
    <3> QED
      BY <1>2, <2>2, <2>4, <3>2, <3>3 DEF Counted, Grant
  <2> QED
    BY <2>5, <2>6
<1> QED
  BY <1>3, <1>4, <1>5, <1>6, <1>7 DEF CountInv

LEMMA TickKeepsCount ==
  ASSUME CountInv, Tick
  PROVE  CountInv'
<1>1. Elapse /\ UNCHANGED <<handle, up, crashes, posts>> /\ UNCHANGED log
  BY DEF Tick
<1>2. /\ ActivityInv' /\ act'.op = act.op /\ act'.phase = act.phase
      /\ act'.attempt = act.attempt /\ act'.result = act.result
  BY <1>1, ElapsePreserves DEF CountInv
<1>3. Logged' /\ Cardinality(Writes') = Cardinality(Writes) /\ StartsKnown'
  BY <1>1 DEF CountInv, Logged, Writes, StartsKnown, Enqueued, Accepts
<1>4. Refusal(act.op)' = Refusal(act.op)
  BY <1>1, <1>2 DEF Refusal, Budget
<1>5. Attempted'
  BY <1>2, <1>4 DEF CountInv, Attempted
<1>6. Sends' = Sends
  BY <1>2, <1>4 DEF Sends, Posting
<1>7. Counted'
  BY <1>1, <1>3, <1>6 DEF CountInv, Counted, Grant
<1> QED
  BY <1>2, <1>3, <1>5, <1>7 DEF CountInv

LEMMA StutterKeepsCount ==
  ASSUME CountInv, UNCHANGED vars
  PROVE  CountInv'
<1>1. UNCHANGED <<handle, up, crashes, act, call, posts>> /\ UNCHANGED log
  BY DEF vars, activityVars
<1>2. ActivityInv'
  BY <1>1 DEF CountInv, ActivityInv, ActivityTypeOK, TotalTracked, PollsAccepted,
     CallOnlyRunning, AnswersTrue, TrueAnswer
<1>3. Logged' /\ Cardinality(Writes') = Cardinality(Writes) /\ StartsKnown'
  BY <1>1 DEF CountInv, Logged, Writes, StartsKnown, Enqueued, Accepts
<1>4. Refusal(act.op)' = Refusal(act.op)
  BY <1>1 DEF Refusal, Budget
<1>5. Attempted' /\ Sends' = Sends
  BY <1>1, <1>4 DEF CountInv, Attempted, Sends, Posting
<1>6. Counted'
  BY <1>1, <1>3, <1>5 DEF CountInv, Counted, Grant
<1> QED
  BY <1>2, <1>3, <1>5, <1>6 DEF CountInv

LEMMA CountInvariant == Spec => []CountInv
<1>1. CountInv /\ [Next]_vars => CountInv'
  BY CallKeepsCount, ReturnKeepsCount, TickKeepsCount, ActivityKeepsCount, StutterKeepsCount
     DEF Next, Ended
<1> QED
  BY InitCount, <1>1, PTL DEF Spec

(***************************************************************************)
(* The calls made, the activity under way and the server keep their types. *)
(***************************************************************************)
THEOREM Typed == Spec => []TypeOK
<1>1. CountInv => TypeOK
  BY DEF CountInv, ActivityInv, Logged, Entry, TypeOK
<1> QED
  BY CountInvariant, <1>1, PTL

(***************************************************************************)
(* Over any sequence of calls, crashes and lost answers, the server is sent*)
(* no more write POSTs than the write policy grants the write calls made.  *)
(***************************************************************************)
THEOREM PostsGranted == Spec => []AtMostOncePerWrite
<1>1. CountInv => AtMostOncePerWrite
  <2> SUFFICES ASSUME CountInv PROVE AtMostOncePerWrite
    OBVIOUS
  <2>1. PICK c \in Nat : c = Cardinality(Writes)
    BY LogFinite DEF CountInv
  <2>2. PICK m \in Nat : m = Len(posts)
    BY DEF CountInv, ActivityInv, ActivityTypeOK
  <2>3. m <= Grant * c + Sends /\ Grant \in Nat
    BY <2>1, <2>2, GrantTyped DEF CountInv, Counted
  <2>4. CASE act.phase # "idle" /\ act.op \in WriteOps
    <3>1. WritesMade = c + 1
      BY <2>1, <2>4 DEF WritesMade
    <3>2. m <= Grant * c + Grant
      BY <2>3, SendsGranted, OneMore
    <3>3. m <= Grant * (c + 1)
      BY <2>3, <3>2, OneMore
    <3> QED
      BY <2>2, <3>1, <3>3 DEF AtMostOncePerWrite, Grant
  <2>5. CASE ~(act.phase # "idle" /\ act.op \in WriteOps)
    <3>1. WritesMade = c
      BY <2>1, <2>5 DEF WritesMade
    <3>2. ~(act.phase # "idle" /\ Posting)
      BY <2>5 DEF Posting
    <3>3. m <= Grant * c
      BY <2>3, <3>2, SendsGranted, OneMore
    <3> QED
      BY <2>2, <3>1, <3>3 DEF AtMostOncePerWrite, Grant
  <2> QED
    BY <2>4, <2>5
<1> QED
  BY CountInvariant, <1>1, PTL

(***************************************************************************)
(* The second layer: every success stands on a POST of its own.  Until the *)
(* answer of a write is received its POST is not counted as anyone's work, *)
(* so a job that completes after its attempt was abandoned is never taken  *)
(* for the work of a later one.                                            *)
(***************************************************************************)
CompletedOf(p) == {n \in DOMAIN p : p[n] = "completed"}
Completed == CompletedOf(posts)
Mine == IF act.op = "write" THEN {call.post} ELSE {}
WritesDone == Cardinality(Completed \ Mine) >= Cardinality(Succeeded("write"))

StartIds == {log[i].result.id : i \in Succeeded("write_start")}
StartsDistinct ==
  \A i, j \in Succeeded("write_start") : log[i].result.id = log[j].result.id => i = j
PostFresh == act.op = "write_start" /\ call.open => call.post \notin StartIds

ReplyOwn ==
  call.reply # None =>
    /\ call.open
    /\ act.op = "write" => call.post \in Completed
    /\ act.op = "write_start" => call.reply.id = call.post
ResultOwn ==
  act.phase = "done" /\ act.result.error = "" =>
    /\ act.op = "write" => Cardinality(Completed) >= Cardinality(Succeeded("write")) + 1
    /\ act.op = "write_start" => act.result.id \notin StartIds

SuccessInv ==
  CountInv /\ WritesDone /\ StartsDistinct /\ PostFresh /\ ReplyOwn /\ ResultOwn

LEMMA CompletedFinite ==
  ASSUME NEW p \in Seq({"sent"} \cup JobStatus)
  PROVE  /\ IsFiniteSet(CompletedOf(p)) /\ Cardinality(CompletedOf(p)) \in Nat
         /\ \A S \in SUBSET CompletedOf(p) :
              IsFiniteSet(S) /\ Cardinality(S) \in Nat
              /\ Cardinality(S) <= Cardinality(CompletedOf(p))
         /\ 0 \notin CompletedOf(p)
<1>1. DOMAIN p = 1..Len(p) /\ Len(p) \in Nat
  OBVIOUS
<1>2. IsFiniteSet(DOMAIN p) /\ CompletedOf(p) \in SUBSET DOMAIN p
  BY <1>1, FS_Interval DEF CompletedOf
<1>3. IsFiniteSet(CompletedOf(p))
  BY <1>2, FS_Subset
<1>4. 0 \notin CompletedOf(p)
  BY <1>1 DEF CompletedOf
<1> QED
  BY <1>3, <1>4, FS_Subset, FS_CardinalityType

\* A count that grew still reaches what it reached.
LEMMA StillReaches ==
  ASSUME NEW S, NEW T \in SUBSET S, IsFiniteSet(S), NEW n \in Nat, Cardinality(T) >= n
  PROVE  Cardinality(S) >= n
<1>1. PICK a \in Nat, b \in Nat : a = Cardinality(T) /\ b = Cardinality(S) /\ a <= b
  BY FS_Subset, FS_CardinalityType
<1> QED
  BY <1>1

LEMMA StartIdsPosted ==
  ASSUME CountInv
  PROVE  \A id \in StartIds : id \in DOMAIN posts
BY DEF CountInv, StartsKnown, Enqueued, Accepts, StartIds, Succeeded

LEMMA SucceededAppended ==
  ASSUME Logged, NEW e \in Entry, log' = Append(log, e), NEW op
  PROVE  /\ e.op = op /\ e.result.error = "" => Succeeded(op)' = Succeeded(op) \cup {Len(log) + 1}
         /\ ~(e.op = op /\ e.result.error = "") => Succeeded(op)' = Succeeded(op)
         /\ Len(log) + 1 \notin Succeeded(op)
BY LogAppended DEF Succeeded

LEMMA NoCallFacts == NoCall.post = 0 /\ NoCall.reply = None /\ NoCall.open = FALSE
BY DEF NoCall

LEMMA NextNat == \A n \in Nat : n + 1 \in Nat
OBVIOUS

\* A step that neither begins nor answers a call, nor receives an answer.
LEMMA OtherStepsKeep ==
  ASSUME SuccessInv, CountInv', UNCHANGED log, Completed \subseteq Completed',
         \/ act'.op = act.op /\ call'.post = call.post /\ call'.reply = call.reply /\ call'.open = call.open
         \/ call' = NoCall,
         act'.phase = "done" /\ act'.result.error = "" =>
           act.phase = "done" /\ act'.result = act.result /\ act'.op = act.op
  PROVE  SuccessInv'
<1>1. Succeeded("write")' = Succeeded("write") /\ Succeeded("write_start")' = Succeeded("write_start")
      /\ StartIds' = StartIds
  BY DEF Succeeded, StartIds
<1>2. Cardinality(Succeeded("write")) \in Nat
  BY LogFinite DEF SuccessInv, CountInv
<1>3. IsFiniteSet(Completed') /\ 0 \notin Completed'
  <2>1. posts' \in Seq({"sent"} \cup JobStatus)
    BY DEF CountInv, ActivityInv, ActivityTypeOK
  <2> QED
    BY <2>1, CompletedFinite DEF Completed
<1>4. \A S \in SUBSET Completed' : IsFiniteSet(S)
  BY <1>3, FS_Subset
<1>5. Completed \ Mine \subseteq Completed' \ Mine'
  <2>1. CASE act'.op = act.op /\ call'.post = call.post
    BY <2>1 DEF Mine
  <2>2. CASE call' = NoCall
    BY <1>3, <2>2, NoCallFacts DEF Mine
  <2> QED
    BY <2>1, <2>2
<1>6. WritesDone'
  <2>1. Cardinality(Completed \ Mine) >= Cardinality(Succeeded("write"))
    BY DEF SuccessInv, WritesDone
  <2>2. Cardinality(Completed' \ Mine') >= Cardinality(Succeeded("write"))
    BY <1>2, <1>4, <1>5, <2>1, StillReaches
  <2> QED
    BY <1>1, <2>2 DEF WritesDone
<1>7. StartsDistinct'
  BY <1>1 DEF SuccessInv, StartsDistinct
<1>8. PostFresh'
  BY <1>1, NoCallFacts DEF SuccessInv, PostFresh
<1>9. ReplyOwn'
  BY NoCallFacts DEF SuccessInv, ReplyOwn
<1>10. ResultOwn'
  <2>1. Cardinality(Succeeded("write")) + 1 \in Nat
    BY <1>2, NextNat, Zenon
  <2>2. Cardinality(Completed) >= Cardinality(Succeeded("write")) + 1
          => Cardinality(Completed') >= Cardinality(Succeeded("write")) + 1
    BY <1>3, <2>1, StillReaches
  <2> QED
    BY <1>1, <2>2 DEF SuccessInv, ResultOwn
<1> QED
  BY <1>6, <1>7, <1>8, <1>9, <1>10 DEF SuccessInv

LEMMA BeginKeepsSuccess ==
  ASSUME SuccessInv, CountInv', UNCHANGED log, NEW lag \in 0..Latency, Begin(lag)
  PROVE  SuccessInv'
<1>1. posts \in Seq({"sent"} \cup JobStatus) /\ act \in ActivityType
  BY DEF SuccessInv, CountInv, ActivityInv, ActivityTypeOK
<1>2. /\ act'.phase = "running" /\ act'.op = act.op /\ act.phase = "queued"
      /\ call'.reply = None /\ call'.open
      /\ act.op \in WriteOps => call'.post = Len(posts) + 1
      /\ posts' = posts \/ posts' = Append(posts, "sent")
  BY <1>1 DEF Begin, Startable, ActivityType
<1>3. call = NoCall
  BY <1>2 DEF SuccessInv, CountInv, ActivityInv, CallOnlyRunning
<1>4. 0 \notin Completed /\ Len(posts) + 1 \notin DOMAIN posts
  BY <1>1, CompletedFinite DEF Completed
<1>5. Completed' = Completed
  BY <1>1, <1>2 DEF Completed, CompletedOf
<1>6. Completed' \ Mine' = Completed \ Mine
  <2>1. Len(posts) + 1 \notin Completed
    BY <1>4 DEF Completed, CompletedOf
  <2>2. act.op = "write" => act.op \in WriteOps
    BY DEF WriteOps
  <2> QED
    BY <1>2, <1>3, <1>4, <1>5, <2>1, <2>2, NoCallFacts DEF Mine
<1>7. Succeeded("write")' = Succeeded("write") /\ Succeeded("write_start")' = Succeeded("write_start")
      /\ StartIds' = StartIds
  BY DEF Succeeded, StartIds
<1>8. WritesDone'
  BY <1>6, <1>7 DEF SuccessInv, WritesDone
<1>9. StartsDistinct'
  BY <1>7 DEF SuccessInv, StartsDistinct
<1>10. PostFresh'
  <2>1. act.op = "write_start" => act.op \in WriteOps
    BY DEF WriteOps
  <2>2. Len(posts) + 1 \notin StartIds
    BY <1>4, StartIdsPosted DEF SuccessInv
  <2> QED
    BY <1>2, <1>7, <2>1, <2>2 DEF PostFresh
<1>11. ReplyOwn'
  BY <1>2 DEF ReplyOwn
<1>12. ResultOwn'
  BY <1>2 DEF ResultOwn
<1> QED
  BY <1>8, <1>9, <1>10, <1>11, <1>12 DEF SuccessInv

\* The server answers with the job of the POST the call sent.
LEMMA ReplyOfPost ==
  ASSUME CountInv, NEW r \in Replies
  PROVE  /\ act.op = "write" => call.post \in Completed
         /\ act.op = "write_start" => r.id = call.post
<1>1. CASE act.op = "write"
  BY <1>1 DEF Replies, Completed, CompletedOf
<1>2. CASE act.op = "write_start"
  <2>1. PICK n \in {call.post} : r = [Pending EXCEPT !.id = n]
    BY <1>2 DEF Replies
  <2> QED
    BY <1>2, <2>1 DEF Pending
<1>3. CASE act.op \notin {"write", "write_start"}
  BY <1>3
<1> QED
  BY <1>1, <1>2, <1>3

LEMMA AnswerKeepsSuccess ==
  ASSUME SuccessInv, CountInv', UNCHANGED log, Answer
  PROVE  SuccessInv'
<1>1. PICK r \in Replies : call' = [call EXCEPT !.reply = r]
  BY DEF Answer
<1>2. call \in CallType /\ call.open /\ act.phase = "running" /\ UNCHANGED <<act, posts>>
  BY DEF Answer, SuccessInv, CountInv, ActivityInv, ActivityTypeOK
<1>3. call'.open = call.open /\ call'.post = call.post /\ call'.reply = r
  BY <1>1, <1>2 DEF CallType
<1>4. Completed' = Completed /\ Mine' = Mine
  BY <1>2, <1>3 DEF Completed, Mine
<1>5. Succeeded("write")' = Succeeded("write") /\ Succeeded("write_start")' = Succeeded("write_start")
      /\ StartIds' = StartIds
  BY DEF Succeeded, StartIds
<1>6. WritesDone' /\ StartsDistinct'
  BY <1>4, <1>5 DEF SuccessInv, WritesDone, StartsDistinct
<1>7. PostFresh' /\ ResultOwn'
  BY <1>2, <1>3, <1>4, <1>5 DEF SuccessInv, PostFresh, ResultOwn
<1>8. ReplyOwn'
  BY <1>2, <1>3, <1>4, ReplyOfPost DEF SuccessInv, ReplyOwn
<1> QED
  BY <1>6, <1>7, <1>8 DEF SuccessInv

LEMMA ReceiveKeepsSuccess ==
  ASSUME SuccessInv, CountInv', UNCHANGED log, Receive
  PROVE  SuccessInv'
<1>1. act \in ActivityType /\ posts \in Seq({"sent"} \cup JobStatus)
  BY DEF SuccessInv, CountInv, ActivityInv, ActivityTypeOK
<1>2. /\ act'.op = act.op /\ act'.phase = "done" /\ act'.result = call.reply
      /\ call.reply # None /\ call' = NoCall /\ posts' = posts
  BY <1>1 DEF Receive, ActivityType
<1>3. /\ call.open
      /\ act.op = "write" => call.post \in Completed
      /\ act.op = "write_start" => call.reply.id = call.post
  BY <1>2 DEF SuccessInv, ReplyOwn
<1>4. Completed' = Completed /\ 0 \notin Completed /\ IsFiniteSet(Completed)
  BY <1>1, <1>2, CompletedFinite DEF Completed
<1>5. Succeeded("write")' = Succeeded("write") /\ Succeeded("write_start")' = Succeeded("write_start")
      /\ StartIds' = StartIds
  BY DEF Succeeded, StartIds
<1>6. Completed' \ Mine' = Completed
  BY <1>2, <1>4, NoCallFacts DEF Mine
<1>7. Cardinality(Succeeded("write")) \in Nat
  BY LogFinite DEF SuccessInv, CountInv
<1>8. Cardinality(Completed \ Mine) >= Cardinality(Succeeded("write"))
  BY DEF SuccessInv, WritesDone
<1>9. WritesDone'
  BY <1>4, <1>5, <1>6, <1>7, <1>8, StillReaches DEF WritesDone
<1>10. StartsDistinct'
  BY <1>5 DEF SuccessInv, StartsDistinct
<1>11. PostFresh' /\ ReplyOwn'
  BY <1>2, NoCallFacts DEF PostFresh, ReplyOwn
<1>12. act.op = "write" => Cardinality(Completed) >= Cardinality(Succeeded("write")) + 1
  <2> SUFFICES ASSUME act.op = "write"
               PROVE  Cardinality(Completed) >= Cardinality(Succeeded("write")) + 1
    OBVIOUS
  <2>1. Completed = (Completed \ Mine) \cup {call.post} /\ call.post \notin Completed \ Mine
    BY <1>3 DEF Mine
  <2>2. IsFiniteSet(Completed \ Mine)
    BY <1>4, FS_Subset
  <2>3. Cardinality(Completed) = Cardinality(Completed \ Mine) + 1
    BY <2>1, <2>2, AddOne
  <2>4. Cardinality(Completed \ Mine) \in Nat
    BY <2>2, FS_CardinalityType
  <2> QED
    BY <1>7, <1>8, <2>3, <2>4
<1>13. act.op = "write_start" => call.reply.id \notin StartIds
  BY <1>3 DEF SuccessInv, PostFresh
<1>14. ResultOwn'
  BY <1>2, <1>4, <1>5, <1>12, <1>13 DEF ResultOwn
<1> QED
  BY <1>9, <1>10, <1>11, <1>14 DEF SuccessInv

\* An attempt that fails, is refused or abandoned leaves no success behind.
LEMMA FailureKeepsSuccess ==
  ASSUME SuccessInv, CountInv', UNCHANGED log, UNCHANGED posts,
         NEW f \in AnyFailure, act' = Settled(f), call' = NoCall \/ UNCHANGED call
  PROVE  SuccessInv'
<1>1. act'.op = act.op
      /\ (act'.phase = "done" => act'.result.error # "")
  BY SettledTyped DEF SuccessInv, CountInv, ActivityInv
<1>2. Completed' = Completed
  BY DEF Completed
<1> QED
  BY <1>1, <1>2, OtherStepsKeep

LEMMA JobMoveKeepsSuccess ==
  ASSUME SuccessInv, CountInv', UNCHANGED log, UNCHANGED <<act, call>>,
         NEW n \in DOMAIN posts, NEW status \in JobStatus, posts[n] # "completed",
         posts' = [posts EXCEPT ![n] = status]
  PROVE  SuccessInv'
<1>1. Completed \subseteq Completed'
  BY DEF Completed, CompletedOf
<1>2. /\ act'.op = act.op /\ call'.post = call.post /\ call'.reply = call.reply
      /\ call'.open = call.open
  OBVIOUS
<1> QED
  BY <1>1, <1>2, OtherStepsKeep

LEMMA ActivityKeepsSuccess ==
  ASSUME SuccessInv, ActivityStep, UNCHANGED log
  PROVE  SuccessInv'
<1> USE DEF SuccessInv
<1>1. CountInv'
  BY ActivityKeepsCount
<1>2. act.op \in Ops
  BY DEF CountInv, ActivityInv, ActivityTypeOK, ActivityType
<1>3. CASE Refuse
  <2>1. Failure(Refusal(act.op), FALSE, None) \in AnyFailure
    BY <1>2, <1>3, FailuresTyped DEF Refuse
  <2> QED
    BY <1>1, <1>3, <2>1, FailureKeepsSuccess DEF Refuse
<1>4. CASE Receive
  BY <1>1, <1>4, ReceiveKeepsSuccess
<1>5. CASE \E lag \in 0..Latency : Begin(lag)
  BY <1>1, <1>5, BeginKeepsSuccess
<1>6. ASSUME NEW exc \in ExceptionType, Raise(exc) PROVE SuccessInv'
  BY <1>1, <1>6, FailuresTyped, FailureKeepsSuccess DEF Raise
<1>7. CASE ClientTimesOut \/ ServerError
  <2>1. Plain("transport") \in ExceptionType
    BY DEF Plain, ExceptionType, Kinds, Hints
  <2> QED
    BY <1>6, <1>7, <2>1, ActivitiesAssumption DEF ClientTimesOut, ServerError
<1>8. CASE AttemptTimesOut
  <2>1. Failure("StartToClose", TRUE, None) \in AnyFailure
    BY FailuresTyped DEF FailureNames
  <2> QED
    BY <1>1, <1>8, <2>1, FailureKeepsSuccess DEF AttemptTimesOut
<1>9. CASE TotalTimesOut
  <2>1. Failure("ScheduleToClose", FALSE, None) \in AnyFailure
    BY FailuresTyped DEF FailureNames
  <2> QED
    BY <1>1, <1>9, <2>1, FailureKeepsSuccess DEF TotalTimesOut
<1>10. CASE Crash \/ Restart
  <2>1. Completed' = Completed /\ act' = act /\ (call' = NoCall \/ call' = call)
    BY <1>10 DEF Crash, Restart, Completed
  <2> QED
    BY <1>1, <2>1, OtherStepsKeep
<1>11. CASE Answer
  BY <1>1, <1>11, AnswerKeepsSuccess
<1>12. ASSUME NEW n \in DOMAIN posts,
              Enqueue(n) \/ \E status \in JobStatus : Progress(n, status)
       PROVE  SuccessInv'
  <2>1. "queued" \in JobStatus
    BY DEF JobStatus
  <2>2. PICK status \in JobStatus : posts' = [posts EXCEPT ![n] = status]
    BY <1>12, <2>1 DEF Enqueue, Progress
  <2>3. posts[n] # "completed" /\ UNCHANGED <<act, call>>
    BY <1>12 DEF Enqueue, Progress
  <2> QED
    BY <1>1, <2>2, <2>3, JobMoveKeepsSuccess
<1> QED
  BY <1>3, <1>4, <1>5, <1>7, <1>8, <1>9, <1>10, <1>11, <1>12 DEF ActivityStep

LEMMA ReturnKeepsSuccess ==
  ASSUME SuccessInv, Return
  PROVE  SuccessInv'
<1>1. PICK e \in Entry : e.op = act.op /\ e.result = act.result /\ log' = Append(log, e)
  BY ReturnedCall DEF SuccessInv
<1>2. act.phase = "done" /\ act' = NoActivity /\ UNCHANGED <<call, posts>> /\ CountInv'
  BY ReturnKeepsCount DEF Return, SuccessInv
<1>3. call = NoCall
  BY <1>2 DEF SuccessInv, CountInv, ActivityInv, CallOnlyRunning
<1>4. act'.op = "read" /\ act'.phase = "idle"
  BY <1>2 DEF NoActivity
<1>5. Completed' = Completed /\ IsFiniteSet(Completed) /\ 0 \notin Completed
  BY <1>2, CompletedFinite DEF Completed, SuccessInv, CountInv, ActivityInv, ActivityTypeOK
<1>6. Completed' \ Mine' = Completed /\ Completed \ Mine = Completed
  BY <1>3, <1>4, <1>5, NoCallFacts DEF Mine
<1>7. Logged /\ Len(log) + 1 \notin DOMAIN log
      /\ log'[Len(log) + 1] = e /\ \A i \in DOMAIN log : log'[i] = log[i]
  BY <1>1, LogAppended DEF SuccessInv, CountInv
<1>8. WritesDone'
  <2>1. CASE e.op = "write" /\ e.result.error = ""
    <3>1. Cardinality(Completed) >= Cardinality(Succeeded("write")) + 1
      BY <1>1, <1>2, <2>1 DEF SuccessInv, ResultOwn
    <3>2. Cardinality(Succeeded("write")') = Cardinality(Succeeded("write")) + 1
      BY <1>1, <1>7, <2>1, SucceededAppended, LogFinite, AddOne
    <3> QED
      BY <1>6, <3>1, <3>2 DEF WritesDone
  <2>2. CASE ~(e.op = "write" /\ e.result.error = "")
    <3>1. Succeeded("write")' = Succeeded("write")
      BY <1>1, <1>7, <2>2, SucceededAppended
    <3> QED
      BY <1>6, <3>1 DEF SuccessInv, WritesDone
  <2> QED
    BY <2>1, <2>2
<1>9. StartsDistinct'
  <2>1. \A i \in Succeeded("write_start") : log'[i] = log[i]
    BY <1>7 DEF Succeeded
  <2>2. CASE e.op = "write_start" /\ e.result.error = ""
    <3>1. Succeeded("write_start")' = Succeeded("write_start") \cup {Len(log) + 1}
      BY <1>1, <1>7, <2>2, SucceededAppended
    <3>2. e.result.id \notin StartIds
      BY <1>1, <1>2, <2>2 DEF SuccessInv, ResultOwn
    <3> QED
      BY <1>7, <2>1, <3>1, <3>2 DEF SuccessInv, StartsDistinct, StartIds
  <2>3. CASE ~(e.op = "write_start" /\ e.result.error = "")
    <3>1. Succeeded("write_start")' = Succeeded("write_start")
      BY <1>1, <1>7, <2>3, SucceededAppended
    <3> QED
      BY <2>1, <3>1 DEF SuccessInv, StartsDistinct
  <2> QED
    BY <2>2, <2>3
<1>10. PostFresh' /\ ReplyOwn' /\ ResultOwn'
  BY <1>2, <1>3, <1>4, NoCallFacts DEF PostFresh, ReplyOwn, ResultOwn
<1> QED
  BY <1>2, <1>8, <1>9, <1>10 DEF SuccessInv

LEMMA CallKeepsSuccess ==
  ASSUME SuccessInv, Call
  PROVE  SuccessInv'
<1>1. CountInv'
  BY CallKeepsCount DEF SuccessInv
<1>2. PICK op, id : Issue(op, id)
  BY DEF Call
<1>3. act.phase = "idle" /\ act'.phase = "queued" /\ UNCHANGED <<call, posts>> /\ UNCHANGED log
  BY <1>2 DEF Issue, Scheduled
<1>4. call' = NoCall /\ Completed' = Completed
  BY <1>3 DEF SuccessInv, CountInv, ActivityInv, CallOnlyRunning, Completed
<1> QED
  BY <1>1, <1>3, <1>4, OtherStepsKeep

LEMMA TickKeepsSuccess ==
  ASSUME SuccessInv, Tick
  PROVE  SuccessInv'
<1>1. CountInv' /\ Elapse /\ UNCHANGED posts /\ UNCHANGED log
  BY TickKeepsCount DEF SuccessInv, Tick
<1>2. act'.op = act.op /\ act'.phase = act.phase /\ act'.result = act.result
  BY ElapsePreserves DEF Tick, SuccessInv, CountInv
<1>3. call \in CallType /\ call' = [call EXCEPT !.client = Down(@)]
  BY <1>1 DEF Elapse, SuccessInv, CountInv, ActivityInv, ActivityTypeOK
<1>4. call'.post = call.post /\ call'.reply = call.reply /\ call'.open = call.open
  BY <1>3 DEF CallType
<1>5. Completed' = Completed
  BY <1>1 DEF Completed
<1> QED
  BY <1>1, <1>2, <1>4, <1>5, OtherStepsKeep

LEMMA StutterKeepsSuccess ==
  ASSUME SuccessInv, UNCHANGED vars
  PROVE  SuccessInv'
<1>1. CountInv'
  BY StutterKeepsCount DEF SuccessInv
<1>2. UNCHANGED <<act, call, posts>> /\ UNCHANGED log /\ Completed' = Completed
  BY DEF vars, activityVars, Completed
<1> QED
  BY <1>1, <1>2, OtherStepsKeep

LEMMA InitSuccess == Init => SuccessInv
<1> SUFFICES ASSUME Init PROVE SuccessInv
  OBVIOUS
<1>1. CountInv /\ log = << >> /\ posts = << >> /\ act = NoActivity /\ call = NoCall
  BY InitCount DEF Init, ActivitiesInit
<1>2. Succeeded("write") = {} /\ Succeeded("write_start") = {}
  BY <1>1 DEF Succeeded
<1>3. WritesDone
  <2>1. Completed \ Mine = {}
    BY <1>1 DEF Completed, CompletedOf
  <2> QED
    BY <1>2, <2>1, FS_EmptySet DEF WritesDone
<1>4. StartsDistinct /\ PostFresh
  BY <1>1, <1>2, NoCallFacts DEF StartsDistinct, PostFresh
<1>5. ReplyOwn /\ ResultOwn
  BY <1>1, NoCallFacts DEF ReplyOwn, ResultOwn, NoActivity
<1> QED
  BY <1>1, <1>3, <1>4, <1>5 DEF SuccessInv

LEMMA SuccessInvariant == Spec => []SuccessInv
<1>1. SuccessInv /\ [Next]_vars => SuccessInv'
  BY CallKeepsSuccess, ReturnKeepsSuccess, TickKeepsSuccess, ActivityKeepsSuccess,
     StutterKeepsSuccess DEF Next, Ended
<1> QED
  BY InitSuccess, <1>1, PTL DEF Spec

(***************************************************************************)
(* Each write that returned has an applied job of its own and each         *)
(* write_async_start an accepted one, whatever was lost or retried.        *)
(***************************************************************************)
THEOREM SuccessesReal == Spec => []SuccessIsReal
<1>1. SuccessInv => SuccessIsReal
  <2> SUFFICES ASSUME SuccessInv PROVE SuccessIsReal
    OBVIOUS
  <2>1. Cardinality(Completed) >= Cardinality(Succeeded("write"))
    <3>1. posts \in Seq({"sent"} \cup JobStatus)
      BY DEF SuccessInv, CountInv, ActivityInv, ActivityTypeOK
    <3>2. IsFiniteSet(Completed) /\ Completed \ Mine \in SUBSET Completed
      BY <3>1, CompletedFinite DEF Completed
    <3>3. Cardinality(Completed \ Mine) >= Cardinality(Succeeded("write"))
      BY DEF SuccessInv, WritesDone
    <3>4. Cardinality(Succeeded("write")) \in Nat
      BY LogFinite DEF SuccessInv, CountInv
    <3> QED
      BY <3>2, <3>3, <3>4, StillReaches
  <2>2. \A i \in Succeeded("write_start") : posts[log[i].result.id] \in JobStatus
    BY DEF SuccessInv, CountInv, StartsKnown, Enqueued, Accepts, Succeeded
  <2>3. \A i, j \in Succeeded("write_start") : log[i].result.id = log[j].result.id => i = j
    BY DEF SuccessInv, StartsDistinct
  <2> QED
    BY <2>1, <2>2, <2>3 DEF SuccessIsReal, Completed, CompletedOf
<1> QED
  BY SuccessInvariant, <1>1, PTL

LEMMA NextKeepsAhead ==
  ASSUME StartsInTime, ActivityInv, AheadInv, [Next]_vars
  PROVE  AheadInv'
<1>1. CASE Call
  <2>1. PICK op, id : Issue(op, id)
    BY <1>1 DEF Call
  <2>2. act'.phase = "queued" /\ handle' = handle
    BY <2>1 DEF Issue, Scheduled
  <2> QED
    BY <2>2 DEF AheadInv, Ahead
<1>2. CASE Return
  BY <1>2 DEF Return, NoActivity, AheadInv, Ahead
<1>3. CASE Tick
  BY <1>3, ElapseKeepsAhead DEF Tick
<1>4. CASE ActivityStep
  BY <1>4, StepKeepsAhead
<1>5. CASE UNCHANGED vars
  <2>1. UNCHANGED <<handle, act, call>>
    BY <1>5 DEF vars, activityVars
  <2> QED
    BY <2>1 DEF AheadInv, Ahead
<1> QED
  BY <1>1, <1>2, <1>3, <1>4, <1>5 DEF Next, Ended

(***************************************************************************)
(* Temporal never abandons an attempt whose client still waits where only a*)
(* start_to_close is set, if attempts start in time: for every such        *)
(* deadline, on either side of the margin.                                 *)
(***************************************************************************)
THEOREM ClientFirst ==
  ASSUME StartsInTime
  PROVE  Spec => []ClientGivesUpFirst
<1>1. Init => AheadInv
  BY DEF Init, ActivitiesInit, NoActivity, AheadInv, Ahead
<1>2. CountInv /\ AheadInv /\ [Next]_vars => AheadInv'
  BY NextKeepsAhead DEF CountInv
<1>3. CountInv /\ AheadInv => ClientGivesUpFirst
  <2> SUFFICES ASSUME CountInv, AheadInv, Outlived, handle.deadline[act.op].sch = None
               PROVE  FALSE
    BY DEF ClientGivesUpFirst
  <2>1. call.client < act.left /\ act.left = 0
    BY DEF Outlived, AheadInv, Ahead
  <2>2. call.client \in Nat
    BY DEF CountInv, ActivityInv, ActivityTypeOK, CallType
  <2> QED
    BY <2>1, <2>2
<1> QED
  BY CountInvariant, <1>1, <1>2, <1>3, PTL DEF Spec
=============================================================================
