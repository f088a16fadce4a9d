---------------------- MODULE XmemoryActivitiesProofs ----------------------
(***************************************************************************)
(* Type correctness of one activity under every retry policy, deadline,    *)
(* set of exceptions and number of crashes; and how a step of the activity *)
(* changes what the callers' proofs rely on.                               *)
(***************************************************************************)
EXTENDS XmemoryActivities, XmemoryLemmas

(***************************************************************************)
(* The invariant of an activity, whoever schedules it.                     *)
(***************************************************************************)
\* schedule_to_close counts down exactly when the operation has one.
TotalTracked ==
  act.phase # "idle" => (act.total = None <=> handle.deadline[act.op].sch = None)

\* A poll asks for a write the server accepted.
PollsAccepted ==
  act.phase # "idle" /\ act.op = "write_status" =>
    act.id \in DOMAIN posts /\ posts[act.id] \in JobStatus

\* Only a running attempt has a client call.
CallOnlyRunning == act.phase # "running" => call = NoCall

\* An answer, in flight or received, is true of the server now.
TrueAnswer(r) ==
  /\ r.error = ""
  /\ act.op = "write_start" => r.id \in DOMAIN posts /\ posts[r.id] \in JobStatus
  /\ act.op = "write_status" =>
       r.status \in JobStatus /\ (r.status \in Final => posts[act.id] = r.status)
AnswersTrue ==
  /\ call.reply # None => TrueAnswer(call.reply)
  /\ act.phase = "done" /\ act.result.error = "" => TrueAnswer(act.result)

ActivityInv ==
  ActivityTypeOK /\ TotalTracked /\ PollsAccepted /\ CallOnlyRunning /\ AnswersTrue

(***************************************************************************)
(* What one step of the activity does to its identity, its attempts and    *)
(* the POSTs; a caller needs no more.                                      *)
(***************************************************************************)
PostsKept ==
  /\ DOMAIN posts \subseteq DOMAIN posts'
  /\ \A n \in DOMAIN posts :
       /\ posts[n] \in JobStatus => posts'[n] \in JobStatus
       /\ posts[n] \in Final => posts'[n] = posts[n]

StepEffect ==
  /\ act'.op = act.op /\ act'.id = act.id /\ act'.cancelled = act.cancelled
  /\ act'.phase = "idle" <=> act.phase = "idle"
  /\ act.phase = "done" => act'.phase = "done" /\ act'.result = act.result
  /\ PostsKept
  /\ \/ act'.attempt = act.attempt /\ Len(posts') = Len(posts)
        /\ (act'.phase = "queued" => act.phase = "queued")
     \/ act.phase = "queued" /\ act'.phase = "running"
        /\ act'.attempt = act.attempt
        /\ Len(posts') = Len(posts) + (IF act.op \in WriteOps THEN 1 ELSE 0)
     \/ act.phase = "running" /\ act'.phase = "queued" /\ ~act.cancelled
        /\ act'.attempt = act.attempt + 1 /\ act.attempt < Policy[act.op].attempts
        /\ Len(posts') = Len(posts)

LEMMA ResultsTyped ==
  /\ Pending \in ResultType /\ Pending.error = ""
  /\ \A n \in Nat : [Pending EXCEPT !.id = n] \in ResultType
  /\ \A n \in Nat, s \in JobStatus : [Pending EXCEPT !.id = n, !.status = s] \in ResultType
  /\ \A type \in FailureNames : Failed(type) \in ResultType /\ Failed(type).error # ""
<1>1. \A type \in FailureNames : type # ""
  BY DEF FailureNames, ErrorTypes, NON_RETRYABLE_TYPES, RETRYABLE_TYPES
<1> QED
  BY <1>1 DEF Pending, ResultType, Failed

LEMMA NoneTyped == NoCall \in CallType /\ NoActivity \in ActivityType
<1>1. "read" \in Ops
  BY DEF Ops
<1> QED
  BY <1>1, ResultsTyped DEF NoCall, NoActivity, CallType, ActivityType

LEMMA InitActivityInv == ActivitiesInit => ActivityInv
<1> SUFFICES ASSUME ActivitiesInit PROVE ActivityInv
  OBVIOUS
<1>1. ActivityTypeOK
  BY NoneTyped, ActivitiesAssumption DEF ActivitiesInit, ActivityTypeOK
<1>2. act.phase = "idle" /\ call = NoCall /\ call.reply = None
  BY DEF ActivitiesInit, NoActivity, NoCall
<1> QED
  BY <1>1, <1>2 DEF ActivityInv, TotalTracked, PollsAccepted, CallOnlyRunning, AnswersTrue

(***************************************************************************)
(* An attempt that ends in a failure: retried or final.                    *)
(***************************************************************************)
AnyFailure == [type: FailureNames, non_retryable: BOOLEAN, delay: Nat \cup {None}]

LEMMA FailuresTyped ==
  /\ \A exc \in ExceptionType : ToApplicationError(exc) \in AnyFailure
  /\ \A type \in FailureNames, retryable \in BOOLEAN :
       Failure(type, retryable, None) \in AnyFailure
  /\ \A op \in Ops : Refusal(op) # "" => Refusal(op) \in FailureNames
<1>1. ErrorTypes \cup {"OverflowError"} \subseteq FailureNames
  BY DEF FailureNames
<1>2. "XmemoryNotBound" \in FailureNames /\ "XmemoryNoDeadline" \in FailureNames
  BY DEF FailureNames, ErrorTypes, NON_RETRYABLE_TYPES
<1>3. \A op \in Ops : Refusal(op) # "" => Refusal(op) \in FailureNames
  BY <1>2 DEF Refusal
<1> QED
  BY <1>1, <1>3, ErrorTyped DEF AnyFailure, FailureType, Failure

Queued(a, k, w, i) ==
  [a EXCEPT !.phase = "queued", !.attempt = k, !.wait = w, !.interval = i, !.left = 0]

LEMMA QueuedTyped ==
  ASSUME NEW a \in ActivityType, NEW k \in Nat, NEW w \in Nat, NEW i \in Nat
  PROVE  Queued(a, k, w, i) \in ActivityType
BY DEF ActivityType, Queued

LEMMA SettledTyped ==
  ASSUME ActivityTypeOK, NEW f \in AnyFailure
  PROVE  /\ Settled(f) \in ActivityType
         /\ Settled(f).op = act.op /\ Settled(f).id = act.id /\ Settled(f).total = act.total
         /\ Settled(f).cancelled = act.cancelled
         /\ \/ Settled(f).phase = "done" /\ Settled(f).attempt = act.attempt
               /\ Settled(f).result.error # ""
            \/ Settled(f).phase = "queued" /\ Settled(f).attempt = act.attempt + 1
               /\ act.attempt < Policy[act.op].attempts
               /\ ~f.non_retryable /\ ~act.cancelled
<1>1. act \in ActivityType /\ act.op \in Ops
  BY DEF ActivityTypeOK, ActivityType
<1>2. Policy[act.op] \in PolicyType /\ Policy[act.op].maximum \in Nat
  BY <1>1, ActivitiesAssumption DEF PolicyType
<1>3. Failed(f.type) \in ResultType /\ Failed(f.type).error # ""
  BY ResultsTyped DEF AnyFailure
<1>4. CASE MayRetry(f)
  <2>1. Backoff(f) \in Nat
    BY <1>1, TenthAssumption DEF Backoff, Second, AnyFailure, ActivityType
  <2>2. act.interval \in Nat
    BY <1>1 DEF ActivityType
  <2>3. Min({2 * act.interval, Policy[act.op].maximum}) \in Nat
    BY <1>2, <2>2, MinOfTwo
  <2>4. act.attempt < Policy[act.op].attempts /\ ~f.non_retryable /\ ~act.cancelled
    BY <1>4 DEF MayRetry
  <2>5. Settled(f) = Queued(act, act.attempt + 1, Backoff(f),
                            Min({2 * act.interval, Policy[act.op].maximum}))
    BY <1>4 DEF Settled, Queued
  <2>6. act.attempt + 1 \in Nat
    BY <1>1 DEF ActivityType
  <2>7. Settled(f) \in ActivityType
    BY <1>1, <2>1, <2>3, <2>5, <2>6, QueuedTyped, Zenon
  <2>8. /\ Settled(f).op = act.op /\ Settled(f).id = act.id /\ Settled(f).total = act.total
        /\ Settled(f).phase = "queued" /\ Settled(f).attempt = act.attempt + 1
        /\ Settled(f).cancelled = act.cancelled
    BY <1>1, <1>4 DEF Settled, ActivityType
  <2> QED
    BY <2>4, <2>7, <2>8, Zenon
<1>5. CASE ~MayRetry(f)
  BY <1>1, <1>3, <1>5 DEF Settled, ActivityType
<1> QED
  BY <1>4, <1>5

\* Refuse, Raise and both timeouts do this and no more.
LEMMA FailurePreserves ==
  ASSUME ActivityInv, act.phase \in {"queued", "running"},
         NEW f \in AnyFailure, act' = Settled(f), call' = NoCall,
         f.non_retryable \/ act.phase = "running",
         UNCHANGED <<handle, up, crashes, posts>>
  PROVE  ActivityInv' /\ StepEffect
<1>1. /\ act' \in ActivityType /\ act'.op = act.op /\ act'.id = act.id /\ act'.total = act.total
      /\ act'.cancelled = act.cancelled
  BY SettledTyped DEF ActivityInv
<1>2. \/ act'.phase = "done" /\ act'.attempt = act.attempt /\ act'.result.error # ""
      \/ act'.phase = "queued" /\ act'.attempt = act.attempt + 1
         /\ act.attempt < Policy[act.op].attempts /\ ~f.non_retryable /\ ~act.cancelled
  BY SettledTyped DEF ActivityInv
<1>3. ActivityTypeOK'
  BY <1>1, NoneTyped DEF ActivityInv, ActivityTypeOK
<1>4. TotalTracked' /\ PollsAccepted' /\ CallOnlyRunning'
  BY <1>1, <1>2 DEF ActivityInv, TotalTracked, PollsAccepted, CallOnlyRunning
<1>5. AnswersTrue'
  BY <1>2 DEF AnswersTrue, NoCall
<1>6. StepEffect
  BY <1>1, <1>2 DEF StepEffect, PostsKept
<1> QED
  BY <1>3, <1>4, <1>5, <1>6 DEF ActivityInv

(***************************************************************************)
(* An attempt that begins.                                                 *)
(***************************************************************************)
Least(s, t) == Min({x \in {s, t} : x # None /\ x > 0})

LEMMA LeastBounds ==
  ASSUME NEW s \in Nat \cup {None}, NEW t \in Nat \cup {None}, t # 0,
         s \notin {None, 0} \/ t # None
  PROVE  Least(s, t) \in Nat /\ (t # None => Least(s, t) <= t)
<1>1. CASE s \in {None, 0}
  <2>1. t \in Nat /\ t > 0
    BY <1>1
  <2>2. {x \in {s, t} : x # None /\ x > 0} = {t, t}
    BY <1>1, <2>1, Sentinels
  <2> QED
    BY <2>1, <2>2, MinOfTwo DEF Least
<1>2. CASE s \notin {None, 0} /\ t = None
  <2>1. s \in Nat /\ s > 0
    BY <1>2
  <2>2. {x \in {s, t} : x # None /\ x > 0} = {s, s}
    BY <1>2, <2>1, Sentinels
  <2> QED
    BY <1>2, <2>1, <2>2, MinOfTwo DEF Least
<1>3. CASE s \notin {None, 0} /\ t # None
  <2>1. s \in Nat /\ s > 0 /\ t \in Nat /\ t > 0
    BY <1>3
  <2>2. {x \in {s, t} : x # None /\ x > 0} = {s, t}
    BY <2>1, Sentinels
  <2> QED
    BY <2>1, <2>2, MinOfTwo DEF Least
<1> QED
  BY <1>1, <1>2, <1>3

\* Whatever is set of the two deadlines, the attempt is granted no more.
LEMMA GrantedBounds ==
  ASSUME ActivityInv, Startable, Refusal(act.op) = ""
  PROVE  /\ Budget(act.op) \in Nat
         /\ Granted \in Nat /\ (act.total # None => Granted <= act.total)
<1>1. act.op \in Ops /\ act.total \in Nat \cup {None}
  BY DEF ActivityInv, ActivityTypeOK, ActivityType
<1>2. handle.deadline \in [Ops -> CloseTimeouts]
  BY DEF ActivityInv, ActivityTypeOK, HandleType
<1>3. handle.deadline[act.op] \in CloseTimeouts
  BY <1>1, <1>2
<1>4. PICK s \in Nat \cup {None}, t \in Nat \cup {None} :
        s = handle.deadline[act.op].stc /\ t = handle.deadline[act.op].sch
  BY <1>3 DEF CloseTimeouts
<1>5. Budget(act.op) # None
  <2>1. "XmemoryNotBound" # "" /\ "XmemoryNoDeadline" # ""
    OBVIOUS
  <2> QED
    BY <2>1 DEF Refusal
<1>6. Budget(act.op) = IF s \in {None, 0} THEN t ELSE s
  BY <1>4 DEF Budget
<1>7. Budget(act.op) \in Nat /\ (s \notin {None, 0} \/ t # None)
  BY <1>5, <1>6
<1>8. act.total = None <=> t = None
  BY <1>4 DEF ActivityInv, TotalTracked, Startable
<1>9. act.total # 0 /\ Granted = Least(s, act.total)
  BY <1>4 DEF Startable, Granted, Least
<1> QED
  BY <1>1, <1>7, <1>8, <1>9, LeastBounds

LEMMA AppendKeeps ==
  ASSUME NEW S, NEW s \in Seq(S), NEW e \in S
  PROVE  /\ Append(s, e) \in Seq(S) /\ Len(Append(s, e)) = Len(s) + 1
         /\ DOMAIN s \subseteq DOMAIN Append(s, e)
         /\ \A n \in DOMAIN s : Append(s, e)[n] = s[n]
OBVIOUS

LEMMA RunningTyped ==
  ASSUME NEW a \in ActivityType, NEW l \in Nat, NEW t \in Nat \cup {None}
  PROVE  [a EXCEPT !.phase = "running", !.left = l, !.total = t] \in ActivityType
BY DEF ActivityType

LEMMA BeginPreserves ==
  ASSUME ActivityInv, NEW lag \in 0..Latency, Begin(lag)
  PROVE  ActivityInv' /\ StepEffect
<1> DEFINE left == Granted - lag
           total == IF act.total = None THEN None ELSE act.total - lag
<1>1. act \in ActivityType /\ act.phase = "queued" /\ act.total \in Nat \cup {None} /\ act.op \in Ops
  BY DEF ActivityInv, ActivityTypeOK, ActivityType, Begin, Startable
<1>2. lag \in Nat /\ lag < Granted
  <2>1. lag \in Nat
    BY ActivitiesAssumption
  <2> QED
    BY <2>1 DEF Begin
<1>3. Granted \in Nat /\ (act.total # None => Granted <= act.total) /\ Budget(act.op) \in Nat
  BY GrantedBounds DEF Begin
<1>4. left \in Nat /\ total \in Nat \cup {None} /\ (total = None <=> act.total = None)
  BY <1>1, <1>2, <1>3, Sentinels
<1>5. act' = [act EXCEPT !.phase = "running", !.left = left, !.total = total]
  BY DEF Begin
<1> HIDE DEF left, total
<1>6. act' \in ActivityType
  BY <1>1, <1>4, <1>5, RunningTyped
<1>7. act'.op = act.op /\ act'.id = act.id /\ act'.phase = "running" /\ act'.attempt = act.attempt
      /\ act'.total = total /\ act'.result = act.result /\ act'.cancelled = act.cancelled
  BY <1>1, <1>5 DEF ActivityType
<1>8. posts \in Seq({"sent"} \cup JobStatus)
  BY DEF ActivityInv, ActivityTypeOK
<1>9. call' \in CallType /\ call'.reply = None
  <2>1. ClientTimeout(Budget(act.op), Margin) \in Nat
    BY <1>3, ActivitiesAssumption, ClientTimeoutTyped
  <2>2. Len(posts) + 1 \in Nat
    BY <1>8
  <2> QED
    BY <2>1, <2>2 DEF Begin, CallType
<1>10. posts' \in Seq({"sent"} \cup JobStatus)
  <2>1. Append(posts, "sent") \in Seq({"sent"} \cup JobStatus)
    BY <1>8, AppendKeeps
  <2> QED
    BY <1>8, <2>1 DEF Begin
<1>11. /\ Len(posts') = Len(posts) + (IF act.op \in WriteOps THEN 1 ELSE 0)
       /\ DOMAIN posts \subseteq DOMAIN posts'
       /\ \A n \in DOMAIN posts : posts'[n] = posts[n]
  <2>1. CASE act.op \in WriteOps
    <3>1. posts' = Append(posts, "sent")
      BY <2>1 DEF Begin
    <3> QED
      BY <1>8, <2>1, <3>1, AppendKeeps
  <2>2. CASE act.op \notin WriteOps
    <3>1. posts' = posts
      BY <2>2 DEF Begin
    <3> QED
      BY <1>8, <2>2, <3>1
  <2> QED
    BY <2>1, <2>2
<1>12. ActivityTypeOK'
  BY <1>6, <1>9, <1>10 DEF ActivityInv, ActivityTypeOK, Begin
<1>13. TotalTracked'
  BY <1>1, <1>4, <1>7 DEF ActivityInv, TotalTracked, Begin
<1>14. PollsAccepted' /\ CallOnlyRunning'
  BY <1>1, <1>7, <1>11 DEF ActivityInv, PollsAccepted, CallOnlyRunning
<1>15. AnswersTrue'
  BY <1>7, <1>9 DEF AnswersTrue
<1>16. StepEffect
  BY <1>1, <1>7, <1>11 DEF StepEffect, PostsKept
<1> QED
  BY <1>12, <1>13, <1>14, <1>15, <1>16 DEF ActivityInv

(***************************************************************************)
(* The other steps of the worker.                                          *)
(***************************************************************************)
DoneWith(a, r) == [a EXCEPT !.phase = "done", !.result = r, !.left = 0]

LEMMA DoneTyped ==
  ASSUME NEW a \in ActivityType, NEW r \in ResultType
  PROVE  DoneWith(a, r) \in ActivityType
BY DEF ActivityType, DoneWith

LEMMA ReceivePreserves ==
  ASSUME ActivityInv, Receive
  PROVE  ActivityInv' /\ StepEffect
<1>1. act \in ActivityType /\ call \in CallType /\ act.phase = "running" /\ call.reply # None
  BY DEF ActivityInv, ActivityTypeOK, Receive, Awaiting
<1>2. call.reply \in ResultType /\ TrueAnswer(call.reply)
  BY <1>1 DEF CallType, ActivityInv, AnswersTrue
<1>3. act' = DoneWith(act, call.reply) /\ call' = NoCall
      /\ UNCHANGED <<handle, up, crashes, posts>>
  BY DEF Receive, DoneWith
<1>4. act' \in ActivityType
  BY <1>1, <1>2, <1>3, DoneTyped, Zenon
<1>5. /\ act'.op = act.op /\ act'.id = act.id /\ act'.total = act.total
      /\ act'.phase = "done" /\ act'.attempt = act.attempt /\ act'.result = call.reply
      /\ act'.cancelled = act.cancelled
  BY <1>1, <1>3 DEF ActivityType, DoneWith
<1>6. ActivityTypeOK'
  BY <1>3, <1>4, NoneTyped DEF ActivityInv, ActivityTypeOK
<1>7. TotalTracked' /\ PollsAccepted' /\ CallOnlyRunning'
  BY <1>1, <1>3, <1>5 DEF ActivityInv, TotalTracked, PollsAccepted, CallOnlyRunning
<1>8. AnswersTrue'
  <2>1. call'.reply = None
    BY <1>3 DEF NoCall
  <2>2. TrueAnswer(act.result)'
    BY <1>2, <1>3, <1>5 DEF TrueAnswer
  <2> QED
    BY <2>1, <2>2 DEF AnswersTrue
<1>9. StepEffect
  BY <1>1, <1>3, <1>5 DEF StepEffect, PostsKept
<1> QED
  BY <1>6, <1>7, <1>8, <1>9 DEF ActivityInv

LEMMA CrashPreserves ==
  ASSUME ActivityInv, Crash
  PROVE  ActivityInv' /\ StepEffect
<1>1. up' = FALSE /\ crashes' = crashes + 1 /\ crashes < MaxCrashes /\ call' = NoCall
      /\ UNCHANGED <<handle, act, posts>>
  BY DEF Crash
<1>2. ActivityTypeOK'
  <2>1. crashes' \in 0..MaxCrashes
    BY <1>1, ActivitiesAssumption DEF ActivityInv, ActivityTypeOK
  <2> QED
    BY <1>1, <2>1, NoneTyped DEF ActivityInv, ActivityTypeOK
<1>3. TotalTracked' /\ PollsAccepted' /\ CallOnlyRunning'
  BY <1>1 DEF ActivityInv, TotalTracked, PollsAccepted, CallOnlyRunning
<1>4. AnswersTrue'
  <2>1. call'.reply = None
    BY <1>1 DEF NoCall
  <2> QED
    BY <1>1, <2>1 DEF ActivityInv, AnswersTrue, TrueAnswer
<1>5. StepEffect
  BY <1>1 DEF StepEffect, PostsKept
<1> QED
  BY <1>2, <1>3, <1>4, <1>5 DEF ActivityInv

LEMMA RestartPreserves ==
  ASSUME ActivityInv, Restart
  PROVE  ActivityInv' /\ StepEffect
<1>1. up' = TRUE /\ UNCHANGED <<handle, crashes, act, call, posts>>
  BY DEF Restart
<1>2. ActivityTypeOK'
  BY <1>1 DEF ActivityInv, ActivityTypeOK
<1>3. TotalTracked' /\ PollsAccepted' /\ CallOnlyRunning' /\ AnswersTrue'
  BY <1>1 DEF ActivityInv, TotalTracked, PollsAccepted, CallOnlyRunning, AnswersTrue, TrueAnswer
<1>4. StepEffect
  BY <1>1 DEF StepEffect, PostsKept
<1> QED
  BY <1>2, <1>3, <1>4 DEF ActivityInv

(***************************************************************************)
(* The steps of the server.                                                *)
(***************************************************************************)
\* A job moves only forward, so what was true of it stays true.
LEMMA JobMovePreserves ==
  ASSUME ActivityInv, NEW n \in DOMAIN posts, posts[n] \notin Final,
         NEW status \in JobStatus, posts' = [posts EXCEPT ![n] = status],
         UNCHANGED <<handle, up, crashes, act, call>>
  PROVE  ActivityInv' /\ StepEffect
<1>1. posts \in Seq({"sent"} \cup JobStatus) /\ status \in {"sent"} \cup JobStatus
  BY DEF ActivityInv, ActivityTypeOK
<1>2. /\ posts' \in Seq({"sent"} \cup JobStatus)
      /\ DOMAIN posts' = DOMAIN posts /\ Len(posts') = Len(posts)
  BY <1>1
<1>3. PostsKept
  BY <1>1, <1>2 DEF PostsKept
<1>4. ActivityTypeOK'
  BY <1>2 DEF ActivityInv, ActivityTypeOK
<1>5. TotalTracked' /\ PollsAccepted' /\ CallOnlyRunning'
  BY <1>3 DEF ActivityInv, TotalTracked, PollsAccepted, CallOnlyRunning, PostsKept
<1>6. ASSUME NEW r, TrueAnswer(r), act.phase # "idle" PROVE TrueAnswer(r)'
  BY <1>3, <1>6 DEF TrueAnswer, PostsKept, ActivityInv, PollsAccepted, Ops
<1>7. call.reply # None => act.phase = "running"
  BY DEF ActivityInv, CallOnlyRunning, NoCall
<1>8. AnswersTrue'
  BY <1>6, <1>7 DEF ActivityInv, AnswersTrue
<1>9. StepEffect
  BY <1>2, <1>3 DEF StepEffect
<1> QED
  BY <1>4, <1>5, <1>8, <1>9 DEF ActivityInv

LEMMA RepliesTrue ==
  ASSUME ActivityInv, act.phase = "running", NEW r \in Replies
  PROVE  r \in ResultType /\ TrueAnswer(r)
<1>1. act.op \in {"read", "write", "write_start", "write_status"} /\ act.id \in Nat
  BY DEF ActivityInv, ActivityTypeOK, ActivityType, Ops, WriteOps
<1>2. posts \in Seq({"sent"} \cup JobStatus) /\ call.post \in Nat
  BY DEF ActivityInv, ActivityTypeOK, CallType
<1>3. CASE act.op = "read"
  BY <1>3, ResultsTyped DEF Replies, TrueAnswer
<1>4. CASE act.op = "write"
  BY <1>4, ResultsTyped DEF Replies, TrueAnswer
<1>5. CASE act.op = "write_start"
  <2>1. PICK n \in {call.post} \cap {m \in DOMAIN posts : posts[m] \in JobStatus} :
          r = [Pending EXCEPT !.id = n]
    BY <1>5 DEF Replies
  <2>2. n \in Nat /\ n \in DOMAIN posts /\ posts[n] \in JobStatus
    BY <1>2, <2>1
  <2>3. r.id = n /\ r.error = ""
    BY <2>1 DEF Pending
  <2> QED
    BY <1>5, <2>1, <2>2, <2>3, ResultsTyped DEF TrueAnswer
<1>6. CASE act.op = "write_status"
  <2>1. act.id \in DOMAIN posts /\ r = [Pending EXCEPT !.id = act.id, !.status = posts[act.id]]
    BY <1>6 DEF Replies
  <2>2. posts[act.id] \in JobStatus
    BY <1>6 DEF ActivityInv, PollsAccepted
  <2>3. r.status = posts[act.id] /\ r.error = ""
    BY <2>1 DEF Pending
  <2> QED
    BY <1>1, <1>6, <2>1, <2>2, <2>3, ResultsTyped DEF TrueAnswer
<1> QED
  BY <1>1, <1>3, <1>4, <1>5, <1>6

LEMMA AnswerPreserves ==
  ASSUME ActivityInv, Answer
  PROVE  ActivityInv' /\ StepEffect
<1>1. PICK r \in Replies : call' = [call EXCEPT !.reply = r]
  BY DEF Answer
<1>2. act.phase = "running" /\ call \in CallType /\ UNCHANGED <<handle, up, crashes, act, posts>>
  BY DEF Answer, ActivityInv, ActivityTypeOK
<1>3. r \in ResultType /\ TrueAnswer(r)
  BY <1>2, RepliesTrue
<1>4. call' \in CallType /\ call'.reply = r
  BY <1>1, <1>2, <1>3 DEF CallType
<1>5. ActivityTypeOK'
  BY <1>2, <1>4 DEF ActivityInv, ActivityTypeOK
<1>6. TotalTracked' /\ PollsAccepted' /\ CallOnlyRunning'
  BY <1>2 DEF ActivityInv, TotalTracked, PollsAccepted, CallOnlyRunning
<1>7. AnswersTrue'
  BY <1>2, <1>3, <1>4 DEF ActivityInv, AnswersTrue, TrueAnswer
<1>8. StepEffect
  BY <1>2 DEF StepEffect, PostsKept
<1> QED
  BY <1>5, <1>6, <1>7, <1>8 DEF ActivityInv

(***************************************************************************)
(* Every step of an activity, time, and the scheduling of the next one.    *)
(***************************************************************************)
LEMMA StepPreserves ==
  ASSUME ActivityInv, ActivityStep
  PROVE  ActivityInv' /\ StepEffect
<1>1. CASE Refuse
  <2>1. act.phase = "queued" /\ act.op \in Ops
    BY <1>1 DEF Refuse, Startable, ActivityInv, ActivityTypeOK, ActivityType
  <2> DEFINE f == Failure(Refusal(act.op), FALSE, None)
  <2>2. f \in AnyFailure
    BY <1>1, <2>1, FailuresTyped DEF Refuse
  <2>3. f.non_retryable
    BY DEF Failure
  <2>4. call' = NoCall
    BY <1>1, <2>1 DEF Refuse, ActivityInv, CallOnlyRunning
  <2>5. act' = Settled(f) /\ UNCHANGED <<handle, up, crashes, posts>>
    BY <1>1 DEF Refuse
  <2> HIDE DEF f
  <2> QED
    BY <2>1, <2>2, <2>3, <2>4, <2>5, FailurePreserves
<1>2. ASSUME NEW exc \in ExceptionType, Raise(exc) PROVE ActivityInv' /\ StepEffect
  BY <1>2, FailuresTyped, FailurePreserves DEF Raise, Awaiting
<1>3. CASE ClientTimesOut
  <2>1. Plain("transport") \in ExceptionType
    BY DEF Plain, ExceptionType, Kinds, Hints
  <2> QED
    BY <1>2, <1>3, <2>1 DEF ClientTimesOut
<1>4. CASE ServerError
  BY <1>2, <1>4, ActivitiesAssumption DEF ServerError
<1>5. CASE AttemptTimesOut
  <2>1. Failure("StartToClose", TRUE, None) \in AnyFailure
    BY FailuresTyped DEF FailureNames
  <2> QED
    BY <1>5, <2>1, FailurePreserves DEF AttemptTimesOut
<1>6. CASE TotalTimesOut
  <2>1. Failure("ScheduleToClose", FALSE, None) \in AnyFailure
    BY FailuresTyped DEF FailureNames
  <2>2. Failure("ScheduleToClose", FALSE, None).non_retryable
    BY DEF Failure
  <2> QED
    BY <1>6, <2>1, <2>2, FailurePreserves DEF TotalTimesOut
<1>7. CASE \E lag \in 0..Latency : Begin(lag)
  BY <1>7, BeginPreserves
<1>8. CASE Receive \/ Crash \/ Restart \/ Answer
  BY <1>8, ReceivePreserves, CrashPreserves, RestartPreserves, AnswerPreserves
<1>9. ASSUME NEW n \in DOMAIN posts, Enqueue(n) PROVE ActivityInv' /\ StepEffect
  BY <1>9, JobMovePreserves DEF Enqueue, JobStatus, Final
<1>10. ASSUME NEW n \in DOMAIN posts, NEW status \in JobStatus, Progress(n, status)
       PROVE  ActivityInv' /\ StepEffect
  BY <1>10, JobMovePreserves DEF Progress, Final
<1> QED
  BY <1>1, <1>3, <1>4, <1>5, <1>6, <1>7, <1>8, <1>9, <1>10 DEF ActivityStep

LEMMA DownTyped ==
  ASSUME NEW t \in Nat \cup {None}
  PROVE  /\ Down(t) \in Nat \cup {None}
         /\ t \in Nat => Down(t) \in Nat
         /\ Down(t) = None <=> t = None
BY Sentinels DEF Down

Elapsed(a, w, l, t) == [a EXCEPT !.wait = w, !.left = l, !.total = t]

LEMMA ElapsedTyped ==
  ASSUME NEW a \in ActivityType, NEW w \in Nat, NEW l \in Nat, NEW t \in Nat \cup {None}
  PROVE  Elapsed(a, w, l, t) \in ActivityType
BY DEF ActivityType, Elapsed

LEMMA ElapsePreserves ==
  ASSUME ActivityInv, Elapse, UNCHANGED <<handle, up, crashes, posts>>
  PROVE  /\ ActivityInv'
         /\ act'.op = act.op /\ act'.id = act.id /\ act'.phase = act.phase
         /\ act'.attempt = act.attempt /\ act'.result = act.result
         /\ act'.cancelled = act.cancelled
<1>1. act \in ActivityType /\ act.wait \in Nat /\ act.left \in Nat /\ act.total \in Nat \cup {None}
  BY DEF ActivityInv, ActivityTypeOK, ActivityType
<1>2. Down(act.wait) \in Nat /\ Down(act.left) \in Nat /\ Down(act.total) \in Nat \cup {None}
      /\ (Down(act.total) = None <=> act.total = None)
  BY <1>1, DownTyped
<1>3. act' = act \/ act' = Elapsed(act, Down(act.wait), Down(act.left), Down(act.total))
  BY DEF Elapse, Elapsed
<1>4. act' \in ActivityType
  BY <1>1, <1>2, <1>3, ElapsedTyped, Zenon
<1>5. /\ act'.op = act.op /\ act'.id = act.id /\ act'.phase = act.phase
      /\ act'.attempt = act.attempt /\ act'.result = act.result
      /\ act'.total = None <=> act.total = None
      /\ act'.cancelled = act.cancelled
  BY <1>1, <1>2, <1>3 DEF ActivityType, Elapsed
<1>6. call \in CallType /\ call.client \in Nat
  BY DEF ActivityInv, ActivityTypeOK, CallType
<1>7. Down(call.client) \in Nat
  BY <1>6, DownTyped
<1>8. call' \in CallType /\ call'.reply = call.reply
  BY <1>6, <1>7 DEF Elapse, CallType
<1>9. ASSUME call = NoCall PROVE call' = NoCall
  <2>1. Down(NoCall.client) = 0
    BY DEF Down, NoCall
  <2> QED
    BY <1>9, <2>1 DEF Elapse, NoCall
<1>10. ActivityTypeOK'
  BY <1>4, <1>8 DEF ActivityInv, ActivityTypeOK
<1>11. TotalTracked' /\ PollsAccepted' /\ CallOnlyRunning'
  BY <1>5, <1>9 DEF ActivityInv, TotalTracked, PollsAccepted, CallOnlyRunning
<1>12. AnswersTrue'
  BY <1>5, <1>8 DEF ActivityInv, AnswersTrue, TrueAnswer
<1> QED
  BY <1>5, <1>10, <1>11, <1>12 DEF ActivityInv

LEMMA SchedulePreserves ==
  ASSUME ActivityInv, act.phase \in {"idle", "done"}, NEW op \in Ops, NEW id \in Nat,
         op = "write_status" => id \in DOMAIN posts /\ posts[id] \in JobStatus,
         act' = Scheduled(op, id), UNCHANGED <<handle, up, crashes, call, posts>>
  PROVE  /\ ActivityInv'
         /\ act'.op = op /\ act'.id = id /\ act'.phase = "queued" /\ act'.attempt = 1
<1>1. handle.deadline \in [Ops -> CloseTimeouts]
  BY DEF ActivityInv, ActivityTypeOK, HandleType
<1>2. handle.deadline[op] \in CloseTimeouts
  BY <1>1
<1>3. handle.deadline[op].sch \in Nat \cup {None}
  BY <1>2 DEF CloseTimeouts
<1>4. Policy[op] \in PolicyType
  BY ActivitiesAssumption
<1>5. Policy[op].initial \in Nat
  BY <1>4 DEF PolicyType
<1>6. act' \in ActivityType
  BY <1>3, <1>5, ResultsTyped DEF Scheduled, ActivityType
<1>7. /\ act'.op = op /\ act'.id = id /\ act'.phase = "queued" /\ act'.attempt = 1
      /\ act'.total = handle.deadline[op].sch
  BY DEF Scheduled
<1>8. call = NoCall
  BY DEF ActivityInv, CallOnlyRunning
<1>9. ActivityTypeOK'
  BY <1>6 DEF ActivityInv, ActivityTypeOK
<1>10. TotalTracked' /\ PollsAccepted' /\ CallOnlyRunning'
  BY <1>7, <1>8 DEF TotalTracked, PollsAccepted, CallOnlyRunning
<1>11. AnswersTrue'
  BY <1>7, <1>8 DEF AnswersTrue, NoCall
<1> QED
  BY <1>7, <1>9, <1>10, <1>11 DEF ActivityInv
\* A cancelled activity has ended or runs its last attempt.
LEMMA CancelPreserves ==
  ASSUME ActivityInv, act.phase # "idle",
         act' = Cancelled, UNCHANGED <<handle, up, crashes, call, posts>>
  PROVE  /\ ActivityInv'
         /\ act'.phase = "done" \/ (act'.phase = "running" /\ act'.cancelled)
<1>1. act \in ActivityType /\ act.phase \in {"queued", "running", "done"}
  BY DEF ActivityInv, ActivityTypeOK, ActivityType
<1>2. Failed("Cancelled") \in ResultType /\ Failed("Cancelled").error # ""
  BY ResultsTyped DEF FailureNames
<1>3. /\ act' \in ActivityType /\ act'.op = act.op /\ act'.id = act.id /\ act'.total = act.total
      /\ \/ act'.phase = "done" /\ act'.result.error # "" /\ act.phase = "queued"
         \/ act'.phase = "running" /\ act'.cancelled /\ act.phase = "running"
         \/ act' = act /\ act.phase = "done"
  BY <1>1, <1>2 DEF Cancelled, ActivityType
<1>4. ActivityTypeOK'
  BY <1>3 DEF ActivityInv, ActivityTypeOK
<1>5. TotalTracked' /\ PollsAccepted' /\ CallOnlyRunning'
  BY <1>1, <1>3 DEF ActivityInv, TotalTracked, PollsAccepted, CallOnlyRunning
<1>6. AnswersTrue'
  BY <1>3 DEF ActivityInv, AnswersTrue, TrueAnswer
<1> QED
  BY <1>3, <1>4, <1>5, <1>6 DEF ActivityInv

(***************************************************************************)
(* The client's clock and Temporal's.                                      *)
(***************************************************************************)
\* Where the operation has no schedule_to_close, the client's time ends first.
Ahead ==
  act.phase = "running" /\ call.open /\ handle.deadline[act.op].sch = None
    => call.client < act.left
AheadInv == handle \in Handles /\ Ahead

LEMMA BudgetInTime ==
  ASSUME NEW s \in Nat \ {0}, NEW m \in Nat, NEW lag \in Nat,
         IF s > m THEN lag < m ELSE 5 * lag < s /\ Tenth + lag < s
  PROVE  ClientTimeout(s, m) + lag < s
<1>1. CASE s > m
  BY <1>1 DEF ClientTimeout
<1>2. CASE s <= m
  <2>1. (s * 8) \div 10 \in Int /\ (s * 8) \div 10 + lag < s
    BY <1>2
  <2>2. Tenth \in Int /\ Tenth + lag < s
    BY <1>2, TenthAssumption
  <2> QED
    BY <1>2, <2>1, <2>2, MaxOfTwo DEF ClientTimeout
<1> QED
  BY <1>1, <1>2

LEMMA BeginAhead ==
  ASSUME StartsInTime, ActivityInv, AheadInv, NEW lag \in 0..Latency, Begin(lag)
  PROVE  AheadInv'
<1>1. act \in ActivityType /\ act.op \in Ops
  BY DEF ActivityInv, ActivityTypeOK, ActivityType
<1>2. handle' = handle /\ act'.op = act.op /\ act'.left = Granted - lag
      /\ call'.client = ClientTimeout(Budget(act.op), Margin)
  BY <1>1 DEF Begin, ActivityType
<1>3. ASSUME handle.deadline[act.op].sch = None PROVE call'.client < act'.left
  <2>1. act.total = None
    BY <1>3 DEF ActivityInv, TotalTracked, Begin, Startable
  <2>2. /\ Budget(act.op) \in Nat /\ Startable
    BY GrantedBounds DEF Begin
  <2>3. handle.deadline[act.op] \in CloseTimeouts
    BY <1>1 DEF ActivityInv, ActivityTypeOK, HandleType
  <2>4. PICK s \in Nat \cup {None} : s = handle.deadline[act.op].stc
    BY <2>3 DEF CloseTimeouts
  <2>5. s \notin {None, 0} /\ Budget(act.op) = s /\ s \in Nat /\ s > 0
    BY <1>3, <2>2, <2>4, Sentinels DEF Budget
  <2>6. Granted = s
    <3>1. {t \in {s, None} : t # None /\ t > 0} = {s, s}
      BY <2>5
    <3> QED
      BY <2>1, <2>4, <2>5, <3>1, MinOfTwo DEF Granted
  <2>7. ClientTimeout(s, Margin) + Latency < s
    <3>1. handle.bound
      <4>1. "XmemoryNotBound" # ""
        OBVIOUS
      <4>2. Refusal(act.op) = ""
        BY DEF Begin
      <4> QED
        BY <4>1, <4>2 DEF Refusal
    <3>2. IF s > Margin THEN Latency < Margin ELSE 5 * Latency < s /\ Tenth + Latency < s
      BY <1>1, <1>3, <2>4, <2>5, <3>1 DEF StartsInTime, AheadInv
    <3> QED
      BY <2>5, <3>2, BudgetInTime, ActivitiesAssumption
  <2>8. PICK c \in Nat : c = ClientTimeout(s, Margin)
    BY <2>5, ActivitiesAssumption, ClientTimeoutTyped
  <2>9. c + Latency < s /\ lag \in Nat /\ lag <= Latency /\ Latency \in Nat
    BY <2>7, <2>8, ActivitiesAssumption
  <2>10. c < s - lag
    BY <2>5, <2>9
  <2> QED
    BY <1>2, <2>5, <2>6, <2>8, <2>10
<1> QED
  BY <1>2, <1>3 DEF AheadInv, Ahead

LEMMA StepKeepsAhead ==
  ASSUME StartsInTime, ActivityInv, AheadInv, ActivityStep
  PROVE  AheadInv'
<1>1. CASE \E lag \in 0..Latency : Begin(lag)
  BY <1>1, BeginAhead
<1>2. CASE call' = NoCall /\ handle' = handle
  BY <1>2 DEF NoCall, AheadInv, Ahead
<1>3. CASE act' = act /\ handle' = handle /\ call'.open = call.open /\ call'.client = call.client
  BY <1>3 DEF AheadInv, Ahead
<1>4. CASE Refuse
  <2>1. call = NoCall
    BY <1>4 DEF Refuse, Startable, ActivityInv, CallOnlyRunning
  <2> QED
    BY <1>2, <1>4, <2>1 DEF Refuse
<1>5. CASE Receive \/ ClientTimesOut \/ ServerError \/ AttemptTimesOut \/ TotalTimesOut \/ Crash
  BY <1>2, <1>5 DEF Receive, ClientTimesOut, ServerError, Raise, AttemptTimesOut, TotalTimesOut, Crash
<1>6. CASE Restart \/ \E n \in DOMAIN posts : Enqueue(n) \/ \E status \in JobStatus : Progress(n, status)
  BY <1>3, <1>6 DEF Restart, Enqueue, Progress
<1>7. CASE Answer
  BY <1>3, <1>7 DEF Answer, ActivityInv, ActivityTypeOK, CallType
<1> QED
  BY <1>1, <1>4, <1>5, <1>6, <1>7 DEF ActivityStep

LEMMA ElapseKeepsAhead ==
  ASSUME ActivityInv, AheadInv, NothingDue, Elapse, UNCHANGED handle
  PROVE  AheadInv'
<1>1. act \in ActivityType /\ call \in CallType
  BY DEF ActivityInv, ActivityTypeOK
<1>2. call'.open = call.open /\ call'.client = Down(call.client)
  BY <1>1 DEF Elapse, CallType
<1>3. act'.phase = act.phase /\ act'.op = act.op /\ (act.phase = "running" => act'.left = Down(act.left))
  BY <1>1 DEF Elapse, ActivityType
<1>4. ASSUME act.phase = "running", call.open, call.client < act.left
      PROVE  Down(call.client) < Down(act.left)
  <2>1. act.left \in Nat \ {0} /\ call.client \in Nat \ {0}
    BY <1>1, <1>4 DEF NothingDue, ActivityType, CallType
  <2>2. Down(act.left) = act.left - 1 /\ Down(call.client) = call.client - 1
    BY <2>1, Sentinels DEF Down
  <2> QED
    BY <1>4, <2>1, <2>2
<1> QED
  BY <1>2, <1>3, <1>4 DEF AheadInv, Ahead
=============================================================================
