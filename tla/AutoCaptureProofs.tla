------------------------- MODULE AutoCaptureProofs -------------------------
(***************************************************************************)
(* Auto-capture around one activity, for every deadline, margin, ceiling,  *)
(* number of attempts and number of crashes.                               *)
(***************************************************************************)
EXTENDS AutoCapture, XmemoryLemmas

Attempt == 1..Attempts
ActRecord == [phase: {"queued", "running", "done"}, attempt: Attempt, wait: Nat,
              left: Nat, total: Nat \cup {None}, result: 0..Attempts]
RunRecord == [stage: {"unborn", "working", "capturing", "ended", "lost"}, room: Nat, timer: Nat]

(***************************************************************************)
(* The types, with what ties the total to the activity's setting.          *)
(***************************************************************************)
TotalTracked == act.total = None <=> setting.sch = None
TypeInv == TypeOK /\ TotalTracked

LEMMA Constants ==
  /\ Margin \in Nat /\ Ceiling \in Nat \ {0} /\ Latency \in Nat /\ Attempts \in Nat \ {0}
  /\ Backoff \in Nat \ {0} /\ MaxCrashes \in Nat /\ None \notin Int
BY AutoCaptureAssumption

LEMMA LeastOfTwo ==
  ASSUME NEW a \in Int, NEW b \in Int
  PROVE  Min({a, b}) = IF a <= b THEN a ELSE b
BY DEF Min

LEMMA DownTyped ==
  ASSUME NEW t \in Nat \cup {None}
  PROVE  /\ Down(t) \in Nat \cup {None}
         /\ t \in Nat => Down(t) \in Nat
         /\ Down(t) = None <=> t = None
BY Constants DEF Down

LEMMA Typed ==
  ASSUME TypeInv
  PROVE  /\ act \in ActRecord /\ runs \in [Attempt -> RunRecord] /\ act.attempt \in Attempt
         /\ setting \in SettingType /\ setting \in Settings
         /\ setting.stc \in Nat \cup {None} /\ setting.sch \in Nat \cup {None}
         /\ Attempt \subseteq Nat /\ posts \in Seq(Attempt) /\ crashes \in 0..MaxCrashes
         /\ up \in BOOLEAN
<1>1. setting \in Settings /\ setting \in SettingType
  BY AutoCaptureAssumption DEF TypeInv, TypeOK
<1>2. setting.stc \in Nat \cup {None} /\ setting.sch \in Nat \cup {None}
  BY <1>1 DEF SettingType
<1>3. act \in ActRecord /\ runs \in [Attempt -> RunRecord] /\ posts \in Seq(Attempt)
      /\ crashes \in 0..MaxCrashes /\ up \in BOOLEAN
  BY DEF TypeInv, TypeOK, ActRecord, RunRecord, Attempt
<1>4. act.attempt \in Attempt /\ Attempt \subseteq Nat
  BY <1>3 DEF ActRecord, Attempt
<1> QED
  BY <1>1, <1>2, <1>3, <1>4

LEMMA Retyped ==
  ASSUME TypeInv, act' \in ActRecord, act'.total = None <=> setting.sch = None,
         runs' \in [Attempt -> RunRecord], posts' \in Seq(Attempt),
         setting' = setting, crashes' \in 0..MaxCrashes, up' \in BOOLEAN
  PROVE  TypeInv'
BY DEF TypeInv, TypeOK, TotalTracked, ActRecord, RunRecord, Attempt

\* What Temporal records when an attempt ends.
Queued(a, k) == [a EXCEPT !.phase = "queued", !.attempt = k, !.wait = Backoff, !.left = 0]
Over(a) == [a EXCEPT !.phase = "done", !.left = 0]
Reported(a, n) == [a EXCEPT !.phase = "done", !.left = 0, !.result = n]

LEMMA QueuedTyped ==
  ASSUME NEW a \in ActRecord, NEW n \in Attempt
  PROVE  /\ Queued(a, n) \in ActRecord /\ Queued(a, n).total = a.total
         /\ Queued(a, n).phase = "queued"
         /\ Over(a) \in ActRecord /\ Over(a).total = a.total /\ Over(a).phase = "done"
         /\ Reported(a, n) \in ActRecord /\ Reported(a, n).total = a.total
         /\ Reported(a, n).phase = "done"
<1>1. n \in 0..Attempts
  BY Constants DEF Attempt
<1> QED
  BY <1>1, Constants DEF Queued, Over, Reported, ActRecord

LEMMA SettledTyped ==
  ASSUME TypeInv, NEW b \in BOOLEAN
  PROVE  /\ Settled(b) \in ActRecord /\ Settled(b).total = act.total
         /\ Settled(b).phase \in {"queued", "done"}
<1>1. act \in ActRecord /\ act.attempt \in Attempt
  BY Typed
<1>2. CASE Settled(b) = Queued(act, act.attempt + 1) /\ act.attempt < Attempts
  <2>1. act.attempt + 1 \in Attempt
    BY <1>1, <1>2, Constants DEF Attempt
  <2> QED
    BY <1>1, <1>2, <2>1, QueuedTyped
<1>3. CASE Settled(b) = Over(act)
  BY <1>1, <1>3, QueuedTyped
<1>4. \/ Settled(b) = Over(act)
      \/ Settled(b) = Queued(act, act.attempt + 1) /\ act.attempt < Attempts
  BY DEF Settled, Over, Queued
<1> QED
  BY <1>2, <1>3, <1>4

LEMMA RecordedTyped ==
  ASSUME TypeInv, NEW n \in Attempt
  PROVE  Recorded(n) \in ActRecord /\ Recorded(n).total = act.total /\ Recorded(n).phase = "done"
<1>1. act \in ActRecord
  BY Typed
<1>2. Recorded(n) = Reported(act, n)
  BY DEF Recorded, Reported
<1> QED
  BY <1>1, <1>2, QueuedTyped

LEMMA UnbornTyped ==
  /\ Unborn \in RunRecord
  /\ [Unborn EXCEPT !.stage = "ended"] \in RunRecord
  /\ [Unborn EXCEPT !.stage = "ended"].stage = "ended" /\ [Unborn EXCEPT !.stage = "ended"].room = 0
  /\ [Unborn EXCEPT !.stage = "lost"] \in RunRecord
  /\ [Unborn EXCEPT !.stage = "lost"].stage = "lost" /\ [Unborn EXCEPT !.stage = "lost"].room = 0
BY DEF Unborn, RunRecord

LEMMA LostRuns ==
  ASSUME TypeInv
  PROVE  /\ Lost \in [Attempt -> RunRecord]
         /\ \A n \in Attempt : Lost[n].stage \notin {"working", "capturing"}
<1>1. runs \in [Attempt -> RunRecord]
  BY Typed
<1> QED
  BY <1>1, UnbornTyped DEF Lost, Busy, Attempt, RunRecord

(***************************************************************************)
(* Every action keeps the types.                                           *)
(***************************************************************************)
LEMMA InitTyped == Init => TypeInv
<1> SUFFICES ASSUME Init PROVE TypeInv
  OBVIOUS
<1>1. setting \in Settings /\ setting.sch \in Nat \cup {None}
  BY AutoCaptureAssumption DEF Init, SettingType
<1>2. act \in ActRecord /\ act.total = setting.sch
  BY <1>1, Constants DEF Init, ActRecord, Attempt
<1>3. runs \in [Attempt -> RunRecord]
  BY UnbornTyped DEF Init, Attempt
<1>4. up \in BOOLEAN /\ crashes \in 0..MaxCrashes /\ posts \in Seq(Attempt)
  BY Constants DEF Init
<1> QED
  BY <1>1, <1>2, <1>3, <1>4 DEF TypeInv, TypeOK, TotalTracked, ActRecord, RunRecord, Attempt

Granting(s, t) == Min({x \in {s, t} : x # None /\ x > 0})

LEMMA GrantingBounds ==
  ASSUME NEW s \in Nat \cup {None}, NEW t \in Nat \cup {None}, t # 0,
         s \notin {None, 0} \/ t # None
  PROVE  /\ Granting(s, t) \in Nat /\ (t # None => Granting(s, t) <= t)
         /\ t = None => Granting(s, t) = s
<1>1. CASE s \in {None, 0}
  <2>1. t \in Nat /\ t > 0
    BY <1>1
  <2>2. {x \in {s, t} : x # None /\ x > 0} = {t, t}
    BY <1>1, <2>1, Constants
  <2> QED
    BY <2>1, <2>2, LeastOfTwo, Constants DEF Granting
<1>2. CASE s \notin {None, 0} /\ t = None
  <2>1. s \in Nat /\ s > 0
    BY <1>2
  <2>2. {x \in {s, t} : x # None /\ x > 0} = {s, s}
    BY <1>2, <2>1, Constants
  <2> QED
    BY <1>2, <2>1, <2>2, LeastOfTwo DEF Granting
<1>3. CASE s \notin {None, 0} /\ t # None
  <2>1. s \in Nat /\ s > 0 /\ t \in Nat /\ t > 0
    BY <1>3
  <2>2. {x \in {s, t} : x # None /\ x > 0} = {s, t}
    BY <2>1, Constants
  <2> QED
    BY <2>1, <2>2, LeastOfTwo, Constants DEF Granting
<1> QED
  BY <1>1, <1>2, <1>3

LEMMA GrantedBounds ==
  ASSUME TypeInv, act.total # 0
  PROVE  /\ Granted \in Nat /\ (act.total # None => Granted <= act.total)
         /\ act.total = None => Granted = setting.stc
<1>1. setting.stc \in Nat \cup {None} /\ act.total \in Nat \cup {None}
  BY Typed DEF ActRecord
<1>2. setting.stc \notin {None, 0} \/ act.total # None
  BY Typed, DeadlineAssumption DEF TypeInv, TotalTracked
<1>3. Granted = Granting(setting.stc, act.total)
  BY DEF Granted, Granting
<1> QED
  BY <1>1, <1>2, <1>3, GrantingBounds

LEMMA DeadlineTyped ==
  ASSUME TypeInv
  PROVE  Deadline \in Nat /\ Max({0, Deadline - Margin}) \in Nat
         /\ Max({0, Deadline - Margin}) = IF Deadline <= Margin THEN 0 ELSE Deadline - Margin
<1>1. Deadline \in Nat
  BY Typed, DeadlineAssumption DEF Deadline
<1>2. Deadline - Margin \in Int /\ Margin \in Nat
  BY <1>1, Constants
<1>3. Max({0, Deadline - Margin}) = IF 0 >= Deadline - Margin THEN 0 ELSE Deadline - Margin
  BY <1>2, MaxOfTwo
<1> QED
  BY <1>1, <1>2, <1>3

StartedAt(a, l, t) == [a EXCEPT !.phase = "running", !.left = l, !.total = t]
LEMMA StartedTyped ==
  ASSUME NEW a \in ActRecord, NEW l \in Nat, NEW t \in Nat \cup {None}
  PROVE  /\ StartedAt(a, l, t) \in ActRecord /\ StartedAt(a, l, t).phase = "running"
         /\ StartedAt(a, l, t).left = l /\ StartedAt(a, l, t).total = t
         /\ StartedAt(a, l, t).attempt = a.attempt
BY DEF StartedAt, ActRecord

\* What an attempt that begins finds.
LEMMA Begun ==
  ASSUME TypeInv, NEW lag \in 0..Latency, Begin(lag)
  PROVE  /\ act' \in ActRecord /\ act'.phase = "running" /\ act'.attempt = act.attempt
         /\ act'.left = Granted - lag /\ Granted \in Nat
         /\ act'.total = None <=> act.total = None
         /\ runs' \in [Attempt -> RunRecord]
         /\ runs'[act.attempt].room = Max({0, Deadline - Margin})
         /\ runs'[act.attempt].stage = "working"
         /\ \A n \in Attempt \ {act.attempt} : runs'[n] = runs[n]
<1> DEFINE left == Granted - lag
           total == IF act.total = None THEN None ELSE act.total - lag
           room == Max({0, Deadline - Margin})
<1>1. act \in ActRecord /\ runs \in [Attempt -> RunRecord] /\ act.attempt \in Attempt
  BY Typed
<1>2. lag \in Nat /\ lag < Granted /\ act.total \in Nat \cup {None}
  BY <1>1, Constants DEF Begin, ActRecord
<1>3. Granted \in Nat /\ (act.total # None => Granted <= act.total)
  BY GrantedBounds DEF Begin
<1>4. left \in Nat /\ total \in Nat \cup {None} /\ (total = None <=> act.total = None)
  BY <1>2, <1>3, Constants
<1>5. act' = StartedAt(act, left, total)
  BY DEF Begin, StartedAt
<1>6. room \in Nat
  BY DeadlineTyped
<1>7. runs' = [runs EXCEPT ![act.attempt].stage = "working", ![act.attempt].room = room]
  BY DEF Begin
<1> HIDE DEF total, room
<1>8. /\ runs' \in [Attempt -> RunRecord]
      /\ runs'[act.attempt].room = room /\ runs'[act.attempt].stage = "working"
      /\ \A n \in Attempt \ {act.attempt} : runs'[n] = runs[n]
  BY <1>1, <1>6, <1>7 DEF RunRecord
<1>9. act' \in ActRecord /\ act'.phase = "running" /\ act'.attempt = act.attempt
      /\ act'.left = left /\ act'.total = total
  BY <1>1, <1>4, <1>5, StartedTyped
<1> QED
  BY <1>3, <1>4, <1>8, <1>9 DEF room

LEMMA EndedRuns ==
  ASSUME TypeInv, NEW n \in Attempt, NEW stage \in {"ended", "lost"},
         runs' = [runs EXCEPT ![n] = [Unborn EXCEPT !.stage = stage]]
  PROVE  /\ runs' \in [Attempt -> RunRecord]
         /\ runs'[n].stage = stage /\ runs'[n].room = 0
         /\ \A m \in Attempt \ {n} : runs'[m] = runs[m]
<1>1. runs \in [Attempt -> RunRecord]
  BY Typed
<1>2. /\ [Unborn EXCEPT !.stage = stage] \in RunRecord
      /\ [Unborn EXCEPT !.stage = stage].stage = stage /\ [Unborn EXCEPT !.stage = stage].room = 0
  BY DEF Unborn, RunRecord
<1>3. PICK r \in RunRecord : r = [Unborn EXCEPT !.stage = stage]
  BY <1>2
<1> QED
  BY <1>1, <1>2, <1>3

LEMMA CaptureStarted ==
  ASSUME TypeInv, NEW n \in Attempt, StartCapture(n)
  PROVE  /\ runs' \in [Attempt -> RunRecord]
         /\ runs'[n].stage = "capturing" /\ runs'[n].room = runs[n].room
         /\ runs'[n].timer <= runs[n].room /\ runs[n].room > 0
         /\ \A m \in Attempt \ {n} : runs'[m] = runs[m]
<1> DEFINE timer == Min({CaptureBudget(n), ClientTimeout(Deadline, Margin)})
<1>1. runs \in [Attempt -> RunRecord] /\ runs[n].room \in Nat
  BY Typed DEF RunRecord
<1>2. CaptureBudget(n) = IF Ceiling <= runs[n].room THEN Ceiling ELSE runs[n].room
  BY <1>1, Constants, LeastOfTwo DEF CaptureBudget
<1>3. CaptureBudget(n) \in Nat /\ CaptureBudget(n) <= runs[n].room /\ CaptureBudget(n) > 0
  BY <1>1, <1>2, Constants DEF StartCapture
<1>4. ClientTimeout(Deadline, Margin) \in Nat
  BY DeadlineTyped, Constants, ClientTimeoutTyped
<1>5. timer = IF CaptureBudget(n) <= ClientTimeout(Deadline, Margin) THEN CaptureBudget(n)
              ELSE ClientTimeout(Deadline, Margin)
  BY <1>3, <1>4, LeastOfTwo
<1>6. runs' = [runs EXCEPT ![n].stage = "capturing", ![n].timer = timer]
  BY DEF StartCapture
<1> HIDE DEF timer
<1>7. timer \in Nat /\ timer <= CaptureBudget(n)
  BY <1>3, <1>4, <1>5
<1>8. timer <= runs[n].room /\ runs[n].room > 0
  BY <1>1, <1>3, <1>7
<1>9. /\ runs' \in [Attempt -> RunRecord]
      /\ runs'[n].stage = "capturing" /\ runs'[n].room = runs[n].room /\ runs'[n].timer = timer
      /\ \A m \in Attempt \ {n} : runs'[m] = runs[m]
  BY <1>1, <1>6, <1>7 DEF RunRecord
<1> QED
  BY <1>8, <1>9

Elapsed(a, w, l, t) == [a EXCEPT !.wait = w, !.left = l, !.total = t]
LEMMA ElapsedTyped ==
  ASSUME NEW a \in ActRecord, NEW w \in Nat, NEW l \in Nat, NEW t \in Nat \cup {None}
  PROVE  /\ Elapsed(a, w, l, t) \in ActRecord
         /\ Elapsed(a, w, l, t).phase = a.phase /\ Elapsed(a, w, l, t).attempt = a.attempt
         /\ Elapsed(a, w, l, t).left = l /\ Elapsed(a, w, l, t).total = t
BY DEF Elapsed, ActRecord

LEMMA Ticked ==
  ASSUME TypeInv, Tick
  PROVE  /\ act' \in ActRecord /\ act'.phase = act.phase /\ act'.attempt = act.attempt
         /\ act.phase = "running" => act'.left = Down(act.left)
         /\ act'.total = None <=> act.total = None
         /\ runs' \in [Attempt -> RunRecord]
         /\ \A n \in Attempt : /\ runs'[n].stage = runs[n].stage
                               /\ runs'[n].room = Down(runs[n].room)
                               /\ runs'[n].timer = Down(runs[n].timer)
<1>1. act \in ActRecord /\ runs \in [Attempt -> RunRecord]
  BY Typed
<1>2. act.wait \in Nat /\ act.left \in Nat /\ act.total \in Nat \cup {None}
  BY <1>1 DEF ActRecord
<1>3. Down(act.wait) \in Nat /\ Down(act.left) \in Nat /\ Down(act.total) \in Nat \cup {None}
      /\ (Down(act.total) = None <=> act.total = None)
  BY <1>2, DownTyped
<1>4. \/ act' = act /\ act.phase = "done"
      \/ act' = Elapsed(act, Down(act.wait), Down(act.left), Down(act.total))
  BY DEF Tick, Elapsed
<1>5. /\ act' \in ActRecord /\ act'.phase = act.phase /\ act'.attempt = act.attempt
      /\ act.phase = "running" => act'.left = Down(act.left)
      /\ act'.total = None <=> act.total = None
  <2>1. CASE act' = act /\ act.phase = "done"
    BY <1>1, <2>1
  <2>2. CASE act' = Elapsed(act, Down(act.wait), Down(act.left), Down(act.total))
    <3>1. PICK w \in Nat, l \in Nat, t \in Nat \cup {None} :
            w = Down(act.wait) /\ l = Down(act.left) /\ t = Down(act.total)
      BY <1>3
    <3>2. act' = Elapsed(act, w, l, t)
      BY <2>2, <3>1
    <3>3. /\ Elapsed(act, w, l, t) \in ActRecord
          /\ Elapsed(act, w, l, t).phase = act.phase
          /\ Elapsed(act, w, l, t).attempt = act.attempt
          /\ Elapsed(act, w, l, t).left = l /\ Elapsed(act, w, l, t).total = t
      BY <1>1, ElapsedTyped
    <3> QED
      BY <1>3, <3>1, <3>2, <3>3
  <2> QED
    BY <1>4, <2>1, <2>2
<1>6. \A n \in Attempt : Down(runs[n].room) \in Nat /\ Down(runs[n].timer) \in Nat
  BY <1>1, DownTyped DEF RunRecord
<1>7. runs' = [n \in Attempt |-> [runs[n] EXCEPT !.room = Down(runs[n].room),
                                                 !.timer = Down(runs[n].timer)]]
  BY DEF Tick, Attempt
<1>8. \A n \in Attempt :
        /\ runs'[n] = [runs[n] EXCEPT !.room = Down(runs[n].room), !.timer = Down(runs[n].timer)]
        /\ runs'[n] \in RunRecord
  BY <1>1, <1>6, <1>7 DEF RunRecord
<1>9. /\ runs' \in [Attempt -> RunRecord]
      /\ \A n \in Attempt : /\ runs'[n].stage = runs[n].stage
                            /\ runs'[n].room = Down(runs[n].room)
                            /\ runs'[n].timer = Down(runs[n].timer)
  BY <1>1, <1>7, <1>8 DEF RunRecord
<1> QED
  BY <1>5, <1>9

LEMMA RunEnds ==
  ASSUME TypeInv, NEW n \in Attempt, NEW r, EndRun(n, r),
         r \in ActRecord, r.total = act.total
  PROVE  act' \in ActRecord /\ act'.total = act.total /\ runs' \in [Attempt -> RunRecord]
         /\ runs'[n].stage = "ended" /\ runs'[n].room = 0
         /\ \A m \in Attempt \ {n} : runs'[m] = runs[m]
         /\ (act' = act \/ (Heard(n) /\ act' = r))
         /\ (Heard(n) => act' = r)
<1>1. act \in ActRecord
  BY Typed
<1>2. runs' = [runs EXCEPT ![n] = [Unborn EXCEPT !.stage = "ended"]]
  BY DEF EndRun
<1>3. /\ runs' \in [Attempt -> RunRecord] /\ runs'[n].stage = "ended" /\ runs'[n].room = 0
      /\ \A m \in Attempt \ {n} : runs'[m] = runs[m]
  BY <1>2, EndedRuns
<1> QED
  BY <1>1, <1>3 DEF EndRun

LEMMA NextTyped == TypeInv /\ [Next]_vars => TypeInv'
<1> SUFFICES ASSUME TypeInv, [Next]_vars PROVE TypeInv'
  OBVIOUS
<1>1. /\ act \in ActRecord /\ runs \in [Attempt -> RunRecord] /\ act.attempt \in Attempt
      /\ posts \in Seq(Attempt) /\ crashes \in 0..MaxCrashes /\ up \in BOOLEAN
  BY Typed
<1>2. act.total = None <=> setting.sch = None
  BY DEF TypeInv, TotalTracked
<1>3. ASSUME NEW lag \in 0..Latency, Begin(lag) PROVE TypeInv'
  BY <1>1, <1>2, <1>3, Begun, Retyped DEF Begin
<1>4. ASSUME NEW n \in Attempt, NEW r, EndRun(n, r), r \in ActRecord, r.total = act.total,
             UNCHANGED posts
      PROVE  TypeInv'
  <2>1. act' \in ActRecord /\ act'.total = act.total /\ runs' \in [Attempt -> RunRecord]
    BY <1>4, RunEnds
  <2> QED
    BY <1>1, <1>2, <1>4, <2>1, Retyped DEF EndRun
<1>5. ASSUME NEW n \in Attempt, RunStep(n) PROVE TypeInv'
  <2>1. CASE Fail(n)
    BY <1>4, <2>1, SettledTyped DEF Fail
  <2>2. CASE ReturnUncaptured(n) \/ EndCapture(n)
    BY <1>4, <2>2, RecordedTyped DEF ReturnUncaptured, EndCapture
  <2>3. CASE StartCapture(n)
    <3>1. posts' \in Seq(Attempt)
      BY <1>1, <2>3 DEF StartCapture
    <3> QED
      BY <1>1, <1>2, <2>3, <3>1, CaptureStarted, Retyped DEF StartCapture
  <2> QED
    BY <1>5, <2>1, <2>2, <2>3 DEF RunStep
<1>6. ASSUME NEW n \in Attempt, Cancel(n) PROVE TypeInv'
  <2>1. act' = Over(act) /\ runs' = [runs EXCEPT ![n] = [Unborn EXCEPT !.stage = "lost"]]
    BY <1>6 DEF Cancel, Over
  <2>2. act' \in ActRecord /\ act'.total = act.total
    BY <1>1, <2>1, QueuedTyped
  <2>3. runs' \in [Attempt -> RunRecord]
    BY <2>1, EndedRuns
  <2> QED
    BY <1>1, <1>2, <1>6, <2>2, <2>3, Retyped DEF Cancel
<1>7. CASE AttemptTimesOut \/ TotalTimesOut
  <2>1. act' \in ActRecord /\ act'.total = act.total
    BY <1>7, SettledTyped DEF AttemptTimesOut, TotalTimesOut
  <2> QED
    BY <1>1, <1>2, <1>7, <2>1, Retyped DEF AttemptTimesOut, TotalTimesOut
<1>8. CASE Crash \/ Shutdown
  <2>1. up' = FALSE /\ crashes' = crashes + 1 /\ crashes < MaxCrashes
        /\ runs' = Lost /\ UNCHANGED <<setting, posts>>
    BY <1>8 DEF Crash, Shutdown
  <2>3. crashes' \in 0..MaxCrashes
    BY <1>1, <2>1, Constants
  <2>2. act' \in ActRecord /\ act'.total = act.total
    BY <1>1, <1>8, SettledTyped DEF Crash, Shutdown
  <2> QED
    BY <1>1, <1>2, <2>1, <2>2, <2>3, LostRuns, Retyped
<1>9. CASE Restart
  BY <1>1, <1>2, <1>9, Retyped DEF Restart
<1>10. CASE Tick
  BY <1>1, <1>2, <1>10, Ticked, Retyped DEF Tick
<1>11. CASE UNCHANGED vars
  BY <1>1, <1>2, <1>11, Retyped DEF vars
<1> QED
  BY <1>3, <1>5, <1>6, <1>7, <1>8, <1>9, <1>10, <1>11 DEF Next, Ended, Attempt

LEMMA TypeInvariant == Spec => []TypeInv
BY InitTyped, NextTyped, PTL DEF Spec

(***************************************************************************)
(* The wrapped activity, its runs and the captures sent keep their types.  *)
(***************************************************************************)
THEOREM TypesCorrect == Spec => []TypeOK
<1>1. TypeInv => TypeOK
  BY DEF TypeInv
<1> QED
  BY TypeInvariant, <1>1, PTL

(***************************************************************************)
(* What is left to a run ends before its attempt does: a run Temporal has  *)
(* given up on finds no room to capture in.                                *)
(***************************************************************************)
Roomy(n) == runs[n].room > 0 => Busy(n) /\ (setting.sch = None => Heard(n) /\ runs[n].room < act.left)
Prompt(n) ==
  runs[n].stage = "capturing" => setting.sch = None /\ Heard(n) /\ runs[n].timer < act.left
RoomInv == \A n \in Attempt : Roomy(n) /\ Prompt(n)

\* A run that Temporal no longer awaits, or for which no time is left.
LEMMA SpentKept ==
  ASSUME NEW n \in Attempt, Roomy(n), runs[n].stage # "capturing",
         setting.sch = None => ~(runs[n].room > 0), runs'[n] = runs[n], setting' = setting
  PROVE  Roomy(n)' /\ Prompt(n)'
BY DEF Roomy, Prompt, Busy

LEMMA UnheardKept ==
  ASSUME NEW n \in Attempt, Roomy(n), Prompt(n), ~Heard(n), runs'[n] = runs[n], setting' = setting
  PROVE  Roomy(n)' /\ Prompt(n)'
BY SpentKept DEF Roomy, Prompt

LEMMA SameKept ==
  ASSUME NEW n \in Attempt, Roomy(n), Prompt(n), runs'[n] = runs[n], act' = act, setting' = setting
  PROVE  Roomy(n)' /\ Prompt(n)'
BY DEF Roomy, Prompt, Busy, Heard

LEMMA ClearedKept ==
  ASSUME NEW n \in Attempt, runs'[n].room = 0, runs'[n].stage # "capturing"
  PROVE  Roomy(n)' /\ Prompt(n)'
BY DEF Roomy, Prompt

LEMMA InitRoom == Init => RoomInv
BY DEF Init, RoomInv, Roomy, Prompt, Unborn, Attempt

LEMMA BeginKeepsRoom ==
  ASSUME CapturesTimely, TypeInv, RoomInv, NEW lag \in 0..Latency, Begin(lag)
  PROVE  RoomInv'
<1>1. act.phase = "queued" /\ setting' = setting /\ act.total # 0
  BY DEF Begin
<1>2. ASSUME NEW n \in Attempt, n # act.attempt PROVE Roomy(n)' /\ Prompt(n)'
  <2>1. ~Heard(n) /\ runs'[n] = runs[n]
    BY <1>1, <1>2, Begun DEF Heard
  <2> QED
    BY <1>1, <2>1, UnheardKept DEF RoomInv
<1>3. Roomy(act.attempt)' /\ Prompt(act.attempt)'
  <2> DEFINE n == act.attempt
  <2>1. /\ act'.phase = "running" /\ act'.attempt = n /\ runs'[n].stage = "working"
        /\ act'.left = Granted - lag /\ runs'[n].room = Max({0, Deadline - Margin})
    BY Begun
  <2>2. ASSUME setting.sch = None, runs'[n].room > 0 PROVE runs'[n].room < act'.left
    <3>1. act.total = None
      BY <2>2 DEF TypeInv, TotalTracked
    <3>2. Granted = setting.stc /\ Granted \in Nat
      BY <1>1, <3>1, GrantedBounds
    <3>3. Deadline = setting.stc
      BY <2>2, Typed, DeadlineAssumption DEF Deadline
    <3>4. PICK d \in Nat : d = setting.stc
      BY <3>2
    <3>5. Max({0, d - Margin}) = IF d <= Margin THEN 0 ELSE d - Margin
      BY <3>3, <3>4, DeadlineTyped
    <3>6. lag \in Nat /\ lag < Margin /\ Margin \in Nat
      BY Constants DEF CapturesTimely
    <3>7. runs'[n].room = d - Margin /\ act'.left = d - lag
      BY <2>1, <2>2, <3>2, <3>3, <3>4, <3>5
    <3> QED
      BY <3>6, <3>7
  <2> HIDE DEF n
  <2>3. n' = n
    BY <2>1 DEF n
  <2>4. Heard(n)' /\ Busy(n)'
    BY <2>1, <2>3 DEF Heard, Busy
  <2>5. Roomy(n)' /\ Prompt(n)'
    BY <1>1, <2>1, <2>2, <2>3, <2>4 DEF Roomy, Prompt
  <2> QED
    BY <2>1, <2>5 DEF n
<1> QED
  BY <1>2, <1>3, Typed, Begun DEF RoomInv

LEMMA EndRunKeepsRoom ==
  ASSUME TypeInv, RoomInv, NEW n \in Attempt, NEW r, EndRun(n, r),
         r \in ActRecord, r.total = act.total
  PROVE  RoomInv'
<1>1. /\ runs'[n].stage = "ended" /\ runs'[n].room = 0 /\ setting' = setting
      /\ \A m \in Attempt \ {n} : runs'[m] = runs[m]
      /\ \/ act' = act
         \/ Heard(n)
  BY RunEnds DEF EndRun
<1>2. Roomy(n)' /\ Prompt(n)'
  BY <1>1, ClearedKept
<1>3. ASSUME NEW m \in Attempt, m # n PROVE Roomy(m)' /\ Prompt(m)'
  <2>1. CASE act' = act
    BY <1>1, <1>3, <2>1, SameKept DEF RoomInv
  <2>2. CASE Heard(n)
    <3>1. ~Heard(m)
      BY <1>3, <2>2 DEF Heard
    <3> QED
      BY <1>1, <1>3, <3>1, UnheardKept DEF RoomInv
  <2> QED
    BY <1>1, <2>1, <2>2
<1> QED
  BY <1>2, <1>3 DEF RoomInv, Attempt

LEMMA StartCaptureKeepsRoom ==
  ASSUME CapturesTimely, TypeInv, RoomInv, NEW n \in Attempt, StartCapture(n)
  PROVE  RoomInv' /\ Heard(n)
<1>1. /\ runs'[n].stage = "capturing" /\ runs'[n].room = runs[n].room
      /\ runs'[n].timer <= runs[n].room /\ runs[n].room > 0
      /\ \A m \in Attempt \ {n} : runs'[m] = runs[m]
      /\ runs' \in [Attempt -> RunRecord]
  BY CaptureStarted
<1>2. act' = act /\ setting' = setting /\ setting.sch = None
  <2>1. setting.rate # "none"
    BY DEF StartCapture, Eligible, ShouldSample
  <2> QED
    BY <2>1, Typed DEF StartCapture, CapturesTimely
<1>3. Heard(n) /\ runs[n].room < act.left
  BY <1>1, <1>2 DEF RoomInv, Roomy
<1>4. runs'[n].timer < act.left
  <2>1. runs'[n].timer \in Nat /\ runs[n].room \in Nat /\ act.left \in Nat
    BY <1>1, Typed DEF RunRecord, ActRecord
  <2> QED
    BY <1>1, <1>3, <2>1
<1>5. Roomy(n)' /\ Prompt(n)'
  <2>1. Heard(n)' /\ Busy(n)'
    BY <1>1, <1>2, <1>3 DEF Heard, Busy
  <2> QED
    BY <1>1, <1>2, <1>3, <1>4, <2>1 DEF Roomy, Prompt
<1>6. ASSUME NEW m \in Attempt, m # n PROVE Roomy(m)' /\ Prompt(m)'
  BY <1>1, <1>2, <1>6, SameKept DEF RoomInv
<1> QED
  BY <1>3, <1>5, <1>6 DEF RoomInv, Attempt

LEMMA TimeoutKeepsRoom ==
  ASSUME TypeInv, RoomInv, AttemptTimesOut \/ TotalTimesOut
  PROVE  RoomInv' /\ ~\E n \in Attempt : runs[n].stage = "capturing"
<1>1. setting' = setting /\ runs' = runs /\ (setting.sch = None => act.left = 0)
  <2>1. CASE AttemptTimesOut
    BY <2>1 DEF AttemptTimesOut
  <2>2. CASE TotalTimesOut
    <3>1. act.total = 0 /\ 0 # None
      BY <2>2, Constants DEF TotalTimesOut
    <3>2. setting.sch # None
      BY <3>1 DEF TypeInv, TotalTracked
    <3> QED
      BY <2>2, <3>2 DEF TotalTimesOut
  <2> QED
    BY <2>1, <2>2
<1>2. ASSUME NEW n \in Attempt
      PROVE  runs[n].stage # "capturing" /\ (setting.sch = None => ~(runs[n].room > 0))
  <2>1. runs[n].room \in Nat /\ runs[n].timer \in Nat
    BY Typed DEF RunRecord
  <2> QED
    BY <1>1, <2>1 DEF RoomInv, Roomy, Prompt
<1>3. ASSUME NEW n \in Attempt PROVE Roomy(n)' /\ Prompt(n)'
  BY <1>1, <1>2, SpentKept DEF RoomInv
<1> QED
  BY <1>2, <1>3 DEF RoomInv, Attempt

LEMMA LostKeepsRoom ==
  ASSUME TypeInv, RoomInv, Crash \/ Shutdown
  PROVE  RoomInv' /\ \A n \in Attempt : runs'[n].stage # "capturing"
<1>1. runs' = Lost
  BY DEF Crash, Shutdown
<1>2. ASSUME NEW n \in Attempt PROVE runs'[n].room = 0 /\ runs'[n].stage # "capturing"
  <2>1. runs'[n] = IF Busy(n) THEN [Unborn EXCEPT !.stage = "lost"] ELSE runs[n]
    BY <1>1 DEF Lost, Attempt
  <2>2. CASE Busy(n)
    BY <2>1, <2>2, UnbornTyped
  <2>3. CASE ~Busy(n)
    <3>1. runs[n].room \in Nat /\ ~(runs[n].room > 0)
      BY <2>3, Typed DEF RunRecord, RoomInv, Roomy
    <3> QED
      BY <2>1, <2>3, <3>1 DEF Busy
  <2> QED
    BY <2>2, <2>3
<1> QED
  BY <1>2, ClearedKept DEF RoomInv, Attempt

LEMMA TickKeepsRoom ==
  ASSUME TypeInv, RoomInv, Tick
  PROVE  RoomInv'
<1>1. /\ act'.phase = act.phase /\ act'.attempt = act.attempt /\ setting' = setting
      /\ act.phase = "running" => act'.left = Down(act.left) /\ act.left > 0
      /\ \A n \in Attempt : /\ runs'[n].stage = runs[n].stage
                            /\ runs'[n].room = Down(runs[n].room)
                            /\ runs'[n].timer = Down(runs[n].timer)
                            /\ runs[n].stage = "capturing" => runs[n].timer > 0
  BY Ticked DEF Tick, NothingDue, Attempt
<1>2. ASSUME NEW t \in Nat, t > 0 PROVE Down(t) = t - 1
  BY <1>2, Constants DEF Down
<1>3. Down(0) = 0
  BY DEF Down
<1>4. ASSUME NEW n \in Attempt PROVE Roomy(n)' /\ Prompt(n)'
  <2>1. runs[n].room \in Nat /\ runs[n].timer \in Nat /\ act.left \in Nat
    BY Typed DEF RunRecord, ActRecord
  <2>2. runs'[n].stage = runs[n].stage /\ runs'[n].room = Down(runs[n].room)
        /\ runs'[n].timer = Down(runs[n].timer)
    BY <1>1
  <2>3. Heard(n)' = Heard(n) /\ Busy(n)' = Busy(n)
    <3>1. act'.phase = act.phase /\ act'.attempt = act.attempt
      BY <1>1
    <3> QED
      BY <2>2, <3>1 DEF Heard, Busy
  <2>4. Heard(n) => act'.left = act.left - 1
    BY <1>1, <1>2, <2>1 DEF Heard
  <2>5. runs'[n].room > 0 => runs[n].room > 0 /\ runs'[n].room = runs[n].room - 1
    <3>1. CASE runs[n].room = 0
      BY <1>3, <2>2, <3>1
    <3>2. CASE runs[n].room > 0
      BY <1>2, <2>1, <2>2, <3>2
    <3> QED
      BY <2>1, <3>1, <3>2
  <2>6. runs[n].stage = "capturing" => runs'[n].timer = runs[n].timer - 1
    <3>1. runs[n].stage = "capturing" => runs[n].timer > 0
      BY <1>1
    <3> QED
      BY <1>2, <2>1, <2>2, <3>1
  <2>7. Roomy(n)'
    <3>1. Roomy(n) /\ setting' = setting
      BY <1>1 DEF RoomInv
    <3> QED
      BY <2>1, <2>3, <2>4, <2>5, <3>1 DEF Roomy
  <2>8. Prompt(n)'
    <3>1. Prompt(n) /\ setting' = setting
      BY <1>1 DEF RoomInv
    <3> QED
      BY <2>1, <2>2, <2>3, <2>4, <2>6, <3>1 DEF Prompt
  <2> QED
    BY <2>7, <2>8
<1> QED
  BY <1>4 DEF RoomInv, Attempt

LEMMA NextKeepsRoom ==
  ASSUME CapturesTimely, TypeInv, RoomInv, [Next]_vars
  PROVE  RoomInv'
<1>1. ASSUME NEW n \in Attempt, RunStep(n) PROVE RoomInv'
  <2>1. CASE Fail(n)
    BY <2>1, EndRunKeepsRoom, SettledTyped DEF Fail
  <2>2. CASE ReturnUncaptured(n) \/ EndCapture(n)
    BY <2>2, EndRunKeepsRoom, RecordedTyped DEF ReturnUncaptured, EndCapture
  <2> QED
    BY <1>1, <2>1, <2>2, StartCaptureKeepsRoom DEF RunStep
<1>2. ASSUME NEW n \in Attempt, Cancel(n) PROVE RoomInv'
  <2>1. runs' = [runs EXCEPT ![n] = [Unborn EXCEPT !.stage = "lost"]] /\ Heard(n)
        /\ setting' = setting
    BY <1>2 DEF Cancel
  <2>2. runs'[n].stage = "lost" /\ runs'[n].room = 0 /\ \A m \in Attempt \ {n} : runs'[m] = runs[m]
    BY <2>1, EndedRuns
  <2>3. ASSUME NEW m \in Attempt PROVE Roomy(m)' /\ Prompt(m)'
    <3>1. CASE m = n
      BY <2>2, <3>1, ClearedKept
    <3>2. CASE m # n
      <4>1. ~Heard(m)
        BY <2>1, <3>2 DEF Heard
      <4> QED
        BY <2>1, <2>2, <3>2, <4>1, UnheardKept DEF RoomInv
    <3> QED
      BY <3>1, <3>2
  <2> QED
    BY <2>3 DEF RoomInv, Attempt
<1>3. CASE UNCHANGED <<setting, act, runs>>
  BY <1>3, SameKept DEF RoomInv, Attempt
<1> QED
  BY <1>1, <1>2, <1>3, BeginKeepsRoom, TimeoutKeepsRoom, LostKeepsRoom, TickKeepsRoom
     DEF Next, Restart, Ended, vars, Attempt

LEMMA RoomInvariant ==
  ASSUME CapturesTimely
  PROVE  Spec => []RoomInv
<1>1. TypeInv /\ RoomInv /\ [Next]_vars => RoomInv'
  BY NextKeepsRoom
<1> QED
  BY TypeInvariant, InitRoom, <1>1, PTL DEF Spec

(***************************************************************************)
(* A capture is under way only for the attempt Temporal awaits, and ends   *)
(* before that attempt's deadline, for every deadline, margin and ceiling. *)
(***************************************************************************)
THEOREM CapturesInTime ==
  ASSUME CapturesTimely
  PROVE  Spec => []CaptureWithinAttempt
<1>1. TypeInv /\ RoomInv => CaptureWithinAttempt
  <2> SUFFICES ASSUME TypeInv, RoomInv, NEW n \in Attempt, runs[n].stage = "capturing"
               PROVE  Heard(n) /\ act.left > 0
    BY DEF CaptureWithinAttempt, Attempt
  <2>1. Heard(n) /\ runs[n].timer < act.left
    BY DEF RoomInv, Prompt
  <2>2. runs[n].timer \in Nat /\ act.left \in Nat
    BY Typed DEF RunRecord, ActRecord
  <2> QED
    BY <2>1, <2>2
<1> QED
  BY TypeInvariant, RoomInvariant, <1>1, PTL

(***************************************************************************)
(* How a step may leave a capture that is under way.                       *)
(***************************************************************************)
Spared(n) ==
  \/ runs'[n].stage = "capturing" /\ Heard(n)'
  \/ runs'[n].stage = "ended" /\ act'.result = n
  \/ runs'[n].stage = "lost"

LEMMA RunSpares ==
  ASSUME TypeInv, RoomInv, NEW n \in Attempt, runs[n].stage = "capturing",
         NEW m \in Attempt, RunStep(m)
  PROVE  Spared(n)
<1>1. Heard(n)
  BY DEF RoomInv, Prompt
<1>2. CASE m = n
  <2>1. EndCapture(n)
    BY <1>2 DEF RunStep, Fail, ReturnUncaptured, StartCapture, Working
  <2>2. runs'[n].stage = "ended" /\ act' = Recorded(n)
    <3>1. runs' = [runs EXCEPT ![n] = [Unborn EXCEPT !.stage = "ended"]] /\ act' = Recorded(n)
      BY <1>1, <2>1 DEF EndCapture, EndRun
    <3> QED
      BY <3>1, EndedRuns
  <2>3. Recorded(n).result = n
    BY Typed DEF Recorded, ActRecord
  <2> QED
    BY <2>2, <2>3 DEF Spared
<1>3. CASE m # n
  <2>1. ~Heard(m)
    BY <1>1, <1>3 DEF Heard
  <2>2. act' = act /\ runs'[n] = runs[n]
    <3>1. CASE StartCapture(m)
      BY <1>3, <3>1, CaptureStarted DEF StartCapture, Working
    <3>2. CASE ~StartCapture(m)
      <4>1. PICK r \in ActRecord : EndRun(m, r) /\ r.total = act.total
        BY <3>2, SettledTyped, RecordedTyped DEF RunStep, Fail, ReturnUncaptured, EndCapture
      <4> QED
        BY <1>3, <2>1, <4>1, RunEnds
    <3> QED
      BY <3>1, <3>2
  <2> QED
    BY <1>1, <2>2 DEF Spared, Heard
<1> QED
  BY <1>2, <1>3

LEMMA StepSpares ==
  ASSUME TypeInv, RoomInv, [Next]_vars, NEW n \in Attempt, runs[n].stage = "capturing"
  PROVE  Spared(n)
<1>1. Heard(n) /\ Busy(n)
  BY DEF RoomInv, Prompt, Busy
<1>2. ASSUME NEW m \in Attempt, Cancel(m) PROVE Spared(n)
  <2>1. m = n
    BY <1>1, <1>2 DEF Cancel, Heard
  <2> QED
    BY <1>2, <2>1, EndedRuns DEF Cancel, Spared
<1>3. ~\E lag \in 0..Latency : Begin(lag)
  BY <1>1 DEF Begin, Heard
<1>4. ~AttemptTimesOut /\ ~TotalTimesOut
  BY TimeoutKeepsRoom
<1>5. CASE Crash \/ Shutdown
  <2>1. runs'[n] = [Unborn EXCEPT !.stage = "lost"]
    BY <1>1, <1>5 DEF Crash, Shutdown, Lost, Attempt
  <2> QED
    BY <2>1, UnbornTyped DEF Spared
<1>6. CASE Tick
  BY <1>1, <1>6, Ticked DEF Spared, Heard
<1>7. CASE UNCHANGED <<act, runs>>
  BY <1>1, <1>7 DEF Spared, Heard
<1> QED
  BY <1>2, <1>3, <1>4, <1>5, <1>6, <1>7, RunSpares DEF Next, Restart, Ended, vars, Attempt

(***************************************************************************)
(* A capture never costs the activity its result, whatever becomes of the  *)
(* capture and however late it ends: the safety half of ResultReported.    *)
(***************************************************************************)
THEOREM ResultsKept ==
  ASSUME CapturesTimely
  PROVE  Spec => ResultKept
<1>1. TypeInv /\ RoomInv /\ [Next]_vars =>
        [\A n \in 1..Attempts : runs[n].stage = "capturing" =>
           \/ runs'[n].stage = "capturing" /\ Heard(n)'
           \/ runs'[n].stage = "ended" /\ act'.result = n
           \/ runs'[n].stage = "lost"]_vars
  BY StepSpares DEF Spared, Attempt
<1> QED
  BY TypeInvariant, RoomInvariant, <1>1, PTL DEF Spec, ResultKept

(***************************************************************************)
(* Captures are counted against the crashes: one that no crash interrupted *)
(* ends the activity, and with it every later capture.                     *)
(***************************************************************************)
Capturing == \E n \in Attempt : runs[n].stage = "capturing"
Sent ==
  /\ Len(posts) <= crashes + 1
  /\ ~Capturing /\ act.phase # "done" => Len(posts) <= crashes

LEMMA Counters ==
  ASSUME TypeInv
  PROVE  Len(posts) \in Nat /\ crashes \in Nat
BY Typed, Constants

\* The steps that send nothing: whoever captured goes on, or the activity is done.
LEMMA SentKept ==
  ASSUME Sent, UNCHANGED posts, UNCHANGED crashes,
         act'.phase = "done" \/ (Capturing => Capturing'),
         act.phase = "done" => act'.phase = "done"
  PROVE  Sent'
BY DEF Sent

\* Only the attempt Temporal awaits can be capturing.
LEMMA OneCaptures ==
  ASSUME RoomInv, NEW n \in Attempt, Heard(n), runs[n].stage # "capturing"
  PROVE  ~Capturing
BY DEF Capturing, RoomInv, Prompt, Heard

LEMMA EndRunKeepsSent ==
  ASSUME TypeInv, RoomInv, Sent, NEW n \in Attempt, NEW r, EndRun(n, r), UNCHANGED posts,
         r \in ActRecord, r.total = act.total,
         runs[n].stage = "capturing" => r.phase = "done"
  PROVE  Sent'
<1>1. /\ UNCHANGED crashes
      /\ \A m \in Attempt \ {n} : runs'[m] = runs[m]
      /\ act' = act \/ (Heard(n) /\ act' = r)
      /\ Heard(n) => act' = r
  BY RunEnds DEF EndRun
<1>2. act.phase = "done" => act'.phase = "done"
  BY <1>1 DEF Heard
<1>3. CASE runs[n].stage = "capturing"
  <2>1. act'.phase = "done"
    BY <1>1, <1>3 DEF RoomInv, Prompt
  <2> QED
    BY <1>1, <1>2, <2>1, SentKept
<1>4. CASE runs[n].stage # "capturing"
  <2>1. Capturing => Capturing'
    BY <1>1, <1>4 DEF Capturing
  <2> QED
    BY <1>1, <1>2, <2>1, SentKept
<1> QED
  BY <1>3, <1>4

LEMMA NextKeepsSent ==
  ASSUME CapturesTimely, TypeInv, RoomInv, Sent, [Next]_vars
  PROVE  Sent'
<1>1. ASSUME NEW n \in Attempt, RunStep(n) PROVE Sent'
  <2>1. CASE Fail(n)
    BY <2>1, EndRunKeepsSent, SettledTyped DEF Fail, Working
  <2>2. CASE ReturnUncaptured(n) \/ EndCapture(n)
    BY <2>2, EndRunKeepsSent, RecordedTyped DEF ReturnUncaptured, EndCapture
  <2>3. CASE StartCapture(n)
    <3>1. Heard(n) /\ runs[n].stage # "capturing" /\ posts' = Append(posts, n) /\ crashes' = crashes
          /\ runs'[n].stage = "capturing"
      BY <2>3, StartCaptureKeepsRoom, CaptureStarted DEF StartCapture, Working
    <3>2. Len(posts) <= crashes
      BY <3>1, OneCaptures DEF Sent, Heard
    <3>3. Len(posts') = Len(posts) + 1
      BY <3>1, Typed
    <3>4. Capturing'
      BY <3>1 DEF Capturing, Attempt
    <3> QED
      BY <3>1, <3>2, <3>3, <3>4, Counters DEF Sent
  <2> QED
    BY <1>1, <2>1, <2>2, <2>3 DEF RunStep
<1>2. ASSUME NEW n \in Attempt, Cancel(n) PROVE Sent'
  <2>1. act'.phase = "done" /\ UNCHANGED <<crashes, posts>>
    BY <1>2, Typed DEF Cancel, ActRecord
  <2> QED
    BY <2>1, SentKept
<1>3. ASSUME NEW lag \in 0..Latency, Begin(lag) PROVE Sent'
  <2>1. act.phase = "queued" /\ UNCHANGED <<crashes, posts>>
    BY <1>3 DEF Begin
  <2>2. ~Capturing
    BY <2>1 DEF Capturing, RoomInv, Prompt, Heard
  <2> QED
    BY <2>1, <2>2, SentKept
<1>4. CASE AttemptTimesOut \/ TotalTimesOut
  <2>1. ~Capturing /\ act.phase # "done" /\ UNCHANGED <<crashes, posts>>
    BY <1>4, TimeoutKeepsRoom DEF Capturing, AttemptTimesOut, TotalTimesOut
  <2> QED
    BY <2>1, SentKept
<1>5. CASE Crash \/ Shutdown
  <2>1. crashes' = crashes + 1 /\ posts' = posts
    BY <1>5 DEF Crash, Shutdown
  <2>2. Len(posts) <= crashes + 1
    BY DEF Sent
  <2> QED
    BY <2>1, <2>2, Counters DEF Sent
<1>6. CASE Tick
  <2>1. act'.phase = act.phase /\ \A n \in Attempt : runs'[n].stage = runs[n].stage
    BY <1>6, Ticked
  <2>2. UNCHANGED <<crashes, posts>> /\ (Capturing => Capturing')
    BY <1>6, <2>1 DEF Tick, Capturing, Attempt
  <2> QED
    BY <2>1, <2>2, SentKept
<1>7. CASE UNCHANGED <<crashes, act, runs, posts>>
  BY <1>7 DEF Sent, Capturing, Attempt
<1> QED
  BY <1>1, <1>2, <1>3, <1>4, <1>5, <1>6, <1>7 DEF Next, Restart, Ended, vars, Attempt

(***************************************************************************)
(* A result is captured more than once only if the worker was lost between *)
(* a capture and its report, however many attempts the policy allows.      *)
(***************************************************************************)
THEOREM CapturesFew ==
  ASSUME CapturesTimely
  PROVE  Spec => []CapturesBounded
<1>1. Init => Sent
  BY DEF Init, Sent
<1>2. TypeInv /\ RoomInv /\ Sent /\ [Next]_vars => Sent'
  BY NextKeepsSent
<1>3. TypeInv /\ Sent => CapturesBounded
  BY Counters DEF Sent, CapturesBounded
<1> QED
  BY TypeInvariant, RoomInvariant, <1>1, <1>2, <1>3, PTL DEF Spec
=============================================================================
