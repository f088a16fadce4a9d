---------------------------- MODULE AutoCapture ----------------------------
(***************************************************************************)
(* interceptor.py: auto-capture around one activity of the user.  Each     *)
(* attempt is a run on the worker; a run whose activity returned may send  *)
(* a capture before it hands the result to Temporal.  Temporal may have    *)
(* given up on an attempt whose run still works, and have started another. *)
(*                                                                         *)
(* Time is discrete and kept in countdown timers.                          *)
(***************************************************************************)
EXTENDS XmemoryBudgets, Optional, Sequences

CONSTANTS
  Margin,      (* XmemoryConfig.client_margin_seconds, in ticks             *)
  Ceiling,     (* AutoCaptureConfig.capture_timeout_seconds, in ticks       *)
  Latency,     (* bound: ticks by which a run's clock may trail Temporal's  *)
  Attempts,    (* attempts the activity's retry policy allows               *)
  Backoff,     (* ticks between two attempts                                *)
  Settings,    (* the activities, plugins and deadlines a run starts with   *)
  MaxCrashes   (* bound: crashes and shutdowns of the worker                *)

\* own: its name starts with "xmemory_"; low: its id's sampling_bucket is under
\* the rate; bound: the worker bound a client.
SettingType ==
  [ stc: Nat \cup {None}, sch: Nat \cup {None}, own: BOOLEAN,
    rate: {"none", "some", "all"}, low: BOOLEAN, bound: BOOLEAN ]

ASSUME AutoCaptureAssumption ==
  /\ Margin \in Nat /\ Ceiling \in Nat \ {0} /\ Latency \in Nat
  /\ Attempts \in Nat \ {0} /\ Backoff \in Nat \ {0} /\ MaxCrashes \in Nat
  /\ Settings \subseteq SettingType /\ None \notin Int

\* Temporal schedules no activity that has neither deadline.
ASSUME DeadlineAssumption ==
  \A s \in Settings : s.stc \notin {None, 0} \/ s.sch # None

\* Runs start within the margin, and what may be captured has a start_to_close
\* alone: what _capture_budget and capture_timeout_seconds count on.
CapturesTimely ==
  Latency < Margin /\ \A s \in Settings : s.sch # None => s.rate = "none"

VARIABLES
  setting,   (* the activity wrapped and how the plugin was set up          *)
  up,        (* the worker runs                                             *)
  crashes,   (* how often it crashed or was shut down                       *)
  act,       (* Temporal's record of the activity                           *)
  runs,      (* the handler of each attempt                                 *)
  posts      (* the attempts whose capture was sent, in order               *)

vars == <<setting, up, crashes, act, runs, posts>>

\* room: what _capture_budget finds remaining; timer: what is left of wait_for.
Unborn == [stage |-> "unborn", room |-> 0, timer |-> 0]

\* result: the attempt whose result Temporal recorded, 0 for none.
Init ==
  /\ setting \in Settings
  /\ up = TRUE /\ crashes = 0 /\ posts = << >>
  /\ act = [phase |-> "queued", attempt |-> 1, wait |-> 0, left |-> 0,
            total |-> setting.sch, result |-> 0]
  /\ runs = [n \in 1..Attempts |-> Unborn]

(***************************************************************************)
(* Temporal.                                                               *)
(***************************************************************************)
Settled(retryable) ==
  IF /\ retryable /\ act.attempt < Attempts
     /\ act.total # None => Backoff < act.total
  THEN [act EXCEPT !.phase = "queued", !.attempt = @ + 1, !.wait = Backoff, !.left = 0]
  ELSE [act EXCEPT !.phase = "done", !.left = 0]

\* The run is not told: it works on, for nobody.
AttemptTimesOut ==
  /\ act.phase = "running" /\ act.left = 0 /\ act.total # 0
  /\ act' = Settled(TRUE)
  /\ UNCHANGED <<setting, up, crashes, runs, posts>>

TotalTimesOut ==
  /\ act.phase # "done" /\ act.total = 0
  /\ act' = Settled(FALSE)
  /\ UNCHANGED <<setting, up, crashes, runs, posts>>

\* `info().start_to_close_timeout or info().schedule_to_close_timeout`
Deadline == IF setting.stc \in {None, 0} THEN setting.sch ELSE setting.stc
Granted == Min({t \in {setting.stc, act.total} : t # None /\ t > 0})

\* Mutant: a margin that exceeds the deadline makes the remaining time negative.
Begin_Negative(lag) ==
  /\ up /\ act.phase = "queued" /\ act.wait = 0 /\ act.total # 0 /\ lag < Granted
  /\ act' = [act EXCEPT !.phase = "running", !.left = Granted - lag]
  /\ runs' = [runs EXCEPT ![act.attempt].stage = "working",
                          ![act.attempt].room = Deadline - Margin]
  /\ UNCHANGED <<setting, up, crashes, posts>>

Begin(lag) ==
  /\ up /\ act.phase = "queued" /\ act.wait = 0 /\ act.total # 0 /\ lag < Granted
  /\ act' = [act EXCEPT !.phase = "running", !.left = Granted - lag,
                        !.total = IF @ = None THEN None ELSE @ - lag]
  /\ runs' = [runs EXCEPT ![act.attempt].stage = "working",
                          ![act.attempt].room = Max({0, Deadline - Margin})]
  /\ UNCHANGED <<setting, up, crashes, posts>>

(***************************************************************************)
(* The worker: the wrapped activity, then _maybe_capture.                  *)
(***************************************************************************)
Heard(n) == act.phase = "running" /\ act.attempt = n

\* Temporal drops what a run says of an attempt it no longer awaits.
EndRun(n, record) ==
  /\ runs' = [runs EXCEPT ![n] = [Unborn EXCEPT !.stage = "ended"]]
  /\ act' = IF Heard(n) THEN record ELSE act
  /\ UNCHANGED <<setting, up, crashes>>

Recorded(n) == [act EXCEPT !.phase = "done", !.left = 0, !.result = n]

ShouldSample == setting.rate = "all" \/ (setting.rate = "some" /\ setting.low)

\* Mutant: the flat ceiling, whatever is left of the deadline.
CaptureBudget_Flat(n) == IF Deadline = None THEN 0 ELSE Ceiling

\* 0 stands for the None that skips the capture.
CaptureBudget(n) == Min({Ceiling, runs[n].room})

\* The activity returned and its result is a candidate for capture.
Eligible == ~setting.own /\ ShouldSample

Working(n) == up /\ runs[n].stage = "working"

Fail(n) ==
  /\ Working(n)
  /\ EndRun(n, Settled(TRUE))
  /\ UNCHANGED posts

\* Also the way a project that returns no text or raises, or an unbound client,
\* ends: whatever the reason, the result goes out.
ReturnUncaptured(n) ==
  /\ Working(n)
  /\ EndRun(n, Recorded(n))
  /\ UNCHANGED posts

\* write_start gets a budget of its own from the same deadline.
StartCapture(n) ==
  /\ Working(n) /\ Eligible /\ setting.bound /\ CaptureBudget(n) > 0
  /\ runs' = [runs EXCEPT ![n].stage = "capturing",
                          ![n].timer = Min({CaptureBudget(n), ClientTimeout(Deadline, Margin)})]
  /\ posts' = Append(posts, n)
  /\ UNCHANGED <<setting, up, crashes, act>>

\* Mutant: an error of the capture is the activity's.
EndCapture_Raises(n) ==
  /\ up /\ runs[n].stage = "capturing"
  /\ EndRun(n, IF runs[n].timer = 0 THEN Settled(TRUE) ELSE Recorded(n))
  /\ UNCHANGED posts

\* An answer, an error or the end of wait_for: all the same to the result.
EndCapture(n) ==
  /\ up /\ runs[n].stage = "capturing"
  /\ EndRun(n, Recorded(n))
  /\ UNCHANGED posts

Busy(n) == runs[n].stage \in {"working", "capturing"}
Lost == [n \in 1..Attempts |->
           IF Busy(n) THEN [Unborn EXCEPT !.stage = "lost"] ELSE runs[n]]

Crash ==
  /\ up /\ crashes < MaxCrashes
  /\ up' = FALSE /\ crashes' = crashes + 1 /\ runs' = Lost
  /\ UNCHANGED <<setting, act, posts>>

\* The SDK cancels the runs at their await.  CancelledError is not an Exception,
\* so a run that captures reports it in place of the result it holds.
Shutdown ==
  /\ up /\ crashes < MaxCrashes
  /\ up' = FALSE /\ crashes' = crashes + 1 /\ runs' = Lost
  /\ act' = IF act.phase = "running" /\ Busy(act.attempt) THEN Settled(TRUE) ELSE act
  /\ UNCHANGED <<setting, posts>>

\* The workflow cancelled the activity and a heartbeat of the run learned of it:
\* it too ends a capture with CancelledError, and the activity with it.
Cancel(n) ==
  /\ up /\ Busy(n) /\ Heard(n)
  /\ runs' = [runs EXCEPT ![n] = [Unborn EXCEPT !.stage = "lost"]]
  /\ act' = [act EXCEPT !.phase = "done", !.left = 0]
  /\ UNCHANGED <<setting, up, crashes, posts>>

Restart ==
  /\ ~up /\ up' = TRUE
  /\ UNCHANGED <<setting, crashes, act, runs, posts>>

(***************************************************************************)
(* Time.                                                                   *)
(***************************************************************************)
Down(t) == IF t \in {None, 0} THEN t ELSE t - 1

NothingDue ==
  /\ act.phase = "running" => act.left > 0
  /\ \A n \in 1..Attempts : runs[n].stage = "capturing" => runs[n].timer > 0

Tick ==
  /\ NothingDue
  /\ \/ act.phase # "done" /\ \E t \in {act.wait, act.left, act.total} : t \notin {None, 0}
     \/ \E n \in 1..Attempts : runs[n].room > 0
  /\ act' = IF act.phase = "done" THEN act
            ELSE [act EXCEPT !.wait = Down(@), !.left = Down(@), !.total = Down(@)]
  /\ runs' = [n \in 1..Attempts |->
                [runs[n] EXCEPT !.room = Down(@), !.timer = Down(@)]]
  /\ UNCHANGED <<setting, up, crashes, posts>>

Ended == act.phase = "done" /\ UNCHANGED vars

RunStep(n) == Fail(n) \/ ReturnUncaptured(n) \/ StartCapture(n) \/ EndCapture(n)

Next ==
  \/ \E lag \in 0..Latency : Begin(lag)
  \/ \E n \in 1..Attempts : RunStep(n) \/ Cancel(n)
  \/ AttemptTimesOut \/ TotalTimesOut
  \/ Crash \/ Shutdown \/ Restart \/ Tick \/ Ended

\* The wrapped activity need not end; a capture does, by wait_for.
Fairness ==
  /\ WF_vars(AttemptTimesOut) /\ WF_vars(TotalTimesOut)
  /\ WF_vars(Tick) /\ WF_vars(Restart)
  /\ \A n \in 1..Attempts : WF_vars(runs[n].timer = 0 /\ EndCapture(n))

Spec == Init /\ [][Next]_vars /\ Fairness

(***************************************************************************)
(* Types of the wrapped activity, its runs and the captures sent.          *)
(***************************************************************************)
TypeOK ==
  /\ setting \in Settings /\ up \in BOOLEAN /\ crashes \in 0..MaxCrashes
  /\ act \in [phase: {"queued", "running", "done"}, attempt: 1..Attempts, wait: Nat,
              left: Nat, total: Nat \cup {None}, result: 0..Attempts]
  /\ runs \in [1..Attempts ->
       [stage: {"unborn", "working", "capturing", "ended", "lost"}, room: Nat, timer: Nat]]
  /\ posts \in Seq(1..Attempts)

(***************************************************************************)
(* A capture is under way only for the attempt Temporal awaits, and ends   *)
(* before that attempt's deadline: the clamp leaves the margin to the      *)
(* report, and an attempt that was given up is too late to be captured.    *)
(***************************************************************************)
CaptureWithinAttempt ==
  \A n \in 1..Attempts : runs[n].stage = "capturing" => Heard(n) /\ act.left > 0

(***************************************************************************)
(* A result is not captured twice because capturing it took too long: only *)
(* a worker lost between a capture and its report can repeat one.          *)
(***************************************************************************)
CapturesBounded == Len(posts) <= 1 + crashes

(***************************************************************************)
(* A capture never costs the activity its result.  While it lasts Temporal *)
(* goes on awaiting this very attempt, and however it ends, answered,      *)
(* refused or out of time, the step that ends it reports the result; only  *)
(* a lost worker, a shutdown or a cancellation comes between.              *)
(***************************************************************************)
ResultKept ==
  [][\A n \in 1..Attempts : runs[n].stage = "capturing" =>
       \/ runs'[n].stage = "capturing" /\ Heard(n)'
       \/ runs'[n].stage = "ended" /\ act'.result = n
       \/ runs'[n].stage = "lost"]_vars

(***************************************************************************)
(* The result of a run that began to capture is the activity's result,     *)
(* whatever becomes of the capture, unless the worker is lost or the       *)
(* activity cancelled meanwhile.                                           *)
(***************************************************************************)
ResultReported ==
  \A n \in 1..Attempts :
    runs[n].stage = "capturing" ~> (act.result = n \/ runs[n].stage = "lost")
============================================================================
