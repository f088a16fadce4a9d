--------------------------- MODULE MCAutoCapture ---------------------------
(***************************************************************************)
(* Small instances of AutoCapture.  The durations are scaled               *)
(* down: only their order matters, and a deadline at or under the margin,  *)
(* where the client's floor would, leaves no room for a capture.           *)
(***************************************************************************)
EXTENDS AutoCapture

Setting(stc, sch) ==
  [stc |-> stc, sch |-> sch, own |-> FALSE, rate |-> "all", low |-> FALSE, bound |-> TRUE]

\* Deadlines around the margin and beyond margin and ceiling; every reason not
\* to capture.
MCSettings ==
  {Setting(stc, None) : stc \in {1, 2, 3, 4, 7}}
  \cup {[Setting(7, None) EXCEPT !.own = TRUE], [Setting(7, None) EXCEPT !.bound = FALSE],
        [Setting(3, 6) EXCEPT !.rate = "none"]}
  \cup {[Setting(5, None) EXCEPT !.rate = "some", !.low = low] : low \in BOOLEAN}

ScheduleToCloseOnly == {Setting(None, 7)}

\* What CapturesInTime and CapturesFew of AutoCaptureProofs ask of the constants.
ASSUME InTime == Settings = ScheduleToCloseOnly \/ CapturesTimely
============================================================================
