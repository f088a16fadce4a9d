----------------------------- MODULE WriteLoop ------------------------------
(***************************************************************************)
(* The loop of write_durable as its caller's workflow sees it, with no     *)
(* worker, history, activity or server in sight: one enqueue, a poll at    *)
(* once, and a poll after every sleep, until a status is final or the next *)
(* sleep would not end before max_wait is over.  What the locals hold      *)
(* survives every step; time passes between any two.                       *)
(***************************************************************************)
EXTENDS PollRules

CONSTANT Waits   (* the poll_interval, max_poll_interval, max_wait a caller passes *)

VARIABLES
  args,      (* the arguments of this call                  *)
  pc,        (* the await the loop stands at                *)
  delay,     (* the next sleep                              *)
  left,      (* what is left of max_wait, from the enqueue  *)
  timer,     (* what is left of the sleep                   *)
  outcome    (* how the call ended, "" before that          *)

vars == <<args, pc, delay, left, timer, outcome>>

Init ==
  /\ args \in Waits
  /\ pc = "new" /\ delay = 0 /\ left = 0 /\ timer = 0 /\ outcome = ""

Enqueue ==
  /\ pc = "new" /\ pc' = "starting"
  /\ UNCHANGED <<args, delay, left, timer, outcome>>

Enqueued ==
  /\ pc = "starting" /\ pc' = "polling"
  /\ delay' = args.poll_interval /\ left' = args.max_wait
  /\ UNCHANGED <<args, timer, outcome>>

Ends(type) ==
  /\ pc' = "done" /\ outcome' = type /\ timer' = 0
  /\ UNCHANGED <<args, delay, left>>

\* A status is final.
Report ==
  /\ pc = "polling"
  /\ \E type \in {"completed", "XmemoryWriteFailed", "XmemoryWriteNotFound"} : Ends(type)

GiveUp == pc = "polling" /\ delay >= left /\ Ends("XmemoryWriteTimeout")

Sleep ==
  /\ pc = "polling" /\ delay < left
  /\ pc' = "sleeping" /\ timer' = delay
  /\ UNCHANGED <<args, delay, left, outcome>>

Wake ==
  /\ pc = "sleeping" /\ timer = 0
  /\ pc' = "polling" /\ delay' = Shorter(Grown(delay), args.max_poll_interval)
  /\ UNCHANGED <<args, left, timer, outcome>>

\* The awaited activity fails, or the caller is cancelled.
Interrupted ==
  \/ pc \in {"starting", "polling"} /\ Ends("raised")
  \/ pc \in {"starting", "polling", "sleeping"} /\ Ends("cancelled")

After(time, t) == IF t < time THEN time - t ELSE 0

TimePasses ==
  /\ \E t \in 1..(left + timer) : left' = After(left, t) /\ timer' = After(timer, t)
  /\ UNCHANGED <<args, pc, delay, outcome>>

Next == Enqueue \/ Enqueued \/ Report \/ GiveUp \/ Sleep \/ Wake \/ Interrupted \/ TimePasses

Spec == Init /\ [][Next]_vars
=============================================================================
