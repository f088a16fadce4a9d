---------------------------- MODULE MemoryWrite ----------------------------
(***************************************************************************)
(* What a caller of write_durable is promised, with no worker, activity,   *)
(* poll or clock in sight: the write reaches the memory at most once, the  *)
(* call ends at most once, and an outcome that names the fate of the job   *)
(* names the fate the job really has.                                      *)
(***************************************************************************)
EXTENDS Naturals

CONSTANT MaxJobs   (* how often the retry policy lets the write be sent *)

VARIABLES
  jobs,      (* the status of every job the memory accepted *)
  outcome    (* how the call ended                          *)

vars == <<jobs, outcome>>

Fates == {"completed", "failed", "not_found"}
Open == "open"
\* The caller knows the job was accepted, but not its fate.
GaveUp == "gave_up"
\* The caller does not know whether a job was accepted.
Unknown == "unknown"

Init == jobs = << >> /\ outcome = Open

\* A request may be accepted after the call that sent it has ended.
Accept(n) ==
  /\ n \notin DOMAIN jobs
  /\ jobs' = [m \in DOMAIN jobs \cup {n} |-> IF m = n THEN "queued" ELSE jobs[m]]
  /\ UNCHANGED outcome

Advance(n) ==
  /\ jobs[n] \notin Fates
  /\ \E status \in Fates \cup {"indexing"} : jobs' = [jobs EXCEPT ![n] = status]
  /\ UNCHANGED outcome

Report ==
  /\ outcome = Open
  /\ \/ outcome' = Unknown
     \/ \E n \in DOMAIN jobs : outcome' \in {GaveUp} \cup (Fates \cap {jobs[n]})
  /\ UNCHANGED jobs

Next == \/ \E n \in 1..MaxJobs : Accept(n)
        \/ \E n \in DOMAIN jobs : Advance(n)
        \/ Report

Spec == Init /\ [][Next]_vars
============================================================================
