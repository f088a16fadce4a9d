-------------------------- MODULE MCDurableReplay --------------------------
(***************************************************************************)
(* Small instances of DurableReplay.                                       *)
(***************************************************************************)
EXTENDS DurableReplay

Wait(interval, cap, max_wait) ==
  [poll_interval |-> interval, max_poll_interval |-> cap, max_wait |-> max_wait]
MCWaits == {Wait(0, 4, 3), Wait(2, 2, 4), Wait(2, 3, 10), Wait(6, 3, 11)}
MCStatuses == {"queued", "completed", "failed"}
============================================================================
