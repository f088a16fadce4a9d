-------------------------- MODULE MCWorkerBinding --------------------------
(***************************************************************************)
(* Small instances of WorkerBinding: two Workers with the plugin and one   *)
(* without it, each in a task of its own or two of them in one task.       *)
(***************************************************************************)
EXTENDS WorkerBinding, TLC

CONSTANTS w1, w2, bare, t1, t2, t3

Apart == w1 :> t1 @@ w2 :> t2 @@ bare :> t3
Together == w1 :> t1 @@ w2 :> t1 @@ bare :> t2

Supplied == {"nothing", "http_client", "instance"}
MCSettings ==
  {[supplied |-> given, key |-> key, plugged |-> [w \in Workers |-> w # bare],
    task |-> place, outer |-> [t \in Tasks |-> held]] :
     given \in Supplied, key \in BOOLEAN, place \in {Apart, Together}, held \in {None, Outer}}
============================================================================
