--------------------------- MODULE MCUnnamedWrite ---------------------------
(***************************************************************************)
(* A small instance of UnnamedWrite: one handle, one wait setting.         *)
(***************************************************************************)
EXTENDS UnnamedWrite

MCHandles == {[deadline |-> [op \in Ops |-> [stc |-> 13, sch |-> None]], bound |-> TRUE]}
MCPolicy == [op \in Ops |-> [initial |-> 2, maximum |-> 3, attempts |-> 1]]
MCWaits == {[poll_interval |-> 2, max_poll_interval |-> 3, max_wait |-> 9]}
=============================================================================
