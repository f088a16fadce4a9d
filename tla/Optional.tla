------------------------------ MODULE Optional ------------------------------
(***************************************************************************)
(* Python's None: an attribute, a deadline or a hint that is not there.    *)
(***************************************************************************)
CONSTANT None
=============================================================================
