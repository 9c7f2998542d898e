----------------------------- MODULE MCGroupSync -----------------------------
(* GroupSync on small instances. *)
EXTENDS GroupSync, TLC
=============================================================================
