------------------------ MODULE MCServiceProjections -------------------------
(* ServiceProjections on small instances. *)
EXTENDS ServiceProjections, TLC
=============================================================================
