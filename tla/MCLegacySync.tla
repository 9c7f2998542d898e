---------------------------- MODULE MCLegacySync ----------------------------
(* LegacySync on small instances. *)
EXTENDS LegacySync, TLC
=============================================================================
