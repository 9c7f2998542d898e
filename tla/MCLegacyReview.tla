---------------------------- MODULE MCLegacyReview ----------------------------
(* LegacyReview on small instances. *)
EXTENDS LegacyReview, TLC
=============================================================================
