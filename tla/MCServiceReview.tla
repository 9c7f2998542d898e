--------------------------- MODULE MCServiceReview ---------------------------
(* ServiceReview on small instances; contents, groups and handlers of a kind *)
(* are interchangeable.                                                      *)
EXTENDS ServiceReview, TLC

Symmetry == Permutations(Data) \cup Permutations(Group)
              \cup Permutations(User) \cup Permutations(Validator)
              \cup Permutations(Reviewer)
=============================================================================
