-------------------------- MODULE MCServicePipeline --------------------------
(* ServicePipeline on small instances; the contents, the groups and the      *)
(* requests of each kind are interchangeable.                                *)
EXTENDS ServicePipeline, TLC

Symmetry == Permutations(Data) \cup Permutations(Group)
              \cup Permutations(Client) \cup Permutations(Worker)
              \cup Permutations(Caller)
=============================================================================
