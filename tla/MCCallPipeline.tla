--------------------------- MODULE MCCallPipeline ---------------------------
(* Instances of CallPipeline for TLC. *)
EXTENDS CallPipeline, TLC

\* Slots, pollers and job ids are interchangeable: no action tells them apart.
\* Not used where liveness is checked.
Interchangeable ==
  Permutations(Workers) \union Permutations(Pollers) \union Permutations(JobIds)
=============================================================================
