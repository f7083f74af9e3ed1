---------------------------- MODULE MCExportLane ----------------------------
(* Instances of ExportLane for TLC. *)
EXTENDS ExportLane, TLC

\* Jobs of one org and slots are interchangeable.  Safety runs only.
Interchangeable == Permutations(Jobs) \union Permutations(Workers)
=============================================================================
