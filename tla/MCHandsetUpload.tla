--------------------------- MODULE MCHandsetUpload ---------------------------
(* Instances of HandsetUpload for TLC. *)
EXTENDS HandsetUpload, TLC

\* Ids of calls and slots are interchangeable.  Safety runs only.
Interchangeable == Permutations(Rows) \union Permutations(Slots)
=============================================================================
