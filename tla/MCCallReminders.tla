--------------------------- MODULE MCCallReminders ---------------------------
(* Instances of CallReminders for TLC. *)
EXTENDS CallReminders, TLC

\* No action tells two slots, two sweeps or two drains apart.
Interchangeable == Permutations(Slots) \union Permutations(Sweepers) \union Permutations(Ticks)
==============================================================================
