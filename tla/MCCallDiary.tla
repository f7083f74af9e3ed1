----------------------------- MODULE MCCallDiary -----------------------------
(* Instances of CallDiary for TLC. *)
EXTENDS CallDiary, TLC

\* No action tells two slots, two leads, two calls or two requests apart.
Interchangeable ==
  Permutations(Slots) \union Permutations(Leads) \union Permutations(Bookings)
    \union Permutations(Requests) \union Permutations(Operators)
==============================================================================
