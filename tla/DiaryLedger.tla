----------------------------- MODULE DiaryLedger -----------------------------
(***************************************************************************)
(* What the people in a diary are promised, with no transaction, no row    *)
(* lock and no calendar in it: an hour that is free is taken by one of     *)
(* them, a move gives one hour back in the same step that takes another,   *)
(* and nobody else ends a call than an operator who has that hour before   *)
(* them.  CallDiary implements it.                                         *)
(***************************************************************************)
CONSTANTS Slots, Leads

VARIABLES diary,   \* per slot: the lead whose call stands there, "open" or "cancelled"
          doomed   \* the slots operators are about to free or cancel

ledgerVars == <<diary, doomed>>

DInit == /\ diary = [s \in Slots |-> "open"]
         /\ doomed = {}

Take(l, s) == /\ diary[s] = "open"
              /\ diary' = [diary EXCEPT ![s] = l]
              /\ UNCHANGED doomed

Move(s, t) == /\ diary[s] \in Leads
              /\ diary[t] = "open"
              /\ diary' = [diary EXCEPT ![s] = "open", ![t] = diary[s]]
              /\ UNCHANGED doomed

\* An operator opens a lead or a slot, or gives up on it.
Look == /\ doomed' \in SUBSET Slots
        /\ UNCHANGED diary

\* An operator writes.
Clear == /\ \E S \in SUBSET doomed, fate \in {"open", "cancelled"} :
              diary' = [s \in Slots |-> IF s \in S THEN fate ELSE diary[s]]
         /\ doomed' \in SUBSET doomed

DNext == \/ \E l \in Leads, s \in Slots : Take(l, s)
         \/ \E s, t \in Slots : Move(s, t)
         \/ Look
         \/ Clear

DSpec == DInit /\ [][DNext]_ledgerVars
==============================================================================
