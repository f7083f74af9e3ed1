---------------------------- MODULE CallLifecycle ----------------------------
(***************************************************************************)
(* What the pipeline promises about one call, with the machinery left out: *)
(* no queues, runs, pollers or sweeps.  A call waits for its audio, waits  *)
(* for the worker, is worked on, and settles; a failed attempt may be      *)
(* tried again, but only a bounded number of times between two moments at  *)
(* which the call was settled; and a settled call moves again only when a  *)
(* person rewinds it.                                                      *)
(*                                                                         *)
(* The promise is suspended for a disputed call, one that two drivers have *)
(* worked on at once: the code does not protect those (see the README).    *)
(***************************************************************************)
EXTENDS Naturals

CONSTANTS Calls, MaxAttempts

VARIABLES phase,    \* where each call is
          used,     \* failed attempts since the call was last settled
          disputed  \* calls nothing is promised about any more

vars == <<phase, used, disputed>>

Phase == {"awaiting", "queued", "working", "retrying", "settled"}

Init == /\ phase = [c \in Calls |-> "awaiting"]
        /\ used = [c \in Calls |-> 0]
        /\ disputed = {}

Step(c, from, to) == /\ phase[c] \in from
                     /\ phase' = [phase EXCEPT ![c] = to]
                     /\ UNCHANGED disputed

Arrive(c)  == Step(c, {"awaiting"}, "queued") /\ UNCHANGED used
Start(c)   == Step(c, {"queued"}, "working") /\ UNCHANGED used

\* Finished, set aside, never uploaded, or failed for good.
Settle(c)  == /\ Step(c, {"awaiting", "queued", "working"}, "settled")
              /\ used' = [used EXCEPT ![c] = 0]

\* A failed attempt with budget left.
FailOnce(c) == /\ Step(c, {"working"}, "retrying")
               /\ used[c] + 1 < MaxAttempts
               /\ used' = [used EXCEPT ![c] = @ + 1]

\* From the audio, or from the transcript.
Retry(c)   == /\ \/ Step(c, {"retrying"}, "queued")
                 \/ Step(c, {"retrying"}, "working")
              /\ UNCHANGED used

\* Also a failure whose retry has not come due: the person does not wait for it.
Rewind(c)  == /\ Step(c, {"settled", "retrying"}, "queued")
              /\ used' = [used EXCEPT ![c] = 0]

\* Whatever this call does from here on, the others are not touched by it.
Dispute(c) == /\ disputed' = disputed \union {c}
              /\ phase' \in [Calls -> Phase]
              /\ used' \in [Calls -> Nat]
              /\ \A d \in Calls \ {c} : phase'[d] = phase[d] /\ used'[d] = used[d]

Next == \E c \in Calls : \/ Arrive(c) \/ Start(c) \/ Settle(c)
                         \/ FailOnce(c) \/ Retry(c) \/ Rewind(c) \/ Dispute(c)

Spec == Init /\ [][Next]_vars
=============================================================================
