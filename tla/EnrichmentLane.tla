--------------------------- MODULE EnrichmentLane ---------------------------
(***************************************************************************)
(* The enrichment lane: a completed call is read for its conversation      *)
(* intelligence, at most a few paid times, and the CRM send that was       *)
(* waiting for it is released with whatever verdict the lane ends on.      *)
(* Composed with CrmOutbox, which holds the send from there.               *)
(*                                                                         *)
(* A lane is whoever runs enrichCall: a slot of the aura.enrich consumer,  *)
(* or the sweep, which calls it directly for the rows it selected.  Clocks *)
(* are abstract: a retry that is set may be due, any row may be old enough *)
(* for the sweep.                                                          *)
(***************************************************************************)
EXTENDS CrmOutbox

CONSTANTS Sweeps,       \* the lanes that are sweeps, one per worker process
          MaxEnrichAttempts,
          MaxClaims,    \* bound: claims of one call
          MaxWakeups    \* bound: waiting copies of one wake-up

ASSUME LaneAssumption ==
  /\ Sweeps \subseteq Lanes
  /\ MaxEnrichAttempts \in Nat \ {0}
  /\ MaxClaims \in Nat /\ MaxClaims > MaxEnrichAttempts
  /\ MaxWakeups \in Nat \ {0}

VARIABLES
  complete,  \* calls.status is COMPLETE (or still SYNCING): the lead is written
  enrich,    \* calls.enrichment_status
  tries,     \* calls.enrichment_attempts
  retryAt,   \* calls.next_enrichment_at IS NOT NULL
  enrichQ,   \* wake-ups waiting in aura.enrich
  picked,    \* per sweep: the rows of its select it has still to try
  at, on,    \* per lane: the step of its enrichCall, and the call
  verdict    \* per lane: what it is about to settle on

callVars == <<complete, enrich, tries, retryAt>>
laneVars == <<at, on, verdict>>
vars     == <<outboxVars, faults, callVars, enrichQ, picked, laneVars>>

Consumers == Lanes \ Sweeps
EnrichStatus == {"pending", "running", "done", "failed", "skipped"}

-----------------------------------------------------------------------------

Free(l) == at[l] = "idle"

Goto(l, c, step, v) == /\ at'      = [at EXCEPT ![l] = step]
                       /\ on'      = [on EXCEPT ![l] = c]
                       /\ verdict' = [verdict EXCEPT ![l] = v]

Leave(l) == Goto(l, Null, "idle", "none")

\* publishEnrich does not wait for a confirm; a failure is swallowed.
WakeLane(c) ==
  \/ /\ enrichQ' = [enrichQ EXCEPT ![c] = IF @ < MaxWakeups THEN @ + 1 ELSE @]
     /\ UNCHANGED faults
  \/ UNCHANGED enrichQ /\ Fault

-----------------------------------------------------------------------------
(* Around the lane: CallPipeline hands a finished call over, and an operator  *)
(* may take it back to UPLOADED.  Neither touches the enrichment columns.     *)

HandOver(c) ==
  /\ ~complete[c]
  /\ complete' = [complete EXCEPT ![c] = TRUE]
  /\ WakeLane(c)
  /\ UNCHANGED <<outboxVars, enrich, tries, retryAt, picked, laneVars>>

Rerun(c) ==
  /\ complete[c]
  /\ acts[c] < MaxActs
  /\ complete' = [complete EXCEPT ![c] = FALSE]
  /\ acts'     = [acts EXCEPT ![c] = @ + 1]
  /\ UNCHANGED <<outbox, write, todo, flight, issued, accepted, faults, enrich, tries, retryAt,
                 enrichQ, picked, laneVars>>

-----------------------------------------------------------------------------
(* enrichCall *)

\* Mutant: a read that is under way can be claimed again.
ClaimableAgain(c) == enrich[c] \in {"pending", "running", "failed"}

\* CLAIM_SQL: no other condition than these two states.
Claimable(c) == enrich[c] \in {"pending", "failed"}

Claim(l, c) ==
  /\ Claimable(c)
  /\ tries[c] < MaxClaims
  /\ enrich'  = [enrich EXCEPT ![c] = "running"]
  /\ tries'   = [tries EXCEPT ![c] = @ + 1]
  /\ retryAt' = [retryAt EXCEPT ![c] = FALSE]
  /\ Goto(l, c, "read", "none")
  /\ UNCHANGED <<outboxVars, faults, complete>>

Pass(c) == /\ ~Claimable(c)
           /\ UNCHANGED <<outboxVars, faults, callVars, laneVars>>

\* A delivered wake-up.
Consume(l, c) ==
  /\ l \in Consumers
  /\ Free(l)
  /\ enrichQ[c] > 0
  /\ enrichQ' = [enrichQ EXCEPT ![c] = @ - 1]
  /\ Claim(l, c) \/ Pass(c)
  /\ UNCHANGED picked

\* No text to read: nothing to enrich.
NothingToRead(l) ==
  /\ at[l] = "read"
  /\ Goto(l, on[l], "settle", "skipped")
  /\ UNCHANGED <<outboxVars, faults, callVars, enrichQ, picked>>

\* analyzeConversation answers: the read is paid for.
Read(l) ==
  /\ at[l] = "read"
  /\ Goto(l, on[l], "write", "none")
  /\ UNCHANGED <<outboxVars, faults, callVars, enrichQ, picked>>

\* The outputs are written in a transaction of their own.
WriteOutputs(l) ==
  /\ at[l] = "write"
  /\ Goto(l, on[l], "settle", "done")
  /\ UNCHANGED <<outboxVars, faults, callVars, enrichQ, picked>>

\* Mutants: a verdict the column does not know, one attempt short of the budget,
\* a failure that forgets the send.
GiveUpAsDead(l) ==
  /\ at[l] \in {"read", "write"}
  /\ tries[on[l]] >= MaxEnrichAttempts
  /\ Goto(l, on[l], "settle", "dead")
  /\ UNCHANGED <<outboxVars, faults, callVars, enrichQ, picked>>

GiveUpEarly(l) ==
  /\ at[l] \in {"read", "write"}
  /\ tries[on[l]] + 1 >= MaxEnrichAttempts
  /\ Goto(l, on[l], "settle", "failed")
  /\ UNCHANGED <<outboxVars, faults, callVars, enrichQ, picked>>

GiveUpSilently(l) ==
  /\ at[l] \in {"read", "write"}
  /\ tries[on[l]] >= MaxEnrichAttempts
  /\ enrich' = [enrich EXCEPT ![on[l]] = "failed"]
  /\ Leave(l)
  /\ UNCHANGED <<outboxVars, faults, complete, tries, retryAt, enrichQ, picked>>

\* failEnrichment: the load, the provider or the write failed.
GiveUp(l) ==
  /\ at[l] \in {"read", "write"}
  /\ tries[on[l]] >= MaxEnrichAttempts
  /\ Goto(l, on[l], "settle", "failed")
  /\ UNCHANGED <<outboxVars, faults, callVars, enrichQ, picked>>

TryLater(l) ==
  /\ at[l] \in {"read", "write"}
  /\ tries[on[l]] < MaxEnrichAttempts
  /\ enrich'  = [enrich EXCEPT ![on[l]] = "failed"]
  /\ retryAt' = [retryAt EXCEPT ![on[l]] = TRUE]
  /\ Leave(l)
  /\ UNCHANGED <<outboxVars, faults, complete, tries, enrichQ, picked>>

\* settle, up to the answer of the send it releases: still one transaction.
Release(l) ==
  /\ at[l] = "settle"
  /\ Enqueue(l, on[l])
  /\ Goto(l, on[l], "commit", verdict[l])
  /\ UNCHANGED <<faults, callVars, enrichQ, picked>>

\* It commits: the verdict and the send become visible together.
Settle(l) ==
  /\ at[l] = "commit"
  /\ enrich'  = [enrich EXCEPT ![on[l]] = verdict[l]]
  /\ retryAt' = [retryAt EXCEPT ![on[l]] = FALSE]
  /\ Commit(l)
  /\ Leave(l)
  /\ UNCHANGED <<todo, flight, issued, accepted, acts, faults, complete, tries,
                 enrichQ, picked>>

\* The enqueue's database error is caught, but its transaction is aborted: the
\* COMMIT that follows is a rollback, and the lane goes on as if it had settled.
\* Any other database error is thrown, and ends a sweep's pass over its list.
SettleLost(l) ==
  /\ at[l] \in {"settle", "commit"}
  /\ Fault
  /\ Forget(l)
  /\ Leave(l)
  /\ picked' \in {picked, [picked EXCEPT ![l] = {}]}
  /\ UNCHANGED <<outbox, todo, flight, issued, accepted, acts, callVars, enrichQ>>

\* The process dies: a consumer's message goes back, a sweep's list is gone.
CrashLane(l) ==
  /\ ~Free(l) \/ picked[l] # {}
  /\ Fault
  /\ Forget(l)
  /\ picked'  = [picked EXCEPT ![l] = {}]
  /\ enrichQ' = [c \in Calls |-> IF c = on[l] /\ l \in Consumers /\ enrichQ[c] < MaxWakeups
                                 THEN enrichQ[c] + 1 ELSE enrichQ[c]]
  /\ Leave(l)
  /\ UNCHANGED <<outbox, todo, flight, issued, accepted, acts, callVars>>

-----------------------------------------------------------------------------
(* sweepEnrichment *)

\* Mutant: the sweep looks for lost wake-ups only.
DueIfPending(c) == enrich[c] = "pending" /\ complete[c]

DueForSweep(c) == Claimable(c) /\ complete[c]

Pick(s) ==
  /\ Free(s) /\ picked[s] = {}
  /\ \E S \in SUBSET {c \in Calls : DueForSweep(c)} :
       S # {} /\ picked' = [picked EXCEPT ![s] = S]
  /\ UNCHANGED <<outboxVars, faults, callVars, enrichQ, laneVars>>

\* enrichCall on the next row of the list, whatever became of it since.
TryPicked(s, c) ==
  /\ Free(s) /\ c \in picked[s]
  /\ picked' = [picked EXCEPT ![s] = @ \ {c}]
  /\ Claim(s, c) \/ Pass(c)
  /\ UNCHANGED enrichQ

-----------------------------------------------------------------------------

Init ==
  /\ OutboxInit
  /\ complete = [c \in Calls |-> FALSE]
  /\ enrich   = [c \in Calls |-> "pending"]
  /\ tries    = [c \in Calls |-> 0]
  /\ retryAt  = [c \in Calls |-> FALSE]
  /\ enrichQ  = [c \in Calls |-> 0]
  /\ picked   = [l \in Lanes |-> {}]
  /\ at       = [l \in Lanes |-> "idle"]
  /\ on       = [l \in Lanes |-> Null]
  /\ verdict  = [l \in Lanes |-> "none"]

Enriching(l) == \/ NothingToRead(l) \/ Read(l) \/ WriteOutputs(l)
                \/ GiveUp(l) \/ TryLater(l) \/ Release(l) \/ Settle(l)

LaneNext ==
  \/ \E c \in Calls : HandOver(c) \/ Rerun(c)
  \/ \E l \in Lanes : Enriching(l) \/ SettleLost(l) \/ CrashLane(l)
  \/ \E l \in Consumers, c \in Calls : Consume(l, c)
  \/ \E s \in Sweeps : Pick(s)
  \/ \E s \in Sweeps, c \in Calls : TryPicked(s, c)

\* A step of the outbox alone.
LaneRests == UNCHANGED <<callVars, enrichQ, picked, laneVars>>

SendNext == OutboxNext /\ LaneRests

Next == LaneNext \/ SendNext

Spec == Init /\ [][Next]_vars

\* A run goes on to its end or dies, the sweep and the drain keep ticking and,
\* taking the oldest rows first, reach every row that stays due.
Fairness ==
  /\ \A l \in Lanes : WF_vars(Enriching(l))
  /\ \A c \in Calls :
       /\ SF_vars(\E s \in Sweeps : Pick(s) /\ c \in picked'[s])
       /\ SF_vars(\E d \in Drains : Tick(d) /\ todo'[d][c] # 0 /\ LaneRests)
  /\ \A s \in Sweeps : WF_vars(\E c \in Calls : TryPicked(s, c))
  /\ \A d \in Drains : WF_vars(DrainStep(d) /\ LaneRests)

FairSpec == Spec /\ Fairness

-----------------------------------------------------------------------------
(* Properties *)

TypeOK ==
  /\ OutboxTypeOK
  /\ complete \in [Calls -> BOOLEAN]
  /\ enrich \in [Calls -> EnrichStatus]
  /\ tries \in [Calls -> 0..MaxClaims]
  /\ retryAt \in [Calls -> BOOLEAN]
  /\ enrichQ \in [Calls -> 0..MaxWakeups]
  /\ picked \in [Lanes -> SUBSET Calls]
  /\ at \in [Lanes -> {"idle", "read", "write", "settle", "commit"}]
  /\ on \in [Lanes -> Calls \union {Null}]
  /\ verdict \in [Lanes -> {"none", "done", "skipped", "failed"}]

Holding(c) == {l \in Lanes : ~Free(l) /\ on[l] = c}

\* "The sweeper racing a queue consumer is a no-op rather than a second paid
\* conversation read": a call is read by one lane at a time, and while one reads
\* it the row says so.
OneReader ==
  \A c \in Calls : /\ \A l, m \in Holding(c) : l = m
                   /\ Holding(c) # {} => enrich[c] = "running"

\* The verdicts that release a send.
Terminal(c) == \/ enrich[c] \in {"done", "skipped"}
               \/ enrich[c] = "failed" /\ ~retryAt[c]

\* "So the send waits for enrichment to reach a TERMINAL state": nothing has left
\* for the CRM while a call may still get its first summary, whether it waits for
\* its turn, for a retry, or is being read with attempts to spare.
SendWaits ==
  \A c \in Calls :
    /\ ~Terminal(c) /\ enrich[c] # "running"
         => accepted[c] = {} /\ outbox[c].sync = "none"
    /\ \A l \in Holding(c) :
         at[l] \in {"read", "write"} /\ tries[c] <= MaxEnrichAttempts
           => accepted[c] = {} /\ outbox[c].sync = "none"

\* The other half of the promise: every terminal verdict, failure included, has
\* its send in the outbox.
VerdictReleases == \A c \in Calls : Terminal(c) => outbox[c].sync # "none"

\* A row that says synced is the CRM's word, under the very id the row carries,
\* however ticks, operators and re-enqueues interleave.
SyncedWasAccepted ==
  \A c \in Calls : outbox[c].sync = "synced" => outbox[c].req \in accepted[c]

\* A finished call gets a verdict, through lost wake-ups, crashes and failed
\* reads, unless it is reprocessed meanwhile or the worker that claimed it was
\* lost before its verdict was written (see StrandedReadRecovered).
Stranded(c) == enrich[c] = "running" /\ Holding(c) = {}

LaneConcludes ==
  \A c \in Calls : complete[c] ~> Terminal(c) \/ Stranded(c) \/ ~complete[c]

\* A queued send is not forgotten: it is delivered, or visibly dead.
SendConcludes ==
  \A c \in Calls : outbox[c].sync = "pending" ~> outbox[c].sync # "pending"

\* enrich.ts on the sweep: "a lost message, a purged broker or a worker killed
\* mid-enrichment is recovered".
StrandedReadRecovered == \A c \in Calls : enrich[c] = "running" ~> enrich[c] # "running"

\* enrich.ts on releaseDispatch: "a call that somehow reaches here twice queues
\* one send, not two".  Two request ids taken in by the CRM are two sends.
OneSendPerCall ==
  \A c \in Calls : \A i, j \in accepted[c] : acts[c] = 0 => i = j

\* What stands of it (see OneSendPerCall): within the attempts a call is allowed,
\* one send leaves for it at most, whatever is lost, crashes, is delivered twice
\* or is requeued by hand.  A second one takes a claim beyond the last attempt.
OneSendInBudget ==
  \A c \in Calls :
    tries[c] <= MaxEnrichAttempts => \A i, j \in accepted[c] : i = j

\* What stands of the recovery (see StrandedReadRecovered): without a fault no
\* reader is ever gone while its row says running.
StrandingNeedsFault == faults = 0 => \A c \in Calls : ~Stranded(c)

\* And what does not: no step of a lane, sweep, drain or operator takes a stranded
\* call out of that state.
StrandedStays == [][\A c \in Calls : Stranded(c) => Stranded(c)']_vars
=============================================================================
