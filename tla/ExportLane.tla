----------------------------- MODULE ExportLane -----------------------------
(***************************************************************************)
(* Data exports: a job row, a queue that only wakes a worker, the claim    *)
(* with its per-org cap, the run that streams, packages and uploads a      *)
(* file, the sweep that recovers lost messages and dead runs within a      *)
(* budget, and the person who cancels a job or deletes its file.           *)
(*                                                                         *)
(* The jobs are those of one org.  A run writes the row by id alone after  *)
(* its claim, on a connection of its own, so every write is a step.  What  *)
(* the sweep and the person do between two of them is the difficulty.      *)
(***************************************************************************)
EXTENDS Naturals, FiniteSets

CONSTANTS Jobs,
          Workers,     \* slots of the consumer: EXPORT_PREFETCH x processes
          NoJob,
          Overrun,     \* bound: jobs whose live run may outlast STALLED_AFTER
          Asked,       \* bound: jobs a person may cancel or delete
          Cap,         \* EXPORT_LIMITS.concurrentPerOrg
          Budget,      \* the 3 of retry_count < 3, and what a permanent failure is charged
          MaxWakeups,  \* bound: waiting copies of one wake-up
          MaxFaults    \* bound: crashes, lost messages, database errors, and requests
                       \* to cancel or delete

ASSUME ExportAssumption ==
  /\ NoJob \notin Jobs
  /\ IsFiniteSet(Workers)
  /\ Overrun \subseteq Jobs
  /\ Asked \subseteq Jobs
  /\ Cap \in Nat \ {0}
  /\ Budget \in Nat \ {0}
  /\ MaxWakeups \in Nat \ {0}
  /\ MaxFaults \in Nat

VARIABLES
  status,    \* export_jobs.status, "none" before the request
  started,   \* started_at IS NOT NULL
  retries,   \* retry_count
  stalled,   \* error LIKE 'stalled:%'
  file,      \* the job's object exists in S3
  queue,     \* wake-ups waiting in aura.export
  at, on,    \* per slot: the step of its runExportJob, and the job
  found,     \* per slot: it has read rows, so what it writes is not zero
  person,    \* per job: what a DELETE request being served has decided
  faults,
  claims,    \* history: how often a job was claimed
  gaveUp,    \* history: jobs a run failed for good
  contested, \* history: jobs swept while a run was alive on them
  deleted    \* history: jobs whose file a person deleted

row     == <<status, started, retries, stalled>>
slots   == <<at, on, found>>
history == <<claims, gaveUp, contested, deleted>>
vars    == <<row, file, queue, slots, person, faults, history>>

Active == {"running", "packaging"}
Status == {"none", "queued", "ready", "failed", "expired", "cancelled"} \union Active

RunStep == {"claim", "scope", "page", "look", "package", "put", "publish", "end"}

Fault == faults < MaxFaults /\ faults' = faults + 1

Free(w)    == at[w] = "idle"
Running(j) == {w \in Workers : at[w] \notin {"idle", "claim"} /\ on[w] = j}

Move(j, s) == status' = [status EXCEPT ![j] = s]

Put(j) == [queue EXCEPT ![j] = IF @ < MaxWakeups THEN @ + 1 ELSE @]

\* publishExport is best effort.
Wake(j) == \/ queue' = Put(j) /\ UNCHANGED faults
           \/ UNCHANGED queue /\ Fault

Goto(w, step) == /\ at' = [at EXCEPT ![w] = step]
                 /\ UNCHANGED <<on, found>>

Leave(w) == /\ at'    = [at EXCEPT ![w] = "idle"]
            /\ on'    = [on EXCEPT ![w] = NoJob]
            /\ found' = [found EXCEPT ![w] = FALSE]

-----------------------------------------------------------------------------
(* POST /exports.  The wake-up goes out before the row is committed: it may be *)
(* consumed first, and then finds nothing.                                     *)

Request(j) ==
  /\ status[j] = "none"
  /\ Move(j, "queued")
  /\ queue' \in {Put(j), queue}
  /\ UNCHANGED <<started, retries, stalled, file, slots, person, faults, history>>

-----------------------------------------------------------------------------
(* runExportJob: the claim *)

\* Mutant: the wake-up is taken at its word.
ClaimableAny(j) == status[j] # "none"
Claimable(j) == status[j] = "queued"

\* Mutant: an export gives its place back only by being ready.
PlacesUntilReady == Cardinality({k \in Jobs : status[k] \in Active \union {"failed"}})

\* The places under the cap that are taken.
Places == Cardinality({k \in Jobs : status[k] \in Active})

\* The statement's snapshot: the row it will lock, and the count of its sub-select.
Snapshot(w, j) ==
  /\ Free(w)
  /\ queue[j] > 0
  /\ queue' = [queue EXCEPT ![j] = @ - 1]
  /\ \/ /\ Claimable(j)
        /\ Places < Cap
        /\ at' = [at EXCEPT ![w] = "claim"]
        /\ on' = [on EXCEPT ![w] = j]
        /\ UNCHANGED found
     \/ /\ ~Claimable(j) \/ Places >= Cap
        /\ UNCHANGED slots
  /\ UNCHANGED <<row, file, person, faults, history>>

\* The row lock: its own columns are looked at again, the count is not.
Claim(w) ==
  LET j == on[w] IN
  /\ at[w] = "claim"
  /\ \/ /\ Claimable(j)
        /\ Move(j, "running")
        /\ started' = [started EXCEPT ![j] = TRUE]
        /\ claims'  = [claims EXCEPT ![j] = @ + 1]
        /\ Goto(w, "scope")
     \/ /\ ~Claimable(j)
        /\ Leave(w)
        /\ UNCHANGED <<status, started, claims>>
  /\ UNCHANGED <<retries, stalled, file, queue, person, faults, gaveUp, contested, deleted>>

-----------------------------------------------------------------------------
(* streamJob *)

\* The grants still stand, and the count is within the limit.
Rescope(w) ==
  /\ at[w] = "scope"
  /\ Goto(w, "page")
  /\ UNCHANGED <<row, file, queue, person, faults, history>>

\* A page with rows; an empty one ends the stream without a look at the status.
ReadPage(w) ==
  /\ at[w] = "page"
  /\ \/ /\ at' = [at EXCEPT ![w] = "look"]
        /\ found' = [found EXCEPT ![w] = TRUE]
     \/ /\ at' = [at EXCEPT ![w] = "package"]
        /\ UNCHANGED found
  /\ UNCHANGED <<on, row, file, queue, person, faults, history>>

\* Cancelled from the console, or taken away by the sweep: stop, write nothing.
Stop(w) ==
  /\ at[w] = "look"
  /\ status[on[w]] # "running"
  /\ Leave(w)
  /\ UNCHANGED <<row, file, queue, person, faults, history>>

NextPage(w) ==
  /\ at[w] = "look"
  /\ status[on[w]] = "running"
  /\ Goto(w, "page")
  /\ UNCHANGED <<row, file, queue, person, faults, history>>

LastPage(w) ==
  /\ at[w] = "look"
  /\ status[on[w]] = "running"
  /\ Goto(w, "package")
  /\ UNCHANGED <<row, file, queue, person, faults, history>>

\* export_jobs_progress_needs_a_start: a row the sweep has requeued refuses the
\* rows and bytes of a run from before.
Refused(w, nonzero) == nonzero /\ ~started[on[w]]

\* Mutant: the row says ready and the upload follows, or fails.
PackageWithoutPut(w) ==
  /\ at[w] = "package"
  /\ ~Refused(w, found[w])
  /\ Move(on[w], "packaging")
  /\ Goto(w, "publish")
  /\ UNCHANGED <<started, retries, stalled, file, queue, person, faults, history>>

Package(w) ==
  /\ at[w] = "package"
  /\ ~Refused(w, found[w])
  /\ Move(on[w], "packaging")
  /\ Goto(w, "put")
  /\ UNCHANGED <<started, retries, stalled, file, queue, person, faults, history>>

PutObject(w) ==
  /\ at[w] = "put"
  /\ file' = [file EXCEPT ![on[w]] = TRUE]
  /\ Goto(w, "publish")
  /\ UNCHANGED <<row, queue, person, faults, history>>

Publish(w) ==
  /\ at[w] = "publish"
  /\ ~Refused(w, TRUE)
  /\ Move(on[w], "ready")
  /\ Goto(w, "end")
  /\ UNCHANGED <<started, retries, stalled, file, queue, person, faults, history>>

\* The transaction the pages were read in ends, and the message is acknowledged.
End(w) ==
  /\ at[w] = "end"
  /\ Leave(w)
  /\ UNCHANGED <<row, file, queue, person, faults, history>>

-----------------------------------------------------------------------------
(* How a run fails *)

\* The catch of runExportJob: by id alone, and the message is not given back.
FailRow(w, charge) ==
  /\ Move(on[w], "failed")
  /\ stalled' = [stalled EXCEPT ![on[w]] = FALSE]
  /\ retries' = [retries EXCEPT ![on[w]] = @ + charge]
  /\ Leave(w)
  /\ UNCHANGED <<started, file, queue, person, faults>>

\* PermanentExportError: a permission withdrawn, a limit passed, rows that
\* cannot be paged.
GiveUp(w) ==
  /\ at[w] \in {"scope", "page", "package"}
  /\ FailRow(w, Budget)
  /\ gaveUp' = gaveUp \union {on[w]}
  /\ UNCHANGED <<claims, contested, deleted>>

\* Anything else that throws: a query, the disk, S3, a refused write, the COMMIT.
FailRun(w) ==
  /\ at[w] \in RunStep \ {"claim"}
  /\ FailRow(w, 1)
  /\ UNCHANGED history

\* The process dies, its message goes back; or the catch's own write throws, and
\* it does not.
Crash(w) ==
  /\ ~Free(w)
  /\ Fault
  /\ queue' \in {Put(on[w]), queue}
  /\ Leave(w)
  /\ UNCHANGED <<row, file, person, history>>

-----------------------------------------------------------------------------
(* sweepExports *)

Republish(j) ==
  /\ status[j] = "queued"
  /\ Wake(j)
  /\ UNCHANGED <<row, file, slots, person, history>>

\* Mutant: a stall is not counted.
FailStalledUncounted(j) ==
  /\ status[j] \in Active
  /\ started[j]
  /\ j \in Overrun \/ Running(j) = {}
  /\ Move(j, "failed")
  /\ stalled'   = [stalled EXCEPT ![j] = TRUE]
  /\ contested' = IF Running(j) = {} THEN contested ELSE contested \union {j}
  /\ UNCHANGED <<started, retries, file, queue, slots, person, faults, claims, gaveUp, deleted>>

\* started_at < now() - 60 minutes, which a NULL never is.
FailStalled(j) ==
  /\ status[j] \in Active
  /\ started[j]
  /\ j \in Overrun \/ Running(j) = {}
  /\ Move(j, "failed")
  /\ stalled'   = [stalled EXCEPT ![j] = TRUE]
  /\ retries'   = [retries EXCEPT ![j] = @ + 1]
  /\ contested' = IF Running(j) = {} THEN contested ELSE contested \union {j}
  /\ UNCHANGED <<started, file, queue, slots, person, faults, claims, gaveUp, deleted>>

\* Mutant: the budget is not looked at.
RetryPendingAlways(j) == status[j] = "failed" /\ stalled[j]

RetryPending(j) == status[j] = "failed" /\ stalled[j] /\ retries[j] < Budget

Retry(j) ==
  /\ RetryPending(j)
  /\ Move(j, "queued")
  /\ stalled' = [stalled EXCEPT ![j] = FALSE]
  /\ started' = [started EXCEPT ![j] = FALSE]
  /\ Wake(j)
  /\ UNCHANGED <<retries, file, slots, person, history>>

-----------------------------------------------------------------------------
(* DELETE /exports/:id: the row is read, then written by id alone *)

Ask(j) ==
  /\ person[j] = "none"
  /\ j \in Asked /\ Fault
  /\ \/ status[j] \in {"queued", "running"} /\ person' = [person EXCEPT ![j] = "cancel"]
     \/ status[j] = "ready" /\ person' = [person EXCEPT ![j] = "delete"]
  /\ UNCHANGED <<row, file, queue, slots, history>>

Decided(j, p, q) == person[j] = p /\ person' = [person EXCEPT ![j] = q]

\* Mutant: a status the column does not know.
CancelMisspelt(j) ==
  /\ Decided(j, "cancel", "none")
  /\ Move(j, "canceled")
  /\ UNCHANGED <<started, retries, stalled, file, queue, slots, faults, history>>

Cancel(j) ==
  /\ Decided(j, "cancel", "none")
  /\ Move(j, "cancelled")
  /\ UNCHANGED <<started, retries, stalled, file, queue, slots, faults, history>>

\* The object goes first ...
DeleteObject(j) ==
  /\ Decided(j, "delete", "expire")
  /\ file'    = [file EXCEPT ![j] = FALSE]
  /\ deleted' = deleted \union {j}
  /\ UNCHANGED <<row, queue, slots, faults, claims, gaveUp, contested>>

\* ... then the key.
Expire(j) ==
  /\ Decided(j, "expire", "none")
  /\ Move(j, "expired")
  /\ UNCHANGED <<started, retries, stalled, file, queue, slots, faults, history>>

\* The API dies in between, or S3 refuses.
AskFails(j) ==
  /\ person[j] # "none"
  /\ person' = [person EXCEPT ![j] = "none"]
  /\ UNCHANGED <<row, file, queue, slots, faults, history>>

-----------------------------------------------------------------------------

Init ==
  /\ status  = [j \in Jobs |-> "none"]
  /\ started = [j \in Jobs |-> FALSE]
  /\ retries = [j \in Jobs |-> 0]
  /\ stalled = [j \in Jobs |-> FALSE]
  /\ file    = [j \in Jobs |-> FALSE]
  /\ queue   = [j \in Jobs |-> 0]
  /\ at      = [w \in Workers |-> "idle"]
  /\ on      = [w \in Workers |-> NoJob]
  /\ found   = [w \in Workers |-> FALSE]
  /\ person  = [j \in Jobs |-> "none"]
  /\ faults  = 0
  /\ claims  = [j \in Jobs |-> 0]
  /\ gaveUp = {} /\ contested = {} /\ deleted = {}

Run(w)    == \/ Claim(w) \/ Rescope(w) \/ ReadPage(w)
             \/ Stop(w) \/ NextPage(w) \/ LastPage(w)
             \/ Package(w) \/ PutObject(w) \/ Publish(w) \/ End(w)
             \/ GiveUp(w) \/ FailRun(w)
Sweep(j)  == Republish(j) \/ FailStalled(j) \/ Retry(j)
Person(j) == Ask(j) \/ Cancel(j) \/ DeleteObject(j) \/ Expire(j) \/ AskFails(j)

Next == \/ \E j \in Jobs : Request(j) \/ Sweep(j) \/ Person(j)
        \/ \E w \in Workers : Run(w) \/ Crash(w)
        \/ \E w \in Workers, j \in Jobs : Snapshot(w, j)

Spec == Init /\ [][Next]_vars

\* Runs go on or die, and a table has a last page: the cursor only moves forward.
\* A waiting message is taken in its turn, and the sweep keeps ticking.
Fairness ==
  /\ \A w \in Workers : WF_vars(Run(w)) /\ SF_vars(LastPage(w))
  /\ \A j \in Jobs :
       /\ SF_vars(\E w \in Workers : Snapshot(w, j))
       /\ WF_vars(\/ Republish(j) /\ queue'[j] > queue[j]
                  \/ FailStalled(j) \/ Retry(j))

FairSpec == Spec /\ Fairness

-----------------------------------------------------------------------------
(* Properties *)

TypeOK ==
  /\ status \in [Jobs -> Status]
  /\ started \in [Jobs -> BOOLEAN]
  /\ retries \in [Jobs -> Nat]
  /\ stalled \in [Jobs -> BOOLEAN]
  /\ file \in [Jobs -> BOOLEAN]
  /\ queue \in [Jobs -> 0..MaxWakeups]
  /\ at \in [Workers -> RunStep \union {"idle"}]
  /\ on \in [Workers -> Jobs \union {NoJob}]
  /\ found \in [Workers -> BOOLEAN]
  /\ person \in [Jobs -> {"none", "cancel", "delete", "expire"}]
  /\ faults \in 0..MaxFaults
  /\ claims \in [Jobs -> Nat]
  /\ gaveUp \subseteq Jobs /\ contested \subseteq Jobs /\ deleted \subseteq Jobs

\* "A job that stalls three times stops rather than cycling forever": however
\* slow runs, sweeps and retries overlap, a job is run at most Budget times.
RunsWithinBudget == \A j \in Jobs : claims[j] <= Budget

\* A run that failed for good is the end of it: the sweep's two tests keep the
\* job out of the queue even when a slower run has overwritten the failure.
GivenUpStaysDown == \A j \in gaveUp : status[j] # "queued"

\* "Two workers racing one job produce one run": as long as the sweep has not
\* taken a job from a live run, one run works on it and nobody can claim it.
OneRun ==
  \A j \in Jobs \ contested :
    /\ \A v, w \in Running(j) : v = w
    /\ Running(j) # {} => status[j] # "queued"

\* The row tells the truth about the file: what can be downloaded is there unless
\* a person has just deleted it, and an expired job leaves nothing behind.
FileMatchesRow ==
  \A j \in Jobs \ contested : /\ status[j] = "ready" => file[j] \/ j \in deleted
                              /\ status[j] = "expired" => ~file[j]

\* Exports come to an end and stay there, through lost messages, dead workers and a
\* cap that other jobs of the org have filled: each requested one is ready, or failed
\* with no retry due, or ended by a person.  The exception is a run that packages an
\* empty export which the sweep has requeued under it, and then dies: the row is
\* packaging with no start, no sweep looks at it, and it holds one place under the cap
\* for ever.  Only a job taken from a live run can end like that.
Unswept(j) == status[j] = "packaging" /\ ~started[j] /\ Running(j) = {}

Ended(j) == \/ status[j] \in {"ready", "expired", "cancelled"}
            \/ status[j] = "failed" /\ ~RetryPending(j)

ExportEnds ==
  <>[](\/ \A j \in Jobs : status[j] = "none" \/ Ended(j)
       \/ \E k \in contested : Unswept(k))

\* export.ts on the claim: "two workers cannot both read '2 running' and both
\* start a third".
CapHolds == Cardinality({j \in Jobs : status[j] \in Active}) <= Cap

\* What stands of it: each slot of a worker may carry one job over the limit, and no
\* more than that, however many jobs wait, stall or are taken from a live run.
CapNearlyHolds ==
  Cardinality({j \in Jobs : status[j] \in Active}) < Cap + Cardinality(Workers)
=============================================================================
