# Voice Transcriber: a verification development

TLA+ models, TLC runs and TLAPS proofs for the part of Voice Transcriber (Aura)
that moves work through time: a recording leaves an Android phone, becomes a
row of `calls`, is driven through transcription and analysis by a worker, is
read once more for its conversation intelligence, and leaves for the customer's
CRM; and, beside it, an invoice collects money through two payment gateways and a
prospect books an introductory call and is reminded of it.
Paths below are relative to `src/`; `pipeline/` stands for
`platform/apps/worker/src/pipeline/`.

## 1. The system

Postgres is the record, RabbitMQ only wakes consumers up, S3 holds audio, and
every durable piece of progress is a column of a row.  Nothing is held in memory
across a restart, so what makes the code hard is what two processes do to one
row between each other's transactions.

| Component | State | Operations | Talks to |
|---|---|---|---|
| Call pipeline (`pipeline/pipeline.ts`, `retry.ts`, `asr-poll.ts`) | `calls.status`, `pipeline_attempts`, `next_attempt_at`, `asr_job_id`; `transcripts`; queues `aura.pipeline`, `aura.analyze` | claim, set aside, ASR inline or by job, analyze, sync, complete, fail; ASR poll; retry, stuck, stall and stranded sweeps | S3, ASR and LLM providers, enrichment lane, lead projection |
| Enrichment lane (`pipeline/enrich.ts`) | `enrichment_status`, `enrichment_attempts`, `next_enrichment_at`; queue `aura.enrich` | claim, read, write, settle and release the send, sweep | LLM provider, CRM outbox |
| CRM outbox (`pipeline/outbox.ts`, API `crm.controller.ts`) | `crm_sync_log` | enqueue and first try, drain tick, operator retry | CRM webhooks |
| Handset upload (`CallRecorderApp/.../upload`, `storage/RecordingDao.kt`) | `uploadState`, `remoteCallId`, the local file | pick, create, send parts, complete, clean up | API, S3 |
| Call admission (API `modules/calls`) | the `calls` row up to `UPLOADED`, the unique index on device and key | create, complete, reprocess, backlog rewind | pipeline queue, S3 |
| Export lane (`pipeline/export.ts`, `export-sweep.ts`, API `modules/exports`) | `export_jobs`; queue `aura.export` | claim under a cap, stream, package, cancel, delete, sweep | S3, notifications |
| Lead and CRM projection | `leads`, `contacts`, `deals`, routing rules | upsert by number, project, rotate owners | called inside phase C of a call and by intake |
| Reminders of a call (`pipeline/call-reminders.ts`, `booking-notifications-outbox.ts`) | `booking_notifications` | sweep and queue, drain, defer, send, back off, expire, stand down | the diary, WhatsApp, mail |
| Other messaging outboxes | `funnel_followups`; the attendance and nurture rows of `booking_notifications` | queue, send, back off, expire | WhatsApp, mail |
| Attendance, automation, outreach, SLA sweeps | intervals, event and notice rows | set-based sweeps | messaging |
| Invoices and payments (API `modules/invoices`, worker `document-dates.ts`) | `invoices`, `payments`, `audit_log` | webhooks of Razorpay and Stripe, payment link, edit and void, overdue sweep | gateways |
| Booking diary (`marketing/lib/funnel/slots.ts`, `reschedule/actions.ts`, API `modules/leads`) | `booking_slots`, the leads of the funnel, a Google calendar | book, move, mirror and record; reject, erase, cancel; retention sweep | Google Calendar |
| Lead intake and channel sync | cursors | webhooks and polls | third parties |
| Retention, tenancy and devices, provider adapters, Android capture, web console | see `PROJECT.json` | | |

`PROJECT.json` lists every component, the ones not modelled with the reason, and
the hazards of each at the line where they bite.

**What is hard, and what would make each component correct**

* *Pipeline.* Claims are conditional updates but failures, resets and job ids
  are written by id alone; the stall sweep cannot see whether a run is alive;
  `analyzeCall` claims nothing; messages are lost, repeated and late.  Correct:
  a call has one driver, retries within a budget, a settled call stays settled,
  a failed ASR is never papered over with an older transcript, every call settles.
* *Lane and outbox.* A send must wait for a verdict and every verdict must
  release one; the read costs money; the delivery is made inside an open
  transaction, so it survives a rollback of everything that recorded it.
  Correct: one reader, no send before a verdict, no verdict without a send,
  `synced` means the CRM took that request.
* *Upload.* Either side may give up on a request the other still works on.
  Correct: a recording is heard once, with its audio, and the phone forgets it
  only when the server has it.
* *Exports.* Two workers can hold one job after a stall, a person may cancel
  or delete at any point, the cap is counted in a snapshot.  Correct: a job
  runs within its budget and alone, what failed for good stays down, the row
  tells the truth about the file, a cancelled job stays cancelled, the cap holds.
  The code does not keep the last two (section 4).
* *Payments.* Two events and any number of redeliveries per payment, served at
  once with payments through other links, edits, voids and the overdue sweep.
  Correct: a payment is in the books once and never lost, an invoice is credited
  what it is owed and no more, its status says whether its money is in.
* *Diary.*  The row decides and Google is told after the commit; its answer is
  written by slot id however late, and an operator writes the slots it read by
  id, whoever holds them by then.  Correct: an hour is one person's, a failed move
  changes nothing, nobody ends a call but its own move or an operator who had that
  hour before them, a standing call stays in the calendar and the event id on a row
  never is of an event that is gone.  Of the meeting link the code does not keep as
  much (section 4).

* *Reminders.*  A row belongs to a slot while the call it is about may move, be turned down
  or be erased; the drain claims nothing, sends, and then writes by id.  Correct: a call
  that has a reminder has all of them that lie ahead, and nobody is told the same thing
  twice.

## 2. Modules

| Module | What it is |
|---|---|
| `CallPipeline` | the worker's handling of a call: one action per committed transaction or provider request |
| `CallLifecycle` | the abstract specification of one call: what an outsider is promised |
| `CallPipelineProofs` | the inductive invariant of `CallPipeline`, its invariants as theorems, and the refinement of `CallLifecycle` |
| `CrmOutbox` | `crm_sync_log`: enqueue, drain, deliver, operator retry |
| `EnrichmentLane` | the lane; EXTENDS `CrmOutbox`, whose `Enqueue` and `Commit` are steps of its `Release` and `Settle` |
| `EnrichmentLaneProofs` | the inductive invariant of the lane with its outbox |
| `HandsetUpload` | the upload worker of the phone composed with the two API handlers it calls |
| `RecordingDelivery` | the abstract specification of the upload: what the owner of the phone is promised |
| `HandsetUploadProofs` | the inductive invariant of the upload, its invariants, and the refinement of `RecordingDelivery` |
| `ExportLane` | the export consumer, its sweep and the person who cancels or deletes |
| `ExportLaneProofs` | the inductive invariant behind the retry budget, the single run, the file of an export and its sweep |
| `InvoicePayments` | one invoice, its payment links, the webhook transactions that credit it, the person and the sweep that change it |
| `InvoiceLedger` | the abstract specification of an invoice: payments entered one at a time |
| `InvoicePaymentsProofs` | the inductive invariant of `InvoicePayments`, its invariants, and the refinement of `InvoiceLedger` |
| `FiniteSums` | what `SumFunction` of the community modules computes over a finite set, proved without induction |
| `CallDiary` | the diary: visitors' requests, operators' requests, the calendar |
| `DiaryLedger` | the abstract specification of the diary: booking, moving and clearing in one step each |
| `CallDiaryProofs` | the inductive invariant of `CallDiary`, its properties, and the refinement of `DiaryLedger` |
| `CallReminders` | the reminder rows of the slots: the sweep, the drain, and what the diary does underneath |
| `CallRemindersProofs` | the inductive invariant of `CallReminders` and its properties |
| `MC*` | instances for TLC; they add only symmetry sets |

### CallPipeline and the code

`status`, `attempts`, `retryAt` and `job` are the columns; `retryAt` is whether
`next_attempt_at` is set, because the model has no clock: a retry that is set
may be due at once, a status may be old enough for any sweep at once.  That
allows every timing, the code's included.  `pc`, `cur`, `msg` and `held` are the
local state of a handler in a consumer slot; a slot is one unit of prefetch of
one process, so two slots are two handlers of one worker or of two.

* `ClaimCall`, `SetAside`, `SkipCall`, `Clean`, `StartAsr`, `SkipAsr`,
  `TranscribeInline`, `SubmitJob`, `RecordJob`, `FailStage` are `processCall`
  in its order; `RecordJob` and `FailRow` write by id alone, as the code does.
* `hearing` is a history variable: what ASR came to in the run that last claimed the call.  A run
  that finds the recording under the floor (`SkipAsr`) hears nothing and deletes nothing.
* `AnalyzeCall`, `SkipAnalyze` are `analyzeCall`; `StartAnalyze`, `Analyze`,
  `StartSync`, `Complete`, `Reset` are `runPostAsrStages`.  `Complete` ignores
  whether its update matched, `Reset` is unconditional.
* `Select`, `LetGo`, `Collect`, `JobFailed`, `HandOff` are `pollAsrJobs`: the
  provider is asked with no transaction open, so the row may have moved.
* `RetryDue`, `RequeueStuck`, `FailStalled`, `FailStranded` are the sweeps of
  `retry.ts`, `Reprocess` is `rewindForReprocess` (`reprocess.ts`).
* `BeginComplete`, `StoreAudio`, `ConfirmUpload`, `AbandonUpload` are the part of
  `POST /calls/:id/complete` that feeds the pipeline.
* `Crash`, `Throw`, `Disconnect` are what RabbitMQ and the process make of a
  handler: redelivered, dead-lettered, or redelivered while it still runs.  `Wake`
  may lose its message: `sendToQueue` is not confirmed.

**Contested calls.**  `contested` is a history variable: the calls that two runs,
or a run and the stall sweep, have ever driven at the same time.  A redelivered
`analyze` message or a run that outlives `STALLED_MS` makes one.  So does an `analyze`
wake-up that waits an hour behind others, with no fault at all: the poller has moved
the row on, `FailStalled` (`retry.ts:179`) takes the call for dead, its retry starts a
run, and the late message starts another.  The code does
not protect those (finding `pipeline_replay`), and promises about them would
be false, so the invariants and the refinement are claimed of uncontested calls
and `CallLifecycle` has a step, `Dispute`, that suspends the promise for one call
and touches no other.  One thing still holds of contested calls and is
claimed of all, `RetryHasBudget`, and settling is not:
with `MaxAttempts` of three or more, a stall sweep and a later retry put two
`analyze` messages behind one call, and the unconditional reset of one run zeroes
the attempts that the other's failures count, so the call can fail and retry
without end although `retry.ts:213-214` says "a call that strands repeatedly
retires to a human instead of looping forever".

### CrmOutbox and EnrichmentLane

A delivery is an HTTP request inside an open transaction.  `write[t]` is what
transaction `t` has written and holds locked, `outbox` the committed rows, and
`accepted` what the CRM has taken in: that is never rolled back, while
`AbortTick` and `SettleLost` roll back the record of it.  `Drains` are ticks that may be
open at once, because the drain's `setInterval` has no guard.  `Claim` is
`CLAIM_SQL`; `Release` is `settle` up to the answer of the send, `Settle` its commit;
`SettleLost` is the database error `settle` swallows, whose transaction's COMMIT is a
rollback.  `HandOver` and `Rerun` stand for the pipeline: a call completes, a person
reprocesses it.

### HandsetUpload

One unique work chain on the phone, so one `phase`.  A request takes a slot of the
API; the phone may give up (`UploadFails`, `Killed`) while the handler goes
on, and an answer reaches it only if it still waits on that `line`.  `Lookup` and
`Insert` are separate because the read and the insert are; `Live` is the partial
unique index of migration 0113.  `RECEIVED` stands for every status from `UPLOADED`
on, which `CallPipeline` refines.

`RecordingDelivery` has no rows, keys or requests: per recording, the calls made of it
(`heard`), whether its audio is in S3, whether an upload of it was declared dead, and
where it stands on the phone.  `Hear` is the one step in which a call is made, `Acknowledge`
tells the phone of something that is there or was declared dead, `Discard` needs a
file that somebody else removed.  `Confirm` maps to `Hear` (with the acknowledgement when the
phone still waits), a `Check` that finds the call done to `Acknowledge`,
`FailStranded` to `Bury`, `Rewind` to `Hear` without audio; every other step of a request is a
stutter.

### ExportLane

The jobs of one org; the worker's writes go through the admin pool, outside the
transaction the pages are read in, so each is an action.  `Snapshot` and `Claim`
are the two moments of the claiming UPDATE under READ COMMITTED: the statement's
snapshot decides the count, the row lock looks again at the row's own columns
only.  `at[w]` is the next step of the run in slot `w`; `Stop`, `NextPage`, `LastPage` are
the look at the status after a page, which an empty page skips, as the code does.
`Refused` is the check constraint that a row without a start has no rows and no
bytes: it hits a run from before a requeue and ends in `FailRun`.  `GiveUp` is
`PermanentExportError`, charged the whole budget.  `FailStalled`, `Retry`, `Republish`
are `sweepExports`; `started` is there because a NULL `started_at` is never old.
`person` is a DELETE being served: it read the row and will write by id.
`contested` are the jobs the sweep took from a live run, as in `CallPipeline`.  Two
bounds are sets of jobs: `Overrun`, those whose live runs the sweep may find older than the
stall threshold, and `Asked`, those a person may cancel or delete.

### InvoicePayments and the code

`applyGatewayPayment` runs in one READ COMMITTED transaction, so its statements
are separate actions and what they wrote is `row[h]` and `credit[h]` until `Commit`.
`ClaimLink` is the conditional UPDATE of the link's row, `InsertOwn` and
`Duplicate` the INSERT with ON CONFLICT, `LockInvoice` the SELECT FOR UPDATE whose
result is the credit (`Decide`), `LeaveInvoice` the two cases in which nothing is
credited.  `Commit` has the UPDATE of the invoice, which its own lock makes
invisible until then, the audit entry, the commit and the answer.

Locks are not variables: a transaction's position says which it holds.  `Holds` is
FOR UPDATE on the invoice, `Shares` the KEY SHARE an inserted payment takes through
its foreign key, `LinkLocked` and `IdLocked` the wait for an uncommitted link row or
index entry.  Two inserted rows that share the invoice and both want it are a
deadlock (`BreakDeadlock`): Postgres kills one, and the gateway delivers again
because it was not answered 200.

`Capture` and `owed` are the gateway: it delivers each captured payment until a 200
reaches it, and `Deliver` may serve one payment in two requests at once, since
Razorpay has two events per payment.  `Die` is a crash or a failed statement.
`AskLink`, `GrantLink`, `DropLink` are `createLink`, which reads the invoice without a
lock.  The PATCH is two steps and `edit` what it will write: `BeginUpdate` waits until nobody
holds or shares the invoice, locks it and decides from that row and from the payments
committed by then; `CommitUpdate` writes, `AbandonUpdate` rolls back.  In between it is one more
holder of the lock (`Editing`), and what needs no lock on the invoice goes on: a capture in
another currency that claims its link's row.  `FallDue` is the overdue UPDATE.

`InvoiceLedger` therefore voids in two steps too.  `AllowVoid` needs empty books; until
`EndVoid` only a payment in a foreign currency, which would not be credited anyway, is entered.

The unit is one invoice: invoices share no row.  Money is in whole units; the
rounding of `excess` to cents is left out.

### CallDiary and the code

`status`, `who`, `event` and `link` are the committed rows of `booking_slots`
(`calendar_event_id` for `event`; `link` names the event whose link is in `meeting_url`, and
`Linked` the calls for whose event Google makes one); `owner` and `home` say for whom and for which hour a
call was booked, and a call's id serves as its event's.  Rows are read committed and
every conditional UPDATE is one statement, so the only transaction seen from outside
before its end is a move: `Release` takes the row of the old hour, `Locked` is whoever
wants that row meanwhile, and `Claim` evaluates the new hour's committed status and
commits both, so two moves that swap hours refuse each other and never wait.
`Refuse` is `SlotUnavailable`, whose throw rolls the release back; it may come though the
hour is open, because it slipped inside the notice window, the busy sweep marked it or
the transaction was killed.

* `Book` is `bookSlot`, `Release`, `Claim`, `Refuse` are `rescheduleSlot`.  Neither sets
  `calendar_event_id` of the row it claims.  The release clears it first, so its `RETURNING`
  yields NULL and `Claim` leaves the request nothing to cancel.
* `Check` (the lead is read, then freeBusy), `Insert` and `Record` are
  `syncBookingToCalendar` and `syncMove`, which take the same steps.  `Known`: an event id is made of the lead
  and the hour, and Google refuses an id it has seen.  `MirrorFails` has the insert
  that took place although its answer was lost.
* `OpenReject`, `OpenRemove`, `OpenCancel` are what an operator's request reads,
  `CommitLead`, `CommitCancel` what it writes, `DeleteEvents` the calls to
  Google after the commit.  `Rejecting` is the lead's row, which a rejection updates
  first.  Erasing a lead blanks the rows that name it (ON DELETE SET NULL), so `Erasable` waits for a
  move of any of them.  `Vacate` clears the event id and not the link, which `Claim` clears;
  `Forget` is the retention sweep, which reads no slot.

In `DiaryLedger` `doomed` is what operators have read and not written: the abstract
diary lets a call be ended by someone else only from there.

### CallReminders and the code

`row` is `booking_notifications`, one row per slot and stage.  There is no clock but
`clock`, the number of a slot's stages that have passed: what decides is the order of
the stages and the call, not the minutes between.  A row that was put off
(`backoffSeconds`, quiet hours) may be due at once or not yet.

* `Sweep` is the select of `sweepCallReminders`, `Schedule` one insert, `ScheduleFails` its
  catch: the sweep works through the list it read whatever becomes of the slots.
* `Tick` is the expiry and the select of `drainBookingNotifications`; `Defer`, `TooLate`, `Send`
  are its loop, `Record` the UPDATE by id.  Between `Tick` and `Record` nothing is locked.
  Expiry is two days after a row's instant by default and one at least, so only ever of a call
  that has begun (`Overdue`).
* `Occupy`, `Vacate`, `Remove`, `Reject`, `Forget`, `Cancel`, `Halt` are what `CallDiary`
  has in full, reduced to a slot and its reminders: a rejection stands them down in its
  transaction, a cancellation in a statement after it (`Halt`, `HaltFails`), a move, an erasure and
  the retention sweep not at all.  As in `CallDiary` a rejection or an erasure may
  come when the slot has changed hands.  The status test of the loop (lines 284-292) has no
  action: every slot that is not booked has no lead, so the join has dropped its rows before.

Two history variables say where less is promised.  `spoiled` are the slots of which reminders were
stood down, or whose sweep failed half way; `doubtful` the rows that two ticks held at
once, whose answer was lost, or whose tick died between the send and the record.

## 3. Runs

| Run | Instance | Asks |
|---|---|---|
| `pipeline_main` | 1 call, 2 slots, 1 poller, 2 attempts, 1 fault, 1 reprocess, runs may overrun | `TypeOK`, `RunOwnsStage`, `OneDriver`, `RetryHasBudget`, `FailureAccounted`, `HeardOrSkipped`, `SettledIsFinal`; that the pipeline implements `CallLifecycle`; that every call with its audio in settles |
| `pipeline_replay` | no reprocess | refutes "the status check is what makes a redelivery harmless" |
| `lane_main` | 1 call, a consumer, a sweep, 2 drain ticks, 1 operator's act, 1 fault | `OneReader`, `SendWaits`, `VerdictReleases`, `SyncedWasAccepted`; a verdict for every finished call, an end for every queued send |
| `lane_stranded` | 1 drain | refutes "a worker killed mid-enrichment is recovered" |
| `lane_twice` | no fault at all | refutes "queues one send, not two" |
| `handset_main` | 2 recordings, 4 rows, 2 slots, 1 fault, 1 rewind | `ReceivedHasAudio`, `AckIsForThis`, `LeavesTheQueue`, and that the upload implements `RecordingDelivery`, hence hears a recording once |
| `handset_lost` | 1 recording, 2 faults | refutes "delete the local file only after the server confirms" |
| `export_main` | 2 jobs, cap 1, 2 slots, budget 2; runs of the one may overrun, a person may cancel or delete the other; 1 fault or request | `RunsWithinBudget`, `GivenUpStaysDown`, `OneRun`, `FileMatchesRow`, and that every export ends, the one that waits for the other's place included |
| `export_cap` | 2 jobs, cap 1, runs of both may overrun, no fault, no person | refutes "two workers cannot both read '2 running'" |
| `payments_main` | 3 payments, one in a foreign currency, 2 links, 2 gateways, 2 webhooks at once, an edit in two steps, 1 fault | `MoneyAccounted`, `NothingForgotten`, `StatusTellsMoney`, `WaitsEnd`, and that the invoice implements `InvoiceLedger`, in which a closed invoice stays closed |
| `diary_main` | 2 hours, 2 leads, 3 calls, 2 visitors' requests, 1 operator, 1 fault | `RecordedIsReal`, `StandingStays`, and that the diary implements `DiaryLedger` |
| `reminders_main` | 1 slot, 2 stages, the first deferrable, 1 sweep, 2 drain ticks, 2 attempts, 1 fault | `Covered`, `SentOnce` |

**Bounds.**  Calls do not share a row, and the queues are counted per call, so one
call shows every interaction inside a call; the theorems cover any number.  Two
slots are enough for a second run to overtake the first.  Two job ids let an old one be
held or polled while a new one is outstanding.  `MaxAttempts = 2` has both a failure that retries and
one that does not.  `MaxWakeups` caps copies of one message waiting at one time, not
how many are sent.  `MaxFaults` counts crashes, lost messages and dropped
channels together; one is enough for each single failure at every point, and
overruns and reprocesses come on top of it.  `MaxIssued = 2` and `MaxClaims = 3` let a call be
read and sent once more than it should; `MaxActs = 1` is an operator's retry of a delivery or a
reprocess, one of the two in a run.  Two jobs of an org meet only in the cap, so `export_main` has a cap of one:
each job waits while the other is active, is refused and loses its wake-up, and goes on when the
other ends, is failed or is swept; a job that no sweep selects is seen to keep the other out.
One of the two may be swept alive and the other
be cancelled or deleted, each at every point and beside everything the first does; one that is
both is left to the theorems.  The faults' bound of 1 is shared with the person's
requests, so a request and a crash do not meet in the run.  `Budget` stands
for the literal 3 of the code, and 2 already has a stall that is retried and one that
is not.  In `payments_main` the third payment
is what a claimed link and a credited invoice still meet; captures of 2 and 4 against
totals of 0 and 3 have a partial payment, a completing one, one in excess and an
invoice with nothing to pay.  In `diary_main` three calls let one person book and move
and another take the freed hour while an operator still holds the list it read;
with two hours a move and its reverse meet.  Google makes a link for every event of the run.  Two operators
at once are out of the run's reach (the theorems cover any number); the retention sweep is there as a
second one who erases.  In `reminders_main` two stages are what a sweep can die between, and slots share
nothing but the hundred rows of a batch, which `Tick` takes as any subset; a second sweep is left to the
theorems.  Symmetry over slots, pollers, job ids, webhooks, links, drain ticks of reminders and everything in
the diary is used where no liveness is checked, and no action tells them apart.

**Deadlock** is not checked: every model has states in which nothing is left to
do (all calls settled and every bound used up), which is what the programs do too.
Where transactions wait for each other's rows and hold rows meanwhile, in `InvoicePayments`, `WaitsEnd` says what
a deadlock check would.

**Fairness.**  `main.ts` starts every consumer and every sweep and none of the timers
is conditional, so a sweep that stays enabled acts (`WF`).  A queue is FIFO and slots
keep freeing up, so a waiting message is eventually taken (`SF` on taking it: the
slots may be busy in between).  A handler runs to its end or dies.  The sweeps take
the oldest rows first, so a row that stays due is reached.  `RequeueStuck` repeats
a wake-up for ever, so it is assumed that one gets through.  On the phone
`UploadScheduler` enqueues work with APPEND_OR_REPLACE for every call and WorkManager retries
it.  A table being exported has a last page, because the cursor only moves forward (`SF` on
`LastPage`).  Uploads, operators and faults owe nothing.  `InvoicePayments` assumes no fairness: a
deadlock can recur as long as the gateway's redeliveries meet, so that a payment is in
the end entered is not claimed; `NothingForgotten` says that it stays owed.  `CallDiary`
assumes none either: its calendar is told once and never again.  Nor does `CallReminders`: a
reminder that comes due may still be put off until it is too late.

## 4. What the runs found

Each is a `violation` run: TLC's trace is the evidence.

1. `pipeline_replay`: a redelivered `analyze` message starts a second run of a
   call that is still being analysed (`pipeline.ts:755` reads and claims nothing), and the slower
   run's `fail()` (by id alone) turns a COMPLETE call into FAILED_ANALYZE.
2. `lane_stranded`: a call whose reader died stays `running` for ever: the claim
   and the sweep (`enrich.ts:61`, `446`) take `pending` and `failed` only.  Its CRM send
   is never released.  That is so whatever the constants (`StrandedForGood`), and it
   takes a fault (`StrandingTakesFault`).
3. `lane_twice`: a terminal failure has `next_enrichment_at` NULL, which is what the sweep
   selects (`enrich.ts:447`).  It is read, paid for and delivered again at every sweep,
   under a new request id.  Within its attempts a call is sent once (`OneSendWithinBudget`).
4. `handset_lost`: the stranded-upload sweep runs between a retry's create and
   its complete; the complete is acknowledged (`calls.controller.ts:366`), the phone deletes the file, and
   the audio was never assembled.
5. `export_cap`: two claims of two exports of one org count before either commits,
   and both start; the comment on the claim (`export.ts:112-115`) says they cannot.  The
   limit is passed by less than one job per slot of the workers (`CapIsNearlyKept`).

Observations about exports that are not separate runs, each a trace of `ExportLane`:

* The packaging UPDATE (`export.ts:304`) comes after the last look at the status and
  tests nothing.  A cancel in between is overwritten and the export ends ready,
  although `exports.controller.ts:446` says the worker "checks the status between
  pages and stops"; if its worker dies while packaging, the sweep retries the
  cancelled export.
* A run from before a requeue has its write refused by
  `export_jobs_progress_needs_a_start`; its failure carries the constraint's
  message instead of `stalled:`, so the retry the sweep had scheduled is lost.  The job
  ends failed, which is why `ExportEnds` still holds.
* If that run's export is empty its packaging write is not refused.  Should the
  run die there, the row is packaging with no `started_at`: no sweep selects it and
  it holds a place under the cap, for ever.  `ExportEnds` says that all exports end unless
  there is such a row (`Unswept`) of a contested job; no other job gets into that state
  (`UnsweptAreContested`).
* Objects of a run that fails after its upload, or is cancelled there, are not
  deleted.  Migration 0148 names a purge sweep for `expires_at` that no file contains.

About payments: `createLink` refuses a second gateway's link because "two live links
for one invoice means the customer can pay twice" (`payments.controller.ts:86-88`), but it
reads the invoice without a lock and a second link of the same gateway is not
refused.  Several live links are ordinary states of `InvoicePayments`; what they bring in is
recorded and announced as excess.

The PATCH says of its lock that "the status and money checks below must still hold when the
UPDATE runs" (`invoices.controller.ts:337-338`) and refuses a void with "money has been
received against this invoice - it cannot be voided".  The lock keeps the row, not the count of its
payments: a capture in another currency takes no lock on the invoice
(`apply-gateway-payment.ts:97-103`), so it may commit between the count (363-370) and the
UPDATE, and the invoice is void with a paid payment in its books.  It is never credited, and nothing else
gets in (`Enter` of `InvoiceLedger`, `StatusTellsMoney`).

About the pipeline: a reprocess under a duration floor that was raised meanwhile skips ASR
(`pipeline.ts:974-983`), and `runPostAsrStages` then reads the transcript of an earlier run
(413-419) and analyses it, although the log line says "skipping ASR + analyze".
`HeardOrSkipped` allows it: it forbids resuming from an older transcript after an ASR that
failed, which is what the comment in `retry.ts` (34-39) promises.

About the diary, each a trace of `CallDiary`:

* The event of a moved call is never cancelled.  `rescheduleSlot` returns "the event to
  cancel in Google, if the old booking had one" (`slots.ts:189`) from an UPDATE that has
  just set the column to NULL, which is always NULL; `leads.controller.ts:339-342`
  describes this very trap.  The path needs no fault: book, check, insert, record,
  release, claim.  The event stays over the freed hour, so freeBusy refuses the next
  holder's event, and the busy sweep takes the hour out of the picker.
* `leads.controller.ts:342-343` says of its SELECT and UPDATE "both statements are inside
  this transaction, so nothing can slip between them".  Under READ COMMITTED a move can: the
  rejection then frees an hour someone else has booked meanwhile, or reopens one that
  was cancelled, and the rejected lead keeps the new call.  `DiaryLedger` has this
  power of operators in `Clear`, and nothing wider.
* `Book` keeps the `calendar_event_id` of the row, and an outcome recorded late can put an earlier
  call's event on it.  The new holder's row is then not found by migration 0027's
  `calendar_event_id IS NULL`, and its meeting link is the other person's.
* A booking between the SELECT of an erasure and its DELETE, or the retention sweep,
  leaves a slot booked with nobody in it.  Cancelling a slot does not delete its event.
* The writes of a rejection, an erasure and a cancellation clear `calendar_event_id` and leave
  `meeting_url` (`leads.controller.ts:364-371`, `511-513`, `slots.controller.ts:595-602`), which
  a move clears (`slots.ts:247`).  The link of the deleted event survives the next booking of
  the hour until an outcome is recorded; if none is (the process dies), the drain sends it
  (`booking-notifications-outbox.ts:228`, `313`).  `RecordedIsReal` speaks of the link only
  beside an event id.
* The same person booking an hour again is refused by Google: the event id is the same.

About the reminders, each a trace of `CallReminders`:

* `main.ts:156-157` promises "a fresh set of reminders" for each booking, but rows are keyed
  by the slot, and `NOT EXISTS` (`call-reminders.ts:89-93`) asks for rows in any state.  A
  rejection frees the hour for someone else and leaves its reminders dead: whoever books it then
  gets none.  The same holds of an hour that is cancelled and reopened by an operator's stale
  write.
* A sweep that dies, or an insert that fails, between two stages loses the later ones: the
  slot has a reminder, so it is not selected again.
* `cancelBookingNotifications`, "called when a slot is released - a rejection, or a
  reschedule" (`booking-notifications-outbox.ts:123`), has no caller.  After a move the rows stay:
  while nobody holds the hour the join drops them, and who books it next is sent them, which is
  right (`Covered` rests on it).
* A tick holds what it read while it sends; an overlapping tick, or a row stood down meanwhile,
  is written over (`Record`), so a rejected call's row may end `sent` or `pending`.

Two more observations are not separate runs.  `ReceivedHasAudio` exempts rows a
person rewound: `rewindForReprocess` accepts FAILED_UPLOAD, so migration 0113's
claim (lines 15-18) that such a status implies audio is false after it.
`LaneConcludes` exempts stranded calls, which are finding 2.

## 5. Proofs

`CallPipelineProofs` proves, for any sets of calls, slots, pollers and job ids, any
bounds and `Overrun` either way, from `PipelineAssumption` alone:

| Theorem | States |
|---|---|
| `TypeCorrect`, `RetriesHaveBudget`, `RunsOwnTheirStage`, `OnlyOneDriver`, `FailuresAccounted`, `AnalysedWasHeardOrSkipped` | the invariants of `pipeline_main` |
| `SettledStays` | its action property |
| `PipelineImplementsLifecycle` | `Spec => Lifecycle!Spec` |

None of the invariants is inductive alone.  `IInv` is `TypeOK`, `Attached` (a busy slot
is on a call, a poller at work remembers its row and job), `RetryHasBudget`, and for
every uncontested call `Owned`:

* `OneRun`, a call has at most one run.  Without it no stage follows from a `pc`.
* `InStage`, that run is in the stage the row says.  Kept because only the run
  itself moves the row while it is alone: the claims of everybody else are
  conditional on statuses it is not in, or contest the call.
* `JobAlone`, an outstanding job means TRANSCRIBING and no run.  Without it the poller's
  claim could move the row under a run.
* `Accounted`, outside a failed stage the counter is below the budget; in one,
  a retry is scheduled exactly if there is budget left.
* `HeardNow`, what carries "the run that claimed it has heard or skipped it" from the ASR step to the row.
* `ResetIdle`, a final reset that finds its call already rewound finds nothing to reset.

`contested` only grows, so each step lemma looks at calls that are uncontested
after the step.  Each conjunct has a lemma with one step per action
(`OneRunStep`, `InStageStep`, ...); `StepIInv` joins them.  For the refinement every action is
first summarised by what it does to the one call it touches (`StepTouches`),
then each summary is matched with an action of `CallLifecycle` or a stutter
(`MovesAreLifecycle`).

`ExportLaneProofs` proves, from `ExportAssumption` alone, `TypeCorrect`, `BudgetIsKept`,
`GivenUpIsFinal`, `RunsAlone` and `FilesAreThere`: the invariants of `export_main`, for
any number of jobs and slots.  Two more theorems bound what those and `ExportEnds`
exempt: `UnsweptAreContested`, a job no sweep would select was taken from a live run, and
`InTimeNoneIsContested`, only a job whose own runs outlast the threshold ever is.  `IInv` is `TypeOK`, `Attached` (a busy slot is on a
job) and, per job:

* `Paid`: the claims made are covered by what `retry_count` has counted.  A bound on
  claims is not inductive, since any slow run may write to the row by id; what
  nobody can do is return it to the queue without a stall having been counted,
  because only the sweep writes `stalled:` and it counts in the same statement.
* `Spent`: a job given up was charged the whole budget and no write lowers
  `retry_count`, so `RetryPending` is false for ever.
* `Filed`: a job whose file is on offer, withdrawn or being withdrawn (`Past`) is behind
  its run and gets no other, since nothing marks it for a retry; a run about to
  publish has put the object.  So no upload follows a deletion.
* `Alone`: the sweep marks a row for a retry only if nobody runs it, or contests the
  job, so a queued, uncontested job has no run to write over the next one.
* `Begun`: an uncontested job that is active, or has a run, has its `started_at`, which is
  what the sweep asks for.  Only a requeue clears it, and by `Alone` nobody runs the job then.

`CapIsNearlyKept` counts the jobs that are active or in the hands of a slot (`Placed`).  A row
becomes active by the hand of a slot, so no step but a snapshot that finds a place adds a job to
`Placed`; that snapshot starts from fewer than `Cap` active jobs, and `Placed` is then these and at most one
job per slot (`SnapshotCounts`).  Hence `ExportAssumption` has `Workers` finite: prefetch
times processes.  `Placed` is needed because a job that is swept from a live run, or claimed
from an old snapshot, becomes active again later.

`InvoicePaymentsProofs` proves, for any sets of payments, links, gateways, requests, any
amounts and totals, from `PaymentsAssumption` alone:

| Theorem | States |
|---|---|
| `TypeCorrect`, `NoPaymentForgotten`, `StatusIsEarned` | `TypeOK`, `NothingForgotten`, `StatusTellsMoney` |
| `PaymentsEnteredOnce` | `EnteredOnce`: one audit entry per payment in the books |
| `ClosedInvoiceStays` | `ClosedStaysClosed`, which the ledger promises too |
| `OneDeadlockOnly` | `WaitsEnd` |
| `MoneyIsAccounted` | `MoneyAccounted`: besides, the credits in the audit entries add up to `amount_paid` |
| `ImplementsTheLedger` | `Spec => Ledger!LSpec` |

`IInv` adds to those what the locks buy: a transaction past its claim is on a captured
payment, two transactions never hold one link or one id, a decided credit is the
lesser of the capture and what is still due, and while one is decided nobody else holds or shares
the invoice, hence `total` and `amountPaid` are those it was decided from.  Then every
action but `Commit` leaves the committed ledger alone or is `Capture` or an amendment,
and `Commit` is `Enter`.  `Locks` and `Edits` do the same for a PATCH: while one is open nobody holds or shares the
invoice, so the row it was decided from is the row it amends, and a void was decided with
nothing paid; that the books are still empty is not claimed, since it need not be so.

`WaitsEnd` is deadlock freedom said of states, since `ENABLED` is out of the prover's reach:
`Waits(h)` negates the guards of the steps a busy hook has, `BreakDeadlock` apart.  The
proof follows the order of the waits, links and ids before the invoice: who is waited for
has written its row (`HookShape`), who has its row waits at most for the invoice
(`ClaimedGoOrCross`), who holds the invoice for nothing and who shares it only for the
others that share it (`SharersGoOrCross`).

`MoneyIsAccounted` follows a sum: only `Commit` changes a credit, of one payment, whose entry was
blank before, and it moves `amountPaid` by as much (`CommitBalances`).  That a sum over a
finite set then moves by as much is `SumAfterChange` of `FiniteSums`.  `SumFunction` is
a recursive function that takes its addends in the order `CHOOSE` gives, so this needs that the
function exists (`SumsRecur`) and that any addend may be taken first (`SumsTakeAny`).  Both are
inductions; they are carried out as arguments about a least counterexample, since proper
inclusion is well founded on the subsets of a finite set and the library's `WFMin` says so
without an operator for a parameter.  This is why `PaymentsAssumption` has `Payments` finite, as
every set of captures a gateway has made is.

`EnrichmentLaneProofs` proves, for any sets of calls, lanes, drain ticks and sends and any
bounds, `TypeCorrect`, `OnlyOneReader`, `SendsWait`, `VerdictsRelease` and `SyncedIsAccepted`, the
invariants of `lane_main`.  `IInv` is `TypeOK` and

* `Vouched`, which the outbox keeps by itself, whoever enqueues: what is synced, is written as
  synced in an open transaction or is in a tick's hands carries a request id the CRM took in.
  A tick commits rows it wrote long before, so `SyncedWasAccepted` alone is not inductive.
* `LaneInv`: `Attached`, `OneReader` and `VerdictReleases`, with `Verdicts` (a lane about to commit has
  its send written) and `Waiting` (a call that may still get its first summary has left
  no trace in the outbox, committed or not: `Untouched`).

Three more theorems say what is left of the promises findings 2 and 3 break:

* `OneSendWithinBudget`.  A second request id takes a second verdict, and after a verdict only a claim
  beyond the last attempt leads to one.  `Issues` counts that: the ids made for a call are at most one
  more than its claims beyond `MaxEnrichAttempts`, none before a verdict, and a lane that has
  not released yet is one claim ahead of them.  `Named` carries it to the CRM: what the table, a
  transaction, a tick or the CRM has of a call is an id that was made for it.  Crashes do
  not enter: a lane that dies leaves the call running, and nobody claims it again.
* `StrandingTakesFault`: a call leaves a lane by a verdict or a planned retry, both of which
  change its row, or by a fault.
* `StrandedForGood`: a claim needs `pending` or `failed`, and the other writers of the column
  are lanes on the call.  `enrich.ts` has every statement that writes it.

`HandsetUploadProofs` proves `TypeCorrect`, `ReceivedIsComplete` and `AcksAreForThis`, the
invariants of `handset_main`, and `RecordingsAreHeardOnce`, `LossesAreDeclared` and
`ImplementsTheDelivery` (`Spec => ImplementsDelivery`), from `UploadAssumption`.  `IInv` adds to
the invariants:

* `OneLive`: what the partial unique index keeps, one live row per recording.
  `HeardOnce` speaks of received rows only and is not inductive, because a pending row becomes one.
* `Serving` and `Working`: each request served by the API, and each phase of the worker, is on a row of
  its own recording, and the worker waits only for an answer to the request it made.
  Without it an abandoned request could acknowledge another recording.
* `Rowed`: a row has a key as soon as it has a status, an unused row has no audio, and a row a person
  revived stays received.
* `Kept`: the app deletes only what it marked as uploaded, so with `AckIsForThis` a deleted file has
  its call.  `LossesAreDeclared` is what remains true of the comment `handset_lost` refutes.

For the refinement each action is matched with what it does to the one recording it touches
(`HandsetRefines`, `InsertRefines`, `ConfirmRefines`, ...).  The lemma that carries it is
`RowTells`: the status of a row says whether its recording has been heard
or given up.  `OneLive` makes `Confirm` and `Rewind` the first hearing and `FailStranded` the burial
of something unheard; `Serving` gives `Confirm` its audio, and `AckIsForThis` and `Working` make every
other answer an `Acknowledge`.

`CallDiaryProofs` proves, for any sets and any number of faults, `TypeCorrect`,
`RowsPointAtEvents`, `StandingCallsStay` and `ImplementsTheDiary` (`Spec => Ledger!DSpec`).  `IInv` follows one
event from hand to hand:

* `Placed`, `Booked`: a booked slot is held by a call booked for it.
* `Moving`: a move holds a row that stays booked, alone; so the release can be rolled back.
* `Mirroring`: one request mirrors a call, and records the event of that call on the row of its own hour.
* `Recorded`: an event is on one row at most, beside no other event's link, and only after the request that
  created it is done, so nobody deletes an event that is still to be recorded.
* `Reading`: what an operator will delete lies in an hour that operator clears, and after the
  commit it is on no row and its call does not stand.

`CallRemindersProofs` proves, for any numbers of slots, stages, sweeps, ticks and attempts and from
`RemindersAssumption` alone, `RemindersType`, `CallsAreCovered` and `RemindersSentOnce`, the invariants of
`reminders_main`.  `Inv` adds to them

* `Budgeted`: a row that waits, or will, has an attempt left.  Without it what a tick reads has no type.
* `HeldIsDue` and `NotEarly`: a tick holds only rows whose instant has passed, so its stale
  writes and the expiry cannot end a stage that lies ahead.
* `WholeAgenda` and `Full`: a sweep that has one stage of a slot left has every other that lies ahead and is not
  queued; so the first insert of a slot, after which nobody selects it again, finds the
  rest on its way.  `Full` is `Covered` whoever holds the slot, which is why a change of hands cannot
  break it.
* `OneHolder` and `TakenIsOver`: out of doubt a row is in one tick, either still to be tried or sent and
  to be recorded; and what the provider took is over, or on its way to be recorded as sent.

Only model-checked: the liveness properties.  Every invariant, action property and refinement a passing
run checks is a theorem.  Nothing is proved about what a call's text contains.

## 6. Not modelled, and the plan

Left out of the models: the content of transcripts, analyses and payloads, which
provider answers how, tenancy (every query is inside one org), authentication,
logging and announcements, and every clock except through "may be due".

Next, in this order:

1. `CrmOutbox` on its own: several integrations and orgs in a tick, the rate share
   (`outbox.ts:177`), the integration row as a second lock, repeated deliveries,
   disconnect.  Abstract specification: a send is delivered at least once or visibly dead.
2. Lead projection: dedupe of one number by two calls, routing rotation under a
   savepoint, the swallowed error of phase C; it composes with `CallPipeline` at `Complete`.
3. The rest of the messaging outboxes: follow-ups, whose key is the person, and the attendance and nurture
   rows, whose guard is a conversion.  A run that refutes "a fresh set of reminders".
4. The poller with a row whose write always fails, and the backlog rewind pressed
   twice.
