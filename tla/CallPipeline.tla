---------------------------- MODULE CallPipeline ----------------------------
(***************************************************************************)
(* The life of a recorded call in the worker: calls.status and the columns *)
(* that travel with it, the two queues that wake the worker, the runs that *)
(* drive a call stage by stage, the batch-ASR poller, and the sweeps that  *)
(* recover what a crash or a lost message left behind.                     *)
(*                                                                         *)
(* Each action is one committed transaction (or one provider request) of   *)
(* the code, so two runs may interleave wherever the code holds no lock.   *)
(* Clocks are abstract: a retry that is set may be due, a status that has  *)
(* not moved may be old enough for a sweep.  That allows every timing.     *)
(***************************************************************************)
EXTENDS Naturals

CONSTANTS Calls,        \* the calls
          Workers,      \* slots of the consumers: prefetch x processes
          Pollers,      \* one batch-ASR poller per worker process
          JobIds,       \* job ids the ASR provider hands out
          NoCall, NoJob,
          Overrun,      \* may a live run outlast STALLED_MS in one stage?
          MaxAttempts,  \* MAX_PIPELINE_ATTEMPTS
          MaxWakeups,   \* bound: waiting copies of one wake-up (surplus is dropped)
          MaxReprocess, \* bound: times an operator rewinds one call
          MaxFaults     \* bound: crashes, lost messages, dropped connections

ASSUME PipelineAssumption ==
  /\ NoCall \notin Calls
  /\ NoJob \notin JobIds
  /\ Overrun \in BOOLEAN
  /\ MaxAttempts \in Nat \ {0}
  /\ MaxWakeups \in Nat \ {0}
  /\ MaxReprocess \in Nat
  /\ MaxFaults \in Nat

VARIABLES
  status,      \* calls.status
  attempts,    \* calls.pipeline_attempts
  retryAt,     \* calls.next_attempt_at IS NOT NULL
  job,         \* calls.asr_job_id
  audio,       \* the recording's object is complete in S3
  transcript,  \* a transcripts row exists for the call
  upload,      \* how far a POST /calls/:id/complete that is being served has got
  pipelineQ,   \* wake-ups waiting in aura.pipeline
  analyzeQ,    \* wake-ups waiting in aura.analyze
  pc, cur,     \* per slot: the step its handler is at, and the call it works on
  msg,         \* per slot: the queue its unacknowledged message came from
  held,        \* per slot: a job the provider accepted, not yet written down
  pollCall, pollJob, pollAt,  \* per poller: the row it selected, and its step
  reprocesses, faults,        \* what the two bounds count
  hearing,     \* history: what ASR came to in the run that last claimed the call:
               \* nothing yet, a new transcript, or skipped and nothing heard
  contested    \* history: calls that two runs, or a run and the stall sweep,
               \* have ever driven at once

row     == <<status, attempts, retryAt, job, audio, transcript>>
queues  == <<pipelineQ, analyzeQ>>
runs    == <<pc, cur, msg, held>>
polls   == <<pollCall, pollJob, pollAt>>
history == <<hearing, contested>>
vars    == <<row, upload, queues, runs, polls, reprocesses, faults, history>>

-----------------------------------------------------------------------------
(* The status column's values (migrations 0001, 0014, 0112).  NO_AUDIO rows are *)
(* born terminal and never enter the pipeline: they are left out.             *)

InFlight     == {"TRANSCODING", "TRANSCRIBING", "ANALYZING", "SYNCING"}
FailedStage  == {"FAILED_TRANSCODE", "FAILED_ASR", "FAILED_ANALYZE", "FAILED_CRM"}
Failed       == FailedStage \union {"FAILED_UPLOAD"}
Rewindable   == {"COMPLETE", "TRANSCRIPTION_OFF"} \union Failed
Status       == {"AWAITING_AUDIO", "UPLOADED"} \union InFlight \union Rewindable

\* Mutant: a status the column's constraint does not know.
StallStageMisnamed(s) == IF s = "SYNCING" THEN "FAILED_SYNC" ELSE "FAILED_ASR"

\* The failure each in-flight state lands on when its run never came back.
StallStageOf(s) == CASE s = "TRANSCODING"  -> "FAILED_TRANSCODE"
                     [] s = "TRANSCRIBING" -> "FAILED_ASR"
                     [] s = "ANALYZING"    -> "FAILED_ANALYZE"
                     [] OTHER              -> "FAILED_CRM"

\* Steps of a run: processCall from "offReset" or "clean" on, analyzeCall from
\* "analyze" on.
Step == {"idle", "offReset", "clean", "startAsr", "asr", "recordJob",
         "startAnalyze", "analyze", "startSync", "complete", "reset"}

Busy(w)       == pc[w] # "idle"
Driving(c)    == {w \in Workers : Busy(w) /\ cur[w] = c}

-----------------------------------------------------------------------------
(* Building blocks *)

Move(c, s) == status' = [status EXCEPT ![c] = s]

\* Mutants of the failure record: the job id stays, the budget is one too long,
\* the failure is not counted.
FailRowKeepsJob(c, s) ==
  /\ Move(c, s)
  /\ attempts' = [attempts EXCEPT ![c] = @ + 1]
  /\ retryAt'  = [retryAt EXCEPT ![c] = attempts[c] + 1 < MaxAttempts]
  /\ UNCHANGED <<job, audio, transcript>>

FailRowOneMore(c, s) ==
  /\ Move(c, s)
  /\ attempts' = [attempts EXCEPT ![c] = @ + 1]
  /\ retryAt'  = [retryAt EXCEPT ![c] = attempts[c] < MaxAttempts]
  /\ job'      = [job EXCEPT ![c] = NoJob]
  /\ UNCHANGED <<audio, transcript>>

FailRowUncounted(c, s) ==
  /\ Move(c, s)
  /\ retryAt' = [retryAt EXCEPT ![c] = attempts[c] + 1 < MaxAttempts]
  /\ job'     = [job EXCEPT ![c] = NoJob]
  /\ UNCHANGED <<attempts, audio, transcript>>

\* stageHelpers.fail: by id alone, whatever status the row is in by now.
FailRow(c, s) ==
  /\ Move(c, s)
  /\ attempts' = [attempts EXCEPT ![c] = @ + 1]
  /\ retryAt'  = [retryAt EXCEPT ![c] = attempts[c] + 1 < MaxAttempts]
  /\ job'      = [job EXCEPT ![c] = NoJob]
  /\ UNCHANGED <<audio, transcript>>

\* Mutant: the pending retry outlives the rewind.
ClearBudgetOnly(c) == attempts' = [attempts EXCEPT ![c] = 0] /\ UNCHANGED retryAt

\* rewindForReprocess and the two "made it through" updates.
ClearBudget(c) ==
  /\ attempts' = [attempts EXCEPT ![c] = 0]
  /\ retryAt'  = [retryAt EXCEPT ![c] = FALSE]

Fault == /\ faults < MaxFaults
         /\ faults' = faults + 1

Put(q, c) == [q EXCEPT ![c] = IF @ < MaxWakeups THEN @ + 1 ELSE @]

\* sendToQueue is not confirmed: the wake-up may never reach the broker.
Wake(q, c) == \/ q' = Put(q, c) /\ UNCHANGED faults
              \/ UNCHANGED q    /\ Fault

GoTo(w, p) == /\ pc' = [pc EXCEPT ![w] = p]
              /\ UNCHANGED <<cur, msg, held>>

\* The handler returns (its message is acknowledged) or throws (dead-lettered
\* without requeue): either way the slot is free and the message is gone.
Finish(w) == /\ pc'   = [pc EXCEPT ![w] = "idle"]
             /\ cur'  = [cur EXCEPT ![w] = NoCall]
             /\ msg'  = [msg EXCEPT ![w] = "none"]
             /\ held' = [held EXCEPT ![w] = NoJob]

Begin(w, c, q, p) == /\ pc'  = [pc EXCEPT ![w] = p]
                     /\ cur' = [cur EXCEPT ![w] = c]
                     /\ msg' = [msg EXCEPT ![w] = q]
                     /\ UNCHANGED held

\* Another run starts on a call that one is still driving.
Contest(c) == contested' = IF Driving(c) = {} THEN contested
                                              ELSE contested \union {c}

-----------------------------------------------------------------------------
(* Intake: POST /calls/:id/complete, and the sweep of uploads that never came *)

Upload(c, from, to) == upload[c] = from /\ upload' = [upload EXCEPT ![c] = to]

\* Anything but AWAITING_AUDIO is acknowledged and left alone.
BeginComplete(c) ==
  /\ status[c] = "AWAITING_AUDIO"
  /\ Upload(c, "none", "storing")
  /\ UNCHANGED <<row, queues, runs, polls, reprocesses, faults, history>>

\* completeMultipartUpload, outside any transaction.
StoreAudio(c) ==
  /\ Upload(c, "storing", "stored")
  /\ audio' = [audio EXCEPT ![c] = TRUE]
  /\ UNCHANGED <<status, attempts, retryAt, job, transcript, queues, runs, polls,
                 reprocesses, faults, history>>

\* The write that follows it, conditional on the status; its result is not
\* looked at and the wake-up goes out either way.
ConfirmUpload(c) ==
  /\ Upload(c, "stored", "none")
  /\ status' = IF status[c] = "AWAITING_AUDIO"
               THEN [status EXCEPT ![c] = "UPLOADED"] ELSE status
  /\ Wake(pipelineQ, c)
  /\ UNCHANGED <<attempts, retryAt, job, audio, transcript, analyzeQ, runs, polls,
                 reprocesses, history>>

\* S3 refuses, the size is wrong, or the API dies; the handset will try again.
AbandonUpload(c) ==
  /\ upload[c] # "none"
  /\ upload' = [upload EXCEPT ![c] = "none"]
  /\ UNCHANGED <<row, queues, runs, polls, reprocesses, faults, history>>

\* failStrandedAwaitingAudio: no retry is scheduled, there is nothing to resume.
FailStranded(c) ==
  /\ status[c] = "AWAITING_AUDIO"
  /\ Move(c, "FAILED_UPLOAD")
  /\ UNCHANGED <<attempts, retryAt, job, audio, transcript, upload, queues, runs, polls,
                 reprocesses, faults, history>>

-----------------------------------------------------------------------------
(* processCall: the admission queue's handler *)

TakePipeline(w, c) ==
  /\ ~Busy(w)
  /\ pipelineQ[c] > 0
  /\ pipelineQ' = [pipelineQ EXCEPT ![c] = @ - 1]

\* Not in UPLOADED: somebody else moved it, an idempotent replay.
SkipCall(w, c) ==
  /\ TakePipeline(w, c)
  /\ status[c] # "UPLOADED"
  /\ UNCHANGED <<row, upload, analyzeQ, runs, polls, reprocesses, faults, history>>

\* Mutant: the wake-up is taken at its word.
ClaimCallBlindly(w, c) ==
  /\ TakePipeline(w, c)
  /\ Move(c, "TRANSCODING")
  /\ Begin(w, c, "pipeline", "clean")
  /\ hearing' = [hearing EXCEPT ![c] = "none"]
  /\ Contest(c)
  /\ UNCHANGED <<attempts, retryAt, job, audio, transcript, upload, analyzeQ, polls,
                 reprocesses, faults>>

\* UPLOADED -> TRANSCODING, the claim that makes this run the call's owner.
ClaimCall(w, c) ==
  /\ TakePipeline(w, c)
  /\ status[c] = "UPLOADED"
  /\ Move(c, "TRANSCODING")
  /\ Begin(w, c, "pipeline", "clean")
  /\ hearing' = [hearing EXCEPT ![c] = "none"]
  /\ Contest(c)
  /\ UNCHANGED <<attempts, retryAt, job, audio, transcript, upload, analyzeQ, polls,
                 reprocesses, faults>>

\* The org has transcription off, or its monthly ASR budget is spent.
SetAside(w, c) ==
  /\ TakePipeline(w, c)
  /\ status[c] = "UPLOADED"
  /\ Move(c, "TRANSCRIPTION_OFF")
  /\ Begin(w, c, "pipeline", "offReset")
  /\ Contest(c)
  /\ UNCHANGED <<attempts, retryAt, job, audio, transcript, upload, analyzeQ, polls,
                 reprocesses, faults, hearing>>

OffReset(w) ==
  /\ pc[w] = "offReset"
  /\ ClearBudget(cur[w])
  /\ Finish(w)
  /\ UNCHANGED <<status, job, audio, transcript, upload, queues, polls, reprocesses,
                 faults, history>>

\* A retry starts clean: the pending retry and any older ASR job are cleared.
Clean(w) ==
  /\ pc[w] = "clean"
  /\ retryAt' = [retryAt EXCEPT ![cur[w]] = FALSE]
  /\ job'     = [job EXCEPT ![cur[w]] = NoJob]
  /\ GoTo(w, "startAsr")
  /\ UNCHANGED <<status, attempts, audio, transcript, upload, queues, polls, reprocesses,
                 faults, history>>

\* stageHelpers.advance: conditional on the status it expects; a run that
\* finds another one ends there.
Advance(w, from, to, next) ==
  LET c == cur[w] IN
  /\ \/ /\ status[c] = from
        /\ Move(c, to)
        /\ GoTo(w, next)
     \/ /\ status[c] # from
        /\ UNCHANGED status
        /\ Finish(w)
  /\ UNCHANGED <<attempts, retryAt, job, audio, transcript, upload, queues, polls,
                 reprocesses, faults, history>>

StartAsr(w) == pc[w] = "startAsr" /\ Advance(w, "TRANSCODING", "TRANSCRIBING", "asr")

\* Shorter than the floor: ASR is skipped and the stage is over.  Nothing is heard
\* and nothing is deleted: a transcript an earlier run left is what comes next.
SkipAsr(w) ==
  /\ pc[w] = "asr"
  /\ hearing' = [hearing EXCEPT ![cur[w]] = "skipped"]
  /\ GoTo(w, "startAnalyze")
  /\ UNCHANGED <<row, upload, queues, polls, reprocesses, faults, contested>>

\* Inline provider: transcribe, then replace the call's transcript.
TranscribeInline(w) ==
  /\ pc[w] = "asr"
  /\ audio[cur[w]]
  /\ transcript' = [transcript EXCEPT ![cur[w]] = TRUE]
  /\ hearing' = [hearing EXCEPT ![cur[w]] = "heard"]
  /\ GoTo(w, "startAnalyze")
  /\ UNCHANGED <<status, attempts, retryAt, job, audio, queues, polls, reprocesses,
                 faults, contested, upload>>

\* Ids nobody refers to any more are as good as new ones.
JobsInUse == {job[c] : c \in Calls} \union {held[w] : w \in Workers}
               \union {pollJob[p] : p \in Pollers}

\* Batch provider: the job is accepted, and billed, before its id is written.
SubmitJob(w) ==
  /\ pc[w] = "asr"
  /\ audio[cur[w]]
  /\ \E j \in JobIds \ JobsInUse : held' = [held EXCEPT ![w] = j]
  /\ pc' = [pc EXCEPT ![w] = "recordJob"]
  /\ UNCHANGED <<row, upload, queues, cur, msg, polls, reprocesses, faults, history>>

\* By id alone; the run is over, the poller drives the call from here.
RecordJob(w) ==
  /\ pc[w] = "recordJob"
  /\ job' = [job EXCEPT ![cur[w]] = held[w]]
  /\ Finish(w)
  /\ UNCHANGED <<status, attempts, retryAt, audio, transcript, upload, queues, polls,
                 reprocesses, faults, history>>

-----------------------------------------------------------------------------
(* runPostAsrStages, and analyzeCall in front of it *)

TakeAnalyze(w, c) ==
  /\ ~Busy(w)
  /\ analyzeQ[c] > 0
  /\ analyzeQ' = [analyzeQ EXCEPT ![c] = @ - 1]

\* analyzeCall reads the status and goes on; the read claims nothing.
AnalyzeCall(w, c) ==
  /\ TakeAnalyze(w, c)
  /\ status[c] = "ANALYZING"
  /\ Begin(w, c, "analyze", "analyze")
  /\ Contest(c)
  /\ UNCHANGED <<row, upload, pipelineQ, polls, reprocesses, faults, hearing>>

SkipAnalyze(w, c) ==
  /\ TakeAnalyze(w, c)
  /\ status[c] # "ANALYZING"
  /\ UNCHANGED <<row, upload, pipelineQ, runs, polls, reprocesses, faults, history>>

StartAnalyze(w) ==
  pc[w] = "startAnalyze" /\ Advance(w, "TRANSCRIBING", "ANALYZING", "analyze")

\* The extraction came back and its outputs are written.
Analyze(w) ==
  /\ pc[w] = "analyze"
  /\ GoTo(w, "startSync")
  /\ UNCHANGED <<row, upload, queues, polls, reprocesses, faults, history>>

StartSync(w) == pc[w] = "startSync" /\ Advance(w, "ANALYZING", "SYNCING", "complete")

\* The lead is projected, then SYNCING -> COMPLETE, whose result is ignored.
Complete(w) ==
  LET c == cur[w] IN
  /\ pc[w] = "complete"
  /\ status' = IF status[c] = "SYNCING" THEN [status EXCEPT ![c] = "COMPLETE"]
                                        ELSE status
  /\ GoTo(w, "reset")
  /\ UNCHANGED <<attempts, retryAt, job, audio, transcript, upload, queues, polls,
                 reprocesses, faults, history>>

\* The failure history stops counting, in a transaction of its own and by id
\* alone; then the call is handed to the enrichment lane.
Reset(w) ==
  /\ pc[w] = "reset"
  /\ ClearBudget(cur[w])
  /\ Finish(w)
  /\ UNCHANGED <<status, job, audio, transcript, upload, queues, polls, reprocesses,
                 faults, history>>

\* A stage throws inside its try: the failure is recorded and the run is over.
FailStage(w) ==
  /\ \/ pc[w] = "clean"   /\ FailRow(cur[w], "FAILED_TRANSCODE")
     \/ pc[w] = "asr"     /\ FailRow(cur[w], "FAILED_ASR")
     \/ pc[w] = "recordJob" /\ FailRow(cur[w], "FAILED_ASR")
     \/ pc[w] = "analyze" /\ FailRow(cur[w], "FAILED_ANALYZE")
  /\ Finish(w)
  /\ UNCHANGED <<queues, polls, reprocesses, faults, history, upload>>

-----------------------------------------------------------------------------
(* What goes wrong around a run *)

Requeued(w) ==
  /\ pipelineQ' = IF msg[w] = "pipeline" THEN Put(pipelineQ, cur[w]) ELSE pipelineQ
  /\ analyzeQ'  = IF msg[w] = "analyze"  THEN Put(analyzeQ, cur[w])  ELSE analyzeQ

\* The process dies: its unacknowledged message goes back to the queue.
Crash(w) ==
  /\ Busy(w)
  /\ Fault
  /\ Requeued(w)
  /\ Finish(w)
  /\ UNCHANGED <<row, upload, polls, reprocesses, history>>

\* A throw outside every try (an advance, the reset): nack without requeue.
Throw(w) ==
  /\ Busy(w)
  /\ Fault
  /\ Finish(w)
  /\ UNCHANGED <<row, upload, queues, polls, reprocesses, history>>

\* The broker drops the channel: the message is redelivered while the handler
\* goes on, its acknowledgement lost.
Disconnect(w) ==
  /\ Busy(w)
  /\ msg[w] # "none"
  /\ Fault
  /\ Requeued(w)
  /\ msg' = [msg EXCEPT ![w] = "none"]
  /\ UNCHANGED <<row, upload, pc, cur, held, polls, reprocesses, history>>

-----------------------------------------------------------------------------
(* pollAsrJobs *)

Polling(p) == pollAt[p] # "idle"

StopPolling(p) == /\ pollCall' = [pollCall EXCEPT ![p] = NoCall]
                  /\ pollJob'  = [pollJob EXCEPT ![p] = NoJob]
                  /\ pollAt'   = [pollAt EXCEPT ![p] = "idle"]

\* Select a row with an outstanding job, then ask the provider about it with no
\* transaction open.
Select(p, c) ==
  /\ ~Polling(p)
  /\ job[c] # NoJob
  /\ status[c] = "TRANSCRIBING"
  /\ pollCall' = [pollCall EXCEPT ![p] = c]
  /\ pollJob'  = [pollJob EXCEPT ![p] = job[c]]
  /\ pollAt'   = [pollAt EXCEPT ![p] = "collect"]
  /\ UNCHANGED <<row, upload, queues, runs, reprocesses, faults, history>>

\* Mutant: the poller trusts the row it selected.
StillOursUnasked(p) == pollCall[p] \in Calls

\* CLAIM_SQL: still that job, still TRANSCRIBING.
StillOurs(p) == /\ job[pollCall[p]] = pollJob[p]
                /\ status[pollCall[p]] = "TRANSCRIBING"

\* Still pending, a transport error, a lost claim, a poller that restarted.
LetGo(p) ==
  /\ pollAt[p] = "collect"
  /\ StopPolling(p)
  /\ UNCHANGED <<row, upload, queues, runs, reprocesses, faults, history>>

\* Done: claim, transcript and advance in one transaction.
Collect(p) ==
  LET c == pollCall[p] IN
  /\ pollAt[p] = "collect"
  /\ StillOurs(p)
  /\ job'        = [job EXCEPT ![c] = NoJob]
  /\ transcript' = [transcript EXCEPT ![c] = TRUE]
  /\ Move(c, "ANALYZING")
  /\ hearing'    = [hearing EXCEPT ![c] = "heard"]
  /\ pollAt'     = [pollAt EXCEPT ![p] = "publish"]
  /\ UNCHANGED <<attempts, retryAt, audio, queues, runs, pollCall, pollJob,
                 reprocesses, faults, contested, upload>>

\* The job failed, or is past ASR_JOB_TIMEOUT_MS.
JobFailed(p) ==
  /\ pollAt[p] = "collect"
  /\ StillOurs(p)
  /\ FailRow(pollCall[p], "FAILED_ASR")
  /\ StopPolling(p)
  /\ UNCHANGED <<queues, runs, reprocesses, faults, history, upload>>

HandOff(p) ==
  /\ pollAt[p] = "publish"
  /\ Wake(analyzeQ, pollCall[p])
  /\ StopPolling(p)
  /\ UNCHANGED <<row, upload, pipelineQ, runs, reprocesses, history>>

-----------------------------------------------------------------------------
(* The sweeps of retry.ts, and the operator *)

\* Mutant: any transcript will do.
ResumesOnTranscript(c) == transcript[c]

Resumes(c) == status[c] \in {"FAILED_ANALYZE", "FAILED_CRM"} /\ transcript[c]

\* retryDueCalls: claim the due retry, then wake the queue that owns the stage.
RetryDue(c) ==
  /\ status[c] \in Failed
  /\ retryAt[c]
  /\ retryAt' = [retryAt EXCEPT ![c] = FALSE]
  /\ \/ /\ Resumes(c)
        /\ Move(c, "ANALYZING")
        /\ Wake(analyzeQ, c)
        /\ UNCHANGED pipelineQ
     \/ /\ ~Resumes(c)
        /\ Move(c, "UPLOADED")
        /\ Wake(pipelineQ, c)
        /\ UNCHANGED analyzeQ
  /\ UNCHANGED <<attempts, job, audio, transcript, upload, runs, polls, reprocesses,
                 history>>

\* requeueStuckUploads: nothing is claimed, the wake-up is simply repeated.
RequeueStuck(c) ==
  /\ status[c] = "UPLOADED"
  /\ Wake(pipelineQ, c)
  /\ UNCHANGED <<row, upload, analyzeQ, runs, polls, reprocesses, history>>

\* Mutant: the stages after ASR are left out of the sweep.
FailStalledBeforeAnalyze(c) ==
  /\ status[c] \in {"TRANSCODING", "TRANSCRIBING"}
  /\ Overrun \/ Driving(c) = {}
  /\ FailRow(c, StallStageOf(status[c]))
  /\ Contest(c)
  /\ UNCHANGED <<queues, runs, polls, reprocesses, faults, hearing, upload>>

\* failStalledCalls: claim and fail() in one transaction.  It cannot see whether
\* the run is dead or merely slow.
FailStalled(c) ==
  /\ status[c] \in InFlight
  /\ Overrun \/ Driving(c) = {}
  /\ FailRow(c, StallStageOf(status[c]))
  /\ Contest(c)
  /\ UNCHANGED <<queues, runs, polls, reprocesses, faults, hearing, upload>>

\* rewindForReprocess: COMPLETE, TRANSCRIPTION_OFF or FAILED_* only.
Reprocess(c) ==
  /\ status[c] \in Rewindable
  /\ reprocesses[c] < MaxReprocess
  /\ reprocesses' = [reprocesses EXCEPT ![c] = @ + 1]
  /\ Move(c, "UPLOADED")
  /\ ClearBudget(c)
  /\ Wake(pipelineQ, c)
  /\ UNCHANGED <<job, audio, transcript, upload, analyzeQ, runs, polls, history>>

-----------------------------------------------------------------------------

Init ==
  /\ status      = [c \in Calls |-> "AWAITING_AUDIO"]
  /\ attempts    = [c \in Calls |-> 0]
  /\ retryAt     = [c \in Calls |-> FALSE]
  /\ job         = [c \in Calls |-> NoJob]
  /\ audio       = [c \in Calls |-> FALSE]
  /\ transcript  = [c \in Calls |-> FALSE]
  /\ upload      = [c \in Calls |-> "none"]
  /\ pipelineQ   = [c \in Calls |-> 0]
  /\ analyzeQ    = [c \in Calls |-> 0]
  /\ pc          = [w \in Workers |-> "idle"]
  /\ cur         = [w \in Workers |-> NoCall]
  /\ msg         = [w \in Workers |-> "none"]
  /\ held        = [w \in Workers |-> NoJob]
  /\ pollCall    = [p \in Pollers |-> NoCall]
  /\ pollJob     = [p \in Pollers |-> NoJob]
  /\ pollAt      = [p \in Pollers |-> "idle"]
  /\ reprocesses = [c \in Calls |-> 0]
  /\ faults      = 0
  /\ hearing     = [c \in Calls |-> "none"]
  /\ contested   = {}

Intake(c)  == \/ BeginComplete(c) \/ StoreAudio(c) \/ ConfirmUpload(c)
              \/ AbandonUpload(c) \/ FailStranded(c)
Take(w, c) == \/ SkipCall(w, c) \/ ClaimCall(w, c) \/ SetAside(w, c)
              \/ AnalyzeCall(w, c) \/ SkipAnalyze(w, c)
Run(w)     == \/ OffReset(w) \/ Clean(w) \/ StartAsr(w)
              \/ SkipAsr(w) \/ TranscribeInline(w) \/ SubmitJob(w) \/ RecordJob(w)
              \/ StartAnalyze(w) \/ Analyze(w) \/ StartSync(w)
              \/ Complete(w) \/ Reset(w) \/ FailStage(w)
Trouble(w) == Crash(w) \/ Throw(w) \/ Disconnect(w)
Poll(p)    == LetGo(p) \/ Collect(p) \/ JobFailed(p) \/ HandOff(p)
Sweep(c)   == RetryDue(c) \/ RequeueStuck(c) \/ FailStalled(c)

Next ==
  \/ \E c \in Calls : Intake(c) \/ Sweep(c) \/ Reprocess(c)
  \/ \E w \in Workers : Run(w) \/ Trouble(w)
  \/ \E w \in Workers, c \in Calls : Take(w, c)
  \/ \E p \in Pollers : Poll(p)
  \/ \E p \in Pollers, c \in Calls : Select(p, c)

Spec == Init /\ [][Next]_vars

\* Handlers run to an end or die; a queue is FIFO, so a message is not passed over
\* for ever by slots that keep freeing up; the three sweeps keep ticking (main.ts
\* starts all of them) and a sweep that keeps publishing gets through.  Uploads,
\* operators and faults owe nothing.
Fairness ==
  /\ \A w \in Workers : WF_vars(Run(w))
  /\ \A c \in Calls :
       /\ SF_vars(\E w \in Workers : Take(w, c))
       /\ WF_vars(RetryDue(c))
       /\ WF_vars(RequeueStuck(c) /\ pipelineQ'[c] > pipelineQ[c])
       /\ WF_vars(FailStalled(c))
  /\ \A p \in Pollers : WF_vars(HandOff(p))

FairSpec == Spec /\ Fairness

-----------------------------------------------------------------------------
(* Properties *)

TypeOK ==
  /\ status \in [Calls -> Status]
  /\ attempts \in [Calls -> Nat]
  /\ retryAt \in [Calls -> BOOLEAN]
  /\ job \in [Calls -> JobIds \union {NoJob}]
  /\ audio \in [Calls -> BOOLEAN]
  /\ transcript \in [Calls -> BOOLEAN]
  /\ upload \in [Calls -> {"none", "storing", "stored"}]
  /\ pipelineQ \in [Calls -> 0..MaxWakeups]
  /\ analyzeQ \in [Calls -> 0..MaxWakeups]
  /\ pc \in [Workers -> Step]
  /\ cur \in [Workers -> Calls \union {NoCall}]
  /\ msg \in [Workers -> {"none", "pipeline", "analyze"}]
  /\ held \in [Workers -> JobIds \union {NoJob}]
  /\ pollCall \in [Pollers -> Calls \union {NoCall}]
  /\ pollJob \in [Pollers -> JobIds \union {NoJob}]
  /\ pollAt \in [Pollers -> {"idle", "collect", "publish"}]
  /\ reprocesses \in [Calls -> 0..MaxReprocess]
  /\ faults \in 0..MaxFaults
  /\ hearing \in [Calls -> {"none", "heard", "skipped"}]
  /\ contested \subseteq Calls


\* The stage a run believes it is in is the stage the row says, for every call
\* that never had two drivers: so no conditional update of such a run can miss,
\* and none of its unconditional ones (fail, the job id, the final reset) can
\* land on somebody else's work.  The reset may find the call already rewound by
\* an operator, where it is harmless.
Stages(p) == CASE p \in {"clean", "startAsr"}                -> {"TRANSCODING"}
               [] p \in {"asr", "recordJob", "startAnalyze"} -> {"TRANSCRIBING"}
               [] p \in {"analyze", "startSync"}             -> {"ANALYZING"}
               [] p = "complete"                             -> {"SYNCING"}
               [] p = "reset"    -> {"COMPLETE", "UPLOADED"}
               [] p = "offReset" -> {"TRANSCRIPTION_OFF", "UPLOADED"}
               [] OTHER          -> {}

RunOwnsStage ==
  \A w \in Workers :
    Busy(w) /\ cur[w] \notin contested => status[cur[w]] \in Stages(pc[w])

\* Recovery machines do not compose (pipeline.ts on FAILED_CRM): a call is driven
\* by a run, or by an outstanding ASR job, or by a scheduled retry, never by two
\* of them at a time.
OneDriver ==
  \A c \in Calls \ contested :
    /\ \A v, w \in Driving(c) : v = w
    /\ Driving(c) # {} => job[c] = NoJob /\ ~retryAt[c]
    /\ job[c] # NoJob  => status[c] = "TRANSCRIBING" /\ ~retryAt[c]

\* A pending retry always sits on a failed stage with budget left, contested or
\* not: retryDueCalls can never wake a call that is in flight, finished or spent.
RetryHasBudget ==
  \A c \in Calls : retryAt[c] => status[c] \in FailedStage /\ attempts[c] < MaxAttempts

\* A failed call either tries again or has used its whole budget ("next_attempt_at
\* is what distinguishes 'we'll try again shortly' from 'this needs a person'"):
\* none is left failed with attempts to spare and nobody coming back for it.
FailureAccounted ==
  \A c \in Calls \ contested : status[c] \in FailedStage =>
    /\ attempts[c] \in 1..MaxAttempts
    /\ retryAt[c] <=> attempts[c] < MaxAttempts

\* A call is analysed, synced and COMPLETE only on what the run that last claimed
\* it concluded: ASR gave that run a transcript, or the run found the recording
\* under the floor.  A reprocess whose ASR fails never resumes from an older
\* transcript (retry.ts: "only a failure at or after ANALYZE may resume").  The
\* property promises no more: a run that skipped ASR heard nothing and analyses
\* whatever an earlier run left, see the README.
Concluded(c) == \/ hearing[c] = "heard" /\ transcript[c]
                \/ hearing[c] = "skipped"

HeardOrSkipped ==
  \A c \in Calls \ contested :
    status[c] \in {"ANALYZING", "SYNCING", "COMPLETE", "FAILED_ANALYZE", "FAILED_CRM"}
      => Concluded(c)

\* No automatic step disturbs a settled call: what is COMPLETE, set aside, never
\* uploaded, or failed with its budget spent moves only by an operator's hand.
Settled(c) == status[c] \in Rewindable /\ ~retryAt[c]

SettledIsFinal ==
  [][\A c \in Calls \ contested' :
       Settled(c) /\ status'[c] # status[c] => reprocesses'[c] > reprocesses[c]]_vars

\* Whatever crashes, is lost or redelivered: once its audio is in, a call ends up
\* finished or visibly failed, its retries included, or is contested.  No status
\* is outside every sweep.  (A contested call may loop: see the README.)
EventuallySettles ==
  \A c \in Calls : status[c] \in {"UPLOADED"} \union InFlight \union FailedStage
                     ~> Settled(c) \/ c \in contested

\* Seen from outside, a call is only waiting, queued, worked on, waiting for a
\* retry, or settled; CallLifecycle says how it may move between these and how
\* many failed attempts it is allowed.
PhaseOf(c) == CASE status[c] = "AWAITING_AUDIO" -> "awaiting"
                [] status[c] = "UPLOADED"       -> "queued"
                [] status[c] \in InFlight       -> "working"
                [] Settled(c)                   -> "settled"
                [] OTHER                        -> "retrying"

UsedBy(c) == IF Settled(c) THEN 0 ELSE attempts[c]

Lifecycle == INSTANCE CallLifecycle
  WITH phase    <- [c \in Calls |-> PhaseOf(c)],
       used     <- [c \in Calls |-> UsedBy(c)],
       disputed <- contested

\* The pipeline, whatever its interleavings, keeps that promise for every call
\* that no two drivers have worked on at once.
ImplementsLifecycle == Lifecycle!Spec

\* What the comments above processCall and analyzeCall say of every call: "replays
\* are idempotent and the queue is only a wake-up signal", "the status check is
\* what makes a redelivery harmless".  A call that is COMPLETE would then stay so
\* until a person reprocesses it.
ReplayHarmless ==
  [][\A c \in Calls : status[c] = "COMPLETE" /\ status'[c] # "COMPLETE"
       => reprocesses'[c] > reprocesses[c]]_vars

=============================================================================
