------------------------- MODULE CallPipelineProofs -------------------------
(***************************************************************************)
(* The invariants of CallPipeline, proved for any number of calls, slots,  *)
(* pollers and job ids and for every bound.                                *)
(*                                                                         *)
(* None of the properties is inductive alone.  IInv joins them: a run is   *)
(* in the stage its row says (InStage) only because it is alone on its     *)
(* call (OneRun) and no ASR job is outstanding behind it (JobAlone), and a *)
(* failure can be accounted for (Accounted) only because the row was in    *)
(* the stage that failed.  Everything is claimed of uncontested calls, and *)
(* a call only ever becomes contested, so it is enough to look at calls    *)
(* that are still uncontested after the step.                              *)
(***************************************************************************)
EXTENDS CallPipeline, TLAPS

\* A busy slot is on a call, a poller at work remembers its row and its job.
Attached ==
  /\ \A w \in Workers : Busy(w) <=> cur[w] \in Calls
  /\ \A p \in Pollers : /\ Polling(p) => pollCall[p] \in Calls
                        /\ pollAt[p] = "collect" => pollJob[p] # NoJob

Heard == {"ANALYZING", "SYNCING", "COMPLETE", "FAILED_ANALYZE", "FAILED_CRM"}

OneRun(c)    == \A v, w \in Driving(c) : v = w
InStage(c)   == \A w \in Driving(c) : status[c] \in Stages(pc[w])
JobAlone(c)  == job[c] # NoJob => status[c] = "TRANSCRIBING" /\ Driving(c) = {}
Accounted(c) == IF status[c] \in FailedStage
                THEN /\ attempts[c] \in 1..MaxAttempts
                     /\ retryAt[c] <=> attempts[c] < MaxAttempts
                ELSE attempts[c] < MaxAttempts
HeardNow(c)  == /\ status[c] \in Heard => Concluded(c)
                /\ \A w \in Driving(c) : pc[w] = "startAnalyze" => Concluded(c)
ResetIdle(c) == \A w \in Driving(c) :
                  pc[w] \in {"reset", "offReset"} /\ status[c] = "UPLOADED"
                    => attempts[c] = 0

Owned(c) == /\ OneRun(c) /\ InStage(c) /\ JobAlone(c)
            /\ Accounted(c) /\ HeardNow(c) /\ ResetIdle(c)

IInv == /\ TypeOK
        /\ Attached
        /\ RetryHasBudget
        /\ \A c \in Calls \ contested : Owned(c)

-----------------------------------------------------------------------------
(* What the building blocks do to the types *)

\* A queue stays within the bound whatever is put in it.
LEMMA PutType ==
  ASSUME NEW q \in [Calls -> 0..MaxWakeups], NEW c \in Calls
  PROVE  Put(q, c) \in [Calls -> 0..MaxWakeups]
  BY PipelineAssumption DEF Put

\* A redelivery keeps both queues within the bound.
LEMMA RequeuedType ==
  ASSUME TypeOK, NEW w \in Workers, cur[w] \in Calls, Requeued(w)
  PROVE  /\ pipelineQ' \in [Calls -> 0..MaxWakeups]
         /\ analyzeQ' \in [Calls -> 0..MaxWakeups]
<1>1. /\ Put(pipelineQ, cur[w]) \in [Calls -> 0..MaxWakeups]
      /\ Put(analyzeQ, cur[w]) \in [Calls -> 0..MaxWakeups]
  BY PutType DEF TypeOK
<1> QED
  BY <1>1 DEF TypeOK, Requeued

\* stageHelpers.fail leaves a row of the right types.
LEMMA FailRowType ==
  ASSUME TypeOK, NEW c \in Calls, NEW s \in FailedStage, FailRow(c, s)
  PROVE  /\ status' \in [Calls -> Status]
         /\ attempts' \in [Calls -> Nat]
         /\ retryAt' \in [Calls -> BOOLEAN]
         /\ job' \in [Calls -> JobIds \union {NoJob}]
         /\ audio' = audio
         /\ transcript' = transcript
<1>1. attempts' \in [Calls -> Nat]
  BY DEF TypeOK, FailRow
<1>2. retryAt' \in [Calls -> BOOLEAN]
  BY DEF TypeOK, FailRow
<1>3. status' \in [Calls -> Status]
  BY DEF TypeOK, FailRow, Move, Status, Rewindable, Failed
<1> QED
  BY <1>1, <1>2, <1>3 DEF TypeOK, FailRow

-----------------------------------------------------------------------------
(* Types *)

\* Every action writes values of its variables' types.
LEMMA TypeStep ==
  ASSUME TypeOK, Attached, [Next]_vars
  PROVE  TypeOK'
<1> USE PipelineAssumption
    DEF TypeOK, row, queues, runs, polls, history,
        Status, Rewindable, Failed, FailedStage, InFlight, Step, Move
<1>1. ASSUME NEW c \in Calls, Intake(c) PROVE TypeOK'
  <2>1. CASE ConfirmUpload(c)
    BY <2>1 DEF ConfirmUpload, Upload, Wake, Put, Fault
  <2>2. CASE StoreAudio(c)
    BY <2>2 DEF StoreAudio, Upload
  <2>3. CASE BeginComplete(c) \/ AbandonUpload(c)
    BY <2>3 DEF BeginComplete, AbandonUpload, Upload
  <2>4. CASE FailStranded(c)
    BY <2>4 DEF FailStranded
  <2> QED
    BY <1>1, <2>1, <2>2, <2>3, <2>4 DEF Intake
<1>2. ASSUME NEW c \in Calls, RetryDue(c) PROVE TypeOK'
  BY <1>2 DEF RetryDue, Wake, Put, Fault
<1>3. ASSUME NEW c \in Calls, RequeueStuck(c) PROVE TypeOK'
  BY <1>3 DEF RequeueStuck, Wake, Put, Fault
<1>4. ASSUME NEW c \in Calls, FailStalled(c) PROVE TypeOK'
  BY <1>4, FailRowType DEF FailStalled, Contest, StallStageOf
<1>5. ASSUME NEW c \in Calls, Reprocess(c) PROVE TypeOK'
  BY <1>5 DEF Reprocess, ClearBudget, Wake, Put, Fault
<1>6. ASSUME NEW w \in Workers, NEW c \in Calls, Take(w, c) PROVE TypeOK'
  <2>1. CASE ClaimCall(w, c)
    BY <1>6, <2>1 DEF ClaimCall, TakePipeline, Begin, Contest
  <2>2. CASE SetAside(w, c)
    BY <1>6, <2>2 DEF SetAside, TakePipeline, Begin, Contest
  <2>3. CASE AnalyzeCall(w, c)
    BY <1>6, <2>3 DEF AnalyzeCall, TakeAnalyze, Begin, Contest
  <2>4. CASE SkipCall(w, c) \/ SkipAnalyze(w, c)
    BY <1>6, <2>4 DEF SkipCall, SkipAnalyze, TakePipeline, TakeAnalyze
  <2> QED
    BY <1>6, <2>1, <2>2, <2>3, <2>4 DEF Take
<1>7. ASSUME NEW w \in Workers, Run(w) PROVE TypeOK'
  <2>1. CASE FailStage(w)
    BY <2>1, FailRowType DEF FailStage, Attached, Busy, Finish
  <2>2. CASE StartAsr(w) \/ StartAnalyze(w) \/ StartSync(w)
    BY <2>2 DEF StartAsr, StartAnalyze, StartSync, Advance, GoTo, Finish
  <2>3. CASE OffReset(w)
    BY <2>3 DEF OffReset, ClearBudget, Finish
  <2>9. CASE Reset(w)
    BY <2>9 DEF Reset, ClearBudget, Finish
  <2>4. CASE Clean(w)
    BY <2>4 DEF Clean, GoTo
  <2>5. CASE SkipAsr(w)
    BY <2>5 DEF SkipAsr, GoTo
  <2>10. CASE Analyze(w)
    BY <2>10 DEF Analyze, GoTo
  <2>6. CASE TranscribeInline(w)
    BY <2>6 DEF TranscribeInline, GoTo
  <2>7. CASE SubmitJob(w) \/ RecordJob(w)
    BY <2>7 DEF SubmitJob, RecordJob, Finish
  <2>8. CASE Complete(w)
    BY <2>8 DEF Complete, GoTo
  <2> QED
    BY <1>7, <2>1, <2>2, <2>3, <2>4, <2>5, <2>6, <2>7, <2>8,
       <2>9, <2>10 DEF Run
<1>8. ASSUME NEW w \in Workers, Trouble(w) PROVE TypeOK'
  BY <1>8, RequeuedType DEF Trouble, Crash, Throw, Disconnect, Fault, Finish,
                            Attached
<1>9. ASSUME NEW p \in Pollers, Poll(p) PROVE TypeOK'
  <2>1. CASE JobFailed(p)
    BY <2>1, FailRowType DEF JobFailed, StopPolling, Attached, Polling
  <2>2. CASE HandOff(p)
    BY <2>2 DEF HandOff, StopPolling, Wake, Put, Fault
  <2>3. CASE LetGo(p)
    BY <2>3 DEF LetGo, StopPolling
  <2>4. CASE Collect(p)
    BY <2>4 DEF Collect
  <2> QED
    BY <1>9, <2>1, <2>2, <2>3, <2>4 DEF Poll
<1>10. ASSUME NEW p \in Pollers, NEW c \in Calls, Select(p, c) PROVE TypeOK'
  BY <1>10 DEF Select
<1>11. CASE UNCHANGED vars
  BY <1>11 DEF vars
<1> QED
  BY <1>1, <1>2, <1>3, <1>4, <1>5, <1>6, <1>7, <1>8, <1>9, <1>10, <1>11
  DEF Next, Sweep

\* A slot takes and drops its call, a poller its row and job, in one step.
LEMMA AttachedStep ==
  ASSUME TypeOK, Attached, [Next]_vars
  PROVE  Attached'
<1> USE PipelineAssumption DEF TypeOK, Attached, Busy, Polling, runs, polls
<1>1. ASSUME NEW c \in Calls, Intake(c) \/ Sweep(c) \/ Reprocess(c) PROVE Attached'
  BY <1>1 DEF Intake, BeginComplete, StoreAudio, ConfirmUpload, AbandonUpload,
              FailStranded, Sweep, RetryDue, RequeueStuck, FailStalled, Reprocess
<1>2. ASSUME NEW w \in Workers, NEW c \in Calls, Take(w, c) PROVE Attached'
  BY <1>2 DEF Take, SkipCall, ClaimCall, SetAside, AnalyzeCall, SkipAnalyze,
              TakePipeline, TakeAnalyze, Begin
<1>3. ASSUME NEW w \in Workers, Run(w) PROVE Attached'
  BY <1>3 DEF Run, OffReset, Clean, StartAsr, SkipAsr, TranscribeInline, SubmitJob,
              RecordJob, StartAnalyze, Analyze, StartSync, Complete, Reset,
              FailStage, Advance, GoTo, Finish
<1>4. ASSUME NEW w \in Workers, Trouble(w) PROVE Attached'
  BY <1>4 DEF Trouble, Crash, Throw, Disconnect, Finish
<1>5. ASSUME NEW p \in Pollers, Poll(p) PROVE Attached'
  BY <1>5 DEF Poll, LetGo, Collect, JobFailed, HandOff, StopPolling
<1>6. ASSUME NEW p \in Pollers, NEW c \in Calls, Select(p, c) PROVE Attached'
  BY <1>6 DEF Select
<1>7. CASE UNCHANGED vars
  BY <1>7 DEF vars
<1> QED
  BY <1>1, <1>2, <1>3, <1>4, <1>5, <1>6, <1>7 DEF Next

\* stageHelpers.fail schedules a retry only while the budget lasts.
LEMMA FailKeepsBudget ==
  ASSUME TypeOK, RetryHasBudget, NEW c \in Calls, NEW s \in FailedStage, FailRow(c, s)
  PROVE  RetryHasBudget'
  BY PipelineAssumption DEF TypeOK, RetryHasBudget, FailRow, Move

\* A pending retry keeps its failed stage and its budget, contested or not.
LEMMA BudgetStep ==
  ASSUME TypeOK, Attached, RetryHasBudget, [Next]_vars
  PROVE  RetryHasBudget'
<1> USE PipelineAssumption
    DEF TypeOK, Attached, Busy, Polling, RetryHasBudget, row, runs, polls,
        FailedStage, InFlight, Failed, Rewindable, Move
<1>1. ASSUME NEW c \in Calls, Intake(c) PROVE RetryHasBudget'
  BY <1>1 DEF Intake, BeginComplete, StoreAudio, ConfirmUpload, AbandonUpload,
              FailStranded
<1>2. ASSUME NEW c \in Calls, Sweep(c) PROVE RetryHasBudget'
  BY <1>2 DEF Sweep, RetryDue, RequeueStuck, FailStalled, FailRow, StallStageOf
<1>3. ASSUME NEW c \in Calls, Reprocess(c) PROVE RetryHasBudget'
  BY <1>3 DEF Reprocess, ClearBudget
<1>4. ASSUME NEW w \in Workers, NEW c \in Calls, Take(w, c) PROVE RetryHasBudget'
  BY <1>4 DEF Take, SkipCall, ClaimCall, SetAside, AnalyzeCall, SkipAnalyze
<1>5. ASSUME NEW w \in Workers, Run(w) PROVE RetryHasBudget'
  <2>1. CASE FailStage(w)
    BY <2>1, FailKeepsBudget DEF FailStage
  <2>2. CASE OffReset(w) \/ Reset(w) \/ Clean(w)
    BY <2>2 DEF OffReset, Reset, Clean, ClearBudget
  <2>3. CASE StartAsr(w) \/ StartAnalyze(w) \/ StartSync(w) \/ Complete(w)
    BY <2>3 DEF StartAsr, StartAnalyze, StartSync, Complete, Advance
  <2>4. CASE \/ SkipAsr(w) \/ TranscribeInline(w) \/ SubmitJob(w) \/ RecordJob(w)
           \/ Analyze(w)
    BY <2>4 DEF SkipAsr, TranscribeInline, SubmitJob, RecordJob, Analyze
  <2> QED
    BY <1>5, <2>1, <2>2, <2>3, <2>4 DEF Run
<1>6. ASSUME NEW w \in Workers, Trouble(w) PROVE RetryHasBudget'
  BY <1>6 DEF Trouble, Crash, Throw, Disconnect
<1>7. ASSUME NEW p \in Pollers, Poll(p) PROVE RetryHasBudget'
  BY <1>7 DEF Poll, LetGo, Collect, JobFailed, HandOff, StillOurs, FailRow
<1>8. ASSUME NEW p \in Pollers, NEW c \in Calls, Select(p, c) PROVE RetryHasBudget'
  BY <1>8 DEF Select
<1>9. CASE UNCHANGED vars
  BY <1>9 DEF vars
<1> QED
  BY <1>1, <1>2, <1>3, <1>4, <1>5, <1>6, <1>7, <1>8, <1>9 DEF Next

-----------------------------------------------------------------------------
(* Ownership.  In each lemma the step is named by the part of Next it belongs *)
(* to, and taken apart where a fact about one action is needed.               *)

\* No run believes itself in a failed stage.
LEMMA FailedIsUndriven ==
  ASSUME NEW c \in Calls, TypeOK, InStage(c), status[c] \in Failed
  PROVE  Driving(c) = {}
  BY DEF TypeOK, InStage, Driving, Busy, Stages, Failed, FailedStage, Step

\* A settled call can only be driven by a run about to reset it.
LEMMA SettledRunsEnd ==
  ASSUME NEW c \in Calls, TypeOK, InStage(c), status[c] \in Rewindable
  PROVE  \A w \in Driving(c) : pc[w] \in {"reset", "offReset"}
  BY DEF TypeOK, InStage, Driving, Busy, Stages, Failed, FailedStage, Step, Rewindable

\* A failure of a call that had not failed yet is accounted for.
LEMMA FailIsAccounted ==
  ASSUME NEW c \in Calls, NEW s \in FailedStage, TypeOK, FailRow(c, s),
         status[c] \notin FailedStage, Accounted(c)
  PROVE  Accounted(c)'
<1>1. attempts[c] \in Nat /\ attempts[c] < MaxAttempts
  BY DEF TypeOK, Accounted
<1>2. attempts'[c] = attempts[c] + 1 /\ status'[c] = s
  BY DEF TypeOK, FailRow, Move
<1>3. retryAt'[c] <=> attempts[c] + 1 < MaxAttempts
  BY DEF TypeOK, FailRow
<1> QED
  BY <1>1, <1>2, <1>3, PipelineAssumption DEF Accounted

\* stageHelpers.fail concerns one row.
LEMMA FailSparesOthers ==
  ASSUME NEW c \in Calls, NEW s \in FailedStage, TypeOK, FailRow(c, s),
         NEW d \in Calls, d # c, Accounted(d)
  PROVE  Accounted(d)'
  BY PipelineAssumption DEF TypeOK, Accounted, FailRow, Move, FailedStage

\* Starting a run on a driven call contests it; no other step adds a driver.
LEMMA OneRunStep ==
  ASSUME IInv, [Next]_vars, NEW d \in Calls, d \notin contested'
  PROVE  OneRun(d)'
<1> USE PipelineAssumption
    DEF IInv, Owned, TypeOK, Attached, Busy, Polling, row, queues, runs, polls,
        history
<1>1. ASSUME NEW c \in Calls, Intake(c) PROVE OneRun(d)'
  BY <1>1 DEF Intake, BeginComplete, StoreAudio, ConfirmUpload, AbandonUpload,
     FailStranded, Upload, Move, OneRun, Driving
<1>2. ASSUME NEW c \in Calls, Sweep(c) PROVE OneRun(d)'
  BY <1>2 DEF Sweep, RetryDue, RequeueStuck, FailStalled, Move, FailRow,
     Contest, OneRun, Driving
<1>3. ASSUME NEW c \in Calls, Reprocess(c) PROVE OneRun(d)'
  BY <1>3 DEF Reprocess, Move, ClearBudget, OneRun, Driving
<1>4. ASSUME NEW w \in Workers, NEW c \in Calls, Take(w, c) PROVE OneRun(d)'
  BY <1>4 DEF Take, SkipCall, ClaimCall, SetAside, AnalyzeCall, SkipAnalyze,
     TakePipeline, TakeAnalyze, Move, Begin, Contest, OneRun, Driving
<1>5. ASSUME NEW w \in Workers, Run(w) PROVE OneRun(d)'
  BY <1>5 DEF Run, OffReset, Clean, StartAsr, SkipAsr, TranscribeInline,
     SubmitJob, RecordJob, StartAnalyze, Analyze, StartSync, Complete, Reset,
     FailStage, Move, FailRow, Advance, ClearBudget, GoTo, Finish, OneRun,
     Driving
<1>6. ASSUME NEW w \in Workers, Trouble(w) PROVE OneRun(d)'
  BY <1>6 DEF Trouble, Crash, Throw, Disconnect, Finish, OneRun, Driving
<1>7. ASSUME NEW p \in Pollers, Poll(p) PROVE OneRun(d)'
  BY <1>7 DEF Poll, LetGo, Collect, JobFailed, HandOff, Move, FailRow,
     StillOurs, StopPolling, OneRun, Driving
<1>8. ASSUME NEW p \in Pollers, NEW c \in Calls, Select(p, c) PROVE OneRun(d)'
  BY <1>8 DEF Select, OneRun, Driving
<1>9. CASE UNCHANGED vars
  BY <1>9 DEF vars, OneRun, Driving
<1> QED
  BY <1>1, <1>2, <1>3, <1>4, <1>5, <1>6, <1>7, <1>8, <1>9 DEF Next

\* Whatever moves the status of a driven call is the run that drives it.
LEMMA InStageStep ==
  ASSUME IInv, [Next]_vars, NEW d \in Calls, d \notin contested'
  PROVE  InStage(d)'
<1> USE PipelineAssumption
    DEF IInv, Owned, TypeOK, Attached, Busy, Polling, row, queues, runs, polls,
        history
<1>1. ASSUME NEW c \in Calls, Intake(c) PROVE InStage(d)'
  BY <1>1 DEF Intake, BeginComplete, StoreAudio, ConfirmUpload, AbandonUpload,
     FailStranded, Upload, Move, InStage, OneRun, JobAlone, Driving, Stages,
     InFlight, FailedStage
<1>2. ASSUME NEW c \in Calls, Sweep(c) PROVE InStage(d)'
  <2>1. CASE RetryDue(c)
    BY <2>1, FailedIsUndriven DEF RetryDue, Move, InStage, Driving, Failed, FailedStage
  <2>2. CASE RequeueStuck(c)
    BY <2>2 DEF RequeueStuck, InStage, Driving
  <2>3. CASE FailStalled(c)
    BY <2>3 DEF FailStalled, FailRow, Contest, Move, InStage, Driving
  <2> QED
    BY <1>2, <2>1, <2>2, <2>3 DEF Sweep
<1>3. ASSUME NEW c \in Calls, Reprocess(c) PROVE InStage(d)'
  BY <1>3, SettledRunsEnd DEF Reprocess, Move, InStage, Driving, Stages
<1>4. ASSUME NEW w \in Workers, NEW c \in Calls, Take(w, c) PROVE InStage(d)'
  BY <1>4 DEF Take, SkipCall, ClaimCall, SetAside, AnalyzeCall, SkipAnalyze,
     TakePipeline, TakeAnalyze, Move, Begin, Contest, InStage, OneRun, JobAlone,
     Driving, Stages, InFlight, FailedStage
<1>5. ASSUME NEW w \in Workers, Run(w) PROVE InStage(d)'
  BY <1>5 DEF Run, OffReset, Clean, StartAsr, SkipAsr, TranscribeInline,
     SubmitJob, RecordJob, StartAnalyze, Analyze, StartSync, Complete, Reset,
     FailStage, Move, FailRow, Advance, ClearBudget, GoTo, Finish, InStage,
     OneRun, JobAlone, Driving, Stages, InFlight, FailedStage
<1>6. ASSUME NEW w \in Workers, Trouble(w) PROVE InStage(d)'
  BY <1>6 DEF Trouble, Crash, Throw, Disconnect, Finish, InStage, OneRun,
     JobAlone, Driving, Stages, InFlight, FailedStage
<1>7. ASSUME NEW p \in Pollers, Poll(p) PROVE InStage(d)'
  <2>1. CASE Collect(p) \/ JobFailed(p)
    BY <2>1 DEF Collect, JobFailed, StillOurs, FailRow, Move, JobAlone, InStage, Driving
  <2>2. CASE LetGo(p) \/ HandOff(p)
    BY <2>2 DEF LetGo, HandOff, InStage, Driving
  <2> QED
    BY <1>7, <2>1, <2>2 DEF Poll
<1>8. ASSUME NEW p \in Pollers, NEW c \in Calls, Select(p, c) PROVE InStage(d)'
  BY <1>8 DEF Select, InStage, OneRun, JobAlone, Driving, Stages, InFlight,
     FailedStage
<1>9. CASE UNCHANGED vars
  BY <1>9 DEF vars, InStage, OneRun, JobAlone, Driving, Stages, InFlight,
     FailedStage
<1> QED
  BY <1>1, <1>2, <1>3, <1>4, <1>5, <1>6, <1>7, <1>8, <1>9 DEF Next

\* Only the run in TRANSCRIBING writes a job id, and it ends there.
LEMMA JobAloneStep ==
  ASSUME IInv, [Next]_vars, NEW d \in Calls, d \notin contested'
  PROVE  JobAlone(d)'
<1> USE PipelineAssumption
    DEF IInv, Owned, TypeOK, Attached, Busy, Polling, row, queues, runs, polls,
        history
<1>1. ASSUME NEW c \in Calls, Intake(c) PROVE JobAlone(d)'
  BY <1>1 DEF Intake, BeginComplete, StoreAudio, ConfirmUpload, AbandonUpload,
     FailStranded, Upload, Move, JobAlone, InStage, OneRun, Driving, Stages,
     InFlight, FailedStage, Failed, Rewindable
<1>2. ASSUME NEW c \in Calls, Sweep(c) PROVE JobAlone(d)'
  BY <1>2 DEF Sweep, RetryDue, RequeueStuck, FailStalled, Move, FailRow,
     Contest, JobAlone, InStage, OneRun, Driving, Stages, InFlight, FailedStage,
     Failed, Rewindable
<1>3. ASSUME NEW c \in Calls, Reprocess(c) PROVE JobAlone(d)'
  BY <1>3 DEF Reprocess, Move, ClearBudget, JobAlone, InStage, OneRun, Driving,
     Stages, InFlight, FailedStage, Failed, Rewindable
<1>4. ASSUME NEW w \in Workers, NEW c \in Calls, Take(w, c) PROVE JobAlone(d)'
  BY <1>4 DEF Take, SkipCall, ClaimCall, SetAside, AnalyzeCall, SkipAnalyze,
     TakePipeline, TakeAnalyze, Move, Begin, Contest, JobAlone, InStage, OneRun,
     Driving, Stages, InFlight, FailedStage, Failed, Rewindable
<1>5. ASSUME NEW w \in Workers, Run(w) PROVE JobAlone(d)'
  BY <1>5 DEF Run, OffReset, Clean, StartAsr, SkipAsr, TranscribeInline,
     SubmitJob, RecordJob, StartAnalyze, Analyze, StartSync, Complete, Reset,
     FailStage, Move, FailRow, Advance, ClearBudget, GoTo, Finish, JobAlone,
     InStage, OneRun, Driving, Stages, InFlight, FailedStage, Failed, Rewindable
<1>6. ASSUME NEW w \in Workers, Trouble(w) PROVE JobAlone(d)'
  BY <1>6 DEF Trouble, Crash, Throw, Disconnect, Finish, JobAlone, InStage,
     OneRun, Driving, Stages, InFlight, FailedStage, Failed, Rewindable
<1>7. ASSUME NEW p \in Pollers, Poll(p) PROVE JobAlone(d)'
  BY <1>7 DEF Poll, LetGo, Collect, JobFailed, HandOff, Move, FailRow,
     StillOurs, StopPolling, JobAlone, InStage, OneRun, Driving, Stages,
     InFlight, FailedStage, Failed, Rewindable
<1>8. ASSUME NEW p \in Pollers, NEW c \in Calls, Select(p, c) PROVE JobAlone(d)'
  BY <1>8 DEF Select, JobAlone, InStage, OneRun, Driving, Stages, InFlight,
     FailedStage, Failed, Rewindable
<1>9. CASE UNCHANGED vars
  BY <1>9 DEF vars, JobAlone, InStage, OneRun, Driving, Stages, InFlight,
     FailedStage, Failed, Rewindable
<1> QED
  BY <1>1, <1>2, <1>3, <1>4, <1>5, <1>6, <1>7, <1>8, <1>9 DEF Next

\* A call fails once per stage it was in, and a reset finds it out of every failure.
LEMMA AccountedStep ==
  ASSUME IInv, [Next]_vars, NEW d \in Calls, d \notin contested'
  PROVE  Accounted(d)'
<1> USE PipelineAssumption
    DEF IInv, Owned, TypeOK, Attached, Busy, Polling, row, queues, runs, polls,
        history
<1>1. ASSUME NEW c \in Calls, Intake(c) PROVE Accounted(d)'
  BY <1>1 DEF Intake, BeginComplete, StoreAudio, ConfirmUpload, AbandonUpload,
     FailStranded, Upload, Move, Accounted, InStage, Driving, Stages,
     FailedStage, Failed, Rewindable, InFlight
<1>2. ASSUME NEW c \in Calls, Sweep(c) PROVE Accounted(d)'
  <2>1. CASE RetryDue(c)
    BY <2>1 DEF RetryDue, Move, Accounted, RetryHasBudget, FailedStage
  <2>2. CASE RequeueStuck(c)
    BY <2>2 DEF RequeueStuck, Accounted
  <2>3. CASE FailStalled(c)
    BY <2>3, FailIsAccounted, FailSparesOthers
    DEF FailStalled, Contest, StallStageOf, InFlight, FailedStage
  <2> QED
    BY <1>2, <2>1, <2>2, <2>3 DEF Sweep
<1>3. ASSUME NEW c \in Calls, Reprocess(c) PROVE Accounted(d)'
  BY <1>3 DEF Reprocess, Move, ClearBudget, Accounted, InStage, Driving, Stages,
     FailedStage, Failed, Rewindable, InFlight
<1>4. ASSUME NEW w \in Workers, NEW c \in Calls, Take(w, c) PROVE Accounted(d)'
  BY <1>4 DEF Take, SkipCall, ClaimCall, SetAside, AnalyzeCall, SkipAnalyze,
     TakePipeline, TakeAnalyze, Move, Begin, Contest, Accounted, InStage,
     Driving, Stages, FailedStage, Failed, Rewindable, InFlight
<1>5. ASSUME NEW w \in Workers, Run(w) PROVE Accounted(d)'
  <2>1. CASE FailStage(w)
    BY <2>1, FailIsAccounted, FailSparesOthers
    DEF FailStage, InStage, Stages, Driving, FailedStage
  <2>2. CASE OffReset(w) \/ Reset(w) \/ Clean(w)
    BY <2>2 DEF OffReset, Reset, Clean, ClearBudget, Accounted, InStage, Stages,
                Driving, FailedStage
  <2>3. CASE StartAsr(w) \/ StartAnalyze(w) \/ StartSync(w) \/ Complete(w)
    BY <2>3 DEF StartAsr, StartAnalyze, StartSync, Complete, Advance, Move,
                Accounted, FailedStage
  <2>4. CASE \/ SkipAsr(w) \/ TranscribeInline(w) \/ SubmitJob(w) \/ RecordJob(w)
             \/ Analyze(w)
    BY <2>4 DEF SkipAsr, TranscribeInline, SubmitJob, RecordJob, Analyze, Accounted
  <2> QED
    BY <1>5, <2>1, <2>2, <2>3, <2>4 DEF Run
<1>6. ASSUME NEW w \in Workers, Trouble(w) PROVE Accounted(d)'
  BY <1>6 DEF Trouble, Crash, Throw, Disconnect, Finish, Accounted, InStage,
     Driving, Stages, FailedStage, Failed, Rewindable, InFlight
<1>7. ASSUME NEW p \in Pollers, Poll(p) PROVE Accounted(d)'
  <2>1. CASE JobFailed(p)
    BY <2>1, FailIsAccounted, FailSparesOthers DEF JobFailed, StillOurs, FailedStage
  <2>2. CASE Collect(p)
    BY <2>2 DEF Collect, StillOurs, Move, Accounted, FailedStage
  <2>3. CASE LetGo(p) \/ HandOff(p)
    BY <2>3 DEF LetGo, HandOff, Accounted
  <2> QED
    BY <1>7, <2>1, <2>2, <2>3 DEF Poll
<1>8. ASSUME NEW p \in Pollers, NEW c \in Calls, Select(p, c) PROVE Accounted(d)'
  BY <1>8 DEF Select, Accounted, InStage, Driving, Stages, FailedStage, Failed,
     Rewindable, InFlight
<1>9. CASE UNCHANGED vars
  BY <1>9 DEF vars, Accounted, InStage, Driving, Stages, FailedStage, Failed,
     Rewindable, InFlight
<1> QED
  BY <1>1, <1>2, <1>3, <1>4, <1>5, <1>6, <1>7, <1>8, <1>9 DEF Next

\* ANALYZING is entered from a concluded ASR of this run, or from a failure past it.
LEMMA HeardNowStep ==
  ASSUME IInv, [Next]_vars, NEW d \in Calls, d \notin contested'
  PROVE  HeardNow(d)'
<1> USE PipelineAssumption
    DEF IInv, Owned, TypeOK, Attached, Busy, Polling, row, queues, runs, polls,
        history
<1>1. ASSUME NEW c \in Calls, Intake(c) PROVE HeardNow(d)'
  BY <1>1 DEF Intake, BeginComplete, StoreAudio, ConfirmUpload, AbandonUpload,
     FailStranded, Upload, Move, HeardNow, Concluded, InStage, JobAlone, Driving, Stages,
     Heard, FailedStage, Failed, Rewindable, InFlight
<1>2. ASSUME NEW c \in Calls, Sweep(c) PROVE HeardNow(d)'
  BY <1>2 DEF Sweep, RetryDue, RequeueStuck, FailStalled, Move, FailRow,
     Contest, HeardNow, Concluded, InStage, JobAlone, Driving, Stages, Heard, FailedStage,
     Failed, Rewindable, InFlight, Resumes, StallStageOf
<1>3. ASSUME NEW c \in Calls, Reprocess(c) PROVE HeardNow(d)'
  BY <1>3 DEF Reprocess, Move, ClearBudget, HeardNow, Concluded, InStage, JobAlone,
     Driving, Stages, Heard, FailedStage, Failed, Rewindable, InFlight
<1>4. ASSUME NEW w \in Workers, NEW c \in Calls, Take(w, c) PROVE HeardNow(d)'
  BY <1>4 DEF Take, SkipCall, ClaimCall, SetAside, AnalyzeCall, SkipAnalyze,
     TakePipeline, TakeAnalyze, Move, Begin, Contest, HeardNow, Concluded, InStage,
     JobAlone, Driving, Stages, Heard, FailedStage, Failed, Rewindable, InFlight
<1>5. ASSUME NEW w \in Workers, Run(w) PROVE HeardNow(d)'
  BY <1>5 DEF Run, OffReset, Clean, StartAsr, SkipAsr, TranscribeInline,
     SubmitJob, RecordJob, StartAnalyze, Analyze, StartSync, Complete, Reset,
     FailStage, Move, FailRow, Advance, ClearBudget, GoTo, Finish, HeardNow, Concluded,
     InStage, JobAlone, Driving, Stages, Heard, FailedStage, Failed, Rewindable,
     InFlight
<1>6. ASSUME NEW w \in Workers, Trouble(w) PROVE HeardNow(d)'
  BY <1>6 DEF Trouble, Crash, Throw, Disconnect, Finish, HeardNow, Concluded, InStage,
     JobAlone, Driving, Stages, Heard, FailedStage, Failed, Rewindable, InFlight
<1>7. ASSUME NEW p \in Pollers, Poll(p) PROVE HeardNow(d)'
  BY <1>7 DEF Poll, LetGo, Collect, JobFailed, HandOff, Move, FailRow,
     StillOurs, StopPolling, HeardNow, Concluded, InStage, JobAlone, Driving, Stages,
     Heard, FailedStage, Failed, Rewindable, InFlight
<1>8. ASSUME NEW p \in Pollers, NEW c \in Calls, Select(p, c) PROVE HeardNow(d)'
  BY <1>8 DEF Select, HeardNow, Concluded, InStage, JobAlone, Driving, Stages, Heard,
     FailedStage, Failed, Rewindable, InFlight
<1>9. CASE UNCHANGED vars
  BY <1>9 DEF vars, HeardNow, Concluded, InStage, JobAlone, Driving, Stages, Heard,
     FailedStage, Failed, Rewindable, InFlight
<1> QED
  BY <1>1, <1>2, <1>3, <1>4, <1>5, <1>6, <1>7, <1>8, <1>9 DEF Next

\* A reset that comes after an operator's rewind has nothing left to clear.
LEMMA ResetIdleStep ==
  ASSUME IInv, [Next]_vars, NEW d \in Calls, d \notin contested'
  PROVE  ResetIdle(d)'
<1> USE PipelineAssumption
    DEF IInv, Owned, TypeOK, Attached, Busy, Polling, row, queues, runs, polls,
        history
<1>1. ASSUME NEW c \in Calls, Intake(c) PROVE ResetIdle(d)'
  BY <1>1 DEF Intake, BeginComplete, StoreAudio, ConfirmUpload, AbandonUpload,
     FailStranded, Upload, Move, ResetIdle, InStage, JobAlone, Driving, Stages,
     OneRun, FailedStage, Failed, Rewindable, InFlight
<1>2. ASSUME NEW c \in Calls, Sweep(c) PROVE ResetIdle(d)'
  BY <1>2 DEF Sweep, RetryDue, RequeueStuck, FailStalled, Move, FailRow,
     Contest, ResetIdle, InStage, JobAlone, Driving, Stages, OneRun, FailedStage,
     Failed, Rewindable, InFlight, Resumes, StallStageOf
<1>3. ASSUME NEW c \in Calls, Reprocess(c) PROVE ResetIdle(d)'
  BY <1>3 DEF Reprocess, Move, ClearBudget, ResetIdle, InStage, JobAlone,
     Driving, Stages, OneRun, FailedStage, Failed, Rewindable, InFlight
<1>4. ASSUME NEW w \in Workers, NEW c \in Calls, Take(w, c) PROVE ResetIdle(d)'
  BY <1>4 DEF Take, SkipCall, ClaimCall, SetAside, AnalyzeCall, SkipAnalyze,
     TakePipeline, TakeAnalyze, Move, Begin, Contest, ResetIdle, InStage,
     JobAlone, Driving, Stages, OneRun, FailedStage, Failed, Rewindable, InFlight
<1>5. ASSUME NEW w \in Workers, Run(w) PROVE ResetIdle(d)'
  BY <1>5 DEF Run, OffReset, Clean, StartAsr, SkipAsr, TranscribeInline,
     SubmitJob, RecordJob, StartAnalyze, Analyze, StartSync, Complete, Reset,
     FailStage, Move, FailRow, Advance, ClearBudget, GoTo, Finish, ResetIdle,
     InStage, JobAlone, Driving, Stages, OneRun, FailedStage, Failed, Rewindable,
     InFlight
<1>6. ASSUME NEW w \in Workers, Trouble(w) PROVE ResetIdle(d)'
  BY <1>6 DEF Trouble, Crash, Throw, Disconnect, Finish, ResetIdle, InStage,
     JobAlone, Driving, Stages, OneRun, FailedStage, Failed, Rewindable, InFlight
<1>7. ASSUME NEW p \in Pollers, Poll(p) PROVE ResetIdle(d)'
  BY <1>7 DEF Poll, LetGo, Collect, JobFailed, HandOff, Move, FailRow,
     StillOurs, StopPolling, ResetIdle, InStage, JobAlone, Driving, Stages,
     OneRun, FailedStage, Failed, Rewindable, InFlight
<1>8. ASSUME NEW p \in Pollers, NEW c \in Calls, Select(p, c) PROVE ResetIdle(d)'
  BY <1>8 DEF Select, ResetIdle, InStage, JobAlone, Driving, Stages, OneRun,
     FailedStage, Failed, Rewindable, InFlight
<1>9. CASE UNCHANGED vars
  BY <1>9 DEF vars, ResetIdle, InStage, JobAlone, Driving, Stages, OneRun,
     FailedStage, Failed, Rewindable, InFlight
<1> QED
  BY <1>1, <1>2, <1>3, <1>4, <1>5, <1>6, <1>7, <1>8, <1>9 DEF Next

-----------------------------------------------------------------------------
(* The invariant *)

\* A call that waits for its audio, and no run.
LEMMA InitIInv == Init => IInv
<1> SUFFICES ASSUME Init PROVE IInv
  OBVIOUS
<1> USE PipelineAssumption DEF Init
<1>1. TypeOK
  BY DEF TypeOK, Status, Step
<1>2. Attached
  BY DEF Attached, Busy, Polling
<1>3. RetryHasBudget
  BY DEF RetryHasBudget
<1>4. \A c \in Calls : Driving(c) = {}
  BY DEF Driving, Busy
<1>5. ASSUME NEW c \in Calls PROVE Owned(c)
  BY <1>4, <1>5 DEF Owned, OneRun, InStage, JobAlone, Accounted, HeardNow, ResetIdle,
                    Concluded, Heard, FailedStage
<1> QED
  BY <1>1, <1>2, <1>3, <1>5 DEF IInv

\* Every step of the system preserves the invariant.
LEMMA StepIInv == IInv /\ [Next]_vars => IInv'
<1> SUFFICES ASSUME IInv, [Next]_vars PROVE IInv'
  OBVIOUS
<1>1. TypeOK' /\ Attached' /\ RetryHasBudget'
  BY TypeStep, AttachedStep, BudgetStep DEF IInv
<1>2. ASSUME NEW d \in Calls, d \notin contested' PROVE Owned(d)'
  BY <1>2, OneRunStep, InStageStep, JobAloneStep, AccountedStep, HeardNowStep,
     ResetIdleStep DEF Owned
<1> QED
  BY <1>1, <1>2 DEF IInv

\* The inductive invariant, from which the theorems below are read off.
THEOREM Invariance == Spec => []IInv
  BY InitIInv, StepIInv, PTL DEF Spec

\* Every variable keeps its type.
THEOREM TypeCorrect == Spec => []TypeOK
<1>1. IInv => TypeOK
  BY DEF IInv
<1> QED
  BY <1>1, Invariance, PTL

\* retryDueCalls never finds a call in flight, finished or out of budget.
THEOREM RetriesHaveBudget == Spec => []RetryHasBudget
<1>1. IInv => RetryHasBudget
  BY DEF IInv
<1> QED
  BY <1>1, Invariance, PTL

\* No conditional update of an uncontested run can miss, and none of its
\* unconditional ones lands on another's work.
THEOREM RunsOwnTheirStage == Spec => []RunOwnsStage
<1>1. IInv => RunOwnsStage
  BY DEF IInv, Owned, InStage, RunOwnsStage, Driving, Attached
<1> QED
  BY <1>1, Invariance, PTL

\* A run, an ASR job and a scheduled retry exclude one another.
THEOREM OnlyOneDriver == Spec => []OneDriver
<1>1. ASSUME IInv, NEW c \in Calls \ contested, Driving(c) # {}
      PROVE  status[c] \notin FailedStage
  BY <1>1, FailedIsUndriven DEF IInv, Owned, Failed
<1>2. IInv => OneDriver
  BY <1>1 DEF IInv, Owned, OneRun, JobAlone, OneDriver, RetryHasBudget, FailedStage
<1> QED
  BY <1>2, Invariance, PTL

\* A failed call is either coming back or out of attempts.
THEOREM FailuresAccounted == Spec => []FailureAccounted
<1>1. IInv => FailureAccounted
  BY DEF IInv, Owned, Accounted, FailureAccounted
<1> QED
  BY <1>1, Invariance, PTL

\* What is analysed, synced or COMPLETE comes after a transcript of the run that
\* last claimed the call, or after that run found the recording under the floor.
THEOREM AnalysedWasHeardOrSkipped == Spec => []HeardOrSkipped
<1>1. IInv => HeardOrSkipped
  BY DEF IInv, Owned, HeardNow, Heard, HeardOrSkipped
<1> QED
  BY <1>1, Invariance, PTL

-----------------------------------------------------------------------------
(* Only an operator moves a settled call *)

\* The case analysis behind SettledStays.
LEMMA SettledStep ==
  ASSUME IInv, [Next]_vars, NEW d \in Calls, d \notin contested',
         Settled(d), status'[d] # status[d]
  PROVE  reprocesses'[d] > reprocesses[d]
<1> USE PipelineAssumption
    DEF IInv, Owned, TypeOK, Attached, Busy, Polling, row, queues, runs, polls,
        history, Settled, Rewindable, Failed, FailedStage, Move
<1>1. ASSUME NEW c \in Calls, Intake(c) PROVE FALSE
  BY <1>1 DEF Intake, BeginComplete, StoreAudio, ConfirmUpload, AbandonUpload,
              FailStranded, Upload
<1>2. ASSUME NEW c \in Calls, Sweep(c) PROVE FALSE
  BY <1>2 DEF Sweep, RetryDue, RequeueStuck, FailStalled, FailRow, InFlight
<1>3. ASSUME NEW c \in Calls, Reprocess(c) PROVE reprocesses'[d] > reprocesses[d]
  BY <1>3 DEF Reprocess
<1>4. ASSUME NEW w \in Workers, NEW c \in Calls, Take(w, c) PROVE FALSE
  BY <1>4 DEF Take, SkipCall, ClaimCall, SetAside, AnalyzeCall, SkipAnalyze
<1>5. ASSUME NEW w \in Workers, Run(w) PROVE FALSE
  <2>1. CASE FailStage(w)
    BY <2>1, SettledRunsEnd DEF FailStage, FailRow, Driving
  <2>2. CASE StartAsr(w) \/ StartAnalyze(w) \/ StartSync(w) \/ Complete(w)
    BY <2>2 DEF StartAsr, StartAnalyze, StartSync, Complete, Advance
  <2>3. CASE ~(\/ FailStage(w) \/ StartAsr(w) \/ StartAnalyze(w) \/ StartSync(w)
              \/ Complete(w))
    BY <1>5, <2>3 DEF Run, OffReset, Clean, SkipAsr, TranscribeInline, SubmitJob,
                      RecordJob, Analyze, Reset
  <2> QED
    BY <2>1, <2>2, <2>3
<1>6. ASSUME NEW w \in Workers, Trouble(w) PROVE FALSE
  BY <1>6 DEF Trouble, Crash, Throw, Disconnect
<1>7. ASSUME NEW p \in Pollers, Poll(p) PROVE FALSE
  BY <1>7 DEF Poll, LetGo, Collect, JobFailed, HandOff, StillOurs, FailRow
<1>8. ASSUME NEW p \in Pollers, NEW c \in Calls, Select(p, c) PROVE FALSE
  BY <1>8 DEF Select
<1>9. CASE UNCHANGED vars
  BY <1>9 DEF vars
<1> QED
  BY <1>1, <1>2, <1>3, <1>4, <1>5, <1>6, <1>7, <1>8, <1>9 DEF Next

\* No sweep, wake-up or late run disturbs a settled, uncontested call.
THEOREM SettledStays == Spec => SettledIsFinal
<1>1. IInv /\ [Next]_vars =>
        [\A c \in Calls \ contested' :
           Settled(c) /\ status'[c] # status[c] => reprocesses'[c] > reprocesses[c]]_vars
  BY SettledStep
<1> QED
  BY <1>1, Invariance, PTL DEF Spec, SettledIsFinal

-----------------------------------------------------------------------------
(* The lifecycle.  A step of the pipeline touches the row of one call, and on *)
(* an uncontested call it is one of nine moves (or none that shows).          *)

Untouched(d) == /\ status'[d] = status[d]
                /\ attempts'[d] = attempts[d]
                /\ retryAt'[d] = retryAt[d]

Kept(c)     == attempts'[c] = attempts[c] /\ retryAt'[c] = retryAt[c]
Cleared(c)  == attempts'[c] = 0 /\ ~retryAt'[c]

Arrives(c)  == status[c] = "AWAITING_AUDIO" /\ status'[c] = "UPLOADED" /\ Kept(c)
Strands(c)  == status[c] = "AWAITING_AUDIO" /\ status'[c] = "FAILED_UPLOAD" /\ Kept(c)
Starts(c)   == status[c] = "UPLOADED" /\ status'[c] = "TRANSCODING" /\ Kept(c)
SetsAside(c) == status[c] = "UPLOADED" /\ status'[c] = "TRANSCRIPTION_OFF" /\ Kept(c)
Advances(c) == status[c] \in InFlight /\ status'[c] \in InFlight /\ Kept(c)
Completes(c) == status[c] = "SYNCING" /\ status'[c] = "COMPLETE" /\ Kept(c)
Fails(c)    == /\ status[c] \in InFlight /\ status'[c] \in FailedStage
               /\ attempts'[c] = attempts[c] + 1
               /\ retryAt'[c] <=> attempts[c] + 1 < MaxAttempts
Retries(c)  == /\ status[c] \in FailedStage /\ status'[c] \in {"UPLOADED", "ANALYZING"}
               /\ retryAt[c] /\ ~retryAt'[c] /\ attempts'[c] = attempts[c]
Rewinds(c)  == status[c] \in Rewindable /\ status'[c] = "UPLOADED" /\ Cleared(c)
Resets(c)   == /\ status'[c] = status[c]
               /\ \/ status[c] \in {"COMPLETE", "TRANSCRIPTION_OFF"}
                  \/ status[c] = "UPLOADED" /\ attempts[c] = 0
               /\ Cleared(c)

Moves(c) == \/ Untouched(c) \/ Arrives(c) \/ Strands(c) \/ Starts(c) \/ SetsAside(c)
            \/ Advances(c) \/ Completes(c) \/ Fails(c) \/ Retries(c) \/ Rewinds(c)
            \/ Resets(c)

\* A step either changes no row at all, or touches c's only: then c is contested
\* after it or makes one of the moves.
Touches(c) == /\ \A d \in Calls \ {c} : Untouched(d)
              /\ contested' = contested \/ contested' = contested \union {c}
              /\ c \in contested' \/ Moves(c)

\* stageHelpers.fail, seen as a move.
LEMMA FailTouches ==
  ASSUME TypeOK, NEW c \in Calls, NEW s \in FailedStage, FailRow(c, s)
  PROVE  /\ \A d \in Calls \ {c} : Untouched(d)
         /\ status[c] \in InFlight => Fails(c)
<1>1. ASSUME NEW d \in Calls \ {c} PROVE Untouched(d)
  BY DEF TypeOK, FailRow, Move, Untouched
<1>2. retryAt'[c] <=> attempts[c] + 1 < MaxAttempts
  BY DEF TypeOK, FailRow
<1>3. status'[c] = s /\ attempts'[c] = attempts[c] + 1
  BY DEF TypeOK, FailRow, Move
<1> QED
  BY <1>1, <1>2, <1>3 DEF Fails

\* Every action of the pipeline is a move of one call's row, or of none.
LEMMA StepTouches ==
  ASSUME IInv, Next
  PROVE  \E c \in Calls : Touches(c)
<1> USE PipelineAssumption
    DEF IInv, Owned, TypeOK, Attached, Busy, Polling, row, queues, runs, polls,
        history, Failed, FailedStage, InFlight, Rewindable, Move, Touches, Untouched,
        Moves, Kept, Cleared
<1>1. ASSUME NEW c \in Calls, Intake(c) PROVE Touches(c)
  BY <1>1 DEF Intake, BeginComplete, StoreAudio, ConfirmUpload, AbandonUpload,
              FailStranded, Upload, Arrives, Strands
<1>2. ASSUME NEW c \in Calls, Sweep(c) PROVE Touches(c)
  <2>1. CASE RetryDue(c)
    BY <2>1 DEF RetryDue, RetryHasBudget, Retries
  <2>2. CASE RequeueStuck(c)
    BY <2>2 DEF RequeueStuck
  <2>3. CASE FailStalled(c)
    <3>1. FailRow(c, StallStageOf(status[c])) /\ StallStageOf(status[c]) \in FailedStage
      BY <2>3 DEF FailStalled, StallStageOf
    <3>2. Fails(c) /\ \A d \in Calls \ {c} : Untouched(d)
      BY <2>3, <3>1, FailTouches DEF FailStalled
    <3> QED
      BY <2>3, <3>2 DEF FailStalled, Contest
  <2> QED
    BY <1>2, <2>1, <2>2, <2>3 DEF Sweep
<1>3. ASSUME NEW c \in Calls, Reprocess(c) PROVE Touches(c)
  BY <1>3 DEF Reprocess, ClearBudget, Rewinds
<1>4. ASSUME NEW w \in Workers, NEW c \in Calls, Take(w, c) PROVE Touches(c)
  BY <1>4 DEF Take, SkipCall, ClaimCall, SetAside, AnalyzeCall, SkipAnalyze, Contest,
              Starts, SetsAside
<1>5. ASSUME NEW w \in Workers, Run(w) PROVE Touches(cur[w])
  <2>0. cur[w] \in Calls /\ w \in Driving(cur[w])
    BY <1>5 DEF Run, OffReset, Clean, StartAsr, SkipAsr, TranscribeInline, SubmitJob,
                RecordJob, StartAnalyze, Analyze, StartSync, Complete, Reset,
                FailStage, Driving
  <2>1. CASE FailStage(w)
    <3>1. PICK s \in FailedStage : FailRow(cur[w], s)
      BY <2>1 DEF FailStage
    <3>2. \A d \in Calls \ {cur[w]} : Untouched(d)
      BY <2>0, <3>1, FailTouches
    <3>3. cur[w] \notin contested => Fails(cur[w])
      BY <2>0, <2>1, <3>1, FailTouches DEF FailStage, InStage, Stages
    <3> QED
      BY <2>0, <2>1, <3>2, <3>3 DEF FailStage
  <2>2. CASE OffReset(w) \/ Reset(w)
    BY <2>0, <2>2 DEF OffReset, Reset, ClearBudget, InStage, Stages, ResetIdle, Resets
  <2>3. CASE Clean(w)
    <3>1. \A d \in Calls \ {cur[w]} : Untouched(d)
      BY <2>3 DEF Clean
    <3>2. ASSUME cur[w] \notin contested PROVE Untouched(cur[w])
      <4>1. status[cur[w]] = "TRANSCODING"
        BY <2>0, <2>3, <3>2 DEF Clean, InStage, Stages
      <4>2. retryAt[cur[w]] = FALSE
        BY <2>0, <4>1 DEF RetryHasBudget
      <4> QED
        BY <2>0, <2>3, <4>2 DEF Clean
    <3> QED
      BY <2>3, <3>1, <3>2 DEF Clean
  <2>4. CASE StartAsr(w) \/ StartAnalyze(w) \/ StartSync(w)
    BY <2>0, <2>4 DEF StartAsr, StartAnalyze, StartSync, Advance, Advances
  <2>5. CASE Complete(w)
    BY <2>0, <2>5 DEF Complete, Completes
  <2>6. CASE \/ SkipAsr(w) \/ TranscribeInline(w) \/ SubmitJob(w) \/ RecordJob(w)
           \/ Analyze(w)
    BY <2>0, <2>6 DEF SkipAsr, TranscribeInline, SubmitJob, RecordJob, Analyze
  <2> QED
    BY <1>5, <2>1, <2>2, <2>3, <2>4, <2>5, <2>6 DEF Run
<1>6. ASSUME NEW w \in Workers, Trouble(w) PROVE Touches(cur[w]) /\ cur[w] \in Calls
  BY <1>6 DEF Trouble, Crash, Throw, Disconnect
<1>7. ASSUME NEW p \in Pollers, Poll(p) PROVE Touches(pollCall[p]) /\ pollCall[p] \in Calls
  <2>1. CASE JobFailed(p)
    <3>1. /\ \A d \in Calls \ {pollCall[p]} : Untouched(d)
          /\ Fails(pollCall[p])
      BY <2>1, FailTouches DEF JobFailed, StillOurs
    <3> QED
      BY <2>1, <3>1 DEF JobFailed
  <2>2. CASE Collect(p)
    BY <2>2 DEF Collect, StillOurs, Advances
  <2>3. CASE LetGo(p) \/ HandOff(p)
    BY <2>3 DEF LetGo, HandOff
  <2> QED
    BY <1>7, <2>1, <2>2, <2>3 DEF Poll
<1>8. ASSUME NEW p \in Pollers, NEW c \in Calls, Select(p, c) PROVE Touches(c)
  BY <1>8 DEF Select
<1>9. ASSUME NEW w \in Workers, Run(w) PROVE cur[w] \in Calls
  BY <1>9 DEF Run, OffReset, Clean, StartAsr, SkipAsr, TranscribeInline, SubmitJob,
              RecordJob, StartAnalyze, Analyze, StartSync, Complete, Reset, FailStage
<1> HIDE DEF Touches
<1> QED
  BY <1>1, <1>2, <1>3, <1>4, <1>5, <1>6, <1>7, <1>8, <1>9 DEF Next

\* What a change of c's row alone looks like from outside.
LEMMA SeenChange ==
  ASSUME NEW c \in Calls, \A d \in Calls \ {c} : Untouched(d)
  PROVE  /\ [d \in Calls |-> PhaseOf(d)]'
              = [[d \in Calls |-> PhaseOf(d)] EXCEPT ![c] = PhaseOf(c)']
         /\ [d \in Calls |-> UsedBy(d)]'
              = [[d \in Calls |-> UsedBy(d)] EXCEPT ![c] = UsedBy(c)']
<1>1. ASSUME NEW d \in Calls \ {c}
      PROVE  PhaseOf(d)' = PhaseOf(d) /\ UsedBy(d)' = UsedBy(d)
  BY DEF Untouched, PhaseOf, UsedBy, Settled
<1> QED
  BY <1>1

\* What an uncontested call's moves look like from outside.
LEMMA MovesAreLifecycle ==
  ASSUME IInv, IInv', NEW c \in Calls, c \notin contested', Moves(c),
         \A d \in Calls \ {c} : Untouched(d), contested' = contested
  PROVE  Lifecycle!Next \/ UNCHANGED Lifecycle!vars
<1> DEFINE phase == [d \in Calls |-> PhaseOf(d)]
           used  == [d \in Calls |-> UsedBy(d)]
<1>0. /\ phase' = [phase EXCEPT ![c] = PhaseOf(c)']
      /\ used' = [used EXCEPT ![c] = UsedBy(c)']
      /\ phase[c] = PhaseOf(c) /\ used[c] = UsedBy(c)
  BY SeenChange
<1>b. UsedBy(c)' = UsedBy(c) => used' = used
  BY <1>0
<1>c. PhaseOf(c)' = PhaseOf(c) => phase' = phase
  BY <1>0
<1>a. /\ status[c] \in Status /\ attempts[c] \in Nat /\ retryAt[c] \in BOOLEAN
      /\ status'[c] \in Status /\ attempts'[c] \in Nat /\ retryAt'[c] \in BOOLEAN
      /\ retryAt[c] => status[c] \in FailedStage
      /\ retryAt'[c] => status'[c] \in FailedStage
      /\ attempts'[c] < MaxAttempts \/ ~retryAt'[c]
  BY DEF IInv, TypeOK, RetryHasBudget
<1>1. CASE Untouched(c)
  <2>1. PhaseOf(c)' = PhaseOf(c) /\ UsedBy(c)' = UsedBy(c)
    BY <1>1 DEF Untouched, PhaseOf, UsedBy, Settled
  <2> QED
    BY <2>1, <1>b, <1>c DEF Lifecycle!vars
<1>2. CASE Arrives(c)
  <2>1. PhaseOf(c) = "awaiting" /\ PhaseOf(c)' = "queued" /\ UsedBy(c)' = UsedBy(c)
    BY <1>2, <1>a DEF Arrives, Kept, Cleared, PhaseOf, UsedBy,
       Settled, Rewindable, Failed, FailedStage, InFlight
  <2> QED
    BY <2>1, <1>0, <1>b DEF Lifecycle!Next, Lifecycle!Arrive, Lifecycle!Step
<1>3. CASE Strands(c) \/ SetsAside(c) \/ Completes(c)
  <2>1. /\ PhaseOf(c) \in {"awaiting", "queued", "working"}
        /\ PhaseOf(c)' = "settled" /\ UsedBy(c)' = 0
    BY <1>3, <1>a DEF Strands, SetsAside, Completes, Kept, Cleared, PhaseOf, UsedBy,
       Settled, Rewindable, Failed, FailedStage, InFlight
  <2> QED
    BY <2>1, <1>0 DEF Lifecycle!Next, Lifecycle!Settle, Lifecycle!Step
<1>4. CASE Starts(c)
  <2>1. PhaseOf(c) = "queued" /\ PhaseOf(c)' = "working" /\ UsedBy(c)' = UsedBy(c)
    BY <1>4, <1>a DEF Starts, Kept, Cleared, PhaseOf, UsedBy,
       Settled, Rewindable, Failed, FailedStage, InFlight
  <2> QED
    BY <2>1, <1>0, <1>b DEF Lifecycle!Next, Lifecycle!Start, Lifecycle!Step
<1>5. CASE Advances(c)
  <2>1. PhaseOf(c)' = PhaseOf(c) /\ UsedBy(c)' = UsedBy(c)
    BY <1>5, <1>a DEF Advances, Kept, Cleared, PhaseOf, UsedBy,
       Settled, Rewindable, Failed, FailedStage, InFlight
  <2> QED
    BY <2>1, <1>b, <1>c DEF Lifecycle!vars
<1>6. CASE Fails(c)
  <2>1. PhaseOf(c) = "working" /\ UsedBy(c) = attempts[c]
    BY <1>6, <1>a DEF Fails, Kept, Cleared, PhaseOf, UsedBy,
       Settled, Rewindable, Failed, FailedStage, InFlight
  <2>2. CASE attempts[c] + 1 < MaxAttempts
    <3>1. PhaseOf(c)' = "retrying" /\ UsedBy(c)' = UsedBy(c) + 1
      BY <1>6, <1>a, <2>1, <2>2 DEF Fails, Kept, Cleared, PhaseOf, UsedBy,
         Settled, Rewindable, Failed, FailedStage, InFlight
    <3>2. used' = [used EXCEPT ![c] = used[c] + 1] /\ used[c] + 1 < MaxAttempts
      BY <1>0, <2>1, <2>2, <3>1
    <3>3. phase[c] = "working" /\ phase' = [phase EXCEPT ![c] = "retrying"]
      BY <1>0, <2>1, <3>1
    <3> HIDE DEF phase, used
    <3> QED
      BY <3>2, <3>3 DEF Lifecycle!Next, Lifecycle!FailOnce, Lifecycle!Step, phase, used
  <2>3. CASE ~(attempts[c] + 1 < MaxAttempts)
    <3>1. PhaseOf(c)' = "settled" /\ UsedBy(c)' = 0
      BY <1>6, <1>a, <2>3 DEF Fails, Kept, Cleared, PhaseOf, UsedBy,
         Settled, Rewindable, Failed, FailedStage, InFlight
    <3> QED
      BY <2>1, <3>1, <1>0 DEF Lifecycle!Next, Lifecycle!Settle, Lifecycle!Step
  <2> QED
    BY <2>2, <2>3
<1>7. CASE Retries(c)
  <2>1. /\ PhaseOf(c) = "retrying" /\ PhaseOf(c)' \in {"queued", "working"}
        /\ UsedBy(c)' = UsedBy(c)
    BY <1>7, <1>a DEF Retries, Kept, Cleared, PhaseOf, UsedBy,
       Settled, Rewindable, Failed, FailedStage, InFlight
  <2> QED
    BY <2>1, <1>0, <1>b DEF Lifecycle!Next, Lifecycle!Retry, Lifecycle!Step
<1>8. CASE Rewinds(c)
  <2>1. PhaseOf(c) \in {"settled", "retrying"} /\ PhaseOf(c)' = "queued" /\ UsedBy(c)' = 0
    BY <1>8, <1>a DEF Rewinds, Kept, Cleared, PhaseOf, UsedBy,
       Settled, Rewindable, Failed, FailedStage, InFlight
  <2> QED
    BY <2>1, <1>0 DEF Lifecycle!Next, Lifecycle!Rewind, Lifecycle!Step
<1>9. CASE Resets(c)
  <2>1. PhaseOf(c)' = PhaseOf(c) /\ UsedBy(c)' = UsedBy(c)
    BY <1>9, <1>a DEF Resets, Kept, Cleared, PhaseOf, UsedBy,
       Settled, Rewindable, Failed, FailedStage, InFlight
  <2> QED
    BY <2>1, <1>b, <1>c DEF Lifecycle!vars
<1> QED
  BY <1>1, <1>2, <1>3, <1>4, <1>5, <1>6, <1>7, <1>8, <1>9 DEF Moves

\* Every step of the pipeline is a step of the lifecycle, or none.
LEMMA StepImplements == IInv /\ IInv' /\ [Next]_vars => [Lifecycle!Next]_Lifecycle!vars
<1> SUFFICES ASSUME IInv, IInv', [Next]_vars
             PROVE  Lifecycle!Next \/ UNCHANGED Lifecycle!vars
  OBVIOUS
<1>1. CASE UNCHANGED vars
  BY <1>1 DEF vars, row, history, Lifecycle!vars, PhaseOf, UsedBy, Settled
<1>2. CASE Next
  <2>1. PICK c \in Calls : Touches(c)
    BY <1>2, StepTouches
  <2>2. CASE c \notin contested'
    <3>1. contested' = contested
      BY <2>1, <2>2 DEF Touches
    <3> QED
      BY <2>1, <2>2, <3>1, MovesAreLifecycle DEF Touches
  <2>3. CASE c \in contested'
    <3>1. contested' = contested \union {c}
      BY <2>1, <2>3 DEF Touches
    <3>2. PhaseOf(c)' \in Lifecycle!Phase /\ UsedBy(c)' \in Nat
      BY DEF IInv, TypeOK, PhaseOf, UsedBy, Lifecycle!Phase
    <3>3. \A d \in Calls : PhaseOf(d)' \in Lifecycle!Phase /\ UsedBy(d)' \in Nat
      BY DEF IInv, TypeOK, PhaseOf, UsedBy, Lifecycle!Phase
    <3>4. \A d \in Calls \ {c} : PhaseOf(d)' = PhaseOf(d) /\ UsedBy(d)' = UsedBy(d)
      BY <2>1 DEF Touches, Untouched, PhaseOf, UsedBy, Settled
    <3> QED
      BY <3>1, <3>3, <3>4 DEF Lifecycle!Next, Lifecycle!Dispute
  <2> QED
    BY <2>2, <2>3
<1> QED
  BY <1>1, <1>2

\* The pipeline keeps the promise of CallLifecycle.
THEOREM PipelineImplementsLifecycle == Spec => ImplementsLifecycle
<1>1. Init => Lifecycle!Init
  <2> SUFFICES ASSUME Init PROVE Lifecycle!Init
    OBVIOUS
  <2>1. ASSUME NEW c \in Calls PROVE PhaseOf(c) = "awaiting" /\ UsedBy(c) = 0
    <3>1. status[c] = "AWAITING_AUDIO" /\ attempts[c] = 0
      BY <2>1 DEF Init
    <3>2. ~Settled(c)
      BY <3>1 DEF Settled, Rewindable, Failed, FailedStage
    <3> QED
      BY <3>1, <3>2 DEF PhaseOf, UsedBy, InFlight
  <2> QED
    BY <2>1 DEF Init, Lifecycle!Init
<1>2. IInv /\ IInv' /\ [Next]_vars => [Lifecycle!Next]_Lifecycle!vars
  BY StepImplements
<1> QED
  BY <1>1, <1>2, Invariance, PTL DEF Spec, ImplementsLifecycle, Lifecycle!Spec
=============================================================================
