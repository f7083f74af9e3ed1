-------------------------- MODULE ExportLaneProofs --------------------------
(***************************************************************************)
(* The retry budget of ExportLane, its single run and its file, for any    *)
(* number of jobs and slots, any budget, and runs that outlast the sweep.  *)
(*                                                                         *)
(* RunsWithinBudget is not inductive: what bounds the claims is that every *)
(* way back into the queue was paid for by a stall that retry_count still  *)
(* remembers, whatever slow runs have written to the row since (Paid).     *)
(***************************************************************************)
EXTENDS ExportLane, FiniteSetTheorems, TLAPS

\* A slot at work is on a job.
Attached == \A w \in Workers : ~Free(w) <=> on[w] \in Jobs

\* Claims are paid for by counted failures, but for the first and the current one.
Paid(j) ==
  /\ claims[j] <= retries[j] + 1
  /\ claims[j] <= Budget
  /\ stalled[j] => claims[j] <= retries[j]
  /\ status[j] = "queued" => ~stalled[j] /\ claims[j] <= retries[j] /\ claims[j] < Budget
  /\ status[j] = "none"   => ~stalled[j] /\ claims[j] = 0

\* A job given up has nothing left to be requeued with.
Spent(j) == j \in gaveUp => retries[j] >= Budget /\ status[j] \notin {"none", "queued"}

\* The sweep marks a row for a retry only when nobody runs it, or contests the job:
\* that is why a queued job has no run.
Alone(j) == j \notin contested =>
  /\ \A v, w \in Running(j) : v = w
  /\ Running(j) # {} => ~stalled[j] /\ status[j] \notin {"none", "queued"}

\* A job whose file is on offer, withdrawn or being withdrawn.
Past(j) == status[j] \in {"ready", "expired"} \/ person[j] \in {"delete", "expire"}

\* Such a job is behind its run and will not get another; a run about to publish has
\* put the object, and only a person who saw it published takes it away.
Filed(j) == j \notin contested =>
  /\ Past(j) => /\ ~stalled[j] /\ status[j] \notin {"none", "queued", "running", "packaging"}
                /\ \A w \in Running(j) : at[w] = "end"
  /\ \A w \in Running(j) : at[w] = "publish" => file[j]
  /\ person[j] = "expire"  => ~file[j]
  /\ status[j] = "ready"   => file[j] \/ j \in deleted
  /\ status[j] = "expired" => ~file[j]

\* A job at work has a start the sweep can measure from: what takes it away is a retry,
\* which no run lives to see.
Begun(j) == j \notin contested =>
  (status[j] \in Active \/ Running(j) # {} => started[j])

IInv == /\ TypeOK /\ Attached
        /\ \A j \in Jobs : Paid(j) /\ Spent(j) /\ Alone(j) /\ Begun(j) /\ Filed(j)

-----------------------------------------------------------------------------

\* A queue stays within the bound whatever is put in it.
LEMMA PutType ==
  ASSUME TypeOK, NEW j \in Jobs
  PROVE  Put(j) \in [Jobs -> 0..MaxWakeups]
BY ExportAssumption DEF TypeOK, Put, ExportAssumption

\* A wake-up, lost or not, keeps the queue's and the fault count's types.
LEMMA WakeType ==
  ASSUME TypeOK, NEW j \in Jobs, Wake(j)
  PROVE  queue' \in [Jobs -> 0..MaxWakeups] /\ faults' \in 0..MaxFaults
<1>1. CASE queue' = Put(j) /\ UNCHANGED faults
  BY <1>1, PutType DEF TypeOK
<1>2. CASE UNCHANGED queue /\ Fault
  BY <1>2, ExportAssumption DEF TypeOK, Fault, ExportAssumption
<1> QED BY <1>1, <1>2 DEF Wake

\* Leaving a job frees the slot and touches no other.
LEMMA LeaveType ==
  ASSUME TypeOK, Attached, NEW w \in Workers, Leave(w)
  PROVE  /\ at' \in [Workers -> RunStep \union {"idle"}]
         /\ on' \in [Workers -> Jobs \union {NoJob}]
         /\ found' \in [Workers -> BOOLEAN]
         /\ Attached'
BY ExportAssumption DEF TypeOK, Attached, Free, Leave, ExportAssumption

\* A step of a run keeps its job.
LEMMA GotoType ==
  ASSUME TypeOK, Attached, NEW w \in Workers, ~Free(w), NEW step \in RunStep, Goto(w, step)
  PROVE  /\ at' \in [Workers -> RunStep \union {"idle"}]
         /\ on' = on /\ found' = found
         /\ Attached'
BY DEF TypeOK, Attached, Free, Goto, RunStep

\* Whatever a run does, it does to a job.
LEMMA RunIsOnJob ==
  ASSUME Attached, NEW w \in Workers, Run(w)
  PROVE  on[w] \in Jobs /\ ~Free(w)
<1>1. at[w] # "idle"
  <2> SUFFICES ASSUME at[w] = "idle" PROVE FALSE OBVIOUS
  <2>1. ~FailRun(w) BY DEF FailRun, RunStep
  <2>2. ~(Claim(w) \/ Rescope(w) \/ ReadPage(w) \/ Stop(w) \/ NextPage(w) \/ LastPage(w))
    BY DEF Claim, Rescope, ReadPage, Stop, NextPage, LastPage
  <2>3. ~(Package(w) \/ PutObject(w) \/ Publish(w) \/ End(w) \/ GiveUp(w))
    BY DEF Package, PutObject, Publish, End, GiveUp
  <2> QED BY <2>1, <2>2, <2>3 DEF Run
<1> QED BY <1>1 DEF Attached, Free

\* A failing run counts its failure and lets go of the job.
LEMMA FailRowType ==
  ASSUME TypeOK, Attached, NEW w \in Workers, on[w] \in Jobs, NEW charge \in Nat,
         FailRow(w, charge)
  PROVE  /\ status' \in [Jobs -> Status] /\ retries' \in [Jobs -> Nat]
         /\ stalled' \in [Jobs -> BOOLEAN]
         /\ at' \in [Workers -> RunStep \union {"idle"}]
         /\ on' \in [Workers -> Jobs \union {NoJob}]
         /\ found' \in [Workers -> BOOLEAN]
         /\ Attached'
<1>1. Leave(w) BY DEF FailRow
<1>2. status' \in [Jobs -> Status] BY DEF FailRow, Move, TypeOK, Status
<1>3. retries' \in [Jobs -> Nat] BY DEF FailRow, TypeOK
<1>4. stalled' \in [Jobs -> BOOLEAN] BY DEF FailRow, TypeOK
<1> QED BY <1>1, <1>2, <1>3, <1>4, LeaveType

-----------------------------------------------------------------------------
(* Types and slots *)

\* Every step keeps the types and leaves busy slots on jobs.
LEMMA TypeStep ==
  ASSUME TypeOK, Attached, [Next]_vars
  PROVE  TypeOK' /\ Attached'
<1> USE DEF row, slots, history
<1>1. ASSUME NEW j \in Jobs, Request(j) PROVE TypeOK' /\ Attached'
  <2>1. queue' \in [Jobs -> 0..MaxWakeups] BY <1>1, PutType DEF Request, TypeOK
  <2>2. status' \in [Jobs -> Status] BY <1>1 DEF Request, Move, TypeOK, Status
  <2> QED BY <1>1, <2>1, <2>2 DEF Request, TypeOK, Attached, Free
<1>2. ASSUME NEW j \in Jobs, Republish(j) PROVE TypeOK' /\ Attached'
  BY <1>2, WakeType DEF Republish, TypeOK, Attached, Free
<1>3. ASSUME NEW j \in Jobs, FailStalled(j) PROVE TypeOK' /\ Attached'
  BY <1>3 DEF FailStalled, Move, TypeOK, Status, Attached, Free
<1>4. ASSUME NEW j \in Jobs, Retry(j) PROVE TypeOK' /\ Attached'
  <2>1. queue' \in [Jobs -> 0..MaxWakeups] /\ faults' \in 0..MaxFaults
    BY <1>4, WakeType DEF Retry
  <2>2. /\ status' \in [Jobs -> Status] /\ stalled' \in [Jobs -> BOOLEAN]
        /\ started' \in [Jobs -> BOOLEAN]
    BY <1>4 DEF Retry, Move, TypeOK, Status
  <2> QED BY <1>4, <2>1, <2>2 DEF Retry, TypeOK, Attached, Free
<1>5. ASSUME NEW j \in Jobs, Person(j) PROVE TypeOK' /\ Attached'
  <2>1. CASE Ask(j) BY <2>1, ExportAssumption DEF Ask, Fault, TypeOK, Attached, Free, ExportAssumption
  <2>2. CASE Cancel(j) BY <2>2 DEF Cancel, Decided, Move, TypeOK, Status, Attached, Free
  <2>3. CASE DeleteObject(j) BY <2>3 DEF DeleteObject, Decided, TypeOK, Attached, Free
  <2>4. CASE Expire(j) BY <2>4 DEF Expire, Decided, Move, TypeOK, Status, Attached, Free
  <2>5. CASE AskFails(j) BY <2>5 DEF AskFails, TypeOK, Attached, Free
  <2> QED BY <1>5, <2>1, <2>2, <2>3, <2>4, <2>5 DEF Person
<1>6. ASSUME NEW w \in Workers, NEW j \in Jobs, Snapshot(w, j) PROVE TypeOK' /\ Attached'
  <2>1. queue' \in [Jobs -> 0..MaxWakeups]
    BY <1>6, ExportAssumption DEF Snapshot, TypeOK, ExportAssumption
  <2>2. /\ at' \in [Workers -> RunStep \union {"idle"}]
        /\ on' \in [Workers -> Jobs \union {NoJob}] /\ found' = found /\ Attached'
    <3>1. CASE at' = [at EXCEPT ![w] = "claim"] /\ on' = [on EXCEPT ![w] = j] /\ UNCHANGED found
      BY <3>1 DEF TypeOK, Attached, Free, RunStep
    <3>2. CASE UNCHANGED slots BY <3>2 DEF TypeOK, Attached, Free
    <3> QED BY <1>6, <3>1, <3>2 DEF Snapshot
  <2> QED BY <1>6, <2>1, <2>2 DEF Snapshot, TypeOK
<1>7. ASSUME NEW w \in Workers, Run(w) PROVE TypeOK' /\ Attached'
  <2>0. on[w] \in Jobs /\ ~Free(w) BY <1>7, RunIsOnJob
  <2>1. CASE Claim(w)
    <3>1. /\ status' \in [Jobs -> Status] /\ started' \in [Jobs -> BOOLEAN]
          /\ claims' \in [Jobs -> Nat]
      <4>1. CASE Claimable(on[w])
        <5>1. /\ status' = [status EXCEPT ![on[w]] = "running"]
              /\ started' = [started EXCEPT ![on[w]] = TRUE]
              /\ claims' = [claims EXCEPT ![on[w]] = @ + 1]
          BY <2>1, <4>1 DEF Claim, Move
        <5>2. status' \in [Jobs -> Status] BY <5>1 DEF TypeOK, Status, Active
        <5>3. started' \in [Jobs -> BOOLEAN] BY <5>1 DEF TypeOK
        <5>4. claims' \in [Jobs -> Nat] BY <2>0, <5>1 DEF TypeOK
        <5> QED BY <5>2, <5>3, <5>4
      <4>2. CASE UNCHANGED <<status, started, claims>>
        BY <4>2 DEF TypeOK
      <4> QED BY <2>1, <4>1, <4>2 DEF Claim
    <3>2. ~Free(w) BY <2>1 DEF Claim, Free
    <3>3. /\ at' \in [Workers -> RunStep \union {"idle"}]
          /\ on' \in [Workers -> Jobs \union {NoJob}]
          /\ found' \in [Workers -> BOOLEAN] /\ Attached'
      <4>1. CASE Goto(w, "scope") BY <4>1, <3>2, GotoType DEF RunStep, TypeOK
      <4>2. CASE Leave(w) BY <4>2, LeaveType
      <4> QED BY <2>1, <4>1, <4>2 DEF Claim
    <3> QED BY <2>1, <3>1, <3>3 DEF Claim, TypeOK
  <2>2. CASE Rescope(w)
    BY <2>2, GotoType DEF Rescope, Free, RunStep, TypeOK
  <2>3. CASE ReadPage(w)
    <3>1. at' \in [Workers -> RunStep \union {"idle"}]
      BY <2>3 DEF ReadPage, TypeOK, RunStep
    <3>2. found' \in [Workers -> BOOLEAN] BY <2>3 DEF ReadPage, TypeOK
    <3>3. Attached' BY <2>0, <2>3 DEF ReadPage, TypeOK, Attached, Free
    <3> QED BY <2>3, <3>1, <3>2, <3>3 DEF ReadPage, TypeOK
  <2>4. CASE Stop(w)
    BY <2>4, LeaveType DEF Stop, TypeOK
  <2>5. CASE NextPage(w)
    BY <2>5, GotoType DEF NextPage, Free, RunStep, TypeOK
  <2>6. CASE LastPage(w)
    BY <2>6, GotoType DEF LastPage, Free, RunStep, TypeOK
  <2>7. CASE Package(w)
    <3>1. status' \in [Jobs -> Status] BY <2>0, <2>7 DEF Package, Move, TypeOK, Status, Active
    <3> QED BY <2>7, <3>1, GotoType DEF Package, Free, RunStep, TypeOK
  <2>8. CASE PutObject(w)
    <3>1. file' \in [Jobs -> BOOLEAN] BY <2>0, <2>8 DEF PutObject, TypeOK
    <3> QED BY <2>8, <3>1, GotoType DEF PutObject, Free, RunStep, TypeOK
  <2>9. CASE Publish(w)
    <3>1. status' \in [Jobs -> Status] BY <2>0, <2>9 DEF Publish, Move, TypeOK, Status
    <3> QED BY <2>9, <3>1, GotoType DEF Publish, Free, RunStep, TypeOK
  <2>10. CASE End(w)
    BY <2>10, LeaveType DEF End, TypeOK
  <2>11. CASE GiveUp(w)
    <3>1. Budget \in Nat BY ExportAssumption DEF ExportAssumption
    <3> QED BY <2>0, <2>11, <3>1, FailRowType DEF GiveUp, FailRow, TypeOK
  <2>12. CASE FailRun(w)
    BY <2>0, <2>12, FailRowType DEF FailRun, FailRow, TypeOK
  <2> QED BY <1>7, <2>1, <2>2, <2>3, <2>4, <2>5, <2>6, <2>7, <2>8, <2>9, <2>10, <2>11, <2>12
          DEF Run
<1>8. ASSUME NEW w \in Workers, Crash(w) PROVE TypeOK' /\ Attached'
  <2>0. on[w] \in Jobs BY <1>8 DEF Crash, Attached
  <2>1. queue' \in [Jobs -> 0..MaxWakeups] BY <1>8, <2>0, PutType DEF Crash, TypeOK
  <2>2. faults' \in 0..MaxFaults BY <1>8, ExportAssumption DEF Crash, Fault, TypeOK, ExportAssumption
  <2> QED BY <1>8, <2>1, <2>2, LeaveType DEF Crash, TypeOK
<1>9. ASSUME UNCHANGED vars PROVE TypeOK' /\ Attached'
  BY <1>9 DEF vars, TypeOK, Attached, Free
<1> QED BY <1>1, <1>2, <1>3, <1>4, <1>5, <1>6, <1>7, <1>8, <1>9 DEF Next, Sweep

-----------------------------------------------------------------------------
(* The budget *)

\* What a step may do to one row, as far as the budget can tell.  Only Claim
\* counts a claim, only a stall marks a row for a retry, only a retry or the
\* request puts it in the queue, and no count goes down.
Same(j)     == /\ status'[j] = status[j] /\ retries'[j] = retries[j]
               /\ stalled'[j] = stalled[j] /\ claims'[j] = claims[j]
Requested(j) == /\ status[j] = "none" /\ retries'[j] = retries[j]
                /\ stalled'[j] = stalled[j] /\ claims'[j] = claims[j]
Claimed(j)  == /\ status[j] = "queued" /\ status'[j] = "running" /\ retries'[j] = retries[j]
               /\ stalled'[j] = stalled[j] /\ claims'[j] = claims[j] + 1
Written(j)  == /\ status'[j] \notin {"none", "queued"} /\ retries'[j] = retries[j]
               /\ stalled'[j] = stalled[j] /\ claims'[j] = claims[j]
Charged(j)  == /\ status'[j] = "failed" /\ retries'[j] >= retries[j]
               /\ ~stalled'[j] /\ claims'[j] = claims[j]
Swept(j)    == /\ status'[j] = "failed" /\ retries'[j] = retries[j] + 1
               /\ claims'[j] = claims[j]
               /\ Running(j) = {} \/ j \in contested'
Requeued(j) == /\ status'[j] = "queued" /\ stalled[j] /\ retries[j] < Budget /\ retries'[j] = retries[j]
               /\ ~stalled'[j] /\ claims'[j] = claims[j]

Moves(j) == \/ Same(j) \/ Requested(j) \/ Claimed(j) \/ Written(j)
            \/ Charged(j) \/ Swept(j) \/ Requeued(j)

\* Each of these keeps the claims paid for.
LEMMA MovesKeepPaid ==
  ASSUME TypeOK, TypeOK', NEW j \in Jobs, Paid(j), Moves(j)
  PROVE  Paid(j)'
<1> DEFINE r == retries[j]  c == claims[j]  r2 == retries'[j]  c2 == claims'[j]
<1>1. r \in Nat /\ c \in Nat /\ r2 \in Nat /\ c2 \in Nat /\ Budget \in Nat \ {0}
  BY ExportAssumption DEF TypeOK, ExportAssumption
<1>2. stalled[j] \in BOOLEAN /\ stalled'[j] \in BOOLEAN BY DEF TypeOK
<1>3. CASE Same(j) BY <1>3 DEF Same, Paid
<1>4. CASE Requested(j) BY <1>1, <1>4 DEF Requested, Paid
<1>5. CASE Claimed(j) BY <1>1, <1>5 DEF Claimed, Paid
<1>6. CASE Written(j) BY <1>6 DEF Written, Paid
<1>7. CASE Charged(j) BY <1>1, <1>7 DEF Charged, Paid
<1>8. CASE Swept(j) BY <1>1, <1>8 DEF Swept, Paid
<1>9. CASE Requeued(j) BY <1>1, <1>9 DEF Requeued, Paid
<1> QED BY <1>3, <1>4, <1>5, <1>6, <1>7, <1>8, <1>9 DEF Moves

\* A failing run charges its own job and leaves the others alone.
LEMMA FailRowMoves ==
  ASSUME TypeOK, NEW j \in Jobs, NEW w \in Workers, NEW charge \in Nat,
         FailRow(w, charge), UNCHANGED claims
  PROVE  Moves(j)
<1>1. CASE j = on[w]
  <2>1. status'[j] = "failed" BY <1>1 DEF FailRow, Move, TypeOK
  <2>2. retries'[j] = retries[j] + charge /\ retries[j] \in Nat BY <1>1 DEF FailRow, TypeOK
  <2>3. ~stalled'[j] BY <1>1 DEF FailRow, TypeOK
  <2> QED BY <2>1, <2>2, <2>3 DEF Moves, Charged
<1>2. CASE j # on[w]
  BY <1>2 DEF FailRow, Move, TypeOK, Moves, Same
<1> QED BY <1>1, <1>2

\* Every step of the lane is one of these for every job.
LEMMA StepMoves ==
  ASSUME TypeOK, Attached, [Next]_vars, NEW j \in Jobs
  PROVE  Moves(j)
<1> USE DEF row, slots, history
<1>1. ASSUME NEW k \in Jobs, Request(k) PROVE Moves(j)
  BY <1>1 DEF Request, Move, TypeOK, Moves, Same, Requested
<1>2. ASSUME NEW k \in Jobs, Republish(k) PROVE Moves(j)
  BY <1>2 DEF Republish, Moves, Same
<1>3. ASSUME NEW k \in Jobs, FailStalled(k) PROVE Moves(j)
  <2>1. CASE j = k
    <3>1. /\ status'[j] = "failed" /\ retries'[j] = retries[j] + 1
          /\ claims'[j] = claims[j]
      BY <1>3, <2>1 DEF FailStalled, Move, TypeOK
    <3>2. Running(j) = {} \/ j \in contested' BY <1>3, <2>1 DEF FailStalled
    <3> QED BY <3>1, <3>2 DEF Moves, Swept
  <2>2. CASE j # k BY <1>3, <2>2 DEF FailStalled, Move, TypeOK, Moves, Same
  <2> QED BY <2>1, <2>2
<1>4. ASSUME NEW k \in Jobs, Retry(k) PROVE Moves(j)
  <2>1. CASE j = k
    <3>1. /\ stalled[j] /\ retries[j] < Budget
          /\ retries'[j] = retries[j] /\ claims'[j] = claims[j]
      BY <1>4, <2>1 DEF Retry, RetryPending
    <3>2. status'[j] = "queued" BY <1>4, <2>1 DEF Retry, Move, TypeOK
    <3>3. ~stalled'[j] BY <1>4, <2>1 DEF Retry, TypeOK
    <3> QED BY <3>1, <3>2, <3>3 DEF Moves, Requeued
  <2>2. CASE j # k BY <1>4, <2>2 DEF Retry, Move, TypeOK, Moves, Same
  <2> QED BY <2>1, <2>2
<1>5. ASSUME NEW k \in Jobs, Person(k) PROVE Moves(j)
  BY <1>5 DEF Person, Ask, Cancel, DeleteObject, Expire, AskFails, Decided, Move, TypeOK,
                   Moves, Same, Written
<1>6. ASSUME NEW w \in Workers, NEW k \in Jobs, Snapshot(w, k) PROVE Moves(j)
  BY <1>6 DEF Snapshot, Moves, Same
<1>7. ASSUME NEW w \in Workers, Run(w) PROVE Moves(j)
  <2>0. on[w] \in Jobs BY <1>7, RunIsOnJob
  <2>1. CASE Claim(w)
    BY <2>0, <2>1 DEF Claim, Claimable, Move, TypeOK, Moves, Same, Claimed
  <2>2. CASE Rescope(w) \/ ReadPage(w) \/ Stop(w) \/ NextPage(w) \/ LastPage(w)
             \/ PutObject(w) \/ End(w)
    BY <2>2 DEF Rescope, ReadPage, Stop, NextPage, LastPage, PutObject, End, Moves, Same
  <2>3. CASE Package(w) \/ Publish(w)
    <3>1. CASE j = on[w]
      BY <2>3, <3>1 DEF Package, Publish, Move, TypeOK, Moves, Written
    <3>2. CASE j # on[w]
      BY <2>3, <3>2 DEF Package, Publish, Move, TypeOK, Moves, Same
    <3> QED BY <3>1, <3>2
  <2>4. CASE GiveUp(w)
    BY <2>4, ExportAssumption, FailRowMoves DEF GiveUp, ExportAssumption
  <2>5. CASE FailRun(w)
    BY <2>5, FailRowMoves DEF FailRun, history
  <2> QED BY <1>7, <2>1, <2>2, <2>3, <2>4, <2>5 DEF Run
<1>8. ASSUME NEW w \in Workers, Crash(w) PROVE Moves(j)
  BY <1>8 DEF Crash, Moves, Same
<1>9. ASSUME UNCHANGED vars PROVE Moves(j)
  BY <1>9 DEF vars, Moves, Same
<1> QED BY <1>1, <1>2, <1>3, <1>4, <1>5, <1>6, <1>7, <1>8, <1>9 DEF Next, Sweep

\* gaveUp gains a job only with the whole budget charged and the row failed.
LEMMA GivingUp ==
  ASSUME TypeOK, Attached, [Next]_vars, NEW j \in Jobs
  PROVE  \/ j \in gaveUp' => j \in gaveUp
         \/ retries'[j] >= Budget /\ status'[j] = "failed"
<1> USE DEF row, slots, history
<1>1. ASSUME NEW w \in Workers, GiveUp(w)
      PROVE  \/ j \in gaveUp' => j \in gaveUp
             \/ retries'[j] >= Budget /\ status'[j] = "failed"
  <2>1. CASE on[w] = j
    BY <1>1, <2>1, ExportAssumption DEF GiveUp, FailRow, Move, TypeOK, ExportAssumption
  <2>2. CASE on[w] # j BY <1>1, <2>2 DEF GiveUp
  <2> QED BY <2>1, <2>2
<1>2. (\A w \in Workers : ~GiveUp(w)) => gaveUp' = gaveUp
  BY DEF Next, Sweep, Person, Run, vars, Request, Republish, FailStalled, Retry, Ask, Cancel,
         DeleteObject, Expire, AskFails, Snapshot, Claim, Rescope, ReadPage, Stop, NextPage,
         LastPage, Package, PutObject, Publish, End, FailRun, Crash
<1> QED BY <1>1, <1>2

\* What was given up stays spent.
LEMMA SpentStep ==
  ASSUME IInv, TypeOK', [Next]_vars, NEW j \in Jobs
  PROVE  Spent(j)'
<1>1. Moves(j) BY StepMoves DEF IInv
<1>2. /\ retries[j] \in Nat /\ retries'[j] \in Nat /\ Budget \in Nat
  BY ExportAssumption DEF IInv, TypeOK, ExportAssumption
<1>3. Spent(j) BY DEF IInv
<1>4. CASE j \in gaveUp' => j \in gaveUp
  BY <1>1, <1>2, <1>3, <1>4
     DEF Spent, Moves, Same, Requested, Claimed, Written, Charged, Swept, Requeued
<1>5. CASE retries'[j] >= Budget /\ status'[j] = "failed"
  BY <1>5 DEF Spent
<1>6. TypeOK /\ Attached BY DEF IInv
<1> QED BY <1>4, <1>5, <1>6, GivingUp

-----------------------------------------------------------------------------
(* One run *)

\* A job once contested stays so.
LEMMA ContestedGrows ==
  ASSUME [Next]_vars
  PROVE  contested \subseteq contested'
<1> USE DEF history
<1>1. ASSUME NEW j \in Jobs, Request(j) \/ Sweep(j) \/ Person(j) PROVE contested \subseteq contested'
  BY <1>1 DEF Request, Sweep, Republish, FailStalled, Retry, Person, Ask, Cancel, DeleteObject,
              Expire, AskFails
<1>2. ASSUME NEW w \in Workers, Run(w) \/ Crash(w) PROVE contested \subseteq contested'
  BY <1>2 DEF Run, Claim, Rescope, ReadPage, Stop, NextPage, LastPage, Package, PutObject,
              Publish, End, GiveUp, FailRun, Crash
<1>3. ASSUME NEW w \in Workers, NEW j \in Jobs, Snapshot(w, j) PROVE contested \subseteq contested'
  BY <1>3 DEF Snapshot
<1>4. ASSUME UNCHANGED vars PROVE contested \subseteq contested'
  BY <1>4 DEF vars
<1> QED BY <1>1, <1>2, <1>3, <1>4 DEF Next

\* A slot that lets go, or goes on to its next step, starts no run.
LEMMA SlotShrinks ==
  ASSUME TypeOK, NEW j \in Jobs, NEW w \in Workers,
         \/ UNCHANGED slots
         \/ Leave(w)
         \/ /\ at[w] \notin {"idle", "claim"} /\ UNCHANGED on
            /\ \E step \in RunStep : at' = [at EXCEPT ![w] = step]
  PROVE  Running(j)' \subseteq Running(j)
<1>1. CASE UNCHANGED slots BY <1>1 DEF slots, Running
<1>2. CASE Leave(w) BY <1>2 DEF Leave, Running, TypeOK
<1>3. CASE /\ at[w] \notin {"idle", "claim"} /\ UNCHANGED on
           /\ \E step \in RunStep : at' = [at EXCEPT ![w] = step]
  BY <1>3 DEF Running, TypeOK
<1> QED BY <1>1, <1>2, <1>3

\* Only the claim starts a run.
LEMMA RunsShrink ==
  ASSUME TypeOK, Attached, [Next]_vars, \A w \in Workers : ~Claim(w), NEW j \in Jobs
  PROVE  Running(j)' \subseteq Running(j)
<1>1. ASSUME NEW k \in Jobs, Request(k) \/ Sweep(k) \/ Person(k)
      PROVE Running(j)' \subseteq Running(j)
  <2>1. UNCHANGED slots
    BY <1>1 DEF Request, Sweep, Republish, FailStalled, Retry, Person, Ask, Cancel,
                DeleteObject, Expire, AskFails
  <2> QED BY <2>1 DEF slots, Running
<1>2. ASSUME NEW w \in Workers, Run(w) PROVE Running(j)' \subseteq Running(j)
  <2>1. CASE Stop(w) \/ End(w) \/ GiveUp(w) \/ FailRun(w)
    BY <2>1, SlotShrinks DEF Stop, End, GiveUp, FailRun, FailRow
  <2>2. CASE Rescope(w) \/ NextPage(w) \/ LastPage(w) \/ Package(w) \/ PutObject(w) \/ Publish(w)
    <3>1. /\ at[w] \notin {"idle", "claim"} /\ UNCHANGED on
          /\ \E step \in RunStep : at' = [at EXCEPT ![w] = step]
      BY <2>2 DEF Rescope, NextPage, LastPage, Package, PutObject, Publish, Goto, RunStep
    <3> QED BY <3>1, SlotShrinks
  <2>3. CASE ReadPage(w)
    <3>1. /\ at[w] \notin {"idle", "claim"} /\ UNCHANGED on
          /\ \E step \in RunStep : at' = [at EXCEPT ![w] = step]
      BY <2>3 DEF ReadPage, RunStep
    <3> QED BY <3>1, SlotShrinks
  <2> QED BY <1>2, <2>1, <2>2, <2>3 DEF Run
<1>3. ASSUME NEW w \in Workers, Crash(w) PROVE Running(j)' \subseteq Running(j)
  BY <1>3, SlotShrinks DEF Crash
<1>4. ASSUME NEW w \in Workers, NEW k \in Jobs, Snapshot(w, k)
      PROVE Running(j)' \subseteq Running(j)
  <2>1. CASE UNCHANGED slots BY <2>1 DEF slots, Running
  <2>2. CASE at' = [at EXCEPT ![w] = "claim"] /\ on' = [on EXCEPT ![w] = k]
    BY <2>2 DEF Running, TypeOK
  <2> QED BY <1>4, <2>1, <2>2 DEF Snapshot
<1>5. ASSUME UNCHANGED vars PROVE Running(j)' \subseteq Running(j)
  BY <1>5 DEF vars, slots, Running
<1> QED BY <1>1, <1>2, <1>3, <1>4, <1>5 DEF Next

\* A claim takes a queued job, which has no run, and is its only one.
LEMMA ClaimAlone ==
  ASSUME IInv, NEW j \in Jobs, NEW w \in Workers, Claim(w)
  PROVE  Alone(j)'
<1>1. contested' = contested BY DEF Claim
<1>2. Alone(j) /\ Paid(j) /\ TypeOK /\ on[w] \in Jobs BY DEF IInv, Attached, Free, Claim
<1>3. CASE Claimable(on[w]) /\ j = on[w]
  <2> SUFFICES ASSUME j \notin contested PROVE Alone(j)' BY <1>1 DEF Alone
  <2>1. status[j] = "queued" BY <1>3 DEF Claimable
  <2>2. Running(j) = {} BY <1>2, <2>1 DEF Alone
  <2>3. ~stalled[j] BY <1>2, <2>1 DEF Paid
  <2>4. status'[j] = "running" /\ stalled' = stalled
    BY <1>2, <1>3 DEF Claim, Move, TypeOK
  <2>5. on' = on /\ \A v \in Workers \ {w} : at'[v] = at[v]
    BY <1>2, <1>3 DEF Claim, Goto, TypeOK
  <2>6. Running(j)' \subseteq {w} BY <2>2, <2>5 DEF Running
  <2> QED BY <2>3, <2>4, <2>6 DEF Alone
<1>4. CASE Claimable(on[w]) /\ j # on[w]
  <2>1. status'[j] = status[j] /\ stalled' = stalled
    BY <1>2, <1>4 DEF Claim, Move, TypeOK
  <2>2. on' = on /\ \A v \in Workers \ {w} : at'[v] = at[v]
    BY <1>2, <1>4 DEF Claim, Goto, TypeOK
  <2>3. Running(j)' \subseteq Running(j) BY <1>4, <2>2 DEF Running
  <2> QED BY <1>1, <1>2, <2>1, <2>3 DEF Alone
<1>5. CASE ~Claimable(on[w])
  <2>1. Leave(w) /\ UNCHANGED <<status, stalled>> BY <1>5 DEF Claim
  <2>2. Running(j)' \subseteq Running(j) BY <1>2, <2>1, SlotShrinks
  <2> QED BY <1>1, <1>2, <2>1, <2>2 DEF Alone
<1> QED BY <1>3, <1>4, <1>5

\* No step puts a second run on a job that nobody has contested.
LEMMA AloneStep ==
  ASSUME IInv, [Next]_vars, NEW j \in Jobs
  PROVE  Alone(j)'
<1>1. ASSUME NEW w \in Workers, Claim(w) PROVE Alone(j)'
  BY <1>1, ClaimAlone
<1>2. CASE \A w \in Workers : ~Claim(w)
  <2>1. Running(j)' \subseteq Running(j) BY <1>2, RunsShrink DEF IInv
  <2>2. contested \subseteq contested' BY ContestedGrows
  <2>3. Moves(j) BY StepMoves DEF IInv
  <2>4. Alone(j) BY DEF IInv
  <2> SUFFICES ASSUME j \notin contested', Running(j) # {}
               PROVE  ~stalled'[j] /\ status'[j] \notin {"none", "queued"}
    BY <2>1, <2>2, <2>4 DEF Alone
  <2>5. ~stalled[j] /\ status[j] \notin {"none", "queued"} BY <2>2, <2>4 DEF Alone
  <2> QED BY <2>3, <2>5
          DEF Moves, Same, Requested, Claimed, Written, Charged, Swept, Requeued
<1> QED BY <1>1, <1>2

\* A job that nobody contests has a start as long as it is active or has a run.
LEMMA BegunStep ==
  ASSUME IInv, [Next]_vars, NEW j \in Jobs
  PROVE  Begun(j)'
<1> USE DEF row, slots, history
<1>1. /\ TypeOK /\ Attached /\ Alone(j) /\ Begun(j)
      /\ contested \subseteq contested'
  BY ContestedGrows DEF IInv
<1>2. ASSUME NEW w \in Workers, Claim(w) PROVE Begun(j)'
  <2>1. on[w] \in Jobs BY <1>1, <1>2 DEF Attached, Free, Claim
  <2>2. CASE Claimable(on[w]) /\ j = on[w]
    BY <1>1, <1>2, <2>2 DEF Claim, TypeOK, Begun
  <2>3. CASE Claimable(on[w]) /\ j # on[w]
    <3>1. /\ status'[j] = status[j] /\ started'[j] = started[j] /\ on' = on
          /\ \A v \in Workers \ {w} : at'[v] = at[v]
      BY <1>1, <1>2, <2>3 DEF Claim, Goto, Move, TypeOK
    <3>2. Running(j)' \subseteq Running(j) BY <2>3, <3>1 DEF Running
    <3> QED BY <1>1, <3>1, <3>2 DEF Begun
  <2>4. CASE ~Claimable(on[w])
    <3>1. Leave(w) /\ UNCHANGED <<status, started>> BY <1>2, <2>4 DEF Claim
    <3>2. Running(j)' \subseteq Running(j) BY <1>1, <3>1, SlotShrinks
    <3> QED BY <1>1, <3>1, <3>2 DEF Begun
  <2> QED BY <2>2, <2>3, <2>4
<1>3. CASE \A w \in Workers : ~Claim(w)
  <2> SUFFICES ASSUME j \notin contested', status'[j] \in Active \/ Running(j)' # {}
               PROVE  started'[j]
    BY DEF Begun
  <2>1. Running(j)' \subseteq Running(j) BY <1>1, <1>3, RunsShrink
  <2>2. ASSUME NEW k \in Jobs, Request(k) \/ Republish(k) \/ FailStalled(k) \/ Person(k)
        PROVE  started'[j]
    <3>1. started' = started /\ (status'[j] \in Active => status[j] \in Active)
      BY <1>1, <2>2 DEF Request, Republish, FailStalled, Person, Ask, Cancel, DeleteObject, Expire,
                        AskFails, Move, TypeOK, Active
    <3> QED BY <1>1, <2>1, <3>1 DEF Begun
  <2>3. ASSUME NEW k \in Jobs, Retry(k) PROVE started'[j]
    <3>1. CASE j = k
      <4>1. stalled[j] /\ status'[j] = "queued" BY <1>1, <2>3, <3>1 DEF Retry, RetryPending, Move, TypeOK
      <4>2. Running(j) = {} BY <1>1, <4>1 DEF Alone
      <4> QED BY <2>1, <4>1, <4>2 DEF Active
    <3>2. CASE j # k
      <4>1. status'[j] = status[j] /\ started'[j] = started[j]
        BY <1>1, <2>3, <3>2 DEF Retry, Move, TypeOK
      <4> QED BY <1>1, <2>1, <4>1 DEF Begun
    <3> QED BY <3>1, <3>2
  <2>4. ASSUME NEW w \in Workers, Package(w) PROVE started'[j]
    <3>1. started' = started /\ on[w] \in Jobs /\ at[w] = "package"
      BY <1>1, <2>4 DEF Package, Attached, Free
    <3>2. CASE j = on[w] BY <1>1, <3>1, <3>2 DEF Running, Begun
    <3>3. CASE j # on[w]
      <4>1. status'[j] = status[j] BY <1>1, <2>4, <3>3 DEF Package, Move, TypeOK
      <4> QED BY <1>1, <2>1, <3>1, <4>1 DEF Begun
    <3> QED BY <3>2, <3>3
  <2>5. ASSUME NEW w \in Workers, Run(w), ~Claim(w), ~Package(w) PROVE started'[j]
    <3>1. started' = started /\ (status'[j] \in Active => status[j] \in Active)
      BY <1>1, <2>5 DEF Run, Rescope, ReadPage, Stop, NextPage, LastPage, PutObject, Publish, End,
                        GiveUp, FailRun, FailRow, Move, TypeOK, Active
    <3> QED BY <1>1, <2>1, <3>1 DEF Begun
  <2>6. ASSUME UNCHANGED row PROVE started'[j]
    BY <1>1, <2>1, <2>6 DEF Begun
  <2>7. ASSUME NEW w \in Workers, Crash(w) \/ \E k \in Jobs : Snapshot(w, k) PROVE UNCHANGED row
    BY <2>7 DEF Crash, Snapshot
  <2> QED BY <1>3, <2>2, <2>3, <2>4, <2>5, <2>6, <2>7 DEF Next, Sweep, vars
<1> QED BY <1>2, <1>3

-----------------------------------------------------------------------------
(* The file *)

\* A step that leaves the row, the request and the file of a job alone, and at most
\* ends runs of it.
LEMMA FiledStays ==
  ASSUME NEW j \in Jobs, Filed(j), contested \subseteq contested',
         status'[j] = status[j], stalled'[j] = stalled[j], file'[j] = file[j],
         person'[j] = person[j], deleted' = deleted,
         \A w \in Running(j)' : w \in Running(j) /\ at'[w] = at[w]
  PROVE  Filed(j)'
BY DEF Filed, Past

\* What others do to a job that a slot has nothing to do with.
LEMMA RunsElsewhere ==
  ASSUME TypeOK, NEW j \in Jobs, NEW w \in Workers, on[w] # j,
         Leave(w) \/ (\E step \in RunStep : Goto(w, step))
  PROVE  \A v \in Running(j)' : v \in Running(j) /\ at'[v] = at[v]
BY DEF Leave, Goto, Running, TypeOK

\* A slot that leaves the job leaves its other runs where they were.
LEMMA RunsAfterLeave ==
  ASSUME TypeOK, NEW j \in Jobs, NEW w \in Workers, Leave(w)
  PROVE  \A v \in Running(j)' : v \in Running(j) /\ at'[v] = at[v]
BY DEF Leave, Running, TypeOK

\* The sweep and the person move the row and not the runs.
LEMMA FiledRowStep ==
  ASSUME IInv, NEW j \in Jobs, NEW k \in Jobs, Request(k) \/ Sweep(k) \/ Person(k)
  PROVE  Filed(j)'
<1> USE DEF row, slots, history
<1>1. contested \subseteq contested' /\ TypeOK /\ Filed(j)
  BY ContestedGrows DEF IInv, Next
<1>2. UNCHANGED <<at, on>> /\ Running(j)' = Running(j)
  BY DEF Request, Sweep, Republish, FailStalled, Retry, Person, Ask, Cancel, DeleteObject,
         Expire, AskFails, Running
<1>3. CASE j # k
  <2>1. /\ status'[j] = status[j] /\ stalled'[j] = stalled[j] /\ file'[j] = file[j]
        /\ person'[j] = person[j] /\ (j \in deleted' <=> j \in deleted)
    BY <1>1, <1>3 DEF Request, Sweep, Republish, FailStalled, Retry, Person, Ask, Cancel,
                      DeleteObject, Expire, AskFails, Decided, Move, TypeOK
  <2> QED BY <1>1, <1>2, <2>1 DEF Filed, Past
<1>4. CASE j = k /\ (Request(k) \/ Republish(k))
  BY <1>1, <1>2, <1>4 DEF Request, Republish, Move, TypeOK, Filed, Past
<1>5. CASE j = k /\ (FailStalled(k) \/ Retry(k))
  BY <1>1, <1>2, <1>5 DEF FailStalled, Retry, RetryPending, Active, Move, TypeOK, Filed, Past
<1>6. CASE j = k /\ (Ask(k) \/ Cancel(k) \/ AskFails(k))
  BY <1>1, <1>2, <1>6 DEF Ask, Cancel, AskFails, Decided, Move, TypeOK, Filed, Past
<1>7. CASE j = k /\ (DeleteObject(k) \/ Expire(k))
  BY <1>1, <1>2, <1>7 DEF DeleteObject, Expire, Decided, Move, TypeOK, Filed, Past
<1> QED BY <1>3, <1>4, <1>5, <1>6, <1>7 DEF Sweep, Person

\* A run moves the row and the file of the job it is on.
LEMMA FiledRunStep ==
  ASSUME IInv, NEW j \in Jobs, NEW w \in Workers, Run(w)
  PROVE  Filed(j)'
<1> USE DEF row, slots, history
<1>1. /\ contested \subseteq contested' /\ TypeOK /\ Filed(j) /\ Alone(j) /\ Paid(j)
      /\ on[w] \in Jobs /\ deleted' = deleted
  <2>1. contested \subseteq contested' BY ContestedGrows DEF Next
  <2>2. on[w] \in Jobs BY RunIsOnJob DEF IInv
  <2>3. deleted' = deleted
    BY DEF Run, Claim, Rescope, ReadPage, Stop, NextPage, LastPage, Package, PutObject, Publish,
           End, GiveUp, FailRun, FailRow
  <2> QED BY <2>1, <2>2, <2>3 DEF IInv
<1>2. CASE on[w] # j
  <2>1. /\ status'[j] = status[j] /\ stalled'[j] = stalled[j] /\ file'[j] = file[j]
        /\ person'[j] = person[j]
    BY <1>1, <1>2 DEF Run, Claim, Rescope, ReadPage, Stop, NextPage, LastPage, Package, PutObject,
                      Publish, End, GiveUp, FailRun, FailRow, Move, TypeOK
  <2>2. \A v \in Running(j)' : v \in Running(j) /\ at'[v] = at[v]
    <3>1. CASE ReadPage(w) BY <1>1, <1>2, <3>1 DEF ReadPage, Running, TypeOK
    <3>2. CASE ~ReadPage(w)
      <4>1. Leave(w) \/ (\E step \in RunStep : Goto(w, step))
        BY <3>2 DEF Run, Claim, Rescope, Stop, NextPage, LastPage, Package, PutObject, Publish,
                    End, GiveUp, FailRun, FailRow, RunStep
      <4> QED BY <1>1, <1>2, <4>1, RunsElsewhere
    <3> QED BY <3>1, <3>2
  <2> QED BY <1>1, <2>1, <2>2, FiledStays
<1>3. CASE on[w] = j /\ (Stop(w) \/ End(w))
  <2>1. \A v \in Running(j)' : v \in Running(j) /\ at'[v] = at[v]
    BY <1>1, <1>3, RunsAfterLeave DEF Stop, End
  <2> QED BY <1>1, <1>3, <2>1, FiledStays DEF Stop, End
<1>4. CASE on[w] = j /\ Claim(w)
  <2>1. CASE Claimable(j)
    <3>1. status[j] = "queued" /\ status'[j] = "running" /\ UNCHANGED <<stalled, file, person>>
      BY <1>1, <1>4, <2>1 DEF Claim, Claimable, Move, TypeOK
    <3>2. j \notin contested => Running(j) = {} BY <1>1, <3>1 DEF Alone
    <3>3. \A v \in Running(j)' : v \in Running(j) \/ at'[v] = "scope"
      BY <1>1, <1>4, <2>1 DEF Claim, Goto, Running, TypeOK
    <3> QED BY <1>1, <3>1, <3>2, <3>3 DEF Filed, Past
  <2>2. CASE ~Claimable(j)
    <3>1. Leave(w) /\ UNCHANGED <<status, stalled, file, person>> BY <1>4, <2>2 DEF Claim
    <3> QED BY <1>1, <3>1, RunsAfterLeave, FiledStays
  <2> QED BY <2>1, <2>2
<1>5. ASSUME on[w] = j, at[w] \notin {"idle", "claim"}, j \notin contested
      PROVE  /\ w \in Running(j) /\ \A v \in Running(j) : v = w
             /\ ~stalled[j] /\ status[j] \notin {"none", "queued"}
             /\ at[w] # "end" => ~Past(j)
  BY <1>1, <1>5 DEF Running, Alone, Filed
<1>6. CASE on[w] = j /\ (Rescope(w) \/ ReadPage(w) \/ NextPage(w) \/ LastPage(w))
  <2>1. at[w] \in {"scope", "page", "look"} /\ UNCHANGED <<status, stalled, file, person>>
    BY <1>6 DEF Rescope, ReadPage, NextPage, LastPage
  <2>2. \A v \in Running(j)' : v \in Running(j)
    BY <1>1, <1>6 DEF Rescope, ReadPage, NextPage, LastPage, Goto, Running, TypeOK
  <2>3. at'[w] # "publish"
    BY <1>1, <1>6 DEF Rescope, ReadPage, NextPage, LastPage, Goto, TypeOK
  <2> QED BY <1>1, <1>5, <1>6, <2>1, <2>2, <2>3 DEF Filed, Past
<1>7. CASE on[w] = j /\ (Package(w) \/ PutObject(w) \/ Publish(w))
  <2>1. \A v \in Running(j)' : v \in Running(j)
    BY <1>1, <1>7 DEF Package, PutObject, Publish, Goto, Running, TypeOK
  <2>2. CASE Package(w)
    <3>1. /\ at[w] = "package" /\ at'[w] = "put" /\ status'[j] = "packaging"
          /\ UNCHANGED <<stalled, file, person>>
      BY <1>1, <1>7, <2>2 DEF Package, Goto, Move, TypeOK
    <3> QED BY <1>1, <1>5, <1>7, <2>1, <3>1 DEF Filed, Past
  <2>3. CASE PutObject(w)
    <3>1. at[w] = "put" /\ file'[j] /\ UNCHANGED <<status, stalled, person>>
      BY <1>1, <1>7, <2>3 DEF PutObject, TypeOK
    <3> QED BY <1>1, <1>5, <1>7, <2>1, <3>1 DEF Filed, Past
  <2>4. CASE Publish(w)
    <3>1. /\ at[w] = "publish" /\ at'[w] = "end" /\ status'[j] = "ready"
          /\ UNCHANGED <<stalled, file, person>>
      BY <1>1, <1>7, <2>4 DEF Publish, Goto, Move, TypeOK
    <3> QED BY <1>1, <1>5, <1>7, <2>1, <3>1 DEF Filed, Past
  <2> QED BY <1>7, <2>2, <2>3, <2>4
<1>8. CASE on[w] = j /\ (GiveUp(w) \/ FailRun(w))
  <2>1. /\ at[w] \notin {"idle", "claim"} /\ status'[j] = "failed" /\ ~stalled'[j]
        /\ UNCHANGED <<file, person>> /\ Leave(w)
    BY <1>1, <1>8 DEF GiveUp, FailRun, FailRow, Move, TypeOK, RunStep
  <2>2. \A v \in Running(j)' : v \in Running(j) /\ at'[v] = at[v]
    BY <1>1, <2>1, RunsAfterLeave
  <2> QED BY <1>1, <2>1, <2>2 DEF Filed, Past
<1> QED BY <1>2, <1>3, <1>4, <1>6, <1>7, <1>8 DEF Run

\* The row keeps telling the truth about the file.
LEMMA FiledStep ==
  ASSUME IInv, [Next]_vars, NEW j \in Jobs
  PROVE  Filed(j)'
<1>1. contested \subseteq contested' /\ TypeOK /\ Filed(j)
  BY ContestedGrows DEF IInv
<1>2. ASSUME NEW w \in Workers, Crash(w) PROVE Filed(j)'
  BY <1>1, <1>2, RunsAfterLeave, FiledStays DEF Crash, row, history
<1>3. ASSUME NEW w \in Workers, NEW k \in Jobs, Snapshot(w, k) PROVE Filed(j)'
  <2>1. \A v \in Running(j)' : v \in Running(j) /\ at'[v] = at[v]
    BY <1>1, <1>3 DEF Snapshot, Free, Running, TypeOK, slots
  <2> QED BY <1>1, <1>3, <2>1, FiledStays DEF Snapshot, row, history
<1>4. CASE UNCHANGED vars
  <2>1. \A v \in Running(j)' : v \in Running(j) /\ at'[v] = at[v]
    BY <1>4 DEF vars, slots, Running
  <2> QED BY <1>1, <1>4, <2>1, FiledStays DEF vars, row, history
<1> QED BY <1>2, <1>3, <1>4, FiledRowStep, FiledRunStep DEF Next

-----------------------------------------------------------------------------
(* The theorems *)

\* The initial state satisfies the inductive invariant.
LEMMA InitIInv == Init => IInv
<1> SUFFICES ASSUME Init PROVE IInv OBVIOUS
<1>1. TypeOK BY ExportAssumption DEF Init, TypeOK, Status, ExportAssumption
<1>2. Attached BY ExportAssumption DEF Init, Attached, Free, ExportAssumption
<1>3. \A j \in Jobs : Paid(j) /\ Spent(j)
  BY ExportAssumption DEF Init, Paid, Spent, ExportAssumption
<1>4. \A j \in Jobs : Alone(j) BY DEF Init, Alone, Running
<1>5. \A j \in Jobs : Filed(j) BY DEF Init, Filed, Past, Running
<1>6. \A j \in Jobs : Begun(j) BY DEF Init, Begun, Running, Active
<1> QED BY <1>1, <1>2, <1>3, <1>4, <1>5, <1>6 DEF IInv

\* Every step keeps it.
LEMMA StepIInv == IInv /\ [Next]_vars => IInv'
<1> SUFFICES ASSUME IInv, [Next]_vars PROVE IInv' OBVIOUS
<1>1. TypeOK' /\ Attached' BY TypeStep DEF IInv
<1>2. ASSUME NEW j \in Jobs PROVE Paid(j)'
  BY <1>1, <1>2, StepMoves, MovesKeepPaid DEF IInv
<1>3. ASSUME NEW j \in Jobs PROVE Spent(j)'
  BY <1>1, <1>3, SpentStep
<1>4. ASSUME NEW j \in Jobs PROVE Alone(j)'
  BY <1>4, AloneStep
<1>5. ASSUME NEW j \in Jobs PROVE Filed(j)'
  BY <1>5, FiledStep
<1>6. ASSUME NEW j \in Jobs PROVE Begun(j)'
  BY <1>6, BegunStep
<1> QED BY <1>1, <1>2, <1>3, <1>4, <1>5, <1>6 DEF IInv

\* The inductive invariant of the export lane: types, slots that are on jobs,
\* claims paid for by counted failures, and runs that are alone.
THEOREM Invariance == Spec => []IInv
BY InitIInv, StepIInv, PTL DEF Spec

\* Every column, queue and slot of the export lane keeps its type.
THEOREM TypeCorrect == Spec => []TypeOK
<1>1. IInv => TypeOK BY DEF IInv
<1> QED BY <1>1, Invariance, PTL

\* No job is run more often than the budget allows, however slow runs, sweeps and
\* retries of export-sweep.ts overlap.
THEOREM BudgetIsKept == Spec => []RunsWithinBudget
<1>1. IInv => RunsWithinBudget BY DEF IInv, Paid, RunsWithinBudget
<1> QED BY <1>1, Invariance, PTL

\* A job that failed for good (PermanentExportError) is never queued again.
THEOREM GivenUpIsFinal == Spec => []GivenUpStaysDown
<1>1. IInv => GivenUpStaysDown
  <2> SUFFICES ASSUME IInv, NEW j \in gaveUp PROVE status[j] # "queued"
    BY DEF GivenUpStaysDown
  <2>1. j \in Jobs BY DEF IInv, TypeOK
  <2> QED BY <2>1 DEF IInv, Spent
<1> QED BY <1>1, Invariance, PTL

\* Two workers racing one job produce one run, unless the sweep took the job from a
\* live one.
THEOREM RunsAlone == Spec => []OneRun
<1>1. IInv => OneRun BY DEF IInv, Alone, OneRun
<1> QED BY <1>1, Invariance, PTL

\* What can be downloaded is there unless a person has just deleted it, and an expired
\* job leaves nothing behind, unless the sweep took the job from a live run.
THEOREM FilesAreThere == Spec => []FileMatchesRow
<1>1. IInv => FileMatchesRow BY DEF IInv, Filed, FileMatchesRow
<1> QED BY <1>1, Invariance, PTL

\* An export that no sweep will find again was taken from a live run: everything else
\* that is running or packaging has a started_at, which is what export-sweep.ts asks for.
THEOREM UnsweptAreContested == Spec => [](\A j \in Jobs : Unswept(j) => j \in contested)
<1>1. IInv => \A j \in Jobs : Unswept(j) => j \in contested
  BY DEF IInv, Begun, Unswept, Active
<1> QED BY <1>1, Invariance, PTL

\* A job whose runs end within STALLED_AFTER is never contested.
InTime == contested \subseteq Overrun

\* Nobody but the sweep of a live run contests a job: OneRun and FileMatchesRow exempt
\* no job whose runs end in time, whatever the others do, and ExportEnds exempts
\* nothing where all runs do.
THEOREM InTimeNoneIsContested == Spec => []InTime
<1>1. Init => InTime BY DEF Init, InTime
<1>2. InTime /\ [Next]_vars => InTime'
  <2> SUFFICES ASSUME contested \subseteq Overrun, [Next]_vars PROVE contested' \subseteq Overrun
      BY DEF InTime
  <2> USE DEF history
  <2>1. ASSUME NEW j \in Jobs, FailStalled(j) PROVE contested' \subseteq Overrun
    BY <2>1 DEF FailStalled
  <2>2. ASSUME NEW j \in Jobs, Request(j) \/ Republish(j) \/ Retry(j) \/ Person(j) PROVE contested' \subseteq Overrun
    BY <2>2 DEF Request, Republish, Retry, Person, Ask, Cancel, DeleteObject, Expire, AskFails
  <2>3. ASSUME NEW w \in Workers, Run(w) \/ Crash(w) \/ \E j \in Jobs : Snapshot(w, j)
        PROVE  contested' \subseteq Overrun
    BY <2>3 DEF Run, Claim, Rescope, ReadPage, Stop, NextPage, LastPage, Package, PutObject,
                      Publish, End, GiveUp, FailRun, Crash, Snapshot
  <2> QED BY <2>1, <2>2, <2>3 DEF Next, Sweep, vars
<1> QED BY <1>1, <1>2, PTL DEF Spec

-----------------------------------------------------------------------------
(* How far over the limit the claim can go                                  *)

\* The jobs that count against the limit, and those a slot is on or about to claim.
ActiveJobs == {j \in Jobs : status[j] \in Active}
Busy       == {w \in Workers : ~Free(w)}
Held       == {on[w] : w \in Busy}
Placed     == ActiveJobs \union Held

\* A snapshot that finds a place starts from fewer than Cap jobs; the slots add at most
\* one each, and until the next such snapshot no job joins the others.
CapInv == /\ IsFiniteSet(Placed)
          /\ Cardinality(Placed) < Cap + Cardinality(Workers)

LEMMA WorkerCount == Cardinality(Workers) \in Nat
BY ExportAssumption, FS_CardinalityType DEF ExportAssumption

\* There are no more jobs in hand than slots.
LEMMA HeldBound == IsFiniteSet(Held) /\ Cardinality(Held) <= Cardinality(Workers)
<1>1. IsFiniteSet(Busy) /\ Cardinality(Busy) <= Cardinality(Workers)
  BY ExportAssumption, FS_Subset DEF ExportAssumption, Busy
<1>2. Cardinality(Busy) \in Nat
  BY <1>1, FS_CardinalityType
<1> DEFINE Hand == [w \in Busy |-> on[w]]
<1>3. Hand \in Surjection(Busy, Held)
  BY DEF Surjection, Held
<1>4. IsFiniteSet(Held) /\ Cardinality(Held) <= Cardinality(Busy)
  BY <1>1, <1>3, FS_Surjection
<1>5. Cardinality(Held) \in Nat
  BY <1>4, FS_CardinalityType
<1> QED BY <1>1, <1>2, <1>4, <1>5, WorkerCount

\* A set of jobs with no new member keeps the bound.
LEMMA PlacedShrinks ==
  ASSUME CapInv, Placed' \subseteq Placed
  PROVE  CapInv'
<1>1. IsFiniteSet(Placed') /\ Cardinality(Placed') <= Cardinality(Placed)
  BY FS_Subset DEF CapInv
<1>2. Cardinality(Placed) \in Nat /\ Cardinality(Placed') \in Nat
  BY <1>1, FS_CardinalityType DEF CapInv
<1> QED BY <1>1, <1>2, WorkerCount, ExportAssumption DEF CapInv, ExportAssumption

\* A slot keeps its job or drops it, and a row becomes active by the hand of a slot.
LEMMA NoneJoins ==
  ASSUME \A w \in Workers : at'[w] # "idle" => at[w] # "idle" /\ on'[w] = on[w],
         \A j \in Jobs : status'[j] \in Active =>
           status[j] \in Active \/ \E w \in Workers : at[w] # "idle" /\ on[w] = j
  PROVE  Placed' \subseteq Placed
<1>1. Held' \subseteq Held
  BY DEF Held, Busy, Free
<1>2. ActiveJobs' \subseteq ActiveJobs \union Held
  BY DEF ActiveJobs, Held, Busy, Free
<1> QED BY <1>1, <1>2 DEF Placed

\* A run that moves on.
LEMMA RunStays ==
  ASSUME TypeOK, Attached, NEW w \in Workers, Run(w)
  PROVE  Placed' \subseteq Placed
<1>1. on[w] \in Jobs /\ at[w] # "idle"
  BY RunIsOnJob DEF Free
<1>2. \A j \in Jobs \ {on[w]} : status'[j] = status[j]
  BY <1>1 DEF Run, Claim, Rescope, ReadPage, Stop, NextPage, LastPage, Package, PutObject,
              Publish, End, GiveUp, FailRun, FailRow, Move, TypeOK, row
<1>3. \A v \in Workers : at'[v] # "idle" => at[v] # "idle" /\ on'[v] = on[v]
  <2>1. CASE Leave(w)
    BY <2>1 DEF Leave, TypeOK
  <2>2. CASE on' = on /\ \E step : at' = [at EXCEPT ![w] = step]
    BY <2>2, <1>1 DEF TypeOK
  <2>3. Leave(w) \/ (on' = on /\ \E step : at' = [at EXCEPT ![w] = step])
    BY DEF Run, Claim, Rescope, ReadPage, Stop, NextPage, LastPage, Package, PutObject,
           Publish, End, GiveUp, FailRun, FailRow, Goto
  <2> QED BY <2>1, <2>2, <2>3
<1> QED BY <1>1, <1>2, <1>3, NoneJoins

\* A snapshot counts again: what is active then is below the limit, whoever has gone
\* over it since the last one.
LEMMA SnapshotCounts ==
  ASSUME TypeOK, CapInv, NEW w \in Workers, NEW j \in Jobs, Snapshot(w, j)
  PROVE  CapInv'
<1>1. CASE UNCHANGED slots
  BY <1>1, NoneJoins, PlacedShrinks DEF Snapshot, slots, row
<1>2. CASE Cardinality(ActiveJobs) < Cap
  <2>1. IsFiniteSet(ActiveJobs)
    BY FS_Subset DEF CapInv, Placed
  <2>2. ActiveJobs' = ActiveJobs
    BY DEF Snapshot, row, ActiveJobs
  <2>3. IsFiniteSet(Held') /\ Cardinality(Held') <= Cardinality(Workers)
    <3>1. (IsFiniteSet(Held) /\ Cardinality(Held) <= Cardinality(Workers))'
      BY HeldBound, PTL
    <3> QED BY <3>1
  <2>4. /\ IsFiniteSet(ActiveJobs \union Held')
        /\ Cardinality(ActiveJobs \union Held') =
             Cardinality(ActiveJobs) + Cardinality(Held') - Cardinality(ActiveJobs \cap Held')
    BY <2>1, <2>3, FS_Union
  <2>5. IsFiniteSet(ActiveJobs \cap Held')
    BY <2>1, FS_Intersection
  <2>6. /\ Cardinality(ActiveJobs) \in Nat /\ Cardinality(Held') \in Nat
        /\ Cardinality(ActiveJobs \cap Held') \in Nat
    BY <2>1, <2>3, <2>5, FS_CardinalityType
  <2>7. Cardinality(ActiveJobs \union Held') < Cap + Cardinality(Workers)
    BY <1>2, <2>3, <2>4, <2>6, WorkerCount, ExportAssumption DEF ExportAssumption
  <2> QED BY <2>2, <2>4, <2>7 DEF CapInv, Placed
<1> QED BY <1>1, <1>2 DEF Snapshot, Places, ActiveJobs

LEMMA CapStep ==
  ASSUME TypeOK, Attached, CapInv, [Next]_vars
  PROVE  CapInv'
<1>1. ASSUME NEW j \in Jobs, Request(j) \/ Sweep(j) \/ Person(j) PROVE CapInv'
  <2>1. UNCHANGED slots
    BY <1>1 DEF Request, Sweep, Republish, FailStalled, Retry, Person, Ask, Cancel,
                DeleteObject, Expire, AskFails
  <2>2. \A k \in Jobs : status'[k] \in Active => status[k] \in Active
    BY <1>1 DEF Request, Sweep, Republish, FailStalled, Retry, Person, Ask, Cancel,
                DeleteObject, Expire, AskFails, Move, TypeOK, Active, row
  <2> QED BY <2>1, <2>2, NoneJoins, PlacedShrinks DEF slots
<1>2. ASSUME NEW w \in Workers, Run(w) PROVE CapInv'
  BY <1>2, RunStays, PlacedShrinks
<1>3. ASSUME NEW w \in Workers, Crash(w) PROVE CapInv'
  <2>1. \A v \in Workers : at'[v] # "idle" => at[v] # "idle" /\ on'[v] = on[v]
    BY <1>3 DEF Crash, Leave, TypeOK
  <2> QED BY <1>3, <2>1, NoneJoins, PlacedShrinks DEF Crash, row
<1>4. ASSUME NEW w \in Workers, NEW j \in Jobs, Snapshot(w, j) PROVE CapInv'
  BY <1>4, SnapshotCounts
<1>5. CASE UNCHANGED vars
  BY <1>5, NoneJoins, PlacedShrinks DEF vars, slots, row
<1> QED BY <1>1, <1>2, <1>3, <1>4, <1>5 DEF Next

\* CapNearlyHolds: what the claim's sub-select does guarantee, for any number of jobs:
\* the limit is passed by less than one job per slot.
THEOREM CapIsNearlyKept == Spec => []CapNearlyHolds
<1>1. Init => CapInv
  <2> SUFFICES ASSUME Init PROVE CapInv OBVIOUS
  <2>1. Placed = {}
    BY DEF Init, Placed, ActiveJobs, Held, Busy, Free, Active
  <2> QED BY <2>1, FS_EmptySet, WorkerCount, ExportAssumption DEF CapInv, ExportAssumption
<1>2. IInv /\ CapInv /\ [Next]_vars => CapInv'
  BY CapStep DEF IInv
<1>3. CapInv => CapNearlyHolds
  <2> SUFFICES ASSUME CapInv PROVE CapNearlyHolds OBVIOUS
  <2>1. IsFiniteSet(ActiveJobs) /\ Cardinality(ActiveJobs) <= Cardinality(Placed)
    BY FS_Subset DEF CapInv, Placed
  <2>2. Cardinality(ActiveJobs) \in Nat /\ Cardinality(Placed) \in Nat
    BY <2>1, FS_CardinalityType DEF CapInv
  <2> QED BY <2>1, <2>2, WorkerCount, ExportAssumption
          DEF CapInv, CapNearlyHolds, ActiveJobs, ExportAssumption
<1> QED BY <1>1, <1>2, <1>3, Invariance, PTL DEF Spec
=============================================================================
