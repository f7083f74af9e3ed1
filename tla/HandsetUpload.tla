---------------------------- MODULE HandsetUpload ----------------------------
(***************************************************************************)
(* A recording's way off the phone: the handset's upload worker, the two   *)
(* API handlers it talks to (POST /v1/calls and POST /v1/calls/:id/        *)
(* complete), and the server's sweep of uploads that never came.           *)
(*                                                                         *)
(* The handset gives up on a request while the server may still be serving *)
(* it: a handler runs in a slot of its own, and its answer counts only if  *)
(* somebody still waits for it.  A request is stored, looked up and        *)
(* answered in separate steps wherever the code holds no transaction.      *)
(***************************************************************************)
EXTENDS Naturals, FiniteSets

CONSTANTS Recordings,  \* rows of the handset's own database
          Rows,        \* bound: ids of the calls rows one device makes
          Slots,       \* requests the API may be serving at once
          None,
          KeepsLocal,  \* the setting keepLocalAfterUpload
          MaxRewinds,  \* bound: operator reprocesses of a FAILED_UPLOAD call
          MaxFaults    \* bound: lost answers, crashes, refused requests

ASSUME UploadAssumption ==
  /\ None \notin Recordings \union Rows \union Slots
  /\ KeepsLocal \in BOOLEAN
  /\ MaxRewinds \in Nat
  /\ MaxFaults \in Nat

VARIABLES
  local,     \* per recording: uploadState
  file,      \* per recording: the audio on the phone; "lost" is not our doing
  remote,    \* per recording: remoteCallId
  phase, rec,  \* where the one upload worker is, and on which recording
  plan,      \* the call id its upload plan is for
  line,      \* the slot whose answer it waits for
  at, sRec, sRow,  \* per slot: the handler's step, its idempotency key, its call
  owner,     \* per row: the idempotency key it was made for, or None
  state,     \* per row: calls.status, RECEIVED for every status from UPLOADED on
  aged,      \* rows older than the six hours an upload is given
  audio,     \* per row: its object is complete in S3
  rewound,   \* history: rows an operator rewound out of FAILED_UPLOAD
  faults

phone   == <<local, file, remote>>
worker  == <<phase, rec, plan, line>>
slots   == <<at, sRec, sRow>>
calls   == <<owner, state, aged, audio, rewound>>
vars    == <<phone, worker, slots, calls, faults>>

Queued == {"PENDING", "UPLOADING", "FAILED"}   \* pendingUploads
RowState == {"none", "AWAITING_AUDIO", "FAILED_UPLOAD", "RECEIVED"}

Fault == /\ faults < MaxFaults
         /\ faults' = faults + 1

\* Mutant: migration 0112's narrower index, uploads still under way.
LiveWhileAwaiting(r) == {c \in Rows : owner[c] = r /\ state[c] = "AWAITING_AUDIO"}

\* The unique index on (device, idempotency key), dead uploads excluded.
Live(r) == {c \in Rows : owner[c] = r /\ state[c] \in {"AWAITING_AUDIO", "RECEIVED"}}

-----------------------------------------------------------------------------
(* UploadWorker: one unique work chain *)

Rest == phase' = "idle" /\ rec' = None /\ plan' = None /\ line' = None

Mark(r, s) == local' = [local EXCEPT ![r] = s]

\* Mutant: a row left UPLOADING by a killed process is not picked up again.
StartUploadFresh(r) ==
  /\ phase = "idle"
  /\ local[r] \in {"PENDING", "FAILED"}
  /\ file[r] = "kept"
  /\ Mark(r, "UPLOADING")
  /\ phase' = "create" /\ rec' = r
  /\ UNCHANGED <<file, remote, plan, line, slots, calls, faults>>

StartUpload(r) ==
  /\ phase = "idle"
  /\ local[r] \in Queued
  /\ file[r] = "kept"
  /\ Mark(r, "UPLOADING")
  /\ phase' = "create" /\ rec' = r
  /\ UNCHANGED <<file, remote, plan, line, slots, calls, faults>>

\* Mutant: a state nothing else in the app knows.
DiscardAsMissing(r) ==
  /\ phase = "idle"
  /\ local[r] \in Queued
  /\ file[r] # "kept"
  /\ Mark(r, "MISSING")
  /\ UNCHANGED <<file, remote, worker, slots, calls, faults>>

\* No file, nothing to send.
Discard(r) ==
  /\ phase = "idle"
  /\ local[r] \in Queued
  /\ file[r] # "kept"
  /\ Mark(r, "DISCARDED")
  /\ UNCHANGED <<file, remote, worker, slots, calls, faults>>

\* A request goes out and takes a slot.
Call(s, step, row) ==
  /\ at[s] = "idle"
  /\ at'   = [at EXCEPT ![s] = step]
  /\ sRec' = [sRec EXCEPT ![s] = rec]
  /\ sRow' = [sRow EXCEPT ![s] = row]
  /\ line' = s

AskForPlan(s) ==
  /\ phase = "create"
  /\ Call(s, "lookup", None)
  /\ phase' = "creating"
  /\ UNCHANGED <<phone, rec, plan, calls, faults>>

\* The parts are in S3, under a multipart upload that is not finished yet.
AskToComplete(s) ==
  /\ phase = "send"
  /\ Call(s, "check", plan)
  /\ phase' = "completing"
  /\ UNCHANGED <<phone, rec, plan, calls, faults>>

\* A timeout, a dropped connection, a part that failed: recorded as FAILED and
\* left for a later run.
UploadFails ==
  /\ phase \in {"create", "creating", "send", "completing"}
  /\ Fault
  /\ Mark(rec, "FAILED")
  /\ Rest
  /\ UNCHANGED <<file, remote, slots, calls>>

\* The file goes once the answer is written down, if the setting says so.
CleanUp ==
  /\ phase = "cleanup"
  /\ file' = [file EXCEPT ![rec] = IF KeepsLocal THEN @ ELSE "deleted"]
  /\ Rest
  /\ UNCHANGED <<local, remote, slots, calls, faults>>

\* Android kills the process: the row stays as it is, UPLOADING included.
Killed ==
  /\ phase # "idle"
  /\ Fault
  /\ Rest
  /\ UNCHANGED <<phone, slots, calls>>

\* Somebody else removes the file.
FileLost(r) ==
  /\ file[r] = "kept"
  /\ phase = "idle"
  /\ Fault
  /\ file' = [file EXCEPT ![r] = "lost"]
  /\ UNCHANGED <<local, remote, worker, slots, calls>>

-----------------------------------------------------------------------------
(* The answers of the two handlers *)

FreeSlot(s) == /\ at'   = [at EXCEPT ![s] = "idle"]
               /\ sRec' = [sRec EXCEPT ![s] = None]
               /\ sRow' = [sRow EXCEPT ![s] = None]

AnswerPlan(s, c) ==
  /\ FreeSlot(s)
  /\ IF line = s THEN phase' = "send" /\ plan' = c /\ line' = None
                 ELSE UNCHANGED <<phase, plan, line>>
  /\ UNCHANGED <<phone, rec>>

\* 200: the handset takes the recording off its list.
AnswerDone(s) ==
  /\ FreeSlot(s)
  /\ IF line = s
     THEN /\ Mark(rec, "UPLOADED")
          /\ remote' = [remote EXCEPT ![rec] = sRow[s]]
          /\ phase' = "cleanup" /\ line' = None
     ELSE UNCHANGED <<local, remote, phase, line>>
  /\ UNCHANGED <<file, rec, plan>>

AnswerError(s) ==
  /\ FreeSlot(s)
  /\ IF line = s THEN Mark(rec, "FAILED") /\ Rest
                 ELSE UNCHANGED <<local, worker>>
  /\ UNCHANGED <<file, remote>>

-----------------------------------------------------------------------------
(* create: POST /v1/calls *)

\* Mutant: keys of two recordings collide, as before they were namespaced.
LookupAnyKey(s) ==
  /\ at[s] = "lookup"
  /\ \/ \E r \in Recordings : \E c \in Live(r) : AnswerPlan(s, c)
     \/ /\ Live(sRec[s]) = {}
        /\ at' = [at EXCEPT ![s] = "insert"]
        /\ UNCHANGED <<phone, worker, sRec, sRow>>
  /\ UNCHANGED <<calls, faults>>

\* The same key finds its call, whatever has become of it, unless that upload
\* was declared dead.
Lookup(s) ==
  /\ at[s] = "lookup"
  /\ \/ \E c \in Live(sRec[s]) : AnswerPlan(s, c)
     \/ /\ Live(sRec[s]) = {}
        /\ at' = [at EXCEPT ![s] = "insert"]
        /\ UNCHANGED <<phone, worker, sRec, sRow>>
  /\ UNCHANGED <<calls, faults>>

\* The unique index refuses the loser of a race.
Insert(s) ==
  LET r == sRec[s] IN
  /\ at[s] = "insert"
  /\ \/ /\ Live(r) = {}
        /\ \E c \in Rows : /\ owner[c] = None
                           /\ owner' = [owner EXCEPT ![c] = r]
                           /\ state' = [state EXCEPT ![c] = "AWAITING_AUDIO"]
                           /\ AnswerPlan(s, c)
     \/ /\ Live(r) # {}
        /\ AnswerError(s)
        /\ UNCHANGED <<owner, state>>
  /\ UNCHANGED <<aged, audio, rewound, faults>>

-----------------------------------------------------------------------------
(* complete: POST /v1/calls/:id/complete *)

\* Mutant: the row is confirmed before the object is complete.
CheckWithoutStore(s) ==
  /\ at[s] = "check"
  /\ \/ /\ state[sRow[s]] # "AWAITING_AUDIO"
        /\ AnswerDone(s)
     \/ /\ state[sRow[s]] = "AWAITING_AUDIO"
        /\ at' = [at EXCEPT ![s] = "confirm"]
        /\ UNCHANGED <<phone, worker, sRec, sRow>>
  /\ UNCHANGED <<calls, faults>>

\* Anything but AWAITING_AUDIO is acknowledged as already done.
Check(s) ==
  /\ at[s] = "check"
  /\ \/ /\ state[sRow[s]] # "AWAITING_AUDIO"
        /\ AnswerDone(s)
     \/ /\ state[sRow[s]] = "AWAITING_AUDIO"
        /\ at' = [at EXCEPT ![s] = "store"]
        /\ UNCHANGED <<phone, worker, sRec, sRow>>
  /\ UNCHANGED <<calls, faults>>

\* completeMultipartUpload and the size check, outside any transaction.
Store(s) ==
  /\ at[s] = "store"
  /\ audio' = [audio EXCEPT ![sRow[s]] = TRUE]
  /\ at' = [at EXCEPT ![s] = "confirm"]
  /\ UNCHANGED <<phone, worker, sRec, sRow, owner, state, aged, rewound, faults>>

\* The conditional update, its result not looked at, and the answer.
Confirm(s) ==
  /\ at[s] = "confirm"
  /\ state' = IF state[sRow[s]] = "AWAITING_AUDIO"
              THEN [state EXCEPT ![sRow[s]] = "RECEIVED"] ELSE state
  /\ AnswerDone(s)
  /\ UNCHANGED <<owner, aged, audio, rewound, faults>>

\* S3 or the database refuses, the device is suspended, the API dies.
RequestFails(s) ==
  /\ at[s] # "idle"
  /\ Fault
  /\ AnswerError(s)
  /\ UNCHANGED calls

-----------------------------------------------------------------------------
(* The server on its own *)

\* Six hours are far longer than one attempt takes: a call gets that old between
\* two attempts, not within one.
Age(c) ==
  /\ state[c] = "AWAITING_AUDIO"
  /\ phase = "idle"
  /\ aged' = aged \union {c}
  /\ c \notin aged
  /\ UNCHANGED <<phone, worker, slots, owner, state, audio, rewound, faults>>

\* failStrandedAwaitingAudio.  The bound on Rows leaves one for every recording.
FailStranded(c) ==
  /\ state[c] = "AWAITING_AUDIO"
  /\ c \in aged
  /\ Cardinality({d \in Rows : owner[d] = None}) >= Cardinality(Recordings)
  /\ state' = [state EXCEPT ![c] = "FAILED_UPLOAD"]
  /\ UNCHANGED <<phone, worker, slots, owner, aged, audio, rewound, faults>>

\* rewindForReprocess takes every FAILED_*; the unique index has the last word.
Rewind(c) ==
  /\ state[c] = "FAILED_UPLOAD"
  /\ Live(owner[c]) = {}
  /\ Cardinality(rewound) < MaxRewinds
  /\ state' = [state EXCEPT ![c] = "RECEIVED"]
  /\ rewound' = rewound \union {c}
  /\ UNCHANGED <<phone, worker, slots, owner, aged, audio, faults>>

-----------------------------------------------------------------------------

Init ==
  /\ local   = [r \in Recordings |-> "PENDING"]
  /\ file    = [r \in Recordings |-> "kept"]
  /\ remote  = [r \in Recordings |-> None]
  /\ phase = "idle" /\ rec = None /\ plan = None /\ line = None
  /\ at      = [s \in Slots |-> "idle"]
  /\ sRec    = [s \in Slots |-> None]
  /\ sRow    = [s \in Slots |-> None]
  /\ owner   = [c \in Rows |-> None]
  /\ state   = [c \in Rows |-> "none"]
  /\ aged    = {}
  /\ audio   = [c \in Rows |-> FALSE]
  /\ rewound = {}
  /\ faults  = 0

Handset == \/ \E r \in Recordings : StartUpload(r) \/ Discard(r)
           \/ \E s \in Slots : AskForPlan(s) \/ AskToComplete(s)
           \/ CleanUp
Serve(s) == Lookup(s) \/ Insert(s) \/ Check(s) \/ Store(s) \/ Confirm(s)

Next == \/ Handset \/ UploadFails \/ Killed
        \/ \E r \in Recordings : FileLost(r)
        \/ \E s \in Slots : Serve(s) \/ RequestFails(s)
        \/ \E c \in Rows : Age(c) \/ FailStranded(c) \/ Rewind(c)

Spec == Init /\ [][Next]_vars

\* Work stays enqueued while anything is pending and every new call enqueues it
\* again (UploadScheduler); a request is served.  Faults are finitely many.
Fairness == WF_vars(Handset) /\ \A s \in Slots : WF_vars(Serve(s))

FairSpec == Spec /\ Fairness

-----------------------------------------------------------------------------
(* Properties *)

TypeOK ==
  /\ local \in [Recordings -> Queued \union {"UPLOADED", "DISCARDED"}]
  /\ file \in [Recordings -> {"kept", "deleted", "lost"}]
  /\ remote \in [Recordings -> Rows \union {None}]
  /\ phase \in {"idle", "create", "creating", "send", "completing", "cleanup"}
  /\ rec \in Recordings \union {None}
  /\ plan \in Rows \union {None}
  /\ line \in Slots \union {None}
  /\ at \in [Slots -> {"idle", "lookup", "insert", "check", "store", "confirm"}]
  /\ sRec \in [Slots -> Recordings \union {None}]
  /\ sRow \in [Slots -> Rows \union {None}]
  /\ owner \in [Rows -> Recordings \union {None}]
  /\ state \in [Rows -> RowState]
  /\ aged \subseteq Rows
  /\ audio \in [Rows -> BOOLEAN]
  /\ rewound \subseteq Rows
  /\ faults \in 0..MaxFaults

\* A recording is heard once: "a second ASR charge, a second analyze, a second
\* CRM sync" never happen, however requests are repeated, delayed or raced.
HeardOnce ==
  \A r \in Recordings :
    \A c, d \in {e \in Rows : owner[e] = r /\ state[e] = "RECEIVED"} : c = d

\* What the pipeline is given has its audio, unless a person sent it there.
ReceivedHasAudio ==
  \A c \in Rows : state[c] = "RECEIVED" => audio[c] \/ c \in rewound

\* The handset stops trying only for a call that is its own and no longer waits:
\* an acknowledgement never belongs to another recording or to an open upload.
AckIsForThis ==
  \A r \in Recordings : local[r] = "UPLOADED" =>
    /\ remote[r] # None
    /\ owner[remote[r]] = r
    /\ state[remote[r]] # "AWAITING_AUDIO"

\* No recording stays on the phone's list for ever: it is uploaded, or dropped
\* because its file is gone.
LeavesTheQueue == \A r \in Recordings : local[r] \in Queued ~> local[r] \notin Queued

\* UploadWorker.kt: "delete the local file only after the server confirms
\* UPLOADED".  The audio is then always on the phone or in S3.
NothingLost ==
  \A r \in Recordings :
    file[r] = "deleted" => \E c \in Rows : owner[c] = r /\ audio[c]

\* What is true of it: audio that is neither on the phone nor in S3 is that of a
\* recording with an upload the sweep declared dead, revived since or not.
LossIsDeclared ==
  \A r \in Recordings :
    file[r] = "deleted" =>
      \E c \in Rows : owner[c] = r /\ (audio[c] \/ state[c] = "FAILED_UPLOAD" \/ c \in rewound)

\* Seen from outside, a recording is heard in one step, once, and leaves the phone
\* after that: lost answers, repeated requests and races make no other difference.
Delivery == INSTANCE RecordingDelivery WITH
  Calls  <- Rows,
  heard  <- [r \in Recordings |-> {c \in Rows : owner[c] = r /\ state[c] = "RECEIVED"}],
  stored <- {owner[c] : c \in {d \in Rows : audio[d]}},
  dead   <- {owner[c] : c \in {d \in Rows : state[d] = "FAILED_UPLOAD" \/ d \in rewound}},
  listed <- [r \in Recordings |-> IF local[r] \in Queued THEN "waiting" ELSE local[r]]

ImplementsDelivery == Delivery!RSpec
=============================================================================
