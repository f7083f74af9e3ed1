------------------------- MODULE HandsetUploadProofs -------------------------
(***************************************************************************)
(* Proofs about HandsetUpload, for any numbers of recordings, rows and     *)
(* request slots and any bounds.  The phone knows only what an answer told *)
(* it, so the invariant says, of every request being served and of every   *)
(* phase of the upload worker, whose call it is on.                        *)
(***************************************************************************)
EXTENDS HandsetUpload, TLAPS

\* A row has a key from the moment it has a status, and nothing before that.
Rowed == \A c \in Rows : /\ owner[c] = None <=> state[c] = "none"
                         /\ owner[c] = None => ~audio[c]
                         /\ c \in rewound => state[c] = "RECEIVED"

\* One row of a key is live.

OneLive == \A r \in Recordings : \A c, d \in Live(r) : c = d

\* A request serves a recording; a completion, the row of that recording, and it
\* confirms nothing before the object is complete.
Serving ==
  \A s \in Slots :
    /\ at[s] # "idle" => sRec[s] \in Recordings
    /\ at[s] \in {"check", "store", "confirm"} => /\ sRow[s] \in Rows
                                                  /\ owner[sRow[s]] = sRec[s]
    /\ at[s] = "confirm" => audio[sRow[s]]

\* The worker is on a recording it has not got rid of, with a plan of that
\* recording, and waits for an answer to the request it made.
Working ==
  /\ phase # "idle" => rec \in Recordings /\ file[rec] = "kept"
  /\ phase = "cleanup" => local[rec] = "UPLOADED"
  /\ phase \in {"create", "creating", "send", "completing"} => local[rec] = "UPLOADING"
  /\ phase \in {"send", "completing"} => plan \in Rows /\ owner[plan] = rec
  /\ line # None => /\ at[line] # "idle"
                    /\ sRec[line] = rec
                    /\ \/ phase = "creating" /\ at[line] \in {"lookup", "insert"}
                       \/ phase = "completing" /\ at[line] \in {"check", "store", "confirm"}

\* Only an acknowledged recording loses its file to the app.
Kept == \A r \in Recordings : file[r] = "deleted" => local[r] = "UPLOADED"

IInv == /\ TypeOK /\ Rowed /\ OneLive /\ Serving /\ Working
        /\ ReceivedHasAudio /\ AckIsForThis /\ Kept

-----------------------------------------------------------------------------

\* An empty phone and a server that has heard of nothing.
LEMMA Start == Init => IInv
<1> SUFFICES ASSUME Init PROVE IInv
    OBVIOUS
<1> USE UploadAssumption DEF Init
<1>1. TypeOK
  BY DEF TypeOK, Queued, RowState
<1>2. Rowed /\ OneLive
  BY DEF Rowed, OneLive, Live
<1>3. Serving /\ Working
  BY DEF Serving, Working
<1>4. ReceivedHasAudio /\ AckIsForThis /\ Kept
  BY DEF ReceivedHasAudio, AckIsForThis, Kept
<1> QED
  BY <1>1, <1>2, <1>3, <1>4 DEF IInv

-----------------------------------------------------------------------------
(* One lemma per action: the phone's, then the handlers', then the sweep's and the operator's *)

LEMMA StartUploadKeeps == ASSUME IInv, NEW r \in Recordings, StartUpload(r) PROVE IInv'
<1> USE UploadAssumption DEF IInv, StartUpload, Mark, Queued, phone, worker, slots, calls
<1>1. TypeOK'
  BY DEF TypeOK, RowState
<1>2. Rowed'
  BY DEF Rowed
<1>3. OneLive'
  BY DEF OneLive, Live
<1>4. Serving'
  BY DEF Serving
<1>5. Working'
  BY DEF TypeOK, Working
<1>6. ReceivedHasAudio'
  BY DEF ReceivedHasAudio
<1>7. AckIsForThis'
  BY DEF AckIsForThis
<1>8. Kept'
  BY DEF TypeOK, Working, Kept
<1> QED
  BY <1>1, <1>2, <1>3, <1>4, <1>5, <1>6, <1>7, <1>8

LEMMA DiscardKeeps == ASSUME IInv, NEW r \in Recordings, Discard(r) PROVE IInv'
<1> USE UploadAssumption DEF IInv, Discard, Mark, Queued, phone, worker, slots, calls
<1>1. TypeOK'
  BY DEF TypeOK, RowState
<1>2. Rowed'
  BY DEF Rowed
<1>3. OneLive'
  BY DEF OneLive, Live
<1>4. Serving'
  BY DEF Serving
<1>5. Working'
  BY DEF Working
<1>6. ReceivedHasAudio'
  BY DEF ReceivedHasAudio
<1>7. AckIsForThis'
  BY DEF AckIsForThis
<1>8. Kept'
  BY DEF TypeOK, Working, Kept
<1> QED
  BY <1>1, <1>2, <1>3, <1>4, <1>5, <1>6, <1>7, <1>8

LEMMA AskForPlanKeeps == ASSUME IInv, NEW s \in Slots, AskForPlan(s) PROVE IInv'
<1> USE UploadAssumption DEF IInv, AskForPlan, Call, phone, worker, slots, calls
<1>1. TypeOK'
  BY DEF TypeOK, RowState
<1>2. Rowed'
  BY DEF Rowed
<1>3. OneLive'
  BY DEF OneLive, Live
<1>4. Serving'
  BY DEF TypeOK, Serving, Working
<1>5. Working'
  BY DEF TypeOK, Working
<1>6. ReceivedHasAudio'
  BY DEF ReceivedHasAudio
<1>7. AckIsForThis'
  BY DEF AckIsForThis
<1>8. Kept'
  BY DEF TypeOK, Working, Kept
<1> QED
  BY <1>1, <1>2, <1>3, <1>4, <1>5, <1>6, <1>7, <1>8

LEMMA AskToCompleteKeeps == ASSUME IInv, NEW s \in Slots, AskToComplete(s) PROVE IInv'
<1> USE UploadAssumption DEF IInv, AskToComplete, Call, phone, worker, slots, calls
<1>1. TypeOK'
  BY DEF TypeOK, RowState
<1>2. Rowed'
  BY DEF Rowed
<1>3. OneLive'
  BY DEF OneLive, Live
<1>4. Serving'
  BY DEF TypeOK, Serving, Working
<1>5. Working'
  BY DEF TypeOK, Working
<1>6. ReceivedHasAudio'
  BY DEF ReceivedHasAudio
<1>7. AckIsForThis'
  BY DEF AckIsForThis
<1>8. Kept'
  BY DEF TypeOK, Working, Kept
<1> QED
  BY <1>1, <1>2, <1>3, <1>4, <1>5, <1>6, <1>7, <1>8

LEMMA CleanUpKeeps == ASSUME IInv, CleanUp PROVE IInv'
<1> USE UploadAssumption DEF IInv, CleanUp, Rest, phone, worker, slots, calls
<1>1. TypeOK'
  BY DEF TypeOK, RowState
<1>2. Rowed'
  BY DEF Rowed
<1>3. OneLive'
  BY DEF OneLive, Live
<1>4. Serving'
  BY DEF Serving
<1>5. Working'
  BY DEF Working
<1>6. ReceivedHasAudio'
  BY DEF ReceivedHasAudio
<1>7. AckIsForThis'
  BY DEF AckIsForThis
<1>8. Kept'
  BY DEF TypeOK, Working, Kept
<1> QED
  BY <1>1, <1>2, <1>3, <1>4, <1>5, <1>6, <1>7, <1>8

LEMMA UploadFailsKeeps == ASSUME IInv, UploadFails PROVE IInv'
<1> USE UploadAssumption DEF IInv, UploadFails, Mark, Rest, Fault, phone, worker, slots, calls
<1>1. TypeOK'
  BY DEF TypeOK, RowState, Queued, Serving, Working
<1>2. Rowed'
  BY DEF Rowed
<1>3. OneLive'
  BY DEF OneLive, Live
<1>4. Serving'
  BY DEF Serving
<1>5. Working'
  BY DEF Working
<1>6. ReceivedHasAudio'
  BY DEF ReceivedHasAudio
<1>7. AckIsForThis'
  BY DEF AckIsForThis
<1>8. Kept'
  BY DEF TypeOK, Working, Kept
<1> QED
  BY <1>1, <1>2, <1>3, <1>4, <1>5, <1>6, <1>7, <1>8

LEMMA KilledKeeps == ASSUME IInv, Killed PROVE IInv'
<1> USE UploadAssumption DEF IInv, Killed, Rest, Fault, phone, worker, slots, calls
<1>1. TypeOK'
  BY DEF TypeOK, RowState
<1>2. Rowed'
  BY DEF Rowed
<1>3. OneLive'
  BY DEF OneLive, Live
<1>4. Serving'
  BY DEF Serving
<1>5. Working'
  BY DEF Working
<1>6. ReceivedHasAudio'
  BY DEF ReceivedHasAudio
<1>7. AckIsForThis'
  BY DEF AckIsForThis
<1>8. Kept'
  BY DEF TypeOK, Working, Kept
<1> QED
  BY <1>1, <1>2, <1>3, <1>4, <1>5, <1>6, <1>7, <1>8

LEMMA FileLostKeeps == ASSUME IInv, NEW r \in Recordings, FileLost(r) PROVE IInv'
<1> USE UploadAssumption DEF IInv, FileLost, Fault, phone, worker, slots, calls
<1>1. TypeOK'
  BY DEF TypeOK, RowState
<1>2. Rowed'
  BY DEF Rowed
<1>3. OneLive'
  BY DEF OneLive, Live
<1>4. Serving'
  BY DEF Serving
<1>5. Working'
  BY DEF Working
<1>6. ReceivedHasAudio'
  BY DEF ReceivedHasAudio
<1>7. AckIsForThis'
  BY DEF AckIsForThis
<1>8. Kept'
  BY DEF TypeOK, Working, Kept
<1> QED
  BY <1>1, <1>2, <1>3, <1>4, <1>5, <1>6, <1>7, <1>8

LEMMA LookupKeeps == ASSUME IInv, NEW s \in Slots, Lookup(s) PROVE IInv'
<1> USE UploadAssumption DEF IInv, Lookup, AnswerPlan, FreeSlot, Live, phone, worker, slots, calls
<1>1. TypeOK'
  BY DEF TypeOK, RowState
<1>2. Rowed'
  BY DEF Rowed
<1>3. OneLive'
  BY DEF OneLive
<1>4. Serving'
  BY DEF TypeOK, Serving
<1>5. Working'
  BY DEF TypeOK, Working
<1>6. ReceivedHasAudio'
  BY DEF ReceivedHasAudio
<1>7. AckIsForThis'
  BY DEF AckIsForThis
<1>8. Kept'
  BY DEF TypeOK, Working, Kept
<1> QED
  BY <1>1, <1>2, <1>3, <1>4, <1>5, <1>6, <1>7, <1>8

LEMMA InsertKeeps == ASSUME IInv, NEW s \in Slots, Insert(s) PROVE IInv'
<1> USE UploadAssumption DEF IInv, Insert, AnswerPlan, AnswerError, FreeSlot, Mark, Rest, Live,
           phone, worker, slots, calls
<1>1. TypeOK'
  BY DEF TypeOK, RowState, Queued
<1>2. Rowed'
  BY DEF TypeOK, Rowed, Serving
<1>3. OneLive'
  BY DEF TypeOK, OneLive
<1>4. Serving'
  BY DEF TypeOK, Serving
<1>5. Working'
  BY DEF TypeOK, Working
<1>6. ReceivedHasAudio'
  BY DEF TypeOK, ReceivedHasAudio
<1>7. AckIsForThis'
  BY DEF TypeOK, AckIsForThis
<1>8. Kept'
  BY DEF TypeOK, Working, Kept
<1> QED
  BY <1>1, <1>2, <1>3, <1>4, <1>5, <1>6, <1>7, <1>8

LEMMA CheckKeeps == ASSUME IInv, NEW s \in Slots, Check(s) PROVE IInv'
<1> USE UploadAssumption DEF IInv, Check, AnswerDone, FreeSlot, Mark, phone, worker, slots, calls
<1>1. TypeOK'
  BY DEF TypeOK, RowState
<1>2. Rowed'
  BY DEF Rowed
<1>3. OneLive'
  BY DEF OneLive, Live
<1>4. Serving'
  BY DEF TypeOK, Serving
<1>5. Working'
  BY DEF TypeOK, Working
<1>6. ReceivedHasAudio'
  BY DEF ReceivedHasAudio
<1>7. AckIsForThis'
  BY DEF TypeOK, Serving, Working, AckIsForThis
<1>8. Kept'
  BY DEF TypeOK, Working, Kept
<1> QED
  BY <1>1, <1>2, <1>3, <1>4, <1>5, <1>6, <1>7, <1>8

LEMMA StoreKeeps == ASSUME IInv, NEW s \in Slots, Store(s) PROVE IInv'
<1> USE UploadAssumption DEF IInv, Store, phone, worker, slots, calls
<1>1. TypeOK'
  BY DEF TypeOK, RowState
<1>2. Rowed'
  BY DEF TypeOK, Serving, Rowed
<1>3. OneLive'
  BY DEF OneLive, Live
<1>4. Serving'
  BY DEF TypeOK, Serving
<1>5. Working'
  BY DEF Working
<1>6. ReceivedHasAudio'
  BY DEF ReceivedHasAudio
<1>7. AckIsForThis'
  BY DEF AckIsForThis
<1>8. Kept'
  BY DEF TypeOK, Working, Kept
<1> QED
  BY <1>1, <1>2, <1>3, <1>4, <1>5, <1>6, <1>7, <1>8

LEMMA ConfirmKeeps == ASSUME IInv, NEW s \in Slots, Confirm(s) PROVE IInv'
<1> USE UploadAssumption DEF IInv, Confirm, AnswerDone, FreeSlot, Mark, phone, worker, slots, calls
<1>1. TypeOK'
  BY DEF TypeOK, RowState
<1>2. Rowed'
  BY DEF Rowed
<1>3. OneLive'
  BY DEF OneLive, Live
<1>4. Serving'
  BY DEF TypeOK, Serving
<1>5. Working'
  BY DEF TypeOK, Working
<1>6. ReceivedHasAudio'
  BY DEF Serving, ReceivedHasAudio
<1>7. AckIsForThis'
  BY DEF TypeOK, Serving, Working, AckIsForThis
<1>8. Kept'
  BY DEF TypeOK, Working, Kept
<1> QED
  BY <1>1, <1>2, <1>3, <1>4, <1>5, <1>6, <1>7, <1>8

LEMMA RequestFailsKeeps == ASSUME IInv, NEW s \in Slots, RequestFails(s) PROVE IInv'
<1> USE UploadAssumption DEF IInv, RequestFails, AnswerError, FreeSlot, Mark, Rest, Fault,
           phone, worker, slots, calls
<1>1. TypeOK'
  BY DEF TypeOK, RowState, Queued
<1>2. Rowed'
  BY DEF Rowed
<1>3. OneLive'
  BY DEF OneLive, Live
<1>4. Serving'
  BY DEF TypeOK, Serving
<1>5. Working'
  BY DEF Working
<1>6. ReceivedHasAudio'
  BY DEF ReceivedHasAudio
<1>7. AckIsForThis'
  BY DEF TypeOK, AckIsForThis
<1>8. Kept'
  BY DEF TypeOK, Working, Kept
<1> QED
  BY <1>1, <1>2, <1>3, <1>4, <1>5, <1>6, <1>7, <1>8

LEMMA AgeKeeps == ASSUME IInv, NEW c \in Rows, Age(c) PROVE IInv'
<1> USE UploadAssumption DEF IInv, Age, phone, worker, slots, calls
<1>1. TypeOK'
  BY DEF TypeOK, RowState
<1>2. Rowed'
  BY DEF Rowed
<1>3. OneLive'
  BY DEF OneLive, Live
<1>4. Serving'
  BY DEF Serving
<1>5. Working'
  BY DEF Working
<1>6. ReceivedHasAudio'
  BY DEF ReceivedHasAudio
<1>7. AckIsForThis'
  BY DEF AckIsForThis
<1>8. Kept'
  BY DEF TypeOK, Working, Kept
<1> QED
  BY <1>1, <1>2, <1>3, <1>4, <1>5, <1>6, <1>7, <1>8

LEMMA FailStrandedKeeps == ASSUME IInv, NEW c \in Rows, FailStranded(c) PROVE IInv'
<1> USE UploadAssumption DEF IInv, FailStranded, phone, worker, slots, calls
<1>1. TypeOK'
  BY DEF TypeOK, RowState
<1>2. Rowed'
  BY DEF Rowed
<1>3. OneLive'
  BY DEF OneLive, Live
<1>4. Serving'
  BY DEF Serving
<1>5. Working'
  BY DEF Working
<1>6. ReceivedHasAudio'
  BY DEF ReceivedHasAudio
<1>7. AckIsForThis'
  BY DEF AckIsForThis
<1>8. Kept'
  BY DEF TypeOK, Working, Kept
<1> QED
  BY <1>1, <1>2, <1>3, <1>4, <1>5, <1>6, <1>7, <1>8

LEMMA RewindKeeps == ASSUME IInv, NEW c \in Rows, Rewind(c) PROVE IInv'
<1> USE UploadAssumption DEF IInv, Rewind, Live, phone, worker, slots, calls
<1>1. TypeOK'
  BY DEF TypeOK, RowState
<1>2. Rowed'
  BY DEF TypeOK, Rowed
<1>3. OneLive'
  BY DEF OneLive
<1>4. Serving'
  BY DEF Serving
<1>5. Working'
  BY DEF Working
<1>6. ReceivedHasAudio'
  BY DEF ReceivedHasAudio
<1>7. AckIsForThis'
  BY DEF AckIsForThis
<1>8. Kept'
  BY DEF TypeOK, Working, Kept
<1> QED
  BY <1>1, <1>2, <1>3, <1>4, <1>5, <1>6, <1>7, <1>8

\* Nothing moves.
LEMMA StutterKeeps == ASSUME IInv, UNCHANGED vars PROVE IInv'
BY DEF IInv, vars, phone, worker, slots, calls, TypeOK, Rowed, OneLive, Live, Serving, Working,
       ReceivedHasAudio, AckIsForThis, Kept

\* Every step keeps the invariant.
LEMMA Step == IInv /\ [Next]_vars => IInv'
<1> SUFFICES ASSUME IInv, [Next]_vars PROVE IInv'
    OBVIOUS
<1>1. CASE Handset
  BY <1>1, StartUploadKeeps, DiscardKeeps, AskForPlanKeeps, AskToCompleteKeeps, CleanUpKeeps
     DEF Handset
<1>2. CASE UploadFails \/ Killed \/ \E r \in Recordings : FileLost(r)
  BY <1>2, UploadFailsKeeps, KilledKeeps, FileLostKeeps
<1>3. ASSUME NEW s \in Slots, Serve(s) \/ RequestFails(s) PROVE IInv'
  BY <1>3, LookupKeeps, InsertKeeps, CheckKeeps, StoreKeeps, ConfirmKeeps, RequestFailsKeeps
     DEF Serve
<1>4. ASSUME NEW c \in Rows, Age(c) \/ FailStranded(c) \/ Rewind(c) PROVE IInv'
  BY <1>4, AgeKeeps, FailStrandedKeeps, RewindKeeps
<1>5. CASE UNCHANGED vars
  BY <1>5, StutterKeeps
<1> QED
  BY <1>1, <1>2, <1>3, <1>4, <1>5 DEF Next

\* The inductive invariant of the upload: one live row per recording, and every
\* request and every phase of the worker on the row of its own recording.
THEOREM Invariance == Spec => []IInv
BY Start, Step, PTL DEF Spec

\* Every variable keeps its type, for any number of recordings and requests.
THEOREM TypeCorrect == Spec => []TypeOK
<1>1. IInv => TypeOK
  BY DEF IInv
<1> QED
  BY <1>1, Invariance, PTL

\* However often a request is repeated, delayed or raced, a recording is heard once.
THEOREM RecordingsAreHeardOnce == Spec => []HeardOnce
<1>1. IInv => HeardOnce
  BY DEF IInv, OneLive, Live, HeardOnce
<1> QED
  BY <1>1, Invariance, PTL

\* What the pipeline is given has its audio, unless a person sent it there.
THEOREM ReceivedIsComplete == Spec => []ReceivedHasAudio
<1>1. IInv => ReceivedHasAudio
  BY DEF IInv
<1> QED
  BY <1>1, Invariance, PTL

\* The phone stops trying only for a call of that recording that no longer waits.
THEOREM AcksAreForThis == Spec => []AckIsForThis
<1>1. IInv => AckIsForThis
  BY DEF IInv
<1> QED
  BY <1>1, Invariance, PTL

\* Audio that is neither on the phone nor in S3 belongs to an upload declared dead.
THEOREM LossesAreDeclared == Spec => []LossIsDeclared
<1>1. ASSUME IInv PROVE LossIsDeclared
  <2> SUFFICES ASSUME NEW r \in Recordings, file[r] = "deleted"
               PROVE  \E c \in Rows : /\ owner[c] = r
                                      /\ audio[c] \/ state[c] = "FAILED_UPLOAD" \/ c \in rewound
      BY DEF LossIsDeclared
  <2>1. remote[r] \in Rows /\ owner[remote[r]] = r /\ state[remote[r]] # "AWAITING_AUDIO"
    BY <1>1 DEF IInv, Kept, AckIsForThis, TypeOK
  <2>2. state[remote[r]] \in {"FAILED_UPLOAD", "RECEIVED"}
    BY <1>1, <2>1, UploadAssumption DEF IInv, Rowed, TypeOK, RowState
  <2> QED
    BY <1>1, <2>1, <2>2 DEF IInv, ReceivedHasAudio
<1> QED
  BY <1>1, Invariance, PTL

-----------------------------------------------------------------------------
(* What the owner of the phone sees *)

HeardOf  == [r \in Recordings |-> {c \in Rows : owner[c] = r /\ state[c] = "RECEIVED"}]
StoredOf == {owner[c] : c \in {d \in Rows : audio[d]}}
DeadOf   == {owner[c] : c \in {d \in Rows : state[d] = "FAILED_UPLOAD" \/ d \in rewound}}
ListedOf == [r \in Recordings |-> IF local[r] \in Queued THEN "waiting" ELSE local[r]]

\* The definitions above are what the refinement maps to.
LEMMA Seen ==
  ASSUME UNCHANGED <<HeardOf, StoredOf, DeadOf, ListedOf, file>>
  PROVE  UNCHANGED Delivery!deliveryVars
BY DEF HeardOf, StoredOf, DeadOf, ListedOf, Delivery!deliveryVars

\* A step that moves no call and no recording is not seen.
LEMMA SameCalls ==
  ASSUME UNCHANGED <<owner, state, audio, rewound>>
  PROVE  UNCHANGED <<HeardOf, StoredOf, DeadOf>>
BY DEF HeardOf, StoredOf, DeadOf

LEMMA QuietStep ==
  ASSUME UNCHANGED <<local, file, owner, state, audio, rewound>>
  PROVE  UNCHANGED Delivery!deliveryVars
<1>1. UNCHANGED ListedOf
  BY DEF ListedOf
<1> QED
  BY <1>1, SameCalls, Seen

\* A try that starts or fails leaves the recording on the list.
LEMMA StillWaiting ==
  ASSUME TypeOK, NEW r \in Recordings, NEW q \in Queued, local[r] \in Queued, Mark(r, q)
  PROVE  UNCHANGED ListedOf
BY DEF ListedOf, Mark, TypeOK, Queued

\* The phone's answer takes a waiting recording off the list.
LEMMA TakenOff ==
  ASSUME TypeOK, NEW r \in Recordings, local[r] \in Queued, Mark(r, "UPLOADED")
  PROVE  Delivery!TakeOff(r)
BY DEF Delivery!TakeOff, Mark, TypeOK, Queued

LEMMA InitRefines == Init => Delivery!RInit
<1> SUFFICES ASSUME Init PROVE Delivery!RInit
    OBVIOUS
<1>1. HeardOf = [r \in Recordings |-> {}]
  BY DEF Init, HeardOf
<1>2. StoredOf = {} /\ DeadOf = {}
  BY DEF Init, StoredOf, DeadOf
<1>3. ListedOf = [r \in Recordings |-> "waiting"]
  BY DEF Init, ListedOf, Queued
<1> QED
  BY <1>1, <1>2, <1>3 DEF Init, Delivery!RInit, HeardOf, StoredOf, DeadOf, ListedOf

\* A recording has been heard, or an upload of it declared dead, once a row of it
\* waits for nothing; while a row of it waits, it has not been heard.
LEMMA RowTells ==
  ASSUME IInv, NEW r \in Recordings, NEW c \in Rows, owner[c] = r
  PROVE  /\ state[c] # "AWAITING_AUDIO" => HeardOf[r] # {} \/ r \in DeadOf
         /\ state[c] = "AWAITING_AUDIO" => HeardOf[r] = {}
<1>1. ASSUME state[c] # "AWAITING_AUDIO" PROVE HeardOf[r] # {} \/ r \in DeadOf
  <2>1. state[c] \in {"FAILED_UPLOAD", "RECEIVED"}
    BY <1>1, UploadAssumption DEF IInv, Rowed, TypeOK, RowState
  <2> QED
    BY <2>1 DEF HeardOf, DeadOf
<1>2. ASSUME state[c] = "AWAITING_AUDIO" PROVE HeardOf[r] = {}
  BY <1>2 DEF IInv, OneLive, Live, HeardOf
<1> QED
  BY <1>1, <1>2

\* The phone starts, gives up on or clears away a recording.
LEMMA HandsetRefines ==
  ASSUME IInv, Handset
  PROVE  [Delivery!RNext]_(Delivery!deliveryVars)
<1> USE DEF phone, worker, slots, calls
<1>1. ASSUME NEW r \in Recordings, StartUpload(r) PROVE UNCHANGED Delivery!deliveryVars
  <2>1. UNCHANGED ListedOf
    BY <1>1, StillWaiting DEF StartUpload, IInv, Queued
  <2> QED
    BY <1>1, <2>1, SameCalls, Seen DEF StartUpload
<1>2. ASSUME NEW r \in Recordings, Discard(r) PROVE Delivery!RNext
  <2>1. file[r] = "lost" /\ ListedOf[r] = "waiting"
    BY <1>2 DEF IInv, TypeOK, Kept, Discard, Queued, ListedOf
  <2>2. ListedOf' = [ListedOf EXCEPT ![r] = "DISCARDED"]
    BY <1>2 DEF IInv, TypeOK, Discard, Mark, Queued, ListedOf
  <2>3. UNCHANGED <<HeardOf, StoredOf, DeadOf, file>>
    BY <1>2, SameCalls DEF Discard
  <2>4. Delivery!Discard(r)
    BY <2>1, <2>2, <2>3 DEF Delivery!Discard, HeardOf, StoredOf, DeadOf, ListedOf
  <2> QED
    BY <2>4 DEF Delivery!RNext
<1>3. ASSUME NEW s \in Slots, AskForPlan(s) \/ AskToComplete(s) PROVE UNCHANGED Delivery!deliveryVars
  BY <1>3, QuietStep DEF AskForPlan, AskToComplete
<1>4. ASSUME CleanUp, ~KeepsLocal PROVE Delivery!RNext
  <2>1. rec \in Recordings /\ file[rec] = "kept" /\ ListedOf[rec] = "UPLOADED"
    BY <1>4 DEF IInv, Working, CleanUp, Queued, ListedOf
  <2>2. UNCHANGED <<HeardOf, StoredOf, DeadOf, ListedOf>>
    BY <1>4, SameCalls DEF CleanUp, ListedOf
  <2>3. Delivery!Delete(rec)
    BY <1>4, <2>1, <2>2 DEF CleanUp, Delivery!Delete, HeardOf, StoredOf, DeadOf, ListedOf
  <2> QED
    BY <2>1, <2>3 DEF Delivery!RNext
<1>5. ASSUME CleanUp, KeepsLocal PROVE UNCHANGED Delivery!deliveryVars
  BY <1>5, QuietStep DEF CleanUp, IInv, TypeOK
<1> QED
  BY <1>1, <1>2, <1>3, <1>4, <1>5 DEF Handset

\* An error leaves everything as it is, a 200 takes the recording off the list.
LEMMA ErrorIsQuiet ==
  ASSUME IInv, NEW s \in Slots, AnswerError(s), UNCHANGED <<owner, state, audio, rewound>>
  PROVE  UNCHANGED Delivery!deliveryVars
<1>1. CASE line = s
  <2>1. rec \in Recordings /\ local[rec] \in Queued /\ Mark(rec, "FAILED") /\ UNCHANGED file
    BY <1>1, UploadAssumption DEF AnswerError, IInv, Working, Queued
  <2>2. UNCHANGED ListedOf
    BY <2>1, StillWaiting DEF IInv, Queued
  <2> QED
    BY <2>1, <2>2, SameCalls, Seen
<1>2. CASE line # s
  BY <1>2, QuietStep DEF AnswerError
<1> QED
  BY <1>1, <1>2

LEMMA DoneTakesOff ==
  ASSUME IInv, NEW s \in Slots, AnswerDone(s), line = s
  PROVE  \E r \in Recordings : r = sRec[s] /\ Delivery!TakeOff(r)
<1>1. rec \in Recordings /\ rec = sRec[s] /\ local[rec] \in Queued /\ Mark(rec, "UPLOADED")
  BY UploadAssumption DEF AnswerDone, IInv, Working, Queued
<1>2. PICK r \in Recordings : r = rec
  BY <1>1
<1>3. local[r] \in Queued /\ Mark(r, "UPLOADED")
  BY <1>1, <1>2 DEF Mark
<1>4. Delivery!TakeOff(r)
  BY <1>3, TakenOff DEF IInv
<1> QED
  BY <1>1, <1>2, <1>4

\* A completion of what no longer waits.
LEMMA AckRefines ==
  ASSUME IInv, NEW s \in Slots, AnswerDone(s), UNCHANGED <<owner, state, audio, rewound>>,
         at[s] \in {"check", "confirm"}, state[sRow[s]] # "AWAITING_AUDIO"
  PROVE  [Delivery!RNext]_(Delivery!deliveryVars)
<1>1. CASE line = s
  <2>1. PICK r \in Recordings : r = sRec[s] /\ Delivery!TakeOff(r)
    BY <1>1, DoneTakesOff
  <2>2. sRow[s] \in Rows /\ owner[sRow[s]] = r
    BY <2>1 DEF IInv, Serving
  <2>3. HeardOf[r] # {} \/ r \in DeadOf
    BY <2>2, RowTells
  <2>4. UNCHANGED <<HeardOf, StoredOf, DeadOf, file>>
    BY SameCalls DEF AnswerDone
  <2>5. Delivery!Acknowledge(r)
    BY <2>1, <2>3, <2>4 DEF Delivery!Acknowledge, HeardOf, StoredOf, DeadOf
  <2> QED
    BY <2>5 DEF Delivery!RNext
<1>2. CASE line # s
  BY <1>2, QuietStep DEF AnswerDone
<1> QED
  BY <1>1, <1>2

\* POST /v1/calls makes a row of which nothing is known yet.
LEMMA InsertRefines ==
  ASSUME IInv, NEW s \in Slots, Insert(s)
  PROVE  UNCHANGED Delivery!deliveryVars
<1>1. ASSUME NEW c \in Rows, owner[c] = None,
             owner' = [owner EXCEPT ![c] = sRec[s]],
             state' = [state EXCEPT ![c] = "AWAITING_AUDIO"],
             AnswerPlan(s, c), UNCHANGED <<audio, rewound>>
      PROVE  UNCHANGED Delivery!deliveryVars
  <2>1. state[c] = "none" /\ ~audio[c] /\ c \notin rewound
    BY <1>1 DEF IInv, Rowed
  <2>2. \A d \in Rows : /\ d # c => owner'[d] = owner[d] /\ state'[d] = state[d]
                        /\ d = c => state'[d] = "AWAITING_AUDIO"
    BY <1>1 DEF IInv, TypeOK
  <2>3. UNCHANGED <<HeardOf, StoredOf, DeadOf>>
    BY <1>1, <2>1, <2>2 DEF HeardOf, StoredOf, DeadOf
  <2>4. UNCHANGED <<ListedOf, file>>
    BY <1>1 DEF AnswerPlan, phone, ListedOf
  <2> QED
    BY <2>3, <2>4, Seen
<1>2. ASSUME AnswerError(s), UNCHANGED <<owner, state, audio, rewound>>
      PROVE  UNCHANGED Delivery!deliveryVars
  BY <1>2, ErrorIsQuiet
<1> QED
  BY <1>1, <1>2 DEF Insert

\* The object is assembled.
LEMMA StoreRefines ==
  ASSUME IInv, NEW s \in Slots, Store(s)
  PROVE  Delivery!RNext
<1>1. PICK c \in Rows, r \in Recordings : c = sRow[s] /\ r = owner[c]
  BY DEF Store, IInv, Serving
<1>2. audio' = [audio EXCEPT ![c] = TRUE] /\ UNCHANGED <<owner, state, rewound, local, file>>
  BY <1>1 DEF Store, phone
<1>3. StoredOf' = StoredOf \union {r}
  BY <1>1, <1>2 DEF IInv, TypeOK, StoredOf
<1>4. UNCHANGED <<HeardOf, DeadOf, ListedOf>>
  BY <1>2 DEF HeardOf, DeadOf, ListedOf
<1>5. Delivery!Put(r)
  BY <1>2, <1>3, <1>4 DEF Delivery!Put, HeardOf, StoredOf, DeadOf, ListedOf
<1> QED
  BY <1>5 DEF Delivery!RNext

\* A row that turns RECEIVED is what its recording is heard as.
LEMMA Received ==
  ASSUME IInv, NEW r \in Recordings, NEW c \in Rows, owner[c] = r, HeardOf[r] = {},
         state' = [state EXCEPT ![c] = "RECEIVED"], UNCHANGED owner
  PROVE  HeardOf' = [HeardOf EXCEPT ![r] = {c}]
<1>1. \A d \in Rows : state'[d] = IF d = c THEN "RECEIVED" ELSE state[d]
  BY DEF IInv, TypeOK
<1>2. \A q \in Recordings : HeardOf'[q] = IF q = r THEN {c} ELSE HeardOf[q]
  BY <1>1 DEF HeardOf
<1>3. HeardOf = [q \in Recordings |-> HeardOf[q]] /\ HeardOf' = [q \in Recordings |-> HeardOf'[q]]
  BY DEF HeardOf
<1> QED
  BY <1>2, <1>3

\* The confirming update, and the answer that comes with it.
LEMMA ConfirmRefines ==
  ASSUME IInv, NEW s \in Slots, Confirm(s)
  PROVE  [Delivery!RNext]_(Delivery!deliveryVars)
<1>1. PICK c \in Rows, r \in Recordings : c = sRow[s] /\ r = sRec[s] /\ owner[c] = r /\ audio[c]
  BY DEF Confirm, IInv, Serving
<1>2. CASE state[c] = "AWAITING_AUDIO"
  <2>1. /\ state' = [state EXCEPT ![c] = "RECEIVED"]
        /\ UNCHANGED <<owner, audio, rewound, file>>
    BY <1>1, <1>2 DEF Confirm, AnswerDone
  <2>2. HeardOf[r] = {}
    BY <1>1, <1>2, RowTells
  <2>3. HeardOf' = [HeardOf EXCEPT ![r] = {c}]
    BY <1>1, <2>1, <2>2, Received
  <2>4. r \in StoredOf \union DeadOf
    BY <1>1 DEF StoredOf
  <2>5. UNCHANGED <<StoredOf, DeadOf>>
    <3>1. \A d \in Rows : state'[d] = "FAILED_UPLOAD" <=> state[d] = "FAILED_UPLOAD"
      BY <1>2, <2>1 DEF IInv, TypeOK
    <3> QED
      BY <2>1, <3>1 DEF StoredOf, DeadOf
  <2>6. Delivery!TakeOff(r) \/ UNCHANGED ListedOf
    <3>1. CASE line = s
      BY <1>1, <3>1, DoneTakesOff DEF Confirm
    <3>2. CASE line # s
      BY <3>2 DEF Confirm, AnswerDone, ListedOf
    <3> QED
      BY <3>1, <3>2
  <2>7. Delivery!Hear(r)
    BY <2>1, <2>2, <2>3, <2>4, <2>5, <2>6 DEF Delivery!Hear, HeardOf, StoredOf, DeadOf, ListedOf
  <2> QED
    BY <2>7 DEF Delivery!RNext
<1>3. CASE state[c] # "AWAITING_AUDIO"
  BY <1>1, <1>3, AckRefines DEF Confirm
<1> QED
  BY <1>2, <1>3

\* The sweep declares an upload dead.
LEMMA FailStrandedRefines ==
  ASSUME IInv, NEW c \in Rows, FailStranded(c)
  PROVE  Delivery!RNext
<1>1. /\ state[c] = "AWAITING_AUDIO"
      /\ state' = [state EXCEPT ![c] = "FAILED_UPLOAD"]
      /\ UNCHANGED <<owner, audio, rewound, local, file>>
  BY DEF FailStranded, phone
<1>2. PICK r \in Recordings : owner[c] = r
  BY <1>1 DEF IInv, Rowed, TypeOK
<1>3. HeardOf[r] = {}
  BY <1>1, <1>2, RowTells
<1>4. \A d \in Rows : state'[d] = IF d = c THEN "FAILED_UPLOAD" ELSE state[d]
  BY <1>1 DEF IInv, TypeOK
<1>5. UNCHANGED <<HeardOf, StoredOf, ListedOf>>
  BY <1>1, <1>4 DEF HeardOf, StoredOf, ListedOf
<1>6. DeadOf' = DeadOf \union {r}
  BY <1>1, <1>2, <1>4 DEF DeadOf
<1>7. Delivery!Bury(r)
  BY <1>1, <1>3, <1>5, <1>6 DEF Delivery!Bury, HeardOf, StoredOf, DeadOf, ListedOf
<1> QED
  BY <1>7 DEF Delivery!RNext

\* A person revives a dead upload: it is heard, with whatever audio there is.
LEMMA RewindRefines ==
  ASSUME IInv, NEW c \in Rows, Rewind(c)
  PROVE  Delivery!RNext
<1>1. /\ state[c] = "FAILED_UPLOAD" /\ Live(owner[c]) = {}
      /\ state' = [state EXCEPT ![c] = "RECEIVED"]
      /\ rewound' = rewound \union {c}
      /\ UNCHANGED <<owner, audio, local, file>>
  BY DEF Rewind, phone
<1>2. PICK r \in Recordings : owner[c] = r
  BY <1>1 DEF IInv, Rowed, TypeOK
<1>3. HeardOf[r] = {}
  BY <1>1, <1>2 DEF Live, HeardOf
<1>4. HeardOf' = [HeardOf EXCEPT ![r] = {c}]
  BY <1>1, <1>2, <1>3, Received
<1>5. r \in StoredOf \union DeadOf
  BY <1>1, <1>2 DEF DeadOf
<1>6. UNCHANGED <<StoredOf, DeadOf, ListedOf>>
  <2>1. \A d \in Rows : state'[d] = "FAILED_UPLOAD" \/ d \in rewound'
                       <=> state[d] = "FAILED_UPLOAD" \/ d \in rewound
    BY <1>1 DEF IInv, TypeOK
  <2> QED
    BY <1>1, <2>1 DEF StoredOf, DeadOf, ListedOf
<1>7. Delivery!Hear(r)
  BY <1>1, <1>3, <1>4, <1>5, <1>6 DEF Delivery!Hear, HeardOf, StoredOf, DeadOf, ListedOf
<1> QED
  BY <1>7 DEF Delivery!RNext

\* A request that is served, or fails.
LEMMA ServeRefines ==
  ASSUME IInv, NEW s \in Slots, Serve(s) \/ RequestFails(s)
  PROVE  [Delivery!RNext]_(Delivery!deliveryVars)
<1> USE DEF phone, calls
<1>1. CASE Lookup(s)
  BY <1>1, QuietStep DEF Lookup, AnswerPlan
<1>2. CASE Insert(s)
  BY <1>2, InsertRefines
<1>3. CASE Check(s)
  <2>1. CASE state[sRow[s]] # "AWAITING_AUDIO"
    BY <1>3, <2>1, AckRefines DEF Check
  <2>2. CASE state[sRow[s]] = "AWAITING_AUDIO"
    BY <1>3, <2>2, QuietStep DEF Check
  <2> QED
    BY <2>1, <2>2
<1>4. CASE Store(s)
  BY <1>4, StoreRefines
<1>5. CASE Confirm(s)
  BY <1>5, ConfirmRefines
<1>6. CASE RequestFails(s)
  BY <1>6, ErrorIsQuiet DEF RequestFails
<1> QED
  BY <1>1, <1>2, <1>3, <1>4, <1>5, <1>6 DEF Serve

\* Every step is a step of the delivery, or none.
LEMMA StepRefines == IInv /\ [Next]_vars => [Delivery!RNext]_(Delivery!deliveryVars)
<1> SUFFICES ASSUME IInv, [Next]_vars PROVE [Delivery!RNext]_(Delivery!deliveryVars)
    OBVIOUS
<1> USE DEF phone, worker, slots, calls
<1>1. ASSUME UploadFails PROVE UNCHANGED Delivery!deliveryVars
  <2>1. rec \in Recordings /\ local[rec] \in Queued /\ Mark(rec, "FAILED") /\ UNCHANGED file
    BY <1>1 DEF UploadFails, IInv, Working, Queued
  <2>2. UNCHANGED ListedOf
    BY <2>1, StillWaiting DEF IInv, Queued
  <2> QED
    BY <1>1, <2>1, <2>2, SameCalls, Seen DEF UploadFails
<1>2. ASSUME Killed PROVE UNCHANGED Delivery!deliveryVars
  BY <1>2, QuietStep DEF Killed
<1>3. ASSUME NEW r \in Recordings, FileLost(r) PROVE Delivery!RNext
  <2>1. UNCHANGED <<HeardOf, StoredOf, DeadOf, ListedOf>>
    BY <1>3, SameCalls DEF FileLost, ListedOf
  <2>2. Delivery!Lose(r)
    BY <1>3, <2>1 DEF FileLost, Delivery!Lose, HeardOf, StoredOf, DeadOf, ListedOf
  <2> QED
    BY <2>2 DEF Delivery!RNext
<1>4. ASSUME NEW c \in Rows, Age(c) PROVE UNCHANGED Delivery!deliveryVars
  BY <1>4, QuietStep DEF Age
<1>5. ASSUME NEW c \in Rows, FailStranded(c) \/ Rewind(c) PROVE Delivery!RNext
  BY <1>5, FailStrandedRefines, RewindRefines
<1>6. ASSUME UNCHANGED vars PROVE UNCHANGED Delivery!deliveryVars
  BY <1>6, QuietStep DEF vars
<1> QED
  BY <1>1, <1>2, <1>3, <1>4, <1>5, <1>6, HandsetRefines, ServeRefines DEF Next

\* Whatever is lost, repeated or raced, the phone's owner sees a recording heard once
\* and taken off the phone after that, for any number of recordings and requests.
THEOREM ImplementsTheDelivery == Spec => ImplementsDelivery
BY InitRefines, StepRefines, Invariance, PTL DEF Spec, ImplementsDelivery, Delivery!RSpec
=============================================================================
