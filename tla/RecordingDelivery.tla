--------------------------- MODULE RecordingDelivery ---------------------------
(***************************************************************************)
(* What the owner of a phone is promised about a recording, with no        *)
(* request, no retry and no row in it: it is heard once, it leaves the     *)
(* phone's list only when it has been heard or its upload was declared     *)
(* dead, and its file is deleted only after that.  HandsetUpload           *)
(* implements it.                                                          *)
(***************************************************************************)
CONSTANTS Recordings,
          Calls,       \* what the pipeline can be given for a recording
          KeepsLocal   \* the phone keeps its files

VARIABLES heard,   \* per recording: the calls made of it
          stored,  \* recordings whose audio is complete in S3
          dead,    \* recordings of which an upload was declared dead
          listed,  \* per recording: "waiting", "UPLOADED" or "DISCARDED"
          file     \* per recording: the audio on the phone; "lost" is not our doing

deliveryVars == <<heard, stored, dead, listed, file>>

RInit == /\ heard  = [r \in Recordings |-> {}]
         /\ stored = {}
         /\ dead   = {}
         /\ listed = [r \in Recordings |-> "waiting"]
         /\ file   = [r \in Recordings |-> "kept"]

TakeOff(r) == /\ listed[r] = "waiting"
              /\ listed' = [listed EXCEPT ![r] = "UPLOADED"]

Put(r) == /\ stored' = stored \union {r}
          /\ UNCHANGED <<heard, dead, listed, file>>

\* Once, and with its audio unless a person revived a dead upload.  The phone may
\* be told in the same step.
Hear(r) == /\ heard[r] = {}
           /\ r \in stored \union dead
           /\ \E c \in Calls : heard' = [heard EXCEPT ![r] = {c}]
           /\ TakeOff(r) \/ UNCHANGED listed
           /\ UNCHANGED <<stored, dead, file>>

\* Nobody declares dead what has been heard.
Bury(r) == /\ heard[r] = {}
           /\ dead' = dead \union {r}
           /\ UNCHANGED <<heard, stored, listed, file>>

Acknowledge(r) == /\ heard[r] # {} \/ r \in dead
                  /\ TakeOff(r)
                  /\ UNCHANGED <<heard, stored, dead, file>>

Delete(r) == /\ listed[r] = "UPLOADED"
             /\ ~KeepsLocal
             /\ file[r] = "kept"
             /\ file' = [file EXCEPT ![r] = "deleted"]
             /\ UNCHANGED <<heard, stored, dead, listed>>

Lose(r) == /\ file[r] = "kept"
           /\ file' = [file EXCEPT ![r] = "lost"]
           /\ UNCHANGED <<heard, stored, dead, listed>>

\* The phone gives up only on a file that somebody else removed.
Discard(r) == /\ listed[r] = "waiting"
              /\ file[r] = "lost"
              /\ listed' = [listed EXCEPT ![r] = "DISCARDED"]
              /\ UNCHANGED <<heard, stored, dead, file>>

RNext == \E r \in Recordings : \/ Put(r) \/ Hear(r) \/ Bury(r) \/ Acknowledge(r)
                               \/ Delete(r) \/ Lose(r) \/ Discard(r)

RSpec == RInit /\ [][RNext]_deliveryVars
================================================================================
