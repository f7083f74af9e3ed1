------------------------------ MODULE CrmOutbox ------------------------------
(***************************************************************************)
(* crm_sync_log, the durable queue of CRM sends: the enqueue that resets a *)
(* row and tries it at once, the drain that redelivers what is still due,  *)
(* and the operator's retry.  EnrichmentLane composes it with the lane     *)
(* that releases the sends.                                                *)
(*                                                                         *)
(* A delivery is an HTTP request made inside an open transaction.  What    *)
(* the CRM accepted is therefore visible before, and whether or not, the   *)
(* transaction commits: write[t] holds what transaction t has written to   *)
(* rows it now locks.  One connected integration is modelled, one that     *)
(* takes every call; rows of different integrations are independent.       *)
(***************************************************************************)
EXTENDS Naturals

CONSTANTS Calls,
          Drains,      \* drain ticks that may be open at once: the timer has no guard
          Lanes,       \* enrichment runs, which enqueue
          Null,
          MaxSends,    \* crm_integrations.max_attempts
          MaxIssued,   \* bound: request ids made for one call
          MaxActs,     \* bound: times an operator requeues the delivery of a call or reprocesses it
          MaxFaults    \* bound: crashes, lost messages, database errors

RowStatus == {"none", "pending", "synced", "dead"}
Row == [sync : RowStatus, sent : 0..MaxSends, req : 0..MaxIssued]

ASSUME OutboxAssumption ==
  /\ Drains \intersect Lanes = {}
  /\ Null \notin Calls \union Row
  /\ MaxSends \in Nat \ {0}
  /\ MaxIssued \in Nat \ {0}
  /\ MaxActs \in Nat
  /\ MaxFaults \in Nat

VARIABLES
  outbox,    \* per call: the committed crm_sync_log row
  write,     \* per transaction and call: the row as rewritten so far, or Null
  todo,      \* per drain and call: the request id its tick selected, or 0
  flight,    \* per drain: the answered delivery whose row is still to be written
  issued,    \* per call: request ids made so far
  accepted,  \* per call: request ids the CRM has taken in (nothing recalls them)
  acts, faults

outboxVars == <<outbox, write, todo, flight, issued, accepted, acts>>

Senders == Drains \union Lanes

Fault == /\ faults < MaxFaults
         /\ faults' = faults + 1

\* The row is locked by a transaction other than t.
Locked(t, c) == \E u \in Senders \ {t} : write[u][c] # Null

Forget(t) == write' = [write EXCEPT ![t] = [c \in Calls |-> Null]]

-----------------------------------------------------------------------------
(* attemptOne *)

\* What the CRM may do with a request: take it, refuse it for good, be unable to
\* serve it now, or take it while the answer is lost to the timeout.
Answer == {"ok", "refused", "busy", "lost"}

Accept(c, id, a) ==
  accepted' = IF a \in {"ok", "lost"} THEN [accepted EXCEPT ![c] = @ \union {id}]
                                      ELSE accepted

\* Mutants: a refusal passes for a delivery, a row never runs out of attempts.
OutcomeOfAnyAnswer(id, n, a) ==
  [sync |-> IF a \in {"ok", "refused"} THEN "synced"
            ELSE IF n >= MaxSends THEN "dead" ELSE "pending",
   sent |-> n, req |-> id]

OutcomeNeverDead(id, n, a) ==
  [sync |-> IF a = "ok" THEN "synced" ELSE "pending", sent |-> n, req |-> id]

Outcome(id, n, a) ==
  [sync |-> IF a = "ok" THEN "synced"
            ELSE IF a = "refused" \/ n >= MaxSends THEN "dead" ELSE "pending",
   sent |-> n, req |-> id]

\* The payload cannot be built: dead, nothing is sent, counted or renamed.
Unsendable(row) == [row EXCEPT !.sync = "dead"]

-----------------------------------------------------------------------------
(* enqueueDispatch: insert the row, or reset it under a fresh request id, and *)
(* try it within the caller's transaction.                                    *)

Enqueue(t, c) ==
  LET id == issued[c] + 1 IN
  /\ issued[c] < MaxIssued
  /\ ~Locked(t, c)
  /\ issued' = [issued EXCEPT ![c] = id]
  /\ \/ \E a \in Answer : /\ Accept(c, id, a)
                          /\ write' = [write EXCEPT ![t][c] = Outcome(id, 1, a)]
     \/ /\ write' = [write EXCEPT ![t][c] = Unsendable([sync |-> "pending", sent |-> 0, req |-> id])]
        /\ UNCHANGED accepted
  /\ UNCHANGED <<outbox, todo, flight, acts>>

Commit(t) ==
  /\ outbox' = [c \in Calls |-> IF write[t][c] # Null THEN write[t][c] ELSE outbox[c]]
  /\ Forget(t)

-----------------------------------------------------------------------------
(* drainOutbox *)

Due(c)    == outbox[c].sync = "pending"
Quiet(d)  == flight[d] = Null /\ \A c \in Calls : todo[d][c] = 0
Open(d)   == ~Quiet(d) \/ \E c \in Calls : write[d][c] # Null

\* The tick's select, over committed rows; its share of the rate limit may leave
\* some of them for a later tick.  Nothing is claimed.
Tick(d) ==
  /\ ~Open(d)
  /\ \E S \in SUBSET {c \in Calls : Due(c)} :
       /\ S # {}
       /\ todo' = [todo EXCEPT ![d] = [c \in Calls |-> IF c \in S THEN outbox[c].req ELSE 0]]
  /\ UNCHANGED <<outbox, write, flight, issued, accepted, acts, faults>>

\* attemptOne up to its read of the attempt counter: whatever became of the row
\* since the select, the request goes out.
Deliver(d, c) ==
  LET id == todo[d][c]  n == outbox[c].sent IN
  /\ id # 0
  /\ flight[d] = Null
  /\ todo' = [todo EXCEPT ![d][c] = 0]
  /\ \/ \E a \in Answer :
          /\ Accept(c, id, a)
          /\ LET k == IF n < MaxSends THEN n + 1 ELSE n IN
             flight' = [flight EXCEPT ![d] = [call |-> c, row |-> Outcome(id, k, a)]]
     \/ /\ flight' = [flight EXCEPT ![d] = [call |-> c, row |-> Null]]
        /\ UNCHANGED accepted
  /\ UNCHANGED <<outbox, write, issued, acts, faults>>

\* The row's update, once no other transaction holds it.
Record(d) ==
  LET c == flight[d].call IN
  /\ flight[d] # Null
  /\ ~Locked(d, c)
  /\ write' = [write EXCEPT ![d][c] = IF flight[d].row = Null THEN Unsendable(outbox[c])
                                                             ELSE flight[d].row]
  /\ flight' = [flight EXCEPT ![d] = Null]
  /\ UNCHANGED <<outbox, todo, issued, accepted, acts, faults>>

\* The tick's transaction ends.
EndTick(d) ==
  /\ Quiet(d) /\ Open(d)
  /\ Commit(d)
  /\ UNCHANGED <<todo, flight, issued, accepted, acts, faults>>

\* The process dies, a statement fails, or the database breaks a cycle of lock
\* waits: the requests are out, and every record of them is rolled back.
AbortTick(d) ==
  /\ Open(d)
  /\ \/ Fault
     \/ /\ flight[d] # Null /\ Locked(d, flight[d].call)
        /\ UNCHANGED faults
  /\ Forget(d)
  /\ todo'   = [todo EXCEPT ![d] = [c \in Calls |-> 0]]
  /\ flight' = [flight EXCEPT ![d] = Null]
  /\ UNCHANGED <<outbox, issued, accepted, acts>>

-----------------------------------------------------------------------------
(* crm.controller: requeue a delivery, with the budget and the id it had. *)

RetryDelivery(c) ==
  /\ outbox[c].sync # "none"
  /\ \A t \in Senders : write[t][c] = Null
  /\ acts[c] < MaxActs
  /\ acts' = [acts EXCEPT ![c] = @ + 1]
  /\ outbox' = [outbox EXCEPT ![c].sync = "pending", ![c].sent = 0]
  /\ UNCHANGED <<write, todo, flight, issued, accepted, faults>>

-----------------------------------------------------------------------------

OutboxInit ==
  /\ outbox   = [c \in Calls |-> [sync |-> "none", sent |-> 0, req |-> 0]]
  /\ write    = [t \in Senders |-> [c \in Calls |-> Null]]
  /\ todo     = [d \in Drains |-> [c \in Calls |-> 0]]
  /\ flight   = [d \in Drains |-> Null]
  /\ issued   = [c \in Calls |-> 0]
  /\ accepted = [c \in Calls |-> {}]
  /\ acts     = [c \in Calls |-> 0]
  /\ faults   = 0

DrainStep(d) == \/ \E c \in Calls : Deliver(d, c)
                \/ Record(d) \/ EndTick(d)

OutboxNext == \/ \E d \in Drains : Tick(d) \/ DrainStep(d) \/ AbortTick(d)
              \/ \E c \in Calls : RetryDelivery(c)

OutboxTypeOK ==
  /\ outbox \in [Calls -> Row]
  /\ write \in [Senders -> [Calls -> Row \union {Null}]]
  /\ todo \in [Drains -> [Calls -> 0..MaxIssued]]
  /\ flight \in [Drains -> [call : Calls, row : Row \union {Null}] \union {Null}]
  /\ issued \in [Calls -> 0..MaxIssued]
  /\ accepted \in [Calls -> SUBSET (1..MaxIssued)]
  /\ acts \in [Calls -> 0..MaxActs]
  /\ faults \in 0..MaxFaults
=============================================================================
