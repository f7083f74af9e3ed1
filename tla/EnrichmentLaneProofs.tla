------------------------ MODULE EnrichmentLaneProofs ------------------------
(***************************************************************************)
(* Proofs about EnrichmentLane and the CrmOutbox it EXTENDS, for any       *)
(* number of calls, consumers, sweeps and drain ticks that overlap.        *)
(*                                                                         *)
(* The outbox keeps Vouched by itself, whoever enqueues.  The lane's       *)
(* promises need that a call is on one lane, that a lane about to commit   *)
(* has its send written, and that a call still waiting for its summary has *)
(* left no trace in the outbox at all, committed or not (Untouched).       *)
(***************************************************************************)
EXTENDS EnrichmentLane, TLAPS

\* What may stand in a row of call c, or be on its way into it.
Honest(c, row) == /\ row.sync # "none"
                  /\ row.sync = "synced" => row.req \in accepted[c]

\* Whatever is synced, written as synced or about to be, the CRM has taken in.
Vouched ==
  /\ SyncedWasAccepted
  /\ \A t \in Senders, c \in Calls : write[t][c] # Null => Honest(c, write[t][c])
  /\ \A d \in Drains : flight[d] # Null /\ flight[d].row # Null
                         => Honest(flight[d].call, flight[d].row)

\* No tick, transaction or committed row knows of the call.
Untouched(c) ==
  /\ accepted[c] = {} /\ outbox[c].sync = "none"
  /\ \A t \in Senders : write[t][c] = Null
  /\ \A d \in Drains : todo[d][c] = 0 /\ (flight[d] # Null => flight[d].call # c)

\* A lane at work is on a call.
Attached == \A l \in Lanes : ~Free(l) => on[l] \in Calls

\* A lane that has a verdict earned it, and commits its send with it.
Verdicts ==
  \A l \in Lanes :
    /\ at[l] \in {"settle", "commit"} =>
         /\ verdict[l] \in {"done", "skipped", "failed"}
         /\ verdict[l] = "failed" => tries[on[l]] >= MaxEnrichAttempts
    /\ at[l] = "commit" => write[l][on[l]] # Null

\* A call that may still get its first summary; a failure is final only once the
\* attempts are used up.
Waiting ==
  /\ \A c \in Calls :
       /\ ~Terminal(c) /\ enrich[c] # "running" => Untouched(c)
       /\ enrich[c] = "failed" /\ ~retryAt[c] => tries[c] >= MaxEnrichAttempts
  /\ \A l \in Lanes :
       at[l] \in {"read", "write"} /\ tries[on[l]] <= MaxEnrichAttempts => Untouched(on[l])

LaneInv == Attached /\ OneReader /\ Verdicts /\ Waiting /\ VerdictReleases

IInv == TypeOK /\ Vouched /\ LaneInv

-----------------------------------------------------------------------------
(* The outbox, whoever uses it *)

\* An answer leads to a row of the table that says no more than the CRM did.
LEMMA OutcomeIsHonest ==
  ASSUME OutboxTypeOK, NEW c \in Calls, NEW id \in 1..MaxIssued, NEW n \in 0..MaxSends,
         NEW a \in Answer, Accept(c, id, a)
  PROVE  /\ Outcome(id, n, a) \in Row
         /\ Honest(c, Outcome(id, n, a))'
         /\ Outcome(id, n, a) # Null
         /\ accepted' \in [Calls -> SUBSET (1..MaxIssued)]
         /\ \A x \in Calls : accepted[x] \subseteq accepted'[x]
         /\ \A x \in Calls \ {c} : accepted'[x] = accepted[x]
<1>1. Outcome(id, n, a) \in Row
  BY DEF Outcome, Row, RowStatus
<1>2. /\ accepted' \in [Calls -> SUBSET (1..MaxIssued)]
      /\ \A x \in Calls : accepted[x] \subseteq accepted'[x]
      /\ \A x \in Calls \ {c} : accepted'[x] = accepted[x]
  BY DEF Accept, OutboxTypeOK
<1>3. a = "ok" => id \in accepted'[c]
  BY DEF Accept, OutboxTypeOK
<1>4. Honest(c, Outcome(id, n, a))'
  BY <1>3 DEF Honest, Outcome
<1> QED
  BY <1>1, <1>2, <1>4, OutboxAssumption DEF OutboxAssumption

\* What the CRM has taken in only grows, so what was honest stays so.
LEMMA HonestStays ==
  ASSUME NEW c \in Calls, NEW r, Honest(c, r), accepted[c] \subseteq accepted'[c]
  PROVE  Honest(c, r)'
BY DEF Honest

\* A payload that cannot be built leads to a dead row.
LEMMA UnsendableIsHonest ==
  ASSUME NEW c \in Calls, NEW r \in Row
  PROVE  /\ Unsendable(r) \in Row /\ Unsendable(r) # Null
         /\ Honest(c, Unsendable(r)) /\ Honest(c, Unsendable(r))'
<1>1. Unsendable(r) \in Row /\ Unsendable(r).sync = "dead"
  BY DEF Unsendable, Row, RowStatus
<1> QED
  BY <1>1, OutboxAssumption DEF OutboxAssumption, Honest

\* What enqueueDispatch leaves behind in its caller's transaction.
LEMMA EnqueueKeeps ==
  ASSUME OutboxTypeOK, Vouched, NEW t \in Senders, NEW c \in Calls, Enqueue(t, c),
         UNCHANGED faults
  PROVE  /\ OutboxTypeOK' /\ Vouched'
         /\ write'[t][c] # Null
         /\ \A u \in Senders, x \in Calls : x # c => write'[u][x] = write[u][x]
         /\ \A u \in Senders \ {t} : write'[u] = write[u]
         /\ \A x \in Calls : x # c => accepted'[x] = accepted[x]
<1> DEFINE id  == issued[c] + 1
           new == [sync |-> "pending", sent |-> 0, req |-> id]
           Fits(row) ==
             /\ write' = [write EXCEPT ![t][c] = row]
             /\ row # Null /\ Honest(c, row)'
             /\ accepted' \in [Calls -> SUBSET (1..MaxIssued)]
             /\ \A x \in Calls : accepted[x] \subseteq accepted'[x]
             /\ \A x \in Calls \ {c} : accepted'[x] = accepted[x]
<1>1. id \in 1..MaxIssued /\ issued' = [issued EXCEPT ![c] = id]
  BY OutboxAssumption DEF Enqueue, OutboxTypeOK, OutboxAssumption
<1>2. \E row \in Row : Fits(row)
  <2>1. ASSUME NEW a \in Answer, Accept(c, id, a), write' = [write EXCEPT ![t][c] = Outcome(id, 1, a)]
        PROVE  \E row \in Row : Fits(row)
    <3>1. 1 \in 0..MaxSends
      BY OutboxAssumption DEF OutboxAssumption
    <3> QED BY <2>1, <3>1, <1>1, OutcomeIsHonest
  <2>2. ASSUME write' = [write EXCEPT ![t][c] = Unsendable(new)], UNCHANGED accepted
        PROVE  \E row \in Row : Fits(row)
    <3>1. new \in Row
      BY <1>1, OutboxAssumption DEF Row, RowStatus, OutboxAssumption
    <3> QED BY <2>2, <3>1, UnsendableIsHonest DEF OutboxTypeOK
  <2> QED BY <2>1, <2>2 DEF Enqueue
<1>3. PICK row \in Row : Fits(row)
  BY <1>2
<1>4. OutboxTypeOK'
  <2>1. write' \in [Senders -> [Calls -> Row \union {Null}]]
    BY <1>3 DEF OutboxTypeOK
  <2>2. issued' \in [Calls -> 0..MaxIssued]
    BY <1>1 DEF OutboxTypeOK
  <2>3. UNCHANGED <<outbox, todo, flight, acts, faults>>
    BY DEF Enqueue
  <2> HIDE DEF Fits
  <2> QED BY <2>1, <2>2, <2>3, <1>3 DEF OutboxTypeOK, Fits
<1>5. /\ write'[t][c] = row
      /\ \A u \in Senders, x \in Calls : x # c => write'[u][x] = write[u][x]
      /\ \A u \in Senders \ {t} : write'[u] = write[u]
  BY <1>3 DEF OutboxTypeOK
<1>6. Vouched'
  <2>1. SyncedWasAccepted'
    BY <1>3 DEF Vouched, SyncedWasAccepted, Enqueue
  <2>2. ASSUME NEW u \in Senders, NEW x \in Calls, write'[u][x] # Null
        PROVE  Honest(x, write[u][x])'
    <3>1. CASE u = t /\ x = c BY <3>1, <1>3, <1>5 DEF Honest
    <3>2. CASE u # t \/ x # c
      <4>1. write'[u][x] = write[u][x] BY <3>2, <1>5
      <4>2. Honest(x, write[u][x]) BY <4>1, <2>2 DEF Vouched
      <4> QED BY <4>1, <4>2, <1>3 DEF Honest
    <3> QED BY <3>1, <3>2
  <2>3. ASSUME NEW d \in Drains, flight'[d] # Null, flight'[d].row # Null
        PROVE  Honest(flight[d].call, flight[d].row)'
    <3>1. flight'[d] = flight[d] /\ flight[d].call \in Calls
      BY <2>3 DEF Enqueue, OutboxTypeOK
    <3> QED BY <3>1, <2>3, <1>3 DEF Vouched, Honest
  <2> QED BY <2>1, <2>2, <2>3 DEF Vouched
<1> QED BY <1>3, <1>4, <1>5, <1>6

\* A transaction that ends, either way, writes no more.
LEMMA ForgetKeeps ==
  ASSUME OutboxTypeOK, NEW t \in Senders, Forget(t)
  PROVE  /\ write' \in [Senders -> [Calls -> Row \union {Null}]]
         /\ \A x \in Calls : write'[t][x] = Null
         /\ \A u \in Senders \ {t} : write'[u] = write[u]
         /\ \A u \in Senders, x \in Calls : write'[u][x] # Null => write'[u][x] = write[u][x]
BY DEF OutboxTypeOK, Forget

\* A commit puts into the table what its transaction wrote, and nothing else.
LEMMA CommitKeeps ==
  ASSUME OutboxTypeOK, Vouched, NEW t \in Senders, Commit(t),
         UNCHANGED <<todo, flight, issued, accepted, acts, faults>>
  PROVE  /\ OutboxTypeOK' /\ Vouched'
         /\ \A x \in Calls : write'[t][x] = Null
         /\ \A u \in Senders \ {t} : write'[u] = write[u]
         /\ \A x \in Calls :
              /\ write[t][x] = Null => outbox'[x] = outbox[x]
              /\ outbox[x].sync # "none" \/ write[t][x] # Null => outbox'[x].sync # "none"
<1>1. \A x \in Calls : outbox'[x] = IF write[t][x] # Null THEN write[t][x] ELSE outbox[x]
  BY DEF Commit
<1>2. Forget(t)
  BY DEF Commit
<1>3. outbox' \in [Calls -> Row]
  BY DEF Commit, OutboxTypeOK
<1>4. OutboxTypeOK'
  BY <1>2, <1>3, ForgetKeeps DEF OutboxTypeOK
<1>5. \A x \in Calls :
        /\ write[t][x] = Null => outbox'[x] = outbox[x]
        /\ outbox[x].sync # "none" \/ write[t][x] # Null => outbox'[x].sync # "none"
  BY <1>1 DEF Vouched, Honest
<1>6. Vouched'
  <2>1. SyncedWasAccepted'
    BY <1>1 DEF Vouched, Honest, SyncedWasAccepted
  <2>2. ASSUME NEW u \in Senders, NEW x \in Calls, write'[u][x] # Null
        PROVE  Honest(x, write[u][x])'
    <3>1. write'[u][x] = write[u][x] BY <2>2, <1>2, ForgetKeeps
    <3> QED BY <3>1, <2>2 DEF Vouched, Honest
  <2>3. ASSUME NEW d \in Drains, flight'[d] # Null, flight'[d].row # Null
        PROVE  Honest(flight[d].call, flight[d].row)'
    BY <2>3 DEF Vouched, Honest
  <2> QED BY <2>1, <2>2, <2>3 DEF Vouched
<1> QED BY <1>2, <1>4, <1>5, <1>6, ForgetKeeps

\* A transaction that is rolled back leaves the table, and only its writes are gone.
LEMMA RollbackKeeps ==
  ASSUME OutboxTypeOK, Vouched, NEW t \in Senders, Forget(t), Fault,
         UNCHANGED <<outbox, todo, flight, issued, accepted, acts>>
  PROVE  /\ OutboxTypeOK' /\ Vouched'
         /\ \A c \in Calls : Untouched(c) => Untouched(c)'
<1>1. OutboxTypeOK'
  BY ForgetKeeps, OutboxAssumption DEF OutboxTypeOK, Fault, OutboxAssumption
<1>2. Vouched'
  <2>1. SyncedWasAccepted'
    BY DEF Vouched, SyncedWasAccepted
  <2>2. ASSUME NEW u \in Senders, NEW x \in Calls, write'[u][x] # Null
        PROVE  Honest(x, write[u][x])'
    <3>1. write'[u][x] = write[u][x] BY <2>2, ForgetKeeps
    <3> QED BY <3>1, <2>2 DEF Vouched, Honest
  <2>3. ASSUME NEW d \in Drains, flight'[d] # Null, flight'[d].row # Null
        PROVE  Honest(flight[d].call, flight[d].row)'
    BY <2>3 DEF Vouched, Honest
  <2> QED BY <2>1, <2>2, <2>3 DEF Vouched
<1>3. \A c \in Calls : Untouched(c) => Untouched(c)'
  BY ForgetKeeps DEF Untouched
<1> QED BY <1>1, <1>2, <1>3

\* A drain tick or an operator: nothing a lane has written is touched, no row is
\* taken back, and a call the outbox knows nothing of stays unknown to it.
LEMMA SendKeeps ==
  ASSUME OutboxTypeOK, Vouched, OutboxNext
  PROVE  /\ OutboxTypeOK' /\ Vouched'
         /\ \A l \in Lanes : write'[l] = write[l]
         /\ \A c \in Calls : outbox[c].sync # "none" => outbox'[c].sync # "none"
         /\ \A c \in Calls : Untouched(c) => Untouched(c)'
<1> DEFINE Kept == /\ OutboxTypeOK' /\ Vouched'
                   /\ \A l \in Lanes : write'[l] = write[l]
                   /\ \A c \in Calls : outbox[c].sync # "none" => outbox'[c].sync # "none"
                   /\ \A c \in Calls : Untouched(c) => Untouched(c)'
<1>0. \A d \in Drains : d \in Senders /\ d \notin Lanes
  BY OutboxAssumption DEF OutboxAssumption, Senders
<1>1. ASSUME NEW d \in Drains, Tick(d) PROVE Kept
  <2>1. todo' \in [Drains -> [Calls -> 0..MaxIssued]]
    <3>1. PICK S \in SUBSET Calls :
            todo' = [todo EXCEPT ![d] = [c \in Calls |-> IF c \in S THEN outbox[c].req ELSE 0]]
      BY <1>1 DEF Tick
    <3>2. \A c \in Calls : outbox[c].req \in 0..MaxIssued
      BY DEF OutboxTypeOK, Row
    <3>3. 0 \in 0..MaxIssued
      BY OutboxAssumption DEF OutboxAssumption
    <3>4. [c \in Calls |-> IF c \in S THEN outbox[c].req ELSE 0] \in [Calls -> 0..MaxIssued]
      BY <3>2, <3>3
    <3> QED BY <3>1, <3>4 DEF OutboxTypeOK
  <2>2. OutboxTypeOK'
    BY <1>1, <2>1 DEF Tick, OutboxTypeOK
  <2>3. Vouched'
    BY <1>1 DEF Tick, Vouched, SyncedWasAccepted, Honest
  <2>4. ASSUME NEW c \in Calls, Untouched(c) PROVE Untouched(c)'
    <3>1. \A e \in Drains : todo'[e][c] = 0
      BY <1>1, <2>4 DEF Tick, Due, Untouched, OutboxTypeOK
    <3> QED BY <1>1, <2>4, <3>1 DEF Tick, Untouched
  <2> QED BY <1>1, <2>2, <2>3, <2>4 DEF Tick
<1>2. ASSUME NEW d \in Drains, NEW c \in Calls, Deliver(d, c) PROVE Kept
  <2> DEFINE id == todo[d][c]
             k  == IF outbox[c].sent < MaxSends THEN outbox[c].sent + 1 ELSE outbox[c].sent
             Fits(row) ==
               /\ flight' = [flight EXCEPT ![d] = [call |-> c, row |-> row]]
               /\ row # Null => Honest(c, row)'
               /\ accepted' \in [Calls -> SUBSET (1..MaxIssued)]
               /\ \A x \in Calls : accepted[x] \subseteq accepted'[x]
               /\ \A x \in Calls \ {c} : accepted'[x] = accepted[x]
  <2>1. /\ id \in 1..MaxIssued /\ k \in 0..MaxSends
        /\ todo' = [todo EXCEPT ![d][c] = 0]
        /\ UNCHANGED <<outbox, write, issued, acts, faults>>
    BY <1>2, OutboxAssumption DEF Deliver, OutboxTypeOK, Row, OutboxAssumption
  <2>2. \E row \in Row \union {Null} : Fits(row)
    <3>1. ASSUME NEW a \in Answer, Accept(c, id, a),
                 flight' = [flight EXCEPT ![d] = [call |-> c, row |-> Outcome(id, k, a)]]
          PROVE  \E row \in Row \union {Null} : Fits(row)
      BY <3>1, <2>1, OutcomeIsHonest
    <3>2. ASSUME flight' = [flight EXCEPT ![d] = [call |-> c, row |-> Null]],
                 UNCHANGED accepted
          PROVE  \E row \in Row \union {Null} : Fits(row)
      BY <3>2 DEF OutboxTypeOK
    <3> QED BY <1>2, <3>1, <3>2 DEF Deliver
  <2>3. PICK row \in Row \union {Null} : Fits(row)
    BY <2>2
  <2>4. OutboxTypeOK'
    <3>1. todo' \in [Drains -> [Calls -> 0..MaxIssued]]
      BY <2>1, OutboxAssumption DEF OutboxTypeOK, OutboxAssumption
    <3>2. flight' \in [Drains -> [call : Calls, row : Row \union {Null}] \union {Null}]
      BY <2>3 DEF OutboxTypeOK
    <3> HIDE DEF Fits
    <3> QED BY <2>1, <3>1, <3>2, <2>3 DEF OutboxTypeOK, Fits
  <2>5. Vouched'
    <3>1. SyncedWasAccepted'
      BY <2>1, <2>3 DEF Vouched, SyncedWasAccepted
    <3>2. ASSUME NEW u \in Senders, NEW x \in Calls, write'[u][x] # Null
          PROVE  Honest(x, write[u][x])'
      BY <3>2, <2>1, <2>3 DEF Vouched, Honest
    <3>3. ASSUME NEW e \in Drains, flight'[e] # Null, flight'[e].row # Null
          PROVE  Honest(flight[e].call, flight[e].row)'
      <4>1. CASE e = d
        <5>1. flight'[d].call = c /\ flight'[d].row = row
          BY <2>3 DEF OutboxTypeOK
        <5> QED BY <4>1, <5>1, <3>3, <2>3
      <4>2. CASE e # d
        <5>1. flight'[e] = flight[e] BY <4>2, <2>3 DEF OutboxTypeOK
        <5>2. flight[e].call \in Calls BY <5>1, <3>3 DEF OutboxTypeOK
        <5> QED BY <5>1, <5>2, <3>3, <2>3 DEF Vouched, Honest
      <4> QED BY <4>1, <4>2
    <3> QED BY <3>1, <3>2, <3>3 DEF Vouched
  <2>6. ASSUME NEW x \in Calls, Untouched(x) PROVE Untouched(x)'
    <3>1. x # c BY <2>1, <2>6 DEF Untouched
    <3>2. \A e \in Drains : todo'[e][x] = 0
      BY <3>1, <2>1, <2>6 DEF Untouched, OutboxTypeOK
    <3>3. \A e \in Drains : flight'[e] # Null => flight'[e].call # x
      BY <3>1, <2>3, <2>6 DEF Untouched, OutboxTypeOK
    <3> QED BY <3>1, <3>2, <3>3, <2>1, <2>3, <2>6 DEF Untouched
  <2> QED BY <2>1, <2>4, <2>5, <2>6
<1>3. ASSUME NEW d \in Drains, Record(d) PROVE Kept
  <2> DEFINE c   == flight[d].call
             row == IF flight[d].row = Null THEN Unsendable(outbox[c]) ELSE flight[d].row
  <2>1. /\ c \in Calls /\ flight[d] # Null
        /\ write' = [write EXCEPT ![d][c] = row]
        /\ flight' = [flight EXCEPT ![d] = Null]
        /\ UNCHANGED <<outbox, todo, issued, accepted, acts, faults>>
    BY <1>3 DEF Record, OutboxTypeOK
  <2>2. row \in Row /\ Honest(c, row)
    <3>1. CASE flight[d].row = Null
      BY <3>1, <2>1, UnsendableIsHonest DEF OutboxTypeOK
    <3>2. CASE flight[d].row # Null
      BY <3>2, <2>1 DEF OutboxTypeOK, Vouched
    <3> QED BY <3>1, <3>2
  <2> HIDE DEF row
  <2>3. OutboxTypeOK'
    <3>1. write' \in [Senders -> [Calls -> Row \union {Null}]]
      BY <2>1, <2>2 DEF OutboxTypeOK
    <3>2. flight' \in [Drains -> [call : Calls, row : Row \union {Null}] \union {Null}]
      BY <2>1 DEF OutboxTypeOK
    <3> QED BY <2>1, <3>1, <3>2 DEF OutboxTypeOK
  <2>4. Vouched'
    <3>1. SyncedWasAccepted'
      BY <2>1 DEF Vouched, SyncedWasAccepted
    <3>2. ASSUME NEW u \in Senders, NEW x \in Calls, write'[u][x] # Null
          PROVE  Honest(x, write[u][x])'
      <4>1. Honest(x, write'[u][x])
        BY <1>0, <3>2, <2>1, <2>2 DEF Vouched, OutboxTypeOK
      <4> QED BY <4>1, <2>1 DEF Honest
    <3>3. ASSUME NEW e \in Drains, flight'[e] # Null, flight'[e].row # Null
          PROVE  Honest(flight[e].call, flight[e].row)'
      <4>1. flight'[e] = flight[e]
        BY <3>3, <2>1 DEF OutboxTypeOK
      <4> QED BY <4>1, <3>3, <2>1 DEF Vouched, Honest
    <3> QED BY <3>1, <3>2, <3>3 DEF Vouched
  <2>5. ASSUME NEW x \in Calls, Untouched(x) PROVE Untouched(x)'
    <3>1. x # c BY <2>1, <2>5 DEF Untouched
    <3>2. \A u \in Senders : write'[u][x] = Null
      BY <3>1, <2>1, <2>5 DEF Untouched, OutboxTypeOK
    <3>3. \A e \in Drains : flight'[e] # Null => flight'[e].call # x
      BY <3>1, <2>1, <2>5 DEF Untouched, OutboxTypeOK
    <3> QED BY <3>2, <3>3, <2>1, <2>5 DEF Untouched
  <2>6. \A l \in Lanes : write'[l] = write[l]
    BY <1>0, <2>1 DEF OutboxTypeOK, Senders
  <2> QED BY <2>1, <2>3, <2>4, <2>5, <2>6
<1>4. ASSUME NEW d \in Drains, EndTick(d) PROVE Kept
  <2>1. Commit(d) /\ UNCHANGED <<todo, flight, issued, accepted, acts, faults>>
    BY <1>4 DEF EndTick
  <2>2. ASSUME NEW x \in Calls, Untouched(x) PROVE Untouched(x)'
    <3>1. write[d][x] = Null BY <1>0, <2>2 DEF Untouched
    <3>2. outbox'[x] = outbox[x] BY <1>0, <2>1, <3>1, CommitKeeps
    <3>3. \A u \in Senders : write'[u][x] = Null
      BY <1>0, <2>1, <2>2, CommitKeeps DEF Untouched
    <3> QED BY <2>1, <2>2, <3>2, <3>3 DEF Untouched
  <2>3. \A l \in Lanes : write'[l] = write[l]
    BY <1>0, <2>1, CommitKeeps DEF Senders
  <2> QED BY <1>0, <2>1, <2>2, <2>3, CommitKeeps
<1>5. ASSUME NEW d \in Drains, AbortTick(d) PROVE Kept
  <2>1. /\ Forget(d)
        /\ todo'   = [todo EXCEPT ![d] = [c \in Calls |-> 0]]
        /\ flight' = [flight EXCEPT ![d] = Null]
        /\ UNCHANGED <<outbox, issued, accepted, acts>>
    BY <1>5 DEF AbortTick
  <2>2. faults' \in 0..MaxFaults
    BY <1>5, OutboxAssumption DEF AbortTick, Fault, OutboxTypeOK, OutboxAssumption
  <2>3. OutboxTypeOK'
    <3>1. todo' \in [Drains -> [Calls -> 0..MaxIssued]]
      BY <2>1, OutboxAssumption DEF OutboxTypeOK, OutboxAssumption
    <3>2. flight' \in [Drains -> [call : Calls, row : Row \union {Null}] \union {Null}]
      BY <2>1 DEF OutboxTypeOK
    <3> QED BY <1>0, <2>1, <2>2, <3>1, <3>2, ForgetKeeps DEF OutboxTypeOK
  <2>4. Vouched'
    <3>1. SyncedWasAccepted'
      BY <2>1 DEF Vouched, SyncedWasAccepted
    <3>2. ASSUME NEW u \in Senders, NEW x \in Calls, write'[u][x] # Null
          PROVE  Honest(x, write[u][x])'
      <4>1. write'[u][x] = write[u][x] BY <1>0, <3>2, <2>1, ForgetKeeps
      <4> QED BY <4>1, <3>2, <2>1 DEF Vouched, Honest
    <3>3. ASSUME NEW e \in Drains, flight'[e] # Null, flight'[e].row # Null
          PROVE  Honest(flight[e].call, flight[e].row)'
      <4>1. flight'[e] = flight[e]
        BY <3>3, <2>1 DEF OutboxTypeOK
      <4> QED BY <4>1, <3>3, <2>1 DEF Vouched, Honest
    <3> QED BY <3>1, <3>2, <3>3 DEF Vouched
  <2>5. ASSUME NEW x \in Calls, Untouched(x) PROVE Untouched(x)'
    <3>1. \A e \in Drains : todo'[e][x] = 0 /\ (flight'[e] # Null => flight'[e].call # x)
      BY <2>1, <2>5 DEF Untouched, OutboxTypeOK
    <3>2. \A u \in Senders : write'[u][x] = Null
      BY <1>0, <2>1, <2>5, ForgetKeeps DEF Untouched
    <3> QED BY <3>1, <3>2, <2>1, <2>5 DEF Untouched
  <2>6. \A l \in Lanes : write'[l] = write[l]
    BY <1>0, <2>1, ForgetKeeps DEF Senders
  <2> QED BY <2>1, <2>3, <2>4, <2>5, <2>6
<1>6. ASSUME NEW c \in Calls, RetryDelivery(c) PROVE Kept
  <2>1. /\ outbox[c].sync # "none"
        /\ outbox' = [outbox EXCEPT ![c].sync = "pending", ![c].sent = 0]
        /\ UNCHANGED <<write, todo, flight, issued, accepted, faults>>
    BY <1>6 DEF RetryDelivery
  <2>2. outbox' \in [Calls -> Row]
    <3>1. [outbox[c] EXCEPT !.sync = "pending", !.sent = 0] \in Row
      <4>1. outbox[c] \in [sync : RowStatus, sent : 0..MaxSends, req : 0..MaxIssued]
        BY DEF OutboxTypeOK, Row
      <4>2. 0 \in 0..MaxSends /\ "pending" \in RowStatus
        BY OutboxAssumption DEF OutboxAssumption, RowStatus
      <4> QED BY <4>1, <4>2 DEF Row
    <3>2. outbox' = [outbox EXCEPT ![c] = [outbox[c] EXCEPT !.sync = "pending", !.sent = 0]]
      BY <2>1 DEF OutboxTypeOK
    <3> QED BY <3>1, <3>2 DEF OutboxTypeOK
  <2>3. acts' \in [Calls -> 0..MaxActs]
    BY <1>6, OutboxAssumption DEF RetryDelivery, OutboxTypeOK, OutboxAssumption
  <2>4. outbox'[c].sync = "pending" /\ \A x \in Calls \ {c} : outbox'[x] = outbox[x]
    BY <2>1 DEF OutboxTypeOK, Row
  <2>5. OutboxTypeOK'
    BY <2>1, <2>2, <2>3 DEF OutboxTypeOK
  <2>6. Vouched'
    BY <2>1, <2>4 DEF Vouched, SyncedWasAccepted, Honest
  <2>7. ASSUME NEW x \in Calls, Untouched(x) PROVE Untouched(x)'
    <3>1. x # c BY <2>1, <2>7 DEF Untouched
    <3> QED BY <3>1, <2>1, <2>4, <2>7 DEF Untouched
  <2> QED BY <2>1, <2>4, <2>5, <2>6, <2>7
<1> QED BY <1>1, <1>2, <1>3, <1>4, <1>5, <1>6 DEF OutboxNext, DrainStep

-----------------------------------------------------------------------------
(* Types and the outbox's own invariant *)

\* No verdict, no write, nothing sent.
LEMMA Start == Init => IInv
<1> SUFFICES ASSUME Init PROVE IInv
    OBVIOUS
<1> USE DEF Init, OutboxInit
<1>1. OutboxTypeOK
  BY OutboxAssumption DEF OutboxTypeOK, OutboxAssumption, Row, RowStatus
<1>2. TypeOK
  BY <1>1, LaneAssumption DEF TypeOK, LaneAssumption, EnrichStatus
<1>3. Vouched
  BY DEF Vouched, SyncedWasAccepted
<1>4. \A c \in Calls : Untouched(c)
  BY DEF Untouched
<1>5. LaneInv
  BY <1>4 DEF LaneInv, Attached, OneReader, Holding, Free, Verdicts, Waiting,
              VerdictReleases, Terminal
<1> QED BY <1>2, <1>3, <1>5 DEF IInv

\* Moving a lane keeps the types of its variables.
LEMMA GotoType ==
  ASSUME TypeOK, NEW l \in Lanes, NEW c \in Calls \union {Null},
         NEW step \in {"idle", "read", "write", "settle", "commit"},
         NEW v \in {"none", "done", "skipped", "failed"}, Goto(l, c, step, v)
  PROVE  /\ at' \in [Lanes -> {"idle", "read", "write", "settle", "commit"}]
         /\ on' \in [Lanes -> Calls \union {Null}]
         /\ verdict' \in [Lanes -> {"none", "done", "skipped", "failed"}]
BY DEF TypeOK, Goto

\* So does a wake-up, lost or not, and every fault within the bound.
LEMMA WakeType ==
  ASSUME TypeOK, NEW c \in Calls, WakeLane(c)
  PROVE  enrichQ' \in [Calls -> 0..MaxWakeups] /\ faults' \in 0..MaxFaults
<1>1. CASE enrichQ' = [enrichQ EXCEPT ![c] = IF @ < MaxWakeups THEN @ + 1 ELSE @]
           /\ UNCHANGED faults
  BY <1>1, LaneAssumption DEF TypeOK, OutboxTypeOK, LaneAssumption
<1>2. CASE UNCHANGED enrichQ /\ Fault
  BY <1>2, OutboxAssumption DEF TypeOK, OutboxTypeOK, Fault, OutboxAssumption
<1> QED BY <1>1, <1>2 DEF WakeLane

\* A lane's transaction is over, committed or not: the lane is free again.
LEMMA LeaveType ==
  ASSUME TypeOK, NEW l \in Lanes, Leave(l)
  PROVE  /\ at' \in [Lanes -> {"idle", "read", "write", "settle", "commit"}]
         /\ on' \in [Lanes -> Calls \union {Null}]
         /\ verdict' \in [Lanes -> {"none", "done", "skipped", "failed"}]
BY GotoType DEF Leave

\* A claim keeps the types.
LEMMA ClaimType ==
  ASSUME TypeOK, NEW l \in Lanes, NEW c \in Calls, Claim(l, c),
         enrichQ' \in [Calls -> 0..MaxWakeups], picked' \in [Lanes -> SUBSET Calls]
  PROVE  TypeOK'
<1>1. /\ enrich' \in [Calls -> EnrichStatus] /\ retryAt' \in [Calls -> BOOLEAN]
      /\ tries' \in [Calls -> 0..MaxClaims]
  BY LaneAssumption DEF Claim, TypeOK, EnrichStatus, LaneAssumption
<1>2. /\ at' \in [Lanes -> {"idle", "read", "write", "settle", "commit"}]
      /\ on' \in [Lanes -> Calls \union {Null}]
      /\ verdict' \in [Lanes -> {"none", "done", "skipped", "failed"}]
  BY GotoType DEF Claim
<1> QED BY <1>1, <1>2 DEF Claim, TypeOK, OutboxTypeOK, outboxVars

\* What a lane does to the outbox keeps the outbox's promises.
LEMMA OutboxStep ==
  ASSUME TypeOK, Vouched, Attached, [Next]_vars
  PROVE  OutboxTypeOK' /\ Vouched'
<1> USE DEF TypeOK
<1>0. Lanes \subseteq Senders
  BY DEF Senders
<1>1. ASSUME UNCHANGED outboxVars, faults' \in 0..MaxFaults
      PROVE  OutboxTypeOK' /\ Vouched'
  BY <1>1 DEF outboxVars, OutboxTypeOK, Vouched, SyncedWasAccepted, Honest
<1>2. ASSUME NEW l \in Lanes, Release(l) PROVE OutboxTypeOK' /\ Vouched'
  <2>1. on[l] \in Calls BY <1>2 DEF Release, Attached, Free
  <2> QED BY <1>0, <1>2, <2>1, EnqueueKeeps DEF Release
<1>3. ASSUME NEW l \in Lanes, Settle(l) PROVE OutboxTypeOK' /\ Vouched'
  BY <1>0, <1>3, CommitKeeps DEF Settle
<1>4. ASSUME NEW l \in Lanes, SettleLost(l) \/ CrashLane(l) PROVE OutboxTypeOK' /\ Vouched'
  BY <1>0, <1>4, RollbackKeeps DEF SettleLost, CrashLane
<1>5. ASSUME OutboxNext PROVE OutboxTypeOK' /\ Vouched'
  BY <1>5, SendKeeps
<1>6. ASSUME NEW c \in Calls, HandOver(c) \/ Rerun(c) PROVE OutboxTypeOK' /\ Vouched'
  <2>1. CASE HandOver(c)
    BY <2>1, <1>1, WakeType DEF HandOver
  <2>2. CASE Rerun(c)
    <3>1. acts' \in [Calls -> 0..MaxActs]
      BY <2>2, OutboxAssumption DEF Rerun, OutboxTypeOK, OutboxAssumption
    <3>2. UNCHANGED <<outbox, write, todo, flight, issued, accepted, faults>>
      BY <2>2 DEF Rerun
    <3> QED BY <3>1, <3>2 DEF OutboxTypeOK, Vouched, SyncedWasAccepted, Honest
  <2> QED BY <1>6, <2>1, <2>2
<1>7. ASSUME NEW l \in Lanes, NothingToRead(l) \/ Read(l) \/ WriteOutputs(l) \/ GiveUp(l) \/ TryLater(l)
      PROVE  OutboxTypeOK' /\ Vouched'
  BY <1>7, <1>1 DEF NothingToRead, Read, WriteOutputs, GiveUp, TryLater, OutboxTypeOK
<1>8. ASSUME NEW l \in Lanes, NEW c \in Calls, Consume(l, c) \/ TryPicked(l, c)
      PROVE  OutboxTypeOK' /\ Vouched'
  BY <1>8, <1>1 DEF Consume, TryPicked, Claim, Pass, OutboxTypeOK
<1>9. ASSUME NEW s \in Sweeps, Pick(s) PROVE OutboxTypeOK' /\ Vouched'
  BY <1>9, <1>1 DEF Pick, OutboxTypeOK
<1>10. CASE UNCHANGED vars
  BY <1>10, <1>1 DEF vars, OutboxTypeOK
<1> QED
  BY <1>2, <1>3, <1>4, <1>5, <1>6, <1>7, <1>8, <1>9, <1>10, LaneAssumption
  DEF Next, LaneNext, SendNext, Enriching, Consumers, LaneAssumption

\* Every step keeps the types.
LEMMA TypeStep ==
  ASSUME TypeOK, Vouched, Attached, Verdicts, [Next]_vars
  PROVE  TypeOK'
<1>0. OutboxTypeOK'
  BY OutboxStep
<1>1. ASSUME NEW c \in Calls, HandOver(c) \/ Rerun(c) PROVE TypeOK'
  <2>1. CASE HandOver(c)
    BY <1>0, <2>1, WakeType DEF HandOver, TypeOK, laneVars
  <2>2. CASE Rerun(c)
    BY <1>0, <2>2 DEF Rerun, TypeOK, laneVars
  <2> QED BY <1>1, <2>1, <2>2
<1>2. ASSUME NEW l \in Lanes, NothingToRead(l) \/ Read(l) \/ WriteOutputs(l) \/ GiveUp(l) \/ Release(l)
      PROVE  TypeOK'
  <2>1. on[l] \in Calls \union {Null} /\ verdict[l] \in {"none", "done", "skipped", "failed"}
    BY DEF TypeOK
  <2>2. \E step \in {"idle", "read", "write", "settle", "commit"},
           v \in {"none", "done", "skipped", "failed"} : Goto(l, on[l], step, v)
    BY <1>2, <2>1 DEF NothingToRead, Read, WriteOutputs, GiveUp, Release
  <2>3. UNCHANGED <<callVars, enrichQ, picked>>
    BY <1>2 DEF NothingToRead, Read, WriteOutputs, GiveUp, Release
  <2> QED BY <1>0, <2>1, <2>2, <2>3, GotoType DEF TypeOK, callVars
<1>3. ASSUME NEW l \in Lanes, TryLater(l) PROVE TypeOK'
  <2>1. enrich' \in [Calls -> EnrichStatus] /\ retryAt' \in [Calls -> BOOLEAN]
    BY <1>3 DEF TryLater, TypeOK, EnrichStatus
  <2> QED BY <1>0, <1>3, <2>1, LeaveType DEF TryLater, TypeOK
<1>4. ASSUME NEW l \in Lanes, Settle(l) PROVE TypeOK'
  <2>1. verdict[l] \in EnrichStatus
    BY <1>4 DEF Settle, Verdicts, EnrichStatus
  <2>2. enrich' \in [Calls -> EnrichStatus] /\ retryAt' \in [Calls -> BOOLEAN]
    BY <1>4, <2>1 DEF Settle, TypeOK
  <2> QED BY <1>0, <1>4, <2>2, LeaveType DEF Settle, TypeOK
<1>5. ASSUME NEW l \in Lanes, SettleLost(l) PROVE TypeOK'
  BY <1>0, <1>5, LeaveType DEF SettleLost, TypeOK, callVars
<1>6. ASSUME NEW l \in Lanes, CrashLane(l) PROVE TypeOK'
  <2>1. enrichQ' \in [Calls -> 0..MaxWakeups]
    BY <1>6, LaneAssumption DEF CrashLane, TypeOK, LaneAssumption
  <2>2. picked' \in [Lanes -> SUBSET Calls]
    BY <1>6 DEF CrashLane, TypeOK
  <2> QED BY <1>0, <1>6, <2>1, <2>2, LeaveType DEF CrashLane, TypeOK, callVars
<1>7. ASSUME NEW l \in Lanes, NEW c \in Calls, Consume(l, c) PROVE TypeOK'
  <2>1. enrichQ' \in [Calls -> 0..MaxWakeups] /\ picked' \in [Lanes -> SUBSET Calls]
    BY <1>7, LaneAssumption DEF Consume, TypeOK, LaneAssumption
  <2>2. CASE Claim(l, c) BY <2>1, <2>2, ClaimType
  <2>3. CASE Pass(c) BY <1>0, <2>1, <2>3 DEF Pass, TypeOK, callVars, laneVars
  <2> QED BY <1>7, <2>2, <2>3 DEF Consume
<1>8. ASSUME NEW s \in Lanes, NEW c \in Calls, TryPicked(s, c) PROVE TypeOK'
  <2>1. enrichQ' \in [Calls -> 0..MaxWakeups] /\ picked' \in [Lanes -> SUBSET Calls]
    BY <1>8 DEF TryPicked, TypeOK
  <2>2. CASE Claim(s, c) BY <2>1, <2>2, ClaimType
  <2>3. CASE Pass(c) BY <1>0, <2>1, <2>3 DEF Pass, TypeOK, callVars, laneVars
  <2> QED BY <1>8, <2>2, <2>3 DEF TryPicked
<1>9. ASSUME NEW s \in Sweeps, Pick(s) PROVE TypeOK'
  <2>1. picked' \in [Lanes -> SUBSET Calls]
    BY <1>9 DEF Pick, TypeOK
  <2> QED BY <1>0, <1>9, <2>1 DEF Pick, TypeOK, callVars, laneVars
<1>10. CASE SendNext
  BY <1>0, <1>10 DEF SendNext, LaneRests, TypeOK, callVars, laneVars
<1>11. CASE UNCHANGED vars
  BY <1>0, <1>11 DEF vars, TypeOK, callVars, laneVars
<1> QED
  BY <1>1, <1>2, <1>3, <1>4, <1>5, <1>6, <1>7, <1>8, <1>9, <1>10, <1>11, LaneAssumption
  DEF Next, LaneNext, Enriching, Consumers, LaneAssumption

-----------------------------------------------------------------------------
(* The lane's promises, one lemma per kind of step *)

\* A step that moves no lane and no enrichment column, takes no row back and touches
\* no call the outbox does not know.
LEMMA OthersKeep ==
  ASSUME LaneInv, UNCHANGED <<enrich, tries, retryAt, laneVars>>,
         \A l \in Lanes : write'[l] = write[l],
         \A c \in Calls : outbox[c].sync # "none" => outbox'[c].sync # "none",
         \A c \in Calls : Untouched(c) => Untouched(c)'
  PROVE  LaneInv'
<1> USE DEF laneVars
<1>1. Attached' /\ OneReader'
  BY DEF LaneInv, Attached, OneReader, Holding, Free
<1>2. Verdicts'
  BY DEF LaneInv, Verdicts
<1>3. Waiting'
  <2>1. ASSUME NEW l \in Lanes, at[l] \in {"read", "write"}, tries[on[l]] <= MaxEnrichAttempts
        PROVE  Untouched(on[l])'
    <3>1. Untouched(on[l]) /\ on[l] \in Calls
      BY <2>1 DEF LaneInv, Waiting, Attached, Free
    <3> QED BY <3>1
  <2>2. \A c \in Calls : Terminal(c)' <=> Terminal(c)
    BY DEF Terminal
  <2> QED BY <2>1, <2>2 DEF LaneInv, Waiting
<1>4. VerdictReleases'
  BY DEF LaneInv, VerdictReleases, Terminal
<1> QED BY <1>1, <1>2, <1>3, <1>4 DEF LaneInv

\* A claim takes a call nobody holds.  If it can be a first read, the call was
\* waiting; if the sweep takes a final failure again, its attempts are used up.
LEMMA ClaimKeeps ==
  ASSUME TypeOK, LaneInv, NEW l \in Lanes, NEW c \in Calls, Free(l), Claim(l, c)
  PROVE  LaneInv'
<1>1. /\ enrich' = [enrich EXCEPT ![c] = "running"]
      /\ tries' = [tries EXCEPT ![c] = @ + 1]
      /\ retryAt' = [retryAt EXCEPT ![c] = FALSE]
      /\ at' = [at EXCEPT ![l] = "read"] /\ on' = [on EXCEPT ![l] = c]
      /\ verdict' = [verdict EXCEPT ![l] = "none"]
      /\ UNCHANGED outboxVars
  BY DEF Claim, Goto
<1>2. enrich[c] \in {"pending", "failed"} /\ Holding(c) = {}
  BY DEF Claim, Claimable, LaneInv, OneReader
<1>3. \A m \in Lanes \ {l} : at'[m] = at[m] /\ on'[m] = on[m] /\ (~Free(m) => on[m] # c)
  BY <1>1, <1>2 DEF TypeOK, Holding
<1>4. at'[l] = "read" /\ on'[l] = c
  BY <1>1 DEF TypeOK
<1>5. \A x \in Calls : Untouched(x)' <=> Untouched(x)
  BY <1>1 DEF Untouched, outboxVars
<1>6. \A x \in Calls \ {c} : /\ enrich'[x] = enrich[x] /\ tries'[x] = tries[x]
                             /\ retryAt'[x] = retryAt[x]
  BY <1>1 DEF TypeOK
<1>7. enrich'[c] = "running" /\ tries'[c] = tries[c] + 1 /\ tries[c] \in Nat
  BY <1>1 DEF TypeOK
<1>8. Attached'
  BY <1>3, <1>4 DEF LaneInv, Attached, Free
<1>9. OneReader'
  BY <1>3, <1>4, <1>6, <1>7 DEF LaneInv, OneReader, Holding, Free
<1>10. Verdicts'
  <2>1. \A m \in Lanes \ {l} : /\ verdict'[m] = verdict[m] /\ write'[m] = write[m]
                               /\ at[m] # "idle" => on[m] \in Calls \ {c}
    BY <1>1, <1>3 DEF TypeOK, outboxVars, LaneInv, Attached, Free
  <2>2. ASSUME NEW m \in Lanes \ {l}
        PROVE  /\ at'[m] = at[m] /\ verdict'[m] = verdict[m]
               /\ at[m] # "idle" => tries'[on'[m]] = tries[on[m]]
               /\ write'[m][on'[m]] = write[m][on[m]]
    <3>1. at'[m] = at[m] /\ on'[m] = on[m]
      BY <1>3
    <3>2. at[m] # "idle" => on[m] \in Calls \ {c}
      BY <2>1
    <3>3. write'[m] = write[m] /\ verdict'[m] = verdict[m]
      BY <2>1
    <3> QED BY <3>1, <3>2, <3>3, <1>6
  <2> QED BY <2>2, <1>4 DEF LaneInv, Verdicts
<1>11. Waiting'
  <2>1. ASSUME NEW m \in Lanes, at'[m] \in {"read", "write"}, tries'[on'[m]] <= MaxEnrichAttempts
        PROVE  Untouched(on[m])'
    <3>1. CASE m = l
      <4>1. tries[c] < MaxEnrichAttempts
        BY <2>1, <3>1, <1>4, <1>7, LaneAssumption DEF LaneAssumption
      <4>2. enrich[c] = "failed" => retryAt[c]
        BY <4>1, <1>7, LaneAssumption DEF LaneInv, Waiting, LaneAssumption
      <4>3. Untouched(c)
        BY <4>2, <1>2 DEF LaneInv, Waiting, Terminal
      <4> QED BY <4>3, <3>1, <1>4, <1>5
    <3>2. CASE m # l
      <4>1. at'[m] = at[m] /\ on'[m] = on[m] /\ on[m] \in Calls \ {c}
        BY <3>2, <2>1, <1>3 DEF LaneInv, Attached, Free
      <4>2. Untouched(on[m])
        BY <4>1, <2>1, <1>6 DEF LaneInv, Waiting
      <4> QED BY <4>1, <4>2, <1>5
    <3> QED BY <3>1, <3>2
  <2>2. ASSUME NEW x \in Calls
        PROVE  /\ ~Terminal(x)' /\ enrich'[x] # "running" => Untouched(x)'
               /\ enrich'[x] = "failed" /\ ~retryAt'[x] => tries'[x] >= MaxEnrichAttempts
    <3>1. CASE x = c BY <3>1, <1>7
    <3>2. CASE x # c
      <4>1. Terminal(x)' <=> Terminal(x) BY <3>2, <1>6 DEF Terminal
      <4> QED BY <3>2, <4>1, <1>5, <1>6 DEF LaneInv, Waiting
    <3> QED BY <3>1, <3>2
  <2> QED BY <2>1, <2>2 DEF Waiting
<1>12. VerdictReleases'
  BY <1>1, <1>6, <1>7 DEF LaneInv, VerdictReleases, Terminal, outboxVars
<1> QED BY <1>8, <1>9, <1>10, <1>11, <1>12 DEF LaneInv

\* A run goes on to its next step, with a verdict it earned.
LEMMA AdvanceKeeps ==
  ASSUME TypeOK, LaneInv, NEW l \in Lanes,
         NothingToRead(l) \/ Read(l) \/ WriteOutputs(l) \/ GiveUp(l)
  PROVE  LaneInv'
<1>1. PICK step \in {"write", "settle"}, v \in {"none", "done", "skipped", "failed"} :
        /\ Goto(l, on[l], step, v)
        /\ step = "settle" => v # "none"
        /\ v = "failed" => tries[on[l]] >= MaxEnrichAttempts
  BY DEF NothingToRead, Read, WriteOutputs, GiveUp
<1>2. UNCHANGED <<outboxVars, callVars>> /\ at[l] \in {"read", "write"}
  BY DEF NothingToRead, Read, WriteOutputs, GiveUp
<1>3. /\ on' = on /\ at'[l] = step /\ verdict'[l] = v
      /\ \A m \in Lanes \ {l} : at'[m] = at[m] /\ verdict'[m] = verdict[m]
  BY <1>1 DEF Goto, TypeOK
<1>4. Attached' /\ OneReader'
  BY <1>2, <1>3 DEF callVars, LaneInv, Attached, OneReader, Holding, Free
<1>5. Verdicts'
  BY <1>1, <1>2, <1>3 DEF callVars, outboxVars, LaneInv, Verdicts
<1>6. Waiting'
  <2>1. \A c : Untouched(c)' <=> Untouched(c)
    BY <1>2 DEF Untouched, outboxVars
  <2>2. \A c \in Calls : Terminal(c)' <=> Terminal(c)
    BY <1>2 DEF Terminal, callVars
  <2> QED BY <2>1, <2>2, <1>2, <1>3 DEF callVars, LaneInv, Waiting
<1>7. VerdictReleases'
  BY <1>2 DEF callVars, outboxVars, LaneInv, VerdictReleases, Terminal
<1> QED BY <1>4, <1>5, <1>6, <1>7 DEF LaneInv

\* A failure with attempts to spare: the call waits again, as untouched as it was.
LEMMA TryLaterKeeps ==
  ASSUME TypeOK, LaneInv, NEW l \in Lanes, TryLater(l)
  PROVE  LaneInv'
<1>0. PICK c \in Calls : c = on[l]
  BY DEF TryLater, LaneInv, Attached, Free
<1>1. /\ at[l] \in {"read", "write"} /\ tries[c] < MaxEnrichAttempts
      /\ enrich' = [enrich EXCEPT ![c] = "failed"]
      /\ retryAt' = [retryAt EXCEPT ![c] = TRUE]
      /\ at' = [at EXCEPT ![l] = "idle"]
      /\ on' = [on EXCEPT ![l] = Null]
      /\ verdict' = [verdict EXCEPT ![l] = "none"]
      /\ UNCHANGED <<outboxVars, tries>>
  BY <1>0 DEF TryLater, Leave, Goto
<1>2. tries[c] \in Nat
  BY <1>1 DEF TypeOK
<1>3. Untouched(c)
  BY <1>0, <1>1, <1>2, LaneAssumption DEF LaneInv, Waiting, LaneAssumption
<1>4. \A m \in Lanes \ {l} : /\ at'[m] = at[m] /\ on'[m] = on[m] /\ verdict'[m] = verdict[m]
                             /\ ~Free(m) => on[m] # c
  BY <1>0, <1>1 DEF TypeOK, LaneInv, OneReader, Holding, Free
<1>5. at'[l] = "idle" /\ enrich'[c] = "failed" /\ retryAt'[c]
  BY <1>1, <1>2 DEF TypeOK
<1>6. \A x \in Calls \ {c} : enrich'[x] = enrich[x] /\ retryAt'[x] = retryAt[x]
  BY <1>1 DEF TypeOK
<1>7. \A x : Untouched(x)' <=> Untouched(x)
  BY <1>1 DEF Untouched, outboxVars
<1>8. Attached' /\ OneReader'
  <2>1. \A m \in Lanes : at'[m] # "idle" => /\ at[m] # "idle" /\ on'[m] = on[m]
                                            /\ on[m] \in Calls \ {c}
    BY <1>4, <1>5 DEF LaneInv, Attached, Free
  <2>2. Attached'
    BY <2>1 DEF Attached, Free
  <2>3. OneReader'
    BY <2>1, <1>6 DEF LaneInv, OneReader, Holding, Free
  <2> QED BY <2>2, <2>3
<1>9. Verdicts'
  BY <1>1, <1>4, <1>5 DEF outboxVars, LaneInv, Verdicts
<1>10. Waiting'
  <2>1. \A x \in Calls \ {c} : Terminal(x)' <=> Terminal(x)
    BY <1>6 DEF Terminal
  <2>2. \A x \in Calls : ~Terminal(x)' /\ enrich'[x] # "running" => Untouched(x)'
    BY <2>1, <1>3, <1>6, <1>7 DEF LaneInv, Waiting
  <2>3. \A x \in Calls : enrich'[x] = "failed" /\ ~retryAt'[x] => tries'[x] >= MaxEnrichAttempts
    BY <1>1, <1>5, <1>6 DEF LaneInv, Waiting
  <2>4. \A m \in Lanes : at'[m] \in {"read", "write"} /\ tries'[on'[m]] <= MaxEnrichAttempts
                          => Untouched(on[m])'
    BY <1>1, <1>4, <1>5, <1>7 DEF LaneInv, Waiting
  <2> QED BY <2>2, <2>3, <2>4 DEF Waiting
<1>11. VerdictReleases'
  BY <1>1, <1>5, <1>6 DEF outboxVars, LaneInv, VerdictReleases, Terminal
<1> QED BY <1>8, <1>9, <1>10, <1>11 DEF LaneInv

\* The send is released: only now does the call leave a trace, and it is running.
LEMMA ReleaseKeeps ==
  ASSUME TypeOK, Vouched, LaneInv, NEW l \in Lanes, Release(l)
  PROVE  LaneInv'
<1> DEFINE c == on[l]
<1>1. /\ at[l] = "settle" /\ Enqueue(l, c)
      /\ at' = [at EXCEPT ![l] = "commit"] /\ on' = [on EXCEPT ![l] = c]
      /\ verdict' = [verdict EXCEPT ![l] = verdict[l]]
      /\ UNCHANGED <<faults, callVars>>
  BY DEF Release, Goto
<1>2. c \in Calls /\ l \in Senders
  BY <1>1 DEF LaneInv, Attached, Free, Senders
<1>3. /\ write'[l][c] # Null
      /\ \A u \in Senders, x \in Calls : x # c => write'[u][x] = write[u][x]
      /\ \A u \in Senders \ {l} : write'[u] = write[u]
      /\ \A x \in Calls : x # c => accepted'[x] = accepted[x]
  BY <1>1, <1>2, EnqueueKeeps DEF TypeOK
<1>4. UNCHANGED <<outbox, todo, flight>>
  BY <1>1 DEF Enqueue
<1>5. /\ on' = on /\ verdict' = verdict /\ at'[l] = "commit"
      /\ \A m \in Lanes \ {l} : at'[m] = at[m] /\ (~Free(m) => on[m] \in Calls \ {c})
  BY <1>1, <1>2 DEF TypeOK, LaneInv, Attached, OneReader, Holding, Free
<1>6. \A x \in Calls \ {c} : Untouched(x) => Untouched(x)'
  BY <1>3, <1>4 DEF Untouched
<1>7. enrich[c] = "running"
  BY <1>1, <1>2 DEF LaneInv, OneReader, Holding, Free
<1>8. Attached' /\ OneReader'
  BY <1>1, <1>5 DEF callVars, LaneInv, Attached, OneReader, Holding, Free
<1>9. Verdicts'
  <2>1. \A m \in Lanes \ {l} : write'[m] = write[m]
    BY <1>3 DEF Senders
  <2> QED BY <2>1, <1>1, <1>3, <1>5 DEF callVars, LaneInv, Verdicts
<1>10. Waiting'
  <2>1. \A x \in Calls : Terminal(x)' <=> Terminal(x)
    BY <1>1 DEF Terminal, callVars
  <2>2. \A x \in Calls : ~Terminal(x)' /\ enrich'[x] # "running" => Untouched(x)'
    BY <2>1, <1>1, <1>6, <1>7 DEF callVars, LaneInv, Waiting
  <2>3. ASSUME NEW m \in Lanes, at'[m] \in {"read", "write"}, tries'[on'[m]] <= MaxEnrichAttempts
        PROVE  Untouched(on[m])'
    <3>1. m # l BY <2>3, <1>5
    <3>2. at[m] = at'[m] /\ on[m] \in Calls \ {c} BY <2>3, <3>1, <1>5 DEF Free
    <3>3. Untouched(on[m]) BY <2>3, <3>2, <1>1, <1>5 DEF callVars, LaneInv, Waiting
    <3> QED BY <3>2, <3>3, <1>5, <1>6
  <2> QED BY <2>2, <2>3, <1>1 DEF callVars, LaneInv, Waiting
<1>11. VerdictReleases'
  BY <1>1, <1>4 DEF callVars, LaneInv, VerdictReleases, Terminal
<1> QED BY <1>8, <1>9, <1>10, <1>11 DEF LaneInv

\* The verdict is committed, and the send with it.
LEMMA SettleKeeps ==
  ASSUME TypeOK, Vouched, LaneInv, NEW l \in Lanes, Settle(l)
  PROVE  LaneInv'
<1>0. PICK c \in Calls : c = on[l]
  BY DEF Settle, LaneInv, Attached, Free
<1>1. /\ at[l] = "commit" /\ Commit(l)
      /\ enrich'  = [enrich EXCEPT ![c] = verdict[l]]
      /\ retryAt' = [retryAt EXCEPT ![c] = FALSE]
      /\ at' = [at EXCEPT ![l] = "idle"]
      /\ on' = [on EXCEPT ![l] = Null]
      /\ verdict' = [verdict EXCEPT ![l] = "none"]
      /\ UNCHANGED <<todo, flight, issued, accepted, acts, faults, tries>>
  BY <1>0 DEF Settle, Leave, Goto
<1>2. l \in Senders /\ write[l][c] # Null
  BY <1>0, <1>1 DEF LaneInv, Verdicts, Senders
<1>3. /\ \A x \in Calls : write'[l][x] = Null
      /\ \A u \in Senders \ {l} : write'[u] = write[u]
      /\ \A x \in Calls : write[l][x] = Null => outbox'[x] = outbox[x]
      /\ \A x \in Calls : outbox[x].sync # "none" => outbox'[x].sync # "none"
      /\ outbox'[c].sync # "none"
  BY <1>1, <1>2, CommitKeeps DEF TypeOK
<1>4. \A m \in Lanes \ {l} : /\ at'[m] = at[m] /\ on'[m] = on[m] /\ verdict'[m] = verdict[m]
                             /\ ~Free(m) => on[m] \in Calls \ {c}
  BY <1>0, <1>1 DEF TypeOK, LaneInv, Attached, OneReader, Holding, Free
<1>5. at'[l] = "idle" /\ enrich'[c] = verdict[l] /\ ~retryAt'[c]
  BY <1>1, <1>2 DEF TypeOK
<1>6. \A x \in Calls \ {c} : enrich'[x] = enrich[x] /\ retryAt'[x] = retryAt[x]
  BY <1>1 DEF TypeOK
<1>7. /\ verdict[l] \in {"done", "skipped", "failed"}
      /\ verdict[l] = "failed" => tries[c] >= MaxEnrichAttempts
  BY <1>0, <1>1 DEF LaneInv, Verdicts
<1>8. \A x \in Calls : Untouched(x) => Untouched(x)'
  BY <1>1, <1>2, <1>3 DEF Untouched
<1>9. Attached' /\ OneReader'
  <2>1. \A m \in Lanes : at'[m] # "idle" => /\ at[m] # "idle" /\ on'[m] = on[m]
                                            /\ on[m] \in Calls \ {c}
    BY <1>4, <1>5 DEF LaneInv, Attached, Free
  <2>2. Attached'
    BY <2>1 DEF Attached, Free
  <2>3. OneReader'
    BY <2>1, <1>6 DEF LaneInv, OneReader, Holding, Free
  <2> QED BY <2>2, <2>3
<1>10. Verdicts'
  <2>1. \A m \in Lanes \ {l} : write'[m] = write[m]
    BY <1>3 DEF Senders
  <2> QED BY <2>1, <1>1, <1>4, <1>5 DEF LaneInv, Verdicts
<1>11. Waiting'
  <2>1. \A x \in Calls \ {c} : Terminal(x)' <=> Terminal(x)
    BY <1>6 DEF Terminal
  <2>2. Terminal(c)'
    BY <1>5, <1>7 DEF Terminal
  <2>3. \A x \in Calls : ~Terminal(x)' /\ enrich'[x] # "running" => Untouched(x)'
    BY <2>1, <2>2, <1>6, <1>8 DEF LaneInv, Waiting
  <2>4. \A x \in Calls : enrich'[x] = "failed" /\ ~retryAt'[x] => tries'[x] >= MaxEnrichAttempts
    BY <1>1, <1>5, <1>6, <1>7 DEF LaneInv, Waiting
  <2>5. ASSUME NEW m \in Lanes, at'[m] \in {"read", "write"}, tries'[on'[m]] <= MaxEnrichAttempts
        PROVE  Untouched(on[m])'
    <3>1. m # l BY <2>5, <1>5
    <3>2. at[m] = at'[m] /\ on'[m] = on[m]
      BY <3>1, <1>4
    <3>3. on[m] \in Calls
      BY <2>5, <3>2 DEF LaneInv, Attached, Free
    <3> QED BY <2>5, <3>2, <3>3, <1>1, <1>8 DEF LaneInv, Waiting
  <2> QED BY <2>3, <2>4, <2>5 DEF Waiting
<1>12. VerdictReleases'
  BY <1>3, <1>6 DEF LaneInv, VerdictReleases, Terminal
<1> QED BY <1>9, <1>10, <1>11, <1>12 DEF LaneInv

\* A lost lane leaves its call running for ever, and what it wrote is gone.
LEMMA LostKeeps ==
  ASSUME TypeOK, Vouched, LaneInv, NEW l \in Lanes, SettleLost(l) \/ CrashLane(l)
  PROVE  LaneInv'
<1>1. /\ Forget(l) /\ Fault
      /\ at' = [at EXCEPT ![l] = "idle"]
      /\ on' = [on EXCEPT ![l] = Null]
      /\ verdict' = [verdict EXCEPT ![l] = "none"]
      /\ UNCHANGED <<outbox, todo, flight, issued, accepted, acts, callVars>>
  BY DEF SettleLost, CrashLane, Leave, Goto
<1>2. l \in Senders
  BY DEF Senders
<1>3. /\ \A m \in Lanes \ {l} : /\ at'[m] = at[m] /\ on'[m] = on[m]
                                /\ verdict'[m] = verdict[m] /\ write'[m] = write[m]
      /\ at'[l] = "idle"
  BY <1>1, <1>2, ForgetKeeps DEF TypeOK, Senders
<1>4. \A c \in Calls : Untouched(c) => Untouched(c)'
  BY <1>1, <1>2, RollbackKeeps DEF TypeOK
<1>5. Attached' /\ OneReader'
  BY <1>1, <1>3 DEF callVars, LaneInv, Attached, OneReader, Holding, Free
<1>6. Verdicts'
  BY <1>1, <1>3 DEF callVars, LaneInv, Verdicts
<1>7. Waiting'
  <2>1. \A c \in Calls : Terminal(c)' <=> Terminal(c)
    BY <1>1 DEF Terminal, callVars
  <2>2. ASSUME NEW m \in Lanes, at'[m] \in {"read", "write"}, tries'[on'[m]] <= MaxEnrichAttempts
        PROVE  Untouched(on[m])'
    <3>1. m # l /\ at[m] = at'[m] /\ on'[m] = on[m]
      BY <2>2, <1>3
    <3>2. on[m] \in Calls /\ Untouched(on[m])
      BY <3>1, <2>2, <1>1 DEF callVars, LaneInv, Waiting, Attached, Free
    <3> QED BY <3>1, <3>2, <1>4
  <2> QED BY <2>1, <2>2, <1>1, <1>4 DEF callVars, LaneInv, Waiting
<1>8. VerdictReleases'
  BY <1>1 DEF callVars, LaneInv, VerdictReleases, Terminal
<1> QED BY <1>5, <1>6, <1>7, <1>8 DEF LaneInv

-----------------------------------------------------------------------------
(* The theorems *)

\* Every step keeps the lane's promises.
LEMMA LaneStep ==
  ASSUME TypeOK, Vouched, LaneInv, [Next]_vars
  PROVE  LaneInv'
<1>1. ASSUME UNCHANGED <<outbox, write, todo, flight, accepted, enrich, tries, retryAt, laneVars>>
      PROVE  LaneInv'
  <2>1. \A c \in Calls : Untouched(c) => Untouched(c)'
    BY <1>1 DEF Untouched
  <2>2. UNCHANGED <<enrich, tries, retryAt, laneVars>> /\ outbox' = outbox /\ write' = write
    BY <1>1
  <2> QED BY <2>1, <2>2, OthersKeep
<1>2. ASSUME NEW c \in Calls, HandOver(c) \/ Rerun(c) PROVE LaneInv'
  BY <1>1, <1>2 DEF HandOver, Rerun, outboxVars, laneVars
<1>3. ASSUME NEW l \in Lanes, NEW c \in Calls, Consume(l, c) \/ TryPicked(l, c) PROVE LaneInv'
  <2>1. CASE Claim(l, c)
    <3>1. Free(l) BY <1>3 DEF Consume, TryPicked
    <3> QED BY <2>1, <3>1, ClaimKeeps
  <2>2. CASE Pass(c)
    BY <2>2, <1>1 DEF Pass, callVars, outboxVars
  <2> QED BY <1>3, <2>1, <2>2 DEF Consume, TryPicked
<1>4. ASSUME NEW s \in Sweeps, Pick(s) PROVE LaneInv'
  BY <1>1, <1>4 DEF Pick, callVars, outboxVars
<1>5. ASSUME NEW l \in Lanes, Enriching(l) PROVE LaneInv'
  BY <1>5, AdvanceKeeps, TryLaterKeeps, ReleaseKeeps, SettleKeeps DEF Enriching
<1>6. ASSUME NEW l \in Lanes, SettleLost(l) \/ CrashLane(l) PROVE LaneInv'
  BY <1>6, LostKeeps
<1>7. CASE SendNext
  BY <1>7, SendKeeps, OthersKeep DEF SendNext, LaneRests, TypeOK, callVars
<1>8. CASE UNCHANGED vars
  BY <1>1, <1>8 DEF vars, callVars, outboxVars
<1> QED
  BY <1>2, <1>3, <1>4, <1>5, <1>6, <1>7, <1>8, LaneAssumption
  DEF Next, LaneNext, Consumers, LaneAssumption

\* The inductive invariant of lane and outbox.
THEOREM Invariance == Spec => []IInv
<1>1. Init => IInv
  BY Start
<1>2. IInv /\ [Next]_vars => IInv'
  <2> SUFFICES ASSUME IInv, [Next]_vars PROVE IInv'
    OBVIOUS
  <2>1. TypeOK /\ Vouched /\ LaneInv /\ Attached /\ Verdicts
    BY DEF IInv, LaneInv
  <2> QED BY <2>1, OutboxStep, TypeStep, LaneStep DEF IInv
<1> QED BY <1>1, <1>2, PTL DEF Spec

\* TypeOK: every variable of the lane and of the outbox keeps its type.
THEOREM TypeCorrect == Spec => []TypeOK
<1>1. IInv => TypeOK
  BY DEF IInv
<1> QED BY <1>1, Invariance, PTL

\* OneReader: however many consumers and sweeps try a call at once, one reads it,
\* and its row says running for as long as it does.
THEOREM OnlyOneReader == Spec => []OneReader
<1>1. IInv => OneReader
  BY DEF IInv, LaneInv
<1> QED BY <1>1, Invariance, PTL

\* SendWaits: while a call may still get its first summary, nothing of it is in the
\* outbox and nothing has left for the CRM.
THEOREM SendsWait == Spec => []SendWaits
<1>1. IInv => SendWaits
  <2> SUFFICES ASSUME IInv, NEW c \in Calls
               PROVE  /\ ~Terminal(c) /\ enrich[c] # "running"
                           => accepted[c] = {} /\ outbox[c].sync = "none"
                      /\ \A l \in Holding(c) :
                           at[l] \in {"read", "write"} /\ tries[c] <= MaxEnrichAttempts
                             => accepted[c] = {} /\ outbox[c].sync = "none"
    BY DEF SendWaits
  <2> QED BY DEF IInv, LaneInv, Waiting, Untouched, Holding
<1> QED BY <1>1, Invariance, PTL

\* VerdictReleases: no terminal verdict stands without its send in the outbox.
THEOREM VerdictsRelease == Spec => []VerdictReleases
<1>1. IInv => VerdictReleases
  BY DEF IInv, LaneInv
<1> QED BY <1>1, Invariance, PTL

\* SyncedWasAccepted: with any number of overlapping drain ticks, synced is the
\* word of the CRM about the very request the row names.
THEOREM SyncedIsAccepted == Spec => []SyncedWasAccepted
<1>1. IInv => SyncedWasAccepted
  BY DEF IInv, Vouched
<1> QED BY <1>1, Invariance, PTL

-----------------------------------------------------------------------------
(* What stands of the two promises the code breaks                          *)

\* Claims beyond the attempts a call is allowed.
Extra(c) == IF tries[c] > MaxEnrichAttempts THEN tries[c] - MaxEnrichAttempts ELSE 0

\* One request id is made per verdict: none before the first, and a lane at work
\* on a call that has one is on a claim beyond the last attempt.
Issues ==
  /\ \A c \in Calls :
       /\ issued[c] <= 1 + Extra(c)
       /\ ~Terminal(c) /\ enrich[c] # "running" => issued[c] = 0
  /\ \A l \in Lanes : at[l] \in {"read", "write", "settle"} => issued[on[l]] <= Extra(on[l])

\* Whatever names a request of the call names one that was made.
Named ==
  \A c \in Calls :
    /\ outbox[c].req <= issued[c]
    /\ \A i \in accepted[c] : i <= issued[c]
    /\ \A t \in Senders : write[t][c] # Null => write[t][c].req <= issued[c]
    /\ \A d \in Drains :
         /\ todo[d][c] <= issued[c]
         /\ flight[d] # Null /\ flight[d].call = c /\ flight[d].row # Null
              => flight[d].row.req <= issued[c]

\* A lane moves on, or a call is taken up or put back, and no id is made.
LEMMA IssuesStep ==
  ASSUME IInv, Issues, [Next]_vars
  PROVE  Issues'
<1> USE DEF IInv
<1>0. \A c \in Calls : tries[c] \in Nat /\ issued[c] \in Nat
  BY LaneAssumption, OutboxAssumption DEF TypeOK, OutboxTypeOK, LaneAssumption, OutboxAssumption
<1>1. ASSUME UNCHANGED <<issued, enrich, tries, retryAt, laneVars>> PROVE Issues'
  <2>1. \A c \in Calls : Extra(c)' = Extra(c) /\ (Terminal(c)' <=> Terminal(c))
    BY <1>1 DEF Extra, Terminal
  <2>2. \A l \in Lanes : at[l] # "idle" => on[l] \in Calls
    BY DEF LaneInv, Attached, Free
  <2> QED BY <1>1, <2>1, <2>2 DEF Issues, laneVars
<1>2. ASSUME NEW l \in Lanes, NEW c \in Calls, Free(l), Claim(l, c) PROVE Issues'
  <2>1. /\ enrich[c] \in {"pending", "failed"} /\ enrich'[c] = "running"
        /\ tries'[c] = tries[c] + 1
        /\ \A x \in Calls \ {c} : /\ enrich'[x] = enrich[x] /\ tries'[x] = tries[x]
                                  /\ retryAt'[x] = retryAt[x]
        /\ at'[l] = "read" /\ on'[l] = c /\ issued' = issued
        /\ \A m \in Lanes \ {l} : at'[m] = at[m] /\ on'[m] = on[m]
    BY <1>2 DEF Claim, Claimable, Goto, TypeOK, outboxVars
  <2>2. \A m \in Lanes \ {l} : at[m] # "idle" => on[m] \in Calls \ {c}
    BY <2>1 DEF LaneInv, Attached, OneReader, Holding, Free
  <2>3. issued[c] <= Extra(c)'
    <3>1. CASE Terminal(c)
      <4>1. tries[c] >= MaxEnrichAttempts
        BY <2>1, <3>1 DEF Terminal, LaneInv, Waiting
      <4> QED BY <4>1, <2>1, <1>0, LaneAssumption DEF Issues, Extra, LaneAssumption
    <3>2. CASE ~Terminal(c)
      BY <2>1, <3>2, <1>0, LaneAssumption DEF Issues, Extra, LaneAssumption
    <3> QED BY <3>1, <3>2
  <2>4. \A x \in Calls \ {c} : Extra(x)' = Extra(x) /\ (Terminal(x)' <=> Terminal(x))
    BY <2>1 DEF Extra, Terminal
  <2>5. Extra(c)' \in Nat
    BY <2>1, <1>0, LaneAssumption DEF Extra, LaneAssumption
  <2> QED BY <2>1, <2>2, <2>3, <2>4, <2>5, <1>0 DEF Issues
<1>3. ASSUME NEW l \in Lanes, NothingToRead(l) \/ Read(l) \/ WriteOutputs(l) \/ GiveUp(l)
      PROVE  Issues'
  <2>1. /\ at[l] \in {"read", "write"} /\ UNCHANGED <<issued, enrich, tries, retryAt, on>>
        /\ \A m \in Lanes \ {l} : at'[m] = at[m]
    BY <1>3 DEF NothingToRead, Read, WriteOutputs, GiveUp, Goto, TypeOK, callVars, outboxVars
  <2>2. \A c \in Calls : Extra(c)' = Extra(c) /\ (Terminal(c)' <=> Terminal(c))
    BY <2>1 DEF Extra, Terminal
  <2>3. \A m \in Lanes : at[m] # "idle" => on[m] \in Calls
    BY DEF LaneInv, Attached, Free
  <2> QED BY <2>1, <2>2, <2>3 DEF Issues
<1>4. ASSUME NEW l \in Lanes, TryLater(l) PROVE Issues'
  <2>0. PICK c \in Calls : c = on[l]
    BY <1>4 DEF TryLater, LaneInv, Attached, Free
  <2>1. /\ at[l] \in {"read", "write"} /\ tries[c] < MaxEnrichAttempts
        /\ \A x \in Calls \ {c} : enrich'[x] = enrich[x] /\ retryAt'[x] = retryAt[x]
        /\ at'[l] = "idle" /\ UNCHANGED <<issued, tries>>
        /\ \A m \in Lanes \ {l} : at'[m] = at[m] /\ on'[m] = on[m]
    BY <1>4, <2>0 DEF TryLater, Leave, Goto, TypeOK, outboxVars
  <2>2. issued[c] = 0
    BY <2>0, <2>1, <1>0, LaneAssumption DEF Issues, Extra, LaneAssumption
  <2>3. /\ \A x \in Calls : Extra(x)' = Extra(x)
        /\ \A x \in Calls \ {c} : Terminal(x)' <=> Terminal(x)
    BY <2>1 DEF Extra, Terminal
  <2>4. \A m \in Lanes : at[m] # "idle" => on[m] \in Calls
    BY DEF LaneInv, Attached, Free
  <2> QED BY <2>1, <2>2, <2>3, <2>4 DEF Issues
<1>5. ASSUME NEW l \in Lanes, Release(l) PROVE Issues'
  <2>0. PICK c \in Calls : c = on[l]
    BY <1>5 DEF Release, LaneInv, Attached, Free
  <2>1. /\ at[l] = "settle" /\ at'[l] = "commit" /\ on' = on
        /\ issued'[c] = issued[c] + 1
        /\ \A x \in Calls \ {c} : issued'[x] = issued[x]
        /\ UNCHANGED <<enrich, tries, retryAt>>
        /\ \A m \in Lanes \ {l} : at'[m] = at[m]
    BY <1>5, <2>0 DEF Release, Enqueue, Goto, TypeOK, OutboxTypeOK, callVars
  <2>2. \A x \in Calls : Extra(x)' = Extra(x) /\ (Terminal(x)' <=> Terminal(x))
    BY <2>1 DEF Extra, Terminal
  <2>3. enrich[c] = "running"
    BY <2>0, <2>1 DEF LaneInv, OneReader, Holding, Free
  <2>4. \A m \in Lanes \ {l} : at[m] # "idle" => on[m] \in Calls \ {c}
    BY <2>0, <2>1 DEF LaneInv, Attached, OneReader, Holding, Free
  <2>5. issued'[c] <= 1 + Extra(c)
    BY <2>0, <2>1, <1>0, LaneAssumption DEF Issues, Extra, LaneAssumption
  <2> QED BY <2>1, <2>2, <2>3, <2>4, <2>5 DEF Issues
<1>6. ASSUME NEW l \in Lanes, Settle(l) PROVE Issues'
  <2>0. PICK c \in Calls : c = on[l]
    BY <1>6 DEF Settle, LaneInv, Attached, Free
  <2>1. /\ at[l] = "commit" /\ verdict[l] \in {"done", "skipped", "failed"}
        /\ enrich'[c] = verdict[l] /\ ~retryAt'[c]
        /\ \A x \in Calls \ {c} : enrich'[x] = enrich[x] /\ retryAt'[x] = retryAt[x]
        /\ at'[l] = "idle" /\ UNCHANGED <<issued, tries>>
        /\ \A m \in Lanes \ {l} : at'[m] = at[m] /\ on'[m] = on[m]
    BY <1>6, <2>0 DEF Settle, Leave, Goto, TypeOK, LaneInv, Verdicts
  <2>2. /\ \A x \in Calls : Extra(x)' = Extra(x)
        /\ \A x \in Calls \ {c} : Terminal(x)' <=> Terminal(x)
        /\ Terminal(c)'
    BY <2>1 DEF Extra, Terminal
  <2>3. \A m \in Lanes : at[m] # "idle" => on[m] \in Calls
    BY DEF LaneInv, Attached, Free
  <2> QED BY <2>1, <2>2, <2>3 DEF Issues
<1>7. ASSUME NEW l \in Lanes, SettleLost(l) \/ CrashLane(l) PROVE Issues'
  <2>1. /\ UNCHANGED <<issued, enrich, tries, retryAt>> /\ at'[l] = "idle"
        /\ \A m \in Lanes \ {l} : at'[m] = at[m] /\ on'[m] = on[m]
    BY <1>7 DEF SettleLost, CrashLane, Leave, Goto, TypeOK, callVars
  <2>2. \A c \in Calls : Extra(c)' = Extra(c) /\ (Terminal(c)' <=> Terminal(c))
    BY <2>1 DEF Extra, Terminal
  <2>3. \A m \in Lanes : at[m] # "idle" => on[m] \in Calls
    BY DEF LaneInv, Attached, Free
  <2> QED BY <2>1, <2>2, <2>3 DEF Issues
<1>8. ASSUME NEW l \in Lanes, NEW c \in Calls, Consume(l, c) \/ TryPicked(l, c) PROVE Issues'
  <2>1. Free(l) /\ (Claim(l, c) \/ Pass(c))
    BY <1>8 DEF Consume, TryPicked
  <2> QED BY <2>1, <1>1, <1>2 DEF Pass, callVars, outboxVars
<1>9. ASSUME NEW c \in Calls, HandOver(c) \/ Rerun(c) PROVE Issues'
  BY <1>1, <1>9 DEF HandOver, Rerun, outboxVars
<1>10. ASSUME NEW s \in Sweeps, Pick(s) PROVE Issues'
  BY <1>1, <1>10 DEF Pick, callVars, outboxVars
<1>11. CASE SendNext
  <2>1. UNCHANGED issued
    BY <1>11 DEF SendNext, OutboxNext, Tick, DrainStep, Deliver, Record, EndTick, AbortTick,
                 RetryDelivery
  <2> QED BY <1>1, <1>11, <2>1 DEF SendNext, LaneRests, callVars
<1>12. CASE UNCHANGED vars
  BY <1>1, <1>12 DEF vars, callVars, outboxVars
<1> QED
  BY <1>3, <1>4, <1>5, <1>6, <1>7, <1>8, <1>9, <1>10, <1>11, <1>12, LaneAssumption
  DEF Next, LaneNext, Enriching, Consumers, LaneAssumption

\* A release makes the next id and names no other.
LEMMA ReleaseNames ==
  ASSUME IInv, Named, NEW l \in Lanes, Release(l)
  PROVE  Named'
<1> USE DEF IInv
<1>0. PICK c \in Calls : c = on[l]
  BY DEF Release, LaneInv, Attached, Free
<1>1. /\ Enqueue(l, c) /\ UNCHANGED <<outbox, todo, flight>>
      /\ l \in Senders /\ issued[c] \in Nat
  <2>1. Enqueue(l, c) BY <1>0 DEF Release
  <2>2. UNCHANGED <<outbox, todo, flight>> BY <2>1 DEF Enqueue
  <2>3. l \in Senders BY DEF Senders
  <2>4. issued[c] \in Nat
    BY OutboxAssumption DEF TypeOK, OutboxTypeOK, OutboxAssumption
  <2> QED BY <2>1, <2>2, <2>3, <2>4
<1>2. issued'[c] = issued[c] + 1 /\ \A x \in Calls \ {c} : issued'[x] = issued[x]
  BY <1>1 DEF Enqueue, TypeOK, OutboxTypeOK
<1>3. PICK row \in [sync : RowStatus, sent : {0, 1}, req : {issued[c] + 1}] :
        write' = [write EXCEPT ![l][c] = row]
  BY <1>1 DEF Enqueue, Outcome, Unsendable, RowStatus
<1>4. \A x \in Calls : \A i \in accepted'[x] :
        i \in accepted[x] \/ (x = c /\ i = issued[c] + 1)
  BY <1>1 DEF Enqueue, Accept, TypeOK, OutboxTypeOK
<1>5. \A t \in Senders, x \in Calls :
        write'[t][x] = write[t][x] \/ (x = c /\ write'[t][x].req = issued[c] + 1)
  BY <1>1, <1>3 DEF TypeOK, OutboxTypeOK
<1>6. \A x \in Calls : /\ issued[x] \in Nat /\ issued'[x] \in Nat /\ issued[x] <= issued'[x]
  BY <1>1, <1>2, OutboxAssumption DEF TypeOK, OutboxTypeOK, OutboxAssumption
<1>7. \A x \in Calls : \A i \in accepted'[x] : i <= issued'[x]
  <2> SUFFICES ASSUME NEW x \in Calls, NEW i \in accepted'[x] PROVE i <= issued'[x]
    OBVIOUS
  <2>1. CASE i \in accepted[x]
    <3>1. i \in Nat /\ i <= issued[x]
      BY <2>1, OutboxAssumption DEF Named, TypeOK, OutboxTypeOK, OutboxAssumption
    <3> QED BY <3>1, <1>6
  <2>2. CASE x = c /\ i = issued[c] + 1
    BY <2>2, <1>1, <1>2
  <2> QED BY <1>4, <2>1, <2>2
<1>8. \A t \in Senders, x \in Calls : write'[t][x] # Null => write'[t][x].req <= issued'[x]
  <2> SUFFICES ASSUME NEW t \in Senders, NEW x \in Calls, write'[t][x] # Null
               PROVE  write'[t][x].req <= issued'[x]
    OBVIOUS
  <2>1. CASE write'[t][x] = write[t][x]
    <3>1. write[t][x].req \in Nat /\ write[t][x].req <= issued[x]
      BY <2>1, OutboxAssumption DEF Named, TypeOK, OutboxTypeOK, Row, OutboxAssumption
    <3> QED BY <2>1, <3>1, <1>6
  <2>2. CASE x = c /\ write'[t][x].req = issued[c] + 1
    BY <2>2, <1>1, <1>2
  <2> QED BY <1>5, <2>1, <2>2
<1>9. \A x \in Calls : outbox[x].req \in Nat /\ outbox[x].req <= issued'[x]
  BY <1>6, OutboxAssumption DEF Named, TypeOK, OutboxTypeOK, Row, OutboxAssumption
<1>10. \A x \in Calls, d \in Drains :
         /\ todo[d][x] <= issued'[x]
         /\ flight[d] # Null /\ flight[d].call = x /\ flight[d].row # Null
              => flight[d].row.req <= issued'[x]
  <2> SUFFICES ASSUME NEW x \in Calls, NEW d \in Drains
               PROVE  /\ todo[d][x] <= issued'[x]
                      /\ flight[d] # Null /\ flight[d].call = x /\ flight[d].row # Null
                           => flight[d].row.req <= issued'[x]
    OBVIOUS
  <2>1. todo[d][x] \in Nat /\ todo[d][x] <= issued[x]
    BY OutboxAssumption DEF Named, TypeOK, OutboxTypeOK, OutboxAssumption
  <2>2. ASSUME flight[d] # Null, flight[d].call = x, flight[d].row # Null
        PROVE  flight[d].row.req \in Nat /\ flight[d].row.req <= issued[x]
    BY <2>2, OutboxAssumption DEF Named, TypeOK, OutboxTypeOK, Row, OutboxAssumption
  <2> QED BY <2>1, <2>2, <1>6
<1> QED BY <1>1, <1>7, <1>8, <1>9, <1>10 DEF Named

\* No other step makes an id, and what names one took the name from another place
\* that has it: the table, a transaction's row, a tick's selection.
LEMMA OthersName ==
  ASSUME IInv, Named, issued' = issued,
         \A c \in Calls :
           /\ \/ outbox'[c].req = outbox[c].req
              \/ \E t \in Senders : write[t][c] # Null /\ outbox'[c] = write[t][c]
           /\ \A i \in accepted'[c] : i \in accepted[c] \/ \E d \in Drains : todo[d][c] = i
           /\ \A t \in Senders : write'[t][c] # Null =>
                \/ write'[t][c] = write[t][c]
                \/ write'[t][c].req = outbox[c].req
                \/ \E d \in Drains : /\ flight[d] # Null /\ flight[d].call = c
                                     /\ flight[d].row # Null /\ write'[t][c] = flight[d].row
           /\ \A d \in Drains :
                /\ todo'[d][c] \in {todo[d][c], outbox[c].req, 0}
                /\ flight'[d] # Null /\ flight'[d].call = c /\ flight'[d].row # Null =>
                     \/ flight'[d] = flight[d]
                     \/ flight'[d].row.req = todo[d][c]
  PROVE  Named'
<1>1. \A c \in Calls : 0 <= issued[c]
  BY OutboxAssumption DEF IInv, TypeOK, OutboxTypeOK, OutboxAssumption
<1> QED BY <1>1 DEF Named

LEMMA NamedStep ==
  ASSUME IInv, Named, [Next]_vars
  PROVE  Named'
<1> USE DEF IInv
<1>0. Lanes \subseteq Senders /\ Drains \subseteq Senders
  BY DEF Senders
<1>1. ASSUME UNCHANGED <<outbox, write, todo, flight, issued, accepted>> PROVE Named'
  BY <1>1 DEF Named
<1>2. ASSUME NEW l \in Lanes, Release(l) PROVE Named'
  BY <1>2, ReleaseNames
<1>3. ASSUME NEW t \in Senders, Commit(t), UNCHANGED <<todo, flight, issued, accepted>>
      PROVE  Named'
  <2>1. \A c \in Calls : \/ outbox'[c].req = outbox[c].req
                         \/ \E u \in Senders : write[u][c] # Null /\ outbox'[c] = write[u][c]
    BY <1>3 DEF Commit
  <2>2. \A u \in Senders, c \in Calls : write'[u][c] # Null => write'[u][c] = write[u][c]
    BY <1>3, ForgetKeeps DEF Commit, TypeOK
  <2> QED BY <1>3, <2>1, <2>2, OthersName
<1>4. ASSUME NEW t \in Senders, Forget(t), UNCHANGED <<outbox, issued, accepted>>,
             \A d \in Drains : /\ \A c \in Calls : todo'[d][c] \in {todo[d][c], 0}
                               /\ flight'[d] \in {flight[d], Null}
      PROVE  Named'
  <2>1. \A u \in Senders, c \in Calls : write'[u][c] # Null => write'[u][c] = write[u][c]
    BY <1>4, ForgetKeeps DEF TypeOK
  <2> QED BY <1>4, <2>1, OthersName
<1>5. ASSUME NEW d \in Drains, Tick(d) PROVE Named'
  <2>1. \A e \in Drains, c \in Calls : todo'[e][c] \in {todo[e][c], outbox[c].req, 0}
    BY <1>5 DEF Tick, TypeOK, OutboxTypeOK
  <2> QED BY <1>5, <2>1, OthersName DEF Tick
<1>6. ASSUME NEW d \in Drains, NEW c \in Calls, Deliver(d, c) PROVE Named'
  <2>1. UNCHANGED <<outbox, write, issued>> /\ todo' = [todo EXCEPT ![d][c] = 0]
    BY <1>6 DEF Deliver
  <2>2. \A x \in Calls : \A i \in accepted'[x] :
          i \in accepted[x] \/ \E e \in Drains : todo[e][x] = i
    BY <1>6 DEF Deliver, Accept, TypeOK, OutboxTypeOK
  <2>3. \A e \in Drains, x \in Calls : todo'[e][x] \in {todo[e][x], 0}
    BY <2>1 DEF TypeOK, OutboxTypeOK
  <2>4. \A e \in Drains, x \in Calls :
          flight'[e] # Null /\ flight'[e].call = x /\ flight'[e].row # Null =>
            flight'[e] = flight[e] \/ flight'[e].row.req = todo[e][x]
    <3>1. PICK r : flight' = [flight EXCEPT ![d] = [call |-> c, row |-> r]]
                   /\ (r # Null => r.req = todo[d][c])
      BY <1>6 DEF Deliver, Outcome
    <3> QED BY <3>1 DEF TypeOK, OutboxTypeOK
  <2> QED BY <2>1, <2>2, <2>3, <2>4, OthersName
<1>7. ASSUME NEW d \in Drains, Record(d) PROVE Named'
  <2>1. PICK c \in Calls : c = flight[d].call
    BY <1>7 DEF Record, TypeOK, OutboxTypeOK
  <2>2. /\ UNCHANGED <<outbox, todo, issued, accepted>>
        /\ flight' = [flight EXCEPT ![d] = Null] /\ flight[d] # Null
        /\ write' = [write EXCEPT ![d][c] = IF flight[d].row = Null THEN Unsendable(outbox[c])
                                                                   ELSE flight[d].row]
    BY <1>7, <2>1 DEF Record
  <2>3. \A e \in Drains : flight'[e] # Null => flight'[e] = flight[e]
    BY <2>2 DEF TypeOK, OutboxTypeOK
  <2>4. Unsendable(outbox[c]).req = outbox[c].req
    BY DEF Unsendable, TypeOK, OutboxTypeOK, Row
  <2>5. \A t \in Senders, x \in Calls :
          \/ write'[t][x] = write[t][x]
          \/ x = c /\ write'[t][x] = IF flight[d].row = Null THEN Unsendable(outbox[c])
                                                             ELSE flight[d].row
    BY <1>0, <2>2 DEF TypeOK, OutboxTypeOK
  <2>6. \A t \in Senders, x \in Calls : write'[t][x] # Null =>
          \/ write'[t][x] = write[t][x]
          \/ write'[t][x].req = outbox[x].req
          \/ \E e \in Drains : /\ flight[e] # Null /\ flight[e].call = x
                               /\ flight[e].row # Null /\ write'[t][x] = flight[e].row
    BY <2>1, <2>2, <2>4, <2>5
  <2> QED BY <2>2, <2>3, <2>6, OthersName
<1>8. ASSUME NEW c \in Calls, RetryDelivery(c) PROVE Named'
  <2>1. \A x \in Calls : outbox'[x].req = outbox[x].req
    BY <1>8 DEF RetryDelivery, TypeOK, OutboxTypeOK, Row
  <2> QED BY <1>8, <2>1, OthersName DEF RetryDelivery
<1>9. CASE SendNext
  <2>1. ASSUME NEW d \in Drains, AbortTick(d) PROVE Named'
    <3>1. /\ Forget(d) /\ UNCHANGED <<outbox, issued, accepted>>
          /\ \A e \in Drains : /\ \A c \in Calls : todo'[e][c] \in {todo[e][c], 0}
                               /\ flight'[e] \in {flight[e], Null}
      BY <2>1 DEF AbortTick, TypeOK, OutboxTypeOK
    <3> QED BY <3>1, <1>0, <1>4
  <2>2. ASSUME NEW d \in Drains, EndTick(d) PROVE Named'
    BY <2>2, <1>0, <1>3 DEF EndTick
  <2> QED BY <1>9, <2>1, <2>2, <1>5, <1>6, <1>7, <1>8 DEF SendNext, OutboxNext, DrainStep
<1>10. ASSUME NEW l \in Lanes, Settle(l) PROVE Named'
  BY <1>10, <1>0, <1>3 DEF Settle
<1>11. ASSUME NEW l \in Lanes, SettleLost(l) \/ CrashLane(l) PROVE Named'
  <2>1. Forget(l) /\ UNCHANGED <<outbox, todo, flight, issued, accepted>>
    BY <1>11 DEF SettleLost, CrashLane
  <2> QED BY <2>1, <1>0, <1>4
<1>12. ASSUME NEW l \in Lanes, NEW c \in Calls, Consume(l, c) \/ TryPicked(l, c) PROVE Named'
  BY <1>1, <1>12 DEF Consume, TryPicked, Claim, Pass, outboxVars
<1>13. ASSUME NEW c \in Calls, HandOver(c) \/ Rerun(c) PROVE Named'
  BY <1>1, <1>13 DEF HandOver, Rerun, outboxVars
<1>14. ASSUME NEW s \in Sweeps, Pick(s) PROVE Named'
  BY <1>1, <1>14 DEF Pick, outboxVars
<1>15. ASSUME NEW l \in Lanes, NothingToRead(l) \/ Read(l) \/ WriteOutputs(l) \/ GiveUp(l)
                                 \/ TryLater(l)
       PROVE  Named'
  BY <1>1, <1>15 DEF NothingToRead, Read, WriteOutputs, GiveUp, TryLater, outboxVars
<1>16. CASE UNCHANGED vars
  BY <1>1, <1>16 DEF vars, outboxVars
<1> QED
  BY <1>2, <1>9, <1>10, <1>11, <1>12, <1>13, <1>14, <1>15, <1>16, LaneAssumption
  DEF Next, LaneNext, Enriching, Consumers, LaneAssumption

\* OneSendInBudget: while a call is within its attempts, the CRM takes in one request
\* for it at most, under any faults, redeliveries and requeues.
THEOREM OneSendWithinBudget == Spec => []OneSendInBudget
<1>1. Init => Issues /\ Named
  BY LaneAssumption DEF Init, OutboxInit, Issues, Named, Extra, Terminal, LaneAssumption
<1>2. IInv /\ Issues /\ Named /\ [Next]_vars => Issues' /\ Named'
  BY IssuesStep, NamedStep
<1>3. IInv /\ Issues /\ Named => OneSendInBudget
  <2> SUFFICES ASSUME IInv, Issues, Named, NEW c \in Calls, tries[c] <= MaxEnrichAttempts,
                      NEW i \in accepted[c], NEW j \in accepted[c]
               PROVE  i = j
    BY DEF OneSendInBudget
  <2>1. tries[c] \in Nat /\ issued[c] \in Nat /\ i \in Nat \ {0} /\ j \in Nat \ {0}
    BY LaneAssumption, OutboxAssumption
    DEF IInv, TypeOK, OutboxTypeOK, LaneAssumption, OutboxAssumption
  <2>2. issued[c] <= 1
    BY <2>1, LaneAssumption DEF Issues, Extra, LaneAssumption
  <2>3. i <= issued[c] /\ j <= issued[c]
    BY DEF Named
  <2> QED BY <2>1, <2>2, <2>3
<1> QED BY <1>1, <1>2, <1>3, Invariance, PTL DEF Spec

\* StrandingNeedsFault: a call whose row says running has its reader, until a fault
\* takes one away.
THEOREM StrandingTakesFault == Spec => []StrandingNeedsFault
<1>1. Init => StrandingNeedsFault
  BY DEF Init, StrandingNeedsFault, Stranded
<1>2. IInv /\ StrandingNeedsFault /\ [Next]_vars => StrandingNeedsFault'
  <2> SUFFICES ASSUME IInv, StrandingNeedsFault, [Next]_vars, faults' = 0,
                      NEW c \in Calls, enrich'[c] = "running"
               PROVE  \E l \in Lanes : at'[l] # "idle" /\ on'[l] = c
    BY DEF StrandingNeedsFault, Stranded, Holding, Free
  <2> USE DEF IInv
  <2>1. faults \in Nat
    BY OutboxAssumption DEF TypeOK, OutboxTypeOK, OutboxAssumption
  <2>2. ~Fault
    BY <2>1 DEF Fault
  <2>3. faults = 0 /\ enrich[c] = "running" => \E l \in Lanes : at[l] # "idle" /\ on[l] = c
    BY DEF StrandingNeedsFault, Stranded, Holding, Free
  <2>4. ASSUME UNCHANGED <<faults, enrich, laneVars>>
        PROVE  \E l \in Lanes : at'[l] # "idle" /\ on'[l] = c
    BY <2>3, <2>4 DEF laneVars
  <2>5. ASSUME NEW l \in Lanes, NEW x \in Calls, Consume(l, x) \/ TryPicked(l, x)
        PROVE  \E m \in Lanes : at'[m] # "idle" /\ on'[m] = c
    <3>1. CASE Pass(x)
      BY <3>1, <2>4 DEF Pass, callVars
    <3>2. CASE Claim(l, x)
      <4>1. /\ Free(l) /\ UNCHANGED faults
            /\ at'[l] = "read" /\ on'[l] = x
            /\ \A m \in Lanes \ {l} : at'[m] = at[m] /\ on'[m] = on[m]
            /\ \A y \in Calls \ {x} : enrich'[y] = enrich[y]
        BY <2>5, <3>2 DEF Consume, TryPicked, Claim, Goto, TypeOK
      <4> QED BY <4>1, <2>3 DEF Free
    <3> QED BY <2>5, <3>1, <3>2 DEF Consume, TryPicked
  <2>6. ASSUME NEW l \in Lanes, Enriching(l)
        PROVE  \E m \in Lanes : at'[m] # "idle" /\ on'[m] = c
    <3>1. CASE TryLater(l) \/ Settle(l)
      <4>0. PICK x \in Calls : x = on[l]
        BY <3>1 DEF TryLater, Settle, LaneInv, Attached, Free
      <4>1. /\ UNCHANGED faults /\ enrich'[x] # "running"
            /\ \A m \in Lanes \ {l} : at'[m] = at[m] /\ on'[m] = on[m]
            /\ \A y \in Calls \ {x} : enrich'[y] = enrich[y]
        BY <3>1, <4>0 DEF TryLater, Settle, Leave, Goto, TypeOK, LaneInv, Verdicts
      <4> QED BY <4>0, <4>1, <2>3
    <3>2. CASE NothingToRead(l) \/ Read(l) \/ WriteOutputs(l) \/ GiveUp(l) \/ Release(l)
      <4>1. /\ UNCHANGED <<faults, enrich>> /\ on' = on /\ at'[l] # "idle"
            /\ \A m \in Lanes \ {l} : at'[m] = at[m]
        BY <3>2 DEF NothingToRead, Read, WriteOutputs, GiveUp, Release, Goto, TypeOK, callVars
      <4> QED BY <4>1, <2>3
    <3> QED BY <2>6, <3>1, <3>2 DEF Enriching
  <2>7. ASSUME NEW x \in Calls, HandOver(x) \/ Rerun(x)
        PROVE  \E l \in Lanes : at'[l] # "idle" /\ on'[l] = c
    BY <2>2, <2>4, <2>7 DEF HandOver, Rerun, WakeLane
  <2>8. ASSUME NEW s \in Sweeps, Pick(s)
        PROVE  \E l \in Lanes : at'[l] # "idle" /\ on'[l] = c
    BY <2>4, <2>8 DEF Pick, callVars
  <2>9. CASE SendNext
    <3>1. UNCHANGED faults
      BY <2>2, <2>9 DEF SendNext, OutboxNext, Tick, DrainStep, Deliver, Record, EndTick,
                        AbortTick, RetryDelivery
    <3> QED BY <3>1, <2>4, <2>9 DEF SendNext, LaneRests, callVars
  <2>10. CASE UNCHANGED vars
    BY <2>4, <2>10 DEF vars, callVars
  <2> QED
    BY <2>2, <2>5, <2>6, <2>7, <2>8, <2>9, <2>10, LaneAssumption
    DEF Next, LaneNext, SettleLost, CrashLane, Consumers, LaneAssumption
<1> QED BY <1>1, <1>2, Invariance, PTL DEF Spec

\* StrandedStays: no consumer, sweep, drain or operator ever takes up a call whose
\* reader is gone, in any configuration: the finding is not one of a small instance.
THEOREM StrandedForGood == Spec => StrandedStays
<1>1. IInv /\ [Next]_vars => \A c \in Calls : Stranded(c) => Stranded(c)'
  <2> SUFFICES ASSUME IInv, [Next]_vars, NEW c \in Calls, enrich[c] = "running",
                      \A l \in Lanes : at[l] # "idle" => on[l] # c
               PROVE  /\ enrich'[c] = "running"
                      /\ \A l \in Lanes : at'[l] # "idle" => on'[l] # c
    BY DEF Stranded, Holding, Free
  <2> DEFINE Gone == /\ enrich'[c] = "running"
                     /\ \A l \in Lanes : at'[l] # "idle" => on'[l] # c
  <2> USE DEF IInv
  <2>4. ASSUME UNCHANGED <<enrich, laneVars>> PROVE Gone
    BY <2>4 DEF laneVars
  <2>5. ASSUME NEW l \in Lanes, NEW x \in Calls, Consume(l, x) \/ TryPicked(l, x)
        PROVE  Gone
    <3>1. CASE Pass(x)
      BY <3>1, <2>4 DEF Pass, callVars
    <3>2. CASE Claim(l, x)
      <4>1. /\ x # c /\ at'[l] = "read" /\ on'[l] = x
            /\ \A m \in Lanes \ {l} : at'[m] = at[m] /\ on'[m] = on[m]
            /\ \A y \in Calls \ {x} : enrich'[y] = enrich[y]
        BY <3>2 DEF Claim, Claimable, Goto, TypeOK
      <4> QED BY <4>1
    <3> QED BY <2>5, <3>1, <3>2 DEF Consume, TryPicked
  <2>6. ASSUME NEW l \in Lanes, Enriching(l) \/ SettleLost(l) \/ CrashLane(l) PROVE Gone
    <3>1. CASE TryLater(l) \/ Settle(l)
      <4>0. PICK x \in Calls : x = on[l] /\ x # c
        BY <3>1 DEF TryLater, Settle, LaneInv, Attached, Free
      <4>1. /\ at'[l] = "idle"
            /\ \A m \in Lanes \ {l} : at'[m] = at[m] /\ on'[m] = on[m]
            /\ \A y \in Calls \ {x} : enrich'[y] = enrich[y]
        BY <3>1, <4>0 DEF TryLater, Settle, Leave, Goto, TypeOK
      <4> QED BY <4>0, <4>1
    <3>2. CASE NothingToRead(l) \/ Read(l) \/ WriteOutputs(l) \/ GiveUp(l) \/ Release(l)
      <4>1. /\ UNCHANGED enrich /\ on' = on /\ at[l] # "idle"
            /\ \A m \in Lanes \ {l} : at'[m] = at[m]
        BY <3>2 DEF NothingToRead, Read, WriteOutputs, GiveUp, Release, Goto, TypeOK, callVars
      <4> QED BY <4>1
    <3>3. CASE SettleLost(l) \/ CrashLane(l)
      <4>1. /\ UNCHANGED enrich /\ at'[l] = "idle"
            /\ \A m \in Lanes \ {l} : at'[m] = at[m] /\ on'[m] = on[m]
        BY <3>3 DEF SettleLost, CrashLane, Leave, Goto, TypeOK, callVars
      <4> QED BY <4>1
    <3> QED BY <2>6, <3>1, <3>2, <3>3 DEF Enriching
  <2>7. ASSUME NEW x \in Calls, HandOver(x) \/ Rerun(x) PROVE Gone
    BY <2>4, <2>7 DEF HandOver, Rerun
  <2>8. ASSUME NEW s \in Sweeps, Pick(s) PROVE Gone
    BY <2>4, <2>8 DEF Pick, callVars
  <2>9. CASE SendNext
    BY <2>4, <2>9 DEF SendNext, LaneRests, callVars
  <2>10. CASE UNCHANGED vars
    BY <2>4, <2>10 DEF vars, callVars
  <2> QED
    BY <2>5, <2>6, <2>7, <2>8, <2>9, <2>10, LaneAssumption
    DEF Next, LaneNext, Consumers, LaneAssumption
<1> QED BY <1>1, Invariance, PTL DEF Spec, StrandedStays
=============================================================================
