--------------------------- MODULE CallDiaryProofs ---------------------------
(***************************************************************************)
(* Proofs about CallDiary, for any numbers of slots, leads, requests,      *)
(* operators and faults.  A call's event is created by one request,        *)
(* recorded by that request on the row of its own hour, and only then can  *)
(* an operator read it; who reads it has that hour in the list it clears.  *)
(***************************************************************************)
EXTENDS CallDiary, TLAPS

\* A visitor's request whose call is booked and not yet mirrored.
Syncing(r) == at[r] \in {"check", "insert", "record"}

\* A booked slot is held by a call booked for it.
Placed == \A s \in Slots : status[s] = "booked" => /\ who[s] \in Bookings
                                                   /\ owner[who[s]] \in Leads
                                                   /\ home[who[s]] = s

\* A call that was never booked has no hour.
Booked == \A b \in Bookings : home[b] # Null => owner[b] \in Leads

\* A move holds a row that stays booked, alone.
Moving ==
  /\ \A r \in Requests : at[r] = "claim" => /\ from[r] \in Slots
                                            /\ to[r] \in Slots
                                            /\ from[r] # to[r]
                                            /\ status[from[r]] = "booked"
  /\ \A q, r \in Requests : at[q] = "claim" /\ at[r] = "claim" /\ from[q] = from[r] => q = r

\* One request mirrors a call, and records the event of that call and no other.
Mirroring ==
  /\ \A r \in Requests : Syncing(r) => /\ mine[r] \in Bookings
                                       /\ to[r] \in Slots
                                       /\ owner[mine[r]] \in Leads
                                       /\ home[mine[r]] = to[r]
  /\ \A q, r \in Requests : Syncing(q) /\ Syncing(r) /\ mine[q] = mine[r] => q = r
  /\ \A r \in Requests : at[r] = "record" /\ got[r] # Null => /\ got[r] = mine[r]
                                                              /\ got[r] \in calendar

\* An event is recorded once, on the row of its own hour, with no other event's link.
Recorded ==
  \A s \in Slots : event[s] # Null =>
    /\ event[s] \in calendar
    /\ link[s] \in {event[s], Null}
    /\ home[event[s]] = s
    /\ \A r \in Requests : Syncing(r) => mine[r] # event[s]

\* What an operator is about to delete was on a row it clears, and is on none once
\* that is committed.
Reading ==
  \A o \in Operators :
    /\ step[o] = "idle" => found[o] = {}
    /\ \A e \in found[o] :
         /\ home[e] \in seen[o]
         /\ \A r \in Requests : Syncing(r) => mine[r] # e
         /\ step[o] = "delete" => /\ ~Stands(e)
                                  /\ \A s \in Slots : event[s] # e

IInv == TypeOK /\ Placed /\ Booked /\ Moving /\ Mirroring /\ Recorded /\ Reading

-----------------------------------------------------------------------------

\* An empty diary.
LEMMA Start == Init => IInv
<1> SUFFICES ASSUME Init PROVE IInv
    OBVIOUS
<1> USE DiaryAssumption DEF Init
<1>1. TypeOK
  BY DEF TypeOK
<1>2. Placed /\ Booked /\ Moving
  BY DEF Placed, Booked, Moving
<1>3. Mirroring /\ Recorded /\ Reading
  BY DEF Mirroring, Recorded, Reading, Syncing
<1> QED
  BY <1>1, <1>2, <1>3 DEF IInv

-----------------------------------------------------------------------------
(* One lemma per action *)

LEMMA BookKeeps ==
  ASSUME IInv, NEW r \in Requests, NEW b \in Bookings, NEW l \in Leads, NEW s \in Slots,
         Book(r, b, l, s)
  PROVE IInv'
<1> USE DiaryAssumption DEF IInv, Book, Enter, rows, calls, google, visitors, clerks
<1>1. TypeOK'
  BY DEF TypeOK
<1>2. Placed'
  BY DEF TypeOK, Placed
<1>3. Booked'
  BY DEF TypeOK, Booked
<1>4. Moving'
  BY DEF Moving
<1>5. Mirroring'
  BY DEF TypeOK, Mirroring, Syncing
<1>6. Recorded'
  BY DEF TypeOK, Booked, Recorded, Syncing
<1>7. Reading'
  BY DEF TypeOK, Booked, Reading, Syncing, Stands
<1> QED
  BY <1>1, <1>2, <1>3, <1>4, <1>5, <1>6, <1>7

LEMMA ReleaseKeeps ==
  ASSUME IInv, NEW r \in Requests, NEW s \in Slots, NEW t \in Slots, Release(r, s, t)
  PROVE IInv'
<1> USE DiaryAssumption DEF IInv, Release, HeldBy, Locked, rows, calls, google, visitors, clerks
<1>1. TypeOK'
  BY DEF TypeOK
<1>2. Placed'
  BY DEF Placed
<1>3. Booked'
  BY DEF Booked
<1>4. Moving'
  BY DEF TypeOK, Moving
<1>5. Mirroring'
  BY DEF Mirroring, Syncing
<1>6. Recorded'
  BY DEF Recorded, Syncing
<1>7. Reading'
  BY DEF Reading, Syncing, Stands
<1> QED
  BY <1>1, <1>2, <1>3, <1>4, <1>5, <1>6, <1>7

LEMMA ClaimKeeps ==
  ASSUME IInv, NEW r \in Requests, NEW b \in Bookings, Claim(r, b)
  PROVE IInv'
<1> USE DiaryAssumption DEF IInv, Claim, Enter, rows, calls, google, visitors, clerks
<1>1. TypeOK'
  BY DEF TypeOK, Placed, Moving
<1>2. Placed'
  BY DEF TypeOK, Placed, Moving
<1>3. Booked'
  BY DEF TypeOK, Placed, Booked, Moving
<1>4. Moving'
  BY DEF TypeOK, Moving
<1>5. Mirroring'
  BY DEF TypeOK, Placed, Moving, Mirroring, Syncing
<1>6. Recorded'
  BY DEF TypeOK, Booked, Recorded, Syncing
<1>7. Reading'
  BY DEF TypeOK, Booked, Reading, Syncing, Stands
<1> QED
  BY <1>1, <1>2, <1>3, <1>4, <1>5, <1>6, <1>7

LEMMA RefuseKeeps == ASSUME IInv, NEW r \in Requests, Refuse(r) PROVE IInv'
<1> USE DiaryAssumption DEF IInv, Refuse, Leave, rows, calls, google, visitors, clerks
<1>1. TypeOK'
  BY DEF TypeOK
<1>2. Placed'
  BY DEF Placed
<1>3. Booked'
  BY DEF Booked
<1>4. Moving'
  BY DEF TypeOK, Moving
<1>5. Mirroring'
  BY DEF Mirroring, Syncing
<1>6. Recorded'
  BY DEF Recorded, Syncing
<1>7. Reading'
  BY DEF Reading, Syncing, Stands
<1> QED
  BY <1>1, <1>2, <1>3, <1>4, <1>5, <1>6, <1>7

LEMMA CheckKeeps == ASSUME IInv, NEW r \in Requests, Check(r) PROVE IInv'
<1> USE DiaryAssumption DEF IInv, Check, Heard, rows, calls, google, visitors, clerks
<1>1. TypeOK'
  BY DEF TypeOK
<1>2. Placed'
  BY DEF Placed
<1>3. Booked'
  BY DEF Booked
<1>4. Moving'
  BY DEF TypeOK, Moving
<1>5. Mirroring'
  BY DEF TypeOK, Mirroring, Syncing
<1>6. Recorded'
  BY DEF TypeOK, Recorded, Syncing
<1>7. Reading'
  BY DEF TypeOK, Reading, Syncing, Stands
<1> QED
  BY <1>1, <1>2, <1>3, <1>4, <1>5, <1>6, <1>7

LEMMA InsertKeeps == ASSUME IInv, NEW r \in Requests, Insert(r) PROVE IInv'
<1> USE DiaryAssumption DEF IInv, Insert, Heard, rows, calls, google, visitors, clerks
<1>1. TypeOK'
  BY DEF TypeOK, Mirroring, Syncing
<1>2. Placed'
  BY DEF Placed
<1>3. Booked'
  BY DEF Booked
<1>4. Moving'
  BY DEF TypeOK, Moving
<1>5. Mirroring'
  BY DEF TypeOK, Mirroring, Syncing
<1>6. Recorded'
  BY DEF TypeOK, Recorded, Syncing
<1>7. Reading'
  BY DEF TypeOK, Reading, Syncing, Stands
<1> QED
  BY <1>1, <1>2, <1>3, <1>4, <1>5, <1>6, <1>7

LEMMA MirrorFailsKeeps == ASSUME IInv, NEW r \in Requests, MirrorFails(r) PROVE IInv'
<1> USE DiaryAssumption DEF IInv, MirrorFails, Heard, Fault, rows, calls, google, visitors, clerks
<1>1. TypeOK'
  BY DEF TypeOK, Mirroring, Syncing
<1>2. Placed'
  BY DEF Placed
<1>3. Booked'
  BY DEF Booked
<1>4. Moving'
  BY DEF Moving
<1>5. Mirroring'
  BY DEF TypeOK, Mirroring, Syncing
<1>6. Recorded'
  BY DEF Recorded, Syncing
<1>7. Reading'
  BY DEF Reading, Syncing, Stands
<1> QED
  BY <1>1, <1>2, <1>3, <1>4, <1>5, <1>6, <1>7

LEMMA RecordKeeps == ASSUME IInv, NEW r \in Requests, Record(r) PROVE IInv'
<1> USE DiaryAssumption DEF IInv, Record, Leave, rows, calls, google, visitors, clerks
<1>1. TypeOK'
  BY DEF TypeOK
<1>2. Placed'
  BY DEF Placed
<1>3. Booked'
  BY DEF Booked
<1>4. Moving'
  BY DEF Moving
<1>5. Mirroring'
  BY DEF TypeOK, Mirroring, Syncing
<1>6. Recorded'
  BY DEF TypeOK, Mirroring, Recorded, Syncing
<1>7. Reading'
  BY DEF TypeOK, Mirroring, Reading, Syncing, Stands
<1> QED
  BY <1>1, <1>2, <1>3, <1>4, <1>5, <1>6, <1>7

LEMMA CrashKeeps == ASSUME IInv, NEW r \in Requests, Crash(r) PROVE IInv'
<1> USE DiaryAssumption DEF IInv, Crash, Leave, Fault, rows, calls, google, visitors, clerks
<1>1. TypeOK'
  BY DEF TypeOK
<1>2. Placed'
  BY DEF Placed
<1>3. Booked'
  BY DEF Booked
<1>4. Moving'
  BY DEF TypeOK, Moving
<1>5. Mirroring'
  BY DEF TypeOK, Mirroring, Syncing
<1>6. Recorded'
  BY DEF Recorded, Syncing
<1>7. Reading'
  BY DEF TypeOK, Reading, Syncing, Stands
<1> QED
  BY <1>1, <1>2, <1>3, <1>4, <1>5, <1>6, <1>7

LEMMA OpenRejectKeeps ==
  ASSUME IInv, NEW o \in Operators, NEW l \in Leads, OpenReject(o, l)
  PROVE IInv'
<1> USE DiaryAssumption DEF IInv, OpenReject, Open, CallsOf, EventsOf, rows, calls, google,
           visitors, clerks
<1>1. TypeOK'
  BY DEF TypeOK
<1>2. Placed'
  BY DEF Placed
<1>3. Booked'
  BY DEF Booked
<1>4. Moving'
  BY DEF Moving
<1>5. Mirroring'
  BY DEF Mirroring, Syncing
<1>6. Recorded'
  BY DEF Recorded, Syncing
<1>7. Reading'
  BY DEF TypeOK, Recorded, Reading, Syncing, Stands
<1> QED
  BY <1>1, <1>2, <1>3, <1>4, <1>5, <1>6, <1>7

LEMMA OpenRemoveKeeps ==
  ASSUME IInv, NEW o \in Operators, NEW l \in Leads, OpenRemove(o, l)
  PROVE IInv'
<1> USE DiaryAssumption DEF IInv, OpenRemove, Open, CallsOf, EventsOf, rows, calls, google,
           visitors, clerks
<1>1. TypeOK'
  BY DEF TypeOK
<1>2. Placed'
  BY DEF Placed
<1>3. Booked'
  BY DEF Booked
<1>4. Moving'
  BY DEF Moving
<1>5. Mirroring'
  BY DEF Mirroring, Syncing
<1>6. Recorded'
  BY DEF Recorded, Syncing
<1>7. Reading'
  BY DEF TypeOK, Recorded, Reading, Syncing, Stands
<1> QED
  BY <1>1, <1>2, <1>3, <1>4, <1>5, <1>6, <1>7

LEMMA OpenCancelKeeps ==
  ASSUME IInv, NEW o \in Operators, NEW s \in Slots, OpenCancel(o, s)
  PROVE IInv'
<1> USE DiaryAssumption DEF IInv, OpenCancel, Open, rows, calls, google, visitors, clerks
<1>1. TypeOK'
  BY DEF TypeOK
<1>2. Placed'
  BY DEF Placed
<1>3. Booked'
  BY DEF Booked
<1>4. Moving'
  BY DEF Moving
<1>5. Mirroring'
  BY DEF Mirroring, Syncing
<1>6. Recorded'
  BY DEF Recorded, Syncing
<1>7. Reading'
  BY DEF Reading, Syncing, Stands
<1> QED
  BY <1>1, <1>2, <1>3, <1>4, <1>5, <1>6, <1>7

LEMMA CommitLeadKeeps == ASSUME IInv, NEW o \in Operators, CommitLead(o) PROVE IInv'
<1> USE DiaryAssumption DEF IInv, CommitLead, Vacate, Locked, rows, calls, google, visitors, clerks
<1>1. TypeOK'
  BY DEF TypeOK
<1>2. Placed'
  BY DEF Placed
<1>3. Booked'
  BY DEF Booked
<1>4. Moving'
  BY DEF Moving
<1>5. Mirroring'
  BY DEF Mirroring, Syncing
<1>6. Recorded'
  BY DEF Recorded, Syncing
<1>7. Reading'
  BY DEF TypeOK, Placed, Recorded, Reading, Syncing, Stands
<1> QED
  BY <1>1, <1>2, <1>3, <1>4, <1>5, <1>6, <1>7

LEMMA CommitCancelKeeps == ASSUME IInv, NEW o \in Operators, CommitCancel(o) PROVE IInv'
<1> USE DiaryAssumption DEF IInv, CommitCancel, Vacate, Close, Locked, rows, calls, google,
           visitors, clerks
<1>1. TypeOK'
  BY DEF TypeOK
<1>2. Placed'
  BY DEF Placed
<1>3. Booked'
  BY DEF Booked
<1>4. Moving'
  BY DEF Moving
<1>5. Mirroring'
  BY DEF Mirroring, Syncing
<1>6. Recorded'
  BY DEF Recorded, Syncing
<1>7. Reading'
  BY DEF TypeOK, Reading, Syncing, Stands
<1> QED
  BY <1>1, <1>2, <1>3, <1>4, <1>5, <1>6, <1>7

LEMMA AbortKeeps == ASSUME IInv, NEW o \in Operators, Abort(o) PROVE IInv'
<1> USE DiaryAssumption DEF IInv, Abort, Close, Fault, rows, calls, google, visitors, clerks
<1>1. TypeOK'
  BY DEF TypeOK
<1>2. Placed'
  BY DEF Placed
<1>3. Booked'
  BY DEF Booked
<1>4. Moving'
  BY DEF Moving
<1>5. Mirroring'
  BY DEF Mirroring, Syncing
<1>6. Recorded'
  BY DEF Recorded, Syncing
<1>7. Reading'
  BY DEF TypeOK, Reading, Syncing, Stands
<1> QED
  BY <1>1, <1>2, <1>3, <1>4, <1>5, <1>6, <1>7

LEMMA DeleteEventsKeeps == ASSUME IInv, NEW o \in Operators, DeleteEvents(o) PROVE IInv'
<1> USE DiaryAssumption DEF IInv, DeleteEvents, Close, Fault, rows, calls, google, visitors, clerks
<1>1. TypeOK'
  BY DEF TypeOK
<1>2. Placed'
  BY DEF Placed
<1>3. Booked'
  BY DEF Booked
<1>4. Moving'
  BY DEF Moving
<1>5. Mirroring'
  BY DEF Mirroring, Reading, Syncing
<1>6. Recorded'
  BY DEF Recorded, Reading, Syncing
<1>7. Reading'
  BY DEF TypeOK, Reading, Syncing, Stands
<1> QED
  BY <1>1, <1>2, <1>3, <1>4, <1>5, <1>6, <1>7

LEMMA ForgetKeeps == ASSUME IInv, NEW l \in Leads, Forget(l) PROVE IInv'
<1> USE DiaryAssumption DEF IInv, Forget, rows, calls, google, visitors, clerks
<1>1. TypeOK'
  BY DEF TypeOK
<1>2. Placed'
  BY DEF Placed
<1>3. Booked'
  BY DEF Booked
<1>4. Moving'
  BY DEF Moving
<1>5. Mirroring'
  BY DEF Mirroring, Syncing
<1>6. Recorded'
  BY DEF Recorded, Syncing
<1>7. Reading'
  BY DEF Reading, Syncing, Stands
<1> QED
  BY <1>1, <1>2, <1>3, <1>4, <1>5, <1>6, <1>7

\* A step that changes nothing.
LEMMA StutterKeeps == ASSUME IInv, UNCHANGED vars PROVE IInv'
<1> USE DEF IInv, vars, rows, calls, google, visitors, clerks
<1>1. TypeOK' /\ Placed' /\ Booked' /\ Moving'
  BY DEF TypeOK, Placed, Booked, Moving
<1>2. Mirroring' /\ Recorded' /\ Reading'
  BY DEF Mirroring, Recorded, Reading, Syncing, Stands
<1> QED
  BY <1>1, <1>2

\* Every step keeps the invariant.
LEMMA Step == IInv /\ [Next]_vars => IInv'
<1> SUFFICES ASSUME IInv, [Next]_vars PROVE IInv'
    OBVIOUS
<1>1. ASSUME NEW r \in Requests, Visitor(r) PROVE IInv'
  BY <1>1, BookKeeps, ReleaseKeeps, ClaimKeeps, RefuseKeeps, CheckKeeps, InsertKeeps,
     MirrorFailsKeeps, RecordKeeps, CrashKeeps DEF Visitor
<1>2. ASSUME NEW o \in Operators, Operator(o) PROVE IInv'
  BY <1>2, OpenRejectKeeps, OpenRemoveKeeps, OpenCancelKeeps, CommitLeadKeeps,
     CommitCancelKeeps, AbortKeeps, DeleteEventsKeeps DEF Operator
<1>3. ASSUME NEW l \in Leads, Forget(l) PROVE IInv'
  BY <1>3, ForgetKeeps
<1>4. CASE UNCHANGED vars
  BY <1>4, StutterKeeps
<1> QED
  BY <1>1, <1>2, <1>3, <1>4 DEF Next

\* The inductive invariant of the diary: one request per event, one hour per
\* call, and an operator's list of events within its list of hours.
THEOREM Invariance == Spec => []IInv
BY Start, Step, PTL DEF Spec

\* Every variable keeps its type, for any number of visitors and operators.
THEOREM TypeCorrect == Spec => []TypeOK
<1>1. IInv => TypeOK
  BY DEF IInv
<1> QED
  BY <1>1, Invariance, PTL

\* No row points at an event that is gone, however late its outcome was recorded.
THEOREM RowsPointAtEvents == Spec => []RecordedIsReal
<1>1. IInv => RecordedIsReal
  BY DEF IInv, Recorded, RecordedIsReal
<1> QED
  BY <1>1, Invariance, PTL

-----------------------------------------------------------------------------
(* The calendar *)

\* Only an operator's deletion takes an event away, and it takes the events of
\* calls that its commit has ended.
LEMMA DeletedAreOver ==
  ASSUME IInv, [Next]_vars, NEW e \in calendar \ calendar'
  PROVE  ~Stands(e) /\ ~Stands(e)'
<1>1. PICK o \in Operators : DeleteEvents(o)
  <2> USE DEF rows, calls, google, visitors, clerks
  <2>1. CASE UNCHANGED vars
    BY <2>1 DEF vars
  <2>2. ASSUME NEW r \in Requests, Visitor(r) PROVE FALSE
    BY <2>2 DEF Visitor, Book, Release, Claim, Refuse, Check, Insert, MirrorFails, Record, Crash
  <2>3. ASSUME NEW l \in Leads, Forget(l) PROVE FALSE
    BY <2>3 DEF Forget
  <2>4. ASSUME NEW o \in Operators, Operator(o), ~DeleteEvents(o) PROVE FALSE
    BY <2>4 DEF Operator, OpenReject, OpenRemove, OpenCancel, Open, CommitLead, CommitCancel, Abort
  <2> QED
    BY <2>1, <2>2, <2>3, <2>4 DEF Next
<1>2. e \in found[o] /\ step[o] = "delete"
  BY <1>1 DEF DeleteEvents
<1>3. ~Stands(e)
  BY <1>2 DEF IInv, Reading
<1>4. UNCHANGED rows
  BY <1>1 DEF DeleteEvents
<1> QED
  BY <1>3, <1>4 DEF Stands, rows

\* Nobody is taken out of the calendar while their call stands.
THEOREM StandingCallsStay == Spec => StandingStays
<1>1. IInv /\ [Next]_vars => [\A e \in calendar \ calendar' : ~Stands(e) /\ ~Stands(e)']_vars
  BY DeletedAreOver
<1> QED
  BY <1>1, Invariance, PTL DEF Spec, StandingStays

-----------------------------------------------------------------------------
(* The refinement *)

\* Who stands where, and which slots operators have before them.
Standing == [s \in Slots |-> IF status[s] = "booked" THEN owner[who[s]] ELSE status[s]]
Doomed   == UNION {seen[o] : o \in {x \in Operators : step[x] = "write"}}

\* An empty diary is an empty ledger.
LEMMA InitRefines == Init => Ledger!DInit
BY DEF Init, Ledger!DInit

\* A step that moves neither.
LEMMA QuietStep ==
  ASSUME UNCHANGED <<status, who, owner, seen, step>>
  PROVE  UNCHANGED Ledger!ledgerVars
BY DEF Ledger!ledgerVars

\* A visitor's request books, moves, or leaves the diary alone.
LEMMA VisitorRefines ==
  ASSUME IInv, NEW r \in Requests, Visitor(r)
  PROVE  [Ledger!DNext]_(Ledger!ledgerVars)
<1> USE DEF rows, calls, google, visitors, clerks
<1>1. ASSUME NEW b \in Bookings, NEW l \in Leads, NEW s \in Slots, Book(r, b, l, s)
      PROVE  Ledger!DNext
  <2> USE <1>1 DEF Book, Enter, IInv
  <2>1. status[s] = "open" /\ Standing[s] = "open"
    BY DEF Standing
  <2>2. Standing' = [Standing EXCEPT ![s] = l]
    <3>1. Standing'[s] = l
      BY DEF TypeOK, Standing
    <3>2. ASSUME NEW x \in Slots \ {s} PROVE Standing'[x] = Standing[x]
      BY DiaryAssumption DEF TypeOK, Placed, Standing
    <3> QED
      BY <3>1, <3>2 DEF Standing
  <2>3. Doomed' = Doomed
    BY DEF Doomed
  <2>4. Ledger!Take(l, s)
    BY <2>1, <2>2, <2>3 DEF Ledger!Take, Standing, Doomed
  <2> QED
    BY <2>4 DEF Ledger!DNext
<1>2. ASSUME NEW b \in Bookings, Claim(r, b)
      PROVE  Ledger!DNext
  <2>1. from[r] \in Slots /\ to[r] \in Slots
    BY <1>2 DEF IInv, Moving, Claim
  <2>2. PICK s \in Slots, t \in Slots : s = from[r] /\ t = to[r]
    BY <2>1
  <2> USE <1>2, <2>2 DEF Claim, Enter, IInv
  <2>3. s # t /\ status[s] = "booked" /\ owner[who[s]] \in Leads
    BY DEF Moving, Placed
  <2>4. Standing[s] \in Leads /\ Standing[t] = "open"
    BY <2>3 DEF Standing
  <2>5. Standing' = [Standing EXCEPT ![s] = "open", ![t] = Standing[s]]
    <3>1. Standing'[s] = "open" /\ Standing'[t] = Standing[s]
      BY <2>3 DEF TypeOK, Standing
    <3>2. ASSUME NEW x \in Slots \ {s, t} PROVE Standing'[x] = Standing[x]
      BY <2>3, DiaryAssumption DEF TypeOK, Placed, Standing
    <3> HIDE <1>2, <2>2 DEF Claim, Enter, IInv
    <3> QED
      BY <2>3, <3>1, <3>2 DEF Standing
  <2>6. Doomed' = Doomed
    BY DEF Doomed
  <2>7. Ledger!Move(s, t)
    BY <2>4, <2>5, <2>6 DEF Ledger!Move, Standing, Doomed
  <2> QED
    BY <2>7 DEF Ledger!DNext
<1>3. ASSUME NEW s \in Slots, NEW t \in Slots, Release(r, s, t)
      PROVE  UNCHANGED Ledger!ledgerVars
  BY <1>3, QuietStep DEF Release
<1>4. ASSUME Refuse(r) \/ Check(r) \/ Insert(r) \/ MirrorFails(r) \/ Record(r) \/ Crash(r)
      PROVE  UNCHANGED Ledger!ledgerVars
  BY <1>4, QuietStep DEF Refuse, Check, Insert, MirrorFails, Record, Crash, Heard
<1> QED
  BY <1>1, <1>2, <1>3, <1>4 DEF Visitor, Ledger!DNext

\* An operator looks at slots, or clears slots it has looked at.
LEMMA OperatorRefines ==
  ASSUME IInv, NEW o \in Operators, Operator(o)
  PROVE  [Ledger!DNext]_(Ledger!ledgerVars)
<1> USE DEF rows, calls, google, visitors, clerks
<1>1. Doomed \in SUBSET Slots /\ Doomed' \in SUBSET Slots
  <2>1. TypeOK /\ TypeOK'
    BY Step DEF IInv, Next
  <2> QED
    BY <2>1 DEF TypeOK, Doomed
<1>2. ASSUME UNCHANGED <<status, who, owner>> PROVE Ledger!Look
  BY <1>1, <1>2 DEF Ledger!Look, Doomed
<1>3. ASSUME NEW fate \in {"open", "cancelled"}, step[o] = "write",
             NEW S \in SUBSET seen[o], Vacate(S, fate), UNCHANGED owner, Doomed' \in SUBSET Doomed
      PROVE  Ledger!Clear
  <2>1. S \in SUBSET Doomed
    BY <1>3 DEF Doomed
  <2>2. Standing' = [s \in Slots |-> IF s \in S THEN fate ELSE Standing[s]]
    BY <1>3 DEF Vacate, Standing
  <2> QED
    BY <2>1, <2>2, <1>3 DEF Ledger!Clear, Standing, Doomed
<1>4. CASE CommitLead(o)
  <2>1. Doomed' \in SUBSET Doomed
    BY <1>4 DEF CommitLead, Doomed, IInv, TypeOK
  <2> QED
    BY <1>3, <1>4, <2>1 DEF CommitLead, Ledger!DNext
<1>5. CASE CommitCancel(o)
  <2>1. Doomed' \in SUBSET Doomed
    BY <1>5 DEF CommitCancel, Close, Doomed, IInv, TypeOK
  <2> QED
    BY <1>3, <1>5, <2>1 DEF CommitCancel, Ledger!DNext
<1>6. ASSUME NEW l \in Leads, OpenReject(o, l) \/ OpenRemove(o, l) PROVE Ledger!DNext
  BY <1>2, <1>6 DEF OpenReject, OpenRemove, Open, Ledger!DNext
<1>7. ASSUME NEW s \in Slots, OpenCancel(o, s) PROVE Ledger!DNext
  BY <1>2, <1>7 DEF OpenCancel, Open, Ledger!DNext
<1>8. CASE Abort(o) \/ DeleteEvents(o)
  BY <1>2, <1>8 DEF Abort, DeleteEvents, Ledger!DNext
<1> QED
  BY <1>4, <1>5, <1>6, <1>7, <1>8 DEF Operator

\* Every step is a step of the ledger, or none.
LEMMA StepRefines == IInv /\ [Next]_vars => [Ledger!DNext]_(Ledger!ledgerVars)
<1> SUFFICES ASSUME IInv, [Next]_vars PROVE [Ledger!DNext]_(Ledger!ledgerVars)
    OBVIOUS
<1>1. ASSUME NEW l \in Leads, Forget(l) PROVE UNCHANGED Ledger!ledgerVars
  BY <1>1, QuietStep DEF Forget, rows, calls, clerks
<1>2. CASE UNCHANGED vars
  BY <1>2, QuietStep DEF vars, rows, calls, clerks
<1> QED
  BY <1>1, <1>2, VisitorRefines, OperatorRefines DEF Next

\* The diary is one in which people take and move hours in single steps, and lose
\* one only to an operator who had it before them.
THEOREM ImplementsTheDiary == Spec => ImplementsDiary
BY InitRefines, StepRefines, Invariance, PTL DEF Spec, ImplementsDiary, Ledger!DSpec
=============================================================================
