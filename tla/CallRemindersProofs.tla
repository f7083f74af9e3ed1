------------------------- MODULE CallRemindersProofs -------------------------
(***************************************************************************)
(* Proofs about CallReminders, for any numbers of slots, stages, sweeps,   *)
(* drains, attempts and faults.  A sweep that has begun with a slot keeps  *)
(* every stage ahead of it, and nothing ends a stage before its instant    *)
(* but a stand-down; a row out of doubt is in one drain, once.             *)
(***************************************************************************)
EXTENDS CallReminders, TLAPS

\* An attempt is left for every row that waits, and the outcome of a send is a row.
Budgeted ==
  /\ \A key \in Keys : row[key].is = "pending" => row[key].tried < MaxAttempts
  /\ \A t \in Ticks : flight[t] # Null =>
       /\ flight[t].row.is # "none"
       /\ flight[t].row.is = "pending" => flight[t].row.tried < MaxAttempts

\* What a tick holds was there to be read, and due.
HeldIsDue == \A t \in Ticks, key \in Keys :
               Holds(t, key) => row[key].is # "none" /\ key[2] <= clock[key[1]]

\* A stage still ahead has been neither tried nor ended.
NotEarly == \A s \in Slots \ spoiled, k \in Stages :
              k > clock[s] /\ row[<<s, k>>].is # "none" => row[<<s, k>>].is = "pending"

\* A sweep that has a stage of a slot left has every stage ahead that is not queued.
WholeAgenda == \A w \in Sweepers, s \in Slots \ spoiled, j, k \in Stages :
                 <<s, j>> \in agenda[w] /\ k > clock[s] =>
                   <<s, k>> \in agenda[w] \/ row[<<s, k>>].is # "none"

\* Covered, whoever holds the slot.
Full == \A s \in Slots \ spoiled :
          Queued(s) => \A k \in Stages : k > clock[s] => Coming(s, k)

\* Out of doubt, a row is in one place: with one tick, and there once.
OneHolder == \A key \in Keys \ doubtful :
               /\ \A t, u \in Ticks : Holds(t, key) /\ Holds(u, key) => t = u
               /\ \A t \in Ticks : flight[t] # Null /\ flight[t].key = key => batch[t][key] = Null

\* Out of doubt, what the provider took is recorded as sent, or about to be.
TakenIsOver == \A key \in reached \ doubtful :
                 /\ row[key].is \in {"sent", "dead"} \/ \E t \in Ticks : Holds(t, key)
                 /\ \A t \in Ticks : flight[t] # Null /\ flight[t].key = key =>
                                       flight[t].row.is = "sent"

Typed == TypeOK /\ Budgeted
Inv == Typed /\ HeldIsDue /\ NotEarly /\ WholeAgenda /\ Full
             /\ OneHolder /\ TakenIsOver /\ SentOnce

-----------------------------------------------------------------------------
(* Types *)

LEMMA KeyParts ==
  ASSUME NEW key \in Keys
  PROVE key[1] \in Slots /\ key[2] \in Stages /\ key = <<key[1], key[2]>>
  BY DEF Keys

LEMMA Start == Init => Inv
<1> SUFFICES ASSUME Init PROVE Inv
    OBVIOUS
<1> USE RemindersAssumption DEF Init, Stages
<1>1. Typed
  BY DEF Typed, TypeOK, Budgeted, Row, Keys
<1>2. HeldIsDue /\ NotEarly /\ WholeAgenda /\ Full
  BY DEF HeldIsDue, Holds, NotEarly, WholeAgenda, Full, Queued, Keys
<1>3. OneHolder /\ TakenIsOver /\ SentOnce
  BY DEF OneHolder, Holds, TakenIsOver, SentOnce
<1> QED
  BY <1>1, <1>2, <1>3 DEF Inv

\* The diary changes hands: no reminder is touched.
LEMMA DiaryTyped ==
  ASSUME Typed, NEW s \in Slots,
         Occupy(s) \/ Vacate(s) \/ Remove(s) \/ Forget(s) \/ Cancel(s) \/ HaltFails(s) \/ Pass(s)
  PROVE Typed'
<1> USE RemindersAssumption DEF Typed, TypeOK, Budgeted, Becomes, Fault, diary, drains
<1>1. CASE Occupy(s) \/ Vacate(s) \/ Remove(s) \/ Forget(s)
  BY <1>1 DEF Occupy, Vacate, Remove, Forget
<1>2. CASE Cancel(s) \/ HaltFails(s)
  BY <1>2 DEF Cancel, HaltFails
<1>3. CASE Pass(s)
  BY <1>3 DEF Pass
<1> QED
  BY <1>1, <1>2, <1>3

\* Rows are ended: they stay rows, and what did not wait stays as it was.
LEMMA EndedRows ==
  ASSUME Typed, NEW K, EndRows(K)
  PROVE /\ row' \in [Keys -> Row]
        /\ \A key \in Keys : row'[key].is = IF key \in K THEN "dead" ELSE row[key].is
        /\ \A key \in Keys : row'[key].tried = row[key].tried
  BY DEF EndRows, Typed, TypeOK, Row

LEMMA StandDownTyped ==
  ASSUME Typed, NEW s \in Slots, Reject(s) \/ Halt(s)
  PROVE Typed'
<1> USE RemindersAssumption DEF Typed, Becomes, StandDown, drains
<1>1. EndRows(Waiting(s))
  BY DEF Reject, Halt
<1>2. row' \in [Keys -> Row] /\ Budgeted'
  BY <1>1, EndedRows DEF Budgeted, Reject, Halt
<1>3. spoiled' \in SUBSET Slots
  BY DEF Reject, Halt, TypeOK
<1>4. TypeOK'
  BY <1>2, <1>3 DEF TypeOK, Reject, Halt
<1> QED
  BY <1>2, <1>4

LEMMA SweepTyped ==
  ASSUME Typed, NEW w \in Sweepers,
         Sweep(w) \/ SweepDies(w) \/ \E key \in Keys : Schedule(w, key) \/ ScheduleFails(w, key)
  PROVE Typed'
<1> USE RemindersAssumption DEF Typed, TypeOK, Budgeted, diary, drains
<1>1. CASE Sweep(w)
  <2>1. agenda' \in [Sweepers -> SUBSET Keys]
    BY <1>1 DEF Sweep, Ahead, Keys, Stages
  <2> QED
    BY <1>1, <2>1 DEF Sweep
<1>2. CASE SweepDies(w)
  BY <1>2 DEF SweepDies, Fault
<1>3. ASSUME NEW key \in Keys, Schedule(w, key)
      PROVE Typed'
  <2>1. row' \in [Keys -> Row]
    BY <1>3 DEF Schedule, Insert, Fresh, Row
  <2>2. Budgeted'
    BY <1>3 DEF Schedule, Insert, Fresh, Row
  <2> QED
    BY <1>3, <2>1, <2>2 DEF Schedule
<1>4. ASSUME NEW key \in Keys, ScheduleFails(w, key)
      PROVE Typed'
  <2>1. spoiled' \in SUBSET Slots
    BY <1>4, KeyParts DEF ScheduleFails
  <2> QED
    BY <1>4, <2>1 DEF ScheduleFails, Fault
<1> QED
  BY <1>1, <1>2, <1>3, <1>4

\* Taking a row of the batch.
LEMMA TakenOne ==
  ASSUME Typed, NEW t \in Ticks, NEW key \in Keys, Take(t, key)
  PROVE /\ flight[t] = Null
        /\ batch[t][key] \in 0..(MaxAttempts - 1)
        /\ batch' \in [Ticks -> [Keys -> (0..(MaxAttempts - 1)) \union {Null}]]
        /\ batch'[t][key] = Null
        /\ \A u \in Ticks, other \in Keys :
             u # t \/ other # key => batch'[u][other] = batch[u][other]
  BY DEF Take, Typed, TypeOK

\* The row that a send leaves behind.
LEMMA AnsweredOne ==
  ASSUME Typed, NEW t \in Ticks, NEW key \in Keys, NEW a \in Answer,
         Take(t, key), Answered(t, key, a)
  PROVE /\ flight' \in [Ticks -> [key : Keys, row : Row] \union {Null}]
        /\ flight'[t] # Null /\ flight'[t].key = key
        /\ flight'[t].row.is # "none"
        /\ flight'[t].row.is = "pending" => flight'[t].row.tried < MaxAttempts
        /\ a = "ok" => flight'[t].row.is = "sent"
        /\ \A u \in Ticks : u # t => flight'[u] = flight[u]
<1> USE RemindersAssumption DEF Answer
<1> DEFINE n == batch[t][key] + 1
           r == Outcome(n, a)
<1>1. n \in 1..MaxAttempts
  BY TakenOne
<1>2. r \in Row /\ r.is # "none" /\ (r.is = "pending" => r.tried < MaxAttempts)
  BY <1>1 DEF Outcome, Row
<1>3. a = "ok" => r.is = "sent"
  BY DEF Outcome
<1>4. flight' = [flight EXCEPT ![t] = [key |-> key, row |-> r]]
  BY DEF Answered
<1> HIDE DEF r
<1>5. [key |-> key, row |-> r] \in [key : Keys, row : Row] /\ [key |-> key, row |-> r] # Null
  BY <1>2
<1> QED
  BY <1>2, <1>3, <1>4, <1>5 DEF Typed, TypeOK

LEMMA DrainTyped ==
  ASSUME Typed, NEW t \in Ticks, Draining(t)
  PROVE Typed'
<1> USE RemindersAssumption DEF Typed, diary, drains
<1>1. CASE Tick(t)
  <2>1. PICK X \in SUBSET Overdue, B \in SUBSET Due :
          /\ EndRows(X)
          /\ batch' = [batch EXCEPT ![t] = [key \in Keys |-> IF key \in B THEN row[key].tried ELSE Null]]
          /\ doubtful' = doubtful \union {key \in B : \E u \in Ticks : Holds(u, key)}
    BY <1>1 DEF Tick
  <2>2. \A key \in B : key \in Keys /\ row[key].tried \in 0..(MaxAttempts - 1)
    BY DEF Due, Budgeted, TypeOK, Row
  <2>3. batch' \in [Ticks -> [Keys -> (0..(MaxAttempts - 1)) \union {Null}]]
    BY <2>1, <2>2 DEF TypeOK
  <2>4. doubtful' \in SUBSET Keys
    BY <2>1, <2>2 DEF TypeOK
  <2>5. row' \in [Keys -> Row] /\ Budgeted'
    BY <1>1, <2>1, EndedRows DEF Budgeted, Tick
  <2> QED
    BY <1>1, <2>3, <2>4, <2>5 DEF Tick, TypeOK
<1>2. CASE Record(t)
  <2>1. flight[t] \in [key : Keys, row : Row] /\ flight[t] # Null
    BY <1>2 DEF Record, TypeOK
  <2>2. row' \in [Keys -> Row] /\ flight' \in [Ticks -> [key : Keys, row : Row] \union {Null}]
    BY <1>2, <2>1 DEF Record, TypeOK
  <2>3. Budgeted'
    BY <1>2, <2>1 DEF Record, TypeOK, Budgeted
  <2> QED
    BY <1>2, <2>2, <2>3 DEF Record, TypeOK
<1>3. CASE TickDies(t)
  <2>1. doubtful' \in SUBSET Keys
    BY <1>3 DEF TickDies, TypeOK
  <2>2. Budgeted'
    BY <1>3 DEF TickDies, TypeOK, Budgeted
  <2> QED
    BY <1>3, <2>1, <2>2 DEF TickDies, TypeOK, Fault
<1>4. ASSUME NEW key \in Keys, Defer(t, key)
      PROVE Typed'
  BY <1>4, TakenOne DEF Defer, TypeOK, Budgeted
<1>5. ASSUME NEW key \in Keys, TooLate(t, key)
      PROVE Typed'
  <2>1. Take(t, key) /\ Answered(t, key, "refused") /\ "refused" \in Answer
    BY <1>5 DEF TooLate, Answer
  <2>2. Budgeted'
    BY <1>5, <2>1, AnsweredOne DEF TooLate, Budgeted
  <2> QED
    BY <1>5, <2>1, <2>2, TakenOne, AnsweredOne DEF TooLate, TypeOK
<1>6. ASSUME NEW key \in Keys, NEW a \in Answer, Send(t, key, a)
      PROVE Typed'
  <2>1. Take(t, key) /\ Answered(t, key, a)
    BY <1>6 DEF Send
  <2>2. Budgeted'
    BY <1>6, <2>1, AnsweredOne DEF Send, Budgeted
  <2>3. faults' \in 0..MaxFaults /\ reached' \in SUBSET Keys /\ doubtful' \in SUBSET Keys
    BY <1>6 DEF Send, Fault, TypeOK
  <2> QED
    BY <1>6, <2>1, <2>2, <2>3, TakenOne, AnsweredOne DEF Send, TypeOK
<1> QED
  BY <1>1, <1>2, <1>3, <1>4, <1>5, <1>6 DEF Draining

-----------------------------------------------------------------------------
(* One lemma per kind of action *)

\* Who holds the slot is no part of the invariant.
LEMMA DiaryKeeps ==
  ASSUME Inv, NEW s \in Slots,
         Occupy(s) \/ Vacate(s) \/ Remove(s) \/ Forget(s) \/ Cancel(s) \/ HaltFails(s)
  PROVE Inv'
<1>1. Typed'
  BY DiaryTyped DEF Inv
<1>2. UNCHANGED <<clock, row, agenda, batch, flight, reached, spoiled, doubtful>>
  BY DEF Occupy, Vacate, Remove, Forget, Cancel, HaltFails, Becomes, drains
<1>3. HeldIsDue' /\ NotEarly' /\ WholeAgenda' /\ Full'
  BY <1>2 DEF Inv, HeldIsDue, Holds, NotEarly, WholeAgenda, Full, Queued, Coming
<1>4. OneHolder' /\ TakenIsOver' /\ SentOnce'
  BY <1>2 DEF Inv, OneHolder, Holds, TakenIsOver, SentOnce
<1> QED
  BY <1>1, <1>3, <1>4 DEF Inv

\* An instant passes: less lies ahead, and more is due.
LEMMA PassKeeps ==
  ASSUME Inv, NEW s \in Slots, Pass(s)
  PROVE Inv'
<1>1. Typed'
  BY DiaryTyped DEF Inv
<1>2. UNCHANGED <<row, agenda, batch, flight, reached, spoiled, doubtful>>
  BY DEF Pass, drains
<1>3. \A i \in Slots : clock[i] \in Nat /\ clock'[i] \in Nat /\ clock'[i] >= clock[i]
  BY RemindersAssumption DEF Pass, Inv, Typed, TypeOK
<1>4. HeldIsDue'
  <2> SUFFICES ASSUME NEW t \in Ticks, NEW key \in Keys, Holds(t, key)'
               PROVE row'[key].is # "none" /\ key[2] <= clock'[key[1]]
      BY DEF HeldIsDue
  <2>1. row[key].is # "none" /\ key[2] <= clock[key[1]]
    BY <1>2 DEF Inv, HeldIsDue, Holds
  <2> QED
    BY <2>1, <1>2, <1>3, KeyParts DEF Stages
<1>5. \A i \in Slots, k \in Stages : k > clock'[i] => k > clock[i]
  BY <1>3, RemindersAssumption DEF Stages
<1>6. NotEarly' /\ WholeAgenda' /\ Full'
  BY <1>2, <1>5 DEF Inv, NotEarly, WholeAgenda, Full, Queued, Coming
<1>7. OneHolder' /\ TakenIsOver' /\ SentOnce'
  BY <1>2 DEF Inv, OneHolder, Holds, TakenIsOver, SentOnce
<1> QED
  BY <1>1, <1>4, <1>6, <1>7 DEF Inv

\* The reminders that wait are ended: the slot is spoiled, unless there were none.
LEMMA StandDownKeeps ==
  ASSUME Inv, NEW s \in Slots, Reject(s) \/ Halt(s)
  PROVE Inv'
<1>1. Typed' /\ EndRows(Waiting(s))
  BY StandDownTyped DEF Inv, Reject, Halt, StandDown
<1>2. UNCHANGED <<clock, agenda, batch, flight, reached, doubtful>>
  BY DEF Reject, Halt, Becomes, drains
<1>3. spoiled \subseteq spoiled' /\ (Waiting(s) # {} => s \in spoiled')
  BY DEF Reject, Halt, StandDown
<1>4. \A i \in Slots \ spoiled', k \in Stages : row'[<<i, k>>].is = row[<<i, k>>].is
  <2> SUFFICES ASSUME NEW i \in Slots \ spoiled', NEW k \in Stages
               PROVE row'[<<i, k>>].is = row[<<i, k>>].is
      OBVIOUS
  <2>1. <<i, k>> \in Keys /\ <<i, k>> \notin Waiting(s)
    BY <1>3 DEF Keys, Waiting
  <2> QED
    BY <2>1, <1>1, EndedRows DEF Inv
<1>5. \A key \in Keys : /\ row[key].is # "none" => row'[key].is # "none"
                        /\ row[key].is # "pending" => row'[key].is = row[key].is
  BY <1>1, EndedRows DEF Inv, Waiting
<1>6. HeldIsDue'
  BY <1>2, <1>5 DEF Inv, HeldIsDue, Holds
<1>7. NotEarly' /\ WholeAgenda' /\ Full'
  <2>1. NotEarly'
    BY <1>2, <1>3, <1>4 DEF Inv, NotEarly
  <2>2. WholeAgenda'
    BY <1>2, <1>3, <1>4 DEF Inv, WholeAgenda
  <2>3. \A i \in Slots \ spoiled' : /\ Queued(i)' <=> Queued(i)
                                   /\ \A k \in Stages : Coming(i, k)' <=> Coming(i, k)
    BY <1>2, <1>4 DEF Queued, Coming
  <2>4. Full'
    BY <1>2, <1>3, <2>3 DEF Inv, Full
  <2> QED
    BY <2>1, <2>2, <2>4
<1>8. OneHolder' /\ SentOnce'
  BY <1>2 DEF Inv, OneHolder, Holds, SentOnce
<1>9. TakenIsOver'
  <2> SUFFICES ASSUME NEW key \in reached' \ doubtful' PROVE
        /\ row'[key].is \in {"sent", "dead"} \/ \E t \in Ticks : Holds(t, key)'
        /\ \A t \in Ticks : flight'[t] # Null /\ flight'[t].key = key => flight'[t].row.is = "sent"
      BY DEF TakenIsOver
  <2>1. key \in Keys /\ key \in reached \ doubtful
    BY <1>2 DEF Inv, Typed, TypeOK
  <2>2. \A t \in Ticks : Holds(t, key)' <=> Holds(t, key)
    BY <1>2 DEF Holds
  <2>3. row[key].is \in {"sent", "dead"} => row'[key].is = row[key].is
    BY <2>1, <1>5
  <2> QED
    BY <2>1, <2>2, <2>3, <1>2 DEF Inv, TakenIsOver
<1> QED
  BY <1>1, <1>6, <1>7, <1>8, <1>9 DEF Inv

\* The drains are no part of a sweep: what it does to a row is to queue it.
LEMMA SweepLeavesDrains ==
  ASSUME Inv, UNCHANGED <<clock, batch, flight, reached, doubtful>>,
         \A key \in Keys : row[key].is # "none" => row'[key] = row[key]
  PROVE HeldIsDue' /\ OneHolder' /\ TakenIsOver' /\ SentOnce'
<1>1. \A t \in Ticks, key \in Keys : Holds(t, key)' <=> Holds(t, key)
  BY DEF Holds
<1>2. HeldIsDue'
  BY <1>1 DEF Inv, HeldIsDue
<1>3. OneHolder' /\ SentOnce'
  BY <1>1 DEF Inv, OneHolder, SentOnce
<1>4. TakenIsOver'
  <2> SUFFICES ASSUME NEW key \in reached' \ doubtful' PROVE
        /\ row'[key].is \in {"sent", "dead"} \/ \E t \in Ticks : Holds(t, key)'
        /\ \A t \in Ticks : flight'[t] # Null /\ flight'[t].key = key => flight'[t].row.is = "sent"
      BY DEF TakenIsOver
  <2>1. key \in Keys /\ key \in reached \ doubtful
    BY DEF Inv, Typed, TypeOK
  <2>2. row[key].is \in {"sent", "dead"} => row'[key] = row[key]
    BY <2>1
  <2> QED
    BY <2>1, <2>2, <1>1 DEF Inv, TakenIsOver
<1> QED
  BY <1>2, <1>3, <1>4

\* The select: a slot is taken with every stage ahead of it.
LEMMA SweepKeeps ==
  ASSUME Inv, NEW w \in Sweepers, Sweep(w)
  PROVE Inv'
<1>1. Typed'
  BY SweepTyped DEF Inv
<1>2. UNCHANGED <<clock, row, batch, flight, reached, spoiled, doubtful>>
  BY DEF Sweep, diary, drains
<1>3. HeldIsDue' /\ OneHolder' /\ TakenIsOver' /\ SentOnce'
  BY <1>2, SweepLeavesDrains
<1>4. PICK S \in SUBSET Slots : agenda' = [agenda EXCEPT ![w] = UNION {Ahead(s) : s \in S}]
  BY DEF Sweep
<1>5. \A v \in Sweepers : agenda[v] \subseteq agenda'[v]
  BY <1>4 DEF Sweep, Inv, Typed, TypeOK
<1>6. \A s \in Slots, k \in Stages :
        <<s, k>> \in agenda'[w] <=> s \in S /\ k > clock[s]
  BY <1>4 DEF Ahead, Inv, Typed, TypeOK
<1>7. WholeAgenda'
  BY <1>2, <1>4, <1>6 DEF Inv, WholeAgenda
<1>8. NotEarly'
  BY <1>2 DEF Inv, NotEarly
<1>9. Full'
  BY <1>2, <1>5 DEF Inv, Full, Queued, Coming
<1> QED
  BY <1>1, <1>3, <1>7, <1>8, <1>9 DEF Inv

\* A stage is queued: the first of a slot finds the others still to be inserted.
LEMMA ScheduleKeeps ==
  ASSUME Inv, NEW w \in Sweepers, NEW key \in Keys, Schedule(w, key)
  PROVE Inv'
<1>1. Typed'
  BY SweepTyped DEF Inv
<1>2. UNCHANGED <<clock, batch, flight, reached, spoiled, doubtful>> /\ key \in agenda[w]
  BY DEF Schedule, diary, drains, NextUp
<1>3. /\ \A other \in Keys : row[other].is # "none" => row'[other] = row[other]
      /\ \A other \in Keys : other # key => row'[other] = row[other]
      /\ row[key].is = "none" => row'[key].is = "pending"
  BY DEF Schedule, Insert, Fresh, Inv, Typed, TypeOK
<1>4. HeldIsDue' /\ OneHolder' /\ TakenIsOver' /\ SentOnce'
  BY <1>2, <1>3, SweepLeavesDrains
<1>5. /\ agenda'[w] = agenda[w] \ {key}
      /\ \A v \in Sweepers \ {w} : agenda'[v] = agenda[v]
  BY DEF Schedule, Inv, Typed, TypeOK
<1>6. \A s \in Slots, k \in Stages : <<s, k>> \in Keys
  BY DEF Keys
<1>7. NotEarly'
  BY <1>2, <1>3, <1>6 DEF Inv, NotEarly
<1>8. WholeAgenda'
  BY <1>2, <1>3, <1>5, <1>6 DEF Inv, WholeAgenda
<1>9. Full'
  <2> SUFFICES ASSUME NEW s \in Slots \ spoiled, Queued(s)', NEW k \in Stages, k > clock[s]
               PROVE Coming(s, k)'
      BY <1>2 DEF Full
  <2>1. CASE <<s, k>> = key
    BY <2>1, <1>3, <1>6, <1>7, <1>2 DEF Coming, Inv, NotEarly
  <2>2. CASE <<s, k>> # key /\ Queued(s)
    <3>1. Coming(s, k)
      BY <2>2 DEF Inv, Full
    <3> QED
      BY <3>1, <2>2, <1>3, <1>5, <1>6 DEF Coming
  <2>3. CASE <<s, k>> # key /\ ~Queued(s)
    <3>1. PICK j \in Stages : <<s, j>> = key
      BY <2>3, <1>3, <1>6 DEF Queued
    <3>2. <<s, k>> \in agenda[w]
      BY <3>1, <2>3, <1>2 DEF Queued, Inv, WholeAgenda
    <3> QED
      BY <3>2, <2>3, <1>5 DEF Coming
  <2> QED
    BY <2>1, <2>2, <2>3
<1> QED
  BY <1>1, <1>4, <1>7, <1>8, <1>9 DEF Inv

\* Stages are given up: only where the slot is spoiled, or nothing of it is queued.
LEMMA GivenUpKeeps ==
  ASSUME Inv, NEW w \in Sweepers,
         SweepDies(w) \/ \E key \in Keys : ScheduleFails(w, key)
  PROVE Inv'
<1>1. Typed'
  BY SweepTyped DEF Inv
<1>2. UNCHANGED <<clock, row, batch, flight, reached, doubtful>> /\ spoiled \subseteq spoiled'
  BY DEF SweepDies, ScheduleFails, diary, drains
<1>3. HeldIsDue' /\ OneHolder' /\ TakenIsOver' /\ SentOnce'
  BY <1>2, SweepLeavesDrains
<1>4. NotEarly'
  BY <1>2 DEF Inv, NotEarly
<1>5. \A v \in Sweepers \ {w} : agenda'[v] = agenda[v]
  BY DEF SweepDies, ScheduleFails, Inv, Typed, TypeOK
<1>6. CASE SweepDies(w)
  <2>1. agenda'[w] = {}
    BY <1>6 DEF SweepDies, Inv, Typed, TypeOK
  <2>2. \A s \in Slots \ spoiled', k \in Stages : Queued(s) => <<s, k>> \notin agenda[w]
    BY <1>6 DEF SweepDies
  <2>3. WholeAgenda'
    BY <1>2, <1>5, <2>1 DEF Inv, WholeAgenda
  <2>4. Full'
    BY <1>2, <1>5, <2>2 DEF Inv, Full, Queued, Coming
  <2> QED
    BY <1>1, <1>3, <1>4, <2>3, <2>4 DEF Inv
<1>7. ASSUME NEW key \in Keys, ScheduleFails(w, key)
      PROVE Inv'
  <2>1. agenda'[w] = agenda[w] \ {key} /\ key[1] \in spoiled'
    BY <1>7 DEF ScheduleFails, Inv, Typed, TypeOK
  <2>2. \A s \in Slots \ spoiled', k \in Stages : <<s, k>> \in agenda'[w] <=> <<s, k>> \in agenda[w]
    BY <2>1
  <2>3. WholeAgenda'
    BY <1>2, <1>5, <2>2 DEF Inv, WholeAgenda
  <2>4. Full'
    BY <1>2, <1>5, <2>2 DEF Inv, Full, Queued, Coming
  <2> QED
    BY <1>1, <1>3, <1>4, <2>3, <2>4 DEF Inv
<1> QED
  BY <1>6, <1>7

\* The sweeps are no part of a drain: it writes to no row whose instant is still ahead.
LEMMA DrainLeavesAhead ==
  ASSUME Inv, UNCHANGED <<clock, agenda, spoiled>>,
         \A key \in Keys : /\ key[2] > clock[key[1]] => row'[key] = row[key]
                           /\ row[key].is = "none" <=> row'[key].is = "none"
  PROVE NotEarly' /\ WholeAgenda' /\ Full'
<1>1. \A s \in Slots, k \in Stages :
        /\ k > clock[s] => row'[<<s, k>>] = row[<<s, k>>]
        /\ row[<<s, k>>].is = "none" <=> row'[<<s, k>>].is = "none"
  BY DEF Keys
<1>2. NotEarly'
  BY <1>1 DEF Inv, NotEarly
<1>3. WholeAgenda'
  BY <1>1 DEF Inv, WholeAgenda
<1>4. Full'
  BY <1>1 DEF Inv, Full, Queued, Coming
<1> QED
  BY <1>2, <1>3, <1>4

\* A tick reads: what another holds as well is in doubt from now on.
LEMMA TickKeeps ==
  ASSUME Inv, NEW t \in Ticks, Tick(t)
  PROVE Inv'
<1>1. Typed'
  BY DrainTyped DEF Inv, Draining
<1>2. UNCHANGED <<clock, agenda, flight, reached, spoiled>> /\ ~Open(t)
  BY DEF Tick, diary
<1>3. PICK X \in SUBSET Overdue, B \in SUBSET Due :
        /\ EndRows(X) /\ X \intersect B = {}
        /\ batch' = [batch EXCEPT ![t] = [key \in Keys |-> IF key \in B THEN row[key].tried ELSE Null]]
        /\ doubtful' = doubtful \union {key \in B : \E u \in Ticks : Holds(u, key)}
  BY DEF Tick
<1>4. \A key \in Keys : row'[key].is = IF key \in X THEN "dead" ELSE row[key].is
  BY <1>3, EndedRows DEF Inv
<1>5. \A key \in X : key[2] <= clock[key[1]] /\ row[key].is = "pending"
  BY RemindersAssumption, KeyParts DEF Overdue, Begun, Stages, Inv, Typed, TypeOK
<1>6. NotEarly' /\ WholeAgenda' /\ Full'
  <2>1. \A key \in Keys : key[2] > clock[key[1]] => row'[key] = row[key]
    BY <1>3, <1>5, RemindersAssumption, KeyParts DEF EndRows, Stages, Inv, Typed, TypeOK
  <2>2. \A key \in Keys : row[key].is = "none" <=> row'[key].is = "none"
    BY <1>4, <1>5
  <2> QED
    BY <1>2, <2>1, <2>2, DrainLeavesAhead
<1>7. flight[t] = Null /\ \A key \in Keys : ~Holds(t, key)
  BY <1>2 DEF Open, Holds, Inv, Typed, TypeOK
<1>8. /\ \A key \in B : key \in Keys /\ row[key].is = "pending" /\ key[2] <= clock[key[1]]
      /\ \A key \in Keys : batch'[t][key] # Null => key \in B
      /\ \A u \in Ticks \ {t} : batch'[u] = batch[u]
  BY <1>3 DEF Due, Inv, Typed, TypeOK
<1>9. /\ \A key \in Keys : Holds(t, key)' => key \in B
      /\ \A u \in Ticks \ {t}, key \in Keys : Holds(u, key)' <=> Holds(u, key)
  BY <1>2, <1>7, <1>8 DEF Holds
<1>10. HeldIsDue'
  BY <1>2, <1>4, <1>8, <1>9 DEF Inv, HeldIsDue
<1>11. \A key \in Keys \ doubtful' : /\ key \notin doubtful
                                     /\ key \in B => \A u \in Ticks : ~Holds(u, key)
  BY <1>3
<1>12. OneHolder'
  BY <1>2, <1>7, <1>8, <1>9, <1>11 DEF Inv, OneHolder
<1>13. \A key \in reached \ doubtful' : key \in Keys \ doubtful' /\ key \notin B
  BY <1>8, <1>11 DEF Inv, TakenIsOver, Typed, TypeOK
<1>14. TakenIsOver'
  <2> SUFFICES ASSUME NEW key \in reached \ doubtful' PROVE
        /\ row'[key].is \in {"sent", "dead"} \/ \E u \in Ticks : Holds(u, key)'
        /\ \A u \in Ticks : flight[u] # Null /\ flight[u].key = key => flight[u].row.is = "sent"
      BY <1>2 DEF TakenIsOver
  <2>1. /\ row[key].is \in {"sent", "dead"} \/ \E u \in Ticks \ {t} : Holds(u, key)
        /\ \A u \in Ticks : flight[u] # Null /\ flight[u].key = key => flight[u].row.is = "sent"
    BY <1>7, <1>11, <1>13 DEF Inv, TakenIsOver
  <2> QED
    BY <2>1, <1>4, <1>9, <1>13
<1>15. SentOnce'
  BY <1>2, <1>8, <1>11, <1>13 DEF Inv, SentOnce
<1> QED
  BY <1>1, <1>6, <1>10, <1>12, <1>14, <1>15 DEF Inv

\* A row leaves the batch and no message the tick: it may be read again.
LEMMA DeferKeeps ==
  ASSUME Inv, NEW t \in Ticks, NEW key \in Keys, Defer(t, key)
  PROVE Inv'
<1>1. Typed'
  BY DrainTyped DEF Inv, Draining
<1>2. UNCHANGED <<clock, row, agenda, flight, reached, spoiled, doubtful>> /\ Take(t, key)
  BY DEF Defer, diary
<1>3. NotEarly' /\ WholeAgenda' /\ Full'
  BY <1>2, DrainLeavesAhead
<1>4. batch[t][key] # Null /\ \A u \in Ticks, other \in Keys :
        /\ batch'[u][other] # Null => batch'[u][other] = batch[u][other]
        /\ other # key => batch'[u][other] = batch[u][other]
  BY <1>2, TakenOne, RemindersAssumption DEF Inv, Typed, TypeOK
<1>5. \A u \in Ticks, other \in Keys :
        /\ Holds(u, other)' => Holds(u, other)
        /\ other # key => (Holds(u, other)' <=> Holds(u, other))
  BY <1>2, <1>4 DEF Holds
<1>6. HeldIsDue'
  BY <1>2, <1>5 DEF Inv, HeldIsDue
<1>7. OneHolder'
  BY <1>2, <1>4, <1>5 DEF Inv, OneHolder
<1>8. SentOnce'
  BY <1>2, <1>4 DEF Inv, SentOnce, Typed, TypeOK
<1>9. key \notin reached \ doubtful
  BY <1>4 DEF Inv, SentOnce
<1>10. TakenIsOver'
  BY <1>2, <1>5, <1>9 DEF Inv, TakenIsOver, Typed, TypeOK
<1> QED
  BY <1>1, <1>3, <1>6, <1>7, <1>8, <1>10 DEF Inv

\* A row goes from the batch to the send, and is held throughout.
LEMMA TriedKeeps ==
  ASSUME Inv, NEW t \in Ticks, NEW key \in Keys, NEW a \in Answer,
         Take(t, key), Answered(t, key, a), Typed',
         UNCHANGED <<clock, row, agenda, spoiled>>,
         reached' = reached \/ (reached' = reached \union {key} /\ (a = "ok" \/ key \in doubtful')),
         doubtful \subseteq doubtful'
  PROVE Inv'
<1>1. NotEarly' /\ WholeAgenda' /\ Full'
  BY DrainLeavesAhead
<1>2. /\ flight[t] = Null /\ batch[t][key] # Null /\ batch'[t][key] = Null
      /\ \A u \in Ticks, other \in Keys : u # t \/ other # key => batch'[u][other] = batch[u][other]
  BY TakenOne, RemindersAssumption DEF Inv
<1>3. /\ flight'[t] # Null /\ flight'[t].key = key /\ (a = "ok" => flight'[t].row.is = "sent")
      /\ \A u \in Ticks : u # t => flight'[u] = flight[u]
  BY AnsweredOne DEF Inv
<1>4. \A u \in Ticks, other \in Keys : Holds(u, other)' <=> Holds(u, other)
  BY <1>2, <1>3 DEF Holds
<1>5. HeldIsDue'
  BY <1>4 DEF Inv, HeldIsDue
<1>6. key \notin doubtful => \A u \in Ticks : Holds(u, key) => u = t
  BY <1>2 DEF Inv, OneHolder, Holds
<1>7. OneHolder'
  BY <1>2, <1>3, <1>4 DEF Inv, OneHolder
<1>8. key \notin reached \ doubtful /\ (key \in reached' \ doubtful' => a = "ok")
  BY <1>2 DEF Inv, SentOnce
<1>9. SentOnce'
  <2> SUFFICES ASSUME NEW other \in reached' \ doubtful', NEW u \in Ticks
               PROVE batch'[u][other] = Null
      BY DEF SentOnce
  <2>1. CASE other = key
    BY <2>1, <1>2, <1>6 DEF Holds
  <2>2. CASE other # key
    BY <2>2, <1>2 DEF Inv, SentOnce, Typed, TypeOK
  <2> QED
    BY <2>1, <2>2
<1>10. TakenIsOver'
  <2> SUFFICES ASSUME NEW other \in reached' \ doubtful' PROVE
        /\ row[other].is \in {"sent", "dead"} \/ \E u \in Ticks : Holds(u, other)'
        /\ \A u \in Ticks : flight'[u] # Null /\ flight'[u].key = other => flight'[u].row.is = "sent"
      BY DEF TakenIsOver
  <2>1. CASE other = key
    <3>1. Holds(t, other)' /\ \A u \in Ticks \ {t} : ~Holds(u, other)'
      BY <2>1, <1>3, <1>4, <1>6 DEF Holds
    <3>2. flight'[t].row.is = "sent"
      BY <2>1, <1>3, <1>8
    <3> QED
      BY <3>1, <3>2 DEF Holds
  <2>2. CASE other # key
    <3>1. other \in reached \ doubtful /\ other \in Keys
      BY <2>2 DEF Inv, Typed, TypeOK
    <3> QED
      BY <2>2, <3>1, <1>3, <1>4 DEF Inv, TakenIsOver
  <2> QED
    BY <2>1, <2>2
<1> QED
  BY <1>1, <1>5, <1>7, <1>9, <1>10 DEF Inv

LEMMA SendKeeps ==
  ASSUME Inv, NEW t \in Ticks, NEW key \in Keys,
         TooLate(t, key) \/ \E a \in Answer : Send(t, key, a)
  PROVE Inv'
<1>1. Typed'
  BY DrainTyped DEF Inv, Draining
<1>2. CASE TooLate(t, key)
  <2>1. /\ Take(t, key) /\ Answered(t, key, "refused") /\ "refused" \in Answer
        /\ UNCHANGED <<clock, row, agenda, spoiled, reached, doubtful>>
    BY <1>2 DEF TooLate, diary, Answer
  <2> QED
    BY <2>1, <1>1, TriedKeeps
<1>3. ASSUME NEW a \in Answer, Send(t, key, a)
      PROVE Inv'
  <2>1. /\ Take(t, key) /\ Answered(t, key, a)
        /\ UNCHANGED <<clock, row, agenda, spoiled>> /\ doubtful \subseteq doubtful'
        /\ reached' = reached \/ (reached' = reached \union {key} /\ (a = "ok" \/ key \in doubtful'))
    BY <1>3 DEF Send, diary
  <2> QED
    BY <2>1, <1>1, TriedKeeps
<1> QED
  BY <1>2, <1>3

\* What was sent is written over whatever became of the row.
LEMMA RecordKeeps ==
  ASSUME Inv, NEW t \in Ticks, Record(t)
  PROVE Inv'
<1>1. Typed'
  BY DrainTyped DEF Inv, Draining
<1>2. UNCHANGED <<clock, agenda, batch, reached, spoiled, doubtful>>
  BY DEF Record, diary
<1>3. PICK key \in Keys : flight[t] # Null /\ flight[t].key = key
  BY DEF Record, Inv, Typed, TypeOK
<1>4. Holds(t, key) /\ row[key].is # "none" /\ key[2] <= clock[key[1]] /\ flight[t].row.is # "none"
  BY <1>3 DEF Holds, Inv, HeldIsDue, Typed, Budgeted
<1>5. /\ row'[key] = flight[t].row
      /\ \A other \in Keys \ {key} : row'[other] = row[other]
      /\ flight'[t] = Null
      /\ \A u \in Ticks \ {t} : flight'[u] = flight[u]
  BY <1>3 DEF Record, Inv, Typed, TypeOK
<1>6. NotEarly' /\ WholeAgenda' /\ Full'
  <2>1. ~(key[2] > clock[key[1]])
    BY <1>4, RemindersAssumption, KeyParts DEF Stages, Inv, Typed, TypeOK
  <2> QED
    BY <2>1, <1>2, <1>4, <1>5, DrainLeavesAhead
<1>7. \A u \in Ticks, other \in Keys :
        /\ Holds(u, other)' => Holds(u, other)
        /\ other # key => (Holds(u, other)' <=> Holds(u, other))
  BY <1>2, <1>3, <1>5 DEF Holds
<1>8. HeldIsDue'
  BY <1>2, <1>4, <1>5, <1>7 DEF Inv, HeldIsDue
<1>9. OneHolder'
  BY <1>2, <1>5, <1>7 DEF Inv, OneHolder
<1>10. SentOnce'
  BY <1>2 DEF Inv, SentOnce
<1>11. TakenIsOver'
  <2> SUFFICES ASSUME NEW other \in reached \ doubtful PROVE
        /\ row'[other].is \in {"sent", "dead"} \/ \E u \in Ticks : Holds(u, other)'
        /\ \A u \in Ticks : flight'[u] # Null /\ flight'[u].key = other => flight'[u].row.is = "sent"
      BY <1>2 DEF TakenIsOver
  <2>1. other \in Keys
    BY DEF Inv, Typed, TypeOK
  <2>2. \A u \in Ticks : flight[u] # Null /\ flight[u].key = other => flight[u].row.is = "sent"
    BY DEF Inv, TakenIsOver
  <2>3. CASE other = key
    BY <2>2, <2>3, <1>3, <1>5
  <2>4. CASE other # key
    BY <2>1, <2>2, <2>4, <1>5, <1>7 DEF Inv, TakenIsOver
  <2> QED
    BY <2>3, <2>4
<1> QED
  BY <1>1, <1>6, <1>8, <1>9, <1>10, <1>11 DEF Inv

\* The worker dies: what it had sent and not recorded is in doubt.
LEMMA TickDiesKeeps ==
  ASSUME Inv, NEW t \in Ticks, TickDies(t)
  PROVE Inv'
<1>1. Typed'
  BY DrainTyped DEF Inv, Draining
<1>2. UNCHANGED <<clock, row, agenda, reached, spoiled>> /\ doubtful \subseteq doubtful'
  BY DEF TickDies, diary
<1>3. NotEarly' /\ WholeAgenda' /\ Full'
  BY <1>2, DrainLeavesAhead
<1>4. /\ flight'[t] = Null /\ \A key \in Keys : batch'[t][key] = Null
      /\ \A u \in Ticks \ {t} : flight'[u] = flight[u] /\ batch'[u] = batch[u]
      /\ flight[t] # Null => flight[t].key \in doubtful'
  BY DEF TickDies, Inv, Typed, TypeOK
<1>5. /\ \A key \in Keys : ~Holds(t, key)'
      /\ \A u \in Ticks \ {t}, key \in Keys : Holds(u, key)' <=> Holds(u, key)
  BY <1>4 DEF Holds
<1>6. HeldIsDue'
  BY <1>2, <1>5 DEF Inv, HeldIsDue
<1>7. OneHolder'
  BY <1>2, <1>4, <1>5 DEF Inv, OneHolder
<1>8. SentOnce'
  BY <1>2, <1>4 DEF Inv, SentOnce, Typed, TypeOK
<1>9. \A key \in reached \ doubtful' : key \in Keys /\ key \in reached \ doubtful /\ ~Holds(t, key)
  BY <1>2, <1>4 DEF Holds, Inv, SentOnce, Typed, TypeOK
<1>10. TakenIsOver'
  BY <1>2, <1>4, <1>5, <1>9 DEF Inv, TakenIsOver
<1> QED
  BY <1>1, <1>3, <1>6, <1>7, <1>8, <1>10 DEF Inv

-----------------------------------------------------------------------------
(* Theorems *)

LEMMA StepKeeps ==
  ASSUME Inv, [Next]_vars
  PROVE Inv'
<1>1. CASE UNCHANGED vars
  <2>1. UNCHANGED <<slot, clock, halting, row, agenda, batch, flight, reached, spoiled, doubtful, faults>>
    BY <1>1 DEF vars, diary, drains
  <2>2. Typed'
    BY <2>1 DEF Inv, Typed, TypeOK, Budgeted
  <2>3. HeldIsDue' /\ NotEarly' /\ WholeAgenda' /\ Full'
    BY <2>1 DEF Inv, HeldIsDue, Holds, NotEarly, WholeAgenda, Full, Queued, Coming
  <2>4. OneHolder' /\ TakenIsOver' /\ SentOnce'
    BY <2>1 DEF Inv, OneHolder, Holds, TakenIsOver, SentOnce
  <2> QED
    BY <2>2, <2>3, <2>4 DEF Inv
<1>2. ASSUME NEW s \in Slots, Diary(s)
      PROVE Inv'
  BY <1>2, DiaryKeeps, PassKeeps, StandDownKeeps DEF Diary
<1>3. ASSUME NEW w \in Sweepers, Sweeping(w)
      PROVE Inv'
  BY <1>3, SweepKeeps, ScheduleKeeps, GivenUpKeeps DEF Sweeping
<1>4. ASSUME NEW t \in Ticks, Draining(t)
      PROVE Inv'
  BY <1>4, TickKeeps, DeferKeeps, SendKeeps, RecordKeeps, TickDiesKeeps DEF Draining
<1> QED
  BY <1>1, <1>2, <1>3, <1>4 DEF Next

LEMMA Invariance == Spec => []Inv
<1> QED
  BY Start, StepKeeps, PTL DEF Spec

\* Every variable keeps its type: no row waits without an attempt left, so none is
\* tried more than BOOKING_NOTIFY_MAX_ATTEMPTS times (booking-notifications-outbox.ts:352-354).
THEOREM RemindersType == Spec => []TypeOK
<1>1. Inv => TypeOK
  BY DEF Inv, Typed
<1> QED
  BY <1>1, Invariance, PTL

\* A booked call that has a reminder has every one still ahead of it, waiting or
\* about to be queued, whoever holds its slot by now: the sweep asks only whether
\* there is any (call-reminders.ts:89-93).
THEOREM CallsAreCovered == Spec => []Covered
<1>1. Inv => Covered
  BY DEF Inv, Full, Covered
<1> QED
  BY <1>1, Invariance, PTL

\* A reminder that the provider has taken is not read to be sent again, unless two
\* drains held it at once, its answer was lost or its drain died
\* (booking-notifications-outbox.ts:231-238, 356-364).
THEOREM RemindersSentOnce == Spec => []SentOnce
<1>1. Inv => SentOnce
  BY DEF Inv
<1> QED
  BY <1>1, Invariance, PTL
===============================================================================
