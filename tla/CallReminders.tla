---------------------------- MODULE CallReminders ----------------------------
(***************************************************************************)
(* The reminders of a booked call (worker/pipeline/call-reminders.ts and   *)
(* booking-notifications-outbox.ts): a sweep notices a booking once and    *)
(* queues a row for every stage still ahead of it, a drain sends what has  *)
(* come due, and the diary changes hands underneath both.                  *)
(*                                                                         *)
(* A row belongs to a slot, not to a booking: it outlives the call it was  *)
(* queued for and serves whoever holds the slot when it comes due.  Time   *)
(* is the number of a slot's stages that have passed; a row that waits     *)
(* for a retry or for the morning may be due or not.  One channel is       *)
(* modelled; a second one has rows of its own, queued and sent alike.      *)
(***************************************************************************)
EXTENDS Naturals

CONSTANTS Slots,       \* rows of booking_slots
          Last,        \* reminders of a call, numbered in the order they come due
          Deferrable,  \* those that wait for the end of the quiet hours
          Sweepers,    \* sweeps that may be under way at once: the timer has no guard
          Ticks,       \* drains that may be under way at once: nor has this one
          MaxAttempts, \* BOOKING_NOTIFY_MAX_ATTEMPTS
          Null,
          MaxFaults    \* bound: crashes, database errors, lost answers

Stages == 1..Last
Keys   == Slots \X Stages
Row    == [is : {"none", "pending", "sent", "dead"}, tried : 0..MaxAttempts]

ASSUME RemindersAssumption ==
  /\ Last \in Nat \ {0}
  /\ Deferrable \subseteq Stages
  /\ MaxAttempts \in Nat \ {0}
  /\ MaxFaults \in Nat
  /\ Null \notin Nat \union [key : Keys, row : Row]

VARIABLES
  slot,      \* per slot: open, booked, unnamed (its lead is erased) or cancelled
  clock,     \* per slot: stages whose instant has passed; more than Last: it began
  halting,   \* cancelled slots whose reminders have still to be stood down
  row,       \* per key: the committed booking_notifications row
  agenda,    \* per sweep: the rows it has still to insert
  batch,     \* per tick and key: the attempts of a row it read and has still to try
  flight,    \* per tick: the row to write for the send it has just made, or Null
  reached,   \* keys the provider took
  spoiled, doubtful, \* slots and keys about which less is promised: see below
  faults

diary   == <<slot, clock, halting>>
drains  == <<batch, flight>>
vars    == <<diary, row, agenda, drains, reached, spoiled, doubtful, faults>>

Fault == faults < MaxFaults /\ faults' = faults + 1

-----------------------------------------------------------------------------
(* The diary *)

Becomes(s, state) ==
  /\ slot' = [slot EXCEPT ![s] = state]
  /\ UNCHANGED <<clock, agenda, drains, reached, doubtful, faults>>

\* bookSlot, or the claim of a move: never an hour that has begun.
Occupy(s) ==
  /\ slot[s] = "open" /\ clock[s] <= Last
  /\ Becomes(s, "booked")
  /\ UNCHANGED <<halting, row, spoiled>>

\* The release of a move: the reminders are left as they are.
Vacate(s) ==
  /\ slot[s] = "booked"
  /\ Becomes(s, "open")
  /\ UNCHANGED <<halting, row, spoiled>>

Waiting(s) == {key \in Keys : key[1] = s /\ row[key].is = "pending"}

EndRows(K) == row' = [key \in Keys |-> IF key \in K THEN [row[key] EXCEPT !.is = "dead"] ELSE row[key]]

\* The reminders still waiting are ended, and nothing will queue them again.
StandDown(s) ==
  /\ EndRows(Waiting(s))
  /\ spoiled' = IF Waiting(s) = {} THEN spoiled ELSE spoiled \union {s}

\* A lead is deleted, and its slots are freed by their ids, whatever they are by
\* now (CallDiary); the reminders are left as they are.
Remove(s) ==
  /\ Becomes(s, "open")
  /\ UNCHANGED <<halting, row, spoiled>>

\* A lead is turned down: its slots likewise, and in the same transaction the reminders.
Reject(s) ==
  /\ Becomes(s, "open")
  /\ StandDown(s)
  /\ UNCHANGED halting

\* The retention sweep deletes the lead; the foreign key blanks submission_id.
Forget(s) ==
  /\ slot[s] = "booked"
  /\ Becomes(s, "unnamed")
  /\ UNCHANGED <<halting, row, spoiled>>

\* The slot first, its reminders in a statement of their own.
Cancel(s) ==
  /\ slot[s] # "cancelled"
  /\ Becomes(s, "cancelled")
  /\ halting' = halting \union {s}
  /\ UNCHANGED <<row, spoiled>>

Halt(s) ==
  /\ s \in halting
  /\ halting' = halting \ {s}
  /\ StandDown(s)
  /\ UNCHANGED <<slot, clock, agenda, drains, reached, doubtful, faults>>

\* The failure is logged, or the API dies in between.
HaltFails(s) ==
  /\ s \in halting
  /\ Fault
  /\ halting' = halting \ {s}
  /\ UNCHANGED <<slot, clock, row, agenda, drains, reached, spoiled, doubtful>>

Pass(s) ==
  /\ clock[s] <= Last
  /\ clock' = [clock EXCEPT ![s] = @ + 1]
  /\ UNCHANGED <<slot, halting, row, agenda, drains, reached, spoiled, doubtful, faults>>

-----------------------------------------------------------------------------
(* sweepCallReminders *)

Queued(s) == \E k \in Stages : row[<<s, k>>].is # "none"

\* Mutant: the reminder that comes next is taken for one that has passed.
AheadButOne(s) == {<<s, k>> : k \in {i \in Stages : i > clock[s] + 1}}

\* Stages whose instant has passed are skipped, not queued.
Ahead(s) == {<<s, k>> : k \in {i \in Stages : i > clock[s]}}

\* The select: booked calls still to come with no reminder, in whatever state.
Sweep(w) ==
  /\ agenda[w] = {}
  /\ \E S \in SUBSET {s \in Slots : slot[s] = "booked" /\ ~Queued(s)} :
       agenda' = [agenda EXCEPT ![w] = UNION {Ahead(s) : s \in S}]
  /\ agenda'[w] # {}
  /\ UNCHANGED <<diary, row, drains, reached, spoiled, doubtful, faults>>

\* The stages of one slot are inserted in their order.
NextUp(w) == {key \in agenda[w] : \A k \in Stages : k < key[2] => <<key[1], k>> \notin agenda[w]}

Fresh == [is |-> "pending", tried |-> 0]

\* enqueueBookingNotification: ON CONFLICT DO NOTHING.
Insert(key) == row' = [row EXCEPT ![key] = IF @.is = "none" THEN Fresh ELSE @]

\* Whatever became of the slot since the select.
Schedule(w, key) ==
  /\ key \in NextUp(w)
  /\ Insert(key)
  /\ agenda' = [agenda EXCEPT ![w] = @ \ {key}]
  /\ UNCHANGED <<diary, drains, reached, spoiled, doubtful, faults>>

\* The insert fails; it is caught, and the sweep goes on to the next stage.
ScheduleFails(w, key) ==
  /\ key \in NextUp(w)
  /\ Fault
  /\ agenda'  = [agenda EXCEPT ![w] = @ \ {key}]
  /\ spoiled' = spoiled \union {key[1]}
  /\ UNCHANGED <<diary, row, drains, reached, doubtful>>

\* The worker dies.  A slot it had begun with is not selected again.
SweepDies(w) ==
  /\ agenda[w] # {}
  /\ Fault
  /\ agenda'  = [agenda EXCEPT ![w] = {}]
  /\ spoiled' = spoiled \union {s \in Slots : Queued(s) /\ \E k \in Stages : <<s, k>> \in agenda[w]}
  /\ UNCHANGED <<diary, row, drains, reached, doubtful>>

-----------------------------------------------------------------------------
(* drainBookingNotifications *)

Begun(s) == clock[s] > Last

\* A tick holds what it read and has not yet written back.
Holds(t, key) == batch[t][key] # Null \/ (flight[t] # Null /\ flight[t].key = key)
Open(t)       == \E key \in Keys : Holds(t, key)

\* Mutant: the status of a row is not asked.
DueInAnyStatus == {key \in Keys : /\ row[key].is \in {"pending", "sent"}
                                  /\ row[key].tried < MaxAttempts
                                  /\ key[2] <= clock[key[1]]
                                  /\ slot[key[1]] = "booked"}

\* What the join lets through: a lead is on the slot.
Due == {key \in Keys : /\ row[key].is = "pending"
                       /\ key[2] <= clock[key[1]]
                       /\ slot[key[1]] = "booked"}

\* Pending for days after its instant: only ever for a call that has begun, and
\* whoever is, or is not, on the slot.
Overdue == {key \in Keys : row[key].is = "pending" /\ Begun(key[1])}

\* Two statements, each by itself; the select takes the oldest hundred that are
\* due by the clock, and nothing is claimed.
Tick(t) ==
  /\ ~Open(t)
  /\ \E X \in SUBSET Overdue, B \in SUBSET Due :
       /\ X \intersect B = {} /\ X \union B # {}
       /\ EndRows(X)
       /\ batch' = [batch EXCEPT ![t] = [key \in Keys |-> IF key \in B THEN row[key].tried ELSE Null]]
       /\ doubtful' = doubtful \union {key \in B : \E u \in Ticks : Holds(u, key)}
  /\ UNCHANGED <<diary, agenda, flight, reached, spoiled, faults>>

\* The next row of the batch.
Take(t, key) == /\ flight[t] = Null /\ batch[t][key] # Null
                /\ batch' = [batch EXCEPT ![t][key] = Null]

\* Quiet hours: due again in the morning, and not counted as an attempt.
Defer(t, key) ==
  /\ key[2] \in Deferrable
  /\ Take(t, key)
  /\ UNCHANGED <<diary, row, agenda, flight, reached, spoiled, doubtful, faults>>

\* What the provider makes of a message: takes it; never will (or the template is
\* off, or there is no number); cannot now; takes it, and the answer is lost.
Answer == {"ok", "refused", "busy", "lost"}

\* Mutant: attempts do not run out.
OutcomeUnending(n, a) == [is |-> CASE a = "ok" -> "sent"
                                   [] a = "refused" -> "dead"
                                   [] OTHER -> "pending",
                          tried |-> n]

Outcome(n, a) == [is |-> CASE a = "ok" -> "sent"
                           [] a = "refused" \/ (a # "ok" /\ n >= MaxAttempts) -> "dead"
                           [] OTHER -> "pending",
                  tried |-> n]

Answered(t, key, a) ==
  flight' = [flight EXCEPT ![t] = [key |-> key, row |-> Outcome(batch[t][key] + 1, a)]]

\* The call has begun: the reminder is given up, unsent.
TooLate(t, key) ==
  /\ Begun(key[1])
  /\ Take(t, key)
  /\ Answered(t, key, "refused")
  /\ UNCHANGED <<diary, row, agenda, reached, spoiled, doubtful, faults>>

\* The provider is asked, and answers; the row is still to be written.
Send(t, key, a) ==
  /\ ~Begun(key[1])
  /\ Take(t, key)
  /\ Answered(t, key, a)
  /\ reached' = IF a \in {"ok", "lost"} THEN reached \union {key} ELSE reached
  /\ IF a = "lost" THEN Fault /\ doubtful' = doubtful \union {key}
                   ELSE UNCHANGED <<doubtful, faults>>
  /\ UNCHANGED <<diary, row, agenda, spoiled>>

\* By the id of the row, whatever has been written there since it was read.
Record(t) ==
  /\ flight[t] # Null
  /\ row'    = [row EXCEPT ![flight[t].key] = flight[t].row]
  /\ flight' = [flight EXCEPT ![t] = Null]
  /\ UNCHANGED <<diary, agenda, batch, reached, spoiled, doubtful, faults>>

\* The worker dies, or the row cannot be written: the rest of the batch is dropped.
TickDies(t) ==
  /\ Open(t)
  /\ Fault
  /\ batch'    = [batch EXCEPT ![t] = [key \in Keys |-> Null]]
  /\ flight'   = [flight EXCEPT ![t] = Null]
  /\ doubtful' = IF flight[t] = Null THEN doubtful ELSE doubtful \union {flight[t].key}
  /\ UNCHANGED <<diary, row, agenda, reached, spoiled>>

-----------------------------------------------------------------------------
Init ==
  /\ slot  = [s \in Slots |-> "open"]
  /\ clock = [s \in Slots |-> 0]
  /\ halting = {}
  /\ row   = [key \in Keys |-> [is |-> "none", tried |-> 0]]
  /\ agenda = [w \in Sweepers |-> {}]
  /\ batch  = [t \in Ticks |-> [key \in Keys |-> Null]]
  /\ flight = [t \in Ticks |-> Null]
  /\ reached = {}
  /\ spoiled = {} /\ doubtful = {}
  /\ faults = 0

Diary(s) == \/ Occupy(s) \/ Vacate(s) \/ Remove(s) \/ Reject(s) \/ Forget(s)
            \/ Cancel(s) \/ Halt(s) \/ HaltFails(s) \/ Pass(s)

Sweeping(w) == \/ Sweep(w) \/ SweepDies(w)
               \/ \E key \in Keys : Schedule(w, key) \/ ScheduleFails(w, key)

Draining(t) == \/ Tick(t) \/ Record(t) \/ TickDies(t)
               \/ \E key \in Keys : Defer(t, key) \/ TooLate(t, key)
               \/ \E key \in Keys, a \in Answer : Send(t, key, a)

Next == \/ \E s \in Slots : Diary(s)
        \/ \E w \in Sweepers : Sweeping(w)
        \/ \E t \in Ticks : Draining(t)

Spec == Init /\ [][Next]_vars

-----------------------------------------------------------------------------
(* Properties *)

TypeOK ==
  /\ slot  \in [Slots -> {"open", "booked", "unnamed", "cancelled"}]
  /\ clock \in [Slots -> 0..(Last + 1)]
  /\ halting \in SUBSET Slots
  /\ row   \in [Keys -> Row]
  /\ agenda \in [Sweepers -> SUBSET Keys]
  /\ batch  \in [Ticks -> [Keys -> (0..(MaxAttempts - 1)) \union {Null}]]
  /\ flight \in [Ticks -> [key : Keys, row : Row] \union {Null}]
  /\ reached \in SUBSET Keys
  /\ spoiled \in SUBSET Slots /\ doubtful \in SUBSET Keys
  /\ faults \in 0..MaxFaults

\* A call that has a reminder has all of them: however often the slot changed hands
\* since they were queued, every stage still ahead of it is waiting to be sent, or
\* a sweep is about to queue it.  Not promised for a slot whose reminders were
\* once stood down, or whose sweep failed half way: nothing queues them again.
Coming(s, k) == \/ row[<<s, k>>].is = "pending"
                \/ \E w \in Sweepers : <<s, k>> \in agenda[w]

Covered == \A s \in Slots \ spoiled :
             slot[s] = "booked" /\ Queued(s) => \A k \in Stages : k > clock[s] => Coming(s, k)

\* Nobody is reminded twice of the same thing: what the provider has taken is never
\* read again to be sent, however rows are retried, deferred, stood down and
\* written back over.  In doubt is what two drains held at once, an answer
\* that was lost, and a send whose drain died before it was recorded.
SentOnce == \A key \in reached \ doubtful, t \in Ticks : batch[t][key] = Null
==============================================================================
