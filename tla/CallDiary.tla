------------------------------ MODULE CallDiary ------------------------------
(***************************************************************************)
(* The diary of introductory calls: visitors who book an hour and move it  *)
(* (marketing/lib/funnel/slots.ts, app/reschedule/actions.ts), operators   *)
(* who turn a lead down, erase one or cancel an hour (api/modules/leads),  *)
(* the retention sweep, and the Google calendar the diary is mirrored to.  *)
(*                                                                         *)
(* The diary is one table of Postgres, read committed; status, who, event  *)
(* and link are its committed rows.  A move holds the row it has released     *)
(* until it commits or rolls back, and who holds which follows from at.    *)
(* The calendar is told after the commit, over HTTP, and its answer is     *)
(* written to the slot's row by the slot's id alone.                       *)
(***************************************************************************)
EXTENDS Naturals, FiniteSets

CONSTANTS Slots,      \* rows of booking_slots
          Leads,      \* rows of funnel_submissions
          Bookings,   \* bound: calls that may ever be booked, and their events' ids
          Linked,     \* calls for whose event Google makes a meeting link
          Requests,   \* visitors' requests that may be served at once
          Operators,  \* operators' requests that may be served at once
          Null,
          MaxFaults   \* bound: crashes and failed calls

ASSUME DiaryAssumption ==
  /\ Null \notin Slots \union Leads \union Bookings
  /\ Linked \subseteq Bookings
  /\ {"open", "cancelled"} \intersect Leads = {}
  /\ MaxFaults \in Nat

VARIABLES
  status, who, event,   \* per slot: its status, the call that holds it, calendar_event_id
  link,                 \* per slot: the event whose link is in meeting_url
  owner, home,          \* per call: the lead and the slot it was booked for
  lead,                 \* per lead: live, rejected, or deleted
  calendar, created,    \* events in the calendar; event ids Google has ever seen
  at, from, to, mine, got,           \* per visitor's request
  step, task, subject, seen, found,  \* per operator's request
  faults

rows     == <<status, who, event, link>>
calls    == <<owner, home>>
google   == <<calendar, created>>
visitors == <<at, from, to, mine, got>>
clerks   == <<step, task, subject, seen, found>>
vars     == <<rows, calls, lead, google, visitors, clerks, faults>>

Fault == faults < MaxFaults /\ faults' = faults + 1

\* submission_id of a booked slot; the foreign key blanks it with the lead.
HeldBy(l, s) == /\ status[s] = "booked"
                /\ owner[who[s]] = l
                /\ lead[l] # "deleted"

\* A move has released this row and not yet committed.
Locked(s) == \E r \in Requests : at[r] = "claim" /\ from[r] = s

\* A call is still in the diary.
Stands(b) == \E s \in Slots : status[s] = "booked" /\ who[s] = b

-----------------------------------------------------------------------------
(* Booking and moving *)

\* Every field that a new call sets: the row's calendar_event_id and meeting_url are
\* not among them.
Enter(r, b, l, s) ==
  /\ owner[b] = Null
  /\ owner' = [owner EXCEPT ![b] = l]
  /\ home'  = [home  EXCEPT ![b] = s]
  /\ at'    = [at    EXCEPT ![r] = "check"]
  /\ to'    = [to    EXCEPT ![r] = s]
  /\ mine'  = [mine  EXCEPT ![r] = b]

\* bookSlot: one conditional UPDATE.  A slot that a move has released and not
\* committed is still booked to it; a lead that is gone fails the foreign key.
Book(r, b, l, s) ==
  /\ at[r] = "idle"
  /\ lead[l] # "deleted"
  /\ status[s] = "open"
  /\ status' = [status EXCEPT ![s] = "booked"]
  /\ who'    = [who    EXCEPT ![s] = b]
  /\ Enter(r, b, l, s)
  /\ UNCHANGED <<event, link, lead, google, from, got, clerks, faults>>

\* rescheduleSlot: the release, for the lead the session names.
Release(r, s, t) ==
  /\ at[r] = "idle"
  /\ s # t
  /\ \E l \in Leads : HeldBy(l, s)
  /\ ~Locked(s)
  /\ at'   = [at   EXCEPT ![r] = "claim"]
  /\ from' = [from EXCEPT ![r] = s]
  /\ to'   = [to   EXCEPT ![r] = t]
  /\ UNCHANGED <<rows, calls, lead, google, mine, got, clerks, faults>>

\* rescheduleSlot: the claim of the new hour, and the commit of both.  The UPDATE
\* has cleared the event of the old hour, so RETURNING yields NULL and syncMove
\* has no event to cancel.
Claim(r, b) ==
  LET s == from[r]  t == to[r] IN
  /\ at[r] = "claim"
  /\ status[t] = "open"
  /\ status' = [status EXCEPT ![s] = "open", ![t] = "booked"]
  /\ who'    = [who    EXCEPT ![s] = Null,   ![t] = b]
  /\ event'  = [event  EXCEPT ![s] = Null]
  /\ link'   = [link   EXCEPT ![s] = Null]
  /\ Enter(r, b, owner[who[s]], t)
  /\ from'   = [from   EXCEPT ![r] = Null]
  /\ UNCHANGED <<lead, google, got, clerks, faults>>

\* The request is answered, or gone.
Leave(r) == /\ at'   = [at   EXCEPT ![r] = "idle"]
            /\ from' = [from EXCEPT ![r] = Null]
            /\ to'   = [to   EXCEPT ![r] = Null]
            /\ mine' = [mine EXCEPT ![r] = Null]
            /\ got'  = [got  EXCEPT ![r] = Null]

\* Mutant: a lost move answers "taken" without throwing, so the release is committed.
RefuseAfterRelease(r) ==
  /\ at[r] = "claim"
  /\ status' = [status EXCEPT ![from[r]] = "open"]
  /\ who'    = [who    EXCEPT ![from[r]] = Null]
  /\ event'  = [event  EXCEPT ![from[r]] = Null]
  /\ link'   = [link   EXCEPT ![from[r]] = Null]
  /\ Leave(r)
  /\ UNCHANGED <<calls, lead, google, clerks, faults>>

\* SlotUnavailable, or the transaction is killed: the release is rolled back.  The
\* new hour may be refused although it is open: it came too close, or the team
\* is busy.
Refuse(r) ==
  /\ at[r] = "claim"
  /\ Leave(r)
  /\ UNCHANGED <<rows, calls, lead, google, clerks, faults>>

-----------------------------------------------------------------------------
(* The mirror: syncBookingToCalendar and syncMove, after the commit *)

Heard(r, e) == /\ at'  = [at  EXCEPT ![r] = "record"]
               /\ got' = [got EXCEPT ![r] = e]
               /\ UNCHANGED <<rows, calls, lead, from, to, mine, clerks>>

\* freeBusy, just before the insert: any event over this hour.
Busy(s) == \E e \in calendar : home[e] = s

Check(r) ==
  /\ at[r] = "check"
  /\ \/ /\ lead[owner[mine[r]]] = "deleted" \/ Busy(to[r])
        /\ Heard(r, Null)
     \/ /\ lead[owner[mine[r]]] # "deleted" /\ ~Busy(to[r])
        /\ at' = [at EXCEPT ![r] = "insert"]
        /\ UNCHANGED <<rows, calls, lead, from, to, mine, got, clerks>>
  /\ UNCHANGED <<google, faults>>

\* An event id is made of the lead and the hour: Google refuses one it has seen.
Known(b) == \E e \in created : owner[e] = owner[b] /\ home[e] = home[b]

Insert(r) ==
  /\ at[r] = "insert"
  /\ \/ /\ Known(mine[r])
        /\ Heard(r, Null)
        /\ UNCHANGED google
     \/ /\ ~Known(mine[r])
        /\ calendar' = calendar \union {mine[r]}
        /\ created'  = created \union {mine[r]}
        /\ Heard(r, mine[r])
  /\ UNCHANGED faults

\* Google fails, or its answer to an insert is lost.
MirrorFails(r) ==
  /\ \/ /\ at[r] \in {"check", "insert"}
        /\ UNCHANGED google
     \/ /\ at[r] = "insert"
        /\ ~Known(mine[r])
        /\ calendar' = calendar \union {mine[r]}
        /\ created'  = created \union {mine[r]}
  /\ Heard(r, Null)
  /\ Fault

\* recordCalendarOutcome, by the id of the slot alone: the event and the link Google
\* made for it, if it did, or neither.
Record(r) ==
  /\ at[r] = "record"
  /\ ~Locked(to[r])
  /\ event' = [event EXCEPT ![to[r]] = got[r]]
  /\ link'  = [link  EXCEPT ![to[r]] = IF got[r] \in Linked THEN got[r] ELSE Null]
  /\ Leave(r)
  /\ UNCHANGED <<status, who, calls, lead, google, clerks, faults>>

\* The process dies, or the outcome cannot be recorded.
Crash(r) ==
  /\ at[r] # "idle"
  /\ Fault
  /\ Leave(r)
  /\ UNCHANGED <<rows, calls, lead, google, clerks>>

-----------------------------------------------------------------------------
(* Operators and the retention sweep *)

Open(o, what, l, S) ==
  /\ step[o] = "idle"
  /\ step'    = [step    EXCEPT ![o] = "write"]
  /\ task'    = [task    EXCEPT ![o] = what]
  /\ subject' = [subject EXCEPT ![o] = l]
  /\ seen'    = [seen    EXCEPT ![o] = S]
  /\ UNCHANGED <<rows, calls, lead, google, visitors, faults>>

\* The calls of a lead, and the events on their rows.
CallsOf(l)  == {s \in Slots : HeldBy(l, s)}
\* Mutant of EventsOf: rows without an event are not left out.
EventsOfAny(S) == {event[s] : s \in S}

EventsOf(S) == {event[s] : s \in S} \ {Null}

\* A rejection has updated the lead's row and holds it.
Rejecting(l) == \E o \in Operators : step[o] = "write" /\ task[o] = "reject" /\ subject[o] = l

OpenReject(o, l) ==
  /\ lead[l] = "live"
  /\ ~Rejecting(l)
  /\ Open(o, "reject", l, CallsOf(l))
  /\ found' = [found EXCEPT ![o] = EventsOf(CallsOf(l))]

OpenRemove(o, l) ==
  /\ lead[l] # "deleted"
  /\ Open(o, "remove", l, CallsOf(l))
  /\ found' = [found EXCEPT ![o] = EventsOf(CallsOf(l))]

\* DELETE of a slot: the event is shown to the operator, not cancelled.
OpenCancel(o, s) ==
  /\ status[s] # "cancelled"
  /\ Open(o, "cancel", Null, {s})
  /\ found' = [found EXCEPT ![o] = {}]

\* Mutant: the slots are vacated with their event ids left on them.
VacateKeepingEvents(S, fate) ==
  /\ status' = [s \in Slots |-> IF s \in S THEN fate ELSE status[s]]
  /\ who'    = [s \in Slots |-> IF s \in S THEN Null ELSE who[s]]
  /\ UNCHANGED <<event, link>>

\* The slots an operator read are written by id, whoever holds them by now.  Unlike a
\* move, it leaves meeting_url.
Vacate(S, fate) ==
  /\ status' = [s \in Slots |-> IF s \in S THEN fate ELSE status[s]]
  /\ who'    = [s \in Slots |-> IF s \in S THEN Null ELSE who[s]]
  /\ event'  = [s \in Slots |-> IF s \in S THEN Null ELSE event[s]]
  /\ UNCHANGED link

Close(o) == /\ step'    = [step    EXCEPT ![o] = "idle"]
            /\ task'    = [task    EXCEPT ![o] = "none"]
            /\ subject' = [subject EXCEPT ![o] = Null]
            /\ seen'    = [seen    EXCEPT ![o] = {}]
            /\ found'   = [found   EXCEPT ![o] = {}]

\* Erasing a lead blanks its slots, so it waits for a move of any of them, and
\* for a rejection of the lead.
Erasable(l) == ~Rejecting(l) /\ \A s \in CallsOf(l) : ~Locked(s)

CommitLead(o) ==
  /\ step[o] = "write"
  /\ \A s \in seen[o] : ~Locked(s)
  /\ \/ /\ task[o] = "reject"
        /\ lead' = [lead EXCEPT ![subject[o]] = "rejected"]
     \/ /\ task[o] = "remove"
        /\ Erasable(subject[o])
        /\ lead' = [lead EXCEPT ![subject[o]] = "deleted"]
  /\ Vacate(seen[o], "open")
  /\ step' = [step EXCEPT ![o] = "delete"]
  /\ UNCHANGED <<calls, google, visitors, task, subject, seen, found, faults>>

\* The UPDATE tests the status again, so a slot cancelled meanwhile is left alone and
\* answered with not found; it does not test who holds the slot.
CommitCancel(o) ==
  LET S == {s \in seen[o] : status[s] # "cancelled"} IN
  /\ step[o] = "write"
  /\ task[o] = "cancel"
  /\ \A s \in S : ~Locked(s)
  /\ Vacate(S, "cancelled")
  /\ Close(o)
  /\ UNCHANGED <<calls, lead, google, visitors, faults>>

\* A statement fails or the API dies: the transaction is rolled back.
Abort(o) ==
  /\ step[o] = "write"
  /\ Fault
  /\ Close(o)
  /\ UNCHANGED <<rows, calls, lead, google, visitors>>

\* Mutant: the events go first, and the transaction is then rolled back.
DeleteEventsFirst(o) ==
  /\ step[o] \in {"write", "delete"}
  /\ calendar' = calendar \ found[o]
  /\ Close(o)
  /\ UNCHANGED <<rows, calls, lead, created, visitors, faults>>

\* After the commit.  What Google refuses is reported and stays.
DeleteEvents(o) ==
  /\ step[o] = "delete"
  /\ \/ /\ calendar' = calendar \ found[o]
        /\ UNCHANGED faults
     \/ /\ \E E \in SUBSET found[o] : calendar' = calendar \ E
        /\ Fault
  /\ Close(o)
  /\ UNCHANGED <<rows, calls, lead, created, visitors>>

\* sweepExpiredEnquiries: the slot stays booked, with nobody in it.
Forget(l) ==
  /\ lead[l] # "deleted"
  /\ Erasable(l)
  /\ lead' = [lead EXCEPT ![l] = "deleted"]
  /\ UNCHANGED <<rows, calls, google, visitors, clerks, faults>>

-----------------------------------------------------------------------------
Init ==
  /\ status = [s \in Slots |-> "open"]
  /\ who    = [s \in Slots |-> Null]
  /\ event  = [s \in Slots |-> Null]
  /\ link   = [s \in Slots |-> Null]
  /\ owner  = [b \in Bookings |-> Null]
  /\ home   = [b \in Bookings |-> Null]
  /\ lead   = [l \in Leads |-> "live"]
  /\ calendar = {} /\ created = {}
  /\ at   = [r \in Requests |-> "idle"]
  /\ from = [r \in Requests |-> Null]
  /\ to   = [r \in Requests |-> Null]
  /\ mine = [r \in Requests |-> Null]
  /\ got  = [r \in Requests |-> Null]
  /\ step    = [o \in Operators |-> "idle"]
  /\ task    = [o \in Operators |-> "none"]
  /\ subject = [o \in Operators |-> Null]
  /\ seen    = [o \in Operators |-> {}]
  /\ found   = [o \in Operators |-> {}]
  /\ faults = 0

Visitor(r) ==
  \/ \E b \in Bookings, l \in Leads, s \in Slots : Book(r, b, l, s)
  \/ \E s, t \in Slots : Release(r, s, t)
  \/ \E b \in Bookings : Claim(r, b)
  \/ Refuse(r) \/ Check(r) \/ Insert(r) \/ MirrorFails(r) \/ Record(r) \/ Crash(r)

Operator(o) ==
  \/ \E l \in Leads : OpenReject(o, l) \/ OpenRemove(o, l)
  \/ \E s \in Slots : OpenCancel(o, s)
  \/ CommitLead(o) \/ CommitCancel(o) \/ Abort(o) \/ DeleteEvents(o)

Next == \/ \E r \in Requests : Visitor(r)
        \/ \E o \in Operators : Operator(o)
        \/ \E l \in Leads : Forget(l)

Spec == Init /\ [][Next]_vars

-----------------------------------------------------------------------------
(* Properties *)

TypeOK ==
  /\ status \in [Slots -> {"open", "booked", "cancelled"}]
  /\ who    \in [Slots -> Bookings \union {Null}]
  /\ event  \in [Slots -> Bookings \union {Null}]
  /\ link   \in [Slots -> Bookings \union {Null}]
  /\ owner  \in [Bookings -> Leads \union {Null}]
  /\ home   \in [Bookings -> Slots \union {Null}]
  /\ lead   \in [Leads -> {"live", "rejected", "deleted"}]
  /\ calendar \in SUBSET Bookings
  /\ created  \in SUBSET Bookings
  /\ at   \in [Requests -> {"idle", "claim", "check", "insert", "record"}]
  /\ from \in [Requests -> Slots \union {Null}]
  /\ to   \in [Requests -> Slots \union {Null}]
  /\ mine \in [Requests -> Bookings \union {Null}]
  /\ got  \in [Requests -> Bookings \union {Null}]
  /\ step    \in [Operators -> {"idle", "write", "delete"}]
  /\ task    \in [Operators -> {"none", "reject", "remove", "cancel"}]
  /\ subject \in [Operators -> Leads \union {Null}]
  /\ seen    \in [Operators -> SUBSET Slots]
  /\ found   \in [Operators -> SUBSET Bookings]
  /\ faults \in 0..MaxFaults

\* An event id on a row is an event that is in the calendar, and a meeting link on
\* that row is that event's: outcomes are recorded late and by slot id, events are
\* deleted from a list read before the commit, and still no calendar_event_id is left
\* pointing at an event that is gone.  A row without an event says nothing of its
\* link: an operator's write clears the one and leaves the other.
RecordedIsReal ==
  \A s \in Slots : event[s] # Null => /\ event[s] \in calendar
                                      /\ link[s] \in {event[s], Null}

\* Nobody is taken out of the calendar while their call stands, whichever slots
\* changed hands between an operator's read, its commit and the deletion
\* (leads.controller.ts deletes after the commit for this).
StandingStays == [][\A e \in calendar \ calendar' : ~Stands(e) /\ ~Stands(e)']_vars

\* Seen from outside, the diary books, moves and clears in single steps: a failed
\* move changes nothing, and a call is ended by its own move or by an operator
\* who read that slot.
Ledger == INSTANCE DiaryLedger WITH
  diary  <- [s \in Slots |-> IF status[s] = "booked" THEN owner[who[s]] ELSE status[s]],
  doomed <- UNION {seen[o] : o \in {x \in Operators : step[x] = "write"}}

ImplementsDiary == Ledger!DSpec
==============================================================================
