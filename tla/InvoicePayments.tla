--------------------------- MODULE InvoicePayments ---------------------------
(***************************************************************************)
(* One invoice, the links it is collected through, and the webhooks of the *)
(* two gateways that say money arrived (api/modules/invoices, the overdue  *)
(* sweep of the worker).                                                   *)
(*                                                                         *)
(* A webhook is one Postgres transaction under READ COMMITTED: it claims   *)
(* the link's row or inserts one of its own, locks the invoice, credits    *)
(* it.  What it has written is row[h] and credit[h] until it commits, and  *)
(* the row locks it holds follow from where it stands.  A person's PATCH   *)
(* is another: edit is what it has decided, under the lock it holds on the *)
(* invoice and on the payments committed when it looked.  Invoices share   *)
(* no row, so one is modelled.                                             *)
(***************************************************************************)
EXTENDS Integers, FiniteSets, Functions

CONSTANTS Payments,   \* the gateway's ids of captured payments
          Foreign,    \* those captured in another currency than the link's
          Links,      \* payment links and checkout sessions
          Hooks,      \* webhook requests that may be served at once
          Providers,  \* the gateways an org has set up
          Clerks,     \* requests for a payment link that may be served at once
          None,
          Amounts,    \* what a capture may amount to
          Totals,     \* what an invoice may come to
          MaxFaults   \* bound: crashes and failed statements

\* invoices.status
Statuses == {"draft", "sent", "overdue", "paid", "void"}

ASSUME PaymentsAssumption ==
  /\ Foreign \subseteq Payments
  /\ IsFiniteSet(Payments)
  /\ Amounts \subseteq Nat \ {0}
  /\ Totals \subseteq Nat
  /\ None \notin Payments \union Links \union Providers \union Nat
  /\ None \notin [link : Links, amount : Amounts] \union [status : Statuses, total : Totals]
  /\ MaxFaults \in Nat

VARIABLES
  total, amountPaid, status, provider,  \* the invoices row
  link,      \* per link: the provider of its payments row, None before it exists
  holder,    \* per link: gateway_payment_id of that row
  own,       \* payments that have a row of their own
  audit,     \* per payment: the audit_log entries of its credit, added up
  capture,   \* per payment: what the gateway captured through which link
  owed,      \* payments the gateway has still to deliver a webhook for
  at, pay, row, credit,  \* per hook: its step, payment, row written, credit decided
  gate,                  \* per clerk: the gateway it asked for a link, or None
  edit,                  \* what the PATCH that has locked the invoice will write, or None
  faults

invoice == <<total, amountPaid, status, provider>>
books   == <<link, holder, own, audit>>
gateway == <<capture, owed>>
hooks   == <<at, pay, row, credit>>
staff   == <<gate, edit>>
vars    == <<invoice, books, gateway, hooks, staff, faults>>

Fault == faults < MaxFaults /\ faults' = faults + 1

LinkOf(p)   == capture[p].link
AmountOf(p) == capture[p].amount

\* The rows that carry a payment id, as a committed reader sees them.
Recorded == own \union ({holder[l] : l \in Links} \ {None})

-----------------------------------------------------------------------------
(* Row locks on the invoice: FOR UPDATE of a hook that credits it and of a *)
(* PATCH, and the KEY SHARE that inserting a payments row takes through    *)
(* its foreign key.                                                        *)

Holds(h)    == at[h] = "commit" /\ credit[h] # None
Shares(h)   == row[h] = "own" /\ at[h] \in {"lock", "commit"}
Editing     == edit # None

\* What a statement of h waits for, and one of nobody's.
HeldForUpdate(h) == Editing \/ \E g \in Hooks \ {h} : Holds(g)

HeldAtAll(h)     == Editing \/ \E g \in Hooks \ {h} : Holds(g) \/ Shares(g)
Updating         == Editing \/ \E h \in Hooks : Holds(h)
Unlocked         == ~Editing /\ ~ \E h \in Hooks : Holds(h) \/ Shares(h)

-----------------------------------------------------------------------------
(* The gateways *)

\* A customer pays through any link whose row is committed: its URL is handed out
\* in the answer.  Several payments may come through one link, and through the
\* link of an invoice that is void or settled by now.
Capture(p) ==
  /\ capture[p] = None
  /\ \E l \in {x \in Links : link[x] # None}, a \in Amounts :
       capture' = [capture EXCEPT ![p] = [link |-> l, amount |-> a]]
  /\ owed' = owed \union {p}
  /\ UNCHANGED <<invoice, books, hooks, staff, faults>>

\* payment_link.paid, payment.captured, or a repetition of either that overtakes
\* the one being served: the link is looked up, its transaction begins.
Deliver(h, p) ==
  /\ at[h] = "idle"
  /\ p \in owed
  /\ at'  = [at EXCEPT ![h] = "claim"]
  /\ pay' = [pay EXCEPT ![h] = p]
  /\ UNCHANGED <<invoice, books, gateway, row, credit, staff, faults>>

\* Mutant: the connection goes back to the pool with its transaction open.
RestUnended(h) ==
  /\ at'     = [at EXCEPT ![h] = "idle"]
  /\ credit' = [credit EXCEPT ![h] = None]
  /\ UNCHANGED <<pay, row>>

\* The transaction is over, and its locks with it.
Rest(h) ==
  /\ at'     = [at EXCEPT ![h] = "idle"]
  /\ pay'    = [pay EXCEPT ![h] = None]
  /\ row'    = [row EXCEPT ![h] = "none"]
  /\ credit' = [credit EXCEPT ![h] = None]

\* 200: the gateway stops, unless the answer is lost or its other event is due.
Acknowledge(p) == \/ owed' = owed \ {p} /\ UNCHANGED faults
                  \/ UNCHANGED owed /\ Fault

-----------------------------------------------------------------------------
(* applyGatewayPayment *)

\* Another transaction has written this link's row.
LinkLocked(h) == \E g \in Hooks \ {h} : row[g] = "link" /\ LinkOf(pay[g]) = LinkOf(pay[h])

\* UPDATE payments ... WHERE gateway_payment_id IS NULL, re-read once unlocked.
ClaimLink(h) ==
  /\ at[h] = "claim"
  /\ ~LinkLocked(h)
  /\ holder[LinkOf(pay[h])] = None
  /\ row' = [row EXCEPT ![h] = "link"]
  /\ at'  = [at EXCEPT ![h] = "lock"]
  /\ UNCHANGED <<invoice, books, gateway, pay, credit, staff, faults>>

\* Another transaction has put this payment id into the unique index.
IdLocked(h) == \E g \in Hooks \ {h} : row[g] # "none" /\ pay[g] = pay[h]

\* Mutant: no unique index, so the insert neither waits nor conflicts.
InsertOwnAlways(h) ==
  /\ at[h] = "claim"
  /\ holder[LinkOf(pay[h])] # None
  /\ ~HeldForUpdate(h)
  /\ row' = [row EXCEPT ![h] = "own"]
  /\ at'  = [at EXCEPT ![h] = "lock"]
  /\ UNCHANGED <<invoice, books, gateway, pay, credit, staff, faults>>

\* A second payment on the link gets a row of its own, whose foreign key waits for
\* a lock on the invoice and then shares it.
InsertOwn(h) ==
  /\ at[h] = "claim"
  /\ holder[LinkOf(pay[h])] # None
  /\ ~IdLocked(h) /\ ~HeldForUpdate(h)
  /\ pay[h] \notin Recorded
  /\ row' = [row EXCEPT ![h] = "own"]
  /\ at'  = [at EXCEPT ![h] = "lock"]
  /\ UNCHANGED <<invoice, books, gateway, pay, credit, staff, faults>>

\* ON CONFLICT DO NOTHING: a replay.
Duplicate(h) ==
  /\ at[h] = "claim"
  /\ holder[LinkOf(pay[h])] # None
  /\ ~IdLocked(h)
  /\ pay[h] \in Recorded
  /\ Acknowledge(pay[h])
  /\ Rest(h)
  /\ UNCHANGED <<invoice, books, capture, staff>>

Lesser(a, b) == IF a <= b THEN a ELSE b
Due          == IF total > amountPaid THEN total - amountPaid ELSE 0

\* Mutant: the capture is credited in full.
DecideFull(p) == AmountOf(p)

Decide(p) == Lesser(AmountOf(p), Due)

LockInvoice(h) ==
  /\ at[h] = "lock"
  /\ pay[h] \notin Foreign /\ status # "void"
  /\ ~HeldAtAll(h)
  /\ credit' = [credit EXCEPT ![h] = Decide(pay[h])]
  /\ at'     = [at EXCEPT ![h] = "commit"]
  /\ UNCHANGED <<invoice, books, gateway, pay, row, staff, faults>>

\* Another currency, or no invoice that is not void: recorded, not credited.
LeaveInvoice(h) ==
  /\ at[h] = "lock"
  /\ pay[h] \in Foreign \/ status = "void"
  /\ at' = [at EXCEPT ![h] = "commit"]
  /\ UNCHANGED <<invoice, books, gateway, pay, row, credit, staff, faults>>

\* What is announced for a person to refund or apply by hand.
Excess(p, c) == IF p \in Foreign \/ AmountOf(p) < c THEN 0 ELSE AmountOf(p) - c

Given(h) == IF credit[h] = None THEN 0 ELSE credit[h]

\* The credit, the audit entry, the commit and the answer.
Commit(h) ==
  LET p == pay[h] IN
  /\ at[h] = "commit"
  /\ holder' = IF row[h] = "link" THEN [holder EXCEPT ![LinkOf(p)] = p] ELSE holder
  /\ own'    = IF row[h] = "own" THEN own \union {p} ELSE own
  /\ amountPaid' = amountPaid + Given(h)
  /\ status' = IF credit[h] # None /\ amountPaid' >= total THEN "paid" ELSE status
  /\ audit'  = [audit EXCEPT ![p] = [entries  |-> @.entries + 1,
                                     credited |-> @.credited + Given(h),
                                     excess   |-> @.excess + Excess(p, Given(h))]]
  /\ Acknowledge(p)
  /\ Rest(h)
  /\ UNCHANGED <<total, provider, link, capture, staff>>

\* Mutant: any error is answered 200, as a crossed delivery is.
DieAnswered(h) ==
  /\ at[h] # "idle"
  /\ Fault
  /\ owed' = owed \ {pay[h]}
  /\ Rest(h)
  /\ UNCHANGED <<invoice, books, capture, staff>>

\* A crash or a failed statement: all of it is rolled back, no 200 is sent.
Die(h) ==
  /\ at[h] # "idle"
  /\ Fault
  /\ Rest(h)
  /\ UNCHANGED <<invoice, books, gateway, staff>>

\* Two inserted rows share the invoice and both want it: Postgres kills one of the
\* transactions, and the gateway delivers again.
WantsInvoice(h) == Shares(h) /\ at[h] = "lock" /\ pay[h] \notin Foreign

BreakDeadlock(h) ==
  /\ WantsInvoice(h) /\ status # "void"
  /\ \E g \in Hooks \ {h} : WantsInvoice(g)
  /\ Rest(h)
  /\ UNCHANGED <<invoice, books, gateway, staff, faults>>

-----------------------------------------------------------------------------
(* PaymentsController.createLink *)

\* The invoice is read without a lock; then the gateway is asked.
AskLink(k, g) ==
  /\ gate[k] = None
  /\ status # "void"
  /\ total > amountPaid
  /\ provider \in {None, g}
  /\ gate' = [gate EXCEPT ![k] = g]
  /\ UNCHANGED <<invoice, books, gateway, hooks, edit, faults>>

\* The gateway made a link; its payments row is inserted (KEY SHARE on the invoice),
\* payment_provider set and the URL handed out.  Nothing can block the second write
\* once the first went through, so the two are one step.
GrantLink(k) ==
  /\ gate[k] # None
  /\ ~Updating
  /\ \E l \in Links : /\ link[l] = None
                     /\ link' = [link EXCEPT ![l] = gate[k]]
  /\ provider' = gate[k]
  /\ gate' = [gate EXCEPT ![k] = None]
  /\ UNCHANGED <<total, amountPaid, status, holder, own, audit, gateway, hooks, edit, faults>>

\* The gateway refuses, or the transaction fails: nobody was given the URL.
DropLink(k) ==
  /\ gate[k] # None
  /\ gate' = [gate EXCEPT ![k] = None]
  /\ UNCHANGED <<invoice, books, gateway, hooks, edit, faults>>

-----------------------------------------------------------------------------
(* InvoicesController.update, and runDocumentDateSweep *)

\* MANUAL_STATUS_MOVES
MovesFrom(s) == CASE s = "draft"   -> {"sent", "void"}
                  [] s = "sent"    -> {"overdue", "void"}
                  [] s = "overdue" -> {"sent", "void"}
                  [] OTHER         -> {}

MoneyIn == amountPaid > 0

\* Mutant: only amount_paid is looked at.
MayVoidUnpaid == ~MoneyIn

MayVoid == ~MoneyIn /\ Recorded = {}

MayRewrite == ~MoneyIn /\ status \notin {"paid", "void"}

\* SELECT ... FOR UPDATE, and what is decided from that row and from the payments
\* committed by then: a status, new lines (hence a total), or both.
BeginUpdate(s, t) ==
  /\ Unlocked
  /\ s # status => s \in MovesFrom(status) /\ (s = "void" => MayVoid)
  /\ t # total  => MayRewrite
  /\ s # status \/ t # total
  /\ edit' = [status |-> s, total |-> t]
  /\ UNCHANGED <<invoice, books, gateway, hooks, gate, faults>>

\* The UPDATE and the commit.  The lock has kept the invoice as it was, but not the
\* payments: a capture that needs no lock on the invoice may have come in.
CommitUpdate ==
  /\ Editing
  /\ status' = edit.status
  /\ total'  = edit.total
  /\ edit'   = None
  /\ UNCHANGED <<amountPaid, provider, books, gateway, hooks, gate, faults>>

\* A statement fails or the process dies: rolled back.
AbandonUpdate ==
  /\ Editing
  /\ edit' = None
  /\ UNCHANGED <<invoice, books, gateway, hooks, gate, faults>>

\* Mutant: a status the table does not have.
FallDueMisnamed ==
  /\ ~Updating
  /\ status = "sent"
  /\ amountPaid < total
  /\ status' = "late"
  /\ UNCHANGED <<total, amountPaid, provider, books, gateway, hooks, staff, faults>>

\* The sweep's UPDATE waits for a credit or an edit, not for a share.
FallDue ==
  /\ ~Updating
  /\ status = "sent"
  /\ amountPaid < total
  /\ status' = "overdue"
  /\ UNCHANGED <<total, amountPaid, provider, books, gateway, hooks, staff, faults>>

-----------------------------------------------------------------------------

Init ==
  /\ total \in Totals
  /\ amountPaid = 0 /\ status = "draft" /\ provider = None
  /\ link   = [l \in Links |-> None]
  /\ holder = [l \in Links |-> None]
  /\ own    = {}
  /\ audit  = [p \in Payments |-> [entries |-> 0, credited |-> 0, excess |-> 0]]
  /\ capture = [p \in Payments |-> None]
  /\ owed   = {}
  /\ at     = [h \in Hooks |-> "idle"]
  /\ pay    = [h \in Hooks |-> None]
  /\ row    = [h \in Hooks |-> "none"]
  /\ credit = [h \in Hooks |-> None]
  /\ gate   = [k \in Clerks |-> None]
  /\ edit   = None
  /\ faults = 0

\* applyGatewayPayment going about its business.
Serve(h) == \/ ClaimLink(h) \/ InsertOwn(h) \/ Duplicate(h)
            \/ LockInvoice(h) \/ LeaveInvoice(h) \/ Commit(h)
            \/ BreakDeadlock(h)

Next == \/ \E p \in Payments : Capture(p) \/ \E h \in Hooks : Deliver(h, p)
        \/ \E h \in Hooks : Serve(h) \/ Die(h)
        \/ \E k \in Clerks : \/ \E g \in Providers : AskLink(k, g)
                             \/ GrantLink(k) \/ DropLink(k)
        \/ \E s \in Statuses, t \in Totals : BeginUpdate(s, t)
        \/ CommitUpdate \/ AbandonUpdate
        \/ FallDue

Spec == Init /\ [][Next]_vars

-----------------------------------------------------------------------------
(* Properties *)

Steps    == {"idle", "claim", "lock", "commit"}

TypeOK ==
  /\ total \in Totals /\ amountPaid \in Nat
  /\ status \in Statuses /\ provider \in Providers \union {None}
  /\ link \in [Links -> Providers \union {None}]
  /\ holder \in [Links -> Payments \union {None}]
  /\ own \subseteq Payments
  /\ audit \in [Payments -> [entries : Nat, credited : Nat, excess : Nat]]
  /\ capture \in [Payments -> [link : Links, amount : Amounts] \union {None}]
  /\ owed \subseteq Payments
  /\ at \in [Hooks -> Steps]
  /\ pay \in [Hooks -> Payments \union {None}]
  /\ row \in [Hooks -> {"none", "link", "own"}]
  /\ credit \in [Hooks -> Nat \union {None}]
  /\ gate \in [Clerks -> Providers \union {None}]
  /\ edit \in [status : Statuses, total : Totals] \union {None}
  /\ faults \in 0..MaxFaults

\* A payment is in the books exactly once, however often and in whatever order its
\* webhooks come, and what was credited and what is announced as excess make up
\* what was captured.
EnteredOnce ==
  \A p \in Payments :
    /\ audit[p].entries = (IF p \in Recorded THEN 1 ELSE 0)
    /\ p \in Recorded \ Foreign => audit[p].credited + audit[p].excess = AmountOf(p)

Credited == [p \in Payments |-> audit[p].credited]

\* No money is made or lost: the credits of those entries make up amount_paid.
MoneyAccounted ==
  /\ EnteredOnce
  /\ amountPaid = SumFunction(Credited)

\* No webhook is answered 200 before its money is committed: what was captured is
\* in the books, or the gateway still has it to deliver.
NothingForgotten == \A p \in Payments : capture[p] # None => p \in Recorded \union owed

\* An invoice is never credited beyond its total, is paid exactly when its money
\* is in ("a claim that money arrived, and only a recorded payment makes it"), and
\* is void only if none was taken.
StatusTellsMoney ==
  /\ amountPaid <= total
  /\ MoneyIn => (status = "paid" <=> amountPaid = total)
  /\ status = "paid" => amountPaid = total
  /\ status = "void" => amountPaid = 0

\* A closed invoice stays closed, and once money is in, neither its total nor what
\* was paid moves back ("its lines, discount and GST treatment are locked").
ClosedStaysClosed ==
  [][/\ status \in {"paid", "void"} => status' = status /\ total' = total
     /\ MoneyIn => total' = total /\ amountPaid' >= amountPaid]_vars

\* A transaction waits for the row of its link, for its id in the unique index, for
\* the invoice its foreign key names, or to credit it.
Waits(h) ==
  \/ /\ at[h] = "claim" /\ holder[LinkOf(pay[h])] = None
     /\ LinkLocked(h)
  \/ /\ at[h] = "claim" /\ holder[LinkOf(pay[h])] # None
     /\ IdLocked(h) \/ (pay[h] \notin Recorded /\ HeldForUpdate(h))
  \/ /\ at[h] = "lock" /\ pay[h] \notin Foreign /\ status # "void"
     /\ HeldAtAll(h)

\* Somebody who has begun can go on; a PATCH that has its lock waits for nothing.
Going == Editing \/ \E h \in Hooks : at[h] # "idle" /\ ~Waits(h)

\* What BreakDeadlock ends.
Crossed == /\ status # "void"
           /\ \E g, h \in Hooks : g # h /\ WantsInvoice(g) /\ WantsInvoice(h)

\* Webhooks wait for each other in one order, rows of payments before the invoice, so
\* while one waits another can go on; the one deadlock is that of two inserted
\* payments which share the invoice and both want it.
WaitsEnd == (\E h \in Hooks : Waits(h)) => Going \/ Crossed

Captured == [p \in Payments |-> IF capture[p] = None THEN 0 ELSE AmountOf(p)]

Voiding == Editing /\ edit.status = "void"

Ledger == INSTANCE InvoiceLedger
            WITH amount <- Captured, entered <- Recorded, voiding <- Voiding

\* However webhooks, edits and the sweep are interleaved, the committed invoice is
\* the ledger of InvoiceLedger: each payment entered once, by one indivisible step,
\* and an invoice voided only on empty books.  The two steps of a void are the
\* ledger's too: what may be entered between them is a foreign capture.
ImplementsLedger == Ledger!LSpec

==============================================================================
