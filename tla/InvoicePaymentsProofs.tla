------------------------ MODULE InvoicePaymentsProofs ------------------------
(***************************************************************************)
(* Proofs about InvoicePayments, for any number of payments, links and     *)
(* webhooks and any amounts.  What a transaction has written and what it   *)
(* has locked decide what the others may assume: Claims says it of the     *)
(* rows of payments, Locks of the invoice, Credits of the balance a credit *)
(* was decided on, Edits of the invoice an edit was.                       *)
(***************************************************************************)
EXTENDS InvoicePayments, FiniteSums

Busy(h) == at[h] # "idle"

\* Where a hook stands says what it has written and decided.
HookShape ==
  \A h \in Hooks :
    /\ ~Busy(h) => row[h] = "none" /\ credit[h] = None
    /\ Busy(h) => pay[h] \in Payments /\ capture[pay[h]] # None
    /\ at[h] = "claim" => row[h] = "none"
    /\ at[h] \in {"lock", "commit"} => row[h] \in {"link", "own"}
    /\ at[h] \in {"claim", "lock"} => credit[h] = None

\* A committed payment id sits on one row, and on a row of the link it came through.
Rows ==
  /\ \A l \in Links : holder[l] # None => /\ capture[holder[l]] # None
                                          /\ LinkOf(holder[l]) = l
  /\ \A p \in own : /\ capture[p] # None
                    /\ holder[LinkOf(p)] \notin {None, p}

\* A row that is written and not committed: nobody else writes it.
Claims ==
  /\ \A h \in Hooks :
       /\ row[h] = "link" => holder[LinkOf(pay[h])] = None
       /\ row[h] = "own"  => holder[LinkOf(pay[h])] # None
       /\ row[h] # "none" => pay[h] \notin Recorded
  /\ \A g, h \in Hooks : g # h =>
       /\ row[g] = "link" /\ row[h] = "link" => LinkOf(pay[g]) # LinkOf(pay[h])
       /\ row[g] # "none" /\ row[h] # "none" => pay[g] # pay[h]

\* FOR UPDATE excludes every other lock on the invoice.
Locks ==
  /\ \A g, h \in Hooks : g # h /\ Holds(g) => ~Holds(h) /\ ~Shares(h)
  /\ Editing => \A h \in Hooks : ~Holds(h) /\ ~Shares(h)

\* So the balance a credit was decided on is still the balance, and what is not
\* credited could not be.
Credits ==
  \A h \in Hooks :
    /\ Holds(h) => /\ pay[h] \notin Foreign
                   /\ status # "void"
                   /\ credit[h] = Decide(pay[h])
    /\ at[h] = "commit" /\ ~Holds(h) => pay[h] \in Foreign \/ status = "void"

\* What an edit was decided on is still so: no credit got past its lock.
Edits ==
  Editing => /\ status \in {"draft", "sent", "overdue"}
             /\ edit.status \in {"draft", "sent", "overdue", "void"}
             /\ edit.status = "void" \/ edit.total # total => ~MoneyIn

Owing == \A p \in owed : capture[p] # None

\* A payment outside the books has left no trace in the audit log.
Untraced == \A p \in Payments \ Recorded : audit[p] = [entries |-> 0, credited |-> 0, excess |-> 0]

\* What only the committed tables and the gateways decide.
Settled == Rows /\ Owing /\ Untraced /\ EnteredOnce /\ NothingForgotten /\ StatusTellsMoney

IInv == TypeOK /\ HookShape /\ Claims /\ Locks /\ Credits /\ Edits /\ Settled

-----------------------------------------------------------------------------

\* Nothing written, nothing promised.
LEMMA Start == Init => IInv
<1> SUFFICES ASSUME Init PROVE IInv
    OBVIOUS
<1> USE DEF Init
<1>1. Recorded = {}
  BY DEF Recorded
<1>2. TypeOK
  BY PaymentsAssumption DEF TypeOK, Statuses, Steps
<1>3. HookShape /\ Claims /\ Locks /\ Credits /\ Edits
  BY <1>1 DEF HookShape, Claims, Locks, Credits, Edits, Holds, Shares, Busy, Editing
<1>4. Rows /\ Owing /\ Untraced /\ NothingForgotten
  BY DEF Rows, Owing, Untraced, NothingForgotten
<1>5. EnteredOnce
  BY <1>1 DEF EnteredOnce
<1>6. StatusTellsMoney
  BY PaymentsAssumption DEF StatusTellsMoney, MoneyIn
<1> QED
  BY <1>2, <1>3, <1>4, <1>5, <1>6 DEF IInv, Settled

\* A hook at work serves a captured payment.
LEMMA Serving ==
  ASSUME TypeOK, HookShape, NEW h \in Hooks, at[h] # "idle"
  PROVE  /\ pay[h] \in Payments /\ capture[pay[h]] # None
         /\ AmountOf(pay[h]) \in Nat \ {0} /\ LinkOf(pay[h]) \in Links
<1>1. pay[h] \in Payments /\ capture[pay[h]] # None
  BY DEF HookShape, Busy
<1>2. capture[pay[h]] \in [link : Links, amount : Amounts]
  BY <1>1 DEF TypeOK
<1> QED
  BY <1>1, <1>2, PaymentsAssumption DEF AmountOf, LinkOf

\* A step that touches neither table nor gateway leaves what they decide.
LEMMA SettledStays ==
  ASSUME Settled, UNCHANGED <<invoice, books, gateway>>
  PROVE  Settled'
BY DEF Settled, Rows, Owing, Untraced, EnteredOnce, NothingForgotten, StatusTellsMoney,
       Recorded, MoneyIn, LinkOf, AmountOf, invoice, books, gateway

\* A hook that rests frees what it held and touches what no other hook relies on.
LEMMA RestFrees ==
  ASSUME TypeOK, HookShape, Claims, Locks, Credits, NEW h \in Hooks, Rest(h),
         UNCHANGED <<invoice, books, capture, staff>>
  PROVE  HookShape' /\ Claims' /\ Locks' /\ Credits'
<1> USE DEF TypeOK, Rest, invoice, books, staff
<1>1. HookShape'
  BY DEF HookShape, Busy
<1>2. Claims'
  BY DEF Claims, Recorded, LinkOf
<1>3. Locks'
  BY DEF Locks, Holds, Shares, Editing
<1>4. Credits'
  BY DEF Credits, Holds, Decide, Lesser, Due, AmountOf
<1> QED
  BY <1>1, <1>2, <1>3, <1>4

\* A step that leaves the invoice and the edit alone leaves an edit sound.
LEMMA EditsStay == ASSUME Edits, UNCHANGED <<invoice, edit>> PROVE Edits'
BY DEF Edits, Editing, MoneyIn, invoice

-----------------------------------------------------------------------------
(* One lemma per action *)

LEMMA CaptureKeeps == ASSUME IInv, NEW p \in Payments, Capture(p) PROVE IInv'
<1> USE DEF IInv, Settled, Capture, invoice, books, hooks, staff
<1>1. TypeOK'
  BY DEF TypeOK
<1>2. \A q \in Payments : capture[q] # None => capture'[q] = capture[q]
  BY DEF TypeOK
<1>3. p \notin Recorded
  BY DEF TypeOK, Rows, Recorded
<1>4. HookShape'
  BY <1>2 DEF TypeOK, HookShape, Busy
<1>5. Rows'
  BY <1>2 DEF TypeOK, Rows, LinkOf
<1>6. Claims'
  BY <1>2 DEF TypeOK, HookShape, Busy, Claims, Recorded, LinkOf
<1>7. Locks'
  BY DEF Locks, Holds, Shares, Editing
<1>8. Credits'
  BY <1>2 DEF TypeOK, HookShape, Busy, Credits, Holds, Decide, Lesser, Due, AmountOf
<1>9. Owing'
  <2>1. capture'[p] # None
    BY PaymentsAssumption DEF TypeOK
  <2> QED
    BY <1>2, <2>1 DEF TypeOK, Owing
<1>10. Untraced' /\ EnteredOnce'
  BY <1>2, <1>3 DEF TypeOK, Rows, Untraced, EnteredOnce, Recorded, AmountOf
<1>11. NothingForgotten' /\ StatusTellsMoney'
  BY <1>2 DEF TypeOK, NothingForgotten, Recorded, StatusTellsMoney, MoneyIn
<1>12. Edits'
  BY EditsStay
<1> QED
  BY <1>12, <1>1, <1>4, <1>5, <1>6, <1>7, <1>8, <1>9, <1>10, <1>11

LEMMA DeliverKeeps ==
  ASSUME IInv, NEW h \in Hooks, NEW p \in Payments, Deliver(h, p) PROVE IInv'
<1> USE DEF IInv, Deliver, invoice, books, gateway, staff
<1>1. TypeOK'
  BY DEF TypeOK, Steps
<1>2. HookShape'
  BY DEF TypeOK, Settled, Owing, HookShape, Busy
<1>3. Claims'
  BY DEF TypeOK, HookShape, Busy, Claims, Recorded, LinkOf
<1>4. Locks'
  BY DEF TypeOK, Locks, Holds, Shares, Editing
<1>5. Credits'
  BY DEF TypeOK, HookShape, Busy, Credits, Holds, Decide, Lesser, Due, AmountOf
<1>6. Settled'
  BY SettledStays
<1>7. Edits'
  BY EditsStay
<1> QED
  BY <1>7, <1>1, <1>2, <1>3, <1>4, <1>5, <1>6

LEMMA ClaimLinkKeeps == ASSUME IInv, NEW h \in Hooks, ClaimLink(h) PROVE IInv'
<1> USE DEF IInv, ClaimLink, invoice, books, gateway, staff
<1>1. TypeOK'
  BY DEF TypeOK, Steps
<1>2. HookShape'
  BY DEF TypeOK, HookShape, Busy
<1>3. Claims'
  BY DEF TypeOK, HookShape, Busy, Settled, Rows, Claims, LinkLocked, Recorded, LinkOf
<1>4. Locks'
  BY DEF TypeOK, HookShape, Locks, Holds, Shares, Editing
<1>5. Credits'
  BY DEF TypeOK, HookShape, Busy, Credits, Holds, Decide, Lesser, Due, AmountOf
<1>6. Settled'
  BY SettledStays
<1>7. Edits'
  BY EditsStay
<1> QED
  BY <1>7, <1>1, <1>2, <1>3, <1>4, <1>5, <1>6

LEMMA InsertOwnKeeps == ASSUME IInv, NEW h \in Hooks, InsertOwn(h) PROVE IInv'
<1> USE DEF IInv, InsertOwn, invoice, books, gateway, staff
<1>1. TypeOK'
  BY DEF TypeOK, Steps
<1>2. HookShape'
  BY DEF TypeOK, HookShape, Busy
<1>3. Claims'
  BY DEF TypeOK, HookShape, Busy, Claims, IdLocked, Recorded, LinkOf
<1>4. Locks'
  BY DEF TypeOK, HookShape, Locks, Holds, Shares, Editing, HeldForUpdate
<1>5. Credits'
  BY DEF TypeOK, HookShape, Busy, Credits, Holds, Decide, Lesser, Due, AmountOf
<1>6. Settled'
  BY SettledStays
<1>7. Edits'
  BY EditsStay
<1> QED
  BY <1>7, <1>1, <1>2, <1>3, <1>4, <1>5, <1>6

LEMMA LockInvoiceKeeps == ASSUME IInv, NEW h \in Hooks, LockInvoice(h) PROVE IInv'
<1> USE DEF IInv, LockInvoice, invoice, books, gateway, staff
<1>1. Decide(pay[h]) \in Nat
  BY Serving, PaymentsAssumption DEF TypeOK, Decide, Lesser, Due
<1>2. TypeOK'
  BY <1>1 DEF TypeOK, Steps
<1>3. HookShape'
  BY DEF TypeOK, HookShape, Busy
<1>4. Claims'
  BY DEF TypeOK, Claims, Recorded, LinkOf
<1>5. Locks'
  BY DEF TypeOK, HookShape, Locks, Holds, Shares, Editing, HeldAtAll
<1>6. Credits'
  BY <1>1, PaymentsAssumption DEF TypeOK, Credits, Holds, Decide, Lesser, Due, AmountOf
<1>7. Settled'
  BY SettledStays
<1>8. Edits'
  BY EditsStay
<1> QED
  BY <1>8, <1>2, <1>3, <1>4, <1>5, <1>6, <1>7

LEMMA LeaveInvoiceKeeps == ASSUME IInv, NEW h \in Hooks, LeaveInvoice(h) PROVE IInv'
<1> USE DEF IInv, LeaveInvoice, invoice, books, gateway, staff
<1>1. TypeOK'
  BY DEF TypeOK, Steps
<1>2. HookShape'
  BY DEF TypeOK, HookShape, Busy
<1>3. Claims'
  BY DEF TypeOK, Claims, Recorded, LinkOf
<1>4. Locks'
  BY DEF TypeOK, HookShape, Locks, Holds, Shares, Editing
<1>5. Credits'
  BY DEF TypeOK, HookShape, Credits, Holds, Decide, Lesser, Due, AmountOf
<1>6. Settled'
  BY SettledStays
<1>7. Edits'
  BY EditsStay
<1> QED
  BY <1>7, <1>1, <1>2, <1>3, <1>4, <1>5, <1>6

\* The steps that end a transaction with nothing of it kept.
LEMMA RestKeeps ==
  ASSUME IInv, NEW h \in Hooks, Rest(h), UNCHANGED <<invoice, books, capture, staff>>,
         TypeOK', Owing', NothingForgotten'
  PROVE  IInv'
<1>1. HookShape' /\ Claims' /\ Locks' /\ Credits' /\ Edits'
  BY RestFrees, EditsStay DEF IInv, staff
<1>2. Rows' /\ Untraced' /\ EnteredOnce' /\ StatusTellsMoney'
  BY DEF IInv, Settled, Rows, Untraced, EnteredOnce, StatusTellsMoney, Recorded, MoneyIn, LinkOf,
         AmountOf, invoice, books
<1> QED
  BY <1>1, <1>2 DEF IInv, Settled

LEMMA DuplicateKeeps == ASSUME IInv, NEW h \in Hooks, Duplicate(h) PROVE IInv'
<1> USE DEF IInv, Duplicate, Acknowledge, invoice, books, staff
<1>1. TypeOK'
  BY PaymentsAssumption DEF TypeOK, Rest, Steps, Fault
<1>2. Owing'
  BY DEF Settled, Owing
<1>3. NothingForgotten'
  BY DEF TypeOK, Settled, NothingForgotten, Recorded
<1> QED
  BY <1>1, <1>2, <1>3, RestKeeps

LEMMA DieKeeps == ASSUME IInv, NEW h \in Hooks, Die(h) PROVE IInv'
<1> USE DEF IInv, Die, invoice, books, gateway, staff
<1>1. TypeOK'
  BY PaymentsAssumption DEF TypeOK, Rest, Steps, Fault
<1>2. Owing' /\ NothingForgotten'
  BY DEF Settled, Owing, NothingForgotten, Recorded
<1> QED
  BY <1>1, <1>2, RestKeeps

LEMMA BreakDeadlockKeeps == ASSUME IInv, NEW h \in Hooks, BreakDeadlock(h) PROVE IInv'
<1> USE DEF IInv, BreakDeadlock, invoice, books, gateway, staff
<1>1. TypeOK'
  BY DEF TypeOK, Rest, Steps
<1>2. Owing' /\ NothingForgotten'
  BY DEF Settled, Owing, NothingForgotten, Recorded
<1> QED
  BY <1>1, <1>2, RestKeeps

\* Where the payment is entered: its id joins the books, on the row it was written to.
LEMMA CommitRecords ==
  ASSUME IInv, NEW h \in Hooks, Commit(h)
  PROVE  /\ pay[h] \in Payments /\ pay[h] \notin Recorded
         /\ Recorded' = Recorded \union {pay[h]}
<1> USE DEF IInv, Commit, TypeOK
<1>1. pay[h] \in Payments /\ row[h] \in {"link", "own"} /\ pay[h] \notin Recorded
      /\ LinkOf(pay[h]) \in Links
  BY DEF HookShape, Busy, Claims, LinkOf
<1>2. CASE row[h] = "link"
  <2>1. holder[LinkOf(pay[h])] = None
    BY <1>2 DEF Claims
  <2>2. holder' = [holder EXCEPT ![LinkOf(pay[h])] = pay[h]] /\ own' = own
    BY <1>2
  <2>3. {holder'[l] : l \in Links} \ {None} = ({holder[l] : l \in Links} \ {None}) \union {pay[h]}
    BY <1>1, <2>1, <2>2, PaymentsAssumption
  <2> QED
    BY <1>1, <2>2, <2>3 DEF Recorded
<1>3. CASE row[h] = "own"
  BY <1>1, <1>3 DEF Recorded
<1> QED
  BY <1>1, <1>2, <1>3

\* What a credit does to the balance it was decided on.
LEMMA CommitCredits ==
  ASSUME IInv, NEW h \in Hooks, Commit(h)
  PROVE  /\ Given(h) \in Nat
         /\ amountPaid' = amountPaid + Given(h) /\ amountPaid' <= total
         /\ credit[h] = None => status' = status
         /\ credit[h] # None => /\ status # "void" /\ pay[h] \notin Foreign
                                /\ Given(h) = Lesser(AmountOf(pay[h]), total - amountPaid)
                                /\ status' = IF amountPaid' = total THEN "paid" ELSE status
<1>1. total \in Nat /\ amountPaid \in Nat /\ amountPaid <= total
  BY PaymentsAssumption DEF IInv, TypeOK, Settled, StatusTellsMoney
<1>2. /\ amountPaid' = amountPaid + Given(h)
      /\ credit[h] = None => status' = status
      /\ credit[h] # None => status' = IF amountPaid' >= total THEN "paid" ELSE status
  BY DEF Commit
<1>3. CASE credit[h] = None
  <2>1. Given(h) = 0
    BY <1>3 DEF Given
  <2> QED
    BY <1>1, <1>2, <1>3, <2>1
<1>4. CASE credit[h] # None
  <2>1. AmountOf(pay[h]) \in Nat
    BY Serving DEF IInv, Commit
  <2>2. credit[h] = Decide(pay[h]) /\ status # "void" /\ pay[h] \notin Foreign
    BY <1>4 DEF IInv, Commit, Credits, Holds
  <2>3. Given(h) = Lesser(AmountOf(pay[h]), total - amountPaid)
    <3>1. Given(h) = Lesser(AmountOf(pay[h]), Due)
      BY <1>4, <2>2 DEF Given, Decide
    <3>2. Due = total - amountPaid
      BY <1>1 DEF Due
    <3> QED
      BY <3>1, <3>2
  <2>4. Given(h) \in Nat /\ amountPaid + Given(h) <= total
    BY <1>1, <2>1, <2>3 DEF Lesser
  <2>5. amountPaid + Given(h) >= total <=> amountPaid + Given(h) = total
    BY <1>1, <2>4
  <2> QED
    BY <1>2, <1>4, <2>2, <2>3, <2>4, <2>5
<1> QED
  BY <1>3, <1>4

LEMMA CommitKeeps == ASSUME IInv, NEW h \in Hooks, Commit(h) PROVE IInv'
<1> DEFINE p == pay[h]
           c == Given(h)
<1> USE DEF IInv, Settled
<1>1. /\ p \in Payments /\ row[h] \in {"link", "own"}
      /\ AmountOf(p) \in Nat /\ LinkOf(p) \in Links /\ capture[p] # None
  BY Serving DEF Commit, HookShape
<1>2. p \notin Recorded /\ Recorded' = Recorded \union {p}
  BY CommitRecords
<1>3. /\ c \in Nat /\ amountPaid' = amountPaid + c /\ amountPaid' \in Nat
      /\ Excess(p, c) \in Nat /\ (p \notin Foreign => c + Excess(p, c) = AmountOf(p))
  <2>1. c \in Nat /\ amountPaid' = amountPaid + c /\ amountPaid \in Nat
    BY CommitCredits DEF TypeOK
  <2>2. total - amountPaid \in Int
    BY PaymentsAssumption DEF TypeOK
  <2>3. CASE credit[h] = None
    BY <1>1, <2>1, <2>3 DEF Given, Excess
  <2>4. CASE credit[h] # None
    <3>1. c = Lesser(AmountOf(p), total - amountPaid)
      BY <2>4, CommitCredits
    <3> QED
      BY <1>1, <2>1, <2>2, <3>1 DEF Excess, Lesser
  <2> QED
    BY <2>3, <2>4
<1>4. /\ audit' = [audit EXCEPT ![p] = audit'[p]]
      /\ audit'[p] = [entries |-> 1, credited |-> c, excess |-> Excess(p, c)]
  BY <1>1, <1>2, <1>3 DEF TypeOK, Untraced, Commit
<1>5. \A g \in Hooks \ {h} : /\ at'[g] = at[g] /\ pay'[g] = pay[g]
                             /\ row'[g] = row[g] /\ credit'[g] = credit[g]
  BY DEF TypeOK, Commit, Rest
<1>6. at'[h] = "idle" /\ pay'[h] = None /\ row'[h] = "none" /\ credit'[h] = None
  BY DEF TypeOK, Commit, Rest
<1>7. TypeOK'
  <2>1. audit' \in [Payments -> [entries : Nat, credited : Nat, excess : Nat]]
    BY <1>1, <1>3, <1>4 DEF TypeOK
  <2>2. /\ holder' \in [Links -> Payments \union {None}] /\ own' \subseteq Payments
        /\ owed' \subseteq Payments /\ faults' \in 0..MaxFaults /\ status' \in Statuses
    BY <1>1, PaymentsAssumption DEF TypeOK, Commit, Acknowledge, Fault, Statuses
  <2>3. /\ at' \in [Hooks -> Steps] /\ pay' \in [Hooks -> Payments \union {None}]
        /\ row' \in [Hooks -> {"none", "link", "own"}] /\ credit' \in [Hooks -> Nat \union {None}]
    BY DEF TypeOK, Commit, Rest, Steps
  <2> QED
    BY <1>3, <2>1, <2>2, <2>3 DEF TypeOK, Commit, staff
<1>8. HookShape'
  BY <1>5, <1>6 DEF Commit, HookShape, Busy
<1>9. Rows'
  BY <1>1, <1>2 DEF TypeOK, Commit, Rows, Claims, Recorded, LinkOf
<1>10. Claims'
  <2>1. \A l \in Links : holder'[l] = IF row[h] = "link" /\ l = LinkOf(p) THEN p ELSE holder[l]
    BY <1>1 DEF TypeOK, Commit
  <2>2. capture' = capture
    BY DEF Commit
  <2>3. \A g \in Hooks : row'[g] # "none" => g # h /\ pay[g] # p /\ pay[g] \in Payments
                                           /\ LinkOf(pay[g]) \in Links
    BY <1>1, <1>5, <1>6 DEF Claims, HookShape, Busy, TypeOK, LinkOf
  <2> QED
    BY <1>1, <1>2, <1>5, <2>1, <2>2, <2>3, PaymentsAssumption DEF Claims, LinkOf
<1>11. Locks'
  BY <1>5, <1>6 DEF Locks, Holds, Shares, Editing, Commit, staff
<1>12. Credits'
  <2>1. \A g \in Hooks : Holds(g)' => g # h /\ Holds(g) /\ credit[h] = None
    BY <1>5, <1>6 DEF Locks, Holds, Commit
  <2> QED
    BY <2>1, <1>5, <1>6, CommitCredits DEF Credits, Locks, Holds, Given, Commit, Decide, Due, AmountOf, TypeOK
<1>13. Owing' /\ NothingForgotten'
  BY <1>1, <1>2 DEF Owing, NothingForgotten, Commit, Acknowledge
<1>14. Untraced' /\ EnteredOnce'
  BY <1>1, <1>2, <1>3, <1>4 DEF TypeOK, Untraced, EnteredOnce, Commit, AmountOf
<1>15. StatusTellsMoney'
  <2>1. total \in Nat /\ total' = total
    BY PaymentsAssumption DEF TypeOK, Commit
  <2> QED
    BY <1>3, <2>1, CommitCredits DEF TypeOK, StatusTellsMoney, MoneyIn, Given
<1>16. Edits'
  <2>1. Editing => credit[h] = None
    BY DEF Locks, Holds, Commit
  <2>2. Editing => amountPaid' = amountPaid /\ status' = status
    BY <2>1, CommitCredits DEF TypeOK, Given
  <2> QED
    BY <2>2 DEF Edits, Editing, MoneyIn, Commit, staff
<1> QED
  BY <1>16, <1>7, <1>8, <1>9, <1>10, <1>11, <1>12, <1>13, <1>14, <1>15

LEMMA BeginUpdateKeeps ==
  ASSUME IInv, NEW s \in Statuses, NEW t \in Totals, BeginUpdate(s, t) PROVE IInv'
<1> USE DEF IInv, BeginUpdate, invoice, books, gateway, hooks
<1>1. TypeOK'
  BY DEF TypeOK
<1>2. HookShape' /\ Claims' /\ Credits'
  BY DEF HookShape, Busy, Claims, Recorded, LinkOf, Holds, Credits, Decide, Due, AmountOf
<1>3. Locks'
  BY DEF Locks, Holds, Shares, Unlocked
<1>4. Edits'
  BY DEF Edits, TypeOK, Statuses, Editing, MoneyIn, MayVoid, MayRewrite, MovesFrom
<1>5. Settled'
  BY SettledStays
<1> QED
  BY <1>1, <1>2, <1>3, <1>4, <1>5

LEMMA CommitUpdateKeeps == ASSUME IInv, CommitUpdate PROVE IInv'
<1> USE DEF IInv, CommitUpdate, books, gateway, hooks
<1>1. TypeOK' /\ Edits'
  BY DEF TypeOK, Edits, Editing
<1>2. HookShape' /\ Claims' /\ Locks'
  BY DEF HookShape, Busy, Claims, Recorded, LinkOf, Locks, Holds, Shares, Editing
<1>3. Credits'
  BY DEF Credits, Locks, Edits, Editing, Holds, Shares
<1>4. Rows' /\ Owing' /\ Untraced' /\ EnteredOnce' /\ NothingForgotten'
  BY DEF Settled, Rows, Owing, Untraced, EnteredOnce, NothingForgotten, Recorded, LinkOf, AmountOf
<1>5. StatusTellsMoney'
  BY PaymentsAssumption DEF TypeOK, Statuses, Edits, Editing, Settled, StatusTellsMoney, MoneyIn
<1> QED
  BY <1>1, <1>2, <1>3, <1>4, <1>5 DEF Settled

LEMMA AbandonUpdateKeeps == ASSUME IInv, AbandonUpdate PROVE IInv'
<1> USE DEF IInv, AbandonUpdate, invoice, books, gateway, hooks
<1>1. TypeOK' /\ Edits'
  BY DEF TypeOK, Edits, Editing
<1>2. HookShape' /\ Claims' /\ Locks' /\ Credits'
  BY DEF HookShape, Busy, Claims, Recorded, LinkOf, Locks, Holds, Shares, Editing, Credits,
         Decide, Due, AmountOf
<1>3. Settled'
  BY SettledStays
<1> QED
  BY <1>1, <1>2, <1>3

LEMMA FallDueKeeps == ASSUME IInv, FallDue PROVE IInv'
<1> USE DEF IInv, FallDue, books, gateway, hooks, staff
<1>1. TypeOK'
  BY DEF TypeOK, Statuses
<1>2. HookShape' /\ Claims' /\ Locks' /\ Credits' /\ Edits'
  BY DEF HookShape, Busy, Claims, Recorded, LinkOf, Locks, Holds, Shares, Editing, Credits, Edits, Updating
<1>3. Rows' /\ Owing' /\ Untraced' /\ EnteredOnce' /\ NothingForgotten'
  BY DEF Settled, Rows, Owing, Untraced, EnteredOnce, NothingForgotten, Recorded, LinkOf, AmountOf
<1>4. StatusTellsMoney'
  BY PaymentsAssumption DEF TypeOK, Settled, StatusTellsMoney, MoneyIn
<1> QED
  BY <1>1, <1>2, <1>3, <1>4 DEF Settled

\* Handing out a link touches no money.
LEMMA LinkKeeps ==
  ASSUME IInv, NEW k \in Clerks,
         (\E g \in Providers : AskLink(k, g)) \/ GrantLink(k) \/ DropLink(k)
  PROVE  IInv'
<1> USE DEF IInv, AskLink, GrantLink, DropLink, invoice, books, gateway, hooks
<1>1. TypeOK'
  BY DEF TypeOK
<1>2. HookShape' /\ Claims' /\ Locks' /\ Credits' /\ Edits'
  BY DEF HookShape, Busy, Claims, Recorded, LinkOf, Locks, Holds, Shares, Editing, Credits, Edits, MoneyIn,
         Decide, Due, AmountOf
<1>3. Settled'
  BY DEF Settled, Rows, Owing, Untraced, EnteredOnce, NothingForgotten, StatusTellsMoney, Recorded,
         LinkOf, AmountOf, MoneyIn
<1> QED
  BY <1>1, <1>2, <1>3

\* Every step keeps the invariant.
LEMMA StepKeeps == IInv /\ [Next]_vars => IInv'
<1> SUFFICES ASSUME IInv, [Next]_vars PROVE IInv'
    OBVIOUS
<1>1. CASE \E p \in Payments : Capture(p) \/ \E h \in Hooks : Deliver(h, p)
  BY <1>1, CaptureKeeps, DeliverKeeps
<1>2. CASE \E h \in Hooks : Serve(h) \/ Die(h)
  BY <1>2, ClaimLinkKeeps, InsertOwnKeeps, DuplicateKeeps, LockInvoiceKeeps, LeaveInvoiceKeeps,
     CommitKeeps, BreakDeadlockKeeps, DieKeeps DEF Serve
<1>3. CASE \E k \in Clerks : \/ \E g \in Providers : AskLink(k, g)
                             \/ GrantLink(k) \/ DropLink(k)
  BY <1>3, LinkKeeps
<1>4. CASE \/ \E s \in Statuses, t \in Totals : BeginUpdate(s, t)
           \/ CommitUpdate \/ AbandonUpdate
  BY <1>4, BeginUpdateKeeps, CommitUpdateKeeps, AbandonUpdateKeeps
<1>5. CASE FallDue
  BY <1>5, FallDueKeeps
<1>6. CASE UNCHANGED vars
  <2> USE <1>6 DEF vars, IInv, invoice, books, gateway, hooks, staff
  <2>1. TypeOK'
    BY DEF TypeOK
  <2>2. HookShape' /\ Claims' /\ Locks' /\ Credits' /\ Edits'
    BY DEF HookShape, Busy, Claims, Recorded, LinkOf, Locks, Holds, Shares, Editing, Credits,
           Edits, MoneyIn, Decide, Due, AmountOf
  <2> QED
    BY <2>1, <2>2, SettledStays
<1> QED
  BY <1>1, <1>2, <1>3, <1>4, <1>5, <1>6 DEF Next

\* IInv is an invariant.
THEOREM Invariance == Spec => []IInv
<1>1. Init => IInv
  BY Start
<1>2. IInv /\ [Next]_vars => IInv'
  BY StepKeeps
<1> QED
  BY <1>1, <1>2, PTL DEF Spec

\* The variables keep their types.
THEOREM TypeCorrect == Spec => []TypeOK
<1>1. IInv => TypeOK
  BY DEF IInv
<1> QED
  BY <1>1, Invariance, PTL

\* A payment stands in the books exactly once, its credit and its excess making up
\* what was captured.
THEOREM PaymentsEnteredOnce == Spec => []EnteredOnce
<1>1. IInv => EnteredOnce
  BY DEF IInv, Settled
<1> QED
  BY <1>1, Invariance, PTL

\* The second half of MoneyAccounted.
Balanced == amountPaid = SumFunction(Credited)

\* Only a commit writes to the audit log or to the balance.
LEMMA BooksMove ==
  [Next]_vars => \/ UNCHANGED <<amountPaid, audit>>
                 \/ \E h \in Hooks : Commit(h)
<1> USE DEF invoice, books, gateway, hooks
<1>1. ASSUME NEW h \in Hooks, \/ \E p \in Payments : Deliver(h, p)
                              \/ ClaimLink(h) \/ InsertOwn(h) \/ Duplicate(h)
                              \/ LockInvoice(h) \/ LeaveInvoice(h) \/ BreakDeadlock(h) \/ Die(h)
      PROVE  UNCHANGED <<amountPaid, audit>>
  BY <1>1 DEF Deliver, ClaimLink, InsertOwn, Duplicate, LockInvoice, LeaveInvoice, BreakDeadlock, Die
<1>2. ASSUME NEW k \in Clerks, (\E g \in Providers : AskLink(k, g)) \/ GrantLink(k) \/ DropLink(k)
      PROVE  UNCHANGED <<amountPaid, audit>>
  BY <1>2 DEF AskLink, GrantLink, DropLink
<1>3. ASSUME \/ \E p \in Payments : Capture(p)
             \/ \E s \in Statuses, t \in Totals : BeginUpdate(s, t)
             \/ CommitUpdate \/ AbandonUpdate
             \/ FallDue
             \/ UNCHANGED vars
      PROVE  UNCHANGED <<amountPaid, audit>>
  BY <1>3 DEF Capture, BeginUpdate, CommitUpdate, AbandonUpdate, FallDue, vars
<1> QED
  BY <1>1, <1>2, <1>3 DEF Next, Serve

\* A commit adds to both what it credits: until then the payment had credited nothing.
LEMMA CommitBalances ==
  ASSUME IInv, Balanced, NEW h \in Hooks, Commit(h)
  PROVE  Balanced'
<1> DEFINE p == pay[h]
           c == Given(h)
<1>1. p \in Payments /\ p \notin Recorded
  BY CommitRecords
<1>2. c \in Nat /\ amountPaid' = amountPaid + c /\ amountPaid \in Nat
  BY CommitCredits DEF IInv, TypeOK
<1>3. Credited \in [Payments -> Nat]
  BY DEF IInv, TypeOK, Credited
<1>4. Credited[p] = 0 /\ Credited' = [Credited EXCEPT ![p] = c]
  <2>1. audit[p].credited = 0 /\ audit'[p].credited = c
    BY <1>1, <1>2 DEF IInv, TypeOK, Settled, Untraced, Commit
  <2>2. \A q \in Payments \ {p} : audit'[q] = audit[q]
    BY DEF IInv, TypeOK, Commit
  <2> QED
    BY <1>1, <2>1, <2>2 DEF Credited
<1>5. SumFunction([Credited EXCEPT ![p] = c]) + Credited[p] = SumFunction(Credited) + c
  <2>1. IsFiniteSet(Payments)
    BY PaymentsAssumption
  <2>2. \A f \in [Payments -> Nat], x \in Payments, n \in Nat :
          SumFunction([f EXCEPT ![x] = n]) + f[x] = SumFunction(f) + n
    BY <2>1, SumAfterChange
  <2> HIDE DEF c, p
  <2> QED
    BY <1>1, <1>2, <1>3, <2>2
<1>6. SumFunction(Credited') \in Nat
  <2>1. Credited' \in [Payments -> Nat]
    BY <1>2, <1>3, <1>4
  <2> QED
    BY <2>1, PaymentsAssumption, SumIsNumber
<1>7. amountPaid = SumFunction(Credited)
  BY DEF Balanced
<1>8. amountPaid' = SumFunction(Credited')
  BY <1>2, <1>4, <1>5, <1>6, <1>7
<1> QED
  BY <1>8 DEF Balanced

\* No money is made or lost, in any number of payments: the credits in the audit log
\* make up amount_paid (payments.ts, the UPDATE of the invoice and the audit entry).
THEOREM MoneyIsAccounted == Spec => []MoneyAccounted
<1>1. Init => Balanced
  <2> SUFFICES ASSUME Init PROVE Balanced
      OBVIOUS
  <2>1. Credited = [p \in Payments |-> 0]
    BY DEF Init, Credited
  <2> QED
    BY <2>1, PaymentsAssumption, SumOfZeros DEF Init, Balanced
<1>2. IInv /\ Balanced /\ [Next]_vars => Balanced'
  <2> SUFFICES ASSUME IInv, Balanced, [Next]_vars PROVE Balanced'
      OBVIOUS
  <2>1. CASE UNCHANGED <<amountPaid, audit>>
    BY <2>1 DEF Balanced, Credited
  <2>2. CASE \E h \in Hooks : Commit(h)
    BY <2>2, CommitBalances
  <2> QED
    BY <2>1, <2>2, BooksMove
<1>3. IInv /\ Balanced => MoneyAccounted
  BY DEF MoneyAccounted, Balanced, IInv, Settled
<1> QED
  BY <1>1, <1>2, <1>3, Invariance, PTL DEF Spec

\* What was captured is in the books or still owed a delivery.
THEOREM NoPaymentForgotten == Spec => []NothingForgotten
<1>1. IInv => NothingForgotten
  BY DEF IInv, Settled
<1> QED
  BY <1>1, Invariance, PTL

\* The status of an invoice and its money agree, and it is never credited beyond its
\* total.
THEOREM StatusIsEarned == Spec => []StatusTellsMoney
<1>1. IInv => StatusTellsMoney
  BY DEF IInv, Settled
<1> QED
  BY <1>1, Invariance, PTL

-----------------------------------------------------------------------------
(* Who waits for whom *)

\* Who holds the invoice waits for nothing; who shares it, only for the invoice.
LEMMA SharersGoOrCross ==
  ASSUME IInv, NEW h \in Hooks, Holds(h) \/ Shares(h)
  PROVE  Going \/ (WantsInvoice(h) /\ status # "void")
BY DEF Going, Waits, WantsInvoice, Holds, Shares

\* Who has claimed its row waits at most for those.
LEMMA ClaimedGoOrCross ==
  ASSUME IInv, NEW h \in Hooks, at[h] \in {"lock", "commit"}
  PROVE  Going \/ Crossed
<1> SUFFICES ASSUME ~Going PROVE Crossed
    OBVIOUS
<1>1. Waits(h) /\ ~Editing
  BY DEF Going
<1>2. PICK g \in Hooks \ {h} : Holds(g) \/ Shares(g)
  BY <1>1 DEF Waits, HeldAtAll
<1>3. WantsInvoice(g) /\ status # "void"
  BY <1>2, SharersGoOrCross
<1>4. Waits(g)
  BY <1>3 DEF Going, WantsInvoice
<1>5. PICK k \in Hooks \ {g} : Holds(k) \/ Shares(k)
  BY <1>1, <1>3, <1>4 DEF Waits, HeldAtAll, WantsInvoice
<1>6. WantsInvoice(k)
  BY <1>5, SharersGoOrCross
<1> QED
  BY <1>3, <1>5, <1>6 DEF Crossed

\* The webhooks of apply-gateway-payment.ts wait for each other in one order, rows of
\* payments before the invoice: while one waits, another can go on, unless two
\* inserted payments share the invoice and both want it.  There is no other deadlock.
THEOREM OneDeadlockOnly == Spec => []WaitsEnd
<1>1. ASSUME IInv, NEW h \in Hooks, Waits(h) PROVE Going \/ Crossed
  <2> SUFFICES ASSUME ~Editing PROVE Going \/ Crossed
      BY DEF Going
  <2>1. CASE at[h] = "claim"
    <3>1. PICK g \in Hooks \ {h} : row[g] # "none" \/ Holds(g)
      BY <1>1, <2>1 DEF Waits, LinkLocked, IdLocked, HeldForUpdate
    <3>2. at[g] \in {"lock", "commit"}
      BY <1>1, <3>1 DEF IInv, TypeOK, Steps, HookShape, Busy, Holds
    <3> QED
      BY <1>1, <3>2, ClaimedGoOrCross
  <2>2. CASE at[h] = "lock"
    BY <1>1, <2>2, ClaimedGoOrCross
  <2> QED
    BY <1>1, <2>1, <2>2 DEF Waits
<1>2. IInv => WaitsEnd
  BY <1>1 DEF WaitsEnd
<1> QED
  BY <1>2, Invariance, PTL

-----------------------------------------------------------------------------
(* The steps *)

\* What can change the invoice, or the books.
LEMMA StepKinds ==
  [Next]_vars =>
    \/ UNCHANGED <<total, amountPaid, status, holder, own, capture, edit>>
    \/ /\ \E p \in Payments : Capture(p)
       /\ UNCHANGED <<total, amountPaid, status, holder, own, edit>>
    \/ \E h \in Hooks : Commit(h)
    \/ \E s \in Statuses, t \in Totals : BeginUpdate(s, t)
    \/ CommitUpdate
    \/ AbandonUpdate
    \/ FallDue
<1> USE DEF invoice, books, gateway, hooks, staff
<1>1. ASSUME NEW p \in Payments, Capture(p) PROVE UNCHANGED <<total, amountPaid, status, holder, own, edit>>
  BY <1>1 DEF Capture
<1>2. ASSUME NEW h \in Hooks, \/ \E p \in Payments : Deliver(h, p)
                              \/ ClaimLink(h) \/ InsertOwn(h) \/ Duplicate(h)
                              \/ LockInvoice(h) \/ LeaveInvoice(h) \/ BreakDeadlock(h) \/ Die(h)
      PROVE  UNCHANGED <<total, amountPaid, status, holder, own, capture, edit>>
  BY <1>2 DEF Deliver, ClaimLink, InsertOwn, Duplicate, LockInvoice, LeaveInvoice, BreakDeadlock, Die
<1>3. ASSUME NEW k \in Clerks, (\E g \in Providers : AskLink(k, g)) \/ GrantLink(k) \/ DropLink(k)
      PROVE  UNCHANGED <<total, amountPaid, status, holder, own, capture, edit>>
  BY <1>3 DEF AskLink, GrantLink, DropLink
<1>4. UNCHANGED vars => UNCHANGED <<total, amountPaid, status, holder, own, capture, edit>>
  BY DEF vars
<1> QED
  BY <1>1, <1>2, <1>3, <1>4 DEF Next, Serve

\* A closed invoice stays closed, and money does not move back.
LEMMA StepStaysClosed ==
  ASSUME IInv, [Next]_vars
  PROVE  /\ status \in {"paid", "void"} => status' = status /\ total' = total
         /\ MoneyIn => total' = total /\ amountPaid' >= amountPaid
<1>1. CASE UNCHANGED <<total, amountPaid, status>>
  BY <1>1 DEF IInv, TypeOK
<1>2. CASE \E h \in Hooks : Commit(h)
  <2> PICK h \in Hooks : Commit(h)
    BY <1>2
  <2>1. total' = total
    BY DEF Commit
  <2> QED
    BY <2>1, CommitCredits DEF IInv, TypeOK, Settled, StatusTellsMoney
<1>3. CASE \/ \E s \in Statuses, t \in Totals : BeginUpdate(s, t)
           \/ AbandonUpdate
  BY <1>3 DEF BeginUpdate, AbandonUpdate, invoice, IInv, TypeOK
<1>4. CASE CommitUpdate
  BY <1>4 DEF CommitUpdate, Edits, Editing, IInv, TypeOK, MoneyIn
<1>5. CASE FallDue
  BY <1>5 DEF FallDue, IInv, TypeOK
<1> QED
  BY <1>1, <1>2, <1>3, <1>4, <1>5, StepKinds

\* A closed invoice stays closed, and once money is in, neither the total nor what was
\* paid moves back.
THEOREM ClosedInvoiceStays == Spec => ClosedStaysClosed
<1>1. IInv /\ [Next]_vars =>
        [/\ status \in {"paid", "void"} => status' = status /\ total' = total
         /\ MoneyIn => total' = total /\ amountPaid' >= amountPaid]_vars
  BY StepStaysClosed
<1> QED
  BY <1>1, Invariance, PTL DEF Spec, ClosedStaysClosed

\* Entering a payment is one step of the ledger.
LEMMA CommitEnters == ASSUME IInv, NEW h \in Hooks, Commit(h) PROVE Ledger!Enter(pay[h])
<1> DEFINE p == pay[h]
<1>1. p \in Payments /\ p \notin Recorded /\ Recorded' = Recorded \union {p}
  BY CommitRecords
<1>2. AmountOf(p) \in Nat \ {0} /\ Captured[p] = AmountOf(p) /\ Captured' = Captured /\ total' = total
  <2>1. capture[p] # None /\ AmountOf(p) \in Nat \ {0}
    BY Serving DEF IInv, Commit
  <2>2. capture' = capture /\ total' = total
    BY DEF Commit
  <2> QED
    BY <1>1, <2>1, <2>2 DEF Captured, AmountOf
<1>3. amountPaid \in Nat /\ total \in Nat /\ amountPaid <= total
  BY PaymentsAssumption DEF IInv, TypeOK, Settled, StatusTellsMoney
<1>6. Voiding' = Voiding /\ (Voiding => p \in Foreign)
  <2>1. Voiding' = Voiding
    BY DEF Commit, staff, Voiding, Editing
  <2>2. Voiding => status # "void" /\ credit[h] = None
    BY DEF Voiding, Commit, IInv, Edits, Locks, Holds
  <2>3. credit[h] = None => p \in Foreign \/ status = "void"
    BY DEF IInv, Credits, Holds, Commit
  <2> QED
    BY <2>1, <2>2, <2>3
<1>4. CASE credit[h] = None
  <2>1. p \in Foreign \/ status = "void"
    BY <1>4 DEF IInv, Credits, Holds, Commit
  <2>2. status' = status /\ amountPaid' = amountPaid
    BY <1>3, <1>4 DEF Commit, Given
  <2> QED
    BY <1>1, <1>2, <1>3, <1>6, <2>1, <2>2 DEF Ledger!Enter, Ledger!CreditOf
<1>5. CASE credit[h] # None
  <2>1. /\ status # "void" /\ p \notin Foreign
        /\ amountPaid' = amountPaid + Lesser(AmountOf(p), total - amountPaid)
        /\ amountPaid' <= total
        /\ status' = IF amountPaid' = total THEN "paid" ELSE status
    BY <1>5, CommitCredits
  <2>2. amountPaid' \in Int
    BY <1>2, <1>3, <2>1 DEF Lesser
  <2> QED
    BY <1>1, <1>2, <1>3, <1>6, <2>1, <2>2 DEF Ledger!Enter, Ledger!CreditOf, Ledger!Lesser, Lesser
<1> QED
  BY <1>4, <1>5

\* Of a person's PATCH the ledger sees the void that has been allowed ...
LEMMA BeginUpdateAllows ==
  ASSUME IInv, NEW s \in Statuses, NEW t \in Totals, BeginUpdate(s, t)
  PROVE  Ledger!AllowVoid \/ UNCHANGED (Ledger!ledgerVars)
<1>1. UNCHANGED <<total, amountPaid, status, Captured, Recorded>>
  BY DEF BeginUpdate, invoice, books, gateway, Captured, AmountOf, Recorded
<1>2. edit = None /\ edit' = [status |-> s, total |-> t] /\ edit' # None
  BY PaymentsAssumption DEF BeginUpdate, Unlocked, Editing
<1>3. Voiding = FALSE /\ (Voiding' <=> s = "void")
  BY <1>2 DEF Voiding, Editing
<1>4. CASE s = "void"
  <2>1. status \in {"draft", "sent", "overdue"} /\ amountPaid = 0 /\ Recorded = {}
    BY <1>4, PaymentsAssumption DEF IInv, TypeOK, Statuses, BeginUpdate, MayVoid, MayRewrite, MoneyIn,
       MovesFrom
  <2> QED
    BY <1>1, <1>3, <1>4, <2>1 DEF Ledger!AllowVoid, Ledger!Open, Voiding
<1>5. CASE s # "void"
  <2>1. Voiding' = Voiding
    BY <1>3, <1>5 DEF Voiding
  <2> QED
    BY <1>1, <2>1 DEF Ledger!ledgerVars
<1> QED
  BY <1>4, <1>5

\* ... and what it writes.
LEMMA CommitUpdateAmends ==
  ASSUME IInv, CommitUpdate PROVE Ledger!Amend \/ Ledger!EndVoid
<1>1. UNCHANGED <<amountPaid, Captured, Recorded>>
  BY DEF CommitUpdate, books, gateway, Captured, AmountOf, Recorded
<1>2. /\ Voiding = (edit.status = "void") /\ Voiding' = FALSE
      /\ status' = edit.status /\ total' = edit.total
  BY DEF CommitUpdate, Voiding, Editing
<1>3. /\ status \in {"draft", "sent", "overdue"}
      /\ edit.status \in {"draft", "sent", "overdue", "void"}
      /\ edit.total # total => ~(amountPaid > 0)
      /\ edit.total \in Nat
  BY PaymentsAssumption DEF IInv, TypeOK, Edits, CommitUpdate, Editing, MoneyIn
<1>4. CASE edit.status = "void"
  BY <1>1, <1>2, <1>3, <1>4 DEF Ledger!EndVoid
<1>5. CASE edit.status # "void"
  BY <1>1, <1>2, <1>3, <1>5 DEF Ledger!Amend, Ledger!Open
<1> QED
  BY <1>4, <1>5

LEMMA AbandonUpdateEnds ==
  ASSUME IInv, AbandonUpdate PROVE Ledger!EndVoid \/ UNCHANGED (Ledger!ledgerVars)
<1>1. UNCHANGED <<total, amountPaid, status, Captured, Recorded>>
  BY DEF AbandonUpdate, invoice, books, gateway, Captured, AmountOf, Recorded
<1>2. Voiding' = FALSE /\ Voiding \in BOOLEAN
  BY DEF AbandonUpdate, Voiding, Editing
<1> QED
  BY <1>1, <1>2 DEF Ledger!EndVoid, Ledger!ledgerVars

\* What the sweep may do to an invoice, the ledger allows.
LEMMA FallDueAmends == ASSUME IInv, FallDue PROVE Ledger!Amend
<1>1. UNCHANGED <<amountPaid, Captured, Recorded>>
  BY DEF FallDue, books, gateway, Captured, AmountOf, Recorded
<1>2. Voiding = FALSE /\ Voiding' = FALSE
  BY DEF FallDue, Updating, Voiding, Editing, staff
<1> QED
  BY <1>1, <1>2, PaymentsAssumption DEF IInv, TypeOK, FallDue, Ledger!Amend, Ledger!Open

LEMMA CaptureCaptures ==
  ASSUME IInv, NEW p \in Payments, Capture(p),
         UNCHANGED <<total, amountPaid, status, holder, own, edit>>
  PROVE  Ledger!LCapture(p)
<1>1. PICK l \in Links, a \in Amounts :
        capture' = [capture EXCEPT ![p] = [link |-> l, amount |-> a]]
  BY DEF Capture
<1>2. capture[p] = None /\ a \in Nat \ {0} /\ [link |-> l, amount |-> a] # None
  BY PaymentsAssumption DEF Capture
<1>3. capture'[p] = [link |-> l, amount |-> a] /\ \A q \in Payments \ {p} : capture'[q] = capture[q]
  BY <1>1 DEF IInv, TypeOK
<1>4. Captured[p] = 0 /\ Captured' = [Captured EXCEPT ![p] = a]
  <2>1. \A q \in Payments : Captured[q] = IF capture[q] = None THEN 0 ELSE capture[q].amount
    BY DEF Captured, AmountOf
  <2>2. \A q \in Payments : Captured'[q] = IF capture'[q] = None THEN 0 ELSE capture'[q].amount
    BY DEF Captured, AmountOf
  <2>3. Captured[p] = 0 /\ Captured'[p] = a /\ \A q \in Payments \ {p} : Captured'[q] = Captured[q]
    BY <1>2, <1>3, <2>1, <2>2
  <2> QED
    BY <2>3 DEF Captured
<1>5. Captured'[p] = a
  BY <1>4 DEF Captured
<1>6. Recorded' = Recorded /\ Voiding' = Voiding
  BY DEF Recorded, Voiding, Editing
<1> QED
  BY <1>2, <1>4, <1>5, <1>6 DEF Ledger!LCapture

\* The transactions implement the ledger.
THEOREM ImplementsTheLedger == Spec => ImplementsLedger
<1>1. Init => Ledger!LInit
  BY PaymentsAssumption DEF Init, Ledger!LInit, Recorded, Captured, Voiding, Editing
<1>2. IInv /\ [Next]_vars => [Ledger!LNext]_(Ledger!ledgerVars)
  <2> SUFFICES ASSUME IInv, [Next]_vars PROVE [Ledger!LNext]_(Ledger!ledgerVars)
      OBVIOUS
  <2>1. CASE UNCHANGED <<total, amountPaid, status, holder, own, capture, edit>>
    BY <2>1 DEF Ledger!ledgerVars, Recorded, Captured, AmountOf, Voiding, Editing
  <2>2. CASE /\ \E p \in Payments : Capture(p)
             /\ UNCHANGED <<total, amountPaid, status, holder, own, edit>>
    BY <2>2, CaptureCaptures DEF Ledger!LNext
  <2>3. CASE \E h \in Hooks : Commit(h)
    BY <2>3, CommitEnters, CommitRecords DEF Ledger!LNext
  <2>4. CASE \E s \in Statuses, t \in Totals : BeginUpdate(s, t)
    BY <2>4, BeginUpdateAllows DEF Ledger!LNext
  <2>5. CASE CommitUpdate
    BY <2>5, CommitUpdateAmends DEF Ledger!LNext
  <2>6. CASE AbandonUpdate
    BY <2>6, AbandonUpdateEnds DEF Ledger!LNext
  <2>7. CASE FallDue
    BY <2>7, FallDueAmends DEF Ledger!LNext
  <2> QED
    BY <2>1, <2>2, <2>3, <2>4, <2>5, <2>6, <2>7, StepKinds
<1> QED
  BY <1>1, <1>2, Invariance, PTL DEF Spec, ImplementsLedger, Ledger!LSpec
=============================================================================
