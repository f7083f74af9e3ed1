---------------------------- MODULE InvoiceLedger ----------------------------
(***************************************************************************)
(* What the owner of an invoice is promised, with no webhook, no lock and  *)
(* no transaction in it: a captured payment is entered once, in one step   *)
(* that credits as much of it as is still owed, and nothing but such an    *)
(* entry changes what has been paid.  InvoicePayments implements it.       *)
(***************************************************************************)
EXTENDS Integers

CONSTANTS Payments,
          Foreign    \* payments captured in another currency than the link's

VARIABLES total, amountPaid, status,
          amount,    \* per payment: what the gateway captured, 0 before it did
          entered,   \* payments that stand in the books
          voiding    \* a person has been allowed to void it, and is about to

ledgerVars == <<total, amountPaid, status, amount, entered, voiding>>

Open == {"draft", "sent", "overdue"}

Lesser(a, b) == IF a <= b THEN a ELSE b

\* What an entry may credit: nothing in a foreign currency or on a void invoice.
CreditOf(p) == IF p \in Foreign \/ status = "void" THEN 0
               ELSE Lesser(amount[p], total - amountPaid)

LInit == /\ status = "draft"
         /\ amountPaid = 0
         /\ total \in Nat
         /\ amount = [p \in Payments |-> 0]
         /\ entered = {}
         /\ voiding = FALSE

LCapture(p) == /\ amount[p] = 0
               /\ amount'[p] \in Nat \ {0}
               /\ amount' = [amount EXCEPT ![p] = amount'[p]]
               /\ UNCHANGED <<total, amountPaid, status, entered, voiding>>

\* While the invoice is being voided, only what would not be credited anyway.
Enter(p) ==
  /\ amount[p] > 0
  /\ p \notin entered
  /\ voiding => p \in Foreign
  /\ entered' = entered \union {p}
  /\ amountPaid' = amountPaid + CreditOf(p)
  /\ \/ /\ p \notin Foreign /\ status # "void" /\ amountPaid' = total
        /\ status' = "paid"
     \/ /\ p \in Foreign \/ status = "void" \/ amountPaid' < total
        /\ status' = status
  /\ UNCHANGED <<total, amount, voiding>>

\* A person, or the calendar: open until money is in.
Amend ==
  /\ ~voiding
  /\ status \in Open /\ status' \in Open
  /\ amountPaid > 0 => total' = total
  /\ total' \in Nat
  /\ UNCHANGED <<amountPaid, amount, entered, voiding>>

\* A person may void what no payment was entered against.
AllowVoid ==
  /\ ~voiding /\ voiding' = TRUE
  /\ status \in Open
  /\ amountPaid = 0 /\ entered = {}
  /\ UNCHANGED <<total, amountPaid, status, amount, entered>>

\* It takes effect, or comes to nothing.
EndVoid ==
  /\ voiding /\ voiding' = FALSE
  /\ \/ status' = "void" /\ total' \in Nat
     \/ UNCHANGED <<status, total>>
  /\ UNCHANGED <<amountPaid, amount, entered>>

LNext == \/ \E p \in Payments : LCapture(p) \/ Enter(p)
         \/ Amend \/ AllowVoid \/ EndVoid

LSpec == LInit /\ [][LNext]_ledgerVars
==============================================================================
