-------------------------- MODULE MCInvoicePayments --------------------------
(* Instances of InvoicePayments for TLC. *)
EXTENDS InvoicePayments, TLC

\* No action tells two hooks, two links or two gateways apart, nor two payments
\* of one currency.
Interchangeable ==
  Permutations(Hooks) \union Permutations(Links) \union Permutations(Providers)
    \union Permutations(Payments \ Foreign)
==============================================================================
