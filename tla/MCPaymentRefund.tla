-------------------------- MODULE MCPaymentRefund --------------------------
(* Model-checking instances of PaymentRefund.                              *)
EXTENDS PaymentRefund, TLC

\* No action names a call.
Symmetry == Permutations(Calls)

=============================================================================
