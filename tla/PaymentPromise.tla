--------------------------- MODULE PaymentPromise ---------------------------
(***************************************************************************)
(* What the payment service promises of one order, with none of its        *)
(* machinery: the payment is confirmed, then the benefit is granted, once, *)
(* and only then may the inviter be paid, once, and the order be settled.  *)
(* Nothing is ever taken back (refunds are another component).             *)
(***************************************************************************)
EXTENDS Naturals

VARIABLES
    confirmed,   \* the provider's payment was accepted for the order
    granted,     \* times the user received the benefit
    rebated,     \* times the inviter received the rebate
    settled      \* the order is reported as completed

vars == <<confirmed, granted, rebated, settled>>

Init ==
    /\ confirmed = FALSE
    /\ granted = 0
    /\ rebated = 0
    /\ settled = FALSE

Confirm ==
    /\ ~confirmed
    /\ confirmed' = TRUE
    /\ UNCHANGED <<granted, rebated, settled>>

Grant ==
    /\ confirmed
    /\ granted = 0
    /\ granted' = 1
    /\ UNCHANGED <<confirmed, rebated, settled>>

Rebate ==
    /\ granted = 1
    /\ rebated = 0
    /\ rebated' = 1
    /\ UNCHANGED <<confirmed, granted, settled>>

Settle ==
    /\ granted = 1
    /\ ~settled
    /\ settled' = TRUE
    /\ UNCHANGED <<confirmed, granted, rebated>>

Next == Confirm \/ Grant \/ Rebate \/ Settle

Spec == Init /\ [][Next]_vars

=============================================================================
