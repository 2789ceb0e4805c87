---------------------- MODULE PaymentFulfillmentProofs ----------------------
(***************************************************************************)
(* Proofs about PaymentFulfillment for any set of workers and any number   *)
(* of faults.  The inductive invariant ties each place the money can be    *)
(* counted to the row that guards it: the benefit to the redeem code or    *)
(* the assignment audit, the rebate to its claim, the confirmation to the  *)
(* provider's record, and each worker's position to the facts it rests on. *)
(***************************************************************************)
EXTENDS PaymentFulfillment, TLAPS

\* The benefit was granted exactly when the row that guards it says so.
BenefitKey ==
    credited = IF \/ orderType = "balance" /\ code = "used"
                  \/ orderType = "subscription" /\ "SUBSCRIPTION_ASSIGNED" \in audits
               THEN 1 ELSE 0

\* The rebate was accrued exactly when its claim is there, after the benefit.
RebateKey ==
    /\ rebates = IF "AFFILIATE_REBATE_APPLIED" \in audits THEN 1 ELSE 0
    /\ rebates = 1 => credited = 1

\* What the row's status says about the payment, and about CreateOrder.
PaymentFacts ==
    /\ paidAt => upstream = "paid"
    /\ credited = 1 => paidAt
    /\ upstream \in {"paid", "mispaid"} => creator = "shown"
    /\ creator = "start" <=> status = "NONE"
    /\ status \in {"PAID", "RECHARGING"} => paidAt
    /\ status = "FAILED" => paidAt \/ creator = "gone"
    /\ status = "COMPLETED" => paidAt /\ credited = 1

\* What each worker's position says.
WorkerFacts ==
    \A w \in Workers :
        /\ pc[w] \in {"persist", "toPaid"} => upstream \in {"paid", "mispaid"}
        /\ pc[w] = "already" =>
              upstream = "paid" /\ status \notin {"NONE", "PENDING", "CANCELLED"}
        /\ pc[w] \in FulfilPcs \cup LeasedPcs => paidAt
        /\ pc[w] \in {"create", "redeem"} => orderType = "balance"
        /\ pc[w] \in GrantedPcs => credited = 1
        /\ pc[w] \in QueryPcs => src[w] # "webhook"

IInv ==
    /\ TypeOK
    /\ BenefitKey
    /\ RebateKey
    /\ PaymentFacts
    /\ WorkerFacts
    /\ AckedIsHandled

USE DEF row, stamp, benefit, env, call,
        OrderTypes, Statuses, PaidPcs, FulfilPcs, GrantPcs, GrantedPcs,
        LeasedPcs, QueryPcs, Pcs, Sources, RebateClaims, Audits

\* The invariant holds of an order that was not created yet.
LEMMA InitInv == Init => IInv
<1> SUFFICES ASSUME Init PROVE IInv
  OBVIOUS
<1>1. /\ aged \in BOOLEAN /\ due \in BOOLEAN /\ paidAt \in BOOLEAN
      /\ tradeNo \in BOOLEAN /\ acked \in BOOLEAN /\ swallowed \in BOOLEAN
  BY DEF Init
<1>2. TypeOK
  BY <1>1, MaxFaultsAssumption DEF Init, TypeOK
<1>3. BenefitKey /\ RebateKey
  BY DEF Init, BenefitKey, RebateKey
<1>4. PaymentFacts
  BY DEF Init, PaymentFacts
<1>5. WorkerFacts
  BY DEF Init, WorkerFacts
<1>6. AckedIsHandled
  BY DEF Init, AckedIsHandled
<1> QED
  BY <1>2, <1>3, <1>4, <1>5, <1>6 DEF IInv

\* Every step of the world and of a worker keeps the types.
LEMMA TypeStep == IInv /\ [Next]_vars => TypeOK'
<1> SUFFICES ASSUME IInv, [Next]_vars PROVE TypeOK'
  OBVIOUS
<1> USE MaxFaultsAssumption DEF IInv, TypeOK
<1>1. CASE CreateOrderInTx
    BY <1>1 DEF CreateOrderInTx, Stamp
<1>2. CASE InvokeProvider
    BY <1>2 DEF InvokeProvider, Stamp
<1>3. CASE InvokeProviderFails
    BY <1>3 DEF InvokeProviderFails, Fault
<1>4. CASE CreateOrderFails
  <2>1. /\ aged' \in BOOLEAN /\ paidAt' \in BOOLEAN
        /\ tradeNo' \in BOOLEAN /\ acked' \in BOOLEAN
        /\ holders' \subseteq Workers
    BY <1>4 DEF CreateOrderFails, Stamp
  <2> QED
    BY <1>4, <2>1 DEF CreateOrderFails, Stamp
<1>5. CASE UserPays
    BY <1>5 DEF UserPays
<1>6. CASE FiveMinutesPass
    BY <1>6 DEF FiveMinutesPass, Fault
<1>7. CASE OrderTimesOut
    BY <1>7 DEF OrderTimesOut
<1>8. ASSUME NEW w \in Workers,
             HandleNotify(w) \/ Request(w) \/ Step(w) \/ Trouble(w)
      PROVE  TypeOK'
  <2>1. CASE HandleNotify(w)
      BY <2>1 DEF HandleNotify, Start
  <2>2. CASE CancelOrder(w)
      BY <2>2 DEF CancelOrder, Start
  <2>3. CASE ExpireTimedOutOrders(w)
      BY <2>3 DEF ExpireTimedOutOrders, Start
  <2>4. CASE VerifyOrderByOutTradeNo(w)
      BY <2>4 DEF VerifyOrderByOutTradeNo, Start
  <2>5. CASE RetryFulfillment(w)
      BY <2>5 DEF RetryFulfillment, Start
  <2>6. CASE QueryOrder(w)
      BY <2>6 DEF QueryOrder, Goto, Finish
  <2>7. CASE PersistTradeNo(w)
    <3>1. /\ aged' \in BOOLEAN /\ paidAt' \in BOOLEAN
          /\ tradeNo' \in BOOLEAN /\ acked' \in BOOLEAN
          /\ holders' \subseteq Workers
      BY <2>7 DEF PersistTradeNo, Goto, Stamp
    <3> QED
      BY <2>7, <3>1 DEF PersistTradeNo, Goto, Stamp
  <2>8. CASE CancelPayment(w)
      BY <2>8 DEF CancelPayment, Goto
  <2>9. CASE CancelCore(w)
    <3>1. /\ aged' \in BOOLEAN /\ paidAt' \in BOOLEAN
          /\ tradeNo' \in BOOLEAN /\ acked' \in BOOLEAN
          /\ holders' \subseteq Workers
      BY <2>9 DEF CancelCore, Stamp, Finish
    <3> QED
      BY <2>9, <3>1 DEF CancelCore, Stamp, Finish
  <2>10. CASE ConfirmPayment(w)
      BY <2>10 DEF ConfirmPayment, AmountMatches, Finish
  <2>11. CASE ToPaid(w)
    <3>1. /\ aged' \in BOOLEAN /\ paidAt' \in BOOLEAN
          /\ tradeNo' \in BOOLEAN /\ acked' \in BOOLEAN
          /\ holders' \subseteq Workers
      BY <2>11 DEF ToPaid, AmountMatches, Payable, Stamp, Goto
    <3> QED
      BY <2>11, <3>1 DEF ToPaid, AmountMatches, Payable, Stamp, Goto
  <2>12. CASE AlreadyProcessed(w)
    <3>1. acked' \in BOOLEAN /\ audits' \subseteq Audits
      BY <2>12 DEF AlreadyProcessed, Goto, Finish
    <3> QED
      BY <2>12, <3>1 DEF AlreadyProcessed, Goto, Finish
  <2>13. CASE AcquireLease(w)
    <3>1. /\ aged' \in BOOLEAN /\ acked' \in BOOLEAN
          /\ holders' \subseteq Workers
      BY <2>13 DEF AcquireLease, Claimable, Stamp, Goto, Finish
    <3> QED
      BY <2>13, <3>1 DEF AcquireLease, Claimable, Stamp, Goto, Finish
  <2>14. CASE ReloadLease(w)
      BY <2>14 DEF ReloadLease, Goto, Finish
  <2>15. CASE ResolveRedeemAction(w)
      BY <2>15 DEF ResolveRedeemAction, Goto
  <2>16. CASE CreateCode(w)
      BY <2>16 DEF CreateCode, Goto
  <2>17. CASE Redeem(w)
      BY <2>17 DEF Redeem, Goto
  <2>18. CASE DoSub(w)
      BY <2>18 DEF DoSub, EnsureSubscriptionAssigned, Goto
  <2>19. CASE RebateNotExists(w)
      BY <2>19 DEF RebateNotExists, Goto
  <2>20. CASE RebateClaim(w)
    <3>1. audits' \in {audits, audits \cup {"AFFILIATE_REBATE_APPLIED"},
                       audits \cup {"AFFILIATE_REBATE_SKIPPED"}}
      BY <2>20 DEF RebateClaim
    <3>2. audits' \subseteq Audits
      BY <3>1
    <3>3. rebates' \in Nat
      BY <2>20 DEF RebateClaim
    <3>4. pc' \in [Workers -> Pcs]
      BY <2>20 DEF RebateClaim, Goto
    <3> QED
      BY <2>20, <3>2, <3>3, <3>4 DEF RebateClaim, Goto
  <2>21. CASE MarkCompleted(w)
    <3>1. /\ aged' \in BOOLEAN /\ paidAt' \in BOOLEAN
          /\ tradeNo' \in BOOLEAN /\ acked' \in BOOLEAN
          /\ holders' \subseteq Workers
      BY <2>21 DEF MarkCompleted, HoldsLease, Stamp, Finish, Goto
    <3> QED
      BY <2>21, <3>1 DEF MarkCompleted, HoldsLease, Stamp, Finish, Goto
  <2>22. CASE MarkFailed(w)
    <3>1. /\ aged' \in BOOLEAN /\ paidAt' \in BOOLEAN
          /\ tradeNo' \in BOOLEAN /\ acked' \in BOOLEAN
          /\ holders' \subseteq Workers
      BY <2>22 DEF MarkFailed, HoldsLease, Stamp, Finish
    <3> QED
      BY <2>22, <3>1 DEF MarkFailed, HoldsLease, Stamp, Finish
  <2>23. CASE QueryOrderFails(w)
      BY <2>23 DEF QueryOrderFails, Fault, Finish, Goto
  <2>24. CASE RedeemLookupFails(w)
      BY <2>24 DEF RedeemLookupFails, Fault, Goto
  <2>25. CASE RedeemReplyLost(w)
      BY <2>25 DEF RedeemReplyLost, Fault, Goto
  <2>26. CASE DoSubInvalidateFails(w)
      BY <2>26 DEF DoSubInvalidateFails, Fault, EnsureSubscriptionAssigned,
          Goto
  <2>27. CASE StepFails(w)
      BY <2>27 DEF StepFails, Fault, Finish, Goto
  <2>28. CASE ReadErrorSwallowed(w)
      BY <2>28 DEF ReadErrorSwallowed, Fault, Finish
  <2>29. CASE Crash(w)
      BY <2>29 DEF Crash, Fault, Finish
  <2>30. CASE AfterExpiryUnrecorded(w)
      BY <2>30 DEF AfterExpiryUnrecorded, Fault, Finish
  <2> QED
    BY <1>8, <2>1, <2>2, <2>3, <2>4, <2>5, <2>6, <2>7, <2>8, <2>9, <2>10,
        <2>11, <2>12, <2>13, <2>14, <2>15, <2>16, <2>17, <2>18, <2>19,
        <2>20, <2>21, <2>22, <2>23, <2>24, <2>25, <2>26, <2>27, <2>28,
        <2>29, <2>30 DEF Request, Step, Trouble
<1>9. CASE UNCHANGED vars
  BY <1>9 DEF vars
<1> QED
  BY <1>1, <1>2, <1>3, <1>4, <1>5, <1>6, <1>7, <1>8, <1>9 DEF Next, World

\* Every step of the world and of a worker keeps the rest of the invariant.
LEMMA InvStep == IInv /\ [Next]_vars =>
          /\ BenefitKey' /\ RebateKey' /\ PaymentFacts'
          /\ WorkerFacts' /\ AckedIsHandled'
<1> SUFFICES ASSUME IInv, [Next]_vars PROVE 
        /\ BenefitKey' /\ RebateKey' /\ PaymentFacts'
        /\ WorkerFacts' /\ AckedIsHandled'
  OBVIOUS
<1> USE DEF IInv, TypeOK, BenefitKey, RebateKey, PaymentFacts, WorkerFacts,
             AckedIsHandled
<1>1. CASE CreateOrderInTx
    BY <1>1 DEF CreateOrderInTx, Stamp
<1>2. CASE InvokeProvider
    BY <1>2 DEF InvokeProvider, Stamp
<1>3. CASE InvokeProviderFails
    BY <1>3 DEF InvokeProviderFails, Fault
<1>4. CASE CreateOrderFails
    BY <1>4 DEF CreateOrderFails, Stamp
<1>5. CASE UserPays
    BY <1>5 DEF UserPays
<1>6. CASE FiveMinutesPass
    BY <1>6 DEF FiveMinutesPass, Fault
<1>7. CASE OrderTimesOut
    BY <1>7 DEF OrderTimesOut
<1>8. ASSUME NEW w \in Workers,
             HandleNotify(w) \/ Request(w) \/ Step(w) \/ Trouble(w)
      PROVE  /\ BenefitKey' /\ RebateKey' /\ PaymentFacts'
             /\ WorkerFacts' /\ AckedIsHandled'
  <2>1. CASE HandleNotify(w)
      BY <2>1 DEF HandleNotify, Start
  <2>2. CASE CancelOrder(w)
      BY <2>2 DEF CancelOrder, Start
  <2>3. CASE ExpireTimedOutOrders(w)
      BY <2>3 DEF ExpireTimedOutOrders, Start
  <2>4. CASE VerifyOrderByOutTradeNo(w)
      BY <2>4 DEF VerifyOrderByOutTradeNo, Start
  <2>5. CASE RetryFulfillment(w)
      BY <2>5 DEF RetryFulfillment, Start
  <2>6. CASE QueryOrder(w)
      BY <2>6 DEF QueryOrder, Goto, Finish
  <2>7. CASE PersistTradeNo(w)
      BY <2>7 DEF PersistTradeNo, Goto, Stamp
  <2>8. CASE CancelPayment(w)
      BY <2>8 DEF CancelPayment, Goto
  <2>9. CASE CancelCore(w)
      BY <2>9 DEF CancelCore, Stamp, Finish
  <2>10. CASE ConfirmPayment(w)
      BY <2>10 DEF ConfirmPayment, AmountMatches, Finish
  <2>11. CASE ToPaid(w)
      BY <2>11 DEF ToPaid, AmountMatches, Payable, Stamp, Goto
  <2>12. CASE AlreadyProcessed(w)
      BY <2>12 DEF AlreadyProcessed, Goto, Finish
  <2>13. CASE AcquireLease(w)
      BY <2>13 DEF AcquireLease, Claimable, Stamp, Goto, Finish
  <2>14. CASE ReloadLease(w)
      BY <2>14 DEF ReloadLease, Goto, Finish
  <2>15. CASE ResolveRedeemAction(w)
      BY <2>15 DEF ResolveRedeemAction, Goto
  <2>16. CASE CreateCode(w)
      BY <2>16 DEF CreateCode, Goto
  <2>17. CASE Redeem(w)
      BY <2>17 DEF Redeem, Goto
  <2>18. CASE DoSub(w)
      BY <2>18 DEF DoSub, EnsureSubscriptionAssigned, Goto
  <2>19. CASE RebateNotExists(w)
      BY <2>19 DEF RebateNotExists, Goto
  <2>20. CASE RebateClaim(w)
      BY <2>20 DEF RebateClaim, Goto
  <2>21. CASE MarkCompleted(w)
      BY <2>21 DEF MarkCompleted, HoldsLease, Stamp, Finish, Goto
  <2>22. CASE MarkFailed(w)
      BY <2>22 DEF MarkFailed, HoldsLease, Stamp, Finish
  <2>23. CASE QueryOrderFails(w)
      BY <2>23 DEF QueryOrderFails, Fault, Finish, Goto
  <2>24. CASE RedeemLookupFails(w)
      BY <2>24 DEF RedeemLookupFails, Fault, Goto
  <2>25. CASE RedeemReplyLost(w)
      BY <2>25 DEF RedeemReplyLost, Fault, Goto
  <2>26. CASE DoSubInvalidateFails(w)
      BY <2>26 DEF DoSubInvalidateFails, Fault, EnsureSubscriptionAssigned,
          Goto
  <2>27. CASE StepFails(w)
      BY <2>27 DEF StepFails, Fault, Finish, Goto
  <2>28. CASE ReadErrorSwallowed(w)
      BY <2>28 DEF ReadErrorSwallowed, Fault, Finish
  <2>29. CASE Crash(w)
      BY <2>29 DEF Crash, Fault, Finish
  <2>30. CASE AfterExpiryUnrecorded(w)
      BY <2>30 DEF AfterExpiryUnrecorded, Fault, Finish
  <2> QED
    BY <1>8, <2>1, <2>2, <2>3, <2>4, <2>5, <2>6, <2>7, <2>8, <2>9, <2>10,
        <2>11, <2>12, <2>13, <2>14, <2>15, <2>16, <2>17, <2>18, <2>19,
        <2>20, <2>21, <2>22, <2>23, <2>24, <2>25, <2>26, <2>27, <2>28,
        <2>29, <2>30 DEF Request, Step, Trouble
<1>9. CASE UNCHANGED vars
  BY <1>9 DEF vars
<1> QED
  BY <1>1, <1>2, <1>3, <1>4, <1>5, <1>6, <1>7, <1>8, <1>9 DEF Next, World

-----------------------------------------------------------------------------
\* The invariant holds in every reachable state, for every set of workers.
THEOREM Invariance == Spec => []IInv
<1>1. IInv /\ [Next]_vars => IInv'
  BY TypeStep, InvStep DEF IInv
<1> QED
  BY InitInv, <1>1, PTL DEF Spec

\* The variables of the order keep their types.
THEOREM TypeCorrect == Spec => []TypeOK
<1>1. IInv => TypeOK
  BY DEF IInv
<1> QED
  BY Invariance, <1>1, PTL

\* doBalance and doSub credit the user at most once, however many workers
\* fulfil the order and whatever fails between their steps.
THEOREM CreditedOnce == Spec => []CreditAtMostOnce
<1>1. IInv => CreditAtMostOnce
  BY DEF IInv, BenefitKey, CreditAtMostOnce
<1> QED
  BY Invariance, <1>1, PTL

\* markCompleted is only reached with the benefit granted.
THEOREM CompletedCredited == Spec => []CompletedIsCredited
<1>1. IInv => CompletedIsCredited
  BY DEF IInv, PaymentFacts, CompletedIsCredited
<1> QED
  BY Invariance, <1>1, PTL

\* Only a payment the provider reports with the right amount is credited.
THEOREM CreditedPaid == Spec => []CreditedOnlyIfPaid
<1>1. IInv => CreditedOnlyIfPaid
  BY DEF IInv, TypeOK, BenefitKey, PaymentFacts, CreditedOnlyIfPaid
<1> QED
  BY Invariance, <1>1, PTL

\* applyAffiliateRebateForOrder accrues at most one rebate, after the benefit.
THEOREM RebatedOnce == Spec => []RebateAtMostOnce
<1>1. IInv => RebateAtMostOnce
  BY DEF IInv, TypeOK, BenefitKey, RebateKey, RebateAtMostOnce
<1> QED
  BY Invariance, <1>1, PTL

\* A webhook with the right amount that was answered 2xx was fulfilled or left
\* PAYMENT_AFTER_EXPIRY, or hid a failed read or a failed audit insert.
THEOREM AckedHandled == Spec => []AckedIsHandled
<1>1. IInv => AckedIsHandled
  BY DEF IInv
<1> QED
  BY Invariance, <1>1, PTL

-----------------------------------------------------------------------------
(* Which steps write the columns that the promise is about.               *)

\* The steps that neither confirm, grant, rebate nor settle.
LEMMA Quiet ==
  ASSUME IInv, [Next]_vars,
         \A w \in Workers :
            /\ ~ToPaid(w) /\ ~Redeem(w) /\ ~RedeemReplyLost(w) /\ ~DoSub(w)
            /\ ~DoSubInvalidateFails(w) /\ ~RebateClaim(w) /\ ~MarkCompleted(w)
  PROVE  /\ UNCHANGED <<paidAt, credited, rebates>>
         /\ (status' = "COMPLETED") = (status = "COMPLETED")
<1>0. /\ creator = "start" => status # "COMPLETED"
      /\ creator = "failing" => status # "COMPLETED"
  BY DEF IInv, PaymentFacts
<1>1. CASE World
  BY <1>0, <1>1 DEF World, CreateOrderInTx, InvokeProvider, InvokeProviderFails,
     CreateOrderFails, UserPays, FiveMinutesPass, OrderTimesOut, Stamp
<1>2. ASSUME NEW w \in Workers, HandleNotify(w) \/ Request(w)
      PROVE  UNCHANGED <<paidAt, credited, rebates, status>>
  BY <1>2 DEF HandleNotify, Request, CancelOrder, ExpireTimedOutOrders,
     VerifyOrderByOutTradeNo, RetryFulfillment, Start
<1>3. ASSUME NEW w \in Workers, Step(w)
      PROVE  /\ UNCHANGED <<paidAt, credited, rebates>>
             /\ (status' = "COMPLETED") = (status = "COMPLETED")
  BY <1>3 DEF Step, QueryOrder, PersistTradeNo, CancelPayment, CancelCore,
     ConfirmPayment, AlreadyProcessed, AcquireLease, Claimable, ReloadLease,
     ResolveRedeemAction, CreateCode, RebateNotExists, MarkFailed, HoldsLease
<1>4. ASSUME NEW w \in Workers, Trouble(w)
      PROVE  UNCHANGED <<paidAt, credited, rebates, status>>
  BY <1>4 DEF Trouble, QueryOrderFails, RedeemLookupFails, StepFails,
     ReadErrorSwallowed, AfterExpiryUnrecorded, Crash
<1>5. CASE UNCHANGED vars
  BY <1>5 DEF vars
<1> QED
  BY <1>1, <1>2, <1>3, <1>4, <1>5 DEF Next

\* Every step of the order is a step of the promise or leaves it alone.
LEMMA PromiseStep == IInv /\ IInv' /\ [Next]_vars => [P!Next]_P!vars
<1> SUFFICES ASSUME IInv, IInv', [Next]_vars PROVE [P!Next]_P!vars
  OBVIOUS
<1> USE DEF P!Next, P!vars
<1>1. ASSUME NEW w \in Workers, ToPaid(w) PROVE P!Confirm \/ UNCHANGED P!vars
  BY <1>1 DEF IInv, TypeOK, PaymentFacts, ToPaid, Payable, P!Confirm
<1>2. ASSUME NEW w \in Workers, Redeem(w) \/ RedeemReplyLost(w)
      PROVE  P!Grant \/ UNCHANGED P!vars
  BY <1>2 DEF IInv, TypeOK, BenefitKey, WorkerFacts, Redeem, RedeemReplyLost,
     P!Grant
<1>3. ASSUME NEW w \in Workers, DoSub(w) \/ DoSubInvalidateFails(w)
      PROVE  P!Grant \/ UNCHANGED P!vars
  BY <1>3 DEF IInv, TypeOK, BenefitKey, WorkerFacts, DoSub,
     DoSubInvalidateFails, EnsureSubscriptionAssigned, P!Grant
<1>4. ASSUME NEW w \in Workers, RebateClaim(w)
      PROVE  P!Rebate \/ UNCHANGED P!vars
  BY <1>4 DEF IInv, TypeOK, RebateKey, WorkerFacts, RebateClaim, P!Rebate
<1>5. ASSUME NEW w \in Workers, MarkCompleted(w)
      PROVE  P!Settle \/ UNCHANGED P!vars
  BY <1>5 DEF IInv, TypeOK, WorkerFacts, MarkCompleted, HoldsLease, P!Settle
<1>6. CASE \A w \in Workers :
              /\ ~ToPaid(w) /\ ~Redeem(w) /\ ~RedeemReplyLost(w) /\ ~DoSub(w)
              /\ ~DoSubInvalidateFails(w) /\ ~RebateClaim(w) /\ ~MarkCompleted(w)
  BY <1>6, Quiet
<1> QED
  BY <1>1, <1>2, <1>3, <1>4, <1>5, <1>6

\* The order implements PaymentPromise: the handlers confirm, grant once, rebate
\* at most once and settle, in that order.
THEOREM Implements == Spec => Promise
<1>1. Init => P!Init
  BY DEF Init, P!Init
<1> QED
  BY <1>1, Invariance, PromiseStep, PTL DEF Spec, Promise, P!Spec

\* No worker, sweep or late CreateOrder error takes COMPLETED back.
THEOREM CompletedFinal == Spec => CompletedIsFinal
<1>1. IInv /\ IInv' /\ [Next]_vars =>
         [status = "COMPLETED" => status' = "COMPLETED"]_vars
  BY PromiseStep DEF P!Next, P!vars, P!Confirm, P!Grant, P!Rebate, P!Settle
<1> QED
  BY <1>1, Invariance, PTL DEF Spec, CompletedIsFinal

=============================================================================
