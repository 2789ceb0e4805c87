------------------------- MODULE PaymentFulfillment -------------------------
(***************************************************************************)
(* One payment order of the gateway, from its creation to the benefit it   *)
(* buys: CreateOrder, the provider's webhook, the user's cancel and verify *)
(* calls, the expiry sweep, the admin retry, and the fulfilment they all   *)
(* lead to (payment_fulfillment.go, payment_order_lifecycle.go).           *)
(*                                                                         *)
(* A worker is a goroutine of some instance that serves one such call at a *)
(* time.  A step of a worker is one statement on the database (a           *)
(* conditional UPDATE, a transaction) or one call to the provider, so that *)
(* workers interleave wherever the code releases the database.             *)
(*                                                                         *)
(* updated_at.  The code uses it as the version of the fulfilment lease    *)
(* and compares its age with two periods, the grace of an expired order    *)
(* and the duration of the lease, which are both five minutes.  Every      *)
(* write stamps it, to the microsecond.  The model keeps of it what those  *)
(* comparisons tell apart: `aged', whether five minutes have gone by since *)
(* the last stamp, and `holders', the workers whose lease.version equals   *)
(* it.                                                                     *)
(***************************************************************************)
EXTENDS Naturals, FiniteSets

CONSTANTS
    Workers,     \* goroutines that serve requests, webhooks and the sweep
    MaxFaults    \* bound: crashes and failed calls in one behaviour

ASSUME MaxFaultsAssumption == MaxFaults \in Nat

VARIABLES
    orderType,   \* payment_orders.order_type
    status,      \* payment_orders.status ("NONE": the row does not exist)
    aged,        \* payment_orders.updated_at is at least five minutes old
    holders,     \* workers whose lease.version equals updated_at
    due,         \* payment_orders.expires_at <= now
    paidAt,      \* payment_orders.paid_at is not null
    tradeNo,     \* payment_orders.payment_trade_no holds the upstream number
    code,        \* the redeem code named by payment_orders.recharge_code
    audits,      \* payment_audit_logs actions that other steps read
    credited,    \* times the user received the order's benefit
    rebates,     \* times the inviter received the order's rebate
    upstream,    \* the provider's record of the payment
    creator,     \* where CreateOrder is
    pc,          \* where each worker is
    src,         \* the call each worker serves
    sawTradeNo,  \* workers whose copy of the row has the upstream number
    acked,       \* the webhook of the payment was answered with 2xx
    swallowed,   \* history: such a 2xx hid a failed read or audit insert
    faults       \* crashes and failed calls so far

stamp == <<aged, holders>>
row == <<status, stamp, paidAt, tradeNo>>
benefit == <<code, audits, credited, rebates>>
env == <<orderType, due, upstream, creator>>
call == <<pc, src, sawTradeNo, acked>>
vars == <<row, benefit, env, call, swallowed, faults>>

OrderTypes == {"balance", "subscription"}

Statuses == {"NONE", "PENDING", "PAID", "RECHARGING", "COMPLETED", "EXPIRED",
             "CANCELLED", "FAILED"}

PaidPcs == {"toPaid", "already"}
FulfilPcs == {"fulfil", "reload"}
GrantPcs == {"grant", "create", "redeem"}
GrantedPcs == {"rebate", "claim", "complete"}
LeasedPcs == {"reload", "markFailed"} \cup GrantPcs \cup GrantedPcs
QueryPcs == {"query", "persist", "closeUpstream", "close"}
Pcs == {"idle", "markFailed"} \cup PaidPcs \cup FulfilPcs \cup GrantPcs
         \cup GrantedPcs \cup QueryPcs

Sources == {"none", "webhook", "verify", "cancel", "expire", "admin"}

RebateClaims == {"AFFILIATE_REBATE_APPLIED", "AFFILIATE_REBATE_SKIPPED"}

Audits == RebateClaims \cup {"SUBSCRIPTION_ASSIGNED", "PAYMENT_AFTER_EXPIRY"}

\* The variables keep their types.
TypeOK ==
    /\ orderType \in OrderTypes
    /\ status \in Statuses
    /\ aged \in BOOLEAN
    /\ holders \subseteq Workers
    /\ due \in BOOLEAN
    /\ paidAt \in BOOLEAN
    /\ tradeNo \in BOOLEAN
    /\ code \in {"none", "unused", "used"}
    /\ audits \subseteq Audits
    /\ credited \in Nat
    /\ rebates \in Nat
    /\ upstream \in {"none", "open", "paid", "mispaid", "closed"}
    /\ creator \in {"start", "invoke", "failing", "shown", "gone"}
    /\ pc \in [Workers -> Pcs]
    /\ src \in [Workers -> Sources]
    /\ sawTradeNo \subseteq Workers
    /\ acked \in BOOLEAN
    /\ swallowed \in BOOLEAN
    /\ faults \in 0..MaxFaults

Init ==
    /\ orderType \in OrderTypes
    /\ status = "NONE"
    /\ aged = FALSE
    /\ holders = {}
    /\ due = FALSE
    /\ paidAt = FALSE
    /\ tradeNo = FALSE
    /\ code = "none"
    /\ audits = {}
    /\ credited = 0
    /\ rebates = 0
    /\ upstream = "none"
    /\ creator = "start"
    /\ pc = [w \in Workers |-> "idle"]
    /\ src = [w \in Workers |-> "none"]
    /\ sawTradeNo = {}
    /\ acked = FALSE
    /\ swallowed = FALSE
    /\ faults = 0

-----------------------------------------------------------------------------
(* Helpers.                                                                *)

\* Every UPDATE of the row gives updated_at a new value: ent's UpdateDefault
\* does, and the lease sets it itself.
Stamp ==
    /\ aged' = FALSE
    /\ holders' = {}

\* The worker goes on with its call.
Goto(w, to) ==
    /\ pc' = [pc EXCEPT ![w] = to]
    /\ UNCHANGED <<src, sawTradeNo, acked>>

\* The call returns; handleNotify answers 2xx exactly when it returned nil.
Finish(w, ok) ==
    /\ pc' = [pc EXCEPT ![w] = "idle"]
    /\ src' = [src EXCEPT ![w] = "none"]
    /\ sawTradeNo' = sawTradeNo \ {w}
    /\ acked' = (acked \/ (ok /\ src[w] = "webhook"))

Fault ==
    /\ faults < MaxFaults
    /\ faults' = faults + 1

-----------------------------------------------------------------------------
(* CreateOrder: the row is committed first, the provider is called after,  *)
(* and a provider error overwrites the status without a condition.         *)

CreateOrderInTx ==
    /\ creator = "start"
    /\ creator' = "invoke"
    /\ status' = "PENDING"
    /\ Stamp
    /\ UNCHANGED <<paidAt, tradeNo, benefit, orderType, due, upstream, call,
                   swallowed, faults>>

\* CreatePayment answered and the payment details were saved: the user can
\* pay.  Some providers answer with their trade number, others do not.
InvokeProvider ==
    /\ creator = "invoke"
    /\ creator' = "shown"
    /\ upstream' = "open"
    /\ tradeNo' \in BOOLEAN
    /\ Stamp
    /\ UNCHANGED <<status, paidAt, benefit, orderType, due, call, swallowed,
                   faults>>

\* CreatePayment, or saving its answer, failed; the provider may have the
\* payment all the same, but the user is never shown how to pay it.
InvokeProviderFails ==
    /\ creator = "invoke"
    /\ Fault
    /\ creator' = "failing"
    /\ upstream' \in {"none", "open"}
    /\ UNCHANGED <<row, benefit, orderType, due, call, swallowed>>

\* The status is overwritten whatever it is; the UPDATE itself may fail.
CreateOrderFails ==
    /\ creator = "failing"
    /\ creator' = "gone"
    /\ \/ status' = "FAILED" /\ Stamp
       \/ UNCHANGED <<status, stamp>>
    /\ UNCHANGED <<paidAt, tradeNo, benefit, orderType, due, upstream, call,
                   swallowed, faults>>

-----------------------------------------------------------------------------
(* The world outside: the payer, the provider and the clock.               *)

\* The user pays; the provider reports the amount asked for or another one.
UserPays ==
    /\ creator = "shown"
    /\ upstream = "open"
    /\ upstream' \in {"paid", "mispaid"}
    /\ UNCHANGED <<row, benefit, orderType, due, creator, call, swallowed,
                   faults>>

\* A fulfilment takes far less than five minutes: one that outlives its lease
\* (a paused process, a hanging database) is one of the faults.
FiveMinutesPass ==
    /\ status # "NONE"
    /\ ~aged
    /\ aged' = TRUE
    /\ IF \E w \in Workers : pc[w] \in LeasedPcs THEN Fault
                                                 ELSE UNCHANGED faults
    /\ UNCHANGED <<status, holders, paidAt, tradeNo, benefit, env, call,
                   swallowed>>

OrderTimesOut ==
    /\ status # "NONE"
    /\ ~due
    /\ due' = TRUE
    /\ UNCHANGED <<row, benefit, orderType, upstream, creator, call, swallowed,
                   faults>>

-----------------------------------------------------------------------------
(* The calls that start a worker.                                          *)

Start(w, source, to) ==
    /\ pc[w] = "idle"
    /\ pc' = [pc EXCEPT ![w] = to]
    /\ src' = [src EXCEPT ![w] = source]
    /\ sawTradeNo' = IF tradeNo /\ to = "query" THEN sawTradeNo \cup {w}
                                            ELSE sawTradeNo
    /\ UNCHANGED <<row, benefit, env, acked, swallowed, faults>>

\* The provider delivers the notification, again and again until a 2xx; it
\* may still send a duplicate of one that was answered.
HandleNotify(w) ==
    /\ upstream \in {"paid", "mispaid"}
    /\ Start(w, "webhook", "toPaid")

CancelOrder(w) ==
    /\ status = "PENDING"
    /\ Start(w, "cancel", "query")

ExpireTimedOutOrders(w) ==
    /\ status = "PENDING"
    /\ due
    /\ Start(w, "expire", "query")

\* ReconcilePendingWxpayOrders makes the same call for pending orders.
VerifyOrderByOutTradeNo(w) ==
    /\ status \in {"PENDING", "EXPIRED"}
    /\ Start(w, "verify", "query")

RetryFulfillment(w) ==
    /\ paidAt
    /\ status \in {"FAILED", "PAID", "RECHARGING"}
    /\ Start(w, "admin", "fulfil")

-----------------------------------------------------------------------------
(* checkPaidWithOptions and cancelCore.                                    *)

QueryOrder(w) ==
    /\ pc[w] = "query"
    /\ \/ /\ upstream \in {"paid", "mispaid"}
          /\ Goto(w, IF w \in sawTradeNo THEN "toPaid" ELSE "persist")
       \/ /\ upstream \notin {"paid", "mispaid"}
          /\ src[w] # "verify"
          /\ Goto(w, "closeUpstream")
       \/ /\ upstream \notin {"paid", "mispaid"}
          /\ src[w] = "verify"
          /\ Finish(w, TRUE)
    /\ UNCHANGED <<row, benefit, env, swallowed, faults>>

\* No answer, or an amount that is not a number, counts as not paid.
QueryOrderFails(w) ==
    /\ pc[w] = "query"
    /\ Fault
    /\ \/ src[w] = "verify" /\ Finish(w, TRUE)
       \/ src[w] # "verify" /\ Goto(w, "close")
    /\ UNCHANGED <<row, benefit, env, swallowed>>

\* UPDATE ... SET payment_trade_no WHERE id: no condition on the status, and
\* it stamps updated_at under whoever holds a lease.
PersistTradeNo(w) ==
    /\ pc[w] = "persist"
    /\ tradeNo' = TRUE
    /\ Stamp
    /\ Goto(w, "toPaid")
    /\ UNCHANGED <<status, paidAt, benefit, env, swallowed, faults>>

\* CancelPayment is best effort and closes only what is still open.
CancelPayment(w) ==
    /\ pc[w] = "closeUpstream"
    /\ upstream' \in {upstream, IF upstream = "open" THEN "closed" ELSE upstream}
    /\ Goto(w, "close")
    /\ UNCHANGED <<row, benefit, orderType, due, creator, swallowed, faults>>

CancelCore(w) ==
    /\ pc[w] = "close"
    /\ \/ /\ status = "PENDING"
          /\ status' = IF src[w] = "expire" THEN "EXPIRED" ELSE "CANCELLED"
          /\ Stamp
       \/ /\ status # "PENDING"
          /\ UNCHANGED <<status, stamp>>
    /\ Finish(w, TRUE)
    /\ UNCHANGED <<paidAt, tradeNo, benefit, env, swallowed, faults>>

-----------------------------------------------------------------------------
(* confirmPayment, toPaid and alreadyProcessed.                            *)

Payable ==
    \/ status \in {"PENDING", "CANCELLED"}
    \/ status = "EXPIRED" /\ ~aged

\* Mutant: any amount the provider reports is accepted.
AnyAmountMatches == upstream \in {"paid", "mispaid"}

\* confirmPayment refuses another amount before it touches the order.
AmountMatches == upstream = "paid"

ConfirmPayment(w) ==
    /\ pc[w] = "toPaid"
    /\ ~AmountMatches
    /\ Finish(w, FALSE)
    /\ UNCHANGED <<row, benefit, env, swallowed, faults>>

ToPaid(w) ==
    /\ pc[w] = "toPaid"
    /\ AmountMatches
    /\ \/ /\ Payable
          /\ status' = "PAID"
          /\ paidAt' = TRUE
          /\ tradeNo' = TRUE
          /\ Stamp
          /\ Goto(w, "fulfil")
       \/ /\ ~Payable
          /\ Goto(w, "already")
          /\ UNCHANGED row
    /\ UNCHANGED <<benefit, env, swallowed, faults>>

\* Mutant: an order in RECHARGING is left to whoever is working on it.
AlreadyProcessedIfRecharging(w) ==
    /\ pc[w] = "already"
    /\ IF status \in {"FAILED", "PAID"} THEN Goto(w, "fulfil")
                                        ELSE Finish(w, TRUE)
    /\ audits' = IF status = "EXPIRED" THEN audits \cup {"PAYMENT_AFTER_EXPIRY"}
                                       ELSE audits
    /\ UNCHANGED <<row, code, credited, rebates, env, swallowed, faults>>

\* alreadyProcessed; AfterExpiryUnrecorded is its failing audit insert, and
\* ReadErrorSwallowed its failing read.
AlreadyProcessed(w) ==
    /\ pc[w] = "already"
    /\ IF status \in {"FAILED", "PAID", "RECHARGING"}
       THEN Goto(w, "fulfil")
       ELSE Finish(w, TRUE)
    /\ audits' = IF status = "EXPIRED" THEN audits \cup {"PAYMENT_AFTER_EXPIRY"}
                                       ELSE audits
    /\ UNCHANGED <<row, code, credited, rebates, env, swallowed, faults>>

-----------------------------------------------------------------------------
(* The fulfilment lease.                                                   *)

\* Mutant: the lease of a worker that died is never taken over.
ClaimableNeverStale == status \in {"PAID", "FAILED"}

Claimable ==
    \/ status \in {"PAID", "FAILED"}
    \/ status = "RECHARGING" /\ aged

\* executeFulfillment and the conditional UPDATE of the lease.  The reads
\* before it only refuse what the UPDATE itself would not match.
AcquireLease(w) ==
    /\ pc[w] = "fulfil"
    /\ \/ /\ Claimable
          /\ status' = "RECHARGING"
          /\ Stamp
          /\ Goto(w, "reload")
       \/ /\ ~Claimable
          /\ Finish(w, status = "COMPLETED")
          /\ UNCHANGED <<status, stamp>>
    /\ UNCHANGED <<paidAt, tradeNo, benefit, env, swallowed, faults>>

\* The lease version is read back by a SELECT of its own.
ReloadLease(w) ==
    /\ pc[w] = "reload"
    /\ \/ /\ status = "RECHARGING"
          /\ holders' = holders \cup {w}
          /\ Goto(w, "grant")
       \/ /\ status # "RECHARGING"
          /\ Finish(w, FALSE)
          /\ UNCHANGED holders
    /\ UNCHANGED <<status, aged, paidAt, tradeNo, benefit, env, swallowed,
                   faults>>

-----------------------------------------------------------------------------
(* doBalance: the redeem code named in the order is the idempotency key.   *)

ResolveRedeemAction(w) ==
    /\ pc[w] = "grant"
    /\ orderType = "balance"
    /\ \/ code = "none" /\ Goto(w, "create")
       \/ code = "unused" /\ Goto(w, "redeem")
       \/ code = "used" /\ Goto(w, "rebate")
    /\ UNCHANGED <<row, benefit, env, swallowed, faults>>

\* A failed lookup is taken for a missing code.
RedeemLookupFails(w) ==
    /\ pc[w] = "grant"
    /\ orderType = "balance"
    /\ Fault
    /\ Goto(w, "create")
    /\ UNCHANGED <<row, benefit, env, swallowed>>

\* The unique index on redeem_codes.code refuses a second insert.
CreateCode(w) ==
    /\ pc[w] = "create"
    /\ \/ code = "none" /\ code' = "unused" /\ Goto(w, "redeem")
       \/ code # "none" /\ Goto(w, "markFailed") /\ UNCHANGED code
    /\ UNCHANGED <<row, audits, credited, rebates, env, swallowed, faults>>

\* Mutant: the code is marked used without WHERE status = 'unused'.
RedeemUnconditionally(w) ==
    /\ pc[w] = "redeem"
    /\ code' = "used"
    /\ credited' = credited + 1
    /\ Goto(w, "rebate")
    /\ UNCHANGED <<row, audits, rebates, env, swallowed, faults>>

\* One transaction marks an unused code used and adds to the balance.
Redeem(w) ==
    /\ pc[w] = "redeem"
    /\ \/ /\ code = "unused"
          /\ code' = "used"
          /\ credited' = credited + 1
          /\ Goto(w, "rebate")
       \/ /\ code # "unused"
          /\ Goto(w, "markFailed")
          /\ UNCHANGED <<code, credited>>
    /\ UNCHANGED <<row, audits, rebates, env, swallowed, faults>>

\* The transaction committed and the read after it failed: Redeem reports an
\* error although the user has the money.
RedeemReplyLost(w) ==
    /\ pc[w] = "redeem"
    /\ code = "unused"
    /\ Fault
    /\ code' = "used"
    /\ credited' = credited + 1
    /\ Goto(w, "markFailed")
    /\ UNCHANGED <<row, audits, rebates, env, swallowed>>

-----------------------------------------------------------------------------
(* doSub: the audit row SUBSCRIPTION_ASSIGNED, unique for each order, is   *)
(* written in the transaction that creates the subscription.               *)

\* Mutant: the transaction does not look for the audit row of the assignment.
AssignSubscriptionAgain ==
    /\ audits' = audits \cup {"SUBSCRIPTION_ASSIGNED"}
    /\ credited' = credited + 1
    /\ UNCHANGED <<code, rebates>>

EnsureSubscriptionAssigned ==
    /\ audits' = audits \cup {"SUBSCRIPTION_ASSIGNED"}
    /\ credited' = IF "SUBSCRIPTION_ASSIGNED" \in audits THEN credited
                                                         ELSE credited + 1
    /\ UNCHANGED <<code, rebates>>

DoSub(w) ==
    /\ pc[w] = "grant"
    /\ orderType = "subscription"
    /\ EnsureSubscriptionAssigned
    /\ Goto(w, "rebate")
    /\ UNCHANGED <<row, env, swallowed, faults>>

\* Committed, but the cache invalidation after it failed.
DoSubInvalidateFails(w) ==
    /\ pc[w] = "grant"
    /\ orderType = "subscription"
    /\ Fault
    /\ EnsureSubscriptionAssigned
    /\ Goto(w, "markFailed")
    /\ UNCHANGED <<row, env, swallowed>>

-----------------------------------------------------------------------------
(* applyAffiliateRebateForOrder.  The claim is INSERT ... SELECT WHERE NOT *)
(* EXISTS ... ON CONFLICT DO NOTHING: the subquery sees the snapshot of    *)
(* the statement, the unique index sees what others committed since.       *)

RebateNotExists(w) ==
    /\ pc[w] = "rebate"
    /\ Goto(w, IF audits \cap RebateClaims = {} THEN "claim" ELSE "complete")
    /\ UNCHANGED <<row, benefit, env, swallowed, faults>>

\* The rest of the transaction: a claim that lost; an inviter to pay; none to
\* pay; and a claim that cannot be renamed to SKIPPED because another one was.
RebateClaim(w) ==
    /\ pc[w] = "claim"
    /\ \/ /\ "AFFILIATE_REBATE_APPLIED" \in audits
          /\ Goto(w, "complete")
          /\ UNCHANGED <<audits, rebates>>
       \/ /\ "AFFILIATE_REBATE_APPLIED" \notin audits
          /\ audits' = audits \cup {"AFFILIATE_REBATE_APPLIED"}
          /\ rebates' = rebates + 1
          /\ Goto(w, "complete")
       \/ /\ audits \cap RebateClaims = {}
          /\ audits' = audits \cup {"AFFILIATE_REBATE_SKIPPED"}
          /\ UNCHANGED rebates
          /\ Goto(w, "complete")
       \/ /\ audits \cap RebateClaims = {"AFFILIATE_REBATE_SKIPPED"}
          /\ Goto(w, "markFailed")
          /\ UNCHANGED <<audits, rebates>>
    /\ UNCHANGED <<row, code, credited, env, swallowed, faults>>

-----------------------------------------------------------------------------
(* markCompleted and markFailed: both only match the lease's own version.  *)

HoldsLease(w) == status = "RECHARGING" /\ w \in holders

MarkCompleted(w) ==
    /\ pc[w] = "complete"
    /\ \/ /\ HoldsLease(w)
          /\ status' = "COMPLETED"
          /\ Stamp
          /\ Finish(w, TRUE)
       \/ /\ ~HoldsLease(w)
          /\ IF status = "COMPLETED" THEN Finish(w, TRUE)
                                     ELSE Goto(w, "markFailed")
          /\ UNCHANGED <<status, stamp>>
    /\ UNCHANGED <<paidAt, tradeNo, benefit, env, swallowed, faults>>

MarkFailed(w) ==
    /\ pc[w] = "markFailed"
    /\ \/ HoldsLease(w) /\ status' = "FAILED" /\ Stamp
       \/ ~HoldsLease(w) /\ UNCHANGED <<status, stamp>>
    /\ Finish(w, FALSE)
    /\ UNCHANGED <<paidAt, tradeNo, benefit, env, swallowed, faults>>

-----------------------------------------------------------------------------
(* Failures.                                                               *)

\* The step's database call fails without effect.  Before the lease, and in
\* markFailed itself, the call returns its error; after it, markFailed runs; a
\* trade number that cannot be saved is only logged.
StepFails(w) ==
    /\ Fault
    /\ \/ /\ pc[w] \in {"toPaid", "fulfil", "reload", "markFailed", "close"}
          /\ Finish(w, FALSE)
       \/ /\ pc[w] \in GrantPcs \cup GrantedPcs
          /\ Goto(w, "markFailed")
       \/ /\ pc[w] = "persist"
          /\ Goto(w, "toPaid")
    /\ UNCHANGED <<row, benefit, env, swallowed>>

\* The reads of confirmPayment and alreadyProcessed, and the lookup of the
\* webhook's provider, turn a database error into success.
ReadErrorSwallowed(w) ==
    /\ pc[w] \in PaidPcs
    /\ Fault
    /\ Finish(w, TRUE)
    /\ swallowed' = (swallowed \/ src[w] = "webhook")
    /\ UNCHANGED <<row, benefit, env>>

\* alreadyProcessed pays no heed to writeAuditLog, which logs a failed insert:
\* the webhook is answered 2xx and PAYMENT_AFTER_EXPIRY is recorded nowhere.
AfterExpiryUnrecorded(w) ==
    /\ pc[w] = "already" /\ status = "EXPIRED"
    /\ Fault
    /\ Finish(w, TRUE)
    /\ swallowed' = (swallowed \/ src[w] = "webhook")
    /\ UNCHANGED <<row, benefit, env>>

\* The instance dies, or the request's context is cancelled for good.
Crash(w) ==
    /\ pc[w] # "idle"
    /\ Fault
    /\ Finish(w, FALSE)
    /\ UNCHANGED <<row, benefit, env, swallowed>>

-----------------------------------------------------------------------------
Request(w) ==
    \/ CancelOrder(w) \/ ExpireTimedOutOrders(w)
    \/ VerifyOrderByOutTradeNo(w) \/ RetryFulfillment(w)

Step(w) ==
    \/ QueryOrder(w) \/ PersistTradeNo(w) \/ CancelPayment(w) \/ CancelCore(w)
    \/ ConfirmPayment(w) \/ ToPaid(w) \/ AlreadyProcessed(w)
    \/ AcquireLease(w) \/ ReloadLease(w)
    \/ ResolveRedeemAction(w) \/ CreateCode(w) \/ Redeem(w) \/ DoSub(w)
    \/ RebateNotExists(w) \/ RebateClaim(w)
    \/ MarkCompleted(w) \/ MarkFailed(w)

Trouble(w) ==
    \/ QueryOrderFails(w) \/ RedeemLookupFails(w) \/ RedeemReplyLost(w)
    \/ DoSubInvalidateFails(w) \/ StepFails(w) \/ ReadErrorSwallowed(w)
    \/ AfterExpiryUnrecorded(w) \/ Crash(w)

World ==
    \/ CreateOrderInTx \/ InvokeProvider \/ InvokeProviderFails
    \/ CreateOrderFails \/ UserPays \/ FiveMinutesPass \/ OrderTimesOut

Next ==
    \/ World
    \/ \E w \in Workers : HandleNotify(w) \/ Request(w) \/ Step(w) \/ Trouble(w)

Spec == Init /\ [][Next]_vars

\* The provider redelivers until it gets a 2xx (the handler answers 500 for
\* that reason), a running goroutine makes progress, and a lease runs out.
Fairness ==
    /\ SF_vars(\E w \in Workers : ~acked /\ HandleNotify(w))
    /\ \A w \in Workers : WF_vars(Step(w))
    /\ WF_vars(status = "RECHARGING" /\ FiveMinutesPass)

FairSpec == Spec /\ Fairness

-----------------------------------------------------------------------------
(* Properties.                                                             *)

\* However many webhooks, verify calls, sweeps, retries and takeovers of a
\* stale lease race (doBalance, doSub), and whatever crashes between their
\* steps, the user receives the order's benefit at most once.
CreditAtMostOnce == credited <= 1

\* A row that says COMPLETED has credited its user: markCompleted is reached
\* only over a redeem code that is used, or an assignment that is committed.
CompletedIsCredited == status = "COMPLETED" => credited = 1

\* Nobody is credited for an order the provider did not report paid with the
\* amount asked for, and every credited order has its paid_at: the FAILED of a
\* payment that could not be created is never mistaken for the FAILED of a
\* fulfilment (alreadyProcessed and the lease accept both).
CreditedOnlyIfPaid == credited > 0 => upstream = "paid" /\ paidAt

\* The inviter's rebate is accrued at most once, and only after the benefit:
\* the claim survives the race in which one claim is renamed to SKIPPED while
\* another waits for it on the unique index (applyAffiliateRebateForOrder).
RebateAtMostOnce == rebates <= 1 /\ rebates <= credited

\* A payment the webhook acknowledged was fulfilled or left a trace for the
\* operator (PAYMENT_AFTER_EXPIRY), unless confirmPayment or alreadyProcessed
\* swallowed a database error: that of a read, or of the trace's own insert.
AckedIsHandled ==
    acked => \/ status = "COMPLETED"
             \/ "PAYMENT_AFTER_EXPIRY" \in audits
             \/ swallowed

\* COMPLETED is final while no refund starts: no stale worker, late CreateOrder
\* error, cancel or sweep takes it back.
CompletedIsFinal == [][status = "COMPLETED" => status' = "COMPLETED"]_vars

\* The promise of PaymentPromise read in this module's state.
P == INSTANCE PaymentPromise WITH
        confirmed <- paidAt,
        granted <- credited,
        rebated <- rebates,
        settled <- (status = "COMPLETED")

\* The order implements PaymentPromise: confirmed, granted once, rebated at most
\* once and settled, in that order, whatever the workers do (handlers of
\* payment_fulfillment.go and payment_order_lifecycle.go).
Promise == P!Spec

\* Once the order is PAID it becomes COMPLETED: a lost lease, a failed step or a
\* crash is repaired by the provider's redelivery, unless the provider was told
\* to stop by a swallowed error or by a webhook after the grace period.
PaidIsFulfilled ==
    paidAt ~> \/ status = "COMPLETED"
              \/ swallowed
              \/ "PAYMENT_AFTER_EXPIRY" \in audits

=============================================================================
