--------------------------- MODULE PaymentRefund ---------------------------
(***************************************************************************)
(* The refund of one fulfilled order (service/payment_refund.go): the      *)
(* user's request, the administrator's PrepareRefund and ExecuteRefund,    *)
(* and QueryAndFinalizeRefund, which settles a refund the gateway answered *)
(* with "pending".  A step is one SQL statement or one call of the         *)
(* gateway.                                                                *)
(*                                                                         *)
(* What the user gives back, balance or subscription days, appears as      *)
(* taken: the sum of what refunds deducted and did not restore.            *)
(*                                                                         *)
(* Perils names what may go wrong:                                         *)
(*   executeFails, queryFails  a statement of that call fails without      *)
(*                 effect, or the call dies                                *)
(*   replyLost     a statement commits and its caller sees an error        *)
(*   answerLost    the gateway opens a refund and its caller sees an error *)
(*   auditFails    a read or write of the audit log fails                  *)
(*   overlap       a call starts while another one is running              *)
(*   retryPending  ExecuteRefund starts on an order that is REFUND_PENDING *)
(***************************************************************************)
EXTENDS Integers, Sequences, FiniteSets

CONSTANTS
    Calls,          \* administrators' requests
    Amount,         \* what the order credited
    Days,           \* the days a subscription order assigned
    Deterministic,  \* the gateway recognises a repeated refund by its amount
    MaxRefunds,     \* bound: refunds opened at the gateway
    Perils,         \* what may go wrong
    MaxFaults       \* bound: how often it does

ASSUME RefundAssumption ==
    /\ IsFiniteSet(Calls)
    /\ Amount \in Nat \ {0}
    /\ Days \in Nat \ {0}
    /\ Deterministic \in BOOLEAN
    /\ MaxRefunds \in Nat
    /\ MaxFaults \in Nat

VARIABLES
    order,    \* the row in payment_orders
    revoked,  \* the subscription the order paid for was revoked
    taken,    \* what the user gave back
    audit,    \* what payment_audit_logs says of this order
    gw,       \* the refunds the gateway knows, in the order they were opened
    call,     \* the requests in progress
    faults    \* how often something went wrong, and what

vars == <<order, revoked, taken, audit, gw, call, faults>>

Refundable == {"COMPLETED", "REFUND_REQUESTED", "REFUND_PENDING",
               "REFUND_FAILED"}
Refunded == {"REFUNDED", "PARTIALLY_REFUNDED"}
Statuses == Refundable \cup {"REFUNDING"} \cup Refunded

\* traded: payment_trade_no is set.
Orders == [type : {"balance", "subscription"}, traded : BOOLEAN,
           status : Statuses, refundAmount : 0..Amount]

\* Which actions the log has, and the detail of the latest REFUND_PENDING.
\* Its default, no refund and a rollback that worked, is what
\* latestRefundPendingDetail returns when it finds none.
NoDetail == [refund |-> 0, rollbackOK |-> TRUE]
Audits == [rollbackFailed : BOOLEAN, success : BOOLEAN,
           pending : [refund : 0..MaxRefunds, rollbackOK : BOOLEAN]]

Refunds == [amount : 1..Amount, status : {"pending", "paid", "failed"}]

ExecutePcs == {"check", "deduct", "gateway", "rollback", "logRollbackFailed",
               "restore", "markFailed", "markPending", "logPending"}
QueryPcs == {"detail", "query", "finalCheck", "finalDeduct",
             "finalizeFailed"}
Pcs == {"idle", "lock", "markOk", "logOk"} \cup ExecutePcs \cup QueryPcs

\* A request and its RefundPlan; from is the plan's copy of the status.
CallStates == [pc : Pcs, doing : {"none", "execute", "query"},
               amount : 0..Amount, deduct : Nat, from : Statuses,
               refund : 0..MaxRefunds, rollbackOK : BOOLEAN,
               pending : BOOLEAN]
Idle == [pc |-> "idle", doing |-> "none", amount |-> 0, deduct |-> 0,
         from |-> "COMPLETED", refund |-> 0, rollbackOK |-> TRUE,
         pending |-> FALSE]

\* The variables keep their types.
TypeOK ==
    /\ order \in Orders
    /\ revoked \in BOOLEAN
    /\ taken \in Int
    /\ audit \in Audits
    /\ gw \in Seq(Refunds)
    /\ Len(gw) <= MaxRefunds
    /\ call \in [Calls -> CallStates]
    /\ faults \in [count : 0..MaxFaults, kinds : SUBSET Perils]

Init ==
    /\ order \in [type : {"balance", "subscription"}, traded : BOOLEAN,
                  status : {"COMPLETED"}, refundAmount : {0}]
    /\ revoked = FALSE
    /\ taken = 0
    /\ audit = [rollbackFailed |-> FALSE, success |-> FALSE,
                pending |-> NoDetail]
    /\ gw = <<>>
    /\ call = [c \in Calls |-> Idle]
    /\ faults = [count |-> 0, kinds |-> {}]

-----------------------------------------------------------------------------
Fault(kind) ==
    /\ kind \in Perils
    /\ faults.count < MaxFaults
    /\ faults' = [count |-> faults.count + 1,
                  kinds |-> faults.kinds \cup {kind}]

CallFails(c) ==
    Fault(IF call[c].doing = "query" THEN "queryFails" ELSE "executeFails")

Goto(c, pc) == call' = [call EXCEPT ![c].pc = pc]
Return(c) == call' = [call EXCEPT ![c] = Idle]

\* An UPDATE of the row by its id alone: whatever its status is by then.
UpdateOrder(c, o, Ok, Err) ==
    /\ \/ order' = o /\ Ok /\ UNCHANGED faults
       \/ UNCHANGED order /\ Err /\ CallFails(c)
       \/ order' = o /\ Err /\ Fault("replyLost")
    /\ UNCHANGED <<revoked, taken, audit, gw>>

\* writeAuditLog: an error is logged and forgotten.
WriteAudit(a, Then) ==
    /\ \/ audit' = a /\ UNCHANGED faults
       \/ UNCHANGED audit /\ Fault("auditFails")
    /\ Then
    /\ UNCHANGED <<order, revoked, taken, gw>>

\* hasAuditLog: an error of the read means no.
HasAudit(has, Yes, No) ==
    /\ \/ has /\ Yes /\ UNCHANGED faults
       \/ ~has /\ No /\ UNCHANGED faults
       \/ No /\ Fault("auditFails")
    /\ UNCHANGED <<order, revoked, taken, audit, gw>>

\* DeductBalance, or ExtendSubscription by minus the days, which revokes the
\* subscription when no day would be left.
TakeBack(c) ==
    /\ taken' = taken + call[c].deduct
    /\ \/ UNCHANGED revoked
       \/ order.type = "subscription" /\ revoked' = TRUE

Deduction(c, Ok, Err) ==
    LET gone == order.type = "subscription" /\ revoked
    IN  /\ \/ ~gone /\ TakeBack(c) /\ Ok /\ UNCHANGED faults
           \/ gone /\ Err /\ UNCHANGED <<taken, revoked, faults>>
           \/ Err /\ CallFails(c) /\ UNCHANGED <<taken, revoked>>
           \/ ~gone /\ TakeBack(c) /\ Err /\ Fault("replyLost")
        /\ UNCHANGED <<order, audit, gw>>

-----------------------------------------------------------------------------
\* RequestRefund: the user asks; the UPDATE repeats the conditions read.
RequestRefund ==
    /\ order.type = "balance"
    /\ order.status = "COMPLETED"
    /\ order' = [order EXCEPT !.status = "REFUND_REQUESTED",
                              !.refundAmount = Amount]
    /\ UNCHANGED <<revoked, taken, audit, gw, call, faults>>

\* prepDeduct: what a plan may take back.  The balance is whatever the
\* user's other spending has left; the deduction may be switched off, and
\* with force it is skipped when the subscription is not found.
PlannedDeductions(amount) ==
    IF order.type = "balance" THEN 0..amount
    ELSE {0} \cup (IF revoked THEN {} ELSE {Days})

\* A call starts, alone or not.
Begin(retry) ==
    LET risky == {k \in {"overlap", "retryPending"} :
                    \/ k = "overlap" /\ \E c \in Calls : call[c].pc # "idle"
                    \/ k = "retryPending" /\ retry}
    IN  \/ risky = {} /\ UNCHANGED faults
        \/ /\ risky # {}
           /\ risky \subseteq Perils
           /\ faults.count < MaxFaults
           /\ faults' = [count |-> faults.count + 1,
                         kinds |-> faults.kinds \cup risky]

\* PrepareRefund.
PrepareRefund(c) ==
    /\ call[c].pc = "idle"
    /\ order.status \in Refundable
    /\ Begin(order.status = "REFUND_PENDING")
    /\ \E amount \in 1..Amount : \E d \in PlannedDeductions(amount) :
          call' = [call EXCEPT ![c] =
                      [Idle EXCEPT !.pc = "lock", !.doing = "execute",
                                   !.amount = amount, !.deduct = d,
                                   !.from = order.status]]
    /\ UNCHANGED <<order, revoked, taken, audit, gw>>

\* ExecuteRefund locks the order with a conditional UPDATE.
Lock(c) ==
    /\ call[c].pc = "lock"
    /\ \/ /\ order.status \in Refundable
          /\ UpdateOrder(c, [order EXCEPT !.status = "REFUNDING"],
                         Goto(c, "check"), Return(c))
       \/ /\ order.status \notin Refundable
          /\ Return(c)
          /\ UNCHANGED <<order, revoked, taken, audit, gw, faults>>

\* Mutant: a skipped deduction is rolled back all the same.
SkipDeductionKeepsPlan(c) == Goto(c, "gateway")

\* A plan that takes nothing skips the log; one that does skips the
\* deduction when the log says an earlier one was not given back.
SkipDeduction(c) ==
    call' = [call EXCEPT ![c].pc = "gateway", ![c].deduct = 0]

CheckDeducted(c) ==
    /\ call[c].pc = "check"
    /\ \/ /\ call[c].deduct = 0
          /\ Goto(c, "gateway")
          /\ UNCHANGED <<order, revoked, taken, audit, gw, faults>>
       \/ /\ call[c].deduct > 0
          /\ HasAudit(audit.rollbackFailed, SkipDeduction(c),
                      Goto(c, "deduct"))

Deduct(c) ==
    /\ call[c].pc = "deduct"
    /\ Deduction(c, Goto(c, "gateway"), Goto(c, "restore"))

-----------------------------------------------------------------------------
\* gwRefund.  An order without a trade number is refunded on paper only.
\* A gateway that recognises repeats answers with the refund it has.
Known(amount) ==
    {i \in DOMAIN gw : /\ Deterministic
                       /\ gw[i].amount = amount
                       /\ gw[i].status # "failed"}

\* Mutant: "pending" is taken for success.
FinishRefundEarly(c, i, status) ==
    call' = [call EXCEPT ![c].pc = "markOk", ![c].refund = i]

\* Mutant: "pending" is taken for failure.
FinishRefundPendingFails(c, i, status) ==
    call' = [call EXCEPT
                ![c].pc = IF status = "paid" THEN "markOk" ELSE "rollback",
                ![c].refund = i]

\* finishRefund: "pending" gives the deduction back until the gateway is
\* sure.
FinishRefund(c, i, status) ==
    call' = [call EXCEPT
                ![c].pc = IF status = "paid" THEN "markOk" ELSE "rollback",
                ![c].refund = i,
                ![c].pending = status = "pending"]

GatewayRefund(c) ==
    /\ call[c].pc = "gateway"
    /\ \/ ~order.traded /\ Goto(c, "markOk") /\ UNCHANGED <<gw, faults>>
       \/ order.traded /\ Goto(c, "rollback") /\ UNCHANGED <<gw, faults>>
       \/ \E i \in Known(call[c].amount) :
             /\ order.traded
             /\ FinishRefund(c, i, gw[i].status)
             /\ UNCHANGED <<gw, faults>>
       \/ \E status \in {"paid", "pending"} :
             /\ order.traded
             /\ Known(call[c].amount) = {}
             /\ Len(gw) < MaxRefunds
             /\ gw' = Append(gw, [amount |-> call[c].amount,
                                  status |-> status])
             /\ \/ FinishRefund(c, Len(gw) + 1, status) /\ UNCHANGED faults
                \/ Goto(c, "rollback") /\ Fault("answerLost")
    /\ UNCHANGED <<order, revoked, taken, audit>>

\* The gateway makes up its mind.
GatewaySettles ==
    /\ \E i \in DOMAIN gw : \E status \in {"paid", "failed"} :
          /\ gw[i].status = "pending"
          /\ gw' = [gw EXCEPT ![i].status = status]
    /\ UNCHANGED <<order, revoked, taken, audit, call, faults>>

\* Mutant: after the rollback the order is left as it is.
RolledBackLeavesOrder(c) ==
    IF call[c].pending
    THEN call' = [call EXCEPT ![c].pc = "markPending", ![c].deduct = 0]
    ELSE Return(c)

\* RollbackRefund.  A revoked subscription cannot be extended again.
RolledBack(c) ==
    call' = [call EXCEPT
                ![c].pc = IF call[c].pending THEN "markPending" ELSE "restore",
                ![c].deduct = 0]

\* Mutant: nothing is given back.
RollbackRefundForgotten(c) ==
    /\ call[c].pc = "rollback"
    /\ RolledBack(c)
    /\ UNCHANGED <<order, revoked, taken, audit, gw, faults>>

RollbackRefund(c) ==
    LET d    == call[c].deduct
        able == order.type = "balance" \/ ~revoked
        Fail == Goto(c, "logRollbackFailed")
    IN  /\ call[c].pc = "rollback"
        /\ \/ /\ d = 0
              /\ RolledBack(c)
              /\ UNCHANGED <<taken, faults>>
           \/ /\ d > 0 /\ able
              /\ taken' = taken - d
              /\ \/ RolledBack(c) /\ UNCHANGED faults
                 \/ Fail /\ Fault("replyLost")
           \/ /\ d > 0 /\ ~able /\ Fail
              /\ UNCHANGED <<taken, faults>>
           \/ /\ d > 0 /\ Fail /\ CallFails(c)
              /\ UNCHANGED taken
        /\ UNCHANGED <<order, revoked, audit, gw>>

LogRollbackFailed(c) ==
    /\ call[c].pc = "logRollbackFailed"
    /\ WriteAudit([audit EXCEPT !.rollbackFailed = TRUE],
          call' = [call EXCEPT
                      ![c].pc = IF call[c].pending THEN "markPending"
                                                   ELSE "markFailed",
                      ![c].rollbackOK = FALSE])

\* restoreStatus, from the plan's copy of the status.
RestoreStatus(c) ==
    /\ call[c].pc = "restore"
    /\ UpdateOrder(c, [order EXCEPT !.status =
                          IF call[c].from = "REFUND_REQUESTED"
                          THEN "REFUND_REQUESTED" ELSE "COMPLETED"],
                   Return(c), Return(c))

\* handleGwFail, when the deduction could not be given back.
MarkRefundFailed(c) ==
    /\ call[c].pc = "markFailed"
    /\ UpdateOrder(c, [order EXCEPT !.status = "REFUND_FAILED"],
                   Return(c), Return(c))

MarkRefundPending(c) ==
    /\ call[c].pc = "markPending"
    /\ UpdateOrder(c, [order EXCEPT !.status = "REFUND_PENDING",
                                    !.refundAmount = call[c].amount],
                   Goto(c, "logPending"), Return(c))

LogRefundPending(c) ==
    /\ call[c].pc = "logPending"
    /\ WriteAudit([audit EXCEPT !.pending =
                      [refund |-> call[c].refund,
                       rollbackOK |-> call[c].rollbackOK]],
                  Return(c))

MarkRefundOk(c) ==
    /\ call[c].pc = "markOk"
    /\ UpdateOrder(c, [order EXCEPT
                          !.status = IF call[c].amount < Amount
                                     THEN "PARTIALLY_REFUNDED"
                                     ELSE "REFUNDED",
                          !.refundAmount = call[c].amount],
                   Goto(c, "logOk"), Return(c))

LogRefundOk(c) ==
    /\ call[c].pc = "logOk"
    /\ WriteAudit([audit EXCEPT !.success = TRUE], Return(c))

-----------------------------------------------------------------------------
\* QueryAndFinalizeRefund reads the order, then the log, then the gateway.
QueryRefundOrder(c) ==
    /\ call[c].pc = "idle"
    /\ order.status = "REFUND_PENDING"
    /\ Begin(FALSE)
    /\ call' = [call EXCEPT ![c] =
                   [Idle EXCEPT !.pc = "detail", !.doing = "query",
                                !.amount = order.refundAmount,
                                !.from = order.status]]
    /\ UNCHANGED <<order, revoked, taken, audit, gw>>

LatestRefundPendingDetail(c) ==
    /\ call[c].pc = "detail"
    /\ \E d \in {audit.pending, NoDetail} :
          /\ \/ d = audit.pending /\ UNCHANGED faults
             \/ d = NoDetail /\ Fault("auditFails")
          /\ call' = [call EXCEPT ![c].pc = "query",
                                  ![c].refund = d.refund,
                                  ![c].rollbackOK = d.rollbackOK]
    /\ UNCHANGED <<order, revoked, taken, audit, gw>>

\* Without a refund id the gateway is asked for the latest refund.
Queried(c) == IF call[c].refund = 0 THEN Len(gw) ELSE call[c].refund

\* refundFinalizePlan: the whole refund amount, or the days of a
\* subscription that is still there, unless the deduction was kept.
FinalDeduction(c) ==
    IF ~call[c].rollbackOK THEN 0
    ELSE IF order.type = "balance" THEN call[c].amount
    ELSE IF revoked THEN 0 ELSE Days

QueryRefund(c) ==
    /\ call[c].pc = "query"
    /\ \/ Return(c)  \* the query fails
       \/ /\ Queried(c) > 0
          /\ gw[Queried(c)].status = "pending"
          /\ Return(c)
       \/ /\ Queried(c) > 0
          /\ gw[Queried(c)].status = "failed"
          /\ Goto(c, "finalizeFailed")
       \/ /\ Queried(c) > 0
          /\ gw[Queried(c)].status = "paid"
          /\ call' = [call EXCEPT ![c].pc = "finalCheck",
                                  ![c].deduct = FinalDeduction(c)]
    /\ UNCHANGED <<order, revoked, taken, audit, gw, faults>>

FinalizeRefundFailed(c) ==
    /\ call[c].pc = "finalizeFailed"
    /\ UpdateOrder(c, [order EXCEPT !.status = "REFUND_FAILED"],
                   Return(c), Return(c))

\* applyRefundFinalDeduction.
FinalCheck(c) ==
    /\ call[c].pc = "finalCheck"
    /\ HasAudit(audit.success,
                call' = [call EXCEPT ![c].pc = "markOk", ![c].deduct = 0],
                Goto(c, IF call[c].deduct = 0 THEN "markOk"
                                              ELSE "finalDeduct"))

ApplyRefundFinalDeduction(c) ==
    /\ call[c].pc = "finalDeduct"
    /\ Deduction(c, Goto(c, "markOk"), Return(c))

\* The request's instance dies.  An entry it was about to log is lost.
Crash(c) ==
    /\ call[c].pc # "idle"
    /\ Return(c)
    /\ IF call[c].pc \in {"logPending", "logOk"}
       THEN Fault("auditFails") ELSE CallFails(c)
    /\ UNCHANGED <<order, revoked, taken, audit, gw>>

-----------------------------------------------------------------------------
Execute(c) ==
    \/ PrepareRefund(c) \/ Lock(c) \/ CheckDeducted(c) \/ Deduct(c)
    \/ GatewayRefund(c) \/ RollbackRefund(c) \/ LogRollbackFailed(c)
    \/ RestoreStatus(c) \/ MarkRefundFailed(c) \/ MarkRefundPending(c)
    \/ LogRefundPending(c) \/ MarkRefundOk(c) \/ LogRefundOk(c)

Query(c) ==
    \/ QueryRefundOrder(c) \/ LatestRefundPendingDetail(c) \/ QueryRefund(c)
    \/ FinalizeRefundFailed(c) \/ FinalCheck(c)
    \/ ApplyRefundFinalDeduction(c)

Next ==
    \/ RequestRefund
    \/ GatewaySettles
    \/ \E c \in Calls : Execute(c) \/ Query(c) \/ Crash(c)

Spec == Init /\ [][Next]_vars

-----------------------------------------------------------------------------
Saw(kinds) == faults.kinds \cap kinds # {}

\* An order recorded as refunded was refunded by the gateway (markRefundOk
\* follows the gateway's word only), and for the recorded amount, unless
\* calls overlapped or the log entry with the refund's id was not written.
RefundedIsPaid ==
    order.status \in Refunded /\ order.traded =>
        \E i \in DOMAIN gw :
            /\ gw[i].status = "paid"
            /\ \/ gw[i].amount = order.refundAmount
               \/ Saw({"overlap", "auditFails", "replyLost"})

\* Overlapping calls, lost replies and failed rollbacks included, the user is
\* never given back more than was taken (ExecuteRefund forgets a deduction it
\* skipped, RollbackRefund one it could not make).
NothingGivenTwice == taken >= 0

\* While no refund is recorded or running, the user has everything back, or
\* the log says that giving it back failed; even if ExecuteRefund failed or
\* died at any statement (RollbackRefund, restoreStatus).
RestingOrderKeepsNothing ==
    /\ order.status \in Refundable
    /\ \A c \in Calls : call[c].pc # "markOk"
    /\ ~Saw({"queryFails", "replyLost", "auditFails", "overlap"})
    => taken = 0 \/ audit.rollbackFailed

\* Nobody gives back more than the refund of the order is worth: a pending
\* refund gives the deduction back before the finalisation takes it again.
DeductedOnce ==
    \/ taken <= (IF order.type = "balance" THEN Amount ELSE Days)
    \/ Saw({"executeFails", "queryFails", "replyLost", "overlap"})

\* "Skip balance deduction on retry if previous attempt already deducted but
\* failed to roll back" (ExecuteRefund): with such an attempt on record the
\* user gives back no more than one refund's worth.
RetryDeductsOnce ==
    audit.rollbackFailed =>
        taken <= (IF order.type = "balance" THEN Amount ELSE Days)

\* A refund the gateway may still pay, or has paid, is on record: the order
\* is not back in a state where it counts as not refunded.
LiveRefundIsOnRecord ==
    order.status \in {"COMPLETED", "REFUND_REQUESTED", "REFUND_FAILED"} =>
        \/ \A i \in DOMAIN gw : gw[i].status = "failed"
        \/ Saw({"answerLost", "retryPending", "auditFails", "overlap",
                "replyLost"})

\* REFUNDING, which only ExecuteRefund leaves, always has a call that will
\* leave it, unless that call failed or died.
RefundingHasOwner ==
    order.status = "REFUNDING" =>
        \/ \E c \in Calls :
              /\ call[c].doing = "execute"
              /\ call[c].pc \notin {"lock", "logPending", "logOk"}
        \/ Saw({"executeFails", "replyLost"})

=============================================================================
