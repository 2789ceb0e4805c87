------------------------ MODULE PaymentRefundProofs ------------------------
(***************************************************************************)
(* What PaymentRefund keeps for any amounts, requests and number of        *)
(* faults.  The properties except certain faults, and each of them is      *)
(* carried by a part of the inductive invariant with the same exception;   *)
(* the parts rest on what holds whatever happens, and on Alone: while no   *)
(* two calls overlap, where the one call is says what the order's status   *)
(* is.                                                                     *)
(***************************************************************************)
EXTENDS PaymentRefund, FiniteSetTheorems, TLAPS

\* None of these went wrong.
Clear(kinds) == \A k \in kinds : k \notin faults.kinds

\* The most a refund of the order is worth.
Worth == IF order.type = "balance" THEN Amount ELSE Days

\* The gateway has paid a refund.
Paid == \E i \in DOMAIN gw : gw[i].status = "paid"

\* Where a call is says what it is doing, and its plan is within the order.
Fits(c) ==
    /\ call[c].pc = "idle" => call[c] = Idle
    /\ call[c].pc \in {"lock"} \cup ExecutePcs =>
          call[c].doing = "execute" /\ call[c].amount > 0
    /\ call[c].pc \in QueryPcs => call[c].doing = "query"
    /\ call[c].pc \in {"markOk", "logOk"} => call[c].doing # "none"
    /\ call[c].deduct <= Worth
    /\ call[c].refund <= Len(gw)
    /\ call[c].pc \in {"finalCheck", "finalDeduct", "markOk"} /\ order.traded => Paid

\* What holds whatever goes wrong.
Base ==
    /\ TypeOK
    /\ \A c \in Calls : Fits(c)
    /\ audit.pending.refund <= Len(gw)
    /\ order.status \in Refunded /\ order.traded => Paid

\* What a call has taken and may still give back.
Owed(c) == IF call[c].pc \in {"gateway", "rollback"} THEN 1..call[c].deduct ELSE {}
AllOwed == {p \in Calls \X Nat : p[2] \in Owed(p[1])}

\* The sum of what calls may still give back was taken.
OwedIsTaken == IsFiniteSet(AllOwed) /\ Cardinality(AllOwed) <= taken

\* The status of an order whose only call is c.
StatusAt(c) ==
    /\ call[c].pc = "lock" =>
          /\ order.status \in Refundable
          /\ order.status = "REFUND_PENDING" => ~Clear({"retryPending"})
    /\ \/ call[c].pc \in ExecutePcs \ {"logPending"}
       \/ call[c].pc = "markOk" /\ call[c].doing = "execute"
       => order.status = "REFUNDING"
    /\ \/ call[c].pc \in QueryPcs \cup {"logPending"}
       \/ call[c].pc = "markOk" /\ call[c].doing = "query"
       => order.status = "REFUND_PENDING"
    /\ call[c].pc = "logOk" => order.status \in Refunded

Alone ==
    Clear({"overlap"}) =>
        /\ \A c, d \in Calls : c # d => call[c].pc = "idle" \/ call[d].pc = "idle"
        /\ \A c \in Calls : StatusAt(c)

\* Refund i was opened for this amount.
IsFor(i, amount) == i \in DOMAIN gw /\ gw[i].amount = amount

\* A call goes by the refund that the order and the log mean.
AmountAt(c) ==
    /\ call[c].pending \/ call[c].pc \in {"markPending", "logPending"} =>
          IsFor(call[c].refund, call[c].amount)
    /\ call[c].pc = "logPending" => order.refundAmount = call[c].amount
    /\ call[c].pc \in QueryPcs \/ (call[c].pc = "markOk" /\ call[c].doing = "query") =>
          call[c].amount = order.refundAmount
    /\ call[c].pc = "query" => call[c].refund = audit.pending.refund
    /\ call[c].pc \in {"finalCheck", "finalDeduct", "markOk"} /\ order.traded =>
          IsFor(call[c].refund, call[c].amount) /\ gw[call[c].refund].status = "paid"

Logging == \E c \in Calls : call[c].pc = "logPending"

AmountsAgree ==
    Clear({"overlap", "auditFails", "replyLost"}) =>
        /\ \A c \in Calls : AmountAt(c)
        /\ order.status = "REFUND_PENDING" =>
              IsFor(audit.pending.refund, order.refundAmount) \/ Logging
        /\ order.status \in Refunded /\ order.traded =>
              \E i \in DOMAIN gw : /\ gw[i].status = "paid"
                                   /\ gw[i].amount = order.refundAmount

\* Refund i is the only one that was not refused.
OnlyLive(i) == \A j \in DOMAIN gw : j # i => gw[j].status = "failed"
NoneLive == \A j \in DOMAIN gw : gw[j].status = "failed"

LiveAt(c) ==
    /\ call[c].pc \in {"lock", "check", "deduct", "gateway", "restore",
                       "markFailed", "finalizeFailed"} => NoneLive
    /\ call[c].pc \in {"rollback", "logRollbackFailed"} /\ ~call[c].pending => NoneLive
    /\ call[c].pending \/ call[c].pc \in {"markPending", "logPending"} =>
          OnlyLive(call[c].refund)
    /\ call[c].pc = "query" => call[c].refund = audit.pending.refund

LiveIsKnown ==
    Clear({"answerLost", "retryPending", "auditFails", "overlap", "replyLost"}) =>
        /\ \A c \in Calls : LiveAt(c)
        /\ order.status \in {"COMPLETED", "REFUND_REQUESTED", "REFUND_FAILED"} => NoneLive
        /\ order.status = "REFUND_PENDING" => OnlyLive(audit.pending.refund) \/ Logging

\* The user can be given back what was taken.
Restorable == order.type = "balance" \/ ~revoked

TakenFits ==
    Clear({"executeFails", "queryFails", "replyLost", "overlap"}) =>
        /\ taken <= Worth
        /\ Restorable /\ order.status \notin Refunded =>
              /\ \A c \in Calls :
                    call[c].pc \in {"gateway", "rollback", "markOk"} =>
                        taken = call[c].deduct
              /\ (\A c \in Calls : call[c].pc \notin {"gateway", "rollback", "markOk"})
                    => taken = 0

\* What was taken and not given back is on record, or about to be.
KeptAt(c) ==
    /\ call[c].pc \in {"gateway", "rollback"} => taken = call[c].deduct
    /\ call[c].pc \in {"lock", "check", "deduct", "restore", "markPending",
                       "logPending"} \cup QueryPcs => taken = 0
    /\ call[c].pc # "markFailed"

KeptIsLogged ==
    Clear({"queryFails", "replyLost", "auditFails", "overlap"})
        /\ ~audit.rollbackFailed =>
        /\ \A c \in Calls : KeptAt(c)
        /\ order.status \in Refundable /\ (\A c \in Calls : call[c].pc # "markOk")
              => taken = 0

IInv ==
    /\ Base /\ OwedIsTaken /\ RefundingHasOwner /\ Alone
    /\ AmountsAgree /\ LiveIsKnown /\ TakenFits /\ KeptIsLogged

USE RefundAssumption

-----------------------------------------------------------------------------
(* Steps in general.                                                       *)

FaultStates == [count : 0..MaxFaults, kinds : SUBSET Perils]

\* Something went wrong in this step.
Hits(kind) == faults' \in FaultStates /\ faults'.kinds = faults.kinds \cup {kind}

FailKind(c) == IF call[c].doing = "query" THEN "queryFails" ELSE "executeFails"

\* Call c alone goes on.
Moved(c) ==
    /\ call' \in [Calls -> CallStates]
    /\ \A d \in Calls : d # c => call'[d] = call[d]

\* It goes on to pc with the plan it has.
MovedTo(c, pc) ==
    /\ Moved(c)
    /\ call'[c].pc = pc /\ call'[c].doing = call[c].doing
    /\ call'[c].amount = call[c].amount /\ call'[c].deduct = call[c].deduct
    /\ call'[c].from = call[c].from /\ call'[c].refund = call[c].refund
    /\ call'[c].rollbackOK = call[c].rollbackOK
    /\ call'[c].pending = call[c].pending

Returned(c) == Moved(c) /\ call'[c] = Idle

\* The order's status changes and nothing else of the order.
StatusSet(s) ==
    /\ order' \in Orders /\ order'.status = s
    /\ order'.type = order.type /\ order'.traded = order.traded
    /\ order'.refundAmount = order.refundAmount

\* The status and the amount change.
StatusAndAmountSet(s, a) ==
    /\ order' \in Orders /\ order'.status = s /\ order'.refundAmount = a
    /\ order'.type = order.type /\ order'.traded = order.traded

LEMMA Types ==
    ASSUME IInv
    PROVE  /\ order \in Orders /\ revoked \in BOOLEAN /\ taken \in Int
           /\ audit \in Audits /\ gw \in Seq(Refunds) /\ Len(gw) <= MaxRefunds
           /\ call \in [Calls -> CallStates] /\ faults \in FaultStates
           /\ Len(gw) \in Nat /\ DOMAIN gw = 1..Len(gw)
  BY DEF IInv, Base, TypeOK, FaultStates

LEMMA IdleFacts ==
    /\ Idle \in CallStates /\ Idle.pc = "idle" /\ Idle.doing = "none"
    /\ Idle.deduct = 0 /\ Idle.refund = 0 /\ ~Idle.pending
  BY DEF Idle, CallStates, Pcs, Statuses, Refundable

LEMMA CallFields ==
    ASSUME IInv, NEW c \in Calls
    PROVE  /\ call[c] \in CallStates /\ call[c].pc \in Pcs
           /\ call[c].doing \in {"none", "execute", "query"}
           /\ call[c].amount \in 0..Amount /\ call[c].deduct \in Nat
           /\ call[c].from \in Statuses /\ call[c].refund \in 0..MaxRefunds
           /\ call[c].rollbackOK \in BOOLEAN /\ call[c].pending \in BOOLEAN
  BY Types DEF CallStates

LEMMA FaultFacts ==
    ASSUME IInv, NEW kind, Fault(kind)
    PROVE  Hits(kind)
  BY Types DEF Fault, Hits, FaultStates

LEMMA CallFailsFacts ==
    ASSUME IInv, NEW c \in Calls, CallFails(c)
    PROVE  Hits(FailKind(c))
  BY FaultFacts DEF CallFails, FailKind

LEMMA SawClear ==
    ASSUME NEW kinds
    PROVE  Saw(kinds) <=> ~Clear(kinds)
  BY DEF Saw, Clear

\* What went wrong stays on record.
LEMMA ClearBefore ==
    ASSUME faults.kinds \subseteq faults'.kinds, NEW kinds, Clear(kinds)'
    PROVE  Clear(kinds)
  BY DEF Clear

LEMMA GotoFacts ==
    ASSUME IInv, NEW c \in Calls, NEW pc \in Pcs, Goto(c, pc)
    PROVE  MovedTo(c, pc)
  <1> DEFINE new == [call[c] EXCEPT !.pc = pc]
  <1>1. call' = [call EXCEPT ![c] = new]
    BY DEF Goto
  <1>2. /\ new \in CallStates /\ new.pc = pc /\ new.doing = call[c].doing
        /\ new.amount = call[c].amount /\ new.deduct = call[c].deduct
        /\ new.from = call[c].from /\ new.refund = call[c].refund
        /\ new.rollbackOK = call[c].rollbackOK /\ new.pending = call[c].pending
    BY CallFields DEF CallStates
  <1> HIDE DEF new
  <1> QED BY <1>1, <1>2, Types DEF MovedTo, Moved

LEMMA ReturnFacts ==
    ASSUME IInv, NEW c \in Calls, Return(c)
    PROVE  Returned(c)
  BY Types, IdleFacts DEF Return, Returned, Moved

LEMMA StatusFacts ==
    ASSUME IInv, NEW s \in Statuses, order' = [order EXCEPT !.status = s]
    PROVE  StatusSet(s)
  BY Types DEF StatusSet, Orders

LEMMA StatusAmountFacts ==
    ASSUME IInv, NEW s \in Statuses, NEW a \in 0..Amount,
           order' = [order EXCEPT !.status = s, !.refundAmount = a]
    PROVE  StatusAndAmountSet(s, a)
  BY Types DEF StatusAndAmountSet, Orders

-----------------------------------------------------------------------------
(* What an invariant asks of a step of call c.                             *)

LEMMA BaseStep ==
    ASSUME IInv, NEW c \in Calls, Moved(c),
           order' \in Orders, order'.type = order.type, order'.traded = order.traded,
           revoked' \in BOOLEAN, taken' \in Int,
           audit' \in Audits, audit'.pending.refund <= Len(gw'),
           gw' \in Seq(Refunds), Len(gw) <= Len(gw'), Len(gw') <= MaxRefunds,
           Paid => Paid', faults' \in FaultStates,
           Fits(c)', order'.status \in Refunded /\ order'.traded => Paid'
    PROVE  Base'
  <1>1. TypeOK'
    BY DEF TypeOK, Moved, FaultStates
  <1>2. ASSUME NEW d \in Calls, d # c PROVE Fits(d)'
    <2>1. call'[d] = call[d] /\ Fits(d)
      BY <1>2 DEF Moved, IInv, Base
    <2>2. Worth' = Worth
      BY DEF Worth
    <2>3. Len(gw') \in Nat /\ Len(gw) \in Nat /\ call[d].refund \in Nat
      BY Types, CallFields
    <2> QED BY <2>1, <2>2, <2>3 DEF Fits
  <1> QED BY <1>1, <1>2 DEF Base

\* Nothing more is owed.
LEMMA OwedStep ==
    ASSUME IInv, \A d \in Calls : Owed(d)' \subseteq Owed(d), taken' \in Int,
           taken <= taken'
    PROVE  OwedIsTaken'
  <1>1. AllOwed' \subseteq AllOwed
    BY DEF AllOwed
  <1>2. /\ IsFiniteSet(AllOwed') /\ Cardinality(AllOwed') <= Cardinality(AllOwed)
        /\ Cardinality(AllOwed') \in Nat /\ Cardinality(AllOwed) \in Nat
    BY <1>1, FS_Subset, FS_CardinalityType DEF IInv, OwedIsTaken
  <1> QED BY <1>2, Types DEF IInv, OwedIsTaken

LEMMA RowOf ==
    ASSUME NEW c, NEW n \in Nat
    PROVE  /\ IsFiniteSet({c} \X (1..n)) /\ Cardinality({c} \X (1..n)) = n
  <1>1. IsFiniteSet({c}) /\ Cardinality({c}) = 1
    BY FS_Singleton
  <1>2. IsFiniteSet(1..n) /\ Cardinality(1..n) = n
    BY FS_Interval
  <1>3. /\ IsFiniteSet({c} \X (1..n))
        /\ Cardinality({c} \X (1..n)) = Cardinality({c}) * Cardinality(1..n)
    BY <1>1, <1>2, FS_Product
  <1> QED BY <1>1, <1>2, <1>3

\* A deduction: what is owed grows by what is taken.
LEMMA OwedMore ==
    ASSUME IInv, NEW c \in Calls, NEW n \in Nat, Moved(c),
           Owed(c) = {}, Owed(c)' = 1..n, taken' = taken + n
    PROVE  OwedIsTaken'
  <1> DEFINE new == {c} \X (1..n)
  <1>1. AllOwed' = AllOwed \cup new
    <2>1. \A d \in Calls : d # c => Owed(d)' = Owed(d)
      BY DEF Moved, Owed
    <2>2. new \subseteq Calls \X Nat
      OBVIOUS
    <2>3. \A p \in Calls \X Nat : p \in new <=> p[1] = c /\ p[2] \in 1..n
      OBVIOUS
    <2>4. \A p \in Calls \X Nat : p[1] \in Calls
      OBVIOUS
    <2> HIDE DEF new
    <2>5. \A p \in Calls \X Nat : p \in AllOwed' <=> p \in AllOwed \/ p \in new
      BY <2>1, <2>3, <2>4 DEF AllOwed
    <2> QED BY <2>2, <2>5 DEF AllOwed
  <1>2. AllOwed \cap new = {}
    BY DEF AllOwed
  <1>3. IsFiniteSet(new) /\ Cardinality(new) = n
    BY RowOf
  <1>4. /\ IsFiniteSet(AllOwed) /\ Cardinality(AllOwed) <= taken
        /\ Cardinality(AllOwed) \in Nat /\ taken \in Int
    BY FS_CardinalityType, Types DEF IInv, OwedIsTaken
  <1> HIDE DEF new
  <1>5. /\ IsFiniteSet(AllOwed \cup new)
        /\ Cardinality(AllOwed \cup new) =
              Cardinality(AllOwed) + Cardinality(new) - Cardinality(AllOwed \cap new)
    BY <1>3, <1>4, FS_Union
  <1>6. Cardinality(AllOwed \cap new) = 0
    BY <1>2, FS_EmptySet
  <1> QED BY <1>1, <1>3, <1>4, <1>5, <1>6 DEF OwedIsTaken

\* A rollback: what is given back was owed.
LEMMA OwedLess ==
    ASSUME IInv, NEW c \in Calls, NEW n \in Nat, Moved(c),
           Owed(c) = 1..n, Owed(c)' = {}, taken' = taken - n
    PROVE  OwedIsTaken'
  <1> DEFINE old == {c} \X (1..n)
  <1>1. AllOwed = AllOwed' \cup old
    <2>1. \A d \in Calls : d # c => Owed(d)' = Owed(d)
      BY DEF Moved, Owed
    <2>2. old \subseteq Calls \X Nat
      OBVIOUS
    <2>3. \A p \in Calls \X Nat : p \in old <=> p[1] = c /\ p[2] \in 1..n
      OBVIOUS
    <2>4. \A p \in Calls \X Nat : p[1] \in Calls
      OBVIOUS
    <2> HIDE DEF old
    <2>5. \A p \in Calls \X Nat : p \in AllOwed <=> p \in AllOwed' \/ p \in old
      BY <2>1, <2>3, <2>4 DEF AllOwed
    <2> QED BY <2>2, <2>5 DEF AllOwed
  <1>2. AllOwed' \cap old = {}
    BY DEF AllOwed
  <1>3. IsFiniteSet(old) /\ Cardinality(old) = n
    BY RowOf
  <1>4. /\ IsFiniteSet(AllOwed) /\ Cardinality(AllOwed) <= taken /\ taken \in Int
    BY Types DEF IInv, OwedIsTaken
  <1> HIDE DEF old
  <1>5. IsFiniteSet(AllOwed') /\ Cardinality(AllOwed') \in Nat
    BY <1>1, <1>4, FS_Subset, FS_CardinalityType
  <1>6. Cardinality(AllOwed' \cup old) =
           Cardinality(AllOwed') + Cardinality(old) - Cardinality(AllOwed' \cap old)
    BY <1>3, <1>5, FS_Union
  <1>7. Cardinality(AllOwed' \cap old) = 0
    BY <1>2, FS_EmptySet
  <1> QED BY <1>1, <1>3, <1>4, <1>5, <1>6, <1>7 DEF OwedIsTaken

\* A call that will leave REFUNDING.
Owner(c) == /\ call[c].doing = "execute"
            /\ call[c].pc \notin {"lock", "logPending", "logOk"}

LEMMA OwnerStep ==
    ASSUME IInv, NEW c \in Calls, Moved(c), faults.kinds \subseteq faults'.kinds,
           order'.status = "REFUNDING" =>
              \/ Owner(c)'
              \/ ~Clear({"executeFails", "replyLost"})'
              \/ order.status = "REFUNDING" /\ ~Owner(c)
    PROVE  RefundingHasOwner'
  <1> SUFFICES ASSUME order'.status = "REFUNDING",
                      Clear({"executeFails", "replyLost"})'
               PROVE  \E d \in Calls : Owner(d)'
    BY DEF RefundingHasOwner, Owner, Saw, Clear
  <1>1. CASE Owner(c)'
    BY <1>1
  <1>2. CASE order.status = "REFUNDING" /\ ~Owner(c)
    <2>1. PICK d \in Calls : Owner(d)
      BY <1>2 DEF IInv, RefundingHasOwner, Owner, Saw, Clear
    <2> QED BY <1>2, <2>1 DEF Moved, Owner
  <1> QED BY <1>1, <1>2

-----------------------------------------------------------------------------
(* While calls do not overlap, the invariant is about the one call there   *)
(* is.                                                                     *)

AmountKinds == {"overlap", "auditFails", "replyLost"}
LiveKinds == {"answerLost", "retryPending", "auditFails", "overlap", "replyLost"}
TakenKinds == {"executeFails", "queryFails", "replyLost", "overlap"}
KeptKinds == {"queryFails", "replyLost", "auditFails", "overlap"}

\* The order was refunded at the gateway, for the amount it records.
PaidAsRecorded ==
    \E i \in DOMAIN gw : gw[i].status = "paid" /\ gw[i].amount = order.refundAmount

AmountsOf(c) ==
    /\ AmountAt(c)
    /\ order.status = "REFUND_PENDING" =>
          IsFor(audit.pending.refund, order.refundAmount) \/ call[c].pc = "logPending"
    /\ order.status \in Refunded /\ order.traded => PaidAsRecorded

LiveOf(c) ==
    /\ LiveAt(c)
    /\ order.status \in {"COMPLETED", "REFUND_REQUESTED", "REFUND_FAILED"} => NoneLive
    /\ order.status = "REFUND_PENDING" =>
          OnlyLive(audit.pending.refund) \/ call[c].pc = "logPending"

Holds(c) == call[c].pc \in {"gateway", "rollback", "markOk"}

TakenOf(c) ==
    /\ taken <= Worth
    /\ Restorable /\ order.status \notin Refunded =>
          taken = IF Holds(c) THEN call[c].deduct ELSE 0

KeptOf(c) ==
    ~audit.rollbackFailed =>
        /\ KeptAt(c)
        /\ order.status \in Refundable /\ call[c].pc # "markOk" => taken = 0

OthersIdle(c) == \A d \in Calls : d # c => call[d] = Idle

\* Call c is running, or starts with no other call running.
NotBeside(c) ==
    \/ call[c].pc # "idle"
    \/ Clear({"overlap"})' => \A d \in Calls : call[d].pc = "idle"

\* What the invariant says before a step of call c.
LEMMA Before ==
    ASSUME IInv, NEW c \in Calls, faults.kinds \subseteq faults'.kinds, NotBeside(c)
    PROVE  /\ Clear({"overlap"})' => OthersIdle(c) /\ StatusAt(c)
           /\ Clear(AmountKinds)' => AmountsOf(c) /\ StatusAt(c)
           /\ Clear(LiveKinds)' => LiveOf(c) /\ StatusAt(c)
           /\ Clear(TakenKinds)' => TakenOf(c) /\ StatusAt(c)
           /\ Clear(KeptKinds)' => KeptOf(c) /\ StatusAt(c)
  <1>1. Clear({"overlap"})' => OthersIdle(c) /\ StatusAt(c)
    <2> SUFFICES ASSUME Clear({"overlap"})' PROVE OthersIdle(c) /\ StatusAt(c)
      OBVIOUS
    <2>1. Clear({"overlap"})
      BY ClearBefore
    <2>2. \A d \in Calls : d # c => call[d].pc = "idle"
      BY <2>1 DEF NotBeside, IInv, Alone
    <2> QED BY <2>1, <2>2 DEF IInv, Alone, Base, Fits, OthersIdle
  <1>2. /\ Clear(AmountKinds)' => Clear({"overlap"})' /\ Clear(AmountKinds)
        /\ Clear(LiveKinds)' => Clear({"overlap"})' /\ Clear(LiveKinds)
        /\ Clear(TakenKinds)' => Clear({"overlap"})' /\ Clear(TakenKinds)
        /\ Clear(KeptKinds)' => Clear({"overlap"})' /\ Clear(KeptKinds)
    BY DEF Clear, AmountKinds, LiveKinds, TakenKinds, KeptKinds
  <1>3. ASSUME OthersIdle(c), NEW d \in Calls, d # c PROVE call[d].pc = "idle"
    BY <1>3, IdleFacts DEF OthersIdle
  <1>4. Clear(AmountKinds)' => AmountsOf(c)
    BY <1>1, <1>2, <1>3
       DEF IInv, AmountsAgree, AmountKinds, AmountsOf, Logging, PaidAsRecorded
  <1>5. Clear(LiveKinds)' => LiveOf(c)
    BY <1>1, <1>2, <1>3 DEF IInv, LiveIsKnown, LiveKinds, LiveOf, Logging
  <1>6. Clear(TakenKinds)' => TakenOf(c)
    BY <1>1, <1>2, <1>3 DEF IInv, TakenFits, TakenKinds, TakenOf, Holds
  <1>7. Clear(KeptKinds)' => KeptOf(c)
    BY <1>1, <1>2, <1>3 DEF IInv, KeptIsLogged, KeptKinds, KeptOf
  <1> QED BY <1>1, <1>2, <1>4, <1>5, <1>6, <1>7

\* What it asks after it.
Solo(c) ==
    /\ Clear({"overlap"}) => StatusAt(c)
    /\ Clear(AmountKinds) => AmountsOf(c)
    /\ Clear(LiveKinds) => LiveOf(c)
    /\ Clear(TakenKinds) => TakenOf(c)
    /\ Clear(KeptKinds) => KeptOf(c)

LEMMA After ==
    ASSUME IInv, NEW c \in Calls, faults.kinds \subseteq faults'.kinds, NotBeside(c),
           Moved(c), Solo(c)'
    PROVE  Alone' /\ AmountsAgree' /\ LiveIsKnown' /\ TakenFits' /\ KeptIsLogged'
  <1>1. Clear({"overlap"})' => \A d \in Calls : d # c => call'[d] = Idle
    BY Before DEF OthersIdle, Moved
  <1>2. /\ Clear(AmountKinds)' => Clear({"overlap"})'
        /\ Clear(LiveKinds)' => Clear({"overlap"})'
        /\ Clear(TakenKinds)' => Clear({"overlap"})'
        /\ Clear(KeptKinds)' => Clear({"overlap"})'
    BY DEF Clear, AmountKinds, LiveKinds, TakenKinds, KeptKinds
  <1>3. Alone'
    BY <1>1, IdleFacts DEF Alone, Solo, StatusAt, ExecutePcs, QueryPcs
  <1>4. ASSUME Clear({"overlap"})', NEW d \in Calls, d # c
        PROVE  AmountAt(d)' /\ LiveAt(d)' /\ KeptAt(d)' /\ call'[d].pc = "idle"
    <2>1. call'[d].pc = "idle" /\ ~call'[d].pending
      BY <1>1, <1>4, IdleFacts
    <2> QED BY <2>1 DEF AmountAt, LiveAt, KeptAt, QueryPcs
  <1>5. AmountsAgree'
    BY <1>2, <1>4 DEF AmountsAgree, Solo, AmountKinds, AmountsOf, Logging, PaidAsRecorded
  <1>6. LiveIsKnown'
    BY <1>2, <1>4 DEF LiveIsKnown, Solo, LiveKinds, LiveOf, Logging
  <1>7. TakenFits'
    BY <1>2, <1>4 DEF TakenFits, Solo, TakenKinds, TakenOf, Holds
  <1>8. KeptIsLogged'
    BY <1>2, <1>4 DEF KeptIsLogged, Solo, KeptKinds, KeptOf
  <1> QED BY <1>3, <1>5, <1>6, <1>7, <1>8

\* A kind that was hit is not clear.
LEMMA HitsFacts ==
    ASSUME IInv, NEW kind, Hits(kind)
    PROVE  /\ faults' \in FaultStates /\ faults.kinds \subseteq faults'.kinds
           /\ \A kinds : kind \in kinds => ~Clear(kinds)'
           /\ kind \in {"executeFails", "replyLost"} => ~Clear({"executeFails", "replyLost"})'
  BY DEF Hits, Clear

-----------------------------------------------------------------------------
(* The statements that change the order's status.                          *)

\* Everything but the order, the call and what went wrong stays.
Beside == UNCHANGED <<revoked, taken, audit, gw>>

LEMMA BesideFacts ==
    ASSUME IInv, NEW c \in Calls, Moved(c), Beside,
           order' \in Orders, order'.type = order.type, order'.traded = order.traded,
           faults' \in FaultStates
    PROVE  /\ Fits(c)' /\ (order'.status \in Refunded /\ order'.traded => Paid) => Base'
           /\ Owed(c)' \subseteq Owed(c) => OwedIsTaken'
           /\ Paid' = Paid /\ Worth' = Worth /\ Restorable' = Restorable
           /\ NoneLive' = NoneLive
           /\ \A i : OnlyLive(i)' = OnlyLive(i)
           /\ \A i, a : IsFor(i, a)' = IsFor(i, a)
  <1>1. Paid' = Paid /\ Worth' = Worth /\ Restorable' = Restorable /\ NoneLive' = NoneLive
    BY DEF Beside, Paid, Worth, Restorable, NoneLive
  <1>2. \A i : OnlyLive(i)' = OnlyLive(i)
    BY DEF Beside, OnlyLive
  <1>3. \A i, a : IsFor(i, a)' = IsFor(i, a)
    BY DEF Beside, IsFor
  <1>4. ASSUME Fits(c)', order'.status \in Refunded /\ order'.traded => Paid PROVE Base'
    BY <1>1, <1>4, BaseStep, Types DEF Beside, IInv, Base
  <1>5. ASSUME Owed(c)' \subseteq Owed(c) PROVE OwedIsTaken'
    <2>1. \A d \in Calls : Owed(d)' \subseteq Owed(d)
      BY <1>5 DEF Moved, Owed
    <2> QED BY <2>1, OwedStep, Types DEF Beside
  <1> QED BY <1>1, <1>2, <1>3, <1>4, <1>5

LEMMA ReturnedFacts ==
    ASSUME NEW c \in Calls, Returned(c)
    PROVE  /\ Moved(c) /\ call'[c].pc = "idle" /\ call'[c].doing = "none"
           /\ ~call'[c].pending /\ Owed(c)' = {}
           /\ StatusAt(c)' /\ AmountAt(c)' /\ LiveAt(c)' /\ KeptAt(c)'
           /\ ~Holds(c)'
  BY IdleFacts DEF Returned, Owed, StatusAt, AmountAt, LiveAt, KeptAt, Holds,
     ExecutePcs, QueryPcs

LEMMA ReturnedFits ==
    ASSUME NEW c \in Calls, Returned(c), gw' \in Seq(Refunds)
    PROVE  Fits(c)'
  <1>1. Len(gw') \in Nat
    OBVIOUS
  <1>2. Worth' \in Nat
    BY DEF Worth
  <1> QED BY <1>1, <1>2, IdleFacts DEF Returned, Fits, ExecutePcs, QueryPcs

\* An order that goes back to rest.
LEMMA SettledKeeps ==
    ASSUME IInv, NEW c \in Calls,
           call[c].pc \in {"restore", "markFailed", "finalizeFailed"},
           NEW s \in {"COMPLETED", "REFUND_REQUESTED", "REFUND_FAILED"},
           UpdateOrder(c, [order EXCEPT !.status = s], Return(c), Return(c))
    PROVE  IInv'
  <1>1. Beside /\ Returned(c) /\ NotBeside(c)
    BY ReturnFacts DEF UpdateOrder, Beside, NotBeside
  <1>2. s \in Statuses
    BY DEF Statuses, Refundable
  <1>3. \/ StatusSet(s) /\ faults' = faults
        \/ order' = order /\ Hits(FailKind(c))
        \/ StatusSet(s) /\ Hits("replyLost")
    BY <1>2, StatusFacts, FaultFacts, CallFailsFacts DEF UpdateOrder
  <1>4. /\ order' \in Orders /\ order'.type = order.type /\ order'.traded = order.traded
        /\ order'.refundAmount = order.refundAmount
        /\ faults' \in FaultStates /\ faults.kinds \subseteq faults'.kinds
    BY <1>3, Types, HitsFacts DEF StatusSet
  <1>5. order' = order \/ order'.status \notin Refunded \cup {"REFUNDING", "REFUND_PENDING"}
    BY <1>3 DEF StatusSet, Refunded
  <1>6. Base' /\ OwedIsTaken'
    BY <1>1, <1>4, <1>5, BesideFacts, ReturnedFacts, ReturnedFits, Types
       DEF Beside, IInv, Base
  <1>7. RefundingHasOwner'
    <2>1. order'.status = "REFUNDING" => order' = order /\ Hits(FailKind(c))
      BY <1>3 DEF StatusSet
    <2>2. Hits("executeFails") => ~Clear({"executeFails", "replyLost"})'
      BY HitsFacts
    <2>3. FailKind(c) = "executeFails" \/ ~Owner(c)
      BY DEF FailKind, Owner
    <2> QED BY <1>1, <1>4, <2>1, <2>2, <2>3, OwnerStep, ReturnedFacts
  <1>8. Solo(c)'
    <2>2. Clear(AmountKinds)' => AmountsOf(c)'
      BY <1>1, <1>4, <1>5, Before, BesideFacts, ReturnedFacts
         DEF AmountsOf, Beside, PaidAsRecorded
    <2>3. Clear(LiveKinds)' => LiveOf(c)'
      BY <1>1, <1>4, <1>5, Before, BesideFacts, ReturnedFacts
         DEF LiveOf, LiveAt, Beside
    <2>4. Clear(TakenKinds)' => TakenOf(c)'
      BY <1>1, <1>4, <1>5, Before, BesideFacts, ReturnedFacts
         DEF TakenOf, StatusAt, ExecutePcs, QueryPcs, Holds, Beside, Refunded
    <2>5. Clear(KeptKinds)' => KeptOf(c)'
      BY <1>1, <1>4, <1>5, Before, BesideFacts, ReturnedFacts
         DEF KeptOf, KeptAt, QueryPcs, Beside
    <2> QED BY <1>1, <2>2, <2>3, <2>4, <2>5, ReturnedFacts DEF Solo
  <1> QED BY <1>1, <1>4, <1>6, <1>7, <1>8, After, ReturnedFacts DEF IInv

LEMMA RestoreStatusKeeps ==
    ASSUME IInv, NEW c \in Calls, RestoreStatus(c)
    PROVE  IInv'
  BY SettledKeeps DEF RestoreStatus

LEMMA MarkRefundFailedKeeps ==
    ASSUME IInv, NEW c \in Calls, MarkRefundFailed(c)
    PROVE  IInv'
  BY SettledKeeps DEF MarkRefundFailed

LEMMA FinalizeRefundFailedKeeps ==
    ASSUME IInv, NEW c \in Calls, FinalizeRefundFailed(c)
    PROVE  IInv'
  BY SettledKeeps DEF FinalizeRefundFailed

\* A call that ends, or is ended, before it changed anything.
LEMMA GaveUpKeeps ==
    ASSUME IInv, NEW c \in Calls, call[c].pc # "idle", order' = order, Beside, Returned(c),
           \/ Hits(FailKind(c)) /\ call[c].pc # "logPending"
           \/ Hits("auditFails") /\ call[c].pc \in {"logPending", "logOk"}
           \/ faults' = faults /\ call[c].pc \in {"lock", "query", "finalDeduct"}
    PROVE  IInv'
  <1>1. NotBeside(c)
    BY DEF NotBeside
  <1>2. /\ faults' \in FaultStates /\ faults.kinds \subseteq faults'.kinds
        /\ order' \in Orders
    BY Types, HitsFacts
  <1>3. \/ Hits("executeFails") /\ call[c].doing # "query" /\ call[c].pc # "logPending"
        \/ Hits("queryFails") /\ call[c].doing = "query" /\ call[c].pc # "logPending"
        \/ Hits("auditFails") /\ call[c].pc \in {"logPending", "logOk"}
        \/ faults' = faults /\ call[c].pc \in {"lock", "query", "finalDeduct"}
    BY DEF FailKind
  <1>4. Base' /\ OwedIsTaken'
    BY <1>2, BesideFacts, ReturnedFacts, ReturnedFits, Types DEF Beside, IInv, Base
  <1>5. RefundingHasOwner'
    <2>1. Hits("executeFails") => ~Clear({"executeFails", "replyLost"})'
      BY HitsFacts
    <2>2. Hits("executeFails") \/ ~Owner(c)
      BY <1>3 DEF Owner, IInv, Base, Fits, QueryPcs
    <2> QED BY <1>2, <2>1, <2>2, OwnerStep, ReturnedFacts
  <1>6. Solo(c)'
    <2>1. Hits("auditFails") =>
             ~Clear(AmountKinds)' /\ ~Clear(LiveKinds)' /\ ~Clear(KeptKinds)'
      BY HitsFacts DEF AmountKinds, LiveKinds, KeptKinds
    <2>2. /\ Hits("executeFails") => ~Clear(TakenKinds)'
          /\ Hits("queryFails") => ~Clear(TakenKinds)' /\ ~Clear(KeptKinds)'
      BY HitsFacts DEF TakenKinds, KeptKinds
    <2>3. Clear(AmountKinds)' => AmountsOf(c)'
      BY <1>1, <1>2, <1>3, <2>1, Before, BesideFacts, ReturnedFacts
         DEF AmountsOf, Beside, PaidAsRecorded
    <2>4. Clear(LiveKinds)' => LiveOf(c)'
      BY <1>1, <1>2, <1>3, <2>1, Before, BesideFacts, ReturnedFacts DEF LiveOf, Beside
    <2>5. Clear(TakenKinds)' => TakenOf(c)'
      BY <1>1, <1>2, <1>3, <2>2, Before, BesideFacts, ReturnedFacts
         DEF TakenOf, Holds, Beside
    <2>6. Clear(KeptKinds)' => KeptOf(c)'
      <3>1. call[c].pc = "markOk" => call[c].doing # "none"
        BY DEF IInv, Base, Fits
      <3>2. call[c].doing \in {"none", "execute", "query"}
        BY CallFields
      <3> QED BY <1>1, <1>2, <1>3, <2>1, <2>2, <3>1, <3>2, Before, BesideFacts, ReturnedFacts
              DEF KeptOf, StatusAt, Beside, Refundable
    <2> QED BY <2>3, <2>4, <2>5, <2>6, ReturnedFacts DEF Solo
  <1> QED BY <1>1, <1>2, <1>4, <1>5, <1>6, After, ReturnedFacts DEF IInv

LEMMA ReplyLostSolo ==
    ASSUME IInv, NEW c \in Calls, Hits("replyLost"), StatusAt(c)'
    PROVE  Solo(c)'
  <1>1. /\ ~Clear(AmountKinds)' /\ ~Clear(LiveKinds)'
        /\ ~Clear(TakenKinds)' /\ ~Clear(KeptKinds)'
    BY HitsFacts DEF AmountKinds, LiveKinds, TakenKinds, KeptKinds
  <1> QED BY <1>1 DEF Solo

\* A statement that changed the order, and whose caller saw an error.
LEMMA ReplyLostKeeps ==
    ASSUME IInv, NEW c \in Calls, call[c].pc # "idle", Beside, Returned(c),
           Hits("replyLost"),
           order' \in Orders, order'.type = order.type, order'.traded = order.traded,
           order'.status \in Refunded /\ order'.traded => Paid
    PROVE  IInv'
  <1>1. /\ faults' \in FaultStates /\ faults.kinds \subseteq faults'.kinds
        /\ NotBeside(c)
    BY HitsFacts DEF NotBeside
  <1>2. Base' /\ OwedIsTaken'
    BY <1>1, BesideFacts, ReturnedFacts, ReturnedFits, Types DEF Beside
  <1>3. RefundingHasOwner'
    BY <1>1, OwnerStep, ReturnedFacts, HitsFacts
  <1> QED BY <1>1, <1>2, <1>3, ReplyLostSolo, After, ReturnedFacts DEF IInv

\* The calls that mark the order before they write the log.
LEMMA MarkRefundPendingKeeps ==
    ASSUME IInv, NEW c \in Calls, MarkRefundPending(c)
    PROVE  IInv'
  <1> DEFINE s == "REFUND_PENDING"
             a == call[c].amount
  <1>1. /\ call[c].pc = "markPending" /\ Beside /\ NotBeside(c)
        /\ call[c].doing = "execute" /\ call[c].amount > 0
    BY DEF MarkRefundPending, UpdateOrder, Beside, NotBeside, IInv, Base, Fits, ExecutePcs
  <1>2. s \in Statuses /\ a \in 0..Amount /\ "logPending" \in Pcs
    BY CallFields DEF Statuses, Refundable, Pcs, ExecutePcs
  <1> HIDE DEF a
  <1>3. \/ StatusAndAmountSet(s, a) /\ MovedTo(c, "logPending") /\ faults' = faults
        \/ order' = order /\ Returned(c) /\ Hits(FailKind(c))
        \/ StatusAndAmountSet(s, a) /\ Returned(c) /\ Hits("replyLost")
    BY <1>1, <1>2, StatusAmountFacts, GotoFacts, ReturnFacts, FaultFacts, CallFailsFacts
       DEF MarkRefundPending, UpdateOrder, a
  <1>4. CASE order' = order /\ Returned(c) /\ Hits(FailKind(c))
    BY <1>1, <1>4, GaveUpKeeps
  <1>5. CASE StatusAndAmountSet(s, a) /\ Returned(c) /\ Hits("replyLost")
    BY <1>1, <1>5, ReplyLostKeeps DEF StatusAndAmountSet, Refunded
  <1>6. CASE StatusAndAmountSet(s, a) /\ MovedTo(c, "logPending") /\ faults' = faults
    <2>1. /\ order' \in Orders /\ order'.type = order.type /\ order'.traded = order.traded
          /\ faults' \in FaultStates /\ faults.kinds \subseteq faults'.kinds
          /\ order'.status \notin Refunded /\ Moved(c)
      BY <1>6, Types DEF StatusAndAmountSet, MovedTo, Refunded
    <2>2. Base' /\ OwedIsTaken'
      <3>1. Fits(c)'
        BY <1>1, <1>6, <2>1, BesideFacts
           DEF MovedTo, IInv, Base, Fits, ExecutePcs, QueryPcs, Beside
      <3>2. Owed(c)' = {}
        BY <1>6 DEF MovedTo, Owed
      <3> QED BY <1>1, <2>1, <3>1, <3>2, BesideFacts
    <2>3. RefundingHasOwner'
      BY <1>6, <2>1, OwnerStep DEF StatusAndAmountSet
    <2>4. StatusAt(c)'
      BY <1>6 DEF MovedTo, StatusAndAmountSet, StatusAt, ExecutePcs, QueryPcs
    <2>5. Clear(AmountKinds)' => AmountsOf(c)'
      BY <1>1, <1>6, <2>1, Before, BesideFacts
         DEF AmountsOf, AmountAt, MovedTo, StatusAndAmountSet, QueryPcs, Refunded, a
    <2>6. Clear(LiveKinds)' => LiveOf(c)'
      BY <1>1, <1>6, <2>1, Before, BesideFacts
         DEF LiveOf, LiveAt, MovedTo, StatusAndAmountSet
    <2>7. Clear(TakenKinds)' => TakenOf(c)'
      BY <1>1, <1>6, <2>1, Before, BesideFacts
         DEF TakenOf, StatusAt, ExecutePcs, Holds, MovedTo, Refunded, Beside
    <2>8. Clear(KeptKinds)' => KeptOf(c)'
      BY <1>1, <1>6, <2>1, Before, BesideFacts DEF KeptOf, KeptAt, MovedTo, Beside
    <2> QED BY <1>1, <2>1, <2>2, <2>3, <2>4, <2>5, <2>6, <2>7, <2>8, After DEF IInv, Solo
  <1> QED BY <1>3, <1>4, <1>5, <1>6

LEMMA MarkRefundOkKeeps ==
    ASSUME IInv, NEW c \in Calls, MarkRefundOk(c)
    PROVE  IInv'
  <1> DEFINE a == call[c].amount
             s == IF a < Amount THEN "PARTIALLY_REFUNDED" ELSE "REFUNDED"
  <1>1. call[c].pc = "markOk" /\ Beside /\ NotBeside(c)
    BY DEF MarkRefundOk, UpdateOrder, Beside, NotBeside
  <1>2. /\ s \in Statuses /\ s \in Refunded /\ a \in 0..Amount /\ "logOk" \in Pcs
        /\ (order.traded => Paid)
    BY <1>1, CallFields DEF Statuses, Refunded, Pcs, IInv, Base, Fits
  <1>3. \/ StatusAndAmountSet(s, a) /\ MovedTo(c, "logOk") /\ faults' = faults
        \/ order' = order /\ Returned(c) /\ Hits(FailKind(c))
        \/ StatusAndAmountSet(s, a) /\ Returned(c) /\ Hits("replyLost")
    <2> HIDE DEF s, a
    <2>1. MarkRefundOk(c) <=>
             /\ call[c].pc = "markOk"
             /\ UpdateOrder(c, [order EXCEPT !.status = s, !.refundAmount = a],
                            Goto(c, "logOk"), Return(c))
      BY DEF MarkRefundOk, s, a
    <2> QED BY <1>2, <2>1, StatusAmountFacts, GotoFacts, ReturnFacts, FaultFacts,
               CallFailsFacts
            DEF UpdateOrder
  <1> HIDE DEF a, s
  <1>4. CASE order' = order /\ Returned(c) /\ Hits(FailKind(c))
    BY <1>1, <1>4, GaveUpKeeps
  <1>5. CASE StatusAndAmountSet(s, a) /\ Returned(c) /\ Hits("replyLost")
    BY <1>1, <1>2, <1>5, ReplyLostKeeps DEF StatusAndAmountSet
  <1>6. CASE StatusAndAmountSet(s, a) /\ MovedTo(c, "logOk") /\ faults' = faults
    <2>1. /\ order' \in Orders /\ order'.type = order.type /\ order'.traded = order.traded
          /\ faults' \in FaultStates /\ faults.kinds \subseteq faults'.kinds
          /\ order'.status \in Refunded /\ Moved(c)
          /\ order'.status \notin Refundable \cup {"REFUNDING"}
      BY <1>2, <1>6, Types DEF StatusAndAmountSet, MovedTo, Refundable, Refunded
    <2>2. Base' /\ OwedIsTaken'
      <3>1. Fits(c)'
        BY <1>1, <1>6, <2>1, BesideFacts
           DEF MovedTo, IInv, Base, Fits, ExecutePcs, QueryPcs, Beside
      <3>2. Owed(c)' = {}
        BY <1>6 DEF MovedTo, Owed
      <3> QED BY <1>1, <1>2, <2>1, <3>1, <3>2, BesideFacts
    <2>3. RefundingHasOwner'
      BY <2>1, OwnerStep
    <2>4. StatusAt(c)'
      BY <1>6, <2>1 DEF MovedTo, StatusAt, ExecutePcs, QueryPcs
    <2>5. Clear(AmountKinds)' => AmountsOf(c)'
      <3>1. Clear(AmountKinds)' => AmountAt(c)'
        BY <1>1, <1>6, <2>1, Before, BesideFacts DEF AmountsOf, AmountAt, MovedTo, QueryPcs
      <3>2. Clear(AmountKinds)' /\ order'.traded => PaidAsRecorded'
        BY <1>1, <1>6, <2>1, Before
           DEF AmountsOf, AmountAt, IsFor, PaidAsRecorded, StatusAndAmountSet, Beside, a
      <3> QED BY <2>1, <3>1, <3>2 DEF AmountsOf, Refundable
    <2>6. Clear(LiveKinds)' => LiveOf(c)'
      BY <1>1, <1>6, <2>1, Before, BesideFacts DEF LiveOf, LiveAt, MovedTo, Refundable
    <2>7. Clear(TakenKinds)' => TakenOf(c)'
      BY <1>1, <1>6, <2>1, Before, BesideFacts DEF TakenOf, Beside
    <2>8. Clear(KeptKinds)' => KeptOf(c)'
      BY <1>1, <1>6, <2>1, Before, BesideFacts DEF KeptOf, KeptAt, MovedTo, QueryPcs
    <2> QED BY <1>1, <2>1, <2>2, <2>3, <2>4, <2>5, <2>6, <2>7, <2>8, After DEF IInv, Solo
  <1> QED BY <1>3, <1>4, <1>5, <1>6

LEMMA LockKeeps ==
    ASSUME IInv, NEW c \in Calls, Lock(c)
    PROVE  IInv'
  <1> DEFINE s == "REFUNDING"
  <1>1. /\ call[c].pc = "lock" /\ Beside /\ NotBeside(c)
        /\ call[c].doing = "execute" /\ call[c].amount > 0
    BY DEF Lock, UpdateOrder, Beside, NotBeside, IInv, Base, Fits
  <1>2. s \in Statuses /\ "check" \in Pcs
    BY DEF Statuses, Pcs, ExecutePcs
  <1>3. \/ StatusSet(s) /\ MovedTo(c, "check") /\ faults' = faults
        \/ order' = order /\ Returned(c) /\ Hits(FailKind(c))
        \/ StatusSet(s) /\ Returned(c) /\ Hits("replyLost")
        \/ order' = order /\ Returned(c) /\ faults' = faults
    BY <1>2, StatusFacts, GotoFacts, ReturnFacts, FaultFacts, CallFailsFacts
       DEF Lock, UpdateOrder
  <1>4. CASE order' = order /\ Returned(c) /\ (Hits(FailKind(c)) \/ faults' = faults)
    BY <1>1, <1>4, GaveUpKeeps
  <1>5. CASE StatusSet(s) /\ Returned(c) /\ Hits("replyLost")
    BY <1>1, <1>5, ReplyLostKeeps DEF StatusSet, Refunded
  <1>6. CASE StatusSet(s) /\ MovedTo(c, "check") /\ faults' = faults
    <2>1. /\ order' \in Orders /\ order'.type = order.type /\ order'.traded = order.traded
          /\ faults' \in FaultStates /\ faults.kinds \subseteq faults'.kinds
          /\ order'.status \notin Refunded \cup Refundable /\ Moved(c)
      BY <1>6, Types DEF StatusSet, MovedTo, Refunded, Refundable
    <2>2. Base' /\ OwedIsTaken'
      <3>1. Fits(c)'
        BY <1>1, <1>6, <2>1, BesideFacts
           DEF MovedTo, IInv, Base, Fits, ExecutePcs, QueryPcs, Beside
      <3>2. Owed(c)' = {}
        BY <1>6 DEF MovedTo, Owed
      <3> QED BY <1>1, <2>1, <3>1, <3>2, BesideFacts
    <2>3. RefundingHasOwner'
      BY <1>1, <1>6, <2>1, OwnerStep DEF Owner, MovedTo
    <2>4. StatusAt(c)'
      BY <1>6 DEF MovedTo, StatusSet, StatusAt, ExecutePcs, QueryPcs
    <2>5. Clear(AmountKinds)' => AmountsOf(c)'
      BY <1>1, <1>6, <2>1, Before, BesideFacts
         DEF AmountsOf, AmountAt, MovedTo, QueryPcs, Refundable
    <2>6. Clear(LiveKinds)' => LiveOf(c)'
      BY <1>1, <1>6, <2>1, Before, BesideFacts DEF LiveOf, LiveAt, MovedTo, Refundable
    <2>7. Clear(TakenKinds)' => TakenOf(c)'
      BY <1>1, <1>6, <2>1, Before, BesideFacts
         DEF TakenOf, StatusAt, Holds, MovedTo, Refunded, Refundable, Beside
    <2>8. Clear(KeptKinds)' => KeptOf(c)'
      BY <1>1, <1>6, <2>1, Before, BesideFacts DEF KeptOf, KeptAt, MovedTo, Beside, QueryPcs
    <2> QED BY <1>1, <2>1, <2>2, <2>3, <2>4, <2>5, <2>6, <2>7, <2>8, After DEF IInv, Solo
  <1> QED BY <1>3, <1>4, <1>5, <1>6

LEMMA CrashKeeps ==
    ASSUME IInv, NEW c \in Calls, Crash(c)
    PROVE  IInv'
  <1>1. /\ call[c].pc # "idle" /\ order' = order /\ Beside /\ Returned(c)
        /\ \/ Hits(FailKind(c)) /\ call[c].pc # "logPending"
           \/ Hits("auditFails") /\ call[c].pc \in {"logPending", "logOk"}
    BY ReturnFacts, FaultFacts, CallFailsFacts DEF Crash, Beside
  <1> QED BY <1>1, GaveUpKeeps

-----------------------------------------------------------------------------
(* The statements that take and give back.                                 *)

\* The call took back what it planned.
TookBack(c) ==
    /\ taken' = taken + call[c].deduct
    /\ revoked' \in BOOLEAN /\ (order.type = "balance" => revoked' = revoked)
    /\ order.type = "balance" \/ ~revoked
    /\ UNCHANGED <<order, audit, gw>>

LEMMA DeductionFacts ==
    ASSUME IInv, NEW c \in Calls, NEW ACTION Ok, NEW ACTION Err, Deduction(c, Ok, Err)
    PROVE  \/ TookBack(c) /\ Ok /\ faults' = faults
           \/ /\ order.type = "subscription" /\ revoked
              /\ order' = order /\ Beside /\ Err /\ faults' = faults
           \/ order' = order /\ Beside /\ Err /\ Hits(FailKind(c))
           \/ TookBack(c) /\ Err /\ Hits("replyLost")
  BY Types, FaultFacts, CallFailsFacts
     DEF Deduction, TakeBack, TookBack, Beside, Orders

LEMMA TookBackFacts ==
    ASSUME IInv, NEW c \in Calls, TookBack(c)
    PROVE  /\ order' = order /\ order' \in Orders /\ audit' = audit /\ gw' = gw
           /\ revoked' \in BOOLEAN /\ taken' \in Int /\ taken <= taken'
           /\ Paid' = Paid /\ Worth' = Worth /\ NoneLive' = NoneLive
           /\ call[c].deduct \in Nat /\ call[c].deduct <= Worth /\ Restorable
           /\ \A i : OnlyLive(i)' = OnlyLive(i)
           /\ \A i, a : IsFor(i, a)' = IsFor(i, a)
  <1>1. call[c].deduct \in Nat /\ call[c].deduct <= Worth
    BY CallFields DEF IInv, Base, Fits
  <1>2. /\ order' = order /\ order' \in Orders /\ audit' = audit /\ gw' = gw
        /\ revoked' \in BOOLEAN /\ taken' \in Int /\ taken <= taken' /\ Restorable
    BY <1>1, Types DEF TookBack, Restorable
  <1> QED BY <1>1, <1>2 DEF Paid, Worth, NoneLive, OnlyLive, IsFor

LEMMA DeductKeeps ==
    ASSUME IInv, NEW c \in Calls, Deduct(c)
    PROVE  IInv'
  <1>1. /\ call[c].pc = "deduct" /\ NotBeside(c) /\ Owed(c) = {}
        /\ call[c].doing = "execute" /\ call[c].amount > 0
    BY DEF Deduct, NotBeside, IInv, Base, Fits, ExecutePcs, Owed
  <1>2. {"gateway", "restore"} \subseteq Pcs
    BY DEF Pcs, ExecutePcs
  <1>3. \/ TookBack(c) /\ MovedTo(c, "gateway") /\ faults' = faults
        \/ /\ order' = order /\ Beside /\ MovedTo(c, "restore")
           /\ order.type = "subscription" /\ revoked /\ faults' = faults
        \/ order' = order /\ Beside /\ MovedTo(c, "restore") /\ Hits("executeFails")
        \/ TookBack(c) /\ MovedTo(c, "restore") /\ Hits("replyLost")
    <2>1. Goto(c, "gateway") => MovedTo(c, "gateway")
      BY <1>2, GotoFacts
    <2>2. Goto(c, "restore") => MovedTo(c, "restore")
      BY <1>2, GotoFacts
    <2>3. FailKind(c) = "executeFails"
      BY <1>1 DEF FailKind
    <2>4. Deduction(c, Goto(c, "gateway"), Goto(c, "restore"))
      BY DEF Deduct
    <2> QED BY <2>1, <2>2, <2>3, <2>4, DeductionFacts
  <1>4. /\ Moved(c) /\ order' = order /\ order' \in Orders /\ audit' = audit /\ gw' = gw
        /\ revoked' \in BOOLEAN /\ taken' \in Int /\ taken <= taken'
        /\ faults' \in FaultStates /\ faults.kinds \subseteq faults'.kinds
        /\ Worth' = Worth /\ Paid' = Paid
    BY <1>3, TookBackFacts, Types, HitsFacts DEF MovedTo, Beside, Worth, Paid
  <1>5. Base'
    <2>1. Fits(c)'
      BY <1>1, <1>3, <1>4 DEF MovedTo, IInv, Base, Fits, ExecutePcs, QueryPcs
    <2> QED BY <1>4, <2>1, BaseStep, Types DEF IInv, Base
  <1>6. OwedIsTaken'
    <2>1. CASE MovedTo(c, "gateway")
      <3>1. Owed(c)' = 1..call[c].deduct /\ taken' = taken + call[c].deduct
        BY <1>3, <2>1 DEF MovedTo, Owed, TookBack
      <3> QED BY <1>1, <1>4, <3>1, OwedMore, CallFields
    <2>2. CASE MovedTo(c, "restore")
      <3>1. \A d \in Calls : Owed(d)' \subseteq Owed(d)
        BY <2>2, <1>4 DEF MovedTo, Owed, Moved
      <3> QED BY <1>4, <3>1, OwedStep
    <2> QED BY <1>3, <2>1, <2>2
  <1>7. RefundingHasOwner'
    <2>1. Owner(c)'
      BY <1>1, <1>3 DEF Owner, MovedTo
    <2> QED BY <1>4, <2>1, OwnerStep
  <1>8. Solo(c)'
    <2>1. Clear({"overlap"})' => StatusAt(c)'
      BY <1>1, <1>3, <1>4, Before DEF StatusAt, MovedTo, ExecutePcs, QueryPcs
    <2>2. NoneLive' = NoneLive /\ (\A i : OnlyLive(i)' = OnlyLive(i))
          /\ (\A i, a : IsFor(i, a)' = IsFor(i, a))
      BY <1>4 DEF NoneLive, OnlyLive, IsFor
    <2>3. Clear(AmountKinds)' => AmountsOf(c)'
      BY <1>1, <1>3, <1>4, <2>2, Before
         DEF AmountsOf, AmountAt, MovedTo, QueryPcs, PaidAsRecorded
    <2>4. Clear(LiveKinds)' => LiveOf(c)'
      BY <1>1, <1>3, <1>4, <2>2, Before DEF LiveOf, LiveAt, MovedTo
    <2>5. Clear(TakenKinds)' => TakenOf(c)'
      <3>1. CASE TookBack(c) /\ MovedTo(c, "gateway")
        BY <1>1, <1>4, <3>1, Before, TookBackFacts
           DEF TakenOf, StatusAt, ExecutePcs, Holds, MovedTo, TookBack, Refunded
      <3>2. CASE /\ Beside /\ MovedTo(c, "restore")
                 /\ order.type = "subscription" /\ revoked
        BY <1>1, <1>4, <3>2, Before DEF TakenOf, Restorable, Beside
      <3>3. Hits("executeFails") \/ Hits("replyLost") => ~Clear(TakenKinds)'
        BY HitsFacts DEF TakenKinds
      <3> QED BY <1>3, <3>1, <3>2, <3>3
    <2>6. Clear(KeptKinds)' => KeptOf(c)'
      <3>1. Hits("replyLost") => ~Clear(KeptKinds)'
        BY HitsFacts DEF KeptKinds
      <3>2. CASE TookBack(c) /\ MovedTo(c, "gateway")
        BY <1>1, <1>4, <3>2, Before, CallFields
           DEF KeptOf, KeptAt, StatusAt, ExecutePcs, QueryPcs, MovedTo, TookBack, Refundable
      <3>3. CASE Beside /\ MovedTo(c, "restore")
        BY <1>1, <1>4, <3>3, Before DEF KeptOf, KeptAt, QueryPcs, MovedTo, Beside
      <3> QED BY <1>3, <3>1, <3>2, <3>3
    <2> QED BY <2>1, <2>3, <2>4, <2>5, <2>6 DEF Solo
  <1> QED BY <1>1, <1>4, <1>5, <1>6, <1>7, <1>8, After DEF IInv

LEMMA ApplyRefundFinalDeductionKeeps ==
    ASSUME IInv, NEW c \in Calls, ApplyRefundFinalDeduction(c)
    PROVE  IInv'
  <1>1. /\ call[c].pc = "finalDeduct" /\ NotBeside(c) /\ Owed(c) = {}
        /\ call[c].doing = "query"
    BY DEF ApplyRefundFinalDeduction, NotBeside, IInv, Base, Fits, QueryPcs, Owed
  <1>2. \/ TookBack(c) /\ MovedTo(c, "markOk") /\ faults' = faults
        \/ order' = order /\ Beside /\ Returned(c) /\ (faults' = faults \/ Hits(FailKind(c)))
        \/ TookBack(c) /\ Returned(c) /\ Hits("replyLost")
    <2>1. Goto(c, "markOk") => MovedTo(c, "markOk")
      BY GotoFacts DEF Pcs
    <2>2. Return(c) => Returned(c)
      BY ReturnFacts
    <2>3. Deduction(c, Goto(c, "markOk"), Return(c))
      BY DEF ApplyRefundFinalDeduction
    <2> QED BY <2>1, <2>2, <2>3, DeductionFacts
  <1>3. CASE order' = order /\ Beside /\ Returned(c) /\ (faults' = faults \/ Hits(FailKind(c)))
    BY <1>1, <1>3, GaveUpKeeps
  <1>4. CASE /\ TookBack(c)
             /\ \/ MovedTo(c, "markOk") /\ faults' = faults
                \/ Returned(c) /\ Hits("replyLost")
    <2>1. /\ Moved(c) /\ order' = order /\ audit' = audit /\ gw' = gw
          /\ faults' \in FaultStates /\ faults.kinds \subseteq faults'.kinds
      BY <1>4, TookBackFacts, Types, HitsFacts DEF MovedTo, Returned
    <2>2. Base'
      <3>1. MovedTo(c, "markOk") => Fits(c)'
        BY <1>1, <1>4, <2>1, TookBackFacts DEF MovedTo, IInv, Base, Fits, ExecutePcs, QueryPcs
      <3>2. Returned(c) => Fits(c)'
        BY <2>1, ReturnedFits, Types
      <3> QED BY <1>4, <2>1, <3>1, <3>2, TookBackFacts, BaseStep, Types DEF IInv, Base
    <2>3. OwedIsTaken'
      <3>1. \A d \in Calls : Owed(d)' \subseteq Owed(d)
        BY <1>4, <2>1, ReturnedFacts DEF MovedTo, Owed, Moved
      <3> QED BY <1>4, <3>1, OwedStep, TookBackFacts
    <2>4. RefundingHasOwner'
      BY <1>1, <2>1, OwnerStep DEF Owner
    <2>5. CASE Returned(c) /\ Hits("replyLost")
      BY <1>1, <2>1, <2>2, <2>3, <2>4, <2>5, ReplyLostSolo, ReturnedFacts, After DEF IInv
    <2>6. CASE MovedTo(c, "markOk") /\ faults' = faults
      <3>1. Clear({"overlap"})' => StatusAt(c)'
        BY <1>1, <2>1, <2>6, Before DEF StatusAt, MovedTo, ExecutePcs, QueryPcs
      <3>2. Clear(AmountKinds)' => AmountsOf(c)'
        BY <1>1, <1>4, <2>1, <2>6, Before, TookBackFacts
           DEF AmountsOf, AmountAt, MovedTo, QueryPcs, PaidAsRecorded
      <3>3. Clear(LiveKinds)' => LiveOf(c)'
        BY <1>1, <1>4, <2>1, <2>6, Before, TookBackFacts DEF LiveOf, LiveAt, MovedTo
      <3>4. Clear(TakenKinds)' => TakenOf(c)'
        BY <1>1, <1>4, <2>1, <2>6, Before, TookBackFacts
           DEF TakenOf, StatusAt, ExecutePcs, QueryPcs, Holds, MovedTo, TookBack, Refunded
      <3>5. Clear(KeptKinds)' => KeptOf(c)'
        BY <1>1, <2>1, <2>6, Before DEF KeptOf, KeptAt, MovedTo, QueryPcs
      <3> QED BY <1>1, <2>1, <2>2, <2>3, <2>4, <3>1, <3>2, <3>3, <3>4, <3>5, After
              DEF IInv, Solo
    <2> QED BY <1>4, <2>5, <2>6
  <1> QED BY <1>2, <1>3, <1>4

\* The call goes on to pc and will take or give back n.
MovedWith(c, pc, n) ==
    /\ Moved(c)
    /\ call'[c].pc = pc /\ call'[c].deduct = n
    /\ call'[c].doing = call[c].doing /\ call'[c].amount = call[c].amount
    /\ call'[c].refund = call[c].refund /\ call'[c].pending = call[c].pending

LEMMA WithFacts ==
    ASSUME IInv, NEW c \in Calls, NEW pc \in Pcs, NEW n \in Nat,
           call' = [call EXCEPT ![c].pc = pc, ![c].deduct = n]
    PROVE  MovedWith(c, pc, n)
  <1> DEFINE new == [call[c] EXCEPT !.pc = pc, !.deduct = n]
  <1>1. call' = [call EXCEPT ![c] = new]
    BY Types
  <1>2. /\ new \in CallStates /\ new.pc = pc /\ new.deduct = n
        /\ new.doing = call[c].doing /\ new.amount = call[c].amount
        /\ new.refund = call[c].refund /\ new.pending = call[c].pending
    BY CallFields DEF CallStates
  <1> HIDE DEF new
  <1> QED BY <1>1, <1>2, Types DEF MovedWith, Moved

LEMMA ToIsWith ==
    ASSUME NEW c \in Calls, NEW pc, MovedTo(c, pc)
    PROVE  MovedWith(c, pc, call[c].deduct)
  BY DEF MovedTo, MovedWith

LEMMA CheckDeductedKeeps ==
    ASSUME IInv, NEW c \in Calls, CheckDeducted(c)
    PROVE  IInv'
  <1>1. /\ call[c].pc = "check" /\ NotBeside(c) /\ order' = order /\ Beside
        /\ call[c].doing = "execute" /\ call[c].amount > 0 /\ order' \in Orders
    BY Types
       DEF CheckDeducted, HasAudit, NotBeside, Beside, IInv, Base, Fits, ExecutePcs
  <1>2. \/ /\ MovedWith(c, "gateway", 0) /\ faults' = faults
           /\ call[c].deduct = 0 \/ audit.rollbackFailed
        \/ MovedWith(c, "deduct", call[c].deduct) /\ (faults' = faults \/ Hits("auditFails"))
    <2>1. {"gateway", "deduct"} \subseteq Pcs
      BY DEF Pcs, ExecutePcs
    <2>2. Goto(c, "gateway") => MovedWith(c, "gateway", call[c].deduct)
      BY <2>1, GotoFacts, ToIsWith
    <2>3. Goto(c, "deduct") => MovedWith(c, "deduct", call[c].deduct)
      BY <2>1, GotoFacts, ToIsWith
    <2>4. SkipDeduction(c) => MovedWith(c, "gateway", 0)
      BY <2>1, WithFacts DEF SkipDeduction
    <2> QED BY <2>2, <2>3, <2>4, FaultFacts DEF CheckDeducted, HasAudit
  <1>3. /\ Moved(c) /\ faults' \in FaultStates /\ faults.kinds \subseteq faults'.kinds
    BY <1>2, Types, HitsFacts DEF MovedWith
  <1>4. Base' /\ OwedIsTaken'
    <2>1. Fits(c)'
      <3>1. Worth \in Nat
        BY DEF Worth
      <3> QED BY <1>1, <1>2, <1>3, <3>1, BesideFacts
              DEF MovedWith, IInv, Base, Fits, ExecutePcs, QueryPcs, Beside
    <2>2. Owed(c)' = {}
      BY <1>2 DEF MovedWith, Owed
    <2> QED BY <1>1, <1>3, <2>1, <2>2, BesideFacts DEF IInv, Base
  <1>5. RefundingHasOwner'
    <2>1. Owner(c)'
      BY <1>1, <1>2 DEF Owner, MovedWith
    <2> QED BY <1>3, <2>1, OwnerStep
  <1>6. Solo(c)'
    <2>1. Clear({"overlap"})' => StatusAt(c)'
      BY <1>1, <1>2, <1>3, Before DEF StatusAt, MovedWith, ExecutePcs, QueryPcs
    <2>2. Clear(AmountKinds)' => AmountsOf(c)'
      BY <1>1, <1>2, <1>3, Before, BesideFacts
         DEF AmountsOf, AmountAt, MovedWith, QueryPcs, PaidAsRecorded, Beside
    <2>3. Clear(LiveKinds)' => LiveOf(c)'
      BY <1>1, <1>2, <1>3, Before, BesideFacts DEF LiveOf, LiveAt, MovedWith, Beside
    <2>4. Clear(TakenKinds)' => TakenOf(c)'
      BY <1>1, <1>2, <1>3, Before, BesideFacts DEF TakenOf, Holds, MovedWith, Beside
    <2>5. Clear(KeptKinds)' => KeptOf(c)'
      BY <1>1, <1>2, <1>3, Before
         DEF KeptOf, KeptAt, QueryPcs, MovedWith, Beside
    <2> QED BY <2>1, <2>2, <2>3, <2>4, <2>5 DEF Solo
  <1> QED BY <1>1, <1>3, <1>4, <1>5, <1>6, After DEF IInv

LEMMA FinalCheckKeeps ==
    ASSUME IInv, NEW c \in Calls, FinalCheck(c)
    PROVE  IInv'
  <1>1. /\ call[c].pc = "finalCheck" /\ NotBeside(c) /\ order' = order /\ Beside
        /\ call[c].doing = "query" /\ order' \in Orders
    BY Types DEF FinalCheck, HasAudit, NotBeside, Beside, IInv, Base, Fits, QueryPcs
  <1>2. /\ \/ MovedWith(c, "markOk", 0)
           \/ MovedWith(c, "finalDeduct", call[c].deduct)
        /\ faults' = faults \/ Hits("auditFails")
    <2>1. {"markOk", "finalDeduct"} \subseteq Pcs
      BY DEF Pcs, QueryPcs
    <2>2. Goto(c, "markOk") => MovedWith(c, "markOk", call[c].deduct)
      BY <2>1, GotoFacts, ToIsWith
    <2>3. Goto(c, "finalDeduct") => MovedWith(c, "finalDeduct", call[c].deduct)
      BY <2>1, GotoFacts, ToIsWith
    <2>4. call' = [call EXCEPT ![c].pc = "markOk", ![c].deduct = 0] =>
             MovedWith(c, "markOk", 0)
      BY <2>1, WithFacts
    <2> QED BY <2>2, <2>3, <2>4, FaultFacts DEF FinalCheck, HasAudit
  <1>3. /\ Moved(c) /\ faults' \in FaultStates /\ faults.kinds \subseteq faults'.kinds
    BY <1>2, Types, HitsFacts DEF MovedWith
  <1>4. Base' /\ OwedIsTaken'
    <2>1. Fits(c)'
      <3>1. Worth \in Nat
        BY DEF Worth
      <3> QED BY <1>1, <1>2, <1>3, <3>1, BesideFacts
              DEF MovedWith, IInv, Base, Fits, ExecutePcs, QueryPcs, Beside
    <2>2. Owed(c)' = {}
      BY <1>2 DEF MovedWith, Owed
    <2> QED BY <1>1, <1>3, <2>1, <2>2, BesideFacts DEF IInv, Base
  <1>5. RefundingHasOwner'
    BY <1>1, <1>3, OwnerStep DEF Owner
  <1>6. Solo(c)'
    <2>1. Clear({"overlap"})' => StatusAt(c)'
      BY <1>1, <1>2, <1>3, Before DEF StatusAt, MovedWith, ExecutePcs, QueryPcs
    <2>2. Clear(AmountKinds)' => AmountsOf(c)'
      BY <1>1, <1>2, <1>3, Before, BesideFacts
         DEF AmountsOf, AmountAt, MovedWith, QueryPcs, PaidAsRecorded, Beside
    <2>3. Clear(LiveKinds)' => LiveOf(c)'
      BY <1>1, <1>2, <1>3, Before, BesideFacts DEF LiveOf, LiveAt, MovedWith, Beside
    <2>4. Clear(TakenKinds)' => TakenOf(c)'
      BY <1>1, <1>2, <1>3, Before, BesideFacts DEF TakenOf, Holds, MovedWith, Beside
    <2>5. Clear(KeptKinds)' => KeptOf(c)'
      BY <1>1, <1>2, <1>3, Before
         DEF KeptOf, KeptAt, QueryPcs, MovedWith, Beside
    <2> QED BY <2>1, <2>2, <2>3, <2>4, <2>5 DEF Solo
  <1> QED BY <1>1, <1>3, <1>4, <1>5, <1>6, After DEF IInv

LEMMA RollbackRefundKeeps ==
    ASSUME IInv, NEW c \in Calls, RollbackRefund(c)
    PROVE  IInv'
  <1> DEFINE d == call[c].deduct
             pc == IF call[c].pending THEN "markPending" ELSE "restore"
  <1>1. /\ call[c].pc = "rollback" /\ NotBeside(c) /\ order' = order
        /\ revoked' = revoked /\ audit' = audit /\ gw' = gw
        /\ call[c].doing = "execute" /\ call[c].amount > 0 /\ order' \in Orders
        /\ d \in Nat /\ Owed(c) = 1..d
    BY Types, CallFields
       DEF RollbackRefund, NotBeside, IInv, Base, Fits, ExecutePcs, Owed
  <1>2. \/ MovedWith(c, pc, 0) /\ d = 0 /\ taken' = taken /\ faults' = faults
        \/ MovedWith(c, pc, 0) /\ d > 0 /\ Restorable /\ taken' = taken - d /\ faults' = faults
        \/ MovedWith(c, "logRollbackFailed", d) /\ taken' = taken - d /\ Hits("replyLost")
        \/ MovedWith(c, "logRollbackFailed", d) /\ ~Restorable /\ taken' = taken
           /\ faults' = faults
        \/ MovedWith(c, "logRollbackFailed", d) /\ taken' = taken /\ Hits("executeFails")
    <2>1. {"markPending", "restore", "logRollbackFailed"} \subseteq Pcs
      BY DEF Pcs, ExecutePcs
    <2>2. RolledBack(c) => MovedWith(c, pc, 0)
      BY <2>1, WithFacts DEF RolledBack
    <2>3. Goto(c, "logRollbackFailed") => MovedWith(c, "logRollbackFailed", d)
      BY <2>1, GotoFacts, ToIsWith
    <2>4. CallFails(c) => Hits("executeFails")
      BY <1>1, CallFailsFacts DEF FailKind
    <2>5. Fault("replyLost") => Hits("replyLost")
      BY FaultFacts
    <2> HIDE DEF pc
    <2> QED BY <2>2, <2>3, <2>4, <2>5 DEF RollbackRefund, Restorable
  <1> HIDE DEF pc
  <1>3. pc \in {"markPending", "restore"}
    BY DEF pc
  <1>4. /\ Moved(c) /\ faults' \in FaultStates /\ faults.kinds \subseteq faults'.kinds
        /\ taken' \in Int /\ (taken' = taken \/ taken' = taken - d)
    BY <1>1, <1>2, Types, HitsFacts DEF MovedWith
  <1>5. /\ Worth' = Worth /\ Paid' = Paid /\ Restorable' = Restorable
        /\ NoneLive' = NoneLive /\ (\A i : OnlyLive(i)' = OnlyLive(i))
        /\ (\A i, a : IsFor(i, a)' = IsFor(i, a)) /\ Worth \in Nat
    BY <1>1 DEF Worth, Paid, Restorable, NoneLive, OnlyLive, IsFor
  <1>6. Base'
    <2>1. Fits(c)'
      BY <1>1, <1>2, <1>3, <1>5 DEF MovedWith, IInv, Base, Fits, ExecutePcs, QueryPcs
    <2> QED BY <1>1, <1>4, <1>5, <2>1, BaseStep, Types DEF IInv, Base
  <1>7. OwedIsTaken'
    <2>1. Owed(c)' = {}
      BY <1>2, <1>3 DEF MovedWith, Owed
    <2>2. CASE taken' = taken - d
      BY <1>1, <1>4, <2>1, <2>2, OwedLess
    <2>3. CASE taken' = taken
      <3>1. \A e \in Calls : Owed(e)' \subseteq Owed(e)
        BY <1>4, <2>1 DEF Owed, Moved
      <3> QED BY <1>4, <2>3, <3>1, OwedStep
    <2> QED BY <1>4, <2>2, <2>3
  <1>8. RefundingHasOwner'
    <2>1. Owner(c)'
      BY <1>1, <1>2, <1>3 DEF Owner, MovedWith
    <2> QED BY <1>4, <2>1, OwnerStep
  <1>9. Solo(c)'
    <2>1. Clear({"overlap"})' => StatusAt(c)'
      BY <1>1, <1>2, <1>3, <1>4, Before DEF StatusAt, MovedWith, ExecutePcs, QueryPcs
    <2>2. CASE Hits("replyLost")
      <3>1. /\ ~Clear(AmountKinds)' /\ ~Clear(LiveKinds)'
            /\ ~Clear(TakenKinds)' /\ ~Clear(KeptKinds)'
        BY <2>2, HitsFacts DEF AmountKinds, LiveKinds, TakenKinds, KeptKinds
      <3> QED BY <2>1, <3>1 DEF Solo
    <2>3. Clear(AmountKinds)' => AmountsOf(c)'
      BY <1>1, <1>2, <1>3, <1>4, <1>5, Before
         DEF AmountsOf, AmountAt, MovedWith, QueryPcs, PaidAsRecorded, pc
    <2>4. Clear(LiveKinds)' => LiveOf(c)'
      BY <1>1, <1>2, <1>3, <1>4, <1>5, Before DEF LiveOf, LiveAt, MovedWith, pc
    <2>5. ~Hits("replyLost") /\ Clear(TakenKinds)' => TakenOf(c)'
      <3>1. Hits("executeFails") => ~Clear(TakenKinds)'
        BY HitsFacts DEF TakenKinds
      <3> QED BY <1>1, <1>2, <1>3, <1>4, <1>5, <3>1, Types, Before
              DEF TakenOf, StatusAt, ExecutePcs, Holds, MovedWith, Refunded
    <2>6. ~Hits("replyLost") /\ Clear(KeptKinds)' => KeptOf(c)'
      BY <1>1, <1>2, <1>3, <1>4, <1>5, Types, Before
         DEF KeptOf, KeptAt, StatusAt, ExecutePcs, QueryPcs, MovedWith, Refundable
    <2> QED BY <2>1, <2>2, <2>3, <2>4, <2>5, <2>6 DEF Solo
  <1> QED BY <1>1, <1>4, <1>6, <1>7, <1>8, <1>9, After DEF IInv

-----------------------------------------------------------------------------
(* The entries of the audit log.                                           *)

\* Only the log, the call and what went wrong change.
LogOnly == UNCHANGED <<order, revoked, taken, gw>>

LEMMA LogFacts ==
    ASSUME IInv, NEW c \in Calls, Moved(c), LogOnly,
           audit' \in Audits, audit'.pending.refund <= Len(gw),
           faults' \in FaultStates, Fits(c)', Owed(c)' = {}
    PROVE  /\ Base' /\ OwedIsTaken'
           /\ Worth' = Worth /\ Restorable' = Restorable /\ NoneLive' = NoneLive
           /\ \A i : OnlyLive(i)' = OnlyLive(i)
           /\ \A i, a : IsFor(i, a)' = IsFor(i, a)
  <1>1. Paid' = Paid /\ Worth' = Worth /\ Restorable' = Restorable /\ NoneLive' = NoneLive
    BY DEF LogOnly, Paid, Worth, Restorable, NoneLive
  <1>2. \A i : OnlyLive(i)' = OnlyLive(i)
    BY DEF LogOnly, OnlyLive
  <1>3. \A i, a : IsFor(i, a)' = IsFor(i, a)
    BY DEF LogOnly, IsFor
  <1>4. Base'
    BY <1>1, BaseStep, Types DEF LogOnly, IInv, Base
  <1>5. \A d \in Calls : Owed(d)' \subseteq Owed(d)
    BY DEF Moved, Owed
  <1>6. OwedIsTaken'
    BY <1>5, OwedStep, Types DEF LogOnly
  <1> QED BY <1>1, <1>2, <1>3, <1>4, <1>6

LEMMA AuditFields ==
    ASSUME IInv
    PROVE  /\ audit.rollbackFailed \in BOOLEAN /\ audit.success \in BOOLEAN
           /\ audit.pending.refund \in 0..MaxRefunds /\ audit.pending.rollbackOK \in BOOLEAN
           /\ audit.pending.refund <= Len(gw)
  BY Types DEF Audits, IInv, Base

LEMMA LogRollbackFailedKeeps ==
    ASSUME IInv, NEW c \in Calls, LogRollbackFailed(c)
    PROVE  IInv'
  <1> DEFINE pc == IF call[c].pending THEN "markPending" ELSE "markFailed"
  <1>1. /\ call[c].pc = "logRollbackFailed" /\ NotBeside(c) /\ LogOnly
        /\ call[c].doing = "execute" /\ call[c].amount > 0
    BY DEF LogRollbackFailed, WriteAudit, NotBeside, LogOnly, IInv, Base, Fits, ExecutePcs
  <1>2. MovedWith(c, pc, call[c].deduct)
    <2> DEFINE new == [call[c] EXCEPT !.pc = pc, !.rollbackOK = FALSE]
    <2>1. call' = [call EXCEPT ![c] = new]
      BY Types DEF LogRollbackFailed, WriteAudit
    <2>2. pc \in Pcs
      BY DEF Pcs, ExecutePcs
    <2> HIDE DEF pc
    <2>3. /\ new \in CallStates /\ new.pc = pc /\ new.deduct = call[c].deduct
          /\ new.doing = call[c].doing /\ new.amount = call[c].amount
          /\ new.refund = call[c].refund /\ new.pending = call[c].pending
      BY <2>2, CallFields DEF CallStates
    <2> HIDE DEF new
    <2> QED BY <2>1, <2>3, Types DEF MovedWith, Moved
  <1>3. /\ audit' \in Audits /\ audit'.pending = audit.pending
        /\ \/ audit'.rollbackFailed /\ faults' = faults
           \/ audit' = audit /\ Hits("auditFails")
    BY Types, FaultFacts DEF LogRollbackFailed, WriteAudit, Audits
  <1>4. /\ Moved(c) /\ faults' \in FaultStates /\ faults.kinds \subseteq faults'.kinds
    BY <1>2, <1>3, Types, HitsFacts DEF MovedWith
  <1> HIDE DEF pc
  <1>5. pc \in {"markPending", "markFailed"}
    BY DEF pc
  <1>6. Fits(c)' /\ Owed(c)' = {}
    BY <1>1, <1>2, <1>5
       DEF MovedWith, IInv, Base, Fits, ExecutePcs, QueryPcs, LogOnly, Worth, Paid, Owed
  <1>7. RefundingHasOwner'
    <2>1. Owner(c)'
      BY <1>1, <1>2, <1>5 DEF Owner, MovedWith
    <2> QED BY <1>4, <2>1, OwnerStep
  <1>8. Solo(c)'
    <2>1. Clear({"overlap"})' => StatusAt(c)'
      BY <1>1, <1>2, <1>4, <1>5, Before
         DEF StatusAt, MovedWith, ExecutePcs, QueryPcs, LogOnly
    <2>2. Clear(AmountKinds)' => AmountsOf(c)'
      BY <1>1, <1>2, <1>3, <1>4, <1>5, <1>6, AuditFields, Before, LogFacts
         DEF AmountsOf, AmountAt, MovedWith, QueryPcs, PaidAsRecorded, LogOnly, pc
    <2>3. Clear(LiveKinds)' => LiveOf(c)'
      BY <1>1, <1>2, <1>3, <1>4, <1>5, <1>6, AuditFields, Before, LogFacts
         DEF LiveOf, LiveAt, MovedWith, LogOnly, pc
    <2>4. Clear(TakenKinds)' => TakenOf(c)'
      BY <1>1, <1>2, <1>3, <1>4, <1>5, <1>6, AuditFields, Before, LogFacts
         DEF TakenOf, Holds, MovedWith, LogOnly
    <2>5. Clear(KeptKinds)' => KeptOf(c)'
      <3>1. Hits("auditFails") => ~Clear(KeptKinds)'
        BY HitsFacts DEF KeptKinds
      <3> QED BY <1>3, <3>1 DEF KeptOf
    <2> QED BY <2>1, <2>2, <2>3, <2>4, <2>5 DEF Solo
  <1> QED BY <1>1, <1>3, <1>4, <1>6, <1>7, <1>8, AuditFields, LogFacts, After DEF IInv

LEMMA LogRefundPendingKeeps ==
    ASSUME IInv, NEW c \in Calls, LogRefundPending(c)
    PROVE  IInv'
  <1>1. call[c].pc = "logPending" /\ NotBeside(c) /\ LogOnly /\ Returned(c)
    BY ReturnFacts DEF LogRefundPending, WriteAudit, NotBeside, LogOnly
  <1>2. /\ audit' \in Audits /\ audit'.pending.refund <= Len(gw)
        /\ audit'.rollbackFailed = audit.rollbackFailed
        /\ \/ audit'.pending.refund = call[c].refund /\ faults' = faults
           \/ audit' = audit /\ Hits("auditFails")
    <2>1. call[c].refund <= Len(gw)
      BY DEF IInv, Base, Fits
    <2> QED BY <2>1, Types, CallFields, AuditFields, FaultFacts
            DEF LogRefundPending, WriteAudit, Audits
  <1>3. /\ Moved(c) /\ faults' \in FaultStates /\ faults.kinds \subseteq faults'.kinds
    BY <1>1, <1>2, Types, HitsFacts, ReturnedFacts
  <1>4. Fits(c)' /\ Owed(c)' = {}
    BY <1>1, ReturnedFacts, ReturnedFits, Types DEF LogOnly
  <1>5. RefundingHasOwner'
    BY <1>1, <1>3, OwnerStep DEF Owner, LogOnly
  <1>6. Solo(c)'
    <2>1. Hits("auditFails") => ~Clear(AmountKinds)' /\ ~Clear(LiveKinds)'
      BY HitsFacts DEF AmountKinds, LiveKinds
    <2>2. Clear(AmountKinds)' => AmountsOf(c)'
      BY <1>1, <1>2, <1>3, <1>4, <2>1, Before, LogFacts, ReturnedFacts
         DEF AmountsOf, AmountAt, PaidAsRecorded, LogOnly
    <2>3. Clear(LiveKinds)' => LiveOf(c)'
      BY <1>1, <1>2, <1>3, <1>4, <2>1, Before, LogFacts, ReturnedFacts
         DEF LiveOf, LiveAt, LogOnly
    <2>4. Clear(TakenKinds)' => TakenOf(c)'
      BY <1>1, <1>2, <1>3, <1>4, Before, LogFacts, ReturnedFacts
         DEF TakenOf, Holds, LogOnly
    <2>5. Clear(KeptKinds)' => KeptOf(c)'
      BY <1>1, <1>2, <1>3, Before, ReturnedFacts DEF KeptOf, LogOnly
    <2> QED BY <1>1, <2>2, <2>3, <2>4, <2>5, ReturnedFacts DEF Solo
  <1> QED BY <1>1, <1>2, <1>3, <1>4, <1>5, <1>6, LogFacts, After DEF IInv

LEMMA LogRefundOkKeeps ==
    ASSUME IInv, NEW c \in Calls, LogRefundOk(c)
    PROVE  IInv'
  <1>1. call[c].pc = "logOk" /\ NotBeside(c) /\ LogOnly /\ Returned(c)
    BY ReturnFacts DEF LogRefundOk, WriteAudit, NotBeside, LogOnly
  <1>2. /\ audit' \in Audits /\ audit'.pending = audit.pending
        /\ audit'.rollbackFailed = audit.rollbackFailed
        /\ faults' = faults \/ Hits("auditFails")
    BY Types, FaultFacts DEF LogRefundOk, WriteAudit, Audits
  <1>3. /\ Moved(c) /\ faults' \in FaultStates /\ faults.kinds \subseteq faults'.kinds
    BY <1>1, <1>2, Types, HitsFacts, ReturnedFacts
  <1>4. Fits(c)' /\ Owed(c)' = {}
    BY <1>1, ReturnedFacts, ReturnedFits, Types DEF LogOnly
  <1>5. RefundingHasOwner'
    BY <1>1, <1>3, OwnerStep DEF Owner, LogOnly
  <1>6. Solo(c)'
    <2>1. Clear(AmountKinds)' => AmountsOf(c)'
      BY <1>1, <1>2, <1>3, <1>4, AuditFields, Before, LogFacts, ReturnedFacts
         DEF AmountsOf, PaidAsRecorded, LogOnly
    <2>2. Clear(LiveKinds)' => LiveOf(c)'
      BY <1>1, <1>2, <1>3, <1>4, AuditFields, Before, LogFacts, ReturnedFacts
         DEF LiveOf, LogOnly
    <2>3. Clear(TakenKinds)' => TakenOf(c)'
      BY <1>1, <1>2, <1>3, <1>4, AuditFields, Before, LogFacts, ReturnedFacts
         DEF TakenOf, Holds, LogOnly
    <2>4. Clear(KeptKinds)' => KeptOf(c)'
      BY <1>1, <1>2, <1>3, Before, ReturnedFacts DEF KeptOf, LogOnly
    <2> QED BY <1>1, <2>1, <2>2, <2>3, <2>4, ReturnedFacts DEF Solo
  <1> QED BY <1>1, <1>2, <1>3, <1>4, <1>5, <1>6, AuditFields, LogFacts, After DEF IInv

-----------------------------------------------------------------------------
(* The gateway.                                                            *)

\* The call has the gateway's answer about refund i.
Finished(c, i, status) ==
    /\ Moved(c)
    /\ call'[c].pc = (IF status = "paid" THEN "markOk" ELSE "rollback")
    /\ call'[c].refund = i /\ call'[c].pending = (status = "pending")
    /\ call'[c].doing = call[c].doing /\ call'[c].amount = call[c].amount
    /\ call'[c].deduct = call[c].deduct

LEMMA FinishFacts ==
    ASSUME IInv, NEW c \in Calls, NEW i \in 0..MaxRefunds, NEW status,
           FinishRefund(c, i, status)
    PROVE  Finished(c, i, status)
  <1> DEFINE pc == IF status = "paid" THEN "markOk" ELSE "rollback"
             p == status = "pending"
             new == [call[c] EXCEPT !.pc = pc, !.refund = i, !.pending = p]
  <1>1. call' = [call EXCEPT ![c] = new]
    BY Types DEF FinishRefund
  <1>2. pc \in Pcs /\ p \in BOOLEAN
    BY DEF Pcs, ExecutePcs
  <1>3. /\ new \in CallStates /\ new.pc = pc /\ new.refund = i /\ new.pending = p
        /\ new.doing = call[c].doing /\ new.amount = call[c].amount
        /\ new.deduct = call[c].deduct
    <2> HIDE DEF pc, p
    <2> QED BY <1>2, CallFields DEF CallStates
  <1> HIDE DEF new
  <1> QED BY <1>1, <1>3, Types DEF Finished, Moved

\* What a refund that is opened leaves of the others.
LEMMA AppendFacts ==
    ASSUME IInv, NEW r \in Refunds, gw' = Append(gw, r), Len(gw) < MaxRefunds
    PROVE  /\ gw' \in Seq(Refunds) /\ Len(gw') = Len(gw) + 1
           /\ DOMAIN gw' = 1..(Len(gw) + 1) /\ gw'[Len(gw) + 1] = r
           /\ \A j \in DOMAIN gw : gw'[j] = gw[j]
  BY Types

LEMMA GatewayRefundKeeps ==
    ASSUME IInv, NEW c \in Calls, GatewayRefund(c)
    PROVE  IInv'
  <1> DEFINE a == call[c].amount
             Answer(i) == /\ i \in DOMAIN gw' /\ gw'[i].amount = a
                          /\ Finished(c, i, gw'[i].status)
  <1>1. /\ call[c].pc = "gateway" /\ NotBeside(c) /\ order' = order
        /\ revoked' = revoked /\ taken' = taken /\ audit' = audit
        /\ call[c].doing = "execute" /\ a > 0 /\ a \in 0..Amount
        /\ Worth' = Worth /\ Restorable' = Restorable
    BY CallFields
       DEF GatewayRefund, NotBeside, IInv, Base, Fits, ExecutePcs, Worth, Restorable
  <1>2. \/ ~order.traded /\ MovedTo(c, "markOk") /\ gw' = gw /\ faults' = faults
        \/ MovedTo(c, "rollback") /\ gw' = gw /\ faults' = faults
        \/ /\ gw' = gw /\ faults' = faults
           /\ \E i \in DOMAIN gw : gw[i].status # "failed" /\ Answer(i)
        \/ \E r \in Refunds :
              /\ Len(gw) < MaxRefunds /\ gw' = Append(gw, r)
              /\ \/ Answer(Len(gw) + 1) /\ faults' = faults
                 \/ MovedTo(c, "rollback") /\ Hits("answerLost")
    <2>1. Goto(c, "markOk") => MovedTo(c, "markOk")
      BY GotoFacts DEF Pcs
    <2>2. Goto(c, "rollback") => MovedTo(c, "rollback")
      BY GotoFacts DEF Pcs, ExecutePcs
    <2>3. ASSUME NEW i \in Known(a), FinishRefund(c, i, gw[i].status), gw' = gw
          PROVE  i \in DOMAIN gw /\ gw[i].status # "failed" /\ Answer(i)
      <3>1. i \in DOMAIN gw /\ gw[i].status # "failed" /\ gw[i].amount = a
        BY DEF Known
      <3>2. i \in 0..MaxRefunds
        BY <3>1, Types
      <3> QED BY <2>3, <3>1, <3>2, FinishFacts
    <2>4. ASSUME NEW status \in {"paid", "pending"}, Len(gw) < MaxRefunds,
                 gw' = Append(gw, [amount |-> a, status |-> status])
          PROVE  \E r \in Refunds :
                    /\ gw' = Append(gw, r)
                    /\ FinishRefund(c, Len(gw) + 1, status) => Answer(Len(gw) + 1)
      <3> DEFINE r == [amount |-> a, status |-> status]
      <3>1. r \in Refunds /\ r.amount = a /\ r.status = status
        BY <1>1 DEF Refunds
      <3>2. Len(gw) + 1 \in DOMAIN gw' /\ gw'[Len(gw) + 1] = r
        BY <2>4, <3>1, AppendFacts, Types
      <3>3. Len(gw) + 1 \in 0..MaxRefunds
        BY <2>4, Types
      <3> QED BY <2>4, <3>1, <3>2, <3>3, FinishFacts
    <2>5. Fault("answerLost") => Hits("answerLost")
      BY FaultFacts
    <2> HIDE DEF Answer
    <2> QED BY <2>1, <2>2, <2>3, <2>4, <2>5 DEF GatewayRefund
  <1>3. /\ gw' \in Seq(Refunds) /\ Len(gw) <= Len(gw') /\ Len(gw') <= MaxRefunds
        /\ Len(gw') \in Nat /\ DOMAIN gw' = 1..Len(gw')
        /\ \A j \in DOMAIN gw : j \in DOMAIN gw' /\ gw'[j] = gw[j]
    <2>1. CASE gw' = gw
      BY <2>1, Types
    <2>2. ASSUME NEW r \in Refunds, Len(gw) < MaxRefunds, gw' = Append(gw, r)
          PROVE  <1>3!:
      BY <2>2, AppendFacts, Types
    <2> QED BY <1>2, <2>1, <2>2
  <1>4. \/ ~order.traded /\ MovedTo(c, "markOk")
        \/ MovedTo(c, "rollback")
        \/ \E i \in DOMAIN gw' : Answer(i)
    BY <1>2, AppendFacts, Types
  <1>5. /\ Moved(c) /\ faults' \in FaultStates /\ faults.kinds \subseteq faults'.kinds
    BY <1>2, Types, HitsFacts DEF MovedTo, Finished
  <1>6. /\ call'[c].pc \in {"markOk", "rollback"} /\ call'[c].doing = "execute"
        /\ call'[c].amount = a /\ call'[c].deduct = call[c].deduct
    BY <1>1, <1>4 DEF MovedTo, Finished
  <1>7. Paid => Paid'
    BY <1>3 DEF Paid
  <1>8. Base'
    <2>1. call'[c].refund <= Len(gw')
      BY <1>3, <1>4, CallFields, Types DEF MovedTo, Finished, IInv, Base, Fits
    <2>2. call'[c].pc = "markOk" /\ order'.traded => Paid'
      BY <1>1, <1>4 DEF MovedTo, Finished, Paid
    <2>3. Fits(c)'
      BY <1>1, <1>6, <2>1, <2>2 DEF IInv, Base, Fits, ExecutePcs, QueryPcs
    <2>4. audit'.pending.refund <= Len(gw')
      BY <1>1, <1>3, AuditFields, Types
    <2> QED BY <1>1, <1>3, <1>5, <1>7, <2>3, <2>4, BaseStep, Types DEF IInv, Base
  <1>9. OwedIsTaken'
    <2>1. Owed(c)' \subseteq Owed(c)
      BY <1>1, <1>6 DEF Owed
    <2>2. \A d \in Calls : Owed(d)' \subseteq Owed(d)
      BY <1>5, <2>1 DEF Owed, Moved
    <2> QED BY <1>1, <2>2, OwedStep, Types
  <1>10. RefundingHasOwner'
    <2>1. Owner(c)'
      BY <1>6 DEF Owner
    <2> QED BY <1>5, <2>1, OwnerStep
  <1>11. Solo(c)'
    <2>1. Clear({"overlap"})' => StatusAt(c)'
      BY <1>1, <1>5, <1>6, Before DEF StatusAt, ExecutePcs, QueryPcs
    <2>2. Clear(AmountKinds)' => AmountsOf(c)'
      <3> SUFFICES ASSUME Clear(AmountKinds)' PROVE AmountsOf(c)'
        OBVIOUS
      <3>1. AmountsOf(c) /\ order.status = "REFUNDING"
        BY <1>1, <1>5, Before DEF StatusAt, ExecutePcs
      <3>2. \A i, x : IsFor(i, x) => IsFor(i, x)'
        BY <1>3 DEF IsFor
      <3>3. CASE MovedTo(c, "rollback") \/ (~order.traded /\ MovedTo(c, "markOk"))
        BY <1>1, <3>1, <3>2, <3>3 DEF AmountsOf, AmountAt, MovedTo, QueryPcs, Refunded
      <3>4. CASE \E i \in DOMAIN gw' : Answer(i)
        <4>1. PICK i \in DOMAIN gw' : Answer(i)
          BY <3>4
        <4>2. IsFor(call[c].refund, call[c].amount)'
          BY <4>1 DEF Finished, IsFor
        <4>3. call'[c].pc = "markOk" => gw'[call'[c].refund].status = "paid"
          BY <4>1 DEF Finished
        <4>4. AmountAt(c)'
          BY <1>6, <4>2, <4>3 DEF AmountAt, IsFor, QueryPcs
        <4>5. order'.status = "REFUNDING"
          BY <1>1, <3>1
        <4> QED BY <4>4, <4>5 DEF AmountsOf, Refunded
      <3> QED BY <1>4, <3>3, <3>4
    <2>3. Clear(LiveKinds)' => LiveOf(c)'
      <3> SUFFICES ASSUME Clear(LiveKinds)' PROVE LiveOf(c)'
        OBVIOUS
      <3>1. LiveOf(c) /\ NoneLive /\ order.status = "REFUNDING"
        BY <1>1, <1>5, Before DEF StatusAt, ExecutePcs, LiveOf, LiveAt
      <3>2. ~Hits("answerLost")
        BY HitsFacts DEF LiveKinds
      <3>3. CASE /\ MovedTo(c, "rollback") \/ MovedTo(c, "markOk")
                 /\ gw' = gw
        BY <1>1, <3>1, <3>3 DEF LiveOf, LiveAt, MovedTo, NoneLive, OnlyLive
      <3>4. ASSUME NEW r \in Refunds, Len(gw) < MaxRefunds, gw' = Append(gw, r),
                   Answer(Len(gw) + 1)
            PROVE  LiveOf(c)'
        <4>1. PICK n \in Nat : n = Len(gw) + 1
          BY Types
        <4>2. OnlyLive(n)' /\ gw'[n] \in Refunds /\ n \in DOMAIN gw'
          BY <3>1, <3>4, <4>1, AppendFacts, Types DEF OnlyLive, NoneLive
        <4>3. gw'[n].status \in {"paid", "pending", "failed"}
          BY <4>2 DEF Refunds
        <4>4. gw'[n].status = "failed" => NoneLive'
          BY <4>2 DEF OnlyLive, NoneLive
        <4>5. Finished(c, n, gw'[n].status)
          BY <3>4, <4>1
        <4> QED BY <1>1, <3>1, <4>2, <4>3, <4>4, <4>5 DEF LiveOf, LiveAt, Finished
      <3>5. ~\E i \in DOMAIN gw : gw[i].status # "failed"
        BY <3>1 DEF NoneLive
      <3> QED BY <1>2, <3>2, <3>3, <3>4, <3>5
    <2>4. Clear(TakenKinds)' => TakenOf(c)'
      BY <1>1, <1>5, <1>6, Before DEF TakenOf, Holds
    <2>5. Clear(KeptKinds)' => KeptOf(c)'
      BY <1>1, <1>5, <1>6, Before
         DEF KeptOf, KeptAt, StatusAt, ExecutePcs, QueryPcs, Refundable
    <2> QED BY <2>1, <2>2, <2>3, <2>4, <2>5 DEF Solo
  <1> QED BY <1>1, <1>5, <1>8, <1>9, <1>10, <1>11, After DEF IInv

LEMMA GatewaySettlesKeeps ==
    ASSUME IInv, GatewaySettles
    PROVE  IInv'
  <1>1. /\ order' = order /\ revoked' = revoked /\ taken' = taken /\ audit' = audit
        /\ call' = call /\ faults' = faults
    BY DEF GatewaySettles
  <1>2. PICK i \in DOMAIN gw, status \in {"paid", "failed"} :
           gw[i].status = "pending" /\ gw' = [gw EXCEPT ![i].status = status]
    BY DEF GatewaySettles
  <1>3. /\ gw' \in Seq(Refunds) /\ Len(gw') = Len(gw) /\ DOMAIN gw' = DOMAIN gw
        /\ gw'[i].status = status
        /\ \A j \in DOMAIN gw : gw'[j].amount = gw[j].amount
        /\ \A j \in DOMAIN gw : j # i => gw'[j] = gw[j]
    <2> DEFINE r == [gw[i] EXCEPT !.status = status]
    <2>1. gw' = [gw EXCEPT ![i] = r]
      BY <1>2
    <2>2. r \in Refunds /\ r.status = status /\ r.amount = gw[i].amount
      <3>1. gw[i] \in Refunds
        BY Types
      <3> QED BY <3>1 DEF Refunds
    <2> HIDE DEF r
    <2>3. gw' \in Seq(Refunds) /\ Len(gw') = Len(gw) /\ DOMAIN gw' = DOMAIN gw
      BY <2>1, <2>2, Types
    <2> QED BY <2>1, <2>2, <2>3, Types
  <1>4. /\ \A j \in DOMAIN gw : gw[j].status = "paid" => gw'[j].status = "paid"
        /\ \A j \in DOMAIN gw : gw[j].status = "failed" => gw'[j].status = "failed"
    BY <1>2, <1>3
  <1>5. (Paid => Paid') /\ (NoneLive => NoneLive')
    BY <1>3, <1>4 DEF Paid, NoneLive
  <1>6. \A j : OnlyLive(j) => OnlyLive(j)'
    BY <1>3, <1>4 DEF OnlyLive
  <1>7. \A j, a : IsFor(j, a) => IsFor(j, a)'
    BY <1>3 DEF IsFor
  <1>8. Base'
    <2>1. TypeOK'
      BY <1>1, <1>3, Types DEF TypeOK, FaultStates
    <2>2. \A c \in Calls : Fits(c)'
      BY <1>1, <1>3, <1>5 DEF IInv, Base, Fits, Worth
    <2> QED BY <1>1, <1>3, <1>5, <2>1, <2>2 DEF IInv, Base
  <1>9. OwedIsTaken' /\ RefundingHasOwner' /\ Alone'
    BY <1>1 DEF IInv, OwedIsTaken, AllOwed, Owed, RefundingHasOwner, Saw, Alone, StatusAt,
       Clear
  <1>10. AmountsAgree'
    <2> SUFFICES ASSUME Clear(AmountKinds)
                 PROVE  /\ \A c \in Calls : AmountAt(c)'
                        /\ (order.status = "REFUND_PENDING" =>
                              IsFor(audit.pending.refund, order.refundAmount) \/ Logging)'
                        /\ order'.status \in Refunded /\ order'.traded => PaidAsRecorded'
      BY <1>1 DEF AmountsAgree, PaidAsRecorded, AmountKinds, Clear
    <2>1. /\ \A c \in Calls : AmountAt(c)
          /\ order.status = "REFUND_PENDING" =>
                IsFor(audit.pending.refund, order.refundAmount) \/ Logging
          /\ order.status \in Refunded /\ order.traded => PaidAsRecorded
      BY DEF IInv, AmountsAgree, PaidAsRecorded, AmountKinds
    <2>2. Logging' = Logging
      BY <1>1 DEF Logging
    <2>3. PaidAsRecorded => PaidAsRecorded'
      BY <1>1, <1>3, <1>4 DEF PaidAsRecorded
    <2>4. \A c \in Calls : AmountAt(c)'
      BY <1>1, <1>4, <1>7, <2>1 DEF AmountAt, IsFor
    <2> QED BY <1>1, <1>7, <2>1, <2>2, <2>3, <2>4 DEF IsFor
  <1>11. LiveIsKnown'
    <2>1. Logging' = Logging
      BY <1>1 DEF Logging
    <2>2. \A c \in Calls : LiveAt(c) => LiveAt(c)'
      BY <1>1, <1>5, <1>6 DEF LiveAt
    <2> QED BY <1>1, <1>5, <1>6, <2>1, <2>2 DEF IInv, LiveIsKnown, Clear
  <1>12. TakenFits' /\ KeptIsLogged'
    BY <1>1 DEF IInv, TakenFits, KeptIsLogged, KeptAt, Clear, Worth, Restorable
  <1> QED BY <1>8, <1>9, <1>10, <1>11, <1>12 DEF IInv

-----------------------------------------------------------------------------
(* Where a refund starts.                                                  *)

LEMMA RequestRefundKeeps ==
    ASSUME IInv, RequestRefund
    PROVE  IInv'
  <1>1. /\ revoked' = revoked /\ taken' = taken /\ audit' = audit /\ gw' = gw
        /\ call' = call /\ faults' = faults /\ order.status = "COMPLETED"
    BY DEF RequestRefund
  <1>2. /\ order' \in Orders /\ order'.type = order.type /\ order'.traded = order.traded
        /\ order'.status = "REFUND_REQUESTED"
    <2>1. "REFUND_REQUESTED" \in Statuses /\ Amount \in 0..Amount
      BY DEF Statuses, Refundable
    <2>2. StatusAndAmountSet("REFUND_REQUESTED", Amount)
      BY <2>1, StatusAmountFacts DEF RequestRefund
    <2> QED BY <2>2 DEF StatusAndAmountSet
  <1>3. Worth' = Worth /\ Paid' = Paid /\ NoneLive' = NoneLive /\ Restorable' = Restorable
        /\ Logging' = Logging
    BY <1>1, <1>2 DEF Worth, Paid, NoneLive, Restorable, Logging
  <1>4. Base'
    <2>1. TypeOK'
      BY <1>1, <1>2, Types DEF TypeOK, FaultStates
    <2>2. \A c \in Calls : Fits(c)'
      BY <1>1, <1>2, <1>3 DEF IInv, Base, Fits
    <2> QED BY <1>1, <1>2, <2>1, <2>2 DEF IInv, Base, Refunded
  <1>5. OwedIsTaken'
    BY <1>1 DEF IInv, OwedIsTaken, AllOwed, Owed
  <1>6. RefundingHasOwner'
    BY <1>2 DEF RefundingHasOwner
  <1>7. Alone'
    BY <1>1, <1>2 DEF IInv, Alone, StatusAt, Clear, Refundable, Refunded
  <1>8. AmountsAgree'
    <2>1. Clear(AmountKinds) => \A c \in Calls : StatusAt(c)
      BY DEF IInv, Alone, Clear, AmountKinds
    <2>2. Clear(AmountKinds) => \A c \in Calls : AmountAt(c)'
      BY <1>1, <1>2, <2>1
         DEF IInv, AmountsAgree, AmountKinds, AmountAt, StatusAt, IsFor, ExecutePcs
    <2> QED BY <1>1, <1>2, <2>2 DEF AmountsAgree, AmountKinds, Clear, Refunded
  <1>9. LiveIsKnown'
    <2>1. \A c \in Calls : LiveAt(c) => LiveAt(c)'
      BY <1>1, <1>3 DEF LiveAt, OnlyLive
    <2> QED BY <1>1, <1>2, <1>3, <2>1 DEF IInv, LiveIsKnown, Clear
  <1>10. TakenFits'
    BY <1>1, <1>2, <1>3 DEF IInv, TakenFits, Clear, Refunded
  <1>11. KeptIsLogged'
    BY <1>1, <1>2 DEF IInv, KeptIsLogged, KeptAt, Clear, Refundable
  <1> QED BY <1>4, <1>5, <1>6, <1>7, <1>8, <1>9, <1>10, <1>11 DEF IInv

LEMMA BeginFacts ==
    ASSUME IInv, NEW STATE retry, Begin(retry)
    PROVE  /\ faults' \in FaultStates /\ faults.kinds \subseteq faults'.kinds
           /\ Clear({"overlap"})' => \A d \in Calls : call[d].pc = "idle"
           /\ retry => ~Clear({"retryPending"})'
  <1> DEFINE risky == {k \in {"overlap", "retryPending"} :
                         \/ k = "overlap" /\ \E c \in Calls : call[c].pc # "idle"
                         \/ k = "retryPending" /\ retry}
  <1>1. /\ "overlap" \in risky <=> \E c \in Calls : call[c].pc # "idle"
        /\ "retryPending" \in risky <=> retry
    OBVIOUS
  <1>2. \/ risky = {} /\ faults' = faults
        \/ /\ risky \subseteq Perils /\ faults.count < MaxFaults
           /\ faults' = [count |-> faults.count + 1, kinds |-> faults.kinds \cup risky]
    BY DEF Begin
  <1> HIDE DEF risky
  <1>3. /\ faults' \in FaultStates /\ faults.kinds \subseteq faults'.kinds
        /\ risky \subseteq faults'.kinds
    BY <1>2, Types DEF FaultStates
  <1> QED BY <1>1, <1>3 DEF Clear

LEMMA PrepareRefundKeeps ==
    ASSUME IInv, NEW c \in Calls, PrepareRefund(c)
    PROVE  IInv'
  <1>1. /\ call[c].pc = "idle" /\ order' = order /\ Beside /\ order' \in Orders
        /\ order.status \in Refundable
    BY Types DEF PrepareRefund, Beside
  <1>2. /\ faults' \in FaultStates /\ faults.kinds \subseteq faults'.kinds
        /\ NotBeside(c)
        /\ order.status = "REFUND_PENDING" => ~Clear({"retryPending"})'
    BY BeginFacts DEF PrepareRefund, NotBeside
  <1>3. /\ Moved(c) /\ call'[c].pc = "lock" /\ call'[c].doing = "execute"
        /\ call'[c].amount > 0 /\ call'[c].deduct <= Worth /\ call'[c].refund = 0
        /\ ~call'[c].pending
    <2>1. PICK a \in 1..Amount : \E d \in PlannedDeductions(a) :
             call' = [call EXCEPT ![c] =
                         [Idle EXCEPT !.pc = "lock", !.doing = "execute",
                                      !.amount = a, !.deduct = d, !.from = order.status]]
      BY DEF PrepareRefund
    <2>2. PICK d \in PlannedDeductions(a) :
             call' = [call EXCEPT ![c] =
                         [Idle EXCEPT !.pc = "lock", !.doing = "execute",
                                      !.amount = a, !.deduct = d, !.from = order.status]]
      BY <2>1
    <2>3. d \in Nat /\ d <= Worth
      BY DEF PlannedDeductions, Worth
    <2> DEFINE new == [Idle EXCEPT !.pc = "lock", !.doing = "execute",
                                   !.amount = a, !.deduct = d, !.from = order.status]
    <2>4. /\ new \in CallStates /\ new.pc = "lock" /\ new.doing = "execute"
          /\ new.amount = a /\ new.deduct = d /\ new.refund = 0 /\ ~new.pending
      <3>1. /\ a \in 0..Amount /\ order.status \in Statuses /\ "lock" \in Pcs
            /\ 0 \in 0..MaxRefunds
        BY <1>1 DEF Pcs, Statuses
      <3> QED BY <2>3, <3>1 DEF Idle, CallStates
    <2>5. call' = [call EXCEPT ![c] = new]
      BY <2>2
    <2> HIDE DEF new
    <2> QED BY <2>3, <2>4, <2>5, Types DEF Moved
  <1>4. Base' /\ OwedIsTaken'
    <2>1. Fits(c)'
      <3>1. Len(gw') \in Nat /\ Worth' = Worth
        BY <1>1, Types DEF Beside, Worth
      <3> QED BY <1>3, <3>1 DEF Fits, ExecutePcs, QueryPcs
    <2>2. Owed(c)' = {}
      BY <1>3 DEF Owed
    <2> QED BY <1>1, <1>2, <1>3, <2>1, <2>2, BesideFacts DEF IInv, Base
  <1>5. RefundingHasOwner'
    BY <1>1, <1>2, <1>3, OwnerStep DEF Refundable
  <1>6. Solo(c)'
    <2>1. StatusAt(c)'
      BY <1>1, <1>2, <1>3 DEF StatusAt, ExecutePcs, QueryPcs
    <2>2. Clear(AmountKinds)' => AmountsOf(c)'
      BY <1>1, <1>2, <1>3, Before, BesideFacts
         DEF AmountsOf, AmountAt, QueryPcs, PaidAsRecorded, Beside
    <2>3. Clear(LiveKinds)' => LiveOf(c)'
      <3>1. Clear(LiveKinds)' => Clear({"retryPending"})'
        BY DEF Clear, LiveKinds
      <3> QED BY <1>1, <1>2, <1>3, <3>1, Before, BesideFacts
              DEF LiveOf, LiveAt, Beside, Refundable
    <2>4. Clear(TakenKinds)' => TakenOf(c)'
      BY <1>1, <1>2, <1>3, Before, BesideFacts DEF TakenOf, Holds, Beside
    <2>5. Clear(KeptKinds)' => KeptOf(c)'
      BY <1>1, <1>2, <1>3, Before, BesideFacts DEF KeptOf, KeptAt, Beside, QueryPcs
    <2> QED BY <2>1, <2>2, <2>3, <2>4, <2>5 DEF Solo
  <1> QED BY <1>2, <1>3, <1>4, <1>5, <1>6, After DEF IInv

-----------------------------------------------------------------------------
(* QueryAndFinalizeRefund up to the gateway's answer.                      *)

LEMMA QueryRefundOrderKeeps ==
    ASSUME IInv, NEW c \in Calls, QueryRefundOrder(c)
    PROVE  IInv'
  <1>1. /\ call[c].pc = "idle" /\ order' = order /\ Beside /\ order' \in Orders
        /\ order.status = "REFUND_PENDING"
    BY Types DEF QueryRefundOrder, Beside
  <1>2. /\ faults' \in FaultStates /\ faults.kinds \subseteq faults'.kinds
        /\ NotBeside(c)
    BY BeginFacts DEF QueryRefundOrder, NotBeside
  <1>3. /\ Moved(c) /\ call'[c].pc = "detail" /\ call'[c].doing = "query"
        /\ call'[c].amount = order.refundAmount /\ call'[c].deduct = 0
        /\ call'[c].refund = 0 /\ ~call'[c].pending
    <2> DEFINE new == [Idle EXCEPT !.pc = "detail", !.doing = "query",
                                   !.amount = order.refundAmount, !.from = order.status]
    <2>1. /\ order.refundAmount \in 0..Amount /\ order.status \in Statuses
          /\ "detail" \in Pcs /\ 0 \in 0..MaxRefunds
      BY Types DEF Orders, Pcs, QueryPcs
    <2>2. /\ new \in CallStates /\ new.pc = "detail" /\ new.doing = "query"
          /\ new.amount = order.refundAmount /\ new.deduct = 0 /\ new.refund = 0
          /\ ~new.pending
      BY <2>1 DEF Idle, CallStates
    <2>3. call' = [call EXCEPT ![c] = new]
      BY DEF QueryRefundOrder
    <2> HIDE DEF new
    <2> QED BY <2>2, <2>3, Types DEF Moved
  <1>4. Base' /\ OwedIsTaken'
    <2>1. Fits(c)'
      <3>1. Len(gw') \in Nat /\ Worth' \in Nat
        BY <1>1, Types DEF Beside, Worth
      <3> QED BY <1>3, <3>1 DEF Fits, ExecutePcs, QueryPcs
    <2>2. Owed(c)' = {}
      BY <1>3 DEF Owed
    <2> QED BY <1>1, <1>2, <1>3, <2>1, <2>2, BesideFacts DEF IInv, Base
  <1>5. RefundingHasOwner'
    BY <1>1, <1>2, <1>3, OwnerStep
  <1>6. Solo(c)'
    <2>1. StatusAt(c)'
      BY <1>1, <1>3 DEF StatusAt, ExecutePcs, QueryPcs
    <2>2. Clear(AmountKinds)' => AmountsOf(c)'
      BY <1>1, <1>2, <1>3, Before, BesideFacts
         DEF AmountsOf, AmountAt, QueryPcs, PaidAsRecorded, Beside
    <2>3. Clear(LiveKinds)' => LiveOf(c)'
      BY <1>1, <1>2, <1>3, Before, BesideFacts DEF LiveOf, LiveAt, Beside
    <2>4. Clear(TakenKinds)' => TakenOf(c)'
      BY <1>1, <1>2, <1>3, Before, BesideFacts DEF TakenOf, Holds, Beside
    <2>5. Clear(KeptKinds)' => KeptOf(c)'
      BY <1>1, <1>2, <1>3, Before, BesideFacts
         DEF KeptOf, KeptAt, Beside, QueryPcs, Refundable
    <2> QED BY <2>1, <2>2, <2>3, <2>4, <2>5 DEF Solo
  <1> QED BY <1>2, <1>3, <1>4, <1>5, <1>6, After DEF IInv

LEMMA LatestRefundPendingDetailKeeps ==
    ASSUME IInv, NEW c \in Calls, LatestRefundPendingDetail(c)
    PROVE  IInv'
  <1>1. /\ call[c].pc = "detail" /\ NotBeside(c) /\ order' = order /\ Beside
        /\ order' \in Orders /\ call[c].doing = "query"
    BY Types DEF LatestRefundPendingDetail, NotBeside, Beside, IInv, Base, Fits, QueryPcs
  <1>2. PICK d \in {audit.pending, NoDetail} :
           /\ \/ d = audit.pending /\ UNCHANGED faults
              \/ d = NoDetail /\ Fault("auditFails")
           /\ call' = [call EXCEPT ![c].pc = "query", ![c].refund = d.refund,
                                   ![c].rollbackOK = d.rollbackOK]
    BY DEF LatestRefundPendingDetail
  <1>3. /\ d.refund \in 0..MaxRefunds /\ d.refund <= Len(gw) /\ d.rollbackOK \in BOOLEAN
        /\ (d.refund = audit.pending.refund /\ faults' = faults) \/ Hits("auditFails")
    <2>1. CASE d = audit.pending /\ UNCHANGED faults
      BY <2>1, AuditFields
    <2>2. CASE d = NoDetail /\ Fault("auditFails")
      BY <2>2, FaultFacts, Types DEF NoDetail
    <2> QED BY <1>2, <2>1, <2>2
  <1>4. /\ Moved(c) /\ call'[c].pc = "query" /\ call'[c].refund = d.refund
        /\ call'[c].doing = "query" /\ call'[c].amount = call[c].amount
        /\ call'[c].deduct = call[c].deduct /\ call'[c].pending = call[c].pending
    <2> DEFINE new == [call[c] EXCEPT !.pc = "query", !.refund = d.refund,
                                      !.rollbackOK = d.rollbackOK]
    <2>1. call' = [call EXCEPT ![c] = new]
      BY <1>2, Types
    <2>2. "query" \in Pcs
      BY DEF Pcs, QueryPcs
    <2>3. /\ new \in CallStates /\ new.pc = "query" /\ new.refund = d.refund
          /\ new.doing = call[c].doing /\ new.amount = call[c].amount
          /\ new.deduct = call[c].deduct /\ new.pending = call[c].pending
      BY <1>3, <2>2, CallFields DEF CallStates
    <2> HIDE DEF new
    <2> QED BY <1>1, <2>1, <2>3, Types DEF Moved
  <1>5. faults' \in FaultStates /\ faults.kinds \subseteq faults'.kinds
    BY <1>3, Types, HitsFacts
  <1>6. Base' /\ OwedIsTaken'
    <2>1. Fits(c)'
      BY <1>1, <1>3, <1>4, <1>5, BesideFacts
         DEF IInv, Base, Fits, ExecutePcs, QueryPcs, Beside
    <2>2. Owed(c)' = {}
      BY <1>4 DEF Owed
    <2> QED BY <1>1, <1>4, <1>5, <2>1, <2>2, BesideFacts DEF IInv, Base
  <1>7. RefundingHasOwner'
    BY <1>1, <1>4, <1>5, OwnerStep DEF Owner
  <1>8. Solo(c)'
    <2>1. Hits("auditFails") => ~Clear(AmountKinds)' /\ ~Clear(LiveKinds)'
      BY HitsFacts DEF AmountKinds, LiveKinds
    <2>2. Clear({"overlap"})' => StatusAt(c)'
      BY <1>1, <1>4, <1>5, Before DEF StatusAt, ExecutePcs, QueryPcs
    <2>3. Clear(AmountKinds)' => AmountsOf(c)'
      <3> SUFFICES ASSUME Clear(AmountKinds)' PROVE AmountsOf(c)'
        OBVIOUS
      <3>1. AmountsOf(c) /\ StatusAt(c) /\ d.refund = audit.pending.refund
        BY <1>1, <1>3, <1>5, <2>1, Before
      <3>2. IsFor(d.refund, call[c].amount)
        BY <1>1, <3>1 DEF AmountsOf, AmountAt, StatusAt, QueryPcs
      <3> QED BY <1>1, <1>4, <1>5, <3>1, <3>2, BesideFacts
              DEF AmountsOf, AmountAt, QueryPcs, PaidAsRecorded, Beside, IsFor
    <2>4. Clear(LiveKinds)' => LiveOf(c)'
      <3> SUFFICES ASSUME Clear(LiveKinds)' PROVE LiveOf(c)'
        OBVIOUS
      <3>1. LiveOf(c) /\ StatusAt(c) /\ d.refund = audit.pending.refund
        BY <1>1, <1>3, <1>5, <2>1, Before
      <3>2. OnlyLive(d.refund)
        BY <1>1, <3>1 DEF LiveOf, StatusAt, QueryPcs
      <3> QED BY <1>1, <1>4, <1>5, <3>1, <3>2, BesideFacts
              DEF LiveOf, LiveAt, Beside, OnlyLive, NoneLive
    <2>5. Clear(TakenKinds)' => TakenOf(c)'
      BY <1>1, <1>4, <1>5, Before, BesideFacts DEF TakenOf, Holds, Beside
    <2>6. Clear(KeptKinds)' => KeptOf(c)'
      BY <1>1, <1>4, <1>5, Before, BesideFacts DEF KeptOf, KeptAt, Beside, QueryPcs
    <2> QED BY <2>2, <2>3, <2>4, <2>5, <2>6 DEF Solo
  <1> QED BY <1>1, <1>4, <1>5, <1>6, <1>7, <1>8, After DEF IInv

LEMMA QueryRefundKeeps ==
    ASSUME IInv, NEW c \in Calls, QueryRefund(c)
    PROVE  IInv'
  <1> DEFINE n == FinalDeduction(c)
             q == Queried(c)
  <1>1. /\ call[c].pc = "query" /\ NotBeside(c) /\ order' = order /\ Beside
        /\ order' \in Orders /\ call[c].doing = "query" /\ faults' = faults
        /\ faults' \in FaultStates
    BY Types DEF QueryRefund, NotBeside, Beside, IInv, Base, Fits, QueryPcs
  <1>2. n \in Nat /\ n <= Worth
    BY CallFields DEF FinalDeduction, Worth
  <1>3. q > 0 => q \in DOMAIN gw
    BY Types, CallFields DEF Queried, IInv, Base, Fits
  <1> HIDE DEF n, q
  <1>4. \/ Returned(c)
        \/ MovedWith(c, "finalizeFailed", call[c].deduct) /\ q > 0 /\ gw[q].status = "failed"
        \/ MovedWith(c, "finalCheck", n) /\ q > 0 /\ gw[q].status = "paid"
    <2>1. {"finalizeFailed", "finalCheck"} \subseteq Pcs
      BY DEF Pcs, QueryPcs
    <2>2. Goto(c, "finalizeFailed") => MovedWith(c, "finalizeFailed", call[c].deduct)
      BY <2>1, GotoFacts, ToIsWith
    <2>3. call' = [call EXCEPT ![c].pc = "finalCheck", ![c].deduct = n] =>
             MovedWith(c, "finalCheck", n)
      BY <1>2, <2>1, WithFacts
    <2> QED BY <2>2, <2>3, ReturnFacts DEF QueryRefund, n, q
  <1>5. CASE Returned(c)
    BY <1>1, <1>5, GaveUpKeeps
  <1>6. ASSUME NEW pc \in {"finalizeFailed", "finalCheck"}, NEW m \in Nat, m <= Worth,
               MovedWith(c, pc, m), q > 0,
               gw[q].status = IF pc = "finalCheck" THEN "paid" ELSE "failed"
        PROVE  IInv'
    <2>1. Moved(c) /\ faults.kinds \subseteq faults'.kinds
      BY <1>1, <1>6 DEF MovedWith
    <2>2. Base' /\ OwedIsTaken'
      <3>1. pc = "finalCheck" => Paid
        BY <1>3, <1>6 DEF Paid
      <3>2. Fits(c)'
        BY <1>1, <1>6, <2>1, <3>1, BesideFacts
           DEF MovedWith, IInv, Base, Fits, ExecutePcs, QueryPcs, Beside
      <3>3. Owed(c)' = {}
        BY <1>6 DEF MovedWith, Owed
      <3> QED BY <1>1, <2>1, <3>2, <3>3, BesideFacts DEF IInv, Base
    <2>3. RefundingHasOwner'
      BY <1>1, <2>1, OwnerStep DEF Owner
    <2>4. Clear({"overlap"})' => StatusAt(c)'
      BY <1>1, <1>6, <2>1, Before DEF StatusAt, MovedWith, ExecutePcs, QueryPcs
    <2>5. Clear(AmountKinds)' => AmountsOf(c)'
      <3> SUFFICES ASSUME Clear(AmountKinds)' PROVE AmountsOf(c)'
        OBVIOUS
      <3>1. AmountsOf(c) /\ StatusAt(c)
        BY <1>1, <2>1, Before
      <3>2. IsFor(call[c].refund, call[c].amount)
        BY <1>1, <3>1 DEF AmountsOf, AmountAt, StatusAt, QueryPcs
      <3>3. q = call[c].refund
        BY <3>2, Types DEF Queried, IsFor, q
      <3> QED BY <1>1, <1>6, <2>1, <3>1, <3>2, <3>3, BesideFacts
              DEF AmountsOf, AmountAt, MovedWith, QueryPcs, PaidAsRecorded, Beside, IsFor
    <2>6. Clear(LiveKinds)' => LiveOf(c)'
      <3> SUFFICES ASSUME Clear(LiveKinds)' PROVE LiveOf(c)'
        OBVIOUS
      <3>1. LiveOf(c) /\ StatusAt(c)
        BY <1>1, <2>1, Before
      <3>2. OnlyLive(call[c].refund)
        BY <1>1, <3>1 DEF LiveOf, LiveAt, StatusAt, QueryPcs
      <3>3. pc = "finalizeFailed" => NoneLive
        BY <1>3, <1>6, <3>2, Types DEF Queried, OnlyLive, NoneLive, q
      <3> QED BY <1>1, <1>6, <2>1, <3>1, <3>3, BesideFacts
              DEF LiveOf, LiveAt, MovedWith, Beside
    <2>7. Clear(TakenKinds)' => TakenOf(c)'
      BY <1>1, <1>6, <2>1, Before, BesideFacts DEF TakenOf, Holds, MovedWith, Beside
    <2>8. Clear(KeptKinds)' => KeptOf(c)'
      BY <1>1, <1>6, <2>1, Before DEF KeptOf, KeptAt, QueryPcs, MovedWith, Beside
    <2> QED BY <1>1, <2>1, <2>2, <2>3, <2>4, <2>5, <2>6, <2>7, <2>8, After DEF IInv, Solo
  <1>7. call[c].deduct \in Nat /\ call[c].deduct <= Worth
    BY CallFields DEF IInv, Base, Fits
  <1> QED BY <1>2, <1>4, <1>5, <1>6, <1>7

-----------------------------------------------------------------------------
(* The theorems.                                                           *)

LEMMA Initially == Init => IInv
  <1> SUFFICES ASSUME Init PROVE IInv
    OBVIOUS
  <1>1. /\ order.type \in {"balance", "subscription"} /\ order.status = "COMPLETED"
        /\ order \in Orders
    BY DEF Init, Orders, Statuses, Refundable
  <1>2. /\ \A c \in Calls : call[c] = Idle
        /\ gw = <<>> /\ Len(gw) = 0 /\ DOMAIN gw = {} /\ taken = 0 /\ revoked = FALSE
    BY DEF Init
  <1>3. audit \in Audits /\ audit.pending.refund = 0
    BY DEF Init, Audits, NoDetail
  <1>4. Base
    <2>1. TypeOK
      <3>1. gw \in Seq(Refunds) /\ Len(gw) <= MaxRefunds
        BY <1>2
      <3>2. call \in [Calls -> CallStates]
        BY IdleFacts DEF Init
      <3>3. faults \in [count : 0..MaxFaults, kinds : SUBSET Perils]
        BY DEF Init
      <3>4. revoked \in BOOLEAN
        BY DEF Init
      <3>5. taken \in Int
        BY <1>2
      <3> QED BY <1>1, <1>3, <3>1, <3>2, <3>3, <3>4, <3>5 DEF TypeOK
    <2>2. Worth \in Nat
      BY DEF Worth
    <2>3. \A c \in Calls : Fits(c)
      BY <1>2, <2>2, IdleFacts DEF Fits, ExecutePcs, QueryPcs
    <2> QED BY <1>1, <1>2, <1>3, <2>1, <2>3 DEF Base, Refunded
  <1>5. OwedIsTaken
    <2>1. AllOwed = {}
      BY <1>2, IdleFacts DEF AllOwed, Owed
    <2> QED BY <1>2, <2>1, FS_EmptySet DEF OwedIsTaken
  <1>6. RefundingHasOwner /\ Alone
    BY <1>1, <1>2, IdleFacts DEF RefundingHasOwner, Alone, StatusAt, ExecutePcs, QueryPcs
  <1>7. AmountsAgree /\ LiveIsKnown
    BY <1>1, <1>2, IdleFacts
       DEF AmountsAgree, AmountAt, LiveIsKnown, LiveAt, NoneLive, QueryPcs, Refunded
  <1>8. TakenFits /\ KeptIsLogged
    BY <1>1, <1>2, IdleFacts DEF TakenFits, KeptIsLogged, KeptAt, QueryPcs, Worth
  <1> QED BY <1>4, <1>5, <1>6, <1>7, <1>8 DEF IInv

LEMMA StepKeeps == IInv /\ [Next]_vars => IInv'
  <1> SUFFICES ASSUME IInv, [Next]_vars PROVE IInv'
    OBVIOUS
  <1>1. CASE RequestRefund
    BY <1>1, RequestRefundKeeps
  <1>2. CASE GatewaySettles
    BY <1>2, GatewaySettlesKeeps
  <1>3. ASSUME NEW c \in Calls, Execute(c) PROVE IInv'
    BY <1>3, PrepareRefundKeeps, LockKeeps, CheckDeductedKeeps, DeductKeeps,
       GatewayRefundKeeps, RollbackRefundKeeps, LogRollbackFailedKeeps, RestoreStatusKeeps,
       MarkRefundFailedKeeps, MarkRefundPendingKeeps, LogRefundPendingKeeps,
       MarkRefundOkKeeps, LogRefundOkKeeps
       DEF Execute
  <1>4. ASSUME NEW c \in Calls, Query(c) PROVE IInv'
    BY <1>4, QueryRefundOrderKeeps, LatestRefundPendingDetailKeeps, QueryRefundKeeps,
       FinalizeRefundFailedKeeps, FinalCheckKeeps, ApplyRefundFinalDeductionKeeps
       DEF Query
  <1>5. ASSUME NEW c \in Calls, Crash(c) PROVE IInv'
    BY <1>5, CrashKeeps
  <1>6. CASE UNCHANGED vars
    BY <1>6 DEF vars, IInv, Base, TypeOK, Fits, Worth, Paid, OwedIsTaken, AllOwed, Owed,
       RefundingHasOwner, Saw, Clear, Alone, StatusAt, AmountsAgree, AmountAt, IsFor,
       Logging, LiveIsKnown, LiveAt, OnlyLive, NoneLive, TakenFits, Restorable,
       KeptIsLogged, KeptAt
  <1> QED BY <1>1, <1>2, <1>3, <1>4, <1>5, <1>6 DEF Next

LEMMA Invariance == Spec => []IInv
  BY Initially, StepKeeps, PTL DEF Spec

\* The variables keep their types: among them, no refund is opened beyond what
\* the gateway has room for and the amounts stay within the order's.
THEOREM TypeCorrect == Spec => []TypeOK
  <1>1. IInv => TypeOK
    BY DEF IInv, Base
  <1> QED BY <1>1, Invariance, PTL

\* markRefundOk follows the gateway's word: whatever fails, an order recorded
\* as refunded was paid back, and for the recorded amount while calls do not
\* overlap and the log and the replies arrive.
THEOREM RefundedOrderWasPaid == Spec => []RefundedIsPaid
  <1>1. IInv => RefundedIsPaid
    BY SawClear DEF IInv, Base, Paid, AmountsAgree, RefundedIsPaid
  <1> QED BY <1>1, Invariance, PTL

\* RollbackRefund never gives back more than was taken, under every fault and
\* overlap, because each call gives back only what it took itself.
THEOREM NeverGivenTwice == Spec => []NothingGivenTwice
  <1>1. IInv => NothingGivenTwice
    BY Types, FS_CardinalityType DEF IInv, OwedIsTaken, NothingGivenTwice
  <1> QED BY <1>1, Invariance, PTL

\* ExecuteRefund, wherever it fails or dies, leaves no order at rest with a
\* deduction that neither a refund nor the log accounts for.
THEOREM NothingKeptAtRest == Spec => []RestingOrderKeepsNothing
  <1>1. IInv => RestingOrderKeepsNothing
    BY SawClear DEF IInv, KeptIsLogged, RestingOrderKeepsNothing
  <1> QED BY <1>1, Invariance, PTL

\* A refund and its finalisation together deduct one refund's worth, while no
\* statement fails and no two calls overlap.
THEOREM DeductsAtMostOnce == Spec => []DeductedOnce
  <1>1. IInv => DeductedOnce
    BY SawClear DEF IInv, TakenFits, Worth, DeductedOnce
  <1> QED BY <1>1, Invariance, PTL

\* An order that counts as not refunded has no refund that the gateway paid or
\* may pay, unless its answer, the log or a reply was lost, or calls overlapped.
THEOREM LiveRefundsAreOnRecord == Spec => []LiveRefundIsOnRecord
  <1>1. IInv => LiveRefundIsOnRecord
    BY SawClear DEF IInv, LiveIsKnown, NoneLive, LiveRefundIsOnRecord
  <1> QED BY <1>1, Invariance, PTL

\* REFUNDING always has a call that will leave it, unless that call failed.
THEOREM RefundingIsOwned == Spec => []RefundingHasOwner
  <1>1. IInv => RefundingHasOwner
    BY DEF IInv
  <1> QED BY <1>1, Invariance, PTL

=============================================================================
