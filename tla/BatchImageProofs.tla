-------------------------- MODULE BatchImageProofs --------------------------
(***************************************************************************)
(* Proofs about BatchImageJob, for any number of workers, any hold, any    *)
(* costs, any retry limit and any number of failures.                      *)
(*                                                                         *)
(* Base holds whatever goes wrong: the statuses in which a batch can be    *)
(* charged are never left for another one (Captured), and Submit is past   *)
(* the steps that fail a batch once the provider's name is recorded        *)
(* (Named, Submitted).  Careful adds what needs the job lock and the queue *)
(* to work: one worker at a time (OneBusy), the settlement a worker is in  *)
(* matches the row (Settlement), a release excludes every later step       *)
(* towards completion (Released), and the claims tell what was taken       *)
(* (Taken).                                                                *)
(*                                                                         *)
(* The pool of frozen money needs other conditions, Clear, and so an       *)
(* invariant of its own: Steady keeps release and charge apart by the      *)
(* row's status (Working, Refunding, Resolved), and Unknown says that      *)
(* nobody acts on the batch before its hold is reserved.                   *)
(***************************************************************************)
EXTENDS BatchImageJob, TLAPS

Past == {"submitted", "running", "indexing", "settling", "completed"}
Billing == {"settling", "completed", "failed"}
SettlePcs == {"capture", "mark", "recordFailure", "release",
              "recordRelease", "toFailedExhausted"}

\* The row exists once Submit has begun.
Created == job.status = "none" <=> sub = "idle"
\* With the provider's name recorded Submit is past its failing steps.
Named == job.named => sub \in {"enqueue", "abort", "done"}
\* A batch past its submission has a name.
Submitted == job.status \in Past => job.named
\* A charge is possible only in, or after, settlement.
Captured ==
    /\ "capture" \in ledger.claims => job.status \in Billing
    /\ \A w \in Workers : work[w] = "capture" => job.status \in Billing

\* The types that the argument needs.
Shape ==
    /\ ledger \in Ledgers
    /\ others \in OtherHolds
    /\ job \in Jobs
    /\ work \in [Workers -> WorkerPcs]

\* A step that moves the row to a status and leaves its other fields.
Moved(to) ==
    /\ CanTransition(job.status, to)
    /\ job'.status = to
    /\ job'.named = job.named
    /\ job'.cost = job.cost
    /\ job'.retries = job.retries
    /\ job'.settlementError = job.settlementError

\* What BilledResultIsFinal says of a step.
Billed ==
    /\ "capture" \in ledger.claims => job'.cost = job.cost
    /\ job.status = "completed" => job'.status = "completed"

Base == Shape /\ Created /\ Named /\ Submitted /\ Captured

\* The job lock admits one worker.
OneBusy ==
    \A v, w \in Workers : work[v] # "idle" /\ work[w] # "idle" => v = w

\* The row is as the worker in Settle read it.
Settlement ==
    \A w \in Workers :
        /\ work[w] \in SettlePcs => job.status = "settling"
        /\ work[w] \in {"capture", "mark"} => ~Exhausted
        /\ work[w] = "mark" => "capture" \in ledger.claims
        /\ work[w] \in {"release", "recordRelease", "toFailedExhausted"}
             => Exhausted

\* A process about to release acts on a terminal batch.
Refunding ==
    /\ can = "release" => job.status \in {"failed", "cancelled"}
    /\ rec = "release" => job.status \in {"failed", "cancelled"}
    /\ \A w \in Workers :
         work[w] = "releaseTerminal" => job.status \in {"failed", "cancelled"}

\* After a release no step towards completion is left.
Released ==
    "release" \in ledger.claims =>
        \/ job.status \in {"failed", "cancelled"}
        \/ /\ job.status \in Unsubmitted
           /\ sub \in {"release", "giveUp", "record", "recordRelease",
                       "enqueueRetry", "done"}
        \/ job.status = "settling" /\ Exhausted

\* A batch that goes on has its hold, a charged batch too.
Reserved ==
    /\ job.named => "hold" \in ledger.claims
    /\ sub \in {"items", "upload", "provider", "update"}
         => "hold" \in ledger.claims
    /\ sub \in {"idle", "reserve"} => "hold" \notin ledger.claims
    /\ job.status = "completed" => "capture" \in ledger.claims
    /\ "capture" \in ledger.claims => "hold" \in ledger.claims

\* Until the release the claims tell what the batch has taken.
Taken ==
    "release" \notin ledger.claims =>
        ledger.taken = IF "capture" \in ledger.claims THEN job.cost
                       ELSE IF "hold" \in ledger.claims THEN Hold ELSE 0

Careful == OneBusy /\ Settlement /\ Refunding /\ Released /\ Reserved /\ Taken

\* No lock has run out and no Enqueue has failed so far.
Undisturbed == Spared({"lockExpires", "queueDown"})

-----------------------------------------------------------------------------
(* The ledger and the row                                                  *)

\* The fields of a ledger, and how a ledger is put together.
LEMMA LedgerFields ==
    /\ \A l \in Ledgers :
         l.frozen \in Nat /\ l.taken \in Int /\ l.claims \in SUBSET ClaimKinds
    /\ \A f \in Nat, t \in Int, c \in SUBSET ClaimKinds :
         [frozen |-> f, taken |-> t, claims |-> c] \in Ledgers
BY DEF Ledgers

\* A reservation adds its claim, and the hold if it was not claimed before.
LEMMA ReserveEffect ==
    ASSUME NEW l \in Ledgers
    PROVE  /\ Reserve(l) \in Ledgers
           /\ Reserve(l).claims = l.claims \cup {"hold"}
           /\ Reserve(l).taken =
                IF "hold" \in l.claims THEN l.taken ELSE l.taken + Hold
<1>1. CASE "hold" \in l.claims
  BY <1>1 DEF Reserve
<1>2. CASE "hold" \notin l.claims
  <2>1. Reserve(l) = [frozen |-> l.frozen + Hold, taken |-> l.taken + Hold,
                      claims |-> l.claims \cup {"hold"}]
    BY <1>2 DEF Reserve, Claim, Ledgers
  <2>2. l.claims \cup {"hold"} \in SUBSET ClaimKinds
    BY LedgerFields DEF ClaimKinds
  <2> QED BY <1>2, <2>1, <2>2, LedgerFields, HoldAssumption
<1> QED BY <1>1, <1>2

\* A capture that is possible adds its claim and keeps the cost.
LEMMA CaptureEffect ==
    ASSUME NEW l \in Ledgers, NEW c \in 0..Hold, CanCapture(l)
    PROVE  /\ Capture(l, c) \in Ledgers
           /\ Capture(l, c).claims = l.claims \cup {"capture"}
           /\ Capture(l, c).taken =
                IF "capture" \in l.claims THEN l.taken ELSE l.taken - (Hold - c)
<1>1. CASE "capture" \in l.claims
  BY <1>1 DEF Capture
<1>2. CASE "capture" \notin l.claims
  <2>1. Capture(l, c) = [frozen |-> l.frozen - Hold,
                         taken |-> l.taken - (Hold - c),
                         claims |-> l.claims \cup {"capture"}]
    BY <1>2 DEF Capture, Claim, Ledgers
  <2>2. l.claims \cup {"capture"} \in SUBSET ClaimKinds
    BY LedgerFields DEF ClaimKinds
  <2>3. l.frozen - Hold \in Nat
    BY <1>2, LedgerFields, HoldAssumption DEF CanCapture, PoolCovers
  <2> QED BY <1>2, <2>1, <2>2, <2>3, LedgerFields, HoldAssumption
<1> QED BY <1>1, <1>2

\* A release that is possible adds its claim.
LEMMA ReleaseEffect ==
    ASSUME NEW l \in Ledgers, CanRelease(l)
    PROVE  /\ Release(l) \in Ledgers
           /\ Release(l).claims = l.claims \cup {"release"}
           /\ "release" \in l.claims => Release(l) = l
<1>1. CASE "release" \in l.claims
  BY <1>1 DEF Release
<1>2. CASE "release" \notin l.claims
  <2>1. l.claims \cup {"release"} \in SUBSET ClaimKinds
    BY LedgerFields DEF ClaimKinds
  <2>2. CASE "hold" \notin l.claims
    <3>1. Release(l) = [frozen |-> l.frozen, taken |-> l.taken,
                        claims |-> l.claims \cup {"release"}]
      BY <1>2, <2>2 DEF Release, Claim, Ledgers
    <3> QED BY <1>2, <2>1, <3>1, LedgerFields
  <2>3. CASE "hold" \in l.claims
    <3>1. Release(l) = [frozen |-> l.frozen - Hold, taken |-> l.taken - Hold,
                        claims |-> l.claims \cup {"release"}]
      BY <1>2, <2>3 DEF Release, Claim, Ledgers
    <3>2. l.frozen - Hold \in Nat
      BY <1>2, <2>3, LedgerFields, HoldAssumption DEF CanRelease, PoolCovers
    <3> QED BY <1>2, <2>1, <3>1, <3>2, LedgerFields, HoldAssumption
  <2> QED BY <2>2, <2>3
<1> QED BY <1>1, <1>2

\* A transition writes the status only.
LEMMA StatusWritten ==
    ASSUME NEW j \in Jobs, NEW s \in Statuses
    PROVE  LET k == [j EXCEPT !.status = s]
           IN  /\ k \in Jobs
               /\ k.status = s /\ k.named = j.named /\ k.cost = j.cost
               /\ k.retries = j.retries
               /\ k.settlementError = j.settlementError
BY DEF Jobs

\* Recording the provider's name submits the row.
LEMMA NameWritten ==
    ASSUME NEW j \in Jobs
    PROVE  LET k == [j EXCEPT !.status = "submitted", !.named = TRUE]
           IN  /\ k \in Jobs
               /\ k.status = "submitted" /\ k.named /\ k.cost = j.cost
BY DEF Jobs, Statuses

\* Recording QUEUE_FAILED leaves the status, the name and the cost.
LEMMA ErrorCleared ==
    ASSUME NEW j \in Jobs
    PROVE  LET k == [j EXCEPT !.settlementError = FALSE]
           IN  /\ k \in Jobs
               /\ k.status = j.status /\ k.named = j.named /\ k.cost = j.cost
BY DEF Jobs

\* Recording a failed submission fails the row.
LEMMA FailureWritten ==
    ASSUME NEW j \in Jobs, NEW h \in BOOLEAN
    PROVE  LET k == [j EXCEPT !.status = "failed", !.settlementError = FALSE,
                              !.hidden = @ \/ h]
           IN  /\ k \in Jobs
               /\ k.status = "failed" /\ k.named = j.named /\ k.cost = j.cost
BY DEF Jobs, Statuses

\* Indexing writes the cost only.
LEMMA CostWritten ==
    ASSUME NEW j \in Jobs, NEW c \in Costs
    PROVE  LET k == [j EXCEPT !.cost = c]
           IN  /\ k \in Jobs
               /\ k.status = j.status /\ k.named = j.named
               /\ k.retries = j.retries
               /\ k.settlementError = j.settlementError
BY DEF Jobs

\* Recording a settlement failure writes its code and the count only.
LEMMA RetriesWritten ==
    ASSUME NEW j \in Jobs, NEW r \in 0..MaxRetries
    PROVE  LET k == [j EXCEPT !.settlementError = TRUE, !.retries = r]
           IN  /\ k \in Jobs
               /\ k.status = j.status /\ k.named = j.named /\ k.cost = j.cost
               /\ k.settlementError
               /\ k.retries = r
BY DEF Jobs

\* SettlementFailed keeps a row that has exhausted its retries so.
LEMMA SettlementFailureWritten ==
    ASSUME job \in Jobs
    PROVE  /\ SettlementFailed \in Jobs
           /\ SettlementFailed.status = job.status
           /\ SettlementFailed.named = job.named
           /\ SettlementFailed.cost = job.cost
           /\ SettlementFailed.settlementError
           /\ SettlementFailed.retries >= job.retries
<1> DEFINE r == IF job.retries < MaxRetries THEN job.retries + 1
                ELSE job.retries
<1>1. job.retries \in 0..MaxRetries
  BY DEF Jobs
<1>2. r \in 0..MaxRetries /\ r >= job.retries
  BY <1>1, JobAssumption
<1>3. SettlementFailed = [job EXCEPT !.settlementError = TRUE, !.retries = r]
  BY DEF SettlementFailed, Jobs
<1> HIDE DEF r
<1> QED BY <1>2, <1>3, RetriesWritten

\* The statuses that transitions write.
LEMMA StatusNames ==
    /\ "created" \in Statuses /\ "uploading" \in Statuses
    /\ "running" \in Statuses /\ "indexing" \in Statuses
    /\ "settling" \in Statuses /\ "completed" \in Statuses
    /\ "failed" \in Statuses /\ "cancelled" \in Statuses
BY DEF Statuses

\* A recorded cost is covered by the hold.
LEMMA CostBounded == ASSUME job \in Jobs PROVE job.cost \in 0..Hold
<1>1. job.cost \in Costs \cup {0}
  BY DEF Jobs
<1>2. \A c \in Costs : c \in 0..Hold
  BY JobAssumption
<1>3. 0 \in 0..Hold
  BY HoldAssumption
<1> QED BY <1>1, <1>2, <1>3

\* A transition moves the row.
LEMMA TransitionMoves ==
    ASSUME job \in Jobs, NEW s \in Statuses, CanTransition(job.status, s),
           job' = [job EXCEPT !.status = s]
    PROVE  Moved(s)
BY StatusWritten DEF Moved

-----------------------------------------------------------------------------
(* What holds whatever goes wrong                                          *)

\* Base holds of a batch that does not exist yet.
LEMMA BaseInit == Init => Base
<1> SUFFICES ASSUME Init PROVE Base
  OBVIOUS
<1>1. ledger \in Ledgers
  BY LedgerFields, JobAssumption DEF Init
<1>2. job \in Jobs
  BY JobAssumption DEF Init, Jobs, Statuses
<1>3. others \in OtherHolds /\ work \in [Workers -> WorkerPcs]
  BY DEF Init, WorkerPcs
<1> QED
  BY <1>1, <1>2, <1>3
  DEF Init, Base, Shape, Created, Named, Submitted, Captured, Past

\* Every step keeps Base and leaves a charged result and a completed batch
\* alone.
LEMMA BaseStep == Base /\ [Next]_vars => Base' /\ Billed
<1> SUFFICES ASSUME Base, [Next]_vars PROVE Base' /\ Billed
  OBVIOUS
<1> USE DEF Base
<1>1. CASE CreateBatchImageJob
  <2>1. Shape'
    BY <1>1, StatusWritten, StatusNames
    DEF CreateBatchImageJob, Submit, Shape, WorkerPcs
  <2> QED
    BY <2>1, <1>1, StatusWritten, StatusNames
    DEF CreateBatchImageJob, Submit, Shape, Billed, Created, Named,
        Submitted, Captured, Past, Billing
<1>2. CASE ReserveBatchImageBalance
  <2>1. Shape'
    BY <1>2, ReserveEffect
    DEF ReserveBatchImageBalance, Pay, Submit, Shape, WorkerPcs
  <2> QED
    BY <2>1, <1>2, ReserveEffect
    DEF ReserveBatchImageBalance, Pay, Submit, Shape, Billed, Created,
        Named, Submitted, Captured, Past, Billing
<1>3. CASE CreatePendingItems
  <2>1. Shape'
    BY <1>3
    DEF CreatePendingItems, Submit, Shape, WorkerPcs
  <2> QED
    BY <2>1, <1>3
    DEF CreatePendingItems, Submit, Shape, Billed, Created, Named,
        Submitted, Captured, Past, Billing
<1>4. CASE StartUpload
  <2>1. Shape'
    BY <1>4, StatusWritten, StatusNames
    DEF StartUpload, Transition, Write, Submit, Shape, WorkerPcs
  <2>2. \/ job' = job
        \/ /\ CanTransition(job.status, "uploading")
           /\ job' = [job EXCEPT !.status = "uploading"]
    BY <1>4
    DEF StartUpload, Transition, Write
  <2>3. job' = job \/ Moved("uploading")
    BY <2>2, TransitionMoves, StatusNames DEF Shape
  <2>4. /\ UNCHANGED ledger
        /\ sub = "upload" /\ sub' # "idle"
        /\ \A v \in Workers : work'[v] = "capture" => work[v] = "capture"
    BY <1>4
    DEF StartUpload, Transition, Write, Submit, Shape
  <2> QED
    BY <2>1, <2>3, <2>4
    DEF Moved, CanTransition, Terminal, Unsubmitted, Billed, Created, Named,
        Submitted, Captured, Past, Billing
<1>5. CASE TouchBatchImageJobSubmitting
  <2>1. Shape'
    BY <1>5
    DEF TouchBatchImageJobSubmitting, Shape, WorkerPcs
  <2> QED
    BY <2>1, <1>5
    DEF TouchBatchImageJobSubmitting, Shape, Billed, Created, Named,
        Submitted, Captured, Past, Billing
<1>6. CASE ProviderSubmit
  <2>1. Shape'
    BY <1>6
    DEF ProviderSubmit, Submit, Shape, WorkerPcs
  <2> QED
    BY <2>1, <1>6
    DEF ProviderSubmit, Submit, Shape, Billed, Created, Named, Submitted,
        Captured, Past, Billing
<1>7. CASE UpdateBatchImageJobProviderSubmit
  <2>1. Shape'
    BY <1>7, NameWritten
    DEF UpdateBatchImageJobProviderSubmit, Write, Submit, Shape, WorkerPcs
  <2> QED
    BY <2>1, <1>7, NameWritten
    DEF UpdateBatchImageJobProviderSubmit, Write, Submit, Shape, Billed,
        Created, Named, Submitted, Captured, Past, Billing, CanTransition,
        Terminal
<1>8. CASE AbortOrphanProviderJob
  <2>1. Shape'
    BY <1>8
    DEF AbortOrphanProviderJob, Submit, Shape, WorkerPcs
  <2> QED
    BY <2>1, <1>8
    DEF AbortOrphanProviderJob, Submit, Shape, Billed, Created, Named,
        Submitted, Captured, Past, Billing
<1>9. CASE SubmitEnqueue
  <2>1. Shape'
    BY <1>9, ErrorCleared
    DEF SubmitEnqueue, Shape, WorkerPcs
  <2> QED
    BY <2>1, <1>9, ErrorCleared
    DEF SubmitEnqueue, Shape, Billed, Created, Named, Submitted, Captured,
        Past, Billing
<1>10. CASE ReleaseFailedSubmitHold
  <2>1. Shape'
    BY <1>10, ReleaseEffect
    DEF ReleaseFailedSubmitHold, Pay, Submit, Shape, WorkerPcs
  <2> QED
    BY <2>1, <1>10, ReleaseEffect
    DEF ReleaseFailedSubmitHold, Pay, Submit, Shape, Billed, Created, Named,
        Submitted, Captured, Past, Billing
<1>11. CASE RecordBatchImageJobSubmitFailure
  <2>1. Shape'
    BY <1>11, FailureWritten
    DEF RecordBatchImageJobSubmitFailure, Write, Submit, Shape, WorkerPcs
  <2> QED
    BY <2>1, <1>11, FailureWritten
    DEF RecordBatchImageJobSubmitFailure, Write, Submit, Shape, Billed,
        Created, Named, Submitted, Captured, Past, Billing
<1>12. CASE SubmitEnqueueBillingRetry
  <2>1. Shape'
    BY <1>12
    DEF SubmitEnqueueBillingRetry, Enqueue, Shape, WorkerPcs
  <2> QED
    BY <2>1, <1>12
    DEF SubmitEnqueueBillingRetry, Enqueue, Shape, Billed, Created, Named,
        Submitted, Captured, Past, Billing
<1>13. CASE SubmitCrash
  <2>1. Shape'
    BY <1>13
    DEF SubmitCrash, Submit, Shape, WorkerPcs
  <2> QED
    BY <2>1, <1>13
    DEF SubmitCrash, Submit, Shape, Billed, Created, Named, Submitted,
        Captured, Past, Billing
<1>14. CASE Resubmit
  <2>1. Shape'
    BY <1>14
    DEF Resubmit, Submit, Shape, WorkerPcs
  <2> QED
    BY <2>1, <1>14
    DEF Resubmit, Submit, Shape, Billed, Created, Named, Submitted,
        Captured, Past, Billing
<1>15. CASE CancelRead
  <2>1. Shape'
    BY <1>15
    DEF CancelRead, Cancel, Shape, WorkerPcs
  <2> QED
    BY <2>1, <1>15
    DEF CancelRead, Cancel, Shape, Billed, Created, Named, Submitted,
        Captured, Past, Billing
<1>16. CASE CancelUpstream
  <2>1. Shape'
    BY <1>16
    DEF CancelUpstream, Cancel, Shape, WorkerPcs
  <2> QED
    BY <2>1, <1>16
    DEF CancelUpstream, Cancel, Shape, Billed, Created, Named, Submitted,
        Captured, Past, Billing
<1>17. CASE CancelTransition
  <2>1. Shape'
    BY <1>17, StatusWritten, StatusNames
    DEF CancelTransition, Transition, Write, Cancel, Shape, WorkerPcs
  <2>2. \/ job' = job
        \/ /\ CanTransition(job.status, "cancelled")
           /\ job' = [job EXCEPT !.status = "cancelled"]
    BY <1>17
    DEF CancelTransition, Transition, Write
  <2>3. job' = job \/ Moved("cancelled")
    BY <2>2, TransitionMoves, StatusNames DEF Shape
  <2>4. /\ UNCHANGED ledger
        /\ UNCHANGED sub
        /\ \A v \in Workers : work'[v] = "capture" => work[v] = "capture"
    BY <1>17
    DEF CancelTransition, Transition, Write, Cancel, Shape
  <2> QED
    BY <2>1, <2>3, <2>4
    DEF Moved, CanTransition, Terminal, Unsubmitted, Billed, Created, Named,
        Submitted, Captured, Past, Billing
<1>18. CASE CancelRelease
  <2>1. Shape'
    BY <1>18, ReleaseEffect
    DEF CancelRelease, Pay, Cancel, Shape, WorkerPcs
  <2> QED
    BY <2>1, <1>18, ReleaseEffect
    DEF CancelRelease, Pay, Cancel, Shape, Billed, Created, Named,
        Submitted, Captured, Past, Billing
<1>19. CASE CancelEnqueue
  <2>1. Shape'
    BY <1>19
    DEF CancelEnqueue, Enqueue, Shape, WorkerPcs
  <2> QED
    BY <2>1, <1>19
    DEF CancelEnqueue, Enqueue, Shape, Billed, Created, Named, Submitted,
        Captured, Past, Billing
<1>20. CASE CancelCrash
  <2>1. Shape'
    BY <1>20
    DEF CancelCrash, Cancel, Shape, WorkerPcs
  <2> QED
    BY <2>1, <1>20
    DEF CancelCrash, Cancel, Shape, Billed, Created, Named, Submitted,
        Captured, Past, Billing
<1>21. CASE StaleAfterPasses
  <2>1. Shape'
    BY <1>21
    DEF StaleAfterPasses, Shape, WorkerPcs
  <2> QED
    BY <2>1, <1>21
    DEF StaleAfterPasses, Shape, Billed, Created, Named, Submitted,
        Captured, Past, Billing
<1>22. CASE FailStaleUnsubmittedBatchImageJob
  <2>1. Shape'
    BY <1>22, StatusWritten, StatusNames
    DEF FailStaleUnsubmittedBatchImageJob, Write, Recover, Shape, WorkerPcs
  <2>2. \/ job' = job
        \/ /\ CanTransition(job.status, "failed")
           /\ job' = [job EXCEPT !.status = "failed"]
    BY <1>22
    DEF FailStaleUnsubmittedBatchImageJob, Write, Stale, Unsubmitted,
        CanTransition, Terminal
  <2>3. job' = job \/ Moved("failed")
    BY <2>2, TransitionMoves, StatusNames DEF Shape
  <2>4. /\ UNCHANGED ledger
        /\ UNCHANGED sub
        /\ \A v \in Workers : work'[v] = "capture" => work[v] = "capture"
    BY <1>22
    DEF FailStaleUnsubmittedBatchImageJob, Write, Recover, Shape
  <2> QED
    BY <2>1, <2>3, <2>4
    DEF Moved, CanTransition, Terminal, Unsubmitted, Billed, Created, Named,
        Submitted, Captured, Past, Billing
<1>23. CASE RecoveryRelease
  <2>1. Shape'
    BY <1>23, ReleaseEffect
    DEF RecoveryRelease, Pay, Recover, Shape, WorkerPcs
  <2> QED
    BY <2>1, <1>23, ReleaseEffect
    DEF RecoveryRelease, Pay, Recover, Shape, Billed, Created, Named,
        Submitted, Captured, Past, Billing
<1>24. CASE RecoveryEnqueue
  <2>1. Shape'
    BY <1>24
    DEF RecoveryEnqueue, Enqueue, Shape, WorkerPcs
  <2> QED
    BY <2>1, <1>24
    DEF RecoveryEnqueue, Enqueue, Shape, Billed, Created, Named, Submitted,
        Captured, Past, Billing
<1>25. CASE RecoveryCrash
  <2>1. Shape'
    BY <1>25
    DEF RecoveryCrash, Recover, Shape, WorkerPcs
  <2> QED
    BY <2>1, <1>25
    DEF RecoveryCrash, Recover, Shape, Billed, Created, Named, Submitted,
        Captured, Past, Billing
<1>26. ASSUME NEW w \in Workers,
            ReserveAndRead(w) \/ WorkerStep(w) \/ WorkerCrash(w)
      PROVE Base' /\ Billed
  <2>1. CASE ReserveAndRead(w)
    <3>1. Shape'
      BY <2>1
      DEF ReserveAndRead, Work, Leave, Ack, Requeue, Shape, WorkerPcs
    <3> QED
      BY <3>1, <2>1
      DEF ReserveAndRead, Work, Leave, Ack, Requeue, Shape, Billed, Created,
          Named, Submitted, Captured, Past, Billing
  <2>2. CASE Process(w)
    <3>1. Shape'
      BY <2>2
      DEF Process, Work, Leave, Ack, Requeue, Shape, WorkerPcs
    <3> QED
      BY <3>1, <2>2
      DEF Process, Work, Leave, Ack, Requeue, Shape, Billed, Created, Named,
          Submitted, Captured, Past, Billing
  <2>3. CASE Poll(w)
    <3>1. Shape'
      BY <2>3
      DEF Poll, Work, Leave, Ack, Requeue, Shape, WorkerPcs
    <3> QED
      BY <3>1, <2>3
      DEF Poll, Work, Leave, Ack, Requeue, Shape, Billed, Created, Named,
          Submitted, Captured, Past, Billing
  <2>4. CASE PollFails(w)
    <3>1. Shape'
      BY <2>4
      DEF PollFails, Work, Leave, Ack, Requeue, Shape, WorkerPcs
    <3> QED
      BY <3>1, <2>4
      DEF PollFails, Work, Leave, Ack, Requeue, Shape, Billed, Created,
          Named, Submitted, Captured, Past, Billing
  <2>5. CASE ToRunning(w)
    <3>1. Shape'
      BY <2>5, StatusWritten, StatusNames
      DEF ToRunning, Transition, Write, Work, Leave, Ack, Requeue, Shape,
          WorkerPcs
    <3>2. \/ job' = job
          \/ /\ CanTransition(job.status, "running")
             /\ job' = [job EXCEPT !.status = "running"]
      BY <2>5
      DEF ToRunning, Transition, Write
    <3>3. job' = job \/ Moved("running")
      BY <3>2, TransitionMoves, StatusNames DEF Shape
    <3>4. /\ UNCHANGED ledger
          /\ UNCHANGED sub
          /\ \A v \in Workers : work'[v] = "capture" => work[v] = "capture"
      BY <2>5
      DEF ToRunning, Transition, Write, Work, Leave, Ack, Requeue, Shape
    <3> QED
      BY <3>1, <3>3, <3>4
      DEF Moved, CanTransition, Terminal, Unsubmitted, Billed, Created,
          Named, Submitted, Captured, Past, Billing
  <2>6. CASE ToIndexing(w)
    <3>1. Shape'
      BY <2>6, StatusWritten, StatusNames
      DEF ToIndexing, Transition, Write, Work, Leave, Ack, Requeue, Shape,
          WorkerPcs
    <3>2. \/ job' = job
          \/ /\ CanTransition(job.status, "indexing")
             /\ job' = [job EXCEPT !.status = "indexing"]
      BY <2>6
      DEF ToIndexing, Transition, Write
    <3>3. job' = job \/ Moved("indexing")
      BY <3>2, TransitionMoves, StatusNames DEF Shape
    <3>4. /\ UNCHANGED ledger
          /\ UNCHANGED sub
          /\ \A v \in Workers : work'[v] = "capture" => work[v] = "capture"
      BY <2>6
      DEF ToIndexing, Transition, Write, Work, Leave, Ack, Requeue, Shape
    <3> QED
      BY <3>1, <3>3, <3>4
      DEF Moved, CanTransition, Terminal, Unsubmitted, Billed, Created,
          Named, Submitted, Captured, Past, Billing
  <2>7. CASE Index(w)
    <3>1. Shape'
      BY <2>7, CostWritten
      DEF Index, Write, Work, Leave, Ack, Requeue, Shape, WorkerPcs
    <3>2. \/ job' = job
          \/ /\ job.status = "indexing"
             /\ \E c \in Costs : job' = [job EXCEPT !.cost = c]
      BY <2>7 DEF Index, Write
    <3>3. /\ job'.status = job.status /\ job'.named = job.named
          /\ job.status # "indexing" => job'.cost = job.cost
      BY <3>2, CostWritten DEF Shape
    <3> QED
      BY <2>7, <3>1, <3>3
      DEF Index, Write, Work, Leave, Ack, Requeue, Shape, Billed, Created,
          Named, Submitted, Captured, Past, Billing
  <2>8. CASE ToSettling(w)
    <3>1. Shape'
      BY <2>8, StatusWritten, StatusNames
      DEF ToSettling, Transition, Write, Work, Leave, Ack, Requeue, Shape,
          WorkerPcs
    <3>2. \/ job' = job
          \/ /\ CanTransition(job.status, "settling")
             /\ job' = [job EXCEPT !.status = "settling"]
      BY <2>8
      DEF ToSettling, Transition, Write
    <3>3. job' = job \/ Moved("settling")
      BY <3>2, TransitionMoves, StatusNames DEF Shape
    <3>4. /\ UNCHANGED ledger
          /\ UNCHANGED sub
          /\ \A v \in Workers : work'[v] = "capture" => work[v] = "capture"
      BY <2>8
      DEF ToSettling, Transition, Write, Work, Leave, Ack, Requeue, Shape
    <3> QED
      BY <3>1, <3>3, <3>4
      DEF Moved, CanTransition, Terminal, Unsubmitted, Billed, Created,
          Named, Submitted, Captured, Past, Billing
  <2>9. CASE ToFailed(w)
    <3>1. Shape'
      BY <2>9, StatusWritten, StatusNames
      DEF ToFailed, Transition, Write, Work, Leave, Ack, Requeue, Shape,
          WorkerPcs
    <3>2. \/ job' = job
          \/ /\ CanTransition(job.status, "failed")
             /\ job' = [job EXCEPT !.status = "failed"]
      BY <2>9
      DEF ToFailed, Transition, Write
    <3>3. job' = job \/ Moved("failed")
      BY <3>2, TransitionMoves, StatusNames DEF Shape
    <3>4. /\ UNCHANGED ledger
          /\ UNCHANGED sub
          /\ \A v \in Workers : work'[v] = "capture" => work[v] = "capture"
      BY <2>9
      DEF ToFailed, Transition, Write, Work, Leave, Ack, Requeue, Shape
    <3> QED
      BY <3>1, <3>3, <3>4
      DEF Moved, CanTransition, Terminal, Unsubmitted, Billed, Created,
          Named, Submitted, Captured, Past, Billing
  <2>10. CASE ToCancelled(w)
    <3>1. Shape'
      BY <2>10, StatusWritten, StatusNames
      DEF ToCancelled, Transition, Write, Work, Leave, Ack, Requeue, Shape,
          WorkerPcs
    <3>2. \/ job' = job
          \/ /\ CanTransition(job.status, "cancelled")
             /\ job' = [job EXCEPT !.status = "cancelled"]
      BY <2>10
      DEF ToCancelled, Transition, Write
    <3>3. job' = job \/ Moved("cancelled")
      BY <3>2, TransitionMoves, StatusNames DEF Shape
    <3>4. /\ UNCHANGED ledger
          /\ UNCHANGED sub
          /\ \A v \in Workers : work'[v] = "capture" => work[v] = "capture"
      BY <2>10
      DEF ToCancelled, Transition, Write, Work, Leave, Ack, Requeue, Shape
    <3> QED
      BY <3>1, <3>3, <3>4
      DEF Moved, CanTransition, Terminal, Unsubmitted, Billed, Created,
          Named, Submitted, Captured, Past, Billing
  <2>11. CASE ReleaseTerminalHold(w)
    <3>1. Shape'
      BY <2>11, ReleaseEffect
      DEF ReleaseTerminalHold, Pay, Work, Leave, Ack, Requeue, Shape,
          WorkerPcs
    <3> QED
      BY <3>1, <2>11, ReleaseEffect
      DEF ReleaseTerminalHold, Pay, Work, Leave, Ack, Requeue, Shape,
          Billed, Created, Named, Submitted, Captured, Past, Billing
  <2>12. CASE Settle(w)
    <3>1. Shape'
      BY <2>12
      DEF Settle, Work, Leave, Ack, Requeue, Shape, WorkerPcs
    <3> QED
      BY <3>1, <2>12
      DEF Settle, Work, Leave, Ack, Requeue, Shape, Billed, Created, Named,
          Submitted, Captured, Past, Billing
  <2>13. CASE CaptureBatchImageBalance(w)
    <3>1. Shape'
      BY <2>13, CaptureEffect, CostBounded
      DEF CaptureBatchImageBalance, Pay, Work, Leave, Ack, Requeue, Shape,
          WorkerPcs
    <3> QED
      BY <3>1, <2>13, CaptureEffect, CostBounded
      DEF CaptureBatchImageBalance, Pay, Work, Leave, Ack, Requeue, Shape,
          Billed, Created, Named, Submitted, Captured, Past, Billing
  <2>14. CASE MarkBatchImageJobSettled(w)
    <3>1. Shape'
      BY <2>14, StatusWritten, StatusNames
      DEF MarkBatchImageJobSettled, Write, Work, Leave, Ack, Requeue, Shape,
          WorkerPcs
    <3>2. \/ job' = job
          \/ /\ CanTransition(job.status, "completed")
             /\ job' = [job EXCEPT !.status = "completed"]
      BY <2>14
      DEF MarkBatchImageJobSettled, Write, CanTransition, Terminal
    <3>3. job' = job \/ Moved("completed")
      BY <3>2, TransitionMoves, StatusNames DEF Shape
    <3>4. /\ UNCHANGED ledger
          /\ UNCHANGED sub
          /\ \A v \in Workers : work'[v] = "capture" => work[v] = "capture"
      BY <2>14
      DEF MarkBatchImageJobSettled, Write, Work, Leave, Ack, Requeue, Shape
    <3> QED
      BY <3>1, <3>3, <3>4
      DEF Moved, CanTransition, Terminal, Unsubmitted, Billed, Created,
          Named, Submitted, Captured, Past, Billing
  <2>15. CASE RecordSettlementFailure(w)
    <3>1. Shape'
      BY <2>15, SettlementFailureWritten
      DEF RecordSettlementFailure, Write, Work, Leave, Ack, Requeue, Shape,
          WorkerPcs
    <3> QED
      BY <3>1, <2>15, SettlementFailureWritten
      DEF RecordSettlementFailure, Write, Work, Leave, Ack, Requeue, Shape,
          Billed, Created, Named, Submitted, Captured, Past, Billing
  <2>16. CASE ReleaseExhausted(w)
    <3>1. Shape'
      BY <2>16, ReleaseEffect
      DEF ReleaseExhausted, Pay, Work, Leave, Ack, Requeue, Shape, WorkerPcs
    <3> QED
      BY <3>1, <2>16, ReleaseEffect
      DEF ReleaseExhausted, Pay, Work, Leave, Ack, Requeue, Shape, Billed,
          Created, Named, Submitted, Captured, Past, Billing
  <2>17. CASE RecordReleaseFailure(w)
    <3>1. Shape'
      BY <2>17, SettlementFailureWritten
      DEF RecordReleaseFailure, Write, Work, Leave, Ack, Requeue, Shape,
          WorkerPcs
    <3> QED
      BY <3>1, <2>17, SettlementFailureWritten
      DEF RecordReleaseFailure, Write, Work, Leave, Ack, Requeue, Shape,
          Billed, Created, Named, Submitted, Captured, Past, Billing
  <2>18. CASE ToFailedExhausted(w)
    <3>1. Shape'
      BY <2>18, StatusWritten, StatusNames
      DEF ToFailedExhausted, Transition, Write, Work, Leave, Ack, Requeue,
          Shape, WorkerPcs
    <3>2. \/ job' = job
          \/ /\ CanTransition(job.status, "failed")
             /\ job' = [job EXCEPT !.status = "failed"]
      BY <2>18
      DEF ToFailedExhausted, Transition, Write
    <3>3. job' = job \/ Moved("failed")
      BY <3>2, TransitionMoves, StatusNames DEF Shape
    <3>4. /\ UNCHANGED ledger
          /\ UNCHANGED sub
          /\ \A v \in Workers : work'[v] = "capture" => work[v] = "capture"
      BY <2>18
      DEF ToFailedExhausted, Transition, Write, Work, Leave, Ack, Requeue,
          Shape
    <3> QED
      BY <3>1, <3>3, <3>4
      DEF Moved, CanTransition, Terminal, Unsubmitted, Billed, Created,
          Named, Submitted, Captured, Past, Billing
  <2>19. CASE Recheck(w)
    <3>1. Shape'
      BY <2>19
      DEF Recheck, Work, Leave, Ack, Requeue, Shape, WorkerPcs
    <3> QED
      BY <3>1, <2>19
      DEF Recheck, Work, Leave, Ack, Requeue, Shape, Billed, Created, Named,
          Submitted, Captured, Past, Billing
  <2>20. CASE WorkerCrash(w)
    <3>1. Shape'
      BY <2>20
      DEF WorkerCrash, Work, Leave, Ack, Requeue, Shape, WorkerPcs
    <3> QED
      BY <3>1, <2>20
      DEF WorkerCrash, Work, Leave, Ack, Requeue, Shape, Billed, Created,
          Named, Submitted, Captured, Past, Billing
  <2> QED BY <2>1, <2>2, <2>3, <2>4, <2>5, <2>6, <2>7, <2>8, <2>9, <2>10,
         <2>11, <2>12, <2>13, <2>14, <2>15, <2>16, <2>17, <2>18, <2>19,
         <2>20, <1>26 DEF WorkerStep
<1>27. CASE UpstreamEnds
  <2>1. Shape'
    BY <1>27
    DEF UpstreamEnds, Shape, WorkerPcs
  <2> QED
    BY <2>1, <1>27
    DEF UpstreamEnds, Shape, Billed, Created, Named, Submitted, Captured,
        Past, Billing
<1>28. CASE OtherBatches
  <2>1. ledger.frozen + others' - others \in Nat
    BY <1>28, LedgerFields, JobAssumption DEF OtherBatches, Shape
  <2>2. ledger' = [frozen |-> ledger.frozen + others' - others,
                   taken |-> ledger.taken, claims |-> ledger.claims]
    BY <1>28 DEF OtherBatches, Shape, Ledgers
  <2>3. ledger' \in Ledgers /\ ledger'.claims = ledger.claims
    BY <2>1, <2>2, LedgerFields DEF Shape
  <2> QED
    BY <1>28, <2>3
    DEF OtherBatches, Shape, Billed, Created, Named, Submitted, Captured
<1>29. CASE UNCHANGED vars
  BY <1>29 DEF vars, Shape, Billed, Created, Named, Submitted, Captured
<1> QED BY <1>1, <1>2, <1>3, <1>4, <1>5, <1>6, <1>7, <1>8, <1>9, <1>10,
       <1>11, <1>12, <1>13, <1>14, <1>15, <1>16, <1>17, <1>18, <1>19, <1>20,
       <1>21, <1>22, <1>23, <1>24, <1>25, <1>26, <1>27, <1>28, <1>29
   DEF Next, SubmitNext, SubmitSteps, CancelNext, RecoveryNext, WorkerNext

\* Once a result has been charged no worker, however late, changes it, and a
\* completed batch stays completed, whatever goes wrong: batch_image_repo's
\* check of the status in ReplaceBatchImageItemsForJob and the transition
\* table suffice.
THEOREM BilledFinal == Spec => BilledResultIsFinal
<1>1. Base /\ [Next]_vars => Base' /\ [Billed]_vars
  BY BaseStep
<1>2. Init => Base
  BY BaseInit
<1> QED BY <1>1, <1>2, PTL DEF Spec, BilledResultIsFinal, Billed

-----------------------------------------------------------------------------
(* What needs the job lock and the queue                                   *)

\* Careful holds of a batch that does not exist yet.
LEMMA CarefulInit == Init => Careful
BY DEF Init, Careful, OneBusy, Settlement, SettlePcs, Refunding, Released,
    Reserved, Taken

\* What has gone wrong stays on record.
LEMMA FaultsGrow == Next => faults' = faults \/ \E kind \in Perils : Fault(kind)
<1>1. SubmitNext => faults' = faults \/ \E kind \in Perils : Fault(kind)
  BY DEF SubmitNext, SubmitSteps, CreateBatchImageJob,
     ReserveBatchImageBalance, CreatePendingItems, StartUpload,
     TouchBatchImageJobSubmitting, ProviderSubmit,
     UpdateBatchImageJobProviderSubmit, AbortOrphanProviderJob,
     SubmitEnqueue, ReleaseFailedSubmitHold,
     RecordBatchImageJobSubmitFailure, SubmitEnqueueBillingRetry,
     SubmitCrash, Resubmit, Enqueue, Transition, Write, Pay, Fault
<1>2. CancelNext => faults' = faults \/ \E kind \in Perils : Fault(kind)
  BY DEF CancelNext, CancelRead, CancelUpstream, CancelTransition,
     CancelRelease, CancelEnqueue, CancelCrash, Enqueue, Transition, Write,
     Pay, Fault
<1>3. RecoveryNext => faults' = faults \/ \E kind \in Perils : Fault(kind)
  BY DEF RecoveryNext, StaleAfterPasses, FailStaleUnsubmittedBatchImageJob,
     RecoveryRelease, RecoveryEnqueue, RecoveryCrash, Enqueue, Write, Pay,
     Fault
<1>4. WorkerNext => faults' = faults \/ \E kind \in Perils : Fault(kind)
  BY DEF WorkerNext, ReserveAndRead, WorkerCrash, WorkerStep, Process, Poll,
     PollFails, ToRunning, ToIndexing, Index, ToSettling, ToFailed,
     ToCancelled, ReleaseTerminalHold, Settle, CaptureBatchImageBalance,
     MarkBatchImageJobSettled, RecordSettlementFailure, ReleaseExhausted,
     RecordReleaseFailure, ToFailedExhausted, Recheck, Transition, Write,
     Pay, Fault
<1> QED BY <1>1, <1>2, <1>3, <1>4 DEF Next, UpstreamEnds, OtherBatches

\* The lock and the queue that work now have worked so far.
LEMMA UndisturbedBefore == [Next]_vars /\ Undisturbed' => Undisturbed
BY FaultsGrow DEF vars, Fault, Undisturbed, Spared

\* Until a lock runs out or an Enqueue fails every step keeps Careful.
LEMMA CarefulStep ==
    Base /\ Base' /\ Careful /\ [Next]_vars /\ Undisturbed' => Careful'
<1> SUFFICES ASSUME Base, Base', Careful, [Next]_vars, Undisturbed'
             PROVE  Careful'
  OBVIOUS
<1> USE DEF Base
<1>0. ~Fault("lockExpires") /\ ~Fault("queueDown")
  BY DEF Fault, Undisturbed, Spared
<1>1. CASE CreateBatchImageJob
  <2>1. job.status = "none" /\ job'.status = "created"
        /\ job'.named = job.named /\ job'.cost = job.cost
    BY <1>1, StatusWritten, StatusNames DEF CreateBatchImageJob, Shape, Created
  <2>2. UNCHANGED ledger
    BY <1>1
    DEF CreateBatchImageJob
  <2> QED
    BY <2>1, <2>2, <1>1
    DEF CreateBatchImageJob, Submit, Careful, OneBusy, Settlement,
        Refunding, Released, Reserved, Taken, SettlePcs, Created, Named,
        Submitted, Captured, Past, Billing, Unsubmitted
<1>2. CASE ReserveBatchImageBalance
  <2>1. UNCHANGED job /\ (Exhausted' <=> Exhausted)
    BY <1>2
    DEF ReserveBatchImageBalance, Pay, Exhausted
  <2>2. \/ ledger' = ledger /\ sub' = "record"
        \/ /\ ledger'.claims = ledger.claims \cup {"hold"}
           /\ ledger'.taken = ledger.taken + Hold
    BY <1>2, ReserveEffect
    DEF ReserveBatchImageBalance, Pay, Submit, Careful, Reserved, Shape
  <2>3. /\ sub = "reserve"
        /\ sub' \in {"items", "record"}
        /\ UNCHANGED <<can, rec, work>>
    BY <1>2
    DEF ReserveBatchImageBalance, Pay, Submit
  <2> QED
    BY <2>1, <2>2, <2>3, LedgerFields, HoldAssumption
    DEF Careful, OneBusy, Settlement, Refunding, Released, Reserved, Taken,
        SettlePcs, Created, Named, Submitted, Captured, Past, Billing,
        Unsubmitted, Shape
<1>3. CASE CreatePendingItems
  <2>1. UNCHANGED job /\ (Exhausted' <=> Exhausted)
    BY <1>3
    DEF CreatePendingItems, Exhausted
  <2>2. UNCHANGED ledger
    BY <1>3
    DEF CreatePendingItems
  <2> QED
    BY <2>1, <2>2, <1>3
    DEF CreatePendingItems, Submit, Careful, OneBusy, Settlement, Refunding,
        Released, Reserved, Taken, SettlePcs, Created, Named, Submitted,
        Captured, Past, Billing, Unsubmitted
<1>4. CASE StartUpload
  <2>1. \/ job' = job
        \/ /\ CanTransition(job.status, "uploading")
           /\ job' = [job EXCEPT !.status = "uploading"]
    BY <1>4
    DEF StartUpload, Transition, Write
  <2>2. job' = job \/ Moved("uploading")
    BY <2>1, TransitionMoves, StatusNames DEF Shape
  <2>3. Exhausted' <=> Exhausted
    BY <2>2 DEF Moved, Exhausted
  <2>4. UNCHANGED ledger
    BY <1>4
    DEF StartUpload, Transition, Write
  <2>5. /\ sub = "upload"
        /\ sub' \in {"provider", "giveUp", "release"}
        /\ UNCHANGED <<can, rec, work>>
    BY <1>4
    DEF StartUpload, Transition, Write, Submit
  <2> QED
    BY <2>2, <2>3, <2>4, <2>5
    DEF Moved, CanTransition, Terminal, Careful, OneBusy, Settlement,
        Refunding, Released, Reserved, Taken, SettlePcs, Created, Named,
        Submitted, Captured, Past, Billing, Unsubmitted
<1>5. CASE TouchBatchImageJobSubmitting
  <2>1. UNCHANGED job /\ (Exhausted' <=> Exhausted)
    BY <1>5
    DEF TouchBatchImageJobSubmitting, Exhausted
  <2>2. UNCHANGED ledger
    BY <1>5
    DEF TouchBatchImageJobSubmitting
  <2> QED
    BY <2>1, <2>2, <1>5
    DEF TouchBatchImageJobSubmitting, Careful, OneBusy, Settlement,
        Refunding, Released, Reserved, Taken, SettlePcs, Created, Named,
        Submitted, Captured, Past, Billing, Unsubmitted
<1>6. CASE ProviderSubmit
  <2>1. UNCHANGED job /\ (Exhausted' <=> Exhausted)
    BY <1>6
    DEF ProviderSubmit, Exhausted
  <2>2. UNCHANGED ledger
    BY <1>6
    DEF ProviderSubmit
  <2> QED
    BY <2>1, <2>2, <1>6
    DEF ProviderSubmit, Submit, Careful, OneBusy, Settlement, Refunding,
        Released, Reserved, Taken, SettlePcs, Created, Named, Submitted,
        Captured, Past, Billing, Unsubmitted
<1>7. CASE UpdateBatchImageJobProviderSubmit
  <2>1. \/ job' = job
        \/ /\ CanTransition(job.status, "submitted")
           /\ job' = [job EXCEPT !.status = "submitted", !.named = TRUE]
    BY <1>7 DEF UpdateBatchImageJobProviderSubmit, Write
  <2>2. \/ job' = job
        \/ /\ job.status \in Unsubmitted
           /\ job'.status = "submitted" /\ job'.cost = job.cost
    BY <2>1, NameWritten DEF Shape, CanTransition, Terminal, Unsubmitted
  <2>3. job' = job => (Exhausted' <=> Exhausted)
    BY DEF Exhausted
  <2>4. UNCHANGED ledger
    BY <1>7
    DEF UpdateBatchImageJobProviderSubmit, Write
  <2>5. /\ sub = "update"
        /\ sub' \in {"enqueue", "abort"}
        /\ UNCHANGED <<can, rec, work>>
    BY <1>7
    DEF UpdateBatchImageJobProviderSubmit, Write, Submit
  <2> QED
    BY <2>2, <2>3, <2>4, <2>5
    DEF Careful, OneBusy, Settlement, Refunding, Released, Reserved, Taken,
        SettlePcs, Created, Named, Submitted, Captured, Past, Billing,
        Unsubmitted
<1>8. CASE AbortOrphanProviderJob
  <2>1. UNCHANGED job /\ (Exhausted' <=> Exhausted)
    BY <1>8
    DEF AbortOrphanProviderJob, Exhausted
  <2>2. UNCHANGED ledger
    BY <1>8
    DEF AbortOrphanProviderJob
  <2> QED
    BY <2>1, <2>2, <1>8
    DEF AbortOrphanProviderJob, Submit, Careful, OneBusy, Settlement,
        Refunding, Released, Reserved, Taken, SettlePcs, Created, Named,
        Submitted, Captured, Past, Billing, Unsubmitted
<1>9. CASE SubmitEnqueue
  <2>1. UNCHANGED job /\ (Exhausted' <=> Exhausted)
    BY <1>0, <1>9
    DEF SubmitEnqueue, Exhausted
  <2>2. UNCHANGED ledger
    BY <1>9
    DEF SubmitEnqueue
  <2> QED
    BY <2>1, <2>2, <1>9
    DEF SubmitEnqueue, Careful, OneBusy, Settlement, Refunding, Released,
        Reserved, Taken, SettlePcs, Created, Named, Submitted, Captured,
        Past, Billing, Unsubmitted
<1>10. CASE ReleaseFailedSubmitHold
  <2>1. UNCHANGED job /\ (Exhausted' <=> Exhausted)
    BY <1>10
    DEF ReleaseFailedSubmitHold, Pay, Exhausted
  <2>2. \/ ledger' = ledger
        \/ ledger'.claims = ledger.claims \cup {"release"}
    BY <1>10, ReleaseEffect DEF ReleaseFailedSubmitHold, Pay, Shape
  <2>3. /\ sub \in {"release", "giveUp"}
        /\ sub' \in {"record", "recordRelease", "done"}
        /\ UNCHANGED <<can, rec, work>>
    BY <1>10
    DEF ReleaseFailedSubmitHold, Pay, Submit
  <2>4. job.status \in Unsubmitted \cup {"failed", "cancelled"}
    BY <2>3 DEF Shape, Jobs, Statuses, Created, Named, Submitted, Past,
       Unsubmitted
  <2> QED
    BY <2>1, <2>2, <2>3, <2>4
    DEF Careful, OneBusy, Settlement, Refunding, Released, Reserved, Taken,
        SettlePcs, Created, Named, Submitted, Captured, Past, Billing,
        Unsubmitted
<1>11. CASE RecordBatchImageJobSubmitFailure
  <2>1. \/ job' = job
        \/ job' = [job EXCEPT !.status = "failed",
                              !.settlementError = FALSE,
                              !.hidden = @ \/ sub = "record"]
    BY <1>11 DEF RecordBatchImageJobSubmitFailure, Write
  <2>2. \/ job' = job
        \/ /\ job'.status = "failed" /\ job'.named = job.named
           /\ job'.cost = job.cost
    BY <2>1, FailureWritten DEF Shape
  <2>3. job' = job => (Exhausted' <=> Exhausted)
    BY DEF Exhausted
  <2>4. UNCHANGED ledger
    BY <1>11
    DEF RecordBatchImageJobSubmitFailure, Write
  <2>5. /\ sub \in {"record", "recordRelease"}
        /\ sub' \in {"enqueueRetry", "done"}
        /\ UNCHANGED <<can, rec, work>>
    BY <1>11
    DEF RecordBatchImageJobSubmitFailure, Write, Submit
  <2> QED
    BY <2>2, <2>3, <2>4, <2>5
    DEF Careful, OneBusy, Settlement, Refunding, Released, Reserved, Taken,
        SettlePcs, Created, Named, Submitted, Captured, Past, Billing,
        Unsubmitted
<1>12. CASE SubmitEnqueueBillingRetry
  <2>1. UNCHANGED job /\ (Exhausted' <=> Exhausted)
    BY <1>12
    DEF SubmitEnqueueBillingRetry, Enqueue, Exhausted
  <2>2. UNCHANGED ledger
    BY <1>12
    DEF SubmitEnqueueBillingRetry, Enqueue
  <2> QED
    BY <2>1, <2>2, <1>12
    DEF SubmitEnqueueBillingRetry, Enqueue, Careful, OneBusy, Settlement,
        Refunding, Released, Reserved, Taken, SettlePcs, Created, Named,
        Submitted, Captured, Past, Billing, Unsubmitted
<1>13. CASE SubmitCrash
  <2>1. UNCHANGED job /\ (Exhausted' <=> Exhausted)
    BY <1>13
    DEF SubmitCrash, Exhausted
  <2>2. UNCHANGED ledger
    BY <1>13
    DEF SubmitCrash
  <2> QED
    BY <2>1, <2>2, <1>13
    DEF SubmitCrash, Submit, Careful, OneBusy, Settlement, Refunding,
        Released, Reserved, Taken, SettlePcs, Created, Named, Submitted,
        Captured, Past, Billing, Unsubmitted
<1>14. CASE Resubmit
  <2>1. UNCHANGED job /\ (Exhausted' <=> Exhausted)
    BY <1>14
    DEF Resubmit, Exhausted
  <2>2. UNCHANGED ledger
    BY <1>14
    DEF Resubmit
  <2> QED
    BY <2>1, <2>2, <1>14
    DEF Resubmit, Submit, Careful, OneBusy, Settlement, Refunding, Released,
        Reserved, Taken, SettlePcs, Created, Named, Submitted, Captured,
        Past, Billing, Unsubmitted
<1>15. CASE CancelRead
  <2>1. UNCHANGED job /\ (Exhausted' <=> Exhausted)
    BY <1>15
    DEF CancelRead, Exhausted
  <2>2. UNCHANGED ledger
    BY <1>15
    DEF CancelRead
  <2> QED
    BY <2>1, <2>2, <1>15
    DEF CancelRead, Cancel, Careful, OneBusy, Settlement, Refunding,
        Released, Reserved, Taken, SettlePcs, Created, Named, Submitted,
        Captured, Past, Billing, Unsubmitted
<1>16. CASE CancelUpstream
  <2>1. UNCHANGED job /\ (Exhausted' <=> Exhausted)
    BY <1>16
    DEF CancelUpstream, Exhausted
  <2>2. UNCHANGED ledger
    BY <1>16
    DEF CancelUpstream
  <2> QED
    BY <2>1, <2>2, <1>16
    DEF CancelUpstream, Cancel, Careful, OneBusy, Settlement, Refunding,
        Released, Reserved, Taken, SettlePcs, Created, Named, Submitted,
        Captured, Past, Billing, Unsubmitted
<1>17. CASE CancelTransition
  <2>1. \/ job' = job
        \/ /\ CanTransition(job.status, "cancelled")
           /\ job' = [job EXCEPT !.status = "cancelled"]
    BY <1>17
    DEF CancelTransition, Transition, Write
  <2>2. job' = job \/ Moved("cancelled")
    BY <2>1, TransitionMoves, StatusNames DEF Shape
  <2>3. Exhausted' <=> Exhausted
    BY <2>2 DEF Moved, Exhausted
  <2>4. UNCHANGED ledger
    BY <1>17
    DEF CancelTransition, Transition, Write
  <2>5. /\ can' \in {"idle", "release"}
        /\ can' = "release" => job' = [job EXCEPT !.status = "cancelled"]
        /\ UNCHANGED <<sub, rec, work>>
    BY <1>17
    DEF CancelTransition, Transition, Write, Cancel
  <2>6. can' = "release" => job'.status = "cancelled"
    BY <2>5 DEF Shape, Jobs
  <2> QED
    BY <2>2, <2>3, <2>4, <2>5, <2>6
    DEF Moved, CanTransition, Terminal, Careful, OneBusy, Settlement,
        Refunding, Released, Reserved, Taken, SettlePcs, Created, Named,
        Submitted, Captured, Past, Billing, Unsubmitted
<1>18. CASE CancelRelease
  <2>1. UNCHANGED job /\ (Exhausted' <=> Exhausted)
    BY <1>18
    DEF CancelRelease, Pay, Exhausted
  <2>2. \/ ledger' = ledger
        \/ ledger'.claims = ledger.claims \cup {"release"}
    BY <1>18, ReleaseEffect DEF CancelRelease, Pay, Shape
  <2>3. /\ can = "release"
        /\ can' \in {"idle", "enqueue"}
        /\ UNCHANGED <<sub, rec, work>>
    BY <1>18
    DEF CancelRelease, Pay, Cancel
  <2> QED
    BY <2>1, <2>2, <2>3
    DEF Careful, OneBusy, Settlement, Refunding, Released, Reserved, Taken,
        SettlePcs, Created, Named, Submitted, Captured, Past, Billing,
        Unsubmitted
<1>19. CASE CancelEnqueue
  <2>1. UNCHANGED job /\ (Exhausted' <=> Exhausted)
    BY <1>19
    DEF CancelEnqueue, Enqueue, Exhausted
  <2>2. UNCHANGED ledger
    BY <1>19
    DEF CancelEnqueue, Enqueue
  <2> QED
    BY <2>1, <2>2, <1>19
    DEF CancelEnqueue, Enqueue, Careful, OneBusy, Settlement, Refunding,
        Released, Reserved, Taken, SettlePcs, Created, Named, Submitted,
        Captured, Past, Billing, Unsubmitted
<1>20. CASE CancelCrash
  <2>1. UNCHANGED job /\ (Exhausted' <=> Exhausted)
    BY <1>20
    DEF CancelCrash, Exhausted
  <2>2. UNCHANGED ledger
    BY <1>20
    DEF CancelCrash
  <2> QED
    BY <2>1, <2>2, <1>20
    DEF CancelCrash, Cancel, Careful, OneBusy, Settlement, Refunding,
        Released, Reserved, Taken, SettlePcs, Created, Named, Submitted,
        Captured, Past, Billing, Unsubmitted
<1>21. CASE StaleAfterPasses
  <2>1. UNCHANGED job /\ (Exhausted' <=> Exhausted)
    BY <1>21
    DEF StaleAfterPasses, Exhausted
  <2>2. UNCHANGED ledger
    BY <1>21
    DEF StaleAfterPasses
  <2> QED
    BY <2>1, <2>2, <1>21
    DEF StaleAfterPasses, Careful, OneBusy, Settlement, Refunding, Released,
        Reserved, Taken, SettlePcs, Created, Named, Submitted, Captured,
        Past, Billing, Unsubmitted
<1>22. CASE FailStaleUnsubmittedBatchImageJob
  <2>1. \/ job' = job
        \/ /\ CanTransition(job.status, "failed")
           /\ job' = [job EXCEPT !.status = "failed"]
    BY <1>22
    DEF FailStaleUnsubmittedBatchImageJob, Write, Stale, Unsubmitted,
        CanTransition, Terminal
  <2>2. job' = job \/ Moved("failed")
    BY <2>1, TransitionMoves, StatusNames DEF Shape
  <2>3. Exhausted' <=> Exhausted
    BY <2>2 DEF Moved, Exhausted
  <2>4. UNCHANGED ledger
    BY <1>22
    DEF FailStaleUnsubmittedBatchImageJob, Write
  <2>5. /\ job.status \in Unsubmitted
        /\ rec' \in {"idle", "release"}
        /\ rec' = "release" => job' = [job EXCEPT !.status = "failed"]
        /\ UNCHANGED <<sub, can, work>>
    BY <1>22
    DEF FailStaleUnsubmittedBatchImageJob, Write, Recover, Stale
  <2>6. rec' = "release" => job'.status = "failed"
    BY <2>5 DEF Shape, Jobs
  <2> QED
    BY <2>2, <2>3, <2>4, <2>5, <2>6
    DEF Moved, CanTransition, Terminal, Careful, OneBusy, Settlement,
        Refunding, Released, Reserved, Taken, SettlePcs, Created, Named,
        Submitted, Captured, Past, Billing, Unsubmitted
<1>23. CASE RecoveryRelease
  <2>1. UNCHANGED job /\ (Exhausted' <=> Exhausted)
    BY <1>23
    DEF RecoveryRelease, Pay, Exhausted
  <2>2. \/ ledger' = ledger
        \/ ledger'.claims = ledger.claims \cup {"release"}
    BY <1>23, ReleaseEffect DEF RecoveryRelease, Pay, Shape
  <2>3. /\ rec = "release"
        /\ rec' \in {"idle", "enqueue"}
        /\ UNCHANGED <<sub, can, work>>
    BY <1>23
    DEF RecoveryRelease, Pay, Recover
  <2> QED
    BY <2>1, <2>2, <2>3
    DEF Careful, OneBusy, Settlement, Refunding, Released, Reserved, Taken,
        SettlePcs, Created, Named, Submitted, Captured, Past, Billing,
        Unsubmitted
<1>24. CASE RecoveryEnqueue
  <2>1. UNCHANGED job /\ (Exhausted' <=> Exhausted)
    BY <1>24
    DEF RecoveryEnqueue, Enqueue, Exhausted
  <2>2. UNCHANGED ledger
    BY <1>24
    DEF RecoveryEnqueue, Enqueue
  <2> QED
    BY <2>1, <2>2, <1>24
    DEF RecoveryEnqueue, Enqueue, Careful, OneBusy, Settlement, Refunding,
        Released, Reserved, Taken, SettlePcs, Created, Named, Submitted,
        Captured, Past, Billing, Unsubmitted
<1>25. CASE RecoveryCrash
  <2>1. UNCHANGED job /\ (Exhausted' <=> Exhausted)
    BY <1>25
    DEF RecoveryCrash, Exhausted
  <2>2. UNCHANGED ledger
    BY <1>25
    DEF RecoveryCrash
  <2> QED
    BY <2>1, <2>2, <1>25
    DEF RecoveryCrash, Recover, Careful, OneBusy, Settlement, Refunding,
        Released, Reserved, Taken, SettlePcs, Created, Named, Submitted,
        Captured, Past, Billing, Unsubmitted
<1>26. ASSUME NEW w \in Workers,
            ReserveAndRead(w) \/ WorkerStep(w) \/ WorkerCrash(w)
      PROVE Careful'
  <2>1. CASE ReserveAndRead(w)
    <3>1. UNCHANGED job /\ (Exhausted' <=> Exhausted)
      BY <2>1
      DEF ReserveAndRead, Exhausted
    <3>2. UNCHANGED ledger
      BY <2>1
      DEF ReserveAndRead
    <3>3. \A v \in Workers : v # w => work'[v] = "idle"
      BY <1>0, <2>1 DEF ReserveAndRead, Work, Shape
    <3>4. /\ work'[w] \in {"settle", "process"}
          /\ UNCHANGED <<sub, can, rec>>
      BY <2>1
      DEF ReserveAndRead, Work, Leave, Ack, Requeue, Shape
    <3> QED
      BY <3>1, <3>2, <3>3, <3>4
      DEF Careful, OneBusy, Settlement, Refunding, Released, Reserved,
          Taken, SettlePcs, Created, Named, Submitted, Captured, Past,
          Billing, Unsubmitted
  <2>2. CASE Process(w)
    <3>1. UNCHANGED job /\ (Exhausted' <=> Exhausted)
      BY <2>2
      DEF Process, Exhausted
    <3>2. UNCHANGED ledger
      BY <2>2
      DEF Process
    <3>3. \A v \in Workers : v # w => work'[v] = "idle"
      BY <2>2
      DEF Process, Work, Leave, Ack, Requeue, Careful, OneBusy, Shape
    <3>4. /\ work'[w] \in {"idle", "releaseTerminal", "index", "poll"}
          /\ work'[w] = "releaseTerminal"
               => job.status \in {"failed", "cancelled"}
          /\ UNCHANGED <<sub, can, rec>>
      BY <2>2
      DEF Process, Work, Leave, Ack, Requeue, Shape
    <3> QED
      BY <3>1, <3>2, <3>3, <3>4
      DEF Careful, OneBusy, Settlement, Refunding, Released, Reserved,
          Taken, SettlePcs, Created, Named, Submitted, Captured, Past,
          Billing, Unsubmitted
  <2>3. CASE Poll(w)
    <3>1. UNCHANGED job /\ (Exhausted' <=> Exhausted)
      BY <2>3
      DEF Poll, Exhausted
    <3>2. UNCHANGED ledger
      BY <2>3
      DEF Poll
    <3>3. \A v \in Workers : v # w => work'[v] = "idle"
      BY <2>3
      DEF Poll, Work, Leave, Ack, Requeue, Careful, OneBusy, Shape
    <3>4. /\ work'[w] \in {"idle", "toRunning", "toIndexing", "toFailed",
                           "toCancelled"}
          /\ UNCHANGED <<sub, can, rec>>
      BY <2>3
      DEF Poll, Work, Leave, Ack, Requeue, Shape
    <3> QED
      BY <3>1, <3>2, <3>3, <3>4
      DEF Careful, OneBusy, Settlement, Refunding, Released, Reserved,
          Taken, SettlePcs, Created, Named, Submitted, Captured, Past,
          Billing, Unsubmitted
  <2>4. CASE PollFails(w)
    <3>1. UNCHANGED job /\ (Exhausted' <=> Exhausted)
      BY <2>4
      DEF PollFails, Exhausted
    <3>2. UNCHANGED ledger
      BY <2>4
      DEF PollFails
    <3>3. \A v \in Workers : v # w => work'[v] = "idle"
      BY <2>4
      DEF PollFails, Work, Leave, Ack, Requeue, Careful, OneBusy, Shape
    <3>4. /\ work'[w] = "idle"
          /\ UNCHANGED <<sub, can, rec>>
      BY <2>4
      DEF PollFails, Work, Leave, Ack, Requeue, Shape
    <3> QED
      BY <3>1, <3>2, <3>3, <3>4
      DEF Careful, OneBusy, Settlement, Refunding, Released, Reserved,
          Taken, SettlePcs, Created, Named, Submitted, Captured, Past,
          Billing, Unsubmitted
  <2>5. CASE ToRunning(w)
    <3>1. \/ job' = job
          \/ /\ CanTransition(job.status, "running")
             /\ job' = [job EXCEPT !.status = "running"]
      BY <2>5
      DEF ToRunning, Transition, Write
    <3>2. job' = job \/ Moved("running")
      BY <3>1, TransitionMoves, StatusNames DEF Shape
    <3>3. Exhausted' <=> Exhausted
      BY <3>2 DEF Moved, Exhausted
    <3>4. UNCHANGED ledger
      BY <2>5
      DEF ToRunning, Transition, Write
    <3>5. \A v \in Workers : v # w => work'[v] = "idle"
      BY <2>5
      DEF ToRunning, Transition, Write, Work, Leave, Ack, Requeue, Careful,
          OneBusy, Shape
    <3>6. /\ work'[w] = "idle"
          /\ UNCHANGED <<sub, can, rec>>
      BY <2>5
      DEF ToRunning, Transition, Write, Work, Leave, Ack, Requeue, Shape
    <3> QED
      BY <3>2, <3>3, <3>4, <3>5, <3>6
      DEF Moved, CanTransition, Terminal, Careful, OneBusy, Settlement,
          Refunding, Released, Reserved, Taken, SettlePcs, Created, Named,
          Submitted, Captured, Past, Billing, Unsubmitted
  <2>6. CASE ToIndexing(w)
    <3>1. \/ job' = job
          \/ /\ CanTransition(job.status, "indexing")
             /\ job' = [job EXCEPT !.status = "indexing"]
      BY <2>6
      DEF ToIndexing, Transition, Write
    <3>2. job' = job \/ Moved("indexing")
      BY <3>1, TransitionMoves, StatusNames DEF Shape
    <3>3. Exhausted' <=> Exhausted
      BY <3>2 DEF Moved, Exhausted
    <3>4. UNCHANGED ledger
      BY <2>6
      DEF ToIndexing, Transition, Write
    <3>5. \A v \in Workers : v # w => work'[v] = "idle"
      BY <2>6
      DEF ToIndexing, Transition, Write, Work, Leave, Ack, Requeue, Careful,
          OneBusy, Shape
    <3>6. /\ work'[w] \in {"idle", "index"}
          /\ UNCHANGED <<sub, can, rec>>
      BY <2>6
      DEF ToIndexing, Transition, Write, Work, Leave, Ack, Requeue, Shape
    <3> QED
      BY <3>2, <3>3, <3>4, <3>5, <3>6
      DEF Moved, CanTransition, Terminal, Careful, OneBusy, Settlement,
          Refunding, Released, Reserved, Taken, SettlePcs, Created, Named,
          Submitted, Captured, Past, Billing, Unsubmitted
  <2>7. CASE Index(w)
    <3>1. \/ job' = job
          \/ /\ job.status = "indexing"
             /\ \E c \in Costs : job' = [job EXCEPT !.cost = c]
      BY <2>7 DEF Index, Write
    <3>2. /\ job'.status = job.status /\ job'.named = job.named
          /\ job'.retries = job.retries
          /\ job'.settlementError = job.settlementError
          /\ job.status # "indexing" => job'.cost = job.cost
      BY <3>1, CostWritten DEF Shape
    <3>3. Exhausted' <=> Exhausted
      BY <3>2 DEF Exhausted
    <3>4. UNCHANGED ledger
      BY <2>7
      DEF Index, Write
    <3>5. \A v \in Workers : v # w => work'[v] = "idle"
      BY <2>7
      DEF Index, Write, Work, Leave, Ack, Requeue, Careful, OneBusy, Shape
    <3>6. /\ work'[w] \in {"idle", "toSettling", "toFailed"}
          /\ UNCHANGED <<sub, can, rec>>
      BY <2>7
      DEF Index, Write, Work, Leave, Ack, Requeue, Shape
    <3> QED
      BY <3>2, <3>3, <3>4, <3>5, <3>6
      DEF Careful, OneBusy, Settlement, Refunding, Released, Reserved,
          Taken, SettlePcs, Created, Named, Submitted, Captured, Past,
          Billing, Unsubmitted
  <2>8. CASE ToSettling(w)
    <3>1. \/ job' = job
          \/ /\ CanTransition(job.status, "settling")
             /\ job' = [job EXCEPT !.status = "settling"]
      BY <2>8
      DEF ToSettling, Transition, Write
    <3>2. job' = job \/ Moved("settling")
      BY <3>1, TransitionMoves, StatusNames DEF Shape
    <3>3. Exhausted' <=> Exhausted
      BY <3>2 DEF Moved, Exhausted
    <3>4. UNCHANGED ledger
      BY <2>8
      DEF ToSettling, Transition, Write
    <3>5. \A v \in Workers : v # w => work'[v] = "idle"
      BY <2>8
      DEF ToSettling, Transition, Write, Work, Leave, Ack, Requeue, Careful,
          OneBusy, Shape
    <3>6. /\ work'[w] = "idle"
          /\ UNCHANGED <<sub, can, rec>>
      BY <2>8
      DEF ToSettling, Transition, Write, Work, Leave, Ack, Requeue, Shape
    <3> QED
      BY <3>2, <3>3, <3>4, <3>5, <3>6
      DEF Moved, CanTransition, Terminal, Careful, OneBusy, Settlement,
          Refunding, Released, Reserved, Taken, SettlePcs, Created, Named,
          Submitted, Captured, Past, Billing, Unsubmitted
  <2>9. CASE ToFailed(w)
    <3>1. \/ job' = job
          \/ /\ CanTransition(job.status, "failed")
             /\ job' = [job EXCEPT !.status = "failed"]
      BY <2>9
      DEF ToFailed, Transition, Write
    <3>2. job' = job \/ Moved("failed")
      BY <3>1, TransitionMoves, StatusNames DEF Shape
    <3>3. Exhausted' <=> Exhausted
      BY <3>2 DEF Moved, Exhausted
    <3>4. UNCHANGED ledger
      BY <2>9
      DEF ToFailed, Transition, Write
    <3>5. \A v \in Workers : v # w => work'[v] = "idle"
      BY <2>9
      DEF ToFailed, Transition, Write, Work, Leave, Ack, Requeue, Careful,
          OneBusy, Shape
    <3>6. /\ work'[w] \in {"idle", "releaseTerminal"}
          /\ work'[w] = "releaseTerminal"
             => job' = [job EXCEPT !.status = "failed"]
          /\ UNCHANGED <<sub, can, rec>>
      BY <2>9
      DEF ToFailed, Transition, Write, Work, Leave, Ack, Requeue, Shape
    <3>7. work'[w] = "releaseTerminal" => job'.status = "failed"
      BY <3>6 DEF Shape, Jobs
    <3> QED
      BY <3>2, <3>3, <3>4, <3>5, <3>6, <3>7
      DEF Moved, CanTransition, Terminal, Careful, OneBusy, Settlement,
          Refunding, Released, Reserved, Taken, SettlePcs, Created, Named,
          Submitted, Captured, Past, Billing, Unsubmitted
  <2>10. CASE ToCancelled(w)
    <3>1. \/ job' = job
          \/ /\ CanTransition(job.status, "cancelled")
             /\ job' = [job EXCEPT !.status = "cancelled"]
      BY <2>10
      DEF ToCancelled, Transition, Write
    <3>2. job' = job \/ Moved("cancelled")
      BY <3>1, TransitionMoves, StatusNames DEF Shape
    <3>3. Exhausted' <=> Exhausted
      BY <3>2 DEF Moved, Exhausted
    <3>4. UNCHANGED ledger
      BY <2>10
      DEF ToCancelled, Transition, Write
    <3>5. \A v \in Workers : v # w => work'[v] = "idle"
      BY <2>10
      DEF ToCancelled, Transition, Write, Work, Leave, Ack, Requeue,
          Careful, OneBusy, Shape
    <3>6. /\ work'[w] \in {"idle", "releaseTerminal"}
          /\ work'[w] = "releaseTerminal"
             => job' = [job EXCEPT !.status = "cancelled"]
          /\ UNCHANGED <<sub, can, rec>>
      BY <2>10
      DEF ToCancelled, Transition, Write, Work, Leave, Ack, Requeue, Shape
    <3>7. work'[w] = "releaseTerminal" => job'.status = "cancelled"
      BY <3>6 DEF Shape, Jobs
    <3> QED
      BY <3>2, <3>3, <3>4, <3>5, <3>6, <3>7
      DEF Moved, CanTransition, Terminal, Careful, OneBusy, Settlement,
          Refunding, Released, Reserved, Taken, SettlePcs, Created, Named,
          Submitted, Captured, Past, Billing, Unsubmitted
  <2>11. CASE ReleaseTerminalHold(w)
    <3>1. UNCHANGED job /\ (Exhausted' <=> Exhausted)
      BY <2>11
      DEF ReleaseTerminalHold, Pay, Exhausted
    <3>2. \/ ledger' = ledger
          \/ ledger'.claims = ledger.claims \cup {"release"}
      BY <2>11, ReleaseEffect DEF ReleaseTerminalHold, Pay, Shape
    <3>3. \A v \in Workers : v # w => work'[v] = "idle"
      BY <2>11
      DEF ReleaseTerminalHold, Pay, Work, Leave, Ack, Requeue, Careful,
          OneBusy, Shape
    <3>4. /\ work[w] = "releaseTerminal"
          /\ work'[w] = "idle"
          /\ UNCHANGED <<sub, can, rec>>
      BY <2>11
      DEF ReleaseTerminalHold, Pay, Work, Leave, Ack, Requeue, Shape
    <3> QED
      BY <3>1, <3>2, <3>3, <3>4
      DEF Careful, OneBusy, Settlement, Refunding, Released, Reserved,
          Taken, SettlePcs, Created, Named, Submitted, Captured, Past,
          Billing, Unsubmitted
  <2>12. CASE Settle(w)
    <3>1. UNCHANGED job /\ (Exhausted' <=> Exhausted)
      BY <2>12
      DEF Settle, Exhausted
    <3>2. UNCHANGED ledger
      BY <2>12
      DEF Settle
    <3>3. \A v \in Workers : v # w => work'[v] = "idle"
      BY <2>12
      DEF Settle, Work, Leave, Ack, Requeue, Careful, OneBusy, Shape
    <3>4. /\ work'[w] \in {"idle", "capture", "release"}
          /\ work'[w] # "idle" => job.status = "settling"
          /\ work'[w] = "capture" => ~Exhausted
          /\ work'[w] = "release" => Exhausted
          /\ UNCHANGED <<sub, can, rec>>
      BY <2>12
      DEF Settle, Work, Leave, Ack, Requeue, Shape
    <3> QED
      BY <3>1, <3>2, <3>3, <3>4
      DEF Careful, OneBusy, Settlement, Refunding, Released, Reserved,
          Taken, SettlePcs, Created, Named, Submitted, Captured, Past,
          Billing, Unsubmitted
  <2>13. CASE CaptureBatchImageBalance(w)
    <3>1. UNCHANGED job /\ (Exhausted' <=> Exhausted)
      BY <2>13
      DEF CaptureBatchImageBalance, Pay, Exhausted
    <3>2. \/ ledger' = ledger /\ work'[w] = "recordFailure"
          \/ /\ ledger'.claims = ledger.claims \cup {"capture"}
             /\ ledger'.taken =
                  IF "capture" \in ledger.claims THEN ledger.taken
                  ELSE ledger.taken - (Hold - job.cost)
      BY <2>13, CaptureEffect, CostBounded
      DEF CaptureBatchImageBalance, Pay, Work, Shape
    <3>3. \A v \in Workers : v # w => work'[v] = "idle"
      BY <2>13
      DEF CaptureBatchImageBalance, Pay, Work, Leave, Ack, Requeue, Careful,
          OneBusy, Shape
    <3>4. /\ work[w] = "capture"
          /\ work'[w] \in {"mark", "recordFailure"}
          /\ work'[w] = "mark" => "capture" \in ledger'.claims
          /\ UNCHANGED <<sub, can, rec>>
      BY <2>13, <3>2
      DEF CaptureBatchImageBalance, Pay, Work, Leave, Ack, Requeue, Shape
    <3> QED
      BY <3>1, <3>2, <3>3, <3>4, CostBounded, LedgerFields, HoldAssumption
      DEF Careful, OneBusy, Settlement, Refunding, Released, Reserved,
          Taken, SettlePcs, Created, Named, Submitted, Captured, Past,
          Billing, Unsubmitted, Shape
  <2>14. CASE MarkBatchImageJobSettled(w)
    <3>1. \/ job' = job
          \/ /\ CanTransition(job.status, "completed")
             /\ job' = [job EXCEPT !.status = "completed"]
      BY <2>14
      DEF MarkBatchImageJobSettled, Write, CanTransition, Terminal
    <3>2. job' = job \/ Moved("completed")
      BY <3>1, TransitionMoves, StatusNames DEF Shape
    <3>3. Exhausted' <=> Exhausted
      BY <3>2 DEF Moved, Exhausted
    <3>4. UNCHANGED ledger
      BY <2>14
      DEF MarkBatchImageJobSettled, Write
    <3>5. \A v \in Workers : v # w => work'[v] = "idle"
      BY <2>14
      DEF MarkBatchImageJobSettled, Write, Work, Leave, Ack, Requeue,
          Careful, OneBusy, Shape
    <3>6. /\ work'[w] = "idle"
          /\ "capture" \in ledger.claims
          /\ ~Exhausted
          /\ UNCHANGED <<sub, can, rec>>
      BY <2>14
      DEF MarkBatchImageJobSettled, Write, Work, Leave, Ack, Requeue, Shape,
          Careful, Settlement
    <3> QED
      BY <3>2, <3>3, <3>4, <3>5, <3>6
      DEF Moved, CanTransition, Terminal, Careful, OneBusy, Settlement,
          Refunding, Released, Reserved, Taken, SettlePcs, Created, Named,
          Submitted, Captured, Past, Billing, Unsubmitted
  <2>15. CASE RecordSettlementFailure(w)
    <3>1. job' = job \/ job' = SettlementFailed
      BY <2>15 DEF RecordSettlementFailure, Write
    <3>2. /\ job'.status = job.status /\ job'.named = job.named
          /\ job'.cost = job.cost
      BY <3>1, SettlementFailureWritten DEF Shape
    <3>3. Exhausted => Exhausted'
      BY <3>1, SettlementFailureWritten, JobAssumption DEF Shape, Jobs, Exhausted
    <3>4. UNCHANGED ledger
      BY <2>15
      DEF RecordSettlementFailure, Write
    <3>5. \A v \in Workers : v # w => work'[v] = "idle"
      BY <2>15
      DEF RecordSettlementFailure, Write, Work, Leave, Ack, Requeue,
          Careful, OneBusy, Shape
    <3>6. /\ work[w] = "recordFailure"
          /\ work'[w] \in {"idle", "release"}
          /\ work'[w] = "release" => Exhausted'
          /\ UNCHANGED <<sub, can, rec>>
      BY <2>15, SettlementFailureWritten
      DEF RecordSettlementFailure, Write, Work, Leave, Ack, Requeue, Shape,
          Exhausted
    <3> QED
      BY <3>2, <3>3, <3>4, <3>5, <3>6
      DEF Careful, OneBusy, Settlement, Refunding, Released, Reserved,
          Taken, SettlePcs, Created, Named, Submitted, Captured, Past,
          Billing, Unsubmitted
  <2>16. CASE ReleaseExhausted(w)
    <3>1. UNCHANGED job /\ (Exhausted' <=> Exhausted)
      BY <2>16
      DEF ReleaseExhausted, Pay, Exhausted
    <3>2. \/ ledger' = ledger
          \/ ledger'.claims = ledger.claims \cup {"release"}
      BY <2>16, ReleaseEffect DEF ReleaseExhausted, Pay, Shape
    <3>3. \A v \in Workers : v # w => work'[v] = "idle"
      BY <2>16
      DEF ReleaseExhausted, Pay, Work, Leave, Ack, Requeue, Careful,
          OneBusy, Shape
    <3>4. /\ work[w] = "release"
          /\ work'[w] \in {"toFailedExhausted", "recordRelease"}
          /\ UNCHANGED <<sub, can, rec>>
      BY <2>16
      DEF ReleaseExhausted, Pay, Work, Leave, Ack, Requeue, Shape
    <3> QED
      BY <3>1, <3>2, <3>3, <3>4
      DEF Careful, OneBusy, Settlement, Refunding, Released, Reserved,
          Taken, SettlePcs, Created, Named, Submitted, Captured, Past,
          Billing, Unsubmitted
  <2>17. CASE RecordReleaseFailure(w)
    <3>1. job' = job \/ job' = SettlementFailed
      BY <2>17 DEF RecordReleaseFailure, Write
    <3>2. /\ job'.status = job.status /\ job'.named = job.named
          /\ job'.cost = job.cost
      BY <3>1, SettlementFailureWritten DEF Shape
    <3>3. Exhausted => Exhausted'
      BY <3>1, SettlementFailureWritten, JobAssumption DEF Shape, Jobs, Exhausted
    <3>4. UNCHANGED ledger
      BY <2>17
      DEF RecordReleaseFailure, Write
    <3>5. \A v \in Workers : v # w => work'[v] = "idle"
      BY <2>17
      DEF RecordReleaseFailure, Write, Work, Leave, Ack, Requeue, Careful,
          OneBusy, Shape
    <3>6. /\ work[w] = "recordRelease"
          /\ work'[w] = "recheck"
          /\ UNCHANGED <<sub, can, rec>>
      BY <2>17
      DEF RecordReleaseFailure, Write, Work, Leave, Ack, Requeue, Shape
    <3> QED
      BY <3>2, <3>3, <3>4, <3>5, <3>6
      DEF Careful, OneBusy, Settlement, Refunding, Released, Reserved,
          Taken, SettlePcs, Created, Named, Submitted, Captured, Past,
          Billing, Unsubmitted
  <2>18. CASE ToFailedExhausted(w)
    <3>1. \/ job' = job
          \/ /\ CanTransition(job.status, "failed")
             /\ job' = [job EXCEPT !.status = "failed"]
      BY <2>18
      DEF ToFailedExhausted, Transition, Write
    <3>2. job' = job \/ Moved("failed")
      BY <3>1, TransitionMoves, StatusNames DEF Shape
    <3>3. Exhausted' <=> Exhausted
      BY <3>2 DEF Moved, Exhausted
    <3>4. UNCHANGED ledger
      BY <2>18
      DEF ToFailedExhausted, Transition, Write
    <3>5. \A v \in Workers : v # w => work'[v] = "idle"
      BY <2>18
      DEF ToFailedExhausted, Transition, Write, Work, Leave, Ack, Requeue,
          Careful, OneBusy, Shape
    <3>6. /\ work'[w] \in {"idle", "recheck"}
          /\ UNCHANGED <<sub, can, rec>>
      BY <2>18
      DEF ToFailedExhausted, Transition, Write, Work, Leave, Ack, Requeue,
          Shape
    <3> QED
      BY <3>2, <3>3, <3>4, <3>5, <3>6
      DEF Moved, CanTransition, Terminal, Careful, OneBusy, Settlement,
          Refunding, Released, Reserved, Taken, SettlePcs, Created, Named,
          Submitted, Captured, Past, Billing, Unsubmitted
  <2>19. CASE Recheck(w)
    <3>1. UNCHANGED job /\ (Exhausted' <=> Exhausted)
      BY <2>19
      DEF Recheck, Exhausted
    <3>2. UNCHANGED ledger
      BY <2>19
      DEF Recheck
    <3>3. \A v \in Workers : v # w => work'[v] = "idle"
      BY <2>19
      DEF Recheck, Work, Leave, Ack, Requeue, Careful, OneBusy, Shape
    <3>4. /\ work'[w] = "idle"
          /\ UNCHANGED <<sub, can, rec>>
      BY <2>19
      DEF Recheck, Work, Leave, Ack, Requeue, Shape
    <3> QED
      BY <3>1, <3>2, <3>3, <3>4
      DEF Careful, OneBusy, Settlement, Refunding, Released, Reserved,
          Taken, SettlePcs, Created, Named, Submitted, Captured, Past,
          Billing, Unsubmitted
  <2>20. CASE WorkerCrash(w)
    <3>1. UNCHANGED job /\ (Exhausted' <=> Exhausted)
      BY <2>20
      DEF WorkerCrash, Exhausted
    <3>2. UNCHANGED ledger
      BY <2>20
      DEF WorkerCrash
    <3>3. \A v \in Workers : v # w => work'[v] = "idle"
      BY <2>20
      DEF WorkerCrash, Work, Leave, Ack, Requeue, Careful, OneBusy, Shape
    <3>4. /\ work'[w] = "idle"
          /\ UNCHANGED <<sub, can, rec>>
      BY <2>20
      DEF WorkerCrash, Work, Leave, Ack, Requeue, Shape
    <3> QED
      BY <3>1, <3>2, <3>3, <3>4
      DEF Careful, OneBusy, Settlement, Refunding, Released, Reserved,
          Taken, SettlePcs, Created, Named, Submitted, Captured, Past,
          Billing, Unsubmitted
  <2> QED BY <2>1, <2>2, <2>3, <2>4, <2>5, <2>6, <2>7, <2>8, <2>9, <2>10,
         <2>11, <2>12, <2>13, <2>14, <2>15, <2>16, <2>17, <2>18, <2>19,
         <2>20, <1>26 DEF WorkerStep
<1>27. CASE UpstreamEnds
  <2>1. UNCHANGED job /\ (Exhausted' <=> Exhausted)
    BY <1>27
    DEF UpstreamEnds, Exhausted
  <2>2. UNCHANGED ledger
    BY <1>27
    DEF UpstreamEnds
  <2> QED
    BY <2>1, <2>2, <1>27
    DEF UpstreamEnds, Careful, OneBusy, Settlement, Refunding, Released,
        Reserved, Taken, SettlePcs, Created, Named, Submitted, Captured,
        Past, Billing, Unsubmitted
<1>28. CASE OtherBatches
  <2>1. UNCHANGED job /\ (Exhausted' <=> Exhausted)
    BY <1>28
    DEF OtherBatches, Exhausted
  <2>2. ledger'.claims = ledger.claims /\ ledger'.taken = ledger.taken
    BY <1>28 DEF OtherBatches, Shape, Ledgers
  <2> QED
    BY <2>1, <2>2, <1>28
    DEF OtherBatches, Careful, OneBusy, Settlement, Refunding, Released,
        Reserved, Taken, SettlePcs, Created, Named, Submitted, Captured,
        Past, Billing, Unsubmitted
<1>29. CASE UNCHANGED vars
  BY <1>29 DEF vars, Careful, OneBusy, Settlement, Refunding, Released,
     Reserved, Taken, Exhausted
<1> QED BY <1>1, <1>2, <1>3, <1>4, <1>5, <1>6, <1>7, <1>8, <1>9, <1>10,
       <1>11, <1>12, <1>13, <1>14, <1>15, <1>16, <1>17, <1>18, <1>19, <1>20,
       <1>21, <1>22, <1>23, <1>24, <1>25, <1>26, <1>27, <1>28, <1>29
   DEF Next, SubmitNext, SubmitSteps, CancelNext, RecoveryNext, WorkerNext

\* The inductive invariant of a batch.
LEMMA CarefulInvariance == Spec => [](Base /\ (Undisturbed => Careful))
<1>1. Init => Base /\ (Undisturbed => Careful)
  BY BaseInit, CarefulInit
<1>2. Base /\ (Undisturbed => Careful) /\ [Next]_vars
        => (Base /\ (Undisturbed => Careful))'
  BY BaseStep, CarefulStep, UndisturbedBefore
<1> QED BY <1>1, <1>2, PTL DEF Spec

\* While the job lock and the queue work, a completed batch has taken exactly
\* the cost of its result, whatever fails and however often: MarkSettled
\* follows a capture that no release preceded.
THEOREM SettledCharged == Spec => []SettledIsCharged
<1>1. Base /\ (Undisturbed => Careful) => SettledIsCharged
  BY DEF Base, Careful, Released, Reserved, Taken, Unsubmitted, Undisturbed,
      SettledIsCharged
<1> QED BY <1>1, CarefulInvariance, PTL

\* While the job lock and the queue work, no process submits, indexes or
\* completes a batch whose hold was given back.
THEOREM RefundedStays == Spec => []RefundedNeverProceeds
<1>1. Base /\ (Undisturbed => Careful) => RefundedNeverProceeds
  BY DEF Careful, Released, Unsubmitted, Undisturbed, RefundedNeverProceeds
<1> QED BY <1>1, CarefulInvariance, PTL
-----------------------------------------------------------------------------
(* The pool of frozen money                                                *)

\* What SettledIsCharged does not need and the pool does: no release comes
\* before the reservation, and settlement never gives a hold back.
Clear ==
    /\ Spared({"lockExpires", "earlyCancel", "pause"})
    /\ job.retries < MaxRetries

\* The worker's step matches the row, and settlement is never given up.
Working ==
    \A w \in Workers :
        /\ work[w] \in {"capture", "mark", "recordFailure"}
             => job.status = "settling"
        /\ work[w] \in {"poll", "toRunning", "toIndexing", "index",
                        "toSettling", "toFailed", "toCancelled"}
             => job.status \notin {"settling", "completed"}
        /\ work[w] \notin {"release", "recordRelease", "toFailedExhausted"}

\* A hold is given back only of a batch that has failed, was cancelled or
\* whose submission is ending; a charge comes with settlement only.
Resolved ==
    /\ "release" \in ledger.claims =>
         \/ job.status \in {"failed", "cancelled"}
         \/ /\ job.status \in Unsubmitted
            /\ sub \in {"release", "giveUp", "record", "recordRelease",
                        "enqueueRetry", "done"}
    /\ "capture" \in ledger.claims => job.status \in {"settling", "completed"}

\* A batch that goes on has its hold, a charged batch too.
HasHold ==
    /\ job.named => "hold" \in ledger.claims
    /\ sub \in {"items", "upload", "provider", "update"}
         => "hold" \in ledger.claims
    /\ "capture" \in ledger.claims => "hold" \in ledger.claims

\* Until the reservation nobody but Submit knows the batch.
Unknown ==
    sub \in {"idle", "reserve"} =>
        /\ ledger.claims = {}
        /\ can = "idle" /\ rec = "idle" /\ ~queued /\ ~aged
        /\ \A w \in Workers : work[w] = "idle"

\* The pool holds the other batches' money, and this one's while it is open.
Pool == ledger.frozen = others + (IF Open(ledger) THEN Hold ELSE 0)

Steady == OneBusy /\ Working /\ Refunding /\ Resolved /\ HasHold /\ Pool

\* Steady and Unknown hold of a batch that does not exist yet.
LEMMA SteadyInit == Init => Steady /\ Unknown
<1> SUFFICES ASSUME Init PROVE Steady /\ Unknown
  OBVIOUS
<1>1. Pool
  <2>1. ledger.frozen = others /\ ledger.claims # {"hold"}
    BY DEF Init
  <2>2. others \in Nat
    BY JobAssumption DEF Init
  <2> QED BY <2>1, <2>2 DEF Pool, Open
<1> QED
  BY <1>1
  DEF Init, Steady, Unknown, OneBusy, Working, Refunding, Resolved, HasHold

\* A first reservation fills the pool by what it opens.
LEMMA PoolReserved ==
    ASSUME ledger \in Ledgers, others \in OtherHolds, Pool, ledger.claims = {},
           others' = others,
           ledger' = ledger \/ ledger' = Reserve(ledger)
    PROVE  Pool' /\ (ledger' = Reserve(ledger) => ledger'.claims = {"hold"})
<1>0. Reserve(ledger).claims = {"hold"}
  BY ReserveEffect
<1>1. CASE ledger' = ledger
  BY <1>0, <1>1 DEF Pool
<1>2. CASE ledger' = Reserve(ledger)
  <2>1. ledger' = [frozen |-> ledger.frozen + Hold,
                   taken |-> ledger.taken + Hold, claims |-> {"hold"}]
    BY <1>2 DEF Reserve, Claim, Ledgers
  <2>2. ledger.frozen = others
    BY JobAssumption DEF Pool, Open
  <2> QED BY <2>1, <2>2 DEF Pool, Open
<1> QED BY <1>1, <1>2

\* A release of a batch that was not charged drains the pool by the hold it
\* closes, once.
LEMMA PoolReleased ==
    ASSUME ledger \in Ledgers, others \in OtherHolds, Pool,
           "capture" \notin ledger.claims,
           others' = others,
           ledger' = ledger \/ (CanRelease(ledger) /\ ledger' = Release(ledger))
    PROVE  /\ Pool'
           /\ \/ ledger' = ledger
              \/ ledger'.claims = ledger.claims \cup {"release"}
<1>1. CASE ledger' = ledger
  BY <1>1 DEF Pool
<1>2. CASE CanRelease(ledger) /\ ledger' = Release(ledger)
  <2>1. ledger'.claims = ledger.claims \cup {"release"}
    BY <1>2, ReleaseEffect
  <2>2. CASE "release" \in ledger.claims
    BY <1>1, <1>2, <2>2, ReleaseEffect
  <2>3. CASE "release" \notin ledger.claims /\ "hold" \notin ledger.claims
    <3>1. ledger'.frozen = ledger.frozen
      BY <1>2, <2>3 DEF Release, Claim, Ledgers
    <3>2. ~Open(ledger) /\ ~Open(ledger')
      BY <2>1, <2>3 DEF Open
    <3> QED BY <2>1, <3>1, <3>2 DEF Pool, Open
  <2>4. CASE "release" \notin ledger.claims /\ "hold" \in ledger.claims
    <3>1. ledger'.frozen = ledger.frozen - Hold
      BY <1>2, <2>4 DEF Release, Claim, Ledgers
    <3>2. ledger.claims = {"hold"} /\ ledger'.claims # {"hold"}
      BY <2>1, <2>4, LedgerFields DEF ClaimKinds
    <3> QED BY <2>1, <3>1, <3>2, JobAssumption, HoldAssumption DEF Pool, Open
  <2> QED BY <2>2, <2>3, <2>4
<1> QED BY <1>1, <1>2

\* A charge of a batch that has its hold drains the pool by it, once.
LEMMA PoolCaptured ==
    ASSUME ledger \in Ledgers, others \in OtherHolds, Pool, NEW c \in 0..Hold,
           "hold" \in ledger.claims, "release" \notin ledger.claims,
           others' = others,
           \/ ledger' = ledger
           \/ CanCapture(ledger) /\ ledger' = Capture(ledger, c)
    PROVE  /\ Pool'
           /\ \/ ledger' = ledger
              \/ ledger'.claims = ledger.claims \cup {"capture"}
<1>1. CASE ledger' = ledger
  BY <1>1 DEF Pool
<1>2. CASE CanCapture(ledger) /\ ledger' = Capture(ledger, c)
  <2>1. ledger'.claims = ledger.claims \cup {"capture"}
    BY <1>2, CaptureEffect
  <2>2. CASE "capture" \in ledger.claims
    BY <1>1, <1>2, <2>2 DEF Capture
  <2>3. CASE "capture" \notin ledger.claims
    <3>1. ledger'.frozen = ledger.frozen - Hold
      BY <1>2, <2>3 DEF Capture, Claim, Ledgers
    <3>2. ledger.claims = {"hold"} /\ ledger'.claims # {"hold"}
      BY <2>1, <2>3, LedgerFields DEF ClaimKinds
    <3> QED BY <2>1, <3>1, <3>2, JobAssumption, HoldAssumption DEF Pool, Open
  <2> QED BY <2>2, <2>3
<1> QED BY <1>1, <1>2

\* No step lowers the count of settlement failures.
LEMMA RetriesGrow == Base /\ [Next]_vars => job'.retries >= job.retries
<1> SUFFICES ASSUME Base, [Next]_vars PROVE job'.retries >= job.retries
  OBVIOUS
<1> DEFINE Failed(h) == [job EXCEPT !.status = "failed",
                                    !.settlementError = FALSE,
                                    !.hidden = @ \/ h]
<1>1. job \in Jobs
  BY DEF Base, Shape
<1>2. SubmitNext =>
        \/ job' = job
        \/ \E s \in Statuses : job' = [job EXCEPT !.status = s]
        \/ job' = [job EXCEPT !.status = "submitted", !.named = TRUE]
        \/ job' = [job EXCEPT !.settlementError = FALSE]
        \/ job' = Failed(sub = "record")
  BY StatusNames
  DEF SubmitNext, SubmitSteps, CreateBatchImageJob, ReserveBatchImageBalance,
      CreatePendingItems, StartUpload, TouchBatchImageJobSubmitting,
      ProviderSubmit, UpdateBatchImageJobProviderSubmit,
      AbortOrphanProviderJob, SubmitEnqueue, ReleaseFailedSubmitHold,
      RecordBatchImageJobSubmitFailure, SubmitEnqueueBillingRetry,
      SubmitCrash, Resubmit, Enqueue, Transition, Write, Pay
<1>3. CancelNext \/ RecoveryNext =>
        \/ job' = job
        \/ \E s \in Statuses : job' = [job EXCEPT !.status = s]
  BY StatusNames
  DEF CancelNext, CancelRead, CancelUpstream, CancelTransition, CancelRelease,
      CancelEnqueue, CancelCrash, RecoveryNext, StaleAfterPasses,
      FailStaleUnsubmittedBatchImageJob, RecoveryRelease, RecoveryEnqueue,
      RecoveryCrash, Enqueue, Transition, Write, Pay
<1>4. WorkerNext =>
        \/ job' = job
        \/ \E s \in Statuses : job' = [job EXCEPT !.status = s]
        \/ \E c \in Costs : job' = [job EXCEPT !.cost = c]
        \/ job' = SettlementFailed
  BY StatusNames
  DEF WorkerNext, ReserveAndRead, WorkerCrash, WorkerStep, Process, Poll,
      PollFails, ToRunning, ToIndexing, Index, ToSettling, ToFailed,
      ToCancelled, ReleaseTerminalHold, Settle, CaptureBatchImageBalance,
      MarkBatchImageJobSettled, RecordSettlementFailure, ReleaseExhausted,
      RecordReleaseFailure, ToFailedExhausted, Recheck, Transition, Write, Pay
<1>5. UpstreamEnds \/ OtherBatches \/ UNCHANGED vars => job' = job
  BY DEF UpstreamEnds, OtherBatches, vars
<1>6. \/ job'.retries = job.retries
      \/ job' = SettlementFailed
  BY <1>1, <1>2, <1>3, <1>4, <1>5 DEF Next, Jobs
<1>7. job.retries \in Nat
  BY <1>1, JobAssumption DEF Jobs
<1> QED BY <1>1, <1>6, <1>7, SettlementFailureWritten

\* What has spoiled the pool stays on record.
LEMMA ClearBefore == Base /\ Base' /\ [Next]_vars /\ Clear' => Clear
<1> SUFFICES ASSUME Base, Base', [Next]_vars, Clear' PROVE Clear
  OBVIOUS
<1>1. faults.kinds \subseteq faults'.kinds
  BY FaultsGrow DEF vars, Fault
<1>2. job.retries \in Int /\ job'.retries \in Int
  BY DEF Base, Shape, Jobs
<1> QED BY <1>1, <1>2, RetriesGrow, JobAssumption DEF Clear, Spared

\* Before the reservation no cancellation and no sweep sees the row, unless
\* the user is early or Submit slow.
LEMMA UnknownStep == Base /\ Unknown /\ [Next]_vars /\ Clear' => Unknown'
<1> SUFFICES ASSUME Base, Unknown, [Next]_vars, Clear',
                    sub' \in {"idle", "reserve"}
             PROVE  Unknown'
  BY DEF Unknown
<1>1. ~Fault("earlyCancel") /\ ~Fault("pause")
  BY DEF Fault, Clear, Spared
<1>2. CASE SubmitNext
  <2>1. CreateBatchImageJob
    BY <1>2
    DEF SubmitNext, SubmitSteps, ReserveBatchImageBalance, CreatePendingItems,
        StartUpload, TouchBatchImageJobSubmitting, ProviderSubmit,
        UpdateBatchImageJobProviderSubmit, AbortOrphanProviderJob,
        SubmitEnqueue, ReleaseFailedSubmitHold,
        RecordBatchImageJobSubmitFailure, SubmitEnqueueBillingRetry,
        SubmitCrash, Resubmit, Submit, Enqueue, Transition, Write, Pay
  <2> QED BY <2>1 DEF CreateBatchImageJob, Submit, Unknown
<1>3. CASE ~SubmitNext
  <2>1. sub' = sub
    BY <1>3
    DEF Next, vars, CancelNext, CancelRead, CancelUpstream, CancelTransition,
        CancelRelease, CancelEnqueue, CancelCrash, Cancel, RecoveryNext,
        StaleAfterPasses, FailStaleUnsubmittedBatchImageJob, RecoveryRelease,
        RecoveryEnqueue, RecoveryCrash, Recover, WorkerNext, ReserveAndRead,
        WorkerCrash, WorkerStep, Process, Poll, PollFails, ToRunning,
        ToIndexing, Index, ToSettling, ToFailed, ToCancelled,
        ReleaseTerminalHold, Settle, CaptureBatchImageBalance,
        MarkBatchImageJobSettled, RecordSettlementFailure, ReleaseExhausted,
        RecordReleaseFailure, ToFailedExhausted, Recheck, Work, Leave, Ack,
        Requeue, UpstreamEnds, OtherBatches, Enqueue, Transition, Write, Pay
  <2>2. /\ ledger.claims = {}
        /\ can = "idle" /\ rec = "idle" /\ ~queued /\ ~aged
        /\ \A w \in Workers : work[w] = "idle"
    BY <2>1 DEF Unknown
  <2>3. ~CancelNext
    BY <1>1, <2>1, <2>2
    DEF CancelNext, CancelRead, CancelUpstream, CancelTransition,
        CancelRelease, CancelEnqueue, CancelCrash, Base, Created
  <2>4. ~RecoveryNext
    BY <1>1, <2>1, <2>2
    DEF RecoveryNext, StaleAfterPasses, FailStaleUnsubmittedBatchImageJob,
        Stale, RecoveryRelease, RecoveryEnqueue, RecoveryCrash, Base, Created,
        Unsubmitted
  <2>5. ~WorkerNext
    BY <2>2
    DEF WorkerNext, ReserveAndRead, WorkerCrash, WorkerStep, Process, Poll,
        PollFails, ToRunning, ToIndexing, Index, ToSettling, ToFailed,
        ToCancelled, ReleaseTerminalHold, Settle, CaptureBatchImageBalance,
        MarkBatchImageJobSettled, RecordSettlementFailure, ReleaseExhausted,
        RecordReleaseFailure, ToFailedExhausted, Recheck
  <2>6. CASE UpstreamEnds \/ UNCHANGED vars
    BY <2>2, <2>6 DEF UpstreamEnds, vars, Unknown
  <2>7. CASE OtherBatches
    BY <2>2, <2>7 DEF OtherBatches, Base, Shape, Ledgers, Unknown
  <2> QED BY <1>3, <2>3, <2>4, <2>5, <2>6, <2>7 DEF Next
<1> QED BY <1>2, <1>3

\* Until something spoils the pool every step keeps Steady.
LEMMA SteadyStep ==
    Base /\ Base' /\ Steady /\ Unknown /\ [Next]_vars /\ Clear' => Steady'
<1> SUFFICES ASSUME Base, Base', Steady, Unknown, [Next]_vars, Clear'
             PROVE  Steady'
  OBVIOUS
<1> USE DEF Base
<1>0. ~Fault("lockExpires") /\ job'.retries < MaxRetries
  BY DEF Fault, Clear, Spared
<1>1. CASE CreateBatchImageJob
  <2>1. job.status = "none" /\ job'.status = "created"
        /\ job'.named = job.named
    BY <1>1, StatusWritten, StatusNames DEF CreateBatchImageJob, Shape, Created
  <2>2. UNCHANGED <<ledger, others>> /\ ledger.claims = {}
    BY <1>1 DEF CreateBatchImageJob, Unknown
  <2> QED
    BY <2>1, <2>2, <1>1
    DEF CreateBatchImageJob, Submit, Steady, OneBusy, Working, Refunding,
        Resolved, HasHold, Pool, Open, Named, Submitted, Past, Unsubmitted
<1>2. CASE ReserveBatchImageBalance
  <2>1. UNCHANGED <<job, others>> /\ ledger.claims = {}
    BY <1>2 DEF ReserveBatchImageBalance, Pay, Unknown
  <2>2. (ledger' = ledger /\ sub' = "record") \/ ledger' = Reserve(ledger)
    BY <1>2 DEF ReserveBatchImageBalance, Pay, Submit
  <2>3. /\ sub = "reserve"
        /\ sub' \in {"items", "record"}
        /\ UNCHANGED <<can, rec, work>>
    BY <1>2 DEF ReserveBatchImageBalance, Pay, Submit
  <2>4. /\ Pool'
        /\ \/ ledger' = ledger /\ sub' = "record"
           \/ ledger'.claims = {"hold"}
    BY <2>1, <2>2, PoolReserved DEF Steady, Shape
  <2> QED
    BY <2>1, <2>3, <2>4
    DEF Steady, OneBusy, Working, Refunding, Resolved, HasHold, Named,
        Submitted, Past, Unsubmitted
<1>3. CASE CreatePendingItems
  <2>1. UNCHANGED job
    BY <1>3 DEF CreatePendingItems
  <2>2. UNCHANGED <<ledger, others>>
    BY <1>3 DEF CreatePendingItems
  <2> QED
    BY <2>1, <2>2, <1>3
    DEF CreatePendingItems, Submit, Steady, OneBusy, Working, Refunding,
        Resolved, HasHold, Pool, Open, Named, Submitted, Past, Unsubmitted
<1>4. CASE StartUpload
  <2>1. \/ job' = job
        \/ /\ CanTransition(job.status, "uploading")
           /\ job' = [job EXCEPT !.status = "uploading"]
    BY <1>4 DEF StartUpload, Transition, Write
  <2>2. job' = job \/ Moved("uploading")
    BY <2>1, TransitionMoves, StatusNames DEF Shape
  <2>3. UNCHANGED <<ledger, others>>
    BY <1>4 DEF StartUpload, Transition, Write
  <2>4. /\ sub = "upload"
        /\ sub' \in {"provider", "giveUp", "release"}
        /\ UNCHANGED <<can, rec, work>>
    BY <1>4 DEF StartUpload, Transition, Write, Submit
  <2> QED
    BY <2>2, <2>3, <2>4
    DEF Moved, CanTransition, Terminal, Steady, OneBusy, Working, Refunding,
        Resolved, HasHold, Pool, Open, Named, Submitted, Past, Unsubmitted
<1>5. CASE TouchBatchImageJobSubmitting
  <2>1. UNCHANGED job
    BY <1>5 DEF TouchBatchImageJobSubmitting
  <2>2. UNCHANGED <<ledger, others>>
    BY <1>5 DEF TouchBatchImageJobSubmitting
  <2> QED
    BY <2>1, <2>2, <1>5
    DEF TouchBatchImageJobSubmitting, Steady, OneBusy, Working, Refunding,
        Resolved, HasHold, Pool, Open, Named, Submitted, Past, Unsubmitted
<1>6. CASE ProviderSubmit
  <2>1. UNCHANGED job
    BY <1>6 DEF ProviderSubmit
  <2>2. UNCHANGED <<ledger, others>>
    BY <1>6 DEF ProviderSubmit
  <2> QED
    BY <2>1, <2>2, <1>6
    DEF ProviderSubmit, Submit, Steady, OneBusy, Working, Refunding, Resolved,
        HasHold, Pool, Open, Named, Submitted, Past, Unsubmitted
<1>7. CASE UpdateBatchImageJobProviderSubmit
  <2>1. \/ job' = job
        \/ /\ CanTransition(job.status, "submitted")
           /\ job' = [job EXCEPT !.status = "submitted", !.named = TRUE]
    BY <1>7 DEF UpdateBatchImageJobProviderSubmit, Write
  <2>2. \/ job' = job
        \/ /\ job.status \in Unsubmitted
           /\ job'.status = "submitted"
    BY <2>1, NameWritten DEF Shape, CanTransition, Terminal, Unsubmitted
  <2>3. UNCHANGED <<ledger, others>>
    BY <1>7 DEF UpdateBatchImageJobProviderSubmit, Write
  <2>4. /\ sub = "update"
        /\ sub' \in {"enqueue", "abort"}
        /\ UNCHANGED <<can, rec, work>>
    BY <1>7 DEF UpdateBatchImageJobProviderSubmit, Write, Submit
  <2> QED
    BY <2>2, <2>3, <2>4
    DEF Steady, OneBusy, Working, Refunding, Resolved, HasHold, Pool, Open,
        Named, Submitted, Past, Unsubmitted
<1>8. CASE AbortOrphanProviderJob
  <2>1. UNCHANGED job
    BY <1>8 DEF AbortOrphanProviderJob
  <2>2. UNCHANGED <<ledger, others>>
    BY <1>8 DEF AbortOrphanProviderJob
  <2> QED
    BY <2>1, <2>2, <1>8
    DEF AbortOrphanProviderJob, Submit, Steady, OneBusy, Working, Refunding,
        Resolved, HasHold, Pool, Open, Named, Submitted, Past, Unsubmitted
<1>9. CASE SubmitEnqueue
  <2>1. job'.status = job.status /\ job'.named = job.named
    BY <1>9, ErrorCleared DEF SubmitEnqueue, Shape
  <2>2. UNCHANGED <<ledger, others>>
    BY <1>9 DEF SubmitEnqueue
  <2> QED
    BY <2>1, <2>2, <1>9
    DEF SubmitEnqueue, Steady, OneBusy, Working, Refunding, Resolved, HasHold,
        Pool, Open, Named, Submitted, Past, Unsubmitted
<1>10. CASE ReleaseFailedSubmitHold
  <2>1. UNCHANGED <<job, others>>
    BY <1>10 DEF ReleaseFailedSubmitHold, Pay
  <2>2. ledger' = ledger \/ (CanRelease(ledger) /\ ledger' = Release(ledger))
    BY <1>10 DEF ReleaseFailedSubmitHold, Pay
  <2>3. /\ sub \in {"release", "giveUp"}
        /\ sub' \in {"record", "recordRelease", "done"}
        /\ UNCHANGED <<can, rec, work>>
    BY <1>10 DEF ReleaseFailedSubmitHold, Pay, Submit
  <2>4. job.status \in Unsubmitted \cup {"failed", "cancelled"}
    BY <2>3 DEF Shape, Jobs, Statuses, Created, Named, Submitted, Past,
       Unsubmitted
  <2>5. /\ Pool'
        /\ \/ ledger' = ledger
           \/ ledger'.claims = ledger.claims \cup {"release"}
    BY <2>1, <2>2, <2>4, PoolReleased DEF Steady, Resolved, Shape, Unsubmitted
  <2> QED
    BY <2>1, <2>3, <2>4, <2>5
    DEF Steady, OneBusy, Working, Refunding, Resolved, HasHold, Named,
        Submitted, Past, Unsubmitted
<1>11. CASE RecordBatchImageJobSubmitFailure
  <2>1. \/ job' = job
        \/ job' = [job EXCEPT !.status = "failed",
                              !.settlementError = FALSE,
                              !.hidden = @ \/ sub = "record"]
    BY <1>11 DEF RecordBatchImageJobSubmitFailure, Write
  <2>2. \/ job' = job
        \/ job'.status = "failed" /\ job'.named = job.named
    BY <2>1, FailureWritten DEF Shape
  <2>3. UNCHANGED <<ledger, others>>
    BY <1>11 DEF RecordBatchImageJobSubmitFailure, Write
  <2>4. /\ sub \in {"record", "recordRelease"}
        /\ sub' \in {"enqueueRetry", "done"}
        /\ UNCHANGED <<can, rec, work>>
    BY <1>11 DEF RecordBatchImageJobSubmitFailure, Write, Submit
  <2> QED
    BY <2>2, <2>3, <2>4
    DEF Steady, OneBusy, Working, Refunding, Resolved, HasHold, Pool, Open,
        Named, Submitted, Past, Unsubmitted
<1>12. CASE SubmitEnqueueBillingRetry
  <2>1. UNCHANGED job
    BY <1>12 DEF SubmitEnqueueBillingRetry, Enqueue
  <2>2. UNCHANGED <<ledger, others>>
    BY <1>12 DEF SubmitEnqueueBillingRetry, Enqueue
  <2> QED
    BY <2>1, <2>2, <1>12
    DEF SubmitEnqueueBillingRetry, Enqueue, Steady, OneBusy, Working,
        Refunding, Resolved, HasHold, Pool, Open, Named, Submitted, Past,
        Unsubmitted
<1>13. CASE SubmitCrash
  <2>1. UNCHANGED job
    BY <1>13 DEF SubmitCrash
  <2>2. UNCHANGED <<ledger, others>>
    BY <1>13 DEF SubmitCrash
  <2> QED
    BY <2>1, <2>2, <1>13
    DEF SubmitCrash, Submit, Steady, OneBusy, Working, Refunding, Resolved,
        HasHold, Pool, Open, Named, Submitted, Past, Unsubmitted
<1>14. CASE Resubmit
  <2>1. UNCHANGED job
    BY <1>14 DEF Resubmit
  <2>2. UNCHANGED <<ledger, others>>
    BY <1>14 DEF Resubmit
  <2> QED
    BY <2>1, <2>2, <1>14
    DEF Resubmit, Submit, Steady, OneBusy, Working, Refunding, Resolved,
        HasHold, Pool, Open, Named, Submitted, Past, Unsubmitted
<1>15. CASE CancelRead
  <2>1. UNCHANGED job
    BY <1>15 DEF CancelRead
  <2>2. UNCHANGED <<ledger, others>>
    BY <1>15 DEF CancelRead
  <2> QED
    BY <2>1, <2>2, <1>15
    DEF CancelRead, Cancel, Steady, OneBusy, Working, Refunding, Resolved,
        HasHold, Pool, Open, Named, Submitted, Past, Unsubmitted
<1>16. CASE CancelUpstream
  <2>1. UNCHANGED job
    BY <1>16 DEF CancelUpstream
  <2>2. UNCHANGED <<ledger, others>>
    BY <1>16 DEF CancelUpstream
  <2> QED
    BY <2>1, <2>2, <1>16
    DEF CancelUpstream, Cancel, Steady, OneBusy, Working, Refunding, Resolved,
        HasHold, Pool, Open, Named, Submitted, Past, Unsubmitted
<1>17. CASE CancelTransition
  <2>1. \/ job' = job
        \/ /\ CanTransition(job.status, "cancelled")
           /\ job' = [job EXCEPT !.status = "cancelled"]
    BY <1>17 DEF CancelTransition, Transition, Write
  <2>2. job' = job \/ Moved("cancelled")
    BY <2>1, TransitionMoves, StatusNames DEF Shape
  <2>3. UNCHANGED <<ledger, others>>
    BY <1>17 DEF CancelTransition, Transition, Write
  <2>4. /\ can' \in {"idle", "release"}
        /\ can' = "release" => job' = [job EXCEPT !.status = "cancelled"]
        /\ UNCHANGED <<sub, rec, work>>
    BY <1>17 DEF CancelTransition, Transition, Write, Cancel
  <2>5. can' = "release" => job'.status = "cancelled"
    BY <2>4 DEF Shape, Jobs
  <2> QED
    BY <2>2, <2>3, <2>4, <2>5
    DEF Moved, CanTransition, Terminal, Steady, OneBusy, Working, Refunding,
        Resolved, HasHold, Pool, Open, Named, Submitted, Past, Unsubmitted
<1>18. CASE CancelRelease
  <2>1. UNCHANGED <<job, others>>
    BY <1>18 DEF CancelRelease, Pay
  <2>2. ledger' = ledger \/ (CanRelease(ledger) /\ ledger' = Release(ledger))
    BY <1>18 DEF CancelRelease, Pay
  <2>3. /\ can = "release"
        /\ can' \in {"idle", "enqueue"}
        /\ UNCHANGED <<sub, rec, work>>
    BY <1>18 DEF CancelRelease, Pay, Cancel
  <2>4. job.status \in {"failed", "cancelled"}
    BY <2>3 DEF Steady, Refunding
  <2>5. /\ Pool'
        /\ \/ ledger' = ledger
           \/ ledger'.claims = ledger.claims \cup {"release"}
    BY <2>1, <2>2, <2>4, PoolReleased DEF Steady, Resolved, Shape
  <2> QED
    BY <2>1, <2>3, <2>4, <2>5
    DEF Steady, OneBusy, Working, Refunding, Resolved, HasHold, Named,
        Submitted, Past, Unsubmitted
<1>19. CASE CancelEnqueue
  <2>1. UNCHANGED job
    BY <1>19 DEF CancelEnqueue, Enqueue
  <2>2. UNCHANGED <<ledger, others>>
    BY <1>19 DEF CancelEnqueue, Enqueue
  <2> QED
    BY <2>1, <2>2, <1>19
    DEF CancelEnqueue, Enqueue, Steady, OneBusy, Working, Refunding, Resolved,
        HasHold, Pool, Open, Named, Submitted, Past, Unsubmitted
<1>20. CASE CancelCrash
  <2>1. UNCHANGED job
    BY <1>20 DEF CancelCrash
  <2>2. UNCHANGED <<ledger, others>>
    BY <1>20 DEF CancelCrash
  <2> QED
    BY <2>1, <2>2, <1>20
    DEF CancelCrash, Cancel, Steady, OneBusy, Working, Refunding, Resolved,
        HasHold, Pool, Open, Named, Submitted, Past, Unsubmitted
<1>21. CASE StaleAfterPasses
  <2>1. UNCHANGED job
    BY <1>21 DEF StaleAfterPasses
  <2>2. UNCHANGED <<ledger, others>>
    BY <1>21 DEF StaleAfterPasses
  <2> QED
    BY <2>1, <2>2, <1>21
    DEF StaleAfterPasses, Steady, OneBusy, Working, Refunding, Resolved,
        HasHold, Pool, Open, Named, Submitted, Past, Unsubmitted
<1>22. CASE FailStaleUnsubmittedBatchImageJob
  <2>1. \/ job' = job
        \/ /\ CanTransition(job.status, "failed")
           /\ job' = [job EXCEPT !.status = "failed"]
    BY <1>22
    DEF FailStaleUnsubmittedBatchImageJob, Write, Stale, Unsubmitted,
        CanTransition, Terminal
  <2>2. job' = job \/ Moved("failed")
    BY <2>1, TransitionMoves, StatusNames DEF Shape
  <2>3. UNCHANGED <<ledger, others>>
    BY <1>22 DEF FailStaleUnsubmittedBatchImageJob, Write
  <2>4. /\ job.status \in Unsubmitted
        /\ rec' \in {"idle", "release"}
        /\ rec' = "release" => job' = [job EXCEPT !.status = "failed"]
        /\ UNCHANGED <<sub, can, work>>
    BY <1>22
    DEF FailStaleUnsubmittedBatchImageJob, Write, Recover, Stale
  <2>5. rec' = "release" => job'.status = "failed"
    BY <2>4 DEF Shape, Jobs
  <2> QED
    BY <2>2, <2>3, <2>4, <2>5
    DEF Moved, CanTransition, Terminal, Steady, OneBusy, Working, Refunding,
        Resolved, HasHold, Pool, Open, Named, Submitted, Past, Unsubmitted
<1>23. CASE RecoveryRelease
  <2>1. UNCHANGED <<job, others>>
    BY <1>23 DEF RecoveryRelease, Pay
  <2>2. ledger' = ledger \/ (CanRelease(ledger) /\ ledger' = Release(ledger))
    BY <1>23 DEF RecoveryRelease, Pay
  <2>3. /\ rec = "release"
        /\ rec' \in {"idle", "enqueue"}
        /\ UNCHANGED <<sub, can, work>>
    BY <1>23 DEF RecoveryRelease, Pay, Recover
  <2>4. job.status \in {"failed", "cancelled"}
    BY <2>3 DEF Steady, Refunding
  <2>5. /\ Pool'
        /\ \/ ledger' = ledger
           \/ ledger'.claims = ledger.claims \cup {"release"}
    BY <2>1, <2>2, <2>4, PoolReleased DEF Steady, Resolved, Shape
  <2> QED
    BY <2>1, <2>3, <2>4, <2>5
    DEF Steady, OneBusy, Working, Refunding, Resolved, HasHold, Named,
        Submitted, Past, Unsubmitted
<1>24. CASE RecoveryEnqueue
  <2>1. UNCHANGED job
    BY <1>24 DEF RecoveryEnqueue, Enqueue
  <2>2. UNCHANGED <<ledger, others>>
    BY <1>24 DEF RecoveryEnqueue, Enqueue
  <2> QED
    BY <2>1, <2>2, <1>24
    DEF RecoveryEnqueue, Enqueue, Steady, OneBusy, Working, Refunding,
        Resolved, HasHold, Pool, Open, Named, Submitted, Past, Unsubmitted
<1>25. CASE RecoveryCrash
  <2>1. UNCHANGED job
    BY <1>25 DEF RecoveryCrash
  <2>2. UNCHANGED <<ledger, others>>
    BY <1>25 DEF RecoveryCrash
  <2> QED
    BY <2>1, <2>2, <1>25
    DEF RecoveryCrash, Recover, Steady, OneBusy, Working, Refunding, Resolved,
        HasHold, Pool, Open, Named, Submitted, Past, Unsubmitted
<1>26. ASSUME NEW w \in Workers,
            ReserveAndRead(w) \/ WorkerStep(w) \/ WorkerCrash(w)
      PROVE Steady'
  <2>1. CASE ReserveAndRead(w)
    <3>1. UNCHANGED job
      BY <2>1 DEF ReserveAndRead
    <3>2. UNCHANGED <<ledger, others>>
      BY <2>1 DEF ReserveAndRead
    <3>3. \A v \in Workers : v # w => work'[v] = "idle"
      BY <1>0, <2>1 DEF ReserveAndRead, Work, Shape
    <3>4. /\ work'[w] \in {"settle", "process"}
          /\ UNCHANGED <<sub, can, rec>>
      BY <2>1 DEF ReserveAndRead, Work, Leave, Ack, Requeue, Shape
    <3> QED
      BY <3>1, <3>2, <3>3, <3>4
      DEF Steady, OneBusy, Working, Refunding, Resolved, HasHold, Pool, Open,
          Named, Submitted, Past, Unsubmitted
  <2>2. CASE Process(w)
    <3>1. UNCHANGED job
      BY <2>2 DEF Process
    <3>2. UNCHANGED <<ledger, others>>
      BY <2>2 DEF Process
    <3>3. \A v \in Workers : v # w => work'[v] = "idle"
      BY <2>2
      DEF Process, Work, Leave, Ack, Requeue, Steady, OneBusy, Shape
    <3>4. /\ work'[w] \in {"idle", "releaseTerminal", "index", "poll"}
          /\ work'[w] \in {"index", "poll"}
               => job.status \notin {"settling", "completed"}
          /\ work'[w] = "releaseTerminal"
               => job.status \in {"failed", "cancelled"}
          /\ UNCHANGED <<sub, can, rec>>
      BY <2>2 DEF Process, Work, Leave, Ack, Requeue, Shape
    <3> QED
      BY <3>1, <3>2, <3>3, <3>4
      DEF Steady, OneBusy, Working, Refunding, Resolved, HasHold, Pool, Open,
          Named, Submitted, Past, Unsubmitted
  <2>3. CASE Poll(w)
    <3>1. UNCHANGED job
      BY <2>3 DEF Poll
    <3>2. UNCHANGED <<ledger, others>>
      BY <2>3 DEF Poll
    <3>3. \A v \in Workers : v # w => work'[v] = "idle"
      BY <2>3 DEF Poll, Work, Leave, Ack, Requeue, Steady, OneBusy, Shape
    <3>4. /\ work[w] = "poll"
          /\ work'[w] \in {"idle", "toRunning", "toIndexing", "toFailed",
                           "toCancelled"}
          /\ UNCHANGED <<sub, can, rec>>
      BY <2>3 DEF Poll, Work, Leave, Ack, Requeue, Shape
    <3> QED
      BY <3>1, <3>2, <3>3, <3>4
      DEF Steady, OneBusy, Working, Refunding, Resolved, HasHold, Pool, Open,
          Named, Submitted, Past, Unsubmitted
  <2>4. CASE PollFails(w)
    <3>1. UNCHANGED job
      BY <2>4 DEF PollFails
    <3>2. UNCHANGED <<ledger, others>>
      BY <2>4 DEF PollFails
    <3>3. \A v \in Workers : v # w => work'[v] = "idle"
      BY <2>4
      DEF PollFails, Work, Leave, Ack, Requeue, Steady, OneBusy, Shape
    <3>4. /\ work'[w] = "idle"
          /\ UNCHANGED <<sub, can, rec>>
      BY <2>4 DEF PollFails, Work, Leave, Ack, Requeue, Shape
    <3> QED
      BY <3>1, <3>2, <3>3, <3>4
      DEF Steady, OneBusy, Working, Refunding, Resolved, HasHold, Pool, Open,
          Named, Submitted, Past, Unsubmitted
  <2>5. CASE ToRunning(w)
    <3>1. \/ job' = job
          \/ /\ CanTransition(job.status, "running")
             /\ job' = [job EXCEPT !.status = "running"]
      BY <2>5 DEF ToRunning, Transition, Write
    <3>2. job' = job \/ Moved("running")
      BY <3>1, TransitionMoves, StatusNames DEF Shape
    <3>3. UNCHANGED <<ledger, others>>
      BY <2>5 DEF ToRunning, Transition, Write
    <3>4. \A v \in Workers : v # w => work'[v] = "idle"
      BY <2>5
      DEF ToRunning, Transition, Write, Work, Leave, Ack, Requeue, Steady,
          OneBusy, Shape
    <3>5. /\ work[w] = "toRunning"
          /\ work'[w] = "idle"
          /\ UNCHANGED <<sub, can, rec>>
      BY <2>5
      DEF ToRunning, Transition, Write, Work, Leave, Ack, Requeue, Shape
    <3> QED
      BY <3>2, <3>3, <3>4, <3>5
      DEF Moved, CanTransition, Terminal, Steady, OneBusy, Working, Refunding,
          Resolved, HasHold, Pool, Open, Named, Submitted, Past, Unsubmitted
  <2>6. CASE ToIndexing(w)
    <3>1. \/ job' = job
          \/ /\ CanTransition(job.status, "indexing")
             /\ job' = [job EXCEPT !.status = "indexing"]
      BY <2>6 DEF ToIndexing, Transition, Write
    <3>2. job' = job \/ Moved("indexing")
      BY <3>1, TransitionMoves, StatusNames DEF Shape
    <3>3. UNCHANGED <<ledger, others>>
      BY <2>6 DEF ToIndexing, Transition, Write
    <3>4. \A v \in Workers : v # w => work'[v] = "idle"
      BY <2>6
      DEF ToIndexing, Transition, Write, Work, Leave, Ack, Requeue, Steady,
          OneBusy, Shape
    <3>5. /\ work[w] = "toIndexing"
          /\ work'[w] \in {"idle", "index"}
          /\ UNCHANGED <<sub, can, rec>>
      BY <2>6
      DEF ToIndexing, Transition, Write, Work, Leave, Ack, Requeue, Shape
    <3> QED
      BY <3>2, <3>3, <3>4, <3>5
      DEF Moved, CanTransition, Terminal, Steady, OneBusy, Working, Refunding,
          Resolved, HasHold, Pool, Open, Named, Submitted, Past, Unsubmitted
  <2>7. CASE Index(w)
    <3>1. \/ job' = job
          \/ /\ job.status = "indexing"
             /\ \E c \in Costs : job' = [job EXCEPT !.cost = c]
      BY <2>7 DEF Index, Write
    <3>2. job'.status = job.status /\ job'.named = job.named
      BY <3>1, CostWritten DEF Shape
    <3>3. UNCHANGED <<ledger, others>>
      BY <2>7 DEF Index, Write
    <3>4. \A v \in Workers : v # w => work'[v] = "idle"
      BY <2>7
      DEF Index, Write, Work, Leave, Ack, Requeue, Steady, OneBusy, Shape
    <3>5. /\ work[w] = "index"
          /\ work'[w] \in {"idle", "toSettling", "toFailed"}
          /\ UNCHANGED <<sub, can, rec>>
      BY <2>7 DEF Index, Write, Work, Leave, Ack, Requeue, Shape
    <3> QED
      BY <3>2, <3>3, <3>4, <3>5
      DEF Steady, OneBusy, Working, Refunding, Resolved, HasHold, Pool, Open,
          Named, Submitted, Past, Unsubmitted
  <2>8. CASE ToSettling(w)
    <3>1. \/ job' = job
          \/ /\ CanTransition(job.status, "settling")
             /\ job' = [job EXCEPT !.status = "settling"]
      BY <2>8 DEF ToSettling, Transition, Write
    <3>2. job' = job \/ Moved("settling")
      BY <3>1, TransitionMoves, StatusNames DEF Shape
    <3>3. UNCHANGED <<ledger, others>>
      BY <2>8 DEF ToSettling, Transition, Write
    <3>4. \A v \in Workers : v # w => work'[v] = "idle"
      BY <2>8
      DEF ToSettling, Transition, Write, Work, Leave, Ack, Requeue, Steady,
          OneBusy, Shape
    <3>5. /\ work[w] = "toSettling"
          /\ work'[w] = "idle"
          /\ UNCHANGED <<sub, can, rec>>
      BY <2>8
      DEF ToSettling, Transition, Write, Work, Leave, Ack, Requeue, Shape
    <3> QED
      BY <3>2, <3>3, <3>4, <3>5
      DEF Moved, CanTransition, Terminal, Steady, OneBusy, Working, Refunding,
          Resolved, HasHold, Pool, Open, Named, Submitted, Past, Unsubmitted
  <2>9. CASE ToFailed(w)
    <3>1. \/ job' = job
          \/ /\ CanTransition(job.status, "failed")
             /\ job' = [job EXCEPT !.status = "failed"]
      BY <2>9 DEF ToFailed, Transition, Write
    <3>2. job' = job \/ Moved("failed")
      BY <3>1, TransitionMoves, StatusNames DEF Shape
    <3>3. UNCHANGED <<ledger, others>>
      BY <2>9 DEF ToFailed, Transition, Write
    <3>4. \A v \in Workers : v # w => work'[v] = "idle"
      BY <2>9
      DEF ToFailed, Transition, Write, Work, Leave, Ack, Requeue, Steady,
          OneBusy, Shape
    <3>5. /\ work[w] = "toFailed"
          /\ work'[w] \in {"idle", "releaseTerminal"}
          /\ work'[w] = "releaseTerminal"
             => job' = [job EXCEPT !.status = "failed"]
          /\ UNCHANGED <<sub, can, rec>>
      BY <2>9
      DEF ToFailed, Transition, Write, Work, Leave, Ack, Requeue, Shape
    <3>6. work'[w] = "releaseTerminal" => job'.status = "failed"
      BY <3>5 DEF Shape, Jobs
    <3> QED
      BY <3>2, <3>3, <3>4, <3>5, <3>6
      DEF Moved, CanTransition, Terminal, Steady, OneBusy, Working, Refunding,
          Resolved, HasHold, Pool, Open, Named, Submitted, Past, Unsubmitted
  <2>10. CASE ToCancelled(w)
    <3>1. \/ job' = job
          \/ /\ CanTransition(job.status, "cancelled")
             /\ job' = [job EXCEPT !.status = "cancelled"]
      BY <2>10 DEF ToCancelled, Transition, Write
    <3>2. job' = job \/ Moved("cancelled")
      BY <3>1, TransitionMoves, StatusNames DEF Shape
    <3>3. UNCHANGED <<ledger, others>>
      BY <2>10 DEF ToCancelled, Transition, Write
    <3>4. \A v \in Workers : v # w => work'[v] = "idle"
      BY <2>10
      DEF ToCancelled, Transition, Write, Work, Leave, Ack, Requeue, Steady,
          OneBusy, Shape
    <3>5. /\ work[w] = "toCancelled"
          /\ work'[w] \in {"idle", "releaseTerminal"}
          /\ work'[w] = "releaseTerminal"
             => job' = [job EXCEPT !.status = "cancelled"]
          /\ UNCHANGED <<sub, can, rec>>
      BY <2>10
      DEF ToCancelled, Transition, Write, Work, Leave, Ack, Requeue, Shape
    <3>6. work'[w] = "releaseTerminal" => job'.status = "cancelled"
      BY <3>5 DEF Shape, Jobs
    <3> QED
      BY <3>2, <3>3, <3>4, <3>5, <3>6
      DEF Moved, CanTransition, Terminal, Steady, OneBusy, Working, Refunding,
          Resolved, HasHold, Pool, Open, Named, Submitted, Past, Unsubmitted
  <2>11. CASE ReleaseTerminalHold(w)
    <3>1. UNCHANGED <<job, others>>
      BY <2>11 DEF ReleaseTerminalHold, Pay
    <3>2. ledger' = ledger \/ (CanRelease(ledger) /\ ledger' = Release(ledger))
      BY <2>11 DEF ReleaseTerminalHold, Pay
    <3>3. \A v \in Workers : v # w => work'[v] = "idle"
      BY <2>11
      DEF ReleaseTerminalHold, Pay, Work, Leave, Ack, Requeue, Steady,
          OneBusy, Shape
    <3>4. /\ work[w] = "releaseTerminal"
          /\ work'[w] = "idle"
          /\ UNCHANGED <<sub, can, rec>>
      BY <2>11
      DEF ReleaseTerminalHold, Pay, Work, Leave, Ack, Requeue, Shape
    <3>5. job.status \in {"failed", "cancelled"}
      BY <3>4 DEF Steady, Refunding
    <3>6. /\ Pool'
          /\ \/ ledger' = ledger
             \/ ledger'.claims = ledger.claims \cup {"release"}
      BY <3>1, <3>2, <3>5, PoolReleased DEF Steady, Resolved, Shape
    <3> QED
      BY <3>1, <3>3, <3>4, <3>5, <3>6
      DEF Steady, OneBusy, Working, Refunding, Resolved, HasHold, Named,
          Submitted, Past, Unsubmitted
  <2>12. CASE Settle(w)
    <3>1. UNCHANGED job
      BY <2>12 DEF Settle
    <3>2. UNCHANGED <<ledger, others>>
      BY <2>12 DEF Settle
    <3>3. \A v \in Workers : v # w => work'[v] = "idle"
      BY <2>12
      DEF Settle, Work, Leave, Ack, Requeue, Steady, OneBusy, Shape
    <3>4. ~Exhausted
      BY <1>0, <3>1, JobAssumption DEF Exhausted, Shape, Jobs
    <3>5. /\ work'[w] \in {"idle", "capture"}
          /\ work'[w] # "idle" => job.status = "settling"
          /\ UNCHANGED <<sub, can, rec>>
      BY <2>12, <3>4 DEF Settle, Work, Leave, Ack, Requeue, Shape
    <3> QED
      BY <3>1, <3>2, <3>3, <3>5
      DEF Steady, OneBusy, Working, Refunding, Resolved, HasHold, Pool, Open,
          Named, Submitted, Past, Unsubmitted
  <2>13. CASE CaptureBatchImageBalance(w)
    <3>1. UNCHANGED <<job, others>>
      BY <2>13 DEF CaptureBatchImageBalance, Pay
    <3>2. \/ ledger' = ledger
          \/ CanCapture(ledger) /\ ledger' = Capture(ledger, job.cost)
      BY <2>13 DEF CaptureBatchImageBalance, Pay
    <3>3. \A v \in Workers : v # w => work'[v] = "idle"
      BY <2>13
      DEF CaptureBatchImageBalance, Pay, Work, Leave, Ack, Requeue, Steady,
          OneBusy, Shape
    <3>4. /\ work[w] = "capture"
          /\ work'[w] \in {"mark", "recordFailure"}
          /\ UNCHANGED <<sub, can, rec>>
      BY <2>13
      DEF CaptureBatchImageBalance, Pay, Work, Leave, Ack, Requeue, Shape
    <3>5. job.status = "settling" /\ "hold" \in ledger.claims
      BY <3>4 DEF Steady, Working, HasHold, Submitted, Past
    <3>6. /\ Pool'
          /\ \/ ledger' = ledger
             \/ ledger'.claims = ledger.claims \cup {"capture"}
      BY <3>1, <3>2, <3>5, CostBounded, PoolCaptured
      DEF Steady, Resolved, Shape, Unsubmitted
    <3> QED
      BY <3>1, <3>3, <3>4, <3>5, <3>6
      DEF Steady, OneBusy, Working, Refunding, Resolved, HasHold, Named,
          Submitted, Past, Unsubmitted
  <2>14. CASE MarkBatchImageJobSettled(w)
    <3>1. \/ job' = job
          \/ /\ CanTransition(job.status, "completed")
             /\ job' = [job EXCEPT !.status = "completed"]
      BY <2>14
      DEF MarkBatchImageJobSettled, Write, CanTransition, Terminal
    <3>2. job' = job \/ Moved("completed")
      BY <3>1, TransitionMoves, StatusNames DEF Shape
    <3>3. UNCHANGED <<ledger, others>>
      BY <2>14 DEF MarkBatchImageJobSettled, Write
    <3>4. \A v \in Workers : v # w => work'[v] = "idle"
      BY <2>14
      DEF MarkBatchImageJobSettled, Write, Work, Leave, Ack, Requeue, Steady,
          OneBusy, Shape
    <3>5. /\ work'[w] = "idle"
          /\ UNCHANGED <<sub, can, rec>>
      BY <2>14
      DEF MarkBatchImageJobSettled, Write, Work, Leave, Ack, Requeue, Shape
    <3> QED
      BY <3>2, <3>3, <3>4, <3>5
      DEF Moved, CanTransition, Terminal, Steady, OneBusy, Working, Refunding,
          Resolved, HasHold, Pool, Open, Named, Submitted, Past, Unsubmitted
  <2>15. CASE RecordSettlementFailure(w)
    <3>1. job' = job \/ job' = SettlementFailed
      BY <2>15 DEF RecordSettlementFailure, Write
    <3>2. job'.status = job.status /\ job'.named = job.named
      BY <3>1, SettlementFailureWritten DEF Shape
    <3>3. UNCHANGED <<ledger, others>>
      BY <2>15 DEF RecordSettlementFailure, Write
    <3>4. \A v \in Workers : v # w => work'[v] = "idle"
      BY <2>15
      DEF RecordSettlementFailure, Write, Work, Leave, Ack, Requeue, Steady,
          OneBusy, Shape
    <3>5. /\ work[w] = "recordFailure"
          /\ work'[w] = "idle"
          /\ UNCHANGED <<sub, can, rec>>
      BY <1>0, <2>15, JobAssumption, SettlementFailureWritten
      DEF RecordSettlementFailure, Write, Work, Leave, Ack, Requeue, Shape,
          Jobs
    <3> QED
      BY <3>2, <3>3, <3>4, <3>5
      DEF Steady, OneBusy, Working, Refunding, Resolved, HasHold, Pool, Open,
          Named, Submitted, Past, Unsubmitted
  <2>16. CASE ReleaseExhausted(w)
    BY <2>16 DEF ReleaseExhausted, Steady, Working
  <2>17. CASE RecordReleaseFailure(w)
    BY <2>17 DEF RecordReleaseFailure, Steady, Working
  <2>18. CASE ToFailedExhausted(w)
    BY <2>18 DEF ToFailedExhausted, Steady, Working
  <2>19. CASE Recheck(w)
    <3>1. UNCHANGED job
      BY <2>19 DEF Recheck
    <3>2. UNCHANGED <<ledger, others>>
      BY <2>19 DEF Recheck
    <3>3. \A v \in Workers : v # w => work'[v] = "idle"
      BY <2>19
      DEF Recheck, Work, Leave, Ack, Requeue, Steady, OneBusy, Shape
    <3>4. /\ work'[w] = "idle"
          /\ UNCHANGED <<sub, can, rec>>
      BY <2>19 DEF Recheck, Work, Leave, Ack, Requeue, Shape
    <3> QED
      BY <3>1, <3>2, <3>3, <3>4
      DEF Steady, OneBusy, Working, Refunding, Resolved, HasHold, Pool, Open,
          Named, Submitted, Past, Unsubmitted
  <2>20. CASE WorkerCrash(w)
    <3>1. UNCHANGED job
      BY <2>20 DEF WorkerCrash
    <3>2. UNCHANGED <<ledger, others>>
      BY <2>20 DEF WorkerCrash
    <3>3. \A v \in Workers : v # w => work'[v] = "idle"
      BY <2>20
      DEF WorkerCrash, Work, Leave, Ack, Requeue, Steady, OneBusy, Shape
    <3>4. /\ work'[w] = "idle"
          /\ UNCHANGED <<sub, can, rec>>
      BY <2>20 DEF WorkerCrash, Work, Leave, Ack, Requeue, Shape
    <3> QED
      BY <3>1, <3>2, <3>3, <3>4
      DEF Steady, OneBusy, Working, Refunding, Resolved, HasHold, Pool, Open,
          Named, Submitted, Past, Unsubmitted
  <2> QED BY <2>1, <2>2, <2>3, <2>4, <2>5, <2>6, <2>7, <2>8, <2>9, <2>10,
         <2>11, <2>12, <2>13, <2>14, <2>15, <2>16, <2>17, <2>18, <2>19,
         <2>20, <1>26 DEF WorkerStep
<1>27. CASE UpstreamEnds
  <2>1. UNCHANGED job
    BY <1>27 DEF UpstreamEnds
  <2>2. UNCHANGED <<ledger, others>>
    BY <1>27 DEF UpstreamEnds
  <2> QED
    BY <2>1, <2>2, <1>27
    DEF UpstreamEnds, Steady, OneBusy, Working, Refunding, Resolved, HasHold,
        Pool, Open, Named, Submitted, Past, Unsubmitted
<1>28. CASE OtherBatches
  <2>1. UNCHANGED <<job, sub, can, rec, work>>
    BY <1>28 DEF OtherBatches
  <2>2. /\ ledger'.claims = ledger.claims
        /\ ledger'.frozen = ledger.frozen + others' - others
    BY <1>28 DEF OtherBatches, Shape, Ledgers
  <2>3. Pool'
    BY <2>2, LedgerFields, JobAssumption, HoldAssumption
    DEF Steady, Pool, Open, Shape
  <2> QED
    BY <2>1, <2>2, <2>3
    DEF Steady, OneBusy, Working, Refunding, Resolved, HasHold
<1>29. CASE UNCHANGED vars
  BY <1>29 DEF vars, Steady, OneBusy, Working, Refunding, Resolved, HasHold,
     Pool
<1> QED BY <1>1, <1>2, <1>3, <1>4, <1>5, <1>6, <1>7, <1>8, <1>9, <1>10,
       <1>11, <1>12, <1>13, <1>14, <1>15, <1>16, <1>17, <1>18, <1>19, <1>20,
       <1>21, <1>22, <1>23, <1>24, <1>25, <1>26, <1>27, <1>28, <1>29
   DEF Next, SubmitNext, SubmitSteps, CancelNext, RecoveryNext, WorkerNext

\* The user's frozen balance is the sum of the open holds while nothing that
\* FrozenIsOpenHolds names has happened: each of Submit, Cancel, the sweep
\* and the worker may resolve the batch, and usage_billing_dedup lets the
\* pool give its hold back once.
THEOREM FrozenMatchesHolds == Spec => []FrozenIsOpenHolds
<1> DEFINE IInv == Base /\ (Clear => Steady /\ Unknown)
<1>1. Init => IInv
  BY BaseInit, SteadyInit
<1>2. IInv /\ [Next]_vars => IInv'
  BY BaseStep, ClearBefore, SteadyStep, UnknownStep
<1>3. IInv => FrozenIsOpenHolds
  BY DEF Steady, Pool, Clear, FrozenIsOpenHolds
<1> QED BY <1>1, <1>2, <1>3, PTL DEF Spec

-----------------------------------------------------------------------------
(* Types                                                                   *)

\* The types that Base does not need.
Rest ==
    /\ aged \in BOOLEAN
    /\ queued \in BOOLEAN
    /\ upstream \in {"none", "running", "succeeded", "failed", "cancelled"}
    /\ sub \in SubmitPcs
    /\ can \in CancelPcs
    /\ rec \in RecoveryPcs

\* Every step keeps the marks, the provider's state and the positions in
\* their types.
LEMMA RestStep == Rest /\ [Next]_vars => Rest'
<1> SUFFICES ASSUME Rest, [Next]_vars PROVE Rest'
  OBVIOUS
<1> USE DEF Rest
<1>1. CASE SubmitNext
  <2>1. aged' \in BOOLEAN /\ queued' \in BOOLEAN
    BY <1>1
    DEF SubmitNext, SubmitSteps, CreateBatchImageJob,
        ReserveBatchImageBalance, CreatePendingItems, StartUpload,
        TouchBatchImageJobSubmitting, ProviderSubmit,
        UpdateBatchImageJobProviderSubmit, AbortOrphanProviderJob,
        SubmitEnqueue, ReleaseFailedSubmitHold,
        RecordBatchImageJobSubmitFailure, SubmitEnqueueBillingRetry,
        SubmitCrash, Resubmit, Submit, Enqueue, Transition, Write, Pay
  <2>2. upstream' \in {"none", "running", "succeeded", "failed", "cancelled"}
    BY <1>1
    DEF SubmitNext, SubmitSteps, CreateBatchImageJob,
        ReserveBatchImageBalance, CreatePendingItems, StartUpload,
        TouchBatchImageJobSubmitting, ProviderSubmit,
        UpdateBatchImageJobProviderSubmit, AbortOrphanProviderJob,
        SubmitEnqueue, ReleaseFailedSubmitHold,
        RecordBatchImageJobSubmitFailure, SubmitEnqueueBillingRetry,
        SubmitCrash, Resubmit, Submit, Enqueue, Transition, Write, Pay
  <2>3. sub' \in SubmitPcs /\ UNCHANGED <<can, rec>>
    BY <1>1
    DEF SubmitNext, SubmitSteps, CreateBatchImageJob,
        ReserveBatchImageBalance, CreatePendingItems, StartUpload,
        TouchBatchImageJobSubmitting, ProviderSubmit,
        UpdateBatchImageJobProviderSubmit, AbortOrphanProviderJob,
        SubmitEnqueue, ReleaseFailedSubmitHold,
        RecordBatchImageJobSubmitFailure, SubmitEnqueueBillingRetry,
        SubmitCrash, Resubmit, Submit, Enqueue, Transition, Write, Pay,
        SubmitPcs
  <2> QED BY <2>1, <2>2, <2>3
<1>2. CASE CancelNext
  <2>1. aged' \in BOOLEAN /\ queued' \in BOOLEAN
    BY <1>2
    DEF CancelNext, CancelRead, CancelUpstream, CancelTransition,
        CancelRelease, CancelEnqueue, CancelCrash, Cancel, Enqueue,
        Transition, Write, Pay
  <2>2. upstream' \in {"none", "running", "succeeded", "failed", "cancelled"}
    BY <1>2
    DEF CancelNext, CancelRead, CancelUpstream, CancelTransition,
        CancelRelease, CancelEnqueue, CancelCrash, Cancel, Enqueue,
        Transition, Write, Pay
  <2>3. can' \in CancelPcs /\ UNCHANGED <<sub, rec>>
    BY <1>2
    DEF CancelNext, CancelRead, CancelUpstream, CancelTransition,
        CancelRelease, CancelEnqueue, CancelCrash, Cancel, Enqueue,
        Transition, Write, Pay, CancelPcs
  <2> QED BY <2>1, <2>2, <2>3
<1>3. CASE RecoveryNext
  <2>1. /\ aged' \in BOOLEAN /\ queued' \in BOOLEAN
        /\ UNCHANGED upstream
    BY <1>3
    DEF RecoveryNext, StaleAfterPasses, FailStaleUnsubmittedBatchImageJob,
        RecoveryRelease, RecoveryEnqueue, RecoveryCrash, Recover, Enqueue,
        Write, Pay
  <2>2. rec' \in RecoveryPcs /\ UNCHANGED <<sub, can>>
    BY <1>3
    DEF RecoveryNext, StaleAfterPasses, FailStaleUnsubmittedBatchImageJob,
        RecoveryRelease, RecoveryEnqueue, RecoveryCrash, Recover, Enqueue,
        Write, Pay, RecoveryPcs
  <2> QED BY <2>1, <2>2
<1>4. CASE WorkerNext
  <2>1. PICK w \in Workers :
          ReserveAndRead(w) \/ WorkerStep(w) \/ WorkerCrash(w)
    BY <1>4 DEF WorkerNext
  <2>2. /\ aged' \in BOOLEAN /\ queued' \in BOOLEAN
        /\ UNCHANGED <<upstream, sub, can, rec>>
    BY <2>1
    DEF ReserveAndRead, WorkerCrash, WorkerStep, Process, Poll, PollFails,
        ToRunning, ToIndexing, Index, ToSettling, ToFailed, ToCancelled,
        ReleaseTerminalHold, Settle, CaptureBatchImageBalance,
        MarkBatchImageJobSettled, RecordSettlementFailure, ReleaseExhausted,
        RecordReleaseFailure, ToFailedExhausted, Recheck, Work, Leave, Ack,
        Requeue, Transition, Write, Pay
  <2> QED BY <2>2
<1>5. CASE UpstreamEnds \/ OtherBatches \/ UNCHANGED vars
  BY <1>5 DEF UpstreamEnds, OtherBatches, vars
<1> QED BY <1>1, <1>2, <1>3, <1>4, <1>5 DEF Next

\* The failures stay within their bound and among the perils.
LEMMA FaultsTyped ==
    ASSUME faults \in [count : 0..MaxFaults, kinds : SUBSET Perils],
           [Next]_vars
    PROVE  faults' \in [count : 0..MaxFaults, kinds : SUBSET Perils]
<1>1. CASE faults' = faults
  BY <1>1
<1>2. ASSUME NEW kind \in Perils, Fault(kind)
      PROVE  faults' \in [count : 0..MaxFaults, kinds : SUBSET Perils]
  <2>1. faults.count + 1 \in 0..MaxFaults
    BY <1>2, JobAssumption DEF Fault
  <2>2. faults.kinds \cup {kind} \in SUBSET Perils
    OBVIOUS
  <2> QED BY <1>2, <2>1, <2>2 DEF Fault
<1> QED BY <1>1, <1>2, FaultsGrow DEF vars

\* The row, the ledger, the provider's batch and the four kinds of processes
\* keep their types, for any workers, costs, perils and bounds; the ledger's
\* pool is never overdrawn.
THEOREM TypeCorrect == Spec => []TypeOK
<1> DEFINE IInv == /\ Base /\ Rest
                   /\ faults \in [count : 0..MaxFaults, kinds : SUBSET Perils]
<1>1. Init => IInv
  <2>1. Init => Rest
    BY DEF Init, Rest, SubmitPcs, CancelPcs, RecoveryPcs
  <2>2. Init => faults \in [count : 0..MaxFaults, kinds : SUBSET Perils]
    BY JobAssumption DEF Init
  <2> QED BY <2>1, <2>2, BaseInit
<1>2. IInv /\ [Next]_vars => IInv'
  BY BaseStep, RestStep, FaultsTyped
<1>3. IInv => TypeOK
  BY DEF Base, Shape, Rest, TypeOK
<1> QED BY <1>1, <1>2, <1>3, PTL DEF Spec

=============================================================================
