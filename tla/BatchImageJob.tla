--------------------------- MODULE BatchImageJob ---------------------------
(***************************************************************************)
(* One image batch from Submit to settlement: its row in batch_image_jobs, *)
(* its balance hold, its place in the queue and the batch at the provider, *)
(* driven by four kinds of processes that share nothing but those:         *)
(*   sub   the Submit request              (service/batch_image_public.go) *)
(*   can   a Cancel request                (service/batch_image_public.go) *)
(*   rec   the sweep of stale submissions  (batch_image_billing_recovery)  *)
(*   work  the workers of the instances    (batch_image_worker, _processor,*)
(*                                          _settlement)                   *)
(* A step is one SQL statement or transaction, one call of the provider or *)
(* one queue script.  The user's other batches appear as the frozen money  *)
(* they hold.                                                              *)
(*                                                                         *)
(* Perils names what may go wrong:                                         *)
(*   submitFails, cancelFails, recoveryFails, workerFails                  *)
(*                a statement or call of that process fails without        *)
(*                effect, or the process dies                              *)
(*   replyLost    a statement commits and its caller sees an error         *)
(*   queueDown    an Enqueue fails                                         *)
(*   lockExpires  the job lock of a busy worker runs out                   *)
(*   pause        a live Submit is still for StaleAfter                    *)
(*   earlyCancel  the user cancels before Submit has reserved the hold     *)
(***************************************************************************)
EXTENDS BatchImageHolds

CONSTANTS
    Workers,     \* worker loops
    Costs,       \* what an indexed result may cost
    OtherHolds,  \* what the user's other batches may hold
    MaxRetries,  \* batchImageSettlementMaxRetries
    Perils,      \* what may go wrong
    MaxFaults    \* bound: how often it does

ASSUME JobAssumption ==
    /\ Costs \subseteq 0..Hold
    /\ OtherHolds \subseteq Nat
    /\ MaxRetries \in Nat \ {0}
    /\ MaxFaults \in Nat

VARIABLES
    ledger,    \* the hold: see BatchImageHolds
    others,    \* frozen money of the user's other batches
    job,       \* the row
    aged,      \* its updated_at is older than StaleAfter
    queued,    \* it is in the ready list, the delayed set or the active set
    upstream,  \* the batch at the provider
    sub, can, rec, work,
    faults     \* how often something went wrong, and what

vars == <<ledger, others, job, aged, queued, upstream, sub, can, rec, work,
          faults>>

Statuses == {"none", "created", "uploading", "submitted", "running",
             "indexing", "settling", "completed", "failed", "cancelled"}
Unsubmitted == {"created", "uploading"}
Terminal == {"completed", "failed", "cancelled"}

\* named: provider_job_name is set; settlementError: last_error_code is one
\* of SETTLEMENT_*; hidden: user_hidden_at is set.
Jobs == [status : Statuses, named : BOOLEAN, cost : Costs \cup {0},
         retries : 0..MaxRetries, settlementError : BOOLEAN,
         hidden : BOOLEAN]

SubmitPcs == {"idle", "reserve", "items", "upload", "provider", "update",
              "abort", "enqueue", "release", "giveUp", "record",
              "recordRelease", "enqueueRetry", "done"}
CancelPcs == {"idle", "upstream", "transition", "release", "enqueue"}
RecoveryPcs == {"idle", "release", "enqueue"}
WorkerPcs == {"idle", "settle", "capture", "mark", "recordFailure",
              "release", "recordRelease", "toFailedExhausted", "recheck",
              "process", "poll", "toRunning", "toIndexing", "index",
              "toSettling", "toFailed", "toCancelled", "releaseTerminal"}

\* The variables keep their types.
TypeOK ==
    /\ ledger \in Ledgers
    /\ others \in OtherHolds
    /\ job \in Jobs
    /\ aged \in BOOLEAN
    /\ queued \in BOOLEAN
    /\ upstream \in {"none", "running", "succeeded", "failed", "cancelled"}
    /\ sub \in SubmitPcs
    /\ can \in CancelPcs
    /\ rec \in RecoveryPcs
    /\ work \in [Workers -> WorkerPcs]
    /\ faults \in [count : 0..MaxFaults, kinds : SUBSET Perils]

Init ==
    /\ others \in OtherHolds
    /\ ledger = [frozen |-> others, taken |-> 0, claims |-> {}]
    /\ job = [status |-> "none", named |-> FALSE, cost |-> 0, retries |-> 0,
              settlementError |-> FALSE, hidden |-> FALSE]
    /\ aged = FALSE
    /\ queued = FALSE
    /\ upstream = "none"
    /\ sub = "idle"
    /\ can = "idle"
    /\ rec = "idle"
    /\ work = [w \in Workers |-> "idle"]
    /\ faults = [count |-> 0, kinds |-> {}]

-----------------------------------------------------------------------------
\* CanTransitionBatchImageJob.  output_deleted, which cleanup gives a
\* completed job, is not modelled.
CanTransition(from, to) ==
    /\ from \notin Terminal \cup {"none"}
    /\ \/ to = "failed"
       \/ from = "created" /\ to \in {"uploading", "submitted", "cancelled"}
       \/ from = "uploading" /\ to \in {"submitted", "cancelled"}
       \/ from \in {"submitted", "running"}
            /\ to \in {"running", "indexing", "cancelled"}
       \/ from = "indexing" /\ to = "settling"
       \/ from = "settling" /\ to = "completed"

Fault(kind) ==
    /\ kind \in Perils
    /\ faults.count < MaxFaults
    /\ faults' = [count |-> faults.count + 1,
                  kinds |-> faults.kinds \cup {kind}]

\* A transaction on the ledger: it answers, fails without effect, or commits
\* and loses its answer.
Pay(able, l, kind, Ok, Err) ==
    /\ \/ able /\ ledger' = l /\ Ok /\ UNCHANGED faults
       \/ ~able /\ ledger' = ledger /\ Err /\ UNCHANGED faults
       \/ ledger' = ledger /\ Err /\ Fault(kind)
       \/ able /\ ledger' = l /\ Err /\ Fault("replyLost")
    /\ UNCHANGED <<others, job, aged, upstream>>

\* A write of the row, under the condition the statement checks.  Every
\* write refreshes updated_at.
Write(cond, j, kind, Ok, Refused, Err) ==
    /\ \/ cond /\ job' = j /\ aged' = FALSE /\ Ok /\ UNCHANGED faults
       \/ ~cond /\ UNCHANGED <<job, aged>> /\ Refused /\ UNCHANGED faults
       \/ UNCHANGED <<job, aged>> /\ Err /\ Fault(kind)
       \/ cond /\ job' = j /\ aged' = FALSE /\ Err /\ Fault("replyLost")
    /\ UNCHANGED <<ledger, others, upstream>>

\* A transition of the row to a status.
Transition(to, kind, Ok, Refused, Err) ==
    Write(CanTransition(job.status, to), [job EXCEPT !.status = to],
          kind, Ok, Refused, Err)

\* Enqueue: the in-flight key makes a second one a no-op.
Enqueue(Then) ==
    /\ \/ queued' = TRUE /\ UNCHANGED faults
       \/ UNCHANGED queued /\ Fault("queueDown")
    /\ Then
    /\ UNCHANGED <<ledger, others, job, aged, upstream>>

-----------------------------------------------------------------------------
(* Submit                                                                  *)

Submit(pc) == sub' = pc /\ UNCHANGED <<queued, can, rec, work>>

CreateBatchImageJob ==
    /\ sub = "idle"
    /\ job' = [job EXCEPT !.status = "created"]
    /\ Submit("reserve")
    /\ UNCHANGED <<ledger, others, aged, upstream, faults>>

\* reserveBatchImageBalanceHold; an insufficient balance rolls the claim
\* back.
ReserveBatchImageBalance ==
    /\ sub = "reserve"
    /\ \E sufficient \in BOOLEAN :
         Pay(sufficient, Reserve(ledger), "submitFails",
             Submit("items"), Submit("record"))

CreatePendingItems ==
    /\ sub = "items"
    /\ \/ Submit("upload") /\ UNCHANGED faults
       \/ Submit("release") /\ Fault("submitFails")
    /\ UNCHANGED <<ledger, others, job, aged, upstream>>

\* A refused transition means a concurrent Cancel or sweep.
StartUpload ==
    /\ sub = "upload"
    /\ Transition("uploading", "submitFails",
                  Submit("provider"), Submit("giveUp"), Submit("release"))

\* The heartbeat that runs beside provider.Submit.
TouchBatchImageJobSubmitting ==
    /\ sub = "provider"
    /\ aged
    /\ job.status \in Unsubmitted
    /\ aged' = FALSE
    /\ UNCHANGED <<ledger, others, job, queued, upstream, sub, can, rec, work,
                   faults>>

ProviderSubmit ==
    /\ sub = "provider"
    /\ \/ Submit("update") /\ upstream' = "running"
       \/ Submit("release") /\ UNCHANGED upstream
    /\ UNCHANGED <<ledger, others, job, aged, faults>>

\* Mutant: the status is not checked under the row lock.
UpdateProviderSubmitUnchecked ==
    /\ sub = "update"
    /\ Write(TRUE, [job EXCEPT !.status = "submitted", !.named = TRUE],
             "submitFails",
             Submit("enqueue"), Submit("abort"), Submit("abort"))

UpdateBatchImageJobProviderSubmit ==
    /\ sub = "update"
    /\ Write(CanTransition(job.status, "submitted"),
             [job EXCEPT !.status = "submitted", !.named = TRUE],
             "submitFails",
             Submit("enqueue"), Submit("abort"), Submit("abort"))

\* Best effort: the provider may refuse.
AbortOrphanProviderJob ==
    /\ sub = "abort"
    /\ upstream' \in {upstream, "cancelled"}
    /\ upstream # "running" => UNCHANGED upstream
    /\ Submit("done")
    /\ UNCHANGED <<ledger, others, job, aged, faults>>

\* A failed Enqueue is recorded as QUEUE_FAILED and leaves the status.
SubmitEnqueue ==
    /\ sub = "enqueue"
    /\ sub' = "done"
    /\ \/ queued' = TRUE /\ UNCHANGED <<job, aged, faults>>
       \/ /\ UNCHANGED queued
          /\ job' = [job EXCEPT !.settlementError = FALSE]
          /\ aged' = FALSE
          /\ Fault("queueDown")
    /\ UNCHANGED <<ledger, others, upstream, can, rec, work>>

\* releaseFailedSubmitHold.
ReleaseFailedSubmitHold ==
    /\ sub \in {"release", "giveUp"}
    /\ Pay(CanRelease(ledger), Release(ledger), "submitFails",
           Submit(IF sub = "release" THEN "record" ELSE "done"),
           Submit("recordRelease"))

\* RecordBatchImageJobSubmitFailure writes FAILED over any status; its
\* errors are ignored.  A failure before the provider is hidden from the
\* user, unless it is the release that failed.
RecordBatchImageJobSubmitFailure ==
    LET failed == [job EXCEPT !.status = "failed", !.settlementError = FALSE,
                              !.hidden = @ \/ sub = "record"]
        next == Submit(IF sub = "record" THEN "done" ELSE "enqueueRetry")
    IN  /\ sub \in {"record", "recordRelease"}
        /\ Write(TRUE, failed, "submitFails", next, FALSE, next)

SubmitEnqueueBillingRetry ==
    /\ sub = "enqueueRetry"
    /\ Enqueue(sub' = "done" /\ UNCHANGED <<can, rec, work>>)

SubmitCrash ==
    /\ sub \notin {"idle", "done"}
    /\ Submit("done")
    /\ Fault("submitFails")
    /\ UNCHANGED <<ledger, others, job, aged, upstream>>

\* The client repeats the request with its idempotency key: a batch it reads
\* as submitted is put into the queue again.
Resubmit ==
    /\ sub = "done"
    /\ job.status = "submitted"
    /\ Submit("enqueue")
    /\ UNCHANGED <<ledger, others, job, aged, upstream, faults>>

SubmitSteps ==
    \/ ReserveBatchImageBalance \/ CreatePendingItems
    \/ StartUpload \/ TouchBatchImageJobSubmitting \/ ProviderSubmit
    \/ UpdateBatchImageJobProviderSubmit \/ AbortOrphanProviderJob
    \/ SubmitEnqueue \/ ReleaseFailedSubmitHold
    \/ RecordBatchImageJobSubmitFailure \/ SubmitEnqueueBillingRetry

SubmitNext ==
    CreateBatchImageJob \/ SubmitSteps \/ SubmitCrash \/ Resubmit

-----------------------------------------------------------------------------
(* Cancel                                                                  *)

Cancel(pc) == can' = pc /\ UNCHANGED <<queued, sub, rec, work>>

\* The read that decides what the request does.
CancelRead ==
    /\ can = "idle"
    /\ job.status \notin {"none", "completed", "settling"}
    /\ ~job.hidden
    /\ Cancel(IF job.status \in {"failed", "cancelled"} THEN "release"
              ELSE IF job.named THEN "upstream" ELSE "transition")
    /\ IF sub = "reserve" THEN Fault("earlyCancel") ELSE UNCHANGED faults
    /\ UNCHANGED <<ledger, others, job, aged, upstream>>

\* provider.Cancel; the worker takes the result from there.
CancelUpstream ==
    /\ can = "upstream"
    /\ \/ /\ upstream' = IF upstream = "running" THEN "cancelled" ELSE upstream
          /\ Cancel("enqueue")
          /\ UNCHANGED faults
       \/ Cancel("idle") /\ UNCHANGED upstream /\ Fault("cancelFails")
    /\ UNCHANGED <<ledger, others, job, aged>>

CancelTransition ==
    /\ can = "transition"
    /\ Transition("cancelled", "cancelFails",
                  Cancel("release"), Cancel("idle"), Cancel("idle"))

CancelRelease ==
    /\ can = "release"
    /\ Pay(CanRelease(ledger), Release(ledger), "cancelFails",
           Cancel("idle"), Cancel("enqueue"))

CancelEnqueue ==
    /\ can = "enqueue"
    /\ Enqueue(can' = "idle" /\ UNCHANGED <<sub, rec, work>>)

CancelCrash ==
    /\ can # "idle"
    /\ Cancel("idle")
    /\ Fault("cancelFails")
    /\ UNCHANGED <<ledger, others, job, aged, upstream>>

CancelNext ==
    \/ CancelRead \/ CancelUpstream \/ CancelTransition \/ CancelRelease
    \/ CancelEnqueue \/ CancelCrash

-----------------------------------------------------------------------------
(* The sweep of stale submissions                                          *)

Recover(pc) == rec' = pc /\ UNCHANGED <<queued, sub, can, work>>

\* StaleAfter passes since the last write of the row.
StaleAfterPasses ==
    /\ ~aged
    /\ job.status \in Unsubmitted
    /\ aged' = TRUE
    /\ \/ sub = "done" /\ UNCHANGED faults
       \/ sub # "done" /\ Fault("pause")
    /\ UNCHANGED <<ledger, others, job, queued, upstream, sub, can, rec, work>>

\* Mutant: the sweep looks for uploads only.
StaleUpload == job.status = "uploading" /\ ~job.named /\ aged

Stale == job.status \in Unsubmitted /\ ~job.named /\ aged

FailStaleUnsubmittedBatchImageJob ==
    /\ rec = "idle"
    /\ Stale
    /\ Write(TRUE, [job EXCEPT !.status = "failed"], "recoveryFails",
             Recover("release"), FALSE, Recover("idle"))

RecoveryRelease ==
    /\ rec = "release"
    /\ Pay(CanRelease(ledger), Release(ledger), "recoveryFails",
           Recover("idle"), Recover("enqueue"))

RecoveryEnqueue ==
    /\ rec = "enqueue"
    /\ Enqueue(rec' = "idle" /\ UNCHANGED <<sub, can, work>>)

RecoveryCrash ==
    /\ rec # "idle"
    /\ Recover("idle")
    /\ Fault("recoveryFails")
    /\ UNCHANGED <<ledger, others, job, aged, upstream>>

RecoveryNext ==
    \/ StaleAfterPasses \/ FailStaleUnsubmittedBatchImageJob
    \/ RecoveryRelease \/ RecoveryEnqueue \/ RecoveryCrash

-----------------------------------------------------------------------------
(* The worker                                                              *)

Work(w, pc) ==
    /\ work' = [work EXCEPT ![w] = pc]
    /\ UNCHANGED <<queued, sub, can, rec>>

Leave(w, inQueue) ==
    /\ work' = [work EXCEPT ![w] = "idle"]
    /\ queued' = inQueue
    /\ UNCHANGED <<sub, can, rec>>

Ack(w) == Leave(w, FALSE)
Requeue(w) == Leave(w, TRUE)

\* A worker takes the batch from the queue, and its lock, and reads the row.
\* A batch in progress is redelivered when its worker's lock runs out.
ReserveAndRead(w) ==
    /\ queued
    /\ work[w] = "idle"
    /\ \/ (\A v \in Workers : work[v] = "idle") /\ UNCHANGED faults
       \/ (\E v \in Workers : work[v] # "idle") /\ Fault("lockExpires")
    /\ Work(w, IF job.status = "settling" THEN "settle" ELSE "process")
    /\ UNCHANGED <<ledger, others, job, aged, upstream>>

\* The worker dies; the sweep of the active set redelivers the batch.
WorkerCrash(w) ==
    /\ work[w] # "idle"
    /\ Requeue(w)
    /\ Fault("workerFails")
    /\ UNCHANGED <<ledger, others, job, aged, upstream>>

\* BatchImageProviderProcessor.Process reads the row again.
Process(w) ==
    /\ work[w] = "process"
    /\ \/ /\ job.status \in {"failed", "cancelled"}
          /\ Work(w, "releaseTerminal")
       \/ /\ job.status \in {"completed", "settling"}
          /\ Ack(w)
       \/ /\ job.status \in Unsubmitted
          /\ Requeue(w)
       \/ /\ job.status = "indexing"
          /\ Work(w, "index")
       \/ /\ job.status \in {"submitted", "running"}
          /\ Work(w, "poll")
    /\ UNCHANGED <<ledger, others, job, aged, upstream, faults>>

\* provider.Get.  A batch that the provider still queues is asked for again.
Poll(w) ==
    /\ work[w] = "poll"
    /\ \/ upstream = "running" /\ (Work(w, "toRunning") \/ Requeue(w))
       \/ upstream = "succeeded" /\ Work(w, "toIndexing")
       \/ upstream = "failed" /\ Work(w, "toFailed")
       \/ upstream = "cancelled" /\ Work(w, "toCancelled")
    /\ UNCHANGED <<ledger, others, job, aged, upstream, faults>>

PollFails(w) ==
    /\ work[w] = "poll"
    /\ Requeue(w)
    /\ Fault("workerFails")
    /\ UNCHANGED <<ledger, others, job, aged, upstream>>

ToRunning(w) ==
    /\ work[w] = "toRunning"
    /\ Transition("running", "workerFails",
                  Requeue(w), Requeue(w), Requeue(w))

ToIndexing(w) ==
    /\ work[w] = "toIndexing"
    /\ Transition("indexing", "workerFails",
                  Work(w, "index"), Requeue(w), Requeue(w))

\* Mutant: the items are rebuilt in any status.
IndexAnyStatus(w) ==
    /\ work[w] = "index"
    /\ \/ \E c \in Costs :
            Write(TRUE, [job EXCEPT !.cost = c], "workerFails",
                  Work(w, "toSettling"), Requeue(w), Work(w, "toFailed"))
       \/ /\ Work(w, "toFailed")
          /\ UNCHANGED <<ledger, others, job, aged, upstream, faults>>

\* BatchImageResultIndexer.Index: the counts, and with them the cost, are
\* written while the row is indexing.  Output that does not parse fails the
\* job, and so does any error of the store; output that is not there yet is
\* asked for again.
Index(w) ==
    /\ work[w] = "index"
    /\ \/ \E c \in Costs :
            Write(job.status = "indexing", [job EXCEPT !.cost = c],
                  "workerFails",
                  Work(w, "toSettling"), Requeue(w), Work(w, "toFailed"))
       \/ /\ Work(w, "toFailed")
          /\ UNCHANGED <<ledger, others, job, aged, upstream, faults>>
       \/ /\ Requeue(w)
          /\ Fault("workerFails")
          /\ UNCHANGED <<ledger, others, job, aged, upstream>>

ToSettling(w) ==
    /\ work[w] = "toSettling"
    /\ Transition("settling", "workerFails",
                  Requeue(w), Requeue(w), Requeue(w))

ToFailed(w) ==
    /\ work[w] = "toFailed"
    /\ Transition("failed", "workerFails",
                  Work(w, "releaseTerminal"), Requeue(w), Requeue(w))

ToCancelled(w) ==
    /\ work[w] = "toCancelled"
    /\ Transition("cancelled", "workerFails",
                  Work(w, "releaseTerminal"), Requeue(w), Requeue(w))

ReleaseTerminalHold(w) ==
    /\ work[w] = "releaseTerminal"
    /\ Pay(CanRelease(ledger), Release(ledger), "workerFails",
           Ack(w), Requeue(w))

\* isBatchImageSettlementRetryExhausted.
Exhausted == job.retries >= MaxRetries /\ job.settlementError

\* Settle reads the row again.  Only rows of Submit are settled: their
\* counts, price and cost pass the checks that precede the capture.
Settle(w) ==
    /\ work[w] = "settle"
    /\ \/ job.status = "completed" /\ Ack(w)
       \/ job.status \notin {"completed", "settling"} /\ Requeue(w)
       \/ /\ job.status = "settling"
          /\ Work(w, IF Exhausted THEN "release" ELSE "capture")
    /\ UNCHANGED <<ledger, others, job, aged, upstream, faults>>

\* The cost does not change after indexing: the row's is the one Settle read.
CaptureBatchImageBalance(w) ==
    /\ work[w] = "capture"
    /\ Pay(CanCapture(ledger), Capture(ledger, job.cost), "workerFails",
           Work(w, "mark"), Work(w, "recordFailure"))

MarkBatchImageJobSettled(w) ==
    /\ work[w] = "mark"
    /\ Write(job.status = "settling", [job EXCEPT !.status = "completed"],
             "workerFails", Ack(w), Requeue(w), Requeue(w))

\* SetBatchImageJobSettlementFailed.  Counts above the limit are not told
\* apart.
SettlementFailed ==
    [job EXCEPT !.settlementError = TRUE,
                !.retries = IF @ < MaxRetries THEN @ + 1 ELSE @]

\* An error of the write, or of its event after it, is logged and dropped.
RecordSettlementFailure(w) ==
    /\ work[w] = "recordFailure"
    /\ Write(TRUE, SettlementFailed, "workerFails",
             IF SettlementFailed.retries >= MaxRetries
             THEN Work(w, "release") ELSE Requeue(w),
             FALSE, Requeue(w))

\* failExhaustedSettlement.
ReleaseExhausted(w) ==
    /\ work[w] = "release"
    /\ Pay(CanRelease(ledger), Release(ledger), "workerFails",
           Work(w, "toFailedExhausted"), Work(w, "recordRelease"))

RecordReleaseFailure(w) ==
    /\ work[w] = "recordRelease"
    /\ Write(TRUE, SettlementFailed, "workerFails",
             Work(w, "recheck"), FALSE, Work(w, "recheck"))

ToFailedExhausted(w) ==
    /\ work[w] = "toFailedExhausted"
    /\ Transition("failed", "workerFails",
                  Work(w, "recheck"), Requeue(w), Requeue(w))

\* The pipeline reads the row again after a billing failure.
Recheck(w) ==
    /\ work[w] = "recheck"
    /\ IF job.status \in Terminal THEN Ack(w) ELSE Requeue(w)
    /\ UNCHANGED <<ledger, others, job, aged, upstream, faults>>

WorkerStep(w) ==
    \/ Process(w) \/ Poll(w) \/ PollFails(w) \/ ToRunning(w) \/ ToIndexing(w)
    \/ Index(w) \/ ToSettling(w) \/ ToFailed(w) \/ ToCancelled(w)
    \/ ReleaseTerminalHold(w) \/ Settle(w) \/ CaptureBatchImageBalance(w)
    \/ MarkBatchImageJobSettled(w) \/ RecordSettlementFailure(w)
    \/ ReleaseExhausted(w) \/ RecordReleaseFailure(w) \/ ToFailedExhausted(w)
    \/ Recheck(w)

WorkerNext ==
    \E w \in Workers : ReserveAndRead(w) \/ WorkerStep(w) \/ WorkerCrash(w)

-----------------------------------------------------------------------------
(* The surroundings                                                        *)

\* External: the provider finishes or fails the batch.
UpstreamEnds ==
    /\ upstream = "running"
    /\ upstream' \in {"succeeded", "failed"}
    /\ UNCHANGED <<ledger, others, job, aged, queued, sub, can, rec, work,
                   faults>>

\* The user's other batches reserve, capture and release.
OtherBatches ==
    /\ others' \in OtherHolds \ {others}
    /\ ledger.frozen + others' - others >= 0
    /\ ledger' = [ledger EXCEPT !.frozen = @ + others' - others]
    /\ UNCHANGED <<job, aged, queued, upstream, sub, can, rec, work, faults>>

Next ==
    \/ SubmitNext \/ CancelNext \/ RecoveryNext \/ WorkerNext
    \/ UpstreamEnds \/ OtherBatches

Spec == Init /\ [][Next]_vars

\* Submit, Cancel and the sweep run to their end, time passes, the provider
\* finishes, and the queue serves the batch.
FairSpec ==
    /\ Spec
    /\ WF_vars(SubmitSteps)
    /\ WF_vars(CancelNext /\ can # "idle")
    /\ WF_vars(RecoveryNext)
    /\ \A w \in Workers : WF_vars(ReserveAndRead(w)) /\ WF_vars(WorkerStep(w))
    /\ WF_vars(UpstreamEnds)

-----------------------------------------------------------------------------
(* Properties                                                              *)

\* None of these has happened.
Spared(kinds) == faults.kinds \cap kinds = {}

\* A completed batch has taken exactly the cost of its indexed result from
\* the user: the capture of Settle ran once and no release did.  (A worker
\* that outlives its lock can still complete a batch whose retries another
\* worker exhausted, and a QUEUE_FAILED that overwrites the error code of an
\* exhausted settlement reopens it.)
SettledIsCharged ==
    Spared({"lockExpires", "queueDown"}) /\ job.status = "completed"
      => ledger.taken = job.cost

\* A batch whose hold was given back goes no further: no process submits,
\* indexes or completes it afterwards, although Submit, Cancel, the sweep
\* and the worker each decide on a release from a row they have read before.
RefundedNeverProceeds ==
    Spared({"lockExpires", "queueDown"}) =>
    ({"hold", "release"} \subseteq ledger.claims /\ ledger.taken <= 0
       => job.status \in {"created", "uploading", "settling",
                          "failed", "cancelled"})

\* The user's frozen balance is the sum of the holds that are still open:
\* whichever of Submit, Cancel, the sweep and the worker resolves the batch,
\* the pool gives back its hold once.  This ends when settlement exhausts
\* its retries, since it then releases a hold that may have been captured;
\* with a release that precedes the reservation and uses up its request id;
\* and with a second worker.
FrozenIsOpenHolds ==
    Spared({"lockExpires", "earlyCancel", "pause"}) /\ job.retries < MaxRetries
      => ledger.frozen = others + (IF Open(ledger) THEN Hold ELSE 0)

\* Once a result has been charged no worker, however late, changes it, and
\* a completed batch stays completed: ReplaceBatchImageItemsForJob and the
\* transitions look at the status under the row's lock.
BilledResultIsFinal ==
    [][/\ "capture" \in ledger.claims => job'.cost = job.cost
       /\ job.status = "completed" => job'.status = "completed"]_vars

\* The batch was submitted and never reached the queue: only the client can
\* bring it back, by cancelling it or repeating the request.
LostBeforeQueue == job.status = "submitted" /\ ~queued /\ sub = "done"

\* An open hold is eventually charged or given back: the worker's retries
\* end, and the sweep finds what a dead Submit left behind.
HoldIsResolved == Open(ledger) ~> (~Open(ledger) \/ LostBeforeQueue)

=============================================================================
