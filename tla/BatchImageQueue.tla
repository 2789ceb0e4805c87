-------------------------- MODULE BatchImageQueue --------------------------
(***************************************************************************)
(* The queue of image batches in Redis (repository/batch_image_queue.go)   *)
(* and the loops around it (service/batch_image_worker.go): workers that   *)
(* reserve, lock, process and acknowledge or requeue a batch, the mover of *)
(* due delayed batches and the recovery of stale active ones.              *)
(* A step is one script, one transaction or one command.                   *)
(*                                                                         *)
(* Perils names what may go wrong:                                         *)
(*   workerFails      a call of a worker fails without effect, or the      *)
(*                    worker dies                                          *)
(*   beatsLost        a busy worker's heartbeats do not arrive for         *)
(*                    StaleActiveAfter                                     *)
(*   lockExpires      ... nor for JobLockTTL                               *)
(*   inflightExpires  a batch stays queued for InflightTTL                 *)
(***************************************************************************)
EXTENDS Naturals, Sequences, FiniteSets

CONSTANTS
    Batches,
    Workers,
    None,         \* no batch, and no holder of a lock
    MaxEnqueues,  \* bound: calls of Enqueue that apply
    Perils,       \* what may go wrong
    MaxFaults     \* bound: how often it does

ASSUME QueueAssumption ==
    /\ IsFiniteSet(Batches)
    /\ None \notin Batches \cup Workers
    /\ MaxEnqueues \in Nat
    /\ MaxFaults \in Nat

VARIABLES
    ready,     \* the list; its head is what RPOP takes
    delayed,   \* the sorted set of requeued batches
    active,    \* the sorted set of reserved batches
    stale,     \* those of them whose score is older than StaleActiveAfter
    inflight,  \* the batches whose inflight key is set
    lock,      \* who holds a batch's job lock
    work,      \* the workers
    row,       \* how far the batch is, as its row tells
    enqueues,  \* how many calls of Enqueue applied
    faults     \* how often something went wrong, and what

vars == <<ready, delayed, active, stale, inflight, lock, work, row,
          enqueues, faults>>

\* A worker that processes a batch: in the pipeline, or past the pipeline's
\* read of the row and in the provider's processor.
ProcessPcs == {"process", "provider"}
WorkerPcs == {"idle", "lock", "requeue", "ack", "release"} \cup ProcessPcs

\* open: before settling; over: a terminal status.
RowStates == {"open", "settling", "over"}

\* The variables keep their types.
TypeOK ==
    /\ ready \in Seq(Batches)
    /\ delayed \subseteq Batches
    /\ active \subseteq Batches
    /\ stale \subseteq active
    /\ inflight \subseteq Batches
    /\ lock \in [Batches -> Workers \cup {None}]
    /\ work \in [Workers -> [pc : WorkerPcs, batch : Batches \cup {None}]]
    /\ \A w \in Workers : work[w].pc # "idle" => work[w].batch \in Batches
    /\ row \in [Batches -> RowStates]
    /\ enqueues \in 0..MaxEnqueues
    /\ faults \in [count : 0..MaxFaults, kinds : SUBSET Perils]

Resting == [pc |-> "idle", batch |-> None]

Init ==
    /\ ready = <<>>
    /\ delayed = {}
    /\ active = {}
    /\ stale = {}
    /\ inflight = {}
    /\ lock = [b \in Batches |-> None]
    /\ work = [w \in Workers |-> Resting]
    /\ row = [b \in Batches |-> "open"]
    /\ enqueues = 0
    /\ faults = [count |-> 0, kinds |-> {}]

-----------------------------------------------------------------------------
InReady(b) == \E i \in DOMAIN ready : ready[i] = b

InQueue(b) == InReady(b) \/ b \in delayed \/ b \in active

Goto(w, pc) == work' = [work EXCEPT ![w].pc = pc]

Fault(kind) ==
    /\ kind \in Perils
    /\ faults.count < MaxFaults
    /\ faults' = [count |-> faults.count + 1,
                  kinds |-> faults.kinds \cup {kind}]

\* A worker that is busy with a batch.
Busy(w, b) == work[w].pc # "idle" /\ work[w].batch = b

-----------------------------------------------------------------------------
\* Enqueue: the inflight key and the push are one script.
Enqueue(b) ==
    /\ b \notin inflight
    /\ enqueues < MaxEnqueues
    /\ inflight' = inflight \cup {b}
    /\ ready' = Append(ready, b)
    /\ enqueues' = enqueues + 1
    /\ UNCHANGED <<delayed, active, stale, lock, work, row, faults>>

\* Mutant: a pop that does not write the active set.
ReserveOnlyPops(w) ==
    /\ work[w].pc = "idle"
    /\ ready # <<>>
    /\ ready' = Tail(ready)
    /\ work' = [work EXCEPT ![w] = [pc |-> "lock", batch |-> Head(ready)]]
    /\ UNCHANGED <<delayed, active, stale, inflight, lock, row, enqueues,
                   faults>>

\* Reserve: the pop and the active set are one script.
Reserve(w) ==
    /\ work[w].pc = "idle"
    /\ ready # <<>>
    /\ ready' = Tail(ready)
    /\ active' = active \cup {Head(ready)}
    /\ stale' = stale \ {Head(ready)}
    /\ work' = [work EXCEPT ![w] = [pc |-> "lock", batch |-> Head(ready)]]
    /\ UNCHANGED <<delayed, inflight, lock, row, enqueues, faults>>

\* Mutant: the lock is taken whoever holds it.
TryAcquireTakesOver(w) ==
    LET b == work[w].batch
    IN  /\ work[w].pc = "lock"
        /\ lock' = [lock EXCEPT ![b] = w]
        /\ Goto(w, "process")
        /\ UNCHANGED <<ready, delayed, active, stale, inflight, row,
                       enqueues, faults>>

\* TryAcquireJobLock; a held lock or an error sends the batch back.
TryAcquireJobLock(w) ==
    LET b == work[w].batch
    IN  /\ work[w].pc = "lock"
        /\ \/ /\ lock[b] = None
              /\ lock' = [lock EXCEPT ![b] = w]
              /\ Goto(w, "process")
              /\ UNCHANGED faults
           \/ /\ lock[b] # None
              /\ Goto(w, "requeue")
              /\ UNCHANGED <<lock, faults>>
           \/ /\ Fault("workerFails")
              /\ Goto(w, "requeue")
              /\ UNCHANGED lock
        /\ UNCHANGED <<ready, delayed, active, stale, inflight, row,
                       enqueues>>

\* BatchImagePipelineProcessor.Process reads the row.  A settling batch is
\* settled, with success or for want of retries; any other is for the
\* provider's processor.
Process(w) ==
    LET b == work[w].batch
    IN  /\ work[w].pc = "process"
        /\ \/ /\ row[b] = "settling"
              /\ row' = [row EXCEPT ![b] = "over"]
              /\ Goto(w, "ack")
              /\ UNCHANGED faults
           \/ /\ row[b] # "settling"
              /\ Goto(w, "provider")
              /\ UNCHANGED <<row, faults>>
           \/ /\ Fault("workerFails")
              /\ Goto(w, "requeue")
              /\ UNCHANGED row
        /\ UNCHANGED <<ready, delayed, active, stale, inflight, lock,
                       enqueues>>

\* Mutant: the batch is done with once its result is indexed.
ProviderProcessAcksIndexed(w) ==
    LET b == work[w].batch
    IN  /\ work[w].pc = "provider"
        /\ row' = [row EXCEPT ![b] = IF @ = "open" THEN "settling" ELSE @]
        /\ Goto(w, "ack")
        /\ UNCHANGED <<ready, delayed, active, stale, inflight, lock,
                       enqueues, faults>>

\* BatchImageProviderProcessor.Process reads the row again, and answers
\* Terminal for a settling one too.  It asks for more time while the provider
\* works and once it has indexed the result (indexAndSettle).
ProviderProcess(w) ==
    LET b == work[w].batch
    IN  /\ work[w].pc = "provider"
        /\ \/ /\ row[b] \in {"settling", "over"}
              /\ Goto(w, "ack")
              /\ UNCHANGED <<row, faults>>
           \/ /\ row[b] = "open"
              /\ \E to \in {"open", "settling"} :
                    row' = [row EXCEPT ![b] = to]
              /\ Goto(w, "requeue")
              /\ UNCHANGED faults
           \/ /\ Fault("workerFails")
              /\ Goto(w, "requeue")
              /\ UNCHANGED row
        /\ UNCHANGED <<ready, delayed, active, stale, inflight, lock,
                       enqueues>>

\* The batch fails or is cancelled: at the provider, by its user or by a
\* sweep, and once it is settling only by an indexer that is late.
BatchEnds(b) ==
    /\ \/ row[b] = "open"
       \/ /\ row[b] = "settling"
          /\ \E w \in Workers : work[w].pc = "provider" /\ Busy(w, b)
    /\ row' = [row EXCEPT ![b] = "over"]
    /\ UNCHANGED <<ready, delayed, active, stale, inflight, lock, work,
                   enqueues, faults>>

\* Heartbeat of a processing worker: ZADD XX refreshes a member that is
\* there and adds none.
Heartbeat(w) ==
    /\ work[w].pc \in ProcessPcs
    /\ stale' = stale \ {work[w].batch}
    /\ UNCHANGED <<ready, delayed, active, inflight, lock, work, row,
                   enqueues, faults>>

\* RequeueAfter leaves the lock to the deferred Release, of a lock the
\* worker may not have.
RequeueAfter(w) ==
    LET b == work[w].batch
    IN  /\ work[w].pc = "requeue"
        /\ \/ /\ active' = active \ {b}
              /\ stale' = stale \ {b}
              /\ delayed' = delayed \cup {b}
              /\ UNCHANGED faults
           \/ /\ Fault("workerFails")
              /\ UNCHANGED <<active, stale, delayed>>
        /\ Goto(w, "release")
        /\ UNCHANGED <<ready, inflight, lock, row, enqueues>>

\* Mutant: the inflight key is deleted, the active set is left.
AckInflightOnly(w) ==
    LET b == work[w].batch
    IN  /\ work[w].pc = "ack"
        /\ inflight' = inflight \ {b}
        /\ Goto(w, "release")
        /\ UNCHANGED <<ready, delayed, active, stale, lock, row, enqueues,
                       faults>>

Ack(w) ==
    LET b == work[w].batch
    IN  /\ work[w].pc = "ack"
        /\ \/ /\ active' = active \ {b}
              /\ stale' = stale \ {b}
              /\ delayed' = delayed \ {b}
              /\ inflight' = inflight \ {b}
              /\ UNCHANGED faults
           \/ /\ Fault("workerFails")
              /\ UNCHANGED <<active, stale, delayed, inflight>>
        /\ Goto(w, "release")
        /\ UNCHANGED <<ready, lock, row, enqueues>>

\* Release: only the holder's token deletes the key.
Release(w) ==
    LET b == work[w].batch
    IN  /\ work[w].pc = "release"
        /\ \/ /\ lock' = IF lock[b] = w THEN [lock EXCEPT ![b] = None]
                                        ELSE lock
              /\ UNCHANGED faults
           \/ /\ Fault("workerFails")
              /\ UNCHANGED lock
        /\ work' = [work EXCEPT ![w] = Resting]
        /\ UNCHANGED <<ready, delayed, active, stale, inflight, row,
                       enqueues>>

\* The worker dies.
Crash(w) ==
    /\ work[w].pc # "idle"
    /\ Fault("workerFails")
    /\ work' = [work EXCEPT ![w] = Resting]
    /\ UNCHANGED <<ready, delayed, active, stale, inflight, lock, row,
                   enqueues>>

-----------------------------------------------------------------------------
\* The batches of a set in the order of their scores, which is any order.
Arrangements(S) ==
    {s \in [1..Cardinality(S) -> S] : \A b \in S : \E i \in DOMAIN s : s[i] = b}

\* MoveDueDelayedToReady, for the delayed batches that are due.
MoveDueDelayedToReady ==
    \E due \in SUBSET delayed : \E s \in Arrangements(due) :
        /\ due # {}
        /\ delayed' = delayed \ due
        /\ ready' = ready \o s
        /\ UNCHANGED <<active, stale, inflight, lock, work, row, enqueues,
                       faults>>

\* Mutant: a stale batch gets a new score and stays where it is.
RecoverOnlyRescores ==
    /\ stale # {}
    /\ stale' = {}
    /\ UNCHANGED <<ready, delayed, active, inflight, lock, work, row,
                   enqueues, faults>>

\* RecoverStaleActive.
RecoverStaleActive ==
    \E s \in Arrangements(stale) :
        /\ stale # {}
        /\ active' = active \ stale
        /\ stale' = {}
        /\ ready' = ready \o s
        /\ UNCHANGED <<delayed, inflight, lock, work, row, enqueues, faults>>

\* StaleActiveAfter passes without a heartbeat.
GoesStale(b) ==
    /\ b \in active \ stale
    /\ stale' = stale \cup {b}
    /\ \/ (\A w \in Workers : ~Busy(w, b)) /\ UNCHANGED faults
       \/ (\E w \in Workers : Busy(w, b)) /\ Fault("beatsLost")
    /\ UNCHANGED <<ready, delayed, active, inflight, lock, work, row,
                   enqueues>>

\* JobLockTTL passes without a refresh by the holder.
LockExpires(b) ==
    /\ lock[b] # None
    /\ lock' = [lock EXCEPT ![b] = None]
    /\ \/ ~Busy(lock[b], b) /\ UNCHANGED faults
       \/ Busy(lock[b], b) /\ Fault("lockExpires")
    /\ UNCHANGED <<ready, delayed, active, stale, inflight, work, row,
                   enqueues>>

\* InflightTTL passes.
InflightExpires(b) ==
    /\ b \in inflight
    /\ Fault("inflightExpires")
    /\ inflight' = inflight \ {b}
    /\ UNCHANGED <<ready, delayed, active, stale, lock, work, row, enqueues>>

-----------------------------------------------------------------------------
RunOnce(w) ==
    \/ Reserve(w) \/ TryAcquireJobLock(w) \/ Process(w)
    \/ ProviderProcess(w) \/ RequeueAfter(w) \/ Ack(w) \/ Release(w)

TimePasses(b) == GoesStale(b) \/ LockExpires(b) \/ InflightExpires(b)

Next ==
    \/ \E w \in Workers : RunOnce(w) \/ Heartbeat(w) \/ Crash(w)
    \/ \E b \in Batches : Enqueue(b) \/ BatchEnds(b) \/ TimePasses(b)
    \/ MoveDueDelayedToReady
    \/ RecoverStaleActive

Spec == Init /\ [][Next]_vars

\* The loops of Run, RunDelayedMover and RunStaleActiveRecovery go on as
\* long as the process lives, time passes, and the provider ends its batches.
\* No peril is ever due.
Unforced(A) == A /\ UNCHANGED faults

Fairness ==
    /\ \A w \in Workers : WF_vars(Unforced(RunOnce(w)))
    /\ \A b \in Batches : /\ WF_vars(Unforced(GoesStale(b)))
                          /\ WF_vars(Unforced(LockExpires(b)))
                          /\ WF_vars(BatchEnds(b))
    /\ WF_vars(MoveDueDelayedToReady)
    /\ WF_vars(RecoverStaleActive)

LiveSpec == Spec /\ Fairness

-----------------------------------------------------------------------------
Saw(kinds) == faults.kinds \cap kinds # {}

\* A batch whose inflight key keeps everybody from enqueueing it is in one
\* of the three structures: no crash, late Ack or late requeue loses it
\* (the comments on the Reserve and Enqueue scripts).
InflightIsQueued ==
    \A b \in inflight : InQueue(b)

\* A batch is in one place only, and has its inflight key, whatever fails,
\* as long as heartbeats arrive and the keys live: RequeueAfter and Ack take
\* it out of where Reserve put it.
OnePlace ==
    \/ /\ \A i, j \in DOMAIN ready : ready[i] = ready[j] => i = j
       /\ \A b \in Batches :
             /\ InQueue(b) => b \in inflight
             /\ b \in delayed => ~InReady(b) /\ b \notin active
             /\ b \in active => ~InReady(b)
    \/ Saw({"beatsLost", "inflightExpires"})

\* Two workers process a batch at the same time only if a lock expired under
\* the first.
OneProcessor ==
    \A v, w \in Workers :
        /\ v # w
        /\ work[v].pc \in ProcessPcs /\ work[w].pc \in ProcessPcs
        /\ work[v].batch = work[w].batch
        => Saw({"lockExpires"})

\* The queue's state as its contract knows it.
Contract == INSTANCE BatchImageQueueContract
    WITH queued <- {b \in Batches : InQueue(b)},
         lapsed <- Saw({"lockExpires"})

\* The queue keeps the promise BatchImageJob relies on: Ack takes out only a
\* batch that is over, whatever fails, or a settling one after a job lock
\* ran out under its worker.
KeepsContract == Contract!Spec

\* Every batch that was enqueued is acknowledged.
EveryBatchIsAcknowledged ==
    \A b \in Batches : []<>(~InQueue(b))

=============================================================================
