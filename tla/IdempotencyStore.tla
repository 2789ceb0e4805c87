-------------------------- MODULE IdempotencyStore --------------------------
(***************************************************************************)
(* One row of the table idempotency_records, the row of one (scope, key),  *)
(* and the conditional writes of repository/idempotency_repo.go on it.     *)
(* The idempotency coordinator and the system operation lock share it.     *)
(*                                                                         *)
(* Each operator is what one SQL statement makes of the row.  Times are    *)
(* natural numbers.  A NULL locked_until is 0: the statements and the      *)
(* callers treat NULL as a time that has passed.  An absent row has id 0,  *)
(* and an id is never given twice.                                         *)
(***************************************************************************)
EXTENDS Naturals

Statuses == {"absent", "processing", "succeeded", "failed_retryable"}

Absent ==
    [id |-> 0, fp |-> "none", status |-> "absent", lockedUntil |-> 0,
     expiresAt |-> 0, body |-> "none"]

Present(row) == row.status # "absent"

\* INSERT ... ON CONFLICT DO NOTHING, where there is no row.
Inserted(id, fp, lockedUntil, expiresAt) ==
    [id |-> id, fp |-> fp, status |-> "processing",
     lockedUntil |-> lockedUntil, expiresAt |-> expiresAt, body |-> "none"]

\* Mutant: the reclaim does not look at the status it was decided on.
ReclaimableAnyStatus(row, id, from, now) ==
    row.id = id /\ row.lockedUntil <= now

\* Mutant: the reclaim does not look at the lock.
ReclaimableWhileLocked(row, id, from, now) ==
    row.id = id /\ row.status = from

\* The WHERE clause of TryReclaim.
Reclaimable(row, id, from, now) ==
    row.id = id /\ row.status = from /\ row.lockedUntil <= now

\* The SET clause of TryReclaim: the fingerprint and the body stay.
Reclaimed(row, lockedUntil, expiresAt) ==
    [row EXCEPT !.status = "processing", !.lockedUntil = lockedUntil,
                !.expiresAt = expiresAt]

\* The WHERE clause of ExtendProcessingLock.
Extendable(row, id, fp) ==
    row.id = id /\ row.status = "processing" /\ row.fp = fp

Extended(row, lockedUntil, expiresAt) ==
    [row EXCEPT !.lockedUntil = lockedUntil, !.expiresAt = expiresAt]

\* MarkSucceeded, whatever the row's status.
Succeeded(row, id, body, expiresAt) ==
    IF row.id = id
    THEN [row EXCEPT !.status = "succeeded", !.lockedUntil = 0,
                     !.expiresAt = expiresAt, !.body = body]
    ELSE row

\* MarkFailedRetryable, whatever the row's status.
FailedRetryable(row, id, lockedUntil, expiresAt) ==
    IF row.id = id
    THEN [row EXCEPT !.status = "failed_retryable",
                     !.lockedUntil = lockedUntil, !.expiresAt = expiresAt]
    ELSE row

\* The WHERE clause of DeleteExpired, whatever the row's status.
Expired(row, now) == Present(row) /\ row.expiresAt <= now

=============================================================================
