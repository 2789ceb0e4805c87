---------------------- MODULE IdempotencyProofs ----------------------
(***************************************************************************)
(* Proofs about the two users of idempotency_records: the coordinator,     *)
(* for any number of requests and payloads and any durations, and, in the  *)
(* second half, the system operation lock.                                 *)
(*                                                                         *)
(* The inductive invariant IInv says what the runs' invariants leave out:  *)
(* which rows the requests know (Ids, Payload), what a stored body is      *)
(* (Bodies), that a request is on the path of an expired row only after    *)
(* one has expired (Life), and that until then the row shows whether its   *)
(* key has an owner (Owner) and whether its effect has happened (Effect).  *)
(***************************************************************************)
EXTENDS IdempotencyCoordinator, SystemOperationLock, TLAPS

Started ==
    \A r \in Requests :
        /\ start[r] <= clock
        /\ pc[r] = "idle" => id[r] = 0
        /\ pc[r] = "executed" => r \in effects
        /\ r \in effects =>
             /\ pc[r] \notin StorePcs
             /\ pc[r] \notin {"idle", "executing", "executeFailed"}
             /\ id[r] # 0

Ids ==
    /\ row.id = 0 <=> row.status = "absent"
    /\ row.id < nextId
    /\ \A r \in Requests :
         /\ id[r] < nextId
         /\ pc[r] \in {"reclaimExpired", "reclaimFailed"} \cup HoldingPcs
              => id[r] # 0

Payload ==
    /\ \A r \in Requests :
         id[r] = row.id /\ id[r] # 0 => fp[r] = row.fp
    /\ OnePayloadPerRow

Bodies ==
    /\ row.body \in Requests =>
         row.body \in effects /\ fp[row.body] = row.fp
    /\ row.status = "succeeded" => row.body # "none"

Life ==
    /\ Expired(row, clock) => row.id \in expiredRows
    /\ \A r \in Requests :
         /\ pc[r] = "reclaimExpired" => id[r] \in expiredRows
         /\ pc[r] = "reclaimFailed" => from[r] = "failed_retryable"

Owner ==
    \A r \in Requests :
        pc[r] \in HoldingPcs /\ id[r] \notin expiredRows =>
            /\ row.status = "processing"
            /\ row.id = id[r]
            /\ \A s \in Requests :
                 pc[s] \in HoldingPcs /\ id[s] = id[r] => s = r

Effect ==
    \A r \in effects :
        id[r] \notin expiredRows =>
            /\ row.status \in {"processing", "succeeded"}
            /\ row.id = id[r]
            /\ \A s \in Requests :
                 id[s] = id[r] =>
                     /\ pc[s] \notin {"executing", "executeFailed"}
                     /\ s \in effects => s = r

IInv ==
    /\ TypeOK /\ Started /\ Ids /\ Payload /\ Bodies
    /\ ReplayIsOfSamePayload /\ Life /\ Owner /\ Effect

USE DurationsAssumption, NamesAssumption

-----------------------------------------------------------------------------
(* What the statements make of the row and of the rows that expired.       *)

LEMMA ExpiredIdsFacts ==
    ASSUME NEW rw \in Rows, NEW now \in Nat
    PROVE  /\ ExpiredIds(rw, now) \subseteq Nat
           /\ Expired(rw, now) => rw.id \in ExpiredIds(rw, now)
  BY DEF Rows, ExpiredIds

LEMMA ReclaimedFacts ==
    ASSUME NEW rw \in Rows, NEW until \in Nat, NEW expiry \in Nat
    PROVE  /\ Reclaimed(rw, until, expiry) \in Rows
           /\ Reclaimed(rw, until, expiry).id = rw.id
           /\ Reclaimed(rw, until, expiry).fp = rw.fp
           /\ Reclaimed(rw, until, expiry).status = "processing"
           /\ Reclaimed(rw, until, expiry).body = rw.body
  BY DEF Rows, Statuses, Reclaimed

LEMMA SucceededFacts ==
    ASSUME NEW rw \in Rows, NEW i \in Nat, NEW expiry \in Nat,
           NEW stored \in Requests \cup {"truncated"}
    PROVE  Succeeded(rw, i, stored, expiry) \in Rows
  BY DEF Rows, Statuses, Succeeded

LEMMA FailedRetryableFacts ==
    ASSUME NEW rw \in Rows, NEW i \in Nat, NEW until \in Nat,
           NEW expiry \in Nat
    PROVE  FailedRetryable(rw, i, until, expiry) \in Rows
  BY DEF Rows, Statuses, FailedRetryable

LEMMA DeadlinesFacts ==
    ASSUME TypeOK, NEW r \in Requests
    PROVE  /\ LockedUntil(r) \in Nat
           /\ ExpiresAt(r) \in Nat
           /\ clock + Backoff \in Nat
  BY DEF TypeOK, LockedUntil, ExpiresAt

LEMMA WriteFacts ==
    ASSUME IInv, NEW new \in Rows, Write(new)
    PROVE  /\ row' = new
           /\ row' \in Rows
           /\ expiredRows' \subseteq Nat
           /\ expiredRows \subseteq expiredRows'
           /\ Expired(row', clock) => row'.id \in expiredRows'
<1>1. clock \in Nat /\ expiredRows \subseteq Nat
  BY DEF IInv, TypeOK
<1> QED  BY <1>1, ExpiredIdsFacts DEF Write

LEMMA InsertRowFacts ==
    ASSUME IInv, NEW r \in Requests, InsertRow(r)
    PROVE  /\ row' \in Rows
           /\ row'.id = nextId
           /\ row'.fp = fp[r]
           /\ row'.status = "processing"
           /\ row'.body = "none"
           /\ expiredRows' \subseteq Nat
           /\ expiredRows \subseteq expiredRows'
           /\ Expired(row', clock) => row'.id \in expiredRows'
<1> DEFINE new == Inserted(nextId, fp[r], LockedUntil(r), ExpiresAt(r))
<1>1. /\ new \in Rows
      /\ new.id = nextId /\ new.fp = fp[r]
      /\ new.status = "processing" /\ new.body = "none"
  BY DEF IInv, TypeOK, Rows, Statuses, Inserted, LockedUntil, ExpiresAt
<1>2. Write(new)
  BY DEF InsertRow
<1> HIDE DEF new
<1> QED  BY <1>1, <1>2, WriteFacts

LEMMA ReclaimRowFacts ==
    ASSUME IInv, NEW r \in Requests, ReclaimRow(r)
    PROVE  /\ row' \in Rows
           /\ row'.id = row.id
           /\ row'.fp = row.fp
           /\ row'.status = "processing"
           /\ row'.body = row.body
           /\ expiredRows' \subseteq Nat
           /\ expiredRows \subseteq expiredRows'
           /\ Expired(row', clock) => row'.id \in expiredRows'
<1> DEFINE new == Reclaimed(row, LockedUntil(r), ExpiresAt(r))
<1>1. /\ new \in Rows
      /\ new.id = row.id /\ new.fp = row.fp
      /\ new.status = "processing" /\ new.body = row.body
  <2>1. row \in Rows /\ TypeOK
    BY DEF IInv, TypeOK
  <2>2. LockedUntil(r) \in Nat /\ ExpiresAt(r) \in Nat
    BY <2>1, DeadlinesFacts
  <2> QED  BY <2>1, <2>2, ReclaimedFacts, Zenon
<1>2. Write(new)
  BY DEF ReclaimRow
<1> HIDE DEF new
<1> QED  BY <1>1, <1>2, WriteFacts

LEMMA MarkFacts ==
    ASSUME IInv, NEW r \in Requests,
           \/ \E stored \in {r, "truncated"} :
                Write(Succeeded(row, id[r], stored, ExpiresAt(r)))
           \/ Write(FailedRetryable(row, id[r], clock + Backoff,
                                    ExpiresAt(r)))
    PROVE  /\ row' \in Rows
           /\ expiredRows' \subseteq Nat
           /\ expiredRows \subseteq expiredRows'
           /\ Expired(row', clock) => row'.id \in expiredRows'
<1>1. \A stored \in {r, "truncated"} :
          Succeeded(row, id[r], stored, ExpiresAt(r)) \in Rows
  BY SucceededFacts, DeadlinesFacts DEF IInv, TypeOK
<1>2. FailedRetryable(row, id[r], clock + Backoff, ExpiresAt(r)) \in Rows
  BY FailedRetryableFacts, DeadlinesFacts DEF IInv, TypeOK
<1> QED  BY <1>1, <1>2, WriteFacts

-----------------------------------------------------------------------------
(* Every step keeps the invariant.                                         *)

LEMMA StartKeeps ==
    ASSUME IInv, NEW r \in Requests, NEW f \in Fingerprints, Start(r, f)
    PROVE  IInv'
<1>1. TypeOK'
  BY DEF Start, Goto, HoldingPcs, InFlight, StorePcs, Answers, Pcs,
         Statuses, Rows, IInv, TypeOK, reading
<1>2. Started'
  BY DEF Start, Goto, StorePcs, HoldingPcs, IInv, TypeOK, Started, Ids,
         reading
<1>3. Ids'
  BY DEF Start, Goto, HoldingPcs, Statuses, Rows, IInv, TypeOK, Ids, reading
<1>4. Payload'
  BY DEF Start, Goto, HoldingPcs, Rows, IInv, TypeOK, Ids, Payload, Started,
         OnePayloadPerRow, reading
<1>5. Bodies'
  BY DEF Start, Goto, Rows, IInv, TypeOK, Started, Ids, Payload, Bodies,
         reading
<1>6. ReplayIsOfSamePayload'
  BY DEF Start, Goto, Rows, IInv, TypeOK, Started, Bodies,
         ReplayIsOfSamePayload, reading
<1>7. Life'
  BY DEF Start, Goto, Rows, IInv, TypeOK, Started, Life, Expired, Present,
         reading
<1>8. Owner'
  BY DEF Start, Goto, HoldingPcs, StorePcs, Rows, IInv, TypeOK, Ids, Life,
         Owner, reading
<1>9. Effect'
  BY DEF Start, Goto, HoldingPcs, StorePcs, Rows, IInv, TypeOK, Started,
         Ids, Life, Owner, Effect, reading
<1> QED  BY <1>1, <1>2, <1>3, <1>4, <1>5, <1>6, <1>7, <1>8, <1>9 DEF IInv

LEMMA CreateProcessingKeeps ==
    ASSUME IInv, NEW r \in Requests, CreateProcessing(r)
    PROVE  IInv'
<1>1. TypeOK'
  <2>1. row' \in Rows /\ expiredRows' \subseteq Nat
    BY InsertRowFacts DEF CreateProcessing, InsertRow, Present, IInv,
           TypeOK, reading
  <2>2. clock' \in Nat /\ nextId' \in Nat \ {0}
    BY DEF CreateProcessing, InsertRow, Present, IInv, TypeOK, reading
  <2> QED
    BY <2>1, <2>2 DEF CreateProcessing, Goto, InsertRow, Present,
           HoldingPcs, InFlight, StorePcs, Answers, Pcs, Statuses, IInv,
           TypeOK, reading
<1>2. Started'
  BY InsertRowFacts DEF CreateProcessing, Goto, InsertRow, Present, Expired,
         StorePcs, HoldingPcs, IInv, TypeOK, Started, Ids, reading
<1>3. Ids'
  BY InsertRowFacts DEF CreateProcessing, Goto, InsertRow, Present, Expired,
         HoldingPcs, Statuses, Rows, IInv, TypeOK, Ids, reading
<1>4. Payload'
  BY InsertRowFacts DEF CreateProcessing, Goto, InsertRow, Present, Expired,
         HoldingPcs, Rows, IInv, TypeOK, Ids, Payload, Started,
         OnePayloadPerRow, reading
<1>5. Bodies'
  BY InsertRowFacts DEF CreateProcessing, Goto, InsertRow, Present, Expired,
         Rows, IInv, TypeOK, Started, Ids, Payload, Bodies, reading
<1>6. ReplayIsOfSamePayload'
  BY InsertRowFacts DEF CreateProcessing, Goto, InsertRow, Present, Expired,
         Rows, IInv, TypeOK, Started, Bodies, ReplayIsOfSamePayload, reading
<1>7. Life'
  BY InsertRowFacts DEF CreateProcessing, Goto, InsertRow, Present, IInv,
         TypeOK, Started, Life, reading
<1>8. Owner'
  BY InsertRowFacts DEF CreateProcessing, Goto, InsertRow, Present, Expired,
         HoldingPcs, StorePcs, Rows, IInv, TypeOK, Ids, Life, Owner, reading
<1>9. Effect'
  BY InsertRowFacts DEF CreateProcessing, Goto, InsertRow, Present, Expired,
         HoldingPcs, StorePcs, Rows, IInv, TypeOK, Started, Ids, Life,
         Owner, Effect, reading
<1> QED  BY <1>1, <1>2, <1>3, <1>4, <1>5, <1>6, <1>7, <1>8, <1>9 DEF IInv

LEMMA GetExistingKeeps ==
    ASSUME IInv, NEW r \in Requests, GetExisting(r)
    PROVE  IInv'
<1>1. TypeOK'
  BY DEF GetExisting, Goto, Answer, Remember, Dispatch, Replay, SamePayload,
         Present, ExpiredIds, Expired, HoldingPcs, InFlight, StorePcs,
         Answers, Pcs, Statuses, Rows, IInv, TypeOK, reading
<1>2. Started'
  BY DEF GetExisting, Goto, Answer, Remember, Dispatch, Replay, SamePayload,
         Present, ExpiredIds, Expired, StorePcs, HoldingPcs, IInv, TypeOK,
         Started, Ids, reading
<1>3. Ids'
  BY DEF GetExisting, Goto, Answer, Remember, Dispatch, Replay, SamePayload,
         Present, ExpiredIds, Expired, HoldingPcs, Statuses, Rows, IInv,
         TypeOK, Ids, reading
<1>4. Payload'
  BY DEF GetExisting, Goto, Answer, Remember, Dispatch, Replay, SamePayload,
         Present, ExpiredIds, Expired, HoldingPcs, Rows, IInv, TypeOK, Ids,
         Payload, Started, OnePayloadPerRow, reading
<1>5. Bodies'
  BY DEF GetExisting, Goto, Answer, Remember, Dispatch, Replay, SamePayload,
         Present, ExpiredIds, Expired, Rows, IInv, TypeOK, Started, Ids,
         Payload, Bodies, reading
<1>6. ReplayIsOfSamePayload'
  BY DEF GetExisting, Goto, Answer, Remember, Dispatch, Replay, SamePayload,
         Present, ExpiredIds, Expired, Rows, IInv, TypeOK, Started, Bodies,
         ReplayIsOfSamePayload, reading
<1>7. Life'
  BY DEF GetExisting, Goto, Answer, Remember, Dispatch, Replay, SamePayload,
         Present, ExpiredIds, Expired, Rows, IInv, TypeOK, Started, Life,
         reading
<1>8. Owner'
  BY DEF GetExisting, Goto, Answer, Remember, Dispatch, Replay, SamePayload,
         Present, ExpiredIds, Expired, HoldingPcs, StorePcs, Rows, IInv,
         TypeOK, Ids, Life, Owner, reading
<1>9. Effect'
  BY DEF GetExisting, Goto, Answer, Remember, Dispatch, Replay, SamePayload,
         Present, ExpiredIds, Expired, HoldingPcs, StorePcs, Rows, IInv,
         TypeOK, Started, Ids, Life, Owner, Effect, reading
<1> QED  BY <1>1, <1>2, <1>3, <1>4, <1>5, <1>6, <1>7, <1>8, <1>9 DEF IInv

LEMMA RereadKeeps ==
    ASSUME IInv, NEW r \in Requests, Reread(r)
    PROVE  IInv'
<1>1. TypeOK'
  BY DEF Reread, Goto, Answer, Remember, Dispatch, Replay, SamePayload,
         Present, HoldingPcs, InFlight, StorePcs, Answers, Pcs, Statuses,
         Rows, IInv, TypeOK, reading
<1>2. Started'
  BY DEF Reread, Goto, Answer, Remember, Dispatch, Replay, SamePayload,
         Present, StorePcs, HoldingPcs, IInv, TypeOK, Started, Ids, reading
<1>3. Ids'
  BY DEF Reread, Goto, Answer, Remember, Dispatch, Replay, SamePayload,
         Present, HoldingPcs, Statuses, Rows, IInv, TypeOK, Ids, reading
<1>4. Payload'
  BY DEF Reread, Goto, Answer, Remember, Dispatch, Replay, SamePayload,
         Present, HoldingPcs, Rows, IInv, TypeOK, Ids, Payload, Started,
         OnePayloadPerRow, reading
<1>5. Bodies'
  BY DEF Reread, Goto, Answer, Remember, Dispatch, Replay, SamePayload,
         Present, Rows, IInv, TypeOK, Started, Ids, Payload, Bodies, reading
<1>6. ReplayIsOfSamePayload'
  BY DEF Reread, Goto, Answer, Remember, Dispatch, Replay, SamePayload,
         Present, Rows, IInv, TypeOK, Started, Bodies,
         ReplayIsOfSamePayload, reading
<1>7. Life'
  BY DEF Reread, Goto, Answer, Remember, Dispatch, Replay, SamePayload,
         Present, Rows, IInv, TypeOK, Started, Life, Expired, reading
<1>8. Owner'
  BY DEF Reread, Goto, Answer, Remember, Dispatch, Replay, SamePayload,
         Present, HoldingPcs, StorePcs, Rows, IInv, TypeOK, Ids, Life,
         Owner, reading
<1>9. Effect'
  BY DEF Reread, Goto, Answer, Remember, Dispatch, Replay, SamePayload,
         Present, HoldingPcs, StorePcs, Rows, IInv, TypeOK, Started, Ids,
         Life, Owner, Effect, reading
<1> QED  BY <1>1, <1>2, <1>3, <1>4, <1>5, <1>6, <1>7, <1>8, <1>9 DEF IInv

LEMMA TryReclaimKeeps ==
    ASSUME IInv, NEW r \in Requests, TryReclaim(r)
    PROVE  IInv'
<1>1. TypeOK'
  <2>1. row' \in Rows /\ expiredRows' \subseteq Nat
    BY ReclaimRowFacts DEF TryReclaim, ReclaimRow, CanReclaim, Reclaimable,
           Present, IInv, TypeOK, reading
  <2>2. clock' \in Nat /\ nextId' \in Nat \ {0}
    BY DEF TryReclaim, ReclaimRow, CanReclaim, Reclaimable, Present, IInv,
           TypeOK, reading
  <2> QED
    BY <2>1, <2>2 DEF TryReclaim, Goto, ReclaimRow, CanReclaim, Reclaimable,
           Present, HoldingPcs, InFlight, StorePcs, Answers, Pcs, Statuses,
           IInv, TypeOK, reading
<1>2. Started'
  BY ReclaimRowFacts DEF TryReclaim, Goto, ReclaimRow, CanReclaim,
         Reclaimable, Present, Expired, StorePcs, HoldingPcs, IInv, TypeOK,
         Started, Ids, reading
<1>3. Ids'
  BY ReclaimRowFacts DEF TryReclaim, Goto, ReclaimRow, CanReclaim,
         Reclaimable, Present, Expired, HoldingPcs, Statuses, Rows, IInv,
         TypeOK, Ids, reading
<1>4. Payload'
  BY ReclaimRowFacts DEF TryReclaim, Goto, ReclaimRow, CanReclaim,
         Reclaimable, Present, Expired, HoldingPcs, Rows, IInv, TypeOK, Ids,
         Payload, Started, OnePayloadPerRow, reading
<1>5. Bodies'
  BY ReclaimRowFacts DEF TryReclaim, Goto, ReclaimRow, CanReclaim,
         Reclaimable, Present, Expired, Rows, IInv, TypeOK, Started, Ids,
         Payload, Bodies, reading
<1>6. ReplayIsOfSamePayload'
  BY ReclaimRowFacts DEF TryReclaim, Goto, ReclaimRow, CanReclaim,
         Reclaimable, Present, Expired, Rows, IInv, TypeOK, Started, Bodies,
         ReplayIsOfSamePayload, reading
<1>7. Life'
  BY ReclaimRowFacts DEF TryReclaim, Goto, ReclaimRow, CanReclaim,
         Reclaimable, Present, IInv, TypeOK, Started, Life, reading
<1>8. Owner'
  BY ReclaimRowFacts DEF TryReclaim, Goto, ReclaimRow, CanReclaim,
         Reclaimable, Present, Expired, HoldingPcs, StorePcs, Rows, IInv,
         TypeOK, Ids, Life, Owner, reading
<1>9. Effect'
  BY ReclaimRowFacts DEF TryReclaim, Goto, ReclaimRow, CanReclaim,
         Reclaimable, Present, Expired, HoldingPcs, StorePcs, Rows, IInv,
         TypeOK, Started, Ids, Life, Owner, Effect, reading
<1> QED  BY <1>1, <1>2, <1>3, <1>4, <1>5, <1>6, <1>7, <1>8, <1>9 DEF IInv

LEMMA StoreFailsKeeps ==
    ASSUME IInv, NEW r \in Requests, StoreFails(r)
    PROVE  IInv'
<1>1. TypeOK'
  BY DEF StoreFails, Goto, HoldingPcs, InFlight, StorePcs, Answers, Pcs,
         Statuses, Rows, IInv, TypeOK, reading
<1>2. Started'
  BY DEF StoreFails, Goto, StorePcs, HoldingPcs, IInv, TypeOK, Started, Ids,
         reading
<1>3. Ids'
  BY DEF StoreFails, Goto, HoldingPcs, Statuses, Rows, IInv, TypeOK, Ids,
         reading
<1>4. Payload'
  BY DEF StoreFails, Goto, HoldingPcs, Rows, IInv, TypeOK, Ids, Payload,
         Started, OnePayloadPerRow, reading
<1>5. Bodies'
  BY DEF StoreFails, Goto, Rows, IInv, TypeOK, Started, Ids, Payload,
         Bodies, reading
<1>6. ReplayIsOfSamePayload'
  BY DEF StoreFails, Goto, Rows, IInv, TypeOK, Started, Bodies,
         ReplayIsOfSamePayload, reading
<1>7. Life'
  BY DEF StoreFails, Goto, Rows, IInv, TypeOK, Started, Life, Expired,
         Present, reading
<1>8. Owner'
  BY DEF StoreFails, Goto, HoldingPcs, StorePcs, Rows, IInv, TypeOK, Ids,
         Life, Owner, reading
<1>9. Effect'
  BY DEF StoreFails, Goto, HoldingPcs, StorePcs, Rows, IInv, TypeOK,
         Started, Ids, Life, Owner, Effect, reading
<1> QED  BY <1>1, <1>2, <1>3, <1>4, <1>5, <1>6, <1>7, <1>8, <1>9 DEF IInv

LEMMA ClaimReplyLostKeeps ==
    ASSUME IInv, NEW r \in Requests, ClaimReplyLost(r)
    PROVE  IInv'
<1>1. TypeOK'
  BY InsertRowFacts, ReclaimRowFacts DEF ClaimReplyLost, Goto, InsertRow,
         ReclaimRow, CanReclaim, Reclaimable, Present, Expired, HoldingPcs,
         InFlight, StorePcs, Answers, Pcs, Statuses, IInv, TypeOK, reading
<1>2. Started'
  BY InsertRowFacts, ReclaimRowFacts DEF ClaimReplyLost, Goto, InsertRow,
         ReclaimRow, CanReclaim, Reclaimable, Present, Expired, StorePcs,
         HoldingPcs, IInv, TypeOK, Started, Ids, reading
<1>3. Ids'
  BY InsertRowFacts, ReclaimRowFacts DEF ClaimReplyLost, Goto, InsertRow,
         ReclaimRow, CanReclaim, Reclaimable, Present, Expired, HoldingPcs,
         Statuses, Rows, IInv, TypeOK, Ids, reading
<1>4. Payload'
  BY InsertRowFacts, ReclaimRowFacts DEF ClaimReplyLost, Goto, InsertRow,
         ReclaimRow, CanReclaim, Reclaimable, Present, Expired, HoldingPcs,
         Rows, IInv, TypeOK, Ids, Payload, Started, OnePayloadPerRow,
         reading
<1>5. Bodies'
  BY InsertRowFacts, ReclaimRowFacts DEF ClaimReplyLost, Goto, InsertRow,
         ReclaimRow, CanReclaim, Reclaimable, Present, Expired, Rows, IInv,
         TypeOK, Started, Ids, Payload, Bodies, reading
<1>6. ReplayIsOfSamePayload'
  BY InsertRowFacts, ReclaimRowFacts DEF ClaimReplyLost, Goto, InsertRow,
         ReclaimRow, CanReclaim, Reclaimable, Present, Expired, Rows, IInv,
         TypeOK, Started, Bodies, ReplayIsOfSamePayload, reading
<1>7. Life'
  BY InsertRowFacts, ReclaimRowFacts DEF ClaimReplyLost, Goto, InsertRow,
         ReclaimRow, CanReclaim, Reclaimable, Present, IInv, TypeOK,
         Started, Life, reading
<1>8. Owner'
  BY InsertRowFacts, ReclaimRowFacts DEF ClaimReplyLost, Goto, InsertRow,
         ReclaimRow, CanReclaim, Reclaimable, Present, Expired, HoldingPcs,
         StorePcs, Rows, IInv, TypeOK, Ids, Life, Owner, reading
<1>9. Effect'
  BY InsertRowFacts, ReclaimRowFacts DEF ClaimReplyLost, Goto, InsertRow,
         ReclaimRow, CanReclaim, Reclaimable, Present, Expired, HoldingPcs,
         StorePcs, Rows, IInv, TypeOK, Started, Ids, Life, Owner, Effect,
         reading
<1> QED  BY <1>1, <1>2, <1>3, <1>4, <1>5, <1>6, <1>7, <1>8, <1>9 DEF IInv

LEMMA ExecuteSucceedsKeeps ==
    ASSUME IInv, NEW r \in Requests, ExecuteSucceeds(r)
    PROVE  IInv'
<1>1. TypeOK'
  BY DEF ExecuteSucceeds, Goto, HoldingPcs, InFlight, StorePcs, Answers,
         Pcs, Statuses, Rows, IInv, TypeOK, reading
<1>2. Started'
  BY DEF ExecuteSucceeds, Goto, StorePcs, HoldingPcs, IInv, TypeOK, Started,
         Ids, reading
<1>3. Ids'
  BY DEF ExecuteSucceeds, Goto, HoldingPcs, Statuses, Rows, IInv, TypeOK,
         Ids, reading
<1>4. Payload'
  BY DEF ExecuteSucceeds, Goto, HoldingPcs, Rows, IInv, TypeOK, Ids,
         Payload, Started, OnePayloadPerRow, reading
<1>5. Bodies'
  BY DEF ExecuteSucceeds, Goto, Rows, IInv, TypeOK, Started, Ids, Payload,
         Bodies, reading
<1>6. ReplayIsOfSamePayload'
  BY DEF ExecuteSucceeds, Goto, Rows, IInv, TypeOK, Started, Bodies,
         ReplayIsOfSamePayload, reading
<1>7. Life'
  BY DEF ExecuteSucceeds, Goto, Rows, IInv, TypeOK, Started, Life, Expired,
         Present, reading
<1>8. Owner'
  BY DEF ExecuteSucceeds, Goto, HoldingPcs, StorePcs, Rows, IInv, TypeOK,
         Ids, Life, Owner, reading
<1>9. Effect'
  BY DEF ExecuteSucceeds, Goto, HoldingPcs, StorePcs, Rows, IInv, TypeOK,
         Started, Ids, Life, Owner, Effect, reading
<1> QED  BY <1>1, <1>2, <1>3, <1>4, <1>5, <1>6, <1>7, <1>8, <1>9 DEF IInv

LEMMA ExecuteFailsKeeps ==
    ASSUME IInv, NEW r \in Requests, ExecuteFails(r)
    PROVE  IInv'
<1>1. TypeOK'
  BY DEF ExecuteFails, Goto, HoldingPcs, InFlight, StorePcs, Answers, Pcs,
         Statuses, Rows, IInv, TypeOK, reading
<1>2. Started'
  BY DEF ExecuteFails, Goto, StorePcs, HoldingPcs, IInv, TypeOK, Started,
         Ids, reading
<1>3. Ids'
  BY DEF ExecuteFails, Goto, HoldingPcs, Statuses, Rows, IInv, TypeOK, Ids,
         reading
<1>4. Payload'
  BY DEF ExecuteFails, Goto, HoldingPcs, Rows, IInv, TypeOK, Ids, Payload,
         Started, OnePayloadPerRow, reading
<1>5. Bodies'
  BY DEF ExecuteFails, Goto, Rows, IInv, TypeOK, Started, Ids, Payload,
         Bodies, reading
<1>6. ReplayIsOfSamePayload'
  BY DEF ExecuteFails, Goto, Rows, IInv, TypeOK, Started, Bodies,
         ReplayIsOfSamePayload, reading
<1>7. Life'
  BY DEF ExecuteFails, Goto, Rows, IInv, TypeOK, Started, Life, Expired,
         Present, reading
<1>8. Owner'
  BY DEF ExecuteFails, Goto, HoldingPcs, StorePcs, Rows, IInv, TypeOK, Ids,
         Life, Owner, reading
<1>9. Effect'
  BY DEF ExecuteFails, Goto, HoldingPcs, StorePcs, Rows, IInv, TypeOK,
         Started, Ids, Life, Owner, Effect, reading
<1> QED  BY <1>1, <1>2, <1>3, <1>4, <1>5, <1>6, <1>7, <1>8, <1>9 DEF IInv

LEMMA MarkSucceededKeeps ==
    ASSUME IInv, NEW r \in Requests, MarkSucceeded(r)
    PROVE  IInv'
<1>1. TypeOK'
  BY MarkFacts DEF MarkSucceeded, Goto, Expired, Present, HoldingPcs,
         InFlight, StorePcs, Answers, Pcs, Statuses, IInv, TypeOK, reading
<1>2. Started'
  BY DEF MarkSucceeded, Goto, Write, Succeeded, ExpiresAt, ExpiredIds,
         Expired, Present, StorePcs, HoldingPcs, IInv, TypeOK, Started, Ids,
         reading
<1>3. Ids'
  BY DEF MarkSucceeded, Goto, Write, Succeeded, ExpiresAt, ExpiredIds,
         Expired, Present, HoldingPcs, Statuses, Rows, IInv, TypeOK, Ids,
         reading
<1>4. Payload'
  BY DEF MarkSucceeded, Goto, Write, Succeeded, ExpiresAt, ExpiredIds,
         Expired, Present, HoldingPcs, Rows, IInv, TypeOK, Ids, Payload,
         Started, OnePayloadPerRow, reading
<1>5. Bodies'
  BY DEF MarkSucceeded, Goto, Write, Succeeded, ExpiresAt, ExpiredIds,
         Expired, Present, Rows, IInv, TypeOK, Started, Ids, Payload,
         Bodies, reading
<1>6. ReplayIsOfSamePayload'
  BY DEF MarkSucceeded, Goto, Write, Succeeded, ExpiresAt, ExpiredIds,
         Expired, Present, Rows, IInv, TypeOK, Started, Bodies,
         ReplayIsOfSamePayload, reading
<1>7. Life'
  BY DEF MarkSucceeded, Goto, Write, Succeeded, ExpiresAt, ExpiredIds,
         Expired, Present, Rows, IInv, TypeOK, Started, Life, reading
<1>8. Owner'
  BY DEF MarkSucceeded, Goto, Write, Succeeded, ExpiresAt, ExpiredIds,
         Expired, Present, HoldingPcs, StorePcs, Rows, IInv, TypeOK, Ids,
         Life, Owner, reading
<1>9. Effect'
  BY DEF MarkSucceeded, Goto, Write, Succeeded, ExpiresAt, ExpiredIds,
         Expired, Present, HoldingPcs, StorePcs, Rows, IInv, TypeOK,
         Started, Ids, Life, Owner, Effect, reading
<1> QED  BY <1>1, <1>2, <1>3, <1>4, <1>5, <1>6, <1>7, <1>8, <1>9 DEF IInv

LEMMA MarkFailedRetryableKeeps ==
    ASSUME IInv, NEW r \in Requests, MarkFailedRetryable(r)
    PROVE  IInv'
<1>1. TypeOK'
  BY MarkFacts DEF MarkFailedRetryable, Goto, Expired, Present, HoldingPcs,
         InFlight, StorePcs, Answers, Pcs, Statuses, IInv, TypeOK, reading
<1>2. Started'
  BY DEF MarkFailedRetryable, Goto, Write, FailedRetryable, ExpiresAt,
         ExpiredIds, Expired, Present, StorePcs, HoldingPcs, IInv, TypeOK,
         Started, Ids, reading
<1>3. Ids'
  BY DEF MarkFailedRetryable, Goto, Write, FailedRetryable, ExpiresAt,
         ExpiredIds, Expired, Present, HoldingPcs, Statuses, Rows, IInv,
         TypeOK, Ids, reading
<1>4. Payload'
  BY DEF MarkFailedRetryable, Goto, Write, FailedRetryable, ExpiresAt,
         ExpiredIds, Expired, Present, HoldingPcs, Rows, IInv, TypeOK, Ids,
         Payload, Started, OnePayloadPerRow, reading
<1>5. Bodies'
  BY DEF MarkFailedRetryable, Goto, Write, FailedRetryable, ExpiresAt,
         ExpiredIds, Expired, Present, Rows, IInv, TypeOK, Started, Ids,
         Payload, Bodies, reading
<1>6. ReplayIsOfSamePayload'
  BY DEF MarkFailedRetryable, Goto, Write, FailedRetryable, ExpiresAt,
         ExpiredIds, Expired, Present, Rows, IInv, TypeOK, Started, Bodies,
         ReplayIsOfSamePayload, reading
<1>7. Life'
  BY DEF MarkFailedRetryable, Goto, Write, FailedRetryable, ExpiresAt,
         ExpiredIds, Expired, Present, Rows, IInv, TypeOK, Started, Life,
         reading
<1>8. Owner'
  BY DEF MarkFailedRetryable, Goto, Write, FailedRetryable, ExpiresAt,
         ExpiredIds, Expired, Present, HoldingPcs, StorePcs, Rows, IInv,
         TypeOK, Ids, Life, Owner, reading
<1>9. Effect'
  BY DEF MarkFailedRetryable, Goto, Write, FailedRetryable, ExpiresAt,
         ExpiredIds, Expired, Present, HoldingPcs, StorePcs, Rows, IInv,
         TypeOK, Started, Ids, Life, Owner, Effect, reading
<1> QED  BY <1>1, <1>2, <1>3, <1>4, <1>5, <1>6, <1>7, <1>8, <1>9 DEF IInv

LEMMA MarkFailsKeeps ==
    ASSUME IInv, NEW r \in Requests, MarkFails(r)
    PROVE  IInv'
<1>1. TypeOK'
  BY DEF MarkFails, Goto, HoldingPcs, InFlight, StorePcs, Answers, Pcs,
         Statuses, Rows, IInv, TypeOK, reading
<1>2. Started'
  BY DEF MarkFails, Goto, StorePcs, HoldingPcs, IInv, TypeOK, Started, Ids,
         reading
<1>3. Ids'
  BY DEF MarkFails, Goto, HoldingPcs, Statuses, Rows, IInv, TypeOK, Ids,
         reading
<1>4. Payload'
  BY DEF MarkFails, Goto, HoldingPcs, Rows, IInv, TypeOK, Ids, Payload,
         Started, OnePayloadPerRow, reading
<1>5. Bodies'
  BY DEF MarkFails, Goto, Rows, IInv, TypeOK, Started, Ids, Payload, Bodies,
         reading
<1>6. ReplayIsOfSamePayload'
  BY DEF MarkFails, Goto, Rows, IInv, TypeOK, Started, Bodies,
         ReplayIsOfSamePayload, reading
<1>7. Life'
  BY DEF MarkFails, Goto, Rows, IInv, TypeOK, Started, Life, Expired,
         Present, reading
<1>8. Owner'
  BY DEF MarkFails, Goto, HoldingPcs, StorePcs, Rows, IInv, TypeOK, Ids,
         Life, Owner, reading
<1>9. Effect'
  BY DEF MarkFails, Goto, HoldingPcs, StorePcs, Rows, IInv, TypeOK, Started,
         Ids, Life, Owner, Effect, reading
<1> QED  BY <1>1, <1>2, <1>3, <1>4, <1>5, <1>6, <1>7, <1>8, <1>9 DEF IInv

LEMMA CrashKeeps ==
    ASSUME IInv, NEW r \in Requests, Crash(r)
    PROVE  IInv'
<1>1. TypeOK'
  BY DEF Crash, Goto, HoldingPcs, InFlight, StorePcs, Answers, Pcs,
         Statuses, Rows, IInv, TypeOK, reading
<1>2. Started'
  BY DEF Crash, Goto, StorePcs, HoldingPcs, IInv, TypeOK, Started, Ids,
         reading
<1>3. Ids'
  BY DEF Crash, Goto, HoldingPcs, Statuses, Rows, IInv, TypeOK, Ids, reading
<1>4. Payload'
  BY DEF Crash, Goto, HoldingPcs, Rows, IInv, TypeOK, Ids, Payload, Started,
         OnePayloadPerRow, reading
<1>5. Bodies'
  BY DEF Crash, Goto, Rows, IInv, TypeOK, Started, Ids, Payload, Bodies,
         reading
<1>6. ReplayIsOfSamePayload'
  BY DEF Crash, Goto, Rows, IInv, TypeOK, Started, Bodies,
         ReplayIsOfSamePayload, reading
<1>7. Life'
  BY DEF Crash, Goto, Rows, IInv, TypeOK, Started, Life, Expired, Present,
         reading
<1>8. Owner'
  BY DEF Crash, Goto, HoldingPcs, StorePcs, Rows, IInv, TypeOK, Ids, Life,
         Owner, reading
<1>9. Effect'
  BY DEF Crash, Goto, HoldingPcs, StorePcs, Rows, IInv, TypeOK, Started,
         Ids, Life, Owner, Effect, reading
<1> QED  BY <1>1, <1>2, <1>3, <1>4, <1>5, <1>6, <1>7, <1>8, <1>9 DEF IInv

LEMMA DeleteExpiredKeeps ==
    ASSUME IInv, DeleteExpired
    PROVE  IInv'
<1>1. TypeOK'
  BY DEF DeleteExpired, Absent, ExpiredIds, Expired, Present, HoldingPcs,
         InFlight, StorePcs, Answers, Pcs, Statuses, Rows, IInv, TypeOK,
         reading
<1>2. Started'
  BY DEF DeleteExpired, Absent, ExpiredIds, Expired, Present, StorePcs,
         HoldingPcs, IInv, TypeOK, Started, Ids, reading
<1>3. Ids'
  BY DEF DeleteExpired, Absent, ExpiredIds, Expired, Present, HoldingPcs,
         Statuses, Rows, IInv, TypeOK, Ids, reading
<1>4. Payload'
  BY DEF DeleteExpired, Absent, ExpiredIds, Expired, Present, HoldingPcs,
         Rows, IInv, TypeOK, Ids, Payload, Started, OnePayloadPerRow,
         reading
<1>5. Bodies'
  BY DEF DeleteExpired, Absent, ExpiredIds, Expired, Present, Rows, IInv,
         TypeOK, Started, Ids, Payload, Bodies, reading
<1>6. ReplayIsOfSamePayload'
  BY DEF DeleteExpired, Absent, ExpiredIds, Expired, Present, Rows, IInv,
         TypeOK, Started, Bodies, ReplayIsOfSamePayload, reading
<1>7. Life'
  BY DEF DeleteExpired, Absent, ExpiredIds, Expired, Present, Rows, IInv,
         TypeOK, Started, Life, reading
<1>8. Owner'
  BY DEF DeleteExpired, Absent, ExpiredIds, Expired, Present, HoldingPcs,
         StorePcs, Rows, IInv, TypeOK, Ids, Life, Owner, reading
<1>9. Effect'
  BY DEF DeleteExpired, Absent, ExpiredIds, Expired, Present, HoldingPcs,
         StorePcs, Rows, IInv, TypeOK, Started, Ids, Life, Owner, Effect,
         reading
<1> QED  BY <1>1, <1>2, <1>3, <1>4, <1>5, <1>6, <1>7, <1>8, <1>9 DEF IInv

LEMMA TickKeeps ==
    ASSUME IInv, Tick
    PROVE  IInv'
<1>1. TypeOK'
  <2>1. row' \in Rows /\ clock' \in Nat
    BY DEF Tick, IInv, TypeOK
  <2>2. expiredRows' \subseteq Nat
    BY <2>1, ExpiredIdsFacts DEF Tick, IInv, TypeOK
  <2> QED
    BY <2>1, <2>2 DEF Tick, Present, HoldingPcs, InFlight, StorePcs,
           Answers, Pcs, Statuses, IInv, TypeOK, reading
<1>2. Started'
  BY DEF Tick, ExpiredIds, Expired, Present, StorePcs, HoldingPcs, IInv,
         TypeOK, Started, Ids, reading
<1>3. Ids'
  BY DEF Tick, ExpiredIds, Expired, Present, HoldingPcs, Statuses, Rows,
         IInv, TypeOK, Ids, reading
<1>4. Payload'
  BY DEF Tick, ExpiredIds, Expired, Present, HoldingPcs, Rows, IInv, TypeOK,
         Ids, Payload, Started, OnePayloadPerRow, reading
<1>5. Bodies'
  BY DEF Tick, ExpiredIds, Expired, Present, Rows, IInv, TypeOK, Started,
         Ids, Payload, Bodies, reading
<1>6. ReplayIsOfSamePayload'
  BY DEF Tick, ExpiredIds, Expired, Present, Rows, IInv, TypeOK, Started,
         Bodies, ReplayIsOfSamePayload, reading
<1>7. Life'
  BY DEF Tick, ExpiredIds, Expired, Present, Rows, IInv, TypeOK, Started,
         Life, reading
<1>8. Owner'
  BY DEF Tick, ExpiredIds, Expired, Present, HoldingPcs, StorePcs, Rows,
         IInv, TypeOK, Ids, Life, Owner, reading
<1>9. Effect'
  BY DEF Tick, ExpiredIds, Expired, Present, HoldingPcs, StorePcs, Rows,
         IInv, TypeOK, Started, Ids, Life, Owner, Effect, reading
<1> QED  BY <1>1, <1>2, <1>3, <1>4, <1>5, <1>6, <1>7, <1>8, <1>9 DEF IInv

LEMMA InitKeeps == Init => IInv
<1> SUFFICES ASSUME Init PROVE IInv
  OBVIOUS
<1>1. TypeOK
  BY DEF Init, TypeOK, Absent, Rows, Statuses, Pcs
<1>2. Started /\ Ids /\ Payload /\ Bodies /\ ReplayIsOfSamePayload
  BY DEF Init, Absent, Started, Ids, Payload, OnePayloadPerRow, Bodies,
         ReplayIsOfSamePayload, HoldingPcs, StorePcs
<1>3. Life /\ Owner /\ Effect
  BY DEF Init, Absent, Life, Expired, Present, Owner, Effect, HoldingPcs
<1> QED  BY <1>1, <1>2, <1>3 DEF IInv

LEMMA NextKeeps == IInv /\ [Next]_vars => IInv'
<1> SUFFICES ASSUME IInv, [Next]_vars PROVE IInv'
  OBVIOUS
<1>1. CASE Tick
  BY <1>1, TickKeeps
<1>2. CASE DeleteExpired
  BY <1>2, DeleteExpiredKeeps
<1>3. ASSUME NEW r \in Requests, NEW f \in Fingerprints, Start(r, f)
      PROVE  IInv'
  BY <1>3, StartKeeps
<1>4. ASSUME NEW r \in Requests, CreateProcessing(r) PROVE IInv'
  BY <1>4, CreateProcessingKeeps
<1>5. ASSUME NEW r \in Requests, GetExisting(r) PROVE IInv'
  BY <1>5, GetExistingKeeps
<1>6. ASSUME NEW r \in Requests, Reread(r) PROVE IInv'
  BY <1>6, RereadKeeps
<1>7. ASSUME NEW r \in Requests, TryReclaim(r) PROVE IInv'
  BY <1>7, TryReclaimKeeps
<1>8. ASSUME NEW r \in Requests, StoreFails(r) PROVE IInv'
  BY <1>8, StoreFailsKeeps
<1>9. ASSUME NEW r \in Requests, ClaimReplyLost(r) PROVE IInv'
  BY <1>9, ClaimReplyLostKeeps
<1>10. ASSUME NEW r \in Requests, ExecuteSucceeds(r) PROVE IInv'
  BY <1>10, ExecuteSucceedsKeeps
<1>11. ASSUME NEW r \in Requests, ExecuteFails(r) PROVE IInv'
  BY <1>11, ExecuteFailsKeeps
<1>12. ASSUME NEW r \in Requests, MarkSucceeded(r) PROVE IInv'
  BY <1>12, MarkSucceededKeeps
<1>13. ASSUME NEW r \in Requests, MarkFailedRetryable(r) PROVE IInv'
  BY <1>13, MarkFailedRetryableKeeps
<1>14. ASSUME NEW r \in Requests, MarkFails(r) PROVE IInv'
  BY <1>14, MarkFailsKeeps
<1>15. ASSUME NEW r \in Requests, Crash(r) PROVE IInv'
  BY <1>15, CrashKeeps
<1>16. CASE UNCHANGED vars
  BY <1>16 DEF vars, reading, IInv, TypeOK, Started, Ids, Payload,
       OnePayloadPerRow, Bodies, ReplayIsOfSamePayload, Life, Expired,
       Present, Owner, Effect
<1> QED
  BY <1>1, <1>2, <1>3, <1>4, <1>5, <1>6, <1>7, <1>8, <1>9, <1>10, <1>11,
     <1>12, <1>13, <1>14, <1>15, <1>16 DEF Next

-----------------------------------------------------------------------------
(* The results.                                                            *)

\* IInv holds in every reachable state of Execute's requests.
THEOREM Invariance == Spec => []IInv
  BY InitKeeps, NextKeeps, PTL DEF Spec

\* The variables of the coordinator keep their types.
THEOREM TypeCorrect == Spec => []TypeOK
<1>1. IInv => TypeOK
  BY DEF IInv
<1> QED  BY <1>1, Invariance, PTL

\* Until a row expires, one request at a time executes for it.
THEOREM OwnedOnce == Spec => []OneOwnerBeforeExpiry
<1>1. IInv => OneOwnerBeforeExpiry
  BY DEF IInv, Owner, OneOwnerBeforeExpiry
<1> QED  BY <1>1, Invariance, PTL

\* Until a row expires, the side effect happens at most once for it,
\* whatever statements and requests fail.
THEOREM EffectOnce == Spec => []OneEffectBeforeExpiry
<1>1. IInv => OneEffectBeforeExpiry
  BY DEF IInv, TypeOK, Effect, OneEffectBeforeExpiry
<1> QED  BY <1>1, Invariance, PTL

\* A replayed answer is that of a success with the same payload, expired
\* rows and late owners included.
THEOREM ReplaySound == Spec => []ReplayIsOfSamePayload
<1>1. IInv => ReplayIsOfSamePayload
  BY DEF IInv
<1> QED  BY <1>1, Invariance, PTL

\* The requests that own a row carry the same payload.
THEOREM PayloadSound == Spec => []OnePayloadPerRow
<1>1. IInv => OnePayloadPerRow
  BY DEF IInv, Payload
<1> QED  BY <1>1, Invariance, PTL

\* A recorded success is not touched before its row expires.
THEOREM SuccessKept == Spec => SuccessIsKept
<1> DEFINE Kept ==
      row.status = "succeeded" /\ row.id \notin expiredRows' => row' = row
<1>1. ASSUME IInv, Next PROVE Kept
  <2>1. ASSUME NEW r \in Requests, InsertRow(r) PROVE Kept
    BY <2>1 DEF InsertRow, Present
  <2>2. ASSUME NEW r \in Requests, ReclaimRow(r),
               pc[r] \in {"reclaimExpired", "reclaimFailed"}
        PROVE  Kept
    <3>1. expiredRows \subseteq expiredRows'
      BY <1>1, <2>2, ReclaimRowFacts
    <3> QED
      BY <1>1, <2>2, <3>1 DEF ReclaimRow, CanReclaim, Reclaimable, IInv, Life
  <2>3. ASSUME NEW r \in Requests, MarkSucceeded(r) \/ MarkFailedRetryable(r)
        PROVE  Kept
    <3>1. expiredRows \subseteq expiredRows'
      BY <1>1, <2>3, MarkFacts DEF MarkSucceeded, MarkFailedRetryable
    <3>2. pc[r] \in HoldingPcs
      BY <2>3 DEF MarkSucceeded, MarkFailedRetryable, HoldingPcs
    <3>3. row.status = "succeeded" => id[r] \in expiredRows
      BY <1>1, <3>2 DEF IInv, Owner
    <3>4. row' = row \/ row.id = id[r]
      BY <2>3 DEF MarkSucceeded, MarkFailedRetryable, Write, Succeeded,
                  FailedRetryable
    <3> QED  BY <3>1, <3>3, <3>4
  <2>4. CASE DeleteExpired
    BY <1>1, <2>4 DEF DeleteExpired, IInv, Life
  <2>5. CASE \E r \in Requests :
               CreateProcessing(r) \/ TryReclaim(r) \/ ClaimReplyLost(r)
    BY <2>1, <2>2, <2>5 DEF CreateProcessing, TryReclaim, ClaimReplyLost
  <2>6. CASE row' = row
    BY <2>6
  <2> QED
    BY <1>1, <2>3, <2>4, <2>5, <2>6 DEF Next, Tick, Start, GetExisting,
       Reread, StoreFails, ExecuteSucceeds, ExecuteFails, MarkFails, Crash
<1>2. ASSUME IInv, [Next]_vars PROVE [Kept]_vars
  BY <1>1, <1>2
<1> QED  BY <1>2, Invariance, PTL DEF Spec, SuccessIsKept

-----------------------------------------------------------------------------
(* The system operation lock over a row of the same table, for any         *)
(* operations, durations and number of faults.  While nobody is overtaken, *)
(* the row says when the lease of the one holder ends; while nothing       *)
(* fails, an operation that inserted the row finds its own id in it, so    *)
(* that its renewals take effect, each before the lease ends.              *)

LockRows == [id : Nat, fp : OperationIDs \cup {"none"}, status : Statuses,
         lockedUntil : Nat, expiresAt : Nat, body : {"none", "released"}]

Holding(o) == at[o] \in HolderPcs

\* A row is not swept before its lease ends.
SweptLate == record.lockedUntil <= record.expiresAt

StartedBefore == \A o \in Operations : began[o] <= time

IdsAreGiven ==
    /\ record.id < nextRecord
    /\ \A o \in Operations : recordID[o] < nextRecord

\* Only a lock that is held renews itself tick by tick.
LoopOfHolder == \A o \in Operations : renew[o] = "on" => at[o] = "running"

\* Whoever inserted a row or was overtaken is past Acquire.
PastAcquire ==
    \A c \in creators \cup overtaken : at[c] \notin {"idle"} \cup AcquirePcs

\* The row says when the lease of h ends, or it has ended.
LeaseOnRecord(h) ==
    \/ leaseEnd[h] <= time
    \/ /\ record.id = recordID[h] /\ record.status = "processing"
       /\ record.lockedUntil = leaseEnd[h]

\* One operation holds the lock, with its lease on record.
OneHolder ==
    overtaken = {} /\ late = {} =>
        /\ \A g, h \in Operations : Holding(g) /\ Holding(h) => g = h
        /\ \A h \in Operations : Holding(h) => LeaseOnRecord(h)

\* Nothing waits for a step that is due.
OnTime(o) ==
    /\ at[o] \in AcquirePcs => began[o] = time
    /\ renew[o] = "on" => time <= renewAt[o]
    /\ renew[o] = "inFlight" => renewAt[o] = time

\* The row is c's alone, and c renews before the lease ends.
Secure(c) ==
    /\ record.id = recordID[c] /\ record.fp = opid[c]
    /\ record.status = "processing"
    /\ record.lockedUntil = leaseEnd[c] /\ time < leaseEnd[c]
    /\ at[c] = "running" => renew[c] \in {"on", "inFlight"}
    /\ renew[c] = "on" => renewAt[c] < leaseEnd[c]
    /\ \A o \in Operations \ {c} : recordID[o] # recordID[c]

Undisturbed ==
    faults = 0 =>
        /\ \A o \in Operations : OnTime(o)
        /\ \A c \in creators : Holding(c) => Secure(c)
        /\ creators \cap overtaken = {}

LockBase == LockTypeOK /\ SweptLate /\ StartedBefore /\ IdsAreGiven /\ LoopOfHolder
            /\ PastAcquire

LockInv == LockBase /\ OneHolder /\ Undisturbed

USE LeaseAssumption

-----------------------------------------------------------------------------
(* What the statements make of the row.                                    *)

LEMMA AbsentFacts ==
    /\ Absent \in LockRows /\ Absent.id = 0 /\ Absent.status = "absent"
    /\ Absent.lockedUntil <= Absent.expiresAt
  BY DEF Absent, LockRows, Statuses

\* The types, one fact for each variable.
LEMMA LockTypes ==
    ASSUME LockInv
    PROVE  /\ time \in Nat /\ record \in LockRows /\ nextRecord \in Nat \ {0}
           /\ at \in [Operations -> OperationPcs]
           /\ opid \in [Operations -> OperationIDs \cup {"none"}]
           /\ began \in [Operations -> Nat] /\ recordID \in [Operations -> Nat]
           /\ existingStatus \in [Operations -> Statuses]
           /\ renew \in [Operations -> {"off", "on", "inFlight"}]
           /\ renewAt \in [Operations -> Nat]
           /\ leaseEnd \in [Operations -> Nat]
           /\ creators \subseteq Operations /\ overtaken \subseteq Operations
           /\ late \subseteq Operations /\ faults \in 0..MaxFaults
           /\ record.id \in Nat /\ record.lockedUntil \in Nat
           /\ record.expiresAt \in Nat
  BY DEF LockInv, LockBase, LockTypeOK, LockRows

LEMMA LockInsertRowFacts ==
    ASSUME LockInv, NEW o \in Operations, LockInserted(o)
    PROVE  /\ record' \in LockRows
           /\ record'.id = nextRecord /\ record'.fp = opid[o]
           /\ record'.status = "processing"
           /\ record'.lockedUntil = began[o] + Lease
           /\ record'.expiresAt = began[o] + LockTTL
           /\ nextRecord' = nextRecord + 1
           /\ recordID' = [recordID EXCEPT ![o] = nextRecord]
           /\ record.status = "absent"
  BY LockTypes DEF LockInserted, Inserted, Present, LockRows, Statuses

LEMMA LockReclaimRowFacts ==
    ASSUME LockInv, NEW o \in Operations, LockReclaimed(o)
    PROVE  /\ record' \in LockRows
           /\ record'.id = record.id /\ record'.fp = record.fp
           /\ record'.status = "processing"
           /\ record'.lockedUntil = began[o] + Lease
           /\ record'.expiresAt = began[o] + LockTTL
           /\ record.id = recordID[o] /\ record.lockedUntil <= began[o]
  <1>1. /\ record \in LockRows /\ began[o] + Lease \in Nat
        /\ began[o] + LockTTL \in Nat
        /\ record' = [record EXCEPT !.status = "processing",
                              !.lockedUntil = began[o] + Lease,
                              !.expiresAt = began[o] + LockTTL]
        /\ record.id = recordID[o] /\ record.lockedUntil <= began[o]
    BY LockTypes DEF LockReclaimed, LockReclaimable, Reclaimable, Reclaimed
  <1>2. record' \in LockRows /\ record'.id = record.id /\ record'.fp = record.fp
    BY <1>1 DEF LockRows, Statuses
  <1>3. /\ record'.status = "processing" /\ record'.lockedUntil = began[o] + Lease
        /\ record'.expiresAt = began[o] + LockTTL
    BY <1>1 DEF LockRows
  <1> QED BY <1>1, <1>2, <1>3

LEMMA ExtendedFacts ==
    ASSUME LockInv, NEW o \in Operations,
           record' = Extended(record, renewAt[o] + Lease, renewAt[o] + LockTTL)
    PROVE  /\ record' \in LockRows
           /\ record'.id = record.id /\ record'.fp = record.fp
           /\ record'.status = record.status
           /\ record'.lockedUntil = renewAt[o] + Lease
           /\ record'.expiresAt = renewAt[o] + LockTTL
  <1>1. /\ record \in LockRows /\ renewAt[o] + Lease \in Nat
        /\ renewAt[o] + LockTTL \in Nat
        /\ record' = [record EXCEPT !.lockedUntil = renewAt[o] + Lease,
                              !.expiresAt = renewAt[o] + LockTTL]
    BY LockTypes DEF Extended
  <1>2. record' \in LockRows /\ record'.id = record.id /\ record'.fp = record.fp
    BY <1>1 DEF LockRows
  <1>3. /\ record'.status = record.status
        /\ record'.lockedUntil = renewAt[o] + Lease
        /\ record'.expiresAt = renewAt[o] + LockTTL
    BY <1>1 DEF LockRows
  <1> QED BY <1>2, <1>3

\* MarkSucceeded and MarkFailedRetryable, the two ends of Release.
LEMMA MarkedFacts ==
    ASSUME LockInv, NEW o \in Operations, ReleaseMarks(o)
    PROVE  /\ record' \in LockRows /\ record'.id = record.id
           /\ record' = record \/ record.id = recordID[o]
           /\ record' = record \/ record'.lockedUntil <= record'.expiresAt
  <1>1. record \in LockRows /\ time \in Nat /\ time + LockTTL \in Nat
    BY LockTypes
  <1>2. CASE record.id # recordID[o]
    BY <1>1, <1>2 DEF ReleaseMarks, Succeeded, FailedRetryable
  <1>3. CASE record' = [record EXCEPT !.status = "succeeded", !.lockedUntil = 0,
                                !.expiresAt = time + LockTTL, !.body = "released"]
    <2>1. record' \in LockRows /\ record'.id = record.id
      BY <1>1, <1>3 DEF LockRows, Statuses
    <2>2. record'.lockedUntil = 0 /\ record'.expiresAt = time + LockTTL
      BY <1>1, <1>3 DEF LockRows
    <2>3. record'.lockedUntil <= record'.expiresAt
      BY <1>1, <2>2
    <2>4. record' = record \/ record.id = recordID[o]
      BY DEF ReleaseMarks, Succeeded, FailedRetryable
    <2> QED BY <2>1, <2>3, <2>4
  <1>4. CASE record' = [record EXCEPT !.status = "failed_retryable",
                                !.lockedUntil = time, !.expiresAt = time + LockTTL]
    <2>1. record' \in LockRows /\ record'.id = record.id
      BY <1>1, <1>4 DEF LockRows, Statuses
    <2>2. record'.lockedUntil = time /\ record'.expiresAt = time + LockTTL
      BY <1>1, <1>4 DEF LockRows
    <2>3. record'.lockedUntil <= record'.expiresAt
      BY <1>1, <2>2
    <2>4. record' = record \/ record.id = recordID[o]
      BY DEF ReleaseMarks, Succeeded, FailedRetryable
    <2> QED BY <2>1, <2>3, <2>4
  <1> QED BY <1>2, <1>3, <1>4 DEF ReleaseMarks, Succeeded,
          FailedRetryable

\* After a fault nothing is asked of the renewals.
LEMMA AfterFault ==
    ASSUME LockInv, Fault
    PROVE  faults' \in 0..MaxFaults /\ Undisturbed'
  BY LockTypes DEF Fault, Undisturbed

\* A step that changes neither the row nor the lease of a holder.
LEMMA HolderKept ==
    ASSUME LockInv, UNCHANGED record, time' \in Nat, time <= time',
           overtaken \subseteq overtaken', late \subseteq late',
           \A h \in Operations : Holding(h)' => /\ Holding(h)
                                                /\ leaseEnd'[h] = leaseEnd[h]
                                                /\ recordID'[h] = recordID[h]
    PROVE  OneHolder'
  <1> SUFFICES ASSUME overtaken' = {}, late' = {}
               PROVE  /\ \A g, h \in Operations :
                             Holding(g)' /\ Holding(h)' => g = h
                      /\ \A h \in Operations : Holding(h)' => LeaseOnRecord(h)'
    BY DEF OneHolder
  <1>1. overtaken = {} /\ late = {}
    OBVIOUS
  <1>2. ASSUME NEW h \in Operations, Holding(h)' PROVE LeaseOnRecord(h)'
    BY <1>1, <1>2, LockTypes DEF LockInv, OneHolder, LeaseOnRecord
  <1> QED BY <1>1, <1>2 DEF LockInv, OneHolder

-----------------------------------------------------------------------------
(* Every step keeps the invariant.                                         *)

LEMMA LockStartKeeps ==
    ASSUME LockInv, NEW o \in Operations, NEW f \in OperationIDs,
           AcquireStarts(o, f)
    PROVE  LockInv'
  <1> USE DEF AcquireStarts, Move, existing, renewal, history
  <1>1. LockBase'
    BY LockTypes DEF LockInv, LockBase, LockTypeOK, LockRows, OperationPcs,
       AcquirePcs, HolderPcs, SweptLate, StartedBefore, IdsAreGiven,
       LoopOfHolder, PastAcquire
  <1>2. OneHolder'
    BY LockTypes, HolderKept DEF Holding, HolderPcs
  <1>3. Undisturbed'
    BY LockTypes DEF LockInv, LockBase, Undisturbed, OnTime, Secure, Holding,
       HolderPcs, AcquirePcs, PastAcquire
  <1> QED BY <1>1, <1>2, <1>3 DEF LockInv

LEMMA LockGetExistingKeeps ==
    ASSUME LockInv, NEW o \in Operations, AcquireReads(o)
    PROVE  LockInv'
  <1> USE DEF AcquireReads, Move, existing, renewal, history
  <1>0. record.id \in Nat /\ record.status \in Statuses
    BY LockTypes DEF LockRows
  <1>1. LockBase'
    BY <1>0, LockTypes DEF LockInv, LockBase, LockTypeOK, LockRows, OperationPcs,
       AcquirePcs, HolderPcs, SweptLate, StartedBefore, IdsAreGiven,
       LoopOfHolder, PastAcquire
  <1>2. OneHolder'
    BY LockTypes, HolderKept DEF Holding, HolderPcs
  <1>3. Undisturbed'
    BY LockTypes DEF LockInv, LockBase, Undisturbed, OnTime, Secure, Holding,
       HolderPcs, AcquirePcs, PastAcquire, StartedBefore,
       BusyIfProcessing
  <1> QED BY <1>1, <1>2, <1>3 DEF LockInv

LEMMA AcquireFailsKeeps ==
    ASSUME LockInv, NEW o \in Operations, AcquireFails(o)
    PROVE  LockInv'
  <1> USE DEF AcquireFails, Move, existing, renewal, history
  <1>1. LockBase'
    BY AfterFault, LockTypes DEF LockInv, LockBase, LockTypeOK, LockRows, OperationPcs,
       AcquirePcs, HolderPcs, SweptLate, StartedBefore, IdsAreGiven,
       LoopOfHolder, PastAcquire
  <1>2. OneHolder'
    BY LockTypes, HolderKept DEF Holding, HolderPcs
  <1> QED BY <1>1, <1>2, AfterFault DEF LockInv

LEMMA RenewTickKeeps ==
    ASSUME LockInv, NEW o \in Operations, RenewTick(o)
    PROVE  LockInv'
  <1> USE DEF RenewTick, existing, history
  <1>1. LockBase'
    BY LockTypes DEF LockInv, LockBase, LockTypeOK, LockRows, SweptLate, StartedBefore,
       IdsAreGiven, LoopOfHolder, PastAcquire
  <1>2. OneHolder'
    BY LockTypes, HolderKept DEF Holding
  <1>3. Undisturbed'
    BY LockTypes DEF LockInv, Undisturbed, OnTime, Secure, Holding
  <1> QED BY <1>1, <1>2, <1>3 DEF LockInv

LEMMA RenewFailsKeeps ==
    ASSUME LockInv, NEW o \in Operations, RenewFails(o)
    PROVE  LockInv'
  <1> USE DEF RenewFails, LoopContinues, existing, history
  <1>1. LockBase'
    BY AfterFault, LockTypes DEF LockInv, LockBase, LockTypeOK, LockRows, SweptLate,
       StartedBefore, IdsAreGiven, LoopOfHolder, PastAcquire
  <1>2. OneHolder'
    BY LockTypes, HolderKept DEF Holding
  <1> QED BY <1>1, <1>2, AfterFault DEF LockInv

LEMMA ReleaseKeeps ==
    ASSUME LockInv, NEW o \in Operations, Release(o)
    PROVE  LockInv'
  <1> USE DEF Release, Move, existing, history
  <1>1. LockBase'
    BY LockTypes DEF LockInv, LockBase, LockTypeOK, LockRows, OperationPcs,
       AcquirePcs, HolderPcs, SweptLate, StartedBefore, IdsAreGiven,
       LoopOfHolder, PastAcquire
  <1>2. OneHolder'
    BY LockTypes, HolderKept DEF Holding, HolderPcs
  <1>3. Undisturbed'
    BY LockTypes DEF LockInv, Undisturbed, OnTime, Secure, Holding, HolderPcs,
       AcquirePcs
  <1> QED BY <1>1, <1>2, <1>3 DEF LockInv

LEMMA ReleaseFailsKeeps ==
    ASSUME LockInv, NEW o \in Operations, ReleaseFails(o)
    PROVE  LockInv'
  <1> USE DEF ReleaseFails, Move, existing, renewal, history
  <1>1. LockBase'
    BY AfterFault, LockTypes DEF LockInv, LockBase, LockTypeOK, LockRows, OperationPcs,
       AcquirePcs, HolderPcs, SweptLate, StartedBefore, IdsAreGiven,
       LoopOfHolder, PastAcquire
  <1>2. OneHolder'
    BY LockTypes, HolderKept DEF Holding, HolderPcs
  <1> QED BY <1>1, <1>2, AfterFault DEF LockInv

LEMMA LockCrashKeeps ==
    ASSUME LockInv, NEW o \in Operations, InstanceStops(o)
    PROVE  LockInv'
  <1> USE DEF InstanceStops, Move, existing, history
  <1>1. LockBase'
    BY AfterFault, LockTypes DEF LockInv, LockBase, LockTypeOK, LockRows, OperationPcs,
       AcquirePcs, HolderPcs, SweptLate, StartedBefore, IdsAreGiven,
       LoopOfHolder, PastAcquire
  <1>2. OneHolder'
    BY LockTypes, HolderKept DEF Holding, HolderPcs
  <1> QED BY <1>1, <1>2, AfterFault DEF LockInv

\* Time passes a holder's lease only when a renewal is late.
LEMMA LockTickKeeps ==
    ASSUME LockInv, TimePasses
    PROVE  LockInv'
  <1> USE DEF TimePasses, existing, renewal, history
  <1>1. faults' \in 0..MaxFaults
    BY AfterFault, LockTypes
  <1>2. LockBase'
    BY <1>1, LockTypes DEF LockInv, LockBase, LockTypeOK, LockRows, SweptLate,
       StartedBefore, IdsAreGiven, LoopOfHolder, PastAcquire
  <1>3. OneHolder'
    BY LockTypes, HolderKept DEF Holding
  <1>4. Undisturbed'
    <2>1. CASE Pending # {}
      BY <2>1, AfterFault
    <2>2. CASE Pending = {}
      <3>1. \A p \in Operations : /\ at[p] \notin AcquirePcs \cup {"releasing"}
                                  /\ renew[p] # "inFlight"
                                  /\ renew[p] = "on" => time + 1 <= renewAt[p]
        BY <2>2, LockTypes DEF Pending
      <3> QED BY <2>2, <3>1, LockTypes DEF LockInv, Undisturbed, OnTime, Secure,
              Holding, HolderPcs
    <2> QED BY <2>1, <2>2
  <1> QED BY <1>2, <1>3, <1>4 DEF LockInv

\* The sweep does not take a row whose lease runs.
LEMMA LockDeleteExpiredKeeps ==
    ASSUME LockInv, SweepDeletes
    PROVE  LockInv'
  <1> USE DEF SweepDeletes, existing, renewal, history
  <1>1. record.lockedUntil <= time
    BY LockTypes DEF LockInv, LockBase, SweptLate, Expired
  <1>2. LockBase'
    BY AbsentFacts, LockTypes DEF LockInv, LockBase, LockTypeOK, LockRows, SweptLate,
       StartedBefore, IdsAreGiven, LoopOfHolder, PastAcquire
  <1>3. OneHolder'
    BY <1>1, LockTypes DEF LockInv, OneHolder, LeaseOnRecord, Holding
  <1>4. Undisturbed'
    BY <1>1, LockTypes DEF LockInv, Undisturbed, OnTime, Secure, Holding
  <1> QED BY <1>2, <1>3, <1>4 DEF LockInv

\* A mark is written by the holder for its own row.
LEMMA ReleaseMarksKeeps ==
    ASSUME LockInv, NEW o \in Operations, ReleaseMarks(o)
    PROVE  LockInv'
  <1> USE DEF Move, existing, renewal, history
  <1>1. /\ UNCHANGED <<time, nextRecord, opid, began, recordID, existingStatus,
                       renew, renewAt,
                       leaseEnd, creators, overtaken, late, faults>>
        /\ at[o] = "releasing" /\ at' = [at EXCEPT ![o] = "released"]
    BY DEF ReleaseMarks
  <1>2. /\ record' \in LockRows /\ record'.id = record.id
        /\ record' = record \/ record.id = recordID[o]
        /\ record' = record \/ record'.lockedUntil <= record'.expiresAt
    BY MarkedFacts
  <1>3. LockBase'
    BY <1>1, <1>2, LockTypes DEF LockInv, LockBase, LockTypeOK, LockRows, OperationPcs,
       AcquirePcs, HolderPcs, SweptLate, StartedBefore, IdsAreGiven,
       LoopOfHolder, PastAcquire
  <1>4. OneHolder'
    BY <1>1, LockTypes DEF LockInv, OneHolder, LeaseOnRecord, Holding, HolderPcs
  <1>5. Undisturbed'
    BY <1>1, <1>2, LockTypes DEF LockInv, Undisturbed, OnTime, Secure, Holding,
       HolderPcs, AcquirePcs
  <1> QED BY <1>3, <1>4, <1>5 DEF LockInv

\* Acquire returns with a lease that is on record, and alone unless it
\* overtakes.
LEMMA AcquiredAlone ==
    ASSUME LockInv, NEW o \in Operations, Acquired(o),
           UNCHANGED <<time, late>>,
           record'.id = recordID'[o], record'.status = "processing",
           record'.lockedUntil = began[o] + Lease
    PROVE  OneHolder'
  <1> SUFFICES ASSUME overtaken' = {}, late' = {}
               PROVE  /\ \A g, h \in Operations :
                             Holding(g)' /\ Holding(h)' => g = h
                      /\ \A h \in Operations : Holding(h)' => LeaseOnRecord(h)'
    BY DEF OneHolder
  <1>1. Holders = {}
    BY DEF Acquired
  <1>2. \A h \in Operations : Holding(h)' => h = o
    BY <1>1, LockTypes DEF Acquired, Move, Holders, Holding
  <1>3. LeaseOnRecord(o)'
    BY LockTypes DEF Acquired, LeaseOnRecord
  <1> QED BY <1>2, <1>3

\* Nobody inserts or reclaims while an operation that created its row holds it.
LEMMA SecureIsKept ==
    ASSUME LockInv, NEW o \in Operations,
           LockInserted(o) \/ LockReclaimed(o),
           ~Holding(o), faults = 0
    PROVE  creators \cap Holders = {}
  BY LockInsertRowFacts, LockReclaimRowFacts DEF LockInv, Undisturbed, Secure,
     Holders, Holding

LEMMA LockCreateProcessingKeeps ==
    ASSUME LockInv, NEW o \in Operations, AcquireCreates(o)
    PROVE  LockInv'
  <1> USE DEF Move, existing, renewal, history
  <1>0. at[o] = "create" /\ UNCHANGED <<time, opid, began, existingStatus, faults>>
    BY DEF AcquireCreates
  <1>1. CASE Present(record) /\ UNCHANGED <<record, nextRecord, recordID,
                                            renewal, history>>
                /\ Move(o, "get")
    <2>1. LockBase'
      BY <1>0, <1>1, LockTypes DEF LockInv, LockBase, LockTypeOK, LockRows, OperationPcs,
         AcquirePcs, HolderPcs, SweptLate, StartedBefore, IdsAreGiven,
         LoopOfHolder, PastAcquire
    <2>2. OneHolder'
      BY <1>0, <1>1, LockTypes, HolderKept DEF Holding, HolderPcs
    <2>3. Undisturbed'
      BY <1>0, <1>1, LockTypes DEF LockInv, Undisturbed, OnTime, Secure, Holding,
         HolderPcs, AcquirePcs
    <2> QED BY <2>1, <2>2, <2>3 DEF LockInv
  <1>2. CASE /\ LockInserted(o) /\ Acquired(o) /\ creators' = creators \cup {o}
             /\ UNCHANGED late
    <2>1. /\ record' \in LockRows
          /\ record'.id = nextRecord /\ record'.fp = opid[o]
          /\ record'.status = "processing"
          /\ record'.lockedUntil = began[o] + Lease
          /\ record'.expiresAt = began[o] + LockTTL
          /\ nextRecord' = nextRecord + 1
          /\ recordID' = [recordID EXCEPT ![o] = nextRecord]
      BY <1>2, LockInsertRowFacts
    <2>2. /\ at' = [at EXCEPT ![o] = "running"]
          /\ renew' = [renew EXCEPT ![o] = "on"]
          /\ renewAt' = [renewAt EXCEPT ![o] = time + RenewInterval]
          /\ leaseEnd' = [leaseEnd EXCEPT ![o] = began[o] + Lease]
          /\ overtaken' = overtaken \cup Holders /\ Holders \subseteq Operations
      BY <1>2 DEF Acquired, Holders
    <2>3. LockBase'
      BY <1>0, <1>2, <2>1, <2>2, LockTypes DEF LockInv, LockBase, LockTypeOK, LockRows,
         OperationPcs, AcquirePcs, HolderPcs, Holders, SweptLate,
         StartedBefore, IdsAreGiven, LoopOfHolder, PastAcquire
    <2>4. OneHolder'
      BY <1>0, <1>2, <2>1, LockTypes, AcquiredAlone
    <2>5. Undisturbed'
      <3> SUFFICES ASSUME faults = 0
                   PROVE  /\ \A p \in Operations : OnTime(p)'
                          /\ \A c \in creators' : Holding(c)' => Secure(c)'
                          /\ (creators \cap overtaken)' = {}
        BY <1>0 DEF Undisturbed
      <3>1. creators \cap Holders = {} /\ o \notin Holders /\ began[o] = time
        BY <1>0, <1>2, SecureIsKept DEF LockInv, Undisturbed, OnTime, Holding,
           HolderPcs, AcquirePcs, Holders
      <3>2. \A p \in Operations : OnTime(p)'
        BY <1>0, <2>2, LockTypes DEF LockInv, Undisturbed, OnTime, AcquirePcs
      <3>3. o \notin creators
        BY <1>0 DEF LockInv, LockBase, PastAcquire, AcquirePcs
      <3>4. \A c \in creators : ~Holding(c)'
        BY <2>2, <3>1, <3>3, LockTypes DEF Holders, Holding
      <3>5. Secure(o)'
        BY <1>0, <2>1, <2>2, <3>1, LockTypes DEF LockInv, LockBase, IdsAreGiven, Secure
      <3>6. o \notin overtaken
        BY <1>0 DEF LockInv, LockBase, PastAcquire, AcquirePcs
      <3> QED BY <1>2, <2>2, <3>1, <3>2, <3>4, <3>5, <3>6 DEF LockInv, Undisturbed
    <2> QED BY <2>3, <2>4, <2>5 DEF LockInv
  <1> QED BY <1>1, <1>2 DEF AcquireCreates

LEMMA LockTryReclaimKeeps ==
    ASSUME LockInv, NEW o \in Operations, AcquireReclaims(o)
    PROVE  LockInv'
  <1> USE DEF Move, existing, renewal, history
  <1>0. /\ at[o] = "reclaim"
        /\ UNCHANGED <<time, nextRecord, opid, began, recordID, existingStatus,
                       creators, late, faults>>
    BY DEF AcquireReclaims
  <1>1. CASE Move(o, "busy") /\ UNCHANGED <<record, renewal, leaseEnd, overtaken>>
    <2>1. LockBase'
      BY <1>0, <1>1, LockTypes DEF LockInv, LockBase, LockTypeOK, LockRows, OperationPcs,
         AcquirePcs, HolderPcs, SweptLate, StartedBefore, IdsAreGiven,
         LoopOfHolder, PastAcquire
    <2>2. OneHolder'
      BY <1>0, <1>1, LockTypes, HolderKept DEF Holding, HolderPcs
    <2>3. Undisturbed'
      BY <1>0, <1>1, LockTypes DEF LockInv, Undisturbed, OnTime, Secure, Holding,
         HolderPcs, AcquirePcs
    <2> QED BY <2>1, <2>2, <2>3 DEF LockInv
  <1>2. CASE LockReclaimed(o) /\ Acquired(o)
    <2>1. /\ record' \in LockRows
          /\ record'.id = record.id /\ record.id = recordID[o]
          /\ record'.status = "processing"
          /\ record'.lockedUntil = began[o] + Lease
          /\ record'.expiresAt = began[o] + LockTTL
      BY <1>2, LockReclaimRowFacts
    <2>2. /\ at' = [at EXCEPT ![o] = "running"]
          /\ renew' = [renew EXCEPT ![o] = "on"]
          /\ renewAt' = [renewAt EXCEPT ![o] = time + RenewInterval]
          /\ leaseEnd' = [leaseEnd EXCEPT ![o] = began[o] + Lease]
          /\ overtaken' = overtaken \cup Holders /\ Holders \subseteq Operations
      BY <1>2 DEF Acquired, Holders
    <2>3. LockBase'
      BY <1>0, <2>1, <2>2, LockTypes DEF LockInv, LockBase, LockTypeOK, LockRows,
         OperationPcs, AcquirePcs, HolderPcs, Holders, SweptLate,
         StartedBefore, IdsAreGiven, LoopOfHolder, PastAcquire
    <2>4. OneHolder'
      BY <1>0, <1>2, <2>1, LockTypes, AcquiredAlone
    <2>5. Undisturbed'
      <3> SUFFICES ASSUME faults = 0
                   PROVE  /\ \A p \in Operations : OnTime(p)'
                          /\ \A c \in creators' : Holding(c)' => Secure(c)'
                          /\ (creators \cap overtaken)' = {}
        BY <1>0 DEF Undisturbed
      <3>1. creators \cap Holders = {}
        BY <1>0, <1>2, SecureIsKept DEF Holding, HolderPcs
      <3>2. \A p \in Operations : OnTime(p)'
        BY <1>0, <2>2, LockTypes DEF LockInv, Undisturbed, OnTime, AcquirePcs
      <3>3. o \notin creators
        BY <1>0 DEF LockInv, LockBase, PastAcquire, AcquirePcs
      <3>4. \A c \in creators : ~Holding(c)'
        BY <2>2, <3>1, <3>3, LockTypes DEF Holders, Holding
      <3> QED BY <1>0, <2>2, <3>1, <3>2, <3>4 DEF LockInv, Undisturbed
    <2> QED BY <2>3, <2>4, <2>5 DEF LockInv
  <1> QED BY <1>1, <1>2 DEF AcquireReclaims

\* A claim whose reply is lost replaces only a lease that has ended.
LEMMA AcquireReplyLostKeeps ==
    ASSUME LockInv, NEW o \in Operations, AcquireReplyLost(o)
    PROVE  LockInv'
  <1> USE DEF Move, existing, renewal, history
  <1>1. /\ Fault /\ at' = [at EXCEPT ![o] = "unavailable"]
        /\ at[o] \in {"create", "reclaim"}
        /\ UNCHANGED <<time, opid, began, existingStatus, renew, renewAt,
                       leaseEnd, creators,
                       overtaken, late>>
    BY DEF AcquireReplyLost
  <1>2. /\ record' \in LockRows
        /\ record'.lockedUntil = began[o] + Lease
        /\ record'.expiresAt = began[o] + LockTTL
        /\ record.status = "absent" \/ record.lockedUntil <= began[o]
    BY LockInsertRowFacts, LockReclaimRowFacts DEF AcquireReplyLost
  <1>3. /\ nextRecord' \in {nextRecord, nextRecord + 1} /\ record'.id < nextRecord'
        /\ recordID' \in [Operations -> Nat]
        /\ \A p \in Operations : /\ recordID'[p] < nextRecord'
                                 /\ (p # o => recordID'[p] = recordID[p])
    <2>1. CASE LockInserted(o)
      BY <2>1, LockTypes, LockInsertRowFacts DEF LockInv, LockBase, IdsAreGiven
    <2>2. CASE LockReclaimed(o) /\ UNCHANGED <<nextRecord, recordID>>
      BY <2>2, LockTypes, LockReclaimRowFacts DEF LockInv, LockBase, IdsAreGiven
    <2> QED BY <2>1, <2>2 DEF AcquireReplyLost
  <1>4. LockBase'
    <2>1. faults' \in 0..MaxFaults
      BY <1>1, AfterFault
    <2>2. LockTypeOK'
      BY <1>1, <1>2, <1>3, <2>1, LockTypes DEF LockTypeOK, LockRows, OperationPcs
    <2>3. SweptLate' /\ StartedBefore' /\ IdsAreGiven'
      BY <1>1, <1>2, <1>3, LockTypes DEF LockInv, LockBase, SweptLate, StartedBefore,
         IdsAreGiven
    <2>4. LoopOfHolder' /\ PastAcquire'
      BY <1>1, LockTypes DEF LockInv, LockBase, LoopOfHolder, PastAcquire,
         AcquirePcs
    <2> QED BY <2>2, <2>3, <2>4 DEF LockBase
  <1>5. OneHolder'
    <2> SUFFICES ASSUME overtaken = {}, late = {}
                 PROVE  /\ \A g, h \in Operations :
                               Holding(g)' /\ Holding(h)' => g = h
                        /\ \A h \in Operations : Holding(h)' => LeaseOnRecord(h)'
      BY <1>1 DEF OneHolder
    <2>1. \A h \in Operations : Holding(h)' => Holding(h)
      BY <1>1, LockTypes DEF Holding, HolderPcs
    <2>2. began[o] <= time
      BY DEF LockInv, LockBase, StartedBefore
    <2>3. \A h \in Operations : Holding(h) => leaseEnd[h] <= time
      BY <1>2, <2>2, LockTypes DEF LockInv, OneHolder, LeaseOnRecord
    <2> QED BY <1>1, <2>1, <2>3 DEF LockInv, OneHolder, LeaseOnRecord
  <1> QED BY <1>1, <1>4, <1>5, AfterFault DEF LockInv

\* A renewal takes effect for the holder, or is late.
LEMMA ExtendKeeps ==
    ASSUME LockInv, NEW o \in Operations, ExtendProcessingLock(o)
    PROVE  LockInv'
  <1> USE DEF existing
  <1>0. /\ renew[o] = "inFlight"
        /\ UNCHANGED <<time, nextRecord, at, opid, began, recordID,
                       existingStatus, creators, overtaken,
                       faults>>
    BY DEF ExtendProcessingLock
  <1>1. CASE /\ ~Extendable(record, recordID[o], opid[o])
             /\ renew' = [renew EXCEPT ![o] = "off"]
             /\ UNCHANGED <<record, leaseEnd, late, renewAt>>
    <2>1. LockBase'
      BY <1>0, <1>1, LockTypes DEF LockInv, LockBase, LockTypeOK, LockRows, SweptLate,
         StartedBefore, IdsAreGiven, LoopOfHolder, PastAcquire
    <2>2. OneHolder'
      BY <1>0, <1>1, LockTypes, HolderKept DEF Holding
    <2>3. Undisturbed'
      BY <1>0, <1>1, LockTypes DEF LockInv, Undisturbed, OnTime, Secure, Holding,
         Extendable
    <2> QED BY <2>1, <2>2, <2>3 DEF LockInv
  <1>2. CASE /\ Extendable(record, recordID[o], opid[o])
             /\ record' = Extended(record, renewAt[o] + Lease, renewAt[o] + LockTTL)
             /\ leaseEnd' = [leaseEnd EXCEPT ![o] = renewAt[o] + Lease]
             /\ late' = IF at[o] = "running" THEN late ELSE late \cup {o}
             /\ LoopContinues(o)
    <2>1. /\ record' \in LockRows
          /\ record'.id = record.id /\ record'.fp = record.fp
          /\ record'.status = record.status
          /\ record'.lockedUntil = renewAt[o] + Lease
          /\ record'.expiresAt = renewAt[o] + LockTTL
          /\ record.id = recordID[o] /\ record.status = "processing"
      BY <1>2, ExtendedFacts DEF Extendable
    <2>2. /\ renew' = [renew EXCEPT ![o] = IF at[o] = "running" THEN "on" ELSE "off"]
          /\ renewAt' = [renewAt EXCEPT ![o] = renewAt[o] + RenewInterval]
      BY <1>2 DEF LoopContinues
    <2>3. LockBase'
      BY <1>0, <1>2, <2>1, <2>2, LockTypes DEF LockInv, LockBase, LockTypeOK, LockRows,
         SweptLate, StartedBefore, IdsAreGiven, LoopOfHolder, PastAcquire
    <2>4. OneHolder'
      BY <1>0, <1>2, <2>1, LockTypes DEF LockInv, OneHolder, LeaseOnRecord, Holding,
         HolderPcs
    <2>5. Undisturbed'
      <3> SUFFICES ASSUME faults = 0
                   PROVE  /\ \A p \in Operations : OnTime(p)'
                          /\ \A c \in creators : Holding(c)' => Secure(c)'
                          /\ creators \cap overtaken = {}
        BY <1>0 DEF Undisturbed
      <3>1. renewAt[o] = time
        BY <1>0 DEF LockInv, Undisturbed, OnTime
      <3>2. \A p \in Operations : OnTime(p)'
        BY <1>0, <2>2, <3>1, LockTypes DEF LockInv, Undisturbed, OnTime
      <3>3. ASSUME NEW c \in creators, Holding(c)' PROVE Secure(c)'
        <4>1. Secure(c) /\ c = o
          BY <1>0, <2>1, <3>3, LockTypes DEF LockInv, Undisturbed, Holding, Secure
        <4> QED BY <1>0, <1>2, <2>1, <2>2, <3>1, <4>1, LockTypes DEF Secure
      <3> QED BY <3>2, <3>3 DEF LockInv, Undisturbed
    <2> QED BY <2>3, <2>4, <2>5 DEF LockInv
  <1> QED BY <1>1, <1>2 DEF ExtendProcessingLock

-----------------------------------------------------------------------------
LEMMA LockInitially ==
    ASSUME LockInit
    PROVE  LockInv
  <1>1. LockBase
    BY AbsentFacts DEF LockInit, LockBase, LockTypeOK, LockRows, OperationPcs,
       Statuses, SweptLate, StartedBefore, IdsAreGiven, LoopOfHolder, PastAcquire
  <1>2. \A o \in Operations : at[o] = "idle" /\ renew[o] = "off"
    BY DEF LockInit
  <1>3. OneHolder
    BY <1>2 DEF OneHolder, Holding, HolderPcs
  <1>4. Undisturbed
    BY <1>2 DEF LockInit, Undisturbed, OnTime, AcquirePcs
  <1> QED BY <1>1, <1>3, <1>4 DEF LockInv

LEMMA LockStepKeeps ==
    ASSUME LockInv, [LockNext]_lockVars
    PROVE  LockInv'
  <1>1. CASE UNCHANGED lockVars
    <2>1. LockBase'
      BY <1>1 DEF LockInv, LockBase, LockTypeOK, SweptLate, StartedBefore, IdsAreGiven,
         LoopOfHolder, PastAcquire, lockVars, existing, renewal, history
    <2>2. OneHolder' /\ Undisturbed'
      BY <1>1 DEF LockInv, OneHolder, LeaseOnRecord, Undisturbed, OnTime, Secure,
         Holding, lockVars, existing, renewal, history
    <2> QED BY <2>1, <2>2 DEF LockInv
  <1>2. CASE TimePasses \/ SweepDeletes
    BY <1>2, LockTickKeeps, LockDeleteExpiredKeeps
  <1>3. ASSUME NEW o \in Operations,
               \/ \E f \in OperationIDs : AcquireStarts(o, f)
               \/ AcquireCreates(o) \/ AcquireReads(o) \/ AcquireReclaims(o)
               \/ AcquireFails(o) \/ AcquireReplyLost(o)
        PROVE  LockInv'
    BY <1>3, LockStartKeeps, LockCreateProcessingKeeps, LockGetExistingKeeps,
       LockTryReclaimKeeps, AcquireFailsKeeps, AcquireReplyLostKeeps
  <1>4. ASSUME NEW o \in Operations,
               \/ RenewTick(o) \/ ExtendProcessingLock(o) \/ RenewFails(o)
               \/ Release(o) \/ ReleaseMarks(o) \/ ReleaseFails(o)
               \/ InstanceStops(o)
        PROVE  LockInv'
    BY <1>4, RenewTickKeeps, ExtendKeeps, RenewFailsKeeps, ReleaseKeeps,
       ReleaseMarksKeeps, ReleaseFailsKeeps, LockCrashKeeps
  <1> QED BY <1>1, <1>2, <1>3, <1>4 DEF LockNext

\* Every statement, tick and fault keeps the inductive invariant.
THEOREM LockInvariance == LockSpec => []LockInv
  BY LockInitially, LockStepKeeps, PTL DEF LockSpec

\* The variables keep their types; the row of the lock is one of those the
\* statements of idempotency_repo.go can write.
THEOREM LockTypeCorrect == LockSpec => []LockTypeOK
  <1>1. LockInv => LockTypeOK
    BY DEF LockInv, LockBase
  <1> QED BY <1>1, LockInvariance, PTL

\* An operation that inserted the row is not overtaken while it works, for any
\* operations and durations, if nothing fails and its renewals are on time.
THEOREM CreatorKeepsLock == LockSpec => []CreatorIsNotOvertaken
  <1>1. LockInv => CreatorIsNotOvertaken
    BY DEF LockInv, Undisturbed, CreatorIsNotOvertaken
  <1> QED BY <1>1, LockInvariance, PTL

\* Acquire gives the lock away only when the last lease of its holder has
\* ended, until the first operation is overtaken or the first renewal is late.
THEOREM TakeoverAfterLease == LockSpec => TakeoverOnlyAfterLease
  <1> DEFINE A == \A o, h \in Operations :
                     /\ overtaken = {} /\ late = {}
                     /\ at[h] \in HolderPcs
                     /\ at[o] \in AcquirePcs /\ at'[o] = "running"
                     => leaseEnd[h] <= time
  <1>1. ASSUME LockInv, [LockNext]_lockVars PROVE [A]_lockVars
    <2> SUFFICES ASSUME LockNext, NEW o \in Operations, NEW h \in Operations,
                        overtaken = {}, late = {}, at[h] \in HolderPcs,
                        at[o] \in AcquirePcs, at'[o] = "running"
                 PROVE  leaseEnd[h] <= time
      BY <1>1
    <2>1. LockInserted(o) \/ LockReclaimed(o)
      BY LockTypes, <1>1 DEF LockNext, AcquireStarts, AcquireCreates,
         AcquireReads, AcquireReclaims, AcquireFails, AcquireReplyLost,
         RenewTick, ExtendProcessingLock, RenewFails, Release,
         ReleaseMarks, ReleaseFails, InstanceStops, TimePasses,
         SweepDeletes, Move, AcquirePcs, Acquired
    <2>2. record.status = "absent" \/ record.lockedUntil <= began[o]
      BY <1>1, <2>1, LockInsertRowFacts, LockReclaimRowFacts
    <2>3. began[o] <= time /\ LeaseOnRecord(h)
      BY <1>1 DEF LockInv, LockBase, StartedBefore, OneHolder, Holding
    <2> QED BY <1>1, <2>2, <2>3, LockTypes DEF LeaseOnRecord
  <1>2. LockSpec => [][A]_lockVars
    BY <1>1, LockInvariance, PTL DEF LockSpec
  <1> QED BY <1>2 DEF TakeoverOnlyAfterLease

=============================================================================
