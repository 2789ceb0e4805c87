----------------------- MODULE IdempotencyCoordinator -----------------------
(***************************************************************************)
(* IdempotencyCoordinator.Execute (service/idempotency.go): requests that  *)
(* carry the same scope and Idempotency-Key, the row of that key and the   *)
(* sweep that deletes expired rows.                                        *)
(*                                                                         *)
(* A request reads the clock once, when Execute starts; every deadline it  *)
(* later compares or writes, but the backoff of a failure, is derived from *)
(* that reading.  A step of a request is one statement on the store or the *)
(* business callback.  A request without a key never reaches the store and *)
(* is not modelled.                                                        *)
(***************************************************************************)
EXTENDS IdempotencyStore

CONSTANTS
    Requests,           \* calls of Execute with this scope and key
    Fingerprints,       \* hashes of method, route, actor and payload
    TTL,                \* opts.TTL
    ProcessingTimeout,  \* cfg.ProcessingTimeout
    Backoff,            \* cfg.FailedRetryBackoff
    MaxClock            \* bound: the last instant

ASSUME DurationsAssumption ==
    /\ TTL \in Nat \ {0}
    /\ ProcessingTimeout \in Nat \ {0}
    /\ Backoff \in Nat
    /\ MaxClock \in Nat

ASSUME NamesAssumption ==
    {"none", "truncated"} \cap (Fingerprints \cup Requests) = {}

VARIABLES
    clock,      \* time.Now()
    row,        \* the row of the key
    nextId,     \* the id of the next row
    pc,         \* where each request is
    start,      \* `now' of each request
    fp,         \* its fingerprint
    id,         \* the row it has read or owns (existing.ID, record.ID)
    from,       \* existing.Status
    replay,     \* the stored response it answers with
    effects,    \* history: requests whose callback succeeded
    expiredRows \* history: ids of the rows that outlived their expires_at

reading == <<id, from>>
vars == <<clock, row, nextId, pc, start, fp, reading, replay, effects,
          expiredRows>>

StorePcs == {"create", "get", "reclaimExpired", "reread", "reclaimFailed"}
HoldingPcs == {"executing", "executed", "executeFailed"}
InFlight == StorePcs \cup HoldingPcs
Answers == {"succeeded", "failed", "replayed", "inProgress", "backoff",
            "conflict", "unavailable"}
Pcs == {"idle", "crashed"} \cup InFlight \cup Answers

Rows ==
    [id : Nat, fp : Fingerprints \cup {"none"}, status : Statuses,
     lockedUntil : Nat, expiresAt : Nat,
     body : Requests \cup {"none", "truncated"}]

\* The variables keep their types.
TypeOK ==
    /\ clock \in Nat
    /\ row \in Rows
    /\ nextId \in Nat \ {0}
    /\ pc \in [Requests -> Pcs]
    /\ start \in [Requests -> Nat]
    /\ fp \in [Requests -> Fingerprints \cup {"none"}]
    /\ id \in [Requests -> Nat]
    /\ from \in [Requests -> Statuses]
    /\ replay \in [Requests -> Requests \cup {"none"}]
    /\ effects \subseteq Requests
    /\ expiredRows \subseteq Nat

Init ==
    /\ clock = 0
    /\ row = Absent
    /\ nextId = 1
    /\ pc = [r \in Requests |-> "idle"]
    /\ start = [r \in Requests |-> 0]
    /\ fp = [r \in Requests |-> "none"]
    /\ id = [r \in Requests |-> 0]
    /\ from = [r \in Requests |-> "absent"]
    /\ replay = [r \in Requests |-> "none"]
    /\ effects = {}
    /\ expiredRows = {}

-----------------------------------------------------------------------------
Goto(r, p) == pc' = [pc EXCEPT ![r] = p]

ExpiresAt(r) == start[r] + TTL

LockedUntil(r) == start[r] + ProcessingTimeout

ExpiredIds(rw, now) == IF Expired(rw, now) THEN {rw.id} ELSE {}

\* A statement leaves the row `new'.
Write(new) ==
    /\ row' = new
    /\ expiredRows' = expiredRows \cup ExpiredIds(new, clock)

Start(r, f) ==
    /\ pc[r] = "idle"
    /\ start' = [start EXCEPT ![r] = clock]
    /\ fp' = [fp EXCEPT ![r] = f]
    /\ Goto(r, "create")
    /\ UNCHANGED <<clock, row, nextId, reading, replay, effects,
                   expiredRows>>

InsertRow(r) ==
    /\ ~Present(row)
    /\ Write(Inserted(nextId, fp[r], LockedUntil(r), ExpiresAt(r)))
    /\ nextId' = nextId + 1
    /\ id' = [id EXCEPT ![r] = nextId]

CreateProcessing(r) ==
    /\ pc[r] = "create"
    /\ \/ InsertRow(r) /\ Goto(r, "executing")
       \/ /\ Present(row)
          /\ Goto(r, "get")
          /\ UNCHANGED <<row, nextId, id, expiredRows>>
    /\ UNCHANGED <<clock, start, fp, from, replay, effects>>

\* The request stops with the answer p, having changed nothing.
Answer(r, p) == Goto(r, p) /\ UNCHANGED <<reading, replay>>

\* The request will try to reclaim the row it has read.
Remember(r, p) ==
    /\ Goto(r, p)
    /\ id' = [id EXCEPT ![r] = row.id]
    /\ from' = [from EXCEPT ![r] = row.status]
    /\ UNCHANGED replay

\* The stored response is the answer, unless truncation made it invalid.
Replay(r) ==
    \/ row.body = "truncated" /\ Answer(r, "unavailable")
    \/ /\ row.body # "truncated"
       /\ Goto(r, "replayed")
       /\ replay' = [replay EXCEPT ![r] = row.body]
       /\ UNCHANGED reading

\* Mutant: a failure is treated as a success.
DispatchReplaysFailure(r) ==
    \/ row.status \in {"succeeded", "failed_retryable"} /\ Replay(r)
    \/ row.status = "processing" /\ Answer(r, "inProgress")

\* The switch on existing.Status.
Dispatch(r) ==
    \/ row.status = "succeeded" /\ Replay(r)
    \/ row.status = "processing" /\ Answer(r, "inProgress")
    \/ /\ row.status = "failed_retryable"
       /\ \/ row.lockedUntil > start[r] /\ Answer(r, "backoff")
          \/ row.lockedUntil <= start[r] /\ Remember(r, "reclaimFailed")

SamePayload(r) == row.fp = fp[r]

GetExisting(r) ==
    /\ pc[r] = "get"
    /\ \/ ~Present(row) /\ Answer(r, "unavailable")
       \/ Present(row) /\ ~SamePayload(r) /\ Answer(r, "conflict")
       \/ /\ Present(row) /\ SamePayload(r)
          /\ \/ Expired(row, start[r]) /\ Remember(r, "reclaimExpired")
             \/ ~Expired(row, start[r]) /\ Dispatch(r)
    /\ UNCHANGED <<clock, row, nextId, start, fp, effects, expiredRows>>

\* The row was taken by someone else: read it again, and do not ask whether
\* it has expired.
Reread(r) ==
    /\ pc[r] = "reread"
    /\ \/ ~Present(row) /\ Answer(r, "unavailable")
       \/ Present(row) /\ ~SamePayload(r) /\ Answer(r, "conflict")
       \/ Present(row) /\ SamePayload(r) /\ Dispatch(r)
    /\ UNCHANGED <<clock, row, nextId, start, fp, effects, expiredRows>>

CanReclaim(r) == Reclaimable(row, id[r], from[r], start[r])

ReclaimRow(r) ==
    /\ CanReclaim(r)
    /\ Write(Reclaimed(row, LockedUntil(r), ExpiresAt(r)))

TryReclaim(r) ==
    /\ pc[r] \in {"reclaimExpired", "reclaimFailed"}
    /\ \/ ReclaimRow(r) /\ Goto(r, "executing")
       \/ /\ ~CanReclaim(r)
          /\ Goto(r, IF pc[r] = "reclaimExpired" THEN "reread"
                                                 ELSE "inProgress")
          /\ UNCHANGED <<row, expiredRows>>
    /\ UNCHANGED <<clock, nextId, start, fp, reading, replay, effects>>

\* A statement fails without effect, and Execute gives up.
StoreFails(r) ==
    /\ pc[r] \in StorePcs
    /\ Goto(r, "unavailable")
    /\ UNCHANGED <<clock, row, nextId, start, fp, reading, replay, effects,
                   expiredRows>>

\* The claim commits, but Execute sees an error and gives up.
ClaimReplyLost(r) ==
    /\ \/ pc[r] = "create" /\ InsertRow(r)
       \/ /\ pc[r] \in {"reclaimExpired", "reclaimFailed"}
          /\ ReclaimRow(r)
          /\ UNCHANGED <<nextId, id>>
    /\ Goto(r, "unavailable")
    /\ UNCHANGED <<clock, start, fp, from, replay, effects>>

\* execute(ctx) returns without an error.
ExecuteSucceeds(r) ==
    /\ pc[r] = "executing"
    /\ Goto(r, "executed")
    /\ effects' = effects \cup {r}
    /\ UNCHANGED <<clock, row, nextId, start, fp, reading, replay,
                   expiredRows>>

\* execute(ctx) returns an error.
ExecuteFails(r) ==
    /\ pc[r] = "executing"
    /\ Goto(r, "executeFailed")
    /\ UNCHANGED <<clock, row, nextId, start, fp, reading, replay, effects,
                   expiredRows>>

\* Mutant: a success is recorded as a failure that may be retried.
MarkSucceededAsFailed(r) ==
    /\ pc[r] = "executed"
    /\ Write(FailedRetryable(row, id[r], clock, ExpiresAt(r)))
    /\ Goto(r, "succeeded")
    /\ UNCHANGED <<clock, nextId, start, fp, reading, replay, effects>>

\* A response longer than MaxStoredResponseLen is stored truncated.  The
\* statement commits; its reply may be lost.
MarkSucceeded(r) ==
    /\ pc[r] = "executed"
    /\ \E stored \in {r, "truncated"} :
         Write(Succeeded(row, id[r], stored, ExpiresAt(r)))
    /\ \E answer \in {"succeeded", "unavailable"} : Goto(r, answer)
    /\ UNCHANGED <<clock, nextId, start, fp, reading, replay, effects>>

\* Its error, if the statement reports one, is only logged.
MarkFailedRetryable(r) ==
    /\ pc[r] = "executeFailed"
    /\ Write(FailedRetryable(row, id[r], clock + Backoff, ExpiresAt(r)))
    /\ Goto(r, "failed")
    /\ UNCHANGED <<clock, nextId, start, fp, reading, replay, effects>>

\* The response cannot be encoded, or the statement fails: the row stays in
\* processing until it expires.
MarkFails(r) ==
    /\ \/ pc[r] = "executed" /\ Goto(r, "unavailable")
       \/ pc[r] = "executeFailed" /\ Goto(r, "failed")
    /\ UNCHANGED <<clock, row, nextId, start, fp, reading, replay, effects,
                   expiredRows>>

\* The instance stops, or the callback panics.
Crash(r) ==
    /\ pc[r] \in InFlight
    /\ Goto(r, "crashed")
    /\ UNCHANGED <<clock, row, nextId, start, fp, reading, replay, effects,
                   expiredRows>>

DeleteExpired ==
    /\ Expired(row, clock)
    /\ row' = Absent
    /\ UNCHANGED <<clock, nextId, pc, start, fp, reading, replay, effects,
                   expiredRows>>

Tick ==
    /\ clock < MaxClock
    /\ clock' = clock + 1
    /\ expiredRows' = expiredRows \cup ExpiredIds(row, clock')
    /\ UNCHANGED <<row, nextId, pc, start, fp, reading, replay, effects>>

Next ==
    \/ Tick
    \/ DeleteExpired
    \/ \E r \in Requests :
         \/ \E f \in Fingerprints : Start(r, f)
         \/ CreateProcessing(r) \/ GetExisting(r) \/ Reread(r)
         \/ TryReclaim(r) \/ StoreFails(r) \/ ClaimReplyLost(r)
         \/ ExecuteSucceeds(r) \/ ExecuteFails(r)
         \/ MarkSucceeded(r) \/ MarkFailedRetryable(r) \/ MarkFails(r)
         \/ Crash(r)

Spec == Init /\ [][Next]_vars

-----------------------------------------------------------------------------
\* Until a row outlives its expires_at, the callback runs in one request of
\* the row at a time, from the claim to the mark that ends it: the insert,
\* the reclaim of a failed row and the unconditional marks of Execute leave
\* no second owner.
OneOwnerBeforeExpiry ==
    \A r, s \in Requests :
        /\ pc[r] \in HoldingPcs /\ pc[s] \in HoldingPcs
        /\ id[r] = id[s] /\ id[r] \notin expiredRows
        => r = s

\* Until a row outlives its expires_at, the side effect happens once for it,
\* whatever crashes, failed statements and lost replies there are between
\* the callback and the mark that records it.
OneEffectBeforeExpiry ==
    \A r, s \in effects :
        id[r] = id[s] /\ id[r] \notin expiredRows => r = s

\* A replayed answer is the response of one callback that succeeded, for a
\* request with the same fingerprint, although rows are reclaimed with the
\* previous response still in them and marked by late owners.
ReplayIsOfSamePayload ==
    \A r \in Requests :
        pc[r] = "replayed" =>
            replay[r] \in effects /\ fp[replay[r]] = fp[r]

\* Two requests that ever owned one row carry the same payload: the
\* fingerprint is compared when the row is read, and the claim comes later.
OnePayloadPerRow ==
    \A r, s \in Requests :
        id[r] = id[s] /\ id[r] # 0 => fp[r] = fp[s]

\* A recorded success stays as it was recorded until the row expires.
SuccessIsKept ==
    [][row.status = "succeeded" /\ row.id \notin expiredRows'
           => row' = row]_vars

=============================================================================
