# Verification of the gateway's shared state

The repository is an API gateway for language and image models: it authorises
requests, forwards them to upstream accounts, bills users, and sells balance and
subscriptions. This directory holds TLA+ models of the parts in which several
processes share rows of PostgreSQL or keys of Redis and a mistake costs somebody
money or access, TLC configurations that check them, and TLAPS proofs of what matters
most.

Paths below are relative to `src/backend/internal/` unless they start with `src/`.

## 1. Inventory

| Component | State | Operations | Shared with / called by | What is hard | What makes it correct |
|---|---|---|---|---|---|
| Payment orders (`service/payment_fulfillment.go`, `payment_order_lifecycle.go`, `payment_order.go`) | row of `payment_orders`, its redeem code, `payment_audit_logs` | create, webhook, cancel, verify, expiry sweep, admin retry, lease, credit, rebate | provider webhooks, several instances, redeem service, subscriptions, affiliates | redelivered webhooks, takeover of a stale lease, lost replies, crashes | one credit, only for a confirmed payment; an acknowledgement means handled; paid leads to fulfilled |
| Idempotency coordinator (`service/idempotency.go`, `repository/idempotency_repo.go`) | row of `idempotency_records` per scope and key | Execute (insert, read, reclaim, mark), sweep of expired rows | administrative handlers with side effects | concurrent requests, decision on a stale read, crash before the mark | one owner and one effect per live row; a replay is of the same payload |
| System operation lock (`service/system_operation_lock_service.go`) | the same table, one fixed key | Acquire, renew loop, Release | update, rollback and restart handlers | a lease that lapses, takeover, a late Release | nobody is overtaken within the lease |
| Image batches (`service/batch_image_public.go`, `_worker`, `_processor`, `_settlement`, `_billing_hold`, `_billing_recovery`, `repository/usage_billing_repo.go`) | row of `batch_image_jobs`, frozen balance, dedup claims, queue | Submit, Cancel, stale sweep, worker loop, index, settle | users, provider, Redis queue, billing | four processes deciding on rows they read earlier; commits whose reply is lost | charged exactly the cost or returned exactly the hold, never both |
| Image batch queue (`repository/batch_image_queue.go`, loops of `service/batch_image_worker.go`) | ready list, delayed and active sets, inflight keys, job locks | Enqueue, Reserve, lock, Heartbeat, RequeueAfter, Ack, mover, stale recovery | Submit, settlement, workers | a live worker taken for dead, late Ack, keys that expire | a batch is never lost, in one place, processed by one worker, and leaves only when it is over or, after an expired lock, settling |
| Payment refund (`service/payment_refund.go`) | order status, `payment_audit_logs`, balance or subscription, the gateway's refunds | request, prepare, execute, roll back, mark pending, query and finalise | administrators, users, the payment gateway | pending answers, failed rollbacks, lost log entries, two calls at once | refunded means paid back; nothing is taken twice or given back twice; no refund is forgotten |
| Usage billing and billing cache (`repository/usage_billing_repo.go`, `service/billing_cache_service.go`) | dedup rows, balance, quotas, cached balances | charge, cache writes | gateway requests | retries, asynchronous cache writes | one charge per request id |
| Concurrency slots (`service/concurrency_service.go`, `repository/concurrency_cache.go`) | sorted sets of slots and live leases, wait count, active index | acquire, wait, release, hand a slot over to a lease, startup and periodic cleanup | every gateway request and live session | death of the holder, expiry under a live holder, a client that leaves, a peer that starts | at most the limit is admitted, counted waiting is bounded, leaks are freed |
| OAuth refresh (`service/oauth_refresh_api.go`, `token_refresh_service.go`, `repository/gemini_token_cache.go`) | credentials row, Redis lock, mutex per host | refresh, recover from a race, disable; edit, authorise anew and refresh by hand | request path, background loop, administrators | a lock that expires or cannot be had, a token that is spent by use | the stored refresh token works; the newest authorisation stays; expiring tokens are refreshed |
| Scheduler snapshot and outbox (`service/scheduler_snapshot_service.go`, `repository/scheduler_outbox_repo.go`) | outbox rows, watermark, cached snapshots | emit, poll, rebuild | account changes | events out of order | the snapshot converges to the rows |
| Auth cache invalidation (`service/auth_cache_invalidation_outbox.go`, `api_key_auth_cache_impl.go`) | entry in each host's memory and in Redis, outbox rows, pub/sub | look up, load, store; change, claim, delete, publish, second pass | every request; key and user changes | a late loader re-caches, lost messages, a worker dies with a row | a changed key is forgotten everywhere, at once or by the TTL |
| Quota flusher (`service/user_platform_quota_flusher.go`) | dirty set, Redis usage, quota rows | pop, snapshot, upsert | gateway, administrators | crash between pop and write, stale snapshot | usage is not lost; a reset stays |
| Message queue, WebSocket pool, record pool, image tasks, leader lock, usage cleanup | Redis locks, pools, bounded queues, task rows | acquire/release, submit, claim | gateway, periodic jobs | bounds, expiry | mutual exclusion, no loss within the bound |
| Redeem codes, subscriptions, affiliates, promo codes | rows changed in single transactions | redeem, assign, accrue, apply | payment orders, users | retries of the caller | idempotence towards the caller |
| Authorisation, dispatch, protocol conversion, failover (`productcore`, `runtimebridge`, `gatewayruntime`, `applicationgateway`, `handler`) | one request | authorise, choose account, forward | all of the above | retry loop | bounded attempts |
| Providers, generated data access, frontend, deployment | external or generated | – | – | – | – |

`PROJECT.json` lists each of them with the reason when it is not modelled, and the
hazards line by line.

## 2. Modules

| Module | Models |
|---|---|
| `PaymentFulfillment` | one order, its workers, the provider and the clock |
| `PaymentPromise` | what the payment service promises of one order, without its machinery; `PaymentFulfillment` refines it |
| `IdempotencyStore` | the conditional writes on one row of `idempotency_records`; used by the next two |
| `IdempotencyCoordinator` | requests with one key in `Execute`, and the expiry sweep |
| `SystemOperationLock` | operations that take the global lock over the same store |
| `BatchImageHolds` | reserve, capture and release of a batch's balance hold |
| `BatchImageJob` | one batch: Submit, Cancel, the stale sweep, the workers and settlement, over `BatchImageHolds` |
| `BatchImageQueue` | the queue's lists and keys, its workers, mover and recovery |
| `BatchImageQueueContract` | what `BatchImageJob` relies on: a queued batch leaves the queue only when it is over or, after an expired job lock, settling; `BatchImageQueue` refines it |
| `PaymentRefund` | the refund of one fulfilled order, starting where `PaymentFulfillment` ends |
| `OAuthRefresh` | the credentials of one account, refreshes on several hosts and an administrator |
| `AuthCache` | what hosts and Redis remember of one API key, and the outbox that makes them forget |
| `ConcurrencySlots` | the limit, the wait count and the active index of one account or user |
| `MC*` | which process runs where, and symmetry sets for TLC |
| `PaymentFulfillmentProofs`, `IdempotencyProofs`, `BatchImageProofs`, `BatchImageQueueProofs`, `OAuthRefreshProofs`, `AuthCacheProofs`, `ConcurrencySlotsProofs`, `PaymentRefundProofs` | theorems; `IdempotencyProofs` holds those of both users of the store, the coordinator and the lock |

Conventions. A step is one SQL statement or transaction, one call to a provider or
one Redis script: processes interleave wherever the code gives up the database.
A conditional `UPDATE ... WHERE` is one step whose guard is the `WHERE`. A failed
call is an alternative of the same step, and so is a commit whose reply is lost.
The newer modules name what may go wrong in `Perils`, count it in `faults`, and remember
its kind, so that a property can say which faults it does not survive. None of these
exemptions is precautionary: each was dropped in turn, and TLC then found the property
violated.
Names follow the code. Definitions called `...Unchecked`, `...Again` and the like,
marked "Mutant", are deliberately wrong variants of the definition below them; no
specification uses them, they serve to confirm that the properties can fail.

### PaymentFulfillment

`status`, `paidAt`, `tradeNo`, `code`, `audits` are columns; `pc`/`src` say where a
worker is and which call it serves. `updated_at` is both the version of the
fulfilment lease and the clock of two five-minute periods; the model keeps
`aged` (five minutes have passed) and `holders` (the workers whose version equals
it), which is what the comparisons tell apart. Each write of the row empties
`holders`, also the unconditional one of `PersistTradeNo`. `RedeemReplyLost` and
`DoSubInvalidateFails` are the cases in which the benefit is committed and the
caller sees an error. `RebateNotExists` and `RebateClaim` split the claim's
`INSERT ... WHERE NOT EXISTS` into its snapshot and its unique index. `acked` is the
2xx of the webhook handler. Two steps set `swallowed`: `ReadErrorSwallowed`, a read of the
order whose error is answered with success, and `AfterExpiryUnrecorded`, a webhook after
the grace period whose PAYMENT_AFTER_EXPIRY `writeAuditLog` failed to insert.
Refunds are outside: COMPLETED is final in this module; `PaymentRefund` starts there.

### IdempotencyStore, IdempotencyCoordinator, SystemOperationLock

Time is a counter. A request reads it once, and all its deadlines derive from that
reading, as in `Execute`. `row` is the row of one key with its id, so that deletion
and re-insertion are told apart; `effects` and `expiredRows` are history variables.
In `SystemOperationLock` the renew loop is a second process of the operation; what
the code does at once takes no time unless a fault delays it, so that an overtaken
holder is overtaken by the protocol and not by an arbitrarily slow statement.
Requests without a key, the mode that executes when the store is down, hashing,
redaction and metrics are left out.

### BatchImageHolds, BatchImageJob

`ledger` is the pool of frozen money of the user, what this batch has taken from
the balance, and the claimed request ids. `others` is the frozen money of the
user's other batches: it makes visible when this batch pays from their holds.
`job` is the row; `queued` says that the batch is in one of the queue's
structures. `faults` records how often something went wrong and what, so that a
property can say which faults it survives. A late worker is
`lockExpires`: the queue hands the batch to a second worker while the first goes on.
Cancel, the sweep and the worker are loops and may act any number of times; Submit
runs once, with the client's repetition of a submitted batch as `Resubmit`.
Parsing of results, item rows and pricing are abstracted to a cost chosen from
`Costs` at indexing.

### BatchImageQueue, BatchImageQueueContract

`ready`, `delayed`, `active`, `inflight` and `lock` are the Redis structures. Of the scores of
the active set the model keeps whether they are older than `StaleActiveAfter` (`stale`); a
batch of the delayed set may become due at any time. Each Lua script and each
`TxPipelined` is one step: `Enqueue`, `Reserve`, `Heartbeat`, `RequeueAfter`, `Ack`,
`MoveDueDelayedToReady`, `RecoverStaleActive`; so are the `SetNX` of the job lock and
its release. `row` is how far a batch is: open, settling or over (a terminal status). A
worker reads it twice. `Process` is the pipeline, which settles a settling batch and leaves
any other to the provider's processor; `ProviderProcess` reads the row again and answers
`Terminal` for a batch that is over and for a settling one
(`isBatchImageProcessorDoneStatus`), otherwise it asks for more time, perhaps after it
has indexed the result. `BatchEnds` is a failure or cancellation by anybody. Perils:
`workerFails` (a call fails or the worker dies), `beatsLost`, `lockExpires`,
`inflightExpires`.
`BatchImageJob` treats the queue as a set that a batch leaves when it is terminal, or when
a late worker finds it settling; the contract states this, and `KeepsContract` is the
refinement.

### PaymentRefund

`order` holds the columns a refund reads or writes. `gw` is the gateway, a list of refunds
with amount and status, which a query looks up by the id the log recorded or, without
one, gets the latest. `taken` is the balance or the days that refunds deducted and did
not restore. `audit` is what the log says of this order: whether a rollback failed, whether
a refund succeeded, and the detail of the latest pending one; later calls decide on it. An administrator's call walks through `PrepareRefund`, the conditional
UPDATE to REFUNDING (`Lock`), `CheckDeducted`, `Deduct`, the gateway, and one of success,
failure with rollback, or pending; a query through the log, the gateway and one of the
three endings. The refund is partial or full, of a balance or a subscription order, with
or without a trade number, for a gateway that recognises repetitions or not.
Perils: `executeFails`, `queryFails`, `replyLost`, `answerLost`, `auditFails`, `overlap`,
`retryPending`. The last two are legal uses rather than failures, listed because some
properties do not survive them.

### OAuthRefresh

Refresh tokens are numbers; `issued` says from which authorisation each descends, `live`
which ones the provider still accepts, `aged` whose access token is about to expire. A
refresh spends its token and adds the next. `db` is the row: token, status, the edition by
which conditional writes recognise it, and `grok`, whether the platform's writes are
conditional (`UpdateGrokOAuthCredentialsIfUnchanged`,
`SetGrokOAuthRefreshErrorIfCredentialsUnchanged`).
`RefreshIfNeeded` is the sequence mutex, Redis lock, reread, provider, recovery from
`invalid_grant`, persist, release; the background service goes on to `SetError`. The
administrator edits the form (which writes the copy it read), authorises anew
(exchange, write credentials, clear the error) or refreshes the account by hand:
`RefreshByHand` reads the row, `RefreshSingleAccount` spends its token at the provider
under neither lock, and `UpdateAccount` reads the row again (`UpdateAccountReads`) and
writes it with the credentials merged from the first read (`StoreRefreshedByHand`). The
handlers of one platform (`openai_oauth_handler.go:203`, `grok_oauth_handler.go:147`) go
through the same sequence. `MaxManual` bounds these refreshes in a run. Perils:
`redisDown`, `lockExpires`, `providerFails`, `answerLate`, `dbFails`, `crash`, `edit`,
`revokes`.
Administrators' requests for the account come one after the other. Left out are two
administrators at once, the access-token cache, retries with backoff, the request path's
quarantine, the `missing_project_id` error of Antigravity accounts, which a refresh by hand
clears, and the refresh in a CRS synchronisation (`crs_sync_service.go`), which is another
unlocked one.

### AuthCache

`db` counts the changes of the key; an entry is the count it was loaded at, so it is stale
when it is smaller. A request looks in its host's memory, in Redis, in the database, and
stores what it found on the way back; a change writes row and outbox in one transaction
and then invalidates directly. The worker claims due rows with a lease, deletes the Redis
entry, publishes, and either schedules the second pass or deletes the row; on an error it
retries later. `behind` of a request are the outbox rows whose second pass may not come
before the request ends, which is what the safety delay is for; `slowLoad` breaks that.
Perils: `redisFails`, `messageLost`, `dbFails`, `slowLoad`, `leaseExpires`, `crash`. The
kind `straddle` is no failure: it records that the second pass deleted the Redis entry
while a request was carrying the old one from Redis to its memory.

### ConcurrencySlots

`slots` and `live` are the sorted sets, `oldSlots` and `oldLive` the members whose score is
past the TTL, which the scripts trim before they count. A request acquires a slot or
waits, then works, perhaps exchanges the slot for a live lease, and releases. Most
handlers count the wait (increment, retry, decrement); `AcquireAccountSlotWithWait`, chat
completions and responses wait for an account uncounted, so a refused request may do
either. When the client leaves (`ClientLeaves`), `wrapReleaseOnDone` releases the slot at
once, while the handler drains the detached upstream stream for billing: the request
goes on as `left`, without a slot, until `StreamEnds`. The active index is written from a load read one step earlier, as
in the code. A process that starts removes slots of other prefixes, wait counts and
index marks of what it found, and the periodic cleanup reconciles index marks that are
due. The branch of the startup cleanup that finds slots left over is unreachable in one
script run: the prefix of a new process has no slots yet. A pipeline is one step; what
its reads could see in between, the step between reading and writing the index shows.
Perils: `redisFails`, `replyLost`, `slotExpires`, `leaseExpires`, `waitExpires`, `crash`. The
kind `peerStarts` records that a process started while another one was serving: the
startup cleanup then takes the slots and the counts of the living peer for left over.
WebSocket ingress leases, statistics of API keys, the in-process cache of loads, the
one-time sweep of legacy keys and the hand-over of a session between controllers are
left out.

## 3. Runs

Between them the passing runs fire every action of every next-state relation.
`CHECK_DEADLOCK FALSE` is set throughout: a settled order, an answered request, a
released lock, a terminal batch and a refunded order are final, and the bounded clocks
and faults stop the rest.

| Run | Bounds | Shows |
|---|---|---|
| `payment_orders` | 2 workers, 1 fault | `CreditAtMostOnce`, `CreditedOnlyIfPaid`, `AckedIsHandled`, the refinement `Promise`, and `PaidIsFulfilled` |
| `idempotency_keys` | 3 requests, 2 payloads, TTL 2, timeout 1, backoff 1, clock to 4 | `OneEffectBeforeExpiry`, `ReplayIsOfSamePayload`, `SuccessIsKept` |
| `system_lock` | 3 operations, 2 ids, lease 2, interval 1, TTL 3, clock to 4, 1 fault | `TakeoverOnlyAfterLease`, `CreatorIsNotOvertaken` |
| `batch_image_jobs` | 2 workers, hold 2, costs 0–2, other holds 0 or 2, 2 retries, 4 faults of any kind | `TypeOK`, `BilledResultIsFinal`, `SettledIsCharged`, `RefundedNeverProceeds`, `FrozenIsOpenHolds` |
| `batch_image_live` | 1 worker, 2 retries, 1 failure of Submit or the worker | `HoldIsResolved` |
| `batch_image_queue` | 2 batches, 2 workers, 2 enqueues, 2 faults of 4 kinds (472 964 states) | `InflightIsQueued`, `OnePlace`, `OneProcessor`, the refinement `KeepsContract`, and `EveryBatchIsAcknowledged` |
| `payment_refund` | 2 calls, amount 2, 3 days, 2 refunds at the gateway, 2 faults of 7 kinds, symmetry | `RefundedIsPaid`, `NothingGivenTwice`, `RestingOrderKeepsNothing`, `DeductedOnce`, `LiveRefundIsOnRecord`, `RefundingHasOwner` |
| `oauth_refresh` | 3 callers (2 of the background service) on 2 hosts, 2 expiries, 2 authorisations, 1 refresh by hand, 1 fault of 8 kinds (1 506 293 states) | `OneAtProvider`, `StoredTokenWorks`, `HealthyStaysEnabled`, `LatestGrantWins`, `ExpiringIsRefreshed` |
| `auth_cache` | 2 hosts, 2 requests, 1 change, 1 fault of 6 kinds | `SharedEntryIsFresh`, `LocalEntryIsFresh`, `EventuallyFresh`, `OutboxDrains` |
| `concurrency_slots` | 2 requests on 2 processes, limit 1, 1 may wait, 3 ids, 1 fault of 6 kinds | `LimitHolds`, `WaitersAreBounded`, `LeakedIsFreed`, `IdleIsUnindexed` |

`CompletedIsCredited`, `RebateAtMostOnce`, `CompletedIsFinal`, `OneOwnerBeforeExpiry`,
`OnePayloadPerRow` and the type invariants of the payment, refund, idempotency, lock, queue,
OAuth, auth cache and slots modules are not repeated in a run: section 4 proves them.

Why the bounds are enough to be interesting. Two payment workers are what a lease
takeover needs; one fault is enough for every counterexample met while the model was
written, its safety was also checked once with two, and the safety properties are proved
for any number. Three requests are the smallest number in which one decides on a
stale read while two others succeed one another; the clock passes one whole TTL and
a second timeout. The lock needs a creator, an operation that reclaims and one that
overtakes. A batch with two retries and four faults reaches exhausted settlements
after a lost reply, a failing release and a late second worker; costs of zero, part
and all of the hold are the three cases of a capture. In the queue a second worker takes
over what a first one still holds, and a second batch shows that the list's order and
the other batch are left alone. A refund's amount of two has a partial and a full
refund, and three days differ from both, so that a deduction in the wrong unit shows;
two calls and two gateway refunds are a retry after a pending or failed attempt, or two
administrators at once. Three refreshes on two hosts have both a competitor on the same
host and one elsewhere; safety was also checked once with two faults. One change of a key
with two requests has an entry loaded before it and one after it on either host. With a
limit of one, two requests compete for every slot, and the one that hands its slot over to
a lease meets the other; the safety properties were also checked once with three requests,
and three ids are enough because more do not add states.

Conditions inside the properties say what the code depends on. `SettledIsCharged` and
`RefundedNeverProceeds` need the job lock and the queue: a worker that outlives its
lock completes a batch whose retries another one exhausted, and a QUEUE_FAILED
written over a SETTLEMENT_* code reopens an exhausted settlement.
`FrozenIsOpenHolds` holds until retries are exhausted and while no release precedes
its reservation. `AckedIsHandled` and `PaidIsFulfilled` except a swallowed database error
(a read, or the insert of PAYMENT_AFTER_EXPIRY) and the late webhook that leaves that entry
for the operator. `KeepsContract` lets a settling batch leave once a job lock ran out: the
late worker has it acknowledged, and unless somebody enqueues it again nobody settles it.
`HoldIsResolved` excepts a batch that died between the provider and the queue, which
no sweep looks for. `DeductedOnce` and `RefundedIsPaid` need that two calls do not overlap:
the reads before REFUND_PENDING is finalised are not part of a conditional write.
`LiveRefundIsOnRecord` excepts a retry of a pending refund, after which `restoreStatus` may
write the plan's old status. `OneAtProvider` is about calls of `RefreshIfNeeded`; a refresh
by hand overlaps them. `StoredTokenWorks` covers it and excepts an answer that nobody could
store and an edit that writes back an old copy. `HealthyStaysEnabled` excepts an account that
was refreshed by hand: a background refresh that read the row before the new token was
stored uses a spent one and may disable the account. `LocalEntryIsFresh` excepts lost
messages and the straddling request, both until the TTL. `LimitHolds` is about the requests
and sessions that hold a slot or a lease, which is what admission decides; what the account
works on may be more, by the streams of clients that left. `WaitersAreBounded` is about
counted waits. Both except a process that starts beside serving ones.

### Runs that disagree with the repository's own words

| Run | Property | Disagreement |
|---|---|---|
| `system_lock_renewal` | `HolderIsNotOvertaken` | a reclaimed lock keeps the previous operation's fingerprint and cannot be renewed |
| `payment_refund_retry` | `RetryDeductsOnce` | a retry that skipped its deduction and stays pending records a rollback that did not happen, and the final query deducts again |

`PROJECT.json` quotes the lines. The passing runs contain the following disagreements as
named exceptions or as behaviours no property forbids:

- A failed read in `confirmPayment` (`payment_fulfillment.go:79`) or `alreadyProcessed`
  (`:190`), and a failed insert of PAYMENT_AFTER_EXPIRY (`:205`, `payment_stats.go:183`), are
  answered 2xx; the webhook handler's test says that a database failure must not
  be "silently swallowed as an ack". Exception in `AckedIsHandled`.
- `TryReclaim` does not compare `expires_at` (`idempotency_repo.go:118`), so a stale decision
  reclaims a success recorded meanwhile, once the row was on record as expired; the
  properties speak of the time before a row's first expiry.
- A release before its reservation uses up its request id (`usage_billing_repo.go:341`), and
  the later hold stays frozen. Exception in `FrozenIsOpenHolds`.
- An exhausted settlement releases a hold that was captured
  (`batch_image_settlement.go:230`), at the expense of the user's other holds. The same exception.
- Cancel refunds a batch that Submit has meanwhile handed to the provider
  (`batch_image_public.go:736`); the batch goes no further in this system
  (`RefundedNeverProceeds`), but goes on at the provider.
- A payment worker paused between the lease UPDATE and the SELECT of its version adopts
  its successor's version (`ReloadLease`) and may mark the order FAILED under it, against
  the comment at `payment_fulfillment.go:849`.
- `RecordBatchImageJobSubmitFailure` writes FAILED over a concurrent CANCELLED, against
  the comment at `batch_image_public.go:326`.
- A provider processor that reads a row another worker has just made settling has the batch
  acknowledged (`batch_image_processor.go:68`). Exception in `KeepsContract`.
- A client that leaves gives its slot back while its upstream stream goes on
  (`gateway_helper.go:161`, `gateway_upstream_response.go:1071`), so an account may work on
  more requests than its limit; and `gateway_handler_chat_completions.go:225` and
  `gateway_handler_responses.go:213` wait for an account without counting themselves.
  `LimitHolds` and `WaitersAreBounded` do not speak of either.
- A refresh by hand takes neither the mutex nor the Redis lock (`account_handler.go:1003`).
  Exception in `HealthyStaysEnabled`.
- The active index is rewritten from a load read earlier, so that a mark set in between is
  lost until the next acquisition; only the opposite, a mark that stays for ever, is excluded
  (`IdleIsUnindexed`).

### Further hazards

Known and not in `PROJECT.json`'s list, which keeps the ones a property is about: the mark
that makes a failed request retryable may fail (`idempotency.go:411`); a renewal in flight
when its lock is released (`system_operation_lock_service.go:175`); the sweep that dies
between failing a stale row and releasing its hold (`batch_image_billing_recovery.go:72`); a
retry of a pending refund (`payment_refund.go:349`) and one whose log entry was not written
(`:359`), which occur in `PaymentRefund` as perils; a crash between popping a dirty quota key
and writing it, and a stale snapshot over an administrator's reset
(`user_platform_quota_flusher.go`), which are not modelled.

### Fairness

`payment_orders`: the provider redelivers a webhook until it is answered 2xx (strong
fairness on a webhook reaching some worker: workers may be busy in between;
`handleNotify` answers 500 for this reason); a goroutine that runs makes progress
(weak fairness on each worker's steps); five minutes eventually pass under a lease.
Nothing is assumed of users, cancels, sweeps or administrators.

`batch_image_live`: Submit, a started Cancel and the periodic sweep run on; time passes;
the provider ends the batch; the queue, whose sweep redelivers what a dead worker left,
serves the batch and a worker makes progress. A client that cancels or repeats its
request is not assumed.

`batch_image_queue`: the loops of the workers, the mover and the recovery go on as long as
the process lives; `StaleActiveAfter` and the lock's TTL pass; the provider ends its batches.

`oauth_refresh`: the background service comes round, a call that runs ends, and Redis drops
the key of a lock nobody refreshes under. Requests and administrators need not come.

`auth_cache`: a request that runs ends; TTLs, the safety delay and leases pass; a published
message reaches the hosts that are subscribed; some worker claims due rows and goes on
with what it claimed.

`concurrency_slots`: a request that has begun goes on, the cleanup of every process comes
round, the TTLs pass and an index mark becomes due. New requests need not come. In
this module and the queue's, fairness never forces a fault: only the alternatives
without one are fair.

## 4. Proofs

All theorems hold for every value of the constants under the named assumptions of the
modules (durations and bounds are naturals, leases are positive, costs do not exceed
the hold); no bound of a run occurs in them.

*Payment.* `IInv` = types, `BenefitKey` (what the redeem code or the audit says determines
how often the user was credited), `RebateKey` (the same for the rebate's claim),
`PaymentFacts` (credit implies a confirmed payment; COMPLETED implies credit),
`WorkerFacts` (what a worker's position implies: past the grant the benefit is there,
in fulfilment the payment is confirmed) and `AckedIsHandled`. The properties alone are
not inductive: that a second worker cannot credit again needs the code's state, and
that COMPLETED is credited needs the worker's position. Theorems `TypeCorrect`,
`CreditedOnce`, `CompletedCredited`, `CreditedPaid`, `RebatedOnce`, `AckedHandled`; from the
same invariant every step is a step of `PaymentPromise` or a stutter, which gives
`Implements` and `CompletedFinal`.

*Idempotency.* `IInv` = types, `Started`, `Ids` (row ids are below the next one), `Payload`
(requests of one row agree), `Bodies` (a stored response is of a success with the row's
payload), `ReplayIsOfSamePayload`, `Life` (a row past its expiry is on record as expired, and so is the row of a request about to
reclaim an expired one), `Owner`
(a holder's row is processing and nobody else holds it) and `Effect` (after an effect the
row is still the owner's, or records the success). Theorems `OwnedOnce`,
`EffectOnce`, `ReplaySound`, `PayloadSound`, `SuccessKept`.

*Image batches.* `Base` holds whatever goes wrong: a batch with a provider name is past
Submit's failing steps, and a captured one is settling, completed or failed and stays
there. It gives `BilledFinal`. `Careful` holds until a lock runs out or an Enqueue fails
(`Undisturbed`): one busy worker, a worker in settlement is in agreement with the row,
whoever is about to release sees a row that can no longer proceed, a released batch does
not proceed, and until the release the claims say what was taken. `Undisturbed` can only
be lost, so `Base /\ (Undisturbed => Careful)` is inductive; it gives `SettledCharged` and
`RefundedStays`. The pool depends on other conditions (`Clear`: no lock ran out, no cancel
or pause before the reservation, retries left), so its invariant is another one. The pool
changes rightly if a release meets no charge, and a charge no release. What keeps them apart
is the row: `Resolved` (a released batch has failed, was cancelled or is a submission that
is ending; a charged one is settling or completed), `Working` (a worker's position agrees
with the row's status, and no worker gives a settlement up while retries are left),
`Refunding` and `HasHold`; `Unknown` says that until the reservation no other process acts on
the batch, so the first claim is the hold. The lemmas `PoolReserved`, `PoolReleased` and
`PoolCaptured` do the arithmetic. This is `FrozenMatchesHolds`; an Enqueue may fail and a
QUEUE_FAILED may reopen a settlement without harm to it. `TypeCorrect` adds the remaining
types to `Base`; that the pool stays a natural number rests on the conditions of the
UPDATEs (`CanCapture`, `CanRelease`).

*Image batch queue.* `IInv` = types, `InflightIsQueued`, `Locked` (a worker processes under
its lock unless a lock expired), `RowKnown` (a worker at the provider's processor has a batch
that is not settling, and one about to acknowledge a batch that is over, or, once a lock
expired, settling), `OnePlace` and `Apart` (as long as beats arrive and keys live, workers hold
distinct batches, which are active and not stale). `OnePlace` alone is not inductive: that
`RequeueAfter` and `Ack` find the batch where `Reserve` put it, and nobody else there, is
`Apart`. `RowKnown`, for which `Locked` is needed, gives the contract: every step of the queue
is `Enter`, `Advance` or `Leave` of one batch, `Lapse` or a stutter. Theorems `QueuedKept`, `OnlyOnePlace`, `OnlyOneProcessor`,
`KeepsQueueContract`.

*OAuth refresh.* `IInv` = types, `NewIsIssued` (the token a call is about to store was issued,
from the same authorisation as the one it used), `OneInside` (one call per host holds the
mutex), `Locked` (a call between reread and release holds the Redis lock unless Redis failed
or a lock expired), `CopyIsNewest` (an edit or a refresh by hand under way has a copy of the newest authorisation)
and `LatestGrantWins`. The last is not inductive alone: `Persist` compares what it read with
the row, which helps only because the token it stores descends from the one it read
(`NewIsIssued`), and an edit writes its copy without comparing anything (`CopyIsNewest`).
Theorems `OnlyOneAtProvider`, `NewestGrantStays`.
`TokenInv`, on top of it, is about which tokens the provider accepts. A token that was issued
and is not in the row yet is known only to the call or the administrator who is to store it
(`UnstoredIsUnseen`), so nobody else can use it up; while every answer was stored and nothing
was edited, what a call is about to store works (`NewIsLive`), and the row's other credentials
are the ones it read (`EditionsAgree`), without which the conditional write of a Grok account
could refuse the token that replaced the row's. A Grok account that is disabled, or about to be,
has a token that neither works nor is being replaced (`DisablesLost`); that nobody is
replacing it needs `OneAtProvider` and that no refresh by hand is under way, which
`HandIsCounted` tells from `byHand`. Theorems `TokenIsNotLost`, `WorkingStaysEnabled`.

*System operation lock.* `LockInv` = types (`LockTypeOK`), `SweptLate` (a row does not expire before its lease),
`StartedBefore`, `IdsAreGiven`, `LoopOfHolder`, `PastAcquire`, and two conditional parts.
`OneHolder`: while nobody was overtaken and no renewal came late there is one holder, and the
row carries the end of its lease unless that has passed; `TryReclaim` compares the row's lease
with a `now` that is not after the clock, which gives `TakeoverAfterLease` whatever fails.
`Undisturbed`: while nothing failed every step that is due is taken on time, the row of an
operation that inserted it carries its operation id and its row id is known to nobody else
(`Secure`), so its renewals take effect, each before the lease ends; this gives
`CreatorKeepsLock`. A reclaimer is not `Secure`, because `TryReclaim` leaves the old operation
id in the row: that is the finding of `system_lock_renewal`.

*Auth cache.* The invariant follows each change through its second pass. `SetIsBehind`: a
request that read the key before the first pass and is still to store it holds the second
pass up. Hence, when the delay has passed, no such request is left (`NoLateSet`); hence, what
the second pass deletes from Redis stays deleted (`SharedIsNew`); hence, unless a copy
straddled the deletion, no request has an old entry in hand (`NoLateCopy`); hence, once the
message is out, a host has it before it or remembers nothing old (`LocalIsNew`). An empty
outbox has passed all of these. Theorems `SharedFresh`, `LocalFresh`.

*Concurrency slots.* The scripts count members of Redis sets; the properties are about the
requests that hold them. `HeldIsThere` and `HeldOnce` (a holder's slot or lease is a fresh
member, of that holder alone) make the holders at most as many as the fresh members, which
an admission keeps within the limit; `WorkerHolds` (only a request that holds a slot
exchanges it for a lease) is why the allowance of one above the limit does not add a holder.
For the counted waits `CountCovers` (the count is at least the requests it counts) does the
same, with `LeaverIsCounted` (only a counted request decrements).
Both hold until a fault takes a member or the count from under its holder. Theorems
`LimitKeeps`, `WaitersBounded`.

*Refund.* Each property except `NothingGivenTwice` excepts certain faults, and so does the
part of `IInv` that carries it. Whatever happens: types, where a call is says what it is
doing and what its plan may contain, and an order that is recorded as refunded, or about to
be, has a paid refund at its gateway (`Base`); the calls that may still give something back
have together taken at least that much (`OwedIsTaken`, a cardinality: this is why the calls
are assumed to be finitely many), which is stronger than `NothingGivenTwice` and holds for
calls that overlap. While none overlap there is one call and its position tells the order's
status (`Alone`). On top of that, under the exceptions of their properties: the amounts of
the order, of the log and of the call are those of one refund at the gateway
(`AmountsAgree`, for `RefundedIsPaid`); a refund that was not refused is the one the call or
the log knows (`LiveIsKnown`); what was taken is what the one call deducted, and nothing
between calls (`TakenFits`, for `DeductedOnce`), or the log says that giving it back failed
(`KeptIsLogged`, for `RestingOrderKeepsNothing`). `RefundingHasOwner` is a part of its own.
Theorems `TypeCorrect`, `RefundedOrderWasPaid`, `NeverGivenTwice`, `NothingKeptAtRest`,
`DeductsAtMostOnce`, `LiveRefundsAreOnRecord`, `RefundingIsOwned`.

`Clear => Steady /\ Unknown` and `TokenInv` were also checked as invariants by TLC, the first
with the bounds of `batch_image_jobs`, the second with those of `oauth_refresh`.

Only model-checked: liveness, because fairness and ENABLED are outside TLAPS
(`PaidIsFulfilled`, `HoldIsResolved`, `EveryBatchIsAcknowledged`, `ExpiringIsRefreshed`,
`EventuallyFresh`, `OutboxDrains`, `LeakedIsFreed`, `IdleIsUnindexed`), and the two violations.
Every invariant, every action property and both refinements that a passing run checks are
also theorems.

## 5. Plan

Done in this order: payment orders and their promise; the idempotency store with its
two users; image batches with their holds; their queue and its contract; refunds; OAuth
refresh; the auth cache and its outbox; concurrency slots. Next:

1. `UsageBilling` with the billing cache: one charge per request id, and a cached balance that
   converges; `QuotaFlusher`: dirty keys and snapshots against administrative writes;
   `SchedulerOutbox`: watermark and rebuild.
2. Proofs about those modules along the same lines.
3. The smaller components: message queue, WebSocket pool, record pool, image tasks, leader
   lock, usage cleanup.

### Not modelled

Request conversion and streaming, the providers' protocols, the frontend, generated data
access code and deployment files keep no shared state of their own: what they do is a
function of one request, and the great majority of the repository's lines is of this
kind. Redeem codes, subscriptions, affiliates and promo codes change rows in single
transactions; the parts of them that orders use are in `PaymentFulfillment`. The load
balancer of payment providers is a pure function over daily sums. `PROJECT.json` gives
the reason for each component.
