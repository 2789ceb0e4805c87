-------------------------- MODULE ConcurrencySlots --------------------------
(***************************************************************************)
(* The concurrency limit of one account (or one user): the slots of its    *)
(* requests, the leases of its live sessions, the count of its waiting     *)
(* requests and its mark in the active index, all in Redis                 *)
(* (repository/concurrency_cache.go), as the requests of several processes *)
(* use them (service/concurrency_service.go, handler/gateway_helper.go,    *)
(* service/openai_live.go), with the cleanup of a process that starts and  *)
(* the periodic one.  A step is one script, one pipeline or one command;   *)
(* reads of a pipeline that straddle another command show nothing that the *)
(* step between reading and writing the index does not show as well.       *)
(*                                                                         *)
(* The limit is on slots and leases, not on streams: when a client leaves, *)
(* wrapReleaseOnDone frees its slot at once, while the upstream stream of  *)
(* the request, whose context is detached from the client's, is read to    *)
(* its end for billing.  And not every wait passes the count: the chat     *)
(* completions and responses handlers wait for an account uncounted.       *)
(*                                                                         *)
(* Perils names what may go wrong:                                         *)
(*   redisFails    a command fails without effect                          *)
(*   replyLost     a command takes effect and its caller sees an error     *)
(*   slotExpires   a request outlives the TTL of its slot                  *)
(*   leaseExpires  a session's lease is not refreshed in time              *)
(*   waitExpires   a request waits longer than the TTL of the count        *)
(*   crash         a process dies; another takes its place                 *)
(***************************************************************************)
EXTENDS Naturals, FiniteSets

CONSTANTS
    Requests,
    Processes,
    Process,    \* where a request runs
    Ids,        \* bound: request and lease ids in use at a time
    None,       \* no id
    Max,        \* maxConcurrency
    MaxWait,    \* how many requests may wait
    Perils,     \* what may go wrong
    MaxFaults   \* bound: how often it does

ASSUME SlotsAssumption ==
    /\ IsFiniteSet(Requests)
    /\ Process \in [Requests -> Processes]
    /\ IsFiniteSet(Ids)
    /\ None \notin Ids
    /\ Max \in Nat \ {0}
    /\ MaxWait \in Nat
    /\ MaxFaults \in Nat

VARIABLES
    slots,     \* the sorted set of slots
    oldSlots,  \* those whose score is older than the slot TTL
    live,      \* the sorted set of live leases
    oldLive,   \* those whose score is older than the lease TTL
    wait,      \* the count of waiting requests
    index,     \* the account's mark in the active index, once due for a look
    call,      \* the requests
    proc,      \* the processes
    faults     \* how often something went wrong, and what

vars == <<slots, oldSlots, live, oldLive, wait, index, call, proc, faults>>

CallPcs == {"idle", "touch", "enqueue", "touchWait", "waiting", "unwait",
            "working", "release", "readLoad", "writeIndex", "session",
            "releaseLease", "draining"}

\* The slot and the lease a request believes to hold; counted: it will
\* decrement the count; loaded: what it read before it writes the index;
\* left: its client is gone and its upstream stream goes on.
Calls == [pc : CallPcs, slot : Ids \cup {None}, lease : Ids \cup {None},
          counted : BOOLEAN, loaded : BOOLEAN, left : BOOLEAN]
Idle == [pc |-> "idle", slot |-> None, lease |-> None, counted |-> FALSE,
         loaded |-> FALSE, left |-> FALSE]

\* A process cleans up before it serves; keep and drop: its periodic cleanup
\* is about to write the index.
Starting == {"slots", "wait", "index"}
Serving == {"up", "keep", "drop"}

\* The variables keep their types.
TypeOK ==
    /\ oldSlots \subseteq slots /\ slots \subseteq Ids
    /\ oldLive \subseteq live /\ live \subseteq Ids
    /\ wait \in 0..MaxWait
    /\ index \in {"none", "fresh", "due"}
    /\ call \in [Requests -> Calls]
    /\ proc \in [Processes -> Starting \cup Serving]
    /\ faults \in [count : 0..MaxFaults,
                   kinds : SUBSET (Perils \cup {"peerStarts"})]

Init ==
    /\ slots = {} /\ oldSlots = {}
    /\ live = {} /\ oldLive = {}
    /\ wait = 0
    /\ index = "none"
    /\ call = [r \in Requests |-> Idle]
    /\ proc = [p \in Processes |-> "up"]
    /\ faults = [count |-> 0, kinds |-> {}]

-----------------------------------------------------------------------------
Fault(kind) ==
    /\ kind \in Perils
    /\ faults.count < MaxFaults
    /\ faults' = [count |-> faults.count + 1,
                  kinds |-> faults.kinds \cup {kind}]

Goto(r, pc) == call' = [call EXCEPT ![r].pc = pc]

\* generateRequestID: an id that no member has, and no request.
Unused ==
    Ids \ (slots \cup live \cup {call[r].slot : r \in Requests}
                           \cup {call[r].lease : r \in Requests})
NewId == CHOOSE i \in Unused : TRUE

\* What ZREMRANGEBYSCORE leaves of a set.
Trimmed(members, old) == members \ old

FreshSlots == Trimmed(slots, oldSlots)
FreshLive == Trimmed(live, oldLive)

SetSlots(members) == slots' = members /\ oldSlots' = oldSlots \cap members
SetLive(members) == live' = members /\ oldLive' = oldLive \cap members

-----------------------------------------------------------------------------
\* Mutant: live sessions are not counted.
RoomForgetsLive == Cardinality(FreshSlots) < Max

\* The limit in acquireScript.
Room == Cardinality(FreshSlots) + Cardinality(FreshLive) < Max

\* Where a wait without a slot ends.
Unqueued(c) == IF c.counted THEN "unwait" ELSE "idle"

\* AcquireAccountSlot, or AcquireUserSlot, at first and while waiting.  A
\* request that is refused at first enters the count, or, as the handlers of
\* chat completions and responses and AcquireAccountSlotWithWait have it,
\* waits without.
AcquireSlot(r) ==
    LET first   == call[r].pc = "idle"
        taken   == IF Room THEN {NewId} ELSE {}
        Effect  == SetSlots(FreshSlots \cup taken) /\ SetLive(FreshLive)
        Failed  == Goto(r, Unqueued(call[r]))
    IN  /\ \/ first /\ proc[Process[r]] \in Serving
           \/ call[r].pc = "waiting"
        /\ Unused # {}
        /\ \/ /\ Room /\ Effect
              /\ call' = [call EXCEPT ![r].pc = "touch", ![r].slot = NewId]
              /\ UNCHANGED faults
           \/ /\ ~Room /\ Effect
              /\ \/ Goto(r, "waiting")
                 \/ first /\ Goto(r, "enqueue")
              /\ UNCHANGED faults
           \/ Effect /\ Failed /\ Fault("replyLost")
           \/ /\ Failed /\ Fault("redisFails")
              /\ UNCHANGED <<slots, oldSlots, live, oldLive>>
        /\ UNCHANGED <<wait, index, proc>>

\* touchActiveIndexAt, after a slot or after the count; errors are logged.
TouchActiveIndex(r) ==
    /\ call[r].pc \in {"touch", "touchWait"}
    /\ \/ index' = "fresh" /\ UNCHANGED faults
       \/ UNCHANGED index /\ Fault("redisFails")
    /\ Goto(r, IF call[r].pc = "touchWait" THEN "waiting"
               ELSE IF call[r].counted THEN "unwait" ELSE "working")
    /\ UNCHANGED <<slots, oldSlots, live, oldLive, wait, proc>>

\* Mutant: the limit is off by one.
IncrementWaitOneMore(r) ==
    /\ call[r].pc = "enqueue"
    /\ \/ /\ wait <= MaxWait
          /\ wait' = wait + 1
          /\ call' = [call EXCEPT ![r].pc = "touchWait", ![r].counted = TRUE]
       \/ /\ wait > MaxWait
          /\ call' = [call EXCEPT ![r] = Idle]
          /\ UNCHANGED wait
    /\ UNCHANGED <<slots, oldSlots, live, oldLive, index, proc, faults>>

\* IncrementWaitCount: after an error the request waits, and decrements.
IncrementWaitCount(r) ==
    LET more == IF wait < MaxWait THEN wait + 1 ELSE wait
    IN  /\ call[r].pc = "enqueue"
        /\ \/ /\ wait < MaxWait
              /\ wait' = more
              /\ call' = [call EXCEPT ![r].pc = "touchWait",
                                      ![r].counted = TRUE]
              /\ UNCHANGED faults
           \/ /\ wait >= MaxWait
              /\ call' = [call EXCEPT ![r] = Idle]
              /\ UNCHANGED <<wait, faults>>
           \/ /\ \/ wait' = more /\ Fault("replyLost")
                 \/ UNCHANGED wait /\ Fault("redisFails")
              /\ call' = [call EXCEPT ![r].pc = "waiting",
                                      ![r].counted = TRUE]
        /\ UNCHANGED <<slots, oldSlots, live, oldLive, index, proc>>

\* The client leaves, or the timeout of the wait passes.
StopWaiting(r) ==
    /\ call[r].pc = "waiting"
    /\ Goto(r, Unqueued(call[r]))
    /\ UNCHANGED <<slots, oldSlots, live, oldLive, wait, index, proc, faults>>

\* Where a request goes on when it is done with the index.
After(c) ==
    CASE c.slot # None -> "working"
      [] c.slot = None /\ c.lease # None -> "session"
      [] c.slot = None /\ c.lease = None /\ c.left -> "draining"
      [] OTHER -> "idle"

DecrementWaitCount(r) ==
    LET c    == [call[r] EXCEPT !.counted = FALSE]
        Left == wait' = IF wait > 0 THEN wait - 1 ELSE 0
    IN  /\ call[r].pc = "unwait"
        /\ \/ /\ Left /\ UNCHANGED faults
              /\ call' = [call EXCEPT ![r] = [c EXCEPT !.pc = "readLoad"]]
           \/ /\ \/ Left /\ Fault("replyLost")
                 \/ UNCHANGED wait /\ Fault("redisFails")
              /\ call' = [call EXCEPT ![r] = [c EXCEPT !.pc = After(c)]]
        /\ UNCHANGED <<slots, oldSlots, live, oldLive, index, proc>>

\* The client of a request leaves: wrapReleaseOnDone releases the slot, and
\* the detached upstream stream goes on.
ClientLeaves(r) ==
    /\ call[r].pc = "working" /\ call[r].lease = None
    /\ call' = [call EXCEPT ![r].pc = "release", ![r].left = TRUE]
    /\ UNCHANGED <<slots, oldSlots, live, oldLive, wait, index, proc, faults>>

\* The stream of a client that left is drained, be its slot released or not.
StreamEnds(r) ==
    /\ call[r].left
    /\ call' = [call EXCEPT ![r].pc = IF @ = "draining" THEN "idle" ELSE @,
                            ![r].left = FALSE]
    /\ UNCHANGED <<slots, oldSlots, live, oldLive, wait, index, proc, faults>>

\* The function AcquireAccountSlot returns, when a request ends, hands over
\* to a session or loses its client; a slot that is not removed is forgotten.
ReleaseSlot(r) ==
    LET c == [call[r] EXCEPT !.slot = None]
    IN  /\ call[r].pc \in {"working", "release"}
        /\ \/ /\ SetSlots(slots \ {call[r].slot}) /\ UNCHANGED faults
              /\ call' = [call EXCEPT ![r] = [c EXCEPT !.pc = "readLoad"]]
           \/ /\ \/ SetSlots(slots \ {call[r].slot}) /\ Fault("replyLost")
                 \/ UNCHANGED <<slots, oldSlots>> /\ Fault("redisFails")
              /\ call' = [call EXCEPT ![r] = [c EXCEPT !.pc = After(c)]]
        /\ UNCHANGED <<live, oldLive, wait, index, proc>>

\* refreshActiveIndex: one pipeline trims and reads, a later command writes.
ReadActiveLoad(r) ==
    /\ call[r].pc = "readLoad"
    /\ \/ /\ SetSlots(FreshSlots)
          /\ call' = [call EXCEPT ![r].pc = "writeIndex",
                                  ![r].loaded = FreshSlots # {} \/ wait > 0]
          /\ UNCHANGED faults
       \/ /\ UNCHANGED <<slots, oldSlots>>
          /\ Goto(r, After(call[r]))
          /\ Fault("redisFails")
    /\ UNCHANGED <<live, oldLive, wait, index, proc>>

RefreshActiveIndex(r) ==
    /\ call[r].pc = "writeIndex"
    /\ \/ index' = (IF call[r].loaded THEN "fresh" ELSE "none")
          /\ UNCHANGED faults
       \/ UNCHANGED index /\ Fault("redisFails")
    /\ call' = [call EXCEPT ![r].pc = After(call[r]), ![r].loaded = FALSE]
    /\ UNCHANGED <<slots, oldSlots, live, oldLive, wait, proc>>

-----------------------------------------------------------------------------
\* AcquireLiveLease, for a request that holds a slot, with room for one more
\* until CreateLiveCall releases it.  The slots are counted untrimmed, and
\* the user's limit may refuse as well.
AcquireLiveLease(r) ==
    LET room   == Cardinality(slots) + Cardinality(FreshLive) < Max + 1
        lease  == SetLive(FreshLive \cup {NewId})
        Refuse == Goto(r, "release")
    IN  /\ call[r].pc = "working" /\ call[r].lease = None
        /\ Unused # {}
        /\ \/ /\ room /\ lease
              /\ call' = [call EXCEPT ![r].pc = "release", ![r].lease = NewId]
              /\ UNCHANGED faults
           \/ SetLive(FreshLive) /\ Refuse /\ UNCHANGED faults
           \/ room /\ lease /\ Refuse /\ Fault("replyLost")
           \/ UNCHANGED <<live, oldLive>> /\ Refuse /\ Fault("redisFails")
        /\ UNCHANGED <<slots, oldSlots, wait, index, proc>>

\* RefreshLiveLease does not bring an expired lease back, and a session whose
\* refresh fails ends.
RefreshLiveLease(r) ==
    /\ call[r].pc = "session"
    /\ \/ /\ SetLive(FreshLive) /\ UNCHANGED faults
          /\ Goto(r, IF call[r].lease \in FreshLive THEN "session"
                                                    ELSE "releaseLease")
       \/ /\ UNCHANGED <<live, oldLive>> /\ Fault("redisFails")
          /\ Goto(r, "releaseLease")
    /\ UNCHANGED <<slots, oldSlots, wait, index, proc>>

\* The session ends, or was never created upstream.
ReleaseLiveLease(r) ==
    /\ call[r].pc \in {"session", "releaseLease"}
    /\ \/ SetLive(live \ {call[r].lease}) /\ UNCHANGED faults
       \/ UNCHANGED <<live, oldLive>> /\ Fault("redisFails")
    /\ call' = [call EXCEPT ![r] = Idle]
    /\ UNCHANGED <<slots, oldSlots, wait, index, proc>>

-----------------------------------------------------------------------------
\* A process dies, and its successor, with another prefix, starts.
Crash(p) ==
    /\ proc[p] \in Serving
    /\ proc' = [proc EXCEPT ![p] = "slots"]
    /\ call' = [r \in Requests |-> IF Process[r] = p THEN Idle ELSE call[r]]
    /\ Fault("crash")
    /\ UNCHANGED <<slots, oldSlots, live, oldLive, wait, index>>

\* A starting process takes what it removes for leftovers of dead ones.
Remove(inUse) ==
    faults' = IF inUse THEN [faults EXCEPT !.kinds = @ \cup {"peerStarts"}]
              ELSE faults

\* startupCleanupSlotScript, for an account in the index: the slots of every
\* other prefix go, and the process has none yet.
CleanupStaleProcessSlots(p) ==
    /\ proc[p] = "slots"
    /\ \/ /\ index # "none"
          /\ SetSlots({})
          /\ Remove(\E r \in Requests : call[r].slot \in slots)
          /\ proc' = [proc EXCEPT ![p] = "wait"]
       \/ /\ \/ index = "none" /\ UNCHANGED faults
             \/ Fault("redisFails")
          /\ proc' = [proc EXCEPT ![p] = "up"]
          /\ UNCHANGED <<slots, oldSlots>>
    /\ UNCHANGED <<live, oldLive, wait, index, call>>

DeleteStaleWaitCount(p) ==
    /\ proc[p] = "wait"
    /\ \/ /\ wait' = 0
          /\ Remove(\E r \in Requests : call[r].counted)
          /\ proc' = [proc EXCEPT ![p] = "index"]
       \/ /\ UNCHANGED wait
          /\ Fault("redisFails")
          /\ proc' = [proc EXCEPT ![p] = "up"]
    /\ UNCHANGED <<slots, oldSlots, live, oldLive, index, call>>

\* No slot remained, so the mark goes: at startup, and when the periodic
\* cleanup found no load.
RemoveActiveIndexMembers(p) ==
    /\ proc[p] \in {"index", "drop"}
    /\ \/ index' = "none" /\ UNCHANGED faults
       \/ UNCHANGED index /\ Fault("redisFails")
    /\ proc' = [proc EXCEPT ![p] = "up"]
    /\ UNCHANGED <<slots, oldSlots, live, oldLive, wait, call>>

\* Mutant: a candidate without load gets a new score as well.
ReconcileKeepsAll(p) ==
    /\ proc[p] = "up" /\ index = "due"
    /\ SetSlots(FreshSlots)
    /\ proc' = [proc EXCEPT ![p] = "keep"]
    /\ UNCHANGED <<live, oldLive, wait, index, call, faults>>

\* reconcileExpiredIndexCandidates reads, and later writes.
ReconcileExpiredIndexCandidates(p) ==
    /\ proc[p] = "up" /\ index = "due"
    /\ SetSlots(FreshSlots)
    /\ proc' = [proc EXCEPT ![p] = IF FreshSlots # {} \/ wait > 0
                                   THEN "keep" ELSE "drop"]
    /\ UNCHANGED <<live, oldLive, wait, index, call, faults>>

KeepActiveIndexMembers(p) ==
    /\ proc[p] = "keep"
    /\ \/ index' = "fresh" /\ UNCHANGED faults
       \/ UNCHANGED index /\ Fault("redisFails")
    /\ proc' = [proc EXCEPT ![p] = "up"]
    /\ UNCHANGED <<slots, oldSlots, live, oldLive, wait, call>>

\* The scheduler reads the load of the account, and trims.
GetAccountsLoadBatch ==
    /\ SetSlots(FreshSlots)
    /\ SetLive(FreshLive)
    /\ UNCHANGED <<wait, index, call, proc, faults>>

-----------------------------------------------------------------------------
\* A slot is as old as its TTL.
SlotAges(i) ==
    /\ i \in slots \ oldSlots
    /\ oldSlots' = oldSlots \cup {i}
    /\ \/ (\A r \in Requests : call[r].slot # i) /\ UNCHANGED faults
       \/ (\E r \in Requests : call[r].slot = i) /\ Fault("slotExpires")
    /\ UNCHANGED <<slots, live, oldLive, wait, index, call, proc>>

LeaseAges(i) ==
    /\ i \in live \ oldLive
    /\ oldLive' = oldLive \cup {i}
    /\ \/ (\A r \in Requests : call[r].lease # i) /\ UNCHANGED faults
       \/ (\E r \in Requests : call[r].lease = i) /\ Fault("leaseExpires")
    /\ UNCHANGED <<slots, oldSlots, live, wait, index, call, proc>>

\* Mutant: the key has no TTL.
SlotKeyStays ==
    /\ slots # {} /\ slots = oldSlots
    /\ UNCHANGED vars

\* The TTL of a set's key, which adding a member renews, passes.
SlotKeyExpires ==
    /\ slots # {} /\ slots = oldSlots
    /\ SetSlots({})
    /\ UNCHANGED <<live, oldLive, wait, index, call, proc, faults>>

LiveKeyExpires ==
    /\ live # {} /\ live = oldLive
    /\ SetLive({})
    /\ UNCHANGED <<slots, oldSlots, wait, index, call, proc, faults>>

WaitKeyExpires ==
    /\ wait > 0
    /\ wait' = 0
    /\ \/ (\A r \in Requests : ~call[r].counted) /\ UNCHANGED faults
       \/ (\E r \in Requests : call[r].counted) /\ Fault("waitExpires")
    /\ UNCHANGED <<slots, oldSlots, live, oldLive, index, call, proc>>

IndexIsDue ==
    /\ index = "fresh"
    /\ index' = "due"
    /\ UNCHANGED <<slots, oldSlots, live, oldLive, wait, call, proc, faults>>

-----------------------------------------------------------------------------
\* A request that has begun.
Proceed(r) ==
    \/ call[r].pc # "idle" /\ AcquireSlot(r)
    \/ TouchActiveIndex(r) \/ IncrementWaitCount(r) \/ StopWaiting(r)
    \/ DecrementWaitCount(r) \/ ReleaseSlot(r) \/ ReadActiveLoad(r)
    \/ RefreshActiveIndex(r) \/ ReleaseLiveLease(r) \/ StreamEnds(r)

Cleanup(p) ==
    \/ CleanupStaleProcessSlots(p) \/ DeleteStaleWaitCount(p)
    \/ RemoveActiveIndexMembers(p) \/ ReconcileExpiredIndexCandidates(p)
    \/ KeepActiveIndexMembers(p)

TimePasses ==
    \/ \E i \in Ids : SlotAges(i) \/ LeaseAges(i)
    \/ SlotKeyExpires \/ LiveKeyExpires \/ WaitKeyExpires \/ IndexIsDue

Next ==
    \/ \E r \in Requests :
          \/ AcquireSlot(r) \/ AcquireLiveLease(r) \/ RefreshLiveLease(r)
          \/ ClientLeaves(r) \/ Proceed(r)
    \/ \E p \in Processes : Crash(p) \/ Cleanup(p)
    \/ GetAccountsLoadBatch
    \/ TimePasses

Spec == Init /\ [][Next]_vars

\* What has begun ends, the cleanup comes round, and time passes.
Unforced(A) == A /\ UNCHANGED faults

LiveSpec ==
    /\ Spec
    /\ \A r \in Requests : WF_vars(Unforced(Proceed(r)))
    /\ \A p \in Processes : WF_vars(Unforced(Cleanup(p)))
    /\ \A i \in Ids : WF_vars(Unforced(SlotAges(i) \/ LeaseAges(i)))
    /\ WF_vars(SlotKeyExpires)
    /\ WF_vars(LiveKeyExpires)
    /\ WF_vars(IndexIsDue)

-----------------------------------------------------------------------------
Saw(kinds) == faults.kinds \cap kinds # {}

\* The account admits no more requests and sessions than its limit: beyond
\* it, only streams go on whose clients left and whose slots were released,
\* which nothing limits.  So whatever fails and however a slot is handed over
\* to a lease, as long as the TTLs suffice and no process starts beside others
\* that serve.
LimitHolds ==
    \/ Cardinality({r \in Requests :
          call[r].slot # None \/ call[r].lease # None}) <= Max
    \/ Saw({"slotExpires", "leaseExpires", "peerStarts"})

\* No more requests wait than may among those that pass IncrementWaitCount,
\* even if others wait uncounted beside them and processes die with theirs, as
\* long as Redis answers, the count lives and no process starts beside others.
\* The uncounted waits of the chat completions and responses handlers have no
\* bound.
WaitersAreBounded ==
    \/ Cardinality({r \in Requests :
          call[r].counted /\ call[r].pc \in {"touchWait", "waiting"}}) <= MaxWait
    \/ Saw({"redisFails", "replyLost", "waitExpires", "peerStarts"})

Leaked(i) ==
    /\ i \in slots \cup live
    /\ \A r \in Requests : i \notin {call[r].slot, call[r].lease}

\* A slot or a lease that nobody holds any more (its request died, its reply
\* was lost or the removal failed) does not block the account for ever,
\* whether other requests keep trying or nobody comes.
LeakedIsFreed == \A i \in Ids : []<>(~Leaked(i))

\* An account without load does not stay in the active index for ever.
IdleIsUnindexed == []<>(index = "none" \/ slots # {} \/ wait > 0)

=============================================================================
