------------------------------ MODULE AuthCache ------------------------------
(***************************************************************************)
(* What the hosts remember of one API key, and how they forget it when the *)
(* key changes: the memory of each host and the entry in Redis             *)
(* (service/api_key_auth_cache_impl.go), the invalidation by the request   *)
(* that made the change, and the outbox whose row the change's transaction *)
(* adds and whose worker (service/auth_cache_invalidation_outbox.go)       *)
(* invalidates twice, the second time after a safety delay.  A step is one *)
(* Redis command or one SQL statement, with the access to the host's       *)
(* memory the code makes just before it; memory may drop an entry at any   *)
(* time.                                                                   *)
(*                                                                         *)
(* Perils names what may go wrong:                                         *)
(*   redisFails    a Redis command fails, with or without effect           *)
(*   messageLost   a host is not subscribed when a message is published    *)
(*   dbFails       a statement fails without effect, or a claim's reply is *)
(*                 lost                                                    *)
(*   slowLoad      a request that looks the key up outlives the safety     *)
(*                 delay                                                   *)
(*   leaseExpires  a worker outlives its claim                             *)
(*   crash         a host dies                                             *)
(***************************************************************************)
EXTENDS Naturals, FiniteSets

CONSTANTS
    Hosts,
    Editors,     \* the hosts that serve requests which change the key
    Requests,    \* requests that look the key up
    Host,        \* where a request runs
    None,        \* no entry, no claim
    MaxChanges,  \* bound: how often the key changes
    Perils,      \* what may go wrong
    MaxFaults    \* bound: how often it does

ASSUME CacheAssumption ==
    /\ Host \in [Requests -> Hosts]
    /\ Editors \subseteq Hosts
    /\ None \notin Hosts
    /\ MaxChanges \in Nat
    /\ MaxFaults \in Nat

VARIABLES
    db,      \* how often the key's row changed
    rows,    \* the outbox, by the change that added the row
    l2,      \* the entry in Redis
    l1,      \* the entry in the memory of each host
    inbox,   \* hosts a published message has yet to reach
    load,    \* the requests
    work,    \* the invalidations each host carries out
    faults   \* how often something went wrong, and what

vars == <<db, rows, l2, l1, inbox, load, work, faults>>

Ids == 1..MaxChanges

\* Task 0 of a host is the invalidation of a request that changed the key.
Tasks == 0..MaxChanges

\* An entry shows the key as it was after some change.
Entries == 0..MaxChanges \cup {None}
Rows == [stage : {0, 1}, due : BOOLEAN, by : Hosts \cup {None},
         expired : BOOLEAN]

\* behind: the rows whose safety delay runs while the request does.
Loads == [pc : {"idle", "copy", "read", "set"},
          entry : Entries, behind : SUBSET Ids]
Works == [pc : {"idle", "del", "publish", "finish", "retry"},
          stage : {0, 1}]

IdleLoad == [pc |-> "idle", entry |-> None, behind |-> {}]
IdleWork == [pc |-> "idle", stage |-> 0]

\* The variables keep their types; a row is in one of the two stages the
\* table's CHECK allows.
TypeOK ==
    /\ db \in 0..MaxChanges
    /\ DOMAIN rows \subseteq 1..db
    /\ rows \in [DOMAIN rows -> Rows]
    /\ l2 \in Entries
    /\ l1 \in [Hosts -> Entries]
    /\ inbox \in SUBSET Hosts
    /\ load \in [Requests -> Loads]
    /\ work \in [Hosts -> [Tasks -> Works]]
    /\ faults \in [count : 0..MaxFaults, kinds : SUBSET (Perils \cup {"straddle"})]

Init ==
    /\ db = 0
    /\ rows = << >>
    /\ l2 = None
    /\ l1 = [h \in Hosts |-> None]
    /\ inbox = {}
    /\ load = [r \in Requests |-> IdleLoad]
    /\ work = [h \in Hosts |-> [i \in Tasks |-> IdleWork]]
    /\ faults = [count |-> 0, kinds |-> {}]

-----------------------------------------------------------------------------
Fault(kind) ==
    /\ kind \in Perils
    /\ faults.count < MaxFaults
    /\ faults' = [count |-> faults.count + 1,
                  kinds |-> faults.kinds \cup {kind}]

Stale(entry) == entry # None /\ entry < db

GotoLoad(r, pc) == load' = [load EXCEPT ![r].pc = pc]
Answer(r) == load' = [load EXCEPT ![r] = IdleLoad]

GotoWork(h, i, pc) == work' = [work EXCEPT ![h][i].pc = pc]
Done(h, i) == work' = [work EXCEPT ![h][i] = IdleWork]

-----------------------------------------------------------------------------
\* The key changes or is deleted; the trigger adds a row to the outbox in the
\* same transaction, and the request goes on to InvalidateAuthCacheByKey.
Change(h) ==
    LET i == db + 1
    IN  /\ db < MaxChanges
        /\ work[h][0].pc = "idle"
        /\ db' = i
        /\ rows' = [j \in DOMAIN rows \cup {i} |->
                       IF j = i THEN [stage |-> 0, due |-> TRUE, by |-> None,
                                      expired |-> FALSE]
                       ELSE rows[j]]
        /\ GotoWork(h, 0, "del")
        /\ UNCHANGED <<l2, l1, inbox, load, faults>>

-----------------------------------------------------------------------------
\* getAuthCacheEntry: Redis is asked when the host's memory has nothing.
GetAuthCacheEntry(r) ==
    /\ load[r].pc = "idle"
    /\ l1[Host[r]] = None
    /\ \/ /\ l2 # None
          /\ load' = [load EXCEPT ![r].pc = "copy", ![r].entry = l2]
          /\ UNCHANGED faults
       \/ /\ l2 = None
          /\ GotoLoad(r, "read")
          /\ UNCHANGED faults
       \/ GotoLoad(r, "read") /\ Fault("redisFails")
    /\ UNCHANGED <<db, rows, l2, l1, inbox, work>>

LookupAPIKeyForAuth(r) ==
    /\ load[r].pc = "read"
    /\ \/ /\ load' = [load EXCEPT ![r].pc = "set", ![r].entry = db]
          /\ UNCHANGED faults
       \/ Answer(r) /\ Fault("dbFails")
    /\ UNCHANGED <<db, rows, l2, l1, inbox, work>>

\* setAuthCacheL1 alone: the entry is from Redis, or the key was not found
\* because the last change deleted it.
SetAuthCacheL1(r) ==
    /\ \/ load[r].pc = "copy"
       \/ load[r].pc = "set" /\ load[r].entry = MaxChanges
    /\ l1' = [l1 EXCEPT ![Host[r]] = load[r].entry]
    /\ Answer(r)
    /\ UNCHANGED <<db, rows, l2, inbox, work, faults>>

SetAuthCacheEntry(r) ==
    /\ load[r].pc = "set"
    /\ l1' = [l1 EXCEPT ![Host[r]] = load[r].entry]
    /\ \/ l2' = load[r].entry /\ UNCHANGED faults
       \/ l2' \in {l2, load[r].entry} /\ Fault("redisFails")
    /\ Answer(r)
    /\ UNCHANGED <<db, rows, inbox, work>>

L1Expires(h) ==
    /\ l1[h] # None
    /\ l1' = [l1 EXCEPT ![h] = None]
    /\ UNCHANGED <<db, rows, l2, inbox, load, work, faults>>

\* Mutant: an entry is set in Redis without a TTL.
L2NeverExpires ==
    /\ FALSE
    /\ UNCHANGED vars

L2Expires ==
    /\ l2 # None
    /\ l2' = None
    /\ UNCHANGED <<db, rows, l1, inbox, load, work, faults>>

\* The subscriber's handler.
ReceiveInvalidation(h) ==
    /\ h \in inbox
    /\ l1' = [l1 EXCEPT ![h] = None]
    /\ inbox' = inbox \ {h}
    /\ UNCHANGED <<db, rows, l2, load, work, faults>>

-----------------------------------------------------------------------------
\* Mutant: a claim is for ever.
ClaimUnclaimed(h) ==
    LET available == {i \in DOMAIN rows : rows[i].due /\ rows[i].by = None}
    IN  /\ \A i \in Ids : work[h][i].pc = "idle"
        /\ available # {}
        /\ rows' = [i \in DOMAIN rows |->
                       IF i \in available THEN [rows[i] EXCEPT !.by = h]
                       ELSE rows[i]]
        /\ work' = [work EXCEPT ![h] = [i \in Tasks |->
                       IF i \in available
                       THEN [pc |-> "del", stage |-> rows[i].stage]
                       ELSE work[h][i]]]
        /\ UNCHANGED <<db, l2, l1, inbox, load, faults>>

\* A worker that has finished its batch claims the rows that are due.
Claim(h) ==
    LET available == {i \in DOMAIN rows :
                         /\ rows[i].due
                         /\ rows[i].by = None \/ rows[i].expired}
    IN  /\ \A i \in Ids : work[h][i].pc = "idle"
        /\ available # {}
        /\ rows' = [i \in DOMAIN rows |->
                       IF i \in available
                       THEN [rows[i] EXCEPT !.by = h, !.expired = FALSE]
                       ELSE rows[i]]
        /\ \/ /\ work' = [work EXCEPT ![h] = [i \in Tasks |->
                             IF i \in available
                             THEN [pc |-> "del", stage |-> rows[i].stage]
                             ELSE work[h][i]]]
              /\ UNCHANGED faults
           \/ UNCHANGED work /\ Fault("dbFails")
        /\ UNCHANGED <<db, l2, l1, inbox, load>>

\* A request has an old entry from Redis in hand.
HoldsStale == \E r \in Requests : load[r].pc = "copy" /\ Stale(load[r].entry)

\* invalidateLocalAuthCache, then Redis.  The second pass notes a request it
\* cannot reach.
DeleteAuthCache(h, i) ==
    /\ work[h][i].pc = "del"
    /\ l1' = [l1 EXCEPT ![h] = None]
    /\ \/ /\ l2' = None
          /\ GotoWork(h, i, "publish")
          /\ faults' = IF work[h][i].stage = 1 /\ HoldsStale
                       THEN [faults EXCEPT !.kinds = @ \cup {"straddle"}]
                       ELSE faults
       \/ /\ l2' \in {l2, None}
          /\ GotoWork(h, i, IF i = 0 THEN "publish" ELSE "retry")
          /\ Fault("redisFails")
    /\ UNCHANGED <<db, rows, inbox, load>>

\* Mutant: the hosts are not told.
PublishNothing(h, i) ==
    /\ work[h][i].pc = "publish"
    /\ IF i = 0 THEN Done(h, i) ELSE GotoWork(h, i, "finish")
    /\ UNCHANGED <<db, rows, l2, l1, inbox, load, faults>>

PublishAuthCacheInvalidation(h, i) ==
    /\ work[h][i].pc = "publish"
    /\ \/ /\ \/ inbox' = Hosts /\ UNCHANGED faults
             \/ /\ \E k \in Hosts : inbox' = inbox \cup (Hosts \ {k})
                /\ Fault("messageLost")
          /\ IF i = 0 THEN Done(h, i) ELSE GotoWork(h, i, "finish")
       \/ /\ inbox' \in {inbox, Hosts}
          /\ Fault("redisFails")
          /\ IF i = 0 THEN Done(h, i) ELSE GotoWork(h, i, "retry")
    /\ UNCHANGED <<db, rows, l2, l1, load>>

Claimed(h, i) == i \in DOMAIN rows /\ rows[i].by = h

Without(i) == [j \in DOMAIN rows \ {i} |-> rows[j]]

Later(i, stage) ==
    [rows EXCEPT ![i] = [stage |-> stage, due |-> FALSE, by |-> None,
                         expired |-> FALSE]]

\* Mutant: one pass is enough.
ScheduleNothing(h, i) ==
    /\ work[h][i] = [pc |-> "finish", stage |-> 0]
    /\ Claimed(h, i)
    /\ rows' = Without(i)
    /\ Done(h, i)
    /\ UNCHANGED <<db, l2, l1, inbox, load, faults>>

ScheduleSecondPass(h, i) ==
    /\ work[h][i] = [pc |-> "finish", stage |-> 0]
    /\ \/ /\ Claimed(h, i) /\ rows[i].stage = 0
          /\ rows' = Later(i, 1)
          /\ load' = [r \in Requests |->
                         IF load[r].pc = "idle" THEN load[r]
                         ELSE [load[r] EXCEPT !.behind = @ \cup {i}]]
          /\ UNCHANGED faults
       \/ /\ ~(Claimed(h, i) /\ rows[i].stage = 0)
          /\ UNCHANGED <<rows, load, faults>>
       \/ UNCHANGED <<rows, load>> /\ Fault("dbFails")
    /\ Done(h, i)
    /\ UNCHANGED <<db, l2, l1, inbox>>

DeleteClaimed(h, i) ==
    /\ work[h][i] = [pc |-> "finish", stage |-> 1]
    /\ \/ Claimed(h, i) /\ rows' = Without(i) /\ UNCHANGED faults
       \/ ~Claimed(h, i) /\ UNCHANGED <<rows, faults>>
       \/ UNCHANGED rows /\ Fault("dbFails")
    /\ Done(h, i)
    /\ UNCHANGED <<db, l2, l1, inbox, load>>

RetryClaimed(h, i) ==
    /\ work[h][i].pc = "retry"
    /\ \/ /\ Claimed(h, i)
          /\ rows' = Later(i, rows[i].stage)
          /\ UNCHANGED faults
       \/ ~Claimed(h, i) /\ UNCHANGED <<rows, faults>>
       \/ UNCHANGED rows /\ Fault("dbFails")
    /\ Done(h, i)
    /\ UNCHANGED <<db, l2, l1, inbox, load>>

-----------------------------------------------------------------------------
\* A row's delay passes; the requests of before the delay have ended.
BecomesDue(i) ==
    /\ i \in DOMAIN rows /\ ~rows[i].due
    /\ rows' = [rows EXCEPT ![i].due = TRUE]
    /\ \/ (\A r \in Requests : i \notin load[r].behind) /\ UNCHANGED faults
       \/ (\E r \in Requests : i \in load[r].behind) /\ Fault("slowLoad")
    /\ UNCHANGED <<db, l2, l1, inbox, load, work>>

LeaseExpires(i) ==
    /\ i \in DOMAIN rows /\ rows[i].by # None /\ ~rows[i].expired
    /\ rows' = [rows EXCEPT ![i].expired = TRUE]
    /\ \/ work[rows[i].by][i].pc = "idle" /\ UNCHANGED faults
       \/ work[rows[i].by][i].pc # "idle" /\ Fault("leaseExpires")
    /\ UNCHANGED <<db, l2, l1, inbox, load, work>>

\* A host dies; its successor starts with an empty memory and a new identity.
Crash(h) ==
    /\ l1' = [l1 EXCEPT ![h] = None]
    /\ inbox' = inbox \ {h}
    /\ load' = [r \in Requests |-> IF Host[r] = h THEN IdleLoad ELSE load[r]]
    /\ work' = [work EXCEPT ![h] = [i \in Tasks |-> IdleWork]]
    /\ Fault("crash")
    /\ UNCHANGED <<db, rows, l2>>

-----------------------------------------------------------------------------
\* GetByKey, once it has begun.
GetByKey(r) ==
    \/ LookupAPIKeyForAuth(r) \/ SetAuthCacheL1(r) \/ SetAuthCacheEntry(r)

\* processEvent, and InvalidateAuthCacheByKey as task 0.
ProcessEvent(h, i) ==
    \/ DeleteAuthCache(h, i) \/ PublishAuthCacheInvalidation(h, i)
    \/ ScheduleSecondPass(h, i) \/ DeleteClaimed(h, i) \/ RetryClaimed(h, i)

Next ==
    \/ \E r \in Requests : GetAuthCacheEntry(r) \/ GetByKey(r)
    \/ \E h \in Editors : Change(h)
    \/ \E h \in Hosts :
          \/ Claim(h) \/ Crash(h)
          \/ L1Expires(h) \/ ReceiveInvalidation(h)
          \/ \E i \in Tasks : ProcessEvent(h, i)
    \/ \E i \in Ids : BecomesDue(i) \/ LeaseExpires(i)
    \/ L2Expires

Spec == Init /\ [][Next]_vars

\* Workers poll, what has begun ends, messages arrive, and time passes.
LiveSpec ==
    /\ Spec
    /\ \A r \in Requests : WF_vars(GetByKey(r))
    /\ \A h \in Hosts : WF_vars(L1Expires(h))
    /\ WF_vars(L2Expires)
    /\ WF_vars(\E h \in Hosts : ReceiveInvalidation(h))
    /\ WF_vars(\E h \in Hosts : Claim(h))
    /\ WF_vars(\E h \in Hosts, i \in Tasks : ProcessEvent(h, i))
    /\ WF_vars(\E i \in Ids : BecomesDue(i) /\ UNCHANGED faults)
    /\ WF_vars(\E i \in Ids : LeaseExpires(i) /\ UNCHANGED faults)

-----------------------------------------------------------------------------
Saw(kinds) == faults.kinds \cap kinds # {}

\* Once the outbox has dealt with every change, the entry in Redis is not
\* older than the key, although requests that read the key before a change
\* store what they read after the first pass, and workers crash, retry and
\* overtake each other: all that is needed is that those requests end within
\* the safety delay.
SharedEntryIsFresh ==
    rows = << >> => ~Stale(l2) \/ Saw({"slowLoad"})

\* The same of the memory of each host, when the messages have arrived.  Two
\* more things break it, both until the entry's TTL: a lost message, and a
\* request that got the old entry from Redis just before the second pass
\* deletes it and stores it after the message.
LocalEntryIsFresh ==
    \A h \in Hosts :
        rows = << >> /\ h \notin inbox /\ Stale(l1[h])
            => Saw({"slowLoad", "messageLost", "straddle"})

\* Every change is forgotten everywhere in the end, whatever went wrong: the
\* TTLs catch what the outbox cannot.
EventuallyFresh == <>[](~Stale(l2) /\ \A h \in Hosts : ~Stale(l1[h]))

\* Every row of the outbox is delivered twice and removed, even when a worker
\* dies with it.
OutboxDrains == <>[](rows = << >>)

=============================================================================
