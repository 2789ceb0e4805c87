------------------------ MODULE SystemOperationLock ------------------------
(***************************************************************************)
(* The global lock of the administrator's update, rollback and restart     *)
(* operations: SystemOperationLockService (service/system_operation_lock_  *)
(* service.go) over the row of its fixed key in idempotency_records, and   *)
(* the way the system handler takes and releases it.                       *)
(*                                                                         *)
(* An operation is one request of the handler.  Its goroutine acquires the *)
(* lock, works and releases it, while the renew loop of the lock extends   *)
(* the lease at every interval.  Steps are single SQL statements.          *)
(*                                                                         *)
(* Time.  A step that the code takes at once (a statement of Acquire or    *)
(* Release, a renewal that is due or in flight) takes no time unless a     *)
(* fault delays it; an operation works for as long as it likes.            *)
(***************************************************************************)
EXTENDS IdempotencyStore

CONSTANTS
    Operations,    \* requests that take the lock
    OperationIDs,  \* what buildSystemOperationID returns for them
    Lease,         \* s.lease
    RenewInterval, \* s.renewInterval
    LockTTL,       \* s.ttl
    LastInstant,   \* bound: the last instant
    MaxFaults      \* bound: crashes, failed statements and delays

ASSUME LeaseAssumption ==
    /\ Lease \in Nat \ {0}
    /\ RenewInterval \in Nat \ {0}
    /\ RenewInterval < Lease
    /\ LockTTL \in Nat /\ Lease <= LockTTL
    /\ LastInstant \in Nat
    /\ MaxFaults \in Nat

VARIABLES
    time,       \* time.Now()
    record,     \* the row of the lock
    nextRecord, \* the id of the next row
    at,         \* where each operation is
    opid,       \* its operation id
    began,      \* `now' of its Acquire
    recordID,   \* the row it has read or locked (existing.ID, recordID)
    existingStatus, \* existing.Status
    renew,      \* its renew loop
    renewAt,    \* the next tick of the loop; in flight, the `now' of the call
    leaseEnd,   \* history: the end of the last lease it obtained
    creators,   \* history: operations that inserted the row they locked
    overtaken,  \* history: operations that held while another acquired
    late,       \* history: operations whose renewal took effect after Release
    faults      \* crashes, failed statements and delays so far

existing == <<recordID, existingStatus>>
renewal == <<renew, renewAt>>
history == <<leaseEnd, creators, overtaken, late>>
lockVars == <<time, record, nextRecord, at, opid, began, existing, renewal,
              history, faults>>

AcquirePcs == {"create", "get", "reclaim"}
HolderPcs == {"running", "releasing"}
OperationPcs == {"idle", "busy", "unavailable", "released", "crashed"}
         \cup AcquirePcs \cup HolderPcs

\* The variables keep their types.
LockTypeOK ==
    /\ time \in Nat
    /\ record \in [id : Nat, fp : OperationIDs \cup {"none"},
                status : Statuses, lockedUntil : Nat, expiresAt : Nat,
                body : {"none", "released"}]
    /\ nextRecord \in Nat \ {0}
    /\ at \in [Operations -> OperationPcs]
    /\ opid \in [Operations -> OperationIDs \cup {"none"}]
    /\ began \in [Operations -> Nat]
    /\ recordID \in [Operations -> Nat]
    /\ existingStatus \in [Operations -> Statuses]
    /\ renew \in [Operations -> {"off", "on", "inFlight"}]
    /\ renewAt \in [Operations -> Nat]
    /\ leaseEnd \in [Operations -> Nat]
    /\ creators \subseteq Operations
    /\ overtaken \subseteq Operations
    /\ late \subseteq Operations
    /\ faults \in 0..MaxFaults

LockInit ==
    /\ time = 0
    /\ record = Absent
    /\ nextRecord = 1
    /\ at = [o \in Operations |-> "idle"]
    /\ opid = [o \in Operations |-> "none"]
    /\ began = [o \in Operations |-> 0]
    /\ recordID = [o \in Operations |-> 0]
    /\ existingStatus = [o \in Operations |-> "absent"]
    /\ renew = [o \in Operations |-> "off"]
    /\ renewAt = [o \in Operations |-> 0]
    /\ leaseEnd = [o \in Operations |-> 0]
    /\ creators = {}
    /\ overtaken = {}
    /\ late = {}
    /\ faults = 0

-----------------------------------------------------------------------------
Move(o, p) == at' = [at EXCEPT ![o] = p]

Fault == faults < MaxFaults /\ faults' = faults + 1

Holders == {o \in Operations : at[o] \in HolderPcs}

\* The operation enters Acquire.
AcquireStarts(o, f) ==
    /\ at[o] = "idle"
    /\ opid' = [opid EXCEPT ![o] = f]
    /\ began' = [began EXCEPT ![o] = time]
    /\ Move(o, "create")
    /\ UNCHANGED <<time, record, nextRecord, existing, renewal, history, faults>>

\* Mutant: the renew loop is not started.
AcquiredWithoutRenewal(o) ==
    /\ Move(o, "running")
    /\ UNCHANGED renewal
    /\ leaseEnd' = [leaseEnd EXCEPT ![o] = began[o] + Lease]
    /\ overtaken' = overtaken \cup Holders

\* Acquire returns the lock and starts its renew loop.
Acquired(o) ==
    /\ Move(o, "running")
    /\ renew' = [renew EXCEPT ![o] = "on"]
    /\ renewAt' = [renewAt EXCEPT ![o] = time + RenewInterval]
    /\ leaseEnd' = [leaseEnd EXCEPT ![o] = began[o] + Lease]
    /\ overtaken' = overtaken \cup Holders

LockInserted(o) ==
    /\ ~Present(record)
    /\ record' = Inserted(nextRecord, opid[o], began[o] + Lease,
                          began[o] + LockTTL)
    /\ nextRecord' = nextRecord + 1
    /\ recordID' = [recordID EXCEPT ![o] = nextRecord]

\* CreateProcessing.
AcquireCreates(o) ==
    /\ at[o] = "create"
    /\ \/ /\ LockInserted(o)
          /\ Acquired(o)
          /\ creators' = creators \cup {o}
          /\ UNCHANGED late
       \/ /\ Present(record)
          /\ Move(o, "get")
          /\ UNCHANGED <<record, nextRecord, recordID, renewal, history>>
    /\ UNCHANGED <<time, opid, began, existingStatus, faults>>

\* The row is in processing and its lease has not lapsed.
BusyIfProcessing(o) ==
    record.status = "processing" /\ record.lockedUntil > began[o]

\* GetByScopeAndKeyHash.
AcquireReads(o) ==
    /\ at[o] = "get"
    /\ \/ ~Present(record) /\ Move(o, "unavailable") /\ UNCHANGED existing
       \/ BusyIfProcessing(o) /\ Move(o, "busy") /\ UNCHANGED existing
       \/ /\ Present(record) /\ ~BusyIfProcessing(o)
          /\ Move(o, "reclaim")
          /\ recordID' = [recordID EXCEPT ![o] = record.id]
          /\ existingStatus' = [existingStatus EXCEPT ![o] = record.status]
    /\ UNCHANGED <<time, record, nextRecord, opid, began, renewal, history, faults>>

LockReclaimable(o) ==
    Reclaimable(record, recordID[o], existingStatus[o], began[o])

LockReclaimed(o) ==
    /\ LockReclaimable(o)
    /\ record' = Reclaimed(record, began[o] + Lease, began[o] + LockTTL)

\* TryReclaim.
AcquireReclaims(o) ==
    /\ at[o] = "reclaim"
    /\ \/ LockReclaimed(o) /\ Acquired(o)
       \/ /\ ~LockReclaimable(o)
          /\ Move(o, "busy")
          /\ UNCHANGED <<record, renewal, leaseEnd, overtaken>>
    /\ UNCHANGED <<time, nextRecord, opid, began, existing, creators, late,
                   faults>>

\* A statement of Acquire fails without effect.
AcquireFails(o) ==
    /\ at[o] \in AcquirePcs
    /\ Fault
    /\ Move(o, "unavailable")
    /\ UNCHANGED <<time, record, nextRecord, opid, began, existing, renewal,
                   history>>

\* The claim commits, but Acquire sees an error and returns no lock.
AcquireReplyLost(o) ==
    /\ \/ at[o] = "create" /\ LockInserted(o)
       \/ /\ at[o] = "reclaim" /\ LockReclaimed(o)
          /\ UNCHANGED <<nextRecord, recordID>>
    /\ Fault
    /\ Move(o, "unavailable")
    /\ UNCHANGED <<time, opid, began, existingStatus, renewal, history>>

\* The loop's ticker fires and the loop issues ExtendProcessingLock.
RenewTick(o) ==
    /\ renew[o] = "on"
    /\ renewAt[o] <= time
    /\ renew' = [renew EXCEPT ![o] = "inFlight"]
    /\ renewAt' = [renewAt EXCEPT ![o] = time]
    /\ UNCHANGED <<time, record, nextRecord, at, opid, began, existing,
                   history, faults>>

\* The loop goes back to its select, where a closed stopCh ends it.
LoopContinues(o) ==
    /\ renew' = [renew EXCEPT ![o] =
                    IF at[o] = "running" THEN "on" ELSE "off"]
    /\ renewAt' = [renewAt EXCEPT ![o] = @ + RenewInterval]

ExtendProcessingLock(o) ==
    /\ renew[o] = "inFlight"
    /\ \/ /\ Extendable(record, recordID[o], opid[o])
          /\ record' = Extended(record, renewAt[o] + Lease,
                                renewAt[o] + LockTTL)
          /\ leaseEnd' = [leaseEnd EXCEPT ![o] = renewAt[o] + Lease]
          /\ late' = IF at[o] = "running" THEN late ELSE late \cup {o}
          /\ LoopContinues(o)
       \/ /\ ~Extendable(record, recordID[o], opid[o])
          /\ renew' = [renew EXCEPT ![o] = "off"]
          /\ UNCHANGED <<record, leaseEnd, late, renewAt>>
    /\ UNCHANGED <<time, nextRecord, at, opid, began, existing, creators,
                   overtaken, faults>>

\* The renewal fails; the loop logs the error and goes on.  (A renewal that
\* commits and whose reply is lost does what ExtendProcessingLock does.)
RenewFails(o) ==
    /\ renew[o] = "inFlight"
    /\ Fault
    /\ LoopContinues(o)
    /\ UNCHANGED <<time, record, nextRecord, at, opid, began, existing,
                   history>>

\* The work is done; Release closes stopCh.
Release(o) ==
    /\ at[o] = "running"
    /\ Move(o, "releasing")
    /\ renew' = [renew EXCEPT ![o] = IF @ = "on" THEN "off" ELSE @]
    /\ UNCHANGED <<time, record, nextRecord, opid, began, existing, renewAt,
                   history, faults>>

\* Release marks the row as succeeded, or as failed with a lapsed lock.
ReleaseMarks(o) ==
    /\ at[o] = "releasing"
    /\ \/ record' = Succeeded(record, recordID[o], "released", time + LockTTL)
       \/ record' = FailedRetryable(record, recordID[o], time, time + LockTTL)
    /\ Move(o, "released")
    /\ UNCHANGED <<time, nextRecord, opid, began, existing, renewal, history, faults>>

\* The mark fails; the handler ignores the error.
ReleaseFails(o) ==
    /\ at[o] = "releasing"
    /\ Fault
    /\ Move(o, "released")
    /\ UNCHANGED <<time, record, nextRecord, opid, began, existing, renewal,
                   history>>

\* The instance stops.
InstanceStops(o) ==
    /\ at[o] \in AcquirePcs \cup HolderPcs
    /\ Fault
    /\ Move(o, "crashed")
    /\ renew' = [renew EXCEPT ![o] = "off"]
    /\ UNCHANGED <<time, record, nextRecord, opid, began, existing, renewAt,
                   history>>

\* The sweep of idempotency_cleanup_service.go.
SweepDeletes ==
    /\ Expired(record, time)
    /\ record' = Absent
    /\ UNCHANGED <<time, nextRecord, at, opid, began, existing, renewal,
                   history, faults>>

\* Operations with a step that the code takes at once.
Pending ==
    {o \in Operations :
        \/ at[o] \in AcquirePcs \cup {"releasing"}
        \/ renew[o] = "inFlight"
        \/ renew[o] = "on" /\ renewAt[o] <= time}

TimePasses ==
    /\ time < LastInstant
    /\ time' = time + 1
    /\ IF Pending = {} THEN UNCHANGED faults ELSE Fault
    /\ UNCHANGED <<record, nextRecord, at, opid, began, existing, renewal,
                   history>>

LockNext ==
    \/ TimePasses
    \/ SweepDeletes
    \/ \E o \in Operations :
         \/ \E f \in OperationIDs : AcquireStarts(o, f)
         \/ AcquireCreates(o) \/ AcquireReads(o) \/ AcquireReclaims(o)
         \/ AcquireFails(o) \/ AcquireReplyLost(o)
         \/ RenewTick(o) \/ ExtendProcessingLock(o) \/ RenewFails(o)
         \/ Release(o) \/ ReleaseMarks(o) \/ ReleaseFails(o)
         \/ InstanceStops(o)

LockSpec == LockInit /\ [][LockNext]_lockVars

-----------------------------------------------------------------------------
\* Nobody acquires the lock while an operation holds it whose last lease,
\* from Acquire or from a renewal, has not lapsed, although Acquire compares
\* the lease with a reading of the clock that may be long past when
\* TryReclaim runs.  This ends with the first operation that is overtaken,
\* whose Release will free the lock of its successor, and with the first
\* renewal that reaches the row after the Release of its lock, which may
\* move the lease of the successor back.
TakeoverOnlyAfterLease ==
    [][\A o, h \in Operations :
          /\ overtaken = {} /\ late = {}
          /\ at[h] \in HolderPcs
          /\ at[o] \in AcquirePcs /\ at'[o] = "running"
          => leaseEnd[h] <= time]_lockVars

\* An operation that inserted the row keeps the lock for as long as it
\* works, if nothing fails and its renewals are on time.
CreatorIsNotOvertaken ==
    faults = 0 => creators \cap overtaken = {}

\* What the service, its tests and the handler say of every operation, the
\* ones that reclaimed the row included: "locked_until should be renewed
\* while lock is held", so that a later operation is told that another one
\* is in progress.  (TryReclaim leaves the previous operation id in the row
\* and ExtendProcessingLock looks for the new one, so this does not hold.)
HolderIsNotOvertaken ==
    faults = 0 => overtaken = {}

=============================================================================
