--------------------------- MODULE AuthCacheProofs ---------------------------
(***************************************************************************)
(* What AuthCache keeps for any hosts, requests and number of changes: the *)
(* second pass of the outbox leaves neither Redis nor a host's memory with *)
(* an entry from before the change.  The inductive invariant follows one   *)
(* change through its second pass: requests that read the key before it    *)
(* have ended when the pass begins, so that what the pass deletes stays    *)
(* deleted.                                                                *)
(***************************************************************************)
EXTENDS AuthCache, TLAPS

\* An entry from before change i.
Old(entry, i) == entry # None /\ entry < i

\* A worker knows only rows that were added.
WorkIsKnown == \A h \in Hosts, i \in Ids : work[h][i].pc # "idle" => i <= db

\* A request that read the key before the first pass and is still to store it
\* holds the second pass up.
SetIsBehind ==
    \A i \in DOMAIN rows, r \in Requests :
        rows[i].stage = 1 /\ load[r].pc = "set" /\ Old(load[r].entry, i)
            => i \in load[r].behind

\* The safety delay of change i has passed.
DelayPassed(i) ==
    \/ i \notin DOMAIN rows
    \/ rows[i].stage = 1 /\ rows[i].due
    \/ \E h \in Hosts : work[h][i].pc # "idle" /\ work[h][i].stage = 1

\* Its second pass has deleted the entry in Redis.
Deleted(i) ==
    \/ i \notin DOMAIN rows
    \/ \E h \in Hosts : /\ work[h][i].pc \in {"publish", "finish"}
                        /\ work[h][i].stage = 1

\* Its second pass has told the hosts.
Published(i) ==
    \/ i \notin DOMAIN rows
    \/ \E h \in Hosts : work[h][i].pc = "finish" /\ work[h][i].stage = 1

LoadsEnd == ~Saw({"slowLoad"})
HostsHear == ~Saw({"slowLoad", "messageLost", "straddle"})

NoLateSet ==
    LoadsEnd => \A i \in 1..db, r \in Requests :
        DelayPassed(i) /\ load[r].pc = "set" => ~Old(load[r].entry, i)

SharedIsNew ==
    LoadsEnd => \A i \in 1..db : Deleted(i) => ~Old(l2, i)

NoLateCopy ==
    HostsHear => \A i \in 1..db, r \in Requests :
        Deleted(i) /\ load[r].pc = "copy" => ~Old(load[r].entry, i)

LocalIsNew ==
    HostsHear => \A i \in 1..db, h \in Hosts :
        Published(i) => h \in inbox \/ ~Old(l1[h], i)

Fresh == NoLateSet /\ SharedIsNew /\ NoLateCopy /\ LocalIsNew

IInv == TypeOK /\ WorkIsKnown /\ SetIsBehind /\ Fresh

FaultStates == [count : 0..MaxFaults, kinds : SUBSET (Perils \cup {"straddle"})]

USE CacheAssumption

-----------------------------------------------------------------------------
LEMMA Faulty ==
    ASSUME IInv, \/ UNCHANGED faults \/ \E kind \in Perils : Fault(kind)
    PROVE  faults' \in FaultStates /\ faults.kinds \subseteq faults'.kinds
  <1>1. faults \in FaultStates
    BY DEF IInv, TypeOK, FaultStates
  <1>2. ASSUME NEW kind \in Perils, Fault(kind)
        PROVE  faults' \in FaultStates /\ faults.kinds \subseteq faults'.kinds
    BY <1>1, <1>2 DEF Fault, FaultStates
  <1> QED BY <1>1, <1>2

LEMMA FaultsOnly ==
    ASSUME faults.kinds \subseteq faults'.kinds
    PROVE  (LoadsEnd' => LoadsEnd) /\ (HostsHear' => HostsHear /\ LoadsEnd)
  BY DEF LoadsEnd, HostsHear, Saw

\* A step in which no request goes on, entries at most go, and no change gets
\* further with its second pass.
LEMMA FreshKept ==
    ASSUME IInv, UNCHANGED db, faults.kinds \subseteq faults'.kinds,
           \A r \in Requests :
              \/ load'[r].pc = "idle"
              \/ load'[r].pc = load[r].pc /\ load'[r].entry = load[r].entry,
           l2' \in {l2, None},
           \A h \in Hosts : /\ l1'[h] \in {l1[h], None}
                            /\ h \in inbox => h \in inbox' \/ l1'[h] = None,
           \A i \in 1..db : /\ DelayPassed(i)' => DelayPassed(i)
                            /\ Deleted(i)' => Deleted(i)
                            /\ Published(i)' => Published(i)
    PROVE  Fresh'
  <1>1. (LoadsEnd' => LoadsEnd) /\ (HostsHear' => HostsHear)
    BY FaultsOnly
  <1> USE DEF Old
  <1>2. NoLateSet'
    BY <1>1 DEF IInv, Fresh, NoLateSet
  <1>3. SharedIsNew'
    BY <1>1 DEF IInv, Fresh, SharedIsNew
  <1>4. NoLateCopy'
    BY <1>1 DEF IInv, Fresh, NoLateCopy
  <1>5. LocalIsNew'
    BY <1>1 DEF IInv, Fresh, LocalIsNew
  <1> QED BY <1>2, <1>3, <1>4, <1>5 DEF Fresh

\* A step of a request leaves the outbox and its workers alone.
LEMMA OutboxUnchanged ==
    ASSUME UNCHANGED <<rows, work>>
    PROVE  \A i : /\ DelayPassed(i)' = DelayPassed(i)
                  /\ Deleted(i)' = Deleted(i)
                  /\ Published(i)' = Published(i)
  BY DEF DelayPassed, Deleted, Published

\* One task of one host goes on.
LEMMA GotoWorkFacts ==
    ASSUME work \in [Hosts -> [Tasks -> Works]], NEW h \in Hosts, NEW i \in Tasks,
           NEW pc \in {"idle", "del", "publish", "finish", "retry"},
           GotoWork(h, i, pc)
    PROVE  /\ work' \in [Hosts -> [Tasks -> Works]]
           /\ work'[h][i].pc = pc /\ work'[h][i].stage = work[h][i].stage
           /\ \A k \in Hosts, j \in Tasks :
                 k # h \/ j # i => work'[k][j] = work[k][j]
  <1>1. work' = [work EXCEPT ![h] =
                   [work[h] EXCEPT ![i] = [work[h][i] EXCEPT !.pc = pc]]]
    BY DEF GotoWork
  <1>2. [work[h][i] EXCEPT !.pc = pc] \in Works
    BY DEF Works
  <1>3. work' \in [Hosts -> [Tasks -> Works]]
    BY <1>1, <1>2
  <1>4. work'[h][i] = [work[h][i] EXCEPT !.pc = pc]
    BY <1>1
  <1>5. work'[h][i].pc = pc /\ work'[h][i].stage = work[h][i].stage
    BY <1>4 DEF Works
  <1> QED BY <1>1, <1>3, <1>5

LEMMA DoneFacts ==
    ASSUME work \in [Hosts -> [Tasks -> Works]], NEW h \in Hosts, NEW i \in Tasks,
           Done(h, i)
    PROVE  /\ work' \in [Hosts -> [Tasks -> Works]]
           /\ work'[h][i].pc = "idle"
           /\ \A k \in Hosts, j \in Tasks :
                 k # h \/ j # i => work'[k][j] = work[k][j]
  <1>1. IdleWork \in Works /\ IdleWork.pc = "idle"
    BY DEF IdleWork, Works
  <1>2. work' = [work EXCEPT ![h] = [work[h] EXCEPT ![i] = IdleWork]]
    BY DEF Done
  <1> QED BY <1>1, <1>2

-----------------------------------------------------------------------------
(* Requests.                                                               *)

LEMMA GetEntryKeeps ==
    ASSUME IInv, NEW r \in Requests, GetAuthCacheEntry(r)
    PROVE  IInv'
  <1>1. faults' \in FaultStates /\ faults.kinds \subseteq faults'.kinds
    BY Faulty DEF GetAuthCacheEntry, Fault
  <1>2. load \in [Requests -> Loads] /\ l2 \in Entries
    BY DEF IInv, TypeOK
  <1>3. PICK pc \in {"copy", "read"}, e \in {load[r].entry, l2} :
          /\ load' = [load EXCEPT ![r].pc = pc, ![r].entry = e]
          /\ pc = "copy" => e = l2
    <2>1. CASE load' = [load EXCEPT ![r].pc = "copy", ![r].entry = l2]
      BY <2>1
    <2>2. CASE GotoLoad(r, "read")
      <3>1. load' = [load EXCEPT ![r].pc = "read", ![r].entry = load[r].entry]
        BY <1>2, <2>2 DEF GotoLoad, Loads
      <3> QED BY <3>1
    <2> QED BY <2>1, <2>2 DEF GetAuthCacheEntry
  <1>4. /\ load' \in [Requests -> Loads]
        /\ \A s \in Requests \ {r} : load'[s] = load[s]
        /\ load'[r].pc = pc /\ load'[r].entry = e
    BY <1>2, <1>3 DEF Loads
  <1>5. UNCHANGED <<db, rows, l2, l1, inbox, work>>
    BY DEF GetAuthCacheEntry
  <1>6. TypeOK' /\ WorkIsKnown'
    BY <1>1, <1>4, <1>5 DEF IInv, TypeOK, FaultStates, WorkIsKnown
  <1>7. SetIsBehind'
    BY <1>4, <1>5 DEF IInv, SetIsBehind
  <1>8. Fresh'
    <2>1. (LoadsEnd' => LoadsEnd) /\ (HostsHear' => HostsHear /\ LoadsEnd)
      BY <1>1, FaultsOnly
    <2>2. \A i : /\ DelayPassed(i)' = DelayPassed(i)
                 /\ Deleted(i)' = Deleted(i) /\ Published(i)' = Published(i)
      BY <1>5, OutboxUnchanged
    <2>3. NoLateSet'
      BY <1>4, <1>5, <2>1, <2>2 DEF IInv, Fresh, NoLateSet
    <2>4. SharedIsNew'
      BY <1>5, <2>1, <2>2 DEF IInv, Fresh, SharedIsNew
    <2>5. NoLateCopy'
      BY <1>3, <1>4, <1>5, <2>1, <2>2 DEF IInv, Fresh, NoLateCopy, SharedIsNew
    <2>6. LocalIsNew'
      BY <1>5, <2>1, <2>2 DEF IInv, Fresh, LocalIsNew
    <2> QED BY <2>3, <2>4, <2>5, <2>6 DEF Fresh
  <1> QED BY <1>6, <1>7, <1>8 DEF IInv

LEMMA LookupKeeps ==
    ASSUME IInv, NEW r \in Requests, LookupAPIKeyForAuth(r)
    PROVE  IInv'
  <1>1. faults' \in FaultStates /\ faults.kinds \subseteq faults'.kinds
    BY Faulty DEF LookupAPIKeyForAuth, Fault
  <1>2. load \in [Requests -> Loads] /\ db \in 0..MaxChanges
    BY DEF IInv, TypeOK
  <1>3. UNCHANGED <<db, rows, l2, l1, inbox, work>>
    BY DEF LookupAPIKeyForAuth
  <1>4. /\ load' \in [Requests -> Loads]
        /\ \A s \in Requests \ {r} : load'[s] = load[s]
        /\ \/ load'[r].pc = "set" /\ load'[r].entry = db
           \/ load'[r].pc = "idle"
    BY <1>2 DEF LookupAPIKeyForAuth, Answer, IdleLoad, Loads, Entries
  <1>5. TypeOK' /\ WorkIsKnown'
    BY <1>1, <1>3, <1>4 DEF IInv, TypeOK, FaultStates, WorkIsKnown
  <1>6. \A i \in 1..db : ~Old(db, i)
    BY <1>2 DEF Old
  <1>7. SetIsBehind'
    BY <1>3, <1>4, <1>6 DEF IInv, TypeOK, SetIsBehind
  <1>8. Fresh'
    <2>1. (LoadsEnd' => LoadsEnd) /\ (HostsHear' => HostsHear /\ LoadsEnd)
      BY <1>1, FaultsOnly
    <2>2. \A i : /\ DelayPassed(i)' = DelayPassed(i)
                 /\ Deleted(i)' = Deleted(i) /\ Published(i)' = Published(i)
      BY <1>3, OutboxUnchanged
    <2>3. NoLateSet'
      BY <1>3, <1>4, <1>6, <2>1, <2>2 DEF IInv, Fresh, NoLateSet
    <2>4. SharedIsNew'
      BY <1>3, <2>1, <2>2 DEF IInv, Fresh, SharedIsNew
    <2>5. NoLateCopy'
      BY <1>3, <1>4, <2>1, <2>2 DEF IInv, Fresh, NoLateCopy
    <2>6. LocalIsNew'
      BY <1>3, <2>1, <2>2 DEF IInv, Fresh, LocalIsNew
    <2> QED BY <2>3, <2>4, <2>5, <2>6 DEF Fresh
  <1> QED BY <1>5, <1>7, <1>8 DEF IInv

\* What a request stores is not from before a change whose delay has passed.
LEMMA SetKeeps ==
    ASSUME IInv, NEW r \in Requests, SetAuthCacheL1(r) \/ SetAuthCacheEntry(r)
    PROVE  IInv'
  <1>1. faults' \in FaultStates /\ faults.kinds \subseteq faults'.kinds
    BY Faulty DEF SetAuthCacheL1, SetAuthCacheEntry, Fault
  <1>2. /\ load \in [Requests -> Loads] /\ l2 \in Entries
        /\ l1 \in [Hosts -> Entries] /\ load[r].entry \in Entries
    BY DEF IInv, TypeOK, Loads
  <1>3. /\ UNCHANGED <<db, rows, inbox, work>>
        /\ load[r].pc \in {"copy", "set"}
        /\ l1' = [l1 EXCEPT ![Host[r]] = load[r].entry]
        /\ l2' = l2 \/ (load[r].pc = "set" /\ l2' = load[r].entry)
        /\ Answer(r)
    BY DEF SetAuthCacheL1, SetAuthCacheEntry
  <1>4. /\ load' \in [Requests -> Loads]
        /\ \A s \in Requests \ {r} : load'[s] = load[s]
        /\ load'[r].pc = "idle"
    BY <1>2, <1>3 DEF Answer, IdleLoad, Loads, Entries
  <1>5. /\ l1' \in [Hosts -> Entries]
        /\ \A h \in Hosts : l1'[h] = l1[h] \/ l1'[h] = load[r].entry
    BY <1>2, <1>3
  <1>6. TypeOK' /\ WorkIsKnown'
    BY <1>1, <1>2, <1>3, <1>4, <1>5 DEF IInv, TypeOK, FaultStates, WorkIsKnown
  <1>7. SetIsBehind'
    BY <1>3, <1>4 DEF IInv, SetIsBehind
  <1>8. Fresh'
    <2>1. (LoadsEnd' => LoadsEnd) /\ (HostsHear' => HostsHear /\ LoadsEnd)
      BY <1>1, FaultsOnly
    <2>2. \A i : /\ DelayPassed(i)' = DelayPassed(i)
                 /\ Deleted(i)' = Deleted(i) /\ Published(i)' = Published(i)
      BY <1>3, OutboxUnchanged
    <2>3. \A i : (Published(i) => Deleted(i)) /\ (Deleted(i) => DelayPassed(i))
      BY DEF Published, Deleted, DelayPassed
    <2>4. NoLateSet'
      BY <1>3, <1>4, <2>1, <2>2 DEF IInv, Fresh, NoLateSet
    <2>5. SharedIsNew'
      BY <1>3, <2>1, <2>2, <2>3 DEF IInv, Fresh, SharedIsNew, NoLateSet
    <2>6. NoLateCopy'
      BY <1>3, <1>4, <2>1, <2>2 DEF IInv, Fresh, NoLateCopy
    <2>7. LocalIsNew'
      BY <1>3, <1>5, <2>1, <2>2, <2>3
         DEF IInv, Fresh, LocalIsNew, NoLateSet, NoLateCopy
    <2> QED BY <2>4, <2>5, <2>6, <2>7 DEF Fresh
  <1> QED BY <1>6, <1>7, <1>8 DEF IInv

-----------------------------------------------------------------------------
(* The key, the caches and time.                                           *)

\* The first pass of a new change is still to come.
LEMMA ChangeKeeps ==
    ASSUME IInv, NEW h \in Hosts, Change(h)
    PROVE  IInv'
  <1>1. /\ db \in 0..MaxChanges /\ DOMAIN rows \subseteq 1..db
        /\ rows \in [DOMAIN rows -> Rows]
        /\ work \in [Hosts -> [Tasks -> Works]]
    BY DEF IInv, TypeOK
  <1>2. /\ db < MaxChanges /\ db' = db + 1
        /\ UNCHANGED <<l2, l1, inbox, load, faults>>
    BY DEF Change
  <1>3. /\ DOMAIN rows' = DOMAIN rows \cup {db + 1}
        /\ \A i \in DOMAIN rows : rows'[i] = rows[i]
        /\ rows'[db + 1].stage = 0
        /\ rows' \in [DOMAIN rows' -> Rows]
    BY <1>1 DEF Change, Rows
  <1>4. /\ work' \in [Hosts -> [Tasks -> Works]]
        /\ \A k \in Hosts, i \in Ids : work'[k][i] = work[k][i]
    <2>1. GotoWork(h, 0, "del") /\ 0 \in Tasks /\ 0 \notin Ids /\ Ids \subseteq Tasks
      BY DEF Change, Tasks, Ids
    <2> QED BY <1>1, <2>1, GotoWorkFacts
  <1>5. TypeOK'
    BY <1>1, <1>2, <1>3, <1>4 DEF IInv, TypeOK
  <1>6. WorkIsKnown'
    BY <1>1, <1>2, <1>4 DEF IInv, WorkIsKnown, Ids
  <1>7. SetIsBehind'
    BY <1>1, <1>2, <1>3 DEF IInv, SetIsBehind
  <1>8. \A i : i = db + 1 => /\ i \in Ids /\ i \in DOMAIN rows'
                             /\ rows'[i].stage = 0
                             /\ \A k \in Hosts : work'[k][i].pc = "idle"
    BY <1>1, <1>2, <1>3, <1>4 DEF IInv, WorkIsKnown, Ids
  <1>9. \A i : i = db + 1 => ~DelayPassed(i)' /\ ~Deleted(i)' /\ ~Published(i)'
    BY <1>8 DEF DelayPassed, Deleted, Published
  <1>10. \A i \in 1..db :
            /\ DelayPassed(i)' => DelayPassed(i)
            /\ Deleted(i)' => Deleted(i)
            /\ Published(i)' => Published(i)
    <2>1. 1..db \subseteq Ids
      BY <1>1 DEF Ids
    <2> QED BY <1>1, <1>3, <1>4, <2>1 DEF DelayPassed, Deleted, Published
  <1>11. \A i \in 1..db' : i \in 1..db \/ i = db + 1
    <2>1. \A i \in 1..(db + 1) : i \in 1..db \/ i = db + 1
      BY <1>1
    <2> QED BY <1>2, <2>1
  <1>12. Fresh'
    <2>1. UNCHANGED LoadsEnd /\ UNCHANGED HostsHear
      BY <1>2 DEF LoadsEnd, HostsHear, Saw
    <2>2. NoLateSet'
      BY <1>2, <1>9, <1>10, <1>11, <2>1 DEF IInv, Fresh, NoLateSet
    <2>3. SharedIsNew'
      BY <1>2, <1>9, <1>10, <1>11, <2>1 DEF IInv, Fresh, SharedIsNew
    <2>4. NoLateCopy'
      BY <1>2, <1>9, <1>10, <1>11, <2>1 DEF IInv, Fresh, NoLateCopy
    <2>5. LocalIsNew'
      BY <1>2, <1>9, <1>10, <1>11, <2>1 DEF IInv, Fresh, LocalIsNew
    <2> QED BY <2>2, <2>3, <2>4, <2>5 DEF Fresh
  <1> QED BY <1>5, <1>6, <1>7, <1>12 DEF IInv

\* Entries go: a TTL passes, a message arrives, memory runs full.
LEMMA EntriesGo ==
    ASSUME IInv,
           \/ L2Expires
           \/ \E h \in Hosts : L1Expires(h) \/ ReceiveInvalidation(h)
    PROVE  IInv'
  <1>1. UNCHANGED <<db, rows, load, work, faults>>
    BY DEF L2Expires, L1Expires, ReceiveInvalidation
  <1>2. /\ l2' \in {l2, None} /\ l1' \in [Hosts -> Entries]
        /\ inbox' \in SUBSET Hosts
        /\ \A h \in Hosts : /\ l1'[h] \in {l1[h], None}
                            /\ h \in inbox => h \in inbox' \/ l1'[h] = None
    BY DEF IInv, TypeOK, L2Expires, L1Expires, ReceiveInvalidation, Entries
  <1>3. TypeOK'
    BY <1>1, <1>2 DEF IInv, TypeOK, Entries
  <1>4. WorkIsKnown' /\ SetIsBehind'
    BY <1>1 DEF IInv, WorkIsKnown, SetIsBehind
  <1>5. Fresh'
    <2>1. \A i : /\ DelayPassed(i)' = DelayPassed(i)
                 /\ Deleted(i)' = Deleted(i) /\ Published(i)' = Published(i)
      BY <1>1, OutboxUnchanged
    <2> QED BY <1>1, <1>2, <2>1, FreshKept
  <1> QED BY <1>3, <1>4, <1>5 DEF IInv

\* The requests of before the delay have ended, or slowLoad is on record.
LEMMA BecomesDueKeeps ==
    ASSUME IInv, NEW n \in Ids, BecomesDue(n)
    PROVE  IInv'
  <1>1. faults' \in FaultStates /\ faults.kinds \subseteq faults'.kinds
    BY Faulty DEF BecomesDue, Fault
  <1>2. UNCHANGED <<db, l2, l1, inbox, load, work>>
    BY DEF BecomesDue
  <1>3. /\ n \in DOMAIN rows /\ rows \in [DOMAIN rows -> Rows]
        /\ DOMAIN rows' = DOMAIN rows /\ rows' \in [DOMAIN rows -> Rows]
        /\ \A i \in DOMAIN rows \ {n} : rows'[i] = rows[i]
        /\ rows'[n].stage = rows[n].stage
    <2>1. n \in DOMAIN rows /\ rows \in [DOMAIN rows -> Rows] /\ rows[n] \in Rows
      BY DEF IInv, TypeOK, BecomesDue
    <2>2. rows' = [rows EXCEPT ![n] = [rows[n] EXCEPT !.due = TRUE]]
      BY DEF BecomesDue
    <2>3. /\ [rows[n] EXCEPT !.due = TRUE] \in Rows
          /\ [rows[n] EXCEPT !.due = TRUE].stage = rows[n].stage
      BY <2>1 DEF Rows
    <2> QED BY <2>1, <2>2, <2>3
  <1>4. TypeOK' /\ WorkIsKnown'
    BY <1>1, <1>2, <1>3 DEF IInv, TypeOK, FaultStates, WorkIsKnown
  <1>5. SetIsBehind'
    BY <1>2, <1>3 DEF IInv, SetIsBehind
  <1>6. Fresh'
    <2>1. (LoadsEnd' => LoadsEnd) /\ (HostsHear' => HostsHear /\ LoadsEnd)
      BY <1>1, FaultsOnly
    <2>2. \A i : /\ Deleted(i)' = Deleted(i) /\ Published(i)' = Published(i)
                 /\ DelayPassed(i)' => \/ DelayPassed(i)
                                       \/ i = n /\ rows[n].stage = 1
      BY <1>2, <1>3 DEF Deleted, Published, DelayPassed
    <2>3. LoadsEnd' => \A r \in Requests : n \notin load[r].behind
      BY DEF BecomesDue, LoadsEnd, Saw, Fault
    <2>4. NoLateSet'
      <3> SUFFICES ASSUME LoadsEnd', NEW i \in 1..db, NEW r \in Requests,
                          DelayPassed(i)', load[r].pc = "set"
                   PROVE  ~Old(load[r].entry, i)
        BY <1>2 DEF NoLateSet, Old
      <3>1. CASE DelayPassed(i)
        BY <2>1, <3>1 DEF IInv, Fresh, NoLateSet
      <3>2. CASE i = n /\ rows[n].stage = 1
        BY <1>3, <2>3, <3>2 DEF IInv, SetIsBehind
      <3> QED BY <2>2, <3>1, <3>2
    <2>5. SharedIsNew'
      BY <1>2, <2>1, <2>2 DEF IInv, Fresh, SharedIsNew
    <2>6. NoLateCopy'
      BY <1>2, <2>1, <2>2 DEF IInv, Fresh, NoLateCopy
    <2>7. LocalIsNew'
      BY <1>2, <2>1, <2>2 DEF IInv, Fresh, LocalIsNew
    <2> QED BY <2>4, <2>5, <2>6, <2>7 DEF Fresh
  <1> QED BY <1>4, <1>5, <1>6 DEF IInv

LEMMA LeaseExpiresKeeps ==
    ASSUME IInv, NEW n \in Ids, LeaseExpires(n)
    PROVE  IInv'
  <1>1. faults' \in FaultStates /\ faults.kinds \subseteq faults'.kinds
    BY Faulty DEF LeaseExpires, Fault
  <1>2. UNCHANGED <<db, l2, l1, inbox, load, work>>
    BY DEF LeaseExpires
  <1>3. /\ DOMAIN rows' = DOMAIN rows /\ rows' \in [DOMAIN rows -> Rows]
        /\ \A i \in DOMAIN rows : /\ rows'[i].stage = rows[i].stage
                                  /\ rows'[i].due = rows[i].due
    <2>1. n \in DOMAIN rows /\ rows \in [DOMAIN rows -> Rows] /\ rows[n] \in Rows
      BY DEF IInv, TypeOK, LeaseExpires
    <2>2. rows' = [rows EXCEPT ![n] = [rows[n] EXCEPT !.expired = TRUE]]
      BY DEF LeaseExpires
    <2>3. /\ [rows[n] EXCEPT !.expired = TRUE] \in Rows
          /\ [rows[n] EXCEPT !.expired = TRUE].stage = rows[n].stage
          /\ [rows[n] EXCEPT !.expired = TRUE].due = rows[n].due
      BY <2>1 DEF Rows
    <2> QED BY <2>1, <2>2, <2>3
  <1>4. TypeOK' /\ WorkIsKnown'
    BY <1>1, <1>2, <1>3 DEF IInv, TypeOK, FaultStates, WorkIsKnown
  <1>5. SetIsBehind'
    BY <1>2, <1>3 DEF IInv, SetIsBehind
  <1>6. \A i : /\ DelayPassed(i)' => DelayPassed(i)
               /\ Deleted(i)' => Deleted(i)
               /\ Published(i)' => Published(i)
    BY <1>2, <1>3 DEF DelayPassed, Deleted, Published
  <1>7. Fresh'
    BY <1>1, <1>2, <1>6, FreshKept
  <1> QED BY <1>4, <1>5, <1>7 DEF IInv

LEMMA CrashKeeps ==
    ASSUME IInv, NEW h \in Hosts, Crash(h)
    PROVE  IInv'
  <1>1. faults' \in FaultStates /\ faults.kinds \subseteq faults'.kinds
    BY Faulty DEF Crash, Fault
  <1>2. UNCHANGED <<db, rows, l2>>
    BY DEF Crash
  <1>3. /\ IdleLoad \in Loads /\ IdleLoad.pc = "idle"
        /\ IdleWork \in Works /\ IdleWork.pc = "idle"
    BY DEF IdleLoad, IdleWork, Loads, Works, Entries
  <1>4. /\ load' \in [Requests -> Loads]
        /\ \A r \in Requests : load'[r] \in {load[r], IdleLoad}
    BY <1>3 DEF IInv, TypeOK, Crash
  <1>5. /\ work' \in [Hosts -> [Tasks -> Works]]
        /\ \A k \in Hosts, i \in Tasks : work'[k][i] \in {work[k][i], IdleWork}
    BY <1>3 DEF IInv, TypeOK, Crash
  <1>6. /\ l1' \in [Hosts -> Entries] /\ inbox' \in SUBSET Hosts
        /\ \A k \in Hosts : /\ l1'[k] \in {l1[k], None}
                            /\ k \in inbox => k \in inbox' \/ l1'[k] = None
    BY DEF IInv, TypeOK, Crash, Entries
  <1>7. TypeOK'
    BY <1>1, <1>2, <1>4, <1>5, <1>6 DEF IInv, TypeOK, FaultStates
  <1>8. Ids \subseteq Tasks /\ 1..db \subseteq Ids
    BY DEF IInv, TypeOK, Ids, Tasks
  <1>9. WorkIsKnown'
    BY <1>2, <1>3, <1>5, <1>8 DEF IInv, WorkIsKnown
  <1>10. SetIsBehind'
    BY <1>2, <1>3, <1>4 DEF IInv, SetIsBehind
  <1>11. \A i \in 1..db :
           /\ DelayPassed(i)' => DelayPassed(i)
           /\ Deleted(i)' => Deleted(i)
           /\ Published(i)' => Published(i)
    BY <1>2, <1>3, <1>5, <1>8 DEF DelayPassed, Deleted, Published
  <1>12. \A r \in Requests :
           \/ load'[r].pc = "idle"
           \/ load'[r].pc = load[r].pc /\ load'[r].entry = load[r].entry
    BY <1>3, <1>4
  <1>13. Fresh'
    BY <1>1, <1>2, <1>6, <1>11, <1>12, FreshKept
  <1> QED BY <1>7, <1>9, <1>10, <1>13 DEF IInv

-----------------------------------------------------------------------------
(* The outbox.                                                             *)

\* A second pass begins only when its row is due.
LEMMA ClaimKeeps ==
    ASSUME IInv, NEW h \in Hosts, Claim(h)
    PROVE  IInv'
  <1> DEFINE available == {i \in DOMAIN rows : /\ rows[i].due
                                               /\ rows[i].by = None \/ rows[i].expired}
  <1>1. faults' \in FaultStates /\ faults.kinds \subseteq faults'.kinds
    BY Faulty DEF Claim, Fault
  <1>2. /\ rows \in [DOMAIN rows -> Rows] /\ DOMAIN rows \subseteq 1..db
        /\ work \in [Hosts -> [Tasks -> Works]]
        /\ Ids \subseteq Tasks /\ 1..db \subseteq Ids
    BY DEF IInv, TypeOK, Ids, Tasks
  <1>3. UNCHANGED <<db, l2, l1, inbox, load>>
    BY DEF Claim
  <1>4. /\ DOMAIN rows' = DOMAIN rows /\ rows' \in [DOMAIN rows -> Rows]
        /\ \A i \in DOMAIN rows : /\ rows'[i].stage = rows[i].stage
                                  /\ rows'[i].due = rows[i].due
    <2>1. rows' = [i \in DOMAIN rows |->
                     IF i \in available
                     THEN [rows[i] EXCEPT !.by = h, !.expired = FALSE]
                     ELSE rows[i]]
      BY DEF Claim
    <2>2. ASSUME NEW i \in DOMAIN rows
          PROVE  /\ [rows[i] EXCEPT !.by = h, !.expired = FALSE] \in Rows
                 /\ [rows[i] EXCEPT !.by = h, !.expired = FALSE].stage
                      = rows[i].stage
                 /\ [rows[i] EXCEPT !.by = h, !.expired = FALSE].due
                      = rows[i].due
      BY <1>2 DEF Rows
    <2> HIDE DEF available
    <2> QED BY <1>2, <2>1, <2>2
  <1>5. /\ work' \in [Hosts -> [Tasks -> Works]]
        /\ \A k \in Hosts, i \in Ids :
              \/ work'[k][i] = work[k][i]
              \/ /\ i \in available
                 /\ work'[k][i] = [pc |-> "del", stage |-> rows[i].stage]
    <2>1. CASE UNCHANGED work
      BY <1>2, <2>1
    <2>2. CASE work' = [work EXCEPT ![h] = [i \in Tasks |->
                          IF i \in available
                          THEN [pc |-> "del", stage |-> rows[i].stage]
                          ELSE work[h][i]]]
      <3>1. \A i \in available : [pc |-> "del", stage |-> rows[i].stage] \in Works
        BY <1>2 DEF Rows, Works
      <3> HIDE DEF available
      <3>2. [i \in Tasks |-> IF i \in available
                             THEN [pc |-> "del", stage |-> rows[i].stage]
                             ELSE work[h][i]] \in [Tasks -> Works]
        BY <1>2, <3>1
      <3> QED BY <1>2, <2>2, <3>2
    <2> QED BY <2>1, <2>2 DEF Claim
  <1>6. TypeOK'
    BY <1>1, <1>3, <1>4, <1>5 DEF IInv, TypeOK, FaultStates
  <1>11. \A k \in Hosts, i \in Ids :
           \/ work'[k][i] = work[k][i]
           \/ /\ i \in DOMAIN rows /\ rows[i].due /\ i <= db
              /\ work'[k][i].pc = "del" /\ work'[k][i].stage = rows[i].stage
    <2>1. \A i \in available : i \in DOMAIN rows /\ rows[i].due /\ i <= db
      BY <1>2 DEF IInv, TypeOK
    <2> HIDE DEF available
    <2>2. ASSUME NEW k \in Hosts, NEW i \in Ids, i \in available,
                 work'[k][i] = [pc |-> "del", stage |-> rows[i].stage]
          PROVE  /\ i \in DOMAIN rows /\ rows[i].due /\ i <= db
                 /\ work'[k][i].pc = "del" /\ work'[k][i].stage = rows[i].stage
      BY <2>1, <2>2
    <2> QED BY <1>5, <2>2
  <1>7. WorkIsKnown'
    BY <1>3, <1>11 DEF IInv, WorkIsKnown
  <1>8. SetIsBehind'
    BY <1>3, <1>4 DEF IInv, SetIsBehind
  <1>9. \A i \in 1..db : /\ DelayPassed(i)' => DelayPassed(i)
                         /\ Deleted(i)' => Deleted(i)
                         /\ Published(i)' => Published(i)
    <2> SUFFICES ASSUME NEW i \in 1..db
                 PROVE  /\ DelayPassed(i)' => DelayPassed(i)
                        /\ Deleted(i)' => Deleted(i)
                        /\ Published(i)' => Published(i)
      OBVIOUS
    <2>1. i \in Ids
      BY <1>2
    <2> QED BY <1>4, <1>11, <2>1 DEF DelayPassed, Deleted, Published
  <1>10. Fresh'
    BY <1>1, <1>3, <1>9, FreshKept
  <1> QED BY <1>6, <1>7, <1>8, <1>10 DEF IInv

\* The second pass deletes the entry in Redis and, unless straddle is on
\* record, no request has an old copy of it.
LEMMA DeleteKeeps ==
    ASSUME IInv, NEW h \in Hosts, NEW n \in Tasks, DeleteAuthCache(h, n)
    PROVE  IInv'
  <1>1. /\ work \in [Hosts -> [Tasks -> Works]] /\ faults \in FaultStates
        /\ l1 \in [Hosts -> Entries] /\ l2 \in Entries
        /\ Ids \subseteq Tasks /\ 1..db \subseteq Ids /\ db \in Nat
    BY DEF IInv, TypeOK, FaultStates, Ids, Tasks
  <1>2. /\ UNCHANGED <<db, rows, inbox, load>>
        /\ l1' = [l1 EXCEPT ![h] = None] /\ l2' \in {l2, None}
        /\ work[h][n].pc = "del"
    BY DEF DeleteAuthCache
  <1>3. /\ l1' \in [Hosts -> Entries] /\ l2' \in Entries
        /\ \A k \in Hosts : l1'[k] \in {l1[k], None}
    BY <1>1, <1>2 DEF Entries
  <1>4. SetIsBehind'
    BY <1>2 DEF IInv, SetIsBehind
  <1>5. CASE /\ l2' = None /\ GotoWork(h, n, "publish")
             /\ faults' = IF work[h][n].stage = 1 /\ HoldsStale
                          THEN [faults EXCEPT !.kinds = @ \cup {"straddle"}]
                          ELSE faults
    <2>1. /\ faults' \in FaultStates /\ faults.kinds \subseteq faults'.kinds
          /\ work[h][n].stage = 1 /\ HoldsStale => "straddle" \in faults'.kinds
      BY <1>1, <1>5 DEF FaultStates
    <2>2. /\ work' \in [Hosts -> [Tasks -> Works]]
          /\ work'[h][n].pc = "publish" /\ work'[h][n].stage = work[h][n].stage
          /\ \A k \in Hosts, j \in Tasks :
                k # h \/ j # n => work'[k][j] = work[k][j]
      BY <1>1, <1>5, GotoWorkFacts
    <2>3. TypeOK'
      BY <1>2, <1>3, <2>1, <2>2 DEF IInv, TypeOK, FaultStates
    <2>4. WorkIsKnown'
      BY <1>1, <1>2, <2>2 DEF IInv, WorkIsKnown
    <2>5. \A k \in Hosts, i \in 1..db :
            \/ work'[k][i] = work[k][i]
            \/ /\ i = n /\ work'[k][i].pc = "publish" /\ work[k][i].pc = "del"
               /\ k = h /\ work'[k][i].stage = work[k][i].stage
      BY <1>1, <1>2, <2>2
    <2>6. \A i \in 1..db :
            /\ DelayPassed(i)' => DelayPassed(i)
            /\ Deleted(i)' => Deleted(i) \/ work[h][n].stage = 1
            /\ Published(i)' => Published(i)
      BY <1>2, <2>5 DEF DelayPassed, Deleted, Published
    <2>7. (LoadsEnd' => LoadsEnd) /\ (HostsHear' => HostsHear /\ LoadsEnd)
      BY <2>1, FaultsOnly
    <2>8. NoLateSet'
      BY <1>2, <2>6, <2>7 DEF IInv, Fresh, NoLateSet
    <2>9. SharedIsNew'
      BY <1>5 DEF SharedIsNew, Old
    <2>10. NoLateCopy'
      <3> SUFFICES ASSUME HostsHear', NEW i \in 1..db, NEW r \in Requests,
                          Deleted(i)', load[r].pc = "copy"
                   PROVE  ~Old(load[r].entry, i)
        BY <1>2 DEF NoLateCopy, Old
      <3>1. CASE Deleted(i)
        BY <2>7, <3>1 DEF IInv, Fresh, NoLateCopy
      <3>2. CASE work[h][n].stage = 1
        <4>1. ~HoldsStale
          BY <2>1, <3>2 DEF HostsHear, Saw
        <4>2. ~Stale(load[r].entry) /\ load[r].entry \in Entries
          BY <4>1 DEF HoldsStale, IInv, TypeOK, Loads
        <4> QED BY <1>1, <4>2 DEF Stale, Old, Entries
      <3> QED BY <2>6, <3>1, <3>2
    <2>11. LocalIsNew'
      BY <1>2, <1>3, <2>6, <2>7 DEF IInv, Fresh, LocalIsNew, Old
    <2> QED BY <1>4, <2>3, <2>4, <2>8, <2>9, <2>10, <2>11 DEF IInv, Fresh
  <1>6. ASSUME NEW pc \in {"publish", "retry"}, GotoWork(h, n, pc),
               n = 0 \/ pc = "retry", Fault("redisFails")
        PROVE  IInv'
    <2>1. faults' \in FaultStates /\ faults.kinds \subseteq faults'.kinds
      BY <1>6, Faulty DEF Fault
    <2>2. /\ work' \in [Hosts -> [Tasks -> Works]]
          /\ work'[h][n].pc = pc /\ work'[h][n].stage = work[h][n].stage
          /\ \A k \in Hosts, j \in Tasks :
                k # h \/ j # n => work'[k][j] = work[k][j]
      BY <1>1, <1>6, GotoWorkFacts
    <2>3. TypeOK'
      BY <1>2, <1>3, <2>1, <2>2 DEF IInv, TypeOK, FaultStates
    <2>4. WorkIsKnown'
      BY <1>1, <1>2, <2>2 DEF IInv, WorkIsKnown
    <2>5. \A i \in 1..db : /\ DelayPassed(i)' => DelayPassed(i)
                           /\ Deleted(i)' => Deleted(i)
                           /\ Published(i)' => Published(i)
      <3>1. \A k \in Hosts, i \in 1..db :
              \/ work'[k][i] = work[k][i]
              \/ /\ work'[k][i].pc = "retry" /\ work[k][i].pc = "del"
                 /\ work'[k][i].stage = work[k][i].stage
        BY <1>1, <1>2, <1>6, <2>2
      <3> QED BY <1>2, <3>1 DEF DelayPassed, Deleted, Published
    <2>6. Fresh'
      BY <1>2, <1>3, <2>1, <2>5, FreshKept
    <2> QED BY <1>4, <2>3, <2>4, <2>6 DEF IInv
  <1> QED BY <1>2, <1>5, <1>6 DEF DeleteAuthCache

LEMMA PublishKeeps ==
    ASSUME IInv, NEW h \in Hosts, NEW n \in Tasks,
           PublishAuthCacheInvalidation(h, n)
    PROVE  IInv'
  <1>1. /\ work \in [Hosts -> [Tasks -> Works]] /\ inbox \in SUBSET Hosts
        /\ Ids \subseteq Tasks /\ 1..db \subseteq Ids
    BY DEF IInv, TypeOK, Ids, Tasks
  <1>2. UNCHANGED <<db, rows, l2, l1, load>> /\ work[h][n].pc = "publish"
    BY DEF PublishAuthCacheInvalidation
  <1>3. faults' \in FaultStates /\ faults.kinds \subseteq faults'.kinds
    BY Faulty DEF PublishAuthCacheInvalidation, Fault
  <1>4. /\ inbox' \in SUBSET Hosts /\ inbox \subseteq inbox'
    BY <1>1 DEF PublishAuthCacheInvalidation
  <1>5. PICK pc \in {"idle", "finish", "retry"} :
          /\ \/ pc = "idle" /\ n = 0 /\ Done(h, n)
             \/ pc # "idle" /\ GotoWork(h, n, pc)
          /\ pc = "finish" => inbox' = Hosts \/ "messageLost" \in faults'.kinds
    BY DEF PublishAuthCacheInvalidation, Fault
  <1>6. /\ work' \in [Hosts -> [Tasks -> Works]]
        /\ work'[h][n].pc = pc
        /\ n # 0 => work'[h][n].stage = work[h][n].stage
        /\ \A k \in Hosts, j \in Tasks :
              k # h \/ j # n => work'[k][j] = work[k][j]
    BY <1>1, <1>5, GotoWorkFacts, DoneFacts
  <1>7. TypeOK'
    BY <1>2, <1>3, <1>4, <1>6 DEF IInv, TypeOK, FaultStates
  <1>8. SetIsBehind'
    BY <1>2 DEF IInv, SetIsBehind
  <1>9. \A k \in Hosts, i \in Ids :
          \/ work'[k][i] = work[k][i]
          \/ /\ work'[k][i].pc = pc /\ work[k][i].pc = "publish"
             /\ work'[k][i].stage = work[k][i].stage
    BY <1>1, <1>2, <1>6 DEF Ids
  <1>10. WorkIsKnown'
    BY <1>2, <1>9 DEF IInv, WorkIsKnown
  <1>11. \A i \in Ids : /\ DelayPassed(i)' => DelayPassed(i)
                        /\ Deleted(i)' => Deleted(i)
                        /\ Published(i)' => Published(i) \/ pc = "finish"
    BY <1>2, <1>9 DEF DelayPassed, Deleted, Published
  <1>12. Fresh'
    <2>1. (LoadsEnd' => LoadsEnd) /\ (HostsHear' => HostsHear /\ LoadsEnd)
      BY <1>3, FaultsOnly
    <2>2. NoLateSet'
      BY <1>1, <1>2, <1>11, <2>1 DEF IInv, Fresh, NoLateSet
    <2>3. SharedIsNew'
      BY <1>1, <1>2, <1>11, <2>1 DEF IInv, Fresh, SharedIsNew
    <2>4. NoLateCopy'
      BY <1>1, <1>2, <1>11, <2>1 DEF IInv, Fresh, NoLateCopy
    <2>5. HostsHear' /\ pc = "finish" => inbox' = Hosts
      BY <1>5 DEF HostsHear, Saw
    <2>6. LocalIsNew'
      BY <1>1, <1>2, <1>4, <1>11, <2>1, <2>5 DEF IInv, Fresh, LocalIsNew
    <2> QED BY <2>2, <2>3, <2>4, <2>6 DEF Fresh
  <1> QED BY <1>7, <1>8, <1>10, <1>12 DEF IInv

\* The row waits for its second pass, and every request that runs is behind.
LEMMA ScheduleKeeps ==
    ASSUME IInv, NEW h \in Hosts, NEW n \in Tasks, ScheduleSecondPass(h, n)
    PROVE  IInv'
  <1>1. /\ work \in [Hosts -> [Tasks -> Works]] /\ load \in [Requests -> Loads]
        /\ rows \in [DOMAIN rows -> Rows] /\ DOMAIN rows \subseteq 1..db
        /\ Ids \subseteq Tasks /\ 1..db \subseteq Ids
    BY DEF IInv, TypeOK, Ids, Tasks
  <1>2. UNCHANGED <<db, l2, l1, inbox>> /\ Done(h, n)
    BY DEF ScheduleSecondPass
  <1>3. faults' \in FaultStates /\ faults.kinds \subseteq faults'.kinds
    BY Faulty DEF ScheduleSecondPass, Fault
  <1>4. /\ work' \in [Hosts -> [Tasks -> Works]]
        /\ \A k \in Hosts, j \in Ids :
              work'[k][j] = work[k][j] \/ work'[k][j].pc = "idle"
    BY <1>1, <1>2, DoneFacts
  <1>5. WorkIsKnown'
    BY <1>2, <1>4 DEF IInv, WorkIsKnown
  <1>6. CASE UNCHANGED <<rows, load>>
    <2>1. TypeOK'
      BY <1>2, <1>3, <1>4, <1>6 DEF IInv, TypeOK, FaultStates
    <2>2. SetIsBehind'
      BY <1>6 DEF IInv, SetIsBehind
    <2>3. \A i \in Ids : /\ DelayPassed(i)' => DelayPassed(i)
                         /\ Deleted(i)' => Deleted(i)
                         /\ Published(i)' => Published(i)
      BY <1>4, <1>6 DEF DelayPassed, Deleted, Published
    <2>4. Fresh'
      BY <1>1, <1>2, <1>3, <1>6, <2>3, FreshKept
    <2> QED BY <1>5, <2>1, <2>2, <2>4 DEF IInv
  <1>7. CASE /\ Claimed(h, n) /\ rows' = Later(n, 1)
             /\ load' = [r \in Requests |->
                           IF load[r].pc = "idle" THEN load[r]
                           ELSE [load[r] EXCEPT !.behind = @ \cup {n}]]
    <2>1. /\ n \in DOMAIN rows /\ n \in Ids
          /\ DOMAIN rows' = DOMAIN rows /\ rows' \in [DOMAIN rows -> Rows]
          /\ \A i \in DOMAIN rows \ {n} : rows'[i] = rows[i]
          /\ ~rows'[n].due
      BY <1>1, <1>7 DEF Claimed, Later, Rows
    <2>2. /\ load' \in [Requests -> Loads]
          /\ \A r \in Requests :
                /\ load'[r].pc = load[r].pc /\ load'[r].entry = load[r].entry
                /\ load[r].behind \subseteq load'[r].behind
                /\ load[r].pc # "idle" => n \in load'[r].behind
      <3>1. ASSUME NEW r \in Requests
            PROVE  LET l == [load[r] EXCEPT !.behind = @ \cup {n}]
                   IN  /\ l \in Loads /\ l.pc = load[r].pc
                       /\ l.entry = load[r].entry
                       /\ l.behind = load[r].behind \cup {n}
        BY <1>1, <2>1 DEF Loads
      <3> QED BY <1>1, <1>7, <3>1
    <2>3. TypeOK'
      BY <1>2, <1>3, <1>4, <2>1, <2>2 DEF IInv, TypeOK, FaultStates
    <2>4. SetIsBehind'
      BY <2>1, <2>2 DEF IInv, SetIsBehind
    <2>5. \A i \in Ids : /\ DelayPassed(i)' => DelayPassed(i)
                         /\ Deleted(i)' => Deleted(i)
                         /\ Published(i)' => Published(i)
      BY <1>4, <2>1 DEF DelayPassed, Deleted, Published
    <2>6. Fresh'
      BY <1>1, <1>2, <1>3, <2>2, <2>5, FreshKept
    <2> QED BY <1>5, <2>3, <2>4, <2>6 DEF IInv
  <1> QED BY <1>6, <1>7 DEF ScheduleSecondPass

\* Only a finished second pass removes the row.
LEMMA DeleteClaimedKeeps ==
    ASSUME IInv, NEW h \in Hosts, NEW n \in Tasks, DeleteClaimed(h, n)
    PROVE  IInv'
  <1>1. /\ work \in [Hosts -> [Tasks -> Works]]
        /\ rows \in [DOMAIN rows -> Rows]
        /\ Ids \subseteq Tasks /\ 1..db \subseteq Ids
    BY DEF IInv, TypeOK, Ids, Tasks
  <1>2. /\ UNCHANGED <<db, l2, l1, inbox, load>> /\ Done(h, n)
        /\ work[h][n].pc = "finish" /\ work[h][n].stage = 1
    BY DEF DeleteClaimed
  <1>3. faults' \in FaultStates /\ faults.kinds \subseteq faults'.kinds
    BY Faulty DEF DeleteClaimed, Fault
  <1>4. /\ work' \in [Hosts -> [Tasks -> Works]]
        /\ \A k \in Hosts, j \in Ids :
              work'[k][j] = work[k][j] \/ work'[k][j].pc = "idle"
    BY <1>1, <1>2, DoneFacts
  <1>5. WorkIsKnown'
    BY <1>2, <1>4 DEF IInv, WorkIsKnown
  <1>6. /\ DOMAIN rows' \subseteq DOMAIN rows /\ rows' \in [DOMAIN rows' -> Rows]
        /\ \A i \in DOMAIN rows' : rows'[i] = rows[i]
        /\ \A i \in DOMAIN rows \ DOMAIN rows' : i = n
    BY <1>1 DEF DeleteClaimed, Without
  <1>7. TypeOK'
    BY <1>2, <1>3, <1>4, <1>6 DEF IInv, TypeOK, FaultStates
  <1>8. SetIsBehind'
    BY <1>2, <1>6 DEF IInv, SetIsBehind
  <1>9. \A i \in Ids : /\ DelayPassed(i)' => DelayPassed(i)
                       /\ Deleted(i)' => Deleted(i)
                       /\ Published(i)' => Published(i)
    BY <1>2, <1>4, <1>6 DEF DelayPassed, Deleted, Published
  <1>10. Fresh'
    BY <1>1, <1>2, <1>3, <1>9, FreshKept
  <1> QED BY <1>5, <1>7, <1>8, <1>10 DEF IInv

LEMMA RetryKeeps ==
    ASSUME IInv, NEW h \in Hosts, NEW n \in Tasks, RetryClaimed(h, n)
    PROVE  IInv'
  <1>1. /\ work \in [Hosts -> [Tasks -> Works]]
        /\ rows \in [DOMAIN rows -> Rows]
        /\ Ids \subseteq Tasks /\ 1..db \subseteq Ids
    BY DEF IInv, TypeOK, Ids, Tasks
  <1>2. UNCHANGED <<db, l2, l1, inbox, load>> /\ Done(h, n)
    BY DEF RetryClaimed
  <1>3. faults' \in FaultStates /\ faults.kinds \subseteq faults'.kinds
    BY Faulty DEF RetryClaimed, Fault
  <1>4. /\ work' \in [Hosts -> [Tasks -> Works]]
        /\ \A k \in Hosts, j \in Ids :
              work'[k][j] = work[k][j] \/ work'[k][j].pc = "idle"
    BY <1>1, <1>2, DoneFacts
  <1>5. WorkIsKnown'
    BY <1>2, <1>4 DEF IInv, WorkIsKnown
  <1>6. /\ DOMAIN rows' = DOMAIN rows /\ rows' \in [DOMAIN rows -> Rows]
        /\ \A i \in DOMAIN rows : /\ rows'[i].stage = rows[i].stage
                                  /\ rows'[i].due => rows[i].due
    <2>1. CASE UNCHANGED rows
      BY <1>1, <2>1
    <2>2. CASE Claimed(h, n) /\ rows' = Later(n, rows[n].stage)
      <3> DEFINE row == [stage |-> rows[n].stage, due |-> FALSE, by |-> None,
                         expired |-> FALSE]
      <3>1. n \in DOMAIN rows /\ rows' = [rows EXCEPT ![n] = row]
        BY <2>2 DEF Claimed, Later
      <3>2. row \in Rows /\ row.stage = rows[n].stage /\ ~row.due
        BY <1>1, <3>1 DEF Rows
      <3> HIDE DEF row
      <3> QED BY <1>1, <3>1, <3>2
    <2> QED BY <2>1, <2>2 DEF RetryClaimed
  <1>7. TypeOK'
    BY <1>2, <1>3, <1>4, <1>6 DEF IInv, TypeOK, FaultStates
  <1>8. SetIsBehind'
    BY <1>2, <1>6 DEF IInv, SetIsBehind
  <1>9. \A i \in Ids : /\ DelayPassed(i)' => DelayPassed(i)
                       /\ Deleted(i)' => Deleted(i)
                       /\ Published(i)' => Published(i)
    BY <1>2, <1>4, <1>6 DEF DelayPassed, Deleted, Published
  <1>10. Fresh'
    BY <1>1, <1>2, <1>3, <1>9, FreshKept
  <1> QED BY <1>5, <1>7, <1>8, <1>10 DEF IInv

-----------------------------------------------------------------------------
LEMMA Initially == Init => IInv
  <1> SUFFICES ASSUME Init PROVE IInv
    OBVIOUS
  <1>1. /\ IdleLoad \in Loads /\ IdleLoad.pc = "idle"
        /\ IdleWork \in Works /\ IdleWork.pc = "idle"
    BY DEF IdleLoad, IdleWork, Loads, Works, Entries
  <1>2. db = 0 /\ rows = << >> /\ DOMAIN rows = {} /\ 1..db = {}
    BY DEF Init
  <1>3. TypeOK
    <2>1. rows \in [DOMAIN rows -> Rows]
      BY <1>2
    <2> QED BY <1>1, <1>2, <2>1 DEF Init, TypeOK, Entries
  <1>4. WorkIsKnown
    BY <1>1 DEF Init, WorkIsKnown, Ids, Tasks
  <1>5. SetIsBehind /\ Fresh
    BY <1>2 DEF SetIsBehind, Fresh, NoLateSet, SharedIsNew, NoLateCopy, LocalIsNew
  <1> QED BY <1>3, <1>4, <1>5 DEF IInv

\* Every step of a request, of a change, of the outbox's workers or of time
\* keeps the inductive invariant.
THEOREM Invariance == Spec => []IInv
  <1>1. ASSUME IInv, [Next]_vars PROVE IInv'
    <2>1. CASE UNCHANGED vars
      BY <1>1, <2>1 DEF IInv, TypeOK, WorkIsKnown, SetIsBehind, Fresh, NoLateSet,
         SharedIsNew, NoLateCopy, LocalIsNew, LoadsEnd, HostsHear, Saw,
         DelayPassed, Deleted, Published, vars
    <2>2. ASSUME NEW r \in Requests, GetAuthCacheEntry(r) \/ GetByKey(r)
          PROVE  IInv'
      BY <1>1, <2>2, GetEntryKeeps, LookupKeeps, SetKeeps DEF GetByKey
    <2>3. ASSUME NEW h \in Editors, Change(h) PROVE IInv'
      BY <1>1, <2>3, ChangeKeeps
    <2>4. ASSUME NEW h \in Hosts,
                 \/ Claim(h) \/ Crash(h) \/ L1Expires(h) \/ ReceiveInvalidation(h)
          PROVE  IInv'
      BY <1>1, <2>4, ClaimKeeps, CrashKeeps, EntriesGo
    <2>5. ASSUME NEW h \in Hosts, NEW i \in Tasks, ProcessEvent(h, i)
          PROVE  IInv'
      BY <1>1, <2>5, DeleteKeeps, PublishKeeps, ScheduleKeeps,
         DeleteClaimedKeeps, RetryKeeps DEF ProcessEvent
    <2>6. ASSUME NEW i \in Ids, BecomesDue(i) \/ LeaseExpires(i) PROVE IInv'
      BY <1>1, <2>6, BecomesDueKeeps, LeaseExpiresKeeps
    <2>7. CASE L2Expires
      BY <1>1, <2>7, EntriesGo
    <2> QED BY <1>1, <2>1, <2>2, <2>3, <2>4, <2>5, <2>6, <2>7 DEF Next
  <1> QED BY <1>1, Initially, PTL DEF Spec

\* The variables keep their types; no statement of the worker brings a row
\* into a stage the table does not allow, or adds one for a change that was
\* not made.
THEOREM TypeCorrect == Spec => []TypeOK
  <1>1. IInv => TypeOK
    BY DEF IInv
  <1> QED BY <1>1, Invariance, PTL

\* When the outbox is empty, setAuthCacheEntry has left nothing in Redis from
\* before the last change, for any hosts, requests and number of changes,
\* unless a request outlived the safety delay.
THEOREM SharedFresh == Spec => []SharedEntryIsFresh
  <1>1. ASSUME IInv PROVE SharedEntryIsFresh
    <2> SUFFICES ASSUME rows = << >>, LoadsEnd PROVE ~Stale(l2)
      BY DEF SharedEntryIsFresh, LoadsEnd
    <2>1. db \in 0..MaxChanges /\ l2 \in Entries
      BY <1>1 DEF IInv, TypeOK
    <2>2. DOMAIN rows = {}
      OBVIOUS
    <2>3. \A i \in 1..db : ~Old(l2, i)
      BY <1>1, <2>2 DEF IInv, Fresh, SharedIsNew, Deleted
    <2> QED BY <2>1, <2>3 DEF Stale, Old, Entries
  <1> QED BY <1>1, Invariance, PTL

\* When the outbox is empty and the messages have arrived, no host remembers
\* the key from before the last change, unless a request outlived the delay, a
\* host missed a message, or a copy from Redis straddled the second pass.
THEOREM LocalFresh == Spec => []LocalEntryIsFresh
  <1>1. ASSUME IInv PROVE LocalEntryIsFresh
    <2> SUFFICES ASSUME NEW h \in Hosts, rows = << >>, h \notin inbox, HostsHear
                 PROVE  ~Stale(l1[h])
      BY DEF LocalEntryIsFresh, HostsHear
    <2>1. db \in 0..MaxChanges /\ l1[h] \in Entries
      BY <1>1 DEF IInv, TypeOK
    <2>2. DOMAIN rows = {}
      OBVIOUS
    <2>3. \A i \in 1..db : ~Old(l1[h], i)
      BY <1>1, <2>2 DEF IInv, Fresh, LocalIsNew, Published
    <2> QED BY <2>1, <2>3 DEF Stale, Old, Entries
  <1> QED BY <1>1, Invariance, PTL

=============================================================================
