----------------------- MODULE BatchImageQueueProofs -----------------------
(***************************************************************************)
(* Proofs about BatchImageQueue, for any batches, workers, perils and      *)
(* bounds.                                                                 *)
(*                                                                         *)
(* The inductive invariant IInv adds to the runs' invariants who holds a   *)
(* job lock (Locked), what a worker may rely on that has read its batch's  *)
(* row or acknowledges it (RowKnown), and that, while heartbeats arrive    *)
(* and keys live, a worker's batch is active, not stale, and no other      *)
(* worker's (Apart).                                                       *)
(***************************************************************************)
EXTENDS BatchImageQueue, FiniteSetTheorems, FunctionTheorems, TLAPS

Locked ==
    \A w \in Workers :
        work[w].pc \in ProcessPcs =>
            lock[work[w].batch] = w \/ "lockExpires" \in faults.kinds

RowKnown ==
    \A w \in Workers :
        /\ work[w].pc = "provider" =>
              row[work[w].batch] # "settling" \/ "lockExpires" \in faults.kinds
        /\ work[w].pc = "ack" =>
              \/ row[work[w].batch] = "over"
              \/ row[work[w].batch] = "settling" /\ "lockExpires" \in faults.kinds

Holding(w) == work[w].pc \in {"lock", "requeue", "ack"} \cup ProcessPcs

Apart ==
    \/ /\ \A w \in Workers :
             Holding(w) => work[w].batch \in active \ stale
       /\ \A v, w \in Workers :
             Holding(v) /\ Holding(w) /\ work[v].batch = work[w].batch => v = w
    \/ Saw({"beatsLost", "inflightExpires"})

IInv ==
    /\ TypeOK /\ InflightIsQueued /\ Locked /\ RowKnown
    /\ OnePlace /\ Apart

USE QueueAssumption DEF ProcessPcs, RowStates

-----------------------------------------------------------------------------
(* Sequences.                                                              *)

\* An arrangement of a set of batches is a sequence that has each of them
\* once.
LEMMA ArrangementsFacts ==
    ASSUME NEW S \in SUBSET Batches, NEW s \in Arrangements(S)
    PROVE  /\ s \in Seq(S)
           /\ \A b \in S : \E i \in 1..Len(s) : s[i] = b
           /\ \A i, j \in 1..Len(s) : s[i] = s[j] => i = j
<1>1. IsFiniteSet(S) /\ Cardinality(S) \in Nat
  BY FS_Subset, FS_CardinalityType
<1> DEFINE n == Cardinality(S)
<1>2. /\ s \in [1..n -> S]
      /\ \A b \in S : \E i \in 1..n : s[i] = b
  BY DEF Arrangements
<1>3. s \in Seq(S) /\ Len(s) = n
  BY <1>1, <1>2
<1>4. s \in Surjection(1..n, S)
  BY <1>2 DEF Surjection
<1>5. IsFiniteSet(1..n) /\ Cardinality(1..n) = n
  BY <1>1, FS_Interval
<1>6. s \in Injection(1..n, S)
  BY <1>4, <1>5, FS_SurjSameCardinalityImpliesInj
<1> QED  BY <1>2, <1>3, <1>6 DEF Injection, IsInjective

\* What a batch is in after a sequence was appended.
LEMMA ConcatFacts ==
    ASSUME NEW p \in Seq(Batches), NEW q \in Seq(Batches)
    PROVE  /\ p \o q \in Seq(Batches)
           /\ \A b \in Batches :
                (\E i \in DOMAIN (p \o q) : (p \o q)[i] = b)
                  <=> \/ \E i \in DOMAIN p : p[i] = b
                      \/ \E i \in DOMAIN q : q[i] = b
           /\ /\ \A i, j \in DOMAIN p : p[i] = p[j] => i = j
              /\ \A i, j \in DOMAIN q : q[i] = q[j] => i = j
              /\ \A i \in DOMAIN p, j \in DOMAIN q : p[i] # q[j]
              => \A i, j \in DOMAIN (p \o q) :
                   (p \o q)[i] = (p \o q)[j] => i = j
<1> DEFINE r == p \o q
<1>1. /\ r \in Seq(Batches)
      /\ Len(r) = Len(p) + Len(q)
      /\ Len(p) \in Nat /\ Len(q) \in Nat
      /\ DOMAIN p = 1..Len(p) /\ DOMAIN q = 1..Len(q)
      /\ DOMAIN r = 1..Len(r)
      /\ \A i \in 1..Len(r) :
           r[i] = IF i <= Len(p) THEN p[i] ELSE q[i - Len(p)]
  OBVIOUS
<1> HIDE DEF r
<1>2. \A i \in DOMAIN r :
        \/ i \in DOMAIN p /\ r[i] = p[i]
        \/ i - Len(p) \in DOMAIN q /\ r[i] = q[i - Len(p)]
  BY <1>1
<1>3. \A i \in DOMAIN p : i \in DOMAIN r /\ r[i] = p[i]
  BY <1>1
<1>4. \A i \in DOMAIN q : Len(p) + i \in DOMAIN r /\ r[Len(p) + i] = q[i]
  <2> TAKE i \in DOMAIN q
  <2>1. Len(p) + i \in 1..Len(r) /\ ~(Len(p) + i <= Len(p))
    BY <1>1
  <2>2. (Len(p) + i) - Len(p) = i
    BY <1>1
  <2> QED  BY <1>1, <2>1, <2>2
<1>5. \A b \in Batches :
        (\E i \in DOMAIN r : r[i] = b)
          <=> \/ \E i \in DOMAIN p : p[i] = b
              \/ \E i \in DOMAIN q : q[i] = b
  BY <1>2, <1>3, <1>4
<1>6. ASSUME \A i, j \in DOMAIN p : p[i] = p[j] => i = j,
             \A i, j \in DOMAIN q : q[i] = q[j] => i = j,
             \A i \in DOMAIN p, j \in DOMAIN q : p[i] # q[j],
             NEW i \in DOMAIN r, NEW j \in DOMAIN r, r[i] = r[j]
      PROVE  i = j
  <2>1. i \in Int /\ j \in Int /\ Len(p) \in Int
    BY <1>1
  <2> QED  BY <1>2, <1>6, <2>1
<1> QED  BY <1>1, <1>5, <1>6 DEF r

\* The head of the list and what Reserve leaves of it.
LEMMA TailFacts ==
    ASSUME NEW p \in Seq(Batches), p # <<>>
    PROVE  /\ Head(p) \in Batches
           /\ Tail(p) \in Seq(Batches)
           /\ \A b \in Batches :
                (\E i \in DOMAIN p : p[i] = b)
                  <=> b = Head(p) \/ \E i \in DOMAIN Tail(p) : Tail(p)[i] = b
           /\ (\A i, j \in DOMAIN p : p[i] = p[j] => i = j) =>
                /\ \A i, j \in DOMAIN Tail(p) :
                     Tail(p)[i] = Tail(p)[j] => i = j
                /\ \A i \in DOMAIN Tail(p) : Tail(p)[i] # Head(p)
<1> DEFINE t == Tail(p)
<1>1. /\ t \in Seq(Batches) /\ Head(p) = p[1] /\ Head(p) \in Batches
      /\ Len(p) \in Nat \ {0} /\ Len(t) = Len(p) - 1
      /\ DOMAIN p = 1..Len(p) /\ DOMAIN t = 1..Len(t)
      /\ \A i \in 1..Len(t) : t[i] = p[i + 1]
  OBVIOUS
<1> HIDE DEF t
<1>2. \A i \in DOMAIN t : i + 1 \in DOMAIN p /\ i + 1 # 1 /\ t[i] = p[i + 1]
  BY <1>1
<1>3. 1 \in DOMAIN p
  BY <1>1
<1>4. \A i \in DOMAIN p : i = 1 \/ (i - 1 \in DOMAIN t /\ t[i - 1] = p[i])
  <2> TAKE i \in DOMAIN p
  <2>1. i = 1 \/ (i - 1 \in 1..Len(t) /\ (i - 1) + 1 = i)
    BY <1>1
  <2> QED  BY <1>1, <2>1
<1>5. \A b \in Batches :
        (\E i \in DOMAIN p : p[i] = b)
          <=> b = Head(p) \/ \E i \in DOMAIN t : t[i] = b
  BY <1>1, <1>2, <1>3, <1>4
<1>6. ASSUME \A i, j \in DOMAIN p : p[i] = p[j] => i = j
      PROVE  /\ \A i, j \in DOMAIN t : t[i] = t[j] => i = j
             /\ \A i \in DOMAIN t : t[i] # Head(p)
  <2>1. \A i \in DOMAIN t : i \in Int
    BY <1>1
  <2>2. \A i, j \in DOMAIN t : t[i] = t[j] => i + 1 = j + 1
    BY <1>2, <1>6
  <2>3. \A i \in DOMAIN t : t[i] # p[1]
    BY <1>2, <1>3, <1>6
  <2> QED  BY <1>1, <2>1, <2>2, <2>3
<1> QED  BY <1>1, <1>5, <1>6 DEF t

-----------------------------------------------------------------------------
(* Steps of the workers.                                                   *)

\* The parts of IInv that only speak of where the batches are.
Queue == <<ready, delayed, active, stale, inflight>>

LEMMA FaultFacts ==
    ASSUME TypeOK, NEW kind, Fault(kind)
    PROVE  /\ faults' \in [count : 0..MaxFaults, kinds : SUBSET Perils]
           /\ faults'.kinds = faults.kinds \cup {kind}
  BY DEF TypeOK, Fault

LEMMA FaultsGrow ==
    ASSUME TypeOK, UNCHANGED faults \/ \E kind \in Perils : Fault(kind)
    PROVE  /\ faults' \in [count : 0..MaxFaults, kinds : SUBSET Perils]
           /\ faults.kinds \subseteq faults'.kinds
<1>1. CASE UNCHANGED faults
  BY <1>1 DEF TypeOK
<1>2. ASSUME NEW kind \in Perils, Fault(kind)
      PROVE  /\ faults' \in [count : 0..MaxFaults, kinds : SUBSET Perils]
             /\ faults.kinds \subseteq faults'.kinds
  BY <1>2, FaultFacts
<1> QED  BY <1>1, <1>2

\* A step that moves no batch keeps every batch where it is.
LEMMA QuietQueue ==
    ASSUME InflightIsQueued, OnePlace, UNCHANGED Queue,
           faults.kinds \subseteq faults'.kinds
    PROVE  InflightIsQueued' /\ OnePlace'
  BY DEF InflightIsQueued, OnePlace, Queue, InQueue, InReady, Saw

\* What MoveDueDelayedToReady, RecoverStaleActive and Enqueue do to the list.
LEMMA ReadyGrows ==
    ASSUME TypeOK, NEW q \in Seq(Batches), ready' = ready \o q
    PROVE  /\ ready' \in Seq(Batches)
           /\ \A c \in Batches :
                InReady(c)' <=> InReady(c) \/ \E i \in DOMAIN q : q[i] = c
           /\ /\ \A i, j \in DOMAIN ready : ready[i] = ready[j] => i = j
              /\ \A i, j \in DOMAIN q : q[i] = q[j] => i = j
              /\ \A i \in DOMAIN q : ~InReady(q[i])
              => \A i, j \in DOMAIN ready' : ready'[i] = ready'[j] => i = j
<1> DEFINE r == ready \o q
<1>1. ready \in Seq(Batches)
  BY DEF TypeOK
<1>2. /\ r \in Seq(Batches)
      /\ \A c \in Batches :
           (\E i \in DOMAIN r : r[i] = c)
             <=> \/ \E i \in DOMAIN ready : ready[i] = c
                 \/ \E i \in DOMAIN q : q[i] = c
      /\ /\ \A i, j \in DOMAIN ready : ready[i] = ready[j] => i = j
         /\ \A i, j \in DOMAIN q : q[i] = q[j] => i = j
         /\ \A i \in DOMAIN ready, j \in DOMAIN q : ready[i] # q[j]
         => \A i, j \in DOMAIN r : r[i] = r[j] => i = j
  BY <1>1, ConcatFacts
<1>3. ready' = r
  OBVIOUS
<1> HIDE DEF r
<1>4. \A c \in Batches :
        InReady(c)' <=> InReady(c) \/ \E i \in DOMAIN q : q[i] = c
  BY <1>2, <1>3 DEF InReady
<1>5. (\A i \in DOMAIN q : ~InReady(q[i]))
        => \A i \in DOMAIN ready, j \in DOMAIN q : ready[i] # q[j]
  BY Zenon DEF InReady
<1> QED  BY <1>2, <1>3, <1>4, <1>5

LEMMA EnqueueKeeps ==
    ASSUME IInv, NEW b \in Batches, Enqueue(b)
    PROVE  IInv'
<1> DEFINE q == <<b>>
<1>1. /\ q \in Seq(Batches) /\ ready' = ready \o q
      /\ DOMAIN q = {1} /\ q[1] = b
  BY DEF IInv, TypeOK, Enqueue
<1> HIDE DEF q
<1>2. /\ ready' \in Seq(Batches)
      /\ \A c \in Batches :
           InReady(c)' <=> InReady(c) \/ \E i \in DOMAIN q : q[i] = c
      /\ /\ \A i, j \in DOMAIN ready : ready[i] = ready[j] => i = j
         /\ \A i, j \in DOMAIN q : q[i] = q[j] => i = j
         /\ \A i \in DOMAIN q : ~InReady(q[i])
         => \A i, j \in DOMAIN ready' : ready'[i] = ready'[j] => i = j
  BY <1>1, ReadyGrows DEF IInv
<1>3. \A c \in Batches : InReady(c)' <=> InReady(c) \/ c = b
  BY <1>1, <1>2
<1>4. TypeOK'
  BY <1>2 DEF IInv, TypeOK, Enqueue
<1>5. InflightIsQueued'
  BY <1>3 DEF IInv, TypeOK, InflightIsQueued, InQueue, Enqueue
<1>6. Locked' /\ RowKnown' /\ Apart'
  BY DEF IInv, Locked, RowKnown, Apart, Holding, Saw, Enqueue
<1>7. OnePlace'
  <2>1. CASE Saw({"beatsLost", "inflightExpires"})
    BY <2>1 DEF OnePlace, Saw, Enqueue
  <2>2. CASE ~Saw({"beatsLost", "inflightExpires"})
    <3>1. ~InQueue(b)
      BY <2>2 DEF IInv, OnePlace, Enqueue
    <3>2. \A i, j \in DOMAIN ready : ready[i] = ready[j] => i = j
      BY <2>2 DEF IInv, OnePlace
    <3>3. \A i \in DOMAIN q : ~InReady(q[i])
      BY <1>1, <3>1 DEF InQueue
    <3>4. \A i, j \in DOMAIN q : q[i] = q[j] => i = j
      BY <1>1
    <3>5. \A i, j \in DOMAIN ready' : ready'[i] = ready'[j] => i = j
      BY <1>2, <3>2, <3>3, <3>4
    <3>6. \A c \in Batches :
            /\ InQueue(c)' => c \in inflight'
            /\ c \in delayed' => ~InReady(c)' /\ c \notin active'
            /\ c \in active' => ~InReady(c)'
      BY <1>3, <2>2, <3>1 DEF IInv, OnePlace, InQueue, Enqueue
    <3> QED  BY <3>5, <3>6 DEF OnePlace
  <2> QED  BY <2>1, <2>2
<1> QED  BY <1>4, <1>5, <1>6, <1>7 DEF IInv

LEMMA ReserveKeeps ==
    ASSUME IInv, NEW w \in Workers, Reserve(w)
    PROVE  IInv'
<1> DEFINE h == Head(ready)
           t == Tail(ready)
<1>1. ready \in Seq(Batches) /\ ready # <<>>
  BY DEF IInv, TypeOK, Reserve
<1>2. /\ h \in Batches /\ t \in Seq(Batches)
      /\ \A c \in Batches :
           (\E i \in DOMAIN ready : ready[i] = c)
             <=> c = h \/ \E i \in DOMAIN t : t[i] = c
      /\ (\A i, j \in DOMAIN ready : ready[i] = ready[j] => i = j) =>
           /\ \A i, j \in DOMAIN t : t[i] = t[j] => i = j
           /\ \A i \in DOMAIN t : t[i] # h
  BY <1>1, TailFacts
<1>3. /\ active' = active \cup {h} /\ stale' = stale \ {h}
      /\ work' = [work EXCEPT ![w] = [pc |-> "lock", batch |-> h]]
      /\ ready' = t
      /\ UNCHANGED <<delayed, inflight, lock, row, enqueues, faults>>
      /\ work[w].pc = "idle"
  BY DEF Reserve
<1> HIDE DEF h, t
<1>4. \A c \in Batches : InReady(c) <=> InReady(c)' \/ c = h
  BY <1>2, <1>3 DEF InReady
<1>5. TypeOK'
  BY <1>2, <1>3 DEF IInv, TypeOK, WorkerPcs
<1>6. InflightIsQueued'
  BY <1>2, <1>3, <1>4 DEF IInv, TypeOK, InflightIsQueued, InQueue
<1>7. work \in [Workers -> [pc : WorkerPcs, batch : Batches \cup {None}]]
  BY DEF IInv, TypeOK
<1>8. Locked' /\ RowKnown'
  BY <1>3, <1>7 DEF IInv, Locked, RowKnown
<1>9. CASE Saw({"beatsLost", "inflightExpires"})
  <2>1. OnePlace' /\ Apart'
    BY <1>3, <1>9 DEF OnePlace, Apart, Saw
  <2> QED  BY <1>5, <1>6, <1>8, <2>1 DEF IInv
<1>10. CASE ~Saw({"beatsLost", "inflightExpires"})
  <2>1. InReady(h) /\ h \notin active /\ h \notin delayed /\ h \in inflight
    BY <1>2, <1>4, <1>10 DEF IInv, OnePlace, InQueue
  <2>2. \A i, j \in DOMAIN ready : ready[i] = ready[j] => i = j
    BY <1>10 DEF IInv, OnePlace
  <2>3. \A i, j \in DOMAIN ready' : ready'[i] = ready'[j] => i = j
    BY <1>2, <1>3, <2>2
  <2>4. \A c \in Batches : InReady(c)' => c # h
    BY <1>2, <1>3, <2>2 DEF InReady
  <2>5. \A c \in Batches :
          /\ InQueue(c)' => c \in inflight'
          /\ c \in delayed' => ~InReady(c)' /\ c \notin active'
          /\ c \in active' => ~InReady(c)'
    BY <1>3, <1>4, <1>10, <2>1, <2>4 DEF IInv, OnePlace, InQueue
  <2>6. OnePlace'
    BY <2>3, <2>5 DEF OnePlace
  <2>7. \A v \in Workers : Holding(v) => work[v].batch # h
    BY <1>10, <2>1 DEF IInv, Apart
  <2>8. \A v \in Workers :
          v # w => (Holding(v)' <=> Holding(v)) /\ work'[v] = work[v]
    BY <1>3, <1>7 DEF Holding
  <2>9. Holding(w)' /\ work'[w].batch = h
    BY <1>3, <1>7 DEF Holding
  <2>10. Apart'
    BY <1>3, <1>10, <2>7, <2>8, <2>9 DEF IInv, Apart
  <2> QED  BY <1>5, <1>6, <1>8, <2>6, <2>10 DEF IInv
<1> QED  BY <1>9, <1>10

\* A step of a worker that moves no batch and only goes on with its own.
LEMMA WorkerStep ==
    ASSUME IInv, NEW w \in Workers, NEW to \in WorkerPcs, Goto(w, to),
           Holding(w) \/ to \in {"idle", "release"},
           UNCHANGED <<Queue, enqueues>>,
           row' \in [Batches -> RowStates],
           lock' \in [Batches -> Workers \cup {None}],
           UNCHANGED faults \/ \E kind \in Perils : Fault(kind),
           work[w].pc # "idle"
    PROVE  TypeOK' /\ InflightIsQueued' /\ OnePlace' /\ Apart'
<1>1. work \in [Workers -> [pc : WorkerPcs, batch : Batches \cup {None}]]
  BY DEF IInv, TypeOK
<1>2. /\ faults' \in [count : 0..MaxFaults, kinds : SUBSET Perils]
      /\ faults.kinds \subseteq faults'.kinds
  BY FaultsGrow DEF IInv
<1>3. work' \in [Workers -> [pc : WorkerPcs, batch : Batches \cup {None}]]
  BY <1>1 DEF Goto
<1>4. \A v \in Workers :
        /\ work'[v].batch = work[v].batch
        /\ v # w => work'[v].pc = work[v].pc
        /\ v = w => work'[v].pc = to
  BY <1>1 DEF Goto
<1>5. TypeOK'
  <2>1. \A v \in Workers : work'[v].pc # "idle" => work'[v].batch \in Batches
    BY <1>4 DEF IInv, TypeOK
  <2> QED  BY <1>2, <1>3, <2>1 DEF IInv, TypeOK, Queue
<1>6. InflightIsQueued' /\ OnePlace'
  BY <1>2, QuietQueue DEF IInv
<1>7. Apart'
  <2>1. \A v \in Workers : Holding(v)' => Holding(v)
    BY <1>4 DEF Holding
  <2> QED  BY <1>2, <1>4, <2>1 DEF IInv, Apart, Saw, Queue
<1> QED  BY <1>5, <1>6, <1>7

LEMMA TryAcquireJobLockKeeps ==
    ASSUME IInv, NEW w \in Workers, TryAcquireJobLock(w)
    PROVE  IInv'
<1> DEFINE b == work[w].batch
<1>1. /\ work[w].pc = "lock" /\ b \in Batches /\ Holding(w)
      /\ UNCHANGED <<Queue, row, enqueues>>
      /\ row' \in [Batches -> RowStates]
  BY DEF IInv, TypeOK, TryAcquireJobLock, Holding, Queue
<1>2. lock \in [Batches -> Workers \cup {None}]
  BY DEF IInv, TypeOK
<1>3. work \in [Workers -> [pc : WorkerPcs, batch : Batches \cup {None}]]
  BY DEF IInv, TypeOK
<1>4. CASE lock[b] = None /\ lock' = [lock EXCEPT ![b] = w]
           /\ Goto(w, "process") /\ UNCHANGED faults
  <2>1. TypeOK' /\ InflightIsQueued' /\ OnePlace' /\ Apart'
    BY <1>1, <1>2, <1>4, WorkerStep DEF WorkerPcs
  <2>2. Locked'
    <3> SUFFICES ASSUME NEW v \in Workers, work'[v].pc \in ProcessPcs
                 PROVE  \/ lock'[work'[v].batch] = v
                        \/ "lockExpires" \in faults'.kinds
      BY DEF Locked
    <3>1. CASE v = w
      BY <1>1, <1>2, <1>3, <1>4, <3>1 DEF Goto
    <3>2. CASE v # w
      <4>1. work'[v] = work[v]
        BY <1>3, <1>4, <3>2 DEF Goto
      <4>2. work[v].batch \in Batches
        BY <4>1 DEF IInv, TypeOK
      <4> QED  BY <1>1, <1>2, <1>4, <4>1, <4>2 DEF IInv, Locked
    <3> QED  BY <3>1, <3>2
  <2>3. RowKnown'
    BY <1>1, <1>3, <1>4 DEF IInv, RowKnown, Goto
  <2> QED  BY <2>1, <2>2, <2>3 DEF IInv
<1>5. CASE /\ UNCHANGED lock /\ Goto(w, "requeue")
           /\ UNCHANGED faults \/ Fault("workerFails")
  <2>1. UNCHANGED faults \/ \E kind \in Perils : Fault(kind)
    BY <1>5 DEF Fault
  <2>2. TypeOK' /\ InflightIsQueued' /\ OnePlace' /\ Apart'
    BY <1>1, <1>2, <1>5, <2>1, WorkerStep DEF WorkerPcs
  <2>3. Locked' /\ RowKnown'
    <3>1. faults.kinds \subseteq faults'.kinds
      BY <2>1, FaultsGrow DEF IInv
    <3> QED  BY <1>1, <1>3, <1>5, <3>1 DEF IInv, Locked, RowKnown, Goto
  <2> QED  BY <2>2, <2>3 DEF IInv
<1> QED  BY <1>4, <1>5 DEF TryAcquireJobLock

\* A processing worker goes on, and may advance the row of its batch.
LEMMA ProcessStep ==
    ASSUME IInv, NEW w \in Workers, work[w].pc \in ProcessPcs,
           NEW to \in {"provider", "requeue", "ack"}, Goto(w, to),
           UNCHANGED <<Queue, lock, enqueues>>,
           row' \in [Batches -> RowStates],
           UNCHANGED faults \/ \E kind \in Perils : Fault(kind)
    PROVE  /\ TypeOK' /\ InflightIsQueued' /\ OnePlace' /\ Apart' /\ Locked'
           /\ \A v \in Workers :
                /\ work'[v].batch = work[v].batch
                /\ v # w => work'[v].pc = work[v].pc
                /\ v = w => work'[v].pc = to
                /\ work'[v].pc # "idle" => work[v].batch \in Batches
           /\ faults.kinds \subseteq faults'.kinds
<1>1. /\ lock' \in [Batches -> Workers \cup {None}]
      /\ Holding(w) /\ to \in WorkerPcs /\ work[w].pc # "idle"
  BY DEF IInv, TypeOK, Holding, WorkerPcs, ProcessPcs
<1>2. TypeOK' /\ InflightIsQueued' /\ OnePlace' /\ Apart'
  BY <1>1, WorkerStep
<1>3. faults.kinds \subseteq faults'.kinds
  BY FaultsGrow DEF IInv
<1>4. \A v \in Workers :
        /\ work'[v].batch = work[v].batch
        /\ v # w => work'[v].pc = work[v].pc
        /\ v = w => work'[v].pc = to
  BY DEF IInv, TypeOK, Goto
<1>5. \A v \in Workers : work'[v].pc # "idle" => work[v].batch \in Batches
  BY <1>2, <1>4 DEF TypeOK
<1>6. Locked'
  BY <1>3, <1>4 DEF IInv, Locked
<1> QED  BY <1>2, <1>3, <1>4, <1>5, <1>6

LEMMA ProcessKeeps ==
    ASSUME IInv, NEW w \in Workers, Process(w)
    PROVE  IInv'
<1> DEFINE b == work[w].batch
<1>1. /\ work[w].pc = "process" /\ work[w].pc \in ProcessPcs
      /\ UNCHANGED <<Queue, lock, enqueues>>
      /\ UNCHANGED faults \/ \E kind \in Perils : Fault(kind)
  BY DEF Process, Queue, ProcessPcs, Fault
<1>2. row \in [Batches -> RowStates] /\ b \in Batches
  BY <1>1 DEF IInv, TypeOK
<1>3. CASE /\ row' = [row EXCEPT ![b] = "over"]
           /\ Goto(w, "ack") /\ UNCHANGED faults
  <2>1. row' \in [Batches -> RowStates]
    BY <1>2, <1>3 DEF RowStates
  <2>2. /\ TypeOK' /\ InflightIsQueued' /\ OnePlace' /\ Apart' /\ Locked'
        /\ \A v \in Workers :
             /\ work'[v].batch = work[v].batch
             /\ v # w => work'[v].pc = work[v].pc
             /\ v = w => work'[v].pc = "ack"
             /\ work'[v].pc # "idle" => work[v].batch \in Batches
    BY <1>1, <1>3, <2>1, ProcessStep
  <2>3. RowKnown'
    BY <1>2, <1>3, <2>2 DEF IInv, RowKnown
  <2> QED  BY <2>2, <2>3 DEF IInv
<1>4. CASE row[b] # "settling" /\ Goto(w, "provider") /\ UNCHANGED row
  <2>1. /\ TypeOK' /\ InflightIsQueued' /\ OnePlace' /\ Apart' /\ Locked'
        /\ \A v \in Workers :
             /\ work'[v].batch = work[v].batch
             /\ v # w => work'[v].pc = work[v].pc
             /\ v = w => work'[v].pc = "provider"
        /\ faults.kinds \subseteq faults'.kinds
    BY <1>1, <1>2, <1>4, ProcessStep
  <2>2. RowKnown'
    BY <1>4, <2>1 DEF IInv, RowKnown
  <2> QED  BY <2>1, <2>2 DEF IInv
<1>5. CASE Goto(w, "requeue") /\ UNCHANGED row
  <2>1. /\ TypeOK' /\ InflightIsQueued' /\ OnePlace' /\ Apart' /\ Locked'
        /\ \A v \in Workers :
             /\ work'[v].batch = work[v].batch
             /\ v # w => work'[v].pc = work[v].pc
             /\ v = w => work'[v].pc = "requeue"
        /\ faults.kinds \subseteq faults'.kinds
    BY <1>1, <1>2, <1>5, ProcessStep
  <2>2. RowKnown'
    BY <1>5, <2>1 DEF IInv, RowKnown
  <2> QED  BY <2>1, <2>2 DEF IInv
<1> QED  BY <1>3, <1>4, <1>5 DEF Process

\* Only a worker that was overtaken finds its batch settling here: the one
\* that indexed the result held the lock as well (Locked).
LEMMA ProviderProcessKeeps ==
    ASSUME IInv, NEW w \in Workers, ProviderProcess(w)
    PROVE  IInv'
<1> DEFINE b == work[w].batch
<1>1. /\ work[w].pc = "provider" /\ work[w].pc \in ProcessPcs
      /\ UNCHANGED <<Queue, lock, enqueues>>
      /\ UNCHANGED faults \/ \E kind \in Perils : Fault(kind)
  BY DEF ProviderProcess, Queue, ProcessPcs, Fault
<1>2. row \in [Batches -> RowStates] /\ b \in Batches
  BY <1>1 DEF IInv, TypeOK
<1>3. CASE /\ row[b] \in {"settling", "over"} /\ Goto(w, "ack")
           /\ UNCHANGED <<row, faults>>
  <2>1. /\ TypeOK' /\ InflightIsQueued' /\ OnePlace' /\ Apart' /\ Locked'
        /\ \A v \in Workers :
             /\ work'[v].batch = work[v].batch
             /\ v # w => work'[v].pc = work[v].pc
             /\ v = w => work'[v].pc = "ack"
    BY <1>1, <1>2, <1>3, ProcessStep
  <2>2. RowKnown'
    BY <1>1, <1>3, <2>1 DEF IInv, RowKnown
  <2> QED  BY <2>1, <2>2 DEF IInv
<1>4. ASSUME NEW to \in {"open", "settling"}, row[b] = "open",
             row' = [row EXCEPT ![b] = to], Goto(w, "requeue"),
             UNCHANGED faults
      PROVE  IInv'
  <2>1. row' \in [Batches -> RowStates]
    BY <1>2, <1>4 DEF RowStates
  <2>2. /\ TypeOK' /\ InflightIsQueued' /\ OnePlace' /\ Apart' /\ Locked'
        /\ \A v \in Workers :
             /\ work'[v].batch = work[v].batch
             /\ v # w => work'[v].pc = work[v].pc
             /\ v = w => work'[v].pc = "requeue"
             /\ work'[v].pc # "idle" => work[v].batch \in Batches
    BY <1>1, <1>4, <2>1, ProcessStep
  <2>3. ASSUME NEW v \in Workers, v # w, work[v].batch = b,
               work[v].pc = "provider"
        PROVE  "lockExpires" \in faults.kinds
    BY <1>1, <2>3 DEF IInv, Locked, ProcessPcs
  <2>4. RowKnown'
    BY <1>2, <1>4, <2>2, <2>3 DEF IInv, RowKnown
  <2> QED  BY <2>2, <2>4 DEF IInv
<1>5. CASE Goto(w, "requeue") /\ UNCHANGED row
  <2>1. /\ TypeOK' /\ InflightIsQueued' /\ OnePlace' /\ Apart' /\ Locked'
        /\ \A v \in Workers :
             /\ work'[v].batch = work[v].batch
             /\ v # w => work'[v].pc = work[v].pc
             /\ v = w => work'[v].pc = "requeue"
        /\ faults.kinds \subseteq faults'.kinds
    BY <1>1, <1>2, <1>5, ProcessStep
  <2>2. RowKnown'
    BY <1>5, <2>1 DEF IInv, RowKnown
  <2> QED  BY <2>1, <2>2 DEF IInv
<1> QED  BY <1>3, <1>4, <1>5 DEF ProviderProcess

LEMMA HeartbeatKeeps ==
    ASSUME IInv, NEW w \in Workers, Heartbeat(w)
    PROVE  IInv'
<1>1. TypeOK'
  BY DEF IInv, TypeOK, Heartbeat
<1>2. InflightIsQueued' /\ OnePlace'
  BY DEF IInv, InflightIsQueued, OnePlace, InQueue, InReady, Saw, Heartbeat
<1>3. Locked' /\ RowKnown' /\ Apart'
  BY DEF IInv, Locked, RowKnown, Apart, Holding, Saw, Heartbeat
<1> QED  BY <1>1, <1>2, <1>3 DEF IInv

\* How the workers differ after one of them, and only it, went on.
LEMMA GotoFacts ==
    ASSUME TypeOK, NEW w \in Workers, NEW to \in WorkerPcs, Goto(w, to)
    PROVE  /\ work' \in [Workers -> [pc : WorkerPcs, batch : Batches \cup {None}]]
           /\ \A v \in Workers :
                /\ work'[v].batch = work[v].batch
                /\ v # w => work'[v].pc = work[v].pc
                /\ v = w => work'[v].pc = to
  BY DEF TypeOK, Goto

\* After RequeueAfter or Ack a worker has nothing left but the release.
LEMMA ToRelease ==
    ASSUME IInv, NEW w \in Workers, Goto(w, "release"), UNCHANGED <<lock, row>>,
           UNCHANGED faults \/ \E kind \in Perils : Fault(kind)
    PROVE  /\ work' \in [Workers -> [pc : WorkerPcs, batch : Batches \cup {None}]]
           /\ \A v \in Workers :
                /\ work'[v].pc # "idle" => work[v].pc # "idle" \/ v = w
                /\ work'[v].batch = work[v].batch
                /\ Holding(v)' => Holding(v) /\ v # w
           /\ Locked' /\ RowKnown'
<1>1. /\ work' \in [Workers -> [pc : WorkerPcs, batch : Batches \cup {None}]]
      /\ \A v \in Workers :
           /\ work'[v].batch = work[v].batch
           /\ v # w => work'[v].pc = work[v].pc
           /\ v = w => work'[v].pc = "release"
  BY GotoFacts DEF IInv, WorkerPcs
<1>2. faults.kinds \subseteq faults'.kinds
  BY FaultsGrow DEF IInv
<1>3. \A v \in Workers : Holding(v)' => Holding(v) /\ v # w
  BY <1>1 DEF Holding
<1>4. Locked' /\ RowKnown'
  BY <1>1, <1>2 DEF IInv, Locked, RowKnown
<1> QED  BY <1>1, <1>3, <1>4

LEMMA RequeueAfterKeeps ==
    ASSUME IInv, NEW w \in Workers, RequeueAfter(w)
    PROVE  IInv'
<1> DEFINE b == work[w].batch
<1>1. /\ work[w].pc = "requeue" /\ b \in Batches /\ Holding(w)
      /\ Goto(w, "release")
      /\ UNCHANGED <<ready, inflight, lock, row, enqueues>>
  BY DEF IInv, TypeOK, RequeueAfter, Holding
<1>2. UNCHANGED faults \/ \E kind \in Perils : Fault(kind)
  BY DEF RequeueAfter, Fault
<1>3. /\ work' \in [Workers -> [pc : WorkerPcs, batch : Batches \cup {None}]]
      /\ \A v \in Workers :
           /\ work'[v].pc # "idle" => work[v].pc # "idle" \/ v = w
           /\ work'[v].batch = work[v].batch
           /\ Holding(v)' => Holding(v) /\ v # w
      /\ Locked' /\ RowKnown'
  BY <1>1, <1>2, ToRelease
<1>4. /\ faults' \in [count : 0..MaxFaults, kinds : SUBSET Perils]
      /\ faults.kinds \subseteq faults'.kinds
  BY <1>2, FaultsGrow DEF IInv
<1>5. \A v \in Workers : work'[v].pc # "idle" => work'[v].batch \in Batches
  BY <1>1, <1>3 DEF IInv, TypeOK
<1>6. CASE UNCHANGED <<active, stale, delayed>>
  <2>1. TypeOK'
    BY <1>1, <1>3, <1>4, <1>5, <1>6 DEF IInv, TypeOK
  <2>2. InflightIsQueued' /\ OnePlace'
    BY <1>1, <1>4, <1>6, QuietQueue DEF IInv, Queue
  <2>3. Apart'
    BY <1>3, <1>4, <1>6 DEF IInv, Apart, Saw
  <2> QED  BY <1>3, <2>1, <2>2, <2>3 DEF IInv
<1>7. CASE /\ active' = active \ {b} /\ stale' = stale \ {b}
           /\ delayed' = delayed \cup {b} /\ UNCHANGED faults
  <2> HIDE DEF b
  <2>1. TypeOK'
    BY <1>1, <1>3, <1>4, <1>5, <1>7 DEF IInv, TypeOK
  <2>2. \A c \in Batches : /\ InReady(c)' <=> InReady(c)
                           /\ InQueue(c)' <=> InQueue(c) \/ c = b
    BY <1>1, <1>7 DEF InQueue, InReady
  <2>3. InflightIsQueued'
    BY <1>1, <2>2 DEF IInv, TypeOK, InflightIsQueued
  <2>4. CASE Saw({"beatsLost", "inflightExpires"})
    <3>1. OnePlace' /\ Apart'
      BY <1>7, <2>4 DEF OnePlace, Apart, Saw
    <3> QED  BY <1>3, <2>1, <2>3, <3>1 DEF IInv
  <2>5. CASE ~Saw({"beatsLost", "inflightExpires"})
    <3>1. b \in active
      BY <1>1, <2>5 DEF IInv, Apart, b
    <3>2. \A i, j \in DOMAIN ready' : ready'[i] = ready'[j] => i = j
      BY <1>1, <2>5 DEF IInv, OnePlace
    <3>3. \A c \in Batches :
            /\ InQueue(c)' => c \in inflight'
            /\ c \in delayed' => ~InReady(c)' /\ c \notin active'
            /\ c \in active' => ~InReady(c)'
      BY <1>1, <1>7, <2>2, <2>5, <3>1 DEF IInv, OnePlace, InQueue
    <3>4. OnePlace'
      BY <3>2, <3>3 DEF OnePlace
    <3>5. \A v \in Workers : Holding(v) /\ v # w => work[v].batch # b
      BY <1>1, <2>5 DEF IInv, Apart, b
    <3>6. Apart'
      BY <1>3, <1>7, <2>5, <3>5 DEF IInv, Apart
    <3> QED  BY <1>3, <2>1, <2>3, <3>4, <3>6 DEF IInv
  <2> QED  BY <2>4, <2>5
<1> QED  BY <1>6, <1>7 DEF RequeueAfter

LEMMA AckKeeps ==
    ASSUME IInv, NEW w \in Workers, Ack(w)
    PROVE  IInv'
<1> DEFINE b == work[w].batch
<1>1. /\ work[w].pc = "ack" /\ b \in Batches /\ Holding(w)
      /\ Goto(w, "release")
      /\ UNCHANGED <<ready, lock, row, enqueues>>
  BY DEF IInv, TypeOK, Ack, Holding
<1>2. UNCHANGED faults \/ \E kind \in Perils : Fault(kind)
  BY DEF Ack, Fault
<1>3. /\ work' \in [Workers -> [pc : WorkerPcs, batch : Batches \cup {None}]]
      /\ \A v \in Workers :
           /\ work'[v].pc # "idle" => work[v].pc # "idle" \/ v = w
           /\ work'[v].batch = work[v].batch
           /\ Holding(v)' => Holding(v) /\ v # w
      /\ Locked' /\ RowKnown'
  BY <1>1, <1>2, ToRelease
<1>4. /\ faults' \in [count : 0..MaxFaults, kinds : SUBSET Perils]
      /\ faults.kinds \subseteq faults'.kinds
  BY <1>2, FaultsGrow DEF IInv
<1>5. \A v \in Workers : work'[v].pc # "idle" => work'[v].batch \in Batches
  BY <1>1, <1>3 DEF IInv, TypeOK
<1>6. CASE UNCHANGED <<active, stale, delayed, inflight>>
  <2>1. TypeOK'
    BY <1>1, <1>3, <1>4, <1>5, <1>6 DEF IInv, TypeOK
  <2>2. InflightIsQueued' /\ OnePlace'
    BY <1>1, <1>4, <1>6, QuietQueue DEF IInv, Queue
  <2>3. Apart'
    BY <1>3, <1>4, <1>6 DEF IInv, Apart, Saw
  <2> QED  BY <1>3, <2>1, <2>2, <2>3 DEF IInv
<1>7. CASE /\ active' = active \ {b} /\ stale' = stale \ {b}
           /\ delayed' = delayed \ {b} /\ inflight' = inflight \ {b}
           /\ UNCHANGED faults
  <2> HIDE DEF b
  <2>1. TypeOK'
    BY <1>1, <1>3, <1>4, <1>5, <1>7 DEF IInv, TypeOK
  <2>2. \A c \in Batches : /\ InReady(c)' <=> InReady(c)
                           /\ c # b => (InQueue(c)' <=> InQueue(c))
    BY <1>1, <1>7 DEF InQueue, InReady
  <2>3. InflightIsQueued'
    BY <1>1, <1>7, <2>2 DEF IInv, TypeOK, InflightIsQueued
  <2>4. CASE Saw({"beatsLost", "inflightExpires"})
    <3>1. OnePlace' /\ Apart'
      BY <1>7, <2>4 DEF OnePlace, Apart, Saw
    <3> QED  BY <1>3, <2>1, <2>3, <3>1 DEF IInv
  <2>5. CASE ~Saw({"beatsLost", "inflightExpires"})
    <3>1. b \in active /\ ~InReady(b)
      BY <1>1, <2>5 DEF IInv, Apart, OnePlace, b
    <3>2. \A i, j \in DOMAIN ready' : ready'[i] = ready'[j] => i = j
      BY <1>1, <2>5 DEF IInv, OnePlace
    <3>3. \A c \in Batches :
            /\ InQueue(c)' => c \in inflight'
            /\ c \in delayed' => ~InReady(c)' /\ c \notin active'
            /\ c \in active' => ~InReady(c)'
      BY <1>1, <1>7, <2>2, <2>5, <3>1 DEF IInv, OnePlace, InQueue
    <3>4. OnePlace'
      BY <3>2, <3>3 DEF OnePlace
    <3>5. \A v \in Workers : Holding(v) /\ v # w => work[v].batch # b
      BY <1>1, <2>5 DEF IInv, Apart, b
    <3>6. Apart'
      BY <1>3, <1>7, <2>5, <3>5 DEF IInv, Apart
    <3> QED  BY <1>3, <2>1, <2>3, <3>4, <3>6 DEF IInv
  <2> QED  BY <2>4, <2>5
<1> QED  BY <1>6, <1>7 DEF Ack

\* A worker comes to rest: it released, or died.
LEMMA RestKeeps ==
    ASSUME IInv, NEW w \in Workers,
           work' = [work EXCEPT ![w] = Resting],
           UNCHANGED <<Queue, row, enqueues>>,
           UNCHANGED faults \/ \E kind \in Perils : Fault(kind),
           lock' \in [Batches -> Workers \cup {None}],
           \A c \in Batches : lock'[c] = lock[c] \/ lock[c] = w
    PROVE  IInv'
<1>1. work \in [Workers -> [pc : WorkerPcs, batch : Batches \cup {None}]]
  BY DEF IInv, TypeOK
<1>2. /\ faults' \in [count : 0..MaxFaults, kinds : SUBSET Perils]
      /\ faults.kinds \subseteq faults'.kinds
  BY FaultsGrow DEF IInv
<1>3. Resting \in [pc : WorkerPcs, batch : Batches \cup {None}]
      /\ Resting.pc = "idle"
  BY DEF Resting, WorkerPcs
<1>4. /\ work' \in [Workers -> [pc : WorkerPcs, batch : Batches \cup {None}]]
      /\ \A v \in Workers : v # w => work'[v] = work[v]
      /\ work'[w].pc = "idle"
  BY <1>1, <1>3
<1>5. TypeOK'
  BY <1>2, <1>4 DEF IInv, TypeOK, Queue
<1>6. InflightIsQueued' /\ OnePlace'
  BY <1>2, QuietQueue DEF IInv
<1>7. Apart'
  <2>1. \A v \in Workers : Holding(v)' => Holding(v) /\ v # w
    BY <1>4 DEF Holding
  <2> QED  BY <1>2, <1>4, <2>1 DEF IInv, Apart, Saw, Queue
<1>8. RowKnown'
  BY <1>2, <1>4 DEF IInv, RowKnown
<1>9. Locked'
  <2> SUFFICES ASSUME NEW v \in Workers, work'[v].pc \in ProcessPcs
               PROVE  \/ lock'[work'[v].batch] = v
                      \/ "lockExpires" \in faults'.kinds
    BY DEF Locked
  <2>1. v # w /\ work'[v] = work[v] /\ work[v].batch \in Batches
    BY <1>4 DEF IInv, TypeOK
  <2> QED  BY <1>2, <2>1 DEF IInv, Locked
<1> QED  BY <1>5, <1>6, <1>7, <1>8, <1>9 DEF IInv

LEMMA ReleaseKeeps ==
    ASSUME IInv, NEW w \in Workers, Release(w)
    PROVE  IInv'
<1>1. UNCHANGED faults \/ \E kind \in Perils : Fault(kind)
  BY DEF Release, Fault
<1>2. work[w].batch \in Batches /\ lock \in [Batches -> Workers \cup {None}]
  BY DEF IInv, TypeOK, Release
<1>3. /\ lock' \in [Batches -> Workers \cup {None}]
      /\ \A c \in Batches : lock'[c] = lock[c] \/ lock[c] = w
  BY <1>2 DEF Release
<1>4. work' = [work EXCEPT ![w] = Resting] /\ UNCHANGED <<Queue, row, enqueues>>
  BY DEF Release, Queue
<1> QED  BY <1>1, <1>3, <1>4, RestKeeps

LEMMA CrashKeeps ==
    ASSUME IInv, NEW w \in Workers, Crash(w)
    PROVE  IInv'
<1>1. UNCHANGED faults \/ \E kind \in Perils : Fault(kind)
  BY DEF Crash, Fault
<1>2. /\ lock' \in [Batches -> Workers \cup {None}]
      /\ \A c \in Batches : lock'[c] = lock[c] \/ lock[c] = w
  BY DEF IInv, TypeOK, Crash
<1>3. work' = [work EXCEPT ![w] = Resting] /\ UNCHANGED <<Queue, row, enqueues>>
  BY DEF Crash, Queue
<1> QED  BY <1>1, <1>2, <1>3, RestKeeps

-----------------------------------------------------------------------------
(* Steps of the loops around the workers, and of time.                     *)

LEMMA BatchEndsKeeps ==
    ASSUME IInv, NEW b \in Batches, BatchEnds(b)
    PROVE  IInv'
<1>1. /\ UNCHANGED <<Queue, lock, work, enqueues, faults>>
      /\ row' = [row EXCEPT ![b] = "over"]
  BY DEF BatchEnds, Queue
<1>2. InflightIsQueued' /\ OnePlace'
  BY <1>1, QuietQueue DEF IInv
<1>3. TypeOK' /\ Locked' /\ Apart'
  BY <1>1 DEF IInv, TypeOK, RowStates, Locked, Apart, Holding, Saw, Queue
<1>4. RowKnown'
  BY <1>1 DEF IInv, TypeOK, RowKnown
<1> QED  BY <1>2, <1>3, <1>4 DEF IInv

\* The list after an arrangement of a set of batches was pushed.
LEMMA ArrangedGrows ==
    ASSUME TypeOK, NEW S \in SUBSET Batches, NEW s \in Arrangements(S),
           ready' = ready \o s
    PROVE  /\ ready' \in Seq(Batches)
           /\ \A c \in Batches : InReady(c)' <=> InReady(c) \/ c \in S
           /\ /\ \A i, j \in DOMAIN ready : ready[i] = ready[j] => i = j
              /\ \A c \in S : ~InReady(c)
              => \A i, j \in DOMAIN ready' : ready'[i] = ready'[j] => i = j
<1>1. /\ s \in Seq(S)
      /\ \A c \in S : \E i \in 1..Len(s) : s[i] = c
      /\ \A i, j \in 1..Len(s) : s[i] = s[j] => i = j
  BY ArrangementsFacts
<1>2. DOMAIN s = 1..Len(s) /\ \A i \in DOMAIN s : s[i] \in S
  BY <1>1
<1>3. s \in Seq(Batches)
  <2>1. \A i \in 1..Len(s) : s[i] \in Batches
    BY <1>2
  <2>2. Len(s) \in Nat /\ s \in [1..Len(s) -> S]
    BY <1>1
  <2> QED  BY <2>1, <2>2
<1>4. \A c \in Batches : c \in S <=> \E i \in DOMAIN s : s[i] = c
  <2>1. \A c \in S : \E i \in DOMAIN s : s[i] = c
    BY <1>1, <1>2, Zenon
  <2> QED  BY <1>2, <2>1, Zenon
<1>5. /\ ready' \in Seq(Batches)
      /\ \A c \in Batches :
           InReady(c)' <=> InReady(c) \/ \E i \in DOMAIN s : s[i] = c
      /\ /\ \A i, j \in DOMAIN ready : ready[i] = ready[j] => i = j
         /\ \A i, j \in DOMAIN s : s[i] = s[j] => i = j
         /\ \A i \in DOMAIN s : ~InReady(s[i])
         => \A i, j \in DOMAIN ready' : ready'[i] = ready'[j] => i = j
  BY <1>3, ReadyGrows
<1> QED  BY <1>1, <1>2, <1>4, <1>5

\* Batches go from the delayed ones, or from the stale ones, to the list.
LEMMA BackToReady ==
    ASSUME IInv, NEW S \in SUBSET Batches, NEW s \in Arrangements(S),
           ready' = ready \o s,
           \/ S \subseteq delayed /\ delayed' = delayed \ S /\ UNCHANGED <<active, stale>>
           \/ S = stale /\ active' = active \ S /\ stale' = {} /\ UNCHANGED delayed,
           UNCHANGED <<inflight, lock, work, row, enqueues, faults>>
    PROVE  IInv'
<1>2. /\ ready' \in Seq(Batches)
      /\ \A c \in Batches : InReady(c)' <=> InReady(c) \/ c \in S
      /\ /\ \A i, j \in DOMAIN ready : ready[i] = ready[j] => i = j
         /\ \A c \in S : ~InReady(c)
         => \A i, j \in DOMAIN ready' : ready'[i] = ready'[j] => i = j
  BY ArrangedGrows DEF IInv
<1>3. TypeOK'
  BY <1>2 DEF IInv, TypeOK
<1>4. \A c \in Batches : InQueue(c)' <=> InQueue(c)
  BY <1>2 DEF IInv, TypeOK, InQueue
<1>5. InflightIsQueued'
  BY <1>4 DEF IInv, TypeOK, InflightIsQueued
<1>6. Locked' /\ RowKnown'
  BY DEF IInv, Locked, RowKnown
<1>7. CASE Saw({"beatsLost", "inflightExpires"})
  <2>1. OnePlace' /\ Apart'
    BY <1>7 DEF OnePlace, Apart, Saw
  <2> QED  BY <1>3, <1>5, <1>6, <2>1 DEF IInv
<1>8. CASE ~Saw({"beatsLost", "inflightExpires"})
  <2>1. \A c \in S : ~InReady(c)
    BY <1>8 DEF IInv, TypeOK, OnePlace
  <2>2. \A i, j \in DOMAIN ready' : ready'[i] = ready'[j] => i = j
    <3>1. \A i, j \in DOMAIN ready : ready[i] = ready[j] => i = j
      BY <1>8 DEF IInv, OnePlace
    <3> QED  BY <1>2, <2>1, <3>1
  <2>3. \A c \in Batches :
          /\ InQueue(c)' => c \in inflight'
          /\ c \in delayed' => ~InReady(c)' /\ c \notin active'
          /\ c \in active' => ~InReady(c)'
    BY <1>2, <1>4, <1>8 DEF IInv, TypeOK, OnePlace
  <2>4. OnePlace'
    BY <2>2, <2>3 DEF OnePlace
  <2>5. active' \ stale' = active \ stale
    BY DEF IInv, TypeOK
  <2>6. Apart'
    BY <1>8, <2>5 DEF IInv, Apart, Holding
  <2> QED  BY <1>3, <1>5, <1>6, <2>4, <2>6 DEF IInv
<1> QED  BY <1>7, <1>8

LEMMA MoveDueDelayedToReadyKeeps ==
    ASSUME IInv, MoveDueDelayedToReady
    PROVE  IInv'
<1>1. PICK due \in SUBSET delayed : \E s \in Arrangements(due) :
        /\ delayed' = delayed \ due
        /\ ready' = ready \o s
        /\ UNCHANGED <<active, stale, inflight, lock, work, row, enqueues,
                       faults>>
  BY DEF MoveDueDelayedToReady
<1>2. due \in SUBSET Batches /\ due \subseteq delayed
  BY DEF IInv, TypeOK
<1> QED  BY <1>1, <1>2, BackToReady

LEMMA RecoverStaleActiveKeeps ==
    ASSUME IInv, RecoverStaleActive
    PROVE  IInv'
<1>1. PICK s \in Arrangements(stale) :
        /\ active' = active \ stale
        /\ stale' = {}
        /\ ready' = ready \o s
        /\ UNCHANGED <<delayed, inflight, lock, work, row, enqueues, faults>>
  BY DEF RecoverStaleActive
<1>2. stale \in SUBSET Batches
  BY DEF IInv, TypeOK
<1> QED  BY <1>1, <1>2, BackToReady

LEMMA GoesStaleKeeps ==
    ASSUME IInv, NEW b \in Batches, GoesStale(b)
    PROVE  IInv'
<1>1. UNCHANGED faults \/ \E kind \in Perils : Fault(kind)
  BY DEF GoesStale, Fault
<1>2. /\ faults' \in [count : 0..MaxFaults, kinds : SUBSET Perils]
      /\ faults.kinds \subseteq faults'.kinds
  BY <1>1, FaultsGrow DEF IInv
<1>3. TypeOK'
  BY <1>2 DEF IInv, TypeOK, GoesStale
<1>4. InflightIsQueued' /\ OnePlace'
  BY <1>2 DEF IInv, InflightIsQueued, OnePlace, InQueue, InReady, Saw, GoesStale
<1>5. Locked' /\ RowKnown'
  BY <1>2 DEF IInv, Locked, RowKnown, GoesStale
<1>6. Apart'
  <2>1. CASE \A w \in Workers : ~Busy(w, b)
    <3>1. \A w \in Workers : Holding(w) => work[w].batch # b
      BY <2>1 DEF Busy, Holding
    <3> QED  BY <1>2, <3>1 DEF IInv, Apart, Holding, Saw, GoesStale
  <2>2. CASE Fault("beatsLost")
    <3>1. "beatsLost" \in faults'.kinds
      BY <2>2, FaultFacts DEF IInv
    <3> QED  BY <3>1 DEF Apart, Saw
  <2> QED  BY <2>1, <2>2 DEF GoesStale
<1> QED  BY <1>3, <1>4, <1>5, <1>6 DEF IInv

LEMMA LockExpiresKeeps ==
    ASSUME IInv, NEW b \in Batches, LockExpires(b)
    PROVE  IInv'
<1>1. UNCHANGED faults \/ \E kind \in Perils : Fault(kind)
  BY DEF LockExpires, Fault
<1>2. /\ faults' \in [count : 0..MaxFaults, kinds : SUBSET Perils]
      /\ faults.kinds \subseteq faults'.kinds
  BY <1>1, FaultsGrow DEF IInv
<1>3. TypeOK'
  BY <1>2 DEF IInv, TypeOK, LockExpires
<1>4. UNCHANGED <<Queue, work, row>>
  BY DEF LockExpires, Queue
<1>5. InflightIsQueued' /\ OnePlace'
  BY <1>2, <1>4, QuietQueue DEF IInv
<1>6. RowKnown' /\ Apart'
  BY <1>2, <1>4 DEF IInv, RowKnown, Apart, Holding, Saw, Queue
<1>7. Locked'
  <2>1. CASE ~Busy(lock[b], b)
    <3> SUFFICES ASSUME NEW v \in Workers, work[v].pc \in ProcessPcs
                 PROVE  \/ lock'[work[v].batch] = v
                        \/ "lockExpires" \in faults'.kinds
      BY <1>4 DEF Locked
    <3>1. work[v].batch \in Batches
      BY DEF IInv, TypeOK
    <3>2. CASE "lockExpires" \in faults.kinds
      BY <1>2, <3>2
    <3>3. CASE lock[work[v].batch] = v
      <4>1. work[v].batch # b
        BY <2>1, <3>3 DEF Busy
      <4> QED  BY <3>1, <3>3, <4>1 DEF IInv, TypeOK, LockExpires
    <3> QED  BY <3>2, <3>3 DEF IInv, Locked
  <2>2. CASE Fault("lockExpires")
    <3>1. "lockExpires" \in faults'.kinds
      BY <2>2, FaultFacts DEF IInv
    <3> QED  BY <3>1 DEF Locked
  <2> QED  BY <2>1, <2>2 DEF LockExpires
<1> QED  BY <1>3, <1>5, <1>6, <1>7 DEF IInv

LEMMA InflightExpiresKeeps ==
    ASSUME IInv, NEW b \in Batches, InflightExpires(b)
    PROVE  IInv'
<1>1. Fault("inflightExpires")
  BY DEF InflightExpires
<1>2. /\ faults' \in [count : 0..MaxFaults, kinds : SUBSET Perils]
      /\ faults'.kinds = faults.kinds \cup {"inflightExpires"}
  BY <1>1, FaultFacts DEF IInv
<1>3. TypeOK'
  BY <1>2 DEF IInv, TypeOK, InflightExpires
<1>4. InflightIsQueued'
  BY DEF IInv, InflightIsQueued, InQueue, InReady, InflightExpires
<1>5. OnePlace' /\ Apart'
  BY <1>2 DEF OnePlace, Apart, Saw
<1>6. Locked' /\ RowKnown'
  BY <1>2 DEF IInv, Locked, RowKnown, InflightExpires
<1> QED  BY <1>3, <1>4, <1>5, <1>6 DEF IInv

-----------------------------------------------------------------------------
(* The theorems.                                                           *)

LEMMA InitHolds == Init => IInv
<1> SUFFICES ASSUME Init PROVE IInv
  OBVIOUS
<1>1. Resting \in [pc : WorkerPcs, batch : Batches \cup {None}]
      /\ Resting.pc = "idle"
  BY DEF Resting, WorkerPcs
<1>2. TypeOK
  BY <1>1 DEF Init, TypeOK
<1>3. \A w \in Workers : work[w].pc = "idle"
  BY <1>1 DEF Init
<1>4. Locked /\ RowKnown /\ Apart
  BY <1>3 DEF Locked, RowKnown, Apart, Holding
<1>5. DOMAIN ready = {} /\ \A b \in Batches : ~InReady(b)
  BY DEF Init, InReady
<1>6. InflightIsQueued /\ OnePlace
  BY <1>5 DEF InflightIsQueued, OnePlace, InQueue, Init
<1> QED  BY <1>2, <1>4, <1>6 DEF IInv

LEMMA StepHolds == IInv /\ [Next]_vars => IInv'
<1> SUFFICES ASSUME IInv, [Next]_vars PROVE IInv'
  OBVIOUS
<1>1. ASSUME NEW w \in Workers, RunOnce(w) \/ Heartbeat(w) \/ Crash(w)
      PROVE  IInv'
  BY <1>1, ReserveKeeps, TryAcquireJobLockKeeps, ProcessKeeps,
     ProviderProcessKeeps, RequeueAfterKeeps, AckKeeps, ReleaseKeeps, HeartbeatKeeps, CrashKeeps
     DEF RunOnce
<1>2. ASSUME NEW b \in Batches, Enqueue(b) \/ BatchEnds(b) \/ TimePasses(b)
      PROVE  IInv'
  BY <1>2, EnqueueKeeps, BatchEndsKeeps, GoesStaleKeeps, LockExpiresKeeps,
     InflightExpiresKeeps DEF TimePasses
<1>3. CASE UNCHANGED vars
  <2>1. TypeOK'
    BY <1>3 DEF vars, IInv, TypeOK
  <2>2. InflightIsQueued' /\ OnePlace'
    BY <1>3, QuietQueue DEF vars, IInv, Queue
  <2>3. Locked' /\ RowKnown' /\ Apart'
    BY <1>3 DEF vars, IInv, Locked, RowKnown, Apart, Holding, Saw
  <2> QED  BY <2>1, <2>2, <2>3 DEF IInv
<1> QED  BY <1>1, <1>2, <1>3, MoveDueDelayedToReadyKeeps,
            RecoverStaleActiveKeeps DEF Next

\* A fault of another kind lets no lock run out under its worker.
LEMMA NoLapse ==
    ASSUME TypeOK,
           \/ UNCHANGED faults
           \/ \E kind \in {"workerFails", "beatsLost", "inflightExpires"} :
                Fault(kind)
    PROVE  Saw({"lockExpires"})' = Saw({"lockExpires"})
<1>1. CASE UNCHANGED faults
  BY <1>1 DEF Saw
<1>2. ASSUME NEW kind \in {"workerFails", "beatsLost", "inflightExpires"},
             Fault(kind)
      PROVE  Saw({"lockExpires"})' = Saw({"lockExpires"})
  <2>1. faults'.kinds = faults.kinds \cup {kind}
    BY <1>2, FaultFacts
  <2>2. kind # "lockExpires"
    BY <1>2
  <2> QED  BY <2>1, <2>2 DEF Saw
<1> QED  BY <1>1, <1>2

\* A step of the queue is a step of its contract: a batch enters, advances,
\* leaves when it may, or is moved; or a lock runs out under its worker.
LEMMA StepKeepsContract ==
    ASSUME IInv, [Next]_vars
    PROVE  [Contract!Next]_<<{b \in Batches : InQueue(b)}, row,
                             Saw({"lockExpires"})>>
<1> DEFINE queued == {b \in Batches : InQueue(b)}
           lapsed == Saw({"lockExpires"})
           cvars == <<queued, row, lapsed>>
<1>1. ASSUME UNCHANGED row, lapsed' = lapsed,
             \A c \in Batches : InQueue(c)' <=> InQueue(c)
      PROVE  UNCHANGED cvars
  BY <1>1
<1>2. ASSUME NEW b \in Batches, UNCHANGED row, lapsed' = lapsed,
             \A c \in Batches : InQueue(c)' <=> InQueue(c) \/ c = b
      PROVE  Contract!Next
  <2>1. queued' = queued \cup {b}
    BY <1>2
  <2> QED  BY <1>2, <2>1 DEF Contract!Next, Contract!Enter
<1>3. ASSUME UNCHANGED <<row, ready, delayed, active>>, lapsed' = lapsed
      PROVE  UNCHANGED cvars
  BY <1>1, <1>3 DEF InQueue, InReady
<1>4. ASSUME NEW w \in Workers, Reserve(w)
      PROVE  UNCHANGED cvars
  <2>1. ready \in Seq(Batches) /\ ready # <<>> /\ ready' = Tail(ready)
    BY <1>4 DEF IInv, TypeOK, Reserve
  <2>2. \A c \in Batches :
          (\E i \in DOMAIN ready : ready[i] = c)
            <=> c = Head(ready) \/ \E i \in DOMAIN ready' : ready'[i] = c
    <3> DEFINE t == Tail(ready)
    <3>1. \A c \in Batches :
            (\E i \in DOMAIN ready : ready[i] = c)
              <=> c = Head(ready) \/ \E i \in DOMAIN t : t[i] = c
      BY <2>1, TailFacts
    <3>2. ready' = t
      BY <2>1
    <3> HIDE DEF t
    <3> QED  BY <3>1, <3>2
  <2>3. /\ active' = active \cup {Head(ready)}
        /\ UNCHANGED <<delayed, row, faults>>
    BY <1>4 DEF Reserve
  <2>4. \A c \in Batches : InQueue(c)' <=> InQueue(c)
    BY <2>2, <2>3 DEF InQueue, InReady
  <2>5. lapsed' = lapsed
    BY <2>3, NoLapse DEF IInv
  <2> QED  BY <1>1, <2>3, <2>4, <2>5
<1>5. ASSUME NEW w \in Workers, RequeueAfter(w)
      PROVE  Contract!Next \/ UNCHANGED cvars
  <2> DEFINE b == work[w].batch
  <2>1. b \in Batches
    BY <1>5 DEF IInv, TypeOK, RequeueAfter
  <2>2. lapsed' = lapsed
    BY <1>5, NoLapse DEF IInv, RequeueAfter
  <2>3. CASE UNCHANGED <<active, stale, delayed>>
    BY <1>3, <1>5, <2>2, <2>3 DEF RequeueAfter
  <2>4. CASE active' = active \ {b} /\ delayed' = delayed \cup {b}
    <3>1. \A c \in Batches : InQueue(c)' <=> InQueue(c) \/ c = b
      BY <1>5, <2>4 DEF RequeueAfter, InQueue, InReady
    <3> QED  BY <1>2, <1>5, <2>1, <2>2, <3>1 DEF RequeueAfter
  <2> QED  BY <1>5, <2>3, <2>4 DEF RequeueAfter
<1>6. ASSUME NEW w \in Workers, Ack(w)
      PROVE  Contract!Next \/ UNCHANGED cvars
  <2> DEFINE b == work[w].batch
  <2>1. b \in Batches /\ UNCHANGED <<ready, row>>
    BY <1>6 DEF IInv, TypeOK, Ack
  <2>2. row[b] = "over" \/ (row[b] = "settling" /\ lapsed)
    BY <1>6 DEF IInv, RowKnown, Ack, Saw
  <2>3. lapsed' = lapsed
    BY <1>6, NoLapse DEF IInv, Ack
  <2>4. CASE UNCHANGED <<active, stale, delayed, inflight>>
    BY <1>3, <2>1, <2>3, <2>4
  <2>5. CASE active' = active \ {b} /\ delayed' = delayed \ {b}
    <3>1. \A c \in Batches : InQueue(c)' <=> InReady(c) \/ (InQueue(c) /\ c # b)
      BY <2>1, <2>5 DEF InQueue, InReady
    <3>2. CASE InReady(b)
      <4>1. \A c \in Batches : InQueue(c)' <=> InQueue(c)
        BY <3>1, <3>2 DEF InQueue
      <4> QED  BY <1>1, <2>1, <2>3, <4>1
    <3>3. CASE ~InReady(b)
      <4>1. \A c \in Batches : InQueue(c)' <=> InQueue(c) /\ c # b
        BY <3>1, <3>3 DEF InQueue
      <4>2. queued' = queued \ {b}
        BY <4>1
      <4> QED  BY <2>1, <2>2, <2>3, <4>2 DEF Contract!Next, Contract!Leave
    <3> QED  BY <3>2, <3>3
  <2> QED  BY <1>6, <2>4, <2>5 DEF Ack
<1>7. ASSUME UNCHANGED <<ready, delayed, active>>, lapsed' = lapsed,
             NEW b \in Batches, row[b] # "over",
             NEW to \in {"settling", "over"}, row' = [row EXCEPT ![b] = to]
      PROVE  Contract!Next
  <2>1. \A c \in Batches : InQueue(c)' <=> InQueue(c)
    BY <1>7 DEF InQueue, InReady
  <2>2. queued' = queued
    BY <2>1
  <2> QED  BY <1>7, <2>2 DEF Contract!Next, Contract!Advance
<1>8. ASSUME NEW w \in Workers, Process(w)
      PROVE  Contract!Next \/ UNCHANGED cvars
  <2>1. /\ UNCHANGED <<ready, delayed, active>>
        /\ work[w].batch \in Batches
    BY <1>8 DEF IInv, TypeOK, Process
  <2>2. lapsed' = lapsed
    BY <1>8, NoLapse DEF IInv, Process
  <2>3. CASE UNCHANGED row
    BY <1>3, <2>1, <2>2, <2>3
  <2>4. CASE /\ row[work[w].batch] = "settling"
             /\ row' = [row EXCEPT ![work[w].batch] = "over"]
    BY <1>7, <2>1, <2>2, <2>4
  <2> QED  BY <1>8, <2>3, <2>4 DEF Process
<1>9. ASSUME NEW w \in Workers, ProviderProcess(w)
      PROVE  Contract!Next \/ UNCHANGED cvars
  <2> DEFINE b == work[w].batch
  <2>1. /\ UNCHANGED <<ready, delayed, active>>
        /\ b \in Batches /\ row \in [Batches -> RowStates]
    BY <1>9 DEF IInv, TypeOK, ProviderProcess
  <2>2. lapsed' = lapsed
    BY <1>9, NoLapse DEF IInv, ProviderProcess
  <2>3. CASE UNCHANGED row
    BY <1>3, <2>1, <2>2, <2>3
  <2>4. ASSUME NEW to \in {"open", "settling"}, row[b] = "open",
               row' = [row EXCEPT ![b] = to]
        PROVE  Contract!Next \/ UNCHANGED cvars
    <3>1. CASE to = "open"
      <4>1. UNCHANGED row
        BY <2>1, <2>4, <3>1
      <4> QED  BY <2>3, <4>1
    <3>2. CASE to = "settling"
      BY <1>7, <2>1, <2>2, <2>4, <3>2
    <3> QED  BY <3>1, <3>2
  <2> QED  BY <1>9, <2>3, <2>4 DEF ProviderProcess
<1>10. ASSUME NEW w \in Workers,
              TryAcquireJobLock(w) \/ Release(w) \/ Heartbeat(w) \/ Crash(w)
       PROVE  UNCHANGED cvars
  <2>1. lapsed' = lapsed
    BY <1>10, NoLapse DEF IInv, TryAcquireJobLock, Release, Heartbeat, Crash
  <2> QED  BY <1>3, <1>10, <2>1
              DEF TryAcquireJobLock, Release, Heartbeat, Crash
<1>11. ASSUME NEW w \in Workers, RunOnce(w) \/ Heartbeat(w) \/ Crash(w)
       PROVE  Contract!Next \/ UNCHANGED cvars
  BY <1>4, <1>5, <1>6, <1>8, <1>9, <1>10, <1>11 DEF RunOnce
<1>12. ASSUME NEW b \in Batches, Enqueue(b)
       PROVE  Contract!Next
  <2>1. <<b>> \in Seq(Batches) /\ ready' = ready \o <<b>> /\ ready \in Seq(Batches)
    BY <1>12 DEF Enqueue, IInv, TypeOK
  <2>2. \A c \in Batches :
          InReady(c)' <=> InReady(c) \/ \E i \in DOMAIN <<b>> : <<b>>[i] = c
    BY <2>1, ReadyGrows DEF IInv
  <2>3. \A c \in Batches : (\E i \in DOMAIN <<b>> : <<b>>[i] = c) <=> c = b
    OBVIOUS
  <2>4. \A c \in Batches : InReady(c)' <=> InReady(c) \/ c = b
    BY <2>2, <2>3, Zenon
  <2>5. \A c \in Batches : InQueue(c)' <=> InQueue(c) \/ c = b
    BY <1>12, <2>4 DEF Enqueue, InQueue
  <2>6. lapsed' = lapsed
    BY <1>12, NoLapse DEF IInv, Enqueue
  <2> QED  BY <1>2, <1>12, <2>5, <2>6 DEF Enqueue
<1>13. ASSUME NEW b \in Batches, BatchEnds(b)
       PROVE  Contract!Next
  <2>1. lapsed' = lapsed
    BY <1>13, NoLapse DEF IInv, BatchEnds
  <2> QED  BY <1>7, <1>13, <2>1 DEF BatchEnds
<1>14. ASSUME NEW b \in Batches, TimePasses(b)
       PROVE  Contract!Next \/ UNCHANGED cvars
  <2>1. UNCHANGED <<ready, delayed, active, row>>
    BY <1>14 DEF TimePasses, GoesStale, LockExpires, InflightExpires
  <2>2. CASE Fault("lockExpires")
    <3>1. lapsed' = TRUE
      BY <2>2, FaultFacts DEF IInv, Saw
    <3>2. queued' = queued
      BY <2>1 DEF InQueue, InReady
    <3> QED  BY <2>1, <3>1, <3>2 DEF Contract!Next, Contract!Lapse
  <2>3. CASE ~Fault("lockExpires")
    <3>1. lapsed' = lapsed
      BY <1>14, <2>3, NoLapse
         DEF IInv, TimePasses, GoesStale, LockExpires, InflightExpires
    <3> QED  BY <1>3, <2>1, <3>1
  <2> QED  BY <2>2, <2>3
<1>15. CASE MoveDueDelayedToReady
  <2>0. PICK due \in SUBSET delayed : \E s \in Arrangements(due) :
          /\ delayed' = delayed \ due
          /\ ready' = ready \o s
          /\ UNCHANGED <<active, row, faults>>
    BY <1>15 DEF MoveDueDelayedToReady
  <2>1. PICK s \in Arrangements(due) :
          /\ delayed' = delayed \ due
          /\ ready' = ready \o s
          /\ UNCHANGED <<active, row, faults>>
    BY <2>0
  <2>2. due \in SUBSET Batches
    BY DEF IInv, TypeOK
  <2>3. \A c \in Batches : InReady(c)' <=> InReady(c) \/ c \in due
    BY <2>1, <2>2, ArrangedGrows DEF IInv
  <2>4. \A c \in Batches : InQueue(c)' <=> InQueue(c)
    BY <2>1, <2>3 DEF InQueue
  <2>5. lapsed' = lapsed
    BY <2>1, NoLapse DEF IInv
  <2> QED  BY <1>1, <2>1, <2>4, <2>5
<1>16. CASE RecoverStaleActive
  <2>1. PICK s \in Arrangements(stale) :
          /\ active' = active \ stale
          /\ ready' = ready \o s
          /\ UNCHANGED <<delayed, row, faults>>
    BY <1>16 DEF RecoverStaleActive
  <2>2. stale \in SUBSET Batches /\ stale \subseteq active
    BY DEF IInv, TypeOK
  <2>3. \A c \in Batches : InReady(c)' <=> InReady(c) \/ c \in stale
    BY <2>1, <2>2, ArrangedGrows DEF IInv
  <2>4. \A c \in Batches : InQueue(c)' <=> InQueue(c)
    BY <2>1, <2>2, <2>3 DEF InQueue
  <2>5. lapsed' = lapsed
    BY <2>1, NoLapse DEF IInv
  <2> QED  BY <1>1, <2>1, <2>4, <2>5
<1>17. CASE UNCHANGED vars
  <2>1. lapsed' = lapsed
    BY <1>17, NoLapse DEF IInv, vars
  <2> QED  BY <1>3, <1>17, <2>1 DEF vars
<1> QED  BY <1>11, <1>12, <1>13, <1>14, <1>15, <1>16, <1>17 DEF Next

\* Every state that the queue's scripts, the workers and time reach satisfies
\* the inductive invariant.
THEOREM Invariance == Spec => []IInv
  BY InitHolds, StepHolds, PTL DEF Spec

\* The structures in Redis and the workers keep their types: a worker past
\* Reserve always has a batch, and a stale batch is an active one.
THEOREM TypeCorrect == Spec => []TypeOK
<1>1. IInv => TypeOK
  BY DEF IInv
<1> QED  BY <1>1, Invariance, PTL

\* No crash, failed call or late Ack or requeue loses a batch that its
\* inflight key keeps from being enqueued again.
THEOREM QueuedKept == Spec => []InflightIsQueued
<1>1. IInv => InflightIsQueued
  BY DEF IInv
<1> QED  BY <1>1, Invariance, PTL

\* Reserve, RequeueAfter, Ack and the two loops keep a batch in one place,
\* with its inflight key, unless heartbeats or the key itself ran out.
THEOREM OnlyOnePlace == Spec => []OnePlace
<1>1. IInv => OnePlace
  BY DEF IInv
<1> QED  BY <1>1, Invariance, PTL

\* The job lock keeps two workers from processing one batch, however often it
\* is recovered, unless the lock expired under a worker.
THEOREM OnlyOneProcessor == Spec => []OneProcessor
<1>1. IInv => OneProcessor
  BY DEF IInv, Locked, OneProcessor, Saw
<1> QED  BY <1>1, Invariance, PTL

\* Whatever fails, Ack takes a batch out of the queue only once its work is
\* over, or settling after a worker outlived its job lock: the queue
\* implements BatchImageQueueContract.
THEOREM KeepsQueueContract == Spec => KeepsContract
<1>1. Init => Contract!Init
  BY DEF Init, Contract!Init, InQueue, InReady, Saw
<1>2. IInv /\ [Next]_vars =>
        [Contract!Next]_<<{b \in Batches : InQueue(b)}, row,
                          Saw({"lockExpires"})>>
  BY StepKeepsContract
<1> QED  BY <1>1, <1>2, Invariance, PTL DEF Spec, KeepsContract, Contract!Spec

=============================================================================
