----------------------- MODULE ConcurrencySlotsProofs -----------------------
(***************************************************************************)
(* What ConcurrencySlots keeps for any requests, processes and limits:     *)
(* types, the limit, and the bound on waiting requests.  A request is      *)
(* admitted by counting members of Redis sets; the inductive invariant     *)
(* links the members to the requests they stand for, as long as nothing    *)
(* removes a member under its holder.                                      *)
(***************************************************************************)
EXTENDS ConcurrencySlots, FiniteSetTheorems, TLAPS

\* Nothing has removed the member of a living holder.
MembersStay == ~Saw({"slotExpires", "leaseExpires", "peerStarts"})

\* What a request believes to hold is in Redis, and not about to go.
HeldIsThere ==
    MembersStay =>
        \A r \in Requests :
            /\ call[r].slot # None => call[r].slot \in FreshSlots
            /\ call[r].lease # None => call[r].lease \in FreshLive

\* No two requests hold the same id.
HeldOnce ==
    \A r, s \in Requests :
        r # s => /\ call[r].slot # None => call[r].slot # call[s].slot
                 /\ call[r].lease # None => call[r].lease # call[s].lease

\* A request works on a slot.
WorkerHolds ==
    \A r \in Requests : call[r].pc \in {"touch", "working"} => call[r].slot # None

Holders == {r \in Requests : call[r].slot # None \/ call[r].lease # None}

\* Whoever is about to decrement the count was counted.
LeaverIsCounted ==
    \A r \in Requests :
        call[r].pc = "unwait" => call[r].counted

Counted == {r \in Requests : call[r].counted}

\* Nothing has made the count smaller than the requests it counts.
CountStays == ~Saw({"redisFails", "replyLost", "waitExpires", "peerStarts"})

CountCovers == CountStays => Cardinality(Counted) <= wait

LimitInv == HeldIsThere /\ HeldOnce /\ LimitHolds
WaitInv == LeaverIsCounted /\ CountCovers
IInv == TypeOK /\ WorkerHolds /\ LimitInv /\ WaitInv

FaultStates == [count : 0..MaxFaults,
                kinds : SUBSET (Perils \cup {"peerStarts"})]

USE SlotsAssumption

-----------------------------------------------------------------------------
(* Ids, faults and counting.                                               *)

\* generateRequestID: the chosen id is free.
LEMMA NewIdIsUnused ==
    ASSUME Unused # {}
    PROVE  /\ NewId \in Unused
           /\ NewId \in Ids \ (slots \cup live)
           /\ NewId # None
           /\ \A r \in Requests : call[r].slot # NewId /\ call[r].lease # NewId
  <1>1. NewId \in Unused
    BY DEF NewId
  <1> QED BY <1>1 DEF Unused

LEMMA FaultFacts ==
    ASSUME faults \in FaultStates, NEW kind, Fault(kind)
    PROVE  faults' \in FaultStates /\ faults'.kinds = faults.kinds \cup {kind}
  BY DEF Fault, FaultStates

LEMMA RemoveFacts ==
    ASSUME faults \in FaultStates, NEW inUse \in BOOLEAN, Remove(inUse)
    PROVE  /\ faults' \in FaultStates
           /\ faults.kinds \subseteq faults'.kinds
           /\ inUse => "peerStarts" \in faults'.kinds
  BY DEF Remove, FaultStates

LEMMA OneMore ==
    ASSUME NEW S, NEW x, IsFiniteSet(S)
    PROVE  /\ Cardinality(S) \in Nat /\ Cardinality(S \cup {x}) \in Nat
           /\ Cardinality(S \cup {x}) <= Cardinality(S) + 1
  <1>1. Cardinality(S) \in Nat /\ Cardinality(S \cup {x}) \in Nat
    BY FS_AddElement, FS_CardinalityType
  <1>2. Cardinality(S \cup {x}) \in {Cardinality(S), Cardinality(S) + 1}
    BY FS_AddElement
  <1> QED BY <1>1, <1>2

\* As long as members stay, there are at least as many of them as holders.
LEMMA HoldersAreMembers ==
    ASSUME TypeOK, HeldIsThere, HeldOnce, MembersStay
    PROVE  /\ IsFiniteSet(Holders)
           /\ Cardinality(Holders)
                <= Cardinality(FreshSlots) + Cardinality(FreshLive)
           /\ Cardinality(Holders) \in Nat
           /\ Cardinality(FreshSlots) \in Nat
           /\ Cardinality(FreshLive) \in Nat
  <1> DEFINE S == {r \in Requests : call[r].slot # None}
             L == {r \in Requests : call[r].lease # None}
             f == [r \in S |-> call[r].slot]
             g == [r \in L |-> call[r].lease]
  <1>1. IsFiniteSet(FreshSlots) /\ IsFiniteSet(FreshLive)
    <2>1. FreshSlots \in SUBSET Ids /\ FreshLive \in SUBSET Ids
      BY DEF TypeOK, FreshSlots, FreshLive, Trimmed
    <2> QED BY <2>1, FS_Subset
  <1>2. f \in Injection(S, FreshSlots)
    BY DEF HeldIsThere, HeldOnce, Injection, IsInjective
  <1>3. g \in Injection(L, FreshLive)
    BY DEF HeldIsThere, HeldOnce, Injection, IsInjective
  <1>4. IsFiniteSet(S) /\ Cardinality(S) <= Cardinality(FreshSlots)
    BY <1>1, <1>2, FS_Injection
  <1>5. IsFiniteSet(L) /\ Cardinality(L) <= Cardinality(FreshLive)
    BY <1>1, <1>3, FS_Injection
  <1>6. IsFiniteSet(S \cap L) /\ Cardinality(S \cap L) \in Nat
    BY <1>4, FS_Subset, FS_CardinalityType
  <1>7. Holders = S \cup L
    BY DEF Holders
  <1>8. /\ IsFiniteSet(Holders)
        /\ Cardinality(Holders) =
             Cardinality(S) + Cardinality(L) - Cardinality(S \cap L)
    BY <1>4, <1>5, <1>7, FS_Union
  <1>9. /\ Cardinality(Holders) \in Nat
        /\ Cardinality(FreshSlots) \in Nat /\ Cardinality(FreshLive) \in Nat
        /\ Cardinality(S) \in Nat /\ Cardinality(L) \in Nat
    BY <1>1, <1>4, <1>5, <1>8, FS_CardinalityType
  <1> HIDE DEF S, L, f, g
  <1> QED BY <1>4, <1>5, <1>6, <1>8, <1>9

\* A step in which nobody comes to hold anything keeps the limit, if it leaves
\* the members of the holders alone.
LEMMA LimitKept ==
    ASSUME TypeOK, LimitInv, faults.kinds \subseteq faults'.kinds,
           \A r \in Requests :
              /\ call'[r].slot \in {call[r].slot, None}
              /\ call'[r].lease \in {call[r].lease, None},
           MembersStay' =>
              \A r \in Requests :
                 /\ call'[r].slot # None /\ call'[r].slot \in FreshSlots
                      => call'[r].slot \in FreshSlots'
                 /\ call'[r].lease # None /\ call'[r].lease \in FreshLive
                      => call'[r].lease \in FreshLive'
    PROVE  LimitInv'
  <1>1. MembersStay' => MembersStay
    BY DEF MembersStay, Saw
  <1>2. HeldIsThere'
    BY <1>1 DEF LimitInv, HeldIsThere
  <1>3. HeldOnce'
    BY DEF LimitInv, HeldOnce
  <1>4. LimitHolds'
    <2> SUFFICES ASSUME MembersStay' PROVE Cardinality(Holders') <= Max
      BY DEF LimitHolds, MembersStay, Holders
    <2>1. Cardinality(Holders) <= Max
      BY <1>1 DEF LimitInv, LimitHolds, MembersStay, Holders
    <2>2. Holders' \in SUBSET Holders
      BY DEF Holders
    <2>3. IsFiniteSet(Holders) /\ Cardinality(Holders) \in Nat
      BY <1>1, HoldersAreMembers DEF LimitInv
    <2>4. /\ Cardinality(Holders') <= Cardinality(Holders)
          /\ Cardinality(Holders') \in Nat
      BY <2>2, <2>3, FS_Subset, FS_CardinalityType
    <2> QED BY <2>1, <2>3, <2>4
  <1> QED BY <1>2, <1>3, <1>4 DEF LimitInv

\* A step that counts nobody and leaves the count alone keeps the bound.
LEMMA WaitKept ==
    ASSUME TypeOK, WaitInv, faults.kinds \subseteq faults'.kinds,
           \A r \in Requests :
              /\ call'[r].counted => call[r].counted
              /\ call'[r].pc = "unwait"
                   => call'[r].counted,
           CountStays' => wait' = wait
    PROVE  WaitInv'
  <1>1. CountStays' => CountStays
    BY DEF CountStays, Saw
  <1>2. IsFiniteSet(Counted) /\ Cardinality(Counted) \in Nat
    BY FS_Subset, FS_CardinalityType DEF Counted
  <1>3. Counted' \in SUBSET Counted
    BY DEF Counted
  <1>4. /\ Cardinality(Counted') <= Cardinality(Counted)
        /\ Cardinality(Counted') \in Nat
    BY <1>2, <1>3, FS_Subset, FS_CardinalityType
  <1>5. CountCovers'
    BY <1>1, <1>2, <1>4 DEF WaitInv, CountCovers, TypeOK
  <1> QED BY <1>5 DEF WaitInv, LeaverIsCounted

-----------------------------------------------------------------------------
(* Requests.                                                               *)

LEMMA AcquireSlotKeeps ==
    ASSUME IInv, NEW r \in Requests, AcquireSlot(r)
    PROVE  IInv'
  <1> USE DEF IInv
  <1>1. /\ NewId \in Ids \ (slots \cup live) /\ NewId # None
        /\ \A s \in Requests : call[s].slot # NewId /\ call[s].lease # NewId
    BY NewIdIsUnused DEF AcquireSlot
  <1>2. faults \in FaultStates /\ call \in [Requests -> Calls]
    BY DEF TypeOK, FaultStates
  <1>3. CASE /\ Room
             /\ SetSlots(FreshSlots \cup {NewId}) /\ SetLive(FreshLive)
             /\ call' = [call EXCEPT ![r].pc = "touch", ![r].slot = NewId]
             /\ UNCHANGED <<faults, wait, index, proc>>
    <2>1. FreshSlots' = FreshSlots \cup {NewId} /\ FreshLive' = FreshLive
      BY <1>1, <1>3 DEF TypeOK, SetSlots, SetLive, FreshSlots, FreshLive, Trimmed
    <2>2. /\ call' \in [Requests -> Calls]
          /\ call'[r].slot = NewId /\ call'[r].lease = call[r].lease
          /\ call'[r].pc = "touch" /\ call'[r].counted = call[r].counted
          /\ \A s \in Requests \ {r} : call'[s] = call[s]
      BY <1>1, <1>2, <1>3 DEF Calls, CallPcs
    <2>3. TypeOK'
      BY <1>1, <1>3, <2>2 DEF TypeOK, SetSlots, SetLive, FreshSlots, FreshLive, Trimmed
    <2>4. MembersStay' = MembersStay
      BY <1>3 DEF MembersStay, Saw
    <2>5. HeldIsThere'
      BY <2>1, <2>2, <2>4 DEF LimitInv, HeldIsThere
    <2>6. HeldOnce'
      BY <1>1, <2>2 DEF LimitInv, HeldOnce
    <2>7. LimitHolds'
      <3> SUFFICES ASSUME MembersStay PROVE Cardinality(Holders') <= Max
        BY <2>4 DEF LimitHolds, MembersStay, Holders
      <3>1. Holders' = Holders \cup {r}
        BY <1>1, <2>2 DEF Holders
      <3>2. /\ IsFiniteSet(Holders) /\ Cardinality(Holders) \in Nat
            /\ Cardinality(Holders) < Max
        BY <1>3, HoldersAreMembers DEF LimitInv, Room
      <3>3. /\ Cardinality(Holders') \in Nat
            /\ Cardinality(Holders') <= Cardinality(Holders) + 1
        BY <3>1, <3>2, OneMore
      <3> QED BY <3>2, <3>3
    <2>8. WaitInv'
      BY <1>3, <2>2, WaitKept DEF WaitInv, LeaverIsCounted
    <2>9. WorkerHolds'
      BY <1>1, <2>2 DEF WorkerHolds
    <2> QED BY <2>3, <2>5, <2>6, <2>7, <2>8, <2>9 DEF LimitInv
  <1>4. ASSUME NEW pc \in {"idle", "enqueue", "waiting", "unwait"},
               Goto(r, pc),
               pc = "unwait" => call[r].counted,
               faults' \in FaultStates, faults.kinds \subseteq faults'.kinds,
               \/ SetSlots(FreshSlots \cup {NewId}) /\ SetLive(FreshLive)
               \/ SetSlots(FreshSlots) /\ SetLive(FreshLive)
               \/ UNCHANGED <<slots, oldSlots, live, oldLive>>,
               UNCHANGED <<wait, index, proc>>
        PROVE  IInv'
    <2>1. FreshSlots \subseteq FreshSlots' /\ FreshLive' = FreshLive
      BY <1>1, <1>4 DEF TypeOK, SetSlots, SetLive, FreshSlots, FreshLive, Trimmed
    <2>2. /\ call' \in [Requests -> Calls]
          /\ call'[r].slot = call[r].slot /\ call'[r].lease = call[r].lease
          /\ call'[r].pc = pc /\ call'[r].counted = call[r].counted
          /\ \A s \in Requests \ {r} : call'[s] = call[s]
      BY <1>2, <1>4 DEF Calls, CallPcs, Goto
    <2>3. TypeOK'
      BY <1>1, <1>4, <2>2
         DEF TypeOK, FaultStates, SetSlots, SetLive, FreshSlots, FreshLive, Trimmed
    <2>4. LimitInv'
      <3>1. \A s \in Requests :
              call'[s].slot = call[s].slot /\ call'[s].lease = call[s].lease
        BY <2>2
      <3> QED BY <1>4, <2>1, <3>1, LimitKept
    <2>5. WaitInv'
      BY <1>4, <2>2, WaitKept DEF WaitInv, LeaverIsCounted
    <2>6. WorkerHolds'
      BY <2>2 DEF WorkerHolds
    <2> QED BY <2>3, <2>4, <2>5, <2>6
  <1>5. ASSUME NEW kind, Fault(kind) PROVE faults' \in FaultStates /\ faults.kinds \subseteq faults'.kinds
    BY <1>2, <1>5, FaultFacts
  <1>6. /\ Unqueued(call[r]) \in {"idle", "unwait"}
        /\ Unqueued(call[r]) = "unwait" => call[r].counted
    BY DEF Unqueued
  <1> QED BY <1>2, <1>3, <1>4, <1>5, <1>6 DEF AcquireSlot

\* A step of a request that comes to hold nothing and to be counted nowhere,
\* and removes at most what it no longer holds.
LEMMA RequestStep ==
    ASSUME IInv, TypeOK', NEW r \in Requests,
           \A s \in Requests \ {r} : call'[s] = call[s],
           call'[r].slot \in {call[r].slot, None},
           call'[r].lease \in {call[r].lease, None},
           call'[r].pc \in {"touch", "working"} => call'[r].slot # None,
           faults.kinds \subseteq faults'.kinds,
           \/ FreshSlots' = FreshSlots
           \/ FreshSlots' = FreshSlots \ {call[r].slot} /\ call'[r].slot = None,
           \/ FreshLive' = FreshLive
           \/ FreshLive' = FreshLive \ {call[r].lease} /\ call'[r].lease = None
    PROVE  /\ WorkerHolds' /\ LimitInv'
           /\ /\ call'[r].counted => call[r].counted
              /\ call'[r].pc = "unwait"
                   => call'[r].counted
              /\ wait' = wait
              => IInv'
  <1>1. LimitInv /\ HeldOnce
    BY DEF IInv, LimitInv
  <1>2. \A s \in Requests : /\ call'[s].slot \in {call[s].slot, None}
                            /\ call'[s].lease \in {call[s].lease, None}
    OBVIOUS
  <1>3. \A s \in Requests :
           /\ call'[s].slot # None /\ call'[s].slot \in FreshSlots
                => call'[s].slot \in FreshSlots'
           /\ call'[s].lease # None /\ call'[s].lease \in FreshLive
                => call'[s].lease \in FreshLive'
    BY <1>1 DEF HeldOnce
  <1>4. LimitInv'
    BY <1>1, <1>2, <1>3, LimitKept DEF IInv
  <1>5. ASSUME call'[r].counted => call[r].counted,
               call'[r].pc = "unwait"
                 => call'[r].counted,
               wait' = wait
        PROVE  WaitInv'
    <2>1. \A s \in Requests :
             /\ call'[s].counted => call[s].counted
             /\ call'[s].pc = "unwait"
                  => call'[s].counted
      BY <1>5 DEF IInv, WaitInv, LeaverIsCounted
    <2> QED BY <1>5, <2>1, WaitKept DEF IInv
  <1>6. WorkerHolds'
    BY DEF IInv, WorkerHolds
  <1> QED BY <1>4, <1>5, <1>6 DEF IInv

LEMMA Faulty ==
    ASSUME IInv, \/ UNCHANGED faults \/ \E kind \in Perils : Fault(kind)
    PROVE  faults' \in FaultStates /\ faults.kinds \subseteq faults'.kinds
  <1>1. faults \in FaultStates
    BY DEF IInv, TypeOK, FaultStates
  <1> QED BY <1>1, FaultFacts

LEMMA AfterPc ==
    ASSUME NEW c PROVE After(c) \in {"working", "session", "draining", "idle"}
  BY DEF After

LEMMA AfterWorks ==
    ASSUME NEW c, After(c) = "working" PROVE c.slot # None
  BY DEF After

LEMMA TouchKeeps ==
    ASSUME IInv, NEW r \in Requests, TouchActiveIndex(r)
    PROVE  IInv'
  <1>1. faults' \in FaultStates /\ faults.kinds \subseteq faults'.kinds
    BY Faulty DEF TouchActiveIndex, Fault
  <1>2. call \in [Requests -> Calls] /\ LeaverIsCounted /\ WorkerHolds
    BY DEF IInv, TypeOK, WaitInv
  <1>3. /\ call' \in [Requests -> Calls]
        /\ \A s \in Requests \ {r} : call'[s] = call[s]
        /\ call'[r].slot = call[r].slot /\ call'[r].lease = call[r].lease
        /\ call'[r].counted = call[r].counted
        /\ call'[r].pc = "unwait" => call[r].counted
        /\ call'[r].pc \in {"touch", "working"} => call[r].slot # None
    BY <1>2 DEF TouchActiveIndex, Goto, Calls, CallPcs, LeaverIsCounted, WorkerHolds
  <1>4. TypeOK'
    BY <1>1, <1>3 DEF IInv, TypeOK, FaultStates, TouchActiveIndex
  <1>5. UNCHANGED <<FreshSlots, FreshLive, wait>>
    BY DEF TouchActiveIndex, FreshSlots, FreshLive, Trimmed
  <1> QED BY <1>1, <1>3, <1>4, <1>5, RequestStep

LEMMA StopWaitingKeeps ==
    ASSUME IInv, NEW r \in Requests, StopWaiting(r)
    PROVE  IInv'
  <1>1. call \in [Requests -> Calls] /\ LeaverIsCounted
    BY DEF IInv, TypeOK, WaitInv
  <1>2. /\ call' \in [Requests -> Calls]
        /\ \A s \in Requests \ {r} : call'[s] = call[s]
        /\ call'[r].slot = call[r].slot /\ call'[r].lease = call[r].lease
        /\ call'[r].counted = call[r].counted
        /\ call'[r].pc \in {"unwait", "idle"}
        /\ call'[r].pc = "unwait" => call[r].counted
    BY <1>1 DEF StopWaiting, Goto, Unqueued, Calls, CallPcs
  <1>3. TypeOK'
    BY <1>2 DEF IInv, TypeOK, StopWaiting
  <1>4. UNCHANGED <<FreshSlots, FreshLive, wait, faults>>
    BY DEF StopWaiting, FreshSlots, FreshLive, Trimmed
  <1> QED BY <1>2, <1>3, <1>4, RequestStep

\* Neither a client that leaves nor its stream that ends moves a slot.
LEMMA LeavingKeeps ==
    ASSUME IInv, NEW r \in Requests, ClientLeaves(r) \/ StreamEnds(r)
    PROVE  IInv'
  <1>1. call \in [Requests -> Calls] /\ LeaverIsCounted /\ WorkerHolds
    BY DEF IInv, TypeOK, WaitInv
  <1>2. PICK pc \in CallPcs, b \in BOOLEAN :
          /\ call' = [call EXCEPT ![r].pc = pc, ![r].left = b]
          /\ pc \in {"release", "idle", call[r].pc}
    <2>1. CASE ClientLeaves(r)
      BY <2>1 DEF ClientLeaves, CallPcs
    <2>2. CASE StreamEnds(r)
      <3>1. (IF call[r].pc = "draining" THEN "idle" ELSE call[r].pc)
              \in CallPcs \cap {"idle", call[r].pc}
        BY <1>1 DEF Calls, CallPcs
      <3> QED BY <1>1, <2>2, <3>1 DEF StreamEnds
    <2> QED BY <2>1, <2>2
  <1>3. /\ call' \in [Requests -> Calls]
        /\ \A s \in Requests \ {r} : call'[s] = call[s]
        /\ call'[r].slot = call[r].slot /\ call'[r].lease = call[r].lease
        /\ call'[r].counted = call[r].counted
        /\ call'[r].pc = pc
    BY <1>1, <1>2 DEF Calls
  <1>4. /\ pc = "unwait" => call[r].counted
        /\ pc \in {"touch", "working"} => call[r].slot # None
    BY <1>1, <1>2 DEF LeaverIsCounted, WorkerHolds
  <1>5. TypeOK'
    BY <1>3 DEF IInv, TypeOK, ClientLeaves, StreamEnds
  <1>6. UNCHANGED <<FreshSlots, FreshLive, wait, faults>>
    BY DEF ClientLeaves, StreamEnds, FreshSlots, FreshLive, Trimmed
  <1> QED BY <1>3, <1>4, <1>5, <1>6, RequestStep

LEMMA ReleaseSlotKeeps ==
    ASSUME IInv, NEW r \in Requests, ReleaseSlot(r)
    PROVE  IInv'
  <1>1. faults' \in FaultStates /\ faults.kinds \subseteq faults'.kinds
    BY Faulty DEF ReleaseSlot, Fault
  <1>2. call \in [Requests -> Calls]
    BY DEF IInv, TypeOK
  <1>3. /\ call' \in [Requests -> Calls]
        /\ \A s \in Requests \ {r} : call'[s] = call[s]
        /\ call'[r].slot = None /\ call'[r].lease = call[r].lease
        /\ call'[r].counted = call[r].counted
        /\ call'[r].pc \in {"readLoad", "session", "draining", "idle"}
    <2>0. After([call[r] EXCEPT !.slot = None]) \in {"session", "draining", "idle"}
      BY <1>2 DEF After, Calls
    <2>1. PICK pc \in {"readLoad", "session", "draining", "idle"} :
            call' = [call EXCEPT ![r] =
                       [[call[r] EXCEPT !.slot = None] EXCEPT !.pc = pc]]
      BY <2>0 DEF ReleaseSlot
    <2>2. /\ call' \in [Requests -> Calls]
          /\ call'[r] = [[call[r] EXCEPT !.slot = None] EXCEPT !.pc = pc]
      BY <1>2, <2>1 DEF Calls, CallPcs
    <2> QED BY <1>2, <2>1, <2>2 DEF Calls
  <1>4. TypeOK'
    BY <1>1, <1>3 DEF IInv, TypeOK, FaultStates, ReleaseSlot, SetSlots
  <1>5. /\ FreshSlots' = FreshSlots \/ FreshSlots' = FreshSlots \ {call[r].slot}
        /\ UNCHANGED <<FreshLive, wait>>
    BY DEF ReleaseSlot, SetSlots, FreshSlots, FreshLive, Trimmed
  <1> QED BY <1>1, <1>3, <1>4, <1>5, RequestStep

LEMMA ReadLoadKeeps ==
    ASSUME IInv, NEW r \in Requests, ReadActiveLoad(r)
    PROVE  IInv'
  <1>1. faults' \in FaultStates /\ faults.kinds \subseteq faults'.kinds
    BY Faulty DEF ReadActiveLoad, Fault
  <1>2. call \in [Requests -> Calls]
    BY DEF IInv, TypeOK
  <1>3. /\ call' \in [Requests -> Calls]
        /\ \A s \in Requests \ {r} : call'[s] = call[s]
        /\ call'[r].slot = call[r].slot /\ call'[r].lease = call[r].lease
        /\ call'[r].counted = call[r].counted
        /\ call'[r].pc \in {"writeIndex", "working", "session", "draining", "idle"}
        /\ call'[r].pc = "working" => call[r].slot # None
    <2>1. PICK pc \in {"writeIndex", "working", "session", "draining", "idle"},
               b \in BOOLEAN :
            /\ call' = [call EXCEPT ![r].pc = pc, ![r].loaded = b]
            /\ pc = "working" => call[r].slot # None
      <3>1. CASE ~Goto(r, After(call[r]))
        BY <3>1 DEF ReadActiveLoad
      <3>2. CASE Goto(r, After(call[r]))
        <4>1. call' = [call EXCEPT ![r].pc = After(call[r]),
                                   ![r].loaded = call[r].loaded]
          BY <1>2, <3>2 DEF Goto, Calls
        <4> QED BY <1>2, <4>1, AfterPc, AfterWorks DEF Calls
      <3> QED BY <3>1, <3>2
    <2> QED BY <1>2, <2>1 DEF Calls, CallPcs
  <1>4. TypeOK'
    BY <1>1, <1>3
       DEF IInv, TypeOK, FaultStates, ReadActiveLoad, SetSlots, FreshSlots, Trimmed
  <1>5. UNCHANGED <<FreshSlots, FreshLive, wait>>
    BY DEF IInv, TypeOK, ReadActiveLoad, SetSlots, FreshSlots, FreshLive, Trimmed
  <1> QED BY <1>1, <1>3, <1>4, <1>5, RequestStep

LEMMA RefreshIndexKeeps ==
    ASSUME IInv, NEW r \in Requests, RefreshActiveIndex(r)
    PROVE  IInv'
  <1>1. faults' \in FaultStates /\ faults.kinds \subseteq faults'.kinds
    BY Faulty DEF RefreshActiveIndex, Fault
  <1>2. call \in [Requests -> Calls]
    BY DEF IInv, TypeOK
  <1>3. /\ call' \in [Requests -> Calls]
        /\ \A s \in Requests \ {r} : call'[s] = call[s]
        /\ call'[r].slot = call[r].slot /\ call'[r].lease = call[r].lease
        /\ call'[r].counted = call[r].counted
        /\ call'[r].pc \in {"working", "session", "draining", "idle"}
        /\ call'[r].pc = "working" => call[r].slot # None
    <2>1. PICK pc \in {"working", "session", "draining", "idle"} :
            /\ call' = [call EXCEPT ![r].pc = pc, ![r].loaded = FALSE]
            /\ pc = "working" => call[r].slot # None
      BY AfterPc, AfterWorks DEF RefreshActiveIndex
    <2> QED BY <1>2, <2>1 DEF Calls, CallPcs
  <1>4. TypeOK'
    BY <1>1, <1>3 DEF IInv, TypeOK, FaultStates, RefreshActiveIndex
  <1>5. UNCHANGED <<FreshSlots, FreshLive, wait>>
    BY DEF RefreshActiveIndex, FreshSlots, FreshLive, Trimmed
  <1> QED BY <1>1, <1>3, <1>4, <1>5, RequestStep

\* Nobody's slot is touched; the lease of the request, if it gets one, is of
\* a request that held a slot already.
LEMMA AcquireLeaseKeeps ==
    ASSUME IInv, NEW r \in Requests, AcquireLiveLease(r)
    PROVE  IInv'
  <1>1. /\ NewId \in Ids \ (slots \cup live) /\ NewId # None
        /\ \A s \in Requests : call[s].slot # NewId /\ call[s].lease # NewId
    BY NewIdIsUnused DEF AcquireLiveLease
  <1>2. call \in [Requests -> Calls]
    BY DEF IInv, TypeOK
  <1>3. faults' \in FaultStates /\ faults.kinds \subseteq faults'.kinds
    BY Faulty DEF AcquireLiveLease, Fault
  <1>4. ASSUME Goto(r, "release"),
               \/ SetLive(FreshLive \cup {NewId})
               \/ SetLive(FreshLive)
               \/ UNCHANGED <<live, oldLive>>
        PROVE  IInv'
    <2>1. /\ call' \in [Requests -> Calls]
          /\ \A s \in Requests \ {r} : call'[s] = call[s]
          /\ call'[r].slot = call[r].slot /\ call'[r].lease = call[r].lease
          /\ call'[r].counted = call[r].counted /\ call'[r].pc = "release"
      BY <1>2, <1>4 DEF Goto, Calls, CallPcs
    <2>2. UNCHANGED FreshSlots /\ FreshLive \subseteq FreshLive'
      BY <1>1, <1>4 DEF IInv, TypeOK, AcquireLiveLease, SetLive, FreshSlots,
                        FreshLive, Trimmed
    <2>3. TypeOK'
      BY <1>1, <1>3, <1>4, <2>1
         DEF IInv, TypeOK, FaultStates, AcquireLiveLease, SetLive, FreshLive, Trimmed
    <2>4. LimitInv'
      <3>1. \A s \in Requests :
              call'[s].slot = call[s].slot /\ call'[s].lease = call[s].lease
        BY <2>1
      <3> QED BY <1>3, <2>2, <3>1, LimitKept DEF IInv
    <2>5. WaitInv'
      <3>1. wait' = wait
        BY DEF AcquireLiveLease
      <3> QED BY <1>3, <2>1, <3>1, WaitKept DEF IInv, WaitInv, LeaverIsCounted
    <2>6. WorkerHolds'
      BY <2>1 DEF IInv, WorkerHolds
    <2> QED BY <2>3, <2>4, <2>5, <2>6 DEF IInv
  <1>5. CASE /\ SetLive(FreshLive \cup {NewId})
             /\ call' = [call EXCEPT ![r].pc = "release", ![r].lease = NewId]
             /\ UNCHANGED faults
    <2>1. /\ call' \in [Requests -> Calls]
          /\ \A s \in Requests \ {r} : call'[s] = call[s]
          /\ call'[r].slot = call[r].slot /\ call'[r].lease = NewId
          /\ call'[r].counted = call[r].counted /\ call'[r].pc = "release"
      BY <1>1, <1>2, <1>5 DEF Calls, CallPcs
    <2>2. UNCHANGED FreshSlots /\ FreshLive' = FreshLive \cup {NewId}
      BY <1>1, <1>5 DEF IInv, TypeOK, AcquireLiveLease, SetLive, FreshSlots,
                        FreshLive, Trimmed
    <2>3. TypeOK'
      BY <1>1, <1>5, <2>1
         DEF IInv, TypeOK, AcquireLiveLease, SetLive, FreshLive, Trimmed
    <2>4. MembersStay' = MembersStay
      BY <1>5 DEF MembersStay, Saw
    <2>5. HeldIsThere'
      BY <2>1, <2>2, <2>4 DEF IInv, LimitInv, HeldIsThere
    <2>6. HeldOnce'
      BY <1>1, <2>1 DEF IInv, LimitInv, HeldOnce
    <2>7. LimitHolds'
      <3>1. call[r].slot # None
        BY DEF IInv, WorkerHolds, AcquireLiveLease
      <3>2. Holders' = Holders
        BY <2>1, <3>1 DEF Holders
      <3> QED BY <2>4, <3>2 DEF IInv, LimitInv, LimitHolds, MembersStay, Holders
    <2>8. WaitInv'
      <3>1. wait' = wait
        BY DEF AcquireLiveLease
      <3> QED BY <1>3, <2>1, <3>1, WaitKept DEF IInv, WaitInv, LeaverIsCounted
    <2>9. WorkerHolds'
      BY <2>1 DEF IInv, WorkerHolds
    <2> QED BY <2>3, <2>5, <2>6, <2>7, <2>8, <2>9 DEF IInv, LimitInv
  <1> QED BY <1>4, <1>5 DEF AcquireLiveLease

LEMMA RefreshLeaseKeeps ==
    ASSUME IInv, NEW r \in Requests, RefreshLiveLease(r)
    PROVE  IInv'
  <1>1. faults' \in FaultStates /\ faults.kinds \subseteq faults'.kinds
    BY Faulty DEF RefreshLiveLease, Fault
  <1>2. call \in [Requests -> Calls]
    BY DEF IInv, TypeOK
  <1>3. PICK pc \in {"session", "releaseLease"} : Goto(r, pc)
    BY DEF RefreshLiveLease
  <1>4. /\ call' \in [Requests -> Calls]
        /\ \A s \in Requests \ {r} : call'[s] = call[s]
        /\ call'[r].slot = call[r].slot /\ call'[r].lease = call[r].lease
        /\ call'[r].counted = call[r].counted
        /\ call'[r].pc \in {"session", "releaseLease"}
    BY <1>2, <1>3 DEF Goto, Calls, CallPcs
  <1>5. TypeOK'
    BY <1>1, <1>4
       DEF IInv, TypeOK, FaultStates, RefreshLiveLease, SetLive, FreshLive, Trimmed
  <1>6. UNCHANGED <<FreshSlots, FreshLive, wait>>
    BY DEF IInv, TypeOK, RefreshLiveLease, SetLive, FreshSlots, FreshLive, Trimmed
  <1> QED BY <1>1, <1>4, <1>5, <1>6, RequestStep

LEMMA ReleaseLeaseKeeps ==
    ASSUME IInv, NEW r \in Requests, ReleaseLiveLease(r)
    PROVE  IInv'
  <1>1. faults' \in FaultStates /\ faults.kinds \subseteq faults'.kinds
    BY Faulty DEF ReleaseLiveLease, Fault
  <1>2. call \in [Requests -> Calls]
    BY DEF IInv, TypeOK
  <1>3. /\ call' \in [Requests -> Calls]
        /\ \A s \in Requests \ {r} : call'[s] = call[s]
        /\ call'[r] = Idle
    BY <1>2 DEF ReleaseLiveLease, Idle, Calls, CallPcs
  <1>4. TypeOK'
    BY <1>1, <1>3 DEF IInv, TypeOK, FaultStates, ReleaseLiveLease, SetLive
  <1>5. /\ UNCHANGED <<FreshSlots, wait>>
        /\ FreshLive' = FreshLive \/ FreshLive' = FreshLive \ {call[r].lease}
    BY DEF ReleaseLiveLease, SetLive, FreshSlots, FreshLive, Trimmed
  <1>6. /\ call'[r].slot = None /\ call'[r].lease = None
        /\ call'[r].pc = "idle" /\ ~call'[r].counted
    BY <1>3 DEF Idle
  <1> QED BY <1>1, <1>3, <1>4, <1>5, <1>6, RequestStep

\* One more is counted, and one more waits.
LEMMA IncrementKeeps ==
    ASSUME IInv, NEW r \in Requests, IncrementWaitCount(r)
    PROVE  IInv'
  <1>1. faults' \in FaultStates /\ faults.kinds \subseteq faults'.kinds
    BY Faulty DEF IncrementWaitCount, Fault
  <1>2. call \in [Requests -> Calls] /\ wait \in 0..MaxWait
    BY DEF IInv, TypeOK
  <1>3. UNCHANGED <<FreshSlots, FreshLive>>
    BY DEF IncrementWaitCount, FreshSlots, FreshLive, Trimmed
  <1>4. CASE call' = [call EXCEPT ![r] = Idle] /\ UNCHANGED <<wait, faults>>
    <2>1. /\ call' \in [Requests -> Calls]
          /\ \A s \in Requests \ {r} : call'[s] = call[s]
          /\ call'[r] = Idle
      BY <1>2, <1>4 DEF Idle, Calls, CallPcs
    <2>2. TypeOK'
      BY <1>1, <1>4, <2>1 DEF IInv, TypeOK, FaultStates, IncrementWaitCount
    <2>3. /\ call'[r].slot = None /\ call'[r].lease = None
          /\ call'[r].pc = "idle" /\ ~call'[r].counted
      BY <2>1 DEF Idle
    <2> QED BY <1>1, <1>3, <1>4, <2>1, <2>2, <2>3, RequestStep
  <1>5. ASSUME NEW pc \in {"touchWait", "waiting"},
               call' = [call EXCEPT ![r].pc = pc, ![r].counted = TRUE],
               \/ wait < MaxWait /\ wait' = wait + 1
               \/ wait' = wait /\ ~CountStays'
        PROVE  IInv'
    <2>1. /\ call' \in [Requests -> Calls]
          /\ \A s \in Requests \ {r} : call'[s] = call[s]
          /\ call'[r].slot = call[r].slot /\ call'[r].lease = call[r].lease
          /\ call'[r].counted /\ call'[r].pc = pc
      BY <1>2, <1>5 DEF Calls, CallPcs
    <2>2. wait' \in 0..MaxWait
      BY <1>2, <1>5
    <2>3. TypeOK'
      BY <1>1, <2>1, <2>2 DEF IInv, TypeOK, FaultStates, IncrementWaitCount
    <2>4. WorkerHolds' /\ LimitInv'
      BY <1>1, <1>3, <2>1, <2>3, RequestStep
    <2>5. LeaverIsCounted'
      BY <2>1 DEF IInv, WaitInv, LeaverIsCounted
    <2>6. CountCovers'
      <3> SUFFICES ASSUME CountStays' PROVE Cardinality(Counted') <= wait'
        BY DEF CountCovers
      <3>1. CountStays /\ wait' = wait + 1
        BY <1>1, <1>5 DEF CountStays, Saw
      <3>2. Counted' = Counted \cup {r}
        BY <2>1 DEF Counted
      <3>3. Counted \in SUBSET Requests /\ IsFiniteSet(Counted)
        BY FS_Subset DEF Counted
      <3>4. /\ Cardinality(Counted) \in Nat /\ Cardinality(Counted') \in Nat
            /\ Cardinality(Counted') <= Cardinality(Counted) + 1
        BY <3>2, <3>3, OneMore
      <3>5. Cardinality(Counted) <= wait
        BY <3>1 DEF IInv, WaitInv, CountCovers
      <3> QED BY <1>2, <3>1, <3>4, <3>5
    <2> QED BY <2>3, <2>4, <2>5, <2>6 DEF IInv, WaitInv
  <1>6. ASSUME NEW kind \in {"replyLost", "redisFails"}, Fault(kind)
        PROVE  ~CountStays'
    BY <1>6 DEF CountStays, Saw, Fault
  <1> QED BY <1>2, <1>4, <1>5, <1>6 DEF IncrementWaitCount

LEMMA DecrementKeeps ==
    ASSUME IInv, NEW r \in Requests, DecrementWaitCount(r)
    PROVE  IInv'
  <1>1. faults' \in FaultStates /\ faults.kinds \subseteq faults'.kinds
    BY Faulty DEF DecrementWaitCount, Fault
  <1>2. call \in [Requests -> Calls] /\ wait \in 0..MaxWait
    BY DEF IInv, TypeOK
  <1>3. UNCHANGED <<FreshSlots, FreshLive>>
    BY DEF DecrementWaitCount, FreshSlots, FreshLive, Trimmed
  <1>4. PICK pc \in {"readLoad", "working", "session", "draining", "idle"} :
          /\ call' = [call EXCEPT ![r] =
                        [[call[r] EXCEPT !.counted = FALSE] EXCEPT !.pc = pc]]
          /\ pc = "working" => call[r].slot # None
    <2>1. After([call[r] EXCEPT !.counted = FALSE])
            \in {"working", "session", "draining", "idle"}
      BY AfterPc
    <2>2. After([call[r] EXCEPT !.counted = FALSE]) = "working"
            => call[r].slot # None
      BY <1>2 DEF After, Calls
    <2> QED BY <2>1, <2>2 DEF DecrementWaitCount
  <1>5. /\ call' \in [Requests -> Calls]
        /\ \A s \in Requests \ {r} : call'[s] = call[s]
        /\ call'[r].slot = call[r].slot /\ call'[r].lease = call[r].lease
        /\ ~call'[r].counted /\ call'[r].pc = pc
    <2>1. /\ call' \in [Requests -> Calls]
          /\ call'[r] = [[call[r] EXCEPT !.counted = FALSE] EXCEPT !.pc = pc]
      BY <1>2, <1>4 DEF Calls, CallPcs
    <2> QED BY <1>2, <1>4, <2>1 DEF Calls
  <1>6. wait' \in 0..MaxWait
    BY <1>2 DEF DecrementWaitCount
  <1>7. TypeOK'
    BY <1>1, <1>5, <1>6 DEF IInv, TypeOK, FaultStates, DecrementWaitCount
  <1>8. WorkerHolds' /\ LimitInv'
    BY <1>1, <1>3, <1>4, <1>5, <1>7, RequestStep
  <1>9. LeaverIsCounted'
    BY <1>4, <1>5 DEF IInv, WaitInv, LeaverIsCounted
  <1>10. CountCovers'
    <2> SUFFICES ASSUME CountStays' PROVE Cardinality(Counted') <= wait'
      BY DEF CountCovers
    <2>1. CountStays /\ wait' = IF wait > 0 THEN wait - 1 ELSE 0
      BY <1>1 DEF CountStays, Saw, DecrementWaitCount, Fault
    <2>2. r \in Counted
      BY DEF IInv, WaitInv, LeaverIsCounted, Counted, DecrementWaitCount
    <2>3. Counted' = Counted \ {r}
      BY <1>5 DEF Counted
    <2>4. Counted \in SUBSET Requests /\ IsFiniteSet(Counted)
      BY FS_Subset DEF Counted
    <2>5. /\ Cardinality(Counted) \in Nat
          /\ Cardinality(Counted') \in Nat
          /\ Cardinality(Counted') = Cardinality(Counted) - 1
      BY <2>2, <2>3, <2>4, FS_RemoveElement, FS_CardinalityType
    <2>6. Cardinality(Counted) <= wait
      BY <2>1 DEF IInv, WaitInv, CountCovers
    <2> QED BY <1>2, <2>1, <2>5, <2>6
  <1> QED BY <1>7, <1>8, <1>9, <1>10 DEF IInv, WaitInv

-----------------------------------------------------------------------------
(* Processes and time.                                                     *)

\* A step that no request takes part in.
LEMMA OutsideStep ==
    ASSUME IInv, TypeOK', UNCHANGED call, faults.kinds \subseteq faults'.kinds,
           MembersStay' =>
              \A r \in Requests :
                 /\ call[r].slot # None /\ call[r].slot \in FreshSlots
                      => call[r].slot \in FreshSlots'
                 /\ call[r].lease # None /\ call[r].lease \in FreshLive
                      => call[r].lease \in FreshLive',
           CountStays' => wait' = wait
    PROVE  IInv'
  <1>1. LimitInv'
    BY LimitKept DEF IInv
  <1>2. WaitInv'
    BY WaitKept DEF IInv, WaitInv, LeaverIsCounted
  <1>3. WorkerHolds'
    BY DEF IInv, WorkerHolds
  <1> QED BY <1>1, <1>2, <1>3 DEF IInv

LEMMA CrashKeeps ==
    ASSUME IInv, NEW p \in Processes, Crash(p)
    PROVE  IInv'
  <1>1. faults' \in FaultStates /\ faults.kinds \subseteq faults'.kinds
    BY Faulty DEF Crash, Fault
  <1>2. /\ call \in [Requests -> Calls] /\ Idle \in Calls
        /\ Idle.slot = None /\ Idle.lease = None /\ Idle.pc = "idle"
        /\ ~Idle.counted
    BY DEF IInv, TypeOK, Idle, Calls, CallPcs
  <1>3. /\ call' \in [Requests -> Calls]
        /\ \A r \in Requests : call'[r] \in {call[r], Idle}
    BY <1>2 DEF Crash
  <1>4. TypeOK'
    BY <1>1, <1>3 DEF IInv, TypeOK, FaultStates, Crash, Starting
  <1>5. UNCHANGED <<FreshSlots, FreshLive, wait>>
    BY DEF Crash, FreshSlots, FreshLive, Trimmed
  <1>6. LimitInv'
    <2>1. \A r \in Requests : /\ call'[r].slot \in {call[r].slot, None}
                              /\ call'[r].lease \in {call[r].lease, None}
      BY <1>2, <1>3
    <2> QED BY <1>1, <1>5, <2>1, LimitKept DEF IInv
  <1>7. WaitInv'
    <2>1. \A r \in Requests :
             /\ call'[r].counted => call[r].counted
             /\ call'[r].pc = "unwait"
                  => call'[r].counted
      BY <1>2, <1>3 DEF IInv, WaitInv, LeaverIsCounted
    <2> QED BY <1>1, <1>5, <2>1, WaitKept DEF IInv
  <1>8. WorkerHolds'
    BY <1>2, <1>3 DEF IInv, WorkerHolds
  <1> QED BY <1>4, <1>6, <1>7, <1>8 DEF IInv

\* A slot that goes under its holder is on record.
LEMMA CleanupSlotsKeeps ==
    ASSUME IInv, NEW p \in Processes, CleanupStaleProcessSlots(p)
    PROVE  IInv'
  <1> DEFINE inUse == \E r \in Requests : call[r].slot \in slots
  <1>1. faults \in FaultStates
    BY DEF IInv, TypeOK, FaultStates
  <1>2. CASE /\ SetSlots({}) /\ Remove(inUse)
             /\ proc' = [proc EXCEPT ![p] = "wait"]
    <2>1. /\ faults' \in FaultStates /\ faults.kinds \subseteq faults'.kinds
          /\ inUse => "peerStarts" \in faults'.kinds
      BY <1>1, <1>2, RemoveFacts
    <2>2. TypeOK'
      BY <1>2, <2>1
         DEF IInv, TypeOK, FaultStates, CleanupStaleProcessSlots, SetSlots, Starting
    <2>3. MembersStay' => ~inUse
      BY <2>1 DEF MembersStay, Saw
    <2>4. UNCHANGED <<call, wait, FreshLive>>
      BY DEF CleanupStaleProcessSlots, FreshLive, Trimmed
    <2> QED BY <2>1, <2>2, <2>3, <2>4, OutsideStep DEF FreshSlots, Trimmed
  <1>3. CASE UNCHANGED <<slots, oldSlots>> /\ proc' = [proc EXCEPT ![p] = "up"]
    <2>1. faults' \in FaultStates /\ faults.kinds \subseteq faults'.kinds
      BY <1>1, <1>2, FaultFacts, RemoveFacts DEF CleanupStaleProcessSlots
    <2>2. TypeOK'
      BY <1>3, <2>1
         DEF IInv, TypeOK, FaultStates, CleanupStaleProcessSlots, Serving
    <2>3. UNCHANGED <<call, wait, FreshSlots, FreshLive>>
      BY <1>3 DEF CleanupStaleProcessSlots, FreshSlots, FreshLive, Trimmed
    <2> QED BY <2>1, <2>2, <2>3, OutsideStep
  <1> QED BY <1>2, <1>3 DEF CleanupStaleProcessSlots

LEMMA DeleteWaitKeeps ==
    ASSUME IInv, NEW p \in Processes, DeleteStaleWaitCount(p)
    PROVE  IInv'
  <1> DEFINE inUse == \E r \in Requests : call[r].counted
  <1>1. faults \in FaultStates /\ IInv
    BY DEF IInv, TypeOK, FaultStates
  <1>2. CASE wait' = 0 /\ Remove(inUse) /\ proc' = [proc EXCEPT ![p] = "index"]
    <2>1. /\ faults' \in FaultStates /\ faults.kinds \subseteq faults'.kinds
          /\ inUse => "peerStarts" \in faults'.kinds
      BY <1>1, <1>2, RemoveFacts
    <2>2. TypeOK'
      BY <1>2, <2>1
         DEF IInv, TypeOK, FaultStates, DeleteStaleWaitCount, Starting
    <2>3. UNCHANGED <<call, FreshSlots, FreshLive>>
      BY DEF DeleteStaleWaitCount, FreshSlots, FreshLive, Trimmed
    <2>4. LimitInv'
      BY <2>1, <2>3, LimitKept DEF IInv
    <2>5. CountCovers'
      <3>1. CountStays' => Counted' = {}
        BY <2>1, <2>3 DEF CountStays, Saw, Counted
      <3> QED BY <1>2, <3>1, FS_EmptySet DEF CountCovers
    <2> QED BY <2>2, <2>3, <2>4, <2>5
            DEF IInv, WaitInv, LeaverIsCounted, WorkerHolds
  <1>3. CASE /\ UNCHANGED wait /\ Fault("redisFails")
             /\ proc' = [proc EXCEPT ![p] = "up"]
    <2>1. faults' \in FaultStates /\ faults.kinds \subseteq faults'.kinds
      BY <1>1, <1>3, FaultFacts
    <2>2. TypeOK'
      BY <1>3, <2>1 DEF IInv, TypeOK, FaultStates, DeleteStaleWaitCount, Serving
    <2>3. UNCHANGED <<call, wait, FreshSlots, FreshLive>>
      BY <1>3 DEF DeleteStaleWaitCount, FreshSlots, FreshLive, Trimmed
    <2> QED BY <2>1, <2>2, <2>3, OutsideStep
  <1> QED BY <1>2, <1>3 DEF DeleteStaleWaitCount

LEMMA IndexKeeps ==
    ASSUME IInv, NEW p \in Processes,
           \/ RemoveActiveIndexMembers(p) \/ KeepActiveIndexMembers(p)
           \/ ReconcileExpiredIndexCandidates(p)
    PROVE  IInv'
  <1>1. faults' \in FaultStates /\ faults.kinds \subseteq faults'.kinds
    BY Faulty DEF RemoveActiveIndexMembers, KeepActiveIndexMembers,
                  ReconcileExpiredIndexCandidates, Fault
  <1>2. PICK s \in Serving : proc' = [proc EXCEPT ![p] = s]
    BY DEF RemoveActiveIndexMembers, KeepActiveIndexMembers,
           ReconcileExpiredIndexCandidates, Serving
  <1>3. /\ UNCHANGED <<live, oldLive, wait, call>>
        /\ SetSlots(FreshSlots) \/ UNCHANGED <<slots, oldSlots>>
        /\ index' \in {index, "none", "fresh"}
    BY DEF RemoveActiveIndexMembers, KeepActiveIndexMembers,
           ReconcileExpiredIndexCandidates
  <1>4. TypeOK'
    BY <1>1, <1>2, <1>3
       DEF IInv, TypeOK, FaultStates, SetSlots, FreshSlots, Trimmed, Serving
  <1>5. UNCHANGED <<FreshSlots, FreshLive>>
    BY <1>3 DEF IInv, TypeOK, SetSlots, FreshSlots, FreshLive, Trimmed
  <1> QED BY <1>1, <1>3, <1>4, <1>5, OutsideStep

LEMMA LoadBatchKeeps ==
    ASSUME IInv, GetAccountsLoadBatch
    PROVE  IInv'
  <1>1. TypeOK'
    BY DEF IInv, TypeOK, GetAccountsLoadBatch, SetSlots, SetLive, FreshSlots,
           FreshLive, Trimmed
  <1>2. UNCHANGED <<call, wait, faults, FreshSlots, FreshLive>>
    BY DEF IInv, TypeOK, GetAccountsLoadBatch, SetSlots, SetLive, FreshSlots,
           FreshLive, Trimmed
  <1> QED BY <1>1, <1>2, OutsideStep

\* A member that ages under its holder is on record.
LEMMA AgesKeeps ==
    ASSUME IInv, NEW i \in Ids, SlotAges(i) \/ LeaseAges(i)
    PROVE  IInv'
  <1>1. faults' \in FaultStates /\ faults.kinds \subseteq faults'.kinds
    BY Faulty DEF SlotAges, LeaseAges, Fault
  <1>2. TypeOK'
    BY <1>1 DEF IInv, TypeOK, FaultStates, SlotAges, LeaseAges
  <1>3. UNCHANGED <<call, wait>>
    BY DEF SlotAges, LeaseAges
  <1>4. CASE SlotAges(i)
    <2>1. FreshSlots' = FreshSlots \ {i} /\ UNCHANGED FreshLive
      BY <1>4 DEF SlotAges, FreshSlots, FreshLive, Trimmed
    <2>2. MembersStay' => \A r \in Requests : call[r].slot # i
      BY <1>4 DEF SlotAges, MembersStay, Saw, Fault
    <2> QED BY <1>1, <1>2, <1>3, <2>1, <2>2, OutsideStep
  <1>5. CASE LeaseAges(i)
    <2>1. FreshLive' = FreshLive \ {i} /\ UNCHANGED FreshSlots
      BY <1>5 DEF LeaseAges, FreshSlots, FreshLive, Trimmed
    <2>2. MembersStay' => \A r \in Requests : call[r].lease # i
      BY <1>5 DEF LeaseAges, MembersStay, Saw, Fault
    <2> QED BY <1>1, <1>2, <1>3, <2>1, <2>2, OutsideStep
  <1> QED BY <1>4, <1>5

LEMMA KeysKeep ==
    ASSUME IInv, SlotKeyExpires \/ LiveKeyExpires \/ IndexIsDue
    PROVE  IInv'
  <1>1. TypeOK'
    BY DEF IInv, TypeOK, SlotKeyExpires, LiveKeyExpires, IndexIsDue, SetSlots, SetLive
  <1>2. UNCHANGED <<call, wait, faults, FreshSlots, FreshLive>>
    BY DEF SlotKeyExpires, LiveKeyExpires, IndexIsDue, SetSlots, SetLive,
           FreshSlots, FreshLive, Trimmed
  <1> QED BY <1>1, <1>2, OutsideStep

LEMMA WaitKeyKeeps ==
    ASSUME IInv, WaitKeyExpires
    PROVE  IInv'
  <1>1. faults' \in FaultStates /\ faults.kinds \subseteq faults'.kinds
    BY Faulty DEF WaitKeyExpires, Fault
  <1>2. TypeOK'
    BY <1>1 DEF IInv, TypeOK, FaultStates, WaitKeyExpires
  <1>3. UNCHANGED <<call, FreshSlots, FreshLive>> /\ wait' = 0
    BY DEF WaitKeyExpires, FreshSlots, FreshLive, Trimmed
  <1>4. LimitInv'
    BY <1>1, <1>3, LimitKept DEF IInv
  <1>5. CountCovers'
    <2>1. CountStays' => Counted' = {}
      BY <1>3 DEF WaitKeyExpires, CountStays, Saw, Fault, Counted
    <2> QED BY <1>3, <2>1, FS_EmptySet DEF CountCovers
  <1> QED BY <1>2, <1>3, <1>4, <1>5
          DEF IInv, WaitInv, LeaverIsCounted, WorkerHolds

-----------------------------------------------------------------------------
LEMMA Initially == Init => IInv
  <1> SUFFICES ASSUME Init PROVE IInv
    OBVIOUS
  <1>1. /\ Idle \in Calls /\ Idle.slot = None /\ Idle.lease = None
        /\ Idle.pc = "idle" /\ ~Idle.counted
    BY DEF Idle, Calls, CallPcs
  <1>2. TypeOK
    BY <1>1 DEF Init, TypeOK, Serving
  <1>3. \A r \in Requests : call[r] = Idle
    BY DEF Init
  <1>4. HeldIsThere /\ HeldOnce /\ WorkerHolds /\ LeaverIsCounted
    BY <1>1, <1>3 DEF HeldIsThere, HeldOnce, WorkerHolds, LeaverIsCounted
  <1>5. Holders = {} /\ Counted = {}
    BY <1>1, <1>3 DEF Holders, Counted
  <1>6. LimitHolds
    <2>1. Cardinality(Holders) = 0
      BY <1>5, FS_EmptySet
    <2>2. Cardinality(Holders) <= Max
      BY <2>1
    <2> QED BY <2>2 DEF LimitHolds, Holders
  <1>7. CountCovers
    BY <1>5, FS_EmptySet DEF CountCovers, Init
  <1> QED BY <1>2, <1>4, <1>6, <1>7 DEF IInv, LimitInv, WaitInv

\* Every step of a request, of a process or of the clock keeps the inductive
\* invariant.
THEOREM Invariance == Spec => []IInv
  <1>1. ASSUME IInv, [Next]_vars PROVE IInv'
    <2>1. CASE UNCHANGED vars
      <3>1. TypeOK'
        BY <1>1, <2>1 DEF IInv, TypeOK, vars
      <3>2. UNCHANGED <<call, wait, faults, FreshSlots, FreshLive>>
        BY <2>1 DEF vars, FreshSlots, FreshLive, Trimmed
      <3> QED BY <1>1, <3>1, <3>2, OutsideStep
    <2>2. ASSUME NEW r \in Requests,
                 \/ AcquireSlot(r) \/ AcquireLiveLease(r)
                 \/ RefreshLiveLease(r) \/ ClientLeaves(r) \/ Proceed(r)
          PROVE  IInv'
      BY <1>1, <2>2, AcquireSlotKeeps, AcquireLeaseKeeps, RefreshLeaseKeeps,
         TouchKeeps, IncrementKeeps, StopWaitingKeeps, DecrementKeeps, LeavingKeeps,
         ReleaseSlotKeeps, ReadLoadKeeps, RefreshIndexKeeps, ReleaseLeaseKeeps
         DEF Proceed
    <2>3. ASSUME NEW p \in Processes, Crash(p) \/ Cleanup(p) PROVE IInv'
      BY <1>1, <2>3, CrashKeeps, CleanupSlotsKeeps, DeleteWaitKeeps, IndexKeeps
         DEF Cleanup
    <2>4. CASE GetAccountsLoadBatch
      BY <1>1, <2>4, LoadBatchKeeps
    <2>5. CASE TimePasses
      BY <1>1, <2>5, AgesKeeps, KeysKeep, WaitKeyKeeps DEF TimePasses
    <2> QED BY <1>1, <2>1, <2>2, <2>3, <2>4, <2>5 DEF Next
  <1> QED BY <1>1, Initially, PTL DEF Spec

\* The variables keep their types; in particular no script lets the count of
\* waiting requests pass MaxWait.
THEOREM TypeCorrect == Spec => []TypeOK
  <1>1. IInv => TypeOK
    BY DEF IInv
  <1> QED BY <1>1, Invariance, PTL

\* The scripts of AcquireAccountSlot and AcquireLiveLease admit no more
\* requests and sessions than the limit, for any limit and any number of
\* requests and processes, while no member goes under its holder.  Streams of
\* clients that left, whose slots wrapReleaseOnDone released, go on beside.
THEOREM LimitKeeps == Spec => []LimitHolds
  <1>1. IInv => LimitHolds
    BY DEF IInv, LimitInv
  <1> QED BY <1>1, Invariance, PTL

\* IncrementWaitCount lets no more requests wait than may, while nothing makes
\* the count smaller than the requests it counts; requests that wait without
\* passing it change nothing of that.
THEOREM WaitersBounded == Spec => []WaitersAreBounded
  <1>1. ASSUME IInv PROVE WaitersAreBounded
    <2> DEFINE W == {r \in Requests :
                  call[r].counted /\ call[r].pc \in {"touchWait", "waiting"}}
    <2> SUFFICES ASSUME CountStays PROVE Cardinality(W) <= MaxWait
      BY DEF WaitersAreBounded, CountStays
    <2>1. W \in SUBSET Counted
      BY DEF Counted
    <2>2. Counted \in SUBSET Requests /\ IsFiniteSet(Counted)
      BY FS_Subset DEF Counted
    <2>3. /\ Cardinality(W) <= Cardinality(Counted)
          /\ Cardinality(W) \in Nat /\ Cardinality(Counted) \in Nat
      BY <2>1, <2>2, FS_Subset, FS_CardinalityType
    <2>4. Cardinality(Counted) <= wait /\ wait \in 0..MaxWait
      BY <1>1 DEF IInv, TypeOK, WaitInv, CountCovers
    <2> HIDE DEF W
    <2> QED BY <2>3, <2>4
  <1> QED BY <1>1, Invariance, PTL

=============================================================================
