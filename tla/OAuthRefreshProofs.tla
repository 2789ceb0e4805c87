------------------------- MODULE OAuthRefreshProofs -------------------------
(***************************************************************************)
(* What OAuthRefresh keeps for any callers, hosts and bounds: types, the   *)
(* exclusion of refreshes, the newest authorization of a Grok account, a   *)
(* working token in the row, and that no working account is disabled.      *)
(* IInv adds to the properties what links a call to the locks it passed    *)
(* and a new token to the grant it descends from; TokenInv, on top of it,  *)
(* who knows of a token, and which tokens can no longer be replaced.       *)
(***************************************************************************)
EXTENDS OAuthRefresh, SequenceTheorems, TLAPS

\* What a call is about to store was issued to it, under the same grant.
NewIsIssued ==
    \A c \in Callers : call[c].pc = "persist" =>
        call[c].new \in Tokens /\ issued[call[c].new] = issued[call[c].token]

\* The mutex of a host has one holder.
OneInside ==
    \A c, d \in Callers : c # d /\ Host[c] = Host[d] => ~(Inside(c) /\ Inside(d))

\* A call that passed the Redis lock still has it, or Redis let it down.
Locked ==
    \A c \in Callers :
        call[c].pc \in {"reread", "refresh", "recover", "persist", "release"} =>
            \/ call[c].held /\ lock = c
            \/ Saw({"redisDown", "lockExpires"})

\* An edit and a refresh by hand under way, too, have a copy of the newest
\* authorization.
CopyIsNewest ==
    /\ adm.copy.grok = db.grok
    /\ adm.pc \in {"edit", "manual", "rotated", "store"} /\ db.grok =>
          issued[adm.copy.token] = Newest

IInv ==
    /\ TypeOK
    /\ NewIsIssued
    /\ OneInside
    /\ Locked
    /\ CopyIsNewest
    /\ LatestGrantWins

-----------------------------------------------------------------------------
LEMMA FaultFacts ==
    ASSUME faults \in [count : 0..MaxFaults, kinds : SUBSET Perils],
           NEW kind, Fault(kind)
    PROVE  /\ faults' \in [count : 0..MaxFaults, kinds : SUBSET Perils]
           /\ faults'.kinds = faults.kinds \cup {kind}
  BY RefreshAssumption DEF Fault

LEMMA Initially == Init => IInv
  <1> SUFFICES ASSUME Init PROVE IInv
    OBVIOUS
  <1> USE RefreshAssumption DEF Init
  <1>1. issued = <<1>> /\ Tokens = {1} /\ issued \in Seq(1..MaxGrants) /\ issued[1] = 1
    BY DEF Tokens
  <1>2. db \in Rows /\ db.token = 1
    BY DEF Rows
  <1>3. call \in [Callers -> Calls] /\ \A c \in Callers : call[c].pc = "idle"
    BY DEF Calls, CallPcs, Idle
  <1>4. adm \in AdmStates
    BY <1>2 DEF AdmStates, AdmPcs
  <1>5. faults \in [count : 0..MaxFaults, kinds : SUBSET Perils]
    OBVIOUS
  <1>6. TypeOK
    BY <1>1, <1>2, <1>3, <1>4, <1>5 DEF TypeOK
  <1>7. NewIsIssued /\ OneInside /\ Locked
    BY <1>3 DEF NewIsIssued, OneInside, Inside, Locked
  <1>8. CopyIsNewest /\ LatestGrantWins
    BY <1>1, <1>2 DEF CopyIsNewest, LatestGrantWins, Newest
  <1> QED BY <1>6, <1>7, <1>8 DEF IInv

LEMMA IssuedGrows ==
    ASSUME issued \in Seq(1..MaxGrants), NEW g \in 1..MaxGrants,
           issued' = Append(issued, g)
    PROVE  /\ issued' \in Seq(1..MaxGrants)
           /\ Tokens' = Tokens \cup {Len(issued) + 1}
           /\ Len(issued) + 1 \in Nat
           /\ \A t \in Tokens : issued'[t] = issued[t]
           /\ issued'[Len(issued) + 1] = g
  BY DEF Tokens

\* A step that leaves the provider's tokens, the row and the administrator
\* alone keeps what is about them.
LEMMA RestKept ==
    ASSUME CopyIsNewest, LatestGrantWins, UNCHANGED <<db, issued, adm>>
    PROVE  CopyIsNewest' /\ LatestGrantWins'
  BY DEF CopyIsNewest, LatestGrantWins, Newest

\* The fault counters only grow.
LEMMA SawKept ==
    ASSUME TypeOK, NEW kinds, Saw(kinds),
           \/ UNCHANGED faults
           \/ \E kind : Fault(kind)
    PROVE  Saw(kinds)'
  BY FaultFacts DEF TypeOK, Saw

LEMMA TokenAgesKeeps == IInv /\ TokenAges => IInv'
  <1> SUFFICES ASSUME IInv, TokenAges PROVE IInv'
    OBVIOUS
  <1>1. UNCHANGED <<db, issued, live, lock, call, adm, faults>>
    BY DEF TokenAges
  <1>2. TypeOK'
    BY DEF IInv, TypeOK, TokenAges, Tokens
  <1>3. NewIsIssued' /\ OneInside' /\ Locked'
    BY <1>1 DEF IInv, NewIsIssued, OneInside, Inside, Locked, Saw, Tokens
  <1>4. CopyIsNewest' /\ LatestGrantWins'
    BY <1>1, RestKept DEF IInv
  <1> QED BY <1>2, <1>3, <1>4 DEF IInv

LEMMA LockExpiresKeeps == IInv /\ LockExpires => IInv'
  <1> SUFFICES ASSUME IInv, LockExpires PROVE IInv'
    OBVIOUS
  <1>1. UNCHANGED <<db, issued, live, aged, call, adm>> /\ lock' = None
    BY DEF LockExpires
  <1>2. TypeOK'
    BY <1>1, FaultFacts DEF IInv, TypeOK, LockExpires, Tokens
  <1>3. NewIsIssued' /\ OneInside'
    BY <1>1 DEF IInv, NewIsIssued, OneInside, Inside, Tokens
  <1>4. Locked'
    <2> SUFFICES ASSUME NEW c \in Callers,
                        call[c].pc \in {"reread", "refresh", "recover",
                                        "persist", "release"}
                 PROVE  Saw({"redisDown", "lockExpires"})'
      BY <1>1 DEF Locked
    <2>1. CASE Saw({"redisDown", "lockExpires"})
      BY <2>1, SawKept DEF IInv, LockExpires
    <2>2. CASE call[c].held /\ lock = c
      <3>1. Fault("lockExpires")
        BY <2>2 DEF LockExpires, Inside
      <3> QED BY <3>1, FaultFacts DEF IInv, TypeOK, Saw
    <2> QED BY <2>1, <2>2 DEF IInv, Locked
  <1>5. CopyIsNewest' /\ LatestGrantWins'
    BY <1>1, RestKept DEF IInv
  <1> QED BY <1>2, <1>3, <1>4, <1>5 DEF IInv

\* A call moves on alone.
LEMMA CallMoves ==
    ASSUME TypeOK, NEW c \in Callers, NEW n \in Calls,
           call' = [call EXCEPT ![c] = n]
    PROVE  /\ call' \in [Callers -> Calls]
           /\ call'[c] = n
           /\ \A d \in Callers : d # c => call'[d] = call[d]
  BY DEF TypeOK

LEMMA LockLocalKeeps ==
    ASSUME IInv, NEW c \in Callers, LockLocal(c)
    PROVE  IInv'
  <1> DEFINE n == [call[c] EXCEPT !.pc = "lock"]
  <1>1. UNCHANGED <<db, issued, live, aged, lock, adm, faults>>
    BY DEF LockLocal
  <1>2. n \in Calls /\ n.pc = "lock" /\ call' = [call EXCEPT ![c] = n]
    BY DEF LockLocal, Goto, IInv, TypeOK, Calls, CallPcs
  <1> HIDE DEF n
  <1>3. /\ call' \in [Callers -> Calls] /\ call'[c] = n
        /\ \A d \in Callers : d # c => call'[d] = call[d]
    BY <1>2, CallMoves DEF IInv
  <1>4. TypeOK'
    BY <1>1, <1>2, <1>3 DEF IInv, TypeOK, Tokens
  <1>5. NewIsIssued'
    BY <1>1, <1>2, <1>3 DEF IInv, NewIsIssued, Tokens
  <1>6. OneInside'
    BY <1>3 DEF IInv, OneInside, Inside, LockLocal
  <1>7. Locked'
    BY <1>1, <1>2, <1>3 DEF IInv, Locked, Saw
  <1>8. CopyIsNewest' /\ LatestGrantWins'
    BY <1>1, RestKept DEF IInv
  <1> QED BY <1>4, <1>5, <1>6, <1>7, <1>8 DEF IInv

\* A call that was inside, or leaves, disturbs no other.
LEMMA InsideKept ==
    ASSUME OneInside, NEW c \in Callers,
           Inside(c) \/ ~Inside(c)',
           \A d \in Callers : d # c => call'[d] = call[d]
    PROVE  OneInside'
  BY DEF OneInside, Inside

\* A call that keeps its lock, or gives it up and leaves, lets the others
\* keep theirs.
LEMMA LockedKept ==
    ASSUME TypeOK, Locked, NEW c \in Callers,
           \/ UNCHANGED faults
           \/ \E kind : Fault(kind),
           \A d \in Callers : d # c => call'[d] = call[d],
           \A d \in Callers : d # c /\ lock = d =>
               lock' = lock \/ Saw({"redisDown", "lockExpires"}),
           call'[c].pc \in {"reread", "refresh", "recover", "persist", "release"} =>
               (call'[c].held /\ lock' = c) \/ Saw({"redisDown", "lockExpires"})'
    PROVE  Locked'
  <1>1. Saw({"redisDown", "lockExpires"}) => Saw({"redisDown", "lockExpires"})'
    BY SawKept
  <1> QED BY <1>1 DEF Locked

\* The record Leave puts in the place of a call.
LEMMA LeaveFacts ==
    ASSUME TypeOK, NEW c \in Callers, Leave(c)
    PROVE  /\ call' \in [Callers -> Calls]
           /\ call'[c].pc = "release"
           /\ call'[c].held = call[c].held
           /\ ~call'[c].permanent
           /\ \A d \in Callers : d # c => call'[d] = call[d]
  <1> DEFINE n == [Idle EXCEPT !.pc = "release", !.held = call[c].held]
  <1>1. /\ n \in Calls /\ n.pc = "release" /\ n.held = call[c].held
        /\ ~n.permanent
    BY DEF TypeOK, Calls, CallPcs, Idle
  <1>2. call' = [call EXCEPT ![c] = n]
    BY DEF Leave
  <1> QED BY <1>1, <1>2, CallMoves

LEMMA ReturnFacts ==
    ASSUME TypeOK, NEW c \in Callers, Return(c)
    PROVE  /\ call' \in [Callers -> Calls]
           /\ call'[c].pc = "idle"
           /\ \A d \in Callers : d # c => call'[d] = call[d]
  <1>1. Idle \in Calls /\ Idle.pc = "idle"
    BY DEF Calls, CallPcs, Idle
  <1>2. call' = [call EXCEPT ![c] = Idle]
    BY DEF Return
  <1> QED BY <1>1, <1>2, CallMoves

LEMMA GotoFacts ==
    ASSUME TypeOK, NEW c \in Callers, NEW pc \in CallPcs, Goto(c, pc)
    PROVE  /\ call' \in [Callers -> Calls]
           /\ call'[c] = [call[c] EXCEPT !.pc = pc]
           /\ call'[c].pc = pc
           /\ call'[c].held = call[c].held
           /\ call'[c].token = call[c].token
           /\ \A d \in Callers : d # c => call'[d] = call[d]
  <1> DEFINE n == [call[c] EXCEPT !.pc = pc]
  <1>0. call[c] \in Calls
    BY DEF TypeOK
  <1>1. /\ n \in Calls /\ n.pc = pc /\ n.held = call[c].held
        /\ n.token = call[c].token
    BY <1>0 DEF Calls
  <1>2. call' = [call EXCEPT ![c] = n]
    BY DEF Goto
  <1> QED BY <1>1, <1>2, CallMoves

LEMMA AcquireKeeps ==
    ASSUME IInv, NEW c \in Callers, AcquireRefreshLock(c)
    PROVE  IInv'
  <1> USE DEF IInv
  <1>0. call[c].pc = "lock" /\ UNCHANGED <<db, issued, live, aged, adm>>
    BY DEF AcquireRefreshLock
  <1>1. CopyIsNewest' /\ LatestGrantWins'
    BY <1>0, RestKept
  <1>2. CASE /\ lock = None /\ lock' = c /\ UNCHANGED faults
             /\ call' = [call EXCEPT ![c].pc = "reread", ![c].held = TRUE]
    <2> DEFINE n == [call[c] EXCEPT !.pc = "reread", !.held = TRUE]
    <2>0. call[c] \in Calls
      BY DEF TypeOK
    <2>1. n \in Calls /\ n.pc = "reread" /\ n.held
      BY <2>0 DEF Calls, CallPcs
    <2>2. call' = [call EXCEPT ![c] = n]
      BY <1>2
    <2>3. /\ call' \in [Callers -> Calls] /\ call'[c] = n
          /\ \A d \in Callers : d # c => call'[d] = call[d]
      BY <2>1, <2>2, CallMoves
    <2> HIDE DEF n
    <2>4. TypeOK'
      BY <1>0, <1>2, <2>1, <2>3 DEF TypeOK, Tokens
    <2>5. NewIsIssued'
      BY <1>0, <2>1, <2>3 DEF NewIsIssued, Tokens
    <2>6. OneInside'
      BY <1>0, <2>3, InsideKept DEF Inside
    <2>7. Locked'
      BY <1>2, <2>1, <2>3, LockedKept, RefreshAssumption
    <2> QED BY <1>1, <2>4, <2>5, <2>6, <2>7
  <1>3. CASE lock # None /\ Return(c) /\ UNCHANGED <<lock, faults>>
    <2>1. /\ call' \in [Callers -> Calls] /\ call'[c].pc = "idle"
          /\ \A d \in Callers : d # c => call'[d] = call[d]
      BY <1>3, ReturnFacts
    <2>2. TypeOK'
      BY <1>0, <1>3, <2>1 DEF TypeOK, Tokens
    <2>3. NewIsIssued'
      BY <1>0, <2>1 DEF NewIsIssued, Tokens
    <2>4. OneInside'
      BY <2>1, InsideKept DEF Inside
    <2>5. Locked'
      BY <1>3, <2>1, LockedKept
    <2> QED BY <1>1, <2>2, <2>3, <2>4, <2>5
  <1>4. CASE /\ Fault("redisDown") /\ Goto(c, "reread")
             /\ lock' \in {lock, IF lock = None THEN c ELSE lock}
    <2>1. /\ call' \in [Callers -> Calls] /\ call'[c].pc = "reread"
          /\ \A d \in Callers : d # c => call'[d] = call[d]
      BY <1>4, GotoFacts DEF CallPcs
    <2>2. /\ faults' \in [count : 0..MaxFaults, kinds : SUBSET Perils]
          /\ "redisDown" \in faults'.kinds
      BY <1>4, FaultFacts DEF TypeOK
    <2>3. TypeOK'
      BY <1>0, <1>4, <2>1, <2>2 DEF TypeOK, Tokens
    <2>4. NewIsIssued'
      BY <1>0, <2>1 DEF NewIsIssued, Tokens
    <2>5. OneInside'
      BY <1>0, <2>1, InsideKept DEF Inside
    <2>6. Locked'
      BY <2>2 DEF Locked, Saw
    <2> QED BY <1>1, <2>3, <2>4, <2>5, <2>6
  <1> QED BY <1>2, <1>3, <1>4 DEF AcquireRefreshLock

\* A call that has the lock, or that Redis let down, leaves without storing
\* anything.
LEMMA LeaveKeeps ==
    ASSUME IInv, NEW c \in Callers, Leave(c),
           call[c].pc \in {"reread", "refresh", "recover", "persist"},
           UNCHANGED <<aged, lock, adm>>,
           UNCHANGED faults \/ \E kind : Fault(kind),
           issued' \in Seq(1..MaxGrants),
           Tokens \subseteq Tokens',
           \A t \in Tokens : issued'[t] = issued[t],
           live' \subseteq Tokens',
           db' \in Rows, db'.token \in Tokens'
    PROVE  TypeOK' /\ NewIsIssued' /\ OneInside' /\ Locked'
  <1> USE DEF IInv
  <1>1. /\ call' \in [Callers -> Calls] /\ call'[c].pc = "release"
        /\ call'[c].held = call[c].held
        /\ \A d \in Callers : d # c => call'[d] = call[d]
    BY LeaveFacts
  <1>2. faults' \in [count : 0..MaxFaults, kinds : SUBSET Perils]
    BY FaultFacts DEF TypeOK
  <1>3. TypeOK'
    BY <1>1, <1>2 DEF TypeOK
  <1>4. NewIsIssued'
    BY <1>1 DEF NewIsIssued, TypeOK
  <1>5. OneInside'
    BY <1>1, InsideKept DEF Inside
  <1>6. (call'[c].held /\ lock' = c) \/ Saw({"redisDown", "lockExpires"})'
    BY <1>1, SawKept DEF Locked
  <1>7. Locked'
    BY <1>1, <1>6, LockedKept
  <1> QED BY <1>3, <1>4, <1>5, <1>7

LEMMA RereadKeeps ==
    ASSUME IInv, NEW c \in Callers, Reread(c)
    PROVE  IInv'
  <1> USE DEF IInv
  <1>0. call[c].pc = "reread" /\ UNCHANGED <<db, issued, live, aged, lock, adm>>
    BY DEF Reread
  <1>1. CopyIsNewest' /\ LatestGrantWins'
    BY <1>0, RestKept
  <1>2. CASE /\ UNCHANGED faults
             /\ call' = [call EXCEPT ![c].pc = "refresh",
                                     ![c].token = db.token,
                                     ![c].edition = db.edition]
    <2> DEFINE n == [call[c] EXCEPT !.pc = "refresh", !.token = db.token,
                                    !.edition = db.edition]
    <2>0. call[c] \in Calls /\ db \in Rows /\ db.token \in Tokens
      BY DEF TypeOK
    <2>1. /\ n \in Calls /\ n.pc = "refresh" /\ n.held = call[c].held
          /\ n.token = db.token
      BY <2>0 DEF Calls, CallPcs, Rows
    <2>2. call' = [call EXCEPT ![c] = n]
      BY <1>2
    <2> HIDE DEF n
    <2>3. /\ call' \in [Callers -> Calls] /\ call'[c] = n
          /\ \A d \in Callers : d # c => call'[d] = call[d]
      BY <2>1, <2>2, CallMoves
    <2>4. TypeOK'
      BY <1>0, <1>2, <2>0, <2>1, <2>3 DEF TypeOK, Tokens
    <2>5. NewIsIssued'
      BY <1>0, <2>1, <2>3 DEF NewIsIssued, Tokens
    <2>6. OneInside'
      BY <1>0, <2>3, InsideKept DEF Inside
    <2>7. (call'[c].held /\ lock' = c) \/ Saw({"redisDown", "lockExpires"})'
      BY <1>0, <1>2, <2>1, <2>3, SawKept DEF Locked
    <2>8. Locked'
      BY <1>0, <1>2, <2>3, <2>7, LockedKept
    <2> QED BY <1>1, <2>4, <2>5, <2>6, <2>8
  <1>3. CASE Leave(c) /\ (UNCHANGED faults \/ Fault("dbFails"))
    <2>1. issued' \in Seq(1..MaxGrants) /\ live' \subseteq Tokens' /\ Tokens' = Tokens
          /\ db' \in Rows /\ db'.token \in Tokens'
      BY <1>0 DEF TypeOK, Tokens
    <2> QED BY <1>0, <1>1, <1>3, <2>1, LeaveKeeps
  <1> QED BY <1>2, <1>3 DEF Reread

\* The provider issues a token of the same grant.
LEMMA RotateFacts ==
    ASSUME TypeOK, NEW t \in Tokens, Rotate(t)
    PROVE  /\ issued' \in Seq(1..MaxGrants)
           /\ Tokens' = Tokens \cup {Len(issued) + 1}
           /\ Len(issued) + 1 \in Nat
           /\ \A u \in Tokens : issued'[u] = issued[u]
           /\ issued'[Len(issued) + 1] = issued[t]
           /\ live' \subseteq Tokens'
  <1>0. issued \in Seq(1..MaxGrants) /\ t \in 1..Len(issued)
    BY DEF TypeOK, Tokens
  <1>1. issued[t] \in 1..MaxGrants
    BY <1>0, ElementOfSeq
  <1>2. issued' = Append(issued, issued[t])
    BY DEF Rotate
  <1>3. /\ issued' \in Seq(1..MaxGrants)
        /\ Tokens' = Tokens \cup {Len(issued) + 1}
        /\ Len(issued) + 1 \in Nat
        /\ \A u \in Tokens : issued'[u] = issued[u]
        /\ issued'[Len(issued) + 1] = issued[t]
    BY <1>0, <1>1, <1>2, IssuedGrows
  <1>4. live' \subseteq Tokens'
    BY <1>3 DEF TypeOK, Rotate
  <1> QED BY <1>3, <1>4

\* A token more takes no authorization away.
LEMMA GrantsKept ==
    ASSUME TypeOK, CopyIsNewest, LatestGrantWins, UNCHANGED <<db, adm>>,
           \A u \in Tokens : issued'[u] = issued[u]
    PROVE  CopyIsNewest' /\ LatestGrantWins'
  BY DEF TypeOK, CopyIsNewest, LatestGrantWins, Newest

LEMMA RefreshKeeps ==
    ASSUME IInv, NEW c \in Callers, Refresh(c)
    PROVE  IInv'
  <1> USE DEF IInv
  <1> DEFINE t == call[c].token
  <1>0. /\ call[c].pc = "refresh" /\ UNCHANGED <<db, aged, lock, adm>>
        /\ t \in Tokens /\ call[c] \in Calls
    BY DEF Refresh, TypeOK
  <1>1. CASE /\ Rotate(t) /\ UNCHANGED faults
             /\ call' = [call EXCEPT ![c].pc = "persist",
                                     ![c].new = Len(issued) + 1]
    <2> DEFINE n == [call[c] EXCEPT !.pc = "persist", !.new = Len(issued) + 1]
    <2>1. /\ issued' \in Seq(1..MaxGrants)
          /\ Tokens' = Tokens \cup {Len(issued) + 1}
          /\ Len(issued) + 1 \in Nat
          /\ \A u \in Tokens : issued'[u] = issued[u]
          /\ issued'[Len(issued) + 1] = issued[t]
          /\ live' \subseteq Tokens'
      BY <1>0, <1>1, RotateFacts
    <2>2. /\ n \in Calls /\ n.pc = "persist" /\ n.held = call[c].held
          /\ n.token = t /\ n.new = Len(issued) + 1
      BY <1>0, <2>1 DEF Calls, CallPcs
    <2>3. call' = [call EXCEPT ![c] = n]
      BY <1>1
    <2> HIDE DEF n
    <2>4. /\ call' \in [Callers -> Calls] /\ call'[c] = n
          /\ \A d \in Callers : d # c => call'[d] = call[d]
      BY <2>2, <2>3, CallMoves
    <2>5. TypeOK'
      BY <1>0, <1>1, <2>1, <2>2, <2>4 DEF TypeOK
    <2>6. NewIsIssued'
      <3>1. call'[c].new \in Tokens' /\ issued'[call'[c].new] = issued'[call'[c].token]
        BY <1>0, <2>1, <2>2, <2>4
      <3>2. ASSUME NEW d \in Callers, d # c, call'[d].pc = "persist"
            PROVE  /\ call'[d].new \in Tokens'
                   /\ issued'[call'[d].new] = issued'[call'[d].token]
        BY <3>2, <2>1, <2>4 DEF NewIsIssued, TypeOK
      <3> QED BY <3>1, <3>2 DEF NewIsIssued
    <2>7. OneInside'
      BY <1>0, <2>4, InsideKept DEF Inside
    <2>8. (call'[c].held /\ lock' = c) \/ Saw({"redisDown", "lockExpires"})'
      BY <1>0, <1>1, <2>2, <2>4, SawKept DEF Locked
    <2>9. Locked'
      BY <1>0, <1>1, <2>4, <2>8, LockedKept
    <2>10. CopyIsNewest' /\ LatestGrantWins'
      BY <1>0, <2>1, GrantsKept
    <2> QED BY <2>5, <2>6, <2>7, <2>9, <2>10
  <1>2. CASE Rotate(t) /\ Leave(c) /\ Fault("answerLate")
    <2>1. /\ issued' \in Seq(1..MaxGrants)
          /\ Tokens \subseteq Tokens'
          /\ \A u \in Tokens : issued'[u] = issued[u]
          /\ live' \subseteq Tokens'
      BY <1>0, <1>2, RotateFacts
    <2>2. db' \in Rows /\ db'.token \in Tokens'
      BY <1>0, <2>1 DEF TypeOK
    <2>3. TypeOK' /\ NewIsIssued' /\ OneInside' /\ Locked'
      BY <1>0, <1>2, <2>1, <2>2, LeaveKeeps
    <2>4. CopyIsNewest' /\ LatestGrantWins'
      BY <1>0, <2>1, GrantsKept
    <2> QED BY <2>3, <2>4
  <1>3. CASE Goto(c, "recover") /\ UNCHANGED <<issued, live, faults>>
    <2>1. /\ call' \in [Callers -> Calls] /\ call'[c].pc = "recover"
          /\ call'[c].held = call[c].held /\ call'[c].token = t
          /\ \A d \in Callers : d # c => call'[d] = call[d]
      BY <1>3, GotoFacts DEF CallPcs
    <2>2. TypeOK'
      BY <1>0, <1>3, <2>1 DEF TypeOK, Tokens
    <2>3. NewIsIssued'
      BY <1>3, <2>1 DEF NewIsIssued, Tokens
    <2>4. OneInside'
      BY <1>0, <2>1, InsideKept DEF Inside
    <2>5. (call'[c].held /\ lock' = c) \/ Saw({"redisDown", "lockExpires"})'
      BY <1>0, <1>3, <2>1, SawKept DEF Locked
    <2>6. Locked'
      BY <1>0, <1>3, <2>1, <2>5, LockedKept
    <2>7. CopyIsNewest' /\ LatestGrantWins'
      BY <1>0, <1>3, RestKept
    <2> QED BY <2>2, <2>3, <2>4, <2>6, <2>7
  <1>4. CASE Leave(c) /\ Fault("providerFails") /\ UNCHANGED <<issued, live>>
    <2>1. /\ issued' \in Seq(1..MaxGrants) /\ Tokens' = Tokens
          /\ live' \subseteq Tokens' /\ db' \in Rows /\ db'.token \in Tokens'
      BY <1>0, <1>4 DEF TypeOK, Tokens
    <2>2. TypeOK' /\ NewIsIssued' /\ OneInside' /\ Locked'
      BY <1>0, <1>4, <2>1, LeaveKeeps
    <2>3. CopyIsNewest' /\ LatestGrantWins'
      BY <1>0, <1>4, RestKept
    <2> QED BY <2>2, <2>3
  <1> QED BY <1>1, <1>2, <1>3, <1>4 DEF Refresh

LEMMA RecoverKeeps ==
    ASSUME IInv, NEW c \in Callers, TryRecoverFromRefreshRace(c)
    PROVE  IInv'
  <1> USE DEF IInv
  <1>0. call[c].pc = "recover" /\ UNCHANGED <<db, issued, live, aged, lock, adm>>
    BY DEF TryRecoverFromRefreshRace
  <1>1. CopyIsNewest' /\ LatestGrantWins'
    BY <1>0, RestKept
  <1>2. CASE Leave(c) /\ UNCHANGED faults
    <2>1. issued' \in Seq(1..MaxGrants) /\ live' \subseteq Tokens' /\ Tokens' = Tokens
          /\ db' \in Rows /\ db'.token \in Tokens'
      BY <1>0 DEF TypeOK, Tokens
    <2> QED BY <1>0, <1>1, <1>2, <2>1, LeaveKeeps
  <1>3. CASE /\ UNCHANGED faults \/ Fault("dbFails")
             /\ call' = [call EXCEPT ![c].pc = "release",
                                     ![c].permanent = TRUE]
    <2> DEFINE n == [call[c] EXCEPT !.pc = "release", !.permanent = TRUE]
    <2>0. call[c] \in Calls
      BY DEF TypeOK
    <2>1. n \in Calls /\ n.pc = "release" /\ n.held = call[c].held
      BY <2>0 DEF Calls, CallPcs
    <2>2. call' = [call EXCEPT ![c] = n]
      BY <1>3
    <2> HIDE DEF n
    <2>3. /\ call' \in [Callers -> Calls] /\ call'[c] = n
          /\ \A d \in Callers : d # c => call'[d] = call[d]
      BY <2>1, <2>2, CallMoves
    <2>4. faults' \in [count : 0..MaxFaults, kinds : SUBSET Perils]
      BY <1>3, FaultFacts DEF TypeOK
    <2>5. TypeOK'
      BY <1>0, <2>1, <2>3, <2>4 DEF TypeOK, Tokens
    <2>6. NewIsIssued'
      BY <1>0, <2>1, <2>3 DEF NewIsIssued, Tokens
    <2>7. OneInside'
      BY <1>0, <2>3, InsideKept DEF Inside
    <2>8. (call'[c].held /\ lock' = c) \/ Saw({"redisDown", "lockExpires"})'
      BY <1>0, <1>3, <2>1, <2>3, SawKept DEF Locked
    <2>9. Locked'
      BY <1>0, <1>3, <2>3, <2>8, LockedKept
    <2> QED BY <1>1, <2>5, <2>6, <2>7, <2>9
  <1> QED BY <1>2, <1>3 DEF TryRecoverFromRefreshRace

LEMMA PersistKeeps ==
    ASSUME IInv, NEW c \in Callers, Persist(c)
    PROVE  IInv'
  <1> USE DEF IInv
  <1>0. /\ call[c].pc = "persist" /\ Leave(c)
        /\ UNCHANGED <<issued, live, aged, lock, adm>>
        /\ Tokens' = Tokens
    BY DEF Persist, Tokens
  <1>1. UNCHANGED faults \/ \E kind : Fault(kind)
    BY DEF Persist
  <1>2. /\ call[c].new \in Tokens /\ issued[call[c].new] = issued[call[c].token]
        /\ call[c].new \in Nat /\ call[c].edition \in Nat
    BY <1>0 DEF NewIsIssued, TypeOK, Calls
  <1>3. CASE /\ db.grok => CredentialsUnchanged(c)
             /\ db' = [db EXCEPT !.token = call[c].new,
                                 !.edition = call[c].edition]
    <2>1. db' \in Rows /\ db'.token = call[c].new /\ db'.grok = db.grok
      BY <1>2, <1>3 DEF TypeOK, Rows
    <2>2. issued' \in Seq(1..MaxGrants) /\ live' \subseteq Tokens'
      BY <1>0 DEF TypeOK
    <2>3. TypeOK' /\ NewIsIssued' /\ OneInside' /\ Locked'
      BY <1>0, <1>1, <1>2, <2>1, <2>2, LeaveKeeps
    <2>4. db.grok => issued[call[c].new] = issued[db.token]
      BY <1>2, <1>3 DEF CredentialsUnchanged
    <2>5. CopyIsNewest'
      BY <1>0, <2>1 DEF CopyIsNewest, Newest
    <2>6. LatestGrantWins'
      BY <1>0, <2>1, <2>4 DEF LatestGrantWins, Newest
    <2> QED BY <2>3, <2>5, <2>6
  <1>4. CASE UNCHANGED db
    <2>1. /\ issued' \in Seq(1..MaxGrants) /\ live' \subseteq Tokens'
          /\ db' \in Rows /\ db'.token \in Tokens'
      BY <1>0, <1>4 DEF TypeOK
    <2>2. TypeOK' /\ NewIsIssued' /\ OneInside' /\ Locked'
      BY <1>0, <1>1, <2>1, LeaveKeeps
    <2>3. CopyIsNewest' /\ LatestGrantWins'
      BY <1>0, <1>4, RestKept
    <2> QED BY <2>2, <2>3
  <1> QED BY <1>3, <1>4 DEF Persist

LEMMA ReleaseKeeps ==
    ASSUME IInv, NEW c \in Callers, ReleaseRefreshLock(c)
    PROVE  IInv'
  <1> USE DEF IInv
  <1>0. call[c].pc = "release" /\ UNCHANGED <<db, issued, live, aged, adm>>
    BY DEF ReleaseRefreshLock
  <1>1. /\ call' \in [Callers -> Calls]
        /\ call'[c].pc \in {"idle", "setError"}
        /\ \A d \in Callers : d # c => call'[d] = call[d]
    BY ReturnFacts, GotoFacts DEF ReleaseRefreshLock, CallPcs
  <1>2. UNCHANGED faults \/ \E kind : Fault(kind)
    BY DEF ReleaseRefreshLock
  <1>3. faults' \in [count : 0..MaxFaults, kinds : SUBSET Perils]
    BY <1>2, FaultFacts DEF TypeOK
  <1>4. lock' = lock \/ (call[c].held /\ lock' = None)
    BY DEF ReleaseRefreshLock
  <1>5. TypeOK'
    BY <1>0, <1>1, <1>3, <1>4 DEF TypeOK, Tokens
  <1>6. NewIsIssued'
    BY <1>0, <1>1 DEF NewIsIssued, Tokens
  <1>7. OneInside'
    BY <1>1, InsideKept DEF Inside
  <1>8. Locked'
    <2>1. ASSUME NEW d \in Callers, d # c, lock = d
          PROVE  lock' = lock \/ Saw({"redisDown", "lockExpires"})
      BY <1>0, <2>1 DEF Locked
    <2> QED BY <1>1, <1>2, <2>1, LockedKept
  <1>9. CopyIsNewest' /\ LatestGrantWins'
    BY <1>0, RestKept
  <1> QED BY <1>5, <1>6, <1>7, <1>8, <1>9

LEMMA SetErrorKeeps ==
    ASSUME IInv, NEW c \in Callers, SetError(c)
    PROVE  IInv'
  <1> USE DEF IInv
  <1>0. /\ Return(c)
        /\ UNCHANGED <<issued, live, aged, lock, adm>>
    BY DEF SetError
  <1>1. /\ call' \in [Callers -> Calls] /\ call'[c].pc = "idle"
        /\ \A d \in Callers : d # c => call'[d] = call[d]
    BY <1>0, ReturnFacts
  <1>2. UNCHANGED faults \/ \E kind : Fault(kind)
    BY DEF SetError
  <1>3. faults' \in [count : 0..MaxFaults, kinds : SUBSET Perils]
    BY <1>2, FaultFacts DEF TypeOK
  <1>4. /\ db' \in Rows /\ db'.token = db.token /\ db'.grok = db.grok
    BY DEF SetError, TypeOK, Rows
  <1>5. TypeOK'
    BY <1>0, <1>1, <1>3, <1>4 DEF TypeOK, Tokens
  <1>6. NewIsIssued'
    BY <1>0, <1>1 DEF NewIsIssued, Tokens
  <1>7. OneInside'
    BY <1>1, InsideKept DEF Inside
  <1>8. Locked'
    BY <1>0, <1>1, <1>2, LockedKept
  <1>9. CopyIsNewest' /\ LatestGrantWins'
    BY <1>0, <1>4 DEF CopyIsNewest, LatestGrantWins, Newest
  <1> QED BY <1>5, <1>6, <1>7, <1>8, <1>9

LEMMA CrashKeeps ==
    ASSUME IInv, NEW h \in Hosts, Crash(h)
    PROVE  IInv'
  <1> USE DEF IInv
  <1>0. UNCHANGED <<db, issued, live, aged, lock, adm>> /\ Fault("crash")
    BY DEF Crash
  <1>1. Idle \in Calls /\ Idle.pc = "idle"
    BY DEF Calls, CallPcs, Idle
  <1>2. /\ call' \in [Callers -> Calls]
        /\ \A c \in Callers : call'[c] = call[c] \/ call'[c].pc = "idle"
    BY <1>1 DEF Crash, TypeOK
  <1>3. faults' \in [count : 0..MaxFaults, kinds : SUBSET Perils]
    BY <1>0, FaultFacts DEF TypeOK
  <1>4. TypeOK'
    BY <1>0, <1>2, <1>3 DEF TypeOK, Tokens
  <1>5. NewIsIssued' /\ OneInside'
    BY <1>0, <1>2 DEF NewIsIssued, OneInside, Inside, Tokens
  <1>6. Locked'
    <2>1. Saw({"redisDown", "lockExpires"}) => Saw({"redisDown", "lockExpires"})'
      BY <1>0, SawKept
    <2> QED BY <1>0, <1>2, <2>1 DEF Locked
  <1>7. CopyIsNewest' /\ LatestGrantWins'
    BY <1>0, RestKept
  <1> QED BY <1>4, <1>5, <1>6, <1>7

\* A step of the administrator leaves the calls and the lock alone.
LEMMA CallsKept ==
    ASSUME IInv, UNCHANGED <<lock, call>>,
           faults.kinds \subseteq faults'.kinds,
           Tokens \subseteq Tokens',
           \A t \in Tokens : issued'[t] = issued[t]
    PROVE  NewIsIssued' /\ OneInside' /\ Locked'
  <1> USE DEF IInv
  <1>1. NewIsIssued'
    BY DEF NewIsIssued, TypeOK
  <1>2. OneInside'
    BY DEF OneInside, Inside
  <1>3. Locked'
    BY DEF Locked, Saw
  <1> QED BY <1>1, <1>2, <1>3

LEMMA ExchangeKeeps == IInv /\ ExchangeCode => IInv'
  <1> SUFFICES ASSUME IInv, ExchangeCode PROVE IInv'
    OBVIOUS
  <1> USE DEF IInv
  <1> DEFINE t == Len(issued) + 1
  <1>0. /\ UNCHANGED <<db, aged, lock, call>>
        /\ issued' = Append(issued, Newest + 1)
        /\ live' \in {live \cup {t}, {t}}
        /\ adm' = [adm EXCEPT !.pc = "granted", !.token = t]
    BY DEF ExchangeCode
  <1>1. issued \in Seq(1..MaxGrants) /\ adm.token \in 1..Len(issued)
    BY DEF TypeOK, Tokens
  <1>2. Newest \in 1..MaxGrants
    BY <1>1, ElementOfSeq DEF Newest
  <1>3. Newest + 1 \in 1..MaxGrants
    BY <1>2, RefreshAssumption DEF ExchangeCode
  <1>4. /\ issued' \in Seq(1..MaxGrants) /\ Tokens' = Tokens \cup {t} /\ t \in Nat
        /\ \A u \in Tokens : issued'[u] = issued[u]
    BY <1>0, <1>1, <1>3, IssuedGrows
  <1>5. /\ adm' \in AdmStates
        /\ adm'.pc = "granted" /\ adm'.copy = adm.copy /\ adm'.token = t
    BY <1>0, <1>4 DEF TypeOK, AdmStates, AdmPcs
  <1>6. /\ faults' \in [count : 0..MaxFaults, kinds : SUBSET Perils]
        /\ faults.kinds \subseteq faults'.kinds
    <2>1. CASE UNCHANGED faults
      BY <2>1 DEF TypeOK
    <2>2. CASE /\ "revokes" \in Perils
               /\ faults' = [faults EXCEPT !.kinds = @ \cup {"revokes"}]
      BY <2>2 DEF TypeOK
    <2> QED BY <2>1, <2>2 DEF ExchangeCode
  <1>7. TypeOK'
    BY <1>0, <1>4, <1>5, <1>6 DEF TypeOK
  <1>8. NewIsIssued' /\ OneInside' /\ Locked'
    BY <1>0, <1>4, <1>6, CallsKept
  <1>9. CopyIsNewest' /\ LatestGrantWins'
    BY <1>0, <1>5 DEF CopyIsNewest, LatestGrantWins
  <1> QED BY <1>7, <1>8, <1>9

\* The administrator's request is done with its copy.
LEMMA DoneFacts ==
    ASSUME TypeOK, NEW pc \in AdmPcs, Done(pc)
    PROVE  /\ adm' \in AdmStates
           /\ adm'.pc = pc /\ adm'.token = adm.token /\ adm'.byHand = adm.byHand
           /\ adm'.copy.grok = db.grok /\ adm'.copy.token \in Tokens
           /\ adm'.copy.status = "active"
  <1> DEFINE b == [grok |-> db.grok, token |-> 1, edition |-> 0,
                   status |-> "active"]
  <1>1. /\ b \in Rows /\ b.grok = db.grok /\ b.token = 1
        /\ b.status = "active"
    BY DEF TypeOK, Rows
  <1>2. 1 \in Tokens
    BY DEF TypeOK, Tokens
  <1>3. adm \in AdmStates /\ adm' = [adm EXCEPT !.pc = pc, !.copy = b]
    BY DEF TypeOK, Done
  <1> HIDE DEF b
  <1> QED BY <1>1, <1>2, <1>3 DEF AdmStates

LEMMA ReadsKeeps == IInv /\ UpdateAccountReads => IInv'
  <1> SUFFICES ASSUME IInv, UpdateAccountReads PROVE IInv'
    OBVIOUS
  <1> USE DEF IInv
  <1>0. UNCHANGED <<db, issued, live, aged, lock, call>> /\ Tokens' = Tokens
    BY DEF UpdateAccountReads, Tokens
  <1>1. /\ faults' \in [count : 0..MaxFaults, kinds : SUBSET Perils]
        /\ faults.kinds \subseteq faults'.kinds
    BY FaultFacts DEF UpdateAccountReads, TypeOK
  <1>2. /\ adm' \in AdmStates /\ adm'.token = adm.token
        /\ adm'.copy.token \in Tokens /\ adm'.copy.grok = db.grok
        /\ \/ adm.pc = "idle" /\ adm'.pc = "edit" /\ adm'.copy = db
           \/ adm.pc = "granted" /\ adm'.pc = "authorize"
           \/ /\ adm.pc = "rotated" /\ adm'.pc = "store"
              /\ adm'.copy.token = adm.copy.token
           \/ adm.pc = "rotated" /\ adm'.pc = "idle"
    <2>1. CASE \/ /\ adm.pc = "idle"
                  /\ adm' = [adm EXCEPT !.pc = "edit", !.copy = db]
               \/ /\ adm.pc = "granted"
                  /\ adm' = [adm EXCEPT !.pc = "authorize", !.copy = db]
      BY <2>1 DEF TypeOK, AdmStates, AdmPcs
    <2>2. CASE /\ adm.pc = "rotated"
               /\ adm' = [adm EXCEPT !.pc = "store", !.copy.status = db.status]
      BY <2>2 DEF TypeOK, AdmStates, AdmPcs, Rows, CopyIsNewest
    <2>3. CASE adm.pc = "rotated" /\ Done("idle")
      BY <2>3, DoneFacts DEF AdmPcs
    <2> QED BY <2>1, <2>2, <2>3 DEF UpdateAccountReads
  <1>3. TypeOK'
    BY <1>0, <1>1, <1>2 DEF TypeOK
  <1>4. NewIsIssued' /\ OneInside' /\ Locked'
    BY <1>0, <1>1, CallsKept
  <1>5. CopyIsNewest' /\ LatestGrantWins'
    BY <1>0, <1>2 DEF CopyIsNewest, LatestGrantWins, Newest
  <1> QED BY <1>3, <1>4, <1>5

LEMMA EditKeeps == IInv /\ EditAccount => IInv'
  <1> SUFFICES ASSUME IInv, EditAccount PROVE IInv'
    OBVIOUS
  <1> USE DEF IInv
  <1>0. /\ UNCHANGED <<issued, live, aged, lock, call, faults>>
        /\ adm.pc = "edit" /\ Tokens' = Tokens
    BY DEF EditAccount, Tokens
  <1>1. /\ db' \in Rows /\ db'.token = adm.copy.token /\ db'.grok = adm.copy.grok
    BY DEF EditAccount, TypeOK, AdmStates, Rows
  <1>2. /\ adm' \in AdmStates
        /\ adm'.pc = "idle" /\ adm'.token = adm.token
        /\ adm'.copy.grok = db.grok /\ adm'.copy.token \in Tokens
    BY DoneFacts DEF EditAccount, AdmPcs
  <1>3. TypeOK'
    BY <1>0, <1>1, <1>2 DEF TypeOK
  <1>4. NewIsIssued' /\ OneInside' /\ Locked'
    BY <1>0, CallsKept
  <1>5. CopyIsNewest' /\ LatestGrantWins'
    BY <1>0, <1>1, <1>2 DEF CopyIsNewest, LatestGrantWins, Newest
  <1> QED BY <1>3, <1>4, <1>5

LEMMA ByHandKeeps == IInv /\ RefreshByHand => IInv'
  <1> SUFFICES ASSUME IInv, RefreshByHand PROVE IInv'
    OBVIOUS
  <1> USE DEF IInv
  <1>0. /\ UNCHANGED <<db, issued, live, aged, lock, call, faults>>
        /\ adm.pc = "idle" /\ Tokens' = Tokens
    BY DEF RefreshByHand, Tokens
  <1>1. adm.byHand + 1 \in 0..MaxManual
    BY RefreshAssumption DEF RefreshByHand, TypeOK, AdmStates
  <1>2. /\ adm' \in AdmStates
        /\ adm'.pc = "manual" /\ adm'.copy = db /\ adm'.token = adm.token
    BY <1>1 DEF RefreshByHand, TypeOK, AdmStates, AdmPcs
  <1>3. TypeOK'
    BY <1>0, <1>2 DEF TypeOK
  <1>4. NewIsIssued' /\ OneInside' /\ Locked'
    BY <1>0, CallsKept
  <1>5. CopyIsNewest' /\ LatestGrantWins'
    BY <1>0, <1>2 DEF CopyIsNewest, LatestGrantWins, Newest
  <1> QED BY <1>3, <1>4, <1>5

\* A refresh by hand, too, gets the next token of the same grant.
LEMMA SingleKeeps == IInv /\ RefreshSingleAccount => IInv'
  <1> SUFFICES ASSUME IInv, RefreshSingleAccount PROVE IInv'
    OBVIOUS
  <1> USE DEF IInv
  <1> DEFINE t == adm.copy.token
             n == Len(issued) + 1
  <1>0. UNCHANGED <<db, aged, lock, call>> /\ adm.pc = "manual" /\ t \in Tokens
    BY DEF RefreshSingleAccount, TypeOK
  <1>1. /\ faults' \in [count : 0..MaxFaults, kinds : SUBSET Perils]
        /\ faults.kinds \subseteq faults'.kinds
    BY FaultFacts DEF RefreshSingleAccount, TypeOK
  <1>2. /\ issued' \in Seq(1..MaxGrants) /\ Tokens \subseteq Tokens'
        /\ \A u \in Tokens : issued'[u] = issued[u]
        /\ live' \subseteq Tokens'
    <2>1. CASE Rotate(t)
      BY <1>0, <2>1, RotateFacts
    <2>2. CASE UNCHANGED <<issued, live>>
      BY <2>2 DEF TypeOK, Tokens
    <2> QED BY <2>1, <2>2 DEF RefreshSingleAccount
  <1>3. /\ adm' \in AdmStates /\ adm'.token = adm.token
        /\ adm'.copy.grok = db.grok /\ adm'.copy.token \in Tokens'
        /\ \/ adm'.pc = "idle"
           \/ adm'.pc = "rotated" /\ issued'[adm'.copy.token] = issued[t]
    <2>1. CASE /\ Rotate(t)
               /\ adm' = [adm EXCEPT !.pc = "rotated", !.copy.token = n]
      <3>1. n \in Nat /\ n \in Tokens' /\ issued'[n] = issued[t]
        BY <1>0, <2>1, RotateFacts
      <3> HIDE DEF n
      <3>2. /\ adm' \in AdmStates /\ adm'.token = adm.token
            /\ adm'.copy.grok = adm.copy.grok /\ adm'.copy.token = n
            /\ adm'.pc = "rotated"
        BY <2>1, <3>1 DEF TypeOK, AdmStates, AdmPcs, Rows
      <3> QED BY <3>1, <3>2 DEF CopyIsNewest
    <2>2. CASE Done("idle")
      BY <1>2, <2>2, DoneFacts DEF AdmPcs
    <2> QED BY <2>1, <2>2 DEF RefreshSingleAccount
  <1>4. TypeOK'
    BY <1>0, <1>1, <1>2, <1>3 DEF TypeOK
  <1>5. NewIsIssued' /\ OneInside' /\ Locked'
    BY <1>0, <1>1, <1>2, CallsKept
  <1>6. CopyIsNewest' /\ LatestGrantWins'
    <2>1. Newest' = Newest /\ issued'[db.token] = issued[db.token]
      BY <1>2, <1>3 DEF Newest, TypeOK
    <2> QED BY <1>0, <1>3, <2>1 DEF CopyIsNewest, LatestGrantWins
  <1> QED BY <1>4, <1>5, <1>6

LEMMA StoreKeeps == IInv /\ StoreRefreshedByHand => IInv'
  <1> SUFFICES ASSUME IInv, StoreRefreshedByHand PROVE IInv'
    OBVIOUS
  <1> USE DEF IInv
  <1>0. /\ UNCHANGED <<issued, live, aged, lock, call>>
        /\ adm.pc = "store" /\ Tokens' = Tokens
    BY DEF StoreRefreshedByHand, Tokens
  <1>1. db' \in {db, adm.copy} /\ adm.copy \in Rows /\ db'.grok = db.grok
    BY DEF StoreRefreshedByHand, TypeOK, AdmStates, CopyIsNewest
  <1>2. /\ adm' \in AdmStates
        /\ adm'.pc = "idle" /\ adm'.token = adm.token
        /\ adm'.copy.grok = db.grok /\ adm'.copy.token \in Tokens
    BY DoneFacts DEF StoreRefreshedByHand, AdmPcs
  <1>3. /\ faults' \in [count : 0..MaxFaults, kinds : SUBSET Perils]
        /\ faults.kinds \subseteq faults'.kinds
    BY FaultFacts DEF StoreRefreshedByHand, TypeOK
  <1>4. TypeOK'
    BY <1>0, <1>1, <1>2, <1>3 DEF TypeOK
  <1>5. NewIsIssued' /\ OneInside' /\ Locked'
    BY <1>0, <1>3, CallsKept
  <1>6. CopyIsNewest' /\ LatestGrantWins'
    BY <1>0, <1>1, <1>2 DEF CopyIsNewest, LatestGrantWins, Newest
  <1> QED BY <1>4, <1>5, <1>6

LEMMA ApplyKeeps == IInv /\ ApplyOAuthCredentials => IInv'
  <1> SUFFICES ASSUME IInv, ApplyOAuthCredentials PROVE IInv'
    OBVIOUS
  <1> USE DEF IInv
  <1>0. UNCHANGED <<issued, live, aged, lock, call, faults>> /\ Tokens' = Tokens
    BY DEF ApplyOAuthCredentials, Tokens
  <1>1. /\ db' \in Rows /\ db'.token = adm.token /\ db'.grok = adm.copy.grok
    BY DEF ApplyOAuthCredentials, TypeOK, AdmStates, Rows
  <1>2. /\ adm' \in AdmStates
        /\ adm'.pc = "clearError" /\ adm'.token = adm.token
        /\ adm'.copy.grok = db.grok /\ adm'.copy.token \in Tokens
    BY DoneFacts DEF ApplyOAuthCredentials, AdmPcs
  <1>3. TypeOK'
    BY <1>0, <1>1, <1>2 DEF TypeOK
  <1>4. NewIsIssued' /\ OneInside' /\ Locked'
    BY <1>0, CallsKept
  <1>5. CopyIsNewest' /\ LatestGrantWins'
    BY <1>0, <1>1, <1>2 DEF CopyIsNewest, LatestGrantWins, Newest
  <1> QED BY <1>3, <1>4, <1>5

LEMMA ClearKeeps == IInv /\ ClearAccountError => IInv'
  <1> SUFFICES ASSUME IInv, ClearAccountError PROVE IInv'
    OBVIOUS
  <1> USE DEF IInv
  <1>0. /\ UNCHANGED <<issued, live, aged, lock, call>>
        /\ adm.pc = "clearError" /\ Tokens' = Tokens
    BY DEF ClearAccountError, Tokens
  <1>1. /\ db' \in Rows /\ db'.token = db.token /\ db'.grok = db.grok
    BY DEF ClearAccountError, TypeOK, Rows
  <1>2. /\ adm' \in AdmStates
        /\ adm'.pc = "idle" /\ adm'.token = adm.token
        /\ adm'.copy.grok = db.grok /\ adm'.copy.token \in Tokens
    BY DoneFacts DEF ClearAccountError, AdmPcs
  <1>3. /\ faults' \in [count : 0..MaxFaults, kinds : SUBSET Perils]
        /\ faults.kinds \subseteq faults'.kinds
    BY FaultFacts DEF ClearAccountError, TypeOK
  <1>4. TypeOK'
    BY <1>0, <1>1, <1>2, <1>3 DEF TypeOK
  <1>5. NewIsIssued' /\ OneInside' /\ Locked'
    BY <1>0, <1>3, CallsKept
  <1>6. CopyIsNewest' /\ LatestGrantWins'
    BY <1>0, <1>1, <1>2 DEF CopyIsNewest, LatestGrantWins, Newest
  <1> QED BY <1>4, <1>5, <1>6

-----------------------------------------------------------------------------
\* Every step keeps the inductive invariant.
THEOREM Invariance == Spec => []IInv
  <1>1. ASSUME IInv, [Next]_vars PROVE IInv'
    <2>1. CASE UNCHANGED vars
      <3>1. UNCHANGED <<db, issued, live, aged, lock, call, adm, faults>>
        BY <2>1 DEF vars
      <3>2. TypeOK'
        BY <1>1, <3>1 DEF IInv, TypeOK, Tokens
      <3>3. NewIsIssued' /\ OneInside' /\ Locked'
        BY <1>1, <3>1, CallsKept DEF Tokens
      <3>4. CopyIsNewest' /\ LatestGrantWins'
        BY <1>1, <3>1, RestKept DEF IInv
      <3> QED BY <3>2, <3>3, <3>4 DEF IInv
    <2>2. CASE TokenAges
      BY <1>1, <2>2, TokenAgesKeeps
    <2>3. CASE LockExpires
      BY <1>1, <2>3, LockExpiresKeeps
    <2>4. ASSUME NEW c \in Callers, LockLocal(c) \/ RefreshIfNeeded(c)
          PROVE  IInv'
      BY <1>1, <2>4, LockLocalKeeps, AcquireKeeps, RereadKeeps, RefreshKeeps,
         RecoverKeeps, PersistKeeps, ReleaseKeeps, SetErrorKeeps
         DEF RefreshIfNeeded
    <2>5. ASSUME NEW h \in Hosts, Crash(h) PROVE IInv'
      BY <1>1, <2>5, CrashKeeps
    <2>6. CASE \/ ExchangeCode \/ UpdateAccountReads \/ EditAccount
               \/ ApplyOAuthCredentials \/ ClearAccountError
               \/ RefreshByHand \/ RefreshSingleAccount \/ StoreRefreshedByHand
      BY <1>1, <2>6, ExchangeKeeps, ReadsKeeps, EditKeeps, ApplyKeeps, ClearKeeps,
         ByHandKeeps, SingleKeeps, StoreKeeps
    <2> QED BY <1>1, <2>1, <2>2, <2>3, <2>4, <2>5, <2>6 DEF Next
  <1> QED BY <1>1, Initially, PTL DEF Spec

\* The variables keep their types, and every token a step uses was issued.
THEOREM TypeCorrect == Spec => []TypeOK
  <1>1. IInv => TypeOK
    BY DEF IInv
  <1> QED BY <1>1, Invariance, PTL

\* The host's mutex and the Redis lock keep RefreshIfNeeded calls of one
\* account apart, unless Redis failed or a refresh outlived the lock; a refresh
\* by hand takes neither.
THEOREM OnlyOneAtProvider == Spec => []OneAtProvider
  <1>1. ASSUME IInv PROVE OneAtProvider
    <2> SUFFICES ASSUME NEW c \in AtProvider, NEW d \in AtProvider, c # d
                 PROVE  Host[c] # Host[d] /\ Saw({"redisDown", "lockExpires"})
      BY DEF OneAtProvider
    <2>1. Host[c] # Host[d]
      BY <1>1 DEF IInv, OneInside, Inside, AtProvider
    <2>2. Saw({"redisDown", "lockExpires"})
      BY <1>1 DEF IInv, Locked, AtProvider
    <2> QED BY <2>1, <2>2
  <1> QED BY <1>1, Invariance, PTL

\* A refresh under way, by hand or not, never puts an old authorization of a
\* Grok account back.
THEOREM NewestGrantStays == Spec => []LatestGrantWins
  <1>1. IInv => LatestGrantWins
    BY DEF IInv
  <1> QED BY <1>1, Invariance, PTL

-----------------------------------------------------------------------------
(* The chain of refresh tokens: what is issued is stored, or known to one  *)
(* who will store it, and an account is disabled for a lost token only.    *)

\* The calls that use a token, or are about to store its successor.
ProviderPcs == {"refresh", "recover", "persist"}
Storing(c) == call[c].pc = "persist"

\* An authorization was granted, and its token is not in the row yet.
Granting == adm.pc \in {"granted", "authorize"}

\* A refresh by hand got a token, and it is not in the row yet.
Handing == adm.pc \in {"rotated", "store"}

\* The administrator's request read the row.
Reading == adm.pc \in {"edit", "authorize", "manual"}

\* Nobody read the token from the row.
Unseen(t) ==
    /\ t # db.token
    /\ Reading => t # adm.copy.token
    /\ \A d \in Callers : call[d].pc \in ProviderPcs => call[d].token # t

\* A token that was issued and is not in the row yet is known to the one who
\* is to store it alone.
UnstoredIsUnseen ==
    /\ \A c \in Callers : Storing(c) => Unseen(call[c].new)
    /\ \A c, d \in Callers :
          c # d /\ Storing(c) /\ Storing(d) => call[c].new # call[d].new
    /\ Granting =>
          /\ Unseen(adm.token) /\ adm.token \in live
          /\ \A c \in Callers : Storing(c) => call[c].new # adm.token
    /\ Handing =>
          /\ Unseen(adm.copy.token) /\ adm.copy.token \in live
          /\ \A c \in Callers : Storing(c) => call[c].new # adm.copy.token

\* Every answer was stored, and no edit was made.
Stored == ~Saw({"answerLate", "dbFails", "crash", "edit"})

\* Only an edit changes the rest of the credentials.
EditionsAgree ==
    /\ adm.pc # "edit"
    /\ Reading \/ Handing => adm.copy.edition = db.edition
    /\ \A c \in Callers : call[c].pc \in ProviderPcs =>
          call[c].edition = db.edition

\* What a call stores, if it does, works.
NewIsLive ==
    \A c \in Callers : Storing(c) =>
        \/ call[c].new \in live
        \/ /\ Saw({"revokes"})
           /\ db.grok => Granting \/ call[c].token # db.token

\* A token nobody holds the successor of, and the provider refuses.
Lost(t) ==
    /\ t \in Tokens /\ t \notin live
    /\ \A d \in Callers : Storing(d) => call[d].token # t

\* No two refreshes overlapped, there was none by hand, and the account's
\* error was cleared when it was to be.
Apart == ~Saw({"redisDown", "lockExpires", "dbFails"}) /\ adm.byHand = 0

\* The provider refused the call's token: it is to disable the account.
Disabling(c) ==
    \/ call[c].pc \in {"recover", "setError"}
    \/ call[c].pc = "release" /\ call[c].permanent

\* A call that is about to disable the account, and a row or a copy of it
\* that is disabled, has a lost token.
DisablesLost ==
    /\ \A c \in Callers : Disabling(c) => Lost(call[c].token)
    /\ adm.copy.status = "error" => Lost(adm.copy.token)
    /\ db.status = "error" /\ adm.pc # "clearError" => Lost(db.token)

\* A refresh by hand under way is counted.
HandIsCounted ==
    adm.pc \in {"manual", "rotated", "store"} => adm.byHand # 0

TokenInv ==
    /\ HandIsCounted
    /\ UnstoredIsUnseen
    /\ Stored => EditionsAgree /\ NewIsLive /\ StoredTokenWorks
    /\ db.grok /\ Apart => DisablesLost

-----------------------------------------------------------------------------
LEMMA FaultsGrow ==
    ASSUME faults.kinds \subseteq faults'.kinds,
           adm'.byHand = 0 => adm.byHand = 0
    PROVE  /\ Stored' => Stored
           /\ Apart' => Apart
           /\ Saw({"revokes"}) => Saw({"revokes"})'
  BY DEF Stored, Apart, Saw

\* Nobody moves.
LEMMA NobodyMoves ==
    ASSUME TokenInv, UNCHANGED <<db, issued, live, call, adm>>,
           faults.kinds \subseteq faults'.kinds
    PROVE  TokenInv'
  <1>1. UnstoredIsUnseen'
    BY DEF TokenInv, UnstoredIsUnseen, Unseen, Storing, Granting, Handing, Reading
  <1>2. Stored' => EditionsAgree' /\ NewIsLive' /\ StoredTokenWorks'
    <2>1. Stored' => EditionsAgree'
      BY FaultsGrow DEF TokenInv, EditionsAgree, Reading, Handing
    <2>2. Stored' => NewIsLive'
      BY FaultsGrow DEF TokenInv, NewIsLive, Storing, Granting
    <2>3. Stored' => StoredTokenWorks'
      BY FaultsGrow DEF TokenInv, StoredTokenWorks, Stored
    <2> QED BY <2>1, <2>2, <2>3
  <1>3. db'.grok /\ Apart' => DisablesLost'
    BY FaultsGrow DEF TokenInv, DisablesLost, Disabling, Lost, Storing, Tokens
  <1> QED BY <1>1, <1>2, <1>3 DEF TokenInv, HandIsCounted

\* A call moves on without storing anything: what it is about to use is what
\* it or the row has, and what it gives up is not the row's successor.
LEMMA CallMovesOn ==
    ASSUME TokenInv, NEW c \in Callers, UNCHANGED <<db, issued, live, adm>>,
           faults.kinds \subseteq faults'.kinds,
           \A d \in Callers : d # c => call'[d] = call[d],
           call'[c].pc # "persist",
           call'[c].pc \in ProviderPcs =>
               \/ call'[c].token = db.token /\ call'[c].edition = db.edition
               \/ /\ call[c].pc \in ProviderPcs
                  /\ call'[c].token = call[c].token
                  /\ call'[c].edition = call[c].edition,
           Storing(c) /\ Stored' => call[c].token # db.token,
           db.grok /\ Apart' /\ Disabling(c)' => Lost(call'[c].token)
    PROVE  TokenInv'
  <1>1. UnstoredIsUnseen'
    BY DEF TokenInv, UnstoredIsUnseen, Unseen, Storing, Granting, Handing, Reading, ProviderPcs
  <1>2. Stored' => EditionsAgree'
    BY FaultsGrow DEF TokenInv, EditionsAgree, Reading, Handing
  <1>3. Stored' => NewIsLive'
    BY FaultsGrow DEF TokenInv, NewIsLive, Storing, Granting
  <1>4. Stored' => StoredTokenWorks'
    <2> SUFFICES ASSUME Stored' PROVE StoredTokenWorks'
      OBVIOUS
    <2>1. Stored /\ StoredTokenWorks
      BY FaultsGrow DEF TokenInv
    <2>2. CASE ~db.grok /\ Saw({"revokes"})
      BY <2>2, FaultsGrow DEF StoredTokenWorks
    <2>3. CASE \E d \in Callers : call[d].pc = "persist" /\ call[d].token = db.token
      BY <2>3 DEF StoredTokenWorks, Storing
    <2> QED BY <2>1, <2>2, <2>3 DEF StoredTokenWorks, Stored
  <1>5. db'.grok /\ Apart' => DisablesLost'
    <2> SUFFICES ASSUME db.grok, Apart' PROVE DisablesLost'
      OBVIOUS
    <2>1. DisablesLost
      BY FaultsGrow DEF TokenInv
    <2>2. \A t : Lost(t) => Lost(t)'
      BY DEF Lost, Storing, Tokens
    <2>3. \A d \in Callers : Disabling(d)' => Lost(call'[d].token)
      BY <2>1 DEF DisablesLost, Disabling
    <2> QED BY <2>1, <2>2, <2>3 DEF DisablesLost
  <1> QED BY <1>1, <1>2, <1>3, <1>4, <1>5 DEF TokenInv, HandIsCounted

LEMMA FaultGrows ==
    ASSUME TypeOK, UNCHANGED faults \/ \E kind : Fault(kind)
    PROVE  faults.kinds \subseteq faults'.kinds
  BY FaultFacts DEF TypeOK

LEMMA LockTokens ==
    ASSUME IInv, TokenInv, NEW c \in Callers,
           LockLocal(c) \/ AcquireRefreshLock(c)
    PROVE  TokenInv'
  <1>1. UNCHANGED <<db, issued, live, adm>>
    BY DEF LockLocal, AcquireRefreshLock
  <1>2. faults.kinds \subseteq faults'.kinds
    BY FaultGrows DEF IInv, LockLocal, AcquireRefreshLock
  <1>3. /\ call'[c].pc \in {"idle", "lock", "reread"}
        /\ \A d \in Callers : d # c => call'[d] = call[d]
    BY DEF IInv, TypeOK, LockLocal, AcquireRefreshLock, Goto, Return, Idle, Calls
  <1>4. call[c].pc \in {"idle", "lock"}
    BY DEF LockLocal, AcquireRefreshLock
  <1> QED BY <1>1, <1>2, <1>3, <1>4, CallMovesOn
          DEF ProviderPcs, Storing, Disabling

LEMMA RereadTokens ==
    ASSUME IInv, TokenInv, NEW c \in Callers, Reread(c)
    PROVE  TokenInv'
  <1>1. UNCHANGED <<db, issued, live, adm>> /\ call[c].pc = "reread"
    BY DEF Reread
  <1>2. faults.kinds \subseteq faults'.kinds
    BY FaultGrows DEF IInv, Reread
  <1>3. CASE call' = [call EXCEPT ![c].pc = "refresh",
                                  ![c].token = db.token,
                                  ![c].edition = db.edition]
    <2>1. /\ call'[c].pc = "refresh" /\ call'[c].token = db.token
          /\ call'[c].edition = db.edition
          /\ \A d \in Callers : d # c => call'[d] = call[d]
      BY <1>3 DEF IInv, TypeOK, Calls
    <2> QED BY <1>1, <1>2, <2>1, CallMovesOn DEF Storing, Disabling
  <1>4. CASE Leave(c)
    BY <1>1, <1>2, <1>4, LeaveFacts, CallMovesOn
       DEF IInv, ProviderPcs, Storing, Disabling
  <1> QED BY <1>3, <1>4 DEF Reread

\* The provider refuses a token, and no other call is at the provider.
LEMMA RefusedIsLost ==
    ASSUME IInv, Apart, NEW c \in Callers, call[c].pc = "refresh",
           call[c].token \notin live
    PROVE  Lost(call[c].token)
  <1>1. ASSUME NEW d \in Callers, Storing(d) PROVE d = c
    BY <1>1 DEF IInv, Locked, Storing, Apart, Saw
  <1>2. call[c].token \in Tokens
    BY DEF IInv, TypeOK
  <1> QED BY <1>1, <1>2 DEF Lost, Storing

LEMMA RefusedTokens ==
    ASSUME IInv, TokenInv, NEW c \in Callers, call[c].pc = "refresh",
           UNCHANGED <<db, issued, live, adm>>,
           \/ /\ call[c].token \notin live
              /\ Goto(c, "recover") /\ UNCHANGED faults
           \/ Leave(c) /\ Fault("providerFails")
    PROVE  TokenInv'
  <1>1. faults.kinds \subseteq faults'.kinds
    BY FaultGrows DEF IInv
  <1>2. CASE call[c].token \notin live /\ Goto(c, "recover") /\ UNCHANGED faults
    <2>1. /\ call'[c].pc = "recover" /\ call'[c].token = call[c].token
          /\ call'[c].edition = call[c].edition
          /\ \A d \in Callers : d # c => call'[d] = call[d]
      BY <1>2 DEF IInv, TypeOK, Goto, Calls
    <2>2. Apart' => Lost(call[c].token)
      BY <1>1, <1>2, FaultsGrow, RefusedIsLost
    <2> QED BY <1>1, <2>1, <2>2, CallMovesOn DEF ProviderPcs, Storing
  <1>3. CASE Leave(c)
    BY <1>1, <1>3, LeaveFacts, CallMovesOn
       DEF IInv, ProviderPcs, Storing, Disabling
  <1> QED BY <1>2, <1>3

LEMMA RecoverTokens ==
    ASSUME IInv, TokenInv, NEW c \in Callers, TryRecoverFromRefreshRace(c)
    PROVE  TokenInv'
  <1>1. UNCHANGED <<db, issued, live, adm>> /\ call[c].pc = "recover"
    BY DEF TryRecoverFromRefreshRace
  <1>2. faults.kinds \subseteq faults'.kinds
    BY FaultGrows DEF IInv, TryRecoverFromRefreshRace
  <1>3. db.grok /\ Apart' => Lost(call[c].token)
    BY <1>1, <1>2, FaultsGrow DEF TokenInv, DisablesLost, Disabling
  <1>4. CASE call' = [call EXCEPT ![c].pc = "release",
                                  ![c].permanent = TRUE]
    <2>1. /\ call'[c].pc = "release" /\ call'[c].token = call[c].token
          /\ \A d \in Callers : d # c => call'[d] = call[d]
      BY <1>4 DEF IInv, TypeOK, Calls
    <2> QED BY <1>1, <1>2, <1>3, <2>1, CallMovesOn DEF ProviderPcs, Storing
  <1>5. CASE Leave(c)
    BY <1>1, <1>2, <1>5, LeaveFacts, CallMovesOn
       DEF IInv, ProviderPcs, Storing, Disabling
  <1> QED BY <1>4, <1>5 DEF TryRecoverFromRefreshRace

LEMMA ReleaseTokens ==
    ASSUME IInv, TokenInv, NEW c \in Callers, ReleaseRefreshLock(c)
    PROVE  TokenInv'
  <1>1. UNCHANGED <<db, issued, live, adm>> /\ call[c].pc = "release"
    BY DEF ReleaseRefreshLock
  <1>2. faults.kinds \subseteq faults'.kinds
    BY FaultGrows DEF IInv, ReleaseRefreshLock
  <1>3. /\ \/ call'[c].pc = "idle"
           \/ /\ call[c].permanent
              /\ call'[c].pc = "setError" /\ call'[c].token = call[c].token
        /\ \A d \in Callers : d # c => call'[d] = call[d]
    BY ReturnFacts, GotoFacts DEF IInv, ReleaseRefreshLock, CallPcs
  <1>4. db.grok /\ Apart' /\ call[c].permanent => Lost(call[c].token)
    BY <1>1, <1>2, FaultsGrow DEF TokenInv, DisablesLost, Disabling
  <1> QED BY <1>1, <1>2, <1>3, <1>4, CallMovesOn
          DEF ProviderPcs, Storing, Disabling

\* The next token is new to everybody.
LEMMA NextIsFresh ==
    ASSUME TypeOK
    PROVE  Len(issued) + 1 \notin Tokens
  BY DEF TypeOK, Tokens

LEMMA RotateTokens ==
    ASSUME IInv, TokenInv, NEW c \in Callers, Refresh(c),
           call[c].token \in live, Rotate(call[c].token),
           \/ /\ call' = [call EXCEPT ![c].pc = "persist",
                                      ![c].new = Len(issued) + 1]
              /\ UNCHANGED faults
           \/ Leave(c) /\ Fault("answerLate")
    PROVE  TokenInv'
  <1> DEFINE t == call[c].token
             n == Len(issued) + 1
  <1>0. /\ call[c].pc = "refresh" /\ UNCHANGED <<db, adm>>
        /\ t \in Tokens /\ n \notin Tokens
        /\ live' = (live \ {t}) \cup {n} /\ Tokens \subseteq Tokens'
    BY NextIsFresh, RotateFacts DEF Refresh, Rotate, IInv, TypeOK
  <1>1. /\ \/ /\ call'[c].pc = "persist" /\ call'[c].new = n
              /\ call'[c].token = t /\ call'[c].edition = call[c].edition
              /\ UNCHANGED faults
           \/ /\ call'[c].pc = "release" /\ ~call'[c].permanent
              /\ Fault("answerLate")
        /\ \A d \in Callers : d # c => call'[d] = call[d]
    <2>1. CASE /\ UNCHANGED faults
               /\ call' = [call EXCEPT ![c].pc = "persist",
                                       ![c].new = Len(issued) + 1]
      BY <2>1 DEF IInv, TypeOK, Calls
    <2>2. CASE Leave(c) /\ Fault("answerLate")
      BY <2>2, LeaveFacts DEF IInv
    <2> QED BY <2>1, <2>2
  <1>2. faults.kinds \subseteq faults'.kinds
    BY <1>1, FaultGrows DEF IInv
  <1>3. /\ db.token \in Tokens /\ adm.copy.token \in Tokens /\ adm.token \in Tokens
        /\ \A d \in Callers : call[d].pc \in ProviderPcs => call[d].token \in Tokens
        /\ \A d \in Callers : Storing(d) => call[d].new \in Tokens
    BY DEF IInv, TypeOK, NewIsIssued, ProviderPcs, Storing
  <1> HIDE DEF n, t
  <1>4. \A x \in Tokens : Unseen(x) => Unseen(x)' /\ x # t
    BY <1>0, <1>1 DEF Unseen, Reading, ProviderPcs, t
  <1>5. \A x : x \notin Tokens => Unseen(x)'
    BY <1>0, <1>1, <1>3 DEF Unseen, Reading, ProviderPcs
  <1>6. UnstoredIsUnseen'
    <2>1. \A d \in Callers : (Storing(d) => Unseen(call[d].new))'
      BY <1>0, <1>1, <1>3, <1>4, <1>5 DEF TokenInv, UnstoredIsUnseen, Storing
    <2>2. \A d, e \in Callers : d # e /\ Storing(d)' /\ Storing(e)' =>
              call'[d].new # call'[e].new
      BY <1>0, <1>1, <1>3 DEF TokenInv, UnstoredIsUnseen, Storing
    <2>3. (Granting =>
              /\ Unseen(adm.token) /\ adm.token \in live
              /\ \A d \in Callers : Storing(d) => call[d].new # adm.token)'
      BY <1>0, <1>1, <1>3, <1>4 DEF TokenInv, UnstoredIsUnseen, Storing, Granting
    <2>4. (Handing =>
              /\ Unseen(adm.copy.token) /\ adm.copy.token \in live
              /\ \A d \in Callers : Storing(d) => call[d].new # adm.copy.token)'
      BY <1>0, <1>1, <1>3, <1>4 DEF TokenInv, UnstoredIsUnseen, Storing, Handing
    <2> QED BY <2>1, <2>2, <2>3, <2>4 DEF UnstoredIsUnseen
  <1>7. Stored' => EditionsAgree' /\ NewIsLive' /\ StoredTokenWorks'
    <2> SUFFICES ASSUME Stored'
                 PROVE  EditionsAgree' /\ NewIsLive' /\ StoredTokenWorks'
      OBVIOUS
    <2>1. /\ Stored /\ EditionsAgree /\ NewIsLive /\ StoredTokenWorks
          /\ Saw({"revokes"}) => Saw({"revokes"})'
      BY <1>0, <1>2, FaultsGrow DEF TokenInv
    <2>2. /\ call'[c].pc = "persist" /\ call'[c].new = n
          /\ call'[c].token = t /\ call'[c].edition = call[c].edition
      BY <1>1, FaultFacts DEF Stored, Saw, IInv, TypeOK
    <2>3. EditionsAgree'
      BY <1>0, <1>1, <2>1, <2>2 DEF EditionsAgree, Reading, Handing, ProviderPcs
    <2>4. NewIsLive'
      <3>1. ASSUME NEW d \in Callers, d # c, Storing(d), call[d].new \in live
            PROVE  call[d].new \in live'
        BY <1>0, <1>3, <1>4, <3>1 DEF TokenInv, UnstoredIsUnseen
      <3> QED BY <1>0, <1>1, <2>1, <2>2, <3>1 DEF NewIsLive, Storing, Granting
    <2>5. StoredTokenWorks'
      <3>1. CASE db.token = t
        BY <1>0, <2>2, <3>1 DEF StoredTokenWorks
      <3>2. CASE db.token # t /\ db.token \in live
        BY <1>0, <3>2 DEF StoredTokenWorks
      <3>3. CASE \E d \in Callers : call[d].pc = "persist" /\ call[d].token = db.token
        BY <1>0, <1>1, <3>3 DEF StoredTokenWorks
      <3>4. CASE \/ adm.pc \in {"granted", "authorize", "rotated", "store"}
                 \/ ~db.grok /\ Saw({"revokes"})
        BY <1>0, <2>1, <3>4 DEF StoredTokenWorks
      <3> QED BY <2>1, <3>1, <3>2, <3>3, <3>4 DEF StoredTokenWorks, Stored
    <2> QED BY <2>3, <2>4, <2>5
  <1>8. db'.grok /\ Apart' => DisablesLost'
    <2> SUFFICES ASSUME db.grok, Apart' PROVE DisablesLost'
      BY <1>0
    <2>1. DisablesLost
      BY <1>0, <1>2, FaultsGrow DEF TokenInv
    <2>2. \A x : Lost(x) => Lost(x)'
      BY <1>0, <1>1 DEF Lost, Storing, t
    <2> QED BY <1>0, <1>1, <2>1, <2>2 DEF DisablesLost, Disabling
  <1> QED BY <1>0, <1>6, <1>7, <1>8 DEF TokenInv, HandIsCounted

LEMMA RefreshTokens ==
    ASSUME IInv, TokenInv, NEW c \in Callers, Refresh(c)
    PROVE  TokenInv'
  <1>1. call[c].pc = "refresh" /\ UNCHANGED <<db, adm>>
    BY DEF Refresh
  <1> QED BY <1>1, RotateTokens, RefusedTokens DEF Refresh

LEMMA PersistTokens ==
    ASSUME IInv, TokenInv, NEW c \in Callers, Persist(c)
    PROVE  TokenInv'
  <1>0. /\ Storing(c) /\ Leave(c) /\ UNCHANGED <<issued, live, adm>>
        /\ Tokens' = Tokens
    BY DEF Persist, Storing, Tokens
  <1>1. /\ call'[c].pc = "release" /\ ~call'[c].permanent
        /\ \A d \in Callers : d # c => call'[d] = call[d]
    BY <1>0, LeaveFacts DEF IInv
  <1>2. faults.kinds \subseteq faults'.kinds
    BY FaultGrows DEF IInv, Persist
  <1>3. CASE /\ db.grok => CredentialsUnchanged(c)
             /\ db' = [db EXCEPT !.token = call[c].new,
                                 !.edition = call[c].edition]
    <2>1. /\ db'.token = call[c].new /\ db'.edition = call[c].edition
          /\ db'.grok = db.grok /\ db'.status = db.status
      BY <1>3 DEF IInv, TypeOK, Rows
    <2>2. UnstoredIsUnseen'
      <3>1. \A d \in Callers : (Storing(d) => Unseen(call[d].new))'
        BY <1>0, <1>1, <2>1
           DEF TokenInv, UnstoredIsUnseen, Storing, Unseen, Reading, ProviderPcs
      <3>2. \A d, e \in Callers : d # e /\ Storing(d)' /\ Storing(e)' =>
                call'[d].new # call'[e].new
        BY <1>1 DEF TokenInv, UnstoredIsUnseen, Storing
      <3>3. (Granting =>
                /\ Unseen(adm.token) /\ adm.token \in live
                /\ \A d \in Callers : Storing(d) => call[d].new # adm.token)'
        BY <1>0, <1>1, <2>1
           DEF TokenInv, UnstoredIsUnseen, Storing, Granting, Unseen, Reading, ProviderPcs
      <3>4. (Handing =>
                /\ Unseen(adm.copy.token) /\ adm.copy.token \in live
                /\ \A d \in Callers : Storing(d) => call[d].new # adm.copy.token)'
        BY <1>0, <1>1, <2>1
           DEF TokenInv, UnstoredIsUnseen, Storing, Handing, Unseen, Reading,
               ProviderPcs
      <3> QED BY <3>1, <3>2, <3>3, <3>4 DEF UnstoredIsUnseen
    <2>3. Stored' => EditionsAgree' /\ NewIsLive' /\ StoredTokenWorks'
      <3> SUFFICES ASSUME Stored'
                   PROVE  EditionsAgree' /\ NewIsLive' /\ StoredTokenWorks'
        OBVIOUS
      <3>1. /\ EditionsAgree /\ NewIsLive
            /\ Saw({"revokes"}) => Saw({"revokes"})'
        BY <1>0, <1>2, FaultsGrow DEF TokenInv
      <3>2. EditionsAgree'
        BY <1>0, <1>1, <2>1, <3>1 DEF EditionsAgree, Reading, Handing, Storing, ProviderPcs
      <3>3. NewIsLive'
        <4>1. ASSUME NEW d \in Callers, Storing(d) PROVE call[d].token # call[c].new
          BY <1>0, <4>1 DEF TokenInv, UnstoredIsUnseen, Unseen, Reading, Storing, ProviderPcs
        <4> QED BY <1>0, <1>1, <2>1, <3>1, <4>1 DEF NewIsLive, Storing, Granting
      <3>4. StoredTokenWorks'
        BY <1>0, <1>3, <2>1, <3>1
           DEF NewIsLive, StoredTokenWorks, CredentialsUnchanged, Granting
      <3> QED BY <3>2, <3>3, <3>4
    <2>4. db'.grok /\ Apart' => DisablesLost'
      <3> SUFFICES ASSUME db.grok, Apart' PROVE DisablesLost'
        BY <2>1
      <3>1. DisablesLost
        BY <1>0, <1>2, FaultsGrow DEF TokenInv
      <3>2. \A x : Lost(x) => Lost(x)'
        BY <1>0, <1>1 DEF Lost, Storing
      <3>3. ~(db.status = "error" /\ adm.pc # "clearError")
        BY <1>0, <1>3, <3>1 DEF DisablesLost, Lost, CredentialsUnchanged
      <3> QED BY <1>0, <1>1, <2>1, <3>1, <3>2, <3>3 DEF DisablesLost, Disabling
    <2> QED BY <1>0, <2>2, <2>3, <2>4 DEF TokenInv, HandIsCounted
  <1>4. CASE /\ UNCHANGED db
             /\ \/ db.grok /\ ~CredentialsUnchanged(c)
                \/ Fault("dbFails")
    <2>1. Stored' => call[c].token # db.token
      <3>1. CASE Fault("dbFails")
        BY <3>1, FaultFacts DEF IInv, TypeOK, Stored, Saw
      <3>2. CASE ~CredentialsUnchanged(c)
        BY <1>0, <1>2, <3>2, FaultsGrow
           DEF TokenInv, EditionsAgree, Reading, Handing, CredentialsUnchanged, Storing, ProviderPcs
      <3> QED BY <1>4, <3>1, <3>2
    <2> QED BY <1>0, <1>1, <1>2, <1>4, <2>1, CallMovesOn DEF ProviderPcs, Disabling
  <1> QED BY <1>3, <1>4 DEF Persist

LEMMA SetErrorTokens ==
    ASSUME IInv, TokenInv, NEW c \in Callers, SetError(c)
    PROVE  TokenInv'
  <1>0. /\ call[c].pc = "setError" /\ UNCHANGED <<issued, live, adm>>
        /\ Tokens' = Tokens
    BY DEF SetError, Tokens
  <1>1. /\ call'[c].pc = "idle"
        /\ \A d \in Callers : d # c => call'[d] = call[d]
    BY ReturnFacts DEF IInv, SetError
  <1>2. faults.kinds \subseteq faults'.kinds
    BY FaultGrows DEF IInv, SetError
  <1>3. CASE /\ db.grok => CredentialsUnchanged(c)
             /\ db' = [db EXCEPT !.status = "error"] /\ UNCHANGED faults
    <2>1. db'.token = db.token /\ db'.edition = db.edition /\ db'.grok = db.grok
      BY <1>3 DEF IInv, TypeOK, Rows
    <2>2. UnstoredIsUnseen'
      BY <1>0, <1>1, <2>1
         DEF TokenInv, UnstoredIsUnseen, Unseen, Storing, Granting, Handing, Reading, ProviderPcs
    <2>3. Stored' => EditionsAgree'
      BY <1>0, <1>1, <1>2, <2>1, FaultsGrow DEF TokenInv, EditionsAgree, Reading, Handing, ProviderPcs
    <2>4. Stored' => NewIsLive'
      BY <1>0, <1>1, <1>2, <2>1, FaultsGrow DEF TokenInv, NewIsLive, Storing, Granting
    <2>5. Stored' => StoredTokenWorks'
      BY <1>0, <1>1, <1>3, <2>1 DEF TokenInv, StoredTokenWorks, Stored, Saw
    <2>6. db'.grok /\ Apart' => DisablesLost'
      <3> SUFFICES ASSUME db.grok, Apart' PROVE DisablesLost'
        BY <2>1
      <3>1. DisablesLost
        BY <1>0, <1>2, FaultsGrow DEF TokenInv
      <3>2. \A x : Lost(x) => Lost(x)'
        BY <1>0, <1>1 DEF Lost, Storing
      <3>3. Lost(db.token)
        BY <1>0, <1>3, <3>1 DEF DisablesLost, Disabling, CredentialsUnchanged
      <3> QED BY <1>0, <1>1, <2>1, <3>1, <3>2, <3>3 DEF DisablesLost, Disabling
    <2> QED BY <1>0, <2>2, <2>3, <2>4, <2>5, <2>6 DEF TokenInv, HandIsCounted
  <1>4. CASE UNCHANGED db
    BY <1>0, <1>1, <1>2, <1>4, CallMovesOn DEF ProviderPcs, Storing, Disabling
  <1> QED BY <1>3, <1>4 DEF SetError

LEMMA CrashTokens ==
    ASSUME IInv, TokenInv, NEW h \in Hosts, Crash(h)
    PROVE  TokenInv'
  <1>0. UNCHANGED <<db, issued, live, adm>> /\ Fault("crash") /\ Tokens' = Tokens
    BY DEF Crash, Tokens
  <1>1. \A c \in Callers : call'[c] = call[c] \/ call'[c].pc = "idle"
    BY DEF Crash, Idle
  <1>2. faults.kinds \subseteq faults'.kinds /\ ~Stored'
    BY <1>0, FaultFacts DEF IInv, TypeOK, Stored, Saw
  <1>3. UnstoredIsUnseen'
    <2>1. \A x : Unseen(x) => Unseen(x)'
      BY <1>0, <1>1 DEF Unseen, Reading, ProviderPcs
    <2> QED BY <1>0, <1>1, <2>1 DEF TokenInv, UnstoredIsUnseen, Storing, Granting, Handing
  <1>4. db'.grok /\ Apart' => DisablesLost'
    <2>1. \A x : Lost(x) => Lost(x)'
      BY <1>0, <1>1 DEF Lost, Storing
    <2> QED BY <1>0, <1>1, <1>2, <2>1, FaultsGrow
            DEF TokenInv, DisablesLost, Disabling
  <1> QED BY <1>0, <1>2, <1>3, <1>4 DEF TokenInv, HandIsCounted

LEMMA ExchangeTokens ==
    ASSUME IInv, TokenInv, ExchangeCode
    PROVE  TokenInv'
  <1> DEFINE n == Len(issued) + 1
  <1>0. /\ UNCHANGED <<db, call>> /\ adm.pc = "idle"
        /\ issued' = Append(issued, Newest + 1)
        /\ \/ live' = live \cup {n}
           \/ live' = {n} /\ faults' = [faults EXCEPT !.kinds = @ \cup {"revokes"}]
        /\ adm' = [adm EXCEPT !.pc = "granted", !.token = n]
    BY DEF ExchangeCode
  <1>1. /\ adm'.pc = "granted" /\ adm'.token = n /\ adm'.copy = adm.copy
        /\ adm'.byHand = adm.byHand
        /\ n \notin Tokens /\ Tokens \subseteq Tokens'
    BY <1>0, NextIsFresh DEF IInv, TypeOK, AdmStates, Tokens
  <1>2. /\ faults.kinds \subseteq faults'.kinds
        /\ live \subseteq live' \/ Saw({"revokes"})'
    <2>1. CASE UNCHANGED faults /\ live' = live \cup {n}
      BY <2>1
    <2>2. CASE live' = {n} /\ faults' = [faults EXCEPT !.kinds = @ \cup {"revokes"}]
      BY <2>2 DEF IInv, TypeOK, Saw
    <2> QED BY <2>1, <2>2 DEF ExchangeCode
  <1>3. /\ db.token \in Tokens /\ adm.copy.token \in Tokens
        /\ \A d \in Callers : call[d].pc \in ProviderPcs => call[d].token \in Tokens
        /\ \A d \in Callers : Storing(d) => call[d].new \in Tokens
    BY DEF IInv, TypeOK, NewIsIssued, ProviderPcs, Storing
  <1> HIDE DEF n
  <1>4. UnstoredIsUnseen'
    <2>1. \A x : Unseen(x) \/ x \notin Tokens => Unseen(x)'
      BY <1>0, <1>1, <1>3 DEF Unseen, Reading
    <2>2. n \in live'
      BY <1>0
    <2> QED BY <1>0, <1>1, <1>3, <2>1, <2>2
            DEF TokenInv, UnstoredIsUnseen, Storing, Handing
  <1>5. Stored' => EditionsAgree' /\ NewIsLive' /\ StoredTokenWorks'
    <2>1. Stored' => EditionsAgree'
      BY <1>0, <1>1, <1>2, FaultsGrow DEF TokenInv, EditionsAgree, Reading, Handing
    <2>2. Stored' => NewIsLive'
      <3>1. Granting'
        BY <1>1 DEF Granting
      <3> QED BY <1>0, <1>2, <3>1, FaultsGrow DEF TokenInv, NewIsLive, Storing
    <2>3. StoredTokenWorks'
      BY <1>1 DEF StoredTokenWorks
    <2> QED BY <2>1, <2>2, <2>3
  <1>6. db'.grok /\ Apart' => DisablesLost'
    <2>1. \A x : Lost(x) => Lost(x)'
      BY <1>0, <1>1 DEF Lost, Storing
    <2> QED BY <1>0, <1>1, <1>2, <2>1, FaultsGrow
            DEF TokenInv, DisablesLost, Disabling
  <1> QED BY <1>1, <1>4, <1>5, <1>6 DEF TokenInv, HandIsCounted

LEMMA ReadsTokens ==
    ASSUME IInv, TokenInv, UpdateAccountReads
    PROVE  TokenInv'
  <1>0. UNCHANGED <<db, issued, live, call>> /\ Tokens' = Tokens
    BY DEF UpdateAccountReads, Tokens
  <1>1. /\ adm'.token = adm.token /\ adm'.byHand = adm.byHand
        /\ \/ /\ adm.pc = "idle" /\ adm'.pc = "edit" /\ adm'.copy = db
              /\ Fault("edit")
           \/ adm.pc = "granted" /\ adm'.pc = "authorize" /\ adm'.copy = db
           \/ /\ adm.pc = "rotated" /\ adm'.pc = "store"
              /\ adm'.copy.token = adm.copy.token
              /\ adm'.copy.edition = adm.copy.edition
           \/ adm.pc = "rotated" /\ adm'.pc = "idle" /\ Fault("dbFails")
    <2>1. CASE \/ /\ adm.pc = "idle" /\ Fault("edit")
                  /\ adm' = [adm EXCEPT !.pc = "edit", !.copy = db]
               \/ /\ adm.pc = "granted"
                  /\ adm' = [adm EXCEPT !.pc = "authorize", !.copy = db]
      BY <2>1 DEF IInv, TypeOK, AdmStates
    <2>2. CASE /\ adm.pc = "rotated"
               /\ adm' = [adm EXCEPT !.pc = "store", !.copy.status = db.status]
      BY <2>2 DEF IInv, TypeOK, AdmStates, Rows
    <2>3. CASE adm.pc = "rotated" /\ Done("idle") /\ Fault("dbFails")
      BY <2>3, DoneFacts DEF IInv, AdmPcs
    <2> QED BY <2>1, <2>2, <2>3 DEF UpdateAccountReads
  <1>2. faults.kinds \subseteq faults'.kinds
    BY FaultGrows DEF IInv, UpdateAccountReads
  <1>3. UnstoredIsUnseen'
    <2>1. \A x : Unseen(x) => Unseen(x)'
      BY <1>0, <1>1 DEF Unseen, Reading
    <2> QED BY <1>0, <1>1, <2>1
            DEF TokenInv, UnstoredIsUnseen, Storing, Granting, Handing
  <1>4. Stored' => \/ /\ adm.pc = "granted" /\ adm'.pc = "authorize"
                      /\ adm'.copy = db
                   \/ /\ adm.pc = "rotated" /\ adm'.pc = "store"
                      /\ adm'.copy.edition = adm.copy.edition
    BY <1>1, FaultFacts DEF IInv, TypeOK, Stored, Saw
  <1>5. Stored' => EditionsAgree'
    BY <1>0, <1>1, <1>2, <1>4, FaultsGrow DEF TokenInv, EditionsAgree, Handing
  <1>6. Stored' => NewIsLive'
    BY <1>0, <1>1, <1>2, <1>4, FaultsGrow DEF TokenInv, NewIsLive, Storing, Granting
  <1>7. Stored' => StoredTokenWorks'
    BY <1>4 DEF StoredTokenWorks
  <1>8. db'.grok /\ Apart' => DisablesLost'
    <2> SUFFICES ASSUME db.grok, Apart' PROVE DisablesLost'
      BY <1>0
    <2>1. DisablesLost /\ adm.pc # "rotated"
      BY <1>0, <1>1, <1>2, FaultsGrow DEF TokenInv, Apart, HandIsCounted
    <2> QED BY <1>0, <1>1, <2>1 DEF DisablesLost, Disabling, Lost, Storing
  <1>9. HandIsCounted'
    BY <1>1 DEF TokenInv, HandIsCounted
  <1> QED BY <1>3, <1>5, <1>6, <1>7, <1>8, <1>9 DEF TokenInv

LEMMA EditTokens ==
    ASSUME IInv, TokenInv, EditAccount
    PROVE  TokenInv'
  <1>0. /\ UNCHANGED <<issued, live, call, faults>> /\ Tokens' = Tokens
        /\ adm.pc = "edit"
    BY DEF EditAccount, Tokens
  <1>1. /\ db'.token = adm.copy.token /\ db'.status = adm.copy.status
        /\ db'.grok = db.grok
    BY DEF EditAccount, IInv, TypeOK, AdmStates, Rows, CopyIsNewest
  <1>2. /\ adm'.pc = "idle" /\ adm'.token = adm.token
        /\ adm'.copy.status = "active" /\ adm'.byHand = adm.byHand
    BY DoneFacts DEF EditAccount, IInv, AdmPcs
  <1>3. UnstoredIsUnseen'
    BY <1>0, <1>1, <1>2
       DEF TokenInv, UnstoredIsUnseen, Unseen, Storing, Granting, Handing, Reading
  <1>4. ~Stored'
    BY <1>0 DEF TokenInv, EditionsAgree, Stored, Saw
  <1>5. db'.grok /\ Apart' => DisablesLost'
    BY <1>0, <1>1, <1>2, FaultsGrow
       DEF TokenInv, DisablesLost, Disabling, Lost, Storing
  <1>6. HandIsCounted'
    BY <1>2 DEF HandIsCounted
  <1> QED BY <1>3, <1>4, <1>5, <1>6 DEF TokenInv

LEMMA ByHandTokens ==
    ASSUME IInv, TokenInv, RefreshByHand
    PROVE  TokenInv'
  <1>0. /\ UNCHANGED <<db, issued, live, call, faults>> /\ Tokens' = Tokens
        /\ adm.pc = "idle"
    BY DEF RefreshByHand, Tokens
  <1>1. adm'.pc = "manual" /\ adm'.copy = db /\ adm'.byHand # 0
    BY DEF RefreshByHand, IInv, TypeOK, AdmStates
  <1>2. UnstoredIsUnseen'
    BY <1>0, <1>1
       DEF TokenInv, UnstoredIsUnseen, Unseen, Storing, Granting, Handing, Reading
  <1>3. Stored' => EditionsAgree' /\ NewIsLive' /\ StoredTokenWorks'
    <2> SUFFICES ASSUME Stored PROVE EditionsAgree' /\ NewIsLive' /\ StoredTokenWorks'
      BY <1>0 DEF Stored, Saw
    <2>1. EditionsAgree /\ NewIsLive /\ StoredTokenWorks
      BY DEF TokenInv
    <2>2. EditionsAgree'
      BY <1>0, <1>1, <2>1 DEF EditionsAgree
    <2>3. NewIsLive'
      BY <1>0, <1>1, <2>1 DEF NewIsLive, Storing, Granting, Saw
    <2>4. StoredTokenWorks'
      BY <1>0, <1>1, <2>1 DEF StoredTokenWorks, Saw
    <2> QED BY <2>2, <2>3, <2>4
  <1>4. ~Apart' /\ HandIsCounted'
    BY <1>1 DEF Apart, HandIsCounted
  <1> QED BY <1>2, <1>3, <1>4 DEF TokenInv

\* The token a refresh by hand spends is no call's to store, and the one it
\* gets is nobody's.
LEMMA SingleTokens ==
    ASSUME IInv, TokenInv, RefreshSingleAccount
    PROVE  TokenInv'
  <1> DEFINE t == adm.copy.token
             n == Len(issued) + 1
  <1>0. UNCHANGED <<db, call>> /\ adm.pc = "manual" /\ t \in Tokens
    BY DEF RefreshSingleAccount, IInv, TypeOK
  <1>1. faults.kinds \subseteq faults'.kinds
    BY FaultGrows DEF IInv, RefreshSingleAccount
  <1>2. /\ n \notin Tokens
        /\ \/ live' = (live \ {t}) \cup {n}
           \/ live' = live
    BY NextIsFresh DEF RefreshSingleAccount, Rotate, IInv
  <1>3. /\ adm'.byHand = adm.byHand
        /\ \/ /\ adm'.pc = "rotated" /\ adm'.copy.token = n
              /\ adm'.copy.edition = adm.copy.edition
              /\ n \in live'
           \/ adm'.pc = "idle" /\ UNCHANGED live
           \/ adm'.pc = "idle" /\ Fault("answerLate")
    <2>1. CASE /\ Rotate(t)
               /\ adm' = [adm EXCEPT !.pc = "rotated", !.copy.token = n]
      BY <2>1 DEF Rotate, IInv, TypeOK, AdmStates, Rows
    <2>2. CASE Done("idle") /\ UNCHANGED live
      BY <2>2, DoneFacts DEF IInv, AdmPcs
    <2>3. CASE Done("idle") /\ Fault("answerLate")
      BY <2>3, DoneFacts DEF IInv, AdmPcs
    <2> QED BY <2>1, <2>2, <2>3 DEF RefreshSingleAccount
  <1>4. /\ db.token \in Tokens
        /\ \A d \in Callers : call[d].pc \in ProviderPcs => call[d].token \in Tokens
        /\ \A d \in Callers : Storing(d) => call[d].new \in Tokens
    BY DEF IInv, TypeOK, NewIsIssued, ProviderPcs, Storing
  <1> HIDE DEF n, t
  <1>5. UnstoredIsUnseen'
    <2>1. \A x : Unseen(x) \/ x \notin Tokens => Unseen(x)'
      BY <1>0, <1>3, <1>4 DEF Unseen, Reading
    <2>2. ~Granting'
      BY <1>3 DEF Granting
    <2>3. Handing' => adm'.copy.token = n /\ n \in live'
      BY <1>3 DEF Handing
    <2> QED BY <1>0, <1>2, <1>4, <2>1, <2>2, <2>3
            DEF TokenInv, UnstoredIsUnseen, Storing
  <1>6. Stored' => EditionsAgree' /\ NewIsLive' /\ StoredTokenWorks'
    <2> SUFFICES ASSUME Stored'
                 PROVE  EditionsAgree' /\ NewIsLive' /\ StoredTokenWorks'
      OBVIOUS
    <2>1. /\ Stored /\ EditionsAgree /\ NewIsLive /\ StoredTokenWorks
          /\ Saw({"revokes"}) => Saw({"revokes"})'
      BY <1>1, <1>3, FaultsGrow DEF TokenInv
    <2>2. \/ adm'.pc = "rotated" /\ adm'.copy.edition = adm.copy.edition
          \/ adm'.pc = "idle" /\ UNCHANGED live
      BY <1>3, FaultFacts DEF Stored, Saw, IInv, TypeOK
    <2>3. EditionsAgree'
      BY <1>0, <2>1, <2>2 DEF EditionsAgree, Reading, Handing
    <2>4. NewIsLive'
      <3>1. ASSUME NEW d \in Callers, Storing(d) PROVE call[d].new # t
        BY <1>0, <3>1 DEF TokenInv, UnstoredIsUnseen, Unseen, Reading, t
      <3> QED BY <1>0, <1>2, <2>1, <3>1 DEF NewIsLive, Storing, Granting
    <2>5. StoredTokenWorks'
      <3>1. CASE adm'.pc = "rotated"
        BY <3>1 DEF StoredTokenWorks
      <3>2. CASE UNCHANGED live
        BY <1>0, <2>1, <3>2 DEF StoredTokenWorks, Stored
      <3> QED BY <2>2, <3>1, <3>2
    <2> QED BY <2>3, <2>4, <2>5
  <1>7. ~Apart' /\ HandIsCounted'
    BY <1>0, <1>3 DEF TokenInv, Apart, HandIsCounted
  <1> QED BY <1>5, <1>6, <1>7 DEF TokenInv

LEMMA StoreTokens ==
    ASSUME IInv, TokenInv, StoreRefreshedByHand
    PROVE  TokenInv'
  <1>0. /\ UNCHANGED <<issued, live, call>> /\ Tokens' = Tokens
        /\ adm.pc = "store" /\ Handing
    BY DEF StoreRefreshedByHand, Handing, Tokens
  <1>1. faults.kinds \subseteq faults'.kinds
    BY FaultGrows DEF IInv, StoreRefreshedByHand
  <1>2. adm'.pc = "idle" /\ adm'.byHand = adm.byHand
    BY DoneFacts DEF StoreRefreshedByHand, IInv, AdmPcs
  <1>3. db' = adm.copy \/ (db' = db /\ Fault("dbFails"))
    BY DEF StoreRefreshedByHand
  <1>4. UnstoredIsUnseen'
    BY <1>0, <1>2, <1>3
       DEF TokenInv, UnstoredIsUnseen, Unseen, Storing, Granting, Handing, Reading
  <1>5. Stored' => EditionsAgree' /\ NewIsLive' /\ StoredTokenWorks'
    <2> SUFFICES ASSUME Stored'
                 PROVE  EditionsAgree' /\ NewIsLive' /\ StoredTokenWorks'
      OBVIOUS
    <2>1. /\ EditionsAgree /\ NewIsLive
          /\ Saw({"revokes"}) => Saw({"revokes"})'
      BY <1>1, <1>2, FaultsGrow DEF TokenInv
    <2>2. db' = adm.copy
      BY <1>3, FaultFacts DEF Stored, Saw, IInv, TypeOK
    <2>3. EditionsAgree'
      BY <1>0, <1>2, <2>1, <2>2 DEF EditionsAgree, Reading, Handing
    <2>4. NewIsLive'
      <3>1. \A c \in Callers : Storing(c) => call[c].token # adm.copy.token
        BY <1>0 DEF TokenInv, UnstoredIsUnseen, Unseen, Storing, ProviderPcs
      <3> QED BY <1>0, <2>1, <2>2, <3>1 DEF NewIsLive, Storing
    <2>5. StoredTokenWorks'
      BY <1>0, <2>2 DEF TokenInv, UnstoredIsUnseen, StoredTokenWorks
    <2> QED BY <2>3, <2>4, <2>5
  <1>6. ~Apart' /\ HandIsCounted'
    BY <1>0, <1>2 DEF TokenInv, Apart, HandIsCounted
  <1> QED BY <1>4, <1>5, <1>6 DEF TokenInv

LEMMA ApplyTokens ==
    ASSUME IInv, TokenInv, ApplyOAuthCredentials
    PROVE  TokenInv'
  <1>0. /\ UNCHANGED <<issued, live, call, faults>> /\ Tokens' = Tokens
        /\ Granting /\ Reading
    BY DEF ApplyOAuthCredentials, Granting, Reading, Tokens
  <1>1. /\ db'.token = adm.token /\ db'.edition = adm.copy.edition
        /\ db'.grok = db.grok
    BY DEF ApplyOAuthCredentials, IInv, TypeOK, AdmStates, Rows, CopyIsNewest
  <1>2. /\ adm'.pc = "clearError" /\ adm'.copy.status = "active"
        /\ adm'.byHand = adm.byHand
    BY DoneFacts DEF ApplyOAuthCredentials, IInv, AdmPcs
  <1>3. UnstoredIsUnseen'
    BY <1>0, <1>1, <1>2
       DEF TokenInv, UnstoredIsUnseen, Unseen, Storing, Granting, Handing, Reading
  <1>4. Stored' => EditionsAgree'
    BY <1>0, <1>1, <1>2, FaultsGrow DEF TokenInv, EditionsAgree, Reading, Handing
  <1>5. Stored' => NewIsLive'
    <2>1. \A c \in Callers : Storing(c) => call[c].token # adm.token
      BY <1>0 DEF TokenInv, UnstoredIsUnseen, Unseen, Storing, ProviderPcs
    <2> QED BY <1>0, <1>1, <1>2, <2>1, FaultsGrow
            DEF TokenInv, NewIsLive, Storing, Saw
  <1>6. StoredTokenWorks'
    BY <1>0, <1>1 DEF TokenInv, UnstoredIsUnseen, StoredTokenWorks
  <1>7. db'.grok /\ Apart' => DisablesLost'
    BY <1>0, <1>1, <1>2, FaultsGrow
       DEF TokenInv, DisablesLost, Disabling, Lost, Storing
  <1>8. HandIsCounted'
    BY <1>2 DEF HandIsCounted
  <1> QED BY <1>3, <1>4, <1>5, <1>6, <1>7, <1>8 DEF TokenInv

LEMMA ClearTokens ==
    ASSUME IInv, TokenInv, ClearAccountError
    PROVE  TokenInv'
  <1>0. /\ UNCHANGED <<issued, live, call>> /\ Tokens' = Tokens
        /\ adm.pc = "clearError"
    BY DEF ClearAccountError, Tokens
  <1>1. /\ db'.token = db.token /\ db'.edition = db.edition /\ db'.grok = db.grok
        /\ db'.status = "active" \/ Fault("dbFails")
    BY DEF ClearAccountError, IInv, TypeOK, Rows
  <1>2. /\ adm'.pc = "idle" /\ adm'.token = adm.token
        /\ adm'.copy.status = "active" /\ adm'.byHand = adm.byHand
    BY DoneFacts DEF ClearAccountError, IInv, AdmPcs
  <1>3. /\ faults.kinds \subseteq faults'.kinds
        /\ Apart' => db'.status = "active"
    <2>1. CASE UNCHANGED faults /\ db'.status = "active"
      BY <2>1
    <2>2. CASE Fault("dbFails")
      BY <2>2, FaultFacts DEF IInv, TypeOK, Apart, Saw
    <2> QED BY <1>1, <2>1, <2>2, FaultGrows DEF ClearAccountError
  <1>4. UnstoredIsUnseen'
    BY <1>0, <1>1, <1>2
       DEF TokenInv, UnstoredIsUnseen, Unseen, Storing, Granting, Handing, Reading
  <1>5. Stored' => EditionsAgree'
    BY <1>0, <1>1, <1>2, <1>3, FaultsGrow
       DEF TokenInv, EditionsAgree, Reading, Handing
  <1>6. Stored' => NewIsLive'
    BY <1>0, <1>1, <1>2, <1>3, FaultsGrow DEF TokenInv, NewIsLive, Storing, Granting
  <1>7. Stored' => StoredTokenWorks'
    BY <1>0, <1>1, <1>2, <1>3, FaultsGrow DEF TokenInv, StoredTokenWorks, Stored
  <1>8. db'.grok /\ Apart' => DisablesLost'
    BY <1>0, <1>1, <1>2, <1>3, FaultsGrow
       DEF TokenInv, DisablesLost, Disabling, Lost, Storing
  <1>9. HandIsCounted'
    BY <1>2 DEF HandIsCounted
  <1> QED BY <1>4, <1>5, <1>6, <1>7, <1>8, <1>9 DEF TokenInv

LEMMA TokensInitially == Init => TokenInv
  <1> SUFFICES ASSUME Init PROVE TokenInv
    OBVIOUS
  <1>1. /\ \A c \in Callers : call[c].pc = "idle"
        /\ adm.pc = "idle" /\ adm.copy = db
        /\ db.token = 1 /\ live = {1} /\ db.status = "active"
    BY DEF Init, Idle
  <1>2. UnstoredIsUnseen
    BY <1>1 DEF UnstoredIsUnseen, Storing, Granting, Handing
  <1>3. EditionsAgree /\ NewIsLive /\ StoredTokenWorks
    BY <1>1 DEF EditionsAgree, Reading, Handing, ProviderPcs, NewIsLive, Storing, StoredTokenWorks
  <1>4. DisablesLost
    BY <1>1 DEF DisablesLost, Disabling
  <1>5. HandIsCounted
    BY <1>1 DEF HandIsCounted
  <1> QED BY <1>2, <1>3, <1>4, <1>5 DEF TokenInv

-----------------------------------------------------------------------------
\* Every step keeps the chain of tokens.
THEOREM TokenInvariance == Spec => []TokenInv
  <1>1. ASSUME IInv, TokenInv, [Next]_vars PROVE TokenInv'
    <2>1. CASE UNCHANGED vars
      BY <1>1, <2>1, NobodyMoves DEF vars
    <2>2. CASE TokenAges \/ LockExpires
      <3>1. UNCHANGED <<db, issued, live, call, adm>>
        BY <2>2 DEF TokenAges, LockExpires
      <3>2. faults.kinds \subseteq faults'.kinds
        BY <1>1, <2>2, FaultGrows DEF IInv, TokenAges, LockExpires
      <3> QED BY <1>1, <3>1, <3>2, NobodyMoves
    <2>3. ASSUME NEW c \in Callers, LockLocal(c) \/ RefreshIfNeeded(c)
          PROVE  TokenInv'
      BY <1>1, <2>3, LockTokens, RereadTokens, RefreshTokens, RecoverTokens,
         PersistTokens, ReleaseTokens, SetErrorTokens DEF RefreshIfNeeded
    <2>4. ASSUME NEW h \in Hosts, Crash(h) PROVE TokenInv'
      BY <1>1, <2>4, CrashTokens
    <2>5. CASE \/ ExchangeCode \/ UpdateAccountReads \/ EditAccount
               \/ ApplyOAuthCredentials \/ ClearAccountError
               \/ RefreshByHand \/ RefreshSingleAccount \/ StoreRefreshedByHand
      BY <1>1, <2>5, ExchangeTokens, ReadsTokens, EditTokens, ApplyTokens,
         ClearTokens, ByHandTokens, SingleTokens, StoreTokens
    <2> QED BY <1>1, <2>1, <2>2, <2>3, <2>4, <2>5 DEF Next
  <1> QED BY <1>1, TokensInitially, Invariance, PTL DEF Spec

\* The row has a refresh token that the provider accepts, or somebody is about
\* to store one, for any number of overlapping refreshes, by hand or not,
\* unless an answer was lost, an edit wrote an old copy back or an
\* authorization ended the others.
THEOREM TokenIsNotLost == Spec => []StoredTokenWorks
  <1>1. TokenInv => StoredTokenWorks
    BY DEF TokenInv, StoredTokenWorks, Stored
  <1> QED BY <1>1, TokenInvariance, PTL

\* A Grok account is disabled only for a token that the provider refuses and
\* nobody is about to replace, unless refreshes overlapped or one was by hand.
THEOREM WorkingStaysEnabled == Spec => []HealthyStaysEnabled
  <1>1. ASSUME IInv, TokenInv PROVE HealthyStaysEnabled
    <2>1. adm.byHand = 0 \/ adm.byHand > 0
      BY <1>1 DEF IInv, TypeOK, AdmStates
    <2> QED BY <1>1, <2>1
            DEF TokenInv, HealthyStaysEnabled, DisablesLost, Lost, Apart
  <1> QED BY <1>1, Invariance, TokenInvariance, PTL

=============================================================================
