---------------------------- MODULE OAuthRefresh ----------------------------
(***************************************************************************)
(* The OAuth credentials of one upstream account: RefreshIfNeeded          *)
(* (service/oauth_refresh_api.go) as the request path and the background   *)
(* service (service/token_refresh_service.go) call it on several hosts,    *)
(* beside administrators who edit the account, authorize it anew           *)
(* (service/admin_account.go) or refresh it by hand, behind neither lock   *)
(* (handler/admin/account_handler.go); they do so one after the other.     *)
(* The provider rotates refresh tokens: using one spends it and issues the *)
(* next.  A step is one Redis command, one SQL statement or one call of    *)
(* the provider.                                                           *)
(*                                                                         *)
(* Perils names what may go wrong:                                         *)
(*   redisDown      a command on the refresh lock fails, with or without   *)
(*                  effect                                                 *)
(*   lockExpires    a refresh outlives the lock's TTL                      *)
(*   providerFails  the provider refuses for now                           *)
(*   answerLate     the provider spends the token, and its answer is lost  *)
(*                  or comes after the attempt's deadline                  *)
(*   dbFails        a statement fails without effect                       *)
(*   crash          a host dies                                            *)
(*   edit           an administrator saves the account's form              *)
(*   revokes        a new authorization ends the account's earlier ones    *)
(***************************************************************************)
EXTENDS Naturals, Sequences, FiniteSets

CONSTANTS
    Callers,      \* calls of RefreshIfNeeded
    Hosts,
    Host,         \* where a call runs
    Background,   \* the calls of the background service, not of a request
    None,         \* no holder of the lock
    MaxExpiries,  \* bound: how many access tokens expire
    MaxGrants,    \* bound: how often the account is authorized
    MaxManual,    \* bound: how often it is refreshed by hand
    Perils,       \* what may go wrong
    MaxFaults     \* bound: how often it does

ASSUME RefreshAssumption ==
    /\ Host \in [Callers -> Hosts]
    /\ Background \subseteq Callers
    /\ None \notin Callers
    /\ MaxExpiries \in Nat
    /\ MaxGrants \in Nat \ {0}
    /\ MaxManual \in Nat
    /\ MaxFaults \in Nat

VARIABLES
    db,      \* the account's row
    issued,  \* the grant each refresh token descends from
    live,    \* the refresh tokens the provider accepts
    aged,    \* those whose access token is about to expire
    lock,    \* who set the refresh lock
    call,    \* the refreshes
    adm,     \* the administrator's request
    faults   \* how often something went wrong, and what

vars == <<db, issued, live, aged, lock, call, adm, faults>>

Tokens == DOMAIN issued

\* The token and the rest of the credential document; grok: the platform
\* whose writes are conditional.
Rows == [grok : BOOLEAN, token : Nat, edition : Nat,
         status : {"active", "error"}]

CallPcs == {"idle", "lock", "reread", "refresh", "recover", "persist",
            "release", "setError"}
Calls == [pc : CallPcs, token : Nat, edition : Nat, new : Nat,
          held : BOOLEAN, permanent : BOOLEAN]
Idle == [pc |-> "idle", token |-> 0, edition |-> 0, new |-> 0,
         held |-> FALSE, permanent |-> FALSE]

\* An administrator's request; copy: the row it read and, as it goes on, is
\* about to write; token: what the last authorization issued; byHand: how
\* often the account was refreshed by hand.
AdmPcs == {"idle", "edit", "granted", "authorize", "clearError", "manual",
           "rotated", "store"}
AdmStates == [pc : AdmPcs, copy : Rows, token : Nat, byHand : 0..MaxManual]

\* The variables keep their types, and refer to tokens the provider issued.
TypeOK ==
    /\ db \in Rows /\ db.token \in Tokens
    /\ issued \in Seq(1..MaxGrants)
    /\ live \subseteq Tokens
    /\ aged \subseteq Tokens
    /\ lock \in Callers \cup {None}
    /\ call \in [Callers -> Calls]
    /\ \A c \in Callers :
          call[c].pc \in {"refresh", "recover", "persist"} =>
              call[c].token \in Tokens
    /\ adm \in AdmStates
    /\ adm.copy.token \in Tokens /\ adm.token \in Tokens
    /\ faults \in [count : 0..MaxFaults, kinds : SUBSET Perils]

Init ==
    /\ db \in [grok : BOOLEAN, token : {1}, edition : {0},
               status : {"active"}]
    /\ issued = <<1>>
    /\ live = {1}
    /\ aged = {}
    /\ lock = None
    /\ call = [c \in Callers |-> Idle]
    /\ adm = [pc |-> "idle", copy |-> db, token |-> 1, byHand |-> 0]
    /\ faults = [count |-> 0, kinds |-> {}]

-----------------------------------------------------------------------------
Fault(kind) ==
    /\ kind \in Perils
    /\ faults.count < MaxFaults
    /\ faults' = [count |-> faults.count + 1,
                  kinds |-> faults.kinds \cup {kind}]

Goto(c, pc) == call' = [call EXCEPT ![c].pc = pc]
Return(c) == call' = [call EXCEPT ![c] = Idle]

\* The call has nothing more to do but to release what it holds.
Leave(c) == call' = [call EXCEPT ![c] = [Idle EXCEPT !.pc = "release",
                                               !.held = call[c].held]]

\* In RefreshIfNeeded, behind the mutex of its host.
Inside(c) == call[c].pc \notin {"idle", "setError"}

\* The administrator's request is done with its copy of the row.
Done(pc) ==
    adm' = [adm EXCEPT !.pc = pc,
                       !.copy = [grok |-> db.grok, token |-> 1, edition |-> 0,
                                 status |-> "active"]]

\* The newest authorization: adm.token is what the last one issued.
Newest == issued[adm.token]

-----------------------------------------------------------------------------
\* The access token is about to expire.
TokenAges ==
    /\ db.token \notin aged
    /\ Cardinality(aged) < MaxExpiries
    /\ aged' = aged \cup {db.token}
    /\ UNCHANGED <<db, issued, live, lock, call, adm, faults>>

\* A caller gets the mutex of its host.
LockLocal(c) ==
    /\ call[c].pc = "idle"
    /\ \A d \in Callers : Host[d] = Host[c] => ~Inside(d)
    /\ db.token \in aged /\ db.status = "active"
    /\ Goto(c, "lock")
    /\ UNCHANGED <<db, issued, live, aged, lock, adm, faults>>

\* Mutant: a held lock is ignored.
AcquireIgnoresHolder(c) ==
    /\ call[c].pc = "lock"
    /\ lock' = c
    /\ call' = [call EXCEPT ![c].pc = "reread", ![c].held = TRUE]
    /\ UNCHANGED <<db, issued, live, aged, adm, faults>>

\* AcquireRefreshLock: SETNX; an error degrades to a refresh without a lock.
AcquireRefreshLock(c) ==
    /\ call[c].pc = "lock"
    /\ \/ /\ lock = None
          /\ lock' = c
          /\ call' = [call EXCEPT ![c].pc = "reread", ![c].held = TRUE]
          /\ UNCHANGED faults
       \/ /\ lock # None
          /\ Return(c)
          /\ UNCHANGED <<lock, faults>>
       \/ /\ Fault("redisDown")
          /\ lock' \in {lock, IF lock = None THEN c ELSE lock}
          /\ Goto(c, "reread")
    /\ UNCHANGED <<db, issued, live, aged, adm>>

\* The row is read again: an account that is disabled or was refreshed
\* meanwhile is left alone.
Reread(c) ==
    /\ call[c].pc = "reread"
    /\ \/ /\ db.status = "active" /\ db.token \in aged
          /\ call' = [call EXCEPT ![c].pc = "refresh",
                                  ![c].token = db.token,
                                  ![c].edition = db.edition]
          /\ UNCHANGED faults
       \/ /\ db.status # "active" \/ db.token \notin aged
          /\ Leave(c)
          /\ UNCHANGED faults
       \/ Leave(c) /\ Fault("dbFails")
    /\ UNCHANGED <<db, issued, live, aged, lock, adm>>

\* The provider spends a token and issues the next of its grant.
Rotate(t) ==
    /\ issued' = Append(issued, issued[t])
    /\ live' = (live \ {t}) \cup {Len(issued) + 1}

\* executor.Refresh; a late answer is dropped.
Refresh(c) ==
    LET t == call[c].token
    IN  /\ call[c].pc = "refresh"
        /\ \/ /\ t \in live /\ Rotate(t)
              /\ call' = [call EXCEPT ![c].pc = "persist",
                                      ![c].new = Len(issued) + 1]
              /\ UNCHANGED faults
           \/ /\ t \in live /\ Rotate(t)
              /\ Leave(c)
              /\ Fault("answerLate")
           \/ /\ t \notin live
              /\ Goto(c, "recover")
              /\ UNCHANGED <<issued, live, faults>>
           \/ /\ Leave(c) /\ Fault("providerFails")
              /\ UNCHANGED <<issued, live>>
        /\ UNCHANGED <<db, aged, lock, adm>>

\* tryRecoverFromRefreshRace after invalid_grant: somebody else refreshed if
\* the row has another token.  The background service disables the account
\* otherwise, once RefreshIfNeeded has returned.
TryRecoverFromRefreshRace(c) ==
    /\ call[c].pc = "recover"
    /\ \/ /\ db.token # call[c].token
          /\ Leave(c)
          /\ UNCHANGED faults
       \/ /\ \/ db.token = call[c].token /\ UNCHANGED faults
             \/ Fault("dbFails")
          /\ call' = [call EXCEPT ![c].pc = "release",
                                  ![c].permanent = TRUE]
    /\ UNCHANGED <<db, issued, live, aged, lock, adm>>

\* The row still has the credential document the refresh started from.
CredentialsUnchanged(c) ==
    db.token = call[c].token /\ db.edition = call[c].edition

\* Mutant: the write is unconditional on every platform.
PersistAnyway(c) ==
    /\ call[c].pc = "persist"
    /\ db' = [db EXCEPT !.token = call[c].new, !.edition = call[c].edition]
    /\ Leave(c)
    /\ UNCHANGED <<issued, live, aged, lock, adm, faults>>

\* Mutant: the old document wins when the new one is merged into it.
PersistKeepsToken(c) ==
    /\ call[c].pc = "persist"
    /\ Leave(c)
    /\ UNCHANGED <<db, issued, live, aged, lock, adm, faults>>

\* UpdateGrokOAuthCredentialsIfUnchanged, or persistAccountCredentials.
Persist(c) ==
    /\ call[c].pc = "persist"
    /\ \/ /\ db.grok => CredentialsUnchanged(c)
          /\ db' = [db EXCEPT !.token = call[c].new,
                              !.edition = call[c].edition]
          /\ UNCHANGED faults
       \/ /\ db.grok /\ ~CredentialsUnchanged(c)
          /\ UNCHANGED <<db, faults>>
       \/ Fault("dbFails") /\ UNCHANGED db
    /\ Leave(c)
    /\ UNCHANGED <<issued, live, aged, lock, adm>>

\* releaseRefreshLock deletes the key, whoever set it, and the mutex is
\* released.
ReleaseRefreshLock(c) ==
    /\ call[c].pc = "release"
    /\ \/ /\ lock' = IF call[c].held THEN None ELSE lock
          /\ UNCHANGED faults
       \/ /\ call[c].held
          /\ Fault("redisDown")
          /\ UNCHANGED lock
    /\ IF call[c].permanent /\ c \in Background
       THEN Goto(c, "setError") ELSE Return(c)
    /\ UNCHANGED <<db, issued, live, aged, adm>>

\* Mutant: the account is disabled whatever its credentials are by now.
SetErrorAnyway(c) ==
    /\ call[c].pc = "setError"
    /\ db' = [db EXCEPT !.status = "error"]
    /\ Return(c)
    /\ UNCHANGED <<issued, live, aged, lock, adm, faults>>

\* SetGrokOAuthRefreshErrorIfCredentialsUnchanged, or SetError.
SetError(c) ==
    /\ call[c].pc = "setError"
    /\ \/ /\ db.grok => CredentialsUnchanged(c)
          /\ db' = [db EXCEPT !.status = "error"]
          /\ UNCHANGED faults
       \/ /\ db.grok /\ ~CredentialsUnchanged(c)
          /\ UNCHANGED <<db, faults>>
       \/ Fault("dbFails") /\ UNCHANGED db
    /\ Return(c)
    /\ UNCHANGED <<issued, live, aged, lock, adm>>

\* The calls that run on a host die with it.
Crash(h) ==
    /\ \E c \in Callers : Host[c] = h /\ call[c].pc # "idle"
    /\ call' = [c \in Callers |-> IF Host[c] = h THEN Idle ELSE call[c]]
    /\ Fault("crash")
    /\ UNCHANGED <<db, issued, live, aged, lock, adm>>

\* Mutant: the lock is set without a TTL.
LockNeverExpires ==
    /\ FALSE
    /\ UNCHANGED vars

\* The lock's TTL passes.
LockExpires ==
    /\ lock # None
    /\ lock' = None
    /\ \/ ~(Inside(lock) /\ call[lock].held) /\ UNCHANGED faults
       \/ Inside(lock) /\ call[lock].held /\ Fault("lockExpires")
    /\ UNCHANGED <<db, issued, live, aged, call, adm>>

-----------------------------------------------------------------------------
\* An administrator authorizes the account anew at the provider.
ExchangeCode ==
    LET t == Len(issued) + 1
    IN  /\ adm.pc = "idle"
        /\ Newest < MaxGrants
        /\ issued' = Append(issued, Newest + 1)
        /\ \/ live' = live \cup {t} /\ UNCHANGED faults
           \/ /\ live' = {t}
              /\ "revokes" \in Perils
              /\ faults' = [faults EXCEPT !.kinds = @ \cup {"revokes"}]
        /\ adm' = [adm EXCEPT !.pc = "granted", !.token = t]
        /\ UNCHANGED <<db, aged, lock, call>>

\* An administrator refreshes the account by hand: the handler reads the row.
RefreshByHand ==
    /\ adm.pc = "idle"
    /\ adm.byHand < MaxManual
    /\ adm' = [adm EXCEPT !.pc = "manual", !.copy = db, !.byHand = @ + 1]
    /\ UNCHANGED <<db, issued, live, aged, lock, call, faults>>

\* refreshSingleAccount calls the provider, behind neither lock, and merges
\* what it issues into the credentials it read.
RefreshSingleAccount ==
    LET t == adm.copy.token
    IN  /\ adm.pc = "manual"
        /\ \/ /\ t \in live /\ Rotate(t)
              /\ adm' = [adm EXCEPT !.pc = "rotated",
                                    !.copy.token = Len(issued) + 1]
              /\ UNCHANGED faults
           \/ /\ t \in live /\ Rotate(t)
              /\ Done("idle")
              /\ Fault("answerLate")
           \/ /\ \/ t \notin live /\ UNCHANGED faults
                 \/ Fault("providerFails")
              /\ Done("idle")
              /\ UNCHANGED <<issued, live>>
        /\ UNCHANGED <<db, aged, lock, call>>

\* UpdateAccount reads the row, and later writes all of it; after a refresh by
\* hand, with the credentials merged before it read.
UpdateAccountReads ==
    /\ \/ /\ adm.pc = "idle" /\ Fault("edit")
          /\ adm' = [adm EXCEPT !.pc = "edit", !.copy = db]
       \/ /\ adm.pc = "granted" /\ UNCHANGED faults
          /\ adm' = [adm EXCEPT !.pc = "authorize", !.copy = db]
       \/ /\ adm.pc = "rotated" /\ UNCHANGED faults
          /\ adm' = [adm EXCEPT !.pc = "store", !.copy.status = db.status]
       \/ /\ adm.pc = "rotated" /\ Fault("dbFails")
          /\ Done("idle")
    /\ UNCHANGED <<db, issued, live, aged, lock, call>>

EditAccount ==
    /\ adm.pc = "edit"
    /\ db' = [adm.copy EXCEPT !.edition = adm.copy.edition + 1]
    /\ Done("idle")
    /\ UNCHANGED <<issued, live, aged, lock, call, faults>>

StoreRefreshedByHand ==
    /\ adm.pc = "store"
    /\ \/ db' = adm.copy /\ UNCHANGED faults
       \/ UNCHANGED db /\ Fault("dbFails")
    /\ Done("idle")
    /\ UNCHANGED <<issued, live, aged, lock, call>>

\* ApplyOAuthCredentials stores what the authorization issued; the error is
\* cleared in a second statement, whose failure is only logged.
ApplyOAuthCredentials ==
    /\ adm.pc = "authorize"
    /\ db' = [adm.copy EXCEPT !.token = adm.token]
    /\ Done("clearError")
    /\ UNCHANGED <<issued, live, aged, lock, call, faults>>

ClearAccountError ==
    /\ adm.pc = "clearError"
    /\ \/ db' = [db EXCEPT !.status = "active"] /\ UNCHANGED faults
       \/ UNCHANGED db /\ Fault("dbFails")
    /\ Done("idle")
    /\ UNCHANGED <<issued, live, aged, lock, call>>

-----------------------------------------------------------------------------
RefreshIfNeeded(c) ==
    \/ AcquireRefreshLock(c) \/ Reread(c) \/ Refresh(c)
    \/ TryRecoverFromRefreshRace(c) \/ Persist(c) \/ ReleaseRefreshLock(c)
    \/ SetError(c)

Next ==
    \/ TokenAges
    \/ LockExpires
    \/ \E c \in Callers :
          \/ LockLocal(c)
          \/ RefreshIfNeeded(c)
    \/ \E h \in Hosts : Crash(h)
    \/ ExchangeCode \/ UpdateAccountReads \/ EditAccount
    \/ ApplyOAuthCredentials \/ ClearAccountError
    \/ RefreshByHand \/ RefreshSingleAccount \/ StoreRefreshedByHand

Spec == Init /\ [][Next]_vars

\* The background service comes round, a call that runs ends, and Redis
\* drops the key of a lock nobody refreshes under.
LiveSpec ==
    /\ Spec
    /\ WF_vars(\E c \in Background : LockLocal(c))
    /\ \A c \in Callers : WF_vars(RefreshIfNeeded(c))
    /\ WF_vars(LockExpires /\ UNCHANGED faults)

-----------------------------------------------------------------------------
Saw(kinds) == faults.kinds \cap kinds # {}

\* Between the account's reread and the end of its refresh.
AtProvider == {c \in Callers : call[c].pc \in {"refresh", "recover", "persist"}}

\* The mutex of the host and the Redis lock keep two RefreshIfNeeded calls of
\* one account apart: only an error of Redis or an expired lock lets two hosts
\* overlap, and nothing lets two calls of one host.  A refresh by hand, which
\* takes neither, may overlap them; the next two properties are about that
\* too.
OneAtProvider ==
    \A c, d \in AtProvider :
        c # d => Host[c] # Host[d] /\ Saw({"redisDown", "lockExpires"})

\* Refreshes that overlap all the same, those by hand included, with the
\* reread and the recovery from invalid_grant, never lose the chain of tokens:
\* the row has a token the provider accepts, or somebody is about to store
\* one.  What can lose it is an
\* answer that nobody stored, an edit that writes an old copy of the row, and,
\* where writes are unconditional, an authorization that ends earlier ones.
StoredTokenWorks ==
    \/ db.token \in live
    \/ \E c \in Callers : call[c].pc = "persist" /\ call[c].token = db.token
    \/ adm.pc \in {"granted", "authorize", "rotated", "store"}
    \/ Saw({"answerLate", "dbFails", "crash", "edit"})
    \/ ~db.grok /\ Saw({"revokes"})

\* A Grok account with working credentials is not left disabled by the failure
\* of a refresh that used older ones, unless that refresh overlapped another
\* one, which had spent the token and not yet stored the next: of another host
\* past the lock, or by hand.
HealthyStaysEnabled ==
    db.grok /\ db.status = "error" =>
        \/ db.token \notin live
        \/ adm.pc = "clearError"
        \/ adm.byHand > 0
        \/ Saw({"redisDown", "lockExpires", "dbFails"})

\* A refresh that was under way when an administrator authorized a Grok
\* account anew does not put the old authorization back, and a refresh by hand
\* does not either.
LatestGrantWins ==
    db.grok =>
        \/ issued[db.token] = Newest
        \/ adm.pc \in {"granted", "authorize"}

\* An active account whose access token is about to expire does not stay so:
\* it is refreshed, unless its refresh token stops working.
ExpiringIsRefreshed ==
    []<>(db.token \notin aged \/ db.status = "error" \/ db.token \notin live)

=============================================================================
