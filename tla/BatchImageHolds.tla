-------------------------- MODULE BatchImageHolds --------------------------
(***************************************************************************)
(* The balance hold of one image batch: the three transactions of          *)
(* repository/usage_billing_repo.go.  Each claims its request id in        *)
(* usage_billing_dedup and moves the user's money; a request id that is    *)
(* already claimed moves nothing and reports success.                      *)
(*                                                                         *)
(* A ledger is a record of                                                 *)
(*   frozen  users.frozen_balance, which pools the holds of all batches;   *)
(*   taken   what this batch has taken from users.balance, net;            *)
(*   claims  the request ids claimed for this batch.                       *)
(* A batch sends the same fingerprint with every claim of one kind, so     *)
(* the fingerprint conflict cannot arise within a batch and is left out.   *)
(***************************************************************************)
EXTENDS Integers

CONSTANT Hold      \* job.HoldAmount

ASSUME HoldAssumption == Hold \in Nat \ {0}

ClaimKinds == {"hold", "capture", "release"}

Ledgers == [frozen : Nat, taken : Int, claims : SUBSET ClaimKinds]

Claim(l, kind) == [l EXCEPT !.claims = @ \cup {kind}]

\* The UPDATE's conditions on the pool of frozen money.
PoolCovers(l) == l.frozen >= Hold

\* Balance to frozen.  That the balance suffices is decided by the rest of
\* the user's spending, outside this module.
Reserve(l) ==
    IF "hold" \in l.claims THEN l
    ELSE [Claim(l, "hold") EXCEPT !.frozen = @ + Hold, !.taken = @ + Hold]

CanCapture(l) == "capture" \in l.claims \/ PoolCovers(l)

\* Mutant: the capture does not claim its request id.
CaptureAgain(l, cost) ==
    [l EXCEPT !.claims = @ \cup {"capture"},
              !.frozen = @ - Hold, !.taken = @ - (Hold - cost)]

\* The cost is kept and the rest of the hold returns to the balance.
Capture(l, cost) ==
    IF "capture" \in l.claims THEN l
    ELSE [Claim(l, "capture") EXCEPT !.frozen = @ - Hold,
                                     !.taken = @ - (Hold - cost)]

\* Mutant: the UPDATE has no condition on the pool.
CanAlwaysRelease(l) == TRUE

CanRelease(l) ==
    \/ "release" \in l.claims
    \/ "hold" \notin l.claims
    \/ PoolCovers(l)

\* Mutant: the hold's claim is not looked up.
ReleaseUnreserved(l) ==
    IF "release" \in l.claims THEN l
    ELSE [Claim(l, "release") EXCEPT !.frozen = @ - Hold, !.taken = @ - Hold]

\* The whole hold returns to the balance.  A batch that never reserved gets
\* nothing back, but its release is claimed all the same.
Release(l) ==
    IF "release" \in l.claims THEN l
    ELSE IF "hold" \notin l.claims THEN Claim(l, "release")
    ELSE [Claim(l, "release") EXCEPT !.frozen = @ - Hold, !.taken = @ - Hold]

\* The hold is reserved and neither charged nor returned.
Open(l) == l.claims = {"hold"}

=============================================================================
