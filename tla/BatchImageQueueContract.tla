---------------------- MODULE BatchImageQueueContract ----------------------
(***************************************************************************)
(* What the image batches rely on their queue for (and all BatchImageJob   *)
(* knows of it): a batch enters, and leaves only once its work is over.    *)
(* A settling batch may leave as well once a worker has outlived its job   *)
(* lock: two workers have it then, and the one that reads the row after    *)
(* the other indexed the result answers Terminal.                          *)
(***************************************************************************)
CONSTANT Batches

VARIABLES
    queued,  \* the batches somebody will look at
    row,     \* how far each batch is: open, settling or over
    lapsed   \* a worker has outlived its job lock

Init ==
    /\ queued = {}
    /\ row = [b \in Batches |-> "open"]
    /\ lapsed = FALSE

Enter(b) == queued' = queued \cup {b} /\ UNCHANGED <<row, lapsed>>

Advance(b) ==
    /\ row[b] # "over"
    /\ \E to \in {"settling", "over"} : row' = [row EXCEPT ![b] = to]
    /\ UNCHANGED <<queued, lapsed>>

Leave(b) ==
    /\ row[b] = "over" \/ (row[b] = "settling" /\ lapsed)
    /\ queued' = queued \ {b}
    /\ UNCHANGED <<row, lapsed>>

Lapse == lapsed' = TRUE /\ UNCHANGED <<queued, row>>

Next == Lapse \/ \E b \in Batches : Enter(b) \/ Advance(b) \/ Leave(b)

Spec == Init /\ [][Next]_<<queued, row, lapsed>>

=============================================================================
