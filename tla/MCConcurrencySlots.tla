------------------------- MODULE MCConcurrencySlots -------------------------
(* Model-checking instances of ConcurrencySlots.                           *)
EXTENDS ConcurrencySlots, TLC

CONSTANTS r3, p1, p2

\* Every request but r3 runs in one process.
MCProcess == [r \in Requests |-> IF r = r3 THEN p2 ELSE p1]

=============================================================================
