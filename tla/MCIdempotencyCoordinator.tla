---------------------- MODULE MCIdempotencyCoordinator ----------------------
(* Model-checking instances of IdempotencyCoordinator.                     *)
EXTENDS IdempotencyCoordinator, TLC

\* No action names a request or a fingerprint.
Symmetry == Permutations(Requests) \cup Permutations(Fingerprints)

=============================================================================
