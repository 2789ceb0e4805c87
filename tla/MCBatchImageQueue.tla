------------------------- MODULE MCBatchImageQueue -------------------------
(* Model-checking instances of BatchImageQueue.                            *)
EXTENDS BatchImageQueue, TLC

\* No action names a worker or a batch.
Symmetry == Permutations(Workers) \cup Permutations(Batches)

=============================================================================
