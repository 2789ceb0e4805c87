-------------------------- MODULE MCBatchImageJob --------------------------
(* Model-checking instances of BatchImageJob.                              *)
EXTENDS BatchImageJob, TLC

\* No action names a worker.
Symmetry == Permutations(Workers)

=============================================================================
