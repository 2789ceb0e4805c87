----------------------- MODULE MCSystemOperationLock -----------------------
(* Model-checking instances of SystemOperationLock.                        *)
EXTENDS SystemOperationLock, TLC

\* No action names an operation or an operation id.
Symmetry == Permutations(Operations) \cup Permutations(OperationIDs)

=============================================================================
