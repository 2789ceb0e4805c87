---------------------------- MODULE MCAuthCache ----------------------------
(* Model-checking instances of AuthCache.                                  *)
EXTENDS AuthCache, TLC

CONSTANTS r1, h1, h2

\* Request r1 runs on h1, the others on h2.
MCHost == [r \in Requests |-> IF r = r1 THEN h1 ELSE h2]

=============================================================================
