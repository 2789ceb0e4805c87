--------------------------- MODULE MCOAuthRefresh ---------------------------
(* Model-checking instances of OAuthRefresh.                               *)
EXTENDS OAuthRefresh, TLC

CONSTANTS c3, h1, h2

\* Every call but c3 runs on one host.
MCHost == [c \in Callers |-> IF c = c3 THEN h2 ELSE h1]

=============================================================================
