--------------------------- MODULE MCPolicyStore ---------------------------
(* Small instances of PolicyStore for TLC. *)
EXTENDS PolicyStore
CONSTANTS k1, s1

\* config.yaml issues one enabled key.
OneSeedKey == [id \in Ids |-> IF id = k1 THEN [secret |-> s1, enabled |-> TRUE] ELSE NoKey]
=============================================================================
