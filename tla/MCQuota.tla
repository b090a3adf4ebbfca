------------------------------ MODULE MCQuota ------------------------------
(* Small instances of Quota for TLC. *)
EXTENDS Quota, TLC
CONSTANTS i1, a1, a2

\* The auth file i1 held the account a1 and now holds a2.
ReplacedAccount == {<<i1, a1>>, <<i1, a2>>}

Alike == Permutations(Readers) \cup Permutations(Resetters) \cup Permutations(Keys)
=============================================================================
