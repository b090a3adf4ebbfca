----------------------------- MODULE MCDispatch -----------------------------
(* Small instances of Dispatch for TLC. *)
EXTENDS Dispatch, TLC
CONSTANTS t1, t2, t3

TwoTargets == <<t1, t2>>
OtherLists == {<<t3>>, <<t3, t1, t3>>}
Alike == Permutations(Requests) \cup Permutations(Keys)
=============================================================================
