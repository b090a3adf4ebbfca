------------------------------- MODULE Lists -------------------------------
(***************************************************************************)
(* What the editors of the classify rules share: the loops over a slice    *)
(* that append what passes a test to a new one (internal/policy/store.go). *)
(* They are folds, which can be proved about element by element.           *)
(***************************************************************************)
EXTENDS SequencesExt

\* Those elements of s that are in T, in their order and as often as they occur.
Kept(s, T) == FoldLeft(LAMBDA acc, x : IF x \in T THEN Append(acc, x) ELSE acc, <<>>, s)
=============================================================================
