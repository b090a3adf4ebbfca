------------------------------ MODULE MCTables ------------------------------
(* Small instances of Tables for TLC. *)
EXTENDS Tables
CONSTANTS k1, k2, a, b, t1, t2, r1, r2

TwoIds == <<k1, k2>>

\* What requests about keys carry: nothing about aliases, the old models field
\* (cleared, a known or a new alias, another price), references (one alias
\* twice, with an override), or both.
Model(al, t, p) == [alias |-> al, target |-> t, price |-> p]
Ref(al, p) == [alias |-> al, price |-> p]
Bodies == {[refs |-> Absent, models |-> Absent],
           [refs |-> Absent, models |-> <<>>],
           [refs |-> Absent, models |-> <<Model(a, t2, 2)>>],
           [refs |-> <<Ref(a, Unset), Ref(b, Unset), Ref(a, 2)>>, models |-> Absent],
           [refs |-> <<Ref(b, 2)>>, models |-> <<>>]}
TargetLists == {<<>>, <<t1>>, <<t2, t1>>}

Silent == [keys |-> Nothing, table |-> Nothing, rules |-> <<>>]
\* A config.yaml with a table of its own, and one with a key in the old form.
WithTable == [Silent EXCEPT !.table = With(Nothing, a, [targets |-> <<t1>>, price |-> 1])]
WithModels == [Silent EXCEPT !.keys = With(Nothing, k1, [refs |-> <<>>, models |-> <<Model(a, t1, 1)>>])]
HostConfigs == {Silent, WithTable, WithModels}
OnlySilent == {Silent}

\* A state file of the time when keys had models: the two keys disagree on what
\* the alias leads to and costs.
OldFile == [Silent EXCEPT !.rules = <<r1, r2>>, !.keys =
              [id \in Ids |-> [refs |-> <<>>, models |-> IF id = k1 THEN <<Model(a, t1, 1), Model(b, t1, 1)>>
                                                                ELSE <<Model(a, t2, 2)>>]]]
NoneOrOld == {NoFile, OldFile}
OnlyOld == {OldFile}
=============================================================================
