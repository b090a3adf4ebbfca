----------------------------- MODULE MCBilling -----------------------------
(* Small instances of Billing for TLC. *)
EXTENDS Billing
CONSTANTS a, b

\* A prompt with its hits inside the input, and one that reports more hits than
\* input, and tokens written to the cache.
Reports == {[input |-> 2, output |-> 1, read |-> 0, cached |-> 1, creation |-> 0],
            [input |-> 1, output |-> 0, read |-> 2, cached |-> 2, creation |-> 1]}

Price(first, others, in, out, cache) ==
    [perCall |-> FALSE, first |-> first, others |-> others, in |-> in, out |-> out,
     cache |-> cache, call |-> 0]
Inside == Price("subset", {"additive"}, 3, 2, 1)
Beside == Price("additive", {}, 2, 3, 0)
FreeCalls == [Price("subset", {}, 2, 2, 2) EXCEPT !.perCall = TRUE]
Bodies == {Inside, Beside, FreeCalls}

Table == [x \in Aliases |-> IF x = a THEN Inside ELSE Beside]
=============================================================================
