------------------------------ MODULE MCLimits ------------------------------
EXTENDS Limits, TLC

Alike == Permutations(Requests) \cup Permutations(Aliases)
=============================================================================
