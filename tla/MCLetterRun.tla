---------------------------- MODULE MCLetterRun ----------------------------
EXTENDS LetterRun, TLC

Symmetry == Permutations(Requests)

\* Two items with one recipient each.
OwnKey == [l \in Letters |-> l]

\* Two leases of one unit whose letters go to the same address.
SameKey == [l \in Letters |-> 1]

=============================================================================
