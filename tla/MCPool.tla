------------------------------- MODULE MCPool -------------------------------
EXTENDS Pool, TLC

CONSTANTS n1, n2, x1, x2

\* A node has room for either execution but not for both.
Sizes      == [x \in Execution |-> IF x = x1 THEN 1 ELSE 2]
Capacities == [n \in Node |-> 2]

\* Nodes are alike.
Alike == Permutations(Node)
=============================================================================
