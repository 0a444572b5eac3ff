------------------------ MODULE MCSnapshotIsolation ------------------------
EXTENDS SnapshotIsolation

CONSTANTS c1, c2, c3
ThreeChildren == {c1, c2, c3}
\* A second transaction, which may reuse statements, for one of the children
OneTwice == [c \in Children |-> IF c = c1 THEN 2 ELSE 1]
=============================================================================
