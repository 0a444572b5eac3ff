---------------------------- MODULE MCQueryCache ----------------------------
(* Two children, two tables, and one SELECT that reads both of them.       *)
EXTENDS QueryCache, TLC

CONSTANTS s1, s2, t1, t2, q

MCTables == {t1, t2}
MCQueries == {q}
MCKeys == {q, Catalog}
MCTablesOf == [x \in MCQueries |-> MCTables]

\* the tables are alike: each is read by the SELECT and updated by both
TableSymmetry == Permutations(MCTables)
=============================================================================
