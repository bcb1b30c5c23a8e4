------------------------------ MODULE MCPgfsLog -----------------------------
(* The data log of pgfs for TLC: the files are interchangeable.            *)
EXTENDS PgfsLog, TLC

Symmetry == Permutations(File)
=============================================================================
