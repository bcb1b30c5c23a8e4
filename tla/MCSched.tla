------------------------------ MODULE MCSched ------------------------------
(* LuaSched for model checking: tasks, callbacks, topics and arguments are *)
(* interchangeable.                                                        *)
EXTENDS LuaSched, TLC
Once == {0}
OnceAndLoop == {0, -1}
OnceTwiceAndLoop == {0, 1, -1}

Symmetry == Permutations(Task) \union Permutations(Fn) \union Permutations(Topic)
=============================================================================
