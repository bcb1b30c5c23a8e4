------------------------------ MODULE MCTaskMsg -----------------------------
(* TaskMsg for model checking: messages are interchangeable.               *)
EXTENDS TaskMsg, TLC
Symmetry == Permutations(Msg)
=============================================================================
