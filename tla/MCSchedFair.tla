---------------------------- MODULE MCSchedFair -----------------------------
(* LuaSchedFair for model checking.                                        *)
EXTENDS LuaSchedFair
Once == {0}
=============================================================================
