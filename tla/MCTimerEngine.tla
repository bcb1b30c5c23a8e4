---------------------------- MODULE MCTimerEngine ---------------------------
(* The timer engine of the PC port for TLC: one-shot, counted, endless.    *)
EXTENDS TimerEngine

MCRepeats == {0, 2, -1}
=============================================================================
