--------------------------- MODULE AtomicCheckpoint -------------------------
(***************************************************************************)
(* What the checkpoint store of pgfs promises to the rest of the file      *)
(* system: a commit is atomic.  Whatever fails or is cut short, a mount    *)
(* finds the last checkpoint whose commit was reported, or one whose       *)
(* commit has been tried since; never an older one, never a mixture.       *)
(***************************************************************************)
CONSTANTS
    Checkpoint,  \* the checkpoints
    None         \* no checkpoint: the flash has not been formatted

VARIABLES
    committed,   \* the checkpoint that a mount finds, or that it has found
    tried        \* the ones tried since it was reported

vars == <<committed, tried>>

Init == committed = None /\ tried = {}

Try(cp) ==
    /\ tried' = tried \union {cp}
    /\ UNCHANGED committed

Report(cp) ==
    /\ cp \in tried
    /\ committed' = cp
    /\ tried' = {}

(* A power cut, or a commit that fails, settles what a mount will find.    *)
Settle ==
    /\ committed' \in {committed} \union tried
    /\ tried' = {}

Next == Settle \/ \E cp \in Checkpoint : Try(cp) \/ Report(cp)

Spec == Init /\ [][Next]_vars
=============================================================================
