---------------------------- MODULE PgfsCheckpoint --------------------------
(***************************************************************************)
(* The checkpoint store of pgfs (pgfs_checkpoint.c): two slots, A for odd  *)
(* and B for even sequence numbers, each of a checkpoint block and a       *)
(* superblock that refers to it.  A store erases both blocks of the slot   *)
(* that is not in use, writes and verifies the checkpoint, then writes and *)
(* verifies the superblock.  Any flash operation may fail and the power    *)
(* may be cut between any two.                                             *)
(*                                                                         *)
(* Of a checkpoint its sequence number and one value are kept, the value   *)
(* standing for the log tail and all else that it records.  A superblock   *)
(* holds the number and the checksum of its checkpoint: here, the          *)
(* checkpoint it refers to.  A block whose checksum is wrong is None.      *)
(***************************************************************************)
EXTENDS Integers

CONSTANTS
    Value,     \* what a checkpoint records
    None,      \* blank or corrupt
    MaxSeq,    \* the last sequence number, UINT32_MAX in the code: flash that
               \* wears out after 10^5 erasures does not reach it
    OneBlock   \* the four regions lie in one erase block: their addresses are
               \* fixed, 4 KiB apart, and the erase unit is 16 KiB or more

Slot == {"A", "B"}
Checkpoint == [seq : 1 .. MaxSeq, value : Value]

ASSUME CheckpointAssumption ==
    /\ None \notin Checkpoint
    /\ MaxSeq \in Nat \ {0}
    /\ OneBlock \in BOOLEAN

VARIABLES
    cpBlock,     \* the checkpoint block of each slot
    sbBlock,     \* the superblock of each slot
    mode,        \* "off", "mounting" without a checkpoint, or "up"
    checkpoint,  \* ctx->checkpoint, None before the first one
    next,        \* the checkpoint being stored
    pc,          \* the next step of the store, or "idle"
    tried        \* history: the checkpoints tried since the last report

flash == <<cpBlock, sbBlock>>
vars == <<flash, mode, checkpoint, next, pc, tried>>

Steps == {"eraseCp", "eraseSb", "writeCp", "writeSb"}

Init ==
    /\ cpBlock = [s \in Slot |-> None]
    /\ sbBlock = [s \in Slot |-> None]
    /\ mode = "off" /\ checkpoint = None
    /\ next = None /\ pc = "idle" /\ tried = {}

-----------------------------------------------------------------------------
Other(s) == IF s = "A" THEN "B" ELSE "A"

(* mutant: every checkpoint goes to slot A *)
SlotOf_Same(seq) == "A"
SlotOf(seq) == IF seq % 2 = 0 THEN "B" ELSE "A"

(* pgfs_pick_latest_valid_sb and prefer_b of pgfs_checkpoint_load          *)
PreferB(sb) ==
    /\ sb["B"] # None
    /\ sb["A"] # None => sb["B"].seq >= sb["A"].seq
Preferred(sb) == IF PreferB(sb) THEN "B" ELSE "A"

(* pgfs_load_checkpoint_by_sb                                              *)
Loads(cp, sb, s) == sb[s] # None /\ cp[s] = sb[s]

(* pgfs_checkpoint_load: the preferred slot, else the other                *)
(* mutant: there is no other *)
Loaded_NoFallback(cp, sb) ==
    IF Loads(cp, sb, Preferred(sb)) THEN cp[Preferred(sb)] ELSE None
Loaded(cp, sb) ==
    IF Loads(cp, sb, Preferred(sb)) THEN cp[Preferred(sb)]
    ELSE IF Loads(cp, sb, Other(Preferred(sb))) THEN cp[Other(Preferred(sb))]
    ELSE None

-----------------------------------------------------------------------------
(* A mount loads, or formats: it replays the log and stores a first one.   *)
MountLoads ==
    /\ mode = "off"
    /\ Loaded(cpBlock, sbBlock) # None
    /\ mode' = "up"
    /\ checkpoint' = Loaded(cpBlock, sbBlock)
    /\ UNCHANGED <<flash, next, pc, tried>>

NextSeq(current) == IF current = None THEN 1 ELSE current.seq + 1

(* The store of v starts, with current the checkpoint in RAM.              *)
Begin(current, v) ==
    LET cp == [seq |-> NextSeq(current), value |-> v] IN
    /\ next' = cp
    /\ pc' = "eraseCp"
    /\ tried' = tried \union {cp}

(* The code counts on from ctx->checkpoint, which is zero here: a load     *)
(* that fails writes into it only if some superblock is valid, and while   *)
(* one is, a checkpoint can be loaded.                                     *)
MountRebuilds(v) ==
    /\ mode = "off"
    /\ Loaded(cpBlock, sbBlock) = None
    /\ mode' = "mounting"
    /\ checkpoint' = None
    /\ Begin(None, v)
    /\ UNCHANGED flash

(* pgfs_checkpoint_commit_pending: from fclose, a batch commit, umount     *)
CommitPending(v) ==
    /\ mode = "up" /\ pc = "idle"
    /\ checkpoint.seq < MaxSeq
    /\ Begin(checkpoint, v)
    /\ UNCHANGED <<flash, mode, checkpoint>>

-----------------------------------------------------------------------------
(* The steps of pgfs_checkpoint_store_next.                                *)
Target == SlotOf(next.seq)
Put(block, v) == [block EXCEPT ![Target] = v]

Erased(block) ==
    IF OneBlock THEN [s \in Slot |-> None] ELSE Put(block, None)

(* An error ends the store; a mount fails with it, a running file system   *)
(* keeps its old checkpoint and will try again.                            *)
Abandon ==
    /\ pc' = "idle" /\ next' = None
    /\ mode' = IF mode = "up" THEN "up" ELSE "off"
    /\ tried' = IF mode = "up" THEN tried ELSE {}
    /\ UNCHANGED checkpoint

Proceed(step) ==
    /\ pc' = step
    /\ UNCHANGED <<next, mode, checkpoint, tried>>

(* An erase that fails may have done its work.  When all lies in one block *)
(* both slots are erased, and the superblock's block is not erased again.  *)
EraseCp ==
    /\ pc = "eraseCp"
    /\ \/ /\ cpBlock' = Erased(cpBlock)
          /\ sbBlock' = IF OneBlock THEN Erased(sbBlock) ELSE sbBlock
          /\ \/ Proceed(IF OneBlock THEN "writeCp" ELSE "eraseSb")
             \/ Abandon
       \/ UNCHANGED flash /\ Abandon

EraseSb ==
    /\ pc = "eraseSb"
    /\ \/ sbBlock' = Erased(sbBlock) /\ Proceed("writeCp")
       \/ sbBlock' \in {sbBlock, Erased(sbBlock)} /\ Abandon
    /\ UNCHANGED cpBlock

(* A write goes on only when what it wrote reads back; one that fails, or  *)
(* does not read back, may have written all of it.                         *)
WriteCp ==
    /\ pc = "writeCp"
    /\ \/ cpBlock' = Put(cpBlock, next) /\ Proceed("writeSb")
       \/ cpBlock' \in {cpBlock, Put(cpBlock, next)} /\ Abandon
    /\ UNCHANGED sbBlock

WriteSb ==
    /\ pc = "writeSb"
    /\ \/ /\ sbBlock' = Put(sbBlock, next)
          /\ checkpoint' = next
          /\ mode' = "up" /\ pc' = "idle" /\ next' = None /\ tried' = {}
       \/ sbBlock' \in {sbBlock, Put(sbBlock, next)} /\ Abandon
    /\ UNCHANGED cpBlock

(* The power is cut: before, between or in the middle of the steps, where  *)
(* the step is the failing one.  Or the file system is unmounted, or the   *)
(* mount fails in a later step.                                            *)
PowerCut ==
    /\ mode # "off"
    /\ mode' = "off" /\ checkpoint' = None
    /\ next' = None /\ pc' = "idle" /\ tried' = {}
    /\ UNCHANGED flash

-----------------------------------------------------------------------------
Mount == MountLoads \/ \E v \in Value : MountRebuilds(v)
Store == EraseCp \/ EraseSb \/ WriteCp \/ WriteSb

Next == Mount \/ Store \/ PowerCut \/ \E v \in Value : CommitPending(v)

Spec == Init /\ [][Next]_vars

-----------------------------------------------------------------------------
(* Correctness.                                                            *)

(* The type invariant.                                                     *)
TypeOK ==
    /\ cpBlock \in [Slot -> Checkpoint \union {None}]
    /\ sbBlock \in [Slot -> Checkpoint \union {None}]
    /\ mode \in {"off", "mounting", "up"}
    /\ checkpoint \in Checkpoint \union {None}
    /\ next \in Checkpoint \union {None}
    /\ pc \in Steps \union {"idle"}
    /\ tried \subseteq Checkpoint

(* At every moment, also in the middle of a store and after any number of  *)
(* failed ones, a mount would find the checkpoint in use or one that has   *)
(* been tried since: the slot in use is never touched.                     *)
(* (pgfs_checkpoint.c:285, 293-303, 317-334)                               *)
Recoverable ==
    mode = "up" => Loaded(cpBlock, sbBlock) \in {checkpoint} \union tried

(* The store implements the abstract one: while the file system is up the  *)
(* checkpoint in use is the committed one, else the one a mount would find *)
Committed ==
    CASE mode = "up" -> checkpoint
      [] mode = "mounting" -> None
      [] mode = "off" -> Loaded(cpBlock, sbBlock)

Abstract == INSTANCE AtomicCheckpoint WITH committed <- Committed

(* Commits are atomic under failures and power cuts.                       *)
(* (pgfs_checkpoint.c:248-370)                                             *)
CommitIsAtomic == Abstract!Spec
=============================================================================
