------------------------- MODULE PgfsCheckpointProofs -----------------------
(***************************************************************************)
(* For flash whose erase unit is 4 KiB, where each of the four regions has *)
(* an erase block of its own: the checkpoint store never loses the         *)
(* checkpoint in use, and implements AtomicCheckpoint.  The argument: the  *)
(* slot of the checkpoint in use is left alone, since the next number is   *)
(* of the other parity; in the other slot the superblock is erased before  *)
(* a checkpoint is written, so that it never refers to a checkpoint that   *)
(* it was not stored with.                                                 *)
(***************************************************************************)
EXTENDS PgfsCheckpoint, TLAPS

-----------------------------------------------------------------------------
(* The inductive invariant.                                                *)

Empty == \A s \in Slot : sbBlock[s] = None

(* c is in its slot, and what the other slot refers to is older, is being  *)
(* tried, or is not there.                                                 *)
Behind(sb, cp, c, t) ==
    sb = None \/ sb.seq < c.seq \/ sb \in t \/ cp # sb

Holds(c, t) ==
    LET s == SlotOf(c.seq) IN
    /\ cpBlock[s] = c
    /\ sbBlock[s] = c
    /\ Behind(sbBlock[Other(s)], cpBlock[Other(s)], c, t)

OffOK ==
    mode = "off" =>
        /\ tried = {} /\ pc = "idle"
        /\ Empty \/ \E c \in Checkpoint : Holds(c, {})

MountingOK ==
    mode = "mounting" =>
        /\ Empty /\ checkpoint = None
        /\ pc # "idle" /\ next.seq = 1 /\ tried = {next}

TriedAreNext(c, t) == \A cp \in t : cp.seq = c.seq + 1

UpOK ==
    mode = "up" =>
        /\ checkpoint \in Checkpoint
        /\ Holds(checkpoint, tried)
        /\ TriedAreNext(checkpoint, tried)

StoreOK ==
    /\ pc # "idle" => next \in tried
    /\ pc \in {"writeCp", "writeSb"} => sbBlock[SlotOf(next.seq)] = None
    /\ pc = "writeSb" => cpBlock[SlotOf(next.seq)] = next

IInv == TypeOK /\ OffOK /\ MountingOK /\ UpOK /\ StoreOK

-----------------------------------------------------------------------------
(* Lemmas.                                                                 *)

(* There are two slots, and consecutive numbers alternate between them.    *)
LEMMA TwoSlots ==
    /\ \A n \in Nat : SlotOf(n) \in Slot /\ SlotOf(n + 1) = Other(SlotOf(n))
    /\ \A s \in Slot : /\ Other(s) \in Slot \ {s}
                       /\ Other(Other(s)) = s
                       /\ Slot = {s, Other(s)}
<1>1. \A n \in Nat : SlotOf(n) \in Slot
  BY DEF SlotOf, Slot
<1>2. \A n \in Nat : SlotOf(n + 1) = Other(SlotOf(n))
  BY SMT DEF SlotOf, Other
<1>3. QED
  BY <1>1, <1>2 DEF Slot, Other

(* A mount of a flash without superblocks finds nothing.                   *)
LEMMA EmptyLoadsNone ==
    ASSUME Empty PROVE Loaded(cpBlock, sbBlock) = None
BY TwoSlots DEF Empty, Loaded, Loads, Preferred, PreferB, Slot, Other

(* A mount finds nothing but what a superblock refers to.                  *)
LEMMA LoadedIsReferredTo ==
    ASSUME NEW cp, NEW sb
    PROVE  Loaded(cp, sb) = None \/ \E s \in Slot : Loaded(cp, sb) = sb[s]
BY DEF Loaded, Loads, Preferred, Other, Slot

(* A mount of a flash that holds c finds c, or one that is being tried;    *)
(* and then the flash holds that one.                                      *)
LEMMA HeldIsLoaded ==
    ASSUME TypeOK, NEW c \in Checkpoint, NEW t \in SUBSET Checkpoint,
           Holds(c, t), TriedAreNext(c, t)
    PROVE  /\ Loaded(cpBlock, sbBlock) \in {c} \union t
           /\ Holds(Loaded(cpBlock, sbBlock), {})
<1> DEFINE s == SlotOf(c.seq)
           o == Other(s)
           p == Preferred(sbBlock)
<1>1. c.seq \in Nat /\ s \in Slot /\ o \in Slot /\ o # s /\ Slot = {s, o}
  BY TwoSlots DEF Checkpoint
<1>2. cpBlock[s] = c /\ sbBlock[s] = c /\ c # None
  BY CheckpointAssumption DEF Holds
<1>3. Loads(cpBlock, sbBlock, s)
  BY <1>2 DEF Loads
<1>4. p \in {s, o} /\ Other(s) = o /\ Other(o) = s
  BY <1>1, TwoSlots DEF Preferred, Slot
<1>5. CASE p = o /\ Loads(cpBlock, sbBlock, o)
  <2>1. Loaded(cpBlock, sbBlock) = sbBlock[o]
    BY <1>5 DEF Loaded, Loads
  <2>2. sbBlock[o] \in Checkpoint
    BY <1>1, <1>5 DEF Loads, TypeOK
  <2>3. sbBlock[o].seq \in Nat /\ ~(sbBlock[o].seq < c.seq)
    BY <1>1, <1>2, <1>5, <2>2 DEF Preferred, PreferB, Slot, Checkpoint
  <2>4. sbBlock[o] \in t /\ sbBlock[o].seq = c.seq + 1
    BY <1>5, <2>2, <2>3, CheckpointAssumption
    DEF Holds, Behind, Loads, TriedAreNext
  <2>5. SlotOf(sbBlock[o].seq) = o
    BY <1>1, <2>4, TwoSlots
  <2>6. Behind(sbBlock[s], cpBlock[s], sbBlock[o], {})
    BY <1>1, <1>2, <2>4 DEF Behind
  <2>7. QED
    BY <1>4, <1>5, <2>1, <2>4, <2>5, <2>6 DEF Holds, Loads
<1>6. CASE ~(p = o /\ Loads(cpBlock, sbBlock, o))
  <2>1. Loaded(cpBlock, sbBlock) = c
    BY <1>2, <1>3, <1>4, <1>6 DEF Loaded
  <2>2. Behind(sbBlock[o], cpBlock[o], c, {})
    <3>1. CASE sbBlock[o] \in t /\ cpBlock[o] = sbBlock[o]
      <4>1. sbBlock[o] # None /\ sbBlock[o].seq = c.seq + 1
        BY <3>1, CheckpointAssumption DEF TriedAreNext
      <4>2. p = o
        BY <1>1, <1>2, <4>1 DEF Preferred, PreferB, Slot
      <4>3. QED
        BY <1>6, <3>1, <4>1, <4>2 DEF Loads
    <3>2. QED
      BY <3>1 DEF Holds, Behind
  <2>3. QED
    BY <1>2, <2>1, <2>2 DEF Holds
<1>7. QED
  BY <1>5, <1>6

-----------------------------------------------------------------------------
(* The invariant is inductive.                                             *)

LEMMA InitEstablishes == Init => IInv
BY DEF Init, IInv, TypeOK, OffOK, MountingOK, UpOK, StoreOK, Empty, Steps

(* What a mount loads, and what a store leaves in the other slot.          *)
LEMMA MountLoadsPreserves == IInv /\ MountLoads => IInv'
<1> SUFFICES ASSUME IInv, MountLoads PROVE IInv'
  OBVIOUS
<1> USE DEF IInv
<1>1. ~Empty
  BY EmptyLoadsNone DEF MountLoads
<1>2. PICK c \in Checkpoint : Holds(c, {})
  BY <1>1 DEF MountLoads, OffOK
<1>3. Loaded(cpBlock, sbBlock) = c
  BY <1>2, HeldIsLoaded DEF TriedAreNext
<1>4. checkpoint' = c /\ mode' = "up" /\ tried' = {} /\ pc' = "idle"
  BY <1>3 DEF MountLoads, OffOK
<1>5. Holds(c, {})' /\ TriedAreNext(c, {})
  BY <1>2 DEF MountLoads, flash, Holds, Behind, TriedAreNext
<1>6. TypeOK'
  BY <1>4 DEF MountLoads, flash, TypeOK
<1>7. QED
  BY <1>4, <1>5, <1>6 DEF OffOK, MountingOK, UpOK, StoreOK, Holds, Behind

LEMMA MountRebuildsPreserves ==
    ASSUME IInv, NEW v \in Value, MountRebuilds(v) PROVE IInv'
<1> USE DEF IInv
<1>1. \A c \in Checkpoint : ~Holds(c, {})
  BY HeldIsLoaded, CheckpointAssumption DEF MountRebuilds, TriedAreNext
<1>2. Empty /\ tried = {} /\ pc = "idle"
  BY <1>1 DEF MountRebuilds, OffOK
<1>3. /\ next' = [seq |-> 1, value |-> v] /\ tried' = {next'}
      /\ pc' = "eraseCp" /\ mode' = "mounting" /\ checkpoint' = None
      /\ UNCHANGED <<cpBlock, sbBlock>>
  BY <1>2 DEF MountRebuilds, Begin, NextSeq, flash
<1>4. next' \in Checkpoint /\ next'.seq = 1
  BY <1>3, CheckpointAssumption DEF Checkpoint
<1>5. TypeOK'
  BY <1>3, <1>4 DEF TypeOK, Steps
<1>6. QED
  BY <1>2, <1>3, <1>4, <1>5 DEF OffOK, MountingOK, UpOK, StoreOK, Empty

LEMMA CommitPendingPreserves ==
    ASSUME IInv, NEW v \in Value, CommitPending(v) PROVE IInv'
<1> USE DEF IInv
<1>1. checkpoint \in Checkpoint /\ checkpoint # None /\ mode = "up"
  BY CheckpointAssumption DEF CommitPending, UpOK
<1>2. /\ next' = [seq |-> checkpoint.seq + 1, value |-> v]
      /\ tried' = tried \union {next'} /\ pc' = "eraseCp" /\ mode' = "up"
      /\ UNCHANGED <<cpBlock, sbBlock, checkpoint>>
  BY <1>1 DEF CommitPending, Begin, NextSeq, flash
<1>3. next' \in Checkpoint /\ next'.seq = checkpoint.seq + 1
  BY <1>1, <1>2, CheckpointAssumption DEF CommitPending, Checkpoint
<1>4. TypeOK'
  BY <1>2, <1>3 DEF TypeOK, Steps
<1>5. Holds(checkpoint, tried)'
  BY <1>1, <1>2 DEF UpOK, Holds, Behind
<1>6. TriedAreNext(checkpoint, tried)'
  BY <1>1, <1>2, <1>3 DEF UpOK, TriedAreNext
<1>7. QED
  BY <1>1, <1>2, <1>3, <1>4, <1>5, <1>6 DEF OffOK, MountingOK, UpOK, StoreOK

(* While a store runs: where it stores, relative to the slot in use.       *)
LEMMA StoreTarget ==
    ASSUME IInv, pc # "idle"
    PROVE  /\ next \in Checkpoint /\ next \in tried
           /\ Target \in Slot /\ Target = SlotOf(next.seq)
           /\ mode \in {"mounting", "up"}
           /\ mode = "up" =>
                /\ checkpoint \in Checkpoint
                /\ next.seq = checkpoint.seq + 1
                /\ SlotOf(checkpoint.seq) \in Slot
                /\ Target = Other(SlotOf(checkpoint.seq))
                /\ Target # SlotOf(checkpoint.seq)
<1> USE DEF IInv
<1>1. next \in Checkpoint /\ next \in tried /\ next.seq \in Nat
  BY DEF StoreOK, TypeOK, Checkpoint
<1>2. mode \in {"mounting", "up"}
  BY DEF OffOK, TypeOK
<1>3. ASSUME mode = "up"
      PROVE  /\ checkpoint \in Checkpoint /\ next.seq = checkpoint.seq + 1
             /\ checkpoint.seq \in Nat
  BY <1>1, <1>3 DEF UpOK, TriedAreNext, Checkpoint
<1>4. QED
  BY <1>1, <1>2, <1>3, TwoSlots DEF Target

(* A step of the store that changes only the other slot, and leaves there  *)
(* no superblock, the one that was there, or the one being stored, does    *)
(* not touch what is in use.                                               *)
LEMMA OtherSlotOnly ==
    ASSUME IInv, mode = "up", pc # "idle",
           NEW cp \in Checkpoint \union {None},
           NEW sb \in Checkpoint \union {None},
           cpBlock' = [cpBlock EXCEPT ![Target] = cp],
           sbBlock' = [sbBlock EXCEPT ![Target] = sb],
           \/ sb = None
           \/ sb = sbBlock[Target] /\ cp \in {None, cpBlock[Target]}
           \/ sb = next,
           UNCHANGED <<checkpoint, tried>>
    PROVE  Holds(checkpoint, tried)'
<1> DEFINE s == SlotOf(checkpoint.seq)
<1>1. /\ next \in tried /\ s \in Slot /\ Target \in Slot
      /\ Target = Other(s) /\ Target # s
  BY StoreTarget
<1>2. cpBlock'[s] = checkpoint /\ sbBlock'[s] = checkpoint
  BY <1>1 DEF IInv, TypeOK, UpOK, Holds
<1>3. cpBlock'[Target] = cp /\ sbBlock'[Target] = sb
  BY <1>1 DEF IInv, TypeOK
<1>4. Behind(sb, cp, checkpoint, tried)
  BY <1>1, CheckpointAssumption DEF IInv, TypeOK, UpOK, Holds, Behind
<1>5. QED
  BY <1>1, <1>2, <1>3, <1>4 DEF Holds

(* What the flash may hold in the slot of the store after a step of it.    *)
Allowed(cp, sb) ==
    /\ cp \in Checkpoint \union {None} /\ sb \in Checkpoint \union {None}
    /\ cpBlock' = [cpBlock EXCEPT ![Target] = cp]
    /\ sbBlock' = [sbBlock EXCEPT ![Target] = sb]
    /\ \/ sb = None
       \/ sb = sbBlock[Target] /\ cp \in {None, cpBlock[Target]}
       \/ sb = next /\ cp = next

(* A store that goes on.                                                   *)
LEMMA ProceedPreserves ==
    ASSUME IInv, pc # "idle", NEW cp, NEW sb, Allowed(cp, sb),
           NEW step \in Steps, Proceed(step),
           step \in {"writeCp", "writeSb"} => sb = None,
           step = "writeSb" => cp = next,
           mode = "mounting" => sb = None
    PROVE  IInv'
<1> USE DEF IInv
<1>1. /\ next \in tried /\ Target \in Slot /\ Target = SlotOf(next.seq)
      /\ mode \in {"mounting", "up"}
  BY StoreTarget
<1>2. /\ pc' = step /\ next' = next /\ mode' = mode /\ step # "idle"
      /\ checkpoint' = checkpoint /\ tried' = tried
  BY DEF Proceed, Steps
<1>3. cpBlock'[Target] = cp /\ sbBlock'[Target] = sb
  BY <1>1 DEF Allowed, TypeOK
<1>4. TypeOK'
  BY <1>1, <1>2 DEF TypeOK, Allowed
<1>5. UpOK'
  <2>1. SUFFICES ASSUME mode = "up" PROVE UpOK'
    BY <1>2 DEF UpOK
  <2>2. Holds(checkpoint, tried)'
    BY <1>2, <2>1, OtherSlotOnly DEF Allowed
  <2>3. QED
    BY <1>2, <2>1, <2>2 DEF UpOK, TriedAreNext
<1>6. MountingOK'
  BY <1>1, <1>2, <1>3 DEF MountingOK, Empty, Allowed, TypeOK
<1>7. StoreOK'
  BY <1>1, <1>2, <1>3 DEF StoreOK
<1>8. QED
  BY <1>1, <1>2, <1>4, <1>5, <1>6, <1>7 DEF OffOK

(* A store that fails.                                                     *)
LEMMA AbandonPreserves ==
    ASSUME IInv, pc # "idle", NEW cp, NEW sb, Allowed(cp, sb), Abandon
    PROVE  IInv'
<1> USE DEF IInv
<1>1. /\ next \in Checkpoint /\ next \in tried
      /\ Target \in Slot /\ Target = SlotOf(next.seq)
      /\ mode \in {"mounting", "up"}
  BY StoreTarget
<1>2. cpBlock'[Target] = cp /\ sbBlock'[Target] = sb
  BY <1>1 DEF Allowed, TypeOK
<1>3. pc' = "idle" /\ next' = None /\ checkpoint' = checkpoint
  BY DEF Abandon
<1>4. TypeOK'
  BY <1>1, <1>3 DEF Abandon, TypeOK, Allowed
<1>5. CASE mode = "up"
  <2>1. mode' = "up" /\ tried' = tried
    BY <1>5 DEF Abandon
  <2>2. Holds(checkpoint, tried)'
    BY <1>3, <1>5, <2>1, OtherSlotOnly DEF Allowed
  <2>3. QED
    BY <1>3, <1>4, <1>5, <2>1, <2>2
    DEF OffOK, MountingOK, UpOK, StoreOK, TriedAreNext
<1>6. CASE mode = "mounting"
  <2>1. mode' = "off" /\ tried' = {}
    BY <1>6 DEF Abandon
  <2>2. CASE sb = None
    BY <1>1, <1>3, <1>4, <1>6, <2>1, <2>2
    DEF OffOK, MountingOK, UpOK, StoreOK, Empty, Allowed, TypeOK
  <2>3. CASE sb # None
    <3>1. sb = next /\ cp = next
      BY <1>1, <1>6, <2>3 DEF Allowed, MountingOK, Empty
    <3>2. /\ Other(Target) \in Slot \ {Target}
          /\ sbBlock'[Other(Target)] = None
      BY <1>1, <1>6, TwoSlots DEF Allowed, MountingOK, Empty, TypeOK
    <3>3. \E c \in Checkpoint : Holds(c, {})'
      <4>1. /\ cpBlock'[SlotOf(next.seq)] = next
            /\ sbBlock'[SlotOf(next.seq)] = next
            /\ sbBlock'[Other(SlotOf(next.seq))] = None
        BY <1>1, <1>2, <3>1, <3>2
      <4>2. QED
        BY <1>1, <4>1 DEF Holds, Behind
    <3>4. QED
      BY <1>3, <1>4, <2>1, <3>3 DEF OffOK, MountingOK, UpOK, StoreOK
  <2>4. QED
    BY <2>2, <2>3
<1>7. QED
  BY <1>1, <1>5, <1>6

LEMMA EraseCpPreserves ==
    ASSUME ~OneBlock PROVE IInv /\ EraseCp => IInv'
<1> SUFFICES ASSUME IInv, EraseCp PROVE IInv'
  OBVIOUS
<1>1. Target \in Slot /\ pc # "idle"
  BY StoreTarget DEF EraseCp
<1>2. mode = "mounting" => sbBlock[Target] = None
  BY <1>1 DEF IInv, MountingOK, Empty
<1>3. CASE cpBlock' = Put(cpBlock, None) /\ sbBlock' = sbBlock
  <2>1. Allowed(None, sbBlock[Target])
    BY <1>1, <1>3 DEF Allowed, Put, IInv, TypeOK
  <2>2. Proceed("eraseSb") \/ Abandon
    BY DEF EraseCp
  <2>3. QED
    BY <1>1, <1>2, <2>1, <2>2, ProceedPreserves, AbandonPreserves DEF Steps
<1>4. CASE UNCHANGED flash /\ Abandon
  <2>1. Allowed(cpBlock[Target], sbBlock[Target])
    BY <1>1, <1>4 DEF Allowed, flash, IInv, TypeOK
  <2>2. QED
    BY <1>1, <1>4, <2>1, AbandonPreserves
<1>5. QED
  BY <1>3, <1>4 DEF EraseCp, Erased

LEMMA EraseSbPreserves ==
    ASSUME ~OneBlock PROVE IInv /\ EraseSb => IInv'
<1> SUFFICES ASSUME IInv, EraseSb PROVE IInv'
  OBVIOUS
<1>1. Target \in Slot /\ pc # "idle" /\ cpBlock' = cpBlock
  BY StoreTarget DEF EraseSb
<1>2. CASE sbBlock' = Put(sbBlock, None)
  <2>1. Allowed(cpBlock[Target], None)
    BY <1>1, <1>2 DEF Allowed, Put, IInv, TypeOK
  <2>2. Proceed("writeCp") \/ Abandon
    BY DEF EraseSb
  <2>3. QED
    BY <1>1, <2>1, <2>2, ProceedPreserves, AbandonPreserves DEF Steps
<1>3. CASE sbBlock' = sbBlock /\ Abandon
  <2>1. Allowed(cpBlock[Target], sbBlock[Target])
    BY <1>1, <1>3 DEF Allowed, IInv, TypeOK
  <2>2. QED
    BY <1>1, <1>3, <2>1, AbandonPreserves
<1>4. QED
  BY <1>2, <1>3 DEF EraseSb, Erased

LEMMA WriteCpPreserves == IInv /\ WriteCp => IInv'
<1> SUFFICES ASSUME IInv, WriteCp PROVE IInv'
  OBVIOUS
<1>1. /\ Target \in Slot /\ pc # "idle" /\ sbBlock' = sbBlock
      /\ next \in Checkpoint /\ sbBlock[Target] = None
  BY StoreTarget DEF WriteCp, IInv, StoreOK
<1>2. CASE cpBlock' = Put(cpBlock, next)
  <2>1. Allowed(next, None)
    BY <1>1, <1>2 DEF Allowed, Put, IInv, TypeOK
  <2>2. Proceed("writeSb") \/ Abandon
    BY DEF WriteCp
  <2>3. QED
    BY <1>1, <2>1, <2>2, ProceedPreserves, AbandonPreserves DEF Steps
<1>3. CASE cpBlock' = cpBlock /\ Abandon
  <2>1. Allowed(cpBlock[Target], None)
    BY <1>1, <1>3 DEF Allowed, IInv, TypeOK
  <2>2. QED
    BY <1>1, <1>3, <2>1, AbandonPreserves
<1>4. QED
  BY <1>2, <1>3 DEF WriteCp

(* A store that is done: the slot that was in use is the older one now.    *)
LEMMA WriteSbPreserves == IInv /\ WriteSb => IInv'
<1> SUFFICES ASSUME IInv, WriteSb PROVE IInv'
  OBVIOUS
<1>1. /\ Target \in Slot /\ Target = SlotOf(next.seq) /\ pc # "idle"
      /\ cpBlock' = cpBlock /\ next \in Checkpoint
      /\ cpBlock[Target] = next /\ sbBlock[Target] = None
  BY StoreTarget DEF WriteSb, IInv, StoreOK
<1>2. CASE /\ sbBlock' = Put(sbBlock, next)
           /\ checkpoint' = next
           /\ mode' = "up" /\ pc' = "idle" /\ next' = None /\ tried' = {}
  <2>1. cpBlock'[Target] = next /\ sbBlock'[Target] = next
    BY <1>1, <1>2 DEF Put, IInv, TypeOK
  <2>2. Behind(sbBlock'[Other(Target)], cpBlock'[Other(Target)], next, {})
    <3>1. /\ Other(Target) \in Slot
          /\ sbBlock'[Other(Target)] = sbBlock[Other(Target)]
      BY <1>1, <1>2, TwoSlots DEF Put, IInv, TypeOK
    <3>2. CASE mode = "mounting"
      BY <3>1, <3>2 DEF Behind, IInv, MountingOK, Empty
    <3>3. CASE mode = "up"
      <4>1. /\ checkpoint \in Checkpoint /\ next.seq = checkpoint.seq + 1
            /\ SlotOf(checkpoint.seq) \in Slot
            /\ Target = Other(SlotOf(checkpoint.seq))
        BY <1>1, <3>3, StoreTarget
      <4>2. Other(Target) = SlotOf(checkpoint.seq)
        BY <4>1, TwoSlots
      <4>3. sbBlock'[Other(Target)] = checkpoint
        BY <3>1, <3>3, <4>2 DEF IInv, UpOK, Holds
      <4>4. QED
        BY <4>1, <4>3 DEF Behind, Checkpoint
    <3>4. QED
      BY <1>1, <3>2, <3>3, StoreTarget
  <2>3. Holds(checkpoint, tried)' /\ TriedAreNext(checkpoint, tried)'
    BY <1>1, <1>2, <2>1, <2>2 DEF Holds, TriedAreNext
  <2>4. TypeOK'
    BY <1>1, <1>2 DEF Put, IInv, TypeOK
  <2>5. QED
    BY <1>1, <1>2, <2>3, <2>4
    DEF IInv, OffOK, MountingOK, UpOK, StoreOK
<1>3. CASE sbBlock' = Put(sbBlock, next) /\ Abandon
  <2>1. Allowed(next, next)
    BY <1>1, <1>3 DEF Allowed, Put, IInv, TypeOK
  <2>2. QED
    BY <1>1, <1>3, <2>1, AbandonPreserves
<1>4. CASE sbBlock' = sbBlock /\ Abandon
  <2>1. Allowed(cpBlock[Target], sbBlock[Target])
    BY <1>1, <1>4 DEF Allowed, IInv, TypeOK
  <2>2. QED
    BY <1>1, <1>4, <2>1, AbandonPreserves
<1>5. QED
  BY <1>2, <1>3, <1>4 DEF WriteSb

LEMMA PowerCutPreserves == IInv /\ PowerCut => IInv'
<1> SUFFICES ASSUME IInv, PowerCut PROVE IInv'
  OBVIOUS
<1> USE DEF IInv
<1>1. /\ mode' = "off" /\ checkpoint' = None /\ next' = None
      /\ pc' = "idle" /\ tried' = {} /\ UNCHANGED <<cpBlock, sbBlock>>
  BY DEF PowerCut, flash
<1>2. Empty \/ \E c \in Checkpoint : Holds(c, {})
  <2>1. CASE mode = "mounting"
    BY <2>1 DEF MountingOK
  <2>2. CASE mode = "up"
    <3>1. tried \in SUBSET Checkpoint
      BY DEF TypeOK
    <3>2. /\ Loaded(cpBlock, sbBlock) \in {checkpoint} \union tried
          /\ Holds(Loaded(cpBlock, sbBlock), {})
      BY <2>2, <3>1, HeldIsLoaded DEF UpOK
    <3>3. QED
      BY <2>2, <3>1, <3>2 DEF UpOK
  <2>3. QED
    BY <2>1, <2>2 DEF PowerCut, TypeOK
<1>3. Empty' \/ \E c \in Checkpoint : Holds(c, {})'
  BY <1>1, <1>2 DEF Empty, Holds, Behind
<1>4. QED
  BY <1>1, <1>3 DEF OffOK, MountingOK, UpOK, StoreOK, TypeOK

LEMMA IInvInductive ==
    ASSUME ~OneBlock PROVE IInv /\ [Next]_vars => IInv'
<1> SUFFICES ASSUME IInv, [Next]_vars PROVE IInv'
  OBVIOUS
<1>1. CASE Mount
  BY <1>1, MountLoadsPreserves, MountRebuildsPreserves DEF Mount
<1>2. CASE Store
  BY <1>2, EraseCpPreserves, EraseSbPreserves, WriteCpPreserves,
     WriteSbPreserves DEF Store
<1>3. CASE PowerCut
  BY <1>3, PowerCutPreserves
<1>4. CASE \E v \in Value : CommitPending(v)
  BY <1>4, CommitPendingPreserves
<1>5. CASE UNCHANGED vars
  BY <1>5 DEF IInv, TypeOK, OffOK, MountingOK, UpOK, StoreOK, TriedAreNext,
     Empty, Holds, Behind, vars, flash
<1>6. QED
  BY <1>1, <1>2, <1>3, <1>4, <1>5 DEF Next

THEOREM Invariance ==
    ASSUME ~OneBlock PROVE Spec => []IInv
BY InitEstablishes, IInvInductive, PTL DEF Spec

-----------------------------------------------------------------------------
(* The type invariant, of the whole of pgfs_checkpoint.c.                  *)
THEOREM TypeCorrect ==
    ASSUME ~OneBlock PROVE Spec => []TypeOK
<1>1. IInv => TypeOK
  BY DEF IInv
<1>2. QED
  BY Invariance, <1>1, PTL

(* No failure or power cut loses the checkpoint in use.                    *)
(* (pgfs_checkpoint_store_next, 232-370)                                   *)
THEOREM NeverLost ==
    ASSUME ~OneBlock PROVE Spec => []Recoverable
<1>1. IInv => Recoverable
  BY HeldIsLoaded DEF IInv, TypeOK, UpOK, Recoverable
<1>2. QED
  BY Invariance, <1>1, PTL

(* The store implements the atomic one.                                    *)
(* (pgfs_checkpoint_load 169-230, pgfs_checkpoint_store_next 232-370)      *)
THEOREM Refinement ==
    ASSUME ~OneBlock PROVE Spec => CommitIsAtomic
<1> DEFINE L == Loaded(cpBlock, sbBlock)
<1>1. Init => Abstract!Init
  <2> SUFFICES ASSUME Init PROVE Abstract!Init
    OBVIOUS
  <2>1. Empty
    BY DEF Init, Empty
  <2>2. QED
    BY <2>1, EmptyLoadsNone DEF Init, Abstract!Init, Committed
<1>2. IInv /\ IInv' /\ [Next]_vars => [Abstract!Next]_(Abstract!vars)
  <2> SUFFICES ASSUME IInv, IInv', [Next]_vars
               PROVE  [Abstract!Next]_(Abstract!vars)
    OBVIOUS
  <2> USE DEF Abstract!Next, Abstract!vars
  <2>0. /\ mode = "off" => Committed = L /\ tried = {} /\ pc = "idle"
        /\ mode = "mounting" => Committed = None /\ L = None
        /\ mode = "up" =>
             Committed = checkpoint /\ L \in {checkpoint} \union tried
        /\ mode \in {"off", "mounting", "up"}
    BY EmptyLoadsNone, HeldIsLoaded
    DEF IInv, TypeOK, OffOK, MountingOK, UpOK, Committed
  <2>1. CASE MountLoads
    BY <2>0, <2>1 DEF MountLoads, Committed
  <2>2. ASSUME NEW v \in Value, MountRebuilds(v)
        PROVE  \E cp \in Checkpoint : Abstract!Try(cp)
    <3>1. next' \in Checkpoint /\ tried' = tried \union {next'}
      BY <2>2, CheckpointAssumption
      DEF MountRebuilds, Begin, NextSeq, Checkpoint
    <3>2. Committed' = Committed
      BY <2>0, <2>2 DEF MountRebuilds, Committed
    <3>3. QED
      BY <3>1, <3>2 DEF Abstract!Try
  <2>3. ASSUME NEW v \in Value, CommitPending(v)
        PROVE  \E cp \in Checkpoint : Abstract!Try(cp)
    <3>1. next' = [seq |-> checkpoint.seq + 1, value |-> v]
      BY <2>3, CheckpointAssumption
      DEF CommitPending, Begin, NextSeq, IInv, UpOK
    <3>2. next' \in Checkpoint /\ tried' = tried \union {next'}
      BY <2>3, <3>1, CheckpointAssumption
      DEF CommitPending, Begin, IInv, UpOK, Checkpoint
    <3>3. Committed' = Committed
      BY <2>3 DEF CommitPending, Committed
    <3>4. QED
      BY <3>2, <3>3 DEF Abstract!Try
  <2>4. ASSUME Abandon, pc # "idle",
               \/ sbBlock' = sbBlock
               \/ sbBlock' = Put(sbBlock, None)
               \/ sbBlock' = Put(sbBlock, next)
        PROVE  [Abstract!Next]_(Abstract!vars)
    <3>1. CASE mode = "up"
      BY <2>4, <3>1 DEF Abandon, Committed
    <3>2. CASE mode = "mounting"
      <4>1. tried' = {} /\ mode' = "off" /\ tried = {next}
        BY <2>4, <3>2 DEF Abandon, IInv, MountingOK
      <4>2. \A s \in Slot : sbBlock'[s] \in {None, next}
        BY <2>4, <3>2 DEF Put, IInv, TypeOK, MountingOK, Empty
      <4>3. Committed' = Loaded(cpBlock', sbBlock')
        BY <4>1 DEF Committed
      <4>4. Committed' \in {Committed} \union tried
        BY <2>0, <3>2, <4>1, <4>2, <4>3, LoadedIsReferredTo
      <4>5. QED
        BY <4>1, <4>4 DEF Abstract!Settle
    <3>3. QED
      BY <2>0, <2>4, <3>1, <3>2
  <2>5. ASSUME NEW step, Proceed(step), pc # "idle"
        PROVE  UNCHANGED Abstract!vars
    BY <2>0, <2>5 DEF Proceed, Committed
  <2>6. CASE EraseCp
    BY <2>4, <2>5, <2>6 DEF EraseCp, flash
  <2>7. CASE EraseSb
    BY <2>4, <2>5, <2>7 DEF EraseSb, Erased
  <2>8. CASE WriteCp
    BY <2>4, <2>5, <2>8 DEF WriteCp
  <2>9. CASE WriteSb
    <3>1. CASE /\ checkpoint' = next
               /\ mode' = "up" /\ tried' = {}
      <4>1. next \in Checkpoint /\ next \in tried
        BY <2>9, StoreTarget DEF WriteSb
      <4>2. Committed' = next
        BY <3>1 DEF Committed
      <4>3. QED
        BY <3>1, <4>1, <4>2 DEF Abstract!Report
    <3>2. QED
      BY <2>4, <2>9, <3>1 DEF WriteSb
  <2>10. CASE PowerCut
    <3>1. Committed' = L /\ tried' = {}
      BY <2>10 DEF PowerCut, flash, Committed
    <3>2. L \in {Committed} \union tried
      BY <2>0, <2>10 DEF PowerCut
    <3>3. QED
      BY <3>1, <3>2 DEF Abstract!Settle
  <2>11. CASE UNCHANGED vars
    BY <2>11 DEF vars, flash, Committed
  <2>12. QED
    BY <2>1, <2>2, <2>3, <2>6, <2>7, <2>8, <2>9, <2>10, <2>11
    DEF Next, Mount, Store
<1>3. QED
  BY <1>1, <1>2, Invariance, PTL DEF Spec, CommitIsAtomic, Abstract!Spec
=============================================================================
