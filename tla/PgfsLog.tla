------------------------------ MODULE PgfsLog ------------------------------
(***************************************************************************)
(* The data log of pgfs: fclose, fflush and batch commits append records,  *)
(* a mount replays them (pgfs_core.c).  What a replay sees ends at the     *)
(* larger of two bounds: the tail recorded by the last checkpoint, and the *)
(* write head that each close stores in the state block of the flash       *)
(* translation layer (pgfs_nand_ftl.c), which is erased first.             *)
(*                                                                         *)
(* The log is counted in slots, PerBlock of them to an erase block, and    *)
(* starts at 0.  A record takes one or two slots; a slot is Blank, Torn,   *)
(* or one part of a record.  The data of a file is the number of the       *)
(* operation that wrote it.  A checkpoint is stored atomically, as module  *)
(* PgfsCheckpoint shows.  The garbage collector, and the wrap-around when  *)
(* the log is full, are not modelled: no operation starts in the last two  *)
(* blocks, and of the two writes of an append only the first may fail.     *)
(***************************************************************************)
EXTENDS Integers, Sequences

CONSTANTS
    File,         \* the paths
    Blocks,       \* erase blocks of the data log
    PerBlock,     \* slots to a block
    OffsetRange,  \* slots whose offset in a block fits the 16 bits stored
    BatchCloses,  \* PGFS_CHECKPOINT_BATCH_CLOSES, 8 in the code
    MaxOps,       \* bound: operations
    MaxBatches,   \* bound: how many of them are batches
    MaxFails,     \* bound: failing writes and failing persists
    MaxCuts,      \* bound: power cuts
    Blank, Torn

LogEnd == Blocks * PerBlock
Addr == 0 .. LogEnd - 1

VARIABLES
    log,       \* flash: what each slot holds
    cpTail,    \* flash: log_tail_block and log_tail_offset of the checkpoint
    ftl,       \* flash: write_head of the FTL state, 0 when there is none
    up,        \* mounted
    writeAddr, \* data_log_write_addr
    prepared,  \* data_log_prepared_until
    pending,   \* pending_checkpoint_writes
    nextId,    \* batch_next_id
    table,     \* the file table in RAM
    pc,        \* the next step of the operation under way, or "idle"
    job,       \* that operation: its name, its files, what is left to append,
               \* and whether the head and a checkpoint have been stored
    ops, begun, fails, cuts,  \* how many so far: operations, batches, ...
    batches,   \* history: the batches committed
    spoilt,    \* history: a record was written where the flash was not blank
    acked,     \* history: the last number acknowledged, by file
    covered    \* history: the file table when a checkpoint was last stored

flash == <<log, cpTail, ftl>>
ram == <<up, writeAddr, prepared, pending, nextId, table>>
bounds == <<ops, begun, fails, cuts>>
history == <<batches, spoilt, acked, covered>>
vars == <<flash, ram, pc, job, bounds, history>>

Kind == {"DATA", "BATCH_DATA", "BATCH_COMMIT"}
Part == [kind : Kind, files : SUBSET File, ver : 1 .. MaxOps,
         id : 0 .. MaxBatches, len : 1 .. 2, part : 1 .. 2]

ASSUME LogAssumption ==
    /\ Blocks \in Nat /\ Blocks > 4
    /\ PerBlock \in Nat /\ PerBlock > 1
    /\ OffsetRange \in 1 .. PerBlock
    /\ BatchCloses \in Nat \ {0}
    /\ {MaxOps, MaxBatches, MaxFails, MaxCuts} \subseteq Nat
    /\ Blank # Torn /\ Blank \notin Part /\ Torn \notin Part

Max2(a, b) == IF a > b THEN a ELSE b
Min2(a, b) == IF a < b THEN a ELSE b

-----------------------------------------------------------------------------
(* Blocks and records.                                                     *)
BlockEnd(a) == (a \div PerBlock + 1) * PerBlock
AlignUp(a) == IF a % PerBlock = 0 THEN a ELSE BlockEnd(a)

Erase(l, from, to) ==
    [a \in Addr |-> IF a \in from .. to - 1 THEN Blank ELSE l[a]]

(* The first j parts of r are written at a: what is not blank is spoilt.   *)
Put(l, r, a, j) ==
    [s \in Addr |->
        IF s \notin a .. a + j - 1 THEN l[s]
        ELSE IF l[s] = Blank THEN [r EXCEPT !.part = s - a + 1] ELSE Torn]

(* A write that is cut short leaves some of its parts, the next one torn.  *)
CutShort(l, r, a) ==
    {Put(l, r, a, j) : j \in 0 .. r.len} \union
    {[Put(l, r, a, j) EXCEPT ![a + j] = Torn] : j \in 0 .. r.len - 1}

Header(l, a) == l[a] \notin {Blank, Torn} /\ l[a].part = 1

(* The CRC of a record holds.                                              *)
Whole(l, a) ==
    /\ Header(l, a)
    /\ \A j \in 2 .. l[a].len :
        a + j - 1 \in Addr /\ l[a + j - 1] = [l[a] EXCEPT !.part = j]

-----------------------------------------------------------------------------
(* The replay (pgfs_replay_data_log).                                      *)

(* What is not a record is skipped, to the next header in the block or to  *)
(* the next block.                                                         *)
Resume(l, a, inBlock) ==
    LET H == {h \in a + 1 .. BlockEnd(a) - 1 : Header(l, h)} IN
    IF inBlock /\ H # {} THEN CHOOSE h \in H : \A k \in H : h <= k
    ELSE BlockEnd(a)

(* mutant: a record of a batch does not wait for the commit *)
Take_AtOnce(s, r) ==
    [s EXCEPT !.table = [f \in File |->
        IF f \in r.files THEN r.ver ELSE s.table[f]]]
Take(s, r) ==
    LET Mine == {t \in s.staged : t.id = r.id}
        Wrote(f) == {t.ver : t \in {t \in Mine : f \in t.files}}
    IN
    CASE r.kind = "DATA" ->
            [s EXCEPT !.table = [f \in File |->
                IF f \in r.files THEN r.ver ELSE s.table[f]]]
      [] r.kind = "BATCH_DATA" -> [s EXCEPT !.staged =
            {t \in @ : t.files # r.files \/ t.id # r.id} \union {r}]
      [] OTHER -> [s EXCEPT !.staged = @ \ Mine, !.table = [f \in File |->
            IF Wrote(f) # {} THEN CHOOSE v \in Wrote(f) : TRUE
            ELSE s.table[f]]]

(* One turn of the loop: s holds the address, the file table, the records  *)
(* of batches without a commit yet, and the write head.                    *)
Scan(l, s) ==
    LET a == s.at IN
    IF Whole(l, a)
    THEN [Take(s, l[a]) EXCEPT !.at = a + l[a].len, !.head = a + l[a].len]
    ELSE [s EXCEPT !.at = Resume(l, a,
            Header(l, a) \/ s.staged # {} \/ BlockEnd(a) = LogEnd)]

(* The turns of the loop, one after the other.                             *)
Turns(l, bound) ==
    LET limit == IF bound = 0 THEN LogEnd ELSE bound
        after[n \in 0 .. LogEnd] ==
            IF n = 0
            THEN [at |-> 0, table |-> [f \in File |-> 0], staged |-> {},
                  head |-> bound]
            ELSE LET s == after[n - 1] IN
                 IF s.at >= limit THEN s ELSE Scan(l, s)
    IN after

Replay(l, bound) == Turns(l, bound)[LogEnd]

(* The bounds lose the high bits of the offset in the block.               *)
Stored(a) == (a \div PerBlock) * PerBlock + ((a % PerBlock) % OffsetRange)

(* mutant: the head, when there is one *)
Bound_HeadFirst(tail, head) == IF head = 0 THEN tail ELSE head
Bound(tail, head) == Max2(tail, head)

Recovered == Replay(log, Bound(cpTail, ftl)).table

-----------------------------------------------------------------------------
Job(op, fs, todo) == [op |-> op, files |-> fs, todo |-> todo,
                      headStored |-> FALSE, saved |-> FALSE]
NoJob == Job("none", {}, << >>)
NoFiles == [f \in File |-> 0]

(* The RAM is lost.                                                        *)
Off ==
    /\ up' = FALSE /\ writeAddr' = 0 /\ prepared' = 0 /\ pending' = 0
    /\ nextId' = 1 /\ table' = NoFiles
    /\ pc' = "idle" /\ job' = NoJob

Init ==
    /\ log = [a \in Addr |-> Blank]
    /\ cpTail = 0 /\ ftl = 0
    /\ up = FALSE /\ writeAddr = 0 /\ prepared = 0 /\ pending = 0
    /\ nextId = 1 /\ table = NoFiles
    /\ pc = "idle" /\ job = NoJob
    /\ ops = 0 /\ begun = 0 /\ fails = 0 /\ cuts = 0
    /\ batches = {} /\ spoilt = FALSE /\ acked = NoFiles /\ covered = NoFiles

(* A batch of which a table holds all or nothing.                          *)
AllOrNothing(b, t) ==
    \A f, g \in b.files : t[f] = b.ver => t[g] >= b.ver

(* A mount replays the log up to the bound.  The histories forget what it  *)
(* did not find: a loss that is excused is so once.                        *)
Mount ==
    LET r == Replay(log, Bound(cpTail, ftl)) IN
    /\ ~up
    /\ up' = TRUE
    /\ writeAddr' = r.head
    /\ prepared' = Max2(Bound(cpTail, ftl), r.head)
    /\ pending' = 0 /\ nextId' = 1 /\ table' = r.table
    /\ acked' = [f \in File |-> Min2(acked[f], r.table[f])]
    /\ batches' = {b \in batches : AllOrNothing(b, r.table)}
    /\ UNCHANGED <<flash, pc, job, bounds, spoilt, covered>>

(* Bound: b blocks are left for the appends of an operation.               *)
Room(b) == writeAddr + b * PerBlock <= LogEnd

Begin(op, fs, todo) ==
    /\ up /\ pc = "idle" /\ ops < MaxOps
    /\ ops' = ops + 1
    /\ job' = Job(op, fs, todo)
    /\ pc' = "append"
    /\ UNCHANGED <<flash, up, writeAddr, prepared, pending, table,
                   fails, cuts, spoilt, acked, covered>>

Record(kind, fs, id, len) == [kind |-> kind, files |-> fs, ver |-> ops + 1,
                              id |-> id, len |-> len, part |-> 1]

(* fclose and fflush of a file with data in its cache.                     *)
Write(op, f, len) ==
    /\ Room(2)
    /\ Begin(op, {f}, <<Record("DATA", {f}, 0, len)>>)
    /\ UNCHANGED <<nextId, begun, batches>>

(* A batch is begun, its files are closed into RAM, and it is committed.   *)
CommitBatch(f, g, len) ==
    /\ f # g /\ Room(4)
    /\ begun < MaxBatches
    /\ Begin("batch", {f, g}, <<Record("BATCH_DATA", {f}, nextId, len),
                                Record("BATCH_DATA", {g}, nextId, 1),
                                Record("BATCH_COMMIT", {}, nextId, 1)>>)
    /\ nextId' = nextId + 1
    /\ begun' = begun + 1
    /\ batches' = batches \union {[ver |-> ops + 1, files |-> {f, g}]}

(* umount: stores the head, then a checkpoint if one is due.               *)
Umount ==
    /\ up /\ pc = "idle"
    /\ job' = Job("umount", {}, << >>)
    /\ pc' = "eraseHead"
    /\ UNCHANGED <<flash, ram, bounds, history>>

-----------------------------------------------------------------------------
(* pgfs_append_log_record.                                                 *)

(* pgfs_prepare_data_log_region: at the start of a block, erases what has  *)
(* not been prepared; elsewhere, when the slot is not blank, the head      *)
(* moves to the next block (pgfs_relocate_unaligned_write_head).           *)
(* mutant: the head moves back to the start of its block *)
Prepared_Back(l, a, n, p) ==
    LET b == a - (a % PerBlock) IN
    IF a % PerBlock = 0
    THEN [log |-> Erase(l, AlignUp(Max2(p, a)), AlignUp(a + n)), addr |-> a,
          until |-> AlignUp(a + n)]
    ELSE IF l[a] = Blank THEN [log |-> l, addr |-> a, until |-> p]
    ELSE [log |-> Erase(l, b, AlignUp(b + n)), addr |-> b,
          until |-> AlignUp(b + n)]
Prepared(l, a, n, p) ==
    LET b == BlockEnd(a) IN
    IF a % PerBlock = 0
    THEN [log |-> Erase(l, AlignUp(Max2(p, a)), AlignUp(a + n)), addr |-> a,
          until |-> AlignUp(a + n)]
    ELSE IF l[a] = Blank THEN [log |-> l, addr |-> a, until |-> p]
    ELSE [log |-> Erase(l, b, AlignUp(b + n)), addr |-> b,
          until |-> AlignUp(b + n)]

NextRecord == Head(job.todo)
Place == Prepared(log, writeAddr, NextRecord.len, prepared)

(* After its data record a close or a flush stores the head; a batch goes  *)
(* on to its next record and does not store the head.                      *)
Appended(l, a, p) ==
    /\ log' = Put(l, NextRecord, a, NextRecord.len)
    /\ writeAddr' = a + NextRecord.len
    /\ prepared' = p
    /\ spoilt' = (spoilt \/ \E s \in a .. a + NextRecord.len - 1 : l[s] # Blank)
    /\ job' = [job EXCEPT !.todo = Tail(@)]
    /\ pc' = IF job.op # "batch" THEN "eraseHead"
             ELSE IF Tail(job.todo) = << >> THEN "finish" ELSE "append"
    /\ UNCHANGED <<cpTail, ftl, up, pending, nextId, table, ops, begun,
                   cuts, batches, acked, covered>>

AppendRecord ==
    /\ pc = "append"
    /\ Appended(Place.log, Place.addr, Place.until)
    /\ UNCHANGED fails

(* The write fails, leaving its first slot programmed: once more, in the   *)
(* next block.  Bound: what is left of the operation fits behind it.       *)
RetryRecord ==
    /\ pc = "append" /\ fails < MaxFails
    /\ Place.addr = writeAddr
    /\ BlockEnd(writeAddr) + NextRecord.len + PerBlock * Len(Tail(job.todo)) <= LogEnd
    /\ \E l \in CutShort(Place.log, NextRecord, writeAddr) :
        LET a == BlockEnd(writeAddr)
            again == Prepared(l, a, NextRecord.len, a)
        IN
        /\ l[writeAddr] # Blank
        /\ Appended(again.log, a, again.until)
    /\ fails' = fails + 1

-----------------------------------------------------------------------------
(* pgfs_persist_write_head and pgfs_ftl_on_checkpoint_commit: the state    *)
(* block is erased, then written.  A failure leaves it as it was, blank,   *)
(* or as it should be.                                                     *)
HeadOnly == UNCHANGED <<log, cpTail, ram, ops, begun, cuts, history>>

EraseHead ==
    /\ pc = "eraseHead"
    /\ ftl' = 0
    /\ pc' = "writeHead"
    /\ UNCHANGED <<job, fails>> /\ HeadOnly

WriteHead ==
    /\ pc = "writeHead"
    /\ ftl' = Stored(writeAddr)
    /\ job' = [job EXCEPT !.headStored = TRUE]
    /\ pc' = "finish"
    /\ UNCHANGED fails /\ HeadOnly

HeadFails ==
    /\ pc = "eraseHead" /\ fails < MaxFails
    /\ ftl' \in {ftl, 0, Stored(writeAddr)}
    /\ pc' = "finish"
    /\ fails' = fails + 1
    /\ UNCHANGED job /\ HeadOnly

-----------------------------------------------------------------------------
(* The rest of the operation.  A flush without its head stored has failed  *)
(* and leaves the file table alone.                                        *)
Applies == job.op # "flush" \/ job.headStored
NewTable == [f \in File |-> IF Applies /\ f \in job.files THEN ops ELSE table[f]]
(* mutant: no cap *)
Counted_NoCap == IF Applies /\ ~job.saved /\ job.op # "umount"
                 THEN pending + 1 ELSE pending
Counted == IF Applies /\ ~job.saved /\ job.op # "umount"
           THEN Min2(pending + 1, BatchCloses) ELSE pending

(* pgfs_checkpoint_commit_pending is called by the close that fills the    *)
(* count, and by umount.                                                   *)
Due == /\ pc = "finish" /\ ~job.saved
       /\ job.op \in {"close", "umount"}
       /\ Counted >= (IF job.op = "close" THEN BatchCloses ELSE 1)

StoreCheckpoint ==
    /\ Due
    /\ cpTail' = Stored(writeAddr)
    /\ covered' = NewTable
    /\ table' = NewTable /\ pending' = 0
    /\ job' = [job EXCEPT !.saved = TRUE]
    /\ pc' = "eraseHead"
    /\ UNCHANGED <<log, ftl, up, writeAddr, prepared, nextId, bounds, acked,
                   batches, spoilt>>

(* The close, or the umount, returns an error; the checkpoint in flash is  *)
(* the old one or the new one.                                             *)
StoreFails ==
    /\ Due /\ fails < MaxFails
    /\ cpTail' \in {cpTail, Stored(writeAddr)}
    /\ table' = NewTable /\ pending' = Counted
    /\ job' = NoJob /\ pc' = "idle"
    /\ fails' = fails + 1
    /\ UNCHANGED <<log, ftl, up, writeAddr, prepared, nextId,
                   ops, begun, cuts, history>>

(* fclose and fflush return success when the head or a checkpoint is       *)
(* stored.                                                                 *)
(* mutant: fclose does not look at what became of the head *)
Acks_Always == job.op \in {"close", "flush"}
Acks == job.op \in {"close", "flush"} /\ (job.headStored \/ job.saved)

Finish ==
    /\ pc = "finish" /\ ~Due
    /\ \/ job.op = "umount" /\ Off
       \/ /\ job.op # "umount"
          /\ job' = NoJob /\ pc' = "idle"
          /\ table' = NewTable /\ pending' = Counted
          /\ UNCHANGED <<up, writeAddr, prepared, nextId>>
    /\ acked' = [f \in File |->
            IF Acks /\ f \in job.files THEN ops ELSE acked[f]]
    /\ UNCHANGED <<flash, bounds, covered, batches, spoilt>>

(* The power is cut, in the middle of an append too.                       *)
PowerCut ==
    /\ up /\ cuts < MaxCuts
    /\ cuts' = cuts + 1
    /\ Off
    /\ log' \in IF pc = "append" THEN CutShort(Place.log, NextRecord, Place.addr)
                ELSE {log}
    /\ UNCHANGED <<cpTail, ftl, ops, begun, fails, history>>

-----------------------------------------------------------------------------
Start ==
    \/ \E op \in {"close", "flush"}, f \in File, len \in 1 .. 2 :
        Write(op, f, len)
    \/ \E f, g \in File, len \in 1 .. 2 : CommitBatch(f, g, len)
    \/ Umount

Step == AppendRecord \/ RetryRecord \/ EraseHead \/ WriteHead \/ HeadFails
            \/ StoreCheckpoint \/ StoreFails \/ Finish

Next == Mount \/ Start \/ Step \/ PowerCut

Spec == Init /\ [][Next]_vars

-----------------------------------------------------------------------------
(* Correctness.                                                            *)

(* The type invariant.                                                     *)
TypeOK ==
    /\ log \in [Addr -> Part \union {Blank, Torn}]
    /\ cpTail \in 0 .. LogEnd /\ ftl \in 0 .. LogEnd
    /\ writeAddr \in 0 .. LogEnd /\ prepared \in 0 .. LogEnd
    /\ pending \in 0 .. BatchCloses
    /\ table \in [File -> 0 .. MaxOps]
    /\ up \in BOOLEAN
    /\ pc \in {"idle", "append", "eraseHead", "writeHead", "finish"}

(* What was in the file table when a checkpoint was stored is never lost,  *)
(* whatever fails or is cut short later: a mount at any moment finds that  *)
(* or something newer.  (pgfs_core.c:1866-1961, pgfs_vfs_adapter.c:281-325)*)
CheckpointedSurvives ==
    ~spoilt => LET found == Recovered IN \A f \in File : found[f] >= covered[f]

(* So is what an fclose or an fflush acknowledged, except between the      *)
(* erasure of the head and its next write: a cut there loses what was      *)
(* acknowledged since the last checkpoint.                                 *)
(* (DESIGN.md:18-19 of pgfs; pgfs_core.c:2402-2441, 2648-2706)             *)
AckedSurvives ==
    ~spoilt /\ ftl # 0 =>
        LET found == Recovered IN \A f \in File : found[f] >= acked[f]

(* A batch is all or nothing: a mount that finds one of its files finds    *)
(* the others, or newer ones, with the same exception: without a head the  *)
(* first mounts replay the whole log, the rest of a lost batch with it.    *)
(* (pgfs_core.c:526-545, 876-900, 1671-1740)                               *)
BatchIsAtomic ==
    ~spoilt /\ ftl # 0 =>
        LET found == Recovered IN \A b \in batches : AllOrNothing(b, found)

(* No step erases or overwrites a record that a mount would replay: what   *)
(* is prepared for an append lies behind the bound.                        *)
(* (pgfs_core.c:1179-1303)                                                 *)
DurableIsUntouched ==
    [][~spoilt => \A a \in 0 .. Bound(cpTail, ftl) - 1 :
            Whole(log, a) => log'[a] = log[a]]_vars
=============================================================================
