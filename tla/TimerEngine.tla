---------------------------- MODULE TimerEngine ----------------------------
(***************************************************************************)
(* The timers of the PC port: the engine thread of luat_timer_engine.c,    *)
(* which waits for the next deadline and calls timer_cb of luat_timer_pc.c *)
(* without its lock, and the Lua thread, which starts, stops and handles   *)
(* timers (luat_lib_rtos.c).  Both threads take timer_lock before g_lock.  *)
(* A lock is held in the program points that say so; a critical section of *)
(* g_lock in the Lua thread is one step, since nothing blocks in it.       *)
(*                                                                         *)
(* A luat_timer_t lies in a block of the heap; the engine keeps its        *)
(* address in a local variable while it holds no lock, and may read the    *)
(* block when it is free, and then reads anything, or when another timer   *)
(* lies there.  A function pointer read from a free block, which may crash *)
(* the program, is left out.  Time is abstract: an armed slot becomes due  *)
(* some day.  A start with a timeout of a multiple of 2^32 ms, which       *)
(* fails, is left out.                                                     *)
(***************************************************************************)
EXTENDS Integers, Sequences

CONSTANTS
    Id,         \* timer ids; sys.lua never starts one that is running
    Block,      \* blocks of the heap
    TableSize,  \* TIMER_ID_MAX, the table of luat_timer_pc.c
    SlotMax,    \* TIMER_SLOT_MAX, the table of the engine
    Repeats,    \* the counts that timers are started with, -1 for endless
    MaxStarts,  \* bound: how many timers are started
    QueueMax,   \* bound: messages on the bus, an unbounded list in the code
    None

Index == 1 .. TableSize
Slot == 1 .. SlotMax

ASSUME EngineAssumption ==
    /\ TableSize \in Nat /\ SlotMax \in Nat /\ QueueMax \in Nat
    /\ Id # {} /\ Repeats \subseteq Int
    /\ None \notin Block \union Id
    /\ \A h \in Slot, b \in Block, d \in {"stopped", "armed", "due"} :
        /\ None # [timer |-> b, handle |-> h]
        /\ None # [timer |-> b, state |-> d]

VARIABLES
    heap,       \* the timer in each block; asked: the history of the
                \* count it was started with
    live,       \* the blocks that are allocated
    slots,      \* g_slots; state: inactive, active, or active and due
    timers,     \* timers
    queue,      \* the timer messages on the bus
    epc, at, param, handle,  \* engine: program point, scan index, cb's
                             \* parameter, the slot that timer_cb found
    lpc, timer, \* Lua: program point, the timer at hand
    starts      \* how many timers were started

memory == <<heap, live>>
engine == <<epc, at, param, handle>>
lua == <<lpc, timer, starts>>
vars == <<memory, slots, timers, queue, engine, lua>>

Init ==
    /\ heap \in [Block -> [id : {CHOOSE i \in Id : TRUE}, repeat : {0}, asked : {0}]]
    /\ live = {}
    /\ slots = [k \in Slot |-> None]
    /\ timers = [i \in Index |-> None]
    /\ queue = << >>
    /\ epc = "scan" /\ at = 1 /\ param = None /\ handle = None
    /\ lpc = "idle" /\ timer = None /\ starts = 0

(* mutant: the lock is not released around the callback *)
EngineHoldsG_InCallback == epc \in {"scan", "cb", "rearm", "put"}
EngineHoldsG == epc = "scan"
EngineHoldsTimers == epc = "rearm"
LuaHoldsTimers == lpc \in {"create", "arm", "delete"}

Least(S) == CHOOSE k \in S : \A j \in S : k <= j

(* get_slot_by_timer_id: the entries of a timer id.                        *)
Entries(id) == {i \in Index : timers[i] # None /\ heap[timers[i].timer].id = id}

Due == {k \in Slot : slots[k] # None /\ slots[k].state = "due"}
Armed == {k \in Slot : slots[k] # None /\ slots[k].state = "armed"}

(* What a thread without a lock may read from a block.                     *)
Seen(b) == IF b \in live THEN {heap[b]}
           ELSE [id : Id, repeat : Repeats, asked : {0}]

Become(k, s) ==
    slots' = [slots EXCEPT ![k] = [timer |-> slots[k].timer, state |-> s]]

-----------------------------------------------------------------------------
(* The engine thread (engine_thread, luat_timer_engine.c:57-115).          *)

Expire(k) ==
    /\ k \in Armed
    /\ Become(k, "due")
    /\ UNCHANGED <<memory, timers, queue, engine, lua>>

(* The next due slot of this pass; the port starts its timers as one-shots *)
Fire ==
    LET Ahead == {k \in Due : k >= at} IN
    /\ epc = "scan" /\ Ahead # {}
    /\ param' = slots[Least(Ahead)].timer
    /\ Become(Least(Ahead), "stopped")
    /\ at' = Least(Ahead) + 1
    /\ epc' = "cb"
    /\ UNCHANGED <<memory, timers, queue, handle, lua>>

(* The pass is over: another one, or a wait, with a deadline or without.   *)
EndPass ==
    /\ epc = "scan" /\ \A k \in Due : k < at
    /\ at' = 1
    /\ \/ Due # {} /\ epc' = "scan"
       \/ Due = {} /\ Armed # {} /\ epc' = "sleep"
       \/ Due = {} /\ Armed = {} /\ epc' = "wait"
    /\ param' = None /\ handle' = None
    /\ UNCHANGED <<memory, slots, timers, queue, lua>>

(* The deadline, a signal or nothing at all ends the wait.                 *)
Wake ==
    /\ epc \in {"sleep", "woken"}
    /\ epc' = "scan"
    /\ UNCHANGED <<memory, slots, timers, queue, at, param, handle, lua>>

(* timer_cb looks the timer up, counts, and starts its slot again.         *)
Callback ==
    /\ epc = "cb" /\ ~LuaHoldsTimers
    /\ \E t \in Seen(param) :
       \/ /\ Entries(t.id) = {}
          /\ epc' = "scan"
          /\ UNCHANGED <<heap, handle>>
       \/ /\ Entries(t.id) # {} /\ (t.repeat > 0 \/ t.repeat = -1)
          /\ handle' = timers[Least(Entries(t.id))].handle
          /\ heap' = IF t.repeat > 0 /\ param \in live
                     THEN [heap EXCEPT ![param].repeat = @ - 1] ELSE heap
          /\ epc' = "rearm"
       \/ /\ Entries(t.id) # {} /\ (t.repeat = 0 \/ t.repeat < -1)
          /\ epc' = "put"
          /\ UNCHANGED <<heap, handle>>
    /\ UNCHANGED <<live, slots, timers, queue, at, param, lua>>

Rearm ==
    /\ epc = "rearm"
    /\ Become(handle, "armed")
    /\ epc' = "put"
    /\ UNCHANGED <<memory, timers, queue, at, param, handle, lua>>

(* The message is filled in after timer_lock is released.                  *)
PutMessage ==
    /\ epc = "put" /\ Len(queue) < QueueMax
    /\ \E t \in Seen(param) : queue' = Append(queue, t.id)
    /\ epc' = "scan"
    /\ UNCHANGED <<memory, slots, timers, at, param, handle, lua>>

-----------------------------------------------------------------------------
(* The Lua thread: rtos.timer_start.                                       *)
Start(id, r, b) ==
    /\ lpc = "idle" /\ starts < MaxStarts
    /\ Entries(id) = {}
    /\ b \notin live
    /\ live' = live \union {b}
    /\ heap' = [heap EXCEPT ![b] = [id |-> id, repeat |-> r, asked |-> r]]
    /\ timer' = b /\ starts' = starts + 1
    /\ lpc' = "start"
    /\ UNCHANGED <<slots, timers, queue, engine>>

FreeIndex == {i \in Index : timers[i] = None}
FreeSlot == {k \in Slot : slots[k] = None}

(* timer_lock is taken; a full table fails the start and frees the timer.  *)
StartLock ==
    /\ lpc = "start" /\ ~EngineHoldsTimers
    /\ lpc' = IF FreeIndex = {} THEN "free" ELSE "create"
    /\ UNCHANGED <<memory, slots, timers, queue, engine, timer, starts>>

(* The engine has no memory for a slot, or no place; or the slot is made.  *)
Create ==
    /\ lpc = "create" /\ ~EngineHoldsG
    /\ \/ lpc' = "free" /\ UNCHANGED <<slots, timers>>
       \/ /\ FreeSlot # {}
          /\ slots' = [slots EXCEPT ![Least(FreeSlot)] =
                [timer |-> timer, state |-> "stopped"]]
          /\ timers' = [timers EXCEPT ![Least(FreeIndex)] =
                [timer |-> timer, handle |-> Least(FreeSlot)]]
          /\ lpc' = "arm"
    /\ UNCHANGED <<memory, queue, engine, timer, starts>>

Entry == CHOOSE i \in Index : timers[i] # None /\ timers[i].timer = timer

(* luat_timer_engine_start: the deadline, and the signal.                  *)
(* mutant: without the signal *)
Arm_NoSignal ==
    /\ lpc = "arm" /\ ~EngineHoldsG
    /\ Become(timers[Entry].handle, "armed")
    /\ lpc' = "idle" /\ timer' = None
    /\ UNCHANGED <<memory, timers, queue, engine, starts>>
Arm ==
    /\ lpc = "arm" /\ ~EngineHoldsG
    /\ Become(timers[Entry].handle, "armed")
    /\ epc' = IF epc = "wait" THEN "woken" ELSE epc
    /\ lpc' = "idle" /\ timer' = None
    /\ UNCHANGED <<memory, timers, queue, at, param, handle, starts>>

(* rtos.timer_stop, and l_timer_handler of a message: luat_timer_get.      *)
Stop(id) ==
    /\ lpc = "idle" /\ ~EngineHoldsTimers
    /\ Entries(id) # {}
    /\ timer' = timers[Least(Entries(id))].timer
    /\ lpc' = "stop"
    /\ UNCHANGED <<memory, slots, timers, queue, engine, starts>>

Handle ==
    /\ lpc = "idle" /\ ~EngineHoldsTimers
    /\ queue # << >>
    /\ queue' = Tail(queue)
    /\ \/ /\ Entries(Head(queue)) # {}
          /\ timer' = timers[Least(Entries(Head(queue)))].timer
          /\ lpc' = "check"
       \/ Entries(Head(queue)) = {} /\ UNCHANGED <<timer, lpc>>
    /\ UNCHANGED <<memory, slots, timers, engine, starts>>

(* The count is read, and decremented later, without a lock.               *)
Check ==
    /\ lpc = "check"
    /\ \/ heap[timer].repeat = 0 /\ lpc' = "stop" /\ UNCHANGED timer
       \/ heap[timer].repeat > 0 /\ lpc' = "count" /\ UNCHANGED timer
       \/ heap[timer].repeat < 0 /\ lpc' = "idle" /\ timer' = None
    /\ UNCHANGED <<memory, slots, timers, queue, engine, starts>>

CountDown ==
    /\ lpc = "count"
    /\ heap' = [heap EXCEPT ![timer].repeat = @ - 1]
    /\ lpc' = "idle" /\ timer' = None
    /\ UNCHANGED <<live, slots, timers, queue, engine, starts>>

(* luat_timer_stop and the free that follows it.                           *)
(* mutant: timer_lock is not taken *)
StopLock_None ==
    /\ lpc = "stop"
    /\ lpc' = "delete"
    /\ UNCHANGED <<memory, slots, timers, queue, engine, timer, starts>>
StopLock ==
    /\ lpc = "stop" /\ ~EngineHoldsTimers
    /\ lpc' = "delete"
    /\ UNCHANGED <<memory, slots, timers, queue, engine, timer, starts>>

(* mutant: the entry of the port keeps its handle *)
Delete_KeepsEntry ==
    /\ lpc = "delete" /\ ~EngineHoldsG
    /\ slots' = [slots EXCEPT ![timers[Entry].handle] = None]
    /\ lpc' = "free"
    /\ UNCHANGED <<memory, timers, queue, engine, timer, starts>>
Delete ==
    /\ lpc = "delete" /\ ~EngineHoldsG
    /\ slots' = [slots EXCEPT ![timers[Entry].handle] = None]
    /\ timers' = [timers EXCEPT ![Entry] = None]
    /\ lpc' = "free"
    /\ UNCHANGED <<memory, queue, engine, timer, starts>>

Free ==
    /\ lpc = "free"
    /\ live' = live \ {timer}
    /\ lpc' = "idle" /\ timer' = None
    /\ UNCHANGED <<heap, slots, timers, queue, engine, starts>>

-----------------------------------------------------------------------------
EngineStep == Fire \/ EndPass \/ Wake \/ Callback \/ Rearm \/ PutMessage

LuaStep == StartLock \/ Create \/ Arm \/ Handle \/ Check \/ CountDown
               \/ StopLock \/ Delete \/ Free

Next ==
    \/ EngineStep \/ LuaStep
    \/ \E k \in Slot : Expire(k)
    \/ \E id \in Id : Stop(id) \/ \E r \in Repeats, b \in Block : Start(id, r, b)

Spec == Init /\ [][Next]_vars

(* Both threads run, and get a lock that is free again and again; a        *)
(* deadline comes; the Lua thread returns to its message loop, but nothing *)
(* obliges it to start or to stop a timer.                                 *)
Fairness ==
    /\ SF_vars(EngineStep)
    /\ SF_vars(LuaStep)
    /\ \A k \in Slot : WF_vars(Expire(k))

FairSpec == Spec /\ Fairness

-----------------------------------------------------------------------------
(* Correctness.                                                            *)

(* The type invariant.                                                     *)
TypeOK ==
    /\ heap \in [Block -> [id : Id, repeat : Int, asked : Int]]
    /\ live \subseteq Block
    /\ slots \in [Slot -> [timer : Block, state : {"stopped", "armed", "due"}]
                              \union {None}]
    /\ timers \in [Index -> [timer : Block, handle : Slot] \union {None}]
    /\ queue \in Seq(Id) /\ Len(queue) <= QueueMax
    /\ epc \in {"scan", "wait", "sleep", "woken", "cb", "rearm", "put"}
    /\ at \in 1 .. SlotMax + 1
    /\ param \in Block \union {None} /\ handle \in Slot \union {None}
    /\ lpc \in {"idle", "start", "create", "arm", "check", "count", "stop",
                "delete", "free"}
    /\ timer \in Block \union {None}

(* The two tables name the same timers, each allocated, except for the one *)
(* slot being created or removed: no entry is lost, none is left behind.   *)
(* (luat_timer_pc.c:72-114, luat_timer_engine.c:154-235)                   *)
TablesAgree ==
    /\ \A k \in Slot : slots[k] # None =>
        \E i \in Index : timers[i] = [timer |-> slots[k].timer, handle |-> k]
    /\ \A i \in Index : timers[i] # None =>
        /\ timers[i].timer \in live
        /\ slots[timers[i].handle] # None
        /\ slots[timers[i].handle].timer = timers[i].timer
    /\ \A i, j \in Index : timers[i] # None /\ timers[j] # None /\ i # j =>
        timers[i].timer # timers[j].timer

(* The engine never starts a slot that has been freed, though it holds no  *)
(* lock when a callback begins and the timer may be gone by then.          *)
(* (luat_timer_engine.c:104-109, 189-235, luat_timer_pc.c:45-62)           *)
RearmsLive == epc = "rearm" => handle \in Slot /\ slots[handle] # None

(* A timer started as a one-shot is gone in the end: its message comes and *)
(* it is freed, however the threads interleave, also when the engine reads *)
(* a block that has been freed.  (luat_timer_engine.c:57-115, 154-235,     *)
(* luat_lib_rtos.c:91-118)                                                 *)
OneShotEnds ==
    \A i \in Index :
        (timers[i] # None /\ heap[timers[i].timer].asked = 0)
            ~> (timers[i] = None)
=============================================================================
