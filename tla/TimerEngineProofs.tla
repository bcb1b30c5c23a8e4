------------------------- MODULE TimerEngineProofs -------------------------
(***************************************************************************)
(* The two tables of the PC port agree, and the engine never starts a slot *)
(* that is freed, for any size of the tables and any number of timers.     *)
(*                                                                         *)
(* A timer is in the tables or not according to the point the Lua thread   *)
(* has reached with it (AtHand), and only one thread holds timer_lock      *)
(* (OneHolder): the engine finds an entry and starts its slot under that   *)
(* lock, so that no deletion comes in between.                             *)
(***************************************************************************)
EXTENDS TimerEngine, WellFoundedInduction, TLAPS

InTables(b) == \E i \in Index : timers[i] # None /\ timers[i].timer = b

AtHand ==
    /\ lpc # "idle" => timer \in live
    /\ lpc \in {"arm", "check", "count", "stop", "delete"} => InTables(timer)
    /\ lpc \in {"start", "create", "free"} => ~InTables(timer)
    /\ lpc = "create" => FreeIndex # {}

OneHolder == ~(EngineHoldsTimers /\ LuaHoldsTimers)

IInv == TypeOK /\ TablesAgree /\ RearmsLive /\ AtHand /\ OneHolder

-----------------------------------------------------------------------------
(* The first element of a table's indices exists when any does.            *)
LEMMA LeastIsIn ==
    ASSUME NEW S, S \subseteq Nat, S # {}
    PROVE  Least(S) \in S
<1>1. PICK k \in S : \A j \in S : ~(<<j, k>> \in OpToRel(<, Nat))
    BY NatLessThanWellFounded, WFMin
<1>2. \A j \in S : ~(j < k)
    <2> SUFFICES ASSUME NEW j \in S, j < k PROVE FALSE
        OBVIOUS
    <2>1. <<j, k>> \in Nat \X Nat /\ <<j, k>>[1] < <<j, k>>[2]
        OBVIOUS
    <2>2. <<j, k>> \in OpToRel(<, Nat)
        BY <2>1, Zenon DEF OpToRel
    <2> QED BY <1>1, <2>2
<1>3. \A j \in S : k <= j
    BY <1>2
<1> QED BY <1>3 DEF Least

(* The entry of a timer that is in the tables.                             *)
LEMMA EntryIsIn ==
    ASSUME InTables(timer)
    PROVE  Entry \in Index /\ timers[Entry] # None /\ timers[Entry].timer = timer
BY DEF Entry, InTables

(* Initially the tables are empty.                                         *)
LEMMA InitInv == ASSUME Init PROVE IInv
<1> USE EngineAssumption DEF Init
<1>1. TypeOK
    BY DEF TypeOK, Index, Slot
<1>2. TablesAgree /\ RearmsLive /\ AtHand /\ OneHolder
    BY DEF TablesAgree, RearmsLive, AtHand, OneHolder, EngineHoldsTimers, LuaHoldsTimers
<1> QED BY <1>1, <1>2 DEF IInv

-----------------------------------------------------------------------------
(* A step that starts, stops or expires slots: what lies in the table, and *)
(* which slots are free, stays.                                            *)
SlotsKept ==
    /\ slots' \in [Slot -> [timer : Block, state : {"stopped", "armed", "due"}]
                              \union {None}]
    /\ \A j \in Slot :
        /\ slots'[j] = None <=> slots[j] = None
        /\ slots[j] # None => slots'[j].timer = slots[j].timer

LEMMA BecomeKeeps ==
    ASSUME TypeOK, NEW k \in Slot, slots[k] # None,
           NEW s \in {"stopped", "armed", "due"}, Become(k, s)
    PROVE  SlotsKept
<1>1. slots[k].timer \in Block
    BY DEF TypeOK
<1>2. [timer |-> slots[k].timer, state |-> s] # None
    BY <1>1, EngineAssumption
<1> QED BY <1>1, <1>2 DEF TypeOK, Become, SlotsKept

(* No step of the engine allocates, frees, creates or deletes: the tables  *)
(* agree after it, when a slot it is about to start is one of the table.   *)
LEMMA EngineKeeps ==
    ASSUME IInv, SlotsKept, UNCHANGED <<live, timers, lua>>,
           epc' = "rearm" => handle' \in Slot /\ slots[handle'] # None
    PROVE  TablesAgree' /\ RearmsLive' /\ AtHand'
<1> USE DEF lua
<1>1. TablesAgree'
    BY DEF IInv, TablesAgree, SlotsKept, TypeOK
<1>2. RearmsLive'
    BY DEF RearmsLive, SlotsKept
<1>3. AtHand'
    BY DEF IInv, AtHand, InTables, FreeIndex
<1> QED BY <1>1, <1>2, <1>3

(* Counting a timer down keeps the heap in its type.                       *)
LEMMA CountedHeap ==
    ASSUME TypeOK, NEW b \in Block
    PROVE  [heap EXCEPT ![b].repeat = @ - 1]
                \in [Block -> [id : Id, repeat : Int, asked : Int]]
<1> DEFINE t == [heap[b] EXCEPT !.repeat = @ - 1]
<1>0. heap[b] \in [id : Id, repeat : Int, asked : Int]
    BY DEF TypeOK
<1>1. t = [id |-> heap[b].id, repeat |-> heap[b].repeat - 1, asked |-> heap[b].asked]
    BY <1>0
<1>2. [heap EXCEPT ![b].repeat = @ - 1] = [heap EXCEPT ![b] = t]
    BY DEF TypeOK
<1>3. t \in [id : Id, repeat : Int, asked : Int]
    BY <1>0, <1>1
<1> HIDE DEF t
<1> QED BY <1>2, <1>3 DEF TypeOK

-----------------------------------------------------------------------------
(* The steps of the engine, and the deadlines, keep the invariant.         *)
LEMMA EngineInv ==
    ASSUME IInv, EngineStep \/ \E k \in Slot : Expire(k)
    PROVE  IInv'
<1> USE EngineAssumption
<1>0. Slot \subseteq Nat /\ Index \subseteq Nat /\ (slots' = slots /\ TypeOK => SlotsKept)
    BY DEF Slot, Index, SlotsKept, TypeOK
<1>1. ASSUME NEW k \in Slot, Expire(k)
      PROVE  IInv'
    <2>1. slots[k] # None /\ SlotsKept
        BY <1>1, BecomeKeeps DEF Expire, Armed, IInv
    <2>2. TablesAgree' /\ RearmsLive' /\ AtHand'
        BY <1>1, <2>1, EngineKeeps DEF Expire, IInv, RearmsLive, memory, engine, lua
    <2>3. TypeOK' /\ OneHolder'
        BY <1>1, <2>1 DEF Expire, IInv, TypeOK, SlotsKept, OneHolder, EngineHoldsTimers,
           LuaHoldsTimers, memory, engine, lua
    <2> QED BY <2>2, <2>3 DEF IInv
<1>2. CASE Fire
    <2> DEFINE Ahead == {k \in Due : k >= at}
    <2>1. Least(Ahead) \in Ahead
        BY <1>0, <1>2, LeastIsIn DEF Fire, Due
    <2>2. PICK k \in Slot : k = Least(Ahead) /\ slots[k] # None
        BY <2>1 DEF Due
    <2>3. SlotsKept
        BY <1>2, <2>2, BecomeKeeps DEF Fire, IInv
    <2>4. TablesAgree' /\ RearmsLive' /\ AtHand'
        BY <1>2, <2>3, EngineKeeps DEF Fire, memory
    <2>5. param' \in Block /\ at' \in 1 .. SlotMax + 1
        BY <1>2, <2>2 DEF Fire, IInv, TypeOK, Slot
    <2>6. TypeOK' /\ OneHolder'
        BY <1>2, <2>3, <2>5 DEF Fire, IInv, TypeOK, SlotsKept, OneHolder,
           EngineHoldsTimers, LuaHoldsTimers, memory, lua
    <2> QED BY <2>4, <2>6 DEF IInv
<1>3. CASE EndPass \/ Wake
    <2>1. SlotsKept
        BY <1>0, <1>3 DEF EndPass, Wake, IInv
    <2>2. TablesAgree' /\ RearmsLive' /\ AtHand'
        BY <1>3, <2>1, EngineKeeps DEF EndPass, Wake, memory
    <2>3. TypeOK' /\ OneHolder'
        BY <1>3 DEF EndPass, Wake, IInv, TypeOK, OneHolder,
           EngineHoldsTimers, LuaHoldsTimers, memory, lua
    <2> QED BY <2>2, <2>3 DEF IInv
<1>4. CASE Callback
    <2>1. SlotsKept
        BY <1>0, <1>4 DEF Callback, IInv
    <2>2. PICK t \in Seen(param) :
            \/ epc' = "scan" /\ UNCHANGED <<heap, handle>>
            \/ /\ Entries(t.id) # {} /\ handle' = timers[Least(Entries(t.id))].handle
               /\ heap' = IF t.repeat > 0 /\ param \in live
                          THEN [heap EXCEPT ![param].repeat = @ - 1] ELSE heap
               /\ epc' = "rearm"
            \/ epc' = "put" /\ UNCHANGED <<heap, handle>>
        BY <1>4 DEF Callback
    <2>3. epc' = "rearm" => handle' \in Slot /\ slots[handle'] # None
        <3> SUFFICES ASSUME epc' = "rearm"
                     PROVE  handle' \in Slot /\ slots[handle'] # None
            OBVIOUS
        <3>1. Least(Entries(t.id)) \in Entries(t.id)
            BY <1>0, <2>2, LeastIsIn DEF Entries
        <3>2. PICK i \in Index : i = Least(Entries(t.id)) /\ timers[i] # None
            BY <3>1 DEF Entries
        <3> QED BY <2>2, <3>2 DEF IInv, TablesAgree, TypeOK
    <2>4. TablesAgree' /\ RearmsLive' /\ AtHand'
        BY <1>4, <2>1, <2>3, EngineKeeps DEF Callback
    <2>5. heap' \in [Block -> [id : Id, repeat : Int, asked : Int]]
        <3>1. param \in live => param \in Block
            BY DEF IInv, TypeOK
        <3>2. CASE t.repeat > 0 /\ param \in live /\ epc' = "rearm"
            BY <2>2, <3>1, <3>2, CountedHeap DEF IInv
        <3>3. CASE ~(t.repeat > 0 /\ param \in live /\ epc' = "rearm")
            BY <2>2, <3>3 DEF IInv, TypeOK
        <3> QED BY <3>2, <3>3
    <2>6. handle' \in Slot \union {None}
        BY <2>2, <2>3 DEF IInv, TypeOK
    <2>7. TypeOK'
        BY <1>4, <2>2, <2>5, <2>6 DEF Callback, IInv, TypeOK, lua
    <2>8. OneHolder'
        BY <1>4 DEF Callback, OneHolder, LuaHoldsTimers, lua
    <2> QED BY <2>4, <2>7, <2>8 DEF IInv
<1>5. CASE Rearm
    <2>1. SlotsKept
        BY <1>5, BecomeKeeps DEF Rearm, IInv, RearmsLive
    <2>2. TablesAgree' /\ RearmsLive' /\ AtHand'
        BY <1>5, <2>1, EngineKeeps DEF Rearm, memory
    <2>3. TypeOK' /\ OneHolder'
        BY <1>5, <2>1 DEF Rearm, IInv, TypeOK, SlotsKept, OneHolder,
           EngineHoldsTimers, LuaHoldsTimers, memory, lua
    <2> QED BY <2>2, <2>3 DEF IInv
<1>6. CASE PutMessage
    <2>1. SlotsKept
        BY <1>0, <1>6 DEF PutMessage, IInv
    <2>2. TablesAgree' /\ RearmsLive' /\ AtHand'
        BY <1>6, <2>1, EngineKeeps DEF PutMessage, memory
    <2>3. PICK t \in Seen(param) : queue' = Append(queue, t.id)
        BY <1>6 DEF PutMessage
    <2>4. t.id \in Id
        BY <2>3 DEF Seen, IInv, TypeOK
    <2>5. queue' \in Seq(Id) /\ Len(queue') <= QueueMax
        BY <1>6, <2>3, <2>4 DEF PutMessage, IInv, TypeOK
    <2>6. TypeOK' /\ OneHolder'
        BY <1>6, <2>5 DEF PutMessage, IInv, TypeOK, OneHolder,
           EngineHoldsTimers, LuaHoldsTimers, memory, lua
    <2> QED BY <2>2, <2>6 DEF IInv
<1> QED BY <1>1, <1>2, <1>3, <1>4, <1>5, <1>6 DEF EngineStep

-----------------------------------------------------------------------------
(* The steps of the Lua thread keep the invariant.                         *)
LEMMA StartInv ==
    ASSUME IInv, NEW id \in Id, NEW r \in Repeats, NEW b \in Block, Start(id, r, b)
    PROVE  IInv'
<1> USE EngineAssumption DEF IInv, Start
<1>1. heap' \in [Block -> [id : Id, repeat : Int, asked : Int]]
    BY DEF TypeOK
<1>2. TypeOK'
    BY <1>1 DEF TypeOK, engine
<1>3. ~InTables(b)
    BY DEF TablesAgree, InTables
<1>4. TablesAgree' /\ RearmsLive'
    BY DEF TablesAgree, RearmsLive, engine
<1>5. AtHand' /\ OneHolder'
    BY <1>3 DEF AtHand, InTables, OneHolder, LuaHoldsTimers
<1> QED BY <1>2, <1>4, <1>5

LEMMA CreateInv ==
    ASSUME IInv, Create
    PROVE  IInv'
<1> USE EngineAssumption DEF IInv, Create
<1>1. CASE lpc' = "free" /\ UNCHANGED <<slots, timers>>
    <2>1. TypeOK' /\ TablesAgree' /\ RearmsLive'
        BY <1>1 DEF TypeOK, TablesAgree, RearmsLive, memory, engine
    <2>2. AtHand' /\ OneHolder'
        BY <1>1 DEF AtHand, InTables, OneHolder, LuaHoldsTimers, memory, engine
    <2> QED BY <2>1, <2>2
<1>2. CASE /\ FreeSlot # {}
           /\ slots' = [slots EXCEPT ![Least(FreeSlot)] =
                [timer |-> timer, state |-> "stopped"]]
           /\ timers' = [timers EXCEPT ![Least(FreeIndex)] =
                [timer |-> timer, handle |-> Least(FreeSlot)]]
           /\ lpc' = "arm"
    <2>1. Least(FreeSlot) \in FreeSlot /\ Least(FreeIndex) \in FreeIndex
        BY <1>2, LeastIsIn DEF AtHand, FreeSlot, FreeIndex, Slot, Index
    <2>2. PICK k \in Slot : k = Least(FreeSlot) /\ slots[k] = None
        BY <2>1 DEF FreeSlot
    <2>3. PICK i \in Index : i = Least(FreeIndex) /\ timers[i] = None
        BY <2>1 DEF FreeIndex
    <2>4. timer \in Block /\ timer \in live /\ ~InTables(timer)
        BY DEF AtHand, TypeOK
    <2>5. slots' = [slots EXCEPT ![k] = [timer |-> timer, state |-> "stopped"]]
        BY <1>2, <2>2
    <2>6. timers' = [timers EXCEPT ![i] = [timer |-> timer, handle |-> k]]
        BY <1>2, <2>2, <2>3
    <2>7. TypeOK'
        <3>1. slots' \in [Slot -> [timer : Block, state : {"stopped", "armed", "due"}]
                                      \union {None}]
            BY <2>4, <2>5 DEF TypeOK
        <3>2. timers' \in [Index -> [timer : Block, handle : Slot] \union {None}]
            BY <2>4, <2>6 DEF TypeOK
        <3> QED BY <1>2, <3>1, <3>2 DEF TypeOK, memory, engine
    <2>8. TablesAgree'
        BY <2>2, <2>3, <2>4, <2>5, <2>6 DEF TablesAgree, TypeOK, InTables, memory
    <2>9. RearmsLive' /\ OneHolder'
        BY <1>2, <2>4, <2>5 DEF RearmsLive, TypeOK, OneHolder, LuaHoldsTimers,
           EngineHoldsTimers, engine
    <2>10. AtHand'
        BY <1>2, <2>3, <2>4, <2>6 DEF AtHand, TypeOK, InTables, memory
    <2> QED BY <2>7, <2>8, <2>9, <2>10
<1> QED BY <1>1, <1>2

LEMMA ArmInv ==
    ASSUME IInv, Arm
    PROVE  IInv'
<1> USE EngineAssumption DEF IInv, Arm
<1>1. InTables(timer)
    BY DEF AtHand
<1>2. PICK k \in Slot : k = timers[Entry].handle /\ slots[k] # None
    BY <1>1, EntryIsIn DEF TablesAgree, TypeOK
<1>3. SlotsKept
    BY <1>2, BecomeKeeps
<1>4. TypeOK'
    BY <1>3 DEF TypeOK, SlotsKept, memory
<1>5. TablesAgree' /\ RearmsLive'
    BY <1>3 DEF TablesAgree, RearmsLive, SlotsKept, TypeOK, memory
<1>6. AtHand' /\ OneHolder'
    BY DEF AtHand, OneHolder, LuaHoldsTimers
<1> QED BY <1>4, <1>5, <1>6

LEMMA DeleteInv ==
    ASSUME IInv, Delete
    PROVE  IInv'
<1> USE EngineAssumption DEF IInv, Delete
<1>1. InTables(timer) /\ timer \in live
    BY DEF AtHand
<1>2. PICK i \in Index : i = Entry /\ timers[i] # None /\ timers[i].timer = timer
    BY <1>1, EntryIsIn
<1>3. PICK k \in Slot : k = timers[i].handle /\ slots[k] # None /\ slots[k].timer = timer
    BY <1>2 DEF TablesAgree, TypeOK
<1>4. slots' = [slots EXCEPT ![k] = None] /\ timers' = [timers EXCEPT ![i] = None]
    BY <1>2, <1>3
<1>5. TypeOK'
    BY <1>4 DEF TypeOK, memory, engine
<1>6. TablesAgree'
    BY <1>2, <1>3, <1>4 DEF TablesAgree, TypeOK, memory
<1>7. RearmsLive' /\ OneHolder'
    BY DEF RearmsLive, OneHolder, LuaHoldsTimers, EngineHoldsTimers, engine
<1>8. AtHand'
    BY <1>1, <1>2, <1>4 DEF AtHand, TablesAgree, TypeOK, InTables, memory
<1> QED BY <1>5, <1>6, <1>7, <1>8

(* The other steps of the Lua thread leave both tables alone.              *)
LEMMA LuaInv ==
    ASSUME IInv, LuaStep \/ \E id \in Id : Stop(id)
    PROVE  IInv'
<1> USE EngineAssumption DEF IInv
<1>0. \A id : Entries(id) # {} => Least(Entries(id)) \in Entries(id)
    <2>1. Index \subseteq Nat
        BY DEF Index
    <2>2. \A id : Entries(id) \subseteq Index
        BY DEF Entries
    <2> QED BY <2>1, <2>2, LeastIsIn
<1>1. CASE StartLock \/ StopLock \/ Check
    <2> USE <1>1 DEF StartLock, StopLock, Check
    <2>1. TypeOK' /\ TablesAgree' /\ RearmsLive'
        BY DEF TypeOK, TablesAgree, RearmsLive, memory, engine
    <2>2. AtHand' /\ OneHolder'
        BY DEF AtHand, InTables, FreeIndex, OneHolder, LuaHoldsTimers,
           EngineHoldsTimers, memory, engine
    <2> QED BY <2>1, <2>2
<1>2. ASSUME NEW id \in Id, Stop(id)
      PROVE  IInv'
    <2> USE <1>2 DEF Stop
    <2>1. Least(Entries(id)) \in Entries(id)
        BY <1>0
    <2>2. timer' \in Block /\ timer' \in live /\ InTables(timer')
        BY <2>1 DEF Entries, TablesAgree, TypeOK, InTables
    <2>3. TypeOK' /\ TablesAgree' /\ RearmsLive'
        BY <2>2 DEF TypeOK, TablesAgree, RearmsLive, memory, engine
    <2>4. AtHand' /\ OneHolder'
        BY <2>2 DEF AtHand, InTables, OneHolder, LuaHoldsTimers, memory
    <2> QED BY <2>3, <2>4
<1>3. CASE Handle
    <2> USE <1>3 DEF Handle
    <2>1. queue' \in Seq(Id) /\ Len(queue') <= QueueMax
        BY DEF TypeOK
    <2>2. CASE Entries(Head(queue)) # {}
        <3>1. Least(Entries(Head(queue))) \in Entries(Head(queue))
            BY <1>0, <2>2
        <3>2. lpc' = "check" /\ timer' = timers[Least(Entries(Head(queue)))].timer
            BY <2>2
        <3>3. timer' \in Block /\ timer' \in live /\ InTables(timer')
            BY <3>1, <3>2 DEF Entries, TablesAgree, TypeOK, InTables
        <3>4. TypeOK' /\ TablesAgree' /\ RearmsLive'
            BY <2>1, <3>2, <3>3 DEF TypeOK, TablesAgree, RearmsLive, memory, engine
        <3>5. AtHand' /\ OneHolder'
            BY <3>2, <3>3 DEF AtHand, InTables, OneHolder, LuaHoldsTimers, memory
        <3> QED BY <3>4, <3>5
    <2>3. CASE UNCHANGED <<timer, lpc>>
        <3>1. TypeOK' /\ TablesAgree' /\ RearmsLive'
            BY <2>1, <2>3 DEF TypeOK, TablesAgree, RearmsLive, memory, engine
        <3>2. AtHand' /\ OneHolder'
            BY <2>3 DEF AtHand, InTables, FreeIndex, OneHolder, LuaHoldsTimers,
               EngineHoldsTimers, memory, engine
        <3> QED BY <3>1, <3>2
    <2> QED BY <2>2, <2>3
<1>4. CASE CountDown
    <2> USE <1>4 DEF CountDown
    <2>1. timer \in Block
        BY DEF AtHand, TypeOK
    <2>2. TypeOK'
        BY <2>1, CountedHeap DEF TypeOK, engine
    <2>3. TablesAgree' /\ RearmsLive' /\ AtHand' /\ OneHolder'
        BY DEF TablesAgree, RearmsLive, AtHand, OneHolder, LuaHoldsTimers, engine
    <2> QED BY <2>2, <2>3
<1>5. CASE Free
    <2> USE <1>5 DEF Free
    <2>1. TypeOK' /\ RearmsLive'
        BY DEF TypeOK, RearmsLive, engine
    <2>2. ~InTables(timer)
        BY DEF AtHand
    <2>3. TablesAgree'
        BY <2>2 DEF TablesAgree, InTables
    <2>4. AtHand' /\ OneHolder'
        BY DEF AtHand, OneHolder, LuaHoldsTimers
    <2> QED BY <2>1, <2>3, <2>4
<1> QED BY <1>1, <1>2, <1>3, <1>4, <1>5, CreateInv, ArmInv, DeleteInv DEF LuaStep

-----------------------------------------------------------------------------
(* The invariant is inductive.                                             *)
LEMMA InvInductive == Spec => []IInv
<1>1. Init => IInv
    BY InitInv
<1>2. IInv /\ [Next]_vars => IInv'
    <2> SUFFICES ASSUME IInv, [Next]_vars PROVE IInv'
        OBVIOUS
    <2>1. CASE UNCHANGED vars
        BY <2>1 DEF IInv, TypeOK, TablesAgree, RearmsLive, AtHand, OneHolder, InTables,
           FreeIndex, EngineHoldsTimers, LuaHoldsTimers, vars, memory, engine, lua
    <2>2. CASE Next
        BY <2>2, EngineInv, LuaInv, StartInv DEF Next
    <2> QED BY <2>1, <2>2
<1> QED BY <1>1, <1>2, PTL DEF Spec

(* The type invariant holds in every reachable state, for tables of every  *)
(* size and any set of timers.                                             *)
THEOREM TypeCorrect == Spec => []TypeOK
<1>1. IInv => TypeOK
    BY DEF IInv
<1> QED BY <1>1, InvInductive, PTL

(* The table of the engine and the table of the port name the same timers, *)
(* all allocated, whichever thread stands where: a start that fails, a     *)
(* timer stopped while its callback is on its way and a block that is used *)
(* again leave no entry behind and lose none.                              *)
(* (luat_timer_pc.c:72-114, luat_timer_engine.c:154-235)                   *)
THEOREM TablesAlwaysAgree == Spec => []TablesAgree
<1>1. IInv => TablesAgree
    BY DEF IInv
<1> QED BY <1>1, InvInductive, PTL

(* The engine starts only slots that are in its table, though it holds no  *)
(* lock between the moment a timer is due and its callback.                *)
(* (luat_timer_engine.c:104-109, luat_timer_pc.c:45-62)                    *)
THEOREM RearmsAlwaysLive == Spec => []RearmsLive
<1>1. IInv => RearmsLive
    BY DEF IInv
<1> QED BY <1>1, InvInductive, PTL
=============================================================================
