----------------------------- MODULE AirlinkRpc -----------------------------
(***************************************************************************)
(* Both kinds of RPC calls: those of RpcYield, which suspend a coroutine,  *)
(* and those that block their thread (luat_airlink_rpc).  They share the   *)
(* table of slots for answers, the airlink task that runs the callback of  *)
(* an answer, and, when a script makes a blocking call, the Lua task,      *)
(* which handles no message meanwhile.                                     *)
(*                                                                         *)
(* A blocking call counts two references: of the thread that waits and of  *)
(* the callback.  Both release theirs without a lock: the count is read,   *)
(* written, and read again.  A call that fails on its way leaves nothing   *)
(* behind and is not a step.  The buffer of the answer is not modelled.    *)
(***************************************************************************)
EXTENDS RpcYield

CONSTANT Blocking   \* the contexts of blocking calls

ASSUME BlockingAssumption == None \notin Blocking

Thread == {"waiter", "callback"}
Point == {"out", "wait", "expired", "late", "check", "signal",
          "read", "write", "test"}

VARIABLES
    point,       \* where the two threads of a call are
    value,       \* the count that a thread has read to decrement it
    count,       \* ctx->refcnt of blocking calls
    sem,         \* ctx->sem has been released
    late,        \* ctx->timed_out
    freed,       \* history: how often the context has been freed
    registered,  \* the blocking calls whose answer has a slot
    byLua        \* the contexts that the Lua task used last

local == <<point, value, count>>
blocking == <<local, sem, late, freed, registered, byLua>>
airlinkVars == <<vars, blocking>>

AirlinkInit ==
    /\ Init
    /\ point = [s \in Blocking |-> [t \in Thread |-> "out"]]
    /\ value = [s \in Blocking |-> [t \in Thread |-> 0]]
    /\ count = [s \in Blocking |-> 0]
    /\ sem = [s \in Blocking |-> FALSE]
    /\ late = [s \in Blocking |-> FALSE]
    /\ freed = [s \in Blocking |-> 1]
    /\ registered = {} /\ byLua = {}

Goto(s, t, p) == point' = [point EXCEPT ![s][t] = p]

LuaIsBlocked == \E s \in byLua : point[s]["waiter"] # "out"
AirlinkIsFree ==
    taken = None /\ checked = None /\ \A s \in Blocking : point[s]["callback"] = "out"

-----------------------------------------------------------------------------
(* The thread that calls.                                                  *)

(* mutant: one slot too many is given out *)
Room_Over == Cardinality(slots) + Cardinality(registered) <= Slots
Room == Cardinality(slots) + Cardinality(registered) < Slots

(* The context, the slot and the request are in place.                     *)
Enter(s) ==
    /\ Room
    /\ freed[s] > 0 /\ \A t \in Thread : point[s][t] = "out"
    /\ Goto(s, "waiter", "wait")
    /\ count' = [count EXCEPT ![s] = 2]
    /\ sem' = [sem EXCEPT ![s] = FALSE]
    /\ late' = [late EXCEPT ![s] = FALSE]
    /\ freed' = [freed EXCEPT ![s] = 0]
    /\ registered' = registered \union {s}
    /\ \/ byLua' = byLua \ {s}
       \/ ~LuaIsBlocked /\ byLua' = byLua \union {s}
    /\ UNCHANGED <<value, vars>>

(* luat_rtos_semaphore_take returns: the answer is there, or time is up.   *)
Answered(s) ==
    /\ point[s]["waiter"] = "wait" /\ sem[s]
    /\ sem' = [sem EXCEPT ![s] = FALSE]
    /\ Goto(s, "waiter", "read")
    /\ UNCHANGED <<value, count, late, freed, registered, byLua, vars>>

(* mutant: the call waits without a limit *)
TimeIsUp_Never(s) == FALSE
TimeIsUp(s) == ~sem[s]

Expired(s) ==
    /\ point[s]["waiter"] = "wait" /\ TimeIsUp(s)
    /\ Goto(s, "waiter", "expired")
    /\ UNCHANGED <<value, count, sem, late, freed, registered, byLua, vars>>

(* The slot is still there: both references are the caller's to release.   *)
(* mutant: the result of luat_airlink_result_unreg is not looked at *)
IsOnlyHolder_Always(s) == TRUE
IsOnlyHolder(s) == s \in registered

Unregister(s) ==
    /\ point[s]["waiter"] = "expired"
    /\ registered' = registered \ {s}
    /\ \/ /\ IsOnlyHolder(s)
          /\ count' = [count EXCEPT ![s] = 0]
          /\ freed' = [freed EXCEPT ![s] = @ + 1]
          /\ Goto(s, "waiter", "out")
       \/ /\ ~IsOnlyHolder(s)
          /\ Goto(s, "waiter", "late")
          /\ UNCHANGED <<count, freed>>
    /\ UNCHANGED <<value, sem, late, byLua, vars>>

SetLate(s) ==
    /\ point[s]["waiter"] = "late"
    /\ late' = [late EXCEPT ![s] = TRUE]
    /\ Goto(s, "waiter", "read")
    /\ UNCHANGED <<value, count, sem, freed, registered, byLua, vars>>

-----------------------------------------------------------------------------
(* The airlink task: the slot is taken, and rpc_sync_exec runs.            *)
TakeBlocking(s) ==
    /\ AirlinkIsFree /\ s \in registered
    /\ registered' = registered \ {s}
    /\ Goto(s, "callback", "check")
    /\ UNCHANGED <<value, count, sem, late, freed, byLua, vars>>

CheckLate(s) ==
    /\ point[s]["callback"] = "check"
    /\ Goto(s, "callback", IF late[s] THEN "read" ELSE "signal")
    /\ UNCHANGED <<value, count, sem, late, freed, registered, byLua, vars>>

Signal(s) ==
    /\ point[s]["callback"] = "signal"
    /\ sem' = [sem EXCEPT ![s] = TRUE]
    /\ Goto(s, "callback", "read")
    /\ UNCHANGED <<value, count, late, freed, registered, byLua, vars>>

-----------------------------------------------------------------------------
(* rpc_sync_ctx_release, by either thread.                                 *)
ReadCount(s, t) ==
    /\ point[s][t] = "read"
    /\ value' = [value EXCEPT ![s][t] = count[s]]
    /\ Goto(s, t, IF count[s] = 0 THEN "out" ELSE "write")
    /\ UNCHANGED <<count, sem, late, freed, registered, byLua, vars>>

WriteCount(s, t) ==
    /\ point[s][t] = "write"
    /\ count' = [count EXCEPT ![s] = value[s][t] - 1]
    /\ Goto(s, t, "test")
    /\ UNCHANGED <<value, sem, late, freed, registered, byLua, vars>>

(* A context that the other thread has freed holds anything.               *)
TestCount(s, t) ==
    /\ point[s][t] = "test"
    /\ \/ /\ count[s] = 0 \/ freed[s] > 0
          /\ freed' = [freed EXCEPT ![s] = @ + 1]
       \/ /\ count[s] # 0 \/ freed[s] > 0
          /\ UNCHANGED freed
    /\ Goto(s, t, "out")
    /\ UNCHANGED <<value, count, sem, late, registered, byLua, vars>>

-----------------------------------------------------------------------------
ReleaseStep(s, t) == ReadCount(s, t) \/ WriteCount(s, t) \/ TestCount(s, t)
Waits(s) == Answered(s) \/ Expired(s) \/ Unregister(s) \/ SetLate(s)
                \/ ReleaseStep(s, "waiter")
Answers(s) == CheckLate(s) \/ Signal(s) \/ ReleaseStep(s, "callback")

(* The steps of the calls that suspend a coroutine: the slots of blocking  *)
(* calls count too, and the Lua task may be in a blocking call.            *)
YieldStart(c) == /\ ~LuaIsBlocked /\ (registered # {} => Room)
                 /\ Start(c) /\ UNCHANGED blocking
YieldTake(c) == AirlinkIsFree /\ TakeAnswer(c) /\ UNCHANGED blocking
YieldLua(c) == ~LuaIsBlocked /\ LuaTask(c) /\ UNCHANGED blocking
YieldTimer(c) == TimerTask(c) /\ UNCHANGED blocking
YieldAirlink == AirlinkTask /\ UNCHANGED blocking

AirlinkNext ==
    \/ YieldAirlink
    \/ \E c \in Call : YieldStart(c) \/ YieldTake(c) \/ YieldTimer(c) \/ YieldLua(c)
    \/ \E s \in Blocking : Enter(s) \/ Waits(s) \/ TakeBlocking(s) \/ Answers(s)

AirlinkSpec == AirlinkInit /\ [][AirlinkNext]_airlinkVars

(* As in RpcYield.  The Lua task returns to its message loop again and     *)
(* again, and the bus is first in, first out.                              *)
AirlinkFairness ==
    /\ WF_airlinkVars(YieldAirlink)
    /\ \A c \in Call : /\ WF_airlinkVars(YieldTimer(c))
                       /\ SF_airlinkVars(YieldLua(c))
    /\ \A s \in Blocking : /\ WF_airlinkVars(Waits(s))
                           /\ WF_airlinkVars(Answers(s))

AirlinkFairSpec == AirlinkSpec /\ AirlinkFairness

-----------------------------------------------------------------------------
(* Correctness.                                                            *)

(* The type invariant.  Both kinds of calls share the slots.               *)
AirlinkTypeOK ==
    /\ TypeOK
    /\ point \in [Blocking -> [Thread -> Point]]
    /\ value \in [Blocking -> [Thread -> Nat]]
    /\ count \in [Blocking -> Nat] /\ freed \in [Blocking -> Nat]
    /\ sem \in [Blocking -> BOOLEAN] /\ late \in [Blocking -> BOOLEAN]
    /\ registered \subseteq Blocking /\ byLua \subseteq Blocking
    /\ Cardinality(slots) + Cardinality(registered) <= Slots

(* A thread that still holds its reference.                                *)
Holds(s, t) ==
    \/ point[s][t] \notin {"out", "test"}
    \/ t = "callback" /\ s \in registered

(* Although the count is decremented by two threads without a lock, a      *)
(* blocking call's context and semaphore are there as long as one of them  *)
(* has not released it: what the lack of a lock can cost is a leak or a    *)
(* second free, after the last use.                                        *)
(* (luat_airlink_rpc.c:127-130, 170-200, 504-548)                          *)
ContextOutlivesUse ==
    \A s \in Blocking, t \in Thread : Holds(s, t) => freed[s] = 0

(* A blocking call returns, with or without an answer.                     *)
(* (luat_airlink_rpc.c:503-549)                                            *)
BlockingReturns ==
    \A s \in Blocking : point[s]["waiter"] # "out" ~> point[s]["waiter"] = "out"
=============================================================================
