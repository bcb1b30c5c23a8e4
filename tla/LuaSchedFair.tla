---------------------------- MODULE LuaSchedFair ----------------------------
(* Liveness of the LuaTask scheduler.  sys.run serves the rtos messages    *)
(* only once everything published has been dispatched, so a script that    *)
(* publishes from its own subscribers for ever starves the timers.  What   *)
(* the scheduler promises, it promises to scripts that make a bounded      *)
(* number of calls between two rtos messages: `calls' counts them.         *)
EXTENDS LuaSched

CONSTANT MaxCalls    \* calls of a script between two rtos messages

ASSUME MaxCallsAssumption == MaxCalls \in Nat

VARIABLE calls

fairVars == <<vars, calls>>

FairInit == Init /\ calls = 0

(* Bound: whatever is started keeps a place on the bus for its expiry, so  *)
(* that BusCap, which the PC port does not have, never blocks a timer.     *)
Pending == Len(bus) + Cardinality({id \in Ids : timer[id].phase = "running"})

TimerStep(id) == Expire(id) /\ UNCHANGED calls

DriverStep == (\E m \in Topic : DriverEvent(m)) /\ Pending' <= BusCap /\ UNCHANGED calls

ScriptStep == Script /\ Pending' <= BusCap /\ calls < MaxCalls /\ calls' = calls + 1

LoopStep ==
    \/ Yield /\ Pending' <= BusCap /\ UNCHANGED calls
    \/ Dispatch /\ UNCHANGED calls
    \/ (Receive \/ Reboot) /\ calls' = 0

FairNext ==
    \/ ScriptStep \/ LoopStep \/ DriverStep
    \/ \E id \in Ids : TimerStep(id)

(* The Lua thread keeps running: every callback and every stretch of a     *)
(* task between two waits ends, and sys.run goes on.  A timer that is left *)
(* running expires; one that is stopped or restarted need not.             *)
Fairness ==
    /\ WF_fairVars(LoopStep)
    /\ \A id \in Ids : WF_fairVars(TimerStep(id))

FairSpec == FairInit /\ [][FairNext]_fairVars /\ Fairness

-----------------------------------------------------------------------------
(* sys.wait and waitUntil with a timeout return.  (sys.lua:156, 204)       *)
TimedWaitEnds ==
    \A t \in Task :
        (Blocked(t) /\ co[t].timerid # None) ~> ~Blocked(t)

(* A message published while a task waits for it ends the wait, whatever   *)
(* subscribers run before it and whatever they publish.  (sys.lua:524-558) *)
PublishedWakes ==
    \A t \in Task, m \in Topic :
        (Blocked(t) /\ co[t].topic = m /\ \E i \in 1 .. Len(messageQueue) : messageQueue[i] = m)
            ~> ~Blocked(t)
=============================================================================
