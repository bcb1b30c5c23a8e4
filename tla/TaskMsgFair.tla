---------------------------- MODULE TaskMsgFair -----------------------------
(* Liveness of directed messages, for scripts that make a bounded number   *)
(* of calls between two rtos messages: sys.run dispatches everything       *)
(* published before it looks at the timers.                                *)
EXTENDS TaskMsg

CONSTANT MaxCalls    \* calls of the scripts between two rtos messages

ASSUME MaxCallsAssumption == MaxCalls \in Nat

VARIABLE calls

fairVars == <<vars, calls>>

FairInit == Init /\ calls = 0

ScriptStep == Script /\ calls < MaxCalls /\ calls' = calls + 1

RunStep == (Return \/ Inside \/ Expire \/ Reboot) /\ UNCHANGED calls

LoopStep ==
    /\ Loop
    /\ calls' = IF Receiving THEN 0 ELSE calls

FairNext == ScriptStep \/ RunStep \/ LoopStep

(* The Lua thread goes on, and timers expire.  The bus and the queue of    *)
(* published messages are first in, first out: whatever waits in them, a   *)
(* publication of the task's name or the expiry of a timer, has its turn   *)
(* although other messages come and go.                                    *)
Fairness ==
    /\ WF_fairVars((Return \/ Inside) /\ UNCHANGED calls)
    /\ WF_fairVars(Expire /\ UNCHANGED calls)
    /\ WF_fairVars(LoopStep)
    /\ SF_fairVars(DispatchName /\ UNCHANGED calls)
    /\ SF_fairVars(WaitTo /\ calls' = 0)

FairSpec == FairInit /\ [][FairNext]_fairVars /\ Fairness

(* waitMsg with a time limit returns, unless the start of its timer is     *)
(* refused or its expiry dropped; then only a message ends it.             *)
(* (sys.lua:769, 809-870, luat_timer_freertos.c:44)                        *)
TimedWaitMsgEnds == (InWait /\ timed) ~> ~InWait \/ timer = "dead"

(* waitMsg returns once the message it wants is in the queue, unless       *)
(* cleanMsg empties the queue before the task runs.                        *)
(* (sys.lua:818-848, 880-888)                                              *)
WantedArrives ==
    (InWait /\ \E i \in 1 .. Len(msgQueue) : Wanted(msgQueue[i]))
        ~> ~InWait \/ msgQueue = <<>>
=============================================================================
