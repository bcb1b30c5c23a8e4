------------------------------ MODULE TaskMsg -------------------------------
(***************************************************************************)
(* Directed messages of script/corelib/sys.lua: a task made by taskInitEx  *)
(* has a queue of its own, sendMsg appends to it and publishes the task's  *)
(* name, waitMsg takes messages until the one it wants comes or its time   *)
(* is up.                                                                  *)
(*                                                                         *)
(* One Lua thread serves the task and everything else: `pc' says where the *)
(* task is, and while the task does not run, `outer' says whether some     *)
(* other script function does or sys.run itself.  Of the queue of          *)
(* published messages only the numbers are kept, of those with the task's  *)
(* name and of all others; which comes first is left open.                 *)
(***************************************************************************)
EXTENDS Integers, Sequences

CONSTANTS
    Msg,         \* what a message may be (its first parameter)
    Nil,         \* target nil
    None,        \* no message: what waitMsg returns when its time is up
    HasCb,       \* has the task a callback for messages it does not want?
    CbWaits,     \* may that callback call sys.wait?
    TaskFails,   \* may the task fail, and is it then only logged?
    QueueCap,    \* bound of this model on msgQueue
    PendingCap   \* bound of this model on the published messages

ASSUME MsgAssumption ==
    /\ Nil \notin Msg /\ None \notin Msg
    /\ HasCb \in BOOLEAN /\ CbWaits \in BOOLEAN /\ TaskFails \in BOOLEAN
    /\ QueueCap \in Nat /\ PendingCap \in Nat \ {0}

VARIABLES
    listed,      \* has taskList an entry for the task?
    msgQueue,    \* taskList[taskName].msgQueue
    To,          \* taskList[taskName].To
    timer,       \* the timer of waitTo: "off", "running", "expired" with
                 \* its message on the bus, or "dead": its start was refused
                 \* or its message dropped, and nothing of it will come
    named,       \* published messages with the task's name
    others,      \* other published messages
    pc,          \* where the task is
    inLoop,      \* has waitMsg subscribed, that is, is it past the first loop?
    target,      \* waitMsg's arguments
    timed,
    result,      \* what the last waitMsg returned
    outer,       \* what runs when the task does not: "loop" or "other"
    vm           \* "up" or "exit"

call == <<inLoop, target, timed>>
entry == <<listed, msgQueue, To>>
published == <<named, others>>
vars == <<entry, timer, published, pc, call, result, outer, vm>>

-----------------------------------------------------------------------------
(* The task is dead, runs its own code, drains the queue at the start of   *)
(* waitMsg, runs the callback, or has yielded: in waitMsg, in a sys.wait   *)
(* of its callback, or in one of its own.                                  *)
Places == {"dead", "script", "drain", "cb", "yielded", "cbWait", "sleep"}
TaskRuns == vm = "up" /\ pc \in {"script", "drain", "cb"}
OtherRuns == vm = "up" /\ outer = "other" /\ ~TaskRuns
ScriptRuns == OtherRuns \/ (TaskRuns /\ pc # "drain")
LoopRuns == vm = "up" /\ outer = "loop" /\ ~TaskRuns

(* In the second loop of waitMsg the task is subscribed to its name.       *)
InWait == inLoop /\ pc \in {"cb", "cbWait", "yielded"}

Init ==
    /\ listed = FALSE /\ msgQueue = <<>> /\ To = FALSE
    /\ timer = "off" /\ named = 0 /\ others = 0
    /\ pc = "dead" /\ inLoop = FALSE /\ target = Nil /\ timed = FALSE
    /\ result = None /\ outer = "other" /\ vm = "up"

Wanted(m) == target = Nil \/ m = target

-----------------------------------------------------------------------------
(* Of whoever runs: the task, its callback, or other code.                 *)
(* mutant: sendMsg wakes the task only for the first message in its queue  *)
Notified_First == IF msgQueue = <<>> THEN named + 1 ELSE named
Notified == named + 1

SendMsg(m) ==
    /\ ScriptRuns
    /\ listed
    /\ Len(msgQueue) < QueueCap /\ named < PendingCap
    /\ msgQueue' = Append(msgQueue, m)
    /\ named' = Notified
    /\ UNCHANGED <<listed, To, timer, others, pc, call, result, outer, vm>>

CleanMsg ==
    /\ ScriptRuns
    /\ listed
    /\ msgQueue' = <<>>
    /\ UNCHANGED <<listed, To, timer, published, pc, call, result, outer, vm>>

PublishOther ==
    /\ ScriptRuns
    /\ others < PendingCap
    /\ others' = others + 1
    /\ UNCHANGED <<entry, timer, named, pc, call, result, outer, vm>>

TaskInitEx ==
    /\ OtherRuns
    /\ pc = "dead"
    /\ listed' = TRUE /\ msgQueue' = <<>> /\ To' = FALSE
    /\ pc' = "script" /\ inLoop' = FALSE
    /\ UNCHANGED <<timer, published, target, timed, result, outer, vm>>

(* By the task before it ends, or by other code after it has failed        *)
TaskDel ==
    /\ ScriptRuns
    /\ pc \in {"script", "dead"}
    /\ listed' = FALSE /\ msgQueue' = <<>> /\ To' = FALSE
    /\ UNCHANGED <<timer, published, pc, call, result, outer, vm>>

-----------------------------------------------------------------------------
(* The task.  waitMsg refuses a task that is not in the list.              *)
WaitMsg(tg, ms) ==
    /\ vm = "up" /\ pc = "script" /\ listed
    /\ pc' = "drain" /\ inLoop' = FALSE
    /\ target' = tg /\ timed' = ms
    /\ UNCHANGED <<entry, timer, published, result, outer, vm>>

Take == msgQueue # <<>> /\ msgQueue' = Tail(msgQueue)

(* The first loop: take what is queued                                     *)
DrainWanted ==
    /\ vm = "up" /\ pc = "drain"
    /\ Take /\ Wanted(Head(msgQueue))
    /\ result' = Head(msgQueue)
    /\ pc' = "script"
    /\ UNCHANGED <<listed, To, timer, published, call, outer, vm>>

DrainUnwanted ==
    /\ vm = "up" /\ pc = "drain"
    /\ Take /\ ~Wanted(Head(msgQueue))
    /\ pc' = IF HasCb THEN "cb" ELSE "drain"
    /\ UNCHANGED <<listed, To, timer, published, call, result, outer, vm>>

(* The timer of an earlier wait is stopped, whether or not one is started; *)
(* that a start is refused is not looked at.                               *)
(* mutant: started first, then stopped *)
Rearmed_StopsLast(ms) == {"off"}
(* mutant: an earlier one is stopped only when a new one is started *)
Rearmed_OnlyTimed(ms) == IF ms THEN {"running", "dead"} ELSE {timer}
Rearmed(ms) == IF ms THEN {"running", "dead"} ELSE {"off"}

(* It is empty: subscribe, start the timer, yield                          *)
StartWait ==
    /\ vm = "up" /\ pc = "drain" /\ msgQueue = <<>>
    /\ timer' \in Rearmed(timed)
    /\ To' = FALSE
    /\ pc' = "yielded" /\ inLoop' = TRUE
    /\ UNCHANGED <<listed, msgQueue, published, target, timed, result, outer, vm>>

(* The end of waitMsg: To decides whether the message is returned          *)
(* mutant: the timer is not stopped *)
FinishTimer_Running == timer
FinishTimer == "off"

Finish(m) ==
    /\ result' = IF To THEN None ELSE m
    /\ To' = FALSE
    /\ timer' = FinishTimer
    /\ pc' = "script" /\ inLoop' = FALSE

(* One turn of the second loop, after the yield                            *)
Turn ==
    \/ /\ Take /\ Wanted(Head(msgQueue))
       /\ Finish(Head(msgQueue))
    \/ /\ Take /\ ~Wanted(Head(msgQueue))
       /\ pc' = IF HasCb THEN "cb" ELSE "yielded"
       /\ UNCHANGED <<To, timer, inLoop, result>>
    \/ /\ msgQueue = <<>> /\ To
       /\ Finish(None)
       /\ UNCHANGED msgQueue
    \/ /\ msgQueue = <<>> /\ ~To
       /\ UNCHANGED <<msgQueue, To, timer, pc, inLoop, result>>

CbReturn ==
    /\ vm = "up" /\ pc = "cb"
    /\ pc' = IF inLoop THEN "yielded" ELSE "drain"
    /\ UNCHANGED <<entry, timer, published, call, result, outer, vm>>

CbWait ==
    /\ vm = "up" /\ pc = "cb" /\ CbWaits
    /\ pc' = "cbWait"
    /\ UNCHANGED <<entry, timer, published, call, result, outer, vm>>

Sleep ==
    /\ vm = "up" /\ pc = "script"
    /\ pc' = "sleep"
    /\ UNCHANGED <<entry, timer, published, call, result, outer, vm>>

(* The task returns, or fails: the entry, and the timer of a waitMsg whose *)
(* callback has failed, stay behind                                        *)
TaskEnd ==
    /\ vm = "up"
    /\ pc = "script" \/ (TaskFails /\ pc = "cb")
    /\ pc' = "dead"
    /\ UNCHANGED <<entry, timer, published, call, result, outer, vm>>

-----------------------------------------------------------------------------
(* Other code runs as the subscriber of another message or, when there is  *)
(* nothing to dispatch, on a message of the rtos.                          *)
OtherStarts ==
    /\ LoopRuns
    /\ \/ others > 0 /\ others' = others - 1
       \/ named = 0 /\ others = 0 /\ UNCHANGED others
    /\ outer' = "other"
    /\ UNCHANGED <<entry, timer, named, pc, call, result, vm>>

OtherEnds ==
    /\ OtherRuns
    /\ outer' = "loop"
    /\ UNCHANGED <<entry, timer, published, pc, call, result, vm>>

(* mutant: off by one in the test for published messages *)
SomePublished_OffByOne(n) == n >= 0
SomePublished(n) == n > 0

(* dispatch of the task's name: nobody subscribed, waitMsg, or, when its   *)
(* callback sleeps in a sys.wait, that sys.wait                            *)
DispatchName ==
    /\ LoopRuns /\ SomePublished(named)
    /\ named' = named - 1
    /\ \/ pc = "yielded" /\ Turn
       \/ pc = "cbWait" /\ inLoop /\ pc' = "cb" /\ UNCHANGED <<msgQueue, To, timer, inLoop, result>>
       \/ ~InWait /\ UNCHANGED <<msgQueue, To, timer, pc, inLoop, result>>
    /\ UNCHANGED <<listed, others, target, timed, outer, vm>>

(* rtos.receive comes after everything published has been dispatched       *)
(* mutant: it comes first *)
Receiving_First == LoopRuns
Receiving == LoopRuns /\ named = 0 /\ others = 0

WaitEnds ==
    /\ Receiving
    /\ \/ pc = "sleep" /\ pc' = "script"
       \/ pc = "cbWait" /\ pc' = "cb"
    /\ UNCHANGED <<entry, timer, published, call, result, outer, vm>>

(* The timer thread; when the bus is full the message is dropped.          *)
Expire ==
    /\ vm = "up" /\ timer = "running"
    /\ timer' \in {"expired", "dead"}
    /\ UNCHANGED <<entry, published, pc, call, result, outer, vm>>

(* waitTo indexes taskList[taskName]                                       *)
WaitTo ==
    /\ Receiving /\ timer = "expired"
    /\ timer' = "off"
    /\ IF listed
       THEN To' = TRUE /\ named' = named + 1 /\ UNCHANGED vm
       ELSE vm' = "exit" /\ UNCHANGED <<To, named>>
    /\ UNCHANGED <<listed, msgQueue, others, pc, call, result, outer>>

-----------------------------------------------------------------------------
Script ==
    \/ \E m \in Msg : SendMsg(m)
    \/ CleanMsg \/ PublishOther \/ TaskInitEx \/ TaskDel
    \/ \E tg \in Msg \union {Nil}, ms \in BOOLEAN : WaitMsg(tg, ms)
    \/ CbWait \/ Sleep

Return == CbReturn \/ TaskEnd \/ OtherEnds

Inside == DrainWanted \/ DrainUnwanted \/ StartWait

Loop == DispatchName \/ WaitEnds \/ WaitTo \/ OtherStarts

(* 15 s after the VM has exited the firmware starts it again               *)
Reboot ==
    /\ vm = "exit"
    /\ listed' = FALSE /\ msgQueue' = <<>> /\ To' = FALSE
    /\ timer' = "off" /\ named' = 0 /\ others' = 0
    /\ pc' = "dead" /\ inLoop' = FALSE /\ target' = Nil /\ timed' = FALSE
    /\ result' = None /\ outer' = "other" /\ vm' = "up"

Next == Script \/ Return \/ Inside \/ Loop \/ Expire \/ Reboot

Spec == Init /\ [][Next]_vars

-----------------------------------------------------------------------------
(* Correctness.                                                            *)

(* The type invariant.                                                     *)
TypeOK ==
    /\ listed \in BOOLEAN /\ msgQueue \in Seq(Msg) /\ To \in BOOLEAN
    /\ timer \in {"off", "running", "expired", "dead"}
    /\ named \in Nat /\ others \in Nat
    /\ pc \in Places /\ inLoop \in BOOLEAN
    /\ target \in Msg \union {Nil} /\ timed \in BOOLEAN
    /\ result \in Msg \union {None}
    /\ outer \in {"loop", "other"} /\ vm \in {"up", "exit"}

(* No wake-up is lost: while the task waits, every message in its queue    *)
(* has a publication of its name to come.  (sys.lua:818-855, 880-888)      *)
QueuedIsNotified == InWait => Len(msgQueue) <= named

(* The time-out is acted upon only when no message is there.               *)
(* (sys.lua:850-860)                                                       *)
TimeUpOnEmpty == To /\ InWait => msgQueue = <<>>

(* A message that waitMsg takes and wants is returned: "table message on   *)
(* success".  (sys.lua:770, 828-870)                                       *)
WantedIsReturned ==
    [][vm = "up" /\ msgQueue # <<>> /\ msgQueue' = Tail(msgQueue)
            /\ named' = named - 1 /\ Wanted(Head(msgQueue)) =>
         result' = Head(msgQueue)]_vars

(* waitMsg gives up only after its own timer has fired: the timer runs     *)
(* only for a wait that asked for one, and a wait without limit is never   *)
(* ended by the timer of another.  (sys.lua:810-814, 858-865)              *)
TimerIsOfThisWait ==
    timer # "off" \/ To => InWait /\ timed

(* Even after a task has failed in a wait and left its timer behind, that  *)
(* timer does not end a later wait without limit, in which To would be     *)
(* taken for a time-out.  (sys.lua:804-814)                                *)
UntimedWaitIsOpen == InWait /\ ~timed => timer = "off" /\ ~To

(* A wait that asked for a limit has it, and loses it only when the start  *)
(* of its timer is refused or its expiry dropped: otherwise the timer      *)
(* runs, or its message is on the bus, or the wake-up is to come.          *)
(* (sys.lua:760-764, 809-813, luat_timer_freertos.c:44)                    *)
TimedWaitIsArmed ==
    InWait /\ timed =>
        timer \in {"running", "expired"} \/ timer = "dead" \/ (To /\ named > 0)
=============================================================================
