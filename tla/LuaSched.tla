------------------------------ MODULE LuaSched ------------------------------
(***************************************************************************)
(* The LuaTask scheduler of script/corelib/sys.lua together with the timer *)
(* and message-bus layer it runs on (luat_lib_rtos.c, luat_timer_*.c,      *)
(* luat_msgbus_*.c).                                                       *)
(*                                                                         *)
(* Two kinds of actors interleave.  The Lua thread runs coroutines and     *)
(* callbacks one at a time: `stack' holds what it is executing, and when   *)
(* the stack is empty it is in sys.run(), which first drains the queue of  *)
(* published messages and then blocks in rtos.receive.  The firmware's     *)
(* timer thread and drivers append to `bus' at any moment.                 *)
(***************************************************************************)
EXTENDS Integers, Sequences, FiniteSets

CONSTANTS
    Task,        \* coroutines
    Fn,          \* application callbacks
    AssertFn,      \* Lua's assert, as started by the error wrapper
    Main,        \* the body of main.lua, up to its call of sys.run
    Topic,       \* message identifiers
    Arg,         \* non-empty argument lists of timer callbacks
    None,        \* nil
    TaskIdMax,   \* TASK_TIMER_ID_MAX
    MsgIdMax,    \* MSG_TIMER_ID_MAX
    Slots,       \* capacity of the C timer table
    BusCap,      \* capacity of the message bus
    QueueCap,    \* bound of this model on the queue of published messages
    Port,        \* "freertos" or "pc"
    Repeats,     \* repeat counts passed to timerAdvStart
    MayFail,     \* may rtos.timer_start fail, or raise, although a slot is free?
    MayWrap,     \* are task timer ids explored beyond their wrap-around?
    MayResume,   \* do scripts resume waiting tasks themselves?
    ErrPolicy    \* COROUTINE_ERROR_*: "rollback", "restart" or "none"

ASSUME BoundsAssumption ==
    /\ TaskIdMax \in Nat \ {0} /\ MsgIdMax \in Nat /\ TaskIdMax < MsgIdMax
    /\ Slots \in Nat /\ BusCap \in Nat /\ QueueCap \in Nat
    /\ Repeats \subseteq Int
    /\ Port \in {"freertos", "pc"}
    /\ MayFail \in BOOLEAN /\ MayWrap \in BOOLEAN /\ MayResume \in BOOLEAN
    /\ ErrPolicy \in {"rollback", "restart", "none"}

Callback == Fn \union {AssertFn}
Frame == Task \union Fn \union {Main}
TaskIds == 0 .. (TaskIdMax - 1)
MsgIds == (TaskIdMax + 1) .. MsgIdMax
Ids == TaskIds \union MsgIds

ASSUME NamesAssumption ==
    /\ Task \intersect Callback = {}
    /\ Main \notin Task \union Callback
    /\ AssertFn \notin Fn
    /\ None \notin Task \union Callback \union Topic \union Arg \union Ids
    /\ Topic \intersect Ids = {}

VARIABLES
    taskTimerId,   \* last id given to a sys.wait
    msgId,         \* last id given to a timerAdvStart
    timerPool,     \* timerPool[id]: the task or callback that id belongs to
    para,          \* para[id]: the arguments of the callback
    timer,         \* the C timer of an id: its phase and remaining repeats
    bus,           \* rtos messages: an id for MSG_TIMER, a topic for a driver
    subscribers,   \* subscribers[topic]: tasks and callbacks
    messageQueue,  \* published messages not yet dispatched
    tmpt,          \* subscribers of `message' that dispatch has yet to call
    message,       \* the message being dispatched
    stack,         \* what the Lua thread executes, the innermost first
    co,            \* the coroutines
    vm             \* "up", "failed" while the wrapper has an error to handle,
                   \* or "exit" once one has left sys.run

luaVars == <<taskTimerId, msgId, timerPool, para, subscribers, messageQueue,
             tmpt, message, stack, co, vm>>
vars == <<taskTimerId, msgId, timerPool, para, timer, bus, subscribers,
          messageQueue, tmpt, message, stack, co, vm>>

-----------------------------------------------------------------------------
(* A C timer is absent, counting down, or expired with its slot still held *)
(* until l_timer_handler has run.                                          *)
Phases == {"idle", "running", "expired"}
Idle == [phase |-> "idle", repeat |-> 0, loop |-> FALSE]
Dead == [st |-> "dead", timerid |-> None, topic |-> None]
Running == [st |-> "running", timerid |-> None, topic |-> None]
Waiting(id, topic) == [st |-> "waiting", timerid |-> id, topic |-> topic]
DiedIn(topic) == [st |-> "dead", timerid |-> None, topic |-> topic]

Init ==
    /\ taskTimerId = 0
    /\ msgId = TaskIdMax
    /\ timerPool = [id \in Ids |-> None]
    /\ para = [id \in Ids |-> None]
    /\ timer = [id \in Ids |-> Idle]
    /\ bus = <<>>
    /\ subscribers = [m \in Topic |-> {}]
    /\ messageQueue = <<>>
    /\ tmpt = {}
    /\ message = None
    /\ stack = <<[who |-> Main, clears |-> None]>>
    /\ co = [t \in Task |-> Dead]
    /\ vm = "up"

Busy == vm = "up" /\ stack # <<>>            \* a script function is running
InLoop == vm = "up" /\ stack = <<>>          \* sys.run itself is running
Current == Head(stack).who
TaskRuns(t) == Busy /\ Current = t

Call(who, clears) == <<[who |-> who, clears |-> clears]>> \o stack
Return == Tail(stack)

Clear(f, S, v) == [x \in DOMAIN f |-> IF x \in S THEN v ELSE f[x]]

-----------------------------------------------------------------------------
(* Identifiers.  Both search loops go round their range from the last id   *)
(* given and take the first one with no pool entry.                        *)
Free(pool, range) == {id \in range : pool[id] = None}
FirstFree(id, free, last, size) ==
    /\ id \in free
    /\ \A j \in free : (id - last - 1) % size <= (j - last - 1) % size

(* Bound: an id comes round again after 2^21 (3 * 2^21) allocations; by    *)
(* then no bus message and no callback in progress still refers to it.     *)
InFlight(id) ==
    \/ \E i \in 1 .. Len(bus) : bus[i] = id
    \/ \E i \in 1 .. Len(stack) : stack[i].clears = id

NextTaskTimerId(id) ==
    /\ FirstFree(id, Free(timerPool, TaskIds), taskTimerId, TaskIdMax)
    /\ ~InFlight(id)
    /\ MayWrap \/ id > taskTimerId

NextMsgId(id, pool) ==
    /\ FirstFree(id, Free(pool, MsgIds), msgId, MsgIdMax - TaskIdMax)
    /\ ~InFlight(id)

(* rtos.timer_start refuses ms < 1, and fails without memory or a slot.    *)
HasSlot(timers) == Cardinality({i \in Ids : timers[i].phase # "idle"}) < Slots
Outcomes(timers) == {ok \in BOOLEAN : IF ok THEN HasSlot(timers)
                                            ELSE MayFail \/ ~HasSlot(timers)}
Started(repeat) == [phase |-> "running", repeat |-> repeat, loop |-> repeat # 0]

-----------------------------------------------------------------------------
(* Timer API, from whatever script function is running.                    *)
(* mutant: cmpTable is left out *)
Matching_IgnoresArgs(f, args) == {id \in Ids : timerPool[id] = f /\ para[id] = None}
Matching(f, args) == {id \in Ids : timerPool[id] = f /\ para[id] = args}

(* timerStop(fnc, ...) stops one matching entry, whichever pairs() meets   *)
StopChoices(f, args) ==
    IF Matching(f, args) = {} THEN {{}} ELSE {{id} : id \in Matching(f, args)}

(* mutant: rtos.timer_stop is forgotten *)
StopTimers_TablesOnly(S) ==
    /\ timerPool' = Clear(timerPool, S, None)
    /\ para' = Clear(para, S, None)
    /\ timer' = timer

StopTimers(S) ==
    /\ timerPool' = Clear(timerPool, S, None)
    /\ para' = Clear(para, S, None)
    /\ timer' = Clear(timer, S, Idle)

AdvStart(f, args, repeat) ==
    \E S \in StopChoices(f, args), id \in MsgIds :
      LET pool == Clear(timerPool, S, None)
          timers == Clear(timer, S, Idle)
      IN /\ NextMsgId(id, pool)
         /\ msgId' = id
         /\ timerPool' = [pool EXCEPT ![id] = f]
         /\ \E ok \in Outcomes(timers) :
              /\ timer' = IF ok THEN [timers EXCEPT ![id] = Started(repeat)]
                                ELSE timers
              /\ para' = IF ok /\ args # None
                         THEN [Clear(para, S, None) EXCEPT ![id] = args]
                         ELSE Clear(para, S, None)

TimerAdvStart(f, args, repeat) ==
    /\ Busy
    /\ AdvStart(f, args, repeat)
    /\ UNCHANGED <<taskTimerId, bus, subscribers, messageQueue, tmpt, message,
                   stack, co, vm>>

TimerStop(f, args) ==
    /\ Busy
    /\ \E S \in StopChoices(f, args) : StopTimers(S)
    /\ UNCHANGED <<taskTimerId, msgId, bus, subscribers, messageQueue, tmpt,
                   message, stack, co, vm>>

(* timerStop(id), with an id timerStart returned to the script; the error  *)
(* wrapper keeps its own to itself                                         *)
TimerStopId(id) ==
    /\ Busy
    /\ timerPool[id] # AssertFn
    /\ StopTimers({id})
    /\ UNCHANGED <<taskTimerId, msgId, bus, subscribers, messageQueue, tmpt,
                   message, stack, co, vm>>

TimerStopAll(f) ==
    /\ Busy
    /\ StopTimers({id \in Ids : timerPool[id] = f})
    /\ UNCHANGED <<taskTimerId, msgId, bus, subscribers, messageQueue, tmpt,
                   message, stack, co, vm>>

TimerIsActive(f, args) == Matching(f, args) # {}

-----------------------------------------------------------------------------
(* Publish and subscribe.                                                  *)
Publish(m) ==
    /\ Busy
    /\ Len(messageQueue) < QueueCap
    /\ messageQueue' = Append(messageQueue, m)
    /\ UNCHANGED <<taskTimerId, msgId, timerPool, para, timer, bus,
                   subscribers, tmpt, message, stack, co, vm>>

Subscribe(m, f) ==
    /\ Busy
    /\ subscribers' = [subscribers EXCEPT ![m] = @ \union {f}]
    /\ UNCHANGED <<taskTimerId, msgId, timerPool, para, timer, bus,
                   messageQueue, tmpt, message, stack, co, vm>>

Unsubscribe(m, f) ==
    /\ Busy
    /\ subscribers' = [subscribers EXCEPT ![m] = @ \ {f}]
    /\ UNCHANGED <<taskTimerId, msgId, timerPool, para, timer, bus,
                   messageQueue, tmpt, message, stack, co, vm>>

-----------------------------------------------------------------------------
(* Tasks: start, wait, finish, crash.  taskInit makes a new coroutine: a   *)
(* dead one stands for it only when nothing refers to the dead one.        *)
TaskInit(t) ==
    /\ Busy
    /\ co[t] = Dead /\ t \notin tmpt
    /\ \A id \in TaskIds : timerPool[id] # t
    /\ co' = [co EXCEPT ![t] = Running]
    /\ stack' = Call(t, None)
    /\ UNCHANGED <<taskTimerId, msgId, timerPool, para, timer, bus,
                   subscribers, messageQueue, tmpt, message, vm>>

(* sys.wait(ms) when m is None, else sys.waitUntil(m, ms)                  *)
Wait(t, m) ==
    /\ TaskRuns(t)
    /\ HasSlot(timer)
    /\ \E id \in TaskIds :
         /\ NextTaskTimerId(id)
         /\ taskTimerId' = id
         /\ timerPool' = [timerPool EXCEPT ![id] = t]
         /\ timer' = [timer EXCEPT ![id] = Started(0)]
         /\ co' = [co EXCEPT ![t] = Waiting(id, m)]
    /\ subscribers' = IF m = None THEN subscribers
                      ELSE [subscribers EXCEPT ![m] = @ \union {t}]
    /\ stack' = Return
    /\ UNCHANGED <<msgId, para, bus, messageQueue, tmpt, message, vm>>

(* timer_start refused: sys.wait returns at once and keeps the pool entry; *)
(* waitUntil has subscribed and unsubscribes again                         *)
WaitRefused(t) ==
    /\ TaskRuns(t)
    /\ FALSE \in Outcomes(timer)
    /\ \E id \in TaskIds :
         /\ NextTaskTimerId(id)
         /\ taskTimerId' = id
         /\ timerPool' = [timerPool EXCEPT ![id] = t]
    /\ UNCHANGED <<msgId, para, timer, bus, subscribers, messageQueue, tmpt,
                   message, stack, co, vm>>

(* waitUntil without a timeout, and waitUntilMsg                           *)
WaitForever(t, m) ==
    /\ TaskRuns(t)
    /\ subscribers' = [subscribers EXCEPT ![m] = @ \union {t}]
    /\ co' = [co EXCEPT ![t] = Waiting(None, m)]
    /\ stack' = Return
    /\ UNCHANGED <<taskTimerId, msgId, timerPool, para, timer, bus,
                   messageQueue, tmpt, message, vm>>

(* A sys.wait that is resumed with a message stops its timer, frees its id *)
(* mutant: it returns without doing so *)
WokenEarly_KeepsTimer(t) == {}
WokenEarly(t) == {co[t].timerid}

(* and waitUntil unsubscribes, however it was resumed                      *)
(* mutant: only a message unsubscribes *)
Unsubscribed_OnMessage(t) ==
    IF tmpt = {} THEN subscribers ELSE [subscribers EXCEPT ![message] = @ \ {t}]
Unsubscribed(t) ==
    IF co[t].topic = None THEN subscribers
    ELSE [subscribers EXCEPT ![co[t].topic] = @ \ {t}]

(* The rest of sys.wait and waitUntil once resumed with a message          *)
ResumeWith(t) ==
    /\ timerPool' = Clear(timerPool, WokenEarly(t), None)
    /\ timer' = Clear(timer, WokenEarly(t), Idle)
    /\ subscribers' = Unsubscribed(t)
    /\ co' = [co EXCEPT ![t] = Running]
    /\ stack' = Call(t, None)

(* sys.coresume(t, x): a script ends the wait of another task              *)
Resume(t) ==
    /\ Busy
    /\ MayResume
    /\ co[t].st = "waiting"
    /\ ResumeWith(t)
    /\ UNCHANGED <<taskTimerId, msgId, para, bus, messageQueue, tmpt, message, vm>>

TaskReturn(t) ==
    /\ TaskRuns(t)
    /\ co' = [co EXCEPT ![t] = Dead]
    /\ stack' = Return
    /\ UNCHANGED <<taskTimerId, msgId, timerPool, para, timer, bus,
                   subscribers, messageQueue, tmpt, message, vm>>

(* A failed resume: arm timerStart(assert, 500, false, traceBack), reboot, *)
(* or only log                                                             *)
Wrapper ==
    /\ IF ErrPolicy = "rollback"
       THEN \E trace \in Arg : AdvStart(AssertFn, trace, 0)
       ELSE UNCHANGED <<msgId, timerPool, para, timer>>
    /\ vm' = IF ErrPolicy = "restart" THEN "exit" ELSE "up"

(* A timeout that is no integer: timer_start raises, and the task dies in  *)
(* waitUntil with its pool entry and its subscription.  (In sys.wait, or   *)
(* timerStart, this is a refusal followed by an error.)                    *)
WaitRaises(t, m) ==
    /\ TaskRuns(t)
    /\ MayFail
    /\ \E id \in TaskIds :
         /\ NextTaskTimerId(id)
         /\ taskTimerId' = id
         /\ timerPool' = [timerPool EXCEPT ![id] = t]
    /\ subscribers' = [subscribers EXCEPT ![m] = @ \union {t}]
    /\ co' = [co EXCEPT ![t] = DiedIn(m)]
    /\ stack' = Return
    /\ vm' = "failed"
    /\ UNCHANGED <<msgId, para, timer, bus, messageQueue, tmpt, message>>

WaitRaised ==
    /\ vm = "failed"
    /\ Wrapper
    /\ UNCHANGED <<taskTimerId, bus, subscribers, messageQueue, tmpt, message,
                   stack, co>>

(* An error in a task ends it                                              *)
TaskError(t) ==
    /\ TaskRuns(t)
    /\ co' = [co EXCEPT ![t] = Dead]
    /\ stack' = Return
    /\ Wrapper
    /\ UNCHANGED <<taskTimerId, bus, subscribers, messageQueue, tmpt, message>>

-----------------------------------------------------------------------------
(* Callbacks and the body of main.lua run on the main coroutine.           *)
FnReturn ==
    /\ Busy
    /\ Current \in Fn \union {Main}
    /\ stack' = Return
    /\ para' = Clear(para, {Head(stack).clears}, None)
    /\ UNCHANGED <<taskTimerId, msgId, timerPool, timer, bus, subscribers,
                   messageQueue, tmpt, message, co, vm>>

FnError ==
    /\ Busy
    /\ Current \in Fn \union {Main}
    /\ vm' = "exit"
    /\ UNCHANGED <<taskTimerId, msgId, timerPool, para, timer, bus,
                   subscribers, messageQueue, tmpt, message, stack, co>>

(* luat_main: 15 s after the Lua VM has exited the firmware reboots        *)
Reboot ==
    /\ vm = "exit"
    /\ taskTimerId' = 0 /\ msgId' = TaskIdMax
    /\ timerPool' = [id \in Ids |-> None]
    /\ para' = [id \in Ids |-> None]
    /\ timer' = [id \in Ids |-> Idle]
    /\ bus' = <<>> /\ messageQueue' = <<>>
    /\ subscribers' = [m \in Topic |-> {}]
    /\ tmpt' = {} /\ message' = None
    /\ stack' = <<[who |-> Main, clears |-> None]>>
    /\ co' = [t \in Task |-> Dead]
    /\ vm' = "up"

-----------------------------------------------------------------------------
(* sys.run: dispatch the published messages, then take one rtos message.   *)
DispatchPop ==
    /\ InLoop /\ tmpt = {} /\ messageQueue # <<>>
    /\ messageQueue' = Tail(messageQueue)
    /\ tmpt' = subscribers[Head(messageQueue)]
    /\ message' = IF tmpt' = {} THEN None ELSE Head(messageQueue)
    /\ UNCHANGED <<taskTimerId, msgId, timerPool, para, timer, bus,
                   subscribers, stack, co, vm>>

(* mutant: only the first subscriber is called *)
Dispatched_FirstOnly(c) == tmpt' = {} /\ message' = None

Dispatched(c) ==
    /\ tmpt' = tmpt \ {c}
    /\ message' = IF tmpt' = {} THEN None ELSE message

DispatchFn(f) ==
    /\ InLoop /\ f \in tmpt
    /\ Dispatched(f)
    /\ stack' = Call(f, None)
    /\ UNCHANGED <<taskTimerId, msgId, timerPool, para, timer, bus,
                   subscribers, messageQueue, co, vm>>

DispatchTask(t) ==
    /\ InLoop /\ t \in tmpt
    /\ co[t].st = "waiting"
    /\ Dispatched(t)
    /\ ResumeWith(t)
    /\ UNCHANGED <<taskTimerId, msgId, para, bus, messageQueue, vm>>

(* "cannot resume dead coroutine": the snapshot is out of date             *)
DispatchDead(t) ==
    /\ InLoop /\ t \in tmpt
    /\ co[t].st # "waiting"
    /\ Dispatched(t)
    /\ Wrapper
    /\ UNCHANGED <<taskTimerId, bus, subscribers, messageQueue, stack, co>>

(* rtos.receive blocks only when everything published has been dispatched  *)
Receiving == InLoop /\ tmpt = {} /\ messageQueue = <<>> /\ bus # <<>>

ReceiveDriver ==
    /\ Receiving
    /\ Head(bus) \in Topic
    /\ bus' = Tail(bus)
    /\ messageQueue' = <<Head(bus)>>
    /\ UNCHANGED <<taskTimerId, msgId, timerPool, para, timer, subscribers,
                   tmpt, message, stack, co, vm>>

Live(id) == timer[id].phase # "idle"

(* l_timer_handler finds the luat_timer_t by arg1 if that is positive.     *)
(* For id 0 it falls back on msg.ptr: NULL on the PC port; on FreeRTOS the *)
(* structure itself, whose id field is read after free() when the timer    *)
(* has been stopped: the heap may have given the block to any live timer.  *)
(* mutant: id 1 is taken for no id *)
Resolved_OffByOne(id) == IF id > 1 THEN {id} ELSE {}

Resolved(id) ==
    CASE id # 0 -> {id}
      [] id = 0 /\ Port = "pc" -> {}
      [] id = 0 /\ Port = "freertos" -> IF Live(0) THEN {0} ELSE Ids

ReceiveStale ==
    /\ Receiving
    /\ Head(bus) \in Ids
    /\ Resolved(Head(bus)) = {} \/ \E id \in Resolved(Head(bus)) : ~Live(id)
    /\ bus' = Tail(bus)
    /\ UNCHANGED <<taskTimerId, msgId, timerPool, para, timer, subscribers,
                   messageQueue, tmpt, message, stack, co, vm>>

(* l_timer_handler frees a timer whose repeats are used up                 *)
Handled(tm) ==
    IF tm.repeat = 0 THEN Idle
    ELSE [tm EXCEPT !.repeat = IF @ > 0 THEN @ - 1 ELSE @]

HandleTimer(id) ==
    /\ Receiving
    /\ Head(bus) \in Ids
    /\ id \in Resolved(Head(bus)) /\ Live(id)
    /\ bus' = Tail(bus)
    /\ timer' = [timer EXCEPT ![id] = Handled(@)]

(* A task timer: the pool entry goes, the task resumes without a message   *)
(* and a waitUntil unsubscribes                                            *)
ReceiveTaskTimer(id) ==
    /\ HandleTimer(id)
    /\ id < TaskIdMax /\ timerPool[id] # None
    /\ LET t == timerPool[id]
       IN /\ subscribers' = Unsubscribed(t)
          /\ co' = [co EXCEPT ![t] = Running]
          /\ stack' = Call(t, None)
    /\ timerPool' = [timerPool EXCEPT ![id] = None]
    /\ UNCHANGED <<taskTimerId, msgId, para, messageQueue, tmpt, message, vm>>

(* A callback timer: its arguments outlive its pool entry until it returns *)
(* mutant: they are never dropped *)
ClearsAfter_Nothing(id) == None
ClearsAfter(id) ==
    IF timer[id].repeat = 0 /\ para[id] # None THEN id ELSE None

Raises(f) == f = AssertFn

ReceiveCallback(id) ==
    /\ HandleTimer(id)
    /\ id > TaskIdMax /\ timerPool[id] # None
    /\ timerPool' = IF timer[id].repeat = 0 THEN [timerPool EXCEPT ![id] = None]
                    ELSE timerPool
    /\ IF Raises(timerPool[id])
       THEN vm' = "exit" /\ UNCHANGED stack
       ELSE stack' = Call(timerPool[id], ClearsAfter(id)) /\ UNCHANGED vm
    /\ UNCHANGED <<taskTimerId, msgId, para, subscribers, messageQueue, tmpt,
                   message, co>>

-----------------------------------------------------------------------------
(* The other threads: the timer service and the drivers.  luat_msgbus_put  *)
(* drops the message when a FreeRTOS queue is full and nobody looks at its *)
(* result; the PC queue has no limit, BusCap is only a bound there.        *)
Post(m) ==
    /\ Port = "pc" => Len(bus) < BusCap
    /\ bus' = IF Len(bus) < BusCap THEN Append(bus, m) ELSE bus

Reloads(tm) == IF Port = "freertos" THEN tm.loop ELSE tm.repeat > 0 \/ tm.repeat = -1
Expired(tm) ==
    [phase |-> IF Reloads(tm) THEN "running" ELSE "expired",
     repeat |-> IF Port = "pc" /\ tm.repeat > 0 THEN tm.repeat - 1 ELSE tm.repeat,
     loop |-> tm.loop]

Expire(id) ==
    /\ vm = "up"
    /\ timer[id].phase = "running"
    /\ timer' = [timer EXCEPT ![id] = Expired(@)]
    /\ Post(id)
    /\ UNCHANGED luaVars

DriverEvent(m) ==
    /\ vm = "up"
    /\ Post(m)
    /\ UNCHANGED <<luaVars, timer>>

-----------------------------------------------------------------------------
Script ==
    \/ \E f \in Fn, a \in Arg \union {None} :
         \/ \E r \in Repeats : TimerAdvStart(f, a, r)
         \/ TimerStop(f, a)
    \/ \E id \in MsgIds : TimerStopId(id)
    \/ \E f \in Fn : TimerStopAll(f)
    \/ \E m \in Topic : Publish(m)
    \/ \E m \in Topic, f \in Fn : Subscribe(m, f) \/ Unsubscribe(m, f)
    \/ \E t \in Task : TaskInit(t) \/ WaitRefused(t) \/ Resume(t)

Yield ==
    \/ \E t \in Task :
         \/ \E m \in Topic \union {None} : Wait(t, m)
         \/ \E m \in Topic : WaitForever(t, m) \/ WaitRaises(t, m)
         \/ TaskReturn(t)
         \/ TaskError(t)
    \/ WaitRaised
    \/ FnReturn
    \/ FnError

Dispatch ==
    \/ DispatchPop
    \/ \E f \in Fn : DispatchFn(f)
    \/ \E t \in Task : DispatchTask(t) \/ DispatchDead(t)

Receive ==
    \/ ReceiveDriver
    \/ ReceiveStale
    \/ \E id \in Ids : ReceiveTaskTimer(id) \/ ReceiveCallback(id)

Next ==
    \/ Script \/ Yield \/ Dispatch \/ Receive \/ Reboot
    \/ \E id \in Ids : Expire(id)
    \/ \E m \in Topic : DriverEvent(m)

Spec == Init /\ [][Next]_vars

-----------------------------------------------------------------------------
(* Correctness.                                                            *)

(* The type invariant.                                                     *)
TypeOK ==
    /\ taskTimerId \in TaskIds
    /\ msgId \in TaskIdMax .. MsgIdMax
    /\ timerPool \in [Ids -> Task \union Callback \union {None}]
    /\ para \in [Ids -> Arg \union {None}]
    /\ timer \in [Ids -> [phase : Phases, repeat : Int, loop : BOOLEAN]]
    /\ bus \in Seq(Ids \union Topic)
    /\ subscribers \in [Topic -> SUBSET (Task \union Fn)]
    /\ messageQueue \in Seq(Topic)
    /\ tmpt \subseteq Task \union Fn
    /\ message \in Topic \union {None}
    /\ stack \in Seq([who : Frame, clears : MsgIds \union {None}])
    /\ co \in [Task -> [st : {"dead", "running", "waiting"},
                        timerid : TaskIds \union {None},
                        topic : Topic \union {None}]]
    /\ vm \in {"up", "failed", "exit"}

Blocked(t) == co[t].st = "waiting"
OnBus(id) == \E i \in 1 .. Len(bus) : bus[i] = id

(* Task timers belong to tasks and callback timers to callbacks: safeRun   *)
(* tells them apart by the id alone.  (sys.lua:593, 599)                   *)
IdsPartitioned ==
    /\ \A id \in TaskIds : timerPool[id] \in Task \union {None}
    /\ \A id \in MsgIds : timerPool[id] \in Callback \union {None}

(* A task is never left sleeping: while it waits with a timeout, its pool  *)
(* entry names it and either its timer still counts or the expiry is on    *)
(* the bus.  (sys.lua:156, luat_lib_rtos.c:91)                              *)
BlockedTaskIsArmed ==
    \A t \in Task : Blocked(t) /\ co[t].timerid # None =>
        /\ timerPool[co[t].timerid] = t
        /\ timer[co[t].timerid].phase = "running" \/ OnBus(co[t].timerid)

(* However a wait ended, nothing of it remains: an entry of the pool that  *)
(* names a task is that of the wait the task is in.  A left-over entry     *)
(* would let a late expiry resume the task in a later, unrelated wait.     *)
(* (sys.lua:191-195, 593-598)                                              *)
NoWaitResidue ==
    \A id \in Ids, t \in Task :
        timerPool[id] = t => Blocked(t) /\ co[t].timerid = id

(* A C timer always has an owner, even when starts fail: no timer runs     *)
(* that nothing in Lua can stop.                                           *)
(* (sys.lua:374-386, luat_lib_rtos.c:132-199)                              *)
TimersAreOwned ==
    \A id \in Ids : timer[id].phase # "idle" => timerPool[id] # None

(* A task is subscribed exactly to the message of the wait that it is in,  *)
(* or has died in, however its waits end.  (sys.lua:204-234)               *)
SubscribersAreWaiting ==
    \A m \in Topic, t \in Task : t \in subscribers[m] <=> co[t].topic = m

(* The snapshot that dispatch walks while callbacks run holds only tasks   *)
(* still in a wait for the message, or dead in it: no task is resumed out  *)
(* of another wait, or after it has gone on.  (sys.lua:541-555)            *)
SnapshotIsWaiting ==
    \A t \in Task \intersect tmpt : message # None /\ co[t].topic = message

(* What the Lua thread executes: every task on the stack is running, and   *)
(* is there once.                                                          *)
StackIsRunning ==
    \A i \in 1 .. Len(stack) : stack[i].who \in Task =>
        /\ co[stack[i].who] = Running
        /\ \A j \in 1 .. Len(stack) : stack[j].who = stack[i].who => i = j

(* "Callback and arguments together identify a timer" (sys.lua:352): no    *)
(* two C timers run for the same pair.                                     *)
UniqueTimers ==
    \A i, j \in Ids :
        /\ timer[i].phase = "running" /\ timer[j].phase = "running"
        /\ timerPool[i] \in Callback
        /\ timerPool[i] = timerPool[j] /\ para[i] = para[j]
        => i = j

(* Arguments belong to a timer that exists, or to the callback in progress *)
(* that will drop them: no later timer inherits them.  (sys.lua:604-611)   *)
ParaIsOwned ==
    \A id \in Ids : para[id] # None =>
        \/ timerPool[id] \in Callback
        \/ vm = "exit"
        \/ \E i \in 1 .. Len(stack) : stack[i].clears = id

(* sys.run resumes a waiting task only on the message it waits for or on   *)
(* the expiry of the timer of this very wait.  (sys.lua:152-196, 591-598)  *)
NoEarlyWake ==
    [][\A t \in Task : Blocked(t) /\ co'[t].st = "running" =>
          \/ Busy
          \/ co[t].topic # None /\ message = co[t].topic
          \/ co[t].timerid # None /\ timer[co[t].timerid].phase = "expired"]_vars
=============================================================================
