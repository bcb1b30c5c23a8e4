------------------------------ MODULE RpcYield ------------------------------
(***************************************************************************)
(* The RPC call that suspends a Lua coroutine (luat_airlink_rpc.c,         *)
(* luat_airlink_rpc_nb_call_yield).  Three threads share the context of a  *)
(* call: the Lua task makes it and resumes the coroutine, the airlink task *)
(* takes the answer, the timer task reports the time-out.  The context is  *)
(* counted: one reference each of the coroutine, of the slot of the answer *)
(* and of the timer, all released by the Lua task.  The other two threads  *)
(* send it messages over the message bus.                                  *)
(*                                                                         *)
(* The Lua task makes a call in one step: the time-out is seconds, and the *)
(* answer is looked at only by a later message.  A call that fails on its  *)
(* way leaves nothing behind and is not a step.  The messages of a call    *)
(* are kept in a set: there is at most one of each kind, and whichever is  *)
(* put first may be handled first.  A context is used again for the next   *)
(* call when it has been freed, as the heap would do.                      *)
(*                                                                         *)
(* Two paths release one reference more than there is: every               *)
(* luat_rtos_timer_stop returns 0, so that the handler of the answer       *)
(* releases the timer's reference also when the timer has fired and its    *)
(* message is still to be handled; and a coroutine that raises an error    *)
(* has its reference released twice.  Both are steps of the model.  A      *)
(* context that was overdrawn in this way is freed while it can still be   *)
(* reached, and whatever call has its memory afterwards may be hit: it     *)
(* stays in the set overdrawn, and the properties speak of the others.  Of *)
(* the messages to an overdrawn context the set keeps one of each kind.    *)
(***************************************************************************)
EXTENDS Integers, FiniteSets

CONSTANTS
    Call,       \* the contexts of calls
    None,       \* no call
    Slots,      \* slots for answers, 64 in the code
    Lossy,      \* the kinds of messages that may find the bus full
    MayRaise,   \* a coroutine may raise an error once it has the result
    Reuse       \* bound: calls use the memory of overdrawn contexts again

Kind == {"answer", "timeout"}

ASSUME CallAssumption ==
    /\ None \notin Call
    /\ Slots \in Nat
    /\ Lossy \subseteq Kind
    /\ MayRaise \in BOOLEAN /\ Reuse \in BOOLEAN

VARIABLES
    coroutine,  \* "free", "waiting" in the call, or "resumed"
    refcnt,     \* ctx->refcnt
    handled,    \* ctx->handled
    timedOut,   \* ctx->timed_out
    timer,      \* the timer of the call: "off", "armed" or "firing"
    slots,      \* the calls whose answer has a slot
    taken,      \* the call whose slot the airlink task has taken
    checked,    \* the same, once timed_out has been seen to be 0
    bus,        \* the messages of calls on the message bus
    lost,       \* history: references nobody is left to release
    overdrawn   \* history: contexts released once more than referenced

ctx == <<coroutine, refcnt, handled, timedOut, lost, overdrawn>>
vars == <<ctx, timer, slots, taken, checked, bus>>

Message == [kind : Kind, call : Call]
Msg(k, c) == [kind |-> k, call |-> c]

Init ==
    /\ coroutine = [c \in Call |-> "free"]
    /\ refcnt = [c \in Call |-> 0] /\ lost = [c \in Call |-> 0]
    /\ handled = [c \in Call |-> FALSE]
    /\ timedOut = [c \in Call |-> FALSE]
    /\ timer = [c \in Call |-> "off"]
    /\ slots = {} /\ taken = None /\ checked = None
    /\ bus = {} /\ overdrawn = {}

-----------------------------------------------------------------------------
(* mutant: the reference of the timer is forgotten *)
Refs_Two == 2
Refs == 3

(* mutant: one slot too many is given out *)
HasSlot_Over == Cardinality(slots) <= Slots
HasSlot == Cardinality(slots) < Slots

(* The Lua task calls: the slot, the timer, the request are in place and   *)
(* the coroutine yields.                                                   *)
Start(c) ==
    /\ coroutine[c] # "waiting" /\ refcnt[c] <= 0
    /\ c \in overdrawn => Reuse
    /\ HasSlot
    /\ coroutine' = [coroutine EXCEPT ![c] = "waiting"]
    /\ refcnt' = [refcnt EXCEPT ![c] = Refs]
    /\ handled' = [handled EXCEPT ![c] = FALSE]
    /\ timedOut' = [timedOut EXCEPT ![c] = FALSE]
    /\ timer' = [timer EXCEPT ![c] = "armed"]
    /\ slots' = slots \union {c}
    /\ lost' = [lost EXCEPT ![c] = 0]
    /\ UNCHANGED <<taken, checked, bus, overdrawn>>

-----------------------------------------------------------------------------
(* A message is put on the bus, or finds it full; the reference that its   *)
(* handler would have released is then lost.                               *)
Put(k, c) ==
    \/ bus' = bus \union {Msg(k, c)} /\ UNCHANGED lost
    \/ k \in Lossy /\ lost' = [lost EXCEPT ![c] = @ + 1] /\ UNCHANGED bus

(* The airlink task: luat_airlink_cmd_exec_result takes the slot of the    *)
(* answer, if it still has one, and runs rpc_async_exec_yield.             *)
(* mutant: the answer stops the timer here, before it is on the bus *)
TakeAnswer_StopsTimer(c) ==
    /\ taken = None /\ checked = None /\ c \in slots
    /\ slots' = slots \ {c} /\ taken' = c
    /\ timer' = [timer EXCEPT ![c] = "off"]
    /\ UNCHANGED <<ctx, checked, bus>>
TakeAnswer(c) ==
    /\ taken = None /\ checked = None
    /\ c \in slots
    /\ slots' = slots \ {c}
    /\ taken' = c
    /\ UNCHANGED <<ctx, timer, checked, bus>>

Copies(c) == ~timedOut[c]

CopyAnswer ==
    /\ taken # None /\ Copies(taken)
    /\ taken' = None /\ checked' = taken
    /\ UNCHANGED <<ctx, timer, slots, bus>>

DropAnswer ==
    /\ taken # None /\ ~Copies(taken)
    /\ taken' = None
    /\ lost' = [lost EXCEPT ![taken] = @ + 1]
    /\ UNCHANGED <<coroutine, refcnt, handled, timedOut, overdrawn,
                   timer, slots, checked, bus>>

PutAnswer ==
    /\ checked # None
    /\ checked' = None
    /\ Put("answer", checked)
    /\ UNCHANGED <<coroutine, refcnt, handled, timedOut, overdrawn,
                   timer, slots, taken>>

(* The timer task: the timer fires, rpc_yield_timer_cb puts the message.   *)
Fire(c) ==
    /\ timer[c] = "armed"
    /\ timer' = [timer EXCEPT ![c] = "firing"]
    /\ UNCHANGED <<ctx, slots, taken, checked, bus>>

PutTimeout(c) ==
    /\ timer[c] = "firing"
    /\ timer' = [timer EXCEPT ![c] = "off"]
    /\ Put("timeout", c)
    /\ UNCHANGED <<coroutine, refcnt, handled, timedOut, overdrawn,
                   slots, taken, checked>>

-----------------------------------------------------------------------------
(* The handlers of the Lua task.                                           *)

(* n references are released.  The last one frees the context and stops    *)
(* its timer.                                                              *)
StopTimer(c, when) ==
    timer' = [timer EXCEPT ![c] = IF @ = "armed" /\ when THEN "off" ELSE @]
Release(c, n) ==
    /\ refcnt' = [refcnt EXCEPT ![c] = @ - n]
    /\ StopTimer(c, refcnt[c] <= n)

(* mutant: both handlers go on *)
WasHandled_Never(c) == FALSE
WasHandled(c) == handled[c]

(* The other message has been handled: only the reference is released.     *)
LateMessage(k, c) ==
    /\ Msg(k, c) \in bus /\ WasHandled(c)
    /\ bus' = bus \ {Msg(k, c)}
    /\ Release(c, 1)
    /\ UNCHANGED <<coroutine, handled, timedOut, lost, overdrawn, slots, taken, checked>>

(* lua_resume: rpc_yield_cont runs and releases the coroutine's reference. *)
(* When the coroutine then raises an error it is released once more.       *)
ResumeReleases == IF MayRaise THEN {1, 2} ELSE {1}
Resume(c) ==
    /\ coroutine' = [coroutine EXCEPT ![c] = "resumed"]
    /\ handled' = [handled EXCEPT ![c] = TRUE]

Overdraw(c, when) == overdrawn' = IF when THEN overdrawn \union {c} ELSE overdrawn

(* Who has a pointer to the context of a call.                             *)
HeldByCoroutine(c) == coroutine[c] = "waiting"
HeldForAnswer(c) ==
    c \in slots \/ taken = c \/ checked = c \/ Msg("answer", c) \in bus
HeldForTimeout(c) == timer[c] # "off" \/ Msg("timeout", c) \in bus

(* luat_rtos_timer_stop returns 0, whether the timer is armed, has fired   *)
(* or is through: its reference is released.  A time-out that is on its    *)
(* way will release it again; one that was lost with its message is made   *)
(* good.                                                                   *)
(* mutant: the timer's reference is kept *)
StopReleases_Never == 0
StopReleases == 1
StillToCome(c) == HeldForTimeout(c) /\ timer[c] # "armed"

(* rpc_yield_resume_handler                                                *)
HandleAnswer(c) ==
    /\ Msg("answer", c) \in bus /\ ~WasHandled(c)
    /\ bus' = bus \ {Msg("answer", c)}
    /\ Resume(c)
    /\ \E n \in ResumeReleases :
          /\ refcnt' = [refcnt EXCEPT ![c] = @ - (StopReleases + n + 1)]
          /\ Overdraw(c, n > 1 \/ StillToCome(c))
    /\ StopTimer(c, TRUE)
    /\ lost' = [lost EXCEPT ![c] = IF HeldForTimeout(c) THEN @ ELSE @ - 1]
    /\ UNCHANGED <<timedOut, slots, taken, checked>>

(* mutant: a slot that has been taken counts as well *)
UnregReleases_Always(c) == 1
UnregReleases(c) == IF c \in slots THEN 1 ELSE 0

(* rpc_yield_timeout_handler                                               *)
HandleTimeout(c) ==
    /\ Msg("timeout", c) \in bus /\ ~WasHandled(c)
    /\ bus' = bus \ {Msg("timeout", c)}
    /\ slots' = slots \ {c}
    /\ timedOut' = [timedOut EXCEPT ![c] = TRUE]
    /\ Resume(c)
    /\ \E n \in ResumeReleases :
          /\ Release(c, UnregReleases(c) + n + 1)
          /\ Overdraw(c, n > 1)
    /\ UNCHANGED <<lost, taken, checked>>

-----------------------------------------------------------------------------
AirlinkTask == CopyAnswer \/ DropAnswer \/ PutAnswer
TimerTask(c) == Fire(c) \/ PutTimeout(c)
LuaTask(c) ==
    HandleAnswer(c) \/ HandleTimeout(c) \/ \E k \in Kind : LateMessage(k, c)

Next ==
    \/ AirlinkTask
    \/ \E c \in Call : Start(c) \/ TakeAnswer(c) \/ TimerTask(c) \/ LuaTask(c)

(* Timers fire and messages are handled; that an answer comes is not       *)
(* assumed.                                                                *)
Fairness ==
    /\ WF_vars(AirlinkTask)
    /\ \A c \in Call : WF_vars(TimerTask(c)) /\ WF_vars(LuaTask(c))

Spec == Init /\ [][Next]_vars
FairSpec == Spec /\ Fairness

-----------------------------------------------------------------------------
(* Correctness.                                                            *)

(* The type invariant.                                                     *)
TypeOK ==
    /\ coroutine \in [Call -> {"free", "waiting", "resumed"}]
    /\ refcnt \in [Call -> Int] /\ lost \in [Call -> Int]
    /\ handled \in [Call -> BOOLEAN] /\ timedOut \in [Call -> BOOLEAN]
    /\ timer \in [Call -> {"off", "armed", "firing"}]
    /\ slots \in SUBSET Call /\ Cardinality(slots) <= Slots
    /\ taken \in Call \union {None} /\ checked \in Call \union {None}
    /\ bus \in SUBSET Message
    /\ overdrawn \in SUBSET Call

Sound == Call \ overdrawn

Count(b) == IF b THEN 1 ELSE 0

OutlivesUse(c) ==
    /\ refcnt[c] >= 0
    /\ HeldByCoroutine(c) \/ HeldForAnswer(c) \/ HeldForTimeout(c)
         => refcnt[c] > 0

(* Unless it was overdrawn, the context is freed neither while one of the  *)
(* three threads, a message or the coroutine can still reach it, nor       *)
(* twice.                                                                  *)
(* (luat_airlink_rpc.c:130-165, 265, 334)                                  *)
NoUseAfterFree == \A c \in Sound : OutlivesUse(c)

(* What the comment at luat_airlink_rpc.c:265 promises: that the time-out  *)
(* which fires while the answer is handled still finds the context.        *)
NeverOverdrawn == \A c \in Call : OutlivesUse(c)

(* What is left when all are through is exactly what was lost with a       *)
(* message that found the bus full or an answer dropped after the time-out *)
(* (luat_airlink_rpc.c:215-217, 245-247)                                   *)
OnlyLostRefsLeak ==
    \A c \in Sound :
        ~(HeldByCoroutine(c) \/ HeldForAnswer(c) \/ HeldForTimeout(c))
            => refcnt[c] = lost[c]

(* A coroutine is resumed only out of the call it waits in: once, by the   *)
(* answer or by the time-out.                                              *)
(* (luat_airlink_rpc.c:253-257, 324-328)                                   *)
ResumedOnce ==
    [][\A c \in Sound : HandleAnswer(c) \/ HandleTimeout(c)
           => coroutine[c] = "waiting"]_vars

(* Every call ends: an answer that finds the bus full, or that comes too   *)
(* late, leaves the coroutine to the time-out.                             *)
(* (luat_airlink_rpc.c:246)                                                *)
CallReturns ==
    \A c \in Call :
        c \in Sound /\ coroutine[c] = "waiting" ~> coroutine[c] # "waiting"
=============================================================================
