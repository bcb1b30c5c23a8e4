---------------------------- MODULE TaskMsgProofs ---------------------------
(* Why waitMsg loses neither wake-ups nor messages, and why a wait has the *)
(* timer it asked for and no other.                                        *)
EXTENDS TaskMsg, TLAPS

(* Where the subscription may be: waitMsg has subscribed only in its       *)
(* second loop, and only a callback that waits leaves that loop asleep.    *)
LoopInv ==
    /\ pc \in {"script", "drain", "sleep"} => ~inLoop
    /\ pc = "yielded" => inLoop
    /\ pc = "cbWait" => CbWaits

(* Once the time is up nothing else runs before the task does: the queue   *)
(* is empty, the wake-up is the only thing published, sys.run has the      *)
(* thread.                                                                 *)
TimeUpInv ==
    To /\ InWait =>
        msgQueue = <<>> /\ named = 1 /\ others = 0 /\ outer = "loop" /\ pc = "yielded"

(* The type invariant in two parts: the Boolean variables, and the others. *)
BoolOK == listed \in BOOLEAN /\ To \in BOOLEAN /\ inLoop \in BOOLEAN /\ timed \in BOOLEAN

DataOK ==
    /\ msgQueue \in Seq(Msg)
    /\ timer \in {"off", "running", "expired", "dead"}
    /\ named \in Nat /\ others \in Nat
    /\ pc \in Places
    /\ target \in Msg \union {Nil}
    /\ result \in Msg \union {None}
    /\ outer \in {"loop", "other"} /\ vm \in {"up", "exit"}

Inv == DataOK /\ LoopInv /\ QueuedIsNotified /\ TimeUpInv

LEMMA InitInv == Init => Inv
<1> SUFFICES ASSUME Init PROVE Inv
  OBVIOUS
<1>1. DataOK
  BY DEF Init, DataOK, Places
<1>2. LoopInv
  BY DEF Init, LoopInv
<1>3. QueuedIsNotified
  BY DEF Init, QueuedIsNotified, InWait
<1>4. TimeUpInv
  BY DEF Init, TimeUpInv, InWait
<1> QED BY <1>1, <1>2, <1>3, <1>4 DEF Inv

LEMMA InitBool == Init => BoolOK
BY Zenon DEF Init, BoolOK

LEMMA NextBool == BoolOK /\ [Next]_vars => BoolOK'
<1> SUFFICES ASSUME BoolOK, [Next]_vars PROVE BoolOK'
  OBVIOUS
<1>1. CASE UNCHANGED <<listed, To, inLoop, timed>>
  BY Zenon, <1>1 DEF BoolOK
<1>2. CASE CleanMsg \/ PublishOther \/ CbWait \/ Sleep \/ Expire \/ \E m \in Msg : SendMsg(m)
  BY <1>1, <1>2 DEF CleanMsg, PublishOther, CbWait, Sleep, Expire, SendMsg, entry, call
<1>3. CASE CbReturn \/ TaskEnd \/ OtherEnds \/ DrainWanted \/ DrainUnwanted \/ WaitEnds \/ OtherStarts
  BY <1>1, <1>3
     DEF CbReturn, TaskEnd, OtherEnds, DrainWanted, DrainUnwanted, WaitEnds, OtherStarts, entry, call
<1>4. CASE TaskInitEx \/ TaskDel \/ StartWait \/ Reboot
  BY Zenon, <1>4 DEF TaskInitEx, TaskDel, StartWait, Reboot, call, BoolOK
<1>5. CASE \E tg \in Msg \union {Nil}, ms \in BOOLEAN : WaitMsg(tg, ms)
  BY Zenon, <1>5 DEF WaitMsg, entry, BoolOK
<1>6. CASE DispatchName
  <2>1. UNCHANGED <<listed, timed>>
    BY <1>6 DEF DispatchName
  <2>2. UNCHANGED <<To, inLoop>> \/ (To' = FALSE /\ inLoop' = FALSE)
    BY Zenon, <1>6 DEF DispatchName, Turn, Finish
  <2> QED BY Zenon, <2>1, <2>2 DEF BoolOK
<1>7. CASE WaitTo
  <2>1. UNCHANGED <<listed, inLoop, timed>> /\ (To' = TRUE \/ To' = To)
    BY Zenon, <1>7 DEF WaitTo, call
  <2> QED BY Zenon, <2>1 DEF BoolOK
<1>8. CASE UNCHANGED vars
  BY <1>1, <1>8 DEF vars, entry, call
<1> QED
  BY <1>2, <1>3, <1>4, <1>5, <1>6, <1>7, <1>8 DEF Next, Script, Return, Inside, Loop

LEMMA TailType ==
    ASSUME DataOK, Take
    PROVE  /\ msgQueue' \in Seq(Msg)
           /\ Len(msgQueue') = Len(msgQueue) - 1
           /\ Head(msgQueue) \in Msg
           /\ Len(msgQueue) \in Nat \ {0}
BY DEF DataOK, Take

(* The actions that leave the task's queue and the publications alone.     *)
LEMMA NextInv ==
    ASSUME ~CbWaits, Inv, [Next]_vars
    PROVE  Inv'
<1> USE DEF Inv
<1>0. DataOK /\ pc # "cbWait"
  BY MsgAssumption DEF LoopInv
<1>1. ASSUME NEW m \in Msg, SendMsg(m) PROVE Inv'
  <2>1. pc # "yielded" \/ outer = "other"
    BY <1>1 DEF SendMsg, ScriptRuns, OtherRuns, TaskRuns
  <2>2. Len(msgQueue') = Len(msgQueue) + 1 /\ msgQueue' \in Seq(Msg) /\ Len(msgQueue) \in Nat
    BY <1>1 DEF SendMsg, DataOK
  <2>3. DataOK'
    BY <1>1, <2>2 DEF SendMsg, DataOK, Notified, call
  <2>4. QueuedIsNotified'
    BY <1>1, <2>2 DEF SendMsg, QueuedIsNotified, InWait, Notified, call, DataOK
  <2>5. TimeUpInv' /\ LoopInv'
    BY <1>1, <2>1 DEF SendMsg, TimeUpInv, LoopInv, InWait, call
  <2> QED BY <2>3, <2>4, <2>5
<1>2. CASE CleanMsg
  <2>1. DataOK' /\ LoopInv' /\ TimeUpInv'
    BY <1>2 DEF CleanMsg, published, call, DataOK, LoopInv, TimeUpInv, InWait
  <2>2. QueuedIsNotified'
    BY <1>2 DEF CleanMsg, published, call, DataOK, QueuedIsNotified, InWait
  <2> QED BY <2>1, <2>2
<1>3. CASE PublishOther
  <2>1. pc # "yielded" \/ outer = "other"
    BY <1>3 DEF PublishOther, ScriptRuns, OtherRuns, TaskRuns
  <2> QED
    BY <1>3, <2>1
       DEF PublishOther, entry, call, DataOK, LoopInv, QueuedIsNotified, TimeUpInv, InWait
<1>4. CASE TaskInitEx \/ TaskDel
  <2>1. pc' \in {"script", "dead"} /\ msgQueue' = <<>> /\ (pc' = "script" => ~inLoop')
    BY <1>4 DEF TaskInitEx, TaskDel, call, LoopInv
  <2>2. LoopInv' /\ QueuedIsNotified' /\ TimeUpInv'
    BY <2>1 DEF LoopInv, QueuedIsNotified, TimeUpInv, InWait
  <2>3. DataOK'
    BY <1>4, <2>1 DEF TaskInitEx, TaskDel, published, call, DataOK, Places
  <2> QED BY <2>2, <2>3
<1>5. ASSUME NEW tg \in Msg \union {Nil}, NEW ms \in BOOLEAN, WaitMsg(tg, ms) PROVE Inv'
  BY <1>5 DEF WaitMsg, entry, published, DataOK, LoopInv, QueuedIsNotified, TimeUpInv, InWait, Places
<1>6. CASE CbWait \/ Sleep
  BY <1>6
     DEF CbWait, Sleep, entry, published, call, DataOK, LoopInv, QueuedIsNotified, TimeUpInv,
         InWait, Places
<1>7. CASE CbReturn \/ TaskEnd \/ OtherEnds
  BY <1>7
     DEF CbReturn, TaskEnd, OtherEnds, OtherRuns, TaskRuns, entry, published, call, DataOK,
         LoopInv, QueuedIsNotified, TimeUpInv, InWait, Places
<1>8. CASE DrainWanted \/ DrainUnwanted
  BY <1>8, TailType
     DEF DrainWanted, DrainUnwanted, published, call, DataOK, LoopInv, QueuedIsNotified,
         TimeUpInv, InWait, Places
<1>9. CASE StartWait
  BY <1>9
     DEF StartWait, Rearmed, published, DataOK, LoopInv, QueuedIsNotified, TimeUpInv, InWait, Places
<1>10. CASE DispatchName
  <2>1. named' = named - 1 /\ named > 0 /\ UNCHANGED <<others, outer, vm, listed, target, timed>>
    BY <1>10 DEF DispatchName, SomePublished
  <2>2. ASSUME pc = "yielded", NEW m \in Msg \union {None}, Finish(m),
               msgQueue' \in Seq(Msg)
        PROVE  Inv'
    BY <2>1, <2>2
       DEF Finish, FinishTimer, DataOK, LoopInv, QueuedIsNotified, TimeUpInv, InWait, Places
  <2>3. CASE pc = "yielded" /\ Take /\ Wanted(Head(msgQueue)) /\ Finish(Head(msgQueue))
    BY <2>2, <2>3, TailType
  <2>4. CASE /\ pc = "yielded" /\ Take /\ pc' \in {"cb", "yielded"}
             /\ UNCHANGED <<To, timer, inLoop, result>>
    <3>1. To => ~InWait
      BY <2>4 DEF TimeUpInv, Take
    <3> QED
      BY <2>1, <2>4, <3>1, TailType
         DEF DataOK, LoopInv, QueuedIsNotified, TimeUpInv, InWait, Places
  <2>5. CASE pc = "yielded" /\ msgQueue = <<>> /\ Finish(None) /\ UNCHANGED msgQueue
    BY <2>2, <2>5 DEF DataOK
  <2>6. CASE /\ pc = "yielded" /\ msgQueue = <<>> /\ ~To
             /\ UNCHANGED <<msgQueue, To, timer, pc, inLoop, result>>
    BY <2>1, <2>6 DEF DataOK, LoopInv, QueuedIsNotified, TimeUpInv, InWait, Places
  <2>7. CASE ~InWait /\ UNCHANGED <<msgQueue, To, timer, pc, inLoop, result>>
    BY <2>1, <2>7 DEF DataOK, LoopInv, QueuedIsNotified, TimeUpInv, InWait, Places
  <2>8. \/ pc = "yielded" /\ Turn
        \/ ~InWait /\ UNCHANGED <<msgQueue, To, timer, pc, inLoop, result>>
    <3>1. \/ pc = "yielded" /\ Turn
          \/ pc = "cbWait" /\ inLoop /\ pc' = "cb" /\ UNCHANGED <<msgQueue, To, timer, inLoop, result>>
          \/ ~InWait /\ UNCHANGED <<msgQueue, To, timer, pc, inLoop, result>>
      BY Zenon, <1>10 DEF DispatchName
    <3>2. pc # "cbWait"
      BY <1>0
    <3> QED BY Zenon, <3>1, <3>2
  <2> QED BY <2>3, <2>4, <2>5, <2>6, <2>7, <2>8 DEF Turn
<1>11. CASE WaitEnds
  <2>1. pc = "sleep" /\ pc' = "script"
    BY <1>0, <1>11 DEF WaitEnds
  <2>2. UNCHANGED <<msgQueue, timer, named, target, result, outer, vm, others>>
    BY <1>11 DEF WaitEnds, entry, published, call
  <2>3. DataOK'
    BY <2>1, <2>2 DEF DataOK, Places
  <2>4. ~inLoop'
    BY <1>0, <1>11, <2>1 DEF WaitEnds, call, LoopInv
  <2> QED BY <2>1, <2>3, <2>4 DEF LoopInv, QueuedIsNotified, TimeUpInv, InWait
<1>12. CASE Expire
  BY <1>12
     DEF Expire, entry, published, call, DataOK, LoopInv, QueuedIsNotified, TimeUpInv, InWait
<1>13. CASE WaitTo
  <2>1. named = 0 /\ others = 0 /\ outer = "loop" /\ pc \notin {"script", "drain", "cb"}
    BY <1>13 DEF WaitTo, Receiving, LoopRuns, TaskRuns
  <2>2. InWait => pc = "yielded" /\ Len(msgQueue) <= 0
    BY <1>0, <2>1 DEF InWait, QueuedIsNotified
  <2>3. InWait => msgQueue = <<>>
    BY <2>2 DEF DataOK
  <2> QED
    BY <1>13, <2>1, <2>2, <2>3
       DEF WaitTo, call, DataOK, LoopInv, QueuedIsNotified, TimeUpInv, InWait
<1>14. CASE OtherStarts
  <2>1. InWait /\ To => FALSE
    BY <1>14 DEF OtherStarts, TimeUpInv
  <2> QED
    BY <1>14, <2>1
       DEF OtherStarts, entry, call, DataOK, LoopInv, QueuedIsNotified, TimeUpInv, InWait
<1>15. CASE Reboot
  BY <1>15
     DEF Reboot, DataOK, LoopInv, QueuedIsNotified, TimeUpInv, InWait, Places
<1>16. CASE UNCHANGED vars
  BY <1>16
     DEF vars, entry, published, call, DataOK, LoopInv, QueuedIsNotified, TimeUpInv, InWait
<1> QED
  BY <1>1, <1>2, <1>3, <1>4, <1>5, <1>6, <1>7, <1>8, <1>9, <1>10, <1>11, <1>12,
     <1>13, <1>14, <1>15, <1>16
     DEF Next, Script, Return, Inside, Loop

(* A task that waits for a message is notified of every message in its     *)
(* queue, and acts upon the time-out only when there is none: whatever     *)
(* runs between, however many messages there are, and even if tasks fail,  *)
(* as long as the callback for unwanted messages does not wait itself.     *)
THEOREM NoLostWakeUp ==
    ASSUME ~CbWaits PROVE Spec => [](QueuedIsNotified /\ TimeUpOnEmpty)
<1>1. Inv => QueuedIsNotified /\ TimeUpOnEmpty
  BY DEF Inv, TimeUpInv, TimeUpOnEmpty
<1>2. Inv /\ [Next]_vars => Inv'
  BY NextInv
<1> QED BY <1>1, <1>2, InitInv, PTL DEF Spec

(* A message that waitMsg takes and wants is what it returns.              *)
THEOREM NoLostMessage ==
    ASSUME ~CbWaits PROVE Spec => WantedIsReturned
<1> DEFINE Returned ==
        vm = "up" /\ msgQueue # <<>> /\ msgQueue' = Tail(msgQueue)
            /\ named' = named - 1 /\ Wanted(Head(msgQueue)) =>
          result' = Head(msgQueue)
<1>1. Inv /\ [Next]_vars => Inv'
  BY NextInv
<1>2. ASSUME Inv, [Next]_vars PROVE [Returned]_vars
  <2> SUFFICES ASSUME vm = "up", msgQueue # <<>>, msgQueue' = Tail(msgQueue), named' = named - 1,
                      Wanted(Head(msgQueue)), Next
               PROVE  result' = Head(msgQueue)
    BY <1>2
  <2>1. named' # named /\ msgQueue' # msgQueue
    BY <1>2 DEF Inv, DataOK
  <2>2. named' # named + 1
    BY <1>2 DEF Inv, DataOK
  <2>3. CASE DispatchName
    <3>1. pc = "yielded" /\ Turn
      BY <1>2, <2>1, <2>3 DEF DispatchName, Inv, LoopInv
    <3>2. Finish(Head(msgQueue))
      BY <2>1, <3>1 DEF Turn
    <3>3. ~To
      BY <1>2, <3>1 DEF Inv, LoopInv, TimeUpInv, InWait
    <3> QED BY Zenon, <3>2, <3>3 DEF Finish
  <2>4. CASE Reboot
    BY <2>4 DEF Reboot
  <2>5. CASE named' = named
    BY <2>1, <2>5
  <2>6. CASE \E m \in Msg : SendMsg(m)
    BY <2>2, <2>6 DEF SendMsg, Notified
  <2>7. CASE WaitTo
    BY <2>1, <2>2, <2>7 DEF WaitTo
  <2>8. DispatchName \/ Reboot \/ named' = named \/ WaitTo \/ \E m \in Msg : SendMsg(m)
    BY DEF Next, Script, Return, Inside, Loop, CleanMsg, PublishOther, TaskInitEx, TaskDel,
           WaitMsg, CbWait, Sleep, CbReturn, TaskEnd, OtherEnds, DrainWanted, DrainUnwanted,
           StartWait, WaitEnds, OtherStarts, Expire, published
  <2> QED BY <2>3, <2>4, <2>5, <2>6, <2>7, <2>8
<1> QED BY <1>1, <1>2, InitInv, PTL DEF Spec, WantedIsReturned
-----------------------------------------------------------------------------
(* The timers, for any callback and any failure of the task.               *)

LEMMA NextData == DataOK /\ [Next]_vars => DataOK'
<1> SUFFICES ASSUME DataOK, [Next]_vars PROVE DataOK'
  OBVIOUS
<1>1. CASE CleanMsg \/ PublishOther \/ TaskInitEx \/ TaskDel \/ CbWait \/ Sleep
  <2>1. CASE CleanMsg BY <2>1 DEF DataOK, CleanMsg, call, published
  <2>2. CASE PublishOther BY <2>2 DEF DataOK, PublishOther, entry, call
  <2>3. CASE TaskInitEx BY <2>3 DEF DataOK, Places, TaskInitEx, published
  <2>4. CASE TaskDel BY <2>4 DEF DataOK, TaskDel, published, call
  <2>5. CASE CbWait \/ Sleep BY <2>5 DEF DataOK, Places, CbWait, Sleep, entry, call, published
  <2> QED BY <1>1, <2>1, <2>2, <2>3, <2>4, <2>5
<1>2. ASSUME NEW m \in Msg, SendMsg(m) PROVE DataOK'
  BY <1>2 DEF DataOK, SendMsg, Notified, call
<1>3. ASSUME NEW tg \in Msg \union {Nil}, NEW ms \in BOOLEAN, WaitMsg(tg, ms) PROVE DataOK'
  BY <1>3 DEF DataOK, Places, WaitMsg, entry, published
<1>4. CASE CbReturn \/ TaskEnd \/ OtherEnds \/ WaitEnds \/ OtherStarts \/ Expire
  BY <1>4
     DEF DataOK, Places, CbReturn, TaskEnd, OtherEnds, WaitEnds, OtherStarts, Expire, entry, call,
         published
<1>5. CASE DrainWanted \/ DrainUnwanted
  BY <1>5, TailType DEF DataOK, Places, DrainWanted, DrainUnwanted, published, call
<1>6. CASE StartWait \/ WaitTo \/ Reboot
  <2>1. CASE StartWait BY <2>1 DEF DataOK, Places, StartWait, Rearmed, published
  <2>2. CASE WaitTo BY <2>2 DEF DataOK, WaitTo, call
  <2>3. CASE Reboot BY <2>3 DEF DataOK, Places, Reboot
  <2> QED BY <1>6, <2>1, <2>2, <2>3
<1>7. CASE DispatchName
  <2>1. named' = named - 1 /\ named > 0 /\ UNCHANGED <<others, outer, vm, target>>
    BY <1>7 DEF DispatchName, SomePublished
  <2>2. CASE pc = "yielded" /\ Turn
    BY <2>1, <2>2, TailType DEF DataOK, Places, Turn, Finish, FinishTimer
  <2>3. CASE UNCHANGED <<msgQueue, timer, result>> /\ (pc' = pc \/ pc' = "cb")
    BY <2>1, <2>3 DEF DataOK, Places
  <2> QED BY <1>7, <2>2, <2>3 DEF DispatchName
<1>8. CASE UNCHANGED vars
  BY <1>8 DEF DataOK, vars, entry, published, call
<1> QED
  BY <1>1, <1>2, <1>3, <1>4, <1>5, <1>6, <1>7, <1>8 DEF Next, Script, Return, Inside, Loop

(* The state of the task and of its waits keeps its type, whatever waits   *)
(* or fails (sys.lua:741-888).                                             *)
THEOREM TypeCorrect == Spec => []TypeOK
<1>1. DataOK /\ BoolOK => TypeOK BY Zenon DEF DataOK, BoolOK, TypeOK
<1>2. Init => DataOK BY InitInv DEF Inv
<1> QED BY <1>1, <1>2, InitBool, NextBool, NextData, PTL DEF Spec

(* Where the task is listed and subscribed; a timed wait has its timer,    *)
(* dead or alive, or its time is up.                                       *)
WaitInv ==
    /\ pc \in {"script", "drain", "sleep"} => ~inLoop
    /\ pc = "yielded" => inLoop
    /\ pc \in {"drain", "cb", "cbWait", "yielded"} => listed
    /\ UntimedWaitIsOpen
    /\ InWait /\ timed => timer # "off" \/ To

(* Only a task that fails leaves its timer behind.                         *)
OwnTimer == ~TaskFails => TimerIsOfThisWait

TimerInv == DataOK /\ WaitInv /\ OwnTimer

LEMMA InitTimer == Init => TimerInv
<1>1. Init => WaitInv /\ OwnTimer
  BY DEF Init, WaitInv, OwnTimer, UntimedWaitIsOpen, TimerIsOfThisWait, InWait
<1> QED BY <1>1, InitInv DEF Inv, TimerInv

LEMMA NextTimer == TimerInv /\ [Next]_vars => TimerInv'
<1> SUFFICES ASSUME TimerInv, [Next]_vars PROVE WaitInv' /\ OwnTimer'
  BY NextData DEF TimerInv
<1> USE DEF TimerInv, WaitInv, OwnTimer, UntimedWaitIsOpen, TimerIsOfThisWait, InWait
<1>1. CASE UNCHANGED <<listed, To, timer, pc, inLoop, timed>>
  BY <1>1
<1>2. CASE CleanMsg \/ PublishOther \/ OtherEnds \/ OtherStarts \/ \E m \in Msg : SendMsg(m)
  BY <1>1, <1>2 DEF CleanMsg, PublishOther, OtherEnds, OtherStarts, SendMsg, entry, call
<1>3. CASE TaskInitEx \/ TaskDel
  BY <1>3 DEF TaskInitEx, TaskDel, call, published
<1>4. ASSUME NEW tg \in Msg \union {Nil}, NEW ms \in BOOLEAN, WaitMsg(tg, ms)
      PROVE  WaitInv' /\ OwnTimer'
  BY <1>4 DEF WaitMsg, entry
<1>5. CASE CbWait \/ Sleep \/ CbReturn \/ TaskEnd \/ WaitEnds
  BY <1>5 DEF CbWait, Sleep, CbReturn, TaskEnd, WaitEnds, entry, call
<1>6. CASE DrainWanted \/ DrainUnwanted
  BY <1>6 DEF DrainWanted, DrainUnwanted, call
<1>7. CASE StartWait
  BY <1>7 DEF StartWait, Rearmed
<1>8. CASE DispatchName
  <2>1. UNCHANGED <<listed, timed>>
    BY <1>8 DEF DispatchName
  <2>2. CASE pc = "yielded" /\ Turn
    <3>1. CASE To' = FALSE /\ timer' = "off" /\ pc' = "script" /\ inLoop' = FALSE
      BY <2>1, <3>1
    <3>2. CASE pc' \in {"cb", "yielded"} /\ UNCHANGED <<To, timer, inLoop>>
      BY <2>1, <2>2, <3>2
    <3>3. \/ To' = FALSE /\ timer' = "off" /\ pc' = "script" /\ inLoop' = FALSE
          \/ pc' \in {"cb", "yielded"} /\ UNCHANGED <<To, timer, inLoop>>
      <4>1. ASSUME NEW m, Finish(m)
            PROVE  To' = FALSE /\ timer' = "off" /\ pc' = "script" /\ inLoop' = FALSE
        BY <4>1, Zenon DEF Finish, FinishTimer
      <4>2. ASSUME pc' = IF HasCb THEN "cb" ELSE "yielded" PROVE pc' \in {"cb", "yielded"}
        BY <4>2
      <4>3. ASSUME UNCHANGED pc PROVE pc' \in {"cb", "yielded"}
        BY <2>2, <4>3
      <4> QED BY <2>2, <4>1, <4>2, <4>3, Zenon DEF Turn
    <3> QED BY <3>1, <3>2, <3>3
  <2>3. CASE pc = "cbWait" /\ inLoop /\ pc' = "cb" /\ UNCHANGED <<To, timer, inLoop>>
    BY <2>1, <2>3
  <2>4. CASE UNCHANGED <<To, timer, pc, inLoop>>
    BY <2>1, <2>4
  <2> QED BY <1>8, <2>2, <2>3, <2>4 DEF DispatchName
<1>9. CASE Expire
  BY <1>9 DEF Expire, entry, call
<1>10. CASE WaitTo
  BY <1>10 DEF WaitTo, call
<1>11. CASE Reboot
  BY <1>11 DEF Reboot
<1>12. CASE UNCHANGED vars
  BY <1>1, <1>12 DEF vars, entry, call
<1> QED
  BY <1>2, <1>3, <1>4, <1>5, <1>6, <1>7, <1>8, <1>9, <1>10, <1>11, <1>12
     DEF Next, Script, Return, Inside, Loop

(* A wait without limit is never ended by a timer, whatever its callback   *)
(* waits for and however often the task fails in a wait that had one       *)
(* (sys.lua:804-814).                                                      *)
THEOREM UntimedStaysOpen == Spec => []UntimedWaitIsOpen
<1>1. TimerInv => UntimedWaitIsOpen BY DEF TimerInv, WaitInv
<1> QED BY <1>1, InitTimer, NextTimer, PTL DEF Spec

(* As long as the task does not fail, a timer and a time-out are of the    *)
(* wait the task is in (sys.lua:810-814, 858-865).                         *)
THEOREM TimerOfThisWait ==
    ASSUME ~TaskFails PROVE Spec => []TimerIsOfThisWait
<1>1. TimerInv => TimerIsOfThisWait BY DEF TimerInv, OwnTimer
<1> QED BY <1>1, InitTimer, NextTimer, PTL DEF Spec

(* A wait with a limit loses it only when the start of its timer is        *)
(* refused or its expiry dropped: otherwise the timer runs, its message is *)
(* on the bus, or the wake-up it publishes is to come, as long as the      *)
(* callback does not wait itself                                           *)
(* (sys.lua:760-764, 809-813, luat_timer_freertos.c:44).                   *)
THEOREM TimedStaysArmed ==
    ASSUME ~CbWaits PROVE Spec => []TimedWaitIsArmed
<1>1. TimerInv /\ Inv => TimedWaitIsArmed
  BY DEF TimerInv, DataOK, WaitInv, Inv, TimeUpInv, TimedWaitIsArmed
<1>2. Inv /\ [Next]_vars => Inv'
  BY NextInv
<1> QED BY <1>1, <1>2, InitInv, InitTimer, NextTimer, PTL DEF Spec
=============================================================================
