--------------------------- MODULE LuaSchedProofs ---------------------------
EXTENDS LuaSched, TLAPS

TypeInv == TypeOK /\ IdsPartitioned

LEMMA ClearType ==
    ASSUME NEW D, NEW R, NEW f \in [D -> R], NEW S, NEW v \in R
    PROVE  /\ Clear(f, S, v) \in [D -> R]
           /\ \A x \in D : Clear(f, S, v)[x] = IF x \in S THEN v ELSE f[x]
BY DEF Clear

TimerRecord == [phase : Phases, repeat : Int, loop : BOOLEAN]

LEMMA TimerStepType ==
    ASSUME NEW tm \in TimerRecord
    PROVE  Expired(tm) \in TimerRecord /\ Handled(tm) \in TimerRecord
<1>1. tm.phase \in Phases /\ tm.repeat \in Int /\ tm.loop \in BOOLEAN
  BY DEF TimerRecord
<1>2. Expired(tm) \in TimerRecord
  BY <1>1 DEF Expired, Phases, TimerRecord
<1>3. CASE tm.repeat = 0
  <2>1. Handled(tm) = Idle
    BY <1>3 DEF Handled
  <2>2. Idle \in TimerRecord
    BY DEF Idle, Phases, TimerRecord
  <2> QED BY <1>2, <2>1, <2>2
<1>4. CASE tm.repeat # 0
  <2>1. Handled(tm) = [tm EXCEPT !.repeat = IF tm.repeat > 0 THEN tm.repeat - 1 ELSE tm.repeat]
    BY <1>4 DEF Handled
  <2>2. (IF tm.repeat > 0 THEN tm.repeat - 1 ELSE tm.repeat) \in Int
    BY <1>1
  <2>3. ASSUME NEW r \in Int
        PROVE  [tm EXCEPT !.repeat = r] \in TimerRecord
    BY Zenon, <1>1 DEF TimerRecord
  <2> QED BY <1>2, <2>1, <2>2, <2>3
<1> QED BY <1>3, <1>4

LEMMA InitTypeInv == Init => TypeInv
BY BoundsAssumption, NamesAssumption
   DEF Init, TypeInv, TypeOK, IdsPartitioned, Idle, Dead, Frame, Ids, TaskIds, MsgIds, Phases

LEMMA AdvStartType ==
    ASSUME TypeInv, NEW f \in Callback, NEW args \in Arg \union {None},
           NEW repeat \in Int, AdvStart(f, args, repeat)
    PROVE  /\ msgId' \in TaskIdMax .. MsgIdMax
           /\ timerPool' \in [Ids -> Task \union Callback \union {None}]
           /\ para' \in [Ids -> Arg \union {None}]
           /\ timer' \in [Ids -> [phase : Phases, repeat : Int, loop : BOOLEAN]]
           /\ IdsPartitioned'
<1>1. PICK S \in StopChoices(f, args), id \in MsgIds :
        /\ NextMsgId(id, Clear(timerPool, S, None))
        /\ msgId' = id
        /\ timerPool' = [Clear(timerPool, S, None) EXCEPT ![id] = f]
        /\ \E ok \in Outcomes(Clear(timer, S, Idle)) :
             /\ timer' = IF ok THEN [Clear(timer, S, Idle) EXCEPT ![id] = Started(repeat)]
                               ELSE Clear(timer, S, Idle)
             /\ para' = IF ok /\ args # None
                        THEN [Clear(para, S, None) EXCEPT ![id] = args]
                        ELSE Clear(para, S, None)
  BY Zenon DEF AdvStart
<1>2. msgId' \in TaskIdMax .. MsgIdMax
  BY <1>1, BoundsAssumption DEF MsgIds
<1>3. Idle \in [phase : Phases, repeat : Int, loop : BOOLEAN]
      /\ Started(repeat) \in [phase : Phases, repeat : Int, loop : BOOLEAN]
  BY DEF Idle, Started, Phases
<1>4. /\ timerPool \in [Ids -> Task \union Callback \union {None}]
      /\ para \in [Ids -> Arg \union {None}]
      /\ timer \in [Ids -> [phase : Phases, repeat : Int, loop : BOOLEAN]]
  BY DEF TypeInv, TypeOK
<1>5. timer' \in [Ids -> [phase : Phases, repeat : Int, loop : BOOLEAN]]
  <2>1. Clear(timer, S, Idle) \in [Ids -> [phase : Phases, repeat : Int, loop : BOOLEAN]]
    BY <1>3, <1>4 DEF Clear
  <2> QED BY <1>1, <1>3, <2>1
<1>6. para' \in [Ids -> Arg \union {None}]
  <2>1. Clear(para, S, None) \in [Ids -> Arg \union {None}]
    BY <1>4 DEF Clear
  <2> QED BY <1>1, <2>1
<1>7. /\ timerPool' \in [Ids -> Task \union Callback \union {None}]
      /\ \A i \in Ids : timerPool'[i] = IF i = id THEN f ELSE IF i \in S THEN None ELSE timerPool[i]
  BY <1>1, <1>4 DEF Clear
<1>8. IdsPartitioned'
  BY <1>7, BoundsAssumption DEF TypeInv, IdsPartitioned, Ids, TaskIds, MsgIds
<1> QED BY <1>2, <1>5, <1>6, <1>7, <1>8

LEMMA WrapperType ==
    ASSUME TypeInv, Wrapper
    PROVE  /\ msgId' \in TaskIdMax .. MsgIdMax
           /\ timerPool' \in [Ids -> Task \union Callback \union {None}]
           /\ para' \in [Ids -> Arg \union {None}]
           /\ timer' \in [Ids -> [phase : Phases, repeat : Int, loop : BOOLEAN]]
           /\ vm' \in {"up", "failed", "exit"}
           /\ IdsPartitioned'
<1>1. vm' \in {"up", "failed", "exit"}
  BY DEF Wrapper
<1>2. CASE ErrPolicy = "rollback"
  <2>1. PICK trace \in Arg : AdvStart(AssertFn, trace, 0)
    BY <1>2 DEF Wrapper
  <2> QED BY <1>1, <2>1, AdvStartType DEF Callback
<1>3. CASE ErrPolicy # "rollback"
  BY <1>1, <1>3 DEF Wrapper, TypeInv, TypeOK, IdsPartitioned
<1> QED BY <1>2, <1>3

LEMMA ResumeType ==
    ASSUME TypeInv, NEW t \in Task, ResumeWith(t)
    PROVE  /\ timerPool' \in [Ids -> Task \union Callback \union {None}]
           /\ timer' \in [Ids -> [phase : Phases, repeat : Int, loop : BOOLEAN]]
           /\ subscribers' \in [Topic -> SUBSET (Task \union Fn)]
           /\ co' \in [Task -> [st : {"dead", "running", "waiting"},
                               timerid : TaskIds \union {None},
                               topic : Topic \union {None}]]
           /\ stack' \in Seq([who : Frame, clears : MsgIds \union {None}])
           /\ IdsPartitioned'
<1> USE DEF TypeInv
<1>1. Idle \in [phase : Phases, repeat : Int, loop : BOOLEAN]
  BY DEF Idle, Phases
<1>2. timer' \in [Ids -> [phase : Phases, repeat : Int, loop : BOOLEAN]]
  BY <1>1 DEF ResumeWith, Clear, TypeOK
<1>3. /\ timerPool' \in [Ids -> Task \union Callback \union {None}]
      /\ \A i \in Ids : timerPool'[i] \in {None, timerPool[i]}
  BY DEF ResumeWith, Clear, TypeOK
<1>4. IdsPartitioned'
  BY <1>3, BoundsAssumption DEF IdsPartitioned, Ids, TaskIds, MsgIds
<1>5. subscribers' \in [Topic -> SUBSET (Task \union Fn)]
  BY DEF ResumeWith, Unsubscribed, TypeOK
<1>6. stack' \in Seq([who : Frame, clears : MsgIds \union {None}])
  BY DEF ResumeWith, Call, Frame, TypeOK
<1>7. co' \in [Task -> [st : {"dead", "running", "waiting"},
                       timerid : TaskIds \union {None},
                       topic : Topic \union {None}]]
  BY DEF ResumeWith, Running, TypeOK
<1> QED BY <1>2, <1>3, <1>4, <1>5, <1>6, <1>7

LEMMA NextTypeInv == TypeInv /\ [Next]_vars => TypeInv'
<1> SUFFICES ASSUME TypeInv, [Next]_vars PROVE TypeInv'
  OBVIOUS
<1> USE DEF TypeInv
<1>1. ASSUME NEW f \in Fn, NEW a \in Arg \union {None}, NEW r \in Repeats,
             TimerAdvStart(f, a, r)
      PROVE  TypeInv'
  <2>1. f \in Callback /\ r \in Int
    BY BoundsAssumption DEF Callback
  <2>2. /\ msgId' \in TaskIdMax .. MsgIdMax
        /\ timerPool' \in [Ids -> Task \union Callback \union {None}]
        /\ para' \in [Ids -> Arg \union {None}]
        /\ timer' \in [Ids -> [phase : Phases, repeat : Int, loop : BOOLEAN]]
        /\ IdsPartitioned'
    BY <1>1, <2>1, AdvStartType DEF TimerAdvStart
  <2> QED BY <1>1, <2>2 DEF TimerAdvStart, TypeOK
<1>2. ASSUME NEW S, StopTimers(S),
             UNCHANGED <<taskTimerId, msgId, bus, subscribers, messageQueue, tmpt,
                         message, stack, co, vm>>
      PROVE  TypeInv'
  <2>1. Idle \in [phase : Phases, repeat : Int, loop : BOOLEAN]
    BY DEF Idle, Phases
  <2>2. timer' \in [Ids -> [phase : Phases, repeat : Int, loop : BOOLEAN]]
    BY <1>2, <2>1 DEF StopTimers, Clear, TypeOK
  <2>3. /\ timerPool' \in [Ids -> Task \union Callback \union {None}]
        /\ para' \in [Ids -> Arg \union {None}]
        /\ \A i \in Ids : timerPool'[i] \in {None, timerPool[i]}
    BY <1>2 DEF StopTimers, Clear, TypeOK
  <2>4. IdsPartitioned'
    BY <2>3, BoundsAssumption DEF IdsPartitioned, Ids, TaskIds, MsgIds
  <2> QED BY <1>2, <2>2, <2>3, <2>4 DEF TypeOK
<1>3. ASSUME NEW f \in Fn, NEW a \in Arg \union {None}, TimerStop(f, a)
      PROVE  TypeInv'
  BY <1>2, <1>3 DEF TimerStop
<1>4. ASSUME NEW id \in MsgIds, TimerStopId(id)
      PROVE  TypeInv'
  BY <1>2, <1>4 DEF TimerStopId
<1>5. ASSUME NEW f \in Fn, TimerStopAll(f)
      PROVE  TypeInv'
  BY <1>2, <1>5 DEF TimerStopAll
<1>6. ASSUME NEW m \in Topic, Publish(m)
      PROVE  TypeInv'
  BY <1>6 DEF Publish, TypeOK, IdsPartitioned
<1>7. ASSUME NEW m \in Topic, NEW f \in Fn, Subscribe(m, f) \/ Unsubscribe(m, f)
      PROVE  TypeInv'
  BY <1>7 DEF Subscribe, Unsubscribe, TypeOK, IdsPartitioned
<1>8. ASSUME NEW t \in Task, TaskInit(t)
      PROVE  TypeInv'
  BY <1>8 DEF TaskInit, Call, Running, Frame, TypeOK, IdsPartitioned
<1>9. ASSUME NEW t \in Task, WaitRefused(t)
      PROVE  TypeInv'
  BY <1>9, BoundsAssumption
     DEF WaitRefused, TypeOK, IdsPartitioned, Ids, TaskIds, MsgIds
<1>10. ASSUME NEW t \in Task, NEW m \in Topic \union {None}, Wait(t, m)
       PROVE  TypeInv'
  <2>1. PICK id \in TaskIds :
          /\ taskTimerId' = id
          /\ timerPool' = [timerPool EXCEPT ![id] = t]
          /\ timer' = [timer EXCEPT ![id] = Started(0)]
          /\ co' = [co EXCEPT ![t] = Waiting(id, m)]
    BY <1>10 DEF Wait
  <2>2. timer' \in [Ids -> [phase : Phases, repeat : Int, loop : BOOLEAN]]
    <3>1. Started(0) \in [phase : Phases, repeat : Int, loop : BOOLEAN]
      BY DEF Started, Phases
    <3> QED BY <2>1, <3>1 DEF TypeOK
  <2>3. /\ timerPool' \in [Ids -> Task \union Callback \union {None}]
        /\ IdsPartitioned'
    BY <2>1, BoundsAssumption DEF TypeOK, IdsPartitioned, Ids, TaskIds, MsgIds
  <2>4. co' \in [Task -> [st : {"dead", "running", "waiting"},
                          timerid : TaskIds \union {None},
                          topic : Topic \union {None}]]
    BY <2>1 DEF Waiting, TypeOK
  <2>5. subscribers' \in [Topic -> SUBSET (Task \union Fn)]
    BY <1>10 DEF Wait, TypeOK
  <2> QED
    BY <1>10, <2>1, <2>2, <2>3, <2>4, <2>5 DEF Wait, TaskRuns, Busy, Return, TypeOK
<1>11. ASSUME NEW t \in Task, NEW m \in Topic, WaitForever(t, m)
       PROVE  TypeInv'
  BY <1>11 DEF WaitForever, TaskRuns, Busy, Return, Waiting, TypeOK, IdsPartitioned
<1>12. ASSUME NEW t \in Task, TaskReturn(t)
       PROVE  TypeInv'
  BY <1>12 DEF TaskReturn, TaskRuns, Busy, Return, Dead, TypeOK, IdsPartitioned
<1>13. ASSUME NEW t \in Task, TaskError(t)
       PROVE  TypeInv'
  <2>1. /\ co' \in [Task -> [st : {"dead", "running", "waiting"},
                             timerid : TaskIds \union {None},
                             topic : Topic \union {None}]]
        /\ stack' \in Seq([who : Frame, clears : MsgIds \union {None}])
    BY <1>13 DEF TaskError, TaskRuns, Busy, Return, Dead, TypeOK
  <2>2. Wrapper
    BY <1>13 DEF TaskError
  <2> QED BY <1>13, <2>1, <2>2, WrapperType DEF TaskError, TypeOK
<1>30. ASSUME NEW t \in Task, NEW m \in Topic, WaitRaises(t, m)
       PROVE  TypeInv'
  <2>1. PICK id \in TaskIds : taskTimerId' = id /\ timerPool' = [timerPool EXCEPT ![id] = t]
    BY <1>30 DEF WaitRaises
  <2>2. /\ timerPool' \in [Ids -> Task \union Callback \union {None}]
        /\ IdsPartitioned'
    BY <2>1, BoundsAssumption DEF TypeOK, IdsPartitioned, Ids, TaskIds, MsgIds
  <2>3. co' \in [Task -> [st : {"dead", "running", "waiting"},
                          timerid : TaskIds \union {None},
                          topic : Topic \union {None}]]
    BY <1>30 DEF WaitRaises, DiedIn, TypeOK
  <2>4. subscribers' \in [Topic -> SUBSET (Task \union Fn)]
    BY <1>30 DEF WaitRaises, TypeOK
  <2> QED
    BY <1>30, <2>1, <2>2, <2>3, <2>4 DEF WaitRaises, TaskRuns, Busy, Return, TypeOK
<1>31. ASSUME WaitRaised
       PROVE  TypeInv'
  <2>1. Wrapper
    BY <1>31 DEF WaitRaised
  <2> QED BY <1>31, <2>1, WrapperType DEF WaitRaised, TypeOK
<1>14. ASSUME FnReturn
       PROVE  TypeInv'
  <2>1. para' \in [Ids -> Arg \union {None}]
    BY <1>14 DEF FnReturn, Clear, TypeOK
  <2>2. stack' \in Seq([who : Frame, clears : MsgIds \union {None}])
    BY <1>14 DEF FnReturn, Busy, Return, TypeOK
  <2>3. IdsPartitioned'
    BY <1>14 DEF FnReturn, IdsPartitioned
  <2> QED BY <1>14, <2>1, <2>2, <2>3 DEF FnReturn, TypeOK
<1>15. ASSUME FnError
       PROVE  TypeInv'
  BY <1>15 DEF FnError, TypeOK, IdsPartitioned
<1>16. ASSUME Reboot
       PROVE  TypeInv'
  BY <1>16, BoundsAssumption, NamesAssumption
     DEF Reboot, TypeOK, IdsPartitioned, Idle, Dead, Frame, Ids, TaskIds, MsgIds, Phases
<1>17. ASSUME DispatchPop
       PROVE  TypeInv'
  BY <1>17 DEF DispatchPop, TypeOK, IdsPartitioned
<1>18. ASSUME NEW f \in Fn, DispatchFn(f)
       PROVE  TypeInv'
  BY <1>18 DEF DispatchFn, Dispatched, Call, Frame, TypeOK, IdsPartitioned
<1>19. ASSUME NEW t \in Task, DispatchTask(t)
       PROVE  TypeInv'
  <2>1. ResumeWith(t)
    BY <1>19 DEF DispatchTask
  <2> QED BY <1>19, <2>1, ResumeType DEF DispatchTask, Dispatched, TypeOK
<1>28. ASSUME NEW t \in Task, Resume(t)
       PROVE  TypeInv'
  <2>1. ResumeWith(t)
    BY <1>28 DEF Resume
  <2> QED BY <1>28, <2>1, ResumeType DEF Resume, TypeOK
<1>29. ASSUME NEW t \in Task, DispatchDead(t)
       PROVE  TypeInv'
  <2>1. Wrapper
    BY <1>29 DEF DispatchDead
  <2> QED BY <1>29, <2>1, WrapperType DEF DispatchDead, Dispatched, TypeOK
<1>20. ASSUME ReceiveDriver
       PROVE  TypeInv'
  BY <1>20 DEF ReceiveDriver, Receiving, TypeOK, IdsPartitioned
<1>21. ASSUME ReceiveStale
       PROVE  TypeInv'
  BY <1>21 DEF ReceiveStale, Receiving, TypeOK, IdsPartitioned
<1>22. ASSUME NEW id \in Ids, HandleTimer(id)
       PROVE  /\ timer' \in [Ids -> [phase : Phases, repeat : Int, loop : BOOLEAN]]
              /\ bus' \in Seq(Ids \union Topic)
  <2>1. Handled(timer[id]) \in [phase : Phases, repeat : Int, loop : BOOLEAN]
    BY TimerStepType DEF TimerRecord, TypeOK
  <2>2. timer' = [timer EXCEPT ![id] = Handled(timer[id])]
    BY <1>22 DEF HandleTimer
  <2>3. bus' \in Seq(Ids \union Topic)
    BY <1>22 DEF HandleTimer, Receiving, TypeOK
  <2> QED BY <2>1, <2>2, <2>3 DEF TypeOK
<1>23. ASSUME NEW id \in Ids, ReceiveTaskTimer(id)
       PROVE  TypeInv'
  <2>1. id \in TaskIds /\ timerPool[id] \in Task
    BY <1>23, BoundsAssumption DEF ReceiveTaskTimer, IdsPartitioned, Ids, TaskIds, MsgIds
  <2>2. /\ timerPool' \in [Ids -> Task \union Callback \union {None}]
        /\ IdsPartitioned'
    BY <1>23, BoundsAssumption DEF ReceiveTaskTimer, IdsPartitioned, TypeOK, Ids, TaskIds, MsgIds
  <2>3. subscribers' \in [Topic -> SUBSET (Task \union Fn)]
    BY <1>23, <2>1 DEF ReceiveTaskTimer, Unsubscribed, TypeOK
  <2>4. stack' \in Seq([who : Frame, clears : MsgIds \union {None}])
    BY <1>23, <2>1 DEF ReceiveTaskTimer, Call, Frame, TypeOK
  <2>5. co' \in [Task -> [st : {"dead", "running", "waiting"},
                          timerid : TaskIds \union {None},
                          topic : Topic \union {None}]]
    BY <1>23, <2>1 DEF ReceiveTaskTimer, Running, TypeOK
  <2> QED BY <1>22, <1>23, <2>2, <2>3, <2>4, <2>5 DEF ReceiveTaskTimer, TypeOK
<1>24. ASSUME NEW id \in Ids, ReceiveCallback(id)
       PROVE  TypeInv'
  <2>1. id \in MsgIds /\ timerPool[id] \in Callback
    BY <1>24, BoundsAssumption DEF ReceiveCallback, IdsPartitioned, Ids, TaskIds, MsgIds
  <2>2. /\ timerPool' \in [Ids -> Task \union Callback \union {None}]
        /\ IdsPartitioned'
    BY <1>24, BoundsAssumption DEF ReceiveCallback, IdsPartitioned, TypeOK, Ids, TaskIds, MsgIds
  <2>3. ClearsAfter(id) \in MsgIds \union {None}
    BY <2>1 DEF ClearsAfter
  <2>4. stack' \in Seq([who : Frame, clears : MsgIds \union {None}])
    <3>1. CASE timerPool[id] = AssertFn
      BY <1>24, <3>1 DEF ReceiveCallback, Raises, TypeOK
    <3>2. CASE timerPool[id] \in Fn
      <4>1. [who |-> timerPool[id], clears |-> ClearsAfter(id)] \in
              [who : Frame, clears : MsgIds \union {None}]
        BY <2>3, <3>2 DEF Frame
      <4>2. stack' = stack \/ stack' = Call(timerPool[id], ClearsAfter(id))
        BY <1>24 DEF ReceiveCallback
      <4>3. Call(timerPool[id], ClearsAfter(id)) \in Seq([who : Frame, clears : MsgIds \union {None}])
        BY <4>1 DEF Call, TypeOK
      <4> QED BY <4>2, <4>3 DEF TypeOK
    <3> QED BY <2>1, <3>1, <3>2 DEF Callback
  <2> QED BY <1>22, <1>24, <2>2, <2>4 DEF ReceiveCallback, TypeOK
<1>25. ASSUME NEW id \in Ids, Expire(id)
       PROVE  TypeInv'
  <2>1. Expired(timer[id]) \in [phase : Phases, repeat : Int, loop : BOOLEAN]
    BY TimerStepType DEF TimerRecord, TypeOK
  <2>2. timer' \in [Ids -> [phase : Phases, repeat : Int, loop : BOOLEAN]]
    BY <1>25, <2>1 DEF Expire, TypeOK
  <2> QED BY <1>25, <2>2 DEF Expire, Post, luaVars, TypeOK, IdsPartitioned
<1>26. ASSUME NEW m \in Topic, DriverEvent(m)
       PROVE  TypeInv'
  BY <1>26 DEF DriverEvent, Post, luaVars, TypeOK, IdsPartitioned
<1>27. CASE UNCHANGED vars
  BY <1>27 DEF vars, TypeOK, IdsPartitioned
<1> QED
  BY <1>1, <1>3, <1>4, <1>5, <1>6, <1>7, <1>8, <1>9, <1>10, <1>11, <1>12, <1>13,
     <1>14, <1>15, <1>16, <1>17, <1>18, <1>19, <1>20, <1>21, <1>23, <1>24, <1>25,
     <1>26, <1>27, <1>28, <1>29, <1>30, <1>31
     DEF Next, Script, Yield, Dispatch, Receive

(* TypeOK is an invariant of the scheduler, whatever the numbers of tasks, *)
(* ids, slots and bus places, the port and the error policy.               *)
THEOREM TypeCorrect == Spec => []TypeOK
<1>1. TypeInv => TypeOK
  BY DEF TypeInv
<1> QED BY <1>1, InitTypeInv, NextTypeInv, PTL DEF Spec

-----------------------------------------------------------------------------
(* SubscribersAreWaiting and SnapshotIsWaiting.  A task may subscribe, in  *)
(* a wait, only because it is not waiting yet; that it runs when it does   *)
(* is what StackIsRunning adds.                                            *)
SnapInv == MayResume \/ SnapshotIsWaiting

WaitPart == SubscribersAreWaiting /\ SnapInv

WaitInv == TypeInv /\ StackIsRunning /\ WaitPart

LEMMA InitWaitInv == Init => WaitInv
<1> SUFFICES ASSUME Init PROVE WaitInv
  OBVIOUS
<1>1. TypeInv
  BY InitTypeInv
<1>2. StackIsRunning
  BY NamesAssumption DEF Init, StackIsRunning
<1>3. WaitPart
  BY NamesAssumption DEF Init, WaitPart, SubscribersAreWaiting, SnapInv, SnapshotIsWaiting, Dead
<1> QED BY <1>1, <1>2, <1>3 DEF WaitInv

(* A step that leaves the coroutines, the stack and the tasks among the    *)
(* subscribers alone.                                                      *)
LEMMA WaitInvFrame ==
    ASSUME WaitInv, UNCHANGED <<co, stack>>,
           UNCHANGED <<tmpt, message>>,
           \A m \in Topic, t \in Task : t \in subscribers'[m] <=> t \in subscribers[m]
    PROVE  StackIsRunning' /\ WaitPart'
<1>1. StackIsRunning'
  BY DEF WaitInv, StackIsRunning
<1>2. WaitPart'
  BY DEF WaitInv, WaitPart, SubscribersAreWaiting, SnapInv, SnapshotIsWaiting
<1> QED BY <1>1, <1>2

(* The innermost frame leaves the stack.                                   *)
LEMMA ReturnStack ==
    ASSUME TypeOK, stack # <<>>, StackIsRunning
    PROVE  /\ \A i \in 1 .. Len(Return) : Return[i] = stack[i + 1] /\ i + 1 \in 1 .. Len(stack)
           /\ \A i \in 1 .. Len(Return) : Return[i].who \in Task =>
                /\ co[Return[i].who] = Running
                /\ Return[i].who # Current
                /\ \A j \in 1 .. Len(Return) : Return[j].who = Return[i].who => i = j
<1>1. Len(Return) = Len(stack) - 1 /\ Len(stack) \in Nat /\ Len(stack) > 0
  BY DEF Return, TypeOK
<1>2. \A i \in 1 .. Len(Return) : Return[i] = stack[i + 1] /\ i + 1 \in 1 .. Len(stack)
  BY <1>1 DEF Return, TypeOK
<1>3. Current = stack[1].who /\ 1 \in 1 .. Len(stack)
  BY <1>1 DEF Current, TypeOK
<1>4. ASSUME NEW i \in 1 .. Len(Return), Return[i].who \in Task
      PROVE  /\ co[Return[i].who] = Running
             /\ Return[i].who # Current
             /\ \A j \in 1 .. Len(Return) : Return[j].who = Return[i].who => i = j
  <2>1. i + 1 \in 1 .. Len(stack) /\ stack[i + 1].who = Return[i].who
    BY <1>2
  <2>2. co[Return[i].who] = Running
    BY <1>4, <2>1 DEF StackIsRunning
  <2>3. Return[i].who # Current
    BY <1>1, <1>3, <1>4, <2>1 DEF StackIsRunning
  <2>4. ASSUME NEW j \in 1 .. Len(Return), Return[j].who = Return[i].who
        PROVE  i = j
    <3>1. j + 1 \in 1 .. Len(stack) /\ stack[j + 1].who = stack[i + 1].who
      BY <1>2, <2>1, <2>4
    <3>2. i + 1 = j + 1
      BY <1>4, <2>1, <3>1 DEF StackIsRunning
    <3> QED BY <3>2
  <2> QED BY <2>2, <2>3, <2>4
<1> QED BY <1>2, <1>4

(* A frame is entered.                                                     *)
LEMMA CallStack ==
    ASSUME TypeOK, NEW who, NEW clears
    PROVE  /\ Len(Call(who, clears)) = Len(stack) + 1
           /\ Call(who, clears)[1].who = who
           /\ \A i \in 1 .. Len(stack) : Call(who, clears)[i + 1] = stack[i]
           /\ \A i \in 1 .. Len(Call(who, clears)) :
                i = 1 \/ (i - 1 \in 1 .. Len(stack) /\ Call(who, clears)[i] = stack[i - 1])
BY DEF Call, TypeOK

(* A task leaves the stack: it waits, ends or fails.                       *)
LEMMA LeaveStack ==
    ASSUME TypeOK, StackIsRunning, NEW t \in Task, TaskRuns(t), NEW c,
           co' = [co EXCEPT ![t] = c], stack' = Return
    PROVE  StackIsRunning'
<1>1. stack # <<>> /\ Current = t
  BY DEF TaskRuns, Busy
<1>2. ASSUME NEW i \in 1 .. Len(Return), Return[i].who \in Task
      PROVE  /\ co'[Return[i].who] = Running
             /\ \A j \in 1 .. Len(Return) : Return[j].who = Return[i].who => i = j
  BY <1>1, <1>2, ReturnStack DEF TypeOK
<1> QED BY <1>2 DEF StackIsRunning

(* A task enters the stack: it is started or resumed.                      *)
LEMMA EnterStack ==
    ASSUME TypeOK, StackIsRunning, NEW t \in Task, co[t] # Running,
           co' = [co EXCEPT ![t] = Running], stack' = Call(t, None)
    PROVE  StackIsRunning'
<1>1. co'[t] = Running /\ \A u \in Task \ {t} : co'[u] = co[u]
  BY DEF TypeOK
<1>2. \A i \in 1 .. Len(stack) : stack[i].who # t
  BY DEF StackIsRunning
<1>3. ASSUME NEW i \in 1 .. Len(stack'), stack'[i].who \in Task
      PROVE  /\ co'[stack'[i].who] = Running
             /\ \A j \in 1 .. Len(stack') : stack'[j].who = stack'[i].who => i = j
  <2>1. CASE i = 1
    <3>1. stack'[i].who = t
      BY <2>1, CallStack
    <3>2. \A j \in 1 .. Len(stack') : j = 1 \/ stack'[j].who # t
      BY <1>2, CallStack
    <3> QED BY <1>1, <2>1, <3>1, <3>2
  <2>2. CASE i # 1
    <3>1. i - 1 \in 1 .. Len(stack) /\ stack'[i] = stack[i - 1]
      BY <2>2, CallStack
    <3>2. co'[stack'[i].who] = Running
      BY <1>1, <1>2, <1>3, <3>1 DEF StackIsRunning
    <3>3. ASSUME NEW j \in 1 .. Len(stack'), stack'[j].who = stack'[i].who
          PROVE  i = j
      <4>1. j # 1
        BY <1>2, <3>1, <3>3, CallStack
      <4>2. j - 1 \in 1 .. Len(stack) /\ stack'[j] = stack[j - 1]
        BY <4>1, CallStack
      <4>3. i - 1 = j - 1
        BY <1>3, <3>1, <3>3, <4>2 DEF StackIsRunning
      <4> QED BY <4>3
    <3> QED BY <3>2, <3>3
  <2> QED BY <2>1, <2>2
<1> QED BY <1>3 DEF StackIsRunning

(* A callback enters the stack.                                            *)
LEMMA EnterFn ==
    ASSUME TypeOK, StackIsRunning, NEW f, f \notin Task, NEW clears,
           UNCHANGED co, stack' = Call(f, clears)
    PROVE  StackIsRunning'
<1>1. ASSUME NEW i \in 1 .. Len(stack'), stack'[i].who \in Task
      PROVE  /\ co'[stack'[i].who] = Running
             /\ \A j \in 1 .. Len(stack') : stack'[j].who = stack'[i].who => i = j
  <2>1. i - 1 \in 1 .. Len(stack) /\ stack'[i] = stack[i - 1]
    BY <1>1, CallStack
  <2>2. ASSUME NEW j \in 1 .. Len(stack'), stack'[j].who = stack'[i].who
        PROVE  i = j
    <3>1. j - 1 \in 1 .. Len(stack) /\ stack'[j] = stack[j - 1]
      BY <1>1, <2>2, CallStack
    <3>2. i - 1 = j - 1
      BY <1>1, <2>1, <2>2, <3>1 DEF StackIsRunning
    <3> QED BY <3>2
  <2> QED BY <1>1, <2>1, <2>2 DEF StackIsRunning
<1> QED BY <1>1 DEF StackIsRunning

LEMMA NextWaitInv == WaitInv /\ [Next]_vars => WaitInv'
<1> SUFFICES ASSUME WaitInv, [Next]_vars
             PROVE  StackIsRunning' /\ WaitPart'
  BY NextTypeInv DEF WaitInv
<1>0. /\ TypeOK /\ StackIsRunning /\ WaitPart /\ IdsPartitioned
      /\ None \notin Topic /\ Task \intersect Fn = {} /\ Main \notin Task /\ AssertFn \notin Task
  BY NamesAssumption DEF WaitInv, TypeInv, Callback
<1>1. ASSUME UNCHANGED <<co, stack, tmpt, message, subscribers>>
      PROVE  StackIsRunning' /\ WaitPart'
  BY <1>1, WaitInvFrame
<1>2. ASSUME NEW f \in Fn, NEW a \in Arg \union {None}, NEW r \in Repeats,
             TimerAdvStart(f, a, r)
      PROVE  StackIsRunning' /\ WaitPart'
  BY <1>1, <1>2 DEF TimerAdvStart
<1>3. ASSUME NEW id \in Ids, TimerStopId(id) \/ Expire(id)
      PROVE  StackIsRunning' /\ WaitPart'
  BY <1>1, <1>3 DEF TimerStopId, Expire, luaVars
<1>4. ASSUME NEW f \in Fn, TimerStopAll(f)
      PROVE  StackIsRunning' /\ WaitPart'
  BY <1>1, <1>4 DEF TimerStopAll
<1>5. ASSUME NEW m \in Topic, Publish(m) \/ DriverEvent(m)
      PROVE  StackIsRunning' /\ WaitPart'
  BY <1>1, <1>5 DEF Publish, DriverEvent, luaVars
<1>6. ASSUME NEW m \in Topic, NEW f \in Fn, Subscribe(m, f) \/ Unsubscribe(m, f)
      PROVE  StackIsRunning' /\ WaitPart'
  <2>1. \A n \in Topic, t \in Task : t \in subscribers'[n] <=> t \in subscribers[n]
    <3>1. f \notin Task
      BY <1>0
    <3>2. CASE Subscribe(m, f)
      BY <1>0, <3>1, <3>2 DEF Subscribe, TypeOK
    <3>3. CASE Unsubscribe(m, f)
      BY <1>0, <3>1, <3>3 DEF Unsubscribe, TypeOK
    <3> QED BY <1>6, <3>2, <3>3
  <2> QED BY <1>6, <2>1, WaitInvFrame DEF Subscribe, Unsubscribe
<1>7. ASSUME NEW t \in Task, TaskInit(t)
      PROVE  StackIsRunning' /\ WaitPart'
  <2>1. StackIsRunning'
    <3>1. co[t] # Running
      BY <1>7 DEF TaskInit, Running, Dead
    <3> QED BY <1>0, <1>7, <3>1, EnterStack DEF TaskInit
  <2>3. WaitPart'
    BY <1>0, <1>7 DEF TaskInit, Running, Dead, WaitPart, SubscribersAreWaiting, SnapInv, SnapshotIsWaiting, TypeOK
  <2> QED BY <2>1, <2>3
<1>8. ASSUME NEW t \in Task, WaitRefused(t)
      PROVE  StackIsRunning' /\ WaitPart'
  BY <1>1, <1>8 DEF WaitRefused
<1>9. ASSUME NEW t \in Task, TaskRuns(t)
      PROVE  co[t] = Running /\ \A m \in Topic : t \notin subscribers[m]
  <2>1. stack # <<>> /\ stack[1].who = t /\ 1 \in 1 .. Len(stack)
    BY <1>0, <1>9 DEF TaskRuns, Busy, Current, TypeOK
  <2>2. co[t] = Running
    BY <1>0, <2>1 DEF StackIsRunning
  <2> QED BY <1>0, <2>2 DEF WaitPart, SubscribersAreWaiting, SnapInv, SnapshotIsWaiting, Running
<1>10. ASSUME NEW t \in Task, NEW m \in Topic \union {None}, NEW c, TaskRuns(t),
              co' = [co EXCEPT ![t] = c], c.topic = m, stack' = Return,
              UNCHANGED <<tmpt, message>>,
              subscribers' = IF m = None THEN subscribers
                             ELSE [subscribers EXCEPT ![m] = @ \union {t}]
       PROVE  StackIsRunning' /\ WaitPart'
  <2>1. StackIsRunning'
    BY <1>0, <1>10, LeaveStack
  <2>2. co'[t].topic = m /\ \A u \in Task \ {t} : co'[u] = co[u]
    BY <1>0, <1>10 DEF TypeOK
  <2>4. \A n \in Topic, u \in Task :
          u \in subscribers'[n] <=> u \in subscribers[n] \/ (u = t /\ n = m)
    BY <1>0, <1>10 DEF TypeOK
  <2>5. MayResume \/ t \notin tmpt
    BY <1>0, <1>9, <1>10 DEF WaitPart, SubscribersAreWaiting, SnapInv, SnapshotIsWaiting, Running
  <2>6. WaitPart'
    BY <1>0, <1>9, <1>10, <2>2, <2>4, <2>5 DEF WaitPart, SubscribersAreWaiting, SnapInv, SnapshotIsWaiting
  <2> QED BY <2>1, <2>6
<1>11. ASSUME NEW t \in Task, NEW m \in Topic \union {None}, Wait(t, m)
       PROVE  StackIsRunning' /\ WaitPart'
  <2>1. PICK id \in TaskIds : co' = [co EXCEPT ![t] = Waiting(id, m)]
    BY <1>11 DEF Wait
  <2>2. Waiting(id, m).topic = m
    BY DEF Waiting
  <2> QED BY <1>10, <1>11, <2>1, <2>2 DEF Wait
<1>12. ASSUME NEW t \in Task, NEW m \in Topic, WaitForever(t, m)
       PROVE  StackIsRunning' /\ WaitPart'
  <2>1. Waiting(None, m).topic = m
    BY DEF Waiting
  <2> QED BY <1>0, <1>10, <1>12, <2>1 DEF WaitForever
<1>30. ASSUME NEW t \in Task, NEW m \in Topic, WaitRaises(t, m)
       PROVE  StackIsRunning' /\ WaitPart'
  <2>1. DiedIn(m).topic = m
    BY DEF DiedIn
  <2> QED BY <1>0, <1>10, <1>30, <2>1 DEF WaitRaises
<1>31. ASSUME WaitRaised
       PROVE  StackIsRunning' /\ WaitPart'
  BY <1>1, <1>31 DEF WaitRaised
<1>13. ASSUME NEW t \in Task, TaskReturn(t) \/ TaskError(t)
       PROVE  StackIsRunning' /\ WaitPart'
  <2>1. /\ TaskRuns(t) /\ co' = [co EXCEPT ![t] = Dead] /\ stack' = Return
        /\ UNCHANGED <<subscribers, tmpt, message>>
    BY <1>13 DEF TaskReturn, TaskError
  <2>2. StackIsRunning'
    BY <1>0, <2>1, LeaveStack
  <2>4. WaitPart'
    BY <1>0, <1>9, <2>1 DEF WaitPart, SubscribersAreWaiting, SnapInv, SnapshotIsWaiting, Dead, Running, TypeOK
  <2> QED BY <2>2, <2>4
<1>14. ASSUME FnReturn
       PROVE  StackIsRunning' /\ WaitPart'
  <2>1. /\ stack # <<>> /\ stack' = Return
        /\ UNCHANGED <<co, subscribers, tmpt, message>>
    BY <1>14 DEF FnReturn, Busy
  <2>2. StackIsRunning'
    BY <1>0, <2>1, ReturnStack DEF StackIsRunning
  <2>3. WaitPart'
    BY <1>0, <2>1 DEF WaitPart, SubscribersAreWaiting, SnapInv, SnapshotIsWaiting
  <2> QED BY <2>2, <2>3
<1>15. ASSUME FnError
       PROVE  StackIsRunning' /\ WaitPart'
  BY <1>1, <1>15 DEF FnError
<1>16. ASSUME Reboot
       PROVE  StackIsRunning' /\ WaitPart'
  <2>1. StackIsRunning'
    BY <1>0, <1>16 DEF Reboot, StackIsRunning
  <2>2. WaitPart'
    BY <1>16, NamesAssumption DEF Reboot, Dead, WaitPart, SubscribersAreWaiting, SnapInv, SnapshotIsWaiting
  <2> QED BY <2>1, <2>2
<1>17. ASSUME DispatchPop
       PROVE  StackIsRunning' /\ WaitPart'
  <2>1. StackIsRunning'
    BY <1>0, <1>17 DEF DispatchPop, StackIsRunning
  <2>2. WaitPart'
    BY <1>0, <1>17 DEF DispatchPop, WaitPart, SubscribersAreWaiting, SnapInv, SnapshotIsWaiting, TypeOK
  <2> QED BY <2>1, <2>2
<1>18. ASSUME NEW f \in Fn, DispatchFn(f)
       PROVE  StackIsRunning' /\ WaitPart'
  <2>1. StackIsRunning'
    BY <1>0, <1>18, EnterFn DEF DispatchFn
  <2>2. WaitPart'
    BY <1>0, <1>18
       DEF DispatchFn, Dispatched, WaitPart, SubscribersAreWaiting, SnapInv, SnapshotIsWaiting
  <2> QED BY <2>1, <2>2
<1>19. ASSUME NEW t \in Task, co[t] # Running, co' = [co EXCEPT ![t] = Running],
              stack' = Call(t, None), subscribers' = Unsubscribed(t),
              MayResume \/ /\ t \notin tmpt' /\ tmpt' \subseteq tmpt
                           /\ tmpt' # {} => message' = message
       PROVE  StackIsRunning' /\ WaitPart'
  <2>1. StackIsRunning'
    BY <1>0, <1>19, EnterStack
  <2>2. /\ co'[t].st = "running" /\ co'[t].topic = None
        /\ \A u \in Task \ {t} : co'[u] = co[u]
    BY <1>0, <1>19 DEF Running, TypeOK
  <2>4. \A n \in Topic, u \in Task :
          u \in subscribers'[n] <=> u \in subscribers[n] /\ u # t
    <3>1. \A n \in Topic : t \in subscribers[n] <=> co[t].topic = n
      BY <1>0 DEF WaitPart, SubscribersAreWaiting, SnapInv, SnapshotIsWaiting
    <3> QED BY <1>0, <1>19, <3>1 DEF Unsubscribed, TypeOK
  <2>5. WaitPart'
    BY <1>0, <1>19, <2>2, <2>4 DEF WaitPart, SubscribersAreWaiting, SnapInv, SnapshotIsWaiting
  <2> QED BY <2>1, <2>5
<1>20. ASSUME NEW t \in Task, DispatchTask(t) \/ Resume(t)
       PROVE  StackIsRunning' /\ WaitPart'
  <2>1. co[t] # Running /\ ResumeWith(t)
    BY <1>20 DEF DispatchTask, Resume, Running
  <2>2. MayResume \/ /\ t \notin tmpt' /\ tmpt' \subseteq tmpt
                     /\ tmpt' # {} => message' = message
    BY <1>20 DEF DispatchTask, Dispatched, Resume
  <2> QED BY <1>19, <2>1, <2>2 DEF ResumeWith
<1>29. ASSUME NEW t \in Task, DispatchDead(t)
       PROVE  StackIsRunning' /\ WaitPart'
  <2>1. /\ UNCHANGED <<co, stack, subscribers>> /\ tmpt' \subseteq tmpt
        /\ tmpt' # {} => message' = message
    BY <1>29 DEF DispatchDead, Dispatched
  <2>2. StackIsRunning'
    BY <1>0, <2>1 DEF StackIsRunning
  <2>3. WaitPart'
    BY <1>0, <2>1 DEF WaitPart, SubscribersAreWaiting, SnapInv, SnapshotIsWaiting
  <2> QED BY <2>2, <2>3
<1>21. ASSUME ReceiveDriver \/ ReceiveStale
       PROVE  StackIsRunning' /\ WaitPart'
  BY <1>1, <1>21 DEF ReceiveDriver, ReceiveStale
<1>22. ASSUME NEW id \in Ids, ReceiveTaskTimer(id)
       PROVE  StackIsRunning' /\ WaitPart'
  <2>1. timerPool[id] \in Task
    BY <1>0, <1>22, BoundsAssumption
       DEF ReceiveTaskTimer, IdsPartitioned, Ids, TaskIds, MsgIds
  <2>2. tmpt = {} /\ stack = <<>>
    BY <1>22 DEF ReceiveTaskTimer, HandleTimer, Receiving, InLoop
  <2>3. CASE co[timerPool[id]] # Running
    BY <1>19, <1>22, <2>1, <2>2, <2>3 DEF ReceiveTaskTimer
  <2>4. CASE co[timerPool[id]] = Running
    <3> DEFINE t == timerPool[id]
    <3>1. UNCHANGED <<co, tmpt, message>> /\ stack' = Call(t, None)
      BY <1>0, <1>22, <2>1, <2>4 DEF ReceiveTaskTimer, TypeOK
    <3>2. subscribers' = subscribers
      BY <1>22, <2>4 DEF ReceiveTaskTimer, Unsubscribed, Running
    <3>3. StackIsRunning'
      <4>1. \A i \in 1 .. Len(stack') : i = 1 /\ stack'[i].who = t
        BY <1>0, <2>2, <3>1, CallStack
      <4> QED BY <2>4, <3>1, <4>1 DEF StackIsRunning
    <3>4. WaitPart'
      BY <1>0, <3>1, <3>2 DEF WaitPart, SubscribersAreWaiting, SnapInv, SnapshotIsWaiting
    <3> QED BY <3>3, <3>4
  <2> QED BY <2>3, <2>4
<1>23. ASSUME NEW id \in Ids, ReceiveCallback(id)
       PROVE  StackIsRunning' /\ WaitPart'
  <2>1. timerPool[id] \notin Task
    BY <1>0, <1>23, BoundsAssumption, NamesAssumption
       DEF ReceiveCallback, IdsPartitioned, Ids, TaskIds, MsgIds
  <2>2. UNCHANGED <<co, subscribers, tmpt, message>>
    BY <1>23 DEF ReceiveCallback
  <2>3. CASE stack' = stack
    BY <1>1, <2>2, <2>3
  <2>4. CASE stack' = Call(timerPool[id], ClearsAfter(id))
    <3>1. StackIsRunning'
      BY <1>0, <2>1, <2>2, <2>4, EnterFn
    <3>2. WaitPart'
      BY <1>0, <2>2 DEF WaitPart, SubscribersAreWaiting, SnapInv, SnapshotIsWaiting
    <3> QED BY <3>1, <3>2
  <2> QED BY <1>23, <2>3, <2>4 DEF ReceiveCallback
<1>24. CASE UNCHANGED vars
  BY <1>1, <1>24 DEF vars
<1>25. MsgIds \subseteq Ids
  BY DEF Ids
<1>26. CASE Script
  <2>1. \/ \E f \in Fn, a \in Arg \union {None}, r \in Repeats :
             TimerAdvStart(f, a, r)
        \/ \E f \in Fn, a \in Arg \union {None} : TimerStop(f, a)
        \/ \E id \in MsgIds : TimerStopId(id)
        \/ \E f \in Fn : TimerStopAll(f)
        \/ \E m \in Topic : Publish(m)
        \/ \E m \in Topic, f \in Fn : Subscribe(m, f) \/ Unsubscribe(m, f)
        \/ \E t \in Task : TaskInit(t) \/ WaitRefused(t) \/ Resume(t)
    BY <1>26 DEF Script
  <2>2. ASSUME NEW f \in Fn, NEW a \in Arg \union {None}, TimerStop(f, a)
        PROVE  StackIsRunning' /\ WaitPart'
    BY <1>1, <2>2 DEF TimerStop
  <2> QED BY <1>2, <1>3, <1>4, <1>5, <1>6, <1>7, <1>8, <1>20, <1>25, <2>1, <2>2
<1>27. CASE Yield
  BY <1>11, <1>12, <1>13, <1>14, <1>15, <1>27, <1>30, <1>31 DEF Yield
<1>28. CASE Dispatch \/ Receive
  BY <1>17, <1>18, <1>20, <1>21, <1>22, <1>23, <1>28, <1>29 DEF Dispatch, Receive
<1> QED
  BY <1>3, <1>5, <1>16, <1>24, <1>26, <1>27, <1>28 DEF Next

(* A task is subscribed exactly to the message of the wait that it is in,  *)
(* or has died in: for any number of tasks, whether or not scripts resume  *)
(* each other's tasks, timers can be refused, ids wrap or messages are     *)
(* lost, and whatever a freed timer's id field reads as.                   *)
THEOREM SubscriptionsCorrect == Spec => []SubscribersAreWaiting
<1>1. WaitInv => SubscribersAreWaiting
  BY DEF WaitInv, WaitPart
<1> QED BY <1>1, InitWaitInv, NextWaitInv, PTL DEF Spec

(* Dispatch calls only tasks that are in a wait for the message it         *)
(* dispatches, or dead in one, unless scripts resume waiting tasks         *)
(* themselves.                                                             *)
THEOREM SnapshotCorrect == ASSUME ~MayResume PROVE Spec => []SnapshotIsWaiting
<1>1. WaitInv => SnapshotIsWaiting
  BY DEF WaitInv, WaitPart, SnapInv
<1> QED BY <1>1, InitWaitInv, NextWaitInv, PTL DEF Spec
=============================================================================
