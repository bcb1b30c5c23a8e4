--------------------------- MODULE LuaTimerProofs ---------------------------
(***************************************************************************)
(* The timers of the pool.  Those of waiting tasks: every C timer has an   *)
(* owner, a task is woken only out of the wait it is in, one that sleeps   *)
(* has its timer, and nothing of a wait outlives it.  Those of callbacks:  *)
(* arguments have an owner, and with their callback they name one timer.   *)
(*                                                                         *)
(* The link between a wait and its timer is the id alone, so the argument  *)
(* is about ids: a timer that is live belongs to the wait its task is in   *)
(* (LiveIsWaited), an id whose message is on the bus is not running again  *)
(* (NotYetAgain), and the wait holds its id until the timer has been       *)
(* handled or stopped (Armed).  Arguments lie in the pool from the start   *)
(* of a callback's timer until the last call of it returns (ParaPart).     *)
(***************************************************************************)
EXTENDS LuaSchedProofs, FiniteSetTheorems

(* sys.wait starts its timers as one-shots.                                *)
OneShots == \A id \in TaskIds : timer[id].repeat = 0 /\ ~timer[id].loop

(* A live task timer is that of the wait its task is in.                   *)
LiveIsWaited ==
    \A id \in TaskIds : Live(id) =>
        /\ timerPool[id] \in Task
        /\ Blocked(timerPool[id]) /\ co[timerPool[id]].timerid = id

(* An id on the bus is not running again: one-shots, and no id in flight   *)
(* is given to a new wait.                                                 *)
NotYetAgain == \A id \in TaskIds : OnBus(id) => timer[id].phase # "running"

(* Id 0 comes only after the wrap-around.                                  *)
ZeroUnused == MayWrap \/ (~Live(0) /\ ~OnBus(0))

(* The PC port's bus has no limit, and no id of the port reads as none.    *)
Lossless == Port = "pc" /\ ~MayWrap

(* A wait holds its pool entry and its timer; an expiry not yet handled is *)
(* on the bus.                                                             *)
Armed ==
    \A t \in Task : Blocked(t) /\ co[t].timerid # None =>
        /\ timerPool[co[t].timerid] = t
        /\ Live(co[t].timerid)
        /\ Lossless /\ timer[co[t].timerid].phase = "expired" => OnBus(co[t].timerid)

(* No start of a timer is refused.                                         *)
NothingRefused == ~MayFail /\ Slots > Cardinality(Ids)

NoResidue ==
    NothingRefused => \A id \in TaskIds, t \in Task :
        timerPool[id] = t => Blocked(t) /\ co[t].timerid = id

TaskPart ==
    OneShots /\ LiveIsWaited /\ NotYetAgain /\ ZeroUnused /\ Armed /\ NoResidue

(* Dispatch knows what it dispatches.                                      *)
SnapshotHasMessage == tmpt # {} => message \in Topic

TimerInv == WaitInv /\ TimersAreOwned /\ TaskPart /\ SnapshotHasMessage

LEMMA IdSets == 0 \in TaskIds /\ TaskIds \subseteq Ids /\ MsgIds \subseteq Ids
                  /\ TaskIds \intersect MsgIds = {} /\ TaskIds \subseteq Nat
BY BoundsAssumption DEF TaskIds, MsgIds, Ids

LEMMA InitTimerInv == Init => TimerInv
<1> SUFFICES ASSUME Init PROVE TimerInv
  OBVIOUS
<1>1. \A id \in Ids : timer[id] = Idle /\ ~Live(id)
  BY DEF Init, Live, Idle
<1>2. bus = <<>> /\ \A t \in Task : ~Blocked(t)
  BY DEF Init, Blocked, Dead
<1>3. TimersAreOwned
  BY <1>1 DEF TimersAreOwned, Live
<1>6. NoResidue
  BY IdSets, NamesAssumption DEF Init, NoResidue
<1>4. TaskPart
  BY <1>1, <1>2, <1>6, IdSets
     DEF TaskPart, OneShots, LiveIsWaited, NotYetAgain, ZeroUnused, Armed, OnBus, Idle
<1>5. SnapshotHasMessage
  BY DEF Init, SnapshotHasMessage
<1> QED BY <1>3, <1>4, <1>5, InitWaitInv DEF TimerInv

-----------------------------------------------------------------------------
(* The bus.                                                                *)
(* A message joins the bus.                                                *)
LEMMA OneMore ==
    ASSUME TypeOK, NEW m, m \in Ids \union Topic, bus' = Append(bus, m), NEW x
    PROVE  OnBus(x)' <=> OnBus(x) \/ x = m
<1>1. /\ Len(bus') = Len(bus) + 1 /\ Len(bus) \in Nat
      /\ bus'[Len(bus')] = m /\ \A i \in 1 .. Len(bus) : bus'[i] = bus[i]
  BY DEF TypeOK
<1>2. \A i \in 1 .. Len(bus') : i = Len(bus') \/ i \in 1 .. Len(bus)
  BY <1>1
<1>3. Len(bus') \in 1 .. Len(bus') /\ 1 .. Len(bus) \subseteq 1 .. Len(bus')
  BY <1>1
<1> QED BY <1>1, <1>2, <1>3 DEF OnBus

(* The first message leaves the bus.                                       *)
LEMMA OneLess ==
    ASSUME TypeOK, bus # <<>>, bus' = Tail(bus), NEW x
    PROVE  /\ OnBus(x)' => OnBus(x)
           /\ OnBus(x) /\ x # Head(bus) => OnBus(x)'
<1>1. /\ Len(bus') = Len(bus) - 1 /\ Len(bus) \in Nat /\ Len(bus) > 0
      /\ Head(bus) = bus[1] /\ \A i \in 1 .. Len(bus') : bus'[i] = bus[i + 1]
  BY DEF TypeOK
<1>2. \A i \in 1 .. Len(bus') : i + 1 \in 1 .. Len(bus)
  BY <1>1
<1>3. ASSUME OnBus(x), x # Head(bus) PROVE OnBus(x)'
  <2>1. PICK i \in 1 .. Len(bus) : bus[i] = x
    BY <1>3 DEF OnBus
  <2>2. i # 1 /\ i - 1 \in 1 .. Len(bus') /\ (i - 1) + 1 = i
    BY <1>1, <1>3, <2>1
  <2>3. bus'[i - 1] = x
    BY <1>1, <2>1, <2>2
  <2> QED BY <2>2, <2>3 DEF OnBus
<1> QED BY <1>1, <1>2, <1>3 DEF OnBus

(* A full bus may drop the message, and nothing else.                      *)
LEMMA Posted ==
    ASSUME TypeOK, NEW m \in Ids \union Topic, Post(m), NEW x
    PROVE  /\ OnBus(x)' => OnBus(x) \/ x = m
           /\ OnBus(x) => OnBus(x)'
           /\ Port = "pc" => OnBus(m)'
<1>1. CASE bus' = bus /\ Port # "pc"
  BY <1>1 DEF OnBus
<1>2. CASE bus' = Append(bus, m)
  BY <1>2, OneMore
<1> QED BY <1>1, <1>2 DEF Post

-----------------------------------------------------------------------------
(* Steps that leave the timers of tasks alone.                             *)
SameTimers == \A id \in TaskIds : timerPool'[id] = timerPool[id] /\ timer'[id] = timer[id]

SameBus ==
    \A id \in TaskIds :
        /\ OnBus(id)' => OnBus(id)
        /\ Lossless /\ OnBus(id) /\ Live(id) => OnBus(id)'

SameWaits ==
    \A t \in Task :
        \/ co'[t] = co[t]
        \/ ~Blocked(t) /\ (~Blocked(t)' \/ co'[t].timerid = None)

(* They keep what is claimed of task timers.                               *)
LEMMA FramePart ==
    ASSUME TypeOK, TaskPart, SameTimers, SameBus, SameWaits
    PROVE  TaskPart'
<1> USE DEF TaskPart
<1>1. OneShots'
  BY DEF OneShots, SameTimers
<1>2. \A id \in TaskIds : Live(id)' <=> Live(id)
  BY DEF SameTimers, Live
<1>3. LiveIsWaited'
  <2>1. ASSUME NEW id \in TaskIds, timer'[id].phase # "idle"
        PROVE  /\ timerPool'[id] \in Task
               /\ co'[timerPool'[id]].st = "waiting" /\ co'[timerPool'[id]].timerid = id
    <3>1. /\ timerPool[id] \in Task /\ timerPool'[id] = timerPool[id]
          /\ Blocked(timerPool[id]) /\ co[timerPool[id]].timerid = id
      BY <2>1 DEF LiveIsWaited, Live, SameTimers
    <3>2. co'[timerPool[id]] = co[timerPool[id]]
      BY <3>1 DEF SameWaits
    <3> QED BY <3>1, <3>2 DEF Blocked
  <2> QED BY <2>1 DEF LiveIsWaited, Live, Blocked
<1>4. NotYetAgain'
  BY DEF NotYetAgain, SameTimers, SameBus
<1>5. ZeroUnused'
  <2>1. (MayWrap \/ (~Live(0) /\ ~OnBus(0)))' <=> MayWrap \/ (~Live(0)' /\ ~OnBus(0)')
    OBVIOUS
  <2>2. MayWrap \/ (~Live(0)' /\ ~OnBus(0)')
    BY <1>2, IdSets DEF ZeroUnused, SameBus
  <2> QED BY <2>1, <2>2 DEF ZeroUnused
<1>6. Armed'
  <2>1. ASSUME NEW t \in Task, co'[t].st = "waiting", co'[t].timerid # None,
               NEW id, id = co'[t].timerid
        PROVE  /\ timerPool'[id] = t /\ timer'[id].phase # "idle"
               /\ Lossless /\ timer'[id].phase = "expired" => \E i \in 1 .. Len(bus') : bus'[i] = id
    <3>1. co'[t] = co[t] /\ Blocked(t)
      BY <2>1 DEF SameWaits, Blocked
    <3>2. id \in TaskIds
      BY <2>1, <3>1 DEF TypeOK
    <3>3. /\ timerPool[id] = t /\ Live(id)
          /\ Lossless /\ timer[id].phase = "expired" => OnBus(id)
      BY <2>1, <3>1 DEF Armed
    <3>4. Lossless /\ OnBus(id) => OnBus(id)'
      BY <2>1, <3>2, <3>3 DEF SameBus
    <3>5. timerPool'[id] = t /\ timer'[id] = timer[id]
      BY <3>2, <3>3 DEF SameTimers
    <3> QED BY <3>3, <3>4, <3>5 DEF Live, OnBus
  <2>2. Lossless' <=> Lossless
    BY DEF Lossless
  <2> QED BY <2>1, <2>2 DEF Armed, Live, Blocked, OnBus
<1>7. NoResidue'
  <2>1. ASSUME NothingRefused, NEW id \in TaskIds, NEW t \in Task, timerPool'[id] = t
        PROVE  co'[t].st = "waiting" /\ co'[t].timerid = id
    BY <2>1 DEF NoResidue, SameTimers, SameWaits, Blocked
  <2> QED BY <2>1 DEF NoResidue, NothingRefused, Blocked
<1> QED BY <1>1, <1>3, <1>4, <1>5, <1>6, <1>7

(* Starting and stopping callback timers.                                  *)
LEMMA StopFrame ==
    ASSUME TypeOK, TimersAreOwned, NEW S, S \subseteq MsgIds, StopTimers(S)
    PROVE  SameTimers /\ TimersAreOwned'
<1>1. \A id \in Ids : /\ timerPool'[id] = IF id \in S THEN None ELSE timerPool[id]
                      /\ timer'[id] = IF id \in S THEN Idle ELSE timer[id]
  BY DEF StopTimers, Clear, TypeOK
<1>2. SameTimers
  BY <1>1, IdSets DEF SameTimers
<1>3. TimersAreOwned'
  BY <1>1 DEF TimersAreOwned, Idle
<1> QED BY <1>2, <1>3

(* What a callback owns is the timer of a callback.                        *)
LEMMA OwnedByCallback ==
    ASSUME TypeInv, NEW f \in Callback, NEW id \in Ids, timerPool[id] = f
    PROVE  id \in MsgIds
BY NamesAssumption DEF TypeInv, IdsPartitioned, Ids

(* timerAdvStart takes an id of its own range, after stopping its like.    *)
LEMMA AdvStartFrame ==
    ASSUME TypeInv, TimersAreOwned, NEW f \in Callback, NEW args, NEW repeat,
           AdvStart(f, args, repeat)
    PROVE  SameTimers /\ TimersAreOwned'
<1>1. PICK S \in StopChoices(f, args), id \in MsgIds :
        /\ timerPool' = [Clear(timerPool, S, None) EXCEPT ![id] = f]
        /\ \E ok \in Outcomes(Clear(timer, S, Idle)) :
             timer' = IF ok THEN [Clear(timer, S, Idle) EXCEPT ![id] = Started(repeat)]
                            ELSE Clear(timer, S, Idle)
  BY Zenon DEF AdvStart
<1>2. S \subseteq MsgIds
  BY OwnedByCallback DEF StopChoices, Matching
<1>3. \A i \in Ids : timerPool'[i] = IF i = id THEN f ELSE IF i \in S THEN None ELSE timerPool[i]
  BY <1>1 DEF Clear, TypeInv, TypeOK
<1>4. \A i \in Ids : \/ timer'[i] = IF i \in S THEN Idle ELSE timer[i]
                     \/ i = id
  BY <1>1 DEF Clear, TypeInv, TypeOK
<1>5. id \notin TaskIds /\ \A i \in TaskIds : i \in Ids /\ i \notin S
  BY <1>2, IdSets
<1>6. SameTimers
  BY <1>3, <1>4, <1>5 DEF SameTimers
<1>7. f # None
  BY NamesAssumption
<1>8. TimersAreOwned'
  BY <1>3, <1>4, <1>7 DEF TimersAreOwned, Idle
<1> QED BY <1>6, <1>8

(* The error wrapper arms a callback timer at most.                        *)
LEMMA WrapperFrame ==
    ASSUME TypeInv, TimersAreOwned, Wrapper
    PROVE  SameTimers /\ TimersAreOwned'
<1>1. CASE ErrPolicy = "rollback"
  <2>1. PICK trace \in Arg : AdvStart(AssertFn, trace, 0)
    BY <1>1 DEF Wrapper
  <2> QED BY <2>1, AdvStartFrame DEF Callback
<1>2. CASE ErrPolicy # "rollback"
  BY <1>2 DEF Wrapper, SameTimers, TimersAreOwned
<1> QED BY <1>1, <1>2

-----------------------------------------------------------------------------
(* A wait starts.  Its id is free and nothing on the bus bears it.         *)
LEMMA WaitPartOfTimers ==
    ASSUME TypeOK, TimersAreOwned, TaskPart, NEW t \in Task, NEW m, ~Blocked(t), Wait(t, m)
    PROVE  TaskPart' /\ TimersAreOwned'
<1> USE DEF TaskPart
<1>1. PICK id \in TaskIds :
        /\ NextTaskTimerId(id)
        /\ timerPool' = [timerPool EXCEPT ![id] = t]
        /\ timer' = [timer EXCEPT ![id] = Started(0)]
        /\ co' = [co EXCEPT ![t] = Waiting(id, m)]
  BY DEF Wait
<1>2. timerPool[id] = None /\ ~OnBus(id) /\ (MayWrap \/ id # 0)
  BY <1>1, IdSets DEF NextTaskTimerId, FirstFree, Free, InFlight, OnBus, TypeOK, TaskIds
<1>3. /\ timerPool'[id] = t /\ \A i \in Ids \ {id} : timerPool'[i] = timerPool[i]
      /\ timer'[id].phase = "running" /\ timer'[id].repeat = 0 /\ ~timer'[id].loop
      /\ \A i \in Ids \ {id} : timer'[i] = timer[i]
  BY <1>1, IdSets DEF TypeOK, Started
<1>4. /\ co'[t].st = "waiting" /\ co'[t].timerid = id
      /\ \A u \in Task \ {t} : co'[u] = co[u]
  BY <1>1 DEF TypeOK, Waiting
<1>5. bus' = bus /\ None \notin Task
  BY NamesAssumption DEF Wait
<1>6. ~Live(id)
  BY <1>2, IdSets DEF TimersAreOwned, Live
<1>7. TimersAreOwned'
  BY <1>3, <1>5 DEF TimersAreOwned
<1>8. OneShots'
  BY <1>3, IdSets DEF OneShots
<1>9. LiveIsWaited'
  <2>1. ASSUME NEW i \in TaskIds, timer'[i].phase # "idle"
        PROVE  /\ timerPool'[i] \in Task
               /\ co'[timerPool'[i]].st = "waiting" /\ co'[timerPool'[i]].timerid = i
    <3>1. CASE i = id
      BY <1>3, <1>4, <3>1
    <3>2. CASE i # id
      <4>1. /\ timerPool[i] \in Task /\ timerPool'[i] = timerPool[i]
            /\ Blocked(timerPool[i]) /\ co[timerPool[i]].timerid = i
        BY <1>3, <2>1, <3>2, IdSets DEF LiveIsWaited, Live
      <4> QED BY <1>4, <4>1 DEF Blocked
    <3> QED BY <3>1, <3>2
  <2> QED BY <2>1 DEF LiveIsWaited, Live, Blocked
<1>10. NotYetAgain'
  BY <1>2, <1>3, <1>5, IdSets DEF NotYetAgain, OnBus
<1>11. ZeroUnused'
  <2>1. MayWrap \/ (timer'[0].phase = "idle" /\ ~\E i \in 1 .. Len(bus') : bus'[i] = 0)
    BY <1>2, <1>3, <1>5, IdSets DEF ZeroUnused, Live, OnBus
  <2> QED BY <2>1 DEF ZeroUnused, Live, OnBus
<1>12. Armed'
  <2>1. ASSUME NEW u \in Task, co'[u].st = "waiting", co'[u].timerid # None,
               NEW i, i = co'[u].timerid
        PROVE  /\ timerPool'[i] = u /\ timer'[i].phase # "idle"
               /\ Lossless /\ timer'[i].phase = "expired" => \E n \in 1 .. Len(bus') : bus'[n] = i
    <3>1. CASE u = t
      BY <1>3, <1>4, <2>1, <3>1
    <3>2. CASE u # t
      <4>1. co'[u] = co[u] /\ Blocked(u) /\ i \in TaskIds
        BY <1>4, <2>1, <3>2 DEF Blocked, TypeOK
      <4>2. /\ timerPool[i] = u /\ Live(i)
            /\ Lossless /\ timer[i].phase = "expired" => OnBus(i)
        BY <2>1, <4>1 DEF Armed
      <4>3. i # id
        BY <1>6, <4>2
      <4>4. timerPool'[i] = timerPool[i] /\ timer'[i] = timer[i]
        BY <1>3, <4>1, <4>3, IdSets
      <4> QED BY <1>5, <4>2, <4>4 DEF Live, OnBus
    <3> QED BY <3>1, <3>2
  <2>2. Lossless' <=> Lossless
    BY DEF Lossless
  <2> QED BY <2>1, <2>2 DEF Armed, Live, Blocked, OnBus
<1>13. NoResidue'
  <2>1. ASSUME NothingRefused, NEW i \in TaskIds, NEW u \in Task, timerPool'[i] = u
        PROVE  co'[u].st = "waiting" /\ co'[u].timerid = i
    <3>1. CASE i = id
      BY <1>3, <1>4, <2>1, <3>1
    <3>2. CASE i # id
      <4>1. timerPool[i] = u
        BY <1>3, <2>1, <3>2, IdSets
      <4>2. Blocked(u) /\ co[u].timerid = i
        BY <2>1, <4>1 DEF NoResidue
      <4> QED BY <1>4, <4>2 DEF Blocked
    <3> QED BY <3>1, <3>2
  <2> QED BY <2>1 DEF NoResidue, NothingRefused, Blocked
<1> QED BY <1>7, <1>8, <1>9, <1>10, <1>11, <1>12, <1>13

(* More slots than ids: no table is ever full.                             *)
LEMMA NoneRefused == ASSUME NothingRefused, NEW timers PROVE FALSE \notin Outcomes(timers)
<1>1. IsFiniteSet(Ids)
  <2>1. IsFiniteSet(TaskIds) /\ IsFiniteSet(MsgIds)
    BY BoundsAssumption, FS_Interval DEF TaskIds, MsgIds
  <2> QED BY <2>1, FS_Union DEF Ids
<1>2. /\ Cardinality({i \in Ids : timers[i].phase # "idle"}) <= Cardinality(Ids)
      /\ Cardinality({i \in Ids : timers[i].phase # "idle"}) \in Nat
      /\ Cardinality(Ids) \in Nat
  BY <1>1, FS_Subset, FS_CardinalityType
<1> QED BY <1>2, BoundsAssumption DEF Outcomes, HasSlot, NothingRefused

(* A wait that is refused, or raises, keeps an entry for an id whose timer *)
(* never starts.                                                           *)
LEMMA RefusedPart ==
    ASSUME TypeOK, TimersAreOwned, TaskPart, NEW t \in Task, ~NothingRefused,
           \E id \in TaskIds : NextTaskTimerId(id) /\ timerPool' = [timerPool EXCEPT ![id] = t],
           UNCHANGED <<timer, bus>>, SameWaits
    PROVE  TaskPart' /\ TimersAreOwned'
<1> USE DEF TaskPart
<1>1. PICK id \in TaskIds : NextTaskTimerId(id) /\ timerPool' = [timerPool EXCEPT ![id] = t]
  OBVIOUS
<1>2. timerPool[id] = None /\ ~Live(id)
  BY <1>1, IdSets DEF NextTaskTimerId, FirstFree, Free, TimersAreOwned, Live
<1>3. /\ timerPool'[id] = t /\ \A i \in Ids \ {id} : timerPool'[i] = timerPool[i]
      /\ timer' = timer /\ bus' = bus /\ None \notin Task
  BY <1>1, IdSets, NamesAssumption DEF TypeOK
<1>4. TimersAreOwned'
  BY <1>3 DEF TimersAreOwned
<1>5. OneShots' /\ NotYetAgain' /\ ZeroUnused'
  BY <1>3 DEF OneShots, NotYetAgain, ZeroUnused, Live, OnBus
<1>6. LiveIsWaited'
  <2>1. ASSUME NEW i \in TaskIds, timer'[i].phase # "idle"
        PROVE  /\ timerPool'[i] \in Task
               /\ co'[timerPool'[i]].st = "waiting" /\ co'[timerPool'[i]].timerid = i
    BY <1>2, <1>3, <2>1, IdSets DEF LiveIsWaited, Live, Blocked, SameWaits
  <2> QED BY <2>1 DEF LiveIsWaited, Live, Blocked
<1>7. Armed'
  <2>1. ASSUME NEW u \in Task, co'[u].st = "waiting", co'[u].timerid # None,
               NEW i, i = co'[u].timerid
        PROVE  /\ timerPool'[i] = u /\ timer'[i].phase # "idle"
               /\ Lossless /\ timer'[i].phase = "expired" => \E n \in 1 .. Len(bus') : bus'[n] = i
    <3>1. Blocked(u) /\ co[u].timerid = i /\ i \in TaskIds
      BY <2>1 DEF Blocked, SameWaits, TypeOK
    <3>2. /\ timerPool[i] = u /\ Live(i)
          /\ Lossless /\ timer[i].phase = "expired" => OnBus(i)
      BY <2>1, <3>1 DEF Armed
    <3> QED BY <1>2, <1>3, <3>1, <3>2, IdSets DEF Live, OnBus
  <2>2. Lossless' <=> Lossless
    BY DEF Lossless
  <2> QED BY <2>1, <2>2 DEF Armed, Live, Blocked, OnBus
<1>9. NoResidue'
  BY DEF NoResidue, NothingRefused
<1> QED BY <1>4, <1>5, <1>6, <1>7, <1>9

(* A task leaves its wait, and the timer of the wait goes with it.         *)
LeavesWait(t, S) ==
    /\ co'[t].st # "waiting" /\ \A u \in Task \ {t} : co'[u] = co[u]
    /\ Blocked(t) => \A i \in TaskIds : co[t].timerid = i => i \in S
    /\ \A i \in S : timerPool[i] \in {t, None}
    /\ \A i \in Ids : /\ timerPool'[i] = IF i \in S THEN None ELSE timerPool[i]
                      /\ timer'[i] = IF i \in S THEN Idle ELSE timer[i]
    /\ \A i \in TaskIds : /\ OnBus(i)' => OnBus(i)
                          /\ Lossless /\ i \notin S /\ OnBus(i) => OnBus(i)'

(* Whoever else waits is not concerned.                                    *)
LEMMA LeavePart ==
    ASSUME TypeOK, TimersAreOwned, TaskPart, NEW t \in Task, NEW S, S \subseteq TaskIds,
           LeavesWait(t, S)
    PROVE  TaskPart' /\ TimersAreOwned'
<1> USE DEF TaskPart, LeavesWait
<1>1. TimersAreOwned'
  BY DEF TimersAreOwned, Idle
<1>2. OneShots'
  BY IdSets DEF OneShots, Idle
<1>4. NotYetAgain'
  BY IdSets DEF NotYetAgain, Idle
<1>5. ZeroUnused'
  <2>1. MayWrap \/ (timer'[0].phase = "idle" /\ ~OnBus(0)')
    BY IdSets DEF ZeroUnused, Live, Idle
  <2> QED BY <2>1 DEF ZeroUnused, Live, OnBus
<1>6. LiveIsWaited'
  <2>1. ASSUME NEW i \in TaskIds, timer'[i].phase # "idle"
        PROVE  /\ timerPool'[i] \in Task
               /\ co'[timerPool'[i]].st = "waiting" /\ co'[timerPool'[i]].timerid = i
    <3>1. i \notin S /\ Live(i) /\ timerPool'[i] = timerPool[i]
      BY <2>1, IdSets DEF Live, Idle
    <3>2. timerPool[i] \in Task /\ Blocked(timerPool[i]) /\ co[timerPool[i]].timerid = i
      BY <3>1 DEF LiveIsWaited
    <3>3. timerPool[i] # t
      BY <3>1, <3>2
    <3> QED BY <3>1, <3>2, <3>3 DEF Blocked
  <2> QED BY <2>1 DEF LiveIsWaited, Live, Blocked
<1>7. Armed'
  <2>1. ASSUME NEW u \in Task, co'[u].st = "waiting", co'[u].timerid # None,
               NEW i, i = co'[u].timerid
        PROVE  /\ timerPool'[i] = u /\ timer'[i].phase # "idle"
               /\ Lossless /\ timer'[i].phase = "expired" => \E n \in 1 .. Len(bus') : bus'[n] = i
    <3>1. u # t /\ co'[u] = co[u] /\ Blocked(u) /\ i \in TaskIds
      BY <2>1 DEF Blocked, TypeOK
    <3>2. /\ timerPool[i] = u /\ Live(i)
          /\ Lossless /\ timer[i].phase = "expired" => OnBus(i)
      BY <2>1, <3>1 DEF Armed
    <3>3. i \notin S
      BY <3>1, <3>2, NamesAssumption
    <3>4. Lossless /\ OnBus(i) => OnBus(i)'
      BY <2>1, <3>1, <3>3
    <3> QED BY <3>1, <3>2, <3>3, <3>4, IdSets DEF Live, OnBus
  <2>2. Lossless' <=> Lossless
    BY DEF Lossless
  <2> QED BY <2>1, <2>2 DEF Armed, Live, Blocked, OnBus
<1>8. NoResidue'
  <2>1. ASSUME NothingRefused, NEW i \in TaskIds, NEW u \in Task, timerPool'[i] = u
        PROVE  co'[u].st = "waiting" /\ co'[u].timerid = i
    <3>1. i \notin S /\ timerPool[i] = u
      BY <2>1, IdSets, NamesAssumption
    <3>2. Blocked(u) /\ co[u].timerid = i
      BY <2>1, <3>1 DEF NoResidue
    <3>3. u # t
      BY <3>1, <3>2
    <3> QED BY <3>2, <3>3 DEF Blocked
  <2> QED BY <2>1 DEF NoResidue, NothingRefused, Blocked
<1> QED BY <1>1, <1>2, <1>4, <1>5, <1>6, <1>7, <1>8

(* Woken early: the wait stops its timer and frees its id.                 *)
LEMMA ResumePart ==
    ASSUME TypeOK, TimersAreOwned, TaskPart, NEW t \in Task, Blocked(t), ResumeWith(t),
           bus' = bus
    PROVE  TaskPart' /\ TimersAreOwned'
<1> DEFINE S == {co[t].timerid} \intersect TaskIds
<1>1. \A i \in Ids : i \in WokenEarly(t) <=> i \in S
  BY NamesAssumption DEF WokenEarly, TypeOK
<1>2. \A i \in Ids : /\ timerPool'[i] = IF i \in S THEN None ELSE timerPool[i]
                     /\ timer'[i] = IF i \in S THEN Idle ELSE timer[i]
  BY <1>1 DEF ResumeWith, Clear, TypeOK
<1>3. /\ co'[t].st # "waiting"
      /\ \A u \in Task \ {t} : co'[u] = co[u]
  BY DEF ResumeWith, Running, TypeOK
<1>4. \A i \in S : timerPool[i] \in {t, None}
  BY NamesAssumption, IdSets DEF TaskPart, Armed
<1>5. \A i \in TaskIds : OnBus(i) => OnBus(i)'
  BY DEF OnBus
<1>6. S \subseteq TaskIds /\ \A i \in TaskIds : co[t].timerid = i => i \in S
  OBVIOUS
<1> HIDE DEF S
<1>7. \A i \in TaskIds : OnBus(i)' => OnBus(i)
  BY DEF OnBus
<1>8. LeavesWait(t, S)
  BY <1>2, <1>3, <1>4, <1>5, <1>6, <1>7 DEF LeavesWait
<1> QED BY <1>6, <1>8, LeavePart

(* Woken by the timer, which is that of the wait the task is in.           *)
LEMMA ReceivePart ==
    ASSUME TypeInv, TimersAreOwned, TaskPart, NEW id \in Ids, ReceiveTaskTimer(id)
    PROVE  /\ TaskPart' /\ TimersAreOwned'
           /\ timerPool[id] \in Task /\ Live(id) /\ co[timerPool[id]].timerid = id
           /\ Resolved(Head(bus)) # {} /\ OnBus(Head(bus)) /\ Head(bus) \in Ids
           /\ id \in Resolved(Head(bus)) /\ id \in TaskIds
<1> USE DEF TaskPart
<1> DEFINE t == timerPool[id]
<1>1. id \in TaskIds /\ Live(id) /\ TypeOK /\ None \notin Task
  BY BoundsAssumption, NamesAssumption
     DEF ReceiveTaskTimer, HandleTimer, TypeInv, Ids, TaskIds, MsgIds
<1>2. t \in Task /\ Blocked(t) /\ co[t].timerid = id
  BY <1>1 DEF LiveIsWaited
<1>3. Handled(timer[id]) = Idle
  BY <1>1 DEF OneShots, Handled
<1>4. \A i \in Ids : /\ timerPool'[i] = IF i \in {id} THEN None ELSE timerPool[i]
                     /\ timer'[i] = IF i \in {id} THEN Idle ELSE timer[i]
  BY <1>1, <1>3 DEF ReceiveTaskTimer, HandleTimer, TypeOK
<1>5. co'[t].st # "waiting" /\ \A u \in Task \ {t} : co'[u] = co[u]
  BY <1>1, <1>2 DEF ReceiveTaskTimer, Running, TypeOK
<1>6. /\ bus # <<>> /\ bus' = Tail(bus) /\ Head(bus) \in Ids
      /\ id \in Resolved(Head(bus))
  BY DEF ReceiveTaskTimer, HandleTimer, Receiving
<1>7. OnBus(Head(bus))
  <2>1. 1 \in 1 .. Len(bus) /\ bus[1] = Head(bus)
    BY <1>1, <1>6 DEF TypeOK
  <2> QED BY <2>1 DEF OnBus
<1>8. Lossless => Head(bus) = id
  BY <1>6 DEF Lossless, Resolved
<1>9. \A i \in TaskIds : OnBus(i)' => OnBus(i)
  BY <1>1, <1>6, OneLess
<1>10. Lossless => \A i \in TaskIds : i # id /\ OnBus(i) => OnBus(i)'
  BY <1>1, <1>6, <1>8, OneLess
<1>11. LeavesWait(t, {id})
  BY <1>2, <1>4, <1>5, <1>9, <1>10 DEF LeavesWait
<1>12. TaskPart' /\ TimersAreOwned'
  BY <1>1, <1>2, <1>11, LeavePart
<1> QED BY <1>1, <1>2, <1>6, <1>7, <1>12

(* A timer expires and posts its id.                                       *)
LEMMA ExpirePart ==
    ASSUME TypeInv, TimersAreOwned, TaskPart, NEW id \in Ids, Expire(id)
    PROVE  TaskPart' /\ TimersAreOwned'
<1>1. /\ TypeOK /\ timer[id].phase = "running" /\ Live(id) /\ Post(id)
      /\ UNCHANGED <<co, timerPool>>
      /\ timer'[id] = Expired(timer[id])
      /\ \A i \in Ids \ {id} : timer'[i] = timer[i]
  BY DEF Expire, TypeInv, TypeOK, Live, luaVars
<1>2. timer'[id].phase # "idle"
  BY <1>1 DEF Expired
<1>3. TimersAreOwned'
  BY <1>1, <1>2 DEF TimersAreOwned, Live
<1>4. \A x : (OnBus(x)' => OnBus(x) \/ x = id) /\ (OnBus(x) => OnBus(x)')
  BY <1>1, Posted
<1>5. Port = "pc" => OnBus(id)'
  BY <1>1, Posted
<1>6. CASE id \notin TaskIds
  <2>1. SameTimers
    BY <1>1, <1>6, IdSets DEF SameTimers
  <2>2. SameBus
    BY <1>4, <1>6 DEF SameBus
  <2>3. SameWaits
    BY <1>1 DEF SameWaits
  <2> QED BY <1>1, <1>3, <2>1, <2>2, <2>3, FramePart
<1>7. CASE id \in TaskIds
  <2> USE DEF TaskPart
  <2>1. timer'[id].phase = "expired" /\ timer'[id].repeat = 0 /\ ~timer'[id].loop
    BY <1>1, <1>7 DEF OneShots, Expired, Reloads
  <2>2. OneShots'
    BY <1>1, <2>1, IdSets DEF OneShots
  <2>3. \A i \in TaskIds : timer'[i].phase # "idle" => Live(i)
    BY <1>1, IdSets DEF Live
  <2>4. LiveIsWaited'
    <3>1. ASSUME NEW i \in TaskIds, timer'[i].phase # "idle"
          PROVE  /\ timerPool'[i] \in Task
                 /\ co'[timerPool'[i]].st = "waiting" /\ co'[timerPool'[i]].timerid = i
      BY <1>1, <2>3, <3>1 DEF LiveIsWaited, Blocked
    <3> QED BY <3>1 DEF LiveIsWaited, Live, Blocked
  <2>5. NotYetAgain'
    <3>1. ASSUME NEW i \in TaskIds, OnBus(i)' PROVE timer'[i].phase # "running"
      BY <1>1, <1>4, <2>1, <3>1, IdSets DEF NotYetAgain
    <3> QED BY <3>1 DEF NotYetAgain, OnBus
  <2>6. ZeroUnused'
    <3>1. MayWrap \/ (timer'[0].phase = "idle" /\ ~OnBus(0)')
      BY <1>1, <1>4, <2>3, IdSets DEF ZeroUnused
    <3> QED BY <3>1 DEF ZeroUnused, Live, OnBus
  <2>7. Armed'
    <3>1. ASSUME NEW u \in Task, co'[u].st = "waiting", co'[u].timerid # None,
                 NEW i, i = co'[u].timerid
          PROVE  /\ timerPool'[i] = u /\ timer'[i].phase # "idle"
                 /\ Lossless /\ timer'[i].phase = "expired" => \E n \in 1 .. Len(bus') : bus'[n] = i
      <4>1. Blocked(u) /\ i = co[u].timerid /\ i \in TaskIds
        BY <1>1, <3>1 DEF Blocked, TypeOK
      <4>2. /\ timerPool[i] = u /\ Live(i)
            /\ Lossless /\ timer[i].phase = "expired" => OnBus(i)
        BY <1>1, <3>1, <4>1 DEF Armed
      <4>3. Lossless /\ timer'[i].phase = "expired" => OnBus(i)'
        BY <1>1, <1>4, <1>5, <4>1, <4>2, IdSets DEF Lossless
      <4>4. timer'[i].phase # "idle"
        BY <1>1, <1>2, <4>1, <4>2, IdSets DEF Live
      <4> QED BY <1>1, <4>2, <4>3, <4>4 DEF OnBus
    <3>2. Lossless' <=> Lossless
      BY DEF Lossless
    <3> QED BY <3>1, <3>2 DEF Armed, Live, Blocked, OnBus
  <2>8. NoResidue'
    BY <1>1 DEF NoResidue, NothingRefused, Blocked
  <2> QED BY <1>3, <2>2, <2>4, <2>5, <2>6, <2>7, <2>8
<1> QED BY <1>6, <1>7

-----------------------------------------------------------------------------
(* Every step of the scheduler, the timers and the drivers.                *)
LEMMA NextTimerInv == TimerInv /\ [Next]_vars => TimerInv'
<1> SUFFICES ASSUME TimerInv, [Next]_vars
             PROVE  TaskPart' /\ TimersAreOwned' /\ SnapshotHasMessage'
  BY NextWaitInv DEF TimerInv
<1>0. /\ TypeInv /\ TypeOK /\ TaskPart /\ TimersAreOwned /\ SnapshotHasMessage
      /\ Topic \intersect Ids = {} /\ Fn \subseteq Callback
      /\ TaskIds \subseteq Ids /\ MsgIds \subseteq Ids /\ TaskIds \intersect MsgIds = {}
  BY NamesAssumption, IdSets DEF TimerInv, WaitInv, TypeInv, Callback
<1> DEFINE Goal == TaskPart' /\ TimersAreOwned' /\ SnapshotHasMessage'
<1>1. ASSUME NEW t \in Task, TaskRuns(t)
      PROVE  ~Blocked(t)
  <2>1. stack # <<>> /\ stack[1].who = t /\ 1 \in 1 .. Len(stack)
    BY <1>0, <1>1 DEF TaskRuns, Busy, Current, TypeOK
  <2>2. co[t] = Running
    BY <2>1 DEF TimerInv, WaitInv, StackIsRunning
  <2> QED BY <2>2 DEF Blocked, Running
<1>2. ASSUME UNCHANGED <<co, bus, tmpt, message>>, SameTimers, TimersAreOwned'
      PROVE  Goal
  <2>1. SameBus /\ SameWaits
    BY <1>2 DEF SameBus, SameWaits, OnBus
  <2>2. SnapshotHasMessage'
    BY <1>0, <1>2 DEF SnapshotHasMessage
  <2> QED BY <1>0, <1>2, <2>1, <2>2, FramePart
<1>3. ASSUME UNCHANGED <<timer, timerPool, bus, tmpt, message>>, SameWaits
      PROVE  Goal
  <2>1. SameBus /\ SameTimers /\ TimersAreOwned'
    BY <1>0, <1>3 DEF SameBus, SameTimers, OnBus, TimersAreOwned
  <2>2. SnapshotHasMessage'
    BY <1>0, <1>3 DEF SnapshotHasMessage
  <2> QED BY <1>0, <1>3, <2>1, <2>2, FramePart
<1>4. ASSUME UNCHANGED <<co, timer, timerPool, bus, tmpt, message>>
      PROVE  Goal
  BY <1>3, <1>4 DEF SameWaits
<1>5. ASSUME NEW f \in Fn, NEW a \in Arg \union {None}, NEW r \in Repeats,
             TimerAdvStart(f, a, r)
      PROVE  Goal
  <2>1. f \in Callback /\ AdvStart(f, a, r)
    BY <1>0, <1>5 DEF TimerAdvStart
  <2>2. SameTimers /\ TimersAreOwned'
    BY <1>0, <2>1, AdvStartFrame
  <2> QED BY <1>2, <1>5, <2>2 DEF TimerAdvStart
<1>6. ASSUME NEW S, S \subseteq MsgIds, StopTimers(S),
             UNCHANGED <<bus, tmpt, message, co>>
      PROVE  Goal
  <2>1. SameTimers /\ TimersAreOwned'
    BY <1>0, <1>6, StopFrame
  <2> QED BY <1>2, <1>6, <2>1
<1>7. ASSUME NEW f \in Fn, NEW a \in Arg \union {None}, TimerStop(f, a)
      PROVE  Goal
  <2>1. PICK S \in StopChoices(f, a) : StopTimers(S)
    BY <1>7 DEF TimerStop
  <2>2. S \subseteq MsgIds
    BY <1>0, OwnedByCallback DEF StopChoices, Matching
  <2> QED BY <1>6, <1>7, <2>1, <2>2 DEF TimerStop
<1>8. ASSUME NEW id \in MsgIds, TimerStopId(id)
      PROVE  Goal
  BY <1>6, <1>8 DEF TimerStopId
<1>9. ASSUME NEW f \in Fn, TimerStopAll(f)
      PROVE  Goal
  <2>1. {id \in Ids : timerPool[id] = f} \subseteq MsgIds
    BY <1>0, OwnedByCallback
  <2> QED BY <1>6, <1>9, <2>1 DEF TimerStopAll
<1>10. ASSUME NEW m \in Topic, Publish(m)
       PROVE  Goal
  BY <1>4, <1>10 DEF Publish
<1>11. ASSUME NEW m \in Topic, NEW f \in Fn, Subscribe(m, f) \/ Unsubscribe(m, f)
       PROVE  Goal
  BY <1>4, <1>11 DEF Subscribe, Unsubscribe
<1>12. ASSUME NEW t \in Task, TaskInit(t)
       PROVE  Goal
  <2>1. SameWaits
    BY <1>0, <1>12 DEF TaskInit, SameWaits, Blocked, Running, Dead, TypeOK
  <2> QED BY <1>3, <1>12, <2>1 DEF TaskInit
<1>13. ASSUME NEW t \in Task, WaitRefused(t)
       PROVE  Goal
  <2>1. SnapshotHasMessage' /\ SameWaits
    BY <1>0, <1>13 DEF WaitRefused, SnapshotHasMessage, SameWaits
  <2>2. ~NothingRefused
    BY <1>13, NoneRefused DEF WaitRefused
  <2> QED BY <1>0, <1>13, <2>1, <2>2, RefusedPart DEF WaitRefused
<1>33. ASSUME NEW t \in Task, NEW m \in Topic, WaitRaises(t, m)
       PROVE  Goal
  <2>1. SnapshotHasMessage' /\ ~Blocked(t) /\ ~NothingRefused
    BY <1>0, <1>1, <1>33 DEF WaitRaises, SnapshotHasMessage, NothingRefused
  <2>2. SameWaits
    BY <1>0, <1>33, <2>1 DEF WaitRaises, SameWaits, Blocked, DiedIn, TypeOK
  <2> QED BY <1>0, <1>33, <2>1, <2>2, RefusedPart DEF WaitRaises
<1>34. CASE WaitRaised
  <2>1. SameTimers /\ TimersAreOwned'
    BY <1>0, <1>34, WrapperFrame DEF WaitRaised
  <2> QED BY <1>2, <1>34, <2>1 DEF WaitRaised
<1>14. ASSUME NEW t \in Task, NEW m \in Topic \union {None}, Wait(t, m)
       PROVE  Goal
  <2>1. SnapshotHasMessage' /\ ~Blocked(t)
    BY <1>0, <1>1, <1>14 DEF Wait, SnapshotHasMessage
  <2> QED BY <1>0, <1>14, <2>1, WaitPartOfTimers
<1>15. ASSUME NEW t \in Task, NEW m \in Topic, WaitForever(t, m)
       PROVE  Goal
  <2>1. ~Blocked(t)
    BY <1>1, <1>15 DEF WaitForever
  <2>2. SameWaits
    BY <1>0, <1>15, <2>1 DEF WaitForever, SameWaits, Waiting, TypeOK
  <2> QED BY <1>3, <1>15, <2>2 DEF WaitForever
<1>16. ASSUME NEW t \in Task, TaskReturn(t) \/ TaskError(t)
       PROVE  Goal
  <2>1. ~Blocked(t) /\ co' = [co EXCEPT ![t] = Dead]
        /\ UNCHANGED <<bus, tmpt, message>>
    BY <1>1, <1>16 DEF TaskReturn, TaskError
  <2>2. SameWaits /\ SameBus
    BY <1>0, <2>1 DEF SameWaits, SameBus, OnBus, Blocked, Dead, TypeOK
  <2>3. SnapshotHasMessage'
    BY <1>0, <2>1 DEF SnapshotHasMessage
  <2>4. SameTimers /\ TimersAreOwned'
    <3>1. CASE TaskReturn(t)
      BY <1>0, <3>1 DEF TaskReturn, SameTimers, TimersAreOwned
    <3>2. CASE TaskError(t)
      BY <1>0, <3>2, WrapperFrame DEF TaskError
    <3> QED BY <1>16, <3>1, <3>2
  <2> QED BY <1>0, <2>2, <2>3, <2>4, FramePart
<1>17. CASE FnReturn \/ FnError
  BY <1>4, <1>17 DEF FnReturn, FnError
<1>18. CASE Reboot
  <2>1. \A id \in Ids : timer'[id] = Idle
    BY <1>18 DEF Reboot
  <2>2. bus' = <<>> /\ tmpt' = {} /\ \A t \in Task : co'[t] = Dead
    BY <1>18 DEF Reboot
  <2>3. TimersAreOwned' /\ SnapshotHasMessage'
    BY <2>1, <2>2 DEF TimersAreOwned, SnapshotHasMessage, Idle
  <2>4. OneShots' /\ LiveIsWaited' /\ NotYetAgain' /\ ZeroUnused' /\ Armed'
    BY <1>0, <2>1, <2>2, IdSets
       DEF OneShots, LiveIsWaited, NotYetAgain, ZeroUnused, Armed,
           Live, OnBus, Blocked, Idle, Dead
  <2>5. NoResidue'
    BY <1>0, <1>18, NamesAssumption DEF Reboot, NoResidue
  <2> QED BY <2>3, <2>4, <2>5 DEF TaskPart
<1>19. CASE DispatchPop
  <2>1. SnapshotHasMessage'
    BY <1>0, <1>19 DEF DispatchPop, SnapshotHasMessage, TypeOK
  <2>2. SameTimers /\ SameBus /\ SameWaits /\ TimersAreOwned'
    BY <1>0, <1>19 DEF DispatchPop, SameTimers, SameBus, SameWaits, OnBus, TimersAreOwned
  <2> QED BY <1>0, <2>1, <2>2, FramePart
<1>20. ASSUME NEW c, Dispatched(c)
       PROVE  SnapshotHasMessage'
  BY <1>0, <1>20 DEF Dispatched, SnapshotHasMessage
<1>21. ASSUME NEW f \in Fn, DispatchFn(f)
       PROVE  Goal
  <2>1. SnapshotHasMessage'
    BY <1>20, <1>21 DEF DispatchFn
  <2>2. SameTimers /\ SameBus /\ SameWaits /\ TimersAreOwned'
    BY <1>0, <1>21 DEF DispatchFn, SameTimers, SameBus, SameWaits, OnBus, TimersAreOwned
  <2> QED BY <1>0, <2>1, <2>2, FramePart
<1>22. ASSUME NEW t \in Task, DispatchTask(t) \/ Resume(t)
       PROVE  Goal
  <2>1. Blocked(t) /\ ResumeWith(t) /\ bus' = bus
    BY <1>22 DEF DispatchTask, Resume, Blocked
  <2>2. SnapshotHasMessage'
    BY <1>0, <1>20, <1>22 DEF DispatchTask, Resume, SnapshotHasMessage
  <2> QED BY <1>0, <2>1, <2>2, ResumePart
<1>23. ASSUME NEW t \in Task, DispatchDead(t)
       PROVE  Goal
  <2>1. SnapshotHasMessage' /\ Wrapper
    BY <1>20, <1>23 DEF DispatchDead
  <2>2. SameTimers /\ TimersAreOwned'
    BY <1>0, <2>1, WrapperFrame
  <2>3. SameBus /\ SameWaits
    BY <1>23 DEF DispatchDead, SameBus, SameWaits, OnBus
  <2> QED BY <1>0, <2>1, <2>2, <2>3, FramePart
<1>24. CASE ReceiveDriver \/ ReceiveStale
  <2>1. /\ bus # <<>> /\ bus' = Tail(bus)
        /\ UNCHANGED <<co, timer, timerPool, tmpt, message>>
    BY <1>24 DEF ReceiveDriver, ReceiveStale, Receiving
  <2>2. \A x : /\ OnBus(x)' => OnBus(x)
               /\ OnBus(x) /\ x # Head(bus) => OnBus(x)'
    BY <1>0, <2>1, OneLess
  <2>3. ASSUME NEW id \in TaskIds, Lossless, OnBus(id), Live(id), id = Head(bus)
        PROVE  FALSE
    <3>1. ReceiveStale
      BY <1>0, <1>24, <2>3 DEF ReceiveDriver
    <3>2. id # 0
      BY <1>0, <2>3 DEF TaskPart, ZeroUnused, Lossless
    <3> QED BY <2>3, <3>1, <3>2 DEF ReceiveStale, Resolved
  <2>4. SameBus
    BY <2>2, <2>3 DEF SameBus
  <2>5. SameTimers /\ SameWaits /\ TimersAreOwned' /\ SnapshotHasMessage'
    BY <1>0, <2>1 DEF SameTimers, SameWaits, TimersAreOwned, SnapshotHasMessage
  <2> QED BY <1>0, <2>4, <2>5, FramePart
<1>25. ASSUME NEW id \in Ids, ReceiveTaskTimer(id)
       PROVE  Goal
  <2>1. SnapshotHasMessage'
    BY <1>0, <1>25 DEF ReceiveTaskTimer, SnapshotHasMessage
  <2> QED BY <1>0, <1>25, <2>1, ReceivePart
<1>26. ASSUME NEW id \in Ids, ReceiveCallback(id)
       PROVE  Goal
  <2>1. /\ id \in MsgIds /\ bus # <<>> /\ bus' = Tail(bus)
        /\ id \in Resolved(Head(bus)) /\ Live(id)
        /\ UNCHANGED <<co, tmpt, message>>
    BY <1>26, BoundsAssumption
       DEF ReceiveCallback, HandleTimer, Receiving, Ids, TaskIds, MsgIds
  <2>2. /\ \A i \in Ids \ {id} : timer'[i] = timer[i] /\ timerPool'[i] = timerPool[i]
        /\ timer'[id] = Handled(timer[id])
        /\ timerPool'[id] = IF timer[id].repeat = 0 THEN None ELSE timerPool[id]
    BY <1>0, <1>26 DEF ReceiveCallback, HandleTimer, TypeOK
  <2>3. SameTimers
    BY <1>0, <2>1, <2>2 DEF SameTimers
  <2>4. TimersAreOwned'
    BY <1>0, <2>1, <2>2 DEF TimersAreOwned, Handled, Idle, Live
  <2>5. \A x : /\ OnBus(x)' => OnBus(x)
               /\ OnBus(x) /\ x # Head(bus) => OnBus(x)'
    BY <1>0, <2>1, OneLess
  <2>6. Lossless => Head(bus) = id
    BY <2>1 DEF Lossless, Resolved
  <2>7. SameBus
    BY <1>0, <2>1, <2>5, <2>6 DEF SameBus
  <2>8. SameWaits /\ SnapshotHasMessage'
    BY <1>0, <2>1 DEF SameWaits, SnapshotHasMessage
  <2> QED BY <1>0, <2>3, <2>4, <2>7, <2>8, FramePart
<1>27. ASSUME NEW id \in Ids, Expire(id)
       PROVE  Goal
  <2>1. SnapshotHasMessage'
    BY <1>0, <1>27 DEF Expire, luaVars, SnapshotHasMessage
  <2> QED BY <1>0, <1>27, <2>1, ExpirePart
<1>28. ASSUME NEW m \in Topic, DriverEvent(m)
       PROVE  Goal
  <2>1. Post(m) /\ UNCHANGED <<co, timer, timerPool, tmpt, message>>
    BY <1>28 DEF DriverEvent, luaVars
  <2>2. SameBus
    BY <1>0, <2>1, Posted DEF SameBus
  <2>3. SameTimers /\ SameWaits /\ TimersAreOwned' /\ SnapshotHasMessage'
    BY <1>0, <2>1 DEF SameTimers, SameWaits, TimersAreOwned, SnapshotHasMessage
  <2> QED BY <1>0, <2>2, <2>3, FramePart
<1>29. CASE UNCHANGED vars
  BY <1>4, <1>29 DEF vars
<1> HIDE DEF Goal
<1>30. CASE Script
  <2>1. \/ \E f \in Fn, a \in Arg \union {None}, r \in Repeats :
             TimerAdvStart(f, a, r)
        \/ \E f \in Fn, a \in Arg \union {None} : TimerStop(f, a)
        \/ \E id \in MsgIds : TimerStopId(id)
        \/ \E f \in Fn : TimerStopAll(f)
        \/ \E m \in Topic : Publish(m)
        \/ \E m \in Topic, f \in Fn : Subscribe(m, f) \/ Unsubscribe(m, f)
        \/ \E t \in Task : TaskInit(t) \/ WaitRefused(t) \/ Resume(t)
    BY <1>30 DEF Script
  <2> QED BY <1>5, <1>7, <1>8, <1>9, <1>10, <1>11, <1>12, <1>13, <1>22, <2>1 DEF Goal
<1>31. CASE Yield
  BY <1>14, <1>15, <1>16, <1>17, <1>31, <1>33, <1>34 DEF Yield, Goal
<1>32. CASE Dispatch \/ Receive
  BY <1>19, <1>21, <1>22, <1>23, <1>24, <1>25, <1>26, <1>32 DEF Dispatch, Receive, Goal
<1> QED
  BY <1>18, <1>27, <1>28, <1>29, <1>30, <1>31, <1>32 DEF Next, Goal

LEMMA TimersInvariant == Spec => []TimerInv
BY InitTimerInv, NextTimerInv, PTL DEF Spec

-----------------------------------------------------------------------------
(* The arguments of callbacks.  They have an owner, the entry of their     *)
(* timer or the callback in progress that will drop them, and an id that a *)
(* callback will drop has left the pool; so timerAdvStart finds nothing    *)
(* under the id it takes, and what it stops was the only entry of its pair.*)

Cleared(id) == \E i \in 1 .. Len(stack) : stack[i].clears = id

OnlyCallbacksClear == \A i \in 1 .. Len(stack) : stack[i].clears # None => stack[i].who \in Fn

ParaPart ==
    /\ OnlyCallbacksClear
    /\ \A id \in MsgIds : Cleared(id) => timerPool[id] = None
    /\ vm # "exit" => \A id \in MsgIds : para[id] # None => timerPool[id] # None \/ Cleared(id)
    /\ \A id \in TaskIds : para[id] = None
    /\ NothingRefused => \A i, j \in MsgIds :
           timerPool[i] # None /\ timerPool[i] = timerPool[j] /\ para[i] = para[j] => i = j

ParaInv == TimerInv /\ ParaPart

LEMMA InitParaPart == Init => ParaPart
<1> SUFFICES ASSUME Init PROVE ParaPart
  OBVIOUS
<1>1. /\ \A id \in Ids : timerPool[id] = None /\ para[id] = None
      /\ \A i \in 1 .. Len(stack) : stack[i].clears = None
  BY DEF Init
<1>2. \A id \in MsgIds : ~Cleared(id)
  BY <1>1, IdSets, NamesAssumption DEF Cleared
<1> QED BY <1>1, <1>2, IdSets DEF ParaPart, OnlyCallbacksClear

(* A function is called, and returns.                                      *)
LEMMA Called ==
    ASSUME TypeOK, NEW who, NEW clears, stack' = Call(who, clears),
           OnlyCallbacksClear, clears = None \/ who \in Fn
    PROVE  /\ OnlyCallbacksClear'
           /\ \A x : Cleared(x)' <=> Cleared(x) \/ x = clears
<1> DEFINE top == [who |-> who, clears |-> clears]
<1>1. /\ Len(stack') = Len(stack) + 1 /\ Len(stack) \in Nat /\ stack'[1] = top
      /\ \A i \in 1 .. Len(stack) : i + 1 \in 1 .. Len(stack') /\ stack'[i + 1] = stack[i]
  BY DEF TypeOK, Call
<1>2. top.who = who /\ top.clears = clears
  OBVIOUS
<1> HIDE DEF top
<1>3. 1 \in 1 .. Len(stack')
  BY <1>1
<1>4. \A i \in 1 .. Len(stack') : i = 1 \/ (i - 1 \in 1 .. Len(stack) /\ stack'[i] = stack[i - 1])
  <2> SUFFICES ASSUME NEW i \in 1 .. Len(stack'), i # 1
               PROVE  i - 1 \in 1 .. Len(stack) /\ stack'[i] = stack[i - 1]
    OBVIOUS
  <2>1. i - 1 \in 1 .. Len(stack) /\ (i - 1) + 1 = i
    BY <1>1
  <2>2. stack'[(i - 1) + 1] = stack[i - 1]
    BY <1>1, <2>1
  <2> QED BY <2>1, <2>2
<1>5. OnlyCallbacksClear'
  BY <1>1, <1>2, <1>4 DEF OnlyCallbacksClear
<1>6. ASSUME NEW x PROVE Cleared(x)' <=> Cleared(x) \/ x = clears
  BY <1>1, <1>2, <1>3, <1>4, SMTT(30) DEF Cleared
<1> QED BY <1>5, <1>6

LEMMA Returned ==
    ASSUME TypeOK, stack # <<>>, stack' = Return, OnlyCallbacksClear
    PROVE  /\ OnlyCallbacksClear'
           /\ \A x : /\ Cleared(x)' => Cleared(x)
                     /\ Cleared(x) => Cleared(x)' \/ x = Head(stack).clears
<1>1. /\ Len(stack') = Len(stack) - 1 /\ Len(stack) \in Nat /\ Len(stack) > 0
      /\ Head(stack) = stack[1] /\ \A i \in 1 .. Len(stack') : stack'[i] = stack[i + 1]
  BY DEF TypeOK, Return
<1>2. \A i \in 1 .. Len(stack') : i + 1 \in 1 .. Len(stack)
  BY <1>1
<1>3. \A i \in 1 .. Len(stack) :
        i = 1 \/ (i - 1 \in 1 .. Len(stack') /\ stack'[i - 1] = stack[i])
  <2> SUFFICES ASSUME NEW i \in 1 .. Len(stack), i # 1
               PROVE  i - 1 \in 1 .. Len(stack') /\ stack'[i - 1] = stack[i]
    OBVIOUS
  <2>1. i - 1 \in 1 .. Len(stack') /\ (i - 1) + 1 = i
    BY <1>1
  <2>2. stack'[i - 1] = stack[(i - 1) + 1]
    BY <1>1, <2>1
  <2> QED BY <2>1, <2>2
<1>4. OnlyCallbacksClear'
  BY <1>1, <1>2 DEF OnlyCallbacksClear
<1>5. ASSUME NEW x PROVE /\ Cleared(x)' => Cleared(x)
                         /\ Cleared(x) => Cleared(x)' \/ x = Head(stack).clears
  BY <1>1, <1>2, <1>3 DEF Cleared
<1> QED BY <1>4, <1>5

(* Steps that leave the entries of callbacks alone.                        *)
SameEntries ==
    /\ \A id \in MsgIds : timerPool'[id] = timerPool[id]
    /\ para' = para

SameClears ==
    /\ OnlyCallbacksClear'
    /\ \A id \in MsgIds : Cleared(id)' <=> Cleared(id)

LEMMA SamePara ==
    ASSUME ParaPart, SameEntries, SameClears, vm # "exit" \/ vm' = vm
    PROVE  ParaPart'
<1>1. NothingRefused' <=> NothingRefused
  BY DEF NothingRefused
<1>2. \A id \in MsgIds : Cleared(id)' => timerPool'[id] = None
  BY DEF ParaPart, SameEntries, SameClears
<1>3. vm' # "exit" =>
        \A id \in MsgIds : para'[id] # None => timerPool'[id] # None \/ Cleared(id)'
  BY DEF ParaPart, SameEntries, SameClears
<1>4. \A id \in TaskIds : para'[id] = None
  BY DEF ParaPart, SameEntries
<1>5. NothingRefused => \A i, j \in MsgIds :
        timerPool'[i] # None /\ timerPool'[i] = timerPool'[j] /\ para'[i] = para'[j] => i = j
  BY DEF ParaPart, SameEntries
<1> QED BY <1>1, <1>2, <1>3, <1>4, <1>5 DEF ParaPart, SameClears

(* timerStop, timerStopAll, timerStop(id).                                 *)
LEMMA StopPara ==
    ASSUME TypeOK, ParaPart, NEW S, StopTimers(S), UNCHANGED <<stack, vm>>
    PROVE  ParaPart'
<1>1. \A id \in Ids : /\ timerPool'[id] = IF id \in S THEN None ELSE timerPool[id]
                      /\ para'[id] = IF id \in S THEN None ELSE para[id]
  BY DEF StopTimers, Clear, TypeOK
<1>2. OnlyCallbacksClear' /\ \A id : Cleared(id)' <=> Cleared(id)
  BY DEF ParaPart, OnlyCallbacksClear, Cleared
<1>3. NothingRefused' <=> NothingRefused
  BY DEF NothingRefused
<1>4. \A id \in MsgIds : Cleared(id)' => timerPool'[id] = None
  BY <1>1, <1>2, IdSets DEF ParaPart
<1>5. vm' # "exit" =>
        \A id \in MsgIds : para'[id] # None => timerPool'[id] # None \/ Cleared(id)'
  BY <1>1, <1>2, IdSets DEF ParaPart
<1>6. \A id \in TaskIds : para'[id] = None
  BY <1>1, IdSets DEF ParaPart
<1>7. NothingRefused => \A i, j \in MsgIds :
        timerPool'[i] # None /\ timerPool'[i] = timerPool'[j] /\ para'[i] = para'[j] => i = j
  BY <1>1, IdSets DEF ParaPart
<1> QED BY <1>2, <1>3, <1>4, <1>5, <1>6, <1>7 DEF ParaPart

(* timerAdvStart: it stops the one entry of its pair, if there is any.     *)
LEMMA AdvStartPara ==
    ASSUME TypeInv, TypeOK, ParaPart, vm # "exit", NEW f \in Callback, NEW args \in Arg \union {None},
           NEW repeat, AdvStart(f, args, repeat), SameClears
    PROVE  ParaPart'
<1>1. PICK S \in StopChoices(f, args), id \in MsgIds :
        /\ NextMsgId(id, Clear(timerPool, S, None))
        /\ timerPool' = [Clear(timerPool, S, None) EXCEPT ![id] = f]
        /\ \E ok \in Outcomes(Clear(timer, S, Idle)) :
             para' = IF ok /\ args # None
                     THEN [Clear(para, S, None) EXCEPT ![id] = args]
                     ELSE Clear(para, S, None)
  BY Zenon DEF AdvStart
<1>2. PICK ok \in Outcomes(Clear(timer, S, Idle)) :
        para' = IF ok /\ args # None
                THEN [Clear(para, S, None) EXCEPT ![id] = args]
                ELSE Clear(para, S, None)
  BY <1>1
<1>3. /\ id \in S \/ timerPool[id] = None
      /\ ~InFlight(id)
  BY <1>1, IdSets DEF NextMsgId, FirstFree, Free, Clear, TypeOK
<1>4. id \in S \/ para[id] = None
  BY <1>3 DEF ParaPart, Cleared, InFlight
<1>5. ~Cleared(id)' /\ f # None
  BY <1>3, NamesAssumption DEF SameClears, Cleared, InFlight
<1>6. \A i \in Ids : timerPool'[i] = IF i = id THEN f ELSE IF i \in S THEN None ELSE timerPool[i]
  BY <1>1, IdSets DEF Clear, TypeOK
<1>7. \A i \in Ids : para'[i] = IF i = id THEN (IF ok THEN args ELSE None)
                                ELSE IF i \in S THEN None ELSE para[i]
  BY <1>2, <1>4, IdSets DEF Clear, TypeOK
<1>8. NothingRefused' <=> NothingRefused
  BY DEF NothingRefused
<1>9. \A i \in MsgIds : Cleared(i)' => timerPool'[i] = None
  BY <1>5, <1>6, IdSets DEF ParaPart, SameClears
<1>10. \A i \in MsgIds : para'[i] # None => timerPool'[i] # None \/ Cleared(i)'
  BY <1>5, <1>6, <1>7, IdSets DEF ParaPart, SameClears
<1>11. \A i \in TaskIds : para'[i] = None
  BY <1>7, IdSets DEF ParaPart
<1>12. ASSUME NothingRefused, NEW i \in MsgIds, NEW j \in MsgIds, i # j,
              timerPool'[i] # None, timerPool'[i] = timerPool'[j], para'[i] = para'[j]
       PROVE  FALSE
  <2>1. ok
    BY <1>2, <1>12, NoneRefused DEF Outcomes
  <2>2. \A x, y \in MsgIds :
          timerPool[x] # None /\ timerPool[x] = timerPool[y] /\ para[x] = para[y] => x = y
    BY <1>12 DEF ParaPart
  <2>3. ASSUME NEW x \in MsgIds, x # id, timerPool'[x] = f, para'[x] = args
        PROVE  FALSE
    <3>1. x \in Matching(f, args) /\ x \notin S
      BY <1>5, <1>6, <1>7, <2>3, IdSets DEF Matching
    <3>2. PICK y \in Matching(f, args) : S = {y}
      BY <3>1 DEF StopChoices
    <3>3. y \in Ids /\ timerPool[y] = f /\ para[y] = args /\ y # x
      BY <3>1, <3>2 DEF Matching
    <3>4. timerPool[x] = f /\ para[x] = args
      BY <3>1 DEF Matching
    <3>5. y \in MsgIds
      BY <3>3, OwnedByCallback
    <3> QED BY <1>5, <2>2, <3>3, <3>4, <3>5
  <2>4. CASE i = id
    BY <1>6, <1>7, <1>12, <2>1, <2>3, <2>4, IdSets
  <2>5. CASE j = id
    BY <1>6, <1>7, <1>12, <2>1, <2>3, <2>5, IdSets
  <2>6. CASE i # id /\ j # id
    BY <1>6, <1>7, <1>12, <2>2, <2>6, IdSets
  <2> QED BY <2>4, <2>5, <2>6
<1> QED BY <1>8, <1>9, <1>10, <1>11, <1>12 DEF ParaPart, SameClears

(* What the Lua thread executes changes, and no callback returns.          *)
LEMMA StackClears ==
    ASSUME TypeOK, ParaPart,
           \/ stack' = stack
           \/ \E who : stack' = Call(who, None)
           \/ \E t \in Task : TaskRuns(t) /\ stack' = Return
    PROVE  SameClears
<1> USE DEF ParaPart, SameClears
<1>0. None \notin MsgIds
  BY IdSets, NamesAssumption
<1>1. CASE stack' = stack
  BY <1>1 DEF OnlyCallbacksClear, Cleared
<1>2. ASSUME NEW who, stack' = Call(who, None) PROVE SameClears
  BY <1>0, <1>2, Called
<1>3. ASSUME NEW t \in Task, TaskRuns(t), stack' = Return PROVE SameClears
  <2>1. stack # <<>> /\ stack[1].who = t /\ Head(stack) = stack[1] /\ 1 \in 1 .. Len(stack)
    BY <1>3 DEF TaskRuns, Busy, Current, TypeOK
  <2>2. t \notin Fn
    BY NamesAssumption DEF Callback
  <2>3. Head(stack).clears = None
    BY <2>1, <2>2 DEF OnlyCallbacksClear
  <2>4. /\ OnlyCallbacksClear'
        /\ \A x : /\ Cleared(x)' => Cleared(x)
                  /\ Cleared(x) => Cleared(x)' \/ x = Head(stack).clears
    <3> HIDE DEF SameClears
    <3> QED BY <1>3, <2>1, Returned
  <2> QED BY <1>0, <2>3, <2>4
<1> QED BY <1>1, <1>2, <1>3

LEMMA WrapperPara ==
    ASSUME TypeInv, TypeOK, ParaPart, vm # "exit", Wrapper, SameClears
    PROVE  ParaPart'
<1>1. CASE ErrPolicy = "rollback"
  <2>1. PICK trace \in Arg : AdvStart(AssertFn, trace, 0)
    BY <1>1 DEF Wrapper
  <2> QED BY <2>1, AdvStartPara DEF Callback
<1>2. CASE ErrPolicy # "rollback"
  BY <1>2, SamePara DEF Wrapper, SameEntries
<1> QED BY <1>1, <1>2

(* A callback takes over the arguments of a timer that has ended.          *)
LEMMA ReceiveCallbackPara ==
    ASSUME TypeInv, TypeOK, ParaPart, NEW id \in Ids, ReceiveCallback(id)
    PROVE  ParaPart'
<1>1. /\ id \in MsgIds /\ stack = <<>> /\ vm = "up" /\ para' = para
  BY BoundsAssumption
     DEF ReceiveCallback, HandleTimer, Receiving, InLoop, Ids, TaskIds, MsgIds
<1>2. /\ \A i \in Ids \ {id} : timerPool'[i] = timerPool[i]
      /\ timerPool'[id] = IF timer[id].repeat = 0 THEN None ELSE timerPool[id]
  BY <1>1 DEF ReceiveCallback, TypeOK
<1>3. \A x : ~Cleared(x)
  BY <1>1 DEF Cleared
<1>4. \/ stack' = stack /\ vm' = "exit"
      \/ /\ timerPool[id] \in Fn
         /\ stack' = Call(timerPool[id], ClearsAfter(id))
  BY <1>1 DEF ReceiveCallback, Raises, TypeInv, IdsPartitioned, Callback
<1>5. /\ OnlyCallbacksClear'
      /\ \A x \in MsgIds : Cleared(x)' => x = ClearsAfter(id)
      /\ vm' # "exit" => \A x : x = ClearsAfter(id) => Cleared(x)'
  <2>1. CASE stack' = stack /\ vm' = "exit"
    BY <1>3, <2>1 DEF ParaPart, OnlyCallbacksClear, Cleared
  <2>2. CASE timerPool[id] \in Fn /\ stack' = Call(timerPool[id], ClearsAfter(id))
    <3>1. OnlyCallbacksClear
      BY DEF ParaPart
    <3>2. /\ OnlyCallbacksClear'
          /\ \A x : Cleared(x)' <=> Cleared(x) \/ x = ClearsAfter(id)
      BY <2>2, <3>1, Called
    <3> QED BY <1>3, <3>2
  <2> QED BY <1>4, <2>1, <2>2
<1>6. NothingRefused' <=> NothingRefused
  BY DEF NothingRefused
<1>7. \A x \in MsgIds : Cleared(x)' => timerPool'[x] = None
  BY <1>2, <1>5, IdSets, NamesAssumption DEF ClearsAfter
<1>8. vm' # "exit" => \A x \in MsgIds : para'[x] # None => timerPool'[x] # None \/ Cleared(x)'
  BY <1>1, <1>2, <1>3, <1>5, IdSets DEF ClearsAfter, ParaPart
<1>9. \A x \in TaskIds : para'[x] = None
  BY <1>1 DEF ParaPart
<1>10. NothingRefused => \A i, j \in MsgIds :
         timerPool'[i] # None /\ timerPool'[i] = timerPool'[j] /\ para'[i] = para'[j] => i = j
  BY <1>1, <1>2, IdSets DEF ParaPart
<1> QED BY <1>5, <1>6, <1>7, <1>8, <1>9, <1>10 DEF ParaPart

(* A callback returns, and drops the arguments.                            *)
LEMMA FnReturnPara == ASSUME TypeOK, ParaPart, FnReturn PROVE ParaPart'
<1> DEFINE id == Head(stack).clears
<1>1. stack # <<>> /\ stack' = Return /\ UNCHANGED <<timerPool, vm>>
  BY DEF FnReturn, Busy
<1>2. \A i \in Ids : para'[i] = IF i = id THEN None ELSE para[i]
  BY DEF FnReturn, Clear, TypeOK
<1>3. id \in MsgIds => timerPool[id] = None
  <2>1. Head(stack) = stack[1] /\ 1 \in 1 .. Len(stack)
    BY <1>1 DEF TypeOK
  <2> QED BY <2>1 DEF ParaPart, Cleared
<1> HIDE DEF id
<1>4. /\ OnlyCallbacksClear'
      /\ \A x : /\ Cleared(x)' => Cleared(x)
                /\ Cleared(x) => Cleared(x)' \/ x = id
  <2>1. OnlyCallbacksClear
    BY DEF ParaPart
  <2> QED BY <1>1, <2>1, Returned DEF id
<1>5. NothingRefused' <=> NothingRefused
  BY DEF NothingRefused
<1>6. \A x \in MsgIds : Cleared(x)' => timerPool'[x] = None
  BY <1>1, <1>4 DEF ParaPart
<1>7. vm' # "exit" => \A x \in MsgIds : para'[x] # None => timerPool'[x] # None \/ Cleared(x)'
  BY <1>1, <1>2, <1>4, IdSets DEF ParaPart
<1>8. \A x \in TaskIds : para'[x] = None
  BY <1>2, IdSets DEF ParaPart
<1>9. NothingRefused => \A i, j \in MsgIds :
        timerPool'[i] # None /\ timerPool'[i] = timerPool'[j] /\ para'[i] = para'[j] => i = j
  BY <1>1, <1>2, <1>3, IdSets DEF ParaPart
<1> QED BY <1>4, <1>5, <1>6, <1>7, <1>8, <1>9 DEF ParaPart

LEMMA NextPara == ParaInv /\ [Next]_vars => ParaInv'
<1> SUFFICES ASSUME ParaInv, [Next]_vars PROVE ParaPart'
  BY NextTimerInv DEF ParaInv
<1>0. /\ TypeInv /\ TypeOK /\ TaskPart /\ ParaPart
      /\ Fn \subseteq Callback /\ None \notin Ids
      /\ TaskIds \subseteq Ids /\ MsgIds \subseteq Ids /\ TaskIds \intersect MsgIds = {}
  BY NamesAssumption, IdSets DEF ParaInv, TimerInv, WaitInv, TypeInv, Callback
<1>1. ASSUME SameEntries, vm # "exit" \/ vm' = vm,
             \/ stack' = stack
             \/ \E who : stack' = Call(who, None)
             \/ \E t \in Task : TaskRuns(t) /\ stack' = Return
      PROVE  ParaPart'
  BY <1>0, <1>1, StackClears, SamePara
<1>2. ASSUME NEW f \in Fn, NEW a \in Arg \union {None}, NEW r \in Repeats, TimerAdvStart(f, a, r)
      PROVE  ParaPart'
  <2>1. vm = "up" /\ AdvStart(f, a, r) /\ stack' = stack
    BY <1>2 DEF TimerAdvStart, Busy
  <2> QED BY <1>0, <2>1, StackClears, AdvStartPara
<1>3. ASSUME \/ \E f \in Fn, a \in Arg \union {None} : TimerStop(f, a)
             \/ \E id \in MsgIds : TimerStopId(id)
             \/ \E f \in Fn : TimerStopAll(f)
      PROVE  ParaPart'
  <2>1. /\ \E S : StopTimers(S)
        /\ UNCHANGED <<stack, vm>>
    BY <1>3 DEF TimerStop, TimerStopId, TimerStopAll
  <2> QED BY <1>0, <2>1, StopPara
<1>4. ASSUME NEW m \in Topic, NEW f, Publish(m) \/ Subscribe(m, f) \/ Unsubscribe(m, f)
      PROVE  ParaPart'
  BY <1>1, <1>4 DEF Publish, Subscribe, Unsubscribe, SameEntries
<1>5. ASSUME NEW t \in Task, TaskInit(t)
      PROVE  ParaPart'
  BY <1>1, <1>5 DEF TaskInit, SameEntries
<1>6. ASSUME NEW t \in Task, NEW m, Wait(t, m) \/ WaitRefused(t) \/ WaitRaises(t, m)
      PROVE  ParaPart'
  <2>1. PICK id \in TaskIds : timerPool' = [timerPool EXCEPT ![id] = t]
    BY <1>6 DEF Wait, WaitRefused, WaitRaises
  <2>2. SameEntries
    BY <1>0, <1>6, <2>1, ZenonT(30) DEF Wait, WaitRefused, WaitRaises, SameEntries, TypeOK
  <2>3. vm = "up" /\ TaskRuns(t)
    BY <1>6 DEF Wait, WaitRefused, WaitRaises, TaskRuns, Busy
  <2> QED BY <1>1, <1>6, <2>2, <2>3 DEF Wait, WaitRefused, WaitRaises
<1>7. ASSUME NEW t \in Task, NEW m, WaitForever(t, m) \/ TaskReturn(t)
      PROVE  ParaPart'
  BY <1>1, <1>7 DEF WaitForever, TaskReturn, SameEntries
<1>8. ASSUME NEW t \in Task, TaskError(t)
      PROVE  ParaPart'
  <2>1. vm = "up" /\ TaskRuns(t) /\ stack' = Return /\ Wrapper
    BY <1>8 DEF TaskError, TaskRuns, Busy
  <2> QED BY <1>0, <2>1, StackClears, WrapperPara
<1>9. ASSUME NEW t \in Task, DispatchDead(t)
      PROVE  ParaPart'
  <2>1. vm = "up" /\ stack' = stack /\ Wrapper
    BY <1>9 DEF DispatchDead, InLoop
  <2> QED BY <1>0, <2>1, StackClears, WrapperPara
<1>23. CASE WaitRaised
  <2>1. vm # "exit" /\ stack' = stack /\ Wrapper
    BY <1>23 DEF WaitRaised
  <2> QED BY <1>0, <2>1, StackClears, WrapperPara
<1>10. ASSUME NEW t \in Task, DispatchTask(t) \/ Resume(t)
       PROVE  ParaPart'
  <2>1. ResumeWith(t) /\ para' = para /\ vm' = vm
    BY <1>10 DEF DispatchTask, Resume
  <2>2. co[t].timerid \in TaskIds \union {None}
    BY <1>0 DEF TypeOK
  <2>3. SameEntries
    BY <1>0, <2>1, <2>2 DEF ResumeWith, WokenEarly, Clear, SameEntries, TypeOK
  <2> QED BY <1>1, <2>1, <2>3 DEF ResumeWith
<1>11. CASE FnReturn
  BY <1>0, <1>11, FnReturnPara
<1>12. CASE FnError
  BY <1>1, <1>12 DEF FnError, SameEntries, Busy
<1>13. CASE Reboot
  <2>1. /\ \A id \in Ids : timerPool'[id] = None /\ para'[id] = None
        /\ \A i \in 1 .. Len(stack') : stack'[i].clears = None
    BY <1>13 DEF Reboot
  <2>2. \A id \in MsgIds : ~Cleared(id)'
    BY <1>0, <2>1 DEF Cleared
  <2> QED BY <1>0, <2>1, <2>2 DEF ParaPart, OnlyCallbacksClear
<1>14. ASSUME NEW f \in Fn, DispatchPop \/ DispatchFn(f)
       PROVE  ParaPart'
  BY <1>1, <1>14 DEF DispatchPop, DispatchFn, SameEntries
<1>15. CASE DispatchPop \/ ReceiveDriver \/ ReceiveStale \/ UNCHANGED vars
  BY <1>1, <1>15 DEF DispatchPop, ReceiveDriver, ReceiveStale, vars, SameEntries
<1>16. ASSUME NEW id \in Ids, ReceiveTaskTimer(id)
       PROVE  ParaPart'
  <2>1. id \in TaskIds /\ timerPool' = [timerPool EXCEPT ![id] = None]
    BY <1>16, BoundsAssumption DEF ReceiveTaskTimer, Ids, TaskIds, MsgIds
  <2>2. SameEntries
    BY <1>0, <1>16, <2>1 DEF ReceiveTaskTimer, SameEntries, TypeOK
  <2> QED BY <1>1, <1>16, <2>2 DEF ReceiveTaskTimer
<1>17. ASSUME NEW id \in Ids, ReceiveCallback(id)
       PROVE  ParaPart'
  BY <1>0, <1>17, ReceiveCallbackPara
<1>18. ASSUME NEW id, NEW m, Expire(id) \/ DriverEvent(m)
       PROVE  ParaPart'
  BY <1>1, <1>18 DEF Expire, DriverEvent, luaVars, SameEntries
<1>19. CASE Script
  BY <1>2, <1>3, <1>4, <1>5, <1>6, <1>10, <1>19 DEF Script
<1>20. CASE Yield
  BY <1>6, <1>7, <1>8, <1>11, <1>12, <1>20, <1>23 DEF Yield
<1>21. CASE Dispatch
  BY <1>9, <1>10, <1>14, <1>15, <1>21 DEF Dispatch
<1>22. CASE Receive
  BY <1>15, <1>16, <1>17, <1>22 DEF Receive
<1> QED
  BY <1>13, <1>15, <1>18, <1>19, <1>20, <1>21, <1>22 DEF Next

LEMMA ParaInvariant == Spec => []ParaInv
<1>1. Init => ParaInv
  BY InitTimerInv, InitParaPart DEF ParaInv
<1> QED BY <1>1, NextPara, PTL DEF Spec

(* Every C timer, of a task or of a callback, has an entry in the pool:    *)
(* for any number of tasks and slots, whatever start is refused, wait is   *)
(* cut short or message is lost.                                           *)
THEOREM TimersAlwaysOwned == Spec => []TimersAreOwned
<1>1. TimerInv => TimersAreOwned
  BY DEF TimerInv
<1> QED BY <1>1, TimersInvariant, PTL

(* While no message is lost and ids do not wrap (on the PC port, whose bus *)
(* has no limit), a task that waits with a timeout has its timer counting  *)
(* or its expiry on the bus.                                               *)
THEOREM SleepersAreArmed == ASSUME Lossless PROVE Spec => []BlockedTaskIsArmed
<1>1. ASSUME TimerInv PROVE BlockedTaskIsArmed
  <2>1. ASSUME NEW t \in Task, Blocked(t), co[t].timerid # None,
               NEW id, id = co[t].timerid
        PROVE  timerPool[id] = t /\ (timer[id].phase = "running" \/ OnBus(id))
    <3>1. id \in Ids /\ timer[id].phase \in Phases
      BY <1>1, <2>1, IdSets DEF TimerInv, WaitInv, TypeInv, TypeOK
    <3>2. /\ timerPool[id] = t /\ Live(id)
          /\ timer[id].phase = "expired" => OnBus(id)
      BY <1>1, <2>1 DEF TimerInv, TaskPart, Armed
    <3> QED BY <3>1, <3>2 DEF Live, Phases
  <2> QED BY <2>1 DEF BlockedTaskIsArmed
<1>2. TimerInv => BlockedTaskIsArmed
  BY <1>1
<1> QED BY <1>2, TimersInvariant, PTL

(* As long as no start is refused, nothing of a wait is left in the pool   *)
(* when it has ended, whether by its timer, a message or another script.   *)
THEOREM NothingLeftBehind == ASSUME NothingRefused PROVE Spec => []NoWaitResidue
<1>1. TimerInv => NoWaitResidue
  BY NamesAssumption
     DEF TimerInv, WaitInv, TypeInv, IdsPartitioned, TaskPart, NoResidue, NoWaitResidue, Ids
<1> QED BY <1>1, TimersInvariant, PTL

(* sys.run wakes a task only for the message it waits for or because the   *)
(* timer of this wait has expired: on FreeRTOS while ids do not wrap, since *)
(* a message of id 0 is resolved through freed memory there.               *)
THEOREM NeverWokenEarly ==
    ASSUME ~MayResume, Port = "pc" \/ ~MayWrap PROVE Spec => NoEarlyWake
<1> DEFINE Woken(t) == \/ Busy
                       \/ co[t].topic # None /\ message = co[t].topic
                       \/ co[t].timerid # None /\ timer[co[t].timerid].phase = "expired"
<1>1. ASSUME TimerInv, [Next]_vars, NEW t \in Task, Blocked(t), co'[t].st = "running"
      PROVE  Woken(t)
  <2>0. /\ TypeInv /\ TypeOK /\ TaskPart /\ TimersAreOwned /\ None \notin Topic \union Ids
    BY <1>1, NamesAssumption DEF TimerInv, WaitInv, TypeInv
  <2>1. \/ Busy
        \/ Dispatch \/ Receive \/ Reboot \/ UNCHANGED co
    BY <1>1 DEF Next, Script, Yield, TimerAdvStart, TimerStop, TimerStopId, TimerStopAll,
                Publish, Subscribe, Unsubscribe, TaskInit, WaitRefused, Resume, Wait,
                WaitForever, WaitRaises, WaitRaised, TaskReturn, TaskError, TaskRuns,
                FnReturn, FnError,
                Expire, DriverEvent, luaVars, vars
  <2>2. co'[t] # co[t]
    BY <1>1 DEF Blocked
  <2>3. ~Reboot
    BY <1>1 DEF Reboot, Dead
  <2>4. ASSUME NEW u \in Task, DispatchTask(u)
        PROVE  Woken(t)
    <3>1. u = t
      BY <2>0, <2>2, <2>4 DEF DispatchTask, ResumeWith, TypeOK
    <3>2. co[t].topic = message
      BY <1>1, <2>4, <3>1 DEF DispatchTask, TimerInv, WaitInv, WaitPart, SnapInv, SnapshotIsWaiting
    <3>3. message # None
      BY <1>1, <2>0, <2>4 DEF DispatchTask, TimerInv, SnapshotHasMessage
    <3> QED BY <3>2, <3>3
  <2>5. ASSUME NEW id \in Ids, ReceiveTaskTimer(id)
        PROVE  Woken(t)
    <3>1. /\ timerPool[id] \in Task /\ Live(id) /\ co[timerPool[id]].timerid = id
          /\ OnBus(Head(bus)) /\ Head(bus) \in Ids
          /\ id \in Resolved(Head(bus)) /\ id \in TaskIds
      BY <2>0, <2>5, ReceivePart
    <3>2. timerPool[id] = t
      BY <2>0, <2>2, <2>5, <3>1 DEF ReceiveTaskTimer, TypeOK
    <3>3. Head(bus) = id
      BY <2>0, <3>1 DEF Resolved, TaskPart, ZeroUnused
    <3>4. timer[id].phase = "expired"
      BY <2>0, <3>1, <3>3 DEF TaskPart, NotYetAgain, Live, TypeOK, Phases
    <3> QED BY <2>0, <3>1, <3>2, <3>4
  <2>6. /\ ~DispatchPop /\ ~ReceiveDriver /\ ~ReceiveStale
        /\ \A f \in Fn : ~DispatchFn(f)
        /\ \A u \in Task : ~DispatchDead(u)
        /\ \A id \in Ids : ~ReceiveCallback(id)
    BY <2>2 DEF DispatchPop, ReceiveDriver, ReceiveStale, DispatchFn, DispatchDead, ReceiveCallback
  <2>7. Busy => Woken(t)
    OBVIOUS
  <2> HIDE DEF Woken
  <2>8. CASE Dispatch
    BY <2>4, <2>6, <2>8 DEF Dispatch, Woken
  <2>9. CASE Receive
    BY <2>5, <2>6, <2>9 DEF Receive, Woken
  <2> QED BY <2>1, <2>2, <2>3, <2>7, <2>8, <2>9 DEF Woken
<1>2. TimerInv /\ [Next]_vars
      => [\A t \in Task : Blocked(t) /\ co'[t].st = "running" => Woken(t)]_vars
  BY <1>1
<1> QED BY <1>2, TimersInvariant, PTL DEF Spec, NoEarlyWake

(* Arguments belong to a timer that exists, or to the callback in progress *)
(* that drops them, whatever start is refused, callback fails or message   *)
(* is lost: no later timer of the id inherits them.  (sys.lua:352-386,     *)
(* 604-611)                                                                *)
THEOREM ArgumentsAreOwned == Spec => []ParaIsOwned
<1>1. ASSUME ParaInv PROVE ParaIsOwned
  <2>1. ASSUME NEW id \in Ids, para[id] # None, vm # "exit"
        PROVE  timerPool[id] \in Callback \/ Cleared(id)
    <3>1. id \in MsgIds
      BY <1>1, <2>1 DEF ParaInv, ParaPart, TimerInv, WaitInv, TypeInv, TypeOK, Ids
    <3>2. timerPool[id] # None \/ Cleared(id)
      BY <1>1, <2>1, <3>1 DEF ParaInv, ParaPart
    <3> QED BY <1>1, <3>1, <3>2 DEF ParaInv, TimerInv, WaitInv, TypeInv, IdsPartitioned
  <2> QED BY <2>1 DEF ParaIsOwned, Cleared
<1>2. ParaInv => ParaIsOwned
  BY <1>1
<1> QED BY <1>2, ParaInvariant, PTL

(* As long as no start is refused, callback and arguments identify a       *)
(* timer: no two run for the same pair, however starts, stops, expiries    *)
(* and repeats cross.  A refused start leaves an entry without arguments,  *)
(* and timerStart then stops whichever of two it meets.  (sys.lua:316-386) *)
THEOREM PairsAreUnique == ASSUME NothingRefused PROVE Spec => []UniqueTimers
<1>1. ASSUME ParaInv PROVE UniqueTimers
  <2>1. ASSUME NEW i \in Ids, timerPool[i] \in Callback
        PROVE  i \in MsgIds /\ timerPool[i] # None
    BY <1>1, <2>1, OwnedByCallback, NamesAssumption DEF ParaInv, TimerInv, WaitInv
  <2> QED BY <1>1, <2>1 DEF ParaInv, ParaPart, UniqueTimers
<1>2. ParaInv => UniqueTimers
  BY <1>1
<1> QED BY <1>2, ParaInvariant, PTL
=============================================================================
